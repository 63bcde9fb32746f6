------------------------- MODULE RendezvousService -------------------------
(***************************************************************************)
(* The rendezvous service (src/qlink-core/src/rendezvous.rs) with what it  *)
(* is built from: connection slots, request lines, rate limit and service  *)
(* tokens of admission.rs, control connections over TCP or TLS             *)
(* (control_transport.rs), the counters of service_metrics.rs and the      *)
(* scrape endpoint of metrics_endpoint.rs.  Counters are atomics of their  *)
(* own: a scrape reads them one by one while requests count.               *)
(***************************************************************************)
EXTENDS Naturals, FiniteSets

CONSTANTS Conns,     \* client connections
          Ips, IpOf, \* IpOf[c]: the source address of a connection
          MaxConns,  \* max_concurrent_connections
          MaxLine,   \* max_request_line_bytes
          MaxEvents, \* rate limit per window; 0 is no limit
          MaxSeq,    \* bound on sequences
          MaxLines   \* bound: request lines in all

VARIABLES tls,     \* is the service configured for TLS
          up,      \* "down", "serving"
          task,    \* task[c]: [at, scheme, line, request], a connection and its task
          bucket,  \* bucket[ip]: requests in the current window
          held,    \* the sequence of the record in the store; 0 for none
          count,   \* the counters
          lines,   \* history: request lines read in full
          dropped, \* history: requests whose connection ended without an answer
          scrape   \* [at, seen]: a scrape in progress and what it has read

serviceVars == <<tls, up, task, bucket, held, count, lines, dropped, scrape>>

\* The counters the properties are about; the others count in the same steps.
Counters == {"active", "auth_failures", "auth_revocations", "rate_limited", "malformed",
             "succeeded", "publishes", "publish_failures", "lookups"}

NoRequest == [type |-> "none", seq |-> 0, token |-> "none"]
Requests ==
    [type : {"publish"}, seq : 1..MaxSeq, token : {"none", "good", "revoked"}]
    \cup {[type |-> "lookup", seq |-> 0, token |-> "good"],
          [type |-> "malformed", seq |-> 0, token |-> "none"]}

Closed == [at |-> "closed", scheme |-> "none", line |-> 0, request |-> NoRequest]
Reading(c) == [Closed EXCEPT !.at = "reading", !.scheme = task[c].scheme]

ServiceInit ==
    /\ tls \in BOOLEAN /\ up = "down"
    /\ task = [c \in Conns |-> [Closed EXCEPT !.at = "none"]]
    /\ bucket = [ip \in Ips |-> 0] /\ held = 0
    /\ count = [k \in Counters |-> 0]
    /\ lines = 0 /\ dropped = 0
    /\ scrape = [at |-> "idle", seen |-> <<>>]

Becomes(c, t) == task' = [task EXCEPT ![c] = t]
Counts(ks) == count' = [k \in Counters |-> IF k \in ks THEN count[k] + 1 ELSE count[k]]

\* The task is over: its permit and its ActiveConnectionGuard are dropped.
Ends(c) == Becomes(c, Closed) /\ count' = [count EXCEPT !["active"] = @ - 1]

-----------------------------------------------------------------------------
(***************************************************************************)
(* Starting and accepting.                                                 *)
(***************************************************************************)
\* The address is bound and, with TLS, the certificate and its key are loaded.
run_rendezvous ==
    /\ up = "down" /\ up' = "serving"
    /\ UNCHANGED <<tls, task, bucket, held, count, lines, dropped, scrape>>

load_tls_acceptor == tls

\* A client names the service by scheme and address; tls:// needs a CA of the
\* client's and a host name.
ControlEndpoint(endpoint) == endpoint \in {"tcp", "tls"}
connect_tls_stream(ca) == ca

connect_control_stream(c, endpoint, ca) ==
    /\ up = "serving" /\ task[c].at = "none"
    /\ ControlEndpoint(endpoint) /\ (endpoint = "tls" => connect_tls_stream(ca))
    /\ Becomes(c, [Closed EXCEPT !.at = "new", !.scheme = endpoint])
    /\ UNCHANGED <<tls, up, bucket, held, count, lines, dropped, scrape>>

Serving == {c \in Conns : task[c].at \notin {"none", "new", "closed"}}
try_start_connection == Cardinality(Serving) < MaxConns

\* Over the limit a connection is dropped before anything is read from it.
Accept(c) ==
    /\ task[c].at = "new"
    /\ IF try_start_connection
       THEN /\ Becomes(c, IF load_tls_acceptor THEN [Reading(c) EXCEPT !.at = "handshake"]
                          ELSE Reading(c))
            /\ Counts({"active"})
       ELSE Becomes(c, Closed) /\ UNCHANGED count
    /\ UNCHANGED <<tls, up, bucket, held, lines, dropped, scrape>>

\* The handshake succeeds or fails, and takes as long as the client likes.
Handshake(c, ok) ==
    /\ task[c].at = "handshake" /\ (ok => task[c].scheme = "tls")
    /\ IF ok THEN Becomes(c, [Reading(c) EXCEPT !.scheme = "tcp"]) /\ UNCHANGED count
       ELSE Ends(c)
    /\ UNCHANGED <<tls, up, bucket, held, lines, dropped, scrape>>

-----------------------------------------------------------------------------
(***************************************************************************)
(* read_bounded_line: each byte restarts the idle timeout.                 *)
(***************************************************************************)
ReadByte(c) ==
    /\ task[c].at = "reading"
    /\ IF task[c].line = MaxLine THEN Ends(c)
       ELSE Becomes(c, [task[c] EXCEPT !.line = @ + 1]) /\ UNCHANGED count
    /\ UNCHANGED <<tls, up, bucket, held, lines, dropped, scrape>>

\* AdmissionLimiter::check: a refused request costs no event of the window.
check(c, request) ==
    LET ip == IpOf[c] IN
    IF MaxEvents > 0 /\ bucket[ip] >= MaxEvents
    THEN Becomes(c, Reading(c)) /\ Counts({"rate_limited"}) /\ UNCHANGED bucket
    ELSE /\ Becomes(c, [Reading(c) EXCEPT !.at = "admit", !.request = request])
         /\ bucket' = [bucket EXCEPT ![ip] = @ + (IF MaxEvents > 0 THEN 1 ELSE 0)]
         /\ UNCHANGED count

\* The newline, which counts as a byte of the line, or the end of the stream
\* after some bytes.
ReadLine(c, request) ==
    /\ task[c].at = "reading" /\ task[c].line < MaxLine /\ lines < MaxLines
    /\ ~tls /\ task[c].scheme = "tls" => request.type = "malformed"
    /\ lines' = lines + 1
    /\ check(c, request)
    /\ UNCHANGED <<tls, up, held, dropped, scrape>>

IdleTimeout(c) ==
    /\ task[c].at = "reading"
    /\ Ends(c)
    /\ UNCHANGED <<tls, up, bucket, held, lines, dropped, scrape>>

EndOfStream(c) ==
    /\ task[c].at = "reading" /\ task[c].line = 0
    /\ Ends(c)
    /\ UNCHANGED <<tls, up, bucket, held, lines, dropped, scrape>>

-----------------------------------------------------------------------------
(***************************************************************************)
(* A request.                                                              *)
(***************************************************************************)
\* Both files are read for every request.  With a revocation list that cannot
\* be read a request that names a token gets no answer.
token_is_revoked(r) == r.token = "revoked"
ListUnavailable(r, list) == r.token # "none" /\ ~list
expected_token(file) == IF file THEN {"good"} ELSE {}
require_token(r, file) == r.token \in expected_token(file)

auth_revocation_uncounted == {"auth_revocations"}
auth_revocation == {"auth_revocations", "auth_failures"}

Refused(c, ks) == Becomes(c, Reading(c)) /\ Counts(ks) /\ UNCHANGED dropped

Admit(c, list, file) ==
    LET r == task[c].request IN
    /\ task[c].at = "admit"
    /\ IF r.type = "malformed" THEN Refused(c, {"malformed"})
       ELSE IF ListUnavailable(r, list) THEN Ends(c) /\ dropped' = dropped + 1
       ELSE IF token_is_revoked(r) THEN Refused(c, auth_revocation)
       ELSE IF ~require_token(r, file) THEN Refused(c, {"auth_failures"})
       ELSE /\ Becomes(c, [task[c] EXCEPT !.at = r.type])
            /\ UNCHANGED <<count, dropped>>
    /\ UNCHANGED <<tls, up, bucket, held, lines, scrape>>

\* RendezvousStore::publish; the counter of the kind comes before that of the
\* successes.
Publish(c) ==
    LET r == task[c].request IN
    /\ task[c].at = "publish"
    /\ IF r.seq > held
       THEN held' = r.seq /\ Counts({"publishes"}) /\ Becomes(c, [task[c] EXCEPT !.at = "done"])
       ELSE UNCHANGED held /\ Counts({"publish_failures"}) /\ Becomes(c, Reading(c))
    /\ UNCHANGED <<tls, up, bucket, lines, dropped, scrape>>

Lookup(c) ==
    /\ task[c].at = "lookup"
    /\ Becomes(c, [task[c] EXCEPT !.at = "done"])
    /\ Counts({"lookups"})
    /\ UNCHANGED <<tls, up, bucket, held, lines, dropped, scrape>>

Succeeded(c) ==
    /\ task[c].at = "done" /\ Becomes(c, Reading(c)) /\ Counts({"succeeded"})
    /\ UNCHANGED <<tls, up, bucket, held, lines, dropped, scrape>>

-----------------------------------------------------------------------------
(***************************************************************************)
(* The scrape: only GET /metrics reads the counters, in snapshot's order.  *)
(***************************************************************************)
ScrapeOrder == <<"succeeded", "publishes", "lookups">>

ScrapeRequest(line) ==
    /\ scrape.at = "idle" /\ up = "serving"
    /\ scrape' = IF line = "GET /metrics" THEN [at |-> "reading", seen |-> <<>>]
                 ELSE scrape
    /\ UNCHANGED <<tls, up, task, bucket, held, count, lines, dropped>>

ScrapeLoad ==
    LET n == Cardinality(DOMAIN scrape.seen) + 1 IN
    /\ scrape.at = "reading"
    /\ scrape' = [at |-> IF n = 3 THEN "read" ELSE "reading",
                  seen |-> [i \in 1..n |-> IF i = n THEN count[ScrapeOrder[n]]
                                           ELSE scrape.seen[i]]]
    /\ UNCHANGED <<tls, up, task, bucket, held, count, lines, dropped>>

ScrapeAnswer ==
    /\ scrape.at = "read" /\ scrape' = [at |-> "idle", seen |-> <<>>]
    /\ UNCHANGED <<tls, up, task, bucket, held, count, lines, dropped>>

-----------------------------------------------------------------------------
WindowPasses(ip) ==
    /\ bucket[ip] > 0 /\ bucket' = [bucket EXCEPT ![ip] = 0]
    /\ UNCHANGED <<tls, up, task, held, count, lines, dropped, scrape>>

RecordExpires ==
    /\ held > 0 /\ held' = 0
    /\ UNCHANGED <<tls, up, task, bucket, count, lines, dropped, scrape>>

Reads(c) == ReadByte(c) \/ IdleTimeout(c) \/ EndOfStream(c)
            \/ \E r \in Requests : ReadLine(c, r)
Handles(c) == (\E list, file \in BOOLEAN : Admit(c, list, file)) \/ Publish(c) \/ Lookup(c) \/ Succeeded(c)

ServiceNext ==
    \/ run_rendezvous \/ ScrapeLoad \/ ScrapeAnswer \/ RecordExpires
    \/ \E line \in {"GET /metrics", "GET /", "POST /metrics"} : ScrapeRequest(line)
    \/ \E ip \in Ips : WindowPasses(ip)
    \/ \E c \in Conns, endpoint \in {"tcp", "tls", "host"}, ca \in BOOLEAN :
         connect_control_stream(c, endpoint, ca)
    \/ \E c \in Conns : Accept(c) \/ Reads(c) \/ Handles(c)
                        \/ \E ok \in BOOLEAN : Handshake(c, ok)

ServiceSpec == ServiceInit /\ [][ServiceNext]_serviceVars

-----------------------------------------------------------------------------
\* Every request line is counted once: as a success or under the reason it was
\* refused for (a revoked token also as an authentication failure), unless it
\* is still being handled or its connection ended over an unreadable list; and
\* the gauge of open connections is the number of slots taken.
RequestsAreAccounted ==
    /\ lines = count["succeeded"] + count["auth_failures"] + count["rate_limited"]
               + count["malformed"] + count["publish_failures"] + dropped
               + Cardinality({c \in Conns : task[c].at \notin
                                {"none", "new", "closed", "handshake", "reading"}})
    /\ count["active"] = Cardinality(Serving) /\ count["active"] <= MaxConns

\* A scrape taken while requests are counted never shows more successes than
\* publishes and lookups.
ScrapeIsConsistent ==
    scrape.at = "read" => scrape.seen[1] <= scrape.seen[2] + scrape.seen[3]

\* The counters of the service add up, at every moment and in every scrape that is
\* taken while requests are handled.
CountersAgree == RequestsAreAccounted /\ ScrapeIsConsistent

=============================================================================

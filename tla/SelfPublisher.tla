---------------------------- MODULE SelfPublisher ----------------------------
(***************************************************************************)
(* qlinkctl publish-self (src/qlink-core/src/bin/qlinkctl.rs): gather the  *)
(* node's candidates from its STUN and TURN servers (traversal.rs,         *)
(* stun.rs, turn.rs), sign them into a record, publish it at the           *)
(* rendezvous, sleep half its lifetime and start over.  A failed publish   *)
(* ends the process; whoever runs it may start it again, with its sequence *)
(* back at 1.  now counts seconds.                                         *)
(***************************************************************************)
EXTENDS Integers, Sequences, SequencesExt

CONSTANTS StunServers, TurnServers,   \* sequences of servers
          Host, Mapped, Relayed,      \* the host address, and those a server may report
          QlinkRelay,                 \* the configured QuantumLink relay
          Ttl, StunTimeout, TurnTimeout,
          MaxNow                      \* bound on now

VARIABLES run,        \* [at, next, seq]: the process and its place in the loop
          gathered,   \* the candidates gathered in this round
          failed,     \* the servers reported as failed in this round
          published,  \* the endpoints of the record last accepted, or <<>>
          held,       \* the record the rendezvous holds: [seq, expires]
          now

publisherVars == <<run, gathered, failed, published, held, now>>

Servers == StunServers \o TurnServers
IsStun(i) == i <= Len(StunServers)
NoHeld == [seq |-> 0, expires |-> 0]

PublisherInit ==
    /\ run = [at |-> "off", next |-> 1, seq |-> 1]
    /\ gathered = <<>> /\ failed = {} /\ published = <<>>
    /\ held = NoHeld /\ now = 0

-----------------------------------------------------------------------------
(***************************************************************************)
(* Candidates: a type, an address and the priority of the type.            *)
(***************************************************************************)
TypePreference == [host |-> 126, srflx |-> 100, qlink_relay |-> 0, relay |-> 0]

\* ice_priority with the one local preference and component in use.
ice_priority(type) ==
    TypePreference[type] * 256 + 255 + (IF type = "qlink_relay" THEN 1 ELSE 0)

Candidate(type, addr) == [type |-> type, addr |-> addr, priority |-> ice_priority(type)]
host_candidate(addr) == Candidate("host", addr)
server_reflexive_candidate(addr) == Candidate("srflx", addr)
relay_candidate(addr) == Candidate("relay", addr)
quantum_link_relay_candidate(addr) == Candidate("qlink_relay", addr)

\* gather_*: an address already listed is not listed again.
PushNew(list, c) == IF \E i \in DOMAIN list : list[i].addr = c.addr THEN list
                    ELSE Append(list, c)

IsRelay(c) == c.type \in {"relay", "qlink_relay"}

Precedes(s, i, j) ==
    IF IsRelay(s[i]) # IsRelay(s[j]) THEN IsRelay(s[j])
    ELSE s[i].priority > s[j].priority \/ (s[i].priority = s[j].priority /\ i < j)

order_remote_candidates(s) ==
    LET order == SetToSortSeq(DOMAIN s, LAMBDA i, j : Precedes(s, i, j))
    IN  [i \in DOMAIN s |-> s[order[i]]]

\* The advertised host address first, then what was gathered, without
\* repeating a candidate of one type and address.
published_candidate_endpoints(extra) ==
    LET all == <<host_candidate(Host)>> \o extra
        new(i) == \A j \in 1..i - 1 :
                    all[j].type # all[i].type \/ all[j].addr # all[i].addr
        kept == SetToSortSeq({i \in DOMAIN all : new(i)}, <)
    IN  order_remote_candidates([k \in DOMAIN kept |-> all[kept[k]]])

-----------------------------------------------------------------------------
\* run_publish_self up to its loop: the sequence starts at 1.
Start ==
    /\ run.at = "off"
    /\ run' = [at |-> "gather", next |-> 1, seq |-> 1]
    /\ gathered' = <<host_candidate(Host)>> /\ failed' = {}
    /\ UNCHANGED <<published, held, now>>

\* What a STUN server, the network or silence leave the client with.
BindingAnswers == {"success", "no_address", "cut", "other_transaction", "silence"}
parse_binding_response(answer) == answer = "success"

\* gather_server_reflexive_candidate: one request, one datagram read; an
\* answer that does not parse or names another transaction is a failure.
StunAnswered(answer, addr, took) ==
    LET ok == parse_binding_response(answer) IN
    /\ answer = "silence" => took = StunTimeout
    /\ run.at = "gather" /\ run.next <= Len(Servers) /\ IsStun(run.next)
    /\ took \in 0..StunTimeout /\ now + took <= MaxNow
    /\ gathered' = IF ok THEN PushNew(gathered, server_reflexive_candidate(addr)) ELSE gathered
    /\ failed' = IF ok THEN failed ELSE failed \cup {run.next}
    /\ now' = now + took
    /\ run' = [run EXCEPT !.next = @ + 1]
    /\ UNCHANGED <<published, held>>

\* gather_relay_candidate: an Allocate exchange, with up to two timeouts.
TurnAnswered(ok, addr, took) ==
    /\ run.at = "gather" /\ run.next <= Len(Servers) /\ ~IsStun(run.next)
    /\ took \in 0..2 * TurnTimeout /\ now + took <= MaxNow
    /\ gathered' = IF ok THEN PushNew(gathered, relay_candidate(addr)) ELSE gathered
    /\ failed' = IF ok THEN failed ELSE failed \cup {run.next}
    /\ now' = now + took
    /\ run' = [run EXCEPT !.next = @ + 1]
    /\ UNCHANGED <<published, held>>

\* RendezvousStore::publish turns down a sequence that does not increase on a
\* record that is still alive.
Accepts(seq) == held.expires <= now \/ seq > held.seq

\* publish_self_with_extra_candidates_and_auth: with the record accepted the
\* loop sleeps for half the lifetime; with an error the process ends.
SleepWholeTtl == IF Ttl > 1 THEN Ttl ELSE 1
SleepFor == IF Ttl \div 2 > 1 THEN Ttl \div 2 ELSE 1

Publish(reachable) ==
    /\ run.at = "gather" /\ run.next > Len(Servers)
    /\ IF reachable /\ Accepts(run.seq)
       THEN /\ held' = [seq |-> run.seq, expires |-> now + Ttl]
            /\ published' = published_candidate_endpoints(
                               Append(gathered, quantum_link_relay_candidate(QlinkRelay)))
            /\ run' = [at |-> "asleep", next |-> now + SleepFor, seq |-> run.seq + 1]
       ELSE run' = [at |-> "off", next |-> 1, seq |-> 1] /\ UNCHANGED <<held, published>>
    /\ UNCHANGED <<gathered, failed, now>>

Wake ==
    /\ run.at = "asleep" /\ run.next <= MaxNow
    /\ now' = run.next
    /\ run' = [run EXCEPT !.at = "gather", !.next = 1]
    /\ gathered' = <<host_candidate(Host)>> /\ failed' = {}
    /\ UNCHANGED <<published, held>>

\* The process is killed, or the time until somebody starts it again passes.
Killed ==
    /\ run.at # "off" /\ run' = [at |-> "off", next |-> 1, seq |-> 1]
    /\ UNCHANGED <<gathered, failed, published, held, now>>

TimePasses ==
    /\ run.at = "off" /\ now < MaxNow /\ now' = now + 1
    /\ UNCHANGED <<run, gathered, failed, published, held>>

PublisherNext ==
    \/ Start \/ Wake \/ Killed \/ TimePasses
    \/ \E answer \in BindingAnswers, took \in 0..StunTimeout, a \in Mapped \cup {Host} :
         StunAnswered(answer, a, took)
    \/ \E ok \in BOOLEAN, took \in {0, TurnTimeout, 2 * TurnTimeout}, a \in Relayed \cup Mapped :
         TurnAnswered(ok, a, took)
    \/ \E reachable \in BOOLEAN : Publish(reachable)

PublisherSpec == PublisherInit /\ [][PublisherNext]_publisherVars

-----------------------------------------------------------------------------
\* "Republish at TTL/2 so consumers always see a fresh record before the
\* previous one is allowed to expire" (run_publish_self): once a running
\* process has published, its record at the rendezvous is alive whenever it
\* sleeps, wakes and gathers, with every server of the round timing out.
NoLapseWhileRunning ==
    run.at # "off" /\ run.seq > 1 => now <= held.expires

=============================================================================

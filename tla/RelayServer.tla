---------------------------- MODULE RelayServer ----------------------------
(***************************************************************************)
(* The relay server (qlink-core/src/relay.rs): one task per client         *)
(* connection over a shared registry of three maps, each behind a mutex of *)
(* its own: the writer of every registered peer, the digest of the token   *)
(* it registered with, and its datagram quota.                             *)
(*                                                                         *)
(* The mutex of the writers is held across writes to client sockets.  The  *)
(* end of a registration visits the three maps one after another.          *)
(***************************************************************************)
EXTENDS Naturals, FiniteSets

CONSTANTS
    Conns,           \* client connections
    Peers,           \* relay peer ids
    Tokens,          \* service tokens
    None,
    MaxConnections,  \* max_concurrent_connections
    MaxRegistered,   \* relay_max_registered_peers
    Quota            \* relay_max_peer_datagrams_per_window

ASSUME RelayAssumption ==
    /\ None \notin Conns \cup Peers \cup Tokens
    /\ MaxConnections \in Nat \ {0} /\ MaxRegistered \in Nat /\ Quota \in Nat \ {0}

VARIABLES
    pc,        \* where each connection's task is
    request,   \* the registration or datagram it is handling
    reg,       \* registered_peer
    token,     \* history: the token it registered with
    writer,    \* pending_writer is still there
    peers,     \* RelayRegistry.peers: whose writer is stored
    digests,   \* peer_auth_token_digests
    buckets,   \* peer_datagram_buckets: the count of the current window
    lock,      \* who holds the peers mutex
    gone,      \* clients that have left: writes to them may fail
    expected,  \* the token in the token file
    revoked,   \* the tokens in the revocation list
    listed     \* the revocation list can be read

registry == <<peers, digests, buckets>>
files == <<expected, revoked, listed>>
vars == <<pc, request, reg, token, writer, registry, lock, gone, files>>

\* The places where a task serves its client.
Serving == {"open", "admitted", "granting", "checked", "counted", "forwarding"}
Ending == {"unlink", "forget", "release"}

Init ==
    /\ pc = [c \in Conns |-> "new"]
    /\ request = [c \in Conns |-> None]
    /\ reg = [c \in Conns |-> None]
    /\ token = [c \in Conns |-> None]
    /\ writer = [c \in Conns |-> TRUE]
    /\ peers = [p \in Peers |-> None]
    /\ digests = [p \in Peers |-> None]
    /\ buckets = [p \in Peers |-> None]
    /\ lock = None
    /\ gone = {}
    /\ expected \in Tokens
    /\ revoked = {}
    /\ listed = TRUE

Goto(c, place) == pc' = [pc EXCEPT ![c] = place]

\* The task leaves its loop: it ends its registration, when it has one.
Leave(c) == Goto(c, IF reg[c] = None THEN "closed" ELSE "unlink")

-----------------------------------------------------------------------------
(* The connection.                                                          *)

\* serve_relay: a connection over the limit is dropped.
AcceptConnection(c) ==
    /\ pc[c] = "new"
    /\ Goto(c, IF Cardinality({d \in Conns : pc[d] \in Serving \cup Ending}) < MaxConnections
                 THEN "open" ELSE "closed")
    /\ UNCHANGED <<request, reg, token, writer, registry, lock, gone, files>>

\* End of stream, idle timeout, a line that is too long or malformed, a rate limit,
\* a peer id or a payload over its limit, a datagram from another source.  A client
\* that has not registered is sent the error first; a failing write ends it alike.
Disconnect(c) ==
    /\ pc[c] = "open"
    /\ Leave(c)
    /\ UNCHANGED <<request, reg, token, writer, registry, lock, gone, files>>

-----------------------------------------------------------------------------
(* RelayMessage::Register.                                                  *)

\* token_is_revoked fails when the list cannot be read, and the task returns at
\* once.  A registered client's further requests change nothing.
Register(c, p, t) ==
    /\ pc[c] = "open"
    /\ IF ~listed THEN Goto(c, "closed") /\ UNCHANGED request
       ELSE IF t \in revoked \/ t # expected THEN Leave(c) /\ UNCHANGED request
       ELSE IF ~writer[c] THEN UNCHANGED <<pc, request>>
       ELSE /\ Goto(c, "admitted")
            /\ request' = [request EXCEPT ![c] = [peer |-> p, token |-> t]]
    /\ UNCHANGED <<reg, token, writer, registry, lock, gone, files>>

Registered == {p \in Peers : peers[p] # None}

RefusedUnlessFull(p) == Cardinality(Registered) >= MaxRegistered

Refused(p) == peers[p] # None \/ Cardinality(Registered) >= MaxRegistered

\* The peers mutex is taken; a duplicate or one too many is refused, otherwise the
\* answer is written, still under the mutex.
LockForRegister(c) ==
    /\ pc[c] = "admitted" /\ lock = None
    /\ writer' = [writer EXCEPT ![c] = FALSE]
    /\ IF Refused(request[c].peer)
         THEN Leave(c) /\ UNCHANGED lock /\ request' = [request EXCEPT ![c] = None]
         ELSE Goto(c, "granting") /\ lock' = c /\ UNCHANGED request
    /\ UNCHANGED <<reg, token, registry, gone, files>>

\* The answer is written and the peer is entered, with its token's digest.
Grant(c) ==
    LET p == request[c].peer IN
    /\ pc[c] = "granting"
    /\ peers' = [peers EXCEPT ![p] = c]
    /\ digests' = [digests EXCEPT ![p] = request[c].token]
    /\ reg' = [reg EXCEPT ![c] = p]
    /\ token' = [token EXCEPT ![c] = request[c].token]
    /\ lock' = None
    /\ request' = [request EXCEPT ![c] = None]
    /\ Goto(c, "open")
    /\ UNCHANGED <<writer, buckets, gone, files>>

\* The answer cannot be written: the task returns and nothing is entered.
GrantFails(c) ==
    /\ pc[c] = "granting" /\ c \in gone
    /\ lock' = None
    /\ Goto(c, "closed")
    /\ request' = [request EXCEPT ![c] = None]
    /\ UNCHANGED <<reg, token, writer, registry, gone, files>>

-----------------------------------------------------------------------------
(* RelayMessage::Datagram, from the registered peer.                        *)

DigestRevoked(c) == digests[reg[c]] \in revoked

\* registered_relay_peer_is_revoked: no digest counts as not revoked and reads no
\* list; a list that cannot be read makes the task return, its registration left.
Datagram(c, q) ==
    /\ pc[c] = "open" /\ reg[c] # None
    /\ IF digests[reg[c]] # None /\ ~listed
         THEN Goto(c, "closed") /\ UNCHANGED request
       ELSE IF DigestRevoked(c) THEN Leave(c) /\ UNCHANGED request
       ELSE /\ Goto(c, "checked")
            /\ request' = [request EXCEPT ![c] = [peer |-> q, token |-> None]]
    /\ UNCHANGED <<reg, token, writer, registry, lock, gone, files>>

\* check_peer_datagram_quota.
Count(c) ==
    LET p == reg[c]
        used == IF buckets[p] = None THEN 0 ELSE buckets[p]
    IN
    /\ pc[c] = "checked"
    /\ IF used >= Quota
         THEN /\ Leave(c) /\ buckets' = [buckets EXCEPT ![p] = used]
              /\ request' = [request EXCEPT ![c] = None]
         ELSE /\ Goto(c, "counted") /\ buckets' = [buckets EXCEPT ![p] = used + 1]
              /\ UNCHANGED request
    /\ UNCHANGED <<reg, token, writer, peers, digests, lock, gone, files>>

\* The peers mutex is taken; a datagram to nobody is dropped, another is written
\* to the destination's socket, still under the mutex.
LockForForward(c) ==
    /\ pc[c] = "counted" /\ lock = None
    /\ IF peers[request[c].peer] = None
         THEN /\ Goto(c, "open")
              /\ request' = [request EXCEPT ![c] = None]
              /\ UNCHANGED lock
         ELSE Goto(c, "forwarding") /\ lock' = c /\ UNCHANGED request
    /\ UNCHANGED <<reg, token, writer, registry, gone, files>>

ForwardKeepingLock(c) ==
    /\ pc[c] = "forwarding"
    /\ request' = [request EXCEPT ![c] = None]
    /\ Goto(c, "open")
    /\ UNCHANGED <<reg, token, writer, registry, lock, gone, files>>

Forward(c) ==
    /\ pc[c] = "forwarding"
    /\ lock' = None
    /\ request' = [request EXCEPT ![c] = None]
    /\ Goto(c, "open")
    /\ UNCHANGED <<reg, token, writer, registry, gone, files>>

\* The write to the destination's socket fails: the SENDER's task returns, and
\* leaves the sender's registration behind.
ForwardFails(c) ==
    /\ pc[c] = "forwarding" /\ peers[request[c].peer] \in gone
    /\ lock' = None
    /\ Goto(c, "closed")
    /\ request' = [request EXCEPT ![c] = None]
    /\ UNCHANGED <<reg, token, writer, registry, gone, files>>

-----------------------------------------------------------------------------
(* end_relay_registration.                                                  *)

Unlink(c) ==
    /\ pc[c] = "unlink" /\ lock = None
    /\ peers' = [peers EXCEPT ![reg[c]] = None]
    /\ Goto(c, "forget")
    /\ UNCHANGED <<request, reg, token, writer, digests, buckets, lock, gone, files>>

Forget(c) ==
    /\ pc[c] = "forget"
    /\ digests' = [digests EXCEPT ![reg[c]] = None]
    /\ Goto(c, "release")
    /\ UNCHANGED <<request, reg, token, writer, peers, buckets, lock, gone, files>>

Release(c) ==
    /\ pc[c] = "release"
    /\ buckets' = [buckets EXCEPT ![reg[c]] = None]
    /\ Goto(c, "closed")
    /\ UNCHANGED <<request, reg, token, writer, peers, digests, lock, gone, files>>

-----------------------------------------------------------------------------
(* The world around the server.                                             *)

ClientLeaves(c) ==
    /\ pc[c] \in Serving /\ c \notin gone
    /\ gone' = gone \cup {c}
    /\ UNCHANGED <<pc, request, reg, token, writer, registry, lock, files>>

\* relay_peer_datagram_window passes: the next datagram starts to count from zero.
WindowPasses(p) ==
    /\ buckets[p] # None /\ buckets[p] # 0
    /\ buckets' = [buckets EXCEPT ![p] = 0]
    /\ UNCHANGED <<pc, request, reg, token, writer, peers, digests, lock, gone, files>>

RotateToken(t) ==
    /\ t # expected
    /\ expected' = t
    /\ UNCHANGED <<pc, request, reg, token, writer, registry, lock, gone, revoked, listed>>

RevokeToken(t) ==
    /\ t \notin revoked
    /\ revoked' = revoked \cup {t}
    /\ UNCHANGED <<pc, request, reg, token, writer, registry, lock, gone, expected, listed>>

\* The operator's editor replaces the list: it is missing for a while.
ReplaceList ==
    /\ listed' = ~listed
    /\ UNCHANGED <<pc, request, reg, token, writer, registry, lock, gone, expected, revoked>>

Task(c) ==
    \/ LockForRegister(c) \/ Grant(c) \/ GrantFails(c)
    \/ Count(c) \/ LockForForward(c) \/ Forward(c) \/ ForwardFails(c)
    \/ Unlink(c) \/ Forget(c) \/ Release(c)

Next ==
    \/ \E c \in Conns : AcceptConnection(c) \/ Disconnect(c) \/ ClientLeaves(c) \/ Task(c)
    \/ \E c \in Conns, p \in Peers, t \in Tokens : Register(c, p, t)
    \/ \E c \in Conns, q \in Peers : Datagram(c, q)
    \/ \E p \in Peers : WindowPasses(p)
    \/ \E t \in Tokens : RotateToken(t) \/ RevokeToken(t)
    \/ ReplaceList

Spec == Init /\ [][Next]_vars

\* tokio schedules every task that can run, and its mutex serves waiters in order.
\* A write to a client ends: the client reads, or its connection breaks.
FairSpec ==
    /\ Spec
    /\ \A c \in Conns : /\ SF_vars(LockForRegister(c) \/ LockForForward(c) \/ Unlink(c))
                        /\ WF_vars(Task(c))

-----------------------------------------------------------------------------
(* Properties.                                                              *)

\* A client that was told it is registered can be reached under its id for as long
\* as its task serves it: no duplicate, and no former owner's late teardown, takes
\* its entry away.
RegisteredIsReachable ==
    \A c \in Conns : pc[c] \in Serving /\ reg[c] # None => peers[reg[c]] = c

\* The digest a peer's datagrams are checked against is its own: never that of a
\* token some former connection registered the same id with.
DigestIsOwn ==
    \A c \in Conns : pc[c] \in Serving /\ reg[c] # None
                       => digests[reg[c]] \in {token[c], None}

\* What the server holds under a registered id, its entry and its digest, is the
\* client's own for as long as its task serves it.
RegistrationIsOwn == RegisteredIsReachable /\ DigestIsOwn

\* The task of c is in the middle of a request or of its end; it waits for neither.
Busy(c) == pc[c] \in (Serving \cup Ending) \ {"open"}
AtRest(c) == pc[c] \in {"open", "closed"}

\* No request waits forever for the peers mutex, and every registration whose end
\* has begun is wound up.
EveryTaskProceeds == \A c \in Conns : Busy(c) ~> AtRest(c)

=============================================================================

--------------------------- MODULE RelayFallback ---------------------------
(***************************************************************************)
(* Relay fallback end to end: the session managers of one node that dial   *)
(* their peers through one relay (mesh_connection.rs, connect_via_relay),  *)
(* the relay's registry entry for the node's id, and at every peer the     *)
(* responder that demultiplexes the relayed datagrams into sessions by     *)
(* source id (relay.rs, RelayResponderListener).                           *)
(*                                                                         *)
(* A node registers under one id, whichever peer it dials.  A relayed      *)
(* session has no close datagram: its responder learns nothing of a link   *)
(* its initiator has left, and a new attempt's datagrams reach the session *)
(* of the attempt before.                                                  *)
(***************************************************************************)
EXTENDS Naturals, Sequences

CONSTANTS
    Remotes,       \* the peers the node falls back to the relay for
    None,
    MaxInFlight,   \* bound: data frames between the node and one peer
    MaxLosses      \* bound: connections to the relay that break

FallbackAssumption == None \notin Remotes /\ MaxInFlight \in Nat /\ MaxLosses \in Nat

VARIABLES
    mgr,       \* the manager of each peer: down, awaiting the answer, up, backing off
    owner,     \* whose connection the relay has registered under the node's id
    toRemote,  \* datagrams the relay carries to the peer, in order
    toNode,    \* answers on their way back to the dialing connection
    sess,      \* the peer's session for the node, by what it waits for
    stale,     \* that session's keys, or its hello, are of an attempt given up since
    chan,      \* the session's channel
    losses     \* connections to the relay that broke

remoteVars == <<sess, stale, chan>>
vars == <<mgr, owner, toRemote, toNode, remoteVars, losses>>

\* A datagram: signed assertion, client hello, finish or data, and whether it is of
\* an attempt the manager has given up since.
Datagrams == [type : {"assertion", "hello", "finish", "data"}, old : BOOLEAN]

New(type) == [type |-> type, old |-> FALSE]
Aged(queue) == [i \in DOMAIN queue |-> [queue[i] EXCEPT !.old = TRUE]]

Init ==
    /\ mgr = [r \in Remotes |-> "down"]
    /\ owner = None
    /\ toRemote = [r \in Remotes |-> <<>>]
    /\ toNode = [r \in Remotes |-> <<>>]
    /\ sess = [r \in Remotes |-> "none"]
    /\ stale = [r \in Remotes |-> FALSE]
    /\ chan = [r \in Remotes |-> <<>>]
    /\ losses = 0

-----------------------------------------------------------------------------
(* The node's managers.                                                     *)

Connected(r) == mgr[r] \in {"await", "up"}

\* What was sent so far, and the session it made, are of an earlier attempt from
\* here on.
AgeAll(r) ==
    /\ chan' = [chan EXCEPT ![r] = Aged(@)]
    /\ stale' = [stale EXCEPT ![r] = sess[r] \in {"finish", "running"}]
    /\ toNode' = [toNode EXCEPT ![r] = <<>>]

\* Mutant: the relay lets a second connection register an id.
DialUnchecked(r) ==
    /\ mgr[r] = "down"
    /\ mgr' = [mgr EXCEPT ![r] = "await"]
    /\ owner' = r
    /\ toRemote' = [toRemote EXCEPT ![r] = Aged(@) \o <<New("assertion"), New("hello")>>]
    /\ AgeAll(r)
    /\ UNCHANGED <<sess, losses>>

\* connect_via_relay: register, then send the assertion and the hello in one go.
\* The relay refuses an id that is registered, by whichever connection.
Dial(r) ==
    /\ mgr[r] = "down"
    /\ IF owner # None
         THEN /\ mgr' = [mgr EXCEPT ![r] = "backoff"]
              /\ UNCHANGED <<owner, toRemote, toNode, stale, chan>>
         ELSE /\ mgr' = [mgr EXCEPT ![r] = "await"]
              /\ owner' = r
              /\ toRemote' = [toRemote EXCEPT ![r] =
                                 Aged(@) \o <<New("assertion"), New("hello")>>]
              /\ AgeAll(r)
    /\ UNCHANGED <<sess, losses>>

\* The answer arrives: the initiator finishes its own handshake and no other.
TakeAnswer(r) ==
    /\ mgr[r] = "await" /\ toNode[r] # <<>>
    /\ toNode' = [toNode EXCEPT ![r] = Tail(@)]
    /\ IF Head(toNode[r]).old
         THEN mgr' = [mgr EXCEPT ![r] = "backoff"] /\ UNCHANGED toRemote
         ELSE /\ mgr' = [mgr EXCEPT ![r] = "up"]
              /\ toRemote' = [toRemote EXCEPT ![r] = Append(@, New("finish"))]
    /\ UNCHANGED <<owner, remoteVars, losses>>

\* overall_deadline.  It outlasts an exchange that makes progress.
Timeout(r) ==
    /\ mgr[r] = "await" /\ toNode[r] = <<>> /\ toRemote[r] = <<>>
    /\ chan[r] = <<>>
    /\ mgr' = [mgr EXCEPT ![r] = "backoff"]
    /\ UNCHANGED <<owner, toRemote, toNode, remoteVars, losses>>

BackoffOver(r) ==
    /\ mgr[r] = "backoff"
    /\ mgr' = [mgr EXCEPT ![r] = "down"]
    /\ UNCHANGED <<owner, toRemote, toNode, remoteVars, losses>>

SendFrame(r) ==
    /\ mgr[r] = "up" /\ Len(toRemote[r]) + Len(chan[r]) < MaxInFlight
    /\ toRemote' = [toRemote EXCEPT ![r] = Append(@, New("data"))]
    /\ UNCHANGED <<mgr, owner, toNode, remoteVars, losses>>

\* A path change, rotation or rekey: the manager closes the link, which for a relayed
\* one sends nothing, and dials again at once.
LinkEnds(r) ==
    /\ mgr[r] = "up"
    /\ mgr' = [mgr EXCEPT ![r] = "down"]
    /\ UNCHANGED <<owner, toRemote, toNode, remoteVars, losses>>

\* The connection to the relay breaks, whatever the manager waits for.
ConnectionLost(r) ==
    /\ losses < MaxLosses /\ losses' = losses + 1
    /\ Connected(r)
    /\ mgr' = [mgr EXCEPT ![r] = IF @ = "up" THEN "down" ELSE "backoff"]
    /\ UNCHANGED <<owner, toRemote, toNode, remoteVars>>

\* The relay reads the end of a connection the node has dropped.
RelayNoticesEnd ==
    /\ owner # None /\ ~Connected(owner)
    /\ owner' = None
    /\ UNCHANGED <<mgr, toRemote, toNode, remoteVars, losses>>

-----------------------------------------------------------------------------
(* The peer: the demultiplexer and the session it feeds.                    *)

\* RelayResponderListener::run_with_auth: a datagram goes to the live session of its
\* source, or starts a new one.
Demux(r) ==
    /\ toRemote[r] # <<>>
    /\ toRemote' = [toRemote EXCEPT ![r] = Tail(@)]
    /\ chan' = [chan EXCEPT ![r] = Append(@, Head(toRemote[r]))]
    /\ sess' = [sess EXCEPT ![r] = IF @ = "none" THEN "assertion" ELSE @]
    /\ UNCHANGED <<mgr, owner, toNode, stale, losses>>

\* The session returns: its receiver is dropped with all it has not read.
End(r) ==
    /\ sess' = [sess EXCEPT ![r] = "none"]
    /\ stale' = [stale EXCEPT ![r] = FALSE]
    /\ chan' = [chan EXCEPT ![r] = <<>>]

Stay(r, state) ==
    /\ sess' = [sess EXCEPT ![r] = state]
    /\ chan' = [chan EXCEPT ![r] = Tail(@)]

\* PqcResponderState::finish: the finish message of the hello that was answered.
OwnFinish(r, m) == m.type = "finish" /\ m.old = stale[r]

\* The answer reaches the connection that is registered at the moment.
Answer(r, m) ==
    toNode' = IF owner = r /\ Connected(r)
                THEN [toNode EXCEPT ![r] = Append(@, [type |-> "answer", old |-> m.old])]
                ELSE toNode

\* handle_inbound_session reads one message.  A message of the kind it does not wait
\* for is parked: data during the handshake, handshake messages once it runs.
SessionStep(r) ==
    LET m == Head(chan[r]) IN
    /\ sess[r] # "none" /\ chan[r] # <<>>
    /\ \/ /\ sess[r] # "running" /\ m.type = "data"
          /\ Stay(r, sess[r]) /\ UNCHANGED <<stale, toNode>>
       \/ /\ sess[r] = "running" /\ m.type # "data"
          /\ Stay(r, "running") /\ UNCHANGED <<stale, toNode>>
       \/ /\ sess[r] = "assertion" /\ m.type \in {"hello", "finish"}
          /\ End(r) /\ UNCHANGED toNode
       \/ /\ sess[r] = "assertion" /\ m.type = "assertion"
          /\ Stay(r, "hello") /\ UNCHANGED <<stale, toNode>>
       \/ /\ sess[r] = "hello" /\ m.type \in {"assertion", "finish"}
          /\ End(r) /\ UNCHANGED toNode
       \/ /\ sess[r] = "hello" /\ m.type = "hello"
          /\ Stay(r, "finish") /\ stale' = [stale EXCEPT ![r] = m.old]
          /\ Answer(r, m)
       \/ /\ sess[r] = "finish" /\ m.type # "data"
          /\ IF OwnFinish(r, m)
               THEN Stay(r, "running") /\ UNCHANGED stale
               ELSE End(r)
          /\ UNCHANGED toNode
       \/ /\ sess[r] = "running" /\ m.type = "data"
          /\ IF m.old = stale[r] THEN Stay(r, "running") /\ UNCHANGED stale ELSE End(r)
          /\ UNCHANGED toNode
    /\ UNCHANGED <<mgr, owner, toRemote, losses>>

\* packet_session_lifetime_seconds.
Deadline(r) ==
    /\ sess[r] = "running"
    /\ End(r)
    /\ UNCHANGED <<mgr, owner, toRemote, toNode, losses>>

\* pqc_responder_handshake_timeout.  It covers the handshake, not the assertion.
HandshakeTimeout(r) ==
    /\ sess[r] \in {"hello", "finish"} /\ chan[r] = <<>>
    /\ toRemote[r] = <<>>
    /\ mgr[r] = "await" => toNode[r] = <<>>
    /\ End(r)
    /\ UNCHANGED <<mgr, owner, toRemote, toNode, losses>>

-----------------------------------------------------------------------------

Next ==
    \/ \E r \in Remotes :
         \/ Dial(r) \/ TakeAnswer(r) \/ Timeout(r) \/ BackoffOver(r)
         \/ SendFrame(r) \/ LinkEnds(r) \/ ConnectionLost(r)
         \/ Demux(r) \/ SessionStep(r) \/ Deadline(r) \/ HandshakeTimeout(r)
    \/ RelayNoticesEnd

Spec == Init /\ [][Next]_vars

\* The session manager of r, which is one task; the tasks of the peer; and the timers of
\* the peer's session.
ManagerStep(r) ==
    Dial(r) \/ TakeAnswer(r) \/ Timeout(r) \/ BackoffOver(r) \/ LinkEnds(r)
PeerStep(r) == Demux(r) \/ SessionStep(r)
SessionTimer(r) == Deadline(r) \/ HandshakeTimeout(r)

\* Every task that can run does, every timer that is set fires (a link that nothing
\* else ends is ended by rotation_deadline), and the relay reads
\* the end of a dropped connection.  A manager dials in the end at a moment when the
\* id is free, when there are such moments for ever.
FairSpec ==
    /\ Spec
    /\ WF_vars(RelayNoticesEnd)
    /\ \A r \in Remotes :
         /\ WF_vars(ManagerStep(r)) /\ SF_vars(owner = None /\ Dial(r))
         /\ WF_vars(PeerStep(r)) /\ WF_vars(SessionTimer(r))

-----------------------------------------------------------------------------
(* Properties.                                                              *)

\* The relay never carries two of the node's links at a time: whoever is connected
\* is the one that is registered.
OneLinkPerNode == \A r \in Remotes : Connected(r) => owner = r

LinkIsUp == \E r \in Remotes : mgr[r] = "up"

\* Whatever ends a link, and though the datagrams of a new attempt reach the session
\* of the old one, the node has a link through the relay again and again.
LinkComesUpAgain == []<>LinkIsUp

=============================================================================

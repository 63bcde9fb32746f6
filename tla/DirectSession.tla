---------------------------- MODULE DirectSession ---------------------------
(***************************************************************************)
(* A direct session over native UDP, end to end: the connector's probe     *)
(* (mesh_connection.rs), the listener that multiplexes the responder's one *)
(* socket (carrier_transport.rs), the responder's task per session         *)
(* (mesh_transport.rs) and the three-message PQC handshake between them    *)
(* (pqc_session_wire.rs, session_crypto.rs).                               *)
(*                                                                         *)
(* Every attempt binds a fresh port, so an attempt is also the address the *)
(* listener sees.  The network loses, repeats and reorders datagrams.  A   *)
(* handshake message is one datagram here: CarrierSession shows that its   *)
(* fragments are put together as sent, and within one session once.  No    *)
(* message is sent again by either end: a lost one costs the attempt.      *)
(***************************************************************************)
EXTENDS Naturals, Sequences, FiniteSets

CONSTANTS
    MaxAttempts,    \* bound: probes of one connector, one after the other
    MaxGeneration,  \* bound: sessions the listener creates
    MaxSessions,    \* MAX_LISTENER_SESSIONS (1024)
    QueueDepth,     \* LISTENER_SESSION_QUEUE_DEPTH (256)
    AcceptDepth,    \* LISTENER_ACCEPT_QUEUE_DEPTH (64)
    MaxParked,      \* MAX_PENDING_MESSAGES (64)
    MaxFrames       \* bound: frames sent on one link

DirectAssumption ==
    /\ MaxAttempts \in Nat \ {0} /\ MaxGeneration \in Nat \ {0}
    /\ MaxSessions \in Nat \ {0} /\ QueueDepth \in Nat \ {0} /\ AcceptDepth \in Nat \ {0}
    /\ MaxParked \in Nat /\ MaxFrames \in Nat

Attempts == 1 .. MaxAttempts
Sessions == 1 .. MaxGeneration

VARIABLES
    ipc,        \* the initiator's attempts: unused, waiting, linked or over
    linkedTo,   \* the responder hello an attempt finished with, 0 for none
    sentFrames, \* frames sent on the link of an attempt
    wire,       \* datagrams sent to the responder: they stay deliverable
    answers,    \* datagrams sent to the initiator's sockets
    entry,      \* the listener's sessions map: address -> generation, 0 for none
    addr,       \* the address of each session
    queue,      \* its datagram queue
    accepts,    \* the accept queue
    rpc,        \* the responder's task: unborn, backlog, assertion, hello, finish,
                \* established, closing, closed or gone
    seen,       \* fragmented messages a session has completed
    parked,     \* frames parked while the handshake runs
    surfaced,   \* history: frames a session handed to the transport
    cut         \* history: sessions the dispatcher itself has taken off the map

initiatorVars == <<ipc, linkedTo, sentFrames>>
listenerVars  == <<entry, addr, accepts>>
taskVars      == <<rpc, seen, parked, surfaced>>
vars == <<initiatorVars, wire, answers, listenerVars, queue, taskVars, cut>>

Init ==
    /\ ipc = [a \in Attempts |-> "unused"]
    /\ linkedTo = [a \in Attempts |-> 0]
    /\ sentFrames = [a \in Attempts |-> 0]
    /\ wire = {} /\ answers = {}
    /\ entry = [a \in Attempts |-> 0]
    /\ addr = [g \in Sessions |-> 0]
    /\ queue = [g \in Sessions |-> <<>>]
    /\ accepts = <<>>
    /\ rpc = [g \in Sessions |-> "unborn"]
    /\ seen = [g \in Sessions |-> {}]
    /\ parked = [g \in Sessions |-> <<>>]
    /\ surfaced = [g \in Sessions |-> <<>>]
    /\ cut = {}

\* A datagram of attempt a.  A finish names the responder hello it answers, a frame
\* the one its keys come from; n tells frames apart.
Datagram(a, type, of, n) == [from |-> a, type |-> type, of |-> of, n |-> n]

-----------------------------------------------------------------------------
(* The initiator: race_native_udp_direct_probes, run_pqc_session_initiator, *)
(* and the session manager that drives the link afterwards.                 *)

\* The socket is bound and connected; the assertion and the hello go out without an
\* answer in between.
Probe(a) ==
    /\ ipc[a] = "unused"
    /\ a > 1 => ipc[a - 1] = "over"
    /\ ipc' = [ipc EXCEPT ![a] = "waiting"]
    /\ wire' = wire \cup {Datagram(a, "assertion", 0, 0), Datagram(a, "hello", 0, 0)}
    /\ UNCHANGED <<linkedTo, sentFrames, answers, listenerVars, queue, taskVars, cut>>

\* direct_probe_timeout: the session is dropped, without a close datagram.
ProbeTimeout(a) ==
    /\ ipc[a] = "waiting"
    /\ ipc' = [ipc EXCEPT ![a] = "over"]
    /\ UNCHANGED <<linkedTo, sentFrames, wire, answers, listenerVars, queue, taskVars, cut>>

\* The responder hello arrives.  PqcInitiatorState::finish signs the transcript of
\* both hellos; with the finish sent the link is up on this side.
Finish(a, g) ==
    /\ ipc[a] = "waiting"
    /\ [to |-> a, type |-> "hello", of |-> g] \in answers
    /\ ipc' = [ipc EXCEPT ![a] = "linked"]
    /\ linkedTo' = [linkedTo EXCEPT ![a] = g]
    /\ wire' = wire \cup {Datagram(a, "finish", g, 0)}
    /\ UNCHANGED <<sentFrames, answers, listenerVars, queue, taskVars, cut>>

\* A close datagram ends the probe, or the link, which answers with a close.
Closed(a) ==
    /\ ipc[a] \in {"waiting", "linked"}
    /\ [to |-> a, type |-> "close", of |-> 0] \in answers
    /\ ipc' = [ipc EXCEPT ![a] = "over"]
    /\ wire' = IF ipc[a] = "linked" THEN wire \cup {Datagram(a, "close", 0, 0)} ELSE wire
    /\ UNCHANGED <<linkedTo, sentFrames, answers, listenerVars, queue, taskVars, cut>>

SendFrame(a) ==
    /\ ipc[a] = "linked"
    /\ sentFrames[a] < MaxFrames
    /\ sentFrames' = [sentFrames EXCEPT ![a] = @ + 1]
    /\ wire' = wire \cup {Datagram(a, "frame", linkedTo[a], sentFrames[a] + 1)}
    /\ UNCHANGED <<ipc, linkedTo, answers, listenerVars, queue, taskVars, cut>>

\* rotation_deadline, a network event or a shutdown: the link is closed.
Rotate(a) ==
    /\ ipc[a] = "linked"
    /\ ipc' = [ipc EXCEPT ![a] = "over"]
    /\ wire' = wire \cup {Datagram(a, "close", 0, 0)}
    /\ UNCHANGED <<linkedTo, sentFrames, answers, listenerVars, queue, taskVars, cut>>

-----------------------------------------------------------------------------
(* The listener's dispatcher.                                               *)

\* The receiver of a session's queue still exists.
Receiving(g) == rpc[g] \notin {"unborn", "gone"}

Fresh == {g \in Sessions : rpc[g] = "unborn"}

NextGeneration == CHOOSE g \in Fresh : \A h \in Fresh : g <= h

MapFull(sessions) == Cardinality({b \in Attempts : sessions[b] # 0}) >= MaxSessions

\* A datagram for an address without a usable session.  The session it creates is
\* dropped again when the accept queue is full; a close creates none.
NewSession(d, sessions) ==
    LET a == d.from
        g == NextGeneration
    IN  IF d.type = "close" \/ MapFull(sessions)
          THEN entry' = sessions /\ UNCHANGED <<addr, queue, accepts, rpc>>
          ELSE /\ Fresh # {}
               /\ addr' = [addr EXCEPT ![g] = a]
               /\ IF Len(accepts) < AcceptDepth
                    THEN /\ entry' = [sessions EXCEPT ![a] = g]
                         /\ queue' = [queue EXCEPT ![g] = <<d>>]
                         /\ accepts' = Append(accepts, g)
                         /\ rpc' = [rpc EXCEPT ![g] = "backlog"]
                    ELSE /\ entry' = sessions
                         /\ rpc' = [rpc EXCEPT ![g] = "gone"]
                         /\ UNCHANGED <<queue, accepts>>

\* One datagram off the socket.  It goes to the session of its address when that can
\* take it; a session whose queue is full or gone is replaced.
Dispatch(d) ==
    LET a == d.from
        g == entry[a]
        taken == g # 0 /\ Receiving(g) /\ Len(queue[g]) < QueueDepth
        off == IF g # 0 /\ (~taken \/ d.type = "close") THEN {g} ELSE {}
        left == [entry EXCEPT ![a] = IF off = {} THEN @ ELSE 0]
    IN  /\ cut' = cut \cup off
        /\ IF taken
             THEN /\ queue' = [queue EXCEPT ![g] = Append(@, d)]
                  /\ entry' = left
                  /\ UNCHANGED <<addr, accepts, rpc>>
             ELSE NewSession(d, left)
        /\ UNCHANGED <<initiatorVars, wire, answers, seen, parked, surfaced>>

-----------------------------------------------------------------------------
(* The responder's task of session g.                                       *)

Accept ==
    /\ accepts # <<>>
    /\ accepts' = Tail(accepts)
    /\ rpc' = [rpc EXCEPT ![Head(accepts)] = "assertion"]
    /\ UNCHANGED <<initiatorVars, wire, answers, entry, addr, queue, seen, parked, surfaced, cut>>

\* Where an assertion that verifies leads, or one that is rejected: too old, not on
\* the access list, or refused by the identity registry policy.
AssertionOutcomes == {"hello", "closing"}

\* PqcResponderState::finish: only the finish that signs this session's own hello.
AnyFinish(g, d) == TRUE

OwnFinish(g, d) == d.of = g

\* What the next handshake message leads to.  A message out of order, or one that
\* does not parse as the expected one, is an error.
AfterMessage(g, d) ==
    IF d.type = "assertion" /\ rpc[g] = "assertion" THEN AssertionOutcomes
    ELSE IF d.type = "hello" /\ rpc[g] = "hello" THEN {"finish"}
    ELSE IF d.type = "finish" /\ rpc[g] = "finish" /\ OwnFinish(g, d) THEN {"established"}
    ELSE {"closing"}

Handshaking == {"assertion", "hello", "finish"}

\* A handshake message, once per session: completed_fragments drops a repeated one.
TakeMessage(g, d) ==
    /\ rpc[g] \in Handshaking
    /\ d.type \in {"assertion", "hello", "finish"}
    /\ IF d \in seen[g]
         THEN UNCHANGED <<seen, rpc, answers>>
         ELSE /\ seen' = [seen EXCEPT ![g] = @ \cup {d}]
              /\ \E next \in AfterMessage(g, d) : rpc' = [rpc EXCEPT ![g] = next]
              /\ answers' = IF rpc'[g] = "finish"
                              THEN answers \cup {[to |-> addr[g], type |-> "hello", of |-> g]}
                              ELSE answers
    /\ UNCHANGED <<parked, surfaced>>

\* A frame that overtakes the handshake is parked.
ParkFrame(g, d) ==
    /\ rpc[g] \in Handshaking
    /\ d.type = "frame"
    /\ IF Len(parked[g]) < MaxParked
         THEN parked' = [parked EXCEPT ![g] = Append(@, d)] /\ UNCHANGED rpc
         ELSE rpc' = [rpc EXCEPT ![g] = "closing"] /\ UNCHANGED parked
    /\ UNCHANGED <<seen, answers, surfaced>>

\* PqcFrameProtector::open: the keys of another handshake, or a repeated frame, end
\* the session.
Open(g, d) ==
    IF d.of = g /\ \A i \in DOMAIN surfaced[g] : surfaced[g][i] # d
      THEN surfaced' = [surfaced EXCEPT ![g] = Append(@, d)] /\ UNCHANGED rpc
      ELSE rpc' = [rpc EXCEPT ![g] = "closing"] /\ UNCHANGED surfaced

\* The frame loop: parked frames first.
TakeParked(g) ==
    /\ rpc[g] = "established"
    /\ parked[g] # <<>>
    /\ parked' = [parked EXCEPT ![g] = Tail(@)]
    /\ Open(g, Head(parked[g]))
    /\ UNCHANGED <<initiatorVars, wire, answers, listenerVars, queue, seen, cut>>

\* A late handshake message is parked for nobody: it has no effect here.
TakeFrame(g, d) ==
    /\ rpc[g] = "established"
    /\ parked[g] = <<>>
    /\ d.type # "close"
    /\ IF d.type = "frame" THEN Open(g, d) ELSE UNCHANGED <<rpc, surfaced>>
    /\ UNCHANGED <<seen, answers, parked>>

TakeClose(g, d) ==
    /\ rpc[g] \in Handshaking \cup {"established"}
    /\ d.type = "close"
    /\ rpc[g] = "established" => parked[g] = <<>>
    /\ rpc' = [rpc EXCEPT ![g] = "closing"]
    /\ UNCHANGED <<seen, answers, parked, surfaced>>

\* The session reads its queue.
Read(g) ==
    /\ queue[g] # <<>>
    /\ queue' = [queue EXCEPT ![g] = Tail(@)]
    /\ LET d == Head(queue[g]) IN
       TakeMessage(g, d) \/ ParkFrame(g, d) \/ TakeFrame(g, d) \/ TakeClose(g, d)
    /\ UNCHANGED <<initiatorVars, wire, listenerVars, cut>>

\* pqc_responder_handshake_timeout, which covers the two handshake messages and not
\* the assertion, or the deadline of an established session.
Timeout(g) ==
    /\ rpc[g] \in {"hello", "finish", "established"}
    /\ rpc' = [rpc EXCEPT ![g] = "closing"]
    /\ UNCHANGED <<initiatorVars, wire, answers, listenerVars, queue, seen, parked, surfaced, cut>>

\* clear_listener_session: not when another holds the map at this moment, and only
\* the session's own entry.
CloseEntry(g, contended) ==
    entry' = [entry EXCEPT ![addr[g]] = IF ~contended /\ @ = g THEN 0 ELSE @]

\* session.close.  The queue exists until the task has ended: the dispatcher may still
\* use an entry that stayed.
Close(g, contended) ==
    /\ rpc[g] = "closing"
    /\ rpc' = [rpc EXCEPT ![g] = "closed"]
    /\ answers' = answers \cup {[to |-> addr[g], type |-> "close", of |-> 0]}
    /\ CloseEntry(g, contended)
    /\ UNCHANGED <<initiatorVars, wire, addr, accepts, queue, seen, parked, surfaced, cut>>

Drop(g) ==
    /\ rpc[g] = "closed"
    /\ rpc' = [rpc EXCEPT ![g] = "gone"]
    /\ queue' = [queue EXCEPT ![g] = <<>>]
    /\ seen' = [seen EXCEPT ![g] = {}]
    /\ parked' = [parked EXCEPT ![g] = <<>>]
    /\ UNCHANGED <<initiatorVars, wire, answers, listenerVars, surfaced, cut>>

Next ==
    \/ \E a \in Attempts :
          \/ Probe(a) \/ ProbeTimeout(a) \/ Closed(a) \/ SendFrame(a) \/ Rotate(a)
          \/ \E g \in Sessions : Finish(a, g)
    \/ \E d \in wire : Dispatch(d)
    \/ Accept
    \/ \E g \in Sessions :
          \/ Read(g) \/ TakeParked(g) \/ Timeout(g) \/ Drop(g)
          \/ \E contended \in BOOLEAN : Close(g, contended)

Spec == Init /\ [][Next]_vars

-----------------------------------------------------------------------------
(* Properties.                                                              *)

\* The two ends agree: a session the responder has established belongs to an attempt
\* whose initiator finished the same handshake, whatever was lost, repeated or
\* overtaken, and no second session of that attempt, opened by repeated datagrams,
\* ever gets as far.
EstablishedByBothEnds ==
    \A g \in Sessions : rpc[g] = "established" =>
        /\ linkedTo[addr[g]] = g
        /\ ipc[addr[g]] \in {"linked", "over"}

\* A frame reaches the transport only from an established session, under the keys it
\* was sealed with, and only once.
SurfacedUnderItsKeys ==
    \A g \in Sessions : \A i \in DOMAIN surfaced[g] :
        LET d == surfaced[g][i] IN
        /\ d.from = addr[g] /\ linkedTo[d.from] = g /\ d.n <= sentFrames[d.from]
        /\ \A j \in DOMAIN surfaced[g] : surfaced[g][j] = d => j = i

\* A running session stays reachable for its address: only the dispatcher, on a close
\* or a full queue, or the session itself takes its entry off the map, never the
\* close of an older session of the same address.
RunningSessionReachable ==
    \A g \in Sessions :
        rpc[g] \in {"backlog", "established"} \cup Handshaking /\ g \notin cut
            => entry[addr[g]] = g

\* The two ends and the dispatcher agree on every session: who established it, whose
\* frames it surfaces, and where its address leads while it runs.
SessionsAgree == EstablishedByBothEnds /\ SurfacedUnderItsKeys /\ RunningSessionReachable

=============================================================================

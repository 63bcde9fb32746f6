--------------------------- MODULE PacketSessions ---------------------------
(***************************************************************************)
(* Packet sessions of a mesh transport (qlink-core/src/mesh_transport.rs). *)
(*                                                                         *)
(* One tokio task per peer, the session manager, connects, takes a packet  *)
(* session generation, publishes a lease in the state it shares with the   *)
(* transport handle, announces it with Ready, drives the link, and ends    *)
(* the lease with Cleared.  Inbound sessions accepted by the native UDP    *)
(* responder are tasks of their own that take generations from the same    *)
(* counter.  The handle's callers add, remove and replace peers and shut   *)
(* the transport down, from another thread, while the tasks run.           *)
(*                                                                         *)
(* A task runs from one await to the next without pause; abort() acts only *)
(* when it is parked at an await.  The values of pc in Parked are awaits,  *)
(* the others are points inside a poll where another thread can interfere. *)
(***************************************************************************)
EXTENDS Naturals, Sequences

CONSTANTS
    Peers,             \* peer ids
    NoPeer,            \* default_peer_id = None
    MaxManagers,       \* bound: session managers spawned in one behaviour
    InboundIds,        \* inbound session tasks of the responder
    MaxGeneration,     \* u64::MAX: the generation counter stops there
    RekeyAfter,        \* packet_session_rekey_after_bytes, in frames
    InboundCapacity,   \* capacity of the inbound frame channel (1024)
    NetworkEvents,     \* the kinds of NetworkEvent delivered
    MaxNetworkEvents   \* bound: network events in one behaviour

ASSUME SessionAssumption ==
    /\ NoPeer \notin Peers
    /\ MaxManagers \in Nat \ {0}
    /\ MaxGeneration \in Nat
    /\ RekeyAfter \in Nat \ {0}
    /\ InboundCapacity \in Nat \ {0}
    /\ NetworkEvents \subseteq {"path_changed", "post_wake", "reachable",
                                "pre_sleep", "unreachable"}
    /\ MaxNetworkEvents \in Nat

Managers == 1 .. MaxManagers
Generations == 1 .. MaxGeneration
Directions == {"outbound", "inbound"}

\* Network events after which a new attempt is worth making at once.
Improving == {"path_changed", "post_wake", "reachable"}

VARIABLES
    pc,          \* where each session manager is
    peerOf,      \* the peer a manager serves
    gen,         \* the generation of a manager's current link
    relayed,     \* its path kind: TRUE for Relay, FALSE for Direct
    bytes,       \* session_bytes, in frames
    exit,        \* SessionLoopExit of the link that just ended
    inbox,       \* network events queued for a manager
    lease,       \* SharedState.packet_session: a generation, 0 for None
    expired,     \* the published lease is past expires_at_unix
    state,       \* SharedState.state
    stop,        \* a message waits in shutdown_rx
    aborted,     \* abort() was called on the task
    active,      \* the handle's peers map: peer -> manager, 0 for no entry
    default,     \* default_peer_id
    control,     \* what the handle's caller is in the middle of
    counter,     \* packet_session_generation
    ipc, ipeer, igen, ibytes,   \* inbound session tasks
    frames,      \* the inbound frame channel
    netCount,    \* network events delivered so far
    readied,     \* history: <<dir, generation>> announced Ready
    clears       \* history: how often <<dir, generation>> was announced Cleared

taskVars    == <<pc, peerOf, gen, relayed, bytes, exit>>
sharedVars  == <<lease, expired, state>>
signalVars  == <<inbox, stop, aborted, netCount>>
handleVars  == <<active, default, control>>
inboundVars == <<ipc, ipeer, igen, ibytes>>
outputVars  == <<readied, clears>>
vars == <<taskVars, sharedVars, signalVars, handleVars, inboundVars, outputVars,
          counter, frames>>

\* A blocking send into the inbound channel: no await, so nothing to abort at.
ParkedUnlessDelivering == {"connecting", "backoff", "linked"}

Parked == {"connecting", "backoff", "linked", "delivering"}

\* step: where the call is; manager, peer: whom it shuts down; taken: the lease it
\* took; next: the peer to add afterwards; all: it drains the whole map.
Idle == [step |-> "idle", manager |-> 0, peer |-> NoPeer, taken |-> 0,
         next |-> NoPeer, all |-> FALSE]

\* new_with_keypair: the configured remote peer is the default one and has the
\* first manager.
Init ==
    \E p \in Peers :
    /\ pc = [m \in Managers |-> IF m = 1 THEN "connecting" ELSE "unborn"]
    /\ peerOf = [m \in Managers |-> p]
    /\ gen = [m \in Managers |-> 0]
    /\ relayed = [m \in Managers |-> FALSE]
    /\ bytes = [m \in Managers |-> 0]
    /\ exit = [m \in Managers |-> "none"]
    /\ inbox = [m \in Managers |-> <<>>]
    /\ lease = [m \in Managers |-> 0]
    /\ expired = [m \in Managers |-> FALSE]
    /\ state = [m \in Managers |-> "Connecting"]
    /\ stop = [m \in Managers |-> FALSE]
    /\ aborted = [m \in Managers |-> FALSE]
    /\ active = [q \in Peers |-> IF q = p THEN 1 ELSE 0]
    /\ default = p
    /\ control = Idle
    /\ counter = 0
    /\ ipc = [i \in InboundIds |-> "idle"]
    /\ ipeer = [i \in InboundIds |-> p]
    /\ igen = [i \in InboundIds |-> 0]
    /\ ibytes = [i \in InboundIds |-> 0]
    /\ frames = <<>>
    /\ netCount = 0
    /\ readied = {}
    /\ clears = [d \in Directions |-> [g \in Generations |-> 0]]

-----------------------------------------------------------------------------
(* The packet session event channel, as the history of what was sent on it; *)
(* PumpFeed turns such a history into the channel the packet pumps read.    *)

\* Ready for the outbound lease and, on a path that carries inbound frames too,
\* for the inbound one.
SendReady(g, dirs) ==
    /\ readied' = readied \cup (dirs \X {g})
    /\ UNCHANGED clears

SendCleared(g, dirs) ==
    /\ clears' = [d \in Directions |->
                    IF d \in dirs THEN [clears[d] EXCEPT ![g] = @ + 1] ELSE clears[d]]
    /\ UNCHANGED readied

\* The directions a link carries: manager_carries_inbound is relay only.
DirectionsOf(m) == IF relayed[m] THEN Directions ELSE {"outbound"}

-----------------------------------------------------------------------------
(* The session manager task: run_session_manager.                           *)

\* The task can take its next step at await w: abort() has not ended it.
At(m, w) == pc[m] = w /\ ~aborted[m]

\* connect() fails: note the error, then wait out the backoff delay.  How long
\* the delay is depends on consecutive_failures, which nothing else reads, and is
\* left open here.
ConnectFails(m) ==
    /\ At(m, "connecting")
    /\ pc' = [pc EXCEPT ![m] = "backoff"]
    /\ state' = [state EXCEPT ![m] = "Failed"]
    /\ UNCHANGED <<peerOf, gen, relayed, bytes, exit, lease, expired, signalVars,
                   handleVars, inboundVars, outputVars, counter, frames>>

\* The head of the loop: set_state(Connecting), and connect again.
Reconnecting(m) ==
    /\ pc' = [pc EXCEPT ![m] = "connecting"]
    /\ state' = [state EXCEPT ![m] = "Connecting"]

BackoffElapses(m) ==
    /\ At(m, "backoff")
    /\ Reconnecting(m)
    /\ UNCHANGED <<peerOf, gen, relayed, bytes, exit, lease, expired,
                   signalVars, handleVars, inboundVars, outputVars, counter, frames>>

\* Any network event ends the wait.
BackoffEvent(m) ==
    /\ At(m, "backoff")
    /\ inbox[m] # <<>>
    /\ inbox' = [inbox EXCEPT ![m] = Tail(@)]
    /\ Reconnecting(m)
    /\ UNCHANGED <<peerOf, gen, relayed, bytes, exit, lease, expired, stop, aborted,
                   netCount, handleVars, inboundVars, outputVars, counter, frames>>

BackoffStop(m) ==
    /\ At(m, "backoff")
    /\ stop[m]
    /\ pc' = [pc EXCEPT ![m] = "gone"]
    /\ UNCHANGED <<peerOf, gen, relayed, bytes, exit, sharedVars, signalVars,
                   handleVars, inboundVars, outputVars, counter, frames>>

\* checked_add(1) fails in next_packet_session_generation.
GenerationsExhausted == counter = MaxGeneration

\* connect() succeeds and next_packet_session_generation draws a generation.
\* When the counter is exhausted the manager gives the peer up.
ConnectSucceeds(m, relay) ==
    /\ At(m, "connecting")
    /\ IF GenerationsExhausted
       THEN /\ pc' = [pc EXCEPT ![m] = "gone"]
            /\ state' = [state EXCEPT ![m] = "Failed"]
            /\ UNCHANGED <<counter, gen, relayed, bytes>>
       ELSE /\ pc' = [pc EXCEPT ![m] = "connected"]
            /\ counter' = counter + 1
            /\ gen' = [gen EXCEPT ![m] = counter + 1]
            /\ relayed' = [relayed EXCEPT ![m] = relay]
            /\ bytes' = [bytes EXCEPT ![m] = 0]
            /\ UNCHANGED state
    /\ UNCHANGED <<peerOf, exit, lease, expired, signalVars, handleVars, inboundVars,
                   outputVars, frames>>

\* publish_packet_session.
Publish(m) ==
    /\ pc[m] = "connected"
    /\ pc' = [pc EXCEPT ![m] = "published"]
    /\ lease' = [lease EXCEPT ![m] = gen[m]]
    /\ expired' = [expired EXCEPT ![m] = FALSE]
    /\ UNCHANGED <<peerOf, gen, relayed, bytes, exit, state, signalVars,
                   handleVars, inboundVars, outputVars, counter, frames>>

Announce(m) ==
    /\ pc[m] = "published"
    /\ pc' = [pc EXCEPT ![m] = "announced"]
    /\ SendReady(gen[m], DirectionsOf(m))
    /\ UNCHANGED <<peerOf, gen, relayed, bytes, exit, sharedVars, signalVars,
                   handleVars, inboundVars, counter, frames>>

MarkReady(m) ==
    /\ pc[m] = "announced"
    /\ pc' = [pc EXCEPT ![m] = "polling"]
    /\ state' = [state EXCEPT ![m] = "Ready"]
    /\ UNCHANGED <<peerOf, gen, relayed, bytes, exit, lease, expired,
                   signalVars, handleVars, inboundVars, outputVars, counter, frames>>

\* The select! of the link loop: polled while the task runs, and again whenever
\* one of its branches wakes the parked task.
Selecting(m) == pc[m] = "polling" \/ At(m, "linked")

\* No branch is ready: the task parks.
Park(m) ==
    /\ pc[m] = "polling"
    /\ ~stop[m] /\ inbox[m] = <<>>
    /\ pc' = [pc EXCEPT ![m] = "linked"]
    /\ UNCHANGED <<peerOf, gen, relayed, bytes, exit, sharedVars, signalVars,
                   handleVars, inboundVars, outputVars, counter, frames>>

\* Leaving the link loop, for a new connection or for good.
Leave(m, why) ==
    /\ pc' = [pc EXCEPT ![m] = "leaving"]
    /\ exit' = [exit EXCEPT ![m] = why]
    /\ bytes' = [bytes EXCEPT ![m] = 0]

\* A frame moved: it counts towards the rekey limit, and reaching the limit
\* ends the session.
CountFrame(m) ==
    IF bytes[m] + 1 >= RekeyAfter THEN Leave(m, "reconnect")
    ELSE /\ pc' = [pc EXCEPT ![m] = "polling"]
         /\ bytes' = [bytes EXCEPT ![m] = @ + 1]
         /\ UNCHANGED exit

LinkSend(m) ==
    /\ Selecting(m)
    /\ CountFrame(m)
    /\ UNCHANGED <<peerOf, gen, relayed, sharedVars, signalVars, handleVars,
                   inboundVars, outputVars, counter, frames>>

\* send_frame or receive_frame fails.
LinkFails(m) ==
    /\ Selecting(m)
    /\ Leave(m, "reconnect")
    /\ UNCHANGED <<peerOf, gen, relayed, sharedVars, signalVars,
                   handleVars, inboundVars, outputVars, counter, frames>>

\* A frame arrives on the link.  A direct outbound link must not carry any; on
\* a relayed one it goes to the inbound channel, and waits there while that is full.
LinkReceive(m) ==
    /\ Selecting(m)
    /\ IF relayed[m] THEN pc' = [pc EXCEPT ![m] = "delivering"] /\ UNCHANGED <<exit, bytes>>
       ELSE Leave(m, "reconnect")
    /\ UNCHANGED <<peerOf, gen, relayed, sharedVars, signalVars,
                   handleVars, inboundVars, outputVars, counter, frames>>

Deliver(m) ==
    /\ At(m, "delivering")
    /\ Len(frames) < InboundCapacity
    /\ frames' = Append(frames, [peer |-> peerOf[m], gen |-> gen[m]])
    /\ CountFrame(m)
    /\ UNCHANGED <<peerOf, gen, relayed, sharedVars, signalVars, handleVars,
                   inboundVars, outputVars, counter>>

LinkEvent(m) ==
    /\ Selecting(m)
    /\ inbox[m] # <<>>
    /\ inbox' = [inbox EXCEPT ![m] = Tail(@)]
    /\ IF Head(inbox[m]) \in Improving THEN Leave(m, "reconnect")
       ELSE pc' = [pc EXCEPT ![m] = "polling"] /\ UNCHANGED <<exit, bytes>>
    /\ UNCHANGED <<peerOf, gen, relayed, sharedVars, stop, aborted,
                   netCount, handleVars, inboundVars, outputVars, counter, frames>>

LinkStop(m) ==
    /\ Selecting(m)
    /\ stop[m]
    /\ Leave(m, "stop")
    /\ UNCHANGED <<peerOf, gen, relayed, sharedVars, signalVars,
                   handleVars, inboundVars, outputVars, counter, frames>>

\* A deadline that is only armed for a direct link.
RotateWhenDirect(m) ==
    /\ Selecting(m)
    /\ expired[m] /\ ~relayed[m]
    /\ Leave(m, "reconnect")
    /\ UNCHANGED <<peerOf, gen, relayed, sharedVars, signalVars,
                   handleVars, inboundVars, outputVars, counter, frames>>

\* rotation_deadline, one lease lifetime after the lease was published.
Rotate(m) ==
    /\ Selecting(m)
    /\ expired[m]
    /\ Leave(m, "reconnect")
    /\ UNCHANGED <<peerOf, gen, relayed, sharedVars, signalVars,
                   handleVars, inboundVars, outputVars, counter, frames>>

\* clear_packet_session without its generation test: the exit of a link clears
\* whatever lease is published, and announces it even if there is none.
HoldsLeaseUnchecked(m) == TRUE

\* The exit of a link that leaves its lease published.
HoldsLeaseNever(m) == FALSE

\* clear_packet_session(generation) finds this link's lease still published.
HoldsLease(m) == lease[m] = gen[m]

\* clear_packet_session that looks at the lease without taking it.
ClearLeaseWithoutTaking(m) ==
    /\ pc[m] = "leaving"
    /\ pc' = [pc EXCEPT ![m] = IF HoldsLease(m) THEN "clearing" ELSE "left"]
    /\ UNCHANGED <<peerOf, gen, relayed, bytes, exit, sharedVars, signalVars, handleVars,
                   inboundVars, outputVars, counter, frames>>

ClearLease(m) ==
    /\ pc[m] = "leaving"
    /\ IF HoldsLease(m)
       THEN /\ lease' = [lease EXCEPT ![m] = 0]
            /\ expired' = [expired EXCEPT ![m] = FALSE]
            /\ pc' = [pc EXCEPT ![m] = "clearing"]
       ELSE /\ pc' = [pc EXCEPT ![m] = "left"]
            /\ UNCHANGED <<lease, expired>>
    /\ UNCHANGED <<peerOf, gen, relayed, bytes, exit, state,
                   signalVars, handleVars, inboundVars, outputVars, counter, frames>>

AnnounceCleared(m) ==
    /\ pc[m] = "clearing"
    /\ pc' = [pc EXCEPT ![m] = "left"]
    /\ SendCleared(gen[m], DirectionsOf(m))
    /\ UNCHANGED <<peerOf, gen, relayed, bytes, exit, sharedVars, signalVars,
                   handleVars, inboundVars, counter, frames>>

\* Close the link; then back to the head of the loop, or return.
CloseLink(m) ==
    /\ pc[m] = "left"
    /\ exit' = [exit EXCEPT ![m] = "none"]
    /\ relayed' = [relayed EXCEPT ![m] = FALSE]
    /\ IF exit[m] = "reconnect" THEN Reconnecting(m)
       ELSE /\ pc' = [pc EXCEPT ![m] = "gone"]
            /\ state' = [state EXCEPT ![m] = "Stopped"]
    /\ UNCHANGED <<peerOf, gen, bytes, lease, expired,
                   signalVars, handleVars, inboundVars, outputVars, counter, frames>>

\* abort() takes effect at an await: the task is dropped where it stands.
Cancelled(m) ==
    /\ pc[m] \in Parked
    /\ aborted[m]
    /\ pc' = [pc EXCEPT ![m] = "gone"]
    /\ UNCHANGED <<peerOf, gen, relayed, bytes, exit, sharedVars, signalVars,
                   handleVars, inboundVars, outputVars, counter, frames>>

\* The published lease reaches expires_at_unix.
LeaseExpires(m) ==
    /\ lease[m] # 0 /\ ~expired[m]
    /\ expired' = [expired EXCEPT ![m] = TRUE]
    /\ UNCHANGED <<taskVars, lease, state, signalVars, handleVars, inboundVars,
                   outputVars, counter, frames>>

-----------------------------------------------------------------------------
(* The transport handle.  The peers mutex is held for a whole add_peer and  *)
(* for a whole PerPeerSession::shutdown, so one caller at a time is enough: *)
(* its steps interleave with those of the tasks, not with other callers.    *)

LockFree == control.step \in {"idle", "default", "add"}

NextManager ==
    CHOOSE m \in 1 .. MaxManagers + 1 : \A n \in Managers : n < m <=> pc[n] # "unborn"

Spawn(m, p) ==
    /\ pc' = [pc EXCEPT ![m] = "connecting"]
    /\ peerOf' = [peerOf EXCEPT ![m] = p]
    /\ active' = [active EXCEPT ![p] = m]

\* add_peer of a peer the transport does not manage yet.
AddPeer(p) ==
    /\ control = Idle
    /\ active[p] = 0
    /\ NextManager \in Managers
    /\ Spawn(NextManager, p)
    /\ UNCHANGED <<gen, relayed, bytes, exit, sharedVars, signalVars, default,
                   control, inboundVars, outputVars, counter, frames>>

\* PerPeerSession::shutdown of the manager of p, from take_packet_session on.
BeginShutdown(p, next, all) ==
    LET m == active[p] IN
    /\ active' = [active EXCEPT ![p] = 0]
    /\ lease' = [lease EXCEPT ![m] = 0]
    /\ control' = [step |-> "clear", manager |-> m, peer |-> p, taken |-> lease[m],
                   next |-> next, all |-> all]
    /\ UNCHANGED <<taskVars, expired, state, signalVars, default, inboundVars, outputVars,
                   counter, frames>>

RemovePeer(p) ==
    /\ control = Idle
    /\ active[p] # 0
    /\ BeginShutdown(p, NoPeer, FALSE)

\* replace_default_peer: remove the default peer, add the new one, and make it
\* the default.
ReplaceDefaultPeer(p) ==
    /\ control = Idle
    /\ default # p
    /\ NextManager \in Managers \/ active[p] # 0
    /\ IF default # NoPeer /\ active[default] # 0
       THEN BeginShutdown(default, p, FALSE)
       ELSE /\ control' = [Idle EXCEPT !.step = "default", !.peer = default, !.next = p]
            /\ UNCHANGED <<taskVars, sharedVars, signalVars, active, default, inboundVars,
                           outputVars, counter, frames>>

\* MeshTransportHandle::shutdown drains the map, one session after the other.
ShutdownTransport(p) ==
    /\ control = Idle
    /\ active[p] # 0
    /\ BeginShutdown(p, NoPeer, TRUE)

\* The lease that was taken is announced Cleared in both directions.
ShutdownClears ==
    /\ control.step = "clear"
    /\ control' = [control EXCEPT !.step = "stop", !.taken = 0]
    /\ IF control.taken # 0
       THEN SendCleared(control.taken, Directions)
       ELSE UNCHANGED outputVars
    /\ UNCHANGED <<taskVars, sharedVars, signalVars, active, default, inboundVars, counter,
                   frames>>

ShutdownStops ==
    /\ control.step = "stop"
    /\ control' = [control EXCEPT !.step = "abort"]
    /\ stop' = [stop EXCEPT ![control.manager] = TRUE]
    /\ UNCHANGED <<taskVars, sharedVars, inbox, aborted, netCount, active, default,
                   inboundVars, outputVars, counter, frames>>

\* abort() and set_state(Stopped); the peers mutex is released, or the drain
\* goes on with the next session.
ShutdownAborts ==
    /\ control.step = "abort"
    /\ aborted' = [aborted EXCEPT ![control.manager] = TRUE]
    /\ state' = [state EXCEPT ![control.manager] = "Stopped"]
    /\ IF ~control.all
       THEN control' = [control EXCEPT !.step = "default"] /\ UNCHANGED <<active, lease>>
       ELSE IF \A q \in Peers : active[q] = 0
       THEN control' = Idle /\ UNCHANGED <<active, lease>>
       ELSE \E q \in Peers :
              /\ active[q] # 0
              /\ active' = [active EXCEPT ![q] = 0]
              /\ lease' = [lease EXCEPT ![active[q]] = 0]
              /\ control' = [step |-> "clear", manager |-> active[q], peer |-> q,
                             taken |-> lease[active[q]], next |-> NoPeer, all |-> TRUE]
    /\ UNCHANGED <<taskVars, expired, inbox, stop, netCount, default, inboundVars,
                   outputVars, counter, frames>>

\* remove_peer moves the default away from the removed peer, to any other.
ReassignDefault ==
    /\ control.step = "default"
    /\ IF default = control.peer
       THEN default' \in IF \A q \in Peers : active[q] = 0 THEN {NoPeer}
                         ELSE {q \in Peers : active[q] # 0}
       ELSE UNCHANGED default
    /\ control' = IF control.next = NoPeer THEN Idle ELSE [control EXCEPT !.step = "add"]
    /\ UNCHANGED <<taskVars, sharedVars, signalVars, active, inboundVars, outputVars,
                   counter, frames>>

AddReplacement ==
    /\ control.step = "add"
    /\ default' = control.next
    /\ control' = Idle
    /\ IF active[control.next] = 0 THEN Spawn(NextManager, control.next)
       ELSE UNCHANGED <<pc, peerOf, active>>
    /\ UNCHANGED <<gen, relayed, bytes, exit, sharedVars, signalVars,
                   inboundVars, outputVars, counter, frames>>

\* handle_network_event fans an event out to every managed peer.
NetworkEvent(e) ==
    /\ LockFree
    /\ netCount < MaxNetworkEvents
    /\ netCount' = netCount + 1
    /\ inbox' = [m \in Managers |->
                   IF \E p \in Peers : active[p] = m THEN Append(inbox[m], e) ELSE inbox[m]]
    /\ UNCHANGED <<taskVars, sharedVars, stop, aborted, handleVars, inboundVars,
                   outputVars, counter, frames>>

-----------------------------------------------------------------------------
(* Inbound sessions: the task run_native_udp_responder_loop spawns for each *)
(* accepted carrier, from the end of its handshake on.                      *)

\* The handshake is done and a generation drawn; with none left the carrier is
\* closed, which changes nothing here.
InboundGranted(i, p) ==
    /\ ipc[i] = "idle"
    /\ ~GenerationsExhausted
    /\ counter' = counter + 1
    /\ ipc' = [ipc EXCEPT ![i] = "granted"]
    /\ ipeer' = [ipeer EXCEPT ![i] = p]
    /\ igen' = [igen EXCEPT ![i] = counter + 1]
    /\ ibytes' = [ibytes EXCEPT ![i] = 0]
    /\ UNCHANGED <<taskVars, sharedVars, signalVars, handleVars, outputVars, frames>>

InboundAnnounced(i) ==
    /\ ipc[i] = "granted"
    /\ ipc' = [ipc EXCEPT ![i] = "open"]
    /\ SendReady(igen[i], {"inbound"})
    /\ UNCHANGED <<taskVars, sharedVars, signalVars, handleVars, ipeer, igen, ibytes,
                   counter, frames>>

\* A protected frame arrives and opens.
InboundReceives(i) ==
    /\ ipc[i] = "open"
    /\ ipc' = [ipc EXCEPT ![i] = "delivering"]
    /\ ibytes' = [ibytes EXCEPT ![i] = @ + 1]
    /\ UNCHANGED <<taskVars, sharedVars, signalVars, handleVars, ipeer, igen, outputVars,
                   counter, frames>>

InboundDelivers(i) ==
    /\ ipc[i] = "delivering"
    /\ Len(frames) < InboundCapacity
    /\ frames' = Append(frames, [peer |-> ipeer[i], gen |-> igen[i]])
    /\ ipc' = [ipc EXCEPT ![i] = IF ibytes[i] >= RekeyAfter THEN "closing" ELSE "open"]
    /\ UNCHANGED <<taskVars, sharedVars, signalVars, handleVars, ipeer, igen, ibytes,
                   outputVars, counter>>

\* The carrier fails, a frame does not open, or the lifetime is over.
InboundEnds(i) ==
    /\ ipc[i] = "open"
    /\ ipc' = [ipc EXCEPT ![i] = "closing"]
    /\ UNCHANGED <<taskVars, sharedVars, signalVars, handleVars, ipeer, igen, ibytes,
                   outputVars, counter, frames>>

InboundCloses(i) ==
    /\ ipc[i] = "closing"
    /\ ipc' = [ipc EXCEPT ![i] = "idle"]
    /\ SendCleared(igen[i], {"inbound"})
    /\ UNCHANGED <<taskVars, sharedVars, signalVars, handleVars, ipeer, igen, ibytes,
                   counter, frames>>

-----------------------------------------------------------------------------
(* The reading end of the inbound frame channel, used by the packet pumps.  *)

\* try_receive_frame_from_any.
TakeFrame ==
    /\ frames # <<>>
    /\ frames' = Tail(frames)
    /\ UNCHANGED <<taskVars, sharedVars, signalVars, handleVars, inboundVars, outputVars,
                   counter>>

\* default_packet_session: the unexpired lease of the one managed peer.
DefaultPacketSession ==
    IF /\ default # NoPeer
       /\ {p \in Peers : active[p] # 0} = {default}
       /\ ~expired[active[default]]
    THEN lease[active[default]] ELSE 0

\* What the task does inside a poll, and must do before it can park.
RunningStep(m) ==
    \/ Publish(m) \/ Announce(m) \/ MarkReady(m) \/ Park(m)
    \/ ClearLease(m) \/ AnnounceCleared(m) \/ CloseLink(m)

ManagerStep(m) ==
    \/ RunningStep(m)
    \/ ConnectFails(m)
    \/ \E relay \in BOOLEAN : ConnectSucceeds(m, relay)
    \/ BackoffElapses(m) \/ BackoffEvent(m) \/ BackoffStop(m)
    \/ LinkSend(m) \/ LinkFails(m) \/ LinkReceive(m) \/ Deliver(m)
    \/ LinkEvent(m) \/ LinkStop(m) \/ Rotate(m)
    \/ Cancelled(m) \/ LeaseExpires(m)

InboundStep(i) ==
    \/ \E p \in Peers : InboundGranted(i, p)
    \/ InboundAnnounced(i) \/ InboundReceives(i) \/ InboundDelivers(i)
    \/ InboundEnds(i) \/ InboundCloses(i)

ShutdownStep == ShutdownClears \/ ShutdownStops \/ ShutdownAborts

HandleStep ==
    \/ \E p \in Peers : AddPeer(p) \/ RemovePeer(p) \/ ShutdownTransport(p)
    \/ \E p \in Peers : ReplaceDefaultPeer(p)
    \/ ShutdownStep \/ ReassignDefault \/ AddReplacement
    \/ \E e \in NetworkEvents : NetworkEvent(e)

Next ==
    \/ \E m \in Managers : ManagerStep(m)
    \/ \E i \in InboundIds : InboundStep(i)
    \/ HandleStep
    \/ TakeFrame

Spec == Init /\ [][Next]_vars

-----------------------------------------------------------------------------
(* Fairness: tokio keeps polling a task that is ready, timers fire, a call  *)
(* of the handle that has begun runs to its end, and the pump keeps reading *)
(* its channel.                                                             *)
Fairness ==
    /\ \A m \in Managers :
          /\ WF_vars(RunningStep(m))
          /\ WF_vars(Deliver(m))
          /\ WF_vars(LinkStop(m))
          /\ WF_vars(LinkEvent(m))
          /\ WF_vars(Rotate(m))
          /\ WF_vars(BackoffElapses(m))
          /\ WF_vars(Cancelled(m))
    /\ \A i \in InboundIds :
          /\ WF_vars(InboundAnnounced(i))
          /\ WF_vars(InboundDelivers(i))
          /\ WF_vars(InboundCloses(i))
    /\ WF_vars(ShutdownStep) /\ WF_vars(ReassignDefault) /\ WF_vars(AddReplacement)
    /\ WF_vars(TakeFrame)

FairSpec == Spec /\ Fairness

-----------------------------------------------------------------------------
\* A generation announced Ready and not yet Cleared.
Outstanding(d, g) == <<d, g>> \in readied /\ clears[d][g] = 0

\* The manager is in the peers map, and no shutdown of it has begun.
Managed(m) == \E p \in Peers : active[p] = m

\* The end of a link and PerPeerSession::shutdown race for the same lease; the
\* event channel still gets at most one Cleared per direction and generation.
ClearedAtMostOnce == \A d \in Directions, g \in Generations : clears[d][g] <= 1

\* A managed peer never leaks a session: an outbound lease that was announced
\* and not cleared is the lease its holder publishes now, or one whose Cleared
\* is about to be sent.
OutstandingLeaseIsHeld ==
    \A g \in Generations : Outstanding("outbound", g) =>
        \/ control.taken = g
        \/ \E m \in Managers :
              /\ gen[m] = g
              /\ Managed(m) => lease[m] = g \/ pc[m] = "clearing"

\* abort() and the shutdown message end every task, also one that is in the
\* middle of connecting or blocked on a full inbound channel.
ShutdownEndsTask == \A m \in Managers : aborted[m] ~> pc[m] = "gone"

\* A lease past its lifetime is given up, even when the task was blocked on a
\* full inbound channel as it expired.
ExpiredLeaseIsRetired ==
    \A m \in Managers, g \in Generations :
        (lease[m] = g /\ expired[m]) ~> (lease[m] # g \/ pc[m] = "gone")

\* replace_default_peer: the lease of the peer that was replaced has been
\* cleared by the time its manager is gone and the new one has announced its own.
ReplacementClearsPrevious ==
    \A m, n \in Managers :
        /\ m < n /\ pc[m] = "gone"
        /\ gen[n] # 0 /\ <<"outbound", gen[n]>> \in readied
        => gen[m] = 0 \/ ~Outstanding("outbound", gen[m])

=============================================================================

---------------------------- MODULE WindowsPump -----------------------------
(***************************************************************************)
(* The packet pump of the Windows service                                  *)
(* (windows/rust/quantumlink-service/src/pump.rs) between a session feed   *)
(* and the packet core, and the two threads of engine.rs that drive it.    *)
(*                                                                         *)
(* Both threads drain the event channel: each takes an event and only then *)
(* locks the pump, so two events can be applied in the other order.  The   *)
(* outbound thread then hands a packet of the tunnel adapter to the pump,  *)
(* the inbound thread a frame of the transport.  The feed moves on at any  *)
(* time, the pump being locked or not.                                     *)
(***************************************************************************)
EXTENDS PumpFeed

CONSTANT NoPeer

ASSUME NoPeerAssumption == NoPeer \notin Peers

Threads == {"out", "in"}

VARIABLES
    popped,     \* the event a thread has taken and not applied; NoEvent
    frame,      \* the generation of the frame the inbound thread holds, or 0
    lock,       \* who holds the pump mutex across steps: "out" or "free"
    active,     \* active_peer_sessions: [direction -> [peer -> generation or 0]]
    chosen,     \* selected_outbound_peer: [peer, gen]
    core        \* the packet core

pumpVars == <<active, chosen, core>>
threadVars == <<popped, frame, lock>>
vars == <<sourceVars, threadVars, pumpVars, number>>

NoEvent == [kind |-> "none", dir |-> "outbound", gen |-> 0]
Nobody == [peer |-> NoPeer, gen |-> 0]

Init ==
    /\ SourceInit
    /\ popped = [t \in Threads |-> NoEvent]
    /\ frame = 0
    /\ lock = "free"
    /\ active = [d \in Directions |-> [p \in Peers |-> 0]]
    /\ chosen = Nobody
    /\ core = NewCore

-----------------------------------------------------------------------------
(* TunnelPacketPump.                                                        *)

\* install_peer_session returns TRUE.  The session that is already active goes
\* straight to the core.
PumpInstalls(d, g) ==
    /\ active[d][owner[g]] \in 0 .. g
    /\ \/ active[d][owner[g]] = g
       \/ d = "inbound"
       \/ chosen.peer \in {NoPeer, owner[g]}
       \/ chosen.gen < g
    /\ Installs(core, owner, d, g)

\* The core after install_peer_session.
Installed(d, g) == IF PumpInstalls(d, g) THEN Install(core, owner, d, g) ELSE core

\* The pump's own tables after install_peer_session.
Record(d, g) ==
    IF PumpInstalls(d, g) /\ active[d][owner[g]] # g
    THEN /\ active' = [active EXCEPT ![d][owner[g]] = g]
         /\ chosen' = IF d = "outbound" THEN [peer |-> owner[g], gen |-> g] ELSE chosen
    ELSE UNCHANGED <<active, chosen>>

\* clear_peer_session.
ClearPeerSession(d, g) ==
    IF active[d][owner[g]] = g
    THEN /\ active' = [active EXCEPT ![d][owner[g]] = 0]
         /\ core' = ClearSession(core, owner, d, g)
         /\ chosen' = IF d = "outbound" /\ chosen = [peer |-> owner[g], gen |-> g]
                      THEN Nobody ELSE chosen
    ELSE UNCHANGED <<active, core, chosen>>

-----------------------------------------------------------------------------
(* apply_packet_session_events, run by both threads.  A thread goes on to   *)
(* its own work when it finds the channel empty, or when the other one is   *)
(* reading it (try_lock); by the time it works there can be new events, so  *)
(* it may start with any contents of the channel.                           *)

\* The thread holds no event, and is not in the middle of a packet or a frame.
Free(t) == popped[t] = NoEvent /\ IF t = "in" THEN frame = 0 ELSE lock = "free"

PopEvent(t) ==
    /\ Free(t)
    /\ events # <<>>
    /\ popped' = [popped EXCEPT ![t] = Head(events)]
    /\ events' = Tail(events)
    /\ UNCHANGED <<feedVars, owner, carries, expired, frame, lock, active, chosen, core,
                   number>>

ApplyEvent(t) ==
    /\ popped[t] # NoEvent
    /\ lock = "free"
    /\ popped' = [popped EXCEPT ![t] = NoEvent]
    /\ LET e == popped[t] IN
       IF e.kind = "Ready" THEN Record(e.dir, e.gen) /\ core' = Installed(e.dir, e.gen)
       ELSE ClearPeerSession(e.dir, e.gen)
    /\ UNCHANGED <<sourceVars, frame, lock, number>>

-----------------------------------------------------------------------------
(* The outbound thread: adapter.receive and handle_packets.                 *)

\* The kill-switch gate: the transport is not ready, so the outbound sessions
\* are dropped and with them the packet.
TransportNotReady ==
    /\ Free("out")
    /\ active' = [active EXCEPT !["outbound"] = [p \in Peers |-> 0]]
    /\ chosen' = Nobody
    /\ core' = ClearDirection(core, "outbound")
    /\ UNCHANGED <<sourceVars, popped, frame, lock, number>>

\* is_ready: the state is Ready and there is a current session.
TransportReady ==
    /\ Free("out")
    /\ current # 0
    /\ lock' = "out"
    /\ UNCHANGED <<sourceVars, popped, frame, pumpVars, number>>

\* The rest of handle_packets that submits under whatever session is installed.
CoreForPacketAsIs(g) == core

\* installed_peer_session, asked again, may answer differently by now: without
\* it, or when the pump refuses it, the outbound session goes.
CoreForPacket(g) ==
    IF g # 0 /\ PumpInstalls("outbound", g) THEN Installed("outbound", g)
    ELSE ClearDirection(core, "outbound")

HandlePacket ==
    /\ lock = "out"
    /\ core' = Submit(CoreForPacket(current), expired)
    /\ IF current # 0 /\ PumpInstalls("outbound", current) THEN Record("outbound", current)
       ELSE chosen' = Nobody /\ UNCHANGED active
    /\ lock' = "free"
    /\ UNCHANGED <<sourceVars, popped, frame, number>>

-----------------------------------------------------------------------------
(* The inbound thread: try_receive_frame_from_any, accept_transport_frame.  *)

TakeFrame(n) ==
    /\ Free("in")
    /\ Take
    /\ Numbered(Head(channel), n)
    /\ frame' = Head(channel)
    /\ UNCHANGED <<owner, carries, expired, events, popped, lock, active, chosen, core>>

\* A lease that the pump refuses does not stop the frame.
LeaseAdmitsAnyway(g) == chosen.peer = owner[g]

\* The frame's lease must be of the selected peer and be installed, or be the
\* one that is.
LeaseAdmits(g) == chosen.peer = owner[g] /\ PumpInstalls("inbound", g)

\* accept_transport_frame of the frame, whose packet number is the last of its
\* generation.
AcceptTransportFrame ==
    /\ frame # 0 /\ lock = "free"
    /\ IF LeaseAdmits(frame)
       THEN /\ Record("inbound", frame)
            /\ core' = AcceptFrame(Installed("inbound", frame), expired, number[frame])
       ELSE UNCHANGED pumpVars
    /\ frame' = 0
    /\ UNCHANGED <<sourceVars, popped, lock, number>>

-----------------------------------------------------------------------------
Next ==
    \/ SourceStep /\ UNCHANGED <<threadVars, pumpVars>>
    \/ \E t \in Threads : PopEvent(t) \/ ApplyEvent(t)
    \/ TransportNotReady \/ TransportReady \/ HandlePacket
    \/ \E n \in 1 .. MaxNumber : TakeFrame(n)
    \/ AcceptTransportFrame

Spec == Init /\ [][Next]_vars

\* Whatever order the two threads apply the events in, handle_packets leaves the
\* core with the session the transport reports as current, or with none: no packet
\* is encoded under another.
EncodesUnderCurrent ==
    lock = "out" /\ lock' = "free" => core'.session["outbound"] \in {0, current}

\* A frame that the core takes in is taken in under its own lease.
FrameUnderItsOwnLease ==
    [][frame # 0 /\ frame' = 0 /\ core' # core => core'.session["inbound"] = frame]_vars

\* The replay window of the core never costs a fresh frame: packet numbers of
\* another session, also one that numbers from the start again, do not count.
FreshFrameNotReplayed ==
    frame # 0 /\ LeaseAdmits(frame) =>
        LET c == Installed("inbound", frame) IN
        Blocked(c, expired, "inbound") \/ AcceptsFrame(c, expired, number[frame])

=============================================================================

----------------------------- MODULE LinuxPump ------------------------------
(***************************************************************************)
(* The packet pump of the SteamOS daemon                                   *)
(* (steam/steamos/rust/qlinkd/src/data_plane.rs) between a session feed    *)
(* and the packet core.                                                    *)
(*                                                                         *)
(* One loop alternates between the two directions; each turn starts by     *)
(* applying all the session updates that wait.  The feed moves on between  *)
(* that and the rest of the turn.  Unlike the Windows pump this one keeps  *)
(* no table of its own, and it does not look at what the core answers to   *)
(* an installation.                                                        *)
(***************************************************************************)
EXTENDS PumpFeed

VARIABLES
    turn,    \* "start", or "updated": the updates of this turn are applied
    core     \* the packet core

vars == <<sourceVars, number, turn, core>>

Init ==
    /\ SourceInit
    /\ turn = "start"
    /\ core = NewCore

Apply(c, e) ==
    IF e.kind = "Ready" THEN Install(c, owner, e.dir, e.gen)
    ELSE ClearSession(c, owner, e.dir, e.gen)

\* take_peer_session_updates and apply_peer_session_updates: the whole channel,
\* in order.
ApplyUpdates ==
    /\ turn = "start"
    /\ LET after[i \in 0 .. Len(events)] ==
               IF i = 0 THEN core ELSE Apply(after[i - 1], events[i])
       IN core' = after[Len(events)]
    /\ events' = <<>>
    /\ turn' = "updated"
    /\ UNCHANGED <<feedVars, owner, carries, expired, number>>

\* The tunnel has no packet; or the transport is not ready, has no session, or
\* its own peer record is not currently published: the packet is dropped.
NothingToSend ==
    /\ turn = "updated"
    /\ turn' = "start"
    /\ UNCHANGED <<sourceVars, number, core>>

\* pump_tun_to_transport_once with a packet, while the transport has a session:
\* handle_packet installs it, whatever the core says to it, and submits.
HandlePacket ==
    /\ turn = "updated"
    /\ current # 0
    /\ core' = Submit(Install(core, owner, "outbound", current), expired)
    /\ turn' = "start"
    /\ UNCHANGED <<sourceVars, number>>

\* pump_transport_to_tun_once with a frame: its lease is offered to the core,
\* and the frame goes in whether or not the core took the lease.
AcceptTransportFrame(n) ==
    /\ turn = "updated"
    /\ Take
    /\ Numbered(Head(channel), n)
    /\ core' = AcceptFrame(Install(core, owner, "inbound", Head(channel)), expired, n)
    /\ turn' = "start"
    /\ UNCHANGED <<owner, carries, expired, events>>

Next ==
    \/ SourceStep /\ UNCHANGED <<turn, core>>
    \/ ApplyUpdates \/ NothingToSend \/ HandlePacket
    \/ \E n \in 1 .. MaxNumber : AcceptTransportFrame(n)

Spec == Init /\ [][Next]_vars

\* A packet that the daemon encodes is encoded under the session the transport
\* reports as current, although the result of the installation is ignored.
EncodesUnderCurrent ==
    core'.carried["outbound"] > core.carried["outbound"] =>
        core'.session["outbound"] = current

\* A frame that the core takes in is taken in under its own lease.
FrameUnderItsOwnLease ==
    [][channel # <<>> /\ channel' = Tail(channel) /\ core' # core =>
          core'.session["inbound"] = Head(channel)]_vars

=============================================================================

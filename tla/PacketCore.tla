----------------------------- MODULE PacketCore -----------------------------
(***************************************************************************)
(* PacketTunnelCore (qlink-core/src/packet_core.rs) as operators on a      *)
(* record: the outbound and the inbound peer session, how much each has    *)
(* carried, and the replay window of the inbound one.                      *)
(*                                                                         *)
(* A packet session is known by its generation: peer, transcript binding,  *)
(* lifetime and rekey limit belong to the generation for good.  owner maps *)
(* a generation to its peer, expired is the set of those past their        *)
(* lifetime.  Only what a session gate can see of a packet is kept.        *)
(***************************************************************************)
EXTENDS Naturals, ReplayWindow

CONSTANT RekeyAfter    \* rekey_after_bytes, in frames; 0 means no limit

ASSUME RekeyAssumption == RekeyAfter \in Nat

Directions == {"outbound", "inbound"}

Core(gens) ==
    [session : [Directions -> gens \cup {0}],
     carried : [Directions -> Nat],
     window  : Window]

\* PacketTunnelCore::new: no session in either direction (generation 0).
NewCore ==
    [session |-> [d \in Directions |-> 0],
     carried |-> [d \in Directions |-> 0],
     window  |-> NewWindow]

\* What install_peer_session returns: a session of the same peer must be newer
\* than the one in place, one of another peer need not be.
Installs(c, owner, d, g) ==
    LET current == c.session[d] IN
    \/ current \in {0, g}
    \/ owner[current] # owner[g]
    \/ current < g

\* A slot that is set without a new replay window.
SetSlotKeepingWindow(c, d, g) ==
    [session |-> [c.session EXCEPT ![d] = g],
     carried |-> [c.carried EXCEPT ![d] = 0],
     window  |-> c.window]

\* The slot of direction d set to g, with a fresh byte count, and a fresh replay
\* window when it is the inbound one.
SetSlot(c, d, g) ==
    [session |-> [c.session EXCEPT ![d] = g],
     carried |-> [c.carried EXCEPT ![d] = 0],
     window  |-> IF d = "inbound" THEN NewWindow ELSE c.window]

\* install_peer_session: installing the session that is already there keeps its
\* byte count and its window.
Install(c, owner, d, g) ==
    IF c.session[d] = g \/ ~Installs(c, owner, d, g) THEN c ELSE SetSlot(c, d, g)

\* clear_peer_session: only the generation that is named.
ClearSession(c, owner, d, g) == IF c.session[d] = g THEN SetSlot(c, d, 0) ELSE c

\* clear_peer_session_direction.
ClearDirection(c, d) == SetSlot(c, d, 0)

\* peer_session_block_reason gives one.
Blocked(c, expired, d) ==
    \/ c.session[d] = 0
    \/ c.session[d] \in expired
    \/ RekeyAfter > 0 /\ c.carried[d] >= RekeyAfter

Carry(c, d) == [c EXCEPT !.carried[d] = @ + 1]

\* submit_tunnel_packet of a well-formed packet for a protected destination:
\* dropped while the outbound session is blocked, else encoded and counted.
Submit(c, expired) ==
    IF Blocked(c, expired, "outbound") THEN c ELSE Carry(c, "outbound")

\* accept_transport_frame lets frame number n through.
AcceptsFrame(c, expired, n) ==
    ~Blocked(c, expired, "inbound") /\ Accepts(c.window, n)

\* accept_transport_frame: the session gate, then the replay window.
AcceptFrame(c, expired, n) ==
    IF ~AcceptsFrame(c, expired, n) THEN c
    ELSE [Carry(c, "inbound") EXCEPT !.window = Observe(c.window, n)]

=============================================================================

------------------------------- MODULE MCPumps -------------------------------
(***************************************************************************)
(* The two packet pumps on the same session feed: a behaviour is one of    *)
(* the Windows service or one of the SteamOS daemon.                       *)
(***************************************************************************)
EXTENDS WindowsPump, TLC

VARIABLES
    part,    \* the pump this behaviour is about
    turn     \* of the daemon

\* The Windows service feeds links that carry both directions, as relayed ones do.
RelayedLinks == {Directions}

\* For the daemon direct links carry outbound frames, responder links inbound
\* ones, relayed links both.
AllLinks == {{"outbound"}, {"inbound"}, Directions}

Linux == INSTANCE LinuxPump WITH Carries <- AllLinks, Overtaking <- FALSE, MaxBacklog <- 4

mcVars == <<vars, part, turn>>

WindowsOnly == <<threadVars, active, chosen>>

MCInit ==
    \/ part = "windows" /\ Init /\ turn = "start"
    \/ /\ part = "linux" /\ Linux!Init
       /\ popped = [t \in Threads |-> NoEvent] /\ frame = 0 /\ lock = "free"
       /\ active = [d \in Directions |-> [p \in Peers |-> 0]] /\ chosen = Nobody

MCNext ==
    \/ part = "windows" /\ Next /\ UNCHANGED <<part, turn>>
    \/ part = "linux" /\ Linux!Next /\ UNCHANGED <<part, WindowsOnly>>

MCSpec == MCInit /\ [][MCNext]_mcVars

Symmetry == Permutations(Peers)

\* Neither pump encodes a packet under a session other than the one that the
\* transport reports as current when handle_packet asks for it.
PacketUnderCurrentSession ==
    [][IF part = "windows" THEN EncodesUnderCurrent ELSE Linux!EncodesUnderCurrent]_mcVars

=============================================================================

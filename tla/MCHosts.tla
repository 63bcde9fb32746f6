------------------------------ MODULE MCHosts -------------------------------
(***************************************************************************)
(* The hosts: what qlinkd does to the kernel of a Steam machine for its    *)
(* unit and for games, and the Windows service with its kill switch and    *)
(* its configuration file. A behaviour is of one of them, which part       *)
(* names.                                                                  *)
(***************************************************************************)
EXTENDS Naturals, TLC

CONSTANTS t1, t2, p1, p2, s1, None, c1, c2, Nothing, Partial

VARIABLES
    part,   \* the component this behaviour is about
    x1, x2, x3, x4, x5, x6, x7, x8, x9, x10, x11, x12

\* The network: three configurations with two interface names; two games, which one
\* of them has installed.
MCConfigs == {[iface |-> t1, mode |-> "game", exempt |-> FALSE, games |-> {p1, p2}],
              [iface |-> t2, mode |-> "prefixes", exempt |-> FALSE, games |-> {}],
              [iface |-> t1, mode |-> "full", exempt |-> FALSE, games |-> {}]}
MCProfiles == {p1, p2}
MCSessions == {s1}

\* Two clients of the service's pipe, and a configuration of each kill switch policy.
MCClients == {c1, c2}
HostSymmetry == Permutations(MCClients) \cup Permutations(MCProfiles)
FailClosed == [policy |-> "failClosed", routes |-> {"r"}]
Strict == [policy |-> "strict", routes |-> {"r"}]
MCPolicies == {FailClosed, Strict}

Network == INSTANCE SteamNetwork WITH
    Configs <- MCConfigs, Profiles <- MCProfiles, Sessions <- MCSessions,
    RulesPerGame <- 2, MaxHandle <- 3, config <- x1, record <- x2, kernel <- x3,
    unit <- x4, main <- x5, cleaner <- x6, selection <- x7, game <- x8, lost <- x9,
    leaked <- x10, protecting <- x11

Windows == INSTANCE WindowsHost WITH
    Clients <- MCClients, Configs <- MCPolicies, DefaultConfig <- FailClosed,
    MaxUnready <- 1, service <- x1, disk <- x2, bfe <- x3, guard <- x4, luid <- x5,
    session <- x6, task <- x7, raced <- x8, cleaned <- x9, promised <- x10,
    strictKept <- x11, phase <- x12

ASSUME Network!SteamNetworkAssumption
ASSUME Windows!WindowsHostAssumption

mcVars == <<part, x1, x2, x3, x4, x5, x6, x7, x8, x9, x10, x11, x12>>

-----------------------------------------------------------------------------
\* The variables that a component does not use.
Unused11 == <<x12>>

MCInit ==
    \/ part = "network" /\ Network!NetworkInit /\ x12 = 0
    \/ part = "windows" /\ Windows!HostInit

MCNext ==
    \/ part = "network" /\ Network!NetworkNext /\ UNCHANGED <<part, Unused11>>
    \/ part = "windows" /\ Windows!HostNext /\ UNCHANGED part

MCSpec == MCInit /\ [][MCNext]_mcVars

\* What TLC tells states apart by.  No guard and no invariant reads phase and strictKept
\* of the Windows service, or protecting of the Steam network.
HostView == <<part, x1, x2, x3, x4, x5, x6, x7, x8, x9, x10>>

-----------------------------------------------------------------------------
\* Nothing that qlinkd put into the kernel is forgotten.
KernelStateIsKnown == part = "network" => Network!KernelStateIsKnown

\* What qlinkd says of a game's protection is what the kernel enforces.
StatusIsEnforced == part = "network" => Network!StatusIsEnforced

\* A Windows session has its filters, unless calls overlapped.
SessionIsGuarded == part = "windows" => Windows!SessionIsGuarded

\* What a strict session put under the kill switch stays blocked.
StrictStaysBlocked == part = "windows" => Windows!StrictStaysBlocked

\* docs/architecture.md: protected game traffic does not leave outside the TUN path when
\* QuantumLink is down.
FailClosedWhenDown == part = "network" => Network!FailClosedWhenDown
=============================================================================

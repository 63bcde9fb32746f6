----------------------------- MODULE MCPeerings -----------------------------
(***************************************************************************)
(* A node and who acts on it: the frame protection of a session, the       *)
(* handshakes that give it its keys, the mesh handle of the C interface,   *)
(* the Steam desktop application, and the plans and the audit log of the   *)
(* agent. They share no state; a behaviour is of one of them, which part   *)
(* names. Handshake runs, threads and processes are drawn from the same    *)
(* interchangeable values.                                                 *)
(***************************************************************************)
EXTENDS FrameProtection, TLC

CONSTANTS u1, u2, v1, v2, a, b, g, Nil, NoPeer

VARIABLES
    part,   \* the component this behaviour is about
    x1, x2, x3, x4, x5, x6, x7, x8, x9, x10, x11

MCFirst == {u1, u2}
MCSecond == {v1, v2}
PeeringSymmetry == Permutations(MCFirst) \cup Permutations(MCSecond)

\* The handshakes: two devices, two runs on each side, both builds.
MCDevices == {a, b}
MCCarriers == {"wifi", "lan"}
MCBuilds == {"v1", "v2"}

\* The handle: two peers, of which one has an unsteady link, and two host threads.
MCFailures == {"unreachable", "revoked"}
MCUnsteady == {a}
MCCodes == {0, 5}

\* The desktop application shows one peer and one game.
MCShown == {a}
MCProfiles == {g}

\* The agent: two policies; evidence with and without a finding that rules it out.
MCPolicies ==
    {[version |-> 1, preapproved |-> FALSE, relay |-> TRUE, export |-> FALSE],
     [version |-> 2, preapproved |-> TRUE, relay |-> FALSE, export |-> TRUE]}
MCSignals == {{"stale"}, {"identity", "stale"}, {"stale", "secret"}}
MCProposed == {"RotateStalePeerRecord", "Unknown"}
MCTargets == {"w1"}

Shake == INSTANCE Handshake WITH
    Devices <- MCDevices, Initiators <- MCFirst, Responders <- MCSecond,
    Carriers <- MCCarriers, Builds <- MCBuilds, key <- x1, build <- x2, stage <- x3,
    owner <- x4, hello <- x5, answer <- x6, keys <- x7, wire <- x8

Handle == INSTANCE MeshHandle WITH
    Peers <- MCDevices, Threads <- MCFirst, Remote <- a, Initial <- 1,
    MaxDelay <- 2, Width <- 2, MaxGeneration <- 2, Failures <- MCFailures,
    Unsteady <- MCUnsteady, Codes <- MCCodes, MaxFails <- 2, MaxEvents <- 1,
    MaxQueue <- 1, handle <- x1, config <- x2, peers <- x3, default <- x4,
    removing <- x5, mgr <- x6, shared <- x7, events <- x8, queue <- x9,
    history <- x10, generation <- x11

Desktop == INSTANCE SteamDesktop WITH
    Peers <- MCShown, Profiles <- MCProfiles, None <- Nil, store <- x1,
    service <- x2, profile <- x3, busy <- x4, shown <- x5, selected <- x6,
    confirm <- x7, requests <- x8, job <- x9, responses <- x10, outside <- x11

Agent == INSTANCE AgentRuntime WITH
    Processes <- MCFirst, Policies <- MCPolicies, Signals <- MCSignals,
    Targets <- MCTargets, Proposed <- MCProposed, MaxActions <- 2, MaxTime <- 1,
    MaxEvents <- 2, now <- x1, plan <- x2, approval <- x3, runtime <- x4, log <- x5,
    tail <- x6, events <- x7, mutations <- x8, disturbed <- x9

ASSUME Shake!HandshakeAssumption

mcVars == <<part, x1, x2, x3, x4, x5, x6, x7, x8, x9, x10, x11, vars>>

-----------------------------------------------------------------------------
\* The variables that a component does not use.
Unused8 == <<x9, x10, x11>>
Unused9 == <<x10, x11>>

MCInit ==
    \/ part = "frames" /\ Init /\ x1 = 0 /\ x2 = 0 /\ x3 = 0 /\ x4 = 0 /\ x5 = 0 /\ x6 = 0 /\ x7 = 0 /\ x8 = 0 /\ x9 = 0 /\ x10 = 0 /\ x11 = 0
    \/ part = "handshake" /\ Shake!HandshakeInit /\ x9 = 0 /\ x10 = 0 /\ x11 = 0
       /\ Init
    \/ part = "handle" /\ Handle!HandleInit /\ Init
    \/ part = "desktop" /\ Desktop!DesktopInit /\ Init
    \/ part = "agent" /\ Agent!AgentInit /\ x10 = 0 /\ x11 = 0 /\ Init

MCNext ==
    \/ part = "frames" /\ Next /\ UNCHANGED <<part, x1, x2, x3, x4, x5, x6, x7, x8, x9, x10, x11>>
    \/ part = "handshake" /\ Shake!HandshakeNext /\ UNCHANGED <<part, Unused8, vars>>
    \/ part = "handle" /\ Handle!HandleNext /\ UNCHANGED <<part, vars>>
    \/ part = "desktop" /\ Desktop!DesktopNext /\ UNCHANGED <<part, vars>>
    \/ part = "agent" /\ Agent!AgentNext /\ UNCHANGED <<part, Unused9, vars>>

MCSpec == MCInit /\ [][MCNext]_mcVars

\* The peers of a handle come and go under one configuration; all of them are
\* constructed.
Lively == [lifetime |-> 1, keypair |-> "own", relay |-> TRUE, responder |-> TRUE,
           policy |-> "public", pins |-> "all", machine |-> "works"]
Bounded == part = "handle" /\ x1 # "null" => x2 = Lively

-----------------------------------------------------------------------------
\* The two ends of a handshake agree on the keys, on each other and on the binding.
HandshakesAgree == part = "handshake" => Shake!HandshakesAgree

\* All that the C interface reports of the peers fits together.
HostViewAgrees == part = "handle" => Handle!HostViewAgrees

\* The agent's executors change only what policy, evidence and approval cover.
MutationIsAuthorized == part = "agent" => Agent!MutationIsAuthorized

\* The audit log tells of every change of an executor.
AuditIsComplete == part = "agent" => Agent!AuditIsComplete

\* When the desktop application reports a request as done it shows its effect.
DoneIsShown == [][part = "desktop" => Desktop!DoneShown]_mcVars
=============================================================================

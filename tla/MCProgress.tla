----------------------------- MODULE MCProgress -----------------------------
(***************************************************************************)
(* What must go on: the relay server and its clients, the links of a node  *)
(* through the relay, and the launch of games. They share no state; a      *)
(* behaviour is of one of them, which part names, and the fairness of each *)
(* is that of its code.                                                    *)
(***************************************************************************)
EXTENDS RelayServer

VARIABLES
    part,   \* the component this behaviour is about
    x1, x2, x3, x4, x5, x6, x7, x8

\* The peers behind the relay and the launchers are drawn from the same two values as
\* the connections that contend for an id of the relay.
Fallback == INSTANCE RelayFallback WITH
    Remotes <- Conns, MaxInFlight <- 1, MaxLosses <- 1, mgr <- x1, owner <- x2,
    toRemote <- x3, toNode <- x4, sess <- x5, stale <- x6, chan <- x7, losses <- x8

Launch == INSTANCE GameLaunch WITH
    Launchers <- Conns, NoSession <- None, classified <- x1, backlog <- x2,
    launcher <- x3, signalled <- x4, scope <- x5, dropped <- x6

ASSUME Fallback!FallbackAssumption

poolVars == <<x1, x2, x3, x4, x5, x6, x7, x8>>
mcVars == <<part, poolVars, vars>>

-----------------------------------------------------------------------------
\* The variables that the launchers do not use.
Unused6 == <<x7, x8>>

\* Elsewhere the relay server is where it starts.
ServerRests == Init /\ expected = CHOOSE t \in Tokens : TRUE

MCInit ==
    \/ /\ part = "server" /\ Init
       /\ x1 = 0 /\ x2 = 0 /\ x3 = 0 /\ x4 = 0 /\ x5 = 0 /\ x6 = 0 /\ x7 = 0 /\ x8 = 0
    \/ part = "fallback" /\ Fallback!Init /\ ServerRests
    \/ part = "launch" /\ Launch!LaunchInit /\ x7 = 0 /\ x8 = 0 /\ ServerRests

MCNext ==
    \/ part = "server" /\ Next /\ UNCHANGED <<part, poolVars>>
    \/ part = "fallback" /\ Fallback!Next /\ UNCHANGED <<part, vars>>
    \/ part = "launch" /\ Launch!LaunchNext /\ UNCHANGED <<part, vars, Unused6>>

-----------------------------------------------------------------------------
(* Fairness.  A behaviour stays in its part, so the conditions of several   *)
(* parts are stated as one where they have the same form.                   *)

\* tokio's mutex serves its waiters in order; and a manager dials in the end at a moment
\* when the id is free, when there are such moments for ever.
Strongly(n) ==
    \/ /\ part = "server"
       /\ LockForRegister(n) \/ LockForForward(n) \/ Unlink(n)
       /\ UNCHANGED poolVars
    \/ part = "fallback" /\ x2 = None /\ Fallback!Dial(n) /\ UNCHANGED vars

\* tokio schedules every task that can run and every timer that is set fires: the task of
\* a connection, the manager of a peer (a link that nothing else ends is ended by
\* rotation_deadline), and the launcher, which polls every 100 ms.
Weakly(n) ==
    \/ part = "server" /\ Task(n) /\ UNCHANGED poolVars
    \/ part = "fallback" /\ Fallback!ManagerStep(n) /\ UNCHANGED vars
    \/ part = "launch" /\ Launch!ChildExited(n) /\ UNCHANGED <<vars, Unused6>>

\* So does the peer, and its timers fire.
Remote(n) == part = "fallback" /\ Fallback!PeerStep(n) /\ UNCHANGED vars
Timer(n) == part = "fallback" /\ Fallback!SessionTimer(n) /\ UNCHANGED vars

\* The relay reads the end of a dropped connection, and qlinkd accepts a connection per
\* iteration of its loop.
Loops ==
    \/ part = "fallback" /\ Fallback!RelayNoticesEnd /\ UNCHANGED vars
    \/ part = "launch" /\ Launch!Serve /\ UNCHANGED <<vars, Unused6>>

stateVars == <<poolVars, vars>>

MCFairness ==
    /\ WF_stateVars(Loops)
    /\ \A n \in Conns : /\ SF_stateVars(Strongly(n)) /\ WF_stateVars(Weakly(n))
                      /\ WF_stateVars(Remote(n)) /\ WF_stateVars(Timer(n))

MCSpec == MCInit /\ [][MCNext]_mcVars /\ MCFairness

-----------------------------------------------------------------------------
\* The relay never carries two of a node's links at a time.
OneLinkPerNode == part = "fallback" => Fallback!OneLinkPerNode

\* What n waits for, and what ends the wait.
Waits(n) ==
    /\ part = "server" => Busy(n)
    /\ part = "launch" => Launch!Outlived(n)

Served(n) ==
    /\ part = "server" => AtRest(n)
    /\ part = "fallback" => Fallback!LinkIsUp
    /\ part = "launch" => Launch!Released(n)

\* Nobody waits forever: no task of the relay for the peers mutex
\* (RelayEveryTaskProceeds), a node not for its next link through the relay
\* (RelayFallback!LinkComesUpAgain), and no game for the end of the classification of one
\* that is gone (GameLaunch!ClassificationEnds).
NobodyWaitsForever == \A n \in Conns : Waits(n) ~> Served(n)
=============================================================================

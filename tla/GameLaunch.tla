----------------------------- MODULE GameLaunch -----------------------------
(***************************************************************************)
(* `qlinkctl game launch` on a SteamOS host.  A launcher starts a systemd  *)
(* user scope; in it `qlinkctl game enter` asks qlinkd to classify the     *)
(* scope's traffic and then executes the game.  The launcher polls the     *)
(* scope's process, stops the scope when it is told to terminate, and asks *)
(* qlinkd to end the classification once the process is gone.              *)
(*                                                                         *)
(* qlinkd serves one connection at a time in the order of the backlog.     *)
(* The rules behind a classification are in SteamNetwork.                  *)
(***************************************************************************)
EXTENDS Naturals, Sequences

CONSTANTS Launchers, NoSession

VARIABLES
    classified,   \* the session qlinkd classifies, or NoSession
    backlog,      \* requests qlinkd has not served: [kind, of]
    launcher,     \* where each launcher is
    signalled,    \* launchers that have received SIGINT or SIGTERM
    scope,        \* the process systemd-run started for each launcher
    dropped       \* sessions whose classification went with a restarted qlinkd

launchVars == <<classified, backlog, launcher, signalled, scope, dropped>>

LaunchInit ==
    /\ classified = NoSession
    /\ backlog = <<>>
    /\ launcher = [l \in Launchers |-> "idle"]
    /\ signalled = {}
    /\ scope = [l \in Launchers |-> "none"]
    /\ dropped = {}

Request(kind, l) == backlog' = Append(backlog, [kind |-> kind, of |-> l])

Alive == {"spawned", "entering", "begun", "game"}

---------------------------------------------------------------------------
(* The launcher.                                                           *)

\* The daemon has answered, the platform is capable, a profile is selected and
\* allows the executable; the handlers are installed and systemd-run started.
Launch(l) ==
    /\ launcher[l] = "idle"
    /\ launcher' = [launcher EXCEPT ![l] = "waiting"]
    /\ scope' = [scope EXCEPT ![l] = "spawned"]
    /\ UNCHANGED <<classified, backlog, signalled, dropped>>

\* systemd-run cannot be started: the classification is ended all the same.
LaunchFails(l) ==
    /\ launcher[l] = "idle"
    /\ launcher' = [launcher EXCEPT ![l] = "ending"]
    /\ scope' = [scope EXCEPT ![l] = "exited"]
    /\ Request("end", l)
    /\ UNCHANGED <<classified, signalled, dropped>>

Signal(l) ==
    /\ launcher[l] = "waiting" /\ l \notin signalled
    /\ signalled' = signalled \cup {l}
    /\ UNCHANGED <<classified, backlog, launcher, scope, dropped>>

\* The poll finds that the child has exited, whatever its status.
ChildExited(l) ==
    /\ launcher[l] = "waiting" /\ scope[l] = "exited"
    /\ launcher' = [launcher EXCEPT ![l] = "ending"]
    /\ Request("end", l)
    /\ UNCHANGED <<classified, signalled, scope, dropped>>

\* systemctl stops a scope that is there, and returns when its processes are gone.
ScopeStopped(l) == scope[l] \in {"entering", "begun", "game"}

\* The poll finds the signal.  When systemctl fails, as it does for a scope that
\* systemd-run has not created yet, the launcher leaves without ending anything.
StopScope(l) ==
    /\ launcher[l] = "waiting" /\ l \in signalled /\ scope[l] \in Alive
    /\ \/ /\ ScopeStopped(l)
          /\ scope' = [scope EXCEPT ![l] = "exited"]
          /\ launcher' = [launcher EXCEPT ![l] = "ending"]
          /\ Request("end", l)
       \/ /\ launcher' = [launcher EXCEPT ![l] = "gaveUp"]
          /\ UNCHANGED <<backlog, scope>>
    /\ UNCHANGED <<classified, signalled, dropped>>

\* SIGKILL, or a signal without a handler.
LauncherKilled(l) ==
    /\ launcher[l] \in {"waiting", "ending"}
    /\ launcher' = [launcher EXCEPT ![l] = "killed"]
    /\ UNCHANGED <<classified, backlog, signalled, scope, dropped>>

---------------------------------------------------------------------------
(* The scope.                                                              *)

\* `game enter` runs in the new scope and sends its request.
ScopeCreated(l) ==
    /\ scope[l] = "spawned"
    /\ scope' = [scope EXCEPT ![l] = "entering"]
    /\ Request("begin", l)
    /\ UNCHANGED <<classified, launcher, signalled, dropped>>

\* qlinkd has agreed: the process becomes the game.
Exec(l) ==
    /\ scope[l] = "begun"
    /\ scope' = [scope EXCEPT ![l] = "game"]
    /\ UNCHANGED <<classified, backlog, launcher, signalled, dropped>>

\* systemd-run fails, the command cannot be executed, or the game ends.
ScopeExits(l) ==
    /\ scope[l] \in {"spawned", "begun", "game"}
    /\ scope' = [scope EXCEPT ![l] = "exited"]
    /\ UNCHANGED <<classified, backlog, launcher, signalled, dropped>>

---------------------------------------------------------------------------
(* qlinkd.                                                                 *)

\* The caller must still be in its scope, which qlinkd looks up by process id,
\* and no other session classified.
ServeBegin(l, granted) ==
    /\ granted => scope[l] = "entering" /\ classified = NoSession
    /\ classified' = IF granted THEN l ELSE classified
    /\ scope' = [scope EXCEPT ![l] = IF granted THEN "begun" ELSE "exited"]
    /\ UNCHANGED launcher

\* Nothing to end is no error; another session's classification is, and so is a
\* rule that cannot be deleted, which keeps the classification.
ServeEnd(l, ok) ==
    /\ ok => classified \in {NoSession, l}
    /\ classified' = IF ok /\ classified = l THEN NoSession ELSE classified
    /\ launcher' = [launcher EXCEPT ![l] =
                        IF @ # "ending" THEN @ ELSE IF ok THEN "done" ELSE "failed"]
    /\ ~ok => classified # NoSession
    /\ UNCHANGED scope

Serve ==
    /\ backlog # <<>>
    /\ backlog' = Tail(backlog)
    /\ \E ok \in BOOLEAN : IF Head(backlog).kind = "begin"
                           THEN ServeBegin(Head(backlog).of, ok)
                           ELSE ServeEnd(Head(backlog).of, ok)
    /\ UNCHANGED <<signalled, dropped>>

\* Every caller that waits for an answer gets an error.
DaemonRestarts ==
    /\ classified' = NoSession
    /\ backlog' = <<>>
    /\ dropped' = dropped \cup ({classified} \ {NoSession})
    /\ launcher' = [l \in Launchers |-> IF launcher[l] = "ending" THEN "failed" ELSE launcher[l]]
    /\ scope' = [l \in Launchers |-> IF scope[l] = "entering" THEN "exited" ELSE scope[l]]
    /\ UNCHANGED signalled

LaunchNext ==
    \/ \E l \in Launchers :
         \/ Launch(l) \/ LaunchFails(l) \/ Signal(l) \/ ChildExited(l) \/ StopScope(l)
         \/ LauncherKilled(l)
         \/ ScopeCreated(l) \/ Exec(l) \/ ScopeExits(l)
    \/ Serve
    \/ DaemonRestarts

\* The launcher polls every 100 ms, and the resident loop accepts a connection
\* per iteration.
LaunchFairness ==
    /\ WF_launchVars(Serve)
    /\ \A l \in Launchers : WF_launchVars(ChildExited(l))

LaunchSpec == LaunchInit /\ [][LaunchNext]_launchVars /\ LaunchFairness

---------------------------------------------------------------------------
(* Properties.                                                             *)

\* The game of l is gone and still classified; and how that is over.
Outlived(l) == classified = l /\ scope[l] = "exited"
Released(l) == classified # l \/ launcher[l] \in {"killed", "gaveUp", "failed"}

\* Once the game's process is gone its classification is ended, so that the next
\* game can be classified, unless the launcher was killed, gave up after a scope
\* it could not stop, or was told by qlinkd that the rules could not be deleted.
ClassificationEnds == \A l \in Launchers : Outlived(l) ~> Released(l)
=============================================================================

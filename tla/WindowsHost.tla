---------------------------- MODULE WindowsHost ----------------------------
(* The Windows service around the packet pump: the tunnel engine with its     *)
(* startup rollback, the WFP kill switch, the persisted configuration, and    *)
(* the service's own start, stop and crash.  Every pipe client is served by   *)
(* a thread of its own, so two Connects, or a Connect and a Disconnect, run   *)
(* side by side; the engine's locks cover single statements only, and the     *)
(* steps below are the pieces between them.                                   *)
(*                                                                            *)
(* Left out: what a configuration says beyond its policy and its protected    *)
(* routes, the WFP layers (a route's filters are added and removed in one     *)
(* transaction) and the boot-time twin of every persistent block.             *)
EXTENDS Integers, FiniteSets

CONSTANTS
    Clients,        \* pipe clients whose commands overlap
    Configs,        \* configurations clients send: [policy, routes]
    DefaultConfig,  \* privacy::default_tunnel_configuration
    Nothing,        \* no file, no configuration
    Partial,        \* a file that is written only in part
    MaxUnready      \* watchdog checks until the strict deadline is over

WindowsHostAssumption ==
    /\ DefaultConfig \in Configs /\ DefaultConfig.policy = "failClosed"
    /\ Nothing \notin Configs /\ Partial \notin Configs /\ Nothing # Partial
    /\ MaxUnready \in Nat \ {0}

SCM == "scm"                     \* the service's main thread
Actors == Clients \cup {SCM}
Routes == UNION {c.routes : c \in Configs}
WfpSessions == 1..(Cardinality(Actors) + 2)

VARIABLES
    service,     \* "down", "up", "stopping"
    disk,        \* [file, temp]: config.json and its fixed temporary name
    bfe,         \* the base filtering engine's product-owned filters
    guard,       \* WindowsPlatform::kill_switch
    strictKept,  \* WindowsPlatform::persistent_strict_engaged
    luid,        \* WindowsPlatform::adapter_luid is Some
    session,     \* TunnelEngine::session
    phase,       \* TunnelEngine::phase
    task,        \* each actor's call in progress
    raced,       \* ghost: a call began while another was in progress
    cleaned,     \* ghost: the cleanup command ran in this service's lifetime
    promised     \* ghost: routes a strict session has put under the kill switch

hostVars == <<service, disk, bfe, guard, strictKept, luid, session, phase,
              task, raced, cleaned, promised>>
ghosts == <<raced, cleaned, promised>>

Idle == [pc |-> "idle", config |-> Nothing, engaged |-> FALSE,
         adapter |-> FALSE, wfp |-> 0, ends |-> "Idle"]

HostInit ==
    /\ service = "down"
    /\ disk = [file |-> Nothing, temp |-> Nothing]
    /\ bfe = {} /\ guard = Nothing /\ strictKept = FALSE /\ luid = FALSE
    /\ session = Nothing /\ phase = "Idle"
    /\ task = [a \in Actors |-> Idle]
    /\ raced = FALSE /\ cleaned = FALSE /\ promised = {}

Goto(a, pc) == task' = [task EXCEPT ![a].pc = pc]
Quiet == \A a \in Actors : task[a].pc = "idle"

-----------------------------------------------------------------------------
(* The filtering engine.  A filter of a dynamic session goes with it; wfp 0   *)
(* marks the provider's persistent ones.                                      *)

Blocks(routes) == {[kind |-> "persistent", route |-> r, wfp |-> 0] : r \in routes}
Dynamic(routes, s, kinds) ==
    {[kind |-> k, route |-> r, wfp |-> s] : k \in kinds, r \in routes}
Persistent(filters) == {f \in filters : f.wfp = 0}
Closed(filters, s) == {f \in filters : f.wfp # s \/ s = 0}
Blocked(r) == \E f \in bfe : f.kind \in {"persistent", "block"} /\ f.route = r
Permitted(r) == \E f \in bfe : f.kind = "permit" /\ f.route = r

\* enumerate_owned_filter_records goes by provider and sublayer: bfe holds no others,
\* but those of every session, and of the boot.
Owned == bfe

\* One transaction deletes every filter the product owns, and adds the wanted ones.
build_reconciliation_plan(wanted) == (bfe \ Owned) \cup wanted

Reconciled(policy, routes) ==
    build_reconciliation_plan(IF policy = "strict" THEN Blocks(routes) ELSE {})

cleanup_owned_persistent_filters == bfe \ Owned

\* What the saved policy asks for when the service starts, before any adapter.
reconcile_startup_policy(c) ==
    IF c.policy = "strict" THEN build_reconciliation_plan(Blocks(c.routes))
    ELSE cleanup_owned_persistent_filters

\* The permits of a strict guard are a session of their own.
revoke_strict_tunnel_permits ==
    IF guard # Nothing /\ guard.policy = "strict" THEN Closed(bfe, guard.wfp) ELSE bfe

\* The filters an engagement adds in a dynamic session of its own.
SessionFilters(policy, routes, s) ==
    LET permits == Dynamic(routes, s, IF luid THEN {"permit"} ELSE {}) IN
    IF policy = "strict" THEN permits ELSE permits \cup Dynamic(routes, s, {"block"})

\* A key identifies a filter across sessions: adding one that is there fails.
KeyTaken(filters) ==
    \E f \in filters, g \in bfe : f.kind = g.kind /\ f.route = g.route

FreshWfp == CHOOSE s \in WfpSessions :
    /\ \A a \in Actors : task[a].wfp # s
    /\ guard = Nothing \/ guard.wfp # s

Locked == \E a \in Actors : task[a].pc \in {"rebuild", "reinstall"}

-----------------------------------------------------------------------------
(* Connect *)

\* The configuration a Connect runs with: the client's, or the saved one, or
\* the default when none is saved.  An unreadable file refuses the Connect.
ConnectConfigs ==
    Configs \cup (IF disk.file = Nothing THEN {DefaultConfig}
                  ELSE IF disk.file = Partial THEN {} ELSE {disk.file})

Begin(a) ==
    /\ service = "up" /\ task[a].pc = "idle"
    /\ raced' = (raced \/ ~Quiet)
    /\ UNCHANGED <<service, disk, bfe, guard, strictKept, luid, cleaned, promised>>

\* TunnelEngine::connect up to the kill switch.  The session lock is free
\* again as soon as there is no session; an invalid configuration, or a
\* secret or core that does not load, ends in Failed.
ConnectBegin(a) ==
    /\ a \in Clients /\ Begin(a)
    /\ session = Nothing
    /\ \/ \E c \in ConnectConfigs :
            /\ task' = [task EXCEPT ![a] = [Idle EXCEPT !.pc = "engage", !.config = c]]
            /\ phase' = "Preparing"
       \/ phase' = "Failed" /\ UNCHANGED task
    /\ UNCHANGED session

\* The end of a failed connect: the rollback guard tears down the adapter it
\* was given and disengages what it engaged.
Failing(t) ==
    [t EXCEPT !.ends = "Failed", !.wfp = 0,
              !.pc = IF t.adapter THEN "teardown"
                     ELSE IF t.engaged THEN "disengage" ELSE "failed"]

\* engage_kill_switch, first transaction: reconcile.  When it fails a strict
\* connect is refused and a failClosed one goes on without the kill switch.
Unengaged(a) ==
    /\ task' = [task EXCEPT ![a] =
                  IF task[a].config.policy = "strict"
                  THEN Failing(task[a]) ELSE [task[a] EXCEPT !.pc = "adapter", !.wfp = 0]]
    /\ phase' = IF task[a].config.policy = "strict" THEN phase ELSE "Connecting"

\* A dynamic engagement takes the blocks of an earlier strict session away.
EngageReconcile(a) ==
    LET c == task[a].config IN
    /\ task[a].pc = "engage"
    /\ \/ /\ bfe' = Reconciled(c.policy, c.routes)
          /\ promised' = IF c.policy = "strict" THEN promised \cap c.routes ELSE {}
          /\ task' = [task EXCEPT ![a].pc = "install", ![a].wfp = FreshWfp]
          /\ UNCHANGED phase
       \/ Unengaged(a) /\ UNCHANGED <<bfe, promised>>
    /\ UNCHANGED <<service, disk, guard, strictKept, luid, session, raced, cleaned>>

\* engage_kill_switch, second transaction, and the guard it stores: the one
\* that was there is dropped, and its session with it.
EngageInstall(a) ==
    LET c == task[a].config
        s == task[a].wfp
        new == SessionFilters(c.policy, c.routes, s)
    IN
    /\ task[a].pc = "install" /\ ~Locked
    /\ \/ /\ ~KeyTaken(new)
          /\ bfe' = Closed(bfe, IF guard = Nothing THEN 0 ELSE guard.wfp) \cup new
          /\ guard' = [policy |-> c.policy, routes |-> c.routes, wfp |-> s]
          /\ strictKept' = (c.policy = "strict")
          /\ task' = [task EXCEPT ![a].pc = "adapter", ![a].engaged = TRUE, ![a].wfp = 0]
          /\ phase' = "Connecting"
       \/ Unengaged(a) /\ UNCHANGED <<bfe, guard, strictKept>>
    /\ UNCHANGED <<service, disk, luid, session>> /\ UNCHANGED ghosts

\* Mutant: the guard engaged before the adapter existed is kept as it is.
CreateAdapterKeepsGuard(a) ==
    /\ task[a].pc = "adapter" /\ ~Locked
    /\ luid' = TRUE
    /\ task' = [task EXCEPT ![a].pc = "network", ![a].adapter = TRUE]
    /\ UNCHANGED <<bfe, guard>>
    /\ UNCHANGED <<service, disk, strictKept, session, phase>> /\ UNCHANGED ghosts

\* WindowsPlatform::create_adapter: with the adapter's LUID known the guard is
\* taken and dropped before its successor, which permits that interface, is
\* engaged.  The kill switch stays locked in between.
CreateAdapter(a) ==
    /\ task[a].pc = "adapter" /\ ~Locked
    /\ \/ /\ luid' = TRUE
          /\ IF guard = Nothing
             THEN /\ task' = [task EXCEPT ![a].pc = "network", ![a].adapter = TRUE]
                  /\ UNCHANGED <<bfe, guard>>
             ELSE /\ bfe' = Closed(bfe, guard.wfp)
                  /\ guard' = Nothing
                  /\ task' = [task EXCEPT ![a].pc = "rebuild",
                                          ![a].config.routes = guard.routes]
       \/ task' = [task EXCEPT ![a] = Failing(task[a])]
          /\ UNCHANGED <<bfe, guard, luid>>
    /\ UNCHANGED <<service, disk, strictKept, session, phase>> /\ UNCHANGED ghosts

\* A failed second engagement shuts the adapter down and leaves no guard.
NoAdapter(a) ==
    /\ task' = [task EXCEPT ![a] = Failing(task[a])]
    /\ luid' = FALSE

Rebuild(a) ==
    LET c == task[a].config IN
    /\ task[a].pc = "rebuild"
    /\ \/ /\ bfe' = Reconciled(c.policy, c.routes)
          /\ promised' = IF c.policy = "strict" THEN promised \cap c.routes ELSE {}
          /\ task' = [task EXCEPT ![a].pc = "reinstall", ![a].wfp = FreshWfp]
          /\ UNCHANGED luid
       \/ NoAdapter(a) /\ UNCHANGED <<bfe, promised>>
    /\ UNCHANGED <<service, disk, guard, strictKept, session, phase, raced, cleaned>>

Reinstall(a) ==
    LET c == task[a].config
        s == task[a].wfp
        new == SessionFilters(c.policy, c.routes, s)
    IN
    /\ task[a].pc = "reinstall"
    /\ \/ /\ ~KeyTaken(new)
          /\ bfe' = bfe \cup new
          /\ guard' = [policy |-> c.policy, routes |-> c.routes, wfp |-> s]
          /\ task' = [task EXCEPT ![a].pc = "network", ![a].adapter = TRUE, ![a].wfp = 0]
          /\ UNCHANGED luid
       \/ NoAdapter(a) /\ UNCHANGED <<bfe, guard>>
    /\ UNCHANGED <<service, disk, strictKept, session, phase>> /\ UNCHANGED ghosts

\* apply_network_config: the overlay address, the MTU, one forwarding entry
\* per protected route and the DNS servers, on the adapter of this name; the
\* first that fails ends it, and the adapter takes the others with it.
ApplyNetwork(a) ==
    /\ task[a].pc = "network"
    /\ \/ Goto(a, "transport")
       \/ task' = [task EXCEPT ![a] = Failing(task[a])]
    /\ UNCHANGED <<service, disk, bfe, guard, strictKept, luid, session, phase>>
    /\ UNCHANGED ghosts

\* The transport and, under the strict policy, the wait for it to be ready:
\* each may fail.  Success stores the session, over any session another
\* connect has stored meanwhile.
Establish(a) ==
    /\ task[a].pc = "transport"
    /\ \/ /\ session' = [config |-> task[a].config, engaged |-> task[a].engaged,
                         unready |-> 0]
          /\ promised' = IF task[a].engaged /\ task[a].config.policy = "strict"
                            /\ ~raced /\ ~cleaned
                         THEN task[a].config.routes ELSE promised
          /\ task' = [task EXCEPT ![a] = [Idle EXCEPT !.pc = "connected",
                                                      !.config = task[a].config]]
       \/ task' = [task EXCEPT ![a] = Failing(task[a])]
          /\ UNCHANGED <<session, promised>>
    /\ UNCHANGED <<service, disk, bfe, guard, strictKept, luid, phase, raced, cleaned>>

\* The engine's last statement of a connect, and the dispatcher's: a
\* successful one goes on to save its configuration.
Connected(a) ==
    /\ task[a].pc = "connected"
    /\ phase' = "Connected"
    /\ Goto(a, "open")
    /\ UNCHANGED <<service, disk, bfe, guard, strictKept, luid, session>>
    /\ UNCHANGED ghosts

ConnectFailed(a) ==
    /\ task[a].pc = "failed"
    /\ phase' = "Failed"
    /\ task' = [task EXCEPT ![a] = Idle]
    /\ UNCHANGED <<service, disk, bfe, guard, strictKept, luid, session>>
    /\ UNCHANGED ghosts

-----------------------------------------------------------------------------
(* Disconnect, and the rollback of a failed connect *)

DisconnectBegin(a) ==
    /\ a \in Clients /\ Begin(a)
    /\ session' = Nothing
    /\ IF session = Nothing
       THEN phase' = "Idle" /\ UNCHANGED task
       ELSE /\ phase' = "Disconnected"
            /\ task' = [task EXCEPT ![a] = [Idle EXCEPT !.pc = "teardown",
                                                        !.engaged = TRUE]]

\* WindowsPlatform::teardown: routes (a failure is only logged), the strict
\* permits, the adapter.
Teardown(a) ==
    /\ task[a].pc = "teardown" /\ ~Locked
    /\ bfe' = revoke_strict_tunnel_permits
    /\ luid' = FALSE
    /\ Goto(a, IF task[a].engaged THEN "disengage" ELSE "failed")
    /\ UNCHANGED <<service, disk, guard, strictKept, session, phase>> /\ UNCHANGED ghosts

\* WindowsPlatform::disengage_kill_switch drops whatever guard is stored now.
Disengage(a) ==
    /\ task[a].pc = "disengage" /\ ~Locked
    /\ bfe' = IF guard = Nothing THEN bfe ELSE Closed(bfe, guard.wfp)
    /\ strictKept' = (strictKept /\ guard # Nothing /\ guard.policy = "strict")
    /\ guard' = Nothing
    /\ phase' = task[a].ends
    /\ task' = [task EXCEPT ![a] = IF a = SCM THEN [Idle EXCEPT !.pc = "stopped"] ELSE Idle]
    /\ UNCHANGED <<service, disk, luid, session>> /\ UNCHANGED ghosts

\* The strict watchdog stops the pump threads and records why; session,
\* adapter and filters stay until a Disconnect.
Watchdog(ready) ==
    /\ service # "down" /\ session # Nothing
    /\ session.config.policy = "strict" /\ session.unready < MaxUnready
    /\ session' = [session EXCEPT !.unready = IF ready THEN 0 ELSE @ + 1]
    /\ UNCHANGED <<service, disk, bfe, guard, strictKept, luid, phase, task>>
    /\ UNCHANGED ghosts

-----------------------------------------------------------------------------
(* The configuration file: after a Connect, and for ReloadConfiguration *)

ReloadBegin(a) ==
    /\ a \in Clients /\ Begin(a)
    /\ \E c \in Configs :
         task' = [task EXCEPT ![a] = [Idle EXCEPT !.pc = "open", !.config = c]]
    /\ UNCHANGED <<session, phase>>

SaveStep(a, pc, d) ==
    /\ disk' = d /\ Goto(a, pc)
    /\ UNCHANGED <<service, bfe, guard, strictKept, luid, session, phase>>
    /\ UNCHANGED ghosts

\* A save that fails is reported or logged; the call is over.
SaveFails(a) ==
    /\ task[a].pc \in {"open", "write", "rename"}
    /\ task' = [task EXCEPT ![a] = Idle]
    /\ UNCHANGED <<service, disk, bfe, guard, strictKept, luid, session, phase>>
    /\ UNCHANGED ghosts

\* The security settings are read back from the file before it is replaced.
SaveOpen(a) ==
    /\ task[a].pc = "open" /\ disk.file # Partial
    /\ SaveStep(a, "write", [disk EXCEPT !.temp = Partial])

\* The writer holds the file, not its name: another save may have renamed it.
SaveWrite(a) ==
    /\ task[a].pc = "write"
    /\ SaveStep(a, "remove",
                IF disk.temp # Nothing THEN [disk EXCEPT !.temp = task[a].config]
                ELSE IF disk.file = Partial THEN [disk EXCEPT !.file = task[a].config]
                ELSE disk)

SaveRemove(a) ==
    /\ task[a].pc = "remove"
    /\ SaveStep(a, "rename", [disk EXCEPT !.file = Nothing])

SaveRename(a) ==
    /\ task[a].pc = "rename" /\ disk.temp # Nothing
    /\ disk' = [file |-> disk.temp, temp |-> Nothing]
    /\ task' = [task EXCEPT ![a] = Idle]
    /\ UNCHANGED <<service, bfe, guard, strictKept, luid, session, phase>>
    /\ UNCHANGED ghosts

-----------------------------------------------------------------------------
(* The service *)

\* Mutant: startup removes what a service before it left behind.
ServiceStartCleans ==
    /\ service = "down" /\ disk.file # Partial
    /\ service' = "up"
    /\ bfe' = {} /\ strictKept' = FALSE
    /\ UNCHANGED <<disk, guard, luid, session, phase, task>> /\ UNCHANGED ghosts

\* run_service up to Running: the saved policy is reconciled first, and a
\* failure keeps the service down.
ServiceStart ==
    LET c == IF disk.file = Nothing THEN DefaultConfig ELSE disk.file IN
    /\ service = "down" /\ disk.file # Partial
    /\ service' = "up"
    /\ bfe' = reconcile_startup_policy(c)
    /\ strictKept' = (c.policy = "strict")
    /\ UNCHANGED <<disk, guard, luid, session, phase, task>> /\ UNCHANGED ghosts

\* The control handler's Stop: the main thread disconnects like a client.
ServiceStop ==
    /\ service = "up"
    /\ service' = "stopping"
    /\ raced' = (raced \/ ~Quiet)
    /\ session' = Nothing
    /\ phase' = IF session = Nothing THEN "Idle" ELSE "Disconnected"
    /\ task' = [task EXCEPT ![SCM] =
                 IF session = Nothing THEN [Idle EXCEPT !.pc = "stopped"]
                 ELSE [Idle EXCEPT !.pc = "teardown", !.engaged = TRUE]]
    /\ UNCHANGED <<disk, bfe, guard, strictKept, luid, cleaned, promised>>

\* The process is gone, after a stop or by a crash or reboot: dynamic sessions
\* close and the adapter goes; files and persistent blocks stay.  What a
\* strict session promised lasts only if its configuration is the saved one.
ProcessGone ==
    /\ service' = "down"
    /\ bfe' = Persistent(bfe)
    /\ guard' = Nothing /\ strictKept' = FALSE /\ luid' = FALSE
    /\ session' = Nothing /\ phase' = "Idle"
    /\ task' = [a \in Actors |-> Idle]
    /\ raced' = FALSE /\ cleaned' = FALSE
    /\ promised' = IF disk.file \in Configs /\ disk.file.policy = "strict"
                   THEN promised \cap disk.file.routes ELSE {}
    /\ UNCHANGED disk

ServiceStopped == task[SCM].pc = "stopped" /\ ProcessGone
Crash == service # "down" /\ ProcessGone

\* The elevated wfp-cleanup command, run by the uninstaller or by hand.
WfpCleanup ==
    /\ bfe' = cleanup_owned_persistent_filters
    /\ cleaned' = (service # "down") /\ promised' = {}
    /\ UNCHANGED <<service, disk, guard, strictKept, luid, session, phase, task, raced>>

-----------------------------------------------------------------------------

HostNext ==
    \/ \E a \in Actors :
         \/ ConnectBegin(a) \/ EngageReconcile(a) \/ EngageInstall(a) \/ CreateAdapter(a)
         \/ Rebuild(a) \/ Reinstall(a) \/ ApplyNetwork(a) \/ Establish(a)
         \/ Connected(a) \/ ConnectFailed(a)
         \/ DisconnectBegin(a) \/ Teardown(a) \/ Disengage(a)
         \/ ReloadBegin(a) \/ SaveOpen(a) \/ SaveWrite(a) \/ SaveRemove(a) \/ SaveRename(a)
         \/ SaveFails(a)
    \/ \E ready \in BOOLEAN : Watchdog(ready)
    \/ ServiceStart \/ ServiceStop \/ ServiceStopped \/ Crash \/ WfpCleanup

HostSpec == HostInit /\ [][HostNext]_hostVars

-----------------------------------------------------------------------------
(* Properties *)

\* While calls do not overlap, a session whose connect engaged the kill switch
\* has its routes blocked outside the tunnel and permitted inside it: neither
\* the second engagement of create_adapter nor a rollback leaves a session
\* with less (engine.rs connect_inner, platform.rs create_adapter).
SessionIsGuarded ==
    session # Nothing /\ session.engaged /\ ~raced /\ ~cleaned
        => \A r \in session.config.routes : Blocked(r) /\ Permitted(r)

\* The routes of a strict session stay blocked through disconnects, failed
\* connects, crashes, reboots and restarts, until a failClosed configuration
\* is engaged or has become the saved one, or the cleanup command runs
\* (wfp.rs engage_strict and reconcile_startup_policy).
StrictStaysBlocked == \A r \in promised : Blocked(r)

=============================================================================

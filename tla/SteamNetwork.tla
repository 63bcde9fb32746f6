--------------------------- MODULE SteamNetwork ---------------------------
(***************************************************************************)
(* The SteamOS host side of qlinkd: the network plan the daemon applies    *)
(* with `ip` and `nft`, its rollback, the ownership record from which a    *)
(* separate `qlinkd --deactivate-network` process undoes it, the systemd   *)
(* unit that runs both, and the game classification rules the resident     *)
(* daemon adds to the table it owns.                                       *)
(*                                                                         *)
(* Every command is one step, since a kill, a stop request or the other    *)
(* process can come between any two of them.  Any command can fail.        *)
(***************************************************************************)
EXTENDS Naturals, Sequences, FiniteSets

CONSTANTS
    Configs,     \* the daemon configurations an operator writes: [iface, mode, exempt, games]
    Profiles,    \* game profiles; a configuration installs some of them
    Sessions,    \* game launch sessions
    None,
    RulesPerGame,\* marking rules of one profile (two for each UDP port)
    MaxHandle    \* bound: rule handles of one nft table

SteamNetworkAssumption ==
    /\ RulesPerGame \in Nat \ {0}
    /\ MaxHandle \in Nat
    /\ None \notin Profiles \cup Sessions

VARIABLES
    config,      \* the configuration directory
    record,      \* network-ownership.json: an interface name, or None
    kernel,      \* what the commands built: tun, rule, route, table, drop, marks
    unit,        \* the systemd unit
    main,        \* the qlinkd --activate-network process
    cleaner,     \* the qlinkd --deactivate-network process of ExecStop(Post)
    selection,   \* game-profile-selection.json
    game,        \* the engine's game classification
    lost,        \* objects that no record names any more, and how that came about is below
    leaked,      \* marking rules no engine knows of
    protecting   \* an activation succeeded and no operator has stopped the unit since

networkVars == <<config, record, kernel, unit, main, cleaner, selection, game,
                 lost, leaked, protecting>>

---------------------------------------------------------------------------
(* The plan and what its commands do to the kernel.                        *)

\* The ip commands, in order.
NetworkOps == <<"CreateTun", "AddAddress", "SetLinkUp", "AddRule", "AddRoute">>

\* The nft commands: the table, its chains with the exemptions, and the rules
\* that drop protected traffic.  Game mode has one drop rule more.
FilterOps(mode) ==
    IF mode = "game"
    THEN <<"AddTable", "AddChains", "DropUnmarked", "DropOutside">>
    ELSE <<"AddTable", "AddChains", "MarkTraffic", "DropOutside">>

\* A plan exists unless the whole traffic is to be tunnelled with no way out
\* for the tunnel itself.
PlanAllowed(c) == c.mode = "full" => c.exempt

PlanOps(c) == NetworkOps \o FilterOps(c.mode)

\* Does the kernel accept the ip command?  Objects that exist are refused.
NetworkAccepts(op, i, k) ==
    \/ op = "CreateTun" /\ i \notin k.tun
    \/ op \in {"AddAddress", "SetLinkUp"} /\ i \in k.tun
    \/ op = "AddRule" /\ ~k.rule
    \/ op = "AddRoute" /\ k.route = None /\ i \in k.tun

NetworkEffect(op, i, k) ==
    IF op = "CreateTun" THEN [k EXCEPT !.tun = @ \cup {i}]
    ELSE IF op = "AddRule" THEN [k EXCEPT !.rule = TRUE]
    ELSE IF op = "AddRoute" THEN [k EXCEPT !.route = i]
    ELSE k

\* nft adds a table or a chain that exists without complaint.
FilterAccepts(op, k) == op = "AddTable" \/ k.table

FilterEffect(op, i, k) ==
    IF op = "AddTable" THEN [k EXCEPT !.table = TRUE]
    ELSE IF op = "DropOutside" THEN [k EXCEPT !.drop = @ \cup {i}]
    ELSE k

IsFilterOp(op) == op \in {"AddTable", "AddChains", "DropUnmarked", "MarkTraffic", "DropOutside"}

Accepts(op, i, k) == IF IsFilterOp(op) THEN FilterAccepts(op, k) ELSE NetworkAccepts(op, i, k)
Effect(op, i, k) == IF IsFilterOp(op) THEN FilterEffect(op, i, k) ELSE NetworkEffect(op, i, k)

\* The commands that undo a set of completed ones: the table first, then the
\* ip objects from the last to the first.
FilterReverts(done) == IF "AddTable" \in done THEN <<"DeleteTable">> ELSE <<>>

NetworkReverts(done) ==
    SelectSeq(<<"RemoveRoute", "RemoveRule", "DeleteTun">>,
              LAMBDA r : \/ r = "RemoveRoute" /\ "AddRoute" \in done
                         \/ r = "RemoveRule" /\ "AddRule" \in done
                         \/ r = "DeleteTun" /\ "CreateTun" \in done)

RevertsOf(done) == FilterReverts(done) \o NetworkReverts(done)

\* The plan rebuilt from an ownership record names the four objects to undo.
RecordPlan == {"AddTable", "AddRoute", "AddRule", "CreateTun"}

\* Deleting a table takes its rules along, deleting an interface its route.
FilterReverted(k) == [k EXCEPT !.table = FALSE, !.drop = {}, !.marks = {}]

NetworkReverted(r, i, k) ==
    IF r = "RemoveRule" THEN [k EXCEPT !.rule = FALSE]
    ELSE [k EXCEPT !.route = IF @ = i THEN None ELSE @,
                   !.tun = IF r = "DeleteTun" THEN @ \ {i} ELSE @]

Reverted(r, i, k) == IF r = "DeleteTable" THEN FilterReverted(k) ELSE NetworkReverted(r, i, k)

EmptyKernel == [tun |-> {}, rule |-> FALSE, route |-> None, table |-> FALSE,
                drop |-> {}, marks |-> {}]

\* The objects there are, and the ones a record lets a later process undo.
Objects(k) ==
    {<<"tun", i>> : i \in k.tun}
        \cup (IF k.rule THEN {<<"rule", None>>} ELSE {})
        \cup (IF k.route # None THEN {<<"route", k.route>>} ELSE {})
        \cup (IF k.table THEN {<<"table", None>>} ELSE {})

Named(i) == IF i = None THEN {}
            ELSE {<<"tun", i>>, <<"rule", None>>, <<"route", i>>, <<"table", None>>}

\* The object a revert command is about.
ObjectOf(r, i) ==
    IF r = "DeleteTable" THEN <<"table", None>>
    ELSE IF r = "RemoveRoute" THEN <<"route", i>>
    ELSE IF r = "RemoveRule" THEN <<"rule", None>>
    ELSE <<"tun", i>>

\* The objects a set of completed commands created.
Created(done, i) == {ObjectOf(RevertsOf(done)[n], i) : n \in DOMAIN RevertsOf(done)}

---------------------------------------------------------------------------
NoMain == [at |-> "none", iface |-> None, mode |-> None, todo |-> <<>>, done |-> {},
           failed |-> FALSE]
NoCleaner == [at |-> "none", iface |-> None, todo |-> <<>>, failed |-> FALSE, raced |-> FALSE]
NoGame == [selected |-> None, armed |-> None, active |-> None, session |-> None, rules |-> {},
           error |-> FALSE, adding |-> None]

NetworkInit ==
    /\ config \in Configs
    /\ record = None
    /\ kernel = EmptyKernel
    /\ unit = "inactive"
    /\ main = NoMain
    /\ cleaner = NoCleaner
    /\ selection \in Profiles \cup {None}
    /\ game = NoGame
    /\ lost = {}
    /\ leaked = {}
    /\ protecting = FALSE

\* The operator edits the configuration file while the unit is not running.
EditConfig ==
    /\ unit \in {"inactive", "restart"}
    /\ config' \in Configs \ {config}
    /\ UNCHANGED <<record, kernel, unit, main, cleaner, selection, game, lost, leaked,
                   protecting>>

\* The engine takes over the stored selection when that profile is installed.
LoadedSelection == IF selection \in config.games THEN selection ELSE None

\* systemctl start, the start at boot, and the restart of Restart=on-failure.
\* The process loads the configuration and the profile selection, builds the
\* plan and prepares the storage of the record; it exits before the first
\* command when one of these fails.
StartUnit ==
    /\ unit \in {"inactive", "restart"}
    /\ unit' = "running"
    /\ main' = IF PlanAllowed(config)
               THEN [NoMain EXCEPT !.at = "apply", !.iface = config.iface,
                                   !.mode = config.mode, !.todo = PlanOps(config)]
               ELSE [NoMain EXCEPT !.at = "exit1"]
    /\ game' = [NoGame EXCEPT !.selected = LoadedSelection]
    /\ UNCHANGED <<config, record, kernel, cleaner, selection, lost, leaked, protecting>>

PrepareFails ==
    /\ main.at = "apply" /\ main.done = {}
    /\ main' = [NoMain EXCEPT !.at = "exit1"]
    /\ UNCHANGED <<config, record, kernel, unit, cleaner, selection, game, lost, leaked,
                   protecting>>

\* One command of the plan; the first that fails starts the rollback of the
\* completed ones.
ApplyOp ==
    /\ main.at = "apply"
    /\ LET op == Head(main.todo) IN
       /\ Accepts(op, main.iface, kernel)
       /\ kernel' = Effect(op, main.iface, kernel)
       /\ main' = [main EXCEPT !.todo = Tail(@), !.done = @ \cup {op},
                               !.at = IF Len(main.todo) = 1 THEN "store" ELSE "apply"]
    /\ UNCHANGED <<config, record, unit, cleaner, selection, game, lost, leaked, protecting>>

ApplyFails ==
    /\ main.at = "apply"
    /\ main' = [main EXCEPT !.todo = RevertsOf(main.done), !.at = "rollback"]
    /\ UNCHANGED <<config, record, kernel, unit, cleaner, selection, game, lost, leaked,
                   protecting>>

\* One revert command.  It succeeds on an object that is already gone.  When
\* it fails the remaining ones are tried all the same.
RevertOp(p, r, ok) ==
    /\ r = Head(p.todo)
    /\ kernel' = IF ok THEN Reverted(r, p.iface, kernel) ELSE kernel
    /\ leaked' = leaked \cap kernel'.marks

\* rollback_error, and the deactivation of the same plan when the record could
\* not be stored: what a failed command leaves behind is in no record, and the
\* process exits with an error.
RollbackOp ==
    /\ main.at = "rollback" /\ main.todo # <<>>
    /\ \E ok \in BOOLEAN :
         /\ RevertOp(main, Head(main.todo), ok)
         /\ main' = [main EXCEPT !.todo = Tail(@)]
         /\ lost' = (lost \cup (IF ok THEN {} ELSE {ObjectOf(Head(main.todo), main.iface)}))
                        \cap Objects(kernel')
    /\ UNCHANGED <<config, record, unit, cleaner, selection, game, protecting>>

RollbackDone ==
    /\ main.at = "rollback" /\ main.todo = <<>>
    /\ main' = [NoMain EXCEPT !.at = "exit1"]
    /\ UNCHANGED <<config, record, kernel, unit, cleaner, selection, game, lost, leaked,
                   protecting>>

\* The record is written once every command has succeeded.  It replaces the
\* record an earlier cleanup that failed left for a retry.
StoreRecord ==
    /\ main.at = "store"
    /\ record' = main.iface
    /\ lost' = (lost \cup Objects(kernel)) \ Named(main.iface)
    /\ main' = [main EXCEPT !.at = "open"]
    /\ cleaner' = [cleaner EXCEPT !.raced = cleaner.at = "revert"]
    /\ UNCHANGED <<config, kernel, unit, selection, game, leaked, protecting>>

StoreFails ==
    /\ main.at = "store"
    /\ main' = [main EXCEPT !.todo = RevertsOf(main.done), !.at = "rollback"]
    /\ UNCHANGED <<config, record, kernel, unit, cleaner, selection, game, lost, leaked,
                   protecting>>

\* The TUN device opens and the data plane starts: the engine is resident, with
\* the profile of the applied plan.
StartDataPlane ==
    /\ main.at = "open" /\ main.iface \in kernel.tun
    /\ main' = [main EXCEPT !.at = "resident", !.done = {}]
    /\ game' = [game EXCEPT !.armed = game.selected]
    /\ protecting' = (unit = "running")
    /\ UNCHANGED <<config, record, kernel, unit, cleaner, selection, lost, leaked>>

\* The device does not open: the process undoes what the record names.
StartDataPlaneFails ==
    /\ main.at = "open"
    /\ main' = IF record = None
               THEN [NoMain EXCEPT !.at = "exit1"]
               ELSE [main EXCEPT !.at = "cleanup", !.iface = record,
                                 !.todo = RevertsOf(RecordPlan), !.done = {}]
    /\ UNCHANGED <<config, record, kernel, unit, cleaner, selection, game, lost, leaked,
                   protecting>>

\* Mutant: the record goes although a command failed.
RecordAlwaysRemoved(failed) == None

\* deactivate_network_with: the record goes only when every command succeeded.
RecordAfterCleanup(failed) == IF failed THEN record ELSE None

CleanupOp ==
    /\ main.at = "cleanup" /\ main.todo # <<>>
    /\ \E ok \in BOOLEAN :
         /\ RevertOp(main, Head(main.todo), ok)
         /\ main' = [main EXCEPT !.todo = Tail(@), !.failed = @ \/ ~ok]
    /\ lost' = lost \cap Objects(kernel')
    /\ UNCHANGED <<config, record, unit, cleaner, selection, game, protecting>>

CleanupDone ==
    /\ main.at = "cleanup" /\ main.todo = <<>>
    /\ record' = RecordAfterCleanup(main.failed)
    /\ main' = [NoMain EXCEPT !.at = "exit1"]
    /\ UNCHANGED <<config, kernel, unit, cleaner, selection, game, lost, leaked, protecting>>

---------------------------------------------------------------------------
(* The unit: ExecStop, SIGTERM, ExecStopPost, Restart=on-failure.          *)

\* A process that dies takes the engine's knowledge of its rules with it.
MainGone ==
    /\ main' = NoMain
    /\ game' = NoGame
    /\ leaked' = kernel.marks

StartCleaner == cleaner' = [NoCleaner EXCEPT !.at = "load"]

\* The resident loop ends with an error (publication expired or stopped, the
\* control listener failed), or the start did: exit status 1, then ExecStopPost.
MainExits ==
    /\ main.at = "exit1" \/ (main.at = "resident" /\ game.adding = None)
    /\ unit = "running"
    /\ MainGone
    /\ unit' = "post_failed"
    /\ StartCleaner
    /\ UNCHANGED <<config, record, kernel, selection, lost, protecting>>

\* The process is killed wherever it is.  What it had created and not recorded
\* yet is in no record.
UnrecordedWork ==
    IF main.at \in {"apply", "rollback", "store"}
    THEN Created(main.done, main.iface) \cap Objects(kernel) ELSE {}

MainKilled ==
    /\ main.at # "none" /\ unit = "running"
    /\ lost' = lost \cup UnrecordedWork
    /\ MainGone
    /\ unit' = "post_failed"
    /\ StartCleaner
    /\ UNCHANGED <<config, record, kernel, selection, protecting>>

\* systemctl stop: ExecStop runs beside the daemon,
StopUnit ==
    /\ unit = "running"
    /\ unit' = "stopping"
    /\ StartCleaner
    /\ protecting' = FALSE
    /\ UNCHANGED <<config, record, kernel, main, selection, game, lost, leaked>>

\* then SIGTERM ends it: the resident loop sees its flag, and a process that has
\* not come to the loop has no handler and dies where it is.
Terminate ==
    /\ unit = "stopping" /\ cleaner.at = "none"
    /\ lost' = lost \cup UnrecordedWork
    /\ MainGone
    /\ unit' = "post_stopped"
    /\ StartCleaner
    /\ UNCHANGED <<config, record, kernel, selection, protecting>>

\* The cleaner finds no record and is done, or starts on the record's plan.
CleanerLoads ==
    /\ cleaner.at = "load"
    /\ cleaner' = IF record = None THEN [NoCleaner EXCEPT !.at = "done"]
                  ELSE [cleaner EXCEPT !.at = "revert", !.iface = record,
                                       !.todo = RevertsOf(RecordPlan)]
    /\ UNCHANGED <<config, record, kernel, unit, main, selection, game, lost, leaked,
                   protecting>>

CleanerOp ==
    /\ cleaner.at = "revert" /\ cleaner.todo # <<>>
    /\ \E ok \in BOOLEAN :
         /\ RevertOp(cleaner, Head(cleaner.todo), ok)
         /\ cleaner' = [cleaner EXCEPT !.todo = Tail(@), !.failed = @ \/ ~ok]
    /\ lost' = lost \cap Objects(kernel')
    /\ UNCHANGED <<config, record, unit, main, selection, game, protecting>>

\* The record is removed, or the removal of the file fails and it stays.  An
\* activation that stored its own record since this process read the old one
\* loses it.
CleanerDone ==
    /\ cleaner.at = "revert" /\ cleaner.todo = <<>>
    /\ record' \in {record, RecordAfterCleanup(cleaner.failed)}
    /\ lost' = IF record' = None /\ cleaner.raced THEN Objects(kernel) ELSE lost
    /\ cleaner' = [NoCleaner EXCEPT !.at = "done"]
    /\ UNCHANGED <<config, kernel, unit, main, selection, game, leaked, protecting>>

\* systemd gives up waiting for the cleaner and kills it.
CleanerKilled ==
    /\ cleaner.at \in {"load", "revert"}
    /\ cleaner' = [NoCleaner EXCEPT !.at = "done"]
    /\ UNCHANGED <<config, record, kernel, unit, main, selection, game, lost, leaked,
                   protecting>>

CleanerExits ==
    /\ cleaner.at = "done"
    /\ cleaner' = NoCleaner
    /\ unit' = IF unit = "post_failed" THEN "restart"
               ELSE IF unit = "post_stopped" THEN "inactive" ELSE unit
    /\ UNCHANGED <<config, record, kernel, main, selection, game, lost, leaked, protecting>>

\* Power loss: the kernel's objects and every process are gone, the files stay.
Reboot ==
    /\ unit' = "inactive"
    /\ kernel' = EmptyKernel
    /\ main' = NoMain /\ cleaner' = NoCleaner /\ game' = NoGame
    /\ lost' = {} /\ leaked' = {} /\ protecting' = FALSE
    /\ UNCHANGED <<config, record, selection>>

---------------------------------------------------------------------------
(* Control requests, which the resident loop serves one at a time.         *)

Serving == main.at = "resident" /\ game.adding = None

StoreSelection(p) == selection' = p

\* Mutant: the profile can be changed while a game is classified.
SelectWhileActive(p) ==
    /\ Serving
    /\ StoreSelection(p)
    /\ game' = [game EXCEPT !.selected = p]
    /\ UNCHANGED <<config, record, kernel, unit, main, cleaner, lost, leaked, protecting>>

\* The selection is stored before it is taken over.  The applied plan keeps its
\* profile until the next activation.
SelectGameProfile(p) ==
    /\ Serving /\ game.active = None
    /\ p \in config.games \cup {None}
    /\ StoreSelection(p)
    /\ game' = [game EXCEPT !.selected = p]
    /\ UNCHANGED <<config, record, kernel, unit, main, cleaner, lost, leaked, protecting>>

\* The caller's cgroup is the scope that its session was launched in.
InLaunchScope(scope, s) == scope = s

\* Classification starts for the selected profile when the applied plan has it,
\* from the launch scope of the session.
BeginGameProcess(p, s, scope) ==
    /\ Serving /\ main.mode = "game"
    /\ game.active = None
    /\ p = game.selected /\ p = game.armed
    /\ InLaunchScope(scope, s)
    /\ game' = [game EXCEPT !.adding = s, !.rules = {}]
    /\ UNCHANGED <<config, record, kernel, unit, main, cleaner, selection, lost, leaked,
                   protecting>>

FreshHandles == (1..MaxHandle) \ (kernel.marks \cup game.rules)

\* The handle of the next rule: a table never gives one out twice.
NextHandle == CHOOSE h \in FreshHandles : \A g \in FreshHandles : h <= g

AddGameRule ==
    /\ game.adding # None
    /\ kernel.table /\ FreshHandles # {}
    /\ kernel' = [kernel EXCEPT !.marks = @ \cup {NextHandle}]
    /\ LET rules == game.rules \cup {NextHandle} IN
       game' = IF Cardinality(rules) = RulesPerGame
               THEN [game EXCEPT !.active = game.armed, !.session = game.adding,
                                 !.rules = rules, !.adding = None, !.error = FALSE]
               ELSE [game EXCEPT !.rules = rules]
    /\ UNCHANGED <<config, record, unit, main, cleaner, selection, lost, leaked, protecting>>

\* A rule that is not in the table cannot be deleted.
Undeletable(rules) == rules \ kernel.marks

\* The rule is refused, or added without the handle being read from the answer.
\* The earlier ones are deleted, and an error in that is ignored.
AddGameRuleFails ==
    /\ game.adding # None
    /\ \E stuck \in SUBSET game.rules, unread \in BOOLEAN :
         /\ Undeletable(game.rules) \subseteq stuck
         /\ unread => kernel.table /\ FreshHandles # {}
         /\ LET added == IF unread THEN {NextHandle} ELSE {} IN
            /\ kernel' = [kernel EXCEPT !.marks = (@ \ (game.rules \ stuck)) \cup added]
            /\ leaked' = (leaked \cup stuck \cup added) \cap kernel'.marks
    /\ game' = [game EXCEPT !.rules = {}, !.adding = None, !.error = TRUE]
    /\ UNCHANGED <<config, record, unit, main, cleaner, selection, lost, protecting>>

\* The rules whose deletion fails stay with the classification, which stays
\* active and reports the error; a rule that is already gone cannot be deleted.
Retained(stuck) == stuck

EndGameProcess(s) ==
    /\ Serving /\ game.active # None /\ game.session = s
    /\ \E stuck \in SUBSET game.rules :
         /\ Undeletable(game.rules) \subseteq stuck
         /\ kernel' = [kernel EXCEPT !.marks = @ \ (game.rules \ stuck)]
         /\ game' = IF stuck = {}
                    THEN [game EXCEPT !.active = None, !.session = None, !.rules = {},
                                      !.error = FALSE]
                    ELSE [game EXCEPT !.rules = Retained(stuck), !.error = TRUE]
    /\ UNCHANGED <<config, record, unit, main, cleaner, selection, lost, leaked, protecting>>

\* What status reports of the classification.
ClassificationState ==
    IF game.active # None
    THEN IF game.error THEN "applyFailed" ELSE "active"
    ELSE IF game.error THEN "applyFailed"
         ELSE IF game.selected # None /\ main.at = "resident" /\ game.armed = game.selected
              THEN "armed" ELSE "failClosed"

\* What it reports of the profile's ports.
PortEnforcement ==
    IF main.at # "resident" THEN "planned"
    ELSE IF game.armed # None /\ game.active # None /\ ~game.error
         THEN "applied" ELSE "failClosed"

---------------------------------------------------------------------------
UnitNext ==
    \/ EditConfig \/ StartUnit \/ MainExits \/ MainKilled \/ StopUnit \/ Terminate
    \/ CleanerLoads \/ CleanerOp \/ CleanerDone \/ CleanerKilled \/ CleanerExits \/ Reboot

ActivationNext ==
    \/ PrepareFails \/ ApplyOp \/ ApplyFails \/ RollbackOp \/ RollbackDone
    \/ StoreRecord \/ StoreFails \/ StartDataPlane \/ StartDataPlaneFails
    \/ CleanupOp \/ CleanupDone

GameNext ==
    \/ \E p \in Profiles \cup {None} : SelectGameProfile(p)
    \/ \E p \in Profiles, s, scope \in Sessions : BeginGameProcess(p, s, scope)
    \/ AddGameRule
    \/ AddGameRuleFails
    \/ \E s \in Sessions : EndGameProcess(s)

NetworkNext == UnitNext \/ ActivationNext \/ GameNext

---------------------------------------------------------------------------
(* Properties.                                                             *)

\* The commands of an activation that has not written its record.
InProgress ==
    IF main.at \in {"apply", "rollback", "store"} THEN Created(main.done, main.iface) ELSE {}

\* Every interface, rule, route and table qlinkd left in the kernel is one that a
\* later `qlinkd --deactivate-network` removes (activate_network_with writes the
\* record after the last command and deactivate_network_with drops it only after
\* a complete cleanup), whatever configuration is on disk by then.  `lost` holds
\* the exceptions, which arise in four ways only: a rollback command failed, the
\* process died between its first command and its record, an activation with
\* another interface name overwrote the record of a cleanup that had failed, and
\* a cleanup finished after a concurrent activation had written its record.
ResidueIsRecorded ==
    Objects(kernel) \subseteq Named(record) \cup lost \cup InProgress

\* Every rule that marks game traffic is one the engine can still delete
\* (end_game_process_with keeps the rules whose deletion failed), except those a
\* failed begin_game_process_with could not take back and those of an engine
\* that died.
MarksAreAccountedFor ==
    main.at = "resident" => kernel.marks \subseteq game.rules \cup leaked

\* Nothing qlinkd put into the kernel is forgotten: neither what the record names nor
\* the rules of a game.
KernelStateIsKnown == ResidueIsRecorded /\ MarksAreAccountedFor

\* What status reports is what the kernel enforces, while no stop is in progress:
\* "active" and "applied" mean that the profile's complete rule set is there, and
\* "armed" or "active" that protected traffic is dropped outside the interface.
StatusIsEnforced ==
    main.at = "resident" /\ unit = "running" =>
        /\ ClassificationState = "active" \/ PortEnforcement = "applied" =>
               /\ Cardinality(game.rules) = RulesPerGame
               /\ game.rules \subseteq kernel.marks
               /\ game.active = game.selected /\ game.active = game.armed
        /\ ClassificationState \in {"armed", "active"} =>
               /\ kernel.table /\ main.iface \in kernel.drop
               /\ kernel.rule /\ kernel.route = main.iface

\* docs/architecture.md: protected game traffic does not leave outside the TUN
\* path when QuantumLink is down.  While nobody has stopped the unit, a daemon
\* that is down leaves the rule that drops protected traffic in place.
FailClosedWhenDown ==
    protecting /\ main.at = "none" => kernel.table /\ kernel.drop # {}

NetworkSpec == NetworkInit /\ [][NetworkNext]_networkVars

============================================================================

---------------------------- MODULE SteamDesktop -----------------------------
(***************************************************************************)
(* qlink-desktop, the SteamOS window: the GUI thread, its control worker   *)
(* and the qlinkctl processes the worker runs one after another, against a *)
(* peer store, a service and a game profile that others change too.        *)
(*                                                                         *)
(* A frame of the GUI first takes the worker's answers, then the keys, then*)
(* the clicks; an answer may come in between.  Which page is on display is *)
(* left out: every page is a click away, and only leaving the peers by the *)
(* sidebar changes anything else.  A qlinkctl run is one step here: how two*)
(* of them race on the peer store is in SteamPeers.                        *)
(***************************************************************************)
EXTENDS Naturals, Sequences

CONSTANTS
    Peers,      \* peer identifiers
    Profiles,   \* the game profiles the service offers
    None        \* absent

VARIABLES
    store,      \* the peer store on disk: [peers, sel]
    service,    \* qlinkd: "stopped", "starting" or "up"
    profile,    \* the selected game profile, kept across restarts
    busy,       \* whether the GUI waits for an answer
    shown,      \* the snapshot on display, or None
    selected,   \* the peer the GUI takes for selected
    confirm,    \* the peer action waiting for a second click, or None
    requests,   \* channel to the worker
    job,        \* what the worker executes, or None
    responses,  \* channel back
    outside     \* whether someone else changed something while it waits

world == <<store, service, profile>>
gui == <<busy, shown, selected, confirm>>
desktopVars == <<world, gui, requests, job, responses, outside>>

Request(op, arg) == [op |-> op, arg |-> arg]

(***************************************************************************)
(* The GUI thread.                                                         *)
(***************************************************************************)

\* A request made while another is under way is dropped.
submit(r) ==
    IF busy THEN UNCHANGED <<requests, busy, outside>>
    ELSE /\ requests' = Append(requests, r)
         /\ busy' = TRUE
         /\ outside' = FALSE

DesktopInit ==
    /\ store = [peers |-> [p \in Peers |-> "absent"], sel |-> None]
    /\ service \in {"stopped", "up"}
    /\ profile = None
    /\ busy = TRUE
    /\ shown = None
    /\ selected = None
    /\ confirm = None
    /\ requests = <<Request("Refresh", None)>>
    /\ job = None
    /\ responses = <<>>
    /\ outside = FALSE

Running == shown # None /\ shown.daemon # None

apply_snapshot(s) == shown' = s /\ selected' = s.sel

receive_results ==
    /\ responses # <<>>
    /\ LET r == Head(responses) IN
       IF r.ok /\ r.snap # None THEN apply_snapshot(r.snap)
       ELSE UNCHANGED <<shown, selected>>
    /\ busy' = FALSE
    /\ responses' = Tail(responses)
    /\ outside' = FALSE
    /\ UNCHANGED <<world, confirm, requests, job>>

\* qlinkd never reports the phase Connected, so that Disconnect is not offered here.
overview == {Request("Connect", p) : p \in {selected} \ {None}}

Card(p) == IF selected = p THEN {Request("ClearPeer", None)}
           ELSE IF shown.peers[p] = "ok" THEN {Request("SelectPeer", p)} ELSE {}
Listed == {p \in Peers : shown # None /\ shown.peers[p] # "absent"}
peers == {Request("Import", p) : p \in Peers} \cup UNION {Card(p) : p \in Listed}

ProfileRequest(p) == IF shown.daemon = p THEN Request("ClearProfile", None)
                     ELSE Request("SelectProfile", p)
profiles == {ProfileRequest(p) : p \in {q \in Profiles : Running}}

\* The wallet's own operations are in NodeRegistry.
identity == {Request("Identity", None)}

diagnostics ==
    {Request("Doctor", None), Request("SupportBundle", None)}
        \cup IF Running THEN {Request("Restart", None), Request("Disconnect", None)}
             ELSE {Request("Start", None)}

\* The header's Refresh and the pages' buttons are dead while the GUI waits.
Click ==
    /\ ~busy
    /\ \E r \in overview \cup peers \cup profiles \cup identity \cup diagnostics
               \cup {Request("Refresh", None)} : submit(r)
    /\ UNCHANGED <<world, shown, selected, confirm, job, responses>>

\* Revoking and removing take a second click,
AskConfirm ==
    /\ ~busy
    /\ \E p \in Listed, op \in {"Revoke", "Remove"} :
         /\ op = "Revoke" => shown.peers[p] = "ok"
         /\ confirm' = Request(op, p)
    /\ UNCHANGED <<world, busy, shown, selected, requests, job, responses, outside>>

\* which is not dead while the GUI waits: the request may be dropped.
Confirm ==
    /\ confirm # None /\ confirm.arg \in Listed
    /\ confirm' = None
    /\ submit(confirm)
    /\ UNCHANGED <<world, shown, selected, job, responses>>

Cancel ==
    /\ confirm # None /\ confirm.arg \in Listed
    /\ confirm' = None
    /\ UNCHANGED <<world, busy, shown, selected, requests, job, responses, outside>>

sidebar ==
    /\ confirm # None
    /\ confirm' = None
    /\ UNCHANGED <<world, busy, shown, selected, requests, job, responses, outside>>

\* In game mode the keys turn the pages, which leaves the open question where
\* it is, and Enter toggles the profile under the cursor.
handle_game_mode_input ==
    /\ Running /\ ~busy
    /\ \E p \in Profiles : submit(ProfileRequest(p))
    /\ UNCHANGED <<world, shown, selected, confirm, job, responses>>

Frame == receive_results
Input == Click \/ AskConfirm \/ Confirm \/ Cancel \/ sidebar
             \/ handle_game_mode_input

(***************************************************************************)
(* The worker.                                                             *)
(***************************************************************************)
Commands(r) ==
    IF r.op = "Refresh" THEN <<>>
    ELSE IF r.op = "Connect" THEN <<"SelectPeer", "Restart">>
    ELSE <<r.op>>

\* refresh_snapshot
Snapshot == <<"status", "state">>

\* Mutant: the snapshot is taken before the commands.
ScriptSnapshotFirst(r) == IF r.op = "Identity" THEN Commands(r) ELSE Snapshot \o Commands(r)

\* execute_request
Script(r) == IF r.op = "Identity" THEN Commands(r) ELSE Commands(r) \o Snapshot

NoSnapshot == [daemon |-> None, peers |-> [p \in Peers |-> "absent"], sel |-> None]

Take ==
    /\ job = None /\ requests # <<>>
    /\ job' = [req |-> Head(requests), todo |-> Script(Head(requests)), snap |-> NoSnapshot]
    /\ requests' = Tail(requests)
    /\ UNCHANGED <<world, gui, responses, outside>>

Answer(ok, snap) == [ok |-> ok, req |-> job.req, snap |-> snap]

Finish ==
    /\ job # None /\ job.todo = <<>>
    /\ responses' = Append(responses,
                           Answer(TRUE, IF job.req.op = "Identity" THEN None ELSE job.snap))
    /\ job' = None
    /\ UNCHANGED <<world, gui, requests, outside>>

Done(snap, more) == job' = [job EXCEPT !.todo = more \o Tail(job.todo), !.snap = snap]

WithoutSelection(p) == IF store.sel = p THEN None ELSE store.sel

\* The commands of qlinkctl that change the peer store.
PeerCommand(c, p) ==
    /\ \/ c = "Import" /\ store' = [store EXCEPT !.peers[p] = "ok"]
       \/ c = "SelectPeer" /\ store.peers[p] = "ok" /\ store' = [store EXCEPT !.sel = p]
       \/ c = "ClearPeer" /\ store' = [store EXCEPT !.sel = None]
       \/ c = "Revoke" /\ store.peers[p] # "absent"
            /\ store' = [peers |-> [store.peers EXCEPT ![p] = "revoked"],
                         sel |-> WithoutSelection(p)]
       \/ c = "Remove" /\ store.peers[p] # "absent"
            /\ store' = [peers |-> [store.peers EXCEPT ![p] = "absent"],
                         sel |-> WithoutSelection(p)]
    /\ Done(job.snap, <<>>)
    /\ UNCHANGED <<service, profile>>

\* systemctl returns before the started daemon listens.
ServiceCommand(c) ==
    /\ c \in {"Start", "Restart", "Disconnect"}
    /\ service' = IF c = "Disconnect" THEN "stopped"
                  ELSE IF c = "Start" /\ service = "up" THEN "up" ELSE "starting"
    /\ Done(job.snap, <<>>)
    /\ UNCHANGED <<store, profile>>

\* The service's answer says whether the change needs a restart.
ProfileCommand(c, p, restart) ==
    /\ service = "up"
    /\ \/ c = "SelectProfile" /\ profile' = p
       \/ c = "ClearProfile" /\ profile' = None
    /\ Done(job.snap, IF restart THEN <<"Restart">> ELSE <<>>)
    /\ UNCHANGED <<store, service>>

\* Reads: a status that cannot be had is shown as a stopped service.
ReadCommand(c) ==
    /\ \/ c = "status"
            /\ Done([job.snap EXCEPT !.daemon =
                        IF service # "up" THEN None
                        ELSE IF profile = None THEN "no profile" ELSE profile], <<>>)
       \/ c = "state" /\ Done([job.snap EXCEPT !.peers = store.peers, !.sel = store.sel], <<>>)
       \/ c \in {"Doctor", "SupportBundle"} /\ service = "up" /\ Done(job.snap, <<>>)
       \/ c = "Identity" /\ Done(job.snap, <<>>)
    /\ UNCHANGED world

run ==
    /\ job # None /\ job.todo # <<>>
    /\ \/ PeerCommand(Head(job.todo), job.req.arg)
       \/ ServiceCommand(Head(job.todo))
       \/ \E restart \in BOOLEAN : ProfileCommand(Head(job.todo), job.req.arg, restart)
       \/ ReadCommand(Head(job.todo))
    /\ UNCHANGED <<gui, requests, responses, outside>>

\* A command that fails ends the request, whatever the ones before it did.
run_fails ==
    /\ job # None /\ job.todo # <<>> /\ Head(job.todo) # "status"
    /\ responses' = Append(responses, Answer(FALSE, None))
    /\ job' = None
    /\ UNCHANGED <<world, gui, requests, outside>>

WorkerStep == Take \/ run \/ run_fails \/ Finish

(***************************************************************************)
(* Everyone else: another terminal, systemd, the daemon itself.            *)
(***************************************************************************)
Listens ==
    /\ service = "starting"
    /\ service' = "up"
    /\ UNCHANGED <<store, profile, gui, requests, job, responses, outside>>

Elsewhere ==
    /\ \/ \E p \in Peers, s \in {"absent", "ok", "revoked"} :
            /\ store' = [peers |-> [store.peers EXCEPT ![p] = s],
                         sel |-> IF s = "ok" THEN store.sel ELSE WithoutSelection(p)]
            /\ UNCHANGED <<service, profile>>
       \/ service' \in {"stopped", "starting"} /\ UNCHANGED <<store, profile>>
       \/ service = "up" /\ profile' \in Profiles \cup {None} /\ UNCHANGED <<store, service>>
    /\ outside' = busy
    /\ UNCHANGED <<gui, requests, job, responses>>

DesktopNext == Frame \/ Input \/ WorkerStep \/ Listens \/ Elsewhere

DesktopSpec == DesktopInit /\ [][DesktopNext]_desktopVars

(***************************************************************************)
(* Properties.                                                             *)
(***************************************************************************)

Effect(r, s) ==
    /\ r.op \in {"SelectPeer", "Connect"} => s.sel = r.arg
    /\ r.op = "ClearPeer" => s.sel = None
    /\ r.op = "Import" => s.peers[r.arg] = "ok"
    /\ r.op = "Revoke" => s.peers[r.arg] = "revoked" /\ s.sel # r.arg
    /\ r.op = "Remove" => s.peers[r.arg] = "absent" /\ s.sel # r.arg
    /\ r.op = "Disconnect" => s.daemon = None
    /\ r.op = "SelectProfile" => s.daemon \in {None, r.arg}
    /\ r.op = "ClearProfile" => s.daemon \in {None, "no profile"}

\* When the window reports a request as done, what it then shows has the
\* request's effect, unless someone else changed something in the meantime.
DoneShown ==
    LET r == Head(responses) IN
    responses # <<>> /\ responses' = <<>> /\ r.ok /\ ~outside
        => Effect(r.req, IF shown' = None THEN NoSnapshot ELSE shown')

=============================================================================

----------------------------- MODULE SteamStatus -----------------------------
(***************************************************************************)
(* What qlinkd reports and what qlinkctl makes of it: the resident loop of *)
(* the SteamOS daemon, the status it serves, and the verdicts the operator *)
(* reads (`qlinkctl doctor`, `qlinkctl onboarding`, `qlinkctl game launch`)*)
(*                                                                         *)
(* The loop is one thread.  The publication worker and the mesh transport  *)
(* run beside it, so their state may change between two steps of a tick.   *)
(* How the worker publishes is in Publication, how a peer loses its place  *)
(* in SteamPeers, how the network is set up in SteamNetwork.               *)
(***************************************************************************)
EXTENDS Naturals

CONSTANTS
    TTL,              \* publication_ttl_seconds
    BindingFailures,  \* the states a failed check of the own enrolment leaves
    TrustFailures,    \* the decision and the health a failed check of the peer leaves
    Hosts,            \* the hosts qlinkd may find itself on
    MaxTime           \* bound on the clock

VARIABLES
    now,        \* unix seconds
    required,   \* whether the selected peer's mesh needs Dytallix
    loop,       \* the step of the tick the resident loop is at, or "down"
    network,    \* NetworkRuntimeState
    owned,      \* whether the ownership record is on disk
    transport,  \* whether the loop holds a mesh transport
    snap,       \* the publication worker's shared snapshot
    reported,   \* the publication status the engine reports
    plane       \* the data plane's recorded status

statusVars == <<now, required, loop, network, owned, transport, snap,
                reported, plane>>

(***************************************************************************)
(* The status document.  0 stands for an expiry that is not set.           *)
(***************************************************************************)
Refusals == {"Denied", "Revoked", "Suspended", "Mismatched"}

Trust(req, decision, health) ==
    [required |-> req, decision |-> decision, health |-> health]
Binding(req, version, state) ==
    [required |-> req, version |-> version, state |-> state]
DefaultPublication ==
    [state |-> "NotStarted", exp |-> 0,
     remote |-> Trust(FALSE, "NotChecked", "Unknown"),
     local |-> Binding(FALSE, "None", "NotConfigured")]

NoPlane == [state |-> "NotStarted", io |-> FALSE, ready |-> FALSE,
            session |-> FALSE, failed |-> FALSE]

\* PublicationController::start
NotPublished(req) ==
    [phase |-> "NotStarted", exp |-> 0, decision |-> "NotChecked",
     health |-> "Unknown", version |-> "None",
     binding |-> IF req THEN "Pending" ELSE "NotConfigured"]

\* PublicationSnapshot::at
At(s) == IF s.exp # 0 /\ s.exp <= now THEN [s EXCEPT !.phase = "Expired"] ELSE s

\* the gate of the packet path
is_current(s) ==
    /\ s.exp > now
    /\ s.phase \in {"Published", "Degraded"}
    /\ required => s.version = "V2" /\ s.binding = "Active"

publication_status(s) ==
    [state |-> IF s.phase = "Published" THEN "Active"
               ELSE IF s.phase = "Stopped" THEN "Failed" ELSE s.phase,
     exp |-> s.exp,
     remote |-> Trust(required, s.decision, s.health),
     local |-> Binding(required, s.version, s.binding)]

\* The data plane's error is kept until the daemon restarts.
PlaneStatus(ready, session, failed) ==
    [state |-> IF failed THEN "Degraded" ELSE IF ready THEN "Ready" ELSE "Starting",
     io |-> TRUE, ready |-> ready, session |-> session, failed |-> failed]

NetworkStatus ==
    [state |-> network, dryRun |-> network = "Planned", owned |-> owned]

\* qlinkd never leaves the phase it starts in.
Status(capabilities, game) ==
    [phase |-> "Idle", network |-> NetworkStatus, plane |-> plane,
     publication |-> reported, game |-> game, capabilities |-> capabilities]

(***************************************************************************)
(* What the host can do, probed once when qlinkd starts.                   *)
(***************************************************************************)
When(holds, otherwise) == IF holds THEN "Supported" ELSE otherwise

\* A probe that works and whose table cannot be deleted is not reported as working.
probe_nftables_cgroup_v2(h) ==
    IF h.nft = "works" THEN "Supported"
    ELSE IF h.nft = "refused" THEN "Unsupported" ELSE "Unavailable"

detect_platform_capabilities(h) ==
    [cgroup |-> When(h.cgroup, "Unsupported"),
     nftables |-> IF h.cgroup THEN probe_nftables_cgroup_v2(h) ELSE "Unsupported",
     tun |-> When(h.tun = "device", IF h.tun = "file" THEN "Unsupported" ELSE "Unavailable"),
     scopes |-> When(h.systemd, "Unavailable"),
     policykit |-> When(h.policykit, "Unavailable"),
     logind |-> When(h.sessions, "Unavailable")]

Capabilities == {detect_platform_capabilities(h) : h \in Hosts}

PacketPath == {"cgroup", "nftables", "tun", "scopes"}
Missing(c, names) == \E n \in names : c[n] \in {"Unsupported", "Unavailable"}

validate_game_launch_capabilities(c) == \A n \in PacketPath : c[n] = "Supported"

(***************************************************************************)
(* qlinkctl's verdicts.                                                    *)
(***************************************************************************)

runtime_capability_verdict(c) ==
    IF Missing(c, PacketPath) THEN "FAIL"
    ELSE IF Missing(c, {"policykit", "logind"}) THEN "WARN" ELSE "none"

data_plane_health_verdict(p) ==
    IF p.state = "Failed" THEN "FAIL" ELSE IF p.state = "Degraded" THEN "WARN" ELSE "none"

network_verdict(n) ==
    IF n.state = "ApplyFailed" \/ (n.state = "Applied" /\ ~n.owned) THEN "FAIL"
    ELSE IF \/ n.state = "Planned" /\ n.dryRun /\ ~n.owned
            \/ n.state = "Applied" /\ ~n.dryRun
         THEN "OK" ELSE "WARN"

\* the status before the local and the remote trust were reported apart
remote_peer_trust(p) == p.remote

\* Mutant: any registry binding of this node will do.
TrustFailureAnyVersion(p) ==
    LET r == remote_peer_trust(p) IN
    (r.required \/ p.local.required) /\
    ( \/ ~p.local.required \/ p.local.state # "Active"
      \/ ~r.required \/ r.decision # "Accepted" \/ r.health = "Unavailable")

TrustFailure(p) ==
    LET r == remote_peer_trust(p) IN
    (r.required \/ p.local.required) /\
    ( \/ ~p.local.required \/ p.local.version # "V2" \/ p.local.state # "Active"
      \/ ~r.required \/ r.decision # "Accepted" \/ r.health = "Unavailable")

RecordExpired(p) == (p.exp # 0 /\ p.exp <= now) \/ p.state = "Expired"

publication_health_verdict(p, active) ==
    IF \/ RecordExpired(p) \/ TrustFailure(p)
       \/ p.state \in {"Failed", "Unknown"}
       \/ p.state = "NotStarted" /\ active
       \/ p.state = "Active" /\ p.exp = 0
    THEN "FAIL"
    ELSE IF \/ p.state # "Active"
            \/ remote_peer_trust(p).required /\ remote_peer_trust(p).health # "Healthy"
         THEN "WARN" ELSE "OK"

\* The first failure decides, then the first warning, then the network.
format_doctor(s) ==
    LET publication == publication_health_verdict(s.publication,
                           s.network.state = "Applied" /\ ~s.network.dryRun)
        verdicts == {data_plane_health_verdict(s.plane), network_verdict(s.network),
                     runtime_capability_verdict(s.capabilities), publication}
    IN  IF s.phase = "Failed" \/ "FAIL" \in verdicts \/ s.game.failed THEN "FAIL"
        ELSE IF s.phase = "Degraded" \/ "WARN" \in verdicts \/ s.game.restart THEN "WARN"
        ELSE "OK"

\* The lines of the onboarding checklist.
network_ready(n) == <<n.state, n.dryRun, n.owned>> \in
    {<<"Planned", TRUE, FALSE>>, <<"Applied", FALSE, TRUE>>}

transport_line(p) == p.ready /\ p.session

publication_ready(p) == p.state = "Active" /\ p.exp > now

dytallix_trust_ready(p) ==
    LET r == remote_peer_trust(p) IN
    \/ ~r.required /\ ~p.local.required
    \/ /\ r.required /\ r.decision = "Accepted" /\ r.health = "Healthy"
       /\ p.local.required /\ p.local.version = "V2" /\ p.local.state = "Active"

\* What the operator is told to do: the trust first, then the record.
publication_action(p) ==
    IF publication_ready(p) THEN "record active"
    ELSE IF RecordExpired(p) THEN "record expired" ELSE p.state

dytallix_action(p) ==
    LET r == remote_peer_trust(p) IN
    IF p.local.required /\ (p.local.state # "Active" \/ p.local.version # "V2")
    THEN "local identity"
    ELSE IF ~r.required THEN "not required"
    ELSE IF r.decision = "Accepted" /\ r.health = "Healthy" THEN "allowed"
    ELSE IF r.decision \in Refusals THEN "refused"
    ELSE IF r.health \in {"Unavailable", "Degraded"} THEN r.health
    ELSE "not checked"

combined_publication_action(p) ==
    IF dytallix_trust_ready(p) THEN publication_action(p) ELSE dytallix_action(p)

(***************************************************************************)
(* The resident loop.                                                      *)
(***************************************************************************)
StatusInit ==
    /\ now = 1
    /\ required \in BOOLEAN
    /\ loop = "down"
    /\ network = "NotStarted"
    /\ owned \in BOOLEAN
    /\ transport = FALSE
    /\ snap = NotPublished(required)
    /\ reported = DefaultPublication
    /\ plane = NoPlane

\* qlinkd starts; an activation that fails ends the process.  The transport may
\* be missing: no identity, no peer, a configuration the core refuses.
StartResident(activate, built) ==
    /\ loop = "down"
    /\ loop' = "report"
    /\ network' = IF activate THEN "Applied" ELSE "Planned"
    /\ owned' = (activate \/ owned)
    /\ transport' = (activate /\ built)
    /\ snap' = NotPublished(required)
    /\ reported' = DefaultPublication
    /\ plane' = IF activate THEN PlaneStatus(FALSE, FALSE, FALSE) ELSE NoPlane
    /\ UNCHANGED <<now, required>>

\* The operator, or the unit's ExecStop, deactivates the network.
Deactivate ==
    /\ owned
    /\ owned' = FALSE
    /\ UNCHANGED <<now, required, loop, network, transport, snap, reported, plane>>

set_publication_snapshot ==
    /\ loop = "report"
    /\ reported' = IF transport THEN publication_status(At(snap)) ELSE reported
    /\ loop' = "terminal"
    /\ UNCHANGED <<now, required, network, owned, transport, snap, plane>>

Terminal == transport /\ At(snap).phase \in {"Expired", "Stopped"}

\* The process ends with its transport, and systemd starts it again.
StopResident ==
    /\ loop' = "down"
    /\ transport' = FALSE
    /\ plane' = NoPlane
    /\ reported' = DefaultPublication
    /\ snap' = NotPublished(required)
    /\ network' = "NotStarted"
    /\ UNCHANGED <<now, required, owned>>

CheckTerminal ==
    /\ loop = "terminal"
    /\ IF Terminal THEN StopResident
       ELSE /\ loop' = "peer"
            /\ UNCHANGED <<now, required, network, owned, transport, snap, reported, plane>>

\* Once a second; a peer that lost its place costs the daemon its transport.
CheckPeer(authorized) ==
    /\ loop = "peer"
    /\ loop' = "pump"
    /\ transport' = (transport /\ authorized)
    /\ snap' = IF transport' THEN snap ELSE NotPublished(required)
    /\ UNCHANGED <<now, required, network, owned, reported, plane>>

\* `link` is the default session the mesh reports: "none", "installed" or "ready".
\* Without a transport the pumps are not called and their status stays.
Pump(fails, link) ==
    /\ loop = "pump"
    /\ loop' = "serve"
    /\ plane' =
         IF transport
         THEN PlaneStatus(is_current(At(snap)) /\ link = "ready",
                          is_current(At(snap)) /\ link # "none", plane.failed \/ fails)
         ELSE plane
    /\ UNCHANGED <<now, required, network, owned, transport, snap, reported>>

\* At most one connection is served; its answer is the status of this moment.
ServeOnce ==
    /\ loop = "serve"
    /\ loop' = "report"
    /\ UNCHANGED <<now, required, network, owned, transport, snap, reported, plane>>

\* A signal is looked at once a tick; a listener that fails ends the loop too.
Signalled == loop \in {"report", "serve"} /\ StopResident

LoopStep ==
    \/ set_publication_snapshot \/ CheckTerminal
    \/ \E authorized \in BOOLEAN : CheckPeer(authorized)
    \/ \E fails \in BOOLEAN, link \in {"none", "installed", "ready"} : Pump(fails, link)
    \/ ServeOnce

(***************************************************************************)
(* The publication worker's rounds, and the mesh transport.                *)
(***************************************************************************)
WorkerSets(s) ==
    /\ loop # "down" /\ transport
    /\ snap' = s
    /\ UNCHANGED <<now, required, loop, network, owned, transport, reported, plane>>

record_failure(s) ==
    [s EXCEPT !.phase = IF s.exp # 0 /\ s.exp <= now THEN "Expired" ELSE "Degraded"]

RoundFails == WorkerSets(record_failure(snap))

Accepted(s) == [s EXCEPT !.phase = "Published", !.exp = now + TTL]

BindingFails(s, kind) ==
    record_failure([s EXCEPT !.binding = kind, !.version = "V2"])
BindingAccepted(s, version) == [s EXCEPT !.binding = "Active", !.version = version]

\* The outcome is read off the error's wording.
record_trust_failure(s, decision, health) ==
    [s EXCEPT !.decision = decision, !.health = health]
record_trust_accepted(s) == [s EXCEPT !.decision = "Accepted", !.health = "Healthy"]

\* A published record, then the node's own enrolment, then the peer's trust.
RoundPublishes ==
    IF ~required THEN WorkerSets(Accepted(snap))
    ELSE \E bound \in {BindingAccepted(Accepted(snap), v) : v \in {"V1", "V2"}}
                      \cup {BindingFails(Accepted(snap), k) : k \in BindingFailures} :
         \E checked \in {record_trust_accepted(bound)}
                        \cup {record_trust_failure(bound, f[1], f[2]) : f \in TrustFailures} :
         WorkerSets(checked)

WorkerStops == WorkerSets([snap EXCEPT !.phase = "Stopped"])

StatusTimePasses ==
    /\ now < MaxTime
    /\ now' = now + 1
    /\ UNCHANGED <<required, loop, network, owned, transport, snap, reported, plane>>

StatusNext ==
    \/ \E activate, built \in BOOLEAN : StartResident(activate, built)
    \/ Deactivate \/ LoopStep \/ Signalled
    \/ RoundFails \/ RoundPublishes \/ WorkerStops
    \/ StatusTimePasses

\* The resident loop never waits for anything but its own poll interval.
StatusSpec == StatusInit /\ [][StatusNext]_statusVars

(***************************************************************************)
(* Properties.                                                             *)
(***************************************************************************)
\* The reports about games that the status carries beside everything else.
GameReports == [failed : BOOLEAN, restart : BOOLEAN]

\* Every status qlinkd can serve is judged alike by the three readers of it: a
\* doctor that says OK leaves no checklist line of its subject open, a checklist
\* without an open line leaves doctor nothing to fail but the phase of packet
\* I/O and the games, and where doctor does not fail a game may be launched.
VerdictsAgree ==
    loop = "serve" => \A c \in Capabilities, g \in GameReports :
        LET s == Status(c, g)
            checked == /\ network_ready(s.network) /\ publication_ready(s.publication)
                       /\ dytallix_trust_ready(s.publication)
        IN  /\ format_doctor(s) = "OK" =>
                  checked /\ combined_publication_action(s.publication) = "record active"
            /\ checked /\ validate_game_launch_capabilities(c)
                  /\ ~s.plane.failed /\ ~g.failed => format_doctor(s) # "FAIL"
            /\ format_doctor(s) # "FAIL" => validate_game_launch_capabilities(c)

=============================================================================

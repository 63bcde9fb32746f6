----------------------------- MODULE MeshHandle -----------------------------
(***************************************************************************)
(* The mesh transport as its host sees it: MeshTransportHandle of          *)
(* src/qlink-core/src/mesh_transport.rs, its C interface (ffi.rs), and the *)
(* session manager of every peer with its backoff, status and counters.    *)
(* Packet sessions are the subject of PacketSessions and left out here.    *)
(* Two host threads may add and remove peers at once; remove_peer takes    *)
(* its two locks one after the other.                                      *)
(***************************************************************************)
EXTENDS Naturals, Sequences, FiniteSets

CONSTANTS Peers, NoPeer,
          Threads,             \* host threads
          Remote,              \* remote_peer_id of the configuration
          Initial, MaxDelay,   \* reconnect backoff bounds, in time units
          Width,               \* the bits of the backoff multiplier
          MaxGeneration,       \* the last packet session generation
          Failures,            \* why a connect may fail
          Unsteady,            \* the peers whose connects may fail
          Codes,               \* event codes the host passes
          MaxFails,            \* bound on consecutive failures
          MaxEvents, MaxQueue  \* bounds on the unbounded event and frame queues

VARIABLES handle,    \* "null", "open", "shut"
          config,    \* the configuration of the handle
          peers,     \* the managed peers
          default,   \* default_peer_id
          removing,  \* removing[t]: the peer thread t has taken out of the map, or NoPeer
          mgr,       \* mgr[p]: [at, fails, wait], the session manager
          shared,    \* shared[p]: [state, path, error, trust]
          events,    \* events[p]: network events on their way to the manager
          queue,     \* queue[p]: frames on their way to the manager
          history,   \* history[p]: the code of the retained outbound rejection
          generation

handleVars == <<handle, config, peers, default, removing, mgr, shared, events, queue,
                history, generation>>

NewShared == [state |-> "connecting", path |-> "none", error |-> FALSE, trust |-> "unknown"]
NoManager == [at |-> "none", fails |-> 0, wait |-> 0]
NewManager == [at |-> "connect", fails |-> 0, wait |-> 0]

Configs ==
    [lifetime : {0, 1}, keypair : {"none", "own", "other"}, relay : BOOLEAN,
     responder : BOOLEAN, policy : {"public", "private", "development"},
     pins : {"none", "some", "all"}, machine : {"works", "fails"}]

HandleInit ==
    /\ handle = "null" /\ config \in Configs
    /\ peers = {} /\ default = NoPeer
    /\ removing = [t \in Threads |-> NoPeer]
    /\ mgr = [p \in Peers |-> NoManager]
    /\ shared = [p \in Peers |-> NewShared]
    /\ events = [p \in Peers |-> <<>>]
    /\ queue = [p \in Peers |-> 0]
    /\ history = [p \in Peers |-> "none"]
    /\ generation = 0

-----------------------------------------------------------------------------
(***************************************************************************)
(* Construction.                                                           *)
(***************************************************************************)
validate_packet_session_policy == config.lifetime > 0

\* Without a keypair only an outbound transport over a relay is left.
KeypairSuits ==
    IF config.keypair = "none" THEN config.relay /\ ~config.responder
    ELSE config.keypair = "own"

validate_public_dytallix_registry_pins ==
    config.policy = "public" => config.pins = "all"

\* Binding, the registry client, the peer store and the metrics endpoint.
ResourcesAcquired == config.machine = "works"

\* PerPeerSession and run_session_manager of a new peer.
Spawn(p) ==
    /\ peers' = peers \cup {p}
    /\ mgr' = [mgr EXCEPT ![p] = NewManager]
    /\ shared' = [shared EXCEPT ![p] = NewShared]
    /\ events' = [events EXCEPT ![p] = <<>>]
    /\ queue' = [queue EXCEPT ![p] = 0]

New ==
    /\ handle = "null"
    /\ validate_packet_session_policy /\ KeypairSuits
    /\ validate_public_dytallix_registry_pins /\ ResourcesAcquired
    /\ handle' = "open" /\ default' = Remote
    /\ Spawn(Remote)
    /\ UNCHANGED <<config, removing, history, generation>>

-----------------------------------------------------------------------------
(***************************************************************************)
(* The session manager.                                                    *)
(***************************************************************************)
Multiplier(n) == IF n - 1 < Width THEN 2 ^ (n - 1) ELSE 2 ^ Width - 1

DelayUncapped(n) == IF n = 0 THEN 0 ELSE Initial * Multiplier(n)

delay_for(n) ==
    LET d == DelayUncapped(n) IN IF d < MaxDelay THEN d ELSE MaxDelay

\* registry_failure_code of the connector's error: nothing for an error the
\* registry has no part in.
registry_failure_code(failure) == IF failure = "unreachable" THEN "none" ELSE failure

Connects(p) == mgr[p].at = "connect"
Note(p, s) == shared' = [shared EXCEPT ![p] = s]
Becomes(p, m) == mgr' = [mgr EXCEPT ![p] = m]

Reconnect(p) == [mgr[p] EXCEPT !.at = "connect", !.wait = 0]
Connecting(p, error) == [shared[p] EXCEPT !.state = "connecting", !.path = "none",
                                          !.error = error]

\* connect succeeded: the registry's decision is kept with the peer.
Accepted(p) == [shared[p] EXCEPT !.error = FALSE, !.trust = "accepted"]

\* The session is announced unless the generations are
\* used up, which ends the manager.
ConnectOkKeepsTrust(p, path) ==
    /\ Connects(p)
    /\ generation < MaxGeneration
    /\ generation' = generation + 1
    /\ Becomes(p, [at |-> "linked", fails |-> 0, wait |-> 0])
    /\ Note(p, [shared[p] EXCEPT !.state = "ready", !.path = path, !.error = FALSE])
    /\ UNCHANGED <<handle, config, peers, default, removing, events, queue, history>>

ConnectOk(p, path) ==
    /\ Connects(p)
    /\ IF generation < MaxGeneration
       THEN /\ generation' = generation + 1
            /\ Becomes(p, [at |-> "linked", fails |-> 0, wait |-> 0])
            /\ Note(p, [Accepted(p) EXCEPT !.state = "ready", !.path = path])
       ELSE /\ UNCHANGED generation
            /\ Becomes(p, [NoManager EXCEPT !.at = "ended"])
            /\ Note(p, [Accepted(p) EXCEPT !.state = "failed", !.error = TRUE])
    /\ UNCHANGED <<handle, config, peers, default, removing, events, queue, history>>

\* connect failed: a verdict of the registry is kept with the peer and in the
\* history of blocked peers; the manager waits before it tries again.
Record(p, code) == IF code = "none" THEN history ELSE [history EXCEPT ![p] = code]

ConnectFails(p, failure) ==
    LET code == registry_failure_code(failure)
        n == IF mgr[p].fails < MaxFails THEN mgr[p].fails + 1 ELSE MaxFails
    IN  /\ Connects(p) /\ p \in Unsteady
        /\ history' = Record(p, code)
        /\ Note(p, [shared[p] EXCEPT !.state = "failed", !.error = TRUE,
                                     !.trust = IF code = "none" THEN @ ELSE code])
        /\ Becomes(p, [at |-> "backoff", fails |-> n, wait |-> delay_for(n)])
        /\ UNCHANGED <<handle, config, peers, default, removing, events, queue, generation>>

Better == {"path_changed", "post_wake", "online"}

BackoffOver(p) ==
    /\ mgr[p].at = "backoff" /\ mgr[p].wait = 0
    /\ Becomes(p, Reconnect(p)) /\ Note(p, Connecting(p, shared[p].error))
    /\ UNCHANGED <<handle, config, peers, default, removing, events, queue, history,
                   generation>>

\* Any event ends the wait; one of Better also starts the backoff afresh.
BackoffEvent(p) ==
    /\ mgr[p].at = "backoff" /\ events[p] # <<>>
    /\ Becomes(p, IF Head(events[p]) \in Better THEN NewManager ELSE Reconnect(p))
    /\ Note(p, Connecting(p, shared[p].error))
    /\ events' = [events EXCEPT ![p] = Tail(@)]
    /\ UNCHANGED <<handle, config, peers, default, removing, queue, history, generation>>

LinkEvent(p) ==
    /\ mgr[p].at = "linked" /\ events[p] # <<>>
    /\ events' = [events EXCEPT ![p] = Tail(@)]
    /\ IF Head(events[p]) \in Better
       THEN Becomes(p, Reconnect(p)) /\ Note(p, Connecting(p, FALSE))
       ELSE UNCHANGED <<mgr, shared>>
    /\ UNCHANGED <<handle, config, peers, default, removing, queue, history, generation>>

\* The next frame is sent, or is lost with the link.
LinkSend(p, ok) ==
    /\ mgr[p].at = "linked" /\ queue[p] > 0
    /\ queue' = [queue EXCEPT ![p] = @ - 1]
    /\ IF ok THEN UNCHANGED <<mgr, shared>>
       ELSE Becomes(p, Reconnect(p)) /\ Note(p, Connecting(p, TRUE))
    /\ UNCHANGED <<handle, config, peers, default, removing, events, history, generation>>

LinkOver(p, error) ==
    /\ mgr[p].at = "linked"
    /\ Becomes(p, Reconnect(p)) /\ Note(p, Connecting(p, error))
    /\ UNCHANGED <<handle, config, peers, default, removing, events, queue, history,
                   generation>>

\* Receiving fails, or a direct outbound link brings a frame.
LinkFails(p) == LinkOver(p, TRUE)

\* The session has lived its time or carried its bytes.
SessionUsedUp(p) == LinkOver(p, FALSE)

TimePasses ==
    /\ \E p \in Peers : mgr[p].wait > 0
    /\ mgr' = [p \in Peers |-> [mgr[p] EXCEPT !.wait = IF @ = 0 THEN 0 ELSE @ - 1]]
    /\ UNCHANGED <<handle, config, peers, default, removing, shared, events, queue, history,
                   generation>>

-----------------------------------------------------------------------------
(***************************************************************************)
(* The host's calls.                                                       *)
(***************************************************************************)
add_peer(p) ==
    /\ handle # "null"
    /\ IF p \in peers THEN UNCHANGED <<peers, mgr, shared, events, queue>> ELSE Spawn(p)
    /\ UNCHANGED <<handle, config, default, removing, history, generation>>

\* PerPeerSession::shutdown of each peer of ps: the manager is aborted.
StopAll(ps) ==
    /\ peers' = peers \ ps
    /\ mgr' = [p \in Peers |-> IF p \in ps THEN NoManager ELSE mgr[p]]
    /\ shared' = [p \in Peers |-> IF p \in ps THEN NewShared ELSE shared[p]]
    /\ events' = [p \in Peers |-> IF p \in ps THEN <<>> ELSE events[p]]
    /\ queue' = [p \in Peers |-> IF p \in ps THEN 0 ELSE queue[p]]

remove_peer(t, p) ==
    /\ handle # "null" /\ removing[t] = NoPeer
    /\ StopAll({p} \cap peers)
    /\ removing' = [removing EXCEPT ![t] = p]
    /\ UNCHANGED <<handle, config, default, history, generation>>

Successor(t) == IF default # removing[t] THEN {default}
                ELSE IF peers = {} THEN {NoPeer} ELSE peers

RemoveEnds(t) ==
    /\ removing[t] # NoPeer
    /\ default' \in Successor(t)
    /\ removing' = [removing EXCEPT ![t] = NoPeer]
    /\ UNCHANGED <<handle, config, peers, mgr, shared, events, queue, history, generation>>

\* The channel of a manager that has ended refuses the frame.
send_frame_to(p) ==
    /\ handle # "null" /\ p \in peers /\ mgr[p].at # "ended"
    /\ \A q \in Peers : queue[q] < MaxQueue
    /\ queue' = [queue EXCEPT ![p] = @ + 1]
    /\ UNCHANGED <<handle, config, peers, default, removing, mgr, shared, events, history,
                   generation>>

send_frame == default # NoPeer /\ send_frame_to(default)

\* Every managed peer hears of the event; a manager that has ended does not.
handle_network_event(e) ==
    /\ handle # "null" /\ \A p \in peers : Len(events[p]) < MaxEvents
    /\ events' = [p \in Peers |-> IF p \in peers /\ mgr[p].at # "ended"
                                  THEN Append(events[p], e) ELSE events[p]]
    /\ UNCHANGED <<handle, config, peers, default, removing, mgr, shared, queue, history,
                   generation>>

\* shutdown stops the peers; the default stays, and a peer may be added again.
shutdown ==
    /\ handle = "open" /\ handle' = "shut"
    /\ StopAll(peers)
    /\ UNCHANGED <<config, default, removing, history, generation>>

\* The handle is dropped, with its runtime and its history.
Drop ==
    /\ handle # "null" /\ \A t \in Threads : removing[t] = NoPeer
    /\ handle' = "null" /\ default' = NoPeer
    /\ StopAll(peers)
    /\ history' = [p \in Peers |-> "none"] /\ generation' = 0
    /\ UNCHANGED <<config, removing>>

-----------------------------------------------------------------------------
(***************************************************************************)
(* The C interface: a null handle, a peer that is no UTF-8 or an unknown   *)
(* code is refused before the handle is touched.                           *)
(***************************************************************************)
EventOfCode == [code \in 0..4 |->
    <<"path_changed", "pre_sleep", "post_wake", "offline", "online">>[code + 1]]

qlink_mesh_transport_create == config.keypair = "none" /\ New
qlink_mesh_transport_create_with_keypair == config.keypair # "none" /\ New
qlink_mesh_transport_destroy == Drop
qlink_mesh_transport_add_peer(p) == p \in Peers /\ add_peer(p)
qlink_mesh_transport_remove_peer(t, p) == p \in Peers /\ remove_peer(t, p)
qlink_mesh_transport_send_frame == send_frame
qlink_mesh_transport_send_frame_to(p) == p \in Peers /\ send_frame_to(p)
qlink_mesh_transport_handle_network_event(code) ==
    code \in DOMAIN EventOfCode /\ handle_network_event(EventOfCode[code])

HandleNext ==
    \/ qlink_mesh_transport_create \/ qlink_mesh_transport_create_with_keypair
    \/ qlink_mesh_transport_destroy \/ shutdown \/ TimePasses
    \/ qlink_mesh_transport_send_frame
    \/ \E code \in Codes : qlink_mesh_transport_handle_network_event(code)
    \/ \E t \in Threads : RemoveEnds(t)
    \/ \E p \in Peers :
         \/ qlink_mesh_transport_add_peer(p) \/ qlink_mesh_transport_send_frame_to(p)
         \/ BackoffOver(p) \/ BackoffEvent(p) \/ LinkEvent(p)
         \/ \E t \in Threads : qlink_mesh_transport_remove_peer(t, p)
         \/ \E path \in {"direct", "relay"} : ConnectOk(p, path)
         \/ \E failure \in Failures : ConnectFails(p, failure)
         \/ LinkFails(p) \/ SessionUsedUp(p)
         \/ \E ok \in BOOLEAN : LinkSend(p, ok)

HandleSpec == HandleInit /\ [][HandleNext]_handleVars

-----------------------------------------------------------------------------
(***************************************************************************)
(* What the host reads.                                                    *)
(***************************************************************************)
peer_state_code(p) == IF p \in peers THEN shared[p].state ELSE "none"
peer_trust_status(p) == IF p \in peers THEN shared[p].trust ELSE "none"
blocked_peer_history == {p \in Peers : history[p] # "none"}
state_code == IF default \in peers THEN shared[default].state ELSE "failed"
path_kind_code == IF default \in peers THEN shared[default].path ELSE "none"

Rank == [ready |-> 0, connecting |-> 1, failed |-> 2, stopped |-> 3]
better_state(a, b) == IF Rank[a] <= Rank[b] THEN a ELSE b
PathRank == [direct |-> 0, relay |-> 1, none |-> 2]
better_path_kind(a, b) == IF PathRank[a] <= PathRank[b] THEN a ELSE b

\* mesh_transport_snapshot folds over the map in its own order.
Snapshot(order) ==
    LET fold[i \in 0..Len(order)] ==
          IF i = 0 THEN [state |-> "failed", path |-> "none"]
          ELSE [state |-> better_state(fold[i - 1].state, shared[order[i]].state),
                path |-> better_path_kind(fold[i - 1].path, shared[order[i]].path)]
    IN  fold[Len(order)]

Orders == {o \in [1..Cardinality(peers) -> peers] : \A p \in peers : \E i \in DOMAIN o : o[i] = p}

-----------------------------------------------------------------------------

\* "pick another active peer (or None) so the legacy single-peer API doesn't
\* dangle" (remove_peer): with peers added and removed by several threads at
\* once the default is a managed peer once no removal is half done.
DefaultIsManaged ==
    handle = "open" /\ (\A t \in Threads : removing[t] = NoPeer) =>
        default \in peers \cup {NoPeer}

\* What the host is told fits together: a ready peer has a link, a path, no
\* error and no refusal of the registry left from an earlier attempt; the
\* scrape says ready exactly when some peer is, in whatever order the map is
\* walked; with the default as the only peer the legacy calls agree with it; and
\* a peer reported as refused is in the history of blocked peers for the reason
\* reported.
ReportsAgree ==
    /\ \A p \in Peers : shared[p].state = "ready" =>
         /\ mgr[p].at = "linked" /\ shared[p].path # "none"
         /\ ~shared[p].error /\ shared[p].trust = "accepted"
    /\ \A p \in Peers :
         \/ peer_trust_status(p) \in {"none", "unknown", "accepted"}
         \/ p \in blocked_peer_history /\ peer_trust_status(p) = history[p]
    /\ \A o \in Orders :
         /\ Snapshot(o).state = "ready" <=> \E p \in peers : peer_state_code(p) = "ready"
         /\ peers = {default} =>
              Snapshot(o).state \in {state_code, "failed"} /\ Snapshot(o).path = path_kind_code

\* All that the C interface reports of the peers fits together, the default peer of the
\* single-peer calls included.
HostViewAgrees == ReportsAgree /\ DefaultIsManaged

=============================================================================

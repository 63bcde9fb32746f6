----------------------------- MODULE Publication -----------------------------
(***************************************************************************)
(* How a node's signed peer record reaches the peers that dial it: the     *)
(* resident publication worker of qlinkd, the rendezvous server's store    *)
(* and the record cache of a connector, for one node.                      *)
(*                                                                         *)
(* A record is reduced to its sequence number and its expiry; its          *)
(* signature is what lets every receiver rely on both.  The worker         *)
(* reserves a sequence number on disk, signs a record, publishes it with a *)
(* timeout, and, for a node that must be enrolled in the public registry,  *)
(* validates its own enrolment before it lets the data plane see the       *)
(* result.  The request may arrive after the worker has given it up, the   *)
(* daemon may crash anywhere, and both servers may fail.  Time is in whole *)
(* seconds and one clock serves all three parties.                         *)
(***************************************************************************)
EXTENDS Integers, FiniteSetsExt

CONSTANTS
    TTL,         \* publication_ttl_seconds
    Required,    \* public_dytallix_required
    MaxLag,      \* seconds a round of the worker takes at most, without faults
    MaxSequence, \* bound on the sequence numbers
    MaxTime,     \* bound on the clock
    MaxReplies   \* bound on the lookups a connector has in flight

ASSUME PublicationAssumption ==
    /\ TTL \in Nat \ {0, 1}
    /\ Required \in BOOLEAN
    /\ MaxLag \in Nat
    /\ MaxSequence \in Nat
    /\ MaxTime \in Nat
    /\ MaxReplies \in Nat

VARIABLES
    faults,      \* whether disks, servers and the daemon fail in this behaviour
    now,         \* now_unix(), on every host
    disk,        \* next_sequence in the worker's state file
    mem,         \* next_sequence in the running state machine
    worker,      \* where the worker's loop is
    lag,         \* seconds since the worker started its round
    sequence,    \* the sequence number of the round
    answer,      \* the rendezvous server's answer to the round
    next,        \* when the worker starts its next round
    machine,     \* the snapshot the worker builds
    shared,      \* the snapshot the data plane reads
    newest,      \* history: the last record signed
    wire,        \* publish requests the server has not handled
    store,       \* the server's record of the node
    storeLost,   \* history: the server has restarted, with an empty store
    replies,     \* lookups answered by the server and not yet used
    cache,       \* the connector's record of the node
    identity,    \* the node's enrolment in the public registry
    lastActive   \* history: the last second the enrolment was active

workerVars == <<disk, mem, worker, lag, sequence, answer, next, machine, shared>>
serverVars == <<store, storeLost>>
peerVars == <<replies, cache>>
registryVars == <<identity, lastActive>>
vars == <<faults, now, workerVars, newest, wire, serverVars, peerVars, registryVars>>

(***************************************************************************)
(* Records and snapshots.                                                  *)
(***************************************************************************)
Record == [seq : Nat, exp : Nat]

\* no record; it is expired at every time and older than every record
NoRecord == [seq |-> 0, exp |-> 0]

Live(r) == r.exp > now

\* a record signed now under a sequence number
Signed(seq) == [seq |-> seq, exp |-> now + TTL]

Phases == {"NotStarted", "Published", "Degraded", "Expired", "Stopped"}
Bindings == {"NotConfigured", "Active", "Failed"}
Snapshot == [phase : Phases, record : Record, binding : Bindings]

NotStarted == [phase |-> "NotStarted", record |-> NoRecord,
               binding |-> "NotConfigured"]

WithPhase(s, phase) == [phase |-> phase, record |-> s.record,
                        binding |-> s.binding]

\* the gate of the data plane
IsCurrent(s) ==
    /\ Live(s.record)
    /\ s.phase \in {"Published", "Degraded"}
    /\ Required => s.binding = "Active"

\* record_failure: a record that has run out makes the node expired
FailedSnapshot(s) ==
    WithPhase(s, IF s.record # NoRecord /\ ~Live(s.record)
                 THEN "Expired" ELSE "Degraded")

Larger(a, b) == IF a >= b THEN a ELSE b
Clamp(n, low, high) == IF n < low THEN low ELSE IF n > high THEN high ELSE n

\* Mutant: the refresh is due when the record expires.
RefreshDelayFull == TTL

RetryDelay == Clamp(TTL \div 4, 1, 15)
RefreshDelay == Larger(TTL \div 2, 1)

\* next_delay waits a second at least
NextRound(at) == Larger(at, now + 1)

(***************************************************************************)
(* The publication worker.                                                 *)
(***************************************************************************)
\* Every failed round ends the same way, whatever failed.
FailRound ==
    /\ machine' = FailedSnapshot(machine)
    /\ shared' = machine'
    /\ next' = NextRound(now + RetryDelay)
    /\ worker' = "waiting"

\* The number is on disk before it is used.
ReserveSequence ==
    /\ worker = "ready"
    /\ mem < MaxSequence
    /\ disk' = mem + 1
    /\ mem' = mem + 1
    /\ sequence' = mem
    /\ shared' = machine
    /\ worker' = "reserved"
    /\ answer' = "none"
    /\ UNCHANGED <<now, lag, next, machine, newest, wire, serverVars, peerVars,
                   registryVars>>

\* The write fails before the rename, which leaves the old file, or after it
\* (the directory's sync fails), which leaves the new one.
ReserveFails ==
    /\ faults
    /\ worker = "ready"
    /\ mem < MaxSequence
    /\ disk' \in {disk, mem + 1}
    /\ FailRound
    /\ UNCHANGED <<now, mem, lag, sequence, answer, newest, wire, serverVars,
                   peerVars, registryVars>>

\* publish_self signs a record and sends the request.
Publish ==
    /\ worker = "reserved"
    /\ newest' = Signed(sequence)
    /\ wire' = wire \cup {newest'}
    /\ worker' = "sent"
    /\ UNCHANGED <<now, disk, mem, lag, sequence, answer, next, machine, shared,
                   serverVars, peerVars, registryVars>>

\* The server refused, the connection failed or the worker gave up waiting; the
\* request may still be under way, and the record may have been stored.
PublishFails ==
    /\ worker = "sent"
    /\ answer = "refused" \/ faults
    /\ FailRound
    /\ UNCHANGED <<now, disk, mem, lag, sequence, answer, newest, wire,
                   serverVars, peerVars, registryVars>>

\* Mutant: the server's answer is not awaited.
AcceptRecordUnanswered ==
    /\ worker = "sent"
    /\ Live(newest)
    /\ machine' = [phase |-> "Published", record |-> newest,
                   binding |-> machine.binding]
    /\ shared' = machine'
    /\ next' = NextRound(now + RefreshDelay)
    /\ worker' = "waiting"
    /\ UNCHANGED <<now, disk, mem, lag, sequence, answer, newest, wire,
                   serverVars, peerVars, registryVars>>

\* accept_record refuses a record that ran out while it was being published.
AcceptRecord ==
    /\ worker = "sent"
    /\ answer = "published"
    /\ Live(newest)
    /\ machine' = [phase |-> "Published", record |-> newest,
                   binding |-> machine.binding]
    /\ IF Required
       THEN /\ worker' = "published"
            /\ next' = now + RefreshDelay
            /\ UNCHANGED shared
       ELSE /\ worker' = "waiting"
            /\ next' = NextRound(now + RefreshDelay)
            /\ shared' = machine'
    /\ UNCHANGED <<now, disk, mem, lag, sequence, answer, newest, wire,
                   serverVars, peerVars, registryVars>>

\* The record ran out on its way, or the outbox file could not be written.
RejectRecord ==
    /\ worker = "sent"
    /\ answer = "published"
    /\ ~Live(newest) \/ faults
    /\ FailRound
    /\ UNCHANGED <<now, disk, mem, lag, sequence, answer, newest, wire,
                   serverVars, peerVars, registryVars>>

\* validate_local_registry_binding finds the enrolment active.  The check of the
\* selected peer's trust that follows changes nothing that is modelled here.
BindingAccepted ==
    /\ worker = "published"
    /\ identity = "active"
    /\ machine' = [phase |-> machine.phase, record |-> machine.record,
                   binding |-> "Active"]
    /\ shared' = machine'
    /\ next' = NextRound(next)
    /\ worker' = "waiting"
    /\ UNCHANGED <<now, disk, mem, lag, sequence, answer, newest, wire,
                   serverVars, peerVars, registryVars>>

\* The enrolment is not active, or the registry could not be asked.
BindingFails ==
    /\ worker = "published"
    /\ identity # "active" \/ faults
    /\ machine' = FailedSnapshot([phase |-> machine.phase,
                                  record |-> machine.record,
                                  binding |-> "Failed"])
    /\ shared' = machine'
    /\ next' = NextRound(now + RetryDelay)
    /\ worker' = "waiting"
    /\ UNCHANGED <<now, disk, mem, lag, sequence, answer, newest, wire,
                   serverVars, peerVars, registryVars>>

\* wait_or_shutdown: the delay is over, or a network change asks for a refresh.
StartRound ==
    /\ worker' = "ready"
    /\ lag' = 0
    /\ UNCHANGED <<now, disk, mem, sequence, answer, next, machine, shared,
                   newest, wire, serverVars, peerVars, registryVars>>

DelayOver == worker = "waiting" /\ now >= next /\ StartRound

RequestRefresh == worker = "waiting" /\ StartRound

\* shutdown is noticed between rounds
Shutdown ==
    /\ faults
    /\ worker = "waiting"
    /\ machine' = WithPhase(machine, "Stopped")
    /\ shared' = machine'
    /\ worker' = "stopped"
    /\ UNCHANGED <<now, disk, mem, lag, sequence, answer, next, newest, wire,
                   serverVars, peerVars, registryVars>>

\* The daemon dies anywhere; only the state file is left.
Crash ==
    /\ faults
    /\ worker # "stopped"
    /\ machine' = NotStarted
    /\ shared' = NotStarted
    /\ worker' = "stopped"
    /\ UNCHANGED <<now, disk, mem, lag, sequence, answer, next, newest, wire,
                   serverVars, peerVars, registryVars>>

\* PublicationStateMachine::load
Restart ==
    /\ worker = "stopped"
    /\ mem' = Larger(disk, 1)
    /\ machine' = NotStarted
    /\ shared' = NotStarted
    /\ next' = 0
    /\ lag' = 0
    /\ worker' = "ready"
    /\ UNCHANGED <<now, disk, sequence, answer, newest, wire, serverVars,
                   peerVars, registryVars>>

(***************************************************************************)
(* The rendezvous server.                                                  *)
(***************************************************************************)

\* verify, then the rule on sequence numbers
Stores(r) == Live(r) /\ (Live(store) => r.seq > store.seq)

\* the worker still waits for the answer to this request
Answered(r, what) ==
    answer' = IF worker = "sent" /\ r = newest THEN what ELSE answer

HandlePublish(r) ==
    /\ r \in wire
    /\ wire' = wire \ {r}
    /\ IF Stores(r)
       THEN store' = r /\ Answered(r, "published")
       ELSE UNCHANGED store /\ Answered(r, "refused")
    /\ UNCHANGED <<now, disk, mem, worker, lag, sequence, next, machine, shared,
                   newest, storeLost, peerVars, registryVars>>

\* The admission checks refuse the request, or the connection is lost.
DropPublish(r) ==
    /\ faults
    /\ r \in wire
    /\ wire' = wire \ {r}
    /\ Answered(r, "refused")
    /\ UNCHANGED <<now, disk, mem, worker, lag, sequence, next, machine, shared,
                   newest, serverVars, peerVars, registryVars>>

\* The store is in memory.
RestartServer ==
    /\ faults
    /\ store' = NoRecord
    /\ storeLost' = TRUE
    /\ UNCHANGED <<now, workerVars, newest, wire, peerVars, registryVars>>

(***************************************************************************)
(* A connector that dials the node.                                        *)
(***************************************************************************)
\* The server drops expired records before it answers.
Lookup ==
    /\ store' = IF Live(store) THEN store ELSE NoRecord
    /\ IF store' = NoRecord
       THEN UNCHANGED replies
       ELSE /\ Cardinality(replies) < MaxReplies
            /\ replies' = replies \cup {store'}
    /\ UNCHANGED <<now, workerVars, newest, wire, storeLost, cache, registryVars>>

\* PeerStore::store drops what has expired and ignores what is not newer.
Cached(r) == IF Live(cache) /\ r.seq <= cache.seq THEN cache ELSE r

\* Attempts run side by side, so replies are used in any order.
UseReply(r) ==
    /\ r \in replies
    /\ replies' = replies \ {r}
    /\ cache' = IF Live(r) THEN Cached(r) ELSE cache
    /\ UNCHANGED <<now, workerVars, newest, wire, serverVars, registryVars>>

(***************************************************************************)
(* The registry and the clock.                                             *)
(***************************************************************************)
ChangeEnrolment ==
    /\ faults
    /\ identity' \in {"active", "revoked"} \ {identity}
    /\ lastActive' = IF identity' = "active" THEN now ELSE lastActive
    /\ UNCHANGED <<now, workerVars, newest, wire, serverVars, peerVars>>

\* Without faults a worker that is due runs, and a round takes MaxLag seconds.
Tick ==
    /\ now < MaxTime
    /\ now' = now + 1
    /\ IF worker \in {"waiting", "stopped"}
       THEN (faults \/ now < next) /\ UNCHANGED lag
       ELSE (faults \/ lag < MaxLag) /\ lag' = IF faults THEN lag ELSE lag + 1
    /\ lastActive' = IF identity = "active" THEN now' ELSE lastActive
    /\ UNCHANGED <<disk, mem, worker, sequence, answer, next, machine, shared,
                   newest, wire, serverVars, peerVars, identity>>

Init ==
    /\ faults \in BOOLEAN
    /\ now = 1
    /\ disk = 1
    /\ mem = 1
    /\ worker = "ready"
    /\ lag = 0
    /\ sequence = 0
    /\ answer = "none"
    /\ next = 0
    /\ machine = NotStarted
    /\ shared = NotStarted
    /\ newest = NoRecord
    /\ wire = {}
    /\ store = NoRecord
    /\ storeLost = FALSE
    /\ replies = {}
    /\ cache = NoRecord
    /\ identity = "active"
    /\ lastActive = 1

Step ==
    \/ ReserveSequence \/ ReserveFails
    \/ Publish \/ PublishFails
    \/ AcceptRecord \/ RejectRecord
    \/ BindingAccepted \/ BindingFails
    \/ DelayOver \/ RequestRefresh \/ Shutdown
    \/ Crash \/ Restart
    \/ \E r \in wire : HandlePublish(r) \/ DropPublish(r)
    \/ RestartServer
    \/ Lookup
    \/ \E r \in replies : UseReply(r)
    \/ ChangeEnrolment
    \/ Tick

Next == Step /\ UNCHANGED faults

Spec == Init /\ [][Next]_vars

(***************************************************************************)
(* Properties.                                                             *)
(***************************************************************************)
\* The values the variables range over.
TypeOK ==
    /\ faults \in BOOLEAN
    /\ now \in Nat /\ disk \in Nat /\ mem \in Nat /\ lag \in Nat /\ next \in Nat
    /\ sequence \in Nat
    /\ worker \in {"ready", "reserved", "sent", "published", "waiting", "stopped"}
    /\ answer \in {"none", "published", "refused"}
    /\ machine \in Snapshot /\ shared \in Snapshot
    /\ newest \in Record /\ store \in Record /\ cache \in Record
    /\ wire \subseteq Record /\ replies \subseteq Record
    /\ storeLost \in BOOLEAN
    /\ identity \in {"active", "revoked"}
    /\ lastActive \in Nat

\* A sequence number signs one record only, whatever the disk does and wherever
\* the daemon crashes: reserve_sequence writes the successor first.
SequenceNeverReused ==
    [][newest' # newest => newest'.seq > newest.seq]_vars

\* Neither the server nor a connector replaces the record it holds by an older
\* one, although both admit any sequence number once the record has expired and
\* requests and replies overtake each other.
HeldRecordNeverRegresses ==
    [][/\ store' # store => store' = NoRecord \/ store'.seq > store.seq
       /\ cache' # cache => cache'.seq > cache.seq]_vars

\* While the data plane is told that a record is published, the server holds
\* that record or a newer one, unless it has restarted since.
PublishedIsHeld ==
    Live(shared.record) /\ ~storeLost =>
        Live(store) /\ store.seq >= shared.record.seq

\* The data plane's gate stays open less than a TTL after the node's enrolment
\* ends: each record shown to it has been checked with the registry after it was
\* signed, and closes the gate when it expires.
GateFollowsEnrolment ==
    Required /\ IsCurrent(shared) => now - lastActive < TTL

\* With servers that answer and a worker that keeps up, the gate never closes
\* once the first record is out: a round at half the TTL is early enough.
NeverLapses ==
    ~faults /\ shared.record # NoRecord => IsCurrent(shared) /\ Live(store)
=============================================================================

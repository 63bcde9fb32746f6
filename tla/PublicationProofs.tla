-------------------------- MODULE PublicationProofs --------------------------
(***************************************************************************)
(* Theorems about Publication, for every TTL and without its bounds        *)
(* mattering.  The inductive invariant adds three things to TypeOK:        *)
(* Ordered, that all the records around carry expiries in the order of     *)
(* their sequence numbers; Held, that what the worker shows or is about to *)
(* show is held by the server; and Checked, that what it shows as enrolled *)
(* was signed at most a TTL before an active enrolment was last seen.      *)
(***************************************************************************)
EXTENDS Publication, TLAPS

\* Every copy of a record there is, and the absence of one.
Known ==
    wire \cup replies
    \cup {NoRecord, newest, store, cache, machine.record, shared.record}

Precedes(a, b) ==
    /\ a.seq < b.seq => a.exp <= b.exp
    /\ a.seq = b.seq => a = b

Ordered == \A a, b \in Known : Precedes(a, b)

\* The last record signed is the newest, and the numbers ahead of it are unused.
Ahead ==
    /\ \A r \in Known : r.seq <= newest.seq /\ r.exp <= newest.exp
    /\ newest.exp <= now + TTL
    /\ newest.seq < disk
    /\ disk >= 1 /\ mem >= 1
    /\ worker # "stopped" => newest.seq < mem /\ mem <= disk
    /\ worker = "reserved" => newest.seq < sequence /\ sequence < mem

HeldByServer(r) == Live(r) => Live(store) /\ store.seq >= r.seq

Held ==
    /\ worker = "reserved" => answer = "none"
    /\ ~storeLost =>
          /\ HeldByServer(machine.record)
          /\ HeldByServer(shared.record)
          /\ worker = "sent" /\ answer = "published" => HeldByServer(newest)

CheckedWith(s) == s.binding = "Active" => s.record.exp <= lastActive + TTL

Checked ==
    /\ lastActive <= now
    /\ identity = "active" => lastActive = now
    /\ Required => CheckedWith(shared)
    /\ Required /\ worker # "published" => CheckedWith(machine)

IInv == TypeOK /\ Ordered /\ Ahead /\ Held /\ Checked

-----------------------------------------------------------------------------
\* Changing the phase of a snapshot leaves its record and its binding.
LEMMA PhaseFacts ==
    ASSUME NEW s \in Snapshot, NEW p \in Phases
    PROVE  /\ WithPhase(s, p) \in Snapshot
           /\ WithPhase(s, p).record = s.record
           /\ WithPhase(s, p).binding = s.binding
BY Zenon DEF WithPhase, Snapshot

\* So does a failed round (record_failure).
LEMMA FailureFacts ==
    ASSUME NEW s \in Snapshot
    PROVE  /\ FailedSnapshot(s) \in Snapshot
           /\ FailedSnapshot(s).record = s.record
           /\ FailedSnapshot(s).binding = s.binding
<1>1. "Expired" \in Phases /\ "Degraded" \in Phases
  BY Zenon DEF Phases
<1> QED BY Zenon, <1>1, PhaseFacts DEF FailedSnapshot

\* What the state machine holds before its first round.
LEMMA NotStartedFacts ==
    /\ NoRecord \in Record
    /\ NotStarted \in Snapshot
    /\ NotStarted.record = NoRecord
    /\ NotStarted.binding = "NotConfigured"
    /\ NoRecord.seq = 0 /\ NoRecord.exp = 0
BY Zenon DEF NoRecord, NotStarted, Record, Snapshot, Phases, Bindings

\* The delays are natural numbers.
LEMMA DelayFacts ==
    /\ RetryDelay \in Nat
    /\ RefreshDelay \in Nat
    /\ \A t \in Nat : now \in Nat => NextRound(t) \in Nat
BY PublicationAssumption DEF RetryDelay, RefreshDelay, NextRound, Larger, Clamp

\* Publication keeps its variables in their types.
LEMMA TypeStep == TypeOK /\ [Next]_vars => TypeOK'
<1> SUFFICES ASSUME TypeOK, [Next]_vars PROVE TypeOK'
  BY Zenon
<1> USE PublicationAssumption, NotStartedFacts, DelayFacts DEF workerVars,
        serverVars, peerVars, registryVars
<1>0. faults' \in BOOLEAN
  BY Zenon DEF Next, vars, TypeOK
<1> USE <1>0
<1>f. FailRound => /\ machine' \in Snapshot /\ shared' \in Snapshot
                   /\ next' \in Nat /\ worker' = "waiting"
  BY FailureFacts DEF FailRound, TypeOK
<1>1. CASE ReserveSequence
  BY <1>1 DEF ReserveSequence, TypeOK
<1>2. CASE ReserveFails
  BY <1>2, <1>f DEF ReserveFails, TypeOK
<1>3. CASE Publish
  <2>1. newest' \in Record
    BY <1>3 DEF Publish, TypeOK, Signed, Record
  <2> QED BY Zenon, <1>3, <2>1 DEF Publish, TypeOK
<1>4. CASE PublishFails
  BY Zenon, <1>4, <1>f DEF PublishFails, TypeOK
<1>5. CASE AcceptRecord
  <2>1. machine' \in Snapshot
    BY Zenon, <1>5 DEF AcceptRecord, TypeOK, Snapshot, Phases
  <2>2. /\ shared' \in Snapshot
        /\ next' \in Nat
        /\ worker' \in {"published", "waiting"}
    BY <1>5, <2>1 DEF AcceptRecord, TypeOK
  <2> QED BY Zenon, <1>5, <2>1, <2>2 DEF AcceptRecord, TypeOK
<1>6. CASE RejectRecord
  BY Zenon, <1>6, <1>f DEF RejectRecord, TypeOK
<1>7. CASE BindingAccepted
  <2>1. machine' \in Snapshot
    BY Zenon, <1>7 DEF BindingAccepted, TypeOK, Snapshot, Bindings
  <2> QED BY Zenon, <1>7, <2>1 DEF BindingAccepted, TypeOK
<1>8. CASE BindingFails
  <2>1. [phase |-> machine.phase, record |-> machine.record,
         binding |-> "Failed"] \in Snapshot
    BY Zenon DEF TypeOK, Snapshot, Bindings
  <2>2. machine' \in Snapshot
    BY Zenon, <1>8, <2>1, FailureFacts DEF BindingFails
  <2> QED BY <1>8, <2>2 DEF BindingFails, TypeOK
<1>9. CASE DelayOver \/ RequestRefresh
  BY <1>9 DEF DelayOver, RequestRefresh, StartRound, TypeOK
<1>10. CASE Shutdown
  <2>1. machine' \in Snapshot
    BY Zenon, <1>10, PhaseFacts DEF Shutdown, TypeOK, Phases
  <2> QED BY Zenon, <1>10, <2>1 DEF Shutdown, TypeOK
<1>11. CASE Crash
  BY Zenon, <1>11 DEF Crash, TypeOK
<1>12. CASE Restart
  BY Zenon, <1>12 DEF Restart, TypeOK, Larger
<1>13. CASE \E r \in wire : HandlePublish(r) \/ DropPublish(r)
  BY <1>13 DEF HandlePublish, DropPublish, Answered, TypeOK
<1>14. CASE RestartServer
  BY Zenon, <1>14 DEF RestartServer, TypeOK
<1>15. CASE Lookup
  <2>1. store' \in Record
    BY Zenon, <1>15 DEF Lookup, TypeOK
  <2> QED BY Zenon, <1>15, <2>1 DEF Lookup, TypeOK
<1>16. CASE \E r \in replies : UseReply(r)
  BY Zenon, <1>16 DEF UseReply, Cached, TypeOK
<1>17. CASE ChangeEnrolment
  BY Zenon, <1>17 DEF ChangeEnrolment, TypeOK
<1>18. CASE Tick
  BY <1>18 DEF Tick, TypeOK
<1>19. CASE UNCHANGED vars
  BY Zenon, <1>19 DEF vars, TypeOK
<1> QED
  BY Zenon, <1>1, <1>2, <1>3, <1>4, <1>5, <1>6, <1>7, <1>8, <1>9, <1>10, <1>11, <1>12,
     <1>13, <1>14, <1>15, <1>16, <1>17, <1>18, <1>19 DEF Next, Step

\* Only signing brings a new record about; every other step moves copies.
LEMMA KnownStep ==
    ASSUME TypeOK, [Next]_vars
    PROVE  \/ newest' = newest /\ Known' \subseteq Known
           \/ Publish /\ Known' \subseteq Known \cup {newest'}
<1> USE NotStartedFacts DEF workerVars, serverVars, peerVars, registryVars
<1>f. FailRound => machine'.record = machine.record /\ shared'.record = machine.record
  BY FailureFacts DEF FailRound, TypeOK
<1>1. CASE ReserveSequence
  BY Zenon, <1>1 DEF ReserveSequence, Known
<1>2. CASE ReserveFails
  BY <1>2, <1>f DEF ReserveFails, Known
<1>3. CASE Publish
  <2>1. wire' = wire \cup {newest'}
    BY Zenon, <1>3 DEF Publish
  <2>2. UNCHANGED <<replies, store, cache, machine, shared>>
    BY Zenon, <1>3 DEF Publish
  <2> QED BY Zenon, <1>3, <2>1, <2>2 DEF Known
<1>4. CASE PublishFails
  BY <1>4, <1>f DEF PublishFails, Known
<1>5. CASE AcceptRecord
  <2>1. machine'.record = newest /\ shared'.record \in {newest, shared.record}
    BY <1>5 DEF AcceptRecord
  <2> QED BY <1>5, <2>1 DEF AcceptRecord, Known
<1>6. CASE RejectRecord
  BY <1>6, <1>f DEF RejectRecord, Known
<1>7. CASE BindingAccepted
  BY Zenon, <1>7 DEF BindingAccepted, Known
<1>8. CASE BindingFails
  <2>1. [phase |-> machine.phase, record |-> machine.record,
         binding |-> "Failed"] \in Snapshot
    BY Zenon DEF TypeOK, Snapshot, Bindings
  <2>2. machine'.record = machine.record
    BY Zenon, <1>8, <2>1, FailureFacts DEF BindingFails
  <2> QED BY <1>8, <2>2 DEF BindingFails, Known
<1>9. CASE DelayOver \/ RequestRefresh
  BY Zenon, <1>9 DEF DelayOver, RequestRefresh, StartRound, Known
<1>10. CASE Shutdown
  <2>1. machine'.record = machine.record
    BY Zenon, <1>10, PhaseFacts DEF Shutdown, TypeOK, Phases
  <2> QED BY <1>10, <2>1 DEF Shutdown, Known
<1>11. CASE Crash
  BY Zenon, <1>11 DEF Crash, Known
<1>12. CASE Restart
  BY Zenon, <1>12 DEF Restart, Known
<1>13. CASE \E r \in wire : HandlePublish(r) \/ DropPublish(r)
  <2>1. PICK r \in wire : HandlePublish(r) \/ DropPublish(r)
    BY Zenon, <1>13
  <2>2. wire' \subseteq wire /\ store' \in {store, r}
    BY Zenon, <2>1 DEF HandlePublish, DropPublish
  <2>3. UNCHANGED <<replies, newest, cache, machine, shared>>
    BY Zenon, <2>1 DEF HandlePublish, DropPublish
  <2> QED BY <2>2, <2>3 DEF Known
<1>14. CASE RestartServer
  BY Zenon, <1>14 DEF RestartServer, Known
<1>15. CASE Lookup
  <2>1. store' \in {store, NoRecord} /\ replies' \subseteq replies \cup {store'}
    BY Zenon, <1>15 DEF Lookup
  <2> QED BY <1>15, <2>1 DEF Lookup, Known
<1>16. CASE \E r \in replies : UseReply(r)
  <2>1. PICK r \in replies : UseReply(r)
    BY Zenon, <1>16
  <2>2. replies' \subseteq replies /\ cache' \in {cache, r}
    BY Zenon, <2>1 DEF UseReply, Cached
  <2> QED BY <2>1, <2>2 DEF UseReply, Known
<1>17. CASE ChangeEnrolment
  BY Zenon, <1>17 DEF ChangeEnrolment, Known
<1>18. CASE Tick
  BY Zenon, <1>18 DEF Tick, Known
<1>19. CASE UNCHANGED vars
  BY Zenon, <1>19 DEF vars, Known
<1> QED
  BY Zenon, <1>1, <1>2, <1>3, <1>4, <1>5, <1>6, <1>7, <1>8, <1>9, <1>10, <1>11, <1>12,
     <1>13, <1>14, <1>15, <1>16, <1>17, <1>18, <1>19 DEF Next, Step

\* A record in circulation is a pair of natural numbers.
LEMMA KnownType == TypeOK => Known \subseteq Record
BY Zenon, NotStartedFacts DEF TypeOK, Known, Snapshot

\* A new record has the largest sequence number and the latest expiry: the
\* clock and the numbers on disk only grow.
LEMMA OrderStep ==
    ASSUME TypeOK, TypeOK', Ordered, Ahead, [Next]_vars
    PROVE  Ordered' /\ Ahead'
<1> USE PublicationAssumption
<1>1. CASE newest' = newest /\ Known' \subseteq Known
  <2>1. Ordered'
    BY Zenon, <1>1 DEF Ordered, Precedes
  <2>2. /\ now' >= now
        /\ disk' >= disk \/ (worker # "stopped" /\ disk' = mem + 1)
        /\ mem' >= 1
        /\ worker' # "stopped" => newest.seq < mem' /\ mem' <= disk'
        /\ worker' = "reserved" => newest.seq < sequence' /\ sequence' < mem'
    <3> USE DEF TypeOK, Ahead, workerVars, serverVars, peerVars, registryVars, Record
    <3>1. CASE ReserveSequence \/ ReserveFails
      BY <3>1 DEF ReserveSequence, ReserveFails, FailRound
    <3>2. CASE Publish \/ PublishFails
      BY <3>2 DEF Publish, PublishFails, FailRound
    <3>3. CASE AcceptRecord \/ RejectRecord
      BY <3>3 DEF AcceptRecord, RejectRecord, FailRound
    <3>4. CASE BindingAccepted \/ BindingFails
      BY <3>4 DEF BindingAccepted, BindingFails
    <3>5. CASE DelayOver \/ RequestRefresh \/ Shutdown \/ Crash
      BY <3>5 DEF DelayOver, RequestRefresh, StartRound, Shutdown, Crash
    <3>6. CASE Restart
      BY <3>6 DEF Restart, Larger
    <3>7. CASE \E r \in wire : HandlePublish(r) \/ DropPublish(r)
      BY <3>7 DEF HandlePublish, DropPublish
    <3>8. CASE RestartServer \/ Lookup \/ ChangeEnrolment
      BY <3>8 DEF RestartServer, Lookup, ChangeEnrolment
    <3>9. CASE \E r \in replies : UseReply(r)
      BY <3>9 DEF UseReply
    <3>10. CASE Tick
      BY <3>10 DEF Tick
    <3>11. CASE UNCHANGED vars
      BY <3>11 DEF vars
    <3> QED
      BY Zenon, <3>1, <3>2, <3>3, <3>4, <3>5, <3>6, <3>7, <3>8, <3>9, <3>10, <3>11
         DEF Next, Step
  <2>3. \A r \in Known' : r.seq <= newest'.seq /\ r.exp <= newest'.exp
    BY Zenon, <1>1 DEF Ahead
  <2> QED BY <1>1, <2>1, <2>2, <2>3 DEF Ahead, TypeOK, Record
<1>2. CASE Publish /\ Known' \subseteq Known \cup {newest'}
  <2>1. newest' = [seq |-> sequence, exp |-> now + TTL]
    BY Zenon, <1>2 DEF Publish, Signed
  <2>2. newest'.seq > newest.seq /\ newest'.exp >= newest.exp
    BY <1>2, <2>1 DEF Publish, Ahead, TypeOK, Record
  <2>3. \A r \in Known : r.seq < newest'.seq /\ r.exp <= newest'.exp
    <3> TAKE r \in Known
    <3>1. r \in Record /\ newest \in Record /\ newest' \in Record
      BY Zenon, KnownType DEF TypeOK
    <3>2. r.seq <= newest.seq /\ r.exp <= newest.exp
      BY Zenon DEF Ahead
    <3> QED BY <2>2, <3>1, <3>2 DEF Record
  <2>4. Ordered'
    <3> SUFFICES ASSUME NEW a \in Known', NEW b \in Known'
                 PROVE  Precedes(a, b)
      BY Zenon DEF Ordered, Precedes
    <3>1. a \in Record /\ b \in Record
      BY Zenon, <1>2, KnownType DEF TypeOK
    <3>2. CASE a \in Known /\ b \in Known
      BY Zenon, <3>2 DEF Ordered
    <3>3. CASE a = newest' /\ b = newest'
      BY <3>1, <3>3 DEF Precedes, Record
    <3>4. CASE a \in Known /\ b = newest'
      BY <2>3, <3>1, <3>4 DEF Precedes, Record
    <3>5. CASE a = newest' /\ b \in Known
      BY <2>3, <3>1, <3>5 DEF Precedes, Record
    <3> QED BY Zenon, <1>2, <3>2, <3>3, <3>4, <3>5
  <2>5. \A r \in Known' : r.seq <= newest'.seq /\ r.exp <= newest'.exp
    <3> TAKE r \in Known'
    <3>1. r = newest' \/ r \in Known
      BY Zenon, <1>2
    <3>2. r \in Record /\ newest' \in Record
      BY Zenon, <3>1, KnownType DEF TypeOK
    <3> QED BY <2>3, <3>1, <3>2 DEF Record
  <2>6. UNCHANGED <<now, disk, mem, sequence>> /\ worker' = "sent"
    BY Zenon, <1>2 DEF Publish
  <2>7. newest'.seq < mem /\ mem <= disk /\ newest'.exp <= now + TTL
    BY <1>2, <2>1 DEF Publish, Ahead, TypeOK
  <2> QED BY <2>4, <2>5, <2>6, <2>7 DEF Ahead, TypeOK, Record
<1> QED BY Zenon, <1>1, <1>2, KnownStep

\* Only the clock and the registry touch the time and the enrolment.
LEMMA ClockStep ==
    ASSUME [Next]_vars
    PROVE  UNCHANGED <<now, identity, lastActive>> \/ ChangeEnrolment \/ Tick
<1> USE DEF workerVars, serverVars, peerVars, registryVars
<1>1. CASE ReserveSequence \/ ReserveFails \/ Publish \/ PublishFails
  BY Zenon, <1>1 DEF ReserveSequence, ReserveFails, Publish, PublishFails
<1>2. CASE AcceptRecord \/ RejectRecord \/ BindingAccepted \/ BindingFails
  BY Zenon, <1>2 DEF AcceptRecord, RejectRecord, BindingAccepted, BindingFails
<1>3. CASE DelayOver \/ RequestRefresh \/ Shutdown \/ Crash \/ Restart
  BY Zenon, <1>3 DEF DelayOver, RequestRefresh, StartRound, Shutdown, Crash, Restart
<1>4. CASE \E r \in wire : HandlePublish(r) \/ DropPublish(r)
  BY Zenon, <1>4 DEF HandlePublish, DropPublish
<1>5. CASE RestartServer \/ Lookup \/ \E r \in replies : UseReply(r)
  BY Zenon, <1>5 DEF RestartServer, Lookup, UseReply
<1>6. CASE UNCHANGED vars
  BY Zenon, <1>6 DEF vars
<1> QED BY Zenon, <1>1, <1>2, <1>3, <1>4, <1>5, <1>6 DEF Next, Step

\* A server that does not restart keeps holding what it held, or something
\* newer, for as long as it is alive.
LEMMA StoreStep ==
    ASSUME TypeOK, TypeOK', Ordered, Ahead, [Next]_vars, ~storeLost',
           NEW r \in Known, HeldByServer(r), r.exp > now'
    PROVE  store'.exp > now' /\ store'.seq >= r.seq
<1>1. r \in Record /\ store \in Record /\ store' \in Record
  BY Zenon, KnownType DEF TypeOK
<1>2. now \in Nat /\ now' \in Nat /\ now' >= now
  BY ClockStep DEF TypeOK, Tick, ChangeEnrolment
<1>3. store.exp > now /\ store.seq >= r.seq
  BY <1>1, <1>2 DEF HeldByServer, Live, Record
<1>4. store.exp >= r.exp
  <2>1. store \in Known
    BY Zenon DEF Known
  <2>2. Precedes(r, store)
    BY Zenon, <2>1 DEF Ordered
  <2> QED BY <1>1, <1>3, <2>2 DEF Precedes, Record
<1>5. CASE store' = store
  BY <1>1, <1>2, <1>3, <1>4, <1>5 DEF Record
<1>6. CASE \E q \in wire : HandlePublish(q)
  <2>1. PICK q \in wire : HandlePublish(q)
    BY Zenon, <1>6
  <2>2. CASE Stores(q)
    <3>1. store' = q /\ now' = now
      BY Zenon, <2>1, <2>2 DEF HandlePublish
    <3>2. q.exp > now /\ q.seq > store.seq
      BY Zenon, <1>3, <2>2 DEF Stores, Live
    <3> QED BY <1>1, <1>2, <1>3, <3>1, <3>2 DEF Record
  <2>3. CASE ~Stores(q)
    BY Zenon, <1>5, <2>1, <2>3 DEF HandlePublish
  <2> QED BY Zenon, <2>2, <2>3
<1>7. CASE Lookup
  BY Zenon, <1>3, <1>5, <1>7 DEF Lookup, Live
<1>8. store' = store \/ (\E q \in wire : HandlePublish(q)) \/ Lookup
  BY Zenon DEF Next, Step, vars, ReserveSequence, ReserveFails, Publish, PublishFails,
     AcceptRecord, RejectRecord, BindingAccepted, BindingFails, DelayOver,
     RequestRefresh, StartRound, Shutdown, Crash, Restart, DropPublish,
     RestartServer, UseReply, ChangeEnrolment, Tick, serverVars
<1> QED BY Zenon, <1>5, <1>6, <1>7, <1>8

\* The record of the round is shown only after the server has stored it.
LEMMA HeldStep ==
    ASSUME TypeOK, TypeOK', Ordered, Ahead, Held, [Next]_vars
    PROVE  Held'
<1>a. worker' = "reserved" => answer' = "none"
  BY Zenon DEF Held, Next, Step, vars, workerVars, serverVars, peerVars, registryVars,
     ReserveSequence, ReserveFails, Publish, PublishFails, FailRound,
     AcceptRecord, RejectRecord, BindingAccepted, BindingFails, DelayOver,
     RequestRefresh, StartRound, Shutdown, Crash, Restart, HandlePublish,
     DropPublish, Answered, RestartServer, Lookup, UseReply, ChangeEnrolment, Tick
<1> SUFFICES ASSUME ~storeLost'
             PROVE  /\ HeldByServer(machine.record)'
                    /\ HeldByServer(shared.record)'
                    /\ worker' = "sent" /\ answer' = "published" =>
                          HeldByServer(newest)'
  BY Zenon, <1>a DEF Held
<1> USE NotStartedFacts DEF workerVars, serverVars, peerVars, registryVars
<1>1. ~storeLost
  BY Zenon DEF Next, Step, vars, ReserveSequence, ReserveFails, Publish, PublishFails,
     AcceptRecord, RejectRecord, BindingAccepted, BindingFails, DelayOver,
     RequestRefresh, StartRound, Shutdown, Crash, Restart, HandlePublish,
     DropPublish, RestartServer, Lookup, UseReply, ChangeEnrolment, Tick
<1>2. /\ HeldByServer(machine.record)
      /\ HeldByServer(shared.record)
      /\ worker = "sent" /\ answer = "published" => HeldByServer(newest)
  BY Zenon, <1>1 DEF Held
<1>3. \A r \in Known : HeldByServer(r) =>
        (r.exp > now' => store'.exp > now' /\ store'.seq >= r.seq)
  BY Zenon, StoreStep
<1>4. {machine.record, shared.record, newest, NoRecord} \subseteq Known
  BY Zenon DEF Known
<1>5. HeldByServer(NoRecord)
  BY DEF HeldByServer, Live, TypeOK
<1> DEFINE Shown == {machine.record, shared.record, NoRecord}
                    \cup (IF worker = "sent" /\ answer = "published"
                          THEN {newest} ELSE {})
<1>6. \A r \in Shown : r.exp > now' => store'.exp > now' /\ store'.seq >= r.seq
  BY Zenon, <1>2, <1>3, <1>4, <1>5
<1>7. machine'.record \in Shown /\ shared'.record \in Shown
  <2>f. FailRound => machine'.record = machine.record /\ shared'.record = machine.record
    BY FailureFacts DEF FailRound, TypeOK
  <2>1. CASE ReserveSequence \/ ReserveFails
    BY Zenon, <2>1, <2>f DEF ReserveSequence, ReserveFails
  <2>2. CASE Publish \/ PublishFails \/ RejectRecord
    BY Zenon, <2>2, <2>f DEF Publish, PublishFails, RejectRecord
  <2>3. CASE AcceptRecord
    <3>1. newest \in Shown
      BY Zenon, <2>3 DEF AcceptRecord
    <3>2. machine'.record = newest
      BY Zenon, <2>3 DEF AcceptRecord
    <3>3. shared' = shared \/ shared' = machine'
      BY Zenon, <2>3 DEF AcceptRecord
    <3> QED BY Zenon, <3>1, <3>2, <3>3
  <2>4. CASE BindingAccepted
    BY Zenon, <2>4 DEF BindingAccepted
  <2>5. CASE BindingFails
    <3>1. [phase |-> machine.phase, record |-> machine.record,
           binding |-> "Failed"] \in Snapshot
      BY Zenon DEF TypeOK, Snapshot, Bindings
    <3> QED BY Zenon, <2>5, <3>1, FailureFacts DEF BindingFails
  <2>6. CASE Shutdown
    BY Zenon, <2>6, PhaseFacts DEF Shutdown, TypeOK, Phases
  <2>7. CASE Crash \/ Restart
    BY Zenon, <2>7 DEF Crash, Restart
  <2>8. CASE UNCHANGED <<machine, shared>>
    BY Zenon, <2>8
  <2> QED
    BY Zenon, <2>1, <2>2, <2>3, <2>4, <2>5, <2>6, <2>7, <2>8
       DEF Next, Step, vars, DelayOver, RequestRefresh, StartRound, HandlePublish,
           DropPublish, RestartServer, Lookup, UseReply, ChangeEnrolment, Tick
<1>8. ASSUME worker' = "sent", answer' = "published"
      PROVE  HeldByServer(newest)'
  <2>1. CASE worker = "sent" /\ answer = "published" /\ newest' = newest
    BY Zenon, <1>6, <2>1 DEF HeldByServer, Live
  <2>2. CASE Publish
    <3>1. answer' = answer /\ worker = "reserved"
      BY Zenon, <2>2 DEF Publish
    <3> QED BY Zenon, <1>8, <3>1 DEF Held
  <2>3. CASE \E r \in wire : HandlePublish(r) /\ answer' # answer
    <3>1. PICK r \in wire : HandlePublish(r) /\ answer' # answer
      BY Zenon, <2>3
    <3>2. r = newest /\ store' = r /\ Live(r) /\ now' = now /\ newest' = newest
      BY Zenon, <1>8, <3>1 DEF HandlePublish, Answered, Stores
    <3> QED BY <3>2 DEF HeldByServer, Live, TypeOK, Record
  <2>4. \/ worker = "sent" /\ answer = "published" /\ newest' = newest
        \/ Publish
        \/ \E r \in wire : HandlePublish(r) /\ answer' # answer
    BY Zenon, <1>8
    DEF Next, Step, vars, ReserveSequence, ReserveFails, PublishFails, FailRound,
       AcceptRecord, RejectRecord, BindingAccepted, BindingFails, DelayOver,
       RequestRefresh, StartRound, Shutdown, Crash, Restart, HandlePublish,
       DropPublish, Answered, RestartServer, Lookup, UseReply, ChangeEnrolment, Tick
  <2> QED BY Zenon, <2>1, <2>2, <2>3, <2>4
<1> QED BY Zenon, <1>6, <1>7, <1>8 DEF HeldByServer, Live

\* A snapshot shown as enrolled was checked after its record was signed.
LEMMA CheckedStep ==
    ASSUME TypeOK, TypeOK', Ordered, Ahead, Checked, [Next]_vars
    PROVE  Checked'
<1> USE PublicationAssumption, NotStartedFacts
        DEF workerVars, serverVars, peerVars, registryVars
<1>1. /\ lastActive' <= now'
      /\ identity' = "active" => lastActive' = now'
      /\ lastActive' >= lastActive
  <2>1. /\ now \in Nat /\ lastActive \in Nat /\ lastActive <= now
        /\ identity = "active" => lastActive = now
    BY Zenon DEF Checked, TypeOK
  <2>2. CASE UNCHANGED <<now, identity, lastActive>>
    BY <2>1, <2>2
  <2>3. CASE ChangeEnrolment
    <3>1. now' = now /\ lastActive' = IF identity' = "active" THEN now ELSE lastActive
      BY Zenon, <2>3 DEF ChangeEnrolment
    <3> QED BY <2>1, <3>1
  <2>4. CASE Tick
    <3>1. /\ now' = now + 1 /\ identity' = identity
          /\ lastActive' = IF identity = "active" THEN now' ELSE lastActive
      BY Zenon, <2>4 DEF Tick
    <3> QED BY <2>1, <3>1
  <2> QED BY Zenon, <2>2, <2>3, <2>4, ClockStep
<1>2. \A s \in Snapshot : CheckedWith(s) =>
        (s.binding = "Active" => s.record.exp <= lastActive' + TTL)
  BY <1>1 DEF CheckedWith, TypeOK, Snapshot, Record
<1>3. machine \in Snapshot /\ shared \in Snapshot
  BY Zenon DEF TypeOK
<1> SUFFICES ASSUME Required
             PROVE  /\ CheckedWith(shared)'
                    /\ worker' # "published" => CheckedWith(machine)'
  BY Zenon, <1>1 DEF Checked
<1>4. /\ CheckedWith(shared)
      /\ worker # "published" => CheckedWith(machine)
  BY Zenon DEF Checked
<1>f. FailRound => /\ machine'.record = machine.record
                   /\ machine'.binding = machine.binding
                   /\ shared' = machine'
  BY Zenon, FailureFacts DEF FailRound, TypeOK
<1>5. CASE ReserveSequence \/ ReserveFails
  BY Zenon, <1>2, <1>3, <1>4, <1>5, <1>f DEF ReserveSequence, ReserveFails, CheckedWith
<1>6. CASE PublishFails \/ RejectRecord
  BY Zenon, <1>2, <1>3, <1>4, <1>6, <1>f DEF PublishFails, RejectRecord, CheckedWith
<1>7. CASE AcceptRecord
  BY Zenon, <1>2, <1>3, <1>4, <1>7 DEF AcceptRecord, CheckedWith
<1>8. CASE BindingAccepted
  <2>1. machine.record.exp <= now + TTL
    <3>1. machine.record \in Known /\ newest \in Record /\ machine.record \in Record
      BY Zenon DEF Known, TypeOK, Snapshot
    <3>2. machine.record.exp <= newest.exp /\ newest.exp <= now + TTL
      BY Zenon, <3>1 DEF Ahead
    <3> QED BY <3>1, <3>2 DEF TypeOK, Record
  <2>2. lastActive' = now
    BY Zenon, <1>8 DEF BindingAccepted, Checked
  <2>3. machine'.record = machine.record /\ shared' = machine'
    BY Zenon, <1>8 DEF BindingAccepted
  <2> QED BY Zenon, <2>1, <2>2, <2>3 DEF CheckedWith
<1>9. CASE BindingFails
  <2>1. [phase |-> machine.phase, record |-> machine.record,
         binding |-> "Failed"] \in Snapshot
    BY Zenon DEF TypeOK, Snapshot, Bindings
  <2>2. machine'.binding = "Failed" /\ shared' = machine'
    BY Zenon, <1>9, <2>1, FailureFacts DEF BindingFails
  <2> QED BY Zenon, <2>2 DEF CheckedWith
<1>10. CASE Shutdown
  <2>1. /\ machine'.record = machine.record
        /\ machine'.binding = machine.binding
        /\ shared' = machine'
    BY Zenon, <1>10, PhaseFacts DEF Shutdown, TypeOK, Phases
  <2> QED BY Zenon, <1>2, <1>3, <1>4, <1>10, <2>1 DEF Shutdown, CheckedWith
<1>11. CASE Crash \/ Restart
  BY Zenon, <1>11 DEF Crash, Restart, CheckedWith
<1>12. CASE UNCHANGED <<machine, shared, worker>>
  BY Zenon, <1>2, <1>3, <1>4, <1>12 DEF CheckedWith
<1>13. CASE Publish \/ DelayOver \/ RequestRefresh
  BY Zenon, <1>2, <1>3, <1>4, <1>13
     DEF Publish, DelayOver, RequestRefresh, StartRound, CheckedWith
<1> QED
  BY Zenon, <1>5, <1>6, <1>7, <1>8, <1>9, <1>10, <1>11, <1>12, <1>13
     DEF Next, Step, vars, HandlePublish, DropPublish, RestartServer, Lookup, UseReply,
         ChangeEnrolment, Tick

-----------------------------------------------------------------------------
\* A freshly started worker, server and connector satisfy the invariant.
LEMMA InitialInvariant == Init => IInv
<1> SUFFICES ASSUME Init PROVE IInv
  BY Zenon
<1> USE PublicationAssumption, NotStartedFacts DEF Init
<1>1. TypeOK
  BY Zenon DEF TypeOK
<1>2. Known = {NoRecord}
  BY Zenon DEF Known
<1>3. Ordered /\ Ahead
  BY <1>2 DEF Ordered, Ahead, Precedes
<1>4. Held /\ Checked
  BY DEF Held, HeldByServer, Live, Checked, CheckedWith
<1> QED BY Zenon, <1>1, <1>3, <1>4 DEF IInv

\* Every step of the three parties keeps it.
LEMMA InvariantStep == IInv /\ [Next]_vars => IInv'
BY Zenon, TypeStep, OrderStep, HeldStep, CheckedStep DEF IInv

\* The records in circulation stay ordered, held and checked in every run of
\* the worker, the server and the connector.
THEOREM InductiveInvariant == Spec => []IInv
BY InitialInvariant, InvariantStep, PTL DEF Spec

\* The types of Publication hold throughout.
THEOREM TypeCorrect == Spec => []TypeOK
<1>1. IInv => TypeOK
  BY Zenon DEF IInv
<1> QED BY <1>1, InductiveInvariant, PTL

\* A sequence number never signs two records, whatever the disk does and
\* wherever the daemon crashes (reserve_sequence).
THEOREM SequencesAreUnique == Spec => SequenceNeverReused
<1>1. IInv /\ [Next]_vars => [newest' # newest => newest'.seq > newest.seq]_vars
  <2> SUFFICES ASSUME IInv, [Next]_vars, newest' # newest
               PROVE  newest'.seq > newest.seq
    BY Zenon
  <2>1. Publish
    BY Zenon, KnownStep DEF IInv
  <2> QED BY Zenon, <2>1 DEF Publish, Signed, IInv, Ahead
<1> QED BY <1>1, InductiveInvariant, PTL DEF Spec, SequenceNeverReused

\* Neither the rendezvous store nor a connector's cache goes back to an older
\* record.
THEOREM RecordsNeverRegress == Spec => HeldRecordNeverRegresses
<1> DEFINE Forward == /\ store' # store => store' = NoRecord \/ store'.seq > store.seq
                      /\ cache' # cache => cache'.seq > cache.seq
<1>1. IInv /\ [Next]_vars => [Forward]_vars
  <2> SUFFICES ASSUME IInv, [Next]_vars PROVE Forward
    BY Zenon
  <2> USE DEF workerVars, serverVars, peerVars, registryVars
  <2>1. ASSUME NEW a \in Known, NEW b \in Known, ~Live(a), Live(b)
        PROVE  b.seq > a.seq
    <3>1. a \in Record /\ b \in Record /\ now \in Nat
      BY Zenon, KnownType DEF IInv, TypeOK
    <3>2. Precedes(b, a)
      BY Zenon DEF IInv, Ordered
    <3> QED BY <2>1, <3>1, <3>2 DEF Precedes, Live, Record
  <2>2. store' # store => store' = NoRecord \/ store'.seq > store.seq
    <3>1. CASE \E r \in wire : HandlePublish(r)
      <4>1. PICK r \in wire : HandlePublish(r)
        BY Zenon, <3>1
      <4>2. r \in Known /\ store \in Known
        BY Zenon DEF Known
      <4>3. Stores(r) => r.seq > store.seq
        BY Zenon, <2>1, <4>2 DEF Stores
      <4> QED BY Zenon, <4>1, <4>3 DEF HandlePublish
    <3>2. CASE Lookup \/ RestartServer
      BY Zenon, <3>2 DEF Lookup, RestartServer
    <3> QED
      BY Zenon, <3>1, <3>2 DEF Next, Step, vars, ReserveSequence, ReserveFails, Publish,
         PublishFails, AcceptRecord, RejectRecord, BindingAccepted, BindingFails,
         DelayOver, RequestRefresh, StartRound, Shutdown, Crash, Restart,
         DropPublish, UseReply, ChangeEnrolment, Tick
  <2>3. cache' # cache => cache'.seq > cache.seq
    <3>1. CASE \E r \in replies : UseReply(r)
      <4>1. PICK r \in replies : UseReply(r)
        BY <3>1
      <4>2. r \in Known /\ cache \in Known /\ r \in Record /\ cache \in Record
        BY Zenon, KnownType DEF Known, IInv, TypeOK
      <4>3. CASE Live(r) /\ ~Live(cache)
        BY Zenon, <2>1, <4>1, <4>2, <4>3 DEF UseReply, Cached
      <4>4. CASE Live(r) /\ Live(cache)
        BY <4>1, <4>2, <4>4 DEF UseReply, Cached, Record
      <4>5. CASE ~Live(r)
        BY Zenon, <4>1, <4>5 DEF UseReply
      <4> QED BY Zenon, <4>3, <4>4, <4>5
    <3> QED
      BY Zenon, <3>1 DEF Next, Step, vars, ReserveSequence, ReserveFails, Publish,
         PublishFails, AcceptRecord, RejectRecord, BindingAccepted, BindingFails,
         DelayOver, RequestRefresh, StartRound, Shutdown, Crash, Restart,
         HandlePublish, DropPublish, RestartServer, Lookup, ChangeEnrolment, Tick
  <2> QED BY Zenon, <2>2, <2>3
<1> QED BY <1>1, InductiveInvariant, PTL DEF Spec, HeldRecordNeverRegresses

\* A record that is shown as published is held by a server that has not
\* restarted.
THEOREM ShownIsHeld == Spec => []PublishedIsHeld
<1>1. IInv => PublishedIsHeld
  BY Zenon DEF IInv, Held, HeldByServer, PublishedIsHeld
<1> QED BY <1>1, InductiveInvariant, PTL

\* The data plane's gate closes within a TTL of the end of the enrolment.
THEOREM GateCloses == Spec => []GateFollowsEnrolment
<1>1. IInv => GateFollowsEnrolment
  <2> SUFFICES ASSUME IInv, Required, IsCurrent(shared)
               PROVE  now - lastActive < TTL
    BY Zenon DEF GateFollowsEnrolment
  <2>1. shared.record.exp > now /\ shared.record.exp <= lastActive + TTL
    BY Zenon DEF IInv, Checked, CheckedWith, IsCurrent, Live
  <2>2. shared.record.exp \in Nat /\ now \in Nat /\ lastActive \in Nat
    BY Zenon DEF IInv, TypeOK, Snapshot, Record
  <2> QED BY <2>1, <2>2, PublicationAssumption
<1> QED BY <1>1, InductiveInvariant, PTL
=============================================================================

------------------------ MODULE PacketSessionsProofs ------------------------
(***************************************************************************)
(* For any number of peers, session managers, inbound tasks, generations   *)
(* and network events: a lease is announced Cleared at most once, and one  *)
(* that was announced Ready and not Cleared is still held.                 *)
(*                                                                         *)
(* Three parties may announce the end of a generation: the manager whose   *)
(* link it belongs to, a shutdown that took the lease out of the state the *)
(* two share, and an inbound task.  The invariant counts who still owes    *)
(* the announcement.  A generation has one debtor at most, and none once   *)
(* it has been cleared: taking the lease is what passes the debt on.       *)
(***************************************************************************)
EXTENDS PacketSessions, TLAPS

\* Where a manager's task has no lease published.
Quiet == {"unborn", "connecting", "backoff", "connected", "clearing", "left"}

\* Where it has a link, up to its close.
Linked == {"connected", "published", "announced", "polling", "linked", "delivering",
           "leaving", "clearing", "left"}

Places == Quiet \cup Linked \cup {"gone"}
Steps == {"idle", "clear", "stop", "abort", "default", "add"}
Numbers == 0 .. MaxGeneration

Calls ==
    [step : Steps, manager : Managers \cup {0}, peer : Peers \cup {NoPeer},
     taken : Numbers, next : Peers \cup {NoPeer}, all : BOOLEAN]

\* The types of what the events depend on.
TypeOK ==
    /\ pc \in [Managers -> Places]
    /\ gen \in [Managers -> Numbers]
    /\ lease \in [Managers -> Numbers]
    /\ active \in [Peers -> Managers \cup {0}]
    /\ default \in Peers \cup {NoPeer}
    /\ control \in Calls
    /\ counter \in Numbers
    /\ igen \in [InboundIds -> Numbers]
    /\ ipc \in [InboundIds -> {"idle", "granted", "open", "delivering", "closing"}]
    /\ readied \subseteq Directions \X Generations
    /\ clears \in [Directions -> [Generations -> {0, 1}]]

\* The manager has yet to announce the end of its generation, or to publish the
\* lease from which someone will.
Owes(m) == gen[m] # 0 /\ (pc[m] \in {"connected", "clearing"} \/ lease[m] = gen[m])

Uncleared(g) == \A d \in Directions : clears[d][g] = 0

\* The lease of a manager is that of its link; a debt is owed by nobody else and has
\* not been paid.  A link about to be announced is published, or has been taken.
ManagerInv(m) ==
    /\ lease[m] \in {0, gen[m]} /\ gen[m] <= counter
    /\ pc[m] \in Quiet => lease[m] = 0
    /\ pc[m] \in Linked => gen[m] # 0
    /\ pc[m] = "unborn" => gen[m] = 0
    /\ pc[m] = "published" => \/ lease[m] = gen[m] \/ control.taken = gen[m]
                              \/ clears["outbound"][gen[m]] = 1
    /\ Owes(m) => control.taken # gen[m] /\ Uncleared(gen[m])

InboundInv(i) ==
    /\ igen[i] <= counter
    /\ igen[i] # 0 => control.taken # igen[i]
    /\ ipc[i] # "idle" => igen[i] # 0 /\ clears["inbound"][igen[i]] = 0

\* No generation is drawn twice.
Distinct ==
    /\ \A m, n \in Managers : gen[m] # 0 /\ gen[m] = gen[n] => m = n
    /\ \A i, j \in InboundIds : igen[i] # 0 /\ igen[i] = igen[j] => i = j
    /\ \A m \in Managers, i \in InboundIds : gen[m] # 0 => gen[m] # igen[i]

\* A shutdown owes the lease it took until it has announced its end.
ControlInv ==
    /\ control.taken <= counter
    /\ control.step # "clear" => control.taken = 0
    /\ control.step = "add" => control.next # NoPeer
    /\ control.taken # 0 => Uncleared(control.taken)

\* Nothing was announced of generations that were not drawn.
Fresh ==
    \A d \in Directions, g \in Generations :
        g > counter => clears[d][g] = 0 /\ <<d, g>> \notin readied

Holds(m, g) == gen[m] = g /\ (lease[m] = g \/ pc[m] = "clearing")

\* An outbound lease that was announced and not cleared has someone who holds it.
HeldInv ==
    \A g \in Generations :
        Outstanding("outbound", g) => control.taken = g \/ \E m \in Managers : Holds(m, g)

\* Managers are spawned in order, and a replacement under way has one left, or a
\* peer that is managed already.
Born(k) == \A m \in Managers : pc[m] # "unborn" <=> m <= k

SpawnInv ==
    \E k \in 0 .. MaxManagers :
        /\ Born(k)
        /\ control.next # NoPeer => k < MaxManagers \/ active[control.next] # 0

\* The inductive invariant.
LeaseInv ==
    /\ \A m \in Managers : ManagerInv(m)
    /\ \A i \in InboundIds : InboundInv(i)
    /\ Distinct /\ ControlInv /\ Fresh /\ HeldInv

IInv == TypeOK /\ LeaseInv /\ SpawnInv

\* The transport is created with one manager, which is connecting.
LEMMA InitHolds == Init => IInv
<1> SUFFICES ASSUME Init PROVE IInv
  BY Zenon
<1> USE SessionAssumption DEF Managers, Generations, Numbers
<1>1. TypeOK
  BY DEF Init, TypeOK, Places, Quiet, Linked, Calls, Steps, Idle, Directions
<1>2. LeaseInv
  BY DEF Init, LeaseInv, ManagerInv, InboundInv, Distinct, ControlInv, Fresh, HeldInv,
         Owes, Uncleared, Outstanding, Idle, Quiet, Linked, Directions
<1>3. SpawnInv
  <2>1. Born(1)
    BY DEF Init, Born
  <2> QED BY <2>1 DEF SpawnInv, Init, Idle
<1> QED BY Zenon, <1>1, <1>2, <1>3 DEF IInv

-----------------------------------------------------------------------------
(* What steps elsewhere leave alone.                                        *)

\* A manager that a step passes by.
LEMMA ManagerStays ==
    ASSUME NEW n \in Managers, ManagerInv(n),
           pc'[n] = pc[n], gen'[n] = gen[n], lease'[n] = lease[n],
           counter' = counter \/ gen[n] <= counter', control'.taken = control.taken,
           gen[n] # 0 => \A d \in Directions : clears'[d][gen[n]] = clears[d][gen[n]]
    PROVE  ManagerInv(n)'
<1>1. "outbound" \in Directions
  BY Zenon DEF Directions
<1> QED BY Zenon, <1>1 DEF ManagerInv, Owes, Uncleared, Linked

\* An inbound task that a step passes by, or that goes on.
LEMMA InboundStays ==
    ASSUME NEW i \in InboundIds, InboundInv(i),
           igen'[i] = igen[i], ipc'[i] # "idle" => ipc[i] # "idle",
           counter' = counter \/ igen[i] <= counter', control'.taken = control.taken,
           igen[i] # 0 => clears'["inbound"][igen[i]] = clears["inbound"][igen[i]]
    PROVE  InboundInv(i)'
BY Zenon DEF InboundInv

\* No generation is drawn.
LEMMA DistinctStays == Distinct /\ UNCHANGED <<gen, igen>> => Distinct'
BY Zenon DEF Distinct

\* No call goes on.
LEMMA ControlStays == ControlInv /\ UNCHANGED <<control, counter, clears>> => ControlInv'
BY Zenon DEF ControlInv, Uncleared

\* Nothing is announced.
LEMMA FreshStays == Fresh /\ UNCHANGED <<counter, clears, readied>> => Fresh'
BY Zenon DEF Fresh

\* Whoever holds a lease goes on to hold it.
LEMMA HeldStays ==
    ASSUME HeldInv, control'.taken = control.taken, UNCHANGED <<clears, readied>>,
           \A n \in Managers, g \in Generations : Holds(n, g) => Holds(n, g)'
    PROVE  HeldInv'
BY Zenon DEF HeldInv, Outstanding

-----------------------------------------------------------------------------
(* Steps that move a task and touch no lease.                               *)

leaseVars == <<gen, lease, control, counter, igen, ipc, readied, clears>>

\* A manager that goes from one await or point to another keeps the invariant, as long
\* as it neither comes to owe an announcement nor drops one it owes.
LEMMA MoveKept ==
    ASSUME TypeOK, LeaseInv, NEW m \in Managers, NEW y \in Places,
           pc' = [pc EXCEPT ![m] = y], UNCHANGED leaseVars,
           pc[m] \notin {"unborn", "connected", "clearing"},
           y \notin {"unborn", "connected", "published", "clearing"},
           y \in Quiet => lease[m] = 0,
           y \in Linked => gen[m] # 0
    PROVE  LeaseInv'
<1>1. \A n \in Managers : n # m => pc'[n] = pc[n]
  BY Zenon DEF TypeOK
<1>2. pc'[m] = y
  BY Zenon DEF TypeOK
<1>3. ManagerInv(m)'
  BY Zenon, <1>2 DEF LeaseInv, ManagerInv, Owes, Uncleared, leaseVars
<1>4. ASSUME NEW n \in Managers, n # m
      PROVE  ManagerInv(n)'
  BY Zenon, <1>1, <1>4, ManagerStays DEF LeaseInv, leaseVars
<1>5. \A i \in InboundIds : InboundInv(i)'
  BY Zenon, InboundStays DEF LeaseInv, leaseVars
<1>6. Distinct' /\ ControlInv' /\ Fresh'
  BY Zenon, DistinctStays, ControlStays, FreshStays DEF LeaseInv, leaseVars
<1>7. \A n \in Managers, g \in Generations : Holds(n, g) => Holds(n, g)'
  BY Zenon, <1>1, <1>2 DEF Holds, leaseVars
<1>8. HeldInv'
  BY Zenon, <1>7, HeldStays DEF LeaseInv, leaseVars
<1> QED BY Zenon, <1>3, <1>4, <1>5, <1>6, <1>8 DEF LeaseInv

\* Steps that spawn no manager and begin no replacement leave one for a replacement
\* that is under way.
LEMMA SpawnKept ==
    ASSUME SpawnInv,
           \A m \in Managers : pc'[m] = "unborn" <=> pc[m] = "unborn",
           \/ control'.next = NoPeer
           \/ control'.next = control.next /\ active' = active
    PROVE  SpawnInv'
BY Zenon DEF SpawnInv, Born

MovingStep(m) ==
    \/ ConnectFails(m) \/ BackoffElapses(m) \/ BackoffEvent(m) \/ BackoffStop(m)
    \/ MarkReady(m) \/ Park(m) \/ LinkSend(m) \/ LinkFails(m) \/ LinkReceive(m)
    \/ Deliver(m) \/ LinkEvent(m) \/ LinkStop(m) \/ Rotate(m) \/ CloseLink(m)
    \/ Cancelled(m)

\* What such a step does to the place of its task.
LEMMA MovesWell ==
    ASSUME TypeOK, NEW m \in Managers, ManagerInv(m), MovingStep(m)
    PROVE  /\ UNCHANGED leaseVars /\ UNCHANGED <<active, default>>
           /\ pc[m] \notin {"unborn", "connected", "clearing"}
           /\ \E y \in Places :
                /\ pc' = [pc EXCEPT ![m] = y]
                /\ y \notin {"unborn", "connected", "published", "clearing"}
                /\ y \in Quiet => lease[m] = 0
                /\ y \in Linked => gen[m] # 0
<1> USE DEF leaseVars, sharedVars, signalVars, handleVars, inboundVars, outputVars, At,
        Places, Quiet, Linked
<1>1. CASE ConnectFails(m) \/ BackoffElapses(m) \/ BackoffEvent(m) \/ BackoffStop(m)
  BY Zenon, <1>1 DEF ConnectFails, BackoffElapses, BackoffEvent, BackoffStop, Reconnecting,
              ManagerInv
<1>2. CASE MarkReady(m) \/ Park(m)
  BY Zenon, <1>2 DEF MarkReady, Park, ManagerInv
<1>3. CASE LinkSend(m) \/ LinkFails(m) \/ LinkReceive(m)
  BY Zenon, <1>3
  DEF LinkSend, LinkFails, LinkReceive, Selecting, CountFrame, Leave, ManagerInv
<1>4. CASE Deliver(m) \/ LinkEvent(m) \/ LinkStop(m) \/ Rotate(m)
  BY Zenon, <1>4 DEF Deliver, LinkEvent, LinkStop, Rotate, Selecting, CountFrame, Leave,
              ManagerInv
<1>5. CASE CloseLink(m)
  BY Zenon, <1>5 DEF CloseLink, Reconnecting, ManagerInv
<1>6. CASE Cancelled(m)
  BY <1>6 DEF Cancelled, Parked, ManagerInv
<1> QED BY Zenon, <1>1, <1>2, <1>3, <1>4, <1>5, <1>6 DEF MovingStep

\* They keep the invariant.
LEMMA MovingKept ==
    ASSUME IInv, NEW m \in Managers, MovingStep(m)
    PROVE  IInv'
<1>1. TypeOK /\ LeaseInv /\ SpawnInv /\ ManagerInv(m)
  BY Zenon DEF IInv, LeaseInv
<1>2. PICK y \in Places :
        /\ pc' = [pc EXCEPT ![m] = y]
        /\ y \notin {"unborn", "connected", "published", "clearing"}
        /\ y \in Quiet => lease[m] = 0
        /\ y \in Linked => gen[m] # 0
  BY Zenon, <1>1, MovesWell
<1>3. /\ UNCHANGED leaseVars /\ UNCHANGED <<active, default>>
      /\ pc[m] \notin {"unborn", "connected", "clearing"}
  BY Zenon, <1>1, MovesWell
<1>4. LeaseInv'
  BY Zenon, <1>1, <1>2, <1>3, MoveKept
<1>5. TypeOK'
  BY Zenon, <1>1, <1>2, <1>3 DEF TypeOK, leaseVars
<1>6. SpawnInv'
  <2>1. \A n \in Managers : pc'[n] = "unborn" <=> pc[n] = "unborn"
    BY Zenon, <1>1, <1>2, <1>3 DEF TypeOK
  <2> QED BY Zenon, <1>1, <1>3, <2>1, SpawnKept DEF leaseVars
<1> QED BY Zenon, <1>4, <1>5, <1>6 DEF IInv

\* Network events, the clock and the reader of the channel touch none of it.
LEMMA UntouchedKept ==
    ASSUME IInv, UNCHANGED <<pc, active, default, leaseVars>>
    PROVE  IInv'
<1>1. TypeOK'
  BY Zenon DEF IInv, TypeOK, leaseVars
<1>2. LeaseInv'
  <2>1. \A n \in Managers, g \in Generations : Holds(n, g) => Holds(n, g)'
    BY Zenon DEF Holds, leaseVars
  <2> QED BY Zenon, <2>1, ManagerStays, InboundStays, DistinctStays, ControlStays,
             FreshStays,
          HeldStays DEF IInv, LeaseInv, leaseVars
<1>3. SpawnInv'
  BY Zenon DEF IInv, SpawnInv, Born, leaseVars
<1> QED BY Zenon, <1>1, <1>2, <1>3 DEF IInv

-----------------------------------------------------------------------------
(* The life of a lease in its manager.                                      *)

\* A generation is drawn: it is larger than any other.
LEMMA DrawKept ==
    ASSUME IInv, NEW m \in Managers, NEW relay \in BOOLEAN, ConnectSucceeds(m, relay),
           ~GenerationsExhausted
    PROVE  IInv'
<1> USE SessionAssumption DEF Numbers
<1>1. /\ pc' = [pc EXCEPT ![m] = "connected"] /\ pc[m] = "connecting"
      /\ counter' = counter + 1 /\ counter' \in Generations /\ counter \in Nat
      /\ gen' = [gen EXCEPT ![m] = counter + 1]
      /\ UNCHANGED <<lease, control, igen, ipc, readied, clears, active, default>>
  BY DEF ConnectSucceeds, GenerationsExhausted, At, IInv, TypeOK, Generations,
         handleVars, inboundVars, outputVars
<1>2. TypeOK'
  BY <1>1 DEF IInv, TypeOK, Places, Linked, Generations
<1>3. /\ pc'[m] = "connected" /\ gen'[m] = counter + 1
      /\ \A n \in Managers : n # m => pc'[n] = pc[n] /\ gen'[n] = gen[n]
  BY Zenon, <1>1 DEF IInv, TypeOK
<1>4. /\ \A n \in Managers : gen[n] \in Nat /\ gen[n] <= counter
      /\ \A i \in InboundIds : igen[i] \in Nat /\ igen[i] <= counter
      /\ control.taken \in Nat /\ control.taken <= counter
  BY DEF IInv, TypeOK, Calls, LeaseInv, ManagerInv, InboundInv, ControlInv
<1>5. ManagerInv(m)'
  <2>1. lease[m] = 0
    BY Zenon, <1>1 DEF IInv, LeaseInv, ManagerInv, Quiet
  <2>2. Uncleared(counter + 1)
    <3>1. counter + 1 \in Generations /\ counter + 1 > counter
      BY <1>1
    <3> QED BY Zenon, <3>1 DEF IInv, LeaseInv, Fresh, Uncleared
  <2> QED BY <1>1, <1>3, <1>4, <2>1, <2>2 DEF ManagerInv, Owes, Uncleared, Linked
<1>6. ASSUME NEW n \in Managers, n # m
      PROVE  ManagerInv(n)'
  BY <1>1, <1>3, <1>4, <1>6 DEF IInv, LeaseInv, ManagerInv, Owes, Uncleared
<1>7. \A i \in InboundIds : InboundInv(i)'
  BY <1>1, <1>4 DEF IInv, LeaseInv, InboundInv
<1>8. Distinct'
  BY <1>1, <1>3, <1>4 DEF IInv, LeaseInv, Distinct
<1>9. ControlInv' /\ Fresh'
  BY <1>1, <1>4 DEF IInv, LeaseInv, ControlInv, Fresh, Uncleared, Generations
<1>10. HeldInv'
  <2>1. \A n \in Managers, g \in Generations : Holds(n, g) => Holds(n, g)'
    BY <1>1, <1>3 DEF Holds, IInv, LeaseInv, ManagerInv, Quiet, Generations
  <2> QED BY Zenon, <1>1, <2>1 DEF IInv, LeaseInv, HeldInv, Outstanding
<1>11. SpawnInv'
  BY Zenon, <1>1, <1>3, SpawnKept DEF IInv
<1> QED BY Zenon, <1>2, <1>5, <1>6, <1>7, <1>8, <1>9, <1>10, <1>11 DEF IInv, LeaseInv

\* publish_packet_session: the debt of the connected manager is now its lease.
LEMMA PublishKept ==
    ASSUME IInv, NEW m \in Managers, Publish(m)
    PROVE  IInv'
<1>1. /\ pc' = [pc EXCEPT ![m] = "published"] /\ pc[m] = "connected"
      /\ lease' = [lease EXCEPT ![m] = gen[m]]
      /\ UNCHANGED <<gen, control, counter, igen, ipc, readied, clears, active, default>>
  BY Zenon DEF Publish, handleVars, inboundVars, outputVars
<1>2. TypeOK'
  BY Zenon, <1>1 DEF IInv, TypeOK, Places, Linked
<1>3. /\ pc'[m] = "published" /\ lease'[m] = gen[m]
      /\ \A n \in Managers : n # m => pc'[n] = pc[n] /\ lease'[n] = lease[n]
  BY Zenon, <1>1 DEF IInv, TypeOK
<1>4. ManagerInv(m)'
  BY Zenon, <1>1, <1>3 DEF IInv, LeaseInv, ManagerInv, Owes, Uncleared, Quiet, Linked
<1>5. ASSUME NEW n \in Managers, n # m
      PROVE  ManagerInv(n)'
  BY Zenon, <1>1, <1>3, <1>5, ManagerStays DEF IInv, LeaseInv
<1>6. (\A i \in InboundIds : InboundInv(i)') /\ Distinct' /\ ControlInv' /\ Fresh'
  BY Zenon, <1>1, InboundStays, DistinctStays, ControlStays, FreshStays DEF IInv, LeaseInv
<1>7. HeldInv'
  <2>1. \A n \in Managers, g \in Generations : Holds(n, g) => Holds(n, g)'
    BY Zenon, <1>1, <1>3 DEF Holds
  <2> QED BY Zenon, <1>1, <2>1, HeldStays DEF IInv, LeaseInv
<1>8. SpawnInv'
  BY Zenon, <1>1, <1>3, SpawnKept DEF IInv
<1> QED BY Zenon, <1>2, <1>4, <1>5, <1>6, <1>7, <1>8 DEF IInv, LeaseInv

\* Ready is announced of a lease that is published, or that a shutdown has taken.
LEMMA AnnounceKept ==
    ASSUME IInv, NEW m \in Managers, Announce(m)
    PROVE  IInv'
<1>1. /\ pc' = [pc EXCEPT ![m] = "announced"] /\ pc[m] = "published"
      /\ readied' = readied \cup (DirectionsOf(m) \X {gen[m]})
      /\ UNCHANGED <<gen, lease, control, counter, igen, ipc, clears, active, default>>
  BY Zenon DEF Announce, SendReady, sharedVars, handleVars, inboundVars
<1>2. gen[m] \in Generations /\ gen[m] <= counter
  BY <1>1, SessionAssumption DEF IInv, TypeOK, LeaseInv, ManagerInv, Linked, Numbers,
     Generations
<1>3. TypeOK'
  BY Zenon, <1>1, <1>2 DEF IInv, TypeOK, Places, Linked, DirectionsOf, Directions
<1>4. /\ pc'[m] = "announced"
      /\ \A n \in Managers : n # m => pc'[n] = pc[n]
  BY Zenon, <1>1 DEF IInv, TypeOK
<1>5. ManagerInv(m)'
  BY Zenon, <1>1, <1>4 DEF IInv, LeaseInv, ManagerInv, Owes, Uncleared, Quiet, Linked
<1>6. ASSUME NEW n \in Managers, n # m
      PROVE  ManagerInv(n)'
  BY Zenon, <1>1, <1>4, <1>6, ManagerStays DEF IInv, LeaseInv
<1>7. (\A i \in InboundIds : InboundInv(i)') /\ Distinct' /\ ControlInv'
  BY Zenon, <1>1, InboundStays, DistinctStays, ControlStays DEF IInv, LeaseInv
<1>8. Fresh'
  <2>1. \A d \in Directions, g \in Generations :
           g > counter => <<d, g>> \notin DirectionsOf(m) \X {gen[m]}
    BY <1>2, SessionAssumption DEF Generations, IInv, TypeOK, Numbers
  <2> QED BY Zenon, <1>1, <2>1 DEF IInv, LeaseInv, Fresh
<1>9. HeldInv'
  <2>1. \A n \in Managers, g \in Generations : Holds(n, g) => Holds(n, g)'
    BY Zenon, <1>1, <1>4 DEF Holds
  <2>2. \/ lease[m] = gen[m] \/ control.taken = gen[m]
        \/ clears["outbound"][gen[m]] = 1
    BY Zenon, <1>1 DEF IInv, LeaseInv, ManagerInv
  <2>3. ASSUME NEW g \in Generations, Outstanding("outbound", g)', ~Outstanding("outbound", g)
        PROVE  g = gen[m] /\ clears["outbound"][g] = 0
    BY Zenon, <1>1, <2>3 DEF Outstanding
  <2>4. lease[m] = gen[m] => Holds(m, gen[m])'
    BY Zenon, <1>1, <1>4 DEF Holds
  <2> QED BY <1>1, <2>1, <2>2, <2>3, <2>4 DEF IInv, LeaseInv, HeldInv
<1>10. SpawnInv'
  BY Zenon, <1>1, <1>4, SpawnKept DEF IInv
<1> QED BY Zenon, <1>3, <1>5, <1>6, <1>7, <1>8, <1>9, <1>10 DEF IInv, LeaseInv

\* The end of a link finds its lease and takes it: it owes the announcement still.
LEMMA TakeKept ==
    ASSUME IInv, NEW m \in Managers, ClearLease(m)
    PROVE  IInv'
<1>1. pc[m] = "leaving" /\ gen[m] # 0 /\ lease[m] \in {0, gen[m]}
  BY Zenon DEF ClearLease, IInv, LeaseInv, ManagerInv, Linked
<1>2. CASE lease[m] # gen[m]
  <2>1. /\ pc' = [pc EXCEPT ![m] = "left"] /\ lease[m] = 0
        /\ UNCHANGED leaseVars /\ UNCHANGED <<active, default>>
    BY Zenon, <1>1, <1>2 DEF ClearLease, HoldsLease, leaseVars, handleVars, inboundVars,
                      outputVars
  <2>2. LeaseInv'
    BY Zenon, <1>1, <2>1, MoveKept DEF IInv, Places, Linked, Quiet
  <2>3. TypeOK'
    BY Zenon, <2>1 DEF IInv, TypeOK, leaseVars, Places, Linked
  <2>4. SpawnInv'
    BY Zenon, <1>1, <2>1, SpawnKept DEF IInv, TypeOK, leaseVars
  <2> QED BY Zenon, <2>2, <2>3, <2>4 DEF IInv
<1>3. CASE lease[m] = gen[m]
  <2>1. /\ pc' = [pc EXCEPT ![m] = "clearing"] /\ lease' = [lease EXCEPT ![m] = 0]
        /\ UNCHANGED <<gen, control, counter, igen, ipc, readied, clears, active, default>>
    BY Zenon, <1>3 DEF ClearLease, HoldsLease, handleVars, inboundVars, outputVars
  <2>2. TypeOK'
    BY <2>1, SessionAssumption DEF IInv, TypeOK, Places, Linked, Numbers
  <2>3. /\ pc'[m] = "clearing" /\ lease'[m] = 0
        /\ \A n \in Managers : n # m => pc'[n] = pc[n] /\ lease'[n] = lease[n]
    BY Zenon, <2>1 DEF IInv, TypeOK
  <2>4. ManagerInv(m)'
    BY Zenon, <1>1, <1>3, <2>1, <2>3 DEF IInv, LeaseInv, ManagerInv, Owes, Uncleared
  <2>5. ASSUME NEW n \in Managers, n # m
        PROVE  ManagerInv(n)'
    BY Zenon, <2>1, <2>3, <2>5, ManagerStays DEF IInv, LeaseInv
  <2>6. (\A i \in InboundIds : InboundInv(i)') /\ Distinct' /\ ControlInv' /\ Fresh'
    BY Zenon, <2>1, InboundStays, DistinctStays, ControlStays, FreshStays DEF IInv, LeaseInv
  <2>7. HeldInv'
    <3>1. \A n \in Managers, g \in Generations : Holds(n, g) => Holds(n, g)'
      BY Zenon, <2>1, <2>3 DEF Holds
    <3> QED BY Zenon, <2>1, <3>1, HeldStays DEF IInv, LeaseInv
  <2>8. SpawnInv'
    BY Zenon, <1>1, <2>1, <2>3, SpawnKept DEF IInv
  <2> QED BY <2>2, <2>4, <2>5, <2>6, <2>7, <2>8 DEF IInv, LeaseInv
<1> QED BY Zenon, <1>2, <1>3

\* What an announcement of the end of a generation changes, when it is the first.
LEMMA ClearedOnce ==
    ASSUME TypeOK, NEW g \in Generations, NEW dirs \in SUBSET Directions,
           \A d \in dirs : clears[d][g] = 0, SendCleared(g, dirs)
    PROVE  /\ clears' \in [Directions -> [Generations -> {0, 1}]]
           /\ \A d \in Directions, h \in Generations :
                 clears'[d][h] = IF d \in dirs /\ h = g THEN 1 ELSE clears[d][h]
           /\ readied' = readied
BY DEF TypeOK, SendCleared

\* The announcement pays the manager's debt, and no one else had it.
LEMMA AnnounceClearedKept ==
    ASSUME IInv, NEW m \in Managers, AnnounceCleared(m)
    PROVE  IInv'
<1>1. /\ pc' = [pc EXCEPT ![m] = "left"] /\ pc[m] = "clearing"
      /\ SendCleared(gen[m], DirectionsOf(m))
      /\ UNCHANGED <<gen, lease, control, counter, igen, ipc, active, default>>
  BY Zenon DEF AnnounceCleared, sharedVars, handleVars, inboundVars
<1>2. /\ gen[m] \in Generations /\ gen[m] <= counter /\ gen[m] # 0 /\ lease[m] = 0
      /\ control.taken # gen[m] /\ Uncleared(gen[m])
  BY <1>1, SessionAssumption DEF IInv, TypeOK, LeaseInv, ManagerInv, Owes, Linked, Quiet,
     Numbers, Generations
<1>3. /\ clears' \in [Directions -> [Generations -> {0, 1}]]
      /\ \A d \in Directions, h \in Generations :
            clears'[d][h] = IF d \in DirectionsOf(m) /\ h = gen[m] THEN 1 ELSE clears[d][h]
      /\ readied' = readied
  <2>1. DirectionsOf(m) \in SUBSET Directions
    BY Zenon DEF DirectionsOf, Directions
  <2> QED BY Zenon, <1>1, <1>2, <2>1, ClearedOnce DEF IInv, Uncleared
<1>4. TypeOK'
  BY Zenon, <1>1, <1>3 DEF IInv, TypeOK, Places, Linked
<1>5. /\ pc'[m] = "left"
      /\ \A n \in Managers : n # m => pc'[n] = pc[n]
  BY Zenon, <1>1 DEF IInv, TypeOK
<1>6. "outbound" \in Directions /\ "inbound" \in Directions /\ "outbound" \in DirectionsOf(m)
  BY Zenon DEF Directions, DirectionsOf
<1>7. ManagerInv(m)'
  BY Zenon, <1>1, <1>2, <1>5 DEF IInv, LeaseInv, ManagerInv, Owes, Quiet, Linked
<1>8. \A h \in Generations : h # gen[m] => \A d \in Directions : clears'[d][h] = clears[d][h]
  BY Zenon, <1>3
<1>9. ASSUME NEW n \in Managers, n # m
      PROVE  ManagerInv(n)'
  <2>1. gen[n] # 0 => gen[n] \in Generations /\ gen[n] # gen[m]
    BY <1>9, SessionAssumption DEF IInv, LeaseInv, Distinct, TypeOK, Numbers, Generations
  <2> QED BY Zenon, <1>1, <1>5, <1>8, <1>9, <2>1, ManagerStays DEF IInv, LeaseInv
<1>10. ASSUME NEW i \in InboundIds
       PROVE  InboundInv(i)'
  <2>1. igen[i] # 0 => igen[i] \in Generations /\ igen[i] # gen[m]
    BY <1>2, SessionAssumption DEF IInv, LeaseInv, Distinct, TypeOK, Numbers, Generations
  <2> QED BY Zenon, <1>1, <1>6, <1>8, <2>1, InboundStays DEF IInv, LeaseInv
<1>11. Distinct'
  BY Zenon, <1>1, DistinctStays DEF IInv, LeaseInv
<1>12. ControlInv'
  <2>1. control.taken # 0 => control.taken \in Generations
    BY SessionAssumption DEF IInv, TypeOK, Calls, Numbers, Generations
  <2> QED BY Zenon, <1>1, <1>2, <1>8, <2>1 DEF IInv, LeaseInv, ControlInv, Uncleared
<1>13. Fresh'
  <2>1. \A g \in Generations : g > counter => g # gen[m]
    BY <1>2, SessionAssumption DEF IInv, TypeOK, Numbers, Generations
  <2> QED BY Zenon, <1>1, <1>3, <1>8, <2>1 DEF IInv, LeaseInv, Fresh
<1>14. HeldInv'
  <2>1. \A n \in Managers, g \in Generations : g # gen[m] /\ Holds(n, g) => Holds(n, g)'
    BY Zenon, <1>1, <1>5 DEF Holds
  <2>2. \A g \in Generations : Outstanding("outbound", g)' =>
           g # gen[m] /\ Outstanding("outbound", g)
    BY <1>3, <1>6 DEF Outstanding
  <2> QED BY Zenon, <1>1, <2>1, <2>2 DEF IInv, LeaseInv, HeldInv
<1>15. SpawnInv'
  BY Zenon, <1>1, <1>5, SpawnKept DEF IInv
<1> QED BY Zenon, <1>4, <1>7, <1>9, <1>10, <1>11, <1>12, <1>13, <1>14, <1>15
        DEF IInv, LeaseInv

-----------------------------------------------------------------------------
(* Inbound sessions.                                                        *)

\* The responder draws from the same counter.
LEMMA GrantKept ==
    ASSUME IInv, NEW i \in InboundIds, NEW p \in Peers, InboundGranted(i, p)
    PROVE  IInv'
<1> USE SessionAssumption DEF Numbers
<1>1. /\ ipc' = [ipc EXCEPT ![i] = "granted"]
      /\ counter' = counter + 1 /\ counter' \in Generations /\ counter \in Nat
      /\ igen' = [igen EXCEPT ![i] = counter + 1]
      /\ UNCHANGED <<pc, gen, lease, control, readied, clears, active, default>>
  BY DEF InboundGranted, GenerationsExhausted, IInv, TypeOK, Generations,
         taskVars, sharedVars, handleVars, outputVars
<1>2. TypeOK'
  BY <1>1 DEF IInv, TypeOK, Generations
<1>3. /\ ipc'[i] = "granted" /\ igen'[i] = counter + 1
      /\ \A j \in InboundIds : j # i => ipc'[j] = ipc[j] /\ igen'[j] = igen[j]
  BY Zenon, <1>1 DEF IInv, TypeOK
<1>4. /\ \A n \in Managers : gen[n] \in Nat /\ gen[n] <= counter
      /\ \A j \in InboundIds : igen[j] \in Nat /\ igen[j] <= counter
      /\ control.taken \in Nat /\ control.taken <= counter
  BY DEF IInv, TypeOK, Calls, LeaseInv, ManagerInv, InboundInv, ControlInv
<1>5. \A n \in Managers : ManagerInv(n)'
  <2>1. \A n \in Managers : gen[n] <= counter'
    BY <1>1, <1>4
  <2> QED BY Zenon, <1>1, <2>1, ManagerStays DEF IInv, LeaseInv
<1>6. InboundInv(i)'
  <2>1. counter + 1 \in Generations /\ counter + 1 > counter /\ "inbound" \in Directions
    BY <1>1 DEF Directions
  <2>2. clears["inbound"][counter + 1] = 0
    BY Zenon, <2>1 DEF IInv, LeaseInv, Fresh
  <2> QED BY <1>1, <1>3, <1>4, <2>2 DEF InboundInv
<1>7. ASSUME NEW j \in InboundIds, j # i
      PROVE  InboundInv(j)'
  <2>1. igen[j] <= counter'
    BY <1>1, <1>4
  <2> QED BY Zenon, <1>1, <1>3, <1>7, <2>1, InboundStays DEF IInv, LeaseInv
<1>8. Distinct'
  BY <1>1, <1>3, <1>4 DEF IInv, LeaseInv, Distinct
<1>9. ControlInv' /\ Fresh'
  BY <1>1, <1>4 DEF IInv, LeaseInv, ControlInv, Fresh, Uncleared, Generations
<1>10. HeldInv'
  BY Zenon, <1>1, HeldStays DEF IInv, LeaseInv, Holds
<1>11. SpawnInv'
  BY Zenon, <1>1, SpawnKept DEF IInv
<1> QED BY Zenon, <1>2, <1>5, <1>6, <1>7, <1>8, <1>9, <1>10, <1>11 DEF IInv, LeaseInv

InboundMoves(i) == InboundReceives(i) \/ InboundDelivers(i) \/ InboundEnds(i)

\* An inbound task that goes on keeps owing its announcement.
LEMMA InboundMovesKept ==
    ASSUME IInv, NEW i \in InboundIds, InboundMoves(i)
    PROVE  IInv'
<1>1. /\ ipc[i] # "idle"
      /\ \E y \in {"open", "delivering", "closing"} : ipc' = [ipc EXCEPT ![i] = y]
      /\ UNCHANGED <<pc, gen, lease, control, counter, igen, readied, clears, active, default>>
  BY Zenon DEF InboundMoves, InboundReceives, InboundDelivers, InboundEnds, taskVars,
         sharedVars, handleVars, outputVars
<1>2. TypeOK'
  BY Zenon, <1>1 DEF IInv, TypeOK
<1>3. \A j \in InboundIds : ipc'[j] # "idle" => ipc[j] # "idle"
  BY Zenon, <1>1 DEF IInv, TypeOK
<1>4. \A j \in InboundIds : InboundInv(j)'
  BY Zenon, <1>1, <1>3, InboundStays DEF IInv, LeaseInv
<1>5. \A n \in Managers : ManagerInv(n)'
  BY Zenon, <1>1, ManagerStays DEF IInv, LeaseInv
<1>6. Distinct' /\ ControlInv' /\ Fresh' /\ HeldInv'
  <2>1. \A n \in Managers, g \in Generations : Holds(n, g) => Holds(n, g)'
    BY Zenon, <1>1 DEF Holds
  <2> QED BY Zenon, <1>1, <2>1, DistinctStays, ControlStays, FreshStays, HeldStays
          DEF IInv, LeaseInv
<1>7. SpawnInv'
  BY Zenon, <1>1, SpawnKept DEF IInv
<1> QED BY Zenon, <1>2, <1>4, <1>5, <1>6, <1>7 DEF IInv, LeaseInv

\* Ready of an inbound session says nothing of outbound leases.
LEMMA InboundAnnouncedKept ==
    ASSUME IInv, NEW i \in InboundIds, InboundAnnounced(i)
    PROVE  IInv'
<1>1. /\ ipc[i] = "granted" /\ ipc' = [ipc EXCEPT ![i] = "open"]
      /\ readied' = readied \cup ({"inbound"} \X {igen[i]})
      /\ UNCHANGED <<pc, gen, lease, control, counter, igen, clears, active, default>>
  BY Zenon DEF InboundAnnounced, SendReady, taskVars, sharedVars, handleVars
<1>2. igen[i] \in Generations /\ igen[i] <= counter
  BY <1>1, SessionAssumption DEF IInv, TypeOK, LeaseInv, InboundInv, Numbers, Generations
<1>3. TypeOK'
  BY Zenon, <1>1, <1>2 DEF IInv, TypeOK, Directions
<1>4. \A j \in InboundIds : ipc'[j] # "idle" => ipc[j] # "idle"
  BY Zenon, <1>1 DEF IInv, TypeOK
<1>5. \A j \in InboundIds : InboundInv(j)'
  BY Zenon, <1>1, <1>4, InboundStays DEF IInv, LeaseInv
<1>6. \A n \in Managers : ManagerInv(n)'
  BY Zenon, <1>1, ManagerStays DEF IInv, LeaseInv
<1>7. Distinct' /\ ControlInv'
  BY Zenon, <1>1, DistinctStays, ControlStays DEF IInv, LeaseInv
<1>8. Fresh'
  <2>1. \A g \in Generations : g > counter => g # igen[i]
    BY <1>2, SessionAssumption DEF IInv, TypeOK, Numbers, Generations
  <2> QED BY Zenon, <1>1, <2>1 DEF IInv, LeaseInv, Fresh
<1>9. HeldInv'
  BY Zenon, <1>1 DEF IInv, LeaseInv, HeldInv, Outstanding, Holds
<1>10. SpawnInv'
  BY Zenon, <1>1, SpawnKept DEF IInv
<1> QED BY Zenon, <1>3, <1>5, <1>6, <1>7, <1>8, <1>9, <1>10 DEF IInv, LeaseInv

\* The end of an inbound session is announced by its task alone.
LEMMA InboundClosesKept ==
    ASSUME IInv, NEW i \in InboundIds, InboundCloses(i)
    PROVE  IInv'
<1>1. /\ ipc[i] = "closing" /\ ipc' = [ipc EXCEPT ![i] = "idle"]
      /\ SendCleared(igen[i], {"inbound"})
      /\ UNCHANGED <<pc, gen, lease, control, counter, igen, active, default>>
  BY Zenon DEF InboundCloses, taskVars, sharedVars, handleVars
<1>2. /\ igen[i] \in Generations /\ igen[i] <= counter /\ igen[i] # 0
      /\ control.taken # igen[i] /\ clears["inbound"][igen[i]] = 0
  BY <1>1, SessionAssumption DEF IInv, TypeOK, LeaseInv, InboundInv, Numbers, Generations
<1>3. /\ clears' \in [Directions -> [Generations -> {0, 1}]]
      /\ \A d \in Directions, h \in Generations :
            clears'[d][h] = IF d \in {"inbound"} /\ h = igen[i] THEN 1 ELSE clears[d][h]
      /\ readied' = readied
  <2>1. {"inbound"} \in SUBSET Directions
    BY Zenon DEF Directions
  <2> QED BY Zenon, <1>1, <1>2, <2>1, ClearedOnce DEF IInv
<1>4. TypeOK'
  BY Zenon, <1>1, <1>3 DEF IInv, TypeOK
<1>5. /\ ipc'[i] = "idle"
      /\ \A j \in InboundIds : j # i => ipc'[j] = ipc[j]
  BY Zenon, <1>1 DEF IInv, TypeOK
<1>6. "outbound" \in Directions /\ "inbound" \in Directions
  BY Zenon DEF Directions
<1>7. \A h \in Generations : h # igen[i] => \A d \in Directions : clears'[d][h] = clears[d][h]
  BY Zenon, <1>3
<1>8. ASSUME NEW n \in Managers
      PROVE  ManagerInv(n)'
  <2>1. gen[n] # 0 => gen[n] \in Generations /\ gen[n] # igen[i]
    BY <1>2, SessionAssumption DEF IInv, LeaseInv, Distinct, TypeOK, Numbers, Generations
  <2> QED BY Zenon, <1>1, <1>7, <2>1, ManagerStays DEF IInv, LeaseInv
<1>9. ASSUME NEW j \in InboundIds
      PROVE  InboundInv(j)'
  <2>1. j # i /\ igen[j] # 0 => igen[j] \in Generations /\ igen[j] # igen[i]
    BY SessionAssumption DEF IInv, LeaseInv, Distinct, TypeOK, Numbers, Generations
  <2>2. CASE j = i
    BY Zenon, <1>1, <1>5, <2>2 DEF IInv, LeaseInv, InboundInv
  <2>3. CASE j # i
    BY Zenon, <1>1, <1>5, <1>6, <1>7, <2>1, <2>3, InboundStays DEF IInv, LeaseInv
  <2> QED BY Zenon, <2>2, <2>3
<1>10. Distinct'
  BY Zenon, <1>1, DistinctStays DEF IInv, LeaseInv
<1>11. ControlInv'
  <2>1. control.taken # 0 => control.taken \in Generations
    BY SessionAssumption DEF IInv, TypeOK, Calls, Numbers, Generations
  <2> QED BY Zenon, <1>1, <1>2, <1>7, <2>1 DEF IInv, LeaseInv, ControlInv, Uncleared
<1>12. Fresh'
  <2>1. \A g \in Generations : g > counter => g # igen[i]
    BY <1>2, SessionAssumption DEF IInv, TypeOK, Numbers, Generations
  <2> QED BY Zenon, <1>1, <1>3, <1>7, <2>1 DEF IInv, LeaseInv, Fresh
<1>13. HeldInv'
  BY <1>1, <1>3, <1>6 DEF IInv, LeaseInv, HeldInv, Outstanding, Holds
<1>14. SpawnInv'
  BY Zenon, <1>1, SpawnKept DEF IInv
<1> QED BY Zenon, <1>4, <1>8, <1>9, <1>10, <1>11, <1>12, <1>13, <1>14 DEF IInv, LeaseInv

-----------------------------------------------------------------------------
(* The transport handle.                                                    *)

\* The managers born so far are the first k, so the next is k + 1.
LEMMA NextIsNext ==
    ASSUME NEW k \in 0 .. MaxManagers, Born(k)
    PROVE  NextManager = k + 1
<1> DEFINE IsNext(m) == \A n \in Managers : n < m <=> pc[n] # "unborn"
<1>1. k + 1 \in 1 .. MaxManagers + 1 /\ IsNext(k + 1)
  BY SessionAssumption DEF Born, Managers
<1>2. ASSUME NEW m \in 1 .. MaxManagers + 1, IsNext(m)
      PROVE  m = k + 1
  <2>1. m < k + 1 => m \in Managers /\ m < k + 1 /\ ~(m < m)
    BY SessionAssumption DEF Managers
  <2>2. m > k + 1 => k + 1 \in Managers /\ k + 1 < m /\ ~(k + 1 < k + 1)
    BY SessionAssumption DEF Managers
  <2> QED BY <1>1, <1>2, <2>1, <2>2, SessionAssumption
<1> QED BY Zenon, <1>1, <1>2 DEF NextManager

\* A manager is spawned by a call that owes nothing.
LEMMA SpawnedKept ==
    ASSUME IInv, NEW p \in Peers, NextManager \in Managers, Spawn(NextManager, p),
           control.step # "clear", control' = Idle, default' \in Peers \cup {NoPeer},
           UNCHANGED <<gen, lease, counter, igen, ipc, readied, clears>>
    PROVE  IInv'
<1>1. PICK k \in 0 .. MaxManagers : Born(k)
  BY Zenon DEF IInv, SpawnInv
<1>m. PICK m \in Managers : m = NextManager
  BY Zenon
<1>2. m = k + 1 /\ pc[m] = "unborn"
  BY <1>1, <1>m, NextIsNext, SessionAssumption DEF Born, Managers
<1>3. /\ pc' = [pc EXCEPT ![m] = "connecting"]
      /\ active' = [active EXCEPT ![p] = m]
  BY Zenon, <1>m DEF Spawn
<1>4. Idle \in Calls /\ Idle.taken = 0 /\ Idle.next = NoPeer /\ Idle.step = "idle"
  BY SessionAssumption DEF Idle, Calls, Steps, Numbers
<1>5. TypeOK'
  BY Zenon, <1>3, <1>4 DEF IInv, TypeOK, Places, Quiet
<1>6. /\ pc'[m] = "connecting"
      /\ \A n \in Managers : n # m => pc'[n] = pc[n]
  BY Zenon, <1>3 DEF IInv, TypeOK
<1>7. control.taken = 0 /\ control'.taken = 0
  BY Zenon, <1>4 DEF IInv, LeaseInv, ControlInv
<1>8. ManagerInv(m)'
  BY Zenon, <1>2, <1>3, <1>6, <1>7 DEF IInv, LeaseInv, ManagerInv, Owes, Quiet, Linked
<1>9. ASSUME NEW n \in Managers, n # m
      PROVE  ManagerInv(n)'
  BY Zenon, <1>6, <1>7, <1>9, ManagerStays DEF IInv, LeaseInv
<1>10. \A i \in InboundIds : InboundInv(i)'
  BY Zenon, <1>7, InboundStays DEF IInv, LeaseInv
<1>11. Distinct' /\ Fresh'
  BY Zenon, DistinctStays, FreshStays DEF IInv, LeaseInv
<1>12. ControlInv'
  BY Zenon, <1>4, <1>7 DEF IInv, LeaseInv, ControlInv
<1>13. HeldInv'
  <2>1. \A n \in Managers, g \in Generations : Holds(n, g) => Holds(n, g)'
    BY Zenon, <1>2, <1>6 DEF Holds
  <2> QED BY Zenon, <1>7, <2>1, HeldStays DEF IInv, LeaseInv
<1>14. SpawnInv'
  <2>1. k + 1 \in 0 .. MaxManagers
    BY <1>2, <1>3, SessionAssumption DEF Managers
  <2>2. Born(k + 1)'
    BY <1>1, <1>2, <1>6, SessionAssumption DEF Born, Managers
  <2> QED BY Zenon, <1>4, <2>1, <2>2 DEF SpawnInv
<1> QED BY Zenon, <1>5, <1>8, <1>9, <1>10, <1>11, <1>12, <1>13, <1>14 DEF IInv, LeaseInv

\* take_packet_session: a shutdown takes the lease out of the shared state, and with it
\* the announcement its manager owed.
LEMMA ShutdownTakes ==
    ASSUME IInv, NEW p \in Peers, active[p] # 0, control.step # "clear",
           lease' = [lease EXCEPT ![active[p]] = 0],
           control'.taken = lease[active[p]], control'.step = "clear",
           UNCHANGED <<pc, gen, counter, igen, ipc, readied, clears>>
    PROVE  LeaseInv'
<1>1. PICK m \in Managers : m = active[p]
  BY Zenon DEF IInv, TypeOK
<1>2. /\ lease'[m] = 0 /\ control'.taken = lease[m]
      /\ \A n \in Managers : n # m => lease'[n] = lease[n]
  BY Zenon, <1>1 DEF IInv, TypeOK
<1>3. control.taken = 0
  BY Zenon DEF IInv, LeaseInv, ControlInv
<1>4. ManagerInv(m)
  BY Zenon DEF IInv, LeaseInv
<1>5. ManagerInv(m)'
  <2>1. /\ lease'[m] \in {0, gen'[m]} /\ gen'[m] <= counter'
        /\ pc'[m] \in Quiet => lease'[m] = 0
        /\ pc'[m] \in Linked => gen'[m] # 0
        /\ pc'[m] = "unborn" => gen'[m] = 0
    BY Zenon, <1>2, <1>4 DEF ManagerInv
  <2>2. pc'[m] = "published" => \/ control'.taken = gen'[m]
                                \/ clears'["outbound"][gen'[m]] = 1
    BY Zenon, <1>2, <1>3, <1>4 DEF ManagerInv, Linked
  <2>3. Owes(m)' => control'.taken # gen'[m] /\ Uncleared(gen[m])'
    BY Zenon, <1>2, <1>4 DEF ManagerInv, Owes, Uncleared, Quiet
  <2> QED BY Zenon, <2>1, <2>2, <2>3 DEF ManagerInv
<1>6. ASSUME NEW n \in Managers, n # m
      PROVE  ManagerInv(n)'
  <2>1. gen[n] # 0 => gen[n] # lease[m]
    BY <1>1, <1>4, <1>6 DEF IInv, LeaseInv, Distinct, ManagerInv
  <2> QED BY <1>2, <1>3, <1>6, <2>1 DEF IInv, LeaseInv, ManagerInv, Owes, Uncleared, Linked
<1>7. ASSUME NEW i \in InboundIds
      PROVE  InboundInv(i)'
  <2>1. igen[i] # 0 => igen[i] # lease[m]
    BY <1>1, <1>4 DEF IInv, LeaseInv, Distinct, ManagerInv
  <2> QED BY Zenon, <1>2, <2>1 DEF IInv, LeaseInv, InboundInv
<1>8. Distinct' /\ Fresh'
  BY Zenon, DistinctStays, FreshStays DEF IInv, LeaseInv
<1>9. ControlInv'
  BY <1>1, <1>2, <1>4, SessionAssumption
  DEF IInv, TypeOK, Numbers, ControlInv, ManagerInv, Owes, Uncleared
<1>10. HeldInv'
  <2>1. \A n \in Managers, g \in Generations :
           Holds(n, g) => Holds(n, g)' \/ control'.taken = g
    BY Zenon, <1>2 DEF Holds
  <2>2. \A g \in Generations : control.taken # g
    BY <1>3 DEF Generations
  <2> QED BY Zenon, <2>1, <2>2 DEF IInv, LeaseInv, HeldInv, Outstanding
<1> QED BY Zenon, <1>5, <1>6, <1>7, <1>8, <1>9, <1>10 DEF LeaseInv

\* A call that takes no lease and owes none goes from one step to the next.
LEMMA CallKept ==
    ASSUME IInv, control.step # "clear", control' \in Calls,
           control'.taken = 0, control'.step # "clear",
           control'.step = "add" => control'.next # NoPeer,
           default' \in Peers \cup {NoPeer}, SpawnInv',
           UNCHANGED <<pc, active, gen, lease, counter, igen, ipc, readied, clears>>
    PROVE  IInv'
<1>1. control.taken = 0
  BY Zenon DEF IInv, LeaseInv, ControlInv
<1>2. TypeOK'
  BY Zenon DEF IInv, TypeOK
<1>3. (\A m \in Managers : ManagerInv(m)') /\ (\A i \in InboundIds : InboundInv(i)')
  BY Zenon, <1>1, ManagerStays, InboundStays DEF IInv, LeaseInv
<1>4. Distinct' /\ Fresh' /\ HeldInv'
  <2>1. \A n \in Managers, g \in Generations : Holds(n, g) => Holds(n, g)'
    BY Zenon DEF Holds
  <2> QED BY Zenon, <1>1, <2>1, DistinctStays, FreshStays, HeldStays DEF IInv, LeaseInv
<1>5. ControlInv'
  BY Zenon, <1>1 DEF IInv, LeaseInv, ControlInv
<1> QED BY Zenon, <1>2, <1>3, <1>4, <1>5 DEF IInv, LeaseInv

\* PerPeerSession::shutdown begins, by itself or for a replacement.
LEMMA BeginKept ==
    ASSUME IInv, NEW p \in Peers, NEW next \in Peers \cup {NoPeer}, NEW all \in BOOLEAN,
           active[p] # 0, control = Idle, BeginShutdown(p, next, all),
           next # NoPeer => p # next /\ (NextManager \in Managers \/ active[next] # 0)
    PROVE  IInv'
<1>1. /\ active' = [active EXCEPT ![p] = 0] /\ lease' = [lease EXCEPT ![active[p]] = 0]
      /\ control' = [step |-> "clear", manager |-> active[p], peer |-> p,
                     taken |-> lease[active[p]], next |-> next, all |-> all]
      /\ UNCHANGED <<pc, gen, counter, igen, ipc, readied, clears, default>>
  BY Zenon DEF BeginShutdown, taskVars, inboundVars, outputVars
<1>2. active[p] \in Managers
  BY Zenon DEF IInv, TypeOK
<1>3. control' \in Calls
  BY Zenon, <1>1, <1>2 DEF IInv, TypeOK, Calls, Steps
<1>4. TypeOK'
  BY <1>1, <1>2, <1>3, SessionAssumption DEF IInv, TypeOK, Numbers
<1>5. LeaseInv'
  BY Zenon, <1>1, ShutdownTakes DEF Idle
<1>6. SpawnInv'
  <2>1. PICK k \in 0 .. MaxManagers : Born(k)
    BY Zenon DEF IInv, SpawnInv
  <2>2. NextManager \in Managers => k < MaxManagers
    BY <2>1, NextIsNext, SessionAssumption DEF Managers
  <2>3. next # NoPeer /\ active[next] # 0 => active'[next] # 0
    BY Zenon, <1>1 DEF IInv, TypeOK
  <2> QED BY Zenon, <1>1, <2>1, <2>2, <2>3 DEF SpawnInv, Born
<1> QED BY Zenon, <1>4, <1>5, <1>6 DEF IInv

\* remove_peer, replace_default_peer and shutdown of the transport.
LEMMA CallBegins ==
    ASSUME IInv, NEW p \in Peers,
           RemovePeer(p) \/ ShutdownTransport(p) \/ ReplaceDefaultPeer(p)
    PROVE  IInv'
<1>1. CASE RemovePeer(p)
  BY Zenon, <1>1, BeginKept DEF RemovePeer
<1>2. CASE ShutdownTransport(p)
  BY Zenon, <1>2, BeginKept DEF ShutdownTransport
<1>3. CASE ReplaceDefaultPeer(p) /\ default # NoPeer /\ active[default] # 0
  <2>1. default \in Peers /\ default # p
    BY Zenon, <1>3 DEF IInv, TypeOK, ReplaceDefaultPeer
  <2> QED BY Zenon, <1>3, <2>1, BeginKept DEF ReplaceDefaultPeer
<1>4. CASE ReplaceDefaultPeer(p) /\ ~(default # NoPeer /\ active[default] # 0)
  <2>1. /\ control = Idle
        /\ control' = [Idle EXCEPT !.step = "default", !.peer = default, !.next = p]
        /\ NextManager \in Managers \/ active[p] # 0
        /\ UNCHANGED <<pc, active, default, gen, lease, counter, igen, ipc, readied, clears>>
    BY Zenon, <1>4 DEF ReplaceDefaultPeer, taskVars, sharedVars, inboundVars, outputVars
  <2>2. /\ control' \in Calls /\ control'.taken = 0 /\ control'.step = "default"
        /\ control'.next = p
    BY Zenon, <2>1, SessionAssumption DEF Idle, Calls, Steps, Numbers, IInv, TypeOK
  <2>3. SpawnInv'
    <3>1. PICK k \in 0 .. MaxManagers : Born(k)
      BY Zenon DEF IInv, SpawnInv
    <3>2. NextManager \in Managers => k < MaxManagers
      BY <3>1, NextIsNext, SessionAssumption DEF Managers
    <3> QED BY Zenon, <2>1, <2>2, <3>1, <3>2 DEF SpawnInv, Born
  <2>4. default' \in Peers \cup {NoPeer}
    BY Zenon, <2>1 DEF IInv, TypeOK
  <2> QED BY Zenon, <2>1, <2>2, <2>3, <2>4, CallKept DEF Idle
<1> QED BY Zenon, <1>1, <1>2, <1>3, <1>4

\* The shutdown announces the end of the lease it took, and owes nothing more.
LEMMA ShutdownClearsKept ==
    ASSUME IInv, ShutdownClears
    PROVE  IInv'
<1> DEFINE g == control.taken
<1>1. /\ control' = [control EXCEPT !.step = "stop", !.taken = 0]
      /\ control.step = "clear"
      /\ UNCHANGED <<pc, active, default, gen, lease, counter, igen, ipc>>
  BY Zenon DEF ShutdownClears, taskVars, sharedVars, inboundVars
<1>2. /\ control' \in Calls /\ control'.taken = 0 /\ control'.step = "stop"
      /\ control'.next = control.next
  <2>1. control \in Calls /\ 0 \in Numbers /\ "stop" \in Steps
    BY SessionAssumption DEF IInv, TypeOK, Steps, Numbers
  <2> QED BY Zenon, <1>1, <2>1 DEF Calls
<1>3. SpawnInv'
  BY Zenon, <1>1, <1>2, SpawnKept DEF IInv
<1>4. CASE g = 0
  <2>1. UNCHANGED <<readied, clears>>
    BY Zenon, <1>4 DEF ShutdownClears, outputVars
  <2>2. TypeOK'
    BY Zenon, <1>1, <1>2, <2>1 DEF IInv, TypeOK
  <2>3. (\A m \in Managers : ManagerInv(m)') /\ (\A i \in InboundIds : InboundInv(i)')
    BY Zenon, <1>1, <1>2, <1>4, <2>1, ManagerStays, InboundStays DEF IInv, LeaseInv
  <2>4. Distinct' /\ Fresh' /\ HeldInv'
    <3>1. \A n \in Managers, h \in Generations : Holds(n, h) => Holds(n, h)'
      BY Zenon, <1>1 DEF Holds
    <3> QED BY Zenon, <1>1, <1>2, <1>4, <2>1, <3>1, DistinctStays, FreshStays, HeldStays
            DEF IInv, LeaseInv
  <2>5. ControlInv'
    BY <1>1, <1>2, SessionAssumption DEF IInv, TypeOK, Numbers, ControlInv
  <2> QED BY Zenon, <1>3, <2>2, <2>3, <2>4, <2>5 DEF IInv, LeaseInv
<1>5. CASE g # 0
  <2>1. PICK h \in Generations : h = g /\ h <= counter /\ Uncleared(h)
    BY <1>5, SessionAssumption
    DEF IInv, TypeOK, Calls, Numbers, Generations, LeaseInv, ControlInv
  <2>2. SendCleared(h, Directions)
    BY Zenon, <1>5, <2>1 DEF ShutdownClears
  <2>3. /\ clears' \in [Directions -> [Generations -> {0, 1}]]
        /\ \A d \in Directions, k \in Generations :
              clears'[d][k] = IF d \in Directions /\ k = h THEN 1 ELSE clears[d][k]
        /\ readied' = readied
    BY Zenon, <2>1, <2>2, ClearedOnce DEF IInv, Uncleared
  <2>4. "outbound" \in Directions /\ "inbound" \in Directions
    BY Zenon DEF Directions
  <2>5. \A k \in Generations : k # h => \A d \in Directions : clears'[d][k] = clears[d][k]
    BY Zenon, <2>3
  <2>6. TypeOK'
    BY Zenon, <1>1, <1>2, <2>3 DEF IInv, TypeOK
  <2>7. ASSUME NEW n \in Managers
        PROVE  ManagerInv(n)'
    <3>1. gen[n] # 0 => gen[n] \in Generations
      BY SessionAssumption DEF IInv, TypeOK, Numbers, Generations
    <3>2. Owes(n) => gen[n] # h
      BY Zenon, <2>1 DEF IInv, LeaseInv, ManagerInv
    <3>3. gen[n] = h => clears'["outbound"][gen[n]] = 1
      BY Zenon, <2>3, <2>4
    <3> QED BY <1>1, <1>2, <2>1, <2>4, <2>5, <3>1, <3>2, <3>3
            DEF IInv, LeaseInv, ManagerInv, Owes, Uncleared, Linked
  <2>8. ASSUME NEW i \in InboundIds
        PROVE  InboundInv(i)'
    <3>1. igen[i] # 0 => igen[i] \in Generations /\ igen[i] # h
      BY <2>1, SessionAssumption DEF IInv, TypeOK, Numbers, Generations, LeaseInv, InboundInv
    <3> QED BY Zenon, <1>1, <1>2, <2>4, <2>5, <3>1 DEF IInv, LeaseInv, InboundInv
  <2>9. Distinct'
    BY Zenon, <1>1, DistinctStays DEF IInv, LeaseInv
  <2>10. ControlInv'
    BY <1>1, <1>2, SessionAssumption DEF IInv, TypeOK, Numbers, ControlInv
  <2>11. Fresh'
    <3>1. \A k \in Generations : k > counter => k # h
      BY <2>1, SessionAssumption DEF IInv, TypeOK, Numbers, Generations
    <3> QED BY Zenon, <1>1, <2>3, <2>5, <3>1 DEF IInv, LeaseInv, Fresh
  <2>12. HeldInv'
    <3>1. \A k \in Generations : Outstanding("outbound", k)' =>
             k # h /\ Outstanding("outbound", k)
      BY <2>3, <2>4 DEF Outstanding
    <3> QED BY Zenon, <1>1, <2>1, <3>1 DEF IInv, LeaseInv, HeldInv, Holds
  <2> QED BY Zenon, <1>3, <2>6, <2>7, <2>8, <2>9, <2>10, <2>11, <2>12 DEF IInv, LeaseInv
<1> QED BY Zenon, <1>4, <1>5

\* Moving a call on changes its step only.
LEMMA StepOfCall ==
    ASSUME NEW c \in Calls, NEW s \in Steps
    PROVE  LET d == [c EXCEPT !.step = s] IN
           d \in Calls /\ d.step = s /\ d.taken = c.taken /\ d.next = c.next
BY Zenon DEF Calls

\* A call that is over owes nothing.
LEMMA IdleCall ==
    Idle \in Calls /\ Idle.taken = 0 /\ Idle.next = NoPeer /\ Idle.step = "idle"
BY SessionAssumption DEF Idle, Calls, Steps, Numbers

\* The steps of a call after its announcement.
LEMMA CallGoesOn ==
    ASSUME IInv, ShutdownStops \/ ReassignDefault
    PROVE  IInv'
<1> USE DEF taskVars, sharedVars, inboundVars, outputVars
<1>1. control \in Calls
  BY Zenon DEF IInv, TypeOK
<1>2. control.step # "clear" /\ control.taken = 0
  BY Zenon DEF IInv, LeaseInv, ControlInv, ShutdownStops, ReassignDefault
<1>3. UNCHANGED <<pc, active, gen, lease, counter, igen, ipc, readied, clears>>
  BY Zenon DEF ShutdownStops, ReassignDefault
<1>4. default' \in Peers \cup {NoPeer}
  BY Zenon DEF ShutdownStops, ReassignDefault, IInv, TypeOK
<1>5. /\ control' \in Calls /\ control'.taken = 0 /\ control'.step # "clear"
      /\ control'.step = "add" => control'.next # NoPeer
      /\ control'.next = NoPeer \/ control'.next = control.next
  <2>1. CASE ShutdownStops
    BY Zenon, <1>1, <1>2, <2>1, StepOfCall DEF ShutdownStops, Steps
  <2>2. CASE ReassignDefault /\ control.next = NoPeer
    <3>1. control' = Idle
      BY Zenon, <2>2 DEF ReassignDefault
    <3> QED BY Zenon, <3>1, IdleCall
  <2>3. CASE ReassignDefault /\ control.next # NoPeer
    <3>1. control' = [control EXCEPT !.step = "add"]
      BY Zenon, <2>3 DEF ReassignDefault
    <3>2. "add" \in Steps
      BY Zenon DEF Steps
    <3> QED BY Zenon, <1>1, <1>2, <2>3, <3>1, <3>2, StepOfCall
  <2> QED BY Zenon, <2>1, <2>2, <2>3
<1>6. SpawnInv'
  BY Zenon, <1>3, <1>5, SpawnKept DEF IInv
<1> QED BY Zenon, <1>2, <1>3, <1>4, <1>5, <1>6, CallKept

\* abort: the call is over, or the drain takes the lease of the next session.
LEMMA AbortsKept ==
    ASSUME IInv, ShutdownAborts
    PROVE  IInv'
<1> USE DEF taskVars, inboundVars, outputVars
<1>1. control \in Calls
  BY Zenon DEF IInv, TypeOK
<1>2. control.step = "abort" /\ control.taken = 0
  BY Zenon DEF IInv, LeaseInv, ControlInv, ShutdownAborts
<1>3. UNCHANGED <<pc, gen, counter, igen, ipc, readied, clears, default>>
  BY Zenon DEF ShutdownAborts
<1>4. default' \in Peers \cup {NoPeer}
  BY Zenon, <1>3 DEF IInv, TypeOK
<1>5. CASE UNCHANGED <<active, lease>> /\ control' \in {Idle, [control EXCEPT !.step = "default"]}
  <2>1. /\ control' \in Calls /\ control'.taken = 0 /\ control'.step \in {"idle", "default"}
        /\ control'.next = NoPeer \/ control'.next = control.next
    <3>1. CASE control' = Idle
      BY Zenon, <3>1, IdleCall
    <3>2. CASE control' = [control EXCEPT !.step = "default"]
      BY Zenon, <1>1, <1>2, <3>2, StepOfCall DEF Steps
    <3> QED BY Zenon, <1>5, <3>1, <3>2
  <2>2. SpawnInv'
    BY Zenon, <1>3, <1>5, <2>1, SpawnKept DEF IInv
  <2> QED BY Zenon, <1>2, <1>3, <1>4, <1>5, <2>1, <2>2, CallKept
<1>6. ASSUME NEW q \in Peers, active[q] # 0,
             active' = [active EXCEPT ![q] = 0],
             lease' = [lease EXCEPT ![active[q]] = 0],
             control' = [step |-> "clear", manager |-> active[q], peer |-> q,
                         taken |-> lease[active[q]], next |-> NoPeer, all |-> TRUE]
      PROVE  IInv'
  <2>1. active[q] \in Managers
    BY Zenon, <1>6 DEF IInv, TypeOK
  <2>2. control' \in Calls
    BY Zenon, <1>6, <2>1 DEF IInv, TypeOK, Calls, Steps
  <2>3. TypeOK'
    BY <1>3, <1>6, <2>1, <2>2, SessionAssumption DEF IInv, TypeOK, Numbers
  <2>4. LeaseInv'
    BY Zenon, <1>2, <1>3, <1>6, ShutdownTakes
  <2>5. SpawnInv'
    BY Zenon, <1>3, <1>6, SpawnKept DEF IInv
  <2> QED BY Zenon, <2>3, <2>4, <2>5 DEF IInv
<1> QED BY Zenon, <1>5, <1>6 DEF ShutdownAborts

\* The last step of replace_default_peer.
LEMMA ReplacementKept ==
    ASSUME IInv, AddReplacement
    PROVE  IInv'
<1> USE DEF sharedVars, inboundVars, outputVars
<1>1. /\ control.step = "add" /\ control' = Idle /\ default' = control.next
      /\ UNCHANGED <<gen, lease, counter, igen, ipc, readied, clears>>
  BY Zenon DEF AddReplacement
<1>2. control.next \in Peers
  BY Zenon, <1>1 DEF IInv, TypeOK, Calls, LeaseInv, ControlInv
<1>3. CASE active[control.next] = 0
  <2>1. NextManager \in Managers
    <3>1. PICK k \in 0 .. MaxManagers : Born(k) /\ k < MaxManagers
      BY Zenon, <1>2, <1>3, SessionAssumption DEF IInv, SpawnInv
    <3> QED BY <3>1, NextIsNext, SessionAssumption DEF Managers
  <2>2. Spawn(NextManager, control.next)
    BY Zenon, <1>3 DEF AddReplacement
  <2> QED BY Zenon, <1>1, <1>2, <2>1, <2>2, SpawnedKept
<1>4. CASE active[control.next] # 0
  <2>1. UNCHANGED <<pc, active>>
    BY Zenon, <1>4 DEF AddReplacement
  <2>2. SpawnInv'
    BY Zenon, <1>1, <2>1, IdleCall, SpawnKept DEF IInv
  <2> QED BY Zenon, <1>1, <1>2, <2>1, <2>2, IdleCall, CallKept
<1> QED BY Zenon, <1>3, <1>4

-----------------------------------------------------------------------------
(* The theorems.                                                            *)

\* Every step of a session manager keeps the invariant.
LEMMA ManagerStepKept ==
    ASSUME IInv, NEW m \in Managers, ManagerStep(m)
    PROVE  IInv'
<1>1. CASE MovingStep(m)
  BY Zenon, <1>1, MovingKept
<1>2. ASSUME NEW relay \in BOOLEAN, ConnectSucceeds(m, relay)
      PROVE  IInv'
  <2>1. CASE ~GenerationsExhausted
    BY Zenon, <1>2, <2>1, DrawKept
  <2>2. CASE GenerationsExhausted
    <3>1. /\ pc[m] = "connecting" /\ pc' = [pc EXCEPT ![m] = "gone"]
          /\ UNCHANGED leaseVars /\ UNCHANGED <<active, default>>
      BY Zenon, <1>2, <2>2
      DEF ConnectSucceeds, At, leaseVars, handleVars, inboundVars, outputVars
    <3>2. LeaseInv'
      BY Zenon, <3>1, MoveKept DEF IInv, Places, Quiet, Linked
    <3>3. TypeOK'
      BY Zenon, <3>1 DEF IInv, TypeOK, leaseVars, Places
    <3>4. SpawnInv'
      BY Zenon, <3>1, SpawnKept DEF IInv, TypeOK, leaseVars
    <3> QED BY Zenon, <3>2, <3>3, <3>4 DEF IInv
  <2> QED BY Zenon, <2>1, <2>2
<1>3. CASE LeaseExpires(m)
  BY Zenon, <1>3, UntouchedKept
  DEF LeaseExpires, leaseVars, taskVars, handleVars, inboundVars, outputVars
<1> QED BY Zenon, <1>1, <1>2, <1>3, PublishKept, AnnounceKept, TakeKept, AnnounceClearedKept
        DEF ManagerStep, RunningStep, MovingStep

\* So does every step of the system.
LEMMA Inductive == IInv /\ [Next]_vars => IInv'
<1> SUFFICES ASSUME IInv, [Next]_vars PROVE IInv'
  BY Zenon
<1> USE DEF leaseVars, taskVars, sharedVars, handleVars, inboundVars, outputVars
<1>1. ASSUME NEW m \in Managers, ManagerStep(m) PROVE IInv'
  BY Zenon, <1>1, ManagerStepKept
<1>2. ASSUME NEW i \in InboundIds, InboundStep(i) PROVE IInv'
  BY Zenon, <1>2, GrantKept, InboundMovesKept, InboundAnnouncedKept, InboundClosesKept
  DEF InboundStep, InboundMoves
<1>3. ASSUME NEW p \in Peers, AddPeer(p) PROVE IInv'
  <2>1. /\ NextManager \in Managers /\ Spawn(NextManager, p)
        /\ control = Idle /\ control' = Idle /\ default' = default
        /\ UNCHANGED <<gen, lease, counter, igen, ipc, readied, clears>>
    BY Zenon, <1>3 DEF AddPeer
  <2>2. default \in Peers \cup {NoPeer}
    BY Zenon DEF IInv, TypeOK
  <2> QED BY Zenon, <2>1, <2>2, IdleCall, SpawnedKept
<1>4. ASSUME NEW e \in NetworkEvents, NetworkEvent(e) PROVE IInv'
  BY Zenon, <1>4, UntouchedKept DEF NetworkEvent
<1>5. CASE HandleStep
  BY Zenon, <1>3, <1>4, <1>5, CallBegins, ShutdownClearsKept, CallGoesOn, AbortsKept,
     ReplacementKept DEF HandleStep, ShutdownStep
<1>6. CASE TakeFrame
  BY Zenon, <1>6, UntouchedKept DEF TakeFrame
<1>7. CASE UNCHANGED vars
  BY Zenon, <1>7, UntouchedKept DEF vars
<1> QED BY Zenon, <1>1, <1>2, <1>5, <1>6, <1>7 DEF Next

\* Every variable the events depend on keeps its type; a call of the handle, for one,
\* never shuts down a manager that does not exist.
THEOREM TypeCorrect == Spec => []TypeOK
<1>1. IInv => TypeOK
  BY Zenon DEF IInv
<1> QED BY <1>1, InitHolds, Inductive, PTL DEF Spec

\* The end of a link and a shutdown of the peer race for the lease in the shared state.
\* Whoever takes it announces its end, the other does not: no generation is announced
\* Cleared twice in a direction.
THEOREM ClearedOnceOnly == Spec => []ClearedAtMostOnce
<1>1. IInv => ClearedAtMostOnce
  BY DEF IInv, TypeOK, ClearedAtMostOnce
<1> QED BY <1>1, InitHolds, Inductive, PTL DEF Spec

\* A session that the pumps were told of and not told the end of is still the published
\* lease of its manager, or one whose end a task or a shutdown is about to announce.
THEOREM LeasesAreHeld == Spec => []OutstandingLeaseIsHeld
<1>1. IInv => OutstandingLeaseIsHeld
  BY Zenon DEF IInv, LeaseInv, HeldInv, Holds, OutstandingLeaseIsHeld
<1> QED BY <1>1, InitHolds, Inductive, PTL DEF Spec

\* Managers and inbound tasks draw from one counter, and never the same generation.
THEOREM GenerationsAreDistinct == Spec => []Distinct
<1>1. IInv => Distinct
  BY Zenon DEF IInv, LeaseInv
<1> QED BY <1>1, InitHolds, Inductive, PTL DEF Spec
=============================================================================

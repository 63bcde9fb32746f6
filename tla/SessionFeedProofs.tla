-------------------------- MODULE SessionFeedProofs --------------------------
(***************************************************************************)
(* The transport of a host that only replaces its default peer implements  *)
(* SessionFeed, for any number of peers, managers, inbound tasks and       *)
(* generations.                                                            *)
(*                                                                         *)
(* What has to be shown of every step is that the lease a caller sees is   *)
(* never older than one that was announced.  Managers overlap: the one     *)
(* that was replaced may still publish and announce after its successor.   *)
(* But it has been aborted before the successor is spawned, so it draws no *)
(* generation any more, and generations are ordered as the managers are.   *)
(***************************************************************************)
EXTENDS MCPacketSessions, PacketSessionsProofs

\* The types of what only the feed depends on.
FeedTypes ==
    /\ peerOf \in [Managers -> Peers] /\ ipeer \in [InboundIds -> Peers]
    /\ relayed \in [Managers -> BOOLEAN]
    /\ expired \in [Managers -> BOOLEAN]
    /\ aborted \in [Managers -> BOOLEAN]
    /\ frames \in Seq([peer : Peers, gen : Generations])

\* Manager k is the last one spawned.  The ones before it have been aborted.  It
\* serves the default peer, the only one that is managed, unless it is being replaced.
Serving(k) ==
    /\ Born(k)
    /\ \A m \in Managers : m < k => aborted[m]
    /\ control.step = "idle" =>
          /\ default \in Peers
          /\ active = [p \in Peers |-> IF p = default THEN k ELSE 0]
    /\ control.step # "idle" =>
          /\ active = [p \in Peers |-> 0]
          /\ ~control.all /\ control.next \in Peers
    /\ control.step \in {"clear", "stop", "abort"} => control.manager = k
    /\ control.step \in {"default", "add"} => aborted[k]

\* Later managers have later generations, and nothing is announced outbound but what
\* a manager has drawn.
Ordered ==
    /\ \A m, n \in Managers : m < n /\ gen[n] # 0 => gen[m] < gen[n]
    /\ \A g \in Generations : <<"outbound", g>> \in readied => \E m \in Managers : g <= gen[m]

\* A link is announced once, and before it delivers frames.
AnnouncedInv(m) ==
    /\ pc[m] \in {"connected", "published"} =>
          \A d \in Directions : <<d, gen[m]>> \notin readied
    /\ pc[m] \in {"announced", "polling", "linked", "delivering"} /\ relayed[m] =>
          <<"inbound", gen[m]>> \in readied
    /\ pc[m] = "delivering" => relayed[m]

InboundAnnouncedInv(i) ==
    /\ ipc[i] = "granted" => <<"inbound", igen[i]>> \notin readied
    /\ ipc[i] \in {"open", "delivering"} => <<"inbound", igen[i]>> \in readied

FeedInv ==
    /\ FeedTypes /\ Ordered
    /\ \E k \in Managers : Serving(k)
    /\ \A m \in Managers : AnnouncedInv(m)
    /\ \A i \in InboundIds : InboundAnnouncedInv(i)

\* A host that only replaces takes steps of the transport.
LEMMA ReplaceIsNext == [ReplaceOnly]_vars => [Next]_vars
BY Zenon DEF ReplaceOnly, Next, HandleStep

\* The transport is created with one manager, for the default peer.
LEMMA FeedInitHolds == Init => FeedInv
<1> SUFFICES ASSUME Init PROVE FeedInv
  BY Zenon
<1>1. FeedTypes
  BY DEF Init, FeedTypes
<1>2. Ordered
  BY DEF Init, Ordered
<1>3. Serving(1) /\ 1 \in Managers
  BY SessionAssumption DEF Init, Serving, Born, Managers, Idle
<1>4. (\A m \in Managers : AnnouncedInv(m)) /\ (\A i \in InboundIds : InboundAnnouncedInv(i))
  BY DEF Init, AnnouncedInv, InboundAnnouncedInv
<1> QED BY Zenon, <1>1, <1>2, <1>3, <1>4 DEF FeedInv

-----------------------------------------------------------------------------
(* Steps of a session manager.                                              *)

\* A manager changes nothing of the handle, the responder or other managers.
LEMMA ManagerFrame ==
    ASSUME IInv, FeedTypes, NEW m \in Managers, ManagerStep(m)
    PROVE  /\ UNCHANGED <<peerOf, aborted, active, default, control, ipc, ipeer, igen>>
           /\ pc[m] # "unborn" /\ pc'[m] # "unborn"
           /\ \A n \in Managers : n # m =>
                 /\ pc'[n] = pc[n] /\ gen'[n] = gen[n] /\ relayed'[n] = relayed[n]
                 /\ lease'[n] = lease[n] /\ expired'[n] = expired[n]
<1> USE DEF taskVars, sharedVars, signalVars, handleVars, inboundVars, outputVars, At
<1>1. pc \in [Managers -> Places] /\ gen \in [Managers -> Numbers]
      /\ lease \in [Managers -> Numbers] /\ (lease[m] # 0 => pc[m] # "unborn")
  BY Zenon DEF IInv, TypeOK, LeaseInv, ManagerInv, Quiet
<1>2. CASE ConnectFails(m) \/ BackoffElapses(m) \/ BackoffEvent(m) \/ BackoffStop(m)
  BY Zenon, <1>1, <1>2
  DEF ConnectFails, BackoffElapses, BackoffEvent, BackoffStop, Reconnecting
<1>3. CASE \E relay \in BOOLEAN : ConnectSucceeds(m, relay)
  BY <1>1, <1>3 DEF ConnectSucceeds, FeedTypes
<1>4. CASE Publish(m) \/ Announce(m) \/ MarkReady(m) \/ Park(m)
  BY Zenon, <1>1, <1>4 DEF Publish, Announce, MarkReady, Park, FeedTypes
<1>5. CASE LinkSend(m) \/ LinkFails(m) \/ LinkReceive(m) \/ Deliver(m)
  BY Zenon, <1>1, <1>5
  DEF LinkSend, LinkFails, LinkReceive, Deliver, Selecting, CountFrame, Leave
<1>6. CASE LinkEvent(m) \/ LinkStop(m) \/ Rotate(m)
  BY Zenon, <1>1, <1>6 DEF LinkEvent, LinkStop, Rotate, Selecting, Leave
<1>7. CASE ClearLease(m) \/ AnnounceCleared(m) \/ CloseLink(m)
  BY Zenon, <1>1, <1>7 DEF ClearLease, AnnounceCleared, CloseLink, Reconnecting, FeedTypes
<1>8. CASE Cancelled(m) \/ LeaseExpires(m)
  BY Zenon, <1>1, <1>8 DEF Cancelled, Parked, LeaseExpires, FeedTypes
<1> QED BY Zenon, <1>2, <1>3, <1>4, <1>5, <1>6, <1>7, <1>8 DEF ManagerStep, RunningStep

\* What draws and what announces: nothing else of a manager touches counter and events.
LEMMA ManagerOutput ==
    ASSUME NEW m \in Managers, ManagerStep(m)
    PROVE  /\ \/ UNCHANGED <<gen, counter>>
              \/ \E relay \in BOOLEAN : ConnectSucceeds(m, relay) /\ ~GenerationsExhausted
           /\ readied' = readied \/ Announce(m)
           /\ frames' = frames \/ Deliver(m)
<1> USE DEF taskVars, sharedVars, signalVars, handleVars, inboundVars, outputVars
<1>1. CASE ConnectFails(m) \/ BackoffElapses(m) \/ BackoffEvent(m) \/ BackoffStop(m)
  BY Zenon, <1>1 DEF ConnectFails, BackoffElapses, BackoffEvent, BackoffStop
<1>2. CASE \E relay \in BOOLEAN : ConnectSucceeds(m, relay)
  BY Zenon, <1>2 DEF ConnectSucceeds
<1>3. CASE Publish(m) \/ Announce(m) \/ MarkReady(m) \/ Park(m)
  BY Zenon, <1>3 DEF Publish, Announce, MarkReady, Park
<1>4. CASE LinkSend(m) \/ LinkFails(m) \/ LinkReceive(m) \/ Deliver(m)
  BY Zenon, <1>4 DEF LinkSend, LinkFails, LinkReceive, Deliver
<1>5. CASE LinkEvent(m) \/ LinkStop(m) \/ Rotate(m)
  BY Zenon, <1>5 DEF LinkEvent, LinkStop, Rotate
<1>6. CASE ClearLease(m) \/ AnnounceCleared(m) \/ CloseLink(m)
  BY Zenon, <1>6 DEF ClearLease, AnnounceCleared, CloseLink, SendCleared
<1>7. CASE Cancelled(m) \/ LeaseExpires(m)
  BY Zenon, <1>7 DEF Cancelled, LeaseExpires
<1> QED BY Zenon, <1>1, <1>2, <1>3, <1>4, <1>5, <1>6, <1>7 DEF ManagerStep, RunningStep

\* Where the link of a manager has been announced.
OnLink == {"announced", "polling", "linked", "delivering"}

\* How a manager comes to a place where the announcement matters.
LEMMA ManagerPlaces ==
    ASSUME IInv, FeedTypes, NEW m \in Managers, ManagerStep(m)
    PROVE  /\ pc'[m] = "connected" => pc[m] = "connected" \/ gen'[m] = counter + 1
           /\ pc'[m] = "published" => pc[m] \in {"connected", "published"}
           /\ pc'[m] \in OnLink => /\ pc[m] \in OnLink \/ Announce(m)
                                   /\ relayed'[m] = relayed[m]
           /\ pc'[m] = "delivering" => relayed'[m] \/ pc[m] = "delivering"
<1> USE DEF OnLink, taskVars, sharedVars, signalVars, handleVars, inboundVars, outputVars, At
<1>1. pc \in [Managers -> Places] /\ gen \in [Managers -> Numbers]
      /\ relayed \in [Managers -> BOOLEAN]
  BY Zenon DEF IInv, TypeOK, FeedTypes
<1>2. CASE ConnectFails(m) \/ BackoffElapses(m) \/ BackoffEvent(m) \/ BackoffStop(m)
  BY Zenon, <1>1, <1>2
  DEF ConnectFails, BackoffElapses, BackoffEvent, BackoffStop, Reconnecting
<1>3. CASE \E relay \in BOOLEAN : ConnectSucceeds(m, relay)
  BY <1>1, <1>3 DEF ConnectSucceeds
<1>4. CASE Publish(m) \/ Announce(m) \/ MarkReady(m) \/ Park(m)
  BY Zenon, <1>1, <1>4 DEF Publish, Announce, MarkReady, Park
<1>5. CASE LinkSend(m) \/ LinkFails(m) \/ LinkReceive(m) \/ Deliver(m)
  BY Zenon, <1>1, <1>5
  DEF LinkSend, LinkFails, LinkReceive, Deliver, Selecting, CountFrame, Leave
<1>6. CASE LinkEvent(m) \/ LinkStop(m) \/ Rotate(m)
  BY Zenon, <1>1, <1>6 DEF LinkEvent, LinkStop, Rotate, Selecting, Leave
<1>7. CASE ClearLease(m) \/ AnnounceCleared(m) \/ CloseLink(m)
  BY Zenon, <1>1, <1>7 DEF ClearLease, AnnounceCleared, CloseLink, Reconnecting
<1>8. CASE Cancelled(m) \/ LeaseExpires(m)
  BY Zenon, <1>1, <1>8 DEF Cancelled, Parked, LeaseExpires
<1> QED BY Zenon, <1>2, <1>3, <1>4, <1>5, <1>6, <1>7, <1>8 DEF ManagerStep, RunningStep

\* The managers' own variables keep their types.
LEMMA ManagerTypes ==
    ASSUME IInv, FeedTypes, NEW m \in Managers, ManagerStep(m)
    PROVE  FeedTypes'
<1> USE DEF taskVars, sharedVars, signalVars, handleVars, inboundVars, outputVars, FeedTypes
<1>1. UNCHANGED <<peerOf, ipeer, aborted>>
  BY Zenon, ManagerFrame
<1>2. relayed' \in [Managers -> BOOLEAN] /\ expired' \in [Managers -> BOOLEAN]
  <2>1. CASE ConnectFails(m) \/ BackoffElapses(m) \/ BackoffEvent(m) \/ BackoffStop(m)
    BY Zenon, <2>1 DEF ConnectFails, BackoffElapses, BackoffEvent, BackoffStop
  <2>2. CASE \E relay \in BOOLEAN : ConnectSucceeds(m, relay)
    BY Zenon, <2>2 DEF ConnectSucceeds
  <2>3. CASE Publish(m) \/ Announce(m) \/ MarkReady(m) \/ Park(m)
    BY Zenon, <2>3 DEF Publish, Announce, MarkReady, Park
  <2>4. CASE LinkSend(m) \/ LinkFails(m) \/ LinkReceive(m) \/ Deliver(m)
    BY Zenon, <2>4 DEF LinkSend, LinkFails, LinkReceive, Deliver
  <2>5. CASE LinkEvent(m) \/ LinkStop(m) \/ Rotate(m)
    BY Zenon, <2>5 DEF LinkEvent, LinkStop, Rotate
  <2>6. CASE ClearLease(m) \/ AnnounceCleared(m) \/ CloseLink(m)
    BY Zenon, <2>6 DEF ClearLease, AnnounceCleared, CloseLink
  <2>7. CASE Cancelled(m) \/ LeaseExpires(m)
    BY Zenon, <2>7 DEF Cancelled, LeaseExpires
  <2> QED BY Zenon, <2>1, <2>2, <2>3, <2>4, <2>5, <2>6, <2>7 DEF ManagerStep, RunningStep
<1>3. frames' \in Seq([peer : Peers, gen : Generations])
  <2>1. CASE frames' = frames
    BY Zenon, <2>1
  <2>2. CASE Deliver(m)
    <3>1. gen[m] \in Generations
      BY <2>2, SessionAssumption
      DEF Deliver, At, IInv, TypeOK, LeaseInv, ManagerInv, Linked, Numbers, Generations
    <3>2. [peer |-> peerOf[m], gen |-> gen[m]] \in [peer : Peers, gen : Generations]
      BY Zenon, <3>1
    <3> QED BY <2>2, <3>2 DEF Deliver
  <2> QED BY Zenon, <2>1, <2>2, ManagerOutput
<1> QED BY Zenon, <1>1, <1>2, <1>3

\* A manager that draws has not been aborted, so it is the last one.
LEMMA ManagerOrdered ==
    ASSUME IInv, FeedInv, NEW m \in Managers, ManagerStep(m)
    PROVE  Ordered'
<1> USE SessionAssumption
<1>1. /\ \A n \in Managers : gen[n] \in Nat /\ gen[n] <= counter
      /\ counter \in Nat
  BY DEF IInv, TypeOK, Numbers, LeaseInv, ManagerInv
<1>2. Ordered /\ FeedTypes
  BY Zenon DEF FeedInv
<1>3. CASE UNCHANGED <<gen, counter>>
  <2>1. CASE readied' = readied
    BY Zenon, <1>2, <1>3, <2>1 DEF Ordered
  <2>2. CASE Announce(m)
    <3>1. readied' = readied \cup (DirectionsOf(m) \X {gen[m]})
      BY Zenon, <2>2 DEF Announce, SendReady
    <3>2. \A g \in Generations : <<"outbound", g>> \in readied' =>
             <<"outbound", g>> \in readied \/ g = gen[m]
      BY Zenon, <3>1
    <3> QED BY <1>1, <1>2, <1>3, <3>2 DEF Ordered
  <2> QED BY Zenon, <2>1, <2>2, ManagerOutput
<1>4. ASSUME NEW relay \in BOOLEAN, ConnectSucceeds(m, relay), ~GenerationsExhausted
      PROVE  Ordered'
  <2>1. /\ gen' = [gen EXCEPT ![m] = counter + 1] /\ readied' = readied
        /\ pc[m] = "connecting" /\ ~aborted[m]
    BY Zenon, <1>4 DEF ConnectSucceeds, At, outputVars
  <2>2. PICK k \in Managers : Serving(k)
    BY Zenon DEF FeedInv
  <2>3. m = k
    BY <2>1, <2>2 DEF Serving, Born, Managers
  <2>4. \A n \in Managers : n > m => gen[n] = 0
    BY <2>2, <2>3 DEF Serving, Born, IInv, LeaseInv, ManagerInv, Managers
  <2>5. gen'[m] = counter + 1 /\ \A n \in Managers : n # m => gen'[n] = gen[n]
    BY Zenon, <2>1 DEF IInv, TypeOK
  <2>6. \A i, n \in Managers : i < n /\ gen'[n] # 0 => gen'[i] < gen'[n]
    BY <1>1, <1>2, <2>4, <2>5 DEF Ordered, Managers
  <2>7. \A n \in Managers : gen[n] <= gen'[n]
    BY <1>1, <2>5
  <2>8. \A g \in Generations : <<"outbound", g>> \in readied =>
           \E n \in Managers : g <= gen'[n]
    <3> SUFFICES ASSUME NEW g \in Generations, <<"outbound", g>> \in readied
                 PROVE  \E n \in Managers : g <= gen'[n]
      BY Zenon
    <3>1. PICK n \in Managers : g <= gen[n]
      BY Zenon, <1>2 DEF Ordered
    <3>2. g <= gen'[n]
      BY <1>1, <2>5, <2>7, <3>1 DEF Generations
    <3> QED BY Zenon, <3>2
  <2> QED BY Zenon, <2>1, <2>6, <2>8 DEF Ordered
<1> QED BY Zenon, <1>3, <1>4, ManagerOutput

\* A link is announced once, in the directions it carries, before frames of it are delivered.
LEMMA ManagerAnnounced ==
    ASSUME IInv, FeedInv, NEW m \in Managers, ManagerStep(m)
    PROVE  /\ \A n \in Managers : AnnouncedInv(n)'
           /\ \A i \in InboundIds : InboundAnnouncedInv(i)'
<1>1. FeedTypes /\ (\A n \in Managers : AnnouncedInv(n))
      /\ (\A i \in InboundIds : InboundAnnouncedInv(i))
  BY Zenon DEF FeedInv
<1>2. Announce(m) => /\ readied' = readied \cup (DirectionsOf(m) \X {gen[m]})
                     /\ gen[m] # 0 /\ pc'[m] = "announced" /\ UNCHANGED <<gen, relayed>>
  BY Zenon DEF Announce, SendReady, IInv, TypeOK, LeaseInv, ManagerInv, Linked
<1>3. readied' = readied \/ Announce(m)
  BY Zenon, ManagerOutput
<1>4. /\ UNCHANGED <<ipc, igen>>
      /\ \A n \in Managers : n # m =>
            pc'[n] = pc[n] /\ gen'[n] = gen[n] /\ relayed'[n] = relayed[n]
  BY Zenon, <1>1, ManagerFrame
<1>5. ASSUME NEW n \in Managers, n # m
      PROVE  AnnouncedInv(n)'
  <2>1. pc[n] \in Linked => \A d \in Directions : <<d, gen[n]>> \in readied' =>
           <<d, gen[n]>> \in readied
    BY <1>2, <1>3, <1>5 DEF IInv, LeaseInv, Distinct, ManagerInv
  <2>2. readied \subseteq readied'
    BY Zenon, <1>2, <1>3
  <2> QED BY Zenon, <1>1, <1>4, <1>5, <2>1, <2>2 DEF AnnouncedInv, Linked
<1>6. AnnouncedInv(m)'
  <2>1. CASE Announce(m)
    <3>1. relayed[m] => <<"inbound", gen[m]>> \in readied'
      BY Zenon, <1>2, <2>1 DEF DirectionsOf, Directions
    <3> QED BY Zenon, <1>2, <2>1, <3>1 DEF AnnouncedInv
  <2>2. CASE ~Announce(m)
    <3>1. readied' = readied
      BY Zenon, <1>3, <2>2
    <3>2. CASE UNCHANGED <<gen, counter>>
      <4>1. gen[m] <= counter /\ gen[m] \in Nat /\ counter \in Nat
        BY SessionAssumption DEF IInv, TypeOK, Numbers, LeaseInv, ManagerInv
      <4>2. pc'[m] \in {"connected", "published"} => pc[m] \in {"connected", "published"}
        BY <1>1, <3>2, <4>1, ManagerPlaces
      <4>3. pc'[m] \in OnLink => pc[m] \in OnLink /\ relayed'[m] = relayed[m]
        BY Zenon, <1>1, <2>2, ManagerPlaces
      <4>4. pc'[m] = "delivering" => relayed'[m]
        BY Zenon, <1>1, <4>3, ManagerPlaces DEF AnnouncedInv, OnLink
      <4> QED BY Zenon, <1>1, <3>1, <3>2, <4>2, <4>3, <4>4 DEF AnnouncedInv, OnLink
    <3>3. ASSUME NEW relay \in BOOLEAN, ConnectSucceeds(m, relay), ~GenerationsExhausted
          PROVE  AnnouncedInv(m)'
      <4>1. pc'[m] = "connected" /\ gen'[m] = counter + 1 /\ counter \in Nat
            /\ counter + 1 \in Generations
        BY <3>3, SessionAssumption
        DEF ConnectSucceeds, GenerationsExhausted, IInv, TypeOK, Numbers, Generations
      <4>2. \A d \in Directions : <<d, counter + 1>> \notin readied
        BY <4>1 DEF IInv, LeaseInv, Fresh
      <4> QED BY Zenon, <3>1, <4>1, <4>2 DEF AnnouncedInv
    <3> QED BY Zenon, <3>2, <3>3, ManagerOutput
  <2> QED BY Zenon, <2>1, <2>2
<1>7. ASSUME NEW i \in InboundIds
      PROVE  InboundAnnouncedInv(i)'
  <2>1. ipc[i] # "idle" => (<<"inbound", igen[i]>> \in readied' =>
           <<"inbound", igen[i]>> \in readied)
    BY <1>2, <1>3 DEF IInv, LeaseInv, Distinct, InboundInv
  <2>2. readied \subseteq readied'
    BY Zenon, <1>2, <1>3
  <2> QED BY Zenon, <1>1, <1>4, <2>1, <2>2 DEF InboundAnnouncedInv
<1> QED BY Zenon, <1>5, <1>6, <1>7

\* Together: a manager's step keeps the invariant of the feed.
LEMMA ManagerFeedInv ==
    ASSUME IInv, FeedInv, NEW m \in Managers, ManagerStep(m)
    PROVE  FeedInv'
<1>1. PICK k \in Managers : Serving(k)
  BY Zenon DEF FeedInv
<1>2. Serving(k)'
  BY <1>1, ManagerFrame DEF FeedInv, Serving, Born
<1> QED BY Zenon, <1>2, ManagerTypes, ManagerOrdered, ManagerAnnounced DEF FeedInv

-----------------------------------------------------------------------------
(* Steps of inbound tasks, of the handle and of the reader.                 *)

\* An inbound task announces its generation once, before it delivers frames of it.
LEMMA InboundFeedInv ==
    ASSUME IInv, FeedInv, NEW i \in InboundIds, InboundStep(i)
    PROVE  FeedInv'
<1> USE DEF taskVars, sharedVars, signalVars, handleVars, outputVars
<1>1. UNCHANGED <<pc, gen, relayed, peerOf, expired, aborted, active, default, control>>
  BY Zenon
  DEF InboundStep, InboundGranted, InboundAnnounced, InboundReceives, InboundDelivers,
         InboundEnds, InboundCloses
<1>2. FeedTypes /\ Ordered /\ (\A m \in Managers : AnnouncedInv(m))
      /\ (\A j \in InboundIds : InboundAnnouncedInv(j))
  BY Zenon DEF FeedInv
<1>3. /\ ipc \in [InboundIds -> {"idle", "granted", "open", "delivering", "closing"}]
      /\ igen \in [InboundIds -> Numbers] /\ (ipc[i] # "idle" => igen[i] # 0)
  BY Zenon DEF IInv, TypeOK, LeaseInv, InboundInv
<1>4. \/ readied' = readied
      \/ InboundAnnounced(i) /\ readied' = readied \cup ({"inbound"} \X {igen[i]})
  BY Zenon
  DEF InboundStep, InboundGranted, InboundAnnounced, InboundReceives, InboundDelivers,
         InboundEnds, InboundCloses, SendReady, SendCleared
<1>5. InboundAnnounced(i) => ipc'[i] = "open" /\ igen' = igen /\ ipc[i] = "granted"
  BY Zenon, <1>3 DEF InboundAnnounced
<1>6. \A j \in InboundIds : j # i => ipc'[j] = ipc[j] /\ igen'[j] = igen[j]
  BY Zenon, <1>3 DEF InboundStep, InboundGranted, InboundAnnounced, InboundReceives,
         InboundDelivers, InboundEnds, InboundCloses
<1>7. FeedTypes'
  <2>1. ipeer' \in [InboundIds -> Peers]
    BY Zenon, <1>2
    DEF FeedTypes, InboundStep, InboundGranted, InboundAnnounced, InboundReceives,
                InboundDelivers, InboundEnds, InboundCloses
  <2>2. frames' \in Seq([peer : Peers, gen : Generations])
    <3>1. CASE frames' = frames
      BY Zenon, <1>2, <3>1 DEF FeedTypes
    <3>2. CASE InboundDelivers(i)
      <4>1. igen[i] \in Generations
        BY <1>3, <3>2, SessionAssumption DEF InboundDelivers, Numbers, Generations
      <4>2. [peer |-> ipeer[i], gen |-> igen[i]] \in [peer : Peers, gen : Generations]
        BY Zenon, <1>2, <4>1 DEF FeedTypes
      <4> QED BY <1>2, <3>2, <4>2 DEF FeedTypes, InboundDelivers
    <3> QED BY Zenon, <3>1, <3>2 DEF InboundStep, InboundGranted, InboundAnnounced,
               InboundReceives, InboundEnds, InboundCloses
  <2> QED BY Zenon, <1>1, <1>2, <2>1, <2>2 DEF FeedTypes
<1>8. Ordered'
  <2>1. \A g \in Generations : <<"outbound", g>> \in readied' => <<"outbound", g>> \in readied
    BY <1>4
  <2> QED BY Zenon, <1>1, <1>2, <2>1 DEF Ordered
<1>9. \E k \in Managers : Serving(k)'
  BY Zenon, <1>1 DEF FeedInv, Serving, Born
<1>10. readied \subseteq readied'
  BY Zenon, <1>4
<1>11. ASSUME NEW m \in Managers
       PROVE  AnnouncedInv(m)'
  <2>1. pc[m] \in Linked => \A d \in Directions : <<d, gen[m]>> \in readied' =>
           <<d, gen[m]>> \in readied
    BY <1>4, <1>5 DEF IInv, LeaseInv, Distinct, ManagerInv
  <2> QED BY Zenon, <1>1, <1>2, <1>10, <2>1 DEF AnnouncedInv, Linked
<1>12. ASSUME NEW j \in InboundIds, j # i
       PROVE  InboundAnnouncedInv(j)'
  <2>1. ipc[j] # "idle" => (<<"inbound", igen[j]>> \in readied' =>
           <<"inbound", igen[j]>> \in readied)
    BY <1>4, <1>12 DEF IInv, LeaseInv, Distinct, InboundInv
  <2> QED BY Zenon, <1>2, <1>6, <1>10, <1>12, <2>1 DEF InboundAnnouncedInv
<1>13. InboundAnnouncedInv(i)'
  <2>1. CASE \E p \in Peers : InboundGranted(i, p)
    <3>1. /\ ipc'[i] = "granted" /\ igen'[i] = counter + 1 /\ readied' = readied
          /\ counter \in Nat /\ counter + 1 \in Generations
      BY <1>3, <2>1, SessionAssumption
      DEF InboundGranted, GenerationsExhausted, IInv, TypeOK, Numbers, Generations
    <3>2. <<"inbound", counter + 1>> \notin readied
      BY <3>1 DEF IInv, LeaseInv, Fresh, Directions
    <3> QED BY Zenon, <3>1, <3>2 DEF InboundAnnouncedInv
  <2>2. CASE InboundAnnounced(i)
    <3>1. readied' = readied \cup ({"inbound"} \X {igen[i]})
      BY Zenon, <2>2 DEF InboundAnnounced, SendReady
    <3> QED BY Zenon, <1>5, <2>2, <3>1 DEF InboundAnnouncedInv
  <2>3. CASE InboundReceives(i) \/ InboundDelivers(i) \/ InboundEnds(i) \/ InboundCloses(i)
    BY Zenon, <1>2, <1>3, <2>3 DEF InboundAnnouncedInv, InboundReceives, InboundDelivers,
       InboundEnds, InboundCloses, SendCleared
  <2> QED BY Zenon, <2>1, <2>2, <2>3 DEF InboundStep
<1> QED BY Zenon, <1>7, <1>8, <1>9, <1>11, <1>12, <1>13 DEF FeedInv

\* The reader and steps that change nothing.
LEMMA ReaderFeedInv ==
    ASSUME FeedInv, TakeFrame \/ UNCHANGED vars
    PROVE  FeedInv'
<1> USE DEF vars, taskVars, sharedVars, signalVars, handleVars, inboundVars, outputVars
<1>1. /\ UNCHANGED <<pc, peerOf, gen, relayed, expired, aborted, active, default, control,
                     ipc, ipeer, igen, readied>>
      /\ frames # <<>> => frames' \in {frames, Tail(frames)}
      /\ frames = <<>> => frames' = frames
  BY Zenon DEF TakeFrame
<1>2. frames' \in Seq([peer : Peers, gen : Generations])
  <2> DEFINE F == [peer : Peers, gen : Generations]
  <2>1. frames \in Seq(F)
    BY Zenon DEF FeedInv, FeedTypes
  <2> HIDE DEF F
  <2>2. frames # <<>> => Tail(frames) \in Seq(F)
    BY <2>1
  <2>3. frames' \in Seq(F)
    BY Zenon, <1>1, <2>1, <2>2
  <2> QED BY Zenon, <2>3 DEF F
<1> QED BY Zenon, <1>1, <1>2
        DEF FeedInv, FeedTypes, Ordered, Serving, Born, AnnouncedInv, InboundAnnouncedInv

HandleReplaces ==
    (\E p \in Peers : ReplaceDefaultPeer(p)) \/ ShutdownStep \/ ReassignDefault \/ AddReplacement

\* A replacement shuts the manager of the default peer down, aborts it, and only then
\* spawns its successor.
LEMMA HandleServing ==
    ASSUME IInv, NEW k \in Managers, Serving(k), HandleReplaces, FeedTypes
    PROVE  \E j \in Managers : Serving(j)'
<1> USE DEF taskVars, sharedVars, signalVars, handleVars, inboundVars, outputVars
<1>1. control \in Calls /\ active \in [Peers -> Managers \cup {0}] /\ k # 0
  BY DEF IInv, TypeOK, Managers
<1>2. ASSUME NEW p \in Peers, ReplaceDefaultPeer(p) PROVE Serving(k)'
  <2>1. control.step = "idle" /\ default \in Peers /\ active[default] = k
    BY Zenon, <1>2, IdleCall DEF ReplaceDefaultPeer, Serving
  <2>2. BeginShutdown(default, p, FALSE)
    BY Zenon, <1>1, <1>2, <2>1, SessionAssumption DEF ReplaceDefaultPeer
  <2>3. /\ control' = [step |-> "clear", manager |-> k, peer |-> default,
                       taken |-> lease[k], next |-> p, all |-> FALSE]
        /\ UNCHANGED <<pc, aborted>>
    BY Zenon, <2>1, <2>2 DEF BeginShutdown
  <2>4. active' = [q \in Peers |-> 0]
    BY Zenon, <2>1, <2>2 DEF BeginShutdown, Serving
  <2> QED BY Zenon, <2>3, <2>4 DEF Serving, Born
<1>3. CASE ShutdownClears
  <2>1. /\ control.step = "clear" /\ control' = [control EXCEPT !.step = "stop", !.taken = 0]
        /\ UNCHANGED <<pc, active, default, aborted>>
    BY Zenon, <1>3 DEF ShutdownClears
  <2>2. /\ control'.step = "stop" /\ control'.manager = control.manager
        /\ control'.all = control.all /\ control'.next = control.next
    BY Zenon, <1>1, <2>1 DEF Calls
  <2> QED BY Zenon, <2>1, <2>2 DEF Serving, Born
<1>4. CASE ShutdownStops
  <2>1. /\ control.step = "stop" /\ control' = [control EXCEPT !.step = "abort"]
        /\ UNCHANGED <<pc, active, default, aborted>>
    BY Zenon, <1>4 DEF ShutdownStops
  <2>2. /\ control'.step = "abort" /\ control'.manager = control.manager
        /\ control'.all = control.all /\ control'.next = control.next
    BY Zenon, <1>1, <2>1 DEF Calls
  <2> QED BY Zenon, <2>1, <2>2 DEF Serving, Born
<1>5. CASE ShutdownAborts
  <2>1. control.step = "abort" /\ control.manager = k /\ ~control.all
    BY Zenon, <1>5 DEF ShutdownAborts, Serving
  <2>2. /\ control' = [control EXCEPT !.step = "default"]
        /\ aborted' = [aborted EXCEPT ![k] = TRUE]
        /\ UNCHANGED <<pc, active, default>>
    BY Zenon, <1>5, <2>1 DEF ShutdownAborts
  <2>3. /\ control'.step = "default" /\ control'.manager = control.manager
        /\ control'.all = control.all /\ control'.next = control.next
    BY Zenon, <1>1, <2>2 DEF Calls
  <2>4. aborted'[k] /\ \A m \in Managers : aborted[m] => aborted'[m]
    BY Zenon, <2>2 DEF FeedTypes
  <2> QED BY Zenon, <2>1, <2>2, <2>3, <2>4 DEF Serving, Born
<1>6. CASE ReassignDefault
  <2>1. control.step = "default" /\ control.next \in Peers
    BY Zenon, <1>6 DEF ReassignDefault, Serving
  <2>2. /\ control' = [control EXCEPT !.step = "add"]
        /\ UNCHANGED <<pc, active, aborted>>
    BY Zenon, <1>6, <2>1, SessionAssumption DEF ReassignDefault
  <2>3. /\ control'.step = "add" /\ control'.manager = control.manager
        /\ control'.all = control.all /\ control'.next = control.next
    BY Zenon, <1>1, <2>2 DEF Calls
  <2> QED BY Zenon, <2>1, <2>2, <2>3 DEF Serving, Born
<1>7. CASE AddReplacement
  <2>1. /\ control.step = "add" /\ control' = Idle /\ default' = control.next
        /\ control.next \in Peers /\ active = [p \in Peers |-> 0] /\ aborted' = aborted
        /\ aborted[k] /\ Born(k)
    BY Zenon, <1>7 DEF AddReplacement, Serving
  <2>2. NextManager = k + 1
    BY <2>1, NextIsNext, SessionAssumption DEF Managers
  <2>3. k + 1 \in Managers
    <3>1. PICK j \in 0 .. MaxManagers : Born(j) /\ (j < MaxManagers \/ active[control.next] # 0)
      BY Zenon, <2>1, SessionAssumption DEF IInv, SpawnInv
    <3>2. NextManager = j + 1 /\ j < MaxManagers
      BY Zenon, <2>1, <3>1, NextIsNext
    <3> QED BY <2>2, <3>2, SessionAssumption DEF Managers
  <2>4. Spawn(k + 1, control.next)
    BY Zenon, <1>7, <2>1, <2>2 DEF AddReplacement
  <2>5. /\ pc' = [pc EXCEPT ![k + 1] = "connecting"]
        /\ active' = [p \in Peers |-> IF p = control.next THEN k + 1 ELSE 0]
    BY Zenon, <2>1, <2>4 DEF Spawn
  <2>6. Born(k + 1)'
    BY <2>1, <2>3, <2>5, SessionAssumption DEF Born, Managers, IInv, TypeOK
  <2>7. \A m \in Managers : m < k + 1 => aborted'[m]
    BY <2>1 DEF Serving, Managers
  <2>8. Serving(k + 1)'
    BY Zenon, <2>1, <2>5, <2>6, <2>7, IdleCall DEF Serving
  <2> QED BY Zenon, <2>3, <2>8
<1> QED BY Zenon, <1>2, <1>3, <1>4, <1>5, <1>6, <1>7 DEF HandleReplaces, ShutdownStep

\* Calls of a host that only replaces its default peer, and shuts down, keep it.
LEMMA HandleFeedInv ==
    ASSUME IInv, FeedInv, HandleReplaces
    PROVE  FeedInv'
<1> USE DEF taskVars, sharedVars, signalVars, handleVars, inboundVars, outputVars
<1>1. FeedTypes /\ Ordered /\ (\A m \in Managers : AnnouncedInv(m))
      /\ (\A i \in InboundIds : InboundAnnouncedInv(i))
  BY Zenon DEF FeedInv
<1>2. PICK k \in Managers : Serving(k)
  BY Zenon DEF FeedInv
<1>3. UNCHANGED <<gen, relayed, expired, ipc, ipeer, igen, frames, readied>>
  <2>1. CASE \E p \in Peers : ReplaceDefaultPeer(p)
    BY Zenon, <2>1 DEF ReplaceDefaultPeer, BeginShutdown
  <2>2. CASE ShutdownStep
    BY Zenon, <2>2
    DEF ShutdownStep, ShutdownClears, ShutdownStops, ShutdownAborts, SendCleared
  <2>3. CASE ReassignDefault \/ AddReplacement
    BY Zenon, <2>3 DEF ReassignDefault, AddReplacement
  <2> QED BY Zenon, <2>1, <2>2, <2>3 DEF HandleReplaces
<1>4. \/ UNCHANGED <<pc, peerOf>>
      \/ \E p \in Peers : Spawn(NextManager, p)
  <2>1. CASE \E p \in Peers : ReplaceDefaultPeer(p)
    BY Zenon, <2>1 DEF ReplaceDefaultPeer, BeginShutdown
  <2>2. CASE ShutdownStep \/ ReassignDefault
    BY Zenon, <2>2
    DEF ShutdownStep, ShutdownClears, ShutdownStops, ShutdownAborts, ReassignDefault
  <2>3. CASE AddReplacement
    BY Zenon, <1>2, <2>3 DEF AddReplacement, Serving
  <2> QED BY Zenon, <2>1, <2>2, <2>3 DEF HandleReplaces
<1>5. aborted' = aborted \/ \E m \in Managers : aborted' = [aborted EXCEPT ![m] = TRUE]
  <2>1. CASE \E p \in Peers : ReplaceDefaultPeer(p)
    BY Zenon, <2>1 DEF ReplaceDefaultPeer, BeginShutdown
  <2>2. CASE ShutdownStep \/ ReassignDefault
    BY Zenon, <1>2, <2>2 DEF ShutdownStep, ShutdownClears, ShutdownStops, ShutdownAborts,
                      ReassignDefault, Serving
  <2>3. CASE AddReplacement
    BY Zenon, <2>3 DEF AddReplacement
  <2> QED BY Zenon, <2>1, <2>2, <2>3 DEF HandleReplaces
<1>6. FeedTypes'
  BY Zenon, <1>1, <1>3, <1>4, <1>5 DEF FeedTypes, Spawn
<1>7. Ordered'
  BY Zenon, <1>1, <1>3 DEF Ordered
<1>8. \A m \in Managers : pc'[m] = pc[m] \/ pc'[m] = "connecting"
  BY Zenon, <1>4 DEF Spawn, IInv, TypeOK
<1>9. \A m \in Managers : AnnouncedInv(m)'
  BY Zenon, <1>1, <1>3, <1>8 DEF AnnouncedInv
<1>10. \A i \in InboundIds : InboundAnnouncedInv(i)'
  BY Zenon, <1>1, <1>3 DEF InboundAnnouncedInv
<1> QED BY Zenon, <1>1, <1>2, <1>6, <1>7, <1>9, <1>10, HandleServing DEF FeedInv

\* The invariants of the transport and of the feed together.
LEMMA ReplaceInductive == IInv /\ FeedInv /\ [ReplaceOnly]_vars => (IInv /\ FeedInv)'
<1> SUFFICES ASSUME IInv, FeedInv, [ReplaceOnly]_vars PROVE IInv' /\ FeedInv'
  BY Zenon
<1>1. IInv'
  BY Zenon, ReplaceIsNext, Inductive
<1>2. FeedInv'
  BY Zenon, HandleFeedInv, ReaderFeedInv, ManagerFeedInv, InboundFeedInv
  DEF ReplaceOnly, HandleReplaces
<1> QED BY Zenon, <1>1, <1>2

-----------------------------------------------------------------------------
(* The refinement.                                                          *)

GensOf(s) == [i \in DOMAIN s |-> s[i].gen]

\* What the refinement mapping of MCPacketSessions takes for the variables of the feed.
Cleared == {dg \in Directions \X Generations : clears[dg[1]][dg[2]] > 0}
Retired == {g \in 1 .. counter : ~Held(g)}
Channel == GensOf(frames)

Shown(k) == IF control.step = "idle" /\ ~expired[k] THEN lease[k] ELSE 0

\* A caller sees the lease of the last manager, or none.
CurrentInv == \A k \in Managers : Serving(k) => DefaultPacketSession = Shown(k)

\* What packet_session returns while the last manager serves, or while a call is under way.
LEMMA CurrentIs == CurrentInv
<1> SUFFICES ASSUME NEW k \in Managers, Serving(k)
             PROVE  DefaultPacketSession = Shown(k)
  BY Zenon DEF CurrentInv
<1> USE DEF Shown
<1>1. CASE control.step = "idle"
  <2>1. {p \in Peers : active[p] # 0} = {default} /\ active[default] = k /\ default # NoPeer
    BY <1>1, SessionAssumption DEF Serving, Managers
  <2> QED BY Zenon, <1>1, <2>1 DEF DefaultPacketSession
<1>2. CASE control.step # "idle"
  <2>1. \A p \in Peers : active[p] = 0
    BY Zenon, <1>2 DEF Serving
  <2>2. {p \in Peers : active[p] # 0} # {default}
    BY Zenon, <2>1
  <2> QED BY Zenon, <1>2, <2>2 DEF DefaultPacketSession
<1> QED BY Zenon, <1>1, <1>2

\* So it does after a step.
LEMMA CurrentIsNext == CurrentInv'
BY CurrentIs, PTL

\* The steps of the feed, on the state of the transport.
FeedStutters == UNCHANGED <<readied, Cleared, Retired, DefaultPacketSession, Channel>>

FeedStep == SessionFeedOf!FeedNext \/ FeedStutters

\* The step Select of the feed, in terms of the transport.
LEMMA SelectStep ==
    ASSUME NEW g \in Generations, g \notin Retired, g # DefaultPacketSession,
           \A h \in Generations : <<"outbound", h>> \in readied => h <= g,
           DefaultPacketSession' = g, UNCHANGED <<readied, Cleared, Retired, Channel>>
    PROVE  FeedStep
<1>1. SessionFeedOf!Select(g)
  BY Zenon
  DEF SessionFeedOf!Select, SessionFeedOf!Generations, Generations, Cleared, Retired,
      Channel, GensOf
<1> QED BY Zenon, <1>1
        DEF FeedStep, SessionFeedOf!FeedNext, SessionFeedOf!Generations, Generations

\* The step Retire.
LEMMA RetireStep ==
    ASSUME NEW g \in Generations, g \notin Retired, Retired' = Retired \cup {g},
           DefaultPacketSession' = IF DefaultPacketSession = g THEN 0 ELSE DefaultPacketSession,
           UNCHANGED <<readied, Cleared, Channel>>
    PROVE  FeedStep
<1>1. SessionFeedOf!Retire(g)
  BY Zenon DEF SessionFeedOf!Retire, Cleared, Retired, Channel, GensOf
<1> QED BY Zenon, <1>1
        DEF FeedStep, SessionFeedOf!FeedNext, SessionFeedOf!Generations, Generations

\* The step Ready.
LEMMA ReadyStep ==
    ASSUME NEW g \in Generations, NEW dirs \in (SUBSET Directions) \ {{}},
           \A d \in dirs : <<d, g>> \notin readied,
           "outbound" \in dirs /\ DefaultPacketSession # 0 => g <= DefaultPacketSession,
           readied' = readied \cup (dirs \X {g}),
           UNCHANGED <<Cleared, Retired, DefaultPacketSession, Channel>>
    PROVE  FeedStep
<1>1. SessionFeedOf!Ready(g, dirs)
  BY Zenon DEF SessionFeedOf!Ready, Cleared, Retired, Channel, GensOf
<1>2. /\ g \in SessionFeedOf!Generations
      /\ dirs \in (SUBSET SessionFeedOf!FeedDirections) \ {{}}
  BY Zenon
  DEF SessionFeedOf!Generations, Generations, SessionFeedOf!FeedDirections, Directions
<1> QED BY Zenon, <1>1, <1>2 DEF FeedStep, SessionFeedOf!FeedNext

\* The step Clear.
LEMMA ClearStep ==
    ASSUME NEW g \in Generations, NEW dirs \in (SUBSET Directions) \ {{}}, g \in Retired,
           \A d \in dirs : <<d, g>> \notin Cleared, Cleared' = Cleared \cup (dirs \X {g}),
           UNCHANGED <<readied, Retired, DefaultPacketSession, Channel>>
    PROVE  FeedStep
<1>1. SessionFeedOf!Clear(g, dirs)
  BY Zenon DEF SessionFeedOf!Clear, Cleared, Retired, Channel, GensOf
<1>2. /\ g \in SessionFeedOf!Generations
      /\ dirs \in (SUBSET SessionFeedOf!FeedDirections) \ {{}}
  BY Zenon
  DEF SessionFeedOf!Generations, Generations, SessionFeedOf!FeedDirections, Directions
<1> QED BY Zenon, <1>1, <1>2 DEF FeedStep, SessionFeedOf!FeedNext

\* The step Feed.
LEMMA FrameStep ==
    ASSUME NEW g \in Generations, <<"inbound", g>> \in readied,
           Len(Channel) < InboundCapacity, Channel' = Append(Channel, g),
           UNCHANGED <<readied, Cleared, Retired, DefaultPacketSession>>
    PROVE  FeedStep
<1>1. SessionFeedOf!Feed(g)
  BY Zenon DEF SessionFeedOf!Feed, Cleared, Retired, Channel, GensOf
<1> QED BY Zenon, <1>1
        DEF FeedStep, SessionFeedOf!FeedNext, SessionFeedOf!Generations, Generations

\* The step Take.
LEMMA TakeStep ==
    ASSUME Channel # <<>>, Channel' = Tail(Channel),
           UNCHANGED <<readied, Cleared, Retired, DefaultPacketSession>>
    PROVE  FeedStep
<1>1. SessionFeedOf!Take
  BY Zenon DEF SessionFeedOf!Take, Cleared, Retired, Channel, GensOf
<1> QED BY Zenon, <1>1 DEF FeedStep, SessionFeedOf!FeedNext

-----------------------------------------------------------------------------
(* Steps of a session manager, on the feed.                                 *)

\* Which leases are held does not change when no manager's part in it does.
LEMMA HeldKept ==
    ASSUME UNCHANGED <<counter, gen, lease, expired>>,
           \A m \in Managers : pc'[m] = "connected" <=> pc[m] = "connected"
    PROVE  Retired' = Retired
<1>1. \A g : Held(g)' <=> Held(g)
  BY Zenon DEF Held
<1> QED BY Zenon, <1>1 DEF Retired

\* The manager that callers see remains the same.
LEMMA ManagerShown ==
    ASSUME IInv, FeedInv, NEW m \in Managers, ManagerStep(m), NEW k \in Managers, Serving(k)
    PROVE  /\ DefaultPacketSession = Shown(k) /\ DefaultPacketSession' = Shown(k)'
           /\ control' = control
<1>1. Serving(k)' /\ control' = control
  BY ManagerFrame DEF FeedInv, Serving, Born
<1> QED BY Zenon, <1>1, CurrentIs, CurrentIsNext DEF CurrentInv

\* Steps that take and publish no lease and send nothing.
LEMMA QuietStep ==
    ASSUME IInv, FeedInv, NEW m \in Managers, ManagerStep(m),
           UNCHANGED <<counter, gen, lease, expired, readied, clears, frames>>,
           pc[m] # "connected", pc'[m] # "connected"
    PROVE  FeedStep
<1>1. PICK k \in Managers : Serving(k)
  BY Zenon DEF FeedInv
<1>2. DefaultPacketSession' = DefaultPacketSession
  BY <1>1, ManagerShown DEF Shown
<1>3. \A n \in Managers : n # m => pc'[n] = pc[n]
  BY Zenon, ManagerFrame DEF FeedInv
<1>4. Retired' = Retired
  BY Zenon, <1>3, HeldKept
<1>5. Cleared' = Cleared /\ Channel' = Channel
  BY Zenon DEF Cleared, Channel
<1> QED BY Zenon, <1>2, <1>4, <1>5 DEF FeedStep, FeedStutters

\* Steps that only move the manager's task show nothing.
LEMMA MovingFeeds ==
    ASSUME IInv, FeedInv, NEW m \in Managers, MovingStep(m), ~Deliver(m)
    PROVE  FeedStep
<1>1. ManagerStep(m)
  BY Zenon DEF MovingStep, ManagerStep, RunningStep
<1>2. /\ UNCHANGED <<counter, gen, lease, readied, clears>>
      /\ pc[m] # "connected" /\ pc'[m] # "connected"
  BY Zenon, MovesWell DEF leaseVars, IInv, TypeOK, LeaseInv
<1>3. UNCHANGED frames
  BY Zenon, <1>1, ManagerOutput
<1>4. UNCHANGED expired
  <2> USE DEF sharedVars
  <2>1. CASE ConnectFails(m) \/ BackoffElapses(m) \/ BackoffEvent(m) \/ BackoffStop(m)
    BY Zenon, <2>1 DEF ConnectFails, BackoffElapses, BackoffEvent, BackoffStop
  <2>2. CASE MarkReady(m) \/ Park(m) \/ CloseLink(m) \/ Cancelled(m)
    BY Zenon, <2>2 DEF MarkReady, Park, CloseLink, Cancelled
  <2>3. CASE LinkSend(m) \/ LinkFails(m) \/ LinkReceive(m)
    BY Zenon, <2>3 DEF LinkSend, LinkFails, LinkReceive
  <2>4. CASE LinkEvent(m) \/ LinkStop(m) \/ Rotate(m)
    BY Zenon, <2>4 DEF LinkEvent, LinkStop, Rotate
  <2> QED BY Zenon, <2>1, <2>2, <2>3, <2>4 DEF MovingStep
<1> QED BY Zenon, <1>1, <1>2, <1>3, <1>4, QuietStep

\* A generation is drawn: its lease is about to be published.
LEMMA ConnectFeeds ==
    ASSUME IInv, FeedInv, NEW m \in Managers, NEW relay \in BOOLEAN, ConnectSucceeds(m, relay)
    PROVE  FeedStep
<1> USE DEF handleVars, signalVars, inboundVars, outputVars
<1>1. ManagerStep(m)
  BY Zenon DEF ManagerStep
<1>2. CASE GenerationsExhausted
  <2>1. /\ UNCHANGED <<counter, gen, lease, expired, readied, clears, frames>>
        /\ pc[m] # "connected" /\ pc'[m] # "connected"
    BY Zenon, <1>2 DEF ConnectSucceeds, At, IInv, TypeOK
  <2> QED BY Zenon, <1>1, <2>1, QuietStep
<1>3. CASE ~GenerationsExhausted
  <2>1. /\ pc' = [pc EXCEPT ![m] = "connected"] /\ pc[m] = "connecting"
        /\ counter' = counter + 1 /\ gen' = [gen EXCEPT ![m] = counter + 1]
        /\ UNCHANGED <<lease, expired, readied, clears, frames>>
    BY Zenon, <1>3 DEF ConnectSucceeds, At
  <2>2. /\ pc'[m] = "connected" /\ gen'[m] = counter + 1
        /\ \A n \in Managers : n # m => pc'[n] = pc[n] /\ gen'[n] = gen[n]
    BY Zenon, <2>1 DEF IInv, TypeOK
  <2>3. /\ counter \in Nat /\ lease[m] = 0
        /\ \A n \in Managers : gen[n] \in Nat /\ gen[n] <= counter
    BY <2>1, SessionAssumption DEF IInv, TypeOK, Numbers, LeaseInv, ManagerInv, Quiet
  <2>4. \A g : g = counter + 1 => Held(g)'
    BY Zenon, <2>2 DEF Held
  <2>5. \A g \in 1 .. counter : Held(g)' <=> Held(g)
    BY <2>1, <2>2, <2>3 DEF Held
  <2>6. Retired' = Retired
    BY <2>1, <2>3, <2>4, <2>5 DEF Retired
  <2>7. Cleared' = Cleared /\ Channel' = Channel
    BY Zenon, <2>1 DEF Cleared, Channel
  <2>8. DefaultPacketSession' = DefaultPacketSession
    BY <1>1, <2>1, ManagerShown DEF Shown, FeedInv
  <2> QED BY Zenon, <2>1, <2>6, <2>7, <2>8 DEF FeedStep, FeedStutters
<1> QED BY Zenon, <1>2, <1>3

\* A lease is published.  When its manager is the one that callers see, no later
\* generation has been announced.
LEMMA PublishFeeds ==
    ASSUME IInv, FeedInv, NEW m \in Managers, Publish(m)
    PROVE  FeedStep
<1> USE DEF handleVars, signalVars, inboundVars, outputVars
<1>1. ManagerStep(m)
  BY Zenon DEF ManagerStep, RunningStep
<1>2. PICK k \in Managers : Serving(k)
  BY DEF FeedInv
<1>3. /\ pc[m] = "connected" /\ pc'[m] = "published"
      /\ lease'[m] = gen[m] /\ ~expired'[m]
      /\ \A n \in Managers : n # m =>
            pc'[n] = pc[n] /\ lease'[n] = lease[n] /\ expired'[n] = expired[n]
      /\ UNCHANGED <<counter, gen, readied, clears, frames>>
  BY Zenon DEF Publish, IInv, TypeOK, FeedInv, FeedTypes
<1>4. Retired' = Retired
  <2>1. \A g : Held(g)' <=> Held(g)
    BY <1>3 DEF Held
  <2> QED BY Zenon, <1>3, <2>1 DEF Retired
<1>5. Cleared' = Cleared /\ Channel' = Channel
  BY Zenon, <1>3 DEF Cleared, Channel
<1>6. /\ DefaultPacketSession = Shown(k) /\ DefaultPacketSession' = Shown(k)'
      /\ control' = control
  BY Zenon, <1>1, <1>2, ManagerShown
<1>7. CASE m # k \/ control.step # "idle"
  BY Zenon, <1>3, <1>4, <1>5, <1>6, <1>7 DEF Shown, FeedStep, FeedStutters
<1>8. CASE m = k /\ control.step = "idle"
  <2>1. gen[k] \in Generations /\ lease[k] = 0
    BY <1>3, <1>8, SessionAssumption
    DEF IInv, TypeOK, LeaseInv, ManagerInv, Linked, Quiet, Numbers, Generations
  <2>2. gen[k] # 0
    BY <2>1 DEF Generations
  <2>3. DefaultPacketSession = 0 /\ DefaultPacketSession' = gen[k]
    BY Zenon, <1>3, <1>6, <1>8, <2>1 DEF Shown
  <2>4. gen[k] \notin Retired
    BY Zenon, <1>3, <1>8 DEF Retired, Held
  <2>5. ASSUME NEW h \in Generations, <<"outbound", h>> \in readied
        PROVE  h <= gen[k]
    <3>1. PICK n \in Managers : h <= gen[n]
      BY Zenon, <2>5 DEF FeedInv, Ordered
    <3>2. gen[n] \in Nat /\ gen[k] \in Nat /\ h \in Nat /\ h # 0
      BY SessionAssumption DEF IInv, TypeOK, Numbers, Generations
    <3>3. gen[n] # 0
      BY <3>1, <3>2
    <3>4. pc[n] # "unborn"
      BY Zenon, <3>3 DEF IInv, LeaseInv, ManagerInv
    <3>5. n <= k
      BY <1>2, <3>4 DEF Serving, Born, Managers
    <3>6. n < k => gen[n] < gen[k]
      BY Zenon, <2>2 DEF FeedInv, Ordered
    <3>7. n = k \/ n < k
      BY <3>5 DEF Managers
    <3> QED BY <3>1, <3>2, <3>6, <3>7
  <2> QED BY Zenon, <1>3, <1>4, <1>5, <2>1, <2>2, <2>3, <2>4, <2>5, SelectStep
<1> QED BY Zenon, <1>7, <1>8

\* Ready, of a generation no later than the one that callers see.
LEMMA AnnounceFeeds ==
    ASSUME IInv, FeedInv, NEW m \in Managers, Announce(m)
    PROVE  FeedStep
<1> USE DEF sharedVars, handleVars, signalVars, inboundVars
<1>1. ManagerStep(m)
  BY Zenon DEF ManagerStep, RunningStep
<1>2. PICK k \in Managers : Serving(k)
  BY DEF FeedInv
<1>3. /\ pc[m] = "published" /\ pc' = [pc EXCEPT ![m] = "announced"]
      /\ readied' = readied \cup (DirectionsOf(m) \X {gen[m]})
      /\ UNCHANGED <<counter, gen, lease, expired, clears, frames>>
  BY Zenon DEF Announce, SendReady
<1>4. Retired' = Retired
  BY Zenon, <1>3, HeldKept DEF IInv, TypeOK
<1>5. Cleared' = Cleared /\ Channel' = Channel
  BY Zenon, <1>3 DEF Cleared, Channel
<1>6. DefaultPacketSession = Shown(k) /\ DefaultPacketSession' = DefaultPacketSession
  <2>1. /\ DefaultPacketSession = Shown(k) /\ DefaultPacketSession' = Shown(k)'
        /\ control' = control
    BY Zenon, <1>1, <1>2, ManagerShown
  <2> QED BY <1>3, <2>1 DEF Shown
<1>7. gen[m] \in Generations /\ DirectionsOf(m) \in (SUBSET Directions) \ {{}}
  BY <1>3, SessionAssumption
  DEF IInv, TypeOK, LeaseInv, ManagerInv, Linked, Numbers, Generations, DirectionsOf, Directions
<1>8. \A d \in DirectionsOf(m) : <<d, gen[m]>> \notin readied
  BY Zenon, <1>3, <1>7 DEF FeedInv, AnnouncedInv
<1>9. DefaultPacketSession # 0 => gen[m] <= DefaultPacketSession
  <2> SUFFICES ASSUME DefaultPacketSession # 0 PROVE gen[m] <= DefaultPacketSession
    BY Zenon
  <2>1. DefaultPacketSession = gen[k] /\ gen[k] # 0
    BY Zenon, <1>6 DEF Shown, IInv, LeaseInv, ManagerInv
  <2>2. m <= k
    BY Zenon, <1>2, <1>3 DEF Serving, Born
  <2>3. m < k => gen[m] < gen[k]
    BY Zenon, <2>1 DEF FeedInv, Ordered
  <2>4. m = k \/ m < k
    BY <2>2 DEF Managers
  <2> QED BY <2>1, <2>3, <2>4, SessionAssumption DEF IInv, TypeOK, Numbers
<1> QED BY Zenon, <1>3, <1>4, <1>5, <1>6, <1>7, <1>8, <1>9, ReadyStep

\* A lease that only manager m holds and lets go of.
LEMMA LetGo ==
    ASSUME IInv, FeedInv, NEW m \in Managers, gen[m] # 0, pc[m] # "connected",
           lease[m] = gen[m], ~expired[m],
           pc'[m] # "connected", lease'[m] = 0 \/ expired'[m],
           \A n \in Managers : n # m =>
              pc'[n] = pc[n] /\ lease'[n] = lease[n] /\ expired'[n] = expired[n],
           UNCHANGED <<counter, gen>>
    PROVE  /\ gen[m] \in Generations /\ gen[m] \notin Retired
           /\ Retired' = Retired \cup {gen[m]}
<1>1. PICK g \in Generations : g = gen[m] /\ g <= counter
  BY SessionAssumption DEF IInv, TypeOK, Numbers, Generations, LeaseInv, ManagerInv
<1>2. g # 0 /\ counter \in Nat /\ g \in 1 .. counter
  BY <1>1, SessionAssumption DEF IInv, TypeOK, Numbers, Generations
<1>3. Held(g)
  BY Zenon, <1>1 DEF Held
<1>4. ~Held(g)'
  BY Zenon, <1>1, <1>2 DEF Held, IInv, LeaseInv, Distinct
<1>5. \A h : h # g => (Held(h)' <=> Held(h))
  BY Zenon, <1>1 DEF Held
<1> QED BY Zenon, <1>1, <1>2, <1>3, <1>4, <1>5 DEF Retired

\* A lease ends its lifetime, or the end of its link takes it.
LEMMA EndFeeds ==
    ASSUME IInv, FeedInv, NEW m \in Managers, LeaseExpires(m) \/ ClearLease(m)
    PROVE  FeedStep
<1> USE DEF taskVars, handleVars, signalVars, inboundVars, outputVars
<1>1. ManagerStep(m)
  BY Zenon DEF ManagerStep, RunningStep
<1>2. PICK k \in Managers : Serving(k)
  BY Zenon DEF FeedInv
<1>3. UNCHANGED <<counter, gen, readied, clears, frames>>
  BY Zenon DEF LeaseExpires, ClearLease
<1>4. Cleared' = Cleared /\ Channel' = Channel
  BY Zenon, <1>3 DEF Cleared, Channel
<1>5. /\ DefaultPacketSession = Shown(k) /\ DefaultPacketSession' = Shown(k)'
      /\ control' = control
  BY Zenon, <1>1, <1>2, ManagerShown
<1>6. \A n \in Managers : n # m =>
         pc'[n] = pc[n] /\ lease'[n] = lease[n] /\ expired'[n] = expired[n]
  BY Zenon, <1>1, ManagerFrame DEF FeedInv
<1>7. /\ lease[m] \in {0, gen[m]}
      /\ pc[m] \in Quiet => lease[m] = 0
      /\ pc[m] \in Linked => gen[m] # 0
  BY Zenon DEF IInv, LeaseInv, ManagerInv
<1>8. CASE ClearLease(m) /\ lease[m] # gen[m]
  <2>1. /\ UNCHANGED <<lease, expired>> /\ pc[m] # "connected" /\ pc'[m] # "connected"
    BY Zenon, <1>8 DEF ClearLease, HoldsLease, IInv, TypeOK
  <2> QED BY Zenon, <1>1, <1>3, <2>1, QuietStep
<1>9. CASE ClearLease(m) /\ lease[m] = gen[m] /\ expired[m]
  <2>1. /\ pc[m] = "leaving" /\ pc'[m] = "clearing" /\ lease'[m] = 0 /\ gen[m] # 0
    BY Zenon, <1>7, <1>9 DEF ClearLease, HoldsLease, IInv, TypeOK, Linked
  <2>2. \A g \in 1 .. counter : Held(g)' <=> Held(g)
    BY <1>3, <1>6, <1>9, <2>1 DEF Held
  <2>3. Retired' = Retired
    BY Zenon, <1>3, <2>2 DEF Retired
  <2>4. DefaultPacketSession' = DefaultPacketSession
    BY Zenon, <1>5, <1>6, <1>9, <2>1 DEF Shown
  <2> QED BY Zenon, <1>3, <1>4, <2>3, <2>4 DEF FeedStep, FeedStutters
<1>10. CASE LeaseExpires(m) \/ (ClearLease(m) /\ lease[m] = gen[m] /\ ~expired[m])
  <2>1. /\ gen[m] # 0 /\ lease[m] = gen[m] /\ ~expired[m]
        /\ pc[m] # "connected" /\ pc'[m] # "connected"
        /\ lease'[m] = 0 \/ expired'[m]
    BY Zenon, <1>7, <1>10
    DEF LeaseExpires, ClearLease, HoldsLease, IInv, TypeOK, Linked, Quiet,
       FeedInv, FeedTypes
  <2>2. /\ gen[m] \in Generations /\ gen[m] \notin Retired
        /\ Retired' = Retired \cup {gen[m]}
    BY Zenon, <1>3, <1>6, <2>1, LetGo
  <2>3. DefaultPacketSession' =
           IF DefaultPacketSession = gen[m] THEN 0 ELSE DefaultPacketSession
    <3>1. CASE m = k
      BY Zenon, <1>5, <2>1, <3>1 DEF Shown
    <3>2. CASE m # k
      <4>1. lease[k] # gen[m]
        BY Zenon, <2>1, <3>2 DEF IInv, LeaseInv, ManagerInv, Distinct
      <4> QED BY Zenon, <1>5, <1>6, <2>1, <3>2, <4>1 DEF Shown
    <3> QED BY Zenon, <3>1, <3>2
  <2> QED BY Zenon, <1>3, <1>4, <2>2, <2>3, RetireStep
<1> QED BY Zenon, <1>8, <1>9, <1>10

\* The first Cleared of a generation in a direction adds it to what is cleared.
LEMMA ClearedGrows ==
    ASSUME TypeOK, NEW g \in Generations, NEW dirs \in SUBSET Directions,
           \A d \in dirs : clears[d][g] = 0, SendCleared(g, dirs)
    PROVE  /\ Cleared' = Cleared \cup (dirs \X {g}) /\ readied' = readied
           /\ \A d \in dirs : <<d, g>> \notin Cleared
<1>1. /\ \A d \in Directions, h \in Generations :
            clears'[d][h] = IF d \in dirs /\ h = g THEN 1 ELSE clears[d][h]
      /\ readied' = readied
  BY Zenon, ClearedOnce
<1>2. \A d \in Directions, h \in Generations : clears[d][h] \in {0, 1}
  BY Zenon DEF TypeOK
<1>3. \A d \in Directions, h \in Generations :
         clears'[d][h] > 0 <=> (clears[d][h] > 0 \/ (d \in dirs /\ h = g))
  BY <1>1, <1>2
<1>4. \A d \in Directions, h \in Generations :
         <<d, h>> \in Cleared' <=> <<d, h>> \in Cleared \cup (dirs \X {g})
  BY Zenon, <1>3 DEF Cleared
<1>5. Cleared' \subseteq Directions \X Generations /\ Cleared \subseteq Directions \X Generations
  BY Zenon DEF Cleared
<1>6. Cleared' = Cleared \cup (dirs \X {g})
  BY <1>4, <1>5
<1>7. \A d \in dirs : <<d, g>> \notin Cleared
  BY DEF Cleared
<1> QED BY Zenon, <1>1, <1>6, <1>7

\* Sequences of one length with the same entries are the same.
LEMMA SameEntries ==
    ASSUME NEW S, NEW s \in Seq(S), NEW t \in Seq(S), Len(s) = Len(t),
           \A i \in 1 .. Len(s) : s[i] = t[i]
    PROVE  s = t
OBVIOUS

\* What Append returns.
LEMMA AppendIs ==
    ASSUME NEW S, NEW s \in Seq(S), NEW e \in S
    PROVE  /\ Append(s, e) \in Seq(S) /\ Len(Append(s, e)) = Len(s) + 1 /\ Len(s) \in Nat
           /\ \A i \in 1 .. Len(s) + 1 : Append(s, e)[i] = IF i <= Len(s) THEN s[i] ELSE e
OBVIOUS

\* What Tail returns.
LEMMA TailIs ==
    ASSUME NEW S, NEW s \in Seq(S), s # <<>>
    PROVE  /\ Tail(s) \in Seq(S) /\ Len(Tail(s)) = Len(s) - 1 /\ Len(s) \in Nat \ {0}
           /\ \A i \in 1 .. Len(s) - 1 : Tail(s)[i] = s[i + 1]
OBVIOUS

\* Taking the generations of frames commutes with the operations of the channel.
LEMMA GensWell ==
    ASSUME NEW s \in Seq([peer : Peers, gen : Generations])
    PROVE  /\ GensOf(s) \in Seq(Generations) /\ Len(GensOf(s)) = Len(s)
           /\ \A i \in 1 .. Len(s) : GensOf(s)[i] = s[i].gen
<1>1. PICK n \in Nat : n = Len(s) /\ DOMAIN s = 1 .. n
                       /\ s \in [1 .. n -> [peer : Peers, gen : Generations]]
  <2>1. ASSUME NEW S, NEW t \in Seq(S)
        PROVE  Len(t) \in Nat /\ DOMAIN t = 1 .. Len(t) /\ t \in [1 .. Len(t) -> S]
    OBVIOUS
  <2> QED BY Zenon, <2>1
<1>2. GensOf(s) \in [1 .. n -> Generations]
  BY Zenon, <1>1 DEF GensOf
<1>3. ASSUME NEW S, NEW f \in [1 .. n -> S] PROVE f \in Seq(S) /\ Len(f) = n
  OBVIOUS
<1>4. GensOf(s) \in Seq(Generations) /\ Len(GensOf(s)) = n
  BY Zenon, <1>2, <1>3
<1> QED BY Zenon, <1>1, <1>4 DEF GensOf

\* With Append ...
LEMMA GensAppend ==
    ASSUME NEW s \in Seq([peer : Peers, gen : Generations]),
           NEW f \in [peer : Peers, gen : Generations]
    PROVE  GensOf(Append(s, f)) = Append(GensOf(s), f.gen)
<1>1. /\ Append(s, f) \in Seq([peer : Peers, gen : Generations])
      /\ Len(Append(s, f)) = Len(s) + 1 /\ Len(s) \in Nat
      /\ \A i \in 1 .. Len(s) + 1 : Append(s, f)[i] = IF i <= Len(s) THEN s[i] ELSE f
  BY AppendIs
<1>2. /\ GensOf(s) \in Seq(Generations) /\ Len(GensOf(s)) = Len(s)
      /\ \A i \in 1 .. Len(s) : GensOf(s)[i] = s[i].gen
  BY Zenon, GensWell
<1>3. /\ GensOf(Append(s, f)) \in Seq(Generations)
      /\ Len(GensOf(Append(s, f))) = Len(s) + 1
      /\ \A i \in 1 .. Len(s) + 1 : GensOf(Append(s, f))[i] = Append(s, f)[i].gen
  BY Zenon, <1>1, GensWell
<1>4. /\ Append(GensOf(s), f.gen) \in Seq(Generations)
      /\ Len(Append(GensOf(s), f.gen)) = Len(s) + 1
      /\ \A i \in 1 .. Len(s) + 1 :
            Append(GensOf(s), f.gen)[i] = IF i <= Len(s) THEN GensOf(s)[i] ELSE f.gen
  BY <1>2, AppendIs
<1>5. \A i \in 1 .. Len(s) + 1 : GensOf(Append(s, f))[i] = Append(GensOf(s), f.gen)[i]
  BY <1>1, <1>2, <1>3, <1>4
<1> QED BY Zenon, <1>3, <1>4, <1>5, SameEntries

\* ... and with Tail.
LEMMA GensTail ==
    ASSUME NEW s \in Seq([peer : Peers, gen : Generations]), s # <<>>
    PROVE  GensOf(Tail(s)) = Tail(GensOf(s)) /\ GensOf(s) # <<>>
<1>1. /\ Tail(s) \in Seq([peer : Peers, gen : Generations])
      /\ Len(Tail(s)) = Len(s) - 1 /\ Len(s) \in Nat \ {0}
      /\ \A i \in 1 .. Len(s) - 1 : Tail(s)[i] = s[i + 1]
  BY Zenon, TailIs
<1>2. /\ GensOf(s) \in Seq(Generations) /\ Len(GensOf(s)) = Len(s)
      /\ \A i \in 1 .. Len(s) : GensOf(s)[i] = s[i].gen
  BY Zenon, GensWell
<1>3. GensOf(s) # <<>>
  BY Zenon, <1>1, <1>2
<1>4. /\ GensOf(Tail(s)) \in Seq(Generations)
      /\ Len(GensOf(Tail(s))) = Len(s) - 1
      /\ \A i \in 1 .. Len(s) - 1 : GensOf(Tail(s))[i] = Tail(s)[i].gen
  BY Zenon, <1>1, GensWell
<1>5. /\ Tail(GensOf(s)) \in Seq(Generations)
      /\ Len(Tail(GensOf(s))) = Len(s) - 1
      /\ \A i \in 1 .. Len(s) - 1 : Tail(GensOf(s))[i] = GensOf(s)[i + 1]
  BY Zenon, <1>2, <1>3, TailIs
<1>6. \A i \in 1 .. Len(s) - 1 : GensOf(Tail(s))[i] = Tail(GensOf(s))[i]
  BY <1>1, <1>2, <1>4, <1>5
<1> QED BY Zenon, <1>3, <1>4, <1>5, <1>6, SameEntries

\* A frame that a link puts into its channel is one of the feed.
LEMMA ChannelGrows ==
    ASSUME FeedTypes, NEW p \in Peers, NEW g \in Generations,
           frames' = Append(frames, [peer |-> p, gen |-> g])
    PROVE  Channel' = Append(Channel, g) /\ Len(Channel) = Len(frames)
<1> DEFINE f == [peer |-> p, gen |-> g]
<1>1. f \in [peer : Peers, gen : Generations] /\ f.gen = g
  BY Zenon
<1>2. frames \in Seq([peer : Peers, gen : Generations])
  BY Zenon DEF FeedTypes
<1>3. GensOf(Append(frames, f)) = Append(GensOf(frames), f.gen)
  BY Zenon, <1>1, <1>2, GensAppend
<1> QED BY Zenon, <1>1, <1>2, <1>3, GensWell DEF Channel

\* The reader takes its first one.
LEMMA ChannelShrinks ==
    ASSUME FeedTypes, frames # <<>>, frames' = Tail(frames)
    PROVE  Channel' = Tail(Channel) /\ Channel # <<>>
<1>1. frames \in Seq([peer : Peers, gen : Generations])
  BY Zenon DEF FeedTypes
<1> QED BY Zenon, <1>1, GensTail DEF Channel

\* Cleared comes after the lease was taken back.
LEMMA AnnounceClearedFeeds ==
    ASSUME IInv, FeedInv, NEW m \in Managers, AnnounceCleared(m)
    PROVE  FeedStep
<1> USE DEF sharedVars, handleVars, signalVars, inboundVars
<1>1. ManagerStep(m)
  BY Zenon DEF ManagerStep, RunningStep
<1>2. PICK k \in Managers : Serving(k)
  BY DEF FeedInv
<1>3. /\ pc[m] = "clearing" /\ pc' = [pc EXCEPT ![m] = "left"]
      /\ SendCleared(gen[m], DirectionsOf(m))
      /\ UNCHANGED <<counter, gen, lease, expired, frames>>
  BY Zenon DEF AnnounceCleared
<1>4. Retired' = Retired
  BY Zenon, <1>3, HeldKept DEF IInv, TypeOK
<1>5. DefaultPacketSession' = DefaultPacketSession
  <2>1. /\ DefaultPacketSession = Shown(k) /\ DefaultPacketSession' = Shown(k)'
        /\ control' = control
    BY Zenon, <1>1, <1>2, ManagerShown
  <2> QED BY <1>3, <2>1 DEF Shown
<1>6. /\ gen[m] \in Generations /\ gen[m] <= counter /\ lease[m] = 0 /\ Uncleared(gen[m])
      /\ gen[m] # 0
  BY <1>3, SessionAssumption
  DEF IInv, TypeOK, LeaseInv, ManagerInv, Owes, Linked, Quiet, Numbers, Generations
<1>7. DirectionsOf(m) \in (SUBSET Directions) \ {{}}
  BY Zenon DEF DirectionsOf, Directions
<1>8. gen[m] \in Retired
  <2>1. ~Held(gen[m])
    BY Zenon, <1>3, <1>6 DEF Held, IInv, LeaseInv, Distinct
  <2> QED BY <1>6, <2>1, SessionAssumption DEF Retired, Generations, IInv, TypeOK, Numbers
<1>9. /\ Cleared' = Cleared \cup (DirectionsOf(m) \X {gen[m]}) /\ readied' = readied
      /\ \A d \in DirectionsOf(m) : <<d, gen[m]>> \notin Cleared
  BY Zenon, <1>3, <1>6, <1>7, ClearedGrows DEF IInv, Uncleared
<1>10. Channel' = Channel
  BY Zenon, <1>3 DEF Channel
<1> QED BY Zenon, <1>4, <1>5, <1>6, <1>7, <1>8, <1>9, <1>10, ClearStep

\* A relayed link was announced inbound before it delivers.
LEMMA DeliverFeeds ==
    ASSUME IInv, FeedInv, NEW m \in Managers, Deliver(m)
    PROVE  FeedStep
<1> USE DEF sharedVars, handleVars, signalVars, inboundVars, outputVars
<1>1. ManagerStep(m) /\ MovingStep(m)
  BY Zenon DEF ManagerStep, MovingStep
<1>2. PICK k \in Managers : Serving(k)
  BY DEF FeedInv
<1>3. /\ pc[m] = "delivering" /\ pc'[m] # "connected" /\ Len(frames) < InboundCapacity
      /\ frames' = Append(frames, [peer |-> peerOf[m], gen |-> gen[m]])
      /\ UNCHANGED <<counter, gen, lease, expired, readied, clears>>
  BY Zenon DEF Deliver, At, CountFrame, Leave, IInv, TypeOK
<1>4. Retired' = Retired
  <2>1. \A n \in Managers : n # m => pc'[n] = pc[n]
    BY Zenon, <1>1, ManagerFrame DEF FeedInv
  <2> QED BY Zenon, <1>3, <2>1, HeldKept
<1>5. DefaultPacketSession' = DefaultPacketSession
  <2>1. /\ DefaultPacketSession = Shown(k) /\ DefaultPacketSession' = Shown(k)'
        /\ control' = control
    BY Zenon, <1>1, <1>2, ManagerShown
  <2> QED BY <1>3, <2>1 DEF Shown
<1>6. gen[m] \in Generations /\ peerOf[m] \in Peers /\ <<"inbound", gen[m]>> \in readied
  BY <1>3, SessionAssumption
  DEF IInv, TypeOK, LeaseInv, ManagerInv, Linked, Numbers, Generations, FeedInv, FeedTypes,
      AnnouncedInv
<1>7. Channel' = Append(Channel, gen[m]) /\ Len(Channel) = Len(frames)
  BY Zenon, <1>3, <1>6, ChannelGrows DEF FeedInv
<1>8. Cleared' = Cleared
  BY Zenon, <1>3 DEF Cleared
<1> QED BY Zenon, <1>3, <1>4, <1>5, <1>6, <1>7, <1>8, FrameStep

\* Every step of a manager is a step of the feed.
LEMMA ManagerFeeds ==
    ASSUME IInv, FeedInv, NEW m \in Managers, ManagerStep(m)
    PROVE  FeedStep
BY Zenon, MovingFeeds, ConnectFeeds, PublishFeeds, AnnounceFeeds, EndFeeds,
   AnnounceClearedFeeds, DeliverFeeds
DEF ManagerStep, RunningStep, MovingStep

-----------------------------------------------------------------------------
(* Steps of inbound tasks, on the feed.                                     *)

\* Callers do not see inbound leases, and managers do not hold them.
LEMMA InboundShown ==
    ASSUME IInv, FeedInv, NEW i \in InboundIds, InboundStep(i)
    PROVE  /\ DefaultPacketSession' = DefaultPacketSession
           /\ UNCHANGED <<pc, gen, lease, expired>>
           /\ \A g : Held(g)' <=> Held(g)
           /\ ipc[i] # "idle" => /\ igen[i] \in Generations /\ igen[i] \in Retired
                                 /\ clears["inbound"][igen[i]] = 0
<1>1. UNCHANGED <<pc, gen, lease, expired, active, default, control>>
  BY Zenon
  DEF InboundStep, InboundGranted, InboundAnnounced, InboundReceives, InboundDelivers,
         InboundEnds, InboundCloses, taskVars, sharedVars, handleVars
<1>2. DefaultPacketSession' = DefaultPacketSession
  BY Zenon, <1>1 DEF DefaultPacketSession
<1>3. \A g : Held(g)' <=> Held(g)
  BY Zenon, <1>1 DEF Held
<1>4. ASSUME ipc[i] # "idle"
      PROVE  /\ igen[i] \in Generations /\ igen[i] \in Retired
             /\ clears["inbound"][igen[i]] = 0
  <2>1. /\ igen[i] \in Generations /\ igen[i] <= counter /\ igen[i] # 0 /\ counter \in Nat
        /\ clears["inbound"][igen[i]] = 0
    BY <1>4, SessionAssumption DEF IInv, TypeOK, LeaseInv, InboundInv, Numbers, Generations
  <2>2. ~Held(igen[i])
    BY Zenon, <2>1 DEF Held, IInv, LeaseInv, Distinct
  <2> QED BY <2>1, <2>2 DEF Retired, Generations
<1> QED BY Zenon, <1>1, <1>2, <1>3, <1>4

\* Every step of an inbound task is a step of the feed.
LEMMA InboundFeeds ==
    ASSUME IInv, FeedInv, NEW i \in InboundIds, InboundStep(i)
    PROVE  FeedStep
<1> USE DEF taskVars, sharedVars, handleVars, signalVars, outputVars
<1>1. DefaultPacketSession' = DefaultPacketSession /\ (\A g : Held(g)' <=> Held(g))
  BY Zenon, InboundShown
<1>2. ipc[i] # "idle" => /\ igen[i] \in Generations /\ igen[i] \in Retired
                         /\ clears["inbound"][igen[i]] = 0
  BY Zenon, InboundShown
<1>3. {"inbound"} \in (SUBSET Directions) \ {{}} /\ "outbound" \notin {"inbound"}
  BY Zenon DEF Directions
<1>4. counter' = counter => Retired' = Retired
  BY Zenon, <1>1 DEF Retired
<1>5. ASSUME NEW p \in Peers, InboundGranted(i, p) PROVE FeedStep
  <2>1. counter' = counter + 1 /\ UNCHANGED <<readied, clears, frames, lease>>
    BY Zenon, <1>5 DEF InboundGranted
  <2>2. PICK g \in Generations : g = counter + 1 /\ counter \in Nat
    BY <1>5, SessionAssumption
    DEF InboundGranted, GenerationsExhausted, IInv, TypeOK, Numbers, Generations
  <2>3. \A m \in Managers : gen[m] \in Nat /\ gen[m] <= counter
    BY SessionAssumption DEF IInv, TypeOK, Numbers, LeaseInv, ManagerInv
  <2>4. ~Held(g)
    BY <2>2, <2>3 DEF Held
  <2>5. g \notin Retired /\ Retired' = Retired \cup {g}
    BY <1>1, <2>1, <2>2, <2>4 DEF Retired
  <2>6. DefaultPacketSession # g
    <3>1. PICK k \in Managers : Serving(k)
      BY Zenon DEF FeedInv
    <3>2. DefaultPacketSession = Shown(k)
      BY Zenon, <3>1, CurrentIs DEF CurrentInv
    <3>3. lease[k] \in {0, gen[k]}
      BY Zenon DEF IInv, LeaseInv, ManagerInv
    <3> QED BY <2>2, <2>3, <3>2, <3>3 DEF Shown
  <2>7. Cleared' = Cleared /\ Channel' = Channel
    BY Zenon, <2>1 DEF Cleared, Channel
  <2> QED BY Zenon, <1>1, <2>1, <2>5, <2>6, <2>7, RetireStep
<1>6. CASE InboundAnnounced(i)
  <2>1. /\ readied' = readied \cup ({"inbound"} \X {igen[i]}) /\ ipc[i] = "granted"
        /\ UNCHANGED <<counter, clears, frames>>
    BY Zenon, <1>6 DEF InboundAnnounced, SendReady
  <2>2. <<"inbound", igen[i]>> \notin readied
    BY Zenon, <2>1 DEF FeedInv, InboundAnnouncedInv
  <2>3. Cleared' = Cleared /\ Channel' = Channel
    BY Zenon, <2>1 DEF Cleared, Channel
  <2> QED BY Zenon, <1>1, <1>2, <1>3, <1>4, <2>1, <2>2, <2>3, ReadyStep
<1>7. CASE InboundReceives(i) \/ InboundEnds(i)
  <2>1. UNCHANGED <<counter, readied, clears, frames>>
    BY Zenon, <1>7 DEF InboundReceives, InboundEnds
  <2>2. Cleared' = Cleared /\ Channel' = Channel
    BY Zenon, <2>1 DEF Cleared, Channel
  <2> QED BY Zenon, <1>1, <1>4, <2>1, <2>2 DEF FeedStep, FeedStutters
<1>8. CASE InboundDelivers(i)
  <2>1. /\ ipc[i] = "delivering" /\ Len(frames) < InboundCapacity
        /\ frames' = Append(frames, [peer |-> ipeer[i], gen |-> igen[i]])
        /\ UNCHANGED <<counter, readied, clears>>
    BY Zenon, <1>8 DEF InboundDelivers
  <2>2. ipeer[i] \in Peers /\ <<"inbound", igen[i]>> \in readied
    BY Zenon, <2>1 DEF FeedInv, FeedTypes, InboundAnnouncedInv
  <2>3. Channel' = Append(Channel, igen[i]) /\ Len(Channel) = Len(frames)
    BY Zenon, <1>2, <2>1, <2>2, ChannelGrows DEF FeedInv
  <2>4. Cleared' = Cleared
    BY Zenon, <2>1 DEF Cleared
  <2> QED BY Zenon, <1>1, <1>2, <1>4, <2>1, <2>2, <2>3, <2>4, FrameStep
<1>9. CASE InboundCloses(i)
  <2>1. /\ ipc[i] = "closing" /\ SendCleared(igen[i], {"inbound"})
        /\ UNCHANGED <<counter, frames>>
    BY Zenon, <1>9 DEF InboundCloses
  <2>2. /\ Cleared' = Cleared \cup ({"inbound"} \X {igen[i]}) /\ readied' = readied
        /\ \A d \in {"inbound"} : <<d, igen[i]>> \notin Cleared
    BY Zenon, <1>2, <1>3, <2>1, ClearedGrows DEF IInv
  <2>3. Channel' = Channel
    BY Zenon, <2>1 DEF Channel
  <2> QED BY Zenon, <1>1, <1>2, <1>3, <1>4, <2>1, <2>2, <2>3, ClearStep
<1> QED BY Zenon, <1>5, <1>6, <1>7, <1>8, <1>9 DEF InboundStep

-----------------------------------------------------------------------------
(* Steps of the transport handle and of the reader, on the feed.            *)

\* A replacement takes the lease of the default peer, if it has one.
LEMMA ReplaceFeeds ==
    ASSUME IInv, FeedInv, NEW p \in Peers, ReplaceDefaultPeer(p)
    PROVE  FeedStep
<1> USE DEF taskVars, signalVars, inboundVars, outputVars
<1>1. PICK k \in Managers : Serving(k)
  BY Zenon DEF FeedInv
<1>2. control.step = "idle" /\ default \in Peers /\ active[default] = k /\ k # 0
  BY <1>1, IdleCall DEF ReplaceDefaultPeer, Serving, Managers
<1>3. BeginShutdown(default, p, FALSE)
  BY Zenon, <1>2, SessionAssumption DEF ReplaceDefaultPeer
<1>4. /\ control' = [step |-> "clear", manager |-> k, peer |-> default,
                     taken |-> lease[k], next |-> p, all |-> FALSE]
      /\ active' = [active EXCEPT ![default] = 0]
      /\ lease' = [lease EXCEPT ![k] = 0]
      /\ UNCHANGED <<pc, gen, expired, aborted, counter, readied, clears, frames>>
  BY Zenon, <1>2, <1>3 DEF BeginShutdown
<1>5. Cleared' = Cleared /\ Channel' = Channel
  BY Zenon, <1>4 DEF Cleared, Channel
<1>6. DefaultPacketSession = Shown(k)
  BY Zenon, <1>1, CurrentIs DEF CurrentInv
<1>7. DefaultPacketSession' = 0
  <2>1. control'.step = "clear" /\ active' = [q \in Peers |-> 0]
    BY Zenon, <1>1, <1>2, <1>4 DEF Serving
  <2>2. Serving(k)'
    BY Zenon, <1>1, <1>4, <2>1 DEF Serving, Born
  <2> QED BY Zenon, <2>1, <2>2, CurrentIsNext DEF CurrentInv, Shown
<1>8. /\ lease[k] \in {0, gen[k]}
      /\ pc[k] \in Quiet => lease[k] = 0
      /\ lease'[k] = 0 /\ \A n \in Managers : n # k => lease'[n] = lease[n]
  BY Zenon, <1>4 DEF IInv, TypeOK, LeaseInv, ManagerInv
<1>9. CASE lease[k] = 0 \/ expired[k]
  <2>1. DefaultPacketSession = 0
    BY Zenon, <1>6, <1>9 DEF Shown
  <2>2. \A g \in 1 .. counter : Held(g)' <=> Held(g)
    BY Zenon, <1>4, <1>8, <1>9 DEF Held
  <2>3. Retired' = Retired
    BY Zenon, <1>4, <2>2 DEF Retired
  <2> QED BY Zenon, <1>4, <1>5, <1>7, <2>1, <2>3 DEF FeedStep, FeedStutters
<1>10. CASE lease[k] # 0 /\ ~expired[k]
  <2>1. gen[k] # 0 /\ lease[k] = gen[k] /\ pc[k] # "connected" /\ pc'[k] # "connected"
    BY Zenon, <1>4, <1>8, <1>10 DEF Quiet
  <2>2. /\ gen[k] \in Generations /\ gen[k] \notin Retired
        /\ Retired' = Retired \cup {gen[k]}
    BY Zenon, <1>4, <1>8, <1>10, <2>1, LetGo
  <2>3. DefaultPacketSession = gen[k]
    BY Zenon, <1>2, <1>6, <1>10, <2>1 DEF Shown
  <2> QED BY Zenon, <1>4, <1>5, <1>7, <2>2, <2>3, RetireStep
<1> QED BY Zenon, <1>9, <1>10

\* A call under way shows no lease, whatever it does until it is over.
LEMMA CallShown ==
    ASSUME IInv, FeedInv, HandleReplaces, control.step # "idle",
           control'.step # "idle" \/ (\E m \in Managers : Serving(m)' /\ lease'[m] = 0)
    PROVE  DefaultPacketSession' = DefaultPacketSession
<1>1. PICK k \in Managers : Serving(k)
  BY Zenon DEF FeedInv
<1>2. DefaultPacketSession = 0
  BY Zenon, <1>1, CurrentIs DEF CurrentInv, Shown
<1>3. CASE control'.step # "idle"
  <2>1. PICK j \in Managers : Serving(j)'
    BY Zenon, <1>1, HandleServing DEF FeedInv
  <2> QED BY Zenon, <1>2, <1>3, <2>1, CurrentIsNext DEF CurrentInv, Shown
<1>4. ASSUME NEW m \in Managers, Serving(m)', lease'[m] = 0
      PROVE  DefaultPacketSession' = 0
  BY Zenon, <1>4, CurrentIsNext DEF CurrentInv, Shown
<1> QED BY Zenon, <1>2, <1>3, <1>4

\* It goes on to announce the end of the lease it took.
LEMMA ShutdownFeeds ==
    ASSUME IInv, FeedInv, ShutdownStep \/ ReassignDefault
    PROVE  FeedStep
<1> USE DEF taskVars, sharedVars, signalVars, inboundVars, outputVars
<1>1. PICK k \in Managers : Serving(k)
  BY Zenon DEF FeedInv
<1>2. HandleReplaces
  BY Zenon DEF HandleReplaces
<1>3. control.step # "idle" /\ control \in Calls
  BY Zenon
  DEF ShutdownStep, ShutdownClears, ShutdownStops, ShutdownAborts, ReassignDefault, IInv,
         TypeOK
<1>4. ~control.all /\ control.next \in Peers
  BY Zenon, <1>1, <1>3 DEF Serving
<1>5. \/ control' = [control EXCEPT !.step = "stop", !.taken = 0]
      \/ \E s \in {"abort", "default", "add"} : control' = [control EXCEPT !.step = s]
  BY Zenon, <1>4, SessionAssumption
  DEF ShutdownStep, ShutdownClears, ShutdownStops, ShutdownAborts, ReassignDefault
<1>6. control'.step # "idle"
  BY Zenon, <1>3, <1>5 DEF Calls
<1>7. DefaultPacketSession' = DefaultPacketSession
  BY Zenon, <1>2, <1>3, <1>6, CallShown
<1>8. UNCHANGED <<pc, gen, lease, expired, counter, frames>>
  BY Zenon, <1>4
  DEF ShutdownStep, ShutdownClears, ShutdownStops, ShutdownAborts, ReassignDefault
<1>9. Retired' = Retired /\ Channel' = Channel
  BY Zenon, <1>8, HeldKept DEF Channel
<1>10. CASE ShutdownClears /\ control.taken # 0
  <2>1. SendCleared(control.taken, Directions)
    BY Zenon, <1>10 DEF ShutdownClears
  <2>2. /\ control.taken \in Generations /\ control.taken <= counter
        /\ Uncleared(control.taken) /\ counter \in Nat
    BY <1>3, <1>10, SessionAssumption
    DEF Calls, Numbers, Generations, IInv, TypeOK, LeaseInv, ControlInv
  <2>3. ~Held(control.taken)
    BY Zenon, <1>10 DEF Held, IInv, LeaseInv, ManagerInv, Owes
  <2>4. control.taken \in Retired
    BY <2>2, <2>3 DEF Retired, Generations
  <2>5. Directions \in (SUBSET Directions) \ {{}}
    BY Zenon DEF Directions
  <2>6. /\ Cleared' = Cleared \cup (Directions \X {control.taken}) /\ readied' = readied
        /\ \A d \in Directions : <<d, control.taken>> \notin Cleared
    BY Zenon, <2>1, <2>2, ClearedGrows DEF IInv, Uncleared
  <2> QED BY Zenon, <1>7, <1>9, <2>2, <2>4, <2>5, <2>6, ClearStep
<1>11. CASE ~(ShutdownClears /\ control.taken # 0)
  <2>1. UNCHANGED <<readied, clears>>
    BY Zenon, <1>11
    DEF ShutdownStep, ShutdownClears, ShutdownStops, ShutdownAborts, ReassignDefault
  <2>2. Cleared' = Cleared
    BY Zenon, <2>1 DEF Cleared
  <2> QED BY Zenon, <1>7, <1>9, <2>1, <2>2 DEF FeedStep, FeedStutters
<1> QED BY Zenon, <1>10, <1>11

\* The manager of the new default peer starts without a lease.
LEMMA AddFeeds ==
    ASSUME IInv, FeedInv, AddReplacement
    PROVE  FeedStep
<1> USE DEF sharedVars, signalVars, inboundVars, outputVars
<1>1. PICK k \in Managers : Serving(k)
  BY Zenon DEF FeedInv
<1>2. HandleReplaces
  BY Zenon DEF HandleReplaces
<1>3. PICK j \in Managers : Serving(j)'
  BY Zenon, <1>1, <1>2, HandleServing DEF FeedInv
<1>4. /\ control.step = "add" /\ control' = Idle /\ control.next \in Peers
      /\ active = [p \in Peers |-> 0]
      /\ UNCHANGED <<gen, lease, expired, counter, readied, clears, frames>>
  BY Zenon, <1>1 DEF AddReplacement, Serving
<1>5. PICK n : n = NextManager
  BY Zenon
<1>6. Spawn(n, control.next)
  BY Zenon, <1>4, <1>5 DEF AddReplacement
<1>7. pc' = [pc EXCEPT ![n] = "connecting"] /\ active' = [active EXCEPT ![control.next] = n]
  BY Zenon, <1>6 DEF Spawn
<1>8. n = k + 1
  BY <1>1, <1>5, NextIsNext, SessionAssumption DEF Serving, Managers
<1>9. pc[n] = "unborn" /\ n \in Managers
  <2>1. n \in Managers
    <3>1. active'[control.next] \in Managers \cup {0} /\ active'[control.next] = n
      BY Zenon, <1>2, <1>4, <1>7, ReplaceInductive
      DEF IInv, TypeOK, ReplaceOnly, HandleReplaces
    <3> QED BY <1>8, <3>1, SessionAssumption DEF Managers
  <2> QED BY <1>1, <1>8, <2>1, SessionAssumption DEF Serving, Born, Managers
<1>10. \A m \in Managers : pc'[m] = "connected" <=> pc[m] = "connected"
  BY Zenon, <1>7, <1>9 DEF IInv, TypeOK
<1>11. Retired' = Retired /\ Cleared' = Cleared /\ Channel' = Channel
  BY Zenon, <1>4, <1>10, HeldKept DEF Cleared, Channel
<1>12. lease'[j] = 0
  <2>1. j = n
    <3>1. control'.step = "idle"
      BY Zenon, <1>4, IdleCall
    <3>2. active'[control.next] = n /\ n # 0
      BY <1>4, <1>7, <1>9 DEF Managers
    <3> QED BY Zenon, <1>3, <1>4, <3>1, <3>2 DEF Serving
  <2>2. lease[n] = 0
    BY Zenon, <1>9 DEF IInv, LeaseInv, ManagerInv, Quiet
  <2> QED BY Zenon, <1>4, <2>1, <2>2
<1>13. DefaultPacketSession' = DefaultPacketSession
  BY Zenon, <1>2, <1>3, <1>4, <1>12, CallShown
<1> QED BY Zenon, <1>4, <1>11, <1>13 DEF FeedStep, FeedStutters

\* The packet loop takes a frame from the channel.
LEMMA ReaderFeeds ==
    ASSUME FeedInv, TakeFrame \/ UNCHANGED vars
    PROVE  FeedStep
<1> USE DEF taskVars, sharedVars, handleVars, signalVars, inboundVars, outputVars
<1>1. UNCHANGED <<pc, gen, lease, expired, active, default, control, counter, readied, clears>>
  BY Zenon DEF TakeFrame, vars
<1>2. Retired' = Retired /\ Cleared' = Cleared
      /\ DefaultPacketSession' = DefaultPacketSession
  BY Zenon, <1>1, HeldKept DEF Cleared, DefaultPacketSession
<1>3. CASE TakeFrame
  <2>1. Channel' = Tail(Channel) /\ Channel # <<>>
    BY Zenon, <1>3, ChannelShrinks DEF TakeFrame, FeedInv
  <2> QED BY Zenon, <1>1, <1>2, <2>1, TakeStep
<1>4. CASE UNCHANGED vars
  <2>1. Channel' = Channel
    BY Zenon, <1>4 DEF vars, Channel
  <2> QED BY Zenon, <1>1, <1>2, <2>1 DEF FeedStep, FeedStutters
<1> QED BY Zenon, <1>3, <1>4

-----------------------------------------------------------------------------
(* The theorem.                                                             *)

\* The feed of a new transport is empty.
LEMMA FeedStarts == Init => SessionFeedOf!FeedInit
<1> SUFFICES ASSUME Init PROVE SessionFeedOf!FeedInit
  OBVIOUS
<1>1. PICK k \in Managers : Serving(k)
  BY Zenon, FeedInitHolds DEF FeedInv
<1>2. DefaultPacketSession = 0
  BY <1>1, CurrentIs DEF CurrentInv, Shown, Init
<1>3. Cleared = {} /\ Retired = {} /\ Channel = <<>> /\ readied = {}
  BY DEF Init, Cleared, Retired, Channel, GensOf
<1> QED BY Zenon, <1>2, <1>3
    DEF SessionFeedOf!FeedInit, Cleared, Retired, Channel, GensOf

\* Each step of the transport is a step of the feed, or none of its business.
LEMMA StepsFeed == IInv /\ FeedInv /\ [ReplaceOnly]_vars => FeedStep
BY Zenon, ManagerFeeds, InboundFeeds, ReplaceFeeds, ShutdownFeeds, AddFeeds, ReaderFeeds
DEF ReplaceOnly

\* What is no step of the feed leaves its variables alone.
LEMMA FeedStepIs == FeedStep => [SessionFeedOf!FeedNext]_(SessionFeedOf!feedVars)
BY Zenon
DEF FeedStep, FeedStutters, SessionFeedOf!feedVars, Cleared, Retired, Channel, GensOf

\* The transport of a host that replaces its default peer implements the session
\* feed: the events, leases and frames of managers, responder tasks and handle are
\* what the packet pumps rely on, in every interleaving.
THEOREM TransportImplementsFeed == ReplaceSpec => ImplementsSessionFeed
<1>1. Init => IInv /\ FeedInv
  BY Zenon, InitHolds, FeedInitHolds
<1>2. ReplaceSpec => [](IInv /\ FeedInv)
  BY <1>1, ReplaceInductive, PTL DEF ReplaceSpec
<1>3. IInv /\ FeedInv /\ [ReplaceOnly]_vars => [SessionFeedOf!FeedNext]_(SessionFeedOf!feedVars)
  BY Zenon, StepsFeed, FeedStepIs
<1> QED BY <1>2, <1>3, FeedStarts, PTL
    DEF ReplaceSpec, ImplementsSessionFeed, SessionFeedOf!FeedSpec
=============================================================================

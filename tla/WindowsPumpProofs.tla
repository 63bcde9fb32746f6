-------------------------- MODULE WindowsPumpProofs --------------------------
(***************************************************************************)
(* For any number of peers, generations and packet numbers, any window     *)
(* width and any backlog: no packet of the Windows pump is encoded under a *)
(* session the transport does not report, no frame is taken in under a     *)
(* lease that is not its own, and the replay window of the core refuses no *)
(* frame that is new.                                                      *)
(*                                                                         *)
(* The last one needs an invariant: the window belongs to the session that *)
(* is installed inbound, has seen packet numbers of that session only, and *)
(* not yet the number of the frame that the inbound thread holds.          *)
(***************************************************************************)
EXTENDS WindowsPump, TLAPS

Numbers == Generations \cup {0}

Events == [kind : {"Ready", "Cleared"}, dir : Directions, gen : Generations]

\* The types of what the pump reads and keeps.
TypeOK ==
    /\ owner \in [Generations -> Peers]
    /\ carries \in [Generations -> Carries]
    /\ events \in Seq(Events)
    /\ number \in [Generations -> Nat]
    /\ current \in Numbers
    /\ channel \in Seq(Generations)
    /\ popped \in [Threads -> Events \cup {NoEvent}]
    /\ frame \in Numbers
    /\ core \in Core(Generations)

\* The replay window has seen numbers of the installed inbound session, and of those
\* not the last one as long as the frame that has it is still to be handed over.
WindowInv ==
    core.window.initialized =>
        LET g == core.session["inbound"] IN
        /\ g # 0
        /\ core.window.highest <= number[g]
        /\ frame = g => core.window.highest < number[g]

IInv == TypeOK /\ WindowInv

-----------------------------------------------------------------------------
(* What the operations of the packet core do.                               *)

\* The window that observe() leaves is one, and its highest number is the larger one.
LEMMA ObserveType ==
    ASSUME NEW w \in Window, NEW n \in Nat
    PROVE  /\ Observe(w, n) \in Window
           /\ w.initialized => Observe(w, n).highest \in {w.highest, n}
           /\ ~w.initialized => Observe(w, n).highest = n
<1> USE WindowBitsAssumption
<1>1. 0 \in Bits /\ \A b \in SUBSET Bits, s \in Nat : Shifted(b, s) \in SUBSET Bits
  BY DEF Bits, Shifted
<1>2. CASE ~Accepts(w, n)
  <2>1. w.initialized /\ Observe(w, n) = w
    BY Zenon, <1>2 DEF Accepts, Observe
  <2> QED BY Zenon, <2>1
<1>3. CASE Accepts(w, n) /\ ~w.initialized
  BY Zenon, <1>1, <1>3 DEF Observe, Window
<1>4. CASE Accepts(w, n) /\ w.initialized /\ n > w.highest
  <2>1. n - w.highest \in Nat /\ w.bitmap \in SUBSET Bits
    BY <1>4 DEF Window
  <2> QED BY Zenon, <1>1, <1>4, <2>1 DEF Observe, Window
<1>5. CASE Accepts(w, n) /\ w.initialized /\ ~(n > w.highest)
  <2>1. w.highest - n \in Bits
    BY <1>5 DEF Accepts, Window, Bits
  <2> QED BY Zenon, <1>5, <2>1 DEF Observe, Window
<1> QED BY Zenon, <1>2, <1>3, <1>4, <1>5

\* A slot is set for one direction; the other and, unless it is the inbound slot, the
\* window stay.
LEMMA SetSlotWell ==
    ASSUME NEW c \in Core(Generations), NEW d \in Directions, NEW g \in Numbers
    PROVE  /\ SetSlot(c, d, g) \in Core(Generations)
           /\ SetSlot(c, d, g).session[d] = g
           /\ d = "inbound" => ~SetSlot(c, d, g).window.initialized
           /\ d = "outbound" => /\ SetSlot(c, d, g).window = c.window
                                /\ SetSlot(c, d, g).session["inbound"] = c.session["inbound"]
BY Zenon, WindowBitsAssumption DEF SetSlot, Core, Directions, Numbers, NewWindow, Window

\* install_peer_session leaves the core alone, or sets the slot to the session offered.
LEMMA InstalledWell ==
    ASSUME TypeOK, NEW d \in Directions, NEW g \in Generations
    PROVE  /\ Installed(d, g) \in {core, SetSlot(core, d, g)}
           /\ PumpInstalls(d, g) => Installed(d, g).session[d] = g
           /\ core.session[d] = g => Installed(d, g) = core
<1>1. SetSlot(core, d, g).session[d] = g
  BY SetSlotWell DEF TypeOK, Numbers
<1> QED BY Zenon, <1>1 DEF Installed, Install, PumpInstalls

\* Setting a slot keeps the window with its session.
LEMMA SlotKept ==
    ASSUME IInv, NEW d \in Directions, NEW g \in Numbers,
           core' \in {core, SetSlot(core, d, g)}, UNCHANGED <<number, frame>>
    PROVE  core' \in Core(Generations) /\ WindowInv'
<1>1. CASE core' = core
  BY Zenon, <1>1 DEF IInv, TypeOK, WindowInv
<1>2. CASE core' = SetSlot(core, d, g)
  <2>1. core \in Core(Generations)
    BY Zenon DEF IInv, TypeOK
  <2>2. /\ core' \in Core(Generations)
        /\ d = "inbound" => ~core'.window.initialized
        /\ d = "outbound" => /\ core'.window = core.window
                             /\ core'.session["inbound"] = core.session["inbound"]
    BY <1>2, <2>1, SetSlotWell
  <2> QED BY Zenon, <2>2 DEF IInv, WindowInv, Directions
<1> QED BY Zenon, <1>1, <1>2

\* A packet that is encoded counts, and changes nothing else of the core.
LEMMA SubmitWell ==
    ASSUME NEW c \in Core(Generations), NEW ex
    PROVE  /\ Submit(c, ex) \in Core(Generations)
           /\ Submit(c, ex).session = c.session
           /\ Submit(c, ex).window = c.window
<1>1. /\ Carry(c, "outbound") \in Core(Generations)
      /\ Carry(c, "outbound").session = c.session
      /\ Carry(c, "outbound").window = c.window
  BY DEF Carry, Core, Directions
<1> QED BY Zenon, <1>1 DEF Submit

\* A frame that is taken in counts and is recorded in the window.
LEMMA AcceptWell ==
    ASSUME NEW c \in Core(Generations), NEW ex, NEW n \in Nat
    PROVE  /\ AcceptFrame(c, ex, n) \in Core(Generations)
           /\ AcceptFrame(c, ex, n).session = c.session
           /\ \/ AcceptFrame(c, ex, n) = c
              \/ AcceptFrame(c, ex, n).window = Observe(c.window, n)
<1>1. c.window \in Window /\ Observe(c.window, n) \in Window
  BY Zenon, ObserveType DEF Core
<1>2. ASSUME NEW w \in Window
      PROVE  LET a == [Carry(c, "inbound") EXCEPT !.window = w] IN
             a \in Core(Generations) /\ a.session = c.session /\ a.window = w
  <2> DEFINE a == [Carry(c, "inbound") EXCEPT !.window = w]
  <2>1. Carry(c, "inbound") \in Core(Generations) /\ Carry(c, "inbound").session = c.session
    BY DEF Carry, Core, Directions
  <2>2. a \in Core(Generations) /\ a.session = c.session /\ a.window = w
    BY Zenon, <2>1 DEF Core
  <2> QED BY Zenon, <2>2
<1> QED BY Zenon, <1>1, <1>2 DEF AcceptFrame

-----------------------------------------------------------------------------
(* The invariant.                                                           *)

\* The pump starts with an empty core.
LEMMA InitHolds == Init => IInv
BY FeedAssumption, WindowBitsAssumption
DEF Init, SourceInit, FeedInit, IInv, TypeOK, WindowInv, Numbers, Core, NewCore, NewWindow,
    Window, Generations

\* What is written to the event channel are events.
LEMMA SendWell ==
    ASSUME events \in Seq(Events), NEW kind \in {"Ready", "Cleared"}, NEW dirs,
           NEW g \in Generations, Send(kind, dirs, g)
    PROVE  events' \in Seq(Events)
<1>1. \A d \in Directions : Event(kind, d, g) \in Events
  BY Zenon DEF Event, Events
<1>2. Event(kind, "outbound", g) \in Events /\ Event(kind, "inbound", g) \in Events
  BY Zenon, <1>1 DEF Directions
<1> QED BY <1>2 DEF Send

\* The feed does not reach into the pump.
LEMMA SourceKept ==
    ASSUME IInv, SourceStep, UNCHANGED <<threadVars, pumpVars>>
    PROVE  IInv'
<1>1. UNCHANGED <<owner, carries, number, popped, frame, core>>
  BY Zenon DEF SourceStep, threadVars, pumpVars
<1>2. PICK g \in Generations :
        \/ /\ "outbound" \in carries[g] /\ g \notin expired /\ Select(g)
           /\ UNCHANGED <<expired, events>>
        \/ Retire(g) /\ UNCHANGED <<expired, events>>
        \/ Expire(g) /\ UNCHANGED events
        \/ MayFeed(g) /\ Feed(g) /\ UNCHANGED <<expired, events>>
        \/ Ready(g, carries[g]) /\ Send("Ready", carries[g], g) /\ UNCHANGED expired
        \/ \E dirs \in ClearsOf(g) :
              MayClear(g) /\ Clear(g, dirs) /\ Send("Cleared", dirs, g) /\ UNCHANGED expired
  BY Zenon DEF SourceStep
<1>3. current' \in Numbers
  BY Zenon, <1>2
  DEF IInv, TypeOK, Numbers, Select, Retire, Expire, Feed, Ready, Clear, feedVars
<1>4. channel' \in Seq(Generations)
  <2>1. channel' = channel \/ channel' = Append(channel, g)
    BY Zenon, <1>2 DEF Select, Retire, Expire, Feed, Ready, Clear, feedVars
  <2>2. channel \in Seq(Generations) /\ Append(channel, g) \in Seq(Generations)
    BY <1>2 DEF IInv, TypeOK
  <2> QED BY Zenon, <2>1, <2>2
<1>5. events' \in Seq(Events)
  BY Zenon, <1>2, SendWell DEF IInv, TypeOK
<1> QED BY Zenon, <1>1, <1>3, <1>4, <1>5 DEF IInv, TypeOK, WindowInv

\* An event that is applied sets a slot, if anything.
LEMMA ApplyKept ==
    ASSUME IInv, NEW t \in Threads, ApplyEvent(t)
    PROVE  IInv'
<1>1. PICK e \in Events : e = popped[t]
  BY Zenon DEF IInv, TypeOK, ApplyEvent
<1>2. e.dir \in Directions /\ e.gen \in Generations /\ 0 \in Numbers /\ e.gen \in Numbers
  BY Zenon DEF Events, Numbers
<1>3. \E g \in Numbers : core' \in {core, SetSlot(core, e.dir, g)}
  <2>1. CASE e.kind = "Ready"
    BY Zenon, <1>1, <1>2, <2>1, InstalledWell DEF ApplyEvent, IInv
  <2>2. CASE e.kind # "Ready"
    BY Zenon, <1>1, <1>2, <2>2 DEF ApplyEvent, ClearPeerSession, ClearSession
  <2> QED BY Zenon, <2>1, <2>2
<1>4. /\ UNCHANGED <<owner, carries, events, number, current, channel, frame>>
      /\ popped' = [popped EXCEPT ![t] = NoEvent]
  BY Zenon DEF ApplyEvent, sourceVars, feedVars
<1>5. core' \in Core(Generations) /\ WindowInv'
  BY Zenon, <1>2, <1>3, <1>4, SlotKept
<1> QED BY Zenon, <1>4, <1>5 DEF IInv, TypeOK

\* The two ways the outbound thread touches the core concern its outbound slot.
LEMMA PacketKept ==
    ASSUME IInv, TransportNotReady \/ HandlePacket
    PROVE  IInv'
<1>1. UNCHANGED <<owner, carries, events, number, current, channel, frame, popped>>
  BY Zenon DEF TransportNotReady, HandlePacket, sourceVars, feedVars
<1>2. core \in Core(Generations) /\ "outbound" \in Directions /\ 0 \in Numbers
  BY Zenon DEF IInv, TypeOK, Directions, Numbers
<1>3. PICK c \in Core(Generations) :
        /\ \E g \in Numbers : c \in {core, SetSlot(core, "outbound", g)}
        /\ core' = c \/ core' = Submit(c, expired)
  <2>1. CASE TransportNotReady
    BY Zenon, <1>2, <2>1, SetSlotWell DEF TransportNotReady, ClearDirection
  <2>2. CASE HandlePacket
    <3>1. \E g \in Numbers : CoreForPacket(current) \in {core, SetSlot(core, "outbound", g)}
      BY Zenon, <1>2, InstalledWell DEF CoreForPacket, ClearDirection, IInv, TypeOK, Numbers
    <3> QED BY Zenon, <1>2, <2>2, <3>1, SetSlotWell DEF HandlePacket
  <2> QED BY Zenon, <2>1, <2>2
<1>4. /\ core' \in Core(Generations)
      /\ core'.session = c.session /\ core'.window = c.window
  BY Zenon, <1>3, SubmitWell
<1>5. c.session["inbound"] = core.session["inbound"] /\ c.window = core.window
  BY <1>2, <1>3, SetSlotWell
<1>6. WindowInv'
  BY Zenon, <1>1, <1>4, <1>5 DEF IInv, WindowInv
<1> QED BY Zenon, <1>1, <1>4, <1>6 DEF IInv, TypeOK

\* A frame that the inbound thread takes has a number the window has not seen.
LEMMA TakeKept ==
    ASSUME IInv, NEW n \in 1 .. MaxNumber, TakeFrame(n)
    PROVE  IInv'
<1>1. PICK g \in Generations : g = Head(channel)
  BY DEF IInv, TypeOK, TakeFrame, Take
<1>2. /\ n > number[g] /\ number' = [number EXCEPT ![g] = n] /\ frame' = g
      /\ channel' = Tail(channel) /\ channel # <<>>
      /\ UNCHANGED <<owner, carries, events, current, popped, core>>
  BY Zenon, <1>1 DEF TakeFrame, Take, Numbered
<1>3. TypeOK'
  <2>1. n \in Nat /\ channel' \in Seq(Generations)
    BY <1>2, PumpAssumption DEF IInv, TypeOK
  <2> QED BY Zenon, <1>2, <2>1 DEF IInv, TypeOK, Numbers
<1>4. WindowInv'
  <2> SUFFICES ASSUME core.window.initialized
               PROVE  LET s == core.session["inbound"] IN
                      /\ s # 0 /\ core.window.highest <= number'[s]
                      /\ g = s => core.window.highest < number'[s]
    BY Zenon, <1>2 DEF WindowInv
  <2>1. PICK s \in Generations : s = core.session["inbound"]
    BY Zenon DEF IInv, TypeOK, WindowInv, Core, Directions
  <2>2. /\ core.window.highest \in Nat /\ number[s] \in Nat /\ n \in Nat
        /\ core.window.highest <= number[s] /\ s # 0
    BY <2>1, PumpAssumption DEF IInv, TypeOK, WindowInv, Core, Window
  <2>3. number'[s] = IF s = g THEN n ELSE number[s]
    BY Zenon, <1>2 DEF IInv, TypeOK
  <2> QED BY <1>2, <2>1, <2>2, <2>3
<1> QED BY Zenon, <1>3, <1>4 DEF IInv

\* The frame is handed over under its own lease, and its number enters the window.
LEMMA AcceptKept ==
    ASSUME IInv, AcceptTransportFrame
    PROVE  IInv'
<1>1. /\ frame \in Generations /\ frame' = 0
      /\ UNCHANGED <<owner, carries, events, number, current, channel, popped>>
  BY Zenon DEF IInv, TypeOK, Numbers, AcceptTransportFrame, sourceVars, feedVars
<1>2. CASE core' = core
  BY Zenon, <1>1, <1>2 DEF IInv, TypeOK, WindowInv, Numbers, Core, Generations
<1>3. CASE LeaseAdmits(frame)
  <2> DEFINE c == Installed("inbound", frame)
  <2>1. "inbound" \in Directions /\ frame \in Numbers /\ core \in Core(Generations)
        /\ number[frame] \in Nat /\ 0 \notin Generations
    BY <1>1 DEF Directions, Numbers, IInv, TypeOK, Generations
  <2>2. /\ c \in {core, SetSlot(core, "inbound", frame)}
        /\ c.session["inbound"] = frame
    BY Zenon, <1>1, <1>3, <2>1, InstalledWell DEF LeaseAdmits, IInv
  <2>3. c \in Core(Generations)
    BY <2>1, <2>2, SetSlotWell
  <2>4. c.window.initialized => c.window.highest < number[frame]
    BY <2>1, <2>2, SetSlotWell DEF IInv, WindowInv
  <2> HIDE DEF c
  <2>5. core' = AcceptFrame(c, expired, number[frame])
    BY Zenon, <1>3 DEF AcceptTransportFrame, c
  <2>6. /\ core' \in Core(Generations) /\ core'.session = c.session
        /\ core' = c \/ core'.window = Observe(c.window, number[frame])
    BY Zenon, <2>1, <2>3, <2>5, AcceptWell
  <2>7. c.window \in Window /\ c.window.highest \in Nat
    BY Zenon, <2>3 DEF Core, Window
  <2>8. core'.window.initialized => core'.window.highest <= number[frame]
    BY <2>1, <2>4, <2>6, <2>7, ObserveType
  <2>9. WindowInv'
    BY Zenon, <1>1, <2>1, <2>2, <2>6, <2>8 DEF WindowInv
  <2> QED BY Zenon, <1>1, <2>6, <2>9 DEF IInv, TypeOK, Numbers
<1> QED BY Zenon, <1>2, <1>3 DEF AcceptTransportFrame, pumpVars

\* Every step of the feed and of the two threads keeps the invariant.
LEMMA Inductive == IInv /\ [Next]_vars => IInv'
<1> SUFFICES ASSUME IInv, [Next]_vars PROVE IInv'
  BY Zenon
<1>1. ASSUME NEW t \in Threads, PopEvent(t) PROVE IInv'
  <2>1. /\ popped' = [popped EXCEPT ![t] = Head(events)] /\ events' = Tail(events)
        /\ events # <<>>
        /\ UNCHANGED <<owner, carries, number, current, channel, frame, core>>
    BY Zenon, <1>1 DEF PopEvent, feedVars
  <2>2. events' \in Seq(Events) /\ Head(events) \in Events
    BY <2>1 DEF IInv, TypeOK
  <2> QED BY Zenon, <2>1, <2>2 DEF IInv, TypeOK, WindowInv
<1>2. CASE TransportReady \/ UNCHANGED vars
  BY Zenon, <1>2
  DEF TransportReady, IInv, TypeOK, WindowInv, vars, sourceVars, feedVars, threadVars,
              pumpVars
<1> QED BY Zenon, <1>1, <1>2, SourceKept, ApplyKept, PacketKept, TakeKept, AcceptKept
        DEF Next

\* Events, frames and the core keep their types.
THEOREM TypeCorrect == Spec => []TypeOK
<1>1. IInv => TypeOK
  BY Zenon DEF IInv
<1> QED BY <1>1, InitHolds, Inductive, PTL DEF Spec

\* A session that numbers its packets from the start again meets a fresh window, also
\* when its generation was installed, cleared and installed again by the two threads:
\* accept_transport_frame calls no new frame a replay.
THEOREM NoFreshFrameIsReplayed == Spec => []FreshFrameNotReplayed
<1>1. IInv => FreshFrameNotReplayed
  <2> SUFFICES ASSUME IInv, frame # 0, LeaseAdmits(frame)
               PROVE  LET c == Installed("inbound", frame) IN
                      \/ Blocked(c, expired, "inbound")
                      \/ AcceptsFrame(c, expired, number[frame])
    BY Zenon DEF FreshFrameNotReplayed
  <2> DEFINE c == Installed("inbound", frame)
  <2>1. /\ "inbound" \in Directions /\ frame \in Generations /\ frame \in Numbers
        /\ core \in Core(Generations) /\ number[frame] \in Nat
    BY Zenon DEF Directions, Numbers, IInv, TypeOK
  <2>2. /\ c \in {core, SetSlot(core, "inbound", frame)}
        /\ c.session["inbound"] = frame
    BY Zenon, <2>1, InstalledWell DEF LeaseAdmits, IInv
  <2>3. c.window.initialized => number[frame] > c.window.highest
    BY <2>1, <2>2, SetSlotWell DEF IInv, WindowInv, Core, Window
  <2> HIDE DEF c
  <2>4. Accepts(c.window, number[frame])
    BY Zenon, <2>3 DEF Accepts
  <2>5. Blocked(c, expired, "inbound") \/ AcceptsFrame(c, expired, number[frame])
    BY Zenon, <2>4 DEF AcceptsFrame
  <2> QED BY Zenon, <2>5 DEF c
<1> QED BY <1>1, InitHolds, Inductive, PTL DEF Spec

\* handle_packets asks for the current session again under the lock: whatever the
\* threads have installed by then, the packet goes out under that session or not at all.
THEOREM PacketsUnderCurrent == Spec => [][EncodesUnderCurrent]_vars
<1>1. IInv /\ [Next]_vars => [EncodesUnderCurrent]_vars
  <2> SUFFICES ASSUME IInv, Next, lock = "out", lock' = "free"
               PROVE  core'.session["outbound"] \in {0, current}
    BY Zenon DEF EncodesUnderCurrent
  <2>1. HandlePacket
    BY Zenon DEF Next, threadVars, PopEvent, ApplyEvent, TransportNotReady, TransportReady,
           TakeFrame, AcceptTransportFrame
  <2>2. "outbound" \in Directions /\ 0 \in Numbers /\ core \in Core(Generations)
    BY Zenon DEF Directions, Numbers, IInv, TypeOK
  <2>3. CoreForPacket(current) \in Core(Generations)
    <3>1. \E g \in Numbers : CoreForPacket(current) \in {core, SetSlot(core, "outbound", g)}
      BY Zenon, <2>2, InstalledWell DEF CoreForPacket, ClearDirection, IInv, TypeOK, Numbers
    <3> QED BY <2>2, <3>1, SetSlotWell
  <2>4. CoreForPacket(current).session["outbound"] \in {0, current}
    BY <2>2, InstalledWell, SetSlotWell
    DEF CoreForPacket, ClearDirection, IInv, TypeOK, Numbers
  <2> QED BY Zenon, <2>1, <2>3, <2>4, SubmitWell DEF HandlePacket
<1> QED BY <1>1, InitHolds, Inductive, PTL DEF Spec

\* A frame changes the core only when its own lease is the inbound session there.
THEOREM FramesUnderOwnLease == Spec => FrameUnderItsOwnLease
<1> DEFINE Own == frame # 0 /\ frame' = 0 /\ core' # core => core'.session["inbound"] = frame
<1>1. IInv /\ [Next]_vars => [Own]_vars
  <2> SUFFICES ASSUME IInv, Next, frame # 0, frame' = 0, core' # core
               PROVE  core'.session["inbound"] = frame
    BY Zenon
  <2>1. frame \in Generations /\ number[frame] \in Nat /\ "inbound" \in Directions
        /\ frame \in Numbers /\ core \in Core(Generations)
    BY Zenon DEF IInv, TypeOK, Numbers, Directions
  <2>2. AcceptTransportFrame /\ LeaseAdmits(frame)
    BY Zenon DEF Next, threadVars, pumpVars, PopEvent, ApplyEvent, TransportNotReady,
           TransportReady, HandlePacket, TakeFrame, AcceptTransportFrame, Free
  <2> DEFINE c == Installed("inbound", frame)
  <2>3. c.session["inbound"] = frame /\ c \in {core, SetSlot(core, "inbound", frame)}
    BY Zenon, <2>1, <2>2, InstalledWell DEF LeaseAdmits, IInv
  <2>4. c \in Core(Generations)
    BY <2>1, <2>3, SetSlotWell
  <2>5. core' = AcceptFrame(c, expired, number[frame])
    BY Zenon, <2>2 DEF AcceptTransportFrame
  <2> HIDE DEF c
  <2> QED BY <2>1, <2>3, <2>4, <2>5, AcceptWell
<1> QED BY <1>1, InitHolds, Inductive, PTL DEF Spec, FrameUnderItsOwnLease
=============================================================================

------------------------ MODULE FrameProtectionProofs -----------------------
(***************************************************************************)
(* Replay protection and counter uniqueness of FrameProtection, for every  *)
(* window width, counter width, payload set and number of sessions.        *)
(***************************************************************************)
EXTENDS FrameProtection, TLAPS

\* What the window knows about the live session: nothing before the first
\* frame; afterwards "highest" is the newest opened frame, and the bitmap is
\* exact.
WindowTracksOpened ==
    /\ rxWindow.highest \in Counters
    /\ ~rxWindow.initialized => \A c \in Counters : opened[rxKey][c] = 0
    /\ rxWindow.initialized =>
          /\ 0 \in rxWindow.bitmap
          /\ \A c \in Counters : opened[rxKey][c] > 0 => c <= rxWindow.highest
    /\ WindowIsExact

\* Sessions the receiver has not reached have opened nothing, and counter 0 is
\* never opened.
FutureUnopened ==
    /\ \A k \in Keys : k > rxKey => \A c \in Counters : opened[k][c] = 0
    /\ \A k \in Keys : opened[k][0] = 0

\* Frames on the wire stem from sessions the sender has reached; those of the
\* live one used counters below the next one.
WireIsPast ==
    \A f \in wire : f.key <= txKey /\ (f.key = txKey => f.counter < nextTx)

IInv ==
    /\ TypeOK
    /\ OpenedAtMostOnce
    /\ WindowTracksOpened
    /\ FutureUnopened
    /\ WireIsPast
    /\ CounterNeverReused

-----------------------------------------------------------------------------
\* observe() keeps a window well-formed (replay.rs).
LEMMA ObserveType ==
    ASSUME NEW w \in Window, NEW n \in Nat
    PROVE  Observe(w, n) \in Window
<1> USE WindowBitsAssumption
<1>1. CASE ~Accepts(w, n)
  BY Zenon, <1>1 DEF Observe
<1>2. CASE Accepts(w, n) /\ ~w.initialized
  BY <1>2 DEF Observe, Window, Bits
<1>3. CASE Accepts(w, n) /\ w.initialized /\ n > w.highest
  <2>1. Observe(w, n) = [initialized |-> TRUE, highest |-> n,
                         bitmap |-> Shifted(w.bitmap, n - w.highest) \cup {0}]
    BY Zenon, <1>3 DEF Observe, Window
  <2>2. Shifted(w.bitmap, n - w.highest) \cup {0} \in SUBSET Bits
    BY DEF Shifted, Bits
  <2> QED BY <2>1, <2>2 DEF Window
<1>4. CASE Accepts(w, n) /\ w.initialized /\ n <= w.highest
  <2>1. Observe(w, n) = [initialized |-> TRUE, highest |-> w.highest,
                         bitmap |-> w.bitmap \cup {w.highest - n}]
    BY <1>4 DEF Observe, Window
  <2>2. w.bitmap \cup {w.highest - n} \in SUBSET Bits
    BY <1>4 DEF Accepts, Bits, Window
  <2> QED BY <2>1, <2>2 DEF Window
<1> QED BY <1>1, <1>2, <1>3, <1>4 DEF Window

\* A fresh protector at both ends.
LEMMA InitIInv == Init => IInv
BY FrameAssumption, WindowBitsAssumption
DEF Init, IInv, TypeOK, Keys, Counters, Window, NewWindow, Bits, OpenedAtMostOnce,
    WindowTracksOpened, WindowIsExact, FutureUnopened, WireIsPast, CounterNeverReused

\* protect() takes the next counter and puts the frame on the wire.
LEMMA ProtectIInv ==
    ASSUME IInv, NEW p \in Payloads, Protect(p)
    PROVE  IInv'
<1> USE FrameAssumption
<1>1. nextTx \in Counters \ {0} /\ nextTx' \in Counters \ {0} /\ nextTx' >= nextTx
  BY DEF IInv, TypeOK, Protect, NextCounter, Counters
<1>2. TypeOK'
  BY <1>1 DEF IInv, TypeOK, Protect, Frame
<1>3. OpenedAtMostOnce' /\ WindowTracksOpened' /\ FutureUnopened'
  BY Zenon
  DEF IInv, Protect, OpenedAtMostOnce, WindowTracksOpened, WindowIsExact, FutureUnopened
<1>4. CASE NextCounter = nextTx
  BY Zenon, <1>2, <1>3, <1>4 DEF IInv, Protect, WireIsPast, CounterNeverReused
<1>5. CASE NextCounter # nextTx
  <2> DEFINE new == [key |-> txKey, counter |-> nextTx, payload |-> p]
  <2>1. wire' = wire \cup {new} /\ nextTx' = nextTx + 1 /\ txKey' = txKey
    <3>1. wire' = wire \cup {new} /\ txKey' = txKey /\ nextTx' = NextCounter
      BY Zenon, <1>5 DEF Protect
    <3>2. NextCounter = nextTx + 1
      BY Zenon, <1>5 DEF NextCounter
    <3> QED BY Zenon, <3>1, <3>2
  <2>2. txKey \in Nat /\ nextTx \in Nat /\ \A f \in wire : f.counter \in Nat /\ f.key \in Nat
    <3>1. Keys \subseteq Nat /\ Counters \subseteq Nat
      BY DEF Keys, Counters
    <3>2. \A f \in wire : f \in Frame
      BY Zenon DEF IInv, TypeOK
    <3>3. \A f \in Frame : f.counter \in Counters /\ f.key \in Keys
      BY Zenon DEF Frame
    <3> QED BY Zenon, <1>1, <3>1, <3>2, <3>3 DEF IInv, TypeOK
  <2>3. WireIsPast'
    BY <2>1, <2>2 DEF IInv, WireIsPast
  <2>4. \A f \in wire : ~(f.key = new.key /\ f.counter = new.counter)
    BY <2>2 DEF IInv, WireIsPast
  <2>5. CounterNeverReused'
    BY <2>1, <2>4 DEF IInv, CounterNeverReused
  <2> QED BY Zenon, <1>2, <1>3, <2>3, <2>5 DEF IInv
<1> QED BY Zenon, <1>4, <1>5

\* open() of any frame that was ever sent.
LEMMA OpenIInv ==
    ASSUME IInv, NEW f \in wire, Open(f)
    PROVE  IInv'
<1> USE FrameAssumption, WindowBitsAssumption
<1>0. /\ f \in Frame /\ f.key \in Keys /\ f.counter \in Counters /\ f.counter \in Nat
      /\ rxWindow \in Window /\ rxKey \in Keys
      /\ opened \in [Keys -> [Counters -> Nat]]
  BY DEF IInv, TypeOK, Frame, Counters
<1>00. f.counter \in 0 .. MaxCounter /\ MaxCounter \in Nat
  BY Zenon, <1>0 DEF Counters
<1>1. CASE ~(f.counter # 0 /\ TagVerifies(f) /\ Accepts(rxWindow, f.counter))
  <2>1. UNCHANGED vars
    BY Zenon, <1>1 DEF Open, Observed, Observe, vars
  <2> QED BY Zenon, <2>1 DEF vars, IInv, TypeOK, OpenedAtMostOnce, WindowTracksOpened,
             WindowIsExact, FutureUnopened, WireIsPast, CounterNeverReused
<1>2. CASE f.counter # 0 /\ TagVerifies(f) /\ Accepts(rxWindow, f.counter)
  <2> DEFINE n == f.counter
  <2>1. /\ f.key = rxKey
        /\ rxWindow' = Observe(rxWindow, n)
        /\ opened' = [opened EXCEPT ![rxKey][n] = @ + 1]
        /\ UNCHANGED <<txKey, nextTx, rxKey, wire>>
    BY Zenon, <1>2 DEF Open, Observed, TagVerifies
  <2>2. opened' \in [Keys -> [Counters -> Nat]]
    BY <1>0, <2>1
  <2>3. /\ \A k \in Keys, c \in Counters :
              opened'[k][c] = IF k = rxKey /\ c = n THEN opened[k][c] + 1 ELSE opened[k][c]
    BY Zenon, <1>0, <2>1
  <2>4. rxWindow' \in Window
    BY Zenon, <1>0, <2>1, ObserveType
  <2>5. opened[rxKey][n] = 0
    <3>1. CASE ~rxWindow.initialized
      BY Zenon, <1>0, <3>1 DEF IInv, WindowTracksOpened
    <3>2. CASE rxWindow.initialized /\ n > rxWindow.highest
      <4>1. opened[rxKey][n] > 0 => n <= rxWindow.highest
        BY Zenon, <1>0, <3>2 DEF IInv, WindowTracksOpened
      <4> QED BY <1>0, <3>2, <4>1 DEF Window
    <3>3. CASE rxWindow.initialized /\ n <= rxWindow.highest
      <4> DEFINE d == rxWindow.highest - n
      <4>1. d \in Bits /\ d \notin rxWindow.bitmap
        BY <1>0, <1>2, <3>3 DEF Accepts, Bits, Window
      <4>2. d < rxWindow.highest /\ rxWindow.highest - d = n
        BY <1>0, <1>2, <3>3 DEF Window
      <4>3. ~(opened[rxKey][n] > 0)
        BY Zenon, <3>3, <4>1, <4>2 DEF IInv, WindowTracksOpened, WindowIsExact
      <4> QED BY <1>0, <4>3
    <3> QED BY <1>0, <3>1, <3>2, <3>3 DEF Window
  <2>6. TypeOK'
    BY Zenon, <1>0, <2>1, <2>2, <2>4 DEF IInv, TypeOK
  <2>7. OpenedAtMostOnce'
    BY <1>0, <2>3, <2>5 DEF IInv, OpenedAtMostOnce
  <2>8. WindowTracksOpened'
    <3>1. CASE ~rxWindow.initialized
      <4>1. rxWindow' = [initialized |-> TRUE, highest |-> n, bitmap |-> {0}]
        BY Zenon, <1>0, <1>2, <2>1, <3>1 DEF Observe
      <4>2. \A c \in Counters : opened'[rxKey][c] > 0 <=> c = n
        BY <1>0, <2>3, <3>1 DEF IInv, WindowTracksOpened
      <4>3. ASSUME NEW d \in Bits, d < n PROVE n - d \in Counters /\ n - d \in Nat
        <5>1. d \in Nat /\ n \in 0 .. MaxCounter /\ MaxCounter \in Nat
          BY <1>0, WindowBitsAssumption, FrameAssumption DEF Bits, Counters
        <5> QED BY <4>3, <5>1 DEF Counters
      <4>4. WindowIsExact'
        <5>1. \A d \in Bits : d \in {0} <=> d < n /\ opened'[rxKey][n - d] > 0
          <6> SUFFICES ASSUME NEW d \in Bits
                       PROVE  d = 0 <=> d < n /\ opened'[rxKey][n - d] > 0
            BY Zenon
          <6>1. d \in Nat /\ n \in Nat \ {0} /\ n \in Counters
            BY <1>0, <1>2 DEF Bits, Counters
          <6>2. CASE d < n
            <7>1. n - d \in Counters /\ (n - d = n <=> d = 0)
              BY <4>3, <6>1, <6>2
            <7> QED BY Zenon, <4>2, <6>2, <7>1
          <6>3. CASE ~(d < n)
            BY <6>1, <6>3
          <6> QED BY Zenon, <6>2, <6>3
        <5>2. rxWindow'.highest = n /\ rxWindow'.bitmap = {0} /\ rxKey' = rxKey
          BY <2>1, <4>1
        <5> QED BY Zenon, <5>1, <5>2 DEF WindowIsExact
      <4> QED BY <1>0, <2>1, <4>1, <4>2, <4>4 DEF WindowTracksOpened, Counters
    <3>2. CASE rxWindow.initialized /\ n > rxWindow.highest
      <4> DEFINE h == rxWindow.highest
      <4>1. /\ rxWindow'.initialized
            /\ rxWindow'.highest = n
            /\ rxWindow'.bitmap = Shifted(rxWindow.bitmap, n - h) \cup {0}
        <5>1. rxWindow' = [initialized |-> TRUE, highest |-> n,
                           bitmap |-> Shifted(rxWindow.bitmap, n - h) \cup {0}]
          BY Zenon, <1>0, <1>2, <2>1, <3>2 DEF Observe, Window
        <5> QED BY Zenon, <5>1, <1>0, <3>2 DEF Window
      <4>2. \A c \in Counters : opened'[rxKey][c] > 0 => c <= n
        <5>1. \A c \in Counters : opened[rxKey][c] > 0 => c <= h
          BY Zenon, <3>2 DEF IInv, WindowTracksOpened
        <5>2. h \in Nat /\ \A c \in Counters : c \in Nat
          BY <1>0 DEF Window, Counters
        <5> QED BY <1>0, <2>3, <3>2, <5>1, <5>2
      <4>3. ASSUME NEW d \in Bits
            PROVE  d \in rxWindow'.bitmap <=> (d < n /\ opened'[rxKey][n - d] > 0)
        <5> h \in Nat /\ n \in Nat /\ d \in Nat /\ n > h
          BY <1>0, <3>2 DEF Window, Bits
        <5>1. CASE d = 0
          BY <1>0, <1>2, <2>3, <4>1, <5>1
        <5>2. CASE d # 0 /\ d < n - h
          <6>1. d \notin rxWindow'.bitmap
            BY <1>0, <4>1, <5>2 DEF Shifted, Window, Bits
          <6>2. n - d > h /\ n - d # n /\ n - d \in Counters
            BY <1>00, <5>2 DEF Counters
          <6>3. ~(opened[rxKey][n - d] > 0)
            BY <6>2, <3>2 DEF IInv, WindowTracksOpened, Counters
          <6> QED BY Zenon, <1>0, <2>3, <6>1, <6>2, <6>3
        <5>3. CASE d # 0 /\ d >= n - h
          <6> DEFINE e == d - (n - h)
          <6>1. e \in Bits /\ h - e = n - d /\ (d < n <=> e < h)
            BY <5>3 DEF Bits
          <6>2. d \in rxWindow'.bitmap <=> e \in rxWindow.bitmap
            <7>1. d \in rxWindow'.bitmap <=>
                     (\E b \in rxWindow.bitmap : d = b + (n - h))
              BY Zenon, <4>1, <5>3 DEF Shifted
            <7>2. \A b \in rxWindow.bitmap : b \in Nat
              BY <1>0 DEF Window, Bits
            <7>3. \A b \in Nat : d = b + (n - h) <=> b = e
              OBVIOUS
            <7> QED BY Zenon, <7>1, <7>2, <7>3, <6>1 DEF Bits
          <6>3. e \in rxWindow.bitmap <=> (e < h /\ opened[rxKey][h - e] > 0)
            BY Zenon, <3>2, <6>1 DEF IInv, WindowTracksOpened, WindowIsExact
          <6>4. d < n => n - d \in Counters /\ n - d # n
            BY <1>00, <5>3 DEF Counters
          <6>5. d < n => opened'[rxKey][n - d] = opened[rxKey][n - d]
            BY Zenon, <1>0, <2>3, <6>4
          <6> QED BY Zenon, <6>1, <6>2, <6>3, <6>5
        <5> QED BY <5>1, <5>2, <5>3
      <4>4. WindowIsExact'
        BY Zenon, <2>1, <4>1, <4>3 DEF WindowIsExact
      <4> QED BY Zenon, <1>0, <2>1, <4>1, <4>2, <4>4 DEF WindowTracksOpened
    <3>3. CASE rxWindow.initialized /\ n <= rxWindow.highest
      <4> DEFINE h == rxWindow.highest
      <4>1. /\ rxWindow'.initialized
            /\ rxWindow'.highest = h
            /\ rxWindow'.bitmap = rxWindow.bitmap \cup {h - n}
        <5>1. rxWindow' = [initialized |-> TRUE, highest |-> h,
                           bitmap |-> rxWindow.bitmap \cup {h - n}]
          BY <1>0, <1>2, <2>1, <3>3 DEF Observe, Window
        <5> QED BY Zenon, <5>1, <1>0, <3>3 DEF Window
      <4>2. \A c \in Counters : opened'[rxKey][c] > 0 => c <= h
        BY Zenon, <1>0, <2>3, <3>3 DEF IInv, WindowTracksOpened, Window, Counters
      <4>3. ASSUME NEW d \in Bits
            PROVE  d \in rxWindow'.bitmap <=> (d < h /\ opened'[rxKey][h - d] > 0)
        <5> h \in Nat /\ n \in Nat /\ d \in Nat /\ n <= h /\ n # 0
          BY <1>0, <1>2, <3>3 DEF Window, Bits
        <5>1. d \in rxWindow.bitmap <=> (d < h /\ opened[rxKey][h - d] > 0)
          BY Zenon, <3>3 DEF IInv, WindowTracksOpened, WindowIsExact
        <5>2. CASE d = h - n
          BY <1>0, <2>3, <2>5, <4>1, <5>2
        <5>3. CASE d # h - n
          <6>1. h - d # n
            BY <5>3
          <6>2. d \in rxWindow'.bitmap <=> d \in rxWindow.bitmap
            BY Zenon, <4>1, <5>3
          <6>3. h - d \in Counters => opened'[rxKey][h - d] = opened[rxKey][h - d]
            BY Zenon, <1>0, <2>3, <6>1
          <6>4. h \in Counters
            BY Zenon DEF IInv, WindowTracksOpened
          <6> QED BY <5>1, <6>2, <6>3, <6>4 DEF Counters
        <5> QED BY Zenon, <5>2, <5>3
      <4>4. WindowIsExact'
        BY Zenon, <2>1, <4>1, <4>3 DEF WindowIsExact
      <4>5. h \in Counters
        BY Zenon DEF IInv, WindowTracksOpened
      <4>6. 0 \in rxWindow.bitmap
        BY Zenon, <3>3 DEF IInv, WindowTracksOpened
      <4> QED BY Zenon, <2>1, <4>1, <4>2, <4>4, <4>5, <4>6 DEF WindowTracksOpened
    <3> QED BY <1>0, <3>1, <3>2, <3>3 DEF Window, Counters
  <2>9. FutureUnopened'
    <3>1. 0 \in Counters /\ n # 0
      BY <1>2 DEF Counters
    <3>2. \A k \in Keys : k > rxKey => k # rxKey
      BY <1>0 DEF Keys
    <3> QED BY <2>1, <2>3, <3>1, <3>2 DEF IInv, FutureUnopened
  <2>10. WireIsPast' /\ CounterNeverReused'
    BY Zenon, <2>1 DEF IInv, WireIsPast, CounterNeverReused
  <2> QED BY Zenon, <2>6, <2>7, <2>8, <2>9, <2>10 DEF IInv
<1> QED BY Zenon, <1>1, <1>2

\* Either end moves on to the keys of a new session.
LEMMA NewSessionIInv ==
    ASSUME IInv, NEW k \in Keys, NewTxSession(k) \/ NewRxSession(k)
    PROVE  IInv'
<1> USE FrameAssumption, WindowBitsAssumption
<1>1. CASE NewTxSession(k)
  <2>1. TypeOK' /\ OpenedAtMostOnce' /\ WindowTracksOpened' /\ FutureUnopened'
    BY <1>1 DEF NewTxSession, IInv, TypeOK, Counters, OpenedAtMostOnce,
                WindowTracksOpened, WindowIsExact, FutureUnopened
  <2>2. WireIsPast' /\ CounterNeverReused'
    BY <1>1 DEF NewTxSession, IInv, TypeOK, WireIsPast, CounterNeverReused, Frame, Keys
  <2> QED BY Zenon, <2>1, <2>2 DEF IInv
<1>2. CASE NewRxSession(k)
  <2>1. TypeOK' /\ OpenedAtMostOnce' /\ WireIsPast' /\ CounterNeverReused'
    BY Zenon, <1>2
    DEF NewRxSession, IInv, TypeOK, NewWindow, Window, Bits, OpenedAtMostOnce,
                WireIsPast, CounterNeverReused
  <2>2. WindowTracksOpened'
    BY <1>2 DEF NewRxSession, IInv, NewWindow, WindowTracksOpened, WindowIsExact,
                FutureUnopened, Counters
  <2>3. FutureUnopened'
    BY <1>2 DEF NewRxSession, IInv, TypeOK, FutureUnopened, Keys
  <2> QED BY Zenon, <2>1, <2>2, <2>3 DEF IInv
<1> QED BY Zenon, <1>1, <1>2

\* The invariant is inductive,
LEMMA NextIInv == IInv /\ [Next]_vars => IInv'
<1> SUFFICES ASSUME IInv, [Next]_vars PROVE IInv'
  BY Zenon
<1>1. CASE UNCHANGED vars
  BY Zenon, <1>1 DEF vars, IInv, TypeOK, OpenedAtMostOnce, WindowTracksOpened,
             WindowIsExact, FutureUnopened, WireIsPast, CounterNeverReused
<1>2. CASE \E p \in Payloads : Protect(p)
  BY Zenon, <1>2, ProtectIInv
<1>3. CASE \E f \in wire : Open(f)
  BY Zenon, <1>3, OpenIInv
<1>4. CASE \E k \in Keys : NewTxSession(k) \/ NewRxSession(k)
  BY Zenon, <1>4, NewSessionIInv
<1> QED BY Zenon, <1>1, <1>2, <1>3, <1>4 DEF Next

\* and so holds throughout.
LEMMA SpecIInv == Spec => []IInv
BY InitIInv, NextIInv, PTL DEF Spec

\* The state of a frame channel stays within its types: counters never leave
\* their width, and the bitmap never leaves the window.
THEOREM TypeCorrect == Spec => []TypeOK
<1>1. IInv => TypeOK
  BY Zenon DEF IInv
<1> QED BY <1>1, SpecIInv, PTL

\* open() lets no protected frame through twice, for any window width.
THEOREM ReplayProtection == Spec => []OpenedAtMostOnce
<1>1. IInv => OpenedAtMostOnce
  BY Zenon DEF IInv
<1> QED BY <1>1, SpecIInv, PTL

\* protect() never uses a key and counter for two payloads, for any counter
\* width, because it fails at the last value instead of wrapping.
THEOREM CounterUniqueness == Spec => []CounterNeverReused
<1>1. IInv => CounterNeverReused
  BY Zenon DEF IInv
<1> QED BY <1>1, SpecIInv, PTL

\* open() refuses no frame that a window of this width could still tell from a
\* repetition, for any window width.
THEOREM NoFalseRejection == Spec => []FreshFrameIsAccepted
<1>1. IInv => FreshFrameIsAccepted
  <2> SUFFICES ASSUME IInv, NEW f \in wire,
                      f.key = rxKey, opened[rxKey][f.counter] = 0,
                      \A c \in Counters : opened[rxKey][c] > 0 => c < f.counter + WindowBits,
                      rxWindow.initialized, ~(f.counter > rxWindow.highest)
               PROVE  /\ rxWindow.highest - f.counter < WindowBits
                      /\ rxWindow.highest - f.counter \notin rxWindow.bitmap
    BY Zenon DEF FreshFrameIsAccepted, Accepts
  <2> DEFINE h == rxWindow.highest
             n == f.counter
             d == h - n
  <2>1. n \in Nat /\ h \in Nat /\ h \in Counters /\ n <= h
    BY DEF IInv, TypeOK, Frame, Counters, WindowTracksOpened
  <2>2. 0 \in Bits /\ WindowBits \in Nat
    BY WindowBitsAssumption DEF Bits
  <2>3. 0 \in rxWindow.bitmap
    BY Zenon DEF IInv, WindowTracksOpened
  <2>4. opened[rxKey][h - 0] > 0
    BY Zenon, <2>2, <2>3 DEF IInv, WindowTracksOpened, WindowIsExact
  <2>5. h < n + WindowBits
    BY <2>1, <2>4
  <2>6. d \in Bits /\ d < WindowBits /\ h - d = n
    BY <2>1, <2>2, <2>5 DEF Bits
  <2>7. d \in rxWindow.bitmap => opened[rxKey][n] > 0
    BY Zenon, <2>6 DEF IInv, WindowTracksOpened, WindowIsExact
  <2> QED BY <2>6, <2>7
<1> QED BY <1>1, SpecIInv, PTL

\* The receive window only ever moves for a frame that open() let through.
THEOREM WindowMovesOnlyForOpened == Spec => OnlyOpenedFramesMoveTheWindow
<1> DEFINE Moves == rxWindow' # rxWindow =>
                      \/ rxKey' # rxKey
                      \/ \E c \in Counters : opened'[rxKey][c] = opened[rxKey][c] + 1
<1>1. IInv /\ [Next]_vars => [Moves]_vars
  <2> SUFFICES ASSUME IInv, Next, rxWindow' # rxWindow
               PROVE  \/ rxKey' # rxKey
                      \/ \E c \in Counters : opened'[rxKey][c] = opened[rxKey][c] + 1
    BY Zenon DEF vars
  <2>1. CASE \E f \in wire : Open(f)
    <3> PICK f \in wire : Open(f)
      BY Zenon, <2>1
    <3>1. /\ f.key = rxKey
          /\ opened' = [opened EXCEPT ![f.key][f.counter] = @ + 1]
      BY Zenon DEF Open, Observed, Observe, TagVerifies
    <3>2. /\ f.counter \in Counters /\ rxKey \in Keys
          /\ opened \in [Keys -> [Counters -> Nat]]
      BY Zenon DEF IInv, TypeOK, Frame
    <3> QED BY Zenon, <3>1, <3>2
  <2>2. CASE \E k \in Keys : NewRxSession(k)
    BY <2>2 DEF NewRxSession, IInv, TypeOK, Keys
  <2>3. CASE (\E p \in Payloads : Protect(p)) \/ (\E k \in Keys : NewTxSession(k))
    BY Zenon, <2>3 DEF Protect, NewTxSession
  <2> QED BY Zenon, <2>1, <2>2, <2>3 DEF Next
<1> QED BY <1>1, SpecIInv, PTL DEF Spec, OnlyOpenedFramesMoveTheWindow

=============================================================================

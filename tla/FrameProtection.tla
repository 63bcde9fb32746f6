-------------------------- MODULE FrameProtection ---------------------------
(***************************************************************************)
(* The protected-frame channel of one direction of a PQC session           *)
(* (qlink-core/src/pqc_frame.rs).  Two hosts run sessions one after the    *)
(* other; each session has its own directional key, its own transmit       *)
(* counter at the sender and its own replay window at the receiver.        *)
(*                                                                         *)
(* Frames travel over UDP or a relay: any frame ever put on the wire may   *)
(* be delivered late, out of order, again, or never, and a late frame of   *)
(* an old session may reach the protector of a newer one.  A frame is      *)
(* known by the key its tag was computed with, its counter and its         *)
(* payload; what the key stream and the tag do is abstracted to: the tag   *)
(* verifies under exactly the key that made it.                            *)
(***************************************************************************)
EXTENDS Naturals, ReplayWindow

CONSTANTS
    Sessions,    \* how many sessions follow one another
    Payloads,    \* the plaintext frames
    MaxCounter   \* u64::MAX in the code: the largest counter value

ASSUME FrameAssumption ==
    /\ Sessions \in Nat \ {0}
    /\ Payloads # {}
    /\ MaxCounter \in Nat \ {0}

\* One key per session, numbered in the order the sessions are set up.
Keys == 1 .. Sessions

Counters == 0 .. MaxCounter

VARIABLES
    txKey,      \* key of the protector the sender uses now
    nextTx,     \* its next_tx_counter
    rxKey,      \* key of the protector the receiver uses now
    rxWindow,   \* its rx_window
    wire,       \* every frame handed to the carrier so far
    opened      \* opened[k][c] = how many frames <<k, c>> open() let through

vars == <<txKey, nextTx, rxKey, rxWindow, wire, opened>>

Frame == [key : Keys, counter : Counters, payload : Payloads]

Init ==
    /\ txKey = 1
    /\ nextTx = 1
    /\ rxKey = 1
    /\ rxWindow = NewWindow
    /\ wire = {}
    /\ opened = [k \in Keys |-> [c \in Counters |-> 0]]

-----------------------------------------------------------------------------

\* checked_add(1): at u64::MAX the call fails, and the counter keeps its value.
NextCounter == IF nextTx = MaxCounter THEN nextTx ELSE nextTx + 1

\* PqcFrameProtector::protect: the frame carries the counter that was current;
\* when the increment overflows, the call fails and no frame leaves.
Protect(p) ==
    /\ nextTx' = NextCounter
    /\ wire' = IF NextCounter = nextTx THEN wire
               ELSE wire \cup {[key |-> txKey, counter |-> nextTx, payload |-> p]}
    /\ UNCHANGED <<txKey, rxKey, rxWindow, opened>>

TagVerifies(f) == f.key = rxKey

\* The receive window after open(): the tag comes first, and only a frame that
\* passes it is shown to the window.
Observed(f) ==
    IF f.counter # 0 /\ TagVerifies(f) THEN Observe(rxWindow, f.counter) ELSE rxWindow

\* PqcFrameProtector::open of a frame that arrives.  Length, magic, version
\* and counter # 0 come first, then the tag, and only then the window; a frame
\* refused at any point leaves the protector as it was.
Open(f) ==
    LET accepted == f.counter # 0 /\ TagVerifies(f) /\ Accepts(rxWindow, f.counter)
    IN /\ rxWindow' = Observed(f)
       /\ opened' = IF accepted
                    THEN [opened EXCEPT ![f.key][f.counter] = @ + 1] ELSE opened
       /\ UNCHANGED <<txKey, nextTx, rxKey, wire>>

\* The sender, then the receiver, finishes a fresh handshake: PqcFrameProtector::new
\* with the keys of the new session.  The two ends switch at different times.
NewTxSession(k) ==
    /\ k > txKey
    /\ txKey' = k
    /\ nextTx' = 1
    /\ UNCHANGED <<rxKey, rxWindow, wire, opened>>

NewRxSession(k) ==
    /\ k > rxKey
    /\ rxKey' = k
    /\ rxWindow' = NewWindow
    /\ UNCHANGED <<txKey, nextTx, wire, opened>>

Next ==
    \/ \E p \in Payloads : Protect(p)
    \/ \E f \in wire : Open(f)
    \/ \E k \in Keys : NewTxSession(k)
    \/ \E k \in Keys : NewRxSession(k)

Spec == Init /\ [][Next]_vars

-----------------------------------------------------------------------------
TypeOK ==
    /\ txKey \in Keys /\ rxKey \in Keys
    /\ nextTx \in Counters \ {0}
    /\ rxWindow \in Window
    /\ wire \subseteq Frame
    /\ opened \in [Keys -> [Counters -> Nat]]

\* Replay protection: whatever the network repeats, reorders or holds back
\* across a change of session, open() lets each protected frame through at
\* most once.
OpenedAtMostOnce == \A k \in Keys, c \in Counters : opened[k][c] <= 1

\* The key stream of pqc_frame is derived from key and counter alone, so two
\* payloads must never be protected under the same key and counter, also when
\* the counter is exhausted and when a session is replaced.
CounterNeverReused ==
    \A f, g \in wire :
        f.key = g.key /\ f.counter = g.counter => f.payload = g.payload

\* The window is exact: inside it, the bit at distance d says whether the
\* current session opened the frame that far behind the newest one.
WindowIsExact ==
    rxWindow.initialized =>
        \A d \in Bits :
            d \in rxWindow.bitmap <=>
                /\ d < rxWindow.highest
                /\ opened[rxKey][rxWindow.highest - d] > 0

\* Nothing but an opened frame moves the window, so a frame of an old session,
\* or one already seen, cannot push the frames of the live session out of it.
OnlyOpenedFramesMoveTheWindow ==
    [][rxWindow' # rxWindow =>
         \/ rxKey' # rxKey
         \/ \E c \in Counters : opened'[rxKey][c] = opened[rxKey][c] + 1]_vars

\* No false alarm: a frame of the live session that was never opened and lies
\* less than a window behind the newest opened one is still accepted.
FreshFrameIsAccepted ==
    \A f \in wire :
        /\ f.key = rxKey
        /\ opened[rxKey][f.counter] = 0
        /\ \A c \in Counters :
              opened[rxKey][c] > 0 => c < f.counter + WindowBits
        => Accepts(rxWindow, f.counter)

=============================================================================

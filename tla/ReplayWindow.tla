---------------------------- MODULE ReplayWindow ----------------------------
(***************************************************************************)
(* The sliding replay window of qlink-core/src/replay.rs, as operators on  *)
(* a record.  The code keeps a u128 bitmap; here a bitmap is the set of    *)
(* the positions of its one bits.  WindowBits is 128 in the code.          *)
(*                                                                         *)
(* Two places own a window: PqcFrameProtector (one per PQC session) and    *)
(* PacketTunnelCore (one per inbound packet session).                      *)
(***************************************************************************)
EXTENDS Naturals

CONSTANT WindowBits

ASSUME WindowBitsAssumption == WindowBits \in Nat \ {0}

Bits == 0 .. WindowBits - 1

Window == [initialized : BOOLEAN, highest : Nat, bitmap : SUBSET Bits]

NewWindow == [initialized |-> FALSE, highest |-> 0, bitmap |-> {}]

\* A window test that forgets the lower edge: an ancient number whose bit has
\* been shifted out counts as new.
AcceptsWithoutLowerEdge(w, n) ==
    \/ ~w.initialized
    \/ n > w.highest
    \/ w.highest - n \notin w.bitmap

\* A window one number short: the oldest position it still covers is refused.
AcceptsOneShort(w, n) ==
    \/ ~w.initialized
    \/ n > w.highest
    \/ /\ w.highest - n < WindowBits - 1
       /\ w.highest - n \notin w.bitmap

\* observe() returns TRUE exactly for these packet numbers.
Accepts(w, n) ==
    \/ ~w.initialized
    \/ n > w.highest
    \/ /\ w.highest - n < WindowBits
       /\ w.highest - n \notin w.bitmap

\* bitmap << shift.  The code treats shift >= 128 apart because a u128 cannot
\* be shifted that far; the surviving bits are the same ones: none.
Shifted(bitmap, shift) == {b + shift : b \in bitmap} \cap Bits

\* The window that observe() leaves behind.
Observe(w, n) ==
    IF ~Accepts(w, n) THEN w
    ELSE IF ~w.initialized THEN
        [initialized |-> TRUE, highest |-> n, bitmap |-> {0}]
    ELSE IF n > w.highest THEN
        [initialized |-> TRUE, highest |-> n,
         bitmap |-> Shifted(w.bitmap, n - w.highest) \cup {0}]
    ELSE
        [initialized |-> TRUE, highest |-> w.highest,
         bitmap |-> w.bitmap \cup {w.highest - n}]

=============================================================================

----------------------------- MODULE MetricRing -----------------------------
(***************************************************************************)
(* MetricRing: the newest samples of one GPU, in a buffer of Window slots  *)
(* that is written round and round.                                        *)
(***************************************************************************)
EXTENDS Integers, Sequences

CONSTANTS
    Window,   \* the slots of a ring, 36000 in the code
    Empty     \* what a slot holds that was never written

ASSUME RingAssumption == Window \in Nat \ {0} /\ Empty \notin Nat

Slot == 0..(Window - 1)

\* A sample is its number in the order the GPU's samples were pushed.
Rings == [buf : [Slot -> Nat \cup {Empty}], head : Slot, len : 0..Window]

NewRing == [buf |-> [i \in Slot |-> Empty], head |-> 0, len |-> 0]

\* Mutant: len goes one past the window.
PushSaturatesLate(r, sample) ==
    [buf  |-> [r.buf EXCEPT ![r.head] = sample],
     head |-> (r.head + 1) % Window,
     len  |-> IF r.len <= Window THEN r.len + 1 ELSE r.len]

Push(r, sample) ==
    [buf  |-> [r.buf EXCEPT ![r.head] = sample],
     head |-> (r.head + 1) % Window,
     len  |-> IF r.len < Window THEN r.len + 1 ELSE r.len]

\* Mutant: the buffer is read as if it had never wrapped.
OldestUnwrapped(r) == 0

Oldest(r) == (r.head + Window - r.len) % Window

Take(r, n) == IF n < r.len THEN n ELSE r.len

\* Mutant: the older samples that were not asked for are not skipped.
RecentUnskipped(r, n) == [i \in 1..Take(r, n) |-> r.buf[(Oldest(r) + i - 1) % Window]]

\* window(n): at most n of the newest samples, oldest first.  An empty slot
\* would be left out by the code; none is read.
Recent(r, n) ==
    [i \in 1..Take(r, n) |-> r.buf[(Oldest(r) + (r.len - Take(r, n)) + i - 1) % Window]]
=============================================================================

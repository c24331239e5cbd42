--------------------------- MODULE SlidingWindow ----------------------------
(***************************************************************************)
(* What the telemetry store promises: of each GPU the last Window samples, *)
(* in the order they came.                                                 *)
(***************************************************************************)
EXTENDS Integers, Sequences

CONSTANTS Gpu, Window, Sample

VARIABLE window   \* the samples kept of each GPU, oldest first

\* The last n elements of a sequence, or all of a shorter one.
Last(s, n) == IF Len(s) <= n THEN s ELSE SubSeq(s, Len(s) - n + 1, Len(s))

Init == window = [g \in Gpu |-> << >>]

Ingest(g, sample) == window' = [window EXCEPT ![g] = Last(Append(@, sample), Window)]

Next == \E g \in Gpu, sample \in Sample : Ingest(g, sample)

Spec == Init /\ [][Next]_window
=============================================================================

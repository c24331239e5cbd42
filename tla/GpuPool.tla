------------------------------ MODULE GpuPool -------------------------------
(***************************************************************************)
(* What the scheduler promises its clients: a pool of GPUs from which a    *)
(* job is granted free ones, and to which all of them return when the job  *)
(* is released, each of the two in a single step.                          *)
(***************************************************************************)
CONSTANTS Gpu, Job

VARIABLES free, held

Init == free = Gpu /\ held = [j \in Job |-> {}]

Grant(j, S) ==
    /\ S \subseteq free
    /\ free' = free \ S
    /\ held' = [held EXCEPT ![j] = @ \cup S]

Release(j) ==
    /\ free' = free \cup held[j]
    /\ held' = [held EXCEPT ![j] = {}]

Next == \E j \in Job : Release(j) \/ \E S \in SUBSET Gpu : Grant(j, S)

Spec == Init /\ [][Next]_<<free, held>>
=============================================================================

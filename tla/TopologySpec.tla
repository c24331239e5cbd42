---------------------------- MODULE TopologySpec ----------------------------
(***************************************************************************)
(* What the topology DSL denotes once parsed, the GPU count it implies and *)
(* the rules it is type-checked against.                                   *)
(*                                                                         *)
(* The parser nests at most one '+' in each '|' alternative, so a          *)
(* TopologySpec is a sequence of alternatives and an alternative is a      *)
(* sequence of one or two atoms; a single alternative stands for a spec    *)
(* with no Disjunction node.  An atom keeps what is read of its constraint *)
(* list: the first NvlMin and the first IbMax, each as a set that is empty *)
(* when the constraint is absent.  Nothing reads Numa.                     *)
(***************************************************************************)
EXTENDS Integers, Sequences

CONSTANT U32   \* the number of values of an unsigned word, 2^32 in the code

ParallelDim == {"TP", "PP", "DP"}

Atom == [dim : ParallelDim, degree : Nat, nvl_min : SUBSET Nat, ib_max : SUBSET Nat]

IsSpec(spec) ==
    /\ spec \in Seq(Seq(Atom))
    /\ Len(spec) > 0
    /\ \A i \in 1..Len(spec) : Len(spec[i]) \in {1, 2}

-----------------------------------------------------------------------------
\* gpu_count of one alternative: the degree of an atom, the product of the
\* two degrees of a conjunction.  The product wraps in a release build.
AltGpuCount(alt) ==
    IF Len(alt) = 1 THEN alt[1].degree
                    ELSE (alt[1].degree * alt[2].degree) % U32

\* A disjunction counts as its first alternative does.
GpuCount(spec) == AltGpuCount(spec[1])

IsPowerOf2(n) == \E k \in 0..n : n = 2^k

AtomWellTyped(a) ==
    a.dim = "TP" => /\ IsPowerOf2(a.degree)
                    /\ a.nvl_min # {} => a.degree <= 8

\* type_check(spec) returns no error.
WellTyped(spec) ==
    /\ \A i \in 1..Len(spec) : \A k \in 1..Len(spec[i]) : AtomWellTyped(spec[i][k])
    /\ \A i, j \in 1..Len(spec) : AltGpuCount(spec[i]) = AltGpuCount(spec[j])
=============================================================================

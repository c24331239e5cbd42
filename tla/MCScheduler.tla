---------------------------- MODULE MCScheduler -----------------------------
(***************************************************************************)
(* Instances of Scheduler.  Two hosts of two GPUs, each pair joined by     *)
(* NVLink, the hosts by InfiniBand of one and of two switch hops.  The     *)
(* order of insertion and that of names differ.                            *)
(***************************************************************************)
EXTENDS Scheduler, TLC

CONSTANTS g1, g2, g3, g4

MCGpu == {g1, g2, g3, g4}

NvLink(a, b) == [ends |-> {a, b}, kind |-> "NvLink", bandwidth_gbps |-> 9,
                 ib_hop_count |-> 0]
InfiniBand(a, b, hops) == [ends |-> {a, b}, kind |-> "InfiniBand",
                           bandwidth_gbps |-> 5, ib_hop_count |-> hops]

MCLink == {NvLink(g1, g2), NvLink(g3, g4), InfiniBand(g2, g3, 1), InfiniBand(g1, g4, 2)}

MCIndex == g1 :> 1 @@ g2 :> 2 @@ g3 :> 3 @@ g4 :> 4
MCName  == g1 :> 4 @@ g2 :> 3 @@ g3 :> 1 @@ g4 :> 2

A(dim, n)    == [dim |-> dim, degree |-> n, nvl_min |-> {}, ib_max |-> {}]
TPnvl(n, bw) == [A("TP", n) EXCEPT !.nvl_min = {bw}]
PPib(n, h)   == [A("PP", n) EXCEPT !.ib_max = {h}]

\* "TP2_NVL6+DP1|TP2": a placement of three GPUs, or of two.
TensorPlusOne == << <<TPnvl(2, 6), A("DP", 1)>>, <<A("TP", 2)>> >>
\* "PP2_IB1", "DP1", and "TP3", which does not type-check.
Pipeline      == << <<PPib(2, 1)>> >>
AnyOne        == << <<A("DP", 1)>> >>
IllTyped      == << <<A("TP", 3)>> >>
\* "TP1+PP2|PP2_IB1": the arms of the first alternative overlap here.
OverlapOr     == << <<A("TP", 1), A("PP", 2)>>, <<PPib(2, 1)>> >>

MCSpecs     == {TensorPlusOne, Pipeline, AnyOne, OverlapOr, IllTyped}
MCSpecsOnce == {TensorPlusOne, AnyOne}
=============================================================================

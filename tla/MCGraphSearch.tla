--------------------------- MODULE MCGraphSearch ----------------------------
(***************************************************************************)
(* Graphs of up to four GPUs: every set of NVLink pairs, of two bandwidths *)
(* by pair, and every order of up to four InfiniBand links between         *)
(* distinct pairs, of one or two hops, with both directions of insertion.  *)
(***************************************************************************)
EXTENDS GraphSearch, TLC

L(s, t, kind, bw, hops) ==
    [source |-> s, target |-> t, kind |-> kind, bandwidth_gbps |-> bw, ib_hop_count |-> hops]

Pairs == << <<1, 2>>, <<1, 3>>, <<1, 4>>, <<2, 3>>, <<2, 4>>, <<3, 4>> >>

Nv(k) == L(Pairs[k][1], Pairs[k][2], "NvLink", IF k % 3 = 0 THEN 2 ELSE 6, 0)
Ib(k) == IF k % 2 = 0 THEN L(Pairs[k][2], Pairs[k][1], "InfiniBand", 5, 1)
                      ELSE L(Pairs[k][1], Pairs[k][2], "InfiniBand", 5, IF k = 5 THEN 2 ELSE 1)

Ascending(S) == [n \in 1..Cardinality(S) |-> CHOOSE k \in S : Cardinality({x \in S : x <= k}) = n]

NvOrders == {[n \in 1..Cardinality(S) |-> Nv(Ascending(S)[n])] : S \in SUBSET (1..6)}
IbOrders == {[n \in 1..4 |-> Ib(f[n])] :
                f \in {h \in [1..4 -> 1..6] : \A a, b \in 1..4 : a # b => h[a] # h[b]}}

\* A bonded pair of links, a PCIe link, and both fabrics in one graph.
Mixed == {<<L(1, 2, "NvLink", 2, 0), L(2, 1, "NvLink", 6, 0), L(1, 2, "InfiniBand", 5, 1),
            L(2, 3, "PCIe", 6, 0), L(3, 1, "InfiniBand", 5, 2), L(3, 1, "InfiniBand", 5, 1)>>}

MCOrders == NvOrders \cup IbOrders \cup Mixed

Same == Permutations(GpuId)
=============================================================================

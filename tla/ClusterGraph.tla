---------------------------- MODULE ClusterGraph ----------------------------
(***************************************************************************)
(* The cluster topology of nemesis-graph: GPUs joined by NVLink, PCIe and  *)
(* InfiniBand links, and the two searches the solver asks of it.           *)
(*                                                                         *)
(* A search reads the GPUs that are healthy at that moment, which is a     *)
(* parameter ("ok") because it changes while the system runs.  Its result  *)
(* is the SET of answers it may give: empty for None, and never more than  *)
(* what the order of the underlying graph leaves open.                     *)
(***************************************************************************)
EXTENDS Integers, FiniteSets

CONSTANTS
    Gpu,      \* the GPUs added to the graph
    Link,     \* its links: [ends, kind, bandwidth_gbps, ib_hop_count]
    Index     \* GPU -> its position in the order of insertion (NodeIndex)

LinkKind == {"NvLink", "PCIe", "InfiniBand"}

HasNvlinkEdge(a, b, min_bw) ==
    \E l \in Link : /\ l.ends = {a, b}
                    /\ l.kind = "NvLink"
                    /\ l.bandwidth_gbps >= min_bw

Cliques(ok, size, min_bw) ==
    {S \in SUBSET ok :
        /\ Cardinality(S) = size
        /\ \A a, b \in S : a # b => HasNvlinkEdge(a, b, min_bw)}

\* The backtracking search tries candidates by index, so of two sets of the
\* same size it meets first the one that owns the least index they differ in.
FoundBefore(S, T) ==
    \/ S = T
    \/ \E g \in S \ T :
          \A x \in (S \ T) \cup (T \ S) : Index[g] <= Index[x]

FindNvlinkClique(ok, size, min_bw) ==
    {S \in Cliques(ok, size, min_bw) :
        \A T \in Cliques(ok, size, min_bw) : FoundBefore(S, T)}

IbHop(a, b, max_hops) ==
    \E l \in Link : /\ l.ends = {a, b}
                    /\ l.kind = "InfiniBand"
                    /\ l.ib_hop_count <= max_hops

\* The simple paths of "size" healthy GPUs.  A path starts with one GPU, so
\* there is none of size 0.
IbPaths(ok, size, max_hops) ==
    {p \in [1..size -> ok] :
        /\ size > 0
        /\ \A i, j \in 1..size : i # j => p[i] # p[j]
        /\ \A i \in 1..(size - 1) : IbHop(p[i], p[i + 1], max_hops)}

\* The search starts from the GPUs by index and takes the first start that
\* leads anywhere; which of the paths from it comes first depends on the
\* order in which petgraph lists the edges, which is left open.
FindIbPath(ok, size, max_hops) ==
    {p \in IbPaths(ok, size, max_hops) :
        \A q \in IbPaths(ok, size, max_hops) : Index[p[1]] <= Index[q[1]]}
=============================================================================

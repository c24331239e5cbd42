----------------------------- MODULE GraphSearch ----------------------------
(***************************************************************************)
(* ClusterGraph as it is built and searched: vertices are appended, links  *)
(* are added between known GPUs, GPUs become unhealthy, and two recursive  *)
(* backtracking searches run on the result.  They are compared with what   *)
(* module ClusterGraph says they find, which is what the scheduler's model *)
(* relies on.                                                              *)
(***************************************************************************)
EXTENDS Integers, Sequences, FiniteSets

CONSTANTS
    GpuId,      \* the ids GPUs are added under
    Orders,     \* bound: the link sequences tried, [source, target, kind, ...]
    MaxSick     \* bound: how many GPUs become unhealthy

Link == [source : Nat, target : Nat, kind : {"NvLink", "PCIe", "InfiniBand"},
         bandwidth_gbps : Nat, ib_hop_count : Nat]

ASSUME OrdersAssumption == Orders \subseteq Seq(Link)

VARIABLES
    nodes,      \* the vertices in order of insertion: [gpu_id, healthy]
    id_index,   \* gpu_id -> its vertex, for the ids added so far
    edges       \* the links in order of insertion

vars == <<nodes, id_index, edges>>

Node == 1..Len(nodes)

TypeOK ==
    /\ nodes \in Seq([gpu_id : GpuId, healthy : BOOLEAN])
    /\ DOMAIN id_index \subseteq GpuId
    /\ \A g \in DOMAIN id_index : id_index[g] \in Node
    /\ edges \in Seq(Link)
    /\ \A e \in 1..Len(edges) : edges[e].source \in Node /\ edges[e].target \in Node

Init ==
    /\ nodes = << >>
    /\ id_index = [g \in {} |-> 0]
    /\ edges = << >>

\* Mutant: the index is taken before the vertex is appended.
AddGpuStaleIndex(g) ==
    /\ g \notin DOMAIN id_index
    /\ nodes' = Append(nodes, [gpu_id |-> g, healthy |-> TRUE])
    /\ id_index' = [x \in DOMAIN id_index \cup {g} |->
                       IF x = g THEN Len(nodes) ELSE id_index[x]]
    /\ UNCHANGED edges

\* An id that is already present panics: the caller never gets past it.
AddGpu(g) ==
    /\ g \notin DOMAIN id_index
    /\ nodes' = Append(nodes, [gpu_id |-> g, healthy |-> TRUE])
    /\ id_index' = [x \in DOMAIN id_index \cup {g} |->
                       IF x = g THEN Len(nodes) + 1 ELSE id_index[x]]
    /\ UNCHANGED edges

\* Both ids are looked up, and one that was never added panics.  Parallel links
\* are kept.
AddLink(src, dst, link) ==
    /\ src \in DOMAIN id_index /\ dst \in DOMAIN id_index
    /\ edges' = Append(edges, [link EXCEPT !.source = id_index[src], !.target = id_index[dst]])
    /\ UNCHANGED <<nodes, id_index>>

\* An unknown id changes nothing, and nothing makes a GPU healthy again.
MarkUnhealthy(g) ==
    /\ Cardinality({i \in Node : ~nodes[i].healthy}) < MaxSick
    /\ nodes' = IF g \in DOMAIN id_index
                THEN [nodes EXCEPT ![id_index[g]].healthy = FALSE]
                ELSE nodes
    /\ UNCHANGED <<id_index, edges>>

\* The links that may come next, in one of the sequences tried.
NextLinks == {o[Len(edges) + 1] :
                 o \in {r \in Orders : Len(r) > Len(edges) /\ SubSeq(r, 1, Len(edges)) = edges}}

\* The ids that such a link is added between.
Joined(l) == {p \in (DOMAIN id_index) \X (DOMAIN id_index) :
                 id_index[p[1]] = l.source /\ id_index[p[2]] = l.target}

Next ==
    \/ \E g \in GpuId : AddGpu(g) \/ MarkUnhealthy(g)
    \/ \E l \in NextLinks : \E p \in Joined(l) : AddLink(p[1], p[2], l)

Spec == Init /\ [][Next]_vars

-----------------------------------------------------------------------------
(* The searches.  A result is a set: empty for None, else the one found.   *)

Joins(e, a, b) == {edges[e].source, edges[e].target} = {a, b}

\* Mutant: any link between the two will do.
HasFastEdge(a, b, min_bw) ==
    \E e \in 1..Len(edges) : Joins(e, a, b) /\ edges[e].bandwidth_gbps >= min_bw

HasNvlinkEdge(a, b, min_bw) ==
    \E e \in 1..Len(edges) : /\ Joins(e, a, b) /\ edges[e].kind = "NvLink"
                             /\ edges[e].bandwidth_gbps >= min_bw

Healthy == {i \in Node : nodes[i].healthy}

Least(S) == CHOOSE x \in S : \A y \in S : x <= y

\* The candidates are tried by index, so those still to come are a set.
CliqueSearch(target, min_bw) ==
    LET search[s \in (SUBSET Node) \X (SUBSET Node)] ==
            LET candidates == s[1]
                current    == s[2]
                Below(v) == search[<<{w \in candidates : w > v}, current \cup {v}>>]
                Hits == {v \in candidates : /\ \A u \in current : HasNvlinkEdge(u, v, min_bw)
                                            /\ Below(v) # {}}
            IN  IF Cardinality(current) = target THEN {current}
                ELSE IF Cardinality(current) + Cardinality(candidates) < target \/ Hits = {}
                THEN {}
                ELSE Below(Least(Hits))
    IN  search

FindNvlinkClique(size, min_bw) ==
    IF Cardinality(Healthy) < size THEN {} ELSE CliqueSearch(size, min_bw)[<<Healthy, {}>>]

\* Mutant: links are followed in the direction of their insertion only.
LinksFrom(v) == {e \in DOMAIN edges : edges[e].source = v}

LinksOf(v) == {e \in DOMAIN edges : v \in {edges[e].source, edges[e].target}}

Far(e, v) == IF edges[e].source = v THEN edges[e].target ELSE edges[e].source

\* petgraph lists a vertex's links newest first, those that start at it
\* before those that end at it.
FirstListed(hits, v) ==
    LET out   == {e \in hits : edges[e].source = v}
        group == IF out = {} THEN hits ELSE out
    IN  CHOOSE e \in group : \A f \in group : f <= e

DfsIbPath(target, max_hops) ==
    LET dfs[path \in Seq(Node)] ==
            LET here == path[Len(path)]
                Deeper(e) == dfs[Append(path, Far(e, here))]
                Hits == {e \in LinksOf(here) :
                            /\ \A i \in 1..Len(path) : path[i] # Far(e, here)
                            /\ Far(e, here) \in Healthy
                            /\ edges[e].kind = "InfiniBand" /\ edges[e].ib_hop_count <= max_hops
                            /\ Deeper(e) # {}}
            IN  IF Len(path) = target THEN {path}
                ELSE IF Hits = {} THEN {}
                ELSE Deeper(FirstListed(Hits, here))
    IN  dfs

FindIbPath(size, max_hops) ==
    LET From(v) == DfsIbPath(size, max_hops)[<<v>>]
        Starts  == {v \in Healthy : From(v) # {}}
    IN  IF Cardinality(Healthy) < size \/ Starts = {} THEN {} ELSE From(Least(Starts))

-----------------------------------------------------------------------------
(* The graph as module ClusterGraph sees it, and what it says is found.    *)

Links == {[ends |-> {edges[e].source, edges[e].target}, kind |-> edges[e].kind,
           bandwidth_gbps |-> edges[e].bandwidth_gbps,
           ib_hop_count |-> edges[e].ib_hop_count] : e \in 1..Len(edges)}

Declared == INSTANCE ClusterGraph
            WITH Gpu <- Node, Link <- Links, Index <- [i \in Node |-> i]

Weights == {0} \cup UNION {{edges[e].bandwidth_gbps, edges[e].ib_hop_count} : e \in 1..Len(edges)}

\* Backtracking with pruning finds a clique whenever the healthy GPUs have
\* one, and of all of them the one lowest in index (graph.rs:143-202).
CliqueFound ==
    \A size \in 0..(Len(nodes) + 1), bw \in Weights :
        FindNvlinkClique(size, bw) = Declared!FindNvlinkClique(Healthy, size, bw)

\* The depth-first search finds a path whenever there is one, simple, of
\* healthy GPUs and short hops, from the first start that has one
\* (graph.rs:217-278).
PathFound ==
    \A size \in 0..(Len(nodes) + 1), hops \in Weights :
        LET found == FindIbPath(size, hops)
        IN  /\ found \subseteq Declared!FindIbPath(Healthy, size, hops)
            /\ found = {} => Declared!FindIbPath(Healthy, size, hops) = {}

\* id_index leads from every id to its own vertex and misses none
\* (graph.rs:4-5, "sole source of truth ... valid").
IndexIsExact ==
    /\ \A g \in DOMAIN id_index :
          id_index[g] \in Node /\ nodes[id_index[g]].gpu_id = g
    /\ \A i \in Node : nodes[i].gpu_id \in DOMAIN id_index /\ id_index[nodes[i].gpu_id] = i
=============================================================================

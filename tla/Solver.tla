------------------------------- MODULE Solver -------------------------------
(***************************************************************************)
(* The placement engine of nemesis-topology.  It is stateless: a placement *)
(* depends on the graph and on the GPUs that are healthy when the graph is *)
(* read.  Like the searches of ClusterGraph, a result is the set of GPU    *)
(* sets the solver may return, empty when it rejects.  The order of        *)
(* gpu_ids in a result is left out: nobody reads it.                       *)
(***************************************************************************)
EXTENDS ClusterGraph, TopologySpec

CONSTANT Name   \* GPU -> the rank of its gpu_id in the order of strings

\* A missing NvlMin is read as 0 GB/s, a missing IbMax as "any hop count".
MinBandwidth(atom) == IF atom.nvl_min = {} THEN 0 ELSE CHOOSE bw \in atom.nvl_min : TRUE

MaxHops(atom) ==
    IF atom.ib_max = {} THEN U32 - 1 ELSE CHOOSE hops \in atom.ib_max : TRUE

\* The n healthy GPUs that come first by name.
FirstByName(ok, n) ==
    {S \in SUBSET ok : /\ Cardinality(S) = n
                       /\ \A g \in S, x \in ok \ S : Name[g] < Name[x]}

\* The GPUs along a path.
GpusOf(p, size) == {p[i] : i \in 1..size}

\* The GPU sets solve_atom may return for an atom, given the healthy GPUs.
SolveAtom(atom, ok) ==
    CASE atom.dim = "TP" -> FindNvlinkClique(ok, atom.degree, MinBandwidth(atom))
      [] atom.dim = "PP" -> {GpusOf(p, atom.degree) :
                                p \in FindIbPath(ok, atom.degree, MaxHops(atom))}
      [] atom.dim = "DP" -> FirstByName(ok, atom.degree)

-----------------------------------------------------------------------------
\* What a placement owes to the alternative it was made for: one group per
\* atom, of the atom's degree and wired as the atom asks, of GPUs healthy when
\* that atom was solved ("oks" has one set per atom), and no GPU in two groups.
GroupFits(atom, S, ok) ==
    /\ S \subseteq ok
    /\ Cardinality(S) = atom.degree
    /\ atom.dim = "TP" => S \in Cliques(ok, atom.degree, MinBandwidth(atom))
    /\ atom.dim = "PP" => \E p \in IbPaths(ok, atom.degree, MaxHops(atom)) :
                             S = GpusOf(p, atom.degree)

AlternativeFits(alt, ids, oks) ==
    /\ Len(oks) = Len(alt)
    /\ IF Len(alt) = 1
       THEN GroupFits(alt[1], ids, oks[1])
       ELSE \E S \in SUBSET ids : /\ GroupFits(alt[1], S, oks[1])
                                  /\ GroupFits(alt[2], ids \ S, oks[2])

=============================================================================

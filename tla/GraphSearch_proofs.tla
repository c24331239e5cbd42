------------------------- MODULE GraphSearch_proofs -------------------------
(***************************************************************************)
(* The two backtracking searches of the cluster graph, for every graph:    *)
(* each finds what it looks for whenever it is there, and of several the   *)
(* one module ClusterGraph says.                                           *)
(*                                                                         *)
(* Both are inductions on what is left to try.  The induction theorems of  *)
(* the library have an operator as a parameter, so the two principles that *)
(* are needed are stated about sets and functions: a set of naturals with  *)
(* 0 and every successor is Nat, and an equation whose right side looks    *)
(* only at smaller arguments has a solution.                               *)
(***************************************************************************)
EXTENDS GraphSearch, FiniteSetTheorems, SequenceTheorems, TLAPS

LEMMA LeastNat ==
    ASSUME NEW T \in SUBSET Nat, T # {}
    PROVE  \E n \in T : \A m \in T : n <= m
<1> DEFINE R == OpToRel(<, Nat)
<1>1. IsWellFoundedOn(R, Nat)
  BY NatLessThanWellFounded
<1>2. \A x, y \in Nat : x < y => <<x, y>> \in R
  BY DEF OpToRel
<1> HIDE DEF R
<1>3. PICK n \in T : \A m \in T : ~(<<m, n>> \in R)
  BY <1>1, WFMin
<1>4. n \in Nat /\ \A m \in T : m \in Nat
  BY <1>3
<1>5. \A m \in T : ~(m < n)
  BY <1>2, <1>3, <1>4
<1> QED
  BY <1>4, <1>5

LEMMA Induction ==
    ASSUME NEW G \in SUBSET Nat, 0 \in G, \A n \in G : n + 1 \in G
    PROVE  G = Nat
<1> SUFFICES ASSUME Nat \ G # {} PROVE FALSE
  OBVIOUS
<1>1. PICK n \in Nat \ G : \A m \in Nat \ G : n <= m
  BY LeastNat
<1>2. n - 1 \in Nat
  BY <1>1
<1>3. n - 1 \in G
  BY <1>1, <1>2
<1> QED
  BY <1>1, <1>2, <1>3

\* A step F from functions to functions that looks, for each argument, only at
\* arguments of smaller rank ...
LooksBelow(S, V, N, rank, F) ==
    /\ V # {} /\ N \in Nat /\ rank \in [S -> 0..N]
    /\ F \in [[S -> V] -> [S -> V]]
    /\ \A g, h \in [S -> V], x \in S :
           (\A y \in S : rank[y] < rank[x] => g[y] = h[y]) => F[g][x] = F[h][x]

\* ... has a fixed point.
LEMMA RecursionExists ==
    ASSUME NEW S, NEW V, NEW N, NEW rank, NEW F, LooksBelow(S, V, N, rank, F)
    PROVE  \E f \in [S -> V] : f = F[f]
<1> USE DEF LooksBelow
<1> DEFINE Upto(g, n) == \A x \in S : rank[x] < n => F[g][x] = g[x]
           G == {n \in Nat : \E g \in [S -> V] : Upto(g, n)}
<1>1. 0 \in G
  <2>1. PICK v \in V : TRUE
    OBVIOUS
  <2>2. [x \in S |-> v] \in [S -> V]
    OBVIOUS
  <2>3. Upto([x \in S |-> v], 0)
    OBVIOUS
  <2> QED
    BY <2>2, <2>3
<1>2. ASSUME NEW n \in G PROVE n + 1 \in G
  <2>1. PICK g \in [S -> V] : Upto(g, n)
    OBVIOUS
  <2>2. F[g] \in [S -> V]
    OBVIOUS
  <2>3. ASSUME NEW x \in S, rank[x] < n + 1 PROVE F[F[g]][x] = F[g][x]
    <3>1. \A y \in S : rank[y] < rank[x] => F[g][y] = g[y]
      BY <2>1, <2>3
    <3> QED
      BY <2>2, <3>1
  <2> QED
    BY <2>2, <2>3
<1>3. G = Nat
  <2> HIDE DEF G
  <2>1. G \in SUBSET Nat
    BY DEF G
  <2> QED
    BY <1>1, <1>2, <2>1, Induction
<1>4. PICK f \in [S -> V] : Upto(f, N + 1)
  <2>1. N + 1 \in G
    <3> HIDE DEF G
    <3> QED
      BY <1>3
  <2> QED
    BY <2>1
<1>5. \A x \in S : F[f][x] = f[x]
  BY <1>4
<1>6. F[f] \in [S -> V]
  OBVIOUS
<1> QED
  BY <1>5, <1>6

-----------------------------------------------------------------------------
(* The clique search                                                       *)

States == (SUBSET Node) \X (SUBSET Node)

\* The state of the search below a candidate.
After(s, v) == <<{w \in s[1] : w > v}, s[2] \cup {v}>>

\* The candidates with a clique below them, according to a search.
Hits(search, s, min_bw) ==
    {v \in s[1] : /\ \A u \in s[2] : HasNvlinkEdge(u, v, min_bw)
                  /\ search[After(s, v)] # {}}

SearchFrom(search, s, target, min_bw) ==
    IF Cardinality(s[2]) = target THEN {s[2]}
    ELSE IF Cardinality(s[2]) + Cardinality(s[1]) < target \/ Hits(search, s, min_bw) = {}
    THEN {}
    ELSE search[After(s, Least(Hits(search, s, min_bw)))]

LEMMA NodeFinite ==
    ASSUME Len(nodes) \in Nat
    PROVE  /\ Node \subseteq Nat
           /\ \A S \in SUBSET Node : /\ IsFiniteSet(S) /\ Cardinality(S) \in 0..Len(nodes)
                                     /\ S # {} => Least(S) \in S /\ \A x \in S : Least(S) <= x
<1>1. IsFiniteSet(Node) /\ Cardinality(Node) = Len(nodes)
  <2>1. IsFiniteSet(1..Len(nodes))
        /\ Cardinality(1..Len(nodes)) = IF 1 > Len(nodes) THEN 0 ELSE Len(nodes) - 1 + 1
    BY FS_Interval
  <2> QED
    BY <2>1 DEF Node
<1>2. ASSUME NEW S \in SUBSET Node
      PROVE  IsFiniteSet(S) /\ Cardinality(S) \in 0..Len(nodes)
  BY <1>1, FS_Subset, FS_CardinalityType
<1>3. ASSUME NEW S \in SUBSET Node, S # {}
      PROVE  Least(S) \in S /\ \A x \in S : Least(S) <= x
  <2>1. S \in SUBSET Nat
    BY DEF Node
  <2>2. \E x \in S : \A y \in S : x <= y
    BY <1>3, <2>1, LeastNat
  <2> QED
    BY <2>2 DEF Least
<1> QED
  BY <1>2, <1>3 DEF Node

LEMMA AfterIsState ==
    ASSUME Len(nodes) \in Nat, NEW s \in States, NEW v \in s[1]
    PROVE  /\ After(s, v) \in States
           /\ Cardinality(After(s, v)[1]) < Cardinality(s[1])
<1>1. s[1] \in SUBSET Node /\ s[2] \in SUBSET Node
  BY DEF States
<1>2. After(s, v) \in States
  BY <1>1 DEF After, States
<1>3. {w \in s[1] : w > v} \in SUBSET s[1] /\ v \notin {w \in s[1] : w > v}
  BY <1>1, NodeFinite
<1>4. IsFiniteSet(s[1]) /\ Cardinality(s[1]) \in Nat
  BY <1>1, NodeFinite
<1>5. Cardinality({w \in s[1] : w > v}) \in Nat
  BY <1>1, NodeFinite
<1>6. Cardinality({w \in s[1] : w > v}) < Cardinality(s[1])
  <2> DEFINE T == {w \in s[1] : w > v}
  <2>1. Cardinality(T) <= Cardinality(s[1]) /\ (Cardinality(s[1]) = Cardinality(T) => s[1] = T)
    BY <1>3, <1>4, FS_Subset
  <2> QED
    BY <1>3, <1>4, <1>5, <2>1
<1> QED
  BY <1>2, <1>6 DEF After

\* The recursion ends, so that the search is what its definition says.
LEMMA CliqueSearchStep ==
    ASSUME Len(nodes) \in Nat, NEW target, NEW min_bw, NEW s \in States
    PROVE  CliqueSearch(target, min_bw)[s] =
               SearchFrom(CliqueSearch(target, min_bw), s, target, min_bw)
<1> DEFINE V == SUBSET (SUBSET Node)
           rank == [x \in States |-> Cardinality(x[1])]
           Step(f) == [x \in States |-> SearchFrom(f, x, target, min_bw)]
           F == [f \in [States -> V] |-> Step(f)]
<1>1. rank \in [States -> 0..Len(nodes)]
  BY NodeFinite DEF States
<1>2. ASSUME NEW f \in [States -> V], NEW x \in States
      PROVE  SearchFrom(f, x, target, min_bw) \in V
  <2>1. Hits(f, x, min_bw) # {} => Least(Hits(f, x, min_bw)) \in x[1]
    <3>1. Hits(f, x, min_bw) \in SUBSET x[1] /\ Hits(f, x, min_bw) \in SUBSET Node
      BY DEF Hits, States
    <3> QED
      BY <3>1, NodeFinite
  <2>2. \A v \in x[1] : f[After(x, v)] \in V
    BY AfterIsState
  <2>3. x[2] \in SUBSET Node
    BY DEF States
  <2> QED
    BY <2>1, <2>2, <2>3 DEF SearchFrom
<1>3. F \in [[States -> V] -> [States -> V]]
  BY <1>2
<1>4. ASSUME NEW g \in [States -> V], NEW h \in [States -> V], NEW x \in States,
             \A y \in States : rank[y] < rank[x] => g[y] = h[y]
      PROVE  F[g][x] = F[h][x]
  <2>1. \A v \in x[1] : g[After(x, v)] = h[After(x, v)]
    BY <1>4, AfterIsState
  <2>2. Hits(g, x, min_bw) = Hits(h, x, min_bw)
    BY <2>1 DEF Hits
  <2>3. Hits(g, x, min_bw) # {} => Least(Hits(g, x, min_bw)) \in x[1]
    <3>1. Hits(g, x, min_bw) \in SUBSET x[1] /\ Hits(g, x, min_bw) \in SUBSET Node
      BY DEF Hits, States
    <3> QED
      BY <3>1, NodeFinite
  <2> QED
    BY <2>1, <2>2, <2>3 DEF SearchFrom
<1>5. \E f : f = Step(f)
  <2> HIDE DEF rank, V
  <2>1. V # {}
    BY DEF V
  <2>2. PICK f \in [States -> V] : f = F[f]
    <3>1. LooksBelow(States, V, Len(nodes), rank, F)
      <4> HIDE DEF F
      <4> QED
        BY <1>1, <1>3, <1>4, <2>1 DEF LooksBelow
    <3> HIDE DEF F
    <3> QED
      BY <3>1, RecursionExists
  <2> QED
    BY <2>2
<1>6. CliqueSearch(target, min_bw) = Step(CliqueSearch(target, min_bw))
  <2>1. CliqueSearch(target, min_bw) = CHOOSE f : f = Step(f)
    BY DEF CliqueSearch, SearchFrom, Hits, After, States
  <2> QED
    BY <1>5, <2>1
<1> QED
  BY <1>6

\* The cliques that a state of the search can still become, ...
Completions(s, target, min_bw) ==
    {S \in SUBSET (s[1] \cup s[2]) :
        /\ s[2] \subseteq S
        /\ Cardinality(S) = target
        /\ \A v \in S \cap s[1], u \in S : u # v => HasNvlinkEdge(u, v, min_bw)}

\* ... of which one is met before another if it owns the least they differ in.
Before(S, T) ==
    S = T \/ \E g \in S \ T : \A x \in (S \ T) \cup (T \ S) : g <= x

Ordered(s) == \A u \in s[2], v \in s[1] : u < v

Correct(found, s, target, min_bw) ==
    /\ \A S \in found : /\ S \in Completions(s, target, min_bw)
                        /\ \A T \in Completions(s, target, min_bw) : Before(S, T)
    /\ Completions(s, target, min_bw) # {} => found # {}

LEMMA EdgeSymmetric ==
    ASSUME NEW a, NEW b, NEW min_bw
    PROVE  HasNvlinkEdge(a, b, min_bw) <=> HasNvlinkEdge(b, a, min_bw)
  BY DEF HasNvlinkEdge, Joins

\* A completion goes through its least candidate, ...
LEMMA CompletionBelow ==
    ASSUME Len(nodes) \in Nat, NEW s \in States, Ordered(s), NEW target, NEW min_bw,
           NEW T \in Completions(s, target, min_bw), NEW v \in T \cap s[1],
           \A x \in T \cap s[1] : v <= x
    PROVE  /\ \A u \in s[2] : HasNvlinkEdge(u, v, min_bw)
           /\ T \in Completions(After(s, v), target, min_bw)
<1> DEFINE t == After(s, v)
<1>1. s[1] \subseteq Nat /\ s[2] \subseteq Nat
  BY NodeFinite DEF States
<1>2. t[1] = {w \in s[1] : w > v} /\ t[2] = s[2] \cup {v}
  BY DEF After
<1>3. T \subseteq s[1] \cup s[2] /\ s[2] \subseteq T /\ Cardinality(T) = target
  BY DEF Completions
<1>4. T \subseteq t[1] \cup t[2] /\ t[2] \subseteq T
  BY <1>1, <1>2, <1>3
<1>5. \A w \in T \cap t[1], u \in T : u # w => HasNvlinkEdge(u, w, min_bw)
  BY <1>2 DEF Completions
<1>6. \A u \in s[2] : HasNvlinkEdge(u, v, min_bw)
  BY <1>1, <1>3 DEF Ordered, Completions
<1> QED
  BY <1>3, <1>4, <1>5, <1>6 DEF Completions

\* ... and what completes a state below completes the state.
LEMMA CompletionAbove ==
    ASSUME Len(nodes) \in Nat, NEW s \in States, Ordered(s), NEW target, NEW min_bw,
           NEW v \in s[1], \A u \in s[2] : HasNvlinkEdge(u, v, min_bw),
           NEW T \in Completions(After(s, v), target, min_bw)
    PROVE  /\ T \in Completions(s, target, min_bw)
           /\ v \in T /\ \A x \in T \cap s[1] : v <= x
<1> DEFINE t == After(s, v)
<1>1. s[1] \subseteq Nat /\ s[2] \subseteq Nat
  BY NodeFinite DEF States
<1>2. t[1] = {w \in s[1] : w > v} /\ t[2] = s[2] \cup {v}
  BY DEF After
<1>3. T \subseteq t[1] \cup t[2] /\ t[2] \subseteq T /\ Cardinality(T) = target
  BY DEF Completions
<1>4. v \in T /\ \A x \in T \cap s[1] : v <= x
  BY <1>1, <1>2, <1>3 DEF Ordered
<1>5. ASSUME NEW w \in T \cap s[1], NEW u \in T, u # w PROVE HasNvlinkEdge(u, w, min_bw)
  <2>1. CASE w \in t[1]
    BY <1>5, <2>1 DEF Completions
  <2>2. CASE w = v /\ u \in s[2]
    BY <2>2
  <2>3. CASE w = v /\ u \in t[1]
    <3>1. HasNvlinkEdge(w, u, min_bw)
      BY <1>5, <2>3 DEF Completions
    <3> QED
      BY <3>1, EdgeSymmetric
  <2> QED
    BY <1>1, <1>2, <1>3, <1>5, <2>1, <2>2, <2>3 DEF Ordered
<1> QED
  BY <1>2, <1>3, <1>4, <1>5 DEF Completions

\* One level of the recursion.
LEMMA CliqueSearchLevel ==
    ASSUME Len(nodes) \in Nat, NEW target \in Nat, NEW min_bw, NEW s \in States, Ordered(s),
           NEW search,
           \A v \in s[1] : Correct(search[After(s, v)], After(s, v), target, min_bw)
    PROVE  Correct(SearchFrom(search, s, target, min_bw), s, target, min_bw)
<1> DEFINE C == Completions(s, target, min_bw)
           H == Hits(search, s, min_bw)
           found == SearchFrom(search, s, target, min_bw)
<1>1. /\ s[1] \in SUBSET Node /\ s[2] \in SUBSET Node /\ s[1] \cup s[2] \in SUBSET Node
      /\ Node \subseteq Nat
  BY NodeFinite DEF States
<1>2. \A S \in C : S \in SUBSET Node /\ s[2] \subseteq S /\ Cardinality(S) = target
  BY <1>1 DEF Completions
<1>3. ASSUME NEW T \in C, Cardinality(s[2]) # target
      PROVE  \E v \in H : v \in T /\ \A x \in T \cap s[1] : v <= x
  <2>1. T \cap s[1] # {}
    <3>1. T # s[2]
      BY <1>2, <1>3
    <3> QED
      BY <1>2, <3>1 DEF Completions
  <2>2. PICK v \in T \cap s[1] : \A x \in T \cap s[1] : v <= x
    <3>1. T \cap s[1] \in SUBSET Nat
      BY <1>1
    <3> QED
      BY <2>1, <3>1, LeastNat
  <2>3. /\ \A u \in s[2] : HasNvlinkEdge(u, v, min_bw)
        /\ T \in Completions(After(s, v), target, min_bw)
    BY <2>2, CompletionBelow
  <2>4. search[After(s, v)] # {}
    BY <2>3 DEF Correct
  <2> QED
    BY <2>2, <2>3, <2>4 DEF Hits
<1>4. CASE Cardinality(s[2]) = target
  <2>1. C \subseteq {s[2]}
    <3> SUFFICES ASSUME NEW S \in C PROVE S = s[2]
      OBVIOUS
    <3>1. S \in SUBSET Node /\ IsFiniteSet(S) /\ s[2] \in SUBSET S /\ Cardinality(S) = Cardinality(s[2])
      BY <1>2, <1>4, NodeFinite
    <3> QED
      BY <3>1, FS_Subset
  <2>2. s[2] \in C
    <3>1. \A v \in s[2] : v \notin s[1]
      <4> SUFFICES ASSUME NEW v \in s[2], v \in s[1] PROVE FALSE
        OBVIOUS
      <4>1. v < v /\ v \in Nat
        BY <1>1 DEF Ordered
      <4> QED
        BY <4>1
    <3> QED
      BY <1>4, <3>1 DEF Completions
  <2> QED
    BY <1>4, <2>1, <2>2 DEF SearchFrom, Correct, Before
<1>5. CASE Cardinality(s[2]) # target /\ H = {}
  BY <1>3, <1>5 DEF SearchFrom, Correct
<1>6. CASE Cardinality(s[2]) + Cardinality(s[1]) < target
  <2>1. IsFiniteSet(s[1]) /\ IsFiniteSet(s[2]) /\ IsFiniteSet(s[1] \cup s[2])
    BY <1>1, NodeFinite
  <2>2. /\ Cardinality(s[1]) \in Nat /\ Cardinality(s[2]) \in Nat
        /\ Cardinality(s[1] \cup s[2]) \in Nat /\ Cardinality(s[1] \cap s[2]) \in Nat
    BY <1>1, <2>1, FS_CardinalityType, FS_Intersection
  <2>3. Cardinality(s[1] \cup s[2]) <= Cardinality(s[1]) + Cardinality(s[2])
    <3>1. Cardinality(s[1] \cup s[2])
              = Cardinality(s[1]) + Cardinality(s[2]) - Cardinality(s[1] \cap s[2])
      BY <2>1, FS_Union
    <3> QED
      BY <2>2, <3>1
  <2>4. ASSUME NEW S \in C PROVE FALSE
    <3>1. S \in SUBSET (s[1] \cup s[2]) /\ Cardinality(S) = target
      BY DEF Completions
    <3>2. target <= Cardinality(s[1] \cup s[2])
      BY <2>1, <3>1, FS_Subset
    <3> QED
      BY <1>6, <2>2, <2>3, <3>2
  <2>5. Cardinality(s[2]) # target
    BY <1>6, <2>2
  <2> QED
    BY <1>6, <2>4, <2>5 DEF SearchFrom, Correct
<1>7. CASE /\ Cardinality(s[2]) # target /\ H # {}
           /\ ~(Cardinality(s[2]) + Cardinality(s[1]) < target)
  <2> DEFINE v == Least(H)
  <2>1. H \subseteq s[1] /\ v \in H /\ \A x \in H : v <= x
    <3>1. H \in SUBSET Node /\ H \subseteq s[1]
      BY <1>1 DEF Hits
    <3> QED
      BY <1>7, <3>1, NodeFinite
  <2>2. found = search[After(s, v)]
    BY <1>7 DEF SearchFrom
  <2>3. v \in s[1] /\ found # {} /\ \A u \in s[2] : HasNvlinkEdge(u, v, min_bw)
    BY <2>1, <2>2 DEF Hits
  <2> HIDE DEF v, found, H
  <2>4. ASSUME NEW S \in found
        PROVE  S \in C /\ \A T \in C : Before(S, T)
    <3>1. /\ S \in Completions(After(s, v), target, min_bw)
          /\ \A T \in Completions(After(s, v), target, min_bw) : Before(S, T)
      BY <2>2, <2>3, <2>4 DEF Correct
    <3>2. S \in C /\ v \in S /\ \A x \in S \cap s[1] : v <= x
      BY <2>3, <3>1, CompletionAbove
    <3>3. ASSUME NEW T \in C PROVE Before(S, T)
      <4>1. PICK t \in H : t \in T /\ \A x \in T \cap s[1] : t <= x
        BY <1>3, <1>7
      <4>2. CASE t = v
        <5>1. T \in Completions(After(s, v), target, min_bw)
          BY <2>1, <4>1, <4>2, CompletionBelow
        <5> QED
          BY <3>1, <5>1
      <4>3. CASE t # v
        <5>1. v < t /\ v \in Nat /\ t \in Nat
          <6>1. v \in Nat /\ t \in Nat
            BY <1>1, <2>1
          <6>2. v <= t
            BY <2>1
          <6> QED
            BY <4>3, <6>1, <6>2
        <5>2. v \in S \ T
          BY <1>1, <2>1, <3>2, <4>1, <5>1
        <5>3. ASSUME NEW x \in (S \ T) \cup (T \ S) PROVE v <= x
          <6>1. x \in s[1]
            BY <3>2 DEF Completions
          <6>2. x \in Nat
            BY <1>1, <6>1
          <6>3. CASE x \in S
            BY <3>2, <6>1, <6>3
          <6>4. CASE x \in T
            BY <4>1, <5>1, <6>1, <6>2, <6>4
          <6> QED
            BY <6>3, <6>4
        <5> QED
          BY <5>2, <5>3 DEF Before
      <4> QED
        BY <4>2, <4>3
    <3> QED
      BY <3>2, <3>3
  <2> QED
    BY <2>3, <2>4 DEF Correct, found
<1> QED
  BY <1>4, <1>5, <1>6, <1>7

LEMMA CliqueSearchCorrect ==
    ASSUME Len(nodes) \in Nat, NEW target \in Nat, NEW min_bw, NEW s \in States, Ordered(s)
    PROVE  Correct(CliqueSearch(target, min_bw)[s], s, target, min_bw)
<1> DEFINE search == CliqueSearch(target, min_bw)
           Below(n) == \A x \in States : Ordered(x) /\ Cardinality(x[1]) < n =>
                           Correct(search[x], x, target, min_bw)
           G == {n \in Nat : Below(n)}
<1>1. \A x \in States : Cardinality(x[1]) \in Nat
  BY NodeFinite DEF States
<1>2. 0 \in G
  BY <1>1
<1>3. ASSUME NEW n \in G PROVE n + 1 \in G
  <2>1. ASSUME NEW x \in States, Ordered(x), Cardinality(x[1]) < n + 1
        PROVE  Correct(search[x], x, target, min_bw)
    <3>1. ASSUME NEW v \in x[1]
          PROVE  Correct(search[After(x, v)], After(x, v), target, min_bw)
      <4>1. After(x, v) \in States /\ Cardinality(After(x, v)[1]) < Cardinality(x[1])
        BY AfterIsState
      <4>2. Cardinality(After(x, v)[1]) < n
        BY <1>1, <2>1, <4>1
      <4>3. Ordered(After(x, v))
        <5>1. x[1] \subseteq Nat /\ x[2] \subseteq Nat
          BY NodeFinite DEF States
        <5>2. After(x, v)[1] = {w \in x[1] : w > v} /\ After(x, v)[2] = x[2] \cup {v}
          BY DEF After
        <5> QED
          BY <2>1, <5>1, <5>2 DEF Ordered
      <4> QED
        BY <4>1, <4>2, <4>3
    <3>2. search[x] = SearchFrom(search, x, target, min_bw)
      BY CliqueSearchStep
    <3> HIDE DEF search
    <3>3. Correct(SearchFrom(search, x, target, min_bw), x, target, min_bw)
      BY <2>1, <3>1, CliqueSearchLevel
    <3> QED
      BY <3>2, <3>3
  <2> HIDE DEF search
  <2> QED
    BY <2>1
<1>4. G = Nat
  <2> HIDE DEF G
  <2>1. G \in SUBSET Nat
    BY DEF G
  <2> QED
    BY <1>2, <1>3, <2>1, Induction
<1>5. Cardinality(s[1]) + 1 \in G
  <2> HIDE DEF G
  <2> QED
    BY <1>1, <1>4
<1>6. Cardinality(s[1]) < Cardinality(s[1]) + 1
  BY <1>1
<1> HIDE DEF search
<1>7. Below(Cardinality(s[1]) + 1)
  BY <1>5
<1> QED
  BY <1>6, <1>7 DEF search

LEMMA BeforeAntisymmetric ==
    ASSUME NEW S \in SUBSET Nat, NEW T \in SUBSET Nat, Before(S, T), Before(T, S)
    PROVE  S = T
  BY DEF Before

\* Backtracking, with its pruning, finds for every graph, size and bandwidth
\* the clique that is lowest in index, and none only if there is none.
LEMMA CliqueSearchExact ==
    ASSUME Len(nodes) \in Nat, NEW size \in Nat, NEW bw
    PROVE  FindNvlinkClique(size, bw) = Declared!FindNvlinkClique(Healthy, size, bw)
<1> DEFINE s == <<Healthy, {}>>
           C == Completions(s, size, bw)
           found == FindNvlinkClique(size, bw)
<1>1. Healthy \in SUBSET Node /\ s \in States /\ Ordered(s) /\ s[1] = Healthy /\ s[2] = {}
  BY DEF Healthy, States, Ordered
<1>2. C = Declared!Cliques(Healthy, size, bw)
  <2>1. ASSUME NEW a, NEW b
        PROVE  Declared!HasNvlinkEdge(a, b, bw) <=> HasNvlinkEdge(a, b, bw)
    <3>1. ASSUME NEW l \in Links, l.ends = {a, b}, l.kind = "NvLink", l.bandwidth_gbps >= bw
          PROVE  HasNvlinkEdge(a, b, bw)
      <4>1. PICK e \in 1..Len(edges) :
                l = [ends |-> {edges[e].source, edges[e].target}, kind |-> edges[e].kind,
                     bandwidth_gbps |-> edges[e].bandwidth_gbps,
                     ib_hop_count |-> edges[e].ib_hop_count]
        BY DEF Links
      <4> QED
        BY <3>1, <4>1 DEF HasNvlinkEdge, Joins
    <3>2. ASSUME NEW e \in 1..Len(edges), Joins(e, a, b), edges[e].kind = "NvLink",
                 edges[e].bandwidth_gbps >= bw
          PROVE  Declared!HasNvlinkEdge(a, b, bw)
      <4> DEFINE l == [ends |-> {edges[e].source, edges[e].target}, kind |-> edges[e].kind,
                       bandwidth_gbps |-> edges[e].bandwidth_gbps,
                       ib_hop_count |-> edges[e].ib_hop_count]
      <4>1. l \in Links
        BY DEF Links
      <4>2. l.ends = {a, b} /\ l.kind = "NvLink" /\ l.bandwidth_gbps >= bw
        BY <3>2 DEF Joins
      <4> HIDE DEF l
      <4> QED
        BY <4>1, <4>2 DEF Declared!HasNvlinkEdge
    <3> QED
      BY <3>1, <3>2 DEF Declared!HasNvlinkEdge, HasNvlinkEdge
  <2>2. C = {S \in SUBSET Healthy :
                 /\ Cardinality(S) = size
                 /\ \A v \in S, u \in S : u # v => HasNvlinkEdge(u, v, bw)}
    BY DEF Completions
  <2>3. ASSUME NEW S
        PROVE  (\A v \in S, u \in S : u # v => HasNvlinkEdge(u, v, bw))
                  <=> (\A a, b \in S : a # b => Declared!HasNvlinkEdge(a, b, bw))
    BY <2>1, Zenon
  <2>4. \A S : S \in C <=> S \in Declared!Cliques(Healthy, size, bw)
    <3> HIDE DEF C
    <3>1. \A S : Declared!Cardinality(S) = Cardinality(S)
      BY DEF Declared!Cardinality, Cardinality
    <3> QED
      BY <2>2, <2>3, <3>1 DEF Declared!Cliques
  <2> QED
    BY <2>4
<1>3. \A S, T \in C : Declared!FoundBefore(S, T) <=> Before(S, T)
  <2> SUFFICES ASSUME NEW S \in C, NEW T \in C
               PROVE  Declared!FoundBefore(S, T) <=> Before(S, T)
    OBVIOUS
  <2>1. S \subseteq Node /\ T \subseteq Node
    BY <1>1 DEF Completions
  <2> QED
    BY <2>1 DEF Declared!FoundBefore, Before
<1>4. Correct(found, s, size, bw)
  <2>1. CASE Cardinality(Healthy) < size
    <3>1. C = {}
      <4> SUFFICES ASSUME NEW S \in C PROVE FALSE
        OBVIOUS
      <4>1. S \in SUBSET Healthy /\ Cardinality(S) = size
        BY <1>1 DEF Completions
      <4>2. Cardinality(S) <= Cardinality(Healthy) /\ Cardinality(Healthy) \in Nat
        BY <1>1, <4>1, NodeFinite, FS_Subset
      <4> QED
        BY <2>1, <4>1, <4>2
    <3> QED
      BY <2>1, <3>1 DEF FindNvlinkClique, Correct
  <2>2. CASE ~(Cardinality(Healthy) < size)
    BY <1>1, <2>2, CliqueSearchCorrect DEF FindNvlinkClique
  <2> QED
    BY <2>1, <2>2
<1>5. \A S, T \in C : Before(S, T) /\ Before(T, S) => S = T
  <2>1. \A S \in C : S \in SUBSET Nat
    BY <1>1, NodeFinite DEF Completions
  <2> QED
    BY <2>1, BeforeAntisymmetric
<1> HIDE DEF found, s, C
<1>6. found = {S \in C : \A T \in C : Before(S, T)}
  <2>1. found \subseteq {S \in C : \A T \in C : Before(S, T)}
    BY <1>4 DEF Correct, C
  <2>2. ASSUME NEW S \in C, \A T \in C : Before(S, T) PROVE S \in found
    <3>1. PICK T \in found : T \in C /\ Before(T, S)
      BY <1>4, <2>2 DEF Correct, C
    <3> QED
      BY <1>5, <2>2, <3>1
  <2> QED
    BY <2>1, <2>2
<1> QED
  BY <1>2, <1>3, <1>6 DEF Declared!FindNvlinkClique, found

-----------------------------------------------------------------------------
(* The path search                                                         *)

On(path) == {path[i] : i \in 1..Len(path)}

\* A link the search may follow from the end of a path.
Follows(e, path, max_hops) ==
    /\ e \in LinksOf(path[Len(path)])
    /\ \A i \in 1..Len(path) : path[i] # Far(e, path[Len(path)])
    /\ Far(e, path[Len(path)]) \in Healthy
    /\ edges[e].kind = "InfiniBand" /\ edges[e].ib_hop_count <= max_hops

Longer(e, path) == Append(path, Far(e, path[Len(path)]))

PathHits(dfs, path, max_hops) ==
    {e \in LinksOf(path[Len(path)]) :
        /\ \A i \in 1..Len(path) : path[i] # Far(e, path[Len(path)])
        /\ Far(e, path[Len(path)]) \in Healthy
        /\ edges[e].kind = "InfiniBand" /\ edges[e].ib_hop_count <= max_hops
        /\ dfs[Longer(e, path)] # {}}

SearchAlong(dfs, path, target, max_hops) ==
    IF Len(path) = target THEN {path}
    ELSE IF PathHits(dfs, path, max_hops) = {} THEN {}
    ELSE dfs[Longer(FirstListed(PathHits(dfs, path, max_hops), path[Len(path)]), path)]

\* The first link listed is one of those there are.
LEMMA FirstListedHits ==
    ASSUME edges \in Seq(Link), NEW hits \in SUBSET DOMAIN edges, hits # {}, NEW v
    PROVE  FirstListed(hits, v) \in hits
<1> DEFINE out   == {e \in hits : edges[e].source = v}
           group == IF out = {} THEN hits ELSE out
           T     == {Len(edges) - e : e \in group}
<1>1. Len(edges) \in Nat /\ DOMAIN edges = 1..Len(edges)
  OBVIOUS
<1>2. group \subseteq hits /\ group # {}
  OBVIOUS
<1> HIDE DEF group
<1>3. T \in SUBSET Nat /\ T # {}
  BY <1>1, <1>2
<1>4. PICK n \in T : \A m \in T : n <= m
  <2> HIDE DEF T
  <2> QED
    BY <1>3, LeastNat
<1>5. PICK e \in group : n = Len(edges) - e
  BY <1>4
<1>6. \A f \in group : f <= e
  <2> SUFFICES ASSUME NEW f \in group PROVE f <= e
    OBVIOUS
  <2>1. Len(edges) - e <= Len(edges) - f
    BY <1>4, <1>5
  <2>2. e \in 1..Len(edges) /\ f \in 1..Len(edges)
    BY <1>1, <1>2
  <2> QED
    BY <1>1, <2>1, <2>2
<1>7. FirstListed(hits, v) = CHOOSE x \in group : \A f \in group : f <= x
  BY DEF FirstListed, group
<1> QED
  BY <1>2, <1>6, <1>7

\* A path that is followed is longer, and leaves fewer GPUs to visit.
LEMMA LongerIsPath ==
    ASSUME Len(nodes) \in Nat, NEW path \in Seq(Node), NEW max_hops,
           NEW e, Follows(e, path, max_hops)
    PROVE  /\ Longer(e, path) \in Seq(Node)
           /\ Len(Longer(e, path)) = Len(path) + 1
           /\ Longer(e, path)[Len(path) + 1] = Far(e, path[Len(path)])
           /\ \A i \in 1..Len(path) : Longer(e, path)[i] = path[i]
           /\ Cardinality(Node \ On(Longer(e, path))) < Cardinality(Node \ On(path))
<1> DEFINE v == Far(e, path[Len(path)])
           q == Longer(e, path)
<1>1. v \in Node /\ v \in Healthy /\ v \notin On(path)
  BY DEF Follows, Healthy, On
<1>2. q = Append(path, v)
  BY DEF Longer
<1> HIDE DEF v, q
<1>3. /\ q \in Seq(Node) /\ Len(q) = Len(path) + 1 /\ q[Len(path) + 1] = v
      /\ \A i \in 1..Len(path) : q[i] = path[i]
  BY <1>1, <1>2
<1>4. On(q) = On(path) \cup {v}
  <2>1. Len(path) \in Nat
    OBVIOUS
  <2>2. 1..Len(q) = (1..Len(path)) \cup {Len(path) + 1}
    BY <1>3, <2>1
  <2> QED
    BY <1>3, <2>2 DEF On
<1>5. Cardinality(Node \ On(q)) < Cardinality(Node \ On(path))
  <2>1. Node \ On(q) \in SUBSET (Node \ On(path)) /\ v \in Node \ On(path) /\ v \notin Node \ On(q)
    BY <1>1, <1>4
  <2>2. /\ IsFiniteSet(Node \ On(path))
        /\ Cardinality(Node \ On(path)) \in Nat /\ Cardinality(Node \ On(q)) \in Nat
    <3>1. Node \ On(path) \in SUBSET Node /\ Node \ On(q) \in SUBSET Node
      OBVIOUS
    <3> QED
      BY <3>1, NodeFinite
  <2>3. /\ Cardinality(Node \ On(q)) <= Cardinality(Node \ On(path))
        /\ (Cardinality(Node \ On(path)) = Cardinality(Node \ On(q))
               => Node \ On(path) = Node \ On(q))
    BY <2>1, <2>2, FS_Subset
  <2> QED
    BY <2>1, <2>2, <2>3
<1> QED
  BY <1>3, <1>5 DEF q, v

LEMMA DfsIbPathStep ==
    ASSUME Len(nodes) \in Nat, edges \in Seq(Link), NEW target, NEW max_hops,
           NEW path \in Seq(Node)
    PROVE  DfsIbPath(target, max_hops)[path] =
               SearchAlong(DfsIbPath(target, max_hops), path, target, max_hops)
<1> DEFINE S == Seq(Node)
           V == SUBSET Seq(Node)
           rank == [x \in S |-> Cardinality(Node \ On(x))]
           Step(f) == [x \in S |-> SearchAlong(f, x, target, max_hops)]
           F == [f \in [S -> V] |-> Step(f)]
<1>1. rank \in [S -> 0..Len(nodes)]
  <2>1. \A x \in S : Node \ On(x) \in SUBSET Node
    OBVIOUS
  <2> QED
    BY <2>1, NodeFinite
<1>2. ASSUME NEW f, NEW x \in S, PathHits(f, x, max_hops) # {}
      PROVE  Follows(FirstListed(PathHits(f, x, max_hops), x[Len(x)]), x, max_hops)
  <2>1. PathHits(f, x, max_hops) \in SUBSET DOMAIN edges
    BY DEF PathHits, LinksOf
  <2>2. FirstListed(PathHits(f, x, max_hops), x[Len(x)]) \in PathHits(f, x, max_hops)
    BY <1>2, <2>1, FirstListedHits
  <2> QED
    BY <2>2 DEF PathHits, Follows
<1>3. ASSUME NEW f \in [S -> V], NEW x \in S
      PROVE  SearchAlong(f, x, target, max_hops) \in V
  <2>1. CASE PathHits(f, x, max_hops) = {}
    BY <2>1 DEF SearchAlong
  <2>2. CASE PathHits(f, x, max_hops) # {}
    <3> DEFINE y == Longer(FirstListed(PathHits(f, x, max_hops), x[Len(x)]), x)
    <3>1. y \in S
      BY <1>2, <2>2, LongerIsPath
    <3>2. f[y] \in V
      BY <3>1
    <3> QED
      BY <3>2 DEF SearchAlong
  <2> QED
    BY <2>1, <2>2
<1>4. F \in [[S -> V] -> [S -> V]]
  BY <1>3
<1>5. ASSUME NEW g \in [S -> V], NEW h \in [S -> V], NEW x \in S,
             \A y \in S : rank[y] < rank[x] => g[y] = h[y]
      PROVE  F[g][x] = F[h][x]
  <2>1. ASSUME NEW e, Follows(e, x, max_hops) PROVE g[Longer(e, x)] = h[Longer(e, x)]
    <3>1. Longer(e, x) \in S /\ Cardinality(Node \ On(Longer(e, x))) < Cardinality(Node \ On(x))
      BY <2>1, LongerIsPath
    <3> QED
      BY <1>5, <3>1
  <2>2. PathHits(g, x, max_hops) = PathHits(h, x, max_hops)
    BY <2>1 DEF PathHits, Follows
  <2>3. SearchAlong(g, x, target, max_hops) = SearchAlong(h, x, target, max_hops)
    <3>1. CASE PathHits(g, x, max_hops) = {}
      BY <2>2, <3>1 DEF SearchAlong
    <3>2. CASE PathHits(g, x, max_hops) # {}
      <4> DEFINE y == Longer(FirstListed(PathHits(g, x, max_hops), x[Len(x)]), x)
      <4>1. g[y] = h[y]
        BY <1>2, <2>1, <3>2
      <4> QED
        BY <2>2, <4>1 DEF SearchAlong
    <3> QED
      BY <3>1, <3>2
  <2> QED
    BY <2>3
<1>6. \E f : f = Step(f)
  <2> HIDE DEF rank, V
  <2>1. V # {}
    BY DEF V
  <2>2. PICK f \in [S -> V] : f = F[f]
    <3>1. LooksBelow(S, V, Len(nodes), rank, F)
      <4> HIDE DEF F
      <4> QED
        BY <1>1, <1>4, <1>5, <2>1 DEF LooksBelow
    <3> HIDE DEF F, S
    <3> QED
      BY <3>1, RecursionExists
  <2> QED
    BY <2>2
<1>7. DfsIbPath(target, max_hops) = Step(DfsIbPath(target, max_hops))
  <2>1. DfsIbPath(target, max_hops) = CHOOSE f : f = Step(f)
    BY DEF DfsIbPath, SearchAlong, PathHits, Longer
  <2> QED
    BY <1>6, <2>1
<1> QED
  BY <1>7

IbEdge(a, b, max_hops) ==
    \E e \in 1..Len(edges) : /\ Joins(e, a, b) /\ edges[e].kind = "InfiniBand"
                             /\ edges[e].ib_hop_count <= max_hops

\* What the search has walked is a simple path of healthy GPUs.
Walked(path, max_hops) ==
    /\ path \in Seq(Node) /\ Len(path) > 0
    /\ \A i \in 1..Len(path) : path[i] \in Healthy
    /\ \A i, j \in 1..Len(path) : i # j => path[i] # path[j]
    /\ \A i \in 1..(Len(path) - 1) : IbEdge(path[i], path[i + 1], max_hops)

\* The paths of the wanted length that start as it does.
Extensions(path, target, max_hops) ==
    {q \in [1..target -> Healthy] :
        /\ Len(path) <= target
        /\ \A i, j \in 1..target : i # j => q[i] # q[j]
        /\ \A i \in 1..(target - 1) : IbEdge(q[i], q[i + 1], max_hops)
        /\ \A i \in 1..Len(path) : q[i] = path[i]}

Reached(found, path, target, max_hops) ==
    /\ found \subseteq Extensions(path, target, max_hops)
    /\ Extensions(path, target, max_hops) # {} => found # {}

\* A step along a link the search follows is a step of a path, ...
LEMMA WalkOn ==
    ASSUME Len(nodes) \in Nat, edges \in Seq(Link), NEW max_hops, NEW target \in Nat,
           NEW path, Walked(path, max_hops), NEW e, Follows(e, path, max_hops)
    PROVE  /\ Walked(Longer(e, path), max_hops)
           /\ Extensions(Longer(e, path), target, max_hops)
                  \subseteq Extensions(path, target, max_hops)
<1> DEFINE v == Far(e, path[Len(path)])
           q == Longer(e, path)
<1>1. path \in Seq(Node) /\ Len(path) \in Nat /\ Len(path) > 0
  BY DEF Walked
<1>2. /\ q \in Seq(Node) /\ Len(q) = Len(path) + 1 /\ q[Len(path) + 1] = v
      /\ \A i \in 1..Len(path) : q[i] = path[i]
  BY <1>1, LongerIsPath
<1>3. v \in Healthy /\ \A i \in 1..Len(path) : path[i] # v
  BY DEF Follows
<1>4. IbEdge(path[Len(path)], v, max_hops)
  <2>1. e \in 1..Len(edges) /\ path[Len(path)] \in {edges[e].source, edges[e].target}
    BY DEF Follows, LinksOf
  <2>2. Joins(e, path[Len(path)], v)
    BY <2>1 DEF Joins, Far
  <2> QED
    BY <2>1, <2>2 DEF IbEdge, Follows
<1> HIDE DEF v, q
<1>5. Walked(q, max_hops)
  <2>1. \A i \in 1..Len(q) : i \in 1..Len(path) \/ i = Len(path) + 1
    BY <1>1, <1>2
  <2>2. \A i \in 1..Len(q) : q[i] \in Healthy
    BY <1>2, <1>3, <2>1 DEF Walked
  <2>3. \A i, j \in 1..Len(q) : i # j => q[i] # q[j]
    BY <1>2, <1>3, <2>1 DEF Walked
  <2>4. ASSUME NEW i \in 1..(Len(q) - 1) PROVE IbEdge(q[i], q[i + 1], max_hops)
    <3>1. CASE i \in 1..(Len(path) - 1)
      <4>1. i \in 1..Len(path) /\ i + 1 \in 1..Len(path)
        BY <1>1, <3>1
      <4> QED
        BY <1>2, <3>1, <4>1 DEF Walked
    <3>2. CASE i = Len(path)
      <4>1. i \in 1..Len(path)
        BY <1>1, <3>2
      <4> QED
        BY <1>2, <1>4, <3>2, <4>1
    <3> QED
      BY <1>1, <1>2, <3>1, <3>2
  <2> QED
    BY <1>1, <1>2, <2>2, <2>3, <2>4 DEF Walked
<1>6. Extensions(q, target, max_hops) \subseteq Extensions(path, target, max_hops)
  <2> SUFFICES ASSUME NEW r \in Extensions(q, target, max_hops)
               PROVE  r \in Extensions(path, target, max_hops)
    OBVIOUS
  <2>1. Len(path) <= target /\ \A i \in 1..Len(path) : i \in 1..Len(q)
    BY <1>1, <1>2 DEF Extensions
  <2> QED
    BY <1>2, <2>1 DEF Extensions
<1> QED
  BY <1>5, <1>6 DEF q

\* ... and every longer path takes such a link next.
LEMMA NextOnPath ==
    ASSUME Len(nodes) \in Nat, edges \in Seq(Link), NEW max_hops, NEW target \in Nat,
           NEW path, Walked(path, max_hops), Len(path) # target,
           NEW r \in Extensions(path, target, max_hops)
    PROVE  \E e \in LinksOf(path[Len(path)]) :
               Follows(e, path, max_hops) /\ r \in Extensions(Longer(e, path), target, max_hops)
<1> DEFINE n == Len(path)
           v == r[n + 1]
<1>1. path \in Seq(Node) /\ n \in Nat /\ n > 0 /\ n <= target
  BY DEF Walked, Extensions
<1>2. n \in 1..(target - 1) /\ n \in 1..target /\ n + 1 \in 1..target
  BY <1>1
<1>3. /\ r \in [1..target -> Healthy]
      /\ \A i, j \in 1..target : i # j => r[i] # r[j]
      /\ \A i \in 1..(target - 1) : IbEdge(r[i], r[i + 1], max_hops)
      /\ \A i \in 1..n : r[i] = path[i]
  BY DEF Extensions
<1>4. n \in 1..n /\ r[n] = path[n] /\ v \in Healthy /\ v # path[n]
  <2>1. n \in 1..n
    BY <1>1
  <2>2. n # n + 1
    BY <1>1
  <2> QED
    BY <1>2, <1>3, <2>1, <2>2
<1>5. PICK e \in 1..Len(edges) : /\ Joins(e, path[n], v) /\ edges[e].kind = "InfiniBand"
                                 /\ edges[e].ib_hop_count <= max_hops
  BY <1>2, <1>3, <1>4 DEF IbEdge
<1>6. e \in LinksOf(path[n]) /\ Far(e, path[n]) = v
  <2>1. DOMAIN edges = 1..Len(edges)
    OBVIOUS
  <2>2. {edges[e].source, edges[e].target} = {path[n], v}
    BY <1>5 DEF Joins
  <2> HIDE DEF v
  <2>3. path[n] \in {edges[e].source, edges[e].target}
    BY <2>2
  <2>4. CASE edges[e].source = path[n]
    BY <1>4, <2>1, <2>2, <2>4 DEF LinksOf, Far
  <2>5. CASE edges[e].source # path[n]
    BY <1>4, <2>1, <2>2, <2>3, <2>5 DEF LinksOf, Far
  <2> QED
    BY <2>4, <2>5
<1>7. \A i \in 1..n : path[i] # v
  <2> SUFFICES ASSUME NEW i \in 1..n PROVE path[i] # v
    OBVIOUS
  <2>1. i \in 1..target /\ i # n + 1
    BY <1>1
  <2> QED
    BY <1>2, <1>3, <2>1
<1>8. Follows(e, path, max_hops)
  BY <1>4, <1>5, <1>6, <1>7 DEF Follows
<1>9. r \in Extensions(Longer(e, path), target, max_hops)
  <2> DEFINE q == Longer(e, path)
  <2>1. /\ Len(q) = n + 1 /\ q[n + 1] = v /\ \A i \in 1..n : q[i] = path[i]
    BY <1>1, <1>6, <1>8, LongerIsPath
  <2> HIDE DEF q
  <2>2. \A i \in 1..Len(q) : i \in 1..n \/ i = n + 1
    BY <1>1, <2>1
  <2>3. \A i \in 1..Len(q) : r[i] = q[i]
    BY <1>3, <2>1, <2>2
  <2>4. Len(q) <= target
    BY <1>2, <2>1
  <2> QED
    BY <1>3, <2>3, <2>4 DEF Extensions, q
<1> QED
  BY <1>6, <1>8, <1>9

\* One level of the recursion.
LEMMA DfsLevel ==
    ASSUME Len(nodes) \in Nat, edges \in Seq(Link), NEW max_hops, NEW target \in Nat,
           NEW path, Walked(path, max_hops), NEW dfs,
           \A e : Follows(e, path, max_hops) =>
               Reached(dfs[Longer(e, path)], Longer(e, path), target, max_hops)
    PROVE  Reached(SearchAlong(dfs, path, target, max_hops), path, target, max_hops)
<1> DEFINE H == PathHits(dfs, path, max_hops)
           X == Extensions(path, target, max_hops)
<1>1. \A e : e \in H <=> /\ e \in LinksOf(path[Len(path)]) /\ Follows(e, path, max_hops)
                         /\ dfs[Longer(e, path)] # {}
  BY DEF PathHits, Follows
<1>2. CASE Len(path) = target
  <2>1. path \in X
    <3>1. path \in [1..target -> Healthy]
      BY <1>2 DEF Walked
    <3>2. Len(path) <= target
      BY <1>2
    <3> QED
      BY <1>2, <3>1, <3>2 DEF Walked, Extensions
  <2> QED
    BY <1>2, <2>1 DEF SearchAlong, Reached
<1>3. CASE Len(path) # target /\ H = {}
  <2>1. ASSUME NEW r \in X PROVE FALSE
    <3>1. PICK e \in LinksOf(path[Len(path)]) :
              Follows(e, path, max_hops) /\ r \in Extensions(Longer(e, path), target, max_hops)
      BY <1>3, NextOnPath
    <3>2. dfs[Longer(e, path)] # {}
      BY <3>1 DEF Reached
    <3> QED
      BY <1>1, <1>3, <3>1, <3>2
  <2> QED
    BY <1>3, <2>1 DEF SearchAlong, Reached
<1>4. CASE Len(path) # target /\ H # {}
  <2> DEFINE e == FirstListed(H, path[Len(path)])
  <2>1. e \in H
    <3>1. H \in SUBSET DOMAIN edges
      BY DEF PathHits, LinksOf
    <3> HIDE DEF H
    <3> QED
      BY <1>4, <3>1, FirstListedHits
  <2>2. SearchAlong(dfs, path, target, max_hops) = dfs[Longer(e, path)]
    BY <1>4 DEF SearchAlong
  <2>3. Follows(e, path, max_hops) /\ dfs[Longer(e, path)] # {}
    BY <1>1, <2>1
  <2> HIDE DEF e
  <2>4. dfs[Longer(e, path)] \subseteq Extensions(Longer(e, path), target, max_hops)
    BY <2>3 DEF Reached
  <2>5. Extensions(Longer(e, path), target, max_hops) \subseteq X
    BY <2>3, WalkOn
  <2> QED
    BY <2>2, <2>3, <2>4, <2>5 DEF Reached
<1> QED
  BY <1>2, <1>3, <1>4

LEMMA DfsCorrect ==
    ASSUME Len(nodes) \in Nat, edges \in Seq(Link), NEW max_hops, NEW target \in Nat,
           NEW path, Walked(path, max_hops)
    PROVE  Reached(DfsIbPath(target, max_hops)[path], path, target, max_hops)
<1> DEFINE dfs == DfsIbPath(target, max_hops)
           rank(x) == Cardinality(Node \ On(x))
           Deep(n) == \A x : Walked(x, max_hops) /\ rank(x) < n =>
                          Reached(dfs[x], x, target, max_hops)
           G == {n \in Nat : Deep(n)}
<1>1. \A x : rank(x) \in Nat
  <2>1. \A x : Node \ On(x) \in SUBSET Node
    OBVIOUS
  <2> QED
    BY <2>1, NodeFinite
<1>2. 0 \in G
  BY <1>1
<1>3. ASSUME NEW n \in G PROVE n + 1 \in G
  <2>1. ASSUME NEW x, Walked(x, max_hops), rank(x) < n + 1
        PROVE  Reached(dfs[x], x, target, max_hops)
    <3>1. x \in Seq(Node)
      BY <2>1 DEF Walked
    <3>2. ASSUME NEW e, Follows(e, x, max_hops)
          PROVE  Reached(dfs[Longer(e, x)], Longer(e, x), target, max_hops)
      <4>1. rank(Longer(e, x)) < rank(x)
        BY <3>1, <3>2, LongerIsPath
      <4> HIDE DEF rank, dfs
      <4>2. rank(Longer(e, x)) < n
        BY <1>1, <2>1, <4>1
      <4>3. Walked(Longer(e, x), max_hops)
        BY <2>1, <3>2, WalkOn
      <4> QED
        BY <4>2, <4>3
    <3>3. dfs[x] = SearchAlong(dfs, x, target, max_hops)
      BY <3>1, DfsIbPathStep
    <3> HIDE DEF dfs
    <3>4. Reached(SearchAlong(dfs, x, target, max_hops), x, target, max_hops)
      BY <2>1, <3>2, DfsLevel
    <3> QED
      BY <3>3, <3>4
  <2> HIDE DEF dfs, rank
  <2> QED
    BY <2>1
<1>4. G = Nat
  <2> HIDE DEF G
  <2>1. G \in SUBSET Nat
    BY DEF G
  <2> QED
    BY <1>2, <1>3, <2>1, Induction
<1> HIDE DEF rank, dfs
<1>5. Deep(rank(path) + 1)
  <2>1. rank(path) + 1 \in G
    <3> HIDE DEF G
    <3> QED
      BY <1>1, <1>4
  <2> QED
    BY <2>1
<1>6. rank(path) < rank(path) + 1
  BY <1>1
<1> QED
  BY <1>5, <1>6 DEF dfs

\* The depth-first search finds a path whenever there is one, and it is one of
\* those from the start that is lowest in index.
LEMMA FindIbPathExact ==
    ASSUME Len(nodes) \in Nat, edges \in Seq(Link), NEW size \in Nat, NEW hops
    PROVE  /\ FindIbPath(size, hops) \subseteq Declared!FindIbPath(Healthy, size, hops)
           /\ FindIbPath(size, hops) = {} => Declared!FindIbPath(Healthy, size, hops) = {}
<1> DEFINE P == Declared!IbPaths(Healthy, size, hops)
           From(v) == DfsIbPath(size, hops)[<<v>>]
           X(v) == Extensions(<<v>>, size, hops)
           Starts == {v \in Healthy : From(v) # {}}
<1>1. Healthy \in SUBSET Node /\ Node \subseteq Nat
  BY NodeFinite DEF Healthy
<1>2. \A v \in Healthy : From(v) \subseteq X(v) /\ (X(v) # {} => From(v) # {})
  <2> SUFFICES ASSUME NEW v \in Healthy PROVE Reached(From(v), <<v>>, size, hops)
    BY DEF Reached
  <2>1. /\ <<v>> \in Seq(Node) /\ Len(<<v>>) = 1 /\ <<v>>[1] = v
    BY <1>1
  <2>2. Walked(<<v>>, hops)
    <3> DEFINE q == <<v>>
    <3>1. \A i \in 1..Len(q) : i = 1
      BY <2>1
    <3>2. 1..(Len(q) - 1) = {}
      BY <2>1
    <3> HIDE DEF q
    <3>3. q \in Seq(Node) /\ Len(q) = 1 /\ q[1] = v
      BY <2>1 DEF q
    <3>4. Walked(q, hops)
      BY <3>1, <3>2, <3>3 DEF Walked
    <3> QED
      BY <3>4 DEF q
  <2> QED
    BY <2>2, DfsCorrect
<1>3. ASSUME NEW a, NEW b PROVE Declared!IbHop(a, b, hops) <=> IbEdge(a, b, hops)
  <2>1. ASSUME NEW l \in Links, l.ends = {a, b}, l.kind = "InfiniBand", l.ib_hop_count <= hops
        PROVE  IbEdge(a, b, hops)
    <3>1. PICK e \in 1..Len(edges) :
              l = [ends |-> {edges[e].source, edges[e].target}, kind |-> edges[e].kind,
                   bandwidth_gbps |-> edges[e].bandwidth_gbps,
                   ib_hop_count |-> edges[e].ib_hop_count]
      BY DEF Links
    <3> QED
      BY <2>1, <3>1 DEF IbEdge, Joins
  <2>2. ASSUME NEW e \in 1..Len(edges), Joins(e, a, b), edges[e].kind = "InfiniBand",
               edges[e].ib_hop_count <= hops
        PROVE  Declared!IbHop(a, b, hops)
    <3> DEFINE l == [ends |-> {edges[e].source, edges[e].target}, kind |-> edges[e].kind,
                     bandwidth_gbps |-> edges[e].bandwidth_gbps,
                     ib_hop_count |-> edges[e].ib_hop_count]
    <3>1. l \in Links
      BY DEF Links
    <3>2. l.ends = {a, b} /\ l.kind = "InfiniBand" /\ l.ib_hop_count <= hops
      BY <2>2 DEF Joins
    <3> HIDE DEF l
    <3> QED
      BY <3>1, <3>2 DEF Declared!IbHop
  <2> QED
    BY <2>1, <2>2 DEF Declared!IbHop, IbEdge
<1>4. \A q : q \in P <=> \E v \in Healthy : q \in X(v)
  <2>1. ASSUME NEW v \in Healthy
        PROVE  X(v) = {q \in [1..size -> Healthy] :
                          /\ size > 0
                          /\ \A i, j \in 1..size : i # j => q[i] # q[j]
                          /\ \A i \in 1..(size - 1) : IbEdge(q[i], q[i + 1], hops)
                          /\ q[1] = v}
    <3>1. Len(<<v>>) = 1 /\ <<v>>[1] = v /\ 1..Len(<<v>>) = {1} /\ (1 <= size <=> size > 0)
      OBVIOUS
    <3> QED
      BY <3>1 DEF Extensions
  <2>2. P = {q \in [1..size -> Healthy] :
                /\ size > 0
                /\ \A i, j \in 1..size : i # j => q[i] # q[j]
                /\ \A i \in 1..(size - 1) : IbEdge(q[i], q[i + 1], hops)}
    <3>1. \A q : (\A i \in 1..(size - 1) : Declared!IbHop(q[i], q[i + 1], hops))
                    <=> (\A i \in 1..(size - 1) : IbEdge(q[i], q[i + 1], hops))
      BY <1>3, Zenon
    <3> QED
      BY <3>1 DEF Declared!IbPaths
  <2>3. \A q \in P : q[1] \in Healthy
    <3> SUFFICES ASSUME NEW q \in P PROVE q[1] \in Healthy
      OBVIOUS
    <3>1. q \in [1..size -> Healthy] /\ 1 \in 1..size
      BY <2>2
    <3> QED
      BY <3>1
  <2> HIDE DEF X, P
  <2> QED
    BY <2>1, <2>2, <2>3
<1>5. \A v \in Healthy : \A q \in X(v) : q[1] = v
  BY DEF Extensions
<1>6. CASE Cardinality(Healthy) < size
  <2>1. ASSUME NEW q \in P PROVE FALSE
    <3>1. q \in Injection(1..size, Healthy)
      BY <2>1 DEF Declared!IbPaths, Injection, IsInjective
    <3>2. IsFiniteSet(Healthy) /\ Cardinality(Healthy) \in Nat
      BY <1>1, NodeFinite
    <3>3. Cardinality(1..size) <= Cardinality(Healthy)
      BY <3>1, <3>2, FS_Injection
    <3>4. Cardinality(1..size) = size
      BY FS_Interval
    <3> QED
      BY <1>6, <3>2, <3>3, <3>4
  <2> QED
    BY <1>6, <2>1 DEF FindIbPath, Declared!FindIbPath
<1>7. CASE Starts = {}
  <2>1. P = {}
    BY <1>2, <1>4, <1>7
  <2> QED
    BY <1>7, <2>1 DEF FindIbPath, Declared!FindIbPath
<1>8. CASE ~(Cardinality(Healthy) < size) /\ Starts # {}
  <2> DEFINE v == Least(Starts)
  <2>1. FindIbPath(size, hops) = From(v)
    BY <1>8 DEF FindIbPath
  <2>2. v \in Starts /\ \A x \in Starts : v <= x
    <3>1. Starts \in SUBSET Node
      BY <1>1
    <3> HIDE DEF Starts
    <3> QED
      BY <1>8, <3>1, NodeFinite
  <2> HIDE DEF v
  <2>3. v \in Healthy /\ From(v) # {} /\ From(v) \subseteq X(v)
    BY <1>2, <2>2
  <2> HIDE DEF From, X, P
  <2>4. ASSUME NEW q \in From(v), NEW r \in P PROVE q \in P /\ q[1] = v /\ v <= r[1] /\ v \in Node /\ r[1] \in Node
    <3>1. q \in P /\ q[1] = v
      BY <1>4, <1>5, <2>3
    <3>2. PICK w \in Healthy : r \in X(w)
      BY <1>4
    <3>3. w \in Starts /\ r[1] = w
      BY <1>2, <1>5, <3>2
    <3> QED
      BY <1>1, <2>2, <2>3, <3>1, <3>3
  <2>5. From(v) \subseteq Declared!FindIbPath(Healthy, size, hops)
    <3> SUFFICES ASSUME NEW q \in From(v) PROVE q \in Declared!FindIbPath(Healthy, size, hops)
      OBVIOUS
    <3>1. q \in P
      BY <1>4, <2>3
    <3>2. \A r \in P : [i \in Node |-> i][q[1]] <= [i \in Node |-> i][r[1]]
      BY <2>4
    <3> QED
      BY <3>1, <3>2 DEF Declared!FindIbPath, P
  <2> QED
    BY <2>1, <2>3, <2>5
<1> QED
  BY <1>6, <1>7, <1>8

-----------------------------------------------------------------------------
(* The theorems                                                            *)

\* What the builder maintains: types, and an index that is exact.
Inductive == TypeOK /\ IndexIsExact

LEMMA InductiveInit == Init => Inductive
<1> SUFFICES ASSUME Init PROVE Inductive
  OBVIOUS
<1>1. Node = {} /\ Len(edges) = 0 /\ DOMAIN id_index = {}
  BY DEF Init, Node
<1> QED
  BY <1>1 DEF Init, Inductive, TypeOK, IndexIsExact

LEMMA InductiveNext == Inductive /\ [Next]_vars => Inductive'
<1> SUFFICES ASSUME Inductive, [Next]_vars PROVE Inductive'
  OBVIOUS
<1> USE DEF Inductive, TypeOK, IndexIsExact
<1> DEFINE N == [gpu_id : GpuId, healthy : BOOLEAN]
<1>1. Len(nodes) \in Nat /\ Len(edges) \in Nat /\ Node = 1..Len(nodes)
  BY DEF Node
<1>2. ASSUME NEW g \in GpuId, AddGpu(g) PROVE Inductive'
  <2> DEFINE n == [gpu_id |-> g, healthy |-> TRUE]
  <2>1. /\ g \notin DOMAIN id_index
        /\ nodes' = Append(nodes, n)
        /\ id_index' = [x \in DOMAIN id_index \cup {g} |->
                           IF x = g THEN Len(nodes) + 1 ELSE id_index[x]]
        /\ edges' = edges
    BY <1>2 DEF AddGpu
  <2>2. n \in N /\ n.gpu_id = g
    OBVIOUS
  <2> HIDE DEF n
  <2>3. /\ nodes' \in Seq(N) /\ Len(nodes') = Len(nodes) + 1
        /\ nodes'[Len(nodes) + 1] = n
        /\ \A i \in Node : nodes'[i] = nodes[i]
    BY <1>1, <2>1, <2>2, AppendProperties
  <2>4. Node' = Node \cup {Len(nodes) + 1} /\ Len(nodes) + 1 \notin Node
    BY <1>1, <2>3 DEF Node
  <2>5. TypeOK'
    BY <2>1, <2>3, <2>4
  <2>6. IndexIsExact'
    <3>1. \A x \in DOMAIN id_index' : id_index'[x] \in Node' /\ nodes'[id_index'[x]].gpu_id = x
      BY <2>1, <2>2, <2>3, <2>4
    <3>2. \A i \in Node' : nodes'[i].gpu_id \in DOMAIN id_index' /\ id_index'[nodes'[i].gpu_id] = i
      BY <2>1, <2>2, <2>3, <2>4
    <3> QED
      BY <3>1, <3>2
  <2> QED
    BY <2>5, <2>6
<1>3. ASSUME NEW g \in GpuId, MarkUnhealthy(g) PROVE Inductive'
  <2>1. id_index' = id_index /\ edges' = edges
    BY <1>3 DEF MarkUnhealthy
  <2>2. /\ nodes' \in Seq(N) /\ Len(nodes') = Len(nodes)
        /\ \A i \in Node : nodes'[i].gpu_id = nodes[i].gpu_id
    <3>1. CASE g \in DOMAIN id_index
      <4> DEFINE k == id_index[g]
      <4>1. k \in Node /\ nodes' = [nodes EXCEPT ![k] = [nodes[k] EXCEPT !.healthy = FALSE]]
        BY <1>3, <3>1 DEF MarkUnhealthy
      <4>2. nodes[k] \in N /\ [nodes[k] EXCEPT !.healthy = FALSE] \in N
        <5>1. nodes[k] \in N
          BY <1>1, <4>1, ElementOfSeq
        <5> QED
          BY <5>1
      <4> HIDE DEF k
      <4>3. nodes' \in Seq(N) /\ Len(nodes') = Len(nodes)
        BY <1>1, <4>1, <4>2
      <4>4. \A i \in Node : nodes[i] \in N
        BY <1>1, ElementOfSeq
      <4> QED
        BY <1>1, <4>1, <4>2, <4>3, <4>4
    <3>2. CASE g \notin DOMAIN id_index
      BY <1>3, <3>2 DEF MarkUnhealthy
    <3> QED
      BY <3>1, <3>2
  <2>3. Node' = Node
    BY <2>2 DEF Node
  <2> QED
    BY <2>1, <2>2, <2>3
<1>4. ASSUME NEW l \in NextLinks, NEW p \in Joined(l), AddLink(p[1], p[2], l)
      PROVE  Inductive'
  <2>1. l \in Link
    <3>1. PICK o \in Orders : Len(o) > Len(edges) /\ l = o[Len(edges) + 1]
      BY <1>4 DEF NextLinks
    <3>2. o \in Seq(Link) /\ Len(edges) + 1 \in 1..Len(o)
      BY <1>1, <3>1, OrdersAssumption
    <3> QED
      BY <3>1, <3>2
  <2>2. /\ l.source \in Node /\ l.target \in Node
        /\ edges' = Append(edges, l) /\ nodes' = nodes /\ id_index' = id_index
    <3>1. p \in (DOMAIN id_index) \X (DOMAIN id_index)
          /\ id_index[p[1]] = l.source /\ id_index[p[2]] = l.target
      BY DEF Joined
    <3>2. l.source \in Node /\ l.target \in Node
      <4>1. p[1] \in DOMAIN id_index /\ p[2] \in DOMAIN id_index
        BY <3>1
      <4>2. \A g \in DOMAIN id_index : id_index[g] \in Node
        BY <1>1
      <4> QED
        BY <3>1, <4>1, <4>2, Zenon
    <3>3. [l EXCEPT !.source = id_index[p[1]], !.target = id_index[p[2]]] = l
      BY <2>1, <3>1 DEF Link
    <3> QED
      BY <1>4, <3>2, <3>3 DEF AddLink
  <2>3. /\ edges' \in Seq(Link) /\ Len(edges') = Len(edges) + 1
        /\ edges'[Len(edges) + 1] = l
        /\ \A i \in 1..Len(edges) : edges'[i] = edges[i]
    BY <1>1, <2>1, <2>2, AppendProperties
  <2>4. \A i \in 1..Len(edges') : i \in 1..Len(edges) \/ i = Len(edges) + 1
    BY <1>1, <2>3
  <2>5. Node' = Node
    BY <2>2 DEF Node
  <2> QED
    BY <2>2, <2>3, <2>4, <2>5
<1>5. CASE UNCHANGED vars
  BY <1>5 DEF vars, Node
<1> QED
  BY <1>2, <1>3, <1>4, <1>5 DEF Next

\* The index of the graph leads from every id to its own vertex and misses
\* none, whatever is added and whichever GPUs become unhealthy.
THEOREM GraphIndexIsExact == Spec => [](TypeOK /\ IndexIsExact)
<1> USE DEF Inductive
<1> QED
  BY InductiveInit, InductiveNext, PTL DEF Spec

\* In every graph that can be built, of every number of GPUs, the
\* backtracking search with its pruning returns the clique of healthy GPUs
\* that is lowest in index, and None only if there is none.
THEOREM GraphCliqueFound == Spec => []CliqueFound
<1>1. Inductive => CliqueFound
  <2> SUFFICES ASSUME Inductive,
                      NEW size \in 0..(Len(nodes) + 1), NEW bw \in Weights
               PROVE  FindNvlinkClique(size, bw) = Declared!FindNvlinkClique(Healthy, size, bw)
    BY DEF CliqueFound
  <2>1. Len(nodes) \in Nat /\ size \in Nat
    BY DEF Inductive, TypeOK
  <2> QED
    BY <2>1, CliqueSearchExact
<1> QED
  BY <1>1, InductiveInit, InductiveNext, PTL DEF Spec

\* In every graph that can be built the depth-first search returns a simple
\* path of healthy GPUs over short hops from the lowest start that has one,
\* and None only if there is no path at all.
THEOREM GraphPathFound == Spec => []PathFound
<1>1. Inductive => PathFound
  <2> SUFFICES ASSUME Inductive,
                      NEW size \in 0..(Len(nodes) + 1), NEW hops \in Weights
               PROVE  /\ FindIbPath(size, hops) \subseteq Declared!FindIbPath(Healthy, size, hops)
                      /\ FindIbPath(size, hops) = {}
                             => Declared!FindIbPath(Healthy, size, hops) = {}
    BY DEF PathFound
  <2>1. Len(nodes) \in Nat /\ edges \in Seq(Link) /\ size \in Nat
    BY DEF Inductive, TypeOK
  <2> QED
    BY <2>1, FindIbPathExact
<1> QED
  BY <1>1, InductiveInit, InductiveNext, PTL DEF Spec
=============================================================================

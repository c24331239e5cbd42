------------------------- MODULE TopologyDsl_proofs -------------------------
(***************************************************************************)
(* The lexer and the parser of the topology DSL, for texts of every length *)
(* over every vocabulary: what is accepted is read whole and once, has the *)
(* shape the scheduler relies on, and is what the grammar derives, but for *)
(* the conjunctions of more than two atoms.                                *)
(*                                                                         *)
(* The recursions are inductions on what is left to read.  As in           *)
(* GraphSearch_proofs the principles are stated about sets and functions.  *)
(***************************************************************************)
EXTENDS TopologyDsl, FiniteSetTheorems, SequenceTheorems, TLAPS

LEMMA LeastNat ==
    ASSUME NEW T \in SUBSET Nat, T # {}
    PROVE  \E n \in T : \A m \in T : n <= m
<1> DEFINE R == OpToRel(<, Nat)
<1>1. IsWellFoundedOn(R, Nat)
  BY NatLessThanWellFounded
<1>2. \A x, y \in Nat : x < y => <<x, y>> \in R
  BY DEF OpToRel
<1> HIDE DEF R
<1>3. PICK n \in T : \A m \in T : ~(<<m, n>> \in R)
  BY <1>1, WFMin
<1>4. n \in Nat /\ \A m \in T : m \in Nat
  BY <1>3
<1>5. \A m \in T : ~(m < n)
  BY <1>2, <1>3, <1>4
<1> QED
  BY <1>4, <1>5

LEMMA Induction ==
    ASSUME NEW G \in SUBSET Nat, 0 \in G, \A n \in G : n + 1 \in G
    PROVE  G = Nat
<1> SUFFICES ASSUME Nat \ G # {} PROVE FALSE
  OBVIOUS
<1>1. PICK n \in Nat \ G : \A m \in Nat \ G : n <= m
  BY LeastNat
<1>2. n - 1 \in Nat
  BY <1>1
<1>3. n - 1 \in G
  BY <1>1, <1>2
<1> QED
  BY <1>1, <1>2, <1>3

\* A step F from functions to functions that looks, for each argument, only at
\* arguments of smaller rank ...
LooksBelow(S, V, N, rank, F) ==
    /\ V # {} /\ N \in Nat /\ rank \in [S -> 0..N]
    /\ F \in [[S -> V] -> [S -> V]]
    /\ \A g, h \in [S -> V], x \in S :
           (\A y \in S : rank[y] < rank[x] => g[y] = h[y]) => F[g][x] = F[h][x]

\* ... has a fixed point.
LEMMA RecursionExists ==
    ASSUME NEW S, NEW V, NEW N, NEW rank, NEW F, LooksBelow(S, V, N, rank, F)
    PROVE  \E f \in [S -> V] : f = F[f]
<1> USE DEF LooksBelow
<1> DEFINE Upto(g, n) == \A x \in S : rank[x] < n => F[g][x] = g[x]
           G == {n \in Nat : \E g \in [S -> V] : Upto(g, n)}
<1>1. 0 \in G
  <2>1. PICK v \in V : TRUE
    OBVIOUS
  <2>2. [x \in S |-> v] \in [S -> V]
    OBVIOUS
  <2>3. Upto([x \in S |-> v], 0)
    OBVIOUS
  <2> QED
    BY <2>2, <2>3
<1>2. ASSUME NEW n \in G PROVE n + 1 \in G
  <2>1. PICK g \in [S -> V] : Upto(g, n)
    OBVIOUS
  <2>2. F[g] \in [S -> V]
    OBVIOUS
  <2>3. ASSUME NEW x \in S, rank[x] < n + 1 PROVE F[F[g]][x] = F[g][x]
    <3>1. \A y \in S : rank[y] < rank[x] => F[g][y] = g[y]
      BY <2>1, <2>3
    <3> QED
      BY <2>2, <3>1
  <2> QED
    BY <2>2, <2>3
<1>3. G = Nat
  <2> HIDE DEF G
  <2>1. G \in SUBSET Nat
    BY DEF G
  <2> QED
    BY <1>1, <1>2, <2>1, Induction
<1>4. PICK f \in [S -> V] : Upto(f, N + 1)
  <2>1. N + 1 \in G
    <3> HIDE DEF G
    <3> QED
      BY <1>3
  <2> QED
    BY <2>1
<1>5. \A x \in S : F[f][x] = f[x]
  BY <1>4
<1>6. F[f] \in [S -> V]
  OBVIOUS
<1> QED
  BY <1>5, <1>6

-----------------------------------------------------------------------------
(* What concatenating a sequence of sequences gives.                       *)

\* f[i] is the concatenation of the first i.
Chain(f, seqs) ==
    f = [i \in 1..Len(seqs) |-> IF i = 1 THEN seqs[i] ELSE f[i - 1] \o seqs[i]]

LEMMA ChainUnique ==
    ASSUME NEW S, NEW seqs \in Seq(Seq(S)), NEW f, NEW g, Chain(f, seqs), Chain(g, seqs)
    PROVE  f = g
<1> DEFINE G == {n \in Nat : \A i \in 1..Len(seqs) : i = n + 1 => f[i] = g[i]}
<1>1. Len(seqs) \in Nat
  OBVIOUS
<1>2. \A i \in 1..Len(seqs) : /\ f[i] = IF i = 1 THEN seqs[i] ELSE f[i - 1] \o seqs[i]
                              /\ g[i] = IF i = 1 THEN seqs[i] ELSE g[i - 1] \o seqs[i]
  BY DEF Chain
<1>3. 0 \in G
  BY <1>2
<1>4. ASSUME NEW n \in G PROVE n + 1 \in G
  <2>1. n \in Nat
    OBVIOUS
  <2>2. ASSUME NEW i \in 1..Len(seqs), i = n + 1 + 1 PROVE f[i] = g[i]
    <3>1. i - 1 \in 1..Len(seqs) /\ i - 1 = n + 1 /\ i # 1
      BY <1>1, <2>1, <2>2
    <3>2. f[i - 1] = g[i - 1]
      BY <3>1
    <3> QED
      BY <1>2, <3>1, <3>2
  <2> QED
    BY <2>1, <2>2
<1>5. G = Nat
  <2> HIDE DEF G
  <2>1. G \in SUBSET Nat
    BY DEF G
  <2> QED
    BY <1>3, <1>4, <2>1, Induction
<1>6. ASSUME NEW i \in 1..Len(seqs) PROVE f[i] = g[i]
  <2>1. i - 1 \in Nat /\ i = i - 1 + 1
    BY <1>1
  <2>2. i - 1 \in G
    BY <1>5, <2>1
  <2> QED
    BY <2>1, <2>2
<1>7. /\ f = [i \in 1..Len(seqs) |-> f[i]]
      /\ g = [i \in 1..Len(seqs) |-> g[i]]
  BY DEF Chain
<1> QED
  BY <1>6, <1>7

\* Whatever satisfies the recursion is what FlattenSeq computes.
LEMMA FlattenIs ==
    ASSUME NEW S, NEW seqs \in Seq(Seq(S)), Len(seqs) > 0, NEW f, Chain(f, seqs)
    PROVE  FlattenSeq(seqs) = f[Len(seqs)]
<1> DEFINE g == CHOOSE h : Chain(h, seqs)
<1>1. Chain(g, seqs)
  OBVIOUS
<1>2. FlattenSeq(seqs) = g[Len(seqs)]
  BY DEF FlattenSeq, Chain
<1> HIDE DEF g
<1>3. g = f
  BY <1>1, ChainUnique
<1> QED
  BY <1>2, <1>3

LEMMA ChainExists ==
    ASSUME NEW S, NEW seqs \in Seq(Seq(S))
    PROVE  \E f \in [1..Len(seqs) -> Seq(S)] : Chain(f, seqs)
<1> DEFINE Upto(f, n) ==
               \A i \in 1..n : f[i] = IF i = 1 THEN seqs[i] ELSE f[i - 1] \o seqs[i]
           G == {n \in Nat : n <= Len(seqs) => \E f \in [1..n -> Seq(S)] : Upto(f, n)}
<1>1. Len(seqs) \in Nat /\ \A i \in 1..Len(seqs) : seqs[i] \in Seq(S)
  OBVIOUS
<1>2. 0 \in G
  <2>1. [i \in 1..0 |-> << >>] \in [1..0 -> Seq(S)] /\ Upto([i \in 1..0 |-> << >>], 0)
    OBVIOUS
  <2> QED
    BY <2>1
<1>3. ASSUME NEW n \in G PROVE n + 1 \in G
  <2>0. n \in Nat /\ n + 1 \in Nat
    OBVIOUS
  <2> SUFFICES ASSUME n + 1 <= Len(seqs)
               PROVE  \E f \in [1..(n + 1) -> Seq(S)] : Upto(f, n + 1)
    BY <2>0
  <2>1. n \in Nat /\ n <= Len(seqs) /\ n + 1 \in 1..Len(seqs)
    BY <1>1, <2>0
  <2>2. PICK f \in [1..n -> Seq(S)] : Upto(f, n)
    BY <2>1
  <2> DEFINE x == IF n = 0 THEN seqs[n + 1] ELSE f[n] \o seqs[n + 1]
             h == [i \in 1..(n + 1) |-> IF i = n + 1 THEN x ELSE f[i]]
  <2>3. x \in Seq(S)
    <3>1. CASE n = 0
      BY <1>1, <2>1, <3>1
    <3>2. CASE n # 0
      <4>1. f[n] \in Seq(S) /\ seqs[n + 1] \in Seq(S)
        BY <1>1, <2>1, <3>2
      <4> QED
        BY <3>2, <4>1
    <3> QED
      BY <3>1, <3>2
  <2> HIDE DEF x
  <2>4. \A i \in 1..(n + 1) : i = n + 1 \/ i \in 1..n
    BY <2>1
  <2>5. h \in [1..(n + 1) -> Seq(S)]
    BY <2>3, <2>4
  <2>6. ASSUME NEW i \in 1..(n + 1)
        PROVE  h[i] = IF i = 1 THEN seqs[i] ELSE h[i - 1] \o seqs[i]
    <3>1. CASE i = n + 1
      <4>1. n # 0 => n \in 1..(n + 1) /\ h[n] = f[n]
        BY <2>1
      <4>2. h[n + 1] = x /\ (n + 1 = 1 <=> n = 0) /\ n + 1 - 1 = n
        BY <2>1
      <4> QED
        BY <3>1, <4>1, <4>2 DEF x
    <3>2. CASE i \in 1..n
      <4>1. h[i] = f[i] /\ (i # 1 => i - 1 \in 1..n /\ h[i - 1] = f[i - 1])
        BY <2>1, <3>2
      <4> QED
        BY <2>2, <3>2, <4>1
    <3> QED
      BY <2>4, <3>1, <3>2
  <2> HIDE DEF h
  <2> QED
    BY <2>5, <2>6
<1>4. Len(seqs) \in G
  <2> HIDE DEF G
  <2>1. G \in SUBSET Nat
    BY DEF G
  <2> QED
    BY <1>1, <1>2, <1>3, <2>1, Induction
<1>5. PICK f \in [1..Len(seqs) -> Seq(S)] : Upto(f, Len(seqs))
  BY <1>1, <1>4
<1>6. Chain(f, seqs)
  BY <1>5 DEF Chain
<1> QED
  BY <1>6

LEMMA FlattenTyped ==
    ASSUME NEW S, NEW seqs \in Seq(Seq(S))
    PROVE  FlattenSeq(seqs) \in Seq(S)
<1>1. Len(seqs) \in Nat
  OBVIOUS
<1>2. CASE Len(seqs) = 0
  <2>1. FlattenSeq(seqs) = seqs /\ seqs = << >>
    BY <1>2 DEF FlattenSeq
  <2> QED
    BY <2>1
<1>3. CASE Len(seqs) > 0
  <2>1. PICK f \in [1..Len(seqs) -> Seq(S)] : Chain(f, seqs)
    BY ChainExists
  <2>2. FlattenSeq(seqs) = f[Len(seqs)] /\ Len(seqs) \in 1..Len(seqs)
    BY <1>1, <1>3, <2>1, FlattenIs
  <2> QED
    BY <2>2
<1> QED
  BY <1>1, <1>2, <1>3

\* Concatenation, without what the provers know of it.
Cat(s, t) == s \o t

LEMMA CatAssociative ==
    ASSUME NEW S, NEW s \in Seq(S), NEW t \in Seq(S), NEW u \in Seq(S)
    PROVE  Cat(s, t) \in Seq(S) /\ Cat(Cat(s, t), u) = Cat(s, Cat(t, u))
  BY ConcatAssociative DEF Cat

\* The first sequence comes first.
LEMMA FlattenCons ==
    ASSUME NEW S, NEW x \in Seq(S), NEW seqs \in Seq(Seq(S)), NEW all \in Seq(Seq(S)),
           Len(all) = Len(seqs) + 1, all[1] = x, \A i \in 1..Len(seqs) : all[i + 1] = seqs[i]
    PROVE  FlattenSeq(all) = x \o FlattenSeq(seqs)
<1> DEFINE n == Len(seqs)
<1>1. n \in Nat
  OBVIOUS
<1>2. PICK f \in [1..n -> Seq(S)] : Chain(f, seqs)
  BY ChainExists
<1>3. \A i \in 1..n : f[i] = IF i = 1 THEN seqs[i] ELSE f[i - 1] \o seqs[i]
  BY <1>2 DEF Chain
<1> DEFINE h == [i \in 1..Len(all) |-> IF i = 1 THEN x ELSE x \o f[i - 1]]
<1>4. ASSUME NEW i \in 1..Len(all)
      PROVE  h[i] = IF i = 1 THEN all[i] ELSE h[i - 1] \o all[i]
  <2>1. h[1] = x /\ \A j \in 1..n : h[j + 1] = x \o f[j]
    <3>1. 1 \in 1..Len(all) /\ \A j \in 1..n : j + 1 \in 1..Len(all) /\ j + 1 # 1 /\ j + 1 - 1 = j
      BY <1>1
    <3>2. \A k \in 1..Len(all) : h[k] = IF k = 1 THEN x ELSE x \o f[k - 1]
      OBVIOUS
    <3> HIDE DEF h
    <3>3. h[1] = x
      BY <3>1, <3>2
    <3>4. ASSUME NEW j \in 1..n PROVE h[j + 1] = x \o f[j]
      <4> DEFINE k == j + 1
      <4>1. k \in 1..Len(all) /\ k # 1 /\ k - 1 = j
        BY <3>1
      <4> HIDE DEF k
      <4>2. h[k] = x \o f[k - 1]
        BY <3>2, <4>1, Zenon
      <4> QED
        BY <4>1, <4>2 DEF k
    <3> QED
      BY <3>3, <3>4
  <2> HIDE DEF h
  <2>2. CASE i = 1
    BY <2>1, <2>2
  <2>3. CASE i # 1
    <3>0. i - 1 \in 1..n /\ i - 1 + 1 = i
      BY <1>1, <2>3
    <3>1. PICK j \in 1..n : j + 1 = i /\ i - 1 = j
      BY <3>0
    <3>2. h[i] = x \o f[j] /\ all[i] = seqs[j]
      BY <2>1, <3>1
    <3>3. CASE j = 1
      BY <1>3, <2>1, <2>3, <3>1, <3>2, <3>3
    <3>4. CASE j # 1
      <4>1. PICK k \in 1..n : k + 1 = j /\ j - 1 = k
        BY <1>1, <3>1, <3>4
      <4>2. f[j] = f[k] \o seqs[j]
        BY <1>3, <3>1, <3>4, <4>1
      <4>3. h[j] = x \o f[k]
        BY <2>1, <4>1
      <4>4. PICK a \in Seq(S) : a = f[k]
        BY <4>1
      <4>5. PICK b \in Seq(S) : b = seqs[j]
        BY <3>1, ElementOfSeq
      <4>6. Cat(Cat(x, a), b) = Cat(x, Cat(a, b))
        BY CatAssociative
      <4>7. x \o f[j] = h[j] \o seqs[j]
        BY <4>2, <4>3, <4>4, <4>5, <4>6 DEF Cat
      <4> QED
        BY <2>3, <3>1, <3>2, <4>7
    <3> QED
      BY <3>3, <3>4
  <2> QED
    BY <2>2, <2>3
<1>5. Chain(h, all)
  BY <1>4 DEF Chain
<1>6. FlattenSeq(all) = h[Len(all)]
  <2> HIDE DEF h
  <2>1. Len(all) > 0
    BY <1>1
  <2> QED
    BY <1>5, <2>1, FlattenIs
<1>7. CASE n = 0
  <2>1. FlattenSeq(seqs) = seqs /\ seqs = << >>
    BY <1>7 DEF FlattenSeq
  <2>2. x \o << >> = x
    BY ConcatEmptySeq
  <2>3. h[Len(all)] = x
    BY <1>7
  <2> QED
    BY <1>6, <2>1, <2>2, <2>3
<1>8. CASE n > 0
  <2>1. FlattenSeq(seqs) = f[n]
    BY <1>2, <1>8, FlattenIs
  <2>2. h[Len(all)] = x \o f[n]
    <3>1. PICK k \in 1..(n + 1) : k = n + 1 /\ k # 1 /\ k - 1 = n
      <4>1. n + 1 \in 1..(n + 1) /\ n + 1 # 1 /\ n + 1 - 1 = n
        BY <1>1, <1>8
      <4> QED
        BY <4>1
    <3>2. h[k] = x \o f[k - 1]
      BY <3>1
    <3> QED
      BY <3>1, <3>2
  <2> QED
    BY <1>6, <2>1, <2>2
<1> QED
  BY <1>1, <1>7, <1>8

-----------------------------------------------------------------------------
(* The tokens                                                              *)

Token == {<<"Plus">>, <<"Pipe">>, <<"Numa">>} \cup {<<d>> : d \in ParallelDim}
            \cup ({"Number", "NvlMin", "IbMax"} \X Nat)

LEMMA TokenKinds ==
    ASSUME NEW t \in Token
    PROVE  /\ t[1] \in ParallelDim => t = <<t[1]>>
           /\ t[1] = "Number" => t = <<"Number", t[2]>> /\ t[2] \in Nat
           /\ t[1] \in {"NvlMin", "IbMax"} => t[2] \in Nat
           /\ IsConstraint(t) => ~(t[1] \in ParallelDim) /\ t # <<"Plus">> /\ t # <<"Pipe">>
           /\ t[1] \in ParallelDim \cup {"Number"} => t # <<"Plus">> /\ t # <<"Pipe">>
<1>1. CASE t \in {<<"Plus">>, <<"Pipe">>, <<"Numa">>}
  BY <1>1 DEF ParallelDim, IsConstraint
<1>2. CASE t \in {<<d>> : d \in ParallelDim}
  BY <1>2 DEF ParallelDim, IsConstraint
<1>3. CASE t \in {"Number", "NvlMin", "IbMax"} \X Nat
  BY <1>3 DEF ParallelDim, IsConstraint
<1> QED
  BY <1>1, <1>2, <1>3 DEF Token

LEMMA TokenSeqs ==
    ASSUME NEW a \in Token
    PROVE  <<a>> \in Seq(Token) /\ \A b \in Token : <<a, b>> \in Seq(Token)
  OBVIOUS

LEMMA ShortTokenSeqs ==
    ASSUME NEW c \in Seq(Token), NEW a \in Token, NEW b \in Token, c[1] = a
    PROVE  /\ Len(c) = 1 => c = <<a>>
           /\ Len(c) = 2 /\ c[2] = b => c = <<a, b>>
  OBVIOUS

\* Cutting out one token, or two.
LEMMA SubSeqShort ==
    ASSUME NEW tokens \in Seq(Token), NEW p \in 1..Len(tokens)
    PROVE  /\ SubSeq(tokens, p, p) = << tokens[p] >>
           /\ p < Len(tokens) => SubSeq(tokens, p, p + 1) = << tokens[p], tokens[p + 1] >>
<1>1. Len(tokens) \in Nat /\ p \in Int /\ \A i \in 1..Len(tokens) : tokens[i] \in Token
  BY ElementOfSeq
<1>2. SubSeq(tokens, p, p) = << tokens[p] >>
  <2> DEFINE c == SubSeq(tokens, p, p)
  <2>1. c \in Seq(Token) /\ Len(c) = 1 /\ c[1] = tokens[p]
    <3>1. \A i \in p..p : tokens[i] \in Token
      BY <1>1
    <3>2. /\ c \in Seq(Token) /\ Len(c) = IF p <= p THEN p - p + 1 ELSE 0
          /\ \A i \in 1..(p - p + 1) : c[i] = tokens[p + i - 1]
      BY <1>1, <3>1, SubSeqProperties
    <3>3. 1 \in 1..(p - p + 1) /\ p - p + 1 = 1 /\ p + 1 - 1 = p /\ p <= p
      BY <1>1
    <3> HIDE DEF c
    <3>4. c[1] = tokens[p + 1 - 1]
      BY <3>2, <3>3
    <3> QED
      BY <3>2, <3>3, <3>4
  <2> HIDE DEF c
  <2> QED
    BY <1>1, <2>1, ShortTokenSeqs DEF c
<1>3. ASSUME p < Len(tokens) PROVE SubSeq(tokens, p, p + 1) = << tokens[p], tokens[p + 1] >>
  <2> DEFINE c == SubSeq(tokens, p, p + 1)
  <2>1. c \in Seq(Token) /\ Len(c) = 2 /\ c[1] = tokens[p] /\ c[2] = tokens[p + 1]
    <3>1. \A i \in p..(p + 1) : tokens[i] \in Token
      BY <1>1, <1>3
    <3>2. /\ c \in Seq(Token) /\ Len(c) = IF p <= p + 1 THEN p + 1 - p + 1 ELSE 0
          /\ \A i \in 1..(p + 1 - p + 1) : c[i] = tokens[p + i - 1]
      BY <1>1, <3>1, SubSeqProperties
    <3>3. /\ 1 \in 1..(p + 1 - p + 1) /\ 2 \in 1..(p + 1 - p + 1) /\ p + 1 - p + 1 = 2
          /\ p + 1 - 1 = p /\ p + 2 - 1 = p + 1 /\ p <= p + 1
      BY <1>1
    <3> HIDE DEF c
    <3>4. c[1] = tokens[p + 1 - 1] /\ c[2] = tokens[p + 2 - 1]
      BY <3>2, <3>3
    <3> QED
      BY <3>2, <3>3, <3>4
  <2>2. tokens[p] \in Token /\ tokens[p + 1] \in Token
    BY <1>1, <1>3
  <2> HIDE DEF c
  <2> QED
    BY <2>1, <2>2, ShortTokenSeqs DEF c
<1> QED
  BY <1>2, <1>3

\* What is not refused is one of the three forms, with its number.
LEMMA WordTokens ==
    ASSUME text \in Seq(Words), NEW i \in 1..Len(text), ~BadWord(i)
    PROVE  TokensOf(text[i]) \in Seq(Token)
<1> DEFINE w == text[i]
<1>1. w \in Words
  BY ElementOfSeq
<1>2. w.num \in SUBSET Nat /\ (w.form = "op" => w.kw \in {"Plus", "Pipe"})
  BY <1>1, WordsAssumption
<1>3. w.num # {} => Number(w) \in Nat
  BY <1>2 DEF Number
<1>4. CASE w.form = "op"
  <2>1. TokensOf(w) = << <<w.kw>> >>
    BY <1>2, <1>4 DEF TokensOf
  <2>2. PICK a \in Token : a = <<w.kw>>
    BY <1>2, <1>4 DEF Token
  <2> HIDE DEF w
  <2>3. <<a>> \in Seq(Token)
    BY TokenSeqs
  <2> QED
    BY <2>1, <2>2, <2>3 DEF w
<1>5. CASE w.form = "dim"
  <2>1. w.kw \in ParallelDim /\ w.num # {}
    BY <1>5 DEF BadWord, IsU32
  <2>2. TokensOf(w) = << <<w.kw>>, <<"Number", Number(w)>> >>
    BY <1>5, <2>1 DEF TokensOf, ParallelDim
  <2>3. PICK a \in Token, b \in Token : a = <<w.kw>> /\ b = <<"Number", Number(w)>>
    BY <1>3, <2>1 DEF Token
  <2> HIDE DEF w
  <2>4. <<a, b>> \in Seq(Token)
    BY TokenSeqs
  <2> QED
    BY <2>2, <2>3, <2>4 DEF w
<1>6. CASE w.form = "constraint"
  <2>1. CASE w.kw = "NUMA"
    <3>1. TokensOf(w) = << <<"Numa">> >>
      BY <1>6, <2>1 DEF TokensOf
    <3> QED
      BY <3>1 DEF Token
  <2>2. CASE w.kw = "NVL"
    <3>1. TokensOf(w) = << <<"NvlMin", Number(w)>> >>
      BY <1>6, <2>2 DEF TokensOf
    <3>2. w.num # {}
      BY <1>6, <2>2 DEF BadWord
    <3>3. PICK a \in Token : a = <<"NvlMin", Number(w)>>
      BY <1>3, <3>2 DEF Token
    <3> HIDE DEF w
    <3>4. <<a>> \in Seq(Token)
      BY TokenSeqs
    <3> QED
      BY <3>1, <3>3, <3>4 DEF w
  <2>3. CASE w.kw = "IB"
    <3>1. TokensOf(w) = << <<"IbMax", Number(w)>> >>
      BY <1>6, <2>3 DEF TokensOf
    <3>2. w.num # {}
      BY <1>6, <2>3 DEF BadWord, IsU32
    <3>3. PICK a \in Token : a = <<"IbMax", Number(w)>>
      BY <1>3, <3>2 DEF Token
    <3> HIDE DEF w
    <3>4. <<a>> \in Seq(Token)
      BY TokenSeqs
    <3> QED
      BY <3>1, <3>3, <3>4 DEF w
  <2> QED
    BY <1>6, <2>1, <2>2, <2>3 DEF BadWord
<1> QED
  BY <1>4, <1>5, <1>6 DEF BadWord

LEMMA LexTyped ==
    ASSUME text \in Seq(Words), ~LexFails
    PROVE  Lex \in Seq(Token)
<1> DEFINE ts == [i \in 1..Len(text) |-> TokensOf(text[i])]
<1>1. \A i \in 1..Len(text) : TokensOf(text[i]) \in Seq(Token)
  BY WordTokens DEF LexFails
<1>2. Len(text) \in Nat
  OBVIOUS
<1>3. ts \in Seq(Seq(Token))
  BY <1>1, <1>2
<1> QED
  BY <1>3, FlattenTyped DEF Lex

-----------------------------------------------------------------------------
(* What the parser accepts                                                 *)

\* An atom as the parser keeps it.
Node == [dim : ParallelDim, degree : Nat, constraints : Seq(Token)]

IsAlternative(alt) == alt \in Seq(Node) /\ Len(alt) \in {1, 2}

LEMMA ParseAtomReads ==
    ASSUME NEW tokens \in Seq(Token), NEW pos \in 1..(Len(tokens) + 1),
           NEW r \in ParseAtom(tokens, pos)
    PROVE  /\ r.pos \in (pos + 2)..(Len(tokens) + 1)
           /\ r.node \in Node
           /\ ParseAtom(tokens, pos) = {r}
           /\ tokens[pos][1] \in ParallelDim /\ tokens[pos + 1][1] = "Number"
           /\ \A i \in (pos + 2)..(r.pos - 1) : IsConstraint(tokens[i])
           /\ ~IsConstraint(At(tokens, r.pos))
           /\ WriteAtom(r.node) = SubSeq(tokens, pos, r.pos - 1)
<1> DEFINE rest == {p \in (pos + 2)..(Len(tokens) + 1) : ~IsConstraint(At(tokens, p))}
           end  == CHOOSE p \in rest : \A q \in rest : p <= q
           node == [dim |-> tokens[pos][1], degree |-> tokens[pos + 1][2],
                    constraints |-> SubSeq(tokens, pos + 2, end - 1)]
<1>1. Len(tokens) \in Nat /\ pos \in Nat
  OBVIOUS
<1>2. At(tokens, pos)[1] \in ParallelDim /\ At(tokens, pos + 1)[1] = "Number"
  BY DEF ParseAtom
<1>3. ParseAtom(tokens, pos) = {[node |-> node, pos |-> end]}
  BY <1>2 DEF ParseAtom
<1>4. r = [node |-> node, pos |-> end]
  BY <1>3
<1>5. pos <= Len(tokens) /\ pos + 1 <= Len(tokens)
  BY <1>1, <1>2 DEF At, ParallelDim
<1>6. Len(tokens) + 1 \in rest
  BY <1>1, <1>5 DEF At, IsConstraint
<1>7. end \in rest /\ \A q \in rest : end <= q
  <2> HIDE DEF rest
  <2>1. rest \in SUBSET Nat
    BY <1>1 DEF rest
  <2>2. \E p \in rest : \A q \in rest : p <= q
    BY <1>6, <2>1, LeastNat
  <2> QED
    BY <2>2
<1> HIDE DEF end
<1>8. end \in (pos + 2)..(Len(tokens) + 1) /\ ~IsConstraint(At(tokens, end))
  BY <1>7
<1>9. \A i \in (pos + 2)..(end - 1) : i \in 1..Len(tokens) /\ IsConstraint(tokens[i])
  BY <1>1, <1>7, <1>8 DEF At
<1>10. tokens[pos] \in Token /\ tokens[pos + 1] \in Token
  BY <1>1, <1>5, ElementOfSeq
<1>11. tokens[pos][1] \in ParallelDim /\ tokens[pos + 1][1] = "Number"
  BY <1>2, <1>5 DEF At
<1>12. tokens[pos] = <<tokens[pos][1]>> /\ tokens[pos + 1] = <<"Number", tokens[pos + 1][2]>>
       /\ tokens[pos + 1][2] \in Nat
  BY <1>10, <1>11, TokenKinds
<1>13. SubSeq(tokens, pos + 2, end - 1) \in Seq(Token)
  <2>1. \A i \in (pos + 2)..(end - 1) : tokens[i] \in Token
    BY <1>9, ElementOfSeq
  <2>2. pos + 2 \in Int /\ end - 1 \in Int
    BY <1>1, <1>8
  <2> QED
    BY <2>1, <2>2, SubSeqProperties
<1>14. node \in Node
  BY <1>11, <1>12, <1>13 DEF Node
<1>15. WriteAtom(node) = SubSeq(tokens, pos, end - 1)
  <2>1. WriteAtom(node) = << tokens[pos], tokens[pos + 1] >> \o SubSeq(tokens, pos + 2, end - 1)
    BY <1>12 DEF WriteAtom
  <2>2. SubSeq(tokens, pos, pos + 1) = << tokens[pos], tokens[pos + 1] >>
    <3>1. pos \in 1..Len(tokens) /\ pos < Len(tokens)
      BY <1>1, <1>5
    <3> QED
      BY <3>1, SubSeqShort
  <2>3. SubSeq(tokens, pos, pos + 1) \o SubSeq(tokens, pos + 1 + 1, end - 1)
            = SubSeq(tokens, pos, end - 1)
    <3>1. /\ pos \in 1..(Len(tokens) + 1) /\ pos + 1 \in (pos - 1)..Len(tokens)
          /\ end - 1 \in (pos + 1)..Len(tokens)
      BY <1>1, <1>5, <1>8
    <3> QED
      BY <3>1, ConcatAdjacentSubSeq
  <2>4. pos + 1 + 1 = pos + 2
    BY <1>1
  <2> QED
    BY <2>1, <2>2, <2>3, <2>4
<1> HIDE DEF node
<1> QED
  BY <1>3, <1>4, <1>8, <1>9, <1>11, <1>14, <1>15

LEMMA ParseConjunctionReads ==
    ASSUME NEW tokens \in Seq(Token), NEW pos \in 1..(Len(tokens) + 1),
           NEW r \in ParseConjunction(tokens, pos)
    PROVE  /\ r.pos \in (pos + 2)..(Len(tokens) + 1)
           /\ IsAlternative(r.node)
           /\ ParseConjunction(tokens, pos) = {r}
           /\ WriteAlternative(r.node) = SubSeq(tokens, pos, r.pos - 1)
<1> DEFINE Of(first) ==
               IF At(tokens, first.pos) = <<"Plus">>
               THEN {[node |-> <<first.node, second.node>>, pos |-> second.pos] :
                        second \in ParseAtom(tokens, first.pos + 1)}
               ELSE {[node |-> <<first.node>>, pos |-> first.pos]}
<1>1. Len(tokens) \in Nat /\ pos \in Nat
  OBVIOUS
<1>2. PICK first \in ParseAtom(tokens, pos) : r \in Of(first)
  BY DEF ParseConjunction
<1>3. /\ first.pos \in (pos + 2)..(Len(tokens) + 1)
      /\ first.node \in Node
      /\ ParseAtom(tokens, pos) = {first}
      /\ WriteAtom(first.node) = SubSeq(tokens, pos, first.pos - 1)
  BY ParseAtomReads
<1>4. ParseConjunction(tokens, pos) = Of(first)
  BY <1>3 DEF ParseConjunction
<1>5. CASE At(tokens, first.pos) = <<"Plus">>
  <2>1. PICK second \in ParseAtom(tokens, first.pos + 1) :
            r = [node |-> <<first.node, second.node>>, pos |-> second.pos]
    BY <1>2, <1>5
  <2>2. first.pos <= Len(tokens) /\ tokens[first.pos] = <<"Plus">>
    <3>1. <<"end">> # <<"Plus">>
      OBVIOUS
    <3> QED
      BY <1>1, <1>3, <1>5, <3>1 DEF At
  <2>3. /\ second.pos \in (first.pos + 1 + 2)..(Len(tokens) + 1)
        /\ second.node \in Node
        /\ ParseAtom(tokens, first.pos + 1) = {second}
        /\ WriteAtom(second.node) = SubSeq(tokens, first.pos + 1, second.pos - 1)
    <3>1. first.pos + 1 \in 1..(Len(tokens) + 1)
      BY <1>1, <1>3, <2>2
    <3> QED
      BY <3>1, ParseAtomReads
  <2>4. Of(first) = {r}
    BY <1>5, <2>1, <2>3
  <2>5. IsAlternative(r.node) /\ r.node[1] = first.node /\ r.node[2] = second.node
        /\ Len(r.node) = 2
    BY <1>3, <2>1, <2>3 DEF IsAlternative
  <2>6. WriteAlternative(r.node) = SubSeq(tokens, pos, second.pos - 1)
    <3>1. WriteAlternative(r.node)
              = WriteAtom(first.node) \o << <<"Plus">> >> \o WriteAtom(second.node)
      BY <2>5 DEF WriteAlternative
    <3>2. SubSeq(tokens, first.pos, first.pos) = << <<"Plus">> >>
      <4>1. first.pos \in 1..Len(tokens)
        BY <1>1, <1>3, <2>2
      <4>2. SubSeq(tokens, first.pos, first.pos) = << tokens[first.pos] >>
        BY <4>1, SubSeqShort
      <4> QED
        BY <2>2, <4>2
    <3>3. SubSeq(tokens, pos, first.pos - 1) \o SubSeq(tokens, first.pos, first.pos)
              = SubSeq(tokens, pos, first.pos)
      <4>1. /\ first.pos - 1 \in (pos - 1)..Len(tokens) /\ first.pos \in (first.pos - 1)..Len(tokens)
            /\ first.pos - 1 + 1 = first.pos
        BY <1>1, <1>3, <2>2
      <4> QED
        BY <4>1, ConcatAdjacentSubSeq
    <3>4. SubSeq(tokens, pos, first.pos) \o SubSeq(tokens, first.pos + 1, second.pos - 1)
              = SubSeq(tokens, pos, second.pos - 1)
      <4>1. /\ first.pos \in (pos - 1)..Len(tokens) /\ second.pos - 1 \in first.pos..Len(tokens)
        <5>1. PICK m \in Nat, n \in Nat, end \in Nat :
                  m = first.pos /\ n = second.pos /\ end = Len(tokens)
          BY <1>1, <1>3, <2>3
        <5>2. pos \in Nat /\ m <= end /\ pos + 2 <= m
          BY <1>1, <1>3, <2>2, <5>1
        <5>3. m + 1 + 2 <= n /\ n <= end + 1
          BY <2>3, <5>1
        <5>4. m \in (pos - 1)..end /\ n - 1 \in m..end
          BY ONLY <5>1, <5>2, <5>3
        <5> QED
          BY ONLY <5>1, <5>4
      <4> QED
        BY <4>1, ConcatAdjacentSubSeq
    <3>5. WriteAlternative(r.node)
              = SubSeq(tokens, pos, first.pos - 1) \o SubSeq(tokens, first.pos, first.pos)
                    \o SubSeq(tokens, first.pos + 1, second.pos - 1)
      BY <1>3, <2>3, <3>1, <3>2, Zenon
    <3> QED
      BY ONLY <3>3, <3>4, <3>5, Zenon
  <2>7. r.pos = second.pos /\ second.pos \in (pos + 2)..(Len(tokens) + 1)
    BY <1>1, <1>3, <2>1, <2>3
  <2> HIDE DEF Of
  <2> QED
    BY <1>4, <2>4, <2>5, <2>6, <2>7
<1>6. CASE At(tokens, first.pos) # <<"Plus">>
  <2>1. r = [node |-> <<first.node>>, pos |-> first.pos] /\ Of(first) = {r}
    BY <1>2, <1>6
  <2>2. IsAlternative(r.node) /\ r.node[1] = first.node /\ Len(r.node) = 1
    BY <1>3, <2>1 DEF IsAlternative
  <2>3. WriteAlternative(r.node) = SubSeq(tokens, pos, r.pos - 1)
    BY <1>3, <2>1, <2>2 DEF WriteAlternative
  <2> HIDE DEF Of
  <2> QED
    BY <1>3, <1>4, <2>1, <2>2, <2>3
<1> QED
  BY <1>5, <1>6

IsParse(node) ==
    /\ node \in Seq(Seq(Node)) /\ Len(node) > 0
    /\ \A i \in 1..Len(node) : IsAlternative(node[i])

ReadFrom(read, tokens, pos) ==
    UNION {IF At(tokens, alt.pos) = <<"Pipe">>
           THEN {[node |-> <<alt.node>> \o others.node, pos |-> others.pos] :
                    others \in read[alt.pos + 1]}
           ELSE {[node |-> <<alt.node>>, pos |-> alt.pos]} :
              alt \in ParseConjunction(tokens, pos)}

LEMMA PipeWithin ==
    ASSUME NEW tokens \in Seq(Token), NEW pos \in 1..(Len(tokens) + 1),
           At(tokens, pos) = <<"Pipe">>
    PROVE  pos \in 1..Len(tokens) /\ pos + 1 \in 1..(Len(tokens) + 1) /\ tokens[pos] = <<"Pipe">>
<1>1. <<"end">> # <<"Pipe">> /\ Len(tokens) \in Nat
  OBVIOUS
<1> QED
  BY <1>1 DEF At

\* The recursion ends, so that the parser is what its definition says.
LEMMA ParseDisjunctionStep ==
    ASSUME NEW tokens \in Seq(Token), NEW pos \in 1..(Len(tokens) + 1)
    PROVE  ParseDisjunction(tokens)[pos] = ReadFrom(ParseDisjunction(tokens), tokens, pos)
<1> DEFINE S == 1..(Len(tokens) + 1)
           V == SUBSET [node : Seq(Seq(Node)), pos : S]
           rank == [x \in S |-> Len(tokens) + 1 - x]
           Step(f) == [x \in S |-> ReadFrom(f, tokens, x)]
           F == [f \in [S -> V] |-> Step(f)]
<1>1. Len(tokens) \in Nat /\ rank \in [S -> 0..(Len(tokens) + 1)]
  OBVIOUS
<1>2. ASSUME NEW x \in S, NEW alt \in ParseConjunction(tokens, x)
      PROVE  /\ ParseConjunction(tokens, x) = {alt}
             /\ alt.node \in Seq(Node) /\ alt.pos \in S
             /\ At(tokens, alt.pos) = <<"Pipe">>
                    => alt.pos + 1 \in S /\ rank[alt.pos + 1] < rank[x]
  <2>1. /\ alt.pos \in (x + 2)..(Len(tokens) + 1) /\ IsAlternative(alt.node)
        /\ ParseConjunction(tokens, x) = {alt}
    BY ParseConjunctionReads
  <2>2. alt.pos \in S /\ alt.pos > x
    BY <1>1, <2>1
  <2>3. At(tokens, alt.pos) = <<"Pipe">> => alt.pos + 1 \in S
    BY <2>2, PipeWithin
  <2>4. At(tokens, alt.pos) = <<"Pipe">> => rank[alt.pos + 1] < rank[x]
    BY <1>1, <2>2, <2>3
  <2> QED
    BY <2>1, <2>2, <2>3, <2>4 DEF IsAlternative
<1> HIDE DEF rank
<1>3. ASSUME NEW f \in [S -> V], NEW x \in S PROVE ReadFrom(f, tokens, x) \in V
  <2> SUFFICES ASSUME NEW r \in ReadFrom(f, tokens, x)
               PROVE  r \in [node : Seq(Seq(Node)), pos : S]
    OBVIOUS
  <2>1. PICK alt \in ParseConjunction(tokens, x) :
            r \in IF At(tokens, alt.pos) = <<"Pipe">>
                  THEN {[node |-> <<alt.node>> \o others.node, pos |-> others.pos] :
                           others \in f[alt.pos + 1]}
                  ELSE {[node |-> <<alt.node>>, pos |-> alt.pos]}
    BY DEF ReadFrom
  <2>2. PICK a \in Seq(Node) : a = alt.node
    BY <1>2
  <2>3. <<a>> \in Seq(Seq(Node))
    OBVIOUS
  <2>4. CASE At(tokens, alt.pos) = <<"Pipe">>
    <3>1. PICK others \in f[alt.pos + 1] :
              r = [node |-> <<alt.node>> \o others.node, pos |-> others.pos]
      BY <2>1, <2>4
    <3>2. others.node \in Seq(Seq(Node)) /\ others.pos \in S
      <4>1. f[alt.pos + 1] \in V
        BY <1>2, <2>4
      <4> QED
        BY <4>1
    <3>3. <<a>> \o others.node \in Seq(Seq(Node))
      BY <2>3, <3>2, ConcatProperties
    <3> QED
      BY <2>2, <3>1, <3>2, <3>3
  <2>5. CASE At(tokens, alt.pos) # <<"Pipe">>
    <3>1. r = [node |-> <<alt.node>>, pos |-> alt.pos]
      BY <2>1, <2>5
    <3>2. PICK b \in Seq(Seq(Node)) : b = <<alt.node>>
      BY <2>2, <2>3
    <3> QED
      BY <1>2, <3>1, <3>2
  <2> QED
    BY <2>4, <2>5
<1>4. F \in [[S -> V] -> [S -> V]]
  BY <1>3
<1>5. ASSUME NEW g \in [S -> V], NEW h \in [S -> V], NEW x \in S,
             \A y \in S : rank[y] < rank[x] => g[y] = h[y]
      PROVE  F[g][x] = F[h][x]
  <2>1. ASSUME NEW alt \in ParseConjunction(tokens, x)
        PROVE  (IF At(tokens, alt.pos) = <<"Pipe">>
                THEN {[node |-> <<alt.node>> \o others.node, pos |-> others.pos] :
                         others \in g[alt.pos + 1]}
                ELSE {[node |-> <<alt.node>>, pos |-> alt.pos]})
             = (IF At(tokens, alt.pos) = <<"Pipe">>
                THEN {[node |-> <<alt.node>> \o others.node, pos |-> others.pos] :
                         others \in h[alt.pos + 1]}
                ELSE {[node |-> <<alt.node>>, pos |-> alt.pos]})
    <3>1. At(tokens, alt.pos) = <<"Pipe">> => g[alt.pos + 1] = h[alt.pos + 1]
      BY <1>2, <1>5
    <3> QED
      BY <3>1, Zenon
  <2>2. ReadFrom(g, tokens, x) = ReadFrom(h, tokens, x)
    BY <2>1, Zenon DEF ReadFrom
  <2> QED
    BY <2>2
<1>6. \E f : f = Step(f)
  <2> HIDE DEF V
  <2>1. V # {}
    BY DEF V
  <2>2. PICK f \in [S -> V] : f = F[f]
    <3>1. LooksBelow(S, V, Len(tokens) + 1, rank, F)
      <4> HIDE DEF F
      <4>1. Len(tokens) + 1 \in Nat
        BY <1>1
      <4> QED
        BY <1>1, <1>4, <1>5, <2>1, <4>1 DEF LooksBelow
    <3> HIDE DEF F, S
    <3> QED
      BY <3>1, RecursionExists
  <2> QED
    BY <2>2
<1>7. ParseDisjunction(tokens) = Step(ParseDisjunction(tokens))
  <2>1. ParseDisjunction(tokens) = CHOOSE f : f = Step(f)
    BY DEF ParseDisjunction, ReadFrom
  <2> QED
    BY <1>6, <2>1
<1> QED
  BY <1>7

\* What is written for a first alternative and the others.
LEMMA WriteTyped ==
    ASSUME NEW alt, IsAlternative(alt)
    PROVE  WriteAlternative(alt) \in Seq(Token)
<1>1. ASSUME NEW n \in Node PROVE WriteAtom(n) \in Seq(Token)
  <2>1. PICK a \in Token, b \in Token : a = <<n.dim>> /\ b = <<"Number", n.degree>>
    BY DEF Node, Token
  <2>2. <<a, b>> \in Seq(Token) /\ n.constraints \in Seq(Token)
    BY TokenSeqs DEF Node
  <2>3. <<a, b>> \o n.constraints \in Seq(Token)
    BY <2>2, ConcatProperties
  <2> QED
    BY <2>1, <2>3 DEF WriteAtom
<1>2. alt \in Seq(Node) /\ Len(alt) \in {1, 2}
  BY DEF IsAlternative
<1>3. CASE Len(alt) = 1
  <2>1. alt[1] \in Node
    BY <1>2, <1>3, ElementOfSeq
  <2> QED
    BY <1>1, <1>3, <2>1 DEF WriteAlternative
<1>4. CASE Len(alt) = 2
  <2>1. alt[1] \in Node /\ alt[2] \in Node
    BY <1>2, <1>4, ElementOfSeq
  <2>2. << <<"Plus">> >> \in Seq(Token)
    BY DEF Token
  <2>3. PICK a \in Seq(Token), b \in Seq(Token), c \in Seq(Token) :
            a = WriteAtom(alt[1]) /\ b = << <<"Plus">> >> /\ c = WriteAtom(alt[2])
    BY <1>1, <2>1, <2>2
  <2>4. a \o b \o c \in Seq(Token)
    OBVIOUS
  <2> QED
    BY <1>4, <2>3, <2>4 DEF WriteAlternative
<1> QED
  BY <1>2, <1>3, <1>4

Pipe == << <<"Pipe">> >>

LEMMA WriteOne ==
    ASSUME NEW alt, IsAlternative(alt)
    PROVE  Write(<<alt>>) = WriteAlternative(alt)
<1> DEFINE all == [i \in 1..Len(<<alt>>) |-> IF i = 1 THEN WriteAlternative(<<alt>>[1])
                                  ELSE Pipe \o WriteAlternative(<<alt>>[i])]
<1>1. PICK x \in Seq(Token) : x = WriteAlternative(alt)
  BY WriteTyped
<1>2. Write(<<alt>>) = FlattenSeq(all)
  BY DEF Write, Pipe
<1>3. all = <<x>>
  BY <1>1
<1> HIDE DEF all
<1>4. <<x>> \in Seq(Seq(Token)) /\ << >> \in Seq(Seq(Token))
  OBVIOUS
<1>5. FlattenSeq(<<x>>) = x \o FlattenSeq(<< >>)
  <2> DEFINE a == <<x>>
             e == << >>
  <2>1. Len(a) = Len(e) + 1 /\ a[1] = x /\ \A i \in 1..Len(e) : a[i + 1] = e[i]
    OBVIOUS
  <2>2. a \in Seq(Seq(Token)) /\ e \in Seq(Seq(Token))
    BY <1>4
  <2> HIDE DEF a, e
  <2>3. FlattenSeq(a) = x \o FlattenSeq(e)
    BY <2>1, <2>2, FlattenCons
  <2> QED
    BY <2>3 DEF a, e
<1>6. FlattenSeq(<< >>) = << >>
  BY DEF FlattenSeq
<1>7. x \o << >> = x
  BY ConcatEmptySeq
<1> QED
  BY <1>1, <1>2, <1>3, <1>5, <1>6, <1>7

LEMMA WriteCons ==
    ASSUME NEW alt, IsAlternative(alt), NEW others, IsParse(others)
    PROVE  /\ IsParse(<<alt>> \o others)
           /\ Write(<<alt>> \o others) = WriteAlternative(alt) \o (Pipe \o Write(others))
<1> DEFINE n == Len(others)
           node == <<alt>> \o others
           W(i) == WriteAlternative(others[i])
           PW(i) == Pipe \o W(i)
           piped == [i \in 1..n |-> PW(i)]
           rest == [i \in 1..(n - 1) |-> PW(i + 1)]
           first == [i \in 1..n |-> IF i = 1 THEN W(1) ELSE PW(i)]
           all == [i \in 1..Len(node) |-> IF i = 1 THEN WriteAlternative(node[1])
                                          ELSE Pipe \o WriteAlternative(node[i])]
<1>1. others \in Seq(Seq(Node)) /\ n \in Nat /\ n > 0
  BY DEF IsParse
<1>2. PICK a \in Seq(Node) : a = alt
  BY DEF IsAlternative
<1>3. /\ node \in Seq(Seq(Node)) /\ Len(node) = n + 1 /\ node[1] = alt
      /\ \A i \in 1..n : node[i + 1] = others[i]
  <2>1. <<a>> \in Seq(Seq(Node)) /\ Len(<<a>>) = 1 /\ <<a>>[1] = a
    OBVIOUS
  <2> DEFINE s == <<a>>
  <2> HIDE DEF s
  <2>2. s \in Seq(Seq(Node)) /\ Len(s) = 1 /\ s[1] = a /\ s = <<alt>>
    BY <1>2, <2>1 DEF s
  <2>3. /\ s \o others \in Seq(Seq(Node)) /\ Len(s \o others) = 1 + n
        /\ \A i \in 1..(1 + n) : (s \o others)[i] = IF i <= 1 THEN s[i] ELSE others[i - 1]
    BY <1>1, <2>2, ConcatProperties
  <2>4. (s \o others)[1] = a
    BY <1>1, <2>2, <2>3
  <2>5. ASSUME NEW i \in 1..n PROVE (s \o others)[i + 1] = others[i]
    <3>1. i + 1 \in 1..(1 + n) /\ ~(i + 1 <= 1) /\ i + 1 - 1 = i
      BY <1>1
    <3> QED
      BY <2>3, <3>1
  <2> QED
    BY <1>1, <1>2, <2>2, <2>3, <2>4, <2>5
<1> HIDE DEF node
<1>4. IsParse(node)
  <2>1. ASSUME NEW i \in 1..Len(node) PROVE IsAlternative(node[i])
    <3>1. CASE i = 1
      BY <1>3, <3>1
    <3>2. CASE i # 1
      <4>0. i - 1 \in 1..n /\ i - 1 + 1 = i
        BY <1>1, <1>3, <3>2
      <4>1. node[i] = others[i - 1]
        BY <1>3, <4>0
      <4> QED
        BY <4>0, <4>1 DEF IsParse
    <3> QED
      BY <3>1, <3>2
  <2> QED
    BY <1>1, <1>3, <2>1 DEF IsParse
<1>5. \A i \in 1..n : W(i) \in Seq(Token)
  BY WriteTyped DEF IsParse
<1>6. Pipe \in Seq(Token)
  BY DEF Pipe, Token
<1>7. \A i \in 1..n : PW(i) \in Seq(Token)
  BY <1>5, <1>6, ConcatProperties
<1> HIDE DEF W, PW
<1>8. /\ piped \in Seq(Seq(Token)) /\ Len(piped) = n
      /\ \A i \in 1..n : piped[i] = PW(i)
  BY <1>1, <1>7
<1>9. /\ rest \in Seq(Seq(Token)) /\ Len(rest) = n - 1
      /\ \A i \in 1..(n - 1) : rest[i] = PW(i + 1)
  <2>1. \A i \in 1..(n - 1) : i + 1 \in 1..n
    BY <1>1
  <2>2. n - 1 \in Nat
    BY <1>1
  <2> QED
    BY <1>7, <2>1, <2>2
<1>10. /\ first \in Seq(Seq(Token)) /\ Len(first) = n /\ first[1] = W(1)
       /\ \A i \in 1..n : i # 1 => first[i] = PW(i)
  BY <1>1, <1>5, <1>7
<1>11. PICK x \in Seq(Token) : x = WriteAlternative(alt)
  BY WriteTyped
<1>12. /\ all \in Seq(Seq(Token)) /\ Len(all) = n + 1 /\ all[1] = x
       /\ \A i \in 1..n : all[i + 1] = piped[i]
  <2>1. \A i \in 1..(n + 1) : i # 1 => i - 1 \in 1..n /\ i - 1 + 1 = i
    BY <1>1
  <2>2. \A i \in 1..(n + 1) : i # 1 => WriteAlternative(node[i]) = W(i - 1)
    BY <1>3, <2>1 DEF W
  <2>3. \A i \in 1..(n + 1) : all[i] = IF i = 1 THEN x ELSE PW(i - 1)
    BY <1>3, <1>11, <2>2 DEF PW
  <2>4. \A i \in 1..(n + 1) : all[i] \in Seq(Token)
    BY <1>7, <2>1, <2>3
  <2>5. all = [i \in 1..(n + 1) |-> all[i]] /\ n + 1 \in Nat
    BY <1>1, <1>3
  <2> HIDE DEF all, piped
  <2>6. all \in Seq(Seq(Token)) /\ Len(all) = n + 1
    BY <2>4, <2>5
  <2>7. ASSUME NEW i \in 1..n PROVE all[i + 1] = piped[i]
    <3>1. PICK k \in 1..(n + 1) : k = i + 1 /\ k # 1 /\ k - 1 = i
      <4>1. i + 1 \in 1..(n + 1) /\ i + 1 # 1 /\ i + 1 - 1 = i
        BY <1>1
      <4> QED
        BY <4>1
    <3>2. all[k] = PW(k - 1)
      BY <2>3, <3>1
    <3> QED
      BY <1>8, <3>1, <3>2
  <2>8. 1 \in 1..(n + 1)
    BY <1>1
  <2> QED
    BY <2>3, <2>6, <2>7, <2>8
<1>13. Write(others) = FlattenSeq(first) /\ Write(node) = FlattenSeq(all)
  BY DEF Write, Pipe, W, PW
<1> HIDE DEF piped, rest, first, all
<1>14. PICK w \in Seq(Token) : w = W(1)
  BY <1>1, <1>5
<1>15. PICK t \in Seq(Token) : t = FlattenSeq(rest)
  BY <1>9, FlattenTyped
<1>16. FlattenSeq(all) = x \o FlattenSeq(piped)
  <2>1. Len(all) = Len(piped) + 1 /\ \A i \in 1..Len(piped) : all[i + 1] = piped[i]
    BY <1>8, <1>12
  <2> QED
    BY <1>8, <1>12, <2>1, FlattenCons
<1>17. Len(first) = Len(rest) + 1 /\ \A i \in 1..Len(rest) : first[i + 1] = rest[i]
  <2>1. ASSUME NEW i \in 1..(n - 1) PROVE first[i + 1] = rest[i]
    <3>1. PICK k \in 1..n : k = i + 1 /\ k # 1
      <4>1. i + 1 \in 1..n /\ i + 1 # 1
        BY <1>1
      <4> QED
        BY <4>1
    <3>2. first[k] = PW(k) /\ rest[i] = PW(i + 1)
      BY <1>9, <1>10, <3>1
    <3> QED
      BY <3>1, <3>2
  <2>2. n = n - 1 + 1
    BY <1>1
  <2> HIDE DEF n
  <2> QED
    BY ONLY <1>9, <1>10, <2>1, <2>2
<1>18. FlattenSeq(first) = w \o t
  <2>1. first \in Seq(Seq(Token)) /\ rest \in Seq(Seq(Token)) /\ first[1] = w
    BY <1>9, <1>10, <1>14
  <2>2. FlattenSeq(first) = w \o FlattenSeq(rest)
    BY ONLY <1>14, <1>17, <2>1, FlattenCons
  <2> QED
    BY <1>15, <2>2
<1>19. PICK y \in Seq(Token) : y = PW(1)
  BY <1>1, <1>7
<1>20. FlattenSeq(piped) = y \o t
  <2>1. Len(piped) = Len(rest) + 1 /\ piped[1] = y
        /\ \A i \in 1..Len(rest) : piped[i + 1] = rest[i]
    <3>1. ASSUME NEW i \in 1..(n - 1) PROVE piped[i + 1] = rest[i]
      <4>1. PICK k \in 1..n : k = i + 1
        <5>1. i + 1 \in 1..n
          BY <1>1
        <5> QED
          BY <5>1
      <4>2. piped[k] = PW(k) /\ rest[i] = PW(i + 1)
        BY <1>8, <1>9, <4>1
      <4> QED
        BY <4>1, <4>2
    <3>2. n = n - 1 + 1 /\ 1 \in 1..n
      BY <1>1
    <3> HIDE DEF n
    <3> QED
      BY ONLY <1>8, <1>9, <1>19, <3>1, <3>2
  <2> QED
    BY <1>8, <1>9, <1>15, <2>1, FlattenCons
<1>21. PICK p \in Seq(Token) : p = Pipe
  BY <1>6
<1>22. Cat(Cat(p, w), t) = Cat(p, Cat(w, t))
  BY CatAssociative
<1>23. FlattenSeq(piped) = Pipe \o FlattenSeq(first)
  BY <1>14, <1>18, <1>19, <1>20, <1>21, <1>22 DEF Cat, PW
<1> QED
  BY <1>4, <1>11, <1>13, <1>16, <1>23 DEF node

ReadWell(tokens, pos, r) ==
    /\ r.pos \in (pos + 2)..(Len(tokens) + 1)
    /\ IsParse(r.node)
    /\ ParseDisjunction(tokens)[pos] = {r}
    /\ Write(r.node) = SubSeq(tokens, pos, r.pos - 1)

\* One level of the recursion.
LEMMA ParseDisjunctionLevel ==
    ASSUME NEW tokens \in Seq(Token), NEW pos \in 1..(Len(tokens) + 1),
           \A p \in (pos + 1)..(Len(tokens) + 1) :
               \A r \in ParseDisjunction(tokens)[p] : ReadWell(tokens, p, r),
           NEW r \in ParseDisjunction(tokens)[pos]
    PROVE  ReadWell(tokens, pos, r)
<1> DEFINE read == ParseDisjunction(tokens)
           Of(alt) == IF At(tokens, alt.pos) = <<"Pipe">>
                      THEN {[node |-> <<alt.node>> \o others.node, pos |-> others.pos] :
                               others \in read[alt.pos + 1]}
                      ELSE {[node |-> <<alt.node>>, pos |-> alt.pos]}
<1>1. Len(tokens) \in Nat /\ pos \in Nat
  OBVIOUS
<1>2. read[pos] = UNION {Of(alt) : alt \in ParseConjunction(tokens, pos)}
  BY ParseDisjunctionStep DEF ReadFrom
<1>3. PICK alt \in ParseConjunction(tokens, pos) : r \in Of(alt)
  BY <1>2
<1>4. /\ alt.pos \in (pos + 2)..(Len(tokens) + 1)
      /\ IsAlternative(alt.node)
      /\ ParseConjunction(tokens, pos) = {alt}
      /\ WriteAlternative(alt.node) = SubSeq(tokens, pos, alt.pos - 1)
  BY ParseConjunctionReads
<1>5. read[pos] = Of(alt)
  BY <1>2, <1>4
<1>6. CASE At(tokens, alt.pos) = <<"Pipe">>
  <2>1. PICK others \in read[alt.pos + 1] :
            r = [node |-> <<alt.node>> \o others.node, pos |-> others.pos]
    BY <1>3, <1>6
  <2>2. alt.pos \in 1..Len(tokens) /\ tokens[alt.pos] = <<"Pipe">>
    <3>1. alt.pos \in 1..(Len(tokens) + 1)
      BY <1>1, <1>4
    <3> QED
      BY <1>6, <3>1, PipeWithin
  <2>3. /\ others.pos \in (alt.pos + 1 + 2)..(Len(tokens) + 1)
        /\ IsParse(others.node)
        /\ read[alt.pos + 1] = {others}
        /\ Write(others.node) = SubSeq(tokens, alt.pos + 1, others.pos - 1)
    <3>1. alt.pos + 1 \in (pos + 1)..(Len(tokens) + 1)
      BY <1>1, <1>4, <2>2
    <3> HIDE DEF read
    <3>2. ReadWell(tokens, alt.pos + 1, others)
      BY <2>1, <3>1 DEF read
    <3> QED
      BY <3>2 DEF ReadWell, read
  <2>4. Of(alt) = {r}
    <3> HIDE DEF read
    <3> QED
      BY <1>6, <2>1, <2>3
  <2>5. IsParse(r.node) /\ Write(r.node) = WriteAlternative(alt.node) \o (Pipe \o Write(others.node))
    BY <1>4, <2>1, <2>3, WriteCons
  <2>6. Write(r.node) = SubSeq(tokens, pos, others.pos - 1)
    <3>0. /\ alt.pos \in Nat /\ others.pos \in Nat
          /\ pos + 2 <= alt.pos /\ alt.pos + 3 <= others.pos /\ others.pos <= Len(tokens) + 1
      <4> HIDE DEF read
      <4>1. alt.pos \in Nat /\ pos + 2 <= alt.pos /\ others.pos \in (alt.pos + 3)..(Len(tokens) + 1)
        BY <1>1, <1>4, <2>3
      <4> QED
        BY <1>1, <4>1
    <3>1. SubSeq(tokens, alt.pos, alt.pos) = Pipe
      BY <2>2, SubSeqShort DEF Pipe
    <3>2. SubSeq(tokens, alt.pos, alt.pos) \o SubSeq(tokens, alt.pos + 1, others.pos - 1)
              = SubSeq(tokens, alt.pos, others.pos - 1)
      <4>1. /\ alt.pos \in 1..(Len(tokens) + 1)
            /\ alt.pos \in (alt.pos - 1)..Len(tokens)
            /\ others.pos - 1 \in alt.pos..Len(tokens)
        BY ONLY <1>1, <2>2, <3>0
      <4> QED
        BY <4>1, ConcatAdjacentSubSeq
    <3>3. SubSeq(tokens, pos, alt.pos - 1) \o SubSeq(tokens, alt.pos - 1 + 1, others.pos - 1)
              = SubSeq(tokens, pos, others.pos - 1)
      <4>1. /\ alt.pos - 1 \in (pos - 1)..Len(tokens)
            /\ others.pos - 1 \in (alt.pos - 1)..Len(tokens)
        <5>1. PICK m \in Nat, n \in Nat, end \in Nat :
                  m = alt.pos /\ n = others.pos /\ end = Len(tokens)
          BY ONLY <1>1, <3>0
        <5>2. pos \in Nat /\ pos + 2 <= m /\ m + 3 <= n /\ n <= end + 1
          BY ONLY <1>1, <3>0, <5>1
        <5>3. m - 1 \in (pos - 1)..end
          BY <5>1, <5>2
        <5>4. n - 1 \in (m - 1)..end
          BY <5>1, <5>2
        <5> QED
          BY ONLY <5>1, <5>3, <5>4
      <4> QED
        BY <4>1, ConcatAdjacentSubSeq
    <3>4. alt.pos - 1 + 1 = alt.pos
      BY <1>1, <1>4
    <3> QED
      BY <1>4, <2>3, <2>5, <3>1, <3>2, <3>3, <3>4
  <2>7. r.pos = others.pos /\ r.pos \in (pos + 2)..(Len(tokens) + 1)
    <3>1. r.pos = others.pos
      BY <2>1
    <3> HIDE DEF read
    <3> QED
      BY <1>1, <1>4, <2>2, <2>3, <3>1
  <2> HIDE DEF Of
  <2> QED
    BY <1>5, <2>4, <2>5, <2>6, <2>7 DEF ReadWell
<1>7. CASE At(tokens, alt.pos) # <<"Pipe">>
  <2>1. r = [node |-> <<alt.node>>, pos |-> alt.pos] /\ Of(alt) = {r}
    BY <1>3, <1>7
  <2>2. Write(r.node) = SubSeq(tokens, pos, r.pos - 1)
    BY <1>4, <2>1, WriteOne
  <2>3. IsParse(r.node)
    <3>1. PICK a \in Seq(Node) : a = alt.node
      BY <1>4 DEF IsAlternative
    <3>2. <<a>> \in Seq(Seq(Node)) /\ Len(<<a>>) = 1 /\ <<a>>[1] = a
      OBVIOUS
    <3>3. r.node = <<a>>
      BY <2>1, <3>1
    <3> QED
      BY <1>4, <3>1, <3>2, <3>3 DEF IsParse
  <2> HIDE DEF Of
  <2> QED
    BY <1>4, <1>5, <2>1, <2>2, <2>3 DEF ReadWell
<1> QED
  BY <1>6, <1>7

LEMMA ParseDisjunctionReads ==
    ASSUME NEW tokens \in Seq(Token), NEW pos \in 1..(Len(tokens) + 1),
           NEW r \in ParseDisjunction(tokens)[pos]
    PROVE  ReadWell(tokens, pos, r)
<1> DEFINE N == Len(tokens) + 1
           From(p) == \A x \in ParseDisjunction(tokens)[p] : ReadWell(tokens, p, x)
           G == {n \in Nat : \A p \in 1..N : N - p < n => From(p)}
<1>1. Len(tokens) \in Nat /\ N \in Nat
  OBVIOUS
<1>2. 0 \in G
  BY <1>1
<1>3. ASSUME NEW n \in G PROVE n + 1 \in G
  <2>1. n \in Nat /\ \A p \in 1..N : N - p < n => From(p)
    OBVIOUS
  <2>2. ASSUME NEW p \in 1..N, N - p < n + 1 PROVE From(p)
    <3>1. ASSUME NEW q \in (p + 1)..N PROVE From(q)
      <4>1. q \in 1..N /\ N - q < n
        BY <1>1, <2>1, <2>2
      <4> QED
        BY <2>1, <4>1
    <3> QED
      BY <2>2, <3>1, ParseDisjunctionLevel
  <2> HIDE DEF From, N
  <2> QED
    BY <2>1, <2>2
<1>4. N \in G
  <2> HIDE DEF G
  <2>1. G \in SUBSET Nat
    BY DEF G
  <2> QED
    BY <1>1, <1>2, <1>3, <2>1, Induction
<1>5. From(pos)
  BY <1>1, <1>4
<1> QED
  BY <1>5

\* What is read of a constraint list is numbers.
LEMMA ReadsTyped ==
    ASSUME NEW node, IsParse(node)
    PROVE  IsSpec(Reads(node))
<1>1. ASSUME NEW cs \in Seq(Token), NEW kind \in {"NvlMin", "IbMax"}
      PROVE  FirstOf(cs, kind) \in SUBSET Nat
  <2>1. \A i \in 1..Len(cs) : cs[i][1] = kind => cs[i][2] \in Nat
    <3> SUFFICES ASSUME NEW i \in 1..Len(cs), cs[i][1] = kind PROVE cs[i][2] \in Nat
      OBVIOUS
    <3>1. cs[i] \in Token
      BY ElementOfSeq
    <3> QED
      BY <3>1, TokenKinds
  <2> QED
    BY <2>1 DEF FirstOf
<1> DEFINE R(n) == [dim |-> n.dim, degree |-> n.degree,
                    nvl_min |-> FirstOf(n.constraints, "NvlMin"),
                    ib_max |-> FirstOf(n.constraints, "IbMax")]
           A(alt) == [k \in 1..Len(alt) |-> R(alt[k])]
<1>2. ASSUME NEW n \in Node PROVE R(n) \in Atom
  <2>1. n.dim \in ParallelDim /\ n.degree \in Nat /\ n.constraints \in Seq(Token)
    BY DEF Node
  <2>2. FirstOf(n.constraints, "NvlMin") \in SUBSET Nat /\ FirstOf(n.constraints, "IbMax") \in SUBSET Nat
    BY <1>1, <2>1
  <2> QED
    BY <2>1, <2>2 DEF Atom
<1> HIDE DEF R
<1>3. ASSUME NEW alt, IsAlternative(alt)
      PROVE  A(alt) \in Seq(Atom) /\ Len(A(alt)) \in {1, 2}
  <2>1. alt \in Seq(Node) /\ Len(alt) \in {1, 2}
    BY <1>3 DEF IsAlternative
  <2>2. \A k \in 1..Len(alt) : R(alt[k]) \in Atom
    BY <1>2, <2>1, ElementOfSeq
  <2> QED
    BY <2>1, <2>2
<1>4. Reads(node) = [i \in 1..Len(node) |-> A(node[i])]
  BY DEF Reads, R
<1>5. node \in Seq(Seq(Node)) /\ Len(node) > 0 /\ \A i \in 1..Len(node) : IsAlternative(node[i])
  BY DEF IsParse
<1>6. Len(node) \in Nat
  BY <1>5
<1>7. \A i \in 1..Len(node) : A(node[i]) \in Seq(Atom) /\ Len(A(node[i])) \in {1, 2}
  BY <1>3, <1>5
<1> HIDE DEF A
<1>8. Reads(node) \in Seq(Seq(Atom)) /\ Len(Reads(node)) = Len(node)
  BY <1>4, <1>6, <1>7
<1>9. \A i \in 1..Len(node) : Reads(node)[i] = A(node[i])
  BY <1>4
<1> QED
  BY <1>5, <1>7, <1>8, <1>9 DEF IsSpec

-----------------------------------------------------------------------------
(* What the parser misses: conjunctions of more than two atoms             *)

Cuts(tokens, sign) ==
    {0, Len(tokens) + 1} \cup {p \in 1..Len(tokens) : tokens[p] = <<sign>>}

\* What lies between two neighbouring cuts is a piece.
LEMMA BetweenCuts ==
    ASSUME NEW tokens, NEW sign, NEW a \in Cuts(tokens, sign), NEW b \in Cuts(tokens, sign),
           a < b, \A x \in Cuts(tokens, sign) : ~(a < x /\ x < b),
           NEW first, first = a + 1, NEW last, last = b - 1
    PROVE  SubSeq(tokens, first, last) \in Pieces(tokens, sign)
<1> DEFINE C == Cuts(tokens, sign)
           D == {d \in C \X C : d[1] < d[2] /\ \A x \in C : ~(d[1] < x /\ x < d[2])}
<1>1. Pieces(tokens, sign) = {SubSeq(tokens, c[1] + 1, c[2] - 1) : c \in D}
  BY DEF Pieces, Cuts
<1> DEFINE c == <<a, b>>
<1>2. c \in C \X C /\ c[1] = a /\ c[2] = b
  OBVIOUS
<1> HIDE DEF C, c
<1>3. c \in D
  BY <1>2 DEF C
<1> HIDE DEF D
<1>4. SubSeq(tokens, c[1] + 1, c[2] - 1) \in Pieces(tokens, sign)
  BY <1>1, <1>3
<1>5. first = c[1] + 1 /\ last = c[2] - 1
  BY <1>2
<1> QED
  BY <1>4, <1>5

\* A slice of the tokens.
LEMMA Slice ==
    ASSUME NEW tokens \in Seq(Token), NEW pos \in 1..(Len(tokens) + 1),
           NEW end \in pos..(Len(tokens) + 1)
    PROVE  /\ SubSeq(tokens, pos, end - 1) \in Seq(Token)
           /\ Len(SubSeq(tokens, pos, end - 1)) = end - pos
           /\ \A i \in 1..(end - pos) : SubSeq(tokens, pos, end - 1)[i] = tokens[pos + i - 1]
<1> DEFINE piece == SubSeq(tokens, pos, end - 1)
<1>1. Len(tokens) \in Nat /\ pos \in Nat /\ end \in Nat
  OBVIOUS
<1>2. \A i \in pos..(end - 1) : tokens[i] \in Token
  <2>1. \A i \in pos..(end - 1) : i \in 1..Len(tokens)
    BY <1>1
  <2> QED
    BY <2>1, ElementOfSeq
<1>3. /\ piece \in Seq(Token)
      /\ Len(piece) = IF pos <= end - 1 THEN end - 1 - pos + 1 ELSE 0
      /\ \A i \in 1..(end - 1 - pos + 1) : piece[i] = tokens[pos + i - 1]
  BY <1>1, <1>2, SubSeqProperties
<1>4. end - 1 - pos + 1 = end - pos /\ (~(pos <= end - 1) => end - pos = 0)
  BY <1>1
<1> HIDE DEF piece
<1> QED
  BY <1>3, <1>4 DEF piece

LEMMA AtomComplete ==
    ASSUME NEW tokens \in Seq(Token), NEW pos \in 1..(Len(tokens) + 1),
           NEW end \in pos..(Len(tokens) + 1), ~IsConstraint(At(tokens, end)),
           WellFormedAtom(SubSeq(tokens, pos, end - 1))
    PROVE  \E r \in ParseAtom(tokens, pos) : r.pos = end
<1> DEFINE piece == SubSeq(tokens, pos, end - 1)
<1>1. Len(tokens) \in Nat /\ pos \in Nat /\ end \in Nat
  OBVIOUS
<1>2. /\ Len(piece) = end - pos
      /\ \A i \in 1..(end - pos) : piece[i] = tokens[pos + i - 1]
  BY Slice
<1>3. /\ Len(piece) >= 2 /\ piece[1][1] \in ParallelDim /\ piece[2][1] = "Number"
      /\ \A i \in 3..Len(piece) : IsConstraint(piece[i])
  BY DEF WellFormedAtom
<1> HIDE DEF piece
<1>4. end >= pos + 2
  BY <1>1, <1>2, <1>3
<1>5. tokens[pos][1] \in ParallelDim /\ tokens[pos + 1][1] = "Number"
  <2>1. 1 \in 1..(end - pos) /\ 2 \in 1..(end - pos) /\ pos + 1 - 1 = pos /\ pos + 2 - 1 = pos + 1
    BY <1>1, <1>4
  <2>2. piece[1] = tokens[pos + 1 - 1] /\ piece[2] = tokens[pos + 2 - 1]
    BY <1>2, <2>1
  <2> QED
    BY <1>3, <2>1, <2>2
<1>6. ASSUME NEW p \in (pos + 2)..(end - 1) PROVE IsConstraint(tokens[p])
  <2>1. PICK i \in 3..Len(piece) : i \in 1..(end - pos) /\ pos + i - 1 = p
    <3>1. p - pos + 1 \in 3..Len(piece) /\ p - pos + 1 \in 1..(end - pos)
          /\ pos + (p - pos + 1) - 1 = p
      BY <1>1, <1>2
    <3> QED
      BY <3>1
  <2>2. piece[i] = tokens[pos + i - 1] /\ IsConstraint(piece[i])
    BY <1>2, <1>3, <2>1
  <2> QED
    BY <2>1, <2>2
<1>7. PICK r \in ParseAtom(tokens, pos) : TRUE
  <2>1. pos <= Len(tokens) /\ pos + 1 <= Len(tokens)
    BY <1>1, <1>4
  <2>2. At(tokens, pos)[1] \in ParallelDim /\ At(tokens, pos + 1)[1] = "Number"
    BY <1>5, <2>1 DEF At
  <2> QED
    BY <2>2 DEF ParseAtom
<1>8. /\ r.pos \in (pos + 2)..(Len(tokens) + 1)
      /\ \A i \in (pos + 2)..(r.pos - 1) : IsConstraint(tokens[i])
      /\ ~IsConstraint(At(tokens, r.pos))
  BY ParseAtomReads
<1>9. ~(r.pos < end)
  <2> SUFFICES ASSUME r.pos < end PROVE FALSE
    OBVIOUS
  <2>1. r.pos \in (pos + 2)..(end - 1) /\ r.pos <= Len(tokens)
    BY <1>1, <1>8
  <2> QED
    BY <1>6, <1>8, <2>1 DEF At
<1>10. ~(end < r.pos)
  <2> SUFFICES ASSUME end < r.pos PROVE FALSE
    OBVIOUS
  <2>1. end \in (pos + 2)..(r.pos - 1) /\ end <= Len(tokens)
    BY <1>1, <1>4, <1>8
  <2> QED
    BY <1>8, <2>1 DEF At
<1> QED
  BY <1>1, <1>8, <1>9, <1>10

\* The token behind an alternative.
Closes(tokens, end) ==
    \/ end = Len(tokens) + 1
    \/ end \in 1..Len(tokens) /\ tokens[end] = <<"Pipe">>

AtMostOnePlus(alt) == ~(Cardinality({p \in 1..Len(alt) : alt[p] = <<"Plus">>}) > 1)

\* An alternative of the grammar, of two atoms at most.
Fine(alt) == AtMostOnePlus(alt) /\ \A piece \in Pieces(alt, "Plus") : WellFormedAtom(piece)

LEMMA FineIs ==
    ASSUME NEW tokens
    PROVE  InGrammar(tokens) /\ ~Chained(tokens) <=> \A alt \in Pieces(tokens, "Pipe") : Fine(alt)
  BY DEF InGrammar, Chained, Fine, AtMostOnePlus

LEMMA AlternativeComplete ==
    ASSUME NEW tokens \in Seq(Token), NEW pos \in 1..(Len(tokens) + 1),
           NEW end \in pos..(Len(tokens) + 1), Closes(tokens, end),
           NEW alt, alt = SubSeq(tokens, pos, end - 1),
           AtMostOnePlus(alt), \A piece \in Pieces(alt, "Plus") : WellFormedAtom(piece)
    PROVE  \E r \in ParseConjunction(tokens, pos) : r.pos = end
<1> DEFINE n == Len(alt)
           P == {p \in 1..n : alt[p] = <<"Plus">>}
<1>1. Len(tokens) \in Nat /\ pos \in Nat /\ end \in Nat /\ pos <= end /\ end <= Len(tokens) + 1
  OBVIOUS
<1>2. ~IsConstraint(At(tokens, end)) /\ At(tokens, end) # <<"Plus">>
  <2>1. CASE end = Len(tokens) + 1
    <3>1. At(tokens, end) = <<"end">>
      BY <1>1, <2>1 DEF At
    <3> QED
      BY <3>1 DEF IsConstraint
  <2>2. CASE end \in 1..Len(tokens) /\ tokens[end] = <<"Pipe">>
    <3>1. At(tokens, end) = <<"Pipe">>
      BY <1>1, <2>2 DEF At
    <3> QED
      BY <3>1 DEF IsConstraint
  <2> QED
    BY <2>1, <2>2 DEF Closes
<1>3. /\ alt \in Seq(Token) /\ n = end - pos
      /\ \A i \in 1..n : alt[i] = tokens[pos + i - 1]
  BY Slice
<1>4. n \in Nat /\ Cuts(alt, "Plus") = {0, n + 1} \cup P
  BY <1>1, <1>3 DEF Cuts
<1> HIDE DEF n
<1>5. CASE P = {}
  <2>1. SubSeq(alt, 1, n) \in Pieces(alt, "Plus")
    <3>1. Cuts(alt, "Plus") = {0, n + 1}
      BY <1>4, <1>5
    <3>2. 0 < n + 1 /\ 1 = 0 + 1 /\ n = n + 1 - 1
          /\ \A x \in {0, n + 1} : ~(0 < x /\ x < n + 1)
      BY <1>4
    <3> HIDE DEF P
    <3> DEFINE b == n + 1
    <3>3. /\ 0 \in Cuts(alt, "Plus") /\ b \in Cuts(alt, "Plus") /\ 0 < b
          /\ \A x \in Cuts(alt, "Plus") : ~(0 < x /\ x < b)
          /\ 1 = 0 + 1 /\ n = b - 1
      <4>1. ASSUME NEW x \in Cuts(alt, "Plus") PROVE ~(0 < x /\ x < b)
        BY <3>1, <3>2
      <4>2. 0 \in Cuts(alt, "Plus") /\ b \in Cuts(alt, "Plus")
        BY <3>1
      <4>3. 0 < b /\ 1 = 0 + 1 /\ n = b - 1
        BY <1>4
      <4> HIDE DEF P, b
      <4> QED
        BY ONLY <4>1, <4>2, <4>3, Zenon
    <3> HIDE DEF b
    <3> QED
      BY <3>3, BetweenCuts
  <2>2. SubSeq(alt, 1, n) = alt
    BY <1>3, SubSeqFull DEF n
  <2>4. WellFormedAtom(alt)
    BY <2>1, <2>2
  <2>5. PICK first \in ParseAtom(tokens, pos) : first.pos = end
    BY <1>2, <2>4, AtomComplete
  <2> DEFINE r == [node |-> <<first.node>>, pos |-> first.pos]
  <2>6. r \in ParseConjunction(tokens, pos)
    <3>1. At(tokens, first.pos) # <<"Plus">>
      BY <1>2, <2>5
    <3> QED
      BY <3>1 DEF ParseConjunction
  <2>7. r.pos = end
    BY <2>5
  <2> QED
    BY <2>6, <2>7
<1>6. ASSUME NEW p \in P PROVE \E r \in ParseConjunction(tokens, pos) : r.pos = end
  <2>1. p \in 1..n /\ alt[p] = <<"Plus">>
    OBVIOUS
  <2>2. P = {p}
    <3>1. IsFiniteSet(1..n)
      BY <1>4, FS_Interval
    <3>2. IsFiniteSet(P)
      BY <3>1, FS_Subset
    <3>3. ~(Cardinality(P) > 1)
      BY DEF n, AtMostOnePlus
    <3> HIDE DEF P
    <3>4. {p} \in SUBSET P /\ Cardinality({p}) = 1 /\ Cardinality(P) \in Nat
      BY <3>2, FS_Singleton, FS_CardinalityType
    <3>5. Cardinality({p}) <= Cardinality(P) /\ (Cardinality(P) = Cardinality({p}) => P = {p})
      BY <3>2, <3>4, FS_Subset
    <3>6. Cardinality(P) = Cardinality({p})
      BY <3>3, <3>4, <3>5
    <3> QED
      BY <3>5, <3>6
  <2> DEFINE mid == pos + p - 1
  <2>3. mid \in Nat /\ pos <= mid /\ mid < end /\ mid \in 1..Len(tokens) /\ tokens[mid] = <<"Plus">>
    BY <1>1, <1>3, <2>1
  <2>4. WellFormedAtom(SubSeq(alt, 1, p - 1)) /\ WellFormedAtom(SubSeq(alt, p + 1, n))
    <3> HIDE DEF P, mid
    <3>1. Cuts(alt, "Plus") = {0, n + 1, p}
      BY <1>4, <2>2
    <3>2. /\ 0 < p /\ p < n + 1 /\ 1 = 0 + 1 /\ n = n + 1 - 1
          /\ \A x \in {0, n + 1, p} : ~(0 < x /\ x < p) /\ ~(p < x /\ x < n + 1)
      BY <1>4, <2>1
    <3> DEFINE b == n + 1
               before == p - 1
               after == p + 1
    <3>3. /\ 0 \in Cuts(alt, "Plus") /\ b \in Cuts(alt, "Plus") /\ p \in Cuts(alt, "Plus")
          /\ 0 < p /\ p < b
          /\ \A x \in Cuts(alt, "Plus") : ~(0 < x /\ x < p)
          /\ \A x \in Cuts(alt, "Plus") : ~(p < x /\ x < b)
          /\ 1 = 0 + 1 /\ before = p - 1 /\ after = p + 1 /\ n = b - 1
      <4>1. ASSUME NEW x \in Cuts(alt, "Plus")
            PROVE  ~(0 < x /\ x < p) /\ ~(p < x /\ x < b)
        BY <3>1, <3>2
      <4>2. 0 \in Cuts(alt, "Plus") /\ b \in Cuts(alt, "Plus") /\ p \in Cuts(alt, "Plus")
        BY <3>1
      <4>3. 0 < p /\ p < b /\ 1 = 0 + 1 /\ before = p - 1 /\ after = p + 1 /\ n = b - 1
        BY <1>4, <2>1
      <4> HIDE DEF b, before, after
      <4> QED
        BY ONLY <4>1, <4>2, <4>3, Zenon
    <3> HIDE DEF b, before, after
    <3>4. SubSeq(alt, 1, before) \in Pieces(alt, "Plus")
      BY <3>3, BetweenCuts
    <3>5. SubSeq(alt, after, n) \in Pieces(alt, "Plus")
      BY <3>3, BetweenCuts
    <3> QED
      BY <3>4, <3>5 DEF before, after
  <2>5. p - 1 >= 2 /\ n - p >= 2
    <3>1. \A a \in 1..n, b \in 0..n : SubSeq(alt, a, b) \in Seq(Token)
                 /\ Len(SubSeq(alt, a, b)) = IF a <= b THEN b - a + 1 ELSE 0
      <4> SUFFICES ASSUME NEW a \in 1..n, NEW b \in 0..n
                   PROVE  SubSeq(alt, a, b) \in Seq(Token)
                          /\ Len(SubSeq(alt, a, b)) = IF a <= b THEN b - a + 1 ELSE 0
        OBVIOUS
      <4>1. \A i \in a..b : alt[i] \in Token
        <5>1. \A i \in a..b : i \in 1..Len(alt)
          BY <1>4 DEF n
        <5> QED
          BY <1>3, <5>1, ElementOfSeq
      <4>2. a \in Int /\ b \in Int
        BY <1>4
      <4> HIDE DEF P, mid
      <4> QED
        BY ONLY <4>1, <4>2, SubSeqProperties
    <3>2. Len(SubSeq(alt, 1, p - 1)) >= 2 /\ Len(SubSeq(alt, p + 1, n)) >= 2
      BY <2>4 DEF WellFormedAtom
    <3>3. p - 1 >= 2
      <4>1. 1 \in 1..n /\ p - 1 \in 0..n
        BY <1>4, <2>1
      <4>2. Len(SubSeq(alt, 1, p - 1)) = IF 1 <= p - 1 THEN p - 1 - 1 + 1 ELSE 0
        BY <3>1, <4>1
      <4> QED
        BY <1>4, <2>1, <3>2, <4>2
    <3>4. n - p >= 2
      <4>1. CASE p = n
        <5>1. SubSeq(alt, p + 1, n) = << >>
          <6>1. p + 1 \in Int /\ n \in Int /\ n < p + 1
            BY <1>4, <4>1
          <6> QED
            BY ONLY <6>1, SubSeqEmpty
        <5>2. Len(<< >>) = 0
          OBVIOUS
        <5> DEFINE c == SubSeq(alt, p + 1, n)
        <5>3. c = << >> /\ Len(c) >= 2
          BY <3>2, <5>1
        <5> HIDE DEF c
        <5>4. FALSE
          BY ONLY <5>2, <5>3
        <5> QED
          BY <5>4
      <4>2. CASE p # n
        <5>1. p + 1 \in 1..n /\ n \in 0..n
          BY <1>4, <2>1, <4>2
        <5>2. Len(SubSeq(alt, p + 1, n)) = IF p + 1 <= n THEN n - (p + 1) + 1 ELSE 0
          BY <3>1, <5>1
        <5> QED
          BY <1>4, <2>1, <3>2, <5>2
      <4> QED
        BY <4>1, <4>2
    <3> QED
      BY <3>3, <3>4
  <2>6. /\ SubSeq(alt, 1, p - 1) = SubSeq(tokens, pos, mid - 1)
        /\ SubSeq(alt, p + 1, n) = SubSeq(tokens, mid + 1, end - 1)
    <3>1. /\ pos \in 1..Len(tokens) /\ end - 1 \in 1..Len(tokens)
          /\ 1 \in 1..(end - 1 - pos + 1) /\ p - 1 \in 1..(end - 1 - pos + 1)
          /\ p + 1 \in 1..(end - 1 - pos + 1) /\ n \in 1..(end - 1 - pos + 1)
      BY <1>1, <1>3, <2>1, <2>5
    <3>2. /\ pos + 1 - 1 = pos /\ pos + (p - 1) - 1 = mid - 1
          /\ pos + (p + 1) - 1 = mid + 1 /\ pos + n - 1 = end - 1
      BY <1>1, <1>3, <2>1
    <3> HIDE DEF mid, P
    <3>0. SubSeq(tokens, pos, end - 1) \in Seq(Token)
      BY <1>3
    <3>3. SubSeq(SubSeq(tokens, pos, end - 1), 1, p - 1)
              = SubSeq(tokens, pos + 1 - 1, pos + (p - 1) - 1)
      BY <3>1, SubSeqOfSubSeq
    <3>4. SubSeq(SubSeq(tokens, pos, end - 1), p + 1, n)
              = SubSeq(tokens, pos + (p + 1) - 1, pos + n - 1)
      <4> DEFINE after == p + 1
                 stop == end - 1
      <4>1. /\ pos \in 1..Len(tokens) /\ stop \in 1..Len(tokens)
            /\ after \in 1..(stop - pos + 1) /\ n \in 1..(stop - pos + 1)
            /\ SubSeq(tokens, pos, stop) \in Seq(Token)
        BY <3>0, <3>1
      <4> HIDE DEF after, stop
      <4>2. SubSeq(SubSeq(tokens, pos, stop), after, n)
                = SubSeq(tokens, pos + after - 1, pos + n - 1)
        BY <4>1, SubSeqOfSubSeq
      <4> QED
        BY <4>2 DEF after, stop
    <3> QED
      BY <3>2, <3>3, <3>4
  <2> HIDE DEF mid
  <2>7. At(tokens, mid) = <<"Plus">>
    BY <1>1, <2>3 DEF At
  <2>8. PICK first \in ParseAtom(tokens, pos) : first.pos = mid
    <3>1. ~IsConstraint(At(tokens, mid))
      BY <2>7 DEF IsConstraint
    <3>2. mid \in pos..(Len(tokens) + 1)
      BY <1>1, <2>3
    <3> QED
      BY <2>4, <2>6, <3>1, <3>2, AtomComplete
  <2>9. PICK second \in ParseAtom(tokens, mid + 1) : second.pos = end
    <3>1. mid + 1 \in 1..(Len(tokens) + 1) /\ end \in (mid + 1)..(Len(tokens) + 1)
      BY <1>1, <2>3
    <3> QED
      BY <1>2, <2>4, <2>6, <3>1, AtomComplete
  <2> DEFINE r == [node |-> <<first.node, second.node>>, pos |-> second.pos]
  <2>10. r \in ParseConjunction(tokens, pos)
    <3>1. At(tokens, first.pos) = <<"Plus">> /\ second \in ParseAtom(tokens, first.pos + 1)
      BY <2>7, <2>8, <2>9
    <3> QED
      BY <3>1 DEF ParseConjunction
  <2>11. r.pos = end
    BY <2>9
  <2> QED
    BY <2>10, <2>11
<1> QED
  BY <1>5, <1>6

\* Behind any '|', and at the start, the rest is read to its end.
LEMMA DisjunctionComplete ==
    ASSUME NEW tokens \in Seq(Token), \A alt \in Pieces(tokens, "Pipe") : Fine(alt)
    PROVE  \E r \in ParseDisjunction(tokens)[1] : r.pos = Len(tokens) + 1
<1> DEFINE N == Len(tokens) + 1
           C == Cuts(tokens, "Pipe")
           Reads1(p) == \E r \in ParseDisjunction(tokens)[p] : r.pos = N
           G == {n \in Nat : \A p \in 1..N : p - 1 \in C /\ N - p < n => Reads1(p)}
<1>1. Len(tokens) \in Nat /\ N \in Nat /\ C \in SUBSET (0..N) /\ 0 \in C /\ N \in C
  BY DEF Cuts
<1>2. 0 \in G
  BY <1>1
<1>3. ASSUME NEW n \in G PROVE n + 1 \in G
  <2>1. n \in Nat /\ \A p \in 1..N : p - 1 \in C /\ N - p < n => Reads1(p)
    OBVIOUS
  <2>2. ASSUME NEW p \in 1..N, p - 1 \in C, N - p < n + 1 PROVE Reads1(p)
    <3> DEFINE later == {c \in C : c > p - 1}
    <3>1. PICK end \in later : \A c \in later : end <= c
      <4>1. later \in SUBSET Nat /\ N \in later
        BY <1>1
      <4> HIDE DEF later
      <4> QED
        BY <4>1, LeastNat
    <3>2. end \in p..N /\ end \in C
      BY <1>1, <3>1
    <3>3. SubSeq(tokens, p - 1 + 1, end - 1) \in Pieces(tokens, "Pipe")
      <4>1. p - 1 < end /\ \A x \in C : ~(p - 1 < x /\ x < end)
        <5> SUFFICES ASSUME NEW x \in C, p - 1 < x, x < end PROVE FALSE
          BY <1>1, <3>1, <3>2
        <5>1. x \in later
          BY <1>1
        <5>2. end <= x /\ end \in Nat /\ x \in Nat
          BY <1>1, <3>1, <3>2, <5>1
        <5> QED
          BY <5>2
      <4> QED
        BY <2>2, <3>2, <4>1, BetweenCuts
    <3>4. p - 1 + 1 = p
      BY <1>1
    <3> DEFINE alt == SubSeq(tokens, p, end - 1)
    <3>5. alt \in Pieces(tokens, "Pipe")
      BY <3>3, <3>4
    <3>6. AtMostOnePlus(alt) /\ \A piece \in Pieces(alt, "Plus") : WellFormedAtom(piece)
      <4> HIDE DEF alt
      <4> QED
        BY <3>5 DEF Fine
    <3>7. Closes(tokens, end)
      <4> HIDE DEF alt
      <4>1. end \in {0, Len(tokens) + 1} \cup {q \in 1..Len(tokens) : tokens[q] = <<"Pipe">>}
        BY <3>2 DEF Cuts
      <4>2. end # 0
        BY <1>1, <3>2
      <4> QED
        BY <4>1, <4>2 DEF Closes
    <3>8. PICK one \in ParseConjunction(tokens, p) : one.pos = end
      <4>1. alt = SubSeq(tokens, p, end - 1)
        OBVIOUS
      <4> HIDE DEF alt
      <4>2. p \in 1..(Len(tokens) + 1) /\ end \in p..(Len(tokens) + 1)
        BY <3>2
      <4> HIDE DEF C, N
      <4> QED
        BY <3>6, <3>7, <4>1, <4>2, AlternativeComplete
    <3>9. ParseDisjunction(tokens)[p] = ReadFrom(ParseDisjunction(tokens), tokens, p)
      BY ParseDisjunctionStep
    <3>10. CASE end = N
      <4>1. At(tokens, one.pos) # <<"Pipe">>
        <5>1. At(tokens, N) = <<"end">>
          BY <1>1 DEF At
        <5> QED
          BY <3>8, <3>10, <5>1
      <4> DEFINE r == [node |-> <<one.node>>, pos |-> one.pos]
      <4>2. r \in ReadFrom(ParseDisjunction(tokens), tokens, p)
        BY <4>1 DEF ReadFrom
      <4>3. r.pos = N
        BY <3>8, <3>10
      <4> QED
        BY <3>9, <4>2, <4>3
    <3>11. CASE end # N
      <4>1. end \in 1..Len(tokens) /\ tokens[end] = <<"Pipe">>
        BY <3>7, <3>11 DEF Closes
      <4>2. At(tokens, one.pos) = <<"Pipe">>
        BY <1>1, <3>8, <4>1 DEF At
      <4>3. PICK others \in ParseDisjunction(tokens)[end + 1] : others.pos = N
        <5>1. end + 1 \in 1..N /\ N - (end + 1) < n
          BY <1>1, <2>1, <2>2, <3>2, <4>1
        <5> DEFINE next == end + 1
        <5>2. next \in 1..N
          BY <5>1
        <5>4. N - next < n
          BY <5>1
        <5>5. next - 1 = end
          BY <4>1
        <5> HIDE DEF C, N, Reads1, next
        <5>3. Reads1(next)
          BY <2>1, <3>2, <5>2, <5>4, <5>5
        <5> QED
          BY <5>3 DEF Reads1, next
      <4> DEFINE r == [node |-> <<one.node>> \o others.node, pos |-> others.pos]
      <4>4. r \in ReadFrom(ParseDisjunction(tokens), tokens, p)
        <5>1. others \in ParseDisjunction(tokens)[one.pos + 1]
          BY <3>8, <4>3
        <5> DEFINE X == {[node |-> <<one.node>> \o o.node, pos |-> o.pos] :
                             o \in ParseDisjunction(tokens)[one.pos + 1]}
        <5>2. r \in X
          BY <5>1
        <5> HIDE DEF r, X
        <5>3. X \subseteq ReadFrom(ParseDisjunction(tokens), tokens, p)
          BY <3>8, <4>2 DEF ReadFrom, X
        <5> QED
          BY <5>2, <5>3
      <4>5. r.pos = N
        BY <4>3
      <4> QED
        BY <3>9, <4>4, <4>5
    <3> QED
      BY <3>10, <3>11
  <2> HIDE DEF N, C, Reads1
  <2> QED
    BY <2>1, <2>2
<1>4. N \in G
  <2> HIDE DEF G
  <2>1. G \in SUBSET Nat
    BY DEF G
  <2> QED
    BY <1>1, <1>2, <1>3, <2>1, Induction
<1>5. 1 \in 1..N /\ 1 - 1 \in C /\ N - 1 < N
  BY <1>1
<1>6. Reads1(1)
  <2> HIDE DEF C, Reads1, N
  <2> QED
    BY <1>4, <1>5
<1> QED
  BY <1>6

-----------------------------------------------------------------------------
(* What the parser takes: nothing beyond the grammar                       *)

LEMMA AtomSound ==
    ASSUME NEW tokens \in Seq(Token), NEW pos \in 1..(Len(tokens) + 1),
           NEW r \in ParseAtom(tokens, pos)
    PROVE  /\ WellFormedAtom(SubSeq(tokens, pos, r.pos - 1))
           /\ \A i \in pos..(r.pos - 1) : tokens[i] # <<"Plus">> /\ tokens[i] # <<"Pipe">>
<1>1. /\ r.pos \in (pos + 2)..(Len(tokens) + 1)
      /\ tokens[pos][1] \in ParallelDim /\ tokens[pos + 1][1] = "Number"
      /\ \A i \in (pos + 2)..(r.pos - 1) : IsConstraint(tokens[i])
  BY ParseAtomReads
<1>2. PICK end \in pos..(Len(tokens) + 1) : end = r.pos /\ end >= pos + 2
  BY <1>1
<1>3. Len(tokens) \in Nat /\ pos \in Nat /\ end \in Nat
  OBVIOUS
<1> DEFINE piece == SubSeq(tokens, pos, end - 1)
<1>4. Len(piece) = end - pos /\ \A i \in 1..(end - pos) : piece[i] = tokens[pos + i - 1]
  BY Slice
<1> HIDE DEF piece
<1>5. WellFormedAtom(piece)
  <2>1. piece[1] = tokens[pos] /\ piece[2] = tokens[pos + 1]
    <3>1. 1 \in 1..(end - pos) /\ 2 \in 1..(end - pos) /\ pos + 1 - 1 = pos /\ pos + 2 - 1 = pos + 1
      BY <1>2, <1>3
    <3>2. piece[1] = tokens[pos + 1 - 1] /\ piece[2] = tokens[pos + 2 - 1]
      BY <1>4, <3>1
    <3> QED
      BY <3>1, <3>2
  <2>2. ASSUME NEW i \in 3..Len(piece) PROVE IsConstraint(piece[i])
    <3>1. i \in 1..(end - pos) /\ pos + i - 1 \in (pos + 2)..(end - 1)
      BY <1>3, <1>4
    <3> QED
      BY <1>1, <1>2, <1>4, <3>1
  <2>3. Len(piece) >= 2
    BY <1>2, <1>3, <1>4
  <2> QED
    BY <1>1, <2>1, <2>2, <2>3 DEF WellFormedAtom
<1>6. ASSUME NEW i \in pos..(end - 1) PROVE tokens[i] # <<"Plus">> /\ tokens[i] # <<"Pipe">>
  <2>1. i \in 1..Len(tokens)
    BY <1>3
  <2>2. tokens[i] \in Token
    BY <2>1, ElementOfSeq
  <2>3. i = pos \/ i = pos + 1 \/ i \in (pos + 2)..(end - 1)
    BY <1>3
  <2>4. tokens[i][1] \in ParallelDim \cup {"Number"} \/ IsConstraint(tokens[i])
    BY <1>1, <1>2, <2>3
  <2> QED
    BY <2>2, <2>4, TokenKinds
<1> QED
  BY <1>2, <1>5, <1>6 DEF piece

\* One atom is a piece of its own.
LEMMA FineOne ==
    ASSUME NEW alt \in Seq(Token), WellFormedAtom(alt),
           \A i \in 1..Len(alt) : alt[i] # <<"Plus">>
    PROVE  Fine(alt)
<1> DEFINE n == Len(alt)
           P == {p \in 1..n : alt[p] = <<"Plus">>}
<1>1. n \in Nat /\ P = {}
  OBVIOUS
<1>2. AtMostOnePlus(alt)
  <2>1. ~(Cardinality(P) > 1)
    <3> HIDE DEF P
    <3>1. Cardinality({}) = 0
      BY FS_EmptySet
    <3>2. Cardinality(P) = 0
      BY <1>1, <3>1
    <3> QED
      BY <3>2
  <2> QED
    BY <2>1 DEF AtMostOnePlus
<1>3. ASSUME NEW piece \in Pieces(alt, "Plus") PROVE piece = alt
  <2>1. Cuts(alt, "Plus") = {0, n + 1}
    BY <1>1 DEF Cuts
  <2>2. PICK a \in {0, n + 1}, b \in {0, n + 1} : a < b /\ piece = SubSeq(alt, a + 1, b - 1)
    BY <2>1 DEF Pieces, Cuts
  <2>3. a + 1 = 1 /\ b - 1 = n
    BY <1>1, <2>2
  <2> QED
    BY <2>2, <2>3, SubSeqFull
<1> QED
  BY <1>2, <1>3 DEF Fine

\* Two atoms around a '+' are its pieces.
LEMMA FineTwo ==
    ASSUME NEW alt \in Seq(Token), NEW p \in 1..Len(alt),
           {i \in 1..Len(alt) : alt[i] = <<"Plus">>} = {p},
           WellFormedAtom(SubSeq(alt, 1, p - 1)),
           WellFormedAtom(SubSeq(alt, p + 1, Len(alt)))
    PROVE  Fine(alt)
<1> DEFINE n == Len(alt)
<1>1. n \in Nat /\ p \in Nat /\ 0 < p /\ p < n + 1
  OBVIOUS
<1>2. AtMostOnePlus(alt)
  <2>1. Cardinality({p}) = 1
    BY FS_Singleton
  <2>2. Cardinality({i \in 1..Len(alt) : alt[i] = <<"Plus">>}) = 1
    BY <2>1
  <2>3. ~(1 > 1)
    OBVIOUS
  <2> QED
    BY <2>2, <2>3 DEF AtMostOnePlus
<1>3. ASSUME NEW piece \in Pieces(alt, "Plus") PROVE WellFormedAtom(piece)
  <2> HIDE DEF n
  <2>1. Cuts(alt, "Plus") = {0, n + 1, p}
    BY DEF Cuts, n
  <2>2. PICK a \in {0, n + 1, p}, b \in {0, n + 1, p} :
            /\ a < b /\ ~(a < p /\ p < b)
            /\ piece = SubSeq(alt, a + 1, b - 1)
    <3> DEFINE C == Cuts(alt, "Plus")
    <3>1. PICK c \in C \X C :
              /\ c[1] < c[2] /\ \A x \in C : ~(c[1] < x /\ x < c[2])
              /\ piece = SubSeq(alt, c[1] + 1, c[2] - 1)
      BY DEF Pieces, Cuts
    <3>2. p \in C /\ c[1] \in C /\ c[2] \in C
      BY <2>1
    <3> HIDE DEF C
    <3>3. ~(c[1] < p /\ p < c[2])
      BY <3>1, <3>2
    <3> QED
      BY <2>1, <3>1, <3>2, <3>3 DEF C
  <2>3. \/ a + 1 = 1 /\ b - 1 = p - 1
        \/ a + 1 = p + 1 /\ b - 1 = n
    BY <1>1, <2>2
  <2> QED
    BY <2>2, <2>3 DEF n
<1> QED
  BY <1>2, <1>3 DEF Fine

LEMMA AlternativeSound ==
    ASSUME NEW tokens \in Seq(Token), NEW pos \in 1..(Len(tokens) + 1),
           NEW r \in ParseConjunction(tokens, pos)
    PROVE  /\ r.pos \in (pos + 2)..(Len(tokens) + 1)
           /\ Fine(SubSeq(tokens, pos, r.pos - 1))
           /\ \A i \in pos..(r.pos - 1) : tokens[i] # <<"Pipe">>
<1>1. Len(tokens) \in Nat /\ pos \in Nat
  OBVIOUS
<1>2. PICK first \in ParseAtom(tokens, pos) :
          r \in IF At(tokens, first.pos) = <<"Plus">>
                THEN {[node |-> <<first.node, second.node>>, pos |-> second.pos] :
                         second \in ParseAtom(tokens, first.pos + 1)}
                ELSE {[node |-> <<first.node>>, pos |-> first.pos]}
  BY DEF ParseConjunction
<1>3. PICK mid \in pos..(Len(tokens) + 1) : mid = first.pos /\ mid >= pos + 2
  BY <1>1, ParseAtomReads
<1>4. /\ WellFormedAtom(SubSeq(tokens, pos, mid - 1))
      /\ \A i \in pos..(mid - 1) : tokens[i] # <<"Plus">> /\ tokens[i] # <<"Pipe">>
  BY <1>3, AtomSound
<1>5. r.pos \in (pos + 2)..(Len(tokens) + 1)
  BY ParseConjunctionReads
<1>6. PICK end \in pos..(Len(tokens) + 1) : end = r.pos
  BY <1>1, <1>5
<1> DEFINE alt == SubSeq(tokens, pos, end - 1)
           n == end - pos
<1>7. /\ alt \in Seq(Token) /\ Len(alt) = n
      /\ \A i \in 1..n : alt[i] = tokens[pos + i - 1]
  BY Slice
<1>8. CASE At(tokens, first.pos) # <<"Plus">>
  <2>1. mid = end
    BY <1>2, <1>3, <1>6, <1>8
  <2>2. \A i \in 1..Len(alt) : alt[i] # <<"Plus">>
    <3> SUFFICES ASSUME NEW i \in 1..n PROVE tokens[pos + i - 1] # <<"Plus">>
      BY <1>7
    <3>1. pos + i - 1 \in pos..(mid - 1)
      BY <1>1, <2>1
    <3> QED
      BY <1>4, <3>1
  <2>3. Fine(alt)
    <3> HIDE DEF alt
    <3>1. WellFormedAtom(alt)
      BY <1>4, <2>1 DEF alt
    <3> QED
      BY <1>7, <2>2, <3>1, FineOne
  <2> HIDE DEF n
  <2> QED
    BY <1>4, <1>5, <1>6, <2>1, <2>3
<1>9. CASE At(tokens, first.pos) = <<"Plus">>
  <2>1. PICK second \in ParseAtom(tokens, mid + 1) : end = second.pos
    BY <1>2, <1>3, <1>6, <1>9
  <2>2. mid \in 1..Len(tokens) /\ mid + 1 \in 1..(Len(tokens) + 1) /\ tokens[mid] = <<"Plus">>
    <3>1. <<"end">> # <<"Plus">>
      OBVIOUS
    <3> QED
      BY <1>1, <1>3, <1>9, <3>1 DEF At
  <2>3. /\ end \in (mid + 1 + 2)..(Len(tokens) + 1)
        /\ WellFormedAtom(SubSeq(tokens, mid + 1, end - 1))
        /\ \A i \in (mid + 1)..(end - 1) : tokens[i] # <<"Plus">> /\ tokens[i] # <<"Pipe">>
    BY <2>1, <2>2, ParseAtomReads, AtomSound
  <2> DEFINE p == mid - pos + 1
             stop == end - 1
             after == p + 1
  <2>4. /\ p \in 1..n /\ p >= 3 /\ n - p >= 2 /\ n \in Nat /\ mid \in Nat /\ end \in Nat
        /\ pos + p - 1 = mid
    <3>1. PICK m \in Nat, e \in Nat : m = mid /\ e = end
      BY <1>1
    <3>2. /\ pos \in Nat /\ m >= pos + 2 /\ e >= m + 3
          /\ p = m - pos + 1 /\ n = e - pos
      BY <1>1, <1>3, <2>3, <3>1
    <3> HIDE DEF p, n
    <3>3. p \in Nat /\ n \in Nat /\ p >= 3 /\ n - p >= 2 /\ pos + p - 1 = m
      BY <3>1, <3>2
    <3> QED
      BY <3>1, <3>3
  <2>5. {i \in 1..Len(alt) : alt[i] = <<"Plus">>} = {p}
    <3> HIDE DEF alt, n
    <3> SUFFICES ASSUME NEW i \in 1..n PROVE alt[i] = <<"Plus">> <=> i = p
      BY <1>7, <2>4
    <3>1. alt[i] = tokens[pos + i - 1]
      BY <1>7
    <3>2. CASE i = p
      BY <2>2, <2>4, <3>1, <3>2
    <3>3. CASE i # p
      <4>1. pos + i - 1 \in pos..(mid - 1) \/ pos + i - 1 \in (mid + 1)..(end - 1)
        BY <1>1, <2>4, <3>3 DEF n
      <4> QED
        BY <1>4, <2>3, <3>1, <3>3, <4>1
    <3> QED
      BY <3>2, <3>3
  <2>6. /\ SubSeq(alt, 1, p - 1) = SubSeq(tokens, pos, mid - 1)
        /\ SubSeq(alt, after, n) = SubSeq(tokens, mid + 1, end - 1)
    <3>1. /\ pos \in 1..Len(tokens) /\ stop \in 1..Len(tokens)
          /\ 1 \in 1..(stop - pos + 1) /\ p - 1 \in 1..(stop - pos + 1)
          /\ after \in 1..(stop - pos + 1) /\ n \in 1..(stop - pos + 1)
      <4>1. pos \in 1..Len(tokens) /\ stop \in 1..Len(tokens)
        <5>1. PICK m \in Nat, e \in Nat : m = mid /\ e = end
          BY <2>4
        <5>2. pos \in Nat /\ 1 <= pos /\ pos <= m /\ m <= Len(tokens)
          BY <1>1, <1>3, <2>2, <5>1
        <5>3. m + 3 <= e /\ e <= Len(tokens) + 1
          BY <2>3, <5>1
        <5>4. pos \in 1..Len(tokens) /\ e - 1 \in 1..Len(tokens)
          BY ONLY <1>1, <5>1, <5>2, <5>3
        <5> QED
          BY ONLY <5>1, <5>4 DEF stop
      <4>2. stop - pos + 1 = n
        BY <1>1, <2>4
      <4> HIDE DEF n, p, stop
      <4>3. 1 \in 1..n /\ p - 1 \in 1..n /\ after \in 1..n /\ n \in 1..n
        BY <2>4
      <4> QED
        BY <4>1, <4>2, <4>3
    <3>2. /\ pos + 1 - 1 = pos /\ pos + (p - 1) - 1 = mid - 1
          /\ pos + after - 1 = mid + 1 /\ pos + n - 1 = end - 1
      BY <1>1, <2>4
    <3>3. alt = SubSeq(tokens, pos, stop) /\ SubSeq(tokens, pos, stop) \in Seq(Token)
      BY <1>7
    <3> HIDE DEF alt, n, p, stop, after
    <3>4. SubSeq(SubSeq(tokens, pos, stop), 1, p - 1)
              = SubSeq(tokens, pos + 1 - 1, pos + (p - 1) - 1)
      BY <3>1, <3>3, SubSeqOfSubSeq
    <3>5. SubSeq(SubSeq(tokens, pos, stop), after, n)
              = SubSeq(tokens, pos + after - 1, pos + n - 1)
      BY <3>1, <3>3, SubSeqOfSubSeq
    <3> QED
      BY <3>2, <3>3, <3>4, <3>5
  <2>7. Fine(alt)
    <3> HIDE DEF alt, n, p
    <3>1. /\ p \in 1..Len(alt)
          /\ WellFormedAtom(SubSeq(alt, 1, p - 1))
          /\ WellFormedAtom(SubSeq(alt, p + 1, Len(alt)))
      BY <1>4, <1>7, <2>3, <2>4, <2>6
    <3> QED
      BY <1>7, <2>5, <3>1, FineTwo
  <2>8. \A i \in pos..(end - 1) : tokens[i] # <<"Pipe">>
    <3> SUFFICES ASSUME NEW i \in pos..(end - 1) PROVE tokens[i] # <<"Pipe">>
      OBVIOUS
    <3>1. i \in pos..(mid - 1) \/ i = mid \/ i \in (mid + 1)..(end - 1)
      BY <1>1, <2>4
    <3> QED
      BY <1>4, <2>2, <2>3, <3>1
  <2> HIDE DEF n
  <2> QED
    BY <1>5, <1>6, <2>7, <2>8
<1> QED
  BY <1>8, <1>9

\* What lies between neighbouring '|' cuts, from a position to another.
FineBetween(tokens, pos, end) ==
    LET C == Cuts(tokens, "Pipe")
    IN  \A a, b \in C :
            /\ pos - 1 <= a /\ a < b /\ b <= end
            /\ \A x \in C : ~(a < x /\ x < b)
            => Fine(SubSeq(tokens, a + 1, b - 1))

\* The first of the alternatives; the others lie behind it.
LEMMA FineStep ==
    ASSUME NEW tokens \in Seq(Token), NEW pos \in 1..(Len(tokens) + 1),
           pos - 1 \in Cuts(tokens, "Pipe"),
           NEW alt \in ParseConjunction(tokens, pos),
           NEW a \in Cuts(tokens, "Pipe"), NEW b \in Cuts(tokens, "Pipe"),
           pos - 1 <= a, a < b, a < alt.pos,
           \A x \in Cuts(tokens, "Pipe") : ~(a < x /\ x < b),
           b <= alt.pos \/ alt.pos \in Cuts(tokens, "Pipe")
    PROVE  Fine(SubSeq(tokens, a + 1, b - 1))
<1> DEFINE C == Cuts(tokens, "Pipe")
<1>1. /\ Len(tokens) \in Nat /\ pos \in Nat
      /\ \A c \in C : /\ c \in Nat /\ c <= Len(tokens) + 1
                      /\ c \in 1..Len(tokens) => tokens[c] = <<"Pipe">>
  BY DEF Cuts
<1>2. PICK end \in pos..(Len(tokens) + 1) : end = alt.pos
  BY <1>1, AlternativeSound
<1>3. /\ Fine(SubSeq(tokens, pos, end - 1))
      /\ \A i \in pos..(end - 1) : tokens[i] # <<"Pipe">>
  BY <1>2, AlternativeSound
<1>4. ASSUME NEW c \in C PROVE ~(pos <= c /\ c < end)
  <2> SUFFICES ASSUME pos <= c, c < end PROVE FALSE
    OBVIOUS
  <2>1. c \in pos..(end - 1) /\ c \in 1..Len(tokens)
    BY <1>1, <1>2
  <2> QED
    BY <1>1, <1>3, <2>1
<1> HIDE DEF C
<1>5. a \in C /\ b \in C /\ a \in Nat /\ b \in Nat
  BY <1>1 DEF C
<1>6. a = pos - 1
  BY <1>1, <1>2, <1>4, <1>5
<1>7. b = end
  <2>1. b >= end
    BY <1>1, <1>4, <1>5, <1>6
  <2>2. ~(b > end)
    BY <1>1, <1>2, <1>5
  <2> QED
    BY <1>5, <2>1, <2>2
<1>8. a + 1 = pos /\ b - 1 = end - 1
  BY <1>1, <1>6, <1>7
<1> QED
  BY <1>3, <1>8

LEMMA DisjunctionSound ==
    ASSUME NEW tokens \in Seq(Token), NEW r \in ParseDisjunction(tokens)[1]
    PROVE  FineBetween(tokens, 1, r.pos)
<1> DEFINE N == Len(tokens) + 1
           C == Cuts(tokens, "Pipe")
           From(p) == \A x \in ParseDisjunction(tokens)[p] : FineBetween(tokens, p, x.pos)
           G == {n \in Nat : \A p \in 1..N : p - 1 \in C /\ N - p < n => From(p)}
<1>1. Len(tokens) \in Nat /\ N \in Nat /\ C \in SUBSET (0..N) /\ 0 \in C
  BY DEF Cuts
<1>2. 0 \in G
  BY <1>1
<1>3. ASSUME NEW n \in G PROVE n + 1 \in G
  <2>1. n \in Nat /\ \A p \in 1..N : p - 1 \in C /\ N - p < n => From(p)
    OBVIOUS
  <2>2. ASSUME NEW p \in 1..N, p - 1 \in C, N - p < n + 1,
               NEW x \in ParseDisjunction(tokens)[p]
        PROVE  FineBetween(tokens, p, x.pos)
    <3>1. x \in ReadFrom(ParseDisjunction(tokens), tokens, p)
      BY ParseDisjunctionStep
    <3>2. PICK alt \in ParseConjunction(tokens, p) :
              x \in IF At(tokens, alt.pos) = <<"Pipe">>
                    THEN {[node |-> <<alt.node>> \o others.node, pos |-> others.pos] :
                             others \in ParseDisjunction(tokens)[alt.pos + 1]}
                    ELSE {[node |-> <<alt.node>>, pos |-> alt.pos]}
      BY <3>1 DEF ReadFrom
    <3>3. PICK end \in p..N : end = alt.pos /\ end >= p + 2
      BY <1>1, AlternativeSound
    <3> SUFFICES ASSUME NEW a \in C, NEW b \in C, p - 1 <= a, a < b, b <= x.pos,
                        \A y \in C : ~(a < y /\ y < b)
                 PROVE  Fine(SubSeq(tokens, a + 1, b - 1))
      BY DEF FineBetween
    <3>4. CASE At(tokens, alt.pos) = <<"Pipe">>
      <4>1. PICK others \in ParseDisjunction(tokens)[end + 1] : x.pos = others.pos
        BY <3>2, <3>3, <3>4
      <4>2. end \in 1..Len(tokens) /\ end + 1 \in 1..N /\ end \in C
        <5>1. end \in 1..Len(tokens) /\ tokens[end] = <<"Pipe">> /\ end + 1 \in 1..N
          BY <1>1, <3>3, <3>4, PipeWithin
        <5> QED
          BY <5>1 DEF Cuts
      <4>3. CASE a < end
        BY <2>2, <3>3, <4>2, <4>3, FineStep
      <4>4. CASE end <= a
        <5> DEFINE next == end + 1
        <5>1. next \in 1..N /\ next - 1 = end /\ N - next < n
          BY <1>1, <2>1, <2>2, <3>3, <4>2
        <5> HIDE DEF next, C, N
        <5>2. FineBetween(tokens, next, others.pos)
          BY <2>1, <4>1, <4>2, <5>1 DEF next
        <5>3. next - 1 <= a /\ b <= others.pos
          BY <4>1, <4>4, <5>1
        <5> QED
          BY <5>2, <5>3 DEF FineBetween, C
      <4>5. a \in Nat /\ end \in Nat
        BY <1>1, <3>3
      <4> QED
        BY <4>3, <4>4, <4>5
    <3>5. CASE At(tokens, alt.pos) # <<"Pipe">>
      <4>1. x.pos = end
        BY <3>2, <3>3, <3>5
      <4>2. a < end
        <5>1. a \in Nat /\ b \in Nat /\ end \in Nat
          BY <1>1, <3>3
        <5> QED
          BY <4>1, <5>1
      <4> QED
        BY <2>2, <3>3, <4>1, <4>2, FineStep
    <3> QED
      BY <3>4, <3>5
  <2> HIDE DEF N, C
  <2> QED
    BY <2>1, <2>2
<1>4. N \in G
  <2> HIDE DEF G
  <2>1. G \in SUBSET Nat
    BY DEF G
  <2> QED
    BY <1>1, <1>2, <1>3, <2>1, Induction
<1>5. 1 \in 1..N /\ 1 - 1 \in C /\ N - 1 < N
  BY <1>1
<1>6. From(1)
  <2> HIDE DEF C, From, N
  <2> QED
    BY <1>4, <1>5
<1> QED
  BY <1>6

-----------------------------------------------------------------------------
(* The theorems                                                            *)

Typed == text \in Seq(Words)

LEMMA TextTyped == Spec => []Typed
<1>1. Init => Typed
  BY DEF Init, Typed
<1>2. Typed /\ [Next]_text => Typed'
  <2> SUFFICES ASSUME Typed, [Next]_text PROVE Typed'
    OBVIOUS
  <2>1. ASSUME NEW w \in Words, TypeWord(w) PROVE Typed'
    BY <2>1, AppendProperties DEF Typed, TypeWord
  <2> QED
    BY <2>1 DEF Next, Typed
<1> QED
  BY <1>1, <1>2, PTL DEF Spec

LEMMA ParsedReads ==
    ASSUME Typed, NEW node \in Parsed
    PROVE  IsParse(node) /\ Parsed = {node} /\ Write(node) = Lex
<1> DEFINE read == ParseDisjunction(Lex)[1]
<1>1. ~LexFails /\ Parsed = {r.node : r \in {d \in read : d.pos = Len(Lex) + 1}}
  BY DEF Parsed, Parse
<1>2. Lex \in Seq(Token) /\ Len(Lex) \in Nat /\ 1 \in 1..(Len(Lex) + 1)
  <2>1. Lex \in Seq(Token)
    BY <1>1, LexTyped DEF Typed
  <2>2. Len(Lex) \in Nat
    BY <2>1
  <2> QED
    BY <2>1, <2>2
<1>3. PICK r \in read : r.pos = Len(Lex) + 1 /\ node = r.node
  BY <1>1
<1>4. IsParse(r.node) /\ read = {r} /\ Write(r.node) = SubSeq(Lex, 1, r.pos - 1)
  BY <1>2, <1>3, ParseDisjunctionReads DEF ReadWell
<1>5. r.pos - 1 = Len(Lex)
  BY <1>2, <1>3
<1>6. SubSeq(Lex, 1, Len(Lex)) = Lex
  BY <1>2, SubSeqFull
<1>7. {d \in read : d.pos = Len(Lex) + 1} = {r}
  BY <1>3, <1>4
<1> HIDE DEF read
<1>8. Parsed = {node}
  BY <1>1, <1>3, <1>7
<1> QED
  BY <1>3, <1>4, <1>5, <1>6, <1>8

\* Whatever the vocabulary and however long the text: it is accepted as one
\* spec at most, and that spec written down is the text again.
THEOREM DslParseReadsAll == Spec => []ParseReadsAll
<1>1. Typed => ParseReadsAll
  <2> SUFFICES ASSUME Typed PROVE ParseReadsAll
    OBVIOUS
  <2>1. Cardinality(Parsed) <= 1
    <3>1. CASE Parsed = {}
      BY <3>1, FS_EmptySet
    <3>2. CASE Parsed # {}
      <4>1. PICK node \in Parsed : Parsed = {node}
        BY <3>2, ParsedReads
      <4>2. Cardinality({node}) = 1
        BY FS_Singleton
      <4> QED
        BY <4>1, <4>2
    <3> QED
      BY <3>1, <3>2
  <2> QED
    BY <2>1, ParsedReads DEF ParseReadsAll
<1> QED
  BY <1>1, TextTyped, PTL

\* What the parser hands on has the shape the type checker and the scheduler
\* rely on: alternatives, none of them empty, of one or two atoms.
THEOREM DslParsedIsSpec == Spec => []ParsedIsSpec
<1>1. Typed => ParsedIsSpec
  BY ParsedReads, ReadsTyped DEF ParsedIsSpec
<1> QED
  BY <1>1, TextTyped, PTL

\* The language of the parser, in both directions: of the texts that lex it
\* takes exactly those of the grammar whose conjunctions have two atoms at most.
THEOREM DslParseExact == Spec => []ParseExact
<1>1. Typed => ParseExact
  <2> SUFFICES ASSUME Typed, ~LexFails
               PROVE  Parsed # {} <=> \A alt \in Pieces(Lex, "Pipe") : Fine(alt)
    BY FineIs DEF ParseExact
  <2>1. Lex \in Seq(Token) /\ Len(Lex) \in Nat
    <3>1. Lex \in Seq(Token)
      BY LexTyped DEF Typed
    <3> QED
      BY <3>1
  <2>2. Parsed = {r.node : r \in {d \in ParseDisjunction(Lex)[1] : d.pos = Len(Lex) + 1}}
    BY DEF Parsed, Parse
  <2>3. ASSUME \A alt \in Pieces(Lex, "Pipe") : Fine(alt) PROVE Parsed # {}
    <3>1. PICK r \in ParseDisjunction(Lex)[1] : r.pos = Len(Lex) + 1
      BY <2>1, <2>3, DisjunctionComplete
    <3> QED
      BY <2>2, <3>1
  <2>4. ASSUME Parsed # {}, NEW alt \in Pieces(Lex, "Pipe") PROVE Fine(alt)
    <3>1. PICK r \in ParseDisjunction(Lex)[1] : r.pos = Len(Lex) + 1
      BY <2>2, <2>4
    <3>2. FineBetween(Lex, 1, Len(Lex) + 1)
      BY <2>1, <3>1, DisjunctionSound
    <3>3. PICK a \in Cuts(Lex, "Pipe"), b \in Cuts(Lex, "Pipe") :
              /\ a < b /\ \A x \in Cuts(Lex, "Pipe") : ~(a < x /\ x < b)
              /\ alt = SubSeq(Lex, a + 1, b - 1)
      BY <2>4 DEF Pieces, Cuts
    <3>4. 1 - 1 <= a /\ b <= Len(Lex) + 1
      BY <2>1 DEF Cuts
    <3> QED
      BY <3>2, <3>3, <3>4 DEF FineBetween
  <2> QED
    BY <2>3, <2>4
<1> QED
  BY <1>1, TextTyped, PTL
=============================================================================

----------------------------- MODULE TopologyDsl ----------------------------
(***************************************************************************)
(* The lexer and the recursive-descent parser of the topology DSL.         *)
(*                                                                         *)
(* A text is a sequence of words: a dimension keyword, an '_' constraint   *)
(* keyword, each with the number written right behind it (a set, empty     *)
(* when there is none), an operator, or anything else.  A text is typed    *)
(* word by word, up to a bound, and parsed after each one.                 *)
(***************************************************************************)
EXTENDS TopologySpec, SequencesExt

CONSTANTS
    Words,      \* the words texts are made of: [form, kw, num]
    MaxWords    \* bound: the words of a text

ASSUME WordsAssumption ==
    \A w \in Words :
        /\ w.num \in SUBSET Nat /\ \A m, n \in w.num : m = n
        /\ w.form = "op" => w.kw \in {"Plus", "Pipe"}

VARIABLE text

Init == text = << >>

TypeWord(w) == Len(text) < MaxWords /\ text' = Append(text, w)

Next == \E w \in Words : TypeWord(w)

Spec == Init /\ [][Next]_text

-----------------------------------------------------------------------------
(* The lexer: a token is <<kind>> or <<kind, value>>.                      *)

IsU32(num) == \E n \in num : n < U32

\* A word that makes the lexer stop, given the word behind it: NUMA takes no
\* number, and letters behind it belong to its keyword.
BadWord(i) ==
    LET w == text[i]
    IN  CASE w.form = "op" -> FALSE
          [] w.form = "dim" -> w.kw \notin ParallelDim \/ ~IsU32(w.num)
          [] w.form = "constraint" ->
                \/ w.kw \notin {"NVL", "IB", "NUMA"}
                \/ w.kw = "NVL" /\ w.num = {}
                \/ w.kw = "IB" /\ ~IsU32(w.num)
                \/ w.kw = "NUMA" /\ w.num # {}
                \/ w.kw = "NUMA" /\ i < Len(text) /\ text[i + 1].form = "dim"
          [] OTHER -> TRUE

Number(w) == CHOOSE n \in w.num : TRUE

TokensOf(w) ==
    CASE w.form = "op" -> << <<w.kw>> >>
      [] w.form = "dim" -> << <<w.kw>>, <<"Number", Number(w)>> >>
      [] w.kw = "NUMA" -> << <<"Numa">> >>
      [] w.kw = "NVL" -> << <<"NvlMin", Number(w)>> >>
      [] w.kw = "IB" -> << <<"IbMax", Number(w)>> >>

LexFails == \E i \in 1..Len(text) : BadWord(i)
Lex == FlattenSeq([i \in 1..Len(text) |-> TokensOf(text[i])])

-----------------------------------------------------------------------------
(* The parser.  From a position it returns the empty set for an error, or  *)
(* what it read and the position behind it.                                *)

At(tokens, pos) == IF pos <= Len(tokens) THEN tokens[pos] ELSE <<"end">>

IsConstraint(token) == token[1] \in {"NvlMin", "IbMax", "Numa"}

\* Mutant: an atom takes one constraint at most.
ParseAtomOnce(tokens, pos) ==
    LET end == IF IsConstraint(At(tokens, pos + 2)) THEN pos + 3 ELSE pos + 2
    IN  IF At(tokens, pos)[1] \in ParallelDim /\ At(tokens, pos + 1)[1] = "Number"
        THEN {[node |-> [dim |-> tokens[pos][1], degree |-> tokens[pos + 1][2],
                         constraints |-> SubSeq(tokens, pos + 2, end - 1)],
               pos |-> end]}
        ELSE {}

\* A keyword, its degree, and the constraints up to the next other token.
ParseAtom(tokens, pos) ==
    LET rest == {p \in (pos + 2)..(Len(tokens) + 1) : ~IsConstraint(At(tokens, p))}
        end  == CHOOSE p \in rest : \A q \in rest : p <= q
    IN  IF At(tokens, pos)[1] \in ParallelDim /\ At(tokens, pos + 1)[1] = "Number"
        THEN {[node |-> [dim |-> tokens[pos][1], degree |-> tokens[pos + 1][2],
                         constraints |-> SubSeq(tokens, pos + 2, end - 1)],
               pos |-> end]}
        ELSE {}

\* Mutant: three atoms can be chained.
ParseConjunctionChain(tokens, pos) ==
    LET more(r) == IF At(tokens, r.pos) = <<"Plus">>
                   THEN {[node |-> Append(r.node, next.node), pos |-> next.pos] :
                            next \in ParseAtom(tokens, r.pos + 1)}
                   ELSE {r}
        one     == {[node |-> <<a.node>>, pos |-> a.pos] : a \in ParseAtom(tokens, pos)}
    IN  UNION {more(r) : r \in UNION {more(o) : o \in one}}

\* One atom, or two around a '+'; a further '+' is left for the caller.
ParseConjunction(tokens, pos) ==
    UNION {IF At(tokens, first.pos) = <<"Plus">>
           THEN {[node |-> <<first.node, second.node>>, pos |-> second.pos] :
                    second \in ParseAtom(tokens, first.pos + 1)}
           ELSE {[node |-> <<first.node>>, pos |-> first.pos]} :
              first \in ParseAtom(tokens, pos)}

\* One alternative and, behind a '|', what follows it, from any position.
ParseDisjunction(tokens) ==
    LET read[pos \in 1..(Len(tokens) + 1)] ==
            UNION {IF At(tokens, alt.pos) = <<"Pipe">>
                   THEN {[node |-> <<alt.node>> \o others.node, pos |-> others.pos] :
                            others \in read[alt.pos + 1]}
                   ELSE {[node |-> <<alt.node>>, pos |-> alt.pos]} :
                      alt \in ParseConjunction(tokens, pos)}
    IN  read

\* Mutant: what is left of the tokens is ignored.
ParsePrefix(tokens) == {r.node : r \in ParseDisjunction(tokens)[1]}

\* The parse must use all the tokens.
Parse(tokens) ==
    {r.node : r \in {d \in ParseDisjunction(tokens)[1] : d.pos = Len(tokens) + 1}}

Parsed == IF LexFails THEN {} ELSE Parse(Lex)

\* What the type checker and the solver read of a parsed atom: for each kind
\* the first constraint in the list.
FirstOf(constraints, kind) ==
    LET hits == {i \in 1..Len(constraints) : constraints[i][1] = kind}
    IN  {constraints[i][2] : i \in {h \in hits : \A k \in hits : h <= k}}

Reads(node) ==
    [i \in 1..Len(node) |->
        [k \in 1..Len(node[i]) |->
            [dim |-> node[i][k].dim, degree |-> node[i][k].degree,
             nvl_min |-> FirstOf(node[i][k].constraints, "NvlMin"),
             ib_max |-> FirstOf(node[i][k].constraints, "IbMax")]]]

-----------------------------------------------------------------------------
(* The grammar, from the other side: how a spec is written.                *)

WriteAtom(a) == << <<a.dim>>, <<"Number", a.degree>> >> \o a.constraints

WriteAlternative(alt) ==
    IF Len(alt) = 1 THEN WriteAtom(alt[1])
    ELSE WriteAtom(alt[1]) \o << <<"Plus">> >> \o WriteAtom(alt[2])

Write(node) ==
    FlattenSeq([i \in 1..Len(node) |->
        IF i = 1 THEN WriteAlternative(node[1])
                 ELSE << <<"Pipe">> >> \o WriteAlternative(node[i])])

\* A text is accepted as one spec at most, and that spec, written down, is
\* the text again: no token is skipped, moved or read twice (parser.rs:69-168).
ParseReadsAll ==
    /\ Cardinality(Parsed) <= 1
    /\ \A node \in Parsed : Write(node) = Lex

\* What is left between the cuts of a token sequence at a sign.
Pieces(tokens, sign) ==
    LET cuts == {0, Len(tokens) + 1} \cup {p \in 1..Len(tokens) : tokens[p] = <<sign>>}
    IN  {SubSeq(tokens, c[1] + 1, c[2] - 1) :
            c \in {d \in cuts \X cuts :
                      d[1] < d[2] /\ \A x \in cuts : ~(d[1] < x /\ x < d[2])}}

WellFormedAtom(piece) ==
    /\ Len(piece) >= 2
    /\ piece[1][1] \in ParallelDim /\ piece[2][1] = "Number"
    /\ \A i \in 3..Len(piece) : IsConstraint(piece[i])

\* The grammar of parser.rs:3-11: atoms around '+' signs around '|' signs.
InGrammar(tokens) ==
    \A alt \in Pieces(tokens, "Pipe") : \A piece \in Pieces(alt, "Plus") : WellFormedAtom(piece)

\* A conjunction of more than two atoms.
Chained(tokens) ==
    \E alt \in Pieces(tokens, "Pipe") : Cardinality({p \in 1..Len(alt) : alt[p] = <<"Plus">>}) > 1

\* A text that lexes is accepted exactly if the grammar derives it and it chains
\* no more than two atoms by '+': the parser misses nothing else of the grammar
\* and takes nothing beyond it (parser.rs:3-11, and 97-100 for the two atoms).
ParseExact == ~LexFails => (Parsed # {} <=> InGrammar(Lex) /\ ~Chained(Lex))

\* What is handed on is a spec of the shape the scheduler relies on.
ParsedIsSpec == \A node \in Parsed : IsSpec(Reads(node))

=============================================================================

-------------------------- MODULE Scheduler_proofs --------------------------
(***************************************************************************)
(* The safety of the scheduler for every cluster, every set of clients and *)
(* every number of concurrent handlers.                                    *)
(*                                                                         *)
(* First what the solver's answers are worth, for every graph and health.  *)
(* Then "Inductive": it holds initially and every action preserves it, one *)
(* lemma per action, with a step for each conjunct the action can disturb. *)
(* Last the clients that schedule a job once per life: they see the        *)
(* scheduler as a pool of GPUs, its two tables and two locks implement     *)
(* GpuPool.                                                                *)
(***************************************************************************)
EXTENDS Scheduler, FunctionTheorems, FiniteSetTheorems, SequenceTheorems, TLAPS

-----------------------------------------------------------------------------
(* The solver                                                              *)

\* A simple path of n GPUs covers n GPUs (graph.rs:251, 262).
LEMMA PathCovers ==
    ASSUME NEW ok, NEW size \in Nat, NEW max_hops,
           NEW p \in IbPaths(ok, size, max_hops)
    PROVE  GpusOf(p, size) \subseteq ok /\ Cardinality(GpusOf(p, size)) = size
<1> DEFINE S == GpusOf(p, size)
<1>1. p \in [1..size -> ok] /\ \A i, j \in 1..size : i # j => p[i] # p[j]
    BY DEF IbPaths
<1>2. p \in Bijection(1..size, S)
    BY <1>1 DEF GpusOf, Bijection, Injection, Surjection, IsInjective
<1>3. IsFiniteSet(1..size) /\ Cardinality(1..size) = size
    BY FS_Interval
<1>4. Cardinality(S) = size
    BY <1>2, <1>3, FS_Bijection DEF ExistsBijection
<1> QED
    BY <1>1, <1>4 DEF GpusOf

\* solve_atom returns a group of healthy GPUs of the degree and wiring the
\* atom asks for, or nothing (solver.rs:98-162).
LEMMA SolveAtomFits ==
    ASSUME NEW ok, NEW atom \in Atom, NEW S \in SolveAtom(atom, ok)
    PROVE  GroupFits(atom, S, ok)
<1>1. atom.degree \in Nat /\ atom.dim \in {"TP", "PP", "DP"}
    BY DEF Atom, ParallelDim
<1>2. CASE atom.dim = "TP"
    <2>1. S \in Cliques(ok, atom.degree, MinBandwidth(atom))
        BY <1>2 DEF SolveAtom, FindNvlinkClique
    <2> QED
        BY <1>2, <2>1 DEF GroupFits, Cliques
<1>3. CASE atom.dim = "PP"
    <2>1. PICK p \in IbPaths(ok, atom.degree, MaxHops(atom)) :
                S = GpusOf(p, atom.degree)
        BY <1>3 DEF SolveAtom, FindIbPath
    <2>2. S \subseteq ok /\ Cardinality(S) = atom.degree
        BY <1>1, <2>1, PathCovers
    <2> QED
        BY <1>3, <2>1, <2>2 DEF GroupFits
<1>4. CASE atom.dim = "DP"
    BY <1>4 DEF SolveAtom, FirstByName, GroupFits
<1> QED
    BY <1>1, <1>2, <1>3, <1>4

\* Two groups without a common GPU make a placement of a conjunction
\* (solver.rs:165-189).
LEMMA ArmsFit ==
    ASSUME NEW oks, NEW conj, Len(conj) = 2, Len(oks) = 2, NEW L, NEW R, L \cap R = {},
           GroupFits(conj[1], L, oks[1]), GroupFits(conj[2], R, oks[2])
    PROVE  AlternativeFits(conj, L \cup R, oks)
<1>1. L \in SUBSET (L \cup R) /\ (L \cup R) \ L = R
    OBVIOUS
<1> QED
    BY <1>1 DEF AlternativeFits

\* Healths recorded arm by arm.
LEMMA SeenGrows ==
    ASSUME NEW H, NEW oks \in Seq(H), NEW ok \in H
    PROVE  /\ Append(oks, ok) \in Seq(H)
           /\ oks = << >> => Len(Append(oks, ok)) = 1 /\ Append(oks, ok)[1] = ok
           /\ Len(oks) = 1 => /\ Len(Append(oks, ok)) = 2
                              /\ Append(oks, ok)[1] = oks[1] /\ Append(oks, ok)[2] = ok
<1>1. /\ Append(oks, ok) \in Seq(H) /\ Len(Append(oks, ok)) = Len(oks) + 1
      /\ Append(oks, ok)[Len(oks) + 1] = ok
    BY AppendProperties
<1>2. oks = << >> => Len(oks) = 0
    OBVIOUS
<1>3. Len(oks) = 1 => Append(oks, ok)[1] = oks[1]
    BY AppendProperties
<1>4. ASSUME Len(oks) = 0 PROVE Len(Append(oks, ok)) = 1 /\ Append(oks, ok)[1] = ok
    BY <1>1, <1>4
<1>5. ASSUME Len(oks) = 1 PROVE Len(Append(oks, ok)) = 2 /\ Append(oks, ok)[2] = ok
    BY <1>1, <1>5
<1> QED
    BY <1>1, <1>2, <1>3, <1>4, <1>5

-----------------------------------------------------------------------------
(* The scheduler                                                           *)

\* The parts of a spec a client may ask for (parser.rs:82-110).
LEMMA SpecShape ==
    ASSUME NEW s \in Spec0
    PROVE  /\ Len(s) \in Nat \ {0}
           /\ \A i \in 1..Len(s) : /\ Len(s[i]) \in {1, 2}
                                   /\ \A k \in 1..Len(s[i]) : s[i][k] \in Atom
<1>1. s \in Seq(Seq(Atom)) /\ Len(s) > 0 /\ \A i \in 1..Len(s) : Len(s[i]) \in {1, 2}
    BY SpecAssumption DEF IsSpec
<1>2. ASSUME NEW i \in 1..Len(s), NEW k \in 1..Len(s[i]) PROVE s[i][k] \in Atom
    <2>1. s[i] \in Seq(Atom)
        BY <1>1
    <2> QED
        BY <2>1
<1> QED
    BY <1>1, <1>2

\* An alternative has a first atom.
LEMMA FirstArm == \A n \in {1, 2} : 1 \in 1..n
    OBVIOUS

\* What the solver finds for the atom it is at fits that atom now.
LEMMA OptionsFit ==
    ASSUME Inductive, NEW c \in Call, pc[c] = "solve", NEW S \in Options(c)
    PROVE  /\ S \subseteq healthy /\ S \subseteq Gpu
           /\ GroupFits(spec[c][alt[c]][arm[c]], S, healthy)
<1> DEFINE atom == spec[c][alt[c]][arm[c]]
<1>1. /\ spec[c] \in Spec0 /\ alt[c] \in 1..Len(spec[c])
      /\ arm[c] \in 1..Len(spec[c][alt[c]]) /\ healthy \subseteq Gpu
    BY DEF Inductive, TypeOK, AskedKept, SolverAt, InSchedule
<1>2. atom \in Atom
    BY <1>1, SpecShape
<1>3. GroupFits(atom, S, healthy)
    BY <1>2, SolveAtomFits DEF Options
<1> QED
    BY <1>1, <1>3 DEF GroupFits

\* What the solver has seen is a record of its own: losing a GPU changes no
\* placement that was made.
LEMMA MarkUnhealthyStep ==
    ASSUME Inductive, NEW g \in Gpu, MarkUnhealthy(g)
    PROVE  Inductive'
<1> USE DEF Inductive, MarkUnhealthy, Goto, UnlockBoth, tables, locks, asked, cursor,
            InSchedule, InRelease, Answered, HoldsReserved
<1>1. TypeOK'
    BY NoneAssumption DEF TypeOK, AskedKept
<1>2. SolverAt'
    BY NoneAssumption DEF TypeOK, AskedKept, SolverAt
<1>3. (LockOwned /\ AskedKept /\ MidTransaction /\ NoDoubleGrant /\ GrantsReserved /\ PlacementFits)'
    BY DEF LockOwned, AskedKept, MidTransaction, NoDoubleGrant, GrantsReserved, PlacementFits
<1> QED
    BY <1>1, <1>2, <1>3

\* A request is type-checked before any lock (service.rs:103-113).
LEMMA ScheduleCallStep ==
    ASSUME Inductive, NEW c \in Call, NEW j \in Job, NEW s \in Spec0, ScheduleCall(c, j, s)
    PROVE  Inductive'
<1> USE DEF Inductive, ScheduleCall, Goto, UnlockBoth, tables, locks, asked, cursor,
            InSchedule, InRelease, Answered, HoldsReserved
<1>1. TypeOK'
    BY NoneAssumption DEF TypeOK, AskedKept
<1>2. LockOwned'
    BY NoneAssumption DEF TypeOK, LockOwned
<1>3. AskedKept'
    BY NoneAssumption DEF TypeOK, AskedKept
<1>4. SolverAt'
    BY NoneAssumption DEF TypeOK, AskedKept, SolverAt
<1>5. MidTransaction'
    BY NoneAssumption DEF TypeOK, LockOwned, AskedKept, MidTransaction, NoDoubleGrant, GrantsReserved
<1>6. PlacementFits'
    BY NoneAssumption DEF TypeOK, AskedKept, PlacementFits
<1>7. (NoDoubleGrant /\ GrantsReserved)'
    BY DEF NoDoubleGrant, GrantsReserved
<1> QED
    BY <1>1, <1>2, <1>3, <1>4, <1>5, <1>6, <1>7

\* service.rs:117
LEMMA LockReservedStep ==
    ASSUME Inductive, NEW c \in Call, LockReserved(c)
    PROVE  Inductive'
<1> USE DEF Inductive, LockReserved, Goto, UnlockBoth, tables, locks, asked, cursor,
            InSchedule, InRelease, Answered, HoldsReserved
<1>1. TypeOK'
    BY NoneAssumption DEF TypeOK, AskedKept
<1>2. LockOwned'
    BY NoneAssumption DEF TypeOK, LockOwned
<1>3. AskedKept'
    BY NoneAssumption DEF TypeOK, AskedKept
<1>4. SolverAt'
    BY NoneAssumption DEF TypeOK, AskedKept, SolverAt
<1>5. MidTransaction'
    BY NoneAssumption DEF TypeOK, LockOwned, AskedKept, MidTransaction, NoDoubleGrant, GrantsReserved
<1>6. PlacementFits'
    BY NoneAssumption DEF TypeOK, AskedKept, PlacementFits
<1>7. (NoDoubleGrant /\ GrantsReserved)'
    BY DEF NoDoubleGrant, GrantsReserved
<1> QED
    BY <1>1, <1>2, <1>3, <1>4, <1>5, <1>6, <1>7

\* service.rs:118
LEMMA LockJobsStep ==
    ASSUME Inductive, NEW c \in Call, LockJobs(c)
    PROVE  Inductive'
<1> USE DEF Inductive, LockJobs, Goto, UnlockBoth, tables, locks, asked, cursor,
            InSchedule, InRelease, Answered, HoldsReserved
<1>1. TypeOK'
    BY NoneAssumption DEF TypeOK, AskedKept
<1>2. LockOwned'
    BY NoneAssumption DEF TypeOK, LockOwned
<1>3. AskedKept'
    BY NoneAssumption DEF TypeOK, AskedKept
<1>4. SolverAt'
    <2> SUFFICES ASSUME NEW d \in Call, pc'[d] = "solve"
                 PROVE  /\ alt'[d] \in 1..Len(spec'[d])
                        /\ arm'[d] \in 1..Len(spec'[d][alt'[d]])
                        /\ IF arm'[d] = 1 THEN ids'[d] = {} /\ seen'[d] = << >>
                           ELSE /\ Len(seen'[d]) = 1
                                /\ GroupFits(spec'[d][alt'[d]][1], ids'[d], seen'[d][1])
        BY DEF SolverAt
    <2>1. CASE d = c
        <3>1. spec[c] \in Spec0 /\ alt[c] = 1 /\ arm[c] = 1 /\ ids[c] = {} /\ seen[c] = << >>
            BY DEF AskedKept, MidTransaction
        <3>2. /\ Len(spec[c]) \in Nat \ {0}
              /\ \A i \in 1..Len(spec[c]) : Len(spec[c][i]) \in {1, 2}
            BY <3>1, SpecShape
        <3>3. 1 \in 1..Len(spec[c])
            BY <3>2
        <3>4. Len(spec[c][1]) \in {1, 2}
            BY <3>2, <3>3
        <3>5. 1 \in 1..Len(spec[c][1])
            BY <3>4, FirstArm
        <3> QED
            BY <2>1, <3>1, <3>3, <3>5
    <2>2. CASE d # c
        BY <2>2 DEF TypeOK, SolverAt
    <2> QED
        BY <2>1, <2>2
<1>5. MidTransaction'
    BY NoneAssumption DEF TypeOK, LockOwned, AskedKept, MidTransaction, NoDoubleGrant, GrantsReserved
<1>6. PlacementFits'
    BY NoneAssumption DEF TypeOK, AskedKept, PlacementFits
<1>7. (NoDoubleGrant /\ GrantsReserved)'
    BY DEF NoDoubleGrant, GrantsReserved
<1> QED
    BY <1>1, <1>2, <1>3, <1>4, <1>5, <1>6, <1>7

\* solver.rs:166-169
LEMMA PlaceLeftStep ==
    ASSUME Inductive, NEW c \in Call, PlaceLeft(c)
    PROVE  Inductive'
<1> USE DEF Inductive, PlaceLeft, Goto, UnlockBoth, tables, locks, asked, cursor,
            InSchedule, InRelease, Answered, HoldsReserved
<1>1. TypeOK'
    BY OptionsFit DEF TypeOK
<1>2. AskedKept'
    BY NoneAssumption DEF TypeOK, AskedKept
<1>3. SolverAt'
    <2> SUFFICES ASSUME NEW d \in Call, pc'[d] = "solve"
                 PROVE  /\ alt'[d] \in 1..Len(spec'[d])
                        /\ arm'[d] \in 1..Len(spec'[d][alt'[d]])
                        /\ IF arm'[d] = 1 THEN ids'[d] = {} /\ seen'[d] = << >>
                           ELSE /\ Len(seen'[d]) = 1
                                /\ GroupFits(spec'[d][alt'[d]][1], ids'[d], seen'[d][1])
        BY DEF SolverAt
    <2>1. CASE d = c
        <3>1. /\ spec[c] \in Spec0 /\ alt[c] \in 1..Len(spec[c])
              /\ arm[c] \in 1..Len(spec[c][alt[c]])
            BY DEF AskedKept, SolverAt
        <3>2. arm[c] = 1 /\ Len(spec[c][alt[c]]) = 2
            <4>1. PICK n \in {1, 2} : n = Len(spec[c][alt[c]])
                BY <3>1, SpecShape
            <4>2. arm[c] \in 1..n /\ arm[c] < n
                BY <3>1, <4>1
            <4>3. n # 1
                <5> SUFFICES ASSUME n = 1 PROVE FALSE
                    OBVIOUS
                <5>1. arm[c] \in 1..1 /\ arm[c] < 1
                    BY <4>2
                <5> QED
                    BY ONLY <5>1
            <4>4. n = 2
                BY <4>3
            <4>5. arm[c] \in 1..2 /\ arm[c] < 2
                BY <4>2, <4>4
            <4> QED
                BY ONLY <4>1, <4>4, <4>5
        <3>3. arm'[c] = 2 /\ ids'[c] \in Options(c)
            BY DEF TypeOK
        <3>4. GroupFits(spec[c][alt[c]][1], ids'[c], healthy)
            BY <3>2, <3>3, OptionsFit
        <3>5. seen'[c] = <<healthy>>
            BY DEF TypeOK
        <3>6. Len(seen'[c]) = 1 /\ seen'[c][1] = healthy
            BY <3>5
        <3> QED
            BY <2>1, <3>1, <3>2, <3>3, <3>4, <3>6
    <2>2. CASE d # c
        BY <2>2 DEF TypeOK, SolverAt
    <2> QED
        BY <2>1, <2>2
<1>4. MidTransaction'
    BY NoneAssumption DEF TypeOK, LockOwned, AskedKept, MidTransaction, NoDoubleGrant, GrantsReserved
<1>5. PlacementFits'
    BY NoneAssumption DEF TypeOK, AskedKept, PlacementFits
<1>6. (LockOwned /\ NoDoubleGrant /\ GrantsReserved)'
    BY DEF LockOwned, NoDoubleGrant, GrantsReserved
<1> QED
    BY <1>1, <1>2, <1>3, <1>4, <1>5, <1>6

\* solver.rs:170-188; what fits has no GPU in two groups.
LEMMA PlaceLastStep ==
    ASSUME Inductive, NEW c \in Call, PlaceLast(c)
    PROVE  Inductive'
<1> USE DEF Inductive, PlaceLast, Goto, UnlockBoth, tables, locks, asked, cursor,
            InSchedule, InRelease, Answered, HoldsReserved
<1>1. TypeOK'
    BY OptionsFit DEF TypeOK
<1>2. LockOwned'
    BY NoneAssumption DEF TypeOK, LockOwned
<1>3. AskedKept'
    BY NoneAssumption DEF TypeOK, AskedKept
<1>4. SolverAt'
    BY NoneAssumption DEF TypeOK, AskedKept, SolverAt
<1>5. MidTransaction'
    BY NoneAssumption DEF TypeOK, LockOwned, AskedKept, MidTransaction, NoDoubleGrant, GrantsReserved
<1>6. PlacementFits'
    <2>1. PICK S \in Options(c) : S \cap ids[c] = {} /\ ids' = [ids EXCEPT ![c] = @ \cup S]
        OBVIOUS
    <2>2. /\ spec[c] \in Spec0 /\ alt[c] \in 1..Len(spec[c])
          /\ arm[c] = Len(spec[c][alt[c]]) /\ arm[c] \in {1, 2}
        BY SpecShape DEF AskedKept, SolverAt
    <2>3. GroupFits(spec[c][alt[c]][arm[c]], S, healthy)
        BY <2>1, OptionsFit
    <2>4. AlternativeFits(spec[c][alt[c]], ids[c] \cup S, Append(seen[c], healthy))
        <3> DEFINE oks == Append(seen[c], healthy)
        <3>0. seen[c] \in Seq(SUBSET Gpu) /\ healthy \in SUBSET Gpu
            BY DEF TypeOK
        <3>1. CASE arm[c] = 1
            <4>1. ids[c] \cup S = S /\ seen[c] = << >>
                BY <3>1 DEF SolverAt
            <4>2. Len(oks) = 1 /\ oks[1] = healthy
                BY <3>0, <4>1, SeenGrows
            <4> QED
                BY <2>2, <2>3, <3>1, <4>1, <4>2 DEF AlternativeFits
        <3>2. CASE arm[c] = 2
            <4>1. Len(seen[c]) = 1 /\ GroupFits(spec[c][alt[c]][1], ids[c], seen[c][1])
                BY <3>2 DEF SolverAt
            <4>2. Len(oks) = 2 /\ oks[1] = seen[c][1] /\ oks[2] = healthy
                BY <3>0, <4>1, SeenGrows
            <4>3. Len(spec[c][alt[c]]) = 2 /\ ids[c] \cap S = {}
                BY <2>1, <2>2, <3>2
            <4>4. GroupFits(spec[c][alt[c]][2], S, oks[2])
                BY <2>3, <3>2, <4>2
            <4>5. GroupFits(spec[c][alt[c]][1], ids[c], oks[1])
                BY <4>1, <4>2
            <4> QED
                BY <4>2, <4>3, <4>4, <4>5, ArmsFit
        <3> QED
            BY <2>2, <3>1, <3>2
    <2>5. ids'[c] = ids[c] \cup S /\ seen'[c] = Append(seen[c], healthy)
        BY <2>1 DEF TypeOK
    <2>6. ASSUME NEW d \in Call, pc'[d] \in {"check", "insert", "record", "granted"}
          PROVE  \E i \in 1..Len(spec'[d]) :
                    AlternativeFits(spec'[d][i], ids'[d], seen'[d])
        <3>1. CASE d = c
            BY <2>2, <2>4, <2>5, <3>1
        <3>2. CASE d # c
            BY <2>1, <2>6, <3>2 DEF TypeOK, PlacementFits
        <3> QED
            BY <3>1, <3>2
    <2> QED
        BY <2>6 DEF PlacementFits
<1>7. (NoDoubleGrant /\ GrantsReserved)'
    BY DEF NoDoubleGrant, GrantsReserved
<1> QED
    BY <1>1, <1>2, <1>3, <1>4, <1>5, <1>6, <1>7

\* solver.rs:197-203
LEMMA TryNextStep ==
    ASSUME Inductive, NEW c \in Call, TryNext(c)
    PROVE  Inductive'
<1> USE DEF Inductive, TryNext, Goto, UnlockBoth, tables, locks, asked, cursor,
            InSchedule, InRelease, Answered, HoldsReserved
<1>1. TypeOK'
    BY NoneAssumption DEF TypeOK, AskedKept
<1>2. AskedKept'
    BY NoneAssumption DEF TypeOK, AskedKept
<1>3. SolverAt'
    <2> SUFFICES ASSUME NEW d \in Call, pc'[d] = "solve"
                 PROVE  /\ alt'[d] \in 1..Len(spec'[d])
                        /\ arm'[d] \in 1..Len(spec'[d][alt'[d]])
                        /\ IF arm'[d] = 1 THEN ids'[d] = {} /\ seen'[d] = << >>
                           ELSE /\ Len(seen'[d]) = 1
                                /\ GroupFits(spec'[d][alt'[d]][1], ids'[d], seen'[d][1])
        BY DEF SolverAt
    <2>1. CASE d = c
        <3>1. spec[c] \in Spec0 /\ alt[c] \in 1..Len(spec[c])
            BY DEF AskedKept, SolverAt
        <3>2. alt'[c] = alt[c] + 1 /\ arm'[c] = 1 /\ ids'[c] = {} /\ seen'[c] = << >>
            BY DEF TypeOK
        <3>3. /\ Len(spec[c]) \in Nat \ {0} /\ alt[c] < Len(spec[c])
              /\ \A i \in 1..Len(spec[c]) : Len(spec[c][i]) \in {1, 2}
            BY <3>1, SpecShape
        <3>4. alt'[c] \in 1..Len(spec[c])
            BY <3>1, <3>2, <3>3
        <3>5. Len(spec[c][alt'[c]]) \in {1, 2}
            BY <3>3, <3>4
        <3>6. 1 \in 1..Len(spec[c][alt'[c]])
            BY <3>5, FirstArm
        <3> QED
            BY <2>1, <3>1, <3>2, <3>4, <3>6
    <2>2. CASE d # c
        BY <2>2 DEF TypeOK, SolverAt
    <2> QED
        BY <2>1, <2>2
<1>4. MidTransaction'
    BY NoneAssumption DEF TypeOK, LockOwned, AskedKept, MidTransaction, NoDoubleGrant, GrantsReserved
<1>5. PlacementFits'
    BY NoneAssumption DEF TypeOK, AskedKept, PlacementFits
<1>6. (LockOwned /\ NoDoubleGrant /\ GrantsReserved)'
    BY DEF LockOwned, NoDoubleGrant, GrantsReserved
<1> QED
    BY <1>1, <1>2, <1>3, <1>4, <1>5, <1>6

\* solver.rs:204-207
LEMMA RejectUnplaceableStep ==
    ASSUME Inductive, NEW c \in Call, RejectUnplaceable(c)
    PROVE  Inductive'
<1> USE DEF Inductive, RejectUnplaceable, Goto, UnlockBoth, tables, locks, asked, cursor,
            InSchedule, InRelease, Answered, HoldsReserved
<1>1. TypeOK'
    BY NoneAssumption DEF TypeOK, AskedKept
<1>2. LockOwned'
    BY NoneAssumption DEF TypeOK, LockOwned
<1>3. AskedKept'
    BY NoneAssumption DEF TypeOK, AskedKept
<1>4. SolverAt'
    BY NoneAssumption DEF TypeOK, AskedKept, SolverAt
<1>5. MidTransaction'
    BY NoneAssumption DEF TypeOK, LockOwned, AskedKept, MidTransaction, NoDoubleGrant, GrantsReserved
<1>6. PlacementFits'
    BY NoneAssumption DEF TypeOK, AskedKept, PlacementFits
<1>7. (NoDoubleGrant /\ GrantsReserved)'
    BY DEF NoDoubleGrant, GrantsReserved
<1> QED
    BY <1>1, <1>2, <1>3, <1>4, <1>5, <1>6, <1>7

\* service.rs:124; from here the placement is clear of all reservations.
LEMMA CheckConflictStep ==
    ASSUME Inductive, NEW c \in Call, CheckConflict(c)
    PROVE  Inductive'
<1> USE DEF Inductive, CheckConflict, Goto, UnlockBoth, tables, locks, asked, cursor,
            InSchedule, InRelease, Answered, HoldsReserved
<1>1. TypeOK'
    BY NoneAssumption DEF TypeOK, AskedKept
<1>2. LockOwned'
    BY NoneAssumption DEF TypeOK, LockOwned
<1>3. AskedKept'
    BY NoneAssumption DEF TypeOK, AskedKept
<1>4. SolverAt'
    BY NoneAssumption DEF TypeOK, AskedKept, SolverAt
<1>5. MidTransaction'
    BY NoneAssumption DEF TypeOK, LockOwned, AskedKept, MidTransaction, NoDoubleGrant, GrantsReserved
<1>6. PlacementFits'
    BY NoneAssumption DEF TypeOK, AskedKept, PlacementFits
<1>7. (NoDoubleGrant /\ GrantsReserved)'
    BY DEF NoDoubleGrant, GrantsReserved
<1> QED
    BY <1>1, <1>2, <1>3, <1>4, <1>5, <1>6, <1>7

\* service.rs:125-130
LEMMA RejectReservedStep ==
    ASSUME Inductive, NEW c \in Call, RejectReserved(c)
    PROVE  Inductive'
<1> USE DEF Inductive, RejectReserved, Goto, UnlockBoth, tables, locks, asked, cursor,
            InSchedule, InRelease, Answered, HoldsReserved
<1>1. TypeOK'
    BY NoneAssumption DEF TypeOK, AskedKept
<1>2. LockOwned'
    BY NoneAssumption DEF TypeOK, LockOwned
<1>3. AskedKept'
    BY NoneAssumption DEF TypeOK, AskedKept
<1>4. SolverAt'
    BY NoneAssumption DEF TypeOK, AskedKept, SolverAt
<1>5. MidTransaction'
    BY NoneAssumption DEF TypeOK, LockOwned, AskedKept, MidTransaction, NoDoubleGrant, GrantsReserved
<1>6. PlacementFits'
    BY NoneAssumption DEF TypeOK, AskedKept, PlacementFits
<1>7. (NoDoubleGrant /\ GrantsReserved)'
    BY DEF NoDoubleGrant, GrantsReserved
<1> QED
    BY <1>1, <1>2, <1>3, <1>4, <1>5, <1>6, <1>7

\* service.rs:132-134; no other handler holds the lock, and no grant owns these GPUs.
LEMMA InsertReservedStep ==
    ASSUME Inductive, NEW c \in Call, InsertReserved(c)
    PROVE  Inductive'
<1> USE DEF Inductive, InsertReserved, Goto, UnlockBoth, tables, locks, asked, cursor,
            InSchedule, InRelease, Answered, HoldsReserved
<1>1. TypeOK'
    BY NoneAssumption DEF TypeOK, AskedKept
<1>2. LockOwned'
    BY NoneAssumption DEF TypeOK, LockOwned
<1>3. AskedKept'
    BY NoneAssumption DEF TypeOK, AskedKept
<1>4. SolverAt'
    BY NoneAssumption DEF TypeOK, AskedKept, SolverAt
<1>5. MidTransaction'
    BY NoneAssumption DEF TypeOK, LockOwned, AskedKept, MidTransaction, NoDoubleGrant, GrantsReserved
<1>6. NoDoubleGrant'
    BY NoneAssumption DEF TypeOK, AskedKept, MidTransaction, NoDoubleGrant
<1>7. GrantsReserved'
    BY NoneAssumption DEF TypeOK, AskedKept, MidTransaction, NoDoubleGrant, GrantsReserved
<1>8. PlacementFits'
    BY NoneAssumption DEF TypeOK, AskedKept, PlacementFits
<1> QED
    BY <1>1, <1>2, <1>3, <1>4, <1>5, <1>6, <1>7, <1>8

\* service.rs:136; the placement joins what the job holds.
LEMMA RecordJobStep ==
    ASSUME Inductive, NEW c \in Call, RecordJob(c)
    PROVE  Inductive'
<1> USE DEF Inductive, RecordJob, Goto, UnlockBoth, tables, locks, asked, cursor,
            InSchedule, InRelease, Answered, HoldsReserved
<1>1. TypeOK'
    BY NoneAssumption DEF TypeOK, AskedKept
<1>2. LockOwned'
    BY NoneAssumption DEF TypeOK, LockOwned
<1>3. AskedKept'
    BY NoneAssumption DEF TypeOK, AskedKept
<1>4. SolverAt'
    BY NoneAssumption DEF TypeOK, AskedKept, SolverAt
<1>5. MidTransaction'
    BY NoneAssumption DEF TypeOK, LockOwned, AskedKept, MidTransaction, NoDoubleGrant, GrantsReserved
<1>6. NoDoubleGrant'
    BY NoneAssumption DEF TypeOK, AskedKept, MidTransaction, NoDoubleGrant
<1>7. GrantsReserved'
    BY NoneAssumption DEF TypeOK, AskedKept, MidTransaction, NoDoubleGrant, GrantsReserved
<1>8. PlacementFits'
    BY NoneAssumption DEF TypeOK, AskedKept, PlacementFits
<1> QED
    BY <1>1, <1>2, <1>3, <1>4, <1>5, <1>6, <1>7, <1>8

\* service.rs:156
LEMMA ReleaseCallStep ==
    ASSUME Inductive, NEW c \in Call, NEW j \in Job, ReleaseCall(c, j)
    PROVE  Inductive'
<1> USE DEF Inductive, ReleaseCall, Goto, UnlockBoth, tables, locks, asked, cursor,
            InSchedule, InRelease, Answered, HoldsReserved
<1>1. TypeOK'
    BY NoneAssumption DEF TypeOK, AskedKept
<1>2. LockOwned'
    BY NoneAssumption DEF TypeOK, LockOwned
<1>3. AskedKept'
    BY NoneAssumption DEF TypeOK, AskedKept
<1>4. SolverAt'
    BY NoneAssumption DEF TypeOK, AskedKept, SolverAt
<1>5. MidTransaction'
    BY NoneAssumption DEF TypeOK, LockOwned, AskedKept, MidTransaction, NoDoubleGrant, GrantsReserved
<1>6. PlacementFits'
    BY NoneAssumption DEF TypeOK, AskedKept, PlacementFits
<1>7. (NoDoubleGrant /\ GrantsReserved)'
    BY DEF NoDoubleGrant, GrantsReserved
<1> QED
    BY <1>1, <1>2, <1>3, <1>4, <1>5, <1>6, <1>7

\* service.rs:158
LEMMA ReleaseLockReservedStep ==
    ASSUME Inductive, NEW c \in Call, ReleaseLockReserved(c)
    PROVE  Inductive'
<1> USE DEF Inductive, ReleaseLockReserved, Goto, UnlockBoth, tables, locks, asked, cursor,
            InSchedule, InRelease, Answered, HoldsReserved
<1>1. TypeOK'
    BY NoneAssumption DEF TypeOK, AskedKept
<1>2. LockOwned'
    BY NoneAssumption DEF TypeOK, LockOwned
<1>3. AskedKept'
    BY NoneAssumption DEF TypeOK, AskedKept
<1>4. SolverAt'
    BY NoneAssumption DEF TypeOK, AskedKept, SolverAt
<1>5. MidTransaction'
    BY NoneAssumption DEF TypeOK, LockOwned, AskedKept, MidTransaction, NoDoubleGrant, GrantsReserved
<1>6. PlacementFits'
    BY NoneAssumption DEF TypeOK, AskedKept, PlacementFits
<1>7. (NoDoubleGrant /\ GrantsReserved)'
    BY DEF NoDoubleGrant, GrantsReserved
<1> QED
    BY <1>1, <1>2, <1>3, <1>4, <1>5, <1>6, <1>7

\* service.rs:159
LEMMA ReleaseLockJobsStep ==
    ASSUME Inductive, NEW c \in Call, ReleaseLockJobs(c)
    PROVE  Inductive'
<1> USE DEF Inductive, ReleaseLockJobs, Goto, UnlockBoth, tables, locks, asked, cursor,
            InSchedule, InRelease, Answered, HoldsReserved
<1>1. TypeOK'
    BY NoneAssumption DEF TypeOK, AskedKept
<1>2. LockOwned'
    BY NoneAssumption DEF TypeOK, LockOwned
<1>3. AskedKept'
    BY NoneAssumption DEF TypeOK, AskedKept
<1>4. SolverAt'
    BY NoneAssumption DEF TypeOK, AskedKept, SolverAt
<1>5. MidTransaction'
    BY NoneAssumption DEF TypeOK, LockOwned, AskedKept, MidTransaction, NoDoubleGrant, GrantsReserved
<1>6. PlacementFits'
    BY NoneAssumption DEF TypeOK, AskedKept, PlacementFits
<1>7. (NoDoubleGrant /\ GrantsReserved)'
    BY DEF NoDoubleGrant, GrantsReserved
<1> QED
    BY <1>1, <1>2, <1>3, <1>4, <1>5, <1>6, <1>7

\* service.rs:161; what the entry lists, its job was granted.
LEMMA TakeEntryStep ==
    ASSUME Inductive, NEW c \in Call, TakeEntry(c)
    PROVE  Inductive'
<1> USE DEF Inductive, TakeEntry, Goto, UnlockBoth, tables, locks, asked, cursor,
            InSchedule, InRelease, Answered, HoldsReserved
<1>1. TypeOK'
    BY NoneAssumption DEF TypeOK, AskedKept
<1>2. LockOwned'
    BY NoneAssumption DEF TypeOK, LockOwned
<1>3. AskedKept'
    BY NoneAssumption DEF TypeOK, AskedKept
<1>4. SolverAt'
    BY NoneAssumption DEF TypeOK, AskedKept, SolverAt
<1>5. MidTransaction'
    BY NoneAssumption DEF TypeOK, LockOwned, AskedKept, MidTransaction, NoDoubleGrant, GrantsReserved
<1>6. NoDoubleGrant'
    BY NoneAssumption DEF TypeOK, AskedKept, MidTransaction, NoDoubleGrant
<1>7. GrantsReserved'
    BY NoneAssumption DEF TypeOK, AskedKept, MidTransaction, NoDoubleGrant, GrantsReserved
<1>8. PlacementFits'
    BY NoneAssumption DEF TypeOK, AskedKept, PlacementFits
<1> QED
    BY <1>1, <1>2, <1>3, <1>4, <1>5, <1>6, <1>7, <1>8

\* service.rs:163-165; the GPUs freed are no other job's.
LEMMA FreeGpusStep ==
    ASSUME Inductive, NEW c \in Call, FreeGpus(c)
    PROVE  Inductive'
<1> USE DEF Inductive, FreeGpus, Goto, UnlockBoth, tables, locks, asked, cursor,
            InSchedule, InRelease, Answered, HoldsReserved
<1>1. TypeOK'
    BY NoneAssumption DEF TypeOK, AskedKept
<1>2. LockOwned'
    BY NoneAssumption DEF TypeOK, LockOwned
<1>3. AskedKept'
    BY NoneAssumption DEF TypeOK, AskedKept
<1>4. SolverAt'
    BY NoneAssumption DEF TypeOK, AskedKept, SolverAt
<1>5. MidTransaction'
    BY NoneAssumption DEF TypeOK, LockOwned, AskedKept, MidTransaction, NoDoubleGrant, GrantsReserved
<1>6. NoDoubleGrant'
    BY NoneAssumption DEF TypeOK, AskedKept, MidTransaction, NoDoubleGrant
<1>7. GrantsReserved'
    BY NoneAssumption DEF TypeOK, AskedKept, MidTransaction, NoDoubleGrant, GrantsReserved
<1>8. PlacementFits'
    BY NoneAssumption DEF TypeOK, AskedKept, PlacementFits
<1> QED
    BY <1>1, <1>2, <1>3, <1>4, <1>5, <1>6, <1>7, <1>8

\* The handler forgets the request.
LEMMA ReplyStep ==
    ASSUME Inductive, NEW c \in Call, Reply(c)
    PROVE  Inductive'
<1> USE DEF Inductive, Reply, Goto, UnlockBoth, tables, locks, asked, cursor,
            InSchedule, InRelease, Answered, HoldsReserved
<1>1. TypeOK'
    BY NoneAssumption DEF TypeOK, AskedKept
<1>2. LockOwned'
    BY NoneAssumption DEF TypeOK, LockOwned
<1>3. AskedKept'
    BY NoneAssumption DEF TypeOK, AskedKept
<1>4. SolverAt'
    BY NoneAssumption DEF TypeOK, AskedKept, SolverAt
<1>5. MidTransaction'
    BY NoneAssumption DEF TypeOK, LockOwned, AskedKept, MidTransaction, NoDoubleGrant, GrantsReserved
<1>6. PlacementFits'
    BY NoneAssumption DEF TypeOK, AskedKept, PlacementFits
<1>7. (NoDoubleGrant /\ GrantsReserved)'
    BY DEF NoDoubleGrant, GrantsReserved
<1> QED
    BY <1>1, <1>2, <1>3, <1>4, <1>5, <1>6, <1>7

-----------------------------------------------------------------------------
(* Safety, whatever the clients do                                         *)

LEMMA InductiveInit == Init => Inductive
<1> SUFFICES ASSUME Init PROVE Inductive
    OBVIOUS
<1> USE DEF Init
<1>1. TypeOK
    BY DEF TypeOK
<1>2. LockOwned /\ AskedKept /\ SolverAt /\ MidTransaction
    BY DEF LockOwned, AskedKept, SolverAt, MidTransaction, InSchedule, InRelease,
           HoldsReserved
<1>3. NoDoubleGrant /\ GrantsReserved /\ PlacementFits
    BY DEF NoDoubleGrant, GrantsReserved, PlacementFits
<1> QED
    BY <1>1, <1>2, <1>3 DEF Inductive

LEMMA InductiveNext == Inductive /\ [Next]_vars => Inductive'
<1> SUFFICES ASSUME Inductive, [Next]_vars PROVE Inductive'
    OBVIOUS
<1>1. ASSUME NEW g \in Gpu, MarkUnhealthy(g) PROVE Inductive'
    BY <1>1, MarkUnhealthyStep
<1>2. ASSUME NEW c \in Call, NEW j \in Job, NEW s \in Spec0, ScheduleCall(c, j, s)
      PROVE  Inductive'
    BY <1>2, ScheduleCallStep
<1>3. ASSUME NEW c \in Call, NEW j \in Job, ReleaseCall(c, j) PROVE Inductive'
    BY <1>3, ReleaseCallStep
<1>4. ASSUME NEW c \in Call, AcquireLock(c) PROVE Inductive'
    BY <1>4, LockReservedStep, LockJobsStep, ReleaseLockReservedStep,
       ReleaseLockJobsStep DEF AcquireLock
<1>5. ASSUME NEW c \in Call, Proceed(c) PROVE Inductive'
    BY <1>5, PlaceLeftStep, PlaceLastStep, TryNextStep, RejectUnplaceableStep,
       CheckConflictStep, RejectReservedStep, InsertReservedStep, RecordJobStep,
       TakeEntryStep, FreeGpusStep, ReplyStep DEF Proceed
<1>6. ASSUME UNCHANGED vars PROVE Inductive'
    BY <1>6 DEF vars, tables, locks, asked, cursor, Inductive, TypeOK, LockOwned,
       AskedKept, SolverAt, MidTransaction, NoDoubleGrant, GrantsReserved, PlacementFits
<1> QED
    BY <1>1, <1>2, <1>3, <1>4, <1>5, <1>6 DEF Next, Serve

\* The invariant holds in every behaviour of the scheduler.
THEOREM SchedulerInductive == Spec => []Inductive
    BY InductiveInit, InductiveNext, PTL DEF Spec

\* Every variable keeps its type, and no GPU is granted to two schedules.
THEOREM SchedulerSafe == Spec => [](TypeOK /\ NoDoubleGrant)
<1>1. Inductive => TypeOK /\ NoDoubleGrant
    BY DEF Inductive
<1> QED
    BY <1>1, SchedulerInductive, PTL

\* What a schedule grants is in the reserved set, as its own transaction or
\* another one left it.
THEOREM SchedulerGrantsReserved == Spec => []GrantsReserved
<1>1. Inductive => GrantsReserved
    BY DEF Inductive
<1> QED
    BY <1>1, SchedulerInductive, PTL

\* In a placement made of several reads of a changing graph, the group of each
\* atom fits the health that atom was solved on.
THEOREM SchedulerPlacementFits == Spec => []PlacementFits
<1>1. Inductive => PlacementFits
    BY DEF Inductive
<1> QED
    BY <1>1, SchedulerInductive, PTL

\* No release, repeated or late, frees a GPU of another job.
THEOREM SchedulerFreesOwn == Spec => OnlyOwnerFrees
<1> DEFINE Step == \A g \in reserved \ reserved' :
                      \E c \in Call : pc[c] = "rel_free" /\ g \in held[job[c]]
<1>1. ASSUME Inductive, [Next]_vars PROVE Step \/ UNCHANGED vars
    <2>1. ASSUME NEW c \in Call, FreeGpus(c) PROVE Step
        BY <1>1, <2>1 DEF FreeGpus, Inductive, MidTransaction
    <2>2. ASSUME NEW c \in Call, InsertReserved(c) PROVE Step
        BY <2>2 DEF InsertReserved
    <2>3. ASSUME UNCHANGED reserved PROVE Step
        BY <2>3
    <2> QED
        BY <1>1, <2>1, <2>2, <2>3
        DEF Next, Serve, AcquireLock, Proceed, MarkUnhealthy, ScheduleCall, LockReserved,
            LockJobs, PlaceLeft, PlaceLast, TryNext, RejectUnplaceable, CheckConflict,
            RejectReserved, RecordJob, ReleaseCall, ReleaseLockReserved, ReleaseLockJobs,
            TakeEntry, Reply, tables
<1>2. Inductive /\ [Next]_vars => [Step]_vars
    BY <1>1
<1> QED
    BY <1>2, SchedulerInductive, PTL DEF Spec, OnlyOwnerFrees

-----------------------------------------------------------------------------
(* Jobs scheduled once per life                                            *)

LEMMA OnceIsNext == [NextOnce]_vars => [Next]_vars
    BY DEF NextOnce, Next

LEMMA InductiveOnceInit == Init => InductiveOnce
    BY DEF Init, InductiveOnce, SchedulesApart, SchedulesFresh, HeldIsEntry, ReservedIsHeld,
           InSchedule

-----------------------------------------------------------------------------
(* Each action keeps what the discipline of the clients adds.              *)

\* The new request is for a job that holds nothing and has no other schedule.
LEMMA ScheduleCallOnce ==
    ASSUME Inductive, InductiveOnce, NEW c \in Call, NEW j \in Job, NEW s \in Spec0,
           MayScheduleOnce(j), ScheduleCall(c, j, s)
    PROVE  InductiveOnce'
<1> USE DEF Inductive, InductiveOnce, TypeOK, ScheduleCall, Goto, UnlockBoth, tables, locks,
            asked, cursor, InSchedule, InRelease, Answered, HoldsReserved
<1>1. SchedulesApart' /\ SchedulesFresh'
    BY DEF SchedulesApart, SchedulesFresh, AskedKept, LockOwned, MayScheduleOnce
<1>2. HeldIsEntry'
    <2>1. UNCHANGED <<held, job_reservations, ids>>
        OBVIOUS
    <2>2. \A d \in Call : pc'[d] = "rel_free" <=> pc[d] = "rel_free"
        OBVIOUS
    <2>3. \A d \in Call : pc[d] = "rel_free" => job'[d] = job[d]
        OBVIOUS
    <2> QED
        BY ONLY HeldIsEntry, <2>1, <2>2, <2>3 DEF HeldIsEntry
<1>3. ReservedIsHeld'
    BY DEF ReservedIsHeld, AskedKept, LockOwned, MidTransaction, HeldIsEntry
<1> QED
    BY <1>1, <1>2, <1>3

\* LockReserved touches no table.
LEMMA LockReservedOnce ==
    ASSUME Inductive, InductiveOnce, NEW c \in Call,
           LockReserved(c)
    PROVE  InductiveOnce'
<1> USE DEF Inductive, InductiveOnce, TypeOK, LockReserved, Goto, UnlockBoth, tables, locks,
            asked, cursor, InSchedule, InRelease, Answered, HoldsReserved
<1>1. SchedulesApart' /\ SchedulesFresh'
    BY DEF SchedulesApart, SchedulesFresh, AskedKept, LockOwned
<1>2. HeldIsEntry'
    BY DEF HeldIsEntry, AskedKept, LockOwned, MidTransaction, SchedulesFresh
<1>3. ReservedIsHeld'
    BY DEF ReservedIsHeld, AskedKept, LockOwned, MidTransaction, HeldIsEntry
<1> QED
    BY <1>1, <1>2, <1>3

\* LockJobs touches no table.
LEMMA LockJobsOnce ==
    ASSUME Inductive, InductiveOnce, NEW c \in Call,
           LockJobs(c)
    PROVE  InductiveOnce'
<1> USE DEF Inductive, InductiveOnce, TypeOK, LockJobs, Goto, UnlockBoth, tables, locks,
            asked, cursor, InSchedule, InRelease, Answered, HoldsReserved
<1>1. SchedulesApart' /\ SchedulesFresh'
    BY DEF SchedulesApart, SchedulesFresh, AskedKept, LockOwned
<1>2. HeldIsEntry'
    BY DEF HeldIsEntry, AskedKept, LockOwned, MidTransaction, SchedulesFresh
<1>3. ReservedIsHeld'
    BY DEF ReservedIsHeld, AskedKept, LockOwned, MidTransaction, HeldIsEntry
<1> QED
    BY <1>1, <1>2, <1>3

\* PlaceLeft touches no table.
LEMMA PlaceLeftOnce ==
    ASSUME Inductive, InductiveOnce, NEW c \in Call,
           PlaceLeft(c)
    PROVE  InductiveOnce'
<1> USE DEF Inductive, InductiveOnce, TypeOK, PlaceLeft, Goto, UnlockBoth, tables, locks,
            asked, cursor, InSchedule, InRelease, Answered, HoldsReserved
<1>1. SchedulesApart' /\ SchedulesFresh'
    BY DEF SchedulesApart, SchedulesFresh, AskedKept, LockOwned
<1>2. HeldIsEntry'
    BY DEF HeldIsEntry, AskedKept, LockOwned, MidTransaction, SchedulesFresh
<1>3. ReservedIsHeld'
    <2>1. \A d \in Call : pc[d] = "record" => ids'[d] = ids[d]
        OBVIOUS
    <2> QED
        BY <2>1 DEF ReservedIsHeld
<1> QED
    BY <1>1, <1>2, <1>3

\* PlaceLast touches no table.
LEMMA PlaceLastOnce ==
    ASSUME Inductive, InductiveOnce, NEW c \in Call,
           PlaceLast(c)
    PROVE  InductiveOnce'
<1> USE DEF Inductive, InductiveOnce, TypeOK, PlaceLast, Goto, UnlockBoth, tables, locks,
            asked, cursor, InSchedule, InRelease, Answered, HoldsReserved
<1>1. SchedulesApart' /\ SchedulesFresh'
    BY DEF SchedulesApart, SchedulesFresh, AskedKept, LockOwned
<1>2. HeldIsEntry'
    BY DEF HeldIsEntry, AskedKept, LockOwned, MidTransaction, SchedulesFresh
<1>3. ReservedIsHeld'
    BY DEF ReservedIsHeld, AskedKept, LockOwned, MidTransaction, HeldIsEntry
<1> QED
    BY <1>1, <1>2, <1>3

\* TryNext touches no table.
LEMMA TryNextOnce ==
    ASSUME Inductive, InductiveOnce, NEW c \in Call,
           TryNext(c)
    PROVE  InductiveOnce'
<1> USE DEF Inductive, InductiveOnce, TypeOK, TryNext, Goto, UnlockBoth, tables, locks,
            asked, cursor, InSchedule, InRelease, Answered, HoldsReserved
<1>1. SchedulesApart' /\ SchedulesFresh'
    BY DEF SchedulesApart, SchedulesFresh, AskedKept, LockOwned
<1>2. HeldIsEntry'
    BY DEF HeldIsEntry, AskedKept, LockOwned, MidTransaction, SchedulesFresh
<1>3. ReservedIsHeld'
    BY DEF ReservedIsHeld, AskedKept, LockOwned, MidTransaction, HeldIsEntry
<1> QED
    BY <1>1, <1>2, <1>3

\* RejectUnplaceable touches no table.
LEMMA RejectUnplaceableOnce ==
    ASSUME Inductive, InductiveOnce, NEW c \in Call,
           RejectUnplaceable(c)
    PROVE  InductiveOnce'
<1> USE DEF Inductive, InductiveOnce, TypeOK, RejectUnplaceable, Goto, UnlockBoth, tables, locks,
            asked, cursor, InSchedule, InRelease, Answered, HoldsReserved
<1>1. SchedulesApart' /\ SchedulesFresh'
    BY DEF SchedulesApart, SchedulesFresh, AskedKept, LockOwned
<1>2. HeldIsEntry'
    BY DEF HeldIsEntry, AskedKept, LockOwned, MidTransaction, SchedulesFresh
<1>3. ReservedIsHeld'
    BY DEF ReservedIsHeld, AskedKept, LockOwned, MidTransaction, HeldIsEntry
<1> QED
    BY <1>1, <1>2, <1>3

\* CheckConflict touches no table.
LEMMA CheckConflictOnce ==
    ASSUME Inductive, InductiveOnce, NEW c \in Call,
           CheckConflict(c)
    PROVE  InductiveOnce'
<1> USE DEF Inductive, InductiveOnce, TypeOK, CheckConflict, Goto, UnlockBoth, tables, locks,
            asked, cursor, InSchedule, InRelease, Answered, HoldsReserved
<1>1. SchedulesApart' /\ SchedulesFresh'
    BY DEF SchedulesApart, SchedulesFresh, AskedKept, LockOwned
<1>2. HeldIsEntry'
    BY DEF HeldIsEntry, AskedKept, LockOwned, MidTransaction, SchedulesFresh
<1>3. ReservedIsHeld'
    BY DEF ReservedIsHeld, AskedKept, LockOwned, MidTransaction, HeldIsEntry
<1> QED
    BY <1>1, <1>2, <1>3

\* RejectReserved touches no table.
LEMMA RejectReservedOnce ==
    ASSUME Inductive, InductiveOnce, NEW c \in Call,
           RejectReserved(c)
    PROVE  InductiveOnce'
<1> USE DEF Inductive, InductiveOnce, TypeOK, RejectReserved, Goto, UnlockBoth, tables, locks,
            asked, cursor, InSchedule, InRelease, Answered, HoldsReserved
<1>1. SchedulesApart' /\ SchedulesFresh'
    BY DEF SchedulesApart, SchedulesFresh, AskedKept, LockOwned
<1>2. HeldIsEntry'
    BY DEF HeldIsEntry, AskedKept, LockOwned, MidTransaction, SchedulesFresh
<1>3. ReservedIsHeld'
    <2>1. UNCHANGED <<held, reserved>>
        OBVIOUS
    <2>2. \A d \in Call : pc[d] = "record" => pc'[d] = "record" /\ ids'[d] = ids[d]
        OBVIOUS
    <2> QED
        BY ONLY ReservedIsHeld, <2>1, <2>2 DEF ReservedIsHeld
<1> QED
    BY <1>1, <1>2, <1>3

\* The new reservations are about to be recorded.
LEMMA InsertReservedOnce ==
    ASSUME Inductive, InductiveOnce, NEW c \in Call,
           InsertReserved(c)
    PROVE  InductiveOnce'
<1> USE DEF Inductive, InductiveOnce, TypeOK, InsertReserved, Goto, UnlockBoth, tables, locks,
            asked, cursor, InSchedule, InRelease, Answered, HoldsReserved
<1>1. SchedulesApart' /\ SchedulesFresh'
    BY DEF SchedulesApart, SchedulesFresh, AskedKept, LockOwned
<1>2. HeldIsEntry'
    BY DEF HeldIsEntry, AskedKept, LockOwned, MidTransaction, SchedulesFresh
<1>3. ReservedIsHeld'
    <2>1. ASSUME NEW g \in ids[c] PROVE pc'[c] = "record" /\ g \in ids'[c]
        BY <2>1
    <2>2. ASSUME NEW g \in reserved PROVE \E j \in Job : g \in held'[j]
        <3>1. \A d \in Call : pc[d] # "record"
            BY DEF LockOwned
        <3> QED
            BY <2>2, <3>1 DEF ReservedIsHeld
    <2> QED
        BY <2>1, <2>2 DEF ReservedIsHeld
<1> QED
    BY <1>1, <1>2, <1>3

\* The first grant of the job is its entry.
LEMMA RecordJobOnce ==
    ASSUME Inductive, InductiveOnce, NEW c \in Call,
           RecordJob(c)
    PROVE  InductiveOnce'
<1> USE DEF Inductive, InductiveOnce, TypeOK, RecordJob, Goto, UnlockBoth, tables, locks,
            asked, cursor, InSchedule, InRelease, Answered, HoldsReserved
<1>1. SchedulesApart' /\ SchedulesFresh'
    BY DEF SchedulesApart, SchedulesFresh, AskedKept, LockOwned
<1>2. HeldIsEntry'
    <2>1. \A d \in Call : pc'[d] # "rel_free" /\ pc[d] # "rel_free"
        BY DEF LockOwned
    <2>2. \A j \in Job : held[j] = job_reservations[j]
        BY <2>1 DEF HeldIsEntry
    <2>3. job[c] \in Job /\ held[job[c]] = {}
        BY DEF AskedKept, SchedulesFresh
    <2>4. \A j \in Job : held'[j] = job_reservations'[j]
        BY <2>2, <2>3
    <2> QED
        BY <2>1, <2>4 DEF HeldIsEntry
<1>3. ReservedIsHeld'
    BY DEF ReservedIsHeld, AskedKept, LockOwned, MidTransaction, HeldIsEntry
<1> QED
    BY <1>1, <1>2, <1>3

\* ReleaseLockReserved touches no table.
LEMMA ReleaseLockReservedOnce ==
    ASSUME Inductive, InductiveOnce, NEW c \in Call,
           ReleaseLockReserved(c)
    PROVE  InductiveOnce'
<1> USE DEF Inductive, InductiveOnce, TypeOK, ReleaseLockReserved, Goto, UnlockBoth, tables, locks,
            asked, cursor, InSchedule, InRelease, Answered, HoldsReserved
<1>1. SchedulesApart' /\ SchedulesFresh'
    BY DEF SchedulesApart, SchedulesFresh, AskedKept, LockOwned
<1>2. HeldIsEntry'
    BY DEF HeldIsEntry, AskedKept, LockOwned, MidTransaction, SchedulesFresh
<1>3. ReservedIsHeld'
    BY DEF ReservedIsHeld, AskedKept, LockOwned, MidTransaction, HeldIsEntry
<1> QED
    BY <1>1, <1>2, <1>3

\* ReleaseLockJobs touches no table.
LEMMA ReleaseLockJobsOnce ==
    ASSUME Inductive, InductiveOnce, NEW c \in Call,
           ReleaseLockJobs(c)
    PROVE  InductiveOnce'
<1> USE DEF Inductive, InductiveOnce, TypeOK, ReleaseLockJobs, Goto, UnlockBoth, tables, locks,
            asked, cursor, InSchedule, InRelease, Answered, HoldsReserved
<1>1. SchedulesApart' /\ SchedulesFresh'
    BY DEF SchedulesApart, SchedulesFresh, AskedKept, LockOwned
<1>2. HeldIsEntry'
    BY DEF HeldIsEntry, AskedKept, LockOwned, MidTransaction, SchedulesFresh
<1>3. ReservedIsHeld'
    BY DEF ReservedIsHeld, AskedKept, LockOwned, MidTransaction, HeldIsEntry
<1> QED
    BY <1>1, <1>2, <1>3

\* All the job holds was in the entry just removed.
LEMMA TakeEntryOnce ==
    ASSUME Inductive, InductiveOnce, NEW c \in Call,
           TakeEntry(c)
    PROVE  InductiveOnce'
<1> USE DEF Inductive, InductiveOnce, TypeOK, TakeEntry, Goto, UnlockBoth, tables, locks,
            asked, cursor, InSchedule, InRelease, Answered, HoldsReserved
<1>1. SchedulesApart' /\ SchedulesFresh'
    BY DEF SchedulesApart, SchedulesFresh, AskedKept, LockOwned
<1>2. HeldIsEntry'
    BY DEF HeldIsEntry, AskedKept, LockOwned, MidTransaction, SchedulesFresh
<1>3. ReservedIsHeld'
    <2>1. UNCHANGED <<held, reserved>>
        OBVIOUS
    <2>2. \A d \in Call : pc[d] = "record" => pc'[d] = "record" /\ ids'[d] = ids[d]
        OBVIOUS
    <2> QED
        BY ONLY ReservedIsHeld, <2>1, <2>2 DEF ReservedIsHeld
<1> QED
    BY <1>1, <1>2, <1>3

\* The job gives up all it held, and all of it is freed.
LEMMA FreeGpusOnce ==
    ASSUME Inductive, InductiveOnce, NEW c \in Call,
           FreeGpus(c)
    PROVE  InductiveOnce'
<1> USE DEF Inductive, InductiveOnce, TypeOK, FreeGpus, Goto, UnlockBoth, tables, locks,
            asked, cursor, InSchedule, InRelease, Answered, HoldsReserved
<1>1. SchedulesApart' /\ SchedulesFresh'
    BY DEF SchedulesApart, SchedulesFresh, AskedKept, LockOwned
<1>2. HeldIsEntry'
    BY DEF HeldIsEntry, AskedKept, LockOwned, MidTransaction, SchedulesFresh
<1>3. ReservedIsHeld'
    <2>1. reserved' = reserved \ ids[c] /\ \A j \in Job : j # job[c] => held'[j] = held[j]
        OBVIOUS
    <2>2. ids[c] = held[job[c]]
        BY DEF HeldIsEntry
    <2>3. \A d \in Call : pc[d] # "record"
        BY DEF LockOwned
    <2> QED
        BY ONLY ReservedIsHeld, <2>1, <2>2, <2>3 DEF ReservedIsHeld
<1> QED
    BY <1>1, <1>2, <1>3

\* Reply touches no table.
LEMMA ReplyOnce ==
    ASSUME Inductive, InductiveOnce, NEW c \in Call,
           Reply(c)
    PROVE  InductiveOnce'
<1> USE DEF Inductive, InductiveOnce, TypeOK, Reply, Goto, UnlockBoth, tables, locks,
            asked, cursor, InSchedule, InRelease, Answered, HoldsReserved
<1>1. SchedulesApart' /\ SchedulesFresh'
    BY DEF SchedulesApart, SchedulesFresh, AskedKept, LockOwned
<1>2. HeldIsEntry'
    <2>1. \A d \in Call : pc'[d] = "rel_free" <=> pc[d] = "rel_free"
        OBVIOUS
    <2>2. \A d \in Call : pc[d] = "rel_free" => job'[d] = job[d] /\ ids'[d] = ids[d]
        OBVIOUS
    <2>3. UNCHANGED <<held, job_reservations>>
        OBVIOUS
    <2> QED
        BY ONLY HeldIsEntry, <2>1, <2>2, <2>3 DEF HeldIsEntry
<1>3. ReservedIsHeld'
    BY DEF ReservedIsHeld, AskedKept, LockOwned, MidTransaction, HeldIsEntry
<1> QED
    BY <1>1, <1>2, <1>3

\* ReleaseCall touches no table.
LEMMA ReleaseCallOnce ==
    ASSUME Inductive, InductiveOnce, NEW c \in Call, NEW j \in Job,
           ReleaseCall(c, j)
    PROVE  InductiveOnce'
<1> USE DEF Inductive, InductiveOnce, TypeOK, ReleaseCall, Goto, UnlockBoth, tables, locks,
            asked, cursor, InSchedule, InRelease, Answered, HoldsReserved
<1>1. SchedulesApart' /\ SchedulesFresh'
    BY DEF SchedulesApart, SchedulesFresh, AskedKept, LockOwned
<1>2. HeldIsEntry'
    <2>1. \A d \in Call : pc'[d] = "rel_free" <=> pc[d] = "rel_free"
        OBVIOUS
    <2>2. \A d \in Call : pc[d] = "rel_free" => job'[d] = job[d]
        OBVIOUS
    <2> QED
        BY <2>1, <2>2 DEF HeldIsEntry
<1>3. ReservedIsHeld'
    BY DEF ReservedIsHeld, AskedKept, LockOwned, MidTransaction, HeldIsEntry
<1> QED
    BY <1>1, <1>2, <1>3

LEMMA InductiveOnceNext ==
    Inductive /\ InductiveOnce /\ [NextOnce]_vars => InductiveOnce'
<1> SUFFICES ASSUME Inductive, InductiveOnce, [NextOnce]_vars PROVE InductiveOnce'
    OBVIOUS
<1> USE DEF InductiveOnce, SchedulesApart, SchedulesFresh, HeldIsEntry, ReservedIsHeld
<1>1. ASSUME NEW g \in Gpu, MarkUnhealthy(g) PROVE InductiveOnce'
    BY <1>1 DEF MarkUnhealthy, tables, locks, asked, cursor
<1>2. ASSUME NEW c \in Call, NEW j \in Job, NEW s \in Spec0,
             MayScheduleOnce(j), ScheduleCall(c, j, s)
      PROVE  InductiveOnce'
    BY <1>2, ScheduleCallOnce
<1>3. ASSUME NEW c \in Call, NEW j \in Job, ReleaseCall(c, j) PROVE InductiveOnce'
    BY <1>3, ReleaseCallOnce
<1>4. ASSUME NEW c \in Call, AcquireLock(c) PROVE InductiveOnce'
    BY <1>4, LockReservedOnce, LockJobsOnce, ReleaseLockReservedOnce,
       ReleaseLockJobsOnce DEF AcquireLock
<1>5. ASSUME NEW c \in Call, Proceed(c) PROVE InductiveOnce'
    BY <1>5, PlaceLeftOnce, PlaceLastOnce, TryNextOnce, RejectUnplaceableOnce,
       CheckConflictOnce, RejectReservedOnce, InsertReservedOnce, RecordJobOnce,
       TakeEntryOnce, FreeGpusOnce, ReplyOnce DEF Proceed
<1>6. ASSUME UNCHANGED vars PROVE InductiveOnce'
    BY <1>6 DEF vars, tables, locks, asked, cursor
<1> QED
    BY <1>1, <1>2, <1>3, <1>4, <1>5, <1>6 DEF NextOnce, Serve

THEOREM SchedulerOnceInductive == SpecOnce => [](Inductive /\ InductiveOnce)
    BY InductiveInit, InductiveOnceInit, InductiveNext, InductiveOnceNext, OnceIsNext, PTL
    DEF SpecOnce

\* Between transactions nothing is reserved for a job that holds nothing.
THEOREM OnceNoLeak == SpecOnce => []ReservedByActiveJobs
<1>1. Inductive /\ InductiveOnce => ReservedByActiveJobs
    BY NoneAssumption
    DEF Inductive, InductiveOnce, LockOwned, HoldsReserved, GrantsReserved,
        ReservedIsHeld, ReservedByActiveJobs
<1> QED
    BY <1>1, SchedulerOnceInductive, PTL

-----------------------------------------------------------------------------
(* The refinement.  Only the holder of the lock can be about to record.    *)

LEMMA InFreePool ==
    \A g : g \in FreePool <=> \/ g \in Gpu \ reserved
                             \/ \E c \in Call : pc[c] = "record" /\ g \in ids[c]
    BY DEF FreePool

LEMMA InFreePoolNext ==
    \A g : g \in FreePool' <=> \/ g \in Gpu \ reserved'
                              \/ \E c \in Call : pc'[c] = "record" /\ g \in ids'[c]
    BY DEF FreePool

\* Reserving takes nothing out of the pool yet.
LEMMA InsertIsStutter ==
    ASSUME Inductive, NEW c \in Call, InsertReserved(c)
    PROVE  UNCHANGED <<FreePool, held>>
<1> USE DEF Inductive, TypeOK, InsertReserved, Goto, locks, asked, cursor
<1>1. \A d \in Call : pc[d] # "record" /\ (pc'[d] = "record" <=> d = c)
    BY DEF LockOwned, HoldsReserved
<1>2. ids' = ids /\ ids[c] \subseteq Gpu /\ ids[c] \cap reserved = {}
      /\ reserved' = reserved \cup ids[c]
    BY DEF MidTransaction
<1>3. \A g : g \in FreePool' <=> g \in FreePool
    BY <1>1, <1>2, InFreePool, InFreePoolNext
<1> QED
    BY <1>3

\* The record of a placement is the pool's grant.
LEMMA RecordIsGrant ==
    ASSUME Inductive, NEW c \in Call, RecordJob(c)
    PROVE  Pool!Next
<1> USE DEF Inductive, TypeOK, RecordJob, Goto, UnlockBoth, asked, cursor
<1>1. \A d \in Call : pc'[d] # "record" /\ (pc[d] = "record" <=> d = c)
    BY DEF LockOwned, HoldsReserved
<1>2. ids' = ids /\ ids[c] \subseteq reserved /\ reserved' = reserved
      /\ ids[c] \in SUBSET Gpu /\ job[c] \in Job
    BY DEF MidTransaction, AskedKept, InSchedule
<1>3. ids[c] \subseteq FreePool
    BY <1>1, InFreePool
<1>4. \A g : g \in FreePool' <=> g \in FreePool \ ids[c]
    BY <1>1, <1>2, InFreePool, InFreePoolNext
<1>5. FreePool' = FreePool \ ids[c]
    BY <1>4
<1>6. Pool!Grant(job[c], ids[c])
    BY <1>3, <1>5 DEF Pool!Grant
<1> QED
    BY <1>2, <1>6 DEF Pool!Next

\* Freeing is the pool's release: what the job held goes back, all of it.
LEMMA FreeIsRelease ==
    ASSUME Inductive, InductiveOnce, NEW c \in Call, FreeGpus(c)
    PROVE  Pool!Next
<1> USE DEF Inductive, TypeOK, FreeGpus, Goto, UnlockBoth, asked, cursor
<1>1. \A d \in Call : pc[d] # "record" /\ pc'[d] # "record"
    BY DEF LockOwned, HoldsReserved
<1>2. /\ job[c] \in Job /\ ids[c] = held[job[c]] /\ ids[c] \subseteq Gpu
      /\ reserved' = reserved \ ids[c]
    BY DEF AskedKept, InRelease, InductiveOnce, HeldIsEntry
<1>3. \A g : g \in FreePool' <=> g \in FreePool \cup held[job[c]]
    BY <1>1, <1>2, InFreePool, InFreePoolNext
<1>4. FreePool' = FreePool \cup held[job[c]]
    BY <1>3
<1>5. Pool!Release(job[c])
    BY <1>4 DEF Pool!Release
<1> QED
    BY <1>2, <1>5 DEF Pool!Next

\* No other step moves a GPU in or out of the pool.
LEMMA OthersStutter ==
    ASSUME UNCHANGED <<reserved, held>>,
           \A d \in Call : pc[d] = "record" => pc'[d] = "record" /\ ids'[d] = ids[d],
           \A d \in Call : pc'[d] = "record" => pc[d] = "record"
    PROVE  UNCHANGED <<FreePool, held>>
<1>1. reserved' = reserved /\ held' = held
    OBVIOUS
<1>2. ASSUME NEW g
      PROVE  (\E d \in Call : pc'[d] = "record" /\ g \in ids'[d])
             <=> (\E d \in Call : pc[d] = "record" /\ g \in ids[d])
    OBVIOUS
<1>3. \A g : g \in FreePool' <=> g \in FreePool
    BY <1>1, <1>2, InFreePool, InFreePoolNext
<1> QED
    BY <1>1, <1>3

\* Every step of the scheduler is a step of the pool, or leaves it as it is.
LEMMA PoolStep ==
    Inductive /\ InductiveOnce /\ [NextOnce]_vars => [Pool!Next]_<<FreePool, held>>
<1> SUFFICES ASSUME Inductive, InductiveOnce, [NextOnce]_vars
             PROVE  [Pool!Next]_<<FreePool, held>>
    OBVIOUS
<1> USE DEF Inductive, TypeOK, Goto, UnlockBoth, tables, locks, asked, cursor, Answered
<1>1. ASSUME NEW g \in Gpu, MarkUnhealthy(g) PROVE UNCHANGED <<FreePool, held>>
    BY <1>1 DEF MarkUnhealthy, FreePool
<1>2. ASSUME NEW c \in Call, NEW j \in Job, NEW s \in Spec0, ScheduleCall(c, j, s)
      PROVE  UNCHANGED <<FreePool, held>>
    BY <1>2, OthersStutter DEF ScheduleCall
<1>3. ASSUME NEW c \in Call, NEW j \in Job, ReleaseCall(c, j)
      PROVE  UNCHANGED <<FreePool, held>>
    BY <1>3, OthersStutter DEF ReleaseCall
<1>4. ASSUME NEW c \in Call, AcquireLock(c) PROVE UNCHANGED <<FreePool, held>>
    BY <1>4, OthersStutter
    DEF AcquireLock, LockReserved, LockJobs, ReleaseLockReserved, ReleaseLockJobs
<1>5. ASSUME NEW c \in Call,
             \/ PlaceLeft(c) \/ PlaceLast(c) \/ TryNext(c) \/ RejectUnplaceable(c)
             \/ CheckConflict(c) \/ RejectReserved(c) \/ TakeEntry(c) \/ Reply(c)
      PROVE  UNCHANGED <<FreePool, held>>
    BY <1>5, OthersStutter
    DEF PlaceLeft, PlaceLast, TryNext, RejectUnplaceable, CheckConflict, RejectReserved,
        TakeEntry, Reply
<1>6. ASSUME UNCHANGED vars PROVE UNCHANGED <<FreePool, held>>
    BY <1>6 DEF vars, FreePool
<1> QED
    BY <1>1, <1>2, <1>3, <1>4, <1>5, <1>6, InsertIsStutter, RecordIsGrant, FreeIsRelease
    DEF NextOnce, Serve, Proceed

LEMMA PoolInit == Init => Pool!Init
<1> SUFFICES ASSUME Init PROVE Pool!Init
    OBVIOUS
<1>1. \A g : g \in FreePool <=> g \in Gpu
    BY InFreePool DEF Init
<1> QED
    BY <1>1 DEF Init, Pool!Init

\* The two-table, two-lock service implements the pool.
THEOREM SchedulerImplementsPool == SpecOnce => ImplementsPool
    BY PoolInit, PoolStep, SchedulerOnceInductive, PTL DEF SpecOnce, ImplementsPool, Pool!Spec
=============================================================================

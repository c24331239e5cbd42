--------------------------- MODULE NcclReal_proofs --------------------------
(***************************************************************************)
(* Theorems about NcclReal: what its count guarantees however calls        *)
(* overlap, fail and are dropped, and what it does when they do not.       *)
(***************************************************************************)
EXTENDS NcclReal, TLAPS

LEMMA InitInductive == ASSUME RealAssumption, Init PROVE Inductive
<1> USE DEF RealAssumption, Init, BeforeStore, InFlight
<1>1. TypeOK
  <2>1. 0 \in 0..WorldSize /\ WorldSize \in 0..WorldSize
    OBVIOUS
  <2>2. count \in [Call -> 0..WorldSize] /\ seen \in [Call -> 0..WorldSize]
    BY <2>1
  <2> QED
    BY <2>1, <2>2 DEF TypeOK
<1>2. NeverUndercounts /\ CountPositive /\ CountExact
  BY DEF NeverUndercounts, CountPositive, CountExact, Storing
<1>3. ClaimsStand /\ OneAtATime /\ OrphansDropped
  BY DEF ClaimsStand, OneAtATime, OrphansDropped
<1> QED
  BY <1>1, <1>2, <1>3 DEF Inductive

\* A step of the specification is one of the actions, taken by some call.
Step(c) ==
    \/ \E k \in Amount : ShrinkCall(c, k) \/ ExpandCall(c, k)
    \/ Work(c) \/ Reply(c) \/ Cancel(c)

LEMMA StepTypeOK ==
    ASSUME RealAssumption, Inductive, NEW c \in Call, Step(c)
    PROVE  TypeOK'
<1> USE DEF RealAssumption, Inductive, TypeOK, Go, InFlight, BeforeStore
<1>1. CASE \E k \in Amount : ShrinkCall(c, k) \/ ExpandCall(c, k)
  <2>1. ASSUME NEW k \in Amount, ShrinkCall(c, k) PROVE TypeOK'
    BY <2>1 DEF ShrinkCall
  <2>2. ASSUME NEW k \in Amount, ExpandCall(c, k) PROVE TypeOK'
    BY <2>2 DEF ExpandCall
  <2> QED
    BY <1>1, <2>1, <2>2
<1>2. CASE ShrinkRefuse(c) \/ ShrinkAdmit(c)
  <2>1. CASE ShrinkRefuse(c)
    BY <2>1 DEF ShrinkRefuse
  <2>2. CASE ShrinkAdmit(c)
    BY <2>2 DEF ShrinkAdmit
  <2> QED
    BY <1>2, <2>1, <2>2
<1>3. CASE Quiesce(c) \/ QuiesceFail(c) \/ SplitFail(c) \/ ResumeFail(c)
  BY <1>3 DEF Quiesce, QuiesceFail, SplitFail, ResumeFail
<1>4. CASE Split(c)
  BY <1>4 DEF Split, Exclude
<1>5. CASE Store(c)
  <2>1. seen[c] - amount[c] \in 0..WorldSize
    BY <1>5 DEF Store, ClaimsStand
  <2> QED
    BY <1>5, <2>1 DEF Store
<1>6. CASE Resume(c)
  <2>1. seen[c] - amount[c] \in 0..WorldSize
    BY <1>6 DEF Resume, ClaimsStand
  <2> QED
    BY <1>6, <2>1 DEF Resume
<1>7. CASE Reply(c) \/ Cancel(c)
  <2>1. CASE Reply(c)
    BY <2>1 DEF Reply, Forget
  <2>2. CASE Cancel(c) /\ pc[c] = "split"
    BY <2>2 DEF Cancel
  <2>3. CASE Cancel(c) /\ pc[c] # "split"
    <3>1. pc' = [pc EXCEPT ![c] = "idle"] /\ Forget(c) /\ trouble' \in {trouble, trouble \cup {"drop"}}
      BY <2>3 DEF Cancel
    <3> QED
      BY <2>3, <3>1 DEF Cancel, Forget
  <2> QED
    BY <1>7, <2>1, <2>2, <2>3
<1>8. CASE OrphanSplit(c)
  BY <1>8 DEF OrphanSplit, Exclude, Forget
<1> QED
  BY <1>1, <1>2, <1>3, <1>4, <1>5, <1>6, <1>7, <1>8 DEF Step, Work

\* What a call is about to store stays at least the ranks that are left, and so
\* does what is stored: splits only take ranks away.
LEMMA StepClaims ==
    ASSUME RealAssumption, Inductive, NEW c \in Call, Step(c)
    PROVE  NeverUndercounts' /\ CountPositive' /\ ClaimsStand'
<1>0. TypeOK'
  BY StepTypeOK
<1> USE DEF RealAssumption, Inductive, TypeOK, NeverUndercounts, CountPositive, ClaimsStand,
            BeforeStore, InFlight, Go
<1>1. CASE \E k \in Amount : ShrinkCall(c, k) \/ ExpandCall(c, k)
  BY <1>1 DEF ShrinkCall, ExpandCall
<1>2. CASE ShrinkRefuse(c) \/ ShrinkAdmit(c)
  BY <1>2 DEF ShrinkRefuse, ShrinkAdmit
<1>3. CASE Quiesce(c) \/ QuiesceFail(c) \/ SplitFail(c) \/ ResumeFail(c) \/ Resume(c)
  BY <1>3 DEF Quiesce, QuiesceFail, SplitFail, ResumeFail, Resume
<1>4. CASE Split(c)
  <2>1. WorldSize - excluded' <= WorldSize - excluded
    BY <1>4 DEF Split, Exclude
  <2>2. seen[c] - amount[c] >= WorldSize - excluded'
    BY <1>4 DEF Split, Exclude
  <2> QED
    <3>0. active_ranks' = active_ranks /\ active_ranks \in Int
          /\ WorldSize - excluded' \in Int /\ WorldSize - excluded \in Int
      BY <1>0, <1>4 DEF Split
    <3>1. NeverUndercounts' /\ CountPositive'
      BY <2>1, <3>0
    <3>2. ASSUME NEW d \in Call, d # c
          PROVE  /\ pc'[d] = pc[d] /\ amount'[d] = amount[d] /\ seen'[d] = seen[d]
                 /\ seen[d] \in Nat /\ amount[d] \in Nat
      BY <1>4, <3>2 DEF Split
    <3>3. pc'[c] = "store" /\ amount'[c] = amount[c] /\ seen'[c] = seen[c] /\ amount[c] < seen[c]
      BY <1>4 DEF Split
    <3>4. excluded \in Int /\ excluded' \in Int /\ WorldSize \in Int
      BY <1>0
    <3>5. ClaimsStand'
      BY <2>1, <2>2, <3>2, <3>3, <3>4
    <3> QED
      BY <3>1, <3>5
<1>5. CASE Store(c)
  BY <1>5 DEF Store
<1>6. CASE Reply(c) \/ Cancel(c)
  BY <1>6 DEF Reply, Cancel, Forget
<1>7. CASE OrphanSplit(c)
  <2>1. WorldSize - excluded' <= WorldSize - excluded
    BY <1>7 DEF OrphanSplit, Exclude
  <2> QED
    <3>0. active_ranks' = active_ranks /\ active_ranks \in Int
          /\ WorldSize - excluded' \in Int /\ WorldSize - excluded \in Int
      BY <1>0, <1>7 DEF OrphanSplit
    <3>1. NeverUndercounts' /\ CountPositive'
      BY <2>1, <3>0
    <3>2. ASSUME NEW d \in Call, d # c
          PROVE  /\ pc'[d] = pc[d] /\ amount'[d] = amount[d] /\ seen'[d] = seen[d]
                 /\ seen[d] \in Nat /\ amount[d] \in Nat
      BY <1>7, <3>2 DEF OrphanSplit, Forget
    <3>3. pc'[c] = "idle"
      BY <1>7 DEF OrphanSplit
    <3>4. excluded \in Int /\ excluded' \in Int /\ WorldSize \in Int
      BY <1>0
    <3>5. ClaimsStand'
      BY <2>1, <3>2, <3>3, <3>4
    <3> QED
      BY <3>1, <3>5
<1> QED
  BY <1>1, <1>2, <1>3, <1>4, <1>5, <1>6, <1>7 DEF Step, Work

LEMMA StepOrphans ==
    ASSUME Inductive, NEW c \in Call, Step(c)
    PROVE  OrphansDropped'
  BY DEF Inductive, TypeOK, OrphansDropped, Step, Go, Work, Cancel, Reply, ShrinkCall, ExpandCall,
     ShrinkRefuse, ShrinkAdmit, Quiesce, QuiesceFail, Split, SplitFail, OrphanSplit, Store,
     Resume, ResumeFail

\* Calls that meet no other find the count they loaded, and training paused.
LEMMA StepAlone ==
    ASSUME RealAssumption, Inductive, NEW c \in Call, Step(c)
    PROVE  OneAtATime'
<1> USE DEF RealAssumption, Inductive, TypeOK, OneAtATime, BeforeStore, InFlight, Go
<1>1. CASE \E k \in Amount : ShrinkCall(c, k) \/ ExpandCall(c, k)
  BY <1>1 DEF ShrinkCall, ExpandCall
<1>2. CASE ShrinkRefuse(c) \/ ShrinkAdmit(c)
  BY <1>2 DEF ShrinkRefuse, ShrinkAdmit
<1>3. CASE Quiesce(c) \/ QuiesceFail(c) \/ SplitFail(c) \/ ResumeFail(c) \/ Resume(c)
  BY <1>3 DEF Quiesce, QuiesceFail, SplitFail, ResumeFail, Resume
<1>4. CASE Split(c) \/ Store(c) \/ OrphanSplit(c)
  BY <1>4 DEF Split, Store, OrphanSplit, Forget
<1>5. CASE Reply(c) \/ Cancel(c)
  BY <1>5 DEF Reply, Cancel, Forget
<1> QED
  BY <1>1, <1>2, <1>3, <1>4, <1>5 DEF Step, Work

\* The count stays exact: who splits and who stores is the only one under way.
LEMMA StepExact ==
    ASSUME RealAssumption, Inductive, NEW c \in Call, Step(c)
    PROVE  CountExact'
<1> USE DEF RealAssumption, Inductive, TypeOK, CountExact, Storing, Go
<1>1. CASE \E k \in Amount : ShrinkCall(c, k) \/ ExpandCall(c, k)
  BY <1>1 DEF ShrinkCall, ExpandCall
<1>2. CASE ShrinkRefuse(c) \/ ShrinkAdmit(c)
  BY <1>2 DEF ShrinkRefuse, ShrinkAdmit
<1>3. CASE Quiesce(c) \/ QuiesceFail(c) \/ SplitFail(c) \/ ResumeFail(c) \/ Resume(c)
  BY <1>3 DEF Quiesce, QuiesceFail, SplitFail, ResumeFail, Resume
<1>4. CASE Split(c)
  BY <1>4 DEF Split, Exclude, OneAtATime, BeforeStore, InFlight, ClaimsStand
<1>5. CASE Store(c)
  BY <1>5 DEF Store, OneAtATime, BeforeStore, InFlight, ClaimsStand
<1>6. CASE Reply(c) \/ Cancel(c)
  BY <1>6 DEF Reply, Cancel, Forget
<1>7. CASE OrphanSplit(c)
  BY <1>7 DEF OrphanSplit, OrphansDropped
<1> QED
  BY <1>1, <1>2, <1>3, <1>4, <1>5, <1>6, <1>7 DEF Step, Work

-----------------------------------------------------------------------------
\* Every step keeps the inductive invariant; also for use where the backend is
\* one part of a larger system.
LEMMA StepInductive ==
    ASSUME RealAssumption, Inductive, NEW c \in Call, Step(c)
    PROVE  Inductive'
  BY StepTypeOK, StepClaims, StepOrphans, StepAlone, StepExact DEF Inductive

\* However calls overlap, fail and are dropped, what a split is to take off was
\* claimed, and the count is exact as long as nothing went wrong.
THEOREM RealInductive == ASSUME RealAssumption PROVE Spec => []Inductive
<1>1. Init => Inductive
  BY InitInductive
<1>2. Inductive /\ [Next]_vars => Inductive'
  <2> SUFFICES ASSUME Inductive, [Next]_vars PROVE Inductive'
    OBVIOUS
  <2>1. CASE Next
    BY <2>1, StepInductive DEF Next, Step
  <2>2. CASE UNCHANGED vars
    BY <2>2 DEF vars, local, Inductive, TypeOK, NeverUndercounts, CountPositive, CountExact,
       Storing, ClaimsStand, OneAtATime, OrphansDropped
  <2> QED
    BY <2>1, <2>2
<1> QED
  BY <1>1, <1>2, PTL DEF Spec

\* Without overlap and drops there is a rank that no split has left out: who is
\* between split and store has taken off less than there was.
LEMMA RankLeft == ASSUME RealAssumption, Inductive PROVE NeverEmpty
<1> SUFFICES ASSUME trouble \cap {"overlap", "drop"} = {} PROVE excluded < WorldSize
  BY DEF NeverEmpty
<1>1. active_ranks \in Nat /\ excluded \in Nat /\ WorldSize \in Nat /\ active_ranks > 0
  BY DEF Inductive, TypeOK, CountPositive, RealAssumption
<1>2. CASE Storing = {}
  <2>1. active_ranks + excluded = WorldSize
    BY <1>2 DEF Inductive, CountExact
  <2> QED
    BY ONLY <1>1, <2>1
<1>3. CASE Storing # {}
  <2>1. PICK c \in Call : pc[c] = "store"
    BY <1>3 DEF Storing
  <2>2. active_ranks + excluded = WorldSize + amount[c]
    BY <2>1 DEF Inductive, CountExact, Storing
  <2>3. amount[c] < active_ranks
    BY <2>1 DEF Inductive, ClaimsStand, OneAtATime, InFlight, BeforeStore
  <2>4. amount[c] \in Nat
    BY DEF Inductive, TypeOK
  <2> QED
    BY ONLY <1>1, <2>2, <2>3, <2>4
<1> QED
  BY <1>2, <1>3

\* The count is never less than the ranks left, however calls overlap; without
\* overlap splits are made while training is paused, and if besides no call was
\* dropped the count is exact and a rank is left.
THEOREM RealSafe ==
    ASSUME RealAssumption
    PROVE  Spec => [](NeverUndercounts /\ NeverEmpty /\ CountExact /\ SplitPaused)
<1>1. Inductive => NeverUndercounts /\ CountExact /\ SplitPaused
  BY DEF Inductive, OneAtATime, SplitPaused, InFlight, BeforeStore
<1>2. Inductive => NeverEmpty
  BY RankLeft
<1> QED
  BY <1>1, <1>2, RealInductive, PTL
=============================================================================

---------------------------- MODULE NcclSim_proofs --------------------------
(***************************************************************************)
(* Theorems about NcclSim: what overlapping calls still guarantee, and that *)
(* callers that shrink one at a time see an atomic communicator.           *)
(***************************************************************************)
EXTENDS NcclSim, TLAPS

\* A step of either specification is one of the actions, taken by some call.
Step(c) ==
    \/ \E k \in Amount : ShrinkCall(c, k) \/ ExpandCall(c, k)
    \/ Work(c)

\* The type invariant is kept by every action.
LEMMA StepTypeOK ==
    ASSUME TypeOK, NEW c \in Call, Step(c)
    PROVE  TypeOK'
<1> USE SimAssumption DEF TypeOK, Ranks, Shrinking, Goto
<1>1. CASE \E k \in Amount : ShrinkCall(c, k) \/ ExpandCall(c, k)
  BY <1>1 DEF ShrinkCall, ExpandCall
<1>2. CASE ShrinkRefuse(c)
  BY <1>2 DEF ShrinkRefuse
<1>3. CASE ShrinkAdmit(c)
  BY <1>3 DEF ShrinkAdmit
<1>4. CASE ShrinkApply(c)
  <2>1. active_ranks' \in 0..(U32 - 1)
    BY <1>4 DEF ShrinkApply
  <2> QED
    BY <1>4, <2>1 DEF ShrinkApply, Report
<1>5. CASE ShrinkPanic(c)
  BY <1>5 DEF ShrinkPanic
<1>6. CASE ExpandApply(c)
  <2>1. active_ranks' \in 0..(U32 - 1)
    BY <1>6 DEF ExpandApply
  <2> QED
    BY <1>6, <2>1 DEF ExpandApply, Report
<1>7. CASE Reply(c) \/ Cancel(c)
  <2>1. 0 \in 0..(U32 - 1)
    OBVIOUS
  <2>2. Forget(c)
    BY <1>7 DEF Reply, Cancel
  <2>3. /\ active_ranks' \in 0..(U32 - 1)
        /\ amount' \in [Call -> 0..(U32 - 1)]
        /\ count' \in [Call -> 0..(U32 - 1)]
        /\ seen' \in [Call -> 0..(U32 - 1)]
    BY <2>1, <2>2 DEF Forget
  <2> QED
    BY <2>2, <2>3 DEF Forget
<1> QED
  BY <1>1, <1>2, <1>3, <1>4, <1>5, <1>6, <1>7 DEF Step, Work, Wake

LEMMA InitInductive == Init => Inductive /\ InductiveSerial
  BY SimAssumption DEF Init, Inductive, InductiveSerial, TypeOK, AloneUntouched,
     AloneExact, OneShrink, AdmittedStands, NeverEmpty, Ranks, Shrinking

-----------------------------------------------------------------------------
\* A shrink that was admitted and not disturbed still stands, and one that was
\* applied and not disturbed since has reported exactly.
LEMMA StepInductive ==
    ASSUME Inductive, NEW c \in Call, Step(c)
    PROVE  Inductive'
<1>1. TypeOK'
  BY StepTypeOK DEF Inductive
<1> USE SimAssumption DEF Inductive, TypeOK, AloneUntouched, AloneExact, Ranks, Goto
<1>2. CASE \E k \in Amount : ShrinkCall(c, k) \/ ExpandCall(c, k)
  BY <1>1, <1>2 DEF ShrinkCall, ExpandCall
<1>3. CASE ShrinkRefuse(c)
  BY <1>1, <1>3 DEF ShrinkRefuse
<1>4. CASE ShrinkAdmit(c)
  BY <1>1, <1>4 DEF ShrinkAdmit
<1>5. CASE ShrinkApply(c)
  <2>1. \A d \in Call : d # c => ~alone'[d]
    BY <1>5 DEF ShrinkApply, Report
  <2>2. alone'[c] => active_ranks' = seen[c] - amount[c] /\ active_ranks' > 0
    <3> SUFFICES ASSUME alone[c]
                 PROVE  active_ranks' = seen[c] - amount[c] /\ active_ranks' > 0
      BY <1>5 DEF ShrinkApply, Report
    <3>1. seen[c] = active_ranks /\ amount[c] < active_ranks
      BY <1>5 DEF ShrinkApply
    <3>2. active_ranks - amount[c] \in 1..(U32 - 1)
      BY <3>1
    <3>3. \A n \in 1..(U32 - 1) : n % U32 = n
      OBVIOUS
    <3> QED
      BY <1>5, <3>1, <3>2, <3>3 DEF ShrinkApply
  <2>3. AloneUntouched'
    BY <1>1, <1>5, <2>1 DEF ShrinkApply, Report
  <2>4. AloneExact'
    BY <1>1, <1>5, <2>1, <2>2 DEF ShrinkApply, Report
  <2> QED
    BY <1>1, <2>3, <2>4
<1>6. CASE ShrinkPanic(c)
  BY <1>1, <1>6 DEF ShrinkPanic
<1>7. CASE ExpandApply(c)
  <2>1. \A d \in Call : d # c => ~alone'[d]
    BY <1>7 DEF ExpandApply, Report
  <2> QED
    BY <1>1, <1>7, <2>1 DEF ExpandApply, Report
<1>8. CASE Reply(c) \/ Cancel(c)
  BY <1>1, <1>8 DEF Reply, Cancel, Forget
<1> QED
  BY <1>2, <1>3, <1>4, <1>5, <1>6, <1>7, <1>8 DEF Step, Work, Wake

\* However calls overlap, one that overlaps none finds the count as it was when
\* it began, and reports exactly.
THEOREM SimInductive == Spec => []Inductive
<1>1. Init => Inductive
  BY InitInductive
<1>2. Inductive /\ [Next]_vars => Inductive'
  <2> SUFFICES ASSUME Inductive, [Next]_vars PROVE Inductive'
    OBVIOUS
  <2>1. CASE Next
    BY <2>1, StepInductive DEF Next, Step
  <2>2. CASE UNCHANGED vars
    BY <2>2 DEF vars, Inductive, TypeOK, AloneUntouched, AloneExact
  <2> QED
    BY <2>1, <2>2
<1> QED
  BY <1>1, <1>2, PTL DEF Spec

\* A shrink that overlaps no other call reports the exact count and leaves a
\* rank, for every width of the counter and every number of calls.
THEOREM SimAloneExact == Spec => [](TypeOK /\ AloneExact)
<1>1. Inductive => TypeOK /\ AloneExact
  BY DEF Inductive
<1> QED
  BY <1>1, SimInductive, PTL

-----------------------------------------------------------------------------
\* With shrinks one at a time, what a sleeping shrink is to take off is there.
LEMMA StepSerial ==
    ASSUME InductiveSerial, NEW c \in Call, Step(c),
           pc[c] = "idle" /\ pc'[c] \in Shrinking => amount'[c] = 0 \/ NoShrinkInFlight
    PROVE  InductiveSerial'
<1>1. TypeOK'
  BY StepTypeOK DEF InductiveSerial
<1>2. OneShrink'
  <2>1. CASE \E k \in Amount : ShrinkCall(c, k)
    <3>1. pc[c] = "idle" /\ pc'[c] = "shrink"
      BY <2>1 DEF ShrinkCall, Goto, InductiveSerial, TypeOK
    <3>2. \A d \in Call : d # c => pc'[d] = pc[d] /\ amount'[d] = amount[d]
      BY <2>1 DEF ShrinkCall, Goto, InductiveSerial, TypeOK
    <3>3. amount'[c] = 0 \/ NoShrinkInFlight
      BY <3>1 DEF Shrinking
    <3> QED
      BY <3>2, <3>3 DEF InductiveSerial, OneShrink, NoShrinkInFlight
  <2>2. CASE (\E k \in Amount : ExpandCall(c, k)) \/ Work(c)
    BY <2>2 DEF InductiveSerial, OneShrink, TypeOK, Work, Wake, Shrinking,
       ExpandCall, ShrinkRefuse, ShrinkAdmit, ShrinkApply, ShrinkPanic,
       ExpandApply, Reply, Cancel, Forget, Goto
  <2> QED
    BY <2>1, <2>2 DEF Step
<1> USE SimAssumption
    DEF InductiveSerial, TypeOK, AdmittedStands, NeverEmpty, Ranks, Goto
<1>3. CASE \E k \in Amount : ShrinkCall(c, k) \/ ExpandCall(c, k)
  BY <1>1, <1>2, <1>3 DEF ShrinkCall, ExpandCall
<1>4. CASE ShrinkRefuse(c)
  BY <1>1, <1>2, <1>4 DEF ShrinkRefuse
<1>5. CASE ShrinkAdmit(c)
  BY <1>1, <1>2, <1>5 DEF ShrinkAdmit
<1>6. CASE ShrinkApply(c)
  <2>1. active_ranks - amount[c] \in 1..(U32 - 1)
    BY <1>6 DEF ShrinkApply
  <2>2. \A n \in 1..(U32 - 1) : n % U32 = n
    OBVIOUS
  <2>3. NeverEmpty'
    BY <1>6, <2>1, <2>2 DEF ShrinkApply
  <2>4. \A d \in Call : d # c => pc'[d] = pc[d] /\ amount'[d] = amount[d]
    BY <1>6 DEF ShrinkApply
  <2>5. AdmittedStands'
    <3> SUFFICES ASSUME NEW d \in Call, pc'[d] = "shrink_sleep"
                 PROVE  amount'[d] < active_ranks'
      OBVIOUS
    <3>1. d # c
      BY <1>6 DEF ShrinkApply
    <3>2. amount[c] = 0 \/ amount[d] = 0
      BY <1>6, <2>4, <3>1 DEF ShrinkApply, OneShrink, Shrinking
    <3>3. CASE amount[c] = 0
      <4>1. active_ranks' = active_ranks
        BY <1>6, <2>1, <2>2, <3>3 DEF ShrinkApply
      <4> QED
        BY <2>4, <3>1, <4>1
    <3>4. CASE amount[d] = 0
      BY <1>6, <2>1, <2>2, <2>4, <3>1, <3>4 DEF ShrinkApply
    <3> QED
      BY <3>2, <3>3, <3>4
  <2> QED
    BY <1>1, <1>2, <2>3, <2>5
<1>7. CASE ShrinkPanic(c)
  BY <1>1, <1>2, <1>7 DEF ShrinkPanic
<1>8. CASE ExpandApply(c)
  BY <1>1, <1>2, <1>8 DEF ExpandApply
<1>9. CASE Reply(c) \/ Cancel(c)
  BY <1>1, <1>2, <1>9 DEF Reply, Cancel, Forget
<1> QED
  BY <1>3, <1>4, <1>5, <1>6, <1>7, <1>8, <1>9 DEF Step, Work, Wake

\* A step of NextSerial is a step, and starts a shrink that excludes ranks only
\* when no other does.
LEMMA NextSerialStep ==
    ASSUME TypeOK, NextSerial
    PROVE  \E c \in Call :
              /\ Step(c)
              /\ pc[c] = "idle" /\ pc'[c] \in Shrinking => amount'[c] = 0 \/ NoShrinkInFlight
<1>1. CASE \E c \in Call, k \in Amount : (k = 0 \/ NoShrinkInFlight) /\ ShrinkCall(c, k)
  BY <1>1 DEF Step, ShrinkCall, TypeOK
<1>2. CASE \E c \in Call, k \in Amount : ExpandCall(c, k)
  BY <1>2 DEF Step, ExpandCall, TypeOK, Goto, Shrinking
<1>3. CASE \E c \in Call : Work(c)
  <2> PICK c \in Call : Work(c)
    BY <1>3
  <2>1. pc[c] # "idle"
    BY DEF Work, Wake, ShrinkRefuse, ShrinkAdmit, ShrinkApply, ShrinkPanic, ExpandApply,
       Reply, Cancel
  <2> QED
    BY <2>1 DEF Step
<1> QED
  BY <1>1, <1>2, <1>3 DEF NextSerial

\* If shrinks come one at a time, at most one takes ranks, and what a sleeping
\* shrink was admitted to take off is still there when it wakes.
THEOREM SimSerialInductive == SpecSerial => []InductiveSerial
<1>1. Init => InductiveSerial
  BY InitInductive
<1>2. InductiveSerial /\ [NextSerial]_vars => InductiveSerial'
  <2> SUFFICES ASSUME InductiveSerial, [NextSerial]_vars PROVE InductiveSerial'
    OBVIOUS
  <2>1. CASE NextSerial
    BY <2>1, NextSerialStep, StepSerial DEF InductiveSerial
  <2>2. CASE UNCHANGED vars
    BY <2>2 DEF vars, InductiveSerial, TypeOK, OneShrink, AdmittedStands, NeverEmpty
  <2> QED
    BY <2>1, <2>2
<1> QED
  BY <1>1, <1>2, PTL DEF SpecSerial

\* Callers that shrink one at a time never empty the communicator.
THEOREM SimNeverEmpty == SpecSerial => []NeverEmpty
<1>1. InductiveSerial => NeverEmpty
  BY DEF InductiveSerial
<1> QED
  BY <1>1, SimSerialInductive, PTL

-----------------------------------------------------------------------------
\* What each call is doing, seen from outside.
Phases == [c \in Call |-> Phase(pc[c])]

\* A call that goes on to a label goes on to its phase.
LEMMA PhaseGoto ==
    ASSUME TypeOK, NEW c \in Call, NEW label, Goto(c, label)
    PROVE  Phases' = [Phases EXCEPT ![c] = Phase(label)]
<1>1. pc' = [pc EXCEPT ![c] = label]
  BY DEF Goto
<1>2. \A d \in Call : pc'[d] = IF d = c THEN label ELSE pc[d]
  BY <1>1 DEF TypeOK
<1>3. Phases' = [d \in Call |-> Phase(pc'[d])]
  BY DEF Phases
<1>4. [Phases EXCEPT ![c] = Phase(label)]
        = [d \in Call |-> IF d = c THEN Phase(label) ELSE Phase(pc[d])]
  BY DEF Phases
<1>5. \A d \in Call : Phase(pc'[d]) = IF d = c THEN Phase(label) ELSE Phase(pc[d])
  BY <1>2
<1> QED
  BY <1>3, <1>4, <1>5

\* The phases of the labels.
LEMMA PhaseOf ==
    /\ Phase("idle") = "idle" /\ Phase("shrink") = "shrink"
    /\ Phase("shrink_sleep") = "shrink" /\ Phase("expand_sleep") = "expand"
    /\ Phase("shrunk") = "success" /\ Phase("expanded") = "success"
    /\ Phase("refused") = "refused"
  BY DEF Phase, Shrinking

\* Every step of the backend is one of an atomic communicator, with the same
\* amount and the same answer, or none.  Only the panic has no counterpart, and
\* it does not happen: what was admitted is still there.
LEMMA StepAbstract ==
    ASSUME InductiveSerial, NEW c \in Call, Step(c)
    PROVE  Abstract!Next \/ UNCHANGED Abstract!vars
<1>0. TypeOK /\ Phases[c] = Phase(pc[c])
  BY DEF InductiveSerial, Phases
<1> USE SimAssumption DEF Abstract!vars
<1>1. ASSUME NEW k \in Amount, ShrinkCall(c, k) PROVE Abstract!Request(c, "shrink", k)
  <2>1. Phases' = [Phases EXCEPT ![c] = "shrink"] /\ Phases[c] = "idle"
    BY <1>0, <1>1, PhaseGoto, PhaseOf DEF ShrinkCall
  <2> QED
    BY <1>1, <2>1 DEF ShrinkCall, Abstract!Request, Phases
<1>2. ASSUME NEW k \in Amount, ExpandCall(c, k) PROVE Abstract!Request(c, "expand", k)
  <2>1. Phases' = [Phases EXCEPT ![c] = "expand"] /\ Phases[c] = "idle"
    BY <1>0, <1>2, PhaseGoto, PhaseOf DEF ExpandCall
  <2> QED
    BY <1>2, <2>1 DEF ExpandCall, Abstract!Request, Phases
<1>3. ASSUME ShrinkRefuse(c) PROVE Abstract!Refuse(c)
  <2>1. Phases' = [Phases EXCEPT ![c] = "refused"] /\ Phases[c] = "shrink"
    BY <1>0, <1>3, PhaseGoto, PhaseOf DEF ShrinkRefuse
  <2> QED
    BY <1>3, <2>1 DEF ShrinkRefuse, Abstract!Refuse, Abstract!Answer, Phases
<1>4. ASSUME ShrinkAdmit(c) PROVE UNCHANGED Abstract!vars
  <2>1. Phases' = [Phases EXCEPT ![c] = "shrink"] /\ Phases[c] = "shrink"
    BY <1>0, <1>4, PhaseGoto, PhaseOf DEF ShrinkAdmit
  <2>2. Phases' = Phases
    BY <2>1 DEF Phases
  <2> QED
    BY <1>4, <2>2 DEF ShrinkAdmit, Phases
<1>5. ASSUME ShrinkApply(c) PROVE Abstract!Shrink(c)
  <2>1. Phases' = [Phases EXCEPT ![c] = "success"] /\ Phases[c] = "shrink"
    BY <1>0, <1>5, PhaseGoto, PhaseOf DEF ShrinkApply
  <2>2. active_ranks - amount[c] \in 1..(U32 - 1) /\ amount[c] < active_ranks
    BY <1>5 DEF ShrinkApply, AdmittedStands, InductiveSerial, TypeOK, Ranks
  <2>3. \A n \in 1..(U32 - 1) : n % U32 = n
    OBVIOUS
  <2>4. active_ranks' = active_ranks - amount[c]
    BY <1>5, <2>2, <2>3 DEF ShrinkApply
  <2> QED
    BY <1>5, <2>1, <2>2, <2>4
    DEF ShrinkApply, Report, Abstract!Shrink, Abstract!Answer, Phases
<1>6. ~ShrinkPanic(c)
  BY DEF ShrinkPanic, AdmittedStands, InductiveSerial, TypeOK, Ranks
<1>7. ASSUME ExpandApply(c) PROVE Abstract!Expand(c)
  <2>1. Phases' = [Phases EXCEPT ![c] = "success"] /\ Phases[c] = "expand"
    BY <1>0, <1>7, PhaseGoto, PhaseOf DEF ExpandApply
  <2>2. active_ranks' = IF active_ranks + amount[c] <= U32 - 1
                        THEN active_ranks + amount[c] ELSE U32 - 1
    BY <1>7 DEF ExpandApply, InductiveSerial, TypeOK, Ranks
  <2> QED
    BY <1>7, <2>1, <2>2 DEF ExpandApply, Report, Abstract!Expand, Abstract!Answer, Phases
<1>8. ASSUME Reply(c) \/ Cancel(c) PROVE Abstract!Return(c)
  <2>1. Forget(c) /\ Goto(c, "idle")
    BY <1>8 DEF Reply, Cancel, Forget
  <2>2. Phases' = [Phases EXCEPT ![c] = "idle"]
    BY <1>0, <2>1, PhaseGoto, PhaseOf
  <2>3. Phases[c] # "idle"
    BY <1>0, <1>8, PhaseOf DEF Reply, Cancel, Phase, Shrinking
  <2> QED
    BY <2>1, <2>2, <2>3 DEF Forget, Abstract!Return, Phases
<1> QED
  BY <1>1, <1>2, <1>3, <1>4, <1>5, <1>6, <1>7, <1>8 DEF Step, Work, Wake, Abstract!Next

\* Callers that shrink one at a time see an atomic communicator: the calls,
\* however expands overlap them, are linearizable, with the amounts asked for
\* and the counts reported.
THEOREM SimImplementsCommunicator == SpecSerial => ImplementsCommunicator
<1>1. Init => Abstract!Init
  BY PhaseOf DEF Init, Abstract!Init
<1>2. InductiveSerial /\ [NextSerial]_vars => [Abstract!Next]_(Abstract!vars)
  <2> SUFFICES ASSUME InductiveSerial, [NextSerial]_vars
               PROVE  Abstract!Next \/ UNCHANGED Abstract!vars
    OBVIOUS
  <2>1. CASE NextSerial
    BY <2>1, NextSerialStep, StepAbstract DEF InductiveSerial
  <2>2. CASE UNCHANGED vars
    BY <2>2 DEF vars, Abstract!vars
  <2> QED
    BY <2>1, <2>2
<1> QED
  BY <1>1, <1>2, SimSerialInductive, PTL DEF SpecSerial, ImplementsCommunicator, Abstract!Spec
=============================================================================

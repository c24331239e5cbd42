---------------------------- MODULE Healer_proofs ---------------------------
(***************************************************************************)
(* Theorems about Healer: to its backend the service is callers that       *)
(* behave as the backends' own modules say, so that what is proved there   *)
(* holds here; playbooks report what they did, and the two maps agree.     *)
(***************************************************************************)
EXTENDS Healer, TLAPS

SimTheorems  == INSTANCE NcclSim_proofs
RealTheorems == INSTANCE NcclReal_proofs

\* The places of a call in either backend.
Places == {"idle", "shrink", "shrink_sleep", "expand_sleep", "quiesce", "split", "store", "resume",
           "orphan", "refused", "shrunk", "expanded", "failed", "panicked"}

\* The part of the inductive invariant that is the service's own.
OwnTypeOK ==
    /\ job_comms \in [Job -> Ids] /\ world_sizes \in [Job -> Ids]
    /\ task \in [Call -> {"idle", "register", "direct", "playbook", "done", "unloaded"}]
    /\ job \in [Call -> Job \cup {None}] /\ comm \in [Call -> Ids]
    /\ plan \in [Call -> Seq({"log", "shrink"})]
    /\ actions_taken \in [Call -> Seq({"log", "ok", "FAILED", "ERROR"})]
    /\ pc \in [Call -> Places]
    /\ requests \in Ids
    /\ issued \in Seq(Job) /\ Len(issued) <= requests
    /\ mixed \subseteq Job
    /\ effect \in [Call -> SUBSET Nat]

Own == OwnTypeOK /\ CurrentStep /\ Fresh /\ IdleCalls /\ Registrations

LEMMA InitOwn == Init => Own
<1> SUFFICES ASSUME Init PROVE Own
  OBVIOUS
<1>1. 0 \in Ids /\ 0 \in 0..(U32 - 1)
  BY HealerAssumption DEF Ids
<1>2. OwnTypeOK
  <2>1. /\ job_comms \in [Job -> Ids] /\ world_sizes \in [Job -> Ids]
        /\ comm \in [Call -> Ids] /\ requests \in Ids
    BY <1>1 DEF Init
  <2>2. /\ plan \in [Call -> Seq({"log", "shrink"})]
        /\ actions_taken \in [Call -> Seq({"log", "ok", "FAILED", "ERROR"})]
        /\ issued \in Seq(Job) /\ Len(issued) = 0
    BY DEF Init
  <2>3. pc \in [Call -> Places] /\ effect \in [Call -> SUBSET Nat]
    BY DEF Init, Sim!Init, Places
  <2> QED
    BY <2>1, <2>2, <2>3 DEF Init, OwnTypeOK
<1>3. CurrentStep /\ Fresh /\ IdleCalls /\ Registrations
  BY DEF Init, Sim!Init, CurrentStep, Fresh, IdleCalls, Registrations, Registering
<1> QED
  BY <1>2, <1>3 DEF Own

-----------------------------------------------------------------------------
(* What the backends do to the place of a call                             *)

Moves(c, from, to) == pc[c] \in from /\ \E label \in to : pc' = [pc EXCEPT ![c] = label]

LEMMA BackendMoves ==
    ASSUME OwnTypeOK, NEW c \in Call
    PROVE  /\ \A k : BackendShrink(c, k) => Moves(c, {"idle"}, {"shrink"})
           /\ \A k : BackendExpand(c, k) => Moves(c, {"idle"}, {"expand_sleep", "failed"})
           /\ BackendReply(c) => Moves(c, {"refused", "shrunk", "expanded", "panicked", "failed"}, {"idle"})
           /\ BackendCancel(c) =>
                  \/ Moves(c, {"shrink", "shrink_sleep", "expand_sleep", "store"}, {"idle"})
                  \/ Moves(c, {"split"}, {"orphan"})
<1> USE DEF Moves, Sim!Goto, Real!Go, OwnTypeOK
<1>1. ASSUME NEW k, BackendShrink(c, k) PROVE Moves(c, {"idle"}, {"shrink"})
  BY <1>1 DEF BackendShrink, Sim!ShrinkCall, Real!ShrinkCall
<1>2. ASSUME NEW k, BackendExpand(c, k) PROVE Moves(c, {"idle"}, {"expand_sleep", "failed"})
  BY <1>2 DEF BackendExpand, Sim!ExpandCall, Real!ExpandCall
<1>3. ASSUME BackendReply(c)
      PROVE  Moves(c, {"refused", "shrunk", "expanded", "panicked", "failed"}, {"idle"})
  BY <1>3 DEF BackendReply, Sim!Reply, Sim!Forget, Real!Reply
<1>4. ASSUME BackendCancel(c)
      PROVE  \/ Moves(c, {"shrink", "shrink_sleep", "expand_sleep", "store"}, {"idle"})
             \/ Moves(c, {"split"}, {"orphan"})
  BY <1>4 DEF BackendCancel, Sim!Cancel, Sim!Forget, Real!Cancel
<1> QED
  BY <1>1, <1>2, <1>3, <1>4

\* Where a call goes from where in the backend, and when it takes effect.
LEMMA BackendSteps ==
    ASSUME OwnTypeOK, NEW c \in Call, Backend(c)
    PROVE  \/ Moves(c, {"shrink"}, {"refused", "shrink_sleep", "quiesce"})
           \/ Moves(c, {"shrink_sleep"}, {"shrunk", "panicked"})
           \/ Moves(c, {"expand_sleep"}, {"expanded"})
           \/ Moves(c, {"quiesce"}, {"split", "failed"})
           \/ Moves(c, {"split"}, {"store", "failed"})
           \/ Moves(c, {"store"}, {"resume"})
           \/ Moves(c, {"resume"}, {"shrunk", "failed"})
           \/ Moves(c, {"orphan"}, {"idle"})
<1> USE DEF Moves, Sim!Goto, Real!Go, OwnTypeOK
<1>1. CASE Sim!ShrinkRefuse(c) \/ Sim!ShrinkAdmit(c) \/ Sim!ShrinkApply(c)
           \/ Sim!ShrinkPanic(c) \/ Sim!ExpandApply(c)
  BY <1>1 DEF Sim!ShrinkRefuse, Sim!ShrinkAdmit, Sim!ShrinkApply, Sim!ShrinkPanic,
     Sim!ExpandApply
<1>2. CASE Real!Work(c)
  BY <1>2 DEF Real!Work, Real!ShrinkRefuse, Real!ShrinkAdmit, Real!Quiesce, Real!QuiesceFail,
     Real!Split, Real!SplitFail, Real!OrphanSplit, Real!Store, Real!Resume, Real!ResumeFail
<1> QED
  BY <1>1, <1>2 DEF Backend

LEMMA MovesInPlaces ==
    ASSUME OwnTypeOK, NEW c \in Call,
           \/ Backend(c) \/ BackendReply(c) \/ BackendCancel(c)
           \/ \E k : BackendShrink(c, k) \/ BackendExpand(c, k)
    PROVE  pc' \in [Call -> Places]
<1>1. \E label \in Places : pc' = [pc EXCEPT ![c] = label]
  BY BackendMoves, BackendSteps DEF Moves, Places
<1> QED
  BY <1>1 DEF OwnTypeOK

-----------------------------------------------------------------------------
(* The service                                                             *)

LEMMA EndTypes ==
    ASSUME OwnTypeOK, NEW c \in Call, NEW from, End(c, from)
    PROVE  /\ task' \in [Call -> {"idle", "register", "direct", "playbook", "done", "unloaded"}]
           /\ job' \in [Call -> Job \cup {None}] /\ comm' \in [Call -> Ids]
<1>1. 0 \in Ids
  BY HealerAssumption DEF Ids
<1> QED
  BY <1>1 DEF End, Go, OwnTypeOK

LEMMA ForgetTypes ==
    ASSUME OwnTypeOK, NEW c \in Call, ForgetPlaybook(c)
    PROVE  /\ plan' \in [Call -> Seq({"log", "shrink"})]
           /\ actions_taken' \in [Call -> Seq({"log", "ok", "FAILED", "ERROR"})]
           /\ effect' \in [Call -> SUBSET Nat]
<1>1. plan' \in [Call -> Seq({"log", "shrink"})]
  BY DEF ForgetPlaybook, OwnTypeOK
<1>2. actions_taken' \in [Call -> Seq({"log", "ok", "FAILED", "ERROR"})]
  BY DEF ForgetPlaybook, OwnTypeOK
<1> QED
  BY <1>1, <1>2 DEF ForgetPlaybook, OwnTypeOK

LEMMA StepOwnTypeOK ==
    ASSUME Own, Next
    PROVE  OwnTypeOK'
<1> USE HealerAssumption DEF Own, Go, Start, maps, asked, playbook, shared, rpc
<1>1. ASSUME NEW c \in Call, NEW j \in Job, RegisterComms(c, j) PROVE OwnTypeOK'
  <2>1. requests + 1 \in Ids /\ Len(issued) + 1 \in Ids /\ Len(issued) + 1 <= requests + 1
    BY <1>1 DEF RegisterComms, OwnTypeOK, Ids
  <2>2. issued' \in Seq(Job) /\ Len(issued') = Len(issued) + 1
    BY <1>1 DEF RegisterComms, OwnTypeOK
  <2>3. mixed' \subseteq Job
    BY <1>1 DEF RegisterComms, OwnTypeOK
  <2> QED
    BY <1>1, <2>1, <2>2, <2>3 DEF RegisterComms, OwnTypeOK
<1>2. ASSUME NEW c \in Call, NEW k \in Amount, DirectCall(c, k) PROVE OwnTypeOK'
  <2>1. requests + 1 \in Ids /\ Len(issued) <= requests + 1 /\ pc' \in [Call -> Places]
    BY <1>2, MovesInPlaces DEF DirectCall, OwnTypeOK, Ids
  <2> QED
    BY <1>2, <2>1 DEF DirectCall, OwnTypeOK
<1>3. ASSUME NEW c \in Call, NEW p \in Playbook, NEW j \in Job, Load(c, p, j)
      PROVE  OwnTypeOK'
  <2>1. requests + 1 \in Ids /\ Len(issued) <= requests + 1
    BY <1>3 DEF Load, OwnTypeOK, Ids
  <2>2. p \in Seq({"log", "shrink"})
    OBVIOUS
  <2> QED
    BY <1>3, <2>1, <2>2 DEF Load, OwnTypeOK
<1>4. ASSUME NEW c \in Call, LoadFails(c) PROVE OwnTypeOK'
  <2>1. requests + 1 \in Ids /\ Len(issued) <= requests + 1
    BY <1>4 DEF LoadFails, OwnTypeOK, Ids
  <2> QED
    BY <1>4, <2>1 DEF LoadFails, OwnTypeOK
<1>5. ASSUME NEW c \in Call, Drop(c) \/ Panics(c) PROVE OwnTypeOK'
  <2>1. pc' \in [Call -> Places]
    BY <1>5, MovesInPlaces DEF Drop, Panics, OwnTypeOK
  <2>2. ForgetPlaybook(c) /\ \E from : End(c, from)
    BY <1>5 DEF Drop, Panics
  <2> QED
    BY <1>5, <2>1, <2>2, EndTypes, ForgetTypes DEF Drop, Panics, End, OwnTypeOK
<1>6. ASSUME NEW c \in Call, RegisterSizes(c) PROVE OwnTypeOK'
  <2>1. End(c, "register") /\ comm[c] \in Ids
    BY <1>6 DEF RegisterSizes, OwnTypeOK
  <2> QED
    BY <1>6, <2>1, EndTypes DEF RegisterSizes, End, OwnTypeOK
<1>7. ASSUME NEW c \in Call, DirectReturns(c) PROVE OwnTypeOK'
  <2>1. pc' \in [Call -> Places] /\ End(c, "direct")
    BY <1>7, MovesInPlaces DEF DirectReturns, OwnTypeOK
  <2> QED
    BY <1>7, <2>1, EndTypes DEF DirectReturns, End, OwnTypeOK
<1>8. ASSUME NEW c \in Call, StepLogs(c) PROVE OwnTypeOK'
  BY <1>8 DEF StepLogs, Record, OwnTypeOK
<1>9. ASSUME NEW c \in Call, NEW k \in Amount, StepShrinks(c, k) PROVE OwnTypeOK'
  <2>1. pc' \in [Call -> Places]
    BY <1>9, MovesInPlaces DEF StepShrinks, OwnTypeOK
  <2>2. PICK id \in {0, job_comms[job[c]]} : comm' = [comm EXCEPT ![c] = id]
    BY <1>9 DEF StepShrinks
  <2>3. job[c] \in Job
    BY <1>9 DEF StepShrinks, AtStep, CurrentStep
  <2>4. comm' \in [Call -> Ids]
    BY <2>2, <2>3 DEF OwnTypeOK, Ids
  <2> QED
    BY <1>9, <2>1, <2>4 DEF StepShrinks, OwnTypeOK
<1>10. ASSUME NEW c \in Call, StepReturns(c) PROVE OwnTypeOK'
  <2>1. pc' \in [Call -> Places]
    BY <1>10, MovesInPlaces DEF StepReturns, OwnTypeOK
  <2>2. actions_taken' \in [Call -> Seq({"log", "ok", "FAILED", "ERROR"})]
    <3>1. \E a \in {"ok", "FAILED", "ERROR"} :
              actions_taken' = [actions_taken EXCEPT ![c] = Append(actions_taken[c], a)]
      BY <1>10 DEF StepReturns, Record
    <3> QED
      BY <3>1 DEF OwnTypeOK
  <2> QED
    BY <1>10, <2>1, <2>2 DEF StepReturns, OwnTypeOK
<1>11. ASSUME NEW c \in Call, Answer(c) PROVE OwnTypeOK'
  BY <1>11 DEF Answer, OwnTypeOK
<1>12. ASSUME NEW c \in Call, Answered(c) PROVE OwnTypeOK'
  <2>1. ForgetPlaybook(c) /\ \E from : End(c, from)
    BY <1>12 DEF Answered
  <2> QED
    BY <1>12, <2>1, EndTypes, ForgetTypes DEF Answered, End, OwnTypeOK
<1>13. ASSUME NEW c \in Call, Backend(c) PROVE OwnTypeOK'
  <2>1. pc' \in [Call -> Places]
    BY <1>13, MovesInPlaces
  <2>2. effect' \in [Call -> SUBSET Nat]
    <3>1. Step(c) \in Nat
      BY DEF Step, OwnTypeOK
    <3> QED
      BY <1>13, <3>1 DEF Backend, OwnTypeOK
  <2> QED
    BY <1>13, <2>1, <2>2 DEF Backend, OwnTypeOK
<1> QED
  BY <1>1, <1>2, <1>3, <1>4, <1>5, <1>6, <1>7, <1>8, <1>9, <1>10, <1>11, <1>12, <1>13
  DEF Next, Handler

\* What holds of a call and its playbook.
CallOK(d) ==
    /\ task[d] \in {"playbook", "done"} =>
        /\ job[d] \in Job
        /\ Len(actions_taken[d]) <= Len(plan[d])
        /\ task[d] = "done" => Len(actions_taken[d]) = Len(plan[d])
        /\ Told(d)
        /\ effect[d] \subseteq 1..Step(d)
        /\ pc[d] \in {"idle", "refused", "shrink", "shrink_sleep", "quiesce", "split"} =>
               Step(d) \notin effect[d]
        /\ pc[d] # "idle" =>
               /\ task[d] = "playbook" /\ Step(d) <= Len(plan[d]) /\ plan[d][Step(d)] = "shrink"
               /\ comm[d] # 0 => comm[d] \in DOMAIN issued /\ issued[comm[d]] = job[d]
        /\ pc[d] \in {"store", "resume", "shrunk"} => Step(d) \in effect[d]
        /\ pc[d] \notin {"expand_sleep", "expanded", "orphan"}
    /\ task[d] \in {"idle", "direct", "unloaded", "register"} =>
        actions_taken[d] = <<>> /\ effect[d] = {} /\ plan[d] = <<>>
    /\ task[d] \in {"register", "done", "unloaded"} => pc[d] = "idle"
    /\ task[d] = "idle" => pc[d] \in {"idle", "orphan"}

LEMMA CallsOK == CurrentStep /\ Fresh /\ IdleCalls <=> \A d \in Call : CallOK(d)
  BY DEF CurrentStep, Fresh, IdleCalls, CallOK

\* A step of another call, even a registration, leaves it so.
LEMMA Untouched ==
    ASSUME OwnTypeOK, NEW d \in Call, CallOK(d),
           task'[d] = task[d], pc'[d] = pc[d], plan'[d] = plan[d], effect'[d] = effect[d],
           actions_taken'[d] = actions_taken[d],
           job'[d] = job[d], comm'[d] = comm[d],
           \A i \in DOMAIN issued : i \in DOMAIN issued' /\ issued'[i] = issued[i]
    PROVE  CallOK(d)'
  BY DEF CallOK, Told, Step

LEMMA StepPlaybook ==
    ASSUME Own, Next
    PROVE  (CurrentStep /\ Fresh /\ IdleCalls)'
<1>0. /\ OwnTypeOK
      /\ \A d \in Call : CallOK(d)
      /\ (\A d \in Call : CallOK(d)') => (CurrentStep /\ Fresh /\ IdleCalls)'
  BY CallsOK DEF Own, CurrentStep, Fresh, IdleCalls, CallOK
<1> DEFINE Other(c) == \A d \in Call \ {c} : CallOK(d)'
           Good     == \A d \in Call : CallOK(d)'
<1> USE DEF Go, Start, maps, asked, playbook, shared, rpc, Moves
<1>1. ASSUME NEW c \in Call, NEW j \in Job, RegisterComms(c, j) PROVE Good
  <2>1. \A i \in DOMAIN issued : i \in DOMAIN issued' /\ issued'[i] = issued[i]
    BY <1>0, <1>1 DEF RegisterComms, OwnTypeOK
  <2>2. Other(c)
    BY <1>0, <1>1, <2>1, Untouched DEF RegisterComms, OwnTypeOK
  <2>3. CallOK(c)'
    BY <1>0, <1>1 DEF RegisterComms, OwnTypeOK, CallOK
  <2> QED
    BY <2>2, <2>3
<1>2. ASSUME NEW c \in Call, NEW k \in Amount, DirectCall(c, k) PROVE Good
  <2>1. Other(c)
    BY <1>0, <1>2, BackendMoves, Untouched DEF DirectCall, OwnTypeOK
  <2>2. CallOK(c)'
    BY <1>0, <1>2, BackendMoves DEF DirectCall, OwnTypeOK, CallOK, Told, Step
  <2> QED
    BY <2>1, <2>2
<1>3. ASSUME NEW c \in Call, NEW p \in Playbook, NEW j \in Job, Load(c, p, j) PROVE Good
  <2>1. Other(c)
    BY <1>0, <1>3, Untouched DEF Load, OwnTypeOK
  <2>2. CallOK(c)'
    BY <1>0, <1>3 DEF Load, OwnTypeOK, CallOK, Told, Step
  <2> QED
    BY <2>1, <2>2
<1>4. ASSUME NEW c \in Call, LoadFails(c) PROVE Good
  <2>1. Other(c)
    BY <1>0, <1>4, Untouched DEF LoadFails, OwnTypeOK
  <2>2. CallOK(c)'
    BY <1>0, <1>4 DEF LoadFails, OwnTypeOK, CallOK, Told, Step
  <2> QED
    BY <2>1, <2>2
<1>5. ASSUME NEW c \in Call, Drop(c) \/ Panics(c) PROVE Good
  <2>1. Other(c)
    <3>1. CASE Drop(c)
      <4> SUFFICES ASSUME NEW d \in Call \ {c} PROVE CallOK(d)'
        OBVIOUS
      <4>1. /\ task'[d] = task[d] /\ plan'[d] = plan[d] /\ effect'[d] = effect[d]
            /\ actions_taken'[d] = actions_taken[d] /\ job'[d] = job[d] /\ comm'[d] = comm[d]
            /\ issued' = issued
        BY <1>0, <3>1 DEF Drop, End, ForgetPlaybook, OwnTypeOK
      <4>2. pc'[d] = pc[d]
        BY <1>0, <3>1, BackendMoves DEF Drop, OwnTypeOK
      <4> QED
        BY <1>0, <4>1, <4>2, Untouched
    <3>2. CASE Panics(c)
      BY <1>0, <3>2, BackendMoves, Untouched DEF Panics, End, ForgetPlaybook, OwnTypeOK
    <3> QED
      BY <1>5, <3>1, <3>2
  <2>2. CallOK(c)'
    BY <1>0, <1>5, BackendMoves DEF Drop, Panics, End, ForgetPlaybook, OwnTypeOK, CallOK, Told, Step
  <2> QED
    BY <2>1, <2>2
<1>6. ASSUME NEW c \in Call, RegisterSizes(c) PROVE Good
  <2>1. Other(c)
    BY <1>0, <1>6, Untouched DEF RegisterSizes, End, OwnTypeOK
  <2>2. CallOK(c)'
    BY <1>0, <1>6 DEF RegisterSizes, End, OwnTypeOK, CallOK, Told, Step
  <2> QED
    BY <2>1, <2>2
<1>7. ASSUME NEW c \in Call, DirectReturns(c) PROVE Good
  <2>1. Other(c)
    BY <1>0, <1>7, BackendMoves, Untouched DEF DirectReturns, End, OwnTypeOK
  <2>2. CallOK(c)'
    BY <1>0, <1>7, BackendMoves DEF DirectReturns, End, OwnTypeOK, CallOK, Told, Step
  <2> QED
    BY <2>1, <2>2
<1>8. ASSUME NEW c \in Call, StepLogs(c) PROVE Good
  <2>1. Other(c)
    BY <1>0, <1>8, Untouched DEF StepLogs, AtStep, Record, OwnTypeOK
  <2>2. CallOK(c)'
    BY <1>0, <1>8 DEF StepLogs, AtStep, Record, OwnTypeOK, CallOK, Told, Step
  <2> QED
    BY <2>1, <2>2
<1>9. ASSUME NEW c \in Call, NEW k \in Amount, StepShrinks(c, k) PROVE Good
  <2>1. Other(c)
    BY <1>0, <1>9, BackendMoves, Untouched DEF StepShrinks, AtStep, OwnTypeOK
  <2>2. CallOK(c)'
    <3>1. pc'[c] = "shrink" /\ pc[c] = "idle" /\ task[c] = "playbook"
      BY <1>0, <1>9, BackendMoves DEF StepShrinks, AtStep, OwnTypeOK
    <3>2. job[c] \in Job /\ comm'[c] \in {0, job_comms[job[c]]}
      BY <1>0, <1>9, <3>1 DEF StepShrinks, OwnTypeOK, CallOK
    <3>3. comm'[c] # 0 => comm'[c] \in DOMAIN issued /\ issued[comm'[c]] = job[c]
      BY <3>2 DEF Own, Registrations
    <3>4. UNCHANGED <<task, job, plan, actions_taken, effect, issued>>
      BY <1>9 DEF StepShrinks
    <3>5. Step(c) <= Len(plan[c]) /\ plan[c][Step(c)] = "shrink"
      BY <1>9 DEF StepShrinks, AtStep
    <3> QED
      BY <1>0, <3>1, <3>3, <3>4, <3>5 DEF CallOK, Told, Step
  <2> QED
    BY <2>1, <2>2
<1>10. ASSUME NEW c \in Call, StepReturns(c) PROVE Good
  <2>1. Other(c)
    BY <1>0, <1>10, BackendMoves, Untouched DEF StepReturns, Record, OwnTypeOK
  <2>2. CallOK(c)'
    <3>1. pc'[c] = "idle" /\ pc[c] # "idle" /\ task[c] = "playbook"
      BY <1>0, <1>10, BackendMoves DEF StepReturns, OwnTypeOK
    <3>2. PICK a \in {"ok", "FAILED", "ERROR"} :
             /\ actions_taken'[c] = Append(actions_taken[c], a)
             /\ a = "ok" => pc[c] = "shrunk"
             /\ a = "FAILED" => pc[c] = "refused"
      BY <1>0, <1>10 DEF StepReturns, Record, OwnTypeOK
    <3>3. UNCHANGED <<task, job, comm, plan, effect, issued>>
      BY <1>10 DEF StepReturns
    <3>4. /\ Len(actions_taken'[c]) = Step(c) /\ actions_taken'[c][Step(c)] = a
          /\ Step(c) \in Nat /\ Len(actions_taken[c]) \in Nat
          /\ \A i \in 1..Len(actions_taken[c]) : actions_taken'[c][i] = actions_taken[c][i]
      BY <1>0, <3>2 DEF OwnTypeOK, Step
    <3>5. plan[c][Step(c)] = "shrink" /\ Step(c) <= Len(plan[c])
      BY <1>0, <3>1 DEF CallOK
    <3>6. Told(c)'
      <4> SUFFICES ASSUME NEW i \in 1..Step(c)
                   PROVE  /\ actions_taken'[c][i] = "log" <=> plan[c][i] = "log"
                          /\ actions_taken'[c][i] = "ok" => i \in effect[c]
                          /\ actions_taken'[c][i] \in {"log", "FAILED"} => i \notin effect[c]
        BY <3>3, <3>4 DEF Told
      <4>1. CASE i = Step(c)
        BY <1>0, <3>1, <3>2, <3>4, <3>5, <4>1 DEF CallOK
      <4>2. CASE i # Step(c)
        <5>1. i \in 1..Len(actions_taken[c])
          BY <3>4, <4>2 DEF Step
        <5> QED
          BY <1>0, <3>1, <3>4, <5>1 DEF CallOK, Told
      <4> QED
        BY <4>1, <4>2
    <3>7. Step(c)' = Step(c) + 1 /\ Step(c)' \notin effect'[c] /\ effect'[c] \subseteq 1..Step(c)'
      BY <1>0, <3>1, <3>3, <3>4 DEF CallOK, Step
    <3> QED
      BY <1>0, <3>1, <3>3, <3>4, <3>5, <3>6, <3>7 DEF CallOK
  <2> QED
    BY <2>1, <2>2
<1>11. ASSUME NEW c \in Call, Answer(c) PROVE Good
  <2>1. Other(c)
    BY <1>0, <1>11, Untouched DEF Answer, OwnTypeOK
  <2>2. CallOK(c)'
    BY <1>0, <1>11 DEF Answer, OwnTypeOK, CallOK, Told, Step
  <2> QED
    BY <2>1, <2>2
<1>12. ASSUME NEW c \in Call, Answered(c) PROVE Good
  <2>1. Other(c)
    <3> SUFFICES ASSUME NEW d \in Call \ {c} PROVE CallOK(d)'
      OBVIOUS
    <3>1. /\ task'[d] = task[d] /\ plan'[d] = plan[d] /\ effect'[d] = effect[d]
          /\ actions_taken'[d] = actions_taken[d] /\ job'[d] = job[d] /\ comm'[d] = comm[d]
          /\ pc'[d] = pc[d] /\ issued' = issued
      BY <1>0, <1>12 DEF Answered, End, ForgetPlaybook, OwnTypeOK
    <3> QED
      BY <1>0, <3>1, Untouched
  <2>2. CallOK(c)'
    BY <1>0, <1>12 DEF Answered, End, ForgetPlaybook, OwnTypeOK, CallOK, Told, Step
  <2> QED
    BY <2>1, <2>2
<1>13. ASSUME NEW c \in Call, Backend(c) PROVE Good
  <2>1. Other(c)
    <3> SUFFICES ASSUME NEW d \in Call \ {c} PROVE CallOK(d)'
      OBVIOUS
    <3>1. UNCHANGED <<task, job, comm, plan, actions_taken, issued>>
      BY <1>13 DEF Backend
    <3>2. effect'[d] = effect[d]
      BY <1>0, <1>13 DEF Backend, OwnTypeOK
    <3>3. pc'[d] = pc[d]
      <4>1. \E from, to : Moves(c, from, to)
        <5> HIDE DEF Moves
        <5> QED
          BY <1>0, <1>13, BackendSteps
      <4>2. \E new : pc' = [pc EXCEPT ![c] = new]
        BY <4>1 DEF Moves
      <4> QED
        BY <1>0, <4>2 DEF OwnTypeOK
    <3> QED
      BY <1>0, <3>1, <3>2, <3>3, Untouched
  <2>2. CallOK(c)'
    <3>1. UNCHANGED <<task, job, comm, plan, actions_taken, issued>>
      BY <1>13 DEF Backend
    <3>2. Step(c)' = Step(c) /\ Step(c) \in Nat /\ Len(actions_taken[c]) < Step(c) /\ Step(c) >= 1
      BY <1>0, <3>1 DEF Step, OwnTypeOK
    <3>3. effect'[c] = IF /\ task[c] = "playbook"
                          /\ pc[c] \in {"shrink_sleep", "split"} /\ pc'[c] \in {"shrunk", "store"}
                       THEN effect[c] \cup {Step(c)} ELSE effect[c]
      BY <1>0, <1>13 DEF Backend, OwnTypeOK
    <3>4. Told(c) => Told(c)'
      BY <3>1, <3>2, <3>3 DEF Told
    <3>5. \/ pc[c] = "shrink" /\ pc'[c] \in {"refused", "shrink_sleep", "quiesce"}
          \/ pc[c] = "shrink_sleep" /\ pc'[c] \in {"shrunk", "panicked"}
          \/ pc[c] = "expand_sleep" /\ pc'[c] \in {"expanded"}
          \/ pc[c] = "quiesce" /\ pc'[c] \in {"split", "failed"}
          \/ pc[c] = "split" /\ pc'[c] \in {"store", "failed"}
          \/ pc[c] = "store" /\ pc'[c] \in {"resume"}
          \/ pc[c] = "resume" /\ pc'[c] \in {"shrunk", "failed"}
          \/ pc[c] = "orphan" /\ pc'[c] \in {"idle"}
      BY <1>0, <1>13, BackendSteps DEF OwnTypeOK
    <3>6. effect[c] \subseteq 1..Step(c) => effect'[c] \subseteq 1..Step(c)
      BY <3>2, <3>3
    <3>7. CASE task[c] = "playbook"
      BY <1>0, <3>1, <3>2, <3>3, <3>4, <3>5, <3>6, <3>7 DEF CallOK
    <3>8. CASE task[c] # "playbook"
      <4>1. task[c] \in {"idle", "direct"} /\ (task[c] = "idle" => pc'[c] = "idle")
        <5>1. /\ task[c] \in {"register", "done", "unloaded"} => pc[c] = "idle"
              /\ task[c] = "idle" => pc[c] \in {"idle", "orphan"}
          BY <1>0 DEF CallOK
        <5>2. task[c] \in {"idle", "register", "direct", "playbook", "done", "unloaded"}
          BY <1>0 DEF OwnTypeOK
        <5> QED
          BY <3>5, <3>8, <5>1, <5>2
      <4>2. effect'[c] = effect[c]
        BY <3>3, <3>8
      <4> QED
        BY <1>0, <3>1, <4>1, <4>2 DEF CallOK
    <3> QED
      BY <3>7, <3>8
  <2> QED
    BY <2>1, <2>2
<1> QED
  BY <1>0, <1>1, <1>2, <1>3, <1>4, <1>5, <1>6, <1>7, <1>8, <1>9, <1>10, <1>11, <1>12, <1>13
  DEF Next, Handler

\* Registrations are the only steps that change the maps; one that no other of
\* its job overlaps leaves both with its own id.
LEMMA StepRegistrations ==
    ASSUME Own, Next
    PROVE  Registrations'
<1> USE DEF Own, Registrations, Registering, Go, Start, maps, asked
<1>1. ASSUME NEW c \in Call, NEW j \in Job, RegisterComms(c, j) PROVE Registrations'
  <2>1. \A i \in DOMAIN issued : i \in DOMAIN issued' /\ issued'[i] = issued[i]
    BY <1>1 DEF RegisterComms, OwnTypeOK
  <2>2. Len(issued) + 1 \in DOMAIN issued' /\ issued'[Len(issued) + 1] = j
    BY <1>1 DEF RegisterComms, OwnTypeOK
  <2> QED
    BY <1>1, <2>1, <2>2 DEF RegisterComms, OwnTypeOK
<1>2. ASSUME NEW c \in Call, RegisterSizes(c) PROVE Registrations'
  BY <1>2 DEF RegisterSizes, End, OwnTypeOK
<1>3. ASSUME UNCHANGED maps,
             \A j \in Job : Registering(j)' = Registering(j),
             \A c \in Call : task[c] = "register" => comm'[c] = comm[c]
      PROVE  Registrations'
  BY <1>3 DEF OwnTypeOK
<1>4. ASSUME UNCHANGED maps, NEW c \in Call, task[c] # "register", task'[c] # "register",
             \A d \in Call \ {c} : task'[d] = task[d] /\ job'[d] = job[d] /\ comm'[d] = comm[d]
      PROVE  Registrations'
  BY <1>3, <1>4
<1>5. ASSUME NEW c \in Call,
             \/ \E k \in Amount : DirectCall(c, k)
             \/ \E p \in Playbook, j \in Job : Load(c, p, j)
             \/ LoadFails(c)
      PROVE  Registrations'
  <2>1. UNCHANGED maps /\ task[c] # "register" /\ task'[c] # "register"
    BY <1>5 DEF DirectCall, Load, LoadFails, OwnTypeOK
  <2>2. \A d \in Call \ {c} : task'[d] = task[d] /\ job'[d] = job[d] /\ comm'[d] = comm[d]
    BY <1>5 DEF DirectCall, Load, LoadFails, OwnTypeOK
  <2> QED
    BY <1>4, <2>1, <2>2
<1>6. ASSUME NEW c \in Call, Drop(c) \/ DirectReturns(c) \/ Answered(c) \/ Panics(c)
      PROVE  Registrations'
  <2>1. UNCHANGED maps /\ task[c] # "register" /\ task'[c] # "register"
    BY <1>6 DEF Drop, DirectReturns, Answered, Panics, End, OwnTypeOK
  <2>2. \A d \in Call \ {c} : task'[d] = task[d] /\ job'[d] = job[d] /\ comm'[d] = comm[d]
    BY <1>6 DEF Drop, DirectReturns, Answered, Panics, End, OwnTypeOK
  <2> QED
    BY <1>4, <2>1, <2>2
<1>7. ASSUME NEW c \in Call, StepLogs(c) \/ StepReturns(c) \/ Answer(c)
                            \/ \E k \in Amount : StepShrinks(c, k)
      PROVE  Registrations'
  <2>1. UNCHANGED maps /\ task[c] # "register" /\ task'[c] # "register"
    BY <1>7 DEF StepLogs, StepShrinks, StepReturns, Answer, AtStep, OwnTypeOK
  <2>2. \A d \in Call \ {c} : task'[d] = task[d] /\ job'[d] = job[d] /\ comm'[d] = comm[d]
    BY <1>7 DEF StepLogs, StepShrinks, StepReturns, Answer, AtStep, OwnTypeOK
  <2> QED
    BY <1>4, <2>1, <2>2
<1>8. ASSUME NEW c \in Call, Backend(c) PROVE Registrations'
  BY <1>3, <1>8 DEF Backend
<1> QED
  BY <1>1, <1>2, <1>5, <1>6, <1>7, <1>8 DEF Next, Handler

LEMMA OwnInvariant == Spec => []Own
<1>1. Own /\ [Next]_vars => Own'
  <2> SUFFICES ASSUME Own, [Next]_vars PROVE Own'
    OBVIOUS
  <2>1. CASE Next
    BY <2>1, StepOwnTypeOK, StepPlaybook, StepRegistrations DEF Own
  <2>2. CASE UNCHANGED vars
    <3>1. /\ UNCHANGED <<job_comms, world_sizes, issued, mixed>>
          /\ UNCHANGED <<task, job, comm, requests, plan, actions_taken, effect, pc>>
      BY <2>2 DEF vars, maps, asked, playbook, rpc, shared
    <3> QED
      BY <3>1 DEF Own, OwnTypeOK, CurrentStep, Fresh, IdleCalls, Registrations, Registering,
         Told, Step
  <2> QED
    BY <2>1, <2>2
<1> QED
  BY <1>1, InitOwn, PTL DEF Spec

\* Playbooks report what they did, for any calls, jobs and playbooks.
THEOREM HealerReports == Spec => []PlaybookReports
<1>1. Own => PlaybookReports
  <2> SUFFICES ASSUME Own, NEW c \in Call, task[c] = "done"
               PROVE  Len(actions_taken[c]) = Len(plan[c]) /\ Told(c)
    BY DEF PlaybookReports
  <2> QED
    BY DEF Own, CurrentStep
<1> QED
  BY <1>1, OwnInvariant, PTL

\* A job's communicator and size belong together unless its registrations
\* overlapped, and a shrink names a communicator of its own job.
THEOREM HealerRegistrations == Spec => []RegistrationConsistent
<1>1. Own => RegistrationConsistent
  BY DEF Own, RegistrationConsistent, Registrations, CurrentStep
<1> QED
  BY <1>1, OwnInvariant, PTL

-----------------------------------------------------------------------------
(* What the service is to its backend                                      *)

LEMMA StepBackend == Next => backend' = backend
  BY DEF Next, Handler, RegisterComms, DirectCall, Load, LoadFails, Drop, RegisterSizes,
     DirectReturns, StepLogs, StepShrinks, StepReturns, Answer, Answered, Panics, Backend

LEMMA SimStep ==
    ASSUME Own, backend = "sim", Next
    PROVE  SimTheorems!Next \/ UNCHANGED SimTheorems!vars
<1> USE DEF SimTheorems!Next, SimTheorems!Work, SimTheorems!Wake, SimTheorems!ShrinkCall, SimTheorems!ExpandCall,
            SimTheorems!Goto, Sim!Goto
<1>1. ASSUME NEW c \in Call, NEW k \in Amount, BackendShrink(c, k) \/ BackendExpand(c, k)
      PROVE  SimTheorems!Next
  BY <1>1 DEF BackendShrink, BackendExpand, Sim!ShrinkCall, Sim!ExpandCall
<1>2. ASSUME NEW c \in Call, BackendReply(c) PROVE SimTheorems!Next
  BY <1>2 DEF BackendReply, Sim!Reply, SimTheorems!Reply, Sim!Forget, SimTheorems!Forget
<1>3. ASSUME NEW c \in Call, BackendCancel(c) PROVE SimTheorems!Next
  BY <1>3 DEF BackendCancel, Sim!Cancel, SimTheorems!Cancel, Sim!Forget, SimTheorems!Forget
<1>4. ASSUME NEW c \in Call, Backend(c) PROVE SimTheorems!Next
  BY <1>4 DEF Backend, Sim!ShrinkRefuse, SimTheorems!ShrinkRefuse,
     Sim!ShrinkAdmit, SimTheorems!ShrinkAdmit, Sim!ShrinkApply, SimTheorems!ShrinkApply,
     Sim!ShrinkPanic, SimTheorems!ShrinkPanic, Sim!ExpandApply, SimTheorems!ExpandApply,
     Sim!Report, SimTheorems!Report
<1>5. ASSUME NEW c \in Call, NEW k \in Amount, StepShrinks(c, k) PROVE SimTheorems!Next
  BY <1>1, <1>5 DEF StepShrinks
<1>6. ASSUME NEW c \in Call,
             \/ \E j \in Job : RegisterComms(c, j)
             \/ \E p \in Playbook, j \in Job : Load(c, p, j)
             \/ LoadFails(c) \/ RegisterSizes(c) \/ StepLogs(c) \/ Answer(c) \/ Answered(c)
      PROVE  UNCHANGED SimTheorems!vars
  BY <1>6 DEF RegisterComms, Load, LoadFails, RegisterSizes, StepLogs, Answer, Answered,
     SimTheorems!vars, rpc, shared
<1>7. ASSUME NEW c \in Call,
             \/ \E k \in Amount : DirectCall(c, k)
             \/ Drop(c) \/ DirectReturns(c) \/ StepReturns(c) \/ Panics(c)
      PROVE  SimTheorems!Next
  BY <1>1, <1>2, <1>3, <1>7 DEF DirectCall, Drop, DirectReturns, StepReturns, Panics
<1> QED
  BY <1>4, <1>5, <1>6, <1>7 DEF Next, Handler

\* Over the simulated backend, the requests of any clients, playbooks included,
\* are calls as NcclSim describes them, ...
THEOREM HealerServesSim == Spec /\ backend = "sim" => SimTheorems!Spec
<1>1. Init => SimTheorems!Init
  BY DEF Init, Sim!Init, SimTheorems!Init
<1>2. Own /\ backend = "sim" /\ [Next]_vars
      => [SimTheorems!Next]_(SimTheorems!vars) /\ (backend = "sim")'
  <2> SUFFICES ASSUME Own, backend = "sim", [Next]_vars
               PROVE  [SimTheorems!Next]_(SimTheorems!vars) /\ backend' = "sim"
    OBVIOUS
  <2>1. CASE Next
    BY <2>1, SimStep, StepBackend
  <2>2. CASE UNCHANGED vars
    BY <2>2 DEF vars, rpc, shared, SimTheorems!vars
  <2> QED
    BY <2>1, <2>2
<1> QED
  BY <1>1, <1>2, OwnInvariant, PTL DEF Spec, SimTheorems!Spec

-----------------------------------------------------------------------------
(* The same for the real backend                                           *)

LEMMA RealStep ==
    ASSUME Own, backend = "real", Next
    PROVE  RealTheorems!Next \/ UNCHANGED RealTheorems!vars
<1> USE DEF RealTheorems!Next, RealTheorems!ShrinkCall, RealTheorems!ExpandCall,
            RealTheorems!Go, Real!Go, RealTheorems!Forget, Real!Forget
<1>1. ASSUME NEW c \in Call, NEW k \in Amount, BackendShrink(c, k) \/ BackendExpand(c, k)
      PROVE  RealTheorems!Next
  BY <1>1 DEF BackendShrink, BackendExpand, Real!ShrinkCall, Real!ExpandCall
<1>2. ASSUME NEW c \in Call, BackendReply(c) PROVE RealTheorems!Next
  BY <1>2 DEF BackendReply, Real!Reply, RealTheorems!Reply
<1>3. ASSUME NEW c \in Call, BackendCancel(c) PROVE RealTheorems!Next
  BY <1>3 DEF BackendCancel, Real!Cancel, RealTheorems!Cancel
<1>4. ASSUME NEW c \in Call, Backend(c) PROVE RealTheorems!Next
  BY <1>4 DEF Backend, Real!Work, RealTheorems!Work,
     Real!ShrinkRefuse, RealTheorems!ShrinkRefuse, Real!ShrinkAdmit, RealTheorems!ShrinkAdmit,
     Real!InFlight, RealTheorems!InFlight, Real!BeforeStore, RealTheorems!BeforeStore,
     Real!Quiesce, RealTheorems!Quiesce, Real!QuiesceFail, RealTheorems!QuiesceFail,
     Real!Split, RealTheorems!Split, Real!SplitFail, RealTheorems!SplitFail,
     Real!Exclude, RealTheorems!Exclude, Real!OrphanSplit, RealTheorems!OrphanSplit,
     Real!Store, RealTheorems!Store, Real!Resume, RealTheorems!Resume,
     Real!ResumeFail, RealTheorems!ResumeFail
<1>5. ASSUME NEW c \in Call, NEW k \in Amount, StepShrinks(c, k) PROVE RealTheorems!Next
  BY <1>1, <1>5 DEF StepShrinks
<1>6. ASSUME NEW c \in Call,
             \/ \E j \in Job : RegisterComms(c, j)
             \/ \E p \in Playbook, j \in Job : Load(c, p, j)
             \/ LoadFails(c) \/ RegisterSizes(c) \/ StepLogs(c) \/ Answer(c) \/ Answered(c)
      PROVE  UNCHANGED RealTheorems!vars
  BY <1>6 DEF RegisterComms, Load, LoadFails, RegisterSizes, StepLogs, Answer, Answered,
     RealTheorems!vars, RealTheorems!local, rpc, shared, ofReal
<1>7. ASSUME NEW c \in Call,
             \/ \E k \in Amount : DirectCall(c, k)
             \/ Drop(c) \/ DirectReturns(c) \/ StepReturns(c) \/ Panics(c)
      PROVE  RealTheorems!Next
  BY <1>1, <1>2, <1>3, <1>7 DEF DirectCall, Drop, DirectReturns, StepReturns, Panics
<1> QED
  BY <1>4, <1>5, <1>6, <1>7 DEF Next, Handler

\* Over the real backend they are calls as NcclReal describes them.
THEOREM HealerServesReal == Spec /\ backend = "real" => RealTheorems!Spec
<1>1. Init => RealTheorems!Init
  BY DEF Init, Real!Init, RealTheorems!Init
<1>2. Own /\ backend = "real" /\ [Next]_vars
      => [RealTheorems!Next]_(RealTheorems!vars) /\ (backend = "real")'
  <2> SUFFICES ASSUME Own, backend = "real", [Next]_vars
               PROVE  [RealTheorems!Next]_(RealTheorems!vars) /\ backend' = "real"
    OBVIOUS
  <2>1. CASE Next
    BY <2>1, RealStep, StepBackend
  <2>2. CASE UNCHANGED vars
    BY <2>2 DEF vars, rpc, shared, ofReal, RealTheorems!vars, RealTheorems!local
  <2> QED
    BY <2>1, <2>2
<1> QED
  BY <1>1, <1>2, OwnInvariant, PTL DEF Spec, RealTheorems!Spec

-----------------------------------------------------------------------------
(* What is proved of the backends holds behind the service.                *)

LEMMA OverSim == Spec /\ backend = "sim" => []Sim!Inductive
<1>1. SimTheorems!SimAssumption
  BY HealerAssumption DEF SimTheorems!SimAssumption
<1>2. SimTheorems!Spec => []SimTheorems!Inductive
  BY <1>1, SimTheorems!SimInductive
<1>3. SimTheorems!Inductive => Sim!Inductive
  BY DEF SimTheorems!Inductive, Sim!Inductive, SimTheorems!TypeOK, Sim!TypeOK,
     SimTheorems!Ranks, Sim!Ranks, SimTheorems!Shrinking, Sim!Shrinking,
     SimTheorems!AloneUntouched, Sim!AloneUntouched, SimTheorems!AloneExact, Sim!AloneExact
<1> QED
  BY <1>2, <1>3, HealerServesSim, PTL

LEMMA OverReal == Spec /\ backend = "real" => []Real!Inductive
<1>1. RealTheorems!RealAssumption
  BY HealerAssumption DEF RealTheorems!RealAssumption
<1>2. RealTheorems!Spec => []RealTheorems!Inductive
  BY <1>1, RealTheorems!RealInductive
<1>3. RealTheorems!Inductive => Real!Inductive
  BY DEF RealTheorems!Inductive, Real!Inductive, RealTheorems!TypeOK, Real!TypeOK,
     RealTheorems!OrphansDropped, Real!OrphansDropped,
     RealTheorems!NeverUndercounts, Real!NeverUndercounts, RealTheorems!CountPositive, Real!CountPositive,
     RealTheorems!CountExact, Real!CountExact, RealTheorems!Storing, Real!Storing,
     RealTheorems!ClaimsStand, Real!ClaimsStand, RealTheorems!OneAtATime, Real!OneAtATime,
     RealTheorems!InFlight, Real!InFlight, RealTheorems!BeforeStore, Real!BeforeStore
<1> QED
  BY <1>2, <1>3, HealerServesReal, PTL

\* The service and the backend it was built with keep their invariants together.
THEOREM HealerInductive == Spec => []Inductive
<1>1. Own /\ ((backend = "sim" /\ Sim!Inductive) \/ (backend = "real" /\ Real!Inductive))
      => Inductive
  BY DEF Own, OwnTypeOK, Inductive, TypeOK, Sim!Inductive, Real!Inductive
<1>2. Spec => backend = "sim" \/ backend = "real"
  BY DEF Spec, Init
<1>3. /\ backend = "sim" /\ [Next]_vars => (backend = "sim")'
      /\ backend = "real" /\ [Next]_vars => (backend = "real")'
  BY StepBackend DEF vars
<1> QED
  BY <1>1, <1>2, <1>3, OwnInvariant, OverSim, OverReal, PTL DEF Spec

\* A shrink of the simulated backend that nothing overlaps reports exactly.
THEOREM HealerAloneExact == Spec => []AloneExact
<1>1. Inductive => AloneExact
  BY DEF Inductive, Sim!Inductive, AloneExact
<1> QED
  BY <1>1, HealerInductive, PTL

\* Whatever the clients do, and whatever fails, the real backend's count is
\* never less than the ranks left ...
THEOREM HealerRealSafe == Spec => []NeverUndercounts
<1>1. Inductive => NeverUndercounts
  BY DEF Inductive, Real!Inductive, NeverUndercounts
<1> QED
  BY <1>1, HealerInductive, PTL

\* ... while no calls overlap and none is dropped, splits leave a rank, even
\* after phases that failed, ...
THEOREM HealerRealNeverEmpty == Spec => []RealNeverEmpty
<1>1. RealTheorems!RealAssumption
  BY HealerAssumption DEF RealTheorems!RealAssumption
<1>2. RealTheorems!Spec => []RealTheorems!NeverEmpty
  BY <1>1, RealTheorems!RealSafe, PTL
<1>3. RealTheorems!NeverEmpty => RealNeverEmpty
  BY DEF RealTheorems!NeverEmpty, Real!NeverEmpty, RealNeverEmpty
<1>4. backend = "sim" => RealNeverEmpty
  BY DEF RealNeverEmpty
<1>5. Spec => (backend = "sim" \/ backend = "real")
  BY DEF Spec, Init
<1>6. backend = "sim" /\ [Next]_vars => (backend = "sim")'
  BY StepBackend DEF vars
<1> QED
  BY <1>2, <1>3, <1>4, <1>5, <1>6, HealerServesReal, PTL DEF Spec

\* ... and the count is exact; ...
THEOREM HealerCountExact == Spec => []CountExact
<1>1. Inductive => CountExact
  BY DEF Inductive, Real!Inductive, CountExact
<1> QED
  BY <1>1, HealerInductive, PTL

\* ... while no calls overlap, the communicator is split while training is paused.
THEOREM HealerSplitPaused == Spec => []SplitPaused
<1>1. Real!Inductive => Real!SplitPaused
  BY DEF Real!Inductive, Real!OneAtATime, Real!SplitPaused, Real!InFlight, Real!BeforeStore
<1>2. Inductive => SplitPaused
  BY <1>1 DEF Inductive, SplitPaused
<1> QED
  BY <1>2, HealerInductive, PTL
=============================================================================

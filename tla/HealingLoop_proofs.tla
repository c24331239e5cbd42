-------------------------- MODULE HealingLoop_proofs ------------------------
(***************************************************************************)
(* Theorems about HealingLoop: predictions that were heard are not         *)
(* forgotten, hooks ask for no shrink without one, and all clients         *)
(* together use the backend one shrink at a time, so that what             *)
(* NcclSim_proofs says of such callers holds of them.                      *)
(***************************************************************************)
EXTENDS HealingLoop, TLAPS

SimTheorems == INSTANCE NcclSim_proofs WITH Call <- Subscriber, pc <- rpc

\* The backend of the loop meets what NcclSim assumes of its constants.
LEMMA SimAssumed == SimTheorems!SimAssumption
  BY HealerAssumption DEF SimTheorems!SimAssumption

LEMMA InitInductive == Init => Inductive
<1> SUFFICES ASSUME Init PROVE Inductive
  OBVIOUS
<1> USE BusAssumption, HealerAssumption
<1>1. BusTypeOK /\ ReadsOn
  BY DEF Init, BusInit, BusTypeOK, ReadsOn
<1>2. Sim!TypeOK
  BY DEF Init, Sim!Init, Sim!TypeOK, Sim!Ranks, Sim!Shrinking
<1>3. TypeOK
  BY <1>1, <1>2 DEF Init, BusInit, TypeOK
<1>4. CallsOfWaiting
  BY DEF Init, Sim!Init, CallsOfWaiting, Waiting
<1> QED
  BY <1>1, <1>3, <1>4 DEF Init, Inductive, NothingForgotten, OwedFor, Owes, FlagAtClear

-----------------------------------------------------------------------------
(* The bus                                                                 *)

\* Every operation of the bus keeps its types, and no subscriber reads beyond
\* what was published.
LEMMA BusStep ==
    ASSUME BusTypeOK, ReadsOn,
           \/ \E e \in Event : Publish(e)
           \/ \E s \in Subscriber : Subscribe(s) \/ Unsubscribe(s) \/ Receive(s) \/ Skip(s)
           \/ UNCHANGED bus
    PROVE  BusTypeOK' /\ ReadsOn'
<1> USE BusAssumption DEF BusTypeOK, ReadsOn
<1>1. CASE \E e \in Event : Publish(e)
  BY <1>1 DEF Publish
<1>2. CASE \E s \in Subscriber : Subscribe(s) \/ Unsubscribe(s)
  <2> PICK s \in Subscriber : Subscribe(s) \/ Unsubscribe(s)
    BY <1>2
  <2>1. Len(log) \in Nat /\ Len(log) + 1 \in 0..(MaxEvents + 1)
    OBVIOUS
  <2>2. CASE Subscribe(s)
    BY <2>1, <2>2 DEF Subscribe
  <2>3. CASE Unsubscribe(s)
    BY <2>1, <2>3 DEF Unsubscribe
  <2> QED
    BY <2>2, <2>3
<1>3. CASE \E s \in Subscriber : Receive(s)
  BY <1>3 DEF Receive, CanReceive
<1>4. CASE \E s \in Subscriber : Skip(s)
  <2> PICK s \in Subscriber : Skip(s)
    BY <1>4
  <2>1. Oldest \in 1..(MaxEvents + 1) /\ Oldest <= Len(log) + 1
    BY DEF Oldest
  <2> QED
    BY <2>1 DEF Skip
<1>5. CASE UNCHANGED bus
  BY <1>5 DEF bus
<1> QED
  BY <1>1, <1>2, <1>3, <1>4, <1>5

\* Every step of the loop is an operation of the bus or leaves it alone.
LEMMA StepBus ==
    ASSUME Inductive, Next
    PROVE  BusTypeOK' /\ ReadsOn'
<1>1. Healer \in Subscriber /\ \A h \in Hook : h \in Subscriber
  BY HealerAssumption
<1>2. CASE \E e \in Event : PublishEvent(e)
  BY <1>2, BusStep DEF PublishEvent, Inductive, TypeOK
<1>3. CASE \E h \in Hook : Listen(h) \/ StreamFails(h) \/ Stop(h) \/ Listener(h)
  BY <1>1, <1>3, BusStep DEF Listen, StreamFails, Stop, Listener, Hear, Miss, Inductive, TypeOK
<1>4. CASE \E h \in Hook : Register(h) \/ ShrinkRaises(h) \/ Trainer(h)
  BY <1>4, BusStep DEF Register, ShrinkRaises, Trainer, TestFlag, ClearFlag, CallShrink,
     ShrinkReturns, Inductive, TypeOK
<1>5. CASE AgentListen \/ AgentHear \/ AgentMiss \/ AgentFails
  BY <1>1, <1>5, BusStep DEF AgentListen, AgentHear, AgentMiss, AgentFails, Inductive, TypeOK
<1>6. CASE \/ AgentReturns \/ AgentDone \/ \E k \in Amount : AgentCall(k)
           \/ \E c \in Subscriber : Backend(c)
  BY <1>6, BusStep DEF AgentReturns, AgentDone, AgentCall, Backend, Inductive, TypeOK
<1> QED
  BY <1>2, <1>3, <1>4, <1>5, <1>6 DEF Next

-----------------------------------------------------------------------------
(* The backend                                                             *)

\* A call that is under way at the backend can be dropped, or has ended.
LEMMA ForgetIsWork ==
    ASSUME Inductive, NEW c \in Subscriber, Waiting(c), Sim!Forget(c)
    PROVE  Sim!Work(c)
<1>1. rpc[c] # "idle"
  BY DEF Inductive, CallsOfWaiting
<1>2. rpc[c] \in {"shrink", "shrink_sleep", "expand_sleep"}
      \/ rpc[c] \in {"refused", "shrunk", "expanded", "panicked"}
  BY <1>1 DEF Inductive, TypeOK, Sim!TypeOK, Sim!Shrinking
<1> QED
  BY <1>2 DEF Sim!Work, Sim!Reply, Sim!Cancel

\* What the clients do with the backend is what callers do that shrink one at
\* a time: the hooks exclude nothing, and the agent has one call at most.
LEMMA StepServed ==
    ASSUME Inductive, Next
    PROVE  Sim!NextSerial \/ UNCHANGED sim
<1> USE DEF Sim!NextSerial
<1>1. Healer \in Subscriber /\ Healer \notin Hook /\ \A h \in Hook : h \in Subscriber
  BY HealerAssumption
<1>2. ASSUME NEW h \in Hook, CallShrink(h) PROVE Sim!NextSerial
  BY <1>1, <1>2, HealerAssumption DEF CallShrink
<1>3. ASSUME NEW h \in Hook, ShrinkReturns(h) PROVE Sim!NextSerial
  BY <1>1, <1>3 DEF ShrinkReturns, Sim!Work
<1>4. ASSUME NEW h \in Hook, ShrinkRaises(h) PROVE Sim!NextSerial
  BY <1>1, <1>4, ForgetIsWork DEF ShrinkRaises, Waiting
<1>5. ASSUME NEW k \in Amount, AgentCall(k) PROVE Sim!NextSerial
  <2>1. rpc[Healer] = "idle"
    BY <1>1, <1>5 DEF AgentCall, Inductive, CallsOfWaiting, Waiting
  <2>2. \A d \in Hook : amount[d] = 0
    BY <1>1 DEF Inductive, CallsOfWaiting
  <2>3. Sim!NoShrinkInFlight
    BY <2>1, <2>2, HealerAssumption DEF Sim!NoShrinkInFlight, Sim!Shrinking
  <2> QED
    BY <1>1, <1>5, <2>3 DEF AgentCall
<1>6. CASE AgentReturns
  BY <1>1, <1>6 DEF AgentReturns, Sim!Work
<1>7. CASE AgentFails
  BY <1>1, <1>7, ForgetIsWork DEF AgentFails, Waiting
<1>8. ASSUME NEW c \in Subscriber, Backend(c) PROVE Sim!NextSerial
  BY <1>8 DEF Backend, Sim!Work, Sim!Wake, Sim!ShrinkApply
<1>9. CASE \/ \E e \in Event : PublishEvent(e)
           \/ \E h \in Hook : \/ Register(h) \/ Listen(h) \/ StreamFails(h) \/ Stop(h)
                              \/ Listener(h) \/ TestFlag(h) \/ ClearFlag(h)
           \/ AgentListen \/ AgentHear \/ AgentMiss \/ AgentDone
  BY <1>9 DEF PublishEvent, Register, Listen, StreamFails, Stop, Listener, Hear, Miss,
     TestFlag, ClearFlag, AgentListen, AgentHear, AgentMiss, AgentDone
<1> QED
  BY <1>2, <1>3, <1>4, <1>5, <1>6, <1>7, <1>8, <1>9 DEF Next, Trainer

\* The backend's types, from NcclSim_proofs.
LEMMA StepSimTypeOK ==
    ASSUME Inductive, Next
    PROVE  Sim!TypeOK'
<1> USE DEF Sim!TypeOK, SimTheorems!TypeOK, Sim!Shrinking, Sim!Ranks,
            SimTheorems!Shrinking, SimTheorems!Ranks
<1>1. SimTheorems!TypeOK
  BY DEF Inductive, TypeOK
<1>2. CASE Sim!NextSerial
  <2>1. \E c \in Subscriber : SimTheorems!Step(c)
    BY <1>2 DEF Sim!NextSerial, SimTheorems!Step,
       Sim!Work, SimTheorems!Work, Sim!Wake, SimTheorems!Wake, Sim!ShrinkCall, SimTheorems!ShrinkCall,
       Sim!ExpandCall, SimTheorems!ExpandCall,
       Sim!ShrinkRefuse, SimTheorems!ShrinkRefuse, Sim!ShrinkAdmit, SimTheorems!ShrinkAdmit,
       Sim!ShrinkApply, SimTheorems!ShrinkApply, Sim!ShrinkPanic, SimTheorems!ShrinkPanic,
       Sim!ExpandApply, SimTheorems!ExpandApply, Sim!Reply, SimTheorems!Reply,
       Sim!Cancel, SimTheorems!Cancel, Sim!Forget, SimTheorems!Forget,
       Sim!Goto, SimTheorems!Goto, Sim!Report, SimTheorems!Report
  <2>2. SimTheorems!TypeOK'
    BY <1>1, <2>1, SimAssumed, SimTheorems!StepTypeOK
  <2> QED
    BY <2>2
<1>3. CASE UNCHANGED sim
  BY <1>1, <1>3 DEF sim
<1> QED
  BY <1>2, <1>3, StepServed

\* Whoever waits for the backend has a call there, and nobody else has.
LEMMA StepCalls ==
    ASSUME Inductive, Next
    PROVE  CallsOfWaiting'
<1> USE HealerAssumption DEF CallsOfWaiting, Waiting, Inductive, TypeOK, Sim!TypeOK, sim, Go,
                             Sim!Goto
<1>1. ASSUME NEW h \in Hook,
             \/ Register(h) \/ Listen(h) \/ StreamFails(h) \/ Stop(h)
             \/ Listener(h) \/ TestFlag(h) \/ ClearFlag(h)
      PROVE  CallsOfWaiting'
  BY <1>1 DEF Register, Listen, StreamFails, Stop, Listener, Hear, Miss, TestFlag, ClearFlag,
     hook
<1>2. ASSUME NEW h \in Hook, CallShrink(h) PROVE CallsOfWaiting'
  BY <1>2 DEF CallShrink, Sim!ShrinkCall
<1>3. ASSUME NEW h \in Hook, ShrinkReturns(h) PROVE CallsOfWaiting'
  BY <1>3 DEF ShrinkReturns, Sim!Reply, Sim!Forget
<1>4. ASSUME NEW h \in Hook, ShrinkRaises(h) PROVE CallsOfWaiting'
  BY <1>4 DEF ShrinkRaises, Sim!Forget
<1>5. CASE \/ \E e \in Event : PublishEvent(e)
           \/ AgentListen \/ AgentHear \/ AgentMiss \/ AgentDone
  BY <1>5 DEF PublishEvent, AgentListen, AgentHear, AgentMiss, AgentDone, hook
<1>6. ASSUME NEW k \in Amount, AgentCall(k) PROVE CallsOfWaiting'
  BY <1>6 DEF AgentCall, Sim!ShrinkCall, Sim!ExpandCall, hook
<1>7. CASE AgentReturns
  BY <1>7 DEF AgentReturns, Sim!Reply, Sim!Forget, hook
<1>8. CASE AgentFails
  BY <1>8 DEF AgentFails, Sim!Forget, hook
<1>9. ASSUME NEW c \in Subscriber, Backend(c) PROVE CallsOfWaiting'
  BY <1>9 DEF Backend, Sim!ShrinkRefuse, Sim!ShrinkAdmit, Sim!ShrinkApply, Sim!ExpandApply,
     hook
<1> QED
  BY <1>1, <1>2, <1>3, <1>4, <1>5, <1>6, <1>7, <1>8, <1>9 DEF Next, Trainer

-----------------------------------------------------------------------------
(* The hooks and the agent                                                 *)

\* What a hook has heard is flagged or about to be asked for, and it asks for
\* no more than it has heard.
Flagged == NothingForgotten /\ OwedFor /\ FlagAtClear

\* The types of the hooks and the agent.
LocalTypeOK ==
    /\ listener \in [Hook -> {"none", "starting", "listening", "ended"}]
    /\ pending \in [Hook -> BOOLEAN]
    /\ main \in [Hook -> {"new", "training", "clear", "call", "rpc", "stopped"}]
    /\ agent \in {"starting", "listening", "reacting", "rpc", "ended"}
    /\ heard \in [Hook -> 0..MaxEvents] /\ acted \in [Hook -> 0..MaxEvents]
    /\ highs \in [Hook -> Nat] /\ shrinks \in [Hook -> Nat]

LEMMA StepLocal ==
    ASSUME Inductive, Next
    PROVE  LocalTypeOK' /\ Flagged'
<1> USE DEF LocalTypeOK, Flagged, NothingForgotten, OwedFor, Owes, FlagAtClear, hook,
            history, Go
<1>1. LocalTypeOK /\ Flagged
  BY DEF Inductive, TypeOK
<1>2. CASE \E h \in Hook : Register(h) \/ Listen(h) \/ StreamFails(h) \/ Miss(h)
  BY <1>1, <1>2 DEF Register, Listen, StreamFails, Miss
<1>3. ASSUME NEW h \in Hook, Hear(h) PROVE LocalTypeOK' /\ Flagged'
  <2>1. next[h] \in 0..MaxEvents
    BY <1>3, BusAssumption, HealerAssumption DEF Hear, Receive, CanReceive, Inductive, TypeOK, BusTypeOK
  <2>2. CASE log[next[h]] = "high"
    <3>1. /\ pending' = [pending EXCEPT ![h] = TRUE]
          /\ heard' = [heard EXCEPT ![h] = next[h]]
          /\ highs' = [highs EXCEPT ![h] = @ + 1]
          /\ UNCHANGED <<listener, main, agent, acted, shrinks>>
      BY <1>3, <2>2 DEF Hear
    <3>2. LocalTypeOK'
      BY <1>1, <2>1, <3>1
    <3>3. NothingForgotten' /\ FlagAtClear'
      BY <1>1, <3>1
    <3>4. OwedFor'
      BY <1>1, <3>1
    <3> QED
      BY <3>2, <3>3, <3>4
  <2>3. CASE log[next[h]] # "high"
    BY <1>1, <1>3, <2>3 DEF Hear
  <2> QED
    BY <2>2, <2>3
<1>4. ASSUME NEW h \in Hook, TestFlag(h) \/ ShrinkReturns(h) \/ ShrinkRaises(h) \/ Stop(h)
      PROVE  LocalTypeOK' /\ Flagged'
  BY <1>1, <1>4 DEF TestFlag, ShrinkReturns, ShrinkRaises, Stop
<1>5. ASSUME NEW h \in Hook, ClearFlag(h) PROVE LocalTypeOK' /\ Flagged'
  BY <1>1, <1>5 DEF ClearFlag
<1>6. ASSUME NEW h \in Hook, CallShrink(h) PROVE LocalTypeOK' /\ Flagged'
  BY <1>1, <1>6 DEF CallShrink
<1>7. CASE \/ \E e \in Event : PublishEvent(e)
           \/ AgentListen \/ AgentHear \/ AgentMiss \/ AgentReturns \/ AgentDone \/ AgentFails
           \/ \E k \in Amount : AgentCall(k)
           \/ \E c \in Subscriber : Backend(c)
  BY <1>1, <1>7 DEF PublishEvent, AgentListen, AgentHear, AgentMiss, AgentReturns, AgentDone,
     AgentFails, AgentCall, Backend
<1> QED
  BY <1>2, <1>3, <1>4, <1>5, <1>6, <1>7 DEF Next, Listener, Trainer

-----------------------------------------------------------------------------
\* What the run checks as one invariant, for any number of hooks and events.
THEOREM LoopInductive == Spec => []Inductive
<1>1. Init => Inductive
  BY InitInductive
<1>2. Inductive /\ [Next]_vars => Inductive'
  <2> SUFFICES ASSUME Inductive, [Next]_vars PROVE Inductive'
    OBVIOUS
  <2>1. CASE Next
    BY <2>1, StepBus, StepSimTypeOK, StepCalls, StepLocal
    DEF Inductive, TypeOK, LocalTypeOK, Flagged
  <2>2. CASE UNCHANGED vars
    BY <2>2 DEF vars, bus, hook, sim, history, Inductive, TypeOK, BusTypeOK, Sim!TypeOK,
       NothingForgotten, OwedFor, Owes, FlagAtClear, ReadsOn, CallsOfWaiting, Waiting
  <2> QED
    BY <2>1, <2>2
<1> QED
  BY <1>1, <1>2, PTL DEF Spec

\* No prediction that was heard is forgotten.
THEOREM LoopActsOnPredictions == Spec => []NothingForgotten
<1>1. Inductive => NothingForgotten
  BY DEF Inductive
<1> QED
  BY <1>1, LoopInductive, PTL

\* No shrink is asked for without a prediction that was heard.
THEOREM LoopNoSpuriousShrink == Spec => []NoSpuriousShrink
<1>1. Inductive => NoSpuriousShrink
  BY DEF Inductive, TypeOK, OwedFor, Owes, NothingForgotten, NoSpuriousShrink
<1> QED
  BY <1>1, LoopInductive, PTL

\* All clients together shrink one at a time.
THEOREM LoopServedSerially == Spec => ServedSerially
<1>1. Init => Sim!Init
  BY DEF Init
<1>2. Inductive /\ [Next]_vars => [Sim!NextSerial]_(Sim!vars)
  BY StepServed DEF vars, sim, Sim!vars
<1> QED
  BY <1>1, <1>2, LoopInductive, PTL DEF Spec, ServedSerially, Sim!SpecSerial

\* The backend keeps a rank, whatever the agent decides and however many hooks
\* there are.
THEOREM LoopNeverEmpty == Spec => []NeverEmpty
<1>1. Sim!Init => SimTheorems!Init
  BY DEF Sim!Init, SimTheorems!Init
<1>2. [Sim!NextSerial]_(Sim!vars) => [SimTheorems!NextSerial]_(SimTheorems!vars)
  BY DEF Sim!NextSerial, SimTheorems!NextSerial, Sim!vars, SimTheorems!vars,
     Sim!NoShrinkInFlight, SimTheorems!NoShrinkInFlight, Sim!Shrinking, SimTheorems!Shrinking,
     Sim!Work, SimTheorems!Work, Sim!Wake, SimTheorems!Wake, Sim!ShrinkCall, SimTheorems!ShrinkCall,
     Sim!ExpandCall, SimTheorems!ExpandCall,
     Sim!ShrinkRefuse, SimTheorems!ShrinkRefuse, Sim!ShrinkAdmit, SimTheorems!ShrinkAdmit,
     Sim!ShrinkApply, SimTheorems!ShrinkApply, Sim!ShrinkPanic, SimTheorems!ShrinkPanic,
     Sim!ExpandApply, SimTheorems!ExpandApply, Sim!Reply, SimTheorems!Reply,
     Sim!Cancel, SimTheorems!Cancel, Sim!Forget, SimTheorems!Forget,
     Sim!Goto, SimTheorems!Goto, Sim!Report, SimTheorems!Report
<1>3. SimTheorems!NeverEmpty => NeverEmpty
  BY DEF SimTheorems!NeverEmpty, NeverEmpty, Sim!NeverEmpty
<1>4. SimTheorems!SpecSerial => []SimTheorems!NeverEmpty
  BY SimAssumed, SimTheorems!SimNeverEmpty
<1> QED
  BY <1>1, <1>2, <1>3, <1>4, LoopServedSerially, PTL
  DEF ServedSerially, Sim!SpecSerial, SimTheorems!SpecSerial
=============================================================================

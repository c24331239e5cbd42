----------------------------- MODULE HealingLoop ----------------------------
(***************************************************************************)
(* From a prediction to a shrink: predictions are published on the event   *)
(* bus; each training process has a NemesisHook, whose listener thread     *)
(* sets a flag that the training thread tests and clears at a step, and    *)
(* then asks the healer to shrink; the HealerAgent reacts to the same      *)
(* events with shrinks and expands of its own choice.  All of them share   *)
(* one simulated backend, which is module NcclSim itself.                  *)
(*                                                                         *)
(* What a language model decides, and whether a prediction is published,   *)
(* is left open.  Left out: the identity of the communicator, which the    *)
(* backend ignores, and the lock of step(), which only one thread takes.   *)
(***************************************************************************)
EXTENDS EventBus

CONSTANTS
    Hook,        \* the training processes with a hook
    Healer,      \* the healer agent
    U32, WorldSize, Amount   \* as in NcclSim

ASSUME HealerAssumption ==
    /\ Healer \notin Hook
    /\ Subscriber = Hook \cup {Healer}
    /\ {"high", "low"} = Event      \* confidence at least 0.95, or below
    /\ U32 \in Nat /\ WorldSize \in 1..(U32 - 1)
    /\ Amount \subseteq 0..(U32 - 1) /\ 0 \in Amount

VARIABLES
    listener,    \* where the listener thread of each hook is
    pending,     \* _shrink_pending
    main,        \* where the training thread of each hook is
    agent,       \* where the healer agent is
    active_ranks, rpc, amount, count, seen, alone,   \* NcclSim's, pc being rpc
    heard,       \* history: the last high event each hook has heard
    acted,       \* history: the value of heard at its last shrink
    highs,       \* history: how many high events each hook has heard
    shrinks      \* history: how many shrinks each hook has asked for

hook    == <<listener, pending, main>>
sim     == <<active_ranks, rpc, amount, count, seen, alone>>
history == <<heard, acted, highs, shrinks>>
vars    == <<bus, hook, agent, sim, history>>

Sim == INSTANCE NcclSim WITH Call <- Subscriber, pc <- rpc

TypeOK ==
    /\ BusTypeOK /\ Sim!TypeOK
    /\ listener \in [Hook -> {"none", "starting", "listening", "ended"}]
    /\ pending \in [Hook -> BOOLEAN]
    /\ main \in [Hook -> {"new", "training", "clear", "call", "rpc", "stopped"}]
    /\ agent \in {"starting", "listening", "reacting", "rpc", "ended"}
    /\ heard \in [Hook -> 0..MaxEvents] /\ acted \in [Hook -> 0..MaxEvents]
    /\ highs \in [Hook -> Nat] /\ shrinks \in [Hook -> Nat]

Init ==
    /\ BusInit /\ Sim!Init
    /\ listener = [h \in Hook |-> "none"]
    /\ pending = [h \in Hook |-> FALSE]
    /\ main = [h \in Hook |-> "new"]
    /\ agent = "starting"
    /\ heard = [h \in Hook |-> 0]
    /\ acted = [h \in Hook |-> 0]
    /\ highs = [h \in Hook |-> 0]
    /\ shrinks = [h \in Hook |-> 0]

Go(h, label) == main' = [main EXCEPT ![h] = label]

\* The telemetry agent, or any other client, publishes an event.
PublishEvent(e) == Publish(e) /\ UNCHANGED <<hook, agent, sim, history>>

-----------------------------------------------------------------------------
(* The listener thread of a hook                                           *)

\* The constructor returns once the job is registered; its thread has been
\* started and will subscribe later.
Register(h) ==
    /\ main[h] = "new"
    /\ Go(h, "training")
    /\ listener' = [listener EXCEPT ![h] = "starting"]
    /\ UNCHANGED <<bus, pending, agent, sim, history>>

Listen(h) ==
    /\ listener[h] = "starting"
    /\ Subscribe(h)
    /\ listener' = [listener EXCEPT ![h] = "listening"]
    /\ UNCHANGED <<pending, main, agent, sim, history>>

\* Only events of high confidence set the flag; of which kind they are is not
\* looked at.
Hear(h) ==
    /\ listener[h] = "listening"
    /\ Receive(h)
    /\ IF log[next[h]] = "high"
       THEN /\ pending' = [pending EXCEPT ![h] = TRUE]
            /\ heard' = [heard EXCEPT ![h] = next[h]]
            /\ highs' = [highs EXCEPT ![h] = @ + 1]
       ELSE UNCHANGED <<pending, heard, highs>>
    /\ UNCHANGED <<listener, main, agent, sim, acted, shrinks>>

Miss(h) ==
    /\ listener[h] = "listening"
    /\ Skip(h)
    /\ UNCHANGED <<hook, agent, sim, history>>

\* Any RPC error ends the thread, for good; some are logged.
StreamFails(h) ==
    /\ listener[h] \in {"starting", "listening"}
    /\ listener' = [listener EXCEPT ![h] = "ended"]
    /\ Unsubscribe(h)
    /\ UNCHANGED <<pending, main, agent, sim, history>>

-----------------------------------------------------------------------------
(* The training thread of a hook, in step()                                *)

TestFlag(h) ==
    /\ main[h] = "training"
    /\ pending[h]
    /\ Go(h, "clear")
    /\ UNCHANGED <<bus, listener, pending, agent, sim, history>>

\* Mutant: the flag stays set.
ClearFlagKept(h) ==
    /\ main[h] = "clear"
    /\ Go(h, "call")
    /\ UNCHANGED <<bus, listener, pending, agent, sim, history>>

ClearFlag(h) ==
    /\ main[h] = "clear"
    /\ pending' = [pending EXCEPT ![h] = FALSE]
    /\ Go(h, "call")
    /\ UNCHANGED <<bus, listener, agent, sim, history>>

\* Mutant: the request excludes ranks.
CallShrinkRanks(h) ==
    /\ main[h] = "call"
    /\ \E k \in Amount : Sim!ShrinkCall(h, k)
    /\ Go(h, "rpc")
    /\ acted' = [acted EXCEPT ![h] = heard[h]]
    /\ shrinks' = [shrinks EXCEPT ![h] = @ + 1]
    /\ UNCHANGED <<bus, listener, pending, agent, heard, highs>>

\* The request excludes no ranks.
CallShrink(h) ==
    /\ main[h] = "call"
    /\ Sim!ShrinkCall(h, 0)
    /\ Go(h, "rpc")
    /\ acted' = [acted EXCEPT ![h] = heard[h]]
    /\ shrinks' = [shrinks EXCEPT ![h] = @ + 1]
    /\ UNCHANGED <<bus, listener, pending, agent, heard, highs>>

\* Mutant: the flag is cleared when the shrink is done.
ShrinkReturnsClear(h) ==
    /\ main[h] = "rpc"
    /\ rpc[h] \in {"shrunk", "refused"}
    /\ Sim!Reply(h)
    /\ pending' = [pending EXCEPT ![h] = FALSE]
    /\ Go(h, "training")
    /\ UNCHANGED <<bus, listener, agent, history>>

\* Whether the shrink was carried out or refused, training goes on.
ShrinkReturns(h) ==
    /\ main[h] = "rpc"
    /\ rpc[h] \in {"shrunk", "refused"}
    /\ Sim!Reply(h)
    /\ Go(h, "training")
    /\ UNCHANGED <<bus, listener, pending, agent, history>>

\* The RPC fails, before or after the backend has done its work: step()
\* raises, and the training loop ends or handles that.
ShrinkRaises(h) ==
    /\ main[h] = "rpc"
    /\ Sim!Forget(h)
    /\ \E label \in {"training", "stopped"} : Go(h, label)
    /\ UNCHANGED <<bus, listener, pending, agent, history>>

\* The last training step, and close().
Stop(h) ==
    /\ main[h] = "training"
    /\ Go(h, "stopped")
    /\ listener' = [listener EXCEPT ![h] = "ended"]
    /\ Unsubscribe(h)
    /\ UNCHANGED <<pending, agent, sim, history>>

-----------------------------------------------------------------------------
(* The healer agent, which handles one event after another                 *)

AgentListen ==
    /\ agent = "starting"
    /\ Subscribe(Healer)
    /\ agent' = "listening"
    /\ UNCHANGED <<hook, sim, history>>

AgentHear ==
    /\ agent = "listening"
    /\ Receive(Healer)
    /\ agent' = "reacting"
    /\ UNCHANGED <<hook, sim, history>>

AgentMiss ==
    /\ agent \in {"listening", "reacting", "rpc"}
    /\ Skip(Healer)
    /\ UNCHANGED <<hook, agent, sim, history>>

\* A tool call, or a shrink step of a playbook.
AgentCall(k) ==
    /\ agent = "reacting"
    /\ Sim!ShrinkCall(Healer, k) \/ Sim!ExpandCall(Healer, k)
    /\ agent' = "rpc"
    /\ UNCHANGED <<bus, hook, history>>

AgentReturns ==
    /\ agent = "rpc"
    /\ rpc[Healer] \in {"shrunk", "refused", "expanded"}
    /\ Sim!Reply(Healer)
    /\ agent' = "reacting"
    /\ UNCHANGED <<bus, hook, history>>

\* The model has nothing more to do, or the loop has run ten times.
AgentDone ==
    /\ agent = "reacting"
    /\ agent' = "listening"
    /\ UNCHANGED <<bus, hook, sim, history>>

\* An RPC error, of a tool call or of the stream, ends the agent.
AgentFails ==
    /\ agent # "ended"
    /\ agent' = "ended"
    /\ Unsubscribe(Healer)
    /\ IF agent = "rpc" THEN Sim!Forget(Healer) ELSE UNCHANGED sim
    /\ UNCHANGED <<hook, history>>

-----------------------------------------------------------------------------
\* A step of the backend for one of its calls.  Its failures and its answers
\* are in the actions of the callers.
Backend(c) ==
    /\ Sim!ShrinkRefuse(c) \/ Sim!ShrinkAdmit(c) \/ Sim!ShrinkApply(c) \/ Sim!ExpandApply(c)
    /\ UNCHANGED <<bus, hook, agent, history>>

Listener(h) == Hear(h) \/ Miss(h)
Trainer(h)  == TestFlag(h) \/ ClearFlag(h) \/ CallShrink(h) \/ ShrinkReturns(h)

Next ==
    \/ \E e \in Event : PublishEvent(e)
    \/ \E h \in Hook : \/ Register(h) \/ Listen(h) \/ StreamFails(h) \/ Stop(h)
                       \/ ShrinkRaises(h)
                       \/ Listener(h) \/ Trainer(h)
    \/ AgentListen \/ AgentHear \/ AgentMiss \/ AgentReturns \/ AgentDone \/ AgentFails
    \/ \E k \in Amount : AgentCall(k)
    \/ \E c \in Subscriber : Backend(c)

Spec == Init /\ [][Next]_vars

\* Threads that can run do: a listener with events before it, a training loop
\* that has not ended and calls step() again, a backend call under way.
FairSpec ==
    /\ Spec
    /\ \A h \in Hook : WF_vars(Listener(h)) /\ WF_vars(Trainer(h))
    /\ \A c \in Subscriber : WF_vars(Backend(c))

-----------------------------------------------------------------------------
\* A high-confidence event that a hook has heard is still flagged, or its
\* shrink is about to be asked for, until one has been asked for after it:
\* neither events that coalesce in the flag, nor one that comes while a shrink
\* is under way or between the test and the clearing, are lost (hook.py:71-81).
NothingForgotten ==
    \A h \in Hook : heard[h] > acted[h] => pending[h] \/ main[h] = "call"

\* A hook asks for no more shrinks than it has heard events that call for one
\* (hook.py:66, "No-op in normal path").
NoSpuriousShrink == \A h \in Hook : shrinks[h] <= highs[h]

\* What makes the two inductive: the shrinks a hook still owes, flagged or
\* about to be asked for, are not more than the events it has heard without
\* asking for one; ...
Owes(h) == (IF pending[h] THEN 1 ELSE 0) + (IF main[h] = "call" THEN 1 ELSE 0)
OwedFor == \A h \in Hook : shrinks[h] + Owes(h) <= highs[h]
FlagAtClear == \A h \in Hook : main[h] = "clear" => pending[h]
ReadsOn == \A s \in Subscriber : next[s] <= Len(log) + 1

\* ... and who has a call at the backend: the hooks' take nothing.
Waiting(c) == IF c = Healer THEN agent = "rpc" ELSE main[c] = "rpc"
CallsOfWaiting ==
    \A c \in Subscriber :
        /\ Waiting(c) <=> rpc[c] # "idle"
        /\ c \in Hook => amount[c] = 0

Inductive ==
    /\ TypeOK
    /\ NothingForgotten /\ OwedFor /\ FlagAtClear /\ ReadsOn
    /\ CallsOfWaiting

\* With one healer agent the communicator keeps a rank, although the hooks'
\* shrinks overlap the agent's: theirs take nothing (sim.rs:83).
NeverEmpty == Sim!NeverEmpty

\* All clients together use the backend as if they shrank one at a time.
ServedSerially == Sim!SpecSerial

\* A high event in the backlog of a hook leads to a shrink asked for after it,
\* unless the hook's stream breaks, its training ends, or newer events push it
\* out of the channel (hook.py:57-60, 71-77).
Answered(h, i) == acted[h] >= i \/ lost[h] >= i \/ listener[h] = "ended" \/ main[h] = "stopped"
PredictionActedOn ==
    \A h \in Hook, i \in 1..MaxEvents :
        (/\ listener[h] = "listening" /\ next[h] <= i
         /\ i <= Len(log) /\ log[i] = "high") ~> Answered(h, i)

\* A shrink that a hook has asked for, and that nothing overlapped, leaves
\* fewer ranks than before (hook.py:69, "server derives affected ranks from
\* the gpu_id in the event").
ShrinkExcludes ==
    \A h \in Hook : rpc[h] = "shrunk" /\ alone[h] => count[h] < seen[h]
=============================================================================

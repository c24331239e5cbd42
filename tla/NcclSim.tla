------------------------------- MODULE NcclSim ------------------------------
(***************************************************************************)
(* NcclSim, the simulated NCCL backend: one count of active ranks behind a *)
(* mutex, and concurrent shrink and expand calls that give the mutex up    *)
(* while they sleep.  Shrink checks the count before its sleep and takes   *)
(* from it after.                                                          *)
(*                                                                         *)
(* Left out: the seed of the latency generator, the latency itself, and    *)
(* the text of errors.                                                     *)
(***************************************************************************)
EXTENDS Integers

CONSTANTS
    Call,        \* the backend calls that may be in flight
    U32,         \* the number of values of the counter, 2^32 in the code
    WorldSize,   \* the ranks the backend is created with
    Amount       \* how many ranks a call excludes or adds

ASSUME SimAssumption ==
    /\ U32 \in Nat /\ WorldSize \in 1..(U32 - 1)
    /\ Amount \subseteq 0..(U32 - 1)

VARIABLES
    active_ranks,   \* SimState.active_ranks
    pc,             \* where each call is
    amount,         \* how many ranks each call excludes or adds
    count,          \* the active_rank_count each call reports
    seen,           \* history: the count a shrink was admitted on
    alone           \* history: no other call has changed the count since

vars == <<active_ranks, pc, amount, count, seen, alone>>

Ranks == 0..(U32 - 1)

Shrinking == {"shrink", "shrink_sleep"}

TypeOK ==
    /\ active_ranks \in Ranks
    /\ pc \in [Call -> Shrinking \cup {"idle", "refused", "expand_sleep", "shrunk",
                                       "expanded", "panicked"}]
    /\ amount \in [Call -> Ranks]
    /\ count \in [Call -> Ranks]
    /\ seen \in [Call -> Ranks]
    /\ alone \in [Call -> BOOLEAN]

Init ==
    /\ active_ranks = WorldSize
    /\ pc = [c \in Call |-> "idle"]
    /\ amount = [c \in Call |-> 0]
    /\ count = [c \in Call |-> 0]
    /\ seen = [c \in Call |-> 0]
    /\ alone = [c \in Call |-> TRUE]

Goto(c, label) == pc' = [pc EXCEPT ![c] = label]

\* The count the call has written is the one it reports.
Report(c) ==
    /\ count' = [count EXCEPT ![c] = active_ranks']
    /\ alone' = [d \in Call |-> alone[d] /\ d = c]

ShrinkCall(c, k) ==
    /\ pc[c] = "idle"
    /\ amount' = [amount EXCEPT ![c] = k]
    /\ Goto(c, "shrink")
    /\ UNCHANGED <<active_ranks, count, seen, alone>>

\* Excluding all ranks, or more, is refused and changes nothing.
ShrinkRefuse(c) ==
    /\ pc[c] = "shrink"
    /\ amount[c] >= active_ranks
    /\ count' = [count EXCEPT ![c] = active_ranks]
    /\ Goto(c, "refused")
    /\ UNCHANGED <<active_ranks, amount, seen, alone>>

\* Mutant: all the ranks may be excluded.
ShrinkAdmitAll(c) ==
    /\ pc[c] = "shrink"
    /\ amount[c] <= active_ranks
    /\ seen' = [seen EXCEPT ![c] = active_ranks]
    /\ alone' = [alone EXCEPT ![c] = TRUE]
    /\ Goto(c, "shrink_sleep")
    /\ UNCHANGED <<active_ranks, amount, count>>

\* The check passes; the mutex is dropped and the call sleeps.
ShrinkAdmit(c) ==
    /\ pc[c] = "shrink"
    /\ amount[c] < active_ranks
    /\ seen' = [seen EXCEPT ![c] = active_ranks]
    /\ alone' = [alone EXCEPT ![c] = TRUE]
    /\ Goto(c, "shrink_sleep")
    /\ UNCHANGED <<active_ranks, amount, count>>

\* Mutant: the count is read before the ranks are taken off.
ShrinkApplyLate(c) ==
    /\ pc[c] = "shrink_sleep"
    /\ active_ranks' = (active_ranks - amount[c]) % U32
    /\ count' = [count EXCEPT ![c] = active_ranks]
    /\ alone' = [d \in Call |-> alone[d] /\ d = c]
    /\ Goto(c, "shrunk")
    /\ UNCHANGED <<amount, seen>>

\* Mutant: what is left of the count that was checked is written back, and
\* an expand in between is lost.
ShrinkApplyStored(c) ==
    /\ pc[c] = "shrink_sleep"
    /\ active_ranks' = seen[c] - amount[c]
    /\ Report(c)
    /\ Goto(c, "shrunk")
    /\ UNCHANGED <<amount, seen>>

\* The ranks are taken off without another check: a release build wraps
\* below zero.
ShrinkApply(c) ==
    /\ pc[c] = "shrink_sleep"
    /\ active_ranks' = (active_ranks - amount[c]) % U32
    /\ Report(c)
    /\ Goto(c, "shrunk")
    /\ UNCHANGED <<amount, seen>>

\* A build with overflow checks panics there instead.
ShrinkPanic(c) ==
    /\ pc[c] = "shrink_sleep"
    /\ amount[c] > active_ranks
    /\ Goto(c, "panicked")
    /\ UNCHANGED <<active_ranks, amount, count, seen, alone>>

\* The sleep ends.
Wake(c) ==
    /\ pc[c] = "shrink_sleep"
    /\ ShrinkApply(c) \/ ShrinkPanic(c)

ExpandCall(c, k) ==
    /\ pc[c] = "idle"
    /\ amount' = [amount EXCEPT ![c] = k]
    /\ Goto(c, "expand_sleep")
    /\ UNCHANGED <<active_ranks, count, seen, alone>>

\* The addition saturates.
ExpandApply(c) ==
    /\ pc[c] = "expand_sleep"
    /\ active_ranks' = IF active_ranks + amount[c] > U32 - 1 THEN U32 - 1
                       ELSE active_ranks + amount[c]
    /\ Report(c)
    /\ Goto(c, "expanded")
    /\ UNCHANGED <<amount, seen>>

Forget(c) ==
    /\ Goto(c, "idle")
    /\ amount' = [amount EXCEPT ![c] = 0]
    /\ count' = [count EXCEPT ![c] = 0]
    /\ seen' = [seen EXCEPT ![c] = 0]
    /\ alone' = [alone EXCEPT ![c] = TRUE]
    /\ UNCHANGED active_ranks

Reply(c) ==
    /\ pc[c] \in {"refused", "shrunk", "expanded", "panicked"}
    /\ Forget(c)

\* When the client goes away, a call may never reach the backend, or its future
\* is dropped at its only await, the sleep.
Cancel(c) ==
    /\ pc[c] \in {"shrink", "shrink_sleep", "expand_sleep"}
    /\ Forget(c)

Work(c) ==
    \/ ShrinkRefuse(c) \/ ShrinkAdmit(c) \/ Wake(c)
    \/ ExpandApply(c) \/ Reply(c) \/ Cancel(c)

Next ==
    \/ \E c \in Call, k \in Amount : ShrinkCall(c, k) \/ ExpandCall(c, k)
    \/ \E c \in Call : Work(c)

Spec == Init /\ [][Next]_vars

-----------------------------------------------------------------------------
(* Callers that wait for one shrink to end before they start another, save *)
(* shrinks that exclude nothing.                                           *)

NoShrinkInFlight == \A d \in Call : pc[d] \in Shrinking => amount[d] = 0

NextSerial ==
    \/ \E c \in Call, k \in Amount : (k = 0 \/ NoShrinkInFlight) /\ ShrinkCall(c, k)
    \/ \E c \in Call, k \in Amount : ExpandCall(c, k)
    \/ \E c \in Call : Work(c)

SpecSerial == Init /\ [][NextSerial]_vars

-----------------------------------------------------------------------------
\* A shrink that no other call overlaps reports the count it was admitted on
\* minus the ranks it excludes, and leaves a rank (backend.rs:8-9).
AloneExact ==
    \A c \in Call : pc[c] = "shrunk" /\ alone[c] =>
        /\ count[c] = seen[c] - amount[c]
        /\ count[c] > 0

\* The communicator never loses its last rank (sim.rs:83, "cannot shrink to
\* zero or below").
NeverEmpty == active_ranks > 0

\* What makes the two inductive.  A shrink that sleeps undisturbed finds the
\* count it was admitted on; ...
AloneUntouched ==
    \A c \in Call : pc[c] = "shrink_sleep" /\ alone[c] =>
        seen[c] = active_ranks /\ amount[c] < active_ranks

Inductive == TypeOK /\ AloneUntouched /\ AloneExact

\* ... and if shrinks come one at a time, what a sleeping shrink is about to
\* take off is still there.
OneShrink ==
    \A c, d \in Call :
        c # d /\ pc[c] \in Shrinking /\ pc[d] \in Shrinking => amount[c] = 0 \/ amount[d] = 0
AdmittedStands ==
    \A c \in Call : pc[c] = "shrink_sleep" => amount[c] < active_ranks

InductiveSerial == TypeOK /\ OneShrink /\ AdmittedStands /\ NeverEmpty

\* Seen from outside a call waits until its sleep ends.  A panic is no phase.
Phase(label) ==
    CASE label \in Shrinking -> "shrink"
      [] label = "expand_sleep" -> "expand"
      [] label \in {"shrunk", "expanded"} -> "success"
      [] OTHER -> label

Abstract == INSTANCE Communicator
            WITH ranks <- active_ranks, phase <- [c \in Call |-> Phase(pc[c])],
                 size <- amount, result <- count, MaxRanks <- U32 - 1

\* Callers that shrink one at a time see an atomic communicator, whatever
\* expands overlap: each call takes off or adds what its own request lists, in
\* one step within the call, and reports the count that step left; none panics,
\* and a dropped one has no effect (backend.rs:7-10).
ImplementsCommunicator == Abstract!Spec
=============================================================================

------------------------------ MODULE NcclReal ------------------------------
(***************************************************************************)
(* NcclReal, the backend for a real NCCL communicator: a shrink loads the  *)
(* count, has the hook pause training, splits the communicator on a        *)
(* blocking thread, stores the new count and lets training resume.  Each   *)
(* phase after the load may fail, and calls may overlap: no lock is held.  *)
(*                                                                         *)
(* External: the hook's end of the socket, of which only `paused` is kept, *)
(* and NCCL.  Left out: the communicator pointers, timing, error texts.    *)
(***************************************************************************)
EXTENDS Integers

CONSTANTS
    Call,        \* the backend calls that may be in flight
    WorldSize,   \* the ranks the backend is created with
    Amount       \* how many ranks a call excludes or adds

RealAssumption == WorldSize \in Nat \ {0} /\ Amount \subseteq Nat

VARIABLES
    active_ranks,   \* the atomic count
    paused,         \* external: the hook holds training at a safe point
    pc,             \* where each call is
    amount,         \* how many ranks each call excludes or adds
    count,          \* the active_rank_count each call reports
    seen,           \* `current`, the count a shrink has loaded
    excluded,       \* history: the ranks that splits have left out, all of them at most
    trouble         \* history: what has happened that the code does not provide for

local == <<pc, amount, count, seen>>
vars  == <<active_ranks, paused, local, excluded, trouble>>

\* From the load to the last handshake.  An orphan is a split whose caller is gone.
BeforeStore == {"quiesce", "split", "store"}
InFlight    == BeforeStore \cup {"resume", "orphan"}

TypeOK ==
    /\ active_ranks \in 0..WorldSize
    /\ paused \in BOOLEAN
    /\ pc \in [Call -> InFlight \cup {"idle", "shrink", "refused", "shrunk", "failed"}]
    /\ amount \in [Call -> Nat]
    /\ count \in [Call -> 0..WorldSize]
    /\ seen \in [Call -> 0..WorldSize]
    /\ excluded \in 0..WorldSize
    /\ trouble \subseteq {"overlap", "drop", "fail"}

Init ==
    /\ active_ranks = WorldSize
    /\ paused = FALSE
    /\ pc = [c \in Call |-> "idle"]
    /\ amount = [c \in Call |-> 0]
    /\ count = [c \in Call |-> 0]
    /\ seen = [c \in Call |-> 0]
    /\ excluded = 0
    /\ trouble = {}

Go(c, from, to) == pc[c] = from /\ pc' = [pc EXCEPT ![c] = to]

ShrinkCall(c, k) ==
    /\ Go(c, "idle", "shrink")
    /\ amount' = [amount EXCEPT ![c] = k]
    /\ UNCHANGED <<active_ranks, paused, count, seen, excluded, trouble>>

\* Excluding all the ranks loaded, or more, is refused.
ShrinkRefuse(c) ==
    /\ amount[c] >= active_ranks
    /\ Go(c, "shrink", "refused")
    /\ count' = [count EXCEPT ![c] = active_ranks]
    /\ UNCHANGED <<active_ranks, paused, amount, seen, excluded, trouble>>

ShrinkAdmit(c) ==
    /\ amount[c] < active_ranks
    /\ Go(c, "shrink", "quiesce")
    /\ seen' = [seen EXCEPT ![c] = active_ranks]
    /\ trouble' = IF \E d \in Call : pc[d] \in InFlight THEN trouble \cup {"overlap"}
                  ELSE trouble
    /\ UNCHANGED <<active_ranks, paused, amount, count, excluded>>

\* The count that is left is out before the communicator is split.
QuiesceStores(c) ==
    /\ Go(c, "quiesce", "split")
    /\ paused' = TRUE
    /\ active_ranks' = seen[c] - amount[c]
    /\ UNCHANGED <<amount, count, seen, excluded, trouble>>

\* Mutant: the acknowledgement is not waited for.
QuiesceAsync(c) ==
    /\ Go(c, "quiesce", "split")
    /\ UNCHANGED <<active_ranks, paused, amount, count, seen, excluded, trouble>>

\* SAFE_POINT_REQUEST and its acknowledgement.
Quiesce(c) ==
    /\ Go(c, "quiesce", "split")
    /\ paused' = TRUE
    /\ UNCHANGED <<active_ranks, amount, count, seen, excluded, trouble>>

\* No connection, or no acknowledgement although the hook may have paused.
QuiesceFail(c) ==
    /\ Go(c, "quiesce", "failed")
    /\ paused' \in {paused, TRUE}
    /\ trouble' = trouble \cup {"fail"}
    /\ UNCHANGED <<active_ranks, amount, count, seen, excluded>>

\* The ranks that ncclCommSplit has left out of the communicator.
Exclude(k) == excluded' = IF excluded + k > WorldSize THEN WorldSize ELSE excluded + k

Split(c) ==
    /\ Go(c, "split", "store")
    /\ Exclude(amount[c])
    /\ UNCHANGED <<active_ranks, paused, amount, count, seen, trouble>>

\* The split fails: no RESUME is sent.
SplitFail(c) ==
    /\ Go(c, "split", "failed")
    /\ trouble' = trouble \cup {"fail"}
    /\ UNCHANGED <<active_ranks, paused, amount, count, seen, excluded>>

\* Mutant: the count is not stored.
StoreNothing(c) ==
    /\ Go(c, "store", "resume")
    /\ UNCHANGED <<active_ranks, paused, amount, count, seen, excluded, trouble>>

\* What is left of the count loaded, whatever was stored since.
Store(c) ==
    /\ Go(c, "store", "resume")
    /\ active_ranks' = seen[c] - amount[c]
    /\ UNCHANGED <<paused, amount, count, seen, excluded, trouble>>

\* Mutant: RESUME is not sent.
ResumeUnsent(c) ==
    /\ Go(c, "resume", "shrunk")
    /\ count' = [count EXCEPT ![c] = seen[c] - amount[c]]
    /\ UNCHANGED <<active_ranks, paused, amount, seen, excluded, trouble>>

\* RESUME and its acknowledgement.
Resume(c) ==
    /\ Go(c, "resume", "shrunk")
    /\ paused' = FALSE
    /\ count' = [count EXCEPT ![c] = seen[c] - amount[c]]
    /\ UNCHANGED <<active_ranks, amount, seen, excluded, trouble>>

\* Mutant: the error takes the count back, and the split stands.
ResumeFailRollsBack(c) ==
    /\ Go(c, "resume", "failed")
    /\ paused' \in {paused, FALSE}
    /\ active_ranks' = seen[c]
    /\ trouble' = trouble \cup {"fail"}
    /\ UNCHANGED <<amount, count, seen, excluded>>

\* The caller gets an error for a shrink that took effect.
ResumeFail(c) ==
    /\ Go(c, "resume", "failed")
    /\ paused' \in {paused, FALSE}
    /\ trouble' = trouble \cup {"fail"}
    /\ UNCHANGED <<active_ranks, amount, count, seen, excluded>>

\* Not implemented: an error.
ExpandCall(c, k) ==
    /\ Go(c, "idle", "failed")
    /\ amount' = [amount EXCEPT ![c] = k]
    /\ UNCHANGED <<active_ranks, paused, count, seen, excluded, trouble>>

Forget(c) ==
    /\ amount' = [amount EXCEPT ![c] = 0]
    /\ count' = [count EXCEPT ![c] = 0]
    /\ seen' = [seen EXCEPT ![c] = 0]

Reply(c) ==
    /\ \E label \in {"refused", "shrunk", "failed"} : Go(c, label, "idle")
    /\ Forget(c)
    /\ UNCHANGED <<active_ranks, paused, excluded, trouble>>

\* When the client goes away, a call may never reach the backend, or its future
\* is dropped where it awaits the split: the thread goes on.
Cancel(c) ==
    \/ /\ Go(c, "shrink", "idle")
       /\ Forget(c)
       /\ UNCHANGED <<active_ranks, paused, excluded, trouble>>
    \/ /\ Go(c, "split", "orphan")
       /\ trouble' = trouble \cup {"drop"}
       /\ UNCHANGED <<active_ranks, paused, amount, count, seen, excluded>>
    \/ /\ Go(c, "store", "idle")     \* the result is there, and not yet taken
       /\ Forget(c)
       /\ trouble' = trouble \cup {"drop"}
       /\ UNCHANGED <<active_ranks, paused, excluded>>

\* The thread of a dropped call splits, or fails, and nobody takes its result.
OrphanSplit(c) ==
    /\ Go(c, "orphan", "idle")
    /\ Exclude(amount[c]) \/ UNCHANGED excluded
    /\ Forget(c)
    /\ UNCHANGED <<active_ranks, paused, trouble>>

Work(c) ==
    \/ ShrinkRefuse(c) \/ ShrinkAdmit(c)
    \/ Quiesce(c) \/ QuiesceFail(c) \/ Split(c) \/ SplitFail(c) \/ OrphanSplit(c)
    \/ Store(c) \/ Resume(c) \/ ResumeFail(c)

Next ==
    \/ \E c \in Call, k \in Amount : ShrinkCall(c, k) \/ ExpandCall(c, k)
    \/ \E c \in Call : Work(c) \/ Reply(c) \/ Cancel(c)

Spec == Init /\ [][Next]_vars

-----------------------------------------------------------------------------
\* However calls overlap, fail or are dropped, the count is never less than
\* the ranks that are left: no shrink is refused for want of ranks that are
\* there (real.rs:281-282).
NeverUndercounts == active_ranks >= WorldSize - excluded

\* If no calls overlap and none is dropped, splits never leave out every rank,
\* not even after a shrink that took effect and answered an error
\* (real.rs:227-236).  Calls that overlap may: two shrinks, each admitted on
\* the same count, together leave out all, and the count still reads more than
\* zero.
NeverEmpty == trouble \cap {"overlap", "drop"} = {} => excluded < WorldSize

\* If no calls overlap and none is dropped, the count is exact, even after one
\* that failed, save between the split and the store.
Storing == {c \in Call : pc[c] = "store"}
CountExact ==
    trouble \cap {"overlap", "drop"} = {} =>
        /\ Storing = {} => active_ranks + excluded = WorldSize
        /\ \A c \in Storing : active_ranks + excluded = WorldSize + amount[c]

\* If no calls overlap, training is paused while the communicator is split
\* (real.rs:162-164), by a thread whose caller is gone too.
SplitPaused ==
    "overlap" \notin trouble => \A c \in Call : pc[c] \in {"split", "orphan"} => paused

\* What makes these inductive: the count, whatever it is worth, is not zero; ...
CountPositive == active_ranks > 0

\* ... what a call is about to store is not less than the ranks left, nor zero; ...
ClaimsStand ==
    \A c \in Call :
        /\ pc[c] \in BeforeStore \cup {"resume"} => amount[c] < seen[c]
        /\ pc[c] \in {"quiesce", "split"} => seen[c] >= WorldSize - excluded
        /\ pc[c] = "store" => seen[c] - amount[c] >= WorldSize - excluded

\* ... and a call that meets no other has loaded the count there still is,
\* while training stays paused until its RESUME.
OneAtATime ==
    "overlap" \notin trouble =>
        \A c \in Call : pc[c] \in InFlight =>
            /\ \A d \in Call \ {c} : pc[d] \notin InFlight
            /\ pc[c] \in BeforeStore => seen[c] = active_ranks
            /\ pc[c] \in {"split", "store", "resume", "orphan"} => paused

OrphansDropped == \A c \in Call : pc[c] = "orphan" => "drop" \in trouble

Inductive ==
    /\ TypeOK /\ OrphansDropped
    /\ NeverUndercounts /\ CountExact
    /\ CountPositive /\ ClaimsStand /\ OneAtATime

\* Training that was paused resumes, unless a phase fails or a call is dropped,
\* even if calls overlap (real.rs:292-293).
TrainingResumes == paused ~> (~paused \/ trouble \cap {"fail", "drop"} # {})
=============================================================================

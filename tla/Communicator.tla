----------------------------- MODULE Communicator ---------------------------
(***************************************************************************)
(* What a communicator backend promises its callers (backend.rs:7-10): a   *)
(* shrink takes as many ranks off as its request excludes, an expand adds  *)
(* as many as its request brings, and each reports the count it left.      *)
(* Every call does so in one step between the request and the answer, on   *)
(* the count of that moment, or not at all when it is dropped; a shrink is *)
(* refused only when it would have left no rank at that moment.            *)
(*                                                                         *)
(* backend.rs:10 knows no limit.  The counter has one, where the code      *)
(* adds what still fits: Expand says so.                                   *)
(***************************************************************************)
EXTENDS Integers

CONSTANTS
    Call,        \* the calls that may be in flight
    Amount,      \* how many ranks a request may exclude or add
    WorldSize,   \* the ranks there are at first
    MaxRanks     \* the most ranks the counter can hold

VARIABLES
    ranks,       \* the active ranks
    phase,       \* what each call is: idle, waiting for its effect, answered
    size,        \* the ranks that its request excludes or adds
    result       \* the active_rank_count it answers

vars == <<ranks, phase, size, result>>

Init ==
    /\ ranks = WorldSize
    /\ phase = [c \in Call |-> "idle"]
    /\ size = [c \in Call |-> 0]
    /\ result = [c \in Call |-> 0]

Request(c, op, k) ==
    /\ phase[c] = "idle"
    /\ phase' = [phase EXCEPT ![c] = op]
    /\ size' = [size EXCEPT ![c] = k]
    /\ UNCHANGED <<ranks, result>>

Answer(c, label) ==
    /\ phase' = [phase EXCEPT ![c] = label]
    /\ result' = [result EXCEPT ![c] = ranks']
    /\ UNCHANGED size

Shrink(c) ==
    /\ phase[c] = "shrink"
    /\ size[c] < ranks
    /\ ranks' = ranks - size[c]
    /\ Answer(c, "success")

Refuse(c) ==
    /\ phase[c] = "shrink"
    /\ size[c] >= ranks
    /\ UNCHANGED ranks
    /\ Answer(c, "refused")

Expand(c) ==
    /\ phase[c] = "expand"
    /\ ranks' = IF ranks + size[c] <= MaxRanks THEN ranks + size[c] ELSE MaxRanks
    /\ Answer(c, "success")

\* The answer is delivered, or the call is dropped before it had an effect.
Return(c) ==
    /\ phase[c] # "idle"
    /\ phase' = [phase EXCEPT ![c] = "idle"]
    /\ size' = [size EXCEPT ![c] = 0]
    /\ result' = [result EXCEPT ![c] = 0]
    /\ UNCHANGED ranks

Next ==
    \E c \in Call :
        \/ \E op \in {"shrink", "expand"}, k \in Amount : Request(c, op, k)
        \/ Shrink(c) \/ Refuse(c) \/ Expand(c) \/ Return(c)

Spec == Init /\ [][Next]_vars
=============================================================================

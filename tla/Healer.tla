------------------------------- MODULE Healer -------------------------------
(***************************************************************************)
(* HealerService over one backend that all jobs share, simulated or real:  *)
(* registration of jobs in two maps with a lock each, shrinks and expands  *)
(* passed to the backend, and playbooks, whose steps run in order on a     *)
(* best-effort basis.                                                      *)
(*                                                                         *)
(* Left out: list_playbooks, which reads files, the text of actions, and   *)
(* all steps but the shrinks, which only log.                              *)
(***************************************************************************)
EXTENDS Sequences, Integers

CONSTANTS
    Call, U32, WorldSize, Amount,   \* as in NcclSim and NcclReal
    Job, None,                      \* the job ids, and no job
    Playbook,                       \* the playbooks that load: sequences of "log" and "shrink"
    MaxRequests                     \* how many requests are made: bounds the model

ASSUME HealerAssumption ==
    /\ None \notin Job
    /\ U32 \in Nat /\ WorldSize \in 1..(U32 - 1)
    /\ Amount \subseteq 0..(U32 - 1)
    /\ Playbook \subseteq Seq({"log", "shrink"})
    /\ MaxRequests \in Nat

VARIABLES
    backend,       \* which NcclBackend the service was built with
    job_comms,     \* the communicator of each job, 0 if none
    world_sizes,   \* the registration whose world size each job has, 0 if none
    task,          \* what each call is of the service
    job, comm,     \* the job a call is for, and the communicator it names
    plan,          \* the steps of its playbook
    actions_taken, \* its answer so far
    active_ranks, pc, amount, count, seen, alone, paused, excluded, trouble,   \* the backends'
    requests,      \* how many requests were made
    issued,        \* history: the job each communicator id was given out for
    mixed,         \* history: jobs with registrations that overlapped
    effect         \* history: the steps of each playbook whose shrink took effect

maps     == <<job_comms, world_sizes, issued, mixed>>
asked    == <<task, job, comm, requests>>
playbook == <<plan, actions_taken, effect>>
shared   == <<active_ranks, pc, amount, count, seen>>
ofReal   == <<paused, excluded, trouble>>
rpc      == <<shared, alone, ofReal>>
vars     == <<backend, maps, asked, playbook, rpc>>

Sim  == INSTANCE NcclSim
Real == INSTANCE NcclReal

Ids == 0..MaxRequests

TypeOK ==
    /\ backend \in {"sim", "real"}
    /\ job_comms \in [Job -> Ids] /\ world_sizes \in [Job -> Ids]
    /\ task \in [Call -> {"idle", "register", "direct", "playbook", "done", "unloaded"}]
    /\ job \in [Call -> Job \cup {None}] /\ comm \in [Call -> Ids]
    /\ plan \in [Call -> Seq({"log", "shrink"})]
    /\ actions_taken \in [Call -> Seq({"log", "ok", "FAILED", "ERROR"})]
    /\ IF backend = "sim" THEN Sim!TypeOK ELSE Real!TypeOK
    /\ requests \in Ids
    /\ issued \in Seq(Job) /\ Len(issued) <= requests
    /\ mixed \subseteq Job
    /\ effect \in [Call -> SUBSET Nat]

Init ==
    /\ backend \in {"sim", "real"}
    /\ job_comms = [j \in Job |-> 0]
    /\ world_sizes = [j \in Job |-> 0]
    /\ task = [c \in Call |-> "idle"]
    /\ job = [c \in Call |-> None]
    /\ comm = [c \in Call |-> 0]
    /\ plan = [c \in Call |-> <<>>]
    /\ actions_taken = [c \in Call |-> <<>>]
    /\ Sim!Init /\ Real!Init
    /\ requests = 0
    /\ issued = <<>>
    /\ mixed = {}
    /\ effect = [c \in Call |-> {}]

Go(c, from, to) == task[c] = from /\ task' = [task EXCEPT ![c] = to]

\* The slot of a call whose split goes on without it is not taken anew.
Start(c, to) ==
    /\ requests < MaxRequests
    /\ requests' = requests + 1
    /\ pc[c] = "idle"
    /\ Go(c, "idle", to)

End(c, from) ==
    /\ Go(c, from, "idle")
    /\ job' = [job EXCEPT ![c] = None]
    /\ comm' = [comm EXCEPT ![c] = 0]
    /\ UNCHANGED requests

\* The two backends behind the trait.
BackendShrink(c, k) ==
    \/ backend = "sim"  /\ Sim!ShrinkCall(c, k)  /\ UNCHANGED ofReal
    \/ backend = "real" /\ Real!ShrinkCall(c, k) /\ UNCHANGED alone

BackendExpand(c, k) ==
    \/ backend = "sim"  /\ Sim!ExpandCall(c, k)  /\ UNCHANGED ofReal
    \/ backend = "real" /\ Real!ExpandCall(c, k) /\ UNCHANGED alone

BackendReply(c) ==
    \/ backend = "sim"  /\ Sim!Reply(c)  /\ UNCHANGED ofReal
    \/ backend = "real" /\ Real!Reply(c) /\ UNCHANGED alone

BackendCancel(c) ==
    \/ backend = "sim"  /\ Sim!Cancel(c)  /\ UNCHANGED ofReal
    \/ backend = "real" /\ Real!Cancel(c) /\ UNCHANGED alone

Step(c) == Len(actions_taken[c]) + 1

\* A step of the backend for a call; a shrink takes effect when the simulated
\* count is reduced, or the communicator split.
Backend(c) ==
    /\ \/ /\ backend = "sim"
          /\ \/ Sim!ShrinkRefuse(c) \/ Sim!ShrinkAdmit(c) \/ Sim!ShrinkApply(c)
             \/ Sim!ShrinkPanic(c) \/ Sim!ExpandApply(c)
          /\ UNCHANGED ofReal
       \/ backend = "real" /\ Real!Work(c) /\ UNCHANGED alone
    /\ effect' = IF /\ task[c] = "playbook"
                    /\ pc[c] \in {"shrink_sleep", "split"} /\ pc'[c] \in {"shrunk", "store"}
                 THEN [effect EXCEPT ![c] = @ \cup {Step(c)}]
                 ELSE effect
    /\ UNCHANGED <<backend, maps, asked, plan, actions_taken>>

-----------------------------------------------------------------------------
(* register_job: a fresh id under the first lock, the size under the second *)

RegisterComms(c, j) ==
    /\ Start(c, "register")
    /\ issued' = Append(issued, j)
    /\ job_comms' = [job_comms EXCEPT ![j] = Len(issued) + 1]
    /\ job' = [job EXCEPT ![c] = j]
    /\ comm' = [comm EXCEPT ![c] = Len(issued) + 1]
    /\ mixed' = IF \E d \in Call : task[d] = "register" /\ job[d] = j THEN mixed \cup {j}
                ELSE mixed
    /\ UNCHANGED <<backend, world_sizes, playbook, rpc>>

\* Mutant: the size of a job registered before is kept.
RegisterSizesOnce(c) ==
    /\ End(c, "register")
    /\ world_sizes' = [world_sizes EXCEPT ![job[c]] = IF @ = 0 THEN comm[c] ELSE @]
    /\ UNCHANGED <<backend, job_comms, issued, mixed, playbook, rpc>>

RegisterSizes(c) ==
    /\ End(c, "register")
    /\ world_sizes' = [world_sizes EXCEPT ![job[c]] = comm[c]]
    /\ UNCHANGED <<backend, job_comms, issued, mixed, playbook, rpc>>

-----------------------------------------------------------------------------
(* shrink_communicator and expand_communicator                             *)

DirectCall(c, k) ==
    /\ Start(c, "direct")
    /\ BackendShrink(c, k) \/ BackendExpand(c, k)
    /\ UNCHANGED <<backend, maps, job, comm, playbook>>

\* The metrics, or an internal error, go to the client.
DirectReturns(c) ==
    /\ End(c, "direct")
    /\ BackendReply(c)
    /\ UNCHANGED <<backend, maps, playbook>>

-----------------------------------------------------------------------------
(* execute_playbook                                                        *)

\* No such file, or one that does not parse: an answer without success.
LoadFails(c) ==
    /\ Start(c, "unloaded")
    /\ UNCHANGED <<backend, maps, job, comm, playbook, rpc>>

\* The parameters give the job.
Load(c, p, j) ==
    /\ Start(c, "playbook")
    /\ job' = [job EXCEPT ![c] = j]
    /\ plan' = [plan EXCEPT ![c] = p]
    /\ UNCHANGED <<backend, maps, comm, actions_taken, effect, rpc>>

AtStep(c, kind) ==
    /\ task[c] = "playbook" /\ pc[c] = "idle"
    /\ Step(c) <= Len(plan[c]) /\ plan[c][Step(c)] = kind

Record(c, action) == actions_taken' = [actions_taken EXCEPT ![c] = Append(@, action)]

StepLogs(c) ==
    /\ AtStep(c, "log")
    /\ Record(c, "log")
    /\ UNCHANGED <<backend, maps, asked, plan, effect, rpc>>

\* The parameters name the communicator (0), or it is looked up anew at each
\* step; the ranks to exclude are the step's own.
StepShrinks(c, k) ==
    /\ AtStep(c, "shrink")
    /\ \E id \in {0, job_comms[job[c]]} : comm' = [comm EXCEPT ![c] = id]
    /\ BackendShrink(c, k)
    /\ UNCHANGED <<backend, maps, task, job, requests, playbook>>

\* Mutant: an error counts as done.
StepReturnsOk(c) ==
    /\ task[c] = "playbook"
    /\ pc[c] \in {"shrunk", "refused", "failed"}
    /\ Record(c, "ok")
    /\ BackendReply(c)
    /\ UNCHANGED <<backend, maps, asked, plan, effect>>

\* Mutant: only a shrink is waited for.
StepReturnsShrunk(c) ==
    /\ task[c] = "playbook"
    /\ pc[c] = "shrunk"
    /\ Record(c, "ok")
    /\ BackendReply(c)
    /\ UNCHANGED <<backend, maps, asked, plan, effect>>

\* A step that is refused or fails is recorded as such, and the next one runs.
StepReturns(c) ==
    /\ task[c] = "playbook"
    /\ \/ pc[c] = "shrunk"  /\ Record(c, "ok")
       \/ pc[c] = "refused" /\ Record(c, "FAILED")
       \/ pc[c] = "failed"  /\ Record(c, "ERROR")
    /\ BackendReply(c)
    /\ UNCHANGED <<backend, maps, asked, plan, effect>>

\* After the last step: success, whatever the steps did.
Answer(c) ==
    /\ pc[c] = "idle" /\ Step(c) > Len(plan[c])
    /\ Go(c, "playbook", "done")
    /\ UNCHANGED <<backend, maps, job, comm, requests, playbook, rpc>>

\* Mutant: the actions of a playbook stay for the next one.
ForgetPlaybookInPart(c) ==
    /\ plan' = [plan EXCEPT ![c] = <<>>]
    /\ effect' = [effect EXCEPT ![c] = {}]
    /\ UNCHANGED actions_taken

ForgetPlaybook(c) ==
    /\ plan' = [plan EXCEPT ![c] = <<>>]
    /\ actions_taken' = [actions_taken EXCEPT ![c] = <<>>]
    /\ effect' = [effect EXCEPT ![c] = {}]

Answered(c) ==
    /\ \E from \in {"done", "unloaded"} : End(c, from)
    /\ ForgetPlaybook(c)
    /\ UNCHANGED <<backend, maps, rpc>>

\* A backend that panics takes the handler with it.
Panics(c) ==
    /\ pc[c] = "panicked"
    /\ End(c, "playbook")
    /\ BackendReply(c)
    /\ ForgetPlaybook(c)
    /\ UNCHANGED <<backend, maps>>

\* When the client goes away, the handler is dropped with the call it awaits.
Drop(c) ==
    /\ \E from \in {"direct", "playbook"} : End(c, from)
    /\ BackendCancel(c)
    /\ ForgetPlaybook(c)
    /\ UNCHANGED <<backend, maps>>

-----------------------------------------------------------------------------
Handler(c) ==
    \/ RegisterSizes(c) \/ DirectReturns(c)
    \/ StepLogs(c) \/ StepReturns(c) \/ \E k \in Amount : StepShrinks(c, k)
    \/ Answer(c) \/ Answered(c) \/ Panics(c)

Next ==
    \/ \E c \in Call, j \in Job : RegisterComms(c, j)
    \/ \E c \in Call, k \in Amount : DirectCall(c, k)
    \/ \E c \in Call, p \in Playbook, j \in Job : Load(c, p, j)
    \/ \E c \in Call : LoadFails(c) \/ Drop(c)
    \/ \E c \in Call : Handler(c) \/ Backend(c)

Spec == Init /\ [][Next]_vars

\* Handlers that can run do, and the backend's sleeps and phases end: the
\* socket has its timeouts, the split is NCCL's to end.
FairSpec == Spec /\ \A c \in Call : WF_vars(Handler(c)) /\ WF_vars(Backend(c))

-----------------------------------------------------------------------------
\* The answer to a playbook has one action for each step, in order; what it
\* calls done was done, and what it calls refused was not; of an error nothing
\* is known (service.rs:209-216).
Told(c) ==
    \A i \in 1..Len(actions_taken[c]) :
        /\ actions_taken[c][i] = "log" <=> plan[c][i] = "log"
        /\ actions_taken[c][i] = "ok" => i \in effect[c]
        /\ actions_taken[c][i] \in {"log", "FAILED"} => i \notin effect[c]
PlaybookReports ==
    \A c \in Call : task[c] = "done" => Len(actions_taken[c]) = Len(plan[c]) /\ Told(c)

\* While no registration of a job is under way, its communicator and its size
\* are those of one registration, unless two of them overlapped; and a shrink
\* names a communicator that was given out for its job (service.rs:140-153).
Registering(j) == {c \in Call : task[c] = "register" /\ job[c] = j}
RegistrationConsistent ==
    /\ \A j \in Job \ mixed : Registering(j) = {} => world_sizes[j] = job_comms[j]
    /\ \A c \in Call : task[c] = "playbook" /\ comm[c] # 0 /\ pc[c] # "idle" =>
           issued[comm[c]] = job[c]

\* What makes the two inductive.
CurrentStep ==
    \A c \in Call : task[c] \in {"playbook", "done"} =>
        /\ job[c] \in Job
        /\ Len(actions_taken[c]) <= Len(plan[c])
        /\ task[c] = "done" => Len(actions_taken[c]) = Len(plan[c])
        /\ Told(c)
        /\ effect[c] \subseteq 1..Step(c)
        /\ pc[c] \in {"idle", "refused", "shrink", "shrink_sleep", "quiesce", "split"} =>
               Step(c) \notin effect[c]
        /\ pc[c] # "idle" =>
               /\ task[c] = "playbook" /\ Step(c) <= Len(plan[c]) /\ plan[c][Step(c)] = "shrink"
               /\ comm[c] # 0 => comm[c] \in DOMAIN issued /\ issued[comm[c]] = job[c]
        /\ pc[c] \in {"store", "resume", "shrunk"} => Step(c) \in effect[c]
        /\ pc[c] \notin {"expand_sleep", "expanded", "orphan"}

Fresh ==
    \A c \in Call : task[c] \in {"idle", "direct", "unloaded", "register"} =>
        actions_taken[c] = <<>> /\ effect[c] = {} /\ plan[c] = <<>>
IdleCalls ==
    \A c \in Call :
        /\ task[c] \in {"register", "done", "unloaded"} => pc[c] = "idle"
        /\ task[c] = "idle" => pc[c] \in {"idle", "orphan"}

Registrations ==
    \A j \in Job :
        /\ job_comms[j] # 0 => job_comms[j] \in DOMAIN issued /\ issued[job_comms[j]] = j
        /\ j \notin mixed =>
               /\ \A c, d \in Registering(j) : c = d
               /\ \A c \in Registering(j) : comm[c] = job_comms[j]
               /\ Registering(j) = {} => world_sizes[j] = job_comms[j]

Inductive ==
    /\ TypeOK
    /\ CurrentStep /\ Fresh /\ IdleCalls /\ Registrations
    /\ backend = "sim" => Sim!Inductive
    /\ backend = "real" => Real!Inductive

\* What the backends guarantee behind the service, whatever its clients do: a
\* shrink that nothing overlaps is exact (backend.rs:8-9), ...
AloneExact       == backend = "sim"  => Sim!AloneExact

\* ... the real count covers the ranks that are left (real.rs:281-282), ...
NeverUndercounts == backend = "real" => Real!NeverUndercounts

\* ... without overlap or drop a rank is left (real.rs:227-236) ...
RealNeverEmpty   == backend = "real" => Real!NeverEmpty

\* ... and the count is exact, failures or not (backend.rs:8-9), ...
CountExact       == backend = "real" => Real!CountExact

\* ... without overlap a split finds training paused (real.rs:162-164), ...
SplitPaused      == backend = "real" => Real!SplitPaused

\* ... and training goes on after a shrink that did not fail (real.rs:292-293).
TrainingResumes  == Real!TrainingResumes

\* Every request ends, with an answer or because its client went away.
RequestsEnd == \A c \in Call : task[c] # "idle" ~> task[c] = "idle"
=============================================================================

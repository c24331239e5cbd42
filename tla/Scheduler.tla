----------------------------- MODULE Scheduler ------------------------------
(***************************************************************************)
(* SchedulerServiceImpl: schedule and release RPCs running concurrently on *)
(* a shared reservation table, while GPUs of the graph become unhealthy.   *)
(*                                                                         *)
(* Each Call is a handler in flight; it may serve one RPC after another.   *)
(* A handler takes the "reserved" write lock and then the                  *)
(* "job_reservations" write lock, and drops both when it returns.  In      *)
(* between, schedule runs the solver, which locks the graph once per atom, *)
(* so the graph may change between two atoms of one spec.  What a handler  *)
(* does to the two tables is split into the separate reads and writes of   *)
(* the code: it is the locks that make them one transaction.               *)
(***************************************************************************)
EXTENDS Solver

CONSTANTS
    Call,           \* the RPC handlers that may be in flight
    Job,            \* the job ids clients use
    Spec0,          \* the specs clients ask for, as parsed
    NoCall,         \* the owner of a free lock
    NoJob,          \* the job of a handler that serves nothing
    MaxUnhealthy    \* bound: how many GPUs may become unhealthy

ASSUME GraphAssumption ==
    /\ IsFiniteSet(Gpu)
    /\ Index \in [Gpu -> Nat]
    /\ Name \in [Gpu -> Nat]
    /\ U32 \in Nat \ {0}
ASSUME SpecAssumption == \A spec \in Spec0 : IsSpec(spec)
ASSUME NoneAssumption == NoCall \notin Call /\ NoJob \notin Job

VARIABLES
    healthy,            \* the GPUs not marked unhealthy in the graph
    reserved,           \* gpu_ids reserved by active jobs
    job_reservations,   \* job -> the gpu_ids recorded for it ({}: no entry)
    reserved_lock,      \* the handler holding the write lock of reserved
    jobs_lock,          \* the handler holding that of job_reservations
    pc,                 \* where each handler is
    job, spec,          \* what each handler was asked
    alt, arm,           \* the alternative, and its atom, being solved
    ids,                \* the GPUs a handler has found, or is to free
    seen,               \* history: the GPUs healthy when each arm was solved
    held                \* history: the GPUs granted to a job, not released

tables == <<reserved, job_reservations, held>>
locks  == <<reserved_lock, jobs_lock>>
asked  == <<job, spec>>
cursor == <<alt, arm, ids, seen>>
vars   == <<healthy, tables, locks, pc, asked, cursor>>

InSchedule == {"lock_reserved", "lock_jobs", "solve", "check", "insert", "record"}
InRelease  == {"rel_lock_reserved", "rel_lock_jobs", "rel_take", "rel_free"}
Answered   == {"granted", "refused", "released"}

TypeOK ==
    /\ healthy \in SUBSET Gpu
    /\ reserved \in SUBSET Gpu
    /\ job_reservations \in [Job -> SUBSET Gpu]
    /\ reserved_lock \in Call \cup {NoCall}
    /\ jobs_lock \in Call \cup {NoCall}
    /\ pc \in [Call -> InSchedule \cup InRelease \cup Answered \cup {"idle"}]
    /\ job \in [Call -> Job \cup {NoJob}]
    /\ spec \in [Call -> Spec0 \cup {<< >>}]
    /\ alt \in [Call -> Nat]
    /\ arm \in [Call -> 1..2]
    /\ ids \in [Call -> SUBSET Gpu]
    /\ seen \in [Call -> Seq(SUBSET Gpu)]
    /\ held \in [Job -> SUBSET Gpu]

Init ==
    /\ healthy = Gpu
    /\ reserved = {}
    /\ job_reservations = [j \in Job |-> {}]
    /\ reserved_lock = NoCall
    /\ jobs_lock = NoCall
    /\ pc = [c \in Call |-> "idle"]
    /\ job = [c \in Call |-> NoJob]
    /\ spec = [c \in Call |-> << >>]
    /\ alt = [c \in Call |-> 1]
    /\ arm = [c \in Call |-> 1]
    /\ ids = [c \in Call |-> {}]
    /\ seen = [c \in Call |-> << >>]
    /\ held = [j \in Job |-> {}]

Goto(c, label) == pc' = [pc EXCEPT ![c] = label]

UnlockBoth == reserved_lock' = NoCall /\ jobs_lock' = NoCall

-----------------------------------------------------------------------------
(* The graph: telemetry marks a GPU unhealthy.  Nothing ever heals one.    *)

MarkUnhealthy(g) ==
    /\ g \in healthy
    /\ Cardinality(Gpu \ healthy) < MaxUnhealthy
    /\ healthy' = healthy \ {g}
    /\ UNCHANGED <<tables, locks, pc, asked, cursor>>

-----------------------------------------------------------------------------
(* schedule                                                                *)

\* A request that does not type-check is answered before any lock is taken.
ScheduleCall(c, j, s) ==
    /\ pc[c] = "idle"
    /\ job' = [job EXCEPT ![c] = j]
    /\ spec' = [spec EXCEPT ![c] = s]
    /\ Goto(c, IF WellTyped(s) THEN "lock_reserved" ELSE "refused")
    /\ UNCHANGED <<healthy, tables, locks, cursor>>

LockReserved(c) ==
    /\ pc[c] = "lock_reserved"
    /\ reserved_lock = NoCall
    /\ reserved_lock' = c
    /\ Goto(c, "lock_jobs")
    /\ UNCHANGED <<healthy, tables, jobs_lock, asked, cursor>>

LockJobs(c) ==
    /\ pc[c] = "lock_jobs"
    /\ jobs_lock = NoCall
    /\ jobs_lock' = c
    /\ Goto(c, "solve")
    /\ UNCHANGED <<healthy, tables, reserved_lock, asked, cursor>>

\* The placements of the atom the solver has reached.
Options(c) == SolveAtom(spec[c][alt[c]][arm[c]], healthy)

\* The left arm of a conjunction is placed: keep its GPUs, solve the right.
PlaceLeft(c) ==
    /\ pc[c] = "solve"
    /\ arm[c] < Len(spec[c][alt[c]])
    /\ \E S \in Options(c) : ids' = [ids EXCEPT ![c] = S]
    /\ seen' = [seen EXCEPT ![c] = <<healthy>>]
    /\ arm' = [arm EXCEPT ![c] = 2]
    /\ UNCHANGED <<healthy, tables, locks, pc, asked, alt>>

\* Mutant: the right arm is solved on the health the left one was solved on.
PlaceLastStale(c) ==
    LET ok == IF arm[c] = 1 THEN healthy ELSE seen[c][1]
    IN  /\ pc[c] = "solve"
        /\ arm[c] = Len(spec[c][alt[c]])
        /\ \E S \in SolveAtom(spec[c][alt[c]][arm[c]], ok) :
              /\ S \cap ids[c] = {}
              /\ ids' = [ids EXCEPT ![c] = @ \cup S]
        /\ seen' = [seen EXCEPT ![c] = Append(@, healthy)]
        /\ Goto(c, "check")
        /\ UNCHANGED <<healthy, tables, locks, asked, alt, arm>>

\* An alternative is placed as a whole; its arms share no GPU.
PlaceLast(c) ==
    /\ pc[c] = "solve"
    /\ arm[c] = Len(spec[c][alt[c]])
    /\ \E S \in Options(c) : /\ S \cap ids[c] = {}
                             /\ ids' = [ids EXCEPT ![c] = @ \cup S]
    /\ seen' = [seen EXCEPT ![c] = Append(@, healthy)]
    /\ Goto(c, "check")
    /\ UNCHANGED <<healthy, tables, locks, asked, alt, arm>>

\* The atom has no placement, or one that overlaps the left arm's.
AlternativeFails(c) ==
    \/ Options(c) = {}
    \/ \E S \in Options(c) : S \cap ids[c] # {}

TryNext(c) ==
    /\ pc[c] = "solve"
    /\ AlternativeFails(c)
    /\ alt[c] < Len(spec[c])
    /\ alt' = [alt EXCEPT ![c] = @ + 1]
    /\ arm' = [arm EXCEPT ![c] = 1]
    /\ ids' = [ids EXCEPT ![c] = {}]
    /\ seen' = [seen EXCEPT ![c] = << >>]
    /\ UNCHANGED <<healthy, tables, locks, pc, asked>>

RejectUnplaceable(c) ==
    /\ pc[c] = "solve"
    /\ AlternativeFails(c)
    /\ alt[c] = Len(spec[c])
    /\ ids' = [ids EXCEPT ![c] = {}]
    /\ Goto(c, "refused")
    /\ UnlockBoth
    /\ UNCHANGED <<healthy, tables, asked, alt, arm, seen>>

\* Mutant: the write locks are dropped once the conflict check has passed.
CheckConflictThenUnlock(c) ==
    /\ pc[c] = "check"
    /\ ids[c] \cap reserved = {}
    /\ Goto(c, "insert")
    /\ UnlockBoth
    /\ UNCHANGED <<healthy, tables, asked, cursor>>

\* The solver knows nothing of reservations: a placement that meets one is
\* turned down, whether or not other GPUs would have done.
CheckConflict(c) ==
    /\ pc[c] = "check"
    /\ ids[c] \cap reserved = {}
    /\ Goto(c, "insert")
    /\ UNCHANGED <<healthy, tables, locks, asked, cursor>>

RejectReserved(c) ==
    /\ pc[c] = "check"
    /\ ids[c] \cap reserved # {}
    /\ ids' = [ids EXCEPT ![c] = {}]
    /\ Goto(c, "refused")
    /\ UnlockBoth
    /\ UNCHANGED <<healthy, tables, asked, alt, arm, seen>>

\* Mutant: the reserved set is replaced instead of extended.
InsertReservedAfresh(c) ==
    /\ pc[c] = "insert"
    /\ reserved' = ids[c]
    /\ Goto(c, "record")
    /\ UNCHANGED <<healthy, job_reservations, held, locks, asked, cursor>>

InsertReserved(c) ==
    /\ pc[c] = "insert"
    /\ reserved' = reserved \cup ids[c]
    /\ Goto(c, "record")
    /\ UNCHANGED <<healthy, job_reservations, held, locks, asked, cursor>>

\* The entry of the job is replaced: what an earlier entry held is forgotten.
RecordJob(c) ==
    /\ pc[c] = "record"
    /\ job_reservations' = [job_reservations EXCEPT ![job[c]] = ids[c]]
    /\ held' = [held EXCEPT ![job[c]] = @ \cup ids[c]]
    /\ Goto(c, "granted")
    /\ UnlockBoth
    /\ UNCHANGED <<healthy, reserved, asked, cursor>>

-----------------------------------------------------------------------------
(* release                                                                 *)

ReleaseCall(c, j) ==
    /\ pc[c] = "idle"
    /\ job' = [job EXCEPT ![c] = j]
    /\ Goto(c, "rel_lock_reserved")
    /\ UNCHANGED <<healthy, tables, locks, spec, cursor>>

\* Mutant: release only reads the reserved set before it changes it.
ReleaseLockShared(c) ==
    /\ pc[c] = "rel_lock_reserved"
    /\ Goto(c, "rel_lock_jobs")
    /\ UNCHANGED <<healthy, tables, locks, asked, cursor>>

\* Mutant: release takes the lock of the entries first, and then again.
ReleaseLockJobsTwice(c) ==
    /\ pc[c] = "rel_lock_reserved"
    /\ jobs_lock = NoCall
    /\ jobs_lock' = c
    /\ Goto(c, "rel_lock_jobs")
    /\ UNCHANGED <<healthy, tables, reserved_lock, asked, cursor>>

ReleaseLockReserved(c) ==
    /\ pc[c] = "rel_lock_reserved"
    /\ reserved_lock = NoCall
    /\ reserved_lock' = c
    /\ Goto(c, "rel_lock_jobs")
    /\ UNCHANGED <<healthy, tables, jobs_lock, asked, cursor>>

ReleaseLockJobs(c) ==
    /\ pc[c] = "rel_lock_jobs"
    /\ jobs_lock = NoCall
    /\ jobs_lock' = c
    /\ Goto(c, "rel_take")
    /\ UNCHANGED <<healthy, tables, reserved_lock, asked, cursor>>

\* Mutant: the entry is read and stays (get for remove).
TakeEntryKept(c) ==
    /\ pc[c] = "rel_take"
    /\ ids' = [ids EXCEPT ![c] = job_reservations[job[c]]]
    /\ Goto(c, "rel_free")
    /\ UNCHANGED <<healthy, tables, locks, asked, alt, arm, seen>>

\* Remove the entry of the job; without one there is nothing to free.
TakeEntry(c) ==
    /\ pc[c] = "rel_take"
    /\ ids' = [ids EXCEPT ![c] = job_reservations[job[c]]]
    /\ job_reservations' = [job_reservations EXCEPT ![job[c]] = {}]
    /\ Goto(c, "rel_free")
    /\ UNCHANGED <<healthy, reserved, held, locks, asked, alt, arm, seen>>

\* Mutant: the entry is gone, its GPUs stay reserved.
FreeNothing(c) ==
    /\ pc[c] = "rel_free"
    /\ held' = [held EXCEPT ![job[c]] = {}]
    /\ Goto(c, "released")
    /\ UnlockBoth
    /\ UNCHANGED <<healthy, reserved, job_reservations, asked, cursor>>

\* From here on the job has given up all it was granted.
FreeGpus(c) ==
    /\ pc[c] = "rel_free"
    /\ reserved' = reserved \ ids[c]
    /\ held' = [held EXCEPT ![job[c]] = {}]
    /\ Goto(c, "released")
    /\ UnlockBoth
    /\ UNCHANGED <<healthy, job_reservations, asked, cursor>>

-----------------------------------------------------------------------------
\* The response leaves the handler, which may then serve another RPC.
Reply(c) ==
    /\ pc[c] \in Answered
    /\ Goto(c, "idle")
    /\ job' = [job EXCEPT ![c] = NoJob]
    /\ spec' = [spec EXCEPT ![c] = << >>]
    /\ alt' = [alt EXCEPT ![c] = 1]
    /\ arm' = [arm EXCEPT ![c] = 1]
    /\ ids' = [ids EXCEPT ![c] = {}]
    /\ seen' = [seen EXCEPT ![c] = << >>]
    /\ UNCHANGED <<healthy, tables, locks>>

AcquireLock(c) ==
    LockReserved(c) \/ LockJobs(c) \/ ReleaseLockReserved(c) \/ ReleaseLockJobs(c)

Proceed(c) ==
    \/ PlaceLeft(c) \/ PlaceLast(c) \/ TryNext(c) \/ RejectUnplaceable(c)
    \/ CheckConflict(c) \/ RejectReserved(c) \/ InsertReserved(c) \/ RecordJob(c)
    \/ TakeEntry(c) \/ FreeGpus(c)
    \/ Reply(c)

Serve(c) == AcquireLock(c) \/ Proceed(c)

Next ==
    \/ \E g \in Gpu : MarkUnhealthy(g)
    \/ \E c \in Call, j \in Job, s \in Spec0 : ScheduleCall(c, j, s)
    \/ \E c \in Call, j \in Job : ReleaseCall(c, j)
    \/ \E c \in Call : Serve(c)

Spec == Init /\ [][Next]_vars

\* A running handler is never abandoned by the runtime, and parking_lot hands
\* a contended lock over to its waiters eventually: a handler for which the
\* lock is free again and again gets it.
Fairness == \A c \in Call : WF_vars(Proceed(c)) /\ SF_vars(AcquireLock(c))

FairSpec == Spec /\ Fairness

-----------------------------------------------------------------------------
(* The clients for which the table leaks nothing: a job id is scheduled    *)
(* again only once it holds nothing and no schedule for it is in flight.   *)

MayScheduleOnce(j) ==
    /\ held[j] = {}
    /\ \A c \in Call : ~(pc[c] \in InSchedule /\ job[c] = j)

NextOnce ==
    \/ \E g \in Gpu : MarkUnhealthy(g)
    \/ \E c \in Call, j \in Job, s \in Spec0 :
          MayScheduleOnce(j) /\ ScheduleCall(c, j, s)
    \/ \E c \in Call, j \in Job : ReleaseCall(c, j)
    \/ \E c \in Call : Serve(c)

SpecOnce == Init /\ [][NextOnce]_vars

FairSpecOnce == SpecOnce /\ Fairness

-----------------------------------------------------------------------------
(* Safety                                                                  *)

\* No GPU is granted to two jobs at a time, whatever schedule and release
\* calls overlap (service.rs:115-116, "prevent double-allocation").
NoDoubleGrant == \A j, k \in Job : j # k => held[j] \cap held[k] = {}

\* The two tables agree with what was granted: an entry never lists a GPU
\* its job was not granted, and a GPU granted and not released is reserved,
\* so no other schedule can take it (service.rs:121-136, 161-165).
GrantsReserved == \A j \in Job : /\ job_reservations[j] \subseteq held[j]
                                 /\ held[j] \subseteq reserved

\* A placement is one of the alternatives asked for, whole and with nothing left
\* over from one that failed: for each atom a group of the right size and wiring,
\* of GPUs that were healthy when that atom was solved, and no GPU in two groups,
\* although the graph is locked anew for each atom (solver.rs:98-208).
PlacementFits ==
    \A c \in Call : pc[c] \in {"check", "insert", "record", "granted"} =>
        \E i \in 1..Len(spec[c]) : AlternativeFits(spec[c][i], ids[c], seen[c])

\* A GPU leaves the reserved set only in a release by a job that was granted
\* it: a release, repeated or late, never frees another job's GPU
\* (service.rs:149-151, "Idempotent").
OnlyOwnerFrees ==
    [][\A g \in reserved \ reserved' :
         \E c \in Call : pc[c] = "rel_free" /\ g \in held[job[c]]]_vars

\* Whenever no handler is inside its transaction, every reserved GPU belongs
\* to a job that was granted it and has not released it (service.rs:50, "Set
\* of gpu_ids currently reserved by active jobs").
ReservedByActiveJobs ==
    reserved_lock = NoCall => reserved = UNION {held[j] : j \in Job}

\* A granted placement has as many GPUs as the gpu_count the type checker
\* compared the alternatives by (checker.rs:36-37, "so the allocator knows
\* exactly how many devices to reserve").
GrantOfGpuCount ==
    \A c \in Call : pc[c] = "granted" => Cardinality(ids[c]) = GpuCount(spec[c])

-----------------------------------------------------------------------------
(* What makes the safety properties inductive                              *)

HoldsReserved == {"lock_jobs", "solve", "check", "insert", "record",
                  "rel_lock_jobs", "rel_take", "rel_free"}

\* The handlers inside a transaction own the lock of the reserved set.
LockOwned == \A c \in Call : pc[c] \in HoldsReserved => reserved_lock = c

\* What a handler was asked stays with it until it replies.
AskedKept ==
    \A c \in Call :
        /\ pc[c] \in InSchedule \cup {"granted"} => job[c] \in Job /\ spec[c] \in Spec0
        /\ pc[c] \in InRelease => job[c] \in Job
        /\ pc[c] \in {"idle", "lock_reserved", "lock_jobs"} =>
              alt[c] = 1 /\ arm[c] = 1 /\ seen[c] = << >>

\* The solver is at an atom of the spec, and if that is a right arm it keeps
\* a group for the left one, of GPUs that were healthy when it was placed.
SolverAt ==
    \A c \in Call : pc[c] = "solve" =>
        /\ alt[c] \in 1..Len(spec[c])
        /\ arm[c] \in 1..Len(spec[c][alt[c]])
        /\ IF arm[c] = 1 THEN ids[c] = {} /\ seen[c] = << >>
                         ELSE /\ Len(seen[c]) = 1
                              /\ GroupFits(spec[c][alt[c]][1], ids[c], seen[c][1])

\* Between two accesses of a transaction the tables stay as it left them.
MidTransaction ==
    \A c \in Call :
        /\ pc[c] \in {"idle", "lock_reserved", "lock_jobs"} => ids[c] = {}
        /\ pc[c] = "insert" => ids[c] \cap reserved = {}
        /\ pc[c] = "record" => /\ ids[c] \subseteq reserved
                              /\ \A j \in Job : ids[c] \cap held[j] = {}
        /\ pc[c] = "rel_free" => /\ ids[c] \subseteq held[job[c]]
                                /\ job_reservations[job[c]] = {}

\* The inductive invariant: the locks and what each handler has done so far
\* keep the two tables in step (service.rs:117-136, 158-165).
Inductive ==
    /\ TypeOK /\ LockOwned /\ AskedKept /\ SolverAt /\ MidTransaction
    /\ NoDoubleGrant /\ GrantsReserved /\ PlacementFits

\* For clients that schedule a job once per life, besides: two schedules in
\* flight are for two jobs, and for jobs that hold nothing yet; ...
SchedulesApart ==
    \A c, d \in Call : c # d /\ pc[c] \in InSchedule /\ pc[d] \in InSchedule
                          => job[c] # job[d]
SchedulesFresh == \A c \in Call : pc[c] \in InSchedule => held[job[c]] = {}

\* ... what a job holds is its entry, or is about to be freed; ...
HeldIsEntry ==
    /\ \A c \in Call : pc[c] = "rel_free" => ids[c] = held[job[c]]
    /\ \A j \in Job :
          (\A c \in Call : pc[c] = "rel_free" => job[c] # j) => held[j] = job_reservations[j]

\* ... and what is reserved is held by a job, or is about to be recorded.
ReservedIsHeld ==
    \A g \in reserved : \/ \E j \in Job : g \in held[j]
                        \/ \E c \in Call : pc[c] = "record" /\ g \in ids[c]

InductiveOnce == SchedulesApart /\ SchedulesFresh /\ HeldIsEntry /\ ReservedIsHeld

-----------------------------------------------------------------------------
(* Liveness                                                                *)

\* Every RPC is answered: the two locks neither deadlock nor starve a caller
\* (service.rs:117-118, 158-159 take them in one order).
CallsReturn == \A c \in Call : pc[c] # "idle" ~> pc[c] = "idle"

-----------------------------------------------------------------------------
(* Seen from outside, clients that schedule a job once per life are served *)
(* by a plain pool of GPUs.  A grant leaves the pool when it is recorded.  *)

FreePool ==
    (Gpu \ reserved) \cup UNION {ids[c] : c \in {d \in Call : pc[d] = "record"}}

Pool == INSTANCE GpuPool WITH free <- FreePool

\* The two-table, two-lock service implements the pool (service.rs:8-13).
ImplementsPool == Pool!Spec

=============================================================================

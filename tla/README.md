# NEMESIS in TLA+

NEMESIS places distributed training jobs on GPU clusters and shrinks their
NCCL communicators around failing hardware.  A Rust control plane
(`src/substrate`) serves three gRPC services over shared in-memory state;
Python agents (`src/agents`) poll it, predict failures and react; a hook inside
the training loop asks for the shrinks.  This directory holds TLA+ models of
the parts whose correctness depends on interleavings, on boundaries or on a
search, TLC configurations that check them, and TLAPS proofs of the properties
that matter most.

Paths below are relative to `src/`; `topology/`, `graph/`, `nccl/` and
`telemetry/` stand for `substrate/crates/nemesis-<name>/src/`.

## The system

| component | state | operations | what is hard |
|---|---|---|---|
| **SchedulerService** (`topology/service.rs`) | `reserved` (set of GPU ids) and `job_reservations` (job to GPU ids), each behind its own RwLock | `schedule`, `release`, `validate`, `get_topology` | concurrent RPCs over two tables and two locks; the same job scheduled twice; repeated releases |
| **TopologySolver** (`topology/solver.rs`) | none; reads the graph under its lock, once per atom | `solve` | the graph changes between two atoms of one spec; knows nothing of reservations |
| **DSL** (`topology/lexer.rs`, `parser.rs`, `checker.rs`) | none | `parse`, `type_check`, `gpu_count` | what the grammar accepts; 32-bit product; rule 4 on alternatives |
| **ClusterGraph** (`graph/graph.rs`) | an undirected multigraph and the index of its ids | `add_gpu`, `add_link`, `mark_unhealthy`, `find_nvlink_clique`, `find_ib_path` | backtracking with pruning; direction of edges |
| **HealerService** (`nccl/service.rs`) | `job_comms`, `world_sizes`, one backend shared by all jobs | `register_job`, `shrink_communicator`, `expand_communicator`, `execute_playbook` | two maps locked separately; one count for every job; best-effort playbooks |
| **NcclSim** (`nccl/sim.rs`) | `active_ranks` (u32) behind a mutex | `shrink`, `expand` | the mutex is dropped across a sleep between the check and the subtraction |
| **NcclReal** (`nccl/real.rs`, feature `cuda`) | an atomic count, a fixed communicator pointer | `shrink` in three phases, `expand` (unimplemented) | load and store around awaits; a phase failing after another took effect |
| **Telemetry** (`telemetry/ring.rs`, `store.rs`, `service.rs`) | a ring of samples per GPU; a broadcast bus of 1024 events | `ingest`, `window`, `publish`, `subscribe`, cluster snapshots | wrap-around; lagging subscribers lose events; snapshots under several locks |
| **NemesisHook** (`agents/nemesis/hook.py`) | a pending flag, a listener thread | `step`, `_listen` | flag set, cleared and acted on by two threads; the listener dies on an error |
| **Agents** (`agents/nemesis/agents/`) | sample windows; job table | polling, language-model loops over the RPCs | the same prediction published at every poll; arbitrary order of calls |

Interaction: agents and hook call the services by RPC; the scheduler and the
telemetry service share the graph; the telemetry service pushes events to the
hook and the healer agent over streams; these call the healer, which awaits its
backend.  `substrate/crates/nemesis-substrate/src/main.rs` wires one graph, one
store and one `NcclSim` of eight ranks.  At this commit nothing outside tests
adds GPUs to the graph or marks them unhealthy: the scheduler's model follows
the contract of `topology/service.rs:17-18`, by which graph mutations come from
the telemetry service at any time.

What makes each correct: the scheduler never grants a GPU to two jobs, grants
what was asked for, frees exactly what a job holds, and answers; the solver and
the graph find a placement when their search space has one and nothing else;
the parser accepts its grammar, but for chains of more than two atoms; a backend's shrink and expand behave
as atomic updates of one count that never reaches zero; the telemetry ring is
a sliding window; a prediction leads to a shrink.  The places where these can
go wrong are the `hazards` of `PROJECT.json`.

## The modules

| module | models | used by |
|---|---|---|
| `ClusterGraph` | what the two searches return, declaratively | `Solver`, `GraphSearch` |
| `TopologySpec` | parsed specs, `gpu_count`, `type_check` | `Solver`, `TopologyDsl` |
| `Solver` | `solve_atom`; what a placement owes to its spec | `Scheduler` |
| `Scheduler` | `schedule` and `release` with their locks, against failing GPUs | `MCScheduler` |
| `GpuPool` | the abstract promise of the scheduler | `Scheduler` (refinement) |
| `GraphSearch` | how the graph is built and its two recursive searches | `MCGraphSearch` |
| `TopologyDsl` | lexer and recursive-descent parser | `MCTopologyDsl` |
| `NcclSim` | `shrink` and `expand` of the simulated backend | `MCNcclSim`, `Healer`, `HealingLoop` |
| `NcclReal` | `shrink` and `expand` of the real backend, with failing phases and dropped calls | `Healer` |
| `Healer` | the healer service: registration, direct calls and playbooks over either backend | `MCHealer` |
| `Communicator` | the abstract promise of a backend | `NcclSim` (refinement) |
| `MetricRing` | the ring of samples of one GPU | `Telemetry` |
| `Telemetry` | samples into rings, rings into cluster snapshots, snapshots into the telemetry agent's windows | `MCTelemetry` |
| `SlidingWindow` | the abstract promise of the telemetry store | `Telemetry` (refinement) |
| `EventBus` | the broadcast channel of hardware events, with lag | `HealingLoop` |
| `HealingLoop` | hooks and healer agent between the bus and the backend; composes `EventBus` and `NcclSim` | `MCHealingLoop` |
| `*_proofs` | theorems about the module they name; `Scheduler_proofs` also about `Solver` and `GpuPool` | |

Operators whose name has no counterpart in the code and whose comment starts
with "Mutant" are deliberately wrong variants of the definition that follows
them.  No specification uses them; `PROJECT.json` names, for each property, the
variant that must violate it.

### Scheduler

A `Call` is a handler that serves one RPC after another.  `pc` is its place:
`lock_reserved`, `lock_jobs`, `solve`, `check`, `insert`, `record` for
`schedule` (`topology/service.rs:99-145`), `rel_lock_reserved`,
`rel_lock_jobs`, `rel_take`, `rel_free` for `release` (152-172).  The critical
sections are NOT collapsed into one step: each access to a table is an action,
and it is the two lock variables that keep handlers apart, as in the code.  The
solver runs inside `solve`: one action per atom (`PlaceLeft`, `PlaceLast`),
because `solve_atom` takes the graph's lock anew, so `MarkUnhealthy` may fall
between two atoms; `TryNext` moves to the next alternative.  The solver's
result is a set of possible answers, left open only where the order of
petgraph's edges decides.

`seen` and `held` are history: for each atom of the alternative under way the
GPUs that were healthy when `solve_atom` had the graph's lock for it, and the GPUs
granted to a job and not released.  They are written, never read, by the
actions, except in `MayScheduleOnce`.  `PlacementFits` judges each atom of a
placement on its own entry of `seen`, so an arm solved on the health of another
moment breaks it.

Left out: response texts, the order of `gpu_ids`, `subgraph` (always `None`),
`validate` and `get_topology`, which change nothing.

Two next-state relations share the actions.  `Next` allows any client.
`NextOnce` is the discipline under which the service leaks nothing: a job id is
scheduled only while it holds nothing and no schedule for it is in flight.

### GraphSearch

Vertices and links are appended as `add_gpu` and `add_link` do, and the two
recursive searches run as the code does, written as recursive functions (proofs
cannot reach RECURSIVE operators): `CliqueSearch` is a function of the candidates
still to come and the clique so far, prunes by count and takes the first
candidate that leads to a clique; since candidates are tried by index, both are
sets, and the order of the GPUs in the answer, which is that of the indices, is
left out.  `DfsIbPath` is a function of the path so far, tries the links of a vertex
in petgraph's order (`FirstListed`) and goes to the end that is not the current
vertex (`Far`).  Bandwidths and hops are only compared, and numbers do.  The
invariants compare the searches with `ClusterGraph`, instantiated on the same
graph, for every size and for every threshold that a link could meet or miss.
This is what entitles `Scheduler` to use the declarative module.

### TopologyDsl

A text is a sequence of words (a dimension with its number, a constraint with
its number, an operator, anything else), so that every decision of the lexer
and the parser is taken while no string is ever built.  All texts up to
`MaxWords` are enumerated.  A parser returns the set of what it read, empty for an
error.  `ParseDisjunction`, which calls itself behind a '|', is a recursive function
of the position; the loop over the constraints of an atom is the position at
which it stops.  `WordsAssumption` says what the constants are: a word carries one
number at most, and an operator is '+' or '|'.  `Pieces`, `WellFormedAtom` and
`InGrammar` are the grammar of `topology/parser.rs:3-11` from the other side, with
no parser in it: cut the text at its '|', each part at its '+'.  `Chained` is a
text with a part of more than two atoms, which the grammar derives and the
parser refuses (see below).  `ParseExact` says that this is all they differ in.

### NcclSim

`ShrinkAdmit` is the check (`nccl/sim.rs:84-97`), after which the call sleeps
without the mutex; `ShrinkApply` is the subtraction (107-111), modulo `U32`; in
a build with overflow checks an underflow is `ShrinkPanic` instead (parking_lot
mutexes are not poisoned, so the count stays usable); the model allows both in
`Wake`.  Shrinks one at a time never panic, which the invariant of `nccl_serial`
implies; overlapping ones do in `nccl_overlap`, where `Panics` of `Healer` follows.
`Cancel` is a call that never reached the backend, or whose future is dropped at
its only await.  `seen` and
`alone` are history.  The latency generator and its seed are left out.

`NextSerial` starts a shrink of one or more ranks only when no other of the kind
is in flight; a shrink of none may always start.  The documented
claim that the service serialises shrinks (`nccl/real.rs:119-122`) is about this
discipline; nothing in `nccl/service.rs` enforces it.

`Communicator` is what such callers see: a call waits with the number of ranks its
request lists, has its effect on the count in one step, exactly that number taken
off or added, and answers the count that step left; a shrink is refused only
if it would have left no rank at that moment; a dropped call has no effect.
The mapping hides the sleep (`Phase`): what it must show is that the check made
before the sleep still holds after it, and that nothing that came in between is
lost.  The counter's limit is a constant of `Communicator`.

### NcclReal

A shrink holds no lock.  `ShrinkAdmit` loads the count into `seen` and checks it
(`nccl/real.rs:224-236`); `Quiesce` is the handshake by which the hook pauses
training (247-253); `Split` is `ncclCommSplit` on a blocking thread (265-279);
`Store` stores what is left of the count that was LOADED (281-282); `Resume` is
the second handshake (293-299).  `QuiesceFail`, `SplitFail` and `ResumeFail` end a
shrink with an error where each phase may fail: in a handshake the hook may or
may not have done its part, and after a failed split no RESUME is sent.  The
split is the only await, so it is there that the future of a call whose client
went away is dropped: `Cancel`; the thread cannot be stopped and splits all the
same (`OrphanSplit`), and nothing is stored.  `expand` is an error.

`paused` is all that is kept of the hook's end of the socket, of which this
repository has no implementation, and `excluded` (history) all that is kept of
NCCL: how many ranks the splits have left out.  `trouble` (history) says whether
calls overlapped, one was dropped or a phase failed, so that each property can
name exactly what it does not survive.  Nothing in the repository constructs
an `NcclReal`; the service's only constructor takes the simulated backend.

### Healer

A `Call` is a handler of the healer service that serves one request after
another; `backend` is chosen at the start, as the trait object is.
`register_job` is two steps, one per lock (`RegisterComms`, `RegisterSizes`,
`nccl/service.rs:141-153`).  Communicator ids are numbered as they are given out, and
the world size of a registration is represented by its id, so that a size
that belongs to another registration can be seen.  `DirectCall` is a shrink or
an expand.  A playbook runs its steps in order: `StepShrinks` takes the
communicator from the parameters (0 here) or from the map as it is at that
moment (251-260), with whatever ranks the step lists; `StepReturns` records what
came of it and goes on, whatever it was (279-307); `StepLogs` is every other kind
of step (310-352), all of which only log; `Answer` is success (355-360).
`Drop` is a client that goes away: the handler is dropped at the await it is
in.  All shrinks and expands are calls of ONE instance of `NcclSim` or
`NcclReal`, for all jobs alike, as in the code.  `mixed`, `issued` and `effect` are
history.

### MetricRing, Telemetry and SlidingWindow

A sample is its number in the order in which those of its GPU came; values and
time stamps are left out, and so the order is that of arrival, as in the
code.  `MetricRing` has the ring's own arithmetic: the buffer, `head`, a length
that saturates, the oldest slot and the skip modulo the window.

`Telemetry` is the way of a sample: `Ingest` pushes it under the store's lock.
`GetClusterState` takes that lock once for the ids (`Poll`) and once per GPU
(`ReadLatest`, in any order), so samples may come in between.  The agent
appends the samples of the snapshot one by one to windows of `SEQ_LEN`
(`AppendSample`), and where the predictor says so it publishes, which is an RPC.
An error of either RPC (`RpcFails`) drops the rest of the snapshot and costs
that poll.  What the predictor says is left open.

### EventBus and HealingLoop

`log` is everything published, and `next` where each subscriber goes on reading
it; 0 stands for no subscription.  The channel keeps the newest `Capacity`
events, and `Skip` is what a subscriber behind them goes through.  What HTTP/2
buffers for a client counts as not yet received.

A hook (`hook.py`) is two threads over one flag.  The listener is `Listen`, `Hear`,
`Miss` and `StreamFails`, which is its end at any RPC error (lines 56-64).  The
training thread is `TestFlag`, `ClearFlag` (the two halves of lines 71-74: the
listener does not take the lock, so it may set the flag in between), `CallShrink`,
then `ShrinkReturns` or, when the RPC fails, `ShrinkRaises`.  The healer agent
(`agents/healer.py`) handles one event at a time with any number of shrinks and
expands of any size, one after another, and ends at any error (`AgentFails`).
Their calls are calls of one `NcclSim`, instantiated in the module, as in
`main.rs`; `Backend` steps it.  Events are only told apart by the hook's threshold
of 0.95; anybody may publish any event, which covers the telemetry agent and
the filter that the server ignores.  `heard`, `acted`, `highs`, `shrinks` and `lost`
are history.  Left out: communicator ids, which the backend ignores, and
`_shrink_lock`, which only the training thread takes.

## The runs

| run | result | question |
|---|---|---|
| `scheduler_safety` | holds | any interleaving of schedules and releases, with re-scheduling and a failing GPU |
| `scheduler_pool` | holds | once-per-life clients: refinement of `GpuPool`, no leak, every call answered |
| `scheduler_leak` | violated | the same no-leak property for arbitrary clients |
| `scheduler_count` | violated | is a grant as large as the `gpu_count` that was type-checked |
| `graph_search` | holds | recursion against declarative result |
| `topology_dsl` | holds | parser against grammar, both directions |
| `nccl_overlap` | holds | what overlapping requests of the healer service still guarantee over either backend, with phases failing and clients going away; do playbooks tell the truth, do requests end, does training resume |
| `nccl_serial` | holds | serial shrinks: refinement of `Communicator`, never empty |
| `nccl_empty` | violated | never empty, for overlapping shrinks |
| `healing_loop` | holds | are predictions acted on, no more often than heard, and the shared backend kept whole |
| `healing_rank` | violated | does a hook's shrink exclude the failing rank |
| `telemetry` | holds | are rings sliding windows (refinement of `SlidingWindow`), snapshots and the agent's windows current and in order, and does the newest sample get through |

Bounds, and why they are enough:

* `MCScheduler`: four GPUs on two hosts (NVLink pairs, InfiniBand of one and two
  hops between them), two handlers, two jobs, at most one failing GPU.  Two
  handlers suffice for every race on two locks; two jobs for double grants and
  foreign releases; the five specs make both alternatives, both arms, arms that
  overlap, a refusal for want of GPUs, a conflict and a type error happen.
  Order of insertion and order of names differ, so the two ways in which the
  solver picks are not confused.  `U32` is large enough not to wrap.
* `MCGraphSearch`: up to four vertices; all subsets of NVLink pairs of two
  bandwidths, all orders of four InfiniBand links of one or two hops, a
  multigraph with all kinds of link; two failing GPUs; ids are symmetric.
* `MCTopologyDsl`: twelve words, texts of up to six, which is three atoms with
  operators or one atom with many constraints; a four-bit number width so that a
  number can be too large.
* `MCNcclSim`: a three-bit counter, four ranks, amounts of up to three: two
  shrinks by two empty the communicator, larger ones wrap, expands saturate.
  Three calls, so that expands overlap a shrink and each other; calls are
  symmetric, and every property is one of safety.
* `MCHealer`: two calls, two jobs, three ranks, a counter of four values and
  shrinks by two, so that two of them wrap it; a playbook that shrinks, logs and
  shrinks again.  Three requests are enough for a job registered anew under a
  playbook, for two registrations that overlap, for a direct call between the
  two shrinks of a playbook, and for a call after one that was dropped.  Two
  calls show everything the overlap can do: each backend has one count, and
  what a third call finds there another two could have left.
* `MCTelemetry`: two GPUs, rings of two slots, windows of two samples, five and
  three samples: one ring wraps twice, the other once.  Two RPCs may fail,
  enough for one to fail in the middle of a snapshot and the next at once.
* `MCHealingLoop`: one hook and the healer agent, three events through a channel
  of two, so that both lag; two ranks, of which shrinks take one and to which
  expands add one.  Three events are enough for one that coalesces between the
  test and the clearing of the flag and one that comes during the shrink.  Hooks
  meet only in the backend, where theirs exclude nothing; the theorems are for
  any number of them.

Deadlock is checked in the scheduler, serial backend and telemetry runs.
`GraphSearch`, `TopologyDsl` and `Healer` stop when their bound is reached, and so
does the healing loop when all events are published and training has ended.  That
the healer's requests do not wait on each other is `RequestsEnd`.

### Fairness

`CallsReturn`, `PredictionActedOn`, `RequestsEnd`, `TrainingResumes` and `NewestSeen` need it.  For the first, `WF(Proceed)` per handler: tokio never abandons a
runnable task, and between two lock acquisitions a handler has no wait.
`SF(AcquireLock)` per handler: parking_lot's locks are eventually fair, so a
waiter for which the lock is free again and again obtains it; with weak
fairness alone another handler could take it for ever.  `MarkUnhealthy` and the
arrival of requests get none.

For the second, `WF(Listener)` per hook: the thread runs while its stream has
events; `WF(Trainer)` per hook: a training loop that has not ended calls `step()`
again, and a `step()` under way goes on; `WF(Backend)` per call: its sleep of at
most 10 ms ends.  Training ending (`Stop`), streams failing and the agent get
none, and the property names them as the ways out.

For `RequestsEnd` and `TrainingResumes`, `WF(Handler)` and `WF(Backend)` per call:
tokio runs what can run, and the backend's waits end, the simulated ones
because they are sleeps, the handshakes because the hook answers or their
timeouts of 30 and 5 seconds expire (strictly the timeout starts at the read,
and NCCL's split is assumed to return).
`Backend` includes the failures, so nothing says that a phase succeeds:
`TrainingResumes` names failures and dropped calls as the ways out.  Arriving
requests and clients that leave get no fairness.

For `NewestSeen`, `WF(Agent)`: the loop of `agents/telemetry.py:53-62` has no exit
but an exception of another kind, and the server answers.  Failing RPCs get
none; `MaxFailures` bounds them, without which every poll might fail.

## Disagreements between the code and what it says

* `scheduler_leak`: `job_res.insert` (`topology/service.rs:136`) replaces the entry
  of a job scheduled again before its release.  The later release frees the new
  GPUs; the old ones stay in `reserved`, belong to nobody and can never be
  freed, against lines 149-150.
* `scheduler_count`: `gpu_count` multiplies the degrees of a conjunction while
  the solver places their sum.  `TP2+DP1|TP2` passes rule 4 and reserves three
  GPUs or two, against `topology/checker.rs:10-11` and 36-37.
* `nccl_empty`: two shrinks admitted on the same count take it to zero or wrap
  it, against `nccl/sim.rs:83`.
* `healing_rank`: the hook's request lists no ranks (`agents/nemesis/hook.py:80`)
  and carries no GPU id; the backend subtracts the length of the list
  (`nccl/sim.rs:82`).  A hook's shrink succeeds and changes nothing, against
  `hook.py:69`, "server derives affected ranks from the gpu_id in the event".

Four more are not runs of their own; the properties below them state what the
code does keep.

* An answer of the solver may hold a GPU that became unhealthy since its atom was
  solved: the graph's lock is dropped between the atoms of a spec and before the
  answer, and nothing looks again.  `graph/graph.rs:27` says of such a GPU "excluded
  from all solver outputs".  `PlacementFits` is per atom for this reason.
* The EBNF at `topology/parser.rs:7` is `atom ('+' atom)*`; `parse_conjunction`
  (102-110) takes two atoms at most, as its own comment says, and `parse` refuses
  what is left.  `TP2+PP2+DP2` is in the grammar and is refused.  `ParseExact` sets
  exactly these texts apart.
* The real backend checks a shrink against a load made before a handshake and a
  split (`nccl/real.rs:224-236`, "cannot exclude ... ranks from communicator").  Two
  that overlap, or one after another whose caller went away in its split, together
  leave out every rank while the count still reads more than zero.
  Lines 119-122 and 262-263 count on a lock in `HealerServiceImpl` that does not exist.
  `RealNeverEmpty` names both exceptions.
* An expand reports the count before it plus the number of new GPUs, says
  `nccl/backend.rs:10`.  `saturating_add` (`nccl/sim.rs:137`) reports less at the limit
  of the counter.  `Communicator` has that limit in `Expand`.

## The proofs

Every theorem holds for all values of the constants that satisfy the named
assumptions (`GraphAssumption`, `SpecAssumption`, `NoneAssumption`,
`SimAssumption`, `RealAssumption`, `BusAssumption`, `HealerAssumption`,
`RingAssumption`, `TelemetryAssumption`, `OrdersAssumption`, `WordsAssumption`): finitely many
GPUs, any links, any set of specs of the parser's shape, any handlers and jobs, any
counter width, graphs and texts of any size.  TLC evaluates the assumptions in the runs.

Every invariant of the passing runs is a theorem, and so are `OnlyOwnerFrees`,
`ServedSerially` and the three refinements.

* `Scheduler_proofs`, any clients: `NoDoubleGrant`, `GrantsReserved` and `PlacementFits` are not
  inductive alone.  `Inductive` adds: the handler between its two locks owns the
  first (`LockOwned`); what it was asked has not changed (`AskedKept`); the
  solver's cursor is on an atom of the spec, with the left arm's group kept
  (`SolverAt`); and, per place in the transaction, how far the tables have been
  brought (`MidTransaction`: at `insert` the new GPUs are still unreserved, at
  `record` they are reserved and held by nobody, at `rel_free` they are held by
  the job whose entry is gone).  One lemma per action shows that it is kept; for
  `PlacementFits` the left arm's group is kept with the health it was placed on
  (`SolverAt`) while the graph changes under the right one.  From it follow the
  three safety properties, each a theorem, and `OnlyOwnerFrees`.
* `Scheduler_proofs`, clients of `NextOnce`: `InductiveOnce` adds that schedules in
  flight are for different jobs which hold nothing, that a job's entry is what
  it holds unless a release is about to free it, and that whatever is reserved
  is held or about to be recorded.  From both invariants: no leak
  (`OnceNoLeak`) and step simulation of `GpuPool` (`SchedulerImplementsPool`);
  `RecordJob` maps to a grant, `FreeGpus` to a release, everything else to a
  stutter.
* `GraphSearch_proofs`: `GraphIndexIsExact` is inductive with the types.  For
  `GraphCliqueFound` the specification of one call of `clique_search` is stated
  first (`CliqueSearch` on candidates above every index of a clique finds exactly
  one clique that extends it by candidates, the least in the order of indices, or
  none when there is none) and shown for all calls by induction on the number of
  candidates; pruning by count cuts nothing because a clique of the size needs
  that many candidates.  For `GraphPathFound` likewise: a call with a simple path of
  healthy GPUs returns a simple path that continues it, and none only if no
  path does, by induction on what the path has left to reach.
* `TopologyDsl_proofs`: `DslParseReadsAll` by soundness, level by level: what
  `ParseAtom`, `ParseConjunction` and `ParseDisjunction` return is the only result from
  that position, is well formed, and written down is the tokens between the two
  positions (`ReadWell`); for the disjunction by induction on the tokens left.
  `DslParsedIsSpec` follows from the same lemmas.  `DslParseExact` is both directions of
  the language.  What the parser takes is in the grammar and chains no three atoms:
  each alternative it reads lies between two neighbouring '|' and is one or two
  well-formed pieces (`AlternativeSound`, and `DisjunctionSound` by induction on
  the tokens left).  What is so is taken: a well-formed piece in front of a token that is no constraint is read as an
  atom up to that token (`AtomComplete`), an alternative of one or two such
  pieces is read up to its '|' (`AlternativeComplete`), and from every cut at a '|'
  the rest is read to its end (`DisjunctionComplete`).
* `NcclSim_proofs`: `SimInductive` and `SimAloneExact` for arbitrary callers;
  `SimSerialInductive`, `SimNeverEmpty` and
  `SimImplementsCommunicator` for serial shrinks, from `OneShrink` and
  `AdmittedStands` (the ranks a sleeping shrink was admitted for are still
  there: only a shrink that excludes ranks removes any, and it is alone).  In the
  refinement the end of a sleep maps to the whole effect of the call, with the
  amount and the count that are the call's own.
* `HealingLoop_proofs`: `NothingForgotten` (`LoopActsOnPredictions`) is inductive with
  the types; `NoSpuriousShrink` (`LoopNoSpuriousShrink`) needs `OwedFor` (requests made, flagged or about to be made
  never exceed the events heard) and `FlagAtClear`.  `CallsOfWaiting` (who waits
  has the call, and hooks' calls exclude nothing) makes every step one of
  `NcclSim`'s `NextSerial` or a stutter: `LoopServedSerially`.  With `SimNeverEmpty`,
  taken from an instance of `NcclSim_proofs`, follows `LoopNeverEmpty`.
* `NcclReal_proofs`: `RealSafe`.  `NeverUndercounts` is not inductive: it needs
  `ClaimsStand` (what a call in flight is about to store is no less than the ranks
  left, and not zero), which survives overlaps because a split only takes
  ranks away.  `NeverEmpty` follows from `CountExact` and `CountPositive`: the count is
  never zero, and where it is exact neither is the number of ranks left
  (`RankLeft`).  `CountExact` and `SplitPaused` need `OneAtATime` (a call that met
  no other has loaded the count there still is, and training is paused from
  its split to its RESUME).
* `Healer_proofs`: `Own`, the service's part of the invariant, is that of playbooks
  (`CurrentStep`: the actions recorded are true, and where the backend is tells
  whether the present step has taken effect) and of the maps (`Registrations`:
  a job's registrations not known to overlap leave both maps with one id).
  `HealerReports` and `HealerRegistrations` follow.  `HealerServesSim` and `HealerServesReal` show that each
  step of the service is a step of its backend's module or a stutter, so that
  `HealerAloneExact`, `HealerRealSafe`, `HealerRealNeverEmpty`, `HealerCountExact` and
  `HealerSplitPaused` are got from the backends' own theorems,
  through instances of their proof modules; so is the backend's part of
  `HealerInductive`.
* `Telemetry_proofs`: `TelemetryImplementsWindow` for any window length.  A push into a
  ring that holds the newest samples gives one that does (`Exact`), by the
  arithmetic of one step modulo the window; reading such a ring gives the
  sliding window.  `TelemetryCurrent` and `TelemetryAgentCurrent` add `InOrder` (what is
  still in the snapshot is no older than the poll, and no older than what the
  window ends with).

The provers know nothing of recursive functions and have no induction to
offer that they could use, so `GraphSearch_proofs` and `TopologyDsl_proofs` start from
less: every non-empty set of naturals has a least element (`LeastNat`), hence a set
of naturals that has 0 and, with each n, n + 1, has them all (`Induction`), hence a
function whose definition looks only at arguments of smaller rank satisfies its
definition (`RecursionExists`).  Ranks are the numbers of candidates, of vertices
not on the path, and of tokens left.  `FlattenSeq` of the community modules is
characterised in the same way, as the last of a chain of concatenations (`Chain`).

Model-checked only: `CallsReturn`, `PredictionActedOn`, `RequestsEnd`, `TrainingResumes` and
`NewestSeen`: liveness and fairness are outside the prover.  The properties of
the violation runs are, of course, not theorems; what holds in their place is
(`OnceNoLeak` for `scheduler_leak`, `SimNeverEmpty` for `nccl_empty`).

## What the real backend does not promise

The properties of `NcclReal` are as strong as its code allows, and name their
exceptions.  Comments say that `HealerServiceImpl` serialises the shrinks of a
communicator (`nccl/real.rs:119-122`, 263); there is no such lock in it.  Without it,
when shrinks overlap

* a store overwrites another: the count stays too large (`NeverUndercounts` is
  what is left of exactness), which refuses nothing that should be admitted
  but admits shrinks of ranks that are gone;
* two shrinks leave out every rank between them, and the count does not tell
  (`RealNeverEmpty` is for calls that neither overlap nor are dropped);
* the RESUME of one lets training go on while the other splits (`SplitPaused` is
  for calls that do not overlap).

Also without overlaps a dropped call leaves the count too large and training
paused, and so does a failed split leave training paused (`TrainingResumes` names
both); a failed RESUME gives an error for a shrink that took effect, so a client
that retries shrinks twice, which is why `PlaybookReports` says nothing of
steps recorded as ERROR.

## Not modelled

* The scheduler agent: its calls are those of `Scheduler`'s arbitrary clients.  What it
  returns to its own caller when one response holds several calls is a hazard
  without a property, since nothing says what it should be.
* The healer agent's decisions and its table of jobs, which only the language model
  reads; the neural predictor and the benchmarks, which are numeric.
* The time stamps of samples: one that arrives late is stored in the order of
  its arrival, and no code looks.
* The communicator pointers of `NcclReal`: the split's result is logged and not
  kept.
* `nemesis-sim`: its metric task is a caller of `Ingest`, the rest makes up values and
  reads configuration; `scenario.rs` and `bandwidth.rs` have no caller.
* Protobuf code, the contents of playbooks, and reads for display (`to_proto`,
  `list_playbooks`, `link_bandwidth`, `validate`, `get_topology`).

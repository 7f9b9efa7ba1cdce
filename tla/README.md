# A verification project for S13Code

S13Code runs a user's request as a *live graph*: a planner looks at what has
happened so far and patches a graph of tasks, an executor runs the tasks whose
parents have succeeded, and everything is journalled in SQLite so that a run
survives its process. Around it are a memory store, an A2A (agent to agent)
server and a stream of UI events. These modules model that program and prove
or check what it promises. Paths below are relative to `src/s13code/`.

## The system

| component | code | state | operations | interacts with |
|---|---|---|---|---|
| graph store | `core/live_graph/store.py` | rows of `runs`, `nodes`, `edges`, `events`, `patches` | `start`, `resume`, `mark_running`, `record_outcome`, `apply_patch`, `record_external_event`; reads `snapshot`, `ready`, `pending_planner_events`, `is_finished`, `node_state` | executor, bridge, routes |
| executor | `core/live_graph/core.py` | `in_flight`, `executed` and locals of `run()`, per call | `run` (replay, launch, wait, batch, test stop), cancelling of workers, being cancelled at an await | store, planner, workers |
| runtime planner | `runtime.py:249-392` | none: a function of (graph, event) and of the run's mode | `plan` | executor |
| constrained planner | `planner.py` | `last_selection` | `plan` with fallback, `_parse` | executor, language model |
| workers, routes, CLI | `runtime.py`, `tools.py`, `gateway.py`, `routes.py`, `main.py`, `cli.py` | the run's context row | start, resume, read a run | runtime, memory |
| A2A server | `core/a2a_adapter/server.py` | tasks (memory and SQLite), jobs, push deliveries | `send`, `stream`, `cancel`, `start` (recovery), `_complete`, `_notify`, `close` | handler, webhooks |
| A2A graph bridge | `core/a2a_adapter/official.py` | `remote_ids`, `results` (volatile) | `dispatch_waiting`, `result_skill`, `cancel_node` | store, A2A server |
| bindings, cards, trust | `core/a2a_adapter/{grpc_binding,client,trust,schema}.py` | none | parse, sign, verify | A2A server |
| memory store | `core/memory/{store,models,vector_index}.py` | `records`, `documents`, full text rows, vector index in memory and in two files | `write`, `ingest_document`, `recall`, `get` | runtime workers |
| chunking, embeddings | `core/memory/{chunking,embeddings}.py` | none | segmentation, vectors | memory store |
| AG-UI stream | `ui/agui.py`, `ui/routes.py`, `ui/client/index.html` | the browser's data model and its connection | snapshot, deltas, one reconnect | store's journal |
| surfaces | `ui/{validator,catalog,surface,showcase,hitl,routes}.py` | none that reaches the graph | validate, render, accept an action | AG-UI, routes |

What makes it hard:

* *Interleaving at awaits.* Everything runs on one asyncio loop, but `run()`
  gives way while it waits for workers and while it awaits the planner. Nothing
  prevents a second `run()` on the same run: `POST /runs/{id}/resume`
  (`routes.py:69`) checks only that the run exists.
* *Two commits per event.* An outcome and the patch planned for it are separate
  transactions; a crash between them is repaired by a replay.
* *Cancellation.* The graph cancels rows first and coroutines later; a worker may
  finish in the same loop turn, ignore its cancellation, or never come back.
* *Untrusted plans.* A language model proposes patches, surfaces and topic
  boundaries; the store, the validator and the chunker are the only lines of defence.
* *Half-done operations.* An exception in the middle of a memory write leaves its
  transaction open; the vector index is two files beside the database.
* *Tapes.* The browser reads a stream that was cut when the server answered,
  of a run that goes on.

What makes each component correct: the store's rows agree with the journal, stay
acyclic and never reopen; the executor's `in_flight` agrees with the rows,
respects its capacity, and returns; the runtime planner eventually finishes every
run whose workers return; an A2A task settles once and every settled state is
notified at least once or given up after `push_attempts`; a bridge's completion
is never refused and a node is awake only with its result; a memory record is durable
once its writer was answered, audited, superseded at most once, and a document has one current
version; the chunks are the text; a reconnecting client holds the same model as one that
never left, and what it is given to draw can be drawn.

## Modules

| module | models | theorems |
|---|---|---|
| `GraphStore` | the rows of one run and every transaction on them | in `GraphStore_proofs` |
| `LiveGraphExecutor` | `run()`, its workers, the planner, the process, over `GraphStore` | in `LiveGraphExecutor_proofs` |
| `RuntimePlanner` | `DeterministicPlanner` and every kind of request, over `GraphStore` | in `RuntimePlanner_proofs` |
| `RemoteTask` | what an A2A server promises of its tasks: the abstract specification | |
| `A2AServer` | remote tasks, their coroutines, pushes and recovery; implements `RemoteTask` | in `A2AServer_proofs` |
| `A2ABridge` | graph nodes that wait for remote tasks: `GraphStore` composed with `RemoteTask`; a client of the store | in `A2ABridge_proofs` |
| `MemoryStore` | records, documents, the audit, the vector index and its files | in `MemoryStore_proofs` |
| `SemanticChunks` | the segmentation loop | in `SemanticChunks_proofs` |
| `Surface` | the catalog, the validator, what a client draws, the progress view (operators only) | in `RunView_proofs` |
| `RunView` | a browser on a run: `GraphStore` composed with `Surface` and the AG-UI stream | in `RunView_proofs` |
| `..._proofs` | | the proofs about the module they extend; see Proofs |
| `MC...` | constants for TLC, and in `MCGraphStore` a bound on the journal | |

### GraphStore

`run`, `node`, `edges`, `journal` and `patched` are the rows of `runs`, `nodes`,
`edges`, `events` and `patches` for one run id. An action is one committed
transaction (`with self.db:`), with all the statements in it; a transaction that
raises rolls back and is no action, and its condition is an operator (`Acceptable`,
`CanRecord`) that the executor's model uses to see the refusal.

| definition | code |
|---|---|
| `Start`, `Resume` | `start`, `resume` |
| `ReadyUpTo`, `Launch` | `ready` and, with no await between, `mark_running` |
| `RecordOutcome`, `RecordExternalEvent` | the same in snake case |
| `Acceptable` | every check of `apply_patch`, 141-175; the `KeyError` of a patch that cancels a task it adds is one of the refusals |
| `HasCycle` | `_has_cycle`, stated as "a nonempty set in which everyone has a parent" |
| `Updated`, `Settled`, `CancelledBy` | the INSERTs and UPDATEs in their order: add, cancel, wait, resume, finish |
| `ApplyPatch` | the whole transaction, with the already-patched early return as its guard |

What is abstracted: task ids are numbers in the order `ready` sorts them; inputs,
results, metadata and reasons are left out; the rows one transaction writes to
`events` become one journal entry, so that its index plays the role of
`sequence`; `add` is a set, so a patch that names an id twice (always refused) is
not represented; the journal is that of a single run.

### LiveGraphExecutor

A member of `Executors` is a call of `run()`; `pc` is where it stands:
`replay` and `replanning` in `_replay_pending_planner_events`; `fill` at the top of
the loop; `waiting` in `asyncio.wait`; `batch` in the loop over `done`; `planning`
while it awaits the planner on an outcome. `loop` names the coroutine that is
between two awaits; nobody else moves until it awaits or ends. `future` is
`in_flight` with the state of each asyncio task; `orphans` are coroutines whose
`run()` has left. A crash keeps the rows and forgets the rest.

| definition | code (`core.py`) |
|---|---|
| `Begin`, `Replay` | 97-117, `_replay_pending_planner_events` |
| `FillAndWait`, `WaitOrReturn`, `Wake` | 121-136: free slots, `asyncio.wait`, the batch it returns |
| `Discard`, `Record`, `EndBatch` | 140-169, one future at a time |
| `PlanApplied` | `_plan` after its await, and what its caller does next |
| `RecordRefused`, `PlanRefused` | an exception that ends `run()` (`Leaves`) |
| `Cancelled` | the `CancelledError` that surfaces at 136 or 200 when the caller of `run()` is cancelled, as `A2ADemoServer.cancel` does to a handler (`server.py:222`) or a server to the handler of a client that left |

`asyncio.wait` does not cancel what it waits for, so a cancelled or raising `run()` leaves its coroutines at work and their rows
running until somebody resumes the run. Being cancelled is never owed.

The check of `is_finished` at `core.py:157` needs no action: a run whose outcome has just been
recorded is not finished, because a finished run has no running row
(`FinishedIsQuiet`). An exception of the planner and a refused patch have the same
effect on `run()` and are one action, `PlanRefused`. `Parsed` is the planner in front of
the store: with `SoundPlanner` a patch that fits the snapshot it was shown, otherwise anything
of the right form, since `ConstrainedGraphPatchPlanner._parse` checks the form of a
model's answer and not its fit; its fallback is one of the patches. A cancelled worker normally
ends cancelled, but may return or fail while it handles the cancellation.

### RuntimePlanner

The planner (`runtime.py:248-392`) is a pure function of the graph and one event, here
`Planned(t)`. It never awaits, so the executor is reduced to what that leaves open:
`Begin`, `Plan` (an event is planned for before anything else happens), `Fill`,
`WorkerReturns`, `WorkerFails`, and `Restart` between any two transactions.

| definition | code |
|---|---|
| `Requests`, `Frontier` | `_work_intent`: the mode, how many entities or URLs, whether a fact is to be remembered |
| `FirstPatch` | the patch for `run_started` |
| `AfterResearch`, `AfterSource`, `AfterDistill`, `AfterRecall` | the branches of `plan` for one outcome |
| `Discovered` | `search` and `list_directory`, one task per hit or path |
| `AnswerPatch`, `ExplainFailure` | `answer_patch`, and the branch at 384-387 |
| `Leaves`, `IsResearch`, `RetryFor` | `_research_leaf_ids`, `_is_research_node`, `_slug` |
| `Shown` | the outcomes that `compose_surface` binds (`runtime.py:673-690`) |

What is abstracted: task ids are numbers in their alphabetical order, which decides
whom `ready` takes first; the recognition of a mode in the text is a choice among
`Requests`; a result is how many hits or paths it lists, or whether it is weak
evidence (`evidence`); of a retry's input only the task it corrects (`corrective`).
`alias` is the case of two entities with one slug.

### A2AServer

Up to three coroutines work on a task: the `call` that created it, its `job`, and a
call of `cancel`. `call` and `job` say where they stand, `push` which update each is
announcing. An action runs one coroutine from an await to the next.

| definition | code |
|---|---|
| `updates` | the task's row and its rows of the delivery ledger: each state it had, with attempts and delivery; the index stands for `updated_at` |
| `Send` | `send`, `stream_updates` to the first yield, `_new_task` |
| `StreamResumes`, `JobWakes` | after the yield (187-190); `_complete_later` |
| `HandlerEnds` | `_complete`, which does not look at the state again |
| `Cancel` | `cancel`; `job.cancel()` takes effect in the same step, since it reaches the job at its await whatever else is ready |
| `PushAccepted`, `PushFails` | one round of the loop of `_notify` and what its caller does next |
| `ClientLeaves`, `CancellerLeaves` | the cancellation of a request's coroutine (external) |
| `Restart` | `close()` or a crash, `load_all`, `start` |

What is abstracted: texts, artifacts, signatures, authentication; the delays between
attempts, so that they take any time; a post that its sender gave up and that takes effect later; `push_callback`, which `main.py` does not set. A handler
lets its cancellation through, as `S13Runtime.run` does. Clients cancel a task only when they
can know its id (`Known`).

`Promised` maps this state to `RemoteTask`: the latest update is the state, `dropped` calls are
the abandoned tasks. `RemoteTask!FairSpec` is then the contract the bridge is checked against.

### A2ABridge

A call of `dispatch_waiting` creates at most one remote task, so a member of `Calls` names both.
The bridge and the graph share an event loop; `turn` holds what a coroutine has still to commit before
it next awaits, and only a death of the process falls in between.

| definition | code (`official.py`) |
|---|---|
| `Dispatch`, `Started`, `Replied` | `dispatch_waiting` 116-119 up to each await |
| `Completed`, `Wake` | 120-127: the result, the journalled event, and the patch if the node still waits |
| `Breaks` | an exception of `SendMessage` or `SubscribeToTask` |
| `CancelNode`, `CancelReaches`, `CancelReturns` | `cancel_node` |
| `Decide`, `Decided` | a client that cancels the node in the graph, as `tests/test_hardening.py` does |
| `Outcome` | `result_skill`, whose `KeyError` fails the node |
| `GraphStep`, `RemoteStep` | the rest of the graph, its resume with or without a death included, and the server by its promise |

A crash forgets `remote_ids`, `results` and every coroutine, and keeps the rows; the server is another process.

### MemoryStore

`seen` is what the connection reads, `saved` what is committed; they differ when a write has raised after its
INSERT, since `write` neither rolls back nor commits then. `index` is `MemoryStore.vectors`, `sidecar` the two files.

| definition | code (`core/memory/`) |
|---|---|
| `Write`, `WriteCut` | `write`, `_write`, `_append_audit`; the second when the embedder fails on the audit's text |
| `Ingest`, `IngestFails` | `ingest_document`; `with self.db` rolls back whatever is uncommitted |
| `IndexAgrees`, `Rebuild`, `Persist` | `_ensure_vector_index`, `VectorIndex.rebuild`, the second file of `persist` |
| `Recall`, `Answer`, `RecallCut` | `recall` with its lazy re-embedding |
| `MayRead`, `Neighbours` | the scope's WHERE clause; `expand_neighbors` |
| `Restart`, `Loaded` | the constructor, `_load` |

An embedder is its fingerprint and different embedders have different dimensions, as the two of `embeddings.py` do. Scores,
full text search, `valid_to`, policies, and the limit of a recall are left out; so is a record's text. A file of the index
is written completely or not at all.

### SemanticChunks

A text is a sequence of words, each of which begins a line of some kind or not; `pending` and `raw` are the locals of
`semantic_chunks`, a step is one turn of its loop. `StructuralEnd` is `_structural_end`, with its `rfind` that
returns -1 (`LineStart`). The segmenter is anything: it fails, or answers any part of the block or something foreign. `SplitAt` is
the final occurrence of a verbatim suffix, up to white space. A reply is made of whole words: `chunking.py:216-219` also accepts a suffix that begins
inside a word, and would cut that word. `prepare_markdown` and the records that `semantic_chunks` makes
of the segments are left out.

### Surface and RunView

`Surface` has the catalog as a table, `Accepts` (`validate_surface` for one component), `Drawn` (what the `node` of `app.html`, which shows composed surfaces,
reaches from the root; `index.html` draws the progress view by the same walk) and `RunSurface` (`build_run_surface`). `RunView` adds a run, a worker that composes a surface, and a
browser: `Open`, `Connected` (the server answers `GET /events` and cuts the tape: the journal as it is), `Frame`, `Finished`, `Lost` (`onerror`:
reconnect once, with a snapshot). `WithDelta` and `DataModel` are the reducers of `agui.py`, which `index.html` mirrors. The
pace of the tape is any pace.

## Runs

| run | instance | shows |
|---|---|---|
| `store` | 3 tasks, 11 patches, journals up to 7 entries | over every order of transactions: a finished run is quiet, nobody waits in a circle, journal and rows agree, starts follow parents |
| `executor` | 1 call at a time of up to 3, 3 tasks, 2 workers, 1 call cancelled, 2 crashes, test stops 1 and 2 and none, a sound planner | rows and `in_flight` agree, one event is behind at most, a return is clean, `run()` never raises |
| `untrusted` | the same with patches the store refuses, fair | a refusal loses no event; `RunEnds` |
| `concurrent` | 2 overlapping calls, 2 tasks, 1 call cancelled, 1 crash | `StoreSpec`: every step of the executors is a transaction of the store or none; `RunningIsHeld` |
| `requeue` (violated) | 2 overlapping calls, none cancelled, no crash | finding 1 |
| `planner` | every request with 2 entities, URLs, hits or paths at most, 2 workers, 1 restart | patches are accepted, synthesis and answer wait, weak evidence is not shown, a run at rest is explained, success finishes |
| `a2a` | 2 tasks of any kind, 2 push attempts, 1 restart | one coroutine per task, the webhook is told, in order; `PromiseKept`: `RemoteTask!FairSpec` is implemented |
| `bridge` | 1 node, 2 dispatches, 1 resume of the run, 1 death, journals up to 7 entries before anyone but a dispatch in progress adds to them | no refused patch, no node awake without its result; a subscribed node stops waiting; `ClientOfStore`: every step of the bridge, its clients and the graph is a transaction of the store or none |
| `memory` | a tenant's scope and a user's in it, 1 source with contents of 1 and 2 chunks, 3 records, 2 deaths, 2 embedders | durability, audit, one successor, one version, a paired index, scopes apart |
| `memory_embedder` (violated) | 2 records, 1 restart | finding 2 |
| `chunks` | every text of at most 6 words, at most 3 words a segment, segmenter from 2 words on | segments are the text, structures are kept but for the listed shapes, the loop ends |
| `ui` | 2 tasks, 8 proposed surfaces with one flaw or none, journals up to 7 entries | the browser holds a prefix, a finish is final, views are whole, a flaw is contained, the browser settles |

Bounds: `MaxEvents` (journal length), `MaxCalls` (calls of `run()`), `MaxCancels` (of them cancelled), `MaxResumes`, `MaxCrashes`, `MaxRestarts`, `Breadth`,
`PushAttempts`, `MaxRecords`, `MaxLength`, `MaxWords`. Seven journal entries are enough to start a run, add two
generations of tasks, launch, record and finish with a resume between any two of
these; three tasks are the least with a dependency, an independent
sibling and a cycle through two patches; two workers the least for a sibling
that finishes in the same loop turn. Three calls and two crashes allow a crash in
the run and another in its recovery. Two entities are the least for siblings that end in
either order and for a weak one beside a sound one; two attempts the least for a
retry; remote tasks share nothing but the process, so two of them show a restart that finds
tasks in different places. Two dispatches of a node are the least in which one finds it awake, cancelled or
waiting again. Three records allow a document of two chunks to replace one of one, or a correction of a correction; two
deaths, one that leaves the files of the index unequal and one that reads them. Six words at three a segment
allow two cuts and a roll-over before each. Deadlock is not checked: a finished run, a
settled browser and an exhausted bound really stop.

Fairness: weak fairness of each executor's own steps (the event loop runs what is
runnable), of the planner's answer (the language model call ends within the 120 s of `gateway.py:17` or raises),
and of the end of a *cancelled* worker (asyncio delivers the cancellation at its next
await). A worker nobody cancels may hang for ever: the first half of `RunEnds` holds all the same, and
the second assumes that workers return and says so in its formula. `RuntimePlanner` has weak
fairness of the loop as a whole (its workers end sooner or later; a restart is never
owed). `A2AServer` has weak fairness of each task's steps and pushes: the handler is
a run, which ends or raises, and a post has the 10 s timeout of `main.py:81`; cancelling,
leaving and restarting are never owed. `A2ABridge` has weak fairness of the loop's own steps and the promise of
`RemoteTask` in place of a server, which `a2a` shows to be kept. `RunView` has weak fairness of the browser's
reading, and none of the run: `ViewSettles` holds of a run that never finishes. `SemanticChunks` runs its loop.

The type invariants (`StoreTypeOK`, `TypeOK`, `PlannerTypeOK`, `A2ATypeOK`, `BridgeTypeOK`, `MemoryTypeOK`, `ViewTypeOK`,
`ChunkTypeOK`) are theorems, as are `SettledStays` and `WithinCapacity`; no run repeats them.

## Findings

1. `requeue` / `OnlyInterruptedRequeued`: `resume` cannot tell an interrupted task from
   one that a live `run()` is executing; resuming a live run puts its tasks back to
   pending and runs them again, against `core.py:100`.
2. `memory_embedder` / `OldMemoryIsSearchable`: `_ensure_vector_index` compares ids only. After a restart
   with an embedder of another dimension the ids agree, the old vectors stay, and the search raises before the loop that
   would embed the rows again, against `core/memory/store.py:253`.

## Deviations

Where the code does something else than one may expect, the properties above name the exception exactly, and it is listed here:

* `apply_patch` writes cancellations first and then parks or resumes, so a patch with one waiting task in both lists
  journals `task_cancelled` and leaves the task pending (`store.py:180`). `CancelledNeverStarts` holds of patches that keep the lists
  apart (`CancellationHolds`).
* `run()` may leave its loop with the run open and nothing waiting (`runtime.py:334`, `core.py:132`), in three ways that
  `RestIsExplained` lists and shows to be all: a task pending behind a parent that failed, since `ready` demands success; a
  birthday reminder whose request has no fact to remember; a frontier task that failed while
  `remember` was at work, whose success afterwards explains nothing.
* With `S13_MAX_WORKERS=1`, `answer` comes before `remember` in id order, and the finishing patch cancels the fact unsaved (`runtime.py:365`).
* Two entities with one slug share one retry (`runtime.py:307`): a weak outcome may then be shown, as `SynthesisWaits` says.
* `cancel` stops a job, but nothing stops the handler of a stream, whose outcome overwrites the cancellation
  (`server.py:239`): `RemoteTask!Outrun`, the only change of a final state.
* A `run()` whose caller is cancelled, or that raises, leaves its workers at work and their rows running (`core.py:136`); a resume
  executes them again beside the old coroutines. `ReturnIsClean` and `RunningIsHeld` except such calls.
* A task's webhook is not told when the process dies, or the client leaves, between the save and the push (`server.py:245`):
  `QuietMeansTold` excepts these tasks. A post given up by its sender may still arrive later, which is not modelled (`server.py:270`).
* A bridge that dies, or loses its connection, is not replaced: the journalled completion is of a kind that
  `pending_planner_events` does not replay, and the node waits for ever (`SubscribedStopsWaiting`).
* A write that raises on its audit leaves its rows in an open transaction, which a later commit, of anybody's, keeps and a failed
  ingest or a restart drops (`DurableIsAudited`). A death between the two files of the index with such a transaction open may pair them wrongly
  for good (`PositionsResolve`).
* Some shapes escape the rule of `chunking.py:128-133` that headings, fences and tables are kept whole: see `StructureIsKept`.
* "A single poisoned node cannot blank the screen" (`validator.py:12-14`) fails for a rejected root, for a value on which the validator
  or the report raises (a pointer that is no string; a type, an action, an id or a child that cannot be hashed: `validator.py:83`, `131`, `147`,
  `runtime.py:899-901`), and for children that form a cycle: "validated by tree walk elsewhere", but no walk exists.
* `RUN_FINISHED` takes the number after the tape's last, which a later journal entry may have too (`agui.py:160`); the progress view is drawn once,
  and the browser of a run longer than two tapes is stale afterwards.

## Proofs

Every safety invariant, every action property and every safety half of a refinement that a passing run checks is proved here
for all values of the constants, from the assumptions named.

### GraphStore

`GraphStore_proofs` proves, for every finite or infinite set of task ids and every set of
patches (the assumptions `TasksAssumption` and `PatchesAssumption` only give their
types):

* `StoreTypeCorrect`: `StoreTypeOK`, inductive by itself.
* `FinishIsABoundary`: `FinishedIsQuiet`, inductive with the types: only `Resume`
  and `ApplyPatch` make a task live, the first out of running and the second not
  in a finished run.
* `SettledIsFinal`: the action property `SettledStays`, from the types and the guards of
  `Acceptable` and `CanRecord`.
* `NoTasksWaitForEachOther`: `NoMutualWait` is not inductive, since a task may
  become pending while its edges are old; the invariant `Acyclic` (no set of tasks
  in which everyone has a parent, whatever their states) is, and implies it.
* `JournalAgrees`: `JournalMatchesGraph`, one lemma per part, each by how an appended
  entry changes the sets of entries its definition speaks of.
* `StartsFollowParents`: `StartedAfterParents`, from `JournalMatchesGraph`: when a
  task is launched its parents' rows are succeeded, hence their entries are
  earlier in the journal.
* `CancellationHolds`: under `NoOverlap`, `CancelledNeverStarts`, with the
  strengthening that what the journal calls cancelled is a cancelled row.

### LiveGraphExecutor

`LiveGraphExecutor_proofs` proves, for every number of workers, calls, stops, cancellations and crashes
and every set of patches, over a finite set of tasks (`ExecutorAssumption`; the
capacities are cardinalities):

* `ExecutorTypeCorrect`: `TypeOK`.
* `ExecutorImplementsStore`: `Spec => StoreSpec`. Each step is a transaction or leaves the
  rows alone. The one fact that is not syntactic is `Plannable`: an event some executor
  is about to plan for is journalled and of a kind the planner sees, so that
  `PlanApplied` is an `ApplyPatch` of the store. Every theorem of `GraphStore_proofs` thus
  holds of the executor; `ExecutorNeverStartsCancelled` is one such consequence.
* `RowsMatchInFlight`: `RunningIsInFlight`, when calls of `run()` do not overlap
  (`OneCall`: there is one executor). The invariant `Inv` has, for that executor:
  `IdleHoldsNothing` (a call that ended holds no future), `NothingRunsInReplay` (there is
  no running row before the first launch, since `resume` put them back),
  `HeldIsRunning` (the property itself, in the main loop), `ObsoleteIsCancelled` (a future
  being cancelled has a cancelled row), `BatchIsHeld` (the batch is a set of done
  futures) and `SnapshotIsFresh`; with `FinishedIsQuiet` and `RowsNeedRun` for the rows. They
  are needed together: recording an outcome keeps `HeldIsRunning` only because a
  batch member is still in `in_flight`, and ending a batch keeps `ObsoleteIsCancelled`
  only because a finished run has no running row.
* `SoundPlansAreAccepted`: `NeverRaises`, from `Inv`, when the planner's patches fit the snapshot it
  was shown (`SoundPlanner`) and calls do not overlap: `SnapshotIsFresh` says that the
  snapshot is still the graph when the answer arrives, and `HeldIsRunning` that an
  outcome that is not discarded is accepted.
* `CapacityHolds`: `WithinCapacity`, with overlapping calls and any planner. The invariant is
  `Capacity(e)`; the lemma `ReadyIsLimited` bounds what `Launch` takes by
  an injection of `ReadyUpTo(k)` into `0..k-1`, each task going to the number of ready tasks
  before it.
* `OverlappingCallsStrandNothing`: `RunningIsHeld`, for any number of overlapping calls and any planner. The
  strengthening (`HeldInv`) is that a future being cancelled belongs to a task that is settled in the graph, so that no
  running row loses its holder when a cancelled future is observed.
* `OneEventIsReplayed` and `RefusalCostsNoEvent`: `OneEventBehind` and `RefusedPatchLeavesEvent`, when calls do not overlap.
  `CaughtUp` says for each phase which event is unplanned: none at the top of the loop, that of the outcome
  just recorded while the planner is awaited, what `todo` holds in the replay.
* `ReturnLeavesNothingBehind`: `ReturnIsClean`, from `CaughtUp`, `NeverRaises` and `Capacity`, when calls do not overlap and the
  planner is sound: `run()` returns only with an empty `in_flight`, which with `HeldIsRunning` leaves no running row.

### RuntimePlanner

For every breadth, number of workers and restarts. `PlannerInv` (`PlannerInvariance`) is inductive:

* `NewsMatch`: at most one event lacks its patch, and it says of its task what the row says.
* `Shape`: which tasks a request of each mode may have, and that the frontier is there once the run has been planned for.
* `EdgesMatch`: parents are over, so the edges are acyclic and every patch can connect to them.
* `InOrder`: what must be planned for before a task is added (`Earlier`) is over and has been planned for.
* `RetriesMatch`: a retry corrects the weak outcome of its subject, and each weak outcome planned for has one.
* `Going`: an open run has something going on, or is in one of the ways to rest that are no failed parent.
* `Calm`, of a finished run: nothing that could contribute was outstanding.

Each branch of `plan` has a lemma that its patch is `Sensible`: it adds absent tasks of the mode only, in order, with its
corrections, and leaves something going on, or it finishes a calm run. Two lemmas show that a sensible addition and a finish are accepted and keep the
invariant. `EveryPlanIsAccepted`, `SynthesisWaitsForCorrections`, `NothingIsOutstanding` and `EveryRestIsExplained` follow.

### A2AServer

For every set of tasks, number of attempts and of restarts. Tasks do not touch one another, so `ServerInv`
speaks of one at a time: `Places` says where its three coroutines may stand together, `Pushed` which update each may be announcing and
what of it has been received, `Told` what the ledger owes. From it follow `EveryTaskHasOneWorker`, `QuietTasksAreTold`,
and the action property `NewsComesInOrder` (a webhook's news goes back only after a cancellation).
`ServerKeepsRemoteTask` is `Spec => Promised!Spec`: each action is mapped to an action of `RemoteTask` or a stutter, with the
guards from `Places`. `PromiseKept` adds the fairness, which stays with TLC.

### A2ABridge

For every finite set of nodes, every set of calls and every planner. `BridgeIsAClient` is `Spec => ClientOfStore`: each step
is a transaction of the store, its patches being those of the planner and of the bridge together (`AllPatches`), or none. The theorems of `GraphStore_proofs`,
instantiated with those patches, therefore hold of a graph with remote nodes; `FinishHoldsForBridges` is one. What it needs is `JustJournalled`
in `BridgeInv`: while a coroutine has a patch still to commit, the event it has journalled is the last one. `BridgeIsNeverRefused` follows from
the check of 125-127, `Acyclic`, and that the graph does not move between the two. `AwakeWithResult` assumes `OnlyTheBridgeWakes`
(the planner parks the tasks it adds and resumes none), as the property does in words: `ResultsAreFinal` says that a recorded result is final and the
node's own, `AwakeInv` that what is awake has one.

### MemoryStore

For every set of scopes, sources, contents and embedders, and any number of records and deaths. What holds of the tables is
shown of both readings, the connection's (`seen`) and the committed one (`saved`), because a commit takes the first into the second and a rollback the
second into the first. `MemoryInv` has:

* `ToldInv`: what is told, or about to be, is committed; the committed rows are among those the connection reads. `ToldIsDurable`.
* `IsAudited` of both readings. `NothingPassesTheAudit`.
* `Kept`: rows fit their documents (`RowsFit`), successors are unique and in scope (`Succeeds`), versions are numbered
  without gaps and the last is the active one (`Numbered`). `FactsAreCorrectedOnce`, `DocumentsAreReplacedWhole`, `ScopesNeverMeet`.
* `IndexInv`, unless a death tore the pair: how index, files and rows agree in each phase. In particular, files that disagree are such that
  the next `_ensure_vector_index` rebuilds. `EveryPositionResolves`.

One lemma (`TableStep`) reduces every action to the four things it may do to the tables, so that each part of `Kept` has one argument.

### RunView and Surface

For every finite set of tasks, every journal, every cut of a tape, and every set of finite surfaces.

* `ViewInv` says what the browser holds on its first tape (`FirstTape`), on the second before its snapshot arrives (`SecondTape`) and after it (`Rebuilt`),
  and that a tape which tells of the finish is of a finished run and holds every delta of it (`TapeIsFinal`), which rests on `FinishedIsQuiet`.
  `BrowserHoldsAPrefix` and `FinishedViewIsFinal` follow.
* `OnlyThePoisonedIsLost`: `Reached` is shown to be the least set that has the start and is closed under the children of
  containers. That the search stops growing is an argument of cardinality: each layer short of the last adds a container, so after as many layers as there are
  containers nothing is added.
* `ProgressIsAlwaysShown`: each kind of component that `build_run_surface` writes is in the catalog with values it allows, and every one is below the root.

### SemanticChunks

For every set of texts, budget and floor, and any segmenter. `ChunkInv` has the property of `SegmentsCoverTheText`, and that a segment which the segmenter did not end
goes to the structural end of its block. `BudgetKeepsStructure` then looks at one block: `StructuralEndIs` says why the structural end
is where it is (`Cut`), `TableStartEnds` where the climb to the first row of a table stops, and a last lemma joins them, counting fences modulo two, into
the property with exactly its listed exceptions. A nominal end inside a heading's line (`LineOf`) is moved in front of it, unless the block begins there.

### What the proofs rest on, and what stays with TLC

Recursive functions (`DataModel`, `Reached`, `TableStart`) are proved about by least counterexample: the set of numbers at which a statement
fails has a least member, which a set can express where the library's induction theorems would take an operator. The same
argument shows that the function defined by the recursion exists.

Liveness stays with TLC, since the prover has no rule for fairness and `ENABLED`: `RunEnds`, `SuccessFinishes`, the fair half of `PromiseKept`,
`SubscribedStopsWaiting`, `ViewSettles`, `ChunkingEnds`. So do the two disagreements of Findings, which are counterexamples.

## Plan

All the models stand and no safety property is left without a proof. What would say more:

1. Lemmas for the liveness properties that need no fairness: a measure that each step of the segmentation loop, and of a browser's
   second tape, decreases.
2. The liveness of overlapping calls, which `RunEnds` checks for calls one at a time.
3. `prepare_markdown` and the records made of segments, and the trust of agent cards, if they come to carry state.

## Not modelled

* Worker bodies and language model calls: the executor sees workers that end in any way or hang. `compose_surface`,
  `remember_fact` and `index_document` are modelled by what they do to a run or the memory.
* HTTP and gRPC framing, signatures, cards, JSON schema checks, generated stubs: format conversions, without state to explore.
* `ui/hitl.py`: `decide_resume` compares parameters both of which its caller supplies (`ui/routes.py`), and changes no graph.
* `ui/showcase.py`, and `ui/client/app.html` but for its drawing: the formatting of a fixed corpus, and a chat over the routes. `GET /v1/harness/surface` validates a
  recording again and, unlike the other routes, serves it unfiltered.
* Embedding vectors, scores, full text search, `prepare_markdown`: numbers and strings.
* Recorded proofs and deployment (`src/proofs`, `src/modal_app.py`): scripts that call the parts above and write down what
  comes back.

-------------------------- MODULE LiveGraphExecutor --------------------------
(***************************************************************************)
(* LiveGraphExecutor.run (core/live_graph/core.py) over the GraphStore of   *)
(* one run: one coroutine per call of run(), the coroutines of its workers, *)
(* the planner it awaits, the process that may die and the client that      *)
(* starts and resumes the run.                                              *)
(*                                                                         *)
(* Everything lives on one asyncio event loop: a coroutine gives way only   *)
(* where it awaits (the planner, or asyncio.wait), so `loop' names the      *)
(* coroutine that is between two awaits and nobody else moves meanwhile.    *)
(* Only a crash may fall between any two transactions.                      *)
(***************************************************************************)
EXTENDS GraphStore

CONSTANTS Executors,    \* concurrent calls of run(); one, unless a client resumes a live run
          MaxWorkers,
          Stops,        \* the max_completed arguments tried; NoStop is None
          NoStop,
          SoundPlanner, \* the planner returns patches its snapshot admits (else: any patch)
          MaxCalls,     \* bound: calls of run()
          MaxCancels,   \* bound: calls of run() that their caller cancels
          MaxCrashes    \* bound: deaths of the process

ASSUME ExecutorAssumption ==
  /\ IsFiniteSet(Tasks)
  /\ MaxWorkers \in Nat \ {0}
  /\ NoStop \notin Nat /\ Stops \subseteq Nat \cup {NoStop}
  /\ SoundPlanner \in BOOLEAN
  /\ MaxCalls \in Nat /\ MaxCancels \in Nat /\ MaxCrashes \in Nat
  /\ "free" \notin Executors

VARIABLES pc,        \* where each call of run() stands
          stop,      \* its max_completed
          todo,      \* the unplanned events its replay fetched and has not handled
          trigger,   \* the event it is planning for
          snapshot,  \* the graph it handed to the planner
          future,    \* its in_flight: the asyncio task of each node, "none" if not in it
          batch,     \* the done futures it has not looked at
          executed,  \* the tasks whose outcome it recorded
          orphans,   \* nodes whose coroutine outlived the run() that launched it
          loop,      \* the executor between two awaits, or "free"
          calls, cancels, crashes

execVars == <<pc, stop, todo, trigger, snapshot, future, batch, executed, orphans, loop,
              calls, cancels, crashes>>
vars == <<storeVars, execVars>>

\* "replanning": awaits the planner in the replay; "planning": in the main loop.
Awaiting == {"replanning", "planning", "waiting"}
Ended == {"off", "returned", "raised", "cancelled"}
PC == Awaiting \cup Ended \cup {"replay", "fill", "batch"}

Unfinished == {"running", "cancelling"}   \* cancelling: cancel() called, not yet observed
Done == {"ok", "failed", "cancelled"}
FutureState == Unfinished \cup Done \cup {"none"}

NoEvent == 0
NoFutures == [n \in Tasks |-> "none"]
NoGraph == [run |-> "absent", node |-> [n \in Tasks |-> "absent"], edges |-> {}]
InFlight(e) == {n \in Tasks : future[e][n] # "none"}
Alive(e) == {n \in Tasks : future[e][n] \in Unfinished}

\* e runs on the loop; afterwards it holds the loop unless it awaits or ended.
Moves(e, to) ==
  /\ loop \in {"free", e}
  /\ pc' = [pc EXCEPT ![e] = to]
  /\ loop' = IF to \in Awaiting \cup Ended THEN "free" ELSE e

Least(S) == CHOOSE n \in S : \A m \in S : n <= m

-----------------------------------------------------------------------------
(* Mutated forms of the definitions below, for the mutation runs only.      *)

\* The test stop is off by one.
StopReachedEarly(e) == stop[e] # NoStop /\ Cardinality(executed[e]) + 1 >= stop[e]

\* A late result is not checked against the graph.
DiscardedIfCancelled(e, n) == future[e][n] = "cancelled"

\* A worker's failure is taken for its cancellation.
DiscardedUnlessOk(e, n) == future[e][n] # "ok" \/ node[n] = "cancelled"

\* A cancelled future stays in in_flight.
PoppedUnlessCancelled(e, n) ==
  IF future[e][n] = "cancelled" THEN future ELSE [future EXCEPT ![e][n] = "none"]

\* The patch row names the latest event, not the one that was planned for.
PatchedByLatest(p, t) == ApplyPatch(p, Len(journal))

\* The graph is changed in a transaction of its own, without its journal entry.
PatchedUnjournalled(p, t) ==
  /\ Acceptable(p, Graph)
  /\ run' = IF p.finish THEN "finished" ELSE run
  /\ node' = [n \in Tasks |-> Settled(p, n, Updated(p, n))]
  /\ edges' = edges \cup p.connect
  /\ UNCHANGED <<journal, patched>>

-----------------------------------------------------------------------------
(* Starting, and replaying the events whose patch is missing.               *)

\* run(): a first call starts the run, a later one resumes it.  The pending
\* planner events are fetched once, before anything else can happen.
Begin(e, limit) ==
  /\ pc[e] \in Ended /\ calls < MaxCalls
  /\ Moves(e, "replay")
  /\ IF run = "absent" THEN Start ELSE Resume
  /\ stop' = [stop EXCEPT ![e] = limit]
  /\ todo' = [todo EXCEPT ![e] = Unplanned(journal')]
  /\ executed' = [executed EXCEPT ![e] = {}]
  /\ calls' = calls + 1
  /\ UNCHANGED <<trigger, snapshot, future, batch, orphans, cancels, crashes>>

\* The next pending event goes to the planner; none left, or a finished run,
\* ends the replay.
Replay(e) ==
  /\ pc[e] = "replay"
  /\ IF todo[e] = {} \/ run = "finished"
     THEN /\ Moves(e, "fill")
          /\ todo' = [todo EXCEPT ![e] = {}]
          /\ UNCHANGED <<trigger, snapshot>>
     ELSE /\ Moves(e, "replanning")
          /\ trigger' = [trigger EXCEPT ![e] = Least(todo[e])]
          /\ snapshot' = [snapshot EXCEPT ![e] = Graph]
          /\ todo' = [todo EXCEPT ![e] = @ \ {Least(todo[e])}]
  /\ UNCHANGED <<storeVars, stop, future, batch, executed, orphans, calls, cancels, crashes>>

-----------------------------------------------------------------------------
(* The main loop.                                                           *)

Room(e) ==
  LET free == MaxWorkers - Cardinality(InFlight(e))
      left == stop[e] - Cardinality(executed[e]) - Cardinality(InFlight(e))
  IN IF stop[e] = NoStop \/ free <= left THEN free ELSE left

CanLaunch(e) == run # "finished" /\ Room(e) > 0 /\ ReadyUpTo(Room(e)) # {}

\* Fill the free worker slots, then wait for a completion.
FillAndWait(e) ==
  /\ pc[e] = "fill" /\ CanLaunch(e)
  /\ Moves(e, "waiting")
  /\ Launch(Room(e))
  /\ future' = [future EXCEPT ![e] =
                  [n \in Tasks |-> IF n \in ReadyUpTo(Room(e)) THEN "running" ELSE @[n]]]
  /\ UNCHANGED <<stop, todo, trigger, snapshot, batch, executed, orphans, calls, cancels, crashes>>

\* Nothing to launch: wait for what is in flight, or return.
WaitOrReturn(e) ==
  /\ pc[e] = "fill" /\ ~CanLaunch(e)
  /\ Moves(e, IF InFlight(e) = {} THEN "returned" ELSE "waiting")
  /\ UNCHANGED <<storeVars, stop, todo, trigger, snapshot, future, batch, executed, orphans,
                 calls, cancels, crashes>>

\* asyncio.wait returns every future that is done by the time it is resumed.
Wake(e) ==
  /\ pc[e] = "waiting"
  /\ \E n \in Tasks : future[e][n] \in Done
  /\ Moves(e, "batch")
  /\ batch' = [batch EXCEPT ![e] = {n \in Tasks : future[e][n] \in Done}]
  /\ UNCHANGED <<storeVars, stop, todo, trigger, snapshot, future, executed, orphans, calls,
                 cancels, crashes>>

Popped(e, n) == [future EXCEPT ![e][n] = "none"]

\* The done future of the least id is taken out of in_flight.
Pops(e, n) ==
  /\ pc[e] = "batch" /\ batch[e] # {} /\ n = Least(batch[e])
  /\ batch' = [batch EXCEPT ![e] = @ \ {n}]

\* A cancelled coroutine has no outcome, and a task the graph cancelled meanwhile
\* loses its late result.
Discarded(e, n) == future[e][n] = "cancelled" \/ node[n] = "cancelled"

Discard(e, n) ==
  /\ Pops(e, n) /\ Discarded(e, n)
  /\ Moves(e, "batch")
  /\ future' = Popped(e, n)
  /\ UNCHANGED <<storeVars, stop, todo, trigger, snapshot, executed, orphans, calls, cancels,
                 crashes>>

\* The outcome is committed, then the planner is awaited on it.
Record(e, n) ==
  /\ Pops(e, n) /\ ~Discarded(e, n)
  /\ RecordOutcome(n, IF future[e][n] = "ok" THEN "succeeded" ELSE "failed")
  /\ Moves(e, "planning")
  /\ future' = Popped(e, n)
  /\ executed' = [executed EXCEPT ![e] = @ \cup {n}]
  /\ trigger' = [trigger EXCEPT ![e] = Len(journal')]
  /\ snapshot' = [snapshot EXCEPT ![e] = Graph']
  /\ UNCHANGED <<stop, todo, orphans, calls, cancels, crashes>>

\* An exception leaves run(): in_flight is lost, its coroutines live on.
Leaves(e, to) ==
  /\ Moves(e, to)
  /\ orphans' = orphans \cup Alive(e)
  /\ future' = [future EXCEPT ![e] = NoFutures]
  /\ batch' = [batch EXCEPT ![e] = {}]
  /\ todo' = [todo EXCEPT ![e] = {}]
  /\ trigger' = [trigger EXCEPT ![e] = NoEvent]
  /\ snapshot' = [snapshot EXCEPT ![e] = NoGraph]
  /\ UNCHANGED <<storeVars, stop, executed, calls, crashes>>

Raises(e) == Leaves(e, "raised") /\ UNCHANGED cancels

\* record_outcome refuses: somebody else took the task out of running.
RecordRefused(e, n) ==
  /\ pc[e] = "batch" /\ batch[e] # {} /\ n = Least(batch[e])
  /\ ~Discarded(e, n) /\ ~CanRecord(n)
  /\ Raises(e)

\* The batch is through; a finished run cancels every worker it still has.
EndBatch(e) ==
  /\ pc[e] = "batch" /\ batch[e] = {}
  /\ Moves(e, "fill")
  /\ future' = [future EXCEPT ![e] = [n \in Tasks |->
                  IF run = "finished" /\ @[n] = "running" THEN "cancelling" ELSE @[n]]]
  /\ UNCHANGED <<storeVars, stop, todo, trigger, snapshot, batch, executed, orphans, calls,
                 cancels, crashes>>

-----------------------------------------------------------------------------
(* The planner answers, and its patch is committed or refused.              *)

\* ConstrainedGraphPatchPlanner: a language model's patch has the right form, or the
\* fallback planner is asked; _parse does not look at the snapshot.
Parsed(e, p) == SoundPlanner => Acceptable(p, snapshot[e])

Answers(e, p) == pc[e] \in {"planning", "replanning"} /\ Parsed(e, p)

\* apply_patch commits, or finds that the event already has its patch.
Patched(p, t) == IF t \in patched THEN UNCHANGED storeVars ELSE ApplyPatch(p, t)

\* _cancel_graph_cancelled_tasks: cancel() does nothing to a future that is done.
CancelGraphCancelled(e) ==
  [future EXCEPT ![e] = [n \in Tasks |->
     IF @[n] = "running" /\ node'[n] = "cancelled" THEN "cancelling" ELSE @[n]]]

StopReached(e) == stop[e] # NoStop /\ Cardinality(executed[e]) >= stop[e]

PlanApplied(e, p) ==
  /\ Answers(e, p)
  /\ Patched(p, trigger[e])
  /\ trigger' = [trigger EXCEPT ![e] = NoEvent]
  /\ snapshot' = [snapshot EXCEPT ![e] = NoGraph]
  /\ \/ /\ pc[e] = "replanning"
        /\ Moves(e, "replay")
        /\ UNCHANGED <<future, batch, orphans>>
     \/ /\ pc[e] = "planning" /\ ~StopReached(e)
        /\ Moves(e, "batch")
        /\ future' = CancelGraphCancelled(e)
        /\ UNCHANGED <<batch, orphans>>
     \/ /\ pc[e] = "planning" /\ StopReached(e)       \* the test stop returns from here
        /\ Moves(e, "returned")
        /\ future' = [future EXCEPT ![e] = NoFutures]
        /\ batch' = [batch EXCEPT ![e] = {}]
        /\ orphans' = orphans \cup Alive(e)
  /\ UNCHANGED <<stop, todo, executed, calls, cancels, crashes>>

PlanRefused(e, p) ==
  /\ Answers(e, p)
  /\ trigger[e] \notin patched /\ ~Acceptable(p, Graph)
  /\ Raises(e)

\* The caller of run() is cancelled, like the handler of a cancelled A2A task, and the
\* CancelledError surfaces where run() awaits; the futures it waited for are not cancelled
\* with it.
Cancelled(e) ==
  /\ pc[e] \in Awaiting /\ cancels < MaxCancels
  /\ Leaves(e, "cancelled")
  /\ cancels' = cancels + 1

-----------------------------------------------------------------------------
(* Workers and the process.                                                 *)

\* A worker returns or fails; one that was cancelled normally ends cancelled, but
\* it may also swallow the CancelledError and return, or fail while cleaning up.
WorkerEnds(e, n, outcome) ==
  /\ loop = "free"
  /\ \/ future[e][n] = "running" /\ outcome # "cancelled"
     \/ future[e][n] = "cancelling"
  /\ future' = [future EXCEPT ![e][n] = outcome]
  /\ UNCHANGED <<storeVars, pc, stop, todo, trigger, snapshot, batch, executed, orphans,
                 loop, calls, cancels, crashes>>

\* A worker nobody waits for ends, and its result is dropped.
OrphanEnds(n) ==
  /\ loop = "free" /\ n \in orphans
  /\ orphans' = orphans \ {n}
  /\ UNCHANGED <<storeVars, pc, stop, todo, trigger, snapshot, future, batch, executed,
                 loop, calls, cancels, crashes>>

ForgetAll ==
  /\ todo' = [e \in Executors |-> {}]
  /\ trigger' = [e \in Executors |-> NoEvent]
  /\ snapshot' = [e \in Executors |-> NoGraph]
  /\ future' = [e \in Executors |-> NoFutures]
  /\ batch' = [e \in Executors |-> {}]
  /\ executed' = [e \in Executors |-> {}]
  /\ orphans' = {}
  /\ loop' = "free"

\* The process dies between two transactions: only the rows are left.
Crash ==
  /\ crashes < MaxCrashes
  /\ \E e \in Executors : pc[e] \notin Ended
  /\ pc' = [e \in Executors |-> "off"]
  /\ ForgetAll
  /\ crashes' = crashes + 1
  /\ UNCHANGED <<storeVars, stop, calls, cancels>>

-----------------------------------------------------------------------------
Init ==
  /\ StoreInit
  /\ pc = [e \in Executors |-> "off"]
  /\ stop = [e \in Executors |-> NoStop]
  /\ todo = [e \in Executors |-> {}]
  /\ trigger = [e \in Executors |-> NoEvent]
  /\ snapshot = [e \in Executors |-> NoGraph]
  /\ future = [e \in Executors |-> NoFutures]
  /\ batch = [e \in Executors |-> {}]
  /\ executed = [e \in Executors |-> {}]
  /\ orphans = {}
  /\ loop = "free"
  /\ calls = 0 /\ cancels = 0 /\ crashes = 0

Plan(e) == \E p \in Patches : PlanApplied(e, p) \/ PlanRefused(e, p)

\* What the event loop schedules for e by itself.
Step(e) ==
  \/ Replay(e) \/ FillAndWait(e) \/ WaitOrReturn(e) \/ Wake(e) \/ EndBatch(e)
  \/ \E n \in Tasks : Discard(e, n) \/ Record(e, n) \/ RecordRefused(e, n)

Next ==
  \/ \E e \in Executors : Step(e) \/ Plan(e) \/ Cancelled(e)
  \/ \E e \in Executors, limit \in Stops : Begin(e, limit)
  \/ \E e \in Executors, n \in Tasks, o \in Done : WorkerEnds(e, n, o)
  \/ \E n \in Tasks : OrphanEnds(n)
  \/ Crash

Spec == Init /\ [][Next]_vars

\* The loop runs what is runnable, the planner answers, and a cancelled worker ends.
\* A worker that nobody cancels may hang for ever.
Fairness ==
  \A e \in Executors :
    /\ WF_vars(Step(e)) /\ WF_vars(Plan(e))
    /\ \A n \in Tasks :
         WF_vars(future[e][n] = "cancelling" /\ \E o \in Done : WorkerEnds(e, n, o))

FairSpec == Spec /\ Fairness

-----------------------------------------------------------------------------
(* What a run promises.                                                     *)

TypeOK ==
  /\ StoreTypeOK
  /\ pc \in [Executors -> PC]
  /\ stop \in [Executors -> Stops \cup {NoStop}]
  /\ todo \in [Executors -> SUBSET Nat]
  /\ trigger \in [Executors -> Nat]
  /\ snapshot \in [Executors -> [run: {"absent", "open", "finished"},
                                 node: [Tasks -> NodeState \cup {"absent"}],
                                 edges: SUBSET (Tasks \X Tasks)]]
  /\ future \in [Executors -> [Tasks -> FutureState]]
  /\ batch \in [Executors -> SUBSET Tasks]
  /\ executed \in [Executors -> SUBSET Tasks]
  /\ orphans \in SUBSET Tasks
  /\ loop \in Executors \cup {"free"}
  /\ calls \in Nat /\ cancels \in Nat /\ crashes \in Nat

InMainLoop(e) == pc[e] \in {"fill", "waiting", "batch", "planning"}

\* With one call of run() at a time, what the rows call running is exactly what
\* in_flight holds and the graph has not cancelled: no row is left running without
\* a coroutine (core.py:128-129, 140-157), through cancellations, late results and
\* discarded outcomes.
RunningIsInFlight ==
  \A e \in Executors : InMainLoop(e) =>
    \A n \in Tasks : node[n] = "running" <=> n \in InFlight(e) /\ node[n] # "cancelled"

\* At every point where the process may die, at most one event still lacks its
\* patch, so the replay of core.py:109-112 never replans two events in the light
\* of each other's outcome.
OneEventBehind == Cardinality(Unplanned(journal)) <= 1

\* run() returns only from a finished graph, a graph with nothing to do, or its
\* test stop; it never leaves an unplanned event, a running row or a coroutine
\* behind (core.py:131-134, 161-165).  Only a call that was cancelled does: its
\* coroutines outlive it and may still be at work when a later call returns.
ReturnIsClean ==
  \A e \in Executors : pc[e] = "returned" =>
    /\ Unplanned(journal) = {} \/ run = "finished"
    /\ \A n \in Tasks : node[n] # "running"
    /\ cancels = 0 => orphans = {}
    /\ stop[e] = NoStop => Ready = {}

\* Both halves of the capacity: never more workers than slots, and never so many
\* that the test stop could be overrun (core.py:121-123).
WithinCapacity ==
  \A e \in Executors :
    /\ Cardinality(InFlight(e)) <= MaxWorkers
    /\ stop[e] # NoStop => Cardinality(InFlight(e)) + Cardinality(executed[e]) <= stop[e]

\* A planner whose patches fit the snapshot it was shown is never refused and no
\* late result is ever refused: run() does not raise, although the planner and the
\* workers run while the graph stands still.
NeverRaises == \A e \in Executors : pc[e] # "raised"

\* Only nodes interrupted while running are returned to pending (core.py:100-102):
\* a task goes from running to pending only if no coroutine is executing it.
OnlyInterruptedRequeued ==
  [][\A n \in Tasks : node[n] = "running" /\ node'[n] = "pending" =>
       n \notin orphans /\ \A e \in Executors : n \notin InFlight(e)]_vars

\* The planner's refusal costs no event: when run() has raised, the event whose patch
\* was refused still lacks its patch and the graph is as it was, so that a resume asks
\* the planner again.
RefusedPatchLeavesEvent ==
  \A e \in Executors : pc[e] = "raised" => run = "open" /\ Unplanned(journal) # {}

\* A running row is held by some in_flight unless a call of run() raised, was cancelled
\* or died: resuming a live run duplicates work but strands none.
RunningIsHeld ==
  crashes = 0 /\ (\A e \in Executors : pc[e] \notin {"raised", "cancelled"}) =>
    \A n \in Tasks : node[n] = "running" => \E e \in Executors : n \in InFlight(e)

\* Every call of run() ends, by returning, by raising, cancelled, or with its process: if
\* every worker comes back; and once the run is finished also if the workers that the
\* finishing patch made obsolete would never have come back by themselves (core.py:167-168).
WorkersReturn == \A e \in Executors, n \in Tasks : WF_vars(\E o \in Done : WorkerEnds(e, n, o))
RunEnds ==
  /\ \A e \in Executors : run = "finished" /\ pc[e] \notin Ended ~> pc[e] \in Ended
  /\ WorkersReturn => \A e \in Executors : pc[e] = "replay" ~> pc[e] \in Ended
=============================================================================

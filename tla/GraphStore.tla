----------------------------- MODULE GraphStore -----------------------------
(***************************************************************************)
(* The durable half of a live graph: the SQLite rows of ONE run             *)
(* (core/live_graph/store.py) and the transactions that change them.  Every *)
(* action below is one committed transaction; a transaction the code rolls  *)
(* back (a rejected patch, an outcome for a task that is not running)       *)
(* changes nothing and is therefore no action: its caller sees the refusal  *)
(* as the negation of the action's guard (Acceptable, CanRecord).           *)
(*                                                                         *)
(* Rows written by one transaction become one journal entry, so an index    *)
(* into journal is an event sequence number.  The task_cancelled rows of a  *)
(* patch are the `tasks' of its graph_patched entry.                        *)
(***************************************************************************)
EXTENDS Integers, Sequences, FiniteSets

CONSTANTS Tasks,    \* the task ids a planner may use, ordered as store.ready orders them
          Patches   \* the patches a planner or another client may hand to apply_patch

PatchType == [add: SUBSET Tasks, connect: SUBSET (Tasks \X Tasks), cancel: SUBSET Tasks,
              wait: SUBSET Tasks, resume: SUBSET Tasks, finish: BOOLEAN]

ASSUME TasksAssumption == Tasks \subseteq Nat
ASSUME PatchesAssumption == Patches \subseteq PatchType

VARIABLES run,      \* the runs row: "absent", "open", or "finished"
          node,     \* the nodes rows: the state of each task, "absent" without a row
          edges,    \* the edges rows: <<parent, child>>
          journal,  \* the events rows, in sequence order
          patched   \* the patches rows: the trigger events already planned for

storeVars == <<run, node, edges, journal, patched>>

Live == {"pending", "waiting", "running"}
NodeState == Live \cup {"succeeded", "failed", "cancelled"}
PlannerKinds == {"run_started", "task_succeeded", "task_failed"}
Kinds == PlannerKinds \cup {"run_resumed", "task_started", "graph_patched", "external"}

NoPatch == [add |-> {}, connect |-> {}, cancel |-> {}, wait |-> {}, resume |-> {},
            finish |-> FALSE]
Entry(k, ts, p) == [kind |-> k, tasks |-> ts, patch |-> p]
Journal(k, ts) == journal' = Append(journal, Entry(k, ts, NoPatch))

\* What snapshot() hands to a planner, and what apply_patch validates against.
Graph == [run |-> run, node |-> node, edges |-> edges]

-----------------------------------------------------------------------------
(* Mutated forms of the definitions below, for the mutation runs only.      *)

\* Only a task that depends on itself counts as a cycle.
HasSelfEdge(E) == \E n \in Tasks : <<n, n>> \in E

\* A finishing patch cancels what has not started and forgets what is running.
SettledLeavesRunning(p, n, s) == IF p.finish /\ s \in {"pending", "waiting"} THEN "cancelled" ELSE s

\* A task is ready as soon as no parent is still at work.
UnblockedBySettled(n) == \A e \in edges : e[2] = n => node[e[1]] \notin Live

\* Resume leaves the interrupted tasks running.
RequeuedForgotten(s) == s

\* Resume retains what succeeded and puts everything else back.
RequeuedUnlessSucceeded(s) == IF s \in {"running", "failed", "cancelled"} THEN "pending" ELSE s

\* The replay query overlooks failures.
UnplannedSuccesses(j) ==
  {t \in DOMAIN j : j[t].kind \in {"run_started", "task_succeeded"} /\ t \notin patched}

-----------------------------------------------------------------------------
(* apply_patch: what it refuses, and what it writes.                        *)

\* A nonempty set of children in which everyone has a parent contains a cycle,
\* and every cycle is such a set: the answer of the depth-first _has_cycle.
HasCycle(E) ==
  \E S \in SUBSET {e[2] : e \in E} : S # {} /\ \A n \in S : \E m \in S : <<m, n>> \in E

Acceptable(p, g) ==
  LET known == {n \in Tasks : g.node[n] # "absent"} \cup p.add
  IN /\ g.run = "open"
     /\ \A n \in p.add : g.node[n] = "absent"
     /\ p.connect \subseteq known \X known
     /\ \A n \in p.cancel : g.node[n] \in Live          \* a task only now added is a KeyError
     /\ p.wait \cup p.resume \subseteq known
     /\ \A n \in p.wait \ p.add : g.node[n] = "pending"
     /\ \A n \in p.resume \ p.add : g.node[n] = "waiting"
     /\ ~HasCycle(g.edges \cup p.connect)                \* a self edge included

\* The UPDATEs run in this order and check nothing: cancel, wait, resume.
Updated(p, n) == CASE n \in p.resume -> "pending"
                   [] n \in p.wait \ p.resume -> "waiting"
                   [] n \in p.cancel \ (p.wait \cup p.resume) -> "cancelled"
                   [] n \in p.add \ (p.cancel \cup p.wait \cup p.resume) -> "pending"
                   [] OTHER -> node[n]

\* Finish cancels whatever the updates left alive.
Settled(p, n, s) == IF p.finish /\ s \in Live THEN "cancelled" ELSE s

\* The tasks for which the transaction writes a task_cancelled row.
CancelledBy(p) == p.cancel \cup {n \in Tasks : p.finish /\ Updated(p, n) \in Live}

\* The events a client plans for: _plan's, and the journalled transport events.
Triggers == {t \in DOMAIN journal : journal[t].kind \in PlannerKinds \cup {"external"}}

ApplyPatch(p, t) ==
  /\ t \notin patched                                    \* otherwise returns False
  /\ Acceptable(p, Graph)                                \* otherwise raises and rolls back
  /\ run' = IF p.finish THEN "finished" ELSE run
  /\ node' = [n \in Tasks |-> Settled(p, n, Updated(p, n))]
  /\ edges' = edges \cup p.connect
  /\ journal' = Append(journal, Entry("graph_patched", CancelledBy(p), p))
  /\ patched' = patched \cup {t}

-----------------------------------------------------------------------------
(* The other transactions.                                                  *)

\* start(): INSERT OR IGNORE, and a run_started event for a new row only.
Start ==
  /\ run = "absent"
  /\ run' = "open"
  /\ Journal("run_started", {})
  /\ UNCHANGED <<node, edges, patched>>

Requeued(s) == IF s = "running" THEN "pending" ELSE s

\* resume(): whatever was recorded as running goes back to pending.
Resume ==
  /\ run # "absent"
  /\ node' = [n \in Tasks |-> Requeued(node[n])]
  /\ Journal("run_resumed", {})
  /\ UNCHANGED <<run, edges, patched>>

\* Every parent has actually succeeded.
Unblocked(n) == \A e \in edges : e[2] = n => node[e[1]] = "succeeded"
Ready == {n \in Tasks : node[n] = "pending" /\ Unblocked(n)}
ReadyUpTo(limit) == {n \in Ready : Cardinality({m \in Ready : m < n}) < limit}

\* ready() followed, without an await, by mark_running().
Launch(limit) ==
  /\ ReadyUpTo(limit) # {}
  /\ node' = [n \in Tasks |-> IF n \in ReadyUpTo(limit) THEN "running" ELSE node[n]]
  /\ Journal("task_started", ReadyUpTo(limit))
  /\ UNCHANGED <<run, edges, patched>>

\* record_outcome() raises for a task that is not running.
CanRecord(n) == node[n] = "running"
OutcomeKind(outcome) == IF outcome = "succeeded" THEN "task_succeeded" ELSE "task_failed"

RecordOutcome(n, outcome) ==
  /\ CanRecord(n)
  /\ node' = [node EXCEPT ![n] = outcome]
  /\ Journal(OutcomeKind(outcome), {n})
  /\ UNCHANGED <<run, edges, patched>>

\* record_external_event(): journalled, and nothing else.
RecordExternalEvent(n) ==
  /\ run # "absent"
  /\ Journal("external", {n})
  /\ UNCHANGED <<run, node, edges, patched>>

\* pending_planner_events(): planner-visible events without a patches row.
Unplanned(j) == {t \in DOMAIN j : j[t].kind \in PlannerKinds /\ t \notin patched}

-----------------------------------------------------------------------------
StoreInit ==
  /\ run = "absent"
  /\ node = [n \in Tasks |-> "absent"]
  /\ edges = {}
  /\ journal = <<>>
  /\ patched = {}

\* The store serves any client: transactions commit in any order that their
\* own guards allow.
StoreNext ==
  \/ Start
  \/ Resume
  \/ \E limit \in 1 .. Cardinality(Tasks) : Launch(limit)
  \/ \E n \in Tasks, outcome \in {"succeeded", "failed"} : RecordOutcome(n, outcome)
  \/ \E n \in Tasks : RecordExternalEvent(n)
  \/ \E p \in Patches, t \in Triggers : ApplyPatch(p, t)

StoreSpec == StoreInit /\ [][StoreNext]_storeVars

-----------------------------------------------------------------------------
(* What the rows promise.                                                   *)

StoreTypeOK ==
  /\ run \in {"absent", "open", "finished"}
  /\ node \in [Tasks -> NodeState \cup {"absent"}]
  /\ edges \in SUBSET (Tasks \X Tasks)
  /\ journal \in Seq([kind: Kinds, tasks: SUBSET Tasks, patch: PatchType])
  /\ patched \in SUBSET Nat

\* A finished run has nothing pending, waiting or running: finish is "a durable
\* cancellation boundary" (store.py:185-188), whatever the patch that finished
\* it also added, parked or resumed, and whatever commits after it.
FinishedIsQuiet == run = "finished" => \A n \in Tasks : node[n] \notin Live

\* No group of tasks waits on itself: in every set of pending tasks some task
\* is blocked by nothing inside the set.  This is what the cycle check at commit
\* (store.py:173-175) must buy, across any sequence of patches that grow the
\* graph between and after the launches of its tasks.
NoMutualWait ==
  \A S \in SUBSET {n \in Tasks : node[n] = "pending"} :
     S # {} => \E n \in S : \A e \in edges : e[2] = n => e[1] \notin S

\* What is settled stays settled: no call, resume or late patch moves a task out of
\* succeeded, failed or cancelled ("A resumed run retains successful nodes",
\* core.py:100), or reopens a finished run.
SettledStays ==
  [][/\ \A n \in Tasks : node[n] \in {"succeeded", "failed", "cancelled"} => node'[n] = node[n]
     /\ run = "finished" => run' = "finished"]_storeVars

EntriesOf(k, n) == {i \in DOMAIN journal : journal[i].kind = k /\ n \in journal[i].tasks}
Outcomes(n) == EntriesOf("task_succeeded", n) \cup EntriesOf("task_failed", n)
PatchEntries == {i \in DOMAIN journal : journal[i].kind = "graph_patched"}
Adding(n) == {i \in PatchEntries : n \in journal[i].patch.add}

\* The attempt of n that was going on before entry j is over after it.
EndsAttempt(j, n) ==
  \/ journal[j].kind = "run_resumed"
  \/ journal[j].kind \in {"task_succeeded", "task_failed", "graph_patched"}
       /\ n \in journal[j].tasks

OutcomeRowsMatch(n) ==
  /\ node[n] = "succeeded" <=> EntriesOf("task_succeeded", n) # {}
  /\ node[n] = "failed" <=> EntriesOf("task_failed", n) # {}
  /\ node[n] = "cancelled" => EntriesOf("graph_patched", n) # {}
  /\ \A i, j \in Outcomes(n) : i = j

GraphRowsMatch(n) ==
  /\ node[n] # "absent" <=> Adding(n) # {}
  /\ \A i, j \in Adding(n) : i = j
  /\ \A m \in Tasks :
       <<m, n>> \in edges <=> \E i \in PatchEntries : <<m, n>> \in journal[i].patch.connect

RunningRowsMatch(n) ==
  node[n] = "running" <=> \E i \in EntriesOf("task_started", n) :
                            \A j \in DOMAIN journal : j > i => ~EndsAttempt(j, n)

\* The journal and the materialised rows tell the same story, although they are
\* written by different statements: at most one outcome entry for a task and exactly
\* the settled tasks have one, one adding patch for each task that exists, the edges
\* of the journalled patches and no others, and a task is running iff its last start
\* was followed by no resume, outcome or cancellation.
JournalMatchesGraph ==
  \A n \in Tasks : OutcomeRowsMatch(n) /\ GraphRowsMatch(n) /\ RunningRowsMatch(n)

\* Every start in the journal comes after the success of every parent the task
\* had by then, across resumes and restarts (store.py:101 "only when every
\* parent has actually succeeded").
StartedAfterParents ==
  \A i \in DOMAIN journal : journal[i].kind = "task_started" =>
    \A j \in PatchEntries, n \in journal[i].tasks, m \in Tasks :
      j < i /\ <<m, n>> \in journal[j].patch.connect =>
        \E k \in EntriesOf("task_succeeded", m) : k < i

\* No patch both cancels a task and parks or resumes it.
NoOverlap == \A p \in Patches : p.cancel \cap (p.wait \cup p.resume) = {}

\* A task the journal reports as cancelled is never started afterwards ("cancelled task
\* ran", live_graph/tests/test_live_graph.py:47).  True of patches without overlap
\* only: the UPDATEs for wait and resume come after the cancellation and undo it.
CancelledNeverStarts ==
  \A i \in DOMAIN journal : journal[i].kind = "task_started" =>
    \A j \in PatchEntries : j < i => journal[i].tasks \cap journal[j].tasks = {}
=============================================================================

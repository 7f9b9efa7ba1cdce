----------------------- MODULE LiveGraphExecutor_proofs -----------------------
(***************************************************************************)
(* What every number of calls of run(), every worker count and every        *)
(* planner leave true: the executor implements the store's specification,   *)
(* and the part of its own state that the store cannot see stays in order.  *)
(***************************************************************************)
EXTENDS LiveGraphExecutor, GraphStore_proofs, FiniteSetTheorems, WellFoundedInduction

\* Every subset of the tasks is finite, so its size is a number.
LEMMA Finite ==
  ASSUME NEW S \in SUBSET Tasks
  PROVE  /\ IsFiniteSet(S)
         /\ Cardinality(S) \in Nat
         /\ Cardinality(S) <= Cardinality(Tasks)
         /\ Cardinality(Tasks) \in Nat
BY ExecutorAssumption, FS_Subset, FS_CardinalityType

LEMMA RoomIsInt ==
  ASSUME TypeOK, NEW e \in Executors
  PROVE  Room(e) \in Int
  <1>1. Cardinality(InFlight(e)) \in Nat
    BY Finite DEF InFlight
  <1>2. Cardinality(executed[e]) \in Nat
    BY Finite DEF TypeOK
  <1>3. stop[e] \in Nat \cup {NoStop} /\ MaxWorkers \in Nat
    BY ExecutorAssumption DEF TypeOK
  <1> QED BY <1>1, <1>2, <1>3, ExecutorAssumption DEF Room

\* A limit beyond the number of tasks limits nothing.
LEMMA LaunchWithinTasks ==
  ASSUME NEW limit \in Nat \ {0}, Launch(limit)
  PROVE  \E k \in 1 .. Cardinality(Tasks) : Launch(k)
  <1>1. PICK r : r \in ReadyUpTo(limit)
    BY DEF Launch
  <1>2. r \in Tasks /\ Ready \subseteq Tasks
    BY <1>1 DEF ReadyUpTo, Ready
  <1>3. Cardinality(Tasks) \in Nat \ {0}
    BY <1>2, Finite, FS_EmptySet, ExecutorAssumption
  <1>4. CASE limit <= Cardinality(Tasks)
    BY <1>3, <1>4
  <1>5. CASE limit > Cardinality(Tasks)
    <2>1. ASSUME NEW n \in Ready
          PROVE  Cardinality({m \in Ready : m < n}) < Cardinality(Tasks)
      <3> DEFINE B == {m \in Ready : m < n}
      <3>1. n \in Tasks /\ n \in Nat /\ B \in SUBSET Tasks
        BY <1>2, TasksAssumption
      <3>2. n \notin B
        BY <3>1
      <3>3. Cardinality(B) <= Cardinality(Tasks) /\ (Cardinality(Tasks) = Cardinality(B) => Tasks = B)
        BY <3>1, FS_Subset, ExecutorAssumption
      <3>4. Cardinality(B) \in Nat
        BY <3>1, Finite
      <3> QED BY <1>3, <3>1, <3>2, <3>3, <3>4
    <2>2. ASSUME NEW n \in Ready
          PROVE  Cardinality({m \in Ready : m < n}) \in Nat
      BY <1>2, Finite
    <2>3. ReadyUpTo(limit) = ReadyUpTo(Cardinality(Tasks))
      BY <1>3, <1>5, <2>1, <2>2 DEF ReadyUpTo
    <2>4. Launch(Cardinality(Tasks))
      BY <2>3 DEF Launch
    <2> QED BY <1>3, <2>4
  <1> QED BY <1>3, <1>4, <1>5

-----------------------------------------------------------------------------
(* Every step of the executors is one transaction of the store, or none.     *)

\* The events an executor plans for are events of the journal.
Plannable == \A e \in Executors :
  /\ pc[e] \in {"planning", "replanning"} => trigger[e] \in Triggers
  /\ todo[e] \subseteq Triggers

LEMMA StepIsTransaction ==
  ASSUME TypeOK, Plannable, [Next]_vars
  PROVE  [StoreNext]_storeVars
  <1>1. ASSUME NEW e \in Executors, NEW limit \in Stops, Begin(e, limit) PROVE StoreNext
    BY <1>1 DEF Begin, StoreNext
  <1>2. ASSUME NEW e \in Executors, FillAndWait(e) PROVE StoreNext
    <2>1. Room(e) \in Nat \ {0} /\ Launch(Room(e))
      BY <1>2, RoomIsInt DEF FillAndWait, CanLaunch
    <2> QED BY <2>1, LaunchWithinTasks DEF StoreNext
  <1>3. ASSUME NEW e \in Executors, NEW n \in Tasks, Record(e, n) PROVE StoreNext
    BY <1>3 DEF Record, StoreNext
  <1>4. ASSUME NEW e \in Executors, NEW p \in Patches, PlanApplied(e, p)
        PROVE [StoreNext]_storeVars
    <2>1. trigger[e] \in Triggers
      BY <1>4 DEF PlanApplied, Answers, Plannable
    <2> QED BY <1>4, <2>1 DEF PlanApplied, Patched, StoreNext
  <1>5. ASSUME NEW e \in Executors,
               \/ Replay(e) \/ WaitOrReturn(e) \/ Wake(e) \/ EndBatch(e)
               \/ \E n \in Tasks : Discard(e, n) \/ RecordRefused(e, n)
               \/ \E p \in Patches : PlanRefused(e, p)
               \/ Cancelled(e)
               \/ \E n \in Tasks, o \in Done : WorkerEnds(e, n, o)
        PROVE  UNCHANGED storeVars
    BY <1>5 DEF Replay, WaitOrReturn, Wake, EndBatch, Discard, RecordRefused, Raises, Leaves,
                PlanRefused, Cancelled, WorkerEnds
  <1>6. ASSUME (\E n \in Tasks : OrphanEnds(n)) \/ Crash PROVE UNCHANGED storeVars
    BY <1>6 DEF OrphanEnds, Crash
  <1>7. CASE UNCHANGED vars
    BY <1>7 DEF vars
  <1> QED BY <1>1, <1>2, <1>3, <1>4, <1>5, <1>6, <1>7 DEF Next, Step, Plan

-----------------------------------------------------------------------------
(* Types, and the events that are planned for.                              *)

LEMMA LeastIsIn ==
  ASSUME NEW S \in SUBSET Nat, S # {}
  PROVE  Least(S) \in S /\ \A m \in S : Least(S) <= m
  <1> DEFINE T == {0 .. n : n \in S}
  <1>1. T \subseteq FiniteSubsetsOf(Nat) /\ T # {}
    <2>1. ASSUME NEW n \in S PROVE 0 .. n \in SUBSET Nat /\ IsFiniteSet(0 .. n)
      BY FS_Interval
    <2> QED BY <2>1 DEF FiniteSubsetsOf
  <1>2. PICK I \in T : \A J \in T : ~(<<J, I>> \in StrictSubsetOrdering(Nat))
    BY <1>1, FS_StrictSubsetOrderingWellFounded, WFMin, Zenon
  <1>3. PICK x \in S : I = 0 .. x
    OBVIOUS
  <1>4. ASSUME NEW y \in S PROVE x <= y
    <2>1. CASE y < x
      <3>1. 0 .. y \in T /\ 0 .. y \subseteq 0 .. x /\ x \in 0 .. x /\ x \notin 0 .. y
        BY <2>1
      <3>2. <<0 .. y, 0 .. x>> \in StrictSubsetOrdering(Nat)
        BY <3>1 DEF StrictSubsetOrdering
      <3> QED BY <1>2, <1>3, <3>1, <3>2
    <2> QED BY <2>1
  <1> QED BY <1>4 DEF Least

\* The journal only grows, and grows by one entry at a time.
LEMMA JournalGrows ==
  ASSUME StoreTypeOK, [StoreNext]_storeVars
  PROVE  journal' = journal \/ \E x \in EntryType : journal' = Append(journal, x)
BY Appends DEF StoreNext, storeVars

LEMMA TriggersGrow ==
  ASSUME StoreTypeOK, [StoreNext]_storeVars
  PROVE  Triggers \subseteq Triggers' /\ Triggers \subseteq Nat
  <1>1. journal \in Seq(EntryType)
    BY DEF StoreTypeOK, EntryType
  <1>2. Triggers \subseteq Nat
    BY <1>1 DEF Triggers
  <1>3. CASE journal' = journal
    BY <1>2, <1>3 DEF Triggers
  <1>4. ASSUME NEW x \in EntryType, journal' = Append(journal, x) PROVE Triggers \subseteq Triggers'
    BY <1>1, <1>4, Appended DEF Triggers
  <1> QED BY <1>2, <1>3, <1>4, JournalGrows

\* The outcome that has just been committed is an event to plan for.
LEMMA OutcomeIsTrigger ==
  ASSUME StoreTypeOK, NEW n \in Tasks, NEW o \in {"succeeded", "failed"}, RecordOutcome(n, o)
  PROVE  Len(journal') \in Triggers' /\ Len(journal') \in Nat
  <1> DEFINE x == Entry(OutcomeKind(o), {n}, NoPatch)
  <1>1. journal \in Seq(EntryType) /\ x \in EntryType /\ journal' = Append(journal, x)
    BY Appends
  <1>2. Len(journal') = Len(journal) + 1 /\ Len(journal) \in Nat
    BY <1>1
  <1>3. Len(journal') \in DOMAIN journal' /\ journal'[Len(journal')] = x
    BY <1>1, <1>2, Appended
  <1>4. x.kind \in PlannerKinds
    BY DEF Entry, OutcomeKind, PlannerKinds
  <1> QED BY <1>2, <1>3, <1>4 DEF Triggers

LEMMA PlannableStep ==
  ASSUME TypeOK, Plannable, [Next]_vars
  PROVE  Plannable'
  <1>0. StoreTypeOK /\ [StoreNext]_storeVars
    BY StepIsTransaction DEF TypeOK
  <1>1. Triggers \subseteq Triggers' /\ Triggers \subseteq Nat
    BY <1>0, TriggersGrow
  <1>2. ASSUME NEW e \in Executors, NEW limit \in Stops, Begin(e, limit) PROVE Plannable'
    <2>1. Unplanned(journal') \subseteq Triggers'
      BY DEF Unplanned, Triggers
    <2>2. \A d \in Executors : d # e => todo'[d] = todo[d] /\ pc'[d] = pc[d]
      BY <1>2 DEF Begin, Moves, TypeOK
    <2>3. todo'[e] = Unplanned(journal') /\ pc'[e] = "replay" /\ trigger' = trigger
      BY <1>2 DEF Begin, Moves, TypeOK
    <2>4. Unplanned(journal)' \subseteq Triggers'
      BY DEF Unplanned, Triggers
    <2>5. todo'[e] \subseteq Triggers'
      BY <2>1, <2>3
    <2> QED BY <1>1, <2>2, <2>3, <2>5 DEF Plannable
  <1>3. ASSUME NEW e \in Executors, Replay(e) PROVE Plannable'
    <2>1. CASE todo[e] = {} \/ run = "finished"
      BY <1>1, <1>3, <2>1 DEF Replay, Moves, Plannable, TypeOK
    <2>2. CASE ~(todo[e] = {} \/ run = "finished")
      <3>1. Least(todo[e]) \in todo[e]
        BY <2>2, LeastIsIn DEF TypeOK
      <3>2. /\ trigger' = [trigger EXCEPT ![e] = Least(todo[e])]
            /\ todo' = [todo EXCEPT ![e] = @ \ {Least(todo[e])}]
            /\ pc' = [pc EXCEPT ![e] = "replanning"]
        BY <1>3, <2>2 DEF Replay, Moves
      <3> QED BY <1>1, <3>1, <3>2 DEF Plannable, TypeOK
    <2> QED BY <2>1, <2>2
  <1>4. ASSUME NEW e \in Executors, NEW n \in Tasks, Record(e, n) PROVE Plannable'
    <2>1. Len(journal') \in Triggers'
      BY <1>0, <1>4, OutcomeIsTrigger DEF Record
    <2>2. /\ trigger' = [trigger EXCEPT ![e] = Len(journal')] /\ todo' = todo
          /\ pc' = [pc EXCEPT ![e] = "planning"]
      BY <1>4 DEF Record, Moves
    <2> QED BY <1>1, <2>1, <2>2 DEF Plannable, TypeOK
  <1>5. ASSUME NEW e \in Executors,
               \/ FillAndWait(e) \/ WaitOrReturn(e) \/ Wake(e) \/ EndBatch(e)
               \/ \E n \in Tasks : Discard(e, n)
        PROVE  Plannable'
    <2>1. /\ trigger' = trigger /\ todo' = todo
          /\ \E to \in {"waiting", "returned", "batch", "fill"} : pc' = [pc EXCEPT ![e] = to]
      BY <1>5 DEF FillAndWait, WaitOrReturn, Wake, EndBatch, Discard, Moves
    <2> QED BY <1>1, <2>1 DEF Plannable, TypeOK
  <1>6. ASSUME NEW e \in Executors, Raises(e) \/ Cancelled(e) PROVE Plannable'
    <2>1. \E to \in {"raised", "cancelled"} : Leaves(e, to)
      BY <1>6 DEF Raises, Cancelled
    <2> QED BY <1>1, <2>1 DEF Leaves, Moves, Plannable, TypeOK
  <1>7. ASSUME NEW e \in Executors, NEW p \in Patches, PlanApplied(e, p) PROVE Plannable'
    <2>1. /\ trigger' = [trigger EXCEPT ![e] = NoEvent] /\ todo' = todo
          /\ \E to \in {"replay", "returned", "batch"} : pc' = [pc EXCEPT ![e] = to]
      BY <1>7 DEF PlanApplied, Moves
    <2> QED BY <1>1, <2>1 DEF Plannable, TypeOK
  <1>8. ASSUME \/ \E e \in Executors, n \in Tasks, o \in Done : WorkerEnds(e, n, o)
               \/ \E n \in Tasks : OrphanEnds(n)
        PROVE  Plannable'
    <2>1. trigger' = trigger /\ todo' = todo /\ pc' = pc
      BY <1>8 DEF WorkerEnds, OrphanEnds
    <2> QED BY <1>1, <2>1 DEF Plannable
  <1>9. CASE Crash
    BY <1>9 DEF Crash, ForgetAll, Plannable
  <1>10. CASE UNCHANGED vars
    <2>1. trigger' = trigger /\ todo' = todo /\ pc' = pc
      BY <1>10 DEF vars, execVars
    <2> QED BY <1>1, <2>1 DEF Plannable
  <1>11. \A e \in Executors, n \in Tasks, p \in Patches :
           RecordRefused(e, n) \/ PlanRefused(e, p) => Raises(e)
    BY DEF RecordRefused, PlanRefused
  <1>12. ASSUME NEW e \in Executors, NEW n \in Tasks, RecordRefused(e, n) PROVE Plannable'
    BY <1>6, <1>12 DEF RecordRefused
  <1>13. ASSUME NEW e \in Executors, NEW p \in Patches, PlanRefused(e, p) PROVE Plannable'
    BY <1>6, <1>13 DEF PlanRefused
  <1> QED BY <1>2, <1>3, <1>4, <1>5, <1>6, <1>7, <1>8, <1>9, <1>10, <1>12, <1>13
          DEF Next, Step, Plan

\* The graph handed to a planner is a graph.
LEMMA GraphTyped ==
  ASSUME StoreTypeOK
  PROVE  Graph \in [run: {"absent", "open", "finished"},
                    node: [Tasks -> NodeState \cup {"absent"}],
                    edges: SUBSET (Tasks \X Tasks)]
BY DEF StoreTypeOK, Graph

ExecTypeOK ==
  /\ pc \in [Executors -> PC]
  /\ stop \in [Executors -> Stops \cup {NoStop}]
  /\ todo \in [Executors -> SUBSET Nat]
  /\ trigger \in [Executors -> Nat]
  /\ snapshot \in [Executors -> [run: {"absent", "open", "finished"},
                                 node: [Tasks -> NodeState \cup {"absent"}],
                                 edges: SUBSET (Tasks \X Tasks)]]
  /\ future \in [Executors -> [Tasks -> FutureState]]
  /\ batch \in [Executors -> SUBSET Tasks]
  /\ executed \in [Executors -> SUBSET Tasks]
  /\ orphans \in SUBSET Tasks
  /\ loop \in Executors \cup {"free"}
  /\ calls \in Nat /\ cancels \in Nat /\ crashes \in Nat

LEMMA TypeParts == TypeOK <=> StoreTypeOK /\ ExecTypeOK
BY DEF TypeOK, ExecTypeOK

LEMMA MovesTyped ==
  ASSUME ExecTypeOK, NEW e \in Executors, NEW to \in PC, Moves(e, to)
  PROVE  pc' \in [Executors -> PC] /\ loop' \in Executors \cup {"free"}
BY DEF Moves, ExecTypeOK

LEMMA NothingTyped ==
  /\ NoEvent \in Nat
  /\ NoFutures \in [Tasks -> FutureState]
  /\ NoGraph \in [run: {"absent", "open", "finished"},
                  node: [Tasks -> NodeState \cup {"absent"}],
                  edges: SUBSET (Tasks \X Tasks)]
BY DEF NoEvent, NoFutures, NoGraph, FutureState

LEMMA ExecTypeStep ==
  ASSUME TypeOK, Plannable, [Next]_vars
  PROVE  ExecTypeOK'
  <1>0. /\ StoreTypeOK /\ ExecTypeOK /\ [StoreNext]_storeVars /\ StoreTypeOK'
        /\ {"off", "replay", "fill", "batch", "returned", "raised", "cancelled", "waiting",
            "planning", "replanning"} \subseteq PC
        /\ {"none", "running", "cancelling", "ok", "failed", "cancelled"} \subseteq FutureState
        /\ Done \subseteq FutureState
    BY StepIsTransaction, TypeStep, TypeParts
       DEF PC, Awaiting, Ended, FutureState, Unfinished, Done
  <1>1. ASSUME NEW e \in Executors, NEW limit \in Stops, Begin(e, limit) PROVE ExecTypeOK'
    <2>1. Unplanned(journal') \in SUBSET Nat
      <3>1. DOMAIN journal' \subseteq Nat
        BY <1>0 DEF StoreTypeOK
      <3> QED BY <3>1 DEF Unplanned
    <2>2. pc' \in [Executors -> PC] /\ loop' \in Executors \cup {"free"}
      BY <1>0, <1>1, MovesTyped DEF Begin
    <2>3. PICK U \in SUBSET Nat : U = Unplanned(journal')
      BY <2>1
    <2>4. /\ stop' = [stop EXCEPT ![e] = limit]
          /\ todo' = [todo EXCEPT ![e] = U]
          /\ executed' = [executed EXCEPT ![e] = {}]
          /\ calls' = calls + 1
          /\ UNCHANGED <<trigger, snapshot, future, batch, orphans, cancels, crashes>>
      BY <1>1, <2>3, Zenon DEF Begin
    <2> QED BY <1>0, <2>2, <2>4 DEF ExecTypeOK
  <1>2. ASSUME NEW e \in Executors, Replay(e) PROVE ExecTypeOK'
    <2>1. CASE todo[e] = {} \/ run = "finished"
      <3>1. pc' \in [Executors -> PC] /\ loop' \in Executors \cup {"free"}
        BY <1>0, <1>2, <2>1, MovesTyped DEF Replay
      <3> QED BY <1>2, <1>0, <2>1, <3>1 DEF Replay, ExecTypeOK
    <2>2. CASE ~(todo[e] = {} \/ run = "finished")
      <3>1. pc' \in [Executors -> PC] /\ loop' \in Executors \cup {"free"}
        BY <1>0, <1>2, <2>2, MovesTyped DEF Replay
      <3>2. Least(todo[e]) \in Nat
        BY <1>0, <2>2, LeastIsIn DEF ExecTypeOK
      <3>3. PICK k \in Nat : k = Least(todo[e])
        BY <3>2
      <3>4. PICK g : g = Graph
        OBVIOUS
      <3>5. g \in [run: {"absent", "open", "finished"},
                  node: [Tasks -> NodeState \cup {"absent"}],
                  edges: SUBSET (Tasks \X Tasks)]
        BY <1>0, <3>4, GraphTyped
      <3>6. /\ trigger' = [trigger EXCEPT ![e] = k]
            /\ snapshot' = [snapshot EXCEPT ![e] = g]
            /\ todo' = [todo EXCEPT ![e] = @ \ {k}]
            /\ UNCHANGED <<stop, future, batch, executed, orphans, calls, cancels, crashes>>
        BY <1>2, <2>2, <3>3, <3>4, Zenon DEF Replay
      <3> QED BY <1>0, <3>1, <3>5, <3>6 DEF ExecTypeOK
    <2> QED BY <2>1, <2>2
  <1>3. ASSUME NEW e \in Executors, FillAndWait(e) PROVE ExecTypeOK'
    <2>1. pc' \in [Executors -> PC] /\ loop' \in Executors \cup {"free"}
      BY <1>0, <1>3, MovesTyped DEF FillAndWait
    <2> QED BY <1>0, <1>3, <2>1 DEF FillAndWait, ExecTypeOK
  <1>4. ASSUME NEW e \in Executors, WaitOrReturn(e) PROVE ExecTypeOK'
    <2>1. pc' \in [Executors -> PC] /\ loop' \in Executors \cup {"free"}
      BY <1>0, <1>4, MovesTyped DEF WaitOrReturn
    <2> QED BY <1>0, <1>4, <2>1 DEF WaitOrReturn, ExecTypeOK
  <1>5. ASSUME NEW e \in Executors, Wake(e) PROVE ExecTypeOK'
    <2>1. pc' \in [Executors -> PC] /\ loop' \in Executors \cup {"free"}
      BY <1>0, <1>5, MovesTyped DEF Wake
    <2> QED BY <1>0, <1>5, <2>1 DEF Wake, ExecTypeOK
  <1>6. ASSUME NEW e \in Executors, NEW n \in Tasks, Discard(e, n) PROVE ExecTypeOK'
    <2>1. pc' \in [Executors -> PC] /\ loop' \in Executors \cup {"free"}
      BY <1>0, <1>6, MovesTyped DEF Discard
    <2> QED BY <1>0, <1>6, <2>1 DEF Discard, Pops, Popped, ExecTypeOK
  <1>7. ASSUME NEW e \in Executors, NEW n \in Tasks, Record(e, n) PROVE ExecTypeOK'
    <2>1. pc' \in [Executors -> PC] /\ loop' \in Executors \cup {"free"}
      BY <1>0, <1>7, MovesTyped DEF Record
    <2>2. Len(journal') \in Nat
      BY <1>0 DEF StoreTypeOK
    <2>3. PICK g : g = Graph'
      OBVIOUS
    <2>4. g \in [run: {"absent", "open", "finished"},
                node: [Tasks -> NodeState \cup {"absent"}],
                edges: SUBSET (Tasks \X Tasks)]
      BY <1>0, <2>3 DEF StoreTypeOK, Graph
    <2>5. snapshot' = [snapshot EXCEPT ![e] = g]
      BY <1>7, <2>3, Zenon DEF Record
    <2>6. snapshot' \in [Executors -> [run: {"absent", "open", "finished"},
                                       node: [Tasks -> NodeState \cup {"absent"}],
                                       edges: SUBSET (Tasks \X Tasks)]]
      BY <1>0, <2>4, <2>5 DEF ExecTypeOK
    <2>7. /\ batch' = [batch EXCEPT ![e] = @ \ {n}]
          /\ future' = [future EXCEPT ![e][n] = "none"]
          /\ executed' = [executed EXCEPT ![e] = @ \cup {n}]
          /\ trigger' = [trigger EXCEPT ![e] = Len(journal')]
          /\ UNCHANGED <<stop, todo, orphans, calls, cancels, crashes>>
      BY <1>7, Zenon DEF Record, Pops, Popped
    <2> QED BY <1>0, <2>1, <2>2, <2>6, <2>7 DEF ExecTypeOK
  <1>8. ASSUME NEW e \in Executors, EndBatch(e) PROVE ExecTypeOK'
    <2>1. pc' \in [Executors -> PC] /\ loop' \in Executors \cup {"free"}
      BY <1>0, <1>8, MovesTyped DEF EndBatch
    <2> QED BY <1>0, <1>8, <2>1 DEF EndBatch, ExecTypeOK
  <1>9. ASSUME NEW e \in Executors, Raises(e) \/ Cancelled(e) PROVE ExecTypeOK'
    <2>1. PICK to \in {"raised", "cancelled"} : Leaves(e, to)
      BY <1>9 DEF Raises, Cancelled
    <2>2. pc' \in [Executors -> PC] /\ loop' \in Executors \cup {"free"}
      BY <1>0, <2>1, MovesTyped DEF Leaves
    <2>3. cancels' \in Nat
      BY <1>0, <1>9 DEF Raises, Cancelled, ExecTypeOK
    <2> QED BY <1>0, <2>1, <2>2, <2>3, NothingTyped DEF Leaves, Alive, ExecTypeOK
  <1>10. ASSUME NEW e \in Executors, NEW p \in Patches, PlanApplied(e, p) PROVE ExecTypeOK'
    <2>1. pc' \in [Executors -> PC] /\ loop' \in Executors \cup {"free"}
      BY <1>0, <1>10, MovesTyped DEF PlanApplied
    <2>2. CancelGraphCancelled(e) \in [Executors -> [Tasks -> FutureState]]
      BY <1>0 DEF CancelGraphCancelled, ExecTypeOK
    <2>3. future' \in [Executors -> [Tasks -> FutureState]]
      BY <1>0, <1>10, <2>2, NothingTyped DEF PlanApplied, ExecTypeOK
    <2>4. /\ trigger' = [trigger EXCEPT ![e] = NoEvent]
          /\ snapshot' = [snapshot EXCEPT ![e] = NoGraph]
          /\ batch' = batch \/ batch' = [batch EXCEPT ![e] = {}]
          /\ orphans' = orphans \/ orphans' = orphans \cup Alive(e)
          /\ UNCHANGED <<stop, todo, executed, calls, cancels, crashes>>
      BY <1>10 DEF PlanApplied
    <2> QED BY <1>0, <2>1, <2>3, <2>4, NothingTyped DEF Alive, ExecTypeOK
  <1>11. ASSUME NEW e \in Executors, NEW n \in Tasks, NEW o \in Done, WorkerEnds(e, n, o)
         PROVE ExecTypeOK'
    BY <1>0, <1>11 DEF WorkerEnds, ExecTypeOK
  <1>12. ASSUME NEW n \in Tasks, OrphanEnds(n) PROVE ExecTypeOK'
    BY <1>0, <1>12 DEF OrphanEnds, ExecTypeOK
  <1>13. CASE Crash
    BY <1>0, <1>13, NothingTyped DEF Crash, ForgetAll, ExecTypeOK
  <1>14. CASE UNCHANGED vars
    BY <1>0, <1>14 DEF vars, execVars, ExecTypeOK
  <1>15. ASSUME NEW e \in Executors, NEW n \in Tasks, RecordRefused(e, n) PROVE ExecTypeOK'
    BY <1>9, <1>15 DEF RecordRefused
  <1>16. ASSUME NEW e \in Executors, NEW p \in Patches, PlanRefused(e, p) PROVE ExecTypeOK'
    BY <1>9, <1>16 DEF PlanRefused
  <1> QED BY <1>1, <1>2, <1>3, <1>4, <1>5, <1>6, <1>7, <1>8, <1>9, <1>10, <1>11, <1>12,
             <1>13, <1>14, <1>15, <1>16 DEF Next, Step, Plan

LEMMA ExecInit == Init => TypeOK /\ Plannable /\ StoreInit
  <1> SUFFICES ASSUME Init PROVE TypeOK /\ Plannable /\ StoreInit
    OBVIOUS
  <1>1. StoreInit /\ StoreTypeOK
    BY TypeInit DEF Init
  <1>2. ExecTypeOK
    BY NothingTyped DEF Init, ExecTypeOK, PC, Awaiting, Ended
  <1>3. Plannable
    BY DEF Init, Plannable
  <1> QED BY <1>1, <1>2, <1>3, TypeParts

LEMMA ExecStep == TypeOK /\ Plannable /\ [Next]_vars => TypeOK' /\ Plannable'
  <1> SUFFICES ASSUME TypeOK, Plannable, [Next]_vars PROVE TypeOK' /\ Plannable'
    OBVIOUS
  <1>1. ExecTypeOK' /\ Plannable'
    BY ExecTypeStep, PlannableStep
  <1>2. StoreTypeOK'
    BY StepIsTransaction, TypeStep DEF TypeOK
  <1> QED BY <1>1, <1>2 DEF TypeOK, ExecTypeOK

\* The state of the executors keeps its declared form.
THEOREM ExecutorTypeCorrect == Spec => []TypeOK
BY ExecInit, ExecStep, PTL DEF Spec

\* The executor implements the store's specification: however many calls of run()
\* overlap, whatever the planner answers and whenever the process dies, each of its
\* steps is one transaction of the store or leaves the rows alone.
THEOREM ExecutorImplementsStore == Spec => StoreSpec
  <1>1. TypeOK /\ Plannable /\ [Next]_vars => [StoreNext]_storeVars
    BY StepIsTransaction
  <1> QED BY <1>1, ExecInit, ExecStep, PTL DEF Spec, StoreSpec

\* No executor starts a task that was reported as cancelled, if no patch both cancels
\* and parks or resumes a task.
THEOREM ExecutorNeverStartsCancelled ==
  ASSUME NoOverlap PROVE Spec => []CancelledNeverStarts
BY ExecutorImplementsStore, CancellationHolds, PTL

-----------------------------------------------------------------------------
(* One call of run() at a time: what it holds agrees with the rows.         *)

\* No second call of run() exists: nobody resumes a run that is live.
OneCall == \A d, e \in Executors : d = e

RowsNeedRun == run = "absent" => \A n \in Tasks : node[n] = "absent"

IdleHoldsNothing(e) == ~InMainLoop(e) => \A n \in Tasks : future[e][n] = "none"

NothingRunsInReplay(e) ==
  pc[e] \in {"replay", "replanning"} => \A n \in Tasks : node[n] # "running"

HeldIsRunning(e) ==
  InMainLoop(e) => \A n \in Tasks :
    /\ node[n] = "running" => future[e][n] # "none"
    /\ future[e][n] # "none" => node[n] \in {"running", "cancelled"}

\* The rows are cancelled before the coroutine is.
ObsoleteIsCancelled(e) ==
  \A n \in Tasks : future[e][n] \in {"cancelling", "cancelled"} => node[n] = "cancelled"

BatchIsHeld(e) == \A n \in batch[e] : future[e][n] # "none"

\* The graph stands still while the planner thinks.
SnapshotIsFresh(e) == pc[e] \in {"planning", "replanning"} => snapshot[e] = Graph

Coherent(e) ==
  /\ IdleHoldsNothing(e) /\ NothingRunsInReplay(e) /\ HeldIsRunning(e)
  /\ ObsoleteIsCancelled(e) /\ BatchIsHeld(e) /\ SnapshotIsFresh(e)

LEMMA RowsStep == RowsNeedRun /\ [StoreNext]_storeVars => RowsNeedRun'
  <1> SUFFICES ASSUME RowsNeedRun, [StoreNext]_storeVars PROVE RowsNeedRun'
    OBVIOUS
  <1>1. ASSUME NEW limit \in 1 .. Cardinality(Tasks), Launch(limit) PROVE RowsNeedRun'
    BY <1>1 DEF Launch, ReadyUpTo, Ready, RowsNeedRun
  <1>2. ASSUME NEW n \in Tasks, NEW o \in {"succeeded", "failed"}, RecordOutcome(n, o)
        PROVE RowsNeedRun'
    BY <1>2 DEF RecordOutcome, CanRecord, RowsNeedRun
  <1>3. ASSUME NEW p \in Patches, NEW t \in Triggers, ApplyPatch(p, t) PROVE RowsNeedRun'
    BY <1>3 DEF ApplyPatch, Acceptable, Graph, RowsNeedRun
  <1>4. ASSUME Start \/ Resume \/ \E n \in Tasks : RecordExternalEvent(n) PROVE RowsNeedRun'
    BY <1>4 DEF Start, Resume, RecordExternalEvent, RowsNeedRun
  <1>5. CASE UNCHANGED storeVars
    BY <1>5 DEF storeVars, RowsNeedRun
  <1> QED BY <1>1, <1>2, <1>3, <1>4, <1>5 DEF StoreNext

\* A patch starts nothing, leaves what is cancelled, and stops running tasks only by
\* cancelling them.
LEMMA PatchedRows ==
  ASSUME StoreTypeOK, NEW p \in Patches, NEW t, Patched(p, t), NEW n \in Tasks
  PROVE  /\ node[n] = "cancelled" => node'[n] = "cancelled"
         /\ node'[n] = "running" => node[n] = "running"
         /\ node[n] = "running" => node'[n] \in {"running", "cancelled"}
  <1>1. CASE UNCHANGED storeVars
    BY <1>1 DEF storeVars
  <1>2. CASE ApplyPatch(p, t)
    <2>1. p \in PatchType /\ Acceptable(p, Graph) /\ node[n] \in NodeState \cup {"absent"}
      BY <1>2, PatchesAssumption DEF ApplyPatch, StoreTypeOK
    <2>2. node'[n] = Settled(p, n, Updated(p, n))
      BY <1>2 DEF ApplyPatch
    <2>3. CASE node[n] = "running"
      <3>1. n \notin p.add /\ n \notin p.wait /\ n \notin p.resume
        BY <2>1, <2>3 DEF Acceptable, Graph, Live, PatchType
      <3>2. Updated(p, n) \in {"running", "cancelled"}
        BY <2>3, <3>1 DEF Updated
      <3> QED BY <2>2, <2>3, <3>2 DEF Settled
    <2> QED BY <2>1, <2>2, <2>3, PatchedNode
  <1> QED BY <1>1, <1>2 DEF Patched

\* A step of its own that leaves the rows, in_flight and the batch alone keeps a call
\* coherent if it stays in its half of run() and asks the planner nothing.
LEMMA Unmoved ==
  ASSUME NEW e \in Executors, Coherent(e), UNCHANGED <<storeVars, snapshot, future, batch>>,
         \/ pc'[e] = pc[e]
         \/ InMainLoop(e) /\ InMainLoop(e)' /\ pc'[e] # "planning"
  PROVE  Coherent(e)'
BY DEF Coherent, IdleHoldsNothing, NothingRunsInReplay, HeldIsRunning, ObsoleteIsCancelled,
       BatchIsHeld, SnapshotIsFresh, storeVars, Graph, InMainLoop

LEMMA BeginCoherent ==
  ASSUME TypeOK, RowsNeedRun, NEW e \in Executors, Coherent(e), NEW limit \in Stops,
         Begin(e, limit)
  PROVE  Coherent(e)'
  <1>1. pc'[e] = "replay" /\ pc[e] \in Ended
    BY DEF Begin, Moves, TypeOK
  <1>2. future' = future /\ batch' = batch
    BY DEF Begin
  <1>3. \A n \in Tasks : future[e][n] = "none"
    BY <1>1 DEF Coherent, IdleHoldsNothing, InMainLoop, Ended
  <1>4. \A n \in Tasks : node'[n] # "running"
    BY DEF Begin, Start, Resume, Requeued, RowsNeedRun
  <1> QED BY <1>1, <1>2, <1>3, <1>4
          DEF Coherent, IdleHoldsNothing, NothingRunsInReplay, HeldIsRunning,
              ObsoleteIsCancelled, BatchIsHeld, SnapshotIsFresh, InMainLoop

LEMMA ReplayCoherent ==
  ASSUME TypeOK, NEW e \in Executors, Coherent(e), Replay(e)
  PROVE  Coherent(e)'
  <1>1. /\ pc[e] = "replay" /\ pc'[e] \in {"fill", "replanning"}
        /\ UNCHANGED <<run, node, edges, future, batch>>
    BY DEF Replay, Moves, TypeOK, storeVars
  <1>2. pc'[e] = "replanning" => snapshot'[e] = Graph
    BY DEF Replay, Moves, TypeOK
  <1>3. \A n \in Tasks : node[n] # "running" /\ future[e][n] = "none"
    BY <1>1 DEF Coherent, IdleHoldsNothing, NothingRunsInReplay, InMainLoop
  <1> QED BY <1>1, <1>2, <1>3
          DEF Coherent, IdleHoldsNothing, NothingRunsInReplay, HeldIsRunning,
              ObsoleteIsCancelled, BatchIsHeld, SnapshotIsFresh, InMainLoop, Graph

LEMMA FillCoherent ==
  ASSUME TypeOK, NEW e \in Executors, Coherent(e), FillAndWait(e)
  PROVE  Coherent(e)'
  <1>1. pc[e] = "fill" /\ pc'[e] = "waiting" /\ batch' = batch
    BY DEF FillAndWait, Moves, TypeOK
  <1> DEFINE Picked == ReadyUpTo(Room(e))
  <1>a. Picked \in SUBSET Tasks /\ \A n \in Picked : node[n] = "pending"
    BY DEF ReadyUpTo, Ready
  <1> HIDE DEF Picked
  <1>2. PICK R \in SUBSET Tasks : R = Picked /\ \A n \in R : node[n] = "pending"
    BY <1>a
  <1>3. /\ node' = [n \in Tasks |-> IF n \in R THEN "running" ELSE node[n]]
        /\ future' = [future EXCEPT ![e] = [n \in Tasks |-> IF n \in R THEN "running" ELSE @[n]]]
    BY <1>2, Zenon DEF FillAndWait, Launch, Picked
  <1>4. \A n \in Tasks : /\ node'[n] = (IF n \in R THEN "running" ELSE node[n])
                         /\ future'[e][n] = (IF n \in R THEN "running" ELSE future[e][n])
    BY <1>3 DEF TypeOK
  <1>5. batch[e] \in SUBSET Tasks
    BY DEF TypeOK
  <1> QED BY <1>1, <1>2, <1>4, <1>5
          DEF Coherent, IdleHoldsNothing, NothingRunsInReplay, HeldIsRunning,
              ObsoleteIsCancelled, BatchIsHeld, SnapshotIsFresh, InMainLoop

LEMMA ReturnCoherent ==
  ASSUME TypeOK, NEW e \in Executors, Coherent(e), WaitOrReturn(e)
  PROVE  Coherent(e)'
  <1>1. /\ pc[e] = "fill" /\ pc'[e] \in {"returned", "waiting"}
        /\ pc'[e] = "returned" => \A n \in Tasks : future[e][n] = "none"
        /\ UNCHANGED <<run, node, edges, future, batch>>
    BY DEF WaitOrReturn, Moves, TypeOK, InFlight, storeVars
  <1> QED BY <1>1
          DEF Coherent, IdleHoldsNothing, NothingRunsInReplay, HeldIsRunning,
              ObsoleteIsCancelled, BatchIsHeld, SnapshotIsFresh, InMainLoop

LEMMA WakeCoherent ==
  ASSUME TypeOK, NEW e \in Executors, Coherent(e), Wake(e)
  PROVE  Coherent(e)'
  <1>1. /\ pc[e] = "waiting" /\ pc'[e] = "batch"
        /\ \A n \in batch'[e] : future[e][n] # "none"
        /\ UNCHANGED <<run, node, edges, future>>
    BY DEF Wake, Moves, TypeOK, Done, storeVars
  <1> QED BY <1>1
          DEF Coherent, IdleHoldsNothing, NothingRunsInReplay, HeldIsRunning,
              ObsoleteIsCancelled, BatchIsHeld, SnapshotIsFresh, InMainLoop

LEMMA DiscardCoherent ==
  ASSUME TypeOK, NEW e \in Executors, Coherent(e), NEW n \in Tasks, Discard(e, n)
  PROVE  Coherent(e)'
  <1>1. /\ pc[e] = "batch" /\ pc'[e] = "batch"
        /\ batch'[e] = batch[e] \ {n} /\ batch[e] \in SUBSET Tasks
        /\ UNCHANGED <<run, node, edges>>
        /\ \A m \in Tasks : future'[e][m] = (IF m = n THEN "none" ELSE future[e][m])
    BY DEF Discard, Pops, Popped, Moves, TypeOK, storeVars
  <1>2. node[n] = "cancelled"
    BY DEF Discard, Discarded, Coherent, ObsoleteIsCancelled
  <1> QED BY <1>1, <1>2
          DEF Coherent, IdleHoldsNothing, NothingRunsInReplay, HeldIsRunning,
              ObsoleteIsCancelled, BatchIsHeld, SnapshotIsFresh, InMainLoop

LEMMA RecordCoherent ==
  ASSUME TypeOK, NEW e \in Executors, Coherent(e), NEW n \in Tasks, Record(e, n)
  PROVE  Coherent(e)'
  <1>1. /\ pc[e] = "batch" /\ pc'[e] = "planning"
        /\ batch'[e] = batch[e] \ {n} /\ batch[e] \in SUBSET Tasks
        /\ \A m \in Tasks : future'[e][m] = (IF m = n THEN "none" ELSE future[e][m])
    BY DEF Record, Pops, Popped, Moves, TypeOK
  <1>2. /\ node[n] = "running" /\ node'[n] \in {"succeeded", "failed"}
        /\ \A m \in Tasks : m # n => node'[m] = node[m]
    BY DEF Record, RecordOutcome, CanRecord, TypeOK, StoreTypeOK
  <1>3. snapshot'[e] = Graph'
    <2>1. snapshot' = [snapshot EXCEPT ![e] = Graph']
      BY Zenon DEF Record
    <2>2. PICK g : g = Graph'
      OBVIOUS
    <2>3. snapshot' = [snapshot EXCEPT ![e] = g]
      BY <2>1, <2>2, Zenon
    <2> QED BY <2>2, <2>3 DEF TypeOK
  <1>4. /\ IdleHoldsNothing(e)' /\ NothingRunsInReplay(e)' /\ HeldIsRunning(e)'
        /\ ObsoleteIsCancelled(e)' /\ BatchIsHeld(e)'
    BY <1>1, <1>2
       DEF Coherent, IdleHoldsNothing, NothingRunsInReplay, HeldIsRunning,
           ObsoleteIsCancelled, BatchIsHeld, InMainLoop
  <1>5. SnapshotIsFresh(e)'
    BY <1>3, Zenon DEF SnapshotIsFresh
  <1> QED BY <1>4, <1>5 DEF Coherent

LEMMA EndBatchCoherent ==
  ASSUME TypeOK, FinishedIsQuiet, NEW e \in Executors, Coherent(e), EndBatch(e)
  PROVE  Coherent(e)'
  <1>1. /\ pc[e] = "batch" /\ pc'[e] = "fill" /\ batch' = batch
        /\ batch[e] \in SUBSET Tasks
        /\ UNCHANGED <<run, node, edges>>
        /\ \A n \in Tasks : future'[e][n] =
             (IF run = "finished" /\ future[e][n] = "running" THEN "cancelling" ELSE future[e][n])
    BY DEF EndBatch, Moves, TypeOK, storeVars
  <1>2. run = "finished" => \A n \in Tasks : node[n] # "running"
    BY DEF FinishedIsQuiet, Live
  <1> QED BY <1>1, <1>2
          DEF Coherent, IdleHoldsNothing, NothingRunsInReplay, HeldIsRunning,
              ObsoleteIsCancelled, BatchIsHeld, SnapshotIsFresh, InMainLoop

LEMMA LeavesCoherent ==
  ASSUME TypeOK, NEW e \in Executors, NEW to \in {"raised", "cancelled"}, Leaves(e, to)
  PROVE  Coherent(e)'
  <1>1. /\ pc'[e] \in {"raised", "cancelled"} /\ batch'[e] = {}
        /\ \A n \in Tasks : future'[e][n] = "none"
    BY DEF Leaves, Moves, TypeOK, NoFutures
  <1> QED BY <1>1
          DEF Coherent, IdleHoldsNothing, NothingRunsInReplay, HeldIsRunning,
              ObsoleteIsCancelled, BatchIsHeld, SnapshotIsFresh, InMainLoop

LEMMA PlanAppliedCoherent ==
  ASSUME TypeOK, NEW e \in Executors, Coherent(e), NEW p \in Patches, PlanApplied(e, p)
  PROVE  Coherent(e)'
  <1>0. /\ batch[e] \in SUBSET Tasks
        /\ \A n \in Tasks : /\ node[n] = "cancelled" => node'[n] = "cancelled"
                            /\ node'[n] = "running" => node[n] = "running"
                            /\ node[n] = "running" => node'[n] \in {"running", "cancelled"}
    BY PatchedRows DEF PlanApplied, TypeOK
  <1>1. CASE pc[e] = "replanning" /\ Moves(e, "replay") /\ UNCHANGED <<future, batch, orphans>>
    <2>1. pc'[e] = "replay" /\ \A n \in Tasks : node'[n] # "running" /\ future[e][n] = "none"
      BY <1>0, <1>1 DEF Moves, TypeOK, Coherent, NothingRunsInReplay, IdleHoldsNothing, InMainLoop
    <2> QED BY <1>1, <2>1
            DEF Coherent, IdleHoldsNothing, NothingRunsInReplay, HeldIsRunning,
                ObsoleteIsCancelled, BatchIsHeld, SnapshotIsFresh, InMainLoop
  <1>2. CASE /\ pc[e] = "planning" /\ Moves(e, "batch") /\ UNCHANGED <<batch, orphans>>
             /\ future' = CancelGraphCancelled(e)
    <2>1. /\ pc'[e] = "batch"
          /\ \A n \in Tasks : future'[e][n] =
               (IF future[e][n] = "running" /\ node'[n] = "cancelled" THEN "cancelling"
                ELSE future[e][n])
      BY <1>2 DEF Moves, TypeOK, CancelGraphCancelled
    <2> QED BY <1>0, <1>2, <2>1
            DEF Coherent, IdleHoldsNothing, NothingRunsInReplay, HeldIsRunning,
                ObsoleteIsCancelled, BatchIsHeld, SnapshotIsFresh, InMainLoop
  <1>3. CASE /\ pc[e] = "planning" /\ Moves(e, "returned")
             /\ future' = [future EXCEPT ![e] = NoFutures]
             /\ batch' = [batch EXCEPT ![e] = {}]
    <2>1. pc'[e] = "returned" /\ batch'[e] = {} /\ \A n \in Tasks : future'[e][n] = "none"
      BY <1>3 DEF Moves, TypeOK, NoFutures
    <2> QED BY <2>1
            DEF Coherent, IdleHoldsNothing, NothingRunsInReplay, HeldIsRunning,
                ObsoleteIsCancelled, BatchIsHeld, SnapshotIsFresh, InMainLoop
  <1> QED BY <1>1, <1>2, <1>3 DEF PlanApplied

LEMMA WorkerEndsCoherent ==
  ASSUME TypeOK, NEW e \in Executors, Coherent(e), NEW n \in Tasks, NEW o \in Done,
         WorkerEnds(e, n, o)
  PROVE  Coherent(e)'
  <1>1. /\ UNCHANGED <<run, node, edges, pc, batch, snapshot>>
        /\ batch[e] \in SUBSET Tasks
        /\ \A m \in Tasks : future'[e][m] = (IF m = n THEN o ELSE future[e][m])
        /\ o # "none" /\ o # "cancelling"
        /\ future[e][n] \in {"running", "cancelling"}
        /\ o = "cancelled" => future[e][n] = "cancelling"
    BY DEF WorkerEnds, TypeOK, storeVars, Done
  <1> QED BY <1>1
          DEF Coherent, IdleHoldsNothing, NothingRunsInReplay, HeldIsRunning,
              ObsoleteIsCancelled, BatchIsHeld, SnapshotIsFresh, InMainLoop, Graph

LEMMA CrashCoherent ==
  ASSUME NEW e \in Executors, Crash
  PROVE  Coherent(e)'
  <1>1. pc'[e] = "off" /\ batch'[e] = {} /\ \A n \in Tasks : future'[e][n] = "none"
    BY DEF Crash, ForgetAll, NoFutures
  <1> QED BY <1>1
          DEF Coherent, IdleHoldsNothing, NothingRunsInReplay, HeldIsRunning,
              ObsoleteIsCancelled, BatchIsHeld, SnapshotIsFresh, InMainLoop

\* With one call, a step that is not its own is the end of an orphan or a crash.
LEMMA CoherentStep ==
  ASSUME OneCall, TypeOK, FinishedIsQuiet, RowsNeedRun, NEW e \in Executors, Coherent(e),
         [Next]_vars
  PROVE  Coherent(e)'
  <1>1. ASSUME (\E n \in Tasks : OrphanEnds(n)) \/ UNCHANGED vars PROVE Coherent(e)'
    BY <1>1, Unmoved DEF OrphanEnds, vars, execVars
  <1>2. ASSUME Step(e) PROVE Coherent(e)'
    BY <1>2, ReplayCoherent, FillCoherent, ReturnCoherent, WakeCoherent, DiscardCoherent,
       RecordCoherent, EndBatchCoherent, LeavesCoherent DEF Step, RecordRefused, Raises
  <1>3. ASSUME Plan(e) PROVE Coherent(e)'
    BY <1>3, PlanAppliedCoherent, LeavesCoherent DEF Plan, PlanRefused, Raises
  <1>4. ASSUME NEW d \in Executors, Step(d) \/ Plan(d) \/ Cancelled(d) PROVE Coherent(e)'
    BY <1>2, <1>3, <1>4, LeavesCoherent DEF OneCall, Cancelled
  <1>5. ASSUME NEW d \in Executors, NEW limit \in Stops, Begin(d, limit) PROVE Coherent(e)'
    BY <1>5, BeginCoherent DEF OneCall
  <1>6. ASSUME NEW d \in Executors, NEW n \in Tasks, NEW o \in Done, WorkerEnds(d, n, o)
        PROVE Coherent(e)'
    BY <1>6, WorkerEndsCoherent DEF OneCall
  <1>7. CASE Crash
    BY <1>7, CrashCoherent
  <1> QED BY <1>1, <1>4, <1>5, <1>6, <1>7 DEF Next

LEMMA CoherentInit == Init => RowsNeedRun /\ \A e \in Executors : Coherent(e)
BY DEF Init, StoreInit, RowsNeedRun, Coherent, IdleHoldsNothing, NothingRunsInReplay,
       HeldIsRunning, ObsoleteIsCancelled, BatchIsHeld, SnapshotIsFresh, InMainLoop, NoFutures

Inv ==
  /\ TypeOK /\ Plannable /\ FinishedIsQuiet /\ RowsNeedRun
  /\ \A e \in Executors : Coherent(e)

LEMMA InvInit == Init => Inv
BY ExecInit, QuietInit, CoherentInit DEF Inv

LEMMA InvStep == OneCall => (Inv /\ [Next]_vars => Inv')
  <1> SUFFICES ASSUME OneCall, Inv, [Next]_vars PROVE Inv'
    OBVIOUS
  <1>1. TypeOK' /\ Plannable' /\ StoreTypeOK
    BY ExecStep DEF Inv, TypeOK
  <1>2. [StoreNext]_storeVars
    BY StepIsTransaction DEF Inv
  <1>3. FinishedIsQuiet' /\ RowsNeedRun'
    BY <1>1, <1>2, QuietStep, RowsStep DEF Inv
  <1>4. ASSUME NEW e \in Executors PROVE Coherent(e)'
    BY CoherentStep DEF Inv
  <1> QED BY <1>1, <1>3, <1>4 DEF Inv

\* With one call of run() at a time, the rows call running exactly what in_flight
\* holds and the graph has not cancelled, for any planner and any crashes.
THEOREM RowsMatchInFlight == ASSUME OneCall PROVE Spec => []RunningIsInFlight
  <1>1. Inv => RunningIsInFlight
    BY DEF Inv, RunningIsInFlight, Coherent, HeldIsRunning, InFlight
  <1> QED BY <1>1, InvInit, InvStep, PTL DEF Spec

\* record_outcome is never refused: what is in flight and not cancelled is running.
LEMMA OutcomeIsAccepted ==
  ASSUME TypeOK, NEW e \in Executors, Coherent(e), NEW n \in Tasks, RecordRefused(e, n)
  PROVE  FALSE
  <1>1. n \in batch[e] /\ pc[e] = "batch" /\ node[n] # "running" /\ node[n] # "cancelled"
    <2>1. batch[e] \in SUBSET Nat /\ batch[e] # {} /\ n = Least(batch[e])
      BY TasksAssumption DEF RecordRefused, TypeOK
    <2> QED BY <2>1, LeastIsIn DEF RecordRefused, Discarded, CanRecord
  <1> QED BY <1>1 DEF Coherent, BatchIsHeld, HeldIsRunning, InMainLoop

\* With one call of run() at a time, a planner whose patches fit the snapshot it was
\* given is never refused, and neither is the outcome of a worker.
THEOREM SoundPlansAreAccepted == ASSUME OneCall, SoundPlanner PROVE Spec => []NeverRaises
  <1>1. Init => NeverRaises
    BY DEF Init, NeverRaises
  <1>2. Inv /\ NeverRaises /\ [Next]_vars => NeverRaises'
    <2> SUFFICES ASSUME Inv, NeverRaises, [Next]_vars PROVE NeverRaises'
      OBVIOUS
    <2>1. ASSUME NEW e \in Executors, NEW n \in Tasks, RecordRefused(e, n) PROVE FALSE
      BY <2>1, OutcomeIsAccepted DEF Inv
    <2>2. ASSUME NEW e \in Executors, NEW p \in Patches, PlanRefused(e, p) PROVE FALSE
      BY <2>2 DEF PlanRefused, Answers, Parsed, Inv, Coherent, SnapshotIsFresh
    <2>3. ASSUME NEW e \in Executors, NEW to \in PC \ {"raised"}, Moves(e, to)
          PROVE  NeverRaises'
      BY <2>3 DEF Moves, NeverRaises, Inv, TypeOK
    <2>4. ASSUME NEW e \in Executors,
                 \/ Replay(e) \/ FillAndWait(e) \/ WaitOrReturn(e) \/ Wake(e) \/ EndBatch(e)
                 \/ \E n \in Tasks : Discard(e, n) \/ Record(e, n)
                 \/ \E p \in Patches : PlanApplied(e, p)
                 \/ Cancelled(e) \/ \E limit \in Stops : Begin(e, limit)
          PROVE  NeverRaises'
      <3>1. \E to \in {"replay", "replanning", "fill", "waiting", "returned", "batch",
                       "planning", "cancelled"} : Moves(e, to)
        BY <2>4 DEF Replay, FillAndWait, WaitOrReturn, Wake, EndBatch, Discard, Record,
                    PlanApplied, Begin, Cancelled, Leaves
      <3> QED BY <2>3, <3>1 DEF PC, Awaiting, Ended
    <2>5. ASSUME \/ \E e \in Executors, n \in Tasks, o \in Done : WorkerEnds(e, n, o)
                 \/ \E n \in Tasks : OrphanEnds(n)
                 \/ UNCHANGED vars
          PROVE  NeverRaises'
      BY <2>5 DEF WorkerEnds, OrphanEnds, vars, execVars, NeverRaises
    <2>6. CASE Crash
      BY <2>6 DEF Crash, NeverRaises
    <2> QED BY <2>1, <2>2, <2>4, <2>5, <2>6 DEF Next, Step, Plan
  <1> QED BY <1>1, <1>2, InvInit, InvStep, PTL DEF Spec

-----------------------------------------------------------------------------
(* Capacity, for any number of overlapping calls.                           *)

\* ready(limit) hands out at most limit tasks: the number of smaller ready tasks tells
\* them apart.
LEMMA ReadyIsLimited ==
  ASSUME NEW limit \in Nat
  PROVE  Cardinality(ReadyUpTo(limit)) <= limit
  <1> DEFINE Below(n) == {m \in Ready : m < n}
             f == [n \in ReadyUpTo(limit) |-> Cardinality(Below(n))]
  <1>1. Ready \in SUBSET Tasks /\ Ready \in SUBSET Nat
    BY TasksAssumption DEF Ready
  <1>2. ASSUME NEW n \in Ready
        PROVE  Below(n) \in SUBSET Tasks /\ IsFiniteSet(Below(n)) /\ Cardinality(Below(n)) \in Nat
    BY <1>1, Finite
  <1>3. f \in [ReadyUpTo(limit) -> 0 .. (limit - 1)]
    <2>1. ASSUME NEW n \in ReadyUpTo(limit) PROVE Cardinality(Below(n)) \in 0 .. (limit - 1)
      <3>1. n \in Ready /\ Cardinality(Below(n)) < limit
        BY DEF ReadyUpTo
      <3> QED BY <1>2, <3>1
    <2> QED BY <2>1
  <1>4. ASSUME NEW n \in Ready, NEW m \in Ready, m < n
        PROVE  Cardinality(Below(m)) # Cardinality(Below(n))
    <2>1. Below(m) \in SUBSET Below(n) /\ m \in Below(n) /\ m \notin Below(m)
      <3>1. m \in Nat /\ n \in Nat /\ \A k \in Ready : k \in Nat
        BY <1>1
      <3>2. \A k \in Below(m) : k \in Below(n)
        BY <1>4, <3>1
      <3>3. m \in Below(n) /\ m \notin Below(m)
        BY <1>4, <3>1
      <3> QED BY <3>2, <3>3
    <2>2. Cardinality(Below(n)) = Cardinality(Below(m)) => Below(n) = Below(m)
      BY <1>2, <2>1, FS_Subset
    <2> QED BY <2>1, <2>2
  <1>5. ASSUME NEW n \in ReadyUpTo(limit), NEW m \in ReadyUpTo(limit), f[n] = f[m]
        PROVE  n = m
    <2>1. n \in Ready /\ m \in Ready
      BY DEF ReadyUpTo
    <2>2. Cardinality(Below(n)) = Cardinality(Below(m))
      BY <1>5
    <2>3. ~(m < n) /\ ~(n < m)
      BY <1>4, <2>1, <2>2
    <2> QED BY <1>1, <2>1, <2>3
  <1>6. f \in Injection(ReadyUpTo(limit), 0 .. (limit - 1))
    BY <1>3, <1>5 DEF Injection, IsInjective
  <1>7. IsFiniteSet(0 .. (limit - 1)) /\ Cardinality(0 .. (limit - 1)) = limit
    BY FS_Interval
  <1> QED BY <1>6, <1>7, FS_Injection

Bounded(e) ==
  /\ Cardinality(InFlight(e)) <= MaxWorkers
  /\ stop[e] # NoStop => Cardinality(InFlight(e)) + Cardinality(executed[e]) <= stop[e]

Capacity(e) == IdleHoldsNothing(e) /\ BatchIsHeld(e) /\ Bounded(e)

LEMMA CardinalsAreNat ==
  ASSUME TypeOK, NEW e \in Executors
  PROVE  /\ InFlight(e) \in SUBSET Tasks /\ IsFiniteSet(InFlight(e))
         /\ Cardinality(InFlight(e)) \in Nat
         /\ IsFiniteSet(executed[e]) /\ Cardinality(executed[e]) \in Nat
         /\ stop[e] \in Nat \cup {NoStop} /\ MaxWorkers \in Nat
BY Finite, ExecutorAssumption DEF InFlight, TypeOK

\* Holding no more than before keeps within the bounds.
LEMMA FewerIsBounded ==
  ASSUME TypeOK, NEW e \in Executors, Bounded(e),
         stop'[e] = stop[e], executed'[e] = executed[e],
         \A n \in Tasks : future[e][n] = "none" => future'[e][n] = "none"
  PROVE  Bounded(e)'
  <1>1. InFlight(e)' \in SUBSET InFlight(e)
    BY DEF InFlight
  <1>2. IsFiniteSet(InFlight(e)) /\ Cardinality(InFlight(e)) \in Nat
    BY CardinalsAreNat
  <1>3. Cardinality(InFlight(e)') <= Cardinality(InFlight(e)) /\ Cardinality(InFlight(e)') \in Nat
    BY <1>1, <1>2, FS_Subset, FS_CardinalityType
  <1> QED BY <1>2, <1>3, CardinalsAreNat DEF Bounded

LEMMA FillBounded ==
  ASSUME TypeOK, NEW e \in Executors, Bounded(e), FillAndWait(e)
  PROVE  Bounded(e)'
  <1> DEFINE R == ReadyUpTo(Room(e))
  <1>1. R \in SUBSET Tasks /\ IsFiniteSet(R) /\ Cardinality(R) \in Nat
    BY Finite DEF ReadyUpTo, Ready
  <1>2. Room(e) \in Nat
    BY RoomIsInt DEF FillAndWait, CanLaunch
  <1>3. Cardinality(R) <= Room(e)
    BY <1>2, ReadyIsLimited
  <1>4. future'[e] = [n \in Tasks |-> IF n \in R THEN "running" ELSE future[e][n]]
    BY DEF FillAndWait, TypeOK
  <1>5. InFlight(e)' = InFlight(e) \cup R
    BY <1>1, <1>4 DEF InFlight
  <1>6. Cardinality(InFlight(e)') <= Cardinality(InFlight(e)) + Cardinality(R)
    <2>1. IsFiniteSet(InFlight(e) \cap R) /\ Cardinality(InFlight(e) \cap R) \in Nat
      BY <1>1, Finite
    <2>2. Cardinality(InFlight(e) \cup R)
            = Cardinality(InFlight(e)) + Cardinality(R) - Cardinality(InFlight(e) \cap R)
      BY <1>1, CardinalsAreNat, FS_Union
    <2> QED BY <1>1, <1>5, <2>1, <2>2, CardinalsAreNat
  <1>7. /\ Room(e) <= MaxWorkers - Cardinality(InFlight(e))
        /\ stop[e] # NoStop =>
             Room(e) <= stop[e] - Cardinality(executed[e]) - Cardinality(InFlight(e))
    BY CardinalsAreNat DEF Room
  <1>8. stop' = stop /\ executed' = executed
    BY DEF FillAndWait
  <1>9. Cardinality(InFlight(e)') \in Nat
    <2>1. InFlight(e) \cup R \in SUBSET Tasks
      BY <1>1, CardinalsAreNat
    <2> QED BY <1>5, <2>1, Finite
  <1> HIDE DEF R
  <1> QED BY <1>1, <1>2, <1>3, <1>6, <1>7, <1>8, <1>9, CardinalsAreNat DEF Bounded

LEMMA RecordBounded ==
  ASSUME TypeOK, NEW e \in Executors, Bounded(e), BatchIsHeld(e), NEW n \in Tasks, Record(e, n)
  PROVE  Bounded(e)'
  <1>1. n \in InFlight(e)
    <2>1. batch[e] \in SUBSET Nat /\ batch[e] # {} /\ n = Least(batch[e])
      BY TasksAssumption DEF Record, Pops, TypeOK
    <2> QED BY <2>1, LeastIsIn DEF BatchIsHeld, InFlight
  <1>2. /\ InFlight(e)' = InFlight(e) \ {n}
        /\ executed'[e] = executed[e] \cup {n}
        /\ stop' = stop
    BY DEF Record, Popped, TypeOK, InFlight
  <1>3. Cardinality(InFlight(e)') = Cardinality(InFlight(e)) - 1
    BY <1>1, <1>2, CardinalsAreNat, FS_RemoveElement
  <1>4. Cardinality(executed'[e]) \in {Cardinality(executed[e]), Cardinality(executed[e]) + 1}
    BY <1>2, CardinalsAreNat, FS_AddElement
  <1> QED BY <1>2, <1>3, <1>4, CardinalsAreNat DEF Bounded

\* Nobody else touches what a call of run() keeps to itself.
LEMMA OthersLeaveItAlone ==
  ASSUME TypeOK, NEW e \in Executors, NEW d \in Executors, d # e,
         \/ Step(d) \/ Plan(d) \/ Cancelled(d) \/ \E limit \in Stops : Begin(d, limit)
         \/ \E n \in Tasks, o \in Done : WorkerEnds(d, n, o)
  PROVE  /\ pc'[e] = pc[e] /\ stop'[e] = stop[e] /\ future'[e] = future[e]
         /\ batch'[e] = batch[e] /\ executed'[e] = executed[e]
  <1>1. ASSUME Step(d) PROVE /\ pc'[e] = pc[e] /\ stop'[e] = stop[e] /\ future'[e] = future[e]
                             /\ batch'[e] = batch[e] /\ executed'[e] = executed[e]
    BY <1>1 DEF TypeOK, Step, Replay, FillAndWait, WaitOrReturn, Wake, EndBatch, Discard, Record,
                RecordRefused, Raises, Leaves, Pops, Popped, Moves
  <1>2. ASSUME Plan(d) \/ Cancelled(d)
        PROVE /\ pc'[e] = pc[e] /\ stop'[e] = stop[e] /\ future'[e] = future[e]
              /\ batch'[e] = batch[e] /\ executed'[e] = executed[e]
    BY <1>2 DEF TypeOK, Plan, PlanApplied, PlanRefused, Raises, Cancelled, Leaves,
                CancelGraphCancelled, Moves
  <1>3. ASSUME NEW limit \in Stops, Begin(d, limit)
        PROVE /\ pc'[e] = pc[e] /\ stop'[e] = stop[e] /\ future'[e] = future[e]
              /\ batch'[e] = batch[e] /\ executed'[e] = executed[e]
    BY <1>3 DEF TypeOK, Begin, Moves
  <1>4. ASSUME NEW n \in Tasks, NEW o \in Done, WorkerEnds(d, n, o)
        PROVE /\ pc'[e] = pc[e] /\ stop'[e] = stop[e] /\ future'[e] = future[e]
              /\ batch'[e] = batch[e] /\ executed'[e] = executed[e]
    BY <1>4 DEF TypeOK, WorkerEnds
  <1> QED BY <1>1, <1>2, <1>3, <1>4

LEMMA OwnStepWithinCapacity ==
  ASSUME TypeOK, NEW e \in Executors, Capacity(e), Step(e) \/ Plan(e) \/ Cancelled(e)
  PROVE  Capacity(e)'
  <1> USE DEF Capacity
  <1>0. batch[e] \in SUBSET Tasks
    BY DEF TypeOK
  <1>1. ASSUME stop'[e] = stop[e], executed'[e] = executed[e],
               \A n \in Tasks : future[e][n] = "none" => future'[e][n] = "none"
        PROVE  Bounded(e)'
    BY <1>1, FewerIsBounded
  <1>2. CASE Replay(e)
    <2>1. /\ pc[e] = "replay" /\ stop' = stop /\ executed' = executed /\ future' = future
          /\ batch' = batch
      BY <1>2 DEF Replay
    <2> QED BY <1>1, <2>1 DEF IdleHoldsNothing, BatchIsHeld, InMainLoop
  <1>3. CASE FillAndWait(e)
    <2>1. /\ pc'[e] = "waiting" /\ batch' = batch
          /\ \A n \in Tasks : future[e][n] # "none" => future'[e][n] # "none"
      BY <1>3 DEF FillAndWait, Moves, TypeOK
    <2> QED BY <1>0, <1>3, <2>1, FillBounded DEF IdleHoldsNothing, BatchIsHeld, InMainLoop
  <1>4. CASE WaitOrReturn(e)
    <2>1. /\ pc'[e] \in {"waiting", "returned"} /\ future' = future /\ batch' = batch
          /\ pc'[e] = "returned" => InFlight(e) = {}
          /\ stop' = stop /\ executed' = executed
      BY <1>4 DEF WaitOrReturn, Moves, TypeOK
    <2> QED BY <1>1, <2>1 DEF IdleHoldsNothing, BatchIsHeld, InMainLoop, InFlight
  <1>5. CASE Wake(e)
    <2>1. /\ pc'[e] = "batch" /\ future' = future /\ stop' = stop /\ executed' = executed
          /\ \A n \in batch'[e] : future[e][n] # "none"
      BY <1>5 DEF Wake, Moves, TypeOK, Done
    <2> QED BY <1>1, <2>1 DEF IdleHoldsNothing, BatchIsHeld, InMainLoop
  <1>6. CASE EndBatch(e)
    <2>1. /\ pc'[e] = "fill" /\ batch' = batch /\ stop' = stop /\ executed' = executed
          /\ \A n \in Tasks : future'[e][n] = "none" <=> future[e][n] = "none"
      BY <1>6 DEF EndBatch, Moves, TypeOK
    <2> QED BY <1>0, <1>1, <2>1 DEF IdleHoldsNothing, BatchIsHeld, InMainLoop
  <1>7. ASSUME NEW n \in Tasks, Discard(e, n) PROVE Capacity(e)'
    <2>1. /\ pc'[e] = "batch" /\ batch'[e] = batch[e] \ {n} /\ stop' = stop
          /\ executed' = executed
          /\ \A m \in Tasks : future'[e][m] = (IF m = n THEN "none" ELSE future[e][m])
      BY <1>7 DEF Discard, Pops, Popped, Moves, TypeOK
    <2> QED BY <1>0, <1>1, <2>1 DEF IdleHoldsNothing, BatchIsHeld, InMainLoop
  <1>8. ASSUME NEW n \in Tasks, Record(e, n) PROVE Capacity(e)'
    <2>1. /\ pc'[e] = "planning" /\ batch'[e] = batch[e] \ {n}
          /\ \A m \in Tasks : future'[e][m] = (IF m = n THEN "none" ELSE future[e][m])
      BY <1>8 DEF Record, Pops, Popped, Moves, TypeOK
    <2> QED BY <1>0, <1>8, <2>1, RecordBounded DEF IdleHoldsNothing, BatchIsHeld, InMainLoop
  <1>9. CASE Raises(e) \/ Cancelled(e)
    <2>1. /\ batch'[e] = {} /\ stop' = stop /\ executed' = executed
          /\ \A n \in Tasks : future'[e][n] = "none"
      BY <1>9 DEF Raises, Cancelled, Leaves, NoFutures, TypeOK
    <2> QED BY <1>1, <2>1 DEF IdleHoldsNothing, BatchIsHeld
  <1>10. ASSUME NEW p \in Patches, PlanApplied(e, p) PROVE Capacity(e)'
    <2>0. stop' = stop /\ executed' = executed
      BY <1>10 DEF PlanApplied
    <2>1. CASE pc[e] = "replanning" /\ UNCHANGED <<future, batch>>
      BY <1>1, <2>0, <2>1 DEF IdleHoldsNothing, BatchIsHeld, InMainLoop
    <2>2. CASE Moves(e, "batch") /\ future' = CancelGraphCancelled(e) /\ batch' = batch
      <3>1. /\ pc'[e] = "batch"
            /\ \A n \in Tasks : future'[e][n] = "none" <=> future[e][n] = "none"
        BY <2>2 DEF CancelGraphCancelled, Moves, TypeOK
      <3> QED BY <1>0, <1>1, <2>0, <2>2, <3>1 DEF IdleHoldsNothing, BatchIsHeld, InMainLoop
    <2>3. CASE future' = [future EXCEPT ![e] = NoFutures] /\ batch' = [batch EXCEPT ![e] = {}]
      <3>1. batch'[e] = {} /\ \A n \in Tasks : future'[e][n] = "none"
        BY <2>3 DEF NoFutures, TypeOK
      <3> QED BY <1>1, <2>0, <3>1 DEF IdleHoldsNothing, BatchIsHeld
    <2> QED BY <1>10, <2>1, <2>2, <2>3 DEF PlanApplied
  <1> QED BY <1>2, <1>3, <1>4, <1>5, <1>6, <1>7, <1>8, <1>9, <1>10
          DEF Step, Plan, RecordRefused, PlanRefused

\* A call starts with nothing in flight and nothing executed.
LEMMA FreshIsBounded ==
  ASSUME NEW e \in Executors, TypeOK', \A n \in Tasks : future'[e][n] = "none",
         executed'[e] = {}
  PROVE  Bounded(e)'
  <1>1. InFlight(e)' = {}
    BY DEF InFlight
  <1>2. Cardinality(InFlight(e)') = 0 /\ Cardinality(executed'[e]) = 0
    BY <1>1, FS_EmptySet
  <1>3. stop'[e] \in Nat \cup {NoStop} /\ MaxWorkers \in Nat
    BY ExecutorAssumption DEF TypeOK
  <1> QED BY <1>2, <1>3 DEF Bounded

LEMMA CapacityStep ==
  ASSUME TypeOK, TypeOK', NEW e \in Executors, Capacity(e), [Next]_vars
  PROVE  Capacity(e)'
  <1>1. ASSUME /\ pc'[e] = pc[e] /\ stop'[e] = stop[e] /\ future'[e] = future[e]
               /\ batch'[e] = batch[e] /\ executed'[e] = executed[e]
        PROVE  Capacity(e)'
    BY <1>1, FewerIsBounded DEF Capacity, IdleHoldsNothing, BatchIsHeld, InMainLoop
  <1>2. ASSUME NEW d \in Executors, Step(d) \/ Plan(d) \/ Cancelled(d) PROVE Capacity(e)'
    BY <1>1, <1>2, OwnStepWithinCapacity, OthersLeaveItAlone
  <1>3. ASSUME NEW d \in Executors, NEW limit \in Stops, Begin(d, limit) PROVE Capacity(e)'
    <2>1. CASE d = e
      <3>1. /\ pc[e] \in Ended /\ pc'[e] = "replay" /\ future' = future /\ batch' = batch
            /\ executed'[e] = {}
        BY <1>3, <2>1 DEF Begin, Moves, TypeOK
      <3>2. \A n \in Tasks : future'[e][n] = "none"
        BY <3>1 DEF Capacity, IdleHoldsNothing, InMainLoop, Ended
      <3> QED BY <3>1, <3>2, FreshIsBounded DEF Capacity, IdleHoldsNothing, BatchIsHeld
    <2>2. CASE d # e
      BY <1>1, <1>3, <2>2, OthersLeaveItAlone
    <2> QED BY <2>1, <2>2
  <1>4. ASSUME NEW d \in Executors, NEW n \in Tasks, NEW o \in Done, WorkerEnds(d, n, o)
        PROVE Capacity(e)'
    <2>1. CASE d = e
      <3>1. /\ pc' = pc /\ batch' = batch /\ stop' = stop /\ executed' = executed
            /\ batch[e] \in SUBSET Tasks
            /\ \A m \in Tasks : future'[e][m] = "none" <=> future[e][m] = "none"
        BY <1>4, <2>1 DEF WorkerEnds, TypeOK, Done
      <3>2. Bounded(e)'
        BY <3>1, FewerIsBounded DEF Capacity
      <3> QED BY <3>1, <3>2 DEF Capacity, IdleHoldsNothing, BatchIsHeld, InMainLoop
    <2>2. CASE d # e
      BY <1>1, <1>4, <2>2, OthersLeaveItAlone
    <2> QED BY <2>1, <2>2
  <1>5. ASSUME (\E n \in Tasks : OrphanEnds(n)) \/ UNCHANGED vars PROVE Capacity(e)'
    BY <1>1, <1>5 DEF OrphanEnds, vars, execVars
  <1>6. CASE Crash
    <2>1. batch'[e] = {} /\ executed'[e] = {} /\ \A n \in Tasks : future'[e][n] = "none"
      BY <1>6 DEF Crash, ForgetAll, NoFutures
    <2> QED BY <2>1, FreshIsBounded DEF Capacity, IdleHoldsNothing, BatchIsHeld
  <1> QED BY <1>2, <1>3, <1>4, <1>5, <1>6 DEF Next

LEMMA CapacityInit ==
  ASSUME Init, NEW e \in Executors
  PROVE  Capacity(e)
  <1>1. batch[e] = {} /\ executed[e] = {} /\ \A n \in Tasks : future[e][n] = "none"
    BY DEF Init, NoFutures
  <1>2. InFlight(e) = {}
    BY <1>1 DEF InFlight
  <1>3. Cardinality(InFlight(e)) = 0 /\ Cardinality(executed[e]) = 0
    BY <1>1, <1>2, FS_EmptySet
  <1>4. stop[e] \in Nat \cup {NoStop} /\ MaxWorkers \in Nat
    BY ExecInit, CardinalsAreNat
  <1> QED BY <1>1, <1>3, <1>4 DEF Capacity, IdleHoldsNothing, BatchIsHeld, Bounded

\* No call of run() ever has more workers than slots, nor so many that its test stop
\* could be overrun, however many calls overlap.
THEOREM CapacityHolds == Spec => []WithinCapacity
  <1> DEFINE CInv == TypeOK /\ Plannable /\ \A e \in Executors : Capacity(e)
  <1>1. Init => CInv
    <2> SUFFICES ASSUME Init PROVE CInv
      OBVIOUS
    <2>1. TypeOK /\ Plannable
      BY ExecInit
    <2>2. \A e \in Executors : Capacity(e)
      BY CapacityInit
    <2> QED BY <2>1, <2>2
  <1>2. CInv /\ [Next]_vars => CInv'
    BY ExecStep, CapacityStep
  <1>3. CInv => WithinCapacity
    BY DEF Capacity, Bounded, WithinCapacity
  <1> QED BY <1>1, <1>2, <1>3, PTL DEF Spec

-----------------------------------------------------------------------------
(* Overlapping calls: duplicated work, but no running row without a worker.  *)

\* No transaction removes a task.
LEMMA NodesStay ==
  ASSUME StoreTypeOK, [StoreNext]_storeVars, NEW n \in Tasks, node[n] # "absent"
  PROVE  node'[n] # "absent"
  <1>1. ASSUME NEW p \in Patches, NEW t \in Triggers, ApplyPatch(p, t) PROVE node'[n] # "absent"
    <2>1. p \in PatchType /\ Acceptable(p, Graph) /\ node[n] \in NodeState \cup {"absent"}
      BY <1>1, PatchesAssumption DEF ApplyPatch, StoreTypeOK
    <2> QED BY <1>1, <2>1, PatchedNode DEF ApplyPatch
  <1>2. ASSUME NEW o \in {"succeeded", "failed"}, NEW m \in Tasks, RecordOutcome(m, o)
        PROVE  node'[n] # "absent"
    BY <1>2 DEF RecordOutcome, StoreTypeOK
  <1>3. ASSUME NEW limit \in 1 .. Cardinality(Tasks), Launch(limit) PROVE node'[n] # "absent"
    BY <1>3 DEF Launch
  <1>4. ASSUME Start \/ Resume \/ (\E m \in Tasks : RecordExternalEvent(m)) \/ UNCHANGED storeVars
        PROVE  node'[n] # "absent"
    BY <1>4 DEF Start, Resume, Requeued, RecordExternalEvent, storeVars
  <1> QED BY <1>1, <1>2, <1>3, <1>4 DEF StoreNext

SettledStates == {"succeeded", "failed", "cancelled"}

\* The rows of a task are settled before its coroutine is cancelled, by whichever call
\* of run() that was.
ObsoleteIsSettled(e) ==
  \A n \in Tasks :
    /\ future[e][n] # "none" => node[n] # "absent"
    /\ future[e][n] \in {"cancelling", "cancelled"} => node[n] \in SettledStates

\* A future that was not there is only put there for a task that runs, and one is only
\* cancelled for a task that is settled.
LEMMA FutureStep ==
  ASSUME TypeOK, FinishedIsQuiet, NEW e \in Executors, ObsoleteIsSettled(e),
         \/ Step(e) \/ Plan(e) \/ Cancelled(e) \/ \E limit \in Stops : Begin(e, limit)
         \/ \E m \in Tasks, o \in Done : WorkerEnds(e, m, o),
         NEW n \in Tasks
  PROVE  /\ future'[e][n] # "none" => future[e][n] # "none" \/ node'[n] # "absent"
         /\ future'[e][n] \in {"cancelling", "cancelled"} =>
              \/ future[e][n] \in {"cancelling", "cancelled"}
              \/ node[n] \in SettledStates \/ node'[n] \in SettledStates
  <1> DEFINE Goal ==
        /\ future'[e][n] # "none" => future[e][n] # "none" \/ node'[n] # "absent"
        /\ future'[e][n] \in {"cancelling", "cancelled"} =>
              \/ future[e][n] \in {"cancelling", "cancelled"}
              \/ node[n] \in SettledStates \/ node'[n] \in SettledStates
  <1> SUFFICES Goal
    OBVIOUS
  <1>1. ASSUME Replay(e) \/ WaitOrReturn(e) \/ Wake(e) \/ \E limit \in Stops : Begin(e, limit)
        PROVE  Goal
    BY <1>1 DEF Replay, WaitOrReturn, Wake, Begin
  <1>2. CASE FillAndWait(e)
    <2> DEFINE R == ReadyUpTo(Room(e))
    <2>1. /\ future' = [future EXCEPT ![e] = [m \in Tasks |-> IF m \in R THEN "running" ELSE @[m]]]
          /\ node' = [m \in Tasks |-> IF m \in R THEN "running" ELSE node[m]]
      BY <1>2 DEF FillAndWait, Launch
    <2> HIDE DEF R
    <2>2. /\ future'[e][n] = (IF n \in R THEN "running" ELSE future[e][n])
          /\ n \in R => node'[n] = "running"
      BY <2>1 DEF TypeOK
    <2> QED BY <2>2
  <1>3. CASE EndBatch(e)
    <2>1. future'[e][n] = (IF run = "finished" /\ future[e][n] = "running" THEN "cancelling"
                           ELSE future[e][n])
      BY <1>3 DEF EndBatch, TypeOK
    <2>2. run = "finished" /\ node[n] # "absent" => node[n] \in SettledStates
      BY DEF FinishedIsQuiet, TypeOK, StoreTypeOK, NodeState, SettledStates
    <2> QED BY <2>1, <2>2 DEF ObsoleteIsSettled
  <1>4. ASSUME NEW m \in Tasks, Discard(e, m) \/ Record(e, m) PROVE Goal
    <2>1. future'[e][n] = (IF n = m THEN "none" ELSE future[e][n])
      BY <1>4 DEF Discard, Record, Popped, TypeOK
    <2> QED BY <2>1
  <1>5. CASE Raises(e) \/ Cancelled(e)
    BY <1>5 DEF Raises, Cancelled, Leaves, NoFutures, TypeOK
  <1>6. ASSUME NEW p \in Patches, PlanApplied(e, p) PROVE Goal
    <2>1. CASE future' = future
      BY <2>1
    <2>2. CASE future' = CancelGraphCancelled(e)
      <3>1. future'[e][n] = (IF future[e][n] = "running" /\ node'[n] = "cancelled"
                             THEN "cancelling" ELSE future[e][n])
        BY <2>2 DEF CancelGraphCancelled, TypeOK
      <3> QED BY <3>1 DEF SettledStates
    <2>3. CASE future' = [future EXCEPT ![e] = NoFutures]
      BY <2>3 DEF NoFutures, TypeOK
    <2> QED BY <1>6, <2>1, <2>2, <2>3 DEF PlanApplied
  <1>7. ASSUME NEW m \in Tasks, NEW o \in Done, WorkerEnds(e, m, o) PROVE Goal
    <2>1. future'[e][n] = (IF n = m THEN o ELSE future[e][n])
      BY <1>7 DEF WorkerEnds, TypeOK
    <2>2. /\ future[e][m] # "none" /\ o # "cancelling"
          /\ o = "cancelled" => future[e][m] = "cancelling"
      BY <1>7 DEF WorkerEnds, Done
    <2> QED BY <2>1, <2>2
  <1> QED BY <1>1, <1>2, <1>3, <1>4, <1>5, <1>6, <1>7
          DEF Step, Plan, RecordRefused, PlanRefused

LEMMA ObsoleteStep ==
  ASSUME TypeOK, Plannable, FinishedIsQuiet, NEW e \in Executors, ObsoleteIsSettled(e),
         [Next]_vars
  PROVE  ObsoleteIsSettled(e)'
  <1>0. StoreTypeOK /\ [StoreNext]_storeVars
    BY StepIsTransaction DEF TypeOK
  <1>1. ASSUME NEW n \in Tasks
        PROVE  /\ node[n] \in SettledStates => node'[n] \in SettledStates
               /\ node[n] # "absent" => node'[n] # "absent"
    BY <1>0, SettledStep, NodesStay DEF SettledStates
  <1>2. ASSUME future'[e] = future[e] PROVE ObsoleteIsSettled(e)'
    BY <1>1, <1>2 DEF ObsoleteIsSettled
  <1>3. ASSUME \/ Step(e) \/ Plan(e) \/ Cancelled(e) \/ \E limit \in Stops : Begin(e, limit)
               \/ \E m \in Tasks, o \in Done : WorkerEnds(e, m, o)
        PROVE  ObsoleteIsSettled(e)'
    <2> SUFFICES ASSUME NEW n \in Tasks
                 PROVE  /\ future'[e][n] # "none" => node'[n] # "absent"
                        /\ future'[e][n] \in {"cancelling", "cancelled"}
                             => node'[n] \in SettledStates
      BY DEF ObsoleteIsSettled
    <2> QED BY <1>1, <1>3, FutureStep DEF ObsoleteIsSettled
  <1>4. ASSUME NEW d \in Executors, d # e,
               \/ Step(d) \/ Plan(d) \/ Cancelled(d) \/ \E limit \in Stops : Begin(d, limit)
               \/ \E n \in Tasks, o \in Done : WorkerEnds(d, n, o)
        PROVE  ObsoleteIsSettled(e)'
    BY <1>2, <1>4, OthersLeaveItAlone
  <1>5. ASSUME (\E n \in Tasks : OrphanEnds(n)) \/ UNCHANGED vars PROVE ObsoleteIsSettled(e)'
    BY <1>2, <1>5 DEF OrphanEnds, vars, execVars
  <1>6. CASE Crash
    BY <1>6 DEF Crash, ForgetAll, NoFutures, ObsoleteIsSettled
  <1> QED BY <1>3, <1>4, <1>5, <1>6 DEF Next

\* The test stop returns with nothing in flight.
LEMMA StopLeavesNothing ==
  ASSUME TypeOK, NEW e \in Executors, Capacity(e), StopReached(e)
  PROVE  \A n \in Tasks : future[e][n] = "none"
  <1>1. Cardinality(InFlight(e)) = 0
    BY CardinalsAreNat DEF Capacity, Bounded, StopReached
  <1>2. InFlight(e) = {}
    BY <1>1, CardinalsAreNat, FS_EmptySet
  <1> QED BY <1>2 DEF InFlight

Held(n) == \E e \in Executors : future[e][n] # "none"

\* What a step of one call does to the running rows and to who holds them.
LEMMA HeldStep ==
  ASSUME TypeOK, RowsNeedRun, NEW e \in Executors, Capacity(e), ObsoleteIsSettled(e),
         \/ Step(e) \/ Plan(e) \/ Cancelled(e) \/ \E limit \in Stops : Begin(e, limit)
         \/ \E m \in Tasks, o \in Done : WorkerEnds(e, m, o),
         pc'[e] \notin {"raised", "cancelled"},
         NEW n \in Tasks, node'[n] = "running"
  PROVE  /\ node[n] # "running" => future'[e][n] # "none"
         /\ future[e][n] # "none" => future'[e][n] # "none"
         /\ pc[e] \notin {"raised", "cancelled"}
  <1> DEFINE Goal == /\ node[n] # "running" => future'[e][n] # "none"
                     /\ future[e][n] # "none" => future'[e][n] # "none"
                     /\ pc[e] \notin {"raised", "cancelled"}
  <1> SUFFICES Goal
    OBVIOUS
  <1>1. ASSUME Replay(e) \/ WaitOrReturn(e) \/ Wake(e) PROVE Goal
    BY <1>1 DEF Replay, WaitOrReturn, Wake, storeVars
  <1>2. CASE FillAndWait(e)
    <2> DEFINE R == ReadyUpTo(Room(e))
    <2>1. /\ future' = [future EXCEPT ![e] = [m \in Tasks |-> IF m \in R THEN "running" ELSE @[m]]]
          /\ node' = [m \in Tasks |-> IF m \in R THEN "running" ELSE node[m]]
      BY <1>2 DEF FillAndWait, Launch
    <2> HIDE DEF R
    <2>2. /\ future'[e][n] = (IF n \in R THEN "running" ELSE future[e][n])
          /\ n \notin R => node'[n] = node[n]
      BY <2>1 DEF TypeOK
    <2> QED BY <1>2, <2>2 DEF FillAndWait
  <1>3. CASE EndBatch(e)
    <2>1. /\ future'[e][n] = (IF run = "finished" /\ future[e][n] = "running" THEN "cancelling"
                              ELSE future[e][n])
          /\ node' = node /\ pc[e] = "batch"
      BY <1>3 DEF EndBatch, TypeOK, storeVars
    <2> QED BY <2>1
  <1>4. ASSUME NEW m \in Tasks, Discard(e, m) PROVE Goal
    <2>1. /\ future'[e][n] = (IF n = m THEN "none" ELSE future[e][n])
          /\ node' = node /\ pc[e] = "batch"
      BY <1>4 DEF Discard, Pops, Popped, TypeOK, storeVars
    <2>2. node[m] # "running"
      BY <1>4 DEF Discard, Discarded, ObsoleteIsSettled, SettledStates
    <2> QED BY <2>1, <2>2
  <1>5. ASSUME NEW m \in Tasks, Record(e, m) PROVE Goal
    <2>1. /\ future'[e][n] = (IF n = m THEN "none" ELSE future[e][n])
          /\ pc[e] = "batch"
      BY <1>5 DEF Record, Pops, Popped, TypeOK
    <2>2. /\ node'[m] \in {"succeeded", "failed"}
          /\ n # m => node'[n] = node[n]
      BY <1>5 DEF Record, RecordOutcome, TypeOK, StoreTypeOK
    <2> QED BY <2>1, <2>2
  <1>6. CASE Raises(e) \/ Cancelled(e)
    BY <1>6 DEF Raises, Cancelled, Leaves, Moves, TypeOK
  <1>7. ASSUME NEW p \in Patches, PlanApplied(e, p) PROVE Goal
    <2>1. node[n] = "running" /\ pc[e] \notin {"raised", "cancelled"}
      BY <1>7, PatchedRows DEF PlanApplied, Answers, TypeOK
    <2>2. CASE future' = future
      BY <2>1, <2>2
    <2>3. CASE future' = CancelGraphCancelled(e)
      <3>1. future'[e][n] = (IF future[e][n] = "running" /\ node'[n] = "cancelled"
                             THEN "cancelling" ELSE future[e][n])
        BY <2>3 DEF CancelGraphCancelled, TypeOK
      <3> QED BY <2>1, <3>1
    <2>4. CASE StopReached(e)
      BY <2>1, <2>4, StopLeavesNothing
    <2> QED BY <1>7, <2>2, <2>3, <2>4 DEF PlanApplied
  <1>8. ASSUME NEW m \in Tasks, NEW o \in Done, WorkerEnds(e, m, o) PROVE Goal
    <2>1. /\ future'[e][n] = (IF n = m THEN o ELSE future[e][n])
          /\ o # "none" /\ node' = node /\ pc'[e] = pc[e]
      BY <1>8 DEF WorkerEnds, TypeOK, storeVars, Done
    <2> QED BY <2>1
  <1>9. ASSUME NEW limit \in Stops, Begin(e, limit) PROVE Goal
    <2>1. node'[n] # "running"
      BY <1>9 DEF Begin, Start, Resume, Requeued, RowsNeedRun
    <2> QED BY <2>1
  <1> QED BY <1>1, <1>2, <1>3, <1>4, <1>5, <1>6, <1>7, <1>8, <1>9
          DEF Step, Plan, RecordRefused, PlanRefused

HeldInv ==
  /\ TypeOK /\ Plannable /\ FinishedIsQuiet /\ RowsNeedRun
  /\ \A e \in Executors : Capacity(e) /\ ObsoleteIsSettled(e)
  /\ RunningIsHeld

LEMMA HeldKept ==
  ASSUME HeldInv, TypeOK', [Next]_vars
  PROVE  RunningIsHeld'
  <1> SUFFICES ASSUME crashes' = 0,
                      \A e \in Executors : pc'[e] \notin {"raised", "cancelled"},
                      NEW n \in Tasks, node'[n] = "running"
               PROVE  Held(n)'
    BY DEF RunningIsHeld, Held, InFlight
  <1>1. ASSUME crashes = 0, \A e \in Executors : pc[e] \notin {"raised", "cancelled"},
               node[n] = "running"
        PROVE  Held(n)
    BY <1>1 DEF HeldInv, RunningIsHeld, Held, InFlight
  <1>2. ASSUME NEW d \in Executors,
               \/ Step(d) \/ Plan(d) \/ Cancelled(d) \/ \E limit \in Stops : Begin(d, limit)
               \/ \E m \in Tasks, o \in Done : WorkerEnds(d, m, o)
        PROVE  Held(n)'
    <2>1. \A e \in Executors \ {d} : pc'[e] = pc[e] /\ future'[e] = future[e]
      BY <1>2, OthersLeaveItAlone DEF HeldInv
    <2>2. /\ node[n] # "running" => future'[d][n] # "none"
          /\ future[d][n] # "none" => future'[d][n] # "none"
          /\ pc[d] \notin {"raised", "cancelled"}
      BY <1>2, HeldStep DEF HeldInv
    <2>3. \A e \in Executors : pc[e] \notin {"raised", "cancelled"}
      BY <2>1, <2>2
    <2>4. crashes = 0
      <3>1. crashes' = crashes
        BY <1>2 DEF Step, Plan, Begin, WorkerEnds, Replay, FillAndWait, WaitOrReturn, Wake,
                    EndBatch, Discard, Record, RecordRefused, PlanApplied, PlanRefused, Raises,
                    Cancelled, Leaves
      <3> QED BY <3>1
    <2>5. CASE node[n] = "running"
      <3>1. PICK e \in Executors : future[e][n] # "none"
        BY <1>1, <2>3, <2>4, <2>5 DEF Held
      <3> QED BY <2>1, <2>2, <3>1 DEF Held
    <2> QED BY <2>2, <2>5 DEF Held
  <1>3. ASSUME (\E m \in Tasks : OrphanEnds(m)) \/ UNCHANGED vars PROVE Held(n)'
    <2>1. pc' = pc /\ future' = future /\ node' = node /\ crashes' = crashes
      BY <1>3 DEF OrphanEnds, vars, execVars, storeVars
    <2> QED BY <1>1, <2>1 DEF Held
  <1>4. ASSUME Crash PROVE FALSE
    BY <1>4 DEF Crash, HeldInv, TypeOK
  <1> QED BY <1>2, <1>3, <1>4 DEF Next

\* However many calls of run() overlap, a row is left running without a worker only by a
\* call that raised or was cancelled, or a process that died (core.py:100-102, 128-129):
\* resuming a live run duplicates work and strands none of it.
THEOREM OverlappingCallsStrandNothing == Spec => []RunningIsHeld
  <1>1. Init => HeldInv
    <2> SUFFICES ASSUME Init PROVE HeldInv
      OBVIOUS
    <2>1. TypeOK /\ Plannable /\ FinishedIsQuiet /\ RowsNeedRun
      BY ExecInit, QuietInit, CoherentInit
    <2>2. \A e \in Executors : ObsoleteIsSettled(e)
      BY DEF Init, NoFutures, ObsoleteIsSettled
    <2>3. \A e \in Executors : Capacity(e)
      BY CapacityInit
    <2>4. RunningIsHeld
      BY DEF Init, StoreInit, RunningIsHeld
    <2> QED BY <2>1, <2>2, <2>3, <2>4 DEF HeldInv
  <1>2. HeldInv /\ [Next]_vars => HeldInv'
    <2> SUFFICES ASSUME HeldInv, [Next]_vars PROVE HeldInv'
      OBVIOUS
    <2>1. TypeOK' /\ Plannable' /\ StoreTypeOK /\ [StoreNext]_storeVars
      BY ExecStep, StepIsTransaction DEF HeldInv, TypeOK
    <2>2. FinishedIsQuiet' /\ RowsNeedRun'
      BY <2>1, QuietStep, RowsStep DEF HeldInv
    <2>3. ASSUME NEW e \in Executors PROVE Capacity(e)' /\ ObsoleteIsSettled(e)'
      BY <2>1, CapacityStep, ObsoleteStep DEF HeldInv
    <2>4. RunningIsHeld'
      BY <2>1, HeldKept
    <2> QED BY <2>1, <2>2, <2>3, <2>4 DEF HeldInv
  <1>3. HeldInv => RunningIsHeld
    BY DEF HeldInv
  <1> QED BY <1>1, <1>2, <1>3, PTL DEF Spec

-----------------------------------------------------------------------------
(* One call of run() at a time: at most one event has not been planned for.  *)

\* Nobody but the executors writes to the journal.
NothingExternal == \A t \in DOMAIN journal : journal[t].kind # "external"

JournalNeedsRun == run = "absent" => journal = <<>>

\* The events without a patch, and where the one call of run() stands with them.
Missing == Unplanned(journal)

Behind(e) ==
  /\ pc[e] \in {"fill", "waiting", "batch", "returned"} => Missing = {}
  /\ pc[e] \in {"planning", "replanning"} =>
       run = "open" /\ Missing \subseteq {trigger[e]}
  /\ todo[e] = IF pc[e] = "replay" THEN Missing ELSE {}
  /\ pc[e] = "raised" => run = "open" /\ Missing # {}

Kept ==
  /\ NothingExternal /\ JournalNeedsRun
  /\ \E t \in Nat : Missing \subseteq {t}
  /\ run = "finished" => Missing = {}

\* The entry a transaction appends is missing its patch exactly if the planner is to see it.
LEMMA MissingAfter ==
  ASSUME StoreTypeOK, NEW x \in EntryType, journal' = Append(journal, x)
  PROVE  /\ patched' = patched /\ x.kind \notin PlannerKinds => Missing' = Missing
         /\ patched' = patched => Missing' \subseteq Missing \cup {Len(journal')}
         /\ Len(journal') \in Nat
         /\ \A t : patched' = patched \cup {t} /\ x.kind \notin PlannerKinds
                     => Missing' = Missing \ {t}
         /\ NothingExternal /\ x.kind # "external" => NothingExternal'
  <1>1. journal \in Seq(EntryType)
    BY DEF StoreTypeOK, EntryType
  <1>2. PICK L : L = Len(journal')
    OBVIOUS
  <1>3. /\ DOMAIN journal' = DOMAIN journal \cup {L} /\ L \notin DOMAIN journal
        /\ \A t \in DOMAIN journal : journal'[t] = journal[t]
        /\ journal'[L] = x /\ L \in Nat
    BY <1>1, <1>2, Appended
  <1>4. \A t \in DOMAIN journal' : t = L \/ t \in DOMAIN journal
    BY <1>3
  <1> QED BY <1>2, <1>3, <1>4 DEF Missing, Unplanned, NothingExternal

\* A transaction that is no patch and that the planner is not to see.
LEMMA QuietEntry ==
  ASSUME StoreTypeOK, Kept, NEW x \in EntryType, journal' = Append(journal, x),
         x.kind \notin PlannerKinds \cup {"external"}, patched' = patched, run' = run,
         run # "absent"
  PROVE  Kept' /\ Missing' = Missing
  <1>1. Missing' = Missing /\ NothingExternal'
    BY MissingAfter DEF Kept
  <1> QED BY <1>1 DEF Kept, JournalNeedsRun

\* The planner events are what the executors plan for.
LEMMA MissingAreTriggers ==
  ASSUME Kept, NEW t \in Triggers, t \notin patched
  PROVE  t \in Missing
BY DEF Triggers, Kept, NothingExternal, Missing, Unplanned

\* The outcome of a task that was being waited for is the one missing event.
LEMMA OutcomeIsMissing ==
  ASSUME StoreTypeOK, FinishedIsQuiet, RowsNeedRun, Kept, Missing = {}, NEW n \in Tasks,
         NEW o \in {"succeeded", "failed"}, RecordOutcome(n, o)
  PROVE  Kept' /\ run' = "open" /\ Missing' \subseteq {Len(journal')}
  <1> DEFINE x == Entry(OutcomeKind(o), {n}, NoPatch)
  <1>1. x \in EntryType /\ journal' = Append(journal, x)
    BY Appends
  <1>2. run = "open" /\ run' = run /\ patched' = patched
    BY DEF RecordOutcome, CanRecord, FinishedIsQuiet, RowsNeedRun, Live, StoreTypeOK
  <1>3. x.kind # "external"
    BY DEF Entry, OutcomeKind
  <1> HIDE DEF x
  <1>4. Missing' \subseteq {Len(journal')} /\ Len(journal') \in Nat /\ NothingExternal'
    BY <1>1, <1>2, <1>3, MissingAfter DEF Kept
  <1> QED BY <1>2, <1>4 DEF Kept, JournalNeedsRun

\* The patch of the one missing event leaves none missing.
LEMMA PatchCatchesUp ==
  ASSUME StoreTypeOK, Kept, run = "open", NEW t \in Triggers, Missing \subseteq {t},
         NEW p \in Patches, Patched(p, t)
  PROVE  Kept' /\ Missing' = {}
  <1>1. CASE t \in patched
    <2>1. UNCHANGED storeVars
      BY <1>1 DEF Patched
    <2>2. Missing = {}
      BY <1>1 DEF Missing, Unplanned
    <2>3. Missing' = Missing
      BY <2>1 DEF Missing, Unplanned, storeVars
    <2> QED BY <2>1, <2>2, <2>3 DEF Kept, NothingExternal, JournalNeedsRun, storeVars
  <1>2. CASE t \notin patched
    <2> DEFINE x == Entry("graph_patched", CancelledBy(p), p)
    <2>1. ApplyPatch(p, t)
      BY <1>2 DEF Patched
    <2>2. x \in EntryType /\ journal' = Append(journal, x) /\ x.kind = "graph_patched"
      BY <2>1, Appends DEF Entry
    <2>3. patched' = patched \cup {t} /\ run' \in {"open", "finished"}
      BY <2>1 DEF ApplyPatch
    <2> HIDE DEF x
    <2>4. Missing' = Missing \ {t} /\ NothingExternal'
      BY <2>2, <2>3, MissingAfter DEF Kept, PlannerKinds
    <2>5. Missing' = {}
      BY <2>4
    <2> QED BY <2>3, <2>4, <2>5 DEF Kept, JournalNeedsRun
  <1> QED BY <1>1, <1>2

\* Only the one call of run() touches the rows.
LEMMA RowsKept ==
  ASSUME Kept, UNCHANGED storeVars
  PROVE  Kept' /\ Missing' = Missing /\ run' = run
BY DEF Kept, NothingExternal, JournalNeedsRun, Missing, Unplanned, storeVars

\* A step that leaves the rows alone and stays among the places where nothing is missing.
LEMMA StaysCaughtUp ==
  ASSUME Kept, NEW e \in Executors, Behind(e), UNCHANGED storeVars,
         pc[e] \in {"fill", "waiting", "batch", "returned"},
         pc'[e] \in {"fill", "waiting", "batch", "returned"}, todo'[e] = todo[e]
  PROVE  Kept' /\ Behind(e)'
BY RowsKept DEF Behind

LEMMA BeginBehind ==
  ASSUME TypeOK, Kept, NEW e \in Executors, NEW limit \in Stops, Begin(e, limit)
  PROVE  Kept' /\ Behind(e)'
  <1>0. StoreTypeOK
    BY DEF TypeOK
  <1>1. pc'[e] = "replay" /\ todo'[e] = Missing'
    <2>1. PICK U : U = Unplanned(journal')
      OBVIOUS
    <2>2. todo' = [todo EXCEPT ![e] = U] /\ pc' = [pc EXCEPT ![e] = "replay"]
      BY <2>1, Zenon DEF Begin, Moves
    <2>3. Missing' = Unplanned(journal')
      BY DEF Begin, Start, Resume, Missing, Unplanned
    <2> QED BY <2>1, <2>2, <2>3 DEF TypeOK
  <1>2. Kept'
    <2>1. CASE run = "absent"
      <3>1. /\ run' = "open" /\ patched' = patched
            /\ journal' = Append(journal, Entry("run_started", {}, NoPatch))
            /\ Entry("run_started", {}, NoPatch) \in EntryType
        BY <1>0, <2>1, Appends DEF Begin, Start
      <3>2. Missing = {}
        BY <2>1 DEF Kept, JournalNeedsRun, Missing, Unplanned
      <3>3. Entry("run_started", {}, NoPatch).kind # "external"
        BY DEF Entry
      <3>4. Missing' \subseteq {Len(journal')} /\ Len(journal') \in Nat /\ NothingExternal'
        BY <1>0, <3>1, <3>2, <3>3, MissingAfter DEF Kept
      <3> QED BY <3>1, <3>4 DEF Kept, JournalNeedsRun
    <2>2. CASE run # "absent"
      <3>1. /\ run' = run /\ patched' = patched
            /\ journal' = Append(journal, Entry("run_resumed", {}, NoPatch))
            /\ Entry("run_resumed", {}, NoPatch) \in EntryType
        BY <1>0, <2>2, Appends DEF Begin, Resume
      <3>2. Entry("run_resumed", {}, NoPatch).kind \notin PlannerKinds \cup {"external"}
        BY DEF Entry, PlannerKinds
      <3> QED BY <1>0, <2>2, <3>1, <3>2, QuietEntry
    <2> QED BY <2>1, <2>2
  <1> QED BY <1>1, <1>2 DEF Behind

LEMMA ReplayBehind ==
  ASSUME TypeOK, Kept, NEW e \in Executors, Behind(e), Replay(e)
  PROVE  Kept' /\ Behind(e)'
  <1>0. UNCHANGED storeVars /\ todo[e] = Missing /\ todo[e] \in SUBSET Nat
    BY DEF Replay, Behind, TypeOK
  <1>1. Kept' /\ Missing' = Missing /\ run' = run
    BY <1>0, RowsKept
  <1>2. CASE todo[e] = {} \/ run = "finished"
    <2>1. pc'[e] = "fill" /\ Missing = {} /\ todo'[e] = {}
      BY <1>0, <1>2 DEF Replay, Moves, TypeOK, Kept
    <2> QED BY <1>1, <2>1 DEF Behind
  <1>3. CASE ~(todo[e] = {} \/ run = "finished")
    <2>1. /\ pc'[e] = "replanning" /\ trigger'[e] = Least(todo[e])
          /\ todo'[e] = todo[e] \ {Least(todo[e])}
      BY <1>3 DEF Replay, Moves, TypeOK
    <2>2. Least(todo[e]) \in Missing
      BY <1>0, <1>3, LeastIsIn
    <2>3. Missing \subseteq {Least(todo[e])}
      BY <2>2 DEF Kept
    <2>4. run = "open"
      BY <1>3, <2>2 DEF Kept, JournalNeedsRun, Missing, Unplanned, TypeOK, StoreTypeOK
    <2> QED BY <1>0, <1>1, <2>1, <2>3, <2>4 DEF Behind
  <1> QED BY <1>2, <1>3

LEMMA FillBehind ==
  ASSUME TypeOK, RowsNeedRun, Kept, NEW e \in Executors, Behind(e), FillAndWait(e)
  PROVE  Kept' /\ Behind(e)'
  <1>0. StoreTypeOK
    BY DEF TypeOK
  <1>1. pc[e] = "fill" /\ pc'[e] = "waiting" /\ todo' = todo
    BY DEF FillAndWait, Moves, TypeOK
  <1>2. PICK k \in 1 .. Cardinality(Tasks) : Launch(k)
    <2>1. Room(e) \in Nat \ {0} /\ Launch(Room(e))
      BY RoomIsInt DEF FillAndWait, CanLaunch
    <2> QED BY <2>1, LaunchWithinTasks
  <1> DEFINE x == Entry("task_started", ReadyUpTo(k), NoPatch)
  <1>3. x \in EntryType /\ journal' = Append(journal, x) /\ x.kind = "task_started"
    BY <1>0, <1>2, Appends DEF Entry
  <1>4. run' = run /\ patched' = patched /\ run # "absent"
    BY <1>2 DEF Launch, ReadyUpTo, Ready, RowsNeedRun
  <1> HIDE DEF x
  <1>5. Kept' /\ Missing' = Missing
    BY <1>0, <1>3, <1>4, QuietEntry DEF PlannerKinds
  <1> QED BY <1>1, <1>5 DEF Behind

LEMMA RecordBehind ==
  ASSUME TypeOK, FinishedIsQuiet, RowsNeedRun, Kept, NEW e \in Executors, Coherent(e), Behind(e),
         NEW n \in Tasks, Record(e, n)
  PROVE  Kept' /\ Behind(e)'
  <1>1. /\ pc[e] = "batch" /\ pc'[e] = "planning" /\ todo' = todo
        /\ trigger'[e] = Len(journal')
    BY DEF Record, Pops, Moves, TypeOK
  <1>2. Kept' /\ run' = "open" /\ Missing' \subseteq {Len(journal')}
    BY <1>1, OutcomeIsMissing DEF Record, Behind, TypeOK
  <1> QED BY <1>1, <1>2 DEF Behind

LEMMA PlanAppliedBehind ==
  ASSUME TypeOK, Plannable, Kept, NEW e \in Executors, Behind(e), NEW p \in Patches,
         PlanApplied(e, p)
  PROVE  Kept' /\ Behind(e)'
  <1>1. /\ pc[e] \in {"planning", "replanning"} /\ todo' = todo
        /\ pc'[e] \in {"replay", "batch", "returned"}
    BY DEF PlanApplied, Answers, Moves, TypeOK
  <1>2. Kept' /\ Missing' = {}
    BY <1>1, PatchCatchesUp DEF PlanApplied, Behind, Plannable, TypeOK
  <1> QED BY <1>1, <1>2 DEF Behind

LEMMA PlanRefusedBehind ==
  ASSUME TypeOK, Plannable, Kept, NEW e \in Executors, Behind(e), NEW p \in Patches,
         PlanRefused(e, p)
  PROVE  Kept' /\ Behind(e)'
  <1>1. /\ pc[e] \in {"planning", "replanning"} /\ pc'[e] = "raised" /\ UNCHANGED storeVars
        /\ todo'[e] = {}
        /\ trigger[e] \notin patched
    BY DEF PlanRefused, Answers, Raises, Leaves, Moves, TypeOK
  <1>2. trigger[e] \in Missing
    BY <1>1, MissingAreTriggers DEF Plannable
  <1>3. Kept' /\ Missing' = Missing /\ run' = run
    BY <1>1, RowsKept
  <1> QED BY <1>1, <1>2, <1>3 DEF Behind

\* A cancelled call leaves the rows and the journal as they are.
LEMMA CancelledBehind ==
  ASSUME TypeOK, Kept, NEW e \in Executors, Cancelled(e)
  PROVE  Kept' /\ Behind(e)'
  <1>1. UNCHANGED storeVars /\ pc'[e] = "cancelled" /\ todo'[e] = {}
    BY DEF Cancelled, Leaves, Moves, TypeOK
  <1> QED BY <1>1, RowsKept DEF Behind

CaughtUp == Inv /\ Kept /\ \A e \in Executors : Behind(e)

LEMMA BehindInit == Init => Kept /\ \A e \in Executors : Behind(e)
BY DEF Init, StoreInit, Kept, NothingExternal, JournalNeedsRun, Missing, Unplanned, Behind

\* The rows and the call's own place do not move when a worker or an orphan ends.
LEMMA StillBehind ==
  ASSUME Kept, NEW e \in Executors, Behind(e), UNCHANGED storeVars,
         pc'[e] = pc[e], todo'[e] = todo[e], trigger'[e] = trigger[e]
  PROVE  Kept' /\ Behind(e)'
BY RowsKept DEF Behind

LEMMA BehindStep ==
  ASSUME OneCall, CaughtUp, [Next]_vars
  PROVE  Kept' /\ \A e \in Executors : Behind(e)'
  <1>0. /\ TypeOK /\ Plannable /\ FinishedIsQuiet /\ RowsNeedRun /\ Kept
        /\ \A e \in Executors : Coherent(e) /\ Behind(e)
    BY DEF CaughtUp, Inv
  <1> DEFINE Goal(e) == Kept' /\ Behind(e)'
  <1>1. ASSUME NEW e \in Executors, NEW limit \in Stops, Begin(e, limit) PROVE Goal(e)
    BY <1>0, <1>1, BeginBehind
  <1>2. ASSUME NEW e \in Executors, Step(e) PROVE Goal(e)
    <2>1. ASSUME WaitOrReturn(e) \/ Wake(e) \/ EndBatch(e) \/ \E n \in Tasks : Discard(e, n)
          PROVE  Goal(e)
      <3>1. /\ UNCHANGED storeVars /\ todo' = todo
            /\ pc[e] \in {"fill", "waiting", "batch", "returned"}
            /\ pc'[e] \in {"fill", "waiting", "batch", "returned"}
        BY <1>0, <2>1 DEF WaitOrReturn, Wake, EndBatch, Discard, Pops, Moves, TypeOK
      <3> QED BY <1>0, <3>1, StaysCaughtUp
    <2>2. \A n \in Tasks : ~RecordRefused(e, n)
      BY <1>0, OutcomeIsAccepted
    <2> QED BY <1>0, <1>2, <2>1, <2>2, ReplayBehind, FillBehind, RecordBehind DEF Step
  <1>3. ASSUME NEW e \in Executors, Plan(e) PROVE Goal(e)
    BY <1>0, <1>3, PlanAppliedBehind, PlanRefusedBehind DEF Plan
  <1>8. ASSUME NEW e \in Executors, Cancelled(e) PROVE Goal(e)
    BY <1>0, <1>8, CancelledBehind
  <1>4. ASSUME NEW e \in Executors, NEW n \in Tasks, NEW o \in Done, WorkerEnds(e, n, o)
        PROVE  Goal(e)
    BY <1>0, <1>4, StillBehind DEF WorkerEnds
  <1>5. ASSUME NEW e \in Executors, Goal(e) PROVE Kept' /\ \A d \in Executors : Behind(d)'
    BY <1>5 DEF OneCall
  <1> HIDE DEF Goal
  <1>6. ASSUME (\E n \in Tasks : OrphanEnds(n)) \/ UNCHANGED vars
        PROVE  Kept' /\ \A e \in Executors : Behind(e)'
    <2>1. UNCHANGED <<storeVars, pc, todo, trigger>>
      BY <1>6 DEF OrphanEnds, vars, execVars
    <2> QED BY <1>0, <2>1, StillBehind, RowsKept
  <1>7. ASSUME Crash PROVE Kept' /\ \A e \in Executors : Behind(e)'
    <2>1. UNCHANGED storeVars /\ \A e \in Executors : pc'[e] = "off" /\ todo'[e] = {}
      BY <1>7 DEF Crash, ForgetAll
    <2> QED BY <1>0, <2>1, RowsKept DEF Behind
  <1> QED BY <1>1, <1>2, <1>3, <1>4, <1>5, <1>6, <1>7, <1>8 DEF Next

LEMMA CaughtUpInit == Init => CaughtUp
BY InvInit, BehindInit DEF CaughtUp

LEMMA CaughtUpStep == OneCall => (CaughtUp /\ [Next]_vars => CaughtUp')
BY InvStep, BehindStep DEF CaughtUp

\* With one call of run() at a time, whenever the process may die at most one event lacks
\* its patch, so the replay of core.py:109-112 never plans two events in the light of each
\* other's outcome: for any planner, accepted or refused, and any number of crashes.
THEOREM OneEventIsReplayed == ASSUME OneCall PROVE Spec => []OneEventBehind
  <1>1. CaughtUp => OneEventBehind
    <2> SUFFICES ASSUME CaughtUp PROVE OneEventBehind
      OBVIOUS
    <2>1. PICK t \in Nat : Missing \subseteq {t}
      BY DEF CaughtUp, Kept
    <2>2. Missing = {} \/ Missing = {t}
      BY <2>1
    <2>3. Cardinality({}) = 0 /\ Cardinality({t}) = 1
      BY FS_EmptySet, FS_Singleton
    <2> QED BY <2>2, <2>3 DEF OneEventBehind, Missing
  <1> QED BY <1>1, CaughtUpInit, CaughtUpStep, PTL DEF Spec

\* With one call of run() at a time, a refused patch costs no event: the run is still open
\* and the event waits for the resume that will plan it again.
THEOREM RefusalCostsNoEvent == ASSUME OneCall PROVE Spec => []RefusedPatchLeavesEvent
  <1>1. CaughtUp => RefusedPatchLeavesEvent
    BY DEF CaughtUp, Behind, RefusedPatchLeavesEvent, Missing
  <1> QED BY <1>1, CaughtUpInit, CaughtUpStep, PTL DEF Spec

-----------------------------------------------------------------------------
(* What a call of run() leaves behind when it returns.                      *)

\* A limit above zero hands out the least ready task, so nothing handed out is nothing ready.
LEMMA SomeoneIsFirst ==
  ASSUME NEW k \in Nat \ {0}, ReadyUpTo(k) = {}
  PROVE  Ready = {}
  <1> SUFFICES ASSUME Ready # {} PROVE FALSE
    OBVIOUS
  <1>1. Ready \in SUBSET Nat
    BY TasksAssumption DEF Ready
  <1>2. PICK n \in Ready : \A m \in Ready : n <= m
    BY <1>1, LeastIsIn
  <1>3. {m \in Ready : m < n} = {}
    <2>1. ASSUME NEW m \in Ready PROVE ~(m < n)
      <3>1. m \in Nat /\ n \in Nat /\ n <= m
        BY <1>1, <1>2
      <3> QED BY <3>1
    <2> QED BY <2>1
  <1>4. Cardinality({m \in Ready : m < n}) = 0
    BY <1>3, FS_EmptySet
  <1> QED BY <1>4 DEF ReadyUpTo

LeftNothing(e) ==
  pc[e] = "returned" =>
    /\ \A n \in Tasks : node[n] # "running"
    /\ stop[e] = NoStop => Ready = {}

LEMMA ReturnLeavesNothing ==
  ASSUME TypeOK, FinishedIsQuiet, NEW e \in Executors, Coherent(e), WaitOrReturn(e)
  PROVE  LeftNothing(e)'
  <1> SUFFICES ASSUME pc'[e] = "returned"
               PROVE  /\ \A n \in Tasks : node'[n] # "running"
                      /\ stop'[e] = NoStop => Ready' = {}
    BY DEF LeftNothing
  <1>1. /\ pc[e] = "fill" /\ ~CanLaunch(e) /\ InFlight(e) = {}
        /\ node' = node /\ edges' = edges /\ stop' = stop
    BY DEF WaitOrReturn, Moves, TypeOK, storeVars
  <1>2. Ready' = Ready
    BY <1>1 DEF Ready, Unblocked
  <1>3. ASSUME NEW n \in Tasks PROVE node[n] # "running"
    BY <1>1 DEF Coherent, HeldIsRunning, InMainLoop, InFlight
  <1>4. ASSUME stop[e] = NoStop PROVE Ready = {}
    <2>1. CASE run = "finished"
      BY <2>1 DEF FinishedIsQuiet, Live, Ready
    <2>2. CASE run # "finished"
      <3>1. Cardinality(InFlight(e)) = 0
        BY <1>1, FS_EmptySet
      <3>2. Room(e) = MaxWorkers /\ MaxWorkers \in Nat \ {0}
        BY <1>4, <3>1, ExecutorAssumption DEF Room
      <3>3. ReadyUpTo(MaxWorkers) = {}
        BY <1>1, <2>2, <3>2 DEF CanLaunch
      <3> QED BY <3>2, <3>3, SomeoneIsFirst
    <2> QED BY <2>1, <2>2
  <1> QED BY <1>1, <1>2, <1>3, <1>4

LEMMA StopLeavesNoRow ==
  ASSUME TypeOK, NEW e \in Executors, Coherent(e), Capacity(e), NEW p \in Patches,
         PlanApplied(e, p)
  PROVE  LeftNothing(e)' /\ (orphans = {} => orphans' = {})
  <1>1. CASE StopReached(e)
    <2>1. pc[e] = "planning" \/ pc[e] = "replanning"
      BY DEF PlanApplied, Answers
    <2>2. \A n \in Tasks : future[e][n] = "none"
      BY <1>1, StopLeavesNothing
    <2>3. \A n \in Tasks : node[n] # "running"
      BY <2>1, <2>2 DEF Coherent, HeldIsRunning, NothingRunsInReplay, InMainLoop
    <2>4. \A n \in Tasks : node'[n] # "running"
      BY <2>3, PatchedRows DEF PlanApplied, TypeOK
    <2>5. Alive(e) = {}
      BY <2>2 DEF Alive, Unfinished
    <2>6. stop'[e] # NoStop
      BY <1>1 DEF StopReached, PlanApplied
    <2> QED BY <2>4, <2>5, <2>6 DEF PlanApplied, LeftNothing
  <1>2. CASE ~StopReached(e)
    BY <1>2 DEF PlanApplied, LeftNothing, Moves, TypeOK
  <1> QED BY <1>1, <1>2

CleanInv ==
  /\ CaughtUp /\ NeverRaises /\ (cancels = 0 => orphans = {})
  /\ \A e \in Executors : Capacity(e) /\ LeftNothing(e)

\* Other steps of the call leave `returned', or do not reach it.
LEMMA CleanStep ==
  ASSUME OneCall, CleanInv, [Next]_vars, NeverRaises'
  PROVE  (cancels' = 0 => orphans' = {}) /\ \A e \in Executors : LeftNothing(e)'
  <1>0. /\ TypeOK /\ FinishedIsQuiet /\ (cancels = 0 => orphans = {}) /\ NeverRaises
        /\ \A e \in Executors : Coherent(e) /\ Capacity(e) /\ LeftNothing(e)
    BY DEF CleanInv, CaughtUp, Inv
  <1> DEFINE Clean(e) == (cancels' = 0 => orphans' = {}) /\ LeftNothing(e)'
  <1>1. ASSUME NEW e \in Executors,
               \/ Replay(e) \/ FillAndWait(e) \/ Wake(e) \/ EndBatch(e)
               \/ \E n \in Tasks : Discard(e, n) \/ Record(e, n)
               \/ \E limit \in Stops : Begin(e, limit)
        PROVE  Clean(e)
    <2>1. orphans' = orphans /\ cancels' = cancels /\ pc'[e] # "returned"
      BY <1>0, <1>1 DEF Replay, FillAndWait, Wake, EndBatch, Discard, Record, Begin, Moves, TypeOK
    <2> QED BY <1>0, <2>1 DEF LeftNothing
  <1>2. ASSUME NEW e \in Executors, WaitOrReturn(e) PROVE Clean(e)
    <2>1. LeftNothing(e)'
      BY <1>0, <1>2, ReturnLeavesNothing
    <2> QED BY <1>0, <1>2, <2>1 DEF WaitOrReturn
  <1>3. ASSUME NEW e \in Executors, NEW p \in Patches, PlanApplied(e, p) PROVE Clean(e)
    <2>1. LeftNothing(e)' /\ (orphans = {} => orphans' = {})
      BY <1>0, <1>3, StopLeavesNoRow
    <2> QED BY <1>0, <1>3, <2>1 DEF PlanApplied
  <1>4. ASSUME NEW e \in Executors, Raises(e) PROVE FALSE
    BY <1>0, <1>4 DEF Raises, Leaves, Moves, NeverRaises, TypeOK
  <1>5. ASSUME NEW e \in Executors, UNCHANGED <<storeVars, pc, stop>>, cancels' = cancels,
               orphans' \subseteq orphans
        PROVE  Clean(e)
    BY <1>0, <1>5 DEF LeftNothing, Ready, Unblocked, storeVars
  <1>6. ASSUME NEW e \in Executors, Clean(e)
        PROVE  (cancels' = 0 => orphans' = {}) /\ \A d \in Executors : LeftNothing(d)'
    BY <1>6 DEF OneCall
  <1>7. ASSUME NEW e \in Executors, NEW n \in Tasks, NEW o \in Done, WorkerEnds(e, n, o)
        PROVE  Clean(e)
    BY <1>0, <1>5, <1>7 DEF WorkerEnds
  <1>8. ASSUME (\E n \in Tasks : OrphanEnds(n)) \/ UNCHANGED vars
        PROVE  (cancels' = 0 => orphans' = {}) /\ \A e \in Executors : LeftNothing(e)'
    <2>1. UNCHANGED <<storeVars, pc, stop>> /\ cancels' = cancels /\ orphans' \subseteq orphans
      BY <1>8 DEF OrphanEnds, vars, execVars
    <2> QED BY <1>0, <1>5, <2>1
  <1>9. ASSUME Crash
        PROVE  (cancels' = 0 => orphans' = {}) /\ \A e \in Executors : LeftNothing(e)'
    BY <1>9 DEF Crash, ForgetAll, LeftNothing
  <1>10. ASSUME NEW e \in Executors, Cancelled(e) PROVE Clean(e)
    <2>1. cancels \in Nat /\ cancels' = cancels + 1 /\ pc'[e] = "cancelled"
      BY <1>0, <1>10 DEF Cancelled, Leaves, Moves, TypeOK
    <2> QED BY <2>1 DEF LeftNothing
  <1> HIDE DEF Clean
  <1> QED BY <1>1, <1>2, <1>3, <1>4, <1>6, <1>7, <1>8, <1>9, <1>10
          DEF Next, Step, Plan, RecordRefused, PlanRefused

\* With one call of run() at a time and a planner whose patches fit its snapshot, run()
\* returns only from a finished graph, a graph with nothing to do, or its test stop, and
\* leaves no unplanned event, no running row and, if no call was cancelled, no coroutine
\* behind (core.py:131-134, 161-165).
THEOREM ReturnLeavesNothingBehind == ASSUME OneCall, SoundPlanner PROVE Spec => []ReturnIsClean
  <1>1. CleanInv => ReturnIsClean
    BY DEF CleanInv, CaughtUp, Behind, LeftNothing, ReturnIsClean, Missing
  <1>2. Init => CleanInv
    BY CaughtUpInit, CapacityInit DEF Init, CleanInv, LeftNothing, NeverRaises
  <1>3. CleanInv /\ [Next]_vars /\ NeverRaises' => CleanInv'
    <2> SUFFICES ASSUME CleanInv, [Next]_vars, NeverRaises' PROVE CleanInv'
      OBVIOUS
    <2>1. CaughtUp' /\ TypeOK /\ TypeOK'
      BY CaughtUpStep DEF CleanInv, CaughtUp, Inv
    <2>2. \A e \in Executors : Capacity(e)'
      BY <2>1, CapacityStep DEF CleanInv
    <2> QED BY <2>1, <2>2, CleanStep DEF CleanInv
  <1> QED BY <1>1, <1>2, <1>3, SoundPlansAreAccepted, PTL DEF Spec
=============================================================================

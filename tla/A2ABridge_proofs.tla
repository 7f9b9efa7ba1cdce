-------------------------- MODULE A2ABridge_proofs --------------------------
(***************************************************************************)
(* What the bridge does to the graph, for any tasks, calls and planner.     *)
(* The bridge commits to the graph's store what any client might, so the    *)
(* theorems about the store, taken for the patches of the planner and those *)
(* of the bridge together, hold here.                                       *)
(***************************************************************************)
EXTENDS A2ABridge, FiniteSetTheorems, TLAPS

\* The store, with its theorems, for everybody's patches.
Rows == INSTANCE GraphStore_proofs WITH Patches <- AllPatches

Acyclic == ~HasCycle(edges)

\* A row of nodes belongs to a run.
RowsHaveRun == \A n \in Tasks : node[n] # "absent" => run # "absent"

\* Whoever has a patch left to commit has journalled the event it is for, as the last.
JustJournalled ==
  turn # Through => Len(journal) \in DOMAIN journal /\ journal[Len(journal)].kind = "external"

\* A call that has left its start is for a task; the call at its second check has a result.
CallsHaveTargets ==
  /\ \A c \in Calls : stage[c] # "idle" => target[c] \in Tasks
  /\ turn.call # NoCall => stage[turn.call] = "subscribed"

\* A result is the final state of a remote task that was created for the node.
ResultsAreFinal ==
  \A n \in Tasks : results[n] # NoCall =>
    /\ target[results[n]] = n /\ stage[results[n]] # "idle"
    /\ state[results[n]] \in Remote!Terminal

BridgeInv ==
  /\ StoreTypeOK /\ BridgeTypeOK
  /\ FinishedIsQuiet /\ Acyclic /\ RowsHaveRun
  /\ JustJournalled /\ CallsHaveTargets /\ NeverRefused /\ ResultsAreFinal

\* While the process lives nothing is awake without a result, or is about to be woken.
AwakeInv ==
  crashes = 0 =>
    /\ \A n \in Tasks : node[n] \in {"pending", "running", "succeeded"} => results[n] # NoCall
    /\ turn.call # NoCall => results[target[turn.call]] # NoCall

-----------------------------------------------------------------------------
(* The bridge is a client of the store.                                     *)

\* The bridge's patches are patches.
LEMMA PatchesTyped ==
  /\ AllPatches \subseteq PatchType /\ AllPatches \subseteq Rows!PatchType
  /\ Tasks \subseteq Nat
  <1>1. ASSUME NEW n \in Tasks PROVE WakePatch(n) \in PatchType /\ CancelPatch(n) \in PatchType
    BY DEF WakePatch, CancelPatch, NoPatch, PatchType
  <1>2. AllPatches \subseteq PatchType
    BY <1>1, PatchesAssumption DEF AllPatches
  <1> QED BY <1>2, TasksAssumption DEF PatchType, Rows!PatchType

\* The transactions the bridge's world is made of.
Transaction ==
  \/ Start \/ Resume \/ Launch(1)
  \/ \E n \in Tasks, o \in {"succeeded", "failed"} : RecordOutcome(n, o)
  \/ \E n \in Tasks : RecordExternalEvent(n)
  \/ \E p \in AllPatches, t \in Triggers : ApplyPatch(p, t)

\* A patch does to the rows what it does in the store of everybody's patches.
LEMMA SamePatch ==
  ASSUME NEW p, NEW t, ApplyPatch(p, t)
  PROVE  Store!ApplyPatch(p, t) /\ Rows!ApplyPatch(p, t)
  <1>1. \A E : Store!HasCycle(E) = HasCycle(E) /\ Rows!HasCycle(E) = HasCycle(E)
    BY DEF HasCycle, Store!HasCycle, Rows!HasCycle
  <1>2. Acceptable(p, Graph)
    BY DEF ApplyPatch
  <1>3. /\ \A n \in Tasks : Graph.node[n] = node[n]
        /\ Graph = Store!Graph /\ Graph = Rows!Graph
    BY DEF Graph, Store!Graph, Rows!Graph
  <1>4. Store!Acceptable(p, Graph) /\ Rows!Acceptable(p, Graph)
    BY <1>1, <1>2 DEF Acceptable, Store!Acceptable, Rows!Acceptable, Live, Store!Live, Rows!Live
  <1>5. \A n : Updated(p, n) = Store!Updated(p, n) /\ Updated(p, n) = Rows!Updated(p, n)
    BY DEF Updated, Store!Updated, Rows!Updated
  <1>6. \A n, s : Settled(p, n, s) = Store!Settled(p, n, s) /\ Settled(p, n, s) = Rows!Settled(p, n, s)
    BY DEF Settled, Store!Settled, Rows!Settled, Live, Store!Live, Rows!Live
  <1>7. CancelledBy(p) = Store!CancelledBy(p) /\ CancelledBy(p) = Rows!CancelledBy(p)
    BY <1>5 DEF CancelledBy, Store!CancelledBy, Rows!CancelledBy, Live, Store!Live, Rows!Live
  <1> QED BY <1>3, <1>4, <1>5, <1>6, <1>7
      DEF ApplyPatch, Store!ApplyPatch, Rows!ApplyPatch, Entry, Store!Entry, Rows!Entry

\* A set has as many elements in every instance of FiniteSets.
LEMMA SameCardinality ==
  ASSUME NEW S
  PROVE  Store!Cardinality(S) = Cardinality(S) /\ Rows!Cardinality(S) = Cardinality(S)
  <1>1. Store!Cardinality(S) = Cardinality(S)
    BY DEF Store!Cardinality, Cardinality
  <1>2. Rows!Cardinality(S) = Cardinality(S)
    BY DEF Rows!Cardinality, Cardinality
  <1> QED BY <1>1, <1>2

\* So each of them is a transaction of the store of everybody's patches.
LEMMA SameTransactions ==
  ASSUME Transaction
  PROVE  Store!StoreNext /\ Rows!StoreNext
  <1>1. /\ \A k, ts : Journal(k, ts) => Store!Journal(k, ts) /\ Rows!Journal(k, ts)
        /\ Ready = Store!Ready /\ Ready = Rows!Ready
        /\ Triggers = Store!Triggers /\ Triggers = Rows!Triggers
    <2>1. \A n : Unblocked(n) = Store!Unblocked(n) /\ Unblocked(n) = Rows!Unblocked(n)
      BY DEF Unblocked, Store!Unblocked, Rows!Unblocked
    <2>2. Ready = Store!Ready /\ Ready = Rows!Ready
      BY <2>1 DEF Ready, Store!Ready, Rows!Ready
    <2>3. Triggers = Store!Triggers /\ Triggers = Rows!Triggers
      BY DEF Triggers, Store!Triggers, Rows!Triggers, PlannerKinds, Store!PlannerKinds,
             Rows!PlannerKinds
    <2>4. \A k, ts : Journal(k, ts) => Store!Journal(k, ts) /\ Rows!Journal(k, ts)
      BY DEF Journal, Store!Journal, Rows!Journal, Entry, Store!Entry, Rows!Entry, NoPatch,
             Store!NoPatch, Rows!NoPatch
    <2> QED BY <2>2, <2>3, <2>4
  <1>2. CASE Start
    <2>1. Store!Start /\ Rows!Start
      BY <1>1, <1>2 DEF Start, Store!Start, Rows!Start
    <2> QED BY <2>1 DEF Store!StoreNext, Rows!StoreNext
  <1>3. CASE Resume
    <2>1. \A s : Requeued(s) = Store!Requeued(s) /\ Requeued(s) = Rows!Requeued(s)
      BY DEF Requeued, Store!Requeued, Rows!Requeued
    <2>2. Store!Resume /\ Rows!Resume
      BY <1>1, <1>3, <2>1 DEF Resume, Store!Resume, Rows!Resume
    <2> QED BY <2>2 DEF Store!StoreNext, Rows!StoreNext
  <1>4. CASE Launch(1)
    <2>1. /\ ReadyUpTo(1) = Store!ReadyUpTo(1)
          /\ ReadyUpTo(1) = Rows!ReadyUpTo(1)
      <3> DEFINE First(R) == {n \in R : Cardinality({m \in R : m < n}) < 1}
      <3>1. /\ ReadyUpTo(1) = First(Ready)
            /\ Store!ReadyUpTo(1) = First(Store!Ready) /\ Rows!ReadyUpTo(1) = First(Rows!Ready)
        BY SameCardinality DEF ReadyUpTo, Store!ReadyUpTo, Rows!ReadyUpTo
      <3> HIDE DEF First
      <3> QED BY <1>1, <3>1
    <2>2. Store!Launch(1) /\ Rows!Launch(1)
      BY <1>1, <1>4, <2>1 DEF Launch, Store!Launch, Rows!Launch
    <2>3. 1 \in 1 .. Cardinality(Tasks)
      <3>1. Tasks # {}
        BY <1>4 DEF Launch, ReadyUpTo, Ready
      <3> QED BY <3>1, BridgeAssumption, FS_EmptySet, FS_CardinalityType
    <2>4. Store!StoreNext
      BY <2>2, <2>3, SameCardinality DEF Store!StoreNext
    <2>5. Rows!StoreNext
      BY <2>2, <2>3, SameCardinality DEF Rows!StoreNext
    <2> QED BY <2>4, <2>5
  <1>5. ASSUME NEW n \in Tasks, NEW o \in {"succeeded", "failed"}, RecordOutcome(n, o)
        PROVE  Store!StoreNext /\ Rows!StoreNext
    <2>1. Store!RecordOutcome(n, o) /\ Rows!RecordOutcome(n, o)
      BY <1>1, <1>5 DEF RecordOutcome, Store!RecordOutcome, Rows!RecordOutcome, CanRecord,
         Store!CanRecord, Rows!CanRecord, OutcomeKind, Store!OutcomeKind, Rows!OutcomeKind
    <2> QED BY <2>1 DEF Store!StoreNext, Rows!StoreNext
  <1>6. ASSUME NEW n \in Tasks, RecordExternalEvent(n)
        PROVE  Store!StoreNext /\ Rows!StoreNext
    <2>1. Store!RecordExternalEvent(n) /\ Rows!RecordExternalEvent(n)
      BY <1>1, <1>6 DEF RecordExternalEvent, Store!RecordExternalEvent, Rows!RecordExternalEvent
    <2> QED BY <2>1 DEF Store!StoreNext, Rows!StoreNext
  <1>7. ASSUME NEW p \in AllPatches, NEW t \in Triggers, ApplyPatch(p, t)
        PROVE  Store!StoreNext /\ Rows!StoreNext
    BY <1>1, <1>7, SamePatch DEF Store!StoreNext, Rows!StoreNext
  <1> QED BY <1>2, <1>3, <1>4, <1>5, <1>6, <1>7 DEF Transaction

\* Each step of the bridge's world is one of them or leaves the rows alone.
LEMMA StepIsTransaction ==
  ASSUME BridgeInv, [Next]_vars
  PROVE  Transaction \/ UNCHANGED storeVars
  <1>1. turn # Through => Len(journal) \in Triggers
    BY DEF BridgeInv, JustJournalled, Triggers
  <1>2. ASSUME NEW c \in Calls, Runs(c)
        PROVE  Transaction \/ UNCHANGED storeVars
    <2>1. CASE Completed(c)
      <3>1. target[c] \in Tasks
        BY <2>1 DEF Completed, BridgeInv, CallsHaveTargets
      <3> QED BY <2>1, <3>1 DEF Completed, Transaction
    <2>2. CASE Wake(c)
      <3>1. target[c] \in Tasks /\ turn # Through
        BY <2>2, BridgeAssumption DEF Wake, BridgeInv, CallsHaveTargets, Through
      <3>2. WakePatch(target[c]) \in AllPatches
        BY <3>1 DEF AllPatches
      <3> QED BY <1>1, <2>2, <3>1, <3>2 DEF Wake, Transaction
    <2>3. CASE Started(c) \/ Replied(c)
      BY <2>3 DEF Started, Replied
    <2> QED BY <1>2, <2>1, <2>2, <2>3 DEF Runs
  <1>3. ASSUME NEW n \in Tasks, CancelReturns(n) \/ Decide(n)
        PROVE  Transaction
    BY <1>3 DEF CancelReturns, Decide, Transaction
  <1>4. ASSUME NEW n \in Tasks, Decided(n)
        PROVE  Transaction
    <2>1. turn # Through
      BY <1>4, BridgeAssumption DEF Decided, Through
    <2>2. CancelPatch(n) \in AllPatches
      BY DEF AllPatches
    <2> QED BY <1>1, <1>4, <2>1, <2>2 DEF Decided, Transaction
  <1>5. CASE GraphStep
    <2>1. Patches \subseteq AllPatches /\ Unplanned(journal) \subseteq Triggers
      BY DEF AllPatches, Unplanned, Triggers
    <2>2. \A n \in Tasks : Outcome(n) \in {"succeeded", "failed"}
      BY DEF Outcome
    <2> QED BY <1>5, <2>1, <2>2 DEF GraphStep, Transaction
  <1>6. ASSUME \/ \E c \in Calls : (\E n \in Tasks : Dispatch(c, n)) \/ Breaks(c)
               \/ \E n \in Tasks : CancelNode(n) \/ CancelReaches(n)
               \/ RemoteStep \/ Crash \/ UNCHANGED vars
        PROVE  UNCHANGED storeVars
    BY <1>6 DEF Dispatch, Breaks, CancelNode, CancelReaches, RemoteStep, Crash, vars
  <1> QED BY <1>2, <1>3, <1>4, <1>5, <1>6 DEF Next

-----------------------------------------------------------------------------
(* What a transaction keeps of the rows.                                    *)

\* The store's own invariants, whoever's patches it is asked about.
LEMMA SameInvariants ==
  /\ Rows!StoreTypeOK <=> StoreTypeOK
  /\ Rows!FinishedIsQuiet <=> FinishedIsQuiet
  /\ Rows!Acyclic <=> Acyclic
  /\ Rows!storeVars = storeVars
  <1>1. Rows!StoreTypeOK <=> StoreTypeOK
    BY DEF StoreTypeOK, Rows!StoreTypeOK, NodeState, Rows!NodeState, Live, Rows!Live, Kinds,
       Rows!Kinds, PlannerKinds, Rows!PlannerKinds, PatchType, Rows!PatchType
  <1>2. Rows!FinishedIsQuiet <=> FinishedIsQuiet
    BY DEF FinishedIsQuiet, Rows!FinishedIsQuiet, Live, Rows!Live
  <1>3. Rows!Acyclic <=> Acyclic
    BY DEF Acyclic, Rows!Acyclic, HasCycle, Rows!HasCycle
  <1> QED BY <1>1, <1>2, <1>3 DEF storeVars, Rows!storeVars

\* What the store's own theorems say of a transaction.
LEMMA RowsKept ==
  ASSUME StoreTypeOK, FinishedIsQuiet, Acyclic, Transaction \/ UNCHANGED storeVars
  PROVE  StoreTypeOK' /\ FinishedIsQuiet' /\ Acyclic'
  <1>1. [Rows!StoreNext]_(Rows!storeVars)
    BY SameTransactions, SameInvariants DEF storeVars, Rows!storeVars
  <1>2. Rows!StoreTypeOK /\ Rows!FinishedIsQuiet /\ Rows!Acyclic
    BY SameInvariants
  <1>3. Rows!StoreTypeOK'
    BY <1>1, <1>2, PatchesTyped, Rows!TypeStep
  <1>4. Rows!FinishedIsQuiet'
    BY <1>1, <1>2, PatchesTyped, Rows!QuietStep
  <1>5. Rows!Acyclic'
    BY <1>1, <1>2, PatchesTyped, Rows!AcyclicStep
  <1>6. StoreTypeOK'
    BY <1>3 DEF StoreTypeOK, Rows!StoreTypeOK, NodeState, Rows!NodeState, Live, Rows!Live, Kinds,
       Rows!Kinds, PlannerKinds, Rows!PlannerKinds, PatchType, Rows!PatchType
  <1>7. FinishedIsQuiet'
    BY <1>4 DEF FinishedIsQuiet, Rows!FinishedIsQuiet, Live, Rows!Live
  <1>8. Acyclic'
    BY <1>5 DEF Acyclic, Rows!Acyclic, HasCycle, Rows!HasCycle
  <1> QED BY <1>6, <1>7, <1>8

\* No row is written before its run's.
LEMMA RowsHaveRunKept ==
  ASSUME StoreTypeOK, RowsHaveRun, Transaction \/ UNCHANGED storeVars
  PROVE  RowsHaveRun'
  <1>1. CASE Start
    BY <1>1 DEF Start, RowsHaveRun
  <1>2. CASE Resume
    BY <1>2 DEF Resume, Requeued, RowsHaveRun
  <1>3. CASE Launch(1)
    <2>1. PICK r \in Tasks : node[r] = "pending"
      BY <1>3 DEF Launch, ReadyUpTo, Ready
    <2> QED BY <1>3, <2>1 DEF Launch, RowsHaveRun
  <1>4. ASSUME NEW n \in Tasks, NEW o \in {"succeeded", "failed"}, RecordOutcome(n, o)
        PROVE  RowsHaveRun'
    BY <1>4 DEF RecordOutcome, CanRecord, RowsHaveRun
  <1>5. ASSUME NEW n \in Tasks, RecordExternalEvent(n)
        PROVE  RowsHaveRun'
    BY <1>5 DEF RecordExternalEvent, RowsHaveRun
  <1>6. ASSUME NEW p \in AllPatches, NEW t \in Triggers, ApplyPatch(p, t)
        PROVE  RowsHaveRun'
    BY <1>6 DEF ApplyPatch, Acceptable, Graph, RowsHaveRun
  <1>7. CASE UNCHANGED storeVars
    BY <1>7 DEF storeVars, RowsHaveRun
  <1> QED BY <1>1, <1>2, <1>3, <1>4, <1>5, <1>6, <1>7 DEF Transaction

\* What a client has journalled is the last entry of the journal.
LEMMA ExternalIsLast ==
  ASSUME StoreTypeOK, NEW n \in Tasks, RecordExternalEvent(n)
  PROVE  Len(journal') \in DOMAIN journal' /\ journal'[Len(journal')].kind = "external"
  <1>1. journal' = Append(journal, Entry("external", {n}, NoPatch))
    BY DEF RecordExternalEvent, Journal
  <1>2. Entry("external", {n}, NoPatch).kind = "external"
    BY DEF Entry
  <1> QED BY <1>1, <1>2 DEF StoreTypeOK

-----------------------------------------------------------------------------
(* What a step keeps of the bridge's own state.                             *)

\* A patch is committed before anyone else commits, the process dies or the loop turns.
LEMMA JustJournalledKept ==
  ASSUME BridgeInv, [Next]_vars
  PROVE  JustJournalled'
  <1>0. StoreTypeOK /\ JustJournalled /\ CallsHaveTargets
    BY DEF BridgeInv
  <1>1. ASSUME NEW n \in Tasks, RecordExternalEvent(n)
        PROVE  JustJournalled'
    BY <1>0, <1>1, ExternalIsLast DEF JustJournalled
  <1>2. ASSUME turn' = Through \/ UNCHANGED <<turn, journal>>
        PROVE  JustJournalled'
    BY <1>0, <1>2 DEF JustJournalled, Through
  <1>3. ASSUME NEW c \in Calls, Completed(c)
        PROVE  JustJournalled'
    <2>1. target[c] \in Tasks
      BY <1>0, <1>3 DEF Completed, CallsHaveTargets
    <2> QED BY <1>1, <1>3, <2>1 DEF Completed
  <1>4. ASSUME NEW c \in Calls, (\E n \in Tasks : Dispatch(c, n)) \/ Started(c) \/ Replied(c)
                                 \/ Wake(c) \/ Breaks(c)
        PROVE  turn' = Through \/ UNCHANGED <<turn, journal>>
    BY <1>4 DEF Dispatch, Started, Replied, Wake, Breaks, storeVars, Through
  <1>5. ASSUME NEW n \in Tasks, CancelReturns(n) \/ Decide(n)
        PROVE  JustJournalled'
    BY <1>1, <1>5 DEF CancelReturns, Decide
  <1>6. ASSUME NEW n \in Tasks, CancelNode(n) \/ CancelReaches(n) \/ Decided(n)
        PROVE  turn' = Through \/ UNCHANGED <<turn, journal>>
    BY <1>6 DEF CancelNode, CancelReaches, Decided, storeVars, bridgeVars, Through
  <1>7. ASSUME GraphStep \/ RemoteStep \/ Crash \/ UNCHANGED vars
        PROVE  turn' = Through \/ UNCHANGED <<turn, journal>>
    BY <1>7 DEF GraphStep, Between, RemoteStep, Crash, storeVars, bridgeVars, vars, Through
  <1> QED BY <1>2, <1>3, <1>4, <1>5, <1>6, <1>7 DEF Next, Runs

\* A final state of a remote task is final.
LEMMA FinalStays ==
  ASSUME BridgeTypeOK, CallsHaveTargets, [Next]_vars
  PROVE  /\ state' \in [Calls -> Remote!Terminal \cup {"absent", "submitted", "working"}]
         /\ \A c \in Calls : state[c] \in Remote!Terminal => state'[c] = state[c]
  <1> DEFINE States == Remote!Terminal \cup {"absent", "submitted", "working"}
             Kept == /\ state' \in [Calls -> States]
                     /\ \A c \in Calls : state[c] \in Remote!Terminal => state'[c] = state[c]
  <1> SUFFICES Kept
    OBVIOUS
  <1>0. state \in [Calls -> States] /\ {"absent", "submitted", "working"} \cap Remote!Terminal = {}
    BY DEF BridgeTypeOK, Remote!Terminal
  <1>1. ASSUME NEW c \in Calls, NEW s \in States, NEW t \in {"absent", "submitted", "working"},
               state[c] = t, state' = [state EXCEPT ![c] = s]
        PROVE  Kept
    BY <1>0, <1>1
  <1>2. ASSUME NEW c \in Calls, NEW s \in Remote!Terminal, Remote!End(c, s)
        PROVE  Kept
    BY <1>1, <1>2 DEF Remote!End, Remote!IsOpen
  <1>3. ASSUME NEW c \in Calls, Started(c)
        PROVE  Kept
    BY <1>1, <1>3 DEF Started, Remote!Create
  <1>4. CASE state' = state
    BY <1>0, <1>4
  <1>5. ASSUME NEW c \in Calls, \/ \E n \in Tasks : Dispatch(c, n)
                                \/ Replied(c) \/ Completed(c) \/ Wake(c) \/ Breaks(c)
        PROVE  state' = state
    BY <1>5 DEF Dispatch, Replied, Completed, Wake, Breaks, Remote!Abandon, remoteVars
  <1>6. ASSUME NEW n \in Tasks, CancelReaches(n)
        PROVE  Kept
    <2>1. cancelling[n] \in Calls
      BY <1>6 DEF CancelReaches, BridgeTypeOK
    <2> QED BY <1>2, <1>6, <2>1 DEF CancelReaches, Remote!Terminal
  <1>7. ASSUME NEW n \in Tasks, CancelNode(n) \/ CancelReturns(n) \/ Decide(n) \/ Decided(n)
        PROVE  state' = state
    BY <1>7 DEF CancelNode, CancelReturns, Decide, Decided, remoteVars
  <1>8. CASE RemoteStep
    <2>1. CASE Remote!Restart
      BY <1>0, <2>1 DEF Remote!Restart
    <2>2. ASSUME NEW c \in Calls, NEW s \in {"completed", "failed"}, Remote!End(c, s)
          PROVE  Kept
      BY <1>2, <2>2 DEF Remote!Terminal
    <2> QED BY <1>8, <2>1, <2>2 DEF RemoteStep
  <1>9. CASE GraphStep \/ Crash \/ UNCHANGED vars
    <2>1. state' = state
      BY <1>9 DEF GraphStep, Crash, vars, remoteVars
    <2> QED BY <1>4, <2>1
  <1> HIDE DEF Kept
  <1>10. ASSUME NEW c \in Calls, Runs(c) \/ Breaks(c)
         PROVE  Kept
    BY <1>3, <1>4, <1>5, <1>10 DEF Runs
  <1> QED BY <1>4, <1>5, <1>6, <1>7, <1>8, <1>9, <1>10 DEF Next

\* A call moves on from stage to stage, and never back to its start.
LEMMA StagesTyped ==
  ASSUME BridgeTypeOK, CallsHaveTargets, [Next]_vars
  PROVE  /\ stage' \in [Calls -> Stages] /\ target' \in [Calls -> Tasks \cup {0}]
         /\ \A c \in Calls : /\ stage'[c] # "idle" => target'[c] \in Tasks
                             /\ stage[c] # "idle" => stage'[c] # "idle" /\ target'[c] = target[c]
  <1> DEFINE Moved == /\ stage' \in [Calls -> Stages] /\ target' \in [Calls -> Tasks \cup {0}]
                      /\ \A c \in Calls :
                           /\ stage'[c] # "idle" => target'[c] \in Tasks
                           /\ stage[c] # "idle" => stage'[c] # "idle" /\ target'[c] = target[c]
  <1> SUFFICES Moved
    OBVIOUS
  <1>0. /\ stage \in [Calls -> Stages] /\ target \in [Calls -> Tasks \cup {0}]
        /\ \A c \in Calls : stage[c] # "idle" => target[c] \in Tasks
    BY DEF BridgeTypeOK, CallsHaveTargets
  <1>1. ASSUME NEW c \in Calls, NEW s \in Stages, s # "idle", stage[c] # "idle",
               stage' = [stage EXCEPT ![c] = s], target' = target
        PROVE  Moved
    BY <1>0, <1>1
  <1>2. CASE UNCHANGED <<stage, target>>
    BY <1>0, <1>2
  <1>3. ASSUME NEW c \in Calls, NEW n \in Tasks, Dispatch(c, n)
        PROVE  Moved
    BY <1>0, <1>3 DEF Dispatch, Stages
  <1>4. CASE Crash
    BY <1>0, <1>4 DEF Crash, Stages
  <1> HIDE DEF Moved
  <1>5. ASSUME NEW c \in Calls, Runs(c) \/ Breaks(c)
        PROVE  Moved
    <2>1. CASE Started(c)
      BY <1>1, <2>1 DEF Started, Stages
    <2>2. CASE Replied(c)
      BY <1>1, <2>2 DEF Replied, Stages
    <2>3. CASE Completed(c)
      BY <1>2, <2>3 DEF Completed
    <2>4. CASE Wake(c)
      <3>1. stage[c] # "idle"
        BY <2>4, BridgeAssumption DEF Wake, CallsHaveTargets
      <3> QED BY <1>1, <2>4, <3>1 DEF Wake, Stages
    <2>5. CASE Breaks(c)
      BY <1>1, <2>5 DEF Breaks, Stages
    <2> QED BY <1>5, <2>1, <2>2, <2>3, <2>4, <2>5 DEF Runs
  <1>6. ASSUME NEW n \in Tasks, \/ CancelNode(n) \/ CancelReaches(n) \/ CancelReturns(n)
                                \/ Decide(n) \/ Decided(n)
        PROVE  UNCHANGED <<stage, target>>
    BY <1>6 DEF CancelNode, CancelReaches, CancelReturns, Decide, Decided, bridgeVars
  <1>7. ASSUME GraphStep \/ RemoteStep \/ UNCHANGED vars
        PROVE  UNCHANGED <<stage, target>>
    BY <1>7 DEF GraphStep, RemoteStep, vars, bridgeVars
  <1> QED BY <1>2, <1>3, <1>4, <1>5, <1>6, <1>7 DEF Next

\* The rest of the bridge's state.
LEMMA BridgeTyped ==
  ASSUME BridgeTypeOK, CallsHaveTargets, [Next]_vars
  PROVE  BridgeTypeOK'
  <1> DEFINE Nodes == [Tasks -> Calls \cup {NoCall}]
             Turns == [call : Calls \cup {NoCall}, cancels : Tasks \cup {0}]
             Typed == /\ remote_ids' \in Nodes /\ results' \in Nodes /\ cancelling' \in Nodes
                      /\ turn' \in Turns /\ crashes' \in 0 .. MaxCrashes
  <1> SUFFICES Typed
    BY FinalStays, StagesTyped DEF BridgeTypeOK
  <1>0. /\ remote_ids \in Nodes /\ results \in Nodes /\ cancelling \in Nodes
        /\ turn \in Turns /\ crashes \in 0 .. MaxCrashes
    BY DEF BridgeTypeOK
  <1>1. /\ Through \in Turns
        /\ \A c \in Calls : [Through EXCEPT !.call = c] \in Turns
        /\ \A n \in Tasks : [Through EXCEPT !.cancels = n] \in Turns
    BY DEF Through
  <1> HIDE DEF Turns
  <1>2. CASE UNCHANGED <<remote_ids, results, cancelling, turn, crashes>>
    BY <1>0, <1>2
  <1>3. ASSUME NEW c \in Calls, Replied(c) \/ Completed(c) \/ Wake(c)
        PROVE  Typed
    BY <1>0, <1>1, <1>3 DEF Replied, Remembered, Completed, Wake
  <1>4. ASSUME NEW n \in Tasks, CancelNode(n) \/ CancelReturns(n) \/ Decide(n) \/ Decided(n)
        PROVE  Typed
    BY <1>0, <1>1, <1>4 DEF CancelNode, CancelReturns, Decide, Decided
  <1>5. CASE Crash
    BY <1>0, <1>1, <1>5, BridgeAssumption DEF Crash
  <1>6. ASSUME NEW c \in Calls, (\E n \in Tasks : Dispatch(c, n)) \/ Started(c) \/ Breaks(c)
        PROVE  UNCHANGED <<remote_ids, results, cancelling, turn, crashes>>
    BY <1>6 DEF Dispatch, Started, Breaks
  <1>7. ASSUME NEW n \in Tasks, CancelReaches(n)
        PROVE  UNCHANGED <<remote_ids, results, cancelling, turn, crashes>>
    BY <1>7 DEF CancelReaches, bridgeVars
  <1>8. ASSUME GraphStep \/ RemoteStep \/ UNCHANGED vars
        PROVE  UNCHANGED <<remote_ids, results, cancelling, turn, crashes>>
    BY <1>8 DEF GraphStep, RemoteStep, vars, bridgeVars
  <1> HIDE DEF Typed
  <1> QED BY <1>2, <1>3, <1>4, <1>5, <1>6, <1>7, <1>8 DEF Next, Runs

\* Whoever is at the second check has a call that is subscribed, for a task of the graph.
LEMMA TargetsKept ==
  ASSUME BridgeTypeOK, CallsHaveTargets, [Next]_vars
  PROVE  CallsHaveTargets'
  <1>1. \A c \in Calls : stage'[c] # "idle" => target'[c] \in Tasks
    BY StagesTyped
  <1>2. turn'.call # NoCall => stage'[turn'.call] = "subscribed"
    <2>0. Through.call = NoCall /\ \A n \in Tasks : [Through EXCEPT !.cancels = n].call = NoCall
      BY DEF Through
    <2>1. ASSUME UNCHANGED <<turn, stage>>
          PROVE  turn'.call # NoCall => stage'[turn'.call] = "subscribed"
      BY <2>1 DEF CallsHaveTargets
    <2>2. ASSUME turn' = Through
          PROVE  turn'.call = NoCall
      BY <2>0, <2>2
    <2>3. ASSUME NEW c \in Calls, Completed(c)
          PROVE  turn'.call # NoCall => stage'[turn'.call] = "subscribed"
      <3>1. turn' = [Through EXCEPT !.call = c] /\ stage' = stage /\ stage[c] = "subscribed"
        BY <2>3 DEF Completed
      <3>2. turn'.call = c
        BY <3>1 DEF Through
      <3> QED BY <3>1, <3>2
    <2>4. ASSUME NEW c \in Calls, Started(c)
          PROVE  turn'.call # NoCall => stage'[turn'.call] = "subscribed"
      <3>1. stage[c] # "subscribed" /\ turn' = turn /\ stage' = [stage EXCEPT ![c] = "replying"]
        BY <2>4 DEF Started
      <3> QED BY <3>1 DEF CallsHaveTargets, BridgeTypeOK
    <2>5. ASSUME NEW c \in Calls, (\E n \in Tasks : Dispatch(c, n)) \/ Replied(c) \/ Wake(c) \/ Breaks(c)
          PROVE  turn' = Through
      BY <2>5 DEF Dispatch, Replied, Wake, Breaks, Between
    <2>6. ASSUME NEW n \in Tasks, Decide(n)
          PROVE  turn'.call = NoCall
      BY <2>0, <2>6 DEF Decide
    <2>7. ASSUME NEW n \in Tasks, CancelNode(n) \/ CancelReturns(n) \/ Decided(n)
          PROVE  turn' = Through
      BY <2>7 DEF CancelNode, CancelReturns, Decided, Between
    <2>8. ASSUME (\E n \in Tasks : CancelReaches(n)) \/ RemoteStep \/ GraphStep \/ UNCHANGED vars
          PROVE  UNCHANGED <<turn, stage>>
      BY <2>8 DEF CancelReaches, RemoteStep, GraphStep, vars, bridgeVars
    <2>9. CASE Crash
      BY <2>2, <2>9 DEF Crash
    <2> QED BY <2>1, <2>2, <2>3, <2>4, <2>5, <2>6, <2>7, <2>8, <2>9 DEF Next, Runs
  <1> QED BY <1>1, <1>2 DEF CallsHaveTargets

\* The patch that wakes a waiting node is accepted: there is a run, it is not finished, the
\* node is known and waits, and a patch without edges closes no cycle.
LEMMA WakeAccepted ==
  ASSUME StoreTypeOK, FinishedIsQuiet, Acyclic, RowsHaveRun,
         NEW n \in Tasks, node[n] = "waiting"
  PROVE  Acceptable(WakePatch(n), Graph)
  <1> DEFINE p == WakePatch(n)
  <1>1. /\ p.add = {} /\ p.connect = {} /\ p.cancel = {} /\ p.wait = {} /\ p.resume = {n}
    BY DEF WakePatch, NoPatch
  <1> HIDE DEF p
  <1>2. run = "open"
    BY DEF StoreTypeOK, FinishedIsQuiet, RowsHaveRun, Live
  <1>3. edges \cup p.connect = edges
    BY <1>1
  <1>4. ~HasCycle(Graph.edges \cup p.connect)
    BY <1>3 DEF Graph, Acyclic
  <1>5. Graph.run = "open" /\ Graph.node = node
    BY <1>2 DEF Graph
  <1> QED BY <1>1, <1>4, <1>5 DEF Acceptable, p

\* So no call is refused.
LEMMA NeverRefusedKept ==
  ASSUME BridgeInv, [Next]_vars
  PROVE  NeverRefused'
  <1>0. /\ BridgeTypeOK /\ CallsHaveTargets /\ NeverRefused
        /\ StoreTypeOK /\ FinishedIsQuiet /\ Acyclic /\ RowsHaveRun
    BY DEF BridgeInv
  <1>1. ASSUME NEW c \in Calls, NEW s \in Stages \ {"refused"}, stage' = [stage EXCEPT ![c] = s]
        PROVE  NeverRefused'
    BY <1>0, <1>1 DEF NeverRefused, BridgeTypeOK
  <1>2. ASSUME stage' = stage
        PROVE  NeverRefused'
    BY <1>0, <1>2 DEF NeverRefused
  <1>3. ASSUME NEW c \in Calls, Wake(c)
        PROVE  NeverRefused'
    <2>1. target[c] \in Tasks
      BY <1>0, <1>3, BridgeAssumption DEF Wake, CallsHaveTargets
    <2>2. StillWaits(target[c]) => Acceptable(WakePatch(target[c]), Graph)
      BY <1>0, <2>1, WakeAccepted DEF StillWaits
    <2>3. stage' = [stage EXCEPT ![c] = "over"]
      BY <1>3, <2>2 DEF Wake
    <2> QED BY <1>1, <2>3 DEF Stages
  <1>4. ASSUME NEW c \in Calls, (\E n \in Tasks : Dispatch(c, n)) \/ Started(c) \/ Replied(c) \/ Breaks(c)
        PROVE  \E s \in Stages \ {"refused"} : stage' = [stage EXCEPT ![c] = s]
    BY <1>4 DEF Dispatch, Started, Replied, Breaks, Stages
  <1>5. ASSUME \/ \E c \in Calls : Completed(c)
               \/ \E n \in Tasks : \/ CancelNode(n) \/ CancelReaches(n) \/ CancelReturns(n)
                                   \/ Decide(n) \/ Decided(n)
               \/ GraphStep \/ RemoteStep \/ UNCHANGED vars
        PROVE  stage' = stage
    BY <1>5 DEF Completed, CancelNode, CancelReaches, CancelReturns, Decide, Decided, GraphStep,
           RemoteStep, vars, bridgeVars
  <1>6. CASE Crash
    BY <1>0, <1>6 DEF Crash, NeverRefused
  <1> QED BY <1>1, <1>2, <1>3, <1>4, <1>5, <1>6 DEF Next, Runs

\* Results are taken when the remote task is over and are not of another node.
LEMMA ResultsKept ==
  ASSUME BridgeInv, [Next]_vars
  PROVE  ResultsAreFinal'
  <1>0. BridgeTypeOK /\ CallsHaveTargets /\ ResultsAreFinal
    BY DEF BridgeInv
  <1>1. /\ \A c \in Calls : state[c] \in Remote!Terminal => state'[c] = state[c]
        /\ \A c \in Calls : stage[c] # "idle" => stage'[c] # "idle" /\ target'[c] = target[c]
    BY <1>0, FinalStays, StagesTyped
  <1>2. ASSUME results' = results
        PROVE  ResultsAreFinal'
    BY <1>0, <1>1, <1>2 DEF ResultsAreFinal, BridgeTypeOK, Remote!Terminal
  <1>3. ASSUME NEW c \in Calls, Completed(c)
        PROVE  ResultsAreFinal'
    <2>1. /\ stage[c] = "subscribed" /\ state[c] \in Remote!Terminal
          /\ results' = [results EXCEPT ![target[c]] = c]
      BY <1>3 DEF Completed, Reported
    <2>2. target'[c] = target[c] /\ stage'[c] # "idle" /\ state'[c] = state[c]
      BY <1>1, <2>1
    <2>3. ASSUME NEW n \in Tasks, n # target[c]
          PROVE  results'[n] = results[n]
      BY <2>1, <2>3, <1>0 DEF BridgeTypeOK
    <2>4. target[c] \in Tasks => results'[target[c]] = c
      BY <2>1, <1>0 DEF BridgeTypeOK
    <2>5. ASSUME NEW n \in Tasks, results'[n] # NoCall
          PROVE  /\ target'[results'[n]] = n /\ stage'[results'[n]] # "idle"
                 /\ state'[results'[n]] \in Remote!Terminal
      <3>1. CASE n = target[c]
        BY <2>1, <2>2, <2>4, <3>1
      <3>2. CASE n # target[c]
        <4>1. results'[n] = results[n] /\ results[n] \in Calls
          BY <1>0, <2>3, <2>5, <3>2 DEF BridgeTypeOK
        <4> QED BY <1>0, <1>1, <2>5, <4>1 DEF ResultsAreFinal
      <3> QED BY <3>1, <3>2
    <2> QED BY <2>5 DEF ResultsAreFinal, Remote!Terminal
  <1>4. CASE Crash
    BY <1>4 DEF Crash, ResultsAreFinal
  <1>5. ASSUME \/ \E c \in Calls : \/ \E n \in Tasks : Dispatch(c, n)
                                   \/ Started(c) \/ Replied(c) \/ Wake(c) \/ Breaks(c)
               \/ \E n \in Tasks : \/ CancelNode(n) \/ CancelReaches(n) \/ CancelReturns(n)
                                   \/ Decide(n) \/ Decided(n)
               \/ GraphStep \/ RemoteStep \/ UNCHANGED vars
        PROVE  results' = results
    BY <1>5 DEF Dispatch, Started, Replied, Wake, Breaks, CancelNode, CancelReaches, CancelReturns,
           Decide, Decided, GraphStep, RemoteStep, vars, bridgeVars
  <1> QED BY <1>2, <1>3, <1>4, <1>5 DEF Next, Runs

-----------------------------------------------------------------------------
(* The theorems.                                                            *)

\* The three initial conditions.
LEMMA InitHolds == Init => BridgeInv /\ AwakeInv /\ Store!StoreInit
  <1> SUFFICES ASSUME Init PROVE BridgeInv /\ AwakeInv /\ Store!StoreInit
    OBVIOUS
  <1>1. Store!StoreInit /\ Rows!StoreInit
    BY DEF Init, StoreInit, Store!StoreInit, Rows!StoreInit
  <1>2. StoreTypeOK
    BY <1>1, PatchesTyped, SameInvariants, Rows!TypeInit
  <1>3. FinishedIsQuiet
    BY <1>1, PatchesTyped, SameInvariants, Rows!QuietInit
  <1>4. Acyclic
    BY <1>1, PatchesTyped, SameInvariants, Rows!AcyclicInit
  <1>5. RowsHaveRun /\ JustJournalled
    BY DEF Init, StoreInit, RowsHaveRun, JustJournalled
  <1>6. BridgeTypeOK
    <2>1. Through \in [call : Calls \cup {NoCall}, cancels : Tasks \cup {0}]
      BY DEF Through
    <2>2. state \in [Calls -> {"absent"}]
      BY DEF Init, Remote!Init
    <2>3. 0 \in 0 .. MaxCrashes
      BY BridgeAssumption
    <2> QED BY <2>1, <2>2, <2>3 DEF Init, BridgeTypeOK, Stages
  <1>7. CallsHaveTargets /\ NeverRefused /\ ResultsAreFinal
    BY DEF Init, Through, CallsHaveTargets, NeverRefused, ResultsAreFinal
  <1>8. AwakeInv
    BY DEF Init, StoreInit, AwakeInv, Through
  <1> QED BY <1>1, <1>2, <1>3, <1>4, <1>5, <1>6, <1>7, <1>8 DEF BridgeInv

\* Every step keeps the invariant.
LEMMA NextHolds == BridgeInv /\ [Next]_vars => BridgeInv'
  <1> SUFFICES ASSUME BridgeInv, [Next]_vars PROVE BridgeInv'
    OBVIOUS
  <1>1. /\ StoreTypeOK /\ BridgeTypeOK /\ FinishedIsQuiet /\ Acyclic /\ RowsHaveRun
        /\ CallsHaveTargets
    BY DEF BridgeInv
  <1>2. StoreTypeOK' /\ FinishedIsQuiet' /\ Acyclic' /\ RowsHaveRun'
    BY <1>1, StepIsTransaction, RowsKept, RowsHaveRunKept
  <1>3. BridgeTypeOK' /\ CallsHaveTargets'
    BY <1>1, BridgeTyped, TargetsKept
  <1>4. JustJournalled' /\ NeverRefused' /\ ResultsAreFinal'
    BY JustJournalledKept, NeverRefusedKept, ResultsKept
  <1> QED BY <1>2, <1>3, <1>4 DEF BridgeInv

\* The inductive invariant.
THEOREM BridgeInvariance == Spec => []BridgeInv
BY InitHolds, NextHolds, PTL DEF Spec

\* The bridge's state has its type, in any company.
THEOREM BridgeTyping == Spec => []BridgeTypeOK
  <1>1. BridgeInv => BridgeTypeOK
    BY DEF BridgeInv
  <1> QED BY <1>1, BridgeInvariance, PTL

\* What bridges, cancelling clients and the graph's own planner and workers commit together is
\* a behaviour of the store: each step is one of its transactions, each patch for an event that
\* its author has just journalled (official.py:124-130).
THEOREM BridgeIsAClient == Spec => ClientOfStore
  <1>1. BridgeInv /\ [Next]_vars => [Store!StoreNext]_(Store!storeVars)
    <2> SUFFICES ASSUME BridgeInv, [Next]_vars PROVE [Store!StoreNext]_(Store!storeVars)
      OBVIOUS
    <2> QED BY StepIsTransaction, SameTransactions DEF storeVars, Store!storeVars
  <1> QED BY <1>1, InitHolds, BridgeInvariance, PTL DEF Spec, ClientOfStore, Store!StoreSpec

\* No patch of a bridge is refused, whatever was done to its node while the remote task was at
\* work (official.py:125-127).
THEOREM BridgeIsNeverRefused == Spec => []NeverRefused
  <1>1. BridgeInv => NeverRefused
    BY DEF BridgeInv
  <1> QED BY <1>1, BridgeInvariance, PTL

\* With the bridge at work a finished run still has nothing pending, waiting or running.
THEOREM FinishHoldsForBridges == Spec => []FinishedIsQuiet
  <1>1. BridgeInv => FinishedIsQuiet
    BY DEF BridgeInv
  <1> QED BY <1>1, BridgeInvariance, PTL

Awake(n) == node[n] \in {"pending", "running", "succeeded"}

\* If the planner parks what it adds, only a wake patch makes a node of the graph awake.
LEMMA WokenBy ==
  ASSUME OnlyTheBridgeWakes, BridgeInv, crashes = 0, Transaction \/ UNCHANGED storeVars,
         NEW n \in Tasks, Awake(n)', ~Awake(n), [Next]_vars
  PROVE  \E c \in Calls : Wake(c) /\ target[c] = n
  <1>0. node \in [Tasks -> NodeState \cup {"absent"}]
    BY DEF BridgeInv, StoreTypeOK
  <1>1. ASSUME NEW p \in PatchType, p.add \subseteq p.wait, n \notin p.resume,
               node'[n] = Settled(p, n, Updated(p, n))
        PROVE  FALSE
    BY <1>0, <1>1 DEF Settled, Updated, Awake, NodeState, Live
  <1>2. ASSUME NEW c \in Calls, Wake(c), target[c] # n
        PROVE  FALSE
    <2> DEFINE p == WakePatch(target[c])
    <2>1. target[c] \in Tasks
      BY <1>2, BridgeAssumption DEF Wake, BridgeInv, CallsHaveTargets
    <2>2. p.add = {} /\ p.resume = {target[c]} /\ p.wait = {}
      BY DEF WakePatch, NoPatch
    <2>3. p \in PatchType
      BY <2>1, PatchesTyped DEF AllPatches
    <2> HIDE DEF p
    <2>4. CASE ApplyPatch(p, Len(journal))
      <3>1. node'[n] = Settled(p, n, Updated(p, n))
        BY <2>4 DEF ApplyPatch
      <3> QED BY <1>1, <1>2, <2>2, <2>3, <3>1
    <2>5. CASE UNCHANGED storeVars
      BY <2>5 DEF storeVars, Awake
    <2> QED BY <1>2, <2>4, <2>5 DEF Wake, p
  <1>3. ASSUME NEW k \in Tasks, Decided(k)
        PROVE  FALSE
    <2> DEFINE p == CancelPatch(k)
    <2>1. p.add = {} /\ p.resume = {} /\ p.wait = {}
      BY DEF CancelPatch, NoPatch
    <2>2. p \in PatchType
      BY PatchesTyped DEF AllPatches
    <2> HIDE DEF p
    <2>3. ApplyPatch(p, Len(journal))
      BY <1>3 DEF Decided, p
    <2>4. node'[n] = Settled(p, n, Updated(p, n))
      BY <2>3 DEF ApplyPatch
    <2> QED BY <1>1, <2>1, <2>2, <2>4
  <1>4. CASE GraphStep
    <2>1. ASSUME NEW p \in Patches, NEW t, ApplyPatch(p, t)
          PROVE  FALSE
      <3>1. p \in PatchType /\ p.add \subseteq p.wait /\ n \notin p.resume
        BY PatchesAssumption DEF OnlyTheBridgeWakes
      <3>2. node'[n] = Settled(p, n, Updated(p, n))
        BY <2>1 DEF ApplyPatch
      <3> QED BY <1>1, <3>1, <3>2
    <2>2. CASE Start
      BY <2>2 DEF Start, Awake
    <2>3. CASE Launch(1)
      BY <2>3 DEF Launch, ReadyUpTo, Ready, Awake
    <2>4. ASSUME NEW k \in Tasks, NEW o, RecordOutcome(k, o)
          PROVE  FALSE
      BY <1>0, <2>4 DEF RecordOutcome, CanRecord, Awake
    <2>5. CASE Resume
      BY <2>5 DEF Resume, Requeued, Awake
    <2> QED BY <1>4, <2>1, <2>2, <2>3, <2>4, <2>5 DEF GraphStep
  <1>5. ASSUME \/ \E c \in Calls : \/ \E k \in Tasks : Dispatch(c, k)
                                   \/ Started(c) \/ Replied(c) \/ Completed(c) \/ Breaks(c)
               \/ \E k \in Tasks : \/ CancelNode(k) \/ CancelReaches(k) \/ CancelReturns(k)
                                   \/ Decide(k)
               \/ RemoteStep \/ Crash \/ UNCHANGED vars
        PROVE  FALSE
    <2>1. node' = node
      BY <1>5 DEF Dispatch, Started, Replied, Completed, Breaks, CancelNode, CancelReaches,
         CancelReturns, Decide, RemoteStep, Crash, vars, storeVars, RecordExternalEvent
    <2> QED BY <2>1 DEF Awake
  <1> QED BY <1>2, <1>3, <1>4, <1>5 DEF Next, Runs

\* While the process lives, what wakes a node has its result at hand.
LEMMA AwakeKept ==
  ASSUME OnlyTheBridgeWakes, BridgeInv, AwakeInv, [Next]_vars
  PROVE  AwakeInv'
  <1> SUFFICES ASSUME crashes' = 0
               PROVE  /\ \A n \in Tasks : Awake(n)' => results'[n] # NoCall
                      /\ turn'.call # NoCall => results'[target'[turn'.call]] # NoCall
    BY DEF AwakeInv, Awake
  <1>1. crashes = 0 /\ ~Crash
    <2>1. crashes \in 0 .. MaxCrashes
      BY DEF BridgeInv, BridgeTypeOK
    <2>2. ~Crash
      BY <2>1, BridgeAssumption DEF Crash
    <2>3. crashes' = crashes
      BY <2>2 DEF Next, Dispatch, Runs, Started, Replied, Completed, Wake, Breaks, CancelNode,
         CancelReaches, CancelReturns, Decide, Decided, GraphStep, RemoteStep, vars, bridgeVars
    <2> QED BY <2>2, <2>3
  <1>2. /\ \A n \in Tasks : Awake(n) => results[n] # NoCall
        /\ turn.call # NoCall => results[target[turn.call]] # NoCall
    BY <1>1 DEF AwakeInv, Awake
  <1>3. ASSUME NEW n \in Tasks, results[n] # NoCall
        PROVE  results'[n] # NoCall
    <2>1. ASSUME NEW c \in Calls, Completed(c) PROVE results'[n] # NoCall
      BY <1>3, <2>1, BridgeAssumption DEF Completed, BridgeInv, BridgeTypeOK
    <2>2. ASSUME ~ \E c \in Calls : Completed(c) PROVE results' = results
      BY <1>1, <2>2 DEF Next, Dispatch, Runs, Started, Replied, Wake, Breaks, CancelNode,
         CancelReaches, CancelReturns, Decide, Decided, GraphStep, RemoteStep, vars, bridgeVars
    <2> QED BY <1>3, <2>1, <2>2
  <1>4. ASSUME NEW n \in Tasks, Awake(n)'
        PROVE  results'[n] # NoCall
    <2>1. CASE Awake(n)
      BY <1>2, <1>3, <2>1
    <2>2. CASE ~Awake(n)
      <3>1. PICK c \in Calls : Wake(c) /\ target[c] = n
        BY <1>1, <1>4, <2>2, StepIsTransaction, WokenBy
      <3>2. results[n] # NoCall
        BY <1>2, <3>1, BridgeAssumption DEF Wake
      <3> QED BY <1>3, <3>2
    <2> QED BY <2>1, <2>2
  <1>5. ASSUME turn'.call # NoCall
        PROVE  results'[target'[turn'.call]] # NoCall
    <2>1. ASSUME NEW c \in Calls, Completed(c)
          PROVE  results'[target'[turn'.call]] # NoCall
      <3>1. /\ turn' = [Through EXCEPT !.call = c] /\ target' = target /\ target[c] \in Tasks
            /\ results' = [results EXCEPT ![target[c]] = c]
        BY <2>1 DEF Completed, BridgeInv, CallsHaveTargets
      <3>2. turn'.call = c
        BY <3>1 DEF Through
      <3> QED BY <3>1, <3>2, BridgeAssumption DEF BridgeInv, BridgeTypeOK
    <2>2. ASSUME ~ \E c \in Calls : Completed(c)
          PROVE  turn' = turn \/ turn'.call = NoCall
      <3>1. ASSUME NEW n \in Tasks, turn' = [Through EXCEPT !.cancels = n]
            PROVE  turn'.call = NoCall
        BY <3>1 DEF Through
      <3>2. \/ UNCHANGED turn \/ turn' = Through
            \/ \E n \in Tasks : turn' = [Through EXCEPT !.cancels = n]
        BY <1>1, <2>2 DEF Next, Dispatch, Runs, Started, Replied, Wake, Breaks, CancelNode,
           CancelReaches, CancelReturns, Decide, Decided, GraphStep, RemoteStep, vars, bridgeVars
      <3>3. Through.call = NoCall
        BY DEF Through
      <3> QED BY <3>1, <3>2, <3>3
    <2>3. ASSUME turn' = turn
          PROVE  results'[target'[turn'.call]] # NoCall
      <3>1. turn.call \in Calls /\ stage[turn.call] = "subscribed"
        BY <1>5, <2>3 DEF BridgeInv, BridgeTypeOK, CallsHaveTargets
      <3>2. target'[turn.call] = target[turn.call] /\ target[turn.call] \in Tasks
        BY <3>1, StagesTyped DEF BridgeInv, CallsHaveTargets
      <3> QED BY <1>2, <1>3, <1>5, <2>3, <3>2
    <2> QED BY <1>5, <2>1, <2>2, <2>3
  <1> QED BY <1>4, <1>5

\* If the planner parks whatever it adds and wakes nothing itself, a node is awake only with
\* the final result of a remote task of its own at hand, until the process dies.
THEOREM AwakeWithResult == ASSUME OnlyTheBridgeWakes PROVE Spec => []AwakeHasResult
  <1>1. BridgeInv /\ AwakeInv /\ [Next]_vars => AwakeInv'
    BY AwakeKept
  <1>2. BridgeInv /\ AwakeInv => AwakeHasResult
    BY DEF BridgeInv, AwakeInv, ResultsAreFinal, AwakeHasResult
  <1> QED BY <1>1, <1>2, InitHolds, BridgeInvariance, PTL DEF Spec
=============================================================================

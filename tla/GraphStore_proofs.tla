-------------------------- MODULE GraphStore_proofs --------------------------
(***************************************************************************)
(* What the store promises for every set of tasks, every catalogue of       *)
(* patches and every order of its transactions.                             *)
(***************************************************************************)
EXTENDS GraphStore, TLAPS

EntryType == [kind: Kinds, tasks: SUBSET Tasks, patch: PatchType]

\* An entry of the declared type is what each transaction appends.
LEMMA EntryTyped ==
  ASSUME NEW k \in Kinds, NEW ts \in SUBSET Tasks, NEW p \in PatchType
  PROVE  Entry(k, ts, p) \in EntryType
BY DEF Entry, EntryType

LEMMA NoPatchTyped == NoPatch \in PatchType
BY DEF NoPatch, PatchType

\* Appending one entry keeps the earlier ones and their sequence numbers.
LEMMA Appended ==
  ASSUME journal \in Seq(EntryType), NEW x \in EntryType, journal' = Append(journal, x)
  PROVE  /\ journal' \in Seq(EntryType)
         /\ Len(journal) \in Nat
         /\ DOMAIN journal = 1 .. Len(journal)
         /\ DOMAIN journal' = DOMAIN journal \cup {Len(journal) + 1}
         /\ Len(journal) + 1 \notin DOMAIN journal
         /\ \A i \in DOMAIN journal : i \in Nat /\ i < Len(journal) + 1 /\ journal'[i] = journal[i]
         /\ journal'[Len(journal) + 1] = x
OBVIOUS

\* The state a patch leaves a task in is a state.
LEMMA PatchedTyped ==
  ASSUME NEW p \in PatchType, NEW n \in Tasks, node[n] \in NodeState \cup {"absent"}
  PROVE  /\ Updated(p, n) \in NodeState \cup {"absent"}
         /\ Settled(p, n, Updated(p, n)) \in NodeState \cup {"absent"}
BY DEF Updated, Settled, NodeState, Live

\* A patch that is accepted moves a task only as its lists and its finish say.
LEMMA PatchedNode ==
  ASSUME NEW p \in PatchType, Acceptable(p, Graph), NEW n \in Tasks,
         node[n] \in NodeState \cup {"absent"}
  PROVE  /\ node[n] \in {"succeeded", "failed", "cancelled"}
              => Settled(p, n, Updated(p, n)) = node[n] /\ n \notin CancelledBy(p)
         /\ Settled(p, n, Updated(p, n)) \notin {"absent", "pending", "waiting", "cancelled"}
              => Settled(p, n, Updated(p, n)) = node[n]
         /\ node[n] = "running"
              => (Settled(p, n, Updated(p, n)) = "running" <=> n \notin CancelledBy(p))
         /\ Settled(p, n, Updated(p, n)) = "cancelled" /\ node[n] # "cancelled"
              => n \in CancelledBy(p)
         /\ Settled(p, n, Updated(p, n)) # "absent" <=> node[n] # "absent" \/ n \in p.add
         /\ n \in p.add => node[n] = "absent"
         /\ p.finish => Settled(p, n, Updated(p, n)) \notin Live
  <1>1. CASE node[n] \in {"succeeded", "failed", "cancelled"}
    <2>1. n \notin p.add /\ n \notin p.cancel /\ n \notin p.wait /\ n \notin p.resume
      BY <1>1 DEF Acceptable, Graph, Live, PatchType
    <2>2. Updated(p, n) = node[n]
      BY <2>1 DEF Updated
    <2> QED BY <1>1, <2>1, <2>2 DEF Settled, CancelledBy, Live
  <1>2. CASE node[n] = "running"
    <2>1. n \notin p.add /\ n \notin p.wait /\ n \notin p.resume
      BY <1>2 DEF Acceptable, Graph, Live, PatchType
    <2>2. Updated(p, n) = IF n \in p.cancel THEN "cancelled" ELSE "running"
      BY <1>2, <2>1 DEF Updated
    <2> QED BY <1>2, <2>1, <2>2 DEF Settled, CancelledBy, Live
  <1>3. CASE node[n] \in {"absent", "pending", "waiting"}
    <2>1. n \in p.cancel \cup p.wait \cup p.resume => node[n] # "absent" \/ n \in p.add
      BY DEF Acceptable, Graph, Live, PatchType
    <2>2. n \in p.add => node[n] = "absent"
      BY DEF Acceptable, Graph
    <2>3. Updated(p, n) \in {"absent", "pending", "waiting", "cancelled"}
      BY <1>3 DEF Updated
    <2>4. Updated(p, n) # "absent" <=> node[n] # "absent" \/ n \in p.add
      BY <1>3, <2>1 DEF Updated
    <2>5. Updated(p, n) = "cancelled" => n \in p.cancel
      BY <1>3 DEF Updated
    <2> QED BY <1>3, <2>2, <2>3, <2>4, <2>5 DEF Settled, CancelledBy, Live
  <1> QED BY <1>1, <1>2, <1>3 DEF NodeState, Live

-----------------------------------------------------------------------------
(* Type correctness.                                                        *)

LEMMA TypeInit == StoreInit => StoreTypeOK
BY DEF StoreInit, StoreTypeOK, NodeState

LEMMA TypeStep == StoreTypeOK /\ [StoreNext]_storeVars => StoreTypeOK'
  <1> SUFFICES ASSUME StoreTypeOK, [StoreNext]_storeVars PROVE StoreTypeOK'
    OBVIOUS
  <1> USE DEF StoreTypeOK
  <1>0. journal \in Seq(EntryType)
    BY DEF EntryType
  <1>1. CASE Start
    <2>1. Entry("run_started", {}, NoPatch) \in EntryType
      BY EntryTyped, NoPatchTyped DEF Kinds, PlannerKinds
    <2>2. journal' \in Seq(EntryType)
      BY <1>0, <1>1, <2>1, Appended DEF Start, Journal
    <2> QED BY <1>1, <2>2 DEF Start, EntryType
  <1>2. CASE Resume
    <2>1. Entry("run_resumed", {}, NoPatch) \in EntryType
      BY EntryTyped, NoPatchTyped DEF Kinds
    <2>2. journal' \in Seq(EntryType)
      BY <1>0, <1>2, <2>1, Appended DEF Resume, Journal
    <2>3. node' \in [Tasks -> NodeState \cup {"absent"}]
      BY <1>2 DEF Resume, Requeued, NodeState, Live
    <2> QED BY <1>2, <2>2, <2>3 DEF Resume, EntryType
  <1>3. ASSUME NEW limit \in 1 .. Cardinality(Tasks), Launch(limit) PROVE StoreTypeOK'
    <2>1. Entry("task_started", ReadyUpTo(limit), NoPatch) \in EntryType
      BY EntryTyped, NoPatchTyped DEF Kinds, ReadyUpTo, Ready
    <2>2. journal' \in Seq(EntryType)
      BY <1>0, <1>3, <2>1, Appended DEF Launch, Journal
    <2>3. node' \in [Tasks -> NodeState \cup {"absent"}]
      BY <1>3 DEF Launch, NodeState, Live
    <2> QED BY <1>3, <2>2, <2>3 DEF Launch, EntryType
  <1>4. ASSUME NEW n \in Tasks, NEW o \in {"succeeded", "failed"}, RecordOutcome(n, o)
        PROVE StoreTypeOK'
    <2>1. Entry(OutcomeKind(o), {n}, NoPatch) \in EntryType
      BY EntryTyped, NoPatchTyped DEF Kinds, PlannerKinds, OutcomeKind
    <2>2. journal' \in Seq(EntryType)
      BY <1>0, <1>4, <2>1, Appended DEF RecordOutcome, Journal
    <2>3. node' \in [Tasks -> NodeState \cup {"absent"}]
      BY <1>4 DEF RecordOutcome, NodeState, Live
    <2> QED BY <1>4, <2>2, <2>3 DEF RecordOutcome, EntryType
  <1>5. ASSUME NEW n \in Tasks, RecordExternalEvent(n) PROVE StoreTypeOK'
    <2>1. Entry("external", {n}, NoPatch) \in EntryType
      BY EntryTyped, NoPatchTyped DEF Kinds
    <2>2. journal' \in Seq(EntryType)
      BY <1>0, <1>5, <2>1, Appended DEF RecordExternalEvent, Journal
    <2> QED BY <1>5, <2>2 DEF RecordExternalEvent, EntryType
  <1>6. ASSUME NEW p \in Patches, NEW t \in Triggers, ApplyPatch(p, t) PROVE StoreTypeOK'
    <2>0. p \in PatchType /\ t \in Nat
      BY <1>0, PatchesAssumption DEF Triggers
    <2>1. Entry("graph_patched", CancelledBy(p), p) \in EntryType
      BY <2>0, EntryTyped DEF Kinds, CancelledBy, PatchType
    <2>2. journal' \in Seq(EntryType)
      BY <1>0, <1>6, <2>1, Appended DEF ApplyPatch
    <2>3. node' \in [Tasks -> NodeState \cup {"absent"}]
      BY <1>6, <2>0, PatchedTyped DEF ApplyPatch
    <2>4. edges' \in SUBSET (Tasks \X Tasks)
      BY <1>6, <2>0 DEF ApplyPatch, PatchType
    <2> QED BY <1>6, <2>0, <2>2, <2>3, <2>4 DEF ApplyPatch, EntryType
  <1>7. CASE UNCHANGED storeVars
    BY <1>7 DEF storeVars
  <1> QED BY <1>1, <1>2, <1>3, <1>4, <1>5, <1>6, <1>7 DEF StoreNext

\* The rows always have their declared form, whatever transactions commit.
THEOREM StoreTypeCorrect == StoreSpec => []StoreTypeOK
BY TypeInit, TypeStep, PTL DEF StoreSpec

-----------------------------------------------------------------------------
(* Finish is a boundary, and settled tasks stay settled.                    *)

LEMMA QuietInit == StoreInit => FinishedIsQuiet
BY DEF StoreInit, FinishedIsQuiet

LEMMA QuietStep ==
  StoreTypeOK /\ FinishedIsQuiet /\ [StoreNext]_storeVars => FinishedIsQuiet'
  <1> SUFFICES ASSUME StoreTypeOK, FinishedIsQuiet, [StoreNext]_storeVars
               PROVE  FinishedIsQuiet'
    OBVIOUS
  <1> USE DEF FinishedIsQuiet
  <1>1. CASE Start
    BY <1>1 DEF Start
  <1>2. CASE Resume
    BY <1>2 DEF Resume, Requeued, Live
  <1>3. ASSUME NEW limit \in 1 .. Cardinality(Tasks), Launch(limit) PROVE FinishedIsQuiet'
    BY <1>3 DEF Launch, ReadyUpTo, Ready, Live
  <1>4. ASSUME NEW n \in Tasks, NEW o \in {"succeeded", "failed"}, RecordOutcome(n, o)
        PROVE FinishedIsQuiet'
    BY <1>4 DEF RecordOutcome, CanRecord, Live, StoreTypeOK
  <1>5. ASSUME NEW n \in Tasks, RecordExternalEvent(n) PROVE FinishedIsQuiet'
    BY <1>5 DEF RecordExternalEvent
  <1>6. ASSUME NEW p \in Patches, NEW t \in Triggers, ApplyPatch(p, t)
        PROVE FinishedIsQuiet'
    \* Only an open run accepts a patch, so it is finished now by this one.
    <2>1. p \in PatchType
      BY PatchesAssumption
    <2>2. Acceptable(p, Graph) /\ run = "open"
      BY <1>6 DEF ApplyPatch, Acceptable, Graph
    <2>3. \A n \in Tasks : p.finish => node'[n] \notin Live
      BY <1>6, <2>1, <2>2, PatchedNode DEF ApplyPatch, StoreTypeOK
    <2> QED BY <1>6, <2>2, <2>3 DEF ApplyPatch
  <1>7. CASE UNCHANGED storeVars
    BY <1>7 DEF storeVars
  <1> QED BY <1>1, <1>2, <1>3, <1>4, <1>5, <1>6, <1>7 DEF StoreNext

\* A finished run has nothing pending, waiting or running.
THEOREM FinishIsABoundary == StoreSpec => []FinishedIsQuiet
BY TypeInit, TypeStep, QuietInit, QuietStep, PTL DEF StoreSpec

LEMMA SettledStep ==
  ASSUME StoreTypeOK, [StoreNext]_storeVars
  PROVE  /\ \A n \in Tasks :
              node[n] \in {"succeeded", "failed", "cancelled"} => node'[n] = node[n]
         /\ run = "finished" => run' = "finished"
  <1> DEFINE Stays == /\ \A n \in Tasks : node[n] \in {"succeeded", "failed", "cancelled"}
                                           => node'[n] = node[n]
                      /\ run = "finished" => run' = "finished"
  <1> SUFFICES Stays
    OBVIOUS
  <1>1. CASE Start
    BY <1>1 DEF Start
  <1>2. CASE Resume
    BY <1>2 DEF Resume, Requeued
  <1>3. ASSUME NEW limit \in 1 .. Cardinality(Tasks), Launch(limit) PROVE Stays
    BY <1>3 DEF Launch, ReadyUpTo, Ready
  <1>4. ASSUME NEW n \in Tasks, NEW o \in {"succeeded", "failed"}, RecordOutcome(n, o) PROVE Stays
    BY <1>4 DEF RecordOutcome, CanRecord, StoreTypeOK
  <1>5. ASSUME NEW n \in Tasks, RecordExternalEvent(n) PROVE Stays
    BY <1>5 DEF RecordExternalEvent
  <1>6. ASSUME NEW p \in Patches, NEW t \in Triggers, ApplyPatch(p, t) PROVE Stays
    <2>1. p \in PatchType /\ Acceptable(p, Graph) /\ run = "open"
      BY <1>6, PatchesAssumption DEF ApplyPatch, Acceptable, Graph
    <2> QED BY <1>6, <2>1, PatchedNode DEF ApplyPatch, StoreTypeOK
  <1>7. CASE UNCHANGED storeVars
    BY <1>7 DEF storeVars
  <1> HIDE DEF Stays
  <1> QED BY <1>1, <1>2, <1>3, <1>4, <1>5, <1>6, <1>7 DEF StoreNext

\* No transaction moves a settled task or reopens a finished run.
THEOREM SettledIsFinal == StoreSpec => SettledStays
  <1>1. StoreTypeOK /\ [StoreNext]_storeVars =>
          [/\ \A n \in Tasks :
                 node[n] \in {"succeeded", "failed", "cancelled"} => node'[n] = node[n]
           /\ run = "finished" => run' = "finished"]_storeVars
    BY SettledStep
  <1> QED BY <1>1, TypeInit, TypeStep, PTL DEF StoreSpec, SettledStays

-----------------------------------------------------------------------------
(* The dependency graph stays acyclic, so pending tasks never wait for each *)
(* other.                                                                   *)

Acyclic == ~HasCycle(edges)

LEMMA AcyclicStep == Acyclic /\ [StoreNext]_storeVars => Acyclic'
  <1>1. ASSUME NEW p \in Patches, NEW t \in Triggers, ApplyPatch(p, t) PROVE Acyclic'
    BY <1>1 DEF ApplyPatch, Acceptable, Graph, Acyclic, HasCycle
  <1>2. ASSUME edges' = edges, Acyclic PROVE Acyclic'
    BY <1>2 DEF Acyclic, HasCycle
  <1> QED BY <1>1, <1>2 DEF StoreNext, storeVars, Start, Resume, Launch, RecordOutcome,
                            RecordExternalEvent

LEMMA AcyclicInit == StoreInit => Acyclic
BY DEF StoreInit, Acyclic, HasCycle

\* In every set of pending tasks one is blocked by nothing inside the set.
THEOREM NoTasksWaitForEachOther == StoreSpec => []NoMutualWait
  <1>1. StoreTypeOK /\ Acyclic => NoMutualWait
    <2> SUFFICES ASSUME StoreTypeOK, NEW S \in SUBSET Tasks, S # {},
                        \A n \in S : ~ \A e \in edges : e[2] = n => e[1] \notin S
                 PROVE  HasCycle(edges)
      BY DEF NoMutualWait, Acyclic
    <2>1. ASSUME NEW n \in S PROVE \E m \in S : <<m, n>> \in edges
      <3>1. PICK e \in edges : e[2] = n /\ e[1] \in S
        OBVIOUS
      <3>2. e = <<e[1], n>>
        BY <3>1 DEF StoreTypeOK
      <3> QED BY <3>1, <3>2
    <2>2. ASSUME NEW n \in S PROVE n \in {e[2] : e \in edges}
      <3>1. PICK m \in S : <<m, n>> \in edges
        BY <2>1
      <3>2. <<m, n>>[2] = n
        OBVIOUS
      <3> QED BY <3>1, <3>2
    <2>3. S \in SUBSET {e[2] : e \in edges}
      BY <2>2
    <2> QED BY <2>1, <2>3 DEF HasCycle
  <1> QED BY <1>1, TypeInit, TypeStep, AcyclicInit, AcyclicStep, PTL DEF StoreSpec

-----------------------------------------------------------------------------
(* The journal.  Every transaction appends one entry: what that does to the *)
(* sets of entries the properties speak of.                                 *)

Next1 == Len(journal) + 1
EndsIt(x, n) ==
  \/ x.kind = "run_resumed"
  \/ x.kind \in {"task_succeeded", "task_failed", "graph_patched"} /\ n \in x.tasks

\* The last start of n has not been followed by its end.
Attempting(n) == \E i \in EntriesOf("task_started", n) :
                   \A j \in DOMAIN journal : j > i => ~EndsAttempt(j, n)

LEMMA EntriesAfter ==
  ASSUME journal \in Seq(EntryType), NEW x \in EntryType, journal' = Append(journal, x),
         NEW n \in Tasks
  PROVE  /\ EntriesOf("task_started", n)' = EntriesOf("task_started", n) \cup
              (IF x.kind = "task_started" /\ n \in x.tasks THEN {Next1} ELSE {})
         /\ EntriesOf("task_succeeded", n)' = EntriesOf("task_succeeded", n) \cup
              (IF x.kind = "task_succeeded" /\ n \in x.tasks THEN {Next1} ELSE {})
         /\ EntriesOf("task_failed", n)' = EntriesOf("task_failed", n) \cup
              (IF x.kind = "task_failed" /\ n \in x.tasks THEN {Next1} ELSE {})
         /\ EntriesOf("graph_patched", n)' = EntriesOf("graph_patched", n) \cup
              (IF x.kind = "graph_patched" /\ n \in x.tasks THEN {Next1} ELSE {})
         /\ PatchEntries' =
              PatchEntries \cup (IF x.kind = "graph_patched" THEN {Next1} ELSE {})
         /\ Adding(n)' =
              Adding(n) \cup (IF x.kind = "graph_patched" /\ n \in x.patch.add
                              THEN {Next1} ELSE {})
  BY Appended DEF EntriesOf, PatchEntries, Adding, Next1

LEMMA AttemptAfter ==
  ASSUME journal \in Seq(EntryType), NEW x \in EntryType, journal' = Append(journal, x),
         NEW n \in Tasks
  PROVE  Attempting(n)' <=> \/ x.kind = "task_started" /\ n \in x.tasks
                            \/ Attempting(n) /\ ~EndsIt(x, n)
  <1>0. PICK L : L = Next1
    OBVIOUS
  <1>1. \A i \in DOMAIN journal : EndsAttempt(i, n)' <=> EndsAttempt(i, n)
    BY Appended DEF EndsAttempt
  <1>2. EndsAttempt(L, n)' <=> EndsIt(x, n)
    BY <1>0, Appended DEF EndsAttempt, EndsIt, Next1
  <1>3. /\ DOMAIN journal' = DOMAIN journal \cup {L}
        /\ \A i \in DOMAIN journal : i \in Nat /\ i < L
        /\ L \in Nat
    BY <1>0, Appended DEF Next1
  <1>4. EntriesOf("task_started", n)' = EntriesOf("task_started", n) \cup
          (IF x.kind = "task_started" /\ n \in x.tasks THEN {L} ELSE {})
    BY <1>0, EntriesAfter
  <1>5. EntriesOf("task_started", n) \subseteq DOMAIN journal
    BY DEF EntriesOf
  <1>6. CASE x.kind = "task_started" /\ n \in x.tasks
    <2>1. \A j \in DOMAIN journal' : ~(j > L)
      BY <1>3
    <2> QED BY <1>4, <1>6, <2>1 DEF Attempting
  <1>7. CASE ~(x.kind = "task_started" /\ n \in x.tasks)
    <2>1. Attempting(n)' <=> \E i \in EntriesOf("task_started", n) :
                               \A j \in DOMAIN journal \cup {L} : j > i => ~EndsAttempt(j, n)'
      BY <1>3, <1>4, <1>7 DEF Attempting
    <2>2. ASSUME NEW i \in EntriesOf("task_started", n)
          PROVE  (\A j \in DOMAIN journal \cup {L} : j > i => ~EndsAttempt(j, n)')
                   <=> (\A j \in DOMAIN journal : j > i => ~EndsAttempt(j, n)) /\ ~EndsIt(x, n)
      <3>1. L > i
        BY <1>3, <1>5
      <3> QED BY <1>1, <1>2, <3>1
    <2> QED BY <1>7, <2>1, <2>2 DEF Attempting
  <1> QED BY <1>6, <1>7

LEMMA RunningIsAttempting ==
  ASSUME NEW n \in Tasks PROVE RunningRowsMatch(n) <=> (node[n] = "running" <=> Attempting(n))
BY DEF RunningRowsMatch, Attempting

\* What each transaction appends, in one place.
LEMMA Appends ==
  ASSUME StoreTypeOK
  PROVE  /\ journal \in Seq(EntryType)
         /\ Start => journal' = Append(journal, Entry("run_started", {}, NoPatch))
         /\ Entry("run_started", {}, NoPatch) \in EntryType
         /\ Resume => journal' = Append(journal, Entry("run_resumed", {}, NoPatch))
         /\ Entry("run_resumed", {}, NoPatch) \in EntryType
         /\ \A limit \in 1 .. Cardinality(Tasks) :
              /\ Launch(limit) => journal' =
                   Append(journal, Entry("task_started", ReadyUpTo(limit), NoPatch))
              /\ Entry("task_started", ReadyUpTo(limit), NoPatch) \in EntryType
         /\ \A n \in Tasks :
              /\ \A o \in {"succeeded", "failed"} :
                   /\ RecordOutcome(n, o) =>
                        journal' = Append(journal, Entry(OutcomeKind(o), {n}, NoPatch))
                   /\ Entry(OutcomeKind(o), {n}, NoPatch) \in EntryType
              /\ RecordExternalEvent(n) => journal' =
                   Append(journal, Entry("external", {n}, NoPatch))
              /\ Entry("external", {n}, NoPatch) \in EntryType
         /\ \A p \in Patches :
              /\ \A t \in Triggers : ApplyPatch(p, t) => journal' =
                   Append(journal, Entry("graph_patched", CancelledBy(p), p))
              /\ Entry("graph_patched", CancelledBy(p), p) \in EntryType
              /\ p \in PatchType
  <1>1. journal \in Seq(EntryType)
    BY DEF StoreTypeOK, EntryType
  <1>2. ASSUME NEW k \in Kinds, NEW ts \in SUBSET Tasks
        PROVE  Entry(k, ts, NoPatch) \in EntryType
    BY EntryTyped, NoPatchTyped
  <1>3. \A limit \in 1 .. Cardinality(Tasks) : ReadyUpTo(limit) \in SUBSET Tasks
    BY DEF ReadyUpTo, Ready
  <1>4. ASSUME NEW p \in Patches
        PROVE  p \in PatchType /\ Entry("graph_patched", CancelledBy(p), p) \in EntryType
    <2>1. p \in PatchType /\ CancelledBy(p) \in SUBSET Tasks /\ "graph_patched" \in Kinds
      BY PatchesAssumption DEF CancelledBy, PatchType, Kinds
    <2> QED BY <2>1, EntryTyped
  <1>5. {"run_started", "run_resumed", "task_started", "task_succeeded", "task_failed",
         "external"} \subseteq Kinds
    BY DEF Kinds, PlannerKinds
  <1>6. /\ Entry("run_started", {}, NoPatch) \in EntryType
        /\ Entry("run_resumed", {}, NoPatch) \in EntryType
        /\ \A limit \in 1 .. Cardinality(Tasks) :
             Entry("task_started", ReadyUpTo(limit), NoPatch) \in EntryType
        /\ \A n \in Tasks :
             /\ Entry("external", {n}, NoPatch) \in EntryType
             /\ \A o \in {"succeeded", "failed"} :
                  Entry(OutcomeKind(o), {n}, NoPatch) \in EntryType
    BY <1>2, <1>3, <1>5 DEF OutcomeKind
  <1> QED BY <1>1, <1>4, <1>6
          DEF Start, Resume, Launch, RecordOutcome, RecordExternalEvent, ApplyPatch, Journal

LEMMA EntryFields ==
  ASSUME NEW k, NEW ts, NEW p
  PROVE  /\ Entry(k, ts, p).kind = k
         /\ Entry(k, ts, p).tasks = ts
         /\ Entry(k, ts, p).patch = p
BY DEF Entry

\* An entry of another kind, or about other tasks, changes nothing for n.
LEMMA OutcomeRowsStep ==
  ASSUME StoreTypeOK, StoreNext, NEW n \in Tasks, OutcomeRowsMatch(n)
  PROVE  OutcomeRowsMatch(n)'
  <1> DEFINE S == EntriesOf("task_succeeded", n)
             F == EntriesOf("task_failed", n)
             C == EntriesOf("graph_patched", n)
  <1>0. journal \in Seq(EntryType)
    BY Appends
  <1>a. ASSUME NEW x \in EntryType, journal' = Append(journal, x),
               x.kind \notin {"task_succeeded", "task_failed"},
               node'[n] \notin {"succeeded", "failed", "cancelled"} \/ node'[n] = node[n]
                 \/ (node'[n] = "cancelled" /\ x.kind = "graph_patched" /\ n \in x.tasks),
               node[n] \in {"succeeded", "failed"} => node'[n] = node[n]
        PROVE  OutcomeRowsMatch(n)'
    <2>1. S' = S /\ F' = F /\ C \subseteq C'
      <3>1. S' = S
        BY <1>0, <1>a, EntriesAfter
      <3>2. F' = F
        BY <1>0, <1>a, EntriesAfter
      <3>3. C \subseteq C'
        BY <1>0, <1>a, EntriesAfter
      <3> QED BY <3>1, <3>2, <3>3
    <2>2. x.kind = "graph_patched" /\ n \in x.tasks => C' # {}
      BY <1>0, <1>a, EntriesAfter
    <2> QED BY <1>a, <2>1, <2>2 DEF OutcomeRowsMatch, Outcomes
  <1>b. \A m \in Tasks : node[m] \in {"succeeded", "failed"} => node'[m] = node[m]
    BY SettledStep
  <1>1. CASE Start
    BY <1>1, <1>a, <1>b, Appends, EntryFields DEF Start
  <1>2. CASE Resume
    BY <1>2, <1>a, <1>b, Appends, EntryFields DEF Resume, Requeued
  <1>3. ASSUME NEW limit \in 1 .. Cardinality(Tasks), Launch(limit)
        PROVE  OutcomeRowsMatch(n)'
    BY <1>3, <1>a, <1>b, Appends, EntryFields DEF Launch
  <1>4. ASSUME NEW m \in Tasks, NEW o \in {"succeeded", "failed"}, RecordOutcome(m, o)
        PROVE  OutcomeRowsMatch(n)'
    <2>0. PICK x \in EntryType : x = Entry(OutcomeKind(o), {m}, NoPatch)
      BY Appends
    <2>1. journal' = Append(journal, x)
      BY <1>4, <2>0, Appends
    <2>a. x.tasks = {m}
      BY <2>0 DEF Entry
    <2>b. x.kind = IF o = "succeeded" THEN "task_succeeded" ELSE "task_failed"
      BY <2>0 DEF Entry, OutcomeKind
    <2>2. CASE m = n
      <3>1. node[n] = "running" /\ S = {} /\ F = {}
        BY <1>4, <2>2 DEF RecordOutcome, CanRecord, OutcomeRowsMatch
      <3>2. /\ S' = IF o = "succeeded" THEN {Next1} ELSE {}
            /\ F' = IF o = "succeeded" THEN {} ELSE {Next1}
        BY <1>0, <2>1, <2>2, <2>a, <2>b, <3>1, EntriesAfter
      <3>3. node'[n] = o
        BY <1>4, <2>2 DEF RecordOutcome, StoreTypeOK
      <3> HIDE DEF S, F
      <3>4. Outcomes(n)' = {Next1}
        BY <3>2 DEF Outcomes, S, F
      <3> QED BY <3>2, <3>3, <3>4 DEF OutcomeRowsMatch, S, F
    <2>3. CASE m # n
      <3>1. S' = S /\ F' = F /\ C' = C
        <4>1. n \notin x.tasks
          BY <2>a, <2>3
        <4>2. S' = S
          BY <1>0, <2>1, <4>1, EntriesAfter
        <4>3. F' = F
          BY <1>0, <2>1, <4>1, EntriesAfter
        <4>4. C' = C
          BY <1>0, <2>1, <4>1, EntriesAfter
        <4> QED BY <4>2, <4>3, <4>4
      <3>2. node'[n] = node[n]
        BY <1>4, <2>3 DEF RecordOutcome, StoreTypeOK
      <3> QED BY <3>1, <3>2 DEF OutcomeRowsMatch, Outcomes
    <2> QED BY <2>2, <2>3
  <1>5. ASSUME NEW m \in Tasks, RecordExternalEvent(m) PROVE OutcomeRowsMatch(n)'
    <2>0. PICK x \in EntryType : x = Entry("external", {m}, NoPatch)
      BY Appends
    <2>1. journal' = Append(journal, x) /\ x.kind = "external"
      BY <1>5, <2>0, Appends, EntryFields
    <2>2. node' = node
      BY <1>5 DEF RecordExternalEvent
    <2> QED BY <1>a, <2>1, <2>2
  <1>6. ASSUME NEW p \in Patches, NEW t \in Triggers, ApplyPatch(p, t)
        PROVE  OutcomeRowsMatch(n)'
    <2>1. /\ p \in PatchType /\ Acceptable(p, Graph)
          /\ node'[n] = Settled(p, n, Updated(p, n))
          /\ node[n] \in NodeState \cup {"absent"}
      BY <1>6, Appends DEF ApplyPatch, StoreTypeOK
    <2>2. \/ node'[n] \notin {"succeeded", "failed", "cancelled"}
          \/ node'[n] = node[n]
          \/ node'[n] = "cancelled" /\ n \in CancelledBy(p)
      BY <2>1, PatchedNode
    <2> QED BY <1>6, <1>a, <1>b, <2>2, Appends, EntryFields
  <1> QED BY <1>1, <1>2, <1>3, <1>4, <1>5, <1>6 DEF StoreNext

\* A transaction other than apply_patch adds no row and no edge.
LEMMA GraphRowsStep ==
  ASSUME StoreTypeOK, StoreNext, NEW n \in Tasks, GraphRowsMatch(n)
  PROVE  GraphRowsMatch(n)'
  <1>0. journal \in Seq(EntryType)
    BY Appends
  <1>a. ASSUME NEW x \in EntryType, journal' = Append(journal, x),
               x.kind # "graph_patched", edges' = edges,
               node'[n] = "absent" <=> node[n] = "absent"
        PROVE  GraphRowsMatch(n)'
    <2>1. Adding(n)' = Adding(n)
      BY <1>0, <1>a, EntriesAfter
    <2>2. PatchEntries' = PatchEntries
      BY <1>0, <1>a, EntriesAfter
    <2>3. \A i \in PatchEntries : journal'[i] = journal[i]
      BY <1>0, <1>a, Appended DEF PatchEntries
    <2> QED BY <1>a, <2>1, <2>2, <2>3 DEF GraphRowsMatch
  <1>1. CASE Start
    <2>0. PICK x \in EntryType : x = Entry("run_started", {}, NoPatch)
      BY Appends
    <2>1. journal' = Append(journal, x)
      BY <1>1, <2>0, Appends
    <2> QED BY <1>1, <1>a, <2>0, <2>1 DEF Start, Entry
  <1>2. CASE Resume
    <2>0. PICK x \in EntryType : x = Entry("run_resumed", {}, NoPatch)
      BY Appends
    <2>1. journal' = Append(journal, x)
      BY <1>2, <2>0, Appends
    <2>2. edges' = edges /\ (node'[n] = "absent" <=> node[n] = "absent")
      BY <1>2 DEF Resume, Requeued
    <2> QED BY <1>a, <2>0, <2>1, <2>2 DEF Entry
  <1>3. ASSUME NEW limit \in 1 .. Cardinality(Tasks), Launch(limit) PROVE GraphRowsMatch(n)'
    <2>0. PICK x \in EntryType : x = Entry("task_started", ReadyUpTo(limit), NoPatch)
      BY Appends
    <2>1. journal' = Append(journal, x)
      BY <1>3, <2>0, Appends
    <2>2. edges' = edges /\ (node'[n] = "absent" <=> node[n] = "absent")
      BY <1>3 DEF Launch, ReadyUpTo, Ready
    <2> QED BY <1>a, <2>0, <2>1, <2>2 DEF Entry
  <1>4. ASSUME NEW m \in Tasks, NEW o \in {"succeeded", "failed"}, RecordOutcome(m, o)
        PROVE GraphRowsMatch(n)'
    <2>0. PICK x \in EntryType : x = Entry(OutcomeKind(o), {m}, NoPatch)
      BY Appends
    <2>1. journal' = Append(journal, x)
      BY <1>4, <2>0, Appends
    <2>2. edges' = edges /\ (node'[n] = "absent" <=> node[n] = "absent")
      BY <1>4 DEF RecordOutcome, CanRecord, StoreTypeOK
    <2> QED BY <1>a, <2>0, <2>1, <2>2 DEF Entry, OutcomeKind
  <1>5. ASSUME NEW m \in Tasks, RecordExternalEvent(m) PROVE GraphRowsMatch(n)'
    <2>0. PICK x \in EntryType : x = Entry("external", {m}, NoPatch)
      BY Appends
    <2>1. journal' = Append(journal, x)
      BY <1>5, <2>0, Appends
    <2> QED BY <1>5, <1>a, <2>0, <2>1 DEF RecordExternalEvent, Entry
  <1>6. ASSUME NEW p \in Patches, NEW t \in Triggers, ApplyPatch(p, t)
        PROVE  GraphRowsMatch(n)'
    <2>0. PICK x \in EntryType : x = Entry("graph_patched", CancelledBy(p), p)
      BY Appends
    <2>1. journal' = Append(journal, x)
      BY <1>6, <2>0, Appends
    <2>2. x.kind = "graph_patched" /\ x.patch = p
      BY <2>0 DEF Entry
    <2>3. /\ p \in PatchType /\ Acceptable(p, Graph)
          /\ node'[n] = Settled(p, n, Updated(p, n))
          /\ node[n] \in NodeState \cup {"absent"}
      BY <1>6, Appends DEF ApplyPatch, StoreTypeOK
    <2>4. /\ node'[n] # "absent" <=> node[n] # "absent" \/ n \in p.add
          /\ n \in p.add => node[n] = "absent"
      BY <2>3, PatchedNode
    <2>5. Adding(n)' = Adding(n) \cup (IF n \in p.add THEN {Next1} ELSE {})
      BY <1>0, <2>1, <2>2, EntriesAfter
    <2>6. PatchEntries' = PatchEntries \cup {Next1}
      BY <1>0, <2>1, <2>2, EntriesAfter
    <2>7. /\ \A i \in PatchEntries : journal'[i] = journal[i]
          /\ journal'[Next1] = x
      BY <1>0, <2>1, Appended DEF PatchEntries, Next1
    <2>8. edges' = edges \cup p.connect
      BY <1>6 DEF ApplyPatch
    <2>9. ASSUME NEW m \in Tasks
          PROVE  <<m, n>> \in edges' <=>
                   \E i \in PatchEntries' : <<m, n>> \in journal'[i].patch.connect
      BY <2>2, <2>6, <2>7, <2>8 DEF GraphRowsMatch
    <2>10. /\ node'[n] # "absent" <=> Adding(n)' # {}
           /\ \A i, j \in Adding(n)' : i = j
      BY <2>4, <2>5 DEF GraphRowsMatch
    <2> QED BY <2>9, <2>10 DEF GraphRowsMatch
  <1> QED BY <1>1, <1>2, <1>3, <1>4, <1>5, <1>6 DEF StoreNext

LEMMA RunningRowsStep ==
  ASSUME StoreTypeOK, StoreNext, NEW n \in Tasks, RunningRowsMatch(n)
  PROVE  RunningRowsMatch(n)'
  <1>0. journal \in Seq(EntryType)
    BY Appends
  <1>a. ASSUME NEW x \in EntryType, journal' = Append(journal, x),
               node'[n] = "running" <=> \/ x.kind = "task_started" /\ n \in x.tasks
                                        \/ node[n] = "running" /\ ~EndsIt(x, n)
        PROVE  RunningRowsMatch(n)'
    <2>1. Attempting(n)' <=> \/ x.kind = "task_started" /\ n \in x.tasks
                             \/ Attempting(n) /\ ~EndsIt(x, n)
      BY <1>0, <1>a, AttemptAfter
    <2>2. node[n] = "running" <=> Attempting(n)
      BY RunningIsAttempting
    <2>3. node'[n] = "running" <=> Attempting(n)'
      BY <1>a, <2>1, <2>2
    <2> QED BY <2>3 DEF RunningRowsMatch, Attempting
  <1>1. CASE Start
    <2>0. PICK x \in EntryType : x = Entry("run_started", {}, NoPatch)
      BY Appends
    <2>1. journal' = Append(journal, x)
      BY <1>1, <2>0, Appends
    <2> QED BY <1>1, <1>a, <2>0, <2>1 DEF Start, Entry, EndsIt
  <1>2. CASE Resume
    <2>0. PICK x \in EntryType : x = Entry("run_resumed", {}, NoPatch)
      BY Appends
    <2>1. journal' = Append(journal, x)
      BY <1>2, <2>0, Appends
    <2>2. node'[n] # "running"
      BY <1>2 DEF Resume, Requeued
    <2> QED BY <1>a, <2>0, <2>1, <2>2 DEF Entry, EndsIt
  <1>3. ASSUME NEW limit \in 1 .. Cardinality(Tasks), Launch(limit) PROVE RunningRowsMatch(n)'
    <2>0. PICK x \in EntryType : x = Entry("task_started", ReadyUpTo(limit), NoPatch)
      BY Appends
    <2>1. journal' = Append(journal, x)
      BY <1>3, <2>0, Appends
    <2>2. node'[n] = IF n \in ReadyUpTo(limit) THEN "running" ELSE node[n]
      BY <1>3 DEF Launch
    <2> QED BY <1>a, <2>0, <2>1, <2>2 DEF Entry, EndsIt
  <1>4. ASSUME NEW m \in Tasks, NEW o \in {"succeeded", "failed"}, RecordOutcome(m, o)
        PROVE RunningRowsMatch(n)'
    <2>0. PICK x \in EntryType : x = Entry(OutcomeKind(o), {m}, NoPatch)
      BY Appends
    <2>1. journal' = Append(journal, x)
      BY <1>4, <2>0, Appends
    <2>2. node'[n] = IF n = m THEN o ELSE node[n]
      BY <1>4 DEF RecordOutcome, StoreTypeOK
    <2> QED BY <1>a, <2>0, <2>1, <2>2 DEF Entry, EndsIt, OutcomeKind
  <1>5. ASSUME NEW m \in Tasks, RecordExternalEvent(m) PROVE RunningRowsMatch(n)'
    <2>0. PICK x \in EntryType : x = Entry("external", {m}, NoPatch)
      BY Appends
    <2>1. journal' = Append(journal, x)
      BY <1>5, <2>0, Appends
    <2> QED BY <1>5, <1>a, <2>0, <2>1 DEF RecordExternalEvent, Entry, EndsIt
  <1>6. ASSUME NEW p \in Patches, NEW t \in Triggers, ApplyPatch(p, t)
        PROVE  RunningRowsMatch(n)'
    <2>0. PICK x \in EntryType : x = Entry("graph_patched", CancelledBy(p), p)
      BY Appends
    <2>1. journal' = Append(journal, x)
      BY <1>6, <2>0, Appends
    <2>2. x.kind = "graph_patched" /\ x.tasks = CancelledBy(p)
      BY <2>0 DEF Entry
    <2>3. /\ p \in PatchType /\ Acceptable(p, Graph)
          /\ node'[n] = Settled(p, n, Updated(p, n))
          /\ node[n] \in NodeState \cup {"absent"}
      BY <1>6, Appends DEF ApplyPatch, StoreTypeOK
    <2>4. node'[n] = "running" <=> node[n] = "running" /\ n \notin CancelledBy(p)
      BY <2>3, PatchedNode
    <2> QED BY <1>a, <2>1, <2>2, <2>4 DEF EndsIt
  <1> QED BY <1>1, <1>2, <1>3, <1>4, <1>5, <1>6 DEF StoreNext

LEMMA JournalInit == StoreInit => JournalMatchesGraph
BY DEF StoreInit, JournalMatchesGraph, OutcomeRowsMatch, GraphRowsMatch, RunningRowsMatch,
       Outcomes, EntriesOf, Adding, PatchEntries

LEMMA JournalStep ==
  StoreTypeOK /\ JournalMatchesGraph /\ [StoreNext]_storeVars => JournalMatchesGraph'
  <1>1. ASSUME StoreTypeOK, JournalMatchesGraph, StoreNext PROVE JournalMatchesGraph'
    BY <1>1, OutcomeRowsStep, GraphRowsStep, RunningRowsStep DEF JournalMatchesGraph
  <1>2. ASSUME JournalMatchesGraph, UNCHANGED storeVars PROVE JournalMatchesGraph'
    BY <1>2 DEF storeVars, JournalMatchesGraph, OutcomeRowsMatch, GraphRowsMatch,
                RunningRowsMatch, Outcomes, EntriesOf, Adding, PatchEntries, EndsAttempt
  <1> QED BY <1>1, <1>2

\* The journal and the materialised rows never disagree.
THEOREM JournalAgrees == StoreSpec => []JournalMatchesGraph
BY TypeInit, TypeStep, JournalInit, JournalStep, PTL DEF StoreSpec

-----------------------------------------------------------------------------
(* Starts: after the parents' success, and never after a cancellation.      *)

\* The only entries that name started tasks are written by Launch.
LEMMA StartIsLaunch ==
  ASSUME StoreTypeOK, StoreNext
  PROVE  \E x \in EntryType :
           /\ journal' = Append(journal, x)
           /\ x.kind = "task_started" => \A n \in x.tasks : n \in Ready
           /\ x.kind = "graph_patched" => \E p \in Patches, t \in Triggers :
                                          ApplyPatch(p, t) /\ x.tasks = CancelledBy(p)
  <1> DEFINE Goal(x) ==
        /\ journal' = Append(journal, x)
        /\ x.kind = "task_started" => \A n \in x.tasks : n \in Ready
        /\ x.kind = "graph_patched" => \E p \in Patches, t \in Triggers :
                                       ApplyPatch(p, t) /\ x.tasks = CancelledBy(p)
  <1> SUFFICES \E x \in EntryType : Goal(x)
    OBVIOUS
  <1>1. CASE Start
    <2>0. PICK x \in EntryType : x = Entry("run_started", {}, NoPatch)
      BY Appends
    <2>1. journal' = Append(journal, x)
      BY <1>1, <2>0, Appends
    <2>2. x.kind \notin {"task_started", "graph_patched"}
      BY <2>0 DEF Entry
    <2> QED BY <2>1, <2>2
  <1>2. CASE Resume
    <2>0. PICK x \in EntryType : x = Entry("run_resumed", {}, NoPatch)
      BY Appends
    <2>1. journal' = Append(journal, x)
      BY <1>2, <2>0, Appends
    <2>2. x.kind \notin {"task_started", "graph_patched"}
      BY <2>0 DEF Entry
    <2> QED BY <2>1, <2>2
  <1>3. ASSUME NEW limit \in 1 .. Cardinality(Tasks), Launch(limit)
        PROVE  \E x \in EntryType : Goal(x)
    <2>0. PICK x \in EntryType : x = Entry("task_started", ReadyUpTo(limit), NoPatch)
      BY Appends
    <2>1. journal' = Append(journal, x)
      BY <1>3, <2>0, Appends
    <2>2. x.kind # "graph_patched" /\ \A n \in x.tasks : n \in Ready
      BY <2>0 DEF Entry, ReadyUpTo
    <2> QED BY <2>1, <2>2
  <1>4. ASSUME NEW n \in Tasks, NEW o \in {"succeeded", "failed"}, RecordOutcome(n, o)
        PROVE  \E x \in EntryType : Goal(x)
    <2>0. PICK x \in EntryType : x = Entry(OutcomeKind(o), {n}, NoPatch)
      BY Appends
    <2>1. journal' = Append(journal, x)
      BY <1>4, <2>0, Appends
    <2>2. x.kind \notin {"task_started", "graph_patched"}
      BY <2>0 DEF Entry, OutcomeKind
    <2> QED BY <2>1, <2>2
  <1>5. ASSUME NEW n \in Tasks, RecordExternalEvent(n) PROVE \E x \in EntryType : Goal(x)
    <2>0. PICK x \in EntryType : x = Entry("external", {n}, NoPatch)
      BY Appends
    <2>1. journal' = Append(journal, x)
      BY <1>5, <2>0, Appends
    <2>2. x.kind \notin {"task_started", "graph_patched"}
      BY <2>0 DEF Entry
    <2> QED BY <2>1, <2>2
  <1>6. ASSUME NEW p \in Patches, NEW t \in Triggers, ApplyPatch(p, t)
        PROVE  \E x \in EntryType : Goal(x)
    <2>0. PICK x \in EntryType : x = Entry("graph_patched", CancelledBy(p), p)
      BY Appends
    <2>1. journal' = Append(journal, x)
      BY <1>6, <2>0, Appends
    <2>2. x.kind = "graph_patched" /\ x.tasks = CancelledBy(p)
      BY <2>0 DEF Entry
    <2> QED BY <1>6, <2>1, <2>2
  <1> QED BY <1>1, <1>2, <1>3, <1>4, <1>5, <1>6 DEF StoreNext

LEMMA StartedStep ==
  StoreTypeOK /\ JournalMatchesGraph /\ StartedAfterParents /\ [StoreNext]_storeVars
    => StartedAfterParents'
  <1>1. ASSUME StoreTypeOK, JournalMatchesGraph, StartedAfterParents, StoreNext
        PROVE  StartedAfterParents'
    <2>0. journal \in Seq(EntryType)
      BY <1>1, Appends
    <2>1. PICK x \in EntryType :
            /\ journal' = Append(journal, x)
            /\ x.kind = "task_started" => \A n \in x.tasks : n \in Ready
      BY <1>1, StartIsLaunch
    <2>2. PICK L : L = Next1
      OBVIOUS
    <2>3. /\ DOMAIN journal' = DOMAIN journal \cup {L}
          /\ journal'[L] = x /\ L \in Nat
          /\ \A i \in DOMAIN journal : i \in Nat /\ i < L /\ journal'[i] = journal[i]
      BY <2>0, <2>1, <2>2, Appended DEF Next1
    <2> SUFFICES ASSUME NEW i \in DOMAIN journal', journal'[i].kind = "task_started",
                        NEW j \in PatchEntries', NEW n \in journal'[i].tasks, NEW m \in Tasks,
                        j < i, <<m, n>> \in journal'[j].patch.connect
                 PROVE  \E k \in EntriesOf("task_succeeded", m)' : k < i
      BY DEF StartedAfterParents
    <2>4. j \in DOMAIN journal /\ j \in PatchEntries
          /\ <<m, n>> \in journal[j].patch.connect
      <3>1. j \in DOMAIN journal' /\ journal'[j].kind = "graph_patched"
        BY DEF PatchEntries
      <3>2. j # L
        BY <2>3
      <3> QED BY <2>3, <3>1, <3>2 DEF PatchEntries
    <2>5. EntriesOf("task_succeeded", m) \subseteq EntriesOf("task_succeeded", m)'
      BY <2>0, <2>1, EntriesAfter
    <2>6. CASE i \in DOMAIN journal
      <3>1. journal[i].kind = "task_started" /\ n \in journal[i].tasks
        BY <2>3, <2>6
      <3>2. \E k \in EntriesOf("task_succeeded", m) : k < i
        BY <1>1, <2>4, <2>6, <3>1 DEF StartedAfterParents
      <3> QED BY <2>5, <3>2
    <2>7. CASE i = L
      <3>1. n \in Ready /\ n \in Tasks
        BY <2>1, <2>3, <2>7 DEF Ready
      <3>2. <<m, n>> \in edges
        BY <1>1, <2>4, <3>1 DEF JournalMatchesGraph, GraphRowsMatch
      <3>3. node[m] = "succeeded"
        BY <3>1, <3>2 DEF Ready, Unblocked
      <3>4. PICK k : k \in EntriesOf("task_succeeded", m)
        BY <1>1, <3>3 DEF JournalMatchesGraph, OutcomeRowsMatch
      <3>5. k \in DOMAIN journal
        BY <3>4 DEF EntriesOf
      <3> QED BY <2>3, <2>5, <2>7, <3>4, <3>5
    <2> QED BY <2>3, <2>6, <2>7
  <1>2. ASSUME StartedAfterParents, UNCHANGED storeVars PROVE StartedAfterParents'
    BY <1>2 DEF storeVars, StartedAfterParents, PatchEntries, EntriesOf
  <1> QED BY <1>1, <1>2

\* Every start in the journal comes after the success of the parents known by then.
THEOREM StartsFollowParents == StoreSpec => []StartedAfterParents
  <1>1. StoreInit => StartedAfterParents
    BY DEF StoreInit, StartedAfterParents
  <1> QED BY <1>1, StartedStep, TypeInit, TypeStep, JournalInit, JournalStep, PTL DEF StoreSpec

\* Without overlap, whatever the journal reports as cancelled is cancelled.
CancelledIsCancelled ==
  \A j \in PatchEntries : \A n \in journal[j].tasks : n \in Tasks /\ node[n] = "cancelled"

LEMMA CancelledStep ==
  ASSUME NoOverlap
  PROVE  StoreTypeOK /\ CancelledIsCancelled /\ CancelledNeverStarts /\ [StoreNext]_storeVars
           => CancelledIsCancelled' /\ CancelledNeverStarts'
  <1>1. ASSUME StoreTypeOK, CancelledIsCancelled, CancelledNeverStarts, StoreNext
        PROVE  CancelledIsCancelled' /\ CancelledNeverStarts'
    <2>0. journal \in Seq(EntryType)
      BY <1>1, Appends
    <2>1. PICK x \in EntryType :
            /\ journal' = Append(journal, x)
            /\ x.kind = "task_started" => \A n \in x.tasks : n \in Ready
            /\ x.kind = "graph_patched" => \E p \in Patches, t \in Triggers :
                                           ApplyPatch(p, t) /\ x.tasks = CancelledBy(p)
      BY <1>1, StartIsLaunch
    <2>2. PICK L : L = Next1
      OBVIOUS
    <2>3. /\ DOMAIN journal' = DOMAIN journal \cup {L}
          /\ journal'[L] = x /\ L \in Nat
          /\ \A i \in DOMAIN journal : i \in Nat /\ i < L /\ journal'[i] = journal[i]
      BY <2>0, <2>1, <2>2, Appended DEF Next1
    <2>4. ASSUME x.kind = "graph_patched", NEW n \in x.tasks
          PROVE  n \in Tasks /\ node'[n] = "cancelled"
      <3>1. PICK p \in Patches, t \in Triggers : ApplyPatch(p, t) /\ x.tasks = CancelledBy(p)
        BY <2>1, <2>4
      <3>2. p \in PatchType /\ n \in CancelledBy(p) /\ n \in Tasks
        BY <2>4, <3>1, PatchesAssumption DEF CancelledBy, PatchType
      <3>3. node'[n] = Settled(p, n, Updated(p, n))
        BY <3>1, <3>2 DEF ApplyPatch
      <3>4. n \in p.cancel => Updated(p, n) = "cancelled"
        BY NoOverlap, <3>2 DEF Updated, NoOverlap
      <3> QED BY <3>2, <3>3, <3>4 DEF CancelledBy, Settled, Live
    <2>5. CancelledIsCancelled'
      <3> SUFFICES ASSUME NEW j \in PatchEntries', NEW n \in journal'[j].tasks
                   PROVE  n \in Tasks /\ node'[n] = "cancelled"
        BY DEF CancelledIsCancelled
      <3>1. CASE j = L
        BY <2>3, <2>4, <3>1 DEF PatchEntries
      <3>2. CASE j \in DOMAIN journal
        <4>1. n \in Tasks /\ node[n] = "cancelled"
          BY <1>1, <2>3, <3>2 DEF PatchEntries, CancelledIsCancelled
        <4> QED BY <1>1, <4>1, SettledStep
      <3> QED BY <2>3, <3>1, <3>2 DEF PatchEntries
    <2>6. CancelledNeverStarts'
      <3> SUFFICES ASSUME NEW i \in DOMAIN journal', journal'[i].kind = "task_started",
                          NEW j \in PatchEntries', j < i,
                          NEW n \in journal'[i].tasks, n \in journal'[j].tasks
                   PROVE  FALSE
        BY DEF CancelledNeverStarts
      <3>1. j \in DOMAIN journal /\ j \in PatchEntries /\ n \in journal[j].tasks
        BY <2>3 DEF PatchEntries
      <3>2. CASE i \in DOMAIN journal
        BY <1>1, <2>3, <3>1, <3>2 DEF CancelledNeverStarts
      <3>3. CASE i = L
        <4>1. node[n] = "pending"
          BY <2>1, <2>3, <3>3 DEF Ready
        <4> QED BY <1>1, <3>1, <4>1 DEF CancelledIsCancelled
      <3> QED BY <2>3, <3>2, <3>3
    <2> QED BY <2>5, <2>6
  <1>2. ASSUME CancelledIsCancelled, CancelledNeverStarts, UNCHANGED storeVars
        PROVE  CancelledIsCancelled' /\ CancelledNeverStarts'
    BY <1>2 DEF storeVars, CancelledIsCancelled, CancelledNeverStarts, PatchEntries
  <1> QED BY <1>1, <1>2

\* If no patch both cancels and parks or resumes a task, a task reported as cancelled
\* is never started afterwards.  The hypothesis is needed: the run store_overlap
\* breaks the property with one such patch.
THEOREM CancellationHolds ==
  ASSUME NoOverlap PROVE StoreSpec => []CancelledNeverStarts
  <1>1. StoreInit => CancelledIsCancelled /\ CancelledNeverStarts
    BY DEF StoreInit, CancelledIsCancelled, CancelledNeverStarts, PatchEntries
  <1>2. StoreTypeOK /\ CancelledIsCancelled /\ CancelledNeverStarts /\ [StoreNext]_storeVars
          => CancelledIsCancelled' /\ CancelledNeverStarts'
    BY CancelledStep
  <1> QED BY <1>1, <1>2, TypeInit, TypeStep, PTL DEF StoreSpec
=============================================================================

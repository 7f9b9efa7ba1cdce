---------------------------- MODULE RunView_proofs ----------------------------
(***************************************************************************)
(* What a browser may hold of a run, and what it may draw, for every run,   *)
(* every journal, every cut of a tape and every surface that is proposed.   *)
(***************************************************************************)
EXTENDS RunView, GraphStore_proofs, FiniteSetTheorems, WellFoundedInduction

\* A property of numbers that fails has a least counterexample: the form of induction
\* that a set, rather than an operator, can carry.
LEMMA LeastMember ==
  ASSUME NEW S \in SUBSET Nat, S # {}
  PROVE  \E x \in S : \A y \in S : x <= y
  <1> DEFINE T == {0 .. n : n \in S}
  <1>1. T \subseteq FiniteSubsetsOf(Nat) /\ T # {}
    <2>1. ASSUME NEW n \in S PROVE 0 .. n \in SUBSET Nat /\ IsFiniteSet(0 .. n)
      BY FS_Interval
    <2> QED BY <2>1 DEF FiniteSubsetsOf
  <1>2. PICK I \in T : \A J \in T : ~(<<J, I>> \in StrictSubsetOrdering(Nat))
    BY <1>1, FS_StrictSubsetOrderingWellFounded, WFMin, Zenon
  <1>3. PICK x \in S : I = 0 .. x
    OBVIOUS
  <1>4. ASSUME NEW y \in S, y < x PROVE FALSE
    <2>1. 0 .. y \in T /\ 0 .. y \subseteq 0 .. x /\ x \in 0 .. x /\ x \notin 0 .. y
      BY <1>4
    <2>2. <<0 .. y, 0 .. x>> \in StrictSubsetOrdering(Nat)
      BY <2>1 DEF StrictSubsetOrdering
    <2> QED BY <1>2, <1>3, <2>1, <2>2
  <1> QED BY <1>4

-----------------------------------------------------------------------------
(* The data model of a journal: run_data_model is a fold over its entries.  *)

Reduced(j, model, i) ==
  CASE j[i].kind = "task_succeeded" -> [model EXCEPT !.results = @ \cup j[i].tasks]
    [] j[i].kind = "graph_patched" -> [model EXCEPT !.patches = Append(@, i)]
    [] OTHER -> model

IsFold(f, j, k) ==
  f = [i \in 0 .. k |-> IF i = 0 THEN EmptyState ELSE Reduced(j, f[i - 1], i)]

ModelOf(j, k) == (CHOOSE f : IsFold(f, j, k))[k]

\* The reducer of RunView for the journal as it is.
LEMMA ModelIsFold ==
  ASSUME NEW k PROVE DataModel(k) = ModelOf(journal, k)
BY DEF DataModel, ModelOf, IsFold, Reduced, WithDelta

\* One delta of it.
LEMMA ReducedIs ==
  ASSUME NEW model, NEW i PROVE WithDelta(model, i) = Reduced(journal, model, i)
BY DEF Reduced, WithDelta

\* There is such a fold of any journal.
LEMMA FoldExists ==
  ASSUME NEW j, NEW k \in Nat PROVE \E f : IsFold(f, j, k)
  <1> DEFINE S == {n \in Nat : ~ \E f : IsFold(f, j, n)}
  <1>1. SUFFICES S = {}
    OBVIOUS
  <1>2. SUFFICES ASSUME S # {} PROVE FALSE
    OBVIOUS
  <1>3. PICK n \in S : \A m \in S : n <= m
    <2> HIDE DEF S
    <2>1. S \subseteq Nat
      BY DEF S
    <2> QED BY <1>2, <2>1, LeastMember
  <1>4. CASE n = 0
    <2> DEFINE f == [i \in 0 .. 0 |-> EmptyState]
    <2>1. f = [i \in 0 .. n |-> IF i = 0 THEN EmptyState ELSE Reduced(j, f[i - 1], i)]
      BY <1>4
    <2> QED BY <2>1 DEF IsFold
  <1>5. CASE n > 0
    <2>1. n - 1 \in Nat /\ n - 1 \notin S
      BY <1>3, <1>5
    <2>2. PICK g : IsFold(g, j, n - 1)
      BY <2>1
    <2> DEFINE f == [i \in 0 .. n |-> IF i = n THEN Reduced(j, g[n - 1], n) ELSE g[i]]
    <2>3. ASSUME NEW i \in 0 .. n
          PROVE  f[i] = IF i = 0 THEN EmptyState ELSE Reduced(j, f[i - 1], i)
      <3>1. CASE i = n
        <4>1. i - 1 \in 0 .. n /\ i - 1 # n /\ i # 0 /\ i - 1 = n - 1
          BY <1>5, <3>1
        <4>2. f[i - 1] = g[n - 1]
          BY <4>1
        <4> QED BY <3>1, <4>1, <4>2
      <3>2. CASE i # n
        <4>1. i \in 0 .. (n - 1)
          BY <3>2
        <4>2. f[i] = g[i]
          BY <3>2
        <4>3. g[i] = IF i = 0 THEN EmptyState ELSE Reduced(j, g[i - 1], i)
          BY <2>2, <4>1 DEF IsFold
        <4>4. i # 0 => i - 1 \in 0 .. n /\ i - 1 # n
          BY <3>2
        <4>5. i # 0 => f[i - 1] = g[i - 1]
          BY <4>4
        <4> QED BY <4>2, <4>3, <4>5
      <3> QED BY <3>1, <3>2
    <2>4. f = [i \in 0 .. n |-> f[i]]
      OBVIOUS
    <2> HIDE DEF f
    <2>5. f = [i \in 0 .. n |-> IF i = 0 THEN EmptyState ELSE Reduced(j, f[i - 1], i)]
      BY <2>3, <2>4
    <2> QED BY <2>5 DEF IsFold
  <1> QED BY <1>4, <1>5

\* The model of a journal grows by one entry at a time.
LEMMA ModelSteps ==
  ASSUME NEW j, NEW k \in Nat
  PROVE  /\ ModelOf(j, 0) = EmptyState
         /\ ModelOf(j, k + 1) = Reduced(j, ModelOf(j, k), k + 1)
  <1>1. ASSUME NEW n \in Nat PROVE IsFold(CHOOSE f : IsFold(f, j, n), j, n)
    BY FoldExists
  <1>2. PICK z : z = CHOOSE f : IsFold(f, j, 0)
    OBVIOUS
  <1>3. ModelOf(j, 0) = EmptyState
    <2>1. IsFold(z, j, 0)
      BY <1>1, <1>2
    <2>2. z[0] = EmptyState
      BY <2>1 DEF IsFold
    <2> QED BY <1>2, <2>2 DEF ModelOf
  <1>4. PICK f : f = CHOOSE h : IsFold(h, j, k)
    OBVIOUS
  <1>5. PICK g : g = CHOOSE h : IsFold(h, j, k + 1)
    OBVIOUS
  <1>6. IsFold(f, j, k) /\ IsFold(g, j, k + 1)
    BY <1>1, <1>4, <1>5
  <1> DEFINE S == {i \in 0 .. k : f[i] # g[i]}
  <1>7. S = {}
    <2> SUFFICES ASSUME S # {} PROVE FALSE
      OBVIOUS
    <2>1. PICK i \in S : \A m \in S : i <= m
      <3> HIDE DEF S
      <3>1. S \subseteq Nat
        BY DEF S
      <3> QED BY <3>1, LeastMember
    <2>2. /\ f[i] = IF i = 0 THEN EmptyState ELSE Reduced(j, f[i - 1], i)
          /\ g[i] = IF i = 0 THEN EmptyState ELSE Reduced(j, g[i - 1], i)
      BY <1>6, <2>1 DEF IsFold
    <2>3. i # 0 => f[i - 1] = g[i - 1]
      <3>1. i # 0 => i - 1 \in 0 .. k /\ i - 1 \notin S
        BY <2>1
      <3> QED BY <3>1
    <2> QED BY <2>1, <2>2, <2>3
  <1>8. f[k] = g[k]
    BY <1>7
  <1>9. g[k + 1] = Reduced(j, g[k], k + 1)
    <2>1. k + 1 \in 0 .. k + 1 /\ k + 1 # 0 /\ (k + 1) - 1 = k
      OBVIOUS
    <2> QED BY <1>6, <2>1 DEF IsFold
  <1>10. ModelOf(j, k) = f[k] /\ ModelOf(j, k + 1) = g[k + 1]
    BY <1>4, <1>5 DEF ModelOf
  <1> QED BY <1>3, <1>8, <1>9, <1>10

\* Entries behind the k-th do not matter to the model of the first k.
LEMMA ModelOfPrefix ==
  ASSUME NEW j, NEW h, NEW k \in Nat, \A i \in 1 .. k : h[i] = j[i]
  PROVE  ModelOf(h, k) = ModelOf(j, k)
  <1> DEFINE S == {n \in 0 .. k : ModelOf(h, n) # ModelOf(j, n)}
  <1>1. SUFFICES ASSUME S # {} PROVE FALSE
    OBVIOUS
  <1>2. PICK n \in S : \A m \in S : n <= m
    <2> HIDE DEF S
    <2>1. S \subseteq Nat
      BY DEF S
    <2> QED BY <1>1, <2>1, LeastMember
  <1>3. n # 0
    BY <1>2, ModelSteps
  <1>4. PICK m \in 0 .. k : n = m + 1 /\ m \notin S
    <2>1. n - 1 \in 0 .. k /\ n = (n - 1) + 1 /\ n - 1 \notin S
      BY <1>2, <1>3
    <2> QED BY <2>1
  <1>5. ModelOf(h, m) = ModelOf(j, m)
    BY <1>4
  <1>6. /\ ModelOf(h, m + 1) = Reduced(h, ModelOf(h, m), m + 1)
        /\ ModelOf(j, m + 1) = Reduced(j, ModelOf(j, m), m + 1)
    BY ModelSteps
  <1>7. h[m + 1] = j[m + 1]
    BY <1>2, <1>4
  <1>8. Reduced(h, ModelOf(h, m), m + 1) = Reduced(j, ModelOf(j, m), m + 1)
    BY <1>5, <1>7 DEF Reduced
  <1> QED BY <1>2, <1>4, <1>6, <1>8

\* What the model of the first k entries consists of.
Told(j, k, kind) == {i \in 1 .. k : j[i].kind = kind}
Faithful(j, k, model) ==
  /\ model = [results |-> model.results, patches |-> model.patches]
  /\ model.results = UNION {j[i].tasks : i \in Told(j, k, "task_succeeded")}
  /\ model.patches \in Seq(Nat)
  /\ {model.patches[a] : a \in DOMAIN model.patches} = Told(j, k, "graph_patched")
  /\ \A a, b \in DOMAIN model.patches : a < b => model.patches[a] < model.patches[b]

\* A delta adds one entry to a prefix.
LEMMA ReducedIsFaithful ==
  ASSUME NEW j, NEW k \in Nat, NEW model, Faithful(j, k, model)
  PROVE  Faithful(j, k + 1, Reduced(j, model, k + 1))
  <1> DEFINE kind == j[k + 1].kind
             news == Reduced(j, model, k + 1)
  <1>0. SUFFICES Faithful(j, k + 1, news)
    OBVIOUS
  <1>1. \A c : Told(j, k + 1, c) = Told(j, k, c) \cup (IF kind = c THEN {k + 1} ELSE {})
    BY DEF Told
  <1>2. CASE kind = "task_succeeded"
    <2>1. news = [results |-> model.results \cup j[k + 1].tasks, patches |-> model.patches]
      BY <1>2 DEF Reduced, Faithful
    <2>2. Told(j, k + 1, "graph_patched") = Told(j, k, "graph_patched")
      BY <1>1, <1>2
    <2>3. Told(j, k + 1, "task_succeeded") = Told(j, k, "task_succeeded") \cup {k + 1}
      BY <1>1, <1>2
    <2>4. news.results = UNION {j[i].tasks : i \in Told(j, k + 1, "task_succeeded")}
      BY <2>1, <2>3 DEF Faithful
    <2>5. news.patches = model.patches /\ news = [results |-> news.results, patches |-> news.patches]
      BY <2>1
    <2> HIDE DEF news
    <2> QED BY <2>2, <2>4, <2>5 DEF Faithful
  <1>3. CASE kind = "graph_patched"
    <2>1. news = [results |-> model.results, patches |-> Append(model.patches, k + 1)]
      BY <1>3 DEF Reduced, Faithful
    <2>2. Told(j, k + 1, "graph_patched") = Told(j, k, "graph_patched") \cup {k + 1}
      BY <1>1, <1>3
    <2>3. Told(j, k + 1, "task_succeeded") = Told(j, k, "task_succeeded")
      BY <1>1, <1>3
    <2>4. /\ news.results = model.results
          /\ news.patches = Append(model.patches, k + 1)
          /\ news = [results |-> news.results, patches |-> news.patches]
      BY <2>1
    <2> HIDE DEF news
    <2>5. PICK old, new : old = model.patches /\ new = news.patches
      OBVIOUS
    <2>6. old \in Seq(Nat) /\ new = Append(old, k + 1)
      BY <2>4, <2>5 DEF Faithful
    <2>7. /\ new \in Seq(Nat) /\ DOMAIN new = DOMAIN old \cup {Len(old) + 1}
          /\ new[Len(old) + 1] = k + 1
          /\ \A a \in DOMAIN old : new[a] = old[a] /\ a \in Nat /\ a < Len(old) + 1
          /\ Len(old) \in Nat
      BY <2>6
    <2>8. {new[a] : a \in DOMAIN new} = {old[a] : a \in DOMAIN old} \cup {k + 1}
      BY <2>7
    <2>9. ASSUME NEW a \in DOMAIN old PROVE old[a] < k + 1
      <3>1. old[a] \in {model.patches[b] : b \in DOMAIN model.patches}
        BY <2>5
      <3>2. old[a] \in 1 .. k
        BY <3>1 DEF Faithful, Told
      <3> QED BY <3>2
    <2>10. \A a, b \in DOMAIN old : a < b => old[a] < old[b]
      BY <2>5 DEF Faithful
    <2>11. \A a, b \in DOMAIN new : a < b => new[a] < new[b]
      BY <2>7, <2>9, <2>10
    <2> QED BY <2>2, <2>3, <2>4, <2>5, <2>7, <2>8, <2>11 DEF Faithful
  <1>4. CASE kind \notin {"task_succeeded", "graph_patched"}
    <2>1. news = model
      BY <1>4 DEF Reduced
    <2>2. /\ Told(j, k + 1, "graph_patched") = Told(j, k, "graph_patched")
          /\ Told(j, k + 1, "task_succeeded") = Told(j, k, "task_succeeded")
      BY <1>1, <1>4
    <2> HIDE DEF news
    <2> QED BY <2>1, <2>2 DEF Faithful
  <1> QED BY <1>2, <1>3, <1>4

\* A folded model holds the patches of its prefix, each once and in order.
LEMMA ModelIsFaithful ==
  ASSUME NEW j, NEW k \in Nat PROVE Faithful(j, k, ModelOf(j, k))
  <1> DEFINE S == {n \in Nat : ~ Faithful(j, n, ModelOf(j, n))}
  <1>1. SUFFICES ASSUME S # {} PROVE FALSE
    OBVIOUS
  <1>2. PICK n \in S : \A m \in S : n <= m
    <2> HIDE DEF S
    <2>1. S \subseteq Nat
      BY DEF S
    <2> QED BY <1>1, <2>1, LeastMember
  <1>3. CASE n = 0
    <2>1. ModelOf(j, 0) = [results |-> {}, patches |-> <<>>]
      BY ModelSteps DEF EmptyState
    <2>2. \A c : Told(j, 0, c) = {}
      BY DEF Told
    <2>3. Faithful(j, 0, [results |-> {}, patches |-> <<>>])
      BY <2>2 DEF Faithful
    <2> QED BY <1>2, <1>3, <2>1, <2>3
  <1>4. CASE n # 0
    <2>1. PICK m \in Nat : n = m + 1 /\ m \notin S
      <3>1. n - 1 \in Nat /\ n = (n - 1) + 1 /\ n - 1 \notin S
        BY <1>2, <1>4
      <3> QED BY <3>1
    <2>2. Faithful(j, m, ModelOf(j, m))
      BY <2>1
    <2> QED BY <1>2, <2>1, <2>2, ReducedIsFaithful, ModelSteps
  <1> QED BY <1>3, <1>4

-----------------------------------------------------------------------------
(* The run, as a browser sees it: steps of the store.                       *)

\* The run is a client of the store.
LEMMA RunStepIsStoreStep == RunStep => StoreNext
  <1> SUFFICES ASSUME RunStep PROVE StoreNext
    OBVIOUS
  <1>1. CASE Launch(Cardinality(Tasks))
    <2>1. PICK r \in ReadyUpTo(Cardinality(Tasks)) : TRUE
      BY <1>1 DEF Launch
    <2>2. r \in Tasks
      BY <2>1 DEF ReadyUpTo, Ready
    <2>3. Cardinality(Tasks) \in 1 .. Cardinality(Tasks)
      <3>1. Cardinality(Tasks) \in Nat /\ Cardinality(Tasks) # 0
        BY <2>2, FS_CardinalityType, FS_EmptySet, ViewAssumption
      <3> QED BY <3>1
    <2> QED BY <1>1, <2>3 DEF StoreNext
  <1>2. CASE Compose
    BY <1>2, ViewAssumption DEF Compose, StoreNext
  <1>3. ASSUME NEW p \in Patches, NEW t \in Unplanned(journal), ApplyPatch(p, t)
        PROVE  StoreNext
    <2>1. t \in Triggers
      BY DEF Unplanned, Triggers
    <2> QED BY <1>3, <2>1 DEF StoreNext
  <1> QED BY <1>1, <1>2, <1>3 DEF RunStep, StoreNext

\* A journal only grows, and behind a finish by entries without a delta.
LEMMA JournalGoesOn ==
  ASSUME StoreTypeOK, FinishedIsQuiet, [StoreNext]_storeVars
  PROVE  /\ Len(journal) \in Nat /\ Len(journal') \in Nat /\ Len(journal) <= Len(journal')
         /\ \A k \in 0 .. Len(journal) : ModelOf(journal', k) = ModelOf(journal, k)
         /\ run = "finished" =>
              ModelOf(journal', Len(journal')) = ModelOf(journal, Len(journal))
  <1>0. journal \in Seq(EntryType) /\ Len(journal) \in Nat
    BY DEF StoreTypeOK, EntryType
  <1>s. StoreNext \/ UNCHANGED storeVars
    OBVIOUS
  <1>1. CASE UNCHANGED storeVars
    <2>1. journal' = journal
      BY <1>1 DEF storeVars
    <2> QED BY <1>0, <2>1
  <1>2. CASE StoreNext
    <2>1. PICK x \in EntryType :
            /\ journal' = Append(journal, x)
            /\ run = "finished" => x.kind \notin {"task_succeeded", "graph_patched"}
      <3>1. CASE Start \/ Resume
        BY <1>0, <3>1, Appends, EntryFields DEF Start
      <3>2. ASSUME NEW limit \in 1 .. Cardinality(Tasks), Launch(limit)
            PROVE \E x \in EntryType :
                    /\ journal' = Append(journal, x)
                    /\ run = "finished" => x.kind \notin {"task_succeeded", "graph_patched"}
        BY <1>0, <3>2, Appends, EntryFields
      <3>3. ASSUME NEW n \in Tasks, NEW o \in {"succeeded", "failed"}, RecordOutcome(n, o)
            PROVE \E x \in EntryType :
                    /\ journal' = Append(journal, x)
                    /\ run = "finished" => x.kind \notin {"task_succeeded", "graph_patched"}
        <4>1. run # "finished"
          BY <3>3 DEF RecordOutcome, CanRecord, FinishedIsQuiet, Live
        <4> QED BY <1>0, <3>3, <4>1, Appends
      <3>4. ASSUME NEW n \in Tasks, RecordExternalEvent(n)
            PROVE \E x \in EntryType :
                    /\ journal' = Append(journal, x)
                    /\ run = "finished" => x.kind \notin {"task_succeeded", "graph_patched"}
        <4> DEFINE x == Entry("external", {n}, NoPatch)
        <4>1. x \in EntryType /\ journal' = Append(journal, x)
          BY <3>4, Appends
        <4>2. x.kind = "external"
          BY DEF Entry
        <4> HIDE DEF x
        <4> QED BY <4>1, <4>2
      <3>5. ASSUME NEW p \in Patches, NEW t \in Triggers, ApplyPatch(p, t)
            PROVE \E x \in EntryType :
                    /\ journal' = Append(journal, x)
                    /\ run = "finished" => x.kind \notin {"task_succeeded", "graph_patched"}
        <4>1. run # "finished"
          BY <3>5 DEF ApplyPatch, Acceptable, Graph
        <4> QED BY <1>0, <3>5, <4>1, Appends
      <3> QED BY <1>2, <3>1, <3>2, <3>3, <3>4, <3>5 DEF StoreNext
    <2>2. /\ Len(journal') = Len(journal) + 1
          /\ \A i \in 1 .. Len(journal) : journal'[i] = journal[i]
          /\ journal'[Len(journal) + 1] = x
      BY <1>0, <2>1
    <2>3. ASSUME NEW k \in 0 .. Len(journal)
          PROVE  ModelOf(journal', k) = ModelOf(journal, k)
      <3>1. k \in Nat /\ \A i \in 1 .. k : journal'[i] = journal[i]
        BY <1>0, <2>2
      <3> QED BY <3>1, ModelOfPrefix
    <2>4. ASSUME run = "finished"
          PROVE  ModelOf(journal', Len(journal')) = ModelOf(journal, Len(journal))
      <3>1. ModelOf(journal', Len(journal')) =
              Reduced(journal', ModelOf(journal', Len(journal)), Len(journal) + 1)
        BY <1>0, <2>2, ModelSteps
      <3>2. journal'[Len(journal) + 1].kind \notin {"task_succeeded", "graph_patched"}
        BY <2>1, <2>2, <2>4
      <3>3. ModelOf(journal', Len(journal')) = ModelOf(journal', Len(journal))
        BY <3>1, <3>2 DEF Reduced
      <3> QED BY <1>0, <2>3, <3>3
    <2> QED BY <1>0, <2>2, <2>3, <2>4
  <1> QED BY <1>s, <1>1, <1>2, Zenon

-----------------------------------------------------------------------------
(* The browser.                                                             *)

\* What a first tape delivers is folded entry by entry; after a reconnection nothing is
\* adopted before the snapshot, and nothing but the snapshot.
FirstTape ==
  ~reconnected => /\ ~rebuilt /\ next # 0
                  /\ held = ModelOf(journal, next - 1)
                  /\ link \in {"away", "connecting"} => next = 1
SecondTape ==
  reconnected /\ ~rebuilt => /\ \E k \in 0 .. Len(journal) : held = ModelOf(journal, k)
                             /\ link = "streaming" => next = 0
Rebuilt ==
  rebuilt => held = ModelOf(journal, tape.upto) /\ link \notin {"away", "connecting"}

\* A tape that tells of the finish holds every delta of the run.
TapeIsFinal ==
  tape.finished => /\ run = "finished"
                   /\ ModelOf(journal, tape.upto) = ModelOf(journal, Len(journal))

DoneIsClosed ==
  done => tape.finished /\ link = "closed" /\ held = ModelOf(journal, tape.upto)

ViewTypeOK ==
  /\ link \in {"away", "connecting", "streaming", "closed"}
  /\ reconnected \in BOOLEAN /\ rebuilt \in BOOLEAN /\ done \in BOOLEAN
  /\ tape \in [upto : 0 .. Len(journal), finished : BOOLEAN]
  /\ next \in 0 .. tape.upto + 1

StoreInv == StoreTypeOK /\ FinishedIsQuiet
ViewInv == ViewTypeOK /\ FirstTape /\ SecondTape /\ Rebuilt /\ TapeIsFinal /\ DoneIsClosed

\* The invariant holds at first.
LEMMA ViewInit == Init => StoreInv /\ ViewInv
  <1> SUFFICES ASSUME Init PROVE StoreInv /\ ViewInv
    OBVIOUS
  <1>1. StoreInv
    BY TypeInit, QuietInit DEF Init, StoreInv
  <1>2. journal = <<>> /\ Len(journal) = 0
    BY DEF Init, StoreInit
  <1>3. ViewTypeOK
    <2>1. tape = [upto |-> 0, finished |-> FALSE] /\ next = 1 /\ 0 \in 0 .. Len(journal)
      BY <1>2 DEF Init, NoTape
    <2>2. tape \in [upto : 0 .. Len(journal), finished : BOOLEAN] /\ tape.upto = 0
      BY <2>1
    <2>3. next \in 0 .. tape.upto + 1
      BY <2>1, <2>2
    <2> QED BY <2>2, <2>3 DEF Init, ViewTypeOK
  <1>4. FirstTape
    <2>1. next - 1 = 0
      BY DEF Init
    <2>2. ModelOf(journal, next - 1) = EmptyState
      BY <2>1, ModelSteps
    <2> QED BY <2>2 DEF Init, FirstTape
  <1>5. SecondTape /\ Rebuilt /\ TapeIsFinal /\ DoneIsClosed
    BY DEF Init, SecondTape, Rebuilt, TapeIsFinal, DoneIsClosed, NoTape
  <1> QED BY <1>1, <1>3, <1>4, <1>5 DEF ViewInv

\* While the run goes on, what a browser holds stays what it was.
LEMMA RunKeepsView ==
  ASSUME StoreInv, ViewInv, [StoreNext]_storeVars, UNCHANGED viewVars PROVE ViewInv'
  <1>1. /\ Len(journal) \in Nat /\ Len(journal') \in Nat /\ Len(journal) <= Len(journal')
        /\ \A k \in 0 .. Len(journal) : ModelOf(journal', k) = ModelOf(journal, k)
        /\ run = "finished" => ModelOf(journal', Len(journal')) = ModelOf(journal, Len(journal))
    BY JournalGoesOn DEF StoreInv
  <1>2. run = "finished" => run' = "finished"
    BY SettledStep DEF StoreInv
  <1>3. /\ link' = link /\ reconnected' = reconnected /\ tape' = tape /\ next' = next
        /\ held' = held /\ rebuilt' = rebuilt /\ done' = done
    BY DEF viewVars
  <1>4. /\ tape.upto \in 0 .. Len(journal) /\ next \in 0 .. tape.upto + 1
        /\ tape \in [upto : 0 .. Len(journal), finished : BOOLEAN]
    BY DEF ViewInv, ViewTypeOK
  <1>5. ViewTypeOK'
    <2>1. tape \in [upto : 0 .. Len(journal'), finished : BOOLEAN]
      BY <1>1, <1>4
    <2> QED BY <1>3, <2>1 DEF ViewInv, ViewTypeOK
  <1>6. FirstTape'
    <2>1. next # 0 => next - 1 \in 0 .. Len(journal)
      BY <1>1, <1>4
    <2> QED BY <1>1, <1>3, <2>1 DEF ViewInv, FirstTape
  <1>7. SecondTape'
    <2>1. ASSUME NEW k \in 0 .. Len(journal), held = ModelOf(journal, k)
          PROVE  \E m \in 0 .. Len(journal') : held = ModelOf(journal', m)
      <3>1. k \in 0 .. Len(journal')
        BY <1>1
      <3> QED BY <1>1, <2>1, <3>1
    <2> QED BY <1>3, <2>1 DEF ViewInv, SecondTape
  <1>8. Rebuilt' /\ TapeIsFinal' /\ DoneIsClosed'
    BY <1>1, <1>2, <1>3, <1>4 DEF ViewInv, Rebuilt, TapeIsFinal, DoneIsClosed
  <1> QED BY <1>5, <1>6, <1>7, <1>8 DEF ViewInv

\* Every step of the browser leaves the run alone, so that all its models stay what they were.
LEMMA BrowserKeepsView ==
  ASSUME StoreInv, ViewInv, Open \/ Follows \/ Drops PROVE ViewInv' /\ UNCHANGED storeVars
  <1> DEFINE L == Len(journal)
  <1>0. UNCHANGED <<storeVars, composed>>
    BY DEF Open, Follows, Connected, Frame, Finished, TapeEnds, Drops, Lost
  <1> SUFFICES ViewInv'
    BY <1>0
  <1>1. run' = run /\ journal' = journal
    BY <1>0 DEF storeVars
  <1>2. L \in Nat
    BY DEF StoreInv, StoreTypeOK
  <1>3. /\ tape \in [upto : 0 .. L, finished : BOOLEAN] /\ tape.upto \in 0 .. L
        /\ next \in 0 .. tape.upto + 1 /\ next \in Nat
        /\ reconnected \in BOOLEAN /\ rebuilt \in BOOLEAN /\ done \in BOOLEAN
    BY <1>2 DEF ViewInv, ViewTypeOK
  <1>4. CASE Open
    <2>1. ViewTypeOK'
      BY <1>1, <1>3, <1>4 DEF Open, ViewInv, ViewTypeOK
    <2>2. FirstTape' /\ SecondTape' /\ Rebuilt' /\ TapeIsFinal' /\ DoneIsClosed'
      BY <1>1, <1>3, <1>4 DEF Open, ViewInv, FirstTape, SecondTape, Rebuilt, TapeIsFinal,
                              DoneIsClosed
    <2> QED BY <2>1, <2>2 DEF ViewInv
  <1>5. CASE Connected
    <2>1. /\ tape' = [upto |-> L, finished |-> run = "finished"]
          /\ next' = IF reconnected THEN 0 ELSE 1
          /\ link = "connecting" /\ link' = "streaming"
          /\ reconnected' = reconnected /\ held' = held /\ rebuilt' = rebuilt /\ done' = done
      BY <1>5 DEF Connected
    <2>2. /\ tape' \in [upto : 0 .. L, finished : BOOLEAN]
          /\ tape'.upto = L /\ tape'.finished = (run = "finished")
      BY <1>2, <2>1
    <2>3. ViewTypeOK'
      BY <1>1, <1>2, <1>3, <2>1, <2>2 DEF ViewTypeOK
    <2>4. FirstTape'
      BY <1>1, <2>1 DEF ViewInv, FirstTape
    <2>5. SecondTape'
      BY <1>1, <2>1 DEF ViewInv, SecondTape
    <2>6. ~rebuilt /\ ~done
      BY <1>3, <2>1 DEF ViewInv, Rebuilt, DoneIsClosed
    <2>7. Rebuilt' /\ TapeIsFinal' /\ DoneIsClosed'
      BY <1>1, <2>1, <2>2, <2>6 DEF Rebuilt, TapeIsFinal, DoneIsClosed
    <2> QED BY <2>3, <2>4, <2>5, <2>7 DEF ViewInv
  <1>6. CASE Frame
    <2>1. /\ link = "streaming" /\ next <= tape.upto /\ next' = next + 1
          /\ rebuilt' = (rebuilt \/ next = 0)
          /\ link' = link /\ reconnected' = reconnected /\ tape' = tape /\ done' = done
          /\ held' = IF next = 0 THEN DataModel(tape.upto)
                     ELSE IF ~rebuilt THEN WithDelta(held, next) ELSE held
      BY <1>6 DEF Frame, Folds
    <2>2. ViewTypeOK'
      <3>1. next' \in 0 .. tape.upto + 1
        BY <1>2, <1>3, <2>1
      <3> QED BY <1>1, <1>3, <2>1, <3>1 DEF ViewInv, ViewTypeOK
    <2>3. FirstTape'
      <3> SUFFICES ASSUME ~reconnected
                   PROVE  /\ ~rebuilt' /\ next' # 0
                          /\ held' = ModelOf(journal, next' - 1)
        BY <1>1, <2>1 DEF FirstTape
      <3>1. ~rebuilt /\ next # 0 /\ held = ModelOf(journal, next - 1)
        BY DEF ViewInv, FirstTape
      <3>2. next - 1 \in Nat /\ (next - 1) + 1 = next /\ next' - 1 = next
        BY <1>3, <2>1, <3>1
      <3>3. held' = Reduced(journal, ModelOf(journal, next - 1), next)
        BY <2>1, <3>1, ReducedIs
      <3>4. held' = ModelOf(journal, next)
        BY <3>2, <3>3, ModelSteps
      <3> QED BY <1>3, <2>1, <3>1, <3>2, <3>4
    <2>4. SecondTape'
      BY <1>1, <2>1 DEF ViewInv, SecondTape
    <2>5. Rebuilt'
      <3>1. next = 0 => held' = ModelOf(journal, tape.upto)
        BY <2>1, ModelIsFold
      <3>2. next # 0 /\ rebuilt => held' = ModelOf(journal, tape.upto)
        BY <2>1 DEF ViewInv, Rebuilt
      <3> QED BY <1>1, <2>1, <3>1, <3>2 DEF Rebuilt
    <2>6. TapeIsFinal' /\ DoneIsClosed'
      BY <1>1, <2>1 DEF ViewInv, TapeIsFinal, DoneIsClosed
    <2> QED BY <2>2, <2>3, <2>4, <2>5, <2>6 DEF ViewInv
  <1>7. CASE Finished
    <2>1. /\ link = "streaming" /\ next > tape.upto /\ tape.finished
          /\ done' = TRUE /\ link' = "closed"
          /\ reconnected' = reconnected /\ tape' = tape /\ next' = next
          /\ held' = held /\ rebuilt' = rebuilt
      BY <1>7 DEF Finished, TellsFinish
    <2>2. next = tape.upto + 1 /\ next # 0 /\ next - 1 = tape.upto
      BY <1>3, <2>1
    <2>3. held = ModelOf(journal, tape.upto)
      BY <1>3, <2>1, <2>2 DEF ViewInv, FirstTape, SecondTape, Rebuilt
    <2>4. ViewTypeOK'
      BY <1>1, <1>3, <2>1 DEF ViewTypeOK
    <2>5. FirstTape' /\ SecondTape' /\ Rebuilt' /\ TapeIsFinal' /\ DoneIsClosed'
      BY <1>1, <2>1, <2>3 DEF ViewInv, FirstTape, SecondTape, Rebuilt, TapeIsFinal, DoneIsClosed
    <2> QED BY <2>4, <2>5 DEF ViewInv
  <1>8. CASE TapeEnds \/ Drops
    <2>1. /\ link \in {"connecting", "streaming"}
          /\ IF ~reconnected THEN link' = "connecting" /\ reconnected' = TRUE
             ELSE link' = "closed" /\ reconnected' = reconnected
          /\ tape' = tape /\ next' = next /\ held' = held /\ rebuilt' = rebuilt /\ done' = done
      BY <1>8 DEF TapeEnds, Drops, Lost, TriesAgain
    <2>2. ViewTypeOK'
      BY <1>1, <1>3, <2>1 DEF ViewTypeOK
    <2>3. reconnected'
      BY <1>3, <2>1
    <2>4. SecondTape'
      <3>1. CASE reconnected
        BY <1>1, <2>1, <3>1 DEF ViewInv, SecondTape
      <3>2. CASE ~reconnected
        <4>1. next - 1 \in 0 .. L /\ held = ModelOf(journal, next - 1)
          BY <1>2, <1>3, <3>2 DEF ViewInv, FirstTape
        <4> QED BY <1>1, <2>1, <3>2, <4>1 DEF SecondTape
      <3> QED BY <3>1, <3>2
    <2>5. Rebuilt'
      BY <1>1, <1>3, <2>1 DEF ViewInv, FirstTape, Rebuilt
    <2>6. FirstTape' /\ TapeIsFinal' /\ DoneIsClosed'
      BY <1>1, <2>1, <2>3 DEF ViewInv, FirstTape, TapeIsFinal, DoneIsClosed
    <2> QED BY <2>2, <2>4, <2>5, <2>6 DEF ViewInv
  <1> QED BY <1>0, <1>4, <1>5, <1>6, <1>7, <1>8 DEF Follows

\* Every step of the run is one of the store, every other step leaves the store alone.
LEMMA ViewStep == StoreInv /\ ViewInv /\ [Next]_vars => StoreInv' /\ ViewInv'
  <1> SUFFICES ASSUME StoreInv, ViewInv, [Next]_vars PROVE StoreInv' /\ ViewInv'
    OBVIOUS
  <1>1. [StoreNext]_storeVars => StoreInv'
    BY TypeStep, QuietStep DEF StoreInv
  <1>2. CASE RunStep
    BY <1>1, <1>2, RunStepIsStoreStep, RunKeepsView DEF RunStep
  <1>3. CASE Open \/ Follows \/ Drops
    BY <1>1, <1>3, BrowserKeepsView
  <1>4. CASE UNCHANGED vars
    BY <1>1, <1>4, RunKeepsView DEF vars
  <1> QED BY <1>2, <1>3, <1>4 DEF Next

\* What is held after each frame of each tape, and what a tape that tells of the finish
\* contains, whatever the run commits meanwhile and whenever the connection breaks.
THEOREM ViewInvariance == Spec => [](StoreInv /\ ViewInv)
BY ViewInit, ViewStep, PTL DEF Spec

\* What the browser holds is the model of a prefix.
LEMMA HeldIsAModel ==
  ASSUME StoreInv, ViewInv PROVE \E k \in 0 .. Len(journal) : held = ModelOf(journal, k)
  <1>1. Len(journal) \in Nat
    BY DEF StoreInv, StoreTypeOK
  <1>2. tape.upto \in 0 .. Len(journal) /\ next \in 0 .. tape.upto + 1
    BY DEF ViewInv, ViewTypeOK
  <1>3. CASE ~reconnected
    <2>1. next - 1 \in 0 .. Len(journal) /\ held = ModelOf(journal, next - 1)
      BY <1>1, <1>2, <1>3 DEF ViewInv, FirstTape
    <2> QED BY <2>1
  <1>4. CASE reconnected
    BY <1>2, <1>4 DEF ViewInv, SecondTape, Rebuilt
  <1> QED BY <1>3, <1>4

\* The model a browser holds is that of a prefix of the journal, each patch once and in
\* order, over a dropped connection and a second tape.
THEOREM BrowserHoldsAPrefix == Spec => []HoldsAPrefix
  <1>1. StoreInv /\ ViewInv => HoldsAPrefix
    <2> SUFFICES ASSUME StoreInv, ViewInv PROVE HoldsAPrefix
      OBVIOUS
    <2>1. PICK k \in 0 .. Len(journal) : held = ModelOf(journal, k)
      BY HeldIsAModel
    <2>2. Faithful(journal, k, held)
      BY <2>1, ModelIsFaithful
    <2> QED BY <2>2 DEF HoldsAPrefix, Faithful, Told
  <1> QED BY <1>1, ViewInvariance, PTL

\* A browser that says "run finished" holds the final model of the run.
THEOREM FinishedViewIsFinal == Spec => []FinishedIsFinal
  <1>1. ViewInv => FinishedIsFinal
    BY ModelIsFold DEF ViewInv, DoneIsClosed, TapeIsFinal, FinishedIsFinal
  <1> QED BY <1>1, ViewInvariance, PTL

-----------------------------------------------------------------------------
(* Reached: what is below a set of components is the least set with them    *)
(* that is closed under the children of containers.                         *)

Below(drawing, S) == S \cup UNION {c.children : c \in {d \in drawing : d.id \in S}}

IsSearch(f, drawing, from, k) ==
  f = [i \in 0 .. k |-> IF i = 0 THEN from ELSE Below(drawing, f[i - 1])]

Layer(drawing, from, k) == (CHOOSE f : IsSearch(f, drawing, from, k))[k]

Drawing(components) == {c \in components : c.type \in Containers}
Ids(components) == {c.id : c \in components}

\* What is reached is the last layer of the search.
LEMMA ReachedIsLayer ==
  ASSUME NEW components, NEW from
  PROVE  LET drawing == Drawing(components)
         IN Reached(components, from) =
              Layer(drawing, from, Cardinality(drawing)) \cap Ids(components)
BY DEF Reached, Layer, IsSearch, Below, Drawing, Ids

\* There is such a search of any depth.
LEMMA SearchExists ==
  ASSUME NEW drawing, NEW from, NEW k \in Nat PROVE \E f : IsSearch(f, drawing, from, k)
  <1> DEFINE S == {n \in Nat : ~ \E f : IsSearch(f, drawing, from, n)}
  <1>1. SUFFICES ASSUME S # {} PROVE FALSE
    OBVIOUS
  <1>2. PICK n \in S : \A m \in S : n <= m
    <2> HIDE DEF S
    <2>1. S \subseteq Nat
      BY DEF S
    <2> QED BY <1>1, <2>1, LeastMember
  <1>3. CASE n = 0
    <2> DEFINE f == [i \in 0 .. 0 |-> from]
    <2>1. f = [i \in 0 .. n |-> IF i = 0 THEN from ELSE Below(drawing, f[i - 1])]
      BY <1>3
    <2> QED BY <1>2, <2>1 DEF IsSearch
  <1>4. CASE n > 0
    <2>1. n - 1 \in Nat /\ n - 1 \notin S
      BY <1>2, <1>4
    <2>2. PICK g : IsSearch(g, drawing, from, n - 1)
      BY <2>1
    <2> DEFINE f == [i \in 0 .. n |-> IF i = n THEN Below(drawing, g[n - 1]) ELSE g[i]]
    <2>3. ASSUME NEW i \in 0 .. n
          PROVE  f[i] = IF i = 0 THEN from ELSE Below(drawing, f[i - 1])
      <3>1. CASE i = n
        <4>1. i - 1 \in 0 .. n /\ i - 1 # n /\ i # 0 /\ i - 1 = n - 1
          BY <1>4, <3>1
        <4>2. f[i - 1] = g[n - 1]
          BY <4>1
        <4> QED BY <3>1, <4>1, <4>2
      <3>2. CASE i # n
        <4>1. i \in 0 .. (n - 1) /\ f[i] = g[i]
          BY <3>2
        <4>2. g[i] = IF i = 0 THEN from ELSE Below(drawing, g[i - 1])
          BY <2>2, <4>1 DEF IsSearch
        <4>3. i # 0 => i - 1 \in 0 .. n /\ i - 1 # n
          BY <3>2
        <4>4. i # 0 => f[i - 1] = g[i - 1]
          BY <4>3
        <4> QED BY <4>1, <4>2, <4>4
      <3> QED BY <3>1, <3>2
    <2>4. f = [i \in 0 .. n |-> f[i]]
      OBVIOUS
    <2> HIDE DEF f
    <2>5. f = [i \in 0 .. n |-> IF i = 0 THEN from ELSE Below(drawing, f[i - 1])]
      BY <2>3, <2>4
    <2> QED BY <1>2, <2>5 DEF IsSearch
  <1> QED BY <1>3, <1>4

\* Each layer is below the one before.
LEMMA LayerSteps ==
  ASSUME NEW drawing, NEW from, NEW k \in Nat
  PROVE  /\ Layer(drawing, from, 0) = from
         /\ Layer(drawing, from, k + 1) = Below(drawing, Layer(drawing, from, k))
  <1>1. ASSUME NEW n \in Nat
        PROVE  IsSearch(CHOOSE f : IsSearch(f, drawing, from, n), drawing, from, n)
    BY SearchExists
  <1>2. PICK z : z = CHOOSE f : IsSearch(f, drawing, from, 0)
    OBVIOUS
  <1>3. Layer(drawing, from, 0) = from
    <2>1. IsSearch(z, drawing, from, 0)
      BY <1>1, <1>2
    <2>2. z[0] = from
      BY <2>1 DEF IsSearch
    <2> QED BY <1>2, <2>2 DEF Layer
  <1>4. PICK f : f = CHOOSE h : IsSearch(h, drawing, from, k)
    OBVIOUS
  <1>5. PICK g : g = CHOOSE h : IsSearch(h, drawing, from, k + 1)
    OBVIOUS
  <1>6. IsSearch(f, drawing, from, k) /\ IsSearch(g, drawing, from, k + 1)
    BY <1>1, <1>4, <1>5
  <1> DEFINE S == {i \in 0 .. k : f[i] # g[i]}
  <1>7. S = {}
    <2> SUFFICES ASSUME S # {} PROVE FALSE
      OBVIOUS
    <2>1. PICK i \in S : \A m \in S : i <= m
      <3> HIDE DEF S
      <3>1. S \subseteq Nat
        BY DEF S
      <3> QED BY <3>1, LeastMember
    <2>2. /\ f[i] = IF i = 0 THEN from ELSE Below(drawing, f[i - 1])
          /\ g[i] = IF i = 0 THEN from ELSE Below(drawing, g[i - 1])
      BY <1>6, <2>1 DEF IsSearch
    <2>3. i # 0 => f[i - 1] = g[i - 1]
      <3>1. i # 0 => i - 1 \in 0 .. k /\ i - 1 \notin S
        BY <2>1
      <3> QED BY <3>1
    <2> QED BY <2>1, <2>2, <2>3
  <1>8. f[k] = g[k]
    BY <1>7
  <1>9. g[k + 1] = Below(drawing, g[k])
    <2>1. k + 1 \in 0 .. k + 1 /\ k + 1 # 0 /\ (k + 1) - 1 = k
      OBVIOUS
    <2> QED BY <1>6, <2>1 DEF IsSearch
  <1>10. Layer(drawing, from, k) = f[k] /\ Layer(drawing, from, k + 1) = g[k + 1]
    BY <1>4, <1>5 DEF Layer
  <1> QED BY <1>3, <1>8, <1>9, <1>10

\* No layer leaves a set that is closed under the children of containers.
LEMMA LayerInside ==
  ASSUME NEW drawing, NEW from, NEW Z, from \subseteq Z,
         \A d \in drawing : d.id \in Z => d.children \subseteq Z,
         NEW k \in Nat
  PROVE  Layer(drawing, from, k) \subseteq Z
  <1> DEFINE S == {n \in Nat : ~ (Layer(drawing, from, n) \subseteq Z)}
  <1>1. SUFFICES ASSUME S # {} PROVE FALSE
    OBVIOUS
  <1>2. PICK n \in S : \A m \in S : n <= m
    <2> HIDE DEF S
    <2>1. S \subseteq Nat
      BY DEF S
    <2> QED BY <1>1, <2>1, LeastMember
  <1>3. n # 0
    BY <1>2, LayerSteps
  <1>4. PICK m \in Nat : n = m + 1 /\ m \notin S
    <2>1. n - 1 \in Nat /\ n = (n - 1) + 1 /\ n - 1 \notin S
      BY <1>2, <1>3
    <2> QED BY <2>1
  <1>5. PICK W : W = Layer(drawing, from, m) /\ W \subseteq Z
    BY <1>4
  <1>6. Layer(drawing, from, n) = Below(drawing, W)
    BY <1>4, <1>5, LayerSteps
  <1>7. Below(drawing, W) \subseteq Z
    BY <1>5 DEF Below
  <1> QED BY <1>2, <1>6, <1>7

\* The search has settled after as many layers as there are containers: each layer but the
\* last brings another one.
LEMMA LayersSettle ==
  ASSUME NEW drawing, IsFiniteSet(drawing), NEW from
  PROVE  LET W == Layer(drawing, from, Cardinality(drawing))
         IN /\ from \subseteq W
            /\ \A d \in drawing : d.id \in W => d.children \subseteq W
  <1> DEFINE W(k) == Layer(drawing, from, k)
             D(k) == {d \in drawing : d.id \in W(k)}
             Closed(k) == Below(drawing, W(k)) = W(k)
             S == {n \in Nat : ~ (from \subseteq W(n) /\ (Closed(n) \/ Cardinality(D(n)) > n))}
  <1>1. ASSUME NEW k \in Nat
        PROVE  /\ W(0) = from
               /\ W(k + 1) = Below(drawing, W(k))
    BY LayerSteps
  <1>2. ASSUME NEW k \in Nat
        PROVE  IsFiniteSet(D(k)) /\ Cardinality(D(k)) \in Nat
               /\ Cardinality(D(k)) <= Cardinality(drawing)
    <2>1. D(k) \subseteq drawing
      OBVIOUS
    <2> HIDE DEF D
    <2> QED BY <2>1, FS_Subset, FS_CardinalityType
  <1>3. S = {}
    <2> SUFFICES ASSUME S # {} PROVE FALSE
      OBVIOUS
    <2>1. PICK n \in S : \A m \in S : n <= m
      <3> HIDE DEF S
      <3>1. S \subseteq Nat
        BY DEF S
      <3> QED BY <3>1, LeastMember
    <2>2. CASE n = 0
      <3>1. W(0) = from
        BY <1>1
      <3>2. Cardinality(D(0)) = 0
        BY <1>2, <2>1, <2>2, <3>1
      <3>3. D(0) = {}
        BY <1>2, <3>2, FS_EmptySet
      <3>4. Below(drawing, W(0)) = W(0)
        BY <3>3 DEF Below
      <3> QED BY <2>1, <2>2, <3>1, <3>4
    <2>3. CASE n # 0
      <3>1. PICK m \in Nat : n = m + 1 /\ m \notin S
        <4>1. n - 1 \in Nat /\ n = (n - 1) + 1 /\ n - 1 \notin S
          BY <2>1, <2>3
        <4> QED BY <4>1
      <3>2. from \subseteq W(m) /\ (Closed(m) \/ Cardinality(D(m)) > m)
        BY <3>1
      <3>3. W(n) = Below(drawing, W(m)) /\ W(m) \subseteq W(n)
        <4>1. W(n) = Below(drawing, W(m))
          BY <1>1, <3>1
        <4> QED BY <4>1 DEF Below
      <3>4. ~Closed(n) /\ Cardinality(D(n)) <= n
        BY <1>2, <2>1, <3>2, <3>3
      <3>5. ~Closed(m)
        <4> SUFFICES ASSUME Closed(m) PROVE Closed(n)
          BY <3>4
        <4> QED BY <3>3
      <3>6. D(m) \subseteq D(n)
        BY <3>3
      <3>7. D(m) # D(n)
        <4> SUFFICES ASSUME D(m) = D(n) PROVE Closed(n)
          BY <3>4
        <4>1. W(n) = W(m) \cup UNION {c.children : c \in D(m)}
          BY <3>3 DEF Below
        <4>2. Below(drawing, W(n)) = W(n) \cup UNION {c.children : c \in D(n)}
          BY DEF Below
        <4> QED BY <4>1, <4>2
      <3>8. Cardinality(D(m)) < Cardinality(D(n))
        <4>1. IsFiniteSet(D(n)) /\ Cardinality(D(m)) \in Nat /\ Cardinality(D(n)) \in Nat
          BY <1>2, <2>1, <3>1
        <4> HIDE DEF D
        <4> QED BY <3>6, <3>7, <4>1, FS_Subset
      <3>9. Cardinality(D(m)) \in Nat /\ Cardinality(D(n)) \in Nat
        BY <1>2, <2>1, <3>1
      <3>10. Cardinality(D(m)) > m /\ n = m + 1 /\ Cardinality(D(n)) <= n
        BY <3>1, <3>2, <3>4, <3>5
      <3> HIDE DEF D
      <3> QED BY <3>8, <3>9, <3>10
    <2> QED BY <2>2, <2>3
  <1>4. PICK N \in Nat : N = Cardinality(drawing)
    BY FS_CardinalityType
  <1>5. from \subseteq W(N) /\ Closed(N)
    <2>1. N \notin S
      BY <1>3
    <2>2. ~ (Cardinality(D(N)) > N)
      BY <1>2, <1>4
    <2> QED BY <2>1, <2>2
  <1>6. \A d \in drawing : d.id \in W(N) => d.children \subseteq Below(drawing, W(N))
    BY DEF Below
  <1> QED BY <1>4, <1>5, <1>6

\* What is reached is among the components, holds those it starts from, and with a
\* container its children.
LEMMA ReachedIsClosed ==
  ASSUME NEW components, IsFiniteSet(components), NEW from
  PROVE  /\ Reached(components, from) \subseteq Ids(components)
         /\ from \cap Ids(components) \subseteq Reached(components, from)
         /\ \A d \in Drawing(components) : d.id \in Reached(components, from) =>
              d.children \cap Ids(components) \subseteq Reached(components, from)
  <1>1. IsFiniteSet(Drawing(components))
    BY FS_Subset DEF Drawing
  <1>2. PICK W : W = Layer(Drawing(components), from, Cardinality(Drawing(components)))
    OBVIOUS
  <1>3. Reached(components, from) = W \cap Ids(components)
    BY <1>2, ReachedIsLayer
  <1>4. from \subseteq W /\ \A d \in Drawing(components) : d.id \in W => d.children \subseteq W
    BY <1>1, <1>2, LayersSettle
  <1> QED BY <1>3, <1>4

\* It is the least such set.
LEMMA ReachedInside ==
  ASSUME NEW components, IsFiniteSet(components), NEW from, NEW Z,
         from \cap Ids(components) \subseteq Z,
         \A d \in Drawing(components) :
           d.id \in Z => d.children \cap Ids(components) \subseteq Z
  PROVE  Reached(components, from) \subseteq Z
  <1> DEFINE outside == {x \in from \cup UNION {c.children : c \in components} :
                           x \notin Ids(components)}
             Y == Z \cup outside
  <1>1. Cardinality(Drawing(components)) \in Nat
    <2>1. IsFiniteSet(Drawing(components))
      BY FS_Subset DEF Drawing
    <2> QED BY <2>1, FS_CardinalityType
  <1>2. from \subseteq Y
    OBVIOUS
  <1>3. ASSUME NEW d \in Drawing(components), d.id \in Y PROVE d.children \subseteq Y
    <2>1. d \in components /\ d.id \in Ids(components)
      BY DEF Drawing, Ids
    <2>2. d.id \in Z
      BY <1>3, <2>1
    <2>3. d.children \subseteq UNION {c.children : c \in components}
      BY <2>1
    <2> QED BY <2>2, <2>3
  <1> HIDE DEF Y
  <1>4. Layer(Drawing(components), from, Cardinality(Drawing(components))) \subseteq Y
    BY <1>1, <1>2, <1>3, LayerInside
  <1>5. Y \cap Ids(components) \subseteq Z
    BY DEF Y
  <1> QED BY <1>4, <1>5, ReachedIsLayer

-----------------------------------------------------------------------------
(* What the validator leaves of a surface.                                  *)

Served(s) == [s EXCEPT !.components = Accepted(@)]

\* What is lost of a surface is below a rejected component.
LEMMA PoisonStays ==
  ASSUME NEW s, s = [root |-> s.root, components |-> s.components], IsFiniteSet(s.components),
         NEW id \in Drawn(s)
  PROVE  LET rejected == {c.id : c \in {d \in s.components : ~Accepts(d)}}
         IN \/ id \in Drawn(Served(s))
            \/ \E r \in rejected : id \in Reached(s.components, {r})
  <1> DEFINE A == s.components
             B == Accepted(A)
             root == s.root
             rejected == {c.id : c \in {d \in A : ~Accepts(d)}}
             R == Reached(A, {root})
             Q == Reached(B, {root})
             poisoned == UNION {Reached(A, {r}) : r \in rejected}
  <1>1. Served(s).root = root /\ Served(s).components = B
    BY DEF Served
  <1>2. B \subseteq A /\ IsFiniteSet(A) /\ IsFiniteSet(B)
    <2>1. B \subseteq A
      BY DEF Accepted
    <2> QED BY <2>1, FS_Subset
  <1>3. Ids(B) \subseteq Ids(A) /\ Drawing(B) \subseteq Drawing(A)
    BY <1>2 DEF Ids, Drawing
  <1>4. Drawable(s) /\ id \in R
    BY DEF Drawn
  <1>5. ASSUME NEW x \in Ids(A), x \notin Ids(B) PROVE x \in rejected
    BY <1>5 DEF Ids, Accepted
  <1>6. CASE root \notin Ids(B)
    <2>1. root \in Ids(A)
      BY <1>4 DEF Drawable, Ids
    <2>2. root \in rejected
      BY <1>5, <1>6, <2>1
    <2> QED BY <1>4, <2>2
  <1>7. CASE root \in Ids(B)
    <2>1. ASSUME NEW X, NEW Y, X \subseteq Y PROVE Reached(B, X) \subseteq Reached(A, Y)
      <3> DEFINE Z == Reached(A, Y)
      <3>1. X \cap Ids(B) \subseteq Z
        BY <1>2, <1>3, <2>1, ReachedIsClosed
      <3>2. \A d \in Drawing(B) : d.id \in Z => d.children \cap Ids(B) \subseteq Z
        BY <1>2, <1>3, ReachedIsClosed
      <3> HIDE DEF Z
      <3>3. Reached(B, X) \subseteq Z
        BY <1>2, <3>1, <3>2, ReachedInside
      <3> QED BY <3>3 DEF Z
    <2>2. ASSUME NEW x PROVE Kids(B, x) \subseteq Kids(A, x)
      <3>1. {d \in B : d.id = x /\ d.type \in Containers}
              \subseteq {d \in A : d.id = x /\ d.type \in Containers}
        BY <1>2
      <3>2. {c.id : c \in B} \subseteq {c.id : c \in A}
        BY <1>3 DEF Ids
      <3> HIDE DEF A, B
      <3> QED BY <3>1, <3>2 DEF Kids
    <2>3. Drawable(Served(s))
      <3>1. \E c \in B : c.id = root
        BY <1>7 DEF Ids
      <3>2. ASSUME NEW x \in Q PROVE x \notin Reached(B, Kids(B, x))
        <4>1. x \in R
          BY <2>1
        <4>2. x \notin Reached(A, Kids(A, x))
          BY <1>4, <4>1 DEF Drawable
        <4> QED BY <2>1, <2>2, <4>2
      <3> QED BY <1>1, <3>1, <3>2 DEF Drawable
    <2>4. R \subseteq Q \cup poisoned
      <3> DEFINE Z == Q \cup poisoned
      <3>1. {root} \cap Ids(A) \subseteq Z
        BY <1>2, <1>7, ReachedIsClosed
      <3>2. ASSUME NEW d \in Drawing(A), d.id \in Z, NEW x \in d.children \cap Ids(A)
            PROVE  x \in Z
        <4>0. d \in A /\ d.id \in Ids(A)
          BY DEF Drawing, Ids
        <4>1. ASSUME NEW r \in rejected, d.id \in Reached(A, {r}) PROVE x \in Z
          <5>1. x \in Reached(A, {r})
            BY <1>2, <4>1, ReachedIsClosed
          <5> QED BY <5>1
        <4>2. CASE ~Accepts(d)
          <5>1. d.id \in rejected
            BY <4>0, <4>2
          <5>2. d.id \in Reached(A, {d.id})
            BY <1>2, <4>0, ReachedIsClosed
          <5> QED BY <4>1, <5>1, <5>2
        <4>3. CASE Accepts(d) /\ d.id \in Q
          <5>1. d \in Drawing(B)
            BY <4>0, <4>3 DEF Drawing, Accepted
          <5>2. CASE x \in Ids(B)
            <6>1. x \in Q
              BY <1>2, <4>3, <5>1, <5>2, ReachedIsClosed
            <6> QED BY <6>1
          <5>3. CASE x \notin Ids(B)
            <6>1. x \in rejected
              BY <1>5, <5>3
            <6>2. x \in Reached(A, {x})
              BY <1>2, ReachedIsClosed
            <6> QED BY <6>1, <6>2
          <5> QED BY <5>2, <5>3
        <4> QED BY <3>2, <4>1, <4>2, <4>3
      <3> HIDE DEF Z
      <3>3. R \subseteq Z
        BY <1>2, <3>1, <3>2, ReachedInside
      <3> QED BY <3>3 DEF Z
    <2>5. id \in Q => id \in Drawn(Served(s))
      BY <1>1, <2>3 DEF Drawn
    <2> QED BY <1>4, <2>4, <2>5
  <1> QED BY <1>6, <1>7

\* A result of compose_surface is a proposal and what the validator left of it.
ComposedOk == composed \subseteq {[proposed |-> s, served |-> Served(s)] : s \in Proposals}

\* Of every surface composed so far.
LEMMA ComposedStep == ComposedOk /\ [Next]_vars => ComposedOk'
  <1> SUFFICES ASSUME ComposedOk, [Next]_vars PROVE ComposedOk'
    OBVIOUS
  <1>1. CASE Compose
    BY <1>1 DEF Compose, ComposedOk, Served
  <1>2. CASE composed' = composed
    BY <1>2 DEF ComposedOk
  <1> QED BY <1>1, <1>2 DEF Next, RunStep, Open, Follows, Connected, Frame, Finished, TapeEnds,
                            Drops, Lost, vars

\* Whatever surface is proposed, what would be drawn of it is drawn of what is served,
\* except below a component that the validator rejects.
THEOREM OnlyThePoisonedIsLost == Spec => []PoisonIsContained
  <1>1. Init => ComposedOk
    BY DEF Init, ComposedOk
  <1>2. ComposedOk => PoisonIsContained
    <2> SUFFICES ASSUME ComposedOk, NEW result \in composed PROVE
          LET all == result.proposed.components
              rejected == {c.id : c \in {d \in all : ~Accepts(d)}}
          IN \A id \in Drawn(result.proposed) :
               \/ id \in Drawn(result.served)
               \/ \E r \in rejected : id \in Reached(all, {r})
      BY DEF PoisonIsContained
    <2>1. PICK s \in Proposals : result.proposed = s /\ result.served = Served(s)
      BY DEF ComposedOk
    <2>2. s = [root |-> s.root, components |-> s.components] /\ IsFiniteSet(s.components)
      BY ViewAssumption
    <2> QED BY <2>1, <2>2, PoisonStays
  <1> QED BY <1>1, <1>2, ComposedStep, PTL DEF Spec

-----------------------------------------------------------------------------
(* The progress view.                                                       *)

\* The entries of the catalog that the progress view uses.
LEMMA CatalogTypes ==
  /\ {"Column", "Row", "Text", "StatTile", "Notice"} \subseteq DOMAIN Catalog
  /\ Catalog["Column"] = <<>>
  /\ Catalog["Row"] = [align |-> "align", justify |-> "justify"]
  /\ Catalog["Text"] = [text |-> "binding", variant |-> "variant"]
  /\ Catalog["StatTile"] = [label |-> "text", value |-> "binding", unit |-> "text",
                             delta |-> "binding", tone |-> "tone"]
  /\ Catalog["Notice"] = [text |-> "binding", tone |-> "tone"]
BY DEF Catalog

\* The validator accepts a row, ...
LEMMA RowAccepted ==
  ASSUME NEW i, NEW kids
  PROVE  Accepts(C(i, "Row", [align |-> V("word", "center"),
                              justify |-> V("word", "spaceBetween")], kids))
BY CatalogTypes DEF Accepts, C, V, Allowed, Enums

\* ... the values in use, ...
LEMMA AllowedValues ==
  /\ Allowed("binding", Bound)
  /\ \A w : Allowed("text", V("word", w))
  /\ \A w \in {"neutral", "good", "warn", "bad"} : Allowed("tone", V("word", w))
  /\ \A w \in {"heading", "subtitle", "body", "caption"} : Allowed("variant", V("word", w))
BY DEF Allowed, V, Bound, Enums

\* ... the texts, the column and the notice, ...
LEMMA TextAccepted ==
  ASSUME NEW i, NEW kids
  PROVE  /\ \A w \in {"heading", "body"} :
              Accepts(C(i, "Text", [variant |-> V("word", w), text |-> Bound], kids))
         /\ Accepts(C(i, "Text", [text |-> Bound], kids))
         /\ Accepts(C(i, "Column", <<>>, kids))
         /\ Accepts(C(i, "Notice", [text |-> Bound, tone |-> V("word", "bad")], kids))
BY CatalogTypes, AllowedValues DEF Accepts, C

\* ... and a tile with any tone.
LEMMA TileAccepted ==
  ASSUME NEW i, NEW kids, NEW st \in NodeState
  PROVE  Accepts(C(i, "StatTile", [label |-> V("word", "state"), value |-> Bound,
                                   tone |-> V("word", Tone(st))], kids))
  <1>1. Tone(st) \in {"neutral", "good", "warn", "bad"}
    BY DEF Tone, ToneForState, NodeState, Live
  <1>2. Allowed("tone", V("word", Tone(st)))
    BY <1>1, AllowedValues
  <1>3. PICK v : v = V("word", Tone(st))
    OBVIOUS
  <1> QED BY <1>2, <1>3, CatalogTypes, AllowedValues DEF Accepts, C

\* The progress view, taken apart: a column of a title, one row for each node with a name
\* and a tile, and an answer or a notice.
Present == {n \in Tasks : node[n] # "absent"}
Extra == (IF \E n \in Present \cap {Composer} : node[n] = "succeeded" THEN {Answer} ELSE {})
           \cup (IF \E n \in Present : node[n] = "failed" THEN {Notice} ELSE {})
Head1 == C(Root, "Column", <<>>, {Title} \cup {<<"row", n>> : n \in Present} \cup Extra)
Head2 == C(Title, "Text", [variant |-> V("word", "heading"), text |-> Bound], {})
Ends == {C(Answer, "Text", [text |-> Bound], {}),
         C(Notice, "Notice", [text |-> Bound, tone |-> V("word", "bad")], {})}
RowParts == UNION {RowOf(n, node[n]) : n \in Present}
View == {Head1, Head2} \cup RowParts \cup {c \in Ends : c.id \in Extra}

\* The progress view, spelled out.
LEMMA ViewIsRunSurface ==
  ASSUME StoreTypeOK
  PROVE  /\ RunSurface(node, {Composer}) =
              [root |-> Root, components |-> View]
         /\ RunSurface(node, {Composer}).root = Root
         /\ RunSurface(node, {Composer}).components = View
  <1>1. DOMAIN node = Tasks
    BY DEF StoreTypeOK
  <1>2. {n \in DOMAIN node : node[n] # "absent"} = Present
    BY <1>1 DEF Present
  <1>3. RunSurface(node, {Composer}) =
          [root |-> Root,
           components |->
             { C(Root, "Column", <<>>, {Title} \cup {<<"row", n>> : n \in Present} \cup Extra),
               C(Title, "Text", [variant |-> V("word", "heading"), text |-> Bound], {}) }
             \cup (UNION {RowOf(n, node[n]) : n \in Present})
             \cup {c \in {C(Answer, "Text", [text |-> Bound], {}),
                           C(Notice, "Notice", [text |-> Bound, tone |-> V("word", "bad")], {})} :
                      c.id \in Extra}]
    BY <1>2, Zenon DEF RunSurface, Extra
  <1>4. RunSurface(node, {Composer}) = [root |-> Root, components |-> View]
    BY <1>3 DEF View, RowParts, Head1, Head2, Ends
  <1> QED BY <1>4

\* Small sets are finite.
LEMMA FewAreFinite ==
  ASSUME NEW a, NEW b, NEW c PROVE IsFiniteSet({a, b}) /\ IsFiniteSet({a, b, c})
  <1>1. {a} = {} \cup {a} /\ {a, b} = {a} \cup {b} /\ {a, b, c} = {a, b} \cup {c}
    OBVIOUS
  <1>2. IsFiniteSet({a})
    BY <1>1, FS_EmptySet, FS_AddElement
  <1>3. IsFiniteSet({a, b})
    BY <1>1, <1>2, FS_AddElement
  <1> QED BY <1>1, <1>3, FS_AddElement

\* A view of finitely many tasks is finite.
LEMMA ViewIsFinite == IsFiniteSet(View)
  <1>1. IsFiniteSet(Present)
    BY FS_Subset, ViewAssumption DEF Present
  <1>2. ASSUME NEW n PROVE IsFiniteSet(RowOf(n, node[n]))
    BY FewAreFinite DEF RowOf
  <1>3. IsFiniteSet({RowOf(n, node[n]) : n \in Present})
    <2> DEFINE f == [n \in Present |-> RowOf(n, node[n])]
               all == {RowOf(n, node[n]) : n \in Present}
    <2>1. f \in Surjection(Present, all)
      BY DEF Surjection
    <2> HIDE DEF f, all
    <2>2. IsFiniteSet(all)
      BY <1>1, <2>1, FS_Surjection
    <2> QED BY <2>2 DEF all
  <1>4. IsFiniteSet(RowParts)
    BY <1>2, <1>3, FS_UNION DEF RowParts
  <1>5. IsFiniteSet({Head1, Head2}) /\ IsFiniteSet(Ends)
    BY FewAreFinite DEF Ends
  <1>6. IsFiniteSet({c \in Ends : c.id \in Extra})
    BY <1>5, FS_Subset
  <1> QED BY <1>4, <1>5, <1>6, FS_Union DEF View

\* What each of its components is.
LEMMA ViewParts ==
  ASSUME NEW c \in View
  PROVE  \/ c = Head1
         \/ c = Head2
         \/ \E n \in Present :
              \/ c = C(<<"row", n>>, "Row", [align |-> V("word", "center"),
                                             justify |-> V("word", "spaceBetween")],
                       {<<"name", n>>, <<"state", n>>})
              \/ c = C(<<"name", n>>, "Text", [variant |-> V("word", "body"), text |-> Bound], {})
              \/ c = C(<<"state", n>>, "StatTile",
                       [label |-> V("word", "state"), value |-> Bound,
                        tone |-> V("word", Tone(node[n]))], {})
         \/ c.id \in Extra /\ c \in Ends
BY DEF View, RowParts, RowOf

\* The validator accepts every component of the view.
LEMMA ViewAccepted ==
  ASSUME StoreTypeOK PROVE Accepted(View) = View
  <1> SUFFICES ASSUME NEW c \in View PROVE Accepts(c)
    BY DEF Accepted
  <1>1. CASE c = Head1 \/ c = Head2 \/ c \in Ends
    BY <1>1, TextAccepted DEF Head1, Head2, Ends
  <1>2. ASSUME NEW n \in Present,
               c = C(<<"row", n>>, "Row", [align |-> V("word", "center"),
                                           justify |-> V("word", "spaceBetween")],
                     {<<"name", n>>, <<"state", n>>})
        PROVE  Accepts(c)
    BY <1>2, RowAccepted
  <1>3. ASSUME NEW n \in Present,
               c = C(<<"name", n>>, "Text", [variant |-> V("word", "body"), text |-> Bound], {})
        PROVE  Accepts(c)
    BY <1>3, TextAccepted
  <1>4. ASSUME NEW n \in Present,
               c = C(<<"state", n>>, "StatTile",
                     [label |-> V("word", "state"), value |-> Bound,
                      tone |-> V("word", Tone(node[n]))], {})
        PROVE  Accepts(c)
    <2>1. node[n] \in NodeState
      BY DEF Present, StoreTypeOK
    <2> QED BY <1>4, <2>1, TileAccepted
  <1> QED BY <1>1, <1>2, <1>3, <1>4, ViewParts

\* The ids of its components, and its containers.
LEMMA ViewIds ==
  /\ Root \in Ids(View) /\ Title \in Ids(View) /\ Extra \subseteq Ids(View)
  /\ \A n \in Present : /\ <<"row", n>> \in Ids(View)
                        /\ <<"name", n>> \in Ids(View) /\ <<"state", n>> \in Ids(View)
  /\ \A id \in Ids(View) :
       \/ id \in {Root, Title} \cup Extra
       \/ \E n \in Present : id \in {<<"row", n>>, <<"name", n>>, <<"state", n>>}
  <1>1. Head1 \in View /\ Head1.id = Root /\ Head2 \in View /\ Head2.id = Title
    BY DEF View, Head1, Head2, C
  <1>2. Extra \subseteq Ids(View)
    <2>1. \A x \in {Answer, Notice} : \E c \in Ends : c.id = x
      BY DEF Ends, C
    <2>2. Extra \subseteq {Answer, Notice}
      BY DEF Extra
    <2>3. \A x \in Extra : \E c \in Ends : c.id = x
      BY <2>1, <2>2
    <2> QED BY <2>3 DEF View, Ids
  <1>3. ASSUME NEW n \in Present
        PROVE  /\ <<"row", n>> \in Ids(View)
               /\ <<"name", n>> \in Ids(View) /\ <<"state", n>> \in Ids(View)
    <2>1. RowOf(n, node[n]) \subseteq View
      BY DEF View, RowParts
    <2>2. <<"row", n>> \in {c.id : c \in RowOf(n, node[n])}
      BY DEF RowOf, C
    <2>3. <<"name", n>> \in {c.id : c \in RowOf(n, node[n])}
      BY DEF RowOf, C
    <2>4. <<"state", n>> \in {c.id : c \in RowOf(n, node[n])}
      BY DEF RowOf, C
    <2> QED BY <2>1, <2>2, <2>3, <2>4 DEF Ids
  <1>4. ASSUME NEW c \in View
        PROVE  \/ c.id \in {Root, Title} \cup Extra
               \/ \E n \in Present : c.id \in {<<"row", n>>, <<"name", n>>, <<"state", n>>}
    <2>1. CASE c = Head1 \/ c = Head2 \/ c.id \in Extra
      BY <1>1, <2>1
    <2>2. CASE c \in RowParts
      BY <2>2 DEF RowParts, RowOf, C
    <2> QED BY <2>1, <2>2 DEF View
  <1> QED BY <1>1, <1>2, <1>3, <1>4 DEF Ids

\* Only the column and the rows have children.
LEMMA ViewContainers ==
  ASSUME NEW d \in View
  PROVE  \/ d = Head1 /\ d.type = "Column"
         \/ \E n \in Present : /\ d.id = <<"row", n>> /\ d.type = "Row"
                               /\ d.children = {<<"name", n>>, <<"state", n>>}
         \/ d.type \notin Containers /\ d.children = {}
  <1>1. CASE d = Head1
    BY <1>1 DEF Head1, C
  <1>2. CASE d = Head2
    BY <1>2 DEF Head2, C, Containers
  <1>3. CASE d \in Ends
    BY <1>3 DEF Ends, C, Containers
  <1>4. ASSUME NEW n \in Present, d \in RowOf(n, node[n])
        PROVE  \/ d.id = <<"row", n>> /\ d.type = "Row"
                    /\ d.children = {<<"name", n>>, <<"state", n>>}
               \/ d.type \notin Containers /\ d.children = {}
    <2>1. \/ d = C(<<"row", n>>, "Row", [align |-> V("word", "center"),
                                         justify |-> V("word", "spaceBetween")],
                   {<<"name", n>>, <<"state", n>>})
          \/ \E i, props : \E t \in {"Text", "StatTile"} : d = C(i, t, props, {})
      BY <1>4 DEF RowOf
    <2> QED BY <2>1 DEF C, Containers
  <1> QED BY <1>1, <1>2, <1>3, <1>4 DEF View, RowParts

\* Every task has its row.
LEMMA RowInView ==
  ASSUME NEW n \in Present
  PROVE  \E d \in Drawing(View) : /\ d.id = <<"row", n>>
                                  /\ d.children = {<<"name", n>>, <<"state", n>>}
  <1> DEFINE d == C(<<"row", n>>, "Row", [align |-> V("word", "center"),
                                          justify |-> V("word", "spaceBetween")],
                    {<<"name", n>>, <<"state", n>>})
  <1>1. d \in View
    <2>1. d \in RowOf(n, node[n])
      BY DEF RowOf
    <2> HIDE DEF d
    <2> QED BY <2>1 DEF View, RowParts
  <1>2. d.id = <<"row", n>> /\ d.children = {<<"name", n>>, <<"state", n>>} /\ d.type = "Row"
    BY DEF C
  <1> HIDE DEF d
  <1> QED BY <1>1, <1>2 DEF Drawing, Containers

\* A container of the view is its column or a row.
LEMMA DrawingOfView ==
  ASSUME NEW d \in Drawing(View)
  PROVE  \/ /\ d.id = Root
            /\ d.children = {Title} \cup {<<"row", n>> : n \in Present} \cup Extra
         \/ \E n \in Present : /\ d.id = <<"row", n>>
                               /\ d.children = {<<"name", n>>, <<"state", n>>}
  <1>1. d \in View /\ d.type \in Containers
    BY DEF Drawing
  <1>2. CASE d = Head1
    BY <1>2 DEF Head1, C
  <1> QED BY <1>1, <1>2, ViewContainers

\* No two components share an id.
LEMMA IdsDiffer ==
  ASSUME NEW m, NEW n
  PROVE  /\ Root # Title /\ Root # Answer /\ Root # Notice
         /\ Root # <<"row", n>> /\ Root # <<"name", n>> /\ Root # <<"state", n>>
         /\ <<"row", m>> # <<"name", n>> /\ <<"row", m>> # <<"state", n>>
         /\ <<"row", m>> = <<"row", n>> => m = n
BY DEF Root, Title, Answer, Notice

\* All of it is drawn.
LEMMA ViewReached == Ids(View) \subseteq Reached(View, {Root})
  <1> DEFINE R == Reached(View, {Root})
  <1>1. /\ Root \in Ids(View) => Root \in R
        /\ \A d \in Drawing(View) : d.id \in R => d.children \cap Ids(View) \subseteq R
    BY ViewIsFinite, ReachedIsClosed
  <1>2. Root \in R
    BY <1>1, ViewIds
  <1> DEFINE top == {Title} \cup {<<"row", n>> : n \in Present} \cup Extra
  <1>3. top \subseteq R
    <2>1. Head1 \in Drawing(View) /\ Head1.id = Root /\ Head1.children = top
      BY DEF Drawing, Containers, View, Head1, C
    <2>2. top \subseteq Ids(View)
      BY ViewIds
    <2> HIDE DEF R, top
    <2> QED BY <1>1, <1>2, <2>1, <2>2
  <1>4. ASSUME NEW n \in Present PROVE <<"name", n>> \in R /\ <<"state", n>> \in R
    <2>1. PICK d \in Drawing(View) : /\ d.id = <<"row", n>>
                                    /\ d.children = {<<"name", n>>, <<"state", n>>}
      BY RowInView
    <2>2. d.id \in R
      BY <1>3, <2>1
    <2>3. {<<"name", n>>, <<"state", n>>} \subseteq Ids(View)
      BY ViewIds
    <2> HIDE DEF R
    <2> QED BY <1>1, <2>1, <2>2, <2>3
  <1> HIDE DEF R
  <1>5. ASSUME NEW id \in Ids(View) PROVE id \in R
    BY <1>2, <1>3, <1>4, ViewIds
  <1> QED BY <1>5 DEF R

\* A child is the child of a drawn container.
LEMMA ViewKids ==
  ASSUME NEW id, NEW x \in Kids(View, id)
  PROVE  \E d \in Drawing(View) : d.id = id /\ x \in d.children
BY DEF Kids, Drawing

\* No container of it is inside itself.
LEMMA ViewIsATree ==
  ASSUME NEW id \in Ids(View) PROVE id \notin Reached(View, Kids(View, id))
  <1>1. ASSUME NEW d \in Drawing(View) PROVE Root \notin d.children
    BY DrawingOfView, IdsDiffer DEF Extra
  <1>2. CASE id = Root
    <2> DEFINE Z == Ids(View) \ {Root}
    <2>1. Kids(View, id) \cap Ids(View) \subseteq Z
      BY <1>1, ViewKids
    <2>2. \A d \in Drawing(View) : d.id \in Z => d.children \cap Ids(View) \subseteq Z
      BY <1>1
    <2>3. Reached(View, Kids(View, id)) \subseteq Z
      <3> HIDE DEF Z
      <3> QED BY <2>1, <2>2, ViewIsFinite, ReachedInside
    <2> QED BY <1>2, <2>3
  <1>3. ASSUME NEW n \in Present, id = <<"row", n>> PROVE id \notin Reached(View, Kids(View, id))
    <2> DEFINE Z == {<<"name", n>>, <<"state", n>>}
    <2>1. Kids(View, id) \subseteq Z
      <3> SUFFICES ASSUME NEW x \in Kids(View, id) PROVE x \in Z
        OBVIOUS
      <3>1. PICK d \in Drawing(View) : d.id = id /\ x \in d.children
        BY ViewKids
      <3>2. d.id # Root
        BY <1>3, <3>1, IdsDiffer
      <3>3. PICK m \in Present : /\ d.id = <<"row", m>>
                                /\ d.children = {<<"name", m>>, <<"state", m>>}
        BY <3>2, DrawingOfView
      <3>4. m = n
        BY <1>3, <3>1, <3>3, IdsDiffer
      <3> QED BY <3>1, <3>3, <3>4
    <2>2. ASSUME NEW d \in Drawing(View) PROVE d.id \notin Z
      BY DrawingOfView, IdsDiffer
    <2>3. Reached(View, Kids(View, id)) \subseteq Z
      <3> HIDE DEF Z
      <3> QED BY <2>1, <2>2, ViewIsFinite, ReachedInside
    <2> QED BY <1>3, <2>3, IdsDiffer
  <1>4. CASE id # Root /\ \A n \in Present : id # <<"row", n>>
    <2>1. Kids(View, id) = {}
      <3> SUFFICES ASSUME NEW x \in Kids(View, id) PROVE FALSE
        OBVIOUS
      <3> QED BY <1>4, ViewKids, DrawingOfView
    <2>2. Reached(View, {}) \subseteq {}
      BY ViewIsFinite, ReachedInside
    <2> QED BY <2>1, <2>2
  <1> QED BY <1>2, <1>3, <1>4

\* In every state of every run the validator accepts all of the progress view, and every
\* row and notice of it is drawn.
THEOREM ProgressIsAlwaysShown == Spec => []ProgressIsWhole
  <1>1. StoreTypeOK => ProgressIsWhole
    <2> SUFFICES ASSUME StoreTypeOK PROVE ProgressIsWhole
      OBVIOUS
    <2> DEFINE s == RunSurface(node, {Composer})
    <2>1. s.root = Root /\ s.components = View
      BY ViewIsRunSurface
    <2> HIDE DEF s
    <2>2. Reached(View, {Root}) = Ids(View)
      BY ViewReached, ViewIsFinite, ReachedIsClosed
    <2>3. Drawable(s)
      <3>1. \E c \in View : c.id = Root
        BY ViewIds DEF Ids
      <3> QED BY <2>1, <2>2, <3>1, ViewIsATree DEF Drawable
    <2>4. Drawn(s) = Ids(View)
      BY <2>1, <2>2, <2>3 DEF Drawn
    <2>5. ASSUME NEW c \in View PROVE c.children \subseteq Ids(View)
      <3>1. CASE c.children = {}
        BY <3>1
      <3>2. CASE c.children # {}
        <4>1. c \in Drawing(View)
          BY <3>2, ViewContainers DEF Drawing, Containers
        <4>2. {Title} \cup {<<"row", n>> : n \in Present} \cup Extra \subseteq Ids(View)
          BY ViewIds
        <4>3. \A n \in Present : {<<"name", n>>, <<"state", n>>} \subseteq Ids(View)
          BY ViewIds
        <4>4. \/ c.children = {Title} \cup {<<"row", n>> : n \in Present} \cup Extra
              \/ \E n \in Present : c.children = {<<"name", n>>, <<"state", n>>}
          BY <4>1, DrawingOfView, Zenon
        <4>5. CASE c.children = {Title} \cup {<<"row", n>> : n \in Present} \cup Extra
          BY <4>2, <4>5
        <4>6. CASE \E n \in Present : c.children = {<<"name", n>>, <<"state", n>>}
          <5>1. PICK n \in Present : c.children = {<<"name", n>>, <<"state", n>>}
            BY <4>6
          <5> QED BY <4>3, <5>1
        <4> QED BY <4>4, <4>5, <4>6
      <3> QED BY <3>1, <3>2
    <2> QED BY <2>1, <2>4, <2>5, ViewAccepted DEF ProgressIsWhole, s, Ids
  <1> QED BY <1>1, ViewInvariance, PTL DEF StoreInv
=============================================================================

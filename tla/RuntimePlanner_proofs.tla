------------------------ MODULE RuntimePlanner_proofs ------------------------
(***************************************************************************)
(* What the planner's requests may count on, for every breadth, worker      *)
(* count and number of restarts.  The planner looks at the graph and at one *)
(* event, so the argument is about what each task's existence says of the   *)
(* tasks before it: a task is added only when the outcomes it depends on    *)
(* have been planned for.                                                   *)
(***************************************************************************)
EXTENDS RuntimePlanner, GraphStore_proofs

\* The tasks whose outcome is journalled and not planned for; none has started yet.
Missing == Unplanned(journal)
News == {n \in Tasks : \E t \in Missing : journal[t].tasks = {n}}
Starting == \E t \in Missing : journal[t].kind = "run_started"
Told(n) == node[n] \in Over /\ n \notin News
Busy(n) == node[n] \in Live \/ n \in News

\* At most one event is missing its plan, and it says what the rows say.
NewsMatch ==
  /\ patched \subseteq DOMAIN journal
  /\ \E t \in Nat : Missing \subseteq {t}
  /\ \A t \in Missing :
       \/ journal[t].kind = "run_started" /\ journal[t].tasks = {}
       \/ \E n \in Tasks :
            /\ journal[t].tasks = {n} /\ node[n] \in {"succeeded", "failed"}
            /\ journal[t].kind = IF node[n] = "succeeded" THEN "task_succeeded" ELSE "task_failed"

\* The tasks that a request of each mode may have, beside its answer and what it remembers.
Main ==
  CASE mode = "memory" -> {recall}
    [] mode = "birthday_reminder" -> {recall, reminder}
    [] mode = "compose_answer" -> {content, surface}
    [] mode = "index_directory" -> {list_directory} \cup Indexes
    [] mode = "index_file" -> {index_file, recall, distill}
    [] mode = "read_file" -> {read_file}
    [] mode = "search_fetch" -> {search, distill} \cup Fetches
    [] mode = "fetch" -> {distill} \cup Fetches
    [] mode = "parallel_search" -> {distill} \cup Searches
    [] mode = "structured_compare" -> {distill, validate} \cup Searches
    [] mode = "compose_research" -> {distill, surface} \cup Searches \cup Retries

Saving == IF request.remember THEN {remember} ELSE {}

Shape ==
  /\ run = "absent" => journal = <<>>
  /\ run = "absent" \/ Starting => edges = {} /\ \A n \in Tasks : node[n] = "absent"
  /\ run # "absent" /\ ~Starting => \A n \in Frontier : node[n] # "absent"
  /\ run = "finished" => Missing = {}
  /\ run # "finished" =>
       \A n \in Tasks : node[n] \in {"absent", "pending", "running", "succeeded", "failed"}
  /\ \A n \in Tasks : node[n] # "absent" => n \in Main \cup {answer} \cup Saving

EdgesMatch ==
  /\ ~HasCycle(edges)
  /\ \A m, n \in Tasks : <<m, n>> \in edges => node[m] \in Over /\ node[n] # "absent"

\* The tasks that must have been planned for, if they exist, before n does.
Sources == {recall, index_file, search} \cup Fetches \cup Searches \cup Retries
Earlier(n) ==
  CASE n \in {validate, surface} -> {content, distill} \cup Sources
    [] n = distill -> Sources
    [] n = recall -> {index_file}
    [] n = reminder -> {remember}
    [] n \in Indexes -> {list_directory}
    [] n \in Fetches -> {search}
    [] n = answer -> Tasks \ {answer, IF mode = "birthday_reminder" THEN recall ELSE remember}
    [] OTHER -> {}

InOrder ==
  run # "finished" =>
    \A n \in Tasks : node[n] # "absent" =>
      \A m \in Earlier(n) : m \in Tasks /\ node[m] # "absent" => Told(m)

\* A retry corrects the weak outcome of its subject, and each weak outcome has one.
RetriesMatch ==
  /\ \A m \in Tasks : corrective[m] # 0 =>
       /\ m \in Retries /\ m = RetryFor(corrective[m])
       /\ corrective[m] \in Searches /\ node[corrective[m]] = "succeeded"
  /\ \A m \in Retries : node[m] # "absent" <=> corrective[m] # 0
  /\ \A n \in Searches :
       mode = "compose_research" /\ node[n] = "succeeded" /\ evidence[n] = 0 =>
         n \in News \/ node[RetryFor(n)] # "absent"

\* The two ways to rest that are no failed parent.
NothingToRemind == mode = "birthday_reminder" /\ node[remember] \in {"absent", "failed"}
FrontierFailed ==
  /\ mode \in {"index_file", "index_directory", "search_fetch"}
  /\ request.remember /\ \A n \in Frontier : node[n] = "failed"

\* An open run has something going on, or one of the two.
Going ==
  run = "open" /\ ~Starting =>
    /\ node[answer] # "absent" => Busy(answer)
    /\ mode = "birthday_reminder" =>
         /\ node[remember] = "succeeded" => remember \in News \/ node[reminder] # "absent"
         /\ node[reminder] \in Over => reminder \in News \/ node[answer] # "absent"
    /\ \/ \E n \in Tasks \ {remember} : Busy(n)
       \/ mode = "birthday_reminder" /\ Busy(remember)
       \/ NothingToRemind \/ FrontierFailed

\* Nothing that could contribute is outstanding.
Calm ==
  \A n \in Tasks \ {answer, remember} :
    \/ node[n] \in {"absent", "succeeded", "failed"}
    \/ n = recall /\ mode = "birthday_reminder"

PlannerInv ==
  /\ PlannerTypeOK /\ NewsMatch /\ Shape /\ EdgesMatch /\ InOrder /\ RetriesMatch /\ Going
  /\ run = "finished" => Calm

-----------------------------------------------------------------------------
(* The task ids.                                                            *)

\* One name for each kind of task.
Sort(n) ==
  CASE n = answer -> "answer"
    [] n = content -> "content"
    [] n = distill -> "distill"
    [] n = index_file -> "index_file"
    [] n = list_directory -> "list_directory"
    [] n = read_file -> "read_file"
    [] n = recall -> "recall"
    [] n = remember -> "remember"
    [] n = reminder -> "reminder"
    [] n = search -> "search"
    [] n = surface -> "surface"
    [] n = validate -> "validate"
    [] n \in Fetches -> "fetch"
    [] n \in Indexes -> "index"
    [] n \in Searches -> "searches"
    [] n \in Retries -> "retry"

Singles == {answer, content, distill, index_file, list_directory, read_file, recall, remember,
            reminder, search, surface, validate}

\* The ids of the tasks that come in numbers are intervals.
LEMMA FamiliesAre ==
  /\ \A n : n \in Fetches <=> n \in 4 .. 3 + Breadth
  /\ \A n : n \in Indexes <=> n \in 4 + Breadth .. 3 + 2 * Breadth
  /\ \A n : n \in Retries <=> n \in 10 + 2 * Breadth .. 9 + 3 * Breadth
  /\ \A n : n \in Searches <=> n \in 11 + 3 * Breadth .. 10 + 4 * Breadth
  <1>0. Breadth \in Nat
    BY PlannerAssumption
  <1>1. ASSUME NEW n, NEW b \in Int
        PROVE  n \in {b + i : i \in 1 .. Breadth} <=> n \in b + 1 .. b + Breadth
    <2>1. ASSUME n \in b + 1 .. b + Breadth PROVE \E i \in 1 .. Breadth : n = b + i
      <3>1. n - b \in 1 .. Breadth /\ n = b + (n - b)
        BY <1>0, <2>1
      <3> QED BY <3>1
    <2>2. ASSUME NEW i \in 1 .. Breadth, n = b + i PROVE n \in b + 1 .. b + Breadth
      BY <1>0, <2>2
    <2> QED BY <2>1, <2>2
  <1>2. \A n : n \in Fetches <=> n \in 4 .. 3 + Breadth
    BY <1>0, <1>1 DEF Fetches, fetch_
  <1>3. \A n : n \in Indexes <=> n \in 4 + Breadth .. 3 + 2 * Breadth
    <2>1. 3 + Breadth \in Int /\ \A i \in 1 .. Breadth : index_(i) = (3 + Breadth) + i
      BY <1>0 DEF index_
    <2>2. Indexes = {(3 + Breadth) + i : i \in 1 .. Breadth}
      BY <2>1 DEF Indexes
    <2>3. \A n : n \in {(3 + Breadth) + i : i \in 1 .. Breadth}
                    <=> n \in (3 + Breadth) + 1 .. (3 + Breadth) + Breadth
      BY <1>1, <2>1
    <2> QED BY <1>0, <2>2, <2>3
  <1>4. \A n : n \in Retries <=> n \in 10 + 2 * Breadth .. 9 + 3 * Breadth
    <2>1. 9 + 2 * Breadth \in Int /\ \A i \in 1 .. Breadth : retry_(i) = (9 + 2 * Breadth) + i
      BY <1>0 DEF retry_
    <2>2. Retries = {(9 + 2 * Breadth) + i : i \in 1 .. Breadth}
      BY <2>1 DEF Retries
    <2>3. \A n : n \in {(9 + 2 * Breadth) + i : i \in 1 .. Breadth}
                    <=> n \in (9 + 2 * Breadth) + 1 .. (9 + 2 * Breadth) + Breadth
      BY <1>1, <2>1
    <2>4. (9 + 2 * Breadth) + 1 = 10 + 2 * Breadth /\ (9 + 2 * Breadth) + Breadth = 9 + 3 * Breadth
      BY <1>0
    <2> QED BY <2>2, <2>3, <2>4
  <1>5. \A n : n \in Searches <=> n \in 11 + 3 * Breadth .. 10 + 4 * Breadth
    <2>1. 10 + 3 * Breadth \in Int /\ \A i \in 1 .. Breadth : search_(i) = (10 + 3 * Breadth) + i
      BY <1>0 DEF search_
    <2>2. Searches = {(10 + 3 * Breadth) + i : i \in 1 .. Breadth}
      BY <2>1 DEF Searches
    <2>3. \A n : n \in {(10 + 3 * Breadth) + i : i \in 1 .. Breadth}
                    <=> n \in (10 + 3 * Breadth) + 1 .. (10 + 3 * Breadth) + Breadth
      BY <1>1, <2>1
    <2> QED BY <1>0, <2>2, <2>3
  <1> QED BY <1>2, <1>3, <1>4, <1>5

\* The ids of different kinds differ.
LEMMA Sorted ==
  /\ Sort(answer) = "answer" /\ Sort(content) = "content" /\ Sort(distill) = "distill"
  /\ Sort(index_file) = "index_file" /\ Sort(list_directory) = "list_directory"
  /\ Sort(read_file) = "read_file" /\ Sort(recall) = "recall" /\ Sort(remember) = "remember"
  /\ Sort(reminder) = "reminder" /\ Sort(search) = "search" /\ Sort(surface) = "surface"
  /\ Sort(validate) = "validate"
  /\ \A n \in Fetches : Sort(n) = "fetch"
  /\ \A n \in Indexes : Sort(n) = "index"
  /\ \A n \in Searches : Sort(n) = "searches"
  /\ \A n \in Retries : Sort(n) = "retry"
  <1>0. Breadth \in Nat /\ Breadth > 1
    BY PlannerAssumption
  <1> USE DEF answer, content, distill, index_file, list_directory, read_file, recall, remember,
              reminder, search, surface, validate
  <1>1. \A n \in Fetches : Sort(n) = "fetch"
    BY <1>0, FamiliesAre DEF Sort
  <1>2. \A n \in Indexes : Sort(n) = "index"
    BY <1>0, FamiliesAre DEF Sort
  <1>3. \A n \in Searches : Sort(n) = "searches"
    BY <1>0, FamiliesAre DEF Sort
  <1>4. \A n \in Retries : Sort(n) = "retry"
    BY <1>0, FamiliesAre DEF Sort
  <1>5. /\ Sort(answer) = "answer" /\ Sort(content) = "content" /\ Sort(distill) = "distill"
        /\ Sort(index_file) = "index_file" /\ Sort(list_directory) = "list_directory"
        /\ Sort(read_file) = "read_file"
    BY <1>0, FamiliesAre DEF Sort
  <1>6. /\ Sort(recall) = "recall" /\ Sort(remember) = "remember"
        /\ Sort(reminder) = "reminder" /\ Sort(search) = "search" /\ Sort(surface) = "surface"
        /\ Sort(validate) = "validate"
    BY <1>0, FamiliesAre DEF Sort
  <1> QED BY <1>1, <1>2, <1>3, <1>4, <1>5, <1>6

\* Every id the planner uses is a task, and 0 is none.
LEMMA IdsAreTasks ==
  /\ Singles \cup Fetches \cup Indexes \cup Searches \cup Retries \subseteq Tasks
  /\ 0 \notin Tasks
  <1>0. Breadth \in Nat /\ Breadth > 1 /\ Tasks = 1 .. 12 + 4 * Breadth
    BY PlannerAssumption DEF validate
  <1>1. Singles \subseteq Tasks
    BY <1>0 DEF Singles, answer, content, distill, index_file, list_directory, read_file, recall,
                remember, reminder, search, surface, validate
  <1>2. Fetches \cup Indexes \cup Searches \cup Retries \subseteq Tasks
    BY <1>0, FamiliesAre
  <1>3. 0 \notin Tasks
    BY <1>0
  <1> QED BY <1>1, <1>2, <1>3

\* Every request has a retry for each search, and a retry of its own unless they share one.
LEMMA RetryIds ==
  ASSUME request \in Requests, NEW n \in Searches
  PROVE  /\ RetryFor(n) \in Retries
         /\ \A m \in Searches : RetryFor(m) = RetryFor(n) /\ ~request.alias => m = n
  <1>0. Breadth \in Nat /\ Breadth > 1
    BY PlannerAssumption
  <1>1. \A m \in Searches : m - search \in 1 .. Breadth
    BY <1>0, FamiliesAre DEF search
  <1>2. \A m \in Searches : RetryFor(m) \in Retries
    BY <1>0, <1>1 DEF RetryFor, Retries
  <1>3. ASSUME NEW m \in Searches, RetryFor(m) = RetryFor(n), ~request.alias PROVE m = n
    <2>1. 9 + 2 * Breadth + (m - search) = 9 + 2 * Breadth + (n - search)
      BY <1>3 DEF RetryFor, retry_
    <2>2. m \in Int /\ n \in Int /\ search \in Int
      BY <1>0, FamiliesAre DEF search
    <2> QED BY <1>0, <2>1, <2>2
  <1> QED BY <1>2, <1>3

\* The frontier's tasks, and a request's own tasks, are tasks.
LEMMA FrontierIsTasks ==
  ASSUME request \in Requests
  PROVE  /\ Frontier # {} /\ Frontier \subseteq Main /\ remember \notin Frontier
         /\ Main \subseteq Tasks /\ Saving \subseteq Tasks
  <1>0. Singles \cup Fetches \cup Indexes \cup Searches \cup Retries \subseteq Tasks
    BY IdsAreTasks
  <1>1. mode \in Modes /\ request.breadth \in 1 .. Breadth
    BY DEF Requests, mode
  <1>2. {fetch_(i) : i \in 1 .. request.breadth} \subseteq Fetches
        /\ {search_(i) : i \in 1 .. request.breadth} \subseteq Searches
    BY <1>1, PlannerAssumption DEF Fetches, Searches
  <1>3. 1 \in 1 .. request.breadth
    BY <1>1, PlannerAssumption
  <1>4. Frontier # {} /\ Frontier \subseteq Main
    BY <1>1, <1>2, <1>3 DEF Frontier, Main, Modes, Researching
  <1>5. Main \subseteq Tasks /\ Saving \subseteq Tasks
    BY <1>0, <1>1 DEF Main, Modes, Researching, Saving, Singles
  <1>6. remember \notin Main
    BY <1>1, Sorted DEF Main, Modes, Researching
  <1> QED BY <1>4, <1>5, <1>6

-----------------------------------------------------------------------------
(* What the steps do to the derived state.                                  *)

\* A request stays what it is.
LEMMA SameRequest ==
  ASSUME request' = request
  PROVE  /\ mode' = mode /\ Main' = Main /\ Saving' = Saving /\ Frontier' = Frontier
         /\ \A n : Earlier(n)' = Earlier(n)
         /\ \A n : RetryFor(n)' = RetryFor(n)
  <1>1. mode' = mode
    BY DEF mode
  <1>2. Main' = Main
    BY <1>1 DEF Main
  <1>3. Saving' = Saving
    BY DEF Saving
  <1>4. Frontier' = Frontier
    BY <1>1 DEF Frontier
  <1>5. \A n : Earlier(n)' = Earlier(n)
    BY <1>1 DEF Earlier
  <1>6. \A n : RetryFor(n)' = RetryFor(n)
    BY DEF RetryFor
  <1> QED BY <1>1, <1>2, <1>3, <1>4, <1>5, <1>6

\* A patch with new tasks below existing ones is a patch.
LEMMA AddTyped ==
  ASSUME NEW S \in SUBSET Tasks, NEW P \in SUBSET Tasks, NEW p, p = Add(S, P)
  PROVE  /\ p \in PatchType
         /\ p.add = S /\ p.connect = P \X S /\ p.cancel = {}
         /\ p.wait = {} /\ p.resume = {} /\ p.finish = FALSE
BY DEF Add, NoPatch, PatchType

\* The finishing patch adds, connects and parks nothing.
LEMMA FinishTyped ==
  /\ Finish \in PatchType
  /\ Finish.add = {} /\ Finish.connect = {} /\ Finish.cancel = {}
  /\ Finish.wait = {} /\ Finish.resume = {} /\ Finish.finish = TRUE
BY DEF Finish, NoPatch, PatchType

\* The empty patch adds nothing.
LEMMA NoPatchAddsNothing == NoPatch = Add({}, {})
  <1>1. {} \X {} = {}
    OBVIOUS
  <1>2. Add({}, {}) = [NoPatch EXCEPT !.add = {}, !.connect = {}]
    BY <1>1 DEF Add
  <1> QED BY <1>2 DEF NoPatch

\* New tasks, below tasks that exist, close no cycle.
LEMMA FreshClosesNoCycle ==
  ASSUME NEW E \in SUBSET (Tasks \X Tasks), ~HasCycle(E), NEW S \in SUBSET Tasks,
         NEW P \in SUBSET Tasks, P \cap S = {}, \A m, n \in Tasks : <<m, n>> \in E => m \notin S
  PROVE  ~HasCycle(E \cup (P \X S))
  <1> SUFFICES ASSUME NEW C \in SUBSET {e[2] : e \in E \cup (P \X S)}, C # {},
                      \A n \in C : \E m \in C : <<m, n>> \in E \cup (P \X S)
               PROVE  HasCycle(E)
    BY DEF HasCycle
  <1> DEFINE D == C \ S
  <1>1. C \subseteq Tasks
    OBVIOUS
  <1>2. ASSUME NEW n \in C PROVE \E m \in D : <<m, n>> \in E \cup (P \X S)
    <2>1. PICK m \in C : <<m, n>> \in E \cup (P \X S)
      OBVIOUS
    <2>2. m \notin S
      BY <1>1, <2>1
    <2> QED BY <2>1, <2>2
  <1>3. D # {}
    BY <1>2
  <1>4. ASSUME NEW n \in D PROVE \E m \in D : <<m, n>> \in E
    <2>1. PICK m \in D : <<m, n>> \in E \cup (P \X S)
      BY <1>2
    <2> QED BY <2>1
  <1>5. D \subseteq {e[2] : e \in E}
    <2>1. ASSUME NEW n \in D PROVE n \in {e[2] : e \in E}
      <3>1. PICK m \in D : <<m, n>> \in E
        BY <1>4
      <3>2. <<m, n>>[2] = n
        OBVIOUS
      <3> QED BY <3>1, <3>2
    <2> QED BY <2>1
  <1>6. D \in SUBSET {e[2] : e \in E}
    BY <1>5
  <1> HIDE DEF D
  <1> QED BY <1>3, <1>4, <1>6 DEF HasCycle

\* An entry that no planner looks at leaves the missing plans as they are.
LEMMA AfterOtherEntry ==
  ASSUME StoreTypeOK, NewsMatch, NEW x \in EntryType, journal' = Append(journal, x),
         x.kind \notin PlannerKinds, patched' = patched
  PROVE  /\ Missing' = Missing /\ (Starting' <=> Starting)
         /\ News' = News
         /\ \A t \in Missing : journal'[t] = journal[t]
         /\ patched' \subseteq DOMAIN journal'
  <1>0. journal \in Seq(EntryType)
    BY DEF StoreTypeOK, EntryType
  <1> DEFINE L == Len(journal) + 1
  <1>1. /\ DOMAIN journal' = DOMAIN journal \cup {L} /\ L \notin DOMAIN journal
        /\ \A i \in DOMAIN journal : journal'[i] = journal[i]
        /\ journal'[L] = x
    BY <1>0, Appended
  <1> HIDE DEF L
  <1>2. Missing' = Missing
    BY <1>1 DEF Missing, Unplanned
  <1>3. \A t \in Missing : journal'[t] = journal[t]
    BY <1>1 DEF Missing, Unplanned
  <1>4. News' = News /\ (Starting' <=> Starting)
    BY <1>2, <1>3 DEF News, Starting
  <1>5. patched' \subseteq DOMAIN journal'
    BY <1>1 DEF NewsMatch
  <1> QED BY <1>2, <1>3, <1>4, <1>5

\* An entry that a planner looks at is missing its plan.
LEMMA AfterNews ==
  ASSUME StoreTypeOK, NewsMatch, NEW x \in EntryType, journal' = Append(journal, x),
         x.kind \in PlannerKinds, patched' = patched, Missing = {}
  PROVE  /\ \E t \in Nat : Missing' = {t} /\ journal'[t] = x
         /\ patched' \subseteq DOMAIN journal'
  <1>0. journal \in Seq(EntryType)
    BY DEF StoreTypeOK, EntryType
  <1> DEFINE L == Len(journal) + 1
  <1>1. /\ DOMAIN journal' = DOMAIN journal \cup {L} /\ L \notin DOMAIN journal
        /\ \A i \in DOMAIN journal : journal'[i] = journal[i]
        /\ journal'[L] = x /\ L \in Nat
    BY <1>0, Appended
  <1> HIDE DEF L
  <1>2. Missing' = {L}
    BY <1>1 DEF Missing, Unplanned, NewsMatch
  <1>3. patched' \subseteq DOMAIN journal'
    BY <1>1 DEF NewsMatch
  <1> QED BY <1>1, <1>2, <1>3

\* The plan for the one missing event leaves none missing.
LEMMA AfterPlan ==
  ASSUME StoreTypeOK, NewsMatch, NEW t \in Missing, NEW p \in PatchType, ApplyPatch(p, t)
  PROVE  Missing' = {} /\ News' = {} /\ ~Starting' /\ NewsMatch' /\ StoreTypeOK'
  <1>0. journal \in Seq(EntryType) /\ node \in [Tasks -> NodeState \cup {"absent"}]
    BY DEF StoreTypeOK, EntryType
  <1> DEFINE L == Len(journal) + 1
             x == Entry("graph_patched", CancelledBy(p), p)
  <1>1. x \in EntryType /\ x.kind = "graph_patched"
    <2>1. CancelledBy(p) \subseteq Tasks
      BY DEF CancelledBy, PatchType
    <2> QED BY <2>1, EntryTyped, EntryFields DEF Kinds
  <1>2. journal' = Append(journal, x)
    BY DEF ApplyPatch
  <1> HIDE DEF x
  <1>3. /\ DOMAIN journal' = DOMAIN journal \cup {L} /\ L \notin DOMAIN journal
        /\ \A i \in DOMAIN journal : journal'[i] = journal[i] /\ i \in Nat
        /\ journal'[L] = x /\ journal' \in Seq(EntryType)
    BY <1>0, <1>1, <1>2, Appended
  <1> HIDE DEF L
  <1>4. Missing \subseteq {t}
    BY DEF NewsMatch
  <1>5. patched' = patched \cup {t}
    BY DEF ApplyPatch
  <1>6. Missing' = {}
    BY <1>1, <1>3, <1>4, <1>5 DEF Missing, Unplanned, PlannerKinds
  <1>7. News' = {} /\ ~Starting'
    BY <1>6 DEF News, Starting
  <1>8. t \in DOMAIN journal
    BY DEF Missing, Unplanned
  <1>9. NewsMatch'
    <2>1. patched' \subseteq DOMAIN journal'
      BY <1>3, <1>5, <1>8 DEF NewsMatch
    <2> QED BY <1>6, <2>1 DEF NewsMatch
  <1>10. StoreTypeOK'
    <2>1. run' \in {"absent", "open", "finished"}
      BY DEF ApplyPatch, StoreTypeOK
    <2>2. node' \in [Tasks -> NodeState \cup {"absent"}]
      BY <1>0, PatchedTyped DEF ApplyPatch
    <2>3. edges' \in SUBSET (Tasks \X Tasks)
      BY DEF ApplyPatch, StoreTypeOK, PatchType
    <2>4. patched' \in SUBSET Nat
      BY <1>3, <1>5, <1>8 DEF StoreTypeOK
    <2> QED BY <1>3, <2>1, <2>2, <2>3, <2>4 DEF StoreTypeOK, EntryType
  <1> QED BY <1>6, <1>7, <1>9, <1>10

\* What the rows are after new tasks were added, and after a run was finished.
LEMMA AfterAdd ==
  ASSUME StoreTypeOK, NEW S \in SUBSET Tasks, NEW P \in SUBSET Tasks, NEW t,
         ApplyPatch(Add(S, P), t)
  PROVE  /\ run' = run /\ edges' = edges \cup (P \X S)
         /\ \A n \in Tasks : node'[n] = IF n \in S THEN "pending" ELSE node[n]
  <1>1. PICK p : p = Add(S, P)
    OBVIOUS
  <1>2. /\ p.add = S /\ p.connect = P \X S /\ p.cancel = {} /\ p.wait = {} /\ p.resume = {}
        /\ p.finish = FALSE
    BY <1>1 DEF Add, NoPatch
  <1>3. ApplyPatch(p, t)
    BY <1>1
  <1> QED BY <1>2, <1>3 DEF ApplyPatch, Settled, Updated

\* It settles what is live and changes nothing else.
LEMMA AfterFinish ==
  ASSUME StoreTypeOK, NEW t, ApplyPatch(Finish, t)
  PROVE  /\ run' = "finished" /\ edges' = edges
         /\ \A n \in Tasks : node'[n] = IF node[n] \in Live THEN "cancelled" ELSE node[n]
BY FinishTyped DEF ApplyPatch, Settled, Updated, StoreTypeOK

-----------------------------------------------------------------------------
(* A sensible plan keeps the invariant.                                     *)

\* The tasks that must come before S are over, and those that come after it do not exist.
Timely(S) ==
  /\ \A m \in S : \A k \in Earlier(m) : k \in Tasks => k \notin S /\ node[k] \notin Live
  /\ \A m \in S : \A k \in Tasks : m \in Earlier(k) => node[k] = "absent"

\* Each weak outcome has a retry, and nothing else has one, once S is added for n.
Corrects(n, S) ==
  /\ \A m \in S \cap Retries : n \in Searches /\ m = RetryFor(n) /\ node[n] = "succeeded"
  /\ \A k \in News \cap Searches :
       mode = "compose_research" /\ node[k] = "succeeded" /\ evidence[k] = 0 =>
         RetryFor(k) \in S \/ node[RetryFor(k)] # "absent"

\* The run goes on once S is added.
GoesOn(S) ==
  /\ answer \notin News
  /\ mode = "birthday_reminder" =>
       /\ node[remember] = "succeeded" => reminder \in S \/ node[reminder] # "absent"
       /\ node[reminder] \in Over => answer \in S \/ node[answer] # "absent"
  /\ \/ \E n \in Tasks \ {remember} : n \in S \/ node[n] \in Live
     \/ mode = "birthday_reminder" /\ node[remember] \in Live
     \/ NothingToRemind /\ remember \notin S
     \/ FrontierFailed

SensibleAdd(n, S, P) ==
  /\ S \subseteq Tasks /\ P \subseteq Tasks
  /\ \A m \in S : node[m] = "absent" /\ m \in Main \cup {answer} \cup Saving
  /\ \A k \in P : node[k] \in Over
  /\ \A k \in Frontier : node[k] # "absent" \/ k \in S
  /\ Timely(S) /\ Corrects(n, S) /\ GoesOn(S)

\* The store accepts it.
LEMMA SensibleIsAccepted ==
  ASSUME PlannerInv, run = "open", NEW n, NEW S, NEW P, SensibleAdd(n, S, P)
  PROVE  Acceptable(Add(S, P), Graph)
  <1>1. S \in SUBSET Tasks /\ P \in SUBSET Tasks
    BY DEF SensibleAdd
  <1>2. PICK p : p = Add(S, P)
    OBVIOUS
  <1>3. /\ p.add = S /\ p.connect = P \X S /\ p.cancel = {} /\ p.wait = {} /\ p.resume = {}
        /\ p.finish = FALSE
    BY <1>2 DEF Add, NoPatch
  <1>4. ~HasCycle(edges \cup (P \X S))
    <2>1. P \cap S = {}
      BY DEF SensibleAdd, Over
    <2>2. \A m, k \in Tasks : <<m, k>> \in edges => m \notin S
      BY DEF PlannerInv, EdgesMatch, SensibleAdd, Over
    <2>3. edges \in SUBSET (Tasks \X Tasks) /\ ~HasCycle(edges)
      BY DEF PlannerInv, PlannerTypeOK, StoreTypeOK, EdgesMatch
    <2> QED BY <1>1, <2>1, <2>2, <2>3, FreshClosesNoCycle
  <1>5. Acceptable(p, Graph)
    <2>1. P \subseteq {k \in Tasks : node[k] # "absent"}
      BY DEF SensibleAdd, Over
    <2>2. Graph.run = run /\ Graph.node = node /\ Graph.edges = edges
      BY DEF Graph
    <2>3. \A m \in S : node[m] = "absent"
      BY DEF SensibleAdd
    <2> QED BY <1>1, <1>3, <1>4, <2>1, <2>2, <2>3 DEF Acceptable
  <1> QED BY <1>2, <1>5

\* A sensible addition keeps the invariant.
LEMMA SensibleAddStep ==
  ASSUME PlannerInv, run = "open", NEW t \in Missing, NEW n, NEW S, NEW P, SensibleAdd(n, S, P),
         ApplyPatch(Add(S, P), t), UNCHANGED <<request, evidence, restarts>>,
         corrective' = [m \in Tasks |-> IF m \in S \cap Retries THEN n ELSE corrective[m]]
  PROVE  PlannerInv'
  <1>0. S \in SUBSET Tasks /\ P \in SUBSET Tasks /\ StoreTypeOK /\ NewsMatch
    BY DEF SensibleAdd, PlannerInv, PlannerTypeOK
  <1>1. /\ Missing' = {} /\ News' = {} /\ ~Starting' /\ NewsMatch' /\ StoreTypeOK'
    BY <1>0, AfterPlan, AddTyped
  <1>2. /\ run' = "open" /\ edges' = edges \cup (P \X S)
        /\ \A m \in Tasks : node'[m] = IF m \in S THEN "pending" ELSE node[m]
    BY <1>0, AfterAdd
  <1>3. /\ mode' = mode /\ Main' = Main /\ Saving' = Saving /\ Frontier' = Frontier
        /\ \A m : Earlier(m)' = Earlier(m) /\ RetryFor(m)' = RetryFor(m)
    BY SameRequest
  <1>4. Singles \cup Fetches \cup Indexes \cup Searches \cup Retries \subseteq Tasks /\ 0 \notin Tasks
    BY IdsAreTasks
  <1>5. \A m \in Tasks : node[m] \in {"absent", "pending", "running", "succeeded", "failed"}
    BY DEF PlannerInv, Shape
  <1>6. PlannerTypeOK'
    <2>1. corrective' \in [Tasks -> {0} \cup Searches]
      BY DEF SensibleAdd, Corrects, PlannerInv, PlannerTypeOK
    <2> QED BY <1>1, <2>1 DEF PlannerInv, PlannerTypeOK, Requests
  <1>7. Shape'
    <2>1. \A m \in Frontier : node'[m] # "absent"
      <3>1. \A m \in Frontier : m \in Tasks /\ (node[m] # "absent" \/ m \in S)
        BY <1>4, FrontierIsTasks DEF SensibleAdd, PlannerInv, PlannerTypeOK
      <3> QED BY <1>2, <3>1
    <2>2. \A m \in Tasks : node'[m] # "absent" => m \in Main \cup {answer} \cup Saving
      BY <1>2 DEF Shape, SensibleAdd, PlannerInv
    <2>3. \A m \in Tasks : node'[m] \in {"absent", "pending", "running", "succeeded", "failed"}
      BY <1>2, <1>5
    <2> QED BY <1>1, <1>2, <1>3, <2>1, <2>2, <2>3 DEF Shape
  <1>8. EdgesMatch'
    <2>1. ~HasCycle(edges \cup (P \X S))
      <3>1. PICK p : p = Add(S, P)
        OBVIOUS
      <3>2. Acceptable(p, Graph) /\ p.connect = P \X S
        BY <1>0, <3>1, SensibleIsAccepted, AddTyped
      <3> QED BY <3>2 DEF Acceptable, Graph
    <2>2. ~HasCycle(edges')
      BY <1>2, <2>1
    <2>3. ASSUME NEW m \in Tasks, NEW k \in Tasks, <<m, k>> \in edges'
          PROVE  node'[m] \in Over /\ node'[k] # "absent"
      <3>1. CASE <<m, k>> \in edges
        BY <1>2, <3>1 DEF EdgesMatch, PlannerInv, SensibleAdd, Over
      <3>2. CASE m \in P /\ k \in S
        BY <1>2, <3>2 DEF SensibleAdd, Over
      <3> QED BY <1>2, <2>3, <3>1, <3>2
    <2> QED BY <2>2, <2>3 DEF EdgesMatch, HasCycle
  <1>9. InOrder'
    <2>1. ASSUME NEW k \in Tasks, node'[k] # "absent", NEW m \in Earlier(k), m \in Tasks,
                 node'[m] # "absent"
          PROVE  node'[m] \in Over
      BY <1>0, <1>2, <1>5, <2>1 DEF SensibleAdd, Timely, InOrder, Told, Over, Live, PlannerInv
    <2> QED BY <1>1, <1>2, <1>3, <2>1 DEF InOrder, Told, Over
  <1>10. RetriesMatch'
    <2> DEFINE R == S \cap Retries
    <2>0. \A m \in Tasks : corrective'[m] = IF m \in R THEN n ELSE corrective[m]
      OBVIOUS
    <2>1. ASSUME NEW m \in Tasks, corrective'[m] # 0
          PROVE  /\ m \in Retries /\ m = RetryFor(corrective'[m])
                 /\ corrective'[m] \in Searches /\ node'[corrective'[m]] = "succeeded"
      <3>1. CASE m \in R
        BY <1>2, <1>4, <2>0, <3>1 DEF SensibleAdd, Corrects
      <3>2. CASE m \notin R
        BY <1>2, <1>4, <2>0, <2>1, <3>2 DEF SensibleAdd, RetriesMatch, PlannerInv
      <3> QED BY <3>1, <3>2
    <2>2. \A m \in Retries : node'[m] # "absent" <=> corrective'[m] # 0
      BY <1>2, <1>4, <2>0 DEF SensibleAdd, Corrects, RetriesMatch, PlannerInv
    <2>3. ASSUME NEW k \in Searches, mode = "compose_research", node'[k] = "succeeded",
                 evidence[k] = 0
          PROVE  node'[RetryFor(k)] # "absent"
      <3>1. RetryFor(k) \in Tasks
        BY <1>4, RetryIds DEF PlannerInv, PlannerTypeOK
      <3>2. node[k] = "succeeded"
        BY <1>2, <1>4, <2>3
      <3> QED BY <1>2, <2>3, <3>1, <3>2 DEF SensibleAdd, Corrects, RetriesMatch, PlannerInv
    <2>4. \A m : RetryFor(m)' = RetryFor(m)
      BY <1>3
    <2> HIDE DEF R
    <2> QED BY <1>1, <1>3, <2>1, <2>2, <2>3, <2>4 DEF RetriesMatch
  <1>11. Going'
    <2>0. /\ answer \in Tasks /\ remember \in Tasks /\ reminder \in Tasks
          /\ remember # reminder /\ remember # answer /\ reminder # answer
      BY <1>4, Sorted DEF Singles
    <2>1. node'[answer] # "absent" => node'[answer] \in Live
      BY <1>2, <2>0 DEF SensibleAdd, GoesOn, Going, Busy, PlannerInv, Live, Shape
    <2>2. ASSUME mode = "birthday_reminder"
          PROVE  /\ node'[remember] = "succeeded" => node'[reminder] # "absent"
                 /\ node'[reminder] \in Over => node'[answer] # "absent"
      BY <1>2, <2>0, <2>2 DEF SensibleAdd, GoesOn, Over
    <2>3. \/ \E m \in Tasks \ {remember} : node'[m] \in Live
          \/ mode = "birthday_reminder" /\ node'[remember] \in Live
          \/ mode = "birthday_reminder" /\ node'[remember] \in {"absent", "failed"}
          \/ /\ mode \in {"index_file", "index_directory", "search_fetch"}
             /\ request.remember /\ \A m \in Frontier : node'[m] = "failed"
      <3>1. CASE \E m \in Tasks \ {remember} : m \in S \/ node[m] \in Live
        BY <1>2, <3>1 DEF Live
      <3>2. CASE mode = "birthday_reminder" /\ node[remember] \in Live
        BY <1>2, <2>0, <3>2 DEF Live
      <3>3. CASE NothingToRemind /\ remember \notin S
        BY <1>2, <2>0, <3>3 DEF NothingToRemind
      <3>4. CASE FrontierFailed
        <4>1. \A m \in Frontier : m \in Tasks /\ m \notin S
          BY <3>4, FrontierIsTasks DEF FrontierFailed, SensibleAdd, PlannerInv, PlannerTypeOK
        <4> QED BY <1>2, <3>4, <4>1 DEF FrontierFailed
      <3> QED BY <3>1, <3>2, <3>3, <3>4 DEF SensibleAdd, GoesOn
    <2> QED BY <1>1, <1>2, <1>3, <2>1, <2>2, <2>3
            DEF Going, Busy, NothingToRemind, FrontierFailed, Over, Live
  <1>12. run' # "finished"
    BY <1>2
  <1> QED BY <1>1, <1>6, <1>7, <1>8, <1>9, <1>10, <1>11, <1>12 DEF PlannerInv

\* Finishing is sensible when nothing that could contribute is outstanding.
LEMMA FinishIsAccepted ==
  ASSUME PlannerInv, run = "open"
  PROVE  Acceptable(Finish, Graph)
  <1>1. PICK p : p = Finish
    OBVIOUS
  <1>2. /\ p.add = {} /\ p.connect = {} /\ p.cancel = {} /\ p.wait = {} /\ p.resume = {}
    BY <1>1 DEF Finish, NoPatch
  <1>3. ~HasCycle(edges \cup {})
    <2>1. edges \cup {} = edges
      OBVIOUS
    <2> QED BY <2>1 DEF PlannerInv, EdgesMatch
  <1>4. Graph.run = run /\ Graph.node = node /\ Graph.edges = edges
    BY DEF Graph
  <1>5. Acceptable(p, Graph)
    BY <1>2, <1>3, <1>4 DEF Acceptable
  <1> QED BY <1>1, <1>5

\* So does a finish when nothing is outstanding.
LEMMA FinishStep ==
  ASSUME PlannerInv, run = "open", ~Starting, NEW t \in Missing, Calm, NEW n, Corrects(n, {}),
         ApplyPatch(Finish, t), UNCHANGED <<request, evidence, restarts, corrective>>
  PROVE  PlannerInv'
  <1>0. StoreTypeOK /\ NewsMatch
    BY DEF PlannerInv, PlannerTypeOK
  <1>1. /\ Missing' = {} /\ News' = {} /\ ~Starting' /\ NewsMatch' /\ StoreTypeOK'
    BY <1>0, AfterPlan, FinishTyped
  <1>2. /\ run' = "finished" /\ edges' = edges
        /\ \A m \in Tasks : node'[m] = IF node[m] \in Live THEN "cancelled" ELSE node[m]
    BY <1>0, AfterFinish
  <1>3. /\ mode' = mode /\ Main' = Main /\ Saving' = Saving /\ Frontier' = Frontier
        /\ \A m : Earlier(m)' = Earlier(m) /\ RetryFor(m)' = RetryFor(m)
    BY SameRequest
  <1>4. Singles \cup Fetches \cup Indexes \cup Searches \cup Retries \subseteq Tasks /\ 0 \notin Tasks
    BY IdsAreTasks
  <1>5. \A m \in Tasks : node'[m] # "absent" <=> node[m] # "absent"
    BY <1>2 DEF Live
  <1>6. PlannerTypeOK'
    BY <1>1 DEF PlannerInv, PlannerTypeOK, Requests
  <1>7. Shape'
    <2>1. \A m \in Frontier : m \in Tasks /\ node'[m] # "absent"
      BY <1>4, <1>5, FrontierIsTasks DEF Shape, PlannerInv, PlannerTypeOK
    <2> QED BY <1>1, <1>2, <1>3, <1>5, <2>1 DEF Shape, PlannerInv
  <1>8. EdgesMatch'
    BY <1>2, <1>5 DEF EdgesMatch, PlannerInv, Over, Live, HasCycle
  <1>9. InOrder' /\ Going'
    BY <1>2 DEF InOrder, Going
  <1>10. RetriesMatch'
    <2>1. ASSUME NEW m \in Tasks, corrective[m] # 0
          PROVE  /\ m \in Retries /\ m = RetryFor(corrective[m])
                 /\ corrective[m] \in Searches /\ node'[corrective[m]] = "succeeded"
      BY <1>2, <1>4, <2>1 DEF RetriesMatch, PlannerInv, Live
    <2>2. \A m \in Retries : node'[m] # "absent" <=> corrective[m] # 0
      BY <1>4, <1>5 DEF RetriesMatch, PlannerInv
    <2>3. ASSUME NEW k \in Searches, mode = "compose_research", node'[k] = "succeeded",
                 evidence[k] = 0
          PROVE  node'[RetryFor(k)] # "absent"
      <3>1. RetryFor(k) \in Tasks
        BY <1>4, RetryIds DEF PlannerInv, PlannerTypeOK
      <3>2. node[k] = "succeeded"
        BY <1>2, <1>4, <2>3
      <3> QED BY <1>5, <2>3, <3>1, <3>2 DEF Corrects, RetriesMatch, PlannerInv
    <2>4. \A m : RetryFor(m)' = RetryFor(m)
      BY <1>3
    <2> QED BY <1>1, <1>3, <2>1, <2>2, <2>3, <2>4 DEF RetriesMatch
  <1>11. Calm'
    BY <1>2, <1>3 DEF Calm, Live
  <1> QED BY <1>1, <1>6, <1>7, <1>8, <1>9, <1>10, <1>11 DEF PlannerInv

-----------------------------------------------------------------------------
(* The executor's steps.                                                    *)

\* A request begins with its run, whose event is the one to plan for.
LEMMA BeginStep == PlannerInv /\ Begin => PlannerInv'
  <1> SUFFICES ASSUME PlannerInv, Begin PROVE PlannerInv'
    OBVIOUS
  <1>0. StoreTypeOK /\ NewsMatch /\ run = "absent" /\ journal = <<>> /\ patched = {}
    <2>1. StoreTypeOK /\ NewsMatch /\ run = "absent" /\ Shape
      BY DEF PlannerInv, PlannerTypeOK, Begin, Start
    <2>2. journal = <<>>
      BY <2>1 DEF Shape
    <2>3. patched = {}
      BY <2>1, <2>2 DEF NewsMatch
    <2> QED BY <2>1, <2>2, <2>3
  <1> DEFINE x == Entry("run_started", {}, NoPatch)
  <1>1. /\ x \in EntryType /\ x.kind = "run_started" /\ x.tasks = {}
        /\ journal' = Append(journal, x) /\ patched' = patched
    BY EntryTyped, NoPatchTyped, EntryFields DEF Begin, Start, Journal, Kinds, PlannerKinds
  <1> HIDE DEF x
  <1>2. Missing = {}
    BY <1>0 DEF Missing, Unplanned
  <1>3. /\ \E t \in Nat : Missing' = {t} /\ journal'[t] = x
        /\ patched' \subseteq DOMAIN journal'
    BY <1>0, <1>1, <1>2, AfterNews DEF PlannerKinds
  <1>4. PICK t \in Nat : Missing' = {t} /\ journal'[t] = x
    BY <1>3
  <1>5. /\ run' = "open" /\ node' = node /\ edges' = edges
        /\ UNCHANGED <<request, evidence, corrective, restarts>>
    BY DEF Begin, Start
  <1>6. NewsMatch'
    BY <1>1, <1>3, <1>4 DEF NewsMatch
  <1>7. Starting' /\ News' = {}
    BY <1>1, <1>4 DEF Starting, News
  <1>8. /\ mode' = mode /\ Main' = Main /\ Saving' = Saving /\ Frontier' = Frontier
        /\ \A m : Earlier(m)' = Earlier(m) /\ RetryFor(m)' = RetryFor(m)
    BY <1>5, SameRequest
  <1>9. PlannerTypeOK'
    <2>1. journal' \in Seq(EntryType)
      BY <1>0, <1>1, Appended DEF StoreTypeOK, EntryType
    <2> QED BY <1>0, <1>5, <1>1, <2>1 DEF PlannerInv, PlannerTypeOK, StoreTypeOK, EntryType, Requests
  <1>10. edges = {} /\ \A m \in Tasks : node[m] = "absent"
    BY <1>0 DEF PlannerInv, Shape
  <1>11. Shape'
    BY <1>5, <1>7, <1>10 DEF Shape
  <1>12. EdgesMatch'
    BY <1>5, <1>10 DEF EdgesMatch, HasCycle, Over
  <1>13. InOrder'
    BY <1>5, <1>10 DEF InOrder
  <1>14. RetriesMatch'
    <2>1. Searches \cup Retries \subseteq Tasks
      BY IdsAreTasks
    <2> QED BY <1>5, <1>8, <1>10, <2>1 DEF RetriesMatch, PlannerInv
  <1>15. Going' /\ run' # "finished"
    BY <1>5, <1>7 DEF Going
  <1> QED BY <1>6, <1>9, <1>11, <1>12, <1>13, <1>14, <1>15 DEF PlannerInv

\* A task may start, or be put back; nothing else depends on which.
LEMMA RequeueStep ==
  ASSUME PlannerInv, run = "open", run' = "open", edges' = edges, patched' = patched,
         UNCHANGED <<request, evidence, corrective>>, PlannerTypeOK',
         NEW x \in EntryType, journal' = Append(journal, x), x.kind \notin PlannerKinds,
         \A m \in Tasks : node'[m] = node[m]
                          \/ (node[m] \in Live /\ node'[m] \in {"pending", "running"})
  PROVE  PlannerInv'
  <1>0. StoreTypeOK /\ NewsMatch
    BY DEF PlannerInv, PlannerTypeOK
  <1>1. /\ Missing' = Missing /\ News' = News /\ (Starting' <=> Starting)
        /\ \A t \in Missing : journal'[t] = journal[t]
        /\ patched' \subseteq DOMAIN journal'
    BY <1>0, AfterOtherEntry
  <1>2. /\ mode' = mode /\ Main' = Main /\ Saving' = Saving /\ Frontier' = Frontier
        /\ \A m : Earlier(m)' = Earlier(m) /\ RetryFor(m)' = RetryFor(m)
    BY SameRequest
  <1>3. Singles \cup Fetches \cup Indexes \cup Searches \cup Retries \subseteq Tasks /\ 0 \notin Tasks
    BY IdsAreTasks
  <1>4. /\ Frontier \subseteq Tasks
        /\ \A k \in Searches : RetryFor(k) \in Tasks
    BY <1>3, FrontierIsTasks, RetryIds DEF PlannerInv, PlannerTypeOK
  <1>5. NewsMatch'
    <2>1. \A m \in Tasks : node[m] \in {"succeeded", "failed"} => node'[m] = node[m]
      BY DEF Live
    <2>2. \E t \in Nat : Missing' \subseteq {t}
      BY <1>0, <1>1 DEF NewsMatch
    <2>3. ASSUME NEW t \in Missing, journal[t].kind # "run_started"
          PROVE  \E n \in Tasks :
                   /\ journal'[t].tasks = {n} /\ node'[n] \in {"succeeded", "failed"}
                   /\ journal'[t].kind = IF node'[n] = "succeeded" THEN "task_succeeded"
                                         ELSE "task_failed"
      <3>1. PICK n \in Tasks :
              /\ journal[t].tasks = {n} /\ node[n] \in {"succeeded", "failed"}
              /\ journal[t].kind = IF node[n] = "succeeded" THEN "task_succeeded"
                                   ELSE "task_failed"
        BY <1>0, <2>3 DEF NewsMatch
      <3>2. node'[n] = node[n] /\ journal'[t] = journal[t]
        BY <1>1, <2>1, <3>1
      <3> QED BY <3>1, <3>2
    <2>4. \A t \in Missing : journal[t].kind = "run_started" => journal[t].tasks = {}
      BY <1>0 DEF NewsMatch
    <2> QED BY <1>1, <2>2, <2>3, <2>4 DEF NewsMatch
  <1>6. Shape'
    BY <1>1, <1>2, <1>4 DEF Shape, PlannerInv, Live
  <1>7. EdgesMatch'
    BY DEF EdgesMatch, PlannerInv, HasCycle, Over, Live
  <1>8. InOrder'
    BY <1>1, <1>2 DEF InOrder, PlannerInv, Told, Over, Live
  <1>9. RetriesMatch'
    BY <1>1, <1>2, <1>3, <1>4 DEF RetriesMatch, PlannerInv, Live
  <1>10. Going'
    <2>0. /\ answer \in Tasks /\ remember \in Tasks /\ reminder \in Tasks
      BY <1>3 DEF Singles
    <2>1. \A m \in Tasks : Busy(m) => Busy(m)'
      BY <1>1 DEF Busy, Live
    <2>2. NothingToRemind => NothingToRemind'
      BY <1>2, <2>0 DEF NothingToRemind, Live
    <2>3. FrontierFailed => FrontierFailed'
      BY <1>2, <1>4 DEF FrontierFailed, Live
    <2>4. \A m \in Tasks : /\ (node[m] # "absent" <=> node'[m] # "absent")
                           /\ (node'[m] = "succeeded" <=> node[m] = "succeeded")
                           /\ (node'[m] \in Over <=> node[m] \in Over)
      BY DEF Live, Over
    <2>5. Going
      BY DEF PlannerInv
    <2> QED BY <1>1, <1>2, <2>0, <2>1, <2>2, <2>3, <2>4, <2>5 DEF Going
  <1> QED BY <1>5, <1>6, <1>7, <1>8, <1>9, <1>10 DEF PlannerInv

\* Launching plans nothing.
LEMMA FillStep == PlannerInv /\ Fill => PlannerInv'
  <1> SUFFICES ASSUME PlannerInv, Fill PROVE PlannerInv'
    OBVIOUS
  <1>0. PICK limit : limit = MaxWorkers - Cardinality(Running) /\ Launch(limit)
    BY DEF Fill
  <1> DEFINE x == Entry("task_started", ReadyUpTo(limit), NoPatch)
  <1>1. ReadyUpTo(limit) \in SUBSET Tasks
    BY DEF ReadyUpTo, Ready
  <1>2. x \in EntryType /\ x.kind \notin PlannerKinds /\ journal' = Append(journal, x)
    BY <1>0, <1>1, EntryTyped, NoPatchTyped, EntryFields DEF Launch, Journal, Kinds, PlannerKinds
  <1> HIDE DEF x
  <1>3. /\ run = "open" /\ run' = "open" /\ edges' = edges /\ patched' = patched
        /\ UNCHANGED <<request, evidence, corrective, restarts>>
    BY <1>0 DEF Fill, Idle, Launch
  <1>4. node' = [m \in Tasks |-> IF m \in ReadyUpTo(limit) THEN "running" ELSE node[m]]
    BY <1>0 DEF Launch
  <1>5. \A m \in Tasks : node'[m] = node[m]
                         \/ (node[m] \in Live /\ node'[m] \in {"pending", "running"})
    BY <1>4 DEF ReadyUpTo, Ready, Live
  <1>6. PlannerTypeOK'
    <2>1. journal' \in Seq(EntryType)
      BY <1>2, Appended DEF PlannerInv, PlannerTypeOK, StoreTypeOK, EntryType
    <2>2. node' \in [Tasks -> NodeState \cup {"absent"}]
      BY <1>4 DEF PlannerInv, PlannerTypeOK, StoreTypeOK, NodeState, Live
    <2> QED BY <1>3, <2>1, <2>2
            DEF PlannerInv, PlannerTypeOK, StoreTypeOK, EntryType, Requests
  <1> QED BY <1>2, <1>3, <1>5, <1>6, RequeueStep

\* A restart puts running rows back.
LEMMA RestartStep == PlannerInv /\ Restart => PlannerInv'
  <1> SUFFICES ASSUME PlannerInv, Restart PROVE PlannerInv'
    OBVIOUS
  <1> DEFINE x == Entry("run_resumed", {}, NoPatch)
  <1>2. x \in EntryType /\ x.kind \notin PlannerKinds /\ journal' = Append(journal, x)
    BY EntryTyped, NoPatchTyped, EntryFields DEF Restart, Resume, Journal, Kinds, PlannerKinds
  <1> HIDE DEF x
  <1>3. /\ run = "open" /\ run' = "open" /\ edges' = edges /\ patched' = patched
        /\ UNCHANGED <<request, evidence, corrective>>
        /\ restarts' = restarts + 1 /\ restarts < MaxRestarts
    BY DEF Restart, Resume
  <1>4. node' = [m \in Tasks |-> Requeued(node[m])]
    BY DEF Restart, Resume
  <1>5. \A m \in Tasks : node'[m] = node[m]
                         \/ (node[m] \in Live /\ node'[m] \in {"pending", "running"})
    BY <1>4 DEF Requeued, Live
  <1>6. PlannerTypeOK'
    <2>1. journal' \in Seq(EntryType)
      BY <1>2, Appended DEF PlannerInv, PlannerTypeOK, StoreTypeOK, EntryType
    <2>2. node' \in [Tasks -> NodeState \cup {"absent"}]
      BY <1>4 DEF PlannerInv, PlannerTypeOK, StoreTypeOK, NodeState, Live, Requeued
    <2>3. restarts' \in 0 .. MaxRestarts
      BY <1>3, PlannerAssumption DEF PlannerInv, PlannerTypeOK
    <2> QED BY <1>3, <2>1, <2>2, <2>3
            DEF PlannerInv, PlannerTypeOK, StoreTypeOK, EntryType, Requests
  <1> QED BY <1>2, <1>3, <1>5, <1>6, RequeueStep

\* An outcome is news; whatever else the invariant says is about other tasks.
LEMMA OutcomeStep ==
  ASSUME PlannerInv, Idle, NEW n \in Tasks, NEW o \in {"succeeded", "failed"},
         RecordOutcome(n, o), UNCHANGED <<request, corrective, restarts>>,
         evidence' \in [Tasks -> 0 .. Breadth],
         \A m \in Tasks : m # n => evidence'[m] = evidence[m]
  PROVE  PlannerInv'
  <1>0. StoreTypeOK /\ NewsMatch /\ run = "open" /\ Missing = {} /\ node[n] = "running"
    BY DEF PlannerInv, PlannerTypeOK, Idle, Missing, RecordOutcome, CanRecord
  <1> DEFINE x == Entry(OutcomeKind(o), {n}, NoPatch)
  <1>1. /\ x \in EntryType /\ x.kind = OutcomeKind(o) /\ x.tasks = {n}
        /\ journal' = Append(journal, x) /\ x.kind \in PlannerKinds
        /\ x.kind # "run_started"
    BY EntryTyped, NoPatchTyped, EntryFields
       DEF RecordOutcome, Journal, Kinds, PlannerKinds, OutcomeKind
  <1> HIDE DEF x
  <1>2. /\ run' = "open" /\ edges' = edges /\ patched' = patched
        /\ node' = [node EXCEPT ![n] = o]
    BY <1>0 DEF RecordOutcome
  <1>3. \A m \in Tasks : node'[m] = IF m = n THEN o ELSE node[m]
    BY <1>0, <1>2 DEF StoreTypeOK
  <1>4. PICK t \in Nat : Missing' = {t} /\ journal'[t] = x
    BY <1>0, <1>1, <1>2, AfterNews
  <1>5. patched' \subseteq DOMAIN journal'
    BY <1>0, <1>1, <1>2, AfterNews
  <1>6. ~Starting' /\ News' = {n} /\ News = {} /\ ~Starting
    <2>1. News' = {m \in Tasks : x.tasks = {m}}
      BY <1>4 DEF News
    <2>2. News' = {n}
      BY <1>1, <2>1
    <2> QED BY <1>0, <1>1, <1>4, <2>2 DEF Starting, News
  <1>7. /\ mode' = mode /\ Main' = Main /\ Saving' = Saving /\ Frontier' = Frontier
        /\ \A m : Earlier(m)' = Earlier(m) /\ RetryFor(m)' = RetryFor(m)
    BY SameRequest
  <1>8. Singles \cup Fetches \cup Indexes \cup Searches \cup Retries \subseteq Tasks /\ 0 \notin Tasks
    BY IdsAreTasks
  <1>9. /\ Frontier \subseteq Tasks
        /\ \A k \in Searches : RetryFor(k) \in Tasks
    BY <1>8, FrontierIsTasks, RetryIds DEF PlannerInv, PlannerTypeOK
  <1>10. NewsMatch'
    BY <1>1, <1>3, <1>4, <1>5 DEF NewsMatch, OutcomeKind
  <1>11. PlannerTypeOK'
    <2>1. journal' \in Seq(EntryType)
      BY <1>0, <1>1, Appended DEF StoreTypeOK, EntryType
    <2>2. node' \in [Tasks -> NodeState \cup {"absent"}]
      BY <1>0, <1>2 DEF StoreTypeOK, NodeState
    <2> QED BY <1>0, <1>2, <2>1, <2>2
            DEF PlannerInv, PlannerTypeOK, StoreTypeOK, EntryType, Requests
  <1>12. Shape'
    BY <1>0, <1>2, <1>3, <1>6, <1>7, <1>9 DEF Shape, PlannerInv
  <1>13. EdgesMatch'
    BY <1>0, <1>2, <1>3 DEF EdgesMatch, PlannerInv, HasCycle, Over
  <1>14. InOrder'
    BY <1>0, <1>2, <1>3, <1>6, <1>7 DEF InOrder, PlannerInv, Told, Over
  <1>15. RetriesMatch'
    BY <1>0, <1>3, <1>6, <1>7, <1>8, <1>9 DEF RetriesMatch, PlannerInv
  <1>16. Going'
    <2>0. /\ answer \in Tasks /\ remember \in Tasks /\ reminder \in Tasks
      BY <1>8 DEF Singles
    <2>1. \A m \in Tasks : Busy(m) => Busy(m)'
      BY <1>3, <1>6 DEF Busy
    <2>2. NothingToRemind => NothingToRemind'
      BY <1>0, <1>3, <1>7, <2>0 DEF NothingToRemind
    <2>3. FrontierFailed => FrontierFailed'
      BY <1>0, <1>3, <1>7, <1>9 DEF FrontierFailed
    <2>4. \A m \in Tasks : /\ (node[m] # "absent" <=> node'[m] # "absent")
                           /\ m # n => node'[m] = node[m]
      BY <1>0, <1>3
    <2>5. Going
      BY DEF PlannerInv
    <2> QED BY <1>0, <1>2, <1>6, <1>7, <2>0, <2>1, <2>2, <2>3, <2>4, <2>5 DEF Going
  <1>17. run' # "finished"
    BY <1>2
  <1> QED BY <1>10, <1>11, <1>12, <1>13, <1>14, <1>15, <1>16, <1>17 DEF PlannerInv

-----------------------------------------------------------------------------
(* Which tasks a request may have, and which of them come first.            *)

\* A task of a request says of which mode the request may be.
LEMMA ModesOf ==
  ASSUME request \in Requests, NEW m \in Main
  PROVE  /\ m # answer /\ m # remember
         /\ m = content => mode = "compose_answer"
         /\ m = surface => mode \in {"compose_answer", "compose_research"}
         /\ m = validate => mode = "structured_compare"
         /\ m = recall => mode \in {"memory", "birthday_reminder", "index_file"}
         /\ m = reminder => mode = "birthday_reminder"
         /\ m = read_file => mode = "read_file"
         /\ m = index_file => mode = "index_file"
         /\ m = list_directory \/ m \in Indexes => mode = "index_directory"
         /\ m = search => mode = "search_fetch"
         /\ m \in Fetches => mode \in {"search_fetch", "fetch"}
         /\ m \in Searches => mode \in Researching
         /\ m \in Retries => mode = "compose_research"
         /\ m = distill => mode \in Researching \cup {"index_file", "search_fetch", "fetch"}
  <1>0. mode \in Modes
    BY DEF Requests, mode
  <1> DEFINE s == Sort(m)
  <1>1. /\ m = answer => s = "answer"
        /\ m = remember => s = "remember"
        /\ m = content => s = "content"
        /\ m = surface => s = "surface"
        /\ m = validate => s = "validate"
        /\ m = recall => s = "recall"
        /\ m = reminder => s = "reminder"
        /\ m = read_file => s = "read_file"
        /\ m = index_file => s = "index_file"
        /\ m = list_directory => s = "list_directory"
        /\ m \in Indexes => s = "index"
        /\ m = search => s = "search"
        /\ m \in Fetches => s = "fetch"
        /\ m \in Searches => s = "searches"
        /\ m \in Retries => s = "retry"
        /\ m = distill => s = "distill"
    BY Sorted
  <1> HIDE DEF s
  <1>2. CASE mode \in {"memory", "birthday_reminder", "compose_answer", "read_file"}
    BY <1>1, <1>2 DEF Main, Researching
  <1>3. CASE mode \in {"index_file", "index_directory"}
    BY <1>1, <1>3 DEF Main, Researching
  <1>4. CASE mode \in {"search_fetch", "fetch"}
    BY <1>1, <1>4 DEF Main, Researching
  <1>5. CASE mode \in Researching
    BY <1>1, <1>5 DEF Main, Researching
  <1> QED BY <1>0, <1>2, <1>3, <1>4, <1>5 DEF Modes

\* What must come before a task of each kind.
LEMMA EarlierAre ==
  /\ Earlier(validate) = {content, distill} \cup Sources
  /\ Earlier(surface) = {content, distill} \cup Sources
  /\ Earlier(distill) = Sources /\ Earlier(recall) = {index_file}
  /\ Earlier(reminder) = {remember}
  /\ Earlier(answer) = Tasks \ {answer, IF mode = "birthday_reminder" THEN recall ELSE remember}
  /\ \A n \in Indexes : Earlier(n) = {list_directory}
  /\ \A n \in Fetches : Earlier(n) = {search}
  /\ \A n \in Retries \cup Searches : Earlier(n) = {}
  /\ Earlier(remember) = {}
  <1> USE Sorted
  <1>1. Earlier(validate) = {content, distill} \cup Sources
    BY DEF Earlier
  <1>2. Earlier(surface) = {content, distill} \cup Sources
    BY DEF Earlier
  <1>3. Earlier(distill) = Sources /\ Earlier(recall) = {index_file}
    BY DEF Earlier
  <1>4. Earlier(reminder) = {remember} /\ Earlier(remember) = {}
    BY DEF Earlier
  <1>5. Earlier(answer)
          = Tasks \ {answer, IF mode = "birthday_reminder" THEN recall ELSE remember}
    BY DEF Earlier
  <1>6. \A n \in Indexes : Earlier(n) = {list_directory}
    BY DEF Earlier
  <1>7. \A n \in Fetches : Earlier(n) = {search}
    BY DEF Earlier
  <1>8. \A n \in Retries \cup Searches : Earlier(n) = {}
    BY DEF Earlier
  <1> QED BY <1>1, <1>2, <1>3, <1>4, <1>5, <1>6, <1>7, <1>8

\* What may come after a task.
LEMMA LaterAre ==
  ASSUME NEW k, NEW m \in Earlier(k)
  PROVE  /\ m # answer
         /\ \/ k = answer
            \/ k \in {validate, surface} /\ m \in {content, distill} \cup Sources
            \/ k = distill /\ m \in Sources
            \/ k = recall /\ m = index_file
            \/ k = reminder /\ m = remember
            \/ k \in Indexes /\ m = list_directory
            \/ k \in Fetches /\ m = search
  <1>1. \/ k = answer /\ m \in Tasks \ {answer}
        \/ k \in {validate, surface} /\ m \in {content, distill} \cup Sources
        \/ k = distill /\ m \in Sources
        \/ k = recall /\ m = index_file
        \/ k = reminder /\ m = remember
        \/ k \in Indexes /\ m = list_directory
        \/ k \in Fetches /\ m = search
    BY DEF Earlier
  <1>2. answer \notin Sources
    BY Sorted DEF Sources
  <1>3. answer \notin {content, distill, index_file, remember, list_directory, search}
    BY Sorted
  <1> QED BY <1>1, <1>2, <1>3

-----------------------------------------------------------------------------
(* Every plan is sensible.                                                  *)

Sensible(n, p) ==
  \/ \E S, P \in SUBSET Tasks : p = Add(S, P) /\ SensibleAdd(n, S, P)
  \/ p = Finish /\ ~Starting /\ Calm /\ Corrects(n, {})

\* The outcome of n is the one that is not planned for.
Due(n) ==
  /\ PlannerInv /\ run = "open" /\ ~Starting /\ News = {n}
  /\ n \in Tasks /\ node[n] \in {"succeeded", "failed"}

\* What the invariant says of a graph for which the outcome of n is due.
LEMMA DueFacts ==
  ASSUME NEW n, Due(n)
  PROVE  /\ request \in Requests
         /\ \A k \in Tasks : node[k] \in {"absent", "pending", "running", "succeeded", "failed"}
         /\ \A k \in Tasks : node[k] # "absent" => k \in Main \cup {answer} \cup Saving
         /\ \A k \in Tasks : n \in Earlier(k) => node[k] = "absent"
         /\ \A k \in Tasks, m \in Tasks :
              node[k] # "absent" /\ m \in Earlier(k) => node[m] \notin Live
         /\ \A k \in Frontier : node[k] # "absent"
         /\ n # answer /\ node[answer] # "absent" => node[answer] \in Live
         /\ n \in Main \cup {answer} \cup Saving
  <1>1. request \in Requests
    BY DEF Due, PlannerInv, PlannerTypeOK
  <1>2. \A k \in Tasks : node[k] \in {"absent", "pending", "running", "succeeded", "failed"}
    BY DEF Due, PlannerInv, Shape
  <1>3. \A k \in Tasks : node[k] # "absent" => k \in Main \cup {answer} \cup Saving
    BY DEF Due, PlannerInv, Shape
  <1>4. \A k \in Tasks : n \in Earlier(k) => node[k] = "absent"
    BY DEF Due, PlannerInv, InOrder, Told
  <1>5. \A k \in Tasks, m \in Tasks :
          node[k] # "absent" /\ m \in Earlier(k) => node[m] \notin Live
    BY DEF Due, PlannerInv, InOrder, Told, Over, Live
  <1>6. \A k \in Frontier : node[k] # "absent"
    BY DEF Due, PlannerInv, Shape
  <1>7. n # answer /\ node[answer] # "absent" => node[answer] \in Live
    BY DEF Due, PlannerInv, Going, Busy
  <1>8. n \in Main \cup {answer} \cup Saving
    BY <1>3 DEF Due
  <1> QED BY <1>1, <1>2, <1>3, <1>4, <1>5, <1>6, <1>7, <1>8

\* New tasks are sensible when they come in time; they keep the run going.
LEMMA AddIsSensible ==
  ASSUME NEW n, Due(n), n # answer, NEW S \in SUBSET Tasks, NEW P \in SUBSET Tasks,
         S # {}, \A m \in S : m \in Main \cup {answer} /\ node[m] = "absent",
         \A k \in P : node[k] \in Over,
         Timely(S), Corrects(n, S),
         mode = "birthday_reminder" =>
           /\ n = remember /\ node[n] = "succeeded" => reminder \in S
           /\ n = reminder => answer \in S
  PROVE  Sensible(n, Add(S, P))
  <1>1. \A m \in S : m # remember
    BY DueFacts, ModesOf, Sorted
  <1>2. \A k \in Frontier : node[k] # "absent"
    BY DueFacts
  <1>3. GoesOn(S)
    <2>1. \E m \in Tasks \ {remember} : m \in S
      BY <1>1
    <2>2. answer \notin News
      BY DEF Due
    <2>3. ASSUME mode = "birthday_reminder"
          PROVE  /\ node[remember] = "succeeded" => reminder \in S \/ node[reminder] # "absent"
                 /\ node[reminder] \in Over => answer \in S \/ node[answer] # "absent"
      BY <2>3 DEF Due, PlannerInv, Going
    <2> QED BY <2>1, <2>2, <2>3 DEF GoesOn
  <1>4. SensibleAdd(n, S, P)
    BY <1>2, <1>3 DEF SensibleAdd
  <1> QED BY <1>4 DEF Sensible

\* Adding nothing is sensible while another task is still at work.
LEMMA WaitIsSensible ==
  ASSUME NEW n, Due(n), n # answer, Corrects(n, {}),
         mode = "birthday_reminder" => n # reminder /\ (n = remember => node[n] = "failed"),
         \/ \E m \in Tasks \ {remember} : node[m] \in Live
         \/ mode = "birthday_reminder" /\ node[remember] \in Live
         \/ NothingToRemind \/ FrontierFailed
  PROVE  Sensible(n, NoPatch)
  <1>1. \A k \in Frontier : node[k] # "absent"
    BY DueFacts
  <1>2. GoesOn({})
    <2>2. answer \notin News
      BY DEF Due
    <2>3. ASSUME mode = "birthday_reminder"
          PROVE  /\ node[remember] = "succeeded" => node[reminder] # "absent"
                 /\ node[reminder] \in Over => node[answer] # "absent"
      BY <2>3 DEF Due, PlannerInv, Going
    <2> QED BY <2>2, <2>3 DEF GoesOn
  <1>3. SensibleAdd(n, {}, {})
    BY <1>1, <1>2 DEF SensibleAdd, Timely
  <1>4. {} \in SUBSET Tasks
    OBVIOUS
  <1> QED BY <1>3, <1>4, NoPatchAddsNothing DEF Sensible

\* An answer is sensible when all that must come before it is over.
LEMMA AnswerIsSensible ==
  ASSUME NEW n, Due(n), n # answer, Corrects(n, {}),
         \A k \in Earlier(answer) : node[k] \notin Live,
         mode = "birthday_reminder" => n # recall /\ (n = remember => node[n] = "failed")
  PROVE  Sensible(n, AnswerPatch)
  <1>0. answer \in Tasks /\ remember \in Tasks /\ recall \in Tasks
    BY IdsAreTasks DEF Singles
  <1>1. Earlier(answer) = Tasks \ {answer, IF mode = "birthday_reminder" THEN recall ELSE remember}
    BY EarlierAre
  <1>2. CASE Exists(answer)
    <2>1. node[answer] \in Live
      BY <1>2, DueFacts DEF Exists
    <2>2. n \notin Earlier(answer)
      BY <1>0, <1>2, DueFacts DEF Exists
    <2>3. mode # "birthday_reminder" /\ answer # remember
      BY <1>1, <2>2, Sorted DEF Due
    <2>4. Sensible(n, NoPatch)
      BY <1>0, <2>1, <2>3, WaitIsSensible
    <2> QED BY <1>2, <2>4 DEF AnswerPatch
  <1>3. CASE ~Exists(answer)
    <2> DEFINE P == {k \in Tasks : node[k] = "succeeded"}
    <2> DEFINE S == {answer}
    <2>1. Timely(S)
      <3>1. \A m \in S : \A k \in Earlier(m) : k \in Tasks => k \notin S /\ node[k] \notin Live
        BY <1>1
      <3>2. \A m \in S : \A k \in Tasks : m \in Earlier(k) => node[k] = "absent"
        BY LaterAre
      <3> QED BY <3>1, <3>2 DEF Timely
    <2>2. Corrects(n, S)
      <3>1. answer \notin Retries
        BY Sorted
      <3> QED BY <3>1 DEF Corrects
    <2>3. \A k \in P : node[k] \in Over
      BY DEF Over
    <2>4. S \in SUBSET Tasks /\ P \in SUBSET Tasks /\ S # {}
      BY <1>0
    <2>5. \A m \in S : m \in Main \cup {answer} /\ node[m] = "absent"
      BY <1>3 DEF Exists
    <2>6. answer \in S
      OBVIOUS
    <2>7. AnswerPatch = Add(S, P)
      BY <1>3 DEF AnswerPatch
    <2> HIDE DEF S, P
    <2>8. Sensible(n, Add(S, P))
      BY <2>1, <2>2, <2>3, <2>4, <2>5, <2>6, AddIsSensible
    <2> QED BY <2>7, <2>8
  <1> QED BY <1>2, <1>3

\* Only a search of compose_research that succeeded has anything to correct.
LEMMA NothingToCorrect ==
  ASSUME NEW n, Due(n), NEW S, S \cap Retries = {},
         n \notin Searches \/ node[n] = "failed" \/ mode # "compose_research"
  PROVE  Corrects(n, S)
BY DEF Corrects, Due

\* One new task, for which nothing that comes after it can have been planned yet.
LEMMA OneIsSensible ==
  ASSUME NEW n, Due(n), n # answer, NEW m \in Main, node[m] = "absent",
         \A k \in Earlier(m) : k \in Tasks => k # m /\ node[k] \notin Live,
         \A k \in Tasks : m \in Earlier(k) => n \in Earlier(k),
         NEW P \in SUBSET Tasks, \A k \in P : node[k] \in Over,
         Corrects(n, {m}),
         mode = "birthday_reminder" => n # reminder /\ (n = remember => m = reminder)
  PROVE  Sensible(n, Add({m}, P))
  <1> DEFINE S == {m}
  <1>1. m \in Tasks
    BY DueFacts, FrontierIsTasks
  <1>2. Timely(S)
    BY DueFacts DEF Timely
  <1>3. /\ S \in SUBSET Tasks /\ S # {} /\ Corrects(n, S)
        /\ (n = remember /\ mode = "birthday_reminder" => reminder \in S)
        /\ \A k \in S : k \in Main \cup {answer} /\ node[k] = "absent"
    BY <1>1
  <1> HIDE DEF S
  <1>4. Sensible(n, Add(S, P))
    BY <1>2, <1>3, AddIsSensible
  <1> QED BY <1>4 DEF S

\* An answer, when nothing but the saving of a fact is at work.
LEMMA AnswerAfterMain ==
  ASSUME NEW n, Due(n), n # answer, mode # "birthday_reminder", Corrects(n, {}),
         \A k \in Main : node[k] \notin Live
  PROVE  Sensible(n, AnswerPatch)
  <1>1. \A k \in Earlier(answer) : k \in Tasks /\ k # answer /\ k # remember
    BY EarlierAre
  <1>2. ASSUME NEW k \in Earlier(answer) PROVE node[k] \notin Live
    BY <1>1, DueFacts DEF Saving, Live
  <1> QED BY <1>2, AnswerIsSensible

\* The last resort, and doing nothing instead of it.
LEMMA OtherwiseIsSensible ==
  ASSUME NEW n, Due(n), n \notin {answer, recall, reminder}, Corrects(n, {}),
         \/ \E k \in Tasks \ {answer, remember} : node[k] \in Live
         \/ node[n] = "failed" /\ n \in {remember, index_file, list_directory, search}
         \/ n = remember /\ node[n] = "succeeded" /\ mode # "birthday_reminder",
         mode = "birthday_reminder" /\ n = remember => node[n] = "failed"
  PROVE  Sensible(n, Otherwise(node[n] = "succeeded"))
  <1>0. answer \in Tasks /\ remember \in Tasks /\ recall \in Tasks /\ n \in Tasks
    BY IdsAreTasks DEF Singles, Due
  <1>1. CASE \E k \in Tasks \ {answer, remember} : node[k] \in Live
    <2>1. ~Landed(Tasks \ {answer})
      BY <1>1 DEF Landed, Exists, Over, Live
    <2>2. Otherwise(node[n] = "succeeded") = NoPatch
      BY <2>1 DEF Otherwise, ExplainFailure
    <2>3. Sensible(n, NoPatch)
      BY <1>1, WaitIsSensible
    <2> QED BY <2>2, <2>3
  <1>2. CASE n = remember /\ node[n] = "succeeded" /\ mode # "birthday_reminder"
    <2>1. Otherwise(node[n] = "succeeded") = NoPatch
      BY <1>2 DEF Otherwise
    <2>2. (\E k \in Tasks \ {remember} : Busy(k)) \/ FrontierFailed
      BY <1>2 DEF Due, PlannerInv, Going, NothingToRemind
    <2>3. (\E k \in Tasks \ {remember} : node[k] \in Live) \/ FrontierFailed
      BY <1>2, <2>2 DEF Busy, Due
    <2>4. Sensible(n, NoPatch)
      BY <1>2, <2>3, WaitIsSensible
    <2> QED BY <2>1, <2>4
  <1>3. CASE node[n] = "failed" /\ n \in {remember, index_file, list_directory, search}
    <2>0. Otherwise(node[n] = "succeeded") = ExplainFailure
      BY <1>3 DEF Otherwise
    <2>1. CASE Landed(Tasks \ {answer})
      <3>1. ASSUME NEW k \in Earlier(answer) PROVE node[k] \notin Live
        BY <2>1, EarlierAre DEF Landed, Exists, Over, Live
      <3>2. Sensible(n, AnswerPatch)
        BY <1>3, <3>1, AnswerIsSensible
      <3> QED BY <2>0, <2>1, <3>2 DEF ExplainFailure
    <2>2. CASE ~Landed(Tasks \ {answer})
      <3>1. PICK k \in Tasks \ {answer} : node[k] # "absent" /\ node[k] \notin Over
        BY <1>0, <1>3, <2>2 DEF Landed, Exists
      <3>2. node[k] \in Live
        BY <3>1, DueFacts DEF Over, Live
      <3>3. CASE k # remember
        <4>1. Sensible(n, NoPatch)
          BY <1>3, <3>2, <3>3, WaitIsSensible
        <4> QED BY <2>0, <2>2, <4>1 DEF ExplainFailure
      <3>4. CASE k = remember
        <4>1. n # remember
          BY <1>3, <3>2, <3>4 DEF Live
        <4>2. n \in Main
          BY <4>1, DueFacts DEF Saving
        <4>3. Frontier = {n} /\ mode \in {"index_file", "index_directory", "search_fetch"}
          <5>1. request \in Requests
            BY DueFacts
          <5>2. \/ n = index_file /\ mode = "index_file"
                \/ n = list_directory /\ mode = "index_directory"
                \/ n = search /\ mode = "search_fetch"
            BY <1>3, <4>1, <4>2, <5>1, ModesOf
          <5> QED BY <5>2 DEF Frontier, Researching
        <4>4. request.remember
          <5>1. remember \in Main \cup {answer} \cup Saving
            BY <1>0, <3>2, <3>4, DueFacts DEF Live
          <5>2. remember \notin Main /\ remember # answer
            BY DueFacts, ModesOf, Sorted
          <5> QED BY <5>1, <5>2 DEF Saving
        <4>5. FrontierFailed
          BY <1>3, <4>3, <4>4 DEF FrontierFailed
        <4>6. Sensible(n, NoPatch)
          BY <1>3, <4>5, WaitIsSensible
        <4> QED BY <2>0, <2>2, <4>6 DEF ExplainFailure
      <3> QED BY <3>3, <3>4
    <2> QED BY <2>1, <2>2
  <1> QED BY <1>1, <1>2, <1>3

\* A run is finished when its answer, or its surface, is made: all else has come before.
LEMMA FinishIsSensible ==
  ASSUME NEW n, Due(n), n \in {answer, surface}
  PROVE  Sensible(n, Finish)
  <1>1. Corrects(n, {})
    BY NothingToCorrect, Sorted
  <1>2. \A k \in Tasks : node[k] \in {"absent", "succeeded", "failed"} \/ node[k] \in Live
    BY DueFacts DEF Live
  <1>3. ASSUME NEW k \in Tasks \ {answer, remember}, ~(k = recall /\ mode = "birthday_reminder"),
               node[k] \in Live
        PROVE  FALSE
    <2>0. answer \in Tasks /\ surface \in Tasks /\ n \in Tasks /\ node[n] # "absent"
      BY IdsAreTasks DEF Singles, Due
    <2>1. CASE n = answer
      <3>1. k \in Earlier(answer)
        BY <1>3, EarlierAre
      <3> QED BY <1>3, <2>0, <2>1, <3>1, DueFacts
    <2>2. CASE n = surface
      <3>1. k \in Main
        BY <1>3, DueFacts DEF Live, Saving
      <3>2. n \in Main
        BY <2>2, DueFacts, Sorted DEF Saving
      <3>3. mode \in {"compose_answer", "compose_research"}
        BY <2>2, <3>2, DueFacts, ModesOf
      <3>4. k = surface \/ k \in Earlier(surface)
        BY <3>1, <3>3, EarlierAre DEF Main, Sources
      <3>5. node[surface] \notin Live
        BY <2>2 DEF Due, Live
      <3> QED BY <1>3, <2>0, <2>2, <3>4, <3>5, DueFacts
    <2> QED BY <2>1, <2>2
  <1>4. Calm
    BY <1>2, <1>3 DEF Calm
  <1> QED BY <1>1, <1>4 DEF Sensible, Due

\* The outcome of the content to compose from.
LEMMA AfterContent ==
  ASSUME NEW n, Due(n), n = content
  PROVE  IF node[n] # "succeeded" THEN Sensible(n, Finish)
         ELSE Sensible(n, IF Exists(surface) THEN NoPatch ELSE Add({surface}, {content}))
  <1>0. content \in Tasks /\ surface \in Tasks
    BY IdsAreTasks DEF Singles
  <1>1. n \in Main
    BY DueFacts, Sorted DEF Saving
  <1>2. mode = "compose_answer" /\ Main = {content, surface}
    <2>1. mode = "compose_answer"
      BY <1>1, DueFacts, ModesOf
    <2> QED BY <2>1 DEF Main
  <1>3. node[surface] = "absent"
    BY <1>0, DueFacts, EarlierAre
  <1>4. CASE node[n] # "succeeded"
    <2>1. Calm
      BY <1>2, <1>3, DueFacts DEF Calm, Saving, Due
    <2>2. Corrects(n, {})
      BY <1>4, NothingToCorrect DEF Due
    <2> QED BY <1>4, <2>1, <2>2 DEF Sensible, Due
  <1>5. CASE node[n] = "succeeded"
    <2> DEFINE P == {content}
    <2>1. P \in SUBSET Tasks /\ \A k \in P : node[k] \in Over
      BY <1>0, <1>5 DEF Over
    <2>2. surface \in Main /\ n # answer /\ n \notin Searches /\ surface \notin Retries
      BY <1>2, Sorted
    <2>3. ASSUME NEW k \in Earlier(surface), k \in Tasks PROVE k # surface /\ node[k] \notin Live
      <3>1. k # surface /\ k # answer /\ k # remember
        BY <2>3, EarlierAre, Sorted DEF Sources
      <3>2. k = content \/ node[k] = "absent"
        BY <1>2, <2>3, <3>1, DueFacts DEF Saving
      <3> QED BY <1>5, <3>1, <3>2 DEF Live
    <2>4. ASSUME NEW k \in Tasks, surface \in Earlier(k) PROVE n \in Earlier(k)
      <3>1. surface \notin {content, distill} \cup Sources /\ surface # index_file /\ surface # remember
            /\ surface # list_directory /\ surface # search
        BY Sorted DEF Sources
      <3>2. k = answer
        BY <2>4, <3>1, LaterAre
      <3> QED BY <1>0, <1>2, <3>2, EarlierAre, Sorted
    <2>5. Corrects(n, {surface})
      BY <2>2, NothingToCorrect
    <2> HIDE DEF P
    <2>6. Sensible(n, Add({surface}, P))
      BY <1>2, <1>3, <2>1, <2>2, <2>3, <2>4, <2>5, OneIsSensible
    <2> QED BY <1>3, <1>5, <2>6 DEF Exists, P
  <1> QED BY <1>4, <1>5

\* A search of a research request: a retry if its evidence is weak, the synthesis if it is the last.
LEMMA AfterResearchIsSensible ==
  ASSUME NEW n, Due(n), mode = "compose_research", IsResearch(n)
  PROVE  Sensible(n, AfterResearch(n, node[n] = "succeeded"))
  <1> DEFINE ok == node[n] = "succeeded"
  <1>0. /\ Searches \cup Retries \subseteq Tasks /\ distill \in Tasks /\ n \in Tasks
        /\ n \in Searches \cup Retries /\ request \in Requests
    BY IdsAreTasks, DueFacts DEF Singles, IsResearch
  <1>1. Main = {distill, surface} \cup Searches \cup Retries
    BY DEF Main
  <1>2. /\ n # answer /\ n # remember /\ n # reminder /\ n # distill
        /\ distill \notin Retries /\ \A m \in Retries : m \notin Searches
        /\ \A m \in Searches \cup Retries : m # remember
    BY <1>0, Sorted
  <1>3. n \in Sources /\ n \in Earlier(distill) /\ node[distill] = "absent"
    BY <1>0, EarlierAre, DueFacts DEF Sources
  <1>4. ASSUME NEW k, NEW m \in Sources \cup {distill}, m \in Earlier(k),
               m \notin {index_file, remember, list_directory, search}
        PROVE  n \in Earlier(k)
    <2>1. k = answer \/ k \in {validate, surface} \/ k = distill
      BY <1>4, LaterAre
    <2> QED BY <1>0, <1>2, <1>3, <2>1, EarlierAre
  <1>5. CASE ok /\ DeservesRetry(n)
    <2> DEFINE m == RetryFor(n)
    <2>1. n \in Searches /\ node[m] = "absent" /\ m \in Retries
      BY <1>0, <1>5, RetryIds DEF DeservesRetry, Exists
    <2>2. m \notin {index_file, remember, list_directory, search} /\ m \in Sources
      BY <2>1, Sorted DEF Sources
    <2>3. Earlier(m) = {}
      BY <2>1, EarlierAre
    <2>4. Corrects(n, {m})
      BY <1>5, <2>1 DEF Corrects, Due
    <2>5. m \in Main
      BY <1>1, <2>1
    <2>6. \A k \in Tasks : m \in Earlier(k) => n \in Earlier(k)
      BY <1>4, <2>2
    <2> HIDE DEF m
    <2>7. Sensible(n, Add({m}, {}))
      BY <1>2, <2>1, <2>3, <2>4, <2>5, <2>6, OneIsSensible
    <2> QED BY <1>5, <2>7 DEF AfterResearch, m
  <1>6. CASE ~(ok /\ DeservesRetry(n))
    <2>1. \A S : S \cap Retries = {} => Corrects(n, S)
      BY <1>0, <1>6 DEF Corrects, DeservesRetry, Exists, Due
    <2>2. \A k \in Searches \cup Retries : Exists(k) => k \in Leaves \/ node[k] = "succeeded"
      BY <1>0, IdsAreTasks DEF Leaves, Due, PlannerInv, RetriesMatch
    <2>3. CASE Landed(Leaves)
      <3>1. Leaves \in SUBSET Tasks /\ \A k \in Leaves : node[k] \in Over
        BY <1>0, <2>3 DEF Leaves, Landed
      <3>2. ASSUME NEW k \in Earlier(distill), k \in Tasks
            PROVE  k # distill /\ node[k] \notin Live
        <4>1. k # distill /\ k # answer /\ k # surface /\ k # remember
          BY <3>2, EarlierAre, Sorted DEF Sources
        <4>2. k \in Searches \cup Retries \/ node[k] = "absent"
          BY <1>1, <3>2, <4>1, DueFacts DEF Saving
        <4> QED BY <2>2, <3>1, <4>1, <4>2 DEF Exists, Over, Live
      <3>3. distill \notin {index_file, remember, list_directory, search}
        BY Sorted
      <3>4. \A k \in Tasks : distill \in Earlier(k) => n \in Earlier(k)
        BY <1>4, <3>3
      <3>5. Corrects(n, {distill}) /\ distill \in Main
        BY <1>1, <1>2, <2>1
      <3>6. Sensible(n, Add({distill}, Leaves))
        BY <1>2, <1>3, <3>1, <3>2, <3>4, <3>5, OneIsSensible
      <3> QED BY <1>3, <1>6, <2>3, <3>6 DEF AfterResearch, Exists
    <2>4. CASE ~Landed(Leaves)
      <3>1. Leaves # {}
        <4>1. CASE n \in Leaves
          BY <4>1
        <4>2. CASE n \notin Leaves
          <5>1. PICK m \in Tasks : corrective[m] = n
            BY <1>0, <4>2 DEF Leaves, Exists, Due
          <5>2. m \in Retries /\ n \in Searches
            BY <1>0, <5>1, IdsAreTasks DEF Due, PlannerInv, RetriesMatch
          <5>3. Exists(m)
            BY <1>0, <5>1, <5>2, IdsAreTasks DEF Due, PlannerInv, RetriesMatch, Exists
          <5>4. \A j \in Tasks : corrective[j] # m
            BY <1>0, <1>2, <5>2, IdsAreTasks DEF Due, PlannerInv, RetriesMatch
          <5> QED BY <5>2, <5>3, <5>4 DEF Leaves
        <4> QED BY <4>1, <4>2
      <3>2. PICK m \in Leaves : node[m] \notin Over
        BY <2>4, <3>1 DEF Landed, Leaves
      <3>3. m \in Tasks \ {remember} /\ node[m] \in Live
        BY <1>0, <1>2, <3>2, DueFacts DEF Leaves, Exists, Over, Live
      <3>4. Corrects(n, {})
        BY <2>1
      <3>5. Sensible(n, NoPatch)
        BY <1>2, <3>3, <3>4, WaitIsSensible
      <3> QED BY <1>6, <2>4, <3>5 DEF AfterResearch
    <2> QED BY <2>3, <2>4
  <1> QED BY <1>5, <1>6

\* A search or a fetch of the other requests: the synthesis if it is the last.
LEMMA AfterSourceIsSensible ==
  ASSUME NEW n, Due(n), mode # "compose_research", n \in Fetches \cup Searches
  PROVE  Sensible(n, AfterSource(node[n] = "succeeded"))
  <1>0. /\ Searches \cup Fetches \subseteq Tasks /\ distill \in Tasks /\ n \in Tasks
        /\ search \in Tasks /\ answer \in Tasks
        /\ request \in Requests
    BY IdsAreTasks, DueFacts DEF Singles
  <1>1. /\ n \notin {answer, remember, reminder, recall, distill}
        /\ distill \notin Retries /\ distill # remember
        /\ \A m \in Searches \cup Fetches : m # remember /\ m # answer
    BY <1>0, Sorted
  <1>2. n \in Main
    BY <1>0, <1>1, DueFacts DEF Saving
  <1>3. /\ n \in Fetches => mode \in {"search_fetch", "fetch"}
        /\ n \in Searches => mode \in {"parallel_search", "structured_compare"}
    BY <1>0, <1>2, ModesOf DEF Researching
  <1>4. mode # "birthday_reminder"
    BY <1>3
  <1>5. /\ distill \in Main
        /\ Main \subseteq {distill, validate, search} \cup Fetches \cup Searches
        /\ n \in Searches => search \notin Main
    <2>1. distill \in Main /\ Main \subseteq {distill, validate, search} \cup Fetches \cup Searches
      BY <1>3 DEF Main
    <2>2. n \in Searches => search \notin Main
      BY <1>0, <1>3, ModesOf
    <2> QED BY <2>1, <2>2
  <1>6. n \in Sources /\ node[distill] = "absent"
    BY <1>0, EarlierAre, DueFacts DEF Sources
  <1>7. \A S : S \cap Retries = {} => Corrects(n, S)
    BY NothingToCorrect
  <1>8. Exists(n) /\ n \in Fetches \cup Searches
    BY DEF Due, Exists
  <1>9. CASE ~Landed(Fetches \cup Searches)
    <2>1. PICK m \in Fetches \cup Searches : Exists(m) /\ node[m] \notin Over
      BY <1>8, <1>9 DEF Landed
    <2>2. m \in Tasks \ {answer, remember} /\ node[m] \in Live
      BY <1>0, <1>1, <2>1, DueFacts DEF Exists, Over, Live
    <2>3. Corrects(n, {})
      BY <1>7
    <2>4. Sensible(n, Otherwise(node[n] = "succeeded"))
      BY <1>1, <2>2, <2>3, OtherwiseIsSensible
    <2> QED BY <1>9, <2>4 DEF AfterSource
  <1>10. CASE Landed(Fetches \cup Searches)
    <2> DEFINE searched == {m \in Searches : Exists(m)}
               P == IF searched # {} THEN searched ELSE {m \in Fetches : Exists(m)}
    <2>1. P \in SUBSET Tasks /\ \A k \in P : node[k] \in Over
      BY <1>0, <1>10 DEF Landed
    <2>2. AfterSource(node[n] = "succeeded") = Add({distill}, P)
      BY <1>6, <1>10 DEF AfterSource, Exists
    <2> HIDE DEF P
    <2>3. ASSUME NEW k \in Earlier(distill), k \in Tasks PROVE k # distill /\ node[k] \notin Live
      <3>1. k # distill /\ k # answer /\ k # validate /\ k # remember
        BY <2>3, EarlierAre, Sorted DEF Sources
      <3>2. CASE k \in Fetches \cup Searches
        BY <1>10, <3>1, <3>2 DEF Landed, Exists, Over, Live
      <3>3. CASE k = search
        <4>1. n \in Fetches => node[search] \notin Live
          BY <1>0, <1>8, EarlierAre, DueFacts DEF Exists
        <4>2. n \in Searches => node[search] = "absent"
          BY <1>0, <1>5, <3>1, <3>3, DueFacts DEF Saving
        <4> QED BY <1>8, <3>1, <3>3, <4>1, <4>2 DEF Live
      <3>4. CASE k \notin Fetches \cup Searches \cup {search}
        BY <1>5, <2>3, <3>1, <3>4, DueFacts DEF Saving, Live
      <3> QED BY <3>2, <3>3, <3>4
    <2>4. ASSUME NEW k \in Tasks, distill \in Earlier(k) PROVE n \in Earlier(k)
      <3>1. distill \notin Sources \cup {index_file, remember, list_directory, search}
        BY Sorted DEF Sources
      <3>2. k = answer \/ k \in {validate, surface}
        BY <2>4, <3>1, LaterAre
      <3> QED BY <1>0, <1>1, <1>6, <3>2, EarlierAre
    <2>5. Corrects(n, {distill})
      BY <1>1, <1>7
    <2>6. Sensible(n, Add({distill}, P))
      BY <1>1, <1>4, <1>5, <1>6, <2>1, <2>3, <2>4, <2>5, OneIsSensible
    <2> QED BY <2>2, <2>6
  <1> QED BY <1>9, <1>10

\* The synthesis: what its mode makes of it.
LEMMA AfterDistillIsSensible ==
  ASSUME NEW n, Due(n), n = distill
  PROVE  Sensible(n, AfterDistill(node[n] = "succeeded"))
  <1>0. /\ Searches \cup Fetches \cup Retries \subseteq Tasks /\ distill \in Tasks
        /\ surface \in Tasks /\ validate \in Tasks /\ request \in Requests
    BY IdsAreTasks, DueFacts DEF Singles
  <1>1. /\ n \notin {answer, remember, reminder, recall} /\ n \notin Searches
        /\ surface \notin Retries /\ validate \notin Retries
        /\ surface # distill /\ validate # distill
    BY Sorted
  <1>2. n \in Main /\ mode \in Researching \cup {"index_file", "search_fetch", "fetch"}
    <2>1. n \in Main
      BY <1>0, <1>1, DueFacts DEF Saving
    <2> QED BY <1>0, <2>1, ModesOf
  <1>3. Main \subseteq {distill, surface, validate} \cup Sources /\ mode # "birthday_reminder"
    BY <1>2 DEF Main, Sources, Researching
  <1>4. \A S : S \cap Retries = {} => Corrects(n, S)
    BY <1>1, NothingToCorrect
  <1>5. node[surface] = "absent" /\ node[validate] = "absent"
    BY <1>0, EarlierAre, DueFacts
  <1>6. \A k \in Tasks : k \in Sources => node[k] \notin Live
    BY <1>0, EarlierAre, DueFacts DEF Due
  <1>7. node[distill] \notin Live /\ node[distill] \in Over
    BY DEF Due, Live, Over
  <1>8. ASSUME NEW m \in {surface, validate}, NEW k \in Earlier(m), k \in Tasks
        PROVE  k # m /\ node[k] \notin Live
    <2>1. k \in {content, distill} \cup Sources
      BY <1>8, EarlierAre
    <2>2. k # m
      BY <2>1, Sorted DEF Sources
    <2>3. k = content => node[k] = "absent"
      <3>1. content \notin Main \cup {answer} \cup Saving
        BY <1>0, <1>2, ModesOf, Sorted DEF Saving, Researching
      <3> QED BY <1>8, <3>1, DueFacts
    <2> QED BY <1>6, <1>7, <1>8, <2>1, <2>2, <2>3 DEF Live
  <1>9. ASSUME NEW m \in {surface, validate}, NEW k \in Tasks, m \in Earlier(k)
        PROVE  n \in Earlier(k)
    <2>1. m \notin {content, distill} \cup Sources \cup {index_file, remember, list_directory, search}
      BY Sorted DEF Sources
    <2>2. k = answer
      BY <1>9, <2>1, LaterAre
    <2> QED BY <1>0, <1>1, <1>3, <2>2, EarlierAre
  <1>10. CASE mode = "compose_research" /\ node[n] = "succeeded"
    <2> DEFINE P == Leaves \cup {distill}
    <2>1. AfterDistill(node[n] = "succeeded") = Add({surface}, P)
      BY <1>5, <1>10 DEF AfterDistill, Exists
    <2>2. P \in SUBSET Tasks /\ \A k \in P : node[k] \in Over
      BY <1>0, <1>6, <1>7, DueFacts DEF Leaves, Exists, Sources, Over, Live
    <2>3. surface \in Main
      BY <1>10 DEF Main
    <2> HIDE DEF P
    <2>4. Corrects(n, {surface})
      BY <1>1, <1>4
    <2>5. \A k \in Earlier(surface) : k \in Tasks => k # surface /\ node[k] \notin Live
      BY <1>8
    <2>6. \A k \in Tasks : surface \in Earlier(k) => n \in Earlier(k)
      BY <1>9
    <2>7. Sensible(n, Add({surface}, P))
      BY <1>1, <1>3, <1>5, <2>2, <2>3, <2>4, <2>5, <2>6, OneIsSensible
    <2> QED BY <2>1, <2>7
  <1>11. CASE mode = "structured_compare"
    <2> DEFINE P == {distill}
    <2>1. AfterDistill(node[n] = "succeeded") = Add({validate}, P)
      BY <1>11 DEF AfterDistill
    <2>2. P \in SUBSET Tasks /\ \A k \in P : node[k] \in Over
      BY <1>0, <1>7
    <2>3. validate \in Main
      BY <1>11 DEF Main
    <2> HIDE DEF P
    <2>4. Corrects(n, {validate})
      BY <1>1, <1>4
    <2>5. \A k \in Earlier(validate) : k \in Tasks => k # validate /\ node[k] \notin Live
      BY <1>8
    <2>6. \A k \in Tasks : validate \in Earlier(k) => n \in Earlier(k)
      BY <1>9
    <2>7. Sensible(n, Add({validate}, P))
      BY <1>1, <1>3, <1>5, <2>2, <2>3, <2>4, <2>5, <2>6, OneIsSensible
    <2> QED BY <2>1, <2>7
  <1>12. CASE ~(mode = "compose_research" /\ node[n] = "succeeded") /\ mode # "structured_compare"
    <2>1. AfterDistill(node[n] = "succeeded") = AnswerPatch
      BY <1>12 DEF AfterDistill
    <2>2. \A k \in Main : node[k] \notin Live
      BY <1>0, <1>3, <1>5, <1>6, <1>7, FrontierIsTasks DEF Live
    <2>3. Corrects(n, {})
      BY <1>4
    <2>4. Sensible(n, AnswerPatch)
      BY <1>1, <1>3, <2>2, <2>3, AnswerAfterMain
    <2> QED BY <2>1, <2>4
  <1> QED BY <1>10, <1>11, <1>12

\* A recall.
LEMMA AfterRecallIsSensible ==
  ASSUME NEW n, Due(n), n = recall
  PROVE  Sensible(n, AfterRecall)
  <1>0. /\ recall \in Tasks /\ distill \in Tasks /\ index_file \in Tasks /\ reminder \in Tasks
        /\ remember \in Tasks /\ answer \in Tasks /\ request \in Requests
    BY IdsAreTasks, DueFacts DEF Singles
  <1>1. /\ n \notin {answer, remember, reminder, distill} /\ n \notin Searches
        /\ distill \notin Retries /\ reminder # remember /\ answer # remember
    BY Sorted
  <1>2. n \in Main /\ mode \in {"memory", "birthday_reminder", "index_file"}
    <2>1. n \in Main
      BY <1>0, <1>1, DueFacts DEF Saving
    <2> QED BY <1>0, <2>1, ModesOf
  <1>3. \A S : S \cap Retries = {} => Corrects(n, S)
    BY <1>1, NothingToCorrect
  <1>4. CASE mode = "birthday_reminder"
    <2>1. AfterRecall = NoPatch
      BY <1>4 DEF AfterRecall
    <2>2. \/ node[remember] \in Live \/ NothingToRemind
          \/ node[reminder] \in Live \/ node[answer] \in Live
      <3>1. node[remember] \in {"absent", "failed", "succeeded"} \/ node[remember] \in Live
        BY <1>0, DueFacts DEF Live
      <3>2. node[remember] = "succeeded" => node[reminder] # "absent"
        BY <1>1, <1>4 DEF Due, PlannerInv, Going
      <3>3. node[reminder] \in Over => node[answer] # "absent"
        BY <1>1, <1>4 DEF Due, PlannerInv, Going
      <3>4. node[reminder] # "absent" => node[reminder] \in Live \/ node[reminder] \in Over
        BY <1>0, DueFacts DEF Live, Over
      <3>5. node[answer] # "absent" => node[answer] \in Live
        BY <1>1, DueFacts
      <3> QED BY <1>4, <3>1, <3>2, <3>3, <3>4, <3>5 DEF NothingToRemind
    <2>3. Corrects(n, {})
      BY <1>3
    <2>4. Sensible(n, NoPatch)
      BY <1>0, <1>1, <1>4, <2>2, <2>3, WaitIsSensible
    <2> QED BY <2>1, <2>4
  <1>5. CASE mode = "index_file"
    <2> DEFINE P == {recall}
    <2>0. Main = {index_file, recall, distill}
      BY <1>5 DEF Main
    <2>1. node[distill] = "absent"
      BY <1>0, EarlierAre, DueFacts DEF Sources
    <2>2. AfterRecall = Add({distill}, P)
      BY <1>5, <2>1 DEF AfterRecall, Exists
    <2>3. P \in SUBSET Tasks /\ \A k \in P : node[k] \in Over
      BY <1>0 DEF Due, Over
    <2> HIDE DEF P
    <2>4. ASSUME NEW k \in Earlier(distill), k \in Tasks PROVE k # distill /\ node[k] \notin Live
      <3>1. k # distill /\ k # answer /\ k # remember
        BY <2>4, EarlierAre, Sorted DEF Sources
      <3>2. k = index_file => node[k] \notin Live
        BY <1>0, EarlierAre, DueFacts DEF Due
      <3>3. k = recall => node[k] \notin Live
        BY DEF Due, Live
      <3>4. k \notin {index_file, recall} => node[k] = "absent"
        BY <2>0, <2>4, <3>1, DueFacts DEF Saving
      <3> QED BY <3>1, <3>2, <3>3, <3>4 DEF Live
    <2>5. ASSUME NEW k \in Tasks, distill \in Earlier(k) PROVE n \in Earlier(k)
      <3>1. distill \notin Sources \cup {index_file, remember, list_directory, search}
        BY Sorted DEF Sources
      <3>2. k = answer \/ k \in {validate, surface}
        BY <2>5, <3>1, LaterAre
      <3> QED BY <1>0, <1>1, <1>5, <3>2, EarlierAre DEF Sources
    <2>6. Corrects(n, {distill})
      BY <1>1, <1>3
    <2>7. Sensible(n, Add({distill}, P))
      BY <1>1, <1>5, <2>0, <2>1, <2>3, <2>4, <2>5, <2>6, OneIsSensible
    <2> QED BY <2>2, <2>7
  <1>6. CASE mode = "memory"
    <2>1. AfterRecall = AnswerPatch
      BY <1>6 DEF AfterRecall
    <2>2. \A k \in Main : node[k] \notin Live
      BY <1>6 DEF Main, Due, Live
    <2>3. Corrects(n, {})
      BY <1>3
    <2>4. Sensible(n, AnswerPatch)
      BY <1>1, <1>6, <2>2, <2>3, AnswerAfterMain
    <2> QED BY <2>1, <2>4
  <1> QED BY <1>2, <1>4, <1>5, <1>6

\* A validation, a reminder or a file that was read: the answer is next.
LEMMA AfterLastIsSensible ==
  ASSUME NEW n, Due(n), n \in {validate, reminder, read_file}
  PROVE  Sensible(n, AnswerPatch)
  <1>0. /\ validate \in Tasks /\ reminder \in Tasks /\ read_file \in Tasks /\ remember \in Tasks
        /\ recall \in Tasks /\ answer \in Tasks /\ request \in Requests
    BY IdsAreTasks, DueFacts DEF Singles
  <1>1. n \notin {answer, remember, recall} /\ n \notin Searches
    BY Sorted
  <1>2. n \in Main
    BY <1>0, <1>1, DueFacts DEF Saving
  <1>3. Corrects(n, {})
    BY <1>1, NothingToCorrect
  <1>4. node[n] \notin Live /\ node[n] # "absent"
    BY DEF Due, Live
  <1>5. CASE n = validate
    <2>1. mode = "structured_compare"
      BY <1>0, <1>2, <1>5, ModesOf
    <2>2. Main \subseteq {validate, distill} \cup Sources
      BY <2>1 DEF Main, Sources
    <2>3. \A k \in Main : node[k] \notin Live
      BY <1>0, <1>4, <1>5, <2>2, EarlierAre, DueFacts, FrontierIsTasks
    <2> QED BY <1>1, <1>3, <2>1, <2>3, AnswerAfterMain
  <1>6. CASE n = read_file
    <2>1. mode = "read_file"
      BY <1>0, <1>2, <1>6, ModesOf
    <2>2. \A k \in Main : node[k] \notin Live
      BY <1>4, <1>6, <2>1 DEF Main
    <2> QED BY <1>1, <1>3, <2>1, <2>2, AnswerAfterMain
  <1>7. CASE n = reminder
    <2>1. mode = "birthday_reminder"
      BY <1>0, <1>2, <1>7, ModesOf
    <2>2. Main = {recall, reminder}
      BY <2>1 DEF Main
    <2>3. node[remember] \notin Live
      BY <1>0, <1>4, <1>7, EarlierAre, DueFacts
    <2>4. ASSUME NEW k \in Earlier(answer) PROVE node[k] \notin Live
      <3>1. k \in Tasks /\ k # answer /\ k # recall
        BY <2>1, EarlierAre
      <3> QED BY <1>4, <1>7, <2>2, <2>3, <3>1, DueFacts DEF Saving, Live
    <2> QED BY <1>1, <1>3, <2>4, AnswerIsSensible
  <1> QED BY <1>5, <1>6, <1>7

\* An indexed file is recalled from.
LEMMA AfterIndexFileIsSensible ==
  ASSUME NEW n, Due(n), n = index_file, node[n] = "succeeded"
  PROVE  Sensible(n, Add({recall}, {index_file}))
  <1>0. index_file \in Tasks /\ recall \in Tasks /\ request \in Requests
    BY IdsAreTasks, DueFacts DEF Singles
  <1>1. n \notin {answer, remember, reminder, recall} /\ n \notin Searches /\ recall \notin Retries
    BY Sorted
  <1>2. n \in Main
    BY <1>0, <1>1, DueFacts DEF Saving
  <1>3. mode = "index_file"
    BY <1>0, <1>2, ModesOf
  <1>4. recall \in Main
    BY <1>3 DEF Main
  <1>5. node[recall] = "absent"
    BY <1>0, EarlierAre, DueFacts
  <1>6. \A k \in Earlier(recall) : k \in Tasks => k # recall /\ node[k] \notin Live
    BY <1>1, EarlierAre DEF Live
  <1>7. ASSUME NEW k \in Tasks, recall \in Earlier(k) PROVE n \in Earlier(k)
    <2>1. recall \notin {index_file, remember, list_directory, search}
      BY Sorted
    <2>2. k = answer \/ k \in {validate, surface} \/ k = distill
      BY <1>7, <2>1, LaterAre
    <2> QED BY <1>0, <1>1, <1>3, <2>2, EarlierAre DEF Sources
  <1>8. Corrects(n, {recall})
    BY <1>1, NothingToCorrect
  <1> DEFINE P == {index_file}
  <1>9. P \in SUBSET Tasks /\ \A k \in P : node[k] \in Over
    BY <1>0 DEF Over
  <1> HIDE DEF P
  <1>10. Sensible(n, Add({recall}, P))
    BY <1>1, <1>3, <1>4, <1>5, <1>6, <1>7, <1>8, <1>9, OneIsSensible
  <1> QED BY <1>10 DEF P

\* A remembered fact, to make a reminder of.
LEMMA AfterRememberIsSensible ==
  ASSUME NEW n, Due(n), n = remember, node[n] = "succeeded", mode = "birthday_reminder"
  PROVE  Sensible(n, Add({reminder}, {remember}))
  <1>0. reminder \in Tasks /\ remember \in Tasks /\ recall \in Tasks
    BY IdsAreTasks DEF Singles
  <1>1. n \notin {answer, reminder, recall} /\ n \notin Searches /\ reminder \notin Retries
    BY Sorted
  <1>2. reminder \in Main
    BY DEF Main
  <1>3. node[reminder] = "absent"
    BY <1>0, EarlierAre, DueFacts
  <1>4. \A k \in Earlier(reminder) : k \in Tasks => k # reminder /\ node[k] \notin Live
    BY <1>1, EarlierAre DEF Live
  <1>5. ASSUME NEW k \in Tasks, reminder \in Earlier(k) PROVE n \in Earlier(k)
    <2>1. reminder \notin {content, distill} \cup Sources
                            \cup {index_file, remember, list_directory, search}
      BY Sorted DEF Sources
    <2>2. k = answer
      BY <1>5, <2>1, LaterAre
    <2> QED BY <1>0, <1>1, <2>2, EarlierAre
  <1>6. Corrects(n, {reminder})
    BY <1>1, NothingToCorrect
  <1> DEFINE P == {remember}
  <1>7. P \in SUBSET Tasks /\ \A k \in P : node[k] \in Over
    BY <1>0 DEF Over
  <1> HIDE DEF P
  <1>8. Sensible(n, Add({reminder}, P))
    BY <1>1, <1>2, <1>3, <1>4, <1>5, <1>6, <1>7, OneIsSensible
  <1> QED BY <1>8 DEF P

\* Files and hits: one task for each that was found, or the answer.
LEMMA AfterListingIsSensible ==
  ASSUME NEW n, Due(n), node[n] = "succeeded",
         NEW F, NEW kids \in SUBSET F,
         \/ n = list_directory /\ F = Indexes
         \/ n = search /\ F = Fetches
  PROVE  Sensible(n, Discovered(n, kids))
  <1>0. /\ list_directory \in Tasks /\ search \in Tasks /\ n \in Tasks /\ F \subseteq Tasks
        /\ distill \in Tasks /\ request \in Requests
    BY IdsAreTasks, DueFacts DEF Singles
  <1>1. /\ n \notin {answer, remember, reminder, recall} /\ n \notin Searches
        /\ \A k \in F : k \notin Retries /\ k # n
    BY Sorted
  <1>2. n \in Main
    BY <1>0, <1>1, DueFacts DEF Saving
  <1>3. \/ n = list_directory /\ F = Indexes /\ mode = "index_directory"
        \/ n = search /\ F = Fetches /\ mode = "search_fetch"
    BY <1>0, <1>2, ModesOf
  <1>4. F \subseteq Main /\ mode # "birthday_reminder" /\ Main \subseteq {n, distill} \cup F
    BY <1>3 DEF Main
  <1>5. \A k \in F : Earlier(k) = {n}
    BY <1>3, EarlierAre
  <1>6. \A k \in F : node[k] = "absent"
    BY <1>0, <1>5, DueFacts
  <1>7. n = search => node[distill] = "absent"
    BY <1>0, EarlierAre, DueFacts DEF Sources
  <1>8. \A S : S \cap Retries = {} => Corrects(n, S)
    BY <1>1, NothingToCorrect
  <1>9. CASE kids = {}
    <2>1. \A k \in Main : node[k] \notin Live
      <3>1. n = list_directory => distill \notin Main
        BY <1>0, <1>3, ModesOf, Sorted DEF Researching
      <3> QED BY <1>3, <1>4, <1>6, <1>7, <3>1 DEF Live
    <2>2. Corrects(n, {})
      BY <1>8
    <2>3. Sensible(n, AnswerPatch)
      BY <1>1, <1>4, <2>1, <2>2, AnswerAfterMain
    <2> QED BY <1>9, <2>3 DEF Discovered
  <1>10. CASE kids # {}
    <2> DEFINE P == {n}
    <2>1. P \in SUBSET Tasks /\ \A k \in P : node[k] \in Over
      BY <1>0 DEF Over
    <2>2. kids \in SUBSET Tasks /\ \A k \in kids : k \in Main \cup {answer} /\ node[k] = "absent"
      BY <1>0, <1>4, <1>6
    <2>3. Corrects(n, kids)
      BY <1>1, <1>8
    <2>4. Timely(kids)
      <3>1. ASSUME NEW m \in kids, NEW k \in Earlier(m) PROVE k \notin kids /\ node[k] \notin Live
        BY <1>1, <1>5, <3>1 DEF Live
      <3>2. ASSUME NEW m \in kids, NEW k \in Tasks, m \in Earlier(k) PROVE node[k] = "absent"
        <4>1. m \notin {content, distill, index_file, remember, list_directory, search}
          BY Sorted
        <4>2. n = list_directory => m \notin Sources
          BY <1>3, Sorted DEF Sources
        <4>3. \/ k = answer
              \/ n = search /\ (k \in {validate, surface} \/ k = distill)
          BY <1>3, <3>2, <4>1, <4>2, LaterAre
        <4>4. n \in Earlier(k)
          BY <1>0, <1>1, <1>4, <4>3, EarlierAre DEF Sources
        <4> QED BY <4>4, DueFacts
      <3> QED BY <3>1, <3>2 DEF Timely
    <2> HIDE DEF P
    <2>5. Sensible(n, Add(kids, P))
      BY <1>1, <1>4, <1>10, <2>1, <2>2, <2>3, <2>4, AddIsSensible
    <2> QED BY <1>10, <2>5 DEF Discovered, P
  <1> QED BY <1>9, <1>10

\* One file of an indexed directory.
LEMMA AfterIndexIsSensible ==
  ASSUME NEW n, Due(n), n \in Indexes
  PROVE  IF Landed(Indexes) THEN Sensible(n, AnswerPatch)
         ELSE Sensible(n, Otherwise(node[n] = "succeeded"))
  <1>0. /\ list_directory \in Tasks /\ n \in Tasks /\ Indexes \subseteq Tasks
        /\ request \in Requests
    BY IdsAreTasks, DueFacts DEF Singles
  <1>1. /\ n \notin {answer, remember, reminder, recall} /\ n \notin Searches
        /\ \A k \in Indexes : k # remember /\ k # answer
    BY Sorted
  <1>2. n \in Main
    BY <1>0, <1>1, DueFacts DEF Saving
  <1>3. mode = "index_directory" /\ Main = {list_directory} \cup Indexes
    <2>1. mode = "index_directory"
      BY <1>0, <1>2, ModesOf
    <2> QED BY <2>1 DEF Main
  <1>4. Corrects(n, {})
    BY <1>1, NothingToCorrect
  <1>5. node[list_directory] \notin Live
    BY <1>0, EarlierAre, DueFacts DEF Due
  <1>6. CASE Landed(Indexes)
    <2>1. \A k \in Main : node[k] \notin Live
      BY <1>3, <1>5, <1>6 DEF Landed, Exists, Over, Live
    <2>2. Sensible(n, AnswerPatch)
      BY <1>1, <1>3, <1>4, <2>1, AnswerAfterMain
    <2> QED BY <1>6, <2>2
  <1>7. CASE ~Landed(Indexes)
    <2>1. PICK m \in Indexes : Exists(m) /\ node[m] \notin Over
      BY <1>7 DEF Landed, Exists, Due
    <2>2. m \in Tasks \ {answer, remember} /\ node[m] \in Live
      BY <1>0, <1>1, <2>1, DueFacts DEF Exists, Over, Live
    <2>3. Sensible(n, Otherwise(node[n] = "succeeded"))
      BY <1>1, <1>4, <2>2, OtherwiseIsSensible
    <2> QED BY <1>7, <2>3
  <1> QED BY <1>6, <1>7

\* The planner's answer to each kind of outcome.
LEMMA OutcomeArms ==
  ASSUME NEW n, NEW ok \in BOOLEAN
  PROVE  /\ n \in {answer, surface} => AfterOutcome(n, ok) = Finish
         /\ n = content => AfterOutcome(n, ok) =
              (IF ~ok THEN Finish ELSE IF Exists(surface) THEN NoPatch
               ELSE Add({surface}, {content}))
         /\ mode = "compose_research" /\ IsResearch(n) => AfterOutcome(n, ok) = AfterResearch(n, ok)
         /\ mode # "compose_research" /\ n \in Fetches \cup Searches =>
              AfterOutcome(n, ok) = AfterSource(ok)
         /\ n = distill => AfterOutcome(n, ok) = AfterDistill(ok)
         /\ n = recall => AfterOutcome(n, ok) = AfterRecall
         /\ n \in {validate, reminder, read_file} => AfterOutcome(n, ok) = AnswerPatch
         /\ n = index_file => AfterOutcome(n, ok) =
              (IF ok THEN Add({recall}, {index_file}) ELSE Otherwise(ok))
         /\ n = remember => AfterOutcome(n, ok) =
              (IF ok /\ mode = "birthday_reminder" THEN Add({reminder}, {remember})
               ELSE Otherwise(ok))
         /\ n = list_directory => AfterOutcome(n, ok) =
              (IF ok THEN Discovered(n, {index_(i) : i \in 1 .. evidence[n]}) ELSE Otherwise(ok))
         /\ n = search => AfterOutcome(n, ok) =
              (IF ok THEN Discovered(n, {fetch_(i) : i \in 1 .. evidence[n]}) ELSE Otherwise(ok))
         /\ n \in Indexes => AfterOutcome(n, ok) =
              (IF Landed(Indexes) THEN AnswerPatch ELSE Otherwise(ok))
  <1> USE Sorted DEF IsResearch
  <1>1. n \in {answer, surface} => AfterOutcome(n, ok) = Finish
    BY DEF AfterOutcome
  <1>2. n = content => AfterOutcome(n, ok) =
          (IF ~ok THEN Finish ELSE IF Exists(surface) THEN NoPatch ELSE Add({surface}, {content}))
    BY DEF AfterOutcome
  <1>3. mode = "compose_research" /\ IsResearch(n) => AfterOutcome(n, ok) = AfterResearch(n, ok)
    BY DEF AfterOutcome
  <1>4. mode # "compose_research" /\ n \in Fetches \cup Searches =>
          AfterOutcome(n, ok) = AfterSource(ok)
    BY DEF AfterOutcome
  <1>5. n = distill => AfterOutcome(n, ok) = AfterDistill(ok)
    BY DEF AfterOutcome
  <1>6. n = recall => AfterOutcome(n, ok) = AfterRecall
    BY DEF AfterOutcome
  <1>7. n \in {validate, reminder, read_file} => AfterOutcome(n, ok) = AnswerPatch
    BY DEF AfterOutcome
  <1>8. n = index_file => AfterOutcome(n, ok) =
          (IF ok THEN Add({recall}, {index_file}) ELSE Otherwise(ok))
    BY DEF AfterOutcome
  <1>9. n = remember => AfterOutcome(n, ok) =
          (IF ok /\ mode = "birthday_reminder" THEN Add({reminder}, {remember})
           ELSE Otherwise(ok))
    BY DEF AfterOutcome
  <1>10. n = list_directory => AfterOutcome(n, ok) =
           (IF ok THEN Discovered(n, {index_(i) : i \in 1 .. evidence[n]}) ELSE Otherwise(ok))
    BY DEF AfterOutcome
  <1>11. n = search => AfterOutcome(n, ok) =
           (IF ok THEN Discovered(n, {fetch_(i) : i \in 1 .. evidence[n]}) ELSE Otherwise(ok))
    BY DEF AfterOutcome
  <1>12. n \in Indexes => AfterOutcome(n, ok) =
           (IF Landed(Indexes) THEN AnswerPatch ELSE Otherwise(ok))
    BY DEF AfterOutcome
  <1> QED BY <1>1, <1>2, <1>3, <1>4, <1>5, <1>6, <1>7, <1>8, <1>9, <1>10, <1>11, <1>12

\* The patch for every outcome is sensible.
LEMMA OutcomeIsPlannedFor ==
  ASSUME NEW n, Due(n)
  PROVE  Sensible(n, AfterOutcome(n, node[n] = "succeeded"))
  <1> DEFINE ok == node[n] = "succeeded"
  <1> SUFFICES Sensible(n, AfterOutcome(n, ok))
    OBVIOUS
  <1>0. request \in Requests /\ n \in Main \cup {answer} \cup Saving
    BY DueFacts
  <1>1. ok \in BOOLEAN
    OBVIOUS
  <1>2. /\ n \in Tasks /\ node[n] \in {"succeeded", "failed"} /\ (ok <=> node[n] = "succeeded")
    BY DEF Due
  <1>3. CASE n = answer
    <2>1. Sensible(n, Finish)
      BY <1>3, FinishIsSensible
    <2> HIDE DEF ok
    <2> QED BY <1>1, <1>3, <2>1, OutcomeArms
  <1>4. CASE n = remember
    <2>1. n \notin {answer, recall, reminder, search} /\ n \notin Searches
      BY <1>4, Sorted
    <2>2. Corrects(n, {})
      BY <2>1, NothingToCorrect
    <2>3. CASE ok /\ mode = "birthday_reminder"
      <3>1. Sensible(n, Add({reminder}, {remember}))
        BY <1>4, <2>3, AfterRememberIsSensible
      <3> HIDE DEF ok
      <3> QED BY <1>1, <1>4, <2>3, <3>1, OutcomeArms
    <2>4. CASE ~(ok /\ mode = "birthday_reminder")
      <3>1. Sensible(n, Otherwise(ok))
        BY <1>2, <1>4, <2>1, <2>2, <2>4, OtherwiseIsSensible
      <3> HIDE DEF ok
      <3> QED BY <1>1, <1>4, <2>4, <3>1, OutcomeArms
    <2> QED BY <2>3, <2>4
  <1>5. CASE n \in Main
    <2>0. mode \in Modes
      BY <1>0 DEF Requests, mode
    <2>1. n \in {content, surface, validate, recall, reminder, read_file, index_file,
                 list_directory, search, distill} \cup Indexes \cup Fetches \cup Searches
                 \cup Retries
      BY <1>5, <2>0 DEF Main, Modes, Researching
    <2>2. CASE n = surface
      <3>1. Sensible(n, Finish)
        BY <2>2, FinishIsSensible
      <3> HIDE DEF ok
      <3> QED BY <1>1, <2>2, <3>1, OutcomeArms
    <2>3. CASE n = content
      <3>1. IF ~ok THEN Sensible(n, Finish)
            ELSE Sensible(n, IF Exists(surface) THEN NoPatch ELSE Add({surface}, {content}))
        BY <2>3, AfterContent
      <3> HIDE DEF ok
      <3> QED BY <1>1, <2>3, <3>1, OutcomeArms
    <2>4. CASE n \in {validate, reminder, read_file}
      <3>1. Sensible(n, AnswerPatch)
        BY <2>4, AfterLastIsSensible
      <3> HIDE DEF ok
      <3> QED BY <1>1, <2>4, <3>1, OutcomeArms
    <2>5. CASE n = recall
      <3>1. Sensible(n, AfterRecall)
        BY <2>5, AfterRecallIsSensible
      <3> HIDE DEF ok
      <3> QED BY <1>1, <2>5, <3>1, OutcomeArms
    <2>6. CASE n = distill
      <3>1. Sensible(n, AfterDistill(ok))
        BY <2>6, AfterDistillIsSensible
      <3> HIDE DEF ok
      <3> QED BY <1>1, <2>6, <3>1, OutcomeArms
    <2>7. CASE n \in {index_file, list_directory, search} /\ ~ok
      <3>1. n \notin {answer, recall, reminder, remember} /\ n \notin Searches
        BY <2>7, Sorted
      <3>2. Corrects(n, {})
        BY <3>1, NothingToCorrect
      <3>3. Sensible(n, Otherwise(ok))
        BY <1>2, <2>7, <3>1, <3>2, OtherwiseIsSensible
      <3> HIDE DEF ok
      <3> QED BY <1>1, <2>7, <3>3, OutcomeArms
    <2>8. CASE n = index_file /\ ok
      <3>1. Sensible(n, Add({recall}, {index_file}))
        BY <2>8, AfterIndexFileIsSensible
      <3> HIDE DEF ok
      <3> QED BY <1>1, <2>8, <3>1, OutcomeArms
    <2>9. CASE n \in {list_directory, search} /\ ok
      <3>0. evidence[n] \in 0 .. Breadth /\ Breadth \in Nat
        BY <1>2, PlannerAssumption DEF Due, PlannerInv, PlannerTypeOK
      <3>1. ASSUME n = list_directory
            PROVE  Sensible(n, Discovered(n, {index_(i) : i \in 1 .. evidence[n]}))
        <4> DEFINE kids == {index_(i) : i \in 1 .. evidence[n]}
        <4>1. kids \in SUBSET Indexes
          BY <3>0 DEF Indexes
        <4> HIDE DEF kids
        <4>2. Sensible(n, Discovered(n, kids))
          BY <2>9, <3>1, <4>1, AfterListingIsSensible
        <4> QED BY <4>2 DEF kids
      <3>2. ASSUME n = search
            PROVE  Sensible(n, Discovered(n, {fetch_(i) : i \in 1 .. evidence[n]}))
        <4> DEFINE kids == {fetch_(i) : i \in 1 .. evidence[n]}
        <4>1. kids \in SUBSET Fetches
          BY <3>0 DEF Fetches
        <4> HIDE DEF kids
        <4>2. Sensible(n, Discovered(n, kids))
          BY <2>9, <3>2, <4>1, AfterListingIsSensible
        <4> QED BY <4>2 DEF kids
      <3> HIDE DEF ok
      <3>3. CASE n = list_directory
        BY <1>1, <2>9, <3>1, <3>3, OutcomeArms
      <3>4. CASE n = search
        BY <1>1, <2>9, <3>2, <3>4, OutcomeArms
      <3> QED BY <2>9, <3>3, <3>4
    <2>10. CASE n \in Indexes
      <3>1. IF Landed(Indexes) THEN Sensible(n, AnswerPatch) ELSE Sensible(n, Otherwise(ok))
        BY <2>10, AfterIndexIsSensible
      <3> HIDE DEF ok
      <3> QED BY <1>1, <2>10, <3>1, OutcomeArms
    <2>11. CASE n \in Searches \cup Retries /\ mode = "compose_research"
      <3>1. Sensible(n, AfterResearch(n, ok)) /\ IsResearch(n)
        BY <2>11, AfterResearchIsSensible DEF IsResearch
      <3> HIDE DEF ok
      <3> QED BY <1>1, <2>11, <3>1, OutcomeArms
    <2>12. CASE n \in Fetches \cup Searches /\ mode # "compose_research"
      <3>1. Sensible(n, AfterSource(ok))
        BY <2>12, AfterSourceIsSensible
      <3> HIDE DEF ok
      <3> QED BY <1>1, <2>12, <3>1, OutcomeArms
    <2>13. /\ n \in Retries => mode = "compose_research"
           /\ n \in Fetches => mode # "compose_research"
      BY <1>0, <1>5, ModesOf
    <2> QED BY <2>1, <2>2, <2>3, <2>4, <2>5, <2>6, <2>7, <2>8, <2>9, <2>10, <2>11, <2>12, <2>13
  <1> QED BY <1>0, <1>3, <1>4, <1>5 DEF Saving

\* The first frontier is sensible: nothing exists, and nothing in it comes first.
LEMMA FirstPatchIsSensible ==
  ASSUME PlannerInv, run = "open", Starting, NEW n
  PROVE  Sensible(n, FirstPatch)
  <1> DEFINE S == Frontier \cup Saving
  <1>0. request \in Requests
    BY DEF PlannerInv, PlannerTypeOK
  <1>1. /\ Frontier # {} /\ Frontier \subseteq Main /\ remember \notin Frontier
        /\ S \subseteq Tasks /\ remember \in Tasks /\ reminder \in Tasks
    BY <1>0, FrontierIsTasks, IdsAreTasks DEF Singles
  <1>2. \A m \in Tasks : node[m] = "absent"
    BY DEF PlannerInv, Shape
  <1>3. News = {}
    <2>1. \A t \in Missing : journal[t].tasks = {}
      BY DEF Starting, PlannerInv, NewsMatch
    <2> QED BY <2>1 DEF News
  <1>4. mode \in Modes /\ request.breadth \in 1 .. Breadth
    BY <1>0 DEF Requests, mode
  <1>5. {fetch_(i) : i \in 1 .. request.breadth} \subseteq Fetches
        /\ {search_(i) : i \in 1 .. request.breadth} \subseteq Searches
    BY <1>4, PlannerAssumption DEF Fetches, Searches
  <1>6. \/ mode \in {"memory", "birthday_reminder"} /\ Frontier = {recall}
        \/ mode = "fetch" /\ Frontier \subseteq Fetches
        \/ mode \in Researching /\ Frontier \subseteq Searches
        \/ mode \notin Researching \cup {"fetch", "memory", "birthday_reminder"}
             /\ Frontier \subseteq {content, list_directory, index_file, read_file, search}
    BY <1>4, <1>5 DEF Frontier, Modes, Researching
  <1>7. S \cap Retries = {}
    BY <1>6, Sorted DEF Saving
  <1>8. Timely(S)
    <2>1. ASSUME NEW m \in S, NEW k \in Earlier(m) PROVE k \notin S
      <3>1. m \notin {answer, validate, surface, distill, reminder} \cup Indexes
        BY <1>6, Sorted DEF Saving
      <3>2. \/ m = recall /\ k = index_file
            \/ m \in Fetches /\ k = search
        BY <2>1, <3>1, LaterAre
      <3> QED BY <1>6, <3>2, Sorted DEF Saving, Researching
    <2> QED BY <1>1, <1>2, <2>1 DEF Timely, Live
  <1>9. Corrects(n, S)
    BY <1>3, <1>7 DEF Corrects
  <1>10. GoesOn(S)
    <2>1. \E m \in Tasks \ {remember} : m \in S
      BY <1>1
    <2> QED BY <1>1, <1>2, <1>3, <2>1 DEF GoesOn, Over
  <1>11. SensibleAdd(n, S, {})
    <2>1. \A k \in Frontier : k \in S
      OBVIOUS
    <2>2. \A m \in S : m \in Main \cup {answer} \cup Saving
      BY <1>1
    <2> HIDE DEF S
    <2> QED BY <1>1, <1>2, <1>8, <1>9, <1>10, <2>1, <2>2 DEF SensibleAdd
  <1>12. FirstPatch = Add(S, {})
    BY DEF FirstPatch, Saving
  <1> HIDE DEF S
  <1>13. S \in SUBSET Tasks /\ {} \in SUBSET Tasks
    BY <1>1
  <1> QED BY <1>11, <1>12, <1>13 DEF Sensible

\* The patch for every event is sensible.
LEMMA PlannedIsSensible ==
  ASSUME PlannerInv, run = "open", NEW t \in Missing
  PROVE  Sensible(Subject(t), Planned(t))
  <1>1. \A u \in Missing : u = t
    BY DEF PlannerInv, NewsMatch
  <1>2. CASE journal[t].kind = "run_started"
    <2>1. Starting
      BY <1>2 DEF Starting
    <2>2. Sensible(Subject(t), FirstPatch)
      BY <2>1, FirstPatchIsSensible
    <2> QED BY <1>2, <2>2 DEF Planned
  <1>3. CASE journal[t].kind # "run_started"
    <2>1. PICK n \in Tasks :
            /\ journal[t].tasks = {n} /\ node[n] \in {"succeeded", "failed"}
            /\ journal[t].kind = IF node[n] = "succeeded" THEN "task_succeeded" ELSE "task_failed"
      BY <1>3 DEF PlannerInv, NewsMatch
    <2>2. Subject(t) = n
      BY <2>1 DEF Subject
    <2>3. News = {n}
      BY <1>1, <2>1 DEF News
    <2>4. ~Starting
      BY <1>1, <1>3 DEF Starting
    <2>5. Due(n)
      BY <2>1, <2>3, <2>4 DEF Due
    <2>6. Sensible(n, AfterOutcome(n, node[n] = "succeeded"))
      BY <2>5, OutcomeIsPlannedFor
    <2>7. (journal[t].kind = "task_succeeded") = (node[n] = "succeeded")
      BY <2>1
    <2> QED BY <1>3, <2>2, <2>6, <2>7 DEF Planned
  <1> QED BY <1>2, <1>3

\* Planning keeps the invariant.
LEMMA PlanStep == PlannerInv /\ Plan => PlannerInv'
  <1> SUFFICES ASSUME PlannerInv, Plan PROVE PlannerInv'
    OBVIOUS
  <1>1. PICK t \in Missing :
          \E p \in {Planned(t)} :
            /\ ApplyPatch(p, t)
            /\ corrective' = [n \in Tasks |->
                                IF n \in p.add \cap Retries THEN Subject(t) ELSE corrective[n]]
    BY DEF Plan, Missing
  <1>2. PICK p : /\ p = Planned(t) /\ ApplyPatch(p, t)
                 /\ corrective' = [n \in Tasks |->
                      IF n \in p.add \cap Retries THEN Subject(t) ELSE corrective[n]]
    BY <1>1
  <1>3. run = "open" /\ UNCHANGED <<request, evidence, restarts>>
    BY DEF Plan
  <1>4. PICK n : n = Subject(t)
    OBVIOUS
  <1>5. Sensible(n, p)
    BY <1>2, <1>3, <1>4, PlannedIsSensible
  <1>6. ASSUME NEW S \in SUBSET Tasks, NEW P \in SUBSET Tasks, p = Add(S, P), SensibleAdd(n, S, P)
        PROVE  PlannerInv'
    <2>1. p.add = S
      BY <1>6 DEF Add, NoPatch
    <2>2. ApplyPatch(Add(S, P), t)
      BY <1>2, <1>6
    <2>3. corrective' = [m \in Tasks |-> IF m \in S \cap Retries THEN n ELSE corrective[m]]
      BY <1>2, <1>4, <2>1
    <2> QED BY <1>3, <1>6, <2>2, <2>3, SensibleAddStep
  <1>7. CASE p = Finish /\ ~Starting /\ Calm /\ Corrects(n, {})
    <2>1. p.add = {}
      BY <1>7 DEF Finish, NoPatch
    <2>2. ApplyPatch(Finish, t)
      BY <1>2, <1>7
    <2>3. corrective' = corrective
      BY <1>2, <2>1 DEF PlannerInv, PlannerTypeOK
    <2> QED BY <1>3, <1>7, <2>2, <2>3, FinishStep
  <1> QED BY <1>5, <1>6, <1>7 DEF Sensible

-----------------------------------------------------------------------------
(* The theorems.                                                            *)

\* The invariant holds at first ...
LEMMA PlannerInit == Init => PlannerInv
  <1> SUFFICES ASSUME Init PROVE PlannerInv
    OBVIOUS
  <1> USE DEF Init, StoreInit
  <1>1. Missing = {} /\ ~Starting /\ News = {}
    BY DEF Missing, Unplanned, Starting, News
  <1>2. PlannerTypeOK
    BY PlannerAssumption DEF PlannerTypeOK, StoreTypeOK
  <1>3. NewsMatch
    BY <1>1 DEF NewsMatch
  <1>4. Shape
    BY DEF Shape
  <1>5. EdgesMatch /\ InOrder /\ Going
    BY DEF EdgesMatch, InOrder, Going, HasCycle
  <1>6. RetriesMatch
    BY IdsAreTasks DEF RetriesMatch
  <1> QED BY <1>2, <1>3, <1>4, <1>5, <1>6 DEF PlannerInv

\* ... and after every step.
LEMMA PlannerStep == PlannerInv /\ [Next]_vars => PlannerInv'
  <1> SUFFICES ASSUME PlannerInv, [Next]_vars PROVE PlannerInv'
    OBVIOUS
  <1>1. CASE Begin
    BY <1>1, BeginStep
  <1>2. CASE Plan
    BY <1>2, PlanStep
  <1>3. CASE Fill
    BY <1>3, FillStep
  <1>4. ASSUME NEW n \in Tasks, WorkerReturns(n) PROVE PlannerInv'
    <2>1. PICK k \in Found(n) : evidence' = [evidence EXCEPT ![n] = k]
      BY <1>4 DEF WorkerReturns
    <2>2. k \in 0 .. Breadth
      BY <2>1, PlannerAssumption DEF Found
    <2>3. /\ evidence' \in [Tasks -> 0 .. Breadth]
          /\ \A m \in Tasks : m # n => evidence'[m] = evidence[m]
      BY <2>1, <2>2 DEF PlannerInv, PlannerTypeOK
    <2> QED BY <1>4, <2>3, OutcomeStep DEF WorkerReturns
  <1>5. ASSUME NEW n \in Tasks, WorkerFails(n) PROVE PlannerInv'
    <2>1. /\ evidence' \in [Tasks -> 0 .. Breadth]
          /\ \A m \in Tasks : m # n => evidence'[m] = evidence[m]
      BY <1>5 DEF WorkerFails, PlannerInv, PlannerTypeOK
    <2> QED BY <1>5, <2>1, OutcomeStep DEF WorkerFails
  <1>6. CASE Restart
    BY <1>6, RestartStep
  <1>7. CASE UNCHANGED vars
    <2>0. UNCHANGED <<run, node, edges, journal, patched, request, evidence, corrective, restarts>>
      BY <1>7 DEF vars, storeVars
    <2>1. Missing' = Missing
      BY <2>0 DEF Missing, Unplanned
    <2>2. News' = News /\ (Starting' <=> Starting)
      BY <2>0, <2>1 DEF News, Starting
    <2>3. /\ mode' = mode /\ Main' = Main /\ Saving' = Saving /\ Frontier' = Frontier
          /\ \A m : Earlier(m)' = Earlier(m) /\ RetryFor(m)' = RetryFor(m)
      BY <2>0, SameRequest
    <2>4. PlannerTypeOK'
      BY <2>0 DEF PlannerInv, PlannerTypeOK, StoreTypeOK, Requests
    <2>5. NewsMatch'
      BY <2>0, <2>1 DEF PlannerInv, NewsMatch
    <2>6. Shape'
      BY <2>0, <2>1, <2>2, <2>3 DEF PlannerInv, Shape
    <2>7. EdgesMatch'
      BY <2>0 DEF PlannerInv, EdgesMatch, HasCycle
    <2>8. InOrder'
      BY <2>0, <2>2, <2>3 DEF PlannerInv, InOrder, Told
    <2>9. RetriesMatch'
      BY <2>0, <2>2, <2>3 DEF PlannerInv, RetriesMatch
    <2>10. Going'
      BY <2>0, <2>2, <2>3 DEF PlannerInv, Going, Busy, NothingToRemind, FrontierFailed
    <2>11. (run = "finished" => Calm)'
      BY <2>0, <2>3 DEF PlannerInv, Calm
    <2> QED BY <2>4, <2>5, <2>6, <2>7, <2>8, <2>9, <2>10, <2>11 DEF PlannerInv
  <1> QED BY <1>1, <1>2, <1>3, <1>4, <1>5, <1>6, <1>7 DEF Next, Advance

\* The inductive invariant: at most one event is missing its plan, and each task of the
\* graph comes after the outcomes it depends on (runtime.py:248-392).
THEOREM PlannerInvariance == Spec => []PlannerInv
BY PlannerInit, PlannerStep, PTL DEF Spec

\* Every variable has its type, whatever the breadth of the request.
THEOREM PlannerTyping == Spec => []PlannerTypeOK
  <1>1. PlannerInv => PlannerTypeOK
    BY DEF PlannerInv
  <1> QED BY <1>1, PlannerInvariance, PTL

\* The store accepts every patch the planner makes, in every graph a run can reach
\* (runtime.py:248-392, store.py:141-175).
THEOREM EveryPlanIsAccepted == Spec => []PlansAreAccepted
  <1>1. PlannerInv => PlansAreAccepted
    <2> SUFFICES ASSUME PlannerInv, run = "open", NEW t \in Missing
                 PROVE  Acceptable(Planned(t), Graph)
      BY DEF PlansAreAccepted, Missing
    <2>1. PICK n, p : n = Subject(t) /\ p = Planned(t)
      OBVIOUS
    <2>2. Sensible(n, p)
      BY <2>1, PlannedIsSensible
    <2>3. ASSUME NEW S \in SUBSET Tasks, NEW P \in SUBSET Tasks, p = Add(S, P),
                 SensibleAdd(n, S, P)
          PROVE  Acceptable(p, Graph)
      <3>1. Acceptable(Add(S, P), Graph)
        BY <2>3, SensibleIsAccepted
      <3> QED BY <2>3, <3>1
    <2>4. Acceptable(Finish, Graph)
      BY FinishIsAccepted
    <2>5. Acceptable(p, Graph)
      BY <2>2, <2>3, <2>4 DEF Sensible
    <2> QED BY <2>1, <2>5
  <1> QED BY <1>1, PlannerInvariance, PTL

\* Synthesis waits for the research and its corrections, and the surface shows the
\* corrected outcome (runtime.py:297-319, 674-676).
THEOREM SynthesisWaitsForCorrections == Spec => []SynthesisWaits
  <1>1. PlannerInv => SynthesisWaits
    <2> SUFFICES ASSUME PlannerInv, mode = "compose_research", Exists(distill)
                 PROVE  /\ Landed(Searches \cup Retries)
                        /\ \A n \in Searches : node[n] = "succeeded" /\ evidence[n] = 0 =>
                             /\ node[RetryFor(n)] \in Over
                             /\ n \in Shown => request.alias
      BY DEF SynthesisWaits
    <2>0. /\ Searches \cup Retries \subseteq Tasks /\ distill \in Tasks /\ 0 \notin Tasks
          /\ request \in Requests
      BY IdsAreTasks DEF Singles, PlannerInv, PlannerTypeOK
    <2>1. run # "absent" /\ ~Starting
      BY <2>0 DEF PlannerInv, Shape, Exists
    <2>2. Searches \cup Retries \subseteq Earlier(distill)
      BY EarlierAre DEF Sources
    <2>3. ASSUME NEW n \in Searches \cup Retries, node[n] # "absent"
          PROVE  node[n] \in Over /\ n \notin News
      <3>1. CASE run # "finished"
        BY <2>0, <2>2, <2>3, <3>1 DEF PlannerInv, InOrder, Exists, Told
      <3>2. CASE run = "finished"
        <4>1. News = {}
          BY <3>2 DEF PlannerInv, Shape, News
        <4>2. n # answer /\ n # remember
          BY Sorted
        <4>3. node[n] \in {"absent", "succeeded", "failed"}
          BY <2>0, <3>2, <4>2 DEF PlannerInv, Calm
        <4> QED BY <2>3, <4>1, <4>3 DEF Over
      <3> QED BY <3>1, <3>2
    <2>4. Landed(Searches \cup Retries)
      <3>1. Frontier # {} /\ Frontier \subseteq Searches
        <4>1. Frontier = {search_(i) : i \in 1 .. request.breadth}
          BY DEF Frontier, Researching
        <4>2. request.breadth \in 1 .. Breadth
          BY <2>0 DEF Requests
        <4>3. Frontier \subseteq Searches
          BY <4>1, <4>2, PlannerAssumption DEF Searches
        <4> QED BY <2>0, <4>3, FrontierIsTasks
      <3>2. \E n \in Searches : Exists(n)
        BY <2>1, <3>1 DEF PlannerInv, Shape, Exists
      <3> QED BY <2>3, <3>2 DEF Landed, Exists
    <2>5. ASSUME NEW n \in Searches, node[n] = "succeeded", evidence[n] = 0
          PROVE  node[RetryFor(n)] \in Over /\ (n \in Shown => request.alias)
      <3>1. n \notin News
        BY <2>3, <2>5
      <3>2. RetryFor(n) \in Retries
        BY <2>0, RetryIds
      <3>3. node[RetryFor(n)] # "absent"
        BY <2>5, <3>1 DEF PlannerInv, RetriesMatch
      <3>4. node[RetryFor(n)] \in Over
        BY <2>3, <3>2, <3>3
      <3>5. ASSUME n \in Shown, ~request.alias PROVE FALSE
        <4> DEFINE k == corrective[RetryFor(n)]
        <4>1. k # 0
          BY <3>2, <3>3 DEF PlannerInv, RetriesMatch
        <4>2. k \in Searches /\ RetryFor(k) = RetryFor(n)
          BY <2>0, <3>2, <4>1 DEF PlannerInv, RetriesMatch
        <4>3. k = n
          BY <2>0, <3>5, <4>2, RetryIds
        <4>4. \A m \in Tasks : corrective[m] # n
          BY <3>5 DEF Shown
        <4>5. RetryFor(n) \in Tasks
          BY <2>0, <3>2
        <4> QED BY <4>3, <4>4, <4>5
      <3> QED BY <3>4, <3>5 DEF Requests
    <2> QED BY <2>4, <2>5
  <1> QED BY <1>1, PlannerInvariance, PTL

\* The answer is planned, and the run finished, when nothing that could contribute is
\* outstanding (runtime.py:381-391).
THEOREM NothingIsOutstanding == Spec => []NothingOutstanding
  <1>1. PlannerInv => NothingOutstanding
    <2> SUFFICES ASSUME PlannerInv, Exists(answer) \/ run = "finished",
                        NEW n \in Tasks \ {answer, remember}
                 PROVE  \/ node[n] \in {"absent", "succeeded", "failed"}
                        \/ n = recall /\ mode = "birthday_reminder"
      BY DEF NothingOutstanding
    <2>1. CASE run = "finished"
      BY <2>1 DEF PlannerInv, Calm
    <2>2. CASE run # "finished"
      <3>1. node[answer] # "absent" /\ answer \in Tasks
        BY <2>2, IdsAreTasks DEF Exists, Singles
      <3>2. n \in Earlier(answer) \/ (n = recall /\ mode = "birthday_reminder")
        BY EarlierAre
      <3>3. n \in Earlier(answer) => node[n] = "absent" \/ node[n] \in Over
        BY <2>2, <3>1 DEF PlannerInv, InOrder, Told
      <3>4. node[n] # "cancelled"
        BY <2>2 DEF PlannerInv, Shape
      <3> QED BY <3>2, <3>3, <3>4 DEF Over
    <2> QED BY <2>1, <2>2
  <1> QED BY <1>1, PlannerInvariance, PTL

\* A run comes to rest unfinished for one of three reasons only (runtime.py:248-392).
THEOREM EveryRestIsExplained == Spec => []RestIsExplained
  <1>1. PlannerInv => RestIsExplained
    <2> SUFFICES ASSUME PlannerInv, AtRest
                 PROVE  \/ \E e \in edges : node[e[1]] = "failed" /\ node[e[2]] = "pending"
                        \/ NothingToRemind \/ FrontierFailed
      BY DEF RestIsExplained, NothingToRemind, FrontierFailed
    <2>1. run = "open" /\ Missing = {} /\ Running = {} /\ Ready = {}
      BY DEF AtRest, Idle, Missing
    <2>2. News = {} /\ ~Starting
      BY <2>1 DEF News, Starting
    <2>3. ASSUME NEW n \in Tasks, Busy(n)
          PROVE  \E e \in edges : node[e[1]] = "failed" /\ node[e[2]] = "pending"
      <3>1. node[n] \in {"pending", "running"}
        BY <2>1, <2>2, <2>3 DEF Busy, Live, PlannerInv, Shape
      <3>2. node[n] = "pending"
        BY <2>1, <3>1 DEF Running
      <3>3. PICK e \in edges : e[2] = n /\ node[e[1]] # "succeeded"
        BY <2>1, <3>2 DEF Ready, Unblocked
      <3>4. e[1] \in Tasks /\ e = <<e[1], n>>
        BY <3>3 DEF PlannerInv, PlannerTypeOK, StoreTypeOK
      <3>5. node[e[1]] \in Over
        BY <3>3, <3>4 DEF PlannerInv, EdgesMatch
      <3>6. node[e[1]] # "cancelled"
        BY <2>1, <3>4 DEF PlannerInv, Shape
      <3> QED BY <3>2, <3>3, <3>5, <3>6 DEF Over
    <2>4. remember \in Tasks
      BY IdsAreTasks DEF Singles
    <2> QED BY <2>1, <2>2, <2>3, <2>4 DEF PlannerInv, Going
  <1> QED BY <1>1, PlannerInvariance, PTL
=============================================================================

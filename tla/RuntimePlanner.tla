--------------------------- MODULE RuntimePlanner ---------------------------
(***************************************************************************)
(* DeterministicPlanner (runtime.py:248-392): how S13Runtime.run grows the  *)
(* graph of one request, from the first frontier to the finishing patch.    *)
(*                                                                         *)
(* The planner is a pure function of the graph and of one event.  It never  *)
(* awaits, so the executor's loop is reduced here to what that leaves open: *)
(* an event is planned for before anything else is launched or recorded,    *)
(* and the process may die between any two transactions (LiveGraphExecutor  *)
(* has the loop itself).                                                    *)
(***************************************************************************)
EXTENDS GraphStore

CONSTANTS Breadth,      \* bound: the most entities, URLs, hits or files of a request
          MaxWorkers,   \* S13_MAX_WORKERS
          MaxRestarts   \* bound: deaths of the process, each followed by a resume

\* The task ids, numbered in the alphabetical order by which ready() takes them.
answer == 1
content == 2
distill == 3
fetch_(i) == 3 + i
index_(i) == 3 + Breadth + i
index_file == 4 + 2 * Breadth
list_directory == 5 + 2 * Breadth
read_file == 6 + 2 * Breadth
recall == 7 + 2 * Breadth
remember == 8 + 2 * Breadth
reminder == 9 + 2 * Breadth
retry_(slug) == 9 + 2 * Breadth + slug     \* research_<slug>_retry
search == 10 + 3 * Breadth
search_(i) == 10 + 3 * Breadth + i
surface == 11 + 4 * Breadth
validate == 12 + 4 * Breadth

ASSUME PlannerAssumption ==
  /\ Breadth \in Nat \ {0, 1} /\ MaxWorkers \in Nat \ {0} /\ MaxRestarts \in Nat
  /\ Tasks = 1 .. validate

VARIABLES request,     \* what _work_intent made of the prompt; never changes
          evidence,    \* in a result: how many hits or paths it lists, 0 if it is weak
          corrective,  \* in a retry's input: the task it corrects, 0 if it is none
          restarts

vars == <<storeVars, request, evidence, corrective, restarts>>

\* "parallel_search" is also the mode of the family-friendly weather request, with
\* its two searches.
Researching == {"parallel_search", "structured_compare", "compose_research"}
Modes == Researching \cup {"memory", "compose_answer", "index_file", "index_directory",
                           "read_file", "birthday_reminder", "fetch", "search_fetch"}

\* remember: the prompt asks to save a fact.  alias: the entities share one slug.
Requests ==
  {r \in [mode: Modes, breadth: 1 .. Breadth, remember: BOOLEAN, alias: BOOLEAN] :
     /\ r.mode \in Researching => r.breadth >= 2
     /\ r.mode \notin Researching \cup {"fetch"} => r.breadth = 1
     /\ r.alias => r.mode = "compose_research"}

mode == request.mode
Fetches == {fetch_(i) : i \in 1 .. Breadth}
Indexes == {index_(i) : i \in 1 .. Breadth}
Searches == {search_(i) : i \in 1 .. Breadth}
Retries == {retry_(i) : i \in 1 .. Breadth}
Over == {"succeeded", "failed", "cancelled"}

Exists(n) == node[n] # "absent"

Add(S, parents) == [NoPatch EXCEPT !.add = S, !.connect = parents \X S]
Finish == [NoPatch EXCEPT !.finish = TRUE]

-----------------------------------------------------------------------------
(* Mutated forms of the definitions below, for the mutation runs only.      *)

\* The first outcome is taken for all of them.
LandedOnce(S) == \E n \in S : node[n] \in Over

\* The retry is added for every weak outcome, whether the subject has one already or not.
DeservesRetryAgain(n) == n \in Searches /\ evidence[n] = 0

\* A retry is not recognised as research.
IsResearchUnlessRetry(n) == n \in Searches

\* Synthesis starts from the first outcomes alone.
LeavesWithoutRetries == {n \in Searches : Exists(n)}

\* The task that failed is not counted among those that are over.
ExplainFailureOfOthers ==
  IF \A n \in Tasks : node[n] \in {"absent", "succeeded", "cancelled"}
  THEN Add({answer}, {n \in Tasks : node[n] = "succeeded"}) ELSE NoPatch

-----------------------------------------------------------------------------
(* The planner.                                                             *)

Landed(S) ==
  LET work == {n \in S : Exists(n)}
  IN work # {} /\ \A n \in work : node[n] \in Over

Frontier ==
  CASE mode \in {"memory", "birthday_reminder"} -> {recall}
    [] mode = "compose_answer" -> {content}
    [] mode = "index_directory" -> {list_directory}
    [] mode = "index_file" -> {index_file}
    [] mode = "read_file" -> {read_file}
    [] mode = "search_fetch" -> {search}
    [] mode = "fetch" -> {fetch_(i) : i \in 1 .. request.breadth}
    [] mode \in Researching -> {search_(i) : i \in 1 .. request.breadth}

FirstPatch == Add(Frontier \cup (IF request.remember THEN {remember} ELSE {}), {})

\* answer_patch: whatever has succeeded is a parent of the answer.
AnswerPatch ==
  IF Exists(answer) THEN NoPatch ELSE Add({answer}, {n \in Tasks : node[n] = "succeeded"})

\* The last resort: a failure after which nothing is left to do gets an answer.
ExplainFailure == IF Landed(Tasks \ {answer}) THEN AnswerPatch ELSE NoPatch
Otherwise(ok) == IF ok THEN NoPatch ELSE ExplainFailure

\* One task per hit or path that the outcome lists.
Discovered(n, kids) == IF kids = {} THEN AnswerPatch ELSE Add(kids, {n})

\* A retry replaces, as a leaf, the search it corrects.
IsResearch(n) == n \in Searches \cup Retries
Leaves == {n \in Searches \cup Retries : Exists(n) /\ \A m \in Tasks : corrective[m] # n}

RetryFor(n) == retry_(IF request.alias THEN 1 ELSE n - search)
DeservesRetry(n) == n \in Searches /\ evidence[n] = 0 /\ ~Exists(RetryFor(n))

\* What compose_surface binds into the surface: the outcomes that no retry has corrected.
Shown == {n \in Tasks \ {surface} : /\ node[n] = "succeeded"
                                    /\ \A m \in Tasks : corrective[m] # n
                                    /\ IsResearch(n) => n \in Leaves}

AfterResearch(n, ok) ==
  IF ok /\ DeservesRetry(n) THEN Add({RetryFor(n)}, {})
  ELSE IF ~Exists(distill) /\ Landed(Leaves) THEN Add({distill}, Leaves)
  ELSE NoPatch

AfterSource(ok) ==
  IF ~Landed(Fetches \cup Searches) THEN Otherwise(ok)
  ELSE IF Exists(distill) THEN AnswerPatch
  ELSE Add({distill}, LET searched == {m \in Searches : Exists(m)}
                      IN IF searched # {} THEN searched ELSE {m \in Fetches : Exists(m)})

AfterDistill(ok) ==
  IF mode = "compose_research" /\ ok /\ ~Exists(surface)
  THEN Add({surface}, Leaves \cup {distill})
  ELSE IF mode = "structured_compare" THEN Add({validate}, {distill})
  ELSE AnswerPatch

AfterRecall ==
  IF mode = "birthday_reminder" THEN NoPatch
  ELSE IF mode = "index_file" /\ ~Exists(distill) THEN Add({distill}, {recall})
  ELSE AnswerPatch

\* plan(graph, event) for the outcome of task n.
AfterOutcome(n, ok) ==
  CASE n \in {answer, surface} -> Finish
    [] n = content -> IF ~ok THEN Finish
                      ELSE IF Exists(surface) THEN NoPatch ELSE Add({surface}, {content})
    [] mode = "compose_research" /\ IsResearch(n) -> AfterResearch(n, ok)
    [] mode # "compose_research" /\ n \in Fetches \cup Searches -> AfterSource(ok)
    [] n = distill -> AfterDistill(ok)
    [] n = recall -> AfterRecall
    [] n \in {validate, reminder, read_file} -> AnswerPatch
    [] n = index_file /\ ok -> Add({recall}, {index_file})
    [] n = remember /\ ok /\ mode = "birthday_reminder" -> Add({reminder}, {remember})
    [] n = list_directory /\ ok -> Discovered(n, {index_(i) : i \in 1 .. evidence[n]})
    [] n = search /\ ok -> Discovered(n, {fetch_(i) : i \in 1 .. evidence[n]})
    [] n \in Indexes /\ Landed(Indexes) -> AnswerPatch
    [] OTHER -> Otherwise(ok)

Subject(t) == CHOOSE n \in journal[t].tasks : TRUE
Planned(t) == IF journal[t].kind = "run_started" THEN FirstPatch
              ELSE AfterOutcome(Subject(t), journal[t].kind = "task_succeeded")

-----------------------------------------------------------------------------
(* The executor, as far as the planner leaves it a choice.                  *)

Begin == Start /\ UNCHANGED <<request, evidence, corrective, restarts>>

Plan ==
  /\ run = "open"
  /\ \E t \in Unplanned(journal) : \E p \in {Planned(t)} :
       /\ ApplyPatch(p, t)
       /\ corrective' = [n \in Tasks |->
                           IF n \in p.add \cap Retries THEN Subject(t) ELSE corrective[n]]
  /\ UNCHANGED <<request, evidence, restarts>>

Running == {n \in Tasks : node[n] = "running"}
Idle == run = "open" /\ Unplanned(journal) = {}

Fill ==
  /\ Idle /\ Cardinality(Running) < MaxWorkers
  /\ Launch(MaxWorkers - Cardinality(Running))
  /\ UNCHANGED <<request, evidence, corrective, restarts>>

\* How much a result may list, as far as the planner looks at it.
Found(n) == CASE n \in {list_directory, search} -> 0 .. Breadth
              [] n \in Searches \cup Retries /\ mode = "compose_research" -> {0, 1}
              [] OTHER -> {0}

WorkerReturns(n) ==
  /\ Idle /\ RecordOutcome(n, "succeeded")
  /\ \E k \in Found(n) : evidence' = [evidence EXCEPT ![n] = k]
  /\ UNCHANGED <<request, corrective, restarts>>

WorkerFails(n) ==
  /\ Idle /\ RecordOutcome(n, "failed")
  /\ UNCHANGED <<request, evidence, corrective, restarts>>

\* The process dies, and a client resumes the run.
Restart ==
  /\ run = "open" /\ restarts < MaxRestarts
  /\ Resume
  /\ restarts' = restarts + 1
  /\ UNCHANGED <<request, evidence, corrective>>

Init ==
  /\ StoreInit
  /\ request \in Requests
  /\ evidence = [n \in Tasks |-> 0]
  /\ corrective = [n \in Tasks |-> 0]
  /\ restarts = 0

Advance == Begin \/ Plan \/ Fill \/ \E n \in Tasks : WorkerReturns(n) \/ WorkerFails(n)

Next == Advance \/ Restart

Spec == Init /\ [][Next]_vars

\* The loop goes on, and a worker ends sooner or later.
FairSpec == Spec /\ WF_vars(Advance)

-----------------------------------------------------------------------------
(* What a request may count on.                                             *)

PlannerTypeOK ==
  /\ StoreTypeOK
  /\ request \in Requests
  /\ evidence \in [Tasks -> 0 .. Breadth]
  /\ corrective \in [Tasks -> {0} \cup Searches]
  /\ restarts \in 0 .. MaxRestarts

\* The store accepts every patch that the planner makes (runtime.py:248-392 against
\* store.py:141-175), in every graph a run can reach: no id is added twice, by two
\* outcomes or by an event replayed after a crash, and no edge names a missing task.
PlansAreAccepted ==
  run = "open" => \A t \in Unplanned(journal) : Acceptable(Planned(t), Graph)

\* "A weak outcome does NOT get to flow into compose; it earns ONE corrective retry"
\* (runtime.py:112): when synthesis is planned, no research is going on any more, and
\* each weak first outcome has had the retry of its subject, settled as well
\* (runtime.py:297-319); and the surface "binds the corrected outcome and never the bad
\* one" (runtime.py:674-676), unless two subjects share a slug, and so one retry.
SynthesisWaits ==
  mode = "compose_research" /\ Exists(distill) =>
    /\ Landed(Searches \cup Retries)
    /\ \A n \in Searches : node[n] = "succeeded" /\ evidence[n] = 0 =>
         /\ node[RetryFor(n)] \in Over
         /\ n \in Shown => request.alias

\* The answer is planned, and a run is finished, only when nothing is outstanding that
\* could contribute: finish cancels no worker that gathers evidence (runtime.py:381-391).
\* Only saving a fact, and the recall a reminder does not need, are not waited for.
NothingOutstanding ==
  Exists(answer) \/ run = "finished" =>
    \A n \in Tasks \ {answer, remember} :
      \/ node[n] \in {"absent", "succeeded", "failed"}
      \/ n = recall /\ mode = "birthday_reminder"

AtRest == Idle /\ Running = {} /\ Ready = {}

\* A run that comes to rest unfinished does so for one of three reasons: a pending task
\* waits for a parent that failed (distill, surface and validate are connected to failed
\* tasks as well, runtime.py:316, 331, 362, 371); a birthday request has no remembered
\* fact to make a reminder of; or remember ended after the failure of the one task of
\* the frontier, whose event was not explained because remember was still at work.
RestIsExplained ==
  AtRest =>
    \/ \E e \in edges : node[e[1]] = "failed" /\ node[e[2]] = "pending"
    \/ mode = "birthday_reminder" /\ node[remember] \in {"absent", "failed"}
    \/ /\ mode \in {"index_file", "index_directory", "search_fetch"}
       /\ request.remember /\ \A n \in Frontier : node[n] = "failed"

\* If no worker fails, every request is finished: the planner always has a next patch,
\* through weak evidence, empty listings and restarts.  A reminder for a birthday
\* must also say what to remember.
SuccessFinishes ==
  [](\A n \in Tasks : node[n] # "failed") /\ (mode = "birthday_reminder" => request.remember)
    => <>(run = "finished")
=============================================================================

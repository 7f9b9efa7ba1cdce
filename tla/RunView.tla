------------------------------- MODULE RunView -------------------------------
(***************************************************************************)
(* A browser that watches a run (ui/routes.py, ui/agui.py, ui/client/       *)
(* index.html): it draws the progress view once, then follows the AG-UI     *)
(* stream.  A stream is a tape cut when the server answers: the journal as  *)
(* it is then, led by a snapshot if the client reconnects.  The run goes on *)
(* meanwhile (GraphStore).  One of its tasks may compose a surface.         *)
(***************************************************************************)
EXTENDS GraphStore, Surface

CONSTANTS Composer,    \* the task whose worker is compose_surface
          Proposals,   \* the surfaces the language model may propose
          MaxEvents    \* bound on the journal

ASSUME ViewAssumption ==
  /\ IsFiniteSet(Tasks) /\ Composer \in Tasks /\ MaxEvents \in Nat
  /\ \A s \in Proposals : /\ s = [root |-> s.root, components |-> s.components]
                          /\ IsFiniteSet(s.components)

VARIABLES composed,    \* the result of compose_surface: what was proposed and accepted
          link,        \* the browser's connection
          reconnected,
          tape,        \* what the current connection delivers: journal[1 .. upto], ...
          next,        \* the frame that comes next: 0 is the snapshot
          held,        \* the client's data model
          rebuilt,     \* it has adopted a snapshot
          done         \* it has seen RUN_FINISHED

viewVars == <<link, reconnected, tape, next, held, rebuilt, done>>
vars == <<storeVars, composed, viewVars>>

NoTape == [upto |-> 0, finished |-> FALSE]

-----------------------------------------------------------------------------
(* The data model of a run and its reducers (agui.py, mirrored in the       *)
(* client): results by node, patches in the order of the stream.            *)

EmptyState == [results |-> {}, patches |-> <<>>]

WithDelta(model, i) ==
  CASE journal[i].kind = "task_succeeded" ->
         [model EXCEPT !.results = @ \cup journal[i].tasks]
    [] journal[i].kind = "graph_patched" -> [model EXCEPT !.patches = Append(@, i)]
    [] OTHER -> model

\* run_data_model over the first k entries.
DataModel(k) ==
  LET fold[i \in 0 .. k] == IF i = 0 THEN EmptyState ELSE WithDelta(fold[i - 1], i)
  IN fold[k]

-----------------------------------------------------------------------------
(* Mutated forms of the definitions below, for the mutation runs only.      *)

\* A client that was rebuilt from a snapshot folds the replayed deltas again.
FoldsReplay(wasRebuilt) == TRUE

\* The stream tells of the finish as soon as the run is finished, whatever the tape holds.
TellsFinishLive == run = "finished"

\* A client connects again whenever a tape has ended.
TriesAgainAlways == TRUE

-----------------------------------------------------------------------------
(* The run.                                                                 *)

\* compose_surface: the validator's verdict on what the model proposes; a surface the
\* validator raises on fails the task.
Compose ==
  /\ \E s \in Proposals :
       IF Raises(s.components)
         THEN RecordOutcome(Composer, "failed") /\ UNCHANGED composed
         ELSE /\ RecordOutcome(Composer, "succeeded")
              /\ composed' = {[proposed |-> s,
                               served |-> [s EXCEPT !.components = Accepted(@)]]}

RunStep ==
  /\ Len(journal) < MaxEvents
  /\ \/ /\ \/ Start
           \/ Launch(Cardinality(Tasks))
           \/ \E n \in Tasks : RecordOutcome(n, "failed")
           \/ \E n \in Tasks \ {Composer} : RecordOutcome(n, "succeeded")
           \/ \E p \in Patches, t \in Unplanned(journal) : ApplyPatch(p, t)
           \/ Resume
        /\ UNCHANGED composed
     \/ Compose
  /\ UNCHANGED viewVars

-----------------------------------------------------------------------------
(* The browser.                                                             *)

\* GET /surface, which ProgressIsWhole is about; a run that does not exist is a 404.
Open ==
  /\ link = "away" /\ run # "absent"
  /\ link' = "connecting"
  /\ UNCHANGED <<storeVars, composed, reconnected, tape, next, held, rebuilt, done>>

\* The server answers GET /events, with ?reconnect=1 the second time.
Connected ==
  /\ link = "connecting"
  /\ link' = "streaming"
  /\ tape' = [upto |-> Len(journal), finished |-> run = "finished"]
  /\ next' = IF reconnected THEN 0 ELSE 1
  /\ UNCHANGED <<storeVars, composed, reconnected, held, rebuilt, done>>

Folds(wasRebuilt) == ~wasRebuilt

\* onmessage for the snapshot or for a journal entry.
Frame ==
  /\ link = "streaming" /\ next <= tape.upto
  /\ held' = IF next = 0 THEN DataModel(tape.upto)
             ELSE IF Folds(rebuilt) THEN WithDelta(held, next) ELSE held
  /\ rebuilt' = (rebuilt \/ next = 0)
  /\ next' = next + 1
  /\ UNCHANGED <<storeVars, composed, link, reconnected, tape, done>>

TellsFinish == tape.finished

\* onmessage for RUN_FINISHED.
Finished ==
  /\ link = "streaming" /\ next > tape.upto /\ TellsFinish
  /\ done' = TRUE
  /\ link' = "closed"
  /\ UNCHANGED <<storeVars, composed, reconnected, tape, next, held, rebuilt>>

TriesAgain == ~reconnected

\* onerror, for a connection that breaks as for a tape that ends.
Lost ==
  /\ IF TriesAgain THEN link' = "connecting" /\ reconnected' = TRUE
                   ELSE link' = "closed" /\ UNCHANGED reconnected
  /\ UNCHANGED <<storeVars, composed, tape, next, held, rebuilt, done>>

Drops == link \in {"connecting", "streaming"} /\ Lost
TapeEnds == link = "streaming" /\ next > tape.upto /\ ~TellsFinish /\ Lost

-----------------------------------------------------------------------------
Init ==
  /\ StoreInit
  /\ composed = {}
  /\ link = "away" /\ reconnected = FALSE
  /\ tape = NoTape /\ next = 1
  /\ held = EmptyState /\ rebuilt = FALSE /\ done = FALSE

Follows == Connected \/ Frame \/ Finished \/ TapeEnds

Next == RunStep \/ Open \/ Follows \/ Drops

Spec == Init /\ [][Next]_vars

\* The server answers and the browser reads on.
FairSpec == Spec /\ WF_vars(Follows)

-----------------------------------------------------------------------------
\* The model a browser holds is the model of the run at some moment: the results and the
\* patches of a prefix of the journal, each patch once and in order, over a dropped
\* connection and a second tape ("replaying it twice would double the log", agui.py:117).
HoldsAPrefix ==
  \E k \in 0 .. Len(journal) :
    LET told(kind) == {i \in 1 .. k : journal[i].kind = kind}
        patches == held.patches
    IN /\ held.results = UNION {journal[i].tasks : i \in told("task_succeeded")}
       /\ {patches[a] : a \in DOMAIN patches} = told("graph_patched")
       /\ \A a, b \in DOMAIN patches : a < b => patches[a] < patches[b]

\* A browser that says "run finished" holds the final model of the run: nothing the store
\* commits after a finish carries a delta (agui.py:19-22), not even the late outcome of a
\* worker or a resume.
FinishedIsFinal == done => held = DataModel(Len(journal))

\* "The builder's own surface is always clean" (routes.py:78): in every state of a run the
\* validator accepts all of its progress view, and every row and notice of it is drawn.
ProgressIsWhole ==
  LET s == RunSurface(node, {Composer})
  IN /\ Accepted(s.components) = s.components
     /\ Drawn(s) = {c.id : c \in s.components}
     /\ \A c \in s.components : c.children \subseteq Drawn(s)

\* "Only the offending components are dropped, so a single poisoned node cannot blank the
\* screen" (validator.py:12-14): what the client would draw of the proposal is drawn of
\* the served surface, except below a rejected component.  It is blank all the same if the
\* rejected component is the root.
PoisonIsContained ==
  \A result \in composed :
    LET all == result.proposed.components
        rejected == {c.id : c \in {d \in all : ~Accepts(d)}}
    IN \A id \in Drawn(result.proposed) :
         \/ id \in Drawn(result.served)
         \/ \E r \in rejected : id \in Reached(all, {r})

\* A browser that opened a run reads two tapes at most and stops, also on a run that
\* never finishes: each connection breaks, tells of the finish or comes to its end.
ViewSettles == link # "away" ~> link = "closed"
=============================================================================

----------------------------- MODULE A2AServer -----------------------------
(***************************************************************************)
(* A2ADemoServer (core/a2a_adapter/server.py): remote tasks, the coroutines *)
(* that carry them out and cancel them, the status pushes to a client's     *)
(* webhook, and the recovery of open tasks by the next process.             *)
(*                                                                         *)
(* Up to three coroutines work on a task: the call that created it, the job *)
(* that an asynchronous or a recovered task gets, and a cancelling call.  A *)
(* step below runs one of them from one await to the next.  A task's fields *)
(* are saved before each await, so that the row and the object agree and    *)
(* `updates' stands for both.                                               *)
(***************************************************************************)
EXTENDS Naturals, Sequences, FiniteSets

CONSTANTS Tasks,         \* the tasks clients may create
          PushAttempts,  \* push_attempts
          MaxRestarts    \* bound: deaths of the process

ASSUME A2AAssumption == PushAttempts \in Nat \ {0} /\ MaxRestarts \in Nat

VARIABLES asked,     \* what the client asked for
          updates,   \* durable: the states of a task so far, each with its push deliveries
          call,      \* where the creating call stands
          job,       \* where the job of _jobs stands
          push,      \* per coroutine, the index of the update it is pushing, or 0
          received,  \* the index of the update that reached the webhook last, or 0
          cut,       \* the tasks one of whose pushes ended with its coroutine
          restarts

vars == <<asked, updates, call, job, push, received, cut, restarts>>

Coroutines == {"call", "job", "cancel"}
Terminal == {"completed", "failed", "canceled"}
TaskState == Terminal \cup {"submitted", "working"}
CallPlaces == {"none", "announcing", "yielded", "handling", "reporting", "over",
               "dropped",    \* cancelled because its client left
               "gone"}       \* died with its process
JobPlaces == {"none", "delayed", "handling", "reporting", "over"}

\* kind: message/send, message/send of a text with "async" or "slow", message/stream.
\* The gRPC binding takes no callback (_params in official.py).
Requests == {r \in [kind : {"sync", "async", "stream"}, grpc : BOOLEAN, callback : BOOLEAN] :
               r.callback => ~r.grpc}
NoRequest == [kind |-> "none", grpc |-> FALSE, callback |-> FALSE]

Updates == [state : TaskState, attempts : 0 .. PushAttempts, delivered : BOOLEAN]
Update(s) == [state |-> s, attempts |-> 0, delivered |-> FALSE]
Exists(t) == updates[t] # <<>>
Current(t) == Len(updates[t])
Latest(t) == updates[t][Current(t)]
Open(t) == Exists(t) /\ Latest(t).state \notin Terminal

-----------------------------------------------------------------------------
(* Mutated forms of the definitions below, for the mutation runs only.      *)

\* The last permitted attempt is not made.
GivesUpEarly(attempts) == attempts + 1 >= PushAttempts

\* Recovery looks for working tasks only.
RecoverableIfWorking(t) == Exists(t) /\ Latest(t).state = "working"

\* A cancelled job is let go on.
StoppedJobGoesOn(t) == job[t]

\* The job is started first, and the announcement is awaited after.
JobWhileAnnouncing(r) == IF r.kind = "async" THEN "delayed" ELSE "none"

-----------------------------------------------------------------------------
(* Requests.                                                                *)

AfterCreation(r) ==
  CASE r.kind = "sync" -> "handling"
    [] r.kind = "stream" -> "yielded"
    [] r.kind = "async" /\ r.callback -> "announcing"
    [] OTHER -> "over"

\* An asynchronous task has its job only after the announcement of its first state.
JobAtCreation(r) == IF r.kind = "async" /\ ~r.callback THEN "delayed" ELSE "none"

\* send, or stream_updates up to its first yield.
Send(t) ==
  /\ ~Exists(t)
  /\ \E r \in Requests :
       /\ asked' = [asked EXCEPT ![t] = r]
       /\ updates' = [updates EXCEPT ![t] =
            <<Update("submitted")>> \o (IF r.kind = "sync" THEN <<>> ELSE <<Update("working")>>)]
       /\ call' = [call EXCEPT ![t] = AfterCreation(r)]
       /\ job' = [job EXCEPT ![t] = JobAtCreation(r)]
       /\ push' = [push EXCEPT ![t]["call"] = IF AfterCreation(r) = "announcing" THEN 2 ELSE 0]
  /\ UNCHANGED <<received, cut, restarts>>

\* A stream goes on after its first snapshot was taken.
StreamResumes(t) ==
  /\ call[t] = "yielded"
  /\ call' = [call EXCEPT ![t] = IF Open(t) THEN "handling" ELSE "over"]
  /\ UNCHANGED <<asked, updates, job, push, received, cut, restarts>>

JobWakes(t) ==
  /\ job[t] = "delayed"
  /\ job' = [job EXCEPT ![t] = IF Open(t) THEN "handling" ELSE "over"]
  /\ UNCHANGED <<asked, updates, call, push, received, cut, restarts>>

\* A change of state, saved, and then announced by coroutine c if there is a callback.
Settle(t, s, c) ==
  /\ updates' = [updates EXCEPT ![t] = Append(@, Update(s))]
  /\ push' = [push EXCEPT ![t][c] = IF asked[t].callback THEN Current(t) + 1 ELSE 0]

AfterHandler(t) == IF asked[t].callback THEN "reporting" ELSE "over"

\* _complete, when the handler returns or raises.  It does not look at the state again.
HandlerEnds(t, s) ==
  /\ \/ /\ call[t] = "handling" /\ Settle(t, s, "call")
        /\ call' = [call EXCEPT ![t] = AfterHandler(t)] /\ UNCHANGED job
     \/ /\ job[t] = "handling" /\ Settle(t, s, "job")
        /\ job' = [job EXCEPT ![t] = AfterHandler(t)] /\ UNCHANGED call
  /\ UNCHANGED <<asked, received, cut, restarts>>

\* A client has the id of a task from a reply, the first snapshot of a stream, or a push.
Known(t) ==
  \/ asked[t].kind = "stream"
  \/ asked[t].kind = "async" /\ call[t] = "over"
  \/ received[t] # 0

\* job.cancel() reaches the job at its await, before anything else can end that.
StoppedJob(t) == IF job[t] = "none" THEN "none" ELSE "over"

Cancel(t) ==
  /\ Open(t) /\ Known(t)
  /\ Settle(t, "canceled", "cancel")
  /\ job' = [job EXCEPT ![t] = StoppedJob(t)]
  /\ UNCHANGED <<asked, call, received, cut, restarts>>

-----------------------------------------------------------------------------
(* Pushes.                                                                  *)

\* What coroutine c does when its _notify returns.
PushEnds(t, c) ==
  /\ push' = [push EXCEPT ![t][c] = 0]
  /\ call' = [call EXCEPT ![t] = IF c = "call" THEN "over" ELSE @]
  /\ job' = [job EXCEPT ![t] = CASE c = "call" /\ call[t] = "announcing" -> "delayed"
                                  [] c = "job" -> "over"
                                  [] OTHER -> @]

Attempted(t, i, ok) ==
  updates' = [updates EXCEPT ![t][i].attempts = @ + 1, ![t][i].delivered = ok]

\* The webhook answers with a success.
PushAccepted(t, c) ==
  /\ push[t][c] # 0
  /\ Attempted(t, push[t][c], TRUE)
  /\ received' = [received EXCEPT ![t] = push[t][c]]
  /\ PushEnds(t, c)
  /\ UNCHANGED <<asked, cut, restarts>>

GivesUp(attempts) == attempts = PushAttempts

\* No answer, or an error: the webhook may have processed the update all the same.  It has
\* done so by then or never does: a post that is still on its way when its sender gives up
\* (server.py:270) is not modelled.
PushFails(t, c) ==
  /\ push[t][c] # 0
  /\ Attempted(t, push[t][c], FALSE)
  /\ \/ UNCHANGED received
     \/ received' = [received EXCEPT ![t] = push[t][c]]
  /\ IF GivesUp(updates[t][push[t][c]].attempts + 1)
       THEN PushEnds(t, c) ELSE UNCHANGED <<push, call, job>>
  /\ UNCHANGED <<asked, cut, restarts>>

-----------------------------------------------------------------------------
(* Clients that leave, and the death of the process.                        *)

Pushing(t) == \E c \in Coroutines : push[t][c] # 0

\* Starlette cancels the response of a stream, grpc.aio any call, when its client is gone.
ClientLeaves(t) ==
  /\ asked[t].kind = "stream" \/ asked[t].grpc
  /\ call[t] \in {"yielded", "handling", "reporting"}
  /\ call' = [call EXCEPT ![t] = "dropped"]
  /\ push' = [push EXCEPT ![t]["call"] = 0]
  /\ cut' = IF push[t]["call"] # 0 THEN cut \cup {t} ELSE cut
  /\ UNCHANGED <<asked, updates, job, received, restarts>>

\* The same for a call of CancelTask.
CancellerLeaves(t) ==
  /\ push[t]["cancel"] # 0
  /\ push' = [push EXCEPT ![t]["cancel"] = 0]
  /\ cut' = cut \cup {t}
  /\ UNCHANGED <<asked, updates, call, job, received, restarts>>

Recoverable(t) == Open(t)

\* close(), or a crash; then load_all() and start() in the next process.
Restart ==
  /\ restarts < MaxRestarts
  /\ restarts' = restarts + 1
  /\ updates' = [t \in Tasks |-> IF Recoverable(t) THEN Append(updates[t], Update("working"))
                                                  ELSE updates[t]]
  /\ job' = [t \in Tasks |-> IF Recoverable(t) THEN "delayed" ELSE "none"]
  /\ call' = [t \in Tasks |-> IF call[t] \in {"none", "over"} THEN call[t] ELSE "gone"]
  /\ push' = [t \in Tasks |-> [c \in Coroutines |-> 0]]
  /\ cut' = cut \cup {t \in Tasks : Pushing(t)}
  /\ UNCHANGED <<asked, received>>

-----------------------------------------------------------------------------
Init ==
  /\ asked = [t \in Tasks |-> NoRequest]
  /\ updates = [t \in Tasks |-> <<>>]
  /\ call = [t \in Tasks |-> "none"]
  /\ job = [t \in Tasks |-> "none"]
  /\ push = [t \in Tasks |-> [c \in Coroutines |-> 0]]
  /\ received = [t \in Tasks |-> 0]
  /\ cut = {}
  /\ restarts = 0

\* What the event loop, the handler and the network bring forward.
Runs(t) ==
  \/ StreamResumes(t)
  \/ JobWakes(t)
  \/ \E s \in {"completed", "failed"} : HandlerEnds(t, s)

Pushes(t, c) == PushAccepted(t, c) \/ PushFails(t, c)

Next ==
  \/ \E t \in Tasks :
       \/ Send(t)
       \/ Runs(t)
       \/ Cancel(t)
       \/ \E c \in Coroutines : Pushes(t, c)
       \/ ClientLeaves(t)
       \/ CancellerLeaves(t)
  \/ Restart

Spec == Init /\ [][Next]_vars

\* The loop runs what is runnable, a handler ends (main.py:70), a post ends (the client
\* of main.py:81 has a timeout).
FairSpec ==
  /\ Spec
  /\ \A t \in Tasks : WF_vars(Runs(t)) /\ \A c \in Coroutines : WF_vars(Pushes(t, c))

-----------------------------------------------------------------------------
(* What clients may count on.                                               *)

A2ATypeOK ==
  /\ asked \in [Tasks -> Requests \cup {NoRequest}]
  /\ updates \in [Tasks -> Seq(Updates)]
  /\ call \in [Tasks -> CallPlaces]
  /\ job \in [Tasks -> JobPlaces]
  /\ push \in [Tasks -> [Coroutines -> Nat]]
  /\ received \in [Tasks -> Nat]
  /\ \A t \in Tasks : /\ received[t] <= Current(t)
                      /\ \A c \in Coroutines : push[t][c] <= Current(t)
  /\ cut \subseteq Tasks
  /\ restarts \in 0 .. MaxRestarts

\* The coroutines that are to bring a task to its end.
Workers(t) ==
  {c \in {"call", "job"} : IF c = "call" THEN call[t] \in {"announcing", "yielded", "handling"}
                                         ELSE job[t] \in {"delayed", "handling"}}

\* An open task has exactly one coroutine that will end it, unless the client that
\* waited for it has left (then it stays open until the next start, server.py:121-128):
\* never two handlers for one task (server.py:124 and 231), never none.
OneWorker ==
  \A t \in Tasks :
    /\ Open(t) => IF call[t] = "dropped" THEN Workers(t) = {} ELSE Cardinality(Workers(t)) = 1
    /\ Workers(t) # {"call", "job"}

\* The server keeps the promise of RemoteTask: a task settles once (the TERMINAL checks
\* of server.py:188, 219 and 231), except that a stream cancelled in its handler gets the
\* handler's outcome as well, against what core/a2a_adapter/tests/test_adapter.py:67-70
\* expects of a slow task; and every task ends that its client did not leave.
StateOf(t) == IF Exists(t) THEN Latest(t).state ELSE "absent"
Promised == INSTANCE RemoteTask WITH
  state <- [t \in Tasks |-> StateOf(t)],
  streamed <- {t \in Tasks : asked[t].kind = "stream"},
  abandoned <- {t \in Tasks : call[t] = "dropped"}
PromiseKept == Promised!FairSpec

\* A webhook hears of the states of a task in their order, retries and lost answers
\* included (server.py:270-280), unless the task was cancelled: only then do two pushes
\* of one task overlap.  (A post that takes effect after its sender gave it up would be another
\* exception: see PushFails.)
NewsInOrder ==
  [][\A t \in Tasks : received'[t] < received[t] =>
       \E i \in 1 .. Current(t) : updates[t][i].state = "canceled"]_vars

\* The webhook has been told of the final state of a task, or could not be in
\* push_attempts attempts, once nobody is telling it any more; a push is only ever
\* forgotten if its coroutine ended with its client or with the process.
QuietMeansTold ==
  \A t \in Tasks \ cut : Exists(t) /\ ~Open(t) /\ asked[t].callback /\ ~Pushing(t) =>
    Latest(t).delivered \/ Latest(t).attempts = PushAttempts
=============================================================================

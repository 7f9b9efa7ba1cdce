----------------------------- MODULE A2ABridge -----------------------------
(***************************************************************************)
(* A2AGraphBridge (core/a2a_adapter/official.py): nodes of a live graph     *)
(* that wait for a remote task.  Composes the graph's rows (GraphStore)     *)
(* with the server's tasks (RemoteTask): a call of dispatch_waiting creates *)
(* at most one remote task, so that a call also stands for its task.        *)
(*                                                                         *)
(* The bridge and the graph share an event loop: between two transactions   *)
(* without an await only the death of the process can fall.  `turn' is what *)
(* is left to commit before the loop turns.                                 *)
(***************************************************************************)
EXTENDS GraphStore

CONSTANTS Calls,       \* the calls of dispatch_waiting
          NoCall,
          MaxCrashes,  \* bound: deaths of the graph's process
          MaxResumes,  \* bound: calls of run() with resume
          MaxEvents    \* bound on the journal, for what anyone may do at any time

ASSUME BridgeAssumption ==
  /\ NoCall \notin Calls /\ MaxCrashes \in Nat /\ MaxResumes \in Nat
  /\ MaxEvents \in Nat
  /\ IsFiniteSet(Tasks) /\ 0 \notin Tasks       \* 0 stands for no task

VARIABLES state, streamed, abandoned,  \* the server's tasks: see RemoteTask
          stage,       \* where each call stands
          target,      \* the node each call is for, 0 before
          remote_ids,  \* volatile: the remote task of a node
          results,     \* volatile: the remote task a node takes its result from
          cancelling,  \* the remote task a cancel_node of a node is awaiting
          turn,        \* what the bridge, or a client that cancels a node, still has to commit
          crashes

Remote == INSTANCE RemoteTask WITH Tasks <- Calls
remoteVars == <<state, streamed, abandoned>>
bridgeVars == <<stage, target, remote_ids, results, cancelling, turn, crashes>>
vars == <<storeVars, remoteVars, bridgeVars>>

Stages == {"idle", "starting", "replying", "subscribed", "over",
           "broken",    \* the connection failed, or the process died
           "refused"}   \* apply_patch raised
Through == [call |-> NoCall, cancels |-> 0]   \* nothing is left to commit

-----------------------------------------------------------------------------
(* Mutated forms of the definitions below, for the mutation runs only.      *)

\* The subscription is read up to its first snapshot.
ReportedFirst(c) == state[c] # "absent"

\* Others may commit between the event and the patch for it.
BetweenAnyway == TRUE

\* A cancelled remote task does not end the subscription.
ReportedUnlessCanceled(c) == state[c] \in {"completed", "failed"}

\* The check made before the dispatch is trusted.
StillWaitsAsBefore(n) == TRUE

-----------------------------------------------------------------------------
(* dispatch_waiting, from one await to the next.                            *)

Between == turn = Through

Dispatch(c, n) ==
  /\ Between /\ stage[c] = "idle"
  /\ node[n] = "waiting"                       \* otherwise ValueError
  /\ stage' = [stage EXCEPT ![c] = "starting"]
  /\ target' = [target EXCEPT ![c] = n]
  /\ UNCHANGED <<storeVars, remoteVars, remote_ids, results, cancelling, turn, crashes>>

\* SendMessage reaches the server.
Started(c) ==
  /\ stage[c] = "starting"
  /\ \E s \in {"submitted", "working"} : Remote!Create(c, s, FALSE)
  /\ stage' = [stage EXCEPT ![c] = "replying"]
  /\ UNCHANGED <<storeVars, target, remote_ids, results, cancelling, turn, crashes>>

Remembered(c) == [remote_ids EXCEPT ![target[c]] = c]

Replied(c) ==
  /\ Between /\ stage[c] = "replying"
  /\ remote_ids' = Remembered(c)
  /\ stage' = [stage EXCEPT ![c] = "subscribed"]
  /\ UNCHANGED <<storeVars, remoteVars, target, results, cancelling, turn, crashes>>

\* SubscribeToTask has reported a final state and ended.
Reported(c) == state[c] \in Remote!Terminal

Completed(c) ==
  /\ Between /\ stage[c] = "subscribed"
  /\ Reported(c)
  /\ results' = [results EXCEPT ![target[c]] = c]
  /\ RecordExternalEvent(target[c])
  /\ turn' = [Through EXCEPT !.call = c]
  /\ UNCHANGED <<remoteVars, stage, target, remote_ids, cancelling, crashes>>

StillWaits(n) == node[n] = "waiting"
WakePatch(n) == [NoPatch EXCEPT !.resume = {n}]

\* Then, if the node still waits, the patch, for the event just recorded.
Wake(c) ==
  LET n == target[c] IN
  /\ turn.call = c
  /\ turn' = Through
  /\ \/ StillWaits(n) /\ ApplyPatch(WakePatch(n), Len(journal))
        /\ stage' = [stage EXCEPT ![c] = "over"]
     \/ StillWaits(n) /\ ~Acceptable(WakePatch(n), Graph)
        /\ stage' = [stage EXCEPT ![c] = "refused"] /\ UNCHANGED storeVars
     \/ ~StillWaits(n)
        /\ stage' = [stage EXCEPT ![c] = "over"] /\ UNCHANGED storeVars
  /\ UNCHANGED <<remoteVars, target, remote_ids, results, cancelling, crashes>>

\* SendMessage or SubscribeToTask raises: the server closed, or could not be reached.
Breaks(c) ==
  /\ Between /\ stage[c] \in {"starting", "replying", "subscribed"}
  /\ stage' = [stage EXCEPT ![c] = "broken"]
  /\ IF stage[c] = "replying" THEN Remote!Abandon(c) ELSE UNCHANGED remoteVars
  /\ UNCHANGED <<storeVars, target, remote_ids, results, cancelling, turn, crashes>>

-----------------------------------------------------------------------------
(* cancel_node, and a client that cancels the node in the graph.            *)

CancelNode(n) ==
  /\ Between /\ cancelling[n] = NoCall /\ Len(journal) < MaxEvents
  /\ remote_ids[n] # NoCall                    \* otherwise KeyError
  /\ cancelling' = [cancelling EXCEPT ![n] = remote_ids[n]]
  /\ UNCHANGED <<storeVars, remoteVars, stage, target, remote_ids, results, turn, crashes>>

\* CancelTask reaches the server; a task that is over stays as it is.
CancelReaches(n) ==
  /\ cancelling[n] # NoCall
  /\ Remote!End(cancelling[n], "canceled")
  /\ UNCHANGED <<storeVars, bridgeVars>>

CancelReturns(n) ==
  /\ Between /\ cancelling[n] # NoCall
  /\ Reported(cancelling[n])
  /\ RecordExternalEvent(n)
  /\ cancelling' = [cancelling EXCEPT ![n] = NoCall]
  /\ UNCHANGED <<remoteVars, stage, target, remote_ids, results, turn, crashes>>

CancelPatch(n) == [NoPatch EXCEPT !.cancel = {n}]

\* A client journals its decision and commits it: see tests/test_hardening.py:162-164.
Decide(n) ==
  /\ Between /\ Len(journal) < MaxEvents
  /\ node[n] \in Live
  /\ RecordExternalEvent(n)
  /\ turn' = [Through EXCEPT !.cancels = n]
  /\ UNCHANGED <<remoteVars, stage, target, remote_ids, results, cancelling, crashes>>

Decided(n) ==
  /\ turn.cancels = n
  /\ turn' = Through
  /\ ApplyPatch(CancelPatch(n), Len(journal))
  /\ UNCHANGED <<remoteVars, stage, target, remote_ids, results, cancelling, crashes>>

-----------------------------------------------------------------------------
(* The rest of the graph: its planner and its workers, bounded.             *)

\* result_skill: KeyError, so a failure, without a result.
Outcome(n) == IF results[n] = NoCall THEN "failed" ELSE "succeeded"

Resumes == Cardinality({t \in DOMAIN journal : journal[t].kind = "run_resumed"})

GraphStep ==
  /\ Between /\ Len(journal) < MaxEvents
  /\ \/ Start
     \/ Launch(1)
     \/ \E n \in Tasks : RecordOutcome(n, Outcome(n))
     \/ \E p \in Patches, t \in Unplanned(journal) : ApplyPatch(p, t)
     \/ Resumes < MaxResumes /\ Resume
  /\ UNCHANGED <<remoteVars, bridgeVars>>

\* The death of the graph's process, between two transactions too.
Crash ==
  /\ crashes < MaxCrashes /\ run # "absent"
  /\ crashes' = crashes + 1
  /\ stage' = [c \in Calls |-> IF stage[c] \in {"idle", "over"} THEN stage[c] ELSE "broken"]
  /\ remote_ids' = [n \in Tasks |-> NoCall]
  /\ results' = [n \in Tasks |-> NoCall]
  /\ cancelling' = [n \in Tasks |-> NoCall]
  /\ turn' = Through
  /\ abandoned' = abandoned \cup {c \in Calls : stage[c] = "replying"}
  /\ UNCHANGED <<storeVars, state, streamed, target>>

-----------------------------------------------------------------------------
Init ==
  /\ StoreInit
  /\ Remote!Init
  /\ stage = [c \in Calls |-> "idle"]
  /\ target = [c \in Calls |-> 0]
  /\ remote_ids = [n \in Tasks |-> NoCall]
  /\ results = [n \in Tasks |-> NoCall]
  /\ cancelling = [n \in Tasks |-> NoCall]
  /\ turn = Through
  /\ crashes = 0

RemoteStep ==
  /\ \/ Remote!Restart
     \/ \E c \in Calls, s \in {"completed", "failed"} : Remote!End(c, s)
  /\ UNCHANGED <<storeVars, bridgeVars>>

Runs(c) == Started(c) \/ Replied(c) \/ Completed(c) \/ Wake(c)

Next ==
  \/ \E c \in Calls : \E n \in Tasks : Dispatch(c, n)
  \/ \E c \in Calls : Runs(c) \/ Breaks(c)
  \/ \E n \in Tasks : CancelNode(n) \/ CancelReaches(n) \/ CancelReturns(n)
  \/ \E n \in Tasks : Decide(n) \/ Decided(n)
  \/ GraphStep
  \/ RemoteStep
  \/ Crash

Spec == Init /\ [][Next]_vars

\* The loop runs what is runnable, the server answers or the call breaks, and the server
\* keeps its promise (RemoteTask).
FairSpec ==
  /\ Spec
  /\ \A c \in Calls : WF_vars(Runs(c)) /\ WF_remoteVars(Remote!Ends(c))
  /\ \A n \in Tasks : WF_vars(Decided(n))

-----------------------------------------------------------------------------
BridgeTypeOK ==
  /\ stage \in [Calls -> Stages]
  /\ target \in [Calls -> Tasks \cup {0}]
  /\ {remote_ids, results, cancelling} \subseteq [Tasks -> Calls \cup {NoCall}]
  /\ turn \in [call : Calls \cup {NoCall}, cancels : Tasks \cup {0}]
  /\ state \in [Calls -> Remote!Terminal \cup {"absent", "submitted", "working"}]
  /\ crashes \in 0 .. MaxCrashes

\* What commits to the graph while bridges are at work.
AllPatches == Patches \cup {WakePatch(n) : n \in Tasks} \cup {CancelPatch(n) : n \in Tasks}
Store == INSTANCE GraphStore WITH Patches <- AllPatches

\* The bridge and the cancelling client are clients of the store like any other: each of
\* their steps is one transaction, and each of their patches is for an event that they have
\* journalled themselves and that is the last one, although the number of that event is read
\* in one transaction and used in the next (official.py:124-130).
ClientOfStore == Store!StoreSpec

\* The patch of a bridge is never refused, whatever happened to the node while its remote
\* task was at work: cancelled by a client, woken by a second dispatch, finished with its
\* run (official.py:125-127 checks again, and nothing may come between check and patch).
NeverRefused == \A c \in Calls : stage[c] # "refused"

\* The planner parks every task it adds and leaves the waking to the bridge.
OnlyTheBridgeWakes == \A p \in Patches : p.add \subseteq p.wait /\ p.resume = {}

\* A node is awake only with the final result of a remote task created for it at hand,
\* unless the process has died since: then result_skill fails and the node with it.
AwakeHasResult ==
  \A n \in Tasks : node[n] \in {"pending", "running", "succeeded"} /\ crashes = 0 =>
    /\ results[n] # NoCall
    /\ target[results[n]] = n
    /\ state[results[n]] \in Remote!Terminal

\* A node whose remote task is subscribed to stops waiting: the answer, of any kind, wakes
\* it, unless the connection or the process breaks first.  (After that nobody does: a
\* dispatch is not repeated, and the journalled completion is of a kind that
\* pending_planner_events does not replay, official.py:124, store.py:235-239.)
SubscribedStopsWaiting ==
  \A c \in Calls, n \in Tasks :
    stage[c] = "subscribed" /\ target[c] = n ~> stage[c] = "broken" \/ node[n] # "waiting"
=============================================================================

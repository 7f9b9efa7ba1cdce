----------------------------- MODULE RemoteTask -----------------------------
(* What an A2A server promises of the tasks it carries out: the life of a   *)
(* task as a client sees it, without coroutines, pushes and restarts.       *)
(* A2AServer implements this specification; A2ABridge relies on it.         *)

CONSTANT Tasks

VARIABLES state,      \* the state last reported for each task
          streamed,   \* the tasks created by message/stream
          abandoned   \* the tasks whose client left before the server was done with them

remoteVars == <<state, streamed, abandoned>>

Terminal == {"completed", "failed", "canceled"}
IsOpen(t) == state[t] \in {"submitted", "working"}

Init ==
  /\ state = [t \in Tasks |-> "absent"]
  /\ streamed = {}
  /\ abandoned = {}

Create(t, s, isStream) ==
  /\ state[t] = "absent"
  /\ state' = [state EXCEPT ![t] = s]
  /\ streamed' = IF isStream THEN streamed \cup {t} ELSE streamed
  /\ UNCHANGED abandoned

\* The next process takes up every open task, and so also those whose client had left.
Restart ==
  /\ state' = [t \in Tasks |-> IF state[t] = "submitted" THEN "working" ELSE state[t]]
  /\ abandoned' = {}
  /\ UNCHANGED streamed

End(t, s) ==
  /\ IsOpen(t)
  /\ state' = [state EXCEPT ![t] = s]
  /\ UNCHANGED <<streamed, abandoned>>

\* The one change of a final state: the handler of a cancelled stream goes on.
Outrun(t, s) ==
  /\ state[t] = "canceled" /\ t \in streamed
  /\ state' = [state EXCEPT ![t] = s]
  /\ UNCHANGED <<streamed, abandoned>>

Abandon(t) ==
  /\ state[t] # "absent"
  /\ abandoned' = abandoned \cup {t}
  /\ UNCHANGED <<state, streamed>>

Next ==
  \/ \E t \in Tasks :
       \/ \E s \in {"submitted", "working"}, isStream \in BOOLEAN : Create(t, s, isStream)
       \/ \E s \in Terminal : End(t, s)
       \/ \E s \in {"completed", "failed"} : Outrun(t, s)
       \/ Abandon(t)
  \/ Restart

Spec == Init /\ [][Next]_remoteVars

\* A task is brought to an end, unless its client left it.
Ends(t) == t \notin abandoned /\ \E s \in Terminal : End(t, s)
FairSpec == Spec /\ \A t \in Tasks : WF_remoteVars(Ends(t))
=============================================================================

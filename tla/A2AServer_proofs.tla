-------------------------- MODULE A2AServer_proofs --------------------------
(***************************************************************************)
(* What the server leaves true for any number of tasks, of attempts at a    *)
(* push and of restarts.  Tasks do not touch one another, so the inductive  *)
(* invariant is one of a single task: where its three coroutines may stand  *)
(* together, and what each of them may be pushing.                          *)
(***************************************************************************)
EXTENDS A2AServer, FiniteSetTheorems, TLAPS

Worker == {"delayed", "handling"}
Canceled(t) == \E i \in 1 .. Current(t) : updates[t][i].state = "canceled"

\* Where the creating call and the job of a task may stand.
Places(t) ==
  /\ Exists(t) => asked[t] \in Requests /\ call[t] # "none"
  /\ ~Exists(t) => asked[t] = NoRequest /\ call[t] = "none" /\ received[t] = 0
  /\ call[t] \notin {"over", "gone"} => job[t] = "none"
  /\ call[t] \in {"over", "gone"} /\ Open(t) => job[t] \in Worker
  /\ job[t] = "handling" => Open(t)
  /\ call[t] = "reporting" \/ job[t] = "reporting" => ~Open(t)
  /\ call[t] = "announcing" => asked[t].kind = "async"
  /\ call[t] = "yielded" => asked[t].kind = "stream"
  /\ call[t] = "handling" => \/ asked[t].kind = "sync" /\ Open(t) /\ received[t] = 0
                             \/ asked[t].kind = "stream" /\ Open(t)
                             \/ asked[t].kind = "stream" /\ Latest(t).state = "canceled"

\* Which coroutine may be pushing which update.
Pushed(t) ==
  /\ push[t]["call"] # 0 <=> call[t] \in {"announcing", "reporting"}
  /\ push[t]["job"] # 0 <=> job[t] = "reporting"
  /\ push[t]["cancel"] # 0 => ~Open(t) /\ Canceled(t)
  /\ \A c \in Coroutines : push[t][c] # 0 =>
       /\ asked[t].callback
       /\ updates[t][push[t][c]].attempts < PushAttempts
       /\ \A d \in Coroutines : push[t][d] = push[t][c] => d = c
       /\ Canceled(t) \/ received[t] <= push[t][c]

\* The push of a final state is made, given up, cut off, or under way.
Told(t) ==
  t \notin cut /\ Exists(t) /\ ~Open(t) /\ asked[t].callback =>
    \/ Latest(t).delivered
    \/ Latest(t).attempts = PushAttempts
    \/ \E c \in Coroutines : push[t][c] = Current(t)

ServerInv == A2ATypeOK /\ \A t \in Tasks : Places(t) /\ Pushed(t) /\ Told(t)
-----------------------------------------------------------------------------
(* The updates of a task.                                                   *)

\* A change of state is the latest of the updates and leaves the earlier ones alone.
LEMMA Appended ==
  ASSUME A2ATypeOK, NEW t \in Tasks, NEW s \in TaskState,
         updates'[t] = Append(updates[t], Update(s))
  PROVE  /\ updates'[t] \in Seq(Updates)
         /\ Current(t) \in Nat /\ Current(t)' = Current(t) + 1
         /\ Latest(t)' = Update(s) /\ Exists(t)'
         /\ Open(t)' <=> s \notin Terminal
         /\ \A i \in 1 .. Current(t) : updates'[t][i] = updates[t][i]
         /\ Canceled(t)' <=> Canceled(t) \/ s = "canceled"
  <1>1. updates[t] \in Seq(Updates) /\ Update(s) \in Updates
    <2>1. updates[t] \in Seq(Updates)
      BY DEF A2ATypeOK
    <2>2. 0 \in 0 .. PushAttempts
      BY A2AAssumption
    <2> QED BY <2>1, <2>2 DEF Updates, Update
  <1>2. /\ updates'[t] \in Seq(Updates)
        /\ Len(updates[t]) \in Nat /\ Len(updates'[t]) = Len(updates[t]) + 1
        /\ updates'[t][Len(updates[t]) + 1] = Update(s)
        /\ \A i \in 1 .. Len(updates[t]) : updates'[t][i] = updates[t][i]
    BY <1>1
  <1>3. updates'[t] # <<>>
    BY <1>2
  <1>4. Update(s).state = s
    BY DEF Update
  <1> QED BY <1>2, <1>3, <1>4 DEF Current, Latest, Exists, Open, Canceled

\* An attempt at a push changes the account of that push and of nothing else.
LEMMA Accounted ==
  ASSUME A2ATypeOK, NEW t \in Tasks, NEW i \in 1 .. Current(t), NEW ok \in BOOLEAN,
         updates[t][i].attempts < PushAttempts, Attempted(t, i, ok)
  PROVE  /\ updates' \in [Tasks -> Seq(Updates)]
         /\ Current(t) \in Nat /\ Current(t)' = Current(t)
         /\ \A u \in Tasks \ {t} : updates'[u] = updates[u]
         /\ \A j \in 1 .. Current(t) : /\ updates'[t][j].state = updates[t][j].state
                                       /\ j # i => updates'[t][j] = updates[t][j]
         /\ updates'[t][i].attempts = updates[t][i].attempts + 1
         /\ updates'[t][i].delivered = ok
         /\ Exists(t)' <=> Exists(t)
         /\ Open(t)' <=> Open(t)
         /\ Exists(t) => Latest(t)'.state = Latest(t).state
         /\ Canceled(t)' <=> Canceled(t)
  <1> DEFINE old == updates[t][i]
             new == [old EXCEPT !.attempts = @ + 1, !.delivered = ok]
  <1>1. updates \in [Tasks -> Seq(Updates)] /\ Len(updates[t]) \in Nat
    BY DEF A2ATypeOK
  <1>2. i \in 1 .. Len(updates[t])
    BY DEF Current
  <1>3. old \in Updates
    BY <1>1, <1>2
  <1>4. new \in Updates
    <2>1. old.attempts \in 0 .. PushAttempts /\ old.attempts < PushAttempts
      BY <1>3 DEF Updates
    <2>2. old.attempts + 1 \in 0 .. PushAttempts
      BY <2>1, A2AAssumption
    <2> HIDE DEF old
    <2> QED BY <1>3, <2>2 DEF Updates
  <1>5. updates' = [updates EXCEPT ![t] = [@ EXCEPT ![i] = new]]
    BY <1>1, <1>2 DEF Attempted
  <1>6. updates'[t] = [updates[t] EXCEPT ![i] = new]
    BY <1>1, <1>5
  <1>7. /\ updates'[t] \in Seq(Updates) /\ Len(updates'[t]) = Len(updates[t])
        /\ updates'[t][i] = new
        /\ \A j \in 1 .. Len(updates[t]) : j # i => updates'[t][j] = updates[t][j]
    <2> HIDE DEF new
    <2>1. updates[t] \in Seq(Updates)
      BY <1>1
    <2> QED BY <1>2, <1>4, <1>6, <2>1
  <1>8. new.state = old.state /\ new.attempts = old.attempts + 1 /\ new.delivered = ok
    BY <1>3 DEF Updates
  <1>9. \A j \in 1 .. Len(updates[t]) : updates'[t][j].state = updates[t][j].state
    BY <1>7, <1>8
  <1>10. updates' \in [Tasks -> Seq(Updates)]
    BY <1>1, <1>5, <1>6, <1>7
  <1>11. updates[t] # <<>> /\ updates'[t] # <<>>
    BY <1>2, <1>7
  <1>12. Len(updates[t]) \in 1 .. Len(updates[t])
    BY <1>1, <1>2
  <1> QED BY <1>1, <1>5, <1>7, <1>8, <1>9, <1>10, <1>11, <1>12
          DEF Current, Exists, Open, Latest, Canceled

\* A step of one task leaves what is known of the others.
Untouched(u) ==
  /\ asked'[u] = asked[u] /\ updates'[u] = updates[u] /\ call'[u] = call[u]
  /\ job'[u] = job[u] /\ push'[u] = push[u] /\ received'[u] = received[u]
  /\ u \in cut' <=> u \in cut

\* What one task does leaves the invariant of the others alone.
LEMMA OthersKeep ==
  ASSUME NEW u \in Tasks, Untouched(u), Places(u), Pushed(u), Told(u)
  PROVE  Places(u)' /\ Pushed(u)' /\ Told(u)'
BY DEF Untouched, Places, Pushed, Told, Exists, Open, Latest, Current, Canceled

-----------------------------------------------------------------------------
(* One lemma for each action.                                               *)

\* Nobody has asked for anything yet.
LEMMA InitKeeps == Init => ServerInv
  <1> SUFFICES ASSUME Init PROVE ServerInv
    OBVIOUS
  <1>1. \A t \in Tasks : Current(t) = 0 /\ ~Exists(t) /\ ~Open(t)
    BY DEF Init, Current, Exists, Open
  <1>2. A2ATypeOK
    BY <1>1, A2AAssumption DEF Init, A2ATypeOK, CallPlaces, JobPlaces
  <1>3. ASSUME NEW t \in Tasks
        PROVE  /\ asked[t] = NoRequest /\ call[t] = "none" /\ job[t] = "none" /\ received[t] = 0
               /\ push[t]["call"] = 0 /\ push[t]["job"] = 0 /\ push[t]["cancel"] = 0
    BY DEF Init, Coroutines
  <1> QED BY <1>1, <1>2, <1>3 DEF ServerInv, Places, Pushed, Told, Coroutines

\* A new task has its states before anybody works on it.
LEMMA SendKeeps ==
  ASSUME ServerInv, NEW t \in Tasks, Send(t)
  PROVE  ServerInv'
  <1> USE DEF ServerInv
  <1>1. PICK r \in Requests :
          /\ asked' = [asked EXCEPT ![t] = r]
          /\ updates' = [updates EXCEPT ![t] =
               <<Update("submitted")>> \o (IF r.kind = "sync" THEN <<>> ELSE <<Update("working")>>)]
          /\ call' = [call EXCEPT ![t] = AfterCreation(r)]
          /\ job' = [job EXCEPT ![t] = JobAtCreation(r)]
          /\ push' = [push EXCEPT ![t]["call"] = IF AfterCreation(r) = "announcing" THEN 2 ELSE 0]
    BY DEF Send
  <1>2. ~Exists(t) /\ received' = received /\ cut' = cut /\ restarts' = restarts
    BY DEF Send
  <1>3. /\ r.kind \in {"sync", "async", "stream"} /\ r.callback \in BOOLEAN
        /\ AfterCreation(r) \in {"handling", "yielded", "announcing", "over"}
        /\ AfterCreation(r) = "handling" <=> r.kind = "sync"
        /\ AfterCreation(r) = "yielded" <=> r.kind = "stream"
        /\ AfterCreation(r) = "announcing" <=> r.kind = "async" /\ r.callback
        /\ JobAtCreation(r) = IF AfterCreation(r) = "over" THEN "delayed" ELSE "none"
    BY DEF Requests, AfterCreation, JobAtCreation
  <1>4. Update("submitted") \in Updates /\ Update("working") \in Updates
    <2>1. 0 \in 0 .. PushAttempts
      BY A2AAssumption
    <2> QED BY <2>1 DEF Update, Updates, TaskState
  <1>5. /\ updates'[t] \in Seq(Updates) /\ updates'[t] # <<>>
        /\ Len(updates'[t]) = IF r.kind = "sync" THEN 1 ELSE 2
        /\ updates'[t][1] = Update("submitted")
        /\ r.kind # "sync" => updates'[t][2] = Update("working")
    <2>1. CASE r.kind = "sync"
      <3>1. updates'[t] = <<Update("submitted")>>
        BY <1>1, <2>1 DEF A2ATypeOK
      <3> QED BY <1>4, <2>1, <3>1
    <2>2. CASE r.kind # "sync"
      <3>1. updates'[t] = <<Update("submitted")>> \o <<Update("working")>>
        BY <1>1, <2>2 DEF A2ATypeOK
      <3> QED BY <1>4, <2>2, <3>1
    <2> QED BY <2>1, <2>2
  <1>6. Current(t)' \in {1, 2} /\ Exists(t)' /\ Open(t)'
    BY <1>5 DEF Current, Exists, Open, Latest, Update, Terminal
  <1>7. /\ received[t] = 0 /\ job[t] = "none" /\ call[t] = "none" /\ asked[t] = NoRequest
        /\ push[t] \in [Coroutines -> Nat] /\ \A c \in Coroutines : push[t][c] = 0
    <2>1. push[t]["call"] = 0 /\ push[t]["job"] = 0 /\ push[t]["cancel"] = 0
      BY <1>2 DEF Places, Pushed, NoRequest, Coroutines
    <2> QED BY <1>2, <2>1 DEF Places, A2ATypeOK, Coroutines
  <1>8. \A c \in Coroutines : push'[t][c] =
          IF c = "call" /\ AfterCreation(r) = "announcing" THEN 2 ELSE 0
    BY <1>1, <1>7 DEF A2ATypeOK, Coroutines
  <1>9. A2ATypeOK'
    <2>1. /\ asked' \in [Tasks -> Requests \cup {NoRequest}]
          /\ updates' \in [Tasks -> Seq(Updates)]
          /\ call' \in [Tasks -> CallPlaces] /\ job' \in [Tasks -> JobPlaces]
      BY <1>1, <1>3, <1>5 DEF A2ATypeOK, CallPlaces, JobPlaces
    <2>2. push' \in [Tasks -> [Coroutines -> Nat]]
      BY <1>1 DEF A2ATypeOK, Coroutines
    <2>3. \A u \in Tasks : received'[u] <= Current(u)' /\ \A c \in Coroutines : push'[u][c] <= Current(u)'
      <3> TAKE u \in Tasks
      <3>1. CASE u = t
        BY <1>2, <1>3, <1>5, <1>7, <1>8, <3>1 DEF Current
      <3>2. CASE u # t
        BY <1>1, <1>2, <3>2 DEF A2ATypeOK, Current
      <3> QED BY <3>1, <3>2
    <2> QED BY <1>2, <2>1, <2>2, <2>3 DEF A2ATypeOK
  <1>10. Places(t)' /\ Pushed(t)' /\ Told(t)'
    <2>1. /\ asked'[t] = r /\ call'[t] = AfterCreation(r) /\ job'[t] = JobAtCreation(r)
          /\ received'[t] = 0
      BY <1>1, <1>2, <1>7 DEF A2ATypeOK
    <2>2. Places(t)'
      BY <1>3, <1>6, <2>1 DEF Places, Worker
    <2>3. Pushed(t)'
      <3>1. AfterCreation(r) = "announcing" => updates'[t][2].attempts = 0
        BY <1>3, <1>5 DEF Update
      <3> QED BY <1>3, <1>8, <2>1, <3>1, A2AAssumption DEF Pushed, Coroutines
    <2> QED BY <1>6, <2>2, <2>3 DEF Told
  <1>11. \A u \in Tasks \ {t} : Untouched(u)
    BY <1>1, <1>2 DEF Untouched, A2ATypeOK
  <1> QED BY <1>9, <1>10, <1>11, OthersKeep

\* A task whose coroutines move on without a new state and without a push.
LEMMA MoveKeeps ==
  ASSUME ServerInv, NEW t \in Tasks, StreamResumes(t) \/ JobWakes(t)
  PROVE  ServerInv'
  <1> USE DEF ServerInv
  <1>1. /\ UNCHANGED <<asked, updates, push, received, cut, restarts>>
        /\ call' \in [Tasks -> CallPlaces] /\ job' \in [Tasks -> JobPlaces]
        /\ \A u \in Tasks \ {t} : call'[u] = call[u] /\ job'[u] = job[u]
        /\ \/ /\ call[t] = "yielded" /\ job'[t] = job[t]
              /\ call'[t] = IF Open(t) THEN "handling" ELSE "over"
           \/ /\ job[t] = "delayed" /\ call'[t] = call[t]
              /\ job'[t] = IF Open(t) THEN "handling" ELSE "over"
    BY DEF StreamResumes, JobWakes, A2ATypeOK, CallPlaces, JobPlaces
  <1>2. A2ATypeOK'
    BY <1>1 DEF A2ATypeOK, Current
  <1>3. /\ Exists(t)' <=> Exists(t)
        /\ Open(t)' <=> Open(t)
        /\ Latest(t)' = Latest(t) /\ Current(t)' = Current(t)
        /\ Canceled(t)' <=> Canceled(t)
        /\ Open(t) => Exists(t)
    BY <1>1 DEF Exists, Open, Latest, Current, Canceled
  <1>4. Places(t)' /\ Pushed(t)' /\ Told(t)'
    BY <1>1, <1>3 DEF Places, Pushed, Told, Worker
  <1>5. \A u \in Tasks \ {t} : Untouched(u)
    BY <1>1 DEF Untouched
  <1> QED BY <1>2, <1>4, <1>5, OthersKeep

\* A new state of a task is pushed by the coroutine that made it, under a number nobody else has.
LEMMA Settled ==
  ASSUME ServerInv, NEW t \in Tasks, NEW s \in Terminal, NEW c \in Coroutines,
         Settle(t, s, c), asked' = asked, received' = received
  PROVE  /\ updates' \in [Tasks -> Seq(Updates)] /\ push' \in [Tasks -> [Coroutines -> Nat]]
         /\ \A u \in Tasks : /\ received'[u] <= Current(u)'
                             /\ \A d \in Coroutines : push'[u][d] <= Current(u)'
         /\ \A u \in Tasks \ {t} : updates'[u] = updates[u] /\ push'[u] = push[u]
         /\ \A d \in Coroutines \ {c} : push'[t][d] = push[t][d]
         /\ push'[t][c] # 0 <=> asked[t].callback
         /\ Exists(t)' /\ ~Open(t)' /\ Latest(t)'.state = s
         /\ Canceled(t)' <=> Canceled(t) \/ s = "canceled"
         /\ \A d \in Coroutines : push'[t][d] # 0 =>
              /\ asked'[t].callback
              /\ updates'[t][push'[t][d]].attempts < PushAttempts
              /\ \A e \in Coroutines : push'[t][e] = push'[t][d] => e = d
              /\ Canceled(t)' \/ received'[t] <= push'[t][d]
         /\ asked'[t].callback => \E d \in Coroutines : push'[t][d] = Current(t)'
  <1> USE DEF ServerInv
  <1> DEFINE k == Current(t) + 1
  <1>1. /\ updates' = [updates EXCEPT ![t] = Append(@, Update(s))]
        /\ push' = [push EXCEPT ![t][c] = IF asked[t].callback THEN k ELSE 0]
    BY DEF Settle
  <1>2. s \in TaskState
    BY DEF TaskState
  <1>3. /\ updates'[t] = Append(updates[t], Update(s))
        /\ \A u \in Tasks \ {t} : updates'[u] = updates[u] /\ push'[u] = push[u]
        /\ \A d \in Coroutines \ {c} : push'[t][d] = push[t][d]
        /\ push'[t][c] = IF asked[t].callback THEN k ELSE 0
    BY <1>1 DEF A2ATypeOK
  <1>4. /\ updates'[t] \in Seq(Updates)
        /\ Current(t) \in Nat /\ Current(t)' = k
        /\ Latest(t)' = Update(s) /\ Exists(t)' /\ ~Open(t)'
        /\ \A i \in 1 .. Current(t) : updates'[t][i] = updates[t][i]
        /\ Canceled(t)' <=> Canceled(t) \/ s = "canceled"
    BY <1>2, <1>3, Appended
  <1>5. Update(s).state = s /\ Update(s).attempts = 0
    BY DEF Update
  <1>6. updates'[t][k] = Update(s)
    BY <1>4 DEF Latest
  <1>7. updates' \in [Tasks -> Seq(Updates)]
    BY <1>1, <1>4 DEF A2ATypeOK
  <1>8. push' \in [Tasks -> [Coroutines -> Nat]]
    BY <1>1, <1>4 DEF A2ATypeOK
  <1>9. /\ received[t] \in Nat /\ received[t] <= Current(t)
        /\ \A d \in Coroutines : push[t][d] \in Nat /\ push[t][d] <= Current(t)
    BY DEF A2ATypeOK
  <1>10. \A u \in Tasks : /\ received'[u] <= Current(u)'
                          /\ \A d \in Coroutines : push'[u][d] <= Current(u)'
    <2> TAKE u \in Tasks
    <2>1. CASE u = t
      BY <1>3, <1>4, <1>9, <2>1
    <2>2. CASE u # t
      BY <1>3, <2>2 DEF A2ATypeOK, Current
    <2> QED BY <2>1, <2>2
  <1>11. \A d \in Coroutines : push'[t][d] # 0 =>
              /\ asked'[t].callback
              /\ updates'[t][push'[t][d]].attempts < PushAttempts
              /\ \A e \in Coroutines : push'[t][e] = push'[t][d] => e = d
              /\ Canceled(t)' \/ received'[t] <= push'[t][d]
    <2> SUFFICES ASSUME NEW d \in Coroutines, push'[t][d] # 0
                 PROVE  /\ asked'[t].callback
                        /\ updates'[t][push'[t][d]].attempts < PushAttempts
                        /\ \A e \in Coroutines : push'[t][e] = push'[t][d] => e = d
                        /\ Canceled(t)' \/ received'[t] <= push'[t][d]
      OBVIOUS
    <2>1. CASE d = c
      <3>1. asked[t].callback /\ push'[t][d] = k
        BY <1>3, <2>1
      <3>2. updates'[t][push'[t][d]].attempts < PushAttempts
        BY <1>5, <1>6, <3>1, A2AAssumption
      <3>3. \A e \in Coroutines : push'[t][e] = push'[t][d] => e = d
        BY <1>3, <1>4, <1>9, <2>1, <3>1
      <3>4. received'[t] <= push'[t][d]
        BY <1>4, <1>9, <3>1
      <3> QED BY <3>1, <3>2, <3>3, <3>4
    <2>2. CASE d # c
      <3>1. push'[t][d] = push[t][d] /\ push[t][d] \in 1 .. Current(t)
        BY <1>3, <1>9, <2>2
      <3>2. updates'[t][push[t][d]] = updates[t][push[t][d]]
        BY <1>4, <3>1
      <3>3. \A e \in Coroutines : push'[t][e] = push'[t][d] => e = d
        BY <1>3, <1>4, <3>1 DEF Pushed
      <3> QED BY <1>4, <3>1, <3>2, <3>3 DEF Pushed
    <2> QED BY <2>1, <2>2
  <1>12. k # 0
    BY <1>4
  <1>13. asked'[t].callback => push'[t][c] = Current(t)'
    BY <1>3, <1>4
  <1> QED BY <1>3, <1>4, <1>5, <1>7, <1>8, <1>10, <1>11, <1>12, <1>13

\* A handler has ended: by the call or by the job, never both.
LEMMA HandlerKeeps ==
  ASSUME ServerInv, NEW t \in Tasks, NEW s \in {"completed", "failed"}, HandlerEnds(t, s)
  PROVE  ServerInv'
  <1> USE DEF ServerInv
  <1>1. /\ asked' = asked /\ received' = received /\ cut' = cut /\ restarts' = restarts
        /\ s \in Terminal /\ s # "canceled"
        /\ "call" \in Coroutines /\ "job" \in Coroutines /\ "cancel" \in Coroutines
    BY DEF HandlerEnds, Terminal, Coroutines
  <1>2. \/ /\ call[t] = "handling" /\ Settle(t, s, "call")
           /\ call' = [call EXCEPT ![t] = AfterHandler(t)] /\ job' = job
        \/ /\ job[t] = "handling" /\ Settle(t, s, "job")
           /\ job' = [job EXCEPT ![t] = AfterHandler(t)] /\ call' = call
    BY DEF HandlerEnds
  <1>3. PICK c \in {"call", "job"} : Settle(t, s, c) /\ (c = "call" <=> call[t] = "handling")
    BY <1>2 DEF Places
  <1>4. c \in Coroutines
    BY <1>1
  <1>5. AfterHandler(t) = IF asked[t].callback THEN "reporting" ELSE "over"
    BY DEF AfterHandler
  <1>6. call' \in [Tasks -> CallPlaces] /\ job' \in [Tasks -> JobPlaces]
    BY <1>2, <1>5 DEF A2ATypeOK, CallPlaces, JobPlaces
  <1>7. A2ATypeOK'
    BY <1>1, <1>3, <1>4, <1>6, Settled DEF A2ATypeOK
  <1>8. /\ Exists(t) /\ asked'[t] = asked[t] /\ asked[t] \in Requests
    BY <1>1, <1>2 DEF Places, Open
  <1>9. /\ call[t] = "handling" => /\ call'[t] = AfterHandler(t) /\ job'[t] = "none"
        /\ call[t] # "handling" => /\ job'[t] = AfterHandler(t) /\ job[t] = "handling"
                                   /\ call'[t] = call[t] /\ call[t] \in {"over", "gone"}
    BY <1>2 DEF Places, A2ATypeOK
  <1>10. Exists(t)' /\ ~Open(t)'
    BY <1>1, <1>3, <1>4, Settled
  <1>11. Places(t)'
    BY <1>5, <1>8, <1>9, <1>10 DEF Places
  <1>12. Pushed(t)'
    <2>1. /\ push'[t]["cancel"] = push[t]["cancel"]
          /\ c # "job" => push'[t]["job"] = push[t]["job"]
          /\ c # "call" => push'[t]["call"] = push[t]["call"]
          /\ push'[t][c] # 0 <=> asked[t].callback
          /\ Canceled(t) => Canceled(t)'
      BY <1>1, <1>3, <1>4, Settled
    <2>2. \A d \in Coroutines : push'[t][d] # 0 =>
              /\ asked'[t].callback
              /\ updates'[t][push'[t][d]].attempts < PushAttempts
              /\ \A e \in Coroutines : push'[t][e] = push'[t][d] => e = d
              /\ Canceled(t)' \/ received'[t] <= push'[t][d]
      BY <1>1, <1>3, <1>4, Settled
    <2>3. /\ push'[t]["call"] # 0 <=> call'[t] \in {"announcing", "reporting"}
          /\ push'[t]["job"] # 0 <=> job'[t] = "reporting"
          /\ push'[t]["cancel"] # 0 => Canceled(t)'
      BY <1>3, <1>5, <1>9, <2>1 DEF Pushed, Places
    <2> QED BY <1>10, <2>2, <2>3 DEF Pushed
  <1>13. Told(t)'
    BY <1>1, <1>3, <1>4, Settled DEF Told
  <1>14. \A u \in Tasks \ {t} : Untouched(u)
    <2>1. \A u \in Tasks \ {t} : updates'[u] = updates[u] /\ push'[u] = push[u]
      BY <1>1, <1>3, <1>4, Settled
    <2> QED BY <1>1, <1>2, <2>1 DEF Untouched, A2ATypeOK
  <1> QED BY <1>7, <1>11, <1>12, <1>13, <1>14, OthersKeep

\* Cancelling stops the job where it is; the creating call is not stopped.
LEMMA CancelKeeps ==
  ASSUME ServerInv, NEW t \in Tasks, Cancel(t)
  PROVE  ServerInv'
  <1> USE DEF ServerInv
  <1>1. /\ asked' = asked /\ received' = received /\ cut' = cut /\ restarts' = restarts
        /\ call' = call /\ job' = [job EXCEPT ![t] = StoppedJob(t)]
        /\ Settle(t, "canceled", "cancel") /\ Open(t) /\ Known(t)
    BY DEF Cancel
  <1>2. /\ "canceled" \in Terminal
        /\ "call" \in Coroutines /\ "job" \in Coroutines /\ "cancel" \in Coroutines
    BY DEF Terminal, Coroutines
  <1>3. Exists(t) /\ StoppedJob(t) = IF job[t] = "none" THEN "none" ELSE "over"
    BY <1>1 DEF Open, StoppedJob
  <1>4. A2ATypeOK'
    <2>1. job' \in [Tasks -> JobPlaces]
      BY <1>1, <1>3 DEF A2ATypeOK, JobPlaces
    <2> QED BY <1>1, <1>2, <2>1, Settled DEF A2ATypeOK
  <1>5. Exists(t)' /\ ~Open(t)' /\ Latest(t)'.state = "canceled" /\ Canceled(t)'
    BY <1>1, <1>2, Settled
  <1>6. call[t] = "handling" => asked[t].kind = "stream"
    BY <1>1 DEF Known, Places
  <1>7. job'[t] = StoppedJob(t) /\ job[t] # "reporting" /\ call[t] # "reporting"
    BY <1>1 DEF Places, A2ATypeOK
  <1>8. Places(t)'
    BY <1>1, <1>3, <1>5, <1>6, <1>7 DEF Places
  <1>9. Pushed(t)'
    <2>1. push'[t]["call"] = push[t]["call"] /\ push'[t]["job"] = push[t]["job"]
      BY <1>1, <1>2, Settled
    <2>2. \A d \in Coroutines : push'[t][d] # 0 =>
              /\ asked'[t].callback
              /\ updates'[t][push'[t][d]].attempts < PushAttempts
              /\ \A e \in Coroutines : push'[t][e] = push'[t][d] => e = d
              /\ Canceled(t)' \/ received'[t] <= push'[t][d]
      BY <1>1, <1>2, Settled
    <2> QED BY <1>1, <1>3, <1>5, <1>7, <2>1, <2>2 DEF Pushed
  <1>10. Told(t)'
    BY <1>1, <1>2, Settled DEF Told
  <1>11. \A u \in Tasks \ {t} : Untouched(u)
    <2>1. \A u \in Tasks \ {t} : updates'[u] = updates[u] /\ push'[u] = push[u]
      BY <1>1, <1>2, Settled
    <2> QED BY <1>1, <2>1 DEF Untouched, A2ATypeOK
  <1> QED BY <1>4, <1>8, <1>9, <1>10, <1>11, OthersKeep

\* Where the coroutines stand after a push that is the last of its update.
LEMMA PushOver ==
  ASSUME ServerInv, NEW t \in Tasks, NEW c \in Coroutines, push[t][c] # 0, PushEnds(t, c)
  PROVE  /\ push' \in [Tasks -> [Coroutines -> Nat]]
         /\ call' \in [Tasks -> CallPlaces] /\ job' \in [Tasks -> JobPlaces]
         /\ \A u \in Tasks \ {t} : push'[u] = push[u] /\ call'[u] = call[u] /\ job'[u] = job[u]
         /\ push'[t][c] = 0 /\ \A d \in Coroutines \ {c} : push'[t][d] = push[t][d]
         /\ c = "call" => /\ call'[t] = "over" /\ call[t] \in {"announcing", "reporting"}
                          /\ job'[t] = IF call[t] = "announcing" THEN "delayed" ELSE job[t]
         /\ c = "job" => call'[t] = call[t] /\ job'[t] = "over" /\ job[t] = "reporting"
         /\ c = "cancel" => call'[t] = call[t] /\ job'[t] = job[t] /\ ~Open(t)
  <1> USE DEF ServerInv
  <1>1. push' \in [Tasks -> [Coroutines -> Nat]]
    BY DEF PushEnds, A2ATypeOK
  <1>2. call' \in [Tasks -> CallPlaces]
    BY DEF PushEnds, A2ATypeOK, CallPlaces
  <1>3. job' \in [Tasks -> JobPlaces]
    BY DEF PushEnds, A2ATypeOK, JobPlaces
  <1>4. /\ \A u \in Tasks \ {t} : push'[u] = push[u] /\ call'[u] = call[u] /\ job'[u] = job[u]
        /\ push'[t][c] = 0 /\ \A d \in Coroutines \ {c} : push'[t][d] = push[t][d]
    BY DEF PushEnds, A2ATypeOK
  <1>5. /\ c = "call" => /\ call'[t] = "over" /\ call[t] \in {"announcing", "reporting"}
                         /\ job'[t] = IF call[t] = "announcing" THEN "delayed" ELSE job[t]
        /\ c = "job" => call'[t] = call[t] /\ job'[t] = "over" /\ job[t] = "reporting"
        /\ c = "cancel" => call'[t] = call[t] /\ job'[t] = job[t] /\ ~Open(t)
    BY DEF PushEnds, A2ATypeOK, Pushed
  <1> QED BY <1>1, <1>2, <1>3, <1>4, <1>5

\* An attempt at a push, made by the only coroutine that pushes this update.
LEMMA PushKeeps ==
  ASSUME ServerInv, NEW t \in Tasks, NEW c \in Coroutines, Pushes(t, c)
  PROVE  ServerInv'
  <1> USE DEF ServerInv
  <1> DEFINE i == push[t][c]
  <1>1. /\ i # 0 /\ asked' = asked /\ cut' = cut /\ restarts' = restarts
        /\ received' = received \/ received' = [received EXCEPT ![t] = i]
    BY DEF Pushes, PushAccepted, PushFails
  <1>2. PICK ok \in BOOLEAN :
          /\ Attempted(t, i, ok)
          /\ \/ PushEnds(t, c) /\ (ok \/ updates[t][i].attempts + 1 = PushAttempts)
             \/ UNCHANGED <<push, call, job>> /\ updates[t][i].attempts + 1 # PushAttempts
    BY DEF Pushes, PushAccepted, PushFails, GivesUp
  <1>3. /\ Current(t) \in Nat /\ i \in Nat /\ i <= Current(t)
        /\ received[t] \in Nat /\ received[t] <= Current(t)
    BY DEF A2ATypeOK, Current
  <1>4. i \in 1 .. Current(t)
    BY <1>1, <1>3
  <1>5. updates[t][i].attempts < PushAttempts /\ asked[t].callback
    BY <1>1 DEF Pushed
  <1> HIDE DEF i
  <1>6. /\ updates' \in [Tasks -> Seq(Updates)]
        /\ Current(t)' = Current(t)
        /\ \A u \in Tasks \ {t} : updates'[u] = updates[u]
        /\ \A j \in 1 .. Current(t) : /\ updates'[t][j].state = updates[t][j].state
                                      /\ j # i => updates'[t][j] = updates[t][j]
        /\ updates'[t][i].attempts = updates[t][i].attempts + 1
        /\ updates'[t][i].delivered = ok
        /\ Exists(t)' <=> Exists(t)
        /\ Open(t)' <=> Open(t)
        /\ Exists(t) => Latest(t)'.state = Latest(t).state
        /\ Canceled(t)' <=> Canceled(t)
    BY <1>2, <1>4, <1>5, Accounted
  <1>7. Exists(t)
    BY <1>4 DEF Exists, Current
  <1>8. /\ push' \in [Tasks -> [Coroutines -> Nat]]
        /\ call' \in [Tasks -> CallPlaces] /\ job' \in [Tasks -> JobPlaces]
        /\ \A u \in Tasks \ {t} : push'[u] = push[u] /\ call'[u] = call[u] /\ job'[u] = job[u]
        /\ \A d \in Coroutines \ {c} : push'[t][d] = push[t][d]
        /\ push'[t][c] \in {0, i}
    BY <1>1, <1>2, PushOver DEF A2ATypeOK, i
  <1>9. /\ received' \in [Tasks -> Nat]
        /\ received'[t] \in {received[t], i}
        /\ \A u \in Tasks \ {t} : received'[u] = received[u]
    BY <1>1, <1>3 DEF A2ATypeOK
  <1>10. A2ATypeOK'
    <2>1. \A u \in Tasks : /\ received'[u] <= Current(u)'
                           /\ \A d \in Coroutines : push'[u][d] <= Current(u)'
      <3> TAKE u \in Tasks
      <3>1. CASE u = t
        <4>1. received'[t] <= Current(t)'
          BY <1>3, <1>6, <1>9
        <4>2. \A d \in Coroutines : push'[t][d] <= Current(t)'
          <5>1. \A d \in Coroutines : push[t][d] <= Current(t)
            BY DEF A2ATypeOK
          <5>2. push'[t][c] <= Current(t)'
            BY <1>3, <1>6, <1>8
          <5>3. \A d \in Coroutines \ {c} : push'[t][d] <= Current(t)'
            BY <1>6, <1>8, <5>1
          <5> QED BY <5>2, <5>3
        <4> QED BY <3>1, <4>1, <4>2
      <3>2. CASE u # t
        <4>1. Current(u)' = Current(u)
          BY <1>6, <3>2 DEF Current
        <4>2. received'[u] = received[u] /\ push'[u] = push[u]
          BY <1>8, <1>9, <3>2
        <4> QED BY <4>1, <4>2 DEF A2ATypeOK
      <3> QED BY <3>1, <3>2
    <2> QED BY <1>1, <1>6, <1>8, <1>9, <2>1 DEF A2ATypeOK
  <1>11. Places(t)'
    <2>1. CASE PushEnds(t, c)
      <3>1. CASE c = "call"
        <4>1. /\ call'[t] = "over" /\ call[t] \in {"announcing", "reporting"} /\ job[t] = "none"
              /\ job'[t] = IF call[t] = "announcing" THEN "delayed" ELSE "none"
          BY <1>1, <2>1, <3>1, PushOver DEF Places, i
        <4> QED BY <1>1, <1>6, <1>7, <4>1 DEF Places, Worker
      <3>2. CASE c = "job"
        <4>1. /\ call'[t] = call[t] /\ call[t] \in {"over", "gone"}
              /\ job'[t] = "over" /\ job[t] = "reporting" /\ ~Open(t)
          BY <1>1, <2>1, <3>2, PushOver DEF Places, i
        <4> QED BY <1>1, <1>6, <1>7, <4>1 DEF Places
      <3>3. CASE c = "cancel"
        <4>1. call'[t] = call[t] /\ job'[t] = job[t] /\ ~Open(t)
          BY <1>1, <2>1, <3>3, PushOver DEF i
        <4> QED BY <1>1, <1>6, <1>7, <4>1 DEF Places
      <3> QED BY <3>1, <3>2, <3>3 DEF Coroutines
    <2>2. CASE UNCHANGED <<push, call, job>>
      <3>1. call[t] # "handling" \/ asked[t].kind # "sync"
        <4>1. c \in {"call", "job", "cancel"}
          BY DEF Coroutines
        <4> QED BY <1>1, <4>1 DEF Places, Pushed, i
      <3> QED BY <1>1, <1>6, <1>7, <2>2, <3>1 DEF Places
    <2> QED BY <1>2, <2>1, <2>2
  <1>12. Pushed(t)'
    <2>1. /\ push'[t]["call"] # 0 <=> call'[t] \in {"announcing", "reporting"}
          /\ push'[t]["job"] # 0 <=> job'[t] = "reporting"
          /\ push'[t]["cancel"] # 0 => ~Open(t)' /\ Canceled(t)'
      <3>1. CASE PushEnds(t, c)
        <4>1. push'[t]["cancel"] # 0 => push[t]["cancel"] # 0
          BY <1>1, <3>1, PushOver DEF Coroutines, i
        <4>2. call[t] = "announcing" => job[t] = "none"
          BY DEF Places
        <4> QED BY <1>1, <1>6, <3>1, <4>1, <4>2, PushOver DEF Pushed, i, Coroutines
      <3>2. CASE UNCHANGED <<push, call, job>>
        BY <1>6, <3>2 DEF Pushed
      <3> QED BY <1>2, <3>1, <3>2
    <2>2. ASSUME NEW d \in Coroutines, push'[t][d] # 0
          PROVE  /\ asked'[t].callback
                 /\ updates'[t][push'[t][d]].attempts < PushAttempts
                 /\ \A e \in Coroutines : push'[t][e] = push'[t][d] => e = d
                 /\ Canceled(t)' \/ received'[t] <= push'[t][d]
      <3>1. push'[t][d] = push[t][d] /\ push[t][d] \in 1 .. Current(t)
        BY <1>1, <1>8, <2>2 DEF A2ATypeOK, i
      <3>2. \A e \in Coroutines : push[t][e] = push[t][d] => e = d
        BY <2>2, <3>1 DEF Pushed
      <3>3. \A e \in Coroutines : push'[t][e] = push'[t][d] => e = d
        BY <1>8, <2>2, <3>1, <3>2 DEF i
      <3>4. asked'[t].callback
        BY <1>1, <1>5
      <3>5. updates'[t][push'[t][d]].attempts < PushAttempts
        <4>1. CASE d = c
          <5>1. updates[t][i].attempts + 1 # PushAttempts
            BY <1>1, <1>2, <2>2, <4>1, PushOver DEF i
          <5>2. updates'[t][push'[t][d]].attempts = updates[t][i].attempts + 1
            BY <1>6, <3>1, <4>1 DEF i
          <5>3. updates[t][i].attempts \in Nat /\ PushAttempts \in Nat
            <6>1. updates[t] \in Seq(Updates) /\ i \in 1 .. Len(updates[t])
              BY <1>4 DEF A2ATypeOK, Current
            <6>2. updates[t][i] \in Updates
              BY <6>1
            <6> QED BY <6>2, A2AAssumption DEF Updates
          <5> QED BY <1>5, <5>1, <5>2, <5>3
        <4>2. CASE d # c
          <5>1. push[t][d] # i
            BY <3>2, <4>2 DEF i
          <5>2. updates'[t][push[t][d]] = updates[t][push[t][d]]
            BY <1>6, <3>1, <5>1
          <5> QED BY <2>2, <3>1, <5>2 DEF Pushed
        <4> QED BY <4>1, <4>2
      <3>6. Canceled(t)' \/ received'[t] <= push'[t][d]
        <4>1. CASE received'[t] = received[t]
          BY <1>6, <2>2, <3>1, <4>1 DEF Pushed
        <4>2. CASE received'[t] = i /\ d = c
          BY <1>3, <3>1, <4>2 DEF i
        <4>3. CASE d # c
          <5>1. push[t]["call"] = 0 \/ push[t]["job"] = 0
            BY DEF Pushed, Places
          <5>2. c = "cancel" \/ d = "cancel"
            BY <1>1, <2>2, <3>1, <4>3, <5>1 DEF Coroutines, i
          <5>3. push[t]["cancel"] # 0
            BY <1>1, <2>2, <3>1, <5>2 DEF i
          <5> QED BY <1>6, <5>3 DEF Pushed
        <4> QED BY <1>9, <4>1, <4>2, <4>3
      <3> QED BY <3>3, <3>4, <3>5, <3>6
    <2> QED BY <2>1, <2>2 DEF Pushed
  <1>13. Told(t)'
    <2> SUFFICES ASSUME t \notin cut, ~Open(t)
                 PROVE  \/ Latest(t)'.delivered
                        \/ Latest(t)'.attempts = PushAttempts
                        \/ \E d \in Coroutines : push'[t][d] = Current(t)'
      BY <1>1, <1>6 DEF Told
    <2>1. Latest(t)' = updates'[t][Current(t)]
      BY <1>6 DEF Latest
    <2>2. CASE i = Current(t)
      BY <1>2, <1>6, <2>1, <2>2 DEF i
    <2>3. CASE i # Current(t)
      <3>1. Latest(t)' = Latest(t)
        BY <1>3, <1>4, <1>6, <2>1, <2>3 DEF Latest
      <3>2. \/ Latest(t).delivered
            \/ Latest(t).attempts = PushAttempts
            \/ \E d \in Coroutines : push[t][d] = Current(t)
        BY <1>5, <1>7 DEF Told
      <3>3. \A d \in Coroutines : push[t][d] = Current(t) => push'[t][d] = Current(t)'
        BY <1>6, <1>8, <2>3 DEF i
      <3> QED BY <3>1, <3>2, <3>3
    <2> QED BY <2>2, <2>3
  <1>14. \A u \in Tasks \ {t} : Untouched(u)
    BY <1>1, <1>6, <1>8, <1>9 DEF Untouched
  <1> QED BY <1>10, <1>11, <1>12, <1>13, <1>14, OthersKeep

\* A client that leaves takes with it what its call was pushing.
LEMMA LeaveKeeps ==
  ASSUME ServerInv, NEW t \in Tasks, ClientLeaves(t) \/ CancellerLeaves(t)
  PROVE  ServerInv'
  <1> USE DEF ServerInv
  <1>1. PICK c \in {"call", "cancel"} :
          /\ push' = [push EXCEPT ![t][c] = 0]
          /\ cut' = IF push[t][c] # 0 THEN cut \cup {t} ELSE cut
          /\ UNCHANGED <<asked, updates, job, received, restarts>>
          /\ c = "call" => /\ call[t] \in {"yielded", "handling", "reporting"}
                           /\ call' = [call EXCEPT ![t] = "dropped"]
          /\ c = "cancel" => call' = call
    BY DEF ClientLeaves, CancellerLeaves
  <1>2. c \in Coroutines
    BY DEF Coroutines
  <1>3. /\ \A u \in Tasks \ {t} : push'[u] = push[u]
        /\ push'[t][c] = 0 /\ \A d \in Coroutines \ {c} : push'[t][d] = push[t][d]
        /\ push' \in [Tasks -> [Coroutines -> Nat]]
    BY <1>1, <1>2 DEF A2ATypeOK
  <1>4. /\ call' \in [Tasks -> CallPlaces]
        /\ \A u \in Tasks \ {t} : call'[u] = call[u] /\ (u \in cut' <=> u \in cut)
        /\ c = "call" => call'[t] = "dropped"
        /\ c = "cancel" => call'[t] = call[t]
    BY <1>1 DEF A2ATypeOK, CallPlaces
  <1>5. A2ATypeOK'
    <2>1. \A u \in Tasks : Current(u)' = Current(u) /\ Current(u) \in Nat
      BY <1>1 DEF Current, A2ATypeOK
    <2>2. \A u \in Tasks : \A d \in Coroutines : push'[u][d] \in {0, push[u][d]}
      BY <1>3
    <2>3. cut' \subseteq Tasks
      BY <1>1 DEF A2ATypeOK
    <2> QED BY <1>1, <1>3, <1>4, <2>1, <2>2, <2>3 DEF A2ATypeOK
  <1>6. /\ Exists(t)' <=> Exists(t)
        /\ Open(t)' <=> Open(t)
        /\ Latest(t)' = Latest(t) /\ Current(t)' = Current(t)
        /\ Canceled(t)' <=> Canceled(t)
    BY <1>1 DEF Exists, Open, Latest, Current, Canceled
  <1>7. Places(t)'
    BY <1>1, <1>4, <1>6 DEF Places
  <1>8. Pushed(t)'
    <2>1. \A d \in Coroutines : push'[t][d] # 0 => d # c /\ push'[t][d] = push[t][d]
      BY <1>3
    <2>2. \A d \in Coroutines : push'[t][d] \in {0, push[t][d]}
      BY <1>3
    <2>3. \A d \in Coroutines : push'[t][d] # 0 =>
              /\ asked'[t].callback
              /\ updates'[t][push'[t][d]].attempts < PushAttempts
              /\ \A e \in Coroutines : push'[t][e] = push'[t][d] => e = d
              /\ Canceled(t)' \/ received'[t] <= push'[t][d]
      BY <1>1, <1>6, <2>1, <2>2 DEF Pushed
    <2>4. /\ push'[t]["call"] # 0 <=> call'[t] \in {"announcing", "reporting"}
          /\ push'[t]["job"] # 0 <=> job'[t] = "reporting"
          /\ push'[t]["cancel"] # 0 => ~Open(t)' /\ Canceled(t)'
      BY <1>1, <1>3, <1>4, <1>6 DEF Pushed, Coroutines
    <2> QED BY <2>3, <2>4 DEF Pushed
  <1>9. Told(t)'
    <2>1. CASE push[t][c] # 0
      BY <1>1, <2>1 DEF Told
    <2>2. CASE push[t][c] = 0
      BY <1>1, <1>3, <1>6, <2>2 DEF Told
    <2> QED BY <2>1, <2>2
  <1>10. \A u \in Tasks \ {t} : Untouched(u)
    BY <1>1, <1>3, <1>4 DEF Untouched
  <1> QED BY <1>5, <1>7, <1>8, <1>9, <1>10, OthersKeep

\* The next process gives every open task a job, and no push survives the last one.
LEMMA RestartKeeps ==
  ASSUME ServerInv, Restart
  PROVE  ServerInv'
  <1> USE DEF ServerInv
  <1>1. /\ asked' = asked /\ received' = received
        /\ restarts < MaxRestarts /\ restarts' = restarts + 1
        /\ cut' = cut \cup {t \in Tasks : Pushing(t)}
        /\ \A t \in Tasks :
             /\ updates'[t] = IF Open(t) THEN Append(updates[t], Update("working")) ELSE updates[t]
             /\ job'[t] = IF Open(t) THEN "delayed" ELSE "none"
             /\ call'[t] = IF call[t] \in {"none", "over"} THEN call[t] ELSE "gone"
             /\ \A c \in Coroutines : push'[t][c] = 0
    BY DEF Restart, Recoverable
  <1>2. "working" \in TaskState /\ "working" \notin Terminal /\ "working" # "canceled"
    BY DEF TaskState, Terminal
  <1>3. ASSUME NEW t \in Tasks
        PROVE  /\ updates'[t] \in Seq(Updates) /\ Current(t)' >= Current(t) /\ Current(t)' \in Nat
               /\ Exists(t)' <=> Exists(t)
               /\ Open(t)' <=> Open(t)
               /\ ~Open(t) => Latest(t)' = Latest(t) /\ Current(t)' = Current(t)
               /\ Canceled(t)' <=> Canceled(t)
    <2>1. CASE Open(t)
      <3>1. updates'[t] = Append(updates[t], Update("working")) /\ Exists(t)
        BY <1>1, <2>1 DEF Open
      <3>2. /\ updates'[t] \in Seq(Updates)
            /\ Current(t) \in Nat /\ Current(t)' = Current(t) + 1
            /\ Exists(t)' /\ Open(t)'
            /\ Canceled(t)' <=> Canceled(t)
        BY <1>2, <3>1, Appended
      <3> QED BY <2>1, <3>1, <3>2
    <2>2. CASE ~Open(t)
      <3>1. updates'[t] = updates[t] /\ updates[t] \in Seq(Updates) /\ Len(updates[t]) \in Nat
        BY <1>1, <2>2 DEF A2ATypeOK
      <3>2. Len(updates[t]) >= Len(updates[t])
        BY <3>1
      <3> QED BY <3>1, <3>2 DEF Exists, Open, Latest, Current, Canceled
    <2> QED BY <2>1, <2>2
  <1>4. A2ATypeOK'
    <2>1. updates' \in [Tasks -> Seq(Updates)] /\ push' \in [Tasks -> [Coroutines -> Nat]]
      BY <1>3 DEF Restart, A2ATypeOK
    <2>2. call' \in [Tasks -> CallPlaces] /\ job' \in [Tasks -> JobPlaces]
      BY DEF Restart, A2ATypeOK, CallPlaces, JobPlaces
    <2>3. cut' \subseteq Tasks /\ restarts' \in 0 .. MaxRestarts
      BY <1>1, A2AAssumption DEF A2ATypeOK
    <2>4. \A t \in Tasks : /\ received'[t] <= Current(t)'
                           /\ \A c \in Coroutines : push'[t][c] <= Current(t)'
      <3> TAKE t \in Tasks
      <3>1. received[t] \in Nat /\ received[t] <= Current(t) /\ Current(t) \in Nat
        BY DEF A2ATypeOK, Current
      <3> QED BY <1>1, <1>3, <3>1
    <2> QED BY <1>1, <2>1, <2>2, <2>3, <2>4 DEF A2ATypeOK
  <1>5. ASSUME NEW t \in Tasks
        PROVE  Places(t)' /\ Pushed(t)' /\ Told(t)'
    <2>1. Places(t)'
      <3>1. /\ call'[t] \in {"none", "over", "gone"} /\ (call'[t] = "none" <=> call[t] = "none")
            /\ job'[t] = IF Open(t) THEN "delayed" ELSE "none"
            /\ asked'[t] = asked[t] /\ received'[t] = received[t]
        BY <1>1
      <3>2. Open(t) => Exists(t)
        BY DEF Open
      <3>3. (Open(t)' <=> Open(t)) /\ (Exists(t)' <=> Exists(t))
        BY <1>3
      <3> QED BY <3>1, <3>2, <3>3 DEF Places, Worker
    <2>2. Pushed(t)'
      BY <1>1 DEF Pushed, Coroutines
    <2>3. Told(t)'
      <3>1. CASE Pushing(t)
        BY <1>1, <3>1 DEF Told
      <3>2. CASE ~Pushing(t)
        <4>1. \A c \in Coroutines : push[t][c] = 0
          BY <3>2 DEF Pushing
        <4>2. Exists(t) => Current(t) # 0
          BY DEF Exists, Current, A2ATypeOK
        <4> QED BY <1>1, <1>3, <4>1, <4>2 DEF Told
      <3> QED BY <3>1, <3>2
    <2> QED BY <2>1, <2>2, <2>3
  <1> QED BY <1>4, <1>5

\* Every step keeps the invariant.
LEMMA NextKeeps ==
  ASSUME ServerInv, [Next]_vars
  PROVE  ServerInv'
  <1>1. ASSUME NEW t \in Tasks, Send(t) PROVE ServerInv'
    BY <1>1, SendKeeps
  <1>2. ASSUME NEW t \in Tasks, Runs(t) PROVE ServerInv'
    BY <1>2, MoveKeeps, HandlerKeeps DEF Runs
  <1>3. ASSUME NEW t \in Tasks, Cancel(t) PROVE ServerInv'
    BY <1>3, CancelKeeps
  <1>4. ASSUME NEW t \in Tasks, NEW c \in Coroutines, Pushes(t, c) PROVE ServerInv'
    BY <1>4, PushKeeps
  <1>5. ASSUME NEW t \in Tasks, ClientLeaves(t) \/ CancellerLeaves(t) PROVE ServerInv'
    BY <1>5, LeaveKeeps
  <1>6. CASE Restart
    BY <1>6, RestartKeeps
  <1>7. CASE UNCHANGED vars
    BY <1>7 DEF ServerInv, A2ATypeOK, Places, Pushed, Told, vars,
                Exists, Open, Latest, Current, Canceled
  <1> QED BY <1>1, <1>2, <1>3, <1>4, <1>5, <1>6, <1>7 DEF Next

\* Where coroutines stand together and what they push is as stated, always.
THEOREM ServerInvariance == Spec => []ServerInv
  <1>1. Init => ServerInv
    BY InitKeeps
  <1>2. ServerInv /\ [Next]_vars => ServerInv'
    BY NextKeeps
  <1> QED BY <1>1, <1>2, PTL DEF Spec

-----------------------------------------------------------------------------
(* What follows from it.                                                    *)

\* The states, places and pushes of every task have their types, and no update gets more
\* attempts than push_attempts.
THEOREM A2ATyping == Spec => []A2ATypeOK
  <1>1. ServerInv => A2ATypeOK
    BY DEF ServerInv
  <1> QED BY <1>1, ServerInvariance, PTL

\* An open task has exactly one coroutine that will end it, unless its client has left.
THEOREM EveryTaskHasOneWorker == Spec => []OneWorker
  <1>1. ASSUME ServerInv, NEW t \in Tasks
        PROVE  /\ Open(t) => IF call[t] = "dropped" THEN Workers(t) = {}
                                                     ELSE Cardinality(Workers(t)) = 1
               /\ Workers(t) # {"call", "job"}
    <2>1. call[t] \in CallPlaces /\ Places(t)
      BY <1>1 DEF ServerInv, A2ATypeOK
    <2>2. /\ "call" \in Workers(t) <=> call[t] \in {"announcing", "yielded", "handling"}
          /\ "job" \in Workers(t) <=> job[t] \in Worker
          /\ Workers(t) \subseteq {"call", "job"}
      BY DEF Workers, Worker
    <2>3. ~("call" \in Workers(t) /\ "job" \in Workers(t))
      BY <2>1, <2>2 DEF Places, Worker
    <2>4. ASSUME Open(t), call[t] # "dropped"
          PROVE  Cardinality(Workers(t)) = 1
      <3>1. "call" \in Workers(t) \/ "job" \in Workers(t)
        BY <2>1, <2>2, <2>4 DEF Places, Open, CallPlaces
      <3>2. Workers(t) = {"call"} \/ Workers(t) = {"job"}
        BY <2>2, <2>3, <3>1
      <3> QED BY <3>2, FS_Singleton
    <2>5. ASSUME call[t] = "dropped"
          PROVE  Workers(t) = {}
      BY <2>1, <2>2, <2>5 DEF Places, Worker
    <2> QED BY <2>2, <2>3, <2>4, <2>5
  <1>2. ServerInv => OneWorker
    BY <1>1 DEF OneWorker
  <1> QED BY <1>2, ServerInvariance, PTL

\* A final state has been delivered or given up once nobody pushes it any more, unless the
\* push ended with its coroutine.
THEOREM QuietTasksAreTold == Spec => []QuietMeansTold
  <1>1. ServerInv => QuietMeansTold
    <2> SUFFICES ASSUME ServerInv, NEW t \in Tasks, t \notin cut,
                        Exists(t), ~Open(t), asked[t].callback, ~Pushing(t)
                 PROVE  Latest(t).delivered \/ Latest(t).attempts = PushAttempts
      BY DEF QuietMeansTold
    <2>1. Current(t) # 0
      BY DEF ServerInv, A2ATypeOK, Exists, Current
    <2> QED BY <2>1 DEF ServerInv, Told, Pushing
  <1> QED BY <1>1, ServerInvariance, PTL

\* A webhook hears of older states after newer ones only of a task that was cancelled.
THEOREM NewsComesInOrder == Spec => NewsInOrder
  <1>1. ASSUME ServerInv, [Next]_vars, NEW t \in Tasks, received'[t] < received[t]
        PROVE  Canceled(t)
    <2>1. received[t] \in Nat /\ Tasks = DOMAIN received
      BY <1>1 DEF ServerInv, A2ATypeOK
    <2>2. received'[t] # received[t]
      BY <1>1, <2>1
    <2>3. PICK c \in Coroutines : push[t][c] # 0 /\ received'[t] = push[t][c]
      BY <1>1, <2>2 DEF Next, vars, Send, Runs, StreamResumes, JobWakes, HandlerEnds, Cancel,
           ClientLeaves, CancellerLeaves, Restart, Pushes, PushAccepted, PushFails,
           ServerInv, A2ATypeOK
    <2> QED BY <1>1, <2>1, <2>3 DEF ServerInv, Pushed, A2ATypeOK
  <1>2. ServerInv /\ [Next]_vars =>
          [\A t \in Tasks : received'[t] < received[t] =>
             \E i \in 1 .. Current(t) : updates[t][i].state = "canceled"]_vars
    BY <1>1 DEF Canceled
  <1> QED BY <1>2, ServerInvariance, PTL DEF Spec, NewsInOrder

-----------------------------------------------------------------------------
(* The server implements RemoteTask.                                        *)

\* What RemoteTask says of a task, in the terms of the server.
LEMMA Reports ==
  ASSUME ServerInv, NEW t \in Tasks
  PROVE  /\ StateOf(t) = "absent" <=> ~Exists(t)
         /\ StateOf(t) \in {"submitted", "working"} <=> Open(t)
         /\ Exists(t) => StateOf(t) = Latest(t).state
  <1>1. ASSUME Exists(t)
        PROVE  Latest(t).state \in TaskState
    <2>1. updates[t] \in Seq(Updates) /\ updates[t] # <<>>
      BY <1>1 DEF ServerInv, A2ATypeOK, Exists
    <2>2. Len(updates[t]) \in 1 .. Len(updates[t])
      BY <2>1
    <2>3. Latest(t) \in Updates
      BY <2>1, <2>2 DEF Latest, Current
    <2> QED BY <2>3 DEF Updates
  <1> QED BY <1>1 DEF StateOf, Open, TaskState, Terminal

\* A step that changes no task as a client sees it.
LEMMA Stutters ==
  ASSUME \A t \in Tasks : /\ StateOf(t)' = StateOf(t)
                          /\ asked'[t].kind = asked[t].kind
                          /\ call'[t] = "dropped" <=> call[t] = "dropped"
  PROVE  UNCHANGED Promised!remoteVars
BY DEF Promised!remoteVars

\* A step that is one task's change of state.
LEMMA ChangesOne ==
  ASSUME NEW t \in Tasks, NEW s, StateOf(t)' = s,
         \A u \in Tasks \ {t} : StateOf(u)' = StateOf(u),
         \A u \in Tasks : call'[u] = "dropped" <=> call[u] = "dropped",
         \A u \in Tasks : asked'[u] = asked[u]
  PROVE  /\ StateOf(t) \in {"submitted", "working"} => Promised!End(t, s)
         /\ StateOf(t) = "canceled" /\ asked[t].kind = "stream" => Promised!Outrun(t, s)
BY DEF Promised!End, Promised!Outrun, Promised!IsOpen

\* A new task is a new task of the promise, and its first answers keep it so.
LEMMA SendCreates ==
  ASSUME ServerInv, NEW t \in Tasks, Send(t)
  PROVE  Promised!Next
  <1> USE DEF ServerInv
  <1>1. PICK r \in Requests :
          /\ asked' = [asked EXCEPT ![t] = r]
          /\ updates' = [updates EXCEPT ![t] =
               <<Update("submitted")>> \o (IF r.kind = "sync" THEN <<>> ELSE <<Update("working")>>)]
          /\ call' = [call EXCEPT ![t] = AfterCreation(r)]
    BY DEF Send
  <1>2. ~Exists(t) /\ AfterCreation(r) # "dropped"
    BY DEF Send, AfterCreation
  <1>3. asked[t] = NoRequest /\ call[t] # "dropped" /\ StateOf(t) = "absent"
    BY <1>2 DEF Places, StateOf
  <1>4. asked'[t] = r /\ call'[t] # "dropped"
    BY <1>1, <1>2 DEF A2ATypeOK
  <1> DEFINE s == IF r.kind = "sync" THEN "submitted" ELSE "working"
             isStream == r.kind = "stream"
  <1>5. StateOf(t)' = s
    <2>1. CASE r.kind = "sync"
      <3>1. updates'[t] = <<Update("submitted")>>
        BY <1>1, <2>1 DEF A2ATypeOK
      <3>2. updates'[t] # <<>> /\ Len(updates'[t]) = 1 /\ updates'[t][1] = Update("submitted")
        BY <3>1
      <3> QED BY <2>1, <3>2 DEF StateOf, Exists, Latest, Current, Update
    <2>2. CASE r.kind # "sync"
      <3>1. updates'[t] = <<Update("submitted")>> \o <<Update("working")>>
        BY <1>1, <2>2 DEF A2ATypeOK
      <3>2. updates'[t] # <<>> /\ Len(updates'[t]) = 2 /\ updates'[t][2] = Update("working")
        BY <3>1
      <3> QED BY <2>2, <3>2 DEF StateOf, Exists, Latest, Current, Update
    <2> QED BY <2>1, <2>2
  <1>6. ASSUME NEW u \in Tasks \ {t}
        PROVE  /\ StateOf(u)' = StateOf(u) /\ asked'[u] = asked[u] /\ call'[u] = call[u]
    BY <1>1 DEF StateOf, Exists, Latest, Current, A2ATypeOK
  <1>7. s \in {"submitted", "working"} /\ isStream \in BOOLEAN
    OBVIOUS
  <1>8. Promised!Create(t, s, isStream)
    <2>1. NoRequest.kind # "stream"
      BY DEF NoRequest
    <2>2. {u \in Tasks : asked'[u].kind = "stream"} =
            IF isStream THEN {u \in Tasks : asked[u].kind = "stream"} \cup {t}
                        ELSE {u \in Tasks : asked[u].kind = "stream"}
      BY <1>3, <1>4, <1>6, <2>1
    <2>3. {u \in Tasks : call'[u] = "dropped"} = {u \in Tasks : call[u] = "dropped"}
      BY <1>3, <1>4, <1>6
    <2> HIDE DEF s, isStream
    <2> QED BY <1>3, <1>5, <1>6, <2>2, <2>3 DEF Promised!Create
  <1> HIDE DEF s, isStream
  <1> QED BY <1>7, <1>8 DEF Promised!Next

\* A coroutine that only announces or moves on changes nothing of what is promised.
LEMMA MovesStutter ==
  ASSUME ServerInv, NEW t \in Tasks,
         \/ StreamResumes(t) \/ JobWakes(t) \/ CancellerLeaves(t)
         \/ \E c \in Coroutines : Pushes(t, c)
  PROVE  UNCHANGED Promised!remoteVars
  <1> USE DEF ServerInv
  <1>1. CASE StreamResumes(t) \/ JobWakes(t) \/ CancellerLeaves(t)
    <2>1. /\ asked' = asked /\ updates' = updates
          /\ \A u \in Tasks : call'[u] = "dropped" <=> call[u] = "dropped"
      BY <1>1 DEF StreamResumes, JobWakes, CancellerLeaves, A2ATypeOK
    <2>2. \A u \in Tasks : StateOf(u)' = StateOf(u)
      BY <2>1 DEF StateOf, Exists, Latest, Current
    <2> QED BY <2>1, <2>2, Stutters
  <1>2. ASSUME NEW c \in Coroutines, Pushes(t, c)
        PROVE  UNCHANGED Promised!remoteVars
    <2>1. /\ push[t][c] # 0 /\ asked' = asked
          /\ \E ok \in BOOLEAN : Attempted(t, push[t][c], ok)
          /\ PushEnds(t, c) \/ call' = call
      BY <1>2 DEF Pushes, PushAccepted, PushFails
    <2>2. push[t][c] \in 1 .. Current(t)
      BY <2>1 DEF A2ATypeOK, Current
    <2>3. updates[t][push[t][c]].attempts < PushAttempts
      BY <2>1 DEF Pushed
    <2>4. /\ \A u \in Tasks \ {t} : updates'[u] = updates[u]
          /\ Exists(t)' <=> Exists(t)
          /\ Exists(t) => Latest(t)'.state = Latest(t).state
      BY <2>1, <2>2, <2>3, Accounted
    <2>5. \A u \in Tasks : StateOf(u)' = StateOf(u)
      <3> TAKE u \in Tasks
      <3>1. CASE u = t
        BY <2>4, <3>1 DEF StateOf
      <3>2. CASE u # t
        BY <2>4, <3>2 DEF StateOf, Exists, Latest, Current
      <3> QED BY <3>1, <3>2
    <2>6. \A u \in Tasks : call'[u] = "dropped" <=> call[u] = "dropped"
      BY <2>1, PushOver DEF Coroutines
    <2> QED BY <2>1, <2>5, <2>6, Stutters
  <1> QED BY <1>1, <1>2

\* A handler and a cancelling client end an open task; only a cancelled stream is outrun.
LEMMA SettlingEnds ==
  ASSUME ServerInv, NEW t \in Tasks,
         Cancel(t) \/ \E s \in {"completed", "failed"} : HandlerEnds(t, s)
  PROVE  Promised!Next
  <1> USE DEF ServerInv
  <1>1. PICK s \in Terminal, c \in Coroutines :
          /\ Settle(t, s, c) /\ asked' = asked /\ received' = received
          /\ \A u \in Tasks : call'[u] = "dropped" <=> call[u] = "dropped"
          /\ \/ Open(t)
             \/ call[t] = "handling" /\ s \in {"completed", "failed"}
    <2>1. CASE Cancel(t)
      BY <2>1 DEF Cancel, Terminal, Coroutines
    <2>2. ASSUME NEW s \in {"completed", "failed"}, HandlerEnds(t, s)
          PROVE  /\ s \in Terminal /\ asked' = asked /\ received' = received
                 /\ \E c \in Coroutines : Settle(t, s, c)
                 /\ \A u \in Tasks : call'[u] = "dropped" <=> call[u] = "dropped"
                 /\ Open(t) \/ call[t] = "handling"
      BY <2>2 DEF HandlerEnds, Terminal, Coroutines, AfterHandler, Places, A2ATypeOK
    <2> QED BY <2>1, <2>2
  <1>2. StateOf(t)' = s /\ \A u \in Tasks \ {t} : StateOf(u)' = StateOf(u)
    <2>1. /\ \A u \in Tasks \ {t} : updates'[u] = updates[u]
          /\ Exists(t)' /\ Latest(t)'.state = s
      BY <1>1, Settled
    <2> QED BY <2>1 DEF StateOf, Exists, Latest, Current
  <1>3. CASE Open(t)
    <2>1. Promised!End(t, s)
      BY <1>1, <1>2, <1>3, Reports, ChangesOne
    <2> QED BY <2>1 DEF Promised!Next, Promised!Terminal, Terminal
  <1>4. CASE ~Open(t)
    <2>1. StateOf(t) = "canceled" /\ asked[t].kind = "stream" /\ s \in {"completed", "failed"}
      BY <1>1, <1>4 DEF Places, StateOf
    <2>2. Promised!Outrun(t, s)
      BY <1>1, <1>2, <2>1, ChangesOne
    <2> QED BY <2>1, <2>2 DEF Promised!Next
  <1> QED BY <1>3, <1>4

\* A client that leaves may abandon its task.
LEMMA LeavingAbandons ==
  ASSUME ServerInv, NEW t \in Tasks, ClientLeaves(t)
  PROVE  Promised!Abandon(t)
  <1>1. /\ asked' = asked /\ updates' = updates /\ call' = [call EXCEPT ![t] = "dropped"]
        /\ Exists(t)
    BY DEF ClientLeaves, ServerInv, Places
  <1>2. \A u \in Tasks : StateOf(u)' = StateOf(u)
    BY <1>1 DEF StateOf, Exists, Latest, Current
  <1>3. StateOf(t) # "absent"
    BY <1>1, Reports
  <1>4. {u \in Tasks : call'[u] = "dropped"} = {u \in Tasks : call[u] = "dropped"} \cup {t}
    BY <1>1 DEF ServerInv, A2ATypeOK
  <1> QED BY <1>1, <1>2, <1>3, <1>4 DEF Promised!Abandon

\* A restart takes up every open task, as promised.
LEMMA RestartRestarts ==
  ASSUME ServerInv, Restart
  PROVE  Promised!Restart
  <1>1. /\ asked' = asked
        /\ \A t \in Tasks :
             /\ updates'[t] = IF Open(t) THEN Append(updates[t], Update("working")) ELSE updates[t]
             /\ call'[t] # "dropped"
    BY DEF Restart, Recoverable
  <1>2. ASSUME NEW t \in Tasks
        PROVE  StateOf(t)' = IF StateOf(t) = "submitted" THEN "working" ELSE StateOf(t)
    <2>1. CASE Open(t)
      <3>1. "working" \in TaskState /\ Update("working").state = "working"
        BY DEF TaskState, Update
      <3>2. Exists(t)' /\ Latest(t)' = Update("working")
        BY <1>1, <2>1, <3>1, Appended DEF ServerInv
      <3>3. StateOf(t) \in {"submitted", "working"}
        BY <2>1, Reports
      <3> QED BY <3>1, <3>2, <3>3 DEF StateOf
    <2>2. CASE ~Open(t)
      <3>1. StateOf(t)' = StateOf(t)
        BY <1>1, <2>2 DEF StateOf, Exists, Latest, Current
      <3>2. StateOf(t) # "submitted"
        BY <2>2, Reports
      <3> QED BY <3>1, <3>2
    <2> QED BY <2>1, <2>2
  <1> QED BY <1>1, <1>2 DEF Promised!Restart

\* Every step of the server is a step of the tasks as their clients see them, or none: a task
\* settles once, except for the outrun cancellation of a stream.
THEOREM ServerKeepsRemoteTask == Spec => Promised!Spec
  <1>1. Init => Promised!Init
    BY DEF Init, Promised!Init, StateOf, Exists, NoRequest
  <1>2. ASSUME ServerInv, [Next]_vars
        PROVE  [Promised!Next]_(Promised!remoteVars)
    <2>1. ASSUME NEW t \in Tasks, Send(t) PROVE Promised!Next
      BY <1>2, <2>1, SendCreates
    <2>2. ASSUME NEW t \in Tasks, Runs(t) PROVE [Promised!Next]_(Promised!remoteVars)
      BY <1>2, <2>2, MovesStutter, SettlingEnds DEF Runs
    <2>3. ASSUME NEW t \in Tasks, Cancel(t) PROVE Promised!Next
      BY <1>2, <2>3, SettlingEnds
    <2>4. ASSUME NEW t \in Tasks, NEW c \in Coroutines, Pushes(t, c)
          PROVE  UNCHANGED Promised!remoteVars
      BY <1>2, <2>4, MovesStutter
    <2>5. ASSUME NEW t \in Tasks, ClientLeaves(t) PROVE Promised!Next
      BY <1>2, <2>5, LeavingAbandons DEF Promised!Next
    <2>6. ASSUME NEW t \in Tasks, CancellerLeaves(t) PROVE UNCHANGED Promised!remoteVars
      BY <1>2, <2>6, MovesStutter
    <2>7. ASSUME Restart PROVE Promised!Next
      BY <1>2, <2>7, RestartRestarts DEF Promised!Next
    <2>8. ASSUME UNCHANGED vars PROVE UNCHANGED Promised!remoteVars
      BY <2>8 DEF vars, Promised!remoteVars, StateOf, Exists, Latest, Current
    <2> QED BY <1>2, <2>1, <2>2, <2>3, <2>4, <2>5, <2>6, <2>7, <2>8 DEF Next
  <1> QED BY <1>1, <1>2, ServerInvariance, PTL DEF Spec, Promised!Spec
=============================================================================

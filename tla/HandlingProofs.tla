--------------------------- MODULE HandlingProofs ---------------------------
(***************************************************************************)
(* Proofs about what overlapping sessions do to one message: who handles   *)
(* it, how often, in which order, and how many copies of it there are.     *)
(***************************************************************************)
EXTENDS DeliveryProofs, FiniteSetTheorems

(***************************************************************************)
(* Steps that are not a worker's                                           *)
(***************************************************************************)
\* Workers stand still, but an idle one may be told where its partition is
\* read from.
WorkersStand ==
    \A s \in Sessions, tp \in Subscribed :
      /\ worker'[s][tp].pc = worker[s][tp].pc
      /\ ~At(s, tp, "idle") => worker'[s][tp].off = worker[s][tp].off
      /\ fetch[s][tp] # Unpolled => worker'[s][tp].off = worker[s][tp].off
      /\ worker'[s][tp].att = worker[s][tp].att

LEMMA PollStands ==
    ASSUME TypeInv, NEW s \in Sessions, Poll(s)
    PROVE  WorkersStand
<1> PICK tp \in Subscribed :
       worker' = IF fetch[s][tp] = Unpolled
                   THEN [worker EXCEPT ![s][tp].off = Position(s, tp)]
                   ELSE worker
  BY DEF Poll
<1>1. fetch[s][tp] = Unpolled => At(s, tp, "idle")
  BY DEF TypeInv, JobsExist
<1> QED
  BY <1>1, TypedFacts DEF WorkersStand, WorkersTyped, WorkerStates, At

LEMMA OtherSteps ==
    ASSUME TypeInv, [Next]_vars,
           ~\E s \in Sessions, tp \in Subscribed : Worker(s, tp)
    PROVE  /\ LogsGrow
           /\ WorkersStand
           /\ fate' = fate
           /\ "expire" \notin Faults => entry' = entry
<1>1. \/ UNCHANGED worker
      \/ \E s \in Sessions : Poll(s)
  BY DEF Next, vars, Environment, UserPublish, Run, Cancel,
         RevokePartition, Fence, LeaseExpires, Dispatcher, Send
<1>2. WorkersStand
  BY <1>1, PollStands DEF WorkersStand
<1>3. LogsGrow
  <2>1. ASSUME NEW m \in Msgs, NEW p \in Partitions, UserPublish(m, p)
        PROVE  LogsGrow
    <3>1. [id |-> m, attempt |-> 0, orig |-> << >>] \in Recs
      BY TopicsAssumption DEF Recs
    <3> QED
      BY <2>1, <3>1, TopicFacts, AppendFacts, TypedFacts DEF UserPublish
  <2>2. \/ log' = log
        \/ \E m \in Msgs, p \in Partitions : UserPublish(m, p)
    BY DEF Next, vars, brokerVars, Environment, Run, Cancel,
           RevokePartition, Fence, LeaseExpires, Dispatcher, Poll, Send
  <2> QED
    BY <2>1, <2>2, NoAppendFacts, TypedFacts
<1>4. fate' = fate /\ ("expire" \notin Faults => entry' = entry)
  BY DEF Next, vars, brokerVars, storeVars, Environment, UserPublish, Run, Cancel,
         RevokePartition, Fence, LeaseExpires, Dispatcher, Poll, Send
<1> QED
  BY <1>2, <1>3, <1>4

(***************************************************************************)
(* Claims                                                                  *)
(***************************************************************************)
HandlerPCs == {"handle", "backoff", "complete", "fail"}
Handles(s, tp) == worker[s][tp].pc \in HandlerPCs

\* Whoever handles a message has its claim, ...
ClaimsHeld ==
    \A s \in Sessions, tp \in Subscribed :
      Handles(s, tp) => entry[Id(s, tp)] = "processing"

\* ... which nobody else has.
HandlersApart ==
    \A s, s2 \in Sessions, tp, tp2 \in Subscribed :
      Handles(s, tp) /\ Handles(s2, tp2) /\ Id(s, tp) = Id(s2, tp2)
        => s = s2 /\ tp = tp2

\* What a worker's step does to the claims.
Keeps(s, tp) ==
    /\ entry' = entry
    /\ worker'[s][tp].pc \in HandlerPCs =>
         Handles(s, tp) /\ worker'[s][tp].off = worker[s][tp].off

Claims(s, tp) ==
    /\ ~At(s, tp, "idle") /\ ~Handles(s, tp)
    /\ entry[Id(s, tp)] # "processing" /\ entry[Id(s, tp)] # "completed"
    /\ entry' = [entry EXCEPT ![Id(s, tp)] = "processing"]
    /\ worker'[s][tp].pc = "handle"
    /\ worker'[s][tp].off = worker[s][tp].off

Closes(s, tp) ==
    /\ \/ /\ At(s, tp, "complete")
          /\ entry' = [entry EXCEPT ![Id(s, tp)] = "completed"]
       \/ /\ At(s, tp, "fail")
          /\ entry' = [entry EXCEPT ![Id(s, tp)] = "failed"]
    /\ worker'[s][tp].pc \notin HandlerPCs

LEMMA ClaimSteps ==
    ASSUME TypeInv, Idempotent, NEW s \in Sessions, NEW tp \in Subscribed,
           Worker(s, tp)
    PROVE  Keeps(s, tp) \/ Claims(s, tp) \/ Closes(s, tp)
<1>1. CASE Claim(s, tp) /\ Goto(s, tp, "handle")
  <2>1. ~At(s, tp, "idle") /\ Id(s, tp) \in Msgs /\ ~Handles(s, tp)
    BY <1>1, JobFacts DEF Claim, At, Handles, HandlerPCs
  <2>2. worker'[s][tp].pc = "handle" /\ worker'[s][tp].off = worker[s][tp].off
    BY <1>1, <2>1, GotoMoves DEF PCs
  <2>3. Store!Verdict(Id(s, tp)) = "proceed"
    <3>1. CASE Goto(s, tp, "ack")
      BY <2>1, <2>2, <3>1, GotoMoves DEF PCs
    <3>2. CASE Finish(s, tp)
      BY <2>1, <2>2, <3>2, FinishMoves
    <3> QED
      BY <1>1, <3>1, <3>2 DEF Claim, Abandon
  <2>4. entry[Id(s, tp)] \in {"absent", "failed", "expired"}
    <3>1. entry[Id(s, tp)] \in {"absent", "processing", "expired", "completed", "failed"}
      BY <2>1 DEF TypeInv, TypeOK, Store!StoreTypeOK, Store!EntryStates
    <3> QED
      BY <2>3, <3>1 DEF Store!Verdict
  <2> QED
    BY <1>1, <2>1, <2>2, <2>3, <2>4 DEF Claim, Claims, Store!TryStart
<1>2. CASE Claim(s, tp) /\ ~Goto(s, tp, "handle")
  <2>1. ~At(s, tp, "idle") /\ Store!Verdict(Id(s, tp)) # "proceed"
    BY <1>2 DEF Claim, At
  <2>2. entry' = entry
    BY <1>2, <2>1 DEF Claim, Store!TryStart, Store!storeVars
  <2>3. worker'[s][tp].pc \notin HandlerPCs
    <3>1. CASE Goto(s, tp, "ack")
      BY <2>1, <3>1, GotoMoves DEF PCs, HandlerPCs
    <3>2. CASE Finish(s, tp)
      BY <2>1, <3>2, FinishMoves DEF HandlerPCs
    <3> QED
      BY <1>2, <3>1, <3>2 DEF Claim, Abandon
  <2> QED
    BY <2>2, <2>3 DEF Keeps
<1>3. CASE CloseClaim(s, tp)
  <2>1. ~At(s, tp, "idle")
    BY <1>3 DEF CloseClaim, At
  <2>2. worker'[s][tp].pc \notin HandlerPCs
    BY <1>3, <2>1, GotoMoves DEF CloseClaim, PCs, HandlerPCs
  <2> QED
    BY <1>3, <2>2
    DEF CloseClaim, Keeps, Closes, Store!Complete, Store!Fail, storeVars
<1>4. CASE Take(s, tp)
  <2>1. worker'[s][tp].pc \in {"wait", "claim"}
    <3>1. worker' = [worker EXCEPT ![s][tp] =
             [pc  |-> IF Job(s, tp).attempt > 0 THEN "wait" ELSE "claim",
              off |-> @.off,
              att |-> Job(s, tp).attempt]]
      BY <1>4 DEF Take, Ready
    <3> QED
      BY <3>1, TypedFacts DEF WorkersTyped
  <2> QED
    BY <1>4, <2>1 DEF Take, Keeps, HandlerPCs, storeVars
<1>5. CASE HandlerOk(s, tp) \/ HandlerErr(s, tp) \/ BackoffElapsed(s, tp)
  <2>1. Handles(s, tp) /\ ~At(s, tp, "idle") /\ entry' = entry
    BY <1>5 DEF HandlerOk, HandlerErr, BackoffElapsed, At, Handles, HandlerPCs,
                storeVars
  <2>2. worker'[s][tp].off = worker[s][tp].off
    BY <1>5, <2>1, GotoMoves, HandlerErrMoves DEF HandlerOk, BackoffElapsed, PCs
  <2> QED
    BY <2>1, <2>2 DEF Keeps
<1>6. CASE /\ UNCHANGED storeVars /\ ~At(s, tp, "idle")
           /\ \/ \E pc \in PCs \ HandlerPCs : Goto(s, tp, pc)
              \/ Finish(s, tp)
              \/ worker' = [worker EXCEPT ![s][tp] = NextJob(@)]
  <2>1. worker'[s][tp].pc \notin HandlerPCs
    BY <1>6, GotoMoves, FinishMoves, NextJobMoves DEF HandlerPCs
  <2> QED
    BY <1>6, <2>1 DEF Keeps, storeVars
<1> QED
  BY <1>1, <1>2, <1>3, <1>4, <1>5, <1>6
  DEF Worker, WaitElapsed, ClaimError,
      Route, Publish, BeginTxn, StageTxn, CommitTxn,
      Ack, Commit, Drain, DrainCommit, Ready, Abandon, At, PCs, HandlerPCs

\* Where a busy worker is, before and after a step, its record is the same.
LEMMA OthersKept ==
    ASSUME TypeInv, LogsGrow, NEW s \in Sessions, NEW tp \in Subscribed,
           Handles(s, tp), worker'[s][tp].off = worker[s][tp].off
    PROVE  Id(s, tp)' = Id(s, tp) /\ Id(s, tp) \in Msgs
<1>1. ~At(s, tp, "idle")
  BY DEF Handles, HandlerPCs, At
<1> QED
  BY <1>1, IdKept, JobFacts

LEMMA ClaimsStep ==
    ASSUME Idempotent, "expire" \notin Faults
    PROVE  TypeInv /\ ClaimsHeld /\ HandlersApart /\ [Next]_vars
             => ClaimsHeld' /\ HandlersApart'
<1> SUFFICES ASSUME TypeInv, ClaimsHeld, HandlersApart, [Next]_vars
             PROVE  ClaimsHeld' /\ HandlersApart'
  OBVIOUS
<1>1. entry \in [Msgs -> Store!EntryStates]
  BY DEF TypeInv, TypeOK, Store!StoreTypeOK
<1>2. ASSUME LogsGrow, entry' = entry,
             \A s \in Sessions, tp \in Subscribed :
               Handles(s, tp)' => /\ Handles(s, tp)
                                  /\ worker'[s][tp].off = worker[s][tp].off
      PROVE  ClaimsHeld' /\ HandlersApart'
  <2>1. \A s \in Sessions, tp \in Subscribed :
          Handles(s, tp)' => Handles(s, tp) /\ Id(s, tp)' = Id(s, tp)
    BY <1>2, OthersKept
  <2> QED
    BY <1>2, <2>1 DEF ClaimsHeld, HandlersApart
<1>3. ASSUME ~\E s \in Sessions, tp \in Subscribed : Worker(s, tp)
      PROVE  ClaimsHeld' /\ HandlersApart'
  <2>1. LogsGrow /\ WorkersStand /\ entry' = entry
    BY <1>3, OtherSteps
  <2> QED
    BY <1>2, <2>1 DEF WorkersStand, Handles, HandlerPCs, At
<1>4. ASSUME NEW s \in Sessions, NEW tp \in Subscribed, Worker(s, tp)
      PROVE  ClaimsHeld' /\ HandlersApart'
  <2>1. LogsGrow /\ WorkerMoves(s, tp)
    BY <1>4, WorkerBroker, WorkerMovesAlways
  <2>2. \A s2 \in Sessions, tp2 \in Subscribed :
          <<s2, tp2>> # <<s, tp>> => worker'[s2][tp2] = worker[s2][tp2]
    BY <2>1 DEF WorkerMoves, Moves
  <2>3. ASSUME NEW s2 \in Sessions, NEW tp2 \in Subscribed,
               <<s2, tp2>> # <<s, tp>>, Handles(s2, tp2)'
        PROVE  Handles(s2, tp2) /\ Id(s2, tp2)' = Id(s2, tp2) /\ Id(s2, tp2) \in Msgs
    <3>1. Handles(s2, tp2) /\ worker'[s2][tp2].off = worker[s2][tp2].off
      BY <2>2, <2>3 DEF Handles
    <3> QED
      BY <2>1, <3>1, OthersKept
  <2>4. CASE Keeps(s, tp)
    <3>1. ASSUME NEW s2 \in Sessions, NEW tp2 \in Subscribed, Handles(s2, tp2)'
          PROVE  Handles(s2, tp2) /\ worker'[s2][tp2].off = worker[s2][tp2].off
      <4>1. CASE s2 = s /\ tp2 = tp
        BY <2>4, <3>1, <4>1 DEF Keeps, Handles
      <4>2. CASE <<s2, tp2>> # <<s, tp>>
        BY <2>2, <3>1, <4>2 DEF Handles
      <4> QED
        BY <4>1, <4>2
    <3> QED
      BY <1>2, <2>1, <2>4, <3>1 DEF Keeps
  <2>5. CASE Claims(s, tp)
    <3>1. Id(s, tp)' = Id(s, tp) /\ Id(s, tp) \in Msgs
      BY <2>1, <2>5, IdKept, JobFacts DEF Claims
    <3>2. \A m \in Msgs : entry'[m] = IF m = Id(s, tp) THEN "processing" ELSE entry[m]
      BY <1>1, <2>5 DEF Claims
    <3>3. ASSUME NEW s2 \in Sessions, NEW tp2 \in Subscribed,
                 <<s2, tp2>> # <<s, tp>>, Handles(s2, tp2)'
          PROVE  /\ Handles(s2, tp2) /\ Id(s2, tp2)' = Id(s2, tp2)
                 /\ Id(s2, tp2) \in Msgs /\ Id(s2, tp2) # Id(s, tp)
      BY <2>3, <2>5, <3>3 DEF Claims, ClaimsHeld
    <3>4. ClaimsHeld'
      <4> SUFFICES ASSUME NEW s2 \in Sessions, NEW tp2 \in Subscribed, Handles(s2, tp2)'
                   PROVE  entry'[Id(s2, tp2)'] = "processing"
        BY DEF ClaimsHeld
      <4>1. CASE s2 = s /\ tp2 = tp
        BY <3>1, <3>2, <4>1
      <4>2. CASE <<s2, tp2>> # <<s, tp>>
        BY <3>2, <3>3, <4>2 DEF ClaimsHeld
      <4> QED
        BY <4>1, <4>2
    <3>5. HandlersApart'
      <4> SUFFICES ASSUME NEW s2 \in Sessions, NEW s3 \in Sessions,
                          NEW tp2 \in Subscribed, NEW tp3 \in Subscribed,
                          Handles(s2, tp2)', Handles(s3, tp3)',
                          Id(s2, tp2)' = Id(s3, tp3)'
                   PROVE  s2 = s3 /\ tp2 = tp3
        BY DEF HandlersApart
      <4>1. CASE s2 = s /\ tp2 = tp /\ <<s3, tp3>> # <<s, tp>>
        BY <3>1, <3>3, <4>1
      <4>2. CASE s3 = s /\ tp3 = tp /\ <<s2, tp2>> # <<s, tp>>
        BY <3>1, <3>3, <4>2
      <4>3. CASE <<s2, tp2>> # <<s, tp>> /\ <<s3, tp3>> # <<s, tp>>
        BY <3>3, <4>3 DEF HandlersApart
      <4> QED
        BY <4>1, <4>2, <4>3
    <3> QED
      BY <3>4, <3>5
  <2>6. CASE Closes(s, tp)
    <3>1. Handles(s, tp) /\ ~At(s, tp, "idle") /\ Id(s, tp) \in Msgs
      BY <2>6, JobFacts DEF Closes, Handles, HandlerPCs, At
    <3>2. \A m \in Msgs : m # Id(s, tp) => entry'[m] = entry[m]
      BY <1>1, <2>6 DEF Closes
    <3>3. ASSUME NEW s2 \in Sessions, NEW tp2 \in Subscribed, Handles(s2, tp2)'
          PROVE  /\ Handles(s2, tp2) /\ Id(s2, tp2)' = Id(s2, tp2)
                 /\ Id(s2, tp2) \in Msgs /\ Id(s2, tp2) # Id(s, tp)
      <4>1. <<s2, tp2>> # <<s, tp>>
        BY <2>6, <3>3 DEF Closes, Handles
      <4> QED
        BY <2>3, <3>1, <3>3, <4>1 DEF HandlersApart
    <3> QED
      BY <3>2, <3>3 DEF ClaimsHeld, HandlersApart
  <2> QED
    BY <1>4, <2>4, <2>5, <2>6, ClaimSteps
<1> QED
  BY <1>3, <1>4

LEMMA ClaimsAlways ==
    ASSUME Idempotent, "expire" \notin Faults
    PROVE  Spec => [](TypeInv /\ ClaimsHeld /\ HandlersApart)
<1>1. Init => ClaimsHeld /\ HandlersApart
  BY DEF Init, ClaimsHeld, HandlersApart, Handles, HandlerPCs
<1> QED
  BY <1>1, TypeInit, TypeStep, ClaimsStep, PTL DEF Spec

\* With a store whose leases outlast the workers, no two handlers of one
\* message run at the same time: not of a record and its retry copy, not of
\* one record in overlapping sessions, whatever errors the store returns.
THEOREM OneHandler ==
    ASSUME Idempotent, "expire" \notin Faults
    PROVE  Spec => []OneHandlerAtATime
<1>1. ASSUME HandlersApart PROVE OneHandlerAtATime
  <2> SUFFICES ASSUME NEW m \in Msgs PROVE Cardinality(Handling(m)) <= 1
    BY DEF OneHandlerAtATime
  <2>1. \A v, w \in Handling(m) : v = w
    BY <1>1 DEF HandlersApart, Handling, Handles, HandlerPCs
  <2>2. CASE Handling(m) = {}
    BY <2>2, FS_EmptySet
  <2>3. CASE Handling(m) # {}
    <3> PICK w \in Handling(m) : TRUE
      BY <2>3
    <3>1. Handling(m) = {w}
      BY <2>1
    <3>2. Cardinality(Handling(m)) = 1
      BY <3>1, FS_Singleton
    <3> QED
      BY <3>2
  <2> QED
    BY <2>2, <2>3
<1> QED
  BY <1>1, ClaimsAlways, PTL

\* A step of a worker leaves a completed claim alone: who closes a claim has it.
LEMMA CompletedKept ==
    ASSUME Idempotent, "expire" \notin Faults, TypeInv, ClaimsHeld, [Next]_vars,
           NEW m \in Msgs, entry[m] = "completed"
    PROVE  entry'[m] = "completed"
<1>1. entry \in [Msgs -> Store!EntryStates]
  BY DEF TypeInv, TypeOK, Store!StoreTypeOK
<1>2. ASSUME NEW s \in Sessions, NEW tp \in Subscribed, Worker(s, tp)
      PROVE  entry'[m] = "completed"
  <2>1. CASE Keeps(s, tp)
    BY <2>1 DEF Keeps
  <2>2. CASE Claims(s, tp)
    BY <1>1, <2>2 DEF Claims
  <2>3. CASE Closes(s, tp)
    <3>1. Handles(s, tp)
      BY <2>3 DEF Closes, Handles, HandlerPCs, At
    <3>2. Id(s, tp) # m
      BY <3>1 DEF ClaimsHeld
    <3> QED
      BY <1>1, <2>3, <3>2 DEF Closes
  <2> QED
    BY <1>2, <2>1, <2>2, <2>3, ClaimSteps
<1>3. CASE ~\E s \in Sessions, tp \in Subscribed : Worker(s, tp)
  BY <1>3, OtherSteps
<1> QED
  BY <1>2, <1>3

\* A claim that was completed is never opened again or marked as failed, though
\* Memory.Complete and Memory.Fail overwrite whatever they find: while leases
\* outlast the workers, whoever is about to write still has the claim, with
\* whatever errors of the store and whatever sessions overlap.
THEOREM CompletedForGood ==
    ASSUME Idempotent, "expire" \notin Faults
    PROVE  Spec => StaysCompleted
<1>1. TypeInv /\ ClaimsHeld /\ [Next]_vars
        => [\A m \in Msgs : entry[m] = "completed" => entry'[m] = "completed"]_entry
  BY CompletedKept
<1> QED
  BY <1>1, ClaimsAlways, PTL DEF Spec, StaysCompleted

(***************************************************************************)
(* Nobody handles a message again                                          *)
(***************************************************************************)
\* The claim of a message that was handled is closed, or its handler is about
\* to close it.
HandledClosed ==
    \A m \in Msgs : "handled" \in fate[m] =>
      \/ entry[m] = "completed"
      \/ \E s \in Sessions, tp \in Subscribed :
           At(s, tp, "complete") /\ Id(s, tp) = m

LEMMA HandledStep ==
    ASSUME Idempotent, "expire" \notin Faults, "store" \notin Faults
    PROVE  TypeInv /\ ClaimsHeld /\ HandledClosed /\ [Next]_vars => HandledClosed'
<1> SUFFICES ASSUME TypeInv, ClaimsHeld, HandledClosed, [Next]_vars,
                    NEW m \in Msgs, "handled" \in fate'[m]
             PROVE  \/ entry'[m] = "completed"
                    \/ \E s \in Sessions, tp \in Subscribed :
                         At(s, tp, "complete")' /\ Id(s, tp)' = m
  BY DEF HandledClosed
<1>1. /\ entry \in [Msgs -> Store!EntryStates]
      /\ fate \in [Msgs -> SUBSET Fates]
  BY DEF TypeInv, TypeOK, Store!StoreTypeOK, Fates
<1>2. ASSUME LogsGrow, NEW s2 \in Sessions, NEW tp2 \in Subscribed,
             At(s2, tp2, "complete"), Id(s2, tp2) = m,
             worker'[s2][tp2].pc = worker[s2][tp2].pc,
             worker'[s2][tp2].off = worker[s2][tp2].off
      PROVE  At(s2, tp2, "complete")' /\ Id(s2, tp2)' = m
  BY <1>2, OthersKept DEF At, Handles, HandlerPCs
<1>3. CASE ~\E s \in Sessions, tp \in Subscribed : Worker(s, tp)
  <2>1. LogsGrow /\ WorkersStand /\ fate' = fate /\ entry' = entry
    BY <1>3, OtherSteps
  <2>2. CASE entry[m] = "completed"
    BY <2>1, <2>2
  <2>3. CASE entry[m] # "completed"
    <3> PICK s2 \in Sessions, tp2 \in Subscribed :
               At(s2, tp2, "complete") /\ Id(s2, tp2) = m
      BY <2>1, <2>3 DEF HandledClosed
    <3> QED
      BY <1>2, <2>1 DEF WorkersStand, At
  <2> QED
    BY <2>2, <2>3
<1>4. ASSUME NEW s \in Sessions, NEW tp \in Subscribed, Worker(s, tp)
      PROVE  \/ entry'[m] = "completed"
             \/ \E s2 \in Sessions, tp2 \in Subscribed :
                  At(s2, tp2, "complete")' /\ Id(s2, tp2)' = m
  <2>1. LogsGrow /\ WorkerMoves(s, tp)
    BY <1>4, WorkerBroker, WorkerMovesAlways
  <2>2. CASE HandlerOk(s, tp) /\ Id(s, tp) = m
    <3>1. ~At(s, tp, "idle")
      BY <2>2 DEF HandlerOk, At
    <3>2. worker'[s][tp].pc = "complete" /\ worker'[s][tp].off = worker[s][tp].off
      BY <2>2, <3>1, GotoMoves DEF HandlerOk, PCs
    <3>3. Id(s, tp)' = m
      BY <2>1, <2>2, <3>1, <3>2, IdKept
    <3> QED
      BY <3>2, <3>3 DEF At
  <2>3. CASE ~(HandlerOk(s, tp) /\ Id(s, tp) = m)
    <3>1. "handled" \in fate[m]
      <4>1. \/ fate' = fate
            \/ /\ ~At(s, tp, "idle")
               /\ \/ \E f \in {"exhausted", "abandoned"} : Decide(Id(s, tp), f)
                  \/ HandlerOk(s, tp)
        BY <1>4
        DEF Worker, Take, WaitElapsed, Claim, ClaimError, HandlerOk, HandlerErr,
          BackoffElapsed, CloseClaim, Route, Publish, BeginTxn, StageTxn,
          CommitTxn, Ack, Commit, Drain, DrainCommit, Abandon, At
      <4> QED
        BY <1>1, <2>3, <4>1, JobFacts DEF HandlerOk, Decide
    <3>2. ASSUME entry[m] = "completed"
          PROVE  entry'[m] = "completed"
      <4>1. At(s, tp, "fail") => entry[Id(s, tp)] # "completed"
        BY DEF ClaimsHeld, Handles, HandlerPCs, At
      <4>2. ~At(s, tp, "idle") => Id(s, tp) \in Msgs
        BY JobFacts
      <4>3. CASE Keeps(s, tp)
        BY <3>2, <4>3 DEF Keeps
      <4>4. CASE Claims(s, tp)
        BY <1>1, <3>2, <4>2, <4>4 DEF Claims
      <4>5. CASE Closes(s, tp)
        BY <1>1, <3>2, <4>1, <4>2, <4>5 DEF Closes, At
      <4> QED
        BY <1>4, <4>3, <4>4, <4>5, ClaimSteps
    <3>3. ASSUME NEW s2 \in Sessions, NEW tp2 \in Subscribed,
                 At(s2, tp2, "complete"), Id(s2, tp2) = m
          PROVE  \/ entry'[m] = "completed"
                 \/ At(s2, tp2, "complete")' /\ Id(s2, tp2)' = m
      <4>1. CASE s2 = s /\ tp2 = tp
        <5>1. Store!Complete(<<s, tp>>, Id(s, tp))
          BY <1>4, <3>3, <4>1
          DEF Worker, Take, WaitElapsed, Claim, ClaimError, HandlerOk, HandlerErr,
            BackoffElapsed, CloseClaim, Route, Publish, BeginTxn, StageTxn,
            CommitTxn, Ack, Commit, Drain, DrainCommit, At
        <5> QED
          BY <1>1, <3>3, <4>1, <5>1 DEF Store!Complete
      <4>2. CASE <<s2, tp2>> # <<s, tp>>
        <5>1. worker'[s2][tp2] = worker[s2][tp2]
          BY <2>1, <4>2 DEF WorkerMoves, Moves
        <5> QED
          BY <1>2, <2>1, <3>3, <5>1
      <4> QED
        BY <4>1, <4>2
    <3> QED
      BY <3>1, <3>2, <3>3 DEF HandledClosed
  <2> QED
    BY <2>2, <2>3
<1> QED
  BY <1>3, <1>4

\* If moreover the store answers, a message that was handled is not handled
\* again by anybody: a session that dies between the handler and the store
\* leaves the claim behind, which keeps the others out.
THEOREM NeverHandledAgain ==
    ASSUME Idempotent, "expire" \notin Faults, "store" \notin Faults
    PROVE  Spec => []HandledOnce
<1>1. Init => HandledClosed
  BY DEF Init, HandledClosed
<1>2. ASSUME ClaimsHeld, HandlersApart, HandledClosed PROVE HandledOnce
  <2> SUFFICES ASSUME NEW m \in Msgs, "handled" \in fate[m],
                      NEW s \in Sessions, NEW tp \in Subscribed,
                      Handles(s, tp), Id(s, tp) = m
               PROVE  At(s, tp, "complete")
    BY DEF HandledOnce, Handling, Handles, HandlerPCs
  <2>1. entry[m] # "completed"
    BY <1>2 DEF ClaimsHeld
  <2> PICK s2 \in Sessions, tp2 \in Subscribed :
             At(s2, tp2, "complete") /\ Id(s2, tp2) = m
    BY <1>2, <2>1 DEF HandledClosed
  <2> QED
    BY <1>2 DEF HandlersApart, Handles, HandlerPCs, At
<1>3. Spec => []HandledClosed
  BY <1>1, ClaimsAlways, HandledStep, PTL DEF Spec
<1> QED
  BY <1>2, <1>3, ClaimsAlways, PTL

(***************************************************************************)
(* OrderingPerPartition: the source topic is decided in order              *)
(***************************************************************************)
\* A worker gives up a record only when its attempts are used up in place, so
\* that it goes to the dead-letter topic if anywhere.
LastAttempt ==
    \A s \in Sessions, tp \in Subscribed :
      worker[s][tp].pc \in {"fail", "route", "publish", "lock", "stage", "txnCommit"}
        => worker[s][tp].att = MaxRetries

NobodyRevoked == \A s \in Sessions : revoked[s] = {}
NoRetries == \A tp \in Subscribed : Stage(tp) # Main => log[tp] = << >>

\* The bound of UserPublish: a message is published once.
PublishedOnce ==
    \A p, p2 \in Partitions :
      \A i \in 1 .. Len(log[<<Main, p>>]), i2 \in 1 .. Len(log[<<Main, p2>>]) :
        log[<<Main, p>>][i].id = log[<<Main, p2>>][i2].id => p = p2 /\ i = i2

InPlace == LastAttempt /\ NobodyRevoked /\ NoRetries /\ PublishedOnce

LEMMA WorkerLastAttempt ==
    ASSUME TypeInv, LastAttempt, Ordering = "PerPartition", "store" \notin Faults,
           NEW s \in Sessions, NEW tp \in Subscribed, Worker(s, tp),
           worker'[s][tp].pc \in {"fail", "route", "publish", "lock", "stage", "txnCommit"}
    PROVE  worker'[s][tp].att = MaxRetries
<1>1. CASE Take(s, tp)
  BY <1>1, TakeMoves
<1>2. CASE HandlerErr(s, tp)
  <2>1. ~At(s, tp, "idle") /\ worker[s][tp].att \in 0 .. MaxRetries
    BY <1>2, JobFacts DEF HandlerErr, At
  <2>2. CASE worker[s][tp].att < MaxRetries
    <3>1. worker'[s][tp].pc = "backoff"
      BY <1>2, <2>2, TypedFacts DEF HandlerErr, WorkersTyped, WorkerStates
    <3> QED
      BY <3>1
  <2>3. CASE ~(worker[s][tp].att < MaxRetries)
    <3>1. worker'[s][tp].att = worker[s][tp].att
      BY <1>2, <2>1, <2>3, GotoMoves DEF HandlerErr, PCs
    <3> QED
      BY <2>1, <2>3, <3>1, TopicsAssumption
  <2> QED
    BY <2>2, <2>3
<1>3. CASE Finish(s, tp) /\ ~At(s, tp, "idle")
  BY <1>3, FinishMoves
<1>4. CASE ~At(s, tp, "idle") /\ worker' = [worker EXCEPT ![s][tp] = NextJob(@)]
  BY <1>4, NextJobMoves
<1>5. CASE \E pc \in {"handle", "claim", "ack", "complete", "commit", "drainCommit"} :
             ~At(s, tp, "idle") /\ Goto(s, tp, pc)
  BY <1>5, GotoMoves DEF PCs
<1>6. CASE /\ worker[s][tp].pc \in {"fail", "route", "publish", "lock", "stage"}
           /\ \E pc \in PCs : Goto(s, tp, pc)
  BY <1>6, GotoMoves DEF LastAttempt, At
<1> QED
  BY <1>1, <1>2, <1>3, <1>4, <1>5, <1>6
  DEF Worker, WaitElapsed, Claim, ClaimError, HandlerOk,
      BackoffElapsed, CloseClaim, Route, Publish, BeginTxn, StageTxn, CommitTxn,
      Ack, Commit, Drain, DrainCommit, Ready, Abandon, At, PCs

\* What a worker settles in a step is the message it works on.
LEMMA WorkerSettles ==
    ASSUME TypeInv, NEW s \in Sessions, NEW tp \in Subscribed, Worker(s, tp),
           NEW m \in Msgs, Settled(m)', ~Settled(m)
    PROVE  ~At(s, tp, "idle") /\ m = Id(s, tp)
<1>1. PartitionOf(Dlq) \in TPs
  BY TopicFacts, TopicsAssumption
<1>2. CASE fate'[m] # {}
  <2>1. fate[m] = {} /\ fate \in [Msgs -> SUBSET Fates]
    BY DEF Settled, TypeInv, TypeOK, Fates
  <2> QED
    BY <1>2, <2>1, WorkerFate DEF Decide
<1>3. CASE DeadLettered(m)'
  <2>1. Routes(s, tp)
    BY <1>3, WorkerLog DEF Settled, DeadLettered, Contains
  <2>2. ~At(s, tp, "idle")
    BY <2>1 DEF Routes, At
  <2>3. PICK up \in TPs : up = Destination(worker[s][tp].att)
    BY <2>2, JobFacts, DestinationFacts
  <2>4. Routed(s, tp) \in Recs /\ AppendTo(up, Routed(s, tp)) /\ LogsTyped
    BY <2>1, <2>2, <2>3, JobFacts, TypedFacts DEF Routes
  <2> DEFINE q == PartitionOf(Dlq)
  <2>5. PICK i \in 1 .. Len(log'[q]) : log'[q][i].id = m
    BY <1>3 DEF DeadLettered, Contains
  <2>6. ~(i \in 1 .. Len(log[q]) /\ log'[q][i] = log[q][i])
    BY <2>5 DEF Settled, DeadLettered, Contains
  <2>7. /\ \A t \in TPs : t # up => log'[t] = log[t]
        /\ Len(log[up]) \in Nat
        /\ Len(log'[up]) = Len(log[up]) + 1
        /\ log'[up][Len(log[up]) + 1] = Routed(s, tp)
        /\ \A n \in 1 .. Len(log[up]) : log'[up][n] = log[up][n]
    BY <2>4, AppendFacts DEF LogsTyped, LogsGrow
  <2>8. up = q
    BY <1>1, <2>5, <2>6, <2>7
  <2>9. i = Len(log[up]) + 1
    BY <2>5, <2>6, <2>7, <2>8
  <2> QED
    BY <2>2, <2>5, <2>7, <2>8, <2>9 DEF Routed
<1> QED
  BY <1>2, <1>3 DEF Settled

\* What a user's publish does to the partitions.
LEMMA PublishAppends ==
    ASSUME TypeInv, NEW m \in Msgs, NEW p \in Partitions, UserPublish(m, p)
    PROVE  /\ LogsGrow /\ FateGrows
           /\ \A t \in TPs : t # <<Main, p>> => log'[t] = log[t]
           /\ \A i \in 1 .. Len(log'[<<Main, p>>]) :
                \/ i \in 1 .. Len(log[<<Main, p>>])
                \/ i = Len(log[<<Main, p>>]) + 1 /\ log'[<<Main, p>>][i].id = m
           /\ Len(log[<<Main, p>>]) \in Nat
           /\ UNCHANGED <<fate, worker, revoked>>
<1> DEFINE r == [id |-> m, attempt |-> 0, orig |-> << >>]
<1>1. PICK src \in TPs : src = <<Main, p>>
  BY TopicFacts
<1>2. r \in Recs /\ AppendTo(src, r) /\ LogsTyped
  BY <1>1, TopicsAssumption, TypedFacts DEF Recs, UserPublish
<1>3. /\ LogsGrow
      /\ Len(log'[src]) = Len(log[src]) + 1
      /\ log'[src][Len(log[src]) + 1] = r
      /\ \A t \in TPs : t # src => log'[t] = log[t]
      /\ Len(log[src]) \in Nat
  BY <1>2, AppendFacts DEF LogsTyped
<1>4. \A i \in 1 .. Len(log'[src]) :
        \/ i \in 1 .. Len(log[src])
        \/ i = Len(log[src]) + 1 /\ log'[src][i].id = m
  BY <1>3
<1> QED
  BY <1>1, <1>3, <1>4, SameFate DEF UserPublish

LEMMA PublishedOnceStep ==
    ASSUME DeliveryInv, PublishedOnce, [Next]_vars
    PROVE  PublishedOnce'
<1>1. TypeInv /\ \A p \in Partitions : <<Main, p>> \in TPs
  BY TopicFacts DEF DeliveryInv
<1>2. ASSUME NEW m \in Msgs, NEW p0 \in Partitions, UserPublish(m, p0)
      PROVE  PublishedOnce'
  <2> DEFINE q0 == <<Main, p0>>
  <2>1. /\ LogsGrow
        /\ \A t \in TPs : t # q0 => log'[t] = log[t]
        /\ \A i \in 1 .. Len(log'[q0]) :
             \/ i \in 1 .. Len(log[q0])
             \/ i = Len(log[q0]) + 1 /\ log'[q0][i].id = m
    BY <1>1, <1>2, PublishAppends
  <2>2. ASSUME NEW p \in Partitions, NEW i \in 1 .. Len(log'[<<Main, p>>])
        PROVE  \/ /\ i \in 1 .. Len(log[<<Main, p>>])
                  /\ log'[<<Main, p>>][i] = log[<<Main, p>>][i]
                  /\ log'[<<Main, p>>][i].id # m
               \/ p = p0 /\ i = Len(log[q0]) + 1 /\ log'[<<Main, p>>][i].id = m
    <3>1. ASSUME i \in 1 .. Len(log[<<Main, p>>])
          PROVE  /\ log'[<<Main, p>>][i] = log[<<Main, p>>][i]
                 /\ log[<<Main, p>>][i].id # m
      BY <1>1, <1>2, <2>1, <3>1 DEF LogsGrow, UserPublish, Accepted, Contains
    <3>2. CASE p # p0
      BY <1>1, <2>1, <2>2, <3>1, <3>2
    <3>3. CASE p = p0
      BY <1>1, <2>1, <2>2, <3>1, <3>3
    <3> QED
      BY <3>2, <3>3
  <2>3. ASSUME NEW p \in Partitions, NEW p2 \in Partitions,
               NEW i \in 1 .. Len(log'[<<Main, p>>]),
               NEW i2 \in 1 .. Len(log'[<<Main, p2>>]),
               log'[<<Main, p>>][i].id = log'[<<Main, p2>>][i2].id
        PROVE  p = p2 /\ i = i2
    <3>1. CASE log'[<<Main, p>>][i].id = m
      BY <2>2, <2>3, <3>1
    <3>2. CASE log'[<<Main, p>>][i].id # m
      <4>1. /\ i \in 1 .. Len(log[<<Main, p>>])
            /\ log'[<<Main, p>>][i] = log[<<Main, p>>][i]
        BY <2>2, <3>2
      <4>2. /\ i2 \in 1 .. Len(log[<<Main, p2>>])
            /\ log'[<<Main, p2>>][i2] = log[<<Main, p2>>][i2]
        BY <2>2, <2>3, <3>2
      <4> QED
        BY <2>3, <4>1, <4>2 DEF PublishedOnce
    <3> QED
      BY <3>1, <3>2
  <2> QED
    BY <2>3 DEF PublishedOnce
<1>3. CASE ~\E m \in Msgs, p \in Partitions : UserPublish(m, p)
  <2>1. \A p \in Partitions : log'[<<Main, p>>] = log[<<Main, p>>]
    BY <1>3, SourceKept
  <2> QED
    BY <2>1 DEF PublishedOnce
<1> QED
  BY <1>2, <1>3

LEMMA NoRetriesStep ==
    ASSUME TypeInv, LastAttempt, NoRetries, [Next]_vars
    PROVE  NoRetries'
<1>1. CASE \E m \in Msgs, p \in Partitions : UserPublish(m, p)
  BY <1>1, PublishAppends, TopicFacts DEF NoRetries
<1>2. ASSUME NEW s \in Sessions, NEW tp \in Subscribed, Routes(s, tp)
      PROVE  NoRetries'
  <2>1. ~At(s, tp, "idle") /\ worker[s][tp].att = MaxRetries
    BY <1>2 DEF Routes, At, LastAttempt
  <2>2. PICK up \in TPs : up = Destination(worker[s][tp].att)
    BY <2>1, JobFacts, DestinationFacts
  <2>3. Stage(up) = Dlq
    BY <2>1, <2>2, TopicsAssumption, TopicFacts DEF Destination, PartitionOf, Dlq
  <2>4. Routed(s, tp) \in Recs /\ AppendTo(up, Routed(s, tp)) /\ LogsTyped
    BY <1>2, <2>1, <2>2, JobFacts, TypedFacts DEF Routes
  <2>5. \A t \in TPs : t # up => log'[t] = log[t]
    BY <2>4, AppendFacts
  <2> QED
    BY <2>3, <2>5, TopicFacts DEF NoRetries, Subscribed
<1>3. \/ \E m \in Msgs, p \in Partitions : UserPublish(m, p)
      \/ \E s \in Sessions, tp \in Subscribed : Routes(s, tp)
      \/ log' = log
  BY WorkerLog DEF Next, vars, brokerVars, Environment, Run, Cancel,
     RevokePartition, Fence, LeaseExpires, Dispatcher, Poll, Send
<1> QED
  BY <1>1, <1>2, <1>3 DEF NoRetries

LEMMA InPlaceStep ==
    ASSUME Ordering = "PerPartition", "revoke" \notin Faults, "store" \notin Faults
    PROVE  DeliveryInv /\ InPlace /\ [Next]_vars => InPlace'
<1> SUFFICES ASSUME DeliveryInv, InPlace, [Next]_vars PROVE InPlace'
  OBVIOUS
<1>1. /\ TypeInv /\ LastAttempt /\ NobodyRevoked /\ NoRetries /\ PublishedOnce
  BY DEF DeliveryInv, InPlace
<1>2. LastAttempt'
  <2>1. ASSUME NEW s0 \in Sessions, NEW tp0 \in Subscribed, Worker(s0, tp0),
               NEW s \in Sessions, NEW tp \in Subscribed,
               worker'[s][tp].pc \in {"fail", "route", "publish", "lock", "stage", "txnCommit"}
        PROVE  worker'[s][tp].att = MaxRetries
    <3>1. CASE s = s0 /\ tp = tp0
      BY <1>1, <2>1, <3>1, WorkerLastAttempt
    <3>2. CASE ~(s = s0 /\ tp = tp0)
      <4>1. worker'[s][tp] = worker[s][tp]
        BY <1>1, <2>1, <3>2, WorkerMovesAlways DEF WorkerMoves, Moves
      <4> QED
        BY <1>1, <2>1, <4>1 DEF LastAttempt
    <3> QED
      BY <3>1, <3>2
  <2>2. CASE ~\E s \in Sessions, tp \in Subscribed : Worker(s, tp)
    BY <1>1, <2>2, OtherSteps DEF LastAttempt, WorkersStand
  <2> QED
    BY <2>1, <2>2 DEF LastAttempt
<1>3. NobodyRevoked'
  <2>1. revoked' = revoked
    BY <1>1, WorkerRest DEF Next, vars, brokerVars, Environment, UserPublish, Run,
       Cancel, RevokePartition, Fence, LeaseExpires, Dispatcher, Poll, Send
  <2> QED
    BY <1>1, <2>1 DEF NobodyRevoked
<1> QED
  BY <1>1, <1>2, <1>3, NoRetriesStep, PublishedOnceStep DEF InPlace

\* Where retries are in place, everything a busy worker passed is settled.
LEMMA PassedSettled ==
    ASSUME DeliveryInv, InPlace, NEW s \in Sessions, NEW tp \in Subscribed,
           ~At(s, tp, "idle")
    PROVE  /\ Stage(tp) = Main
           /\ \A o \in Nat : o < worker[s][tp].off => Settled(IdAt(tp, o))
<1>1. TypeInv /\ WorkerSound(s, tp) /\ NoRetries /\ NobodyRevoked
  BY DEF DeliveryInv, WorkersSound, InPlace
<1>2. Stage(tp) = Main
  <2>1. worker[s][tp].off \in Nat /\ worker[s][tp].off < Len(log[tp])
    BY <1>1, JobFacts
  <2>2. Len(<< >>) = 0
    OBVIOUS
  <2> QED
    BY <1>1, <2>1, <2>2 DEF NoRetries
<1>3. Passed(s, tp)
  BY <1>1 DEF WorkerSound, NobodyRevoked, Assigned
<1>4. \A up \in Subscribed : \A m \in Msgs : Stage(tp) < Stage(up) => ~Due(up, m)
  <2>1. Len(<< >>) = 0
    OBVIOUS
  <2> QED
    BY <1>1, <1>2, <2>1, TopicFacts DEF NoRetries, Due, Main
<1>5. \A o \in Nat : o < worker[s][tp].off => IdAt(tp, o) \in Msgs
  <2>1. \A n \in Nat : n < worker[s][tp].off => n < Len(log[tp])
    BY <1>1, RangeFacts DEF WorkerSound
  <2>2. tp \in TPs /\ log[tp] \in Seq(Recs)
    BY <1>1, TopicFacts, TypedFacts DEF LogsTyped
  <2>3. ASSUME NEW o \in Nat, o < worker[s][tp].off
        PROVE  IdAt(tp, o) \in Msgs
    <3>1. o + 1 \in 1 .. Len(log[tp])
      BY <2>1, <2>2, <2>3
    <3>2. log[tp][o + 1] \in Recs
      BY <2>2, <3>1
    <3> QED
      BY <3>2 DEF IdAt, Record, Recs
  <2> QED
    BY <2>3
<1> QED
  BY <1>2, <1>3, <1>4, <1>5 DEF Passed, Covered

LEMMA InOrderStep ==
    DeliveryInv /\ InPlace /\ InOrder /\ [Next]_vars => InOrder'
<1> SUFFICES ASSUME DeliveryInv, InPlace, InOrder, [Next]_vars,
                    NEW p \in Partitions,
                    NEW i \in 1 .. Len(log'[<<Main, p>>]),
                    NEW j \in 1 .. Len(log'[<<Main, p>>]),
                    i < j, Settled(log[<<Main, p>>][j].id)'
             PROVE  Settled(log[<<Main, p>>][i].id)'
  BY DEF InOrder
<1>1. TypeInv /\ PublishedOnce
  BY DEF DeliveryInv, InPlace
<1>2. PICK src \in TPs : src = <<Main, p>> /\ src \in Subscribed
  BY TopicFacts
<1>3. log[src] \in Seq(Recs) /\ Len(log[src]) \in Nat
  BY <1>1, TypedFacts DEF LogsTyped
<1>4. CASE \E m \in Msgs, p0 \in Partitions : UserPublish(m, p0)
  <2> PICK m \in Msgs, p0 \in Partitions : UserPublish(m, p0)
    BY <1>4
  <2>1. /\ LogsGrow /\ FateGrows /\ fate' = fate
        /\ \A t \in TPs : t # <<Main, p0>> => log'[t] = log[t]
        /\ \A n \in 1 .. Len(log'[<<Main, p0>>]) :
             \/ n \in 1 .. Len(log[<<Main, p0>>])
             \/ n = Len(log[<<Main, p0>>]) + 1 /\ log'[<<Main, p0>>][n].id = m
    BY <1>1, PublishAppends
  <2>2. \A n \in Msgs : Settled(n)' => Settled(n)
    <3>1. PartitionOf(Dlq) \in TPs /\ PartitionOf(Dlq) # <<Main, p0>>
      BY TopicFacts, TopicsAssumption DEF Main, Dlq, PartitionOf
    <3>2. log'[PartitionOf(Dlq)] = log[PartitionOf(Dlq)]
      BY <2>1, <3>1
    <3> QED
      BY <2>1, <3>2 DEF Settled, DeadLettered, Contains
  <2>3. ~Settled(m)
    BY OnlyAccepted DEF AcceptedFirst, UserPublish
  <2>4. j \in 1 .. Len(log[src])
    <3>1. CASE p = p0
      <4>1. log'[src][j].id = m => FALSE
        BY <1>2, <2>2, <2>3 DEF Settled, DeadLettered, Contains
      <4> QED
        BY <1>2, <2>1, <3>1, <4>1
    <3>2. CASE p # p0
      BY <1>2, <2>1, <3>2
    <3> QED
      BY <3>1, <3>2
  <2>5. i \in 1 .. Len(log[src])
    BY <1>2, <1>3, <2>4
  <2>6. log'[src][i] = log[src][i] /\ log'[src][j] = log[src][j]
    BY <2>1, <2>4, <2>5 DEF LogsGrow
  <2>7. PICK a, b \in Msgs : a = log[src][i].id /\ b = log[src][j].id
    <3>1. log[src][i] \in Recs /\ log[src][j] \in Recs
      BY <1>3, <2>4, <2>5
    <3> QED
      BY <3>1 DEF Recs
  <2>8. Settled(b)' /\ Settled(b)
    BY <1>2, <2>2, <2>6, <2>7 DEF Settled, DeadLettered, Contains
  <2>9. Settled(a)
    BY <1>2, <2>4, <2>5, <2>7, <2>8 DEF InOrder
  <2>10. Settled(a)'
    BY <1>1, <2>1, <2>9, GrowthFacts
  <2> QED
    BY <1>2, <2>6, <2>7, <2>10 DEF Settled, DeadLettered, Contains
<1>5. CASE ~\E m \in Msgs, p0 \in Partitions : UserPublish(m, p0)
  <2>1. LogsGrow /\ FateGrows /\ log'[src] = log[src]
    BY <1>2, <1>5, SourceKept
  <2>2. i \in 1 .. Len(log[src]) /\ j \in 1 .. Len(log[src])
    BY <1>2, <2>1
  <2>3. PICK a, b \in Msgs : a = log[src][i].id /\ b = log[src][j].id
    <3>1. log[src][i] \in Recs /\ log[src][j] \in Recs
      BY <1>3, <2>2
    <3> QED
      BY <3>1 DEF Recs
  <2>4. Settled(b)' /\ (Settled(a)' => Settled(log[src][i].id)')
    BY <1>2, <2>1, <2>3 DEF Settled, DeadLettered, Contains
  <2>5. CASE Settled(b)
    <3>1. Settled(a)
      BY <1>2, <2>2, <2>3, <2>5 DEF InOrder
    <3> QED
      BY <1>1, <1>2, <2>1, <2>4, <3>1, GrowthFacts
  <2>6. CASE ~Settled(b)
    <3>1. PICK s \in Sessions, tp \in Subscribed : Worker(s, tp)
      <4>1. \/ UNCHANGED <<fate, log>>
            \/ \E s \in Sessions, tp \in Subscribed : Worker(s, tp)
        BY <1>5 DEF Next, vars, brokerVars, Environment, Run, Cancel,
           RevokePartition, Fence, LeaseExpires, Dispatcher, Poll, Send
      <4> QED
        BY <2>4, <2>6, <4>1 DEF Settled, DeadLettered, Contains
    <3>2. ~At(s, tp, "idle") /\ b = Id(s, tp)
      BY <1>1, <2>4, <2>6, <3>1, WorkerSettles
    <3>3. Stage(tp) = Main /\ \A o \in Nat : o < worker[s][tp].off => Settled(IdAt(tp, o))
      BY <3>2, PassedSettled
    <3>4. PICK p0 \in Partitions : tp = <<Main, p0>>
      BY <3>3, TopicFacts DEF TPs, Stage, Main, Dlq
    <3>5. /\ worker[s][tp].off \in Nat
          /\ worker[s][tp].off + 1 \in 1 .. Len(log[tp])
          /\ b = log[tp][worker[s][tp].off + 1].id
      <4>1. Len(log[tp]) \in Nat
        BY <1>1, TopicFacts, TypedFacts DEF LogsTyped
      <4> QED
        BY <1>1, <3>2, <4>1, JobFacts DEF Id
    <3>6. p = p0 /\ j = worker[s][tp].off + 1
      <4>1. /\ j \in 1 .. Len(log[<<Main, p>>])
            /\ worker[s][tp].off + 1 \in 1 .. Len(log[<<Main, p0>>])
            /\ log[<<Main, p>>][j].id = b
            /\ log[<<Main, p0>>][worker[s][tp].off + 1].id = b
        BY <1>2, <2>2, <2>3, <3>4, <3>5
      <4> QED
        BY <1>1, <4>1 DEF PublishedOnce
    <3>7. i - 1 \in Nat /\ i - 1 < worker[s][tp].off /\ IdAt(tp, i - 1) = a
      BY <1>2, <2>2, <2>3, <3>4, <3>5, <3>6 DEF IdAt, Record
    <3>8. Settled(a)
      BY <3>3, <3>7
    <3> QED
      BY <1>1, <1>2, <2>1, <2>4, <3>8, GrowthFacts
  <2> QED
    BY <2>5, <2>6
<1> QED
  BY <1>4, <1>5

\* OrderingPerPartition keeps its word while partitions stay assigned and the
\* store answers: nobody decides about a record before its predecessors are
\* decided, however many sessions overlap, are cancelled or are fenced.
THEOREM DecidedInOrder ==
    ASSUME Ordering = "PerPartition", "revoke" \notin Faults, "store" \notin Faults
    PROVE  Spec => []InOrder
<1>1. Init => InPlace /\ InOrder
  <2> SUFFICES ASSUME Init PROVE InPlace /\ InOrder
    OBVIOUS
  <2>1. \A tp \in TPs : log[tp] = << >> /\ Len(log[tp]) = 0
    BY DEF Init, BrokerInit
  <2>2. LastAttempt /\ NobodyRevoked
    BY DEF Init, BrokerInit, LastAttempt, NobodyRevoked
  <2> QED
    BY <2>1, <2>2, TopicFacts DEF InPlace, NoRetries, PublishedOnce, InOrder
<1> QED
  BY <1>1, DeliveryInit, DeliveryStep, InPlaceStep, InOrderStep, PTL DEF Spec

(***************************************************************************)
(* How many copies of a message there are                                  *)
(***************************************************************************)
DonePCs == {"ack", "commit", "drain", "drainCommit"}

\* Session s will not route the i-th record of tp any more.
Done(s, tp, i) ==
    \/ i <= worker[s][tp].off
    \/ i = worker[s][tp].off + 1 /\ worker[s][tp].pc \in DonePCs

\* The sessions that are done with a copy of m below stage k, with that copy.
DoneBelow(k, m) ==
    {w \in Started \X CopiesBelow(k, m) : Done(w[1], w[2][1], w[2][2])}

\* The inductive form of DuplicatesBounded: each copy was made by a session
\* that is done with another one.
CopiesMade ==
    \A m \in Msgs : \A k \in 1 .. Dlq :
      Cardinality(Copies(PartitionOf(k), m)) <= Cardinality(DoneBelow(k, m))

LEMMA TopicsFinite ==
    ASSUME IsFiniteSet(Partitions)
    PROVE  IsFiniteSet(TPs)
<1>1. Dlq \in Nat
  BY TopicFacts
<1>2. IsFiniteSet({Main}) /\ IsFiniteSet({0})
  BY FS_Singleton
<1>3. IsFiniteSet(1 .. Dlq)
  BY <1>1, FS_Interval
<1>4. IsFiniteSet({Main} \X Partitions) /\ IsFiniteSet((1 .. Dlq) \X {0})
  BY <1>2, <1>3, FS_Product
<1> QED
  BY <1>4, FS_Union DEF TPs

LEMMA CopiesFinite ==
    ASSUME LogsTyped, NEW tp \in TPs, NEW m
    PROVE  IsFiniteSet(Copies(tp, m))
<1>1. Len(log[tp]) \in Nat
  BY DEF LogsTyped
<1>2. IsFiniteSet(1 .. Len(log[tp]))
  BY <1>1, FS_Interval
<1>3. IsFiniteSet({i \in 1 .. Len(log[tp]) : log[tp][i].id = m})
  BY <1>2, FS_Subset
<1>4. IsFiniteSet({tp})
  BY FS_Singleton
<1> QED
  BY <1>3, <1>4, FS_Product DEF Copies

LEMMA BelowFinite ==
    ASSUME LogsTyped, IsFiniteSet(Partitions), NEW k, NEW m
    PROVE  IsFiniteSet(CopiesBelow(k, m))
<1> DEFINE T == {t \in TPs : Stage(t) < k}
           F == [t \in T |-> Copies(t, m)]
           S == {Copies(tp, m) : tp \in T}
<1>1. IsFiniteSet(T)
  BY TopicsFinite, FS_Subset
<1>2. F \in Surjection(T, S)
  BY DEF Surjection
<1>3. IsFiniteSet(S)
  <2> HIDE DEF F, S, T
  <2> QED
    BY <1>1, <1>2, FS_Surjection
<1>4. \A C \in S : IsFiniteSet(C)
  BY CopiesFinite
<1>5. IsFiniteSet(UNION S)
  <2> HIDE DEF S
  <2> QED
    BY <1>3, <1>4, FS_UNION
<1> QED
  BY <1>5 DEF CopiesBelow

LEMMA DoneFinite ==
    ASSUME LogsTyped, IsFiniteSet(Partitions), IsFiniteSet(Sessions), NEW k, NEW m
    PROVE  /\ IsFiniteSet(DoneBelow(k, m))
           /\ Cardinality(DoneBelow(k, m)) <=
                Cardinality(Started) * Cardinality(CopiesBelow(k, m))
<1>1. IsFiniteSet(Started)
  BY FS_Subset DEF Started
<1>2. IsFiniteSet(CopiesBelow(k, m))
  BY BelowFinite
<1>3. /\ IsFiniteSet(Started \X CopiesBelow(k, m))
      /\ Cardinality(Started \X CopiesBelow(k, m)) =
           Cardinality(Started) * Cardinality(CopiesBelow(k, m))
  BY <1>1, <1>2, FS_Product
<1>4. DoneBelow(k, m) \in SUBSET (Started \X CopiesBelow(k, m))
  BY DEF DoneBelow
<1> QED
  BY <1>3, <1>4, FS_Subset

\* A session that is done with a record stays so: no redelivery within a
\* session.
LEMMA DoneMoves ==
    ASSUME TypeInv, NEW s \in Sessions, NEW tp \in Subscribed, Worker(s, tp),
           worker[s][tp].pc \in DonePCs
    PROVE  \/ worker'[s][tp].off = worker[s][tp].off /\ worker'[s][tp].pc \in DonePCs
           \/ worker'[s][tp].off = worker[s][tp].off + 1
<1>1. ~At(s, tp, "idle")
  BY DEF At, DonePCs
<1>2. CASE Finish(s, tp)
  BY <1>1, <1>2, FinishMoves DEF DonePCs
<1>3. CASE worker' = [worker EXCEPT ![s][tp] = NextJob(@)]
  BY <1>1, <1>3, NextJobMoves
<1>4. CASE \E pc \in {"commit", "drainCommit"} : Goto(s, tp, pc)
  BY <1>1, <1>4, GotoMoves DEF PCs, DonePCs
<1> QED
  BY <1>2, <1>3, <1>4
  DEF Worker, Take, WaitElapsed, Claim, ClaimError, HandlerOk, HandlerErr,
      BackoffElapsed, CloseClaim, Route, Publish, BeginTxn, StageTxn, CommitTxn,
      Ack, Commit, Drain, DrainCommit, At, DonePCs

LEMMA DoneStays ==
    ASSUME DeliveryInv, [Next]_vars, NEW s \in Sessions, NEW tp \in Subscribed,
           NEW i \in Nat \ {0}, Done(s, tp, i)
    PROVE  Done(s, tp, i)'
<1>1. TypeInv /\ TypeInv' /\ WorkerSound(s, tp)
  BY TypeStep DEF DeliveryInv, WorkersSound
<1>2. worker[s][tp].off \in Nat /\ worker'[s][tp].off \in Nat
  BY <1>1 DEF TypeInv, TypeOK
<1>3. CASE Worker(s, tp)
  <2>1. \/ worker'[s][tp].off = worker[s][tp].off
        \/ worker'[s][tp].off = worker[s][tp].off + 1
    BY <1>1, <1>3, WorkerMovesAlways DEF WorkerMoves
  <2> QED
    BY <1>1, <1>2, <1>3, <2>1, DoneMoves DEF Done
<1>4. ASSUME NEW s2 \in Sessions, NEW tp2 \in Subscribed, Worker(s2, tp2),
             ~(s = s2 /\ tp = tp2)
      PROVE  Done(s, tp, i)'
  <2>1. worker'[s][tp] = worker[s][tp]
    BY <1>1, <1>4, WorkerMovesAlways DEF WorkerMoves, Moves
  <2> QED
    BY <2>1 DEF Done
<1>5. CASE ~\E s2 \in Sessions, tp2 \in Subscribed : Worker(s2, tp2)
  <2>1. /\ worker'[s][tp].pc = worker[s][tp].pc
        /\ ~At(s, tp, "idle") => worker'[s][tp].off = worker[s][tp].off
        /\ fetch[s][tp] # Unpolled => worker'[s][tp].off = worker[s][tp].off
    BY <1>1, <1>5, OtherSteps DEF WorkersStand
  <2>2. CASE worker'[s][tp].off = worker[s][tp].off
    BY <2>1, <2>2 DEF Done
  <2>3. CASE worker'[s][tp].off # worker[s][tp].off
    <3>1. worker[s][tp].off = 0 /\ worker[s][tp].pc = "idle"
      BY <1>1, <2>1, <2>3 DEF WorkerSound, At
    <3> QED
      BY <3>1 DEF Done, DonePCs
  <2> QED
    BY <2>2, <2>3
<1> QED
  BY <1>3, <1>4, <1>5

LEMMA StepGrows ==
    ASSUME DeliveryInv, [Next]_vars
    PROVE  LogsGrow /\ Started \subseteq Started'
<1>1. TypeInv
  BY DEF DeliveryInv
<1>2. LogsGrow
  BY <1>1, OtherSteps, WorkerBroker
<1>3. \A s \in Sessions : ctx[s] # "new" => ctx'[s] # "new"
  <2>1. ctx \in [Sessions -> {"new", "live", "cancelled"}]
    BY <1>1 DEF TypeInv, TypeOK
  <2>2. CASE \E s \in Sessions : Run(s) \/ Cancel(s)
    BY <2>1, <2>2 DEF Run, Cancel
  <2>3. CASE ctx' = ctx
    BY <2>3
  <2> QED
    BY <1>1, <2>2, <2>3, WorkerRest DEF Next, vars, Environment, UserPublish,
       RevokePartition, Fence, LeaseExpires, Dispatcher, Poll, Send
<1> QED
  BY <1>2, <1>3 DEF Started

LEMMA DoneGrows ==
    ASSUME DeliveryInv, [Next]_vars, NEW m, NEW k \in 1 .. Dlq
    PROVE  DoneBelow(k, m) \subseteq DoneBelow(k, m)'
<1> SUFFICES ASSUME NEW w \in DoneBelow(k, m) PROVE w \in DoneBelow(k, m)'
  OBVIOUS
<1>1. LogsGrow /\ Started \subseteq Started' /\ LogsTyped
  BY StepGrows, TypedFacts DEF DeliveryInv
<1>2. PICK s \in Started, c \in CopiesBelow(k, m) : w = <<s, c>> /\ Done(s, c[1], c[2])
  BY DEF DoneBelow
<1>3. PICK tp \in TPs : Stage(tp) < k /\ c \in Copies(tp, m)
  BY <1>2 DEF CopiesBelow
<1>4. PICK i \in 1 .. Len(log[tp]) : c = <<tp, i>> /\ log[tp][i].id = m
  BY <1>3 DEF Copies
<1>5. /\ Len(log[tp]) \in Nat /\ Len(log'[tp]) \in Nat
      /\ Len(log[tp]) <= Len(log'[tp])
      /\ log'[tp][i] = log[tp][i]
  BY <1>1 DEF LogsTyped, LogsGrow
<1>6. i \in 1 .. Len(log'[tp]) /\ log'[tp][i].id = m /\ i \in Nat \ {0}
  BY <1>4, <1>5
<1>7. c \in CopiesBelow(k, m)'
  BY <1>3, <1>4, <1>6 DEF CopiesBelow, Copies
<1>8. Done(s, tp, i)'
  <2>1. s \in Sessions /\ Done(s, tp, i)
    BY <1>2, <1>4 DEF Started
  <2>2. tp \in Subscribed
    BY <1>3, TopicFacts
  <2> QED
    BY <1>6, <2>1, <2>2, DoneStays
<1> QED
  BY <1>1, <1>2, <1>4, <1>7, <1>8 DEF DoneBelow

\* The session that routes a record is done with it, and was not before.
LEMMA RouterDone ==
    ASSUME DeliveryInv, NEW s \in Sessions, NEW tp \in Subscribed,
           Worker(s, tp), Routes(s, tp), log' # log,
           NEW o \in Nat, o = worker[s][tp].off
    PROVE  ~Done(s, tp, o + 1) /\ Done(s, tp, o + 1)'
<1>1. TypeInv /\ ~At(s, tp, "idle") 
  BY DEF DeliveryInv, Routes, At
<1>2. ~Done(s, tp, o + 1)
  BY <1>1 DEF Done, DonePCs, Routes
<1>3. Goto(s, tp, "ack") \/ Finish(s, tp)
  BY DEF Worker, Take, WaitElapsed, Claim, ClaimError, HandlerOk, HandlerErr,
      BackoffElapsed, CloseClaim, Route, Publish, BeginTxn, StageTxn, CommitTxn,
      Ack, Commit, Drain, DrainCommit, At, Routes, brokerVars, Abandon
<1>4. Done(s, tp, o + 1)'
  <2>1. \/ worker'[s][tp].off = o /\ worker'[s][tp].pc \in DonePCs
        \/ worker'[s][tp].off = o + 1
    BY <1>1, <1>3, GotoMoves, FinishMoves DEF PCs, DonePCs
  <2>2. o + 1 <= o + 1
    OBVIOUS
  <2> QED
    BY <2>1, <2>2 DEF Done
<1> QED
  BY <1>2, <1>4

LEMMA CopiesStep ==
    ASSUME IsFiniteSet(Sessions), IsFiniteSet(Partitions)
    PROVE  DeliveryInv /\ DeliveryInv' /\ CopiesMade /\ [Next]_vars => CopiesMade'
<1> SUFFICES ASSUME DeliveryInv, DeliveryInv', CopiesMade, [Next]_vars,
                    NEW m \in Msgs, NEW k \in 1 .. Dlq
             PROVE  (Cardinality(Copies(PartitionOf(k), m))
                       <= Cardinality(DoneBelow(k, m)))'
  BY DEF CopiesMade
<1> DEFINE C == Copies(PartitionOf(k), m)
           D == DoneBelow(k, m)
<1>1. TypeInv /\ LogsTyped /\ LogsTyped'
  <2>1. TypeInv /\ TypeInv'
    BY DEF DeliveryInv
  <2> QED
    BY <2>1, TypedFacts DEF TypeInv, TypeOK, LogsTyped
<1>2. IsFiniteSet(D) /\ IsFiniteSet(D') /\ IsFiniteSet(C)
  <2>1. IsFiniteSet(D) /\ IsFiniteSet(C)
    BY <1>1, DoneFinite, CopiesFinite, TopicFacts
  <2>2. IsFiniteSet(D')
    <3>1. LogsTyped => IsFiniteSet(DoneBelow(k, m))
      BY DoneFinite
    <3>2. (LogsTyped => IsFiniteSet(DoneBelow(k, m)))'
      BY DoneFinite, PTL
    <3> QED
      BY <1>1, <3>2
  <2> QED
    BY <2>1, <2>2
<1>3. D \subseteq D'
  BY DoneGrows
<1>4. Cardinality(C) <= Cardinality(D)
  BY DEF CopiesMade
<1>5. /\ Cardinality(C) \in Nat /\ Cardinality(D) \in Nat /\ Cardinality(D') \in Nat
      /\ Cardinality(D) <= Cardinality(D')
  <2> HIDE DEF C, D
  <2> QED
    BY <1>2, <1>3, FS_CardinalityType, FS_Subset
<1>6. CASE C' = C
  <2> HIDE DEF C, D
  <2>1. Cardinality(C') <= Cardinality(D')
    BY <1>4, <1>5, <1>6
  <2> QED
    BY <2>1 DEF C, D
<1>7. CASE C' # C
  <2>1. log' # log
    BY <1>7 DEF Copies
  <2>2. ~\E m0 \in Msgs, p \in Partitions : UserPublish(m0, p)
    <3> SUFFICES ASSUME NEW m0 \in Msgs, NEW p \in Partitions, UserPublish(m0, p)
                 PROVE  FALSE
      OBVIOUS
    <3>1. PartitionOf(k) \in TPs /\ PartitionOf(k) # <<Main, p>>
      BY TopicFacts DEF Main
    <3>2. log'[PartitionOf(k)] = log[PartitionOf(k)]
      BY <1>1, <3>1, PublishAppends
    <3> QED
      BY <1>7, <3>2 DEF Copies
  <2>3. PICK s \in Sessions, tp \in Subscribed : Worker(s, tp) /\ Routes(s, tp)
    BY <2>1, <2>2, WorkerLog DEF Next, vars, brokerVars, Environment, Run, Cancel,
       RevokePartition, Fence, LeaseExpires, Dispatcher, Poll, Send
  <2>4. ~At(s, tp, "idle") /\ Stage(tp) <= worker[s][tp].att /\ tp \in TPs
    BY <2>3, TopicFacts DEF Routes, At, DeliveryInv, AttemptsMatch
  <2>5. PICK up \in TPs : up = Destination(worker[s][tp].att) /\ Stage(tp) < Stage(up)
    <3>1. /\ worker[s][tp].att \in 0 .. MaxRetries
          /\ Destination(worker[s][tp].att) \in TPs
          /\ worker[s][tp].att < Stage(Destination(worker[s][tp].att))
      BY <1>1, <2>4, JobFacts, DestinationFacts
    <3>2. Stage(tp) \in Nat /\ Stage(Destination(worker[s][tp].att)) \in Nat
      BY <2>4, <3>1, TopicFacts
    <3>3. Stage(tp) < Stage(Destination(worker[s][tp].att))
      BY <2>4, <3>1, <3>2, TopicsAssumption
    <3> QED
      BY <3>1, <3>3
  <2>6. Routed(s, tp) \in Recs /\ AppendTo(up, Routed(s, tp))
    BY <1>1, <2>3, <2>4, <2>5, JobFacts DEF Routes
  <2>7. /\ LogsGrow
        /\ Len(log[up]) \in Nat
        /\ Len(log'[up]) = Len(log[up]) + 1
        /\ log'[up][Len(log[up]) + 1].id = Id(s, tp)
        /\ \A t \in TPs : t # up => log'[t] = log[t]
        /\ \A i \in 1 .. Len(log[up]) : log'[up][i] = log[up][i]
    <3>1. /\ LogsGrow
          /\ Len(log'[up]) = Len(log[up]) + 1
          /\ log'[up][Len(log[up]) + 1] = Routed(s, tp)
          /\ \A t \in TPs : t # up => log'[t] = log[t]
      BY <1>1, <2>6, AppendFacts
    <3>2. Routed(s, tp).id = Id(s, tp)
      BY DEF Routed
    <3>3. Len(log[up]) \in Nat
      BY <1>1 DEF LogsTyped
    <3> QED
      BY <3>1, <3>2, <3>3 DEF LogsGrow
  <2>8. up = PartitionOf(k)
    <3>1. CASE up # PartitionOf(k)
      <4>1. log'[PartitionOf(k)] = log[PartitionOf(k)]
        BY <2>7, <3>1, TopicFacts
      <4> QED
        BY <1>7, <4>1 DEF Copies
    <3> QED
      BY <3>1
  <2> DEFINE L == Len(log[up])
             I == {i \in 1 .. L : log[up][i].id = m}
             J == {i \in 1 .. Len(log'[up]) : log'[up][i].id = m}
  <2>9. J = IF Id(s, tp) = m THEN I \cup {L + 1} ELSE I
    <3>1. 1 .. Len(log'[up]) = (1 .. L) \cup {L + 1}
      BY <2>7
    <3>2. \A i \in 1 .. L : i # L + 1
      BY <2>7
    <3> QED
      BY <2>7, <3>1, <3>2
  <2>10. Id(s, tp) = m /\ C' = C \cup {<<up, L + 1>>}
    <3>1. C = {up} \X I /\ C' = {up} \X J
      BY <2>8 DEF Copies
    <3> QED
      BY <1>7, <2>9, <3>1
  <2> PICK o \in Nat : o = worker[s][tp].off
    BY <1>1, <2>4, JobFacts
  <2> DEFINE w == <<s, <<tp, o + 1>>>>
  <2>11. w \notin D /\ w \in D'
    <3>1. ~Done(s, tp, o + 1) /\ Done(s, tp, o + 1)'
      BY <2>1, <2>3, RouterDone
    <3>2. s \in Started'
      <4>1. s \in Started
        BY <2>4 DEF DeliveryInv, WorkersSound, WorkerSound, Started
      <4> QED
        BY <4>1, StepGrows
    <3>3. <<tp, o + 1>> \in CopiesBelow(k, m)'
      <4>1. o + 1 \in 1 .. Len(log[tp]) /\ log[tp][o + 1].id = m
        <5>1. Len(log[tp]) \in Nat
          BY <1>1, <2>4 DEF LogsTyped
        <5> QED
          BY <1>1, <2>4, <2>10, <5>1, JobFacts DEF Id
      <4>2. o + 1 \in 1 .. Len(log'[tp]) /\ log'[tp][o + 1].id = m
        <5>1. Len(log[tp]) \in Nat /\ Len(log'[tp]) \in Nat
          BY <1>1, <2>4 DEF LogsTyped
        <5>2. Len(log[tp]) <= Len(log'[tp]) /\ log'[tp][o + 1] = log[tp][o + 1]
          BY <2>4, <2>7, <4>1 DEF LogsGrow
        <5> QED
          BY <4>1, <5>1, <5>2
      <4>3. Stage(tp) < k
        BY <2>5, <2>8, TopicFacts
      <4> QED
        BY <2>4, <4>2, <4>3 DEF CopiesBelow, Copies
    <3>4. w \notin D
      BY <3>1 DEF DoneBelow
    <3>5. w \in D'
      BY <3>1, <3>2, <3>3 DEF DoneBelow
    <3> QED
      BY <3>4, <3>5
  <2>12. Cardinality(C') <= Cardinality(D')
    <3> HIDE DEF C, D, w, L
    <3>1. Cardinality(C') <= Cardinality(C) + 1
      <4>1. PICK x : C' = C \cup {x}
        BY <2>10
      <4>2. Cardinality(C \cup {x}) \in {Cardinality(C), Cardinality(C) + 1}
        BY <1>2, FS_AddElement
      <4> QED
        BY <1>5, <4>1, <4>2
    <3>2. Cardinality(D \cup {w}) = Cardinality(D) + 1
      BY <1>2, <2>11, FS_AddElement
    <3>3. D \cup {w} \in SUBSET D'
      BY <1>3, <2>11
    <3>4. Cardinality(D \cup {w}) <= Cardinality(D')
      BY <1>2, <3>3, FS_Subset
    <3>5. Cardinality(C') \in Nat
      BY <1>2, <2>10, FS_AddElement, FS_CardinalityType
    <3> QED
      BY <1>4, <1>5, <3>1, <3>2, <3>4, <3>5
  <2> QED
    BY <2>12
<1> QED
  BY <1>6, <1>7

\* Retries do not multiply: a session routes each record it is given at most
\* once, so a topic holds no more copies of a message than there were sessions
\* times copies below it, whatever fails, expires, is fenced or revoked.
THEOREM CopiesBounded ==
    ASSUME IsFiniteSet(Sessions), IsFiniteSet(Partitions)
    PROVE  Spec => []DuplicatesBounded
<1>1. Init => CopiesMade
  <2> SUFFICES ASSUME Init, NEW m \in Msgs, NEW k \in 1 .. Dlq
               PROVE  Cardinality(Copies(PartitionOf(k), m))
                        <= Cardinality(DoneBelow(k, m))
    BY DEF CopiesMade
  <2>1. LogsTyped /\ PartitionOf(k) \in TPs /\ Len(log[PartitionOf(k)]) = 0
    BY TypeInit, TypedFacts, TopicFacts DEF Init, BrokerInit
  <2>2. Copies(PartitionOf(k), m) = {}
    BY <2>1 DEF Copies
  <2>3. IsFiniteSet(DoneBelow(k, m))
    BY <2>1, DoneFinite
  <2>4. Cardinality(DoneBelow(k, m)) \in Nat
    BY <2>3, FS_CardinalityType
  <2> QED
    BY <2>2, <2>4, FS_EmptySet
<1>2. ASSUME DeliveryInv, CopiesMade PROVE DuplicatesBounded
  <2> SUFFICES ASSUME NEW m \in Msgs, NEW k \in 1 .. Dlq
               PROVE  Cardinality(Copies(PartitionOf(k), m)) <=
                        Cardinality(Started) * Cardinality(CopiesBelow(k, m))
    BY DEF DuplicatesBounded
  <2>1. LogsTyped /\ PartitionOf(k) \in TPs
    BY <1>2, TypedFacts, TopicFacts DEF DeliveryInv
  <2>2. /\ IsFiniteSet(DoneBelow(k, m)) /\ IsFiniteSet(Copies(PartitionOf(k), m))
        /\ IsFiniteSet(Started) /\ IsFiniteSet(CopiesBelow(k, m))
        /\ Cardinality(DoneBelow(k, m)) <=
             Cardinality(Started) * Cardinality(CopiesBelow(k, m))
    BY <2>1, DoneFinite, CopiesFinite, BelowFinite, FS_Subset DEF Started
  <2>3. PICK a, b, c \in Nat : /\ a = Cardinality(Copies(PartitionOf(k), m))
                               /\ b = Cardinality(DoneBelow(k, m))
                               /\ c = Cardinality(Started) * Cardinality(CopiesBelow(k, m))
    <3>1. /\ Cardinality(Copies(PartitionOf(k), m)) \in Nat
          /\ Cardinality(DoneBelow(k, m)) \in Nat
          /\ Cardinality(Started) \in Nat
          /\ Cardinality(CopiesBelow(k, m)) \in Nat
      BY <2>2, FS_CardinalityType
    <3>2. Cardinality(Started) * Cardinality(CopiesBelow(k, m)) \in Nat
      BY <3>1
    <3> QED
      BY <3>1, <3>2
  <2>4. a <= b
    BY <1>2, <2>3 DEF CopiesMade
  <2> QED
    BY <2>2, <2>3, <2>4
<1>3. DeliveryInv /\ CopiesMade /\ [Next]_vars => (DeliveryInv /\ CopiesMade)'
  BY DeliveryStep, CopiesStep
<1> QED
  BY <1>1, <1>2, <1>3, DeliveryInit, PTL DEF Spec
=============================================================================

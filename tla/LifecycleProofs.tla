-------------------------- MODULE LifecycleProofs --------------------------
(***************************************************************************)
(* For any number of runs and partitions: no wake-up of Poll is lost, no   *)
(* worker outlives a run that waited for it, and the wait group is not     *)
(* used again too early unless runs overlap; and nobody waits for a worker *)
(* that is gone.                                                           *)
(*                                                                         *)
(* The first is proved of MemoryPoll, which Lifecycle implements; the      *)
(* others of what Lifecycle adds.                                          *)
(***************************************************************************)
EXTENDS Lifecycle, FiniteSetTheorems, TLAPS

(***************************************************************************)
(* Poll                                                                    *)
(***************************************************************************)
\* Only a subscription the broker knows is polled, so WakeAll reaches it.
PollInv ==
    /\ PollTypeOK
    /\ NoLostWakeup
    /\ \A s \in Subs : poll[s] # "out" => s \in known

LEMMA PollInitInv == PollInit => PollInv
<1> SUFFICES ASSUME PollInit PROVE PollInv
  OBVIOUS
<1>1. PollTypeOK
  BY DEF PollInit, PollTypeOK
<1> QED BY <1>1 DEF PollInit, PollInv, NoLostWakeup

\* Calls that wake every subscription.
LEMMA WakeAllInv ==
    ASSUME PollInv,
           CreateTopics \/ CloseBroker \/ \E p \in Parts : Publish(p)
    PROVE  PollInv'
<1>1. UNCHANGED <<known, subClosed, revoked, fetch, owed, poll>> /\ WakeAll
  BY DEF CreateTopics, CloseBroker, Publish
<1>2. brokerClosed' \in BOOLEAN /\ count' \in [Parts -> Nat]
  <2>1. brokerClosed \in BOOLEAN /\ count \in [Parts -> Nat]
    BY DEF PollInv, PollTypeOK
  <2>2. CASE CreateTopics \/ CloseBroker
    BY <2>1, <2>2 DEF CreateTopics, CloseBroker
  <2>3. CASE \E p \in Parts : Publish(p)
    BY <2>1, <2>3 DEF Publish
  <2> QED BY <2>2, <2>3
<1>3. token' \in [Subs -> BOOLEAN] /\ \A s \in Subs : s \in known => token'[s]
  BY <1>1 DEF WakeAll, PollInv, PollTypeOK
<1>4. PollTypeOK'
  BY <1>1, <1>2, <1>3 DEF PollInv, PollTypeOK
<1> QED BY <1>1, <1>3, <1>4 DEF PollInv, NoLostWakeup

\* Calls on one subscription.
LEMMA SubCallInv ==
    ASSUME PollInv, NEW s \in Subs,
           \/ Subscribe(s) \/ MarkClosed(s) \/ SendToken(s)
           \/ \E p \in Parts : MarkRevoked(s, p)
    PROVE  PollInv'
<1>1. UNCHANGED <<brokerClosed, count, fetch, poll>>
  BY DEF Subscribe, MarkClosed, SendToken, MarkRevoked
<1>2. CASE Subscribe(s)
  <2>1. known' = known \cup {s} /\ UNCHANGED <<subClosed, revoked, token, owed>>
    BY <1>2 DEF Subscribe
  <2>2. PollTypeOK'
    BY <1>1, <2>1 DEF PollInv, PollTypeOK
  <2> QED BY <1>1, <2>1, <2>2 DEF PollInv, NoLostWakeup, Available
<1>3. CASE MarkClosed(s) \/ \E p \in Parts : MarkRevoked(s, p)
  <2>1. UNCHANGED <<known, token>> /\ owed' = [owed EXCEPT ![s] = @ + 1]
    BY <1>3 DEF MarkClosed, MarkRevoked, Owe
  <2>2. /\ subClosed' \in [Subs -> BOOLEAN] /\ revoked' \in [Subs -> SUBSET Parts]
        /\ \A t \in Subs : t # s => subClosed'[t] = subClosed[t] /\ revoked'[t] = revoked[t]
    <3>1. subClosed \in [Subs -> BOOLEAN] /\ revoked \in [Subs -> SUBSET Parts]
      BY DEF PollInv, PollTypeOK
    <3>2. CASE MarkClosed(s)
      BY <3>1, <3>2 DEF MarkClosed
    <3>3. CASE \E p \in Parts : MarkRevoked(s, p)
      BY <3>1, <3>3 DEF MarkRevoked
    <3> QED BY <1>3, <3>2, <3>3
  <2>3. /\ owed' \in [Subs -> Nat] /\ owed'[s] # 0
        /\ \A t \in Subs : t # s => owed'[t] = owed[t]
    BY <2>1 DEF PollInv, PollTypeOK
  <2>4. PollTypeOK'
    BY <1>1, <2>1, <2>2, <2>3 DEF PollInv, PollTypeOK
  <2> QED BY <1>1, <2>1, <2>2, <2>3, <2>4 DEF PollInv, NoLostWakeup, Available
<1>4. CASE SendToken(s)
  <2>1. /\ UNCHANGED <<known, subClosed, revoked>> /\ owed[s] > 0
        /\ owed' = [owed EXCEPT ![s] = @ - 1] /\ token' = [token EXCEPT ![s] = TRUE]
    BY <1>4 DEF SendToken
  <2>2. PollTypeOK'
    BY <1>1, <2>1 DEF PollInv, PollTypeOK
  <2>3. token'[s] /\ \A t \in Subs : t # s => token'[t] = token[t] /\ owed'[t] = owed[t]
    BY <2>1 DEF PollInv, PollTypeOK
  <2> QED BY <1>1, <2>1, <2>2, <2>3 DEF PollInv, NoLostWakeup, Available
<1> QED BY <1>2, <1>3, <1>4

\* The poll itself.
LEMMA PollStepInv ==
    ASSUME PollInv, NEW s \in Subs,
           \/ Call(s) \/ PollClosed(s) \/ PollEmpty(s) \/ Block(s) \/ Wake(s)
           \/ PollCancelled(s) \/ \E p \in Parts : PollRecord(s, p)
    PROVE  PollInv'
<1>1. UNCHANGED <<brokerClosed, count, known, subClosed, revoked, owed>>
  BY DEF Call, PollClosed, PollEmpty, Block, Wake, PollCancelled, PollRecord
<1>2. PICK x \in {"out", "scan", "empty", "wait"} : poll' = [poll EXCEPT ![s] = x]
  BY DEF Call, PollClosed, PollEmpty, Block, Wake, PollCancelled, PollRecord, PollStep
<1>3. poll \in [Subs -> {"out", "scan", "empty", "wait"}]
  BY DEF PollInv, PollTypeOK
<1>4. /\ fetch' \in [Subs -> [Parts -> Nat]] /\ token' \in [Subs -> BOOLEAN]
      /\ \A t \in Subs : t # s => fetch'[t] = fetch[t] /\ token'[t] = token[t]
  <2>1. fetch \in [Subs -> [Parts -> Nat]] /\ token \in [Subs -> BOOLEAN]
    BY DEF PollInv, PollTypeOK
  <2>2. CASE Call(s) \/ PollClosed(s) \/ PollEmpty(s) \/ Block(s) \/ PollCancelled(s)
    BY <2>1, <2>2 DEF Call, PollClosed, PollEmpty, Block, PollCancelled
  <2>3. CASE Wake(s)
    BY <2>1, <2>3 DEF Wake
  <2>4. CASE \E p \in Parts : PollRecord(s, p)
    <3>1. PICK p \in Parts : fetch' = [fetch EXCEPT ![s][p] = @ + 1] /\ token' = token
      BY <2>4 DEF PollRecord
    <3>2. fetch[s][p] \in Nat
      BY <2>1
    <3> QED BY <2>1, <3>1, <3>2
  <2> QED BY <2>2, <2>3, <2>4
<1>5. PollTypeOK'
  BY <1>1, <1>2, <1>3, <1>4 DEF PollInv, PollTypeOK
<1>6. x # "out" => s \in known
  BY <1>2, <1>3 DEF Call, PollClosed, PollEmpty, Block, Wake, PollCancelled, PollRecord,
     PollStep, PollInv
<1>7. ASSUME x \in {"empty", "wait"}, ~token'[s], owed[s] = 0
      PROVE  ~brokerClosed /\ ~subClosed[s] /\ \A p \in Parts : ~Available(s, p)'
  <2>1. PollEmpty(s) \/ Block(s)
    BY <1>2, <1>3, <1>7 DEF Call, PollClosed, Wake, PollCancelled, PollRecord, PollStep
  <2>2. UNCHANGED <<fetch, token>>
    BY <2>1 DEF PollEmpty, Block
  <2>3. CASE PollEmpty(s)
    BY <2>3, <1>1, <2>2 DEF PollEmpty, Scanning, Available
  <2>4. CASE Block(s)
    BY <2>4, <1>1, <1>7, <2>2 DEF Block, PollStep, PollInv, NoLostWakeup, Available
  <2> QED BY <2>1, <2>3, <2>4
<1>8. NoLostWakeup'
  <2> SUFFICES ASSUME NEW t \in Subs, poll'[t] \in {"empty", "wait"}, ~token'[t], owed[t] = 0
               PROVE  /\ ~brokerClosed /\ ~subClosed[t]
                      /\ \A p \in Parts : ~Available(t, p)'
    BY <1>1 DEF NoLostWakeup
  <2>1. CASE t = s
    BY <2>1, <1>2, <1>3, <1>7
  <2>2. CASE t # s
    BY <2>2, <1>1, <1>2, <1>3, <1>4 DEF PollInv, NoLostWakeup, Available
  <2> QED BY <2>1, <2>2
<1> QED BY <1>1, <1>2, <1>3, <1>5, <1>6, <1>8 DEF PollInv

LEMMA PollNextInv == PollInv /\ [PollNext]_pollVars => PollInv'
<1> SUFFICES ASSUME PollInv, [PollNext]_pollVars PROVE PollInv'
  OBVIOUS
<1>1. CASE UNCHANGED pollVars
  BY <1>1 DEF pollVars, PollInv, PollTypeOK, NoLostWakeup, Available
<1>2. CASE PollNext
  BY <1>2, WakeAllInv, SubCallInv, PollStepInv DEF PollNext
<1> QED BY <1>1, <1>2

\* The broker alone, with whatever callers: no poll is left asleep (memSub.Poll).
THEOREM NoWakeupIsLost == PollSpec => [](PollTypeOK /\ NoLostWakeup)
<1>1. PollInv => PollTypeOK /\ NoLostWakeup
  BY DEF PollInv
<1> QED BY <1>1, PollInitInv, PollNextInv, PTL DEF PollSpec

\* Consumers are such callers.
LEMMA StepIsPollStep == [Next]_vars => [PollNext]_pollVars
<1> SUFFICES ASSUME [Next]_vars PROVE [PollNext]_pollVars
  OBVIOUS
<1>1. CASE UNCHANGED vars
  BY <1>1 DEF vars
<1>2. CASE Environment \/ CloseDriver
  BY <1>2 DEF Environment, CloseDriver, CloseConsumer, ClosePublisher, PublishRecord, Start,
     CancelContext, PollNext, pollVars
<1>3. CASE \E s \in Subs : Dispatcher(s)
  <2>1. PICK s \in Subs : Dispatcher(s)
    BY <1>3
  <2>2. CASE Arm(s) \/ Create(s) \/ SubscribeRun(s) \/ CallPoll(s) \/ Polling(s) \/ PollEnds(s)
    BY <2>2 DEF Arm, Create, SubscribeRun, CallPoll, Polling, PollEnds, PollNext, pollVars
  <2>3. CASE \/ \E p \in Parts : Polled(s, p)
             \/ Send(s) \/ SendCancelled(s) \/ Leave(s) \/ Return(s)
    BY <2>3 DEF Polled, Send, SendCancelled, Leave, Return, PollNext, pollVars
  <2> QED BY <2>1, <2>2, <2>3 DEF Dispatcher
<1>4. CASE \E s \in Subs : Waiter(s) \/ TokenSent(s)
  BY <1>4 DEF Waiter, WaitGroup, Resume, TokenSent, PollNext, pollVars
<1>5. CASE \E s \in Subs, p \in Parts : Worker(s, p)
  BY <1>5 DEF Worker, TakeJob, JobDone, WorkerExits, pollVars
<1> QED BY <1>1, <1>2, <1>3, <1>4, <1>5 DEF Next

\* The runs of a consumer, its workers and Close wake the polls as the broker
\* needs it: no record and no close is slept through (Consumer.Run, Close).
THEOREM RunsMissNoWakeup == Spec => []NoLostWakeup
<1>1. Init => PollInit
  BY DEF Init
<1>2. Spec => PollSpec
  BY <1>1, StepIsPollStep, PTL DEF Spec, PollSpec
<1> QED BY <1>2, NoWakeupIsLost, PTL

(***************************************************************************)
(* Runs, workers and the wait group                                        *)
(***************************************************************************)
AliveSet == {x \in Subs \X Parts : Alive(x[1], x[2])}

\* The counter of the wait group is the number of workers there are.
Counting == IsFiniteSet(AliveSet) /\ wg = Cardinality(AliveSet)

Waiting == {"wait", "returned"}
Early == {"new", "planned", "armed", "created", "refused"}

\* Who was let go once, or has just begun, has no worker: a run that left its
\* loop starts none.
Stations ==
    \A s \in Subs :
      /\ waiter[s] # "none" <=> run[s] \in Waiting
      /\ waiter[s] \in {"released", "done"} \/ run[s] \in Early =>
           \A p \in Parts : ~Alive(s, p)
      /\ run[s] = "returned" /\ s \notin timedOut => waiter[s] = "done"

\* As long as no runs overlapped, at most one is not over.
Alone == overlap \/ \A s, t \in Subs : ~Over(s) /\ ~Over(t) => s = t

RunInv ==
    /\ RunTypeOK
    /\ Counting
    /\ Stations
    /\ Alone
    /\ CrashNeedsOverlap

LEMMA RunInitInv == Init => RunInv
<1> SUFFICES ASSUME Init PROVE RunInv
  OBVIOUS
<1> USE LifecycleAssumption, PollAssumption
<1>1. \A s \in Subs, p \in Parts : worker[s][p] = "none"
  BY DEF Init
<1>2. AliveSet = {}
  BY <1>1 DEF AliveSet, Alive
<1>3. Counting
  BY <1>2, FS_EmptySet DEF Counting, Init
<1>4. 1 \in Parts
  BY DEF Parts
<1>5. RunTypeOK
  <2>1. worker \in [Subs -> [Parts -> {"none", "idle", "busy", "gone"}]]
    BY DEF Init
  <2>2. buf \in [Subs -> [Parts -> 0 .. ChanCap]]
    BY DEF Init
  <2>3. sending \in [Subs -> Parts]
    BY <1>4 DEF Init
  <2> QED BY <2>1, <2>2, <2>3 DEF Init, RunTypeOK
<1>6. Stations
  BY <1>1 DEF Init, Stations, Alive, Waiting
<1>7. Alone /\ CrashNeedsOverlap
  BY DEF Init, Alone, Over, CrashNeedsOverlap
<1> QED BY <1>3, <1>5, <1>6, <1>7 DEF RunInv

\* Steps that leave the workers and the wait group alone keep the count.
LEMMA SameCount ==
    ASSUME RunInv, UNCHANGED <<worker, wg>>
    PROVE  Counting'
<1>1. AliveSet' = AliveSet
  BY DEF AliveSet, Alive
<1> QED BY <1>1 DEF RunInv, Counting

\* A run goes on, or stops before it had a worker.
LEMMA MoveInv ==
    ASSUME RunInv, NEW s \in Subs, NEW x \in {"armed", "created", "poll", "send", "leave", "refused"},
           run[s] \notin Waiting \cup {"new", "refused"}, x \in Early => run[s] \in Early,
           run' = [run EXCEPT ![s] = x], RunTypeOK',
           UNCHANGED <<worker, wg, waiter, timedOut, overlap, crashed>>
    PROVE  RunInv'
<1>1. run \in [Subs -> {"new", "planned", "armed", "created", "poll", "send",
                        "leave", "wait", "returned", "refused"}]
  BY DEF RunInv, RunTypeOK
<1>2. Counting'
  BY SameCount
<1>3. Stations'
  BY <1>1 DEF RunInv, Stations, Alive, Waiting, Early
<1>4. \A t \in Subs : Over(t) => Over(t)'
  BY <1>1 DEF Over, Waiting
<1>5. Alone' /\ CrashNeedsOverlap'
  BY <1>4 DEF RunInv, Alone, CrashNeedsOverlap
<1> QED BY <1>2, <1>3, <1>5 DEF RunInv

\* Nothing the invariant speaks of but c.closed, c.cancel and the contexts.
LEMMA IdleInv ==
    ASSUME RunInv, UNCHANGED <<run, sending, worker, buf, wg, waiter, timedOut, overlap, crashed>>,
           closed' \in BOOLEAN, cancelFn' \in SUBSET Subs, done' \in [Subs -> BOOLEAN],
           closer' \in {"open", "marked", "closed"}
    PROVE  RunInv'
<1>1. RunTypeOK'
  BY DEF RunInv, RunTypeOK
<1>2. Counting'
  BY SameCount
<1>3. Stations' /\ Alone' /\ CrashNeedsOverlap'
  BY DEF RunInv, Stations, Alive, Alone, Over, CrashNeedsOverlap
<1> QED BY <1>1, <1>2, <1>3 DEF RunInv

LEMMA StartInv ==
    ASSUME RunInv, NEW s \in Subs, Start(s)
    PROVE  RunInv'
<1>1. /\ run[s] = "new" /\ UNCHANGED <<closed, cancelFn, done, sending, worker, buf, wg, waiter,
                                       closer, timedOut, crashed>>
      /\ overlap' = (overlap \/ \E t \in Subs \ {s} : ~Over(t))
  BY DEF Start, RunStep
<1>2. PICK x \in {"refused", "planned"} : run' = [run EXCEPT ![s] = x]
  BY DEF Start, RunStep
<1>3. run \in [Subs -> {"new", "planned", "armed", "created", "poll", "send",
                        "leave", "wait", "returned", "refused"}]
  BY DEF RunInv, RunTypeOK
<1>4. overlap' \in BOOLEAN
  BY <1>1
<1>5. RunTypeOK'
  BY <1>1, <1>2, <1>3, <1>4 DEF RunInv, RunTypeOK
<1>6. Counting'
  BY <1>1, SameCount
<1>7. Stations'
  BY <1>1, <1>2, <1>3 DEF RunInv, Stations, Alive, Waiting, Early
<1>8. Alone'
  <2>1. SUFFICES ASSUME ~overlap' PROVE \A t \in Subs : t # s => Over(t)'
    BY DEF Alone
  <2>2. \A t \in Subs : t # s => Over(t)
    BY <2>1, <1>1
  <2>3. \A t \in Subs : t # s => run'[t] = run[t]
    BY <1>2, <1>3
  <2> QED BY <2>2, <2>3, <1>1 DEF Over
<1>9. CrashNeedsOverlap'
  BY <1>1 DEF RunInv, CrashNeedsOverlap
<1> QED BY <1>5, <1>6, <1>7, <1>8, <1>9 DEF RunInv

LEMMA LoopInv ==
    ASSUME RunInv, NEW s \in Subs,
           \/ Arm(s) \/ Create(s) \/ SubscribeRun(s)
           \/ PollEnds(s) \/ Send(s) \/ SendCancelled(s)
    PROVE  RunInv'
<1> USE LifecycleAssumption
<1>1. PICK x \in {"armed", "created", "poll", "send", "leave", "refused"} :
         /\ run' = [run EXCEPT ![s] = x]
         /\ run[s] \notin Waiting \cup {"new", "refused"}
         /\ x \in Early => run[s] \in Early
  BY DEF Arm, Create, SubscribeRun, PollEnds, Send, SendCancelled, RunStep, Waiting, Early
<1>2. UNCHANGED <<closed, sending, worker, wg, waiter, closer, timedOut, overlap, crashed>>
  BY DEF Arm, Create, SubscribeRun, PollEnds, Send, SendCancelled
<1>3. run \in [Subs -> {"new", "planned", "armed", "created", "poll", "send",
                        "leave", "wait", "returned", "refused"}]
  BY DEF RunInv, RunTypeOK
<1>4. cancelFn' \in SUBSET Subs /\ done' \in [Subs -> BOOLEAN]
  <2>1. cancelFn \in SUBSET Subs /\ done \in [Subs -> BOOLEAN]
    BY DEF RunInv, RunTypeOK
  <2> QED BY <2>1 DEF Arm, Create, SubscribeRun, PollEnds, Send, SendCancelled, Cancelled
<1>5. buf' \in [Subs -> [Parts -> 0 .. ChanCap]]
  <2>1. buf \in [Subs -> [Parts -> 0 .. ChanCap]] /\ sending[s] \in Parts
    BY DEF RunInv, RunTypeOK
  <2>2. CASE Send(s)
    <3>1. buf[s][sending[s]] + 1 \in 0 .. ChanCap
      BY <2>1, <2>2 DEF Send
    <3> QED BY <2>1, <2>2, <3>1 DEF Send
  <2>3. CASE Arm(s) \/ Create(s) \/ SubscribeRun(s) \/ PollEnds(s) \/ SendCancelled(s)
    BY <2>1, <2>3 DEF Arm, Create, SubscribeRun, PollEnds, SendCancelled
  <2> QED BY <2>2, <2>3
<1>6. RunTypeOK'
  BY <1>1, <1>2, <1>3, <1>4, <1>5 DEF RunInv, RunTypeOK
<1> QED BY <1>1, <1>2, <1>6, MoveInv

\* The first record of a partition starts a worker; the run is in its loop.
LEMMA PolledInv ==
    ASSUME RunInv, NEW s \in Subs, NEW p \in Parts, Polled(s, p)
    PROVE  RunInv'
<1>1. /\ run[s] = "poll" /\ run' = [run EXCEPT ![s] = "send"]
      /\ sending' = [sending EXCEPT ![s] = p] /\ StartWorker(s, p)
      /\ UNCHANGED <<closed, cancelFn, done, buf, waiter, closer, timedOut, overlap, crashed>>
  BY DEF Polled, RunStep
<1>2. /\ run \in [Subs -> {"new", "planned", "armed", "created", "poll", "send",
                           "leave", "wait", "returned", "refused"}]
      /\ worker \in [Subs -> [Parts -> {"none", "idle", "busy", "gone"}]]
      /\ sending \in [Subs -> Parts] /\ wg \in Nat
  BY DEF RunInv, RunTypeOK
<1>3. /\ worker' \in [Subs -> [Parts -> {"none", "idle", "busy", "gone"}]] /\ wg' \in Nat
      /\ \A t \in Subs : t # s => worker'[t] = worker[t]
      /\ Counting'
  <2>1. CASE worker[s][p] = "none"
    <3>1. worker' = [worker EXCEPT ![s][p] = "idle"] /\ wg' = wg + 1
      BY <1>1, <2>1 DEF StartWorker
    <3>2. AliveSet' = AliveSet \cup {<<s, p>>} /\ <<s, p>> \notin AliveSet
      BY <1>2, <2>1, <3>1 DEF AliveSet, Alive
    <3>3. IsFiniteSet(AliveSet) /\ wg = Cardinality(AliveSet)
      BY DEF RunInv, Counting
    <3>4. IsFiniteSet(AliveSet') /\ Cardinality(AliveSet') = wg + 1
      BY <3>2, <3>3, FS_AddElement
    <3> QED BY <1>2, <3>1, <3>4 DEF Counting
  <2>2. CASE worker[s][p] # "none"
    <3>1. UNCHANGED <<worker, wg>>
      BY <1>1, <2>2 DEF StartWorker
    <3> QED BY <1>2, <3>1, SameCount
  <2> QED BY <2>1, <2>2
<1>4. RunTypeOK'
  <2>1. run' \in [Subs -> {"new", "planned", "armed", "created", "poll", "send",
                           "leave", "wait", "returned", "refused"}]
    BY <1>1, <1>2
  <2>2. sending' \in [Subs -> Parts]
    BY <1>1, <1>2
  <2> QED BY <1>1, <1>3, <2>1, <2>2 DEF RunInv, RunTypeOK
<1>5. Stations'
  <2> SUFFICES ASSUME NEW t \in Subs
               PROVE  /\ waiter[t] # "none" <=> run'[t] \in Waiting
                      /\ waiter[t] \in {"released", "done"} \/ run'[t] \in Early =>
                           \A q \in Parts : ~Alive(t, q)'
                      /\ run'[t] = "returned" /\ t \notin timedOut => waiter[t] = "done"
    BY <1>1 DEF Stations
  <2>1. CASE t = s
    <3>1. run'[t] = "send" /\ waiter[t] = "none"
      BY <1>1, <1>2, <2>1 DEF RunInv, Stations, Waiting
    <3> QED BY <3>1 DEF Waiting, Early
  <2>2. CASE t # s
    BY <1>1, <1>2, <1>3, <2>2 DEF RunInv, Stations, Alive
  <2> QED BY <2>1, <2>2
<1>6. Alone' /\ CrashNeedsOverlap'
  <2>1. \A t \in Subs : Over(t) => Over(t)'
    BY <1>1, <1>2 DEF Over
  <2> QED BY <1>1, <2>1 DEF RunInv, Alone, CrashNeedsOverlap
<1> QED BY <1>3, <1>4, <1>5, <1>6 DEF RunInv

LEMMA LeaveInv ==
    ASSUME RunInv, NEW s \in Subs, Leave(s) \/ Return(s)
    PROVE  RunInv'
<1>1. UNCHANGED <<closed, cancelFn, sending, worker, buf, wg, closer, overlap, crashed>>
  BY DEF Leave, Return
<1>2. /\ run \in [Subs -> {"new", "planned", "armed", "created", "poll", "send",
                           "leave", "wait", "returned", "refused"}]
      /\ waiter \in [Subs -> {"none", "start", "blocked", "released", "done"}]
      /\ done \in [Subs -> BOOLEAN] /\ timedOut \in SUBSET Subs
  BY DEF RunInv, RunTypeOK
<1>3. Counting'
  BY <1>1, SameCount
<1>4. CASE Leave(s)
  <2>1. /\ run[s] = "leave" /\ run' = [run EXCEPT ![s] = "wait"]
        /\ waiter' = [waiter EXCEPT ![s] = "start"] /\ timedOut' = timedOut
        /\ done' = [done EXCEPT ![s] = TRUE]
    BY <1>4 DEF Leave, RunStep, Cancelled
  <2>2. RunTypeOK'
    BY <1>1, <1>2, <2>1 DEF RunInv, RunTypeOK
  <2>3. Stations'
    BY <1>1, <1>2, <2>1 DEF RunInv, Stations, Alive, Waiting, Early
  <2>4. \A t \in Subs : Over(t) => Over(t)'
    BY <1>2, <2>1 DEF Over
  <2> QED BY <1>1, <1>3, <2>2, <2>3, <2>4 DEF RunInv, Alone, CrashNeedsOverlap
<1>5. CASE Return(s)
  <2>1. /\ run[s] = "wait" /\ run' = [run EXCEPT ![s] = "returned"]
        /\ waiter' = waiter /\ done' = done
        /\ \/ waiter[s] = "done" /\ timedOut' = timedOut
           \/ timedOut' = timedOut \cup {s}
    BY <1>5 DEF Return, RunStep
  <2>2. RunTypeOK'
    BY <1>1, <1>2, <2>1 DEF RunInv, RunTypeOK
  <2>3. Stations'
    BY <1>1, <1>2, <2>1 DEF RunInv, Stations, Alive, Waiting, Early
  <2>4. \A t \in Subs : Over(t) => Over(t)'
    BY <1>2, <2>1 DEF Over
  <2> QED BY <1>1, <1>3, <2>2, <2>3, <2>4 DEF RunInv, Alone, CrashNeedsOverlap
<1> QED BY <1>4, <1>5

\* Who finds the counter at 0 has no worker.
LEMMA WaitGroupInv ==
    ASSUME RunInv, NEW s \in Subs, WaitGroup(s)
    PROVE  RunInv'
<1>1. /\ waiter[s] = "start"
      /\ waiter' = [waiter EXCEPT ![s] = IF wg = 0 THEN "done" ELSE "blocked"]
      /\ UNCHANGED <<closed, cancelFn, done, run, sending, worker, buf, wg, closer, timedOut,
                     overlap, crashed>>
  BY DEF WaitGroup
<1>2. waiter \in [Subs -> {"none", "start", "blocked", "released", "done"}]
  BY DEF RunInv, RunTypeOK
<1>3. wg = 0 => \A p \in Parts : ~Alive(s, p)
  <2>1. wg = 0 => AliveSet = {}
    BY FS_EmptySet DEF RunInv, Counting
  <2>2. \A p \in Parts : Alive(s, p) => <<s, p>> \in AliveSet
    BY DEF AliveSet
  <2> QED BY <2>1, <2>2
<1>4. RunTypeOK'
  BY <1>1, <1>2 DEF RunInv, RunTypeOK
<1>5. Counting'
  BY <1>1, SameCount
<1>6. Stations'
  BY <1>1, <1>2, <1>3 DEF RunInv, Stations, Alive
<1>7. Alone' /\ CrashNeedsOverlap'
  BY <1>1 DEF RunInv, Alone, Over, CrashNeedsOverlap
<1> QED BY <1>4, <1>5, <1>6, <1>7 DEF RunInv

\* Who was let go finds the counter at 0 again only if there were other runs.
LEMMA ResumeInv ==
    ASSUME RunInv, NEW s \in Subs, Resume(s), ~crashed
    PROVE  RunInv'
<1>1. /\ waiter[s] = "released" /\ waiter' = [waiter EXCEPT ![s] = "done"]
      /\ crashed' = (wg # 0)
      /\ UNCHANGED <<closed, cancelFn, done, run, sending, worker, buf, wg, closer, timedOut,
                     overlap>>
  BY DEF Resume
<1>2. waiter \in [Subs -> {"none", "start", "blocked", "released", "done"}]
  BY DEF RunInv, RunTypeOK
<1>3. crashed' \in BOOLEAN
  BY <1>1
<1>4. RunTypeOK'
  BY <1>1, <1>2, <1>3 DEF RunInv, RunTypeOK
<1>5. Counting'
  BY <1>1, SameCount
<1>6. Stations'
  BY <1>1, <1>2 DEF RunInv, Stations, Alive
<1>7. Alone'
  BY <1>1 DEF RunInv, Alone, Over
<1>8. CrashNeedsOverlap'
  <2>1. SUFFICES ASSUME ~overlap PROVE wg = 0
    BY <1>1 DEF CrashNeedsOverlap
  <2>2. run[s] \in Waiting /\ ~Over(s)
    BY <1>1 DEF RunInv, Stations, Over, Waiting
  <2>3. \A t \in Subs : t # s => Over(t)
    BY <2>1, <2>2 DEF RunInv, Alone
  <2>4. \A t \in Subs, p \in Parts : ~Alive(t, p)
    BY <1>1, <2>3 DEF RunInv, Stations, Over, Early
  <2>5. AliveSet = {}
    BY <2>4 DEF AliveSet
  <2> QED BY <2>5, FS_EmptySet DEF RunInv, Counting
<1> QED BY <1>4, <1>5, <1>6, <1>7, <1>8 DEF RunInv

\* The last worker lets go of everybody; then nobody has one.
LEMMA ExitInv ==
    ASSUME RunInv, NEW s \in Subs, NEW p \in Parts, worker[s][p] = "idle", Exit(s, p),
           buf' \in [Subs -> [Parts -> 0 .. ChanCap]],
           UNCHANGED <<closed, cancelFn, done, run, sending, closer, timedOut, overlap, crashed>>
    PROVE  RunInv'
<1>1. /\ worker' = [worker EXCEPT ![s][p] = "gone"] /\ wg' = wg - 1
      /\ waiter' = [t \in Subs |-> IF wg' = 0 /\ waiter[t] = "blocked"
                                     THEN "released" ELSE waiter[t]]
  BY DEF Exit
<1>2. /\ worker \in [Subs -> [Parts -> {"none", "idle", "busy", "gone"}]]
      /\ waiter \in [Subs -> {"none", "start", "blocked", "released", "done"}]
  BY DEF RunInv, RunTypeOK
<1>3. \A t \in Subs, q \in Parts : Alive(t, q)' => Alive(t, q)
  BY <1>1, <1>2 DEF Alive
<1>4. AliveSet' = AliveSet \ {<<s, p>>} /\ <<s, p>> \in AliveSet
  BY <1>1, <1>2 DEF AliveSet, Alive
<1>5. IsFiniteSet(AliveSet) /\ wg = Cardinality(AliveSet)
  BY DEF RunInv, Counting
<1>6. IsFiniteSet(AliveSet') /\ Cardinality(AliveSet') = wg - 1
  BY <1>4, <1>5, FS_RemoveElement
<1>7. Counting' /\ wg' \in Nat
  BY <1>1, <1>6, FS_CardinalityType DEF Counting
<1>8. wg' = 0 => \A t \in Subs, q \in Parts : ~Alive(t, q)'
  <2>1. wg' = 0 => AliveSet' = {}
    BY <1>1, <1>6, FS_EmptySet
  <2>2. \A t \in Subs, q \in Parts : Alive(t, q)' => <<t, q>> \in AliveSet'
    BY DEF AliveSet
  <2> QED BY <2>1, <2>2
<1>9. RunTypeOK'
  <2>1. worker' \in [Subs -> [Parts -> {"none", "idle", "busy", "gone"}]]
    BY <1>1, <1>2
  <2>2. waiter' \in [Subs -> {"none", "start", "blocked", "released", "done"}]
    BY <1>1, <1>2
  <2> QED BY <1>7, <2>1, <2>2 DEF RunInv, RunTypeOK
<1>10. Stations'
  <2> SUFFICES ASSUME NEW t \in Subs
               PROVE  /\ waiter'[t] # "none" <=> run[t] \in Waiting
                      /\ waiter'[t] \in {"released", "done"} \/ run[t] \in Early =>
                           \A q \in Parts : ~Alive(t, q)'
                      /\ run[t] = "returned" /\ t \notin timedOut => waiter'[t] = "done"
    BY DEF Stations
  <2>1. CASE wg' = 0 /\ waiter[t] = "blocked"
    <3>1. waiter'[t] = "released"
      BY <1>1, <2>1
    <3> QED BY <2>1, <3>1, <1>8 DEF RunInv, Stations
  <2>2. CASE ~(wg' = 0 /\ waiter[t] = "blocked")
    <3>1. waiter'[t] = waiter[t]
      BY <1>1, <2>2
    <3> QED BY <3>1, <1>3 DEF RunInv, Stations
  <2> QED BY <2>1, <2>2
<1>11. Alone' /\ CrashNeedsOverlap'
  BY DEF RunInv, Alone, Over, CrashNeedsOverlap
<1> QED BY <1>7, <1>9, <1>10, <1>11 DEF RunInv

\* A worker between two records is as alive as one that is busy.
LEMMA BusyInv ==
    ASSUME RunInv, NEW s \in Subs, NEW p \in Parts, NEW x \in {"idle", "busy"}, Alive(s, p),
           worker' = [worker EXCEPT ![s][p] = x],
           buf' \in [Subs -> [Parts -> 0 .. ChanCap]],
           UNCHANGED <<closed, cancelFn, done, run, sending, wg, waiter, closer, timedOut,
                       overlap, crashed>>
    PROVE  RunInv'
<1>1. worker \in [Subs -> [Parts -> {"none", "idle", "busy", "gone"}]]
  BY DEF RunInv, RunTypeOK
<1>2. \A t \in Subs, q \in Parts : Alive(t, q)' <=> Alive(t, q)
  BY <1>1 DEF Alive
<1>3. AliveSet' = AliveSet
  BY <1>2 DEF AliveSet
<1>4. Counting'
  BY <1>3 DEF RunInv, Counting
<1>5. worker' \in [Subs -> [Parts -> {"none", "idle", "busy", "gone"}]]
  BY <1>1
<1>6. RunTypeOK'
  BY <1>5 DEF RunInv, RunTypeOK
<1>7. Stations' /\ Alone' /\ CrashNeedsOverlap'
  BY <1>2 DEF RunInv, Stations, Alone, Over, CrashNeedsOverlap
<1> QED BY <1>4, <1>6, <1>7 DEF RunInv

LEMMA WorkerInv ==
    ASSUME RunInv, NEW s \in Subs, NEW p \in Parts, Worker(s, p)
    PROVE  RunInv'
<1> USE LifecycleAssumption
<1>1. /\ worker \in [Subs -> [Parts -> {"none", "idle", "busy", "gone"}]]
      /\ buf \in [Subs -> [Parts -> 0 .. ChanCap]]
  BY DEF RunInv, RunTypeOK
<1>2. CASE TakeJob(s, p)
  <2>1. buf[s][p] - 1 \in 0 .. ChanCap
    BY <1>1, <1>2 DEF TakeJob
  <2>2. buf' \in [Subs -> [Parts -> 0 .. ChanCap]]
    BY <1>1, <1>2, <2>1 DEF TakeJob
  <2>3. UNCHANGED <<closed, cancelFn, done, run, sending, closer, timedOut, overlap, crashed>>
        /\ worker[s][p] = "idle"
    BY <1>2 DEF TakeJob
  <2>4. CASE done[s]
    BY <1>2, <2>2, <2>3, <2>4, ExitInv DEF TakeJob
  <2>5. CASE ~done[s]
    <3>1. worker' = [worker EXCEPT ![s][p] = "busy"] /\ UNCHANGED <<wg, waiter>>
      BY <1>2, <2>5 DEF TakeJob
    <3> QED BY <2>2, <2>3, <3>1, BusyInv DEF Alive
  <2> QED BY <2>4, <2>5
<1>3. CASE JobDone(s, p)
  <2>1. /\ worker[s][p] = "busy" /\ worker' = [worker EXCEPT ![s][p] = "idle"]
        /\ UNCHANGED <<closed, cancelFn, done, run, sending, buf, wg, waiter, closer, timedOut,
                       overlap, crashed>>
    BY <1>3 DEF JobDone
  <2> QED BY <1>1, <2>1, BusyInv DEF Alive
<1>4. CASE WorkerExits(s, p)
  <2>1. /\ worker[s][p] = "idle" /\ Exit(s, p)
        /\ UNCHANGED <<closed, cancelFn, done, run, sending, buf, closer, timedOut, overlap,
                       crashed>>
    BY <1>4 DEF WorkerExits
  <2> QED BY <1>1, <2>1, ExitInv
<1> QED BY <1>2, <1>3, <1>4 DEF Worker

LEMMA CloseInv ==
    ASSUME RunInv,
           \/ CloseConsumer \/ CloseDriver \/ ClosePublisher
           \/ \E p \in Parts : PublishRecord(p)
           \/ \E s \in Subs : CancelContext(s) \/ CallPoll(s) \/ Polling(s) \/ TokenSent(s)
           \/ UNCHANGED runVars
    PROVE  RunInv'
<1>1. UNCHANGED <<run, sending, worker, buf, wg, waiter, timedOut, overlap, crashed>>
  BY DEF CloseConsumer, CloseDriver, ClosePublisher, PublishRecord, CancelContext, CallPoll,
     Polling, TokenSent, runVars
<1>2. /\ closed \in BOOLEAN /\ cancelFn \in SUBSET Subs /\ done \in [Subs -> BOOLEAN]
      /\ closer \in {"open", "marked", "closed"}
  BY DEF RunInv, RunTypeOK
<1>3. /\ closed' \in BOOLEAN /\ cancelFn' \in SUBSET Subs
      /\ closer' \in {"open", "marked", "closed"}
  BY <1>2 DEF CloseConsumer, CloseDriver, ClosePublisher, PublishRecord, CancelContext, CallPoll,
     Polling, TokenSent, runVars
<1>4. done' \in [Subs -> BOOLEAN]
  <2>1. CASE CloseConsumer
    <3>1. done' = [s \in Subs |-> done[s] \/ s \in cancelFn]
      BY <2>1 DEF CloseConsumer
    <3>2. \A s \in Subs : (done[s] \/ s \in cancelFn) \in BOOLEAN
      OBVIOUS
    <3> QED BY <3>1, <3>2
  <2>2. CASE \E s \in Subs : CancelContext(s)
    BY <1>2, <2>2 DEF CancelContext, Cancelled
  <2>3. CASE UNCHANGED done
    BY <1>2, <2>3
  <2> QED BY <2>1, <2>2, <2>3 DEF CloseDriver, ClosePublisher, PublishRecord, CallPoll,
          Polling, TokenSent, runVars
<1> QED BY <1>1, <1>3, <1>4, IdleInv

LEMMA RunStepInv == RunInv /\ [Next]_vars => RunInv'
<1> SUFFICES ASSUME RunInv, [Next]_vars PROVE RunInv'
  OBVIOUS
<1>1. CASE UNCHANGED vars
  BY <1>1, CloseInv DEF vars
<1>2. CASE Environment \/ CloseDriver
  BY <1>2, CloseInv, StartInv DEF Environment
<1>3. CASE \E s \in Subs : Dispatcher(s)
  BY <1>3, LoopInv, CloseInv, PolledInv, LeaveInv DEF Dispatcher
<1>4. CASE ~crashed /\ \E s \in Subs : Waiter(s) \/ TokenSent(s)
  BY <1>4, WaitGroupInv, ResumeInv, CloseInv DEF Waiter
<1>5. CASE \E s \in Subs, p \in Parts : Worker(s, p)
  BY <1>5, WorkerInv
<1> QED BY <1>1, <1>2, <1>3, <1>4, <1>5 DEF Next

LEMMA RunInvariant == Spec => []RunInv
BY RunInitInv, RunStepInv, PTL DEF Spec

\* Every variable keeps its type; the wait group never goes below 0, which
\* would panic.
THEOREM TypeCorrect == Spec => []TypeOK
<1>1. Init => PollInit
  BY DEF Init
<1>2. Spec => PollSpec
  BY <1>1, StepIsPollStep, PTL DEF Spec, PollSpec
<1>3. RunInv => RunTypeOK
  BY DEF RunInv
<1>4. PollTypeOK /\ RunTypeOK => TypeOK
  BY DEF TypeOK
<1> QED BY <1>2, <1>3, <1>4, NoWakeupIsLost, RunInvariant, PTL

\* A run that was not timed out left no worker behind, though all runs of the
\* consumer share one wait group (Consumer.Run).
THEOREM WorkersEndFirst == Spec => []NoWorkerOutlivesRun
<1>1. RunInv => NoWorkerOutlivesRun
  BY DEF RunInv, Stations, NoWorkerOutlivesRun
<1> QED BY <1>1, RunInvariant, PTL

\* One run after another never panics for want of a wait group of its own.
THEOREM ReuseNeedsOverlap == Spec => []CrashNeedsOverlap
<1>1. RunInv => CrashNeedsOverlap
  BY DEF RunInv
<1> QED BY <1>1, RunInvariant, PTL
(***************************************************************************)
(* Who waits is answered                                                   *)
(***************************************************************************)
\* A worker leaves only a run whose context is done, which it stays; a record
\* in hand has a worker; who waits for the wait group has one to wait for.
Answered ==
    \A s \in Subs :
      /\ run[s] \in Waiting => done[s]
      /\ \A p \in Parts : worker[s][p] = "gone" => done[s]
      /\ run[s] = "send" => worker[s][sending[s]] # "none"
      /\ waiter[s] = "blocked" => wg # 0

\* A context that is done stays done.
LEMMA DoneStays ==
    ASSUME RunInv, [Next]_vars, NEW s \in Subs, done[s]
    PROVE  done'[s]
<1>1. done \in [Subs -> BOOLEAN]
  BY DEF RunInv, RunTypeOK
<1>2. CASE \E t \in Subs : Create(t) \/ SubscribeRun(t) \/ Leave(t) \/ CancelContext(t)
  BY <1>1, <1>2 DEF Create, SubscribeRun, Leave, CancelContext, Cancelled
<1>3. CASE CloseConsumer
  BY <1>3 DEF CloseConsumer
<1>4. CASE done' = done
  BY <1>4
<1> QED
  BY <1>2, <1>3, <1>4
  DEF Next, vars, runVars, Environment, CloseDriver, ClosePublisher, PublishRecord, Start,
      Dispatcher, Arm, CallPoll, Polling, Polled, PollEnds, Send, SendCancelled, Return,
      Waiter, WaitGroup, Resume, TokenSent, Worker, TakeJob, JobDone, WorkerExits

\* Steps that start and end no worker and begin no wait.
LEMMA QuietAnswered ==
    ASSUME RunInv, Answered, [Next]_vars, UNCHANGED <<sending, worker, wg>>,
           \A s \in Subs : /\ run'[s] = "send" => run[s] = "send"
                           /\ run'[s] \in Waiting => run[s] \in Waiting
                           /\ waiter'[s] = "blocked" => waiter[s] = "blocked"
    PROVE  Answered'
BY DoneStays DEF Answered

\* A record is polled: its worker is there, or leaves with the run.
LEMMA PolledAnswered ==
    ASSUME RunInv, Answered, NEW s \in Subs, NEW p \in Parts, Polled(s, p)
    PROVE  Answered'
<1>1. /\ UNCHANGED <<done, waiter>>
      /\ run' = [run EXCEPT ![s] = "send"]
      /\ sending' = [sending EXCEPT ![s] = p]
      /\ StartWorker(s, p)
  BY DEF Polled, RunStep
<1>2. /\ run \in [Subs -> {"new", "planned", "armed", "created", "poll", "send",
                           "leave", "wait", "returned", "refused"}]
      /\ worker \in [Subs -> [Parts -> {"none", "idle", "busy", "gone"}]]
      /\ sending \in [Subs -> Parts] /\ wg \in Nat
  BY DEF RunInv, RunTypeOK
<1>3. /\ \A t \in Subs, q \in Parts :
           /\ worker'[t][q] = "gone" => worker[t][q] = "gone"
           /\ worker[t][q] # "none" => worker'[t][q] # "none"
      /\ worker'[s][p] # "none"
      /\ wg # 0 => wg' # 0
  BY <1>1, <1>2 DEF StartWorker
<1>4. \A t \in Subs : t # s => run'[t] = run[t] /\ sending'[t] = sending[t]
  BY <1>1, <1>2
<1>5. run'[s] = "send" /\ sending'[s] = p
  BY <1>1, <1>2
<1> QED
  BY <1>1, <1>2, <1>3, <1>4, <1>5 DEF Answered, Waiting

\* A worker leaves a run whose context is done, and lets go of those who wait
\* if it is the last.
LEMMA ExitAnswered ==
    ASSUME RunInv, Answered, NEW s \in Subs, NEW p \in Parts, Exit(s, p), done[s],
           UNCHANGED <<done, run, sending>>
    PROVE  Answered'
<1>1. /\ worker' = [worker EXCEPT ![s][p] = "gone"]
      /\ waiter' = [t \in Subs |-> IF wg' = 0 /\ waiter[t] = "blocked"
                                     THEN "released" ELSE waiter[t]]
  BY DEF Exit
<1>2. worker \in [Subs -> [Parts -> {"none", "idle", "busy", "gone"}]]
      /\ sending \in [Subs -> Parts]
  BY DEF RunInv, RunTypeOK
<1>3. \A t \in Subs, q \in Parts :
        /\ worker'[t][q] = "gone" => worker[t][q] = "gone" \/ t = s
        /\ worker[t][q] # "none" => worker'[t][q] # "none"
  BY <1>1, <1>2
<1>4. \A t \in Subs : waiter'[t] = "blocked" => wg' # 0
  BY <1>1
<1> QED
  BY <1>2, <1>3, <1>4 DEF Answered

LEMMA WorkerAnswered ==
    ASSUME RunInv, Answered, NEW s \in Subs, NEW p \in Parts, Worker(s, p), [Next]_vars
    PROVE  Answered'
<1>1. worker \in [Subs -> [Parts -> {"none", "idle", "busy", "gone"}]]
      /\ sending \in [Subs -> Parts]
  BY DEF RunInv, RunTypeOK
<1>2. UNCHANGED <<done, run, sending>>
  BY DEF Worker, TakeJob, JobDone, WorkerExits
<1>3. CASE Exit(s, p) /\ done[s]
  BY <1>2, <1>3, ExitAnswered
<1>4. CASE WorkerExits(s, p)
  <2>1. Exit(s, p) /\ run[s] \in Waiting
    BY <1>4 DEF WorkerExits, ChannelsClosed, Waiting
  <2> QED BY <1>2, <2>1, ExitAnswered DEF Answered
<1>5. CASE /\ worker[s][p] # "none" /\ UNCHANGED <<wg, waiter>>
           /\ \E x \in {"idle", "busy"} : worker' = [worker EXCEPT ![s][p] = x]
  <2>1. \A t \in Subs, q \in Parts :
          /\ worker'[t][q] = "gone" => worker[t][q] = "gone"
          /\ worker[t][q] # "none" => worker'[t][q] # "none"
    BY <1>1, <1>5
  <2> QED BY <1>1, <1>2, <1>5, <2>1 DEF Answered
<1> QED
  BY <1>3, <1>4, <1>5 DEF Worker, TakeJob, JobDone

LEMMA AnsweredStep == RunInv /\ Answered /\ [Next]_vars => Answered'
<1> SUFFICES ASSUME RunInv, Answered, [Next]_vars PROVE Answered'
  OBVIOUS
<1>1. /\ run \in [Subs -> {"new", "planned", "armed", "created", "poll", "send",
                           "leave", "wait", "returned", "refused"}]
      /\ waiter \in [Subs -> {"none", "start", "blocked", "released", "done"}]
      /\ done \in [Subs -> BOOLEAN]
  BY DEF RunInv, RunTypeOK
<1>2. CASE UNCHANGED <<run, sending, worker, wg, waiter>>
  BY <1>2, QuietAnswered
<1>3. CASE /\ UNCHANGED <<sending, worker, wg, waiter>>
           /\ \E s \in Subs, x \in {"planned", "armed", "created", "poll", "leave", "refused"} :
                run' = [run EXCEPT ![s] = x]
  <2>1. \A t \in Subs : /\ run'[t] = "send" => run[t] = "send"
                        /\ run'[t] \in Waiting => run[t] \in Waiting
    BY <1>1, <1>3 DEF Waiting
  <2> QED BY <1>3, <2>1, QuietAnswered
<1>4. ASSUME NEW s \in Subs, Leave(s)
      PROVE  Answered'
  <2>1. /\ UNCHANGED <<sending, worker, wg>>
        /\ run' = [run EXCEPT ![s] = "wait"] /\ done' = [done EXCEPT ![s] = TRUE]
        /\ waiter' = [waiter EXCEPT ![s] = "start"]
    BY <1>4 DEF Leave, RunStep, Cancelled
  <2>2. /\ \A t \in Subs : done[t] => done'[t]
        /\ done'[s] /\ run'[s] = "wait" /\ waiter'[s] # "blocked"
        /\ \A t \in Subs : t # s => run'[t] = run[t] /\ waiter'[t] = waiter[t]
    BY <1>1, <2>1
  <2> QED BY <2>1, <2>2 DEF Answered
<1>5. ASSUME NEW s \in Subs, Return(s)
      PROVE  Answered'
  <2>1. /\ UNCHANGED <<sending, worker, wg, waiter>>
        /\ run[s] = "wait" /\ run' = [run EXCEPT ![s] = "returned"]
    BY <1>5 DEF Return, RunStep
  <2>2. \A t \in Subs : /\ run'[t] = "send" => run[t] = "send"
                        /\ run'[t] \in Waiting => run[t] \in Waiting
    BY <1>1, <2>1 DEF Waiting
  <2> QED BY <2>1, <2>2, QuietAnswered
<1>6. ASSUME NEW s \in Subs, Waiter(s)
      PROVE  Answered'
  <2>1. UNCHANGED <<done, run, sending, worker, wg>>
    BY <1>6 DEF Waiter, WaitGroup, Resume
  <2>2. waiter'[s] = "blocked" => wg # 0
    BY <1>1, <1>6 DEF Waiter, WaitGroup, Resume
  <2>3. \A t \in Subs : t # s => waiter'[t] = waiter[t]
    BY <1>1, <1>6 DEF Waiter, WaitGroup, Resume
  <2> QED BY <2>1, <2>2, <2>3 DEF Answered
<1>7. ASSUME NEW s \in Subs, Dispatcher(s)
      PROVE  Answered'
  <2>1. CASE CallPoll(s) \/ Polling(s)
    BY <1>2, <2>1 DEF CallPoll, Polling, runVars
  <2>2. CASE Arm(s) \/ Create(s) \/ SubscribeRun(s) \/ PollEnds(s) \/ Send(s) \/ SendCancelled(s)
    BY <1>3, <2>2 DEF Arm, Create, SubscribeRun, PollEnds, Send, SendCancelled, RunStep
  <2> QED
    BY <1>4, <1>5, <1>7, <2>1, <2>2, PolledAnswered DEF Dispatcher
<1>8. CASE UNCHANGED vars \/ Environment \/ CloseDriver \/ \E s \in Subs : TokenSent(s)
  <2>1. CASE \E s \in Subs : Start(s)
    BY <1>3, <2>1 DEF Start, RunStep
  <2> QED
    BY <1>2, <1>8, <2>1
    DEF Environment, CloseDriver, CloseConsumer, ClosePublisher, PublishRecord,
        CancelContext, TokenSent, vars, runVars
<1> QED
  BY <1>6, <1>7, <1>8, WorkerAnswered DEF Next

\* Nobody waits for a worker that is gone: the loop with a record for a full
\* channel, and the shutdowns that wait for the wait group the runs share
\* (Consumer.Run, sync.WaitGroup).
THEOREM NobodyForgotten == Spec => []WaitsAnswered
<1>1. Init => Answered
  BY DEF Init, Answered, Waiting
<1>2. ASSUME RunInv, Answered PROVE WaitsAnswered
  <2> SUFFICES ASSUME NEW s \in Subs
               PROVE  /\ run[s] = "send" => done[s] \/ Alive(s, sending[s])
                      /\ waiter[s] = "blocked" => \E t \in Subs, p \in Parts : Alive(t, p)
    BY DEF WaitsAnswered
  <2>1. run[s] = "send" => done[s] \/ Alive(s, sending[s])
    <3>1. sending[s] \in Parts /\ worker[s][sending[s]] \in {"none", "idle", "busy", "gone"}
      BY <1>2 DEF RunInv, RunTypeOK
    <3> QED BY <1>2, <3>1 DEF Answered, Alive
  <2>2. waiter[s] = "blocked" => \E t \in Subs, p \in Parts : Alive(t, p)
    <3>1. waiter[s] = "blocked" => AliveSet # {}
      BY <1>2, FS_EmptySet DEF RunInv, Counting, Answered
    <3> QED BY <3>1 DEF AliveSet
  <2> QED BY <2>1, <2>2
<1> QED BY <1>1, <1>2, AnsweredStep, RunInvariant, PTL DEF Spec
===========================================================================

----------------------------- MODULE Lifecycle -----------------------------
(***************************************************************************)
(* The life of a consumer: calls of Consumer.Run, the worker goroutines    *)
(* they start, Consumer.Close and Publisher.Close, on one shared driver.   *)
(*                                                                         *)
(* A run s is one call of Run and its subscription s of MemoryPoll, which  *)
(* says how it waits for records.  What a worker does with a record is the *)
(* matter of Consumer; here it is busy for a while and may publish.        *)
(*                                                                         *)
(* The wait group of the consumer is shared by all its runs.  As the       *)
(* documentation of sync.WaitGroup has it, a goroutine that Wait let go    *)
(* panics if the counter is no longer 0 when it gets to run.               *)
(***************************************************************************)
EXTENDS MemoryPoll, FiniteSets

CONSTANTS
    ChanCap,          \* capacity of a worker's channel (32 in the code)
    MaxRecords,       \* bound on the records published
    AutoCreate,       \* WithAutoCreateTopics
    DriverEndsPolls   \* Close of the driver ends the polls of its
                      \* subscriptions: TRUE in memory, FALSE for Kafka

ASSUME LifecycleAssumption ==
    /\ ChanCap \in Nat \ {0}
    /\ MaxRecords \in Nat
    /\ AutoCreate \in BOOLEAN
    /\ DriverEndsPolls \in BOOLEAN

VARIABLES
    closed,       \* c.closed
    cancelFn,     \* c.cancel: the run it cancels, or {}
    done,         \* done[s]: the context of run s is done
    run,          \* run[s]: where the call is
    sending,      \* sending[s]: the partition of the record in hand
    worker,       \* worker[s][p]: "none", "idle", "busy", "gone"
    buf,          \* buf[s][p]: records in the worker's channel
    wg,           \* the counter of c.wg
    waiter,       \* waiter[s]: the goroutine that waits for c.wg
    closer,       \* how far Consumer.Close is: "open", "marked", "closed"
    timedOut,     \* runs that returned on the shutdown timeout (history)
    overlap,      \* a run was started while another was not over (history)
    crashed       \* the process panicked

runVars == <<closed, cancelFn, done, run, sending, worker, buf, wg, waiter,
             closer, timedOut, overlap, crashed>>
vars == <<pollVars, runVars>>

Init ==
    /\ PollInit
    /\ closed = FALSE
    /\ cancelFn = {}
    /\ done = [s \in Subs |-> FALSE]
    /\ run = [s \in Subs |-> "new"]
    /\ sending = [s \in Subs |-> 1]
    /\ worker = [s \in Subs |-> [p \in Parts |-> "none"]]
    /\ buf = [s \in Subs |-> [p \in Parts |-> 0]]
    /\ wg = 0
    /\ waiter = [s \in Subs |-> "none"]
    /\ closer = "open"
    /\ timedOut = {}
    /\ overlap = FALSE
    /\ crashed = FALSE

RunStep(s, from, to) == run[s] = from /\ run' = [run EXCEPT ![s] = to]

Cancelled(s) == done' = [done EXCEPT ![s] = TRUE]

Ended(s) == run[s] \in {"refused", "returned"}

(***************************************************************************)
(* Run up to its loop                                                      *)
(***************************************************************************)
\* A run is over when its workers are: not if it returned on the timeout.
Over(s) == run[s] \in {"new", "refused"} \/ (run[s] = "returned" /\ s \notin timedOut)

\* Looks at c.closed and plans the topics, with c.mu held.
Start(s) ==
    /\ RunStep(s, "new", IF closed THEN "refused" ELSE "planned")
    /\ overlap' = (overlap \/ \E t \in Subs \ {s} : ~Over(t))
    /\ UNCHANGED <<pollVars, closed, cancelFn, done, sending, worker, buf, wg,
                   waiter, closer, timedOut, crashed>>

\* Stores its cancel function, over whatever is there, with c.mu held again.
Arm(s) ==
    /\ RunStep(s, "planned", "armed")
    /\ cancelFn' = {s}
    /\ UNCHANGED <<pollVars, closed, done, sending, worker, buf, wg, waiter,
                   closer, timedOut, overlap, crashed>>

Create(s) ==
    /\ \/ /\ AutoCreate /\ ~done[s]
          /\ CreateTopics
          /\ RunStep(s, "armed", "created")
          /\ UNCHANGED done
       \/ /\ AutoCreate /\ (done[s] \/ brokerClosed)
          /\ RunStep(s, "armed", "refused")
          /\ Cancelled(s)
          /\ UNCHANGED pollVars
       \/ /\ ~AutoCreate
          /\ RunStep(s, "armed", "created")
          /\ UNCHANGED <<pollVars, done>>
    /\ UNCHANGED <<closed, cancelFn, sending, worker, buf, wg, waiter, closer,
                   timedOut, overlap, crashed>>

SubscribeRun(s) ==
    /\ \/ /\ Subscribe(s)
          /\ RunStep(s, "created", "poll")
          /\ UNCHANGED done
       \/ /\ brokerClosed
          /\ RunStep(s, "created", "refused")
          /\ Cancelled(s)
          /\ UNCHANGED pollVars
    /\ UNCHANGED <<closed, cancelFn, sending, worker, buf, wg, waiter, closer,
                   timedOut, overlap, crashed>>

(***************************************************************************)
(* The polling loop                                                        *)
(***************************************************************************)
\* The first call; the later ones follow the send of a record.
CallPoll(s) ==
    /\ run[s] = "poll"
    /\ Call(s)
    /\ UNCHANGED runVars

Polling(s) ==
    /\ PollEmpty(s) \/ Block(s) \/ Wake(s)
    /\ UNCHANGED runVars

StartWorker_Uncounted(s, p) ==
    /\ worker' = [worker EXCEPT ![s][p] = IF @ = "none" THEN "idle" ELSE @]
    /\ UNCHANGED wg

\* ensureWorker: the first record of a partition starts its worker.
StartWorker(s, p) ==
    IF worker[s][p] = "none"
      THEN /\ worker' = [worker EXCEPT ![s][p] = "idle"]
           /\ wg' = wg + 1
      ELSE UNCHANGED <<worker, wg>>

Polled(s, p) ==
    /\ PollRecord(s, p)
    /\ RunStep(s, "poll", "send")
    /\ sending' = [sending EXCEPT ![s] = p]
    /\ StartWorker(s, p)
    /\ UNCHANGED <<closed, cancelFn, done, buf, waiter, closer, timedOut,
                   overlap, crashed>>

PollEnds(s) ==
    /\ PollClosed(s) \/ (done[s] /\ PollCancelled(s))
    /\ RunStep(s, "poll", "leave")
    /\ UNCHANGED <<closed, cancelFn, done, sending, worker, buf, wg, waiter,
                   closer, timedOut, overlap, crashed>>

Send(s) ==
    /\ buf[s][sending[s]] < ChanCap
    /\ RunStep(s, "send", "poll")
    /\ buf' = [buf EXCEPT ![s][sending[s]] = @ + 1]
    /\ Call(s)
    /\ UNCHANGED <<closed, cancelFn, done, sending, worker, wg,
                   waiter, closer, timedOut, overlap, crashed>>

SendCancelled(s) ==
    /\ done[s]
    /\ RunStep(s, "send", "leave")
    /\ UNCHANGED <<pollVars, closed, cancelFn, done, sending, worker, buf, wg,
                   waiter, closer, timedOut, overlap, crashed>>

(***************************************************************************)
(* Shutdown: cancel, close the channels, wait for the wait group or the    *)
(* timeout, and close the subscription                                     *)
(***************************************************************************)
ChannelsClosed(s) == run[s] \in {"wait", "returned"}

Leave(s) ==
    /\ RunStep(s, "leave", "wait")
    /\ Cancelled(s)
    /\ waiter' = [waiter EXCEPT ![s] = "start"]
    /\ UNCHANGED <<pollVars, closed, cancelFn, sending, worker, buf, wg, closer,
                   timedOut, overlap, crashed>>

WaitGroup(s) ==
    /\ waiter[s] = "start"
    /\ waiter' = [waiter EXCEPT ![s] = IF wg = 0 THEN "done" ELSE "blocked"]
    /\ UNCHANGED <<pollVars, closed, cancelFn, done, run, sending, worker, buf,
                   wg, closer, timedOut, overlap, crashed>>

Resume(s) ==
    /\ waiter[s] = "released"
    /\ waiter' = [waiter EXCEPT ![s] = "done"]
    /\ crashed' = (wg # 0)
    /\ UNCHANGED <<pollVars, closed, cancelFn, done, run, sending, worker, buf,
                   wg, closer, timedOut, overlap>>

Return_NoWait(s) ==
    /\ RunStep(s, "wait", "returned")
    /\ MarkClosed(s)
    /\ UNCHANGED <<closed, cancelFn, done, sending, worker, buf, wg, waiter,
                   closer, timedOut, overlap, crashed>>

\* Everybody is gone, or the timeout is over.  The deferred sub.Close.
Return(s) ==
    /\ RunStep(s, "wait", "returned")
    /\ \/ waiter[s] = "done" /\ UNCHANGED timedOut
       \/ timedOut' = timedOut \cup {s}
    /\ MarkClosed(s)
    /\ UNCHANGED <<closed, cancelFn, done, sending, worker, buf, wg, waiter,
                   closer, overlap, crashed>>

(***************************************************************************)
(* Workers                                                                 *)
(***************************************************************************)
\* The last worker of the consumer lets go of everybody who waits.
Exit(s, p) ==
    /\ worker' = [worker EXCEPT ![s][p] = "gone"]
    /\ wg' = wg - 1
    /\ waiter' = [t \in Subs |-> IF wg' = 0 /\ waiter[t] = "blocked"
                                   THEN "released" ELSE waiter[t]]

\* A worker takes a record from its channel; if the run is cancelled it exits
\* instead of processing it.
TakeJob(s, p) ==
    /\ worker[s][p] = "idle"
    /\ buf[s][p] > 0
    /\ buf' = [buf EXCEPT ![s][p] = @ - 1]
    /\ IF done[s]
         THEN Exit(s, p)
         ELSE /\ worker' = [worker EXCEPT ![s][p] = "busy"]
              /\ UNCHANGED <<wg, waiter>>
    /\ UNCHANGED <<pollVars, closed, cancelFn, done, run, sending, closer,
                   timedOut, overlap, crashed>>

JobDone(s, p) ==
    /\ worker[s][p] = "busy"
    /\ worker' = [worker EXCEPT ![s][p] = "idle"]
    /\ UNCHANGED <<pollVars, closed, cancelFn, done, run, sending, buf, wg,
                   waiter, closer, timedOut, overlap, crashed>>

WorkerExits_WhenEmpty(s, p) ==
    /\ worker[s][p] = "idle"
    /\ buf[s][p] = 0
    /\ Exit(s, p)
    /\ UNCHANGED <<pollVars, closed, cancelFn, done, run, sending, buf, closer,
                   timedOut, overlap, crashed>>

\* The channel is closed and empty.
WorkerExits(s, p) ==
    /\ worker[s][p] = "idle"
    /\ buf[s][p] = 0
    /\ ChannelsClosed(s)
    /\ Exit(s, p)
    /\ UNCHANGED <<pollVars, closed, cancelFn, done, run, sending, buf, closer,
                   timedOut, overlap, crashed>>

(***************************************************************************)
(* Close, and the environment                                              *)
(***************************************************************************)
\* Consumer.Close with c.mu held; the driver is closed after.
CloseConsumer ==
    /\ closer = "open"
    /\ closer' = "marked"
    /\ closed' = TRUE
    /\ done' = [s \in Subs |-> done[s] \/ s \in cancelFn]
    /\ UNCHANGED <<pollVars, cancelFn, run, sending, worker, buf, wg, waiter,
                   timedOut, overlap, crashed>>

CloseDriver ==
    /\ closer = "marked"
    /\ closer' = "closed"
    /\ IF DriverEndsPolls THEN CloseBroker ELSE UNCHANGED pollVars
    /\ UNCHANGED <<closed, cancelFn, done, run, sending, worker, buf, wg, waiter,
                   timedOut, overlap, crashed>>

\* A publisher that shares the driver closes it, and cancels nobody.
ClosePublisher ==
    /\ DriverEndsPolls
    /\ ~brokerClosed
    /\ CloseBroker
    /\ UNCHANGED runVars

\* The context the caller gave to Run is done.  Nothing looks at it before
\* Create does.
CancelContext(s) ==
    /\ ~done[s]
    /\ run[s] # "new" /\ ~Ended(s)
    /\ Cancelled(s)
    /\ UNCHANGED <<pollVars, closed, cancelFn, run, sending, worker, buf, wg,
                   waiter, closer, timedOut, overlap, crashed>>

\* By a publisher, or by a worker that routes what failed.
\* Bound: MaxRecords in all.
Records == {r \in Parts \X (1 .. MaxRecords) : r[2] <= count[r[1]]}

PublishRecord(p) ==
    /\ Cardinality(Records) < MaxRecords
    /\ Publish(p)
    /\ UNCHANGED runVars

TokenSent(s) == SendToken(s) /\ UNCHANGED runVars

(***************************************************************************)
(* The specification                                                       *)
(***************************************************************************)
Dispatcher(s) ==
    \/ Arm(s) \/ Create(s) \/ SubscribeRun(s)
    \/ CallPoll(s) \/ Polling(s) \/ PollEnds(s)
    \/ \E p \in Parts : Polled(s, p)
    \/ Send(s) \/ SendCancelled(s)
    \/ Leave(s) \/ Return(s)

Waiter(s) == WaitGroup(s) \/ Resume(s)

Worker(s, p) == TakeJob(s, p) \/ JobDone(s, p) \/ WorkerExits(s, p)

Environment ==
    \/ CloseConsumer \/ ClosePublisher
    \/ \E p \in Parts : PublishRecord(p)
    \/ \E s \in Subs : Start(s) \/ CancelContext(s)

\* A panic ends the process.
Next ==
    /\ ~crashed
    /\ \/ Environment
       \/ CloseDriver
       \/ \E s \in Subs : Dispatcher(s) \/ Waiter(s) \/ TokenSent(s)
       \/ \E s \in Subs, p \in Parts : Worker(s, p)

Spec == Init /\ [][Next]_vars

\* Goroutines are scheduled, timers fire, handlers return, and a call of Close
\* is carried through.  Nobody need call Run, Close or Publish.
Fairness ==
    /\ \A s \in Subs : /\ WF_vars(~crashed /\ Dispatcher(s))
                       /\ WF_vars(~crashed /\ Waiter(s))
                       /\ WF_vars(~crashed /\ TokenSent(s))
    /\ \A s \in Subs, p \in Parts : WF_vars(~crashed /\ Worker(s, p))
    /\ WF_vars(~crashed /\ CloseDriver)

FairSpec == Spec /\ Fairness

(***************************************************************************)
(* Properties                                                              *)
(***************************************************************************)
RunTypeOK ==
    /\ closed \in BOOLEAN
    /\ cancelFn \in SUBSET Subs
    /\ done \in [Subs -> BOOLEAN]
    /\ run \in [Subs -> {"new", "planned", "armed", "created", "poll", "send",
                         "leave", "wait", "returned", "refused"}]
    /\ sending \in [Subs -> Parts]
    /\ worker \in [Subs -> [Parts -> {"none", "idle", "busy", "gone"}]]
    /\ buf \in [Subs -> [Parts -> 0 .. ChanCap]]
    /\ wg \in Nat
    /\ waiter \in [Subs -> {"none", "start", "blocked", "released", "done"}]
    /\ closer \in {"open", "marked", "closed"}
    /\ timedOut \in SUBSET Subs
    /\ overlap \in BOOLEAN
    /\ crashed \in BOOLEAN

\* Every variable has its type.
TypeOK == PollTypeOK /\ RunTypeOK

Alive(s, p) == worker[s][p] \in {"idle", "busy"}

\* A run that returns before its shutdown timeout leaves no worker behind,
\* whatever other runs of the consumer add to or take from the wait group.
NoWorkerOutlivesRun ==
    \A s \in Subs : run[s] = "returned" /\ s \notin timedOut =>
      \A p \in Parts : ~Alive(s, p)

\* The wait group is used again before everybody it let go has noticed only
\* if runs of the consumer overlap, or one is started after another returned
\* on its timeout (consumer.go, c.wg.Add and c.wg.Wait).
CrashNeedsOverlap == crashed => overlap

\* Nobody waits for a worker that is gone: the loop that sends a record into a
\* full channel has a worker to empty it or a context that ends the wait, and a
\* shutdown that waits for the wait group has some worker left to release it,
\* also while runs of the consumer overlap (Run, ensureWorker, runWorker).
WaitsAnswered ==
    \A s \in Subs :
      /\ run[s] = "send" => done[s] \/ Alive(s, sending[s])
      /\ waiter[s] = "blocked" => \E t \in Subs, p \in Parts : Alive(t, p)

\* Close ends every run, also one that looked at c.closed before, or whose
\* cancel function another run has overwritten.
CloseEndsRuns ==
    \A s \in Subs :
      (closer = "closed" /\ run[s] # "new") ~> (Ended(s) \/ crashed)

\* A run sees what is published, unless it is cancelled or the broker closed.
SeesRecords ==
    \A s \in Subs, p \in Parts :
      (run[s] = "poll" /\ Available(s, p)) ~>
        (~Available(s, p) \/ done[s] \/ brokerClosed \/ crashed)
===========================================================================

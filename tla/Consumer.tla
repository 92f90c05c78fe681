----------------------------- MODULE Consumer -----------------------------
(***************************************************************************)
(* The consumer: sessions of one consumer group that take records from the *)
(* source topic and its retry topics, run the user's handler, and route    *)
(* what fails to the next retry topic or to the dead-letter topic.         *)
(*                                                                         *)
(* A session is one call of Consumer.Run and its subscription.  It has one *)
(* dispatcher (the polling loop) and one worker goroutine per partition,   *)
(* fed by a buffered channel.  Several sessions may run at once (several   *)
(* processes of one group, or the workers a timed-out shutdown leaves      *)
(* behind).  A session whose context is cancelled may stop at any point;   *)
(* a process that dies is one that takes no further step.                  *)
(*                                                                         *)
(* A step is a stretch of code with one access to state others can write.  *)
(* A definition named after another one and a suffix (Publish_ErrorIgnored)*)
(* is that definition with a mistake in it, which some run must notice.    *)
(* The backoff of a retry record and the in-place backoff are timers: the  *)
(* wait ends whenever it likes.                                            *)
(***************************************************************************)
EXTENDS MemoryBroker, FiniteSets

CONSTANTS
    Msgs,         \* message ids users publish
    ChanCap,      \* capacity of a worker's channel (32 in the code)
    Guarantee,    \* "AtLeastOnce" or "Transactional"
    Ordering,     \* "None", "PerPartition" or "PerKey"
    DLQEnabled,   \* whether exhausted messages go to the dead-letter topic
    Idempotent,   \* whether an idempotency store is configured
    Faults        \* what the environment does, a subset of FaultKinds

FaultKinds == {"cancel", "revoke", "fence", "expire", "store"}

ASSUME ConsumerAssumption ==
    /\ ChanCap \in Nat \ {0}
    /\ Guarantee \in {"AtLeastOnce", "Transactional"}
    /\ Ordering \in {"None", "PerPartition", "PerKey"}
    /\ DLQEnabled \in BOOLEAN
    /\ Idempotent \in BOOLEAN
    /\ Faults \subseteq FaultKinds

VARIABLES
    ctx,          \* ctx[s]: the context of the run: "new", "live", "cancelled"
    held,         \* held[s]: {tp} while the dispatcher sends a record of tp
    worker,       \* worker[s][tp]: where the worker is, its offset, its attempt
    txnMu,        \* txnMu[s]: {tp} while the worker of tp holds the mutex
    entry,        \* the idempotency store (ClaimStore)
    holders,      \* who holds a lease (ClaimStore, history)
    fate          \* fate[m]: what has been decided about m (history)

Store == INSTANCE ClaimStore WITH Keys <- Msgs, Claimants <- Sessions \X TPs

storeVars == <<entry, holders>>
vars == <<brokerVars, ctx, held, worker, txnMu, storeVars, fate>>

PCs == {"idle", "wait", "claim", "handle", "backoff", "complete", "fail",
        "route", "publish", "lock", "stage", "txnCommit", "ack", "commit",
        "drain", "drainCommit"}

\* orig is what the x-original-* headers say: empty, or the partition and
\* the offset the message first failed at.
Recs == [id : Msgs, attempt : 0 .. MaxRetries, orig : {<< >>} \cup (TPs \X Nat)]

Init ==
    /\ BrokerInit
    /\ Store!StoreInit
    /\ ctx = [s \in Sessions |-> "new"]
    /\ held = [s \in Sessions |-> {}]
    /\ worker = [s \in Sessions |->
                   [tp \in Subscribed |-> [pc |-> "idle", off |-> 0, att |-> 0]]]
    /\ txnMu = [s \in Sessions |-> {}]
    /\ fate = [m \in Msgs |-> {}]

(***************************************************************************)
(* What has become of a message                                            *)
(***************************************************************************)
IdAt(tp, o) == Record(tp, o).id

Contains(tp, m) == \E i \in 1 .. Len(log[tp]) : log[tp][i].id = m

\* ... after the offset the group has committed.
Due(tp, m) == \E i \in 1 .. Len(log[tp]) : offsets[tp] < i /\ log[tp][i].id = m

Accepted(m) == \E p \in Partitions : Contains(<<Main, p>>, m)
DeadLettered(m) == Contains(PartitionOf(Dlq), m)

\* A later session would be given the message (again).
Pending(m) == \E tp \in Subscribed : Due(tp, m)

Settled(m) == fate[m] # {} \/ DeadLettered(m)

(***************************************************************************)
(* Workers                                                                 *)
(***************************************************************************)
Live(s) == ctx[s] = "live"
At(s, tp, pc) == worker[s][tp].pc = pc
Job(s, tp) == Record(tp, worker[s][tp].off)
Id(s, tp) == Job(s, tp).id
Goto(s, tp, pc) == worker' = [worker EXCEPT ![s][tp].pc = pc]

NextJob_Stuck(w) == [w EXCEPT !.pc = "idle"]

\* The worker is done with its record; with OrderingPerKey the queue of the
\* partition is drained next.
NextJob(w) == [pc |-> "idle", off |-> w.off + 1, att |-> w.att]
Finished(w) == IF Ordering = "PerKey" THEN [w EXCEPT !.pc = "drain"]
                                      ELSE NextJob(w)
Finish(s, tp) == worker' = [worker EXCEPT ![s][tp] = Finished(@)]

Decide(m, f) == fate' = [fate EXCEPT ![m] = @ \cup {f}]

\* The worker walks away from its record without routing or committing it,
\* and will take the next one.
Abandon(s, tp) == /\ Finish(s, tp)
                  /\ Decide(Id(s, tp), "abandoned")

\* The channel of a worker holds what was polled and not yet taken, except
\* the record the dispatcher is still sending.
Buffered(s, tp) ==
    IF fetch[s][tp] = Unpolled THEN 0
    ELSE fetch[s][tp] - worker[s][tp].off
           - (IF At(s, tp, "idle") THEN 0 ELSE 1)
           - (IF tp \in held[s] THEN 1 ELSE 0)

Routed_OriginLost(s, tp) ==
    [id      |-> Id(s, tp),
     attempt |-> RoutedAttempt(worker[s][tp].att),
     orig    |-> <<tp, worker[s][tp].off>>]

\* What a routed record looks like; the origin is the first failure's.
Routed(s, tp) ==
    [id      |-> Id(s, tp),
     attempt |-> RoutedAttempt(worker[s][tp].att),
     orig    |-> IF Job(s, tp).orig = << >> THEN <<tp, worker[s][tp].off>>
                                            ELSE Job(s, tp).orig]

Ready == IF Idempotent THEN "claim" ELSE "handle"

(***************************************************************************)
(* The dispatcher                                                          *)
(***************************************************************************)
Run(s) ==
    /\ ctx[s] = "new"
    /\ ctx' = [ctx EXCEPT ![s] = "live"]
    /\ UNCHANGED <<brokerVars, held, worker, txnMu, storeVars, fate>>

Poll_NotHeld(s) ==
    /\ Live(s)
    /\ \E tp \in Subscribed :
         /\ PollFrom(s, tp)
         /\ worker' = IF fetch[s][tp] = Unpolled
                        THEN [worker EXCEPT ![s][tp].off = Position(s, tp)]
                        ELSE worker
    /\ UNCHANGED <<log, offsets, fenced, revoked, ctx, held, txnMu, storeVars, fate>>

\* A poll returns a record; the first of a partition starts its worker.  The
\* record is sent at once unless the channel is full: nothing but the worker
\* that empties the channel can tell the difference.
Poll(s) ==
    /\ Live(s)
    /\ held[s] = {}
    /\ \E tp \in Subscribed :
         /\ PollFrom(s, tp)
         /\ held' = IF Buffered(s, tp) < ChanCap THEN held
                                               ELSE [held EXCEPT ![s] = {tp}]
         /\ worker' = IF fetch[s][tp] = Unpolled
                        THEN [worker EXCEPT ![s][tp].off = Position(s, tp)]
                        ELSE worker
    /\ UNCHANGED <<log, offsets, fenced, revoked, ctx, txnMu, storeVars, fate>>

\* The channel has room for the record the dispatcher holds.
Send(s) ==
    /\ Live(s)
    /\ \E tp \in held[s] : Buffered(s, tp) < ChanCap
    /\ held' = [held EXCEPT ![s] = {}]
    /\ UNCHANGED <<brokerVars, ctx, worker, txnMu, storeVars, fate>>

(***************************************************************************)
(* A worker takes a record and processes it                                *)
(***************************************************************************)
Take(s, tp) ==
    /\ Live(s)
    /\ At(s, tp, "idle")
    /\ Buffered(s, tp) > 0
    /\ LET att == Job(s, tp).attempt
       IN  worker' = [worker EXCEPT ![s][tp] =
                        [pc  |-> IF att > 0 THEN "wait" ELSE Ready,
                         off |-> @.off,
                         att |-> att]]
    /\ UNCHANGED <<brokerVars, ctx, held, txnMu, storeVars, fate>>

\* waitNotBefore: the timer of a retry record fires.
WaitElapsed(s, tp) ==
    /\ At(s, tp, "wait")
    /\ Goto(s, tp, Ready)
    /\ UNCHANGED <<brokerVars, ctx, held, txnMu, storeVars, fate>>

\* TryStart answers.
Claim(s, tp) ==
    /\ At(s, tp, "claim")
    /\ Store!TryStart(<<s, tp>>, Id(s, tp))
    /\ \/ /\ Store!Verdict(Id(s, tp)) = "proceed"
          /\ Goto(s, tp, "handle")
          /\ UNCHANGED fate
       \/ /\ Store!Verdict(Id(s, tp)) = "skip_completed"
          /\ Goto(s, tp, "ack")
          /\ UNCHANGED fate
       \/ /\ Store!Verdict(Id(s, tp)) = "skip_in_progress"
          /\ Abandon(s, tp)
    /\ UNCHANGED <<brokerVars, ctx, held, txnMu>>

\* TryStart fails: the record is routed as if its handler had failed.
ClaimError(s, tp) ==
    /\ "store" \in Faults
    /\ At(s, tp, "claim")
    /\ Goto(s, tp, "route")
    /\ UNCHANGED <<brokerVars, ctx, held, txnMu, storeVars, fate>>

HandlerOk(s, tp) ==
    /\ At(s, tp, "handle")
    /\ Decide(Id(s, tp), "handled")
    /\ Goto(s, tp, IF Idempotent THEN "complete" ELSE "ack")
    /\ UNCHANGED <<brokerVars, ctx, held, txnMu, storeVars>>

HandlerErr_Swallowed(s, tp) ==
    /\ At(s, tp, "handle")
    /\ Goto(s, tp, "ack")
    /\ UNCHANGED <<brokerVars, ctx, held, txnMu, storeVars, fate>>

HandlerErr_NotInPlace(s, tp) ==
    /\ At(s, tp, "handle")
    /\ Goto(s, tp, IF Idempotent THEN "fail" ELSE "route")
    /\ UNCHANGED <<brokerVars, ctx, held, txnMu, storeVars, fate>>

HandlerErr_CountsTwice(s, tp) ==
    /\ At(s, tp, "handle")
    /\ worker' = [worker EXCEPT
         ![s][tp] = IF @.att < MaxRetries
                      THEN [@ EXCEPT !.pc  = IF Ordering = "PerPartition" THEN "backoff"
                                             ELSE IF Idempotent THEN "fail" ELSE "route",
                                     !.att = @ + 1]
                      ELSE [@ EXCEPT !.pc = IF Idempotent THEN "fail" ELSE "route"]]
    /\ UNCHANGED <<brokerVars, ctx, held, txnMu, storeVars, fate>>

\* With OrderingPerPartition the attempts are used up in place.
HandlerErr(s, tp) ==
    /\ At(s, tp, "handle")
    /\ IF Ordering = "PerPartition" /\ worker[s][tp].att < MaxRetries
         THEN worker' = [worker EXCEPT ![s][tp].pc = "backoff",
                                       ![s][tp].att = @ + 1]
         ELSE Goto(s, tp, IF Idempotent THEN "fail" ELSE "route")
    /\ UNCHANGED <<brokerVars, ctx, held, txnMu, storeVars, fate>>

BackoffElapsed(s, tp) ==
    /\ At(s, tp, "backoff")
    /\ Goto(s, tp, "handle")
    /\ UNCHANGED <<brokerVars, ctx, held, txnMu, storeVars, fate>>

\* Complete and Fail: an error of the store is ignored.
CloseClaim(s, tp) ==
    /\ \/ /\ At(s, tp, "complete")
          /\ Goto(s, tp, "ack")
          /\ \/ Store!Complete(<<s, tp>>, Id(s, tp))
             \/ "store" \in Faults /\ UNCHANGED storeVars
       \/ /\ At(s, tp, "fail")
          /\ Goto(s, tp, "route")
          /\ \/ Store!Fail(<<s, tp>>, Id(s, tp))
             \/ "store" \in Faults /\ UNCHANGED storeVars
    /\ UNCHANGED <<brokerVars, ctx, held, txnMu, fate>>

(***************************************************************************)
(* Routing a failed record: failAndRoute, routeTerminal, publishOutcome    *)
(***************************************************************************)
Exhausted(s, tp) == worker[s][tp].att >= MaxRetries

Route(s, tp) ==
    /\ At(s, tp, "route")
    /\ \/ /\ Exhausted(s, tp) /\ ~DLQEnabled
          /\ Decide(Id(s, tp), "exhausted")
          /\ Goto(s, tp, "ack")
       \/ /\ ~Exhausted(s, tp) \/ DLQEnabled
          /\ Assigned(s, tp)
          /\ Goto(s, tp, IF Guarantee = "Transactional" THEN "lock" ELSE "publish")
          /\ UNCHANGED fate
       \/ /\ ~Exhausted(s, tp) \/ DLQEnabled
          /\ ~Assigned(s, tp)
          /\ Finish(s, tp)
          /\ UNCHANGED fate
    /\ UNCHANGED <<brokerVars, ctx, held, txnMu, storeVars>>

Publish_ErrorIgnored(s, tp) ==
    /\ At(s, tp, "publish")
    /\ IF fenced THEN UNCHANGED log
                 ELSE AppendTo(Destination(worker[s][tp].att), Routed(s, tp))
    /\ Goto(s, tp, "ack")
    /\ UNCHANGED <<offsets, fenced, fetch, revoked, ctx, held, txnMu, storeVars, fate>>

\* AtLeastOnce: publish, then commit.  The driver looks at the context
\* before it locks the broker, so a cancelled run may still publish.
Publish(s, tp) ==
    /\ At(s, tp, "publish")
    /\ \/ /\ ~fenced
          /\ AppendTo(Destination(worker[s][tp].att), Routed(s, tp))
          /\ Goto(s, tp, "ack")
          /\ UNCHANGED fate
       \/ /\ fenced
          /\ Abandon(s, tp)
          /\ UNCHANGED log
       \/ /\ ~Live(s)
          /\ Finish(s, tp)
          /\ UNCHANGED <<log, fate>>
    /\ UNCHANGED <<offsets, fenced, fetch, revoked, ctx, held, txnMu, storeVars>>

\* Transactional: lock txnMu and begin.
BeginTxn(s, tp) ==
    /\ At(s, tp, "lock")
    /\ txnMu[s] = {}
    /\ \/ /\ ~fenced
          /\ txnMu' = [txnMu EXCEPT ![s] = {tp}]
          /\ Goto(s, tp, "stage")
          /\ UNCHANGED fate
       \/ /\ fenced
          /\ Abandon(s, tp)
          /\ UNCHANGED txnMu
       \/ /\ ~Live(s)
          /\ Finish(s, tp)
          /\ UNCHANGED <<txnMu, fate>>
    /\ UNCHANGED <<brokerVars, ctx, held, storeVars>>

Unlock_Forgotten(s) == UNCHANGED txnMu
Unlock(s) == txnMu' = [txnMu EXCEPT ![s] = {}]

\* The record and the offset are buffered in the transaction, which is
\* aborted if the partition was revoked or the run cancelled.
StageTxn(s, tp) ==
    /\ At(s, tp, "stage")
    /\ \/ /\ Assigned(s, tp)
          /\ Goto(s, tp, "txnCommit")
          /\ UNCHANGED txnMu
       \/ /\ ~Assigned(s, tp) \/ ~Live(s)
          /\ Finish(s, tp)
          /\ Unlock(s)
    /\ UNCHANGED <<brokerVars, ctx, held, storeVars, fate>>

CommitTxn(s, tp) ==
    /\ At(s, tp, "txnCommit")
    /\ Unlock(s)
    /\ \/ /\ ~fenced
          /\ TxnEffect(Destination(worker[s][tp].att), Routed(s, tp),
                       tp, worker[s][tp].off)
          /\ Finish(s, tp)
          /\ UNCHANGED fate
       \/ /\ fenced
          /\ Abandon(s, tp)
          /\ UNCHANGED <<log, offsets>>
       \/ /\ ~Live(s)
          /\ Finish(s, tp)
          /\ UNCHANGED <<log, offsets, fate>>
    /\ UNCHANGED <<fenced, fetch, revoked, ctx, held, storeVars>>

(***************************************************************************)
(* Committing the offset.  The context and the assignment are looked at    *)
(* first, the broker is locked and written after.                          *)
(***************************************************************************)
Ack_Inverted(s, tp) ==
    /\ At(s, tp, "ack")
    /\ IF Live(s) /\ Assigned(s, tp) THEN Finish(s, tp) ELSE Goto(s, tp, "commit")
    /\ UNCHANGED <<brokerVars, ctx, held, txnMu, storeVars, fate>>

Ack(s, tp) ==
    /\ At(s, tp, "ack")
    /\ IF Live(s) /\ Assigned(s, tp) THEN Goto(s, tp, "commit") ELSE Finish(s, tp)
    /\ UNCHANGED <<brokerVars, ctx, held, txnMu, storeVars, fate>>

Commit(s, tp) ==
    /\ At(s, tp, "commit")
    /\ CommitOffset(tp, worker[s][tp].off)
    /\ Finish(s, tp)
    /\ UNCHANGED <<log, fenced, fetch, revoked, ctx, held, txnMu, storeVars, fate>>

Drain_Unchecked(s, tp) ==
    /\ At(s, tp, "drain")
    /\ Goto(s, tp, "drainCommit")
    /\ UNCHANGED <<brokerVars, ctx, held, txnMu, storeVars, fate>>

\* OrderingPerKey commits the head of its queue whatever became of it.
Drain(s, tp) ==
    /\ At(s, tp, "drain")
    /\ IF Live(s) /\ Assigned(s, tp)
         THEN Goto(s, tp, "drainCommit")
         ELSE worker' = [worker EXCEPT ![s][tp] = NextJob(@)]
    /\ UNCHANGED <<brokerVars, ctx, held, txnMu, storeVars, fate>>

DrainCommit(s, tp) ==
    /\ At(s, tp, "drainCommit")
    /\ CommitOffset(tp, worker[s][tp].off)
    /\ worker' = [worker EXCEPT ![s][tp] = NextJob(@)]
    /\ UNCHANGED <<log, fenced, fetch, revoked, ctx, held, txnMu, storeVars, fate>>

(***************************************************************************)
(* The environment                                                         *)
(***************************************************************************)
\* Bound: each message is published by a user once, with a fresh id.
UserPublish(m, p) ==
    /\ ~fenced
    /\ ~Accepted(m)
    /\ AppendTo(<<Main, p>>, [id |-> m, attempt |-> 0, orig |-> << >>])
    /\ UNCHANGED <<offsets, fenced, fetch, revoked, ctx, held, worker, txnMu,
                   storeVars, fate>>

Cancel(s) ==
    /\ "cancel" \in Faults
    /\ Live(s)
    /\ ctx' = [ctx EXCEPT ![s] = "cancelled"]
    /\ UNCHANGED <<brokerVars, held, worker, txnMu, storeVars, fate>>

\* Bound: only of a run that is live; a cancelled run already commits nothing.
RevokePartition(s, tp) ==
    /\ "revoke" \in Faults
    /\ Live(s)
    /\ Assigned(s, tp)
    /\ Revoke(s, tp)
    /\ UNCHANGED <<log, offsets, fenced, fetch, ctx, held, worker, txnMu,
                   storeVars, fate>>

Fence ==
    /\ "fence" \in Faults
    /\ SetFenced
    /\ UNCHANGED <<log, offsets, fetch, revoked, ctx, held, worker, txnMu,
                   storeVars, fate>>

LeaseExpires(m) ==
    /\ "expire" \in Faults
    /\ Store!Expire(m)
    /\ UNCHANGED <<brokerVars, ctx, held, worker, txnMu, fate>>

(***************************************************************************)
(* The specification                                                       *)
(***************************************************************************)
Dispatcher(s) == Poll(s) \/ Send(s)

Worker(s, tp) ==
    \/ Take(s, tp) \/ WaitElapsed(s, tp)
    \/ Claim(s, tp) \/ ClaimError(s, tp)
    \/ HandlerOk(s, tp) \/ HandlerErr(s, tp) \/ BackoffElapsed(s, tp)
    \/ CloseClaim(s, tp)
    \/ Route(s, tp) \/ Publish(s, tp)
    \/ BeginTxn(s, tp) \/ StageTxn(s, tp) \/ CommitTxn(s, tp)
    \/ Ack(s, tp) \/ Commit(s, tp)
    \/ Drain(s, tp) \/ DrainCommit(s, tp)

Environment ==
    \/ \E m \in Msgs, p \in Partitions : UserPublish(m, p)
    \/ \E s \in Sessions : Run(s) \/ Cancel(s)
    \/ \E s \in Sessions, tp \in Subscribed : RevokePartition(s, tp)
    \/ Fence
    \/ \E m \in Msgs : LeaseExpires(m)

Next ==
    \/ Environment
    \/ \E s \in Sessions : Dispatcher(s)
    \/ \E s \in Sessions, tp \in Subscribed : Worker(s, tp)

Spec == Init /\ [][Next]_vars

(* The scheduler runs every goroutine of a live run; handlers return.  A     *)
(* cancelled run is owed nothing, and neither is the environment.            *)
Fairness ==
    /\ \A s \in Sessions : WF_vars(Dispatcher(s))
    /\ \A s \in Sessions, tp \in Subscribed : WF_vars(Live(s) /\ Worker(s, tp))

FairSpec == Spec /\ Fairness

(***************************************************************************)
(* Properties                                                              *)
(***************************************************************************)
\* Every variable has its type, and the group never commits an offset past
\* the end of a partition (memSub.Commit, memTxn.Commit).
TypeOK ==
    /\ log \in [TPs -> Seq(Recs)]
    /\ offsets \in [TPs -> Nat]
    /\ \A tp \in TPs : offsets[tp] <= Len(log[tp])
    /\ fenced \in BOOLEAN
    /\ fetch \in [Sessions -> [TPs -> Nat \cup {Unpolled}]]
    /\ revoked \in [Sessions -> SUBSET TPs]
    /\ ctx \in [Sessions -> {"new", "live", "cancelled"}]
    /\ held \in [Sessions -> SUBSET Subscribed]
    /\ worker \in [Sessions -> [Subscribed ->
                     [pc : PCs, off : Nat, att : 0 .. MaxRetries]]]
    /\ txnMu \in [Sessions -> SUBSET Subscribed]
    /\ Store!StoreTypeOK
    /\ fate \in [Msgs -> SUBSET {"handled", "exhausted", "abandoned"}]

\* A message a user published is at every moment still to be delivered to
\* some session, or handled, or dead-lettered, or given up in one of the two
\* ways the code knows: its attempts used up with no dead-letter topic, or a
\* worker that walked away from it (publishing failed, or its claim was taken).
\* Nothing else loses a message: no interleaving of overlapping sessions, no
\* cancellation or revocation between routing a record and committing it.
NoSilentLoss == \A m \in Msgs : Accepted(m) => Pending(m) \/ Settled(m)

\* The consumer implements what it promises its users (DeliveryContract):
\* whatever one step does to logs, offsets and sessions, it neither forgets a
\* message nobody decided about nor takes a decision back.
Contract == INSTANCE DeliveryContract WITH
              accepted <- {m \in Msgs : Accepted(m)},
              pending  <- {m \in Msgs : Pending(m)},
              settled  <- {m \in Msgs : Settled(m)}
KeepsContract == Contract!CSpec

\* The same without the workers that walk away: what at-least-once says.
NoLoss ==
    \A m \in Msgs : Accepted(m) =>
      \/ Pending(m)
      \/ fate[m] \cap {"handled", "exhausted"} # {}
      \/ DeadLettered(m)

\* A record is dealt with when its message is decided about, or waits at a
\* higher stage. Neither the group's offset nor a run that goes on and still has
\* the partition is ever past a record that is not: what a worker has yet to
\* commit it has dealt with, its drained queue included.
Covered(tp, o) ==
    \/ Settled(IdAt(tp, o))
    \/ \E up \in Subscribed : Stage(tp) < Stage(up) /\ Due(up, IdAt(tp, o))
ProgressCovered ==
    \A tp \in Subscribed :
      /\ \A o \in 0 .. offsets[tp] - 1 : Covered(tp, o)
      /\ \A s \in Sessions : Live(s) /\ Assigned(s, tp) =>
           \A o \in 0 .. worker[s][tp].off - 1 : Covered(tp, o)

\* What a routed record's headers say is true: a record of retry topic k
\* carries attempt k, one of the dead-letter topic the last attempt, so that
\* nobody gets more than MaxRetries retries; and its origin is the record of
\* the source topic the message was published as, however often it failed.
HeadersTruthful ==
    \A tp \in TPs : \A i \in 1 .. Len(log[tp]) :
      LET r == log[tp][i] IN
      /\ r.attempt = IF Stage(tp) = Dlq THEN MaxRetries ELSE Stage(tp)
      /\ IF Stage(tp) = Main
           THEN r.orig = << >>
           ELSE /\ r.orig # << >>
                /\ Stage(r.orig[1]) = Main
                /\ IdAt(r.orig[1], r.orig[2]) = r.id

\* publishTransactional: the routed record and the offset of the record it
\* comes from become visible together.
TxnAtomic ==
    \A tp \in TPs : Stage(tp) # Main =>
      \A i \in 1 .. Len(log[tp]) :
        LET r == log[tp][i] IN r.orig[2] < offsets[r.orig[1]]

\* A session routes each record it is given at most once, so the copies of a
\* message in a topic are bounded by the sessions and the copies before it.
Copies(tp, m) == {tp} \X {i \in 1 .. Len(log[tp]) : log[tp][i].id = m}
Started == {s \in Sessions : ctx[s] # "new"}
CopiesBelow(k, m) == UNION {Copies(tp, m) : tp \in {t \in TPs : Stage(t) < k}}
DuplicatesBounded ==
    \A m \in Msgs : \A k \in 1 .. Dlq :
      Cardinality(Copies(PartitionOf(k), m)) <=
        Cardinality(Started) * Cardinality(CopiesBelow(k, m))

\* Without OrderingPerPartition a message climbs the retry topics one by one:
\* nobody's attempt is counted twice, so that a message gets every attempt it
\* is due before it is dead-lettered (failAndRoute, processInPlace).
Reached(k, m) == IF k = Main THEN Accepted(m) ELSE Contains(PartitionOf(k), m)
NoAttemptSkipped ==
    Ordering # "PerPartition" =>
      \A m \in Msgs : \A k \in 1 .. Dlq : Reached(k, m) => Reached(k - 1, m)

\* A session never has more records of a partition in hand than its channel
\* holds, the worker processes and the polling loop sends, and the loop sends
\* one record at a time: it polls nothing while it waits for a full channel.
Backpressure ==
    \A s \in Sessions : \A tp \in Subscribed :
      /\ Buffered(s, tp) \in 0 .. ChanCap
      /\ tp \in held[s] => held[s] = {tp} /\ fetch[s][tp] # Unpolled

\* Where a worker cannot go on: its channel is empty, or it is about to begin a
\* transaction and another worker of the run is in one.
Waits(s, tp) ==
    \/ At(s, tp, "idle") /\ Buffered(s, tp) = 0
    \/ At(s, tp, "lock") /\ txnMu[s] # {}

\* Nobody waits for somebody who waits: the worker whose full channel stops the
\* polling loop has a record to go on with, or waits for the transaction mutex
\* like the others, and who holds that will let go of it by itself.
NoDeadlock ==
    \A s \in Sessions : \A tp \in Subscribed :
      tp \in held[s] \/ At(s, tp, "lock") =>
        \/ tp \in held[s] /\ Buffered(s, tp) < ChanCap
        \/ ~Waits(s, tp)
        \/ \E q \in txnMu[s] : ~Waits(s, q)

\* The group's offsets never move back, however late a commit arrives.
OffsetsNeverRewind == [][\A tp \in TPs : offsets'[tp] >= offsets[tp]]_offsets

\* Whoever runs the handler of m, or is about to run it again or to close its
\* claim.
Handling(m) == {w \in Sessions \X Subscribed :
                  /\ worker[w[1]][w[2]].pc \in {"handle", "backoff", "complete", "fail"}
                  /\ Id(w[1], w[2]) = m}

\* While leases do not expire, overlapping sessions, redeliveries and retry
\* copies never run two handlers of one message at the same time.
OneHandlerAtATime == \A m \in Msgs : Cardinality(Handling(m)) <= 1

\* While leases do not expire and the store answers, a message that was
\* handled is not handled again, even if the session that handled it died
\* before it could say so.
HandledOnce ==
    \A m \in Msgs : "handled" \in fate[m] =>
      \A w \in Handling(m) : At(w[1], w[2], "complete")

\* While leases do not expire, a claim that was completed is never opened again
\* nor marked as failed, neither by a session that was given the message again
\* nor by one whose handler failed (Memory.Complete and Memory.Fail overwrite
\* whatever they find).
StaysCompleted ==
    [][\A m \in Msgs : entry[m] = "completed" => entry'[m] = "completed"]_entry

\* OrderingPerPartition: nobody decides about a record before its predecessors
\* in the partition are decided.
InOrder ==
    \A p \in Partitions :
      LET q == log[<<Main, p>>] IN
      \A i, j \in 1 .. Len(q) : i < j /\ Settled(q[j].id) => Settled(q[i].id)

\* A run that is neither cancelled nor loses a partition.
Stable == \E s \in Sessions : Live(s) /\ revoked[s] = {}

\* If one such run is there in the end, every message published is decided...
Settles == <>[]Stable => \A m \in Msgs : Accepted(m) ~> Settled(m)

\* ... and the group catches up: nothing is left to be delivered.
CatchesUp == <>[]Stable => \A m \in Msgs : <>[]~Pending(m)
===========================================================================

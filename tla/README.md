# Verification of retrykafka

retrykafka is a Go library that consumes Kafka topics with retries: a record
whose handler fails is published again to a retry topic and, when its attempts
are used up, to a dead-letter topic. This directory holds TLA+ modules of its
core, TLC configurations that check them on small instances, and proofs for
TLAPS.

## 1. The system

| Component | State | Operations | Interacts with |
|---|---|---|---|
| Consumer (`consumer.go`) | handlers, `closed`, `cancel`, `txnMu`; per run: a subscription, one worker goroutine and one 32-place channel per partition | `Handle`, `Run`, `Close`; per record `process`, `processInPlace`, `failAndRoute`, `routeTerminal`, `publishOutcome`, `publishTransactional`, `commit` | driver, idempotency store, user handlers |
| In-memory broker (`driver/memory.go`) | topics, group offsets, fenced, closed; per subscription: fetch positions, revoked partitions, a wake-up channel; per transaction: buffered records and offsets | `Publish`, `Subscribe`, `Poll`, `Commit`, `Assigned`, `BeginTxn`, the transaction's `Publish`/`SendOffsets`/`Commit`/`Abort`, `Revoke`, `SetFenced`, `Close` | called by consumers and publishers |
| Kafka driver (`driver/kafka`) | a franz-go producer and one client per subscription, a transaction mutex | the same interface | Kafka |
| Idempotency store (`idempotency`) | one entry per message id: state and lease | `TryStart`, `Complete`, `Fail` | called by workers |
| Adapters (`adapters/*`) | the same entries in Redis, DynamoDB, MongoDB, Postgres | the same, each several requests | called by workers of several processes |
| Topic plan (`consumer.go`, `internal.go`) | topic names from formats or a namer | `topicPlanLocked`, `validateTopicNames`, `lookup` | `Run`, `process` |
| Messages and headers (`convert.go`, `headers.go`, `message.go`) | none | conversion, `attachRetryMetadata` | consumer, publisher |
| Publisher, Client (`publisher.go`, `client.go`) | `closed` | `Publish`, `Close` | driver |
| Configuration (`options.go`, `processing.go`) | the options | validation | all |
| Telemetry (`observability`) | none that matters here | logs, spans, metrics | all |

What is hard here:

* **Overlap.** Several runs of one group work on the same offsets: processes of
  a group after a rebalance, or the workers a timed-out shutdown leaves behind.
  Every run reads the committed offset once per partition and goes on from
  there by itself.
* **Two writes.** At-least-once publishes and then commits; a run can be
  cancelled, die or lose the partition in between. Transactions make the two
  writes one, but look at the assignment before and not while they commit.
* **Walking away.** Several error paths return from `process` without routing
  or committing the record; the worker then takes the next one, whose commit
  passes the first.
* **Leases.** A claim says that somebody is working, not who, and outlives the
  worker. The durable stores make one claim out of several requests.
* **Ordering and waiting.** A retry record waits on its worker, its channel
  fills, and the one polling loop of the run waits for the channel.
* **Wake-ups.** A poll of the in-memory broker waits on a channel of one place;
  what it waits for may come between its scan and its wait, and `Close` and
  `revoke` change the subscription first and send afterwards, without the mutex.
* **Starting and stopping.** `Run` and `Close` look at and write the consumer in
  several critical sections; all runs share one cancel function and one wait
  group; a run may return while its workers go on.
* **Names.** Retry and dead-letter topics may have any name a `TopicNamer`
  gives; what a record's topic and headers say decides who handles it, while
  `Handle` may change what is registered.
* **The client below.** franz-go moves a subscription's position past all it
  returns, and has one transaction at a time for all that share the producer.

What makes each component correct: nothing accepted is forgotten before
something was decided about it (consumer); records keep their history in their
headers (conversion); duplicates are bounded by the sessions (consumer); the
group's offsets only grow and stay within the logs, a transaction is all or
nothing (broker); one handler per message at a time and none after success
(store); a claim made of several requests is as exclusive as an atomic one
(adapters); every message is decided in the end (all together); channels hold
what they may and nobody waits in a circle (consumer); no poll sleeps through
what it waits for (broker); a run ends when it is closed, and its workers before
it (consumer); a record stays with its handler and goes where a run listens
(topic plan); nobody ends the transaction of another (Kafka driver).

## 2. The modules

* `Topics` – the topics of one logical topic, named by stage: 0 is the source
  topic, `k` the retry topic of attempt `k`, `MaxRetries + 1` the dead-letter
  topic. The source topic has `Partitions`; the others have one partition, as
  the consumer creates them (`defaultTopicSpec`).
* `MemoryBroker` – logs, group offsets, fencing, fetch positions and
  revocations, with the polling order, the monotone commit and the atomic
  effect of a transaction as operators.
* `ClaimStore` – the idempotency store. `entry = "expired"` is a PROCESSING
  entry whose lease is over, so `Expire` is a step of the clock. The history
  variable `holders` says who was told to proceed and still has its lease.
* `DeliveryContract` – what a user is promised, as an abstract specification
  with three sets of messages: accepted, pending, settled.
* `Consumer` – extends `MemoryBroker`, instantiates `ClaimStore` (key: message,
  claimant: a worker) and `DeliveryContract` (a refinement mapping), and has
  the dispatcher, the workers and the environment as actions.
* `ClaimAdapters` – the four durable stores as sequences of atomic requests;
  instantiates `ClaimStore` as what they implement.
* `MemoryPoll` – how `Poll` of the in-memory broker waits: scan, token, wait.
* `Lifecycle` – extends `MemoryPoll` with calls of `Run`, their goroutines,
  `Consumer.Close` and `Publisher.Close`.
* `TopicPlan` – several handlers, any namer, and one record on its way.
* `KafkaDriver` – `Poll`, `Commit` and transactions over a franz-go client.
* `MCConsumer`, `MCClaimAdapters`, `MCTopicPlan` – symmetry sets and instances
  for TLC.
* `ConsumerProofs`, `DeliveryProofs`, `RoutingProofs`, `HandlingProofs` (about
  `Consumer`), `LifecycleProofs`, `TopicPlanProofs`, `KafkaDriverProofs` and
  `ClaimAdaptersProofs` – the theorems of section 4 and their proofs.

`Consumer` takes what the others are about as given: that a poll returns when
there is something to return (`MemoryPoll`), that a run starts and is cancelled
(`Lifecycle`), that the topics of a handler are its own (`TopicPlan`), and a
driver that does what the in-memory one does (`KafkaDriver` shows where the
other one does not).

### How Consumer.tla follows the code

A *session* is one call of `Run` with its subscription. `worker[s][tp].pc` names
the place of a worker between two accesses to state others can write:

| pc | next step | code |
|---|---|---|
| idle | `Take` | `for job := range ch` with the test of `ctx.Err()` |
| wait | `WaitElapsed` | `waitNotBefore` |
| claim | `Claim`, `ClaimError` | `TryStart` |
| handle | `HandlerOk`, `HandlerErr` | `runHandler` |
| backoff | `BackoffElapsed` | the timer of `processInPlace` |
| complete, fail | `CloseClaim` | `Complete`, `Fail`, errors ignored |
| route | `Route` | `failAndRoute`, `routeTerminal`, the first test of `publishOutcome` |
| publish | `Publish` | `drv.Publish` |
| lock, stage, txnCommit | `BeginTxn`, `StageTxn`, `CommitTxn` | `publishTransactional` |
| ack, commit | `Ack`, `Commit` | `Consumer.commit`, then `memSub.Commit` once the broker is locked |
| drain, drainCommit | `Drain`, `DrainCommit` | `drain` of `partitionLoopPerKey` |

Reads of `Assigned` that follow one another with nothing others write in between are one
read: an assignment is only ever taken away, so the last read decides. The
queue of `partitionLoopPerKey` never holds more than the record in hand,
because `process` runs each record to its end before the loop looks at the
next; what remains of it is the second commit. The context is looked at by each
driver call before it locks the broker, so the action of such a call may act
although the run was cancelled meanwhile, and may fail when it was.

A channel is not a variable: what it holds is what was polled and not yet taken
(`Buffered`), and `held` is the record the dispatcher is sending while the
channel is full.

History variables: `fate[m]` collects what was decided about `m` (handled,
exhausted without a dead-letter topic, abandoned by a worker that walked away),
`holders` as above. No action reads them except to write them.

The environment publishes messages, starts and cancels runs, revokes
partitions, fences and unfences the producer, lets leases run out and makes the
store fail, as far as `Faults` allows. A process that dies is a cancelled run
that takes no further step: nothing obliges a cancelled run to take one.

### How the other modules follow the code

`MemoryPoll`. `poll[s]` is where a call of `memSub.Poll` is: `out`; `scan`, about to
call `tryPoll`; `empty`, back from it with nothing and no mutex held; `wait`, in the
`select`. `token[s]` says the notify channel is full, `owed[s]` counts callers of
`Close` and `revoke` that changed the subscription and have not sent yet.
`WakeAll` is `wakeLocked`. A scan is one step because the broker's mutex is held;
the writes of `revoked` and `closed`, which it does not exclude, are read at most
once per partition.

`Lifecycle`. `run[s]` is where a call of `Run` is (`new`, `planned` after the first
critical section, `armed` after it stored its cancel function, `created`, `poll`,
`send`, `leave`, `wait`, `returned`; `refused` is an early return with an error).
`worker[s][p]`, `buf[s][p]` and `wg` are its goroutines, their channels and `c.wg`;
`waiter[s]` is the goroutine that calls `wg.Wait` and may be let go some time
before it runs again, which is when `sync.WaitGroup` panics if the counter has
been used again. `closer` is how far `Consumer.Close` is between marking the
consumer closed, calling the cancel function and closing the driver.
`DriverEndsPolls` tells the in-memory driver, whose `Close` ends the polls of all
subscriptions, from the Kafka driver, whose subscriptions have clients of
their own.

`TopicPlan`. `handlers` is `c.handlers`, `Planned` the subscription of
`topicPlanLocked`, `ValidNames` what `validateTopicNames` compares, `Lookup` the
handlers `lookup` may find (a set, because the last of its three ways goes
through a Go map in random order). The record carries its topic,
`x-original-topic` and `x-retry-attempt`. Names are model values: the formats of
the default namer are one of the namers.

`KafkaDriver`. `position` is what the subscription's client fetches next, `queue[p]`
what the worker of `p` was given; `ToKgo` is the record `Commit` builds, without
partition and offset. `pc[p]` goes through `begin`, `publish`, `offsets`, `commit`
and `abort` of a transaction; `txnMu` and `txnDone` are the driver's. What franz-go
and Kafka do is stated at the head of the module and marked external: the client
is in at most one transaction, every call may fail, a call that failed may have
had its effect, a restart aborts what is open.

## 3. The runs

| Run | Instance | Shows |
|---|---|---|
| `alo` | 2 sessions, 1 message, 1 retry topic, DLQ; cancel, fence | `TypeOK`; `KeepsContract`: the consumer implements `DeliveryContract`; `HeadersTruthful`; `DuplicatesBounded`; `NoAttemptSkipped`; `OffsetsNeverRewind` |
| `faults` | 1 session, 2 source partitions, 2 messages, store; revoke, fence, expire, store errors | `NoSilentLoss`, `ProgressCovered` |
| `txn` | transactional, OrderingPerKey, 2 sessions, 1 message, 1 retry; cancel, revoke | `TxnAtomic`, `NoLoss`, `NoDeadlock` |
| `store` | OrderingPerPartition, store, 2 sessions, 3 messages, 1 retry; cancel | `OneHandlerAtATime`, `HandledOnce`, `StaysCompleted`, `InOrder`, `Backpressure` |
| `live` | transactional, 2 sessions, 1 message, 1 retry, fairness; cancel | `Settles`, `CatchesUp` |
| `adapters` | 1 key, 3 callers, each of the four stores | `ImplementsClaimStore` |
| `life` | 2 runs, 1 partition, 1 record, channels of one place, auto-created topics, in-memory driver, fairness | `NoLostWakeup`, `NoWorkerOutlivesRun`, `CrashNeedsOverlap`, `WaitsAnswered`, `CloseEndsRuns`, `SeesRecords` |
| `names` | 2 handlers, 2 more names, up to 2 attempts, every namer over them (one dead-letter topic for both handlers, with each name it may have) | `SameHandler`, `NeverUnhandled`, `FailuresBounded`, `NothingStranded` |
| `kafka` | 2 partitions, 3 records, failing calls, restarts, fairness | `OnlyFirstLost`, `RoutedVisible`, `NoDoubleUnlock`, `TxnOwned`, `TxnEnds` |
| `v_close`, `v_kafka`, `v_fence` | see section 5 | statements of the documentation the code does not keep |

`alo`, `life`, `names` and `kafka` also check the type invariants of their modules.

Bounds. Two sessions are the smallest overlap; what a third could do to the
first two, another step of the second can do as well, because sessions meet
only in the group's offsets, the logs and the store. One message and one retry
topic already give several records at several offsets (its copies); runs whose
property is about passing a record by, or about order, have two or three
messages. A retry topic and the dead-letter topic are enough to tell the first,
the middle and the last attempt apart. `ChanCap = 1` instead of 32 makes full
channels happen. Users publish each message once; two records with one id exist
all the same, through redelivery and retries. Three callers of the adapters are
a stale one, its successor and a third that profits from their mistakes.
In `life` two runs are what it takes to overwrite a cancel function and to share
a wait group, and one record is enough to be slept through, to fill a channel
and to keep a worker busy beyond the timeout. In `names` two handlers and two
other names let every pair of topics coincide; two attempts make a retry topic
that is neither the first nor followed by the dead-letter topic. In `kafka` two
partitions are what a fetch can drop a record of, and three records let a dropped
record have a successor in its partition while the other partition has one.
Deadlock is not checked in the runs of `Consumer`, `ClaimAdapters` and `Lifecycle`:
when everything is decided, or every run is cancelled or has returned, the
system rightly stops. Behind TLC's small instances, the theorems of section 4
hold for every instance.

Fairness. `Consumer`: the dispatcher of a live run and each of its workers are
scheduled (goroutines are; timers fire; handlers are assumed to return): weak
fairness of each as long as its run is live. Nothing is assumed of cancelled
runs, of users, or of a fenced producer becoming available. The mutex `txnMu`
needs no more than weak fairness because the properties checked need only that
it keeps being released, with finitely many records to be routed. `Lifecycle`:
the goroutines of runs, workers and waiters are scheduled, the shutdown timer
fires, handlers return, a caller that changed a subscription goes on to send the
token, and a call of `Close` is carried through; nobody need call `Run`, `Close` or
`Publish`, and nobody need cancel. `KafkaDriver`: each worker is scheduled and
each call of the client returns, with or without an error; nothing is assumed of
polls, producers or restarts.

Mutants. A definition named after another with a suffix (`HandlerErr_NotInPlace`)
is that definition with a plausible mistake in it; each property of a passing
run is violated when one of them takes the place of the original.

## 4. Proofs

`ConsumerProofs` proves `Spec => []TypeOK` for every value of the constants. The
invariant `TypeInv` is `TypeOK` and `JobsExist`: a worker that is busy works on
a record that exists, and its position is within the log. `TypeOK` is not
inductive by itself, because a commit reads the offset of the worker's record
and must not pass the end of the partition. The step lemmas follow the shape of
the model: an action of a worker moves the worker (`WorkerMoves`) and acts on
the broker (`WorkerBroker`) in one of a few ways, and each part of the invariant
looks at one of the two.

The same module proves how goroutines of one run wait for each other, again for
every value of the constants:

* `ChannelsBounded == Spec => []Backpressure`. Channels are not variables, so that
  they hold between 0 and `ChanCap` records is a fact about positions: between
  what a session polled and what its worker is at lie the record in hand, the
  record being sent and the channel (`BufferCount`). `Backpressure` is inductive
  over `TypeInv`.
* `DeadlockFree == Spec => []NoDeadlock`. The polling loop waits for a worker with a
  full channel, and workers wait for `txnMu`. The invariant `MutexInv` says that
  whoever has the mutex is inside his transaction, and that there is one at most:
  such a worker waits for nobody, and by `Backpressure` the worker of a full
  channel has a record to go on with. `NoDeadlock` is about single states; that
  those who can go on do is fairness, and `Settles` is TLC's.

`DeliveryProofs` proves that the consumer implements its contract
(`ConsumerKeepsContract == Spec => KeepsContract`) and, as a corollary of the same
invariant, `NothingLostSilently == Spec => []NoSilentLoss` and `NothingPassed == Spec
=> []ProgressCovered`, for all guarantees, orderings and faults. `NoSilentLoss` is about one message; a step can only be
seen to keep it by looking at single records and at what each worker may do
next, so the invariant `DeliveryInv` has these parts:

* a record is *covered* if its message is settled or due at a higher stage.
  `OffsetsSound`: everything below a committed offset is covered. As a message
  is due at one of finitely many stages, or settled, nothing is lost.
* `WorkersSound`: a worker that can still commit has covered all it passed, and
  its own record too once it is about to commit it. It may leave a record
  uncovered only when its partition was revoked or its run cancelled, both of
  which last. That is the point of the tests in `publishOutcome`, `commit`
  and `drain`, and why the order of those tests matters.
* `AttemptsMatch`: what fails at a stage is routed to a higher one (otherwise a
  record could be covered by itself).
* `ClaimsTruthful`: the store says completed only of what was handled, so
  skipping a completed record covers it.
* `NothingInvented`: logs and fates speak of accepted messages only.

The heart of the proof is `CoveredStays`: what a commit takes away from being
due was covered one stage further up, so no commit uncovers another record.
`WorkerSafe` then goes through the worker's actions one by one, `SoundKept`
through those that stand still. `ProgressCovered` is what the first two parts say
to a user: of the group, and of every run that is neither cancelled nor has lost
the partition.

`RoutingProofs` proves:

* `HeadersAlwaysTruthful == Spec => []HeadersTruthful`; the invariant adds that the
  origin a header names exists, which appending cannot change.
* `EveryAttemptMade == Spec => []NoAttemptSkipped`: without OrderingPerPartition,
  which uses attempts up in place, a worker's attempt is exactly the stage of its
  record (`AttemptsExact`; `AttemptsMatch` says only that it is no less), so it
  routes one stage up and a message in a topic was in all the topics below
  (`Climbed`).
* `OffsetsOnlyForward == Spec => OffsetsNeverRewind`.
* `AtLeastOnce`: with no fencing and no idempotency store, `Spec => []NoLoss`. Both
  hypotheses are needed (`v_fence`, and the skipped record of section 5): then
  nobody ever walks away from a record (`NobodyAbandons`), and `NoLoss` follows from
  `NoSilentLoss`.
* `TransactionsAtomic`: with the transactional guarantee, `Spec => []TxnAtomic`;
  nothing is published outside a transaction, headers are true, offsets only
  grow.

`ClaimAdaptersProofs` proves `AdaptersImplementClaimStore == Spec =>
ImplementsClaimStore`: a request that grants is the abstract `TryStart`, every
other is a stutter, because each insert or replace that grants is conditional on
an entry `TryStart` would claim.

`HandlingProofs` is about what overlapping sessions do to one message:

* `OneHandler`: while leases do not expire, `Spec => []OneHandlerAtATime`, also when
  the store fails. The invariant says that whoever handles a message has its
  claim (`ClaimsHeld`) and nobody else has (`HandlersApart`): `TryStart` grants
  only what is not held, and a claim is closed by the step that ends the handling.
* `NeverHandledAgain`: if the store answers too, `Spec => []HandledOnce`. A message
  that was handled is marked completed, or the worker that handled it still
  holds the claim, for ever if it died (`HandledClosed`).
* `CompletedForGood`: while leases do not expire, `Spec => StaysCompleted`, also when
  the store fails. `Complete` and `Fail` overwrite whatever they find; by
  `ClaimsHeld` what they find is the claim of the caller, and a completed entry
  is nobody's.
* `DecidedInOrder`: with OrderingPerPartition, no revocation and a store that
  answers, `Spec => []InOrder`. Attempts are used up in place, so retry topics
  stay empty (`NoRetries`, `LastAttempt`); then covered means settled, and
  `WorkersSound` says that a busy worker has settled all it passed.
* `CopiesBounded`: for finitely many sessions and partitions, with all the faults,
  `Spec => []DuplicatesBounded`. `CopiesMade` bounds the copies of a message in a
  topic by the pairs of a session and a lower copy that session is done with;
  routing adds a copy and a pair that was not there (`RouterDone`), and no pair
  ever leaves (`DoneStays`).

`LifecycleProofs` proves, for any number of subscriptions and partitions:

* `NoWakeupIsLost` of `MemoryPoll` alone, whoever its callers are, and
  `RunsMissNoWakeup` of `Lifecycle`, each step of which is a call on the broker or
  none. The invariant adds that only subscriptions the broker knows are polled.
* `WorkersEndFirst == Spec => []NoWorkerOutlivesRun` and `ReuseNeedsOverlap == Spec =>
  []CrashNeedsOverlap`. The invariant: the wait group counts the workers that are
  alive (`Counting`), what each station of a run says of its workers and its
  waiter (`Stations`), and that without overlap at most one run is not over
  (`Alone`).
* `NobodyForgotten == Spec => []WaitsAnswered`, also while runs overlap. The invariant
  (`Answered`): a worker is only ever gone from a run whose context is done, a
  record being sent has had its worker started, and a waiter that is blocked sees
  a counter that is not 0, which by `Counting` is a worker that is alive.
* `TypeCorrect`; the counter of the wait group never goes below 0, the other way
  to panic.

`KafkaDriverProofs`, for any number of partitions, workers and records: a worker
between `BeginTxn` and the end of its transaction holds `txnMu`, and the client
is in a transaction that is this worker's and contains its record (`Locked`,
`Published`). Hence `CommittedIsVisible`, `UnlockedOnce`, and, as commits only ever
write offset 1 of partition 0 (`Offsets`), `DroppedComesBack`. `OneOwner == Spec =>
[]TxnOwned` turns the implication around: the mutex is locked only for a worker
that is still in its transaction, and nothing but that worker's record is in the
client's. This is inductive over the same invariant; each way out of a
transaction, failed or not, frees the mutex and empties the client together
(`FreeOwned`).

`TopicPlanProofs`, for any names, namers, attempts and calls of `Handle`: a record
that waits was never routed, or its origin names its home and its topic is the
retry topic of its attempt or the dead-letter topic (`Placed`, `Counted`). Hence
`RecordKeepsItsHandler`, `AlwaysAHandler`, `NoCircles` and `NextRunSubscribes`. They
assume what the code does not check: that no routed name is a topic with a
handler (`NamesApart`) and, for `NoCircles`, that no dead-letter topic is somebody's
retry topic (`DlqApart`). `TypeCorrect` needs neither.

The assumptions are those of the modules on their constants
(`TopicsAssumption`, `ConsumerAssumption`, `AdapterAssumption`, `PollAssumption`,
`LifecycleAssumption`, `KafkaAssumption`, `PlanAssumption`) and the hypotheses
named above. Every invariant a passing run checks is also proved, and so are the
action properties `OffsetsNeverRewind` and `StaysCompleted` and both refinements.
Left to TLC is liveness, which is out of the prover's reach: `Settles`,
`CatchesUp`, `CloseEndsRuns`, `SeesRecords`, `TxnEnds`.

## 5. Where the documentation says more than the code does

Each of these is a run that TLC finds violated.

* `v_fence` – after a failed publish the worker goes on, and a later commit
  passes the record (`consumer.go:436`). At-least-once as `NoLoss` states it
  fails; `NoSilentLoss`, which counts a record its worker walked away from as
  settled, holds.
* `v_close` – with a driver whose `Close` leaves the subscriptions' clients open,
  a run that looked at `closed` before `Close` and stored its cancel function
  after it, or whose function another run has overwritten, polls on for ever
  (`consumer.go:89`). `life` shows that with the in-memory driver every run ends.
* `v_kafka` – the Kafka driver returns the first record of a fetch, forgets the
  others, and commits offset 0 of partition 0 whatever record it is given
  (`franz.go:177`, `franz.go:236`). `kafka` shows that because of the second
  mistake the first one only delays records until the next start, but for the
  first record of partition 0. Mending `Commit` alone would lose them for good:
  the two go together.

Seen while modelling, without a run:

* A session dies holding a claim; the next one skips the record as in progress
  and a later commit passes it (`consumer.go:351`; `docs/idempotency.md:15`).
  `Complete` and `Fail` do not look at whose lease they close
  (`idempotency/store.go:92`).
* An offset may be committed after the partition was revoked, because the
  assignment is read before the broker is locked (`memory.go:378`), and records
  already in a channel are still handled (`consumer.go:282`).
* The polling loop waits for the channel of one partition, so another partition
  waits for that one's backoff (`consumer.go:141`; `docs/backoff.md:13`).
* OrderingPerKey commits a record whose publish failed even without a successor
  (`consumer.go:619`); with a failing store OrderingPerPartition sends a record
  to a retry topic and its successors overtake it (`consumer.go:343`), which is
  why `DecidedInOrder` assumes a store that answers.
* The mongo store answers "in progress" when the document vanished between insert
  and find, the others when an entry changed between read and conditional write,
  although nobody holds the key (`adapters/mongo/store.go:62`).
* Two runs of one consumer that overlap may make the wait group panic
  (`consumer.go`, `c.wg`): `CrashNeedsOverlap` is as much as can be promised.
  `Close` closes the driver without waiting for `Run`, and errors of `Poll` other
  than `ErrClosed` are tried again at once.
* `SendOffsets` of the Kafka driver drops the offsets (`franz.go:208`; `README.md:59`),
  and `Driver.Publish` does not take `txnMu`, so what a user publishes on a shared
  transactional driver joins a worker's transaction (`franz.go:60`).
* A topic with a handler whose name is another's retry or dead-letter topic
  passes validation (`internal.go:143`); its records may then go round for ever.
  A consumer of a dead-letter topic that fails routes the record by
  `x-original-topic`, back to the first handler's retry topics. A record
  somebody publishes to a retry topic directly has that topic as its origin once
  it failed, and is then committed for want of a handler. Hence `NamesApart`,
  `DlqApart` and `home` in the properties of `TopicPlan`.
* A run with fewer attempts than an earlier one does not subscribe to the retry
  topics where that one left records; `NothingStranded` excepts exactly this.

## 6. Not modelled

Telemetry, errors, the example, option plumbing and validation, serialisation
and the formatting and parsing of headers are sequential code without state of
their own. Of the Kafka driver: creation of topics, rebalances, and publishing
outside a transaction, which the code leaves to the client; of the publisher its
own creation of topics. Errors of the backend inside `TryStart` of the adapters and
clocks that differ between processes. Wall-clock time: a backoff or a wait ends
whenever it likes, so no property says how long anything takes. One configuration
is shared by all sessions of `Consumer`, and it has one handler; `TopicPlan` has
several but follows one record. `Lifecycle` and `MemoryPoll` count records without
committing them.

## 7. What could come next

* Publishing outside a transaction on a shared Kafka driver, and rebalances, once
  the driver's `Assigned` looks at them.
* Errors of the backend inside the durable stores, against a weaker abstract store.
* `KafkaDriver` as an implementation of `DeliveryContract`, once `Poll` and `Commit`
  keep what they are given; `v_kafka` is the run that would then pass.

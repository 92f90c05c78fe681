---------------------------- MODULE RoutingProofs ----------------------------
(***************************************************************************)
(* What the records of the retry topics and of the dead-letter topic say   *)
(* about themselves is true, however often a message failed, no attempt is *)
(* skipped, and offsets only move forward; for every number of sessions,   *)
(* messages, partitions and retries, and whatever the configuration and    *)
(* the faults.                                                             *)
(***************************************************************************)
EXTENDS DeliveryProofs

(***************************************************************************)
(* Headers                                                                 *)
(***************************************************************************)
\* The origin of a record of a later stage is a record that exists: partitions
\* are append-only, so it stays the one the headers speak of.
OriginTrue(r) ==
    \E src \in TPs, o \in Nat :
      /\ r.orig = <<src, o>>
      /\ Stage(src) = Main
      /\ o < Len(log[src])
      /\ IdAt(src, o) = r.id

HeaderTrue(tp, r) ==
    /\ r.attempt = IF Stage(tp) = Dlq THEN MaxRetries ELSE Stage(tp)
    /\ IF Stage(tp) = Main THEN r.orig = << >> ELSE OriginTrue(r)

HeadersSound == \A tp \in TPs : \A i \in 1 .. Len(log[tp]) : HeaderTrue(tp, log[tp][i])

LEMMA HeadersImplied == HeadersSound => HeadersTruthful
<1> SUFFICES ASSUME HeadersSound, NEW tp \in TPs, NEW i \in 1 .. Len(log[tp])
             PROVE  LET r == log[tp][i] IN
                    /\ r.attempt = IF Stage(tp) = Dlq THEN MaxRetries ELSE Stage(tp)
                    /\ IF Stage(tp) = Main
                         THEN r.orig = << >>
                         ELSE /\ r.orig # << >>
                              /\ Stage(r.orig[1]) = Main
                              /\ IdAt(r.orig[1], r.orig[2]) = r.id
  BY DEF HeadersTruthful
<1>1. HeaderTrue(tp, log[tp][i])
  BY DEF HeadersSound
<1>2. CASE Stage(tp) = Main
  BY <1>1, <1>2 DEF HeaderTrue
<1>3. CASE Stage(tp) # Main
  <2> PICK src \in TPs, o \in Nat :
         /\ log[tp][i].orig = <<src, o>>
         /\ Stage(src) = Main
         /\ IdAt(src, o) = log[tp][i].id
    BY <1>1, <1>3 DEF HeaderTrue, OriginTrue
  <2>1. <<src, o>> # << >> /\ <<src, o>>[1] = src /\ <<src, o>>[2] = o
    OBVIOUS
  <2> QED
    BY <1>1, <1>3, <2>1 DEF HeaderTrue
<1> QED
  BY <1>2, <1>3

\* What was true of a header stays true.
LEMMA HeaderKept ==
    ASSUME TypeInv, LogsGrow, NEW tp \in TPs, NEW r, HeaderTrue(tp, r)
    PROVE  HeaderTrue(tp, r)'
<1>1. ASSUME OriginTrue(r) PROVE OriginTrue(r)'
  <2> PICK src \in TPs, o \in Nat :
         /\ r.orig = <<src, o>>
         /\ Stage(src) = Main
         /\ o < Len(log[src])
         /\ IdAt(src, o) = r.id
    BY <1>1 DEF OriginTrue
  <2>1. Len(log[src]) \in Nat /\ Len(log'[src]) \in Nat /\ o + 1 \in 1 .. Len(log[src])
    BY TypedFacts DEF LogsTyped, LogsGrow
  <2>2. o < Len(log'[src]) /\ log'[src][o + 1] = log[src][o + 1]
    BY <2>1 DEF LogsGrow
  <2>3. IdAt(src, o)' = r.id
    BY <2>2 DEF IdAt, Record
  <2> QED
    BY <2>2, <2>3 DEF OriginTrue
<1> QED
  BY <1>1 DEF HeaderTrue

\* A record that is appended with a true header.
LEMMA HeadersAppend ==
    ASSUME TypeInv, HeadersSound, NEW up \in TPs, NEW r \in Recs,
           AppendTo(up, r), HeaderTrue(up, r)
    PROVE  HeadersSound'
<1>1. LogsTyped /\ LogsGrow
  BY TypedFacts, AppendFacts
<1>2. /\ Len(log[up]) \in Nat
      /\ Len(log'[up]) = Len(log[up]) + 1
      /\ log'[up][Len(log[up]) + 1] = r
      /\ \A t \in TPs : t # up => log'[t] = log[t]
  BY <1>1, AppendFacts DEF LogsTyped
<1> SUFFICES ASSUME NEW t \in TPs, NEW i \in 1 .. Len(log'[t])
             PROVE  HeaderTrue(t, log[t][i])'
  BY DEF HeadersSound
<1>3. ASSUME i \in 1 .. Len(log[t])
      PROVE  \E q : q = log'[t][i] /\ HeaderTrue(t, q)'
  <2>1. log'[t][i] = log[t][i]
    BY <1>1, <1>3 DEF LogsGrow
  <2>2. HeaderTrue(t, log[t][i])
    BY <1>3 DEF HeadersSound
  <2>3. PICK q : q = log[t][i]
    OBVIOUS
  <2>4. HeaderTrue(t, q)'
    BY <1>1, <2>2, <2>3, HeaderKept
  <2> QED
    BY <2>1, <2>3, <2>4
<1>4. ASSUME t = up, i = Len(log[up]) + 1
      PROVE  \E q : q = log'[t][i] /\ HeaderTrue(t, q)'
  BY <1>1, <1>2, <1>4, HeaderKept
<1>5. i \in 1 .. Len(log[t]) \/ (t = up /\ i = Len(log[up]) + 1)
  BY <1>2
<1>6. PICK q : q = log'[t][i] /\ HeaderTrue(t, q)'
  BY <1>3, <1>4, <1>5
<1> QED
  BY <1>6 DEF HeaderTrue, OriginTrue

\* What failAndRoute writes is true: the topic was chosen from the attempt the
\* header carries, and the origin is kept unless this is the first failure.
LEMMA RoutedTrue ==
    ASSUME TypeInv, HeadersSound, NEW s \in Sessions, NEW tp \in Subscribed,
           ~At(s, tp, "idle"), NEW up \in TPs, up = Destination(worker[s][tp].att)
    PROVE  HeaderTrue(up, Routed(s, tp))
<1>1. /\ tp \in TPs
      /\ worker[s][tp].att \in 0 .. MaxRetries
      /\ worker[s][tp].off \in Nat /\ worker[s][tp].off < Len(log[tp])
      /\ worker[s][tp].off + 1 \in 1 .. Len(log[tp])
      /\ Job(s, tp) = log[tp][worker[s][tp].off + 1]
  BY JobFacts, TopicFacts, TypedFacts DEF LogsTyped
<1>2. /\ Stage(up) # Main
      /\ RoutedAttempt(worker[s][tp].att) =
           IF Stage(up) = Dlq THEN MaxRetries ELSE Stage(up)
  BY <1>1, TopicsAssumption
  DEF Destination, RoutedAttempt, PartitionOf, Stage, Main, Dlq
<1>3. HeaderTrue(tp, Job(s, tp))
  BY <1>1 DEF HeadersSound
<1>4. OriginTrue(Routed(s, tp))
  <2>1. CASE Job(s, tp).orig = << >>
    <3>1. Stage(tp) = Main
      <4>1. ~OriginTrue(Job(s, tp))
        BY <2>1 DEF OriginTrue
      <4> QED
        BY <1>3, <4>1 DEF HeaderTrue
    <3>2. /\ Routed(s, tp).orig = <<tp, worker[s][tp].off>>
          /\ Routed(s, tp).id = IdAt(tp, worker[s][tp].off)
      BY <2>1 DEF Routed, Id, Job, IdAt
    <3> QED
      BY <1>1, <3>1, <3>2 DEF OriginTrue
  <2>2. CASE Job(s, tp).orig # << >>
    <3>1. OriginTrue(Job(s, tp))
      BY <1>3, <2>2 DEF HeaderTrue
    <3>2. Routed(s, tp).orig = Job(s, tp).orig /\ Routed(s, tp).id = Job(s, tp).id
      BY <2>2 DEF Routed, Id
    <3> QED
      BY <3>1, <3>2 DEF OriginTrue
  <2> QED
    BY <2>1, <2>2
<1> QED
  BY <1>2, <1>4 DEF HeaderTrue, Routed

LEMMA HeadersStep == TypeInv /\ HeadersSound /\ [Next]_vars => HeadersSound'
<1> SUFFICES ASSUME TypeInv, HeadersSound, [Next]_vars PROVE HeadersSound'
  OBVIOUS
<1>1. CASE log' = log
  BY <1>1 DEF HeadersSound, HeaderTrue, OriginTrue, IdAt, Record
<1>2. ASSUME NEW m \in Msgs, NEW p \in Partitions, UserPublish(m, p)
      PROVE  HeadersSound'
  <2> DEFINE r == [id |-> m, attempt |-> 0, orig |-> << >>]
  <2>1. PICK src \in TPs : src = <<Main, p>> /\ Stage(src) = Main
    BY TopicFacts
  <2>2. r \in Recs /\ AppendTo(src, r)
    BY <1>2, <2>1, TopicsAssumption DEF Recs, UserPublish
  <2>3. HeaderTrue(src, r)
    BY <2>1, TopicsAssumption DEF HeaderTrue, Main, Dlq
  <2> QED
    BY <2>2, <2>3, HeadersAppend
<1>3. ASSUME NEW s \in Sessions, NEW tp \in Subscribed, Routes(s, tp)
      PROVE  HeadersSound'
  <2>1. ~At(s, tp, "idle")
    BY <1>3 DEF Routes, At
  <2>2. PICK up \in TPs : up = Destination(worker[s][tp].att)
    BY <2>1, JobFacts, DestinationFacts
  <2>3. Routed(s, tp) \in Recs /\ AppendTo(up, Routed(s, tp))
    BY <1>3, <2>1, <2>2, JobFacts DEF Routes
  <2> QED
    BY <2>1, <2>2, <2>3, RoutedTrue, HeadersAppend
<1>4. \/ log' = log
      \/ \E m \in Msgs, p \in Partitions : UserPublish(m, p)
      \/ \E s \in Sessions, tp \in Subscribed : Worker(s, tp)
  BY DEF Next, vars, brokerVars, Environment, Run, Cancel, RevokePartition, Fence,
         LeaseExpires, Dispatcher, Poll, Send
<1> QED
  BY <1>1, <1>2, <1>3, <1>4, WorkerLog

LEMMA HeadersInit == Init => HeadersSound
  BY DEF Init, BrokerInit, HeadersSound

\* Whatever happens to a message on its way: a record of retry topic k carries
\* attempt k, so that nobody retries more than MaxRetries times, and its origin
\* headers name the record the user published (RouteMessage, terminalMessage).
THEOREM HeadersAlwaysTruthful == Spec => []HeadersTruthful
<1>1. Spec => [](TypeInv /\ HeadersSound)
  BY TypeInit, TypeStep, HeadersInit, HeadersStep, PTL DEF Spec
<1> QED
  BY <1>1, HeadersImplied, PTL

(***************************************************************************)
(* Offsets                                                                 *)
(***************************************************************************)
LEMMA OffsetsForward ==
    TypeInv /\ [Next]_vars => [\A tp \in TPs : offsets'[tp] >= offsets[tp]]_offsets
<1> SUFFICES ASSUME TypeInv, [Next]_vars, offsets' # offsets
             PROVE  \A tp \in TPs : offsets'[tp] >= offsets[tp]
  OBVIOUS
<1>1. PICK s \in Sessions, tp \in Subscribed : Worker(s, tp)
  BY DEF Next, vars, brokerVars, Environment, UserPublish, Run, Cancel,
         RevokePartition, Fence, LeaseExpires, Dispatcher, Poll, Send
<1>2. /\ worker[s][tp].off \in Nat /\ tp \in TPs
      /\ offsets \in [TPs -> Nat]
  BY TopicFacts DEF TypeInv, TypeOK
<1>3. CommitOffset(tp, worker[s][tp].off)
  BY <1>1
  DEF Worker, Take, WaitElapsed, Claim, ClaimError, HandlerOk, HandlerErr,
      BackoffElapsed, CloseClaim, Route, Publish, BeginTxn, StageTxn, CommitTxn,
      Ack, Commit, Drain, DrainCommit, brokerVars, TxnEffect
<1> QED
  BY <1>2, <1>3, CommitFacts

\* No commit moves the group back, however late it arrives and whoever sends
\* it (memSub.Commit, memTxn.Commit).
THEOREM OffsetsOnlyForward == Spec => OffsetsNeverRewind
<1>1. Spec => []TypeInv
  BY TypeInit, TypeStep, PTL DEF Spec
<1> QED
  BY <1>1, OffsetsForward, PTL DEF Spec, OffsetsNeverRewind

(***************************************************************************)
(* The at-least-once promise                                               *)
(***************************************************************************)
\* Nobody walks away from a record if the producer is never fenced and there
\* is no claim to lose.
NobodyAbandons ==
    /\ fenced = FALSE
    /\ \A s \in Sessions, tp \in Subscribed : ~At(s, tp, "claim")
    /\ \A m \in Msgs : "abandoned" \notin fate[m]

LEMMA NobodyAbandonsStep ==
    ASSUME "fence" \notin Faults, ~Idempotent
    PROVE  TypeInv /\ NobodyAbandons /\ [Next]_vars => NobodyAbandons'
<1> SUFFICES ASSUME TypeInv, NobodyAbandons, [Next]_vars PROVE NobodyAbandons'
  OBVIOUS
<1>1. fate \in [Msgs -> SUBSET Fates]
  BY DEF TypeInv, TypeOK, Fates
<1>2. ASSUME NEW s \in Sessions, NEW tp \in Subscribed, Worker(s, tp)
      PROVE  NobodyAbandons'
  <2>1. fenced' = FALSE
    BY <1>2, WorkerRest DEF NobodyAbandons
  <2>2. ~At(s, tp, "claim") /\ fenced = FALSE
    BY DEF NobodyAbandons
  <2>3. \/ fate' = fate
        \/ ~At(s, tp, "idle") /\ \E f \in {"handled", "exhausted"} : Decide(Id(s, tp), f)
    BY <1>2, <2>2
    DEF Worker, Take, WaitElapsed, Claim, ClaimError, HandlerOk, HandlerErr,
      BackoffElapsed, CloseClaim, Route, Publish, BeginTxn, StageTxn, CommitTxn,
      Ack, Commit, Drain, DrainCommit, brokerVars, At
  <2>4. \A m \in Msgs : "abandoned" \notin fate'[m]
    BY <1>1, <2>3, JobFacts DEF NobodyAbandons, Decide
  <2>5. worker'[s][tp].pc # "claim"
    <3>1. CASE Take(s, tp)
      <4>1. worker' = [worker EXCEPT ![s][tp] =
               [pc  |-> IF Job(s, tp).attempt > 0 THEN "wait" ELSE "handle",
                off |-> @.off,
                att |-> Job(s, tp).attempt]]
        BY <3>1 DEF Take, Ready
      <4> QED
        BY <4>1, TypedFacts DEF WorkersTyped
    <3>2. CASE /\ ~At(s, tp, "idle")
               /\ \E pc \in PCs \ {"claim"} : Goto(s, tp, pc)
      BY <3>2, GotoMoves
    <3>3. CASE HandlerErr(s, tp)
      BY <3>3, HandlerErrMoves
    <3>4. CASE /\ ~At(s, tp, "idle")
               /\ Finish(s, tp) \/ worker' = [worker EXCEPT ![s][tp] = NextJob(@)]
      BY <3>4, FinishMoves, NextJobMoves
    <3> QED
      BY <1>2, <3>1, <3>2, <3>3, <3>4
      DEF Worker, WaitElapsed, Claim, ClaimError, HandlerOk,
          BackoffElapsed, CloseClaim, Route, Publish, BeginTxn, StageTxn, CommitTxn,
          Ack, Commit, Drain, DrainCommit, Ready, Abandon, At, PCs
  <2>6. \A s2 \in Sessions, tp2 \in Subscribed : worker'[s2][tp2].pc # "claim"
    <3> SUFFICES ASSUME NEW s2 \in Sessions, NEW tp2 \in Subscribed
                 PROVE  worker'[s2][tp2].pc # "claim"
      OBVIOUS
    <3>1. CASE s2 = s /\ tp2 = tp
      BY <2>5, <3>1
    <3>2. CASE <<s2, tp2>> # <<s, tp>>
      BY <1>2, <3>2, WorkerMovesAlways DEF WorkerMoves, Moves, NobodyAbandons, At
    <3> QED
      BY <3>1, <3>2
  <2> QED
    BY <2>1, <2>4, <2>6 DEF NobodyAbandons, At
<1>3. ASSUME NEW s \in Sessions, Poll(s)
      PROVE  NobodyAbandons'
  <2> PICK tp \in Subscribed :
         worker' = IF fetch[s][tp] = Unpolled
                     THEN [worker EXCEPT ![s][tp].off = Position(s, tp)]
                     ELSE worker
    BY <1>3 DEF Poll
  <2>1. \A s2 \in Sessions, t \in Subscribed : worker'[s2][t].pc = worker[s2][t].pc
    BY TypedFacts DEF WorkersTyped, WorkerStates
  <2> QED
    BY <1>3, <2>1 DEF Poll, NobodyAbandons, At
<1>4. ASSUME UNCHANGED <<fenced, worker, fate>> PROVE NobodyAbandons'
  BY <1>4 DEF NobodyAbandons, At
<1>5. \/ UNCHANGED <<fenced, worker, fate>>
      \/ \E s \in Sessions : Poll(s)
      \/ \E s \in Sessions, tp \in Subscribed : Worker(s, tp)
  BY DEF Next, vars, brokerVars, Environment, UserPublish, Run, Cancel,
         RevokePartition, Fence, LeaseExpires, Dispatcher, Send
<1> QED
  BY <1>2, <1>3, <1>4, <1>5

\* Without a producer that can be fenced and without an idempotency store,
\* every message is delivered again until it was handled, dead-lettered or (in
\* the configuration that has no dead-letter topic) used its attempts up: by
\* any number of sessions, cancelled or revoked at any point.
THEOREM AtLeastOnce ==
    ASSUME "fence" \notin Faults, ~Idempotent
    PROVE  Spec => []NoLoss
<1>1. Init => NobodyAbandons
  BY DEF Init, BrokerInit, NobodyAbandons, At
<1>2. Spec => [](TypeInv /\ NobodyAbandons)
  BY <1>1, TypeInit, TypeStep, NobodyAbandonsStep, PTL DEF Spec
<1>3. TypeInv /\ NobodyAbandons /\ NoSilentLoss => NoLoss
  <2> SUFFICES ASSUME TypeInv, NobodyAbandons, NoSilentLoss,
                      NEW m \in Msgs, Accepted(m), ~Pending(m), ~DeadLettered(m)
               PROVE  fate[m] \cap {"handled", "exhausted"} # {}
    BY DEF NoLoss
  <2>1. fate[m] # {} /\ "abandoned" \notin fate[m]
    BY DEF NoSilentLoss, Settled, NobodyAbandons
  <2>2. fate[m] \subseteq {"handled", "exhausted", "abandoned"}
    BY DEF TypeInv, TypeOK
  <2> QED
    BY <2>1, <2>2
<1> QED
  BY <1>2, <1>3, NothingLostSilently, PTL

(***************************************************************************)
(* Transactions                                                            *)
(***************************************************************************)
\* With the transactional guarantee nothing is published outside of one.
NothingOutside == \A s \in Sessions, tp \in Subscribed : ~At(s, tp, "publish")

LEMMA NothingOutsideStep ==
    ASSUME Guarantee = "Transactional"
    PROVE  TypeInv /\ NothingOutside /\ [Next]_vars => NothingOutside'
<1> SUFFICES ASSUME TypeInv, NothingOutside, [Next]_vars PROVE NothingOutside'
  OBVIOUS
<1>1. ASSUME NEW s \in Sessions, NEW tp \in Subscribed, Worker(s, tp)
      PROVE  NothingOutside'
  <2>1. worker'[s][tp].pc # "publish"
    <3>1. CASE Take(s, tp) \/ HandlerErr(s, tp)
      BY <3>1, TakeMoves, HandlerErrMoves
    <3>2. CASE /\ ~At(s, tp, "idle")
               /\ \E pc \in PCs \ {"publish"} : Goto(s, tp, pc)
      BY <3>2, GotoMoves
    <3>3. CASE /\ ~At(s, tp, "idle")
               /\ Finish(s, tp) \/ worker' = [worker EXCEPT ![s][tp] = NextJob(@)]
      BY <3>3, FinishMoves, NextJobMoves
    <3>4. ~At(s, tp, "publish")
      BY DEF NothingOutside
    <3> QED
      BY <1>1, <3>1, <3>2, <3>3, <3>4
      DEF Worker, WaitElapsed, Claim, ClaimError, HandlerOk,
          BackoffElapsed, CloseClaim, Route, Publish, BeginTxn, StageTxn, CommitTxn,
          Ack, Commit, Drain, DrainCommit, Ready, Abandon, At, PCs
  <2> SUFFICES ASSUME NEW s2 \in Sessions, NEW tp2 \in Subscribed
               PROVE  worker'[s2][tp2].pc # "publish"
    BY DEF NothingOutside, At
  <2>2. CASE s2 = s /\ tp2 = tp
    BY <2>1, <2>2
  <2>3. CASE <<s2, tp2>> # <<s, tp>>
    BY <1>1, <2>3, WorkerMovesAlways DEF WorkerMoves, Moves, NothingOutside, At
  <2> QED
    BY <2>2, <2>3
<1>2. ASSUME NEW s \in Sessions, Poll(s)
      PROVE  NothingOutside'
  <2> PICK tp \in Subscribed :
         worker' = IF fetch[s][tp] = Unpolled
                     THEN [worker EXCEPT ![s][tp].off = Position(s, tp)]
                     ELSE worker
    BY <1>2 DEF Poll
  <2>1. \A s2 \in Sessions, t \in Subscribed : worker'[s2][t].pc = worker[s2][t].pc
    BY TypedFacts DEF WorkersTyped, WorkerStates
  <2> QED
    BY <2>1 DEF NothingOutside, At
<1>3. ASSUME UNCHANGED worker PROVE NothingOutside'
  BY <1>3 DEF NothingOutside, At
<1>4. \/ UNCHANGED worker
      \/ \E s \in Sessions : Poll(s)
      \/ \E s \in Sessions, tp \in Subscribed : Worker(s, tp)
  BY DEF Next, vars, Environment, UserPublish, Run, Cancel,
         RevokePartition, Fence, LeaseExpires, Dispatcher, Send
<1> QED
  BY <1>1, <1>2, <1>3, <1>4

\* The offset of the record a routed one comes from was committed: stated of
\* records, for induction.
OriginPassed(r) ==
    \E src \in TPs, o \in Nat : r.orig = <<src, o>> /\ o < offsets[src]

OriginsPassed ==
    \A tp \in TPs : Stage(tp) # Main =>
      \A i \in 1 .. Len(log[tp]) : OriginPassed(log[tp][i])

LEMMA OriginsPassedImply == OriginsPassed => TxnAtomic
<1> SUFFICES ASSUME OriginsPassed, NEW tp \in TPs, Stage(tp) # Main,
                    NEW i \in 1 .. Len(log[tp])
             PROVE  log[tp][i].orig[2] < offsets[log[tp][i].orig[1]]
  BY DEF TxnAtomic
<1> PICK src \in TPs, o \in Nat : log[tp][i].orig = <<src, o>> /\ o < offsets[src]
  BY DEF OriginsPassed, OriginPassed
<1>1. <<src, o>>[1] = src /\ <<src, o>>[2] = o
  OBVIOUS
<1> QED
  BY <1>1

LEMMA OriginPassedKept ==
    ASSUME offsets \in [TPs -> Nat], offsets' \in [TPs -> Nat],
           \A tp \in TPs : offsets'[tp] >= offsets[tp],
           NEW r, OriginPassed(r)
    PROVE  OriginPassed(r)'
<1> PICK src \in TPs, o \in Nat : r.orig = <<src, o>> /\ o < offsets[src]
  BY DEF OriginPassed
<1>1. offsets[src] \in Nat /\ offsets'[src] \in Nat /\ offsets'[src] >= offsets[src]
  OBVIOUS
<1>2. o < offsets'[src]
  BY <1>1
<1> QED
  BY <1>2 DEF OriginPassed

\* A transaction leaves every retry record with the offset it comes from.
LEMMA OriginsPassedStep ==
    ASSUME Guarantee = "Transactional"
    PROVE  /\ TypeInv /\ TypeInv' /\ HeadersSound /\ NothingOutside
           /\ OriginsPassed /\ [Next]_vars
           => OriginsPassed'
<1> SUFFICES ASSUME TypeInv, TypeInv', HeadersSound, NothingOutside,
                    OriginsPassed, [Next]_vars
             PROVE  OriginsPassed'
  OBVIOUS
<1>1. /\ offsets \in [TPs -> Nat] /\ offsets' \in [TPs -> Nat]
      /\ \A tp \in TPs : offsets'[tp] >= offsets[tp]
  <2>1. offsets \in [TPs -> Nat] /\ offsets' \in [TPs -> Nat]
    BY DEF TypeInv, TypeOK
  <2>2. CASE offsets' = offsets
    BY <2>1, <2>2
  <2>3. CASE offsets' # offsets
    BY <2>1, <2>3, OffsetsForward
  <2> QED
    BY <2>1, <2>2, <2>3
<1>2. ASSUME \A tp \in TPs : Stage(tp) # Main => log'[tp] = log[tp]
      PROVE  OriginsPassed'
  <2> SUFFICES ASSUME NEW tp \in TPs, Stage(tp) # Main, NEW i \in 1 .. Len(log'[tp])
               PROVE  OriginPassed(log[tp][i])'
    BY DEF OriginsPassed
  <2>1. log'[tp] = log[tp]
    BY <1>2
  <2>2. PICK r : r = log[tp][i]
    OBVIOUS
  <2>3. OriginPassed(r)'
    BY <1>1, <2>1, <2>2, OriginPassedKept DEF OriginsPassed
  <2> QED
    BY <2>1, <2>2, <2>3 DEF OriginPassed
<1>3. ASSUME NEW m \in Msgs, NEW p \in Partitions, UserPublish(m, p)
      PROVE  OriginsPassed'
  <2>1. PICK src \in TPs : src = <<Main, p>> /\ Stage(src) = Main
    BY TopicFacts
  <2>2. \A tp \in TPs : tp # src => log'[tp] = log[tp]
    BY <1>3, <2>1, TypedFacts DEF UserPublish, AppendTo, LogsTyped
  <2> QED
    BY <1>2, <2>1, <2>2
<1>4. ASSUME NEW s \in Sessions, NEW tp \in Subscribed, Worker(s, tp), Routes(s, tp)
      PROVE  OriginsPassed'
  <2>1. At(s, tp, "txnCommit") /\ ~At(s, tp, "idle")
    BY <1>4 DEF Routes, NothingOutside, At
  <2>2. CommitOffset(tp, worker[s][tp].off) \/ log' = log
    BY <1>4, <2>1
    DEF Worker, Take, WaitElapsed, Claim, ClaimError, HandlerOk, HandlerErr,
      BackoffElapsed, CloseClaim, Route, Publish, BeginTxn, StageTxn, CommitTxn,
      Ack, Commit, Drain, DrainCommit, brokerVars, At, TxnEffect
  <2>3. PICK up \in TPs : up = Destination(worker[s][tp].att)
    BY <2>1, JobFacts, DestinationFacts
  <2>4. PICK r \in Recs : r = Routed(s, tp)
    BY <2>1, JobFacts
  <2>5. /\ Len(log[up]) \in Nat
        /\ Len(log'[up]) = Len(log[up]) + 1
        /\ log'[up][Len(log[up]) + 1] = r
        /\ \A i \in 1 .. Len(log[up]) : log'[up][i] = log[up][i]
        /\ \A t \in TPs : t # up => log'[t] = log[t]
    BY <1>4, <2>3, <2>4, AppendFacts, TypedFacts DEF Routes, LogsTyped, LogsGrow
  <2>6. CommitOffset(tp, worker[s][tp].off)
    BY <2>2, <2>5
  <2>7. OriginPassed(r)'
    <3>1. /\ tp \in TPs /\ worker[s][tp].off \in Nat
          /\ worker[s][tp].off + 1 \in 1 .. Len(log[tp])
          /\ Job(s, tp) = log[tp][worker[s][tp].off + 1]
      BY <2>1, JobFacts, TopicFacts, TypedFacts DEF LogsTyped
    <3>2. CASE Job(s, tp).orig = << >>
      <4>1. r.orig = <<tp, worker[s][tp].off>>
        BY <2>4, <3>2 DEF Routed
      <4>2. worker[s][tp].off < offsets'[tp]
        BY <1>1, <2>6, <3>1, CommitFacts
      <4> QED
        BY <3>1, <4>1, <4>2 DEF OriginPassed
    <3>3. CASE Job(s, tp).orig # << >>
      <4>1. Stage(tp) # Main
        BY <3>1, <3>3 DEF HeadersSound, HeaderTrue
      <4>2. OriginPassed(Job(s, tp))
        BY <3>1, <4>1 DEF OriginsPassed
      <4>3. r.orig = Job(s, tp).orig
        BY <2>4, <3>3 DEF Routed
      <4>4. OriginPassed(r)
        BY <4>2, <4>3 DEF OriginPassed
      <4> QED
        BY <1>1, <4>4, OriginPassedKept
    <3> QED
      BY <3>2, <3>3
  <2> SUFFICES ASSUME NEW t \in TPs, Stage(t) # Main, NEW i \in 1 .. Len(log'[t])
               PROVE  OriginPassed(log[t][i])'
    BY DEF OriginsPassed
  <2>8. CASE log'[t][i] = log[t][i] /\ i \in 1 .. Len(log[t])
    <3>1. PICK q : q = log[t][i]
      OBVIOUS
    <3>2. OriginPassed(q)'
      BY <1>1, <2>8, <3>1, OriginPassedKept DEF OriginsPassed
    <3> QED
      BY <2>8, <3>1, <3>2 DEF OriginPassed
  <2>9. CASE log'[t][i] = r
    BY <2>7, <2>9 DEF OriginPassed
  <2>10. \/ log'[t][i] = log[t][i] /\ i \in 1 .. Len(log[t])
         \/ log'[t][i] = r
    <3>1. CASE t # up
      BY <2>5, <3>1
    <3>2. CASE t = up
      BY <2>5, <3>2
    <3> QED
      BY <3>1, <3>2
  <2> QED
    BY <2>8, <2>9, <2>10
<1>5. \/ log' = log
      \/ \E m \in Msgs, p \in Partitions : UserPublish(m, p)
      \/ \E s \in Sessions, tp \in Subscribed : Worker(s, tp)
  BY DEF Next, vars, brokerVars, Environment, Run, Cancel, RevokePartition, Fence,
         LeaseExpires, Dispatcher, Poll, Send
<1> QED
  BY <1>2, <1>3, <1>4, <1>5, WorkerLog

\* With the transactional guarantee nobody ever sees a routed record whose
\* source record could still be delivered to the group: the record and the
\* offset become visible together, in every session and under every fault.
THEOREM TransactionsAtomic ==
    ASSUME Guarantee = "Transactional"
    PROVE  Spec => []TxnAtomic
<1>1. Init => TypeInv /\ HeadersSound /\ NothingOutside /\ OriginsPassed
  <2>1. Init => NothingOutside /\ OriginsPassed
    BY DEF Init, BrokerInit, NothingOutside, OriginsPassed, At
  <2> QED
    BY <2>1, TypeInit, HeadersInit
<1>2. Spec => [](TypeInv /\ HeadersSound /\ NothingOutside /\ OriginsPassed)
  BY <1>1, TypeStep, HeadersStep, NothingOutsideStep, OriginsPassedStep, PTL DEF Spec
<1> QED
  BY <1>2, OriginsPassedImply, PTL
(***************************************************************************)
(* Every attempt                                                           *)
(***************************************************************************)
\* Where attempts are not used up in place, a worker counts the attempt of the
\* record's topic, and no other.
AttemptsExact == \A s \in Sessions, tp \in Subscribed :
                   ~At(s, tp, "idle") => worker[s][tp].att = Stage(tp)

\* What a worker of the record of stage k knows, and what it routes.
LEMMA AttemptKept ==
    ASSUME TypeInv, AttemptsMatch, AttemptsExact, Ordering # "PerPartition",
           NEW s \in Sessions, NEW tp \in Subscribed, Worker(s, tp)
    PROVE  worker'[s][tp].pc # "idle" => worker'[s][tp].att = Stage(tp)
<1>1. CASE Take(s, tp)
  <2>1. /\ worker'[s][tp].att = log[tp][worker[s][tp].off + 1].attempt
        /\ worker[s][tp].off < Len(log[tp])
    BY <1>1, TakeMoves
  <2>2. worker[s][tp].off + 1 \in 1 .. Len(log[tp])
    BY <2>1, TypedFacts, TopicFacts DEF LogsTyped, TypeInv, TypeOK
  <2> QED
    BY <2>1, <2>2 DEF AttemptsMatch
<1>2. CASE ~At(s, tp, "idle") /\ worker'[s][tp].att = worker[s][tp].att
  BY <1>2 DEF AttemptsExact
<1>3. Take(s, tp) \/ (~At(s, tp, "idle") /\ worker'[s][tp].att = worker[s][tp].att)
  <2>1. ASSUME ~At(s, tp, "idle"), \E pc \in PCs : Goto(s, tp, pc)
        PROVE  worker'[s][tp].att = worker[s][tp].att
    BY <2>1, GotoMoves
  <2>2. ASSUME ~At(s, tp, "idle"),
               Finish(s, tp) \/ worker' = [worker EXCEPT ![s][tp] = NextJob(@)]
        PROVE  worker'[s][tp].att = worker[s][tp].att
    BY <2>2, FinishMoves, NextJobMoves
  <2> QED
    BY <2>1, <2>2
    DEF Worker, WaitElapsed, Claim, ClaimError, HandlerOk, HandlerErr,
        BackoffElapsed, CloseClaim, Route, Publish, BeginTxn, StageTxn, CommitTxn,
        Ack, Commit, Drain, DrainCommit, Ready, Abandon, At, PCs
<1> QED
  BY <1>1, <1>2, <1>3

LEMMA AttemptsExactStep ==
    ASSUME Ordering # "PerPartition"
    PROVE  DeliveryInv /\ AttemptsExact /\ [Next]_vars => AttemptsExact'
<1> SUFFICES ASSUME DeliveryInv, AttemptsExact, [Next]_vars PROVE AttemptsExact'
  OBVIOUS
<1>1. TypeInv /\ AttemptsMatch
  BY DEF DeliveryInv
<1>2. ASSUME NEW s \in Sessions, NEW tp \in Subscribed, Worker(s, tp)
      PROVE  AttemptsExact'
  <2> SUFFICES ASSUME NEW s2 \in Sessions, NEW tp2 \in Subscribed,
                      worker'[s2][tp2].pc # "idle"
               PROVE  worker'[s2][tp2].att = Stage(tp2)
    BY DEF AttemptsExact, At
  <2>1. CASE s2 = s /\ tp2 = tp
    BY <1>1, <1>2, <2>1, AttemptKept
  <2>2. CASE <<s2, tp2>> # <<s, tp>>
    BY <1>1, <1>2, <2>2, WorkerMovesAlways DEF WorkerMoves, Moves, AttemptsExact, At
  <2> QED
    BY <2>1, <2>2
<1>3. ASSUME NEW s \in Sessions, Poll(s)
      PROVE  AttemptsExact'
  <2> PICK tp \in Subscribed :
         worker' = IF fetch[s][tp] = Unpolled
                     THEN [worker EXCEPT ![s][tp].off = Position(s, tp)]
                     ELSE worker
    BY <1>3 DEF Poll
  <2>1. \A s2 \in Sessions, t \in Subscribed :
          worker'[s2][t].pc = worker[s2][t].pc /\ worker'[s2][t].att = worker[s2][t].att
    BY <1>1, TypedFacts DEF WorkersTyped, WorkerStates
  <2> QED
    BY <2>1 DEF AttemptsExact, At
<1>4. \/ worker' = worker
      \/ \E s \in Sessions : Poll(s)
      \/ \E s \in Sessions, tp \in Subscribed : Worker(s, tp)
  BY DEF Next, vars, Environment, UserPublish, Run, Cancel, RevokePartition, Fence,
         LeaseExpires, Dispatcher, Send
<1> QED
  BY <1>2, <1>3, <1>4 DEF AttemptsExact, At

Climbed == \A m \in Msgs : \A k \in 1 .. Dlq : Reached(k, m) => Reached(k - 1, m)

\* A topic that was reached stays reached.
LEMMA ReachedStays ==
    ASSUME TypeInv, LogsGrow, NEW k \in 0 .. Dlq, NEW m \in Msgs, Reached(k, m)
    PROVE  Reached(k, m)'
<1>1. ASSUME NEW tp \in TPs, Contains(tp, m)
      PROVE  Contains(tp, m)'
  <2>1. PICK i \in 1 .. Len(log[tp]) : log[tp][i].id = m
    BY <1>1 DEF Contains
  <2>2. i \in 1 .. Len(log'[tp]) /\ log'[tp][i] = log[tp][i]
    BY TypedFacts DEF LogsTyped, LogsGrow
  <2> QED
    BY <2>1, <2>2 DEF Contains
<1>2. CASE k = Main
  <2>1. \A p \in Partitions : <<Main, p>> \in TPs
    BY TopicFacts
  <2> QED
    BY <1>1, <1>2, <2>1 DEF Reached, Accepted
<1>3. CASE k # Main
  <2>1. PICK tp \in TPs : tp = PartitionOf(k)
    BY <1>3, TopicFacts DEF Main
  <2>2. Contains(tp, m)
    BY <1>3, <2>1 DEF Reached
  <2>3. Contains(tp, m)'
    BY <1>1, <2>2
  <2> QED
    BY <1>3, <2>1, <2>3 DEF Reached, Contains
<1> QED
  BY <1>2, <1>3

\* A record routed from a topic of stage k goes to the one of stage k + 1.
LEMMA RoutesUp ==
    ASSUME TypeInv, AttemptsExact, NEW s \in Sessions, NEW tp \in Subscribed, Routes(s, tp)
    PROVE  /\ Destination(worker[s][tp].att) = PartitionOf(Stage(tp) + 1)
           /\ Stage(tp) + 1 \in 1 .. Dlq
           /\ Reached(Stage(tp), Id(s, tp))
           /\ Id(s, tp) \in Msgs
<1>1. ~At(s, tp, "idle") /\ tp \in TPs /\ Stage(tp) \in 0 .. MaxRetries
  <2>1. ~At(s, tp, "idle")
    BY DEF Routes, At
  <2>2. Stage(tp) \in 0 .. Dlq /\ Stage(tp) < Dlq /\ tp \in TPs
    BY TopicFacts
  <2> QED
    BY <2>1, <2>2, TopicsAssumption DEF Dlq
<1>2. worker[s][tp].att = Stage(tp)
  BY <1>1 DEF AttemptsExact
<1>3. /\ worker[s][tp].off + 1 \in 1 .. Len(log[tp])
      /\ log[tp][worker[s][tp].off + 1].id = Id(s, tp)
      /\ Id(s, tp) \in Msgs
  BY <1>1, JobFacts, TypedFacts DEF LogsTyped, Id
<1>4. Contains(tp, Id(s, tp))
  BY <1>3 DEF Contains
<1>5. Reached(Stage(tp), Id(s, tp))
  <2>1. CASE Stage(tp) = Main
    <3>1. PICK p \in Partitions : tp = <<Main, p>>
      BY <1>1, <2>1 DEF TPs, Stage, Main
    <3> QED
      BY <1>4, <2>1, <3>1 DEF Reached, Accepted
  <2>2. CASE Stage(tp) # Main
    <3>1. tp = PartitionOf(Stage(tp))
      BY <1>1, <2>2 DEF TPs, Stage, PartitionOf, Main
    <3> QED
      BY <1>4, <2>2, <3>1 DEF Reached
  <2> QED
    BY <2>1, <2>2
<1> QED
  BY <1>1, <1>2, <1>3, <1>5, TopicFacts, TopicsAssumption DEF Destination

LEMMA ClimbedStep ==
    ASSUME Ordering # "PerPartition"
    PROVE  DeliveryInv /\ AttemptsExact /\ Climbed /\ [Next]_vars => Climbed'
<1> SUFFICES ASSUME DeliveryInv, AttemptsExact, Climbed, [Next]_vars PROVE Climbed'
  OBVIOUS
<1>1. TypeInv
  BY DEF DeliveryInv
<1>2. CASE log' = log
  BY <1>2 DEF Climbed, Reached, Accepted, Contains
<1>3. ASSUME NEW s \in Sessions, NEW tp \in Subscribed, Worker(s, tp), Routes(s, tp)
      PROVE  Climbed'
  <2>1. LogsGrow
    BY <1>1, <1>3, WorkerBroker
  <2>2. PICK up \in TPs : up = Destination(worker[s][tp].att)
    BY <1>1, <1>3, RoutesUp, TopicFacts
  <2>3. ~At(s, tp, "idle") /\ Routed(s, tp) \in Recs /\ AppendTo(up, Routed(s, tp))
    BY <1>1, <1>3, <2>2, JobFacts DEF Routes, At
  <2>4. /\ \A t \in TPs : t # up => log'[t] = log[t]
        /\ Len(log[up]) \in Nat /\ Len(log'[up]) = Len(log[up]) + 1
        /\ log'[up][Len(log[up]) + 1] = Routed(s, tp)
        /\ \A i \in 1 .. Len(log[up]) : log'[up][i] = log[up][i]
    BY <1>1, <2>1, <2>3, AppendFacts, TypedFacts DEF LogsTyped, LogsGrow
  <2> SUFFICES ASSUME NEW m \in Msgs, NEW k \in 1 .. Dlq, Reached(k, m)'
               PROVE  Reached(k - 1, m)'
    BY DEF Climbed
  <2>5. k - 1 \in 0 .. Dlq /\ PartitionOf(k) \in TPs /\ k # Main
    BY TopicFacts DEF Main
  <2>6. PICK i \in 1 .. Len(log'[PartitionOf(k)]) : log'[PartitionOf(k)][i].id = m
    BY <2>5 DEF Reached, Contains
  <2>7. CASE PartitionOf(k) # up \/ i # Len(log[up]) + 1
    <3>1. i \in 1 .. Len(log[PartitionOf(k)]) /\ log[PartitionOf(k)][i].id = m
      BY <2>4, <2>5, <2>6, <2>7
    <3>2. Reached(k - 1, m)
      BY <2>5, <3>1 DEF Climbed, Reached, Contains
    <3> QED
      BY <1>1, <2>1, <2>5, <3>2, ReachedStays
  <2>8. CASE PartitionOf(k) = up /\ i = Len(log[up]) + 1
    <3>1. m = Id(s, tp)
      BY <2>4, <2>6, <2>8 DEF Routed
    <3>2. k = Stage(tp) + 1
      BY <1>1, <1>3, <2>2, <2>8, RoutesUp DEF PartitionOf
    <3>3. Reached(k - 1, m)
      BY <1>1, <1>3, <3>1, <3>2, RoutesUp, TopicFacts
    <3> QED
      BY <1>1, <2>1, <2>5, <3>3, ReachedStays
  <2> QED
    BY <2>7, <2>8
<1>4. ASSUME NEW m0 \in Msgs, NEW p \in Partitions, UserPublish(m0, p)
      PROVE  Climbed'
  <2> DEFINE r == [id |-> m0, attempt |-> 0, orig |-> << >>]
  <2>1. PICK src \in TPs : src = <<Main, p>> /\ Stage(src) = Main
    BY TopicFacts
  <2>2. r \in Recs /\ AppendTo(src, r) /\ LogsTyped
    BY <1>1, <1>4, <2>1, TopicsAssumption, TypedFacts DEF Recs, UserPublish
  <2>3. LogsGrow /\ \A t \in TPs : t # src => log'[t] = log[t]
    BY <2>2, AppendFacts
  <2> SUFFICES ASSUME NEW m \in Msgs, NEW k \in 1 .. Dlq, Reached(k, m)'
               PROVE  Reached(k - 1, m)'
    BY DEF Climbed
  <2>4. /\ k - 1 \in 0 .. Dlq /\ PartitionOf(k) \in TPs
        /\ Stage(PartitionOf(k)) = k /\ k # Main
    BY TopicFacts DEF Main
  <2>5. log'[PartitionOf(k)] = log[PartitionOf(k)]
    BY <2>1, <2>3, <2>4
  <2>6. Reached(k, m)
    BY <2>4, <2>5 DEF Reached, Contains
  <2> QED
    BY <1>1, <2>3, <2>4, <2>6, ReachedStays DEF Climbed
<1>5. \/ log' = log
      \/ \E m \in Msgs, p \in Partitions : UserPublish(m, p)
      \/ \E s \in Sessions, tp \in Subscribed : Worker(s, tp)
  BY DEF Next, vars, brokerVars, Environment, Run, Cancel, RevokePartition, Fence,
         LeaseExpires, Dispatcher, Poll, Send
<1> QED
  BY <1>2, <1>3, <1>4, <1>5, WorkerLog

\* A message that failed climbs the retry topics one by one, whoever routes it
\* and however many sessions overlap, die or lose partitions: what is in the
\* dead-letter topic has been in every retry topic before (failAndRoute).
THEOREM EveryAttemptMade == Spec => []NoAttemptSkipped
<1>1. CASE Ordering = "PerPartition"
  <2>1. NoAttemptSkipped
    BY <1>1 DEF NoAttemptSkipped
  <2> QED
    BY <2>1, PTL
<1>2. CASE Ordering # "PerPartition"
  <2>1. Init => AttemptsExact
    BY DEF Init, AttemptsExact, At
  <2>2. Init => Climbed
    <3>1. ASSUME Init, NEW m \in Msgs, NEW k \in 1 .. Dlq
          PROVE  ~Reached(k, m)
      <4>1. PartitionOf(k) \in TPs /\ k # Main
        BY TopicFacts DEF Main
      <4>2. log[PartitionOf(k)] = << >>
        BY <3>1, <4>1 DEF Init, BrokerInit
      <4> QED
        BY <4>1, <4>2 DEF Reached, Contains
    <3> QED
      BY <3>1 DEF Climbed
  <2>3. DeliveryInv /\ AttemptsExact /\ [Next]_vars => AttemptsExact'
    BY <1>2, AttemptsExactStep
  <2>4. DeliveryInv /\ AttemptsExact /\ Climbed /\ [Next]_vars => Climbed'
    BY <1>2, ClimbedStep
  <2>5. Climbed => NoAttemptSkipped
    BY DEF Climbed, NoAttemptSkipped
  <2> QED
    BY <2>1, <2>2, <2>3, <2>4, <2>5, DeliveryAlways, PTL DEF Spec
<1> QED
  BY <1>1, <1>2
=============================================================================

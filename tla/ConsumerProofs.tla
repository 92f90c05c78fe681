-------------------------- MODULE ConsumerProofs --------------------------
(***************************************************************************)
(* Proofs about Consumer, for every number of sessions, messages,          *)
(* partitions and retries and for every configuration: types, what the     *)
(* channels of the workers hold, and that nobody waits in a circle.        *)
(***************************************************************************)
EXTENDS Consumer, TLAPS

(***************************************************************************)
(* Topics                                                                  *)
(***************************************************************************)
\* Topic-partitions are pairs of naturals, and the ones the model names exist.
LEMMA TopicFacts ==
    /\ Subscribed \subseteq TPs
    /\ \A tp \in TPs : Stage(tp) \in 0 .. Dlq
    /\ \A p \in Partitions : <<Main, p>> \in Subscribed
    /\ \A p \in Partitions : Stage(<<Main, p>>) = Main
    /\ \A k \in 1 .. Dlq : PartitionOf(k) \in TPs /\ Stage(PartitionOf(k)) = k
    /\ \A tp \in TPs : tp \in Subscribed <=> Stage(tp) < Dlq
    /\ Dlq \in Nat /\ Dlq = MaxRetries + 1
  BY TopicsAssumption DEF Subscribed, TPs, Stage, PartitionOf, Main, Dlq

\* A record that failed attempt att goes to a topic of a higher stage, which
\* is consumed unless the attempts are used up.
LEMMA DestinationFacts ==
    ASSUME NEW att \in 0 .. MaxRetries
    PROVE  /\ Destination(att) \in TPs
           /\ att < Stage(Destination(att))
           /\ Stage(Destination(att)) = Dlq => Destination(att) = PartitionOf(Dlq)
           /\ RoutedAttempt(att) \in 0 .. MaxRetries
           /\ Stage(Destination(att)) # Dlq =>
                RoutedAttempt(att) = Stage(Destination(att))
  BY TopicFacts, TopicsAssumption DEF Destination, RoutedAttempt

(***************************************************************************)
(* Type correctness                                                        *)
(***************************************************************************)
\* A worker only works on a record its session has polled, and a session
\* never polls past the end of a partition.
JobsExist ==
    \A s \in Sessions, tp \in Subscribed :
      /\ fetch[s][tp] # Unpolled => /\ worker[s][tp].off <= fetch[s][tp]
                                    /\ fetch[s][tp] <= Len(log[tp])
      /\ ~At(s, tp, "idle") => /\ fetch[s][tp] # Unpolled
                               /\ worker[s][tp].off < fetch[s][tp]

TypeInv == TypeOK /\ JobsExist

\* The record a busy worker works on exists, and what it routes is a record.
LEMMA JobFacts ==
    ASSUME TypeInv, NEW s \in Sessions, NEW tp \in Subscribed,
           ~At(s, tp, "idle")
    PROVE  /\ worker[s][tp].off \in Nat
           /\ worker[s][tp].off < Len(log[tp])
           /\ worker[s][tp].att \in 0 .. MaxRetries
           /\ Job(s, tp) = log[tp][worker[s][tp].off + 1]
           /\ Job(s, tp) \in Recs
           /\ Id(s, tp) \in Msgs
           /\ Routed(s, tp) \in Recs
<1>1. tp \in TPs
  BY TopicFacts
<1>2. /\ worker[s][tp].off \in Nat
      /\ worker[s][tp].att \in 0 .. MaxRetries
      /\ worker[s][tp].off < Len(log[tp])
      /\ log[tp] \in Seq(Recs)
  BY <1>1, TopicFacts DEF TypeInv, TypeOK, JobsExist, Unpolled
<1>3. Job(s, tp) = log[tp][worker[s][tp].off + 1]
  BY DEF Job, Record
<1>4. Job(s, tp) \in Recs
  BY <1>2, <1>3
<1>5. Id(s, tp) \in Msgs
  BY <1>4 DEF Id, Recs
<1>6. Routed(s, tp) \in Recs
  BY <1>1, <1>2, <1>4, <1>5, DestinationFacts DEF Routed, Recs
<1> QED
  BY <1>2, <1>3, <1>4, <1>5, <1>6

LEMMA TypeInit == Init => TypeInv
<1> SUFFICES ASSUME Init PROVE TypeInv
  OBVIOUS
<1>1. log \in [TPs -> Seq(Recs)] /\ \A tp \in TPs : offsets[tp] <= Len(log[tp])
  <2>1. << >> \in Seq(Recs) /\ Len(<< >>) = 0
    OBVIOUS
  <2> QED
    BY <2>1 DEF Init, BrokerInit
<1>2. Store!StoreTypeOK
  BY DEF Init, Store!StoreInit, Store!StoreTypeOK, Store!EntryStates
<1>3. worker \in [Sessions -> [Subscribed -> [pc : PCs, off : Nat, att : 0 .. MaxRetries]]]
  BY TopicsAssumption DEF Init, PCs
<1>4. TypeOK
  BY <1>1, <1>2, <1>3 DEF Init, BrokerInit, TypeOK, Unpolled
<1>5. JobsExist
  BY TopicFacts DEF Init, BrokerInit, JobsExist, At, Unpolled
<1> QED
  BY <1>4, <1>5 DEF TypeInv

(***************************************************************************)
(* What the pieces of the actions do, point by point                       *)
(***************************************************************************)
WorkerStates == [pc : PCs, off : Nat, att : 0 .. MaxRetries]
WorkersTyped == worker \in [Sessions -> [Subscribed -> WorkerStates]]

\* Only the worker of tp in session s moves, to state w.
Moves(s, tp, w) ==
    /\ worker' \in [Sessions -> [Subscribed -> WorkerStates]]
    /\ worker'[s][tp] = w
    /\ \A s2 \in Sessions, tp2 \in Subscribed :
         <<s2, tp2>> # <<s, tp>> => worker'[s2][tp2] = worker[s2][tp2]

LEMMA MoveFacts ==
    ASSUME WorkersTyped, NEW s \in Sessions, NEW tp \in Subscribed,
           NEW w \in WorkerStates, worker' = [worker EXCEPT ![s][tp] = w]
    PROVE  Moves(s, tp, w)
  BY DEF Moves, WorkersTyped

LEMMA GotoFacts ==
    ASSUME WorkersTyped, NEW s \in Sessions, NEW tp \in Subscribed,
           NEW pc \in PCs, Goto(s, tp, pc)
    PROVE  Moves(s, tp, [worker[s][tp] EXCEPT !.pc = pc])
<1>1. [worker[s][tp] EXCEPT !.pc = pc] \in WorkerStates
  BY DEF WorkersTyped, WorkerStates
<1>2. worker' = [worker EXCEPT ![s][tp] = [worker[s][tp] EXCEPT !.pc = pc]]
  BY DEF Goto, WorkersTyped
<1> QED
  BY <1>1, <1>2, MoveFacts

LEMMA NextJobFacts ==
    ASSUME NEW w \in WorkerStates
    PROVE  /\ NextJob(w) \in WorkerStates
           /\ NextJob(w).pc = "idle"
           /\ NextJob(w).off = w.off + 1
           /\ NextJob(w).att = w.att /\ Finished(w).att = w.att
           /\ Finished(w) \in WorkerStates
           /\ \/ Finished(w).pc = "idle" /\ Finished(w).off = w.off + 1
              \/ Finished(w).pc = "drain" /\ Finished(w).off = w.off
<1>1. /\ NextJob(w) \in WorkerStates
      /\ NextJob(w).pc = "idle"
      /\ NextJob(w).off = w.off + 1
      /\ NextJob(w).att = w.att
  BY DEF NextJob, WorkerStates, PCs
<1>2. CASE Ordering = "PerKey"
  <2>1. Finished(w) = [w EXCEPT !.pc = "drain"]
    BY <1>2 DEF Finished
  <2> QED
    BY <1>1, <2>1 DEF WorkerStates, PCs
<1>3. CASE Ordering # "PerKey"
  <2>1. Finished(w) = NextJob(w)
    BY <1>3 DEF Finished
  <2> QED
    BY <1>1, <2>1
<1> QED
  BY <1>2, <1>3

LEMMA FinishFacts ==
    ASSUME WorkersTyped, NEW s \in Sessions, NEW tp \in Subscribed, Finish(s, tp)
    PROVE  Moves(s, tp, Finished(worker[s][tp]))
<1>1. worker[s][tp] \in WorkerStates
  BY DEF WorkersTyped
<1> QED
  BY <1>1, NextJobFacts, MoveFacts DEF Finish

LogsTyped == log \in [TPs -> Seq(Recs)]

\* Partitions are append-only.
LogsGrow ==
    /\ log' \in [TPs -> Seq(Recs)]
    /\ \A tp \in TPs :
         /\ Len(log[tp]) <= Len(log'[tp])
         /\ \A i \in 1 .. Len(log[tp]) : log'[tp][i] = log[tp][i]

LEMMA AppendFacts ==
    ASSUME LogsTyped, NEW tp \in TPs, NEW r \in Recs, AppendTo(tp, r)
    PROVE  /\ LogsGrow
           /\ Len(log'[tp]) = Len(log[tp]) + 1
           /\ log'[tp][Len(log[tp]) + 1] = r
           /\ \A tp2 \in TPs : tp2 # tp => log'[tp2] = log[tp2]
<1>1. log[tp] \in Seq(Recs)
  BY DEF LogsTyped
<1>2. log'[tp] = Append(log[tp], r)
  BY DEF AppendTo, LogsTyped
<1>3. /\ Append(log[tp], r) \in Seq(Recs)
      /\ Len(Append(log[tp], r)) = Len(log[tp]) + 1
      /\ Append(log[tp], r)[Len(log[tp]) + 1] = r
      /\ \A i \in 1 .. Len(log[tp]) : Append(log[tp], r)[i] = log[tp][i]
  BY <1>1
<1>4. \A tp2 \in TPs : tp2 # tp => log'[tp2] = log[tp2]
  BY DEF AppendTo, LogsTyped
<1>5. log' \in [TPs -> Seq(Recs)]
  BY <1>2, <1>3 DEF AppendTo, LogsTyped
<1>6. \A tp2 \in TPs : Len(log[tp2]) \in Nat
  BY DEF LogsTyped
<1>7. LogsGrow
  <2> SUFFICES ASSUME NEW tp2 \in TPs
               PROVE  /\ Len(log[tp2]) <= Len(log'[tp2])
                      /\ \A i \in 1 .. Len(log[tp2]) : log'[tp2][i] = log[tp2][i]
    BY <1>5 DEF LogsGrow
  <2>1. CASE tp2 = tp
    BY <1>2, <1>3, <1>6, <2>1
  <2>2. CASE tp2 # tp
    BY <1>4, <1>6, <2>2
  <2> QED
    BY <2>1, <2>2
<1> QED
  BY <1>2, <1>3, <1>4, <1>7

LEMMA NoAppendFacts ==
    ASSUME LogsTyped, log' = log
    PROVE  LogsGrow
<1>1. \A tp \in TPs : Len(log[tp]) \in Nat
  BY DEF LogsTyped
<1> QED
  BY <1>1 DEF LogsTyped, LogsGrow

LEMMA CommitFacts ==
    ASSUME offsets \in [TPs -> Nat], NEW tp \in TPs, NEW o \in Nat,
           CommitOffset(tp, o)
    PROVE  /\ offsets' \in [TPs -> Nat]
           /\ offsets'[tp] = OffsetAfter(offsets[tp], o)
           /\ o < offsets'[tp]
           /\ offsets[tp] <= offsets'[tp]
           /\ offsets'[tp] = o + 1 \/ offsets'[tp] = offsets[tp]
           /\ \A tp2 \in TPs : tp2 # tp => offsets'[tp2] = offsets[tp2]
  BY DEF CommitOffset, OffsetAfter

(***************************************************************************)
(* How a worker moves                                                      *)
(***************************************************************************)
\* The worker of tp moves: it stays on its record (when idle, it takes one
\* that was polled), or it is done with it.
WorkerMoves(s, tp) ==
    /\ Moves(s, tp, worker'[s][tp])
    /\ \/ /\ worker'[s][tp].off = worker[s][tp].off
          /\ worker'[s][tp].pc # "idle"
          /\ \/ ~At(s, tp, "idle")
             \/ /\ Buffered(s, tp) > 0
                /\ fetch[s][tp] # Unpolled /\ worker[s][tp].off < fetch[s][tp]
       \/ /\ ~At(s, tp, "idle")
          /\ worker'[s][tp].pc = "idle"
          /\ worker'[s][tp].off = worker[s][tp].off + 1

LEMMA TypedFacts ==
    ASSUME TypeInv
    PROVE  WorkersTyped /\ LogsTyped
  BY DEF TypeInv, TypeOK, WorkersTyped, WorkerStates, LogsTyped

LEMMA GotoMoves ==
    ASSUME TypeInv, NEW s \in Sessions, NEW tp \in Subscribed, NEW pc \in PCs,
           ~At(s, tp, "idle"), Goto(s, tp, pc)
    PROVE  /\ pc # "idle" => WorkerMoves(s, tp)
           /\ worker'[s][tp].pc = pc
           /\ worker'[s][tp].off = worker[s][tp].off
           /\ worker'[s][tp].att = worker[s][tp].att
<1>1. Moves(s, tp, [worker[s][tp] EXCEPT !.pc = pc])
  BY GotoFacts, TypedFacts
<1>2. worker[s][tp] \in WorkerStates
  BY TypedFacts DEF WorkersTyped
<1> QED
  BY <1>1, <1>2 DEF WorkerMoves, Moves, WorkerStates

LEMMA NextJobMoves ==
    ASSUME TypeInv, NEW s \in Sessions, NEW tp \in Subscribed,
           ~At(s, tp, "idle"),
           worker' = [worker EXCEPT ![s][tp] = NextJob(@)]
    PROVE  /\ WorkerMoves(s, tp)
           /\ worker'[s][tp].pc = "idle"
           /\ worker'[s][tp].off = worker[s][tp].off + 1
           /\ worker'[s][tp].att = worker[s][tp].att
<1>1. worker[s][tp] \in WorkerStates
  BY TypedFacts DEF WorkersTyped
<1>2. Moves(s, tp, NextJob(worker[s][tp]))
  BY <1>1, NextJobFacts, MoveFacts, TypedFacts
<1> QED
  BY <1>1, <1>2, NextJobFacts DEF WorkerMoves, Moves

LEMMA FinishMoves ==
    ASSUME TypeInv, NEW s \in Sessions, NEW tp \in Subscribed,
           ~At(s, tp, "idle"), Finish(s, tp)
    PROVE  /\ WorkerMoves(s, tp)
           /\ worker'[s][tp].att = worker[s][tp].att
           /\ \/ /\ worker'[s][tp].pc = "idle"
                 /\ worker'[s][tp].off = worker[s][tp].off + 1
              \/ /\ worker'[s][tp].pc = "drain"
                 /\ worker'[s][tp].off = worker[s][tp].off
<1>1. worker[s][tp] \in WorkerStates
  BY TypedFacts DEF WorkersTyped
<1>2. Moves(s, tp, Finished(worker[s][tp]))
  BY FinishFacts, TypedFacts
<1> QED
  BY <1>1, <1>2, NextJobFacts DEF WorkerMoves, Moves

LEMMA TakeMoves ==
    ASSUME TypeInv, NEW s \in Sessions, NEW tp \in Subscribed, Take(s, tp)
    PROVE  /\ WorkerMoves(s, tp)
           /\ worker'[s][tp].off = worker[s][tp].off
           /\ worker'[s][tp].pc \in {"wait", "claim", "handle"}
           /\ worker'[s][tp].att = log[tp][worker[s][tp].off + 1].attempt
           /\ worker[s][tp].off < Len(log[tp])
<1> DEFINE att == Job(s, tp).attempt
           pc == IF att > 0 THEN "wait" ELSE Ready
           w == [pc |-> pc, off |-> worker[s][tp].off, att |-> att]
<1>1. worker[s][tp] \in WorkerStates /\ tp \in TPs /\ log[tp] \in Seq(Recs)
  BY TypedFacts, TopicFacts DEF WorkersTyped, LogsTyped
<1>2. /\ fetch[s][tp] # Unpolled
      /\ worker[s][tp].off < fetch[s][tp]
      /\ worker[s][tp].off < Len(log[tp])
  <2>1. fetch[s][tp] \in Nat \cup {-1} /\ worker[s][tp].off \in Nat
    BY <1>1 DEF TypeInv, TypeOK, WorkerStates, Unpolled
  <2>2. fetch[s][tp] # Unpolled /\ worker[s][tp].off < fetch[s][tp]
    BY <2>1 DEF Take, Buffered, Unpolled
  <2> QED
    BY <1>1, <2>1, <2>2 DEF TypeInv, JobsExist, Unpolled
<1>3. att \in 0 .. MaxRetries /\ att = log[tp][worker[s][tp].off + 1].attempt
  <2>1. worker[s][tp].off + 1 \in 1 .. Len(log[tp])
    BY <1>1, <1>2 DEF WorkerStates
  <2>2. log[tp][worker[s][tp].off + 1] \in Recs
    BY <1>1, <2>1
  <2> QED
    BY <2>2 DEF Job, Record, Recs
<1>4. pc \in {"wait", "claim", "handle"}
  BY DEF Ready
<1>5. w \in WorkerStates
  BY <1>1, <1>3, <1>4 DEF WorkerStates, PCs
<1>6. worker' = [worker EXCEPT ![s][tp] = w]
  BY TypedFacts DEF Take, WorkersTyped, WorkerStates
<1>7. Moves(s, tp, w)
  BY <1>5, <1>6, MoveFacts, TypedFacts
<1>8. Buffered(s, tp) > 0
  BY DEF Take
<1> QED
  BY <1>2, <1>3, <1>4, <1>7, <1>8 DEF WorkerMoves, Moves

LEMMA HandlerErrMoves ==
    ASSUME TypeInv, NEW s \in Sessions, NEW tp \in Subscribed, HandlerErr(s, tp)
    PROVE  /\ WorkerMoves(s, tp)
           /\ worker'[s][tp].off = worker[s][tp].off
           /\ worker'[s][tp].pc \in {"backoff", "fail", "route"}
           /\ worker[s][tp].att <= worker'[s][tp].att
<1>1. worker[s][tp] \in WorkerStates /\ ~At(s, tp, "idle")
  BY TypedFacts DEF WorkersTyped, HandlerErr, At
<1>2. CASE Ordering = "PerPartition" /\ worker[s][tp].att < MaxRetries
  <2> DEFINE w == [pc |-> "backoff", off |-> worker[s][tp].off,
                   att |-> worker[s][tp].att + 1]
  <2>1. w \in WorkerStates
    BY <1>1, <1>2, TopicsAssumption DEF WorkerStates, PCs
  <2>2. worker' = [worker EXCEPT ![s][tp] = w]
    BY <1>1, <1>2, TypedFacts DEF HandlerErr, WorkersTyped, WorkerStates
  <2>3. Moves(s, tp, w)
    BY <2>1, <2>2, MoveFacts, TypedFacts
  <2> QED
    BY <1>1, <2>3 DEF WorkerMoves, Moves, WorkerStates
<1>3. CASE ~(Ordering = "PerPartition" /\ worker[s][tp].att < MaxRetries)
  <2>1. CASE Idempotent
    BY <1>1, <1>3, <2>1, GotoMoves DEF HandlerErr, PCs, WorkerStates
  <2>2. CASE ~Idempotent
    BY <1>1, <1>3, <2>2, GotoMoves DEF HandlerErr, PCs, WorkerStates
  <2> QED
    BY <2>1, <2>2
<1> QED
  BY <1>2, <1>3

LEMMA WorkerMovesAlways ==
    ASSUME TypeInv, NEW s \in Sessions, NEW tp \in Subscribed, Worker(s, tp)
    PROVE  WorkerMoves(s, tp)
<1> USE GotoMoves, FinishMoves, NextJobMoves DEF PCs
<1>1. CASE Take(s, tp)
  BY <1>1, TakeMoves
<1>2. CASE WaitElapsed(s, tp)
  BY <1>2 DEF WaitElapsed, Ready, At
<1>3. CASE Claim(s, tp)
  BY <1>3 DEF Claim, Abandon, At
<1>4. CASE ClaimError(s, tp)
  BY <1>4 DEF ClaimError, At
<1>5. CASE HandlerOk(s, tp)
  BY <1>5 DEF HandlerOk, At
<1>6. CASE HandlerErr(s, tp)
  BY <1>6, HandlerErrMoves
<1>7. CASE BackoffElapsed(s, tp)
  BY <1>7 DEF BackoffElapsed, At
<1>8. CASE CloseClaim(s, tp)
  BY <1>8 DEF CloseClaim, At
<1>9. CASE Route(s, tp)
  BY <1>9 DEF Route, At
<1>10. CASE Publish(s, tp)
  BY <1>10 DEF Publish, Abandon, At
<1>11. CASE BeginTxn(s, tp)
  BY <1>11 DEF BeginTxn, Abandon, At
<1>12. CASE StageTxn(s, tp)
  BY <1>12 DEF StageTxn, At
<1>13. CASE CommitTxn(s, tp)
  BY <1>13 DEF CommitTxn, Abandon, At
<1>14. CASE Ack(s, tp)
  BY <1>14 DEF Ack, At
<1>15. CASE Commit(s, tp)
  BY <1>15 DEF Commit, At
<1>16. CASE Drain(s, tp)
  BY <1>16 DEF Drain, At
<1>17. CASE DrainCommit(s, tp)
  BY <1>17 DEF DrainCommit, At
<1> QED
  BY <1>1, <1>2, <1>3, <1>4, <1>5, <1>6, <1>7, <1>8, <1>9, <1>10, <1>11,
     <1>12, <1>13, <1>14, <1>15, <1>16, <1>17 DEF Worker

OffsetsTyped == offsets \in [TPs -> Nat] /\ \A tp \in TPs : offsets[tp] <= Len(log[tp])

LEMMA OffsetsKept ==
    ASSUME TypeInv, LogsGrow, offsets' = offsets
    PROVE  OffsetsTyped'
<1>1. \A tp \in TPs : Len(log[tp]) \in Nat /\ Len(log'[tp]) \in Nat
  BY TypedFacts DEF LogsTyped, LogsGrow
<1> QED
  BY <1>1 DEF TypeInv, TypeOK, LogsGrow, OffsetsTyped

LEMMA OffsetsCommitted ==
    ASSUME TypeInv, LogsGrow, NEW s \in Sessions, NEW tp \in Subscribed,
           ~At(s, tp, "idle"), CommitOffset(tp, worker[s][tp].off)
    PROVE  OffsetsTyped'
<1>1. \A t \in TPs : Len(log[t]) \in Nat /\ Len(log'[t]) \in Nat
  BY TypedFacts DEF LogsTyped, LogsGrow
<1>2. tp \in TPs /\ worker[s][tp].off \in Nat /\ worker[s][tp].off < Len(log[tp])
  BY JobFacts, TopicFacts
<1>3. offsets \in [TPs -> Nat] /\ \A t \in TPs : offsets[t] <= Len(log[t])
  BY DEF TypeInv, TypeOK
<1> QED
  BY <1>1, <1>2, <1>3, CommitFacts DEF LogsGrow, OffsetsTyped

\* A worker only appends to partitions, and leaves to the session what is
\* the session's.
LEMMA WorkerBroker ==
    ASSUME TypeInv, NEW s \in Sessions, NEW tp \in Subscribed, Worker(s, tp)
    PROVE  LogsGrow /\ OffsetsTyped'
<1>1. CASE UNCHANGED <<log, offsets>>
  BY <1>1, NoAppendFacts, TypedFacts, OffsetsKept
<1>2. CASE Publish(s, tp) /\ AppendTo(Destination(worker[s][tp].att), Routed(s, tp))
  <2>1. ~At(s, tp, "idle") /\ offsets' = offsets
    BY <1>2 DEF Publish, At
  <2> QED
    BY <1>2, <2>1, JobFacts, DestinationFacts, AppendFacts, TypedFacts, OffsetsKept
<1>3. CASE /\ CommitTxn(s, tp)
           /\ TxnEffect(Destination(worker[s][tp].att), Routed(s, tp),
                        tp, worker[s][tp].off)
  <2>1. ~At(s, tp, "idle")
    BY <1>3 DEF CommitTxn, At
  <2>2. LogsGrow
    BY <1>3, <2>1, JobFacts, DestinationFacts, AppendFacts, TypedFacts DEF TxnEffect
  <2> QED
    BY <1>3, <2>1, <2>2, OffsetsCommitted DEF TxnEffect
<1>4. CASE Commit(s, tp) \/ DrainCommit(s, tp)
  <2>1. /\ ~At(s, tp, "idle")
        /\ log' = log
        /\ CommitOffset(tp, worker[s][tp].off)
    BY <1>4 DEF Commit, DrainCommit, At
  <2> QED
    BY <2>1, NoAppendFacts, TypedFacts, OffsetsCommitted
<1> QED
  BY <1>1, <1>2, <1>3, <1>4
  DEF Worker, Take, WaitElapsed, Claim, ClaimError, HandlerOk, HandlerErr,
      BackoffElapsed, CloseClaim, Route, Publish, BeginTxn, StageTxn, CommitTxn,
      Ack, Commit, Drain, DrainCommit, brokerVars

\* ... and keeps the other variables in their types.
LEMMA WorkerRest ==
    ASSUME TypeInv, NEW s \in Sessions, NEW tp \in Subscribed, Worker(s, tp)
    PROVE  /\ UNCHANGED <<fenced, fetch, revoked, ctx, held>>
           /\ txnMu' \in [Sessions -> SUBSET Subscribed]
           /\ Store!StoreTypeOK'
           /\ fate' \in [Msgs -> SUBSET {"handled", "exhausted", "abandoned"}]
<1>1. UNCHANGED <<fenced, fetch, revoked, ctx, held>>
  BY DEF Worker, Take, WaitElapsed, Claim, ClaimError, HandlerOk, HandlerErr,
      BackoffElapsed, CloseClaim, Route, Publish, BeginTxn, StageTxn, CommitTxn,
      Ack, Commit, Drain, DrainCommit, brokerVars
<1>2. txnMu' \in [Sessions -> SUBSET Subscribed]
  <2>1. txnMu \in [Sessions -> SUBSET Subscribed]
    BY DEF TypeInv, TypeOK
  <2> QED
    BY <2>1 DEF Worker, Take, WaitElapsed, Claim, ClaimError, HandlerOk, HandlerErr,
      BackoffElapsed, CloseClaim, Route, Publish, BeginTxn, StageTxn, CommitTxn,
      Ack, Commit, Drain, DrainCommit, Unlock
<1>3. At(s, tp, "idle") \/ Id(s, tp) \in Msgs
  BY JobFacts
<1>4. fate' \in [Msgs -> SUBSET {"handled", "exhausted", "abandoned"}]
  <2>1. fate \in [Msgs -> SUBSET {"handled", "exhausted", "abandoned"}]
    BY DEF TypeInv, TypeOK
  <2>2. \/ UNCHANGED fate
        \/ ~At(s, tp, "idle") /\ \E f \in {"handled", "exhausted", "abandoned"} :
                                   Decide(Id(s, tp), f)
    BY DEF Worker, Take, WaitElapsed, Claim, ClaimError, HandlerOk, HandlerErr,
      BackoffElapsed, CloseClaim, Route, Publish, BeginTxn, StageTxn, CommitTxn,
      Ack, Commit, Drain, DrainCommit, Abandon, At
  <2> QED
    BY <1>3, <2>1, <2>2 DEF Decide
<1>5. Store!StoreTypeOK'
  <2>1. Store!StoreTypeOK /\ <<s, tp>> \in Sessions \X TPs
    BY TopicFacts DEF TypeInv, TypeOK
  <2>2. \/ UNCHANGED storeVars
        \/ /\ ~At(s, tp, "idle")
           /\ \/ Store!TryStart(<<s, tp>>, Id(s, tp))
              \/ Store!Complete(<<s, tp>>, Id(s, tp))
              \/ Store!Fail(<<s, tp>>, Id(s, tp))
    BY DEF Worker, Take, WaitElapsed, Claim, ClaimError, HandlerOk, HandlerErr,
      BackoffElapsed, CloseClaim, Route, Publish, BeginTxn, StageTxn, CommitTxn,
      Ack, Commit, Drain, DrainCommit, At
  <2>3. CASE UNCHANGED storeVars
    BY <2>1, <2>3 DEF storeVars, Store!StoreTypeOK
  <2>4. CASE ~UNCHANGED storeVars
    BY <1>3, <2>1, <2>2, <2>4 DEF storeVars, Store!StoreTypeOK, Store!EntryStates,
      Store!TryStart, Store!Complete, Store!Fail, Store!storeVars
  <2> QED
    BY <2>3, <2>4
<1> QED
  BY <1>1, <1>2, <1>4, <1>5

\* What has to be shown of a step to keep TypeInv.
LEMMA TypeInvParts ==
    ASSUME log' \in [TPs -> Seq(Recs)], OffsetsTyped',
           fenced' \in BOOLEAN,
           fetch' \in [Sessions -> [TPs -> Nat \cup {Unpolled}]],
           revoked' \in [Sessions -> SUBSET TPs],
           ctx' \in [Sessions -> {"new", "live", "cancelled"}],
           held' \in [Sessions -> SUBSET Subscribed],
           WorkersTyped',
           txnMu' \in [Sessions -> SUBSET Subscribed],
           Store!StoreTypeOK',
           fate' \in [Msgs -> SUBSET {"handled", "exhausted", "abandoned"}],
           JobsExist'
    PROVE  TypeInv'
  BY DEF TypeInv, TypeOK, OffsetsTyped, WorkersTyped, WorkerStates

\* Partitions only grow while sessions and workers stand still.
LEMMA JobsKept ==
    ASSUME TypeInv, LogsGrow, UNCHANGED <<fetch, worker>>
    PROVE  JobsExist'
<1>1. \A tp \in TPs : Len(log[tp]) \in Nat /\ Len(log'[tp]) \in Nat
  BY TypedFacts DEF LogsTyped, LogsGrow
<1>2. \A s \in Sessions, tp \in TPs : fetch[s][tp] \in Nat \cup {Unpolled}
  BY DEF TypeInv, TypeOK
<1> QED
  BY <1>1, <1>2, TopicFacts DEF TypeInv, JobsExist, LogsGrow, At, Unpolled

LEMMA WorkerKeepsTypeInv ==
    ASSUME TypeInv, NEW s \in Sessions, NEW tp \in Subscribed, Worker(s, tp)
    PROVE  TypeInv'
<1>1. WorkerMoves(s, tp) /\ LogsGrow /\ UNCHANGED <<fenced, fetch, revoked, ctx, held>>
  BY WorkerMovesAlways, WorkerBroker, WorkerRest
<1>2. WorkersTyped'
  BY <1>1 DEF WorkerMoves, Moves, WorkersTyped
<1>3. JobsExist'
  <2> SUFFICES ASSUME NEW s2 \in Sessions, NEW tp2 \in Subscribed
               PROVE  /\ fetch'[s2][tp2] # Unpolled =>
                           /\ worker'[s2][tp2].off <= fetch'[s2][tp2]
                           /\ fetch'[s2][tp2] <= Len(log'[tp2])
                      /\ worker'[s2][tp2].pc # "idle" =>
                           /\ fetch'[s2][tp2] # Unpolled
                           /\ worker'[s2][tp2].off < fetch'[s2][tp2]
    BY DEF JobsExist, At
  <2>1. /\ Len(log[tp2]) \in Nat /\ Len(log'[tp2]) \in Nat
        /\ Len(log[tp2]) <= Len(log'[tp2])
        /\ fetch[s2][tp2] \in Nat \cup {-1}
        /\ worker[s2][tp2].off \in Nat
        /\ fetch[s2][tp2] # Unpolled => /\ worker[s2][tp2].off <= fetch[s2][tp2]
                                        /\ fetch[s2][tp2] <= Len(log[tp2])
        /\ worker[s2][tp2].pc # "idle" => /\ fetch[s2][tp2] # Unpolled
                                          /\ worker[s2][tp2].off < fetch[s2][tp2]
    BY <1>1, TypedFacts, TopicFacts
    DEF LogsTyped, LogsGrow, TypeInv, TypeOK, JobsExist, At, Unpolled
  <2>2. CASE s2 = s /\ tp2 = tp
    BY <1>1, <2>1, <2>2 DEF WorkerMoves, At, Unpolled
  <2>3. CASE <<s2, tp2>> # <<s, tp>>
    <3>1. worker'[s2][tp2] = worker[s2][tp2] /\ fetch'[s2][tp2] = fetch[s2][tp2]
      BY <1>1, <2>3 DEF WorkerMoves, Moves
    <3> QED
      BY <2>1, <3>1 DEF Unpolled
  <2> QED
    BY <2>2, <2>3
<1> QED
  BY <1>1, <1>2, <1>3, WorkerBroker, WorkerRest, TypeInvParts
  DEF TypeInv, TypeOK, LogsGrow

LEMMA EnvironmentKeepsTypeInv == TypeInv /\ Environment => TypeInv'
<1> SUFFICES ASSUME TypeInv, Environment PROVE TypeInv'
  OBVIOUS
<1>1. ASSUME NEW m \in Msgs, NEW p \in Partitions, UserPublish(m, p)
      PROVE  TypeInv'
  <2>1. [id |-> m, attempt |-> 0, orig |-> << >>] \in Recs
    BY TopicsAssumption DEF Recs
  <2>2. LogsGrow /\ OffsetsTyped' /\ UNCHANGED <<fetch, worker>>
    BY <1>1, <2>1, TopicFacts, AppendFacts, TypedFacts, OffsetsKept DEF UserPublish
  <2> QED
    BY <1>1, <2>2, JobsKept, TypeInvParts
    DEF UserPublish, TypeInv, TypeOK, LogsGrow, WorkersTyped, WorkerStates,
        storeVars, Store!StoreTypeOK
<1>2. ASSUME UNCHANGED <<log, offsets, fetch, worker>>,
             revoked' \in [Sessions -> SUBSET TPs],
             ctx' \in [Sessions -> {"new", "live", "cancelled"}],
             fenced' \in BOOLEAN, Store!StoreTypeOK',
             UNCHANGED <<held, txnMu, fate>>
      PROVE  TypeInv'
  BY <1>2, NoAppendFacts, OffsetsKept, JobsKept, TypeInvParts, TypedFacts
  DEF TypeInv, TypeOK, LogsGrow, WorkersTyped, WorkerStates
<1>3. ASSUME NEW s \in Sessions, Run(s) \/ Cancel(s)
      PROVE  TypeInv'
  BY <1>2, <1>3 DEF Run, Cancel, brokerVars, storeVars, TypeInv, TypeOK,
                    Store!StoreTypeOK
<1>4. ASSUME NEW s \in Sessions, NEW tp \in Subscribed, RevokePartition(s, tp)
      PROVE  TypeInv'
  BY <1>2, <1>4, TopicFacts
  DEF RevokePartition, Revoke, storeVars, TypeInv, TypeOK, Store!StoreTypeOK
<1>5. ASSUME Fence
      PROVE  TypeInv'
  BY <1>2, <1>5 DEF Fence, SetFenced, storeVars, TypeInv, TypeOK, Store!StoreTypeOK
<1>6. ASSUME NEW m \in Msgs, LeaseExpires(m)
      PROVE  TypeInv'
  <2>1. Store!StoreTypeOK'
    BY <1>6 DEF LeaseExpires, Store!Expire, TypeInv, TypeOK, Store!StoreTypeOK,
                Store!EntryStates
  <2> QED
    BY <1>2, <1>6, <2>1 DEF LeaseExpires, brokerVars, TypeInv, TypeOK
<1> QED
  BY <1>1, <1>3, <1>4, <1>5, <1>6 DEF Environment

LEMMA DispatcherKeepsTypeInv ==
    ASSUME TypeInv, NEW s \in Sessions, Dispatcher(s)
    PROVE  TypeInv'
<1>1. CASE Send(s)
  <2>1. held' \in [Sessions -> SUBSET Subscribed]
    BY <1>1 DEF Send, TypeInv, TypeOK
  <2> QED
    BY <1>1, <2>1, NoAppendFacts, OffsetsKept, JobsKept, TypeInvParts, TypedFacts
    DEF Send, TypeInv, TypeOK, LogsGrow, WorkersTyped, WorkerStates, brokerVars,
        storeVars, Store!StoreTypeOK
<1>2. CASE Poll(s)
  <2> PICK tp \in Subscribed :
         /\ PollFrom(s, tp)
         /\ held' = IF Buffered(s, tp) < ChanCap THEN held
                                               ELSE [held EXCEPT ![s] = {tp}]
         /\ worker' = IF fetch[s][tp] = Unpolled
                        THEN [worker EXCEPT ![s][tp].off = Position(s, tp)]
                        ELSE worker
    BY <1>2 DEF Poll
  <2>1. tp \in TPs /\ Len(log[tp]) \in Nat /\ offsets[tp] \in Nat
    BY TopicFacts, TypedFacts DEF LogsTyped, TypeInv, TypeOK
  <2>2. Position(s, tp) \in Nat /\ Position(s, tp) < Len(log[tp])
    BY <2>1 DEF PollFrom, HasNext, Position, TypeInv, TypeOK, Unpolled
  <2>3. /\ fetch' \in [Sessions -> [TPs -> Nat \cup {Unpolled}]]
        /\ fetch'[s][tp] = Position(s, tp) + 1
        /\ \A s2 \in Sessions, tp2 \in TPs :
             <<s2, tp2>> # <<s, tp>> => fetch'[s2][tp2] = fetch[s2][tp2]
    BY <2>1, <2>2 DEF PollFrom, TypeInv, TypeOK
  <2>4. held' \in [Sessions -> SUBSET Subscribed]
    BY DEF TypeInv, TypeOK
  <2>5. /\ WorkersTyped'
        /\ worker'[s][tp].pc = worker[s][tp].pc
        /\ worker'[s][tp].off = IF fetch[s][tp] = Unpolled
                                  THEN Position(s, tp) ELSE worker[s][tp].off
        /\ \A s2 \in Sessions, tp2 \in Subscribed :
             <<s2, tp2>> # <<s, tp>> => worker'[s2][tp2] = worker[s2][tp2]
    <3>1. CASE fetch[s][tp] = Unpolled
      <4> DEFINE w == [worker[s][tp] EXCEPT !.off = Position(s, tp)]
      <4>1. worker[s][tp] \in WorkerStates
        BY TypedFacts DEF WorkersTyped
      <4>2. w \in WorkerStates /\ w.pc = worker[s][tp].pc /\ w.off = Position(s, tp)
        BY <2>2, <4>1 DEF WorkerStates
      <4>3. worker' = [worker EXCEPT ![s][tp] = w]
        BY <3>1, TypedFacts DEF WorkersTyped
      <4>4. Moves(s, tp, w)
        BY <4>2, <4>3, MoveFacts, TypedFacts
      <4> QED
        BY <3>1, <4>2, <4>4 DEF Moves, WorkersTyped
    <3>2. CASE fetch[s][tp] # Unpolled
      BY <3>2, TypedFacts DEF WorkersTyped
    <3> QED
      BY <3>1, <3>2
  <2>6. JobsExist'
    <3> SUFFICES ASSUME NEW s2 \in Sessions, NEW tp2 \in Subscribed
                 PROVE  /\ fetch'[s2][tp2] # Unpolled =>
                             /\ worker'[s2][tp2].off <= fetch'[s2][tp2]
                             /\ fetch'[s2][tp2] <= Len(log'[tp2])
                        /\ worker'[s2][tp2].pc # "idle" =>
                             /\ fetch'[s2][tp2] # Unpolled
                             /\ worker'[s2][tp2].off < fetch'[s2][tp2]
      BY DEF JobsExist, At
    <3>1. log' = log
      BY <1>2 DEF Poll
    <3>2. CASE s2 = s /\ tp2 = tp
      BY <2>1, <2>2, <2>3, <2>5, <3>1, <3>2, TypedFacts
      DEF TypeInv, JobsExist, At, Position, Unpolled, WorkersTyped, WorkerStates
    <3>3. CASE <<s2, tp2>> # <<s, tp>>
      BY <2>3, <2>5, <3>1, <3>3, TopicFacts DEF TypeInv, JobsExist, At
    <3> QED
      BY <3>2, <3>3
  <2>7. OffsetsTyped' /\ LogsGrow
    BY <1>2, NoAppendFacts, OffsetsKept, TypedFacts DEF Poll
  <2> QED
    BY <1>2, <2>3, <2>4, <2>5, <2>6, <2>7, TypeInvParts
    DEF Poll, TypeInv, TypeOK, LogsGrow, storeVars, Store!StoreTypeOK
<1> QED
  BY <1>1, <1>2 DEF Dispatcher

LEMMA TypeStep == TypeInv /\ [Next]_vars => TypeInv'
<1> SUFFICES ASSUME TypeInv, [Next]_vars PROVE TypeInv'
  OBVIOUS
<1>1. CASE UNCHANGED vars
  BY <1>1 DEF vars, brokerVars, storeVars, TypeInv, TypeOK, JobsExist, At,
              Store!StoreTypeOK
<1>2. CASE Next
  BY <1>2, EnvironmentKeepsTypeInv, DispatcherKeepsTypeInv, WorkerKeepsTypeInv
  DEF Next
<1> QED
  BY <1>1, <1>2

LEMMA TypeAlways == Spec => []TypeInv
BY TypeInit, TypeStep, PTL DEF Spec

\* Every variable keeps its type whatever the configuration and the faults;
\* in particular no commit, late, repeated or inside a transaction, moves the
\* group past the end of a partition.
THEOREM TypeCorrect == Spec => []TypeOK
BY TypeAlways, PTL DEF TypeInv

(***************************************************************************)
(* Channels: what a session polled and its workers did not take            *)
(***************************************************************************)
LEMMA BackpressureInit == Init => Backpressure
BY TopicFacts, ConsumerAssumption DEF Init, BrokerInit, Backpressure, Buffered, Unpolled

\* The channel of tp in session s is what it was.
LEMMA BufferSame ==
    ASSUME NEW s \in Sessions, NEW tp \in Subscribed,
           fetch'[s][tp] = fetch[s][tp],
           worker'[s][tp] = worker[s][tp],
           tp \in held'[s] <=> tp \in held[s]
    PROVE  Buffered(s, tp)' = Buffered(s, tp)
BY DEF Buffered, At

\* Buffered counts: between the position of a session and the offset of its
\* worker lie the record in hand, the record being sent, and the channel.
LEMMA BufferCount ==
    ASSUME TypeInv, NEW s \in Sessions, NEW tp \in Subscribed
    PROVE  /\ fetch[s][tp] \in Nat \cup {-1} /\ worker[s][tp].off \in Nat
           /\ fetch[s][tp] # -1 =>
                fetch[s][tp] = worker[s][tp].off + Buffered(s, tp)
                                 + (IF At(s, tp, "idle") THEN 0 ELSE 1)
                                 + (IF tp \in held[s] THEN 1 ELSE 0)
<1>1. fetch[s][tp] \in Nat \cup {-1} /\ worker[s][tp].off \in Nat
  BY TopicFacts, TypedFacts DEF TypeInv, TypeOK, Unpolled, WorkersTyped, WorkerStates
<1> QED BY <1>1 DEF Buffered, Unpolled

\* A worker that takes a record makes room, the others leave the channel alone.
LEMMA WorkerBackpressure ==
    ASSUME TypeInv, Backpressure, NEW s \in Sessions, NEW tp \in Subscribed, Worker(s, tp)
    PROVE  Backpressure'
<1> USE ConsumerAssumption
<1>1. WorkerMoves(s, tp) /\ UNCHANGED <<fetch, held>> /\ TypeInv'
  BY WorkerMovesAlways, WorkerRest, WorkerKeepsTypeInv
<1> SUFFICES ASSUME NEW s2 \in Sessions, NEW tp2 \in Subscribed
             PROVE  Buffered(s2, tp2)' \in 0 .. ChanCap
  BY <1>1 DEF Backpressure
<1>2. CASE <<s2, tp2>> # <<s, tp>>
  BY <1>1, <1>2, BufferSame DEF WorkerMoves, Moves, Backpressure
<1>3. CASE s2 = s /\ tp2 = tp
  <2>1. fetch[s][tp] = -1 => Buffered(s, tp)' = 0
    BY <1>1 DEF Buffered, Unpolled
  <2>2. /\ fetch[s][tp] \in Nat \cup {-1} /\ worker[s][tp].off \in Nat
        /\ worker'[s][tp].off \in Nat
    BY <1>1, BufferCount, TypedFacts DEF WorkerMoves, Moves, WorkerStates
  <2>3. Buffered(s, tp) \in 0 .. ChanCap
    BY DEF Backpressure
  <2>4. CASE fetch[s][tp] # -1
    <3>1. Buffered(s, tp)' = fetch[s][tp] - worker'[s][tp].off
                               - (IF worker'[s][tp].pc = "idle" THEN 0 ELSE 1)
                               - (IF tp \in held[s] THEN 1 ELSE 0)
      BY <1>1, <2>4 DEF Buffered, Unpolled, At
    <3>2. Buffered(s, tp) = fetch[s][tp] - worker[s][tp].off
                               - (IF At(s, tp, "idle") THEN 0 ELSE 1)
                               - (IF tp \in held[s] THEN 1 ELSE 0)
      BY <2>4 DEF Buffered, Unpolled
    <3>3. \/ Buffered(s, tp)' = Buffered(s, tp)
          \/ Buffered(s, tp)' = Buffered(s, tp) - 1 /\ Buffered(s, tp) > 0
      BY <1>1, <2>2, <3>1, <3>2 DEF WorkerMoves
    <3> QED BY <1>3, <2>3, <3>3
  <2> QED BY <1>3, <2>1, <2>4
<1> QED BY <1>2, <1>3

LEMMA DispatcherBackpressure ==
    ASSUME TypeInv, Backpressure, NEW s \in Sessions, Dispatcher(s)
    PROVE  Backpressure'
<1> USE ConsumerAssumption
<1>1. CASE Send(s)
  <2>1. PICK tp \in held[s] : Buffered(s, tp) < ChanCap
    BY <1>1 DEF Send
  <2>2. UNCHANGED <<fetch, worker>> /\ held' = [held EXCEPT ![s] = {}]
    BY <1>1 DEF Send, brokerVars
  <2>3. tp \in Subscribed /\ held[s] = {tp} /\ held \in [Sessions -> SUBSET Subscribed]
    BY <2>1 DEF TypeInv, TypeOK, Backpressure
  <2> SUFFICES ASSUME NEW s2 \in Sessions, NEW tp2 \in Subscribed
               PROVE  /\ Buffered(s2, tp2)' \in 0 .. ChanCap
                      /\ tp2 \in held'[s2] => held'[s2] = {tp2} /\ fetch'[s2][tp2] # Unpolled
    BY DEF Backpressure
  <2>4. CASE s2 = s /\ tp2 = tp
    <3>1. Buffered(s, tp) \in 0 .. ChanCap /\ fetch[s][tp] # Unpolled
      BY <2>3 DEF Backpressure
    <3>2. Buffered(s, tp)' = Buffered(s, tp) + 1
      BY <2>1, <2>2, <2>3, <3>1, BufferCount DEF Buffered, At, Unpolled
    <3> QED BY <2>1, <2>2, <2>3, <2>4, <3>1, <3>2
  <2>5. CASE <<s2, tp2>> # <<s, tp>>
    <3>1. tp2 \in held'[s2] <=> tp2 \in held[s2]
      BY <2>2, <2>3, <2>5
    <3>2. tp2 \in held'[s2] => held'[s2] = held[s2]
      BY <2>2, <2>3, <2>5
    <3> QED BY <2>2, <3>1, <3>2, BufferSame DEF Backpressure
  <2> QED BY <2>4, <2>5
<1>2. CASE Poll(s)
  <2>1. PICK tp \in Subscribed :
         /\ PollFrom(s, tp)
         /\ held' = IF Buffered(s, tp) < ChanCap THEN held
                                               ELSE [held EXCEPT ![s] = {tp}]
         /\ worker' = IF fetch[s][tp] = Unpolled
                        THEN [worker EXCEPT ![s][tp].off = Position(s, tp)]
                        ELSE worker
    BY <1>2 DEF Poll
  <2>2. /\ tp \in TPs /\ held[s] = {} /\ held \in [Sessions -> SUBSET Subscribed]
        /\ fetch \in [Sessions -> [TPs -> Nat \cup {Unpolled}]]
        /\ Position(s, tp) \in Nat
    BY <1>2, TopicFacts DEF Poll, TypeInv, TypeOK, Position
  <2>3. /\ fetch'[s][tp] = Position(s, tp) + 1
        /\ \A s2 \in Sessions, tp2 \in TPs :
             <<s2, tp2>> # <<s, tp>> => fetch'[s2][tp2] = fetch[s2][tp2]
    BY <2>1, <2>2 DEF PollFrom
  <2>4. /\ worker'[s][tp].pc = worker[s][tp].pc
        /\ worker'[s][tp].off = IF fetch[s][tp] = Unpolled
                                  THEN Position(s, tp) ELSE worker[s][tp].off
        /\ \A s2 \in Sessions, tp2 \in Subscribed :
             <<s2, tp2>> # <<s, tp>> => worker'[s2][tp2] = worker[s2][tp2]
    BY <2>1, TypedFacts DEF WorkersTyped, WorkerStates
  <2> SUFFICES ASSUME NEW s2 \in Sessions, NEW tp2 \in Subscribed
               PROVE  /\ Buffered(s2, tp2)' \in 0 .. ChanCap
                      /\ tp2 \in held'[s2] => held'[s2] = {tp2} /\ fetch'[s2][tp2] # Unpolled
    BY DEF Backpressure
  <2>5. CASE s2 = s /\ tp2 = tp
    <3>1. Buffered(s, tp) \in 0 .. ChanCap
      BY DEF Backpressure
    <3>2. fetch'[s][tp] # Unpolled
      BY <2>2, <2>3 DEF Unpolled
    <3>3. Buffered(s, tp)' = fetch'[s][tp] - worker'[s][tp].off
                               - (IF At(s, tp, "idle") THEN 0 ELSE 1)
                               - (IF tp \in held'[s] THEN 1 ELSE 0)
      BY <2>4, <3>2 DEF Buffered, At
    <3>4. worker[s][tp].off \in Nat
      BY BufferCount
    <3>5. CASE fetch[s][tp] = Unpolled
      <4>1. At(s, tp, "idle") /\ Buffered(s, tp) = 0
        BY <3>5 DEF TypeInv, JobsExist, Buffered
      <4>2. held' = held
        BY <2>1, <4>1
      <4>3. Buffered(s, tp)' = 1
        BY <2>2, <2>3, <2>4, <3>3, <3>5, <4>1, <4>2
      <4> QED BY <2>2, <2>5, <3>2, <4>2, <4>3
    <3>6. CASE fetch[s][tp] # Unpolled
      <4>1. Buffered(s, tp) = fetch[s][tp] - worker[s][tp].off
                               - (IF At(s, tp, "idle") THEN 0 ELSE 1)
        BY <2>2, <3>4, <3>6, BufferCount DEF Buffered, Unpolled
      <4>2. fetch'[s][tp] = fetch[s][tp] + 1 /\ worker'[s][tp].off = worker[s][tp].off
        BY <2>3, <2>4, <3>6 DEF Position
      <4>3. CASE Buffered(s, tp) < ChanCap
        BY <2>1, <2>2, <2>5, <3>1, <3>2, <3>3, <3>4, <4>1, <4>2, <4>3 DEF Unpolled
      <4>4. CASE ~(Buffered(s, tp) < ChanCap)
        BY <2>1, <2>2, <2>5, <3>1, <3>2, <3>3, <3>4, <4>1, <4>2, <4>4 DEF Unpolled
      <4> QED BY <4>3, <4>4
    <3> QED BY <3>5, <3>6
  <2>6. CASE <<s2, tp2>> # <<s, tp>>
    <3>1. tp2 \in held'[s2] <=> tp2 \in held[s2]
      BY <2>1, <2>2, <2>6
    <3>2. tp2 \in held'[s2] => held'[s2] = held[s2]
      BY <2>1, <2>2, <2>6
    <3>3. tp2 \in TPs
      BY TopicFacts
    <3> QED BY <2>3, <2>4, <2>6, <3>1, <3>2, <3>3, BufferSame DEF Backpressure
  <2> QED BY <2>5, <2>6
<1> QED BY <1>1, <1>2 DEF Dispatcher

LEMMA BackpressureStep == TypeInv /\ Backpressure /\ [Next]_vars => Backpressure'
<1> SUFFICES ASSUME TypeInv, Backpressure, [Next]_vars PROVE Backpressure'
  OBVIOUS
<1>1. CASE UNCHANGED <<fetch, worker, held>>
  BY <1>1 DEF Backpressure, Buffered, At
<1>2. CASE \E s \in Sessions : Dispatcher(s)
  BY <1>2, DispatcherBackpressure
<1>3. CASE \E s \in Sessions, tp \in Subscribed : Worker(s, tp)
  BY <1>3, WorkerBackpressure
<1>4. Environment \/ UNCHANGED vars => UNCHANGED <<fetch, worker, held>>
  BY DEF Environment, UserPublish, Run, Cancel, RevokePartition, Fence, LeaseExpires,
         vars, brokerVars
<1> QED BY <1>1, <1>2, <1>3, <1>4 DEF Next

\* However fast the polling loop and however slow the handlers, a run holds no
\* more than ChanCap + 2 records of a partition, and while one channel is full
\* it polls nothing.
THEOREM ChannelsBounded == Spec => []Backpressure
BY BackpressureInit, BackpressureStep, TypeAlways, PTL DEF Spec

(***************************************************************************)
(* The transaction mutex of a run                                          *)
(***************************************************************************)
TxnPCs == {"stage", "txnCommit"}

\* A worker holds the mutex exactly while it is in its transaction.
MutexHeld ==
    \A s \in Sessions : \A tp \in Subscribed :
      tp \in txnMu[s] <=> worker[s][tp].pc \in TxnPCs

\* Only one worker of a run does.
MutexExclusive == \A s \in Sessions : \A p, q \in txnMu[s] : p = q

MutexInv == MutexHeld /\ MutexExclusive

\* What the worker of tp does about the mutex.
LEMMA MutexMoves ==
    ASSUME TypeInv, NEW s \in Sessions, NEW tp \in Subscribed, Worker(s, tp)
    PROVE  \/ /\ txnMu' = txnMu
              /\ worker'[s][tp].pc \in TxnPCs <=> worker[s][tp].pc \in TxnPCs
           \/ /\ txnMu[s] = {} /\ txnMu' = [txnMu EXCEPT ![s] = {tp}]
              /\ worker'[s][tp].pc \in TxnPCs
           \/ /\ worker[s][tp].pc \in TxnPCs /\ txnMu' = [txnMu EXCEPT ![s] = {}]
              /\ worker'[s][tp].pc \notin TxnPCs
<1> USE GotoMoves, FinishMoves, NextJobMoves DEF PCs, TxnPCs
<1>1. CASE Take(s, tp)
  BY <1>1, TakeMoves DEF Take, At
<1>2. CASE WaitElapsed(s, tp)
  BY <1>2 DEF WaitElapsed, Ready, At
<1>3. CASE Claim(s, tp)
  BY <1>3 DEF Claim, Abandon, At
<1>4. CASE ClaimError(s, tp)
  BY <1>4 DEF ClaimError, At
<1>5. CASE HandlerOk(s, tp)
  BY <1>5 DEF HandlerOk, At
<1>6. CASE HandlerErr(s, tp)
  BY <1>6, HandlerErrMoves DEF HandlerErr, At
<1>7. CASE BackoffElapsed(s, tp)
  BY <1>7 DEF BackoffElapsed, At
<1>8. CASE CloseClaim(s, tp)
  BY <1>8 DEF CloseClaim, At
<1>9. CASE Route(s, tp)
  BY <1>9 DEF Route, At
<1>10. CASE Publish(s, tp)
  BY <1>10 DEF Publish, Abandon, At
<1>11. CASE BeginTxn(s, tp)
  BY <1>11 DEF BeginTxn, Abandon, At
<1>12. CASE StageTxn(s, tp)
  BY <1>12 DEF StageTxn, Unlock, At
<1>13. CASE CommitTxn(s, tp)
  BY <1>13 DEF CommitTxn, Abandon, Unlock, At
<1>14. CASE Ack(s, tp)
  BY <1>14 DEF Ack, At
<1>15. CASE Commit(s, tp)
  BY <1>15 DEF Commit, At
<1>16. CASE Drain(s, tp)
  BY <1>16 DEF Drain, At
<1>17. CASE DrainCommit(s, tp)
  BY <1>17 DEF DrainCommit, At
<1> QED
  BY <1>1, <1>2, <1>3, <1>4, <1>5, <1>6, <1>7, <1>8, <1>9, <1>10, <1>11,
     <1>12, <1>13, <1>14, <1>15, <1>16, <1>17 DEF Worker

LEMMA MutexStep == TypeInv /\ MutexInv /\ [Next]_vars => MutexInv'
<1> SUFFICES ASSUME TypeInv, MutexInv, [Next]_vars PROVE MutexInv'
  OBVIOUS
<1>1. ASSUME NEW s \in Sessions, NEW tp \in Subscribed, Worker(s, tp)
      PROVE  MutexInv'
  <2>1. /\ txnMu \in [Sessions -> SUBSET Subscribed]
        /\ \A s2 \in Sessions, tp2 \in Subscribed :
             <<s2, tp2>> # <<s, tp>> => worker'[s2][tp2] = worker[s2][tp2]
    BY <1>1, WorkerMovesAlways DEF WorkerMoves, Moves, TypeInv, TypeOK
  <2>2. worker[s][tp].pc \in TxnPCs => txnMu[s] = {tp}
    BY DEF MutexInv, MutexHeld, MutexExclusive
  <2> SUFFICES ASSUME NEW s2 \in Sessions
               PROVE  /\ \A tp2 \in Subscribed :
                           tp2 \in txnMu'[s2] <=> worker'[s2][tp2].pc \in TxnPCs
                      /\ \A p, q \in txnMu'[s2] : p = q
    BY DEF MutexInv, MutexHeld, MutexExclusive
  <2>3. CASE s2 # s
    BY <1>1, <2>1, <2>3, MutexMoves DEF MutexInv, MutexHeld, MutexExclusive
  <2>4. CASE s2 = s
    BY <1>1, <2>1, <2>2, <2>4, MutexMoves DEF MutexInv, MutexHeld, MutexExclusive
  <2> QED BY <2>3, <2>4
<1>2. CASE txnMu' = txnMu /\ \A s \in Sessions, tp \in Subscribed :
                               worker'[s][tp].pc = worker[s][tp].pc
  BY <1>2 DEF MutexInv, MutexHeld, MutexExclusive
<1>3. ASSUME NEW s \in Sessions, Dispatcher(s)
      PROVE  txnMu' = txnMu /\ \A s2 \in Sessions, tp \in Subscribed :
                                 worker'[s2][tp].pc = worker[s2][tp].pc
  <2>1. txnMu' = txnMu
    BY <1>3 DEF Dispatcher, Poll, Send
  <2>2. \/ worker' = worker
        \/ \E tp \in Subscribed : worker' = [worker EXCEPT ![s][tp].off = Position(s, tp)]
    BY <1>3 DEF Dispatcher, Poll, Send
  <2>3. ASSUME NEW tp \in Subscribed, worker' = [worker EXCEPT ![s][tp].off = Position(s, tp)]
        PROVE  \A s2 \in Sessions, tp2 \in Subscribed : worker'[s2][tp2].pc = worker[s2][tp2].pc
    BY <2>3, TypedFacts DEF WorkersTyped, WorkerStates
  <2> QED BY <2>1, <2>2, <2>3
<1>4. Environment \/ UNCHANGED vars => UNCHANGED <<txnMu, worker>>
  BY DEF Environment, UserPublish, Run, Cancel, RevokePartition, Fence, LeaseExpires, vars
<1> QED BY <1>1, <1>2, <1>3, <1>4 DEF Next

LEMMA MutexAlways == Spec => []MutexInv
<1>1. Init => MutexInv
  BY DEF Init, MutexInv, MutexHeld, MutexExclusive, TxnPCs
<1> QED BY <1>1, MutexStep, TypeAlways, PTL DEF Spec

\* No goroutine of a run waits for one that waits, however many workers share
\* the transaction mutex and however the transactions end: the polling loop
\* waits for a worker that has records, and a worker waits for the mutex only
\* while another is in a transaction it ends by itself.
THEOREM DeadlockFree == Spec => []NoDeadlock
<1>1. TypeInv /\ Backpressure /\ MutexInv => NoDeadlock
  <2> SUFFICES ASSUME TypeInv, Backpressure, MutexInv,
                      NEW s \in Sessions, NEW tp \in Subscribed,
                      tp \in held[s] \/ At(s, tp, "lock"),
                      ~(tp \in held[s] /\ Buffered(s, tp) < ChanCap),
                      Waits(s, tp)
               PROVE  \E q \in txnMu[s] : ~Waits(s, q)
    BY DEF NoDeadlock
  <2>1. Buffered(s, tp) # 0 \/ ~At(s, tp, "idle")
    BY ConsumerAssumption DEF Backpressure, At
  <2>2. PICK q \in txnMu[s] : TRUE
    BY <2>1 DEF Waits
  <2>3. q \in Subscribed
    BY DEF TypeInv, TypeOK
  <2>4. worker[s][q].pc \in TxnPCs
    BY <2>3 DEF MutexInv, MutexHeld
  <2> QED BY <2>2, <2>4 DEF Waits, At, TxnPCs
<1> QED BY <1>1, TypeAlways, ChannelsBounded, MutexAlways, PTL
===========================================================================

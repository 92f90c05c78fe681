--------------------------- MODULE DeliveryProofs ---------------------------
(***************************************************************************)
(* The consumer keeps its contract: no message that was accepted is        *)
(* forgotten before something was decided about it, for every number of    *)
(* sessions, messages, partitions and retries, both guarantees, every      *)
(* ordering and all the faults of Consumer.                                *)
(*                                                                         *)
(* The argument.  Call a record covered if its message is settled, or is   *)
(* due at a higher stage.  Whatever the group has committed is covered     *)
(* (OffsetsSound); since stages are finitely many, a message that is due   *)
(* nowhere has been settled.  A worker may commit its record only if it    *)
(* covered it and all it passed before (WorkersSound): it may walk past a  *)
(* record it did not cover only if it can never commit again, because its  *)
(* partition was revoked or its run was cancelled.  A commit at one stage  *)
(* never uncovers a record of another: what it takes away from being due   *)
(* was itself covered, one stage further up.                               *)
(***************************************************************************)
EXTENDS ConsumerProofs

(***************************************************************************)
(* The inductive invariant                                                 *)
(***************************************************************************)
OffsetsSound ==
    \A tp \in Subscribed : \A o \in Nat : o < offsets[tp] => Covered(tp, o)

\* All the records the worker has left behind are covered.
Passed(s, tp) == \A o \in Nat : o < worker[s][tp].off => Covered(tp, o)

JobCovered(s, tp) == Covered(tp, worker[s][tp].off)

WorkerSound(s, tp) ==
    /\ fetch[s][tp] = Unpolled => worker[s][tp].off = 0
    /\ ~At(s, tp, "idle") => ctx[s] # "new"
    /\ Assigned(s, tp) /\ (ctx[s] # "cancelled" \/ ~At(s, tp, "idle")) => Passed(s, tp)
    /\ worker[s][tp].pc \in {"commit", "drainCommit", "txnCommit"} => Passed(s, tp)
    /\ worker[s][tp].pc \in {"ack", "commit", "drainCommit"} => JobCovered(s, tp)
    /\ At(s, tp, "drain") /\ Live(s) /\ Assigned(s, tp) => JobCovered(s, tp)

WorkersSound == \A s \in Sessions, tp \in Subscribed : WorkerSound(s, tp)

\* A record of stage k failed k times: what is routed goes up.
AttemptsMatch ==
    /\ \A tp \in Subscribed : \A i \in 1 .. Len(log[tp]) :
         log[tp][i].attempt = Stage(tp)
    /\ \A s \in Sessions, tp \in Subscribed :
         worker[s][tp].pc \notin {"idle", "drain", "drainCommit"} =>
           Stage(tp) <= worker[s][tp].att

\* The store says completed only of what was handled.
ClaimsTruthful ==
    /\ \A m \in Msgs : entry[m] = "completed" => "handled" \in fate[m]
    /\ \A s \in Sessions, tp \in Subscribed :
         At(s, tp, "complete") => "handled" \in fate[Id(s, tp)]

\* Nothing comes from nowhere.
NothingInvented ==
    /\ \A tp \in TPs : \A i \in 1 .. Len(log[tp]) : Accepted(log[tp][i].id)
    /\ \A m \in Msgs : fate[m] # {} => Accepted(m)

DeliveryInv ==
    /\ TypeInv
    /\ OffsetsSound
    /\ WorkersSound
    /\ AttemptsMatch
    /\ ClaimsTruthful
    /\ NothingInvented

(***************************************************************************)
(* What a step cannot undo                                                 *)
(***************************************************************************)
FateGrows == \A m \in Msgs : fate[m] \subseteq fate'[m]

LEMMA GrowthFacts ==
    ASSUME TypeInv, LogsGrow, FateGrows
    PROVE  /\ \A tp \in TPs : \A o \in Nat : o < Len(log[tp]) =>
                /\ o < Len(log'[tp])
                /\ IdAt(tp, o)' = IdAt(tp, o)
                /\ IdAt(tp, o) \in Msgs
           /\ \A tp \in TPs, m \in Msgs : Contains(tp, m) => Contains(tp, m)'
           /\ \A m \in Msgs : Settled(m) => Settled(m)'
           /\ \A m \in Msgs : Accepted(m) => Accepted(m)'
<1>1. \A tp \in TPs : /\ log[tp] \in Seq(Recs) /\ log'[tp] \in Seq(Recs)
                      /\ Len(log[tp]) \in Nat /\ Len(log'[tp]) \in Nat
                      /\ Len(log[tp]) <= Len(log'[tp])
                      /\ \A i \in 1 .. Len(log[tp]) : log'[tp][i] = log[tp][i]
  BY TypedFacts DEF LogsTyped, LogsGrow
<1>2. ASSUME NEW tp \in TPs, NEW o \in Nat, o < Len(log[tp])
      PROVE  /\ o < Len(log'[tp])
             /\ IdAt(tp, o)' = IdAt(tp, o)
             /\ IdAt(tp, o) \in Msgs
  <2>1. o + 1 \in 1 .. Len(log[tp])
    BY <1>1, <1>2
  <2>2. log[tp][o + 1] \in Recs /\ log'[tp][o + 1] = log[tp][o + 1]
    BY <1>1, <2>1
  <2> QED
    BY <1>1, <1>2, <2>2 DEF IdAt, Record, Recs
<1>3. ASSUME NEW tp \in TPs, NEW m \in Msgs, Contains(tp, m)
      PROVE  Contains(tp, m)'
  <2> PICK i \in 1 .. Len(log[tp]) : log[tp][i].id = m
    BY <1>3 DEF Contains
  <2>1. i \in 1 .. Len(log'[tp]) /\ log'[tp][i].id = m
    BY <1>1
  <2> QED
    BY <2>1 DEF Contains
<1>4. PartitionOf(Dlq) \in TPs /\ \A p \in Partitions : <<Main, p>> \in TPs
  BY TopicFacts, TopicsAssumption
<1>5. \A m \in Msgs : Settled(m) => Settled(m)'
  BY <1>3, <1>4 DEF Settled, DeadLettered, FateGrows
<1>6. \A m \in Msgs : Accepted(m) => Accepted(m)'
  BY <1>3, <1>4 DEF Accepted
<1> QED
  BY <1>2, <1>3, <1>5, <1>6

\* A covered record stays covered unless what covers it is committed without
\* being covered itself.
LEMMA CoveredStays ==
    ASSUME TypeInv, LogsGrow, FateGrows, OffsetsTyped',
           NEW tp \in Subscribed, NEW o \in Nat, o < Len(log[tp]), Covered(tp, o),
           \A up \in Subscribed : Stage(tp) < Stage(up) =>
             \A n \in Nat : offsets[up] <= n /\ n < offsets'[up] => Covered(up, n)'
    PROVE  Covered(tp, o)'
<1> PICK m \in Msgs : IdAt(tp, o) = m
  BY TopicFacts, GrowthFacts
<1>1. tp \in TPs /\ IdAt(tp, o)' = m
  BY TopicFacts, GrowthFacts
<1>2. CASE Settled(m)
  BY <1>1, <1>2, GrowthFacts DEF Covered
<1>3. CASE \E up \in Subscribed : Stage(tp) < Stage(up) /\ Due(up, m)
  <2> PICK up \in Subscribed : Stage(tp) < Stage(up) /\ Due(up, m)
    BY <1>3
  <2> PICK i \in 1 .. Len(log[up]) : offsets[up] < i /\ log[up][i].id = m
    BY DEF Due
  <2>1. /\ up \in TPs /\ Len(log[up]) \in Nat
        /\ Stage(tp) \in Nat /\ Stage(up) \in Nat
        /\ \A t \in Subscribed : Stage(t) \in Nat
    BY <1>1, TopicFacts, TypedFacts DEF LogsTyped
  <2>2. offsets[up] \in Nat /\ offsets'[up] \in Nat
    BY <2>1 DEF TypeInv, TypeOK, OffsetsTyped
  <2>3. i - 1 \in Nat /\ i - 1 < Len(log[up])
    BY <2>1
  <2>4. IdAt(up, i - 1) = m /\ IdAt(up, i - 1)' = m
    <3>1. IdAt(up, i - 1) = m
      BY <2>1 DEF IdAt, Record
    <3> QED
      BY <2>1, <2>3, <3>1, GrowthFacts
  <2>5. i \in 1 .. Len(log'[up]) /\ log'[up][i].id = m
    BY <2>1, TypedFacts DEF LogsTyped, LogsGrow
  <2>6. CASE offsets'[up] < i
    <3>1. Due(up, m)'
      BY <2>5, <2>6 DEF Due
    <3> QED
      BY <1>1, <3>1 DEF Covered
  <2>7. CASE ~(offsets'[up] < i)
    <3>1. Covered(up, i - 1)'
      BY <2>2, <2>3, <2>7
    <3>2. \/ Settled(m)'
          \/ \E t \in Subscribed : Stage(up) < Stage(t) /\ Due(t, m)'
      BY <2>4, <3>1 DEF Covered
    <3>3. \/ Settled(m)'
          \/ \E t \in Subscribed : Stage(tp) < Stage(t) /\ Due(t, m)'
      BY <2>1, <3>2
    <3> QED
      BY <1>1, <3>3 DEF Covered
  <2> QED
    BY <2>6, <2>7
<1> QED
  BY <1>2, <1>3 DEF Covered

\* Nothing covered is uncovered.
CoverKept ==
    \A tp \in Subscribed : \A o \in Nat :
      o < Len(log[tp]) /\ Covered(tp, o) => Covered(tp, o)'

LEMMA QuietCover ==
    ASSUME TypeInv, OffsetsSound, LogsGrow, FateGrows, offsets' = offsets
    PROVE  CoverKept /\ OffsetsSound'
<1>1. OffsetsTyped' /\ \A tp \in TPs : offsets[tp] \in Nat /\ offsets[tp] <= Len(log[tp])
  BY OffsetsKept DEF TypeInv, TypeOK
<1>2. \A up \in Subscribed : \A n \in Nat : ~(offsets[up] <= n /\ n < offsets'[up])
  BY <1>1, TopicFacts
<1>3. CoverKept
  BY <1>1, <1>2, CoveredStays DEF CoverKept
<1>4. \A tp \in Subscribed : \A o \in Nat : o < offsets[tp] => o < Len(log[tp])
  BY <1>1, TopicFacts, TypedFacts DEF LogsTyped
<1>5. OffsetsSound'
  BY <1>3, <1>4 DEF CoverKept, OffsetsSound
<1> QED
  BY <1>3, <1>5

\* A commit is sound if the record and all before it are covered.
LEMMA CommitCover ==
    ASSUME TypeInv, OffsetsSound, LogsGrow, FateGrows,
           NEW s \in Sessions, NEW tp \in Subscribed, ~At(s, tp, "idle"),
           NEW o \in Nat, o = worker[s][tp].off,
           CommitOffset(tp, o), Passed(s, tp),
           Covered(tp, o) \/ Covered(tp, o)'
    PROVE  CoverKept /\ OffsetsSound' /\ Covered(tp, o)'
<1>1. /\ OffsetsTyped'
      /\ \A t \in TPs : /\ offsets[t] \in Nat /\ Len(log[t]) \in Nat
                        /\ offsets[t] <= Len(log[t])
      /\ o < Len(log[tp])
      /\ \A t \in Subscribed : t \in TPs /\ Stage(t) \in Nat
  BY OffsetsCommitted, JobFacts, TopicFacts, TypedFacts
  DEF TypeInv, TypeOK, LogsTyped
<1>2. /\ offsets'[tp] = o + 1 \/ offsets'[tp] = offsets[tp]
      /\ \A t \in TPs : t # tp => offsets'[t] = offsets[t]
  BY <1>1, CommitFacts DEF TypeInv, TypeOK
<1>3. ASSUME NEW n \in Nat, n < Len(log[tp]), Covered(tp, n)
      PROVE  Covered(tp, n)'
  <2>1. \A up \in Subscribed : Stage(tp) < Stage(up) =>
          \A k \in Nat : ~(offsets[up] <= k /\ k < offsets'[up])
    BY <1>1, <1>2
  <2> QED
    BY <1>1, <1>3, <2>1, CoveredStays
<1>4. Covered(tp, o)'
  BY <1>1, <1>3
<1>5. \A n \in Nat : n < offsets'[tp] => Covered(tp, n)'
  <2> SUFFICES ASSUME NEW n \in Nat, n < offsets'[tp] PROVE Covered(tp, n)'
    OBVIOUS
  <2>1. CASE n < offsets[tp]
    BY <1>1, <1>3, <2>1 DEF OffsetsSound
  <2>2. CASE n < o
    BY <1>1, <1>3, <2>2 DEF Passed
  <2>3. CASE n = o
    BY <1>4, <2>3
  <2> QED
    BY <1>1, <1>2, <2>1, <2>2, <2>3
<1>6. CoverKept
  <2>1. \A up \in Subscribed : \A n \in Nat :
          offsets[up] <= n /\ n < offsets'[up] => Covered(up, n)'
    BY <1>1, <1>2, <1>5
  <2> QED
    BY <1>1, <2>1, CoveredStays DEF CoverKept
<1>7. OffsetsSound'
  <2> SUFFICES ASSUME NEW t \in Subscribed, NEW n \in Nat, n < offsets'[t]
               PROVE  Covered(t, n)'
    BY DEF OffsetsSound
  <2>1. CASE t = tp
    BY <1>5, <2>1
  <2>2. CASE t # tp
    BY <1>1, <1>2, <1>6, <2>2 DEF OffsetsSound, CoverKept
  <2> QED
    BY <2>1, <2>2
<1> QED
  BY <1>4, <1>6, <1>7

(***************************************************************************)
(* How a worker covers its record                                          *)
(***************************************************************************)
Fates == {"handled", "exhausted", "abandoned"}

\* ... by deciding about the message,
LEMMA DecideCovers ==
    ASSUME TypeInv, LogsGrow, NEW s \in Sessions, NEW tp \in Subscribed,
           ~At(s, tp, "idle"), NEW f \in Fates, Decide(Id(s, tp), f)
    PROVE  /\ FateGrows
           /\ \A o \in Nat : o = worker[s][tp].off => Covered(tp, o)'
<1>1. fate \in [Msgs -> SUBSET Fates] /\ tp \in TPs
  BY TopicFacts DEF TypeInv, TypeOK, Fates
<1>2. FateGrows
  BY <1>1 DEF Decide, FateGrows
<1>3. ASSUME NEW o \in Nat, o = worker[s][tp].off
      PROVE  Covered(tp, o)'
  <2>1. PICK m \in Msgs : Id(s, tp) = m
    BY JobFacts
  <2>2. o < Len(log[tp]) /\ IdAt(tp, o) = m
    BY <1>3, <2>1, JobFacts DEF IdAt, Id, Job
  <2>3. IdAt(tp, o)' = m
    BY <1>1, <1>2, <2>2, GrowthFacts
  <2>4. f \in fate'[m]
    BY <1>1, <2>1 DEF Decide
  <2>5. Settled(m)'
    BY <2>4 DEF Settled
  <2> QED
    BY <2>3, <2>5 DEF Covered
<1> QED
  BY <1>2, <1>3

LEMMA DecidedCovers ==
    ASSUME TypeInv, NEW s \in Sessions, NEW tp \in Subscribed,
           fate[Id(s, tp)] # {}, NEW o \in Nat, o = worker[s][tp].off
    PROVE  Covered(tp, o)
  BY DEF Covered, Settled, IdAt, Id, Job

\* ... or by publishing it further up.
LEMMA RouteCovers ==
    ASSUME TypeInv, NEW s \in Sessions, NEW tp \in Subscribed,
           ~At(s, tp, "idle"), Stage(tp) <= worker[s][tp].att,
           AppendTo(Destination(worker[s][tp].att), Routed(s, tp)),
           offsets' = offsets \/ CommitOffset(tp, worker[s][tp].off)
    PROVE  /\ LogsGrow
           /\ \A o \in Nat : o = worker[s][tp].off => Covered(tp, o)'
<1> DEFINE dest == Destination(worker[s][tp].att)
<1>1. PICK up \in TPs : up = dest
  BY JobFacts, DestinationFacts
<1>2. /\ Stage(tp) < Stage(up)
      /\ Stage(up) = Dlq => up = PartitionOf(Dlq)
      /\ Stage(tp) \in Nat /\ Stage(up) \in Nat /\ Stage(up) <= Dlq
      /\ up # tp /\ tp \in TPs
      /\ Stage(up) < Dlq => up \in Subscribed
  <2>1. worker[s][tp].att \in 0 .. MaxRetries
    BY JobFacts
  <2>2. tp \in TPs /\ Stage(tp) \in Nat /\ Stage(up) \in 0 .. Dlq /\ Dlq \in Nat
    BY TopicFacts
  <2>3. worker[s][tp].att < Stage(up) /\ (Stage(up) = Dlq => up = PartitionOf(Dlq))
    BY <1>1, <2>1, DestinationFacts
  <2> QED
    BY <2>1, <2>2, <2>3, TopicFacts
<1>3. Routed(s, tp) \in Recs /\ AppendTo(up, Routed(s, tp))
  BY <1>1, JobFacts
<1>4. PICK i : i = Len(log[up]) + 1
  OBVIOUS
<1>5. /\ LogsGrow
      /\ Len(log[up]) \in Nat
      /\ i \in 1 .. Len(log'[up])
      /\ log'[up][i] = Routed(s, tp)
  BY <1>3, <1>4, AppendFacts, TypedFacts DEF LogsTyped
<1>6. offsets'[up] = offsets[up] /\ offsets[up] \in Nat /\ offsets[up] < i
  <2>1. offsets \in [TPs -> Nat] /\ offsets[up] <= Len(log[up])
    BY DEF TypeInv, TypeOK
  <2> QED
    BY <1>2, <1>4, <1>5, <2>1 DEF CommitOffset
<1>7. ASSUME NEW o \in Nat, o = worker[s][tp].off
      PROVE  Covered(tp, o)'
  <2>1. PICK m \in Msgs : Id(s, tp) = m
    BY JobFacts
  <2>2. o < Len(log[tp]) /\ IdAt(tp, o) = m
    BY <1>7, <2>1, JobFacts DEF IdAt, Id, Job
  <2>3. o + 1 \in 1 .. Len(log[tp])
    BY <1>2, <2>2, TypedFacts DEF LogsTyped
  <2>4. IdAt(tp, o)' = m
    BY <1>2, <1>5, <2>2, <2>3 DEF LogsGrow, IdAt, Record
  <2>5. log'[up][i].id = m
    BY <1>5, <2>1 DEF Routed
  <2>6. CASE Stage(up) = Dlq
    <3>1. Contains(PartitionOf(Dlq), m)'
      BY <1>2, <1>5, <2>5, <2>6 DEF Contains
    <3> QED
      BY <2>4, <3>1 DEF Covered, Settled, DeadLettered
  <2>7. CASE Stage(up) # Dlq
    <3>1. up \in Subscribed
      BY <1>2, <2>7, TopicFacts
    <3>2. Due(up, m)'
      BY <1>5, <1>6, <2>5 DEF Due
    <3> QED
      BY <1>2, <2>4, <3>1, <3>2 DEF Covered
  <2> QED
    BY <2>6, <2>7
<1> QED
  BY <1>5, <1>7

(***************************************************************************)
(* What a step of a worker does                                            *)
(***************************************************************************)
\* The worker stays on its record without claiming to have covered it,
Stays(s, tp) ==
    /\ worker'[s][tp].pc \in {"wait", "claim", "handle", "backoff", "complete",
                              "fail", "route", "publish", "lock", "stage"}
    /\ worker'[s][tp].off = worker[s][tp].off
    /\ ~At(s, tp, "idle") \/ Live(s)

\* ... or goes on to commit it,
Proceeds(s, tp) ==
    /\ ~At(s, tp, "idle")
    /\ worker'[s][tp].off = worker[s][tp].off
    /\ \/ worker'[s][tp].pc = "ack"
       \/ worker'[s][tp].pc \in {"commit", "drainCommit"} /\ Assigned(s, tp)
    /\ \A o \in Nat : o = worker[s][tp].off => Covered(tp, o)'

\* ... or to route and commit it at once,
Stages(s, tp) ==
    /\ ~At(s, tp, "idle")
    /\ worker'[s][tp].off = worker[s][tp].off
    /\ worker'[s][tp].pc = "txnCommit"
    /\ Assigned(s, tp)

\* ... or leaves it: covered, or never to commit again.
Leaves(s, tp) ==
    /\ ~At(s, tp, "idle")
    /\ \/ /\ worker'[s][tp].pc = "idle"
          /\ worker'[s][tp].off = worker[s][tp].off + 1
       \/ /\ worker'[s][tp].pc = "drain"
          /\ worker'[s][tp].off = worker[s][tp].off
    /\ \/ \A o \in Nat : o = worker[s][tp].off => Covered(tp, o)'
       \/ ~Assigned(s, tp)
       \/ ctx[s] = "cancelled"

SoundMove(s, tp) ==
    Stays(s, tp) \/ Proceeds(s, tp) \/ Stages(s, tp) \/ Leaves(s, tp)

SafeStep(s, tp) ==
    LogsGrow /\ FateGrows /\ CoverKept /\ OffsetsSound' /\ SoundMove(s, tp)

LEMMA SameFate ==
    ASSUME TypeInv, fate' = fate PROVE FateGrows
  BY DEF FateGrows

\* A step that touches neither partitions, nor offsets, nor fates.
LEMMA QuietStep ==
    ASSUME DeliveryInv, UNCHANGED <<log, offsets, fate>>
    PROVE  LogsGrow /\ FateGrows /\ CoverKept /\ OffsetsSound'
  BY NoAppendFacts, TypedFacts, SameFate, QuietCover DEF DeliveryInv

\* A step that decides about the record.
LEMMA DecideStep ==
    ASSUME DeliveryInv, NEW s \in Sessions, NEW tp \in Subscribed,
           ~At(s, tp, "idle"), NEW f \in Fates, Decide(Id(s, tp), f),
           UNCHANGED <<log, offsets>>
    PROVE  /\ LogsGrow /\ FateGrows /\ CoverKept /\ OffsetsSound'
           /\ \A o \in Nat : o = worker[s][tp].off => Covered(tp, o)'
<1>1. TypeInv /\ OffsetsSound
  BY DEF DeliveryInv
<1>2. LogsGrow
  BY <1>1, NoAppendFacts, TypedFacts
<1>3. /\ FateGrows
      /\ \A o \in Nat : o = worker[s][tp].off => Covered(tp, o)'
  BY <1>1, <1>2, DecideCovers
<1> QED
  BY <1>1, <1>2, <1>3, QuietCover

LEMMA AbandonStep ==
    ASSUME DeliveryInv, NEW s \in Sessions, NEW tp \in Subscribed,
           ~At(s, tp, "idle"), Abandon(s, tp), UNCHANGED <<log, offsets>>
    PROVE  SafeStep(s, tp)
<1>1. Finish(s, tp) /\ Decide(Id(s, tp), "abandoned") /\ "abandoned" \in Fates
  BY DEF Abandon, Fates
<1>2. /\ LogsGrow /\ FateGrows /\ CoverKept /\ OffsetsSound'
      /\ \A o \in Nat : o = worker[s][tp].off => Covered(tp, o)'
  BY <1>1, DecideStep
<1>3. Leaves(s, tp)
  BY <1>1, <1>2, FinishMoves DEF DeliveryInv, Leaves
<1> QED
  BY <1>2, <1>3 DEF SafeStep, SoundMove

\* A worker may leave a record as it is when it cannot commit any more.
LEMMA FinishStep ==
    ASSUME DeliveryInv, NEW s \in Sessions, NEW tp \in Subscribed,
           ~At(s, tp, "idle"), Finish(s, tp), UNCHANGED <<log, offsets, fate>>,
           ~Assigned(s, tp) \/ ~Live(s)
    PROVE  SafeStep(s, tp)
<1>1. ~Assigned(s, tp) \/ ctx[s] = "cancelled"
  BY DEF DeliveryInv, WorkersSound, WorkerSound, Live, TypeInv, TypeOK
<1>2. Leaves(s, tp)
  BY <1>1, FinishMoves DEF DeliveryInv, Leaves
<1> QED
  BY <1>2, QuietStep DEF SafeStep, SoundMove

LEMMA StayStep ==
    ASSUME DeliveryInv, NEW s \in Sessions, NEW tp \in Subscribed,
           ~At(s, tp, "idle"), UNCHANGED <<log, offsets, fate>>,
           NEW pc \in {"wait", "claim", "handle", "backoff", "complete",
                       "fail", "route", "publish", "lock", "stage"},
           Goto(s, tp, pc)
    PROVE  SafeStep(s, tp)
<1>1. Stays(s, tp)
  BY GotoMoves DEF DeliveryInv, Stays, PCs
<1> QED
  BY <1>1, QuietStep DEF SafeStep, SoundMove

LEMMA AckStep ==
    ASSUME DeliveryInv, NEW s \in Sessions, NEW tp \in Subscribed,
           ~At(s, tp, "idle"), UNCHANGED <<log, offsets, fate>>,
           Goto(s, tp, "ack"), JobCovered(s, tp)
    PROVE  SafeStep(s, tp)
<1>1. TypeInv /\ LogsGrow /\ FateGrows /\ CoverKept /\ OffsetsSound'
  BY QuietStep DEF DeliveryInv
<1>2. \A o \in Nat : o = worker[s][tp].off => Covered(tp, o)'
  BY <1>1, JobFacts DEF JobCovered, CoverKept
<1>3. Proceeds(s, tp)
  BY <1>1, <1>2, GotoMoves DEF Proceeds, PCs
<1> QED
  BY <1>1, <1>3 DEF SafeStep, SoundMove

LEMMA CommitStep ==
    ASSUME DeliveryInv, NEW s \in Sessions, NEW tp \in Subscribed,
           worker[s][tp].pc \in {"commit", "drainCommit"},
           CommitOffset(tp, worker[s][tp].off), UNCHANGED <<log, fate>>,
           \/ Finish(s, tp)
           \/ worker' = [worker EXCEPT ![s][tp] = NextJob(@)]
    PROVE  SafeStep(s, tp)
<1>1. TypeInv /\ OffsetsSound /\ ~At(s, tp, "idle") /\ Passed(s, tp) /\ JobCovered(s, tp)
  BY DEF DeliveryInv, WorkersSound, WorkerSound, At
<1>2. LogsGrow /\ FateGrows
  BY <1>1, NoAppendFacts, TypedFacts, SameFate
<1>3. PICK o \in Nat : o = worker[s][tp].off
  BY <1>1, JobFacts
<1>4. CoverKept /\ OffsetsSound' /\ Covered(tp, o)'
  BY <1>1, <1>2, <1>3, CommitCover DEF JobCovered
<1>5. Leaves(s, tp)
  BY <1>1, <1>3, <1>4, FinishMoves, NextJobMoves DEF Leaves
<1> QED
  BY <1>2, <1>4, <1>5 DEF SafeStep, SoundMove

LEMMA WorkerSafe ==
    ASSUME DeliveryInv, NEW s \in Sessions, NEW tp \in Subscribed, Worker(s, tp)
    PROVE  SafeStep(s, tp)
<1>1. TypeInv /\ OffsetsSound /\ WorkerSound(s, tp)
  BY DEF DeliveryInv, WorkersSound
<1>2. CASE Take(s, tp)
  <2>1. Stays(s, tp)
    BY <1>1, <1>2, TakeMoves DEF Stays, Take
  <2> QED
    BY <1>2, <2>1, QuietStep DEF Take, brokerVars, SafeStep, SoundMove
<1>3. CASE WaitElapsed(s, tp)
  BY <1>3, StayStep DEF WaitElapsed, Ready, At, brokerVars
<1>4. CASE Claim(s, tp)
  <2>1. ~At(s, tp, "idle") /\ UNCHANGED <<log, offsets>>
    BY <1>4 DEF Claim, At, brokerVars
  <2>2. CASE Goto(s, tp, "handle") /\ UNCHANGED fate
    BY <2>1, <2>2, StayStep
  <2>3. CASE /\ Store!Verdict(Id(s, tp)) = "skip_completed"
             /\ Goto(s, tp, "ack")
             /\ UNCHANGED fate
    <3>1. Id(s, tp) \in Msgs /\ worker[s][tp].off \in Nat
      BY <1>1, <2>1, JobFacts
    <3>2. entry[Id(s, tp)] = "completed"
      BY <1>1, <2>3, <3>1 DEF Store!Verdict, TypeInv, TypeOK, Store!StoreTypeOK,
                              Store!EntryStates
    <3>3. fate[Id(s, tp)] # {}
      BY <3>1, <3>2 DEF DeliveryInv, ClaimsTruthful
    <3>4. JobCovered(s, tp)
      BY <1>1, <3>1, <3>3, DecidedCovers DEF JobCovered
    <3> QED
      BY <2>1, <2>3, <3>4, AckStep
  <2>4. CASE Abandon(s, tp)
    BY <2>1, <2>4, AbandonStep
  <2> QED
    BY <1>4, <2>2, <2>3, <2>4 DEF Claim
<1>5. CASE ClaimError(s, tp)
  BY <1>5, StayStep DEF ClaimError, At, brokerVars
<1>6. CASE HandlerOk(s, tp)
  <2>1. /\ ~At(s, tp, "idle") /\ UNCHANGED <<log, offsets>>
        /\ Decide(Id(s, tp), "handled") /\ "handled" \in Fates
    BY <1>6 DEF HandlerOk, At, brokerVars, Fates
  <2>2. /\ LogsGrow /\ FateGrows /\ CoverKept /\ OffsetsSound'
        /\ \A o \in Nat : o = worker[s][tp].off => Covered(tp, o)'
    BY <2>1, DecideStep
  <2>3. CASE Goto(s, tp, "complete")
    BY <1>1, <2>1, <2>2, <2>3, GotoMoves DEF Stays, SafeStep, SoundMove, PCs
  <2>4. CASE Goto(s, tp, "ack")
    BY <1>1, <2>1, <2>2, <2>4, GotoMoves DEF Proceeds, SafeStep, SoundMove, PCs
  <2> QED
    BY <1>6, <2>3, <2>4 DEF HandlerOk
<1>7. CASE HandlerErr(s, tp)
  <2>1. Stays(s, tp)
    BY <1>1, <1>7, HandlerErrMoves DEF Stays, HandlerErr, At
  <2> QED
    BY <1>7, <2>1, QuietStep DEF HandlerErr, brokerVars, SafeStep, SoundMove
<1>8. CASE BackoffElapsed(s, tp)
  BY <1>8, StayStep DEF BackoffElapsed, At, brokerVars
<1>9. CASE CloseClaim(s, tp)
  <2>1. ~At(s, tp, "idle") /\ UNCHANGED <<log, offsets, fate>>
    BY <1>9 DEF CloseClaim, At, brokerVars
  <2>2. CASE At(s, tp, "complete") /\ Goto(s, tp, "ack")
    <3>1. fate[Id(s, tp)] # {}
      BY <2>2 DEF DeliveryInv, ClaimsTruthful
    <3>2. JobCovered(s, tp)
      BY <1>1, <2>1, <3>1, JobFacts, DecidedCovers DEF JobCovered
    <3> QED
      BY <2>1, <2>2, <3>2, AckStep
  <2>3. CASE Goto(s, tp, "route")
    BY <2>1, <2>3, StayStep
  <2> QED
    BY <1>9, <2>2, <2>3 DEF CloseClaim
<1>10. CASE Route(s, tp)
  <2>1. ~At(s, tp, "idle") /\ UNCHANGED <<log, offsets>>
    BY <1>10 DEF Route, At, brokerVars
  <2>2. CASE Decide(Id(s, tp), "exhausted") /\ Goto(s, tp, "ack")
    <3>1. /\ LogsGrow /\ FateGrows /\ CoverKept /\ OffsetsSound'
          /\ \A o \in Nat : o = worker[s][tp].off => Covered(tp, o)'
      BY <2>1, <2>2, DecideStep DEF Fates
    <3> QED
      BY <1>1, <2>1, <2>2, <3>1, GotoMoves DEF Proceeds, SafeStep, SoundMove, PCs
  <2>3. CASE /\ Goto(s, tp, IF Guarantee = "Transactional" THEN "lock" ELSE "publish")
             /\ UNCHANGED fate
    BY <2>1, <2>3, StayStep
  <2>4. CASE ~Assigned(s, tp) /\ Finish(s, tp) /\ UNCHANGED fate
    BY <2>1, <2>4, FinishStep
  <2> QED
    BY <1>10, <2>2, <2>3, <2>4 DEF Route
<1>11. CASE Publish(s, tp)
  <2>1. ~At(s, tp, "idle") /\ UNCHANGED offsets
    BY <1>11 DEF Publish, At
  <2>2. CASE /\ AppendTo(Destination(worker[s][tp].att), Routed(s, tp))
             /\ Goto(s, tp, "ack")
             /\ UNCHANGED fate
    <3>1. Stage(tp) <= worker[s][tp].att
      BY <1>11 DEF Publish, At, DeliveryInv, AttemptsMatch
    <3>2. LogsGrow /\ \A o \in Nat : o = worker[s][tp].off => Covered(tp, o)'
      BY <1>1, <2>1, <2>2, <3>1, RouteCovers
    <3>3. FateGrows /\ CoverKept /\ OffsetsSound'
      BY <1>1, <2>1, <2>2, <3>2, SameFate, QuietCover
    <3> QED
      BY <1>1, <2>1, <2>2, <3>2, <3>3, GotoMoves
      DEF Proceeds, SafeStep, SoundMove, PCs
  <2>3. CASE Abandon(s, tp) /\ UNCHANGED log
    BY <2>1, <2>3, AbandonStep
  <2>4. CASE ~Live(s) /\ Finish(s, tp) /\ UNCHANGED <<log, fate>>
    BY <2>1, <2>4, FinishStep
  <2> QED
    BY <1>11, <2>2, <2>3, <2>4 DEF Publish
<1>12. CASE BeginTxn(s, tp)
  <2>1. ~At(s, tp, "idle") /\ UNCHANGED <<log, offsets>>
    BY <1>12 DEF BeginTxn, At, brokerVars
  <2>2. CASE Goto(s, tp, "stage") /\ UNCHANGED fate
    BY <2>1, <2>2, StayStep
  <2>3. CASE Abandon(s, tp)
    BY <2>1, <2>3, AbandonStep
  <2>4. CASE ~Live(s) /\ Finish(s, tp) /\ UNCHANGED fate
    BY <2>1, <2>4, FinishStep
  <2> QED
    BY <1>12, <2>2, <2>3, <2>4 DEF BeginTxn
<1>13. CASE StageTxn(s, tp)
  <2>1. ~At(s, tp, "idle") /\ UNCHANGED <<log, offsets, fate>>
    BY <1>13 DEF StageTxn, At, brokerVars
  <2>2. CASE Assigned(s, tp) /\ Goto(s, tp, "txnCommit")
    <3>1. Stages(s, tp)
      BY <1>1, <2>1, <2>2, GotoMoves DEF Stages, PCs
    <3> QED
      BY <2>1, <3>1, QuietStep DEF SafeStep, SoundMove
  <2>3. CASE (~Assigned(s, tp) \/ ~Live(s)) /\ Finish(s, tp)
    BY <2>1, <2>3, FinishStep
  <2> QED
    BY <1>13, <2>2, <2>3 DEF StageTxn
<1>14. CASE CommitTxn(s, tp)
  <2>1. ~At(s, tp, "idle")
    BY <1>14 DEF CommitTxn, At
  <2>2. CASE /\ TxnEffect(Destination(worker[s][tp].att), Routed(s, tp),
                          tp, worker[s][tp].off)
             /\ Finish(s, tp)
             /\ UNCHANGED fate
    <3>1. Stage(tp) <= worker[s][tp].att /\ Passed(s, tp)
      BY <1>1, <1>14 DEF CommitTxn, At, DeliveryInv, AttemptsMatch, WorkerSound
    <3>2. PICK o \in Nat : o = worker[s][tp].off
      BY <1>1, <2>1, JobFacts
    <3>3. LogsGrow /\ Covered(tp, o)'
      BY <1>1, <2>1, <2>2, <3>1, <3>2, RouteCovers DEF TxnEffect
    <3>4. FateGrows /\ CoverKept /\ OffsetsSound'
      BY <1>1, <2>1, <2>2, <3>1, <3>2, <3>3, SameFate, CommitCover DEF TxnEffect
    <3>5. Leaves(s, tp)
      BY <1>1, <2>1, <2>2, <3>2, <3>3, FinishMoves DEF Leaves
    <3> QED
      BY <3>3, <3>4, <3>5 DEF SafeStep, SoundMove
  <2>3. CASE Abandon(s, tp) /\ UNCHANGED <<log, offsets>>
    BY <2>1, <2>3, AbandonStep
  <2>4. CASE ~Live(s) /\ Finish(s, tp) /\ UNCHANGED <<log, offsets, fate>>
    BY <2>1, <2>4, FinishStep
  <2> QED
    BY <1>14, <2>2, <2>3, <2>4 DEF CommitTxn
<1>15. CASE Ack(s, tp)
  <2>1. /\ ~At(s, tp, "idle") /\ UNCHANGED <<log, offsets, fate>>
        /\ JobCovered(s, tp)
    BY <1>1, <1>15 DEF Ack, At, brokerVars, WorkerSound
  <2>2. CASE Live(s) /\ Assigned(s, tp) /\ Goto(s, tp, "commit")
    <3>1. LogsGrow /\ FateGrows /\ CoverKept /\ OffsetsSound'
      BY <2>1, QuietStep
    <3>2. \A o \in Nat : o = worker[s][tp].off => Covered(tp, o)'
      BY <1>1, <2>1, <3>1, JobFacts DEF JobCovered, CoverKept
    <3>3. Proceeds(s, tp)
      BY <1>1, <2>1, <2>2, <3>2, GotoMoves DEF Proceeds, PCs
    <3> QED
      BY <3>1, <3>3 DEF SafeStep, SoundMove
  <2>3. CASE ~(Live(s) /\ Assigned(s, tp)) /\ Finish(s, tp)
    BY <2>1, <2>3, FinishStep
  <2> QED
    BY <1>15, <2>2, <2>3 DEF Ack
<1>16. CASE Commit(s, tp)
  BY <1>16, CommitStep DEF Commit, At
<1>17. CASE Drain(s, tp)
  <2>1. ~At(s, tp, "idle") /\ UNCHANGED <<log, offsets, fate>>
    BY <1>17 DEF Drain, At, brokerVars
  <2>2. LogsGrow /\ FateGrows /\ CoverKept /\ OffsetsSound'
    BY <2>1, QuietStep
  <2>3. CASE Live(s) /\ Assigned(s, tp) /\ Goto(s, tp, "drainCommit")
    <3>1. JobCovered(s, tp)
      BY <1>1, <1>17, <2>3 DEF WorkerSound, Drain
    <3>2. \A o \in Nat : o = worker[s][tp].off => Covered(tp, o)'
      BY <1>1, <2>1, <2>2, <3>1, JobFacts DEF JobCovered, CoverKept
    <3>3. Proceeds(s, tp)
      BY <1>1, <2>1, <2>3, <3>2, GotoMoves DEF Proceeds, PCs
    <3> QED
      BY <2>2, <3>3 DEF SafeStep, SoundMove
  <2>4. CASE /\ ~(Live(s) /\ Assigned(s, tp))
             /\ worker' = [worker EXCEPT ![s][tp] = NextJob(@)]
    <3>1. ~Assigned(s, tp) \/ ctx[s] = "cancelled"
      BY <1>1, <2>1, <2>4 DEF WorkerSound, Live, TypeInv, TypeOK
    <3>2. Leaves(s, tp)
      BY <1>1, <2>1, <2>4, <3>1, NextJobMoves DEF Leaves
    <3> QED
      BY <2>2, <3>2 DEF SafeStep, SoundMove
  <2> QED
    BY <1>17, <2>3, <2>4 DEF Drain
<1>18. CASE DrainCommit(s, tp)
  BY <1>18, CommitStep DEF DrainCommit, At
<1> QED
  BY <1>2, <1>3, <1>4, <1>5, <1>6, <1>7, <1>8, <1>9, <1>10, <1>11, <1>12,
     <1>13, <1>14, <1>15, <1>16, <1>17, <1>18 DEF Worker

(***************************************************************************)
(* The other workers                                                       *)
(***************************************************************************)
\* The records a worker passed exist, and so does the one it works on.
LEMMA RangeFacts ==
    ASSUME TypeInv, NEW s \in Sessions, NEW tp \in Subscribed,
           fetch[s][tp] = Unpolled => worker[s][tp].off = 0
    PROVE  /\ worker[s][tp].off \in Nat
           /\ \A n \in Nat : n < worker[s][tp].off => n < Len(log[tp])
           /\ ~At(s, tp, "idle") => worker[s][tp].off < Len(log[tp])
<1>1. /\ worker[s][tp].off \in Nat
      /\ fetch[s][tp] \in Nat \cup {-1}
      /\ Len(log[tp]) \in Nat
  BY TopicFacts, TypedFacts DEF TypeInv, TypeOK, LogsTyped, Unpolled
<1>2. /\ fetch[s][tp] # Unpolled => /\ worker[s][tp].off <= fetch[s][tp]
                                    /\ fetch[s][tp] <= Len(log[tp])
      /\ ~At(s, tp, "idle") => /\ fetch[s][tp] # Unpolled
                               /\ worker[s][tp].off < fetch[s][tp]
  BY DEF TypeInv, JobsExist
<1> QED
  BY <1>1, <1>2 DEF Unpolled

\* A worker that stands still stays sound, whatever becomes of its session.
LEMMA SoundKept ==
    ASSUME TypeInv, CoverKept, NEW s \in Sessions, NEW tp \in Subscribed,
           WorkerSound(s, tp),
           worker'[s][tp] = worker[s][tp],
           fetch'[s][tp] = Unpolled => fetch[s][tp] = Unpolled,
           \/ ctx'[s] = ctx[s]
           \/ ctx'[s] = "cancelled"
           \/ ctx[s] = "new" /\ ctx'[s] = "live",
           Assigned(s, tp)' => Assigned(s, tp)
    PROVE  WorkerSound(s, tp)'
<1>1. /\ worker[s][tp].off \in Nat
      /\ \A n \in Nat : n < worker[s][tp].off => n < Len(log[tp])
      /\ ~At(s, tp, "idle") => worker[s][tp].off < Len(log[tp])
  BY RangeFacts DEF WorkerSound
<1>2. /\ fetch'[s][tp] = Unpolled => worker'[s][tp].off = 0
      /\ ~At(s, tp, "idle")' => ctx'[s] # "new"
  BY DEF WorkerSound, At
<1>3. Passed(s, tp) => Passed(s, tp)'
  BY <1>1 DEF Passed, CoverKept
<1>4. PICK o \in Nat : o = worker[s][tp].off
  BY <1>1
<1>5. JobCovered(s, tp) /\ ~At(s, tp, "idle") => JobCovered(s, tp)'
  <2>1. Covered(tp, o) /\ ~At(s, tp, "idle") => Covered(tp, o)'
    BY <1>1, <1>4 DEF CoverKept
  <2>2. worker'[s][tp].off = o
    BY <1>4
  <2> QED
    BY <1>4, <2>1, <2>2 DEF JobCovered, Covered, IdAt, Record
<1>6. /\ Assigned(s, tp)' /\ (ctx'[s] # "cancelled" \/ ~At(s, tp, "idle")') => Passed(s, tp)'
      /\ worker'[s][tp].pc \in {"commit", "drainCommit", "txnCommit"} => Passed(s, tp)'
  BY <1>3 DEF WorkerSound, At
<1>7. /\ worker'[s][tp].pc \in {"ack", "commit", "drainCommit"} => JobCovered(s, tp)'
      /\ At(s, tp, "drain")' /\ Live(s)' /\ Assigned(s, tp)' => JobCovered(s, tp)'
  BY <1>5 DEF WorkerSound, At, Live
<1> QED
  BY <1>2, <1>6, <1>7 DEF WorkerSound

\* A worker that moves stays sound.
LEMMA SoundMoved ==
    ASSUME DeliveryInv, TypeInv', NEW s \in Sessions, NEW tp \in Subscribed,
           CoverKept, SoundMove(s, tp), UNCHANGED <<fetch, revoked, ctx>>,
           WorkerMoves(s, tp)
    PROVE  WorkerSound(s, tp)'
<1>1. TypeInv /\ WorkerSound(s, tp)
  BY DEF DeliveryInv, WorkersSound
<1>2. PICK o \in Nat : o = worker[s][tp].off
  BY <1>1, RangeFacts DEF WorkerSound
<1>3. /\ \A n \in Nat : n < o => n < Len(log[tp])
      /\ ~At(s, tp, "idle") => o < Len(log[tp])
  BY <1>1, <1>2, RangeFacts DEF WorkerSound
<1>4. Passed(s, tp) => \A n \in Nat : n < o => Covered(tp, n)'
  BY <1>2, <1>3 DEF Passed, CoverKept
<1>5. fetch[s][tp] # Unpolled
  <2>1. fetch[s][tp] = Unpolled => At(s, tp, "idle")
    BY <1>1 DEF TypeInv, JobsExist
  <2> QED
    BY <2>1 DEF WorkerMoves
<1>6. Assigned(s, tp)' = Assigned(s, tp) /\ Live(s)' = Live(s)
  BY DEF Assigned, Live
<1>7. ASSUME worker'[s][tp].off = o, Passed(s, tp)
      PROVE  Passed(s, tp)'
  BY <1>4, <1>7 DEF Passed
<1>8. ASSUME worker'[s][tp].off = o, Covered(tp, o)'
      PROVE  JobCovered(s, tp)'
  BY <1>8 DEF JobCovered, Covered, IdAt, Record
<1>9. CASE Stays(s, tp)
  <2>1. Assigned(s, tp) => Passed(s, tp)
    BY <1>1, <1>9 DEF Stays, WorkerSound, Live
  <2>2. ctx[s] # "new"
    BY <1>1, <1>9 DEF Stays, WorkerSound, Live
  <2>3. Assigned(s, tp) => Passed(s, tp)'
    BY <1>2, <1>7, <1>9, <2>1 DEF Stays
  <2> QED
    BY <1>5, <1>6, <1>9, <2>2, <2>3 DEF Stays, WorkerSound, At
<1>10. CASE Proceeds(s, tp)
  <2>1. worker'[s][tp].off = o /\ ctx[s] # "new" /\ (Assigned(s, tp) => Passed(s, tp))
    BY <1>1, <1>2, <1>10 DEF Proceeds, WorkerSound
  <2>2. Assigned(s, tp) => Passed(s, tp)'
    BY <1>7, <2>1
  <2>3. JobCovered(s, tp)'
    BY <1>2, <1>8, <1>10, <2>1 DEF Proceeds
  <2> QED
    BY <1>5, <1>6, <1>10, <2>1, <2>2, <2>3 DEF Proceeds, WorkerSound, At
<1>11. CASE Stages(s, tp)
  <2>1. worker'[s][tp].off = o /\ ctx[s] # "new" /\ Passed(s, tp)
    BY <1>1, <1>2, <1>11 DEF Stages, WorkerSound
  <2>2. Passed(s, tp)'
    BY <1>7, <2>1
  <2> QED
    BY <1>5, <1>6, <1>11, <2>1, <2>2 DEF Stages, WorkerSound, At
<1>12. CASE Leaves(s, tp)
  <2>1. ctx[s] # "new" /\ (Assigned(s, tp) => Passed(s, tp))
    BY <1>1, <1>12 DEF Leaves, WorkerSound
  <2>2. Covered(tp, o)' \/ ~Assigned(s, tp) \/ ctx[s] = "cancelled"
    BY <1>2, <1>12 DEF Leaves
  <2>3. CASE worker'[s][tp].pc = "drain" /\ worker'[s][tp].off = o
    <3>1. Assigned(s, tp) => Passed(s, tp)'
      BY <1>7, <2>1, <2>3
    <3>2. Live(s) /\ Assigned(s, tp) => JobCovered(s, tp)'
      BY <1>8, <2>2, <2>3 DEF Live
    <3> QED
      BY <1>5, <1>6, <2>1, <2>3, <3>1, <3>2 DEF WorkerSound, At
  <2>4. CASE worker'[s][tp].pc = "idle" /\ worker'[s][tp].off = o + 1
    <3>1. Assigned(s, tp) /\ ctx[s] # "cancelled" => Passed(s, tp)'
      <4> SUFFICES ASSUME Assigned(s, tp), ctx[s] # "cancelled",
                          NEW n \in Nat, n < worker'[s][tp].off
                   PROVE  Covered(tp, n)'
        BY DEF Passed
      <4>1. n < o \/ n = o
        BY <2>4
      <4> QED
        BY <1>4, <2>1, <2>2, <4>1
    <3> QED
      BY <1>5, <1>6, <2>1, <2>4, <3>1 DEF WorkerSound, At
  <2> QED
    BY <1>2, <1>12, <2>3, <2>4 DEF Leaves
<1> QED
  BY <1>9, <1>10, <1>11, <1>12 DEF SoundMove

(***************************************************************************)
(* Attempts, claims and accepted messages                                  *)
(***************************************************************************)
Routes(s, tp) ==
    /\ worker[s][tp].pc \in {"publish", "txnCommit"}
    /\ AppendTo(Destination(worker[s][tp].att), Routed(s, tp))

LEMMA WorkerLog ==
    ASSUME NEW s \in Sessions, NEW tp \in Subscribed, Worker(s, tp)
    PROVE  log' = log \/ Routes(s, tp)
  BY DEF Worker, Take, WaitElapsed, Claim, ClaimError, HandlerOk, HandlerErr,
      BackoffElapsed, CloseClaim, Route, Publish, BeginTxn, StageTxn, CommitTxn,
      Ack, Commit, Drain, DrainCommit, brokerVars, Routes, TxnEffect, At

LEMMA WorkerFate ==
    ASSUME NEW s \in Sessions, NEW tp \in Subscribed, Worker(s, tp)
    PROVE  \/ fate' = fate
           \/ ~At(s, tp, "idle") /\ \E f \in Fates : Decide(Id(s, tp), f)
  BY DEF Worker, Take, WaitElapsed, Claim, ClaimError, HandlerOk, HandlerErr,
      BackoffElapsed, CloseClaim, Route, Publish, BeginTxn, StageTxn, CommitTxn,
      Ack, Commit, Drain, DrainCommit, brokerVars, Abandon, At, Fates

LEMMA WorkerAtt ==
    ASSUME TypeInv, AttemptsMatch, NEW s \in Sessions, NEW tp \in Subscribed,
           Worker(s, tp),
           worker'[s][tp].pc \notin {"idle", "drain", "drainCommit"}
    PROVE  Stage(tp) <= worker'[s][tp].att
<1>1. worker[s][tp].att \in Nat /\ Stage(tp) \in Nat /\ tp \in TPs
  BY TopicFacts, TopicsAssumption DEF TypeInv, TypeOK
<1>2. CASE Take(s, tp)
  <2>1. /\ worker'[s][tp].att = log[tp][worker[s][tp].off + 1].attempt
        /\ worker[s][tp].off < Len(log[tp])
    BY <1>2, TakeMoves
  <2>2. worker[s][tp].off + 1 \in 1 .. Len(log[tp])
    BY <1>1, <2>1, TypedFacts DEF LogsTyped, TypeInv, TypeOK
  <2> QED
    BY <1>1, <2>1, <2>2 DEF AttemptsMatch
<1>3. CASE HandlerErr(s, tp)
  <2>1. /\ Stage(tp) <= worker[s][tp].att
        /\ worker[s][tp].att <= worker'[s][tp].att
    BY <1>3, HandlerErrMoves DEF HandlerErr, At, AttemptsMatch
  <2>2. worker'[s][tp].att \in Nat
    BY <1>3, HandlerErrMoves, TopicsAssumption
    DEF WorkerMoves, Moves, WorkerStates
  <2> QED
    BY <1>1, <2>1, <2>2
<1>4. CASE /\ worker[s][tp].pc \notin {"idle", "drain", "drainCommit"}
           /\ \E pc \in PCs : Goto(s, tp, pc)
  BY <1>4, GotoMoves DEF AttemptsMatch, At
<1>5. CASE Drain(s, tp) \/ DrainCommit(s, tp)
  <2>1. CASE Goto(s, tp, "drainCommit")
    BY <1>5, <2>1, GotoMoves DEF Drain, DrainCommit, At, PCs
  <2>2. CASE worker' = [worker EXCEPT ![s][tp] = NextJob(@)]
    BY <1>5, <2>2, NextJobMoves DEF Drain, DrainCommit, At
  <2> QED
    BY <1>5, <2>1, <2>2 DEF Drain, DrainCommit
<1>6. CASE Finish(s, tp) /\ ~At(s, tp, "idle")
  BY <1>6, FinishMoves
<1> QED
  BY <1>2, <1>3, <1>4, <1>5, <1>6
  DEF Worker, WaitElapsed, Claim, ClaimError, HandlerOk,
      BackoffElapsed, CloseClaim, Route, Publish, BeginTxn, StageTxn, CommitTxn,
      Ack, Commit, Ready, Abandon, At, PCs

\* Whatever is appended, its attempt matches and its message was accepted.
LEMMA RoutedMatches ==
    ASSUME TypeInv, AttemptsMatch, NothingInvented, LogsGrow,
           NEW s \in Sessions, NEW tp \in Subscribed, Routes(s, tp)
    PROVE  /\ \A t \in Subscribed : \A i \in 1 .. Len(log'[t]) :
                log'[t][i].attempt = Stage(t)
           /\ \A t \in TPs : \A i \in 1 .. Len(log'[t]) : Accepted(log'[t][i].id)
<1>1. ~At(s, tp, "idle") /\ tp \in TPs
  BY TopicFacts DEF Routes, At
<1>2. PICK up \in TPs : up = Destination(worker[s][tp].att)
  BY <1>1, JobFacts, DestinationFacts
<1>3. /\ Routed(s, tp) \in Recs
      /\ AppendTo(up, Routed(s, tp))
      /\ Stage(up) # Dlq => Routed(s, tp).attempt = Stage(up)
  BY <1>1, <1>2, JobFacts, DestinationFacts DEF Routes, Routed
<1>4. Accepted(Routed(s, tp).id)
  <2>1. /\ worker[s][tp].off + 1 \in 1 .. Len(log[tp])
        /\ Id(s, tp) = log[tp][worker[s][tp].off + 1].id
    BY <1>1, JobFacts, TypedFacts DEF LogsTyped, Id
  <2> QED
    BY <1>1, <2>1 DEF NothingInvented, Routed
<1>5. /\ \A t \in TPs : t # up => log'[t] = log[t]
      /\ Len(log[up]) \in Nat
      /\ Len(log'[up]) = Len(log[up]) + 1
      /\ log'[up][Len(log[up]) + 1] = Routed(s, tp)
      /\ \A i \in 1 .. Len(log[up]) : log'[up][i] = log[up][i]
  BY <1>3, AppendFacts, TypedFacts DEF LogsTyped, LogsGrow
<1>6. ASSUME NEW t \in Subscribed, NEW i \in 1 .. Len(log'[t])
      PROVE  log'[t][i].attempt = Stage(t)
  <2>1. t \in TPs /\ Stage(t) # Dlq
    BY TopicFacts DEF Subscribed
  <2>2. CASE t # up
    BY <1>5, <2>1, <2>2 DEF AttemptsMatch
  <2>3. CASE t = up /\ i \in 1 .. Len(log[up])
    BY <1>5, <2>3 DEF AttemptsMatch
  <2>4. CASE t = up /\ i = Len(log[up]) + 1
    BY <1>3, <1>5, <2>1, <2>4
  <2> QED
    BY <1>5, <1>6, <2>2, <2>3, <2>4
<1>7. ASSUME NEW t \in TPs, NEW i \in 1 .. Len(log'[t])
      PROVE  Accepted(log'[t][i].id)
  <2>1. CASE t # up
    BY <1>5, <2>1, <1>7 DEF NothingInvented
  <2>2. CASE t = up /\ i \in 1 .. Len(log[up])
    BY <1>5, <2>2 DEF NothingInvented
  <2>3. CASE t = up /\ i = Len(log[up]) + 1
    BY <1>4, <1>5, <2>3
  <2> QED
    BY <1>5, <1>7, <2>1, <2>2, <2>3
<1> QED
  BY <1>6, <1>7

LEMMA WorkerRecords ==
    ASSUME DeliveryInv, TypeInv', NEW s \in Sessions, NEW tp \in Subscribed,
           Worker(s, tp), LogsGrow, FateGrows
    PROVE  AttemptsMatch' /\ NothingInvented'
<1>1. TypeInv /\ AttemptsMatch /\ NothingInvented
  BY DEF DeliveryInv
<1>2. /\ \A t \in Subscribed : \A i \in 1 .. Len(log'[t]) :
           log'[t][i].attempt = Stage(t)
      /\ \A t \in TPs : \A i \in 1 .. Len(log'[t]) : Accepted(log'[t][i].id)
  <2>1. CASE log' = log
    BY <1>1, <2>1 DEF AttemptsMatch, NothingInvented
  <2>2. CASE Routes(s, tp)
    BY <1>1, <2>2, RoutedMatches
  <2> QED
    BY <2>1, <2>2, WorkerLog
<1>3. AttemptsMatch'
  <2> SUFFICES ASSUME NEW s2 \in Sessions, NEW tp2 \in Subscribed,
                      worker'[s2][tp2].pc \notin {"idle", "drain", "drainCommit"}
               PROVE  Stage(tp2) <= worker'[s2][tp2].att
    BY <1>2 DEF AttemptsMatch
  <2>1. CASE s2 = s /\ tp2 = tp
    BY <1>1, <2>1, WorkerAtt
  <2>2. CASE <<s2, tp2>> # <<s, tp>>
    <3>1. worker'[s2][tp2] = worker[s2][tp2]
      BY <1>1, <2>2, WorkerMovesAlways DEF WorkerMoves, Moves
    <3> QED
      BY <1>1, <3>1 DEF AttemptsMatch
  <2> QED
    BY <2>1, <2>2
<1>4. \A m \in Msgs : fate'[m] # {} => Accepted(m)
  <2> SUFFICES ASSUME NEW m \in Msgs, fate'[m] # {} PROVE Accepted(m)
    OBVIOUS
  <2>1. CASE fate'[m] = fate[m]
    BY <1>1, <2>1 DEF NothingInvented
  <2>2. CASE ~At(s, tp, "idle") /\ m = Id(s, tp)
    <3>1. /\ worker[s][tp].off + 1 \in 1 .. Len(log[tp])
          /\ Id(s, tp) = log[tp][worker[s][tp].off + 1].id
          /\ tp \in TPs
      BY <1>1, <2>2, JobFacts, TopicFacts, TypedFacts DEF LogsTyped, Id
    <3> QED
      BY <1>1, <2>2, <3>1 DEF NothingInvented
  <2>3. fate \in [Msgs -> SUBSET Fates]
    BY <1>1 DEF TypeInv, TypeOK, Fates
  <2> QED
    BY <2>1, <2>2, <2>3, WorkerFate DEF Decide
<1>5. \A m \in Msgs : Accepted(m) => Accepted(m)'
  BY <1>1, GrowthFacts
<1>6. NothingInvented'
  <2>1. ASSUME NEW t \in TPs, NEW i \in 1 .. Len(log'[t])
        PROVE  \E m \in Msgs : m = log'[t][i].id /\ Accepted(m)'
    <3>1. log'[t] \in Seq(Recs)
      BY DEF LogsGrow
    <3>2. log'[t][i] \in Recs
      BY <2>1, <3>1
    <3>3. PICK m \in Msgs : m = log'[t][i].id
      BY <3>2 DEF Recs
    <3> QED
      BY <1>2, <1>5, <3>3
  <2>2. \A m \in Msgs : fate'[m] # {} => Accepted(m)'
    BY <1>4, <1>5
  <2>3. (\A t \in TPs : \A i \in 1 .. Len(log[t]) : Accepted(log[t][i].id))'
    <3> SUFFICES ASSUME NEW t \in TPs, NEW i \in 1 .. Len(log'[t])
                 PROVE  (Accepted(log[t][i].id))'
      OBVIOUS
    <3>1. PICK m \in Msgs : m = log'[t][i].id /\ Accepted(m)'
      BY <2>1
    <3> QED
      BY <3>1 DEF Accepted, Contains
  <2> QED
    BY <2>2, <2>3 DEF NothingInvented
<1> QED
  BY <1>3, <1>6

\* Only a handler that returned nil leads to Complete.
LEMMA CompletesHandled ==
    ASSUME TypeInv, NEW s \in Sessions, NEW tp \in Subscribed,
           Worker(s, tp), worker'[s][tp].pc = "complete"
    PROVE  /\ ~At(s, tp, "idle")
           /\ worker'[s][tp].off = worker[s][tp].off
           /\ Decide(Id(s, tp), "handled")
<1>1. CASE HandlerOk(s, tp)
  BY <1>1, GotoMoves DEF HandlerOk, At, PCs
<1>2. CASE /\ ~At(s, tp, "idle")
           /\ \E pc \in PCs \ {"complete"} : Goto(s, tp, pc)
  BY <1>2, GotoMoves
<1>3. CASE Take(s, tp) \/ HandlerErr(s, tp)
  BY <1>3, TakeMoves, HandlerErrMoves
<1>4. CASE /\ ~At(s, tp, "idle")
           /\ Finish(s, tp) \/ worker' = [worker EXCEPT ![s][tp] = NextJob(@)]
  BY <1>4, FinishMoves, NextJobMoves
<1> QED
  BY <1>1, <1>2, <1>3, <1>4
  DEF Worker, WaitElapsed, Claim, ClaimError,
      BackoffElapsed, CloseClaim, Route, Publish, BeginTxn, StageTxn, CommitTxn,
      Ack, Commit, Drain, DrainCommit, Ready, Abandon, At, PCs

\* What a busy worker works on does not change under it.
LEMMA IdKept ==
    ASSUME TypeInv, LogsGrow, NEW s \in Sessions, NEW tp \in Subscribed,
           ~At(s, tp, "idle"), worker'[s][tp].off = worker[s][tp].off
    PROVE  Id(s, tp)' = Id(s, tp)
<1>1. /\ worker[s][tp].off + 1 \in 1 .. Len(log[tp])
      /\ tp \in TPs
  BY JobFacts, TopicFacts, TypedFacts DEF LogsTyped
<1>2. log'[tp][worker[s][tp].off + 1] = log[tp][worker[s][tp].off + 1]
  BY <1>1 DEF LogsGrow
<1> QED
  BY <1>2 DEF Id, Job, Record

LEMMA WorkerClaims ==
    ASSUME DeliveryInv, NEW s \in Sessions, NEW tp \in Subscribed,
           Worker(s, tp), LogsGrow, FateGrows
    PROVE  ClaimsTruthful'
<1>1. /\ TypeInv /\ ClaimsTruthful
      /\ entry \in [Msgs -> Store!EntryStates] /\ fate \in [Msgs -> SUBSET Fates]
  BY DEF DeliveryInv, TypeInv, TypeOK, Store!StoreTypeOK, Fates
<1>2. ASSUME NEW m \in Msgs, entry'[m] = "completed"
      PROVE  "handled" \in fate'[m]
  <2>1. CASE entry[m] = "completed"
    BY <1>1, <2>1 DEF ClaimsTruthful, FateGrows
  <2>2. CASE entry[m] # "completed"
    <3>1. At(s, tp, "complete") /\ Store!Complete(<<s, tp>>, Id(s, tp))
      <4>1. ~At(s, tp, "idle") => Id(s, tp) \in Msgs
        BY <1>1, JobFacts
      <4>2. \/ UNCHANGED storeVars
            \/ /\ ~At(s, tp, "idle")
               /\ \/ Store!TryStart(<<s, tp>>, Id(s, tp))
                  \/ Store!Fail(<<s, tp>>, Id(s, tp))
                  \/ /\ At(s, tp, "complete")
                     /\ Store!Complete(<<s, tp>>, Id(s, tp))
        BY DEF Worker, Take, WaitElapsed, Claim, ClaimError, HandlerOk, HandlerErr,
          BackoffElapsed, CloseClaim, Route, Publish, BeginTxn, StageTxn,
          CommitTxn, Ack, Commit, Drain, DrainCommit, At
      <4>3. CASE UNCHANGED storeVars
        BY <1>2, <2>2, <4>3 DEF storeVars
      <4>4. CASE ~At(s, tp, "idle") /\ Store!TryStart(<<s, tp>>, Id(s, tp))
        BY <1>1, <1>2, <2>2, <4>1, <4>4 DEF Store!TryStart, Store!storeVars
      <4>5. CASE ~At(s, tp, "idle") /\ Store!Fail(<<s, tp>>, Id(s, tp))
        BY <1>1, <1>2, <2>2, <4>1, <4>5 DEF Store!Fail
      <4> QED
        BY <4>2, <4>3, <4>4, <4>5
    <3>2. m = Id(s, tp)
      BY <1>1, <1>2, <2>2, <3>1 DEF Store!Complete
    <3> QED
      BY <1>1, <3>1, <3>2 DEF ClaimsTruthful, FateGrows
  <2> QED
    BY <2>1, <2>2
<1>3. ASSUME NEW s2 \in Sessions, NEW tp2 \in Subscribed, At(s2, tp2, "complete")'
      PROVE  "handled" \in fate'[Id(s2, tp2)']
  <2>1. CASE s2 = s /\ tp2 = tp
    <3>1. /\ ~At(s, tp, "idle")
          /\ worker'[s][tp].off = worker[s][tp].off
          /\ Decide(Id(s, tp), "handled")
      BY <1>1, <1>3, <2>1, CompletesHandled DEF At
    <3>2. Id(s, tp)' = Id(s, tp) /\ Id(s, tp) \in Msgs
      BY <1>1, <3>1, IdKept, JobFacts
    <3>3. "handled" \in fate'[Id(s, tp)]
      BY <1>1, <3>1, <3>2 DEF Decide
    <3> QED
      BY <2>1, <3>2, <3>3
  <2>2. CASE <<s2, tp2>> # <<s, tp>>
    <3>1. worker'[s2][tp2] = worker[s2][tp2]
      BY <1>1, <2>2, WorkerMovesAlways DEF WorkerMoves, Moves
    <3>2. At(s2, tp2, "complete") /\ ~At(s2, tp2, "idle")
      BY <1>3, <3>1 DEF At
    <3>3. Id(s2, tp2)' = Id(s2, tp2) /\ Id(s2, tp2) \in Msgs
      BY <1>1, <3>1, <3>2, IdKept, JobFacts
    <3>4. "handled" \in fate'[Id(s2, tp2)]
      BY <1>1, <3>2, <3>3 DEF ClaimsTruthful, FateGrows
    <3> QED
      BY <3>3, <3>4
  <2> QED
    BY <2>1, <2>2
<1> QED
  BY <1>2, <1>3 DEF ClaimsTruthful

LEMMA WorkerKeepsDelivery ==
    ASSUME DeliveryInv, NEW s \in Sessions, NEW tp \in Subscribed, Worker(s, tp)
    PROVE  DeliveryInv'
<1>1. TypeInv /\ TypeInv'
  BY WorkerKeepsTypeInv DEF DeliveryInv
<1>2. LogsGrow /\ FateGrows /\ CoverKept /\ OffsetsSound' /\ SoundMove(s, tp)
  BY WorkerSafe DEF SafeStep
<1>3. WorkerMoves(s, tp) /\ UNCHANGED <<fetch, revoked, ctx>>
  BY <1>1, WorkerMovesAlways, WorkerRest
<1>4. WorkersSound'
  <2> SUFFICES ASSUME NEW s2 \in Sessions, NEW tp2 \in Subscribed
               PROVE  WorkerSound(s2, tp2)'
    BY DEF WorkersSound
  <2>1. CASE s2 = s /\ tp2 = tp
    BY <1>1, <1>2, <1>3, <2>1, SoundMoved
  <2>2. CASE <<s2, tp2>> # <<s, tp>>
    <3>1. worker'[s2][tp2] = worker[s2][tp2]
      BY <1>3, <2>2 DEF WorkerMoves, Moves
    <3>2. WorkerSound(s2, tp2) /\ (Assigned(s2, tp2)' => Assigned(s2, tp2))
      BY <1>3 DEF DeliveryInv, WorkersSound, Assigned
    <3> QED
      BY <1>1, <1>2, <1>3, <3>1, <3>2, SoundKept
  <2> QED
    BY <2>1, <2>2
<1>5. AttemptsMatch' /\ NothingInvented' /\ ClaimsTruthful'
  BY <1>1, <1>2, WorkerRecords, WorkerClaims
<1> QED
  BY <1>1, <1>2, <1>4, <1>5 DEF DeliveryInv

(***************************************************************************)
(* Users, sessions and the polling loop                                    *)
(***************************************************************************)
LEMMA OthersStep ==
    ASSUME DeliveryInv, TypeInv', LogsGrow, UNCHANGED <<offsets, fate>>,
           \A m \in Msgs : entry'[m] = "completed" => entry[m] = "completed",
           \A t \in Subscribed : \A i \in 1 .. Len(log'[t]) :
             log'[t][i].attempt = Stage(t),
           (\A t \in TPs : \A i \in 1 .. Len(log[t]) : Accepted(log[t][i].id))',
           WorkersSound',
           \A s \in Sessions, tp \in Subscribed :
             worker'[s][tp] = worker[s][tp] \/ worker'[s][tp].pc = "idle"
    PROVE  DeliveryInv'
<1>1. TypeInv /\ FateGrows
  BY SameFate DEF DeliveryInv
<1>2. OffsetsSound'
  BY <1>1, QuietCover DEF DeliveryInv
<1>3. AttemptsMatch'
  BY DEF DeliveryInv, AttemptsMatch
<1>4. ClaimsTruthful'
  <2>1. \A m \in Msgs : entry'[m] = "completed" => "handled" \in fate'[m]
    BY DEF DeliveryInv, ClaimsTruthful
  <2>2. ASSUME NEW s \in Sessions, NEW tp \in Subscribed, At(s, tp, "complete")'
        PROVE  "handled" \in fate'[Id(s, tp)']
    <3>1. worker'[s][tp] = worker[s][tp] /\ At(s, tp, "complete") /\ ~At(s, tp, "idle")
      BY <2>2 DEF At
    <3>2. Id(s, tp)' = Id(s, tp)
      BY <1>1, <3>1, IdKept
    <3> QED
      BY <3>1, <3>2 DEF DeliveryInv, ClaimsTruthful
  <2> QED
    BY <2>1, <2>2 DEF ClaimsTruthful
<1>5. NothingInvented'
  <2>1. \A m \in Msgs : Accepted(m) => Accepted(m)'
    BY <1>1, GrowthFacts
  <2>2. \A m \in Msgs : fate'[m] # {} => Accepted(m)'
    BY <2>1 DEF DeliveryInv, NothingInvented
  <2> QED
    BY <2>2 DEF NothingInvented
<1> QED
  BY <1>2, <1>3, <1>4, <1>5 DEF DeliveryInv

\* The same when no record is published either.
LEMMA SilentStep ==
    ASSUME DeliveryInv, TypeInv', UNCHANGED <<log, offsets, fate>>,
           \A m \in Msgs : entry'[m] = "completed" => entry[m] = "completed",
           WorkersSound',
           \A s \in Sessions, tp \in Subscribed :
             worker'[s][tp] = worker[s][tp] \/ worker'[s][tp].pc = "idle"
    PROVE  DeliveryInv'
<1>1. LogsGrow
  BY NoAppendFacts, TypedFacts DEF DeliveryInv
<1>2. /\ \A t \in Subscribed : \A i \in 1 .. Len(log'[t]) :
           log'[t][i].attempt = Stage(t)
      /\ (\A t \in TPs : \A i \in 1 .. Len(log[t]) : Accepted(log[t][i].id))'
  BY DEF DeliveryInv, AttemptsMatch, NothingInvented, Accepted, Contains
<1> QED
  BY <1>1, <1>2, OthersStep

\* Sessions come, lose partitions and go.
LEMMA SessionsSound ==
    ASSUME DeliveryInv, LogsGrow, UNCHANGED <<offsets, fate, fetch, worker>>,
           \A s \in Sessions : \/ ctx'[s] = ctx[s]
                               \/ ctx'[s] = "cancelled"
                               \/ ctx[s] = "new" /\ ctx'[s] = "live",
           \A s \in Sessions, tp \in Subscribed :
             Assigned(s, tp)' => Assigned(s, tp)
    PROVE  WorkersSound'
<1>1. TypeInv /\ OffsetsSound /\ CoverKept
  BY SameFate, QuietCover DEF DeliveryInv
<1> QED
  BY <1>1, SoundKept DEF DeliveryInv, WorkersSound

LEMMA EnvironmentKeepsDelivery == DeliveryInv /\ Environment => DeliveryInv'
<1> SUFFICES ASSUME DeliveryInv, Environment PROVE DeliveryInv'
  OBVIOUS
<1>1. TypeInv /\ TypeInv'
  BY EnvironmentKeepsTypeInv DEF DeliveryInv
<1>2. ASSUME NEW m \in Msgs, NEW p \in Partitions, UserPublish(m, p)
      PROVE  DeliveryInv'
  <2> DEFINE r == [id |-> m, attempt |-> 0, orig |-> << >>]
  <2>1. r \in Recs
    BY TopicsAssumption DEF Recs
  <2>2. PICK src \in TPs : src = <<Main, p>> /\ Stage(src) = Main
    BY TopicFacts
  <2>3. /\ LogsGrow
        /\ Len(log[src]) \in Nat
        /\ Len(log'[src]) = Len(log[src]) + 1
        /\ log'[src][Len(log[src]) + 1] = r
        /\ \A t \in TPs : t # src => log'[t] = log[t]
        /\ \A i \in 1 .. Len(log[src]) : log'[src][i] = log[src][i]
    <3>1. AppendTo(src, r)
      BY <1>2, <2>2 DEF UserPublish
    <3>2. LogsTyped /\ log[src] \in Seq(Recs)
      BY <1>1, TypedFacts DEF LogsTyped
    <3>3. /\ LogsGrow
          /\ Len(log'[src]) = Len(log[src]) + 1
          /\ log'[src][Len(log[src]) + 1] = r
          /\ \A t \in TPs : t # src => log'[t] = log[t]
      BY <2>1, <3>1, <3>2, AppendFacts
    <3> QED
      BY <3>2, <3>3 DEF LogsGrow
  <2>4. ASSUME NEW t \in TPs, NEW i \in 1 .. Len(log'[t])
        PROVE  \/ i \in 1 .. Len(log[t]) /\ log'[t][i] = log[t][i]
               \/ t = src /\ log'[t][i] = r
    <3>1. CASE t # src
      BY <2>3, <2>4, <3>1
    <3>2. CASE t = src /\ i \in 1 .. Len(log[src])
      BY <2>3, <3>2
    <3>3. CASE t = src /\ i = Len(log[src]) + 1
      BY <2>3, <3>3
    <3>4. t = src => i \in 1 .. Len(log[src]) \/ i = Len(log[src]) + 1
      BY <2>3, <2>4
    <3> QED
      BY <3>1, <3>2, <3>3, <3>4
  <2>5. \A t \in Subscribed : \A i \in 1 .. Len(log'[t]) :
          log'[t][i].attempt = Stage(t)
    BY <2>2, <2>4, TopicFacts DEF DeliveryInv, AttemptsMatch, Main
  <2>6. FateGrows /\ (\A n \in Msgs : Accepted(n) => Accepted(n)') /\ Accepted(m)'
    <3>1. FateGrows
      BY <1>1, <1>2, SameFate DEF UserPublish
    <3>2. Len(log[src]) + 1 \in 1 .. Len(log'[src])
      BY <2>3
    <3>3. log'[src][Len(log[src]) + 1].id = m
      BY <2>3
    <3>4. Contains(src, m)'
      BY <3>2, <3>3 DEF Contains
    <3> QED
      BY <1>1, <2>2, <2>3, <3>1, <3>4, GrowthFacts DEF Accepted
  <2>7. (\A t \in TPs : \A i \in 1 .. Len(log[t]) : Accepted(log[t][i].id))'
    <3> SUFFICES ASSUME NEW t \in TPs, NEW i \in 1 .. Len(log'[t])
                 PROVE  (Accepted(log[t][i].id))'
      OBVIOUS
    <3>1. log'[t][i] \in Recs
      BY <2>3 DEF LogsGrow
    <3>2. PICK n \in Msgs : n = log'[t][i].id
      BY <3>1 DEF Recs
    <3>3. Accepted(n) \/ n = m
      BY <2>4, <3>2 DEF DeliveryInv, NothingInvented
    <3>4. Accepted(n)'
      BY <2>6, <3>3
    <3> QED
      BY <3>2, <3>4 DEF Accepted, Contains
  <2>8. WorkersSound'
    BY <1>2, <2>3, SessionsSound DEF UserPublish, Assigned
  <2> QED
    BY <1>1, <1>2, <2>3, <2>5, <2>7, <2>8, OthersStep DEF UserPublish, storeVars
<1>3. ASSUME NEW s \in Sessions, Run(s) \/ Cancel(s)
      PROVE  DeliveryInv'
  <2>1. /\ UNCHANGED <<log, offsets, fate, fetch, worker, entry, revoked>>
        /\ \A s2 \in Sessions : \/ ctx'[s2] = ctx[s2]
                                \/ ctx'[s2] = "cancelled"
                                \/ ctx[s2] = "new" /\ ctx'[s2] = "live"
    BY <1>1, <1>3 DEF Run, Cancel, brokerVars, storeVars, TypeInv, TypeOK
  <2>2. WorkersSound'
    BY <1>1, <2>1, NoAppendFacts, TypedFacts, SessionsSound DEF Assigned
  <2> QED
    BY <1>1, <2>1, <2>2, SilentStep
<1>4. ASSUME NEW s \in Sessions, NEW tp \in Subscribed, RevokePartition(s, tp)
      PROVE  DeliveryInv'
  <2>1. /\ UNCHANGED <<log, offsets, fate, fetch, worker, entry, ctx>>
        /\ \A s2 \in Sessions, t \in Subscribed : Assigned(s2, t)' => Assigned(s2, t)
    BY <1>1, <1>4 DEF RevokePartition, Revoke, Assigned, storeVars, TypeInv, TypeOK
  <2>2. WorkersSound'
    BY <1>1, <2>1, NoAppendFacts, TypedFacts, SessionsSound
  <2> QED
    BY <1>1, <2>1, <2>2, SilentStep
<1>5. ASSUME Fence
      PROVE  DeliveryInv'
  <2>1. UNCHANGED <<log, offsets, fate, fetch, worker, entry, ctx, revoked>>
    BY <1>5 DEF Fence, storeVars
  <2>2. WorkersSound'
    BY <1>1, <2>1, NoAppendFacts, TypedFacts, SessionsSound DEF Assigned
  <2> QED
    BY <1>1, <2>1, <2>2, SilentStep
<1>6. ASSUME NEW m \in Msgs, LeaseExpires(m)
      PROVE  DeliveryInv'
  <2>1. /\ UNCHANGED <<log, offsets, fate, fetch, worker, ctx, revoked>>
        /\ \A n \in Msgs : entry'[n] = "completed" => entry[n] = "completed"
    BY <1>1, <1>6 DEF LeaseExpires, Store!Expire, brokerVars, TypeInv, TypeOK,
                      Store!StoreTypeOK
  <2>2. WorkersSound'
    BY <1>1, <2>1, NoAppendFacts, TypedFacts, SessionsSound DEF Assigned
  <2> QED
    BY <1>1, <2>1, <2>2, SilentStep
<1> QED
  BY <1>2, <1>3, <1>4, <1>5, <1>6 DEF Environment

\* A worker starts at the group's offset: what it has not seen is covered.
LEMMA DispatcherKeepsDelivery ==
    ASSUME DeliveryInv, NEW s \in Sessions, Dispatcher(s)
    PROVE  DeliveryInv'
<1>1. TypeInv /\ TypeInv' /\ OffsetsSound
  BY DispatcherKeepsTypeInv DEF DeliveryInv
<1>2. UNCHANGED <<log, offsets, fate, entry, ctx, revoked>>
  BY DEF Dispatcher, Poll, Send, brokerVars, storeVars
<1>3. CASE Send(s)
  <2>1. UNCHANGED <<fetch, worker>>
    BY <1>3 DEF Send, brokerVars
  <2>2. WorkersSound'
    BY <1>1, <1>2, <2>1, NoAppendFacts, TypedFacts, SessionsSound DEF Assigned
  <2> QED
    BY <1>1, <1>2, <2>1, <2>2, SilentStep
<1>4. CASE Poll(s)
  <2> PICK tp \in Subscribed :
         /\ PollFrom(s, tp)
         /\ worker' = IF fetch[s][tp] = Unpolled
                        THEN [worker EXCEPT ![s][tp].off = Position(s, tp)]
                        ELSE worker
    BY <1>4 DEF Poll
  <2>1. /\ tp \in TPs
        /\ offsets[tp] \in Nat /\ fetch[s][tp] \in Nat \cup {-1}
        /\ Position(s, tp) \in Nat
    BY <1>1, TopicFacts DEF TypeInv, TypeOK, Position, Unpolled
  <2>2. /\ fetch'[s][tp] # Unpolled
        /\ \A s2 \in Sessions, t \in Subscribed :
             <<s2, t>> # <<s, tp>> => fetch'[s2][t] = fetch[s2][t]
    BY <1>1, <2>1, TopicFacts DEF PollFrom, TypeInv, TypeOK, Unpolled
  <2>3. /\ \A s2 \in Sessions, t \in Subscribed :
             <<s2, t>> # <<s, tp>> => worker'[s2][t] = worker[s2][t]
        /\ fetch[s][tp] # Unpolled => worker'[s][tp] = worker[s][tp]
        /\ fetch[s][tp] = Unpolled => /\ worker[s][tp].pc = "idle"
                                      /\ worker'[s][tp].pc = "idle"
                                      /\ worker'[s][tp].off = offsets[tp]
    <3>1. CASE fetch[s][tp] = Unpolled
      <4> DEFINE w == [worker[s][tp] EXCEPT !.off = Position(s, tp)]
      <4>1. worker[s][tp] \in WorkerStates /\ worker[s][tp].pc = "idle"
        BY <1>1, <3>1, TypedFacts DEF WorkersTyped, TypeInv, JobsExist, At
      <4>2. /\ w \in WorkerStates /\ w.pc = "idle" /\ w.off = offsets[tp]
        BY <2>1, <3>1, <4>1 DEF WorkerStates, Position
      <4>3. worker' = [worker EXCEPT ![s][tp] = w]
        BY <1>1, <3>1, TypedFacts DEF WorkersTyped
      <4>4. Moves(s, tp, w)
        BY <1>1, <4>2, <4>3, MoveFacts, TypedFacts
      <4> QED
        BY <3>1, <4>1, <4>2, <4>4 DEF Moves
    <3>2. CASE fetch[s][tp] # Unpolled
      BY <3>2
    <3> QED
      BY <3>1, <3>2
  <2>4. CoverKept
    BY <1>1, <1>2, NoAppendFacts, TypedFacts, SameFate, QuietCover
  <2>5. ASSUME NEW s2 \in Sessions, NEW t \in Subscribed,
               worker'[s2][t] = worker[s2][t]
        PROVE  WorkerSound(s2, t)'
    <3>1. fetch'[s2][t] = Unpolled => fetch[s2][t] = Unpolled
      BY <2>2
    <3> QED
      BY <1>1, <1>2, <2>4, <2>5, <3>1, SoundKept DEF DeliveryInv, WorkersSound, Assigned
  <2>6. ASSUME fetch[s][tp] = Unpolled
        PROVE  WorkerSound(s, tp)'
    <3>1. \A n \in Nat : n < offsets[tp] => n < Len(log[tp])
      BY <1>1, <2>1, TypedFacts DEF TypeInv, TypeOK, LogsTyped
    <3>2. \A n \in Nat : n < offsets[tp] => Covered(tp, n)'
      BY <1>1, <2>4, <3>1 DEF OffsetsSound, CoverKept
    <3>3. Passed(s, tp)'
      BY <2>3, <2>6, <3>2 DEF Passed
    <3> QED
      BY <2>2, <2>3, <2>6, <3>3 DEF WorkerSound, At
  <2>7. WorkersSound'
    <3> SUFFICES ASSUME NEW s2 \in Sessions, NEW t \in Subscribed
                 PROVE  WorkerSound(s2, t)'
      BY DEF WorkersSound
    <3>1. CASE s2 = s /\ t = tp
      BY <2>3, <2>5, <2>6, <3>1
    <3>2. CASE <<s2, t>> # <<s, tp>>
      BY <2>3, <2>5, <3>2
    <3> QED
      BY <3>1, <3>2
  <2>8. \A s2 \in Sessions, t \in Subscribed :
          worker'[s2][t] = worker[s2][t] \/ worker'[s2][t].pc = "idle"
    BY <2>3
  <2> QED
    BY <1>1, <1>2, <2>7, <2>8, SilentStep
<1> QED
  BY <1>3, <1>4 DEF Dispatcher

LEMMA DeliveryStep == DeliveryInv /\ [Next]_vars => DeliveryInv'
<1> SUFFICES ASSUME DeliveryInv, [Next]_vars PROVE DeliveryInv'
  OBVIOUS
<1>1. CASE UNCHANGED vars
  <2>1. /\ UNCHANGED <<log, offsets, fate, fetch, worker, entry, ctx, revoked>>
        /\ TypeInv /\ TypeInv'
    BY <1>1, TypeStep DEF vars, brokerVars, storeVars, DeliveryInv
  <2>2. WorkersSound'
    BY <2>1, NoAppendFacts, TypedFacts, SessionsSound DEF Assigned
  <2> QED
    BY <2>1, <2>2, SilentStep
<1>2. CASE Next
  BY <1>2, EnvironmentKeepsDelivery, DispatcherKeepsDelivery, WorkerKeepsDelivery
  DEF Next
<1> QED
  BY <1>1, <1>2

LEMMA DeliveryInit == Init => DeliveryInv
<1> SUFFICES ASSUME Init PROVE DeliveryInv
  OBVIOUS
<1>1. TypeInv
  BY TypeInit
<1>2. /\ \A tp \in TPs : Len(log[tp]) = 0
      /\ \A s \in Sessions, tp \in Subscribed : /\ worker[s][tp].pc = "idle"
                                                /\ worker[s][tp].off = 0
      /\ \A tp \in TPs : offsets[tp] = 0
      /\ \A m \in Msgs : fate[m] = {} /\ entry[m] = "absent"
  BY DEF Init, BrokerInit, Store!StoreInit
<1>3. OffsetsSound
  BY <1>2, TopicFacts DEF OffsetsSound
<1>4. WorkersSound
  BY <1>2 DEF WorkersSound, WorkerSound, At, Passed
<1>5. AttemptsMatch /\ ClaimsTruthful /\ NothingInvented
  BY <1>2, TopicFacts DEF AttemptsMatch, ClaimsTruthful, NothingInvented, At
<1> QED
  BY <1>1, <1>3, <1>4, <1>5 DEF DeliveryInv

(***************************************************************************)
(* The theorems                                                            *)
(***************************************************************************)
LEMMA DeliveryNoLoss == DeliveryInv => NoSilentLoss
<1> SUFFICES ASSUME DeliveryInv, NEW m \in Msgs, Accepted(m)
             PROVE  Pending(m) \/ Settled(m)
  BY DEF NoSilentLoss
<1>1. PICK p \in Partitions : Contains(<<Main, p>>, m)
  BY DEF Accepted
<1>2. PICK tp \in Subscribed : tp = <<Main, p>> /\ tp \in TPs
  BY TopicFacts
<1>3. PICK i \in 1 .. Len(log[tp]) : log[tp][i].id = m
  BY <1>1, <1>2 DEF Contains
<1>4. /\ offsets[tp] \in Nat /\ Len(log[tp]) \in Nat
      /\ i - 1 \in Nat /\ IdAt(tp, i - 1) = m
  BY <1>2, <1>3, TypedFacts
  DEF DeliveryInv, TypeInv, TypeOK, LogsTyped, IdAt, Record
<1>5. CASE offsets[tp] < i
  BY <1>3, <1>5 DEF Due, Pending
<1>6. CASE ~(offsets[tp] < i)
  <2>1. Covered(tp, i - 1)
    BY <1>4, <1>6 DEF DeliveryInv, OffsetsSound
  <2> QED
    BY <1>4, <2>1 DEF Covered, Pending
<1> QED
  BY <1>5, <1>6

LEMMA DeliveryAlways == Spec => []DeliveryInv
  BY DeliveryInit, DeliveryStep, PTL DEF Spec

\* Whatever the number of sessions, messages, partitions and retries, the
\* guarantee, the ordering and the faults: a message a user published is
\* still to be delivered, or something was decided about it (Commit, CommitTxn
\* and DrainCommit never move the group past a record nobody dealt with).
THEOREM NothingLostSilently == Spec => []NoSilentLoss
  BY DeliveryAlways, DeliveryNoLoss, PTL

LEMMA DeliveryProgress == DeliveryInv => ProgressCovered
<1> SUFFICES ASSUME DeliveryInv, NEW tp \in Subscribed
             PROVE  /\ \A o \in 0 .. offsets[tp] - 1 : Covered(tp, o)
                    /\ \A s \in Sessions : Live(s) /\ Assigned(s, tp) =>
                         \A o \in 0 .. worker[s][tp].off - 1 : Covered(tp, o)
  BY DEF ProgressCovered
<1>1. ASSUME NEW n \in Nat, NEW o \in 0 .. n - 1
      PROVE  o \in Nat /\ o < n
  OBVIOUS
<1>2. offsets[tp] \in Nat
  BY TopicFacts DEF DeliveryInv, TypeInv, TypeOK
<1>3. \A o \in 0 .. offsets[tp] - 1 : Covered(tp, o)
  BY <1>1, <1>2 DEF DeliveryInv, OffsetsSound
<1>4. ASSUME NEW s \in Sessions, Live(s), Assigned(s, tp)
      PROVE  \A o \in 0 .. worker[s][tp].off - 1 : Covered(tp, o)
  <2>1. ctx[s] # "cancelled" /\ worker[s][tp].off \in Nat
    BY <1>4 DEF Live, DeliveryInv, TypeInv, TypeOK
  <2>2. Passed(s, tp)
    BY <1>4, <2>1 DEF DeliveryInv, WorkersSound, WorkerSound
  <2> QED
    BY <1>1, <2>1, <2>2 DEF Passed
<1> QED
  BY <1>3, <1>4

\* Whatever the interleaving, the commits of the group and the runs that go on
\* pass only records somebody dealt with (Commit, DrainCommit, CommitTxn; a
\* worker that walks away has lost its partition, its run, or has said so).
THEOREM NothingPassed == Spec => []ProgressCovered
  BY DeliveryAlways, DeliveryProgress, PTL

\* What is pending or settled was accepted.
AcceptedFirst == \A m \in Msgs : Pending(m) \/ Settled(m) => Accepted(m)

LEMMA OnlyAccepted == DeliveryInv => AcceptedFirst
<1> SUFFICES ASSUME DeliveryInv, NEW m \in Msgs, Pending(m) \/ Settled(m)
             PROVE  Accepted(m)
  BY DEF AcceptedFirst
<1>1. PartitionOf(Dlq) \in TPs /\ Subscribed \subseteq TPs
  BY TopicFacts, TopicsAssumption
<1>2. ASSUME NEW tp \in TPs, NEW i \in 1 .. Len(log[tp]), log[tp][i].id = m
      PROVE  Accepted(m)
  BY <1>2 DEF DeliveryInv, NothingInvented
<1> QED
  BY <1>1, <1>2 DEF Pending, Due, Settled, DeadLettered, Contains, DeliveryInv,
                    NothingInvented

\* Only users publish to the source topic.
LEMMA SourceKept ==
    ASSUME DeliveryInv, [Next]_vars,
           ~\E m \in Msgs, p \in Partitions : UserPublish(m, p)
    PROVE  /\ LogsGrow /\ FateGrows
           /\ \A p \in Partitions : log'[<<Main, p>>] = log[<<Main, p>>]
<1>1. TypeInv
  BY DEF DeliveryInv
<1>2. CASE \E s \in Sessions, tp \in Subscribed : Worker(s, tp)
  <2> PICK s \in Sessions, tp \in Subscribed : Worker(s, tp)
    BY <1>2
  <2>1. LogsGrow /\ FateGrows
    BY WorkerSafe DEF SafeStep
  <2>2. CASE Routes(s, tp)
    <3>1. ~At(s, tp, "idle")
      BY <2>2 DEF Routes, At
    <3>2. PICK up \in TPs : up = Destination(worker[s][tp].att) /\ Stage(up) # Main
      BY <1>1, <3>1, JobFacts, DestinationFacts, TopicFacts DEF Main
    <3>3. \A p \in Partitions : <<Main, p>> \in TPs /\ <<Main, p>> # up
      BY <3>2, TopicFacts
    <3>4. Routed(s, tp) \in Recs /\ AppendTo(up, Routed(s, tp))
      BY <1>1, <2>2, <3>1, <3>2, JobFacts DEF Routes
    <3>5. \A t \in TPs : t # up => log'[t] = log[t]
      BY <1>1, <3>4, AppendFacts, TypedFacts
    <3> QED
      BY <2>1, <3>3, <3>5
  <2> QED
    BY <2>1, <2>2, WorkerLog
<1>3. CASE UNCHANGED <<log, fate>>
  BY <1>1, <1>3, NoAppendFacts, TypedFacts, SameFate
<1>4. ASSUME UNCHANGED vars \/ Environment \/ \E s \in Sessions : Dispatcher(s)
      PROVE  UNCHANGED <<log, fate>>
  BY <1>4 DEF vars, brokerVars, Environment, Run, Cancel, RevokePartition, Fence,
              LeaseExpires, Dispatcher, Poll, Send
<1> QED
  BY <1>2, <1>3, <1>4 DEF Next

LEMMA ContractInit == Init => Contract!CInit
<1> SUFFICES ASSUME Init PROVE Contract!CInit
  OBVIOUS
<1>1. /\ \A tp \in TPs : Len(log[tp]) = 0
      /\ \A m \in Msgs : fate[m] = {}
  BY DEF Init, BrokerInit
<1>2. \A tp \in TPs, m \in Msgs : ~Contains(tp, m) /\ ~Due(tp, m)
  BY <1>1 DEF Contains, Due
<1>3. /\ PartitionOf(Dlq) \in TPs /\ Subscribed \subseteq TPs
      /\ \A p \in Partitions : <<Main, p>> \in TPs
  BY TopicFacts, TopicsAssumption
<1>4. \A m \in Msgs : ~Accepted(m) /\ ~Pending(m) /\ ~Settled(m)
  BY <1>1, <1>2, <1>3 DEF Accepted, Pending, Settled, DeadLettered
<1> QED
  BY <1>4 DEF Contract!CInit

LEMMA ContractStep ==
    DeliveryInv /\ DeliveryInv' /\ [Next]_vars => [Contract!CNext]_(Contract!cvars)
<1> SUFFICES ASSUME DeliveryInv, DeliveryInv', [Next]_vars
             PROVE  Contract!CNext
  OBVIOUS
<1>1. TypeInv
  BY DEF DeliveryInv
<1>2. CASE \E m \in Msgs, p \in Partitions : UserPublish(m, p)
  <2> PICK m \in Msgs, p \in Partitions : UserPublish(m, p)
    BY <1>2
  <2> DEFINE r == [id |-> m, attempt |-> 0, orig |-> << >>]
  <2>1. PICK src \in Subscribed : src = <<Main, p>> /\ src \in TPs /\ Stage(src) = Main
    BY TopicFacts
  <2>2. r \in Recs /\ AppendTo(src, r) /\ UNCHANGED <<offsets, fate>> /\ ~Accepted(m)
    BY <2>1, TopicsAssumption DEF Recs, UserPublish
  <2>3. /\ Len(log[src]) \in Nat
        /\ Len(log'[src]) = Len(log[src]) + 1
        /\ log'[src][Len(log[src]) + 1] = r
        /\ \A t \in TPs : t # src => log'[t] = log[t]
        /\ \A i \in 1 .. Len(log[src]) : log'[src][i] = log[src][i]
        /\ offsets[src] \in Nat /\ offsets[src] <= Len(log[src])
    <3>1. /\ LogsTyped /\ log[src] \in Seq(Recs)
          /\ offsets[src] \in Nat /\ offsets[src] <= Len(log[src])
      BY <1>1, <2>1, TypedFacts DEF LogsTyped, TypeInv, TypeOK
    <3>2. /\ LogsGrow
          /\ Len(log'[src]) = Len(log[src]) + 1
          /\ log'[src][Len(log[src]) + 1] = r
          /\ \A t \in TPs : t # src => log'[t] = log[t]
      BY <2>1, <2>2, <3>1, AppendFacts
    <3>3. src \in TPs
      BY <2>1
    <3>4. \A i \in 1 .. Len(log[src]) : log'[src][i] = log[src][i]
      BY <3>2, <3>3 DEF LogsGrow
    <3>5. Len(log[src]) \in Nat
      BY <3>1
    <3> QED
      BY <3>1, <3>2, <3>4, <3>5
  <2>4. ASSUME NEW t \in TPs, NEW n \in Msgs
        PROVE  /\ Contains(t, n)' <=> Contains(t, n) \/ (t = src /\ n = m)
               /\ Due(t, n)' <=> Due(t, n) \/ (t = src /\ n = m)
    <3>1. CASE t # src
      BY <2>2, <2>3, <3>1 DEF Contains, Due
    <3>2. CASE t = src
      <4>1. \A i \in 1 .. Len(log'[src]) :
              i \in 1 .. Len(log[src]) \/ i = Len(log[src]) + 1
        BY <2>3
      <4>2. /\ \A i \in 1 .. Len(log[src]) : i \in 1 .. Len(log'[src])
            /\ Len(log[src]) + 1 \in 1 .. Len(log'[src])
            /\ offsets[src] < Len(log[src]) + 1
        BY <2>3
      <4>3. log'[src][Len(log[src]) + 1].id = m /\ offsets'[src] = offsets[src]
        BY <2>2, <2>3
      <4>4. Contains(src, n)' <=> Contains(src, n) \/ n = m
        BY <2>3, <4>1, <4>2, <4>3 DEF Contains
      <4>5. Due(src, n)' <=> Due(src, n) \/ n = m
        BY <2>3, <4>1, <4>2, <4>3 DEF Due
      <4> QED
        BY <3>2, <4>4, <4>5
    <3> QED
      BY <3>1, <3>2
  <2>5. \A n \in Msgs : Accepted(n)' <=> Accepted(n) \/ n = m
    BY <2>1, <2>4, TopicFacts DEF Accepted
  <2>6. \A n \in Msgs : Pending(n)' <=> Pending(n) \/ n = m
    BY <2>1, <2>4, TopicFacts DEF Pending
  <2>7. \A n \in Msgs : Settled(n)' <=> Settled(n)
    <3>1. PartitionOf(Dlq) \in TPs /\ PartitionOf(Dlq) # src
      BY <2>1, TopicFacts, TopicsAssumption DEF Main, Dlq, PartitionOf
    <3> QED
      BY <2>2, <2>4, <3>1 DEF Settled, DeadLettered
  <2>8. Contract!Accept(m)
    BY <2>2, <2>5, <2>6, <2>7 DEF Contract!Accept
  <2> QED
    BY <2>8 DEF Contract!CNext
<1>3. CASE ~\E m \in Msgs, p \in Partitions : UserPublish(m, p)
  <2>1. /\ LogsGrow /\ FateGrows
        /\ \A p \in Partitions : log'[<<Main, p>>] = log[<<Main, p>>]
    BY <1>3, SourceKept
  <2>2. \A m \in Msgs : Accepted(m)' <=> Accepted(m)
    BY <2>1 DEF Accepted, Contains
  <2>3. \A m \in Msgs : Settled(m) => Settled(m)'
    BY <1>1, <2>1, GrowthFacts
  <2>4. \A m \in Msgs : Pending(m) => Accepted(m)
    BY OnlyAccepted DEF AcceptedFirst
  <2>5. AcceptedFirst'
    BY OnlyAccepted, PTL
  <2>6. (\A m \in Msgs : Accepted(m) => Pending(m) \/ Settled(m))'
    BY DeliveryNoLoss, PTL DEF NoSilentLoss
  <2> DEFINE decision == {m \in Msgs : Settled(m)'}
             next == {m \in Msgs : Pending(m)'}
  <2>7. Contract!Progress(decision, next)
    BY <2>2, <2>3, <2>4, <2>6 DEF Contract!Progress
  <2>8. /\ decision \in SUBSET {m \in Msgs : Accepted(m)}
        /\ next \in SUBSET {m \in Msgs : Accepted(m)}
    BY <2>2, <2>5 DEF AcceptedFirst
  <2> QED
    BY <2>7, <2>8 DEF Contract!CNext
<1> QED
  BY <1>2, <1>3

\* Seen from outside, the consumer with all its topics, offsets, sessions and
\* faults does nothing its contract does not allow: it never forgets a message
\* nobody decided about, takes no decision back and invents no message.
THEOREM ConsumerKeepsContract == Spec => KeepsContract
<1>1. Spec => []DeliveryInv
  BY DeliveryAlways
<1> QED
  BY <1>1, ContractInit, ContractStep, PTL DEF Spec, KeepsContract, Contract!CSpec
==============================================================================

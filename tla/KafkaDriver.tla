---------------------------- MODULE KafkaDriver ----------------------------
(***************************************************************************)
(* The Kafka driver (driver/kafka) under the consumer: what Poll, Commit   *)
(* and the transactions of the driver make of the franz-go client.         *)
(*                                                                         *)
(* One source topic, one transactional producer client, one process that   *)
(* may crash and start again.  There is a worker per partition.  The       *)
(* consumer's own txnMu is left out: workers of other consumers on the     *)
(* same driver do not take it, and it only removes interleavings.          *)
(*                                                                         *)
(* Of the client and of Kafka, which are not in this repository: a fetch   *)
(* returns records of any partitions and advances their positions; a       *)
(* commit writes the offset after the record it is given, whatever was     *)
(* committed before; what is produced while the client is in a transaction *)
(* is part of it, and what is produced while it is not is refused; a       *)
(* process that starts again aborts the transaction it left open, and      *)
(* fetches from the committed offsets, or from 0 where these are past the  *)
(* end of the partition.                                                   *)
(***************************************************************************)
EXTENDS Integers, Sequences, FiniteSets

CONSTANTS
    NParts,       \* partitions 0 .. NParts - 1 of the source topic
    MaxRecords,   \* bound on the records of the source topic
    Nobody        \* the holder of a free mutex

ASSUME KafkaAssumption ==
    /\ NParts \in Nat \ {0}
    /\ MaxRecords \in Nat
    /\ Nobody \notin Nat

Parts == 0 .. NParts - 1
Records == Parts \X Nat      \* of the source topic, and their routed copies

VARIABLES
    end,          \* end[p]: records in partition p
    groupOffset,  \* groupOffset[p]: what the group has committed
    position,     \* position[p]: what the subscription fetches next
    queue,        \* queue[p]: offsets the worker of p was given
    pc,           \* pc[p]: where that worker is
    decided,      \* records handled or routed
    txnMu,        \* holder of Driver.txnMu
    txnDone,      \* txnDone[p]: txn.done of the transaction of worker p
    inTxn,        \* the client is in a transaction
    open,         \* records produced in it
    visible,      \* records of committed transactions
    routed,       \* records whose transaction the worker saw committed
    fatal         \* txnMu was unlocked while nobody held it

subVars == <<groupOffset, position, queue>>
txnVars == <<txnMu, txnDone, inTxn, open, visible, fatal>>
vars == <<end, subVars, pc, decided, txnVars, routed>>

Init ==
    /\ end = [p \in Parts |-> 0]
    /\ groupOffset = [p \in Parts |-> 0]
    /\ position = [p \in Parts |-> 0]
    /\ queue = [p \in Parts |-> <<>>]
    /\ pc = [p \in Parts |-> "idle"]
    /\ decided = {}
    /\ txnMu = Nobody
    /\ txnDone = [p \in Parts |-> TRUE]
    /\ inTxn = FALSE
    /\ open = {}
    /\ visible = {}
    /\ routed = {}
    /\ fatal = FALSE

Goto(p, from, to) == pc[p] = from /\ pc' = [pc EXCEPT ![p] = to]

Current(p) == <<p, Head(queue[p])>>

Done(p) == queue' = [queue EXCEPT ![p] = Tail(@)]

(***************************************************************************)
(* Subscription                                                            *)
(***************************************************************************)
\* Bound: MaxRecords in all.
Produced == {r \in Parts \X (0 .. MaxRecords - 1) : r[2] < end[r[1]]}

Produce(p) ==
    /\ Cardinality(Produced) < MaxRecords
    /\ end' = [end EXCEPT ![p] = @ + 1]
    /\ UNCHANGED <<subVars, pc, decided, txnVars, routed>>

\* PollFetches moves the positions past everything it returns.
Fetch(upto) ==
    /\ upto # position
    /\ \A p \in Parts : position[p] <= upto[p] /\ upto[p] <= end[p]
    /\ position' = upto

\* Poll returns the first record of the fetch, in whatever order the client
\* iterates over the partitions, and forgets the others.
Poll(p, upto) ==
    /\ Fetch(upto)
    /\ position[p] < upto[p]
    /\ queue' = [queue EXCEPT ![p] = Append(@, position[p])]
    /\ UNCHANGED <<end, groupOffset, pc, decided, txnVars, routed>>

\* One partition of the fetch reports an error: Poll returns that, and Run
\* polls again.
PollError(upto) ==
    /\ Fetch(upto)
    /\ UNCHANGED <<end, groupOffset, queue, pc, decided, txnVars, routed>>

\* What toKgo makes of a record to commit: neither partition nor offset is
\* copied, and the client sees 0 for both.
ToKgo_Copies(rec) == rec
ToKgo(rec) == <<0, 0>>

CommitRecord(rec) ==
    LET r == ToKgo(rec)
    IN  groupOffset' = [groupOffset EXCEPT ![r[1]] = r[2] + 1]

(***************************************************************************)
(* A worker with a record                                                  *)
(***************************************************************************)
HandlerOk(p) ==
    /\ queue[p] # <<>>
    /\ Goto(p, "idle", "ack")
    /\ decided' = decided \cup {Current(p)}
    /\ UNCHANGED <<end, subVars, txnVars, routed>>

HandlerErr(p) ==
    /\ queue[p] # <<>>
    /\ Goto(p, "idle", "begin")
    /\ UNCHANGED <<end, subVars, decided, txnVars, routed>>

\* An error of the commit is logged.
Ack(p) ==
    /\ Goto(p, "ack", "idle")
    /\ Done(p)
    /\ CommitRecord(Current(p)) \/ UNCHANGED groupOffset
    /\ UNCHANGED <<end, position, decided, txnVars, routed>>

(***************************************************************************)
(* Transactions of the driver.  A caller that gets an error aborts and     *)
(* takes its next record.                                                  *)
(***************************************************************************)
Lock(p) == txnMu = Nobody /\ txnMu' = p

Unlock ==
    /\ txnMu' = Nobody
    /\ fatal' = (fatal \/ txnMu = Nobody)

BeginTxn_KeepsLock(p) ==
    /\ txnMu = Nobody
    /\ txnMu' = p
    /\ \/ /\ ~inTxn
          /\ inTxn' = TRUE
          /\ txnDone' = [txnDone EXCEPT ![p] = FALSE]
          /\ Goto(p, "begin", "publish")
          /\ UNCHANGED queue
       \/ /\ Goto(p, "begin", "idle")
          /\ Done(p)
          /\ UNCHANGED <<inTxn, txnDone>>
    /\ UNCHANGED <<end, groupOffset, position, decided, open, visible, fatal,
                   routed>>

\* BeginTransaction fails if the client is in a transaction, or for a reason
\* of its own.
BeginTxn(p) ==
    /\ \/ /\ Lock(p)
          /\ ~inTxn
          /\ inTxn' = TRUE
          /\ txnDone' = [txnDone EXCEPT ![p] = FALSE]
          /\ Goto(p, "begin", "publish")
          /\ UNCHANGED queue
       \/ /\ txnMu = Nobody
          /\ Goto(p, "begin", "idle")
          /\ Done(p)
          /\ UNCHANGED <<txnMu, inTxn, txnDone>>
    /\ UNCHANGED <<end, groupOffset, position, decided, open, visible, fatal,
                   routed>>

PublishTxn_ErrorIgnored(p) ==
    /\ inTxn
    /\ Goto(p, "publish", "offsets")
    /\ open' \in {open, open \cup {Current(p)}}
    /\ UNCHANGED <<end, subVars, decided, txnMu, txnDone, inTxn, visible, fatal,
                   routed>>

\* What failed may have been written all the same.
PublishTxn(p) ==
    /\ \/ /\ inTxn
          /\ Goto(p, "publish", "offsets")
          /\ open' = open \cup {Current(p)}
       \/ /\ Goto(p, "publish", "abort")
          /\ open' \in {open, open \cup {Current(p)}}
    /\ UNCHANGED <<end, subVars, decided, txnMu, txnDone, inTxn, visible, fatal,
                   routed>>

\* Looks at the context and drops the offsets.
SendOffsets(p) ==
    /\ Goto(p, "offsets", "commit") \/ Goto(p, "offsets", "abort")
    /\ UNCHANGED <<end, subVars, decided, txnVars, routed>>

\* EndTransaction: the client leaves its transaction whatever happens.
EndTransaction(p) ==
    /\ txnDone' = [txnDone EXCEPT ![p] = TRUE]
    /\ inTxn' = FALSE
    /\ open' = {}
    /\ Unlock

\* Whether a commit that fails reached Kafka is unknown.
CommitTxn(p) ==
    /\ EndTransaction(p)
    /\ \/ /\ Goto(p, "commit", "idle")
          /\ visible' = visible \cup open
          /\ routed' = routed \cup {Current(p)}
          /\ decided' = decided \cup {Current(p)}
          /\ Done(p)
       \/ /\ Goto(p, "commit", "abort")
          /\ visible' \in {visible, visible \cup open}
          /\ UNCHANGED <<routed, decided, queue>>
    /\ UNCHANGED <<end, groupOffset, position>>

Abort_IgnoresDone(p) ==
    /\ Goto(p, "abort", "idle")
    /\ Done(p)
    /\ EndTransaction(p)
    /\ UNCHANGED <<end, groupOffset, position, decided, visible, routed>>

\* Also called after a commit that failed, when it does nothing.
Abort(p) ==
    /\ Goto(p, "abort", "idle")
    /\ Done(p)
    /\ IF txnDone[p] THEN UNCHANGED <<txnMu, txnDone, inTxn, open, fatal>>
                     ELSE EndTransaction(p)
    /\ UNCHANGED <<end, groupOffset, position, decided, visible, routed>>

(***************************************************************************)
(* Environment                                                             *)
(***************************************************************************)
StartAt_Committed(p) == groupOffset[p]
StartAt(p) == IF groupOffset[p] <= end[p] THEN groupOffset[p] ELSE 0

Restart ==
    /\ position' = [p \in Parts |-> StartAt(p)]
    /\ queue' = [p \in Parts |-> <<>>]
    /\ pc' = [p \in Parts |-> "idle"]
    /\ txnMu' = Nobody
    /\ txnDone' = [p \in Parts |-> TRUE]
    /\ inTxn' = FALSE
    /\ open' = {}
    /\ UNCHANGED <<end, groupOffset, decided, visible, routed, fatal>>

(***************************************************************************)
(* The specification                                                       *)
(***************************************************************************)
Dispatcher ==
    \E upto \in [Parts -> 0 .. MaxRecords] :
      PollError(upto) \/ \E p \in Parts : Poll(p, upto)

Worker(p) ==
    \/ HandlerOk(p) \/ HandlerErr(p) \/ Ack(p)
    \/ BeginTxn(p) \/ PublishTxn(p) \/ SendOffsets(p) \/ CommitTxn(p) \/ Abort(p)

Environment ==
    \/ \E p \in Parts : Produce(p)
    \/ Restart

Next == Dispatcher \/ (\E p \in Parts : Worker(p)) \/ Environment

Spec == Init /\ [][Next]_vars

\* Workers are scheduled, and every call of the client returns.
FairSpec == Spec /\ \A p \in Parts : WF_vars(Worker(p))

(***************************************************************************)
(* Properties                                                              *)
(***************************************************************************)
\* Every variable has its type, and no position is past the end.
TypeOK ==
    /\ end \in [Parts -> Nat]
    /\ groupOffset \in [Parts -> Nat]
    /\ position \in [Parts -> Nat]
    /\ \A p \in Parts : position[p] <= end[p]
    /\ queue \in [Parts -> Seq(Nat)]
    /\ pc \in [Parts -> {"idle", "ack", "begin", "publish", "offsets",
                         "commit", "abort"}]
    /\ decided \in SUBSET Records
    /\ txnMu \in Parts \cup {Nobody}
    /\ txnDone \in [Parts -> BOOLEAN]
    /\ inTxn \in BOOLEAN
    /\ open \in SUBSET Records
    /\ visible \in SUBSET Records
    /\ routed \in SUBSET Records
    /\ fatal \in BOOLEAN

\* A worker has it, this subscription will return it, or a later one will.
InReach(p, o) ==
    \/ \E i \in DOMAIN queue[p] : queue[p][i] = o
    \/ o >= position[p]
    \/ o >= groupOffset[p]

\* Every record is decided about or can still be delivered.  It is what
\* at-least-once delivery asks of Poll and Commit.
NoLoss ==
    \A p \in Parts : \A o \in 0 .. end[p] - 1 :
      <<p, o>> \in decided \/ InReach(p, o)

\* The records Poll drops from a fetch are delivered again after a restart,
\* because Commit commits almost nothing: only the first record of partition
\* 0 can be lost for good (sub.Poll, sub.Commit, toKgo).
OnlyFirstLost ==
    \A p \in Parts : \A o \in 0 .. end[p] - 1 :
      <<p, o>> # <<0, 0>> => <<p, o>> \in decided \/ InReach(p, o)

\* A transaction the worker saw committed contains its record: no caller ends
\* the transaction of another (txn.Commit, txn.Abort, Driver.txnMu).
RoutedVisible == routed \subseteq visible

\* txnMu is never unlocked while nobody holds it, which is fatal in Go, though
\* a failed Commit is followed by Abort.
NoDoubleUnlock == ~fatal

\* The transaction of worker p has begun and is not over.
InTransaction(p) ==
    pc[p] \in {"publish", "offsets", "commit"} \/ (pc[p] = "abort" /\ ~txnDone[p])

\* txnMu, the client and the workers agree on whose transaction it is: whoever
\* is in one holds the mutex, whoever holds it will still end the transaction
\* the client is in, and nobody's record is in it but his.  An error of a
\* begin, a publish or a commit leaves no mutex locked and no record behind
\* (BeginTransaction, txn.Publish, txn.Commit, txn.Abort).
TxnOwned ==
    /\ \A p \in Parts : InTransaction(p) <=> txnMu = p
    /\ inTxn <=> txnMu # Nobody
    /\ open \subseteq {Current(p) : p \in {q \in Parts : txnMu = q}}

\* A worker that has to route a record gets through with it, whatever fails.
TxnEnds == \A p \in Parts : pc[p] = "begin" ~> pc[p] = "idle"
===========================================================================

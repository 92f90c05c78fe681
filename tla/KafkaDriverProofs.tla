------------------------- MODULE KafkaDriverProofs -------------------------
(***************************************************************************)
(* What the Kafka driver keeps for any number of partitions and records:   *)
(* txnMu is unlocked by whoever locked it, so nobody ends the transaction  *)
(* of another, and a commit hides no record but the first of partition 0.  *)
(*                                                                         *)
(* The invariant: a worker between BeginTxn and the end of its transaction *)
(* holds txnMu, the client is in a transaction that is this worker's, and  *)
(* once its record is published it stays in it.  Over that invariant, that *)
(* the mutex, the client and the workers agree on the owner (TxnOwned) is  *)
(* inductive.                                                              *)
(***************************************************************************)
EXTENDS KafkaDriver, TLAPS

\* A worker has a record as long as it works on one.
Busy == \A p \in Parts : pc[p] # "idle" => queue[p] # <<>>

Locked ==
    \A p \in Parts : InTransaction(p) => txnMu = p /\ ~txnDone[p] /\ inTxn

Published ==
    \A p \in Parts : pc[p] \in {"offsets", "commit"} => Current(p) \in open

\* What commits have written.
Offsets == \A p \in Parts : groupOffset[p] <= (IF p = 0 THEN 1 ELSE 0)

IInv ==
    /\ TypeOK
    /\ Busy
    /\ Locked
    /\ Published
    /\ Offsets
    /\ RoutedVisible
    /\ NoDoubleUnlock

LEMMA InitInv == Init => IInv
<1> USE KafkaAssumption
<1> SUFFICES ASSUME Init PROVE IInv
  OBVIOUS
<1>1. TypeOK
  <2>1. <<>> \in Seq(Nat)
    OBVIOUS
  <2>2. queue \in [Parts -> Seq(Nat)]
    BY <2>1 DEF Init
  <2>3. /\ end \in [Parts -> Nat] /\ groupOffset \in [Parts -> Nat]
        /\ position \in [Parts -> Nat] /\ \A p \in Parts : position[p] <= end[p]
    BY DEF Init
  <2>4. /\ decided \in SUBSET Records /\ open \in SUBSET Records
        /\ visible \in SUBSET Records /\ routed \in SUBSET Records
    BY DEF Init
  <2> QED BY <2>2, <2>3, <2>4 DEF Init, TypeOK
<1> QED BY <1>1 DEF Init, IInv, Busy, Locked, Published, Offsets, InTransaction,
           RoutedVisible, NoDoubleUnlock, Parts

\* The record in hand is a record.
LEMMA CurrentRecord ==
    ASSUME IInv, NEW p \in Parts, pc[p] # "idle" \/ queue[p] # <<>>
    PROVE  /\ queue[p] # <<>>
           /\ Current(p) \in Records
           /\ Tail(queue[p]) \in Seq(Nat)
<1>1. queue[p] # <<>> /\ queue[p] \in Seq(Nat)
  BY DEF IInv, Busy, TypeOK
<1>2. Head(queue[p]) \in Nat /\ Tail(queue[p]) \in Seq(Nat)
  BY <1>1
<1> QED BY <1>1, <1>2 DEF Current, Records

\* A record added to the queue leaves the one in hand where it is.
LEMMA SameHead ==
    ASSUME NEW q \in Seq(Nat), q # <<>>, NEW o \in Nat
    PROVE  Append(q, o) # <<>> /\ Head(Append(q, o)) = Head(q)
OBVIOUS

LEMMA ProduceInv ==
    ASSUME IInv, NEW p \in Parts, Produce(p)
    PROVE  IInv'
<1>1. UNCHANGED <<groupOffset, position, queue, pc, decided, txnMu, txnDone, inTxn, open,
                  visible, fatal, routed>>
  BY DEF Produce, subVars, txnVars
<1>2. end' \in [Parts -> Nat] /\ \A q \in Parts : end[q] <= end'[q]
  BY DEF Produce, IInv, TypeOK
<1>3. TypeOK'
  <2>1. \A q \in Parts : position[q] <= end'[q]
    BY <1>2 DEF IInv, TypeOK
  <2> QED BY <1>1, <1>2, <2>1 DEF IInv, TypeOK
<1> QED BY <1>1, <1>3 DEF IInv, Busy, Locked, Published, Offsets, InTransaction, Current,
           RoutedVisible, NoDoubleUnlock

LEMMA FetchInv ==
    ASSUME IInv, NEW upto \in [Parts -> 0 .. MaxRecords],
           PollError(upto) \/ \E p \in Parts : Poll(p, upto)
    PROVE  IInv'
<1> USE KafkaAssumption
<1>1. UNCHANGED <<end, groupOffset, pc, decided, txnMu, txnDone, inTxn, open, visible,
                  fatal, routed>>
  BY DEF PollError, Poll, txnVars
<1>2. position' = upto /\ \A q \in Parts : upto[q] <= end[q] /\ upto[q] \in Nat
  BY DEF PollError, Poll, Fetch
<1>3. /\ queue' \in [Parts -> Seq(Nat)]
      /\ \A q \in Parts : queue[q] # <<>> => queue'[q] # <<>> /\ Head(queue'[q]) = Head(queue[q])
  <2>1. CASE PollError(upto)
    BY <2>1 DEF PollError, IInv, TypeOK
  <2>2. CASE \E p \in Parts : Poll(p, upto)
    <3>1. PICK p \in Parts : queue' = [queue EXCEPT ![p] = Append(@, position[p])]
      BY <2>2 DEF Poll
    <3>2. queue \in [Parts -> Seq(Nat)] /\ position[p] \in Nat
      BY DEF IInv, TypeOK
    <3> QED BY <3>1, <3>2, SameHead
  <2> QED BY <2>1, <2>2
<1>4. TypeOK'
  BY <1>1, <1>2, <1>3 DEF IInv, TypeOK
<1>5. Busy' /\ Published'
  BY <1>1, <1>3 DEF IInv, Busy, Published, Current
<1> QED BY <1>1, <1>4, <1>5 DEF IInv, Locked, Offsets, InTransaction,
           RoutedVisible, NoDoubleUnlock

LEMMA RestartInv ==
    ASSUME IInv, Restart
    PROVE  IInv'
<1> USE KafkaAssumption
<1>1. UNCHANGED <<end, groupOffset, decided, visible, routed, fatal>>
  BY DEF Restart
<1>2. /\ position' = [p \in Parts |-> StartAt(p)] /\ queue' = [p \in Parts |-> <<>>]
      /\ pc' = [p \in Parts |-> "idle"] /\ txnMu' = Nobody
      /\ txnDone' = [p \in Parts |-> TRUE] /\ inTxn' = FALSE /\ open' = {}
  BY DEF Restart
<1>3. \A p \in Parts : StartAt(p) \in Nat /\ StartAt(p) <= end[p]
  BY DEF IInv, TypeOK, StartAt
<1>4. TypeOK'
  <2>1. position' \in [Parts -> Nat] /\ \A p \in Parts : position'[p] <= end[p]
    BY <1>2, <1>3
  <2>2. queue' \in [Parts -> Seq(Nat)]
    BY <1>2
  <2>3. txnDone' \in [Parts -> BOOLEAN] /\ open' \in SUBSET Records
    BY <1>2
  <2> QED BY <1>1, <1>2, <2>1, <2>2, <2>3 DEF IInv, TypeOK
<1> QED BY <1>1, <1>2, <1>4 DEF IInv, Busy, Locked, Published, Offsets, InTransaction,
           RoutedVisible, NoDoubleUnlock

(***************************************************************************)
(* Workers                                                                 *)
(***************************************************************************)
\* Only the holder of txnMu is in a transaction.
LEMMA OneTransaction ==
    ASSUME IInv, NEW p \in Parts, txnMu = p \/ txnMu = Nobody
    PROVE  \A q \in Parts : q # p => ~InTransaction(q)
BY KafkaAssumption DEF IInv, Locked, Parts

\* A worker is done with its record: what it leaves in its queue is well-formed.
LEMMA DoneQueue ==
    ASSUME IInv, NEW p \in Parts, queue[p] # <<>>, Done(p)
    PROVE  /\ queue' \in [Parts -> Seq(Nat)]
           /\ \A q \in Parts : q # p => queue'[q] = queue[q]
<1>1. queue \in [Parts -> Seq(Nat)] /\ Tail(queue[p]) \in Seq(Nat)
  BY CurrentRecord DEF IInv, TypeOK
<1> QED BY <1>1 DEF Done

\* Steps that touch neither the transaction nor the queues.
LEMMA QuietInv ==
    ASSUME IInv, NEW p \in Parts, HandlerOk(p) \/ HandlerErr(p) \/ SendOffsets(p)
    PROVE  IInv'
<1>1. UNCHANGED <<end, groupOffset, position, queue, txnMu, txnDone, inTxn, open, visible,
                  fatal, routed>>
  BY DEF HandlerOk, HandlerErr, SendOffsets, subVars, txnVars
<1>2. queue[p] # <<>>
  BY DEF HandlerOk, HandlerErr, SendOffsets, Goto, IInv, Busy
<1>3. PICK x \in {"ack", "begin", "commit", "abort"} :
         /\ pc' = [pc EXCEPT ![p] = x]
         /\ x \in {"commit", "abort"} => pc[p] = "offsets"
  BY DEF HandlerOk, HandlerErr, SendOffsets, Goto
<1>4. pc \in [Parts -> {"idle", "ack", "begin", "publish", "offsets", "commit", "abort"}]
  BY DEF IInv, TypeOK
<1>5. decided' \in SUBSET Records
  BY <1>2, CurrentRecord DEF HandlerOk, HandlerErr, SendOffsets, IInv, TypeOK
<1>6. TypeOK'
  BY <1>1, <1>3, <1>4, <1>5 DEF IInv, TypeOK
<1>7. Busy' /\ Locked' /\ Published'
  BY <1>1, <1>2, <1>3, <1>4 DEF IInv, Busy, Locked, Published, InTransaction, Current
<1> QED BY <1>1, <1>6, <1>7 DEF IInv, Offsets, RoutedVisible, NoDoubleUnlock

LEMMA AckInv ==
    ASSUME IInv, NEW p \in Parts, Ack(p)
    PROVE  IInv'
<1> USE KafkaAssumption
<1>1. UNCHANGED <<end, position, decided, txnMu, txnDone, inTxn, open, visible, fatal, routed>>
  BY DEF Ack, txnVars
<1>2. queue[p] # <<>> /\ Done(p) /\ pc[p] = "ack" /\ pc' = [pc EXCEPT ![p] = "idle"]
  BY DEF Ack, Goto, IInv, Busy
<1>3. pc \in [Parts -> {"idle", "ack", "begin", "publish", "offsets", "commit", "abort"}]
  BY DEF IInv, TypeOK
<1>4. 0 \in Parts /\ groupOffset \in [Parts -> Nat]
  BY DEF Parts, IInv, TypeOK
<1>5. groupOffset' = [groupOffset EXCEPT ![0] = 1] \/ groupOffset' = groupOffset
  BY DEF Ack, CommitRecord, ToKgo
<1>6. groupOffset' \in [Parts -> Nat] /\ Offsets'
  BY <1>4, <1>5 DEF IInv, Offsets
<1>7. TypeOK'
  BY <1>1, <1>2, <1>3, <1>6, DoneQueue DEF IInv, TypeOK
<1>8. Busy' /\ Locked' /\ Published'
  BY <1>1, <1>2, <1>3, DoneQueue DEF IInv, Busy, Locked, Published, InTransaction, Current
<1> QED BY <1>1, <1>6, <1>7, <1>8 DEF IInv, RoutedVisible, NoDoubleUnlock

LEMMA BeginInv ==
    ASSUME IInv, NEW p \in Parts, BeginTxn(p)
    PROVE  IInv'
<1> USE KafkaAssumption
<1>1. UNCHANGED <<end, groupOffset, position, decided, open, visible, fatal, routed>>
      /\ pc[p] = "begin" /\ txnMu = Nobody
  BY DEF BeginTxn, Goto, Lock
<1>2. queue[p] # <<>>
  BY <1>1 DEF IInv, Busy
<1>3. pc \in [Parts -> {"idle", "ack", "begin", "publish", "offsets", "commit", "abort"}]
      /\ txnDone \in [Parts -> BOOLEAN]
  BY DEF IInv, TypeOK
<1>4. \A q \in Parts : q # p => ~InTransaction(q)
  BY <1>1, OneTransaction
<1>5. CASE /\ txnMu' = p /\ inTxn' = TRUE /\ txnDone' = [txnDone EXCEPT ![p] = FALSE]
           /\ pc' = [pc EXCEPT ![p] = "publish"] /\ queue' = queue
  <2>1. TypeOK'
    BY <1>1, <1>3, <1>5 DEF IInv, TypeOK
  <2>2. Busy' /\ Locked' /\ Published'
    BY <1>1, <1>2, <1>3, <1>4, <1>5 DEF IInv, Busy, Locked, Published, InTransaction, Current
  <2> QED BY <1>1, <2>1, <2>2 DEF IInv, Offsets, RoutedVisible, NoDoubleUnlock
<1>6. CASE /\ pc' = [pc EXCEPT ![p] = "idle"] /\ Done(p)
           /\ UNCHANGED <<txnMu, inTxn, txnDone>>
  <2>1. TypeOK'
    BY <1>1, <1>2, <1>3, <1>6, DoneQueue DEF IInv, TypeOK
  <2>2. Busy' /\ Locked' /\ Published'
    BY <1>1, <1>2, <1>3, <1>6, DoneQueue
       DEF IInv, Busy, Locked, Published, InTransaction, Current
  <2> QED BY <1>1, <2>1, <2>2 DEF IInv, Offsets, RoutedVisible, NoDoubleUnlock
<1> QED BY <1>5, <1>6 DEF BeginTxn, Goto, Lock

LEMMA PublishInv ==
    ASSUME IInv, NEW p \in Parts, PublishTxn(p)
    PROVE  IInv'
<1>1. UNCHANGED <<end, groupOffset, position, queue, decided, txnMu, txnDone, inTxn, visible,
                  fatal, routed>>
      /\ pc[p] = "publish"
  BY DEF PublishTxn, Goto, subVars
<1>2. queue[p] # <<>> /\ Current(p) \in Records
  BY <1>1, CurrentRecord
<1>3. PICK x \in {"offsets", "abort"} :
         /\ pc' = [pc EXCEPT ![p] = x]
         /\ open' = open \/ open' = open \cup {Current(p)}
         /\ x = "offsets" => open' = open \cup {Current(p)}
  BY DEF PublishTxn, Goto
<1>4. pc \in [Parts -> {"idle", "ack", "begin", "publish", "offsets", "commit", "abort"}]
  BY DEF IInv, TypeOK
<1>5. TypeOK'
  BY <1>1, <1>2, <1>3, <1>4 DEF IInv, TypeOK
<1>6. Busy' /\ Locked'
  BY <1>1, <1>2, <1>3, <1>4 DEF IInv, Busy, Locked, InTransaction
<1>7. Published'
  BY <1>1, <1>3, <1>4 DEF IInv, Published, Current
<1> QED BY <1>1, <1>5, <1>6, <1>7 DEF IInv, Offsets, RoutedVisible, NoDoubleUnlock

\* Who ends a transaction holds txnMu, and it is his.
LEMMA EndInv ==
    ASSUME IInv, NEW p \in Parts, InTransaction(p), EndTransaction(p)
    PROVE  /\ txnDone' \in [Parts -> BOOLEAN] /\ txnDone'[p]
           /\ inTxn' = FALSE /\ open' = {} /\ txnMu' = Nobody /\ fatal' = FALSE
           /\ \A q \in Parts : q # p => txnDone'[q] = txnDone[q] /\ ~InTransaction(q)
<1> USE KafkaAssumption
<1>1. txnMu = p /\ txnMu # Nobody
  BY DEF IInv, Locked, Parts
<1>2. \A q \in Parts : q # p => ~InTransaction(q)
  BY <1>1, OneTransaction
<1>3. fatal' = FALSE
  BY <1>1 DEF EndTransaction, Unlock, IInv, NoDoubleUnlock, TypeOK
<1>4. txnDone \in [Parts -> BOOLEAN]
  BY DEF IInv, TypeOK
<1> QED BY <1>2, <1>3, <1>4 DEF EndTransaction, Unlock

LEMMA CommitInv ==
    ASSUME IInv, NEW p \in Parts, CommitTxn(p)
    PROVE  IInv'
<1>1. UNCHANGED <<end, groupOffset, position>> /\ pc[p] = "commit" /\ EndTransaction(p)
  BY DEF CommitTxn, Goto
<1>2. queue[p] # <<>> /\ Current(p) \in Records
  BY <1>1, CurrentRecord
<1>3. Current(p) \in open
  BY <1>1 DEF IInv, Published
<1>4. InTransaction(p)
  BY <1>1 DEF InTransaction
<1>5. /\ txnDone' \in [Parts -> BOOLEAN] /\ txnDone'[p]
      /\ inTxn' = FALSE /\ open' = {} /\ txnMu' = Nobody /\ fatal' = FALSE
      /\ \A q \in Parts : q # p => txnDone'[q] = txnDone[q] /\ ~InTransaction(q)
  BY <1>1, <1>4, EndInv
<1>6. pc \in [Parts -> {"idle", "ack", "begin", "publish", "offsets", "commit", "abort"}]
  BY DEF IInv, TypeOK
<1>7. CASE /\ pc' = [pc EXCEPT ![p] = "idle"] /\ Done(p)
           /\ visible' = visible \cup open
           /\ routed' = routed \cup {Current(p)}
           /\ decided' = decided \cup {Current(p)}
  <2>1. TypeOK'
    BY <1>1, <1>2, <1>5, <1>6, <1>7, DoneQueue DEF IInv, TypeOK
  <2>2. Busy' /\ Locked' /\ Published'
    BY <1>2, <1>5, <1>6, <1>7, DoneQueue
       DEF IInv, Busy, Locked, Published, InTransaction
  <2>3. RoutedVisible'
    BY <1>3, <1>7 DEF IInv, RoutedVisible
  <2> QED BY <1>1, <1>5, <2>1, <2>2, <2>3 DEF IInv, Offsets, NoDoubleUnlock
<1>8. CASE /\ pc' = [pc EXCEPT ![p] = "abort"]
           /\ visible' \in {visible, visible \cup open}
           /\ UNCHANGED <<routed, decided, queue>>
  <2>1. TypeOK'
    BY <1>1, <1>5, <1>6, <1>8 DEF IInv, TypeOK
  <2>2. Busy' /\ Locked' /\ Published'
    BY <1>2, <1>5, <1>6, <1>8 DEF IInv, Busy, Locked, Published, InTransaction
  <2>3. RoutedVisible'
    BY <1>8 DEF IInv, RoutedVisible
  <2> QED BY <1>1, <1>5, <2>1, <2>2, <2>3 DEF IInv, Offsets, NoDoubleUnlock
<1> QED BY <1>7, <1>8 DEF CommitTxn, Goto

LEMMA AbortInv ==
    ASSUME IInv, NEW p \in Parts, Abort(p)
    PROVE  IInv'
<1>1. UNCHANGED <<end, groupOffset, position, decided, visible, routed>>
      /\ pc[p] = "abort" /\ pc' = [pc EXCEPT ![p] = "idle"] /\ Done(p)
  BY DEF Abort, Goto
<1>2. queue[p] # <<>>
  BY <1>1 DEF IInv, Busy
<1>3. pc \in [Parts -> {"idle", "ack", "begin", "publish", "offsets", "commit", "abort"}]
      /\ txnDone \in [Parts -> BOOLEAN]
  BY DEF IInv, TypeOK
<1>4. CASE txnDone[p]
  <2>1. UNCHANGED <<txnMu, txnDone, inTxn, open, fatal>>
    BY <1>4 DEF Abort
  <2>2. TypeOK'
    BY <1>1, <1>2, <1>3, <2>1, DoneQueue DEF IInv, TypeOK
  <2>3. Busy' /\ Locked' /\ Published'
    BY <1>1, <1>2, <1>3, <2>1, DoneQueue
       DEF IInv, Busy, Locked, Published, InTransaction, Current
  <2> QED BY <1>1, <2>1, <2>2, <2>3 DEF IInv, Offsets, RoutedVisible, NoDoubleUnlock
<1>5. CASE ~txnDone[p]
  <2>1. EndTransaction(p) /\ InTransaction(p)
    BY <1>1, <1>5 DEF Abort, InTransaction
  <2>2. /\ txnDone' \in [Parts -> BOOLEAN] /\ txnDone'[p]
        /\ inTxn' = FALSE /\ open' = {} /\ txnMu' = Nobody /\ fatal' = FALSE
        /\ \A q \in Parts : q # p => txnDone'[q] = txnDone[q] /\ ~InTransaction(q)
    BY <2>1, EndInv
  <2>3. TypeOK'
    BY <1>1, <1>2, <1>3, <2>2, DoneQueue DEF IInv, TypeOK
  <2>4. Busy' /\ Locked' /\ Published'
    BY <1>1, <1>2, <1>3, <2>2, DoneQueue DEF IInv, Busy, Locked, Published, InTransaction
  <2> QED BY <1>1, <2>2, <2>3, <2>4 DEF IInv, Offsets, RoutedVisible, NoDoubleUnlock
<1> QED BY <1>4, <1>5

LEMMA StutterInv ==
    ASSUME IInv, UNCHANGED vars
    PROVE  IInv'
<1>1. UNCHANGED <<end, groupOffset, position, queue, pc, decided, txnMu, txnDone, inTxn,
                  open, visible, fatal, routed>>
  BY DEF vars, subVars, txnVars
<1> QED BY <1>1 DEF IInv, TypeOK, Busy, Locked, Published, Offsets, InTransaction, Current,
           RoutedVisible, NoDoubleUnlock

LEMMA StepInv == IInv /\ [Next]_vars => IInv'
<1> SUFFICES ASSUME IInv, [Next]_vars PROVE IInv'
  OBVIOUS
<1>1. CASE UNCHANGED vars
  BY <1>1, StutterInv
<1>2. CASE Dispatcher
  BY <1>2, FetchInv DEF Dispatcher
<1>3. CASE \E p \in Parts : Worker(p)
  BY <1>3, QuietInv, AckInv, BeginInv, PublishInv, CommitInv, AbortInv DEF Worker
<1>4. CASE Environment
  BY <1>4, ProduceInv, RestartInv DEF Environment
<1> QED BY <1>1, <1>2, <1>3, <1>4 DEF Next

(***************************************************************************)
(* Whose transaction it is                                                 *)
(***************************************************************************)
\* What TxnOwned says of one worker: the mutex is his as long as he is in a
\* transaction.
Owns(p) == InTransaction(p) <=> txnMu = p

\* Nobody's mutex, no transaction, nothing in it.
Free == txnMu = Nobody /\ ~inTxn /\ open = {}

\* Once the mutex is free and nobody is in a transaction, all is well.
LEMMA FreeOwned == Free /\ (\A q \in Parts : ~InTransaction(q)) => TxnOwned
BY KafkaAssumption DEF Free, TxnOwned, Parts

LEMMA FreeOwnedNext == Free' /\ (\A q \in Parts : ~InTransaction(q))' => TxnOwned'
BY FreeOwned, PTL

\* Whoever changes neither the mutex nor who is in a transaction, nor what the
\* worker in it has in hand, keeps the three together.
LEMMA SameOwner ==
    ASSUME TxnOwned, UNCHANGED <<txnMu, inTxn>>,
           \A p \in Parts : InTransaction(p)' <=> InTransaction(p),
           \A p \in Parts : txnMu = p => Current(p)' = Current(p),
           open' \subseteq open \cup {Current(p) : p \in {q \in Parts : txnMu = q}}
    PROVE  TxnOwned'
<1>1. \A p \in Parts : Owns(p)'
  BY DEF TxnOwned, Owns
<1>2. open' \subseteq {Current(p)' : p \in {q \in Parts : txnMu = q}}
  BY DEF TxnOwned
<1> QED BY <1>1, <1>2 DEF TxnOwned, Owns

\* Whoever ends his transaction leaves nobody in one.
LEMMA EndOwned ==
    ASSUME IInv, NEW p \in Parts, InTransaction(p), EndTransaction(p),
           NEW x \in {"idle", "abort"}, pc' = [pc EXCEPT ![p] = x]
    PROVE  TxnOwned'
<1>1. /\ txnDone' \in [Parts -> BOOLEAN] /\ txnDone'[p]
      /\ inTxn' = FALSE /\ open' = {} /\ txnMu' = Nobody
      /\ \A q \in Parts : q # p => txnDone'[q] = txnDone[q] /\ ~InTransaction(q)
  BY EndInv
<1>2. pc \in [Parts -> {"idle", "ack", "begin", "publish", "offsets", "commit", "abort"}]
  BY DEF IInv, TypeOK
<1>3. \A q \in Parts : ~InTransaction(q)'
  BY <1>1, <1>2 DEF InTransaction
<1>4. Free'
  BY <1>1 DEF Free
<1> QED BY <1>3, <1>4, FreeOwnedNext

LEMMA OwnedWorker ==
    ASSUME IInv, TxnOwned, NEW p \in Parts, Worker(p)
    PROVE  TxnOwned'
<1>1. /\ pc \in [Parts -> {"idle", "ack", "begin", "publish", "offsets", "commit", "abort"}]
      /\ txnDone \in [Parts -> BOOLEAN]
  BY DEF IInv, TypeOK
<1>2. CASE HandlerOk(p) \/ HandlerErr(p) \/ SendOffsets(p)
  <2>1. UNCHANGED <<queue, txnMu, txnDone, inTxn, open>>
    BY <1>2 DEF HandlerOk, HandlerErr, SendOffsets, subVars, txnVars
  <2>2. \A q \in Parts : InTransaction(q)' <=> InTransaction(q)
    <3>1. \/ pc[p] = "idle" /\ \E x \in {"ack", "begin"} : pc' = [pc EXCEPT ![p] = x]
          \/ pc[p] = "offsets" /\ \E x \in {"commit", "abort"} : pc' = [pc EXCEPT ![p] = x]
      BY <1>2 DEF HandlerOk, HandlerErr, SendOffsets, Goto
    <3>2. pc[p] = "offsets" => ~txnDone[p]
      BY DEF IInv, Locked, InTransaction
    <3> QED BY <1>1, <2>1, <3>1, <3>2 DEF InTransaction
  <2> QED BY <2>1, <2>2, SameOwner DEF Current
<1>3. CASE Ack(p)
  <2>1. /\ UNCHANGED <<txnMu, txnDone, inTxn, open>> /\ Done(p)
        /\ pc[p] = "ack" /\ pc' = [pc EXCEPT ![p] = "idle"]
    BY <1>3 DEF Ack, Goto, txnVars
  <2>2. queue[p] # <<>> /\ ~InTransaction(p)
    BY <2>1 DEF IInv, Busy, InTransaction
  <2>3. txnMu # p
    BY <2>2 DEF TxnOwned
  <2>4. \A q \in Parts : q # p => queue'[q] = queue[q]
    BY <2>1, <2>2, DoneQueue
  <2>5. \A q \in Parts : txnMu = q => Current(q)' = Current(q)
    BY <2>3, <2>4 DEF Current
  <2>6. \A q \in Parts : InTransaction(q)' <=> InTransaction(q)
    BY <1>1, <2>1 DEF InTransaction
  <2> QED BY <2>1, <2>5, <2>6, SameOwner
<1>4. CASE BeginTxn(p)
  <2>1. pc[p] = "begin" /\ txnMu = Nobody /\ open' = open
    BY <1>4 DEF BeginTxn, Goto, Lock
  <2>2. \A q \in Parts : q # Nobody /\ ~InTransaction(q)
    BY <2>1, KafkaAssumption DEF TxnOwned, Parts
  <2>3. open = {} /\ ~inTxn
    BY <2>1, <2>2 DEF TxnOwned
  <2>4. CASE /\ txnMu' = p /\ inTxn' = TRUE /\ txnDone' = [txnDone EXCEPT ![p] = FALSE]
             /\ pc' = [pc EXCEPT ![p] = "publish"]
    <3>1. \A q \in Parts : Owns(q)'
      BY <1>1, <2>2, <2>4 DEF InTransaction, Owns
    <3> QED BY <2>1, <2>2, <2>3, <2>4, <3>1 DEF TxnOwned, Owns
  <2>5. CASE UNCHANGED <<txnMu, inTxn, txnDone>> /\ pc' = [pc EXCEPT ![p] = "idle"]
    <3>1. \A q \in Parts : InTransaction(q)' <=> InTransaction(q)
      BY <1>1, <2>1, <2>5 DEF InTransaction
    <3> QED BY <2>1, <2>2, <2>5, <3>1, SameOwner
  <2> QED BY <1>4, <2>4, <2>5 DEF BeginTxn, Goto, Lock
<1>5. CASE PublishTxn(p)
  <2>1. /\ UNCHANGED <<queue, txnMu, txnDone, inTxn>> /\ pc[p] = "publish"
        /\ open' \subseteq open \cup {Current(p)}
        /\ \E x \in {"offsets", "abort"} : pc' = [pc EXCEPT ![p] = x]
    BY <1>5 DEF PublishTxn, Goto, subVars
  <2>2. InTransaction(p) /\ ~txnDone[p] /\ txnMu = p
    BY <2>1 DEF InTransaction, IInv, Locked
  <2>3. \A q \in Parts : InTransaction(q)' <=> InTransaction(q)
    BY <1>1, <2>1, <2>2 DEF InTransaction
  <2>4. Current(p) \in {Current(q) : q \in {r \in Parts : txnMu = r}}
    BY <2>2
  <2> QED BY <2>1, <2>3, <2>4, SameOwner DEF Current
<1>6. CASE CommitTxn(p)
  <2>1. /\ InTransaction(p) /\ EndTransaction(p)
        /\ \E x \in {"idle", "abort"} : pc' = [pc EXCEPT ![p] = x]
    BY <1>6 DEF CommitTxn, Goto, InTransaction
  <2> QED BY <2>1, EndOwned
<1>7. CASE Abort(p)
  <2>1. pc[p] = "abort" /\ pc' = [pc EXCEPT ![p] = "idle"] /\ Done(p)
    BY <1>7 DEF Abort, Goto
  <2>2. CASE ~txnDone[p]
    BY <1>7, <2>1, <2>2, EndOwned DEF Abort, InTransaction
  <2>3. CASE txnDone[p]
    <3>1. UNCHANGED <<txnMu, txnDone, inTxn, open>> /\ ~InTransaction(p)
      BY <1>7, <2>1, <2>3 DEF Abort, InTransaction
    <3>2. queue[p] # <<>> /\ txnMu # p
      BY <2>1, <3>1 DEF IInv, Busy, TxnOwned
    <3>3. \A q \in Parts : q # p => queue'[q] = queue[q]
      BY <2>1, <3>2, DoneQueue
    <3>4. \A q \in Parts : txnMu = q => Current(q)' = Current(q)
      BY <3>2, <3>3 DEF Current
    <3>5. \A q \in Parts : InTransaction(q)' <=> InTransaction(q)
      BY <1>1, <2>1, <2>3, <3>1 DEF InTransaction
    <3> QED BY <3>1, <3>4, <3>5, SameOwner
  <2> QED BY <2>2, <2>3
<1> QED BY <1>2, <1>3, <1>4, <1>5, <1>6, <1>7 DEF Worker

LEMMA OwnedStep == IInv /\ TxnOwned /\ [Next]_vars => TxnOwned'
<1> SUFFICES ASSUME IInv, TxnOwned, [Next]_vars PROVE TxnOwned'
  OBVIOUS
<1>1. CASE UNCHANGED vars \/ \E p \in Parts : Produce(p)
  <2>1. UNCHANGED <<queue, pc, txnMu, txnDone, inTxn, open>>
    BY <1>1 DEF Produce, vars, subVars, txnVars
  <2> QED BY <2>1, SameOwner DEF InTransaction, Current
<1>2. CASE Dispatcher
  <2>1. UNCHANGED <<pc, txnMu, txnDone, inTxn, open>>
    BY <1>2 DEF Dispatcher, PollError, Poll, txnVars
  <2>2. ASSUME NEW q \in Parts, txnMu = q
        PROVE  Current(q)' = Current(q)
    <3>1. InTransaction(q)
      BY <2>2 DEF TxnOwned
    <3>2. queue[q] # <<>> /\ queue \in [Parts -> Seq(Nat)] /\ position \in [Parts -> Nat]
      BY <3>1 DEF IInv, Busy, TypeOK, InTransaction
    <3>3. CASE queue' = queue
      BY <3>3 DEF Current
    <3>4. CASE \E p \in Parts : queue' = [queue EXCEPT ![p] = Append(@, position[p])]
      BY <3>2, <3>4, SameHead DEF Current
    <3> QED BY <1>2, <3>3, <3>4 DEF Dispatcher, PollError, Poll
  <2>3. \A q \in Parts : InTransaction(q)' <=> InTransaction(q)
    BY <2>1 DEF InTransaction
  <2> QED BY <2>1, <2>2, <2>3, SameOwner
<1>3. CASE \E p \in Parts : Worker(p)
  BY <1>3, OwnedWorker
<1>4. CASE Restart
  <2>1. Free' /\ \A p \in Parts : ~InTransaction(p)'
    BY <1>4 DEF Restart, Free, InTransaction
  <2> QED BY <2>1, FreeOwnedNext
<1> QED BY <1>1, <1>2, <1>3, <1>4 DEF Next, Environment

(***************************************************************************)
(* Theorems                                                                *)
(***************************************************************************)
LEMMA Invariant == Spec => []IInv
BY InitInv, StepInv, PTL DEF Spec

\* Every variable keeps its type, and no position passes the end.
THEOREM TypeCorrect == Spec => []TypeOK
<1>1. IInv => TypeOK
  BY DEF IInv
<1> QED BY <1>1, Invariant, PTL

\* A record routed in a transaction that was committed is there: for any number
\* of workers that share the client, no Commit or Abort ends another's
\* transaction (txn.Commit, txn.Abort).
THEOREM CommittedIsVisible == Spec => []RoutedVisible
<1>1. IInv => RoutedVisible
  BY DEF IInv
<1> QED BY <1>1, Invariant, PTL

\* Commit followed by Abort unlocks txnMu once (txn.done).
THEOREM UnlockedOnce == Spec => []NoDoubleUnlock
<1>1. IInv => NoDoubleUnlock
  BY DEF IInv
<1> QED BY <1>1, Invariant, PTL

\* The mutex, the client's transaction and the worker that is in it are one:
\* whatever begin, publish, commit or abort fails, nobody keeps the mutex, and
\* no record of one worker is committed by another (BeginTxn, txn.Abort).
THEOREM OneOwner == Spec => []TxnOwned
<1>1. Init => TxnOwned
  BY FreeOwned DEF Init, Free, InTransaction
<1> QED BY <1>1, OwnedStep, Invariant, PTL DEF Spec

\* What Poll drops comes back with the next session, but for one record: no
\* commit passes any other (sub.Poll, sub.Commit, toKgo).
THEOREM DroppedComesBack == Spec => []OnlyFirstLost
<1>1. IInv => OnlyFirstLost
  <2> SUFFICES ASSUME IInv, NEW p \in Parts, NEW o \in 0 .. end[p] - 1, <<p, o>> # <<0, 0>>
               PROVE  o >= groupOffset[p]
    BY DEF OnlyFirstLost, InReach
  <2>1. groupOffset[p] \in Nat /\ end[p] \in Nat
    BY DEF IInv, TypeOK
  <2>2. groupOffset[p] <= (IF p = 0 THEN 1 ELSE 0)
    BY DEF IInv, Offsets
  <2>3. p = 0 => o # 0
    OBVIOUS
  <2> QED BY <2>1, <2>2, <2>3
<1> QED BY <1>1, Invariant, PTL
===========================================================================

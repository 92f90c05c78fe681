--------------------------- MODULE MemoryBroker ---------------------------
(***************************************************************************)
(* The in-memory broker and the subscriptions of one consumer group.       *)
(*                                                                         *)
(* A partition is a sequence of records; the record at offset o is element *)
(* o + 1.  Only committed records are ever appended (a transaction buffers *)
(* its records on the client side), so a read-committed subscription sees  *)
(* every record.  Closing the broker itself is not modelled.               *)
(***************************************************************************)
EXTENDS Topics, Integers, Sequences

CONSTANTS
    Sessions      \* subscriptions: one per call of Consumer.Run

VARIABLES
    log,          \* log[tp]: the records of partition tp
    offsets,      \* offsets[tp]: next offset the group consumes
    fenced,       \* TRUE while the broker refuses the producer
    fetch,        \* fetch[s][tp]: next offset s polls, Unpolled before the first
    revoked       \* revoked[s]: the partitions taken away from s

brokerVars == <<log, offsets, fenced, fetch, revoked>>

Unpolled == -1

BrokerInit ==
    /\ log = [tp \in TPs |-> << >>]
    /\ offsets = [tp \in TPs |-> 0]
    /\ fenced = FALSE
    /\ fetch = [s \in Sessions |-> [tp \in TPs |-> Unpolled]]
    /\ revoked = [s \in Sessions |-> {}]

Record(tp, o) == log[tp][o + 1]

Assigned(s, tp) == tp \notin revoked[s]

(***************************************************************************)
(* Polling: the first partition, in subscription order, with a record at   *)
(* the position of s.  The position starts at the committed offset, read   *)
(* when the partition is polled, not when the topic is subscribed.         *)
(***************************************************************************)
Position(s, tp) == IF fetch[s][tp] = Unpolled THEN offsets[tp]
                                              ELSE fetch[s][tp]

HasNext(s, tp) == /\ Assigned(s, tp)
                  /\ Position(s, tp) < Len(log[tp])

PollFrom(s, tp) ==
    /\ HasNext(s, tp)
    /\ \A other \in Subscribed : Precedes(other, tp) => ~HasNext(s, other)
    /\ fetch' = [fetch EXCEPT ![s][tp] = Position(s, tp) + 1]

(***************************************************************************)
(* Writing.  An offset commit never moves the group backwards.             *)
(***************************************************************************)
AppendTo(tp, r) == log' = [log EXCEPT ![tp] = Append(@, r)]

OffsetAfter_Last(cur, o) == o + 1
OffsetAfter_Twice(cur, o) == IF o + 2 > cur THEN o + 2 ELSE cur
OffsetAfter(cur, o) == IF o + 1 > cur THEN o + 1 ELSE cur

CommitOffset_NoPartition(tp, o) ==
    offsets' = [offsets EXCEPT ![PartitionOf(Stage(tp))] = OffsetAfter(@, o)]
CommitOffset(tp, o) == offsets' = [offsets EXCEPT ![tp] = OffsetAfter(@, o)]

TxnEffect_NoOffset(dest, r, tp, o) == AppendTo(dest, r) /\ UNCHANGED offsets

\* A transaction that published r to dest and sent the offset o of tp
\* commits: both become visible in one step.
TxnEffect(dest, r, tp, o) ==
    /\ AppendTo(dest, r)
    /\ CommitOffset(tp, o)

SetFenced == fenced' = ~fenced

Revoke(s, tp) == revoked' = [revoked EXCEPT ![s] = @ \cup {tp}]
===========================================================================

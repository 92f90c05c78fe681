------------------------------ MODULE Topics ------------------------------
(***************************************************************************)
(* The topics of one logical topic: the source topic the user publishes    *)
(* to, one retry topic per attempt, and the dead-letter topic.  The source *)
(* topic has the partitions Partitions; the consumer creates the others    *)
(* with one partition and publishes to their partition 0.                  *)
(*                                                                         *)
(* A topic is named by its stage: 0 is the source topic, k the retry topic *)
(* of attempt k, MaxRetries + 1 the dead-letter topic.                     *)
(***************************************************************************)
EXTENDS Naturals

CONSTANTS
    MaxRetries,   \* attempts after the first one (config.maxRetries)
    Partitions    \* partitions of the source topic

ASSUME TopicsAssumption ==
    /\ MaxRetries \in Nat
    /\ Partitions \subseteq Nat
    /\ 0 \in Partitions

Main == 0
Dlq  == MaxRetries + 1

TPs == ({Main} \X Partitions) \cup ((1 .. Dlq) \X {0})

Stage(tp) == tp[1]

\* The one partition of a retry topic or of the dead-letter topic.
PartitionOf(stage) == <<stage, 0>>

\* What Run subscribes to: the source topic and every retry topic.
Subscribed == {tp \in TPs : Stage(tp) # Dlq}

\* The order in which a subscription is scanned: topics as they were
\* subscribed (attempts ascending), then partitions ascending.
Precedes(a, b) == \/ a[1] < b[1]
                  \/ a[1] = b[1] /\ a[2] < b[2]

\* Where a record goes, and the attempt its header then carries, after its
\* attempt number att failed.
Destination(att)    == IF att < MaxRetries THEN PartitionOf(att + 1)
                                           ELSE PartitionOf(Dlq)
RoutedAttempt(att)  == IF att < MaxRetries THEN att + 1 ELSE att
===========================================================================

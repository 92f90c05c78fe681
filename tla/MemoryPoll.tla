---------------------------- MODULE MemoryPoll ----------------------------
(***************************************************************************)
(* How Poll of the in-memory broker waits.                                 *)
(*                                                                         *)
(* A poll scans the partitions of its subscription and, when it finds      *)
(* nothing, waits on a channel of one place, the token.  Whoever changes   *)
(* something a poll may be waiting for puts the token there unless it is   *)
(* there already: publishers and Close of the broker with the broker's     *)
(* mutex held, Close and revoke of a subscription without it, first the    *)
(* change and then, in a step of its own, the token.                       *)
(*                                                                         *)
(* A scan holds the mutex, and is one step: what a revocation or Close of  *)
(* the subscription writes meanwhile it reads at most once per partition,  *)
(* so it does the same as one that comes before or after.                  *)
(*                                                                         *)
(* Here positions start at 0 and nobody commits; offsets are the matter of *)
(* MemoryBroker.  A subscription has one poll at a time, as in Run.        *)
(***************************************************************************)
EXTENDS Integers

CONSTANTS
    Subs,         \* subscriptions, of any consumer group
    NParts        \* partitions 1 .. NParts, in the order they are scanned

ASSUME PollAssumption == NParts \in Nat \ {0}

Parts == 1 .. NParts

VARIABLES
    brokerClosed,
    count,        \* count[p]: records in partition p
    known,        \* the subscriptions the broker has handed out
    subClosed,    \* subClosed[s]
    revoked,      \* revoked[s]: partitions taken away from s
    fetch,        \* fetch[s][p]: position of s in p
    token,        \* token[s]: the channel of s is full
    owed,         \* owed[s]: callers that changed s and have not sent yet
    poll          \* poll[s]: "out", "scan" (about to scan), "empty" (found
                  \* nothing, holds no mutex and does not wait yet) or "wait"

pollVars == <<brokerClosed, count, known, subClosed, revoked, fetch,
              token, owed, poll>>

PollInit ==
    /\ brokerClosed = FALSE
    /\ count = [p \in Parts |-> 0]
    /\ known = {}
    /\ subClosed = [s \in Subs |-> FALSE]
    /\ revoked = [s \in Subs |-> {}]
    /\ fetch = [s \in Subs |-> [p \in Parts |-> 0]]
    /\ token = [s \in Subs |-> FALSE]
    /\ owed = [s \in Subs |-> 0]
    /\ poll = [s \in Subs |-> "out"]

Available(s, p) == p \notin revoked[s] /\ fetch[s][p] < count[p]

(***************************************************************************)
(* Calls on the broker, which hold its mutex from beginning to end         *)
(***************************************************************************)
WakeAll_Waiting == token' = [s \in Subs |-> token[s] \/ poll[s] = "wait"]
WakeAll == token' = [s \in Subs |-> token[s] \/ s \in known]

Publish(p) ==
    /\ ~brokerClosed
    /\ count' = [count EXCEPT ![p] = @ + 1]
    /\ WakeAll
    /\ UNCHANGED <<brokerClosed, known, subClosed, revoked, fetch, owed, poll>>

\* Creating topics adds no record and wakes everybody.
CreateTopics ==
    /\ ~brokerClosed
    /\ WakeAll
    /\ UNCHANGED <<brokerClosed, count, known, subClosed, revoked, fetch, owed, poll>>

Subscribe(s) ==
    /\ ~brokerClosed
    /\ s \notin known
    /\ known' = known \cup {s}
    /\ UNCHANGED <<brokerClosed, count, subClosed, revoked, fetch, token, owed, poll>>

CloseBroker_Silent ==
    /\ brokerClosed' = TRUE
    /\ UNCHANGED <<count, known, subClosed, revoked, fetch, token, owed, poll>>

CloseBroker ==
    /\ brokerClosed' = TRUE
    /\ WakeAll
    /\ UNCHANGED <<count, known, subClosed, revoked, fetch, owed, poll>>

(***************************************************************************)
(* Calls on a subscription: the change, then the token                     *)
(***************************************************************************)
Owe(s) == owed' = [owed EXCEPT ![s] = @ + 1]

MarkClosed(s) ==
    /\ s \in known
    /\ subClosed' = [subClosed EXCEPT ![s] = TRUE]
    /\ Owe(s)
    /\ UNCHANGED <<brokerClosed, count, known, revoked, fetch, token, poll>>

MarkRevoked(s, p) ==
    /\ s \in known
    /\ revoked' = [revoked EXCEPT ![s] = @ \cup {p}]
    /\ Owe(s)
    /\ UNCHANGED <<brokerClosed, count, known, subClosed, fetch, token, poll>>

SendToken(s) ==
    /\ owed[s] > 0
    /\ owed' = [owed EXCEPT ![s] = @ - 1]
    /\ token' = [token EXCEPT ![s] = TRUE]
    /\ UNCHANGED <<brokerClosed, count, known, subClosed, revoked, fetch, poll>>

(***************************************************************************)
(* Poll                                                                    *)
(***************************************************************************)
PollStep(s, from, to) == poll[s] = from /\ poll' = [poll EXCEPT ![s] = to]

Call(s) ==
    /\ s \in known
    /\ PollStep(s, "out", "scan")
    /\ UNCHANGED <<brokerClosed, count, known, subClosed, revoked, fetch, token, owed>>

\* tryPoll: ErrClosed, the first record there is, or nothing.
PollClosed(s) ==
    /\ brokerClosed \/ subClosed[s]
    /\ PollStep(s, "scan", "out")
    /\ UNCHANGED <<brokerClosed, count, known, subClosed, revoked, fetch, token, owed>>

Scanning(s) == ~brokerClosed /\ ~subClosed[s]

PollRecord(s, p) ==
    /\ Scanning(s)
    /\ Available(s, p)
    /\ \A q \in Parts : q < p => ~Available(s, q)
    /\ PollStep(s, "scan", "out")
    /\ fetch' = [fetch EXCEPT ![s][p] = @ + 1]
    /\ UNCHANGED <<brokerClosed, count, known, subClosed, revoked, token, owed>>

PollEmpty(s) ==
    /\ Scanning(s)
    /\ \A p \in Parts : ~Available(s, p)
    /\ PollStep(s, "scan", "empty")
    /\ UNCHANGED <<brokerClosed, count, known, subClosed, revoked, fetch, token, owed>>

Block_Drains(s) ==
    /\ PollStep(s, "empty", "wait")
    /\ token' = [token EXCEPT ![s] = FALSE]
    /\ UNCHANGED <<brokerClosed, count, known, subClosed, revoked, fetch, owed>>

Block(s) ==
    /\ PollStep(s, "empty", "wait")
    /\ UNCHANGED <<brokerClosed, count, known, subClosed, revoked, fetch, token, owed>>

Wake(s) ==
    /\ token[s]
    /\ PollStep(s, "wait", "scan")
    /\ token' = [token EXCEPT ![s] = FALSE]
    /\ UNCHANGED <<brokerClosed, count, known, subClosed, revoked, fetch, owed>>

\* The context of the call is done; only a poll that waits looks at it.
PollCancelled(s) ==
    /\ PollStep(s, "wait", "out")
    /\ UNCHANGED <<brokerClosed, count, known, subClosed, revoked, fetch, token, owed>>

PollNext ==
    \/ CreateTopics \/ CloseBroker
    \/ \E p \in Parts : Publish(p)
    \/ \E s \in Subs :
         \/ Subscribe(s) \/ MarkClosed(s) \/ SendToken(s)
         \/ Call(s) \/ PollClosed(s) \/ PollEmpty(s) \/ Block(s) \/ Wake(s)
         \/ PollCancelled(s)
         \/ \E p \in Parts : MarkRevoked(s, p) \/ PollRecord(s, p)

PollSpec == PollInit /\ [][PollNext]_pollVars

(***************************************************************************)
(* Properties                                                              *)
(***************************************************************************)
PollTypeOK ==
    /\ brokerClosed \in BOOLEAN
    /\ count \in [Parts -> Nat]
    /\ known \in SUBSET Subs
    /\ subClosed \in [Subs -> BOOLEAN]
    /\ revoked \in [Subs -> SUBSET Parts]
    /\ fetch \in [Subs -> [Parts -> Nat]]
    /\ token \in [Subs -> BOOLEAN]
    /\ owed \in [Subs -> Nat]
    /\ poll \in [Subs -> {"out", "scan", "empty", "wait"}]

\* No wake-up of Poll is lost: a poll that found nothing, with an empty channel
\* and nobody about to fill it, has nothing to wait for.  Neither a publish nor
\* a close that falls between its scan and its wait, or that finds the channel
\* full, leaves it asleep (memSub.Poll, wakeLocked).
NoLostWakeup ==
    \A s \in Subs : poll[s] \in {"empty", "wait"} /\ ~token[s] /\ owed[s] = 0 =>
      /\ ~brokerClosed /\ ~subClosed[s]
      /\ \A p \in Parts : ~Available(s, p)
===========================================================================

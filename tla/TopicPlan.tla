----------------------------- MODULE TopicPlan -----------------------------
(***************************************************************************)
(* Several handlers on one consumer: the topics Run subscribes to, the     *)
(* handler a record is looked up for, and the topic it is routed to when   *)
(* that handler fails, with any names a TopicNamer may give and with calls *)
(* of Handle before, between and during runs.                              *)
(*                                                                         *)
(* One record is followed on its way: records do not meet.  That it may be *)
(* lost while it is routed is the matter of Consumer, where the topics of  *)
(* one handler are told apart by their stage (Topics).                     *)
(***************************************************************************)
EXTENDS Naturals

CONSTANTS
    Logical,      \* topics Handle may be called with
    Names,        \* all topics
    NoTopic,      \* a header that is not there
    MaxAttempts,  \* bound on WithMaxAttempts
    Namers        \* the TopicNamers considered: retry[t][k] and dlq[t]

Attempts == 1 .. MaxAttempts
AllNamers == [retry : [Logical -> [Attempts -> Names]], dlq : [Logical -> Names]]

ASSUME PlanAssumption ==
    /\ Logical \subseteq Names
    /\ NoTopic \notin Names
    /\ MaxAttempts \in Nat
    /\ Namers \subseteq AllNamers

VARIABLES
    namer,
    dlqEnabled,
    handlers,     \* c.handlers: the attempts of each topic that has a handler
    plan,         \* what the live run is subscribed to, {} if there is none
    record,       \* the record: its topic, x-original-topic, x-retry-attempt
    stage,        \* "none" yet, "waits" in a topic, "over", or "unhandled"
    home,         \* the topic in Logical it was published to, or NoTopic
    fails,        \* how often a handler failed on it (history)
    dead,         \* it was dead-lettered last (history)
    lowered       \* Handle lowered the attempts of a topic (history)

config == <<namer, dlqEnabled>>
vars == <<config, handlers, plan, record, stage, home, fails, dead, lowered>>

Init ==
    /\ namer \in Namers
    /\ dlqEnabled \in BOOLEAN
    /\ handlers = [t \in {} |-> 0]
    /\ plan = {}
    /\ record = [topic |-> NoTopic, orig |-> NoTopic, attempt |-> 0]
    /\ stage = "none"
    /\ home = NoTopic
    /\ fails = 0
    /\ dead = FALSE
    /\ lowered = FALSE

Registered == DOMAIN handlers

(***************************************************************************)
(* The plan of a run                                                       *)
(***************************************************************************)
RetryTopics(t) == {namer.retry[t][k] : k \in 1 .. handlers[t]}

\* validateTopicNames: a retry topic is compared with its source and with the
\* one before it, the dead-letter topic with the source only.
ValidNames(t) ==
    /\ \A k \in 1 .. handlers[t] :
         /\ namer.retry[t][k] # t
         /\ k > 1 => namer.retry[t][k] # namer.retry[t][k - 1]
    /\ dlqEnabled => namer.dlq[t] # t

Planned_OneShort ==
    Registered \cup
      UNION {{namer.retry[t][k] : k \in 1 .. handlers[t] - 1} : t \in Registered}
Planned == Registered \cup UNION {RetryTopics(t) : t \in Registered}

Handle(t, max) ==
    /\ handlers' = [u \in Registered \cup {t} |-> IF u = t THEN max ELSE handlers[u]]
    /\ lowered' = (lowered \/ (t \in Registered /\ max < handlers[t]))
    /\ UNCHANGED <<config, plan, record, stage, home, fails, dead>>

Run ==
    /\ plan = {}
    /\ Registered # {}
    /\ \A t \in Registered : ValidNames(t)
    /\ plan' = Planned
    /\ UNCHANGED <<config, handlers, record, stage, home, fails, dead, lowered>>

EndRun ==
    /\ plan # {}
    /\ plan' = {}
    /\ UNCHANGED <<config, handlers, record, stage, home, fails, dead, lowered>>

(***************************************************************************)
(* The record                                                              *)
(***************************************************************************)
\* topicMatchesLogical
Matches(topic, t) ==
    \/ topic = t
    \/ topic \in RetryTopics(t)
    \/ dlqEnabled /\ topic = namer.dlq[t]

Lookup_NamesOnly ==
    IF record.topic \in Registered
      THEN {record.topic}
      ELSE {t \in Registered : Matches(record.topic, t)}

\* The handlers lookup may find: by the topic, by x-original-topic, and else
\* by the names, in the random order of a Go map.
Lookup ==
    IF record.topic \in Registered THEN {record.topic}
    ELSE IF record.orig # NoTopic THEN {record.orig} \cap Registered
    ELSE {t \in Registered : Matches(record.topic, t)}

Delivered == stage = "waits" /\ record.topic \in plan

\* A producer may publish to any topic.
Publish(topic) ==
    /\ stage = "none"
    /\ stage' = "waits"
    /\ record' = [record EXCEPT !.topic = topic]
    /\ home' = IF topic \in Logical THEN topic ELSE NoTopic
    /\ UNCHANGED <<config, handlers, plan, fails, dead, lowered>>

\* process commits a record no handler is found for.
NoHandler ==
    /\ Delivered
    /\ Lookup = {}
    /\ stage' = "unhandled"
    /\ UNCHANGED <<config, handlers, plan, record, home, fails, dead, lowered>>

HandlerOk ==
    /\ Delivered
    /\ Lookup # {}
    /\ stage' = "over"
    /\ UNCHANGED <<config, handlers, plan, record, home, fails, dead, lowered>>

\* The attempt a routed record carries: that of the retry topic, and the same
\* as before in the dead-letter topic.
RoutedAttempt_Kept(t) == record.attempt
RoutedAttempt_Grows(t) == record.attempt + 1
RoutedAttempt(t) ==
    IF record.attempt < handlers[t] THEN record.attempt + 1 ELSE record.attempt

Origin_Last == record.topic
Origin == IF record.orig = NoTopic THEN record.topic ELSE record.orig

RoutedTo(topic, t) ==
    record' = [topic |-> topic, orig |-> Origin, attempt |-> RoutedAttempt(t)]

\* Bound: failures are counted up to MaxAttempts + 2.
Count == fails' = IF fails < MaxAttempts + 2 THEN fails + 1 ELSE fails

Retry(t) ==
    /\ Delivered
    /\ t \in Lookup
    /\ record.attempt < handlers[t]
    /\ RoutedTo(namer.retry[t][record.attempt + 1], t)
    /\ dead' = FALSE
    /\ Count
    /\ UNCHANGED <<config, handlers, plan, stage, home, lowered>>

DeadLetter(t) ==
    /\ Delivered
    /\ t \in Lookup
    /\ record.attempt >= handlers[t]
    /\ dlqEnabled
    /\ RoutedTo(namer.dlq[t], t)
    /\ dead' = TRUE
    /\ Count
    /\ UNCHANGED <<config, handlers, plan, stage, home, lowered>>

Exhaust(t) ==
    /\ Delivered
    /\ t \in Lookup
    /\ record.attempt >= handlers[t]
    /\ ~dlqEnabled
    /\ stage' = "over"
    /\ Count
    /\ UNCHANGED <<config, handlers, plan, record, home, dead, lowered>>

Next ==
    \/ \E t \in Logical, max \in 0 .. MaxAttempts : Handle(t, max)
    \/ Run \/ EndRun
    \/ \E topic \in Names : Publish(topic)
    \/ NoHandler \/ HandlerOk
    \/ \E t \in Logical : Retry(t) \/ DeadLetter(t) \/ Exhaust(t)

Spec == Init /\ [][Next]_vars

(***************************************************************************)
(* Properties                                                              *)
(***************************************************************************)
\* Every variable has its type.
TypeOK ==
    /\ namer \in AllNamers
    /\ dlqEnabled \in BOOLEAN
    /\ Registered \subseteq Logical
    /\ handlers \in [Registered -> 0 .. MaxAttempts]
    /\ plan \in SUBSET Names
    /\ record \in [topic : Names \cup {NoTopic}, orig : Names \cup {NoTopic},
                   attempt : 0 .. MaxAttempts]
    /\ stage \in {"none", "waits", "over", "unhandled"}
    /\ home \in Logical \cup {NoTopic}
    /\ fails \in 0 .. MaxAttempts + 2
    /\ dead \in BOOLEAN
    /\ lowered \in BOOLEAN

\* What the code does not check: no name given to a topic is also a topic with
\* a handler of its own.  Topics and attempts may share their names.
NamesApart ==
    \A t \in Logical :
      /\ namer.dlq[t] \notin Logical
      /\ \A k \in Attempts : namer.retry[t][k] \notin Logical

\* Nor that a dead-letter topic is not somebody's retry topic.
DlqApart ==
    \A t, u \in Logical : \A k \in Attempts : namer.dlq[t] # namer.retry[u][k]

\* A record only ever goes to the handler of the topic it was published to,
\* also from a retry topic that two handlers share, and whatever Handle does
\* meanwhile (lookup, attachRetryMetadata).
SameHandler ==
    NamesApart /\ home # NoTopic /\ stage = "waits" => Lookup \subseteq {home}

\* A record published to a topic with a handler is never committed for want of
\* a handler, whatever topic it was routed to (process, lookup).
NeverUnhandled ==
    NamesApart /\ home # NoTopic => stage # "unhandled"

\* Its handlers fail at most once per attempt: it does not go round in circles
\* between topics, even if Handle changes the attempts on the way.
FailuresBounded ==
    NamesApart /\ DlqApart /\ home # NoTopic => fails <= MaxAttempts + 1

\* The next run subscribes to the topic it waits in, unless its attempts were
\* lowered meanwhile: what failAndRoute publishes to and what topicPlanLocked
\* subscribes to agree.
NothingStranded ==
    NamesApart /\ stage = "waits" /\ ~dead /\ ~lowered /\ home \in Registered
      => record.topic \in Planned
===========================================================================

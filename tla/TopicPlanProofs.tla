-------------------------- MODULE TopicPlanProofs --------------------------
(***************************************************************************)
(* Whatever names a TopicNamer gives, as long as none is the name of a     *)
(* topic with a handler of its own: a record stays with its handler, fails *)
(* at most once per attempt and waits where the next run looks for it.     *)
(*                                                                         *)
(* The invariant behind all four says where a record is: it was never      *)
(* routed and waits where it was published, or its origin names its home,  *)
(* it waits in a topic without a handler, and that topic is the retry      *)
(* topic of its attempt or the dead-letter topic.                          *)
(***************************************************************************)
EXTENDS TopicPlan, TLAPS

\* What a run may be subscribed to.
PlanInv ==
    plan \subseteq
      Registered \cup UNION {{namer.retry[t][k] : k \in Attempts} : t \in Logical}

\* A record that nobody has published yet.
Unpublished ==
    /\ home = NoTopic
    /\ record = [topic |-> NoTopic, orig |-> NoTopic, attempt |-> 0]
    /\ fails = 0
    /\ ~dead

Fresh == record.topic = home /\ record.attempt = 0 /\ ~dead

Routed ==
    /\ record.orig = home
    /\ home \in Registered
    /\ record.topic \notin Logical
    /\ IF dead
         THEN record.topic = namer.dlq[home]
         ELSE /\ record.attempt \in Attempts
              /\ record.topic = namer.retry[home][record.attempt]
              /\ lowered \/ record.attempt <= handlers[home]

\* Where a record that waits is.
Placed ==
    NamesApart /\ home # NoTopic =>
      /\ stage # "unhandled"
      /\ stage = "waits" => IF record.orig = NoTopic THEN Fresh ELSE Routed

\* How its failures and its attempt go together.
Counted ==
    NamesApart /\ DlqApart /\ home # NoTopic =>
      /\ fails <= record.attempt + 1
      /\ stage = "waits" /\ ~dead => fails = record.attempt

IInv ==
    /\ TypeOK
    /\ PlanInv
    /\ stage = "none" => Unpublished
    /\ Placed
    /\ Counted

(***************************************************************************)
(* Facts about single states                                               *)
(***************************************************************************)
\* The topics of the plan are names.
LEMMA PlannedTopics ==
    ASSUME TypeOK
    PROVE  /\ Planned \subseteq Names
           /\ Planned \subseteq
                Registered \cup UNION {{namer.retry[t][k] : k \in Attempts} : t \in Logical}
<1> USE PlanAssumption
<1>1. \A t \in Registered : RetryTopics(t) \subseteq {namer.retry[t][k] : k \in Attempts}
  BY DEF RetryTopics, TypeOK, Attempts, Registered
<1>2. \A t \in Logical : {namer.retry[t][k] : k \in Attempts} \subseteq Names
  BY DEF TypeOK, AllNamers
<1>3. Registered \subseteq Logical /\ Logical \subseteq Names
  BY DEF TypeOK
<1> QED BY <1>1, <1>2, <1>3 DEF Planned

\* A record is looked up for its home only.
LEMMA LookupHome ==
    ASSUME IInv, NamesApart, home # NoTopic, stage = "waits"
    PROVE  Lookup \subseteq {home}
<1> USE PlanAssumption
<1>1. home \in Logical
  BY DEF IInv, TypeOK
<1>2. CASE record.orig = NoTopic
  <2>1. record.topic = home
    BY <1>2 DEF IInv, Placed, Fresh
  <2>2. SUFFICES ASSUME record.topic \notin Registered, NEW t \in Registered,
                        Matches(record.topic, t)
                 PROVE  t = home
    BY <1>2, <2>1 DEF Lookup
  <2>3. t \in Logical /\ handlers[t] \in 0 .. MaxAttempts
    BY DEF IInv, TypeOK
  <2>4. home \notin RetryTopics(t)
    BY <1>1, <2>3 DEF RetryTopics, NamesApart, Attempts
  <2>5. home # namer.dlq[t]
    BY <1>1, <2>3 DEF NamesApart
  <2> QED BY <2>1, <2>2, <2>4, <2>5 DEF Matches
<1>3. CASE record.orig # NoTopic
  <2>1. Routed
    BY <1>3 DEF IInv, Placed
  <2>2. record.topic \notin Registered /\ record.orig = home
    BY <2>1 DEF Routed, IInv, TypeOK
  <2> QED BY <1>3, <2>2 DEF Lookup
<1> QED BY <1>2, <1>3

\* A record that is delivered has a handler, and has not been dead-lettered
\* if dead-letter topics are nobody's retry topics.
LEMMA DeliveredHome ==
    ASSUME IInv, NamesApart, home # NoTopic, Delivered
    PROVE  /\ home \in Registered \/ record.orig = NoTopic
           /\ record.orig # NoTopic => Lookup = {home}
           /\ DlqApart => ~dead
<1> USE PlanAssumption
<1>1. IF record.orig = NoTopic THEN Fresh ELSE Routed
  BY DEF IInv, Placed, Delivered
<1>2. home \in Registered \/ record.orig = NoTopic
  BY <1>1 DEF Routed
<1>3. record.orig # NoTopic => Lookup = {home}
  <2>1. SUFFICES ASSUME record.orig # NoTopic PROVE Lookup = {home}
    OBVIOUS
  <2>2. record.topic \notin Registered /\ record.orig = home /\ home \in Registered
    BY <1>1, <2>1 DEF Routed, IInv, TypeOK
  <2> QED BY <2>1, <2>2 DEF Lookup
<1>4. DlqApart => ~dead
  <2>1. SUFFICES ASSUME DlqApart, dead PROVE FALSE
    OBVIOUS
  <2>2. Routed
    BY <1>1, <2>1 DEF Fresh
  <2>3. record.topic = namer.dlq[home] /\ record.topic \notin Logical
    BY <2>1, <2>2 DEF Routed
  <2>4. home \in Logical /\ Registered \subseteq Logical
    BY DEF IInv, TypeOK
  <2>5. PICK t \in Logical, k \in Attempts : record.topic = namer.retry[t][k]
    BY <2>3, <2>4 DEF IInv, PlanInv, Delivered
  <2> QED BY <2>1, <2>3, <2>4, <2>5 DEF DlqApart
<1> QED BY <1>2, <1>3, <1>4

(***************************************************************************)
(* The invariant                                                           *)
(***************************************************************************)
LEMMA InitInv == Init => IInv
<1> USE PlanAssumption
<1> SUFFICES ASSUME Init PROVE IInv
  OBVIOUS
<1>1. TypeOK
  <2>1. Registered = {}
    BY DEF Init, Registered
  <2>3. handlers \in [Registered -> 0 .. MaxAttempts]
    BY <2>1 DEF Init
  <2>2. record \in [topic : Names \cup {NoTopic}, orig : Names \cup {NoTopic},
                    attempt : 0 .. MaxAttempts]
    BY DEF Init
  <2>4. /\ namer \in AllNamers /\ dlqEnabled \in BOOLEAN /\ plan \in SUBSET Names
        /\ stage = "none" /\ home = NoTopic /\ fails = 0 /\ dead = FALSE
        /\ lowered = FALSE
    BY DEF Init
  <2>5. fails \in 0 .. MaxAttempts + 2
    BY <2>4
  <2> QED BY <2>1, <2>2, <2>3, <2>4, <2>5 DEF TypeOK
<1>2. PlanInv /\ Unpublished
  BY DEF Init, PlanInv, Unpublished
<1> QED BY <1>1, <1>2 DEF IInv, Placed, Counted, Unpublished, Init

\* Nothing is said of a record but through the variables of Placed.
LEMMA SameRecord ==
    ASSUME IInv, UNCHANGED <<config, handlers, record, stage, home, fails, dead, lowered>>
    PROVE  (stage = "none" => Unpublished)' /\ Placed' /\ Counted'
BY DEF IInv, config, Unpublished, Placed, Fresh, Routed, Counted, NamesApart, DlqApart,
       Registered

LEMMA HandleInv ==
    ASSUME IInv, NEW t \in Logical, NEW max \in 0 .. MaxAttempts, Handle(t, max)
    PROVE  IInv'
<1> USE PlanAssumption
<1>1. UNCHANGED <<namer, dlqEnabled, plan, record, stage, home, fails, dead>>
  BY DEF Handle, config
<1>2. /\ Registered' = Registered \cup {t}
      /\ handlers' \in [Registered' -> 0 .. MaxAttempts]
      /\ \A u \in Registered : u # t => handlers'[u] = handlers[u]
      /\ handlers'[t] = max
  BY DEF Handle, IInv, TypeOK, Registered
<1>3. lowered' \in BOOLEAN /\ (lowered => lowered')
      /\ (t \in Registered /\ ~lowered' => max >= handlers[t])
  <2>1. lowered \in BOOLEAN /\ lowered' = (lowered \/ (t \in Registered /\ max < handlers[t]))
    BY DEF Handle, IInv, TypeOK
  <2>2. t \in Registered => handlers[t] \in 0 .. MaxAttempts
    BY DEF IInv, TypeOK
  <2>3. lowered' \in BOOLEAN /\ (lowered => lowered')
    BY <2>1, Zenon
  <2>4. ASSUME t \in Registered, ~lowered' PROVE max >= handlers[t]
    <3>1. ~(max < handlers[t])
      BY <2>1, <2>4, Zenon
    <3> QED BY <3>1, <2>2, <2>4
  <2> QED BY <2>3, <2>4
<1>4. TypeOK'
  BY <1>1, <1>2, <1>3 DEF IInv, TypeOK
<1>5. PlanInv' /\ (stage = "none" => Unpublished)'
  BY <1>1, <1>2 DEF IInv, PlanInv, Unpublished
<1>6. Counted'
  BY <1>1 DEF IInv, Counted, NamesApart, DlqApart
<1>7. Placed'
  <2>1. SUFFICES ASSUME NamesApart, home # NoTopic, stage = "waits", record.orig # NoTopic
                 PROVE  Routed'
    BY <1>1 DEF IInv, Placed, NamesApart, Fresh
  <2>2. Routed
    BY <2>1 DEF IInv, Placed
  <2>3. home \in Registered'
    BY <2>2, <1>2 DEF Routed
  <2>4. ~dead => lowered' \/ record.attempt <= handlers'[home]
    <3>1. CASE home = t
      <4>1. t \in Registered /\ handlers[t] \in 0 .. MaxAttempts
        BY <2>2, <3>1 DEF Routed, IInv, TypeOK
      <4>2. record.attempt \in 0 .. MaxAttempts
        BY DEF IInv, TypeOK
      <4> QED BY <2>2, <3>1, <4>1, <4>2, <1>2, <1>3 DEF Routed
    <3>2. CASE home # t
      BY <2>2, <3>2, <1>2, <1>3 DEF Routed
    <3> QED BY <3>1, <3>2
  <2> QED BY <2>2, <2>3, <2>4, <1>1 DEF Routed
<1> QED BY <1>4, <1>5, <1>6, <1>7 DEF IInv

LEMMA PlanningInv ==
    ASSUME IInv, Run \/ EndRun
    PROVE  IInv'
<1> USE PlanAssumption
<1>1. UNCHANGED <<config, handlers, record, stage, home, fails, dead, lowered>>
  BY DEF Run, EndRun
<1>2. plan' = Planned \/ plan' = {}
  BY DEF Run, EndRun
<1>3. plan' \subseteq Names /\ PlanInv'
  BY <1>1, <1>2, PlannedTopics DEF IInv, PlanInv, config, Registered
<1>4. TypeOK'
  BY <1>1, <1>3 DEF IInv, TypeOK, config, Registered
<1> QED BY <1>1, <1>3, <1>4, SameRecord DEF IInv

LEMMA PublishInv ==
    ASSUME IInv, NEW topic \in Names, Publish(topic)
    PROVE  IInv'
<1> USE PlanAssumption
<1>1. UNCHANGED <<config, handlers, plan, fails, dead, lowered>> /\ stage' = "waits"
  BY DEF Publish
<1>2. Unpublished
  BY DEF IInv, Publish
<1>3. record' = [topic |-> topic, orig |-> NoTopic, attempt |-> 0]
  BY <1>2 DEF Publish, Unpublished
<1>4. home' \in Logical \cup {NoTopic} /\ (home' # NoTopic => home' = topic)
  BY DEF Publish
<1>5. TypeOK'
  BY <1>1, <1>3, <1>4 DEF IInv, TypeOK, config, Registered
<1>6. Placed' /\ Counted'
  BY <1>1, <1>2, <1>3, <1>4 DEF Placed, Fresh, Counted, Unpublished
<1> QED BY <1>1, <1>5, <1>6 DEF IInv, PlanInv, config, Registered

\* Whoever has a home has a handler.
LEMMA StopInv ==
    ASSUME IInv, NoHandler \/ HandlerOk
    PROVE  IInv'
<1> USE PlanAssumption
<1>1. UNCHANGED <<config, handlers, plan, record, home, fails, dead, lowered>>
      /\ stage' \in {"over", "unhandled"} /\ Delivered
  BY DEF NoHandler, HandlerOk
<1>2. TypeOK' /\ PlanInv'
  BY <1>1 DEF IInv, TypeOK, PlanInv, config, Registered
<1>3. Counted'
  BY <1>1 DEF IInv, Counted, NamesApart, DlqApart, config
<1>4. Placed'
  <2>1. SUFFICES ASSUME NamesApart, home # NoTopic, stage' = "unhandled"
                 PROVE  FALSE
    BY <1>1 DEF Placed, NamesApart, config
  <2>2. Lookup = {}
    BY <2>1 DEF NoHandler, HandlerOk
  <2>3. record.orig = NoTopic
    BY <2>1, <2>2, <1>1, DeliveredHome
  <2>4. record.topic = home /\ home \in Logical
    BY <2>1, <2>3, <1>1 DEF IInv, Placed, Fresh, Delivered, TypeOK
  <2>5. home \notin Registered
    BY <2>2, <2>4 DEF Lookup
  <2>6. PICK t \in Logical, k \in Attempts : home = namer.retry[t][k]
    BY <2>4, <2>5, <1>1 DEF IInv, PlanInv, Delivered
  <2> QED BY <2>1, <2>4, <2>6 DEF NamesApart
<1> QED BY <1>1, <1>2, <1>3, <1>4 DEF IInv

\* A handler fails: the record is routed, or given up.
LEMMA FailInv ==
    ASSUME IInv, NEW t \in Logical, Retry(t) \/ DeadLetter(t) \/ Exhaust(t)
    PROVE  IInv'
<1> USE PlanAssumption
<1>1. /\ UNCHANGED <<config, handlers, plan, home, lowered>>
      /\ Delivered /\ t \in Lookup /\ Count
  BY DEF Retry, DeadLetter, Exhaust
<1>2. t \in Registered /\ handlers[t] \in 0 .. MaxAttempts
  <2>1. t \in Registered
    BY <1>1 DEF Lookup
  <2> QED BY <2>1 DEF IInv, TypeOK
<1>3. record.attempt \in 0 .. MaxAttempts /\ fails \in 0 .. MaxAttempts + 2
  BY DEF IInv, TypeOK
<1>4. fails' \in 0 .. MaxAttempts + 2 /\ fails' <= fails + 1
      /\ (fails < MaxAttempts + 2 => fails' = fails + 1)
  BY <1>1, <1>3 DEF Count
<1>5. Origin \in Names \cup {NoTopic} /\ (record.topic # NoTopic => Origin # NoTopic)
  BY DEF IInv, TypeOK, Origin
<1>6. ASSUME NamesApart, home # NoTopic
      PROVE  /\ t = home /\ home \in Logical /\ Origin = home
             /\ DlqApart => ~dead
             /\ DlqApart => fails = record.attempt
  <2>1. t = home /\ home \in Logical
    BY <1>1, <1>6, LookupHome DEF Delivered, IInv, TypeOK
  <2>2. Origin = home
    BY <1>1, <1>6 DEF IInv, Placed, Delivered, Fresh, Routed, Origin
  <2>3. DlqApart => ~dead
    BY <1>1, <1>6, DeliveredHome
  <2> QED BY <1>1, <1>6, <2>1, <2>2, <2>3 DEF IInv, Counted, Delivered
<1>7. CASE Retry(t)
  <2>1. /\ record' = [topic |-> namer.retry[t][record.attempt + 1],
                      orig |-> Origin, attempt |-> record.attempt + 1]
        /\ record.attempt < handlers[t] /\ stage' = stage /\ dead' = FALSE
    BY <1>7 DEF Retry, RoutedTo, RoutedAttempt
  <2>2. record.attempt + 1 \in Attempts
    BY <2>1, <1>2, <1>3 DEF Attempts
  <2>3. namer.retry[t][record.attempt + 1] \in Names
    BY <2>2 DEF IInv, TypeOK, AllNamers
  <2>4. record' \in [topic : Names \cup {NoTopic}, orig : Names \cup {NoTopic},
                     attempt : 0 .. MaxAttempts]
    BY <2>1, <2>2, <2>3, <1>5 DEF Attempts
  <2>5. TypeOK'
    BY <2>1, <2>4, <1>1, <1>4 DEF IInv, TypeOK, config, Registered
  <2>6. Placed'
    <3>1. SUFFICES ASSUME NamesApart, home # NoTopic PROVE Routed' /\ stage' # "unhandled"
      BY <1>1, <1>5, <1>6, <2>1 DEF Placed, NamesApart, config
    <3>2. t = home /\ Origin = home
      BY <3>1, <1>6
    <3>3. namer.retry[home][record.attempt + 1] \notin Logical
      BY <3>1, <1>6, <2>2 DEF NamesApart
    <3>4. /\ record'.orig = home /\ record'.attempt = record.attempt + 1
          /\ record'.topic = namer.retry[home][record.attempt + 1]
      BY <3>2, <2>1
    <3>5. UNCHANGED <<home, handlers, namer>> /\ stage' = "waits" /\ dead' = FALSE
      BY <1>1, <2>1 DEF config, Delivered
    <3>6. home \in Registered /\ record.attempt + 1 <= handlers[home]
      BY <3>2, <2>1, <1>2, <1>3
    <3> QED BY <3>3, <3>4, <3>5, <3>6, <2>2 DEF Routed, Registered
  <2>7. Counted'
    <3>1. SUFFICES ASSUME NamesApart, DlqApart, home # NoTopic
                   PROVE  fails' = record.attempt + 1
      BY <1>1, <1>3, <2>1 DEF Counted, NamesApart, DlqApart, config
    <3> QED BY <3>1, <1>3, <1>4, <1>6
  <2> QED BY <1>1, <2>1, <2>5, <2>6, <2>7 DEF IInv, PlanInv, config, Registered, Delivered
<1>8. CASE DeadLetter(t)
  <2>1. /\ record' = [topic |-> namer.dlq[t], orig |-> Origin, attempt |-> record.attempt]
        /\ stage' = stage /\ dead' = TRUE
    BY <1>3, <1>2, <1>8 DEF DeadLetter, RoutedTo, RoutedAttempt
  <2>2. namer.dlq[t] \in Names
    BY DEF IInv, TypeOK, AllNamers
  <2>3. record' \in [topic : Names \cup {NoTopic}, orig : Names \cup {NoTopic},
                     attempt : 0 .. MaxAttempts]
    BY <2>1, <2>2, <1>3, <1>5
  <2>4. TypeOK'
    BY <2>1, <2>3, <1>1, <1>4 DEF IInv, TypeOK, config, Registered
  <2>5. Placed'
    <3>1. SUFFICES ASSUME NamesApart, home # NoTopic PROVE Routed' /\ stage' # "unhandled"
      BY <1>1, <1>5, <1>6, <2>1 DEF Placed, NamesApart, config
    <3>2. t = home /\ Origin = home /\ namer.dlq[home] \notin Logical
      BY <3>1, <1>6 DEF NamesApart
    <3> QED BY <3>2, <2>1, <1>1, <1>2 DEF Routed, config, Delivered, Registered
  <2>6. Counted'
    <3>1. SUFFICES ASSUME NamesApart, DlqApart, home # NoTopic
                   PROVE  fails' <= record.attempt + 1
      BY <1>1, <1>3, <2>1 DEF Counted, NamesApart, DlqApart, config
    <3> QED BY <3>1, <1>3, <1>4, <1>6
  <2> QED BY <1>1, <2>1, <2>4, <2>5, <2>6 DEF IInv, PlanInv, config, Registered, Delivered
<1>9. CASE Exhaust(t)
  <2>1. UNCHANGED <<record, dead>> /\ stage' = "over"
    BY <1>9 DEF Exhaust
  <2>2. TypeOK'
    BY <2>1, <1>1, <1>4 DEF IInv, TypeOK, config, Registered
  <2>3. Placed'
    BY <2>1, <1>1 DEF Placed
  <2>4. Counted'
    <3>1. SUFFICES ASSUME NamesApart, DlqApart, home # NoTopic
                   PROVE  fails' <= record.attempt + 1
      BY <1>1, <1>3, <2>1 DEF Counted, NamesApart, DlqApart, config
    <3> QED BY <3>1, <1>3, <1>4, <1>6
  <2> QED BY <1>1, <2>1, <2>2, <2>3, <2>4 DEF IInv, PlanInv, config, Registered
<1> QED BY <1>7, <1>8, <1>9

LEMMA StutterInv ==
    ASSUME IInv, UNCHANGED vars
    PROVE  IInv'
<1>1. TypeOK' /\ PlanInv'
  BY DEF IInv, TypeOK, PlanInv, vars, config, Registered
<1>2. UNCHANGED <<config, handlers, record, stage, home, fails, dead, lowered>>
  BY DEF vars
<1> QED BY <1>1, <1>2, SameRecord DEF IInv

LEMMA StepInv == IInv /\ [Next]_vars => IInv'
<1> SUFFICES ASSUME IInv, [Next]_vars PROVE IInv'
  OBVIOUS
<1>1. CASE UNCHANGED vars
  BY <1>1, StutterInv
<1>2. CASE \E t \in Logical, max \in 0 .. MaxAttempts : Handle(t, max)
  BY <1>2, HandleInv
<1>3. CASE Run \/ EndRun
  BY <1>3, PlanningInv
<1>4. CASE \E topic \in Names : Publish(topic)
  BY <1>4, PublishInv
<1>5. CASE NoHandler \/ HandlerOk
  BY <1>5, StopInv
<1>6. CASE \E t \in Logical : Retry(t) \/ DeadLetter(t) \/ Exhaust(t)
  BY <1>6, FailInv
<1> QED BY <1>1, <1>2, <1>3, <1>4, <1>5, <1>6 DEF Next

\* The invariant holds of every behaviour (Consumer.Handle, topicPlanLocked,
\* lookup, failAndRoute, routeTerminal).
THEOREM PlanInvariant == Spec => []IInv
BY InitInv, StepInv, PTL DEF Spec

\* Every variable keeps its type: in particular the attempt a record carries
\* never passes the bound of WithMaxAttempts, though Handle may change the
\* attempts of a topic while its records are on their way (RoutedAttempt).
THEOREM TypeCorrect == Spec => []TypeOK
<1>1. IInv => TypeOK
  BY DEF IInv
<1> QED BY <1>1, PlanInvariant, PTL

\* Whatever the names and whatever Handle does meanwhile, a record goes to the
\* handler of the topic it was published to (lookup).
THEOREM RecordKeepsItsHandler == Spec => []SameHandler
<1>1. IInv => SameHandler
  BY LookupHome DEF SameHandler
<1> QED BY <1>1, PlanInvariant, PTL

\* No record is committed for want of a handler that was there when it was
\* first handled (process).
THEOREM AlwaysAHandler == Spec => []NeverUnhandled
<1>1. IInv => NeverUnhandled
  BY DEF IInv, Placed, NeverUnhandled
<1> QED BY <1>1, PlanInvariant, PTL

\* A record fails at most once per attempt (failAndRoute, routeTerminal).
THEOREM NoCircles == Spec => []FailuresBounded
<1>1. IInv => FailuresBounded
  BY PlanAssumption DEF IInv, TypeOK, Counted, FailuresBounded
<1> QED BY <1>1, PlanInvariant, PTL

\* What is published to is subscribed to, in the next run (topicPlanLocked).
THEOREM NextRunSubscribes == Spec => []NothingStranded
<1>1. IInv => NothingStranded
  <2> SUFFICES ASSUME IInv, NamesApart, stage = "waits", ~dead, ~lowered, home \in Registered
               PROVE  record.topic \in Planned
    BY DEF NothingStranded
  <2>1. home # NoTopic
    BY PlanAssumption DEF IInv, TypeOK
  <2>2. CASE record.orig = NoTopic
    BY <2>1, <2>2 DEF IInv, Placed, Fresh, Planned
  <2>3. CASE record.orig # NoTopic
    <3>1. /\ record.attempt \in 1 .. handlers[home]
          /\ record.topic = namer.retry[home][record.attempt]
      BY <2>1, <2>3 DEF IInv, TypeOK, Placed, Routed, Attempts
    <3>2. record.topic \in RetryTopics(home)
      BY <3>1 DEF RetryTopics
    <3> QED BY <3>2 DEF Planned
  <2> QED BY <2>2, <2>3
<1> QED BY <1>1, PlanInvariant, PTL
===========================================================================

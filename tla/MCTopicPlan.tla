---------------------------- MODULE MCTopicPlan ----------------------------
\* Two handlers and two more names, two attempts.  A namer may give any of the
\* names to a retry topic; both topics share a dead-letter topic or not.
EXTENDS TopicPlan

MCLogical == {"a", "b"}
MCNames == MCLogical \cup {"x", "y"}

MCNamers ==
    [retry : [MCLogical -> [1 .. 2 -> MCNames]],
     dlq : {[t \in MCLogical |-> d] : d \in MCNames}]
===========================================================================

------------------------- MODULE DeliveryContract -------------------------
(***************************************************************************)
(* What the consumer promises its users, without topics, offsets or        *)
(* sessions: a message that was accepted stays pending, that is, will be   *)
(* given to a handler (again), until something has been decided about it;  *)
(* and a decision is never taken back.  A decided message may become       *)
(* pending again: delivery is at least once.                               *)
(***************************************************************************)
CONSTANTS
    Msgs

VARIABLES
    accepted,     \* messages users published
    pending,      \* messages the group will still be given
    settled       \* messages something was decided about

cvars == <<accepted, pending, settled>>

CInit ==
    /\ accepted = {}
    /\ pending = {}
    /\ settled = {}

Accept(m) ==
    /\ m \notin accepted
    /\ accepted' = accepted \cup {m}
    /\ pending' = pending \cup {m}
    /\ UNCHANGED settled

\* Decide about the messages of decision; what stops being pending has been
\* decided about.
Progress(decision, next) ==
    /\ settled' = settled \cup decision
    /\ pending' = next
    /\ pending \ next \subseteq settled'
    /\ UNCHANGED accepted

CNext ==
    \/ \E m \in Msgs : Accept(m)
    \/ \E decision, next \in SUBSET accepted : Progress(decision, next)

CSpec == CInit /\ [][CNext]_cvars

\* No accepted message is forgotten before it is decided about.
NothingForgotten == accepted \subseteq pending \cup settled
===========================================================================

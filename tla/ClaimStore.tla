---------------------------- MODULE ClaimStore ----------------------------
(***************************************************************************)
(* The idempotency store: one entry per message id, claimed by TryStart    *)
(* and closed by Complete or Fail, with a lease that expires.              *)
(*                                                                         *)
(* The clock is abstracted: an entry in state "expired" is a PROCESSING    *)
(* entry whose leaseUntil has passed.  The entry does not say who claimed  *)
(* it; the history variable holders does, and is what the store's promise  *)
(* ("this caller owns the processing lease") is stated about.              *)
(***************************************************************************)
EXTENDS FiniteSets

CONSTANTS
    Keys,         \* message ids
    Claimants     \* whoever calls TryStart: the workers of the consumers

VARIABLES
    entry,        \* entry[k]: what items[k] says
    holders       \* holders[k]: claimants told to proceed, their lease running

storeVars == <<entry, holders>>

EntryStates == {"absent", "processing", "expired", "completed", "failed"}

StoreTypeOK ==
    /\ entry \in [Keys -> EntryStates]
    /\ holders \in [Keys -> SUBSET Claimants]

StoreInit ==
    /\ entry = [k \in Keys |-> "absent"]
    /\ holders = [k \in Keys |-> {}]

Verdict_NoLease(k) ==
    IF entry[k] = "completed" THEN "skip_completed" ELSE "proceed"

Verdict_Reopens(k) ==
    IF entry[k] = "processing" THEN "skip_in_progress" ELSE "proceed"

\* What TryStart answers for key k.
Verdict(k) ==
    CASE entry[k] \in {"absent", "failed", "expired"} -> "proceed"
      [] entry[k] = "completed"                       -> "skip_completed"
      [] entry[k] = "processing"                      -> "skip_in_progress"

\* TryStart writes only when it lets the caller proceed; the caller w then
\* holds the lease.
TryStart(w, k) ==
    IF Verdict(k) = "proceed"
      THEN /\ entry' = [entry EXCEPT ![k] = "processing"]
           /\ holders' = [holders EXCEPT ![k] = @ \cup {w}]
      ELSE UNCHANGED storeVars

\* Complete and Fail overwrite the entry whoever holds it.
Complete(w, k) ==
    /\ entry' = [entry EXCEPT ![k] = "completed"]
    /\ holders' = [holders EXCEPT ![k] = @ \ {w}]

Fail(w, k) ==
    /\ entry' = [entry EXCEPT ![k] = "failed"]
    /\ holders' = [holders EXCEPT ![k] = @ \ {w}]

\* The lease of k runs out: from here on nobody holds a valid one.
Expire(k) ==
    /\ entry[k] = "processing"
    /\ entry' = [entry EXCEPT ![k] = "expired"]
    /\ holders' = [holders EXCEPT ![k] = {}]

\* The entry is dropped (a TTL of the store that keeps it): as if k had never
\* been claimed.
Forget(k) ==
    /\ entry[k] # "absent"
    /\ entry' = [entry EXCEPT ![k] = "absent"]
    /\ holders' = [holders EXCEPT ![k] = {}]

StoreNext ==
    \E k \in Keys :
      \/ \E w \in Claimants : TryStart(w, k) \/ Complete(w, k) \/ Fail(w, k)
      \/ Expire(k) \/ Forget(k)

StoreSpec == StoreInit /\ [][StoreNext]_storeVars
===========================================================================

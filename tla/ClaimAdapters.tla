--------------------------- MODULE ClaimAdapters ---------------------------
(***************************************************************************)
(* The durable idempotency stores.  Each makes TryStart out of several     *)
(* requests to its backend, every request atomic by itself: insert if      *)
(* absent, read, then insert again or replace on a condition.              *)
(*                                                                         *)
(*   redis      SET NX, GET, then SET NX again or compare-and-swap         *)
(*   dynamodb   conditional put, get, then put again or conditional put    *)
(*   mongo      insert on a unique index, find, findAndModify              *)
(*   postgres   INSERT ... ON CONFLICT DO UPDATE ... WHERE, then SELECT    *)
(*                                                                         *)
(* The clock: a call reads it once, before its first request, so that a    *)
(* lease that runs out later is still a valid one to this call.  A call    *)
(* that a request fails, or whose process dies, is one that stops where it *)
(* is; its process calls again as another caller.                          *)
(***************************************************************************)
EXTENDS FiniteSets

CONSTANTS
    Keys,         \* message ids
    Claimants,    \* callers
    Adapters      \* the stores a deployment may choose from

ASSUME AdapterAssumption ==
    Adapters \subseteq {"redis", "dynamodb", "mongo", "postgres"}

VARIABLES
    adapter,      \* which store this deployment uses
    entry,        \* entry[k]: what the backend keeps for k
    holders,      \* holders[k]: who was told to proceed (history)
    call          \* call[w]: the call of w, see Calls

vars == <<adapter, entry, holders, call>>

\* pc: the next request, "out" between calls, "owner" while working under a
\* lease, or the other answers.  over: the lease of the key had run out when
\* the call read the clock, and nobody claimed the key since.
Calls == [pc   : {"out", "insert", "read", "again", "swapFailed",
                       "swapExpired", "owner", "skip_completed",
                       "skip_in_progress"},
          key  : Keys,
          over : BOOLEAN]

Abstract == INSTANCE ClaimStore

\* Every variable has its type.
TypeOK ==
    /\ Abstract!StoreTypeOK
    /\ adapter \in Adapters
    /\ call \in [Claimants -> Calls]

Init ==
    /\ Abstract!StoreInit
    /\ adapter \in Adapters
    /\ call \in [Claimants -> {c \in Calls : c.pc = "out" /\ ~c.over}]

At(w, pc) == call[w].pc = pc
Key(w) == call[w].key
Answer(w, pc) == call' = [call EXCEPT ![w].pc = pc]

\* The entry of the key of w becomes a PROCESSING one with a fresh lease,
\* and w is told to proceed.
Grant(w) ==
    /\ entry' = [entry EXCEPT ![Key(w)] = "processing"]
    /\ holders' = [holders EXCEPT ![Key(w)] = @ \cup {w}]
    /\ call' = [v \in Claimants |->
                  IF v = w THEN [call[v] EXCEPT !.pc = "owner"]
                  ELSE IF Key(v) = Key(w)
                         THEN [call[v] EXCEPT !.over = FALSE]
                         ELSE call[v]]

\* The call starts: it reads the clock.
Begin(w, k) ==
    /\ call[w].pc \in {"out", "skip_completed", "skip_in_progress"}
    /\ call' = [call EXCEPT ![w] = [pc   |-> "insert",
                                    key  |-> k,
                                    over |-> entry[k] = "expired"]]
    /\ UNCHANGED <<adapter, entry, holders>>

\* The first request.  The one of postgres also replaces a FAILED row, or a
\* PROCESSING one whose lease is over.
Insertable(w) ==
    \/ entry[Key(w)] = "absent"
    \/ /\ adapter = "postgres"
       /\ \/ entry[Key(w)] = "failed"
          \/ entry[Key(w)] = "expired" /\ call[w].over

Insert(w) ==
    /\ At(w, "insert")
    /\ \/ Insertable(w) /\ Grant(w)
       \/ ~Insertable(w) /\ Answer(w, "read") /\ UNCHANGED <<entry, holders>>
    /\ UNCHANGED adapter

\* What the call does next when it reads the entry.
AfterRead(w) ==
    CASE entry[Key(w)] = "completed" -> "skip_completed"
      [] entry[Key(w)] = "absent" /\ adapter \in {"redis", "dynamodb"} -> "again"
      [] entry[Key(w)] = "failed" /\ adapter # "postgres" -> "swapFailed"
      [] /\ entry[Key(w)] = "expired" /\ call[w].over
         /\ adapter \in {"dynamodb", "mongo"} -> "swapExpired"
      [] OTHER -> "skip_in_progress"

Read(w) ==
    /\ At(w, "read")
    /\ Answer(w, AfterRead(w))
    /\ UNCHANGED <<adapter, entry, holders>>

\* The entry was gone when it was read: insert once more.
Again(w) ==
    /\ At(w, "again")
    /\ \/ entry[Key(w)] = "absent" /\ Grant(w)
       \/ /\ entry[Key(w)] # "absent"
          /\ Answer(w, "skip_in_progress")
          /\ UNCHANGED <<entry, holders>>
    /\ UNCHANGED adapter

\* Replace the entry on the condition that it is still what was read; an
\* expired lease must be over by the clock of the call.
Matches_StateOnly(w) ==
    entry[Key(w)] \in IF At(w, "swapFailed") THEN {"failed"}
                                             ELSE {"processing", "expired"}

Matches(w) ==
    \/ At(w, "swapFailed") /\ entry[Key(w)] = "failed"
    \/ At(w, "swapExpired") /\ entry[Key(w)] = "expired" /\ call[w].over

Swap(w) ==
    /\ At(w, "swapFailed") \/ At(w, "swapExpired")
    /\ \/ Matches(w) /\ Grant(w)
       \/ /\ ~Matches(w)
          /\ Answer(w, "skip_in_progress")
          /\ UNCHANGED <<entry, holders>>
    /\ UNCHANGED adapter

\* The owner closes its claim, whatever became of it in the meantime; the
\* request may fail, which the consumer ignores.
Close(w) ==
    /\ At(w, "owner")
    /\ Answer(w, "out")
    /\ \/ Abstract!Complete(w, Key(w))
       \/ Abstract!Fail(w, Key(w))
       \/ UNCHANGED <<entry, holders>>
    /\ UNCHANGED adapter

(***************************************************************************)
(* Time.  A lease runs out; Redis drops the key with it, and drops closed  *)
(* entries after their TTL, as DynamoDB and Mongo do.  Nothing deletes     *)
(* rows from the postgres table.                                           *)
(***************************************************************************)
LeaseExpires(k) ==
    /\ adapter # "redis"
    /\ Abstract!Expire(k)
    /\ UNCHANGED <<adapter, call>>

Drop(k) ==
    /\ adapter # "postgres"
    /\ entry[k] # "processing" \/ adapter = "redis"
    /\ Abstract!Forget(k)
    /\ UNCHANGED <<adapter, call>>

TryStart(w) == Insert(w) \/ Read(w) \/ Again(w) \/ Swap(w)

Next ==
    \/ \E w \in Claimants : TryStart(w) \/ Close(w)
    \/ \E w \in Claimants, k \in Keys : Begin(w, k)
    \/ \E k \in Keys : LeaseExpires(k) \/ Drop(k)

Spec == Init /\ [][Next]_vars

(***************************************************************************)
(* Properties                                                              *)
(***************************************************************************)
\* However its requests interleave with other calls and with the expiry of
\* leases, TryStart acts like the atomic claim of ClaimStore: it says proceed
\* only in a step that finds the key unclaimed and claims it.
ImplementsClaimStore == Abstract!StoreSpec
===========================================================================

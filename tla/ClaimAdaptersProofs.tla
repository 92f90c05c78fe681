------------------------ MODULE ClaimAdaptersProofs ------------------------
(***************************************************************************)
(* The durable stores claim like the atomic one, for every set of keys and *)
(* of callers.  A request that grants a claim is the abstract TryStart, a  *)
(* request that does not is a stutter; which is so because every insert or *)
(* replace that grants is conditional on an entry TryStart would claim.    *)
(***************************************************************************)
EXTENDS ClaimAdapters, TLAPS

\* Typing: the key of a call is a key of the store.
LEMMA TypeStep == TypeOK /\ [Next]_vars => TypeOK'
<1> SUFFICES ASSUME TypeOK, [Next]_vars PROVE TypeOK'
  OBVIOUS
<1> USE DEF TypeOK, Calls, Abstract!StoreTypeOK, Abstract!EntryStates
<1>g. ASSUME NEW w \in Claimants, Grant(w), UNCHANGED adapter PROVE TypeOK'
  BY <1>g DEF Grant, Key
<1>a. ASSUME NEW w \in Claimants, NEW pc \in {"out", "read", "again", "swapFailed",
                "swapExpired", "skip_completed", "skip_in_progress"},
             Answer(w, pc)
      PROVE  call' \in [Claimants -> Calls]
  BY <1>a DEF Answer
<1>i. ASSUME NEW w \in Claimants, Insert(w) PROVE TypeOK'
  <2>1. CASE Insertable(w) /\ Grant(w)
    BY <1>i, <2>1, <1>g DEF Insert
  <2>2. CASE Answer(w, "read") /\ UNCHANGED <<entry, holders>>
    BY <1>i, <2>2, <1>a DEF Insert
  <2> QED BY <1>i, <2>1, <2>2 DEF Insert
<1>r. ASSUME NEW w \in Claimants, Read(w) PROVE TypeOK'
  <2>1. AfterRead(w) \in {"skip_completed", "again", "swapFailed", "swapExpired",
                          "skip_in_progress"}
    BY Zenon DEF AfterRead
  <2> QED BY <1>r, <2>1, <1>a DEF Read
<1>n. ASSUME NEW w \in Claimants, Again(w) PROVE TypeOK'
  <2>1. CASE Grant(w)
    BY <1>n, <2>1, <1>g DEF Again
  <2>2. CASE Answer(w, "skip_in_progress") /\ UNCHANGED <<entry, holders>>
    BY <1>n, <2>2, <1>a DEF Again
  <2> QED BY <1>n, <2>1, <2>2 DEF Again
<1>s. ASSUME NEW w \in Claimants, Swap(w) PROVE TypeOK'
  <2>1. CASE Grant(w)
    BY <1>s, <2>1, <1>g DEF Swap
  <2>2. CASE Answer(w, "skip_in_progress") /\ UNCHANGED <<entry, holders>>
    BY <1>s, <2>2, <1>a DEF Swap
  <2> QED BY <1>s, <2>1, <2>2 DEF Swap
<1>c. ASSUME NEW w \in Claimants, Close(w) PROVE TypeOK'
  <2>1. call' \in [Claimants -> Calls] /\ Key(w) \in Keys
    BY <1>c, <1>a DEF Close, Key
  <2>2. CASE Abstract!Complete(w, Key(w)) \/ Abstract!Fail(w, Key(w))
    <3>1. entry' \in [Keys -> Abstract!EntryStates]
      BY <2>1, <2>2 DEF Abstract!Complete, Abstract!Fail
    <3>2. holders' \in [Keys -> SUBSET Claimants]
      BY <2>1, <2>2 DEF Abstract!Complete, Abstract!Fail
    <3> QED BY <1>c, <2>1, <3>1, <3>2 DEF Close
  <2>3. CASE UNCHANGED <<entry, holders>>
    BY <1>c, <2>1, <2>3 DEF Close
  <2> QED BY <1>c, <2>2, <2>3 DEF Close
<1>b. ASSUME NEW w \in Claimants, NEW k \in Keys, Begin(w, k) PROVE TypeOK'
  BY <1>b DEF Begin
<1>x. ASSUME NEW k \in Keys, LeaseExpires(k) \/ Drop(k) PROVE TypeOK'
  BY <1>x DEF LeaseExpires, Drop, Abstract!Expire, Abstract!Forget
<1>u. CASE UNCHANGED vars
  BY <1>u DEF vars
<1> QED BY <1>i, <1>r, <1>n, <1>s, <1>c, <1>b, <1>x, <1>u DEF Next, TryStart

\* Calls, entries and leases keep their types, whichever store is used.
THEOREM AdaptersTypeCorrect == Spec => []TypeOK
<1>1. Init => TypeOK
  BY DEF Init, TypeOK, Calls, Abstract!StoreInit, Abstract!StoreTypeOK, Abstract!EntryStates
<1> QED BY <1>1, TypeStep, PTL DEF Spec

\* A granting request claims an entry TryStart would have claimed.
LEMMA GrantClaims ==
  ASSUME NEW w \in Claimants, TypeOK, Grant(w),
         entry[Key(w)] \in {"absent", "failed", "expired"}
  PROVE  Key(w) \in Keys /\ Abstract!TryStart(w, Key(w))
<1>1. Key(w) \in Keys
  BY DEF TypeOK, Calls, Key
<1>2. Abstract!Verdict(Key(w)) = "proceed"
  BY DEF Abstract!Verdict
<1> QED BY <1>1, <1>2 DEF Grant, Abstract!TryStart

LEMMA AdapterStep ==
  TypeOK /\ [Next]_vars => [Abstract!StoreNext]_(Abstract!storeVars)
<1> SUFFICES ASSUME TypeOK, Next
             PROVE  Abstract!StoreNext \/ UNCHANGED Abstract!storeVars
  BY DEF vars, Abstract!storeVars
<1>g. ASSUME NEW w \in Claimants, Grant(w),
             entry[Key(w)] \in {"absent", "failed", "expired"}
      PROVE  Abstract!StoreNext
  BY <1>g, GrantClaims DEF Abstract!StoreNext
<1>i. ASSUME NEW w \in Claimants, Insert(w)
      PROVE  Abstract!StoreNext \/ UNCHANGED <<entry, holders>>
  BY <1>i, <1>g DEF Insert, Insertable
<1>r. ASSUME NEW w \in Claimants, Read(w) PROVE UNCHANGED <<entry, holders>>
  BY <1>r DEF Read
<1>n. ASSUME NEW w \in Claimants, Again(w)
      PROVE  Abstract!StoreNext \/ UNCHANGED <<entry, holders>>
  BY <1>n, <1>g DEF Again
<1>s. ASSUME NEW w \in Claimants, Swap(w)
      PROVE  Abstract!StoreNext \/ UNCHANGED <<entry, holders>>
  BY <1>s, <1>g DEF Swap, Matches
<1>c. ASSUME NEW w \in Claimants, Close(w)
      PROVE  Abstract!StoreNext \/ UNCHANGED <<entry, holders>>
  <2>1. Key(w) \in Keys
    BY DEF TypeOK, Calls, Key
  <2> QED BY <1>c, <2>1 DEF Close, Abstract!StoreNext
<1>b. ASSUME NEW w \in Claimants, NEW k \in Keys, Begin(w, k)
      PROVE  UNCHANGED <<entry, holders>>
  BY <1>b DEF Begin
<1>x. ASSUME NEW k \in Keys, LeaseExpires(k) \/ Drop(k) PROVE Abstract!StoreNext
  BY <1>x DEF LeaseExpires, Drop, Abstract!StoreNext
<1> QED BY <1>i, <1>r, <1>n, <1>s, <1>c, <1>b, <1>x
        DEF Next, TryStart, Abstract!storeVars

\* However the requests of any number of calls interleave with each other and
\* with leases that run out, TryStart is the atomic claim of ClaimStore.
THEOREM AdaptersImplementClaimStore == Spec => ImplementsClaimStore
<1>1. Init => Abstract!StoreInit
  BY DEF Init
<1> QED BY <1>1, AdapterStep, AdaptersTypeCorrect, PTL
        DEF Spec, ImplementsClaimStore, Abstract!StoreSpec
===========================================================================

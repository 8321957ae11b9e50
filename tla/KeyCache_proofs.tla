---------------------------- MODULE KeyCache_proofs ----------------------------
(***************************************************************************)
(* Proofs about the key cache, for any number of requests, any lifetime    *)
(* and any times at which the user service replaces its key: types, that   *)
(* no key is trusted too long, that keys are not fetched in herds and that *)
(* the cache never goes back.                                              *)
(*                                                                         *)
(* KeyIsRecent is not inductive: it says nothing of the cache and of the   *)
(* responses on their way.  The invariant adds that the cached key was in  *)
(* use when its fetch began to wait (CacheInUse), and what a fetch under   *)
(* the lock may count on (FetchAlone).                                     *)
(***************************************************************************)
EXTENDS KeyCache, TLAPS

\* The user service had not replaced key k before t.
InUseAt(k, t) == k = CurrentKey \/ t <= since[k + 1]

CacheInUse == cachedKey # None => InUseAt(cachedKey, lastFetch)

\* One request fetches at a time; the cache stays expired for it, and its response
\* brings a key at least as new.
FetchAlone ==
  \A r \in Requests :
    /\ at[r] \in Fetching => lock = r /\ ~Fresh(r)
    /\ at[r] = "responded" =>
         /\ held[r] # None /\ InUseAt(held[r], now[r])
         /\ cachedKey # None => cachedKey <= held[r]
    /\ at[r] \in {"new", "waiting", "fetching"} => held[r] = None

Inv == TypeOK /\ CacheInUse /\ FetchAlone /\ KeyIsRecent

\* No request changes what the user service does, and every step of one keeps the
\* invariant and the order of the keys.
LEMMA RequestStep ==
  ASSUME Inv, NEW r \in Requests, RefuseMalformed(r) \/ Begin(r) \/ Verification(r) \/ Cancel(r)
  PROVE  Inv' /\ (cachedKey # None => cachedKey' >= cachedKey)
<1> USE DEF Inv, TypeOK, issuer, cache, Goto, CurrentKey
<1>0. Len(since) \in Nat /\ CacheTTL \in Nat /\ CacheTTL > 0
  BY TTLAssumption
<1>1. CASE RefuseMalformed(r)
  <2> USE <1>1 DEF RefuseMalformed
  <2>1. TypeOK' BY DEF Places, Fetching, Answers
  <2>2. CacheInUse' BY DEF CacheInUse, InUseAt
  <2>3. FetchAlone' BY DEF FetchAlone, Fetching, Fresh, InUseAt
  <2>4. KeyIsRecent' BY DEF KeyIsRecent, UsedWithin
  <2> QED BY <2>1, <2>2, <2>3, <2>4
<1>2. CASE Begin(r)
  <2> USE <1>2 DEF Begin
  <2>1. TypeOK' BY DEF Places, Fetching, Answers
  <2>2. CacheInUse' BY DEF CacheInUse, InUseAt
  <2>3. FetchAlone' BY DEF FetchAlone, Fetching, Fresh, InUseAt
  <2>4. KeyIsRecent' BY DEF KeyIsRecent, UsedWithin, FetchAlone
  <2> QED BY <2>1, <2>2, <2>3, <2>4
<1>3. CASE UseCached(r)
  <2> USE <1>3 DEF UseCached, Verify
  <2>1. TypeOK' BY DEF Places, Fetching, Answers, Fresh
  <2>2. CacheInUse' BY DEF CacheInUse, InUseAt
  <2>3. FetchAlone' BY DEF FetchAlone, Fetching, Fresh, InUseAt
  <2>4. KeyIsRecent'
    <3>1. UsedWithin(cachedKey, now[r])
      <4>1. CASE cachedKey = CurrentKey BY <4>1 DEF UsedWithin
      <4>2. CASE cachedKey # CurrentKey
        <5>1. cachedKey + 1 \in 1 .. Len(since) /\ since[cachedKey + 1] \in Nat
          BY <4>2, <1>0 DEF Fresh
        <5>2. lastFetch <= since[cachedKey + 1] /\ now[r] < lastFetch + CacheTTL
          BY <4>2 DEF CacheInUse, InUseAt, Fresh
        <5> QED BY <5>1, <5>2, <1>0 DEF UsedWithin
      <4> QED BY <4>1, <4>2
    <3> QED BY <3>1 DEF KeyIsRecent, UsedWithin
  <2> QED BY <2>1, <2>2, <2>3, <2>4
<1>4. CASE StartFetch(r)
  <2> USE <1>4 DEF StartFetch
  <2>1. TypeOK' BY DEF Places, Fetching, Answers
  <2>2. CacheInUse' BY DEF CacheInUse, InUseAt
  <2>3. FetchAlone' BY NoneAssumption DEF FetchAlone, Fetching, Fresh, InUseAt
  <2>4. KeyIsRecent' BY DEF KeyIsRecent, UsedWithin
  <2> QED BY <2>1, <2>2, <2>3, <2>4
<1>5. CASE IssuerAnswers(r)
  <2> USE <1>5 DEF IssuerAnswers
  <2>1. TypeOK' BY <1>0 DEF Places, Fetching, Answers
  <2>2. CacheInUse' BY DEF CacheInUse, InUseAt
  <2>3. FetchAlone' BY NoneAssumption, <1>0 DEF FetchAlone, Fetching, Fresh, InUseAt
  <2>4. KeyIsRecent' BY DEF KeyIsRecent, UsedWithin
  <2> QED BY <2>1, <2>2, <2>3, <2>4
<1>6. CASE FetchSucceeds(r)
  <2> USE <1>6 DEF FetchSucceeds, Verify
  <2>0. /\ held[r] \in 1 .. Len(since) /\ InUseAt(held[r], now[r])
        /\ cachedKey # None => cachedKey <= held[r]
        /\ \A d \in Requests : d # r => at[d] \notin Fetching
    BY DEF FetchAlone, Fetching
  <2>1. TypeOK' BY <2>0 DEF Places, Fetching, Answers
  <2>2. CacheInUse' BY <2>0 DEF CacheInUse, InUseAt
  <2>3. FetchAlone' BY <2>0 DEF FetchAlone, Fetching, InUseAt
  <2>4. KeyIsRecent' BY DEF KeyIsRecent, UsedWithin
  <2> QED BY <2>0, <2>1, <2>2, <2>3, <2>4
<1>7. CASE FetchFails(r) \/ Cancel(r)
  <2> USE <1>7 DEF FetchFails, Cancel, Releases
  <2>1. TypeOK' BY DEF Places, Fetching, Answers
  <2>2. CacheInUse' BY DEF CacheInUse, InUseAt
  <2>3. FetchAlone'
    <3>1. /\ at'[r] \in Answers
          /\ \A d \in Requests : d # r => at'[d] = at[d] /\ held'[d] = held[d]
          /\ \A d \in Requests : d # r /\ lock = d => lock' = d
          /\ UNCHANGED <<now, cachedKey, lastFetch, since>>
      BY DEF Places, Fetching, Answers
    <3> HIDE <1>7 DEF FetchFails, Cancel, Releases, Goto, TypeOK
    <3> QED BY <3>1 DEF FetchAlone, Fetching, Answers, Fresh, InUseAt
  <2>4. KeyIsRecent' BY DEF KeyIsRecent, UsedWithin
  <2> QED BY <2>1, <2>2, <2>3, <2>4
<1> QED BY <1>1, <1>2, <1>3, <1>4, <1>5, <1>6, <1>7 DEF Verification

LEMMA TickStep == ASSUME Inv, Tick PROVE Inv'
<1> USE DEF Inv, TypeOK, Tick, cache, CurrentKey
<1>1. TypeOK'
  <2>1. clock' \in 0 .. MaxTime /\ 0 .. clock \subseteq 0 .. clock'
    BY BoundsAssumption
  <2>2. since' \in Seq(0 .. clock')
    BY <2>1
  <2> QED BY <2>1, <2>2
<1>2. CacheInUse' BY DEF CacheInUse, InUseAt
<1>3. FetchAlone' BY DEF FetchAlone, Fresh, InUseAt
<1>4. KeyIsRecent' BY DEF KeyIsRecent, UsedWithin
<1> QED BY <1>1, <1>2, <1>3, <1>4

\* The key replaced was in use until now.
LEMMA RotateStep == ASSUME Inv, Rotate PROVE Inv'
<1> USE DEF Inv, TypeOK, Rotate, cache
<1>0. /\ Len(since) \in Nat /\ Len(since') = Len(since) + 1 /\ since' \in Seq(0 .. clock)
      /\ \A i \in 1 .. Len(since) : since'[i] = since[i]
      /\ since'[Len(since) + 1] = clock /\ clock \in Nat /\ CacheTTL \in Nat /\ CacheTTL > 0
  BY TTLAssumption
<1>1. TypeOK' BY <1>0, BoundsAssumption DEF CurrentKey
<1>a. ASSUME NEW k \in 1 .. Len(since), NEW t \in 0 .. clock
      PROVE  /\ InUseAt(k, t) => InUseAt(k, t)'
             /\ UsedWithin(k, t) => UsedWithin(k, t)'
  BY <1>0 DEF InUseAt, UsedWithin, CurrentKey
<1>2. CacheInUse' 
  BY <1>a DEF CacheInUse, CurrentKey
<1>3. FetchAlone'
  <2> SUFFICES ASSUME NEW r \in Requests
               PROVE  /\ at[r] \in Fetching => lock = r /\ ~Fresh(r)
                      /\ at[r] = "responded" =>
                           /\ held[r] # None /\ InUseAt(held[r], now[r])'
                           /\ cachedKey # None => cachedKey <= held[r]
                      /\ at[r] \in {"new", "waiting", "fetching"} => held[r] = None
    BY DEF FetchAlone, Fresh
  <2>1. held[r] # None => held[r] \in 1 .. Len(since) /\ now[r] \in 0 .. clock
    BY DEF CurrentKey
  <2> QED BY <1>a, <2>1 DEF FetchAlone
<1>4. KeyIsRecent'
  <2> SUFFICES ASSUME NEW r \in Requests, held[r] # None PROVE UsedWithin(held[r], now[r])'
    BY DEF KeyIsRecent
  <2>1. held[r] \in 1 .. Len(since) /\ now[r] \in 0 .. clock
    BY DEF CurrentKey
  <2> QED BY <1>a, <2>1 DEF KeyIsRecent
<1> QED BY <1>1, <1>2, <1>3, <1>4

LEMMA NextStep ==
  ASSUME Inv, [Next]_vars
  PROVE  Inv' /\ (cachedKey # None => cachedKey' >= cachedKey)
<1>0. cachedKey # None => cachedKey \in Nat
  BY DEF Inv, TypeOK, CurrentKey
<1>1. CASE Tick BY <1>1, <1>0, TickStep DEF Tick, cache
<1>2. CASE Rotate BY <1>2, <1>0, RotateStep DEF Rotate, cache
<1>3. ASSUME NEW r \in Requests, RefuseMalformed(r) \/ Begin(r) \/ Verification(r) \/ Cancel(r)
      PROVE  Inv' /\ (cachedKey # None => cachedKey' >= cachedKey)
  BY <1>3, RequestStep
<1>4. CASE UNCHANGED vars
  <2> USE <1>4 DEF vars, issuer, cache, Inv
  <2>1. TypeOK' BY DEF TypeOK, CurrentKey
  <2>2. CacheInUse' BY DEF CacheInUse, InUseAt, CurrentKey
  <2>3. FetchAlone' BY DEF FetchAlone, Fresh, InUseAt, CurrentKey
  <2>4. KeyIsRecent' BY DEF KeyIsRecent, UsedWithin, CurrentKey
  <2> QED BY <1>0, <2>1, <2>2, <2>3, <2>4
<1> QED BY <1>1, <1>2, <1>3, <1>4 DEF Next

LEMMA InitInv == Init => Inv
<1> SUFFICES ASSUME Init PROVE Inv
  OBVIOUS
<1>1. since = <<0>> /\ Len(since) = 1 /\ since \in Seq(0 .. 0)
  BY DEF Init
<1>2. TypeOK
  BY <1>1, BoundsAssumption DEF Init, TypeOK, Places, CurrentKey
<1>3. CacheInUse /\ FetchAlone /\ KeyIsRecent
  BY DEF Init, CacheInUse, FetchAlone, Fetching, KeyIsRecent
<1> QED BY <1>2, <1>3 DEF Inv

LEMMA KeyInvariant == Spec => []Inv
<1> QED BY InitInv, NextStep, PTL DEF Spec

\* The cache, the lock and the requests only hold what they should.
THEOREM KeyTypeCorrect == Spec => []TypeOK
<1> QED BY KeyInvariant, PTL DEF Inv

\* A replaced key is trusted for less than one lifetime of the cache.
THEOREM KeyTrustEnds == Spec => []KeyIsRecent
<1> QED BY KeyInvariant, PTL DEF Inv

\* Requests that find an expired key together cause one fetch.
THEOREM OneFetchPerLifetime == Spec => NoHerd
<1>1. Inv => [\A r \in Requests :
                FetchSucceeds(r) => cachedKey = None \/ now[r] >= lastFetch + CacheTTL]_vars
  <2> SUFFICES ASSUME Inv, NEW r \in Requests, FetchSucceeds(r), cachedKey # None
               PROVE  now[r] >= lastFetch + CacheTTL
    OBVIOUS
  <2>1. ~Fresh(r)
    BY DEF Inv, FetchAlone, FetchSucceeds, Fetching
  <2> QED BY <2>1, TTLAssumption DEF Inv, TypeOK, Fresh
<1> QED BY <1>1, KeyInvariant, PTL DEF NoHerd

\* A response that comes late never replaces a newer key.
THEOREM CacheNeverRegresses == Spec => KeyNeverRegresses
<1>1. Inv /\ [Next]_vars => [cachedKey # None => cachedKey' >= cachedKey]_cachedKey
  BY NextStep
<1> QED BY <1>1, KeyInvariant, PTL DEF Spec, KeyNeverRegresses

===============================================================================

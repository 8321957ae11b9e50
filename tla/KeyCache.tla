------------------------------- MODULE KeyCache -------------------------------
(***************************************************************************)
(* JWTVerifier: the public key of the user service, cached in a worker,    *)
(* with which the middleware verifies the token of every request.          *)
(*                                                                         *)
(* A worker runs its verifications as coroutines of one event loop; one    *)
(* lock guards the cache and is held during a fetch.  asyncio.Lock is      *)
(* fair; the order of the waiters matters to no property, so any may be    *)
(* next.  Each worker has its own cache and they share nothing, so one is  *)
(* enough.  time.time() is taken to be a clock that never goes back.       *)
(* The user service is external: it may replace its key at any time, and   *)
(* hands out the current one.                                              *)
(***************************************************************************)
EXTENDS Naturals, Sequences

CONSTANTS
  Requests,       \* requests with a bearer token
  CacheTTL,       \* _cache_ttl
  MaxTime,        \* bound: the clock
  MaxKeys,        \* bound: keys the user service uses one after the other
  None            \* no key, no request

ASSUME TTLAssumption == CacheTTL \in Nat \ {0}
ASSUME BoundsAssumption == MaxTime \in Nat /\ MaxKeys \in Nat \ {0}
ASSUME NoneAssumption == None \notin Nat /\ None \notin Requests

VARIABLES
  clock,
  since,          \* when the user service took each of its keys into use
  cachedKey,      \* _public_key_cache: the number of a key
  lastFetch,      \* _last_fetch_time
  lock,           \* who holds _lock across an await
  at,             \* where each request is, or its answer
  now,            \* when it began to look for the key
  held            \* the key it has been given

cache == <<cachedKey, lastFetch>>
issuer == <<clock, since>>
vars == <<issuer, cache, lock, at, now, held>>

Fetching == {"fetching", "responded"}
Answers == {"served", "refused", "error", "gone"}
Places == {"new", "waiting"} \cup Fetching \cup Answers

CurrentKey == Len(since)

Init ==
  /\ clock = 0
  /\ since = <<0>>
  /\ cachedKey = None
  /\ lastFetch = 0
  /\ lock = None
  /\ at = [r \in Requests |-> "new"]
  /\ now = [r \in Requests |-> 0]
  /\ held = [r \in Requests |-> None]

Goto(r, place) == at' = [at EXCEPT ![r] = place]

Tick ==
  /\ clock < MaxTime
  /\ clock' = clock + 1
  /\ UNCHANGED <<since, cache, lock, at, now, held>>

\* The user service replaces its key.
Rotate ==
  /\ CurrentKey < MaxKeys
  /\ since' = Append(since, clock)
  /\ UNCHANGED <<clock, cache, lock, at, now, held>>

\* A token without two dots is refused unseen.
RefuseMalformed(r) ==
  /\ at[r] = "new"
  /\ Goto(r, "refused")
  /\ UNCHANGED <<issuer, cache, lock, now, held>>

\* The clock is read before the lock is waited for.
Begin(r) ==
  /\ at[r] = "new"
  /\ now' = [now EXCEPT ![r] = clock]
  /\ Goto(r, "waiting")
  /\ UNCHANGED <<issuer, cache, lock, held>>

Fresh(r) == cachedKey # None /\ now[r] < lastFetch + CacheTTL

\* jwt.decode with the key, and the answer of the middleware, without an await between
\* them: the token is genuine and signed with that key, or not.
Verify(r) == \E answer \in {"served", "refused"} : Goto(r, answer)

UseCached(r) ==
  /\ at[r] = "waiting"
  /\ lock = None
  /\ Fresh(r)
  /\ held' = [held EXCEPT ![r] = cachedKey]
  /\ Verify(r)
  /\ UNCHANGED <<issuer, cache, lock, now>>

\* Mutants: the cache is looked at before the lock is taken only; there is no lock.
StartFetchUnchecked(r) ==
  /\ at[r] = "waiting"
  /\ lock = None
  /\ lock' = r
  /\ Goto(r, "fetching")
  /\ UNCHANGED <<issuer, cache, now, held>>
StartFetchUnlocked(r) ==
  /\ at[r] = "waiting"
  /\ ~Fresh(r)
  /\ Goto(r, "fetching")
  /\ UNCHANGED <<issuer, cache, lock, now, held>>

StartFetch(r) ==
  /\ at[r] = "waiting"
  /\ lock = None
  /\ ~Fresh(r)
  /\ lock' = r
  /\ Goto(r, "fetching")
  /\ UNCHANGED <<issuer, cache, now, held>>

\* The user service hands out its key; the response is on its way.
IssuerAnswers(r) ==
  /\ at[r] = "fetching"
  /\ held' = [held EXCEPT ![r] = CurrentKey]
  /\ Goto(r, "responded")
  /\ UNCHANGED <<issuer, cache, lock, now>>

\* Mutant: the fetch is dated by its end.
FetchSucceedsNow(r) ==
  /\ at[r] = "responded"
  /\ cachedKey' = held[r]
  /\ lastFetch' = clock
  /\ lock' = None
  /\ Verify(r)
  /\ UNCHANGED <<issuer, now, held>>

\* The key is cached as of the time the request began to wait.
FetchSucceeds(r) ==
  /\ at[r] = "responded"
  /\ cachedKey' = held[r]
  /\ lastFetch' = now[r]
  /\ lock' = None
  /\ Verify(r)
  /\ UNCHANGED <<issuer, now, held>>

Releases(r) == lock' = IF lock = r THEN None ELSE lock

\* Mutant: lock.acquire() without a finally.
FetchFailsLocked(r) ==
  /\ at[r] \in Fetching
  /\ Goto(r, "error")
  /\ held' = [held EXCEPT ![r] = None]
  /\ UNCHANGED <<issuer, cache, lock, now>>

\* A timeout, an error status or a lost connection is an error of the request, and a
\* response that is no key refuses it; the key cached before stays and is not used.
FetchFails(r) ==
  /\ \/ at[r] \in Fetching /\ Goto(r, "error")
     \/ at[r] = "responded" /\ Goto(r, "refused")
  /\ held' = [held EXCEPT ![r] = None]
  /\ Releases(r)
  /\ UNCHANGED <<issuer, cache, now>>

\* The client goes away: the request is cancelled where it waits.
Cancel(r) ==
  /\ at[r] \in {"waiting"} \cup Fetching
  /\ Goto(r, "gone")
  /\ held' = [held EXCEPT ![r] = None]
  /\ Releases(r)
  /\ UNCHANGED <<issuer, cache, now>>

Verification(r) ==
  UseCached(r) \/ StartFetch(r) \/ IssuerAnswers(r) \/ FetchSucceeds(r) \/ FetchFails(r)

Next ==
  \/ Tick \/ Rotate
  \/ \E r \in Requests : RefuseMalformed(r) \/ Begin(r) \/ Verification(r) \/ Cancel(r)

Spec == Init /\ [][Next]_vars

\* The event loop runs every coroutine that can go on, and a fetch ends: with an
\* answer, or with the timeout of its client.
Fairness == \A r \in Requests : WF_vars(Verification(r))

FairSpec == Spec /\ Fairness

(***************************************************************************)
(* Properties.                                                             *)
(***************************************************************************)
\* The values the cache and the requests can hold; whoever holds the lock is fetching.
TypeOK ==
  /\ clock \in 0 .. MaxTime
  /\ since \in Seq(0 .. clock) /\ Len(since) \in 1 .. MaxKeys
  /\ cachedKey \in 1 .. CurrentKey \cup {None}
  /\ lastFetch \in 0 .. clock
  /\ lock \in {r \in Requests : at[r] \in Fetching} \cup {None}
  /\ at \in [Requests -> Places]
  /\ now \in [Requests -> 0 .. clock]
  /\ held \in [Requests -> 1 .. CurrentKey \cup {None}]

\* Key k was still in use less than a lifetime of the cache before t.
UsedWithin(k, t) == k = CurrentKey \/ t < since[k + 1] + CacheTTL

\* A key the user service has replaced is trusted for one lifetime of the cache and
\* no longer: no request is verified with a key that had been out of use for so long
\* when the request began, however slow the fetch that brought it was.
KeyIsRecent ==
  \A r \in Requests : held[r] # None => UsedWithin(held[r], now[r])

\* Requests that find an expired key together cause one fetch: a key is stored only a
\* lifetime of the cache after the one before it.
NoHerd ==
  [][\A r \in Requests :
       FetchSucceeds(r) => cachedKey = None \/ now[r] >= lastFetch + CacheTTL]_vars

\* A slow response never puts back a key the worker has already seen replaced.
KeyNeverRegresses == [][cachedKey # None => cachedKey' >= cachedKey]_cachedKey

\* Every verification comes to an answer, whatever happens to the fetches before it
\* and to the clients that wait with it.
EveryVerificationEnds == \A r \in Requests : at[r] = "waiting" ~> at[r] \in Answers

===============================================================================

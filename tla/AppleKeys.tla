------------------------------ MODULE AppleKeys ------------------------------
(***************************************************************************)
(* The cache of Apple's signing keys.  applePublicKey holds the cache's    *)
(* mutex while it asks Apple, so one fetch is under way at a time and      *)
(* every other verification waits for it.                                  *)
(*                                                                         *)
(* Apple publishes and withdraws keys as it likes, while an answer is on   *)
(* its way as well.                                                        *)
(***************************************************************************)
EXTENDS Integers

CONSTANTS
    Requests, Kids, None,
    TTL,        \* appleJWKSTTL, in units of time
    MaxLag      \* bound of the time an answer takes to arrive

ASSUME KeysAssumption ==
    /\ TTL \in Nat \ {0} /\ MaxLag \in Nat
    /\ None \notin Requests \cup Kids

VARIABLES
    published,  \* the keys that Apple publishes
    withdrawn,  \* how long ago each of the others was withdrawn
    cache,      \* appleJWKSCache: the keys, and the age of fetchedAt
    holder,     \* who has the mutex while a fetch is under way
    got,        \* the answer on its way to the holder
    lag,        \* since when
    pc, kid,    \* each request: what it does next, the key its token names
    missing     \* history: Apple did not publish that key all the while

cacheVars == <<cache, holder, got, lag>>
appleVars == <<published, withdrawn>>

Old == TTL + MaxLag     \* longer is not told apart

KeysInit ==
    /\ published \in (SUBSET Kids) \ {{}}
    /\ withdrawn = [k \in Kids |-> IF k \in published THEN 0 ELSE Old]
    /\ cache = [keys |-> {}, age |-> TTL]
    /\ holder = None
    /\ got = {}
    /\ lag = 0

Goto(r, place) == pc' = [pc EXCEPT ![r] = place]

\* Mutant: the age is not tested.
HitAnyAge(k) == k \in cache.keys

\* The cache answers for k.
Hit(k) == k \in cache.keys /\ cache.age < TTL

\* Mutant: an unknown key is not asked for again while the cache is young.
LockTrustsCache(r) ==
    /\ pc[r] = "lock"
    /\ holder = None
    /\ \/ Hit(kid[r]) /\ Goto(r, "begin") /\ UNCHANGED holder
       \/ ~Hit(kid[r]) /\ cache.age < TTL /\ Goto(r, "refused") /\ UNCHANGED holder
       \/ cache.age = TTL /\ Goto(r, "fetch") /\ holder' = r
    /\ UNCHANGED <<cache, got, lag, kid, missing>>

\* The mutex is taken: a hit gives it back at once.
Lock(r) ==
    /\ pc[r] = "lock"
    /\ holder = None
    /\ \/ Hit(kid[r]) /\ Goto(r, "begin") /\ UNCHANGED holder
       \/ ~Hit(kid[r]) /\ Goto(r, "fetch") /\ holder' = r
    /\ UNCHANGED <<cache, got, lag, kid, missing>>

\* Apple answers with what it publishes now.
Respond(r) ==
    /\ pc[r] = "fetch"
    /\ got' = published
    /\ lag' = 0
    /\ Goto(r, "store")
    /\ UNCHANGED <<cache, holder, kid, missing>>

\* Mutant: the mutex is not given back.
FetchFailsLocked(r) ==
    /\ pc[r] \in {"fetch", "store"}
    /\ Goto(r, "failed")
    /\ UNCHANGED <<cache, holder, got, lag, kid, missing>>

\* No answer, or none with a usable key: the cache stays as it was.
FetchFails(r) ==
    /\ pc[r] \in {"fetch", "store"}
    /\ Goto(r, "failed")
    /\ holder' = None
    /\ got' = {}
    /\ lag' = 0
    /\ UNCHANGED <<cache, kid, missing>>

\* The answer replaces the cache; fetchedAt is now, not when Apple answered.
Store(r) ==
    /\ pc[r] = "store"
    /\ cache' = [keys |-> got, age |-> 0]
    /\ holder' = None
    /\ Goto(r, IF kid[r] \in got THEN "begin" ELSE "refused")
    /\ got' = {}
    /\ lag' = 0
    /\ UNCHANGED <<kid, missing>>

Verify(r) == Lock(r) \/ Respond(r) \/ Store(r)

-----------------------------------------------------------------------------
(* Apple and the clock *)

\* A key that was withdrawn does not come back soon.
Publish(k) ==
    /\ k \notin published /\ withdrawn[k] = Old
    /\ published' = published \cup {k}
    /\ withdrawn' = [withdrawn EXCEPT ![k] = 0]
    /\ UNCHANGED <<cacheVars, pc, kid, missing>>

Withdraw(k) ==
    /\ k \in published /\ published # {k}
    /\ published' = published \ {k}
    /\ missing' = [r \in Requests |-> missing[r] \/ kid[r] = k]
    /\ UNCHANGED <<withdrawn, cacheVars, pc, kid>>

Later(n, bound) == IF n < bound THEN n + 1 ELSE bound

\* A unit of time.
Tick ==
    /\ \A r \in Requests : pc[r] = "store" => lag < MaxLag
    /\ withdrawn' = [k \in Kids |->
                        IF k \in published THEN 0 ELSE Later(withdrawn[k], Old)]
    /\ cache' = [cache EXCEPT !.age = Later(@, TTL)]
    /\ lag' = IF holder # None /\ pc[holder] = "store" THEN lag + 1 ELSE 0
    /\ UNCHANGED <<published, holder, got, pc, kid, missing>>

Apple == Tick \/ \E k \in Kids : Publish(k) \/ Withdraw(k)

-----------------------------------------------------------------------------
(* Properties *)

\* A sign-in whose key Apple published all the while is not refused as unknown,
\* however old the cache was when the key appeared.
RefusedWasUnpublished ==
    \A r \in Requests : pc[r] = "refused" => missing[r]

\* Acceptance of a withdrawn key ends TTL after the fetch that last saw it; the
\* time that the answer took comes on top.
KeysAreRecentStep ==
    \A r \in Requests :
        pc[r] \in {"lock", "store"} /\ pc'[r] = "begin" => withdrawn[kid[r]] < Old
=============================================================================

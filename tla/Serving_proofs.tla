--------------------------- MODULE Serving_proofs ---------------------------
(***************************************************************************)
(* The pool, the mutex and the cache of Apple's keys, for any number of    *)
(* requests, connections and keys.  One lemma per action shows that it     *)
(* preserves the inductive invariant IInv.                                 *)
(***************************************************************************)
EXTENDS Serving, FiniteSetTheorems, TLAPS

\* Nobody is served, nothing is cached and nothing is withheld at the start.
LEMMA InitInv == ASSUME Init PROVE IInv
<1>1. IsFiniteSet(conn) /\ Cardinality(conn) = 0
  BY FS_EmptySet DEF Init
<1>2. TypeOK
  <2>1. withdrawn \in [Kids -> 0..Old] /\ cache \in [keys : SUBSET Kids, age : 0..TTL]
    BY KeysAssumption DEF Init, KeysInit, Old
  <2>2. conn \in SUBSET Requests /\ Cardinality(conn) <= MaxConns
    BY <1>1, PoolAssumption DEF Init
  <2>3. /\ published \in (SUBSET Kids) \ {{}}
        /\ holder \in Requests \cup {None}
        /\ got \subseteq Kids
        /\ lag \in 0..MaxLag
    BY KeysAssumption DEF Init, KeysInit
  <2>4. /\ pc \in [Requests -> Labels]
        /\ kid \in [Requests -> Kids \cup {None}]
        /\ missing \in [Requests -> BOOLEAN]
    BY DEF Init, Labels
  <2> QED BY <2>1, <2>2, <2>3, <2>4 DEF Init, TypeOK
<1>3. HoldInv /\ MissingInv
  BY KeysAssumption DEF Init, KeysInit, HoldInv, MissingInv
<1>4. AgeInv
  BY KeysAssumption DEF Init, KeysInit, AgeInv
<1> QED BY <1>1, <1>2, <1>3, <1>4 DEF IInv

\* A request arrives without connection or mutex, and only while the server runs.
LEMMA ArriveInv == ASSUME IInv, NEW r \in Requests, Arrive(r) PROVE IInv'
<1> USE DEF IInv, Arrive, Ended, Goto, appleVars, cacheVars, pool
<1>1. TypeOK' /\ IsFiniteSet(conn)'
  BY DEF TypeOK, Labels
<1>2. HoldInv'
  BY DEF TypeOK, HoldInv
<1>3. MissingInv'
  BY DEF TypeOK, MissingInv
<1>4. AgeInv'
  BY DEF TypeOK, AgeInv
<1> QED BY <1>1, <1>2, <1>3, <1>4

\* A sign-in whose key Apple does not publish starts with that on record.
LEMMA ArriveFromAppleInv ==
    ASSUME IInv, NEW r \in Requests, NEW k \in Kids, ArriveFromApple(r, k)
    PROVE IInv'
<1> USE DEF IInv, ArriveFromApple, Ended, Goto, appleVars, cacheVars, pool
<1>1. TypeOK' /\ IsFiniteSet(conn)'
  BY DEF TypeOK, Labels
<1>2. HoldInv'
  BY DEF TypeOK, HoldInv
<1>3. MissingInv'
  BY DEF TypeOK, MissingInv
<1>4. AgeInv'
  BY DEF TypeOK, AgeInv
<1> QED BY <1>1, <1>2, <1>3, <1>4

\* The mutex is free, so nothing is on its way; a hit needs no more than the lookup.
LEMMA LockInv ==
    ASSUME IInv, NEW r \in Requests, Lock(r), UNCHANGED <<appleVars, pool>>
    PROVE IInv'
<1> USE DEF IInv, Lock, Goto, appleVars, pool
<1>1. TypeOK' /\ IsFiniteSet(conn)'
  BY DEF TypeOK, Labels
<1>2. HoldInv'
  BY KeysAssumption DEF TypeOK, HoldInv
<1>3. MissingInv'
  BY DEF TypeOK, MissingInv
<1>4. AgeInv'
  BY KeysAssumption DEF TypeOK, AgeInv
<1> QED BY <1>1, <1>2, <1>3, <1>4

\* The answer is what Apple publishes now: none of it is withdrawn.
LEMMA RespondInv ==
    ASSUME IInv, NEW r \in Requests, Respond(r), UNCHANGED <<appleVars, pool>>
    PROVE IInv'
<1> USE DEF IInv, Respond, Goto, appleVars, pool
<1>1. TypeOK' /\ IsFiniteSet(conn)'
  BY KeysAssumption DEF TypeOK, Labels
<1>2. HoldInv'
  BY KeysAssumption DEF TypeOK, HoldInv
<1>3. MissingInv'
  <2>1. kid[r] \notin published => missing[r]
    BY DEF MissingInv
  <2> QED BY <1>2, <2>1 DEF TypeOK, MissingInv, HoldInv
<1>4. AgeInv'
  BY KeysAssumption DEF TypeOK, AgeInv, HoldInv
<1> QED BY <1>1, <1>2, <1>3, <1>4

\* The request that fetched has the mutex, and gives it back.
LEMMA FetchFailsInv ==
    ASSUME IInv, NEW r \in Requests, FetchEnds(r)
    PROVE IInv'
<1> USE DEF IInv, FetchEnds, FetchFails, Goto, appleVars, pool
<1>0. holder = r
  BY DEF HoldInv
<1>1. TypeOK' /\ IsFiniteSet(conn)'
  BY KeysAssumption DEF TypeOK, Labels
<1>2. HoldInv'
  BY <1>0, KeysAssumption DEF TypeOK, HoldInv
<1>3. MissingInv'
  BY <1>0, <1>2 DEF TypeOK, MissingInv, HoldInv
<1>4. AgeInv'
  BY KeysAssumption DEF TypeOK, AgeInv
<1> QED BY <1>1, <1>2, <1>3, <1>4

\* What is stored was withdrawn no longer ago than its answer is old.
LEMMA StoreInv ==
    ASSUME IInv, NEW r \in Requests, Store(r), UNCHANGED <<appleVars, pool>>
    PROVE IInv'
<1> USE DEF IInv, Store, Goto, appleVars, pool
<1>0. holder = r
  BY DEF HoldInv
<1>1. TypeOK' /\ IsFiniteSet(conn)'
  BY KeysAssumption DEF TypeOK, Labels
<1>2. HoldInv'
  BY <1>0, KeysAssumption DEF TypeOK, HoldInv
<1>3. MissingInv'
  <2>1. kid[r] \notin got => missing[r]
    BY DEF MissingInv
  <2> QED BY <1>0, <1>2, <2>1 DEF TypeOK, MissingInv, HoldInv
<1>4. AgeInv'
  BY KeysAssumption DEF TypeOK, AgeInv
<1> QED BY <1>1, <1>2, <1>3, <1>4

\* A connection is given out only while one is free.
LEMMA AcquireInv == ASSUME IInv, NEW r \in Requests, Acquire(r) PROVE IInv'
<1> USE DEF IInv, Acquire, Goto, appleVars, cacheVars
<1>0. Cardinality(conn') <= MaxConns /\ IsFiniteSet(conn')
  <2>1. IsFiniteSet(conn) /\ Cardinality(conn) \in Nat
    BY FS_CardinalityType
  <2>2. IsFiniteSet(conn')
        /\ Cardinality(conn') = IF r \in conn THEN Cardinality(conn) ELSE Cardinality(conn) + 1
    BY <2>1, FS_AddElement
  <2> QED BY <2>1, <2>2, PoolAssumption DEF Free
<1>1. TypeOK' /\ IsFiniteSet(conn)'
  BY <1>0 DEF TypeOK, Labels
<1>2. HoldInv'
  BY DEF TypeOK, HoldInv
<1>3. MissingInv'
  BY DEF TypeOK, MissingInv
<1>4. AgeInv'
  BY DEF TypeOK, AgeInv
<1> QED BY <1>1, <1>2, <1>3, <1>4

\* Giving a connection back leaves no more in use than before.
LEMMA Release ==
    ASSUME IInv, NEW r \in Requests, conn' = conn \ {r} \/ conn' = conn
    PROVE IsFiniteSet(conn') /\ Cardinality(conn') <= MaxConns /\ conn' \in SUBSET Requests
<1>1. IsFiniteSet(conn) /\ Cardinality(conn) \in Nat /\ Cardinality(conn) <= MaxConns
  BY FS_CardinalityType DEF IInv, TypeOK
<1>2. IsFiniteSet(conn \ {r})
      /\ Cardinality(conn \ {r}) = IF r \in conn THEN Cardinality(conn) - 1 ELSE Cardinality(conn)
  BY <1>1, FS_RemoveElement
<1>3. CASE conn' = conn \ {r}
  BY <1>1, <1>2, <1>3, PoolAssumption DEF IInv, TypeOK
<1>4. CASE conn' = conn
  BY <1>1, <1>4 DEF IInv, TypeOK
<1> QED BY <1>3, <1>4

\* RequireAuth's connection goes back before the handler asks for one.
LEMMA AuthQueryInv == ASSUME IInv, NEW r \in Requests, AuthQuery(r) PROVE IInv'
<1> USE DEF IInv, AuthQuery, Goto, appleVars, cacheVars
<1>0. Cardinality(conn') <= MaxConns /\ IsFiniteSet(conn') /\ conn' \in SUBSET Requests
  BY Release
<1>1. TypeOK' /\ IsFiniteSet(conn)'
  BY <1>0 DEF TypeOK, Labels
<1>2. HoldInv'
  BY DEF TypeOK, HoldInv
<1>3. MissingInv'
  BY DEF TypeOK, MissingInv
<1>4. AgeInv'
  BY DEF TypeOK, AgeInv
<1> QED BY <1>1, <1>2, <1>3, <1>4

\* The end of a request that has not the mutex, whatever ended it.
LEMMA OverInv ==
    ASSUME IInv, NEW r \in Requests, Over(r),
           pc[r] \in {"auth", "authQuery", "begin", "tx", "refused", "failed"},
           conn' = conn \ {r}, UNCHANGED <<appleVars, cacheVars, server>>
    PROVE IInv'
<1> USE DEF IInv, Over, Goto, appleVars, cacheVars
<1>0. Cardinality(conn') <= MaxConns /\ IsFiniteSet(conn') /\ conn' \in SUBSET Requests
  BY Release
<1>1. TypeOK' /\ IsFiniteSet(conn)'
  BY <1>0 DEF TypeOK, Labels
<1>2. HoldInv'
  BY DEF TypeOK, HoldInv
<1>3. MissingInv'
  BY DEF TypeOK, MissingInv
<1>4. AgeInv'
  BY DEF TypeOK, AgeInv
<1> QED BY <1>1, <1>2, <1>3, <1>4

\* What a handler does by itself.
LEMMA HandleInv == ASSUME IInv, NEW r \in Requests, Handle(r) PROVE IInv'
<1>1. CASE AuthQuery(r)
  BY <1>1, AuthQueryInv
<1>2. CASE EndTransaction(r)
  BY <1>2, OverInv DEF EndTransaction
<1>3. CASE Refuse(r) \/ FindClosed(r)
  <2>1. conn' = conn \ {r}
    BY <1>3 DEF Refuse, FindClosed, IInv, HoldInv, pool
  <2> QED BY <1>3, <2>1, OverInv DEF Refuse, FindClosed, pool
<1> QED BY <1>1, <1>2, <1>3 DEF Handle

\* When the process ends, nobody holds anything.
LEMMA MainInv == ASSUME IInv, Main PROVE IInv'
<1>1. CASE Quit \/ Drained \/ GraceEnds \/ CloseDB
  <2> USE <1>1 DEF IInv, Quit, Drained, GraceEnds, CloseDB, Requested, Ended, appleVars,
               cacheVars
  <2>1. TypeOK' /\ IsFiniteSet(conn)'
    BY DEF TypeOK
  <2>2. HoldInv' /\ MissingInv' /\ AgeInv'
    BY DEF HoldInv, MissingInv, AgeInv
  <2> QED BY <2>1, <2>2
<1>2. CASE Exit
  <2> USE <1>2 DEF IInv, Exit, appleVars
  <2>1. IsFiniteSet(conn') /\ Cardinality(conn') = 0
    BY FS_EmptySet
  <2>2. TypeOK'
    BY <2>1, KeysAssumption, PoolAssumption DEF TypeOK, Labels
  <2>3. HoldInv' /\ MissingInv' /\ AgeInv'
    BY KeysAssumption DEF HoldInv, MissingInv, AgeInv
  <2> QED BY <2>1, <2>2, <2>3
<1> QED BY <1>1, <1>2 DEF Main

\* Apple's publishing does not touch the requests; a key that is withdrawn is
\* missing from then on.
LEMMA PublishInv ==
    ASSUME IInv, NEW k \in Kids, Publish(k) \/ Withdraw(k), UNCHANGED pool
    PROVE IInv'
<1> USE DEF IInv, Publish, Withdraw, cacheVars, pool
<1>1. TypeOK' /\ IsFiniteSet(conn)'
  <2>1. published' \in (SUBSET Kids) \ {{}}
    BY DEF TypeOK
  <2>2. withdrawn' \in [Kids -> 0..Old]
    BY KeysAssumption DEF TypeOK, Old
  <2>3. missing' \in [Requests -> BOOLEAN]
    <3>1. CASE Publish(k)
      BY <3>1 DEF TypeOK
    <3>2. CASE Withdraw(k)
      <4>1. \A r \in Requests : (missing[r] \/ kid[r] = k) \in BOOLEAN
        BY Zenon
      <4> QED BY <3>2, <4>1 DEF TypeOK
    <3> QED BY <3>1, <3>2
  <2>4. UNCHANGED <<cache, holder, got, lag, pc, kid, conn, server>>
    BY DEF pool
  <2> QED BY <2>1, <2>2, <2>3, <2>4 DEF TypeOK
<1>2. HoldInv'
  BY DEF HoldInv
<1>3. MissingInv'
  BY DEF TypeOK, MissingInv
<1>4. AgeInv'
  BY KeysAssumption DEF TypeOK, AgeInv
<1> QED BY <1>1, <1>2, <1>3, <1>4

\* Time makes what is withdrawn, cached and on its way older together.
LEMMA TickInv == ASSUME IInv, Tick, UNCHANGED pool PROVE IInv'
<1> USE DEF IInv, Tick, pool
<1>0. Old \in Nat /\ TTL \in Nat /\ MaxLag \in Nat
  BY KeysAssumption DEF Old
<1>1. TypeOK' /\ IsFiniteSet(conn)'
  <2>1. withdrawn' \in [Kids -> 0..Old]
    BY <1>0 DEF TypeOK, Later
  <2>2. cache' \in [keys : SUBSET Kids, age : 0..TTL]
    BY <1>0 DEF TypeOK, Later
  <2>3. lag' \in 0..MaxLag
    BY <1>0, KeysAssumption DEF TypeOK
  <2> QED BY <2>1, <2>2, <2>3 DEF TypeOK
<1>2. HoldInv' /\ MissingInv'
  BY DEF HoldInv, MissingInv
<1>3. AgeInv'
  <2>1. \A k \in published' : withdrawn'[k] = 0
    BY DEF TypeOK
  <2>2. \A k \in Kids : withdrawn'[k] \in Nat /\ withdrawn'[k] <= withdrawn[k] + 1
    BY <1>0 DEF TypeOK, Later
  <2>3. ASSUME NEW k \in cache'.keys, cache'.age < TTL
        PROVE withdrawn'[k] <= cache'.age + MaxLag
    <3>1. cache'.keys = cache.keys /\ cache'.age = cache.age + 1 /\ cache.age < TTL
      BY <2>3, <1>0 DEF TypeOK, Later
    <3>2. withdrawn[k] <= cache.age + MaxLag /\ k \in Kids
      BY <2>3, <3>1 DEF AgeInv, TypeOK
    <3> QED BY <1>0, <2>2, <3>1, <3>2 DEF TypeOK
  <2>4. got' # {} => \E r \in Requests : holder' = r /\ pc'[r] = "store"
    BY DEF AgeInv
  <2>5. ASSUME NEW k \in got' PROVE withdrawn'[k] <= lag'
    <3>1. lag' = lag + 1
      BY <2>5, <2>4, KeysAssumption DEF AgeInv
    <3> QED BY <1>0, <2>2, <2>5, <3>1 DEF AgeInv, TypeOK
  <2> QED BY <2>1, <2>3, <2>4, <2>5 DEF AgeInv
<1> QED BY <1>1, <1>2, <1>3

\* IInv is inductive.
THEOREM Invariance == Spec => []IInv
<1>1. IInv /\ [Next]_vars => IInv'
  <2> SUFFICES ASSUME IInv, [Next]_vars PROVE IInv'
    OBVIOUS
  <2>1. ASSUME NEW r \in Requests, Arrive(r) PROVE IInv'
    BY <2>1, ArriveInv
  <2>2. ASSUME NEW r \in Requests, VerifyToken(r) PROVE IInv'
    BY <2>2, LockInv, RespondInv, StoreInv DEF VerifyToken, Verify
  <2>3. ASSUME NEW r \in Requests, FetchEnds(r) PROVE IInv'
    BY <2>3, FetchFailsInv
  <2>4. ASSUME NEW r \in Requests, Acquire(r) PROVE IInv'
    BY <2>4, AcquireInv
  <2>5. ASSUME NEW r \in Requests, Handle(r) PROVE IInv'
    BY <2>5, HandleInv
  <2>6. ASSUME NEW r \in Requests, Abort(r) PROVE IInv'
    BY <2>6, OverInv DEF Abort
  <2>7. ASSUME NEW r \in Requests, NEW k \in Kids, ArriveFromApple(r, k) PROVE IInv'
    BY <2>7, ArriveFromAppleInv
  <2>8. ASSUME Main PROVE IInv'
    BY <2>8, MainInv
  <2>9. ASSUME Apple, UNCHANGED pool PROVE IInv'
    BY <2>9, TickInv, PublishInv DEF Apple
  <2>10. CASE UNCHANGED vars
    BY <2>10 DEF vars, appleVars, cacheVars, pool, IInv, TypeOK, HoldInv, MissingInv,
                 AgeInv
  <2> QED BY <2>1, <2>2, <2>3, <2>4, <2>5, <2>6, <2>7, <2>8, <2>9, <2>10 DEF Next
<1> QED BY <1>1, InitInv, PTL DEF Spec

\* Every variable keeps its type, and no more connections are in use than
\* SetMaxOpenConns allows.
THEOREM TypesCorrect == Spec => []TypeOK
<1>1. IInv => TypeOK
  BY DEF IInv
<1> QED BY <1>1, Invariance, PTL

\* Whoever has a connection or the mutex waits for neither, so there is no circle
\* of requests that wait for each other.
THEOREM NoCircle == Spec => []HoldersDoNotWait
<1>1. IInv => HoldersDoNotWait
  BY DEF IInv, HoldInv, HoldersDoNotWait
<1> QED BY <1>1, Invariance, PTL

\* A key that Apple published all the while is never unknown to a sign-in.
THEOREM PublishedIsKnown == Spec => []RefusedWasUnpublished
<1>1. IInv => RefusedWasUnpublished
  BY DEF IInv, MissingInv, RefusedWasUnpublished
<1> QED BY <1>1, Invariance, PTL

\* A request comes to its transaction from the key cache only by a hit or by the
\* answer that was just stored.
LEMMA VerifiedBy ==
    ASSUME IInv, [Next]_vars, NEW r \in Requests,
           pc[r] \in {"lock", "store"}, pc'[r] = "begin"
    PROVE \/ kid[r] \in cache.keys /\ cache.age < TTL
          \/ kid[r] \in got
<1> SUFFICES ASSUME Next PROVE \/ kid[r] \in cache.keys /\ cache.age < TTL
                              \/ kid[r] \in got
  BY DEF vars
<1> USE DEF IInv, TypeOK
<1>1. ASSUME NEW q \in Requests, Arrive(q) \/ Acquire(q) \/ Handle(q) \/ Abort(q)
      PROVE FALSE
  BY <1>1 DEF Arrive, Ended, Acquire, Handle, AuthQuery, EndTransaction, Refuse, FindClosed,
              Abort, Over, Goto
<1>2. ASSUME NEW q \in Requests, NEW k \in Kids, ArriveFromApple(q, k) PROVE FALSE
  BY <1>2 DEF ArriveFromApple, Ended, Goto
<1>3. ASSUME NEW q \in Requests, FetchEnds(q) PROVE FALSE
  BY <1>3 DEF FetchEnds, FetchFails, Goto
<1>4. ASSUME Main PROVE FALSE
  BY <1>4 DEF Main, Quit, Drained, GraceEnds, CloseDB, Exit, Requested
<1>5. ASSUME Apple PROVE FALSE
  BY <1>5 DEF Apple, Tick, Publish, Withdraw
<1>6. ASSUME NEW q \in Requests, VerifyToken(q)
      PROVE \/ kid[r] \in cache.keys /\ cache.age < TTL
            \/ kid[r] \in got
  BY <1>6 DEF VerifyToken, Verify, Lock, Respond, Store, Hit, Goto
<1> QED BY <1>1, <1>2, <1>3, <1>4, <1>5, <1>6 DEF Next

\* A key is accepted for less than TTL after Apple's withdrawing it, not counting
\* the time that the answer took.
THEOREM KeysRecent == Spec => KeysAreRecent
<1>1. ASSUME IInv, [Next]_vars PROVE KeysAreRecentStep
  <2> SUFFICES ASSUME NEW r \in Requests, pc[r] \in {"lock", "store"}, pc'[r] = "begin"
               PROVE withdrawn[kid[r]] < Old
    BY DEF KeysAreRecentStep
  <2>1. \/ kid[r] \in cache.keys /\ cache.age < TTL
        \/ kid[r] \in got
    BY <1>1, VerifiedBy
  <2>2. kid[r] \in Kids
    BY <1>1 DEF IInv, MissingInv
  <2> QED BY <1>1, <2>1, <2>2, KeysAssumption DEF IInv, AgeInv, TypeOK, Old
<1>2. IInv /\ [Next]_vars => KeysAreRecentStep
  BY <1>1
<1> QED BY <1>2, Invariance, PTL DEF Spec, KeysAreRecent
=============================================================================

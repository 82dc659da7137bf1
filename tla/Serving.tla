------------------------------- MODULE Serving -------------------------------
(***************************************************************************)
(* What the handlers share in the process: the pool of database            *)
(* connections, the mutex of Apple's keys, and the server's life.  A       *)
(* request is of one of three kinds: behind RequireAuth, which reads on a  *)
(* connection of its own, without a deadline; without RequireAuth; or a    *)
(* sign-in with Apple, which verifies a token.  All end in a transaction.  *)
(***************************************************************************)
EXTENDS AppleKeys, FiniteSets

CONSTANTS MaxConns      \* SetMaxOpenConns

ASSUME PoolAssumption == MaxConns \in Nat \ {0}

VARIABLES
    conn,       \* the requests that have a connection
    server      \* what main does

pool == <<conn, server>>
vars == <<published, withdrawn, cacheVars, pc, kid, missing, pool>>

Labels == {"idle", "auth", "authQuery", "lock", "fetch", "store", "refused", "failed",
           "begin", "tx", "cut"}

Init ==
    /\ KeysInit
    /\ pc = [r \in Requests |-> "idle"]
    /\ kid = [r \in Requests |-> None]
    /\ missing = [r \in Requests |-> FALSE]
    /\ conn = {}
    /\ server = "up"

\* The request is over: answered, or with its answer cut off.
Ended(r) == pc[r] \in {"idle", "cut"}

Running == server \in {"up", "draining"}

-----------------------------------------------------------------------------
(* Requests *)

\* The listener is open until Shutdown closes it.
Arrive(r) ==
    /\ server = "up"
    /\ Ended(r)
    /\ \E place \in {"auth", "begin"} : Goto(r, place)
    /\ UNCHANGED <<appleVars, cacheVars, kid, missing, pool>>

ArriveFromApple(r, k) ==
    /\ server = "up"
    /\ Ended(r)
    /\ Goto(r, "lock")
    /\ kid' = [kid EXCEPT ![r] = k]
    /\ missing' = [missing EXCEPT ![r] = k \notin published]
    /\ UNCHANGED <<appleVars, cacheVars, pool>>

\* Mutants: the token is verified inside the transaction; no limit.
VerifyInTransaction(r) ==
    /\ Verify(r)
    /\ pc[r] = "lock" => Cardinality(conn) < MaxConns
    /\ conn' = IF pc[r] = "lock" THEN conn \cup {r} ELSE conn \ {r}
    /\ UNCHANGED <<appleVars, server>>

FreeAlways == TRUE

VerifyToken(r) == Verify(r) /\ UNCHANGED <<appleVars, pool>>

FetchEnds(r) == FetchFails(r) /\ UNCHANGED <<appleVars, pool>>

\* A connection is free.
Free == Cardinality(conn) < MaxConns

\* A query or BEGIN is given a connection.
Acquire(r) ==
    /\ pc[r] \in {"auth", "begin"}
    /\ server \notin {"dbClosed", "exited"}
    /\ Free
    /\ conn' = conn \cup {r}
    /\ Goto(r, IF pc[r] = "auth" THEN "authQuery" ELSE "tx")
    /\ UNCHANGED <<appleVars, cacheVars, kid, missing, server>>

\* Mutant: the rows are not closed.
AuthQueryLeaks(r) ==
    /\ pc[r] = "authQuery"
    /\ Goto(r, "begin")
    /\ UNCHANGED <<appleVars, cacheVars, kid, missing, pool>>

\* RequireAuth has its row, and the connection goes back before the handler runs.
AuthQuery(r) ==
    /\ pc[r] = "authQuery"
    /\ conn' = conn \ {r}
    /\ \E place \in {"begin", "failed"} : Goto(r, place)
    /\ UNCHANGED <<appleVars, cacheVars, kid, missing, server>>

\* The request is over.  Its answer is cut off once server.Close has closed its
\* connection, or, at any time, when its WriteTimeout of 10 s has passed.
Over(r) ==
    /\ \/ Running /\ Goto(r, "idle")
       \/ Goto(r, "cut")
    /\ kid' = [kid EXCEPT ![r] = None]
    /\ missing' = [missing EXCEPT ![r] = FALSE]

\* COMMIT or the deferred rollback.
EndTransaction(r) ==
    /\ pc[r] = "tx"
    /\ conn' = conn \ {r}
    /\ Over(r)
    /\ UNCHANGED <<appleVars, cacheVars, server>>

\* An error response.
Refuse(r) ==
    /\ pc[r] \in {"refused", "failed"}
    /\ Over(r)
    /\ UNCHANGED <<appleVars, cacheVars, pool>>

\* The caller goes away, or server.Close cuts it off, or, in a transaction or on
\* the way to one, 5 s are over.  A fetch or a wait for the mutex does not notice.
Abort(r) ==
    /\ pc[r] \in {"auth", "authQuery", "begin", "tx"}
    /\ conn' = conn \ {r}
    /\ Over(r)
    /\ UNCHANGED <<appleVars, cacheVars, server>>

\* A query after db.Close.
FindClosed(r) ==
    /\ pc[r] \in {"auth", "begin"}
    /\ server = "dbClosed"
    /\ Over(r)
    /\ UNCHANGED <<appleVars, cacheVars, pool>>

Handle(r) == AuthQuery(r) \/ EndTransaction(r) \/ Refuse(r) \/ FindClosed(r)

-----------------------------------------------------------------------------
(* main *)

Requested == UNCHANGED <<appleVars, cacheVars, pc, kid, missing, conn>>

\* SIGTERM.
Quit ==
    /\ server = "up"
    /\ server' = "draining"
    /\ Requested

\* Shutdown returns: nobody is being served.
Drained ==
    /\ server = "draining"
    /\ \A r \in Requests : Ended(r)
    /\ server' = "closed"
    /\ Requested

\* Mutant: Shutdown has no deadline.
GraceEndless == FALSE /\ UNCHANGED vars

\* Shutdown gives up, and server.Close follows.
GraceEnds ==
    /\ server = "draining"
    /\ \E r \in Requests : ~Ended(r)
    /\ server' = "closed"
    /\ Requested

CloseDB ==
    /\ server = "closed"
    /\ server' = "dbClosed"
    /\ Requested

\* The process ends with whatever still runs in it.
Exit ==
    /\ server = "dbClosed"
    /\ server' = "exited"
    /\ pc' = [r \in Requests |-> IF pc[r] = "idle" THEN "idle" ELSE "cut"]
    /\ kid' = [r \in Requests |-> None]
    /\ missing' = [r \in Requests |-> FALSE]
    /\ conn' = {}
    /\ holder' = None
    /\ got' = {}
    /\ lag' = 0
    /\ UNCHANGED <<appleVars, cache>>

Main == Quit \/ Drained \/ GraceEnds \/ CloseDB \/ Exit

Next ==
    \/ \E r \in Requests :
          Arrive(r) \/ VerifyToken(r) \/ FetchEnds(r) \/ Acquire(r) \/ Handle(r) \/ Abort(r)
    \/ \E r \in Requests, k \in Kids : ArriveFromApple(r, k)
    \/ Main
    \/ server # "exited" /\ Apple /\ UNCHANGED pool

Spec == Init /\ [][Next]_vars

\* What a request does that waits for nobody, and what it waits to do.
Work(r) == Handle(r) \/ (Store(r) /\ UNCHANGED <<appleVars, pool>>)
Await(r) == Acquire(r) \/ (Lock(r) /\ UNCHANGED <<appleVars, pool>>)

\* Handlers run and queries end; mutex and pool are handed on to those who wait;
\* Shutdown's context expires.  Apple need not answer, nor callers leave.
FairSpec ==
    /\ Spec
    /\ \A r \in Requests : WF_vars(Work(r)) /\ SF_vars(Await(r))
    /\ WF_vars(Drained \/ GraceEnds \/ CloseDB \/ Exit)

-----------------------------------------------------------------------------
(* Properties *)

TypeOK ==
    /\ published \in (SUBSET Kids) \ {{}}
    /\ withdrawn \in [Kids -> 0..Old]
    /\ cache \in [keys : SUBSET Kids, age : 0..TTL]
    /\ holder \in Requests \cup {None}
    /\ got \subseteq Kids
    /\ lag \in 0..MaxLag
    /\ pc \in [Requests -> Labels]
    /\ kid \in [Requests -> Kids \cup {None}]
    /\ missing \in [Requests -> BOOLEAN]
    /\ conn \in SUBSET Requests /\ Cardinality(conn) <= MaxConns
    /\ server \in {"up", "draining", "closed", "dbClosed", "exited"}

\* Who has a connection or the mutex waits for neither: with one connection left,
\* or with a fetch that hangs, there is no circle.
HoldersDoNotWait ==
    \A r \in Requests :
        /\ r \in conn => pc[r] \in {"authQuery", "tx"}
        /\ holder = r => pc[r] \in {"fetch", "store"}

KeysAreRecent == [][KeysAreRecentStep]_vars

\* A fetch that hangs for ever keeps sign-ins with Apple waiting and nobody else.
OnlySignInsWaitForApple ==
    \A r \in Requests :
        pc[r] \in {"auth", "authQuery", "begin", "tx"} ~> Ended(r)

\* If fetches end, every request does.
EveryRequestEnds ==
    (\A r \in Requests : []<>(pc[r] # "fetch")) =>
        \A r \in Requests : ~Ended(r) ~> Ended(r)

\* The server stops when it is told to, whatever its requests do.
ShutdownEnds == server = "draining" ~> server = "exited"

-----------------------------------------------------------------------------
(* The inductive invariant *)

\* Connections and the mutex are held at their labels, and only there.
HoldInv ==
    \A r \in Requests :
        /\ r \in conn <=> pc[r] \in {"authQuery", "tx"}
        /\ holder = r <=> pc[r] \in {"fetch", "store"}

\* A key that is not published now, or was not when Apple answered, is missing.
MissingInv ==
    \A r \in Requests :
        /\ pc[r] \in {"lock", "fetch", "store"} =>
              kid[r] \in Kids /\ (kid[r] \notin published => missing[r])
        /\ pc[r] = "store" /\ kid[r] \notin got => missing[r]
        /\ pc[r] = "refused" => missing[r]

\* What is cached, and what is on its way, was withdrawn no longer ago than Apple's
\* answer is old.
AgeInv ==
    /\ \A k \in published : withdrawn[k] = 0
    /\ \A k \in cache.keys : cache.age < TTL => withdrawn[k] <= cache.age + MaxLag
    /\ \A k \in got : withdrawn[k] <= lag
    /\ got # {} => \E r \in Requests : holder = r /\ pc[r] = "store"

IInv == TypeOK /\ IsFiniteSet(conn) /\ HoldInv /\ MissingInv /\ AgeInv
=============================================================================

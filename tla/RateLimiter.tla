----------------------------- MODULE RateLimiter -----------------------------
(***************************************************************************)
(* One RateLimiterMiddleware: a request counter per address, and the       *)
(* goroutine that forgets addresses.  The five limiters of the server      *)
(* share nothing.  Both bodies run under the mutex, so each is one action; *)
(* the verdict is taken after unlocking, on a copy made before it.         *)
(***************************************************************************)
EXTENDS Integers, Sequences

CONSTANTS
    Addresses,      \* what getClientIP returns
    MaxRequests, Window,
    Retention,      \* 10 minutes
    Period,         \* 5 minutes
    MaxTime,        \* the bound of the clock
    None            \* no entry

ASSUME LimiterAssumption ==
    /\ MaxRequests \in Nat \ {0}
    /\ Window \in Nat /\ Retention \in Nat /\ Period \in Nat
    /\ Window <= Retention
    /\ MaxTime \in Nat
    /\ None \notin [requests : Nat, lastSeen : Nat] \cup [size : Nat, last : Nat]

VARIABLES
    now,            \* the clock, in units of time
    client,         \* the map `clients`
    nextCleanup,    \* when the ticker fires next
    passed          \* history: when the requests of each address were passed on

vars == <<now, client, nextCleanup, passed>>

-----------------------------------------------------------------------------

\* Counts past the limit are not told apart.  A count is at least 1 whenever the
\* mutex is free.
ClientLimiter == [requests : 1..MaxRequests + 1, lastSeen : Nat]

Init ==
    /\ now = 0
    /\ client = [a \in Addresses |-> None]
    /\ nextCleanup = Period
    /\ passed = [a \in Addresses |-> <<>>]

Since(c) == now - c.lastSeen

\* The entry of a, made now if there is none.
Entry(a) == IF client[a] = None THEN [requests |-> 0, lastSeen |-> now]
            ELSE client[a]

\* Mutant: the request that opens a new window is not counted.
CountedFromZero(a) ==
    IF Since(Entry(a)) > Window THEN 0
    ELSE IF Entry(a).requests > MaxRequests THEN Entry(a).requests
    ELSE Entry(a).requests + 1

\* The count with this request, after a silence of more than a window from 1.
Counted(a) ==
    IF Since(Entry(a)) > Window THEN 1
    ELSE IF Entry(a).requests > MaxRequests THEN Entry(a).requests
    ELSE Entry(a).requests + 1

\* Mutant: lastSeen is the start of the window instead of the last request.
LimitFixedWindow(a) ==
    /\ client' = [client EXCEPT ![a] =
                    [requests |-> Counted(a),
                     lastSeen |-> IF Counted(a) = 1 THEN now ELSE Entry(a).lastSeen]]
    /\ passed' = IF Counted(a) > MaxRequests THEN passed
                 ELSE [passed EXCEPT ![a] = Append(@, now)]
    /\ UNCHANGED <<now, nextCleanup>>

\* A request of a: refused requests count and are seen too.
Limit(a) ==
    /\ client' = [client EXCEPT ![a] = [requests |-> Counted(a), lastSeen |-> now]]
    /\ passed' = IF Counted(a) > MaxRequests THEN passed
                 ELSE [passed EXCEPT ![a] = Append(@, now)]
    /\ UNCHANGED <<now, nextCleanup>>

\* Mutants: addresses over the limit are kept; everything is forgotten.
CleanupKeepsRefused ==
    /\ now = nextCleanup
    /\ client' = [a \in Addresses |->
                    IF client[a] = None THEN None
                    ELSE IF Since(client[a]) > Retention
                            /\ client[a].requests <= MaxRequests
                    THEN None ELSE client[a]]
    /\ nextCleanup' = now + Period
    /\ UNCHANGED <<now, passed>>

CleanupAll ==
    /\ now = nextCleanup
    /\ client' = [a \in Addresses |-> None]
    /\ nextCleanup' = now + Period
    /\ UNCHANGED <<now, passed>>

\* One turn of the ticker's loop.
Cleanup ==
    /\ now = nextCleanup
    /\ client' = [a \in Addresses |->
                    IF client[a] = None THEN None
                    ELSE IF Since(client[a]) > Retention THEN None ELSE client[a]]
    /\ nextCleanup' = now + Period
    /\ UNCHANGED <<now, passed>>

\* Time passes.  The goroutine is not late by a whole unit.
Tick ==
    /\ now < MaxTime
    /\ now < nextCleanup
    /\ now' = now + 1
    /\ UNCHANGED <<client, nextCleanup, passed>>

Next == Tick \/ Cleanup \/ \E a \in Addresses : Limit(a)

Spec == Init /\ [][Next]_vars

-----------------------------------------------------------------------------
(* Properties *)

TypeOK ==
    /\ now \in Nat
    /\ client \in [Addresses -> ClientLimiter \cup {None}]
    /\ nextCleanup \in Nat
    /\ passed \in [Addresses -> Seq(Nat)]

\* Of any MaxRequests + 1 requests of an address that pass, the first and the
\* last are more than a window apart, wherever the window is laid and whenever
\* the address was forgotten in between.
AtMostMaxPerWindow ==
    \A a \in Addresses : \A i, j \in DOMAIN passed[a] :
        j >= i + MaxRequests => passed[a][j] - passed[a][i] > Window

\* The map does not grow with every address that ever called: an entry is gone
\* when its address has been silent for Retention and one Period.
EntriesAreForgotten ==
    \A a \in Addresses :
        client[a] # None => Since(client[a]) <= Retention + Period

\* Forgetting an address never changes which of its requests pass: the table
\* with its cleanup implements the bursts that have neither.
Bursts == INSTANCE RequestBursts WITH
    now <- now,
    passed <- passed,
    Quiet <- None,
    burst <- [a \in Addresses |->
                IF client[a] = None THEN None
                ELSE IF Since(client[a]) > Window THEN None
                ELSE [size |-> client[a].requests, last |-> client[a].lastSeen]]

ImplementsBursts == Bursts!Spec

-----------------------------------------------------------------------------
(* The inductive invariant *)

\* The ticker is at most a Period ahead, and no entry outlives the turn after
\* its Retention.
ClockInv ==
    /\ now <= nextCleanup
    /\ nextCleanup <= now + Period
    /\ \A a \in Addresses : client[a] # None =>
          /\ client[a].lastSeen <= now
          /\ nextCleanup <= client[a].lastSeen + Retention + Period

\* How many requests of the burst that the entry of a counts have passed.
PassedInBurst(a) ==
    IF client[a].requests > MaxRequests THEN MaxRequests ELSE client[a].requests

\* The entry knows the end of the history: what passed since the burst began is
\* counted, and what passed before is more than a window older.
HistoryInv ==
    \A a \in Addresses :
        IF client[a] = None
        THEN \A i \in 1..Len(passed[a]) : now - passed[a][i] > Window
        ELSE /\ PassedInBurst(a) <= Len(passed[a])
             /\ \A i \in 1..Len(passed[a]) : passed[a][i] <= client[a].lastSeen
             /\ \A i, j \in 1..Len(passed[a]) :
                   i + PassedInBurst(a) <= Len(passed[a])
                   /\ j + PassedInBurst(a) > Len(passed[a])
                   => passed[a][j] - passed[a][i] > Window

IInv == TypeOK /\ ClockInv /\ HistoryInv /\ AtMostMaxPerWindow
=============================================================================

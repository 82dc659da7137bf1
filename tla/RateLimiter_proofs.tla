------------------------- MODULE RateLimiter_proofs -------------------------
(***************************************************************************)
(* Proofs about RateLimiter, for any addresses, limit and durations: the   *)
(* invariant is inductive, at most MaxRequests requests pass in a window,  *)
(* entries are forgotten, and the table implements the bursts.             *)
(***************************************************************************)
EXTENDS RateLimiter, TLAPS

\* What an entry is, and what is counted, stay in their types.
LEMMA CountedType ==
    ASSUME TypeOK, ClockInv, NEW a \in Addresses
    PROVE  /\ Counted(a) \in 1..MaxRequests + 1
           /\ [requests |-> Counted(a), lastSeen |-> now] \in ClientLimiter
           /\ [requests |-> Counted(a), lastSeen |-> now] # None
<1> USE LimiterAssumption
<1> DEFINE c == Counted(a)
<1>1. CASE client[a] = None
  <2>1. c = 1
    BY <1>1, Z3 DEF Counted, Entry, Since, TypeOK
  <2> QED
    BY <2>1 DEF ClientLimiter, TypeOK
<1>2. CASE client[a] # None
  <2>1. client[a] \in ClientLimiter
    BY <1>2 DEF TypeOK
  <2>2. Entry(a).requests \in 1..MaxRequests + 1
    BY <1>2, <2>1 DEF Entry, ClientLimiter
  <2>3. c \in 1..MaxRequests + 1
    BY <2>2 DEF Counted
  <2> QED
    BY <2>3 DEF ClientLimiter, TypeOK
<1> QED
  BY <1>1, <1>2

\* Append adds one element at the end.
LEMMA Appended ==
    ASSUME NEW s \in Seq(Nat), NEW t \in Nat
    PROVE  /\ Append(s, t) \in Seq(Nat)
           /\ DOMAIN Append(s, t) = 1..Len(s) + 1 /\ Len(Append(s, t)) = Len(s) + 1
           /\ \A i \in 1..Len(s) : Append(s, t)[i] = s[i]
           /\ Append(s, t)[Len(s) + 1] = t
OBVIOUS

\* A request keeps the invariant.
LEMMA LimitInv ==
    ASSUME IInv, NEW a \in Addresses, Limit(a)
    PROVE  IInv'
<1> USE LimiterAssumption
<1> DEFINE c == Counted(a)
           n == Len(passed[a])
<1>1. /\ c \in 1..MaxRequests + 1
      /\ [requests |-> c, lastSeen |-> now] \in ClientLimiter
      /\ [requests |-> c, lastSeen |-> now] # None
  BY CountedType DEF IInv
<1>2. now \in Nat /\ now' = now /\ nextCleanup' = nextCleanup
  BY DEF IInv, TypeOK, Limit
<1>3. /\ client' = [client EXCEPT ![a] = [requests |-> c, lastSeen |-> now]]
      /\ client \in [Addresses -> ClientLimiter \cup {None}]
      /\ passed \in [Addresses -> Seq(Nat)]
  BY DEF IInv, TypeOK, Limit
<1>4. passed' = IF c > MaxRequests THEN passed
                ELSE [passed EXCEPT ![a] = Append(@, now)]
  BY DEF Limit
<1>5. c > MaxRequests => client[a] # None /\ client[a].requests >= MaxRequests
                         /\ PassedInBurst(a) = MaxRequests
  <2>1. CASE client[a] = None
    BY <2>1, <1>2, Z3 DEF Counted, Entry, Since
  <2>2. CASE client[a] # None
    <3>1. client[a].requests \in 1..MaxRequests + 1
      BY <2>2, <1>3 DEF ClientLimiter
    <3> QED
      BY <2>2, <3>1 DEF Counted, Entry, PassedInBurst
  <2> QED
    BY <2>1, <2>2
<1> HIDE DEF c, n
<1>6. TypeOK'
  BY <1>1, <1>2, <1>3, <1>4 DEF TypeOK, IInv
<1>7. ClockInv'
  BY <1>1, <1>2, <1>3 DEF ClockInv, IInv, TypeOK
<1>8. \A b \in Addresses \ {a} : client'[b] = client[b] /\ passed'[b] = passed[b]
  BY <1>3, <1>4
<1>9. client'[a] = [requests |-> c, lastSeen |-> now]
  BY <1>3
<1>10. /\ c > MaxRequests => passed'[a] = passed[a]
       /\ c <= MaxRequests => passed'[a] = Append(passed[a], now)
  BY <1>1, <1>3, <1>4
<1>11. /\ passed[a] \in Seq(Nat) /\ n \in Nat
       /\ \A i \in 1..n : passed[a][i] \in Nat
  BY <1>3 DEF n
\* The requests that passed are not in the future, and those before the burst
\* of this request are a window away from it.
<1>12. \A i \in 1..n : passed[a][i] <= now
  <2>1. CASE client[a] = None
    <3>1. \A i \in 1..n : now - passed[a][i] > Window
      BY <2>1 DEF IInv, HistoryInv, n
    <3> QED
      BY <3>1, <1>2, <1>11
  <2>2. CASE client[a] # None
    <3>1. client[a].lastSeen \in Nat /\ client[a].lastSeen <= now
      BY <2>2, <1>3 DEF IInv, ClockInv, ClientLimiter
    <3> QED
      BY <2>2, <3>1, <1>2, <1>11 DEF IInv, HistoryInv, n
  <2> QED
    BY <2>1, <2>2
<1>13. ASSUME c <= MaxRequests
       PROVE  /\ c <= n + 1
              /\ \A i \in 1..n : i + c <= n + 1 => now - passed[a][i] > Window
  <2>1. CASE client[a] = None
    <3>1. c = 1
      BY <2>1, <1>2, Z3 DEF c, Counted, Entry, Since
    <3> QED
      BY <2>1, <3>1, <1>11 DEF IInv, HistoryInv, n
  <2>2. CASE client[a] # None
    <3>1. /\ client[a].requests \in 1..MaxRequests + 1
          /\ client[a].lastSeen \in Nat /\ client[a].lastSeen <= now
      BY <2>2, <1>3 DEF IInv, ClockInv, ClientLimiter
    <3>2. /\ PassedInBurst(a) <= n
          /\ \A i \in 1..n : passed[a][i] <= client[a].lastSeen
          /\ \A i, j \in 1..n : i + PassedInBurst(a) <= n /\ j + PassedInBurst(a) > n
                                => passed[a][j] - passed[a][i] > Window
      BY <2>2 DEF IInv, HistoryInv, n
    <3>3. CASE now - client[a].lastSeen > Window
      <4>1. c = 1
        BY <2>2, <3>3 DEF c, Counted, Entry, Since
      <4> QED
        BY <4>1, <3>1, <3>2, <3>3, <1>2, <1>11
    <3>4. CASE ~(now - client[a].lastSeen > Window)
      <4>1. /\ c = client[a].requests + 1
            /\ PassedInBurst(a) = client[a].requests
        BY <1>13, <2>2, <3>1, <3>4 DEF c, Counted, Entry, Since, PassedInBurst
      <4>2. n \in 1..n /\ n + PassedInBurst(a) > n
        BY <4>1, <3>1, <3>2, <1>11
      <4>3. ASSUME NEW i \in 1..n, i + c <= n + 1
            PROVE  now - passed[a][i] > Window
        <5>1. i + PassedInBurst(a) <= n
          BY <4>1, <4>3, <3>1, <1>11
        <5>2. passed[a][n] - passed[a][i] > Window
          BY <4>2, <5>1, <3>2
        <5>3. passed[a][n] \in Nat /\ passed[a][i] \in Nat /\ passed[a][n] <= now
          BY <4>2, <1>11, <1>12
        <5> QED
          BY <5>2, <5>3, <1>2
      <4>4. c <= n + 1
        BY <4>1, <3>1, <3>2, <1>11
      <4> QED
        BY <4>3, <4>4
    <3> QED
      BY <3>3, <3>4
  <2> QED
    BY <2>1, <2>2
<1>14. HistoryInv'
  <2> SUFFICES ASSUME NEW b \in Addresses
               PROVE  IF client'[b] = None
                      THEN \A i \in 1..Len(passed'[b]) : now' - passed'[b][i] > Window
                      ELSE /\ PassedInBurst(b)' <= Len(passed'[b])
                           /\ \A i \in 1..Len(passed'[b]) : passed'[b][i] <= client'[b].lastSeen
                           /\ \A i, j \in 1..Len(passed'[b]) :
                                 i + PassedInBurst(b)' <= Len(passed'[b])
                                 /\ j + PassedInBurst(b)' > Len(passed'[b])
                                 => passed'[b][j] - passed'[b][i] > Window
    BY DEF HistoryInv
  <2>1. CASE b # a
    <3>1. PassedInBurst(b)' = PassedInBurst(b)
      BY <2>1, <1>8 DEF PassedInBurst
    <3> QED
      BY <2>1, <3>1, <1>2, <1>8 DEF IInv, HistoryInv
  <2>2. CASE b = a /\ c > MaxRequests
    <3>1. PassedInBurst(a)' = MaxRequests
      BY <2>2, <1>1, <1>9 DEF PassedInBurst
    <3>2. client[a] # None /\ PassedInBurst(a) = MaxRequests
      BY <2>2, <1>5 DEF c
    <3>3. client'[a] # None /\ client'[a].lastSeen = now /\ passed'[a] = passed[a]
      BY <2>2, <1>1, <1>9, <1>10
    <3> QED
      BY <2>2, <3>1, <3>2, <3>3, <1>12 DEF IInv, HistoryInv, n
  <2>3. CASE b = a /\ c <= MaxRequests
    <3>1. PassedInBurst(a)' = c
      BY <2>3, <1>1, <1>9 DEF PassedInBurst
    <3>2. client'[a] # None /\ client'[a].lastSeen = now
      BY <1>1, <1>9
    <3>3. /\ Len(passed'[a]) = n + 1
          /\ \A i \in 1..n : passed'[a][i] = passed[a][i]
          /\ passed'[a][n + 1] = now
      <4>1. passed'[a] = Append(passed[a], now)
        BY <2>3, <1>10
      <4>2. passed[a] \in Seq(Nat)
        BY <1>3
      <4> QED
        BY <4>1, <4>2, <1>2, Appended DEF n
    <3>4. PassedInBurst(a)' <= Len(passed'[a])
      BY <2>3, <3>1, <3>3, <1>13
    <3>5. \A i \in 1..n + 1 : passed'[a][i] <= now
      BY <3>3, <1>2, <1>11, <1>12
    <3>6. ASSUME NEW i \in 1..n + 1, NEW j \in 1..n + 1,
                 i + c <= n + 1, j + c > n + 1
          PROVE  passed'[a][j] - passed'[a][i] > Window
      <4>1. i \in 1..n
        BY <3>6, <1>1, <1>11
      <4>2. CASE j = n + 1
        BY <4>1, <4>2, <3>3, <3>6, <1>13, <2>3
      <4>3. CASE j \in 1..n
        \* Then c > 1, so the request extends a burst that j belongs to.
        <5>1. c > 1
          BY <4>3, <3>6, <1>1, <1>11
        <5>2. client[a] # None
          <6> SUFFICES ASSUME client[a] = None PROVE FALSE
            OBVIOUS
          <6> QED
            BY <5>1, <1>2, Z3 DEF c, Counted, Entry, Since
        <5>3. client[a].requests \in 1..MaxRequests + 1
          BY <5>2, <1>3 DEF ClientLimiter
        <5>4. c = client[a].requests + 1 /\ PassedInBurst(a) = client[a].requests
          BY <5>1, <5>2, <5>3, <2>3 DEF c, Counted, Entry, PassedInBurst
        <5>5. i + PassedInBurst(a) <= n /\ j + PassedInBurst(a) > n
          <6>1. n \in Nat /\ i \in Nat /\ j \in Nat /\ client[a].requests \in Nat
            BY <5>3, <1>11
          <6> QED
            BY <6>1, <5>4, <3>6
        <5>6. passed[a][j] - passed[a][i] > Window
          BY <4>1, <4>3, <5>2, <5>5 DEF IInv, HistoryInv, n
        <5> QED
          BY <4>1, <4>3, <5>6, <3>3
      <4> QED
        BY <4>2, <4>3, <1>11
    <3> QED
      BY <2>3, <3>1, <3>2, <3>3, <3>4, <3>5, <3>6
  <2> QED
    BY <2>1, <2>2, <2>3, <1>1
<1>15. AtMostMaxPerWindow'
  <2> SUFFICES ASSUME NEW b \in Addresses,
                      NEW i \in DOMAIN passed'[b], NEW j \in DOMAIN passed'[b],
                      j >= i + MaxRequests
               PROVE  passed'[b][j] - passed'[b][i] > Window
    BY DEF AtMostMaxPerWindow
  <2>1. CASE passed'[b] = passed[b]
    BY <2>1 DEF IInv, AtMostMaxPerWindow
  <2>2. CASE b = a /\ c <= MaxRequests
    <3>1. /\ DOMAIN passed'[a] = 1..n + 1 /\ DOMAIN passed[a] = 1..n
          /\ \A k \in 1..n : passed'[a][k] = passed[a][k]
          /\ passed'[a][n + 1] = now
      <4>1. passed'[a] = Append(passed[a], now)
        BY <2>2, <1>10
      <4>2. passed[a] \in Seq(Nat)
        BY <1>3
      <4> QED
        BY <4>1, <4>2, <1>2, Appended DEF n
    <3>2. i \in 1..n
      BY <2>2, <3>1, <1>11
    <3>3. CASE j = n + 1
      <4>1. i + c <= n + 1
        BY <3>2, <3>3, <2>2, <1>1, <1>11
      <4>2. now - passed[a][i] > Window
        BY <2>2, <3>2, <4>1, <1>13
      <4> QED
        BY <2>2, <3>1, <3>2, <3>3, <4>2
    <3>4. CASE j \in 1..n
      BY <2>2, <3>1, <3>2, <3>4 DEF IInv, AtMostMaxPerWindow, n
    <3> QED
      BY <2>2, <3>1, <3>3, <3>4, <1>11
  <2> QED
    BY <2>1, <2>2, <1>1, <1>8, <1>10
<1> QED
  BY <1>6, <1>7, <1>14, <1>15 DEF IInv

\* The ticker's turn keeps the invariant: whom it forgets has been silent for
\* more than a window.
LEMMA CleanupInv ==
    ASSUME IInv, Cleanup
    PROVE  IInv'
<1> USE LimiterAssumption
<1>1. /\ now \in Nat /\ now = nextCleanup /\ now' = now
      /\ nextCleanup' = now + Period /\ passed' = passed
  BY DEF IInv, TypeOK, Cleanup
<1>2. /\ client \in [Addresses -> ClientLimiter \cup {None}]
      /\ passed \in [Addresses -> Seq(Nat)]
  BY DEF IInv, TypeOK
<1>3. client' = [a \in Addresses |->
                    IF client[a] = None THEN None
                    ELSE IF now - client[a].lastSeen > Retention THEN None ELSE client[a]]
  BY DEF Cleanup, Since
<1>4. TypeOK'
  BY <1>1, <1>2, <1>3 DEF TypeOK
<1>5. \A a \in Addresses : client[a] # None =>
          client[a].lastSeen \in Nat /\ client[a].lastSeen <= now
  BY <1>2 DEF IInv, ClockInv, ClientLimiter
<1>6. ASSUME NEW a \in Addresses, client'[a] # None
      PROVE  /\ client'[a] = client[a] /\ client[a] # None
             /\ ~(now - client[a].lastSeen > Retention)
  BY <1>3, <1>6
<1>7. ClockInv'
  <2>1. ASSUME NEW a \in Addresses, client'[a] # None
        PROVE  /\ client'[a].lastSeen <= now'
               /\ nextCleanup' <= client'[a].lastSeen + Retention + Period
    BY <2>1, <1>1, <1>5, <1>6
  <2> QED
    BY <2>1, <1>1 DEF ClockInv
<1>8. ASSUME NEW a \in Addresses
      PROVE  IF client'[a] = None
             THEN \A i \in 1..Len(passed[a]) : now - passed[a][i] > Window
             ELSE client'[a] = client[a] /\ client[a] # None
  <2>1. CASE client[a] = None
    BY <2>1, <1>3 DEF IInv, HistoryInv
  <2>2. CASE client[a] # None /\ now - client[a].lastSeen > Retention
    <3>1. client'[a] = None
      BY <2>2, <1>3
    <3>2. \A i \in 1..Len(passed[a]) :
             passed[a][i] \in Nat /\ passed[a][i] <= client[a].lastSeen
      BY <2>2, <1>2 DEF IInv, HistoryInv
    <3> QED
      BY <2>2, <3>1, <3>2, <1>1, <1>5
  <2>3. CASE client[a] # None /\ ~(now - client[a].lastSeen > Retention)
    BY <2>3, <1>3
  <2> QED
    BY <2>1, <2>2, <2>3
<1>9. HistoryInv'
  BY <1>1, <1>8 DEF IInv, HistoryInv, PassedInBurst
<1>10. AtMostMaxPerWindow'
  BY <1>1 DEF IInv, AtMostMaxPerWindow
<1> QED
  BY <1>4, <1>7, <1>9, <1>10 DEF IInv

\* Time keeps the invariant.
LEMMA TickInv ==
    ASSUME IInv, Tick
    PROVE  IInv'
<1> USE LimiterAssumption
<1>1. /\ now \in Nat /\ nextCleanup \in Nat /\ now < nextCleanup
      /\ now' = now + 1 /\ nextCleanup' = nextCleanup
      /\ passed' = passed /\ client' = client
      /\ client \in [Addresses -> ClientLimiter \cup {None}]
      /\ passed \in [Addresses -> Seq(Nat)]
  BY DEF IInv, TypeOK, Tick
<1>2. TypeOK'
  BY <1>1 DEF TypeOK
<1>3. ClockInv'
  BY <1>1 DEF IInv, ClockInv, ClientLimiter
<1>4. \A a \in Addresses : \A i \in 1..Len(passed[a]) : passed[a][i] \in Nat
  BY <1>1
<1>5. HistoryInv'
  BY <1>1, <1>4 DEF IInv, HistoryInv, PassedInBurst
<1>6. AtMostMaxPerWindow'
  BY <1>1 DEF IInv, AtMostMaxPerWindow
<1> QED
  BY <1>2, <1>3, <1>5, <1>6 DEF IInv

\* The invariant holds in every reachable state.
THEOREM Invariance == Spec => []IInv
<1>1. Init => IInv
  BY LimiterAssumption DEF Init, IInv, TypeOK, ClockInv, HistoryInv, AtMostMaxPerWindow
<1>2. IInv /\ [Next]_vars => IInv'
  <2> SUFFICES ASSUME IInv, [Next]_vars PROVE IInv'
    OBVIOUS
  <2>1. CASE Tick
    BY <2>1, TickInv
  <2>2. CASE Cleanup
    BY <2>2, CleanupInv
  <2>3. CASE \E a \in Addresses : Limit(a)
    BY <2>3, LimitInv
  <2>4. CASE UNCHANGED vars
    BY <2>4 DEF vars, IInv, TypeOK, ClockInv, HistoryInv, PassedInBurst, AtMostMaxPerWindow
  <2> QED
    BY <2>1, <2>2, <2>3, <2>4 DEF Next
<1> QED
  BY <1>1, <1>2, PTL DEF Spec

\* The table keeps its types.
THEOREM TypesCorrect == Spec => []TypeOK
BY Invariance, PTL DEF IInv

\* No window, wherever it is laid, sees more than MaxRequests requests of an
\* address pass: Limit's count is never reset while it matters.
THEOREM WindowsBounded == Spec => []AtMostMaxPerWindow
BY Invariance, PTL DEF IInv

\* An entry is gone Retention and a Period after its address fell silent.
THEOREM Forgotten == Spec => []EntriesAreForgotten
<1>1. IInv => EntriesAreForgotten
  <2> SUFFICES ASSUME IInv, NEW a \in Addresses, client[a] # None
               PROVE  Since(client[a]) <= Retention + Period
    BY DEF EntriesAreForgotten
  <2>1. /\ now \in Nat /\ nextCleanup \in Nat
        /\ now <= nextCleanup
        /\ client[a].lastSeen \in Nat
        /\ nextCleanup <= client[a].lastSeen + Retention + Period
    BY DEF IInv, TypeOK, ClockInv, ClientLimiter
  <2> QED
    BY <2>1, LimiterAssumption DEF Since
<1> QED
  BY <1>1, Invariance, PTL

\* The burst that the entry of a stands for, and the request that extends it.
LEMMA BurstOf ==
    ASSUME IInv, NEW a \in Addresses
    PROVE  Bursts!Grown(a) = Counted(a)
<1> USE LimiterAssumption
<1>1. now \in Nat /\ client[a] \in ClientLimiter \cup {None}
  BY DEF IInv, TypeOK
<1>2. CASE client[a] = None
  BY <1>1, <1>2, Z3 DEF Bursts!Grown, Counted, Entry, Since
<1>3. CASE client[a] # None
  <2>1. /\ client[a].requests \in Nat /\ client[a].lastSeen \in Nat
        /\ [size |-> client[a].requests, last |-> client[a].lastSeen] # None
    BY <1>1, <1>3 DEF ClientLimiter
  <2>2. CASE Since(client[a]) > Window
    BY <1>3, <2>2 DEF Bursts!Grown, Counted, Entry
  <2>3. CASE ~(Since(client[a]) > Window)
    BY <1>3, <2>1, <2>3 DEF Bursts!Grown, Counted, Entry
  <2> QED
    BY <2>2, <2>3
<1> QED
  BY <1>2, <1>3

\* The table with its cleanup implements the bursts that have neither: no turn
\* of the ticker changes which requests pass, then or later.
THEOREM LimiterImplementsBursts == Spec => ImplementsBursts
<1> USE LimiterAssumption
<1> DEFINE B == [a \in Addresses |->
                   IF client[a] = None THEN None
                   ELSE IF Since(client[a]) > Window THEN None
                   ELSE [size |-> client[a].requests, last |-> client[a].lastSeen]]
<1>1. Init => Bursts!Init
  BY DEF Init, Bursts!Init
<1>2. IInv /\ [Next]_vars => [Bursts!Next]_(Bursts!vars)
  <2> SUFFICES ASSUME IInv, [Next]_vars
               PROVE  Bursts!Next \/ UNCHANGED Bursts!vars
    OBVIOUS
  <2>1. /\ now \in Nat /\ client \in [Addresses -> ClientLimiter \cup {None}]
        /\ \A a \in Addresses : client[a] # None =>
              /\ client[a].requests \in Nat /\ client[a].lastSeen \in Nat
              /\ [size |-> client[a].requests, last |-> client[a].lastSeen] # None
    BY DEF IInv, TypeOK, ClientLimiter
  <2>2. CASE Tick
    <3>1. /\ now < MaxTime /\ now' = now + 1
          /\ client' = client /\ passed' = passed
      BY <2>2 DEF Tick
    <3>2. B' = [a \in Addresses |->
                  IF B[a] = None \/ now' - B[a].last > Window THEN None ELSE B[a]]
      <4> SUFFICES ASSUME NEW a \in Addresses
                   PROVE  B'[a] = IF B[a] = None \/ now' - B[a].last > Window
                                  THEN None ELSE B[a]
        BY Zenon
      <4>1. CASE client[a] = None
        BY <4>1, <3>1
      <4>2. CASE client[a] # None
        BY <4>2, <3>1, <2>1 DEF Since
      <4> QED
        BY <4>1, <4>2
    <3> QED
      BY <3>1, <3>2 DEF Bursts!Next, Bursts!Tick
  <2>3. CASE Cleanup
    <3>1. /\ now' = now /\ passed' = passed
          /\ client' = [a \in Addresses |->
                          IF client[a] = None THEN None
                          ELSE IF Since(client[a]) > Retention THEN None ELSE client[a]]
      BY <2>3 DEF Cleanup
    <3>2. B' = B
      <4> SUFFICES ASSUME NEW a \in Addresses PROVE B'[a] = B[a]
        BY Zenon
      <4>1. CASE client[a] = None
        BY <4>1, <3>1
      <4>2. CASE client[a] # None
        BY <4>2, <3>1, <2>1 DEF Since
      <4> QED
        BY <4>1, <4>2
    <3> QED
      BY <3>1, <3>2 DEF Bursts!vars
  <2>4. CASE \E a \in Addresses : Limit(a)
    <3>1. PICK a \in Addresses : Limit(a)
      BY <2>4
    <3> DEFINE c == Counted(a)
    <3>2. /\ now' = now
          /\ client' = [client EXCEPT ![a] = [requests |-> c, lastSeen |-> now]]
          /\ passed' = IF c > MaxRequests THEN passed
                       ELSE [passed EXCEPT ![a] = Append(@, now)]
      BY <3>1 DEF Limit
    <3>3. [requests |-> c, lastSeen |-> now] # None
      BY CountedType DEF IInv
    <3>4. Bursts!Grown(a) = c
      BY BurstOf
    <3> HIDE DEF c
    <3>5. B' = [B EXCEPT ![a] = [size |-> c, last |-> now]]
      <4> SUFFICES ASSUME NEW b \in Addresses
                   PROVE  B'[b] = IF b = a THEN [size |-> c, last |-> now] ELSE B[b]
        BY Zenon
      <4>1. CASE b = a
        BY <4>1, <3>2, <3>3, <2>1 DEF Since
      <4>2. CASE b # a
        BY <4>2, <3>2 DEF Since
      <4> QED
        BY <4>1, <4>2
    <3>6. Bursts!Arrive(a)
      BY <3>2, <3>4, <3>5 DEF Bursts!Arrive
    <3> QED
      BY <3>6 DEF Bursts!Next
  <2>5. CASE UNCHANGED vars
    BY <2>5 DEF vars, Bursts!vars, Since
  <2> QED
    BY <2>2, <2>3, <2>4, <2>5 DEF Next
<1> QED
  BY <1>1, <1>2, Invariance, PTL DEF Spec, ImplementsBursts, Bursts!Spec
=============================================================================

---------------------------- MODULE RequestBursts ----------------------------
(***************************************************************************)
(* What a rate limiter promises.  The requests of an address come in       *)
(* bursts: a burst ends with a silence longer than Window.  The first      *)
(* MaxRequests of a burst pass and the others do not, however long the     *)
(* burst lasts.  There is no table, and nothing to clean up.               *)
(***************************************************************************)
EXTENDS Naturals, Sequences

CONSTANTS Addresses, MaxRequests, Window, MaxTime, Quiet

VARIABLES
    now,
    burst,      \* the size of the address's burst and its latest request
    passed      \* when the requests of the address passed

vars == <<now, burst, passed>>

Init ==
    /\ now = 0
    /\ burst = [a \in Addresses |-> Quiet]
    /\ passed = [a \in Addresses |-> <<>>]

\* Sizes past the limit are not told apart.
Grown(a) ==
    IF burst[a] = Quiet THEN 1
    ELSE IF burst[a].size > MaxRequests THEN burst[a].size
    ELSE burst[a].size + 1

Arrive(a) ==
    /\ burst' = [burst EXCEPT ![a] = [size |-> Grown(a), last |-> now]]
    /\ passed' = IF Grown(a) > MaxRequests THEN passed
                 ELSE [passed EXCEPT ![a] = Append(@, now)]
    /\ UNCHANGED now

Tick ==
    /\ now < MaxTime
    /\ now' = now + 1
    /\ burst' = [a \in Addresses |->
                    IF burst[a] = Quiet \/ now' - burst[a].last > Window
                    THEN Quiet ELSE burst[a]]
    /\ UNCHANGED passed

Next == Tick \/ \E a \in Addresses : Arrive(a)

Spec == Init /\ [][Next]_vars
=============================================================================

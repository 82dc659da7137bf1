------------------------------ MODULE MCAccounts ------------------------------
(* Accounts for TLC: an identity at each of the two providers. *)
EXTENDS AccountsInvariant

CONSTANTS google1, apple1, e1, e2

\* The address at Google stays; at Apple it may be another, or none, each time.
MCBrings == [i \in {google1, apple1} |-> IF i = google1 THEN {e1} ELSE {e1, e2, None}]
=============================================================================

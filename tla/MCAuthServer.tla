----------------------------- MODULE MCAuthServer -----------------------------
(***************************************************************************)
(* AuthServer for TLC.  The .cfg files give every constant its value.      *)
(***************************************************************************)
EXTENDS AuthServerInvariant, TLC

\* Identifiers of one kind are interchangeable.  Used by the runs that check
\* safety and step properties only.
Symmetry ==
    UNION {Permutations(S) : S \in {Users, Clients, Scopes, Sessions, Codes,
                                    Requests}}
=============================================================================

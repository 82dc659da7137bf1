--------------------------- MODULE MCAuthorizeFlow ---------------------------
(***************************************************************************)
(* AuthorizeFlow for TLC: one client with one of two URIs and two of three *)
(* scopes.                                                                 *)
(***************************************************************************)
EXTENDS AuthorizeFlow

CONSTANTS t1, t2, u1, u2, st, challenge, c1, uri1, uri2, read, write, admin, absent

MCClients == {c1}
MCURIs == {uri1, uri2}
MCScopes == {read, write, admin}
MCRedirectURIs == [c \in {c1} |-> {uri1}]
MCAllowed == [c \in {c1} |-> {read, write}]
=============================================================================

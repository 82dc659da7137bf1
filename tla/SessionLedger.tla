---------------------------- MODULE SessionLedger ----------------------------
(***************************************************************************)
(* What the server promises about credentials, with no requests, no        *)
(* transactions and no locks: every change to the credential tables is one *)
(* atomic step that also writes the audit entry belonging to it.  A        *)
(* session is granted, or minted in exchange for a session or a code that  *)
(* is spent by the same step and whose user, client and scope it inherits; *)
(* sessions end; codes are issued.  Nothing else ever happens.             *)
(*                                                                         *)
(* The promise deliberately leaves open whether the credential given in    *)
(* exchange was still unspent: AuthServer shows why the code cannot        *)
(* promise that.                                                           *)
(***************************************************************************)
CONSTANTS Users, Clients, Scopes, Sessions, Codes, None

VARIABLES session, code, audit

ledger == <<session, code, audit>>

Absent == [st |-> "absent", user |-> None, client |-> None,
           scope |-> None, from |-> None]
NoCode == [st |-> "absent", user |-> None, client |-> None, scope |-> None]

Issuing == {"login", "refresh", "clientCredentials", "clientRefresh", "redeem"}
Ending  == {"logout", "logoutAll"}

Init ==
    /\ session = [s \in Sessions |-> Absent]
    /\ code = [c \in Codes |-> NoCode]
    /\ audit = {}

Entry(action, u, e, s) ==
    [action |-> action, user |-> u, entity |-> e, session |-> s]

\* The one entry that issuing s to user u, or to client c, leaves behind.
LogIssue(s, u, c) ==
    \E a \in Issuing, e \in {u, c} : audit' = audit \cup {Entry(a, u, e, s)}

\* A session from nothing: a login, or a client acting for itself.
Grant(s) ==
    /\ session[s].st = "absent"
    /\ \E u \in Users \cup {None}, c \in Clients \cup {None},
          sc \in Scopes \cup {None} :
         /\ u = None \/ c = None
         /\ ~(u = None /\ c = None)
         /\ session' = [session EXCEPT
                          ![s] = [st |-> "live", user |-> u, client |-> c,
                                  scope |-> sc, from |-> None]]
         /\ LogIssue(s, u, c)
    /\ UNCHANGED code

\* A session for a session, which is revoked.
Rotate(t, s) ==
    /\ t # s
    /\ session[t].st # "absent"
    /\ session[s].st = "absent"
    /\ session' = [session EXCEPT ![t].st = "revoked",
                                  ![s] = [session[t] EXCEPT !.st = "live",
                                                            !.from = t]]
    /\ LogIssue(s, session[t].user, session[t].client)
    /\ UNCHANGED code

\* A session for a code, which is used up.
Redeem(c, s) ==
    /\ code[c].st # "absent"
    /\ session[s].st = "absent"
    /\ code' = [code EXCEPT ![c].st = "used"]
    /\ session' = [session EXCEPT
                     ![s] = [st |-> "live", user |-> code[c].user,
                             client |-> code[c].client,
                             scope |-> code[c].scope, from |-> c]]
    /\ LogIssue(s, code[c].user, code[c].client)

\* Logout and logout-all: sessions of one user end, with an entry.
End(S) ==
    /\ \E u \in Users :
         /\ \A s \in S : session[s].st # "absent" /\ session[s].user = u
         /\ \E a \in Ending, b \in Sessions :
              audit' = audit \cup {Entry(a, u, u, b)}
    /\ session' = [s \in Sessions |->
                     IF s \in S THEN [session[s] EXCEPT !.st = "revoked"]
                                ELSE session[s]]
    /\ UNCHANGED code

\* RFC 7009 revocation: a client ends a session.
Revoke(s) ==
    /\ session[s].st # "absent"
    /\ session' = [session EXCEPT ![s].st = "revoked"]
    /\ UNCHANGED <<code, audit>>

IssueCode(c) ==
    /\ code[c].st = "absent"
    /\ \E u \in Users, cl \in Clients, sc \in Scopes :
         code' = [code EXCEPT ![c] = [st |-> "unused", user |-> u,
                                      client |-> cl, scope |-> sc]]
    /\ UNCHANGED <<session, audit>>

Next ==
    \/ \E s \in Sessions : Grant(s)
    \/ \E t, s \in Sessions : Rotate(t, s)
    \/ \E c \in Codes, s \in Sessions : Redeem(c, s)
    \/ \E S \in SUBSET Sessions : End(S)
    \/ \E s \in Sessions : Revoke(s)
    \/ \E c \in Codes : IssueCode(c)

Spec == Init /\ [][Next]_ledger
=============================================================================

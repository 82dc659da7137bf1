----------------------------- MODULE AuthServer -----------------------------
(***************************************************************************)
(* The composed server: first-party and OAuth endpoints running            *)
(* concurrently against one database, with timeouts, faults and operators, *)
(* and the properties the whole must have.                                 *)
(***************************************************************************)
EXTENDS AuthService, OAuthService

CONSTANT Ops        \* the endpoints that clients of a run call

ASSUME OpsAssumption == Ops \subseteq Endpoints

\* Only calls to the endpoints in Ops arrive.
Request(r) ==
    /\ \/ "login" \in Ops /\ LoginRequest(r)
       \/ "refresh" \in Ops /\ RefreshRequest(r)
       \/ "logout" \in Ops /\ LogoutRequest(r)
       \/ "logoutAll" \in Ops /\ LogoutAllRequest(r)
       \/ "clientCredentials" \in Ops /\ ClientCredentialsRequest(r)
       \/ "clientRefresh" \in Ops /\ ClientRefreshRequest(r)
       \/ "redeem" \in Ops /\ RedeemRequest(r)
       \/ "revoke" \in Ops /\ RevokeRequest(r)
       \/ "introspect" \in Ops /\ IntrospectRequest(r)
       \/ "approve" \in Ops /\ ApproveRequest(r)

\* What the server does for a request it is handling.
Handle(r) ==
    \/ AuthStep(r)
    \/ OAuthStep(r)
    \/ RotateOut(r)
    \/ CreateSession(r)
    \/ AuditLog(r)
    \/ Commit(r)
    \/ Reply(r)

Environment ==
    \/ Restart
    \/ \E t \in Tokens : Expire(t)
    \/ \E s \in Sessions : ExpireAccess(s)
    \/ \E u \in Users : Suspend(u)
    \/ \E c \in Clients : Deactivate(c)

Next ==
    \/ \E r \in Requests : \/ Request(r)
                           \/ Handle(r)
                           \/ Timeout(r)
                           \/ Fail(r)
                           \/ LoseReply(r)
    \/ Environment

Spec == Init /\ [][Next]_vars

\* A handler goroutine that can run is scheduled.  The 5 s deadline runs from
\* the start of the handler, not of a wait, so a request that waits for locks
\* over and over is cut as well: strong fairness.  Nothing is assumed of
\* callers or faults.
FairSpec == /\ Spec
            /\ \A r \in Requests : WF_vars(Handle(r)) /\ SF_vars(Timeout(r))

-----------------------------------------------------------------------------
(* Types *)

TypeOK ==
    /\ session \in [Sessions -> SessionRow]
    /\ code \in [Codes -> CodeRow]
    /\ audit \subseteq AuditRow
    /\ userActive \subseteq Users
    /\ clientActive \subseteq Clients
    /\ expired \subseteq Tokens
    /\ jwtExpired \subseteq Sessions
    /\ held \subseteq Tokens
    /\ call \in [Requests -> Call]
    /\ pc \in [Requests -> Labels]
    /\ tx \in [Requests -> Tx]

-----------------------------------------------------------------------------
(* Safety *)

\* No credential is exchanged without being spent, whatever fails between the
\* UPDATE that spends it and the INSERT of its successor: a committed session
\* that came from a session or a code finds it revoked or used.
ExchangeSpends ==
    \A s \in Sessions :
        Committed(s) /\ session[s].from # None => Spent(session[s].from)

\* A session inherits user, client and scope from what it was exchanged for,
\* although they are read by one statement and written by a later one; so the
\* scope a user consented to is never widened by refreshing.
ExchangeKeepsBinding ==
    \A s \in Sessions :
        Committed(s) /\ session[s].from # None =>
            LET f == session[s].from IN
            IF f \in Codes
            THEN /\ session[s].user = code[f].user
                 /\ session[s].client = code[f].client
                 /\ session[s].scope = code[f].scope
            ELSE /\ session[s].user = session[f].user
                 /\ session[s].client = session[f].client
                 /\ session[s].scope = session[f].scope

\* What a successful response tells its caller has ended.
Ended(r) ==
    {t \in Tokens :
        \/ call[r].op = "logout" /\ t = call[r].bearer
        \/ call[r].op = "logoutAll" /\ t \in tx[r].seen
        \/ /\ call[r].op \in {"refresh", "clientRefresh", "redeem", "revoke"}
           /\ t = call[r].token}

\* When logout, logout-all, revoke or an exchange reports success, every row it
\* was to end has ended, whoever held the row's lock in between.
SuccessMeansEnded ==
    \A r \in Requests :
        pc[r] = "reply" => \A t \in Ended(r) : Committed(t) /\ Spent(t)

Issuing == {"login", "refresh", "clientCredentials", "clientRefresh", "redeem"}

\* The entries that say a session was issued.
Entries(s) == {a \in audit : a.session = s /\ a.action \in Issuing}

\* Every committed session has exactly one entry that says who it was issued
\* to, and no entry speaks of a session that was not issued: the entry is
\* written in the transaction of the row, and neither outlives a rollback.
IssuesAreTraced ==
    \A s \in Sessions :
        IF Committed(s)
        THEN \E a \in audit : /\ Entries(s) = {a}
                              /\ a.user = session[s].user
                              /\ a.entity \in {session[s].user,
                                               session[s].client}
        ELSE Entries(s) = {}

\* A request never succeeds on a credential, a client or a user that was
\* unusable before the request arrived, however the checks interleave with
\* what other requests do.  (Two requests that arrive before either commits
\* are a different matter: see CodeIsSingleUse.)
DeadIsNeverServed ==
    \A r \in Requests : pc[r] = "reply" => call[r].dead = {}

\* No response hands out a token or a code whose row is not committed, even
\* if the server stops or a statement fails: what a caller holds was issued.
DeliveredIsCommitted == \A t \in held : Committed(t)

\* A transaction that waits for a row while it has rows of its own locked is a
\* logout-all; every other handler takes at most one lock.  So a deadlock needs
\* two logout-alls, of the same user.
OnlyLogoutAllHoldsAndWaits ==
    /\ \A r \in Requests :
         Blocked(r) /\ tx[r].writes # {} => call[r].op = "logoutAll"
    /\ \A q, r \in Requests :
         /\ q # r
         /\ \E t \in tx[r].writes : t \in tx[q].todo
         /\ \E t \in tx[q].writes : t \in tx[r].todo
         => tx[q].user = tx[r].user

-----------------------------------------------------------------------------
(* Action properties *)

\* A spent token never comes back, and a committed row keeps its owner, its
\* scope and its origin for good, across rollbacks and restarts.
TokensAreWriteOnce ==
    [][/\ \A t \in Tokens : Committed(t) => Committed(t)'
       /\ \A t \in Tokens : Spent(t) => Spent(t)'
       /\ \A s \in Sessions : Committed(s) =>
            session'[s] \in {session[s], [session[s] EXCEPT !.st = "revoked"]}
       /\ \A c \in Codes : Committed(c) =>
            code'[c] \in {code[c], [code[c] EXCEPT !.st = "used"]}]_vars

-----------------------------------------------------------------------------
(* Refinement *)

\* The committed rows and entries are the ledger; what transactions hold is not.
Ledger == INSTANCE SessionLedger WITH session <- session, code <- code, audit <- audit

\* The concurrent server implements the ledger of atomic steps.
ImplementsLedger == Ledger!Spec

-----------------------------------------------------------------------------
(* Liveness *)

\* Every request is answered: waits for row locks end, and the two logout-alls
\* that wait for each other are cut by the statement deadline.
EveryRequestIsAnswered ==
    \A r \in Requests : (pc[r] # "idle") ~> (pc[r] = "idle")

-----------------------------------------------------------------------------
(* What the documentation says and the code does not do *)

\* "Single-use: mark consumed before issuing tokens so a replayed code (even in
\* a concurrent request) is rejected" (internal/auth/oauth_service.go:246).
CodeIsSingleUse ==
    \A s, t \in Sessions :
        session[s].from \in Codes /\ session[s].from = session[t].from => s = t

\* "Revoke every session for the user" (README.md:179): once logout-all has
\* committed, no login that it found alive lives on under another token.
LogoutAllEndsEveryLogin ==
    \A r \in Requests :
        pc[r] = "reply" /\ call[r].op = "logoutAll" =>
            \A s \in Sessions : session[s].st = "live"
                                    => session[s].from \notin tx[r].seen
=============================================================================

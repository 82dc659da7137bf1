---------------------------- MODULE SessionStore ----------------------------
(***************************************************************************)
(* The database that AuthService, OAuthService and AuthMiddleware share:   *)
(* the `sessions`, `authorization_codes` and `audit_logs` tables, and the  *)
(* transactions that concurrent HTTP requests run against them.            *)
(*                                                                         *)
(* One step is one SQL statement.  WithTransaction opens transactions at   *)
(* PostgreSQL's default level, READ COMMITTED: a statement reads rows      *)
(* committed by others before it started, an UPDATE waits for the row lock *)
(* of an uncommitted UPDATE and then re-evaluates its WHERE clause, and    *)
(* everything a transaction wrote appears at once when it commits.  BEGIN  *)
(* reads and locks nothing and is part of the first statement.             *)
(*                                                                         *)
(* A session row is named by one identifier that stands for its primary    *)
(* key, its refresh token and the access token that carries its id: the    *)
(* three are created together by createSession and never separate.         *)
(***************************************************************************)
EXTENDS Naturals, FiniteSets

CONSTANTS
    Users, Clients, Scopes,    \* rows of `users`, rows of `clients`, scope strings
    Sessions, Codes,           \* identifiers that createSession and approve can draw
    Requests,                  \* HTTP requests in flight at the same time
    None,                      \* SQL NULL, an absent cookie, the empty scope
    Faults,                    \* the faults and operator actions of a run
    EphemeralKey               \* no JWT_PRIVATE_KEY: each start draws a new key

ASSUME StoreAssumption ==
    /\ None \notin Users \cup Clients \cup Scopes \cup Sessions \cup Codes
    /\ Sessions \cap Codes = {}
    /\ EphemeralKey \in BOOLEAN

VARIABLES
    session,        \* the `sessions` table, as committed
    code,           \* the `authorization_codes` table, as committed
    audit,          \* the `audit_logs` table, as committed
    userActive,     \* users with status = 'active'
    clientActive,   \* clients with active = true
    expired,        \* sessions and codes whose expires_at has passed
    jwtExpired,     \* sessions whose access token no longer parses
    held,           \* tokens and codes that a response has delivered
    call,           \* what the request carries
    pc,             \* the statement the request's handler runs next
    tx              \* its local variables and its uncommitted writes

rows == <<session, code, audit>>
env  == <<userActive, clientActive, expired, jwtExpired>>
vars == <<session, code, audit, userActive, clientActive, expired,
          jwtExpired, held, call, pc, tx>>

-----------------------------------------------------------------------------
(* Types *)

Tokens == Sessions \cup Codes

BearerEndpoints == {"refresh", "logout", "logoutAll"}
ClientEndpoints ==
    {"clientCredentials", "clientRefresh", "redeem", "revoke", "introspect"}
Endpoints == {"login", "approve"} \cup BearerEndpoints \cup ClientEndpoints

\* Every label but "idle" and "reply" names a statement about to run.
Labels == {"idle", "auth", "session", "rotate", "code", "use", "mint",
           "logout", "scan", "rows", "kill", "lookup", "issue", "read",
           "audit", "commit", "reply"}

Roles == {"user", "client", "bearer", "token"}

\* `from` is not a column: it records which credential was exchanged for the
\* session (a refreshed session or a redeemed code), None for a fresh login.
SessionRow == [st : {"absent", "live", "revoked"}, user : Users \cup {None},
               client : Clients \cup {None}, scope : Scopes \cup {None},
               from : Tokens \cup {None}]
CodeRow == [st : {"absent", "unused", "used"}, user : Users \cup {None},
            client : Clients \cup {None}, scope : Scopes \cup {None}]

\* `session` is not a column either: the session the entry is about.
AuditRow == [action : Endpoints, user : Users \cup {None},
             entity : Users \cup Clients \cup {None},
             session : Sessions \cup {None}]

\* `proof` abstracts the request's secrets and bindings: password, client
\* secret, redirect URI and PKCE verifier all match (or the user approved).
\* `dead` is a history variable: the roles of what the request presents that
\* were already unusable when it arrived.
Call == [op : Endpoints \cup {"none"}, bearer : Sessions \cup {None},
         token : Tokens \cup {None}, user : Users \cup {None},
         client : Clients \cup {None}, scope : Scopes \cup {None},
         proof : BOOLEAN, dead : SUBSET Roles]

\* `writes` holds the rows this transaction updated and therefore locks;
\* `todo` and `seen` the rows a revoke-all statement found, and has left.
Tx == [user : Users \cup {None}, client : Clients \cup {None},
       scope : Scopes \cup {None}, writes : SUBSET Tokens,
       todo : SUBSET Sessions, seen : SUBSET Sessions,
       mints : Sessions \cup {None}, issues : Codes \cup {None},
       logs : SUBSET AuditRow]

NoSession == [st |-> "absent", user |-> None, client |-> None,
              scope |-> None, from |-> None]
NoCode == [st |-> "absent", user |-> None, client |-> None, scope |-> None]
NoCall == [op |-> "none", bearer |-> None, token |-> None, user |-> None,
           client |-> None, scope |-> None, proof |-> FALSE, dead |-> {}]
NoTx == [user |-> None, client |-> None, scope |-> None, writes |-> {},
         todo |-> {}, seen |-> {}, mints |-> None, issues |-> None,
         logs |-> {}]

Init ==
    /\ session = [s \in Sessions |-> NoSession]
    /\ code = [c \in Codes |-> NoCode]
    /\ audit = {}
    /\ userActive = Users
    /\ clientActive = Clients
    /\ expired = {}
    /\ jwtExpired = {}
    /\ held = {}
    /\ call = [r \in Requests |-> NoCall]
    /\ pc = [r \in Requests |-> "idle"]
    /\ tx = [r \in Requests |-> NoTx]

-----------------------------------------------------------------------------
(* What a row says about its token *)

Committed(t) == IF t \in Codes THEN code[t].st # "absent"
                               ELSE session[t].st # "absent"

Spent(t) == IF t \in Codes THEN code[t].st = "used"
                           ELSE session[t].st = "revoked"

\* Mutant: the WHERE clause lost `expires_at > NOW()`.
LiveForever(s) == session[s].st = "live"

Live(s) == session[s].st = "live" /\ s \notin expired

\* The principal test of the refresh query and of RequireAuth: a session with
\* a client stands or falls with the client, any other with its user.
PrincipalActive(s) ==
    IF session[s].client = None THEN session[s].user \in userActive
                                ELSE session[s].client \in clientActive

\* Mutant: an access token that has expired still parses.
AuthenticatedAnyAge(s) == Live(s) /\ PrincipalActive(s)

\* The JWT parses, and its session row is live with an active principal.
Authenticated(s) == s \notin jwtExpired /\ Live(s) /\ PrincipalActive(s)

\* The refresh query of AuthService.RefreshToken.
Refreshable(s) == Live(s) /\ PrincipalActive(s)

-----------------------------------------------------------------------------
(* Requests *)

BearerUnfit(c) ==
    /\ c.bearer # None
    /\ \/ c.bearer \in jwtExpired \cup expired
       \/ Spent(c.bearer)
       \/ c.op \in BearerEndpoints /\ ~PrincipalActive(c.bearer)

TokenUnfit(c) ==
    /\ c.token # None
    /\ c.op # "revoke"
    /\ \/ c.token \in expired
       \/ Spent(c.token)
       \/ c.op \in {"refresh", "clientRefresh"} /\ ~PrincipalActive(c.token)
       \/ c.op = "approve" /\ session[c.token].user \notin userActive
       \/ c.op = "redeem" /\ code[c.token].user \notin userActive

Unfit(c, role) ==
    \/ role = "user" /\ c.user # None /\ c.user \notin userActive
    \/ role = "client" /\ c.client # None /\ c.client \notin clientActive
    \/ role = "bearer" /\ BearerUnfit(c)
    \/ role = "token" /\ TokenUnfit(c)

\* The request reaches its handler.
Receive(r, c) ==
    /\ pc[r] = "idle"
    /\ call' = [call EXCEPT
                    ![r] = [c EXCEPT !.dead = {x \in Roles : Unfit(c, x)}]]
    /\ pc' = [pc EXCEPT ![r] = "auth"]
    /\ UNCHANGED <<rows, env, held, tx>>

\* Mutant: WithTransaction returns the error without its deferred rollback.
AnswerKeepsTransaction(r) ==
    /\ pc' = [pc EXCEPT ![r] = "idle"]
    /\ call' = [call EXCEPT ![r] = NoCall]
    /\ UNCHANGED tx

\* The handler returns: its transaction, if still open, is rolled back.
Answer(r) ==
    /\ pc' = [pc EXCEPT ![r] = "idle"]
    /\ call' = [call EXCEPT ![r] = NoCall]
    /\ tx' = [tx EXCEPT ![r] = NoTx]

\* The statement at hand leaves the local state t and goes on to `label`.
Advance(r, label, t) ==
    /\ pc' = [pc EXCEPT ![r] = label]
    /\ tx' = [tx EXCEPT ![r] = t]
    /\ UNCHANGED call

\* A query that returned a row that passes, or did not.
Check(r, ok, label, t) ==
    /\ IF ok THEN Advance(r, label, t) ELSE Answer(r)
    /\ UNCHANGED <<rows, env, held>>

-----------------------------------------------------------------------------
(* Row locks *)

Locked(r, t) == \E q \in Requests \ {r} : t \in tx[q].writes

\* The statement of r waits for a row that another transaction has updated.
Blocked(r) ==
    \/ pc[r] \in {"rotate", "use", "kill"} /\ Locked(r, call[r].token)
    \/ pc[r] = "logout" /\ Locked(r, call[r].bearer)
    \/ pc[r] = "rows" /\ tx[r].todo # {} /\ \A s \in tx[r].todo : Locked(r, s)

-----------------------------------------------------------------------------
(* Statements that several handlers share *)

\* UPDATE sessions SET revoked = true WHERE id = $1, in the two rotations.
\* After a wait for the lock it updates the row, revoked meanwhile or not.
RotateOut(r) ==
    /\ pc[r] = "rotate"
    /\ ~Locked(r, call[r].token)
    /\ Advance(r, "mint", [tx[r] EXCEPT !.writes = @ \cup {call[r].token}])
    /\ UNCHANGED <<rows, env, held>>

\* Mutant: an identifier that collides with a committed row overwrites it.
FreshOverwrites(s) == \A q \in Requests : tx[q].mints # s

\* gen_random_uuid and 32 random bytes: nobody else has drawn s.
Fresh(s) == session[s].st = "absent" /\ \A q \in Requests : tx[q].mints # s

\* INSERT INTO sessions: the row is the transaction's own until it commits.
\* With no identifier left in Sessions the INSERT fails (a bound of the model).
CreateSession(r) ==
    /\ pc[r] = "mint"
    /\ \/ \E s \in Sessions :
            /\ Fresh(s)
            /\ Advance(r, "audit", [tx[r] EXCEPT !.mints = s])
       \/ ~(\E s \in Sessions : Fresh(s)) /\ Answer(r)
    /\ UNCHANGED <<rows, env, held>>

\* Mutants: createSession takes user and client the wrong way round, or its
\* INSERT leaves client_id out.
MintedRowSwapped(r) ==
    [st |-> "live", user |-> tx[r].client, client |-> tx[r].user,
     scope |-> tx[r].scope, from |-> call[r].token]
MintedRowUnbound(r) ==
    [st |-> "live", user |-> tx[r].user, client |-> None,
     scope |-> tx[r].scope, from |-> call[r].token]

\* The row createSession inserted, and the entry the handler logs.
MintedRow(r) ==
    [st |-> "live", user |-> tx[r].user, client |-> tx[r].client,
     scope |-> tx[r].scope, from |-> call[r].token]

LogEntry(r) ==
    [action |-> call[r].op, user |-> tx[r].user,
     entity |-> IF call[r].client # None THEN call[r].client ELSE tx[r].user,
     session |-> IF tx[r].mints # None THEN tx[r].mints ELSE call[r].bearer]

\* Mutant: the entry goes through the pool instead of the transaction.
AuditLogOutside(r) ==
    /\ \/ pc[r] = "audit"
       \/ pc[r] = "rows" /\ tx[r].todo = {}
    /\ audit' = audit \cup {LogEntry(r)}
    /\ Advance(r, "commit", tx[r])
    /\ UNCHANGED <<session, code, env, held>>

\* INSERT INTO audit_logs, in the caller's transaction.
AuditLog(r) ==
    /\ \/ pc[r] = "audit"
       \/ pc[r] = "rows" /\ tx[r].todo = {}
    /\ Advance(r, "commit", [tx[r] EXCEPT !.logs = {LogEntry(r)}])
    /\ UNCHANGED <<rows, env, held>>

\* COMMIT: the inserted row, the updated rows and the audit entry appear at
\* once and the row locks are released.
Commit(r) ==
    /\ pc[r] = "commit"
    /\ session' = [s \in Sessions |->
                     IF s = tx[r].mints THEN MintedRow(r)
                     ELSE IF s \in tx[r].writes
                          THEN [session[s] EXCEPT !.st = "revoked"]
                          ELSE session[s]]
    /\ code' = [c \in Codes |->
                  IF c \in tx[r].writes THEN [code[c] EXCEPT !.st = "used"]
                                        ELSE code[c]]
    /\ audit' = audit \cup tx[r].logs
    /\ Advance(r, "reply", [tx[r] EXCEPT !.writes = {}, !.logs = {}])
    /\ UNCHANGED <<env, held>>

\* The response is written: the caller holds what was minted for it.
Reply(r) ==
    /\ pc[r] = "reply"
    /\ held' = held \cup ({tx[r].mints, tx[r].issues} \ {None})
    /\ Answer(r)
    /\ UNCHANGED <<rows, env>>

-----------------------------------------------------------------------------
(* Timeouts, faults, and what operators and clocks do.  Every session or     *)
(* code row in these steps is committed.                                     *)

\* Mutant: a logout-all whose deadline passes is retried in its transaction.
TimeoutRetries(r) ==
    /\ Blocked(r)
    /\ IF pc[r] = "rows" THEN Advance(r, "scan", tx[r]) ELSE Answer(r)
    /\ UNCHANGED <<rows, env, held>>

\* WithDBTimeout: a statement that waits for a lock is cancelled after 5 s.
Timeout(r) ==
    /\ Blocked(r)
    /\ Answer(r)
    /\ UNCHANGED <<rows, env, held>>

\* Mutant: the error of COMMIT is ignored and the tokens are sent.
FailIgnored(r) ==
    /\ "fail" \in Faults
    /\ pc[r] \notin {"idle", "reply"}
    /\ IF pc[r] = "commit"
       THEN Advance(r, "reply", [tx[r] EXCEPT !.writes = {}, !.logs = {}])
       ELSE Answer(r)
    /\ UNCHANGED <<rows, env, held>>

\* Any statement may fail: ErrDatabase, and the transaction rolls back.
Fail(r) ==
    /\ "fail" \in Faults
    /\ pc[r] \notin {"idle", "reply"}
    /\ Answer(r)
    /\ UNCHANGED <<rows, env, held>>

\* The connection drops after COMMIT: the caller never sees its tokens.
LoseReply(r) ==
    /\ "lose" \in Faults
    /\ pc[r] = "reply"
    /\ Answer(r)
    /\ UNCHANGED <<rows, env, held>>

\* The process stops and starts: open transactions roll back, the tables
\* stay, and an ephemeral signing key is replaced.
Restart ==
    /\ "restart" \in Faults
    /\ pc' = [r \in Requests |-> "idle"]
    /\ call' = [r \in Requests |-> NoCall]
    /\ tx' = [r \in Requests |-> NoTx]
    /\ jwtExpired' = IF EphemeralKey
                     THEN jwtExpired \cup {s \in Sessions : Committed(s)}
                     ELSE jwtExpired
    /\ UNCHANGED <<rows, userActive, clientActive, expired, held>>

\* expires_at passes, of a session (and so of its access token) or a code.
Expire(t) ==
    /\ "expire" \in Faults
    /\ Committed(t)
    /\ t \notin expired
    /\ expired' = expired \cup {t}
    /\ UNCHANGED <<rows, userActive, clientActive, jwtExpired, held, call,
                   pc, tx>>

\* The exp claim of a session's access token passes.
ExpireAccess(s) ==
    /\ "jwt" \in Faults
    /\ Committed(s)
    /\ s \notin jwtExpired
    /\ jwtExpired' = jwtExpired \cup {s}
    /\ UNCHANGED <<rows, userActive, clientActive, expired, held, call, pc, tx>>

\* An operator suspends a user or deactivates a client in SQL; no code in
\* the repository does, and none is reinstated within the model.
Suspend(u) ==
    /\ "suspend" \in Faults
    /\ u \in userActive
    /\ userActive' = userActive \ {u}
    /\ UNCHANGED <<rows, clientActive, expired, jwtExpired, held, call, pc, tx>>

Deactivate(c) ==
    /\ "deactivate" \in Faults
    /\ c \in clientActive
    /\ clientActive' = clientActive \ {c}
    /\ UNCHANGED <<rows, userActive, expired, jwtExpired, held, call, pc, tx>>
=============================================================================

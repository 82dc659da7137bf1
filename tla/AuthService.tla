----------------------------- MODULE AuthService -----------------------------
(***************************************************************************)
(* The first-party endpoints: login, refresh, logout and logout-all, with  *)
(* the RequireAuth middleware that guards the last three.  RequireAuth     *)
(* reads the session row on a connection of its own, before the handler    *)
(* opens its transaction.                                                  *)
(***************************************************************************)
EXTENDS SessionStore

-----------------------------------------------------------------------------
(* Requests a browser or an app can send: bearer and cookie are tokens that *)
(* some response delivered, and nothing ties the one to the other.          *)

LoginRequest(r) ==
    \E u \in Users, ok \in BOOLEAN :
        Receive(r, [NoCall EXCEPT !.op = "login", !.user = u, !.proof = ok])

RefreshRequest(r) ==
    \E b, t \in held \cap Sessions :
        Receive(r, [NoCall EXCEPT !.op = "refresh", !.bearer = b, !.token = t])

LogoutRequest(r) ==
    \E b \in held \cap Sessions :
        Receive(r, [NoCall EXCEPT !.op = "logout", !.bearer = b])

LogoutAllRequest(r) ==
    \E b \in held \cap Sessions :
        Receive(r, [NoCall EXCEPT !.op = "logoutAll", !.bearer = b])

-----------------------------------------------------------------------------
(* Login *)

\* SELECT the user, then test status and password.
SelectUser(r) ==
    /\ pc[r] = "auth"
    /\ call[r].op = "login"
    /\ Check(r, call[r].user \in userActive /\ call[r].proof, "mint",
             [tx[r] EXCEPT !.user = call[r].user])

-----------------------------------------------------------------------------
(* The middleware, and the handlers behind it *)

AfterAuth(op) == CASE op = "refresh"   -> "session"
                   [] op = "logout"    -> "logout"
                   [] op = "logoutAll" -> "scan"

\* The subject of the token becomes the request's user; LogoutAllDevices
\* turns a token without subject away.
RequireAuth(r) ==
    /\ pc[r] = "auth"
    /\ call[r].op \in BearerEndpoints
    /\ LET b == call[r].bearer IN
       Check(r,
             /\ Authenticated(b)
             /\ call[r].op = "logoutAll" => session[b].user # None,
             AfterAuth(call[r].op),
             [tx[r] EXCEPT !.user = session[b].user])

\* RefreshToken: SELECT the cookie's session and copy its binding.
SelectSession(r) ==
    /\ pc[r] = "session"
    /\ call[r].op = "refresh"
    /\ LET t == call[r].token IN
       Check(r, Refreshable(t), "rotate",
             [tx[r] EXCEPT !.user = session[t].user,
                           !.client = session[t].client,
                           !.scope = session[t].scope])

\* Logout: UPDATE ... WHERE id = $1 RETURNING user_id, scanned into a string:
\* a NULL user_id is an error and rolls the update back.
LogoutUpdate(r) ==
    /\ pc[r] = "logout"
    /\ ~Locked(r, call[r].bearer)
    /\ LET b == call[r].bearer IN
       Check(r, session[b].user # None, "audit",
             [tx[r] EXCEPT !.user = session[b].user,
                           !.writes = @ \cup {b}])

\* Mutant: the UPDATE lost `user_id = $1`.
LogoutAllScanEveryone(r) ==
    /\ pc[r] = "scan"
    /\ LET found == {s \in Sessions : session[s].st = "live"} IN
       Advance(r, "rows", [tx[r] EXCEPT !.todo = found, !.seen = found])
    /\ UNCHANGED <<rows, env, held>>

\* LogoutAllDevices: the UPDATE takes its snapshot once ...
LogoutAllScan(r) ==
    /\ pc[r] = "scan"
    /\ LET found == {s \in Sessions : /\ session[s].st = "live"
                                      /\ session[s].user = tx[r].user} IN
       Advance(r, "rows", [tx[r] EXCEPT !.todo = found, !.seen = found])
    /\ UNCHANGED <<rows, env, held>>

\* Mutant: rows that are locked are skipped instead of waited for.
LogoutAllRowSkips(r) ==
    /\ pc[r] = "rows"
    /\ \E s \in tx[r].todo :
         Advance(r, "rows",
                 [tx[r] EXCEPT !.todo = @ \ {s},
                               !.writes = IF session[s].st = "live" /\ ~Locked(r, s)
                                          THEN @ \cup {s} ELSE @])
    /\ UNCHANGED <<rows, env, held>>

\* ... and then locks its rows one by one, skipping a row that the holder of
\* the lock it waited for has revoked (AND revoked = false, re-evaluated).
LogoutAllRow(r) ==
    /\ pc[r] = "rows"
    /\ \E s \in tx[r].todo :
         /\ ~Locked(r, s)
         /\ Advance(r, "rows",
                    [tx[r] EXCEPT !.todo = @ \ {s},
                                  !.writes = IF session[s].st = "live"
                                             THEN @ \cup {s} ELSE @])
    /\ UNCHANGED <<rows, env, held>>

-----------------------------------------------------------------------------

AuthRequest(r) ==
    \/ LoginRequest(r)
    \/ RefreshRequest(r)
    \/ LogoutRequest(r)
    \/ LogoutAllRequest(r)

AuthStep(r) ==
    \/ SelectUser(r)
    \/ RequireAuth(r)
    \/ SelectSession(r)
    \/ LogoutUpdate(r)
    \/ LogoutAllScan(r)
    \/ LogoutAllRow(r)
=============================================================================

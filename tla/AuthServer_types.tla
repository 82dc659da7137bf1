--------------------------- MODULE AuthServer_types ---------------------------
(***************************************************************************)
(* AuthServer's state has the types the code gives it, for any number of   *)
(* users, clients, sessions, codes and concurrent requests, any set of     *)
(* endpoints and any faults.                                               *)
(***************************************************************************)
EXTENDS AuthServerInvariant, TLAPS

-----------------------------------------------------------------------------
(* Types, and the route of every request *)

\* The records that stand for a missing row, request or transaction have the
\* types of their variables.
LEMMA NullsTyped ==
    /\ NoSession \in SessionRow
    /\ NoCode \in CodeRow
    /\ NoCall \in Call
    /\ NoTx \in Tx
BY DEF NoSession, NoCode, NoCall, NoTx, SessionRow, CodeRow, Call, Tx, Roles

\* An idle request is well-formed.
LEMMA NoCallWellFormed == WellFormed(NoCall) /\ OnRoute(NoCall.op, "idle")
BY StoreAssumption
   DEF WellFormed, NoCall, OnRoute, BearerEndpoints, ClientEndpoints

\* A well-formed request that reaches its handler keeps the invariant: the
\* arrival of a request in the HTTP layer (cmd/main.go's routes).
LEMMA ReceiveTyped ==
    ASSUME TypeInv, NEW r \in Requests, NEW c \in Call, Receive(r, c),
           WellFormed(c), OnRoute(c.op, "auth")
    PROVE  TypeInv'
<1> DEFINE d == {x \in Roles : Unfit(c, x)}
<1>1. [c EXCEPT !.dead = d] \in Call
  BY DEF Call
<1>2. /\ call' = [call EXCEPT ![r] = [c EXCEPT !.dead = d]]
      /\ pc' = [pc EXCEPT ![r] = "auth"]
  BY DEF Receive
<1> HIDE DEF d
<1>3. TypeOK'
  BY <1>1, <1>2 DEF TypeInv, TypeOK, Labels, Receive, rows, env
<1>4. \A q \in Requests : Carried(q)'
  <2> TAKE q \in Requests
  <2>1. CASE q = r
    BY <2>1, <1>1, <1>2 DEF Carried, WellFormed, TypeInv, TypeOK, Call
  <2>2. CASE q # r
    BY <2>2, <1>2 DEF Carried, WellFormed, TypeInv, TypeOK
  <2> QED BY <2>1, <2>2
<1> QED BY <1>3, <1>4 DEF TypeInv

\* A handler that returns keeps it.
LEMMA AnswerTyped ==
    ASSUME TypeInv, NEW r \in Requests, Answer(r), UNCHANGED <<rows, env>>,
           held' \subseteq Tokens
    PROVE  TypeInv'
<1>1. TypeOK'
  BY NullsTyped DEF TypeInv, TypeOK, Answer, Labels, rows, env
<1>2. \A q \in Requests : Carried(q)'
  <2> TAKE q \in Requests
  <2>1. CASE q = r
    BY <2>1, NoCallWellFormed DEF Carried, TypeInv, TypeOK, Answer, WellFormed
  <2>2. CASE q # r
    BY <2>2 DEF Carried, WellFormed, TypeInv, TypeOK, Answer
  <2> QED BY <2>1, <2>2
<1> QED BY <1>1, <1>2 DEF TypeInv

\* A statement that goes on along the route keeps it.
LEMMA AdvanceTyped ==
    ASSUME TypeInv, NEW r \in Requests, NEW label \in Labels,
           NEW STATE t, t \in Tx,
           Advance(r, label, t), OnRoute(call[r].op, label),
           session' \in [Sessions -> SessionRow],
           code' \in [Codes -> CodeRow],
           audit' \subseteq AuditRow,
           UNCHANGED <<env, held>>
    PROVE  TypeInv'
<1>1. TypeOK'
  BY DEF TypeInv, TypeOK, Advance, env
<1>2. \A q \in Requests : Carried(q)'
  BY DEF Carried, WellFormed, TypeInv, TypeOK, Advance
<1> QED BY <1>1, <1>2 DEF TypeInv

\* The fields of the empty request record.
LEMMA NoCallFields ==
    /\ NoCall \in Call
    /\ NoCall.bearer = None /\ NoCall.token = None
    /\ NoCall.user = None /\ NoCall.client = None
    /\ None \notin Users /\ None \notin Clients /\ None \notin Scopes
<1>1. NoCall.bearer = None /\ NoCall.token = None
      /\ NoCall.user = None /\ NoCall.client = None
  BY DEF NoCall
<1> QED BY <1>1, NullsTyped, StoreAssumption

\* Requests arrive well-formed, whatever endpoint they are for, and present
\* what some response has delivered.
LEMMA RequestReceives ==
    ASSUME TypeInv, NEW r \in Requests, Request(r)
    PROVE  \E d \in Call : /\ Receive(r, d)
                          /\ WellFormed(d)
                          /\ OnRoute(d.op, "auth")
                          /\ d.bearer \in held \cup {None}
                          /\ d.token \in held \cup {None}
<1> USE DEF Call, WellFormed, BearerEndpoints, ClientEndpoints, Endpoints, Tokens
<1> USE NoCallFields
<1>1. CASE LoginRequest(r)
  <2>1. PICK u \in Users, ok \in BOOLEAN :
          Receive(r, [NoCall EXCEPT !.op = "login",
                                    !.user = u, !.proof = ok])
    BY <1>1 DEF LoginRequest
  <2> DEFINE c == [NoCall EXCEPT !.op = "login",
                                 !.user = u, !.proof = ok]
  <2>2. /\ c \in Call /\ c.op = "login" /\ WellFormed(c)
        /\ c.bearer \in held \cup {None} /\ c.token \in held \cup {None}
    OBVIOUS
  <2>3. OnRoute("login", "auth")
    BY DEF OnRoute
  <2>4. Receive(r, c)
    BY <2>1
  <2> HIDE DEF c
  <2> QED BY <2>2, <2>3, <2>4
<1>2. CASE RefreshRequest(r)
  <2>1. PICK b, t \in held \cap Sessions :
          Receive(r, [NoCall EXCEPT !.op = "refresh",
                                    !.bearer = b, !.token = t])
    BY <1>2 DEF RefreshRequest
  <2> DEFINE c == [NoCall EXCEPT !.op = "refresh",
                                 !.bearer = b, !.token = t]
  <2>2. /\ c \in Call /\ c.op = "refresh" /\ WellFormed(c)
        /\ c.bearer \in held \cup {None} /\ c.token \in held \cup {None}
    OBVIOUS
  <2>3. OnRoute("refresh", "auth")
    BY DEF OnRoute
  <2>4. Receive(r, c)
    BY <2>1
  <2> HIDE DEF c
  <2> QED BY <2>2, <2>3, <2>4
<1>3. CASE LogoutRequest(r)
  <2>1. PICK b \in held \cap Sessions :
          Receive(r, [NoCall EXCEPT !.op = "logout",
                                    !.bearer = b])
    BY <1>3 DEF LogoutRequest
  <2> DEFINE c == [NoCall EXCEPT !.op = "logout",
                                 !.bearer = b]
  <2>2. /\ c \in Call /\ c.op = "logout" /\ WellFormed(c)
        /\ c.bearer \in held \cup {None} /\ c.token \in held \cup {None}
    OBVIOUS
  <2>3. OnRoute("logout", "auth")
    BY DEF OnRoute
  <2>4. Receive(r, c)
    BY <2>1
  <2> HIDE DEF c
  <2> QED BY <2>2, <2>3, <2>4
<1>4. CASE LogoutAllRequest(r)
  <2>1. PICK b \in held \cap Sessions :
          Receive(r, [NoCall EXCEPT !.op = "logoutAll",
                                    !.bearer = b])
    BY <1>4 DEF LogoutAllRequest
  <2> DEFINE c == [NoCall EXCEPT !.op = "logoutAll",
                                 !.bearer = b]
  <2>2. /\ c \in Call /\ c.op = "logoutAll" /\ WellFormed(c)
        /\ c.bearer \in held \cup {None} /\ c.token \in held \cup {None}
    OBVIOUS
  <2>3. OnRoute("logoutAll", "auth")
    BY DEF OnRoute
  <2>4. Receive(r, c)
    BY <2>1
  <2> HIDE DEF c
  <2> QED BY <2>2, <2>3, <2>4
<1>5. CASE ClientCredentialsRequest(r)
  <2>1. PICK cl \in Clients, sc \in Scopes, ok \in BOOLEAN :
          Receive(r, [NoCall EXCEPT !.op = "clientCredentials",
                                    !.client = cl, !.scope = sc, !.proof = ok])
    BY <1>5 DEF ClientCredentialsRequest
  <2> DEFINE c == [NoCall EXCEPT !.op = "clientCredentials",
                                 !.client = cl, !.scope = sc, !.proof = ok]
  <2>2. /\ c \in Call /\ c.op = "clientCredentials" /\ WellFormed(c)
        /\ c.bearer \in held \cup {None} /\ c.token \in held \cup {None}
    OBVIOUS
  <2>3. OnRoute("clientCredentials", "auth")
    BY DEF OnRoute
  <2>4. Receive(r, c)
    BY <2>1
  <2> HIDE DEF c
  <2> QED BY <2>2, <2>3, <2>4
<1>6. CASE ClientRefreshRequest(r)
  <2>1. PICK cl \in Clients, t \in held \cap Sessions, ok \in BOOLEAN :
          Receive(r, [NoCall EXCEPT !.op = "clientRefresh",
                                    !.client = cl, !.token = t, !.proof = ok])
    BY <1>6 DEF ClientRefreshRequest
  <2> DEFINE c == [NoCall EXCEPT !.op = "clientRefresh",
                                 !.client = cl, !.token = t, !.proof = ok]
  <2>2. /\ c \in Call /\ c.op = "clientRefresh" /\ WellFormed(c)
        /\ c.bearer \in held \cup {None} /\ c.token \in held \cup {None}
    OBVIOUS
  <2>3. OnRoute("clientRefresh", "auth")
    BY DEF OnRoute
  <2>4. Receive(r, c)
    BY <2>1
  <2> HIDE DEF c
  <2> QED BY <2>2, <2>3, <2>4
<1>7. CASE RedeemRequest(r)
  <2>1. PICK cl \in Clients, t \in held \cap Codes, ok \in BOOLEAN :
          Receive(r, [NoCall EXCEPT !.op = "redeem",
                                    !.client = cl, !.token = t, !.proof = ok])
    BY <1>7 DEF RedeemRequest
  <2> DEFINE c == [NoCall EXCEPT !.op = "redeem",
                                 !.client = cl, !.token = t, !.proof = ok]
  <2>2. /\ c \in Call /\ c.op = "redeem" /\ WellFormed(c)
        /\ c.bearer \in held \cup {None} /\ c.token \in held \cup {None}
    OBVIOUS
  <2>3. OnRoute("redeem", "auth")
    BY DEF OnRoute
  <2>4. Receive(r, c)
    BY <2>1
  <2> HIDE DEF c
  <2> QED BY <2>2, <2>3, <2>4
<1>8. CASE RevokeRequest(r)
  <2>1. PICK cl \in Clients, t \in held \cap Sessions, ok \in BOOLEAN :
          Receive(r, [NoCall EXCEPT !.op = "revoke",
                                    !.client = cl, !.token = t, !.proof = ok])
    BY <1>8 DEF RevokeRequest
  <2> DEFINE c == [NoCall EXCEPT !.op = "revoke",
                                 !.client = cl, !.token = t, !.proof = ok]
  <2>2. /\ c \in Call /\ c.op = "revoke" /\ WellFormed(c)
        /\ c.bearer \in held \cup {None} /\ c.token \in held \cup {None}
    OBVIOUS
  <2>3. OnRoute("revoke", "auth")
    BY DEF OnRoute
  <2>4. Receive(r, c)
    BY <2>1
  <2> HIDE DEF c
  <2> QED BY <2>2, <2>3, <2>4
<1>9. CASE ApproveRequest(r)
  <2>1. PICK cl \in Clients, t \in held \cap Sessions, sc \in Scopes, ok \in BOOLEAN :
          Receive(r, [NoCall EXCEPT !.op = "approve",
                                    !.client = cl, !.token = t, !.scope = sc, !.proof = ok])
    BY <1>9 DEF ApproveRequest
  <2> DEFINE c == [NoCall EXCEPT !.op = "approve",
                                 !.client = cl, !.token = t, !.scope = sc, !.proof = ok]
  <2>2. /\ c \in Call /\ c.op = "approve" /\ WellFormed(c)
        /\ c.bearer \in held \cup {None} /\ c.token \in held \cup {None}
    OBVIOUS
  <2>3. OnRoute("approve", "auth")
    BY DEF OnRoute
  <2>4. Receive(r, c)
    BY <2>1
  <2> HIDE DEF c
  <2> QED BY <2>2, <2>3, <2>4
<1>10. CASE IntrospectRequest(r)
  <2>1. PICK cl \in Clients, t \in held \cap Sessions, ok \in BOOLEAN :
          \/ Receive(r, [NoCall EXCEPT !.op = "introspect", !.client = cl,
                                       !.bearer = t, !.proof = ok])
          \/ Receive(r, [NoCall EXCEPT !.op = "introspect", !.client = cl,
                                       !.token = t, !.proof = ok])
    BY <1>10 DEF IntrospectRequest
  <2> DEFINE c == [NoCall EXCEPT !.op = "introspect", !.client = cl,
                                 !.bearer = t, !.proof = ok]
             d == [NoCall EXCEPT !.op = "introspect", !.client = cl,
                                 !.token = t, !.proof = ok]
  <2>2. /\ c \in Call /\ c.op = "introspect" /\ WellFormed(c)
        /\ c.bearer \in held \cup {None} /\ c.token \in held \cup {None}
    OBVIOUS
  <2>3. /\ d \in Call /\ d.op = "introspect" /\ WellFormed(d)
        /\ d.bearer \in held \cup {None} /\ d.token \in held \cup {None}
    OBVIOUS
  <2>4. OnRoute("introspect", "auth")
    BY DEF OnRoute
  <2>5. Receive(r, c) \/ Receive(r, d)
    BY <2>1
  <2> HIDE DEF c, d
  <2> QED BY <2>2, <2>3, <2>4, <2>5
<1> QED BY <1>1, <1>2, <1>3, <1>4, <1>5, <1>6, <1>7, <1>8, <1>9, <1>10
        DEF Request

\* So the arrival of any request keeps types and routes.
LEMMA RequestTyped ==
    ASSUME TypeInv, NEW r \in Requests, Request(r)
    PROVE  TypeInv'
BY RequestReceives, ReceiveTyped

\* A statement that only reads, or writes rows of its own transaction.
LEMMA LocalTyped ==
    ASSUME TypeInv, NEW r \in Requests, NEW label \in Labels,
           NEW STATE t, t \in Tx, OnRoute(call[r].op, label),
           Advance(r, label, t) \/ Answer(r),
           UNCHANGED <<rows, env, held>>
    PROVE  TypeInv'
<1>1. /\ session' \in [Sessions -> SessionRow]
      /\ code' \in [Codes -> CodeRow]
      /\ audit' \subseteq AuditRow
      /\ held' \subseteq Tokens
      /\ UNCHANGED <<rows, env>>
      /\ UNCHANGED <<env, held>>
  BY DEF TypeInv, TypeOK, rows
<1>2. CASE Advance(r, label, t)
  BY <1>1, <1>2, AdvanceTyped
<1>3. CASE Answer(r)
  BY <1>1, <1>3, AnswerTyped
<1> QED BY <1>2, <1>3

\* The first-party statements (service.go and middleware/auth.go).
LEMMA AuthStepTyped ==
    ASSUME TypeInv, NEW r \in Requests, AuthStep(r)
    PROVE  TypeInv'
<1> DEFINE b == call[r].bearer
           t == call[r].token
<1>0. /\ call[r] \in Call /\ tx[r] \in Tx
      /\ OnRoute(call[r].op, pc[r]) /\ WellFormed(call[r])
  BY DEF TypeInv, TypeOK, Carried
<1>1. CASE SelectUser(r)
  <2> DEFINE u == [tx[r] EXCEPT !.user = call[r].user]
  <2>1. u \in Tx /\ "mint" \in Labels /\ OnRoute(call[r].op, "mint")
    BY <1>0, <1>1 DEF SelectUser, Tx, Call, Labels, OnRoute
  <2>2. (Advance(r, "mint", u) \/ Answer(r)) /\ UNCHANGED <<rows, env, held>>
    BY <1>1 DEF SelectUser, Check
  <2> QED BY <2>1, <2>2, LocalTyped
<1>2. CASE RequireAuth(r)
  <2> DEFINE u == [tx[r] EXCEPT !.user = session[b].user]
             l == AfterAuth(call[r].op)
  <2>1. b \in Sessions
    BY <1>0, <1>2 DEF RequireAuth, WellFormed
  <2>2. u \in Tx
    BY <1>0, <2>1 DEF Tx, TypeInv, TypeOK, SessionRow
  <2>3. l \in Labels /\ OnRoute(call[r].op, l)
    <3>1. \/ call[r].op = "refresh" /\ l = "session"
          \/ call[r].op = "logout" /\ l = "logout"
          \/ call[r].op = "logoutAll" /\ l = "scan"
      BY <1>2 DEF RequireAuth, AfterAuth, BearerEndpoints
    <3> QED BY <3>1 DEF Labels, OnRoute
  <2>4. (Advance(r, l, u) \/ Answer(r)) /\ UNCHANGED <<rows, env, held>>
    BY <1>2 DEF RequireAuth, Check
  <2> QED BY <2>2, <2>3, <2>4, LocalTyped
<1>3. CASE SelectSession(r)
  <2> DEFINE u == [tx[r] EXCEPT !.user = session[t].user,
                                !.client = session[t].client,
                                !.scope = session[t].scope]
  <2>1. t \in Sessions
    BY <1>0, <1>3 DEF SelectSession, WellFormed
  <2>2. u \in Tx /\ "rotate" \in Labels /\ OnRoute(call[r].op, "rotate")
    BY <1>0, <1>3, <2>1
       DEF SelectSession, Tx, TypeInv, TypeOK, SessionRow, Labels, OnRoute
  <2>3. (Advance(r, "rotate", u) \/ Answer(r)) /\ UNCHANGED <<rows, env, held>>
    BY <1>3 DEF SelectSession, Check
  <2> QED BY <2>2, <2>3, LocalTyped
<1>4. CASE LogoutUpdate(r)
  <2> DEFINE u == [tx[r] EXCEPT !.user = session[b].user,
                                !.writes = @ \cup {b}]
  <2>1. call[r].op = "logout" /\ b \in Sessions
    BY <1>0, <1>4 DEF LogoutUpdate, WellFormed, OnRoute, BearerEndpoints
  <2>2. u \in Tx /\ "audit" \in Labels /\ OnRoute(call[r].op, "audit")
    BY <1>0, <2>1 DEF Tx, TypeInv, TypeOK, SessionRow, Labels, OnRoute, Tokens
  <2>3. (Advance(r, "audit", u) \/ Answer(r)) /\ UNCHANGED <<rows, env, held>>
    BY <1>4 DEF LogoutUpdate, Check
  <2> QED BY <2>2, <2>3, LocalTyped
<1>5. CASE LogoutAllScan(r)
  <2> DEFINE found == {s \in Sessions : /\ session[s].st = "live"
                                        /\ session[s].user = tx[r].user}
             u == [tx[r] EXCEPT !.todo = found, !.seen = found]
  <2>1. u \in Tx
    <3>1. found \subseteq Sessions
      OBVIOUS
    <3> HIDE DEF found
    <3> QED BY <1>0, <3>1 DEF Tx
  <2>2. "rows" \in Labels /\ OnRoute(call[r].op, "rows")
    BY <1>0, <1>5 DEF LogoutAllScan, Labels, OnRoute
  <2>3. Advance(r, "rows", u) /\ UNCHANGED <<rows, env, held>>
    BY <1>5 DEF LogoutAllScan
  <2> HIDE DEF u
  <2> QED BY <2>1, <2>2, <2>3, LocalTyped
<1>6. CASE LogoutAllRow(r)
  <2>1. PICK s \in tx[r].todo :
          Advance(r, "rows",
                  [tx[r] EXCEPT !.todo = @ \ {s},
                                !.writes = IF session[s].st = "live"
                                           THEN @ \cup {s} ELSE @])
    BY <1>6 DEF LogoutAllRow
  <2> DEFINE u == [tx[r] EXCEPT !.todo = @ \ {s},
                                !.writes = IF session[s].st = "live"
                                           THEN @ \cup {s} ELSE @]
  <2>2. u \in Tx
    BY <1>0 DEF Tx, Tokens
  <2>3. "rows" \in Labels /\ OnRoute(call[r].op, "rows")
    BY <1>0, <1>6 DEF LogoutAllRow, Labels, OnRoute
  <2>4. UNCHANGED <<rows, env, held>>
    BY <1>6 DEF LogoutAllRow
  <2> QED BY <2>1, <2>2, <2>3, <2>4, LocalTyped
<1> QED BY <1>1, <1>2, <1>3, <1>4, <1>5, <1>6 DEF AuthStep

\* The statements for clients (oauth_service.go).
LEMMA OAuthStepTyped ==
    ASSUME TypeInv, NEW r \in Requests, OAuthStep(r)
    PROVE  TypeInv'
<1> DEFINE t == call[r].token
<1>0. /\ call[r] \in Call /\ tx[r] \in Tx
      /\ OnRoute(call[r].op, pc[r]) /\ WellFormed(call[r])
  BY DEF TypeInv, TypeOK, Carried
<1>1. CASE Authenticate(r)
  <2> DEFINE u == [tx[r] EXCEPT !.client = call[r].client,
                                !.scope = call[r].scope]
             l == AfterClient(call[r].op)
  <2>1. u \in Tx
    BY <1>0 DEF Tx, Call
  <2>2. l \in Labels /\ OnRoute(call[r].op, l)
    <3>1. \/ call[r].op = "clientCredentials" /\ l = "mint"
          \/ call[r].op = "clientRefresh" /\ l = "session"
          \/ call[r].op = "redeem" /\ l = "code"
          \/ call[r].op = "revoke" /\ l = "kill"
          \/ call[r].op = "introspect" /\ l = "read"
      BY <1>1 DEF Authenticate, AfterClient, ClientEndpoints
    <3> QED BY <3>1 DEF Labels, OnRoute
  <2>3. (Advance(r, l, u) \/ Answer(r)) /\ UNCHANGED <<rows, env, held>>
    BY <1>1 DEF Authenticate, Check
  <2> QED BY <2>1, <2>2, <2>3, LocalTyped
<1>2. CASE SelectClientSession(r)
  <2> DEFINE u == [tx[r] EXCEPT !.user = session[t].user,
                                !.scope = session[t].scope]
  <2>1. t \in Sessions
    BY <1>0, <1>2 DEF SelectClientSession, WellFormed
  <2>2. u \in Tx /\ "rotate" \in Labels /\ OnRoute(call[r].op, "rotate")
    BY <1>0, <1>2, <2>1
       DEF SelectClientSession, Tx, TypeInv, TypeOK, SessionRow, Labels, OnRoute
  <2>3. (Advance(r, "rotate", u) \/ Answer(r)) /\ UNCHANGED <<rows, env, held>>
    BY <1>2 DEF SelectClientSession, Check
  <2> QED BY <2>2, <2>3, LocalTyped
<1>3. CASE SelectCode(r)
  <2> DEFINE u == [tx[r] EXCEPT !.user = code[t].user, !.scope = code[t].scope]
  <2>1. call[r].op = "redeem" /\ t \in Codes
    BY <1>0, <1>3 DEF SelectCode, WellFormed, OnRoute
  <2>2. u \in Tx /\ "use" \in Labels /\ OnRoute(call[r].op, "use")
    BY <1>0, <2>1 DEF Tx, TypeInv, TypeOK, CodeRow, Labels, OnRoute
  <2>3. (Advance(r, "use", u) \/ Answer(r)) /\ UNCHANGED <<rows, env, held>>
    BY <1>3 DEF SelectCode, Check
  <2> QED BY <2>2, <2>3, LocalTyped
<1>4. CASE UseCode(r)
  <2> DEFINE u == [tx[r] EXCEPT !.writes = @ \cup {t}]
  <2>1. call[r].op = "redeem" /\ t \in Codes
    BY <1>0, <1>4 DEF UseCode, WellFormed, OnRoute
  <2>2. u \in Tx /\ "mint" \in Labels /\ OnRoute(call[r].op, "mint")
    BY <1>0, <2>1 DEF Tx, Tokens, Labels, OnRoute
  <2>3. Advance(r, "mint", u) /\ UNCHANGED <<rows, env, held>>
    BY <1>4 DEF UseCode
  <2> QED BY <2>2, <2>3, LocalTyped
<1>5. CASE RevokeToken(r)
  <2>1. call[r].op = "revoke" /\ t \in Sessions
    BY <1>0, <1>5 DEF RevokeToken, WellFormed, OnRoute
  <2>2. "reply" \in Labels /\ OnRoute(call[r].op, "reply")
    BY <2>1 DEF Labels, OnRoute
  <2>3. Advance(r, "reply", tx[r]) /\ UNCHANGED <<code, audit, env, held>>
    BY <1>5 DEF RevokeToken
  <2>4. session' \in [Sessions -> SessionRow]
    BY <1>5, <2>1 DEF RevokeToken, TypeInv, TypeOK, SessionRow
  <2>5. code' \in [Codes -> CodeRow] /\ audit' \subseteq AuditRow
        /\ UNCHANGED <<env, held>>
    BY <2>3 DEF TypeInv, TypeOK
  <2> QED BY <1>0, <2>2, <2>3, <2>4, <2>5, AdvanceTyped
<1>6. CASE Introspect(r)
  <2>1. "reply" \in Labels /\ OnRoute(call[r].op, "reply")
    BY <1>0, <1>6 DEF Introspect, Labels, OnRoute
  <2>2. /\ Advance(r, "reply", tx[r]) \/ Answer(r)
        /\ UNCHANGED <<rows, env, held>>
    BY <1>6 DEF Introspect, Check
  <2> QED BY <1>0, <2>1, <2>2, LocalTyped
<1>7. CASE ValidateAuthorize(r)
  <2> DEFINE u == [tx[r] EXCEPT !.client = call[r].client,
                                !.scope = call[r].scope]
  <2>1. u \in Tx /\ "lookup" \in Labels /\ OnRoute(call[r].op, "lookup")
    BY <1>0, <1>7 DEF ValidateAuthorize, Tx, Call, Labels, OnRoute
  <2>2. (Advance(r, "lookup", u) \/ Answer(r)) /\ UNCHANGED <<rows, env, held>>
    BY <1>7 DEF ValidateAuthorize, Check
  <2> QED BY <2>1, <2>2, LocalTyped
<1>8. CASE LookupSessionUser(r)
  <2> DEFINE u == [tx[r] EXCEPT !.user = session[t].user]
  <2>1. call[r].op = "approve" /\ t \in Sessions
    BY <1>0, <1>8 DEF LookupSessionUser, WellFormed, OnRoute
  <2>2. u \in Tx /\ "issue" \in Labels /\ OnRoute(call[r].op, "issue")
    BY <1>0, <2>1 DEF Tx, TypeInv, TypeOK, SessionRow, Labels, OnRoute
  <2>3. (Advance(r, "issue", u) \/ Answer(r)) /\ UNCHANGED <<rows, env, held>>
    BY <1>8 DEF LookupSessionUser, Check
  <2> QED BY <2>2, <2>3, LocalTyped
<1>9. CASE IssueAuthorizationCode(r)
  <2>1. "reply" \in Labels /\ OnRoute(call[r].op, "reply")
    BY <1>0, <1>9 DEF IssueAuthorizationCode, Labels, OnRoute
  <2>2. UNCHANGED <<session, audit, env, held>>
    BY <1>9 DEF IssueAuthorizationCode
  <2>3. /\ session' \in [Sessions -> SessionRow]
        /\ audit' \subseteq AuditRow
        /\ held' \subseteq Tokens
        /\ UNCHANGED <<env, held>>
    BY <2>2 DEF TypeInv, TypeOK
  <2>4. ASSUME NEW c \in Codes,
               code' = [code EXCEPT ![c] =
                          [st |-> "unused", user |-> tx[r].user,
                           client |-> tx[r].client, scope |-> tx[r].scope]],
               Advance(r, "reply", [tx[r] EXCEPT !.issues = c])
        PROVE  TypeInv'
    <3> DEFINE u == [tx[r] EXCEPT !.issues = c]
    <3>1. u \in Tx
      BY <1>0 DEF Tx
    <3>2. code' \in [Codes -> CodeRow]
      BY <1>0, <2>4 DEF TypeInv, TypeOK, CodeRow, Tx
    <3> QED BY <2>1, <2>3, <2>4, <3>1, <3>2, AdvanceTyped
  <2>5. CASE Answer(r) /\ UNCHANGED code
    BY <2>2, <2>3, <2>5, AnswerTyped DEF rows
  <2> QED BY <1>9, <2>4, <2>5 DEF IssueAuthorizationCode
<1> QED BY <1>1, <1>2, <1>3, <1>4, <1>5, <1>6, <1>7, <1>8, <1>9 DEF OAuthStep

\* The statements several handlers share, COMMIT and the response.
LEMMA HandleTyped ==
    ASSUME TypeInv, NEW r \in Requests, Handle(r)
    PROVE  TypeInv'
<1> DEFINE t == call[r].token
<1>0. /\ call[r] \in Call /\ tx[r] \in Tx
      /\ OnRoute(call[r].op, pc[r]) /\ WellFormed(call[r])
  BY DEF TypeInv, TypeOK, Carried
<1>1. CASE RotateOut(r)
  <2> DEFINE u == [tx[r] EXCEPT !.writes = @ \cup {t}]
  <2>1. call[r].op \in {"refresh", "clientRefresh"} /\ t \in Sessions
    BY <1>0, <1>1 DEF RotateOut, WellFormed, OnRoute
  <2>2. u \in Tx /\ "mint" \in Labels /\ OnRoute(call[r].op, "mint")
    BY <1>0, <2>1 DEF Tx, Tokens, Labels, OnRoute
  <2>3. Advance(r, "mint", u) /\ UNCHANGED <<rows, env, held>>
    BY <1>1 DEF RotateOut
  <2> QED BY <2>2, <2>3, LocalTyped
<1>2. CASE CreateSession(r)
  <2>1. "audit" \in Labels /\ OnRoute(call[r].op, "audit")
    BY <1>0, <1>2 DEF CreateSession, Labels, OnRoute
  <2>2. UNCHANGED <<rows, env, held>>
    BY <1>2 DEF CreateSession
  <2>3. ASSUME NEW s \in Sessions,
               Advance(r, "audit", [tx[r] EXCEPT !.mints = s])
        PROVE  TypeInv'
    <3> DEFINE u == [tx[r] EXCEPT !.mints = s]
    <3>1. u \in Tx
      BY <1>0 DEF Tx
    <3> QED BY <2>1, <2>2, <2>3, <3>1, LocalTyped
  <2>4. CASE Answer(r)
    BY <1>0, <2>1, <2>2, <2>4, LocalTyped
  <2> QED BY <1>2, <2>3, <2>4 DEF CreateSession
<1>3. CASE AuditLog(r)
  <2> DEFINE u == [tx[r] EXCEPT !.logs = {LogEntry(r)}]
  <2>1. LogEntry(r) \in AuditRow
    BY <1>0, <1>3 DEF LogEntry, AuditRow, AuditLog, Call, Tx, OnRoute, Endpoints,
                      BearerEndpoints, ClientEndpoints
  <2>2. u \in Tx /\ "commit" \in Labels /\ OnRoute(call[r].op, "commit")
    BY <1>0, <1>3, <2>1 DEF AuditLog, Tx, Labels, OnRoute
  <2>3. Advance(r, "commit", u) /\ UNCHANGED <<rows, env, held>>
    BY <1>3 DEF AuditLog
  <2> QED BY <2>2, <2>3, LocalTyped
<1>4. CASE Commit(r)
  <2> DEFINE u == [tx[r] EXCEPT !.writes = {}, !.logs = {}]
  <2>1. u \in Tx /\ "reply" \in Labels /\ OnRoute(call[r].op, "reply")
    BY <1>0, <1>4 DEF Commit, Tx, Labels, OnRoute
  <2>2. MintedRow(r) \in SessionRow
    BY <1>0 DEF MintedRow, SessionRow, Tx, Call
  <2>3. session' \in [Sessions -> SessionRow]
    <3> SUFFICES ASSUME NEW s \in Sessions
                 PROVE  session'[s] \in SessionRow
      BY <1>4 DEF Commit
    <3>1. session[s] \in SessionRow
      BY DEF TypeInv, TypeOK
    <3>2. [session[s] EXCEPT !.st = "revoked"] \in SessionRow
      BY <3>1 DEF SessionRow
    <3> QED BY <1>4, <2>2, <3>1, <3>2 DEF Commit
  <2>4. code' \in [Codes -> CodeRow]
    BY <1>4 DEF Commit, TypeInv, TypeOK, CodeRow
  <2>5. audit' \subseteq AuditRow
    BY <1>0, <1>4 DEF Commit, TypeInv, TypeOK, Tx
  <2>6. Advance(r, "reply", u) /\ UNCHANGED <<env, held>>
    BY <1>4 DEF Commit
  <2> QED BY <2>1, <2>3, <2>4, <2>5, <2>6, AdvanceTyped
<1>5. CASE Reply(r)
  <2>1. held' \subseteq Tokens
    BY <1>0, <1>5 DEF Reply, TypeInv, TypeOK, Tx, Tokens
  <2> QED BY <1>5, <2>1, AnswerTyped DEF Reply
<1> QED BY <1>1, <1>2, <1>3, <1>4, <1>5, AuthStepTyped, OAuthStepTyped DEF Handle

\* Answers forced from outside the handler keep the types.
LEMMA CutTyped ==
    ASSUME TypeInv, NEW r \in Requests, Timeout(r) \/ Fail(r) \/ LoseReply(r)
    PROVE  TypeInv'
<1>1. Answer(r) /\ UNCHANGED <<rows, env>> /\ UNCHANGED held
  BY DEF Timeout, Fail, LoseReply
<1>2. held' \subseteq Tokens
  BY <1>1 DEF TypeInv, TypeOK
<1> QED BY <1>1, <1>2, AnswerTyped

\* So do restarts, clocks and operators.
LEMMA EnvironmentTyped ==
    ASSUME TypeInv, Environment
    PROVE  TypeInv'
<1>1. CASE Restart
  <2>1. TypeOK'
    BY <1>1, NullsTyped DEF Restart, TypeInv, TypeOK, Labels, rows
  <2>2. \A q \in Requests : Carried(q)'
    BY <1>1, NoCallWellFormed DEF Restart, Carried, WellFormed
  <2> QED BY <2>1, <2>2 DEF TypeInv
<1>2. ASSUME UNCHANGED <<rows, held, call, pc, tx>>,
             userActive' \subseteq Users, clientActive' \subseteq Clients,
             expired' \subseteq Tokens, jwtExpired' \subseteq Sessions
      PROVE  TypeInv'
  BY <1>2 DEF TypeInv, TypeOK, Carried, WellFormed, rows
<1>3. CASE \E t \in Tokens : Expire(t)
  BY <1>2, <1>3 DEF Expire, TypeInv, TypeOK
<1>4. CASE \E s \in Sessions : ExpireAccess(s)
  BY <1>2, <1>4 DEF ExpireAccess, TypeInv, TypeOK
<1>5. CASE \E u \in Users : Suspend(u)
  BY <1>2, <1>5 DEF Suspend, TypeInv, TypeOK
<1>6. CASE \E c \in Clients : Deactivate(c)
  BY <1>2, <1>6 DEF Deactivate, TypeInv, TypeOK
<1> QED BY <1>1, <1>3, <1>4, <1>5, <1>6 DEF Environment

\* Every step of the server, or of its environment, keeps types and routes.
LEMMA NextTyped ==
    ASSUME TypeInv, [Next]_vars
    PROVE  TypeInv'
<1>1. CASE UNCHANGED vars
  BY <1>1 DEF vars, TypeInv, TypeOK, Carried, WellFormed
<1>2. CASE Next
  BY <1>2, RequestTyped, HandleTyped, CutTyped, EnvironmentTyped DEF Next
<1> QED BY <1>1, <1>2

\* Types and routes are right when nothing has happened yet.
LEMMA InitTyped == Init => TypeInv
<1> SUFFICES ASSUME Init PROVE TypeInv
  OBVIOUS
<1>1. TypeOK
  BY NullsTyped DEF Init, TypeOK, Labels
<1>2. \A q \in Requests : Carried(q)
  BY NoCallWellFormed DEF Init, Carried
<1> QED BY <1>1, <1>2 DEF TypeInv

\* In every reachable state the tables and the requests' local state have the
\* types the code gives them, for any sets of users, clients and requests.
THEOREM TypeCorrect == Spec => []TypeOK
<1>1. Spec => []TypeInv
  BY InitTyped, NextTyped, PTL DEF Spec
<1>2. TypeInv => TypeOK
  BY DEF TypeInv
<1> QED BY <1>1, <1>2, PTL
=============================================================================

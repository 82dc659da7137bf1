-------------------------- MODULE AuthServer_fitness --------------------------
(***************************************************************************)
(* No request succeeds on what was unusable when it arrived.  The argument *)
(* has two halves.  Unfitness is permanent: what expired stays expired,    *)
(* what is spent stays spent, the rows keep their owners, and no code      *)
(* reinstates a user or a client.  And every role that a request presents  *)
(* is tested by one of nine statements, later than it arrived: so a role   *)
(* that was unfit then is unfit at its test, and the request is answered   *)
(* with an error.                                                          *)
(***************************************************************************)
EXTENDS AuthServer_proofs

\* The statements that test what the request presents.
Testing == {"auth", "session", "code", "lookup", "read"}

\* What the environment never does: it revives no principal and no token.
OnlyGetsWorse ==
    /\ userActive' \subseteq userActive
    /\ clientActive' \subseteq clientActive
    /\ expired \subseteq expired'
    /\ jwtExpired \subseteq jwtExpired'

\* Handlers write no clock and no status, and operators and clocks only take
\* away (no code in the repository reinstates a user or a client).
LEMMA EnvironmentOnlyGetsWorse ==
    ASSUME [Next]_vars
    PROVE  OnlyGetsWorse
<1> USE DEF OnlyGetsWorse
<1>1. ASSUME UNCHANGED env
      PROVE  OnlyGetsWorse
  BY <1>1 DEF env
<1>2. ASSUME NEW r \in Requests, Request(r)
      PROVE  UNCHANGED env
  BY <1>2 DEF Request, Receive, LoginRequest, RefreshRequest, LogoutRequest,
              LogoutAllRequest, ClientCredentialsRequest, ClientRefreshRequest,
              RedeemRequest, RevokeRequest, IntrospectRequest, ApproveRequest
<1>3. ASSUME NEW r \in Requests, AuthStep(r)
      PROVE  UNCHANGED env
  BY <1>3 DEF AuthStep, SelectUser, RequireAuth, SelectSession, LogoutUpdate,
              LogoutAllScan, LogoutAllRow, Check
<1>4. ASSUME NEW r \in Requests, OAuthStep(r)
      PROVE  UNCHANGED env
  BY <1>4 DEF OAuthStep, Authenticate, SelectClientSession, SelectCode, UseCode,
              RevokeToken, Introspect, ValidateAuthorize, LookupSessionUser,
              IssueAuthorizationCode, Check
<1>5. ASSUME NEW r \in Requests, Handle(r)
      PROVE  UNCHANGED env
  BY <1>3, <1>4, <1>5
     DEF Handle, RotateOut, CreateSession, AuditLog, Commit, Reply
<1>6. ASSUME NEW r \in Requests, Timeout(r) \/ Fail(r) \/ LoseReply(r)
      PROVE  UNCHANGED env
  BY <1>6 DEF Timeout, Fail, LoseReply
<1>7. ASSUME Environment
      PROVE  OnlyGetsWorse
  BY <1>7 DEF Environment, Restart, Expire, ExpireAccess, Suspend, Deactivate
<1>8. CASE UNCHANGED vars
  BY <1>8 DEF vars
<1> QED BY <1>1, <1>2, <1>5, <1>6, <1>7, <1>8 DEF Next

\* A committed session keeps its principal, so a principal that is not active
\* never becomes so.
LEMMA PrincipalStaysInactive ==
    ASSUME WriteOnce, OnlyGetsWorse, TypeOK,
           NEW s \in Sessions, Committed(s), ~PrincipalActive(s)
    PROVE  /\ ~PrincipalActive(s)'
           /\ session[s].user \notin userActive => session'[s].user \notin userActive'
<1>1. session'[s].user = session[s].user /\ session'[s].client = session[s].client
  BY DEF WriteOnce, TypeOK, SessionRow
<1> QED BY <1>1 DEF PrincipalActive, OnlyGetsWorse

\* A request that is still there is as unfit as it was.
LEMMA UnfitForGood ==
    ASSUME IInv, WriteOnce, OnlyGetsWorse, NEW r \in Requests,
           call'[r] = call[r], StaysUnfit(r)
    PROVE  StaysUnfit(r)'
<1> DEFINE c == call[r]
<1>0. /\ c \in Call /\ WellFormed(c) /\ Presented(r) /\ TypeOK
  BY Here DEF IInv
<1>1. SUFFICES ASSUME NEW x \in c.dead, Unfit(c, x)
               PROVE  Unfit(call[r], x)'
  BY DEF StaysUnfit
<1>2. CASE x = "user" /\ c.user # None /\ c.user \notin userActive
  BY <1>2 DEF Unfit, OnlyGetsWorse
<1>3. CASE x = "client" /\ c.client # None /\ c.client \notin clientActive
  BY <1>3 DEF Unfit, OnlyGetsWorse
<1>4. CASE x = "bearer" /\ BearerUnfit(c)
  <2>1. c.bearer # None /\ c.bearer \in Sessions /\ Committed(c.bearer)
    BY <1>0, <1>4 DEF BearerUnfit, Presented, Call
  <2>2. /\ c.bearer \in jwtExpired \cup expired =>
             c.bearer \in jwtExpired' \cup expired'
        /\ Spent(c.bearer) => Spent(c.bearer)'
        /\ ~PrincipalActive(c.bearer) => ~PrincipalActive(c.bearer)'
    BY <1>0, <2>1, PrincipalStaysInactive DEF OnlyGetsWorse, WriteOnce, Tokens
  <2>3. /\ Spent(call[r].bearer)' = Spent(c.bearer)'
        /\ PrincipalActive(call[r].bearer)' = PrincipalActive(c.bearer)'
    BY DEF Spent, PrincipalActive
  <2>4. BearerUnfit(call[r])'
    BY <1>4, <2>1, <2>2, <2>3 DEF BearerUnfit
  <2> QED BY <1>4, <2>4 DEF Unfit
<1>5. CASE x = "token" /\ TokenUnfit(c)
  <2>1. /\ c.token # None /\ c.op # "revoke"
        /\ c.token \in Tokens /\ Committed(c.token)
    BY <1>0, <1>5 DEF TokenUnfit, Presented, Call
  <2>2. /\ c.token \in expired => c.token \in expired'
        /\ Spent(c.token) => Spent(c.token)'
    BY <2>1 DEF OnlyGetsWorse, WriteOnce
  <2>3. ASSUME c.op \in {"refresh", "clientRefresh"}, ~PrincipalActive(c.token)
        PROVE  ~PrincipalActive(c.token)'
    BY <1>0, <2>1, <2>3, PrincipalStaysInactive DEF WellFormed
  <2>4. ASSUME c.op = "approve", session[c.token].user \notin userActive
        PROVE  session'[c.token].user \notin userActive'
    BY <1>0, <2>1, <2>4 DEF WellFormed, WriteOnce, OnlyGetsWorse, TypeOK, SessionRow
  <2>5. ASSUME c.op = "redeem", code[c.token].user \notin userActive
        PROVE  code'[c.token].user \notin userActive'
    BY <1>0, <2>1, <2>5 DEF WellFormed, WriteOnce, OnlyGetsWorse, TypeOK, CodeRow
  <2>6. TokenUnfit(call[r])'
    BY <1>5, <2>1, <2>2, <2>3, <2>4, <2>5 DEF TokenUnfit
  <2> QED BY <1>5, <2>6 DEF Unfit
<1> QED BY <1>1, <1>2, <1>3, <1>4, <1>5 DEF Unfit

\* A statement that tests nothing adds nothing to what its request has passed.
LEMMA UntestedPass ==
    ASSUME NEW r \in Requests, PassedFit(r), pc[r] \notin Testing,
           call'[r] = call[r]
    PROVE  PassedFit(r)'
BY DEF PassedFit, Testing

\* A request that was answered presents nothing.
LEMMA NothingPresented ==
    ASSUME NEW r \in Requests, call'[r] = NoCall
    PROVE  StaysUnfit(r)' /\ PassedFit(r)'
<1>1. NoCall.dead = {} /\ NoCall.bearer = None
  BY DEF NoCall
<1> QED BY <1>1 DEF StaysUnfit, PassedFit

\* A request arrives with exactly its unfit roles recorded.
LEMMA ReceivedUnfit ==
    ASSUME IInv, NEW r \in Requests, Request(r)
    PROVE  StaysUnfit(r)' /\ PassedFit(r)'
<1>1. TypeInv /\ call \in [Requests -> Call] /\ pc \in [Requests -> Labels]
  BY DEF IInv, TypeInv, TypeOK, RequestInv
<1>2. PICK d \in Call : Receive(r, d) /\ WellFormed(d) /\ OnRoute(d.op, "auth")
  BY <1>1, RequestReceives
<1> DEFINE x == {y \in Roles : Unfit(d, y)}
           c == [d EXCEPT !.dead = x]
<1>3. /\ call'[r] = c /\ pc'[r] = "auth" /\ UNCHANGED rows /\ UNCHANGED env
      /\ c.op = d.op /\ c.bearer = d.bearer /\ c.token = d.token
      /\ c.user = d.user /\ c.client = d.client /\ c.dead = x
  BY <1>1, <1>2 DEF Receive, Call
<1>4. ASSUME NEW y \in x
      PROVE  Unfit(call[r], y)'
  <2>1. Unfit(d, y)
    BY <1>4
  <2>2. /\ session' = session /\ code' = code /\ userActive' = userActive
        /\ clientActive' = clientActive /\ expired' = expired
        /\ jwtExpired' = jwtExpired
    BY <1>3 DEF rows, env
  <2> HIDE DEF c, x
  <2> QED BY <1>3, <2>1, <2>2
          DEF Unfit, BearerUnfit, TokenUnfit, Spent, PrincipalActive
<1>5. StaysUnfit(r)'
  BY <1>3, <1>4 DEF StaysUnfit
<1>6. PassedFit(r)'
  BY <1>3 DEF PassedFit
<1> QED BY <1>5, <1>6

\* A statement that lets its request go on to `label`, or answers it.
GoesOn(r, label) ==
    \/ call'[r] = call[r] /\ pc'[r] = label
    \/ call'[r] = NoCall /\ pc'[r] = "idle"

\* What a query tests, and where it goes on to.
LEMMA CheckGoesOn ==
    ASSUME TypeOK, NEW r \in Requests, NEW STATE ok, NEW STATE label, NEW STATE t,
           Check(r, ok, label, t)
    PROVE  GoesOn(r, label) /\ (call'[r] = NoCall \/ ok)
BY DEF Check, Advance, Answer, TypeOK, GoesOn

\* The nine statements that test something let only fit requests pass:
\* SelectUser, RequireAuth and the refresh query of service.go, client
\* authentication, the three grants' queries and introspection of
\* oauth_service.go, ValidateAuthorize and LookupSessionUser.
LEMMA TestsPass ==
    ASSUME IInv, NEW r \in Requests, StaysUnfit(r), PassedFit(r),
           \/ SelectUser(r) \/ RequireAuth(r) \/ SelectSession(r)
           \/ Authenticate(r) \/ SelectClientSession(r) \/ SelectCode(r)
           \/ Introspect(r) \/ ValidateAuthorize(r) \/ LookupSessionUser(r)
    PROVE  call'[r] = NoCall \/ (call'[r] = call[r] /\ PassedFit(r)')
<1> DEFINE c == call[r]
<1>0. /\ c \in Call /\ WellFormed(c) /\ OnRoute(c.op, pc[r]) /\ TypeOK
      /\ \A x \in c.dead : Unfit(c, x)
      /\ None \notin Sessions /\ None \notin Codes /\ Sessions \cap Codes = {}
  BY Here, StoreAssumption DEF IInv, StaysUnfit
<1> USE DEF Unfit, PassedFit
<1>1. CASE SelectUser(r)
  <2>1. /\ pc[r] = "auth" /\ c.op = "login"
        /\ GoesOn(r, "mint")
        /\ call'[r] = NoCall \/ c.user \in userActive
    BY <1>0, <1>1, CheckGoesOn DEF SelectUser
  <2>2. c.bearer = None /\ c.token = None /\ c.client = None
    BY <1>0, <2>1 DEF WellFormed, ClientEndpoints, BearerEndpoints
  <2> QED BY <1>0, <2>1, <2>2 DEF GoesOn, BearerUnfit, TokenUnfit
<1>2. CASE RequireAuth(r)
  <2>1. /\ pc[r] = "auth" /\ c.op \in BearerEndpoints
        /\ GoesOn(r, AfterAuth(c.op))
        /\ call'[r] = NoCall \/ Authenticated(c.bearer)
    BY <1>0, <1>2, CheckGoesOn DEF RequireAuth
  <2>2. c.user = None /\ c.client = None /\ c.bearer \in Sessions
    BY <1>0, <2>1 DEF WellFormed, ClientEndpoints, BearerEndpoints
  <2>3. \/ c.op = "refresh" /\ AfterAuth(c.op) = "session"
        \/ c.op \in {"logout", "logoutAll"} /\ c.token = None
    BY <1>0, <2>1 DEF BearerEndpoints, WellFormed, AfterAuth
  <2>4. Authenticated(c.bearer) => ~BearerUnfit(c)
    BY <1>0, <2>2 DEF Authenticated, Live, BearerUnfit, Spent
  <2> QED BY <1>0, <2>1, <2>2, <2>3, <2>4 DEF GoesOn, TokenUnfit
<1>3. CASE SelectSession(r)
  <2>1. /\ pc[r] = "session" /\ c.op = "refresh"
        /\ GoesOn(r, "rotate")
        /\ call'[r] = NoCall \/ Refreshable(c.token)
    BY <1>0, <1>3, CheckGoesOn DEF SelectSession
  <2>2. c.token \in Sessions
    BY <1>0, <2>1 DEF WellFormed
  <2>3. Refreshable(c.token) => ~TokenUnfit(c)
    BY <1>0, <2>1, <2>2 DEF Refreshable, Live, TokenUnfit, Spent
  <2> QED BY <1>0, <2>1, <2>3 DEF GoesOn
<1>4. CASE Authenticate(r)
  <2>1. /\ pc[r] = "auth" /\ c.op \in ClientEndpoints
        /\ GoesOn(r, AfterClient(c.op))
        /\ call'[r] = NoCall \/ c.client \in clientActive
    BY <1>0, <1>4, CheckGoesOn DEF Authenticate
  <2>2. /\ c.user = None
        /\ c.op # "introspect" => c.bearer = None
        /\ c.op = "clientCredentials" => c.token = None
    BY <1>0, <2>1 DEF WellFormed, ClientEndpoints, BearerEndpoints
  <2>3. \/ c.op = "clientRefresh" /\ AfterClient(c.op) = "session"
        \/ c.op = "redeem" /\ AfterClient(c.op) = "code"
        \/ c.op = "introspect" /\ AfterClient(c.op) = "read"
        \/ c.op \in {"clientCredentials", "revoke"}
    BY <2>1 DEF ClientEndpoints, AfterClient
  <2> QED BY <1>0, <2>1, <2>2, <2>3 DEF GoesOn, BearerUnfit, TokenUnfit
<1>5. CASE SelectClientSession(r)
  <2> DEFINE ok == /\ Live(c.token)
                   /\ session[c.token].client = c.client
                   /\ session[c.token].client \in clientActive
  <2>1. /\ pc[r] = "session" /\ c.op = "clientRefresh"
        /\ GoesOn(r, "rotate")
        /\ call'[r] = NoCall \/ ok
    BY <1>0, <1>5, CheckGoesOn DEF SelectClientSession
  <2>2. c.token \in Sessions /\ c.client # None
    BY <1>0, <2>1 DEF WellFormed, ClientEndpoints
  <2>3. ok => ~TokenUnfit(c)
    BY <1>0, <2>1, <2>2 DEF Live, TokenUnfit, Spent, PrincipalActive
  <2> QED BY <1>0, <2>1, <2>3 DEF GoesOn
<1>6. CASE SelectCode(r)
  <2> DEFINE ok == /\ code[c.token].st = "unused"
                   /\ c.token \notin expired
                   /\ code[c.token].user \in userActive
  <2>1. pc[r] = "code" /\ c.op = "redeem"
    BY <1>0, <1>6 DEF SelectCode, OnRoute
  <2>2. /\ GoesOn(r, "use")
        /\ call'[r] = NoCall \/ ok
    BY <1>0, <1>6, CheckGoesOn DEF SelectCode
  <2>3. c.token \in Codes
    BY <1>0, <2>1 DEF WellFormed
  <2>4. ok => ~TokenUnfit(c)
    BY <1>0, <2>1, <2>3 DEF TokenUnfit, Spent
  <2> QED BY <1>0, <2>1, <2>2, <2>4 DEF GoesOn
<1>7. CASE Introspect(r)
  <2>1. /\ pc[r] = "read" /\ c.op = "introspect"
        /\ GoesOn(r, "reply")
        /\ call'[r] = NoCall \/ IntrospectsActive(c)
    BY <1>0, <1>7, CheckGoesOn DEF Introspect, OnRoute
  <2>2. \/ c.bearer \in Sessions /\ c.bearer # None /\ c.token = None
        \/ c.bearer = None /\ c.token \in Sessions
    BY <1>0, <2>1 DEF WellFormed
  <2>3. IntrospectsActive(c) => ~BearerUnfit(c) /\ ~TokenUnfit(c)
    BY <1>0, <2>1, <2>2
       DEF IntrospectsActive, Live, BearerUnfit, TokenUnfit, Spent, BearerEndpoints
  <2> QED BY <1>0, <2>1, <2>3 DEF GoesOn
<1>8. CASE ValidateAuthorize(r)
  <2>1. /\ pc[r] = "auth" /\ c.op = "approve"
        /\ GoesOn(r, "lookup")
        /\ call'[r] = NoCall \/ c.client \in clientActive
    BY <1>0, <1>8, CheckGoesOn DEF ValidateAuthorize
  <2>2. c.user = None /\ c.bearer = None
    BY <1>0, <2>1 DEF WellFormed, BearerEndpoints
  <2> QED BY <1>0, <2>1, <2>2 DEF GoesOn, BearerUnfit
<1>9. CASE LookupSessionUser(r)
  <2> DEFINE ok == Live(c.token) /\ session[c.token].user \in userActive
  <2>1. /\ pc[r] = "lookup" /\ c.op = "approve"
        /\ GoesOn(r, "issue")
        /\ call'[r] = NoCall \/ ok
    BY <1>0, <1>9, CheckGoesOn DEF LookupSessionUser, OnRoute
  <2>2. c.token \in Sessions
    BY <1>0, <2>1 DEF WellFormed
  <2>3. ok => ~TokenUnfit(c)
    BY <1>0, <2>1, <2>2 DEF Live, TokenUnfit, Spent
  <2> QED BY <1>0, <2>1, <2>3 DEF GoesOn
<1> QED BY <1>1, <1>2, <1>3, <1>4, <1>5, <1>6, <1>7, <1>8, <1>9

\* The other statements test nothing, and a response ends the request.
LEMMA OthersPass ==
    ASSUME IInv, NEW r \in Requests, PassedFit(r),
           \/ LogoutUpdate(r) \/ LogoutAllScan(r) \/ LogoutAllRow(r)
           \/ UseCode(r) \/ RevokeToken(r) \/ IssueAuthorizationCode(r)
           \/ RotateOut(r) \/ CreateSession(r) \/ AuditLog(r)
           \/ Commit(r) \/ Reply(r)
           \/ Timeout(r) \/ Fail(r) \/ LoseReply(r)
    PROVE  call'[r] = NoCall \/ (call'[r] = call[r] /\ PassedFit(r)')
<1>0. call \in [Requests -> Call] /\ pc \in [Requests -> Labels]
  BY DEF IInv, TypeOK
<1>1. CASE LogoutUpdate(r) \/ LogoutAllScan(r) \/ LogoutAllRow(r)
  <2>1. pc[r] \in {"logout", "scan", "rows"}
    BY <1>1 DEF LogoutUpdate, LogoutAllScan, LogoutAllRow
  <2>2. call'[r] = NoCall \/ call'[r] = call[r]
    BY <1>0, <1>1 DEF LogoutUpdate, LogoutAllScan, LogoutAllRow, Check, Advance, Answer
  <2> QED BY <2>1, <2>2, UntestedPass DEF Testing
<1>2. CASE UseCode(r) \/ RevokeToken(r) \/ IssueAuthorizationCode(r)
  <2>1. pc[r] \in {"use", "kill", "issue"}
    BY <1>2 DEF UseCode, RevokeToken, IssueAuthorizationCode
  <2>2. call'[r] = NoCall \/ call'[r] = call[r]
    BY <1>0, <1>2 DEF UseCode, RevokeToken, IssueAuthorizationCode, Advance, Answer
  <2> QED BY <2>1, <2>2, UntestedPass DEF Testing
<1>3. CASE RotateOut(r) \/ CreateSession(r) \/ AuditLog(r) \/ Commit(r)
  <2>1. pc[r] \in {"rotate", "mint", "audit", "rows", "commit"}
    BY <1>3 DEF RotateOut, CreateSession, AuditLog, Commit
  <2>2. call'[r] = NoCall \/ call'[r] = call[r]
    BY <1>0, <1>3 DEF RotateOut, CreateSession, AuditLog, Commit, Advance, Answer
  <2> QED BY <2>1, <2>2, UntestedPass DEF Testing
<1>4. CASE Reply(r) \/ Timeout(r) \/ Fail(r) \/ LoseReply(r)
  BY <1>0, <1>4 DEF Reply, Timeout, Fail, LoseReply, Answer
<1> QED BY <1>1, <1>2, <1>3, <1>4

\* A step of one request leaves what the others carry, and where they are.
LEMMA OneMoves ==
    ASSUME IInv, NEW r \in Requests,
           \/ Request(r) \/ Handle(r)
           \/ Timeout(r) \/ Fail(r) \/ LoseReply(r),
           NEW q \in Requests, q # r
    PROVE  call'[q] = call[q] /\ pc'[q] = pc[q]
<1>1. /\ call \in [Requests -> Call] /\ pc \in [Requests -> Labels]
      /\ tx \in [Requests -> Tx]
  BY DEF IInv, TypeOK
<1>2. ASSUME NEW d \in Call, Receive(r, d)
      PROVE  call'[q] = call[q] /\ pc'[q] = pc[q]
  BY <1>1, <1>2 DEF Receive
<1>3. CASE Request(r)
  <2>1. TypeInv
    BY DEF IInv, TypeInv, RequestInv
  <2> QED BY <1>2, <1>3, <2>1, RequestReceives
<1>4. CASE AuthStep(r)
  BY <1>1, <1>4 DEF AuthStep, SelectUser, RequireAuth, SelectSession, LogoutUpdate,
                    LogoutAllScan, LogoutAllRow, Check, Advance, Answer
<1>5. CASE OAuthStep(r)
  BY <1>1, <1>5 DEF OAuthStep, Authenticate, SelectClientSession, SelectCode, UseCode,
                    RevokeToken, Introspect, ValidateAuthorize, LookupSessionUser,
                    IssueAuthorizationCode, Check, Advance, Answer
<1>6. CASE Handle(r)
  BY <1>1, <1>4, <1>5, <1>6
     DEF Handle, RotateOut, CreateSession, AuditLog, Commit, Reply, Advance, Answer
<1>7. CASE Timeout(r) \/ Fail(r) \/ LoseReply(r)
  BY <1>1, <1>7 DEF Timeout, Fail, LoseReply, Answer
<1> QED BY <1>3, <1>6, <1>7

\* Every step keeps what every request knows of its fitness.
LEMMA NextFit ==
    ASSUME IInv, FitInv, [Next]_vars
    PROVE  FitInv'
<1>1. WriteOnce /\ OnlyGetsWorse
  BY RowsAreWriteOnce, EnvironmentOnlyGetsWorse
<1>2. ASSUME NEW q \in Requests, call'[q] = call[q], pc'[q] = pc[q]
      PROVE  StaysUnfit(q)' /\ PassedFit(q)'
  BY <1>1, <1>2, UnfitForGood DEF FitInv, PassedFit
<1>3. ASSUME NEW r \in Requests,
             \/ Request(r) \/ Handle(r)
             \/ Timeout(r) \/ Fail(r) \/ LoseReply(r)
      PROVE  FitInv'
  <2>1. CASE Request(r)
    BY <1>2, <2>1, ReceivedUnfit, OneMoves DEF FitInv
  <2>2. CASE Handle(r) \/ Timeout(r) \/ Fail(r) \/ LoseReply(r)
    <3>1. call'[r] = NoCall \/ (call'[r] = call[r] /\ PassedFit(r)')
      BY <2>2, TestsPass, OthersPass DEF FitInv, Handle, AuthStep, OAuthStep
    <3>2. StaysUnfit(r)' /\ PassedFit(r)'
      BY <1>1, <3>1, UnfitForGood, NothingPresented DEF FitInv
    <3> QED BY <1>2, <2>2, <3>2, OneMoves DEF FitInv
  <2> QED BY <1>3, <2>1, <2>2
<1>4. CASE Environment
  <2>1. (\A q \in Requests : call'[q] = NoCall) \/ UNCHANGED <<call, pc>>
    BY <1>4 DEF Environment, Restart, Expire, ExpireAccess, Suspend, Deactivate
  <2> QED BY <1>2, <2>1, NothingPresented DEF FitInv
<1>5. CASE UNCHANGED vars
  BY <1>2, <1>5 DEF vars, FitInv
<1> QED BY <1>3, <1>4, <1>5 DEF Next

\* What a request presents unfit stays unfit, and is still there at its test.
THEOREM FitnessInvariant == Spec => []FitInv
<1>1. Init => FitInv
  <2> SUFFICES ASSUME Init PROVE FitInv
    OBVIOUS
  <2>1. \A r \in Requests : call[r] = NoCall
    BY DEF Init
  <2>2. NoCall.dead = {}
    BY DEF NoCall
  <2> QED BY <2>1, <2>2 DEF FitInv, StaysUnfit, PassedFit
<1>2. IInv /\ FitInv /\ [Next]_vars => FitInv'
  BY NextFit
<1> QED BY <1>1, <1>2, Invariance, PTL DEF Spec

\* No request succeeds on a credential, a client or a user that was unusable
\* before it arrived: the tests of RequireAuth (middleware/auth.go:57),
\* ClientService.Authenticate and the grants' queries, early as they are, are
\* never overtaken by what was true already.
THEOREM DeadNeverServed == Spec => []DeadIsNeverServed
<1>1. IInv /\ FitInv => DeadIsNeverServed
  <2> SUFFICES ASSUME IInv, FitInv, NEW r \in Requests, pc[r] = "reply"
               PROVE  call[r].dead = {}
    BY DEF DeadIsNeverServed
  <2>1. call[r].dead \subseteq Roles
    BY Here DEF Call
  <2> QED BY <2>1 DEF FitInv, PassedFit, Roles
<1> QED BY <1>1, Invariance, FitnessInvariant, PTL
=============================================================================

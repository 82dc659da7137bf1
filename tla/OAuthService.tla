---------------------------- MODULE OAuthService ----------------------------
(***************************************************************************)
(* The endpoints for registered clients: the three grants of the token     *)
(* endpoint, revocation, introspection, and the approval of a consent form *)
(* that issues an authorization code.                                      *)
(***************************************************************************)
EXTENDS SessionStore

-----------------------------------------------------------------------------
(* Requests: a client presents tokens and codes that were delivered to       *)
(* someone, not always its own.                                              *)

ClientCredentialsRequest(r) ==
    \E c \in Clients, sc \in Scopes, ok \in BOOLEAN :
        Receive(r, [NoCall EXCEPT !.op = "clientCredentials", !.client = c,
                                  !.scope = sc, !.proof = ok])

ClientRefreshRequest(r) ==
    \E c \in Clients, t \in held \cap Sessions, ok \in BOOLEAN :
        Receive(r, [NoCall EXCEPT !.op = "clientRefresh", !.client = c,
                                  !.token = t, !.proof = ok])

RedeemRequest(r) ==
    \E c \in Clients, t \in held \cap Codes, ok \in BOOLEAN :
        Receive(r, [NoCall EXCEPT !.op = "redeem", !.client = c,
                                  !.token = t, !.proof = ok])

RevokeRequest(r) ==
    \E c \in Clients, t \in held \cap Sessions, ok \in BOOLEAN :
        Receive(r, [NoCall EXCEPT !.op = "revoke", !.client = c,
                                  !.token = t, !.proof = ok])

\* The token is tried as an access token, then as a refresh token.
IntrospectRequest(r) ==
    \E c \in Clients, t \in held \cap Sessions, ok \in BOOLEAN :
        \/ Receive(r, [NoCall EXCEPT !.op = "introspect", !.client = c,
                                     !.bearer = t, !.proof = ok])
        \/ Receive(r, [NoCall EXCEPT !.op = "introspect", !.client = c,
                                     !.token = t, !.proof = ok])

\* POST /v1/oauth/approve with the browser's refresh-token cookie.
ApproveRequest(r) ==
    \E c \in Clients, t \in held \cap Sessions, sc \in Scopes, ok \in BOOLEAN :
        Receive(r, [NoCall EXCEPT !.op = "approve", !.client = c, !.token = t,
                                  !.scope = sc, !.proof = ok])

-----------------------------------------------------------------------------
(* Client authentication *)

AfterClient(op) == CASE op = "clientCredentials" -> "mint"
                     [] op = "clientRefresh"     -> "session"
                     [] op = "redeem"            -> "code"
                     [] op = "revoke"            -> "kill"
                     [] op = "introspect"        -> "read"

\* The client's row is read once, before the grant's transaction, and is
\* what the grant then works with.  redirect URI and PKCE verifier are
\* tested by SelectCode, so a redeeming client's `proof` waits until then.
Authenticate(r) ==
    /\ pc[r] = "auth"
    /\ call[r].op \in ClientEndpoints
    /\ Check(r,
             /\ call[r].client \in clientActive
             /\ call[r].op # "redeem" => call[r].proof,
             AfterClient(call[r].op),
             [tx[r] EXCEPT !.client = call[r].client, !.scope = call[r].scope])

-----------------------------------------------------------------------------
(* The grants *)

\* tokenRefresh: the session must belong to this client, active still.
SelectClientSession(r) ==
    /\ pc[r] = "session"
    /\ call[r].op = "clientRefresh"
    /\ LET t == call[r].token IN
       Check(r,
             /\ Live(t)
             /\ session[t].client = call[r].client
             /\ session[t].client \in clientActive,
             "rotate",
             [tx[r] EXCEPT !.user = session[t].user,
                           !.scope = session[t].scope])

\* Mutants: the code's scope is not read, or its `used` flag is not asked.
SelectCodeUnscoped(r) ==
    /\ pc[r] = "code"
    /\ LET c == call[r].token IN
       Check(r,
             /\ code[c].st = "unused"
             /\ c \notin expired
             /\ code[c].client = call[r].client
             /\ code[c].user \in userActive
             /\ call[r].proof,
             "use",
             [tx[r] EXCEPT !.user = code[c].user])
SelectCodeReplayed(r) ==
    /\ pc[r] = "code"
    /\ LET c == call[r].token IN
       Check(r,
             /\ c \notin expired
             /\ code[c].client = call[r].client
             /\ code[c].user \in userActive
             /\ call[r].proof,
             "use",
             [tx[r] EXCEPT !.user = code[c].user, !.scope = code[c].scope])

\* tokenAuthorizationCode: SELECT an unused, unexpired code of this client
\* whose user is active, then test redirect URI and PKCE verifier.
SelectCode(r) ==
    /\ pc[r] = "code"
    /\ LET c == call[r].token IN
       Check(r,
             /\ code[c].st = "unused"
             /\ c \notin expired
             /\ code[c].client = call[r].client
             /\ code[c].user \in userActive
             /\ call[r].proof,
             "use",
             [tx[r] EXCEPT !.user = code[c].user, !.scope = code[c].scope])

\* Mutant: the code is never marked.
UseCodeNever(r) ==
    /\ pc[r] = "use"
    /\ Advance(r, "mint", tx[r])
    /\ UNCHANGED <<rows, env, held>>

\* UPDATE authorization_codes SET used = true WHERE code_hash = $1: like the
\* rotation's UPDATE it does not ask whether the code is still unused.
UseCode(r) ==
    /\ pc[r] = "use"
    /\ ~Locked(r, call[r].token)
    /\ Advance(r, "mint", [tx[r] EXCEPT !.writes = @ \cup {call[r].token}])
    /\ UNCHANGED <<rows, env, held>>

-----------------------------------------------------------------------------
(* Revocation and introspection, each one statement outside a transaction *)

\* UPDATE sessions SET revoked = true WHERE refresh_token_hash = $1, whatever
\* client the session belongs to; nothing is logged.
RevokeToken(r) ==
    /\ pc[r] = "kill"
    /\ ~Locked(r, call[r].token)
    /\ session' = [session EXCEPT ![call[r].token].st = "revoked"]
    /\ Advance(r, "reply", tx[r])
    /\ UNCHANGED <<code, audit, env, held>>

\* "active" of an access token, or of a refresh token of the asking client.
IntrospectsActive(c) ==
    IF c.bearer # None
    THEN c.bearer \notin jwtExpired /\ Live(c.bearer)
    ELSE /\ Live(c.token)
         /\ session[c.token].client = c.client
         /\ c.client \in clientActive

\* A reply is the answer "active"; any other answer ends the request.
Introspect(r) ==
    /\ pc[r] = "read"
    /\ Check(r, IntrospectsActive(call[r]), "reply", tx[r])

-----------------------------------------------------------------------------
(* Approval of the consent form: three statements, each on its own *)

\* ValidateAuthorize: the client exists and is active; `proof` stands for its
\* redirect URI, scope and PKCE challenge, and for the decision.
ValidateAuthorize(r) ==
    /\ pc[r] = "auth"
    /\ call[r].op = "approve"
    /\ Check(r, call[r].client \in clientActive /\ call[r].proof, "lookup",
             [tx[r] EXCEPT !.client = call[r].client, !.scope = call[r].scope])

\* The cookie's session is live and has an active user: that user is logged
\* in.  Its client, if it has one, is not looked at.
LookupSessionUser(r) ==
    /\ pc[r] = "lookup"
    /\ LET t == call[r].token IN
       Check(r, Live(t) /\ session[t].user \in userActive, "issue",
             [tx[r] EXCEPT !.user = session[t].user])

\* INSERT INTO authorization_codes; with no identifier left it fails.
IssueAuthorizationCode(r) ==
    /\ pc[r] = "issue"
    /\ \/ \E c \in Codes :
            /\ code[c].st = "absent"
            /\ code' = [code EXCEPT ![c] =
                          [st |-> "unused", user |-> tx[r].user,
                           client |-> tx[r].client, scope |-> tx[r].scope]]
            /\ Advance(r, "reply", [tx[r] EXCEPT !.issues = c])
       \/ /\ ~(\E c \in Codes : code[c].st = "absent")
          /\ Answer(r)
          /\ UNCHANGED code
    /\ UNCHANGED <<session, audit, env, held>>

-----------------------------------------------------------------------------

OAuthRequest(r) ==
    \/ ClientCredentialsRequest(r)
    \/ ClientRefreshRequest(r)
    \/ RedeemRequest(r)
    \/ RevokeRequest(r)
    \/ IntrospectRequest(r)
    \/ ApproveRequest(r)

OAuthStep(r) ==
    \/ Authenticate(r)
    \/ SelectClientSession(r)
    \/ SelectCode(r)
    \/ UseCode(r)
    \/ RevokeToken(r)
    \/ Introspect(r)
    \/ ValidateAuthorize(r)
    \/ LookupSessionUser(r)
    \/ IssueAuthorizationCode(r)
=============================================================================

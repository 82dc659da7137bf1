---------------------------- MODULE AuthorizeFlow ----------------------------
(***************************************************************************)
(* The interactive authorization flow: an application sends a browser tab  *)
(* to the authorize endpoint, the user signs in if need be, reads the      *)
(* consent screen and answers it, and the tab is redirected.  Everything   *)
(* that the server knows of the flow travels in query and form values; the *)
(* tabs of the browser share one refresh-token cookie.                     *)
(*                                                                         *)
(* One action is one statement of a handler with the tests on its result,  *)
(* or one thing that the user does.                                        *)
(***************************************************************************)
EXTENDS Naturals

CONSTANTS
    Tabs, Users, Clients, URIs, Scopes, States,
    Challenges,         \* well-formed S256 challenges
    RedirectURIs,       \* the URIs registered for each client
    Allowed,            \* the scopes each client may ask for
    Absent,             \* no scope, or an empty one
    Malformed,          \* a challenge that validateCodeChallenge refuses
    None,
    MaxTrouble          \* bound of lapses and failures

ASSUME FlowAssumption ==
    /\ RedirectURIs \in [Clients -> SUBSET URIs]
    /\ Allowed \in [Clients -> SUBSET Scopes]
    /\ None \notin Users \cup Clients \cup URIs
    /\ Absent \notin SUBSET Scopes
    /\ Malformed \notin Challenges \cup {None}
    /\ MaxTrouble \in Nat

\* What a request carries.  The scope {} names nothing, as a blank does; `code`
\* says that response_type is "code".
Query ==
    [client : Clients \cup {None}, uri : URIs \cup {None},
     scope : (SUBSET Scopes) \cup {Absent}, state : States,
     challenge : Challenges \cup {None, Malformed}, code : BOOLEAN]

ASSUME RecordAssumption == None \notin Query \cup [q : Query, scope : SUBSET Scopes]

VARIABLES
    active,     \* the clients with active = true
    login,      \* the user whom the browser's cookie signs in, or None
    tab,        \* what each tab shows or waits for, and its handler's locals
    asked,      \* history: what the application asked for in this tab
    shown,      \* history: the last consent screen of the tab
    trouble     \* lapses and failures so far

vars == <<active, login, tab, asked, shown, trouble>>

Answers == {"code", "refused", "errorPage"}
Handlers == {"authorize", "authorizeLookup", "approve", "approveLookup",
             "issue", "rejected"}

Tab == [at : Answers \cup Handlers \cup {"app", "login", "consent"},
        q : Query \cup {None}, grant : SUBSET Scopes, user : Users \cup {None},
        agreed : BOOLEAN]

Consent == [q : Query, scope : SUBSET Scopes]

NewTab == [at |-> "app", q |-> None, grant |-> {}, user |-> None, agreed |-> FALSE]

Init ==
    /\ active = Clients
    /\ login \in Users \cup {None}
    /\ tab = [t \in Tabs |-> NewTab]
    /\ asked = [t \in Tabs |-> None]
    /\ shown = [t \in Tabs |-> None]
    /\ trouble = 0

Goto(t, place) == tab' = [tab EXCEPT ![t].at = place]

-----------------------------------------------------------------------------
(* The handlers *)

\* An absent scope asks for all that the client may have.
Granted(q) == IF q.scope = Absent THEN Allowed[q.client] ELSE q.scope

\* Mutant: the form is believed, since the consent screen was checked.
ValidUnlessForm(q) ==
    /\ q.client \in active
    /\ q.challenge # Malformed
    /\ q.code => /\ q.uri \in RedirectURIs[q.client]
                 /\ Granted(q) \subseteq Allowed[q.client]

Valid(q) ==
    /\ q.challenge # Malformed
    /\ q.client \in active
    /\ q.uri \in RedirectURIs[q.client]
    /\ Granted(q) \subseteq Allowed[q.client]

\* Mutant: the scope as requested.
PassAsRequested(t, place) ==
    tab' = [tab EXCEPT ![t].at = place, ![t].grant = tab[t].q.scope]

\* What ValidateAuthorize returns: the scope it grants.
Pass(t, place) ==
    tab' = [tab EXCEPT ![t].at = place, ![t].grant = Granted(tab[t].q)]

\* ValidateAuthorize in both handlers, and Authorize's test of response_type.
Validate(t) ==
    /\ tab[t].at \in {"authorize", "approve"}
    /\ \/ ~Valid(tab[t].q) /\ Goto(t, "rejected")
       \/ /\ Valid(tab[t].q)
          /\ tab[t].at = "authorize" /\ ~tab[t].q.code
          /\ Goto(t, "refused")
       \/ /\ Valid(tab[t].q)
          /\ tab[t].at = "authorize" => tab[t].q.code
          /\ Pass(t, IF tab[t].at = "authorize" THEN "authorizeLookup" ELSE "approveLookup")
    /\ UNCHANGED <<active, login, asked, shown, trouble>>

\* authorizeError: the second query finds the client whether active or not, and
\* redirects to whatever URI the request carried.
AuthorizeError(t) ==
    /\ tab[t].at = "rejected"
    /\ Goto(t, IF tab[t].q.client \in Clients /\ tab[t].q.uri # None
               THEN "refused" ELSE "errorPage")
    /\ UNCHANGED <<active, login, asked, shown, trouble>>

\* Mutants: the form omits the scope; the bounce omits the challenge.
FormScopeOmitted(scope) == Absent
BounceBare(q) == [q EXCEPT !.code = FALSE, !.challenge = None]

\* The consent form's hidden scope field; nothing granted leaves it empty.
FormScope(scope) == IF scope = {} THEN Absent ELSE scope

\* The form has no response_type, and the authorize URL that ConsentApprove's
\* bounce builds from it has none either.
Bounce(q) == [q EXCEPT !.code = FALSE]

\* renderConsent, or the login page with the URL as it came.
AuthorizeLookup(t) ==
    /\ tab[t].at = "authorizeLookup"
    /\ \/ /\ login = None
          /\ Goto(t, "login")
          /\ UNCHANGED shown
       \/ /\ login # None
          /\ tab' = [tab EXCEPT ![t].at = "consent",
                                ![t].q.scope = FormScope(tab[t].grant)]
          /\ shown' = [shown EXCEPT ![t] = [q |-> tab'[t].q, scope |-> tab[t].grant]]
    /\ UNCHANGED <<active, login, asked, trouble>>

\* Mutant: the decision is not tested.
ApproveLookupUndecided(t) ==
    /\ tab[t].at = "approveLookup"
    /\ \/ /\ login = None
          /\ tab' = [tab EXCEPT ![t].at = "login", ![t].q = Bounce(@)]
       \/ /\ login # None
          /\ tab' = [tab EXCEPT ![t].user = login, ![t].at = "issue"]
    /\ UNCHANGED <<active, login, asked, shown, trouble>>

\* The decision is tested once the user is known.
ApproveLookup(t) ==
    /\ tab[t].at = "approveLookup"
    /\ \/ /\ login = None
          /\ tab' = [tab EXCEPT ![t].at = "login", ![t].q = Bounce(@)]
       \/ /\ login # None
          /\ tab' = [tab EXCEPT ![t].user = login,
                                ![t].at = IF tab[t].agreed THEN "issue" ELSE "refused"]
    /\ UNCHANGED <<active, login, asked, shown, trouble>>

\* The code that the tab is redirected with: its row has the client, URI and
\* challenge of q, and user and grant.
Issue(t) ==
    /\ tab[t].at = "issue"
    /\ Goto(t, "code")
    /\ UNCHANGED <<active, login, asked, shown, trouble>>

\* A statement fails.  A failed lookup counts as signed out; authorizeError's own
\* failing shows the error page.
Fail(t) ==
    /\ trouble < MaxTrouble
    /\ trouble' = trouble + 1
    /\ tab[t].at \in Handlers
    /\ CASE tab[t].at \in {"authorize", "approve", "issue"} -> Goto(t, "rejected")
         [] tab[t].at = "authorizeLookup" -> Goto(t, "login")
         [] tab[t].at = "approveLookup" ->
              tab' = [tab EXCEPT ![t].at = "login", ![t].q = Bounce(@)]
         [] tab[t].at = "rejected" -> Goto(t, "errorPage")
    /\ UNCHANGED <<active, login, asked, shown>>

Handle(t) ==
    Validate(t) \/ AuthorizeError(t) \/ AuthorizeLookup(t) \/ ApproveLookup(t) \/ Issue(t)

-----------------------------------------------------------------------------
(* The user, the applications, the world *)

\* An application sends the tab to the authorize endpoint.
Open(t, q) ==
    /\ tab[t].at = "app"
    /\ tab' = [tab EXCEPT ![t].at = "authorize", ![t].q = q]
    /\ asked' = [asked EXCEPT ![t] = q]
    /\ UNCHANGED <<active, login, shown, trouble>>

\* A form that no consent screen rendered.
PostForm(t, q) ==
    /\ tab[t].at = "app"
    /\ ~q.code
    /\ tab' = [tab EXCEPT ![t].at = "approve", ![t].q = q, ![t].agreed = TRUE]
    /\ UNCHANGED <<active, login, asked, shown, trouble>>

\* The tab goes on to something else.
Leave(t) ==
    /\ tab[t].at \in Answers
    /\ tab' = [tab EXCEPT ![t] = NewTab]
    /\ asked' = [asked EXCEPT ![t] = None]
    /\ shown' = [shown EXCEPT ![t] = None]
    /\ UNCHANGED <<active, login, trouble>>

\* Mutant: the cookie is not set.
LoginSubmitWithoutCookie(t, u) ==
    /\ tab[t].at = "login"
    /\ Goto(t, "authorize")
    /\ UNCHANGED <<active, login, asked, shown, trouble>>

\* The user signs in, as u, and is sent back to the authorize URL.  Refused
\* credentials leave the page as it is.
LoginSubmit(t, u) ==
    /\ tab[t].at = "login"
    /\ login' = u
    /\ Goto(t, "authorize")
    /\ UNCHANGED <<active, asked, shown, trouble>>

\* The consent form: what it carries, without a response_type.
Decide(t, agreed) ==
    /\ tab[t].at = "consent"
    /\ tab' = [tab EXCEPT ![t].at = "approve", ![t].agreed = agreed,
                          ![t].q = Bounce(@)]
    /\ UNCHANGED <<active, login, asked, shown, trouble>>

\* Back to the consent screen, from the page that answered it.
Back(t) ==
    /\ tab[t].at \in Answers
    /\ shown[t] # None
    /\ tab' = [tab EXCEPT ![t].at = "consent", ![t].q = shown[t].q]
    /\ UNCHANGED <<active, login, asked, shown, trouble>>

\* The session behind the cookie ends, or the user is suspended.
Lapse ==
    /\ trouble < MaxTrouble
    /\ trouble' = trouble + 1
    /\ login' = None
    /\ UNCHANGED <<active, tab, asked, shown>>

\* The first-party login, which sets the same cookie.
LoginElsewhere(u) ==
    /\ login' = u
    /\ UNCHANGED <<active, tab, asked, shown, trouble>>

Deactivate(c) ==
    /\ trouble < MaxTrouble
    /\ trouble' = trouble + 1
    /\ c \in active
    /\ active' = active \ {c}
    /\ UNCHANGED <<login, tab, asked, shown>>

User(t) ==
    \/ \E u \in Users : LoginSubmit(t, u)
    \/ \E agreed \in BOOLEAN : Decide(t, agreed)

Next ==
    \/ \E t \in Tabs : Handle(t) \/ User(t) \/ Back(t) \/ Leave(t) \/ Fail(t)
    \/ \E t \in Tabs : \E q \in Query : Open(t, q) \/ PostForm(t, q)
    \/ Lapse
    \/ \E u \in Users : LoginElsewhere(u)
    \/ \E c \in Clients : Deactivate(c)

Spec == Init /\ [][Next]_vars

\* Handlers finish; the user signs in and answers the consent screen.
FairSpec == Spec /\ \A t \in Tabs : WF_vars(Handle(t)) /\ WF_vars(User(t))

-----------------------------------------------------------------------------
(* Properties *)

TypeOK ==
    /\ active \subseteq Clients
    /\ login \in Users \cup {None}
    /\ tab \in [Tabs -> Tab]
    /\ asked \in [Tabs -> Query \cup {None}]
    /\ shown \in [Tabs -> Consent \cup {None}]
    /\ trouble \in 0..MaxTrouble

\* Whatever was posted, and whenever client and login lapsed: a code goes to a URI
\* registered for its client, grants what the client may have to a user who was
\* signed in, and records no malformed challenge.
CodesAreRegistered ==
    \A t \in Tabs : tab[t].at = "code" =>
        /\ tab[t].q.client \in Clients
        /\ tab[t].q.uri \in RedirectURIs[tab[t].q.client]
        /\ tab[t].grant \subseteq Allowed[tab[t].q.client]
        /\ tab[t].q.challenge # Malformed
        /\ tab[t].user \in Users

\* In a flow that an application began, no code without a consent screen, and it
\* grants what the screen listed.  A screen that listed nothing is the exception:
\* its empty field asks for everything.
ConsentIsWhatIsGranted ==
    \A t \in Tabs : tab[t].at = "code" /\ asked[t] # None =>
        /\ shown[t] # None
        /\ \/ tab[t].grant = shown[t].scope
           \/ shown[t].scope = {} /\ tab[t].grant = Allowed[tab[t].q.client]

\* q asks for the same as a, but for the response type.
SameRequest(q, a) ==
    /\ q.client = a.client /\ q.uri = a.uri
    /\ q.state = a.state /\ q.challenge = a.challenge
    /\ (a.client \in Clients /\ a.scope # {}) => Granted(q) = Granted(a)

\* The login page, the bounce of the consent form, the form itself and the
\* redirect are about what the application asked for: its client, URI, state and
\* challenge, and the scope that it asked for unless it was blank.
FlowKeepsItsRequest ==
    \A t \in Tabs : asked[t] # None => SameRequest(tab[t].q, asked[t])

\* How far a tab that is there has come in the protocol.
Phase(at, agreed) ==
    CASE at = "app" -> "idle"
      [] at \in {"authorize", "authorizeLookup", "login"} -> "asking"
      [] at = "consent" -> "shown"
      [] at \in {"approve", "approveLookup"} -> IF agreed THEN "agreed" ELSE "denied"
      [] at = "issue" -> "giving"
      [] at = "code" -> "granted"
      [] at \in {"rejected", "refused", "errorPage"} -> "refused"

\* The row that Issue inserts for a tab in state b.
CodeOf(b) == [user |-> b.user, client |-> b.q.client, uri |-> b.q.uri,
              challenge |-> b.q.challenge, scope |-> b.grant]

Flow(t) ==
    [phase |-> Phase(tab[t].at, tab[t].agreed), request |-> asked[t],
     screen |-> IF shown[t] = None THEN {} ELSE {shown[t].scope},
     giver |-> IF tab[t].at \in {"issue", "code"} THEN {tab[t].user} ELSE {},
     code |-> IF tab[t].at = "code" THEN {CodeOf(tab[t])} ELSE {}]

Protocol == INSTANCE ConsentProtocol WITH
    flow <- [t \in Tabs |-> Flow(t)], signedIn <- login

\* The server keeps nothing of a flow between its pages, and still every tab
\* goes through the protocol: no code without agreement to a screen, none after
\* a denial or on an agreement from before the last sign-in.
ImplementsProtocol == Protocol!Spec

\* A user who signs in and answers is never sent around in a circle: every flow
\* ends in a redirect or an error page.
FlowEnds == \A t \in Tabs : tab[t].at # "app" ~> tab[t].at \in Answers

\* oauth_handler.go:310: errors of "an unregistered redirect URI" are shown on a
\* page, since they "cannot be safely redirected".
ErrorsStayOnRegisteredURIs ==
    \A t \in Tabs : tab[t].at = "refused" =>
        tab[t].q.uri \in RedirectURIs[tab[t].q.client]

-----------------------------------------------------------------------------
(* The inductive invariant *)

\* Once validated, a request stays valid but for its client's being active, and
\* grant is what it asks for.
Validated(t) ==
    /\ tab[t].q.challenge # Malformed
    /\ tab[t].q.client \in Clients
    /\ tab[t].q.uri \in RedirectURIs[tab[t].q.client]
    /\ tab[t].grant = Granted(tab[t].q)
    /\ tab[t].grant \subseteq Allowed[tab[t].q.client]

\* The form that the tab shows or has posted is the one that was rendered.
Rendered(t) == shown[t] # None /\ tab[t].q.scope = FormScope(shown[t].scope)

\* Only the request as the application made it leads to a screen: what the
\* consent form sends has no response_type.
Unaltered(t) ==
    /\ tab[t].at \in {"authorize", "authorizeLookup", "login"} /\ tab[t].q.code =>
         asked[t] # None /\ tab[t].q = asked[t]
    /\ tab[t].at = "authorizeLookup" => tab[t].q.code
    /\ tab[t].at \in {"approve", "approveLookup"} => ~tab[t].q.code

TabInv(t) ==
    /\ Unaltered(t)
    /\ IF tab[t].at = "app" THEN asked[t] = None /\ shown[t] = None
       ELSE tab[t].q \in Query
    /\ tab[t].at \in {"authorizeLookup", "approveLookup", "issue", "code"} => Validated(t)
    /\ tab[t].at \in {"issue", "code"} => tab[t].user \in Users
    /\ tab[t].at \in {"consent", "approve", "approveLookup", "issue", "code"}
       /\ asked[t] # None => Rendered(t)
    /\ asked[t] # None => SameRequest(tab[t].q, asked[t])
    /\ shown[t] # None => /\ shown[t].q.scope = FormScope(shown[t].scope)
                          /\ asked[t] # None => SameRequest(shown[t].q, asked[t])

IInv == TypeOK /\ \A t \in Tabs : TabInv(t)
=============================================================================

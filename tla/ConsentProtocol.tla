--------------------------- MODULE ConsentProtocol ---------------------------
(***************************************************************************)
(* What the interactive authorization flow promises to an application and  *)
(* to the user in front of the browser, with no validation, look-ups,      *)
(* forms or login pages: the user is shown what the application asks for,  *)
(* agrees or not, and only then, in the name of whoever is signed in at    *)
(* that time, is there a code for what was shown.                          *)
(***************************************************************************)
CONSTANTS Tabs, Users, Clients, URIs, Scopes, Challenges, Query,
          RedirectURIs, Allowed, Absent, None

VARIABLES
    flow,       \* how far each tab has come
    signedIn    \* whom the browser's cookie signs in, or None

protocol == <<flow, signedIn>>

\* The row of an authorization code.
Code == [user : Users, client : Clients, uri : URIs,
         challenge : Challenges \cup {None}, scope : SUBSET Scopes]

\* A flow before anybody has consented.  `screen` holds what the last screen
\* listed, `giver` who consented, `code` the code: each at most one.
Flow(phase, request, screen) ==
    [phase |-> phase, request |-> request, screen |-> screen, giver |-> {},
     code |-> {}]

NewFlow == Flow("idle", None, {})

Init ==
    /\ flow = [t \in Tabs |-> NewFlow]
    /\ signedIn \in Users \cup {None}

Becomes(t, f) == flow' = [flow EXCEPT ![t] = f] /\ UNCHANGED signedIn

\* The next phase for the same request and screen.
Move(t, phase, giver, code) ==
    Becomes(t, [phase |-> phase, request |-> flow[t].request,
                screen |-> flow[t].screen, giver |-> giver, code |-> code])

Answered == {"granted", "refused"}

-----------------------------------------------------------------------------

Ask(t) ==
    /\ flow[t].phase = "idle"
    /\ \E q \in Query : Becomes(t, Flow("asking", q, {}))

\* A form that no screen rendered agrees to whatever it says.
Post(t) ==
    /\ flow[t].phase = "idle"
    /\ Becomes(t, Flow("agreed", None, {}))

\* All that the client may have, if it did not say what it wants.
Wanted(q) == IF q.scope = Absent THEN Allowed[q.client] ELSE q.scope

Registered(client, uri, scope) ==
    /\ client \in Clients
    /\ uri \in RedirectURIs[client]
    /\ scope \subseteq Allowed[client]

\* What the client may not ask for is never shown.
Show(t) ==
    /\ flow[t].phase = "asking"
    /\ flow[t].request # None
    /\ signedIn # None
    /\ LET q == flow[t].request IN
       /\ Registered(q.client, q.uri, Wanted(q))
       /\ Becomes(t, Flow("shown", q, {Wanted(q)}))

Decide(t) ==
    /\ flow[t].phase = "shown"
    /\ \E decision \in {"agreed", "denied"} : Move(t, decision, {}, {})

\* Nobody is signed in any more: the decision is void.
StartOver(t) ==
    /\ flow[t].phase \in {"agreed", "denied"}
    /\ Move(t, "asking", {}, {})

\* Consent is given by whoever is signed in, and for agreement only.
Give(t) ==
    /\ flow[t].phase = "agreed"
    /\ signedIn # None
    /\ Move(t, "giving", {signedIn}, {})

\* A screen that listed nothing is the exception: agreeing to it grants all.
AsShown(c, f) ==
    /\ c.client = f.request.client
    /\ c.uri = f.request.uri
    /\ c.challenge = f.request.challenge
    /\ c.scope \in f.screen \/ ({} \in f.screen /\ c.scope = Allowed[c.client])

Grant(t) ==
    /\ flow[t].phase = "giving"
    /\ \E c \in Code :
         /\ c.user \in flow[t].giver
         /\ Registered(c.client, c.uri, c.scope)
         /\ flow[t].request # None => AsShown(c, flow[t])
         /\ Move(t, "granted", flow[t].giver, {c})

Refuse(t) ==
    /\ flow[t].phase \in {"asking", "agreed", "denied", "giving"}
    /\ Move(t, "refused", {}, {})

\* Back to the screen: what it led to counts no more.
Back(t) ==
    /\ flow[t].phase \in Answered
    /\ flow[t].screen # {}
    /\ Move(t, "shown", {}, {})

Leave(t) ==
    /\ flow[t].phase \in Answered
    /\ Becomes(t, NewFlow)

\* Users sign in and out at any time.
SignIn ==
    /\ signedIn' \in Users \cup {None}
    /\ UNCHANGED flow

-----------------------------------------------------------------------------

Next ==
    \/ \E t \in Tabs : \/ Ask(t) \/ Post(t) \/ Show(t) \/ Decide(t)
                       \/ StartOver(t) \/ Give(t) \/ Grant(t) \/ Refuse(t)
                       \/ Back(t) \/ Leave(t)
    \/ SignIn

Spec == Init /\ [][Next]_protocol
=============================================================================

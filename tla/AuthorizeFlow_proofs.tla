------------------------ MODULE AuthorizeFlow_proofs ------------------------
(***************************************************************************)
(* Proofs about AuthorizeFlow, for any tabs, users, clients, URIs, scopes, *)
(* states and challenges: what a validated request carries survives every  *)
(* page, form and bounce until the code that answers it.                   *)
(***************************************************************************)
EXTENDS AuthorizeFlow, TLAPS

\* A step of one tab leaves the others' invariant alone: the tabs share only the
\* cookie, and the clients only lapse.
LEMMA TabStep ==
    ASSUME IInv, NEW t \in Tabs, NEW new \in Tab,
           tab' = [tab EXCEPT ![t] = new],
           asked' \in [Tabs -> Query \cup {None}],
           shown' \in [Tabs -> Consent \cup {None}],
           \A s \in Tabs \ {t} : asked'[s] = asked[s] /\ shown'[s] = shown[s],
           active' \subseteq Clients, login' \in Users \cup {None},
           trouble' \in 0..MaxTrouble,
           TabInv(t)'
    PROVE  IInv'
<1>1. TypeOK'
  BY DEF IInv, TypeOK
<1>2. ASSUME NEW s \in Tabs, s # t
      PROVE  TabInv(s)'
  <2>1. tab'[s] = tab[s] /\ asked'[s] = asked[s] /\ shown'[s] = shown[s]
    BY <1>2 DEF IInv, TypeOK
  <2>2. TabInv(s)
    BY DEF IInv
  <2> QED
    BY <2>1, <2>2 DEF TabInv, Unaltered, Validated, Rendered, SameRequest, Granted, FormScope
<1> QED
  BY <1>1, <1>2 DEF IInv

\* What is known of a tab.
LEMMA Known ==
    ASSUME IInv, NEW t \in Tabs
    PROVE  /\ tab \in [Tabs -> Tab] /\ tab[t] \in Tab
           /\ asked[t] \in Query \cup {None} /\ shown[t] \in Consent \cup {None}
           /\ TabInv(t)
BY DEF IInv, TypeOK

\* What the consent form asks for is what was granted, unless that is nothing.
LEMMA FormAsksForTheGrant ==
    ASSUME NEW c \in Clients, NEW scope \in SUBSET Scopes, scope \subseteq Allowed[c],
           NEW q \in Query, q.client = c, q.scope = FormScope(scope)
    PROVE  Granted(q) = IF scope = {} THEN Allowed[c] ELSE scope
BY FlowAssumption DEF Granted, FormScope

\* What a request is granted, if it is, is a set of scopes.
LEMMA GrantedType ==
    ASSUME NEW q \in Query, q.client \in Clients
    PROVE  Granted(q) \in SUBSET Scopes
BY FlowAssumption DEF Granted, Query

\* Passing the validation makes the request valid, whatever it carried.
LEMMA ValidateInv ==
    ASSUME IInv, NEW t \in Tabs, Validate(t)
    PROVE  IInv'
<1> DEFINE q == tab[t].q
<1>1. /\ tab \in [Tabs -> Tab] /\ tab[t] \in Tab /\ q \in Query
      /\ TabInv(t) /\ TypeOK /\ tab[t].at \in {"authorize", "approve"}
  BY Known DEF Validate, TabInv, IInv
<1>2. /\ asked' = asked /\ shown' = shown /\ active' = active
      /\ login' = login /\ trouble' = trouble
  BY DEF Validate
<1>3. ASSUME NEW place \in {"rejected", "refused"}, Goto(t, place)
      PROVE  IInv'
  <2> DEFINE new == [tab[t] EXCEPT !.at = place]
  <2>1. tab' = [tab EXCEPT ![t] = new] /\ new \in Tab /\ tab'[t] = new
    BY <1>1, <1>3 DEF Goto, Tab, Answers, Handlers
  <2>2. /\ tab'[t].at = place /\ tab'[t].q = q
    BY <1>1, <2>1 DEF Tab
  <2>3. TabInv(t)'
    BY <1>1, <1>2, <2>2 DEF TabInv, Unaltered, SameRequest, Granted, FormScope
  <2> QED
    BY <1>1, <1>2, <2>1, <2>3, TabStep DEF TypeOK
<1>4. ASSUME Valid(q), NEW place \in {"authorizeLookup", "approveLookup"},
             place = "approveLookup" => tab[t].at = "approve",
             place = "authorizeLookup" => tab[t].at = "authorize" /\ q.code,
             Pass(t, place)
      PROVE  IInv'
  <2>1. q.client \in Clients /\ Granted(q) \in SUBSET Scopes
    BY <1>1, <1>4, GrantedType DEF Valid, TypeOK
  <2> DEFINE new == [tab[t] EXCEPT !.at = place, !.grant = Granted(q)]
  <2>2. tab' = [tab EXCEPT ![t] = new] /\ new \in Tab /\ tab'[t] = new
    BY <1>1, <1>4, <2>1 DEF Pass, Tab, Answers, Handlers
  <2>3. tab'[t].at = place /\ tab'[t].q = q /\ tab'[t].grant = Granted(q)
    BY <1>1, <2>2 DEF Tab
  <2>4. TabInv(t)'
    <3>1. Validated(t)'
      BY <1>4, <2>1, <2>3 DEF Validated, Valid, Granted
    <3> QED
      BY <1>1, <1>2, <1>4, <2>3, <3>1 DEF TabInv, Unaltered, Rendered, SameRequest, Granted,
               FormScope
  <2> QED
    BY <1>1, <1>2, <2>2, <2>4, TabStep DEF TypeOK
<1> QED
  BY <1>1, <1>3, <1>4 DEF Validate

\* An error keeps what the tab asked for.
LEMMA AuthorizeErrorInv ==
    ASSUME IInv, NEW t \in Tabs, AuthorizeError(t)
    PROVE  IInv'
<1> DEFINE place == IF tab[t].q.client \in Clients /\ tab[t].q.uri # None
                    THEN "refused" ELSE "errorPage"
           new == [tab[t] EXCEPT !.at = place]
<1>1. /\ tab \in [Tabs -> Tab] /\ tab[t] \in Tab /\ TabInv(t) /\ TypeOK
      /\ tab[t].at = "rejected"
  BY Known DEF AuthorizeError, IInv
<1>2. /\ asked' = asked /\ shown' = shown /\ active' = active
      /\ login' = login /\ trouble' = trouble
      /\ tab' = [tab EXCEPT ![t] = new]
  BY DEF AuthorizeError, Goto
<1>3. new \in Tab /\ tab'[t] = new /\ tab'[t].at = place /\ tab'[t].q = tab[t].q
  BY <1>1, <1>2 DEF Tab, Answers
<1>4. TabInv(t)'
  BY <1>1, <1>2, <1>3 DEF TabInv, Unaltered, SameRequest, Granted, FormScope
<1> QED
  BY <1>1, <1>2, <1>3, <1>4, TabStep DEF TypeOK

\* Dropping the response type changes nothing that SameRequest compares.
LEMMA BounceKeeps ==
    ASSUME NEW q \in Query
    PROVE  /\ Bounce(q) \in Query /\ Bounce(q).scope = q.scope /\ ~Bounce(q).code
           /\ \A a : SameRequest(q, a) => SameRequest(Bounce(q), a)
BY DEF Bounce, Query, SameRequest, Granted

\* The login page, from either lookup.
LEMMA ToLogin ==
    ASSUME IInv, NEW t \in Tabs, tab[t].at \in Handlers,
           NEW q \in {tab[t].q, Bounce(tab[t].q)},
           tab[t].at = "authorizeLookup" \/ q = Bounce(tab[t].q),
           tab' = [tab EXCEPT ![t] = [@ EXCEPT !.at = "login", !.q = q]],
           UNCHANGED <<active, login, asked, shown>>, trouble' \in 0..MaxTrouble
    PROVE  IInv'
<1> DEFINE new == [tab[t] EXCEPT !.at = "login", !.q = q]
<1>1. /\ tab \in [Tabs -> Tab] /\ tab[t] \in Tab /\ TabInv(t) /\ TypeOK
      /\ tab[t].q \in Query
  BY Known DEF TabInv, IInv, Handlers
<1>2. /\ q \in Query /\ \A a : SameRequest(tab[t].q, a) => SameRequest(q, a)
      /\ q.code => tab[t].at = "authorizeLookup" /\ q = tab[t].q
  BY <1>1, BounceKeeps
<1>3. tab' = [tab EXCEPT ![t] = new] /\ new \in Tab /\ tab'[t] = new
  BY <1>1, <1>2 DEF Tab
<1>4. tab'[t].at = "login" /\ tab'[t].q = q
  BY <1>1, <1>3 DEF Tab
<1>5. asked[t] # None => SameRequest(q, asked[t])
  BY <1>1, <1>2 DEF TabInv
<1>6. TabInv(t)'
  BY <1>1, <1>2, <1>4, <1>5 DEF TabInv, Unaltered, SameRequest, Granted, FormScope
<1> QED
  BY <1>1, <1>3, <1>6, TabStep DEF TypeOK

\* The screen lists what was granted, and its form asks for that.
LEMMA AuthorizeLookupInv ==
    ASSUME IInv, NEW t \in Tabs, AuthorizeLookup(t)
    PROVE  IInv'
<1> USE FlowAssumption
<1>1. /\ tab \in [Tabs -> Tab] /\ tab[t] \in Tab /\ TabInv(t) /\ TypeOK
      /\ tab[t].at = "authorizeLookup" /\ tab[t].q \in Query /\ Validated(t)
      /\ asked[t] \in Query \cup {None}
  BY Known DEF TabInv, IInv, AuthorizeLookup
<1>2. asked' = asked /\ active' = active /\ login' = login /\ trouble' = trouble
  BY DEF AuthorizeLookup
<1>3. CASE login = None
  <2>1. shown' = shown /\ tab' = [tab EXCEPT ![t].at = "login"]
    BY <1>3 DEF AuthorizeLookup, Goto
  <2>2. tab' = [tab EXCEPT ![t] = [@ EXCEPT !.at = "login", !.q = tab[t].q]]
    BY <2>1, <1>1 DEF Tab
  <2> QED
    BY <1>1, <1>2, <2>1, <2>2, ToLogin DEF Handlers, TypeOK
<1>4. CASE login # None
  <2> DEFINE c == tab[t].q.client
             g == tab[t].grant
             q == [tab[t].q EXCEPT !.scope = FormScope(g)]
             new == [tab[t] EXCEPT !.at = "consent", !.q = q]
  <2>1. /\ c \in Clients /\ g \in SUBSET Scopes /\ g \subseteq Allowed[c]
        /\ g = Granted(tab[t].q)
    BY <1>1 DEF Validated, Tab
  <2>2. /\ q \in Query /\ q.client = c /\ q.scope = FormScope(g)
        /\ q.uri = tab[t].q.uri /\ q.state = tab[t].q.state
        /\ q.challenge = tab[t].q.challenge
    BY <1>1, <2>1 DEF Query, FormScope
  <2>3. tab' = [tab EXCEPT ![t].at = "consent", ![t].q.scope = FormScope(g)]
    BY <1>4 DEF AuthorizeLookup
  <2>4. tab' = [tab EXCEPT ![t] = new] /\ new \in Tab /\ tab'[t] = new
    BY <1>1, <2>2, <2>3 DEF Tab
  <2>5. tab'[t].at = "consent" /\ tab'[t].q = q
    BY <1>1, <2>4 DEF Tab
  <2>6. shown' = [shown EXCEPT ![t] = [q |-> q, scope |-> g]]
    BY <1>4, <2>5 DEF AuthorizeLookup
  <2>7. [q |-> q, scope |-> g] \in Consent /\ [q |-> q, scope |-> g] # None
    BY <2>1, <2>2, RecordAssumption DEF Consent
  <2> HIDE DEF q
  <2>8. ASSUME asked[t] # None PROVE SameRequest(q, asked[t])
    <3>1. SameRequest(tab[t].q, asked[t])
      BY <1>1, <2>8 DEF TabInv
    <3>2. Granted(q) = IF g = {} THEN Allowed[c] ELSE g
      BY <2>1, <2>2, FormAsksForTheGrant
    <3>3. ASSUME asked[t].scope # {}, g = {} PROVE Granted(q) = g
      <4>1. Granted(asked[t]) = {} /\ asked[t].client = c
        BY <3>1, <3>3, <2>1 DEF SameRequest
      <4>2. Allowed[c] = {}
        BY <4>1, <3>3 DEF Granted
      <4> QED
        BY <4>2, <3>2, <3>3
    <3> QED
      BY <3>1, <3>2, <3>3, <2>1, <2>2 DEF SameRequest
  <2>9. /\ shown'[t] = [q |-> q, scope |-> g]
        /\ shown' \in [Tabs -> Consent \cup {None}]
        /\ \A s \in Tabs \ {t} : shown'[s] = shown[s]
    BY <1>1, <2>6, <2>7 DEF TypeOK
  <2>10. TabInv(t)'
    <3>1. Rendered(t)'
      BY <2>2, <2>5, <2>7, <2>9 DEF Rendered, FormScope
    <3>2. asked'[t] # None =>
            SameRequest(tab[t].q, asked[t])' /\ SameRequest(shown[t].q, asked[t])'
      BY <1>2, <2>5, <2>8, <2>9 DEF SameRequest, Granted
    <3> QED
      BY <2>2, <2>5, <2>9, <3>1, <3>2 DEF TabInv, Unaltered, FormScope
  <2> QED
    BY <1>1, <1>2, <2>4, <2>9, <2>10, TabStep DEF TypeOK
<1> QED
  BY <1>3, <1>4

\* The form stays validated while the user is looked up.
LEMMA ApproveLookupInv ==
    ASSUME IInv, NEW t \in Tabs, ApproveLookup(t)
    PROVE  IInv'
<1>1. /\ tab \in [Tabs -> Tab] /\ tab[t] \in Tab /\ TabInv(t) /\ TypeOK
      /\ tab[t].at = "approveLookup" /\ tab[t].q \in Query /\ Validated(t)
  BY Known DEF TabInv, IInv, ApproveLookup
<1>2. /\ asked' = asked /\ shown' = shown /\ active' = active
      /\ login' = login /\ trouble' = trouble
  BY DEF ApproveLookup
<1>3. CASE login = None
  <2>1. tab' = [tab EXCEPT ![t] = [@ EXCEPT !.at = "login", !.q = Bounce(tab[t].q)]]
    BY <1>1, <1>3 DEF ApproveLookup, Tab
  <2> QED
    BY <1>1, <1>2, <2>1, ToLogin DEF Handlers, TypeOK
<1>4. CASE login # None
  <2> DEFINE place == IF tab[t].agreed THEN "issue" ELSE "refused"
             new == [tab[t] EXCEPT !.user = login, !.at = place]
  <2>1. login \in Users
    BY <1>1, <1>4 DEF TypeOK
  <2>2. tab' = [tab EXCEPT ![t] = new] /\ new \in Tab /\ tab'[t] = new
    BY <1>1, <1>4, <2>1 DEF ApproveLookup, Tab, Handlers, Answers
  <2>3. /\ tab'[t].at = place /\ tab'[t].q = tab[t].q
        /\ tab'[t].grant = tab[t].grant /\ tab'[t].user = login
    BY <1>1, <2>2 DEF Tab
  <2>4. TabInv(t)'
    BY <1>1, <1>2, <2>1, <2>3
       DEF TabInv, Unaltered, Validated, Rendered, SameRequest, Granted, FormScope
  <2> QED
    BY <1>1, <1>2, <2>2, <2>4, TabStep DEF TypeOK
<1> QED
  BY <1>3, <1>4

\* A page that carries on what the tab's request was, or an error.
LEMMA GotoInv ==
    ASSUME IInv, NEW t \in Tabs, tab[t].at # "app",
           NEW place \in {"rejected", "errorPage", "code", "authorize"},
           place = "code" => tab[t].at = "issue",
           place = "authorize" => tab[t].at = "login",
           Goto(t, place), UNCHANGED <<active, asked, shown>>,
           login' \in Users \cup {None}, trouble' \in 0..MaxTrouble
    PROVE  IInv'
<1> DEFINE new == [tab[t] EXCEPT !.at = place]
<1>1. /\ tab \in [Tabs -> Tab] /\ tab[t] \in Tab /\ TabInv(t) /\ TypeOK
  BY Known DEF IInv
<1>2. tab' = [tab EXCEPT ![t] = new] /\ new \in Tab /\ tab'[t] = new
  BY <1>1 DEF Goto, Tab, Handlers, Answers
<1>3. /\ tab'[t].at = place /\ tab'[t].q = tab[t].q
      /\ tab'[t].grant = tab[t].grant /\ tab'[t].user = tab[t].user
  BY <1>1, <1>2 DEF Tab
<1>4. TabInv(t)'
  BY <1>1, <1>3 DEF TabInv, Unaltered, Validated, Rendered, SameRequest, Granted, FormScope
<1> QED
  BY <1>1, <1>2, <1>4, TabStep DEF TypeOK

\* A statement that fails leads to an error or to the login page.
LEMMA FailInv ==
    ASSUME IInv, NEW t \in Tabs, Fail(t)
    PROVE  IInv'
<1>1. /\ trouble' \in 0..MaxTrouble /\ tab[t].at \in Handlers
      /\ UNCHANGED <<active, login, asked, shown>>
      /\ tab \in [Tabs -> Tab] /\ tab[t] \in Tab /\ login \in Users \cup {None}
  BY FlowAssumption DEF Fail, IInv, TypeOK
<1>2. CASE tab[t].at \in {"authorize", "approve", "issue"}
  <2>1. Goto(t, "rejected")
    BY <1>2, Zenon DEF Fail
  <2> QED
    BY <1>1, <1>2, <2>1, GotoInv
<1>3. CASE tab[t].at = "authorizeLookup"
  <2>1. Goto(t, "login")
    BY <1>3, Zenon DEF Fail
  <2>2. tab' = [tab EXCEPT ![t] = [@ EXCEPT !.at = "login", !.q = tab[t].q]]
    BY <1>1, <2>1 DEF Goto, Tab
  <2> QED
    BY <1>1, <1>3, <2>2, ToLogin
<1>4. CASE tab[t].at = "approveLookup"
  <2>1. tab' = [tab EXCEPT ![t].at = "login", ![t].q = Bounce(@)]
    BY <1>4, Zenon DEF Fail
  <2>2. tab' = [tab EXCEPT ![t] = [@ EXCEPT !.at = "login", !.q = Bounce(tab[t].q)]]
    BY <1>1, <2>1 DEF Tab
  <2> QED
    BY <1>1, <2>2, ToLogin
<1>5. CASE tab[t].at = "rejected"
  <2>1. Goto(t, "errorPage")
    BY <1>5, Zenon DEF Fail
  <2> QED
    BY <1>1, <1>5, <2>1, GotoInv
<1> QED
  BY <1>1, <1>2, <1>3, <1>4, <1>5 DEF Handlers

\* A flow begins with nothing shown.
LEMMA OpenInv ==
    ASSUME IInv, NEW t \in Tabs, NEW q \in Query, Open(t, q)
    PROVE  IInv'
<1> DEFINE new == [tab[t] EXCEPT !.at = "authorize", !.q = q]
<1>1. /\ tab \in [Tabs -> Tab] /\ tab[t] \in Tab /\ TabInv(t) /\ TypeOK
      /\ tab[t].at = "app" /\ shown[t] = None /\ q # None
  BY Known, RecordAssumption DEF Open, IInv, TabInv
<1>2. /\ tab' = [tab EXCEPT ![t] = new] /\ new \in Tab /\ tab'[t] = new
      /\ asked' = [asked EXCEPT ![t] = q] /\ shown' = shown /\ active' = active
      /\ login' = login /\ trouble' = trouble
  BY <1>1 DEF Open, Tab, Handlers
<1>3. tab'[t].at = "authorize" /\ tab'[t].q = q /\ asked'[t] = q
  BY <1>1, <1>2 DEF Tab, TypeOK
<1>4. SameRequest(q, q)
  BY DEF SameRequest
<1>5. SameRequest(tab[t].q, asked[t])'
  BY <1>3, <1>4 DEF SameRequest, Granted
<1>6. TabInv(t)'
  BY <1>1, <1>2, <1>3, <1>5 DEF TabInv, Unaltered
<1>7. asked' \in [Tabs -> Query \cup {None}] /\ \A s \in Tabs \ {t} : asked'[s] = asked[s]
  BY <1>1, <1>2 DEF TypeOK
<1> QED
  BY <1>1, <1>2, <1>6, <1>7, TabStep DEF TypeOK

\* A form that no screen rendered belongs to no flow.
LEMMA PostFormInv ==
    ASSUME IInv, NEW t \in Tabs, NEW q \in Query, PostForm(t, q)
    PROVE  IInv'
<1> DEFINE new == [tab[t] EXCEPT !.at = "approve", !.q = q, !.agreed = TRUE]
<1>1. /\ tab \in [Tabs -> Tab] /\ tab[t] \in Tab /\ TabInv(t) /\ TypeOK
      /\ asked[t] = None /\ shown[t] = None /\ ~q.code
  BY Known DEF PostForm, IInv, TabInv
<1>2. /\ tab' = [tab EXCEPT ![t] = new] /\ new \in Tab /\ tab'[t] = new
      /\ asked' = asked /\ shown' = shown /\ active' = active
      /\ login' = login /\ trouble' = trouble
  BY <1>1 DEF PostForm, Tab, Handlers
<1>3. tab'[t].at = "approve" /\ tab'[t].q = q
  BY <1>1, <1>2 DEF Tab
<1>4. TabInv(t)'
  BY <1>1, <1>2, <1>3 DEF TabInv, Unaltered
<1> QED
  BY <1>1, <1>2, <1>4, TabStep DEF TypeOK

\* A tab that goes on to something else forgets the flow.
LEMMA LeaveInv ==
    ASSUME IInv, NEW t \in Tabs, Leave(t)
    PROVE  IInv'
<1>1. /\ tab \in [Tabs -> Tab] /\ TypeOK
  BY Known DEF IInv
<1>2. /\ NewTab \in Tab /\ NewTab.at = "app"
  BY DEF NewTab, Tab
<1>3. /\ tab' = [tab EXCEPT ![t] = NewTab] /\ tab'[t] = NewTab
      /\ asked' = [asked EXCEPT ![t] = None] /\ shown' = [shown EXCEPT ![t] = None]
      /\ asked'[t] = None /\ shown'[t] = None
      /\ active' = active /\ login' = login /\ trouble' = trouble
  BY <1>1 DEF Leave, TypeOK
<1>4. TabInv(t)'
  BY <1>2, <1>3 DEF TabInv, Unaltered
<1>5. /\ asked' \in [Tabs -> Query \cup {None}] /\ shown' \in [Tabs -> Consent \cup {None}]
      /\ \A s \in Tabs \ {t} : asked'[s] = asked[s] /\ shown'[s] = shown[s]
  BY <1>1, <1>3 DEF TypeOK
<1> QED
  BY <1>1, <1>2, <1>3, <1>4, <1>5, TabStep DEF TypeOK

\* The form is what the screen was rendered with.
LEMMA DecideInv ==
    ASSUME IInv, NEW t \in Tabs, NEW agreed \in BOOLEAN, Decide(t, agreed)
    PROVE  IInv'
<1> DEFINE new == [tab[t] EXCEPT !.at = "approve", !.agreed = agreed, !.q = Bounce(tab[t].q)]
<1>1. /\ tab \in [Tabs -> Tab] /\ tab[t] \in Tab /\ TabInv(t) /\ TypeOK
      /\ tab[t].at = "consent" /\ tab[t].q \in Query
  BY Known DEF Decide, IInv, TabInv
<1>2. /\ Bounce(tab[t].q) \in Query /\ Bounce(tab[t].q).scope = tab[t].q.scope
      /\ ~Bounce(tab[t].q).code
      /\ asked[t] # None => SameRequest(Bounce(tab[t].q), asked[t])
  BY <1>1, BounceKeeps DEF TabInv
<1>3. /\ tab' = [tab EXCEPT ![t] = new] /\ new \in Tab /\ tab'[t] = new
      /\ asked' = asked /\ shown' = shown /\ active' = active
      /\ login' = login /\ trouble' = trouble
  BY <1>1, <1>2 DEF Decide, Tab, Handlers
<1>4. tab'[t].at = "approve" /\ tab'[t].q = Bounce(tab[t].q)
  BY <1>1, <1>3 DEF Tab
<1>5. TabInv(t)'
  BY <1>1, <1>2, <1>3, <1>4 DEF TabInv, Unaltered, Rendered, SameRequest, Granted, FormScope
<1> QED
  BY <1>1, <1>3, <1>5, TabStep DEF TypeOK

\* So it is when the browser goes back to it.
LEMMA BackInv ==
    ASSUME IInv, NEW t \in Tabs, Back(t)
    PROVE  IInv'
<1> DEFINE new == [tab[t] EXCEPT !.at = "consent", !.q = shown[t].q]
<1>1. /\ tab \in [Tabs -> Tab] /\ tab[t] \in Tab /\ TabInv(t) /\ TypeOK
      /\ shown[t] # None /\ shown[t] \in Consent
  BY Known DEF Back, IInv
<1>2. /\ tab' = [tab EXCEPT ![t] = new] /\ new \in Tab /\ tab'[t] = new
      /\ asked' = asked /\ shown' = shown /\ active' = active
      /\ login' = login /\ trouble' = trouble
  BY <1>1 DEF Back, Tab, Consent
<1>3. tab'[t].at = "consent" /\ tab'[t].q = shown[t].q /\ shown[t].q \in Query
  BY <1>1, <1>2 DEF Tab, Consent
<1>4. TabInv(t)'
  BY <1>1, <1>2, <1>3 DEF TabInv, Unaltered, Rendered, SameRequest, Granted, FormScope
<1> QED
  BY <1>1, <1>2, <1>4, TabStep DEF TypeOK

\* What happens outside the tabs leaves them alone.
LEMMA WorldInv ==
    ASSUME IInv, UNCHANGED <<tab, asked, shown>>,
           active' \subseteq Clients, login' \in Users \cup {None},
           trouble' \in 0..MaxTrouble
    PROVE  IInv'
BY DEF IInv, TypeOK, TabInv, Unaltered, Validated, Rendered, SameRequest, Granted, FormScope

\* IInv is inductive: every disjunct of Next preserves it.
THEOREM Invariance == Spec => []IInv
<1>1. Init => IInv
  <2> SUFFICES ASSUME Init PROVE IInv
    OBVIOUS
  <2>1. NewTab \in Tab /\ NewTab.at = "app"
    BY DEF NewTab, Tab
  <2>2. TypeOK
    BY <2>1, FlowAssumption DEF Init, TypeOK
  <2> QED
    BY <2>1, <2>2 DEF Init, IInv, TabInv, Unaltered
<1>2. IInv /\ [Next]_vars => IInv'
  <2> SUFFICES ASSUME IInv, [Next]_vars PROVE IInv'
    OBVIOUS
  <2>1. TypeOK /\ trouble \in 0..MaxTrouble /\ login \in Users \cup {None}
    BY DEF IInv, TypeOK
  <2>2. ASSUME NEW t \in Tabs, Handle(t) PROVE IInv'
    <3>1. CASE Issue(t)
      BY <3>1, <2>1, GotoInv DEF Issue
    <3> QED
      BY <2>2, <3>1, ValidateInv, AuthorizeErrorInv, AuthorizeLookupInv, ApproveLookupInv
         DEF Handle
  <2>3. ASSUME NEW t \in Tabs, User(t) PROVE IInv'
    <3>1. ASSUME NEW u \in Users, LoginSubmit(t, u) PROVE IInv'
      BY <3>1, <2>1, GotoInv DEF LoginSubmit
    <3> QED
      BY <2>3, <3>1, DecideInv DEF User
  <2>4. ASSUME NEW t \in Tabs, Back(t) \/ Leave(t) \/ Fail(t) PROVE IInv'
    BY <2>4, BackInv, LeaveInv, FailInv
  <2>5. ASSUME NEW t \in Tabs, NEW q \in Query, Open(t, q) \/ PostForm(t, q) PROVE IInv'
    BY <2>5, OpenInv, PostFormInv
  <2>6. CASE Lapse
    BY <2>1, <2>6, WorldInv, FlowAssumption DEF Lapse, TypeOK
  <2>7. ASSUME NEW u \in Users, LoginElsewhere(u) PROVE IInv'
    BY <2>1, <2>7, WorldInv DEF LoginElsewhere, TypeOK
  <2>8. ASSUME NEW c \in Clients, Deactivate(c) PROVE IInv'
    BY <2>1, <2>8, WorldInv, FlowAssumption DEF Deactivate, TypeOK
  <2>9. CASE UNCHANGED vars
    BY <2>1, <2>9, WorldInv DEF vars, TypeOK
  <2> QED
    BY <2>2, <2>3, <2>4, <2>5, <2>6, <2>7, <2>8, <2>9 DEF Next
<1> QED
  BY <1>1, <1>2, PTL DEF Spec

\* Tabs, handlers and history keep their types.
THEOREM TypesCorrect == Spec => []TypeOK
BY Invariance, PTL DEF IInv

\* A code never leaves for a URI or with a scope that is not its client's, although
\* the form is validated long before and by another statement than the INSERT.
THEOREM CodesRegistered == Spec => []CodesAreRegistered
<1>1. IInv => CodesAreRegistered
  BY DEF IInv, TabInv, Validated, CodesAreRegistered
<1> QED
  BY <1>1, Invariance, PTL

\* What the consent screen listed is what the code grants, unless it listed nothing.
THEOREM ConsentGranted == Spec => []ConsentIsWhatIsGranted
<1>1. IInv => ConsentIsWhatIsGranted
  <2> SUFFICES ASSUME IInv, NEW t \in Tabs, tab[t].at = "code", asked[t] # None
               PROVE  /\ shown[t] # None
                      /\ \/ tab[t].grant = shown[t].scope
                         \/ /\ shown[t].scope = {}
                            /\ tab[t].grant = Allowed[tab[t].q.client]
    BY DEF ConsentIsWhatIsGranted
  <2>1. TabInv(t) /\ Rendered(t) /\ Validated(t) /\ shown[t] \in Consent
    BY Known DEF TabInv, Rendered
  <2>2. /\ tab[t].grant = Granted(tab[t].q)
        /\ tab[t].q.scope = FormScope(shown[t].scope)
        /\ shown[t].scope \in SUBSET Scopes
    BY <2>1 DEF Rendered, Validated, Consent
  <2> QED
    BY <2>1, <2>2, FlowAssumption DEF Rendered, Granted, FormScope
<1> QED
  BY <1>1, Invariance, PTL

\* Whatever pages a flow passes, it is about what the application asked for.
THEOREM RequestKept == Spec => []FlowKeepsItsRequest
<1>1. IInv => FlowKeepsItsRequest
  BY DEF IInv, TabInv, FlowKeepsItsRequest
<1> QED
  BY <1>1, Invariance, PTL

-----------------------------------------------------------------------------
(* AuthorizeFlow implements ConsentProtocol *)

Flows == [t \in Tabs |-> Flow(t)]

\* The other tabs stay where they are, and the cookie too.
Only(t) ==
    /\ UNCHANGED login
    /\ \A s \in Tabs \ {t} : /\ tab'[s] = tab[s]
                             /\ asked'[s] = asked[s]
                             /\ shown'[s] = shown[s]

\* The places of a tab, phase by phase.
LEMMA Phases ==
    ASSUME NEW agreed \in BOOLEAN
    PROVE  /\ Phase("app", agreed) = "idle"
           /\ \A at \in {"authorize", "authorizeLookup", "login"} :
                Phase(at, agreed) = "asking"
           /\ Phase("consent", agreed) = "shown"
           /\ \A at \in {"approve", "approveLookup"} :
                Phase(at, agreed) = IF agreed THEN "agreed" ELSE "denied"
           /\ Phase("issue", agreed) = "giving"
           /\ Phase("code", agreed) = "granted"
           /\ \A at \in {"rejected", "refused", "errorPage"} :
                Phase(at, agreed) = "refused"
BY DEF Phase

\* A step of one tab is a step of one flow.
LEMMA Becoming ==
    ASSUME NEW t \in Tabs, Only(t)
    PROVE  /\ Protocol!Becomes(t, Flow(t)')
           /\ Flow(t)' = Flow(t) => UNCHANGED Protocol!protocol
<1>1. \A s \in Tabs \ {t} : Flow(s)' = Flow(s)
  BY DEF Only, Flow, CodeOf
<1>2. Flows' = [Flows EXCEPT ![t] = Flow(t)']
  BY <1>1 DEF Flows
<1>3. Flow(t)' = Flow(t) => Flows' = Flows
  BY <1>1 DEF Flows
<1> QED BY <1>2, <1>3 DEF Flows, Only, Protocol!Becomes, Protocol!protocol

\* The same tab in another phase.
Moved(t, phase, giver, code) ==
    [phase |-> phase, request |-> Flow(t).request, screen |-> Flow(t).screen,
     giver |-> giver, code |-> code]

\* Moving a tab is the protocol's step Move.
LEMMA Moving ==
    ASSUME NEW t \in Tabs, Only(t), NEW phase, NEW giver, NEW code,
           Flow(t)' = Moved(t, phase, giver, code)
    PROVE  Protocol!Move(t, phase, giver, code)
<1>1. Flows[t] = Flow(t)
  BY DEF Flows
<1> QED BY <1>1, Becoming DEF Flows, Moved, Protocol!Move

\* Turning the request down, from any place of a handler.
LEMMA RefuseStep ==
    ASSUME IInv, NEW t \in Tabs, Only(t), tab[t].at \in Handlers \ {"rejected"},
           tab'[t].at \in {"rejected", "refused"},
           tab'[t].agreed \in BOOLEAN, UNCHANGED <<asked, shown>>
    PROVE  Protocol!Refuse(t)
<1>1. tab[t].agreed \in BOOLEAN
  BY Known DEF Tab
<1>2. Flow(t).phase \in {"asking", "agreed", "denied", "giving"}
  BY <1>1, Phases DEF Flow, Handlers
<1>3. Flow(t)' = Moved(t, "refused", {}, {})
  <2>1. tab[t].at \notin {"code", "rejected"} /\ tab'[t].at \notin {"issue", "code"}
    BY DEF Handlers
  <2> QED BY <2>1, Phases DEF Flow, Moved
<1> QED BY <1>2, <1>3, Moving DEF Protocol!Refuse

\* A tab whose place counts as the same phase.
LEMMA SamePhase ==
    ASSUME IInv, NEW t \in Tabs, Only(t), UNCHANGED <<asked, shown>>,
           tab'[t].agreed = tab[t].agreed,
           \/ /\ tab[t].at \in {"authorize", "authorizeLookup", "login"}
              /\ tab'[t].at \in {"authorize", "authorizeLookup", "login"}
           \/ tab[t].at = "approve" /\ tab'[t].at = "approveLookup"
           \/ tab[t].at = "rejected" /\ tab'[t].at \in {"refused", "errorPage"}
    PROVE  UNCHANGED Protocol!protocol
<1>1. tab[t].agreed \in BOOLEAN
  BY Known DEF Tab
<1>2. Phase(tab'[t].at, tab'[t].agreed) = Phase(tab[t].at, tab[t].agreed)
  BY <1>1, Phases
<1>3. {tab[t].at, tab'[t].at} \cap {"issue", "code"} = {}
  OBVIOUS
<1>4. Flow(t)' = Flow(t)
  BY <1>2, <1>3 DEF Flow
<1> QED BY <1>4, Becoming

\* Signed out on the way, the user has to begin again.
LEMMA StartOverStep ==
    ASSUME IInv, NEW t \in Tabs, Only(t), tab[t].at = "approveLookup",
           tab'[t].at = "login", tab'[t].agreed = tab[t].agreed,
           UNCHANGED <<asked, shown>>
    PROVE  Protocol!StartOver(t)
<1>1. tab[t].agreed \in BOOLEAN
  BY Known DEF Tab
<1>2. Flow(t).phase \in {"agreed", "denied"}
  BY <1>1, Phases DEF Flow
<1>3. Flow(t)' = Moved(t, "asking", {}, {})
  BY <1>1, Phases DEF Flow, Moved
<1> QED BY <1>2, <1>3, Moving DEF Protocol!StartOver

\* The code has what was validated, rendered and agreed to.
LEMMA IssueStep ==
    ASSUME IInv, NEW t \in Tabs, Issue(t)
    PROVE  Protocol!Grant(t)
<1> DEFINE c == CodeOf(tab[t])
<1>1. /\ tab \in [Tabs -> Tab] /\ tab[t] \in Tab /\ TabInv(t)
      /\ tab[t].at = "issue" /\ tab[t].q \in Query /\ Validated(t)
      /\ tab[t].user \in Users /\ tab[t].agreed \in BOOLEAN
  BY Known DEF Issue, TabInv, Tab
<1>2. /\ Only(t) /\ UNCHANGED <<asked, shown>>
      /\ tab'[t] = [tab[t] EXCEPT !.at = "code"]
  BY <1>1 DEF Issue, Goto, Only
<1>3. /\ tab'[t].at = "code" /\ tab'[t].agreed = tab[t].agreed
      /\ tab'[t].user = tab[t].user /\ CodeOf(tab'[t]) = c
  BY <1>1, <1>2 DEF Tab, CodeOf
<1>4. c \in Protocol!Code /\ c.user \in Flow(t).giver
  <2>1. tab[t].q.uri \in URIs /\ tab[t].q.challenge \in Challenges \cup {None}
    BY <1>1, FlowAssumption DEF Validated, Query
  <2> QED BY <1>1, <2>1 DEF CodeOf, Protocol!Code, Validated, Tab, Flow
<1>5. Protocol!Registered(c.client, c.uri, c.scope)
  BY <1>1 DEF CodeOf, Protocol!Registered, Validated
<1>6. Flow(t).request # None => Protocol!AsShown(c, Flow(t))
  <2> SUFFICES ASSUME asked[t] # None
               PROVE  Protocol!AsShown(c, Flow(t))
    BY DEF Flow
  <2>1. /\ Rendered(t) /\ SameRequest(tab[t].q, asked[t])
        /\ shown[t] \in Consent /\ shown[t].scope \in SUBSET Scopes
    BY <1>1, Known DEF TabInv, Rendered, Consent
  <2>2. tab[t].grant = IF shown[t].scope = {} THEN Allowed[tab[t].q.client]
                                              ELSE shown[t].scope
    BY <1>1, <2>1, FlowAssumption DEF Rendered, Validated, Granted, FormScope
  <2> QED BY <2>1, <2>2 DEF Protocol!AsShown, Flow, CodeOf, SameRequest, Rendered
<1>7. Flow(t).phase = "giving"
  BY <1>1, Phases DEF Flow
<1>8. Flow(t)' = Moved(t, "granted", Flow(t).giver, {c})
  <2>1. Flow(t).giver = {tab[t].user}
    BY <1>1 DEF Flow
  <2>2. Phase(tab'[t].at, tab'[t].agreed) = "granted"
    BY <1>1, <1>3, Phases
  <2> HIDE DEF c
  <2> QED BY <1>2, <1>3, <2>1, <2>2 DEF Flow, Moved, Only
<1>9. Protocol!Move(t, "granted", Flow(t).giver, {c})
  BY <1>2, <1>8, Moving
<1> HIDE DEF c
<1> QED BY <1>4, <1>5, <1>6, <1>7, <1>9 DEF Protocol!Grant

\* The screen lists what the application asks for, which the client may have.
LEMMA ShowStep ==
    ASSUME IInv, NEW t \in Tabs, AuthorizeLookup(t), login # None
    PROVE  Protocol!Show(t)
<1> DEFINE q == asked[t]
           g == tab[t].grant
<1>1. /\ tab \in [Tabs -> Tab] /\ tab[t] \in Tab /\ TabInv(t) /\ TypeOK
      /\ tab[t].at = "authorizeLookup" /\ tab[t].q \in Query /\ Validated(t)
      /\ tab[t].agreed \in BOOLEAN
  BY Known DEF AuthorizeLookup, TabInv, IInv, Tab
<1>2. q # None /\ tab[t].q = q
  BY <1>1 DEF TabInv, Unaltered
<1>3. g = Protocol!Wanted(q) /\ Protocol!Registered(q.client, q.uri, Protocol!Wanted(q))
  BY <1>1, <1>2 DEF Validated, Granted, Protocol!Wanted, Protocol!Registered
<1>4. /\ tab' = [tab EXCEPT ![t].at = "consent", ![t].q.scope = FormScope(g)]
      /\ shown' = [shown EXCEPT ![t] = [q |-> tab'[t].q, scope |-> g]]
      /\ asked' = asked /\ login' = login
  BY DEF AuthorizeLookup
<1>5. tab'[t].at = "consent" /\ tab'[t].agreed = tab[t].agreed
  BY <1>1, <1>4 DEF Tab
<1>6. shown'[t] # None /\ shown'[t].scope = g
  <2>1. shown'[t] = [q |-> tab'[t].q, scope |-> g]
    BY <1>1, <1>4 DEF TypeOK
  <2>2. IInv'
    BY AuthorizeLookupInv
  <2>3. shown'[t] # None
    BY <1>2, <1>4, <1>5, <2>2 DEF IInv, TabInv, Rendered
  <2> QED BY <2>1, <2>3
<1>7. Only(t)
  BY <1>1, <1>4 DEF Only, TypeOK
<1>8. Flow(t)' = [phase |-> "shown", request |-> q, screen |-> {g}, giver |-> {},
                  code |-> {}]
  <2>1. Phase(tab'[t].at, tab'[t].agreed) = "shown"
    BY <1>1, <1>5, Phases
  <2> QED BY <1>4, <1>5, <1>6, <2>1 DEF Flow
<1>9. Protocol!Becomes(t, Protocol!Flow("shown", q, {g}))
  BY <1>7, <1>8, Becoming DEF Protocol!Flow
<1>10. Flow(t).phase = "asking" /\ Flow(t).request = q
  BY <1>1, Phases DEF Flow
<1> QED BY <1>2, <1>3, <1>9, <1>10 DEF Protocol!Show

\* The user who agreed is looked up, and consents.
LEMMA GiveStep ==
    ASSUME IInv, NEW t \in Tabs, ApproveLookup(t), login # None, tab[t].agreed
    PROVE  Protocol!Give(t)
<1>1. /\ tab \in [Tabs -> Tab] /\ tab[t] \in Tab
      /\ tab[t].at = "approveLookup" /\ tab[t].agreed \in BOOLEAN
  BY Known DEF ApproveLookup, Tab
<1>2. /\ tab' = [tab EXCEPT ![t].user = login, ![t].at = "issue"]
      /\ UNCHANGED <<asked, shown, login>>
  BY DEF ApproveLookup
<1>3. tab'[t].at = "issue" /\ tab'[t].user = login /\ tab'[t].agreed = tab[t].agreed
  BY <1>1, <1>2 DEF Tab
<1>4. Only(t)
  BY <1>1, <1>2 DEF Only
<1>5. Flow(t)' = Moved(t, "giving", {login}, {})
  <2>1. Phase(tab'[t].at, tab'[t].agreed) = "giving"
    BY <1>1, <1>3, Phases
  <2> QED BY <1>2, <1>3, <2>1 DEF Flow, Moved
<1>6. Flow(t).phase = "agreed"
  BY <1>1, Phases DEF Flow
<1> QED BY <1>4, <1>5, <1>6, Moving DEF Protocol!Give

\* The user answers the screen.
LEMMA DecideStep ==
    ASSUME IInv, NEW t \in Tabs, NEW agreed \in BOOLEAN, Decide(t, agreed)
    PROVE  Protocol!Decide(t)
<1> DEFINE decision == IF agreed THEN "agreed" ELSE "denied"
<1>1. /\ tab \in [Tabs -> Tab] /\ tab[t] \in Tab
      /\ tab[t].at = "consent" /\ tab[t].agreed \in BOOLEAN
      /\ UNCHANGED <<asked, shown, login>>
  BY Known DEF Decide, Tab
<1>2. tab' = [tab EXCEPT ![t].at = "approve", ![t].agreed = agreed,
                         ![t].q = Bounce(@)]
  BY DEF Decide
<1>3. tab'[t].at = "approve" /\ tab'[t].agreed = agreed
  BY <1>1, <1>2 DEF Tab
<1>4. Only(t)
  BY <1>1, <1>2 DEF Only
<1>5. Flow(t)' = Moved(t, decision, {}, {})
  <2>1. Phase(tab'[t].at, tab'[t].agreed) = decision
    BY <1>3, Phases
  <2> QED BY <1>1, <1>3, <2>1 DEF Flow, Moved
<1>6. Flow(t).phase = "shown"
  BY <1>1, Phases DEF Flow
<1> QED BY <1>4, <1>5, <1>6, Moving DEF Protocol!Decide

\* The browser's back button is the protocol's.
LEMMA BackStep ==
    ASSUME IInv, NEW t \in Tabs, Back(t)
    PROVE  Protocol!Back(t)
<1>1. /\ tab \in [Tabs -> Tab] /\ tab[t] \in Tab /\ shown[t] # None
      /\ tab[t].at \in {"code", "refused", "errorPage"} /\ tab[t].agreed \in BOOLEAN
      /\ UNCHANGED <<asked, shown, login>>
  BY Known DEF Back, Tab, Answers
<1>2. tab' = [tab EXCEPT ![t].at = "consent", ![t].q = shown[t].q]
  BY DEF Back
<1>3. tab'[t].at = "consent" /\ tab'[t].agreed = tab[t].agreed
  BY <1>1, <1>2 DEF Tab
<1>4. Only(t)
  BY <1>1, <1>2 DEF Only
<1>5. Flow(t)' = Moved(t, "shown", {}, {})
  <2>1. Phase(tab'[t].at, tab'[t].agreed) = "shown"
    BY <1>1, <1>3, Phases
  <2> QED BY <1>1, <1>3, <2>1 DEF Flow, Moved
<1>6. Flow(t).phase \in Protocol!Answered /\ Flow(t).screen # {}
  BY <1>1, Phases DEF Flow, Protocol!Answered
<1> QED BY <1>4, <1>5, <1>6, Moving DEF Protocol!Back

\* An application asks, somebody posts a form, or the tab goes on.
LEMMA EndsOfFlow ==
    ASSUME IInv, NEW t \in Tabs
    PROVE  /\ \A q \in Query : Open(t, q) => Protocol!Ask(t)
           /\ \A q \in Query : PostForm(t, q) => Protocol!Post(t)
           /\ Leave(t) => Protocol!Leave(t)
<1>1. /\ TypeOK /\ tab \in [Tabs -> Tab] /\ tab[t] \in Tab /\ TabInv(t)
      /\ tab[t].agreed \in BOOLEAN
  BY Known DEF IInv, Tab
<1>2. tab[t].at = "app" => Flow(t) = Protocol!NewFlow
  BY <1>1, Phases DEF Flow, TabInv, Protocol!NewFlow, Protocol!Flow
<1>3. ASSUME NEW q \in Query, Open(t, q) PROVE Protocol!Ask(t)
  <2>1. /\ tab'[t].at = "authorize" /\ tab'[t].agreed = tab[t].agreed
        /\ asked'[t] = q /\ shown'[t] = None /\ tab[t].at = "app" /\ Only(t)
    BY <1>1, <1>3 DEF Open, Tab, TypeOK, TabInv, Only
  <2>2. Flow(t)' = Protocol!Flow("asking", q, {})
    <3>1. Phase(tab'[t].at, tab'[t].agreed) = "asking"
      BY <1>1, <2>1, Phases
    <3> QED BY <2>1, <3>1 DEF Flow, Protocol!Flow
  <2> QED BY <1>2, <2>1, <2>2, Becoming DEF Protocol!Ask, Protocol!NewFlow, Protocol!Flow
<1>4. ASSUME NEW q \in Query, PostForm(t, q) PROVE Protocol!Post(t)
  <2>1. /\ tab'[t].at = "approve" /\ tab'[t].agreed = TRUE
        /\ asked'[t] = None /\ shown'[t] = None /\ tab[t].at = "app" /\ Only(t)
    BY <1>1, <1>4 DEF PostForm, Tab, TypeOK, TabInv, Only
  <2>2. Flow(t)' = Protocol!Flow("agreed", None, {})
    <3>1. Phase(tab'[t].at, tab'[t].agreed) = "agreed"
      BY <2>1, Phases
    <3> QED BY <2>1, <3>1 DEF Flow, Protocol!Flow
  <2> QED BY <1>2, <2>1, <2>2, Becoming DEF Protocol!Post, Protocol!NewFlow, Protocol!Flow
<1>5. ASSUME Leave(t) PROVE Protocol!Leave(t)
  <2>1. /\ tab'[t].at = "app" /\ tab'[t].agreed = FALSE
        /\ asked'[t] = None /\ shown'[t] = None /\ tab[t].at \in Answers /\ Only(t)
    BY <1>1, <1>5 DEF Leave, NewTab, TypeOK, Only
  <2>2. Flow(t)' = Protocol!NewFlow
    <3>1. Phase(tab'[t].at, tab'[t].agreed) = "idle"
      BY <2>1, Phases
    <3> QED BY <2>1, <3>1 DEF Flow, Protocol!Flow, Protocol!NewFlow
  <2>3. Flow(t).phase \in Protocol!Answered
    BY <1>1, <2>1, Phases DEF Flow, Answers, Protocol!Answered
  <2> QED BY <2>1, <2>2, <2>3, Becoming DEF Protocol!Leave
<1> QED BY <1>3, <1>4, <1>5

\* What a step of one tab leaves of it and of the others, when it goes to a page
\* or an error.
LEMMA Going ==
    ASSUME IInv, NEW t \in Tabs, UNCHANGED <<login, asked, shown>>,
           NEW at \in {"rejected", "refused", "errorPage", "login", "authorizeLookup",
                       "approveLookup"},
           \/ Goto(t, at)
           \/ Pass(t, at)
           \/ tab' = [tab EXCEPT ![t].at = at, ![t].q = Bounce(@)]
           \/ tab' = [tab EXCEPT ![t].user = login, ![t].at = at]
    PROVE  /\ Only(t) /\ tab'[t].at = at /\ tab'[t].agreed = tab[t].agreed
           /\ tab'[t].agreed \in BOOLEAN
BY Known DEF Goto, Pass, Only, Tab

\* Every statement of a handler is a step of the protocol or none.
LEMMA HandleFlow ==
    ASSUME IInv, NEW t \in Tabs, Handle(t) \/ Fail(t)
    PROVE  [Protocol!Next]_(Protocol!protocol)
<1>1. CASE Validate(t)
  <2>1. UNCHANGED <<login, asked, shown>> /\ tab[t].at \in {"authorize", "approve"}
    BY <1>1 DEF Validate
  <2>2. ASSUME NEW at \in {"rejected", "refused"}, Goto(t, at)
        PROVE  Protocol!Refuse(t)
    BY <2>1, <2>2, Going, RefuseStep DEF Handlers
  <2>3. ASSUME Pass(t, IF tab[t].at = "authorize" THEN "authorizeLookup"
                                                  ELSE "approveLookup")
        PROVE  UNCHANGED Protocol!protocol
    BY <2>1, <2>3, Going, SamePhase
  <2> QED BY <1>1, <2>2, <2>3 DEF Validate, Protocol!Next
<1>2. CASE AuthorizeError(t)
  <2>1. UNCHANGED Protocol!protocol
    BY <1>2, Going, SamePhase DEF AuthorizeError
  <2> QED BY <2>1
<1>3. CASE AuthorizeLookup(t)
  <2>1. CASE login = None
    <3>1. UNCHANGED Protocol!protocol
      BY <1>3, <2>1, Going, SamePhase DEF AuthorizeLookup
    <3> QED BY <3>1
  <2>2. CASE login # None
    BY <1>3, <2>2, ShowStep DEF Protocol!Next
  <2> QED BY <2>1, <2>2
<1>4. CASE ApproveLookup(t)
  <2>1. CASE login = None
    <3>1. Protocol!StartOver(t)
      BY <1>4, <2>1, Going, StartOverStep DEF ApproveLookup
    <3> QED BY <3>1 DEF Protocol!Next
  <2>2. CASE login # None /\ tab[t].agreed
    BY <1>4, <2>2, GiveStep DEF Protocol!Next
  <2>3. CASE login # None /\ ~tab[t].agreed
    <3>1. Protocol!Refuse(t)
      BY <1>4, <2>3, Going, RefuseStep DEF ApproveLookup, Handlers
    <3> QED BY <3>1 DEF Protocol!Next
  <2> QED BY <2>1, <2>2, <2>3
<1>5. CASE Issue(t)
  BY <1>5, IssueStep DEF Protocol!Next
<1>6. CASE Fail(t)
  <2>1. UNCHANGED <<login, asked, shown>> /\ tab[t].at \in Handlers
    BY <1>6 DEF Fail
  <2>2. CASE tab[t].at \in {"authorize", "approve", "issue"}
    <3>1. Goto(t, "rejected")
      BY <1>6, <2>2, Zenon DEF Fail
    <3>2. Protocol!Refuse(t)
      BY <2>1, <2>2, <3>1, Going, RefuseStep
    <3> QED BY <3>2 DEF Protocol!Next
  <2>3. CASE tab[t].at = "authorizeLookup"
    <3>1. Goto(t, "login")
      BY <1>6, <2>3, Zenon DEF Fail
    <3> QED BY <2>1, <2>3, <3>1, Going, SamePhase
  <2>4. CASE tab[t].at = "approveLookup"
    <3>1. tab' = [tab EXCEPT ![t].at = "login", ![t].q = Bounce(@)]
      BY <1>6, <2>4, Zenon DEF Fail
    <3>2. Protocol!StartOver(t)
      BY <2>1, <2>4, <3>1, Going, StartOverStep
    <3> QED BY <3>2 DEF Protocol!Next
  <2>5. CASE tab[t].at = "rejected"
    <3>1. Goto(t, "errorPage")
      BY <1>6, <2>5, Zenon DEF Fail
    <3> QED BY <2>1, <2>5, <3>1, Going, SamePhase
  <2> QED BY <2>1, <2>2, <2>3, <2>4, <2>5 DEF Handlers
<1> QED BY <1>1, <1>2, <1>3, <1>4, <1>5, <1>6 DEF Handle

\* Signing in, in this tab or elsewhere, moves no flow.
LEMMA SignInStep ==
    ASSUME IInv, login' \in Users \cup {None},
           \/ UNCHANGED <<tab, asked, shown>>
           \/ \E t \in Tabs, u \in Users : LoginSubmit(t, u)
    PROVE  Protocol!SignIn
<1>1. ASSUME NEW t \in Tabs, NEW u \in Users, LoginSubmit(t, u), NEW s \in Tabs
      PROVE  Flow(s)' = Flow(s)
  <2>1. /\ tab \in [Tabs -> Tab] /\ tab[t] \in Tab /\ tab[t].at = "login"
        /\ tab[t].agreed \in BOOLEAN /\ UNCHANGED <<asked, shown>>
    BY <1>1, Known DEF LoginSubmit, Tab
  <2>2. /\ tab'[t].at = "authorize" /\ tab'[t].agreed = tab[t].agreed
        /\ s # t => tab'[s] = tab[s]
    BY <1>1, <2>1 DEF LoginSubmit, Goto, Tab
  <2>3. CASE s # t
    BY <2>1, <2>2, <2>3 DEF Flow
  <2>4. CASE s = t
    <3>1. Phase(tab'[t].at, tab'[t].agreed) = Phase(tab[t].at, tab[t].agreed)
      BY <2>1, <2>2, Phases
    <3> QED BY <2>1, <2>2, <2>4, <3>1 DEF Flow
  <2> QED BY <2>3, <2>4
<1>2. \A s \in Tabs : Flow(s)' = Flow(s)
  <2>1. ASSUME UNCHANGED <<tab, asked, shown>>, NEW s \in Tabs
        PROVE  Flow(s)' = Flow(s)
    BY <2>1 DEF Flow
  <2> QED BY <1>1, <2>1
<1>3. Flows' = Flows
  BY <1>2 DEF Flows
<1> QED BY <1>3 DEF Flows, Protocol!SignIn

\* The server keeps nothing of a flow between its pages, and still every flow is
\* one of the protocol, with any number of tabs, whatever is posted and whatever
\* lapses (Authorize and ConsentApprove, internal/auth/oauth_handler.go).
THEOREM FlowImplementsProtocol == Spec => ImplementsProtocol
<1>1. Init => Protocol!Init
  <2> SUFFICES ASSUME Init PROVE Protocol!Init
    OBVIOUS
  <2>1. \A t \in Tabs : Flow(t) = Protocol!NewFlow
    BY Phases DEF Init, NewTab, Flow, Protocol!NewFlow, Protocol!Flow
  <2> QED BY <2>1 DEF Init, Protocol!Init
<1>2. IInv /\ [Next]_vars => [Protocol!Next]_(Protocol!protocol)
  <2> SUFFICES ASSUME IInv, [Next]_vars
               PROVE  [Protocol!Next]_(Protocol!protocol)
    OBVIOUS
  <2>1. login \in Users \cup {None}
    BY DEF IInv, TypeOK
  <2>2. ASSUME NEW t \in Tabs, User(t)
        PROVE  Protocol!Next
    <3>1. ASSUME NEW u \in Users, LoginSubmit(t, u) PROVE Protocol!SignIn
      BY <3>1, SignInStep DEF LoginSubmit
    <3> QED BY <2>2, <3>1, DecideStep DEF User, Protocol!Next
  <2>3. ASSUME NEW t \in Tabs, Back(t) \/ Leave(t)
        PROVE  Protocol!Next
    BY <2>3, BackStep, EndsOfFlow DEF Protocol!Next
  <2>4. ASSUME NEW t \in Tabs, NEW q \in Query, Open(t, q) \/ PostForm(t, q)
        PROVE  Protocol!Next
    BY <2>4, EndsOfFlow DEF Protocol!Next
  <2>5. ASSUME Lapse \/ (\E u \in Users : LoginElsewhere(u))
               \/ (\E c \in Clients : Deactivate(c)) \/ UNCHANGED vars
        PROVE  Protocol!Next
    <3>1. UNCHANGED <<tab, asked, shown>> /\ login' \in Users \cup {None}
      BY <2>1, <2>5 DEF Lapse, LoginElsewhere, Deactivate, vars
    <3> QED BY <3>1, SignInStep DEF Protocol!Next
  <2> QED BY <2>2, <2>3, <2>4, <2>5, HandleFlow DEF Next
<1> QED BY <1>1, <1>2, Invariance, PTL DEF Spec, ImplementsProtocol, Protocol!Spec
=============================================================================

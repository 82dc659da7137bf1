-------------------------- MODULE AuthServer_proofs --------------------------
(***************************************************************************)
(* The inductive invariant of AuthServer and what follows from it, for any *)
(* number of users, clients, sessions, codes and concurrent requests, any  *)
(* set of endpoints and any faults.  A step of one request leaves the      *)
(* others alone; what they rely on in the tables survives every step       *)
(* (TablesKeep), so OthersKeep is proved once and each statement is left   *)
(* with the facts about its own request.                                   *)
(***************************************************************************)
EXTENDS AuthServer_types

\* One request is untouched by a step.
Same(q) == call'[q] = call[q] /\ pc'[q] = pc[q] /\ tx'[q] = tx[q]

\* Committed rows stay, with their owner, scope and origin; spent stays spent.
TablesKeep ==
    /\ \A t \in Tokens : (Committed(t) => Committed(t)') /\ (Spent(t) => Spent(t)')
    /\ \A s \in Sessions : Committed(s) =>
         /\ session'[s].user = session[s].user
         /\ session'[s].client = session[s].client
         /\ session'[s].scope = session[s].scope
         /\ session'[s].from = session[s].from
    /\ \A c \in Codes : Committed(c) =>
         /\ code'[c].user = code[c].user
         /\ code'[c].client = code[c].client
         /\ code'[c].scope = code[c].scope

\* What IInv says of one request.
OneInv(r) == /\ Carried(r)
             /\ Presented(r)
             /\ Copied(r)
             /\ Wrote(r)
             /\ Found(r)
             /\ Inserted(r)

Success(r) == pc[r] = "reply" => \A t \in Ended(r) : Committed(t) /\ Spent(t)

\* A request that a step leaves alone still knows what it knew.
LEMMA OthersKeep ==
    ASSUME IInv, NEW q \in Requests, Same(q), TablesKeep,
           tx[q].mints # None /\ pc[q] # "reply" => ~Committed(tx[q].mints)'
    PROVE  OneInv(q)' /\ Success(q)'
<1>0. /\ call[q] \in Call /\ tx[q] \in Tx /\ Success(q)
      /\ Carried(q) /\ Presented(q) /\ Copied(q) /\ Wrote(q) /\ Found(q) /\ Inserted(q)
  BY DEF IInv, TypeOK, RequestInv, SuccessMeansEnded, Success
<1>1. Carried(q)'
  BY <1>0 DEF Same, Carried, WellFormed
<1>2. Presented(q)'
  BY <1>0 DEF Same, Presented, TablesKeep, Call, Tokens
<1>3. Copied(q)'
  <2> DEFINE t == call[q].token
             b == call[q].bearer
  <2>1. call[q].op \in Exchanging => t \in Tokens /\ Committed(t)
    BY <1>0, StoreAssumption
       DEF Carried, WellFormed, Presented, Exchanging, Tokens
  <2>2. call[q].op = "logout" => b \in Sessions /\ Committed(b)
    BY <1>0, StoreAssumption
       DEF Carried, WellFormed, Presented, BearerEndpoints
  <2>3. t \in Tokens /\ Committed(t) =>
          IF t \in Codes
          THEN /\ code'[t].user = code[t].user
               /\ code'[t].client = code[t].client
               /\ code'[t].scope = code[t].scope
          ELSE /\ session'[t].user = session[t].user
               /\ session'[t].client = session[t].client
               /\ session'[t].scope = session[t].scope
    BY DEF TablesKeep, Tokens
  <2>4. b \in Sessions /\ Committed(b) => session'[b].user = session[b].user
    BY DEF TablesKeep
  <2> HIDE DEF t, b
  <2> QED BY <1>0, <2>1, <2>2, <2>3, <2>4 DEF Same, Copied, t, b
<1>4. Wrote(q)'
  BY <1>0 DEF Same, Wrote
<1>5. Found(q)'
  BY <1>0 DEF Same, Found, TablesKeep, Tokens, Tx
<1>6. Inserted(q)'
  BY <1>0 DEF Same, Inserted, TablesKeep, Tokens, Tx, LogEntry
<1>7. Success(q)'
  BY <1>0 DEF Same, Success, Ended, TablesKeep
<1> QED BY <1>1, <1>2, <1>3, <1>4, <1>5, <1>6, <1>7 DEF OneInv

\* The three facts about all sessions survive a step that commits no session
\* and logs nothing.
LEMMA TablesFacts ==
    ASSUME IInv, TypeInv', TablesKeep, UNCHANGED audit,
           \A s \in Sessions : Committed(s)' => Committed(s)
    PROVE  ExchangeSpends' /\ ExchangeKeepsBinding' /\ IssuesAreTraced'
<1>1. \A s \in Sessions : session[s].from \in Tokens \cup {None}
  BY DEF IInv, TypeOK, SessionRow
<1>2. ExchangeSpends'
  BY <1>1 DEF IInv, ExchangeSpends, TablesKeep
<1>3. ExchangeKeepsBinding'
  <2> SUFFICES ASSUME NEW s \in Sessions, Committed(s)', session'[s].from # None
               PROVE  LET f == session'[s].from IN
                      IF f \in Codes
                      THEN /\ session'[s].user = code'[f].user
                           /\ session'[s].client = code'[f].client
                           /\ session'[s].scope = code'[f].scope
                      ELSE /\ session'[s].user = session'[f].user
                           /\ session'[s].client = session'[f].client
                           /\ session'[s].scope = session'[f].scope
    BY DEF ExchangeKeepsBinding
  <2> DEFINE f == session[s].from
  <2>1. Committed(s) /\ session'[s].from = f /\ f # None /\ f \in Tokens
    BY <1>1 DEF TablesKeep
  <2>2. Spent(f)
    BY <2>1 DEF IInv, ExchangeSpends
  <2>3. Committed(f)
    BY <2>2 DEF Committed, Spent
  <2> QED BY <2>1, <2>3, <1>1 DEF IInv, ExchangeKeepsBinding, TablesKeep, Tokens
<1>4. IssuesAreTraced'
  BY DEF IInv, IssuesAreTraced, Entries, TablesKeep, Tokens
<1> QED BY <1>2, <1>3, <1>4

\* Steps that leave the tables alone keep everything about their rows.
LEMMA RowsKeep ==
    ASSUME UNCHANGED rows
    PROVE  /\ TablesKeep
           /\ UNCHANGED audit
           /\ \A t : Committed(t)' = Committed(t) /\ Spent(t)' = Spent(t)
BY DEF rows, TablesKeep, Committed, Spent

\* A step of one request that commits no session and logs nothing.
LEMMA TableInv ==
    ASSUME IInv, TypeInv', NEW r \in Requests, TablesKeep, UNCHANGED audit,
           \A s \in Sessions : Committed(s)' => Committed(s),
           \A q \in Requests \ {r} : Same(q),
           OneInv(r)', Success(r)', MintsAreDistinct',
           \A t \in held' : Committed(t)'
    PROVE  IInv'
<1>1. \A q \in Requests : OneInv(q)' /\ Success(q)'
  <2> SUFFICES ASSUME NEW q \in Requests, q # r
               PROVE  OneInv(q)' /\ Success(q)'
    OBVIOUS
  <2>1. tx[q].mints # None /\ pc[q] # "reply" => ~Committed(tx[q].mints)'
    <3>1. tx[q].mints \in Sessions \cup {None}
      BY DEF IInv, TypeOK, Tx
    <3> QED BY <3>1 DEF IInv, RequestInv, Inserted, Same, Committed
  <2> QED BY <2>1, OthersKeep
<1>2. RequestInv' /\ SuccessMeansEnded'
  BY <1>1 DEF RequestInv, SuccessMeansEnded, OneInv, Success
<1>3. DeliveredIsCommitted'
  BY DEF DeliveredIsCommitted
<1>4. ExchangeSpends' /\ ExchangeKeepsBinding' /\ IssuesAreTraced'
  BY TablesFacts
<1> QED BY <1>2, <1>3, <1>4 DEF IInv, TypeInv

\* A step of one request that leaves the tables alone.
LEMMA LocalInv ==
    ASSUME IInv, TypeInv', NEW r \in Requests, UNCHANGED rows,
           \A q \in Requests \ {r} : Same(q),
           OneInv(r)', Success(r)', MintsAreDistinct',
           \A t \in held' : Committed(t)
    PROVE  IInv'
<1>1. \A t \in held' : Committed(t)'
  BY RowsKeep
<1> QED BY <1>1, RowsKeep, TableInv

\* The handler returns.
LEMMA AnswerInv ==
    ASSUME IInv, TypeInv', NEW r \in Requests, Answer(r), UNCHANGED rows,
           \A t \in held' : Committed(t)
    PROVE  IInv'
<1>1. /\ call'[r] = NoCall /\ pc'[r] = "idle" /\ tx'[r] = NoTx
      /\ \A q \in Requests \ {r} : Same(q)
  BY DEF Answer, IInv, TypeOK, Same
<1>2. OneInv(r)'
  <2>1. Carried(r)'
    BY DEF TypeInv
  <2>2. /\ NoCall.op = "none" /\ NoCall.bearer = None /\ NoCall.token = None
        /\ NoTx.mints = None /\ NoTx.issues = None /\ NoTx.writes = {}
        /\ NoTx.todo = {} /\ NoTx.seen = {} /\ NoTx.logs = {}
    BY DEF NoCall, NoTx
  <2>3. Presented(r)'
    BY <1>1, <2>2 DEF Presented
  <2>4. Copied(r)'
    BY <1>1, <2>2 DEF Copied, Exchanging, ClientEndpoints
  <2>5. Wrote(r)' /\ Found(r)'
    BY <1>1, <2>2 DEF Wrote, Found, Exchanging
  <2>6. Inserted(r)'
    BY <1>1, <2>2 DEF Inserted, Issuing
  <2> QED BY <2>1, <2>3, <2>4, <2>5, <2>6 DEF OneInv
<1>3. Success(r)'
  BY <1>1 DEF Success
<1>4. MintsAreDistinct'
  <2>1. NoTx.mints = None
    BY DEF NoTx
  <2> QED BY <1>1, <2>1 DEF MintsAreDistinct, IInv, Same
<1> QED BY <1>1, <1>2, <1>3, <1>4, LocalInv

\* A statement that leaves the tables alone.
LEMMA AdvanceInv ==
    ASSUME IInv, TypeInv', NEW r \in Requests, NEW STATE label, NEW STATE t,
           Advance(r, label, t), UNCHANGED <<rows, held>>,
           t.mints = tx[r].mints, label # "reply" \/ call[r].op = "introspect",
           Copied(r)', Wrote(r)', Found(r)', Inserted(r)'
    PROVE  IInv'
<1>1. /\ call'[r] = call[r] /\ pc'[r] = label /\ tx'[r] = t
      /\ \A q \in Requests \ {r} : Same(q)
  BY DEF Advance, IInv, TypeOK, Same
<1>2. OneInv(r)'
  <2>1. Carried(r)'
    BY DEF TypeInv
  <2>2. Presented(r)'
    BY <1>1, RowsKeep DEF Presented, IInv, RequestInv
  <2> QED BY <2>1, <2>2 DEF OneInv
<1>3. Success(r)'
  <2> SUFFICES ASSUME pc'[r] = "reply" PROVE Ended(r)' = {}
    BY DEF Success
  <2> QED BY <1>1 DEF Ended
<1>4. MintsAreDistinct'
  BY <1>1 DEF MintsAreDistinct, IInv, Same
<1>5. \A x \in held' : Committed(x)
  BY DEF IInv, DeliveredIsCommitted
<1> QED BY <1>1, <1>2, <1>3, <1>4, <1>5, LocalInv

\* The request arrives.
LEMMA ReceiveInv ==
    ASSUME IInv, TypeInv', NEW r \in Requests, Request(r)
    PROVE  IInv'
<1>0. TypeInv
  BY DEF IInv, TypeInv, RequestInv
<1>1. PICK d \in Call : /\ Receive(r, d)
                        /\ WellFormed(d)
                        /\ OnRoute(d.op, "auth")
                        /\ d.bearer \in held \cup {None}
                        /\ d.token \in held \cup {None}
  BY <1>0, RequestReceives
<1> DEFINE x == {y \in Roles : Unfit(d, y)}
           c == [d EXCEPT !.dead = x]
<1>2. /\ call'[r] = c /\ pc'[r] = "auth" /\ pc[r] = "idle" /\ tx' = tx
      /\ \A q \in Requests \ {r} : Same(q)
      /\ UNCHANGED <<rows, held>>
  BY <1>1 DEF Receive, IInv, TypeOK, Same
<1>3. c.bearer \in held \cup {None} /\ c.token \in held \cup {None}
  <2> HIDE DEF x
  <2> QED BY <1>1 DEF Call
<1> HIDE DEF c
<1>4. tx[r] = NoTx /\ tx'[r] = NoTx
  BY <1>2 DEF IInv, RequestInv, Copied
<1>5. /\ NoTx.mints = None /\ NoTx.issues = None /\ NoTx.writes = {}
      /\ NoTx.todo = {} /\ NoTx.seen = {} /\ NoTx.logs = {}
      /\ NoTx.user = None
  BY DEF NoTx
<1>6. OneInv(r)'
  <2>1. Carried(r)'
    BY DEF TypeInv
  <2>2. Presented(r)'
    BY <1>2, <1>3, RowsKeep DEF Presented, IInv, DeliveredIsCommitted
  <2>3. Copied(r)'
    BY <1>2, <1>4, <1>5 DEF Copied
  <2>4. Wrote(r)' /\ Found(r)'
    BY <1>2, <1>4, <1>5 DEF Wrote, Found
  <2>5. Inserted(r)'
    BY <1>2, <1>4, <1>5 DEF Inserted
  <2> QED BY <2>1, <2>2, <2>3, <2>4, <2>5 DEF OneInv
<1>7. Success(r)'
  BY <1>2 DEF Success
<1>8. MintsAreDistinct'
  BY <1>2 DEF MintsAreDistinct, IInv
<1> QED BY <1>2, <1>6, <1>7, <1>8, LocalInv DEF IInv, DeliveredIsCommitted


\* What the invariant says of the request at hand, for the leaves below.
LEMMA Here ==
    ASSUME IInv, NEW r \in Requests
    PROVE  /\ call[r] \in Call /\ tx[r] \in Tx /\ pc[r] \in Labels
           /\ OnRoute(call[r].op, pc[r]) /\ WellFormed(call[r])
           /\ Presented(r) /\ Copied(r) /\ Wrote(r) /\ Found(r) /\ Inserted(r)
           /\ pc[r] \in {"idle", "auth"} => tx[r] = NoTx
BY DEF IInv, TypeOK, RequestInv, Carried, Copied

\* The fields of the empty transaction record.
LEMMA NoTxFields ==
    /\ NoTx.mints = None /\ NoTx.issues = None /\ NoTx.writes = {}
    /\ NoTx.todo = {} /\ NoTx.seen = {} /\ NoTx.logs = {}
    /\ NoTx.user = None /\ NoTx.client = None /\ NoTx.scope = None
BY DEF NoTx

\* The first-party statements.
LEMMA AuthStepInv ==
    ASSUME IInv, TypeInv', NEW r \in Requests, AuthStep(r)
    PROVE  IInv'
<1> DEFINE b == call[r].bearer
           t == call[r].token
<1>0. /\ call[r] \in Call /\ tx[r] \in Tx /\ pc[r] \in Labels
      /\ OnRoute(call[r].op, pc[r]) /\ WellFormed(call[r])
      /\ Presented(r) /\ Copied(r) /\ Wrote(r) /\ Found(r) /\ Inserted(r)
      /\ pc[r] \in {"idle", "auth"} => tx[r] = NoTx
  BY Here
<1>a. \A x \in held : Committed(x)
  BY DEF IInv, DeliveredIsCommitted
<1>1. CASE SelectUser(r)
  <2> DEFINE u == [tx[r] EXCEPT !.user = call[r].user]
  <2>1. pc[r] = "auth" /\ call[r].op = "login"
    BY <1>1 DEF SelectUser
  <2>2. UNCHANGED <<rows, held>> /\ ((Advance(r, "mint", u)) \/ Answer(r))
    BY <1>1 DEF SelectUser, Check
  <2>3. CASE Answer(r)
    BY <2>2, <2>3, <1>a, AnswerInv
  <2>4. CASE Advance(r, "mint", u)
    <3>1. /\ call'[r] = call[r] /\ pc'[r] = "mint" /\ tx'[r] = u
          /\ u.user = call[r].user /\ u.client = tx[r].client
          /\ u.scope = tx[r].scope /\ u.writes = tx[r].writes
          /\ u.todo = tx[r].todo /\ u.seen = tx[r].seen
          /\ u.mints = tx[r].mints /\ u.issues = tx[r].issues
          /\ u.logs = tx[r].logs
      BY <1>0, <2>1, <2>4 DEF Advance, Tx, IInv, TypeOK
    <3> HIDE DEF u
    <3>2. Copied(r)'
      BY <1>0, <2>1, <2>2, <3>1, NoTxFields DEF Copied, Exchanging, ClientEndpoints, rows
    <3>3. Wrote(r)' /\ Inserted(r)'
      BY <1>0, <2>1, <3>1, NoTxFields DEF Wrote, Inserted, Exchanging, Issuing
    <3>4. Found(r)'
      BY <1>0, <2>1, <2>2, <3>1, NoTxFields, RowsKeep DEF Found
    <3> QED BY <2>1, <2>2, <2>4, <3>1, <3>2, <3>3, <3>4, AdvanceInv
  <2> QED BY <2>2, <2>3, <2>4
<1>2. CASE RequireAuth(r)
  <2> DEFINE u == [tx[r] EXCEPT !.user = session[b].user]
             l == AfterAuth(call[r].op)
  <2>1. /\ pc[r] = "auth"
         /\ \/ call[r].op = "refresh" /\ l = "session"
            \/ call[r].op = "logout" /\ l = "logout"
            \/ call[r].op = "logoutAll" /\ l = "scan"
    BY <1>2 DEF RequireAuth, BearerEndpoints, AfterAuth
  <2>2. UNCHANGED <<rows, held>> /\ ((Advance(r, l, u) /\ (call[r].op = "logoutAll" => session[b].user # None)) \/ Answer(r))
    BY <1>2 DEF RequireAuth, Check
  <2>3. CASE Answer(r)
    BY <2>2, <2>3, <1>a, AnswerInv
  <2>4. CASE Advance(r, l, u) /\ (call[r].op = "logoutAll" => session[b].user # None)
    <3>1. /\ call'[r] = call[r] /\ pc'[r] = l /\ tx'[r] = u
          /\ u.user = session[b].user /\ u.client = tx[r].client
          /\ u.scope = tx[r].scope /\ u.writes = tx[r].writes
          /\ u.todo = tx[r].todo /\ u.seen = tx[r].seen
          /\ u.mints = tx[r].mints /\ u.issues = tx[r].issues
          /\ u.logs = tx[r].logs
      BY <1>0, <2>1, <2>4 DEF Advance, Tx, IInv, TypeOK
    <3> HIDE DEF u
    <3>2. Copied(r)'
      BY <1>0, <2>1, <2>2, <2>4, <3>1, NoTxFields DEF Copied, Exchanging, ClientEndpoints, rows
    <3>3. Wrote(r)' /\ Inserted(r)'
      BY <1>0, <2>1, <3>1, NoTxFields DEF Wrote, Inserted, Exchanging, Issuing
    <3>4. Found(r)'
      BY <1>0, <2>1, <2>2, <3>1, NoTxFields, RowsKeep DEF Found
    <3> QED BY <2>1, <2>2, <2>4, <3>1, <3>2, <3>3, <3>4, AdvanceInv
  <2> QED BY <2>2, <2>3, <2>4
<1>3. CASE SelectSession(r)
  <2> DEFINE u == [tx[r] EXCEPT !.user = session[t].user,
                                !.client = session[t].client,
                                !.scope = session[t].scope]
  <2>1. pc[r] = "session" /\ call[r].op = "refresh" /\ t \in Sessions /\ t \notin Codes
    BY <1>0, <1>3, StoreAssumption DEF SelectSession, WellFormed
  <2>2. UNCHANGED <<rows, held>> /\ ((Advance(r, "rotate", u)) \/ Answer(r))
    BY <1>3 DEF SelectSession, Check
  <2>3. CASE Answer(r)
    BY <2>2, <2>3, <1>a, AnswerInv
  <2>4. CASE Advance(r, "rotate", u)
    <3>1. /\ call'[r] = call[r] /\ pc'[r] = "rotate" /\ tx'[r] = u
          /\ u.user = session[t].user /\ u.client = session[t].client
          /\ u.scope = session[t].scope /\ u.writes = tx[r].writes
          /\ u.todo = tx[r].todo /\ u.seen = tx[r].seen
          /\ u.mints = tx[r].mints /\ u.issues = tx[r].issues
          /\ u.logs = tx[r].logs
      BY <1>0, <2>1, <2>4 DEF Advance, Tx, IInv, TypeOK
    <3> HIDE DEF u
    <3>2. Copied(r)'
      BY <1>0, <2>1, <2>2, <3>1 DEF Copied, Exchanging, ClientEndpoints, rows
    <3>3. Wrote(r)' /\ Inserted(r)'
      BY <1>0, <2>1, <3>1 DEF Wrote, Inserted, Exchanging, Issuing
    <3>4. Found(r)'
      BY <1>0, <2>1, <2>2, <3>1, RowsKeep DEF Found
    <3> QED BY <2>1, <2>2, <2>4, <3>1, <3>2, <3>3, <3>4, AdvanceInv
  <2> QED BY <2>2, <2>3, <2>4
<1>4. CASE LogoutUpdate(r)
  <2> DEFINE u == [tx[r] EXCEPT !.user = session[b].user,
                                !.writes = @ \cup {b}]
  <2>1. pc[r] = "logout" /\ call[r].op = "logout"
    BY <1>0, <1>4 DEF LogoutUpdate, OnRoute
  <2>2. UNCHANGED <<rows, held>> /\ ((Advance(r, "audit", u) /\ (session[b].user # None)) \/ Answer(r))
    BY <1>4 DEF LogoutUpdate, Check
  <2>3. CASE Answer(r)
    BY <2>2, <2>3, <1>a, AnswerInv
  <2>4. CASE Advance(r, "audit", u) /\ (session[b].user # None)
    <3>1. /\ call'[r] = call[r] /\ pc'[r] = "audit" /\ tx'[r] = u
          /\ u.user = session[b].user /\ u.client = tx[r].client
          /\ u.scope = tx[r].scope /\ u.writes = tx[r].writes \cup {b}
          /\ u.todo = tx[r].todo /\ u.seen = tx[r].seen
          /\ u.mints = tx[r].mints /\ u.issues = tx[r].issues
          /\ u.logs = tx[r].logs
      BY <1>0, <2>1, <2>4 DEF Advance, Tx, IInv, TypeOK
    <3> HIDE DEF u
    <3>2. Copied(r)'
      BY <1>0, <2>1, <2>2, <2>4, <3>1 DEF Copied, Exchanging, ClientEndpoints, rows
    <3>3. Wrote(r)' /\ Inserted(r)'
      BY <1>0, <2>1, <3>1 DEF Wrote, Inserted, Exchanging, Issuing
    <3>4. Found(r)'
      BY <1>0, <2>1, <2>2, <3>1, RowsKeep DEF Found
    <3> QED BY <2>1, <2>2, <2>4, <3>1, <3>2, <3>3, <3>4, AdvanceInv
  <2> QED BY <2>2, <2>3, <2>4
<1>5. CASE LogoutAllScan(r)
  <2> DEFINE found == {s \in Sessions : /\ session[s].st = "live"
                                        /\ session[s].user = tx[r].user}
             u == [tx[r] EXCEPT !.todo = found, !.seen = found]
  <2>1. pc[r] = "scan" /\ call[r].op = "logoutAll"
    BY <1>0, <1>5 DEF LogoutAllScan, OnRoute
  <2>2. UNCHANGED <<rows, held>> /\ Advance(r, "rows", u)
    BY <1>5 DEF LogoutAllScan
  <2>3. \A s \in found : /\ s \in Sessions /\ Committed(s)
                         /\ session[s].user = tx[r].user
    BY StoreAssumption DEF Committed
  <2> HIDE DEF found
  <2>4. /\ call'[r] = call[r] /\ pc'[r] = "rows" /\ tx'[r] = u
        /\ u.user = tx[r].user /\ u.client = tx[r].client
        /\ u.scope = tx[r].scope /\ u.writes = tx[r].writes /\ u.todo = found
        /\ u.seen = found /\ u.mints = tx[r].mints
        /\ u.issues = tx[r].issues /\ u.logs = tx[r].logs
    BY <1>0, <2>2 DEF Advance, Tx, IInv, TypeOK
  <2> HIDE DEF u
  <2>5. Copied(r)'
    BY <1>0, <2>1, <2>2, <2>4 DEF Copied, Exchanging, ClientEndpoints, rows
  <2>6. Wrote(r)' /\ Inserted(r)'
    BY <1>0, <2>1, <2>4 DEF Wrote, Inserted, Exchanging, Issuing
  <2>7. Found(r)'
    <3>1. tx[r].writes = {}
      BY <1>0, <2>1 DEF Wrote
    <3>2. \A s \in found : Committed(s)' /\ session'[s].user = tx[r].user
      BY <2>2, <2>3, RowsKeep DEF rows
    <3> QED BY <2>1, <2>4, <3>1, <3>2 DEF Found
  <2> QED BY <2>1, <2>2, <2>4, <2>5, <2>6, <2>7, AdvanceInv
<1>6. CASE LogoutAllRow(r)
  <2>1. PICK s \in tx[r].todo :
          Advance(r, "rows",
                  [tx[r] EXCEPT !.todo = @ \ {s},
                                !.writes = IF session[s].st = "live"
                                           THEN @ \cup {s} ELSE @])
    BY <1>6 DEF LogoutAllRow
  <2> DEFINE u == [tx[r] EXCEPT !.todo = @ \ {s},
                                !.writes = IF session[s].st = "live"
                                           THEN @ \cup {s} ELSE @]
  <2>2. UNCHANGED <<rows, held>> /\ pc[r] = "rows" /\ call[r].op = "logoutAll"
    BY <1>0, <1>6 DEF LogoutAllRow, OnRoute
  <2>3. /\ s \in Sessions /\ s \in tx[r].seen /\ Committed(s)
        /\ session[s].st # "live" => Spent(s)
    <3>1. s \in tx[r].seen /\ s \in Sessions /\ Committed(s)
      BY <1>0, <2>1 DEF Found, Tx
    <3>2. session[s].st \in {"absent", "live", "revoked"} /\ s \notin Codes
      BY <3>1, StoreAssumption DEF IInv, TypeOK, SessionRow
    <3> QED BY <3>1, <3>2 DEF Committed, Spent
  <2>4. /\ call'[r] = call[r] /\ pc'[r] = "rows" /\ tx'[r] = u
        /\ u.user = tx[r].user /\ u.client = tx[r].client
        /\ u.scope = tx[r].scope
        /\ u.writes = IF session[s].st = "live" THEN tx[r].writes \cup {s}
                                                ELSE tx[r].writes
        /\ u.todo = tx[r].todo \ {s} /\ u.seen = tx[r].seen
        /\ u.mints = tx[r].mints /\ u.issues = tx[r].issues
        /\ u.logs = tx[r].logs
    BY <1>0, <2>1 DEF Advance, Tx, IInv, TypeOK
  <2>5. Advance(r, "rows", u)
    BY <2>1
  <2> HIDE DEF u
  <2>6. Copied(r)'
    BY <1>0, <2>2, <2>4 DEF Copied, Exchanging, ClientEndpoints, rows
  <2>7. Wrote(r)' /\ Inserted(r)'
    BY <1>0, <2>2, <2>4 DEF Wrote, Inserted, Exchanging, Issuing
  <2>8. Found(r)'
    <3>1. \A x \in tx[r].seen : /\ Committed(x)' = Committed(x)
                                /\ Spent(x)' = Spent(x)
                                /\ session'[x].user = session[x].user
      BY <2>2, RowsKeep DEF rows
    <3> QED BY <1>0, <2>2, <2>3, <2>4, <3>1 DEF Found
  <2> QED BY <2>2, <2>4, <2>5, <2>6, <2>7, <2>8, AdvanceInv
<1> QED BY <1>1, <1>2, <1>3, <1>4, <1>5, <1>6 DEF AuthStep

\* The statements for clients, and the approval.
LEMMA OAuthStepInv ==
    ASSUME IInv, TypeInv', NEW r \in Requests, OAuthStep(r)
    PROVE  IInv'
<1> DEFINE t == call[r].token
<1>0. /\ call[r] \in Call /\ tx[r] \in Tx /\ pc[r] \in Labels
      /\ OnRoute(call[r].op, pc[r]) /\ WellFormed(call[r])
      /\ Presented(r) /\ Copied(r) /\ Wrote(r) /\ Found(r) /\ Inserted(r)
      /\ pc[r] \in {"idle", "auth"} => tx[r] = NoTx
  BY Here
<1>a. \A x \in held : Committed(x)
  BY DEF IInv, DeliveredIsCommitted
<1>1. CASE Authenticate(r)
  <2> DEFINE u == [tx[r] EXCEPT !.client = call[r].client,
                                !.scope = call[r].scope]
             l == AfterClient(call[r].op)
  <2>1. /\ pc[r] = "auth"
        /\ \/ call[r].op = "clientCredentials" /\ l = "mint"
           \/ call[r].op = "clientRefresh" /\ l = "session"
           \/ call[r].op = "redeem" /\ l = "code"
           \/ call[r].op = "revoke" /\ l = "kill"
           \/ call[r].op = "introspect" /\ l = "read"
    BY <1>1 DEF Authenticate, AfterClient, ClientEndpoints
  <2>2. UNCHANGED <<rows, held>> /\ ((Advance(r, l, u)) \/ Answer(r))
    BY <1>1 DEF Authenticate, Check
  <2>3. CASE Answer(r)
    BY <2>2, <2>3, <1>a, AnswerInv
  <2>4. CASE Advance(r, l, u)
    <3>1. /\ call'[r] = call[r] /\ pc'[r] = l /\ tx'[r] = u
          /\ u.user = tx[r].user /\ u.client = call[r].client
          /\ u.scope = call[r].scope /\ u.writes = tx[r].writes
          /\ u.todo = tx[r].todo /\ u.seen = tx[r].seen
          /\ u.mints = tx[r].mints /\ u.issues = tx[r].issues
          /\ u.logs = tx[r].logs
      BY <1>0, <2>1, <2>4 DEF Advance, Tx, IInv, TypeOK
    <3> HIDE DEF u
    <3>2. Copied(r)'
      BY <1>0, <2>1, <2>2, <2>4, <3>1, NoTxFields DEF Copied, Exchanging, ClientEndpoints, rows
    <3>3. Wrote(r)' /\ Inserted(r)'
      BY <1>0, <2>1, <3>1, NoTxFields DEF Wrote, Inserted, Exchanging, Issuing
    <3>4. Found(r)'
      BY <1>0, <2>1, <2>2, <3>1, NoTxFields, RowsKeep DEF Found
    <3> QED BY <2>1, <2>2, <2>4, <3>1, <3>2, <3>3, <3>4, AdvanceInv
  <2> QED BY <2>2, <2>3, <2>4
<1>2. CASE SelectClientSession(r)
  <2> DEFINE u == [tx[r] EXCEPT !.user = session[t].user,
                                !.scope = session[t].scope]
  <2>1. /\ pc[r] = "session" /\ call[r].op = "clientRefresh"
        /\ t \in Sessions /\ t \notin Codes
    BY <1>0, <1>2, StoreAssumption DEF SelectClientSession, WellFormed
  <2>2. UNCHANGED <<rows, held>> /\ ((Advance(r, "rotate", u) /\ (session[t].client = call[r].client)) \/ Answer(r))
    BY <1>2 DEF SelectClientSession, Check
  <2>3. CASE Answer(r)
    BY <2>2, <2>3, <1>a, AnswerInv
  <2>4. CASE Advance(r, "rotate", u) /\ (session[t].client = call[r].client)
    <3>1. /\ call'[r] = call[r] /\ pc'[r] = "rotate" /\ tx'[r] = u
          /\ u.user = session[t].user /\ u.client = tx[r].client
          /\ u.scope = session[t].scope /\ u.writes = tx[r].writes
          /\ u.todo = tx[r].todo /\ u.seen = tx[r].seen
          /\ u.mints = tx[r].mints /\ u.issues = tx[r].issues
          /\ u.logs = tx[r].logs
      BY <1>0, <2>1, <2>4 DEF Advance, Tx, IInv, TypeOK
    <3> HIDE DEF u
    <3>2. Copied(r)'
      BY <1>0, <2>1, <2>2, <2>4, <3>1 DEF Copied, Exchanging, ClientEndpoints, rows
    <3>3. Wrote(r)' /\ Inserted(r)'
      BY <1>0, <2>1, <3>1 DEF Wrote, Inserted, Exchanging, Issuing
    <3>4. Found(r)'
      BY <1>0, <2>1, <2>2, <3>1, RowsKeep DEF Found
    <3> QED BY <2>1, <2>2, <2>4, <3>1, <3>2, <3>3, <3>4, AdvanceInv
  <2> QED BY <2>2, <2>3, <2>4
<1>3. CASE SelectCode(r)
  <2> DEFINE u == [tx[r] EXCEPT !.user = code[t].user, !.scope = code[t].scope]
  <2>1. pc[r] = "code" /\ call[r].op = "redeem" /\ t \in Codes
    BY <1>0, <1>3 DEF SelectCode, WellFormed, OnRoute
  <2>2. UNCHANGED <<rows, held>> /\ ((Advance(r, "use", u) /\ (code[t].client = call[r].client)) \/ Answer(r))
    BY <1>3 DEF SelectCode, Check
  <2>3. CASE Answer(r)
    BY <2>2, <2>3, <1>a, AnswerInv
  <2>4. CASE Advance(r, "use", u) /\ (code[t].client = call[r].client)
    <3>1. /\ call'[r] = call[r] /\ pc'[r] = "use" /\ tx'[r] = u
          /\ u.user = code[t].user /\ u.client = tx[r].client
          /\ u.scope = code[t].scope /\ u.writes = tx[r].writes
          /\ u.todo = tx[r].todo /\ u.seen = tx[r].seen
          /\ u.mints = tx[r].mints /\ u.issues = tx[r].issues
          /\ u.logs = tx[r].logs
      BY <1>0, <2>1, <2>4 DEF Advance, Tx, IInv, TypeOK
    <3> HIDE DEF u
    <3>2. Copied(r)'
      BY <1>0, <2>1, <2>2, <2>4, <3>1 DEF Copied, Exchanging, ClientEndpoints, rows
    <3>3. Wrote(r)' /\ Inserted(r)'
      BY <1>0, <2>1, <3>1 DEF Wrote, Inserted, Exchanging, Issuing
    <3>4. Found(r)'
      BY <1>0, <2>1, <2>2, <3>1, RowsKeep DEF Found
    <3> QED BY <2>1, <2>2, <2>4, <3>1, <3>2, <3>3, <3>4, AdvanceInv
  <2> QED BY <2>2, <2>3, <2>4
<1>4. CASE UseCode(r)
  <2> DEFINE u == [tx[r] EXCEPT !.writes = @ \cup {t}]
  <2>1. pc[r] = "use" /\ call[r].op = "redeem" /\ t \in Codes
    BY <1>0, <1>4 DEF UseCode, WellFormed, OnRoute
  <2>2. UNCHANGED <<rows, held>> /\ Advance(r, "mint", u)
    BY <1>4 DEF UseCode
  <2>4. CASE Advance(r, "mint", u)
    <3>1. /\ call'[r] = call[r] /\ pc'[r] = "mint" /\ tx'[r] = u
          /\ u.user = tx[r].user /\ u.client = tx[r].client
          /\ u.scope = tx[r].scope /\ u.writes = tx[r].writes \cup {t}
          /\ u.todo = tx[r].todo /\ u.seen = tx[r].seen
          /\ u.mints = tx[r].mints /\ u.issues = tx[r].issues
          /\ u.logs = tx[r].logs
      BY <1>0, <2>1, <2>4 DEF Advance, Tx, IInv, TypeOK
    <3> HIDE DEF u
    <3>2. Copied(r)'
      BY <1>0, <2>1, <2>2, <2>4, <3>1 DEF Copied, Exchanging, ClientEndpoints, rows
    <3>3. Wrote(r)' /\ Inserted(r)'
      BY <1>0, <2>1, <3>1 DEF Wrote, Inserted, Exchanging, Issuing
    <3>4. Found(r)'
      BY <1>0, <2>1, <2>2, <3>1, RowsKeep DEF Found
    <3> QED BY <2>1, <2>2, <2>4, <3>1, <3>2, <3>3, <3>4, AdvanceInv
  <2> QED BY <2>2, <2>4
<1>6. CASE Introspect(r)
  <2>1. pc[r] = "read" /\ call[r].op = "introspect"
    BY <1>0, <1>6 DEF Introspect, OnRoute
  <2>2. UNCHANGED <<rows, held>> /\ ((Advance(r, "reply", tx[r])) \/ Answer(r))
    BY <1>6 DEF Introspect, Check
  <2>3. CASE Answer(r)
    BY <2>2, <2>3, <1>a, AnswerInv
  <2>4. CASE Advance(r, "reply", tx[r])
    <3>1. /\ call'[r] = call[r] /\ pc'[r] = "reply" /\ tx'[r] = tx[r]
      BY <1>0, <2>1, <2>4 DEF Advance, Tx, IInv, TypeOK
    <3>2. Copied(r)'
      BY <1>0, <2>1, <2>2, <2>4, <3>1 DEF Copied, Exchanging, ClientEndpoints, rows
    <3>3. Wrote(r)' /\ Inserted(r)'
      BY <1>0, <2>1, <3>1 DEF Wrote, Inserted, Exchanging, Issuing
    <3>4. Found(r)'
      BY <1>0, <2>1, <2>2, <3>1, RowsKeep DEF Found
    <3> QED BY <2>1, <2>2, <2>4, <3>1, <3>2, <3>3, <3>4, AdvanceInv
  <2> QED BY <2>2, <2>3, <2>4
<1>7. CASE ValidateAuthorize(r)
  <2> DEFINE u == [tx[r] EXCEPT !.client = call[r].client,
                                !.scope = call[r].scope]
  <2>1. pc[r] = "auth" /\ call[r].op = "approve"
    BY <1>7 DEF ValidateAuthorize
  <2>2. UNCHANGED <<rows, held>> /\ ((Advance(r, "lookup", u)) \/ Answer(r))
    BY <1>7 DEF ValidateAuthorize, Check
  <2>3. CASE Answer(r)
    BY <2>2, <2>3, <1>a, AnswerInv
  <2>4. CASE Advance(r, "lookup", u)
    <3>1. /\ call'[r] = call[r] /\ pc'[r] = "lookup" /\ tx'[r] = u
          /\ u.user = tx[r].user /\ u.client = call[r].client
          /\ u.scope = call[r].scope /\ u.writes = tx[r].writes
          /\ u.todo = tx[r].todo /\ u.seen = tx[r].seen
          /\ u.mints = tx[r].mints /\ u.issues = tx[r].issues
          /\ u.logs = tx[r].logs
      BY <1>0, <2>1, <2>4 DEF Advance, Tx, IInv, TypeOK
    <3> HIDE DEF u
    <3>2. Copied(r)'
      BY <1>0, <2>1, <2>2, <2>4, <3>1, NoTxFields DEF Copied, Exchanging, ClientEndpoints, rows
    <3>3. Wrote(r)' /\ Inserted(r)'
      BY <1>0, <2>1, <3>1, NoTxFields DEF Wrote, Inserted, Exchanging, Issuing
    <3>4. Found(r)'
      BY <1>0, <2>1, <2>2, <3>1, NoTxFields, RowsKeep DEF Found
    <3> QED BY <2>1, <2>2, <2>4, <3>1, <3>2, <3>3, <3>4, AdvanceInv
  <2> QED BY <2>2, <2>3, <2>4
<1>8. CASE LookupSessionUser(r)
  <2> DEFINE u == [tx[r] EXCEPT !.user = session[t].user]
  <2>1. pc[r] = "lookup" /\ call[r].op = "approve" /\ t \in Sessions
    BY <1>0, <1>8 DEF LookupSessionUser, OnRoute, WellFormed
  <2>2. UNCHANGED <<rows, held>> /\ ((Advance(r, "issue", u) /\ (session[t].user \in Users)) \/ Answer(r))
    BY <1>8 DEF LookupSessionUser, Check, IInv, TypeOK
  <2>3. CASE Answer(r)
    BY <2>2, <2>3, <1>a, AnswerInv
  <2>4. CASE Advance(r, "issue", u) /\ (session[t].user \in Users)
    <3>1. /\ call'[r] = call[r] /\ pc'[r] = "issue" /\ tx'[r] = u
          /\ u.user = session[t].user /\ u.client = tx[r].client
          /\ u.scope = tx[r].scope /\ u.writes = tx[r].writes
          /\ u.todo = tx[r].todo /\ u.seen = tx[r].seen
          /\ u.mints = tx[r].mints /\ u.issues = tx[r].issues
          /\ u.logs = tx[r].logs
      BY <1>0, <2>1, <2>4 DEF Advance, Tx, IInv, TypeOK
    <3> HIDE DEF u
    <3>2. Copied(r)'
      BY <1>0, <2>1, <2>2, <2>4, <3>1, StoreAssumption
         DEF Copied, Exchanging, ClientEndpoints, rows
    <3>3. Wrote(r)' /\ Inserted(r)'
      BY <1>0, <2>1, <3>1 DEF Wrote, Inserted, Exchanging, Issuing
    <3>4. Found(r)'
      BY <1>0, <2>1, <2>2, <3>1, RowsKeep DEF Found
    <3> QED BY <2>1, <2>2, <2>4, <3>1, <3>2, <3>3, <3>4, AdvanceInv
  <2> QED BY <2>2, <2>3, <2>4
<1>5. CASE RevokeToken(r)
  <2>1. /\ pc[r] = "kill" /\ call[r].op = "revoke"
        /\ t \in Sessions /\ t \notin Codes /\ Committed(t)
    BY <1>0, <1>5, StoreAssumption DEF RevokeToken, OnRoute, WellFormed, Presented
  <2>2. /\ call'[r] = call[r] /\ pc'[r] = "reply" /\ tx'[r] = tx[r]
        /\ \A q \in Requests \ {r} : Same(q)
        /\ UNCHANGED <<code, audit, held>>
    BY <1>5 DEF RevokeToken, Advance, IInv, TypeOK, Same
  <2>3. \A s \in Sessions :
          /\ session'[s].st = IF s = t THEN "revoked" ELSE session[s].st
          /\ session'[s].user = session[s].user
          /\ session'[s].client = session[s].client
          /\ session'[s].scope = session[s].scope
          /\ session'[s].from = session[s].from
    BY <1>5 DEF RevokeToken, IInv, TypeOK, SessionRow
  <2>4. \A s \in Tokens : /\ Committed(s)' = Committed(s)
                          /\ Spent(s) \/ s = t => Spent(s)'
    BY <2>1, <2>2, <2>3 DEF Committed, Spent, Tokens
  <2>5. TablesKeep
    BY <2>2, <2>3, <2>4 DEF TablesKeep
  <2>6. /\ tx[r].mints = None /\ tx[r].issues = None /\ tx[r].writes = {}
        /\ tx[r].todo = {} /\ tx[r].seen = {} /\ tx[r].logs = {}
        /\ tx[r].client = call[r].client
    BY <1>0, <2>1 DEF Inserted, Wrote, Found, Copied, Exchanging, Issuing, ClientEndpoints
  <2>7. OneInv(r)'
    <3>1. Carried(r)'
      BY DEF TypeInv
    <3>2. Presented(r)'
      BY <1>0, <2>2, <2>4 DEF Presented, Call, Tokens
    <3>3. Copied(r)' /\ Wrote(r)' /\ Found(r)' /\ Inserted(r)'
      BY <2>1, <2>2, <2>6 DEF Copied, Wrote, Found, Inserted, Exchanging, Issuing
    <3> QED BY <3>1, <3>2, <3>3 DEF OneInv
  <2>8. Success(r)'
    BY <2>1, <2>2, <2>4 DEF Success, Ended, Tokens
  <2>9. MintsAreDistinct' /\ \A x \in held' : Committed(x)'
    <3>1. held \subseteq Tokens /\ MintsAreDistinct
      BY DEF IInv, TypeOK
    <3>2. tx' = tx
      BY <1>5 DEF RevokeToken, Advance, IInv, TypeOK
    <3> QED BY <1>a, <2>2, <2>4, <3>1, <3>2 DEF MintsAreDistinct
  <2>10. \A s \in Sessions : Committed(s)' => Committed(s)
    BY <2>4 DEF Tokens
  <2> QED BY <2>2, <2>5, <2>7, <2>8, <2>9, <2>10, TableInv
<1>9. CASE IssueAuthorizationCode(r)
  <2>1. pc[r] = "issue" /\ call[r].op = "approve"
    BY <1>0, <1>9 DEF IssueAuthorizationCode, OnRoute
  <2>2. CASE Answer(r) /\ UNCHANGED code
    BY <1>9, <2>2, <1>a, AnswerInv DEF IssueAuthorizationCode, rows
  <2>3. ASSUME NEW c \in Codes,
               code[c].st = "absent",
               code' = [code EXCEPT ![c] =
                          [st |-> "unused", user |-> tx[r].user,
                           client |-> tx[r].client, scope |-> tx[r].scope]],
               Advance(r, "reply", [tx[r] EXCEPT !.issues = c])
        PROVE  IInv'
    <3> DEFINE u == [tx[r] EXCEPT !.issues = c]
    <3>1. /\ call'[r] = call[r] /\ pc'[r] = "reply" /\ tx'[r] = u
          /\ \A q \in Requests \ {r} : Same(q)
          /\ UNCHANGED <<session, audit, held>>
      BY <1>9, <2>3 DEF IssueAuthorizationCode, Advance, IInv, TypeOK, Same
    <3>2. /\ u.user = tx[r].user /\ u.client = tx[r].client
          /\ u.scope = tx[r].scope /\ u.writes = tx[r].writes
          /\ u.todo = tx[r].todo /\ u.seen = tx[r].seen
          /\ u.mints = tx[r].mints /\ u.issues = c /\ u.logs = tx[r].logs
      BY <1>0 DEF Tx
    <3> HIDE DEF u
    <3>3. \A d \in Codes : IF d = c THEN code'[d].st = "unused"
                                   ELSE code'[d] = code[d]
      BY <2>3 DEF IInv, TypeOK
    <3>4. /\ \A s \in Tokens : /\ Committed(s) => Committed(s)'
                               /\ Spent(s) => Spent(s)'
          /\ \A s \in Sessions : Committed(s)' = Committed(s)
          /\ Committed(c)' /\ ~Committed(c)
      BY <2>3, <3>1, <3>3, StoreAssumption DEF Committed, Spent, Tokens
    <3>5. TablesKeep
      <4>1. \A d \in Codes : Committed(d) => code'[d] = code[d]
        BY <3>3, <3>4
      <4> QED BY <3>1, <3>4, <4>1 DEF TablesKeep
    <3>6. /\ tx[r].mints = None /\ tx[r].writes = {} /\ tx[r].todo = {}
          /\ tx[r].seen = {} /\ tx[r].logs = {} /\ tx[r].client = call[r].client
          /\ tx[r].scope = call[r].scope
      BY <1>0, <2>1 DEF Inserted, Wrote, Found, Copied, Exchanging, Issuing
    <3>7. OneInv(r)'
      <4>1. Carried(r)'
        BY DEF TypeInv
      <4>2. Presented(r)'
        <5>1. call[r].bearer \in Tokens \cup {None}
              /\ call[r].token \in Tokens \cup {None}
          BY <1>0 DEF Call, Tokens
        <5>2. \A s \in Tokens : Committed(s) => Committed(s)'
          BY <3>4
        <5> QED BY <1>0, <3>1, <5>1, <5>2 DEF Presented
      <4>3. Committed(tx[r].issues)'
        BY <3>1, <3>2, <3>4 DEF Committed
      <4>4. Copied(r)' /\ Wrote(r)' /\ Found(r)'
        BY <2>1, <3>1, <3>2, <3>6
           DEF Copied, Wrote, Found, Exchanging, ClientEndpoints
      <4>5. Inserted(r)'
        BY <2>1, <3>1, <3>2, <3>6, <4>3 DEF Inserted, Issuing
      <4> QED BY <4>1, <4>2, <4>4, <4>5 DEF OneInv
    <3>8. Success(r)'
      BY <2>1, <3>1 DEF Success, Ended
    <3>9. MintsAreDistinct'
      BY <3>1, <3>2 DEF MintsAreDistinct, IInv, Same
    <3>10. \A x \in held' : Committed(x)'
      <4>1. held \subseteq Tokens
        BY DEF IInv, TypeOK
      <4>2. \A s \in Tokens : Committed(s) => Committed(s)'
        BY <3>4
      <4> QED BY <1>a, <3>1, <4>1, <4>2
    <3> QED BY <3>1, <3>4, <3>5, <3>7, <3>8, <3>9, <3>10, TableInv
  <2> QED BY <1>9, <2>2, <2>3 DEF IssueAuthorizationCode
<1> QED BY <1>1, <1>2, <1>3, <1>4, <1>5, <1>6, <1>7, <1>8, <1>9 DEF OAuthStep

\* COMMIT (WithTransaction, pkg/db/dbtx.go): the transaction's rows and its
\* entry appear at once, and every fact about sessions and entries survives.
LEMMA CommitInv ==
    ASSUME IInv, TypeInv', NEW r \in Requests, Commit(r)
    PROVE  IInv'
<1>0. PICK m, W, t, b : /\ m = tx[r].mints /\ W = tx[r].writes
                       /\ t = call[r].token /\ b = call[r].bearer
  OBVIOUS
<1>1. /\ call[r] \in Call /\ tx[r] \in Tx
      /\ OnRoute(call[r].op, "commit") /\ pc[r] = "commit" /\ WellFormed(call[r])
      /\ Presented(r) /\ Copied(r) /\ Wrote(r) /\ Found(r) /\ Inserted(r)
  BY Here DEF Commit
<1>2. /\ \A s \in Sessions :
           session'[s] = IF s = m THEN MintedRow(r)
                         ELSE IF s \in W THEN [session[s] EXCEPT !.st = "revoked"]
                         ELSE session[s]
      /\ \A c \in Codes :
           code'[c] = IF c \in W THEN [code[c] EXCEPT !.st = "used"] ELSE code[c]
      /\ audit' = audit \cup tx[r].logs
      /\ UNCHANGED held
  BY <1>0 DEF Commit
<1>3. /\ call'[r] = call[r] /\ pc'[r] = "reply"
      /\ tx'[r] = [tx[r] EXCEPT !.writes = {}, !.logs = {}]
      /\ \A q \in Requests \ {r} : Same(q)
  BY DEF Commit, Advance, IInv, TypeOK, Same
<1>4. /\ tx'[r].user = tx[r].user /\ tx'[r].client = tx[r].client
      /\ tx'[r].scope = tx[r].scope /\ tx'[r].writes = {}
      /\ tx'[r].todo = tx[r].todo /\ tx'[r].seen = tx[r].seen
      /\ tx'[r].mints = m /\ tx'[r].issues = tx[r].issues /\ tx'[r].logs = {}
  BY <1>0, <1>1, <1>3 DEF Tx
<1>5. /\ m \in Sessions \cup {None} /\ W \subseteq Tokens
      /\ m # None => ~Committed(m) /\ call[r].op \in Issuing
      /\ call[r].op \in Issuing => m # None
      /\ tx[r].issues = None /\ tx[r].todo = {} /\ tx[r].logs = {LogEntry(r)}
  BY <1>0, <1>1 DEF Tx, Inserted, Wrote
<1>6. /\ call[r].op \in Exchanging => /\ t \in Tokens /\ W = {t}
                                      /\ Committed(t) /\ t # None
      /\ call[r].op \in {"login", "clientCredentials"} => t = None
      /\ call[r].op = "logout" => b \in Sessions /\ W = {b} /\ Committed(b)
      /\ call[r].op \notin Exchanging \cup {"logout", "logoutAll"} => W = {}
  BY <1>0, <1>1, StoreAssumption
     DEF Wrote, WellFormed, Presented, Exchanging, BearerEndpoints, Tokens
<1>7. \A x \in W : Committed(x)
  BY <1>0, <1>1, <1>5, <1>6 DEF Found
<1>8. /\ MintedRow(r).st = "live" /\ MintedRow(r).user = tx[r].user
      /\ MintedRow(r).client = tx[r].client
      /\ MintedRow(r).scope = tx[r].scope /\ MintedRow(r).from = t
  BY <1>0 DEF MintedRow
<1>9. /\ \A s \in Sessions : session[s] \in SessionRow
      /\ \A c \in Codes : code[c] \in CodeRow
  BY DEF IInv, TypeOK
<1>10. \A s \in Sessions : s # m =>
         /\ session'[s].st = IF s \in W THEN "revoked" ELSE session[s].st
         /\ session'[s].user = session[s].user
         /\ session'[s].client = session[s].client
         /\ session'[s].scope = session[s].scope
         /\ session'[s].from = session[s].from
  BY <1>2, <1>9 DEF SessionRow
<1>11. m # None =>
         /\ session'[m].st = "live" /\ session'[m].user = tx[r].user
         /\ session'[m].client = tx[r].client
         /\ session'[m].scope = tx[r].scope /\ session'[m].from = t
  BY <1>2, <1>5, <1>8
<1>12. \A c \in Codes :
         /\ code'[c].st = IF c \in W THEN "used" ELSE code[c].st
         /\ code'[c].user = code[c].user
         /\ code'[c].client = code[c].client
         /\ code'[c].scope = code[c].scope
  BY <1>2, <1>9 DEF CodeRow
<1>13. \A s \in Sessions : Committed(s)' <=> Committed(s) \/ s = m
  BY <1>5, <1>7, <1>10, <1>11, StoreAssumption DEF Committed
<1>14. \A x \in Tokens : (Committed(x) => Committed(x)') /\ (Spent(x) => Spent(x)')
  BY <1>5, <1>10, <1>12, StoreAssumption DEF Committed, Spent, Tokens
<1>15. \A x \in W : Spent(x)'
  BY <1>5, <1>7, <1>10, <1>12, StoreAssumption DEF Committed, Spent, Tokens
<1>16. \A s \in Sessions : Committed(s) => s # m
  BY <1>5, StoreAssumption
<1>17. TablesKeep
  BY <1>10, <1>12, <1>14, <1>16 DEF TablesKeep
<1>18. \A q \in Requests \ {r} : OneInv(q)' /\ Success(q)'
  <2> SUFFICES ASSUME NEW q \in Requests \ {r}
               PROVE  OneInv(q)' /\ Success(q)'
    OBVIOUS
  <2>1. Same(q)
    BY <1>3
  <2>2. tx[q].mints # None /\ pc[q] # "reply" => ~Committed(tx[q].mints)'
    <3> DEFINE n == tx[q].mints
    <3>1. n \in Sessions \cup {None}
      BY DEF IInv, TypeOK, Tx
    <3>2. n # None => n # m
      BY <1>0 DEF IInv, MintsAreDistinct
    <3>3. n # None /\ pc[q] # "reply" => ~Committed(n)
      BY DEF IInv, RequestInv, Inserted
    <3> QED BY <1>13, <2>1, <3>1, <3>2, <3>3 DEF Same, Committed
  <2> QED BY <1>17, <2>1, <2>2, OthersKeep
<1>19. OneInv(r)'
  <2>1. Carried(r)'
    BY DEF TypeInv
  <2>2. Presented(r)'
    BY <1>1, <1>3, <1>14 DEF Presented, Call, Tokens
  <2>3. Copied(r)'
    BY <1>1, <1>3, <1>4 DEF Copied
  <2>4. Wrote(r)'
    BY <1>3, <1>4, <1>5 DEF Wrote
  <2>5. Found(r)'
    <3>1. tx[r].seen \subseteq Tokens /\ tx[r].seen \subseteq Sessions
      BY <1>1 DEF Tx, Tokens
    <3>2. \A s \in tx[r].seen : /\ Committed(s)' /\ Spent(s)'
                                /\ session'[s].user = tx[r].user
      BY <1>1, <1>5, <1>10, <1>14, <1>15, <1>16, <1>0, <3>1 DEF Found
    <3> QED BY <1>1, <1>3, <1>4, <1>5, <3>2 DEF Found
  <2>6. Inserted(r)'
    <3>1. m # None => Committed(m)'
      BY <1>5, <1>13
    <3>2. (tx[r].mints # None)' => Committed(tx[r].mints)'
      BY <1>4, <3>1 DEF Committed
    <3> QED BY <1>1, <1>3, <1>4, <1>5, <3>2 DEF Inserted
  <2> QED BY <2>1, <2>2, <2>3, <2>4, <2>5, <2>6 DEF OneInv
<1>20. Success(r)'
  <2> SUFFICES ASSUME NEW x \in Tokens, x \in Ended(r)'
               PROVE  Committed(x)' /\ Spent(x)'
    BY DEF Success, Ended
  <2>1. \/ call[r].op = "logout" /\ x = b
        \/ call[r].op = "logoutAll" /\ x \in tx[r].seen
        \/ call[r].op \in Exchanging \cup {"revoke"} /\ x = t
    BY <1>0, <1>3, <1>4 DEF Ended, Exchanging
  <2>2. call[r].op # "revoke"
    BY <1>1 DEF OnRoute
  <2>3. \/ x \in W
        \/ call[r].op = "logoutAll" /\ x \in tx[r].seen
    BY <1>6, <2>1, <2>2
  <2>4. Committed(x) /\ (x \in W \/ Spent(x))
    BY <1>0, <1>1, <1>5, <1>7, <2>3 DEF Found
  <2> QED BY <1>14, <1>15, <2>4
<1>21. MintsAreDistinct'
  <2>1. \A q \in Requests : tx'[q].mints = tx[q].mints
    BY <1>0, <1>3, <1>4 DEF Same
  <2> QED BY <2>1 DEF MintsAreDistinct, IInv
<1>22. DeliveredIsCommitted'
  BY <1>2, <1>14 DEF DeliveredIsCommitted, IInv, TypeOK
<1>23. ExchangeSpends'
  <2> SUFFICES ASSUME NEW s \in Sessions, Committed(s)', session'[s].from # None
               PROVE  Spent(session[s].from)'
    BY DEF ExchangeSpends
  <2>1. CASE s = m
    <3>1. session'[s].from = t /\ call[r].op \in Issuing
      BY <2>1, <1>5, <1>11, StoreAssumption
    <3>2. call[r].op \in Exchanging
      BY <3>1, <1>6 DEF Issuing, Exchanging
    <3>3. Spent(t)'
      BY <3>2, <1>6, <1>15
    <3> QED BY <2>1, <3>1, <3>3 DEF Spent
  <2>2. CASE s # m
    <3>1. Committed(s) /\ session'[s].from = session[s].from
      BY <2>2, <1>10, <1>13
    <3>2. session[s].from \in Tokens /\ Spent(session[s].from)
      BY <1>9, <3>1 DEF IInv, ExchangeSpends, SessionRow
    <3> QED BY <1>14, <3>1, <3>2 DEF Spent
  <2> QED BY <2>1, <2>2
<1>24. ExchangeKeepsBinding'
  <2> SUFFICES ASSUME NEW s \in Sessions, Committed(s)', session'[s].from # None
               PROVE  LET f == session'[s].from IN
                      IF f \in Codes
                      THEN /\ session'[s].user = code'[f].user
                           /\ session'[s].client = code'[f].client
                           /\ session'[s].scope = code'[f].scope
                      ELSE /\ session'[s].user = session'[f].user
                           /\ session'[s].client = session'[f].client
                           /\ session'[s].scope = session'[f].scope
    BY DEF ExchangeKeepsBinding
  <2>1. CASE s = m
    <3>1. session'[s].from = t /\ call[r].op \in Issuing
      BY <2>1, <1>5, <1>11, StoreAssumption
    <3>2. call[r].op \in Exchanging
      BY <3>1, <1>6 DEF Issuing, Exchanging
    <3>3. t \in Tokens /\ Committed(t)
      BY <3>2, <1>6
    <3>4. IF t \in Codes
          THEN /\ tx[r].user = code[t].user
               /\ tx[r].client = code[t].client
               /\ tx[r].scope = code[t].scope
          ELSE /\ tx[r].user = session[t].user
               /\ tx[r].client = session[t].client
               /\ tx[r].scope = session[t].scope
      BY <1>0, <1>1, <3>2 DEF Copied
    <3>5. IF t \in Codes
          THEN /\ code'[t].user = code[t].user
               /\ code'[t].client = code[t].client
               /\ code'[t].scope = code[t].scope
          ELSE /\ session'[t].user = session[t].user
               /\ session'[t].client = session[t].client
               /\ session'[t].scope = session[t].scope
      BY <1>17, <3>3 DEF TablesKeep, Tokens
    <3> QED BY <2>1, <1>11, <3>1, <3>4, <3>5, <1>5, StoreAssumption
  <2>2. CASE s # m
    <3> DEFINE f == session[s].from
    <3>1. /\ Committed(s) /\ session'[s].from = f /\ f \in Tokens /\ f # None
      BY <2>2, <1>9, <1>10, <1>13 DEF SessionRow
    <3>2. Spent(f)
      BY <3>1 DEF IInv, ExchangeSpends
    <3>3. Committed(f)
      BY <3>2 DEF Committed, Spent
    <3> QED BY <3>1, <3>3, <1>17 DEF IInv, ExchangeKeepsBinding, TablesKeep, Tokens
  <2> QED BY <2>1, <2>2
<1>25. IssuesAreTraced'
  <2> DEFINE e == LogEntry(r)
  <2>1. /\ e.action = call[r].op /\ e.user = tx[r].user
        /\ e.entity = IF call[r].client # None THEN call[r].client
                                               ELSE tx[r].user
        /\ e.session = IF m # None THEN m ELSE b
    BY <1>0 DEF LogEntry
  <2>2. audit' = audit \cup {e}
    BY <1>2, <1>5
  <2> HIDE DEF e
  <2> SUFFICES ASSUME NEW s \in Sessions
               PROVE  IF Committed(s)'
                      THEN \E a \in audit' :
                             /\ Entries(s)' = {a}
                             /\ a.user = session'[s].user
                             /\ a.entity \in {session'[s].user,
                                              session'[s].client}
                      ELSE Entries(s)' = {}
    BY DEF IssuesAreTraced
  <2>3. CASE s = m
    <3>1. m # None /\ call[r].op \in Issuing /\ ~Committed(s)
      BY <2>3, <1>5, StoreAssumption
    <3>2. Entries(s) = {}
      BY <3>1 DEF IInv, IssuesAreTraced
    <3>3. Entries(s)' = {e}
      BY <2>1, <2>2, <2>3, <3>1, <3>2 DEF Entries
    <3>4. e.entity \in {tx[r].user, tx[r].client}
      BY <1>1, <2>1, <3>1
         DEF Copied, WellFormed, Issuing, ClientEndpoints
    <3> QED BY <1>11, <1>13, <2>1, <2>2, <2>3, <3>1, <3>3, <3>4
  <2>4. CASE s # m
    <3>1. Entries(s)' = Entries(s)
      BY <2>1, <2>2, <2>4, <1>5 DEF Entries
    <3>2. /\ Committed(s)' <=> Committed(s)
          /\ session'[s].user = session[s].user
          /\ session'[s].client = session[s].client
      BY <2>4, <1>10, <1>13
    <3> QED BY <2>2, <3>1, <3>2 DEF IInv, IssuesAreTraced
  <2> QED BY <2>3, <2>4
<1>26. RequestInv' /\ SuccessMeansEnded'
  BY <1>18, <1>19, <1>20 DEF RequestInv, SuccessMeansEnded, OneInv, Success
<1> QED BY <1>21, <1>22, <1>23, <1>24, <1>25, <1>26 DEF IInv, TypeInv

\* Everything else a handler does: the rotation's UPDATE, the inserts, COMMIT
\* and the response.
LEMMA HandleInv ==
    ASSUME IInv, TypeInv', NEW r \in Requests, Handle(r)
    PROVE  IInv'
<1> DEFINE t == call[r].token
<1>0. /\ call[r] \in Call /\ tx[r] \in Tx /\ pc[r] \in Labels
      /\ OnRoute(call[r].op, pc[r]) /\ WellFormed(call[r])
      /\ Presented(r) /\ Copied(r) /\ Wrote(r) /\ Found(r) /\ Inserted(r)
      /\ pc[r] \in {"idle", "auth"} => tx[r] = NoTx
  BY Here
<1>a. \A x \in held : Committed(x)
  BY DEF IInv, DeliveredIsCommitted
<1>1. CASE RotateOut(r)
  <2> DEFINE u == [tx[r] EXCEPT !.writes = @ \cup {t}]
  <2>1. /\ pc[r] = "rotate" /\ call[r].op \in {"refresh", "clientRefresh"}
        /\ t \in Sessions /\ t \notin Codes
    BY <1>0, <1>1, StoreAssumption DEF RotateOut, OnRoute, WellFormed
  <2>2. UNCHANGED <<rows, held>> /\ Advance(r, "mint", u)
    BY <1>1 DEF RotateOut
  <2>4. CASE Advance(r, "mint", u)
    <3>1. /\ call'[r] = call[r] /\ pc'[r] = "mint" /\ tx'[r] = u
          /\ u.user = tx[r].user /\ u.client = tx[r].client
          /\ u.scope = tx[r].scope /\ u.writes = tx[r].writes \cup {t}
          /\ u.todo = tx[r].todo /\ u.seen = tx[r].seen
          /\ u.mints = tx[r].mints /\ u.issues = tx[r].issues
          /\ u.logs = tx[r].logs
      BY <1>0, <2>1, <2>4 DEF Advance, Tx, IInv, TypeOK
    <3> HIDE DEF u
    <3>2. Copied(r)'
      BY <1>0, <2>1, <2>2, <3>1 DEF Copied, Exchanging, ClientEndpoints, rows
    <3>3. Wrote(r)' /\ Inserted(r)'
      BY <1>0, <2>1, <3>1 DEF Wrote, Inserted, Exchanging, Issuing
    <3>4. Found(r)'
      BY <1>0, <2>1, <2>2, <3>1, RowsKeep DEF Found
    <3> QED BY <2>1, <2>2, <2>4, <3>1, <3>2, <3>3, <3>4, AdvanceInv
  <2> QED BY <2>2, <2>4
<1>2. CASE AuditLog(r)
  <2> DEFINE u == [tx[r] EXCEPT !.logs = {LogEntry(r)}]
  <2>1. \/ pc[r] = "audit"
        \/ pc[r] = "rows" /\ tx[r].todo = {} /\ call[r].op = "logoutAll"
    BY <1>0, <1>2 DEF AuditLog, OnRoute
  <2>2. UNCHANGED <<rows, held>> /\ Advance(r, "commit", u)
    BY <1>2 DEF AuditLog
  <2>4. CASE Advance(r, "commit", u)
    <3>1. /\ call'[r] = call[r] /\ pc'[r] = "commit" /\ tx'[r] = u
          /\ u.user = tx[r].user /\ u.client = tx[r].client
          /\ u.scope = tx[r].scope /\ u.writes = tx[r].writes
          /\ u.todo = tx[r].todo /\ u.seen = tx[r].seen
          /\ u.mints = tx[r].mints /\ u.issues = tx[r].issues
          /\ u.logs = {LogEntry(r)}
      BY <1>0, <2>1, <2>4 DEF Advance, Tx, IInv, TypeOK
    <3> HIDE DEF u
    <3>2. Copied(r)'
      BY <1>0, <2>1, <2>2, <3>1 DEF Copied, Exchanging, ClientEndpoints, rows
    <3>3. LogEntry(r)' = LogEntry(r)
      BY <3>1 DEF LogEntry
    <3>4. Wrote(r)'
      BY <1>0, <2>1, <3>1 DEF Wrote, Exchanging
    <3>5. Inserted(r)'
      <4>1. Committed(tx[r].mints)' = Committed(tx[r].mints)
        BY <2>2, <3>1, RowsKeep DEF Committed, rows
      <4> QED BY <1>0, <2>1, <3>1, <3>3, <4>1 DEF Inserted, Issuing
    <3>6. Found(r)'
      <4>1. \A x \in tx[r].seen : /\ Committed(x)' = Committed(x)
                                  /\ Spent(x)' = Spent(x)
                                  /\ session'[x].user = session[x].user
        BY <2>2, RowsKeep DEF rows
      <4> QED BY <1>0, <2>1, <3>1, <4>1 DEF Found
    <3> QED BY <2>1, <2>2, <2>4, <3>1, <3>2, <3>4, <3>5, <3>6, AdvanceInv
  <2> QED BY <2>2, <2>4
<1>3. CASE CreateSession(r)
  <2>1. pc[r] = "mint" /\ UNCHANGED <<rows, held>>
        /\ call[r].op \in Issuing
    BY <1>0, <1>3 DEF CreateSession, OnRoute, Issuing
  <2>2. CASE Answer(r)
    BY <2>1, <2>2, <1>a, AnswerInv
  <2>3. ASSUME NEW s \in Sessions, Fresh(s),
               Advance(r, "audit", [tx[r] EXCEPT !.mints = s])
        PROVE  IInv'
    <3> DEFINE u == [tx[r] EXCEPT !.mints = s]
    <3>1. /\ call'[r] = call[r] /\ pc'[r] = "audit" /\ tx'[r] = u
          /\ \A q \in Requests \ {r} : Same(q)
      BY <2>3 DEF Advance, IInv, TypeOK, Same
    <3>2. /\ u.user = tx[r].user /\ u.client = tx[r].client
          /\ u.scope = tx[r].scope /\ u.writes = tx[r].writes
          /\ u.todo = tx[r].todo /\ u.seen = tx[r].seen
          /\ u.mints = s /\ u.issues = tx[r].issues /\ u.logs = tx[r].logs
      BY <1>0 DEF Tx
    <3> HIDE DEF u
    <3>3. s # None /\ ~Committed(s)' /\ \A q \in Requests : tx[q].mints # s
      BY <2>1, <2>3, StoreAssumption DEF Fresh, Committed, rows
    <3>4. OneInv(r)'
      <4>1. Carried(r)'
        BY DEF TypeInv
      <4>2. Presented(r)'
        BY <1>0, <2>1, <3>1, RowsKeep DEF Presented
      <4>3. Copied(r)'
        BY <1>0, <2>1, <3>1, <3>2 DEF Copied, Exchanging, Issuing, rows
      <4>4. Wrote(r)'
        BY <1>0, <2>1, <3>1, <3>2 DEF Wrote, Exchanging, Issuing
      <4>5. Found(r)'
        BY <1>0, <2>1, <3>1, <3>2, RowsKeep DEF Found, rows
      <4>6. Inserted(r)'
        <5>1. ~Committed(tx[r].mints)'
          BY <3>1, <3>2, <3>3 DEF Committed
        <5> QED BY <1>0, <2>1, <3>1, <3>2, <3>3, <5>1 DEF Inserted
      <4> QED BY <4>1, <4>2, <4>3, <4>4, <4>5, <4>6 DEF OneInv
    <3>5. Success(r)'
      BY <3>1 DEF Success
    <3>6. MintsAreDistinct'
      BY <3>1, <3>2, <3>3 DEF MintsAreDistinct, IInv, Same
    <3>7. \A x \in held' : Committed(x)
      BY <1>a, <2>1
    <3>8. UNCHANGED rows
      BY <2>1
    <3> QED BY <3>1, <3>4, <3>5, <3>6, <3>7, <3>8, LocalInv
  <2> QED BY <1>3, <2>2, <2>3 DEF CreateSession
<1>4. CASE Reply(r)
  <2>1. tx[r].mints # None => Committed(tx[r].mints)
    BY <1>0, <1>4 DEF Reply, Inserted
  <2>2. tx[r].issues # None => Committed(tx[r].issues)
    BY <1>0, <1>4 DEF Reply, Inserted
  <2>3. \A x \in held' : Committed(x)
    BY <1>4, <1>a, <2>1, <2>2 DEF Reply
  <2> QED BY <1>4, <2>3, AnswerInv DEF Reply
<1> QED BY <1>1, <1>2, <1>3, <1>4, AuthStepInv, OAuthStepInv, CommitInv
        DEF Handle

\* Deadlines, failed statements and lost responses.
LEMMA CutInv ==
    ASSUME IInv, TypeInv', NEW r \in Requests,
           Timeout(r) \/ Fail(r) \/ LoseReply(r)
    PROVE  IInv'
<1>1. Answer(r) /\ UNCHANGED rows /\ UNCHANGED held
  BY DEF Timeout, Fail, LoseReply
<1>2. \A t \in held' : Committed(t)
  BY <1>1 DEF IInv, DeliveredIsCommitted
<1> QED BY <1>1, <1>2, AnswerInv

\* A step that touches neither rows nor requests.
LEMMA QuietInv ==
    ASSUME IInv, TypeInv', UNCHANGED <<rows, held, call, pc, tx>>
    PROVE  IInv'
<1>1. /\ UNCHANGED rows /\ UNCHANGED held
      /\ \A r \in Requests : Same(r)
  BY DEF Same
<1>2. ASSUME NEW r \in Requests
      PROVE  OneInv(r)' /\ Success(r)'
  <2>1. tx[r].mints # None /\ pc[r] # "reply" => ~Committed(tx[r].mints)'
    BY <1>1, RowsKeep DEF IInv, RequestInv, Inserted, Same, Committed, rows
  <2> QED BY <1>1, <2>1, RowsKeep, OthersKeep
<1>3. RequestInv' /\ SuccessMeansEnded'
  BY <1>2 DEF RequestInv, SuccessMeansEnded, OneInv, Success
<1>4. MintsAreDistinct'
  BY <1>1 DEF MintsAreDistinct, IInv, Same
<1>5. DeliveredIsCommitted'
  BY <1>1, RowsKeep DEF DeliveredIsCommitted, IInv
<1>6. ExchangeSpends' /\ ExchangeKeepsBinding' /\ IssuesAreTraced'
  BY <1>1, RowsKeep, TablesFacts
<1> QED BY <1>3, <1>4, <1>5, <1>6 DEF IInv, TypeInv

\* Restarts, clocks and operators, none of which touches a token's row.
LEMMA EnvironmentInv ==
    ASSUME IInv, TypeInv', Environment
    PROVE  IInv'
<1>1. CASE Restart
  <2>1. /\ NoCall.op = "none" /\ NoCall.bearer = None /\ NoCall.token = None
    BY DEF NoCall
  <2>2. /\ UNCHANGED rows /\ UNCHANGED held
        /\ \A r \in Requests :
             call'[r] = NoCall /\ pc'[r] = "idle" /\ tx'[r] = NoTx
    BY <1>1 DEF Restart
  <2>3. ASSUME NEW r \in Requests
        PROVE  OneInv(r)' /\ Success(r)'
    <3>1. Carried(r)'
      BY DEF TypeInv
    <3>2. Presented(r)'
      BY <2>1, <2>2 DEF Presented
    <3>3. Copied(r)'
      BY <2>1, <2>2 DEF Copied, Exchanging, ClientEndpoints
    <3>4. Wrote(r)' /\ Found(r)'
      BY <2>1, <2>2, NoTxFields DEF Wrote, Found, Exchanging
    <3>5. Inserted(r)'
      BY <2>1, <2>2, NoTxFields DEF Inserted, Issuing
    <3>6. Success(r)'
      BY <2>2 DEF Success
    <3> QED BY <3>1, <3>2, <3>3, <3>4, <3>5, <3>6 DEF OneInv
  <2>4. RequestInv' /\ SuccessMeansEnded'
    BY <2>3 DEF RequestInv, SuccessMeansEnded, OneInv, Success
  <2>5. MintsAreDistinct'
    BY <2>2, NoTxFields DEF MintsAreDistinct
  <2>6. DeliveredIsCommitted'
    BY <2>2, RowsKeep DEF DeliveredIsCommitted, IInv
  <2>7. ExchangeSpends' /\ ExchangeKeepsBinding' /\ IssuesAreTraced'
    BY <2>2, RowsKeep, TablesFacts
  <2> QED BY <2>4, <2>5, <2>6, <2>7 DEF IInv, TypeInv
<1>2. CASE UNCHANGED <<rows, held, call, pc, tx>>
  BY <1>2, QuietInv
<1> QED BY <1>1, <1>2 DEF Environment, Expire, ExpireAccess, Suspend, Deactivate

\* Every step of the server or its environment preserves the invariant.
LEMMA NextInv ==
    ASSUME IInv, [Next]_vars
    PROVE  IInv'
<1>0. TypeInv'
  BY NextTyped DEF IInv, TypeInv, RequestInv
<1>1. CASE UNCHANGED vars
  <2>1. UNCHANGED <<rows, held, call, pc, tx>>
    BY <1>1 DEF vars, rows
  <2> QED BY <1>0, <2>1, QuietInv
<1>2. CASE Next
  BY <1>0, <1>2, ReceiveInv, HandleInv, CutInv, EnvironmentInv DEF Next
<1> QED BY <1>1, <1>2

\* The invariant holds when the tables are empty and nothing is in flight.
LEMMA InitInv ==
    ASSUME Init
    PROVE  IInv
<1>1. TypeInv
  BY InitTyped
<1>2. /\ NoCall.op = "none" /\ NoCall.bearer = None /\ NoCall.token = None
      /\ NoSession.st = "absent" /\ NoCode.st = "absent"
  BY DEF NoCall, NoSession, NoCode
<1>3. /\ \A r \in Requests :
           call[r] = NoCall /\ pc[r] = "idle" /\ tx[r] = NoTx
      /\ \A s \in Sessions : ~Committed(s)
      /\ held = {} /\ audit = {}
  BY <1>2, StoreAssumption DEF Init, Committed
<1>4. ASSUME NEW r \in Requests
      PROVE  /\ Presented(r) /\ Copied(r) /\ Wrote(r) /\ Found(r)
             /\ Inserted(r)
  <2>1. Presented(r) /\ Copied(r)
    BY <1>2, <1>3 DEF Presented, Copied, Exchanging, ClientEndpoints
  <2>2. Wrote(r) /\ Found(r) /\ Inserted(r)
    BY <1>2, <1>3, NoTxFields DEF Wrote, Found, Inserted, Exchanging, Issuing
  <2> QED BY <2>1, <2>2
<1>5. RequestInv /\ SuccessMeansEnded
  BY <1>1, <1>3, <1>4 DEF RequestInv, TypeInv, SuccessMeansEnded
<1>6. MintsAreDistinct
  BY <1>3, NoTxFields DEF MintsAreDistinct
<1>7. /\ DeliveredIsCommitted /\ ExchangeSpends /\ ExchangeKeepsBinding
      /\ IssuesAreTraced
  BY <1>3 DEF DeliveredIsCommitted, ExchangeSpends, ExchangeKeepsBinding,
              IssuesAreTraced, Entries
<1> QED BY <1>1, <1>5, <1>6, <1>7 DEF IInv, TypeInv

\* The inductive invariant holds in every reachable state.
LEMMA Invariance == Spec => []IInv
BY InitInv, NextInv, PTL DEF Spec

\* For every number of users, clients, tokens and concurrent requests, and
\* whatever faults strike: a refresh token or code that has been exchanged for
\* a session is spent (service.go:256, oauth_service.go:158 and :248).
THEOREM ExchangesSpend == Spec => []ExchangeSpends
<1>1. IInv => ExchangeSpends
  BY DEF IInv
<1> QED BY <1>1, Invariance, PTL

\* The session minted in an exchange has the user, the client and the scope of
\* the credential given for it, although another statement read them.
THEOREM ExchangesKeepBinding == Spec => []ExchangeKeepsBinding
<1>1. IInv => ExchangeKeepsBinding
  BY DEF IInv
<1> QED BY <1>1, Invariance, PTL

\* Every session is traced by exactly one audit entry, which names its owner.
THEOREM IssuesTraced == Spec => []IssuesAreTraced
<1>1. IInv => IssuesAreTraced
  BY DEF IInv
<1> QED BY <1>1, Invariance, PTL

\* A response that says logged out, revoked or rotated is true.
THEOREM SuccessEnded == Spec => []SuccessMeansEnded
<1>1. IInv => SuccessMeansEnded
  BY DEF IInv
<1> QED BY <1>1, Invariance, PTL

\* What callers hold was committed.
THEOREM DeliveredCommitted == Spec => []DeliveredIsCommitted
<1>1. IInv => DeliveredIsCommitted
  BY DEF IInv
<1> QED BY <1>1, Invariance, PTL

\* At every statement a handler's local copies agree with the rows that they were
\* read from, and its locks, rows and entries are the ones of its endpoint.
THEOREM RequestsKnow == Spec => []RequestInv
<1>1. IInv => RequestInv
  BY DEF IInv
<1> QED BY <1>1, Invariance, PTL

\* Only a logout-all holds row locks while it waits for another, and two that
\* hold what the other waits for serve the same user (service.go:380-388): so
\* a deadlock takes two logout-alls of one user.
THEOREM LogoutAllsDeadlockAlone == Spec => []OnlyLogoutAllHoldsAndWaits
<1>1. IInv => OnlyLogoutAllHoldsAndWaits
  <2> SUFFICES ASSUME IInv PROVE OnlyLogoutAllHoldsAndWaits
    OBVIOUS
  <2>1. \A r \in Requests : Wrote(r) /\ Found(r) /\ tx[r] \in Tx
    BY DEF IInv, RequestInv, TypeOK
  <2>2. ASSUME NEW r \in Requests, Blocked(r), tx[r].writes # {}
        PROVE  call[r].op = "logoutAll"
    <3>1. pc[r] \in {"rotate", "use", "kill", "logout", "rows"}
      BY <2>2 DEF Blocked
    <3>2. CASE pc[r] = "rows"
      BY <2>1, <2>2, <3>2 DEF Found, Blocked
    <3>3. CASE pc[r] # "rows"
      BY <2>1, <2>2, <3>1, <3>3 DEF Wrote
    <3> QED BY <3>2, <3>3
  <2>3. ASSUME NEW q \in Requests, NEW r \in Requests,
               NEW s \in tx[r].writes, s \in tx[q].todo,
               NEW t \in tx[q].writes, t \in tx[r].todo
        PROVE  tx[q].user = tx[r].user
    <3>1. /\ call[q].op = "logoutAll" /\ call[r].op = "logoutAll"
          /\ tx[r].writes \subseteq tx[r].seen /\ tx[q].todo \subseteq tx[q].seen
      BY <2>1, <2>3 DEF Found
    <3>2. session[s].user = tx[q].user /\ session[s].user = tx[r].user
      BY <2>1, <2>3, <3>1 DEF Found
    <3> QED BY <3>2
  <2> QED BY <2>2, <2>3 DEF OnlyLogoutAllHoldsAndWaits
<1> QED BY <1>1, Invariance, PTL

\* What one step may do to a token: the body of TokensAreWriteOnce.
WriteOnce ==
    /\ \A t \in Tokens : Committed(t) => Committed(t)'
    /\ \A t \in Tokens : Spent(t) => Spent(t)'
    /\ \A s \in Sessions : Committed(s) =>
         session'[s] \in {session[s], [session[s] EXCEPT !.st = "revoked"]}
    /\ \A c \in Codes : Committed(c) =>
         code'[c] \in {code[c], [code[c] EXCEPT !.st = "used"]}

\* The tables change by a COMMIT, or by one of the two statements that run
\* outside a transaction: a client's revocation and the insert of a code.
LEMMA RowsMove ==
    ASSUME [Next]_vars
    PROVE  \/ UNCHANGED rows
           \/ \E r \in Requests : \/ Commit(r)
                                  \/ RevokeToken(r)
                                  \/ IssueAuthorizationCode(r)
<1>1. ASSUME NEW r \in Requests, Request(r)
      PROVE  UNCHANGED rows
  BY <1>1 DEF Request, Receive, LoginRequest, RefreshRequest, LogoutRequest,
              LogoutAllRequest, ClientCredentialsRequest, ClientRefreshRequest,
              RedeemRequest, RevokeRequest, IntrospectRequest, ApproveRequest
<1>2. ASSUME NEW r \in Requests, AuthStep(r)
      PROVE  UNCHANGED rows
  BY <1>2 DEF AuthStep, SelectUser, RequireAuth, SelectSession, LogoutUpdate,
              LogoutAllScan, LogoutAllRow, Check
<1>3. ASSUME NEW r \in Requests, OAuthStep(r)
      PROVE  UNCHANGED rows \/ RevokeToken(r) \/ IssueAuthorizationCode(r)
  BY <1>3 DEF OAuthStep, Authenticate, SelectClientSession, SelectCode, UseCode,
              Introspect, ValidateAuthorize, LookupSessionUser, Check
<1>4. ASSUME NEW r \in Requests, Handle(r)
      PROVE  \/ UNCHANGED rows
             \/ Commit(r) \/ RevokeToken(r) \/ IssueAuthorizationCode(r)
  BY <1>2, <1>3, <1>4 DEF Handle, RotateOut, CreateSession, AuditLog, Reply
<1>5. ASSUME NEW r \in Requests, Timeout(r) \/ Fail(r) \/ LoseReply(r)
      PROVE  UNCHANGED rows
  BY <1>5 DEF Timeout, Fail, LoseReply
<1>6. ASSUME Environment
      PROVE  UNCHANGED rows
  BY <1>6 DEF Environment, Restart, Expire, ExpireAccess, Suspend, Deactivate
<1>7. CASE UNCHANGED vars
  BY <1>7 DEF vars, rows
<1> QED BY <1>1, <1>4, <1>5, <1>6, <1>7 DEF Next

\* The three statements that change a token's row, COMMIT, the client's
\* revocation and the insert of a code, never rewrite a committed one.
LEMMA RowsAreWriteOnce ==
    ASSUME IInv, [Next]_vars
    PROVE  WriteOnce
<1>0. /\ \A s \in Sessions : session[s] \in SessionRow
      /\ \A c \in Codes : code[c] \in CodeRow
  BY DEF IInv, TypeOK
<1>1. CASE UNCHANGED rows
  BY <1>1 DEF WriteOnce, rows, Committed, Spent
<1>2. ASSUME NEW r \in Requests, Commit(r)
      PROVE  WriteOnce
  <2>1. tx[r].mints # None => ~Committed(tx[r].mints)
    BY <1>2 DEF Commit, IInv, RequestInv, Inserted
  <2>2. \A s \in Sessions : Committed(s) => s # tx[r].mints
    BY <2>1, StoreAssumption
  <2>3. \A s \in Sessions : Committed(s) =>
          session'[s] \in {session[s], [session[s] EXCEPT !.st = "revoked"]}
    BY <1>2, <2>2 DEF Commit
  <2>4. \A c \in Codes :
          code'[c] \in {code[c], [code[c] EXCEPT !.st = "used"]}
    BY <1>2 DEF Commit
  <2>5. \A s \in Sessions : Committed(s) =>
          /\ session'[s].st # "absent"
          /\ session[s].st = "revoked" => session'[s].st = "revoked"
    BY <1>0, <2>3, StoreAssumption DEF Committed, SessionRow
  <2>6. \A c \in Codes : code[c].st # "absent" =>
          /\ code'[c].st # "absent"
          /\ code[c].st = "used" => code'[c].st = "used"
    BY <1>0, <2>4 DEF CodeRow
  <2> QED BY <2>3, <2>4, <2>5, <2>6 DEF WriteOnce, Committed, Spent, Tokens
<1>3. ASSUME NEW r \in Requests, RevokeToken(r)
      PROVE  WriteOnce
  <2>1. \A s \in Sessions :
          session'[s] \in {session[s], [session[s] EXCEPT !.st = "revoked"]}
    BY <1>3 DEF RevokeToken, IInv, TypeOK
  <2>2. Committed(call[r].token)
    BY <1>3, Here, StoreAssumption
       DEF RevokeToken, Presented, WellFormed, OnRoute
  <2>3. \A s \in Sessions : session[s].st # "absent" =>
          /\ session'[s].st # "absent"
          /\ session[s].st = "revoked" => session'[s].st = "revoked"
    BY <1>0, <2>1 DEF SessionRow
  <2>4. UNCHANGED code
    BY <1>3 DEF RevokeToken
  <2> QED BY <2>1, <2>3, <2>4 DEF WriteOnce, Committed, Spent, Tokens
<1>4. ASSUME NEW r \in Requests, IssueAuthorizationCode(r)
      PROVE  WriteOnce
  <2>1. UNCHANGED session
    BY <1>4 DEF IssueAuthorizationCode
  <2>2. \A c \in Codes : code[c].st # "absent" => code'[c] = code[c]
    BY <1>4 DEF IssueAuthorizationCode, IInv, TypeOK
  <2> QED BY <2>1, <2>2 DEF WriteOnce, Committed, Spent, Tokens
<1> QED BY <1>1, <1>2, <1>3, <1>4, RowsMove

\* A token that is spent never comes back and a committed row keeps its owner,
\* client, scope and origin, whatever rolls back, restarts or runs beside it.
THEOREM TokensWriteOnce == Spec => TokensAreWriteOnce
<1>1. IInv /\ [Next]_vars => [WriteOnce]_vars
  BY RowsAreWriteOnce
<1>2. Spec => [][WriteOnce]_vars
  BY <1>1, Invariance, PTL DEF Spec
<1> QED BY <1>2 DEF TokensAreWriteOnce, WriteOnce
=============================================================================

--------------------------- MODULE Accounts_proofs ---------------------------
(***************************************************************************)
(* Proofs about Accounts, for any numbers of users, identities, requests   *)
(* and usernames.  Most statements touch the local state of one request    *)
(* only (LocalInv); Commit is the one that changes the tables.             *)
(***************************************************************************)
EXTENDS AccountsInvariant, TLAPS

\* Any statement of r but COMMIT: the other requests and the tables stay.
Local(r) ==
    /\ UNCHANGED <<tables, active>>
    /\ \A q \in Requests \ {r} : /\ call'[q] = call[q]
                                 /\ pc'[q] = pc[q]
                                 /\ tx'[q] = tx[q]

\* What it inserts into `users`, if it does, is unlike every row so far.
AddsSoundly(r) ==
    tx'[r].adds =>
        \/ tx[r].adds /\ tx'[r].row = tx[r].row /\ tx'[r].user = tx[r].user
        \/ /\ ~Exists(tx'[r].user)
           /\ ~Duplicate(tx'[r].row)
           /\ \A q \in Requests \ {r} :
                tx[q].adds => /\ tx[q].user # tx'[r].user
                              /\ ~Clash(tx[q].row, tx'[r].row)

\* So is what it inserts into `user_oauth_providers`.
LinksSoundly(r) ==
    tx'[r].links =>
        \/ tx[r].links /\ call'[r].identity = call[r].identity
        \/ /\ link[call'[r].identity] = None
           /\ \A q \in Requests \ {r} :
                tx[q].links => call[q].identity # call'[r].identity

\* Two rows clash whichever is named first.
LEMMA ClashIsSymmetric ==
    ASSUME NEW a, NEW b
    PROVE  Clash(a, b) <=> Clash(b, a)
  BY DEF Clash

\* A local step of r that leaves r itself in order leaves everything in order.
LEMMA LocalInv ==
    ASSUME IInv, NEW r \in Requests, Local(r), TypeOK',
           Carried(r)', Settled(r)', Spared(r)', AddsSoundly(r), LinksSoundly(r)
    PROVE  IInv'
<1>1. RowsAreUnique'
  <2>0. \A u \in Users : IF Exists(u)' THEN user'[u].email # None
                                      ELSE user'[u] = NoUser
    BY DEF IInv, RowsAreUnique, Local, tables, Exists
  <2>1. ASSUME NEW u \in Users, NEW v \in Users, u # v, Exists(u)'
        PROVE  ~Clash(user[u], user[v])'
    BY <2>1 DEF IInv, RowsAreUnique, Local, tables, Exists, Clash
  <2>2. ASSUME NEW q \in Requests, tx'[q].adds
        PROVE  ~Exists(tx[q].user)' /\ ~Duplicate(tx[q].row)'
    <3>1. CASE q = r
      BY <2>2, <3>1 DEF IInv, RowsAreUnique, Local, tables, AddsSoundly, Exists,
           Duplicate
    <3>2. CASE q # r
      BY <2>2, <3>2 DEF IInv, RowsAreUnique, Local, tables, Exists, Duplicate
    <3>3. QED BY <3>1, <3>2
  <2>3. ASSUME NEW p \in Requests, NEW q \in Requests, p # q,
               tx'[p].adds, tx'[q].adds
        PROVE  tx'[p].user # tx'[q].user /\ ~Clash(tx'[p].row, tx'[q].row)
    <3>1. CASE p = r
      BY <2>3, <3>1, ClashIsSymmetric DEF IInv, RowsAreUnique, Local, AddsSoundly
    <3>2. CASE q = r
      BY <2>3, <3>2 DEF IInv, RowsAreUnique, Local, AddsSoundly
    <3>3. CASE p # r /\ q # r
      BY <2>3, <3>3 DEF IInv, RowsAreUnique, Local
    <3>4. QED BY <3>1, <3>2, <3>3
  <2>4. QED BY <2>0, <2>1, <2>2, <2>3 DEF RowsAreUnique, Clash
<1>2. LinksAreUnique'
  <2>1. ASSUME NEW i \in Identities, link'[i] # None
        PROVE  Exists(link[i])'
    BY <2>1 DEF IInv, LinksAreUnique, Local, tables, Exists
  <2>2. ASSUME NEW q \in Requests, tx'[q].links
        PROVE  link'[call'[q].identity] = None
    BY <2>2 DEF IInv, LinksAreUnique, Local, tables, LinksSoundly
  <2>3. ASSUME NEW p \in Requests, NEW q \in Requests, p # q,
               tx'[p].links, tx'[q].links
        PROVE  call'[p].identity # call'[q].identity
    BY <2>3 DEF IInv, LinksAreUnique, Local, LinksSoundly
  <2>4. QED BY <2>1, <2>2, <2>3 DEF LinksAreUnique
<1>3. RequestInv'
  <2>1. ASSUME NEW q \in Requests, q # r
        PROVE  Carried(q)' /\ Settled(q)' /\ Spared(q)'
    <3>1. call'[q] = call[q] /\ pc'[q] = pc[q] /\ tx'[q] = tx[q]
      BY <2>1 DEF Local
    <3>2. UNCHANGED <<user, link, active>>
      BY DEF Local, tables
    <3>3. Carried(q) /\ Settled(q) /\ Spared(q)
      BY DEF IInv, RequestInv
    <3>4. Carried(q)'
      BY <3>1, <3>2, <3>3 DEF Carried
    <3>5. Settled(q)'
      BY <3>1, <3>2, <3>3 DEF Settled, OwnsAddress, ByLink, ByAddress, Exists
    <3>6. Spared(q)'
      BY <3>1, <3>2, <3>3 DEF Spared, Exists
    <3>7. QED BY <3>4, <3>5, <3>6
  <2>2. QED BY <2>1 DEF RequestInv
<1>4. SuspendedExist' /\ SignInsAreSettled' /\ LinksAreEarned' /\ UsersAreTraced'
  BY DEF IInv, SuspendedExist, SignInsAreSettled, LinksAreEarned, UsersAreTraced,
         Local, tables, Exists
<1>5. QED BY <1>1, <1>2, <1>3, <1>4 DEF IInv

\* The handler gives up, and its transaction is rolled back.
LEMMA AnswerInv ==
    ASSUME IInv, NEW r \in Requests, Answer(r), UNCHANGED <<tables, active>>
    PROVE  IInv'
<1>1. call'[r] = NoCall /\ pc'[r] = "idle" /\ tx'[r] = NoTx
  BY DEF IInv, TypeOK, Answer
<1>2. Local(r)
  BY DEF IInv, TypeOK, Answer, Local
<1>3. NoCall \in Call /\ NoTx \in Tx
  BY AccountsAssumption DEF NoCall, NoTx, NoUser, Call, Tx, UserRow
<1>4. TypeOK'
  BY <1>3 DEF IInv, TypeOK, Answer, tables, Labels
<1>5. Carried(r)' /\ Settled(r)' /\ Spared(r)' /\ AddsSoundly(r) /\ LinksSoundly(r)
  BY <1>1, AccountsAssumption
     DEF Carried, Settled, Spared, AddsSoundly, LinksSoundly, NoCall, NoTx
<1>6. QED BY <1>2, <1>4, <1>5, LocalInv

\* What Advance does to r, and to the others.
LEMMA AdvanceFacts ==
    ASSUME TypeOK, NEW r \in Requests, NEW label \in Labels, NEW t \in Tx,
           Advance(r, label, t), UNCHANGED <<tables, active>>
    PROVE  /\ call' = call
           /\ pc'[r] = label
           /\ tx'[r] = t
           /\ Local(r)
           /\ TypeOK'
<1>1. call' = call /\ pc'[r] = label /\ tx'[r] = t /\ Local(r)
  BY DEF TypeOK, Advance, Local
<1>2. TypeOK'
  BY DEF TypeOK, Advance, tables
<1>3. QED BY <1>1, <1>2

\* A request arrives: nothing of it is in doubt yet.
LEMMA ReceiveInv ==
    ASSUME IInv, NEW r \in Requests, RegisterRequest(r) \/ ProviderRequest(r)
    PROVE  IInv'
<1>1. pc[r] = "idle" /\ tx[r] = NoTx
  BY DEF RegisterRequest, ProviderRequest, Receive, IInv, RequestInv, Carried
<1>2. /\ Local(r)
      /\ tx' = tx
  BY DEF RegisterRequest, ProviderRequest, Receive, Local, IInv, TypeOK
<1>3. AddsSoundly(r) /\ LinksSoundly(r)
  BY <1>1, <1>2 DEF AddsSoundly, LinksSoundly, NoTx
<1>4. CASE RegisterRequest(r)
  <2>1. PICK e \in Registers :
          Receive(r, [NoCall EXCEPT !.op = "register", !.email = e], "username")
    BY <1>4 DEF RegisterRequest
  <2>2. /\ call'[r] = [op |-> "register", email |-> e, identity |-> None,
                       linked |-> FALSE, suspended |-> {}]
        /\ pc'[r] = "username"
    BY <2>1 DEF Receive, NoCall, IInv, TypeOK
  <2>3. TypeOK'
    BY <2>1, AccountsAssumption
       DEF Receive, NoCall, IInv, TypeOK, Call, Labels, tables
  <2>4. Carried(r)' /\ Settled(r)' /\ Spared(r)'
    BY <1>1, <1>2, <2>2, AccountsAssumption DEF Carried, Settled, Spared, NoTx
  <2>5. QED BY <1>2, <1>3, <2>3, <2>4, LocalInv
<1>5. CASE ProviderRequest(r)
  <2> DEFINE c(i, e) == [op |-> "provider", email |-> e, identity |-> i,
                         linked |-> link[i] # None, suspended |-> Users \ active]
  <2>1. PICK i \in Identities, e \in Emails \cup {None} : Receive(r, c(i, e), "identity")
    BY <1>5, AccountsAssumption DEF ProviderRequest
  <2>2. /\ call'[r] = c(i, e)
        /\ pc'[r] = "identity"
    BY <2>1 DEF Receive, IInv, TypeOK
  <2>3. TypeOK'
    <3>1. c(i, e) \in Call
      BY AccountsAssumption DEF Call
    <3> HIDE DEF c
    <3>2. QED BY <2>1, <3>1 DEF Receive, IInv, TypeOK, Labels, tables
  <2>4. UNCHANGED <<user, link, active>>
    BY <1>2 DEF Local, tables
  <2>5. Carried(r)' /\ Settled(r)'
    <3>1. /\ call'[r].op = "provider" /\ call'[r].identity = i
          /\ call'[r].linked = (link[i] # None)
      BY <2>2
    <3>2. pc'[r] = "identity" /\ tx'[r] = NoTx /\ link' = link
      BY <1>1, <1>2, <2>2, <2>4
    <3> HIDE DEF c
    <3>3. Carried(r)'
      <4>1. call'[r].linked => link[i] # None
        BY <3>1, Zenon
      <4>2. tx'[r].tries < Tries
        BY <3>2, AccountsAssumption DEF NoTx
      <4>3. QED BY <3>1, <3>2, <4>1, <4>2 DEF Carried
    <3>4. Settled(r)'
      BY <3>1, <3>2 DEF Settled, NoTx
    <3>5. QED BY <3>3, <3>4
  <2>6. Spared(r)'
    BY <2>2, <2>4 DEF Spared, Exists, IInv, SuspendedExist
  <2>7. QED BY <1>2, <1>3, <2>3, <2>5, <2>6, LocalInv
<1>6. QED BY <1>4, <1>5

-----------------------------------------------------------------------------
(* Statement by statement *)

\* SELECT by identity: the user that it is linked to passes the test now, or
\* the sign-in ends here.
LEMMA FindIdentityInv ==
    ASSUME IInv, NEW r \in Requests, FindIdentity(r)
    PROVE  IInv'
<1> DEFINE i == call[r].identity
           u == link[i]
           t == [tx[r] EXCEPT !.user = u, !.fit = TRUE]
<1>1. pc[r] = "identity" /\ UNCHANGED <<tables, active>> /\ tx[r] \in Tx
      /\ call[r] \in Call
  BY DEF FindIdentity, IInv, TypeOK
<1>2. Carried(r) /\ Settled(r) /\ Spared(r)
  BY DEF IInv, RequestInv
<1>3. call[r].op = "provider" /\ i \in Identities /\ ~tx[r].adds /\ ~tx[r].links
  BY <1>1, <1>2 DEF Carried, Settled, Call
<1>4. CASE u = None /\ Advance(r, "email", tx[r])
  <2>1. /\ call' = call /\ pc'[r] = "email" /\ tx'[r] = tx[r] /\ Local(r)
        /\ TypeOK'
    BY <1>1, <1>4, AdvanceFacts DEF IInv, Labels
  <2>2. Carried(r)' /\ Settled(r)'
    BY <1>1, <1>2, <1>3, <1>4, <2>1 DEF Carried, Settled, tables
  <2>3. Spared(r)'
    BY <1>1, <1>2, <2>1 DEF Spared, Exists, tables
  <2>4. AddsSoundly(r) /\ LinksSoundly(r)
    BY <1>3, <2>1 DEF AddsSoundly, LinksSoundly
  <2>5. QED BY <2>1, <2>2, <2>3, <2>4, LocalInv
<1>5. CASE u # None /\ u \in active /\ Advance(r, "session", t)
  <2>1. u \in Users /\ Exists(u)
    BY <1>3, <1>5 DEF IInv, TypeOK, LinksAreUnique
  <2>2. t \in Tx /\ t.user = u /\ t.adds = tx[r].adds /\ t.links = tx[r].links
        /\ t.row = tx[r].row /\ t.tries = tx[r].tries
    BY <1>1, <2>1 DEF Tx
  <2>3. /\ call' = call /\ pc'[r] = "session" /\ tx'[r] = t /\ Local(r)
        /\ TypeOK'
    BY <1>1, <1>5, <2>2, AdvanceFacts DEF IInv, Labels
  <2> HIDE DEF t
  <2>4. Carried(r)' /\ Settled(r)'
    BY <1>1, <1>2, <1>3, <2>1, <2>2, <2>3
       DEF Carried, Settled, ByLink, tables, Exists
  <2>5. Spared(r)'
    BY <1>1, <1>2, <1>5, <2>2, <2>3 DEF Spared, Exists, tables
  <2>6. AddsSoundly(r) /\ LinksSoundly(r)
    BY <1>3, <2>2, <2>3 DEF AddsSoundly, LinksSoundly
  <2>7. QED BY <2>3, <2>4, <2>5, <2>6, LocalInv
<1>6. CASE Answer(r)
  BY <1>1, <1>6, AnswerInv
<1>7. QED BY <1>4, <1>5, <1>6 DEF FindIdentity

\* SELECT by address: whoever has it, fit or not.
LEMMA FindEmailInv ==
    ASSUME IInv, NEW r \in Requests, FindEmail(r)
    PROVE  IInv'
<1>1. pc[r] = "email" /\ UNCHANGED <<tables, active>> /\ tx[r] \in Tx
      /\ call[r] \in Call
  BY DEF FindEmail, IInv, TypeOK
<1>2. Carried(r) /\ Settled(r) /\ Spared(r)
  BY DEF IInv, RequestInv
<1>3. call[r].op = "provider" /\ ~tx[r].adds /\ ~tx[r].links
  BY <1>1, <1>2 DEF Carried, Settled, Call
<1>4. ASSUME NEW u \in Users, HasEmail(u, call[r].email),
             Advance(r, "link", [tx[r] EXCEPT !.user = u, !.fit = u \in active])
      PROVE  IInv'
  <2> DEFINE t == [tx[r] EXCEPT !.user = u, !.fit = u \in active]
  <2>1. t \in Tx /\ t.user = u /\ t.adds = tx[r].adds /\ t.links = tx[r].links
        /\ t.row = tx[r].row /\ t.tries = tx[r].tries /\ (t.fit <=> u \in active)
    <3>1. (u \in active) \in BOOLEAN
      OBVIOUS
    <3>2. PICK fit \in BOOLEAN : fit <=> u \in active
      BY <3>1
    <3>3. t = [tx[r] EXCEPT !.user = u, !.fit = fit]
      BY <3>2
    <3>4. QED BY <1>1, <3>2, <3>3 DEF Tx
  <2>2. /\ call' = call /\ pc'[r] = "link" /\ tx'[r] = t /\ Local(r)
        /\ TypeOK'
    BY <1>1, <1>4, <2>1, AdvanceFacts DEF IInv, Labels
  <2> HIDE DEF t
  <2>3. Exists(u)
    BY <1>4 DEF HasEmail, IInv, RowsAreUnique, NoUser
  <2>4. Carried(r)' /\ Settled(r)'
    BY <1>1, <1>2, <1>3, <1>4, <2>1, <2>2, <2>3
       DEF Carried, Settled, OwnsAddress, HasEmail, Exists, tables
  <2>5. Spared(r)'
    BY <1>1, <1>2, <2>1, <2>2 DEF Spared, Exists, tables
  <2>6. AddsSoundly(r) /\ LinksSoundly(r)
    BY <1>3, <2>1, <2>2 DEF AddsSoundly, LinksSoundly
  <2>7. QED BY <2>2, <2>4, <2>5, <2>6, LocalInv
<1>5. CASE ~(\E u \in Users : HasEmail(u, call[r].email))
           /\ Advance(r, "username", tx[r])
  <2>1. /\ call' = call /\ pc'[r] = "username" /\ tx'[r] = tx[r] /\ Local(r)
        /\ TypeOK'
    BY <1>1, <1>5, AdvanceFacts DEF IInv, Labels
  <2>2. Carried(r)' /\ Settled(r)'
    BY <1>1, <1>2, <1>3, <2>1 DEF Carried, Settled
  <2>3. Spared(r)'
    BY <1>1, <1>2, <2>1 DEF Spared, Exists, tables
  <2>4. AddsSoundly(r) /\ LinksSoundly(r)
    BY <1>3, <2>1 DEF AddsSoundly, LinksSoundly
  <2>5. QED BY <2>1, <2>2, <2>3, <2>4, LocalInv
<1>6. QED BY <1>4, <1>5 DEF FindEmail

\* A draw of createUniqueUsername.
LEMMA PickUsernameInv ==
    ASSUME IInv, NEW r \in Requests, PickUsername(r)
    PROVE  IInv'
<1>1. pc[r] = "username" /\ UNCHANGED <<tables, active>> /\ tx[r] \in Tx
      /\ call[r] \in Call
  BY DEF PickUsername, IInv, TypeOK
<1>2. Carried(r) /\ Settled(r) /\ Spared(r)
  BY DEF IInv, RequestInv
<1>3. ~tx[r].adds /\ ~tx[r].links /\ ~call[r].linked
  BY <1>1, <1>2 DEF Settled, Carried
<1>4. ASSUME NEW n \in Usernames,
             Advance(r, "insert", [tx[r] EXCEPT !.row = [email |-> call[r].email,
                                                         username |-> n]])
      PROVE  IInv'
  <2> DEFINE t == [tx[r] EXCEPT !.row = [email |-> call[r].email, username |-> n]]
  <2>1. t \in Tx /\ t.adds = tx[r].adds /\ t.links = tx[r].links
        /\ t.row.email = call[r].email /\ t.row.username = n
        /\ t.tries = tx[r].tries
    BY <1>1 DEF Tx, Call, UserRow
  <2>2. /\ call' = call /\ pc'[r] = "insert" /\ tx'[r] = t /\ Local(r)
        /\ TypeOK'
    BY <1>1, <1>4, <2>1, AdvanceFacts DEF IInv, Labels
  <2> HIDE DEF t
  <2>3. Carried(r)' /\ Settled(r)' /\ Spared(r)'
    BY <1>1, <1>2, <1>3, <2>1, <2>2, AccountsAssumption
       DEF Carried, Settled, Spared, Exists, tables
  <2>4. AddsSoundly(r) /\ LinksSoundly(r)
    BY <1>3, <2>1, <2>2 DEF AddsSoundly, LinksSoundly
  <2>5. QED BY <2>2, <2>3, <2>4, LocalInv
<1>5. ASSUME tx[r].tries + 1 < Tries,
             Advance(r, "username", [tx[r] EXCEPT !.tries = @ + 1])
      PROVE  IInv'
  <2> DEFINE t == [tx[r] EXCEPT !.tries = @ + 1]
  <2>1. t \in Tx /\ t.adds = tx[r].adds /\ t.links = tx[r].links
        /\ t.tries = tx[r].tries + 1
    BY <1>1, <1>5, AccountsAssumption DEF Tx
  <2>2. /\ call' = call /\ pc'[r] = "username" /\ tx'[r] = t /\ Local(r)
        /\ TypeOK'
    BY <1>1, <1>5, <2>1, AdvanceFacts DEF IInv, Labels
  <2> HIDE DEF t
  <2>3. Carried(r)' /\ Settled(r)' /\ Spared(r)'
    BY <1>1, <1>2, <1>3, <1>5, <2>1, <2>2
       DEF Carried, Settled, Spared, Exists, tables
  <2>4. AddsSoundly(r) /\ LinksSoundly(r)
    BY <1>3, <2>1, <2>2 DEF AddsSoundly, LinksSoundly
  <2>5. QED BY <2>2, <2>3, <2>4, LocalInv
<1>6. CASE Answer(r)
  BY <1>1, <1>6, AnswerInv
<1>7. QED BY <1>4, <1>5, <1>6 DEF PickUsername

\* INSERT INTO users: whoever waited for a clashing row to commit or to vanish
\* now inserts a row that clashes with none.
LEMMA InsertUserInv ==
    ASSUME IInv, NEW r \in Requests, InsertUser(r)
    PROVE  IInv'
<1>1. pc[r] = "insert" /\ UNCHANGED <<tables, active>> /\ tx[r] \in Tx
      /\ ~InsertWaits(r)
  BY DEF InsertUser, IInv, TypeOK
<1>2. Carried(r) /\ Settled(r) /\ Spared(r)
  BY DEF IInv, RequestInv
<1>3. ~tx[r].adds /\ ~tx[r].links /\ ~call[r].linked
  BY <1>1, <1>2 DEF Settled, Carried
<1>4. ASSUME ~Duplicate(tx[r].row), tx[r].row.email # None,
             NEW u \in Users, Fresh(u),
             Advance(r, IF call[r].op = "register" THEN "audit" ELSE "link",
                     [tx[r] EXCEPT !.user = u, !.fit = TRUE, !.adds = TRUE])
      PROVE  IInv'
  <2> DEFINE t == [tx[r] EXCEPT !.user = u, !.fit = TRUE, !.adds = TRUE]
             label == IF call[r].op = "register" THEN "audit" ELSE "link"
  <2>1. t \in Tx /\ t.user = u /\ t.adds /\ t.links = tx[r].links
        /\ t.row = tx[r].row /\ t.tries = tx[r].tries
    BY <1>1 DEF Tx
  <2>2. /\ call' = call /\ pc'[r] = label /\ tx'[r] = t /\ Local(r)
        /\ TypeOK'
    BY <1>1, <1>4, <2>1, AdvanceFacts DEF IInv, Labels
  <2> HIDE DEF t
  <2>3. Carried(r)' /\ Settled(r)' /\ Spared(r)'
    BY <1>1, <1>2, <1>3, <1>4, <2>1, <2>2
       DEF Carried, Settled, Spared, OwnsAddress, Fresh, Exists, tables
  <2>4. AddsSoundly(r)
    <3>1. ~Exists(u)
      BY <1>4 DEF Fresh
    <3>2. ASSUME NEW q \in Requests \ {r}, tx[q].adds
          PROVE  tx[q].user # u /\ ~Clash(tx[q].row, tx[r].row)
      BY <1>1, <1>4, <3>2 DEF Fresh, InsertWaits, Pending
    <3>3. QED BY <1>4, <2>1, <2>2, <3>1, <3>2 DEF AddsSoundly
  <2>5. LinksSoundly(r)
    BY <1>3, <2>1, <2>2 DEF LinksSoundly
  <2>6. QED BY <2>2, <2>3, <2>4, <2>5, LocalInv
<1>5. CASE Answer(r)
  BY <1>1, <1>5, AnswerInv
<1>6. QED BY <1>4, <1>5 DEF InsertUser

\* INSERT INTO user_oauth_providers, and the late test of the status.  If the
\* identity was linked meanwhile, that link stays.
LEMMA LinkIdentityInv ==
    ASSUME IInv, NEW r \in Requests, LinkIdentity(r)
    PROVE  IInv'
<1> DEFINE i == call[r].identity
           t == [tx[r] EXCEPT !.links = link[i] = None]
<1>1. pc[r] = "link" /\ UNCHANGED <<tables, active>> /\ tx[r] \in Tx
      /\ ~LinkWaits(r) /\ call[r] \in Call
  BY DEF LinkIdentity, IInv, TypeOK
<1>2. Carried(r) /\ Settled(r) /\ Spared(r)
  BY DEF IInv, RequestInv
<1>3. /\ call[r].op = "provider" /\ i \in Identities
      /\ ~call[r].linked /\ ~tx[r].links
      /\ OwnsAddress(r)
  BY <1>1, <1>2 DEF Carried, Settled, Call
<1>4. CASE tx[r].fit /\ Advance(r, "session", t)
  <2>1. t \in Tx /\ t.user = tx[r].user /\ t.adds = tx[r].adds
        /\ t.links = (link[i] = None) /\ t.row = tx[r].row /\ t.tries = tx[r].tries
    BY <1>1 DEF Tx
  <2>2. /\ call' = call /\ pc'[r] = "session" /\ tx'[r] = t /\ Local(r)
        /\ TypeOK'
    BY <1>1, <1>4, <2>1, AdvanceFacts DEF IInv, Labels
  <2> HIDE DEF t
  <2>3. ByAddress(r)'
    BY <1>1, <1>3, <2>1, <2>2 DEF ByAddress, OwnsAddress, tables
  <2>4. Carried(r)'
    BY <1>1, <1>2, <1>3, <2>1, <2>2 DEF Carried
  <2>5. Settled(r)'
    BY <1>1, <1>2, <1>3, <2>1, <2>2, <2>3 DEF Settled, tables, Exists
  <2>6. Spared(r)'
    BY <1>1, <1>2, <1>4, <2>1, <2>2 DEF Spared, Exists, tables
  <2>7. AddsSoundly(r)
    BY <2>1, <2>2 DEF AddsSoundly
  <2>8. LinksSoundly(r)
    BY <1>1, <2>1, <2>2 DEF LinksSoundly, LinkWaits
  <2>9. QED BY <2>2, <2>4, <2>5, <2>6, <2>7, <2>8, LocalInv
<1>5. CASE Answer(r)
  BY <1>1, <1>5, AnswerInv
<1>6. QED BY <1>4, <1>5 DEF LinkIdentity

\* The two INSERTs that nobody else can notice before COMMIT.
LEMMA InsertSessionInv ==
    ASSUME IInv, NEW r \in Requests, InsertSession(r) \/ AuditLog(r)
    PROVE  IInv'
<1>1. PICK label \in {"audit", "commit"} :
        /\ Advance(r, label, tx[r])
        /\ pc[r] = IF label = "audit" THEN "session" ELSE "audit"
        /\ UNCHANGED <<tables, active>>
  BY DEF InsertSession, AuditLog
<1>2. Carried(r) /\ Settled(r) /\ Spared(r) /\ tx[r] \in Tx
  BY DEF IInv, RequestInv, TypeOK
<1>3. /\ call' = call /\ pc'[r] = label /\ tx'[r] = tx[r] /\ Local(r)
      /\ TypeOK'
  BY <1>1, <1>2, AdvanceFacts DEF IInv, Labels
<1>4. Carried(r)' /\ Spared(r)'
  BY <1>1, <1>2, <1>3 DEF Carried, Spared, Exists, tables
<1>5. Settled(r)'
  BY <1>1, <1>2, <1>3
     DEF Settled, Carried, OwnsAddress, ByLink, ByAddress, tables, Exists
<1>6. AddsSoundly(r) /\ LinksSoundly(r)
  BY <1>3 DEF AddsSoundly, LinksSoundly
<1>7. QED BY <1>3, <1>4, <1>5, <1>6, LocalInv

-----------------------------------------------------------------------------
(* COMMIT *)

\* What r knows when it commits.
CommitKnows(r) ==
    /\ tx[r].user \in Users
    /\ call[r].op \in {"register", "provider"}
    /\ tx[r].adds => /\ ~Exists(tx[r].user)
                     /\ ~Duplicate(tx[r].row)
                     /\ tx[r].row.username # None
                     /\ tx[r].row.email = call[r].email
                     /\ call[r].email # None
    /\ ~tx[r].adds => Exists(tx[r].user)
    /\ call[r].op = "register" => tx[r].adds
    /\ tx[r].links => call[r].op = "provider" /\ link[call[r].identity] = None
    /\ call[r].op = "provider" =>
         /\ call[r].identity \in Identities
         /\ call[r].linked => link[call[r].identity] # None
         /\ ByLink(r) \/ ByAddress(r)

\* What the tables are afterwards.
CommitLeaves(r) ==
    /\ user' \in [Users -> UserRow]
    /\ \A v \in Users : Exists(v) => user'[v] = user[v]
    /\ \A v \in Users : Exists(v)' <=> Exists(v) \/ v = tx[r].user
    /\ tx[r].adds => user'[tx[r].user] = tx[r].row
    /\ \A v \in Users : v # tx[r].user => user'[v] = user[v]
    /\ ~tx[r].adds => user' = user
    /\ link' \in [Identities -> Users \cup {None}]
    /\ \A j \in Identities : link[j] # None => link'[j] = link[j]
    /\ \A j \in Identities :
         link'[j] # None /\ link[j] = None =>
             tx[r].links /\ j = call[r].identity /\ link'[j] = tx[r].user
    /\ IF tx[r].links THEN link'[call[r].identity] = tx[r].user ELSE link' = link

\* COMMIT finds what the statements before it have established.
LEMMA CommitFacts ==
    ASSUME IInv, NEW r \in Requests, Commit(r)
    PROVE  CommitKnows(r) /\ CommitLeaves(r)
<1>1. pc[r] = "commit" /\ tx[r] \in Tx /\ call[r] \in Call
  BY DEF Commit, IInv, TypeOK
<1>2. Carried(r) /\ Settled(r)
  BY DEF IInv, RequestInv
<1>3. CommitKnows(r)
  BY <1>1, <1>2
     DEF CommitKnows, Carried, Settled, OwnsAddress, ByLink, ByAddress, Call, IInv,
         RowsAreUnique, LinksAreUnique
<1>4. /\ user' = IF tx[r].adds THEN [user EXCEPT ![tx[r].user] = tx[r].row]
                               ELSE user
      /\ link' = IF tx[r].links
                 THEN [link EXCEPT ![call[r].identity] = tx[r].user] ELSE link
      /\ user \in [Users -> UserRow] /\ link \in [Identities -> Users \cup {None}]
      /\ tx[r].row \in UserRow
  BY <1>1 DEF Commit, IInv, TypeOK, Tx
<1>5. tx[r].links => link[call[r].identity] = None
  BY DEF IInv, LinksAreUnique
<1>6. /\ user' \in [Users -> UserRow]
      /\ \A v \in Users : Exists(v) => user'[v] = user[v]
      /\ \A v \in Users : Exists(v)' <=> Exists(v) \/ v = tx[r].user
      /\ tx[r].adds => user'[tx[r].user] = tx[r].row
      /\ \A v \in Users : v # tx[r].user => user'[v] = user[v]
      /\ ~tx[r].adds => user' = user
  BY <1>3, <1>4 DEF CommitKnows, Exists
<1>7. /\ link' \in [Identities -> Users \cup {None}]
      /\ \A j \in Identities : link[j] # None => link'[j] = link[j]
      /\ \A j \in Identities :
           link'[j] # None /\ link[j] = None =>
               tx[r].links /\ j = call[r].identity /\ link'[j] = tx[r].user
      /\ IF tx[r].links THEN link'[call[r].identity] = tx[r].user ELSE link' = link
  BY <1>3, <1>4, <1>5 DEF CommitKnows
<1>8. QED BY <1>3, <1>6, <1>7 DEF CommitLeaves

\* The committed row is unlike every other, committed or pending.
LEMMA CommitRows ==
    ASSUME IInv, NEW r \in Requests, Commit(r)
    PROVE  RowsAreUnique'
<1> DEFINE w == tx[r].user
<1>1. CommitKnows(r) /\ CommitLeaves(r)
  BY CommitFacts
<1>2. /\ tx'[r] = NoTx
      /\ \A q \in Requests : q # r => tx'[q] = tx[q]
  BY DEF Commit, Answer, IInv, TypeOK
<1>3. RowsAreUnique
  BY DEF IInv
<1>4. ASSUME NEW u \in Users
      PROVE  IF Exists(u)' THEN user'[u].email # None ELSE user'[u] = NoUser
  BY <1>1, <1>3 DEF CommitKnows, CommitLeaves, RowsAreUnique
<1>5. ASSUME NEW u \in Users, NEW v \in Users, u # v, Exists(u)'
      PROVE  ~Clash(user'[u], user'[v])
  <2>1. CASE ~tx[r].adds
    BY <1>1, <1>3, <1>5, <2>1 DEF CommitLeaves, RowsAreUnique, Exists
  <2>2. CASE tx[r].adds /\ u = w
    <3>1. user'[u] = tx[r].row /\ user'[v] = user[v]
      BY <1>1, <1>5, <2>2 DEF CommitLeaves
    <3>2. CASE Exists(v)
      BY <1>1, <2>2, <3>1, <3>2, ClashIsSymmetric DEF CommitKnows, Duplicate
    <3>3. CASE ~Exists(v)
      <4>1. user[v] = NoUser
        BY <1>3, <3>3 DEF RowsAreUnique
      <4>2. QED BY <1>1, <2>2, <3>1, <4>1 DEF CommitKnows, Clash, NoUser
    <3>4. QED BY <3>2, <3>3
  <2>3. CASE tx[r].adds /\ v = w
    <3>1. user'[v] = tx[r].row /\ user'[u] = user[u] /\ Exists(u)
      BY <1>1, <1>5, <2>3 DEF CommitLeaves
    <3>2. QED BY <1>1, <2>3, <3>1 DEF CommitKnows, Duplicate
  <2>4. CASE tx[r].adds /\ u # w /\ v # w
    BY <1>1, <1>3, <1>5, <2>4 DEF CommitLeaves, RowsAreUnique
  <2>5. QED BY <2>1, <2>2, <2>3, <2>4
<1>6. ASSUME NEW q \in Requests, tx'[q].adds
      PROVE  (~Exists(tx[q].user) /\ ~Duplicate(tx[q].row))'
  <2>1. q # r /\ tx'[q] = tx[q] /\ tx[q].adds /\ tx[q].user \in Users
    BY <1>2, <1>6 DEF NoTx, IInv, RequestInv, Settled
  <2>2. ~Exists(tx[q].user) /\ ~Duplicate(tx[q].row)
    BY <1>3, <2>1 DEF RowsAreUnique
  <2>3. tx[r].adds => tx[q].user # w /\ ~Clash(tx[r].row, tx[q].row)
    BY <1>3, <2>1, ClashIsSymmetric DEF RowsAreUnique
  <2>4. tx[q].user # w
    BY <1>1, <2>2, <2>3 DEF CommitKnows
  <2>5. user'[tx[q].user].username = None
    BY <1>1, <2>1, <2>2, <2>4 DEF CommitLeaves, Exists
  <2>6. ASSUME NEW v \in Users, Exists(v)' PROVE ~Clash(user'[v], tx[q].row)
    <3>1. CASE Exists(v)
      BY <1>1, <2>2, <3>1 DEF CommitLeaves, Duplicate
    <3>2. CASE ~Exists(v)
      BY <1>1, <2>3, <2>6, <3>2 DEF CommitLeaves, CommitKnows
    <3>3. QED BY <3>1, <3>2
  <2>7. QED BY <2>1, <2>5, <2>6 DEF Duplicate, Exists
<1>7. ASSUME NEW p \in Requests, NEW q \in Requests, p # q,
             tx'[p].adds, tx'[q].adds
      PROVE  tx'[p].user # tx'[q].user /\ ~Clash(tx'[p].row, tx'[q].row)
  BY <1>2, <1>3, <1>7 DEF RowsAreUnique, NoTx
<1>8. QED BY <1>4, <1>5, <1>6, <1>7 DEF RowsAreUnique, Clash

\* So is the committed link.
LEMMA CommitLinks ==
    ASSUME IInv, NEW r \in Requests, Commit(r)
    PROVE  LinksAreUnique'
<1>1. CommitKnows(r) /\ CommitLeaves(r)
  BY CommitFacts
<1>2. /\ tx'[r] = NoTx
      /\ \A q \in Requests : q # r => tx'[q] = tx[q] /\ call'[q] = call[q]
  BY DEF Commit, Answer, IInv, TypeOK
<1>3. LinksAreUnique
  BY DEF IInv
<1>4. ASSUME NEW i \in Identities, link'[i] # None
      PROVE  Exists(link[i])'
  <2>1. CASE link[i] # None
    <3>1. link'[i] = link[i] /\ link[i] \in Users /\ Exists(link[i])
      BY <1>1, <1>3, <2>1 DEF CommitLeaves, LinksAreUnique, IInv, TypeOK
    <3>2. user'[link[i]] = user[link[i]]
      BY <1>1, <3>1 DEF CommitLeaves
    <3>3. QED BY <3>1, <3>2 DEF Exists
  <2>2. CASE link[i] = None
    <3>1. link'[i] = tx[r].user /\ tx[r].user \in Users
      BY <1>1, <1>4, <2>2 DEF CommitLeaves, CommitKnows
    <3>2. user'[tx[r].user].username # None
      BY <1>1, <3>1 DEF CommitLeaves, Exists
    <3>3. QED BY <3>1, <3>2 DEF Exists
  <2>3. QED BY <2>1, <2>2
<1>5. ASSUME NEW q \in Requests, tx'[q].links
      PROVE  link'[call'[q].identity] = None
  <2>1. q # r /\ tx[q].links /\ call'[q] = call[q]
    BY <1>2, <1>5 DEF NoTx
  <2>2. call[q].identity \in Identities /\ link[call[q].identity] = None
    BY <1>3, <2>1 DEF LinksAreUnique, IInv, RequestInv, Settled, Carried
  <2>3. tx[r].links => call[q].identity # call[r].identity
    BY <1>3, <2>1 DEF LinksAreUnique
  <2>4. QED BY <1>1, <2>1, <2>2, <2>3 DEF CommitLeaves
<1>6. ASSUME NEW p \in Requests, NEW q \in Requests, p # q,
             tx'[p].links, tx'[q].links
      PROVE  call'[p].identity # call'[q].identity
  BY <1>2, <1>3, <1>6 DEF LinksAreUnique, NoTx
<1>7. QED BY <1>4, <1>5, <1>6 DEF LinksAreUnique

\* A request remembers suspended users, and nothing else.
LEMMA SuspendedAreUsers ==
    ASSUME IInv, NEW q \in Requests
    PROVE  call[q].suspended \subseteq Users
  BY DEF IInv, TypeOK, Call

\* COMMIT keeps the invariant.
LEMMA CommitInv ==
    ASSUME IInv, NEW r \in Requests, Commit(r)
    PROVE  IInv'
<1>1. CommitKnows(r) /\ CommitLeaves(r)
  BY CommitFacts
<1>2. /\ tx'[r] = NoTx /\ call'[r] = NoCall /\ pc'[r] = "idle"
      /\ \A q \in Requests : q # r => /\ tx'[q] = tx[q]
                                      /\ call'[q] = call[q]
                                      /\ pc'[q] = pc[q]
      /\ active' = active
  BY DEF Commit, Answer, IInv, TypeOK
<1>3. TypeOK'
  <2>1. NoCall \in Call /\ NoTx \in Tx
    BY AccountsAssumption DEF NoCall, NoTx, NoUser, Call, Tx, UserRow
  <2>2. /\ call' \in [Requests -> Call] /\ pc' \in [Requests -> Labels]
        /\ tx' \in [Requests -> Tx]
    BY <2>1 DEF Commit, Answer, IInv, TypeOK, Labels
  <2>3. signedIn' \subseteq SignIn
    <3>1. call[r] \in Call
      BY DEF IInv, TypeOK
    <3>2. QED BY <1>1, <3>1 DEF Commit, CommitKnows, IInv, TypeOK, SignIn, Call
  <2>4. audit' \subseteq [action : {"user.registered", "user.oauth_login"},
                          user : Users]
    BY <1>1 DEF Commit, CommitKnows, Action, IInv, TypeOK
  <2>5. QED BY <1>1, <1>2, <2>2, <2>3, <2>4 DEF CommitLeaves, IInv, TypeOK
<1>4. RequestInv'
  <2>1. Carried(r)' /\ Settled(r)' /\ Spared(r)'
    BY <1>2, AccountsAssumption DEF Carried, Settled, Spared, NoTx, NoCall
  <2>2. ASSUME NEW q \in Requests, q # r
        PROVE  Carried(q)' /\ Settled(q)' /\ Spared(q)'
    <3>1. tx'[q] = tx[q] /\ call'[q] = call[q] /\ pc'[q] = pc[q]
      BY <1>2, <2>2
    <3>2. Carried(q) /\ Settled(q) /\ Spared(q)
      BY DEF IInv, RequestInv
    <3>3. /\ \A v \in Users : Exists(v) => user'[v] = user[v] /\ Exists(v)'
          /\ \A j \in Identities : link[j] # None => link'[j] = link[j]
      BY <1>1 DEF CommitLeaves
    <3>4. Carried(q)'
      BY <3>1, <3>2, <3>3, AccountsAssumption DEF Carried
    <3>5. Settled(q)'
      <4>1. /\ pc[q] \in {"link", "session", "audit", "commit"}
            /\ OwnsAddress(q)
            => OwnsAddress(q)'
        BY <3>1, <3>2, <3>3 DEF Settled, OwnsAddress, Exists
      <4>2. /\ pc[q] \in {"session", "audit", "commit"}
            /\ call[q].op = "provider"
            => (ByLink(q) \/ ByAddress(q))'
        <5>1. SUFFICES ASSUME pc[q] \in {"session", "audit", "commit"},
                              call[q].op = "provider"
                       PROVE  (ByLink(q) \/ ByAddress(q))'
          OBVIOUS
        <5>2. call[q].identity \in Identities /\ tx[q].user \in Users
              /\ tx[q].user # None
          BY <3>2, <5>1, AccountsAssumption DEF Settled, Carried
        <5>3. CASE ByLink(q)
          BY <3>1, <3>3, <5>2, <5>3 DEF ByLink
        <5>4. CASE ByAddress(q)
          BY <3>1, <3>3, <4>1, <5>1, <5>2, <5>4 DEF ByAddress
        <5>5. QED BY <3>2, <5>1, <5>3, <5>4 DEF Settled
      <4>3. /\ pc[q] \in {"link", "session", "audit", "commit"} /\ ~tx[q].adds
            => Exists(tx[q].user)'
        BY <3>1, <3>2, <3>3 DEF Settled
      <4>4. QED BY <3>1, <3>2, <4>1, <4>2, <4>3 DEF Settled
    <3>6. Spared(q)'
      BY <1>2, <3>1, <3>2, <3>3, SuspendedAreUsers DEF Spared
    <3>7. QED BY <3>4, <3>5, <3>6
  <2>3. QED BY <2>1, <2>2 DEF RequestInv
<1> DEFINE n == [by |-> call[r].identity, email |-> call[r].email,
                 linked |-> call[r].linked, user |-> tx[r].user]
<1>a. /\ signedIn \subseteq signedIn'
      /\ call[r].op = "provider" => n \in signedIn'
      /\ \A s \in signedIn' :
            s \in signedIn \/ (s = n /\ call[r].op = "provider")
  <2>1. signedIn' = IF call[r].op = "provider" THEN signedIn \cup {n} ELSE signedIn
    BY DEF Commit
  <2> HIDE DEF n
  <2>2. CASE call[r].op = "provider"
    <3>1. signedIn' = signedIn \cup {n}
      BY <2>1, <2>2
    <3>2. QED BY <2>2, <3>1
  <2>3. CASE call[r].op # "provider"
    <3>1. signedIn' = signedIn
      BY <2>1, <2>3
    <3>2. QED BY <2>3, <3>1
  <2>4. QED BY <2>2, <2>3
<1>b. /\ n.by = call[r].identity /\ n.email = call[r].email
      /\ n.linked = call[r].linked /\ n.user = tx[r].user
  OBVIOUS
<1> HIDE DEF n
<1>c. /\ \A v \in Users : Exists(v) => user'[v] = user[v] /\ Exists(v)'
      /\ \A j \in Identities : link[j] # None => link'[j] = link[j]
      /\ user'[tx[r].user].username # None
  BY <1>1 DEF CommitLeaves, CommitKnows, Exists
\* The owner of the address has it in the tables now.
<1>d. OwnsAddress(r) => /\ call[r].email # None
                        /\ user'[tx[r].user].email = call[r].email
  BY <1>1 DEF OwnsAddress, CommitKnows, CommitLeaves
<1>e. SuspendedExist'
  BY <1>2, <1>c DEF IInv, SuspendedExist
<1>5. SignInsAreSettled'
  <2>1. SUFFICES ASSUME NEW s \in signedIn'
                 PROVE  /\ link'[s.by] # None
                        /\ Exists(s.user)'
                        /\ \/ s.user = link'[s.by]
                           \/ /\ ~s.linked /\ s.email # None
                              /\ user'[s.user].email = s.email
    BY DEF SignInsAreSettled
  <2>2. CASE s \in signedIn
    <3>1. s.by \in Identities /\ s.user \in Users
      BY <2>2 DEF IInv, TypeOK, SignIn
    <3>2. /\ link[s.by] # None
          /\ Exists(s.user)
          /\ \/ s.user = link[s.by]
             \/ ~s.linked /\ s.email # None /\ user[s.user].email = s.email
      BY <2>2 DEF IInv, SignInsAreSettled
    <3>3. QED BY <1>c, <3>1, <3>2
  <2>3. CASE s = n /\ call[r].op = "provider"
    <3>1. call[r].identity \in Identities /\ tx[r].user \in Users
          /\ tx[r].user # None
      BY <1>1, <2>3, AccountsAssumption DEF CommitKnows
    <3>2. CASE ByLink(r)
      BY <1>1, <1>b, <1>c, <2>3, <3>1, <3>2 DEF ByLink, CommitLeaves, Exists
    <3>3. CASE ByAddress(r)
      <4>1. link'[call[r].identity] # None
        BY <1>1, <1>c, <3>1, <3>3 DEF ByAddress, CommitLeaves
      <4>2. QED BY <1>b, <1>c, <1>d, <2>3, <3>3, <4>1 DEF ByAddress, Exists
    <3>4. QED BY <1>1, <2>3, <3>2, <3>3 DEF CommitKnows
  <2>4. QED BY <1>a, <2>2, <2>3
<1>6. LinksAreEarned'
  <2>1. SUFFICES ASSUME NEW i \in Identities, link'[i] # None
                 PROVE  \E s \in signedIn' : /\ s.by = i /\ s.user = link'[i]
                                             /\ s.email = user'[link'[i]].email
    BY DEF LinksAreEarned
  <2>2. CASE link[i] # None
    <3>1. PICK s \in signedIn : /\ s.by = i /\ s.user = link[i]
                                /\ s.email = user[link[i]].email
      BY <2>2 DEF IInv, LinksAreEarned
    <3>2. link[i] \in Users /\ Exists(link[i])
      BY <2>2 DEF IInv, TypeOK, LinksAreUnique
    <3>3. link'[i] = link[i] /\ user'[link[i]] = user[link[i]]
      BY <1>c, <2>2, <3>2
    <3>4. QED BY <1>a, <3>1, <3>3
  <2>3. CASE link[i] = None
    <3>1. i = call[r].identity /\ link'[i] = tx[r].user /\ call[r].op = "provider"
          /\ tx[r].links
      BY <1>1, <2>1, <2>3 DEF CommitLeaves, CommitKnows
    <3>2. OwnsAddress(r)
      BY <1>1, <3>1 DEF CommitKnows, ByLink, ByAddress
    <3>3. QED BY <1>a, <1>b, <1>d, <3>1, <3>2
  <2>4. QED BY <2>2, <2>3
<1>7. UsersAreTraced'
  <2>1. SUFFICES ASSUME NEW u \in Users
                 PROVE  Exists(u)' <=> \E a \in audit' : a.user = u
    BY DEF UsersAreTraced
  <2>2. audit' = audit \cup {[action |-> Action(r), user |-> tx[r].user]}
    BY DEF Commit
  <2>3. (\E a \in audit' : a.user = u)
          <=> ((\E a \in audit : a.user = u) \/ u = tx[r].user)
    <3>1. [action |-> Action(r), user |-> tx[r].user].user = tx[r].user
      OBVIOUS
    <3>2. QED BY <2>2, <3>1, Zenon
  <2>4. Exists(u) <=> \E a \in audit : a.user = u
    BY DEF IInv, UsersAreTraced
  <2>5. QED BY <1>1, <2>3, <2>4 DEF CommitLeaves
<1>8. QED BY <1>3, <1>4, <1>e, <1>5, <1>6, <1>7, CommitRows, CommitLinks DEF IInv

-----------------------------------------------------------------------------
(* The invariant *)

\* Whoever was suspended when a request arrived is suspended still.
LEMMA SuspendInv ==
    ASSUME IInv, NEW u \in Users, Suspend(u)
    PROVE  IInv'
<1>1. /\ active' = active \ {u}
      /\ UNCHANGED <<user, link, signedIn, audit, call, pc, tx>>
  BY DEF Suspend, tables
<1>2. TypeOK'
  BY <1>1 DEF IInv, TypeOK
<1>3. RowsAreUnique'
  BY <1>1 DEF IInv, RowsAreUnique, Exists, Duplicate, Clash
<1>4. LinksAreUnique'
  BY <1>1 DEF IInv, LinksAreUnique, Exists
<1>5. RequestInv'
  <2>1. ASSUME NEW r \in Requests PROVE Carried(r)' /\ Settled(r)' /\ Spared(r)'
    <3>1. Carried(r) /\ Settled(r) /\ Spared(r)
      BY DEF IInv, RequestInv
    <3>2. Carried(r)' /\ Settled(r)'
      BY <1>1, <3>1 DEF Carried, Settled, OwnsAddress, ByLink, ByAddress, Exists
    <3>3. Spared(r)'
      BY <1>1, <3>1 DEF Spared, Exists
    <3>4. QED BY <3>2, <3>3
  <2>2. QED BY <2>1 DEF RequestInv
<1>6. SuspendedExist' /\ SignInsAreSettled' /\ LinksAreEarned' /\ UsersAreTraced'
  BY <1>1 DEF Suspend, IInv, SuspendedExist, SignInsAreSettled, LinksAreEarned,
     UsersAreTraced, Exists
<1>7. QED BY <1>2, <1>3, <1>4, <1>5, <1>6 DEF IInv

\* At the start there is nobody.
LEMMA InitInv == Init => IInv
<1> SUFFICES ASSUME Init PROVE IInv
  OBVIOUS
<1>1. NoCall \in Call /\ NoTx \in Tx /\ NoUser \in UserRow
  BY AccountsAssumption DEF NoCall, NoTx, NoUser, Call, Tx, UserRow
<1>2. TypeOK
  BY <1>1 DEF Init, TypeOK, Labels
<1>3. \A u \in Users : user[u] = NoUser /\ ~Exists(u)
  BY DEF Init, Exists, NoUser
<1>4. \A r \in Requests : tx[r] = NoTx /\ call[r] = NoCall /\ pc[r] = "idle"
  BY DEF Init
<1>5. RowsAreUnique
  BY <1>3, <1>4 DEF RowsAreUnique, NoTx
<1>6. LinksAreUnique
  BY <1>4 DEF Init, LinksAreUnique, NoTx
<1>7. RequestInv
  <2>1. ASSUME NEW r \in Requests PROVE Carried(r) /\ Settled(r) /\ Spared(r)
    <3>1. tx[r] = NoTx /\ call[r] = NoCall /\ pc[r] = "idle"
      BY <1>4
    <3>2. QED BY <3>1, AccountsAssumption DEF Carried, Settled, Spared, NoTx, NoCall
  <2>2. QED BY <2>1 DEF RequestInv
<1>8. SuspendedExist /\ SignInsAreSettled /\ LinksAreEarned /\ UsersAreTraced
  BY <1>3 DEF Init, SuspendedExist, SignInsAreSettled, LinksAreEarned, UsersAreTraced
<1>9. QED BY <1>2, <1>5, <1>6, <1>7, <1>8 DEF IInv

\* Every step keeps the invariant.
LEMMA NextInv == IInv /\ [Next]_vars => IInv'
<1> SUFFICES ASSUME IInv, [Next]_vars PROVE IInv'
  OBVIOUS
<1>1. ASSUME NEW r \in Requests, RegisterRequest(r) \/ ProviderRequest(r)
      PROVE  IInv'
  BY <1>1, ReceiveInv
<1>2. ASSUME NEW r \in Requests, Handle(r) PROVE IInv'
  BY <1>2, FindIdentityInv, FindEmailInv, PickUsernameInv, InsertUserInv,
     LinkIdentityInv, InsertSessionInv, CommitInv DEF Handle
<1>3. ASSUME NEW r \in Requests, Timeout(r) \/ Fail(r) PROVE IInv'
  BY <1>3, AnswerInv DEF Timeout, Fail
<1>4. ASSUME NEW u \in Users, Suspend(u) PROVE IInv'
  BY <1>4, SuspendInv
<1>5. CASE UNCHANGED vars
  <2>1. UNCHANGED <<user, link, active, signedIn, audit, call, pc, tx>>
    BY <1>5 DEF vars
  <2>2. TypeOK' /\ RowsAreUnique' /\ LinksAreUnique'
    BY <2>1 DEF IInv, TypeOK, RowsAreUnique, LinksAreUnique, Exists, Duplicate,
               Clash
  <2>3. RequestInv'
    BY <2>1 DEF IInv, RequestInv, Carried, Settled, Spared, OwnsAddress, ByLink,
               ByAddress, Exists
  <2>4. SuspendedExist' /\ SignInsAreSettled' /\ LinksAreEarned' /\ UsersAreTraced'
    BY <2>1 DEF IInv, SuspendedExist, SignInsAreSettled, LinksAreEarned,
               UsersAreTraced, Exists
  <2>5. QED BY <2>2, <2>3, <2>4 DEF IInv
<1>6. QED BY <1>1, <1>2, <1>3, <1>4, <1>5 DEF Next

\* The inductive invariant holds in every reachable state.
THEOREM Invariance == Spec => []IInv
<1>1. QED BY InitInv, NextInv, PTL DEF Spec

-----------------------------------------------------------------------------
(* What follows from it *)

\* Two users who exist and have the same address are one.
LEMMA OneOwner ==
    ASSUME IInv, NEW u \in Users, NEW v \in Users, Exists(u), Exists(v),
           user[u].email = user[v].email
    PROVE  u = v
  BY DEF IInv, RowsAreUnique, Clash

\* A sign-in was as the identity's user or as the owner of the address.
LEMMA SignInFacts ==
    ASSUME IInv, NEW s \in signedIn
    PROVE  /\ link[s.by] \in Users /\ Exists(link[s.by])
           /\ s.user \in Users /\ Exists(s.user)
           /\ \/ s.user = link[s.by]
              \/ ~s.linked /\ user[s.user].email = s.email
<1>1. s.by \in Identities /\ s.user \in Users
  BY DEF IInv, TypeOK, SignIn
<1>2. QED BY <1>1 DEF IInv, SignInsAreSettled, LinksAreUnique, TypeOK

\* Tables, history and local state keep their types.
THEOREM TypesCorrect == Spec => []TypeOK
<1>1. IInv => TypeOK
  BY DEF IInv
<1>2. QED BY <1>1, Invariance, PTL

\* An identity that had a link when it asked is the user it is linked to, for
\* good.  One that had none may be another user, if a sign-in that overlaps links
\* it first: the owner of the address it brought, which then is not that one's.
THEOREM IdentitiesAreUsers == Spec => []IdentityIsOneUser
<1>1. IInv => IdentityIsOneUser
  <2>1. SUFFICES ASSUME IInv, NEW s \in signedIn, s.user # link[s.by]
                 PROVE  /\ ~s.linked
                        /\ user[s.user].email = s.email
                        /\ user[link[s.by]].email # s.email
    BY SignInFacts, AccountsAssumption DEF IdentityIsOneUser
  <2>2. ~s.linked /\ user[s.user].email = s.email
    BY <2>1, SignInFacts
  <2>3. user[link[s.by]].email # s.email
    BY <2>1, <2>2, SignInFacts, OneOwner
  <2>4. QED BY <2>2, <2>3
<1>2. QED BY <1>1, Invariance, PTL

\* Sign-ins that bring one address, at whatever providers, are as one user,
\* unless the link of one led to a user with another address.
THEOREM AddressesAreUsers == Spec => []AddressIsOneUser
<1>1. IInv => AddressIsOneUser
  <2>1. SUFFICES ASSUME IInv, NEW s \in signedIn, NEW t \in signedIn,
                        s.email = t.email, ~FollowsItsLink(s), ~FollowsItsLink(t)
                 PROVE  s.user = t.user
    BY DEF AddressIsOneUser
  <2>2. /\ s.user \in Users /\ Exists(s.user) /\ user[s.user].email = s.email
        /\ t.user \in Users /\ Exists(t.user) /\ user[t.user].email = t.email
    BY <2>1, SignInFacts DEF FollowsItsLink
  <2>3. QED BY <2>1, <2>2, OneOwner
<1>2. QED BY <1>1, Invariance, PTL

\* A sign-in that is refused or fails leaves no link behind.
THEOREM LinksEarned == Spec => []LinksAreEarned
<1>1. IInv => LinksAreEarned
  BY DEF IInv
<1>2. QED BY <1>1, Invariance, PTL

\* Users and audit entries correspond.
THEOREM UsersTraced == Spec => []UsersAreTraced
<1>1. IInv => UsersAreTraced
  BY DEF IInv
<1>2. QED BY <1>1, Invariance, PTL

\* Nobody who was suspended before the request arrived signs in.
THEOREM SuspendedStayOut == Spec => []SuspendedNeverSignsIn
<1>1. IInv => SuspendedNeverSignsIn
  BY DEF IInv, RequestInv, Spared, SuspendedNeverSignsIn
<1>2. QED BY <1>1, Invariance, PTL

-----------------------------------------------------------------------------
(* Accounts implements Directory *)

\* COMMIT assigns the rows, if the transaction inserted any, and one entry.
LEMMA CommitWrites ==
    ASSUME IInv, NEW r \in Requests, Commit(r)
    PROVE  /\ user' = IF tx[r].adds
                      THEN [user EXCEPT ![tx[r].user] = tx[r].row] ELSE user
           /\ call[r].op = "provider" =>
                /\ link' = [link EXCEPT ![call[r].identity] =
                                IF @ = None THEN tx[r].user ELSE @]
                /\ signedIn' = signedIn \cup {[by |-> call[r].identity,
                                               email |-> call[r].email,
                                               linked |-> call[r].linked,
                                               user |-> tx[r].user]}
           /\ call[r].op = "register" => UNCHANGED <<link, signedIn>>
           /\ audit' = audit \cup {[action |-> Action(r), user |-> tx[r].user]}
<1>1. CommitKnows(r)
  BY CommitFacts
<1>2. link \in [Identities -> Users \cup {None}]
  BY DEF IInv, TypeOK
<1>3. CASE call[r].op = "provider"
  <2>1. tx[r].links <=> link[call[r].identity] = None
    BY <1>1, <1>3, AccountsAssumption DEF CommitKnows, ByLink, ByAddress
  <2>2. link' = [link EXCEPT ![call[r].identity] =
                     IF @ = None THEN tx[r].user ELSE @]
    BY <1>1, <1>2, <1>3, <2>1 DEF CommitKnows, Commit
  <2> QED BY <1>3, <2>2 DEF Commit
<1>4. CASE call[r].op = "register"
  BY <1>1, <1>4 DEF CommitKnows, Commit
<1> QED BY <1>1, <1>3, <1>4 DEF CommitKnows, Commit

\* The row that COMMIT adds enters a user whose address and username nobody
\* has: nobody took them while the transaction was open.
LEMMA CommitEnters ==
    ASSUME IInv, NEW r \in Requests, Commit(r), tx[r].adds
    PROVE  /\ call[r].email \in Emails
           /\ \E n \in Usernames : Catalogue!Enter(tx[r].user, call[r].email, n)
<1> DEFINE e == call[r].email
           n == tx[r].row.username
<1>1. CommitKnows(r)
  BY CommitFacts
<1>2. pc[r] = "commit" /\ tx[r].row \in UserRow /\ call[r] \in Call
  BY DEF Commit, IInv, TypeOK, Tx
<1>3. Settled(r)
  BY DEF IInv, RequestInv
<1>4. e \in Emails /\ tx[r].row.email = e
  BY <1>1, <1>2 DEF CommitKnows, Call
<1>5. n \in Usernames
  BY <1>1, <1>2 DEF CommitKnows, UserRow
<1>6. tx[r].row = [email |-> e, username |-> n]
  BY <1>2, <1>4 DEF UserRow
<1>7. \A v \in Users : Exists(v) => user[v].email # e /\ user[v].username # n
  BY <1>1, <1>4, AccountsAssumption DEF CommitKnows, Duplicate, Clash
<1>8. user' = [user EXCEPT ![tx[r].user] = [email |-> e, username |-> n]]
  BY <1>6, CommitWrites
<1>9. Catalogue!Enter(tx[r].user, e, n)
  BY <1>1, <1>7, <1>8
     DEF CommitKnows, Catalogue!Enter, Catalogue!Exists, Exists
<1> QED BY <1>4, <1>5, <1>9

\* COMMIT of a registration is one, of a sign-in the first or a later one.
LEMMA CommitIsOneStep ==
    ASSUME IInv, NEW r \in Requests, Commit(r)
    PROVE  Catalogue!Next
<1> DEFINE i == call[r].identity
           u == tx[r].user
<1>1. CommitKnows(r)
  BY CommitFacts
<1>2. CASE call[r].op = "register"
  <2>1. tx[r].adds /\ u \in Users
    BY <1>1, <1>2 DEF CommitKnows
  <2>2. \E e \in Emails, n \in Usernames : Catalogue!Enter(u, e, n)
    BY <2>1, CommitEnters
  <2>3. Catalogue!Register(u)
    BY <1>2, <2>2, CommitWrites DEF Catalogue!Register, Action
  <2> QED BY <2>1, <2>3 DEF Catalogue!Next
<1>3. CASE call[r].op = "provider"
  <2> DEFINE e == call[r].email
             linked == call[r].linked
  <2>1. /\ i \in Identities /\ u \in Users /\ u # None
        /\ e \in Emails \cup {None} /\ linked \in BOOLEAN
    BY <1>1, <1>3, AccountsAssumption DEF CommitKnows, IInv, TypeOK, Call
  <2>2. CASE ByLink(r)
    <3>1. link[i] = u /\ user' = user
      BY <2>2, CommitWrites DEF ByLink
    <3>2. Catalogue!Grant(i, e, linked, link[i])
      BY <1>3, <3>1, CommitWrites DEF Catalogue!Grant, Action
    <3>3. Catalogue!Return(i, e)
      BY <2>1, <3>1, <3>2 DEF Catalogue!Return
    <3> QED BY <2>1, <3>3 DEF Catalogue!Next
  <2>3. CASE ByAddress(r)
    <3>1. ~linked /\ e \in Emails /\ OwnsAddress(r)
      BY <2>1, <2>3 DEF ByAddress, OwnsAddress
    <3>2. Catalogue!Grant(i, e, FALSE, u)
      BY <1>3, <2>1, <3>1, CommitWrites DEF Catalogue!Grant, Action
    <3>3. CASE tx[r].adds
      <4>1. \E n \in Usernames : Catalogue!Enter(u, e, n)
        BY <3>3, CommitEnters
      <4>2. Catalogue!SignUp(i, e, u)
        BY <3>2, <4>1 DEF Catalogue!SignUp
      <4> QED BY <2>1, <3>1, <4>2 DEF Catalogue!Next
    <3>4. CASE ~tx[r].adds
      <4>1. Exists(u) /\ user[u].email = e /\ user' = user
        BY <1>1, <3>1, <3>4, CommitWrites DEF CommitKnows, OwnsAddress
      <4>2. Catalogue!SignIn(i, e, u)
        BY <3>2, <4>1 DEF Catalogue!SignIn, Catalogue!Exists, Exists
      <4> QED BY <2>1, <3>1, <4>2 DEF Catalogue!Next
    <3> QED BY <3>3, <3>4
  <2> QED BY <1>1, <1>3, <2>2, <2>3 DEF CommitKnows
<1> QED BY <1>1, <1>2, <1>3 DEF CommitKnows

\* Nothing but COMMIT changes a table.
LEMMA TablesMove ==
    ASSUME [Next]_vars
    PROVE  UNCHANGED tables \/ \E r \in Requests : Commit(r)
<1>1. ASSUME NEW r \in Requests, RegisterRequest(r) \/ ProviderRequest(r)
      PROVE  UNCHANGED tables
  BY <1>1 DEF RegisterRequest, ProviderRequest, Receive
<1>2. ASSUME NEW r \in Requests, Handle(r)
      PROVE  UNCHANGED tables \/ Commit(r)
  BY <1>2 DEF Handle, FindIdentity, FindEmail, PickUsername, InsertUser,
              LinkIdentity, InsertSession, AuditLog
<1>3. ASSUME NEW r \in Requests, Timeout(r) \/ Fail(r)
      PROVE  UNCHANGED tables
  BY <1>3 DEF Timeout, Fail
<1>4. ASSUME NEW u \in Users, Suspend(u)
      PROVE  UNCHANGED tables
  BY <1>4 DEF Suspend
<1>5. CASE UNCHANGED vars
  BY <1>5 DEF vars, tables
<1> QED BY <1>1, <1>2, <1>3, <1>4, <1>5 DEF Next

\* However look-ups and inserts of registrations and sign-ins interleave, wait,
\* fail and roll back, users come to be, are linked and sign in as by the
\* directory's atomic steps (Register and oauthLogin, internal/auth/service.go).
THEOREM AccountsImplementDirectory == Spec => ImplementsDirectory
<1>1. Init => Catalogue!Init
  BY DEF Init, Catalogue!Init, NoUser, Catalogue!NoUser
<1>2. IInv /\ [Next]_vars => [Catalogue!Next]_(Catalogue!directory)
  BY TablesMove, CommitIsOneStep DEF tables, Catalogue!directory
<1> QED BY <1>1, <1>2, Invariance, PTL DEF Spec, ImplementsDirectory, Catalogue!Spec
=============================================================================

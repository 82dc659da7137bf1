------------------------ MODULE AuthServer_refinement ------------------------
(***************************************************************************)
(* The concurrent server implements SessionLedger: every change to the     *)
(* committed tables is one of the ledger's atomic steps.  The tables       *)
(* change by COMMIT and by the two statements that run on their own        *)
(* (RowsMove).  What a transaction has read and written by its COMMIT is   *)
(* spread over earlier steps and held in its handler's local variables;    *)
(* the inductive invariant says that they still agree with the rows, so    *)
(* the COMMIT can be read as if everything happened in it.                 *)
(***************************************************************************)
EXTENDS AuthServer_proofs

\* Nothing is committed at the start, of either specification.
LEMMA InitLedger ==
    ASSUME Init
    PROVE  Ledger!Init
BY DEF Init, Ledger!Init, NoSession, NoCode, Ledger!Absent, Ledger!NoCode

\* What is known of the request whose transaction commits.
LEMMA AtCommit ==
    ASSUME IInv, NEW r \in Requests, Commit(r)
    PROVE  /\ call[r] \in Call /\ tx[r] \in Tx /\ pc[r] = "commit"
           /\ call[r].op \in Issuing \cup {"logout", "logoutAll"}
           /\ WellFormed(call[r]) /\ Presented(r) /\ Copied(r)
           /\ Wrote(r) /\ Found(r) /\ Inserted(r)
           /\ tx[r].logs = {LogEntry(r)}
           /\ session \in [Sessions -> SessionRow]
           /\ code \in [Codes -> CodeRow]
<1>1. OnRoute(call[r].op, "commit") /\ pc[r] = "commit"
  BY Here DEF Commit
<1>2. call[r].op \in Issuing \cup {"logout", "logoutAll"}
  BY <1>1 DEF OnRoute, Issuing
<1>3. tx[r].logs = {LogEntry(r)}
  BY <1>1, Here DEF Inserted
<1> QED BY <1>1, <1>2, <1>3, Here DEF IInv, TypeOK

\* What the COMMIT of a transaction that issues a session inserts.
LEMMA IssueCommits ==
    ASSUME IInv, NEW r \in Requests, Commit(r), call[r].op \in Issuing
    PROVE  /\ tx[r].mints \in Sessions /\ ~Committed(tx[r].mints)
           /\ audit' = audit \cup {[action |-> call[r].op,
                                    user |-> tx[r].user,
                                    entity |-> IF call[r].client # None
                                               THEN tx[r].client ELSE tx[r].user,
                                    session |-> tx[r].mints]}
<1>1. tx[r].mints \in Sessions /\ ~Committed(tx[r].mints)
  BY AtCommit DEF Inserted, Tx
<1>2. call[r].client # None => tx[r].client = call[r].client
  BY AtCommit DEF WellFormed, Copied, Issuing, ClientEndpoints
<1>3. tx[r].mints # None
  BY <1>1, StoreAssumption
<1> QED BY <1>1, <1>2, <1>3, AtCommit DEF Commit, LogEntry

\* A login, or a client acting for itself, is a grant.
LEMMA CommitGrants ==
    ASSUME IInv, NEW r \in Requests, Commit(r),
           call[r].op \in {"login", "clientCredentials"}
    PROVE  Ledger!Grant(tx[r].mints)
<1> DEFINE m == tx[r].mints
           u == tx[r].user
           c == tx[r].client
           sc == tx[r].scope
<1>1. /\ m \in Sessions /\ session[m].st = "absent"
      /\ u \in Users \cup {None} /\ c \in Clients \cup {None}
      /\ sc \in Scopes \cup {None}
  BY IssueCommits, AtCommit, StoreAssumption DEF Issuing, Committed, Tx
<1>2. \/ u = None /\ c # None /\ call[r].client # None
      \/ c = None /\ u # None /\ call[r].client = None
  BY AtCommit DEF Copied, WellFormed, ClientEndpoints
<1>3. tx[r].writes = {} /\ call[r].token = None
  BY AtCommit DEF Wrote, Exchanging, WellFormed
<1>4. session' = [session EXCEPT ![m] = [st |-> "live", user |-> u, client |-> c,
                                         scope |-> sc, from |-> None]]
  BY <1>1, <1>3, AtCommit DEF Commit, MintedRow
<1>5. code' = code
  BY <1>3, AtCommit DEF Commit
<1>6. Ledger!LogIssue(m, u, c)
  BY <1>2, IssueCommits, AtCommit
     DEF Ledger!LogIssue, Ledger!Entry, Issuing, Ledger!Issuing
<1> QED BY <1>1, <1>2, <1>4, <1>5, <1>6 DEF Ledger!Grant

\* The row that a session hands on, field by field.
LEMMA RowRenewed ==
    ASSUME NEW x \in SessionRow, NEW t \in Tokens
    PROVE  [x EXCEPT !.st = "live", !.from = t] =
             [st |-> "live", user |-> x.user, client |-> x.client,
              scope |-> x.scope, from |-> t]
<1> DEFINE y == [x EXCEPT !.st = "live", !.from = t]
           z == [st |-> "live", user |-> x.user, client |-> x.client,
                 scope |-> x.scope, from |-> t]
<1>1. /\ y \in SessionRow /\ y.st = "live" /\ y.from = t
      /\ y.user = x.user /\ y.client = x.client /\ y.scope = x.scope
  BY DEF SessionRow
<1>2. /\ z \in SessionRow /\ z.st = "live" /\ z.from = t
      /\ z.user = x.user /\ z.client = x.client /\ z.scope = x.scope
  BY DEF SessionRow
<1> HIDE DEF y, z
<1>3. y = z
  BY <1>1, <1>2 DEF SessionRow
<1> QED BY <1>3 DEF y, z

\* A refresh, of the first party or of a client, is a rotation.
LEMMA CommitRotates ==
    ASSUME IInv, NEW r \in Requests, Commit(r),
           call[r].op \in {"refresh", "clientRefresh"}
    PROVE  /\ call[r].token \in Sessions
           /\ Ledger!Rotate(call[r].token, tx[r].mints)
<1> DEFINE t == call[r].token
           m == tx[r].mints
           row == [session[t] EXCEPT !.st = "live", !.from = t]
<1>1. /\ m \in Sessions /\ session[m].st = "absent"
      /\ t \in Sessions /\ session[t].st # "absent" /\ t \notin Codes
  BY IssueCommits, AtCommit, StoreAssumption
     DEF Issuing, Committed, WellFormed, Presented
<1>2. t # m
  BY <1>1
<1>3. /\ tx[r].writes = {t}
      /\ tx[r].user = session[t].user
      /\ tx[r].client = session[t].client
      /\ tx[r].scope = session[t].scope
  BY <1>1, AtCommit DEF Wrote, Copied, Exchanging
<1>4. MintedRow(r) = row
  <2>1. session[t] \in SessionRow /\ t \in Tokens
    BY <1>1, AtCommit DEF Tokens
  <2>2. row = [st |-> "live", user |-> session[t].user,
               client |-> session[t].client, scope |-> session[t].scope,
               from |-> t]
    BY <2>1, RowRenewed
  <2> QED BY <1>3, <2>2 DEF MintedRow
<1>5. session' = [session EXCEPT ![t].st = "revoked", ![m] = row]
  <2>1. \A s \in Sessions :
          session'[s] = IF s = m THEN row
                        ELSE IF s = t THEN [session[s] EXCEPT !.st = "revoked"]
                        ELSE session[s]
    BY <1>3, <1>4 DEF Commit
  <2> QED BY <1>1, <1>2, <2>1, AtCommit DEF Commit
<1>6. code' = code
  BY <1>1, <1>3, AtCommit DEF Commit
<1>7. Ledger!LogIssue(m, session[t].user, session[t].client)
  BY <1>3, IssueCommits DEF Ledger!LogIssue, Ledger!Entry, Issuing, Ledger!Issuing
<1> QED BY <1>1, <1>2, <1>5, <1>6, <1>7 DEF Ledger!Rotate

\* A redemption is one: the session has what its code says.
LEMMA CommitRedeems ==
    ASSUME IInv, NEW r \in Requests, Commit(r), call[r].op = "redeem"
    PROVE  call[r].token \in Codes /\ Ledger!Redeem(call[r].token, tx[r].mints)
<1> DEFINE c == call[r].token
           m == tx[r].mints
           row == [st |-> "live", user |-> code[c].user, client |-> code[c].client,
                   scope |-> code[c].scope, from |-> c]
<1>1. /\ m \in Sessions /\ session[m].st = "absent"
      /\ c \in Codes /\ code[c].st # "absent" /\ c \notin Sessions
  BY IssueCommits, AtCommit, StoreAssumption
     DEF Issuing, Committed, WellFormed, Presented
<1>2. /\ tx[r].writes = {c}
      /\ tx[r].user = code[c].user
      /\ tx[r].client = code[c].client
      /\ tx[r].scope = code[c].scope
  BY <1>1, AtCommit DEF Wrote, Copied, Exchanging
<1>3. session' = [session EXCEPT ![m] = row]
  BY <1>1, <1>2, AtCommit DEF Commit, MintedRow
<1>4. code' = [code EXCEPT ![c].st = "used"]
  BY <1>1, <1>2, AtCommit DEF Commit
<1>5. Ledger!LogIssue(m, code[c].user, code[c].client)
  BY <1>2, IssueCommits DEF Ledger!LogIssue, Ledger!Entry, Issuing, Ledger!Issuing
<1> QED BY <1>1, <1>3, <1>4, <1>5 DEF Ledger!Redeem

\* A logout ends one session and a logout-all those that it found alive when it
\* took its snapshot and revoked itself; they are all of one user.
LEMMA CommitEnds ==
    ASSUME IInv, NEW r \in Requests, Commit(r),
           call[r].op \in {"logout", "logoutAll"}
    PROVE  tx[r].writes \subseteq Sessions /\ Ledger!End(tx[r].writes)
<1> DEFINE S == tx[r].writes
           u == tx[r].user
           b == call[r].bearer
<1>1. /\ b \in Sessions /\ Committed(b)
      /\ call[r].client = None /\ tx[r].mints = None
  BY AtCommit, StoreAssumption
     DEF WellFormed, Presented, BearerEndpoints, ClientEndpoints, Inserted, Issuing
<1>2. u \in Users
  BY AtCommit DEF Copied, Tx
<1>3. S \subseteq Sessions /\ \A s \in S : Committed(s) /\ session[s].user = u
  <2>1. CASE call[r].op = "logout"
    <3>1. S = {b}
      BY <2>1, AtCommit DEF Wrote
    <3>2. u = session[b].user
      BY <2>1, AtCommit DEF Copied
    <3> QED BY <1>1, <3>1, <3>2
  <2>2. CASE call[r].op = "logoutAll"
    BY <2>2, AtCommit DEF Found, Tx
  <2> QED BY <2>1, <2>2
<1>4. \A s \in S : session[s].st # "absent"
  BY <1>3, StoreAssumption DEF Committed
<1>5. session' = [s \in Sessions |->
                    IF s \in S THEN [session[s] EXCEPT !.st = "revoked"]
                               ELSE session[s]]
  BY <1>1, StoreAssumption DEF Commit
<1>6. code' = code
  BY <1>3, AtCommit, StoreAssumption DEF Commit
<1>7. audit' = audit \cup {Ledger!Entry(call[r].op, u, u, b)}
  BY <1>1, AtCommit DEF Commit, LogEntry, Ledger!Entry
<1> QED BY <1>1, <1>2, <1>3, <1>4, <1>5, <1>6, <1>7 DEF Ledger!End, Ledger!Ending

\* A client's revocation is one.
LEMMA RevokeRevokes ==
    ASSUME IInv, NEW r \in Requests, RevokeToken(r)
    PROVE  call[r].token \in Sessions /\ Ledger!Revoke(call[r].token)
<1>1. call[r].op = "revoke" /\ call[r].token \in Sessions /\ Committed(call[r].token)
  BY Here, StoreAssumption DEF RevokeToken, OnRoute, WellFormed, Presented
<1> QED BY <1>1, StoreAssumption DEF Ledger!Revoke, RevokeToken, Committed

\* The insert of a code is the issue of one, for a user, a client and a scope.
LEMMA InsertIssues ==
    ASSUME IInv, NEW r \in Requests, IssueAuthorizationCode(r)
    PROVE  UNCHANGED rows \/ \E c \in Codes : Ledger!IssueCode(c)
<1>1. /\ call[r] \in Call /\ tx[r] \in Tx
      /\ call[r].op = "approve" /\ call[r].client # None /\ call[r].scope # None
  BY Here DEF IssueAuthorizationCode, OnRoute, WellFormed
<1>2. tx[r].user \in Users /\ tx[r].client \in Clients /\ tx[r].scope \in Scopes
  BY <1>1, Here DEF IssueAuthorizationCode, Copied, Call, Tx
<1>3. CASE UNCHANGED code
  BY <1>3 DEF IssueAuthorizationCode, rows
<1>4. ASSUME NEW c \in Codes, code[c].st = "absent",
             code' = [code EXCEPT ![c] =
                        [st |-> "unused", user |-> tx[r].user,
                         client |-> tx[r].client, scope |-> tx[r].scope]]
      PROVE  Ledger!IssueCode(c)
  BY <1>2, <1>4 DEF Ledger!IssueCode, IssueAuthorizationCode
<1> QED BY <1>3, <1>4 DEF IssueAuthorizationCode

\* Every step of the server is a step of the ledger or changes nothing in it.
LEMMA NextLedger ==
    ASSUME IInv, [Next]_vars
    PROVE  [Ledger!Next]_(Ledger!ledger)
<1>1. CASE UNCHANGED rows
  BY <1>1 DEF rows, Ledger!ledger
<1>2. ASSUME NEW r \in Requests, Commit(r)
      PROVE  Ledger!Next
  <2>1. tx[r].mints \in Sessions \/ call[r].op \in {"logout", "logoutAll"}
    BY <1>2, AtCommit, IssueCommits
  <2> QED BY <1>2, <2>1, AtCommit, CommitGrants, CommitRotates, CommitRedeems,
             CommitEnds DEF Ledger!Next, Issuing
<1>3. ASSUME NEW r \in Requests, RevokeToken(r)
      PROVE  Ledger!Next
  BY <1>3, RevokeRevokes DEF Ledger!Next
<1>4. ASSUME NEW r \in Requests, IssueAuthorizationCode(r)
      PROVE  UNCHANGED rows \/ Ledger!Next
  BY <1>4, InsertIssues DEF Ledger!Next
<1> QED BY <1>1, <1>2, <1>3, <1>4, RowsMove

\* With any number of requests in flight, any interleaving, faults and restarts,
\* the tables behave as the ledger of atomic steps: what WithTransaction
\* (pkg/db/dbtx.go) is there for.
THEOREM ServerImplementsLedger == Spec => ImplementsLedger
<1>1. Init => Ledger!Init
  BY InitLedger
<1>2. IInv /\ [Next]_vars => [Ledger!Next]_(Ledger!ledger)
  BY NextLedger
<1> QED BY <1>1, <1>2, Invariance, PTL DEF Spec, ImplementsLedger, Ledger!Spec
=============================================================================

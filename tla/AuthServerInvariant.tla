------------------------- MODULE AuthServerInvariant -------------------------
(***************************************************************************)
(* The inductive invariant behind the safety properties of AuthServer: what *)
(* a request in flight knows, statement by statement, and how that relates  *)
(* to the committed tables.  The runs check it on small instances and       *)
(* AuthServer_proofs proves it for every value of the constants.            *)
(***************************************************************************)
EXTENDS AuthServer

Exchanging == {"refresh", "clientRefresh", "redeem"}

\* The statements each handler runs through.
OnRoute(op, label) ==
    \/ op = "none" /\ label = "idle"
    \/ op \in {"login", "clientCredentials"} /\
         label \in {"auth", "mint", "audit", "commit", "reply"}
    \/ op \in {"refresh", "clientRefresh"} /\
         label \in {"auth", "session", "rotate", "mint", "audit", "commit",
                   "reply"}
    \/ op = "logout" /\ label \in {"auth", "logout", "audit", "commit", "reply"}
    \/ op = "logoutAll" /\ label \in {"auth", "scan", "rows", "commit", "reply"}
    \/ op = "redeem" /\ label \in {"auth", "code", "use", "mint", "audit",
                                  "commit", "reply"}
    \/ op = "revoke" /\ label \in {"auth", "kill", "reply"}
    \/ op = "introspect" /\ label \in {"auth", "read", "reply"}
    \/ op = "approve" /\ label \in {"auth", "lookup", "issue", "reply"}

\* A request carries what its endpoint takes.
WellFormed(c) ==
    /\ c.op \in BearerEndpoints => c.bearer \in Sessions
    /\ c.op \in {"refresh", "clientRefresh", "revoke", "approve"}
         => c.token \in Sessions
    /\ c.op = "redeem" => c.token \in Codes
    /\ c.op = "introspect" =>
         \/ c.bearer \in Sessions /\ c.token = None
         \/ c.bearer = None /\ c.token \in Sessions
    /\ c.op \in {"none", "login", "logout", "logoutAll", "clientCredentials"}
         => c.token = None
    /\ c.bearer # None => c.op \in BearerEndpoints \cup {"introspect"}
    /\ c.op = "approve" => c.scope # None
    /\ c.op \in ClientEndpoints \cup {"approve"} <=> c.client # None
    /\ c.op = "login" <=> c.user # None

\* It is on the route of its endpoint.
Carried(r) == OnRoute(call[r].op, pc[r]) /\ WellFormed(call[r])

\* What a request presents has a committed row.
Presented(r) ==
    /\ call[r].bearer # None => Committed(call[r].bearer)
    /\ call[r].token # None => Committed(call[r].token)

\* The handler's local copy of user, client and scope, after each query.
Copied(r) ==
    /\ pc[r] \in {"idle", "auth"} => tx[r] = NoTx
    /\ call[r].op \in Exchanging /\ pc[r] \in {"rotate", "use", "mint", "audit",
                                               "commit"} =>
         LET t == call[r].token IN
         IF t \in Codes
         THEN /\ tx[r].user = code[t].user
              /\ tx[r].client = code[t].client
              /\ tx[r].scope = code[t].scope
         ELSE /\ tx[r].user = session[t].user
              /\ tx[r].client = session[t].client
              /\ tx[r].scope = session[t].scope
    /\ call[r].op = "login" /\ pc[r] # "auth" =>
         tx[r].user = call[r].user /\ tx[r].client = None
    /\ call[r].op \in ClientEndpoints /\ pc[r] # "auth" =>
         tx[r].client = call[r].client
    /\ call[r].op = "clientCredentials" => tx[r].user = None
    /\ call[r].op = "approve" /\ pc[r] # "auth" =>
         tx[r].client = call[r].client /\ tx[r].scope = call[r].scope
    /\ call[r].op = "approve" /\ pc[r] = "issue" => tx[r].user # None
    /\ call[r].op = "logoutAll" /\ pc[r] # "auth" => tx[r].user # None
    /\ call[r].op = "logout" /\ pc[r] \in {"audit", "commit"} =>
         tx[r].user # None /\ tx[r].user = session[call[r].bearer].user

\* The rows a transaction has updated and not yet committed.
Wrote(r) ==
    /\ call[r].op \in Exchanging =>
         tx[r].writes = IF pc[r] \in {"mint", "audit", "commit"}
                        THEN {call[r].token} ELSE {}
    /\ call[r].op = "logout" =>
         tx[r].writes = IF pc[r] \in {"audit", "commit"}
                        THEN {call[r].bearer} ELSE {}
    /\ call[r].op \notin Exchanging \cup {"logout", "logoutAll"} =>
         tx[r].writes = {}
    /\ call[r].op = "logoutAll" /\ pc[r] \notin {"rows", "commit"} =>
         tx[r].writes = {}
    /\ pc[r] # "rows" => tx[r].todo = {}

\* What a logout-all has found, and what has become of it.
Found(r) ==
    /\ tx[r].seen # {} => /\ call[r].op = "logoutAll"
                          /\ pc[r] \in {"rows", "commit", "reply"}
    /\ call[r].op = "logoutAll" => tx[r].writes \subseteq tx[r].seen
    /\ tx[r].todo \subseteq tx[r].seen
    /\ \A s \in tx[r].seen : /\ Committed(s)
                             /\ session[s].user = tx[r].user
                             /\ s \in tx[r].todo \cup tx[r].writes \/ Spent(s)

\* The row and the entry a transaction has inserted and not yet committed.
Inserted(r) ==
    /\ tx[r].mints # None => /\ call[r].op \in Issuing
                             /\ pc[r] \in {"audit", "commit", "reply"}
    /\ call[r].op \in Issuing /\ pc[r] \in {"audit", "commit", "reply"} =>
         tx[r].mints # None
    /\ tx[r].mints # None =>
         IF pc[r] = "reply" THEN Committed(tx[r].mints)
                            ELSE ~Committed(tx[r].mints)
    /\ tx[r].issues # None => pc[r] = "reply" /\ Committed(tx[r].issues)
    /\ tx[r].logs = IF pc[r] = "commit" THEN {LogEntry(r)} ELSE {}

\* Two transactions never insert the same session.
MintsAreDistinct ==
    \A q, r \in Requests :
        q # r /\ tx[q].mints # None => tx[q].mints # tx[r].mints

\* The part of an inductive invariant that speaks of one request at a time.
RequestInv ==
    \A r \in Requests : /\ Carried(r)
                        /\ Presented(r)
                        /\ Copied(r)
                        /\ Wrote(r)
                        /\ Found(r)
                        /\ Inserted(r)

TypeInv == TypeOK /\ \A r \in Requests : Carried(r)

\* The inductive invariant.
IInv ==
    /\ TypeOK
    /\ RequestInv
    /\ MintsAreDistinct
    /\ DeliveredIsCommitted
    /\ SuccessMeansEnded
    /\ ExchangeSpends
    /\ ExchangeKeepsBinding
    /\ IssuesAreTraced

-----------------------------------------------------------------------------
(* Why DeadIsNeverServed: unfitness is permanent, and every role is tested   *)
(* by some statement before the reply.                                       *)

\* What was unfit when the request arrived is unfit now.
StaysUnfit(r) == \A x \in call[r].dead : Unfit(call[r], x)

\* Behind the statement that tests a role there are only requests that
\* presented it fit.
PassedFit(r) ==
    /\ pc[r] # "auth" => call[r].dead \cap {"user", "client"} = {}
    /\ pc[r] \notin {"auth", "read"} => "bearer" \notin call[r].dead
    /\ pc[r] \notin {"auth", "session", "code", "lookup", "read"} =>
         "token" \notin call[r].dead

\* Nothing that arrived unfit becomes fit again, or passes its test: what
\* the single statements contribute to DeadIsNeverServed.
FitInv == \A r \in Requests : StaysUnfit(r) /\ PassedFit(r)
=============================================================================

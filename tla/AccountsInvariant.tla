-------------------------- MODULE AccountsInvariant --------------------------
(***************************************************************************)
(* The inductive invariant behind the safety properties of Accounts.       *)
(***************************************************************************)
EXTENDS Accounts

\* The unique columns of `users`, over committed and pending rows.
RowsAreUnique ==
    /\ \A u \in Users : IF Exists(u) THEN user[u].email # None
                                    ELSE user[u] = NoUser
    /\ \A u, v \in Users : u # v /\ Exists(u) => ~Clash(user[u], user[v])
    /\ \A r \in Requests : tx[r].adds => /\ ~Exists(tx[r].user)
                                         /\ ~Duplicate(tx[r].row)
    /\ \A q, r \in Requests :
         q # r /\ tx[q].adds /\ tx[r].adds => /\ tx[q].user # tx[r].user
                                              /\ ~Clash(tx[q].row, tx[r].row)

\* The unique columns of `user_oauth_providers`.
LinksAreUnique ==
    /\ \A i \in Identities : link[i] # None => Exists(link[i])
    /\ \A r \in Requests : tx[r].links => link[call[r].identity] = None
    /\ \A q, r \in Requests :
         q # r /\ tx[q].links /\ tx[r].links
             => call[q].identity # call[r].identity

\* What a request carries, and the statements of its handler.  A link that was
\* there when it arrived is still there, and settles where it goes.
Carried(r) ==
    /\ pc[r] = "idle" => call[r] = NoCall /\ tx[r] = NoTx
    /\ pc[r] # "idle" => call[r].op # "none"
    /\ call[r].op = "register" =>
         pc[r] \in {"username", "insert", "audit", "commit"}
    /\ call[r].op = "provider" => call[r].identity \in Identities
    /\ call[r].linked => /\ call[r].op = "provider"
                         /\ link[call[r].identity] # None
                         /\ pc[r] \in {"identity", "session", "audit", "commit"}
    /\ tx[r].tries < Tries

\* The user that r has settled on has the address that r brought.
OwnsAddress(r) ==
    /\ call[r].email # None
    /\ IF tx[r].adds THEN tx[r].row.email = call[r].email
                     ELSE user[tx[r].user].email = call[r].email

\* The two ways through oauthLogin: the identity's link was found, or a user was
\* found or inserted by address, and the identity is linked, if not to this user
\* by r, then by somebody else since r looked.
ByLink(r) == ~tx[r].adds /\ ~tx[r].links /\ link[call[r].identity] = tx[r].user
ByAddress(r) ==
    /\ ~call[r].linked
    /\ OwnsAddress(r)
    /\ tx[r].links \/ link[call[r].identity] # None

\* The rows it has inserted, and the user it has settled on.
Settled(r) ==
    /\ tx[r].adds => pc[r] \in {"link", "session", "audit", "commit"}
    /\ tx[r].links => pc[r] \in {"session", "audit", "commit"}
                      /\ call[r].op = "provider"
    /\ pc[r] = "insert" \/ tx[r].adds => /\ tx[r].row.username # None
                                         /\ tx[r].row.email = call[r].email
    /\ pc[r] \in {"link", "session", "audit", "commit"} =>
         /\ tx[r].user \in Users
         /\ ~tx[r].adds => Exists(tx[r].user)
    /\ pc[r] = "link" => OwnsAddress(r)
    /\ pc[r] \in {"session", "audit", "commit"} /\ call[r].op = "provider"
         => ByLink(r) \/ ByAddress(r)
    /\ pc[r] \in {"audit", "commit"} /\ call[r].op = "register"
         => tx[r].adds /\ OwnsAddress(r)

\* Behind the late status test there is nobody who was suspended on arrival.
Spared(r) ==
    /\ \A u \in call[r].suspended : u \notin active /\ Exists(u)
    /\ pc[r] \in {"session", "audit", "commit"} \/ (pc[r] = "link" /\ tx[r].fit)
         => tx[r].user \notin call[r].suspended

RequestInv == \A r \in Requests : Carried(r) /\ Settled(r) /\ Spared(r)

SuspendedExist == \A u \in Users \ active : Exists(u)

\* A sign-in was as the identity's user, or as the owner of the address.
SignInsAreSettled ==
    \A s \in signedIn :
        /\ link[s.by] # None
        /\ Exists(s.user)
        /\ \/ s.user = link[s.by]
           \/ ~s.linked /\ s.email # None /\ user[s.user].email = s.email

\* The inductive invariant.
IInv ==
    /\ TypeOK
    /\ RowsAreUnique
    /\ LinksAreUnique
    /\ RequestInv
    /\ SuspendedExist
    /\ SignInsAreSettled
    /\ LinksAreEarned
    /\ UsersAreTraced
=============================================================================

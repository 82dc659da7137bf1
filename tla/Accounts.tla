------------------------------ MODULE Accounts ------------------------------
(***************************************************************************)
(* Where users come from: Register, and the first and later logins through *)
(* Google or Apple (oauthLogin), running concurrently against the `users`  *)
(* and `user_oauth_providers` tables.                                      *)
(*                                                                         *)
(* As in SessionStore, one step is one SQL statement at READ COMMITTED.    *)
(* An INSERT that would duplicate a unique column of an uncommitted row    *)
(* waits for that row's transaction; it then fails if the row was          *)
(* committed, or does nothing if it says ON CONFLICT DO NOTHING.           *)
(***************************************************************************)
EXTENDS Naturals, FiniteSets

CONSTANTS
    Users,          \* primary keys that the database can draw
    Emails, Usernames,
    Identities,     \* accounts at a provider: pairs of provider, provider_id
    Requests,       \* requests in flight at the same time
    Tries,          \* usernames that createUniqueUsername draws, 5 in the code
    None,           \* SQL NULL, the empty string
    Faults,         \* the faults of a run
    Registers,      \* Bounds of a run: the addresses that may be registered,
    Brings,         \* those that each identity may bring,
    Suspects,       \* the users that an operator may suspend,
    Logins          \* and the different sign-ins after which no more arrive

ASSUME AccountsAssumption ==
    /\ None \notin Users \cup Emails \cup Usernames \cup Identities
    /\ Registers \subseteq Emails
    /\ Brings \in [Identities -> SUBSET (Emails \cup {None})]
    /\ Tries \in Nat \ {0}

VARIABLES
    user,           \* the `users` table, as committed
    link,           \* the `user_oauth_providers` table, as committed
    active,         \* users with status = 'active'
    signedIn,       \* history: who was granted a session, and as whom
    audit,          \* the audit entries of these two operations
    call,           \* what the request carries
    pc,             \* the statement its handler runs next
    tx              \* its local variables and its uncommitted rows

tables == <<user, link, signedIn, audit>>
vars   == <<user, link, active, signedIn, audit, call, pc, tx>>

-----------------------------------------------------------------------------
(* Types *)

\* The phone number, which only Register can give, is left out: to the third
\* unique column, as to the username, a duplicate is an error.
UserRow == [email : Emails \cup {None}, username : Usernames \cup {None}]

\* `linked` and `suspended` are history: whether the identity had a link, and
\* whose accounts were suspended, when the request arrived.
Call == [op : {"none", "register", "provider"}, email : Emails \cup {None},
         identity : Identities \cup {None}, linked : BOOLEAN,
         suspended : SUBSET Users]

\* A sign-in that was granted a session: what it brought, and as whom.
SignIn == [by : Identities, email : Emails \cup {None}, linked : BOOLEAN,
           user : Users]

\* `adds` and `links` say that the transaction has inserted its row `row` of
\* `users`, or its row of `user_oauth_providers`.
Tx == [user : Users \cup {None}, fit : BOOLEAN, row : UserRow,
       adds : BOOLEAN, links : BOOLEAN, tries : 0..Tries]

Labels == {"idle", "identity", "email", "username", "insert", "link",
           "session", "audit", "commit"}

\* username is NOT NULL: a row without one is not there.
NoUser == [email |-> None, username |-> None]
NoCall == [op |-> "none", email |-> None, identity |-> None, linked |-> FALSE,
           suspended |-> {}]
NoTx == [user |-> None, fit |-> FALSE, row |-> NoUser, adds |-> FALSE,
         links |-> FALSE, tries |-> 0]

Exists(u) == user[u].username # None

Init ==
    /\ user = [u \in Users |-> NoUser]
    /\ link = [i \in Identities |-> None]
    /\ active = Users
    /\ signedIn = {}
    /\ audit = {}
    /\ call = [r \in Requests |-> NoCall]
    /\ pc = [r \in Requests |-> "idle"]
    /\ tx = [r \in Requests |-> NoTx]

-----------------------------------------------------------------------------
(* Control *)

Receive(r, c, label) ==
    /\ pc[r] = "idle"
    /\ call' = [call EXCEPT ![r] = c]
    /\ pc' = [pc EXCEPT ![r] = label]
    /\ UNCHANGED <<tables, active, tx>>

\* The handler answers; its transaction, if still open, is rolled back.
Answer(r) ==
    /\ pc' = [pc EXCEPT ![r] = "idle"]
    /\ call' = [call EXCEPT ![r] = NoCall]
    /\ tx' = [tx EXCEPT ![r] = NoTx]

Advance(r, label, t) ==
    /\ pc' = [pc EXCEPT ![r] = label]
    /\ tx' = [tx EXCEPT ![r] = t]
    /\ UNCHANGED call

-----------------------------------------------------------------------------
(* Requests *)

\* The validator's `email` rule refuses an empty address.
RegisterRequest(r) ==
    \E e \in Registers :
        Receive(r, [NoCall EXCEPT !.op = "register", !.email = e], "username")

\* The callback of Google or Apple, after the exchange of its code at the
\* provider.  The address is the one of this occasion: it may have changed at
\* the provider, and what Apple's callback says replaces what its token says.
ProviderRequest(r) ==
    \E i \in Identities : \E e \in Brings[i] :
        /\ Cardinality(signedIn) < Logins
        /\ Receive(r, [op |-> "provider", email |-> e, identity |-> i,
                    linked |-> link[i] # None, suspended |-> Users \ active],
                "identity")

-----------------------------------------------------------------------------
(* oauthLogin: who is it? *)

\* Mutant: an identity that brings an address is looked up by the address alone.
FindIdentityByEmail(r) ==
    /\ pc[r] = "identity"
    /\ LET u == link[call[r].identity] IN
       IF u = None \/ call[r].email # None THEN Advance(r, "email", tx[r])
       ELSE IF u \in active
            THEN Advance(r, "session", [tx[r] EXCEPT !.user = u, !.fit = TRUE])
            ELSE Answer(r)
    /\ UNCHANGED <<tables, active>>

\* Mutant: the status of a linked user is not tested.
FindIdentityUntested(r) ==
    /\ pc[r] = "identity"
    /\ LET u == link[call[r].identity] IN
       IF u = None THEN Advance(r, "email", tx[r])
       ELSE Advance(r, "session", [tx[r] EXCEPT !.user = u, !.fit = TRUE])
    /\ UNCHANGED <<tables, active>>

\* SELECT the user that the identity is linked to; test its status.
FindIdentity(r) ==
    /\ pc[r] = "identity"
    /\ LET u == link[call[r].identity] IN
       IF u = None THEN Advance(r, "email", tx[r])
       ELSE IF u \in active
            THEN Advance(r, "session", [tx[r] EXCEPT !.user = u, !.fit = TRUE])
            ELSE Answer(r)
    /\ UNCHANGED <<tables, active>>

HasEmail(u, e) == e # None /\ user[u].email = e

\* Mutant: a user without the address is taken for new, and not created.
FindEmailNeverCreates(r) ==
    /\ pc[r] = "email"
    /\ \/ \E u \in Users :
            /\ HasEmail(u, call[r].email)
            /\ Advance(r, "link", [tx[r] EXCEPT !.user = u, !.fit = u \in active])
       \/ /\ ~(\E u \in Users : HasEmail(u, call[r].email))
          /\ Advance(r, "link", [tx[r] EXCEPT !.fit = TRUE])
    /\ UNCHANGED <<tables, active>>

\* SELECT the user with the identity's address.  Its status is kept and not
\* tested until the identity has been linked.
FindEmail(r) ==
    /\ pc[r] = "email"
    /\ \/ \E u \in Users :
            /\ HasEmail(u, call[r].email)
            /\ Advance(r, "link", [tx[r] EXCEPT !.user = u, !.fit = u \in active])
       \/ /\ ~(\E u \in Users : HasEmail(u, call[r].email))
          /\ Advance(r, "username", tx[r])
    /\ UNCHANGED <<tables, active>>

-----------------------------------------------------------------------------
(* createUniqueUsername and INSERT INTO users, of both handlers *)

Taken(n) == \E u \in Users : user[u].username = n

\* Mutant: names are drawn until one is free.
PickUsernameForever(r) ==
    /\ pc[r] = "username"
    /\ \E n \in Usernames :
         IF Taken(n) THEN Advance(r, "username", tx[r])
         ELSE Advance(r, "insert",
                      [tx[r] EXCEPT !.row = [email |-> call[r].email,
                                             username |-> n]])
    /\ UNCHANGED <<tables, active>>

\* One draw, and the SELECT that asks whether the name is free.
PickUsername(r) ==
    /\ pc[r] = "username"
    /\ \E n \in Usernames :
         \/ /\ ~Taken(n)
            /\ Advance(r, "insert",
                       [tx[r] EXCEPT !.row = [email |-> call[r].email,
                                              username |-> n]])
         \/ /\ Taken(n)
            /\ IF tx[r].tries + 1 < Tries
               THEN Advance(r, "username", [tx[r] EXCEPT !.tries = @ + 1])
               ELSE Answer(r)
    /\ UNCHANGED <<tables, active>>

\* Mutants: users.email is not UNIQUE, or users.username is not.
ClashUsernames(a, b) == a.username = b.username
ClashEmails(a, b) == a.email # None /\ a.email = b.email

\* Two rows that the unique columns of `users` do not allow together.
Clash(a, b) ==
    \/ a.username = b.username
    \/ a.email # None /\ a.email = b.email

\* Rows of others that have been inserted and not committed.
Pending(r) == {q \in Requests \ {r} : tx[q].adds}

\* The INSERT of r waits.
InsertWaits(r) == \E q \in Pending(r) : Clash(tx[q].row, tx[r].row)

Duplicate(row) == \E u \in Users : Exists(u) /\ Clash(user[u], row)

Fresh(u) == ~Exists(u) /\ \A q \in Requests : ~(tx[q].adds /\ tx[q].user = u)

\* INSERT INTO users.  A duplicate, or neither an address nor a phone number
\* (the CHECK, which only an identity without an address can fail), is an error
\* that rolls the transaction back.  With no identifier left in Users it fails
\* too (a bound of the model).
InsertUser(r) ==
    /\ pc[r] = "insert"
    /\ ~InsertWaits(r)
    /\ \/ /\ ~Duplicate(tx[r].row)
          /\ tx[r].row.email # None
          /\ \E u \in Users :
               /\ Fresh(u)
               /\ Advance(r, IF call[r].op = "register" THEN "audit" ELSE "link",
                          [tx[r] EXCEPT !.user = u, !.fit = TRUE, !.adds = TRUE])
       \/ /\ \/ Duplicate(tx[r].row)
             \/ tx[r].row.email = None
             \/ ~(\E u \in Users : Fresh(u))
          /\ Answer(r)
    /\ UNCHANGED <<tables, active>>

-----------------------------------------------------------------------------
(* oauthLogin: link and sign in *)

LinkWaits(r) ==
    \E q \in Requests \ {r} : tx[q].links /\ call[q].identity = call[r].identity

\* Mutant: the link goes through the pool instead of the transaction.
LinkIdentityOutside(r) ==
    /\ pc[r] = "link"
    /\ ~LinkWaits(r)
    /\ link' = [link EXCEPT ![call[r].identity] = IF @ = None THEN tx[r].user ELSE @]
    /\ IF tx[r].fit THEN Advance(r, "session", tx[r]) ELSE Answer(r)
    /\ UNCHANGED <<user, signedIn, audit, active>>

\* INSERT INTO user_oauth_providers ... ON CONFLICT DO NOTHING, then the test
\* of the status that an earlier statement read.
LinkIdentity(r) ==
    /\ pc[r] = "link"
    /\ ~LinkWaits(r)
    /\ IF tx[r].fit
       THEN Advance(r, "session",
                    [tx[r] EXCEPT !.links = link[call[r].identity] = None])
       ELSE Answer(r)
    /\ UNCHANGED <<tables, active>>

\* createSession.
InsertSession(r) ==
    /\ pc[r] = "session"
    /\ Advance(r, "audit", tx[r])
    /\ UNCHANGED <<tables, active>>

Action(r) == IF call[r].op = "register" THEN "user.registered"
                                        ELSE "user.oauth_login"

\* Mutant: the entry goes through the pool instead of the transaction.
AuditLogOutside(r) ==
    /\ pc[r] = "audit"
    /\ audit' = audit \cup {[action |-> Action(r), user |-> tx[r].user]}
    /\ Advance(r, "commit", tx[r])
    /\ UNCHANGED <<user, link, signedIn, active>>

\* INSERT INTO audit_logs.
AuditLog(r) ==
    /\ pc[r] = "audit"
    /\ Advance(r, "commit", tx[r])
    /\ UNCHANGED <<tables, active>>

\* COMMIT: user, link, session and entry appear at once, and the handler
\* answers.
Commit(r) ==
    /\ pc[r] = "commit"
    /\ user' = IF tx[r].adds THEN [user EXCEPT ![tx[r].user] = tx[r].row] ELSE user
    /\ link' = IF tx[r].links
               THEN [link EXCEPT ![call[r].identity] = tx[r].user] ELSE link
    /\ signedIn' = IF call[r].op = "provider"
                   THEN signedIn \cup {[by |-> call[r].identity,
                                        email |-> call[r].email,
                                        linked |-> call[r].linked,
                                        user |-> tx[r].user]}
                   ELSE signedIn
    /\ audit' = audit \cup {[action |-> Action(r), user |-> tx[r].user]}
    /\ Answer(r)
    /\ UNCHANGED active

-----------------------------------------------------------------------------
(* Faults and operators *)

Blocked(r) == \/ pc[r] = "insert" /\ InsertWaits(r)
              \/ pc[r] = "link" /\ LinkWaits(r)

\* The 5 s deadline cancels a statement that waits.
Timeout(r) ==
    /\ Blocked(r)
    /\ Answer(r)
    /\ UNCHANGED <<tables, active>>

\* A statement fails, or the process stops: the transaction rolls back.
Fail(r) ==
    /\ "fail" \in Faults
    /\ pc[r] # "idle"
    /\ Answer(r)
    /\ UNCHANGED <<tables, active>>

\* An operator suspends a user in SQL; none is reinstated within the model.
Suspend(u) ==
    /\ u \in active \cap Suspects
    /\ Exists(u)
    /\ active' = active \ {u}
    /\ UNCHANGED <<tables, call, pc, tx>>

-----------------------------------------------------------------------------

Handle(r) ==
    \/ FindIdentity(r)
    \/ FindEmail(r)
    \/ PickUsername(r)
    \/ InsertUser(r)
    \/ LinkIdentity(r)
    \/ InsertSession(r)
    \/ AuditLog(r)
    \/ Commit(r)

Next ==
    \/ \E r \in Requests : \/ RegisterRequest(r)
                           \/ ProviderRequest(r)
                           \/ Handle(r)
                           \/ Timeout(r)
                           \/ Fail(r)
    \/ \E u \in Users : Suspend(u)

Spec == Init /\ [][Next]_vars

\* A handler that can run is scheduled; one that waits for a transaction is
\* woken when it ends, and not overtaken over and over (strong fairness).
\* Nothing is assumed of the deadline.
FairSpec == Spec /\ \A r \in Requests : SF_vars(Handle(r))

-----------------------------------------------------------------------------
(* Properties *)

TypeOK ==
    /\ user \in [Users -> UserRow]
    /\ link \in [Identities -> Users \cup {None}]
    /\ active \subseteq Users
    /\ signedIn \subseteq SignIn
    /\ audit \subseteq [action : {"user.registered", "user.oauth_login"},
                        user : Users]
    /\ call \in [Requests -> Call]
    /\ pc \in [Requests -> Labels]
    /\ tx \in [Requests -> Tx]

\* An identity is signed in as the user it is linked to, whatever address it
\* brings.  The exception is a sign-in that began when it had no link, with
\* another address than the one which was linked meanwhile (ON CONFLICT DO
\* NOTHING keeps that link): it is signed in as the owner of its own address.
IdentityIsOneUser ==
    \A s \in signedIn :
        /\ link[s.by] # None
        /\ s.user # link[s.by] => /\ ~s.linked
                                  /\ user[s.user].email = s.email
                                  /\ user[link[s.by]].email # s.email

\* An identity that is linked to a user whose address it does not bring.
FollowsItsLink(s) == link[s.by] = s.user /\ user[s.user].email # s.email

\* Sign-ins that bring one address, one from Google and one from Apple, are as
\* one user, even when both are first sign-ins at once, unless it was the link
\* of one that decided.
AddressIsOneUser ==
    \A s, t \in signedIn :
        s.email = t.email /\ ~FollowsItsLink(s) /\ ~FollowsItsLink(t)
            => s.user = t.user

\* A sign-in that is refused, or fails anywhere, leaves no link behind: every
\* link was made by a sign-in that brought its user's address and was granted a
\* session.
LinksAreEarned ==
    \A i \in Identities :
        link[i] # None => \E s \in signedIn : /\ s.by = i /\ s.user = link[i]
                                              /\ s.email = user[link[i]].email

\* Every user that exists was entered in the audit trail by the transaction
\* that created it, and no entry names a user that does not exist.
UsersAreTraced ==
    \A u \in Users : Exists(u) <=> \E a \in audit : a.user = u

\* No sign-in succeeds as a user who was suspended before it arrived, although
\* the status is read before the link is made and tested after.
SuspendedNeverSignsIn ==
    \A r \in Requests :
        pc[r] \in {"session", "audit", "commit"} => tx[r].user \notin call[r].suspended

\* The committed rows are the directory; what transactions hold is not.
Catalogue == INSTANCE Directory WITH
    user <- user, link <- link, signedIn <- signedIn, audit <- audit

\* Look-ups and inserts of several requests interleave, wait and roll back, and
\* still users come to be and sign in as by atomic steps.
ImplementsDirectory == Catalogue!Spec

\* Requests that wait for each other's rows do not wait in a circle, so every
\* one of them is answered without help from the deadline.
EveryRequestIsAnswered ==
    \A r \in Requests : (pc[r] # "idle") ~> (pc[r] = "idle")
=============================================================================

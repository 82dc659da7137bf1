------------------------------ MODULE Directory ------------------------------
(***************************************************************************)
(* What registration and sign-in through a provider promise about users    *)
(* and their provider identities, with no requests, no transactions and no *)
(* inserts that wait for each other: whoever is new is entered, linked and *)
(* signed in by one atomic step that finds address and username free;      *)
(* whoever is known signs in as the user that the identity is linked to,   *)
(* or, without a link, as the one user who has the address.  Rows and      *)
(* links are never changed once they are there.                            *)
(***************************************************************************)
CONSTANTS Users, Emails, Usernames, Identities, None

VARIABLES user, link, signedIn, audit

directory == <<user, link, signedIn, audit>>

NoUser == [email |-> None, username |-> None]

Exists(u) == user[u].username # None

Init ==
    /\ user = [u \in Users |-> NoUser]
    /\ link = [i \in Identities |-> None]
    /\ signedIn = {}
    /\ audit = {}

\* The new user u: nobody has the address e, or the username n.
Enter(u, e, n) ==
    /\ ~Exists(u)
    /\ \A v \in Users : Exists(v) => user[v].email # e /\ user[v].username # n
    /\ user' = [user EXCEPT ![u] = [email |-> e, username |-> n]]

\* The identity i, which brings the address e, is granted a session as u; if it
\* has no link it is u's from now on.  `linked`: it had one when it asked, and
\* then it is u's already.
Grant(i, e, linked, u) ==
    /\ linked => link[i] = u
    /\ link' = [link EXCEPT ![i] = IF @ = None THEN u ELSE @]
    /\ signedIn' = signedIn \cup {[by |-> i, email |-> e, linked |-> linked,
                                   user |-> u]}
    /\ audit' = audit \cup {[action |-> "user.oauth_login", user |-> u]}

Register(u) ==
    /\ \E e \in Emails, n \in Usernames : Enter(u, e, n)
    /\ audit' = audit \cup {[action |-> "user.registered", user |-> u]}
    /\ UNCHANGED <<link, signedIn>>

\* The first sign-in of somebody new.
SignUp(i, e, u) ==
    /\ \E n \in Usernames : Enter(u, e, n)
    /\ Grant(i, e, FALSE, u)

\* Somebody known by the address, who has another way in so far.
SignIn(i, e, u) ==
    /\ Exists(u)
    /\ user[u].email = e
    /\ Grant(i, e, FALSE, u)
    /\ UNCHANGED user

\* A later sign-in, whatever the address is by then.
Return(i, e) ==
    /\ link[i] # None
    /\ \E linked \in BOOLEAN : Grant(i, e, linked, link[i])
    /\ UNCHANGED user

Next ==
    \/ \E u \in Users : Register(u)
    \/ \E i \in Identities, e \in Emails, u \in Users : SignUp(i, e, u) \/ SignIn(i, e, u)
    \/ \E i \in Identities, e \in Emails \cup {None} : Return(i, e)

Spec == Init /\ [][Next]_directory
=============================================================================

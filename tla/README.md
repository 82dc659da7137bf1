# A TLA+ model of goleanauth

goleanauth is an authentication service in Go: first-party login with rotating
refresh tokens, an OAuth 2.0 authorization server for registered clients, and
login through Google and Apple, over one PostgreSQL database. This directory
holds TLA+ modules that model its core, TLC configurations that check them on
small instances, and TLAPS proofs about them for every instance.

All paths below are relative to `src/`.

## 1. The system

### Parts, state, operations

| Part | Code | State it keeps | Operations |
|---|---|---|---|
| Session store, transactions | `pkg/db/dbtx.go`, `pkg/db/dbcontext.go`, `migrations/` | tables `users`, `clients`, `sessions`, `authorization_codes`, `audit_logs`, `user_oauth_providers` | `WithTransaction` (READ COMMITTED, deferred rollback), `WithDBTimeout` (5 s) |
| Audit trail | `internal/audit/service.go` | appends to `audit_logs` | `Log`, inside the caller's transaction |
| AuthService | `internal/auth/service.go`, `handler.go` | none of its own | `Register`, `Login`, `RefreshToken`, `Logout`, `LogoutAllDevices`, `LookupSessionUser`, `createSession` |
| RequireAuth | `internal/middleware/auth.go` | none | reads session, user and client before the handler runs |
| OAuthService | `internal/auth/oauth_service.go`, `oauth_handler.go` | none of its own | three grants, `Revoke`, `Introspect`, `ValidateAuthorize`, `IssueAuthorizationCode`, `UserInfo` |
| ClientService | `internal/auth/client.go` | none of its own | `Authenticate`, `Get`, `RegisterClient`, `ListClients` |
| Signing keys | `pkg/jwks/jwks.go` | one signing key, the accepted public keys | `Sign`, `Parse`, `JWKS` |
| Registration, provider login | `service.go` (`Register`, `oauthLogin`), `oauth.go`, `username.go` | rows of `users`, `user_oauth_providers` | look up or create the user, then a session |
| Apple sign-in | `internal/auth/apple.go` | the cached key set under a mutex | fetch, verify |
| Authorize flow | `oauth_handler.go`, `pages/` | cookies, query and form values | authorize, login page, consent, approve, error redirects |
| Rate limiter | `internal/middleware/ratelimit.go` | a counter and a last-seen time per address, a mutex | `Limit`, a cleanup goroutine |
| Lifecycle | `cmd/main.go`, `pkg/db/db.go` | the server, the pool (25 connections) | start, graceful shutdown |
| Stateless parts | other middleware, `normalize`, `validation`, `config`, `docs`, `health`, `response` | none | string functions, headers, read-only pages |

### How they interact

Every HTTP request is a goroutine. It passes the middleware chain, reads and
writes the tables through the services, and answers. Nothing but the rate
limiter's map and Apple's key cache is shared in memory: **all coordination
between requests happens in the database**, through row locks of UPDATE
statements and through what READ COMMITTED makes visible. The three things that
are easy to lose sight of when reading the code are

- a check is almost always a `SELECT` in one statement and the write that relies
  on it another, so other requests commit in between;
- `RequireAuth` and `ClientService.Authenticate` read on a pooled connection of
  their own, *before* the handler's transaction;
- an `UPDATE` that waited for a lock sees the row as the lock's holder left it,
  and only the conditions in its own WHERE clause are asked again.

### What makes each part correct

- **Store, grants, refresh.** A credential that is exchanged is spent; the
  successor inherits its binding; half-done exchanges leave nothing; spent
  credentials never come back; responses carry committed tokens only.
- **Logout, logout-all, revoke.** A success means that the rows are revoked.
- **Audit.** Issued sessions and entries correspond one to one.
- **RequireAuth, client authentication.** What was dead when the request arrived
  is never served, although it is tested early and used late.
- **Everything together.** No request waits forever.
- **Registration and provider login.** An identity that has a link signs in as that
  user, and those who bring one address sign in as one user, also when first logins and
  registrations overlap; a refused or failed login leaves neither user nor link behind.
  (Overlapping first logins of one identity with *two* addresses are two users.)
- **Authorize flow.** A code goes to a registered URI and grants what the client
  may ask for and the user was shown; the flow stays about the request that it
  began with, and ends.
- **Rate limiter.** At most *n* requests per window pass, and forgetting an address
  changes no verdict.
- **Pool, mutex, shutdown.** Nobody waits in a circle; an Apple that does not answer
  holds up sign-ins with Apple and nothing else; a shutdown ends, whatever its
  requests do.
- **Apple's keys.** A published key is known, a withdrawn one is not accepted long.

`PROJECT.json` lists under "hazards" every place, with its line, where one of
these could go wrong in a way that is hard to test.

## 2. The modules

| Module | What it is |
|---|---|
| `SessionStore` | the tables, transactions, row locks, and the statements several handlers share; timeouts, faults, clocks, operators |
| `AuthService` | extends it with login, refresh, logout, logout-all and RequireAuth |
| `OAuthService` | extends it with the three grants, revocation, introspection, approval |
| `AuthServer` | composes both into one server; the specification and every property |
| `SessionLedger` | the abstract specification: credentials change in atomic steps |
| `AuthServerInvariant` | the inductive invariant |
| `AuthServer_types` | proofs: helper operators, type correctness |
| `AuthServer_proofs` | proofs: the inductive invariant and the safety theorems |
| `AuthServer_fitness` | proofs: nothing that was unusable on arrival is served |
| `AuthServer_refinement` | proofs: the server implements `SessionLedger` |
| `MCAuthServer` | the symmetry set for TLC |
| `Accounts` | a system of its own over `users` and `user_oauth_providers`: registration and first and later provider logins; its properties |
| `Directory` | its abstract specification: users are entered, linked and signed in by atomic steps |
| `AccountsInvariant` | its inductive invariant |
| `Accounts_proofs` | proofs: that invariant, the theorems about `Accounts`, the refinement |
| `MCAccounts` | the identities and addresses of its run |
| `RateLimiter` | one limiter: the map of addresses, the clock, the cleanup; its properties and inductive invariant |
| `RequestBursts` | the abstract specification of a limiter: bursts of requests, no table |
| `RateLimiter_proofs` | proofs about it, the refinement included |
| `AuthorizeFlow` | the interactive flow as a browser sees it: pages, forms, cookie, redirects; properties and invariant |
| `ConsentProtocol` | its abstract specification: what the flow promises to application and user |
| `AuthorizeFlow_proofs` | proofs about it, the refinement included |
| `AppleKeys` | the cache of Apple's keys, its mutex, and Apple |
| `Serving` | extends it with the connection pool and the server's life; properties and invariant |
| `Serving_proofs` | proofs about it |
| `MCRateLimiter`, `MCAuthorizeFlow`, `MCServing` | the instances of their runs |

`Accounts` and `AuthServer` meet in one place, `createSession`, which `AuthServer`
models in full and `Accounts` as one statement (`InsertSession`): a session made
by a provider login differs in nothing from one made by `Login`, so the sessions'
further life is `AuthServer`'s. `AuthServer` in turn starts from users that exist.

The other three systems meet it at one label each. `AuthorizeFlow` looks at a code up
to its INSERT, with everything that its row records; `AuthServer`'s `approve` issues
that row, with the same three statements, and follows it through redemption. `Serving`
follows *every* request, but only through what it holds and waits for in the process;
its `tx` stands for all the statements of one of the transactions above. A
`RateLimiter` stands in front of a route and keeps nothing that another part reads.

### State

| Variable | Code |
|---|---|
| `session`, `code`, `audit` | the committed rows of `sessions`, `authorization_codes`, `audit_logs` |
| `userActive`, `clientActive` | `users.status = 'active'`, `clients.active` |
| `expired`, `jwtExpired` | `expires_at` has passed; `KeySet.Parse` refuses the access token |
| `call[r]` | what request *r* presents |
| `pc[r]` | the SQL statement its handler runs next |
| `tx[r]` | the handler's local variables and its uncommitted writes |
| `held` | the tokens and codes that some response has delivered |

A session identifier stands for the row's primary key, its refresh token and the
access token that names it: `createSession` makes the three together. An access
token presented to `/revoke` matches no row and is not modelled. `from`, on a
session row, and `session`, on an audit row, are not columns: they record
provenance so that properties can speak of it. `call[r].dead` records which of
the presented credentials and principals were unusable on arrival.

Secrets, redirect URI, PKCE verifier and the user's decision are one Boolean,
`proof`: either all that the request must prove matches, or something does not.
(The code tests them in several places, but between the first and the last of
those tests a request only reads.) A scope is one opaque value.

### Actions

One action is one SQL statement, or the one query a handler runs outside a
transaction together with the tests on its result. `BEGIN` reads and locks
nothing and belongs to the first statement.

| Handler | Statements (`pc` labels) |
|---|---|
| `Login` | `SelectUser` (auth), `CreateSession` (mint), `AuditLog` (audit), `Commit`, `Reply` |
| `RefreshToken` | `RequireAuth` (auth), `SelectSession` (session), `RotateOut` (rotate), mint, audit, commit, reply |
| `Logout` | `RequireAuth`, `LogoutUpdate` (logout), audit, commit, reply |
| `LogoutAllDevices` | `RequireAuth`, `LogoutAllScan` (scan), `LogoutAllRow` (rows, one row at a time), `AuditLog`, commit, reply |
| `clientCredentials` | `Authenticate` (auth), mint, audit, commit, reply |
| `tokenRefresh` | `Authenticate`, `SelectClientSession` (session), `RotateOut`, mint, audit, commit, reply |
| `tokenAuthorizationCode` | `Authenticate`, `SelectCode` (code), `UseCode` (use), mint, audit, commit, reply |
| `Revoke` | `Authenticate`, `RevokeToken` (kill, autocommitted), reply |
| `Introspect` | `Authenticate`, `Introspect` (read), reply |
| `ConsentApprove` | `ValidateAuthorize` (auth), `LookupSessionUser` (lookup), `IssueAuthorizationCode` (issue, autocommitted), reply |

An UPDATE's row lock is `t \in tx[r].writes`. A statement whose row is locked is
not enabled until the holder commits or rolls back; it then acts on the row as
committed. An UPDATE over many rows (`LogoutAllScan`, `LogoutAllRow`) takes its
snapshot once, and locks in any order. At commit the inserted session, the
updated rows and the audit entry appear together.

`Timeout` is the 5 s context of `WithDBTimeout` cancelling a statement that waits
for a lock; PostgreSQL's own deadlock detector has the same effect. `Fail` is any
statement failing; `LoseReply` a response that never arrives; `Restart` the
process dying between any two steps. `Suspend` and `Deactivate` are SQL by an
operator: no code in the repository does either.

### Accounts

| Variable | Code |
|---|---|
| `user` | the committed rows of `users`: address and username (a user without a username does not exist) |
| `link[i]` | the row of `user_oauth_providers` for identity *i*, a pair of provider and `provider_id` |
| `active` | users with `status = 'active'` |
| `signedIn` | history: each identity that was granted a session, the address that it brought, whether it had a link on arrival, and as which user |
| `audit` | the `user.registered` and `user.oauth_login` entries |
| `call`, `pc`, `tx` | as above; `call[r].linked` and `.suspended` record whether the identity had a link, and who was suspended, on arrival; `tx[r].adds` and `.links` say which rows are inserted and uncommitted |

| Handler | Statements (`pc` labels) |
|---|---|
| `Register` | `PickUsername` (username, up to `Tries` times), `InsertUser` (insert), `AuditLog` (audit), `Commit` |
| `oauthLogin` | `FindIdentity` (identity), then for an unknown identity `FindEmail` (email) and for an unknown address `PickUsername`, `InsertUser`, then `LinkIdentity` (link); `InsertSession` (session), `AuditLog`, `Commit` |

What makes this part hard is in the unique columns. `SELECT` does not see a row
that another transaction has inserted and not committed; `INSERT` waits for it
(`InsertWaits`, `LinkWaits`), then fails on a duplicate, or, with `ON CONFLICT DO
NOTHING`, goes on without inserting. The status that `oauthLogin` tests after the
link was inserted is the one an earlier `SELECT` returned (`tx[r].fit`).

A provider request brings the address of its occasion, any that `Brings` allows its
identity, or none: addresses change at a provider, and what the `user` field of Apple's
callback says replaces what the token says (`service.go:204-207`). For a linked identity
the address is never looked at. Two overlapping first logins of one identity with
different addresses, however, sign in as two users: the second finds its user by its own
address, its link is not inserted (`ON CONFLICT DO NOTHING`, `service.go:514-518`), and
the handler does not ask. `IdentityIsOneUser` states this as its one exception.

An address is a string as stored; `Register` stores it in lower
case and `oauthLogin` as the provider wrote it, so two spellings are two
addresses here as in the code. Phone numbers and names are left out: to the third
unique column a duplicate is the same error.

### RateLimiter

`client[a]` is the map entry of address *a*, `now` the clock, `nextCleanup` the next
firing of the ticker, `passed[a]` (history) the times at which requests of *a* went on
to the handler. `Limit` and `Cleanup` are the two bodies under the mutex; the verdict
falls after unlocking, on a copy made before, so each is one atomic action. The time
between `time.Since` and the two `time.Now` of one call is nothing. A count past the
limit is not told apart from limit + 1.

What a limiter gives is **not** "n per window": a window is closed by a silence longer
than itself, and refused requests break the silence. `RequestBursts` says exactly
that. A caller that is far below the limit but never silent for a window is refused
in the end, and stays so.

### AuthorizeFlow

| Variable | Code |
|---|---|
| `tab[t]` | what a browser tab shows or waits for (`at`), the query or form values that it carries (`q`), and the handler's locals (`grant`, `user`, `agreed`) |
| `login` | whom the browser's one `refresh_token` cookie signs in |
| `active` | `clients.active` |
| `asked[t]`, `shown[t]` | history: the request that an application began the flow with, the last consent screen |

| Handler | Actions |
|---|---|
| `Authorize` | `Validate`, then `AuthorizeLookup` (consent screen or login page) |
| `ConsentApprove` | `Validate`, `ApproveLookup` (the bounce, `access_denied`, or go on), `Issue` |
| `authorizeError` | `AuthorizeError`, after any failure |
| `LoginSubmit` | `LoginSubmit`, which sets the cookie and returns to the URL in `next` |

The user opens the flow with any query, answers, goes back to a screen that was
answered, or posts a form that no screen rendered (`PostForm`); another window signs
in as somebody (`LoginElsewhere`); the session behind the cookie ends (`Lapse`), the
client is deactivated, a statement fails. A scope is a set of names; the absent scope
and the blank one, which `intersectScope` tells apart, are `Absent` and `{}`.
`FormScope` is where they meet: both leave the form's field empty.

### Serving and AppleKeys

| Variable | Code |
|---|---|
| `conn` | the requests that have a connection of `sql.DB`; `MaxConns` is `SetMaxOpenConns` |
| `holder` | who has `appleJWKSCache`'s mutex during a fetch (a hit gives it back in the same step) |
| `cache`, `got`, `lag` | the cached keys with the age of `fetchedAt`; an answer on its way, and for how long |
| `published`, `withdrawn[k]` | what Apple publishes; how long ago each other key was withdrawn |
| `pc[r]`, `kid[r]` | where a request is, and the key that its token names |
| `missing[r]` | history: there was a moment since the request came at which Apple did not publish that key |
| `server` | up, draining (`Shutdown`), closed, database closed, exited |

A request is behind `RequireAuth` (`auth`, `authQuery`, `begin`, `tx`), open (`begin`,
`tx`), or a sign-in with Apple (`lock`, perhaps `fetch`, `store`, then `begin`, `tx`).
`AppleLogin` verifies the token before its transaction, no handler asks for a second
connection inside one, and `RequireAuth` gives its own back before the handler runs:
`HoldersDoNotWait` rests on these three. A fetch is `http.Get` without a timeout or a
context, so nothing but Apple's answer ends it: neither the caller's leaving nor
`server.Close`. `Abort` ends what does notice. `Over` is how each of them ends: the answer
goes out (`idle`), or is lost (`cut`), because `server.Close` has closed the connection
or because the handler took longer than the `WriteTimeout` of 10 s (`main.go:153`), which
may happen at any time and cuts the answer only, not the handler. So nothing is claimed
of answers here; a request *ends* (`Ended`) either way.

## 3. The runs

All bounds are in the `.cfg` files; those of one run:

| Run | Users, clients, scopes, sessions, codes, requests | Faults | Checks |
|---|---|---|---|
| `first_party` | 2, 1, 1, 3, 1, 2 | none | `TypeOK`, `SuccessMeansEnded`, `OnlyLogoutAllHoldsAndWaits` |
| `oauth_grants` | 2, 2, 2, 3, 1, 2 | none | `ExchangeKeepsBinding`, `ExchangeSpends`, `DeadIsNeverServed` |
| `lapses` | 1, 1, 1, 2, 1, 2 | expire, jwt, suspend, deactivate | `FitInv`, `DeadIsNeverServed` |
| `faults` | 1, 1, 1, 2, 1, 2 | restart, fail, lose | `RequestInv`, `DeliveredIsCommitted`, `IssuesAreTraced`, `ImplementsLedger`, `TokensAreWriteOnce` |
| `answered` | 1, 1, 1, 2, 1, 2 | none | `EveryRequestIsAnswered` |

`FitInv` is `DeadIsNeverServed` statement by statement: it speaks of every request that
has passed a test, and not only of one that succeeds. `faults` has every endpoint that writes, with an ephemeral signing key. The run
of `Accounts`:

| Run | Users, emails, usernames, identities, requests, tries | Faults | Checks |
|---|---|---|---|
| `accounts` | 2, 2, 2, 2, 2, 2 | fail | `TypeOK`, `IdentityIsOneUser`, `AddressIsOneUser`, `LinksAreEarned`, `UsersAreTraced`, `SuspendedNeverSignsIn`, `EveryRequestIsAnswered`, `ImplementsDirectory` |

One identity always brings the address that may also be registered, the other brings
that one, a second one, or none (Apple's private relay refused): `Brings`, `Registers`.
So two identities can meet at one address, as a person at Google and at Apple does, and
one identity can come with two addresses. One of the two users may be suspended
(`Suspects`), and after two different sign-ins no more arrive (`Logins`): that is enough
for two identities or for two addresses of one. Two usernames make draws collide,
two tries exhaust them (5 in the code: the bound `Tries`).

The other systems, one run each:

| Run | Instance | Checks |
|---|---|---|
| `rate_limit` | 2 addresses, limit 2, `Window` 1, `Retention` 2, `Period` 2, clock to `MaxTime` 6 | `TypeOK`, `AtMostMaxPerWindow`, `EntriesAreForgotten`, `ImplementsBursts` |
| `authorize` | 1 tab, 2 users, 1 client, 2 URIs (1 registered), 3 scopes (2 allowed), 1 challenge and a malformed one, `MaxTrouble` 2 | `TypeOK`, `CodesAreRegistered`, `ConsentIsWhatIsGranted`, `FlowKeepsItsRequest`, `FlowEnds`, `ImplementsProtocol` |
| `serving` | 2 requests, 1 connection, 2 keys, `TTL` 2, `MaxLag` 1 | `TypeOK`, `HoldersDoNotWait`, `RefusedWasUnpublished`, `KeysAreRecent`, `OnlySignInsWaitForApple`, `EveryRequestEnds`, `ShutdownEnds` |

In six units of the clock an address can fill a window, fall silent, be forgotten by
one of three cleanups, and come back; units are those in which the window is one (a
minute), and the order of `Window`, `Retention` and `Period` is the code's but their
distance is smaller. `MaxTrouble` bounds how many sessions lapse, clients are
deactivated and statements fail in one behaviour of `authorize`: two suffice for a
lapse at the login page and another at the consent form. Other tabs matter to a tab
through the cookie alone, which `LoginElsewhere` and `Lapse` change at any moment, so
one tab is enough; the proofs are for any number. `MaxLag` bounds the time that an
answer from Apple is under way between its making and its being stored; `Old`
saturates ages. One connection for two requests is the tightest pool: a request that
held one and waited for another would be stuck. The process exits in `serving`, so
that run is the one that does not check for deadlock; `EveryRequestEnds` and
`ShutdownEnds` do it there.

**Why these bounds are enough to be interesting.** Everything that can go wrong
between requests here goes wrong between two: one reads, the other writes and
commits, the first writes. Two requests in flight, each of which becomes another
request when it is answered, give every interleaving of every pair of handlers
and any sequence of them. Three sessions let two logins be refreshed, or two
successors of one session exist; two users and two clients let one present
another's tokens; two scopes let a successor differ. One code is enough for a
replay. Identifiers of one kind are interchangeable, so safety runs use symmetry;
the liveness run does not. No run reaches a deadlock of the model: with the
identifiers used up, requests still arrive and fail. The proofs of section 5 lift
the bounds for all of these properties but the liveness properties.

**Fairness.** `FairSpec` assumes that a handler that can run does (weak fairness:
the Go scheduler and PostgreSQL run every goroutine and backend), and that a
request that keeps waiting for locks is cut (strong fairness of `Timeout`: the
deadline counts from the start of the handler and not of one wait, so waits that
are interrupted do not restart it). In `Accounts` a handler is strongly fair: an
INSERT that waits is woken when the transaction it waits for ends, and is not
overtaken for ever; nothing is assumed of the deadline, so
`EveryRequestIsAnswered` says there that waits are never circular.

In `AuthorizeFlow` handlers finish, and a user who is shown the login page or the
consent screen signs in or answers: `FlowEnds` is about users who do their part, and
lapses are bounded. In `Serving` handlers run and queries end (after 5 s at the
latest, and RequireAuth's is a SELECT of one row, which waits for no lock); mutex and pool are handed on to those who wait (strong
fairness: `sync.Mutex` and `database/sql` queue them); `Shutdown`'s context expires.
Apple need never answer: `OnlySignInsWaitForApple` and `ShutdownEnds` hold without
that, and `EveryRequestEnds` has it as an explicit premise.

Nothing is assumed of callers, clocks, operators or faults.

### What the violation runs show

Each checks one sentence of the repository's own documentation or comments and
ends in a counterexample that follows the code.

| Run | Says | Does |
|---|---|---|
| `bug_code_reuse` | "Single-use: mark consumed before issuing tokens so a replayed code (even in a concurrent request) is rejected" (`internal/auth/oauth_service.go:246`) | both requests read the code unused; the second UPDATE waits, then marks the used code again, since it asks neither `used = false` nor how many rows it changed; both mint |
| `bug_logout_all` | "Revoke every session for the user" (`README.md:179`) | a refresh commits between the UPDATE's snapshot and its wait: the successor survives |
| `bug_error_redirect` | `authorizeError` "renders an error page for requests that cannot be safely redirected (unknown/inactive client or unregistered redirect URI)" (`internal/auth/oauth_handler.go:310-312`) | it asks whether the client exists, not whether the URI is the client's, and redirects to it; the test of this case (`oauth_handler_test.go:268`) sees the error page because its mock does not answer the second query |

`ExchangeSpends` and `DeadIsNeverServed` delimit the first: a credential that
was spent *before* the request arrived is always refused; only overlapping
requests share one.

The models also follow the code where it does something that its documentation does
not lead one to expect, without a run that says so:

- two overlapping refreshes with one token both succeed, as two redemptions do
  (`service.go:256`; `README.md:231` says "old refresh token is revoked");
- a logout with a client_credentials token fails, since its NULL `user_id` cannot be
  scanned, and is rolled back (`service.go:338`);
- overlapping first logins of one provider identity with two addresses sign in as two
  users, of whom the identity is linked to the first (`service.go:204-207`, `514-518`);
- refresh is behind RequireAuth, so it is refused once the access token has lapsed
  (`main.go:99`; `internal/docs/openapi.yaml:125` asks for the cookie only);
- a client's revocation writes no audit entry (`oauth_service.go:493`);
- when the session lapses on the consent screen, the bounce drops `response_type`, and
  after signing in the user ends in `unsupported_response_type`
  (`oauth_handler.go:238`); the URL in `README.md:271` lacks it as well;
- a consent screen for a blank scope lists nothing, and approving it grants every
  scope of the client (`ConsentIsWhatIsGranted` states the exception);
- the consent screen is not bound to the user whom it was shown to.

## 4. The abstract specifications

`SessionLedger` has no requests, transactions or locks. A session is granted, or
exchanged for another session or a code which the same step spends and whose
binding it inherits; sessions end; codes are issued; and the step that issues a
session, or ends one at its user's wish, also writes the audit entry.
`AuthServer` implements it under the identity on `session`, `code` and `audit`
(`ImplementsLedger`): every statement but the committing one maps to a
stuttering step. The ledger does not promise that what is exchanged was unspent,
because the code does not.

`RequestBursts` has neither a map nor a cleanup: the requests of an address come in
bursts that end with a silence longer than `Window`, and the first `MaxRequests` of a
burst pass. `RateLimiter` implements it (`ImplementsBursts`) under the mapping that
reads an entry as a burst while it is younger than a window, and as quiet after:
`Cleanup`, and an entry's staying in the map, are stuttering steps. This is what makes
forgetting harmless, and it needs `Window <= Retention`, which `LimiterAssumption`
states and the code satisfies (1 and 10 minutes).

`Directory` has no requests, no pending rows and no INSERT that waits: a new user is
entered, linked and signed in by one step that finds address and username free;
an identity with a link signs in as the link's user, whatever address it brings; one that
had no link when it asked signs in as the owner of its address, and becomes his unless
it was linked meanwhile; rows and links never change. `Accounts` implements it under the
identity on its committed tables (`ImplementsDirectory`). This says more than the
invariants of the run: that usernames are unique as well, that nothing ever changes or
removes a row or a link, and that no sign-in takes effect but together with its audit
entry. It has no status, since the code tests it on a row read earlier;
`SuspendedNeverSignsIn` says what is promised there.

`ConsentProtocol` has no validation, forms, pages or handlers. A flow is asked for;
the screen is shown to somebody signed in and lists exactly what was asked for, if the
client may have it; the user agrees or denies; consent is given in the name of whoever
is signed in then; and the code grants what the screen listed, to the client, URI and
challenge of the request. A flow that starts over, or goes back to its screen, has to be
decided again. `AuthorizeFlow` implements it (`ImplementsProtocol`) although the server
keeps nothing between the pages: the mapping reads the phase off the tab (`Phase`) and
the giver and the code off the handler's locals. Three exceptions are the code's, and the
protocol states each: a screen that lists nothing grants everything (`AsShown`), a
posted form that no screen rendered agrees to itself (`Post`), and the one who gives
consent need not be the one the screen was shown to (`Give` takes `signedIn` anew).

## 5. The proofs

Assumptions: `StoreAssumption` (identifiers of different kinds are distinct from
NULL, sessions from codes) and `OpsAssumption` (the endpoints of a run are
endpoints). The sets of users, clients, scopes, sessions, codes, requests and
faults are arbitrary, infinite ones included.

`AuthServer_types` proves `TypeCorrect`, `Spec => []TypeOK`. Types alone are not
inductive: `LogoutAllRow` is well typed only if the request carries a session, so
`TypeInv` adds to `TypeOK` that a request is on the route of its endpoint
(`Carried`).

`AuthServer_proofs` proves `Spec => []IInv` for

    IInv == TypeOK /\ RequestInv /\ MintsAreDistinct /\ DeliveredIsCommitted
            /\ SuccessMeansEnded /\ ExchangeSpends /\ ExchangeKeepsBinding
            /\ IssuesAreTraced

The properties speak of committed tables, and the step that decides them is
`Commit`; what makes `Commit` right was established by statements long before.
`RequestInv` carries it there, per request: what it presents is committed
(`Presented`); its local copies equal the row they were read from (`Copied`);
the rows it has written and so locks (`Wrote`); what a logout-all has found, and
that it is still to do, written, or revoked by another (`Found`); what it has
inserted (`Inserted`). `MintsAreDistinct` says that no two transactions insert
the same session. It is a conjunct that the others need, and not a result: it rests on
`Fresh`, in which identifiers drawn at random (`gen_random_uuid`, 32 random bytes) are
*assumed* to differ.

The argument has three layers.

1. *Others keep.* A step that leaves the rows alone, or changes them only by
   adding rows and spending them (`TablesKeep`), preserves `RequestInv` of every
   other request (`OthersKeep`): all of it is stable under such changes. That is
   why reading a row early and using it late is harmless for its binding.
2. *One statement at a time.* For the acting request, each statement establishes
   the next label's conjuncts (`AuthStepInv`, `OAuthStepInv`, `AdvanceInv`,
   `AnswerInv`, `ReceiveInv`).
3. *Commit.* `CommitInv` shows that the tables after a commit satisfy the
   properties, from the committing request's `RequestInv`, and that it keeps them
   for everybody else by layer 1.

`ExchangesSpend`, `ExchangesKeepBinding`, `IssuesTraced`, `SuccessEnded` and
`DeliveredCommitted` are conjuncts of the invariant.
`LogoutAllsDeadlockAlone` and `TokensWriteOnce` follow from it, the second for
every step.

`AuthServer_fitness` proves `DeadNeverServed`, that no request succeeds on what was
unusable when it arrived. The property is about the reply; `FitInv` is what makes it
inductive, beside `IInv`. `StaysUnfit`: what was unfit on arrival is unfit now. It
holds because clocks and operators only take away (`OnlyGetsWorse`), spent tokens stay
spent (`WriteOnce`), and the rows that say whose a token is keep saying so
(`PrincipalStaysInactive`, `UnfitForGood`). `PassedFit`: behind the statement that tests
a role are only requests that brought it fit. `TestsPass` takes the testing statements
one by one: a role that was unfit on arrival is unfit at its test, by the first half,
and the test answers with an error. The order of arrival and test is all that is used,
so any delay between them does no harm; the delay *after* the test is where a token can
die and still be served, and nothing is claimed of it.

`AuthServer_refinement` proves `ServerImplementsLedger`. The rows and the audit log are
changed by `Commit`, `RevokeToken` and `IssueAuthorizationCode` alone, so every other
step stutters. `RevokeRevokes` and `InsertIssues` take the two autocommitted statements.
A COMMIT is one ledger step: a grant (`CommitGrants`), an exchange of a session
(`CommitRotates`) or of a code (`CommitRedeems`), or an ending by its user
(`CommitEnds`). What the ledger reads in that step the handler read several statements
ago; `Copied` says that its copies still equal the rows, `Wrote` that only its own locks
cover what it writes, `Inserted` that the row and the entry are exactly one
(`AtCommit`).

### Accounts

`AccountsAssumption`: identifiers are distinct from NULL, what may be registered and
brought are addresses (or none), at least one username is drawn. The sets are arbitrary,
and with `Registers = Emails` and every `Brings[i] = Emails \cup {None}` the first two
bounds are none.

`Accounts_proofs` proves `Spec => []IInv` for

    IInv == TypeOK /\ RowsAreUnique /\ LinksAreUnique /\ RequestInv
            /\ SuspendedExist /\ SignInsAreSettled /\ LinksAreEarned /\ UsersAreTraced

`RowsAreUnique` and `LinksAreUnique` extend the unique columns from committed
rows to pending ones: that is what makes a commit keep them. `RequestInv` has
three parts for each request. `Carried`: what it holds at each label. `Settled`: from the
link onwards it has one user, by one of two ways. `ByLink`: the identity's link was
found, and leads there. `ByAddress`: the user has the address that was brought
(`OwnsAddress`), and the identity will be linked, by the request's own insert or by the
one it met at `ON CONFLICT DO NOTHING`. `Spared`: behind the test of the status is nobody
who was suspended on arrival. `SignInsAreSettled` is what a COMMIT leaves of `Settled`.

Every statement but `Commit` and `Suspend` leaves the tables alone and changes
one request (`LocalInv`, `AdvanceFacts`); `CommitInv` is the step that moves
pending rows into the tables and so disturbs everything, table by table
(`CommitRows`, `CommitLinks`). `IdentitiesAreUsers`, `AddressesAreUsers`,
`LinksEarned`, `UsersTraced` and `SuspendedStayOut` follow.

`AccountsImplementDirectory` is the refinement. `TablesMove` says that `Commit` alone
touches what the directory sees. That a COMMIT is one of its steps (`CommitIsOneStep`)
has two halves: `CommitWrites` says what the tables hold after it, and `CommitEnters`
that address and username of a pending row are free among the *committed* rows at the
moment of the COMMIT, which is `RowsAreUnique` over pending rows; the handler looked for
them several statements earlier.

### RateLimiter

`LimiterAssumption`: the limit is positive, window, retention and period are natural
numbers, and `Window <= Retention`. `RateLimiter_proofs` proves `Spec => []IInv` for

    IInv == TypeOK /\ ClockInv /\ HistoryInv /\ AtMostMaxPerWindow

`ClockInv` says that the ticker is at most a period ahead and that every entry's time
has a turn of the ticker within `Retention + Period`; `Forgotten` follows.
`AtMostMaxPerWindow` is about the whole history and is not inductive: a request is
judged by one counter. `HistoryInv` says what the counter knows. The last
`PassedInBurst(a)` passed requests are the current burst's, and every one before them
is more than a window older than any of them; an address without an entry has passed
nothing within a window. `LimiterImplementsBursts` proves the refinement step by step,
the cleanup's stuttering from `Window <= Retention`.

### AuthorizeFlow

`FlowAssumption` and `RecordAssumption` say that NULL, the absent scope and the
malformed challenge are none of the proper values. `AuthorizeFlow_proofs` proves that
`TypeOK` and `TabInv` of every tab are inductive. `Validated` carries what one
statement tested to the INSERT that relies on it: all of it is stable but the client's
being active. `Rendered` ties the form to the screen, so that approving it asks for
what the screen listed, also after `Back`. `SameRequest` ties both to what the
application asked for. One lemma, `TabStep`, says that a step which keeps the
invariant of its tab and leaves the other tabs alone keeps everything;
the others take the actions one by one.

`FlowImplementsProtocol` has one lemma per step of the protocol (`ShowStep`,
`DecideStep`, `GiveStep`, `IssueStep`, ...), and `SamePhase` for what stutters. The
invariant has a part for it, `Unaltered`: a query with its `response_type` that
reaches the authorize page is the application's request as it was made; the URL of the
bounce, which drops `response_type`, ends in an error, so a screen after signing in
again is never one for altered values. Without it a screen would be known to be
about the same client and URI only (`SameRequest`), and not to list what was asked.

### Serving

`KeysAssumption` and `PoolAssumption`: `TTL` and `MaxConns` are positive, NULL is
neither a request nor a key. The sets of requests and keys are arbitrary.
`Serving_proofs` proves that

    IInv == TypeOK /\ IsFiniteSet(conn) /\ HoldInv /\ MissingInv /\ AgeInv

is inductive. `HoldInv` turns `HoldersDoNotWait` into an equivalence: connections and
mutex are held at their labels, *and only there*; without the second half a step would
not be known to give back what it holds. `MissingInv` carries "not published at some
moment" from the request's arrival, over the answer that was made without the key, to
the refusal. `AgeInv` bounds the age of what was withdrawn by the age of the cache
plus the delay of the answer, and of what is on its way by its delay; so the clock may
tick at any point. `KeysRecent` is proved of every step, through `VerifiedBy`:
the only ways from the cache to the transaction.

**Model-checked only.** `EveryRequestIsAnswered` (of two systems), `FlowEnds`,
`EveryRequestEnds`, `OnlySignInsWaitForApple` and `ShutdownEnds` are liveness under fairness and stay with
TLC, as does anything with ENABLED: every safety and every action property that a
passing run checks is proved as well. The four refinements are of safety
specifications, so they say nothing of progress. Induction over data and RECURSIVE
operators are out of the prover's reach as well; no module uses either.

## 6. Not modelled

- *The state cookie and the exchange with a provider*: before the transaction of
  a provider login, on no table and on no shared memory.
- *The key set of `pkg/jwks`* is fixed while the server runs. A token of a key that is
  no longer in it does not parse, which is `jwtExpired`, and a restart with an
  ephemeral key makes all of them so (`Restart`).
- *The array literal parser* of `client.go` and `normalize` and `validation`: pure
  functions on strings. The parser toggles at escaped quotes too.
- *Client administration, migrations*: a single INSERT or SELECT behind an API
  key, and a tool that runs before the server. Clients exist from the start.
- *429 inside the authorize flow*: a refusal by the limiter leaves the tab where it was
  and the user tries again. In `AuthServer`, `LoseReply` is the effect of *`WriteTimeout`*
  on the caller, and `Serving` has it in `Over`.
- *Cryptography*: passwords, hashes and signatures match or do not.
- *Headers, logging, recovery, CORS, documentation pages, health checks,
  configuration*: no state. A panic becomes an error response, which `Fail` covers.
- *UserInfo* reads one row and is not an action. (It scans columns that may be NULL into
  strings, `oauth_service.go:515`: a user without a phone number or a name gets an error.)
- *Reinstated users and clients*: no code reinstates one; `Suspend` and
  `Deactivate` are final. *A withdrawn key that is soon published again*: `Publish`
  takes keys that were gone for `Old`.
- *Vendored code* (`internal/docs/redoc.standalone.js`) is served as a file.

## 7. Plan

1. An abstract specification of `Serving`: what a caller sees of a pool, a mutex and a
   shutdown, as the other four systems have one.
2. Client registration as an action, once `ClientService` is to be modelled in full.
3. The state cookie of provider logins, with two tabs that share it.

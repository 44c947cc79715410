# A TLA+ development of Orivis

Orivis is a self-hosted single sign-on server: it signs people in, issues OAuth2 tokens to the applications that rely on it, and decides who may use which of them.
This directory models the parts of it that are hard to test: handlers that share a database and hold no lock, several statements to a request, and what is left behind when one of them fails.

Paths below are relative to the repository; `server.go` is `backend/internal/server/server.go`.

## The system

The API server is one Go process.
Its HTTP handlers run as goroutines and share a PostgreSQL database and nothing else that changes: the configuration, the signing key and the Google client are set in `New` and only read afterwards.
No handler opens a transaction, so **every SQL statement commits by itself**, and between two statements of a request any statement of any other request may run.
A handler carries the rows it has read in local variables and never reads them again.
Many results are dropped (`_ =`, `_, _ =`): the row counts of the consuming and revoking UPDATEs, the audit INSERT, the method row of a registration, the listing of a user's groups.
These three facts are what the models are built on.

| component | state | operations | interacts with | what makes it correct |
|---|---|---|---|---|
| OAuth2 provider (`server.go` 562-768, 1083-1317) | `oauth_authorization_codes`, `oauth_access_tokens`, `oauth_refresh_tokens` | authorize, exchange code, rotate, client credentials, revoke, introspect, userinfo | policy (before a code is issued), principal lookup | a grant keeps its owner through every rotation; nothing is minted from a grant that was read closed or expired; a grant is closed before it yields; closing is final; an answer names only stored tokens |
| Policy service and forward-auth (770-809, 912-1081) | `platform_policies`, `subject_policy_overrides` | upsert a policy, upsert an override, decide | called by authorize and by forward-auth; writes audit events | a decision is one the tables gave; a deny that stands is honoured; a decision is reached |
| Audit log (859-910, 1499-1508) | `audit_events` | append, list a page, count | written by the policy handlers, read page by page by the web application | a change of policy leaves an event; a walk through the pages misses no event that was there at its start; a page and its total agree |
| Authentication (96-560, 1319-1423, 1455-1497) | `users`, `user_auth_methods`, `totp_factors`, `webauthn_credentials`, `external_identities`, `auth_challenges`, `sessions` | register, password login, TOTP and passkey verification, provider start and callback, link, unlink | every other handler trusts its access tokens | a challenge opens a session only for its user and only while it is open; a second factor is asked for; listed methods and stored factors agree |
| Process life cycle (`config.go`, `main.go`, `server.go` 61-94, 1522-1547) | signing key, connection pool, default client row | start, ensure the default client, shut down | all handlers | two processes can start at once; nobody serves without the default client; a shutdown ends and acknowledges no sign-in it did not store; tokens outlive a restart |
| Discovery and JWKS (562-577, 733-747) | none | answer from the configuration | clients | constant |
| Web application (`frontend/src`) | token in `localStorage`, session cookie, query cache per tab | sign in, guards, clear the token | the API | what a tab shows agrees with the session the browser holds; a sign-in takes effect |
| Generated API layer (`apigen`) | none | routing, binding of parameters | in front of every handler | a handler sees only requests with its required parameters |
| SQL bindings, scripts | none | scanning, building | | not part of the concurrent behaviour |

What is hard, and where: two requests reading a row before either writes it (`server.go` 1083-1121, 1166-1185, 190-212); a row used several statements after it was read; a crash between two statements; a statement that commits and is reported failed; a failed statement whose error is dropped; a decision that reads several rows while they change; expiry boundaries written in three places with two operators; a `NULL` that the database accepts and the Go struct cannot hold; a pool with few connections, closed under the handlers that use it; two answers about one table that are read at different instants; lifetimes and offsets that do not fit their integers; a token, a cookie and a cache that are changed by different tabs.
`PROJECT.json` lists each of these under `hazards`, at its line, with the properties that watch it.

## Modules

| module | models | extends |
|---|---|---|
| `Statements` | how one SQL statement can end for its caller | |
| `OAuthGrants` | the three token tables and every handler that writes them | `Statements` |
| `GrantLedger` | what the token endpoint promises, without tables, clocks or statements | |
| `OAuthGrantsProofs` | theorems about `OAuthGrants` | `OAuthGrants`, `TLAPS` |
| `GrantLedgerProofs` | that `OAuthGrants` implements `GrantLedger` | `OAuthGrantsProofs` |
| `PolicyDecision` | the access decision as a function of the rows it consults | |
| `PolicyService` | administrators changing policy while requests are being decided | `PolicyDecision`, `Statements` |
| `PolicyServiceProofs` | theorems about `PolicyService` | `PolicyService`, `TLAPS` |
| `Authentication` | registration, sign-in, challenges, linking and unlinking | `Statements` |
| `AuthenticationProofs` | theorems about `Authentication` | `Authentication`, `TLAPS` |
| `AuditLog` | appending to the audit log while it is read page by page | `Statements` |
| `AuditLogProofs` | theorems about `AuditLog` | `AuditLog`, `TLAPS`, the theorems on finite sets and sequences |
| `Lifecycle` | processes that start, serve from a connection pool, shut down, crash and restart | `Statements` |
| `LifecycleProofs` | theorems about `Lifecycle` | `Lifecycle`, `TLAPS` |
| `Access` | the authorization endpoint, composing `OAuthGrants` and `PolicyService` | `Statements`; both by `INSTANCE` |
| `AccessProofs` | theorems about `Access` | `Access`, `TLAPS`; `OAuthGrantsProofs` and `PolicyServiceProofs` by `INSTANCE` |
| `WebSession` | who the tabs of a browser show as signed in | |
| `WebSessionProofs` | theorems about `WebSession` | `WebSession`, `TLAPS` |
| `MC...` | instances for TLC: who the clients, groups and accounts are, and the symmetries | |

### How the models correspond to the code

**An action is one SQL statement of one handler**, together with the local code that follows it up to the next statement.
A handler of several statements occupies a slot of `Requests` (or `Checks`, `Admins`); its local variables are the fields of the slot's record, and `pc` names the statement it executes next.
A handler with a single write is one action without a slot.
A handler that rejects its request before it writes changes nothing and is a stuttering step; lookups of rows that never change are folded into the next statement.

**Faults** are a constant, so that each run says what may go wrong.
`"failed"`: a statement has no effect and returns an error.
`"unread"`: a lookup returns an error instead of its row.
`"lost"`: it commits and its reply is lost, so that the caller sees an error all the same.
`"crash"`: the process stops; local variables are gone and tables are not.
After a crash the slots are free again: the restarted process.

**Time** is one clock for `time.Now()` and `NOW()`; it moves between any two steps.
`Before`/`After` are strict in Go, so a row is usable *at* its expiry instant (`CodeUsable`, `ChallengeOpen`) and introspection, which asks `After`, is stricter by that instant.

**Data** is abstracted to what the properties tell apart: hashes, JWT texts and passwords are the identity of the row they find; a code verifier and its challenge are related by the function `S256`; a TOTP secret is its place in the order in which the table received the secrets of its user.

`OAuthGrants`: `AuthorizeOAuth2Client` is the INSERT of a code, with who is signed in and what the policy says left open.
`ReadCode`/`ReadRefresh` are the lookup and checks of an exchange; `ConsumeCode`/`RevokeOldRefresh` the UPDATE that closes the grant and the signing of the JWT, which fixes its expiry; `CreateAccessToken` and `CreateRefreshToken` the two INSERTs, the second with the response.
`minted`, `delivered` and `acked` are history: who minted a token from what, read when; which tokens were answered; which revocations were acknowledged.
Slots are constant in number, and a slot serves any number of requests one after the other.

`PolicyService`: `putPlatformPolicy`/`putOverride` are the upserts, `audit` the event and the 200.
A check reads the principal's groups, then the user override, then one group at a time, then the platform row, and stops at the first that speaks.
`seen` collects what `evaluatePolicy` would have said at each instant of a check, which is what its verdict is compared with; `blind` the lookups that failed.

`Authentication`: `LoginWithPassword` is the check of the password; `LookupFactor` the separate lookup of the second factor; `ChallengeTotp`, `VerifyTotpChallenge`, `SpendChallenge`, `authenticateAndIssueSession` the way through a challenge; `LinkTotp`/`LinkPasskey` store the factor and `StoreMethod` lists it; `UnlinkCurrentUserAuthMethod` deletes the listed row only.
An account is looked up by an identifier that may be the email of one and the username of another (`GetUserByIdentifier`), and either row may be returned.
`CompleteExternalProviderLogin` never gets past its lookup (see `StartExternalProviderLogin`), so no state it could change is reachable.

`AuditLog`: `CreateAuditEvent` is the begin of an INSERT, which fixes `created_at`, and `audit` its commit, so events become visible out of the order of their timestamps.
`ListAuditEvents` and `CountAuditEvents` are the two statements of one page; events of one timestamp come in any order, and not in the same order each time; `Int32` is Go's truncation of the offset.
A request is one of a reader's application or of any other client (`by`).
`OpenAuditEvents`, `ChooseSize`, `NextPage` and `PreviousPage` are the page of the web application; `cache` is what its query client holds by page and size.
A page read less than `StaleTime` (30 seconds) ago is shown as it was; any other is shown as it was and asked for again (`Show`), and its answer goes to the cache under its own key even if the page is no longer on the screen (`Receive`).
`Reconnect` asks again for a stale page when a lost connection comes back.
`trail` is history: the pages of the present walk in front of the one on the screen, as they were when the reader turned them; choosing another size or opening the page again begins a new walk.

`Lifecycle`: a process is configured (`LoadConfig`), connects and loads its key (`Connect`), looks for the default client and creates it (`LookupClient`, `ensureDefaultOAuthClient`), and serves.
Its requests take a connection of the pool for each of their statements (`Acquire`, `RunStatement`); two kinds stand for the rest, a sign-in, which checks the error of its last statement, and a revocation, which checks none.
A signal closes the listener; `main` returns from `ListenAndServe` at once and its deferred `Close` closes the pool (`StopListening`, `Close`): waiting handlers get an error, those that run a statement finish it, and the process ends when the last connection is back (`Exit`), whatever the handlers still had to do.

`Access` composes the two services.
`Begin` is a request that passed the generated wrapper (`Bound`) and whose client, redirect and caller are in order; `Decide` a step of `PolicyService`; `Reject` and `Issue` what follows the decision.
The grant tables are the variables of an instance of `OAuthGrants`, whose single action `AuthorizeOAuth2Client` the whole handler refines: `ImplementsGrants == G!Spec`.
`permitted` and `overtaken` are history: every user and client that the policy tables ever allowed, and those who were granted a code on a verdict during which the policy changed twice.
The second exception is real: a check that has passed a group's override before it became a deny, and reads the platform's row after it became an allow, lets in somebody whom the tables refused at every instant.

`WebSession`: a tab's `status`, `data` and `fetch` are its query of `/v1/me`; `signing` and `answer` the sign-in under way.
The cookie is set when the answer of a sign-in arrives, and the token when the page gets to it, so that two tabs can leave the token of one sign-in beside the cookie of the other; a token in the header hides the cookie (`parseAccessClaims`).
Invalidating the query asks again, but react-query goes on with a request under way when the query has no data (`Keeps`), and that request presents the credentials of before.
The dashboard replaces the login page a little later (`opening`, `OpenDashboard`). The generated query function hands its abort signal to `fetch` (`frontend/src/api/generated/orivis.ts` 568-572), so the login page going away cuts the kept request off, and `RequireAuth` asks again with the credentials of now.
What is left is the time in between: if the kept request is answered first, its answer is taken.
`changed` and `entered` name exactly that case.
`entered` and `changed` are history: the sign-ins nothing has interfered with, and the tabs whose credentials changed since they sent their last request.

`GrantLedger` is the abstract specification.
A request that finds a grant open holds a *claim*; a claim pays for one token; a token has at most one successor grant, of the same owner; closing a grant yields no further claims and does not cancel those already held.
That last clause is the honest promise: it bounds what two simultaneous exchanges can get without saying that they cannot both succeed.
`OAuthGrants` implements it under the mapping in `Ledger`.

## Runs

Passing runs:

| run | instance | shows |
|---|---|---|
| `oauth_window` | two clients, two users, two codes, two handlers; replies lost, crashes | owners do not mix through exchanges and rotations (`OwnerPreserved`); tokens come only from grants read open and unexpired (`ReadWhileOpen`); a crash loses a grant and never leaves it open with a token out (`MintedSourceIsClosed`); a grant yields at most one token per handler inside it (`OneMintPerRequest`); an acknowledged revocation stands (`AckedRevocationHolds`) |
| `oauth_faulty` | one client, one code, two fair handlers; statements fail, crashes | a token response is backed by two rows (`DeliveredIsBacked`); a closing time never moves (`ClosureIsFinal`); the tables implement `GrantLedger` (`ImplementsLedger`); every admitted request ends (`EveryRequestEnds`) |
| `policy_decide` | a fair check of a user in two groups, every stored policy as an initial state, one change meanwhile; lookups fail, replies are lost, crashes | with at most one change and no failed lookup a verdict is one the tables gave at an instant of the check (`VerdictHeldAtSomeInstant`); a standing user-level deny is honoured unless its own lookup failed (`StandingDenyHonoured`); every check ends (`EveryCheckEnds`) |
| `auth_sign_in` | two accounts, two handlers, linking and unlinking; replies lost, crashes | a challenge opens sessions only for its user and only if it was read open (`SessionAnswersOpenChallenge`) and is consumed by then (`AnsweredChallengeIsSpent`); who had a second factor is asked for it (`SecondFactorAsked`); a password opens sessions of its own account only, also when its identifier matches two (`PasswordOwnerSignsIn`); a secret that was sent stands until replaced (`ShownSecretStands`); a listed method is backed by its factor (`ListedMethodIsBacked`) |
| `audit_pages` | three events, one reader and other clients, pages of one and of three rows, cached; an offset past the int32 range; INSERTs fail | who walks to the last page, on pages from the server and from the cache, was shown every event of the start of the walk (`WalkFindsEveryEvent`); no page shows rows beyond its total (`TotalCoversPage`) |
| `lifecycle_restarts` | two processes, two starts, two requests, one connection; statements fail, crashes; keys configured, drawn and unusable; lifetimes unset, negative and too large | a process serves only with the default client (`ServingHasClient`); a rival's client does not stop a start (`RivalsDoNotStopAStart`); a configured key outlives its process (`TokensOutliveProcesses`); tokens are valid when they are sent (`TokensAreBornAlive`); an acknowledged sign-in is stored, also by a process that is going down (`AnsweredSignInIsStored`); shutdowns and requests end (`EveryStopEnds`, `EveryRequestEnds`) |
| `access_authorize` | one client, user, group and code; one authorization at a time, every stored policy, one change of it; statements fail, replies are lost, crashes | the handler does to the grant tables what `OAuthGrants` says (`ImplementsGrants`); codes and tokens exist only for a user and a client that the policy once allowed, with at most one change (`TokenTracesToPolicy`); a code is stored only if the policy allowed it during that very request (`CodesFollowTheirVerdict`) |
| `web_tabs` | two tabs, two sign-ins; expiry, reloads, cleared tokens, lost answers | a tab shows the user its browser acts as, unless its credentials changed since it last asked (`ShownUserIsCurrent`); a sign-in ends on the dashboard of its user (`SignInOpensDashboard`) |

Each property of a passing run has a *mutated form* of a definition beside it in its module (`KeepCode`, `NoneOf`, `HasListedFactor`, ...): a plausible bug under which TLC finds the property violated.
`PROJECT.json` pairs them under `mutants`.

Runs that end in a violation, each a disagreement of the code with something the repository says:

| run | what TLC finds |
|---|---|
| `oauth_race` | two exchanges read a code before either consumes it, and both mint (`server.go` 1115: the row count of the UPDATE is dropped) |
| `oauth_revoked_userinfo` | an access token that was delivered and revoked is still served by userinfo (750) |
| `policy_precedence` | the first group by name decides, though a later one denies (1049; `docs/policy-model.md` 23-24) |
| `auth_unlink` | unlinking TOTP leaves the factor in force (546) |

### Bounds, and why they are enough

- *Two handlers.* Every conflict in these tables is between two statements on one row; a third handler repeats what the second can do. The theorems hold for any number.
- *Keys.* Pools of keys are finite and a handler is admitted only while keys remain for it (`AccessRoom`, `RefreshRoom`). Two codes, two access and two refresh tokens are enough for a code exchange and a rotation of its token, for two exchanges of one code, and for two families side by side; two concurrent rotations of one token need a third, and are covered by the theorems only, like two sessions of one challenge in `Authentication`. In `Authentication` one challenge, two sessions and one method row allow the sign-up, the challenge and its second answer; a handler that finds no key left waits.
- *Clock.* `MaxTime = 1` gives every order of an event with one expiry boundary: before, at, and one tick after. In `oauth_window` codes expire at their own instant (`CodeTTL = 0`) and tokens one tick later, so both sides of the boundary occur within the two instants.
- *Changes.* `MaxChanges = 1` for decisions, because the property is about one concurrent change (with two it is false, see Divergences). `MaxSecrets = 2` is one TOTP enrolment and its replacement.
- *Audit log.* Three events on pages of one row give a walk of three pages, in which an event is appended above the reader, one becomes visible below it, and timestamps are equal; the other size shows the log on one page and lets the reader leave a page that is loading, whose answer arrives later. `StaleTime = 1` within `MaxTime = 2` makes a page fresh, stale, and read again. `Half = 4` stands for 2^31: the page that the other clients ask for, with a size that is not positive, has an offset that wraps to a negative number. The one request at a time is the reader's or another client's; lookups do not fail in the run, and the theorems cover both any number of requests and failing lookups.
- *Processes.* Two processes with two starts between them meet each other on an empty database, or restart with the key of before. One connection for two requests makes one of them wait, also while the pool is closed under it. A `Duration` has 16 values; `Second`, `Hour`, the default and the least lifetimes are scaled so that the default fits and the longest configured lifetime does not.
- *Access.* `MaxChanges = 1` leaves `overtaken` empty, so the run checks the property without its exception; the theorem covers any number. One client, user, group and code: the composition adds no conflict between authorizations that `OAuthGrants` and `PolicyService` do not have by themselves; what it adds is the order from decision to code, and that needs one of each. The grant it leads to is exchanged and rotated by the handlers of `OAuthGrants`.
- *Tabs.* Two tabs and two sign-ins of different users are the least with which the token, the cookie and what a tab shows can all differ.
- *Symmetry* is over keys, slots and users, never over clients, which differ, and is not used in runs with a liveness property.
- `CHECK_DEADLOCK FALSE` is set where keys and clock run out; the real system does not.

### Fairness

No request has to arrive, no administrator has to act, no process has to be started or signalled and the clock need not move.
Fairness is asked of the steps that a handler, a process or a page takes by itself once it has begun:

- weak fairness of `HandlerStep` and `CheckStep`: the Go scheduler runs every runnable goroutine, and every statement returns, with a row or an error (pgx gives up with the request's context). None of these steps is disabled by another handler.
- weak fairness of `StartStep` and `StopStep` in `Lifecycle`, for the same reasons.
- strong fairness of `Acquire`: another handler may take the free connection first, which disables the step, and may do so again and again. The pool (puddle, under pgxpool) serves the goroutines that wait in the order in which they came, so one that waits is not passed over for ever.
- weak fairness of `Receive` or `OpenDashboard`, and of `Proceed`, in `WebSession`: an answer, or an error in its place, arrives, the page goes on with it, and the browser shows the page it was told to.

## Proofs

Every type invariant, safety invariant and action property of the passing runs is proved, and so are both refinements: for any number of clients, users, keys, handlers, checks, processes, tabs and events, any lifetimes and page sizes, and runs of any length.
A run shows that the property can fail, by its mutant, and that it holds on an instance; the theorem says that the instance was large enough.

The proofs rest on the named assumptions of the modules: the types of the constants, that `NULL` is none of the values it stands beside, and what is said with each module below.
TLC evaluates them on every run.
Two more are premises of single theorems instead, because the code only keeps the promise under them:

- `NoSilentFailure`, or `"failed" \notin Faults`: no write has no effect. The handlers drop the errors and row counts of the statements concerned (`server.go` 696, 1115, 955).
- `"unread" \notin Faults`: no lookup fails. A lookup that does is taken for a row that is not there (157, 1040).

With few exceptions no property is inductive as it stands, and always for the same reason: **a handler acts on what it read statements ago**.
The strengthening says that what it carries is still true of the tables, and why nobody else could have made it false.

### `OAuthGrantsProofs`

| theorem | states |
|---|---|
| `TypeCorrect` | `[]TypeOK` |
| `OwnerIsPreserved` | `[]OwnerPreserved` |
| `LocalsStayTrue` | what a running handler carries stays true of the tables while others write them |
| `ReadsWhileOpen` | `[]ReadWhileOpen` |
| `ClosureFinal` | `ClosureIsFinal`, an action property |
| `ClosedBeforeMint`, `OneMint` | `[]MintedSourceIsClosed`, `[]OneMintPerRequest`, under `NoSilentFailure` |
| `SerialSingleUse` | with one token request at a time as well, a code yields at most one access token: the promise `oauth_race` breaks holds without the race |
| `RevocationStands` | `[]AckedRevocationHolds`, under `NoSilentFailure` |
| `ResponseIsBacked` | `[]DeliveredIsBacked` |

`KeysAssumption` says that a refresh key is neither a code key nor an access key.

The strengthening is `LocalsAgree`: for every running handler, the row it read still exists with the owner and expiry it copied, was unexpired when it was read, and, if it has been closed since, was closed no earlier than it was read.
This holds because of two facts proved first: the clock does not go back (`TimeAdvances`), and grants only ever close (`GrantsOnlyClose`: an existing row keeps every column but the closing time, which is written once).
`IInv == TypeOK /\ LocalsAgree /\ OwnerPreserved` is then inductive, and the temporal theorems follow.
For single minting the invariant `OneUse` adds `ClaimsUnspent`: past its UPDATE a handler has closed its grant, and before its INSERT it has minted nothing from it, so a slot that later reads the same grant would have found it closed.
`RevocationStands` needs `IInv` as well: that no handler rewrites a revoked row is a property of what its statements touch.

### `GrantLedgerProofs`

`LedgerImplemented`: `Spec => ImplementsLedger`.
There is a lemma for each statement, saying which step of the ledger it is under the mapping: the lookup is a claim, the UPDATE closes, the access-token INSERT mints, the refresh-token INSERT enters the successor, everything else is a stutter.
Besides `IInv` it needs `PairsPending`: a token that waits for its refresh token has none yet, and no other handler waits with the same token. Without it a token could get two successors.

### `AuthenticationProofs`

| theorem | states |
|---|---|
| `TypeCorrect` | `[]TypeOK` |
| `SessionsAnswerOpenChallenges` | `[]SessionAnswersOpenChallenge` |
| `PasswordsSignInTheirOwner` | `[]PasswordOwnerSignsIn` |
| `FactorIsAsked` | `[]SecondFactorAsked`, if no lookup fails |
| `AnsweredChallengesAreSpent` | `[]AnsweredChallengeIsSpent`, if no write fails silently |
| `ShownSecretsStand` | `[]ShownSecretStands` |
| `ListedMethodsAreBacked` | `[]ListedMethodIsBacked` |

`AuthInv == TypeOK /\ LocalsAgree /\ SessionsKept` is inductive.
`LocalsAgree` says, for each place a handler may be at, what it has established: the challenge it answers is the one it read, open then (`AnswersRow`); the password it checked is its user's; what it is about to list is in the tables (`MethodReady`).
It rests on what no statement does: challenges only close (`ChallengesOnlyClose`), and factors, credentials and sessions are neither removed nor handed to another user (`FactorsStay`, `CredentialsStay`, `SessionsStay`).
`FactorPending` and `SpentPending` carry the two conditional theorems across the statements between the check and the session.
`ListedMethodsAreBacked` is the theorem behind `auth_unlink`: methods never outlive their factor; it is the factor that outlives its method.

### `PolicyServiceProofs`

| theorem | states |
|---|---|
| `TypeCorrect` | `[]TypeOK` |
| `VerdictsHeldAtAnInstant` | `[]VerdictHeldAtSomeInstant` |
| `StandingDeniesAreHonoured` | `[]StandingDenyHonoured` |

`PolicyAssumption` says that users and groups are different subjects and that a user is in a group once (both tables have such keys).

A check keeps no copy of the rows it has passed, so the invariant is about what it would still answer with the tables of now (`Continues`).
`ReadSoFar`: until a row changes, the rows passed say nothing, hence the answer to come is the decision of now.
`ContinueSeen`: after at most one change it is the decision of some instant in `seen`. One change separates the two only by touching a row already passed, and then the answer to come is the decision of the instant before; this is where two changes break it.
`DenyPending`: a check is past a user's override that it could read only if at some instant that override did not deny.

### `AuditLogProofs`

| theorem | states |
|---|---|
| `TypeCorrect` | `[]TypeOK` |
| `TotalsCoverTheirPages` | `[]TotalCoversPage` |
| `WalksFindEveryEvent` | `[]WalkFindsEveryEvent` |

`AuditAssumption` says that there are fewer events than `Half` (2^31 in the code).

Rows are never removed and keep their timestamp (`LogGrows`), so what a page was chosen from (`read`) stays in the log in the same order (`RowsStay`).
`NoneSkipped`, of a single page wherever it is kept: an event of its reading that has the rows of the earlier pages in front of it and is not shown has a full page more in front of it. This and `TotalCounts` (the total covers the reading) hold of an answer, hence of the cache (`RequestsSound`, `CacheSound`).
`WalkMisses`, of the pages in front of the one on the screen: if each was read no earlier than the one before, an event of page 1's reading that pages 1 to i have not shown has i full pages in front of it (`TrailsSound`). Turning a page adds one page to the walk (`WalkExtends`) or takes one away (`WalkGoesBack`); choosing a size empties it.
On the last page the total says that there are no more rows than those pages hold, so no such event is left.
Most of the work is what the page of an ordering is (`PlaceOf`, `NotOnPage`: an event absent from a page lies before or behind it), integer division (`LastPageIs`) and offsets that fit (`Int32Fits`).

### `LifecycleProofs`

| theorem | states |
|---|---|
| `ProcessInvariant` | `[]IInv`, the inductive invariant |
| `PoolsStayInBounds` | `[]TypeOK`, which says of a pool that it gives out at most its connections and takes none back twice |
| `ClientBeforeService` | `[]ServingHasClient` |
| `RivalsAreTolerated` | `[]RivalsDoNotStopAStart` |
| `SignInsAreStored` | `[]AnsweredSignInIsStored` |
| `KeyOutlivesProcesses` | `[]TokensOutliveProcesses` |
| `TokensBornAlive` | `[]TokensAreBornAlive` |

The type of the pool's counter is not inductive by itself: a statement that ends gives a connection back, and that the counter is positive then follows from `Counted`, which says that the counter is the number of requests that hold a connection.
The other strengthenings are `Handled` (a request under way belongs to a process that runs and has statements left), `Keyed` (from `Connect` on a process has a key, the configured one if it has one, and the tokens were signed with such keys) and `Configuration` (a process that is up has checked the lower bounds of its lifetimes).
Most steps of a process go through one lemma, `MoveKeeps`: a process may change its record as long as it keeps its promises, abandons no request, and serves only with the client.

### `AccessProofs`

| theorem | states |
|---|---|
| `GrantsImplemented` | `Spec => ImplementsGrants` |
| `PolicyImplemented` | `Spec => P!Spec`: the composition does to the policy what `PolicyService` does |
| `TypeCorrect` | `[]TypeOK` |
| `TokensTraceToPolicy` | `[]TokenTracesToPolicy`, if no lookup fails |
| `OneChangeNeverLetsIn` | the same without the exception, if the policy changes at most once |
| `CodesFollowVerdicts` | `CodesFollowTheirVerdict`, an action property, if no lookup fails |

Every step of `Access` is a step of `OAuthGrants` and a step of `PolicyService`, or leaves their variables alone (`StepOfGrants`, `StepOfPolicy`).
So the inductive invariants of the two modules hold in the composition as well; they are taken from instances of their proof modules, `Grants` and `Policy`, and not proved again.
What is added is the way between the parts: the check of an authorization is about its own user and client (`Linked`); a verdict that allowed them at an instant of the check has put the pair into `permitted` (`SeenPermitted`, `NowPermitted`); and `VerdictHeldAtSomeInstant` of the policy says that the verdict acted on is such a one.
`OwnerPreserved` of the grants then carries the pair from the code to every token.

### `WebSessionProofs`

| theorem | states |
|---|---|
| `TypeCorrect` | `[]TypeOK` |
| `ShownUsersAreCurrent` | `[]ShownUserIsCurrent` |

What a tab shows was answered in the past; it is about the session of now because the request under way, if nothing was disturbed since it was sent, presents that session (`FetchIsCurrent`). A sign-in that has the library keep an older request counts as a disturbance until the next request is sent.

### Only model-checked

Liveness (`EveryRequestEnds` of `OAuthGrants` and of `Lifecycle`, `EveryCheckEnds`, `EveryStopEnds`, `SignInOpensDashboard`), which is outside what the proof system treats.
The four violations are counterexamples and have nothing to prove.

## Divergences noticed

Beyond the violation runs, and without a run of their own:

- A denial at `/oauth2/authorize` leaves no audit event (`server.go` 599-602); `docs/oauth2-provider.md` 29 says one is recorded.
- Forward-auth reports `platform_denylist` for every denial (784), also for one by a user override (`tests/bdd/features/policy-controls.feature` 16). `Response` models it.
- With statements that fail silently the code acknowledges what did not happen: a change of policy is answered with 200 although the INSERT of its audit event failed (1499-1500), where `docs/admin-guide.md` 21 says that all policy changes should generate audit events; a crash between the two statements leaves a change without an event as well. A revocation is answered with 200 (`server.go` 696-697), and an exchange mints from a code that its failed UPDATE left open (1115). `AckedRevocationHolds` and `MintedSourceIsClosed` are checked in a run without such failures, and `RevocationStands` and `ClosedBeforeMint` have their absence as a premise.
- A failed lookup of a policy row falls through to the next layer (1040): a user-level deny is then passed over, which `tests/bdd/features/oauth2-provider.feature` 21-24 does not expect. `StandingDenyHonoured` excludes that one lookup.
- A TOTP lookup that fails reads as no second factor (157), so `SecondFactorAsked` is checked without failing lookups.
- With two changes of policy during one check, a verdict may be one the tables never gave at any instant, and a code may be issued on it. Nothing in the repository promises more; `VerdictHeldAtSomeInstant` is about one change, and `TokenTracesToPolicy` names the codes of the other case.
- `client_credentials` (`docs/oauth2-provider.md` 19) stores its token with a `NULL` user, and the INSERT's RETURNING cannot be scanned into the Go struct (1240-1252): the row is committed and the answer is always 500. The model has the row and no delivery.
- For the same reason the start of a provider login (336, `docs/authentication-methods.md` 18-20) always answers 500, and nothing behind its callback is reachable.
- The answer of the passkey options endpoint lacks the challenge id that the verification requires (254, 270). The model lets the verification name any challenge.
- `sessions` is written and never read: the refresh token of a sign-in cannot be redeemed.
- A TOTP secret is stored before it is sent; if the request fails in between, the factor is in force and nobody was told its secret.
- A shutdown allows ten seconds for draining, but `main` returns when the listener closes (`main.go` 49-60) and the pool is closed at once. Handlers that still need a statement get an error; a revocation, which drops its errors, is then acknowledged without effect. `AnsweredSignInIsStored` holds because that INSERT is checked.
- Without a configured key every process draws its own under the same `kid`, so a restart or a second replica invalidates all tokens and verifiers cannot tell why; `docs/architecture.md` 36 says that signing keys are versioned and rotated. `TokensOutliveProcesses` is about configured keys.
- Lifetimes have a lower bound only; one that overflows `time.Duration` yields tokens that are expired when they are sent. `TokensAreBornAlive` says so by its premise.
- The audit offset is computed in `int` and cut to `int32` (876): a page far enough out is answered with 500, or with rows of another page. The order of a page has no tie-breaker, so events of one instant may be shown twice or never; a failing COUNT is answered as a total of 0, which ends the walk. The properties of `AuditLog` name these three exceptions.
- The audit page shows cached pages for 30 seconds. A walk that comes to a cached page older than the one in front of it may pass over events that lay between the two readings, or end by the older total. `WalkFindsEveryEvent` excludes it (`InOrder`).
- A sign-in in a tab whose request for `/v1/me` is under way without data keeps that request (`App.tsx` 125). If it is answered before the dashboard is on the screen, the user of before is shown although the new token is stored, until the next request. The properties of `WebSession` exclude that window.
- "Clear stored token" in the web application removes the token and leaves the cookie and the cached user; an expired token in the header hides a cookie that is still good.

## Plan

Built, in this order: the token tables (`OAuthGrants`, `GrantLedger`), their proofs, the policy decision (`PolicyDecision`, `PolicyService`), sign-in (`Authentication`), the audit log (`AuditLog`), the processes (`Lifecycle`) and their proofs, the authorization endpoint that composes policy and grants (`Access`), the browser (`WebSession`).

Then the remaining proofs: the ledger (`GrantLedgerProofs`), sign-in (`AuthenticationProofs`), decisions (`PolicyServiceProofs`), the browser (`WebSessionProofs`), the audit log (`AuditLogProofs`), the composition (`AccessProofs`).

Next:

1. *Across the composition*: the remaining invariants of the parts stated of `Access` itself (`RevocationStands`, `ClosedBeforeMint` and the ledger through `GrantsImplemented`).
2. *What the violations leave*: the theorems that hold in place of the four refuted promises, as `SerialSingleUse` does for `oauth_race`: which decision an order of the groups gives, and what unlinking removes.
3. *Shorter proofs*: the lemmas that say which fields a step leaves alone are similar in `AuthenticationProofs` and `OAuthGrantsProofs`.

## Not modelled

The discovery document is a constant of the configuration.
Of the generated code the parameter binding that decides what the audit and authorization handlers see is modelled; the rest is routing, and the strict server is not used by `main`.
Markup, forms and the other pages of the web application keep nothing beyond the server's last answer; of react-query only what the two pages depend on is modelled: requests that are kept, cut off or not made twice, stale times, and answers that go to the cache. It also forgets a page that has not been on the screen for five minutes; the model keeps it, stale, which shows more and asks the same.
Build, generation and development scripts are not part of the running system.
Group membership and client rows are constants, because no handler of the repository changes them (`Lifecycle` models the one row that a start creates).
Cryptography is assumed: a signature or a password verifies only for what it was made for, and random keys do not repeat.
The account resolution behind the provider callback (`resolveUserFromGoogleIdentity`) is not reachable at this commit.

# Verification of aegistry in TLA+

aegistry is an asynchronous Python library for logging users in: first and
second factors, a pre-login *authentication session* that collects them, a
post-login *session*, FastAPI routes over both, SQLAlchemy stores, and a small
TypeScript client. This directory models its core in TLA+, checks the models
with TLC and proves the main properties with TLAPS.

## The system

| Part | Source (under `src/aegistry`) | State | Operations |
|---|---|---|---|
| Authentication session service | `authentication_session.py`, `contrib/fastapi/flow.py` | one row per pending login: identity, step, AMR list, used factors, expiry | `start`, `get_by_token`, `get_available_factors`, `advance`, `complete`, `advance_and_complete` |
| Session service | `session.py`, `contrib/fastapi/session.py`, `dependencies.py` | one row per login: identity, AMR, expiry | `create`, `get_by_token` (sliding), `revoke`, `revoke_all` |
| Password factor | `factors/password.py`, `contrib/fastapi/password.py` | one hash per identity | `enroll`, `authenticate` (with hash upgrade), `change`; routes login, register, change-password |
| TOTP and HOTP factors | `factors/totp.py`, `factors/hotp.py` | enrolment: secret, enabled, last time step or counter | `enroll`, `enable`, `verify` |
| Backup codes | `factors/backup_codes.py` | hashes of the codes, hashes of the used ones | `enroll`, `verify` |
| Email OTP | `factors/email_otp.py`, `contrib/fastapi/email_otp.py` | code hash, expiry, authentication session | `create`, `consume`; routes request, verify |
| OAuth2 | `factors/oauth2/base.py`, `state.py`, `contrib/fastapi/oauth2.py` | state rows, enrolments by provider account | `start`, `callback`, `enroll`; routes authorize, callback |
| OpenID Connect and providers | `factors/oauth2/oidc.py`, `google.py`, `apple.py`, `line.py`, `github.py` | discovery document and key set, cached in the factor | `exchange_code`, `get_id_token_claims`, `get_profile` |
| Stores | `contrib/sqlalchemy/` | the tables | select, insert, update by id, delete by id or by identity |
| Client | `src/clients/packages` | the `$session` atom; the cookies of the user agent | `getSession`, `signIn`, `signUp`, `signOut`, `changePassword`, the hook `useSession` |
| Helpers | `crypto.py`, `amr.py`, `logging.py`, `timestamp.py`, `cookies.py`, `config.py` | none | |

**Interaction.** A route loads the objects it needs (cookie to token hash to
row), lets a factor verify something, and hands the authentication session to
`advance_and_complete`: `advance` checks that the factor is available, records
it and updates the row; `complete` checks that no available factor remains,
deletes the row and lets the session service create the login session. While
factors remain the row stays and the client goes on with the next factor. The
available factors depend on the enrolments of the identity, which other routes
change. `change-password` verifies, stores the new hash, revokes all sessions
of the identity and creates one. The browser client keeps what `GET /session`
last told it in an atom, beside the session cookie it cannot read.

**What is hard.** Every service call is a coroutine, and every request works on
a *copy* of a row it has loaded: it reads, awaits, and writes the whole object
back by id. Nothing is locked, no update tests what it overwrites, and
`contrib/sqlalchemy/stores.py` leaves transactions to the application. So the
interesting behaviours are interleavings of requests over the same row: stale
updates after deletes, lost updates, checks that are out of date when they are
acted upon, requests that fail half-way, and expiry that passes between check
and use. Around them are the network, which delays, reorders and loses the
client's calls, and the providers, which rotate the keys a factor has cached.
`PROJECT.json` lists the hazards with the line where each one bites.

**What makes each part correct.**
- Authentication session: the recorded factors climb the configured steps one
  by one, a login session reports only factors verified in it, no required
  factor is passed over, and a completed session is gone.
- Session: in use it does not run out, unused it does, revoked it stays gone.
- Password: a replaced password does not come back and does not open sessions,
  and neither does one that was never stored.
- One-time passwords: a code counts once, and the counter neither falls back
  nor runs ahead.
- Email OTP: a code counts only in the session it was requested in, for the
  address it was sent to, and not after it was consumed or replaced.
- OAuth2: a state serves one flow, an account of the provider stays with one
  identity, and no enrolment lacks an identity.
- Backup codes: a code counts once, and one set of codes at a time.
- OpenID Connect: a good ID token is not refused.
- Client: what it shows agrees with the cookie and the server once calls no longer
  overlap, the session and the cookie of a user who has signed out never come
  back, and the page does not wait for ever.

## Modules

Conventions shared by all component modules: requests are processes with a
stage `pc`, each served once; an awaited store call is one atomic step, with
the computation up to the next await; `snap` or `copy` is the Python object a
request holds between two steps; a `Fail` or `Abandon` action ends a request
between any two of its steps (a store error, a cancelled request). Tokens,
hashes and secrets are identified with the ids of their rows: they are random
and do not collide.

| Module | Models |
|---|---|
| `TokenLifecycle` | abstract specification: an id is issued once, lives, and is gone for good |
| `AuthenticationSession` | the pre-login session and the login flow; `Start` ... `CompleteDelete` are the service's methods, `BeginCheck`/`CheckEnrollment` the loop of `get_available_factors`, `CreateSession` the end of `advance_and_complete`, `Enroll`/`Disenroll` the application |
| `Session` | the login session; `GetByToken` decides about sliding, `Slide` writes, `Revoke`, `RevokeAll` + `Renew` are logout and the end of a password change |
| `OneTimePassword` | TOTP and HOTP, whose control is identical; `kind` selects the window of `_verify`, `next` stands for `last_verified_time_step + 1` or `counter` |
| `PasswordChange` | the password factor with its three routes and the sessions of the identity; a password is named by the request that sets it, `Outdated` is one whose hash is due for an upgrade |
| `OneTimeToken` | abstract specification: a token is issued once; requests that overlap may find the same live one, but nobody finds one that was spent or voided |
| `EmailOTP` | the email OTP factor and its routes; `RequestCode`, `Replace`, `Insert` are the request route with `create`, `VerifyCode`, `ConsumeLoad`, `ConsumeDelete` the verify route with `consume`; authentication sessions are reduced to being found or not (`open`) |
| `OAuth2Login` | state service, `callback` and `enroll` for one provider, and the sign-up of the callback route; `Exchange` is the provider, `Resolve...` the three ways to an identity, `Unlink` the application |
| `BackupCodes` | the backup codes factor; a set of codes is named by the `enroll` that generates it, `Loaded` is the row a `verify` has read, `VerifyStore` writes its list back |
| `OpenIDConnect` | the exchange of a code for each kind of provider and the profile after it; `jwks` and `document` are the caches of a factor, which one callback or several may use, `FetchKeys`, `ServeKeys`, `StoreKeys` the two ends of the request for keys, `Publish`, `Switch`, `Retire` the provider |
| `AuthClient` | the TypeScript client, the hook, the session cookie and the routes they call; `Begin` sends, `Serve...` is the server, `Receive...` and `Lost` the answer in the browser, `ClearAtom` the end of `signOut`; `expires` and `until` are the server's and the cookie's idea of when a session ends |
| `MC...` | the instances for TLC |
| `..._proofs` | the theorems about a module; `OAuth2_proofs` holds those about `OAuth2Login` and `OpenIDConnect`, which share no name so that both can be extended |

Definitions whose comment begins with "Mutation of" are plausible faults used
to test the properties; no specification uses them.

**Refinement.** `AuthenticationSession` and `Session` implement
`TokenLifecycle` under the mapping `Status`: an id with a row is live, an
issued id without one is gone. `EmailOTP` and `OAuth2Login` implement
`OneTimeToken`: a request between the select and the delete of `consume` has
*taken* the token, one past the delete has *spent* it. One-time tokens are
tokens in turn: `OneTimeToken` states that it implements `TokenLifecycle`, and what
this says of email codes and OAuth2 states is proved through both mappings.

## What TLC checks

| Run | Instance | Shows |
|---|---|---|
| `auth_session` | 3 requests, 1 authentication session, a password and two second factors that share an AMR, 2 identities (one with all factors, one with the password alone), 1 enrolment change, a clock of 2 values | `StepsInOrder`, `SessionsAreBacked`, `NoFactorPassedOver`, `CompletedIsGone`, `ImplementsLifecycle` (1.1 million states) |
| `session` | 4 requests, 2 sessions, 2 identities, lifetime 4, write delay up to 2, clock to 7 | `KeptAlive`, `UnusedExpires`, `RevokedIsGone`, `ImplementsLifecycle` |
| `one_time_password` | 5 requests, 2 enrolments, drift 1, look-ahead 2, codes and clock to 3, both kinds | `NoReplay`, `NeverAhead`, `EnabledStays` |
| `password_change` | 4 requests, with and without an enrolment to begin with | `RetiredStaysRetired`, `SurvivorsOverlapped`, `SessionsRestOnStored` (111,000 states) |
| `email_otp` | 4 requests, 3 rows, 2 sessions, 2 addresses, 2 codes, lifetime 1, a clock of 2 values | `CodeProvesMailbox`, `ReplacedIsGone`, `OthersUntouched`, `ImplementsOneTimeToken` (426,000 states) |
| `oauth2_login` | 5 requests, 2 states, 3 enrolments, 2 accounts whose address belongs to one identity, another identity that exists, lifetime 1, a clock of 2 values | `IdentityOwnsAccount`, `NoDanglingEnrollment`, `EnrollmentKeepsIdentity`, `ImplementsOneTimeToken` (442,000 states) |
| `backup_codes` | 4 calls, the set of codes of before and one per enrolment, 2 codes in each | `CodesWorkOnce`, `OneSetAtATime`, `UseForgottenOnlyByOverlap` (18,000 states up to symmetry) |
| `openid_connect` | 3 callbacks, 2 factors with a key set, LINE, GitHub, 2 keys | `RefusedOnlyByRotation` (336,000 states up to symmetry) |
| `auth_client` | the hook's first call and 2 more, a session of an earlier visit with any time left, lifetime 3, a page opened at 3 for 1 tick, a login at 1 before | `SignedOutForGood`, `LiveSessionReachable`, `UndisturbedCallAgrees`, `PendingEnds` (314,000 states) |
| `totp_drift`, `password_rehash`, `oauth2_replay` | the same instances | violations, see below |

*Bounds.* Three requests are enough for a login of two factors with a stale
request in between: start and first factor, second factor, and a third from an
earlier copy. Four are enough for a session to be created, extended by two
requests out of order, and revoked; the clock passes half-life and expiry of an
extended session. Five are enough for enrolling, enabling, two overlapping
checks and one afterwards. Four are enough for a slow login, a session, a change
with it, and a login afterwards. Four requests for email codes are two that
replace each other and two verifications, or three and one; with two codes for
three rows some codes are always equal. Five in `oauth2_login` are two flows
started and three callbacks, so that an account is enrolled, loaded, removed and
enrolled for another identity before it is updated. Four calls for backup codes
are two overlapping checks and two afterwards, or a check across an enrolment
that two others replace. Three callbacks are one that fills the key set, one
whose older answer overwrites it, and one that finds the result; two keys allow
the one rotation that separates them. Three calls of the client are a `getSession`
and a login around a `signOut`, or any two calls of the user that overlap with the
first fetch; one tick lets a session slide, since its time left is arbitrary, and
is past the date of a cookie that has been given the session's own. `MaxChanges`, `MaxClock`, `MaxCount` and `Span` are the
only artificial bounds in guards. The theorems hold for all values of them, and
for any number of requests.

*Deadlock* is not checked: requests are served once, so the instances end.
*Fairness* is assumed in `AuthClient` only. The server side schedules nothing by
itself, every step is a client's request, and no liveness is claimed of it. In the
browser a mounted component runs its effect (weak fairness of `BootFetch`), and a
`fetch` resolves or rejects in the end, after which the code behind its `await`
runs (weak fairness of each call that has been sent, one of whose steps is to be
lost). Nobody has to call anything. Under these `PendingEnds` holds: the page stops
waiting for its first session, whatever is lost.

### Disagreements with the documentation

- **TOTP accepts one time step too many** (`totp_drift`). `_verify` tests
  `drift > drift_tolerance` only after a failed attempt and increments
  afterwards, so it tries `drift_tolerance + 1`. When the stored step is ahead
  of the whole window, the step right after it is tried, too. `DriftBoundHolds`
  proves that this is all.
- **A hash upgrade can undo a password change** (`password_rehash`).
  `RetiredStaysRetired` shows that this is limited to passwords whose hash was
  outdated, `RehashUndoesAChangeOnlyHolds` that an upgrade changes the stored
  password in no other case.
- **A state consumed twice** (`oauth2_replay`). `consume` is called atomic, and
  selects and deletes in two calls. `ImplementsOneTimeToken` and
  `StateSharedOnlyByOverlap` show that only callbacks that overlap can share a
  state: both have loaded it before either deletes it.

### Known limits of overlapping requests

The properties are stated as strongly as the code allows; where one speaks of
overlapping requests, the overlap does break it:

- a used TOTP code is accepted again when an overlapping check stores an older
  time step last (`NoReplay`);
- a used backup code is accepted again when an overlapping check writes back the
  list it had loaded before (`CodesWorkOnce`, `UseForgottenOnlyByOverlap`), and two
  overlapping enrolments leave two sets valid (`OneSetAtATime`);
- `create` of email codes deletes and inserts in two calls, so that overlapping
  requests leave both their codes valid; a code one of them has deleted stays gone
  (`ReplacedIsGone`);
- a login that checked the old password before a change opens its session after
  `revoke_all` (`SurvivorsOverlapped`: only such sessions survive);
- two requests that both find an authentication session complete both open a
  login session, each backed by verified factors (`SessionsAreBacked`);
- a `getSession` that the server answers before the logout, and whose answer
  arrives after the last line of `signOut`, sets the atom to the revoked session
  (`index.ts:123` after `index.ts:198`): the page shows a user who has signed out
  until the next fetch. `SignedOutForGood` confines this to answers that were on
  their way when `signOut` ended; the session itself stays dead and its cookie is
  not set again.

Three more observations concern the client and the providers:

- `signOut` does not look at the status of the answer. When the server or a proxy
  refuses, the atom says signed out while session and cookie live on, although
  the comment at `index.ts:93` says that `signOut` revokes the session.
  `SignedOutForGood` speaks of the sign-outs the server has carried out.
- `set_session_cookie` passes `expires_at` as an integer, which `http.cookies` takes
  for seconds from now: the cookie's date is decades away. This is what keeps a
  sliding session reachable, since the cookie is set at login only
  (`LiveSessionReachable`; with the date itself the property fails). Cookies hence
  overstay their sessions; the limit some user agents set to such dates is not
  modelled.
- A key set is fetched once in the life of a factor. In the wiring of
  `docs/integration-plan.md`, where every request has its own factor, a token is
  refused only if its key was retired before the keys came; a factor that requests
  share refuses every token signed with a newer key until it is replaced
  (`RefusedOnlyByRotation`).

## What is proved

For every value of the constants that satisfies the named assumptions:

- `AuthenticationSession_proofs`: type correctness, `StepsInOrder`,
  `SessionsAreBacked`, `NoFactorPassedOver`, `CompletedIsGone`, and the
  refinement of `TokenLifecycle`. The inductive invariant adds to the
  properties that ids of rows and copies have been issued and belong to the
  session they are stored under (`Shape`), that every object, row or copy, has a
  verified factor behind each of its AMRs (`ObjectsBacked`: the verifications
  outlive the requests, since updates from stale copies may restore an earlier
  ladder), that the check of a request has neither lost a candidate it saw nor
  skipped one (`NothingLost`), and that a request past its delete has no row
  (`Deleted`). Two theorems say what this adds up to. The methods a login
  reports are all different (`LoginMethodsDiffer`). As long as enrolments stay as
  they are, nobody is logged in with a factor of theirs left to verify
  (`NoLoginWithFactorLeft`); without that hypothesis it is false, since a factor
  may be enrolled after the check, and `NoFactorPassedOver` is what remains.
- `Session_proofs`: type correctness, `KeptAlive`, `UnusedExpires`, `RevokedIsGone` and the
  refinement. `KeptAlive` needs `2 * MaxDelay <= Lifetime`: a write that is
  under way for longer than half a lifetime may shorten the session.
  `ShortenedByDelayOnly` bounds by how much: extensions may overtake each other,
  and the last to land may give the row an earlier end than it has, but by no more
  than the delay of the write.
- `OneTimePassword_proofs`: type correctness, `NoReplay`, `NeverAhead`,
  `EnabledStays`, for both kinds and windows of any size. `NoReplay` needs that
  accepted codes lie below the stored counter *and* below the code of the one
  check that may be under way (`InOrder`). `DriftBoundHolds` and
  `LookAheadBoundHolds` bound what the windows reach, from the invariant that the
  stored counter is where it began or follows a code that counted: a TOTP code is
  at most one step beyond the tolerance, or the direct successor of one that
  counted; a HOTP code is within the look-ahead of the start or of such a successor.
- `PasswordChange_proofs`: type correctness, `RetiredStaysRetired`,
  `SurvivorsOverlapped`, `SessionsRestOnStored`. The invariant says that upgrades
  carry the outdated password only (`Copies`), that a password is unseen before
  its request stores it (`Unseen`), and that a running request relying on a
  replaced password was under way at the revocation (`ReliesOnOld`).
  `RehashUndoesAChangeOnly` needs in addition that the outdated password is stored
  or replaced as long as an upgrade of it is under way (`Upgrading`).
  `SessionsRestOnStored` rests on that and on the same statement for the passwords
  that running requests have checked or set (`Resting`): what is stored or
  replaced remains so in every step (`KeptStep`), except that an upgrade which
  undoes a change drops the password of that change.
- `EmailOTP_proofs`: type correctness, `CodeProvesMailbox`, `ReplacedIsGone`,
  `OthersUntouched` and the refinement of `OneTimeToken`. The invariant says that
  every row, and every copy a verification holds, was created by a request of the
  same session, address and code (`RowsCreated`, `Held`), and that what was
  replaced or consumed has been issued and is gone (`Gone`), so that no insert
  brings it back.
- `OAuth2_proofs`, the login flow: type correctness, `IdentityOwnsAccount`,
  `NoDanglingEnrollment`, `EnrollmentKeepsIdentity` and the refinement. Its core
  is `Settled`: whatever row has the id of the copy that an update is about to
  store, that row is equal to the copy, which needs that ids are not reused and
  that the insert fails on an enrolled account. Hence an update changes tokens
  only (`UpdateStep`).
- `OAuth2_proofs`, the exchange of a code: `OIDCTypeOK` and
  `RefusedOnlyByRotation`. Its invariant says what a callback holds at each stage
  (`Holding`), that a token's key was published before the token was issued, so
  that a key set fetched later lacks it only if it was retired (`FetchedLater`),
  that a cache holds what some callback of its factor has fetched
  (`CacheFetched`), and that a callback which validates with the key set it has
  fetched itself finds its key in it (`FoundOwnKey`). For a factor that serves one
  request, as documented, `UnsharedFactorRefusesRetired` follows: tokens of the
  flow are refused for retired keys only, and the claims of an accepted one can
  always be read.
- One-time tokens, in `EmailOTP_proofs` and `OAuth2_proofs`: under either mapping
  the tokens implement `TokenLifecycle` (`LifecycleImplemented`), and nobody finds
  a token that another request has spent (`CodeSharedOnlyByOverlap`,
  `StateSharedOnlyByOverlap`). Both rest on `TokenFacts`: taken tokens have been
  issued, and spent ones are gone.
- `BackupCodes_proofs`: type correctness, `CodesWorkOnce`, `OneSetAtATime`,
  `UseForgottenOnlyByOverlap`. The invariant says that checks of a set that do not
  overlap load and keep every use accepted before (`UsesKept`), that the list a
  check holds is outdated only if another one has been through (`Overtaken`), and
  that an enrolment which is alone is the only one to touch the table (`Sole`).
  The rows account for what happened: no code of a new set is used up but by a
  check that accepted it (`UsedWereAccepted`), an accepted one is marked unless
  checks overlapped (`AcceptedAreUsed`), and a replaced set never works again
  (`ReplacedStaysGone`).
- `AuthClient_proofs`: type correctness, `SignedOutForGood`,
  `LiveSessionReachable`, `UndisturbedCallAgrees`. The invariant says that nobody
  knows the token of a call whose answer has not arrived (`Applied`), that a POST is
  answered with its own token or none (`Answers`), that what a sign-out has ended
  is neither live nor in the cookie, and that answers which still tell of it were
  on their way when it ended (`Gone`), what an undisturbed call knows at each
  stage (`Quiet`), and that every cookie outlasts the stay on the page (`Reach`).
  Of `PendingEnds` the safe half is proved: once the hook's first fetch has ended,
  however it did, the hook is not pending (`PendingWhileBooting`), and it never
  becomes so again (`NeverPendingAgain`). That the fetch ends is left to TLC.

Theorems that name no property of a run were checked by TLC on the instances
above before they were proved, as were the invariants of the proofs.

Assumptions: the constants' types, that the null values differ from real ones,
`TimeAssumption` of `Session`, and `ClockAssumption` of `AuthClient` (from the login
of the earlier visit to the end of this one less time passes than from the epoch
to the end of a session opened at that login, some fifty years;
`LiveSessionReachable` needs it). Every proof is checked to its leaves. Every property of a passing run is proved but
`PendingEnds`, since liveness under fairness is out of the prover's reach. The
findings are shown by TLC: they are violations, of which the theorems above give
the extent.

## Assumptions of the models

- Each store call takes effect at once and alone, as with a connection in
  autocommit mode. `stores.py` leaves transactions to the application; one that
  runs a request in a serializable transaction excludes most of the
  interleavings, and one at READ COMMITTED makes writes visible later than here.
- Ids of rows are never reused. SQLite may reuse the highest key of the tables as
  `tables.py` declares them; PostgreSQL sequences and `AUTOINCREMENT` do not.
- The stores of TOTP and HOTP are written by the application; their updates go
  by id, as in the repository's tests.
- The identity resolver and the provider are the environment: an exchange yields
  any account, an address belongs to one identity (`Owner`), and
  `get_or_create_by_email` takes effect at once. The identity an email code
  carries is left out, as are tokens, scopes and PKCE values. Of the OAuth2
  callback's two ways to its authentication session, the one by the hash in the
  state ignores expiry; it is `GetByTokenHash` of `AuthenticationSession`.
- `OAuth2Login` has one provider. `callback` takes the provider from the state it
  consumes and looks accounts up by it, and never compares it with the identifier
  of the factor that serves the callback; the state table and the state cookie are
  shared between providers. A callback that brings a state of another provider is
  not modelled.
- A route is one step in `AuthClient`; its own steps are those of `Session` and
  `PasswordChange`. A session token is named by the call that obtains it. There is
  one user agent of one identity, other devices act through `RevokeElsewhere`.
- The store of backup codes is the application's; as in the repository's tests it
  updates and deletes by key, and its table does not make the identity unique.
- No ID token expires during a callback of `OpenIDConnect`; a code may be that of
  another flow, and its token then has another nonce.
- A login after its password is checked is one step in `PasswordChange`, because
  its authentication session is known to no one else.

## Not modelled, and the plan

Left out, because they are input, output or cryptography without a state machine
of their own: hashing, token and code generation, PKCE, JWT signatures (a token
is good for a key or not), authorization URLs, Apple's client secret, `get_email`,
the shape of HTTP errors, logging, configuration, the example applications. Of the
OAuth2 routes the state cookie and the redirects are left out, of the client
`getServerSession`, the OAuth redirect and the request for an email code. Of the
stores, selects are part of the steps that use them.

Still open, in this order:

1. The user agent of an OAuth2 flow: the state cookie that ties a callback to the
   browser that started it, the authentication session cookie it prefers over its
   state, and the cases where several tabs share both, as an extension of
   `OAuth2Login`.
2. A composition of the authentication session with the factors, in which a
   factor's verification is the factor module's and not an arbitrary choice.

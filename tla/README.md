# Identity & Auth: specification and proofs

TLA+ models of the identity-auth service: its session stores, accounts, second
factors, API keys, role bindings and deployment, model-checked with TLC. Every safety
property of the passing runs is also a theorem, for all values of the constants, with a
proof checked by TLAPS. `PROJECT.json` holds the map from definitions to
source lines, the runs, their mutants, the findings and the hazards.

## 1. The system

One Go process serves HTTP. Every request is a goroutine; handlers
(`internal/server.go`, `internal/handlers.go`) call a store, which is either
Postgres (`internal/dbstore.go`, used when a database is configured) or a set of
maps behind one mutex (`internal/store.go` and the files beside it). The handlers
hold nothing between two calls of the store.

| Component | State | Operations | What makes it correct | Module |
|---|---|---|---|---|
| Sessions, Postgres | `sessions`, `used_refresh_tokens`, row locks | issueSession, Refresh, Logout, RevokeSession, RevokeAllSessionsForUser | a refresh token is exchanged once; reuse is seen and revokes; a revocation is never undone; locks are given back | `DBSessions` |
| Sessions, in memory | `sessions`, `sessionsByRT`, `refreshChain`, the mutex | the same, and SoftDeleteUser | the same, and the index agrees with the sessions | `MemSessions` |
| Accounts, Postgres | `users`, `sessions`, `password_resets`, `lockouts` | VerifyUserToken, Login, UpdateUserEmail, SoftDeleteUser, PasswordResetInit, PasswordResetConfirm, UnlockUser | a password change or a closure reaches every session; a reset token works once and is not used up for nothing; failures lock | `Accounts` |
| Accounts, in memory | `users`, `usersByEmail`, `verification`, `lockouts`, `passwordResets`, `sessions` | CreateUser and the same | the same; the e-mail index agrees with the users; the backoff grows; the lockout event names the right account | `MemAccounts` |
| MFA, Postgres | `mfa_factors`, `mfa_recovery_codes` | EnrollMFA, VerifyMFA, DisableFactor, GenerateRecoveryCodes, validateMFA | only proven factors count; a disabled one never again; a recovery code works once; a reissue replaces | `MFA` |
| API keys, Postgres | `api_keys` | CreateAPIKey, RotateAPIKey, RevokeAPIKey, ResolveAPIKey | exactly the two newest keys of an unrevoked record resolve | `DBAPIKeys` |
| API keys, in memory | `apiKeys`, `apiKeysByHash` | the same | the same | `MemAPIKeys` |
| RBAC, Postgres | `roles`, `role_bindings` | AddBinding, DeleteBinding, Authorize | an accepted binding is stored and grants | `RBAC` |
| Migrations and start-up | `schema_migrations`, the tables, the processes | MigrateUp, MigrateDown, newStoreFromEnv | a recorded version has its tables; a replica serves on the whole schema; nothing keeps it down | `Deployment` |
| Field encryption | the key of each process | NewEncryptorFromEnv, used by EnrollMFA, VerifyMFA, confirmedFactors | a challenge is not skipped | `Deployment` |
| MFA in memory, audit, JWT, password hashes, TOTP, configuration, observability, bundle generator | | | | not modelled (section 8) |

Interactions. Login (Accounts) calls issueSession (DBSessions) and the MFA
challenge (MFA); PasswordResetConfirm and SoftDeleteUser revoke sessions; every
authenticated handler first looks its session up (`requireAuth`). Replicas of the
service and operators who run `cmd/migrate` share the database and nothing else.

What is hard here: several statements per request with nothing held between
them, errors that are discarded (`_ =`, `_, _ =`) so that a handler goes on after
a failed statement, READ COMMITTED statements that do not see rows committed after they began, a
map read after the mutex was given back, critical sections that are each safe and
not safe together, migration files that COMMIT on their own, responses lost after
COMMIT, and processes that die inside a transaction.

## 2. Modules

    TokenFamily            contract: a family of rotating tokens
      ^           ^
    DBSessions   MemSessions          implement it
    KeyRing                contract: a record's two honoured keys
      ^
    DBAPIKeys    MemAPIKeys           only the first keeps it
    Accounts, MemAccounts, MFA, Deployment, RBAC

`MCMemSessions`, `MCAccounts`, `MCMemAccounts`, `MCMFA` and `MCDBAPIKeys` are the instances for TLC; the other modules are checked as they are.
`TokenFamily_proofs`, `DBSessions_proofs`, `MemSessions_proofs`, `DBAPIKeys_proofs`,
`Accounts_proofs`, `MemAccounts_proofs`, `MFA_proofs` and `Deployment_proofs` each extend
their module by an inductive invariant, lemmas and theorems.

Conventions. `req[r]` is the local state of request `r`: `pc` names the statement
it executes next, the other fields are what it carries to it. A step is one
SQL statement, one COMMIT, or one critical section of the mutex. Operators named
`X_Something` are mutants of `X`: the change of the code that a property is meant
to catch; no specification uses them. A digest (`sha256Hex`) is an injective
function, not the identity, so a table that keeps the plain token is a type error.
Variables marked *history* record what happened for the properties and guard nothing
but the freshness of random tokens.

**DBSessions.** Refresh is `RefreshSelect` (SELECT ... FOR UPDATE, takes the row
lock) and `RefreshRotate` (the INSERT, the UPDATE and the COMMIT that publishes
them); without a row it is `RefreshMiss`, `RefreshLookupHit` or
`RefreshLookupMiss`, and `RefreshReuse`, each a statement. Logout is
`LogoutBegin` (requireAuth), `LogoutSelect`, `LogoutUpdate`; revoking another
session is `RevokeBegin` (requireAuth), `RevokeFind` (the handler's own lookup of the
target) and `RevokeSession`. `Fail` is a statement that fails with the deferred
rollback; where the code discards the error (the reuse lookup and the revocation
after it) the answer is still "invalid", and the session need not be revoked: such a
request is not entered in the history `refused`. `Crash` is the death of the process. A lost response needs no action:
clients may present any token ever stored, at any time.

**MemSessions.** A rotation is two steps (`RefreshEnter`, `RefreshLeave`) so that the unlocked
read of `refreshChain` in the reuse branch can fall between them. That read is a
data race with a map write: Go may return the value or abort the process
(`ReadChain`, `ReadChainAborts`). Everything else is one critical section.

**Accounts.** One account. Login is six statements, `LoginRead` ... `LoginInsert`;
the copy of the password hash it read first is `snap`. PasswordResetConfirm is
`ConfirmSelect` (which commits and so unlocks), then four separate statements.
SoftDeleteUser is its UPDATEs, which fix the session rows it will revoke, and its
COMMIT. The MFA challenge may pass, fail, or be demanded.

UpdateUserEmail is the SELECT of the status and the UPDATE. VerifyUserToken is one
transaction, which deletes the token and activates a pending account, or neither.

**MemAccounts.** Several accounts in the maps of `internal/store.go`. Each critical
section of the mutex is a step: Login is `LoginFind` ... `LoginInsert`, with
`LockoutEvent` for the handler's second lookup by e-mail, and PasswordResetConfirm is
`ConfirmCheck` ... `ConfirmUnlock`. A client presents the password stored now or
another one; what matters of a password is whether it changed since
(`old`). A revoked session gives up its place in `sessions`, since it is never
open again. A lock is the number of ticks left, so there is no clock; `Backoff` is the
shift in `Width` bits, read as a signed number, with the cap applied after it.
Login reads status and password hash of the shared `User` without the mutex; both are
read at one step, because every torn value of these strings compares like
the value before or after the write.

**Deployment.** Replicas and operators on one database. A process that migrates
takes one step per statement; a file's tables (`applied`) and its row in
`schema_migrations` (`recorded`) change in different steps, because the files hold
their own BEGIN and COMMIT and so end the transaction MigrateUp opened around them. Two
processes that create the same tables at once conflict and one of them fails
(`fresh`). A process whose statement fails exits, as it does in
production mode. Before it serves, a replica takes its key (`OpenStore`, newDBStore)
from its own environment, which may hold a usable key or none and may differ from that
of the other replicas and from that of its last start; without one the key is random,
and the key of a process that is gone is `"lost"`. A serving replica enrols and confirms factors of one
account with `NewEncryptorFromEnv(p)`. `confirmedFactors(p, got)` is the answer when the
SELECT delivered the rows `got`: all of them, fewer if it fails among the rows (the code
does not look at `rows.Err`), none if the query itself fails.

**RBAC.** Bindings as rows, the roles of the code, and the names the first
migration seeds; an INSERT needs its role among the latter.

**MFA.** The factors and recovery codes of one account, which may be closed at any
time. EnrollMFA is the SELECT of the status and the INSERT, which does not look at it
again; VerifyMFA is a SELECT and an UPDATE; a reissue is the moment its DELETE begins (which fixes the rows it
can see) and its COMMIT. `RecoveryCommitLost` is the COMMIT whose error validateMFA
discards.

**DBAPIKeys, MemAPIKeys.** A rotation or revocation locks the row and commits in a
second step. `issued` remembers the keys handed out, in order.

## 3. Runs

| Run | Instance | Shows |
|---|---|---|
| `db_sessions` | 1 session, 3 tokens, 2 requests, 1 fault, clock to 2 | `TokenLedger`, `ReuseRevokes`, `RevokedIsFinal`, `ImplementsTokenFamily`, `RequestsTerminate` |
| `mem_sessions` | 2 users, 2 sessions, 4 tokens, 2 requests | `IndexAgrees`, `ReuseRevokes`, `ImplementsTokenFamily` |
| `accounts` | 2 passwords, 2 e-mails, 1 reset token, 2 sessions, 2 requests, 1 fault, clock to 3 | `OldPasswordSessionsRevoked`, `ClosedAccountSessionsRevoked`, `UsedTokenChangedPassword`, `ClosedEmailChangeOverlaps` |
| `mem_accounts` | 2 accounts, 2 e-mails, 1 session, 1 reset token, 2 requests, threshold 1, base 2, cap 3, 4-bit durations | `EmailIndexAgrees`, `LockoutEventSubject`, `LockedGuessesOverlap`, `LockNeverShortened`, `OldPasswordSessionsRevoked`, `ClosedAccountSessionsRevoked` |
| `deployment` | 2 replicas, 1 operator, 2 versions, 2 keys or none, 2 factors, 1 crash, 1 rollback | `RecordedMeansApplied`, `ServingSeesSchema`, `ChallengeSkippedOnlyAcrossKeys`, `ReplicaEventuallyServes` |
| `api_keys` | 2 records, 5 keys, 3 requests, 2 faults | `LastTwoKeysResolve`, `ImplementsKeyRing` |
| `mfa` | 2 factors, 3 reissues, 3 requests, 1 fault | `OnlyProvenFactorsCount`, `DisabledIsFinal`, `RecoveryCodeSingleUse`, `OnlyOverlappingBatchesCoexist` |
| `accounts_reset_twice`, `mem_reset_twice`, `accounts_lockout`, `api_keys_mem`, `rbac_bindings` | the smallest that shows it | one counterexample each (section 6) |

Bounds. Two requests are enough for every race of two operations, which is what
the code's locks are about; where three matter (two rotations and a revocation,
two reissues and a login) there are three. In `mem_sessions` two
sessions of two users let one operation touch the wrong one; `db_sessions` has
liveness properties, which two sessions put out of TLC's reach, and leaves more
sessions to the proofs. Three tokens are a session rotated twice; five keys are four rotations of one record. A lifetime of one tick and a
clock to two or three let a session, a reset token or a lockout expire while it is
in use. In `mem_accounts` a duration of four bits grows, meets the cap, turns negative
and vanishes within five failures, as one of 64 bits does in the course of 59; two
accounts and two e-mails let one take the e-mail the other gave up. In `deployment` the two
versions are the two files of the repository, and a rollback may fall anywhere in the
start of either replica; with its liveness property a second rollback is out of TLC's
reach, and the proofs of its safety properties cover any number. Two keys and none are
what two replicas can disagree about. One fault puts a failure or a crash
at every statement; in `api_keys` two. Sets whose members the model only compares
are symmetric; no symmetry is used in the runs with a liveness property.

Deadlock is checked in `db_sessions`, `mfa` and `deployment`. In the other
runs the system stops for a reason of the instance or of the code: the keys or
reset tokens of the instance are used up, every account is closed, or the process
has aborted.

## 4. Fairness

In DBSessions only `FairSpec` has any. A statement of a request that has started
and waits for nobody is executed (weak fairness of `Proceed`: the Go scheduler
and the connection make progress). A statement that waits for a row lock gets it
if the row is free again and again (strong fairness of `Await`: Postgres queues
the waiters of a row). Clients owe nothing, the clock need not advance, and
failures never have to happen. A request whose statement failed, or whose process
died, has ended; the locks it held are given back with its transaction.

`Spec` of Deployment has weak fairness of each started process's next statement:
its statements run under a context with a deadline (15 s in newStoreFromEnv, 30 s in
`cmd/migrate`) and wait for nobody for longer. Nobody has to start a process, so
`ReplicaEventuallyServes` is about replicas that are started again and again, as a
supervisor does; crashes and rollbacks are finite in number by their bounds.

## 5. What is proved

Every theorem holds for all values of the constants the module's ASSUMEs allow: any
sets of users, sessions, tokens and requests, any lifetimes, any bounds on time and
faults. Each proof has the same plan: `SafeInv` is inductive (`InitSafe`, `NextSafe`,
one lemma per action or kind of action), **Safety** is `Spec => []SafeInv`, and the
properties follow from it. **TypeCorrect** is `Spec => []TypeOK` in each module but
TokenFamily, where it is part of ExchangedOnce. TLC checked
every `SafeInv` on an instance of the size of the module's run before it was proved.

| Module | Theorems | Properties |
|---|---|---|
| `TokenFamily_proofs` | ExchangedOnce | `TypeOK`, `NeverAcceptedAgain` of the contract |
| `DBSessions_proofs` | LedgerComplete, RevocationIsFinal, ReuseDetected, Refinement | `TokenLedger`, `RevokedIsFinal`, `ReuseRevokes`, `ImplementsTokenFamily` |
| `MemSessions_proofs` | IndexSound, ReuseDetected, Refinement | `IndexAgrees`, `ReuseRevokes`, `ImplementsTokenFamily` |
| `DBAPIKeys_proofs` | LastTwoResolve, Refinement | `LastTwoKeysResolve`, `ImplementsKeyRing` |
| `Accounts_proofs` | OldSessionsRevoked, ClosureRevokes, TokenSpentByChange, LateEmailBounded | `OldPasswordSessionsRevoked`, `ClosedAccountSessionsRevoked`, `UsedTokenChangedPassword`, `ClosedEmailChangeOverlaps` |
| `MemAccounts_proofs` | EmailIndexSound, EventSubject, LockedGuessesBounded, LocksGrow, OldSessionsRevoked, ClosureRevokes | `EmailIndexAgrees`, `LockoutEventSubject`, `LockedGuessesOverlap`, `LockNeverShortened`, `OldPasswordSessionsRevoked`, `ClosedAccountSessionsRevoked` |
| `MFA_proofs` | ProvenFactors, SingleUse, BatchesCoexist, DisableFinal | `OnlyProvenFactorsCount`, `RecoveryCodeSingleUse`, `OnlyOverlappingBatchesCoexist`, `DisabledIsFinal` |
| `Deployment_proofs` | RecordedApplied, ServingSchema, ChallengeSkipped | `RecordedMeansApplied`, `ServingSeesSchema`, `ChallengeSkippedOnlyAcrossKeys` |

With the two refinements, ExchangedOnce holds of the tables and of the maps.

**Assumptions.** The "none" values are none of the values, and numbers are naturals
(positive where the code's constant is). The digest is `<<"sha256", t>>`: its injectivity
follows from the definition and is the cryptographic assumption of the models; so is
that a random token has not been drawn before (`Fresh`). The set of requests is finite
and not empty in Accounts and MemAccounts, where properties count requests, and the set
of factors is finite in MFA. In MemAccounts the base of the backoff does not exceed the
cap, the cap fits the width, and `PowerAssumption` states `2^(k+1) = 2 * 2^k` up to the
bound of the counter, because exponentiation is opaque to the provers; TLC evaluates it,
as every other ASSUME.

**Arguments.** Why each property is not inductive and what is added to it:

- *DBSessions.* A rotation writes what it read one step earlier. `RotationOwnsRow`: a
  transaction between SELECT and COMMIT owns its row, which is as it was read, since
  every UPDATE of a session waits for `Unlocked`; `DrawnTokensFresh`: the token it
  drew is nobody's; `RequestShape`, `TablesOwned`. Reuse detection has an invariant of
  its own, `ReuseInv`, on top of that: a token that missed the session table has a
  ledger entry (`ReuseFollowsLedger`), nobody rotates a refused token, and a refused
  token was exchanged before or its session is closed for good (`RefusedUnusable`;
  time and revocation are monotone, `Ageing`). It holds whatever fails: a request whose own
  lookup or revocation failed is not among the refused, since the code discards that error.
- *MemSessions.* The rotation is two steps inside the mutex and the chain is read
  outside it: `WriterOwnsMaps` (what the writer found stays until it leaves), `MapsOwned`,
  `RequestShape` (the session of the reuse branch is the chain's), `RefusedUnusable`.
- *DBAPIKeys.* `RowsFollowLedger` ties a row to the last two keys issued for its id;
  `TransactionOwnsRow` and `DrawnKeysFresh` are the row lock and the drawn key again.
- *Accounts.* `CloserOwnsRow`: while SoftDeleteUser holds the users row, every open
  session is one it matched or one a login inserted after its UPDATE. `RequestShape`: a
  login past verifyPassword presented the password it had read, a confirmation about to
  mark its token has changed the password. `LateChangesCounted`: each change of the e-mail after
  closure uses up a request that had read the status, and the closer is not one of them;
  this is a sum of a counter and a cardinality.
- *MemAccounts.* The same counting bounds the failures in a lock (`GuessesCounted`).
  `RequestShape`: the e-mail a login was
  found by still names its account unless the account moved; a confirmation's token is stored.
  `LocksGrow` needs `LockBounded` (the lock in force is no longer than the last failure
  set) and what doubling does in two's complement (`SignedDouble`): a positive
  result is twice a positive duration, or the duration was not positive.
- *MFA.* `ReissueCoversCodes`: every usable code is among the rows a running reissue
  will delete, or belongs to a reissue that ran together with it; `ReissueOwnsBatch`;
  `ConsumeUnused` and `AcceptedSpent` for the codes; `FactorRowsSound` and `VerifyProven`
  for the statement gap in VerifyMFA.
- *Deployment.* `AppliedBeforeRecord`: between its file and its INSERT a MigrateUp has
  the tables of its version, or a rollback dropped them, which `broken` records;
  `SoundSeesPrefix`: an undisturbed process finds the tables of every version it has
  passed; `KeysKnown`: a serving replica's key is one that was found at some start, and so is
  the key of every factor, unless some replica was started without one.

The proof attempts changed the models in a few places. `LockNeverShortened` says
nothing below the threshold, where the shift has a negative exponent; a usable
key is not named like a process, whose random key has its name; the clock of Accounts can advance;
sentinels that two contracts share are distinct from digests.

**Only model-checked.** `RequestsTerminate` and `ReplicaEventuallyServes`: liveness under
fairness is out of the prover's reach. The five properties that the code violates
(section 6) have counterexamples; MemAPIKeys and RBAC have no theorem.

## 6. Findings

Each is a run in which TLC finds what the code does against what its documents say.

1. `accounts_reset_twice`: PasswordResetConfirm commits after the SELECT ... FOR UPDATE
   and marks the token used in a later statement. Two confirmations at once both
   change the password ("token single-use", README.md:72).
2. `mem_reset_twice`: the in-memory PasswordResetConfirm has the same defect. It finds the
   token unused in one critical section and marks it in a later one, with the
   challenge and SetUserPassword in between (the same line of the README, and
   "single-use" in internal/password.go:8 and 15 and PROJECT_PLAN.md:147 and 155).
3. `accounts_lockout`: recordFailure's INSERT gives no `id`, which the table
   requires; the error is discarded, so no account is ever locked ("Lockout after N
   consecutive failed authentications", README.md:79).
4. `api_keys_mem`: the in-memory rotation leaves the hash it displaces in the
   index, and revocation removes only the last two ("future authz decisions deny").
   The Postgres store does not have it (`LastTwoKeysResolve`).
5. `rbac_bindings`: AddBinding accepts lower-case role names only, the table that
   `role_bindings.role` refers to is seeded with upper-case ones; every accepted
   binding is refused by the foreign key ("Bindings can be created/listed/deleted",
   PROJECT_PLAN.md:137; the tests use a fake connection).

Other disagreements with the documents have no run of their own. Four are stated as
properties that hold and say exactly when they happen:

- A login that verified the old password may store its session after the reset has
  revoked the others ("Invalidate all active sessions on successful password change",
  README.md:74): `OldPasswordSessionsRevoked`, in both stores.
- Two reissues of recovery codes that overlap leave both sets usable ("re-issue
  invalidates prior codes", PROJECT_PLAN.md:97): `OnlyOverlappingBatchesCoexist`.
- confirmedFactors answers nil, which Login and PasswordResetConfirm take for "no second
  factor", when its SELECT fails and when one factor cannot be decrypted, which happens as
  soon as replicas or restarts differ in their key ("Require MFA challenge on login when
  any factor is active", README.md:51): `ChallengeSkippedOnlyAcrossKeys`.
- A refused reuse leaves the session open when the lookup or the revocation of that request
  failed ("reused old refresh token is rejected and revokes the chain",
  PROJECT_PLAN.md:74): `ReuseRevokes`.

One is not covered by any property. "Locked accounts cannot issue new tokens; refresh
tokens revoked" (README.md:82), "revoke refresh tokens on lock" (PROJECT_PLAN.md:150) and
"Locked accounts cannot issue or refresh tokens" (PROJECT_PLAN.md:159): recordFailure
revokes nothing in either store and Refresh looks at the session only (dbstore.go:352,
sessions.go:175), so the sessions of a locked account can be refreshed. In Postgres no
account is ever locked in the first place (finding 3).

## 7. Limits of the properties that hold

Several of these exclude the very outcome a hazard of `PROJECT.json` describes; they show
that nothing else leads to it, not that it cannot happen.

- `ReuseRevokes` (Postgres) excludes the request whose own statement failed. Refresh discards
  the error of RevokeSession (dbstore.go:376): that caller is refused and the session
  stays open.
- `OldPasswordSessionsRevoked` is stated for histories without a failed statement. A
  failure after SetUserPassword (dbstore.go:1102) leaves the new password set, the token
  unused and the old sessions open; RevokeAllSessionsForUser discards its error.
- `RecoveryCodeSingleUse` is stated for histories without a lost COMMIT
  (dbstore.go:698): after one, the code is accepted and still unused.
- `ClosedAccountSessionsRevoked` excepts logins that overlap the closure; their session
  stays open and can be refreshed, since Refresh does not look at the account.
- `LockNeverShortened` holds while the shifted duration is positive. In 64 bits `30 s <<
  29`, the 34th failure in a row, is negative: it replaces the lock in force by one that
  has already ended, and so do some of the failures after it, until from the 59th
  on the shift is zero. `MaxFailures` saturates the counter there.
- `LockedGuessesOverlap` and `ClosedEmailChangeOverlaps` bound what
  overlapping requests can do by the number of requests; sequential ones can do nothing.
- `LockoutEventSubject` excepts an account that changed its e-mail during the request; then
  the handler names another account or dereferences nil (server.go:465).
- `RecordedMeansApplied` excepts rollbacks that overlap a MigrateUp or die between
  DROP and DELETE. Such a version stays recorded without its tables, MigrateUp passes it
  over and replicas serve on an incomplete schema, until `migrate --down` is run once more.
- `ChallengeSkippedOnlyAcrossKeys` excludes a SELECT that failed before its first row
  (dbstore.go:657), and every deployment whose replicas were not all started with one
  usable key, once and for all: rotating the key, a passphrase on one replica only, or no
  key and one restart, and accounts with a second factor log in without it.
- In Accounts, recordFailure is one step because none of its statements writes
  while the INSERT is rejected; it must be split once the INSERT is repaired.

## 8. Not modelled

- MFA in memory: every operation is one critical section, and the recovery
  code is looked up and marked in one, so the interleavings of `MFA` do not exist. It is
  left for a module that is proved about rather than checked.
- Audit log: written after the change, read by no decision; RecordAudit discards its
  errors. Only the lookup that names the subject of `auth.lockout` is followed.
- JWT, password hashing, TOTP and AES-GCM: primitives, used as injective digests, opaque
  tokens and a decryption that fails under another key.
- Configuration: environment variables read once. LOCKOUT_THRESHOLD and its kin are
  read into Config and used by nothing; the code's constants are what is modelled.
- Counters, logs, traces, JSON and status codes, the generator of the policy bundle,
  DEV_MODE's fallback to the in-memory store.
- Scopes, allow lists and expiry of API keys and scopes of bindings are stored and looked at by
  nothing (PROJECT_PLAN.md:130 calls the latter a follow-up).
- The in-memory bindings: a map without a table of roles.
- Access tokens stay valid for their lifetime but `requireAuth` looks the session up, which
  is what the models do.

## 9. Plan

Done, in this order: sessions (the core), accounts, API keys, second factors, the
in-memory accounts with lockout and reset, deployment and role bindings; then the
proofs of every safety property the passing runs check. What is left:

1. KeyRing as a contract of its own: that in every behaviour of it a key that was
   rotated out twice is never honoured again, as ExchangedOnce is for TokenFamily.
2. What Deployment promises when rollbacks do overlap: that a version in `broken` can
   always be repaired by one more rollback, as a safety property of the steps.
3. That MemAccounts without overlapping requests marks a reset token exactly once.
4. Refresh together with lockouts in one in-memory model, to show how long the sessions of a
   locked account live on.

------------------------------ MODULE Accounts ------------------------------
(***************************************************************************)
(* One account in the Postgres store (internal/dbstore.go): its row in      *)
(* users, its sessions, its password_resets and its row in lockouts, and    *)
(* the requests that log in, reset the password and close the account       *)
(* concurrently.  Login and PasswordResetConfirm are several statements     *)
(* with nothing held between them: each statement is a step.  Of a session  *)
(* only open/revoked is kept (DBSessions models the tokens); of a password  *)
(* only its identity; the MFA challenge passes or fails.                    *)
(***************************************************************************)
EXTENDS Naturals, FiniteSets

CONSTANTS
    Password,           \* passwords a client may present or choose
    First,              \* the password chosen at registration
    Email,              \* e-mails no other account has
    ResetToken, Session, Request,
    NoPassword, NoToken, NoReset,
    LockoutThreshold,   \* consecutive failures before a lockout (5)
    LockTime,           \* first lockout duration, in ticks
    MaxLock,            \* longest lockout duration, in ticks
    PasswordResetTTL,   \* lifetime of a reset token, in ticks
    MaxTime,            \* bound on the clock
    MaxFaults           \* bound on failed statements

ASSUME AccountAssumption ==
    /\ First \in Password /\ NoPassword \notin Password
    /\ NoToken \notin ResetToken
    /\ LockoutThreshold \in Nat \ {0} /\ LockTime \in Nat \ {0}
    /\ MaxLock \in Nat
    /\ PasswordResetTTL \in Nat /\ MaxTime \in Nat \ {0} /\ MaxFaults \in Nat
    /\ IsFiniteSet(Request) /\ Request # {}

VARIABLES
    status,        \* users.status
    verification,  \* the account's row in verification_tokens
    email,         \* users.email
    pw,            \* users.password_hash
    sessions,      \* sessions of the account
    resets,        \* password_resets of the account
    failCount,     \* lockouts.fail_count, 0 for no row
    lockedUntil,   \* lockouts.locked_until, 0 for NULL
    req,           \* what each request is doing
    now, faults,
    failed,        \* history: consecutive failed authentications
    uses,          \* history: how often a reset token changed the password
    late           \* history: changes of the e-mail after the account closed

vars == <<status, verification, email, pw, sessions, resets, failCount, lockedUntil, req,
          now, faults, failed, uses, late>>

NoSession == [state |-> "none", pw |-> NoPassword, overChange |-> FALSE, overClose |-> FALSE]

SessionRow ==
    [state : {"none", "live", "revoked"}, pw : Password \cup {NoPassword},
     overChange : BOOLEAN,   \* history: opened by a login that overlapped a password change
     overClose : BOOLEAN]    \* history: ... that overlapped the closure

ResetRow == [exp : Nat, used : BOOLEAN]

PC == {"idle", "lockCheck", "fail", "mfa", "clear", "insert",
       "resetInsert", "setPassword", "markUsed", "revokeAll", "unlock",
       "close", "closeCommit", "email"}

RequestState ==
    [pc : PC, given : Password \cup {NoPassword}, snap : Password \cup {NoPassword},
     tok : ResetToken \cup {NoToken},
     rows : SUBSET Session]   \* session rows SoftDeleteUser's UPDATE matched

Idle ==
    [pc |-> "idle", given |-> NoPassword, snap |-> NoPassword, tok |-> NoToken, rows |-> {}]

TypeOK ==
    /\ status \in {"PENDING", "ACTIVE", "CLOSED"}
    /\ verification \in {"issued", "deleted"}
    /\ email \in Email
    /\ pw \in Password
    /\ sessions \in [Session -> SessionRow]
    /\ resets \in [ResetToken -> ResetRow \cup {NoReset}]
    /\ failCount \in Nat /\ lockedUntil \in Nat
    /\ req \in [Request -> RequestState]
    /\ now \in 0..MaxTime /\ faults \in 0..MaxFaults
    /\ failed \in 0..LockoutThreshold
    /\ uses \in [ResetToken -> 0..2]
    /\ late \in 0..Cardinality(Request)

\* CreateUser has run: the account is pending and its verification token unused.
Init ==
    /\ status = "PENDING" /\ verification = "issued"
    /\ email \in Email
    /\ pw = First
    /\ sessions = [s \in Session |-> NoSession]
    /\ resets = [k \in ResetToken |-> NoReset]
    /\ failCount = 0 /\ lockedUntil = 0
    /\ req = [r \in Request |-> Idle]
    /\ now = 1 /\ faults = 0
    /\ failed = 0
    /\ uses = [k \in ResetToken |-> 0]
    /\ late = 0

-----------------------------------------------------------------------------
Live(s) == sessions[s].state = "live"

Goto(r, pc) == req' = [req EXCEPT ![r].pc = pc]

Done(r) == req' = [req EXCEPT ![r] = Idle]

LiveSessions == {s \in Session : Live(s)}

Revoke(S) ==
    sessions' = [s \in Session |->
        IF s \in S THEN [sessions[s] EXCEPT !.state = "revoked"] ELSE sessions[s]]

\* A SoftDeleteUser transaction between its UPDATEs and its COMMIT holds the
\* users row and the session rows it matched; other UPDATEs of them wait.
Closing(r) == req[r].pc = "closeCommit"

UserRowFree == \A q \in Request : ~Closing(q)

SessionRowsFree == \A q \in Request : Closing(q) => req[q].rows \cap LiveSessions = {}

-----------------------------------------------------------------------------
(* lockouts *)

\* Columns of lockouts that are NOT NULL and have no default.
RequiredColumns == {"id", "user_id"}

\* Columns recordFailure's INSERT ... ON CONFLICT supplies.
SuppliedColumns == {"user_id", "fail_count", "updated_at"}

\* isLocked: time.Now().Before(locked_until).
isLocked == lockedUntil # 0 /\ now < lockedUntil

Lower(a, b) == IF a < b THEN a ELSE b

\* recordFailure: the upsert is rejected when a required column is missing, its
\* error is discarded and the SELECT that follows finds no row.  Its three
\* statements are one step: while the upsert is rejected none of them writes.
recordFailure ==
    LET n == failCount + 1 IN
        IF RequiredColumns \subseteq SuppliedColumns
           THEN /\ failCount' = n
                /\ lockedUntil' = IF n >= LockoutThreshold
                                     THEN now + Lower(LockTime * 2^(n - LockoutThreshold), MaxLock)
                                     ELSE lockedUntil
           ELSE UNCHANGED <<failCount, lockedUntil>>

\* DELETE FROM lockouts WHERE user_id=...
resetLockout == failCount' = 0 /\ lockedUntil' = 0

Failure == failed' = IF failed < LockoutThreshold THEN failed + 1 ELSE failed

-----------------------------------------------------------------------------
(* Verification, login, closure *)

\* VerifyUserToken: one transaction deletes the token's row and makes a pending
\* account active; when either statement matches no row, both are rolled back.
VerifyUserToken(r) ==
    /\ req[r] = Idle
    /\ verification = "issued" /\ status = "PENDING"
    /\ UserRowFree
    /\ verification' = "deleted"
    /\ status' = "ACTIVE"
    /\ UNCHANGED <<email, pw, sessions, resets, failCount, lockedUntil, req, now,
                   faults, failed, uses, late>>

\* Login: UserByEmail returns a copy of the row; only an active account goes on.
LoginRead(r, p) ==
    /\ req[r] = Idle
    /\ status = "ACTIVE"
    /\ req' = [req EXCEPT ![r] = [Idle EXCEPT !.pc = "lockCheck", !.given = p, !.snap = pw]]
    /\ UNCHANGED <<status, verification, email, pw, sessions, resets, failCount, lockedUntil, now,
                   faults, failed, uses, late>>

PasswordOutcome(r) == IF req[r].given = req[r].snap THEN "mfa" ELSE "fail"

\* isLocked, then verifyPassword against the copy of the row.
LoginCheck(r) ==
    /\ req[r].pc = "lockCheck"
    /\ IF isLocked THEN Done(r) ELSE Goto(r, PasswordOutcome(r))
    /\ UNCHANGED <<status, verification, email, pw, sessions, resets, failCount, lockedUntil, now,
                   faults, failed, uses, late>>

\* Wrong password, or a wrong MFA code: recordFailure.
LoginFail(r) ==
    /\ req[r].pc = "fail"
    /\ recordFailure
    /\ Failure
    /\ Done(r)
    /\ UNCHANGED <<status, verification, email, pw, sessions, resets, now, faults, uses, late>>

\* confirmedFactors and validateMFA: no factor or a valid code, a wrong code, or
\* no code given (ErrMFARequired, which is not counted as a failure).
LoginMFA(r) ==
    /\ req[r].pc = "mfa"
    /\ Goto(r, "clear") \/ Goto(r, "fail") \/ Done(r)
    /\ UNCHANGED <<status, verification, email, pw, sessions, resets, failCount, lockedUntil, now,
                   faults, failed, uses, late>>

LoginClear(r) ==
    /\ req[r].pc = "clear"
    /\ resetLockout
    /\ failed' = 0
    /\ Goto(r, "insert")
    /\ UNCHANGED <<status, verification, email, pw, sessions, resets, now, faults, uses, late>>

\* issueSession: INSERT INTO sessions; neither status nor password is looked at again.
LoginInsert(r, s) ==
    /\ req[r].pc = "insert"
    /\ sessions[s] = NoSession
    /\ sessions' = [sessions EXCEPT ![s] =
           [state |-> "live", pw |-> req[r].given,
            overChange |-> req[r].snap # pw,
            overClose |-> status = "CLOSED" \/ ~UserRowFree]]
    /\ Done(r)
    /\ UNCHANGED <<status, verification, email, pw, resets, failCount, lockedUntil, now,
                   faults, failed, uses, late>>

\* DELETE /v1/users/me: requireAuth finds a live session, then SoftDeleteUser.
CloseBegin(r, s) ==
    /\ req[r] = Idle
    /\ Live(s)
    /\ Goto(r, "close")
    /\ UNCHANGED <<status, verification, email, pw, sessions, resets, failCount, lockedUntil, now,
                   faults, failed, uses, late>>

\* Mutant: the account is closed and its sessions left open.
SoftDeleteUser_KeepSessions(r) ==
    /\ req[r].pc = "close"
    /\ UserRowFree
    /\ req' = [req EXCEPT ![r].pc = "closeCommit"]
    /\ UNCHANGED <<status, verification, email, pw, sessions, resets, failCount, lockedUntil, now,
                   faults, failed, uses, late>>

\* SoftDeleteUser: BEGIN, UPDATE users, UPDATE sessions ... WHERE revoked_at IS
\* NULL.  A session inserted from here on is not among the rows it matched.
SoftDeleteUser(r) ==
    /\ req[r].pc = "close"
    /\ UserRowFree
    /\ req' = [req EXCEPT ![r].pc = "closeCommit", ![r].rows = LiveSessions]
    /\ UNCHANGED <<status, verification, email, pw, sessions, resets, failCount, lockedUntil, now,
                   faults, failed, uses, late>>

\* COMMIT: others see the account closed and the matched sessions revoked.
SoftDeleteCommit(r) ==
    /\ Closing(r)
    /\ status' = "CLOSED"
    /\ Revoke(req[r].rows)
    /\ Done(r)
    /\ UNCHANGED <<verification, email, pw, resets, failCount, lockedUntil, now, faults,
                   failed, uses, late>>

\* Mutant: the status is not looked at.
EmailSelect_AnyState(r, s) ==
    /\ req[r] = Idle
    /\ Live(s)
    /\ Goto(r, "email")
    /\ UNCHANGED <<status, verification, email, pw, sessions, resets, failCount, lockedUntil, now,
                   faults, failed, uses, late>>

\* PATCH /v1/users/me: requireAuth, then UpdateUserEmail reads the status without
\* a lock on the row.
EmailSelect(r, s) ==
    /\ req[r] = Idle
    /\ Live(s)
    /\ status # "CLOSED"
    /\ Goto(r, "email")
    /\ UNCHANGED <<status, verification, email, pw, sessions, resets, failCount, lockedUntil, now,
                   faults, failed, uses, late>>

\* UPDATE users SET email WHERE id, whatever the status is by now.
EmailUpdate(r, e) ==
    /\ req[r].pc = "email"
    /\ UserRowFree
    /\ email' = e
    /\ late' = IF status = "CLOSED" /\ late < Cardinality(Request) THEN late + 1 ELSE late
    /\ Done(r)
    /\ UNCHANGED <<status, verification, pw, sessions, resets, failCount, lockedUntil, now,
                   faults, failed, uses>>

-----------------------------------------------------------------------------
(* Password reset *)

\* PasswordResetInit: UserByEmail, then INSERT INTO password_resets.
ResetInitRead(r) ==
    /\ req[r] = Idle
    /\ status # "CLOSED"
    /\ Goto(r, "resetInsert")
    /\ UNCHANGED <<status, verification, email, pw, sessions, resets, failCount, lockedUntil, now,
                   faults, failed, uses, late>>

ResetInitInsert(r, k) ==
    /\ req[r].pc = "resetInsert"
    /\ resets[k] = NoReset
    /\ resets' = [resets EXCEPT ![k] = [exp |-> now + PasswordResetTTL, used |-> FALSE]]
    /\ Done(r)
    /\ UNCHANGED <<status, verification, email, pw, sessions, failCount, lockedUntil, now,
                   faults, failed, uses, late>>

\* Mutant: the token is marked used when it is selected.
ConfirmSelect_MarkFirst(r, k, p) ==
    /\ req[r] = Idle
    /\ resets[k] # NoReset
    /\ ~resets[k].used
    /\ ~(now > resets[k].exp)
    /\ resets' = [resets EXCEPT ![k].used = TRUE]
    /\ req' = [req EXCEPT ![r] = [Idle EXCEPT !.pc = "setPassword", !.given = p, !.tok = k]]
    /\ UNCHANGED <<status, verification, email, pw, sessions, failCount, lockedUntil, now,
                   faults, failed, uses, late>>

\* PasswordResetConfirm: SELECT ... FOR UPDATE and COMMIT, which gives the lock
\* back; the MFA challenge comes next.
ConfirmSelect(r, k, p) ==
    /\ req[r] = Idle
    /\ resets[k] # NoReset
    /\ ~resets[k].used
    /\ ~(now > resets[k].exp)
    /\ req' = [req EXCEPT ![r] = [Idle EXCEPT !.pc = "setPassword", !.given = p, !.tok = k]]
    /\ UNCHANGED <<status, verification, email, pw, sessions, resets, failCount, lockedUntil, now,
                   faults, failed, uses, late>>

\* The challenge fails or is demanded, or SetUserPassword finds the password weak.
ConfirmRefused(r) ==
    /\ req[r].pc = "setPassword"
    /\ Done(r)
    /\ UNCHANGED <<status, verification, email, pw, sessions, resets, failCount, lockedUntil, now,
                   faults, failed, uses, late>>

\* Mutant: the hash written is the one read with the account, not the new one.
ConfirmSetPassword_Copy(r) ==
    /\ req[r].pc = "setPassword"
    /\ UserRowFree
    /\ pw' = req[r].snap
    /\ uses' = [uses EXCEPT ![req[r].tok] = IF @ < 2 THEN @ + 1 ELSE @]
    /\ Goto(r, "markUsed")
    /\ UNCHANGED <<status, verification, email, sessions, resets, failCount, lockedUntil, now,
                   faults, failed, late>>

\* SetUserPassword.
ConfirmSetPassword(r) ==
    /\ req[r].pc = "setPassword"
    /\ UserRowFree
    /\ pw' = req[r].given
    /\ uses' = [uses EXCEPT ![req[r].tok] = IF @ < 2 THEN @ + 1 ELSE @]
    /\ Goto(r, "markUsed")
    /\ UNCHANGED <<status, verification, email, sessions, resets, failCount, lockedUntil, now,
                   faults, failed, late>>

\* UPDATE password_resets SET used_at.
ConfirmMarkUsed(r) ==
    /\ req[r].pc = "markUsed"
    /\ resets' = [resets EXCEPT ![req[r].tok].used = TRUE]
    /\ Goto(r, "revokeAll")
    /\ UNCHANGED <<status, verification, email, pw, sessions, failCount, lockedUntil, now,
                   faults, failed, uses, late>>

\* Mutant: the reset forgets the account's sessions.
ConfirmRevokeAll_None(r) ==
    /\ req[r].pc = "revokeAll"
    /\ Goto(r, "unlock")
    /\ UNCHANGED <<status, verification, email, pw, sessions, resets, failCount, lockedUntil, now,
                   faults, failed, uses, late>>

\* RevokeAllSessionsForUser.
ConfirmRevokeAll(r) ==
    /\ req[r].pc = "revokeAll"
    /\ SessionRowsFree
    /\ Revoke(LiveSessions)
    /\ Goto(r, "unlock")
    /\ UNCHANGED <<status, verification, email, pw, resets, failCount, lockedUntil, now,
                   faults, failed, uses, late>>

ConfirmUnlock(r) ==
    /\ req[r].pc = "unlock"
    /\ resetLockout
    /\ failed' = 0
    /\ Done(r)
    /\ UNCHANGED <<status, verification, email, pw, sessions, resets, now, faults, uses, late>>

\* POST /v1/admin/unlock: UnlockUser.
UnlockUser(r) ==
    /\ req[r] = Idle
    /\ resetLockout
    /\ failed' = 0
    /\ UNCHANGED <<status, verification, email, pw, sessions, resets, req, now, faults, uses, late>>

-----------------------------------------------------------------------------
\* A statement fails.  isLocked, RevokeAllSessionsForUser and resetLockout discard
\* their error and the handler goes on (isLocked answers "not locked"); every
\* other failure ends the request.  recordFailure and confirmedFactors discard
\* theirs too, with an outcome LoginFail and LoginMFA already have.
Fail(r) ==
    /\ faults < MaxFaults
    /\ faults' = faults + 1
    /\ req[r].pc \notin {"idle", "fail", "mfa"}
    /\ CASE req[r].pc = "revokeAll" -> Goto(r, "unlock")
         [] req[r].pc = "clear" -> Goto(r, "insert")
         [] req[r].pc = "lockCheck" -> Goto(r, PasswordOutcome(r))
         [] OTHER -> Done(r)
    /\ UNCHANGED <<status, verification, email, pw, sessions, resets, failCount, lockedUntil, now,
                   failed, uses, late>>

Tick ==
    /\ now < MaxTime
    /\ now' = now + 1
    /\ UNCHANGED <<status, verification, email, pw, sessions, resets, failCount, lockedUntil, req,
                   faults, failed, uses, late>>

Next ==
    \/ \E r \in Request :
          \/ VerifyUserToken(r) \/ UnlockUser(r) \/ ResetInitRead(r)
          \/ \E p \in Password : LoginRead(r, p)
          \/ LoginCheck(r) \/ LoginFail(r) \/ LoginMFA(r) \/ LoginClear(r)
          \/ \E s \in Session : LoginInsert(r, s) \/ CloseBegin(r, s) \/ EmailSelect(r, s)
          \/ \E e \in Email : EmailUpdate(r, e)
          \/ SoftDeleteUser(r) \/ SoftDeleteCommit(r)
          \/ \E k \in ResetToken : ResetInitInsert(r, k)
          \/ \E k \in ResetToken, p \in Password : ConfirmSelect(r, k, p)
          \/ ConfirmRefused(r) \/ ConfirmSetPassword(r) \/ ConfirmMarkUsed(r) \/ ConfirmRevokeAll(r)
          \/ ConfirmUnlock(r)
          \/ Fail(r)
    \/ Tick

Spec == Init /\ [][Next]_vars

-----------------------------------------------------------------------------
(* Properties *)

\* UpdateUserEmail reads the status in one statement and updates the row in
\* another: the e-mail of a closed account still changes, but only for requests
\* that had read the status before it closed, fewer than there are requests.
ClosedEmailChangeOverlaps == late < Cardinality(Request)

ResetUnderWay == \E r \in Request : req[r].pc \in {"markUsed", "revokeAll"}

\* "Invalidate all active sessions on successful password change" (README.md)
\* holds for every session but those of overlapping logins:
\* when no statement failed and no reset is under way, a session opened with a
\* password that is no longer the account's was opened by a login that had read
\* the users row before the change and inserted its session after it.
OldPasswordSessionsRevoked ==
    (faults = 0 /\ ~ResetUnderWay) =>
        \A s \in Session : (Live(s) /\ sessions[s].pw # pw) => sessions[s].overChange

\* A closed account keeps no session but those of logins that had passed the
\* status check before it closed and inserted their row after SoftDeleteUser's
\* UPDATE of the sessions.
ClosedAccountSessionsRevoked ==
    status = "CLOSED" => \A s \in Session : Live(s) => sessions[s].overClose

\* A reset token is used up only by a confirmation that changed the password:
\* PasswordResetConfirm marks it after SetUserPassword, so whichever statement
\* fails, a client whose password did not change can present the token again.
UsedTokenChangedPassword ==
    \A k \in ResetToken : (resets[k] # NoReset /\ resets[k].used) => uses[k] >= 1

\* "token single-use" (README.md, Password Reset): a reset token changes the
\* password at most once.
ResetTokenSingleUse == \A k \in ResetToken : uses[k] <= 1

\* "Lockout after N consecutive failed authentications" (README.md).
ThresholdLocks == failed >= LockoutThreshold => lockedUntil # 0
=============================================================================

---------------------------- MODULE MemAccounts ----------------------------
(***************************************************************************)
(* Accounts in the in-memory store (internal/users.go, password.go and the  *)
(* login half of sessions.go): several accounts, the e-mail index, the      *)
(* verification tokens, lockouts, password resets and open sessions, and    *)
(* the requests that use them.  Every critical section of the store's mutex *)
(* is one step, so Login, PasswordResetConfirm and the handlers around them *)
(* are sequences of steps.  A client presents the current password or       *)
(* another one; durations are counted down, so no clock is kept.            *)
(***************************************************************************)
EXTENDS Integers, FiniteSets

CONSTANTS
    User, Email, Session, ResetToken, Request,
    NoUser, NoEmail, NoToken, NoSession,
    LockoutThreshold,   \* failures before a lockout (5)
    LockoutBase,        \* first lockout duration, in ticks (30 s)
    LockoutCap,         \* longest lockout duration, in ticks (24 h)
    Width,              \* bits of a duration (64)
    MaxFailures         \* FailCount saturates here, where every shift yields zero

ASSUME MemAccountsAssumption ==
    /\ NoUser \notin User /\ NoEmail \notin Email /\ NoToken \notin ResetToken
    /\ LockoutThreshold \in Nat \ {0} /\ LockoutBase \in Nat \ {0}
    /\ LockoutCap \in Nat /\ Width \in Nat \ {0} /\ MaxFailures \in Nat
    /\ LockoutBase <= LockoutCap /\ LockoutCap < 2^(Width - 1)
    /\ MaxFailures >= LockoutThreshold + Width
    /\ IsFiniteSet(Request) /\ Request # {}

\* Arithmetic, true of every bound; stated because exponentiation is opaque to
\* the provers.
ASSUME PowerAssumption ==
    \A k \in 0..MaxFailures : 2^k \in Nat \ {0} /\ 2^(k + 1) = 2 * 2^k

VARIABLES
    users,          \* map users: status and e-mail of each account
    usersByEmail,   \* map usersByEmail: the account an e-mail names
    verification,   \* accounts whose verification token is outstanding
    lockouts,       \* map lockouts: FailCount and the ticks until LockedUntil
    resets,         \* maps passwordResets and resetsByToken
    sessions,       \* the open sessions of map sessions
    req,            \* what each request is doing
    inLock,         \* history: failures counted while the account was locked
    uses            \* history: how often a reset token changed the password

vars == <<users, usersByEmail, verification, lockouts, resets, sessions, req, inLock, uses>>

UserRecord == [status : {"none", "PENDING", "ACTIVE", "CLOSED"}, email : Email \cup {NoEmail}]

NoLockout == [FailCount |-> 0, left |-> 0]

NoReset == [state |-> "none", user |-> NoUser]

SessionRecord ==
    [user : User,
     old : BOOLEAN,         \* history: the password changed since it was verified
     lateChange : BOOLEAN,  \* history: ... and had changed when the session was stored
     lateClose : BOOLEAN]   \* history: the account was closed when it was stored

PC == {"idle", "authed", "lockCheck", "verify", "mfa", "fail", "failMFA", "relock",
       "event", "clear", "insert",
       "resetInsert", "setPassword", "markUsed", "revokeAll", "unlock"}

RequestState ==
    [pc : PC, user : User \cup {NoUser}, email : Email \cup {NoEmail},
     tok : ResetToken \cup {NoToken},
     old : BOOLEAN,     \* history: the password changed since this login verified it
     moved : BOOLEAN]   \* history: the account changed its e-mail since this login found it

Idle ==
    [pc |-> "idle", user |-> NoUser, email |-> NoEmail, tok |-> NoToken,
     old |-> FALSE, moved |-> FALSE]

TypeOK ==
    /\ users \in [User -> UserRecord]
    /\ usersByEmail \in [Email -> User \cup {NoUser}]
    /\ verification \subseteq User
    /\ lockouts \in [User -> [FailCount : 0..MaxFailures, left : 0..LockoutCap]]
    /\ resets \in [ResetToken -> [state : {"none", "valid", "expired", "used"},
                                  user : User \cup {NoUser}]]
    /\ sessions \in [Session -> SessionRecord \cup {NoSession}]
    /\ req \in [Request -> RequestState]
    /\ inLock \in [User -> 0..Cardinality(Request)]
    /\ uses \in [ResetToken -> 0..2]

Init ==
    /\ users = [u \in User |-> [status |-> "none", email |-> NoEmail]]
    /\ usersByEmail = [e \in Email |-> NoUser]
    /\ verification = {}
    /\ lockouts = [u \in User |-> NoLockout]
    /\ resets = [k \in ResetToken |-> NoReset]
    /\ sessions = [s \in Session |-> NoSession]
    /\ req = [r \in Request |-> Idle]
    /\ inLock = [u \in User |-> 0]
    /\ uses = [k \in ResetToken |-> 0]

-----------------------------------------------------------------------------
Open(u) == {s \in Session : sessions[s] # NoSession /\ sessions[s].user = u}

\* A revoked session is never open again, so its place may be taken by a new one.
Revoke(u) == sessions' = [s \in Session |-> IF s \in Open(u) THEN NoSession ELSE sessions[s]]

Goto(r, pc) == req' = [req EXCEPT ![r].pc = pc]

Done(r) == req' = [req EXCEPT ![r] = Idle]

Begin(r, pc, u) == req' = [req EXCEPT ![r] = [Idle EXCEPT !.pc = pc, !.user = u]]

-----------------------------------------------------------------------------
(* Users *)

\* CreateUser: the e-mail must be free; the account of a closed user keeps its own.
CreateUser(r, u, e) ==
    /\ req[r] = Idle
    /\ users[u].status = "none"
    /\ usersByEmail[e] = NoUser
    /\ users' = [users EXCEPT ![u] = [status |-> "PENDING", email |-> e]]
    /\ usersByEmail' = [usersByEmail EXCEPT ![e] = u]
    /\ verification' = verification \cup {u}
    /\ UNCHANGED <<lockouts, resets, sessions, req, inLock, uses>>

\* VerifyUserToken: the token is used up, and a pending account becomes active.
VerifyUserToken(r, u) ==
    /\ req[r] = Idle
    /\ u \in verification
    /\ verification' = verification \ {u}
    /\ users' = IF users[u].status = "PENDING"
                   THEN [users EXCEPT ![u].status = "ACTIVE"] ELSE users
    /\ UNCHANGED <<usersByEmail, lockouts, resets, sessions, req, inLock, uses>>

\* requireAuth finds the session open (SessionByID); what follows does not look again.
Authenticate(r, s) ==
    /\ req[r] = Idle
    /\ sessions[s] # NoSession
    /\ Begin(r, "authed", sessions[s].user)
    /\ UNCHANGED <<users, usersByEmail, verification, lockouts, resets, sessions, inLock, uses>>

\* Logins of u under way that a change of its e-mail to e overtakes; r is done.
Moved(r, u, e) ==
    [q \in Request |->
        IF q = r THEN Idle
        ELSE IF req[q].user = u /\ req[q].email \notin {e, NoEmail}
                THEN [req[q] EXCEPT !.moved = TRUE]
        ELSE req[q]]

\* Mutant: whether the e-mail names another account is not looked at.
UpdateUserEmail_Taken(r, e) ==
    LET u == req[r].user IN
        /\ req[r].pc = "authed"
        /\ users[u].status # "CLOSED"
        /\ users' = [users EXCEPT ![u].email = e]
        /\ usersByEmail' = [usersByEmail EXCEPT ![users[u].email] = NoUser, ![e] = u]
        /\ req' = Moved(r, u, e)
        /\ UNCHANGED <<verification, lockouts, resets, sessions, inLock, uses>>

\* Mutant: the e-mail given up keeps naming the account.
UpdateUserEmail_KeepOld(r, e) ==
    LET u == req[r].user IN
        /\ req[r].pc = "authed"
        /\ users[u].status # "CLOSED"
        /\ usersByEmail[e] \in {NoUser, u}
        /\ users' = [users EXCEPT ![u].email = e]
        /\ usersByEmail' = [usersByEmail EXCEPT ![e] = u]
        /\ req' = Moved(r, u, e)
        /\ UNCHANGED <<verification, lockouts, resets, sessions, inLock, uses>>

\* UpdateUserEmail: refused for a closed account and for an e-mail of another.
UpdateUserEmail(r, e) ==
    LET u == req[r].user IN
        /\ req[r].pc = "authed"
        /\ users[u].status # "CLOSED"
        /\ usersByEmail[e] \in {NoUser, u}
        /\ users' = [users EXCEPT ![u].email = e]
        /\ usersByEmail' = [usersByEmail EXCEPT ![users[u].email] = NoUser, ![e] = u]
        /\ req' = Moved(r, u, e)
        /\ UNCHANGED <<verification, lockouts, resets, sessions, inLock, uses>>

UpdateRefused(r, e) ==
    LET u == req[r].user IN
        /\ req[r].pc = "authed"
        /\ users[u].status = "CLOSED" \/ usersByEmail[e] \notin {NoUser, u}
        /\ Done(r)
        /\ UNCHANGED <<users, usersByEmail, verification, lockouts, resets, sessions,
                       inLock, uses>>

\* Mutant: the sessions of the account stay open.
SoftDeleteUser_KeepSessions(r) ==
    /\ req[r].pc = "authed"
    /\ users' = [users EXCEPT ![req[r].user].status = "CLOSED"]
    /\ Done(r)
    /\ UNCHANGED <<usersByEmail, verification, lockouts, resets, sessions, inLock, uses>>

\* SoftDeleteUser: closed and every session revoked in one critical section.
SoftDeleteUser(r) ==
    /\ req[r].pc = "authed"
    /\ users' = [users EXCEPT ![req[r].user].status = "CLOSED"]
    /\ Revoke(req[r].user)
    /\ Done(r)
    /\ UNCHANGED <<usersByEmail, verification, lockouts, resets, inLock, uses>>

-----------------------------------------------------------------------------
(* Lockout *)

\* The low Width bits of n, read as a signed number.
Signed(n) ==
    LET low == n % 2^Width IN IF low < 2^(Width - 1) THEN low ELSE low - 2^Width

\* dur << (FailCount - LockoutThreshold), before the cap is applied.
Shifted(n) == Signed(LockoutBase * 2^(n - LockoutThreshold))

\* Mutant: the exponent is the number of failures.
Backoff_Exponent(n) ==
    LET d == Signed(LockoutBase * 2^n)
    IN  IF d > LockoutCap THEN LockoutCap ELSE IF d > 0 THEN d ELSE 0

\* Mutant: the cap is forgotten.
Backoff_Uncapped(n) == IF Shifted(n) > 0 THEN Shifted(n) ELSE 0

\* How long the n-th failure locks: a negative or zero duration ends in the past.
Backoff(n) ==
    LET d == Shifted(n) IN IF d > LockoutCap THEN LockoutCap ELSE IF d > 0 THEN d ELSE 0

isLocked(u) == lockouts[u].left > 0

recordFailure(u) ==
    LET n == IF lockouts[u].FailCount < MaxFailures
                THEN lockouts[u].FailCount + 1 ELSE MaxFailures IN
        /\ lockouts' = [lockouts EXCEPT ![u] =
               [FailCount |-> n, left |-> IF n >= LockoutThreshold THEN Backoff(n) ELSE @.left]]
        /\ inLock' = [inLock EXCEPT ![u] =
               IF ~isLocked(u) THEN 0 ELSE IF @ < Cardinality(Request) THEN @ + 1 ELSE @]

resetLockout(u) ==
    /\ lockouts' = [lockouts EXCEPT ![u] = NoLockout]
    /\ inLock' = [inLock EXCEPT ![u] = 0]

\* POST /v1/admin/unlock: UnlockUser.
UnlockUser(r, u) ==
    /\ req[r] = Idle
    /\ users[u].status # "none"
    /\ resetLockout(u)
    /\ UNCHANGED <<users, usersByEmail, verification, resets, sessions, req, uses>>

\* Time passes.
Tick ==
    /\ \E u \in User : isLocked(u)
    /\ lockouts' = [u \in User |->
           [lockouts[u] EXCEPT !.left = IF @ > 0 THEN @ - 1 ELSE 0]]
    /\ UNCHANGED <<users, usersByEmail, verification, resets, sessions, req, inLock, uses>>

-----------------------------------------------------------------------------
(* Login *)

\* Login: UserByEmail returns a pointer; its status is read once, here.
LoginFind(r, e) ==
    LET u == usersByEmail[e] IN
        /\ req[r] = Idle
        /\ u # NoUser
        /\ users[u].status = "ACTIVE"
        /\ req' = [req EXCEPT ![r] = [Idle EXCEPT !.pc = "lockCheck", !.user = u, !.email = e]]
        /\ UNCHANGED <<users, usersByEmail, verification, lockouts, resets, sessions,
                       inLock, uses>>

\* Mutant: the password is verified whether the account is locked or not.
LoginLockCheck_None(r) ==
    /\ req[r].pc = "lockCheck"
    /\ Goto(r, "verify")
    /\ UNCHANGED <<users, usersByEmail, verification, lockouts, resets, sessions, inLock, uses>>

LoginLockCheck(r) ==
    /\ req[r].pc = "lockCheck"
    /\ Goto(r, IF isLocked(req[r].user) THEN "event" ELSE "verify")
    /\ UNCHANGED <<users, usersByEmail, verification, lockouts, resets, sessions, inLock, uses>>

\* verifyUserPassword reads the hash behind the pointer: the client's password is
\* the one stored now, or it is not.
LoginVerify(r) ==
    /\ req[r].pc = "verify"
    /\ Goto(r, "mfa") \/ Goto(r, "fail")
    /\ UNCHANGED <<users, usersByEmail, verification, lockouts, resets, sessions, inLock, uses>>

\* Wrong password or wrong code: recordFailure; only the former looks at the lock.
LoginFail(r) ==
    /\ req[r].pc \in {"fail", "failMFA"}
    /\ recordFailure(req[r].user)
    /\ IF req[r].pc = "fail" THEN Goto(r, "relock") ELSE Done(r)
    /\ UNCHANGED <<users, usersByEmail, verification, resets, sessions, uses>>

LoginRelock(r) ==
    /\ req[r].pc = "relock"
    /\ IF isLocked(req[r].user) THEN Goto(r, "event") ELSE Done(r)
    /\ UNCHANGED <<users, usersByEmail, verification, lockouts, resets, sessions, inLock, uses>>

\* login (server.go): the subject of the auth.lockout event is looked up by e-mail
\* again; nil is dereferenced and the handler panics.
LockoutEvent(r) ==
    /\ req[r].pc = "event"
    /\ Done(r)
    /\ UNCHANGED <<users, usersByEmail, verification, lockouts, resets, sessions, inLock, uses>>

\* No factor or a valid code, a wrong code, or no code (not counted as a failure).
LoginMFA(r) ==
    /\ req[r].pc = "mfa"
    /\ Goto(r, "clear") \/ Goto(r, "failMFA") \/ Done(r)
    /\ UNCHANGED <<users, usersByEmail, verification, lockouts, resets, sessions, inLock, uses>>

LoginClear(r) ==
    /\ req[r].pc = "clear"
    /\ resetLockout(req[r].user)
    /\ Goto(r, "insert")
    /\ UNCHANGED <<users, usersByEmail, verification, resets, sessions, uses>>

\* issueSession stores the session; status and password are not looked at again.
LoginInsert(r, s) ==
    /\ req[r].pc = "insert"
    /\ sessions[s] = NoSession
    /\ sessions' = [sessions EXCEPT ![s] =
           [user |-> req[r].user, old |-> req[r].old, lateChange |-> req[r].old,
            lateClose |-> users[req[r].user].status = "CLOSED"]]
    /\ Done(r)
    /\ UNCHANGED <<users, usersByEmail, verification, lockouts, resets, inLock, uses>>

-----------------------------------------------------------------------------
(* Password reset *)

\* PasswordResetInit: UserByEmail and the status, then the token is stored.
ResetFind(r, e) ==
    LET u == usersByEmail[e] IN
        /\ req[r] = Idle
        /\ u # NoUser
        /\ users[u].status # "CLOSED"
        /\ Begin(r, "resetInsert", u)
        /\ UNCHANGED <<users, usersByEmail, verification, lockouts, resets, sessions,
                       inLock, uses>>

ResetInsert(r, k) ==
    /\ req[r].pc = "resetInsert"
    /\ resets[k] = NoReset
    /\ resets' = [resets EXCEPT ![k] = [state |-> "valid", user |-> req[r].user]]
    /\ Done(r)
    /\ UNCHANGED <<users, usersByEmail, verification, lockouts, sessions, inLock, uses>>

\* PasswordResetTTL passes.
ResetExpires(k) ==
    /\ resets[k].state = "valid"
    /\ resets' = [resets EXCEPT ![k].state = "expired"]
    /\ UNCHANGED <<users, usersByEmail, verification, lockouts, sessions, req, inLock, uses>>

\* PasswordResetConfirm: the token is unused and in time, and the mutex is given
\* back; the challenge comes next.
ConfirmCheck(r, k) ==
    /\ req[r] = Idle
    /\ resets[k].state = "valid"
    /\ req' = [req EXCEPT ![r] =
           [Idle EXCEPT !.pc = "setPassword", !.user = resets[k].user, !.tok = k]]
    /\ UNCHANGED <<users, usersByEmail, verification, lockouts, resets, sessions, inLock, uses>>

\* The challenge fails or is demanded, or SetUserPassword finds the password weak.
ConfirmRefused(r) ==
    /\ req[r].pc = "setPassword"
    /\ Done(r)
    /\ UNCHANGED <<users, usersByEmail, verification, lockouts, resets, sessions, inLock, uses>>

\* The new hash makes sessions and logins that verified the old one outdated.
Outdated(u, r) ==
    /\ sessions' = [s \in Session |->
           IF s \in Open(u) THEN [sessions[s] EXCEPT !.old = TRUE] ELSE sessions[s]]
    /\ req' = [q \in Request |->
           IF q = r THEN [req[q] EXCEPT !.pc = "markUsed"]
           ELSE IF req[q].user = u /\ req[q].pc \in {"mfa", "clear", "insert"}
                   THEN [req[q] EXCEPT !.old = TRUE]
           ELSE req[q]]

\* SetUserPassword: whatever the status of the account.
ConfirmSetPassword(r) ==
    /\ req[r].pc = "setPassword"
    /\ Outdated(req[r].user, r)
    /\ uses' = [uses EXCEPT ![req[r].tok] = IF @ < 2 THEN @ + 1 ELSE @]
    /\ UNCHANGED <<users, usersByEmail, verification, lockouts, resets, inLock>>

\* UsedAt, and the token leaves resetsByToken.
ConfirmMarkUsed(r) ==
    /\ req[r].pc = "markUsed"
    /\ resets' = [resets EXCEPT ![req[r].tok].state = "used"]
    /\ Goto(r, "revokeAll")
    /\ UNCHANGED <<users, usersByEmail, verification, lockouts, sessions, inLock, uses>>

\* Mutant: the sessions are left to expire.
ConfirmRevokeAll_None(r) ==
    /\ req[r].pc = "revokeAll"
    /\ Goto(r, "unlock")
    /\ UNCHANGED <<users, usersByEmail, verification, lockouts, resets, sessions, inLock, uses>>

\* RevokeAllSessionsForUser.
ConfirmRevokeAll(r) ==
    /\ req[r].pc = "revokeAll"
    /\ Revoke(req[r].user)
    /\ Goto(r, "unlock")
    /\ UNCHANGED <<users, usersByEmail, verification, lockouts, resets, inLock, uses>>

ConfirmUnlock(r) ==
    /\ req[r].pc = "unlock"
    /\ resetLockout(req[r].user)
    /\ Done(r)
    /\ UNCHANGED <<users, usersByEmail, verification, resets, sessions, uses>>

-----------------------------------------------------------------------------
Next ==
    \/ \E r \in Request :
          \/ \E u \in User : VerifyUserToken(r, u) \/ UnlockUser(r, u)
          \/ \E u \in User, e \in Email : CreateUser(r, u, e)
          \/ \E e \in Email :
                UpdateUserEmail(r, e) \/ UpdateRefused(r, e) \/ LoginFind(r, e) \/ ResetFind(r, e)
          \/ \E s \in Session : Authenticate(r, s) \/ LoginInsert(r, s)
          \/ SoftDeleteUser(r)
          \/ LoginLockCheck(r) \/ LoginVerify(r) \/ LoginFail(r) \/ LoginRelock(r)
          \/ LockoutEvent(r) \/ LoginMFA(r) \/ LoginClear(r)
          \/ \E k \in ResetToken : ResetInsert(r, k) \/ ConfirmCheck(r, k)
          \/ ConfirmRefused(r) \/ ConfirmSetPassword(r) \/ ConfirmMarkUsed(r)
          \/ ConfirmRevokeAll(r) \/ ConfirmUnlock(r)
    \/ \E k \in ResetToken : ResetExpires(k)
    \/ Tick

Spec == Init /\ [][Next]_vars

-----------------------------------------------------------------------------
(* Properties *)

\* The hand-kept index names, for every e-mail, the one account that has it:
\* CreateUser, UpdateUserEmail and closure keep both maps in step.
EmailIndexAgrees ==
    \A u \in User, e \in Email : usersByEmail[e] = u <=> users[u].email = e

\* The account login names in an auth.lockout event is the one Login found
\* locked, unless that account changed its e-mail while the request ran; only
\* then the lookup finds another account, or none and the handler panics.
LockoutEventSubject ==
    \A r \in Request :
        req[r].pc = "event" => usersByEmail[req[r].email] = req[r].user \/ req[r].moved

\* isLocked and recordFailure are separate critical sections: while an account is
\* locked further failures are counted, but only those of requests that had
\* passed the check before it was locked, fewer than there are requests.
LockedGuessesOverlap == \A u \in User : inLock[u] < Cardinality(Request)

\* A further failure from the threshold on never shortens the lock in force, as
\* long as the shifted duration is still positive (28 failures past the threshold
\* in 64 bits).
LockNeverShortened ==
    [][\A u \in User :
          (/\ lockouts'[u].FailCount > lockouts[u].FailCount
           /\ lockouts'[u].FailCount >= LockoutThreshold
           /\ Shifted(lockouts'[u].FailCount) > 0)
          => lockouts'[u].left >= lockouts[u].left /\ lockouts'[u].left > 0]_vars

ResetUnderWay(u) ==
    \E r \in Request : req[r].user = u /\ req[r].pc \in {"markUsed", "revokeAll"}

\* Once a password reset is over, a session opened with an earlier password is
\* one whose login verified that password before the change and stored the
\* session after it.
OldPasswordSessionsRevoked ==
    \A s \in Session :
        sessions[s] # NoSession =>
            (sessions[s].old => sessions[s].lateChange \/ ResetUnderWay(sessions[s].user))

\* A closed account has no open session but those of logins that passed the
\* status check before it closed and stored their session after it.
ClosedAccountSessionsRevoked ==
    \A s \in Session :
        sessions[s] # NoSession =>
            (users[sessions[s].user].status = "CLOSED" => sessions[s].lateClose)

\* "token single-use, short TTL, bound to user + intent" (README.md:72): a reset
\* token changes the password at most once.  PasswordResetConfirm checks it in one
\* critical section and marks it used in another.
ResetTokenSingleUse == \A k \in ResetToken : uses[k] <= 1
=============================================================================

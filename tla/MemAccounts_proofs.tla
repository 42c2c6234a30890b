------------------------- MODULE MemAccounts_proofs -------------------------
(***************************************************************************)
(* Proofs about MemAccounts for any sets of accounts, e-mails, sessions and *)
(* reset tokens, any finite set of requests and any lockout policy.         *)
(***************************************************************************)
EXTENDS MemAccounts, FiniteSetTheorems, TLAPS

LoginPC == {"lockCheck", "verify", "mfa", "fail", "failMFA", "relock", "event",
            "clear", "insert"}

\* An account that CreateUser made; its status never goes back.
Known(u) == u \in User /\ users[u].status # "none"

\* A token that RequestPasswordReset stored; only its state changes after that.
Stored(k) == k \in ResetToken /\ resets[k].state # "none"

\* What a request carries between two critical sections.  The e-mail a login
\* was found by still names the account, unless the account moved on.
Shape(q) ==
    /\ q.pc # "idle" => Known(q.user)
    /\ q.pc \in LoginPC =>
           q.email \in Email /\ (usersByEmail[q.email] = q.user \/ q.moved)
    /\ q.pc \in {"setPassword", "markUsed"} => Stored(q.tok)

RequestShape == \A r \in Request : Shape(req[r])

\* A stored session or reset token belongs to an account, and only an account
\* has an e-mail.
RecordsOwned ==
    /\ \A k \in ResetToken : resets[k].state # "none" => Known(resets[k].user)
    /\ \A s \in Session : sessions[s] # NoSession => Known(sessions[s].user)
    /\ \A u \in User : users[u].status = "none" => users[u].email = NoEmail

\* Logins that passed the lock check and may still count a failure.
Guessing(u) ==
    {r \in Request : req[r].user = u /\ req[r].pc \in {"verify", "mfa", "fail", "failMFA"}}

\* While the account is locked nobody joins them: each failure counted in the
\* lock used one up, and the one that locked the account is not among them.
GuessesCounted ==
    \A u \in User :
        /\ inLock[u] < Cardinality(Request)
        /\ isLocked(u) => inLock[u] + Cardinality(Guessing(u)) < Cardinality(Request)

SafeInv ==
    /\ TypeOK
    /\ RequestShape
    /\ RecordsOwned
    /\ EmailIndexAgrees
    /\ GuessesCounted
    /\ OldPasswordSessionsRevoked
    /\ ClosedAccountSessionsRevoked

GuessPC == {"verify", "mfa", "fail", "failMFA"}

\* A step of r leaves the other requests where they are.
OthersKept(r) ==
    \A q \in Request : q # r =>
        /\ req'[q].pc = req[q].pc /\ req'[q].user = req[q].user
        /\ req'[q].email = req[q].email /\ req'[q].tok = req[q].tok
        /\ req[q].moved => req'[q].moved

-----------------------------------------------------------------------------
\* The idle state of a request.
LEMMA IdleFacts ==
    Idle \in RequestState /\ Idle.pc = "idle" /\ Shape(Idle) /\ Idle.tok = NoToken
  BY DEF Idle, RequestState, PC, Shape, LoginPC, Stored

\* Goto changes where a request is and keeps what it carries.
LEMMA GotoFacts ==
    ASSUME TypeOK, NEW r \in Request, NEW pc \in PC, Goto(r, pc)
    PROVE  \E state \in RequestState :
               /\ req' = [req EXCEPT ![r] = state]
               /\ state.pc = pc /\ state.user = req[r].user /\ state.email = req[r].email
               /\ state.tok = req[r].tok /\ state.moved = req[r].moved
  <1> DEFINE state == [req[r] EXCEPT !.pc = pc]
  <1>1. req[r] \in RequestState
    BY DEF TypeOK
  <1>2. /\ state \in RequestState
        /\ state.pc = pc /\ state.user = req[r].user /\ state.email = req[r].email
        /\ state.tok = req[r].tok /\ state.moved = req[r].moved
    BY <1>1 DEF RequestState
  <1>3. req' = [req EXCEPT ![r] = state]
    BY DEF Goto
  <1> QED
    BY <1>2, <1>3

\* Replacing one request's state.
LEMMA StepFacts ==
    ASSUME TypeOK, NEW r \in Request, NEW state \in RequestState,
           req' = [req EXCEPT ![r] = state]
    PROVE  OthersKept(r) /\ req'[r] = state /\ req' \in [Request -> RequestState]
  BY DEF TypeOK, OthersKept

\* Sets of requests are finite, and there is at least one request.
LEMMA RequestSets ==
    /\ Cardinality(Request) \in Nat /\ Cardinality(Request) > 0
    /\ \A S : S \subseteq Request => /\ IsFiniteSet(S) /\ Cardinality(S) \in Nat
                                    /\ Cardinality(S) <= Cardinality(Request)
  BY MemAccountsAssumption, FS_Subset, FS_CardinalityType, FS_EmptySet

\* A subset of a set of requests is no larger.
LEMMA SmallerSet ==
    ASSUME NEW S, NEW T, T \subseteq Request, S \subseteq T
    PROVE  Cardinality(S) <= Cardinality(T)
  BY RequestSets, FS_Subset

\* Without one of its members a set of requests is one smaller.
LEMMA WithoutMember ==
    ASSUME NEW T, T \subseteq Request, NEW r \in T
    PROVE  Cardinality(T \ {r}) = Cardinality(T) - 1
  BY RequestSets, FS_RemoveElement

\* Powers of two up to the width.
LEMMA PowerFacts ==
    /\ 2^Width \in Nat \ {0} /\ 2^(Width - 1) \in Nat \ {0}
    /\ 2^Width = 2 * 2^(Width - 1)
  <1>1. PICK k \in 0..MaxFailures : k = Width - 1 /\ k + 1 = Width
    BY MemAccountsAssumption
  <1>2. Width \in 0..MaxFailures
    BY MemAccountsAssumption
  <1> QED
    BY <1>1, <1>2, PowerAssumption

\* A lockout never lasts longer than the cap.
LEMMA BackoffType ==
    ASSUME NEW n \in Nat, n >= LockoutThreshold
    PROVE  Backoff(n) \in 0..LockoutCap
  <1>1. n - LockoutThreshold \in Nat /\ Width - 1 \in Nat /\ LockoutCap \in Nat
    BY MemAccountsAssumption
  <1>2. LockoutBase * 2^(n - LockoutThreshold) \in Int
    BY <1>1, MemAccountsAssumption
  <1>3. 2^Width \in Int /\ 2^(Width - 1) \in Int
    BY PowerFacts
  <1>4. ASSUME NEW m \in Int PROVE Signed(m) \in Int
    <2>1. m % 2^Width \in Int
      BY PowerFacts
    <2> QED
      BY <1>3, <2>1 DEF Signed
  <1>5. Shifted(n) \in Int
    BY <1>2, <1>4 DEF Shifted
  <1> QED
    BY <1>1, <1>5 DEF Backoff

\* Frame of the requests' shape while the e-mail index does not change.
LEMMA ShapeFrame ==
    ASSUME SafeInv, NEW r \in Request, OthersKept(r), Shape(req[r])',
           UNCHANGED usersByEmail, \A u : Known(u) => Known(u)',
           \A k : Stored(k) => Stored(k)'
    PROVE  RequestShape'
  BY DEF SafeInv, RequestShape, Shape, OthersKept, Stored

\* Frame of the guesses: no lock begins and nobody joins the guesses in a lock.
LEMMA GuessFrame ==
    ASSUME SafeInv, NEW r \in Request, OthersKept(r),
           \A u \in User : inLock'[u] \in {0, inLock[u]},
           \A u \in User : isLocked(u)' => isLocked(u),
           req'[r].pc \in GuessPC =>
               \/ req[r].pc \in GuessPC /\ req'[r].user = req[r].user
               \/ req'[r].user \in User /\ ~isLocked(req'[r].user)
    PROVE  GuessesCounted'
  <1> SUFFICES ASSUME NEW u \in User
               PROVE  /\ inLock'[u] < Cardinality(Request)
                      /\ isLocked(u)' =>
                             inLock'[u] + Cardinality(Guessing(u)') < Cardinality(Request)
    BY DEF GuessesCounted
  <1>1. /\ inLock'[u] \in {0, inLock[u]} /\ inLock[u] < Cardinality(Request)
        /\ inLock'[u] < Cardinality(Request)
    BY RequestSets DEF SafeInv, GuessesCounted
  <1>2. ASSUME isLocked(u)'
        PROVE  inLock'[u] + Cardinality(Guessing(u)') < Cardinality(Request)
    <2>1. isLocked(u)
      BY <1>2
    <2>2. Guessing(u)' \subseteq Guessing(u)
      BY <2>1 DEF Guessing, OthersKept, GuessPC
    <2>3. Guessing(u) \subseteq Request /\ Guessing(u)' \subseteq Request
      BY DEF Guessing
    <2>4. /\ Cardinality(Guessing(u)') <= Cardinality(Guessing(u))
          /\ Cardinality(Guessing(u)') \in Nat /\ Cardinality(Guessing(u)) \in Nat
      BY <2>2, <2>3, SmallerSet, RequestSets
    <2>5. inLock[u] \in Nat
      BY RequestSets DEF SafeInv, TypeOK
    <2> QED
      BY <1>1, <2>1, <2>4, <2>5, RequestSets DEF SafeInv, GuessesCounted
  <1> QED
    BY <1>1, <1>2

\* Frame of the sessions: no reset ends and no account closes.
LEMMA SessionFrame ==
    ASSUME SafeInv, NEW r \in Request, OthersKept(r), UNCHANGED sessions,
           req[r].pc \in {"markUsed", "revokeAll"} =>
               req'[r].pc \in {"markUsed", "revokeAll"} /\ req'[r].user = req[r].user,
           \A u \in User : users'[u].status = "CLOSED" => users[u].status = "CLOSED"
    PROVE  OldPasswordSessionsRevoked' /\ ClosedAccountSessionsRevoked'
  <1>1. \A u : ResetUnderWay(u) => ResetUnderWay(u)'
    BY DEF ResetUnderWay, OthersKept
  <1>2. \A s \in Session : sessions[s] # NoSession => sessions[s].user \in User
    BY DEF SafeInv, TypeOK, SessionRecord
  <1>3. OldPasswordSessionsRevoked'
    BY <1>1 DEF SafeInv, OldPasswordSessionsRevoked
  <1>4. ClosedAccountSessionsRevoked'
    BY <1>2 DEF SafeInv, ClosedAccountSessionsRevoked
  <1> QED
    BY <1>3, <1>4

\* A critical section that only reads the maps moves one request.
LEMMA RequestStep ==
    ASSUME SafeInv, NEW r \in Request, NEW state \in RequestState,
           req' = [req EXCEPT ![r] = state], Shape(state),
           req[r].pc \notin {"markUsed", "revokeAll"}, state.pc # "markUsed",
           state.pc \in GuessPC =>
               (req[r].pc \in GuessPC /\ state.user = req[r].user) \/ ~isLocked(state.user),
           UNCHANGED <<users, usersByEmail, verification, lockouts, resets, sessions, inLock,
                       uses>>
    PROVE  SafeInv'
  <1>1. OthersKept(r) /\ req'[r] = state /\ req' \in [Request -> RequestState]
    BY StepFacts DEF SafeInv
  <1>2. TypeOK'
    BY <1>1 DEF SafeInv, TypeOK
  <1>3. RequestShape'
    <2>1. Shape(req[r])'
      BY <1>1 DEF Shape, Known, Stored
    <2> QED
      BY <1>1, <2>1, ShapeFrame DEF Known, Stored
  <1>4. RecordsOwned' /\ EmailIndexAgrees'
    BY DEF SafeInv, RecordsOwned, EmailIndexAgrees, Known
  <1>5. GuessesCounted'
    <2>1. \A u \in User : isLocked(u)' => isLocked(u)
      BY DEF isLocked
    <2>2. state.pc \in GuessPC => state.user \in User
      BY DEF Shape, GuessPC, Known
    <2> QED
      BY <1>1, <2>1, <2>2, GuessFrame
  <1>7. OldPasswordSessionsRevoked' /\ ClosedAccountSessionsRevoked'
    BY <1>1, SessionFrame
  <1> QED
    BY <1>2, <1>3, <1>4, <1>5, <1>7 DEF SafeInv

\* A request that ends, and changed nothing.
LEMMA DoneStep ==
    ASSUME SafeInv, NEW r \in Request, Done(r),
           req[r].pc \notin {"markUsed", "revokeAll"},
           UNCHANGED <<users, usersByEmail, verification, lockouts, resets, sessions, inLock,
                       uses>>
    PROVE  SafeInv'
  <1>1. PICK state \in RequestState : state = Idle /\ req' = [req EXCEPT ![r] = state]
    BY IdleFacts DEF Done
  <1>2. Shape(state) /\ state.pc = "idle"
    BY <1>1, IdleFacts
  <1> QED
    BY <1>1, <1>2, RequestStep DEF GuessPC

\* A login that goes on to its next critical section, and changed nothing.
LEMMA GotoStep ==
    ASSUME SafeInv, NEW r \in Request, NEW pc \in LoginPC, Goto(r, pc),
           req[r].pc \in LoginPC,
           pc \in GuessPC => req[r].pc \in GuessPC \/ ~isLocked(req[r].user),
           UNCHANGED <<users, usersByEmail, verification, lockouts, resets, sessions, inLock,
                       uses>>
    PROVE  SafeInv'
  <1>1. PICK state \in RequestState :
            /\ req' = [req EXCEPT ![r] = state]
            /\ state.pc = pc /\ state.user = req[r].user /\ state.email = req[r].email
            /\ state.tok = req[r].tok /\ state.moved = req[r].moved
    BY GotoFacts DEF SafeInv, PC, LoginPC
  <1>2. Shape(state)
    BY <1>1 DEF SafeInv, RequestShape, Shape, LoginPC, Stored
  <1> QED
    BY <1>1, <1>2, RequestStep DEF LoginPC

\* The first critical section of a request, which looks an account up.
LEMMA BeginStep ==
    ASSUME SafeInv, NEW r \in Request, req[r] = Idle,
           NEW pc \in {"authed", "resetInsert"}, NEW u \in User, Known(u), Begin(r, pc, u),
           UNCHANGED <<users, usersByEmail, verification, lockouts, resets, sessions, inLock,
                       uses>>
    PROVE  SafeInv'
  <1>1. PICK state \in RequestState :
            req' = [req EXCEPT ![r] = state] /\ state.pc = pc /\ state.user = u
    <2> DEFINE state == [Idle EXCEPT !.pc = pc, !.user = u]
    <2>1. state \in RequestState /\ state.pc = pc /\ state.user = u
      BY IdleFacts DEF RequestState, PC
    <2>2. req' = [req EXCEPT ![r] = state]
      BY DEF Begin
    <2> QED
      BY <2>1, <2>2
  <1>2. Shape(state)
    BY <1>1 DEF Shape, LoginPC, Stored
  <1> QED
    BY <1>1, <1>2, IdleFacts, RequestStep DEF GuessPC

-----------------------------------------------------------------------------
\* Empty maps and no request under way.
LEMMA InitSafe == Init => SafeInv
  <1> SUFFICES ASSUME Init PROVE SafeInv
    OBVIOUS
  <1>0. /\ \A r \in Request : req[r] = Idle
        /\ \A s \in Session : sessions[s] = NoSession
        /\ \A k \in ResetToken : resets[k] = NoReset
        /\ \A u \in User : lockouts[u] = NoLockout /\ users[u].email = NoEmail
    BY DEF Init
  <1>1. TypeOK
    <2>1. /\ NoLockout \in [FailCount : 0..MaxFailures, left : 0..LockoutCap]
          /\ NoReset \in [state : {"none", "valid", "expired", "used"}, user : User \cup {NoUser}]
          /\ [status |-> "none", email |-> NoEmail] \in UserRecord
      BY MemAccountsAssumption DEF NoLockout, NoReset, UserRecord
    <2>2. 0 \in 0..Cardinality(Request) /\ 0 \in 0..(Cardinality(Request) + 1)
      BY RequestSets
    <2> QED
      BY <2>1, <2>2, IdleFacts DEF Init, TypeOK
  <1>2. RequestShape
    BY <1>0, IdleFacts DEF RequestShape
  <1>3. RecordsOwned /\ \A k \in ResetToken : resets[k].state = "none"
    BY <1>0 DEF RecordsOwned, NoReset
  <1>4. EmailIndexAgrees
    BY <1>0, MemAccountsAssumption DEF Init, EmailIndexAgrees
  <1>5. GuessesCounted
    BY <1>0, RequestSets DEF Init, GuessesCounted, isLocked, NoLockout
  <1>7. OldPasswordSessionsRevoked /\ ClosedAccountSessionsRevoked
    BY <1>0 DEF OldPasswordSessionsRevoked, ClosedAccountSessionsRevoked
  <1> QED
    BY <1>1, <1>2, <1>3, <1>4, <1>5, <1>7 DEF SafeInv

\* The critical sections that only read: lookups, checks and refusals.
LEMMA ReadSafe ==
    ASSUME SafeInv, NEW r \in Request,
           \/ \E s \in Session : Authenticate(r, s)
           \/ \E e \in Email : UpdateRefused(r, e) \/ LoginFind(r, e) \/ ResetFind(r, e)
           \/ LoginLockCheck(r) \/ LoginVerify(r) \/ LoginRelock(r) \/ LockoutEvent(r)
           \/ LoginMFA(r) \/ ConfirmRefused(r)
           \/ \E k \in ResetToken : ConfirmCheck(r, k)
    PROVE  SafeInv'
  <1>1. ASSUME NEW s \in Session, Authenticate(r, s) PROVE SafeInv'
    <2>1. PICK u \in User : u = sessions[s].user /\ Known(u)
      BY <1>1 DEF Authenticate, SafeInv, RecordsOwned, Known
    <2>2. Begin(r, "authed", u)
      BY <1>1, <2>1 DEF Authenticate, Begin
    <2> QED
      BY <1>1, <2>1, <2>2, BeginStep DEF Authenticate
  <1>2. ASSUME NEW e \in Email, UpdateRefused(r, e) PROVE SafeInv'
    BY <1>2, DoneStep DEF UpdateRefused
  <1>3. ASSUME NEW e \in Email, LoginFind(r, e) PROVE SafeInv'
    <2>1. PICK u \in User : u = usersByEmail[e] /\ Known(u)
      BY <1>3 DEF LoginFind, SafeInv, TypeOK, Known
    <2>2. PICK state \in RequestState :
              /\ req' = [req EXCEPT ![r] = state]
              /\ state.pc = "lockCheck" /\ state.user = u /\ state.email = e
      <3> DEFINE state == [Idle EXCEPT !.pc = "lockCheck", !.user = u, !.email = e]
      <3>1. state \in RequestState /\ state.pc = "lockCheck" /\ state.user = u /\ state.email = e
        BY IdleFacts DEF RequestState, PC
      <3>2. req' = [req EXCEPT ![r] = state]
        BY <1>3, <2>1 DEF LoginFind
      <3> QED
        BY <3>1, <3>2
    <2>3. Shape(state)
      BY <2>1, <2>2 DEF Shape, LoginPC, Stored
    <2>4. req[r].pc = "idle"
      BY <1>3, IdleFacts DEF LoginFind
    <2> QED
      BY <1>3, <2>2, <2>3, <2>4, RequestStep DEF LoginFind, GuessPC
  <1>4. ASSUME NEW e \in Email, ResetFind(r, e) PROVE SafeInv'
    <2>1. PICK u \in User : u = usersByEmail[e] /\ Known(u)
      <3>1. usersByEmail[e] \in User
        BY <1>4 DEF ResetFind, SafeInv, TypeOK
      <3>2. users[usersByEmail[e]].email = e
        BY <3>1 DEF SafeInv, EmailIndexAgrees
      <3> QED
        BY <3>1, <3>2, MemAccountsAssumption DEF SafeInv, RecordsOwned, Known
    <2>2. Begin(r, "resetInsert", u)
      BY <1>4, <2>1 DEF ResetFind
    <2> QED
      BY <1>4, <2>1, <2>2, BeginStep DEF ResetFind
  <1>5. CASE LoginLockCheck(r)
    <2>1. CASE isLocked(req[r].user)
      BY <1>5, <2>1, GotoStep DEF LoginLockCheck, LoginPC, GuessPC
    <2>2. CASE ~isLocked(req[r].user)
      BY <1>5, <2>2, GotoStep DEF LoginLockCheck, LoginPC
    <2> QED
      BY <2>1, <2>2
  <1>6. CASE LoginVerify(r)
    BY <1>6, GotoStep DEF LoginVerify, LoginPC, GuessPC
  <1>7. CASE LoginRelock(r)
    BY <1>7, GotoStep, DoneStep DEF LoginRelock, LoginPC, GuessPC
  <1>8. CASE LockoutEvent(r)
    BY <1>8, DoneStep DEF LockoutEvent
  <1>9. CASE LoginMFA(r)
    BY <1>9, GotoStep, DoneStep DEF LoginMFA, LoginPC, GuessPC
  <1>10. CASE ConfirmRefused(r)
    BY <1>10, DoneStep DEF ConfirmRefused
  <1>11. ASSUME NEW k \in ResetToken, ConfirmCheck(r, k) PROVE SafeInv'
    <2>1. PICK u \in User : u = resets[k].user /\ Known(u)
      BY <1>11 DEF ConfirmCheck, SafeInv, RecordsOwned, Known
    <2>2. PICK state \in RequestState :
              /\ req' = [req EXCEPT ![r] = state]
              /\ state.pc = "setPassword" /\ state.user = u /\ state.tok = k
      <3> DEFINE state == [Idle EXCEPT !.pc = "setPassword", !.user = u, !.tok = k]
      <3>1. state \in RequestState /\ state.pc = "setPassword" /\ state.user = u /\ state.tok = k
        BY IdleFacts DEF RequestState, PC
      <3>2. req' = [req EXCEPT ![r] = state]
        BY <1>11, <2>1 DEF ConfirmCheck
      <3> QED
        BY <3>1, <3>2
    <2>3. Shape(state)
      BY <1>11, <2>1, <2>2 DEF ConfirmCheck, Shape, LoginPC, Stored
    <2>4. req[r].pc = "idle" /\ resets[k].state # "used"
      BY <1>11, IdleFacts DEF ConfirmCheck
    <2> QED
      BY <1>11, <2>2, <2>3, <2>4, RequestStep DEF ConfirmCheck, GuessPC
  <1> QED
    BY <1>1, <1>2, <1>3, <1>4, <1>5, <1>6, <1>7, <1>8, <1>9, <1>10, <1>11

-----------------------------------------------------------------------------
\* A step that moves no request.
LEMMA SameRequests ==
    ASSUME SafeInv, NEW r \in Request, req' = req
    PROVE  /\ OthersKept(r) /\ req'[r] = req[r] /\ req' \in [Request -> RequestState]
           /\ (/\ usersByEmail' = usersByEmail
               /\ \A u : Known(u) => Known(u)'
               /\ \A k : Stored(k) => Stored(k)') => RequestShape'
  BY DEF SafeInv, TypeOK, OthersKept, RequestShape, Shape, Stored

\* CreateUser gives a free e-mail to a new account.
LEMMA CreateSafe ==
    ASSUME SafeInv, NEW r \in Request, NEW u \in User, NEW e \in Email, CreateUser(r, u, e)
    PROVE  SafeInv'
  <1>1. req' = req /\ OthersKept(r)
    BY SameRequests DEF CreateUser
  <1>2. PICK row \in UserRecord :
            users' = [users EXCEPT ![u] = row] /\ row.status = "PENDING" /\ row.email = e
    <2> DEFINE row == [status |-> "PENDING", email |-> e]
    <2>1. row \in UserRecord
      BY DEF UserRecord
    <2>2. users' = [users EXCEPT ![u] = row]
      BY DEF CreateUser
    <2> QED
      BY <2>1, <2>2
  <1>3. /\ \A w \in User : users'[w] = IF w = u THEN row ELSE users[w]
        /\ \A f \in Email : usersByEmail'[f] = IF f = e THEN u ELSE usersByEmail[f]
    BY <1>2 DEF CreateUser, SafeInv, TypeOK
  <1>4. TypeOK'
    BY <1>2 DEF CreateUser, SafeInv, TypeOK
  <1>5. \A w : Known(w) => Known(w)'
    BY <1>2, <1>3 DEF Known
  <1>6. RequestShape'
    <2>1. \A q \in Request : req[q].pc \in LoginPC => req[q].user \in User
      BY DEF SafeInv, RequestShape, Shape, Known, Stored, LoginPC
    <2> QED
      BY <1>1, <1>3, <1>5, <2>1, MemAccountsAssumption
      DEF CreateUser, SafeInv, RequestShape, Shape, Stored
  <1>7. EmailIndexAgrees' /\ RecordsOwned'
    <2>1. users[u].email = NoEmail
      BY DEF CreateUser, SafeInv, RecordsOwned
    <2>2. EmailIndexAgrees'
      BY <1>2, <1>3, <2>1, MemAccountsAssumption DEF CreateUser, SafeInv, EmailIndexAgrees
    <2>3. RecordsOwned'
      BY <1>2, <1>3, <1>5 DEF CreateUser, SafeInv, RecordsOwned
    <2> QED
      BY <2>2, <2>3
  <1>8. GuessesCounted'
    BY <1>1, GuessFrame DEF CreateUser, isLocked
  <1>9. OldPasswordSessionsRevoked' /\ ClosedAccountSessionsRevoked'
    BY <1>1, <1>2, <1>3, SessionFrame DEF CreateUser
  <1> QED
    BY <1>4, <1>5, <1>6, <1>7, <1>8, <1>9 DEF SafeInv

\* VerifyUserToken activates a pending account.
LEMMA VerifySafe ==
    ASSUME SafeInv, NEW r \in Request, NEW u \in User, VerifyUserToken(r, u)
    PROVE  SafeInv'
  <1>1. req' = req /\ OthersKept(r)
    BY SameRequests DEF VerifyUserToken
  <1>2. /\ users' \in [User -> UserRecord]
        /\ \A w \in User :
               /\ users'[w].email = users[w].email
               /\ users'[w].status = "CLOSED" <=> users[w].status = "CLOSED"
               /\ users'[w].status = "none" <=> users[w].status = "none"
    <2>1. users \in [User -> UserRecord] /\ users[u] \in UserRecord
      BY DEF SafeInv, TypeOK
    <2>2. CASE users[u].status = "PENDING"
      <3> DEFINE row == [users[u] EXCEPT !.status = "ACTIVE"]
      <3>1. row \in UserRecord /\ row.status = "ACTIVE" /\ row.email = users[u].email
        BY <2>1 DEF UserRecord
      <3>2. users' = [users EXCEPT ![u] = row]
        BY <2>2 DEF VerifyUserToken
      <3> HIDE DEF row
      <3> QED
        BY <2>1, <2>2, <3>1, <3>2
    <2>3. CASE users[u].status # "PENDING"
      BY <2>1, <2>3 DEF VerifyUserToken
    <2> QED
      BY <2>2, <2>3
  <1>3. \A w : Known(w) => Known(w)'
    BY <1>2 DEF Known
  <1>4. TypeOK'
    BY <1>2 DEF VerifyUserToken, SafeInv, TypeOK
  <1>5. RequestShape'
    BY <1>1, <1>3, SameRequests DEF VerifyUserToken, Stored
  <1>6. EmailIndexAgrees' /\ RecordsOwned'
    BY <1>2, <1>3 DEF VerifyUserToken, SafeInv, EmailIndexAgrees, RecordsOwned
  <1>7. GuessesCounted'
    BY <1>1, GuessFrame DEF VerifyUserToken, isLocked
  <1>8. OldPasswordSessionsRevoked' /\ ClosedAccountSessionsRevoked'
    BY <1>1, <1>2, SessionFrame DEF VerifyUserToken
  <1> QED
    BY <1>4, <1>5, <1>6, <1>7, <1>8 DEF SafeInv

\* UpdateUserEmail moves the index entry with the account; logins under way that
\* were found by the old e-mail are overtaken.
LEMMA UpdateSafe ==
    ASSUME SafeInv, NEW r \in Request, NEW e \in Email, UpdateUserEmail(r, e)
    PROVE  SafeInv'
  <1>0. PICK u \in User : u = req[r].user /\ Known(u)
    BY DEF UpdateUserEmail, SafeInv, RequestShape, Shape, Known, Stored
  <1>1. /\ req[r].pc = "authed" /\ usersByEmail[e] \in {NoUser, u}
        /\ req' = Moved(r, u, e)
        /\ users' = [users EXCEPT ![u].email = e]
        /\ usersByEmail' = [usersByEmail EXCEPT ![users[u].email] = NoUser, ![e] = u]
        /\ UNCHANGED <<verification, lockouts, resets, sessions, inLock, uses>>
    BY <1>0 DEF UpdateUserEmail
  <1>2. /\ req'[r] = Idle /\ req' \in [Request -> RequestState]
        /\ OthersKept(r)
        /\ \A q \in Request : q # r /\ req[q].user = u /\ req[q].email \notin {e, NoEmail} =>
               req'[q].moved
    <2>1. ASSUME NEW q \in Request
          PROVE  /\ req'[q] \in RequestState
                 /\ q = r => req'[q] = Idle
                 /\ q # r => /\ req'[q].pc = req[q].pc /\ req'[q].user = req[q].user
                             /\ req'[q].email = req[q].email /\ req'[q].tok = req[q].tok
                             /\ req[q].moved => req'[q].moved
                             /\ req[q].user = u /\ req[q].email \notin {e, NoEmail} =>
                                    req'[q].moved
      <3> DEFINE over == [req[q] EXCEPT !.moved = TRUE]
      <3>1. req[q] \in RequestState
        BY DEF SafeInv, TypeOK
      <3>2. /\ over \in RequestState /\ over.pc = req[q].pc /\ over.user = req[q].user
            /\ over.email = req[q].email /\ over.tok = req[q].tok /\ over.moved
        BY <3>1 DEF RequestState
      <3>3. req'[q] = IF q = r THEN Idle
                      ELSE IF req[q].user = u /\ req[q].email \notin {e, NoEmail} THEN over
                      ELSE req[q]
        BY <1>1 DEF Moved
      <3> HIDE DEF over
      <3> QED
        BY <3>1, <3>2, <3>3, IdleFacts
    <2>2. req' = [q \in Request |-> req'[q]]
      BY <1>1 DEF Moved
    <2>3. req' \in [Request -> RequestState]
      BY <2>1, <2>2
    <2> QED
      BY <2>1, <2>3 DEF OthersKept
  <1>3. /\ users' \in [User -> UserRecord]
        /\ \A w \in User : /\ users'[w].status = users[w].status
                           /\ users'[w].email = IF w = u THEN e ELSE users[w].email
    <2>1. users \in [User -> UserRecord] /\ users[u] \in UserRecord
      BY DEF SafeInv, TypeOK
    <2> DEFINE row == [users[u] EXCEPT !.email = e]
    <2>2. row \in UserRecord /\ row.email = e /\ row.status = users[u].status
      BY <2>1 DEF UserRecord
    <2>3. users' = [users EXCEPT ![u] = row]
      BY <1>1
    <2> HIDE DEF row
    <2> QED
      BY <2>1, <2>2, <2>3
  <1>4. /\ usersByEmail' \in [Email -> User \cup {NoUser}]
        /\ \A f \in Email : usersByEmail'[f] = IF f = e THEN u
                                               ELSE IF f = users[u].email THEN NoUser
                                               ELSE usersByEmail[f]
    BY <1>1 DEF SafeInv, TypeOK
  <1>5. \A w : Known(w) => Known(w)'
    BY <1>3 DEF Known
  <1>6. TypeOK'
    BY <1>1, <1>2, <1>3, <1>4 DEF SafeInv, TypeOK
  <1>7. RequestShape'
    <2> SUFFICES ASSUME NEW q \in Request PROVE Shape(req[q])'
      BY DEF RequestShape
    <2>1. CASE q = r
      BY <1>2, <2>1, IdleFacts DEF Shape, LoginPC, Stored
    <2>2. CASE q # r
      <3>1. /\ req'[q].pc = req[q].pc /\ req'[q].user = req[q].user
            /\ req'[q].email = req[q].email /\ req'[q].tok = req[q].tok
            /\ req[q].moved => req'[q].moved
        BY <1>2, <2>2 DEF OthersKept
      <3>2. Shape(req[q])
        BY DEF SafeInv, RequestShape
      <3>3. ASSUME req[q].pc \in LoginPC
            PROVE  usersByEmail'[req[q].email] = req[q].user \/ req'[q].moved
        <4>1. req[q].email \in Email /\ req[q].user \in User
          BY <3>2, <3>3 DEF Shape, Known, Stored, LoginPC
        <4>2. CASE req[q].moved
          BY <3>1, <4>2
        <4>3. CASE usersByEmail[req[q].email] = req[q].user /\ req[q].user = u
          BY <1>2, <1>4, <2>2, <4>1, <4>3, MemAccountsAssumption
        <4>4. CASE usersByEmail[req[q].email] = req[q].user /\ req[q].user # u
          <5>1. req[q].email # e
            BY <1>1, <4>1, <4>4, MemAccountsAssumption
          <5>2. req[q].email # users[u].email
            BY <4>1, <4>4 DEF SafeInv, EmailIndexAgrees
          <5> QED
            BY <1>4, <4>1, <4>4, <5>1, <5>2
        <4> QED
          BY <3>2, <3>3, <4>2, <4>3, <4>4 DEF Shape, Stored
      <3> QED
        BY <1>1, <1>5, <3>1, <3>2, <3>3 DEF Shape, Stored
    <2> QED
      BY <2>1, <2>2
  <1>8. EmailIndexAgrees'
    <2> SUFFICES ASSUME NEW w \in User, NEW f \in Email
                 PROVE  usersByEmail'[f] = w <=> users'[w].email = f
      BY DEF EmailIndexAgrees
    <2>1. usersByEmail[f] = w <=> users[w].email = f
      BY DEF SafeInv, EmailIndexAgrees
    <2>2. usersByEmail[f] = u <=> users[u].email = f
      BY DEF SafeInv, EmailIndexAgrees
    <2>3. usersByEmail[e] = w <=> users[w].email = e
      BY DEF SafeInv, EmailIndexAgrees
    <2> QED
      BY <1>1, <1>3, <1>4, <2>1, <2>2, <2>3, MemAccountsAssumption
  <1>9. RecordsOwned'
    BY <1>0, <1>1, <1>3, <1>5 DEF SafeInv, RecordsOwned, Known
  <1>10. GuessesCounted'
    BY <1>1, <1>2, IdleFacts, GuessFrame DEF isLocked, GuessPC
  <1>11. OldPasswordSessionsRevoked' /\ ClosedAccountSessionsRevoked'
    BY <1>1, <1>2, <1>3, SessionFrame
  <1> QED
    BY <1>6, <1>7, <1>8, <1>9, <1>10, <1>11 DEF SafeInv

\* A lockout that is reset: no failure counts as one in the lock any more.
LEMMA ResetLockoutFacts ==
    ASSUME SafeInv, NEW u \in User, resetLockout(u)
    PROVE  /\ lockouts' \in [User -> [FailCount : 0..MaxFailures, left : 0..LockoutCap]]
           /\ inLock' \in [User -> 0..Cardinality(Request)]
           /\ \A w \in User : inLock'[w] \in {0, inLock[w]} /\ (isLocked(w)' => isLocked(w))
  <1>1. NoLockout \in [FailCount : 0..MaxFailures, left : 0..LockoutCap] /\ NoLockout.left = 0
    BY MemAccountsAssumption DEF NoLockout
  <1>2. 0 \in 0..Cardinality(Request)
    BY RequestSets
  <1>3. lockouts' = [lockouts EXCEPT ![u] = NoLockout] /\ inLock' = [inLock EXCEPT ![u] = 0]
    BY DEF resetLockout
  <1>4. \A w \in User : lockouts'[w] = IF w = u THEN NoLockout ELSE lockouts[w]
    BY <1>3 DEF SafeInv, TypeOK
  <1>5. \A w \in User : isLocked(w)' => isLocked(w)
    BY <1>1, <1>4 DEF isLocked
  <1> QED
    BY <1>1, <1>2, <1>3, <1>5 DEF SafeInv, TypeOK

\* A step that changes the lockouts only, as time or a reset does.
LEMMA LockoutStep ==
    ASSUME SafeInv,
           lockouts' \in [User -> [FailCount : 0..MaxFailures, left : 0..LockoutCap]],
           inLock' \in [User -> 0..Cardinality(Request)],
           \A w \in User : inLock'[w] \in {0, inLock[w]} /\ (isLocked(w)' => isLocked(w)),
           UNCHANGED <<users, usersByEmail, verification, resets, sessions, req, uses>>
    PROVE  SafeInv'
  <1>1. PICK r \in Request : TRUE
    BY MemAccountsAssumption
  <1>2. OthersKept(r) /\ req'[r] = req[r]
    BY SameRequests
  <1>3. TypeOK'
    BY DEF SafeInv, TypeOK
  <1>4. RequestShape'
    BY SameRequests DEF Known, Stored
  <1>5. RecordsOwned' /\ EmailIndexAgrees'
    BY DEF SafeInv, RecordsOwned, EmailIndexAgrees, Known
  <1>6. GuessesCounted'
    BY <1>2, GuessFrame
  <1>7. OldPasswordSessionsRevoked' /\ ClosedAccountSessionsRevoked'
    BY <1>2, SessionFrame
  <1> QED
    BY <1>3, <1>4, <1>5, <1>6, <1>7 DEF SafeInv

\* UnlockUser, and time passing.
LEMMA UnlockTickSafe ==
    ASSUME SafeInv, Tick \/ \E r \in Request, u \in User : UnlockUser(r, u)
    PROVE  SafeInv'
  <1>1. ASSUME NEW r \in Request, NEW u \in User, UnlockUser(r, u) PROVE SafeInv'
    <2>1. resetLockout(u)
      BY <1>1 DEF UnlockUser
    <2> QED
      BY <1>1, <2>1, ResetLockoutFacts, LockoutStep DEF UnlockUser
  <1>2. CASE Tick
    <2>1. ASSUME NEW u \in User
          PROVE  /\ lockouts'[u] \in [FailCount : 0..MaxFailures, left : 0..LockoutCap]
                 /\ isLocked(u)' => isLocked(u)
      <3> DEFINE left == IF lockouts[u].left > 0 THEN lockouts[u].left - 1 ELSE 0
                 row == [lockouts[u] EXCEPT !.left = left]
      <3>1. lockouts[u] \in [FailCount : 0..MaxFailures, left : 0..LockoutCap]
        BY DEF SafeInv, TypeOK
      <3>2. left \in 0..LockoutCap /\ (left > 0 => lockouts[u].left > 0)
        BY <3>1, MemAccountsAssumption
      <3>3. lockouts'[u] = row
        BY <1>2 DEF Tick
      <3> HIDE DEF left
      <3>4. row \in [FailCount : 0..MaxFailures, left : 0..LockoutCap] /\ row.left = left
        BY <3>1, <3>2
      <3> QED
        BY <3>2, <3>3, <3>4 DEF isLocked
    <2>2. lockouts' \in [User -> [FailCount : 0..MaxFailures, left : 0..LockoutCap]]
      BY <1>2, <2>1 DEF Tick
    <2>3. inLock' \in [User -> 0..Cardinality(Request)] /\ inLock' = inLock
      BY <1>2 DEF Tick, SafeInv, TypeOK
    <2> QED
      BY <1>2, <2>1, <2>2, <2>3, LockoutStep DEF Tick
  <1> QED
    BY <1>1, <1>2

\* A step that moves one request out of or within a login or a reset, and
\* changes the lockouts: everything but the guesses.
LEMMA LockoutRequestStep ==
    ASSUME SafeInv, NEW r \in Request, NEW state \in RequestState,
           req' = [req EXCEPT ![r] = state], Shape(state),
           req[r].pc \notin {"markUsed", "revokeAll"},
           state.pc \notin {"markUsed", "setPassword"},
           lockouts' \in [User -> [FailCount : 0..MaxFailures, left : 0..LockoutCap]],
           inLock' \in [User -> 0..Cardinality(Request)],
           GuessesCounted',
           UNCHANGED <<users, usersByEmail, verification, resets, sessions, uses>>
    PROVE  SafeInv'
  <1>1. OthersKept(r) /\ req'[r] = state /\ req' \in [Request -> RequestState]
    BY StepFacts DEF SafeInv
  <1>2. TypeOK'
    BY <1>1 DEF SafeInv, TypeOK
  <1>3. RequestShape'
    <2>1. Shape(req[r])'
      BY <1>1 DEF Shape, Known, Stored
    <2> QED
      BY <1>1, <2>1, ShapeFrame DEF Known, Stored
  <1>4. RecordsOwned' /\ EmailIndexAgrees'
    BY DEF SafeInv, RecordsOwned, EmailIndexAgrees, Known
  <1>6. OldPasswordSessionsRevoked' /\ ClosedAccountSessionsRevoked'
    BY <1>1, SessionFrame
  <1> QED
    BY <1>2, <1>3, <1>4, <1>6 DEF SafeInv

\* resetLockout at the end of a login or of a confirmation.
LEMMA ClearSafe ==
    ASSUME SafeInv, NEW r \in Request, LoginClear(r) \/ ConfirmUnlock(r)
    PROVE  SafeInv'
  <1>1. PICK u \in User : u = req[r].user
    BY DEF LoginClear, ConfirmUnlock, SafeInv, RequestShape, Shape, Known, Stored
  <1>2. resetLockout(u) /\ req[r].pc \in {"clear", "unlock"}
    BY <1>1 DEF LoginClear, ConfirmUnlock
  <1>3. PICK state \in RequestState :
            req' = [req EXCEPT ![r] = state] /\ Shape(state) /\ state.pc \in {"idle", "insert"}
    <2>1. CASE LoginClear(r)
      <3>1. PICK state \in RequestState :
                /\ req' = [req EXCEPT ![r] = state]
                /\ state.pc = "insert" /\ state.user = req[r].user /\ state.email = req[r].email
                /\ state.tok = req[r].tok /\ state.moved = req[r].moved
        BY <2>1, GotoFacts DEF LoginClear, SafeInv, PC
      <3>2. Shape(state)
        BY <2>1, <3>1 DEF LoginClear, SafeInv, RequestShape, Shape, LoginPC, Stored
      <3> QED
        BY <3>1, <3>2
    <2>2. CASE ConfirmUnlock(r)
      BY <2>2, IdleFacts DEF ConfirmUnlock, Done
    <2> QED
      BY <2>1, <2>2
  <1>4. OthersKept(r) /\ req'[r] = state
    BY <1>3, StepFacts DEF SafeInv
  <1>5. /\ lockouts' \in [User -> [FailCount : 0..MaxFailures, left : 0..LockoutCap]]
        /\ inLock' \in [User -> 0..Cardinality(Request)]
        /\ \A w \in User : inLock'[w] \in {0, inLock[w]} /\ (isLocked(w)' => isLocked(w))
    BY <1>2, ResetLockoutFacts
  <1>6. GuessesCounted'
    BY <1>3, <1>4, <1>5, GuessFrame DEF GuessPC
  <1>7. UNCHANGED <<users, usersByEmail, verification, resets, sessions, uses>>
    BY DEF LoginClear, ConfirmUnlock
  <1> QED
    BY <1>2, <1>3, <1>5, <1>6, <1>7, LockoutRequestStep

\* recordFailure: a failure counted while the account is locked uses up one of
\* the logins that had passed the check before.
LEMMA FailSafe ==
    ASSUME SafeInv, NEW r \in Request, LoginFail(r)
    PROVE  SafeInv'
  <1>1. PICK u \in User : u = req[r].user
    BY DEF LoginFail, SafeInv, RequestShape, Shape, Known, Stored
  <1>2. recordFailure(u) /\ req[r].pc \in {"fail", "failMFA"}
    BY <1>1 DEF LoginFail
  <1>3. PICK state \in RequestState :
            req' = [req EXCEPT ![r] = state] /\ Shape(state) /\ state.pc \in {"idle", "relock"}
    <2>1. CASE Goto(r, "relock")
      <3>1. PICK state \in RequestState :
                /\ req' = [req EXCEPT ![r] = state]
                /\ state.pc = "relock" /\ state.user = req[r].user /\ state.email = req[r].email
                /\ state.tok = req[r].tok /\ state.moved = req[r].moved
        BY <2>1, GotoFacts DEF SafeInv, PC
      <3>2. Shape(state)
        BY <1>2, <3>1 DEF SafeInv, RequestShape, Shape, LoginPC, Stored
      <3> QED
        BY <3>1, <3>2
    <2>2. CASE Done(r)
      BY <2>2, IdleFacts DEF Done
    <2> QED
      BY <2>1, <2>2 DEF LoginFail
  <1>4. OthersKept(r) /\ req'[r] = state
    BY <1>3, StepFacts DEF SafeInv
  <1>5. /\ lockouts' \in [User -> [FailCount : 0..MaxFailures, left : 0..LockoutCap]]
        /\ \A w \in User : w # u => lockouts'[w] = lockouts[w]
    <2>1. PICK n \in 0..MaxFailures :
              /\ n = IF lockouts[u].FailCount < MaxFailures
                        THEN lockouts[u].FailCount + 1 ELSE MaxFailures
      BY MemAccountsAssumption DEF SafeInv, TypeOK
    <2>2. PICK left \in 0..LockoutCap :
              left = IF n >= LockoutThreshold THEN Backoff(n) ELSE lockouts[u].left
      <3>1. n \in Nat
        BY <2>1
      <3> QED
        BY <3>1, BackoffType DEF SafeInv, TypeOK
    <2>3. lockouts' = [lockouts EXCEPT ![u] = [FailCount |-> n, left |-> left]]
      BY <1>2, <2>1, <2>2 DEF recordFailure
    <2> QED
      BY <2>3 DEF SafeInv, TypeOK
  <1>6. inLock' = [inLock EXCEPT ![u] =
               IF ~isLocked(u) THEN 0
               ELSE IF inLock[u] < Cardinality(Request) THEN inLock[u] + 1 ELSE inLock[u]]
    BY <1>2 DEF recordFailure
  <1>7. inLock' \in [User -> 0..Cardinality(Request)]
    BY <1>6, RequestSets DEF SafeInv, TypeOK
  <1>8. GuessesCounted'
    <2> SUFFICES ASSUME NEW w \in User
                 PROVE  /\ inLock'[w] < Cardinality(Request)
                        /\ isLocked(w)' =>
                               inLock'[w] + Cardinality(Guessing(w)') < Cardinality(Request)
      BY DEF GuessesCounted
    <2>1. /\ Guessing(w) \subseteq Request /\ Guessing(w)' \subseteq Request
          /\ Cardinality(Guessing(w)) \in Nat /\ Cardinality(Guessing(w)') \in Nat
      BY RequestSets DEF Guessing
    <2>2. Guessing(w)' = Guessing(w) \ {r} /\ (w = u => r \in Guessing(w))
      BY <1>1, <1>2, <1>3, <1>4 DEF Guessing, OthersKept
    <2>3. /\ inLock[w] \in Nat /\ inLock[w] < Cardinality(Request)
          /\ isLocked(w) => inLock[w] + Cardinality(Guessing(w)) < Cardinality(Request)
      BY RequestSets DEF SafeInv, TypeOK, GuessesCounted
    <2>4. CASE w # u
      <3>1. Cardinality(Guessing(w)') <= Cardinality(Guessing(w))
        BY <2>1, <2>2, SmallerSet
      <3>2. inLock'[w] = inLock[w] /\ (isLocked(w)' <=> isLocked(w))
        BY <1>5, <1>6, <2>4 DEF isLocked, SafeInv, TypeOK
      <3> QED
        BY <2>1, <2>3, <3>1, <3>2, RequestSets
    <2>5. CASE w = u /\ ~isLocked(u)
      <3>1. inLock'[w] = 0
        BY <1>6, <2>5 DEF SafeInv, TypeOK
      <3>2. Cardinality(Guessing(w)') <= Cardinality(Request \ {r})
        BY <2>1, <2>2, SmallerSet
      <3>3. Cardinality(Request \ {r}) = Cardinality(Request) - 1
        BY WithoutMember
      <3> QED
        BY <2>1, <3>1, <3>2, <3>3, RequestSets
    <2>6. CASE w = u /\ isLocked(u)
      <3>1. inLock'[w] = inLock[w] + 1
        BY <1>6, <2>3, <2>6 DEF SafeInv, TypeOK
      <3>2. Cardinality(Guessing(w)') = Cardinality(Guessing(w)) - 1
        BY <2>1, <2>2, <2>6, WithoutMember
      <3> QED
        BY <2>1, <2>3, <2>6, <3>1, <3>2, RequestSets
    <2> QED
      BY <2>4, <2>5, <2>6
  <1>9. UNCHANGED <<users, usersByEmail, verification, resets, sessions, uses>>
    BY DEF LoginFail
  <1> QED
    BY <1>2, <1>3, <1>5, <1>7, <1>8, <1>9, LockoutRequestStep

\* Revoking an account's sessions leaves those of the others alone.
LEMMA RevokeFacts ==
    ASSUME SafeInv, NEW u, Revoke(u)
    PROVE  /\ sessions' \in [Session -> SessionRecord \cup {NoSession}]
           /\ \A s \in Session : sessions'[s] # NoSession =>
                  sessions'[s] = sessions[s] /\ sessions[s].user # u
  BY DEF Revoke, Open, SafeInv, TypeOK

\* SoftDeleteUser closes the account and its sessions in one critical section.
LEMMA CloseSafe ==
    ASSUME SafeInv, NEW r \in Request, SoftDeleteUser(r)
    PROVE  SafeInv'
  <1>0. PICK u \in User : u = req[r].user /\ Known(u)
    BY DEF SoftDeleteUser, SafeInv, RequestShape, Shape, Known, Stored
  <1>1. PICK state \in RequestState :
            state = Idle /\ req' = [req EXCEPT ![r] = state] /\ state.pc = "idle" /\ Shape(state)
    BY IdleFacts DEF SoftDeleteUser, Done
  <1>2. OthersKept(r) /\ req'[r] = state /\ req' \in [Request -> RequestState]
    BY <1>1, StepFacts DEF SafeInv
  <1>3. /\ users' \in [User -> UserRecord]
        /\ \A w \in User : /\ users'[w].email = users[w].email
                           /\ users'[w].status = IF w = u THEN "CLOSED" ELSE users[w].status
    <2>1. users \in [User -> UserRecord] /\ users[u] \in UserRecord
      BY DEF SafeInv, TypeOK
    <2> DEFINE row == [users[u] EXCEPT !.status = "CLOSED"]
    <2>2. row \in UserRecord /\ row.email = users[u].email /\ row.status = "CLOSED"
      BY <2>1 DEF UserRecord
    <2>3. users' = [users EXCEPT ![u] = row]
      BY <1>0 DEF SoftDeleteUser
    <2> HIDE DEF row
    <2> QED
      BY <2>1, <2>2, <2>3
  <1>4. /\ sessions' \in [Session -> SessionRecord \cup {NoSession}]
        /\ \A s \in Session : sessions'[s] # NoSession =>
               sessions'[s] = sessions[s] /\ sessions[s].user # u
    <2>1. Revoke(u)
      BY <1>0 DEF SoftDeleteUser
    <2> QED
      BY <2>1, RevokeFacts
  <1>5. \A w : Known(w) => Known(w)'
    BY <1>3 DEF Known
  <1>6. TypeOK'
    BY <1>2, <1>3, <1>4 DEF SoftDeleteUser, SafeInv, TypeOK
  <1>7. RequestShape'
    <2>1. Shape(req[r])'
      BY <1>1, <1>2 DEF Shape, LoginPC, Stored
    <2> QED
      BY <1>2, <1>5, <2>1, ShapeFrame DEF SoftDeleteUser, Stored
  <1>8. RecordsOwned' /\ EmailIndexAgrees'
    BY <1>3, <1>4, <1>5 DEF SoftDeleteUser, SafeInv, RecordsOwned, EmailIndexAgrees
  <1>9. GuessesCounted'
    BY <1>1, <1>2, GuessFrame DEF SoftDeleteUser, isLocked, GuessPC
  <1>10. OldPasswordSessionsRevoked'
    <2>1. \A w : ResetUnderWay(w) => ResetUnderWay(w)'
      BY <1>2 DEF SoftDeleteUser, ResetUnderWay, OthersKept
    <2> QED
      BY <1>4, <2>1 DEF SafeInv, OldPasswordSessionsRevoked
  <1>11. ClosedAccountSessionsRevoked'
    <2>1. \A s \in Session : sessions[s] # NoSession => sessions[s].user \in User
      BY DEF SafeInv, RecordsOwned, Known
    <2> QED
      BY <1>3, <1>4, <2>1 DEF SafeInv, ClosedAccountSessionsRevoked
  <1> QED
    BY <1>6, <1>7, <1>8, <1>9, <1>10, <1>11 DEF SafeInv

\* issueSession stores a session marked with what changed since the checks.
LEMMA InsertSafe ==
    ASSUME SafeInv, NEW r \in Request, NEW s \in Session, LoginInsert(r, s)
    PROVE  SafeInv'
  <1>0. PICK u \in User : u = req[r].user /\ Known(u)
    BY DEF LoginInsert, SafeInv, RequestShape, Shape, Known, Stored
  <1>1. PICK state \in RequestState :
            state = Idle /\ req' = [req EXCEPT ![r] = state] /\ state.pc = "idle" /\ Shape(state)
    BY IdleFacts DEF LoginInsert, Done
  <1>2. OthersKept(r) /\ req'[r] = state /\ req' \in [Request -> RequestState]
    BY <1>1, StepFacts DEF SafeInv
  <1>3. PICK row \in SessionRecord :
            /\ sessions' = [sessions EXCEPT ![s] = row]
            /\ row.user = u /\ row.old = row.lateChange
            /\ row.lateClose = (users[u].status = "CLOSED")
    <2> DEFINE row == [user |-> u, old |-> req[r].old, lateChange |-> req[r].old,
                       lateClose |-> users[u].status = "CLOSED"]
    <2>1. req[r].old \in BOOLEAN
      BY DEF SafeInv, TypeOK, RequestState
    <2>2. row \in SessionRecord
      BY <2>1 DEF SessionRecord
    <2>3. sessions' = [sessions EXCEPT ![s] = row]
      BY <1>0 DEF LoginInsert
    <2> QED
      BY <2>2, <2>3
  <1>4. \A t \in Session : sessions'[t] = IF t = s THEN row ELSE sessions[t]
    BY <1>3 DEF SafeInv, TypeOK
  <1>5. TypeOK'
    BY <1>2, <1>3 DEF LoginInsert, SafeInv, TypeOK
  <1>6. RequestShape'
    <2>1. Shape(req[r])'
      BY <1>1, <1>2 DEF Shape, LoginPC, Stored
    <2> QED
      BY <1>2, <2>1, ShapeFrame DEF LoginInsert, Known, Stored
  <1>7. RecordsOwned' /\ EmailIndexAgrees'
    BY <1>0, <1>3, <1>4 DEF LoginInsert, SafeInv, RecordsOwned, EmailIndexAgrees, Known
  <1>8. GuessesCounted'
    BY <1>1, <1>2, GuessFrame DEF LoginInsert, isLocked, GuessPC
  <1>9. OldPasswordSessionsRevoked'
    <2>1. \A w : ResetUnderWay(w) => ResetUnderWay(w)'
      BY <1>2 DEF LoginInsert, ResetUnderWay, OthersKept
    <2> QED
      BY <1>3, <1>4, <2>1 DEF SafeInv, OldPasswordSessionsRevoked
  <1>10. ClosedAccountSessionsRevoked'
    BY <1>3, <1>4 DEF LoginInsert, SafeInv, ClosedAccountSessionsRevoked
  <1> QED
    BY <1>5, <1>6, <1>7, <1>8, <1>9, <1>10 DEF SafeInv

ResetRecord == [state : {"none", "valid", "expired", "used"}, user : User \cup {NoUser}]

\* PasswordResetInit stores a token; a token expires.
LEMMA TokenSafe ==
    ASSUME SafeInv, NEW k \in ResetToken, ResetExpires(k) \/ \E r \in Request : ResetInsert(r, k)
    PROVE  SafeInv'
  <1>1. PICK r \in Request, row \in ResetRecord :
            /\ OthersKept(r) /\ req' \in [Request -> RequestState]
            /\ resets' = [resets EXCEPT ![k] = row]
            /\ resets[k].state # "used" /\ row.state \notin {"used", "none"}
            /\ Known(row.user)
            /\ req' = req \/ (req'[r] = Idle /\ req[r].pc = "resetInsert")
    <2>1. CASE ResetExpires(k)
      <3>1. PICK r \in Request : TRUE
        BY MemAccountsAssumption
      <3> DEFINE row == [resets[k] EXCEPT !.state = "expired"]
      <3>2. resets[k] \in ResetRecord /\ resets[k].state = "valid" /\ Known(resets[k].user)
        BY <2>1 DEF ResetExpires, SafeInv, TypeOK, ResetRecord, RecordsOwned
      <3>3. row \in ResetRecord /\ row.state = "expired" /\ row.user = resets[k].user
        BY <3>2 DEF ResetRecord
      <3>4. resets' = [resets EXCEPT ![k] = row]
        BY <2>1 DEF ResetExpires
      <3>5. req' = req /\ OthersKept(r) /\ req' \in [Request -> RequestState]
        BY <2>1, SameRequests DEF ResetExpires
      <3> QED
        BY <3>2, <3>3, <3>4, <3>5
    <2>2. ASSUME NEW r \in Request, ResetInsert(r, k)
          PROVE  \E row \in ResetRecord :
                     /\ OthersKept(r) /\ req' \in [Request -> RequestState]
                     /\ resets' = [resets EXCEPT ![k] = row]
                     /\ resets[k].state # "used" /\ row.state \notin {"used", "none"}
                     /\ Known(row.user)
                     /\ req' = req \/ (req'[r] = Idle /\ req[r].pc = "resetInsert")
      <3>1. PICK u \in User : u = req[r].user /\ Known(u)
        BY <2>2 DEF ResetInsert, SafeInv, RequestShape, Shape, Known, Stored
      <3> DEFINE row == [state |-> "valid", user |-> u]
      <3>2. row \in ResetRecord
        BY DEF ResetRecord
      <3>3. resets' = [resets EXCEPT ![k] = row] /\ resets[k].state = "none"
        BY <2>2, <3>1 DEF ResetInsert, NoReset
      <3>4. PICK state \in RequestState : state = Idle /\ req' = [req EXCEPT ![r] = state]
        BY <2>2, IdleFacts DEF ResetInsert, Done
      <3>5. OthersKept(r) /\ req'[r] = Idle /\ req' \in [Request -> RequestState]
        BY <3>4, StepFacts DEF SafeInv
      <3> QED
        BY <2>2, <3>1, <3>2, <3>3, <3>5 DEF ResetInsert
    <2> QED
      BY <2>1, <2>2
  <1>2. UNCHANGED <<users, usersByEmail, verification, lockouts, sessions, inLock, uses>>
    BY DEF ResetExpires, ResetInsert
  <1>3. \A j \in ResetToken : resets'[j] = IF j = k THEN row ELSE resets[j]
    BY <1>1 DEF SafeInv, TypeOK
  <1>4. TypeOK'
    BY <1>1, <1>2 DEF SafeInv, TypeOK, ResetRecord
  <1>5. RequestShape'
    <2>0. \A j : Stored(j) => Stored(j)'
      BY <1>1, <1>3 DEF Stored
    <2>1. CASE req' = req
      BY <1>2, <2>0, <2>1, SameRequests DEF Known
    <2>2. CASE req'[r] = Idle
      <3>1. Shape(req[r])'
        BY <2>2, IdleFacts DEF Shape, LoginPC, Stored
      <3> QED
        BY <1>1, <1>2, <2>0, <3>1, ShapeFrame DEF Known
    <2> QED
      BY <1>1, <2>1, <2>2
  <1>6. RecordsOwned' /\ EmailIndexAgrees'
    BY <1>1, <1>2, <1>3 DEF SafeInv, RecordsOwned, EmailIndexAgrees, Known
  <1>7. GuessesCounted'
    BY <1>1, <1>2, IdleFacts, GuessFrame DEF isLocked, GuessPC
  <1>9. OldPasswordSessionsRevoked' /\ ClosedAccountSessionsRevoked'
    BY <1>1, <1>2, IdleFacts, SessionFrame
  <1> QED
    BY <1>4, <1>5, <1>6, <1>7, <1>9 DEF SafeInv

\* SetUserPassword: sessions and logins under way are outdated while it goes on.
LEMMA SetPasswordSafe ==
    ASSUME SafeInv, NEW r \in Request, ConfirmSetPassword(r)
    PROVE  SafeInv'
  <1>0. PICK u \in User, k \in ResetToken :
            u = req[r].user /\ Known(u) /\ k = req[r].tok /\ Stored(k)
    BY DEF ConfirmSetPassword, SafeInv, RequestShape, Shape, Known, Stored
  <1>1. /\ req[r].pc = "setPassword" /\ Outdated(u, r)
        /\ uses' = [uses EXCEPT ![k] = IF uses[k] < 2 THEN uses[k] + 1 ELSE uses[k]]
        /\ UNCHANGED <<users, usersByEmail, verification, lockouts, resets, inLock>>
    BY <1>0 DEF ConfirmSetPassword
  <1>2. /\ req' \in [Request -> RequestState] /\ OthersKept(r)
        /\ req'[r].pc = "markUsed" /\ req'[r].user = u /\ req'[r].tok = k
    <2>1. ASSUME NEW q \in Request
          PROVE  /\ req'[q] \in RequestState
                 /\ req'[q].pc = IF q = r THEN "markUsed" ELSE req[q].pc
                 /\ req'[q].user = req[q].user /\ req'[q].tok = req[q].tok
                 /\ req'[q].email = req[q].email /\ req'[q].moved = req[q].moved
      <3> DEFINE mark == [req[q] EXCEPT !.pc = "markUsed"]
                 aged == [req[q] EXCEPT !.old = TRUE]
      <3>1. req[q] \in RequestState
        BY DEF SafeInv, TypeOK
      <3>2. /\ mark \in RequestState /\ mark.pc = "markUsed" /\ mark.user = req[q].user
            /\ mark.tok = req[q].tok /\ mark.email = req[q].email /\ mark.moved = req[q].moved
        BY <3>1 DEF RequestState, PC
      <3>3. /\ aged \in RequestState /\ aged.pc = req[q].pc /\ aged.user = req[q].user
            /\ aged.tok = req[q].tok /\ aged.email = req[q].email /\ aged.moved = req[q].moved
        BY <3>1 DEF RequestState
      <3>4. req'[q] = IF q = r THEN mark
                      ELSE IF req[q].user = u /\ req[q].pc \in {"mfa", "clear", "insert"}
                              THEN aged
                      ELSE req[q]
        BY <1>1 DEF Outdated
      <3> HIDE DEF mark, aged
      <3> QED
        BY <3>1, <3>2, <3>3, <3>4
    <2>2. req' = [q \in Request |-> req'[q]]
      BY <1>1 DEF Outdated
    <2>3. req' \in [Request -> RequestState]
      BY <2>1, <2>2
    <2> QED
      BY <1>0, <2>1, <2>3 DEF OthersKept
  <1>3. /\ sessions' \in [Session -> SessionRecord \cup {NoSession}]
        /\ \A s \in Session : sessions'[s] # NoSession =>
               /\ sessions[s] # NoSession /\ sessions'[s].user = sessions[s].user
               /\ sessions'[s].lateClose = sessions[s].lateClose
               /\ sessions[s].user # u => sessions'[s] = sessions[s]
    <2>1. ASSUME NEW s \in Session
          PROVE  /\ sessions'[s] \in SessionRecord \cup {NoSession}
                 /\ sessions'[s] # NoSession =>
                        /\ sessions[s] # NoSession /\ sessions'[s].user = sessions[s].user
                        /\ sessions'[s].lateClose = sessions[s].lateClose
                        /\ sessions[s].user # u => sessions'[s] = sessions[s]
      <3> DEFINE row == [sessions[s] EXCEPT !.old = TRUE]
      <3>1. sessions[s] \in SessionRecord \cup {NoSession}
        BY DEF SafeInv, TypeOK
      <3>2. sessions'[s] = IF sessions[s] # NoSession /\ sessions[s].user = u
                              THEN row ELSE sessions[s]
        BY <1>1 DEF Outdated, Open
      <3>3. sessions[s] # NoSession =>
                /\ row \in SessionRecord /\ row.user = sessions[s].user
                /\ row.lateClose = sessions[s].lateClose
        BY <3>1 DEF SessionRecord
      <3> HIDE DEF row
      <3> QED
        BY <3>1, <3>2, <3>3
    <2>2. sessions' = [s \in Session |-> sessions'[s]]
      BY <1>1 DEF Outdated
    <2>3. sessions' \in [Session -> SessionRecord \cup {NoSession}]
      BY <2>1, <2>2
    <2> QED
      BY <2>1, <2>3
  <1>4. uses' \in [ResetToken -> 0..2]
    BY <1>1 DEF SafeInv, TypeOK
  <1>5. TypeOK'
    BY <1>1, <1>2, <1>3, <1>4 DEF SafeInv, TypeOK
  <1>6. RequestShape'
    <2>1. Shape(req[r])'
      BY <1>0, <1>1, <1>2 DEF Shape, LoginPC, Known, Stored
    <2> QED
      BY <1>1, <1>2, <2>1, ShapeFrame DEF Known, Stored
  <1>7. RecordsOwned' /\ EmailIndexAgrees'
    BY <1>1, <1>3 DEF SafeInv, RecordsOwned, EmailIndexAgrees, Known
  <1>8. GuessesCounted'
    BY <1>1, <1>2, GuessFrame DEF isLocked, GuessPC
  <1>9. OldPasswordSessionsRevoked'
    <2>1. \A w : ResetUnderWay(w) => ResetUnderWay(w)'
      BY <1>1, <1>2 DEF ResetUnderWay, OthersKept
    <2>2. ResetUnderWay(u)'
      BY <1>2 DEF ResetUnderWay
    <2> QED
      BY <1>3, <2>1, <2>2 DEF SafeInv, OldPasswordSessionsRevoked
  <1>10. ClosedAccountSessionsRevoked'
    BY <1>1, <1>3 DEF SafeInv, ClosedAccountSessionsRevoked
  <1> QED
    BY <1>5, <1>6, <1>7, <1>8, <1>9, <1>10 DEF SafeInv

\* UsedAt: the token is marked, and the reset goes on.
LEMMA MarkUsedSafe ==
    ASSUME SafeInv, NEW r \in Request, ConfirmMarkUsed(r)
    PROVE  SafeInv'
  <1>0. PICK k \in ResetToken : k = req[r].tok /\ Stored(k)
    BY DEF ConfirmMarkUsed, SafeInv, RequestShape, Shape, Stored
  <1>1. PICK state \in RequestState :
            /\ req' = [req EXCEPT ![r] = state]
            /\ state.pc = "revokeAll" /\ state.user = req[r].user /\ state.email = req[r].email
            /\ state.tok = req[r].tok /\ state.moved = req[r].moved
    BY GotoFacts DEF ConfirmMarkUsed, SafeInv, PC
  <1>2. OthersKept(r) /\ req'[r] = state /\ req' \in [Request -> RequestState]
    BY <1>1, StepFacts DEF SafeInv
  <1>3. PICK row \in ResetRecord :
            /\ resets' = [resets EXCEPT ![k] = row]
            /\ row.state = "used" /\ row.user = resets[k].user
    <2> DEFINE row == [resets[k] EXCEPT !.state = "used"]
    <2>1. resets[k] \in ResetRecord
      BY DEF SafeInv, TypeOK, ResetRecord
    <2>2. row \in ResetRecord /\ row.state = "used" /\ row.user = resets[k].user
      BY <2>1 DEF ResetRecord
    <2>3. resets' = [resets EXCEPT ![k] = row]
      BY <1>0 DEF ConfirmMarkUsed
    <2> QED
      BY <2>2, <2>3
  <1>4. \A j \in ResetToken : resets'[j] = IF j = k THEN row ELSE resets[j]
    BY <1>3 DEF SafeInv, TypeOK
  <1>5. UNCHANGED <<users, usersByEmail, verification, lockouts, sessions, inLock, uses>>
    BY DEF ConfirmMarkUsed
  <1>6. TypeOK'
    BY <1>2, <1>3, <1>5 DEF SafeInv, TypeOK, ResetRecord
  <1>7. RequestShape'
    <2>1. Shape(req[r])'
      BY <1>1, <1>2, <1>5 DEF ConfirmMarkUsed, SafeInv, RequestShape, Shape, LoginPC, Known, Stored
    <2>2. \A j : Stored(j) => Stored(j)'
      BY <1>3, <1>4 DEF Stored
    <2> QED
      BY <1>2, <1>5, <2>1, <2>2, ShapeFrame DEF Known
  <1>8. RecordsOwned' /\ EmailIndexAgrees'
    <2>1. Known(row.user)
      BY <1>0, <1>3 DEF SafeInv, RecordsOwned, Stored
    <2> QED
      BY <1>4, <1>5, <2>1 DEF SafeInv, RecordsOwned, EmailIndexAgrees, Known
  <1>9. GuessesCounted'
    BY <1>1, <1>2, <1>5, GuessFrame DEF isLocked, GuessPC
  <1>11. OldPasswordSessionsRevoked' /\ ClosedAccountSessionsRevoked'
    BY <1>1, <1>2, <1>5, SessionFrame
  <1> QED
    BY <1>6, <1>7, <1>8, <1>9, <1>11 DEF SafeInv

\* RevokeAllSessionsForUser: no session of the account stays open, and the
\* resets of the other accounts are still under way.
LEMMA RevokeAllSafe ==
    ASSUME SafeInv, NEW r \in Request, ConfirmRevokeAll(r)
    PROVE  SafeInv'
  <1>0. PICK u \in User : u = req[r].user
    BY DEF ConfirmRevokeAll, SafeInv, RequestShape, Shape, Known, Stored
  <1>1. PICK state \in RequestState :
            /\ req' = [req EXCEPT ![r] = state]
            /\ state.pc = "unlock" /\ state.user = req[r].user /\ state.email = req[r].email
            /\ state.tok = req[r].tok /\ state.moved = req[r].moved
    BY GotoFacts DEF ConfirmRevokeAll, SafeInv, PC
  <1>2. OthersKept(r) /\ req'[r] = state /\ req' \in [Request -> RequestState]
    BY <1>1, StepFacts DEF SafeInv
  <1>3. /\ sessions' \in [Session -> SessionRecord \cup {NoSession}]
        /\ \A s \in Session : sessions'[s] # NoSession =>
               sessions'[s] = sessions[s] /\ sessions[s].user # u
    <2>1. Revoke(u)
      BY <1>0 DEF ConfirmRevokeAll
    <2> QED
      BY <2>1, RevokeFacts
  <1>4. UNCHANGED <<users, usersByEmail, verification, lockouts, resets, inLock, uses>>
    BY DEF ConfirmRevokeAll
  <1>5. TypeOK'
    BY <1>2, <1>3, <1>4 DEF SafeInv, TypeOK
  <1>6. RequestShape'
    <2>1. Shape(req[r])'
      BY <1>1, <1>2, <1>4 DEF ConfirmRevokeAll, SafeInv, RequestShape, Shape, LoginPC, Known, Stored
    <2> QED
      BY <1>2, <1>4, <2>1, ShapeFrame DEF Known, Stored
  <1>7. RecordsOwned' /\ EmailIndexAgrees'
    BY <1>3, <1>4 DEF SafeInv, RecordsOwned, EmailIndexAgrees, Known
  <1>8. GuessesCounted'
    BY <1>1, <1>2, <1>4, GuessFrame DEF isLocked, GuessPC
  <1>10. OldPasswordSessionsRevoked'
    <2>1. \A w : w # u /\ ResetUnderWay(w) => ResetUnderWay(w)'
      BY <1>0, <1>2 DEF ResetUnderWay, OthersKept
    <2> QED
      BY <1>3, <2>1 DEF SafeInv, OldPasswordSessionsRevoked
  <1>11. ClosedAccountSessionsRevoked'
    BY <1>3, <1>4 DEF SafeInv, ClosedAccountSessionsRevoked
  <1> QED
    BY <1>5, <1>6, <1>7, <1>8, <1>10, <1>11 DEF SafeInv

\* Every critical section keeps the invariant.
LEMMA NextSafe ==
    ASSUME SafeInv, [Next]_vars
    PROVE  SafeInv'
  <1>1. CASE UNCHANGED vars
    <2>1. /\ lockouts' \in [User -> [FailCount : 0..MaxFailures, left : 0..LockoutCap]]
          /\ inLock' \in [User -> 0..Cardinality(Request)]
          /\ \A w \in User : inLock'[w] \in {0, inLock[w]} /\ (isLocked(w)' => isLocked(w))
      BY <1>1 DEF vars, SafeInv, TypeOK, isLocked
    <2> QED
      BY <1>1, <2>1, LockoutStep DEF vars
  <1>2. CASE Tick \/ \E k \in ResetToken : ResetExpires(k)
    BY <1>2, UnlockTickSafe, TokenSafe
  <1>3. ASSUME NEW r \in Request,
               \/ \E u \in User : VerifyUserToken(r, u) \/ UnlockUser(r, u)
               \/ \E u \in User, e \in Email : CreateUser(r, u, e)
               \/ \E e \in Email :
                     \/ UpdateUserEmail(r, e) \/ UpdateRefused(r, e)
                     \/ LoginFind(r, e) \/ ResetFind(r, e)
               \/ \E s \in Session : Authenticate(r, s) \/ LoginInsert(r, s)
               \/ SoftDeleteUser(r)
               \/ LoginLockCheck(r) \/ LoginVerify(r) \/ LoginFail(r) \/ LoginRelock(r)
               \/ LockoutEvent(r) \/ LoginMFA(r) \/ LoginClear(r)
               \/ \E k \in ResetToken : ResetInsert(r, k) \/ ConfirmCheck(r, k)
               \/ ConfirmRefused(r) \/ ConfirmSetPassword(r) \/ ConfirmMarkUsed(r)
               \/ ConfirmRevokeAll(r) \/ ConfirmUnlock(r)
        PROVE  SafeInv'
    BY <1>3, VerifySafe, UnlockTickSafe, CreateSafe, UpdateSafe, ReadSafe, InsertSafe, CloseSafe,
       FailSafe, ClearSafe, TokenSafe, SetPasswordSafe, MarkUsedSafe, RevokeAllSafe
  <1> QED
    BY <1>1, <1>2, <1>3 DEF Next

-----------------------------------------------------------------------------
\* The invariant holds in every state the critical sections reach.
THEOREM Safety == Spec => []SafeInv
  <1> QED
    BY InitSafe, NextSafe, PTL DEF Spec

\* Every map keeps its type: a lockout never exceeds the cap, and neither count
\* exceeds its bound.
THEOREM TypeCorrect == Spec => []TypeOK
  <1>1. SafeInv => TypeOK
    BY DEF SafeInv
  <1> QED
    BY <1>1, Safety, PTL

\* CreateUser, UpdateUserEmail and SoftDeleteUser keep usersByEmail in step with
\* the accounts.
THEOREM EmailIndexSound == Spec => []EmailIndexAgrees
  <1>1. SafeInv => EmailIndexAgrees
    BY DEF SafeInv
  <1> QED
    BY <1>1, Safety, PTL

\* The second lookup of login's auth.lockout event finds the account that was
\* locked, unless UpdateUserEmail ran in between.
THEOREM EventSubject == Spec => []LockoutEventSubject
  <1>1. SafeInv => LockoutEventSubject
    BY DEF SafeInv, RequestShape, Shape, LoginPC, LockoutEventSubject, Stored
  <1> QED
    BY <1>1, Safety, PTL

\* Only logins past isLocked when the account was locked count a failure in the
\* lock.
THEOREM LockedGuessesBounded == Spec => []LockedGuessesOverlap
  <1>1. SafeInv => LockedGuessesOverlap
    BY DEF SafeInv, GuessesCounted, LockedGuessesOverlap
  <1> QED
    BY <1>1, Safety, PTL

\* PasswordResetConfirm leaves no session of the old password open but those of
\* logins that overlapped it.
THEOREM OldSessionsRevoked == Spec => []OldPasswordSessionsRevoked
  <1>1. SafeInv => OldPasswordSessionsRevoked
    BY DEF SafeInv
  <1> QED
    BY <1>1, Safety, PTL

\* SoftDeleteUser leaves no session open but those of logins that overlapped it.
THEOREM ClosureRevokes == Spec => []ClosedAccountSessionsRevoked
  <1>1. SafeInv => ClosedAccountSessionsRevoked
    BY DEF SafeInv
  <1> QED
    BY <1>1, Safety, PTL

-----------------------------------------------------------------------------
(* The length of a lock *)

\* Division with remainder, and the remainder is unique.
LEMMA Division ==
    ASSUME NEW M \in Nat \ {0}, NEW m \in Nat
    PROVE  \E q \in Int, r \in 0..(M - 1) : m = M * q + r /\ m % M = r
  <1>1. m % M \in 0..(M - 1) /\ m \div M \in Int
    OBVIOUS
  <1>2. m = M * (m \div M) + (m % M)
    BY Z3
  <1> QED
    BY <1>1, <1>2

LEMMA Remainder ==
    ASSUME NEW M \in Nat \ {0}, NEW q \in Int, NEW r \in 0..(M - 1), NEW m \in Int,
           m = M * q + r
    PROVE  m % M = r
  OBVIOUS

\* The remainder of a doubled number.
LEMMA DoubleRemainder ==
    ASSUME NEW M \in Nat \ {0}, NEW m \in Nat
    PROVE  (2 * m) % M = IF 2 * (m % M) < M THEN 2 * (m % M) ELSE 2 * (m % M) - M
  <1>1. PICK q \in Int, r \in 0..(M - 1) : m = M * q + r /\ m % M = r
    BY Division
  <1>2. PICK d \in Int : d = 2 * m
    OBVIOUS
  <1>3. CASE 2 * r < M
    <2>1. PICK p \in Int, s \in 0..(M - 1) : p = 2 * q /\ s = 2 * r
      BY <1>3
    <2>2. d = M * p + s
      BY <1>1, <1>2, <2>1
    <2>3. d % M = s
      BY <2>2, Remainder
    <2> QED
      BY <1>1, <1>2, <1>3, <2>1, <2>3
  <1>4. CASE 2 * r >= M
    <2>1. 2 * q + 1 \in Int /\ 2 * r - M \in 0..(M - 1)
      BY <1>4
    <2>2. PICK p \in Int, s \in 0..(M - 1) : p = 2 * q + 1 /\ s = 2 * r - M
      BY <2>1
    <2>3. d = M * p + s
      BY <1>1, <1>2, <2>2
    <2>4. d % M = s
      BY <2>3, Remainder
    <2> QED
      BY <1>1, <1>2, <1>4, <2>2, <2>4
  <1> QED
    BY <1>1, <1>3, <1>4

\* Doubling a duration in two's complement: while the result is positive, it is
\* the double of a positive duration, or the duration was not positive.
LEMMA SignedDouble ==
    ASSUME NEW m \in Nat, Signed(2 * m) > 0
    PROVE  /\ Signed(m) \in Int /\ Signed(2 * m) \in Int
           /\ Signed(m) <= 0 \/ Signed(2 * m) = 2 * Signed(m)
  <1>1. PICK M \in Nat \ {0}, H \in Nat \ {0} :
            M = 2^Width /\ H = 2^(Width - 1) /\ M = 2 * H
    BY PowerFacts
  <1>2. PICK low \in 0..(M - 1) : low = m % M
    BY Division
  <1>3. PICK twice \in Int : /\ twice = (2 * m) % M
                             /\ twice = IF 2 * low < M THEN 2 * low ELSE 2 * low - M
    <2>1. (2 * m) % M = IF 2 * low < M THEN 2 * low ELSE 2 * low - M
      BY <1>2, DoubleRemainder
    <2>2. 2 * low \in Int /\ 2 * low - M \in Int
      BY <1>2
    <2> QED
      BY <2>1, <2>2
  <1>4. /\ Signed(m) = IF low < H THEN low ELSE low - M
        /\ Signed(2 * m) = IF twice < H THEN twice ELSE twice - M
    BY <1>1, <1>2, <1>3 DEF Signed
  <1> QED
    BY <1>1, <1>3, <1>4

\* Backoff grows with the failures as long as the shift has not overflowed.
LEMMA BackoffGrows ==
    ASSUME NEW n \in Nat, n >= LockoutThreshold, n < MaxFailures, Shifted(n + 1) > 0
    PROVE  Backoff(n) <= Backoff(n + 1)
  <1>1. PICK k \in 0..MaxFailures : k = n - LockoutThreshold /\ k + 1 = (n + 1) - LockoutThreshold
    BY MemAccountsAssumption
  <1>2. PICK m \in Nat : m = LockoutBase * 2^k
    BY PowerAssumption, MemAccountsAssumption
  <1>3. LockoutBase * 2^(k + 1) = 2 * m
    BY <1>2, PowerAssumption, MemAccountsAssumption
  <1>4. Shifted(n) = Signed(m) /\ Shifted(n + 1) = Signed(2 * m)
    BY <1>1, <1>2, <1>3 DEF Shifted
  <1>5. /\ Shifted(n) \in Int /\ Shifted(n + 1) \in Int
        /\ Shifted(n) <= 0 \/ Shifted(n + 1) = 2 * Shifted(n)
    BY <1>4, SignedDouble
  <1> QED
    BY <1>5, MemAccountsAssumption DEF Backoff

\* The lock in force is no longer than what the last failure set.
LockBounded ==
    \A u \in User :
        lockouts[u].left <= IF lockouts[u].FailCount >= LockoutThreshold
                               THEN Backoff(lockouts[u].FailCount) ELSE 0

\* What a step does to the lockouts: a failure is recorded, a lockout is reset,
\* time passes, or they stay.
LEMMA LockoutSteps ==
    ASSUME SafeInv, [Next]_vars
    PROVE  \/ \E u \in User : recordFailure(u)
           \/ \E u \in User : resetLockout(u)
           \/ Tick
           \/ UNCHANGED lockouts
  <1>1. ASSUME NEW r \in Request, LoginFail(r) \/ LoginClear(r) \/ ConfirmUnlock(r)
        PROVE  \E u \in User : recordFailure(u) \/ resetLockout(u)
    <2>1. req[r].user \in User
      BY <1>1 DEF LoginFail, LoginClear, ConfirmUnlock, SafeInv, RequestShape, Shape, Known
    <2> QED
      BY <1>1, <2>1 DEF LoginFail, LoginClear, ConfirmUnlock
  <1> QED
    BY <1>1 DEF Next, vars, VerifyUserToken, UnlockUser, CreateUser, UpdateUserEmail,
       UpdateRefused, LoginFind, ResetFind, Authenticate, LoginInsert, SoftDeleteUser,
       LoginLockCheck, LoginVerify, LoginRelock, LockoutEvent, LoginMFA, ResetInsert,
       ConfirmCheck, ConfirmRefused, ConfirmSetPassword, ConfirmMarkUsed, ConfirmRevokeAll,
       ResetExpires

\* recordFailure: the lock it sets, and what the account's lock was before.
LEMMA RecordFacts ==
    ASSUME SafeInv, NEW u \in User, recordFailure(u)
    PROVE  \E n \in 0..MaxFailures :
               /\ n = IF lockouts[u].FailCount < MaxFailures
                         THEN lockouts[u].FailCount + 1 ELSE MaxFailures
               /\ lockouts'[u].FailCount = n
               /\ lockouts'[u].left = IF n >= LockoutThreshold THEN Backoff(n)
                                                              ELSE lockouts[u].left
               /\ \A w \in User : w # u => lockouts'[w] = lockouts[w]
  <1>1. PICK n \in 0..MaxFailures :
            n = IF lockouts[u].FailCount < MaxFailures
                   THEN lockouts[u].FailCount + 1 ELSE MaxFailures
    BY MemAccountsAssumption DEF SafeInv, TypeOK
  <1>2. PICK left : left = IF n >= LockoutThreshold THEN Backoff(n) ELSE lockouts[u].left
    OBVIOUS
  <1>3. lockouts' = [lockouts EXCEPT ![u] = [FailCount |-> n, left |-> left]]
    BY <1>1, <1>2 DEF recordFailure
  <1>4. /\ lockouts'[u] = [FailCount |-> n, left |-> left]
        /\ \A w \in User : w # u => lockouts'[w] = lockouts[w]
    BY <1>3 DEF SafeInv, TypeOK
  <1> QED
    BY <1>1, <1>2, <1>4

\* Every step keeps the bound: recordFailure sets the lock, time shortens it.
LEMMA LockBoundedSafe ==
    ASSUME SafeInv, LockBounded, [Next]_vars
    PROVE  LockBounded'
  <1> SUFFICES ASSUME NEW w \in User
               PROVE  lockouts'[w].left <= IF lockouts'[w].FailCount >= LockoutThreshold
                                              THEN Backoff(lockouts'[w].FailCount) ELSE 0
    BY DEF LockBounded, Backoff, Shifted, Signed
  <1>0. /\ lockouts[w] \in [FailCount : 0..MaxFailures, left : 0..LockoutCap]
        /\ lockouts[w].left <= IF lockouts[w].FailCount >= LockoutThreshold
                                  THEN Backoff(lockouts[w].FailCount) ELSE 0
    BY DEF SafeInv, TypeOK, LockBounded
  <1>1. ASSUME NEW u \in User, recordFailure(u)
        PROVE  lockouts'[w].left <= IF lockouts'[w].FailCount >= LockoutThreshold
                                       THEN Backoff(lockouts'[w].FailCount) ELSE 0
    <2>1. PICK n \in 0..MaxFailures :
              /\ n = IF lockouts[u].FailCount < MaxFailures
                        THEN lockouts[u].FailCount + 1 ELSE MaxFailures
              /\ lockouts'[u].FailCount = n
              /\ lockouts'[u].left = IF n >= LockoutThreshold THEN Backoff(n)
                                                             ELSE lockouts[u].left
              /\ \A v \in User : v # u => lockouts'[v] = lockouts[v]
      BY <1>1, RecordFacts
    <2>2. CASE w # u
      BY <1>0, <2>1, <2>2
    <2>3. CASE w = u /\ n >= LockoutThreshold
      BY <2>1, <2>3, BackoffType, MemAccountsAssumption
    <2>4. CASE w = u /\ n < LockoutThreshold
      BY <1>0, <2>1, <2>4, MemAccountsAssumption
    <2> QED
      BY <2>2, <2>3, <2>4, MemAccountsAssumption
  <1>2. ASSUME NEW u \in User, resetLockout(u)
        PROVE  lockouts'[w].left <= IF lockouts'[w].FailCount >= LockoutThreshold
                                       THEN Backoff(lockouts'[w].FailCount) ELSE 0
    <2>1. lockouts'[w] = IF w = u THEN NoLockout ELSE lockouts[w]
      BY <1>2 DEF resetLockout, SafeInv, TypeOK
    <2> QED
      BY <1>0, <2>1, MemAccountsAssumption DEF NoLockout
  <1>3. CASE Tick
    <2> DEFINE left == IF lockouts[w].left > 0 THEN lockouts[w].left - 1 ELSE 0
    <2>1. lockouts'[w] = [lockouts[w] EXCEPT !.left = left]
      BY <1>3 DEF Tick
    <2>2. lockouts'[w].left = left /\ lockouts'[w].FailCount = lockouts[w].FailCount
      BY <1>0, <2>1
    <2>3. left \in Nat /\ left <= lockouts[w].left /\ lockouts[w].left \in Nat
      BY <1>0, MemAccountsAssumption
    <2>4. lockouts[w].FailCount \in Nat
      BY <1>0
    <2> HIDE DEF left
    <2>5. CASE lockouts[w].FailCount >= LockoutThreshold
      <3>1. Backoff(lockouts[w].FailCount) \in Int
        BY <2>4, <2>5, BackoffType, MemAccountsAssumption
      <3> QED
        BY <1>0, <2>2, <2>3, <2>5, <3>1
    <2>6. CASE ~(lockouts[w].FailCount >= LockoutThreshold)
      BY <1>0, <2>2, <2>3, <2>6
    <2> QED
      BY <2>5, <2>6
  <1> QED
    BY <1>0, <1>1, <1>2, <1>3, LockoutSteps

\* recordFailure never shortens a lock that is in force, until the shift of the
\* backoff overflows.
THEOREM LocksGrow == Spec => LockNeverShortened
  <1> DEFINE Kept(u) ==
        (/\ lockouts'[u].FailCount > lockouts[u].FailCount
         /\ lockouts'[u].FailCount >= LockoutThreshold
         /\ Shifted(lockouts'[u].FailCount) > 0)
        => lockouts'[u].left >= lockouts[u].left /\ lockouts'[u].left > 0
  <1>1. Init => LockBounded
    BY MemAccountsAssumption DEF Init, LockBounded, NoLockout
  <1>2. SafeInv /\ LockBounded /\ [Next]_vars => LockBounded'
    BY LockBoundedSafe
  <1>3. ASSUME SafeInv, LockBounded, [Next]_vars, NEW w \in User PROVE Kept(w)
    <2>0. /\ lockouts[w] \in [FailCount : 0..MaxFailures, left : 0..LockoutCap]
          /\ lockouts[w].left <= IF lockouts[w].FailCount >= LockoutThreshold
                                    THEN Backoff(lockouts[w].FailCount) ELSE 0
      BY <1>3 DEF SafeInv, TypeOK, LockBounded
    <2>1. SUFFICES ASSUME lockouts'[w].FailCount > lockouts[w].FailCount,
                          lockouts'[w].FailCount >= LockoutThreshold,
                          Shifted(lockouts'[w].FailCount) > 0
                   PROVE  lockouts'[w].left >= lockouts[w].left /\ lockouts'[w].left > 0
      OBVIOUS
    <2>2. recordFailure(w)
      <3>1. ASSUME NEW u \in User, recordFailure(u), u # w PROVE FALSE
        <4>1. lockouts'[w] = lockouts[w]
          BY <1>3, <3>1, RecordFacts
        <4> QED
          BY <2>0, <2>1, <4>1
      <3>2. ASSUME NEW u \in User, resetLockout(u) PROVE FALSE
        <4>1. lockouts'[w] = IF w = u THEN NoLockout ELSE lockouts[w]
          BY <1>3, <3>2 DEF resetLockout, SafeInv, TypeOK
        <4> QED
          BY <2>0, <2>1, <4>1 DEF NoLockout
      <3>3. CASE Tick
        <4>1. lockouts'[w] =
                  [lockouts[w] EXCEPT !.left = IF lockouts[w].left > 0 THEN lockouts[w].left - 1 ELSE 0]
          BY <3>3 DEF Tick
        <4>2. lockouts'[w].FailCount = lockouts[w].FailCount
          BY <2>0, <4>1
        <4> QED
          BY <2>0, <2>1, <4>2
      <3>4. CASE UNCHANGED lockouts
        BY <2>0, <2>1, <3>4
      <3> QED
        BY <1>3, <3>1, <3>2, <3>3, <3>4, LockoutSteps
    <2>3. PICK c \in 0..MaxFailures : c = lockouts[w].FailCount
      BY <2>0
    <2>4. /\ c < MaxFailures /\ c + 1 \in Nat /\ c \in Nat /\ lockouts'[w].FailCount = c + 1
          /\ c + 1 >= LockoutThreshold /\ Shifted(c + 1) > 0
          /\ lockouts'[w].left = Backoff(c + 1)
      BY <1>3, <2>1, <2>2, <2>3, RecordFacts, MemAccountsAssumption
    <2>5. Backoff(c + 1) \in 0..LockoutCap /\ Backoff(c + 1) > 0
      <3>1. Backoff(c + 1) \in 0..LockoutCap
        BY <2>4, BackoffType
      <3> QED
        BY <2>4, <3>1, MemAccountsAssumption DEF Backoff
    <2>6. CASE c >= LockoutThreshold
      <3>1. Backoff(c) <= Backoff(c + 1) /\ Backoff(c) \in 0..LockoutCap
        BY <2>4, <2>6, BackoffGrows, BackoffType
      <3> QED
        BY <2>0, <2>3, <2>4, <2>5, <2>6, <3>1, MemAccountsAssumption
    <2>7. CASE c < LockoutThreshold
      BY <2>0, <2>3, <2>4, <2>5, <2>7, MemAccountsAssumption
    <2> QED
      BY <2>3, <2>6, <2>7, MemAccountsAssumption
  <1>4. SafeInv /\ LockBounded /\ [Next]_vars => [\A u \in User : Kept(u)]_vars
    BY <1>3
  <1> QED
    BY <1>1, <1>2, <1>4, Safety, PTL DEF Spec, LockNeverShortened
=============================================================================

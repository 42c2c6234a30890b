-------------------------- MODULE Accounts_proofs --------------------------
(***************************************************************************)
(* Proofs about Accounts for any sets of passwords, e-mails, sessions and   *)
(* reset tokens, any finite set of requests, and any number of failed       *)
(* statements.                                                              *)
(***************************************************************************)
EXTENDS Accounts, FiniteSetTheorems, TLAPS

\* What a request carries between two statements.  A login past verifyPassword
\* presented the password of the row it had read; a confirmation holds a token
\* whose row exists, and by the time it marks the row it changed the password.
Shape(q) ==
    /\ q.pc \in {"lockCheck", "mfa", "clear", "insert"} =>
           q.given \in Password /\ q.snap \in Password
    /\ q.pc \in {"mfa", "clear", "insert"} => q.given = q.snap
    /\ q.pc \in {"setPassword", "markUsed"} =>
           /\ q.given \in Password /\ q.tok \in ResetToken
           /\ resets[q.tok] \in ResetRow
    /\ q.pc = "markUsed" => uses[q.tok] >= 1

RequestShape == \A r \in Request : Shape(req[r])

\* One SoftDeleteUser at a time holds the users row, and a session open while it
\* does is among the rows it matched or was inserted after its UPDATE.
CloserOwnsRow ==
    \A r \in Request : Closing(r) =>
        /\ \A q \in Request : Closing(q) => q = r
        /\ \A s \in Session : Live(s) => s \in req[r].rows \/ sessions[s].overClose

Emailing == {r \in Request : req[r].pc = "email"}

\* Every late change of the e-mail used up a request that had passed the status
\* check, and the one that closed the account is not among them.
LateChangesCounted ==
    IF status = "CLOSED"
       THEN late + Cardinality(Emailing) < Cardinality(Request)
       ELSE late = 0

SafeInv ==
    /\ TypeOK
    /\ RequestShape
    /\ CloserOwnsRow
    /\ ClosedAccountSessionsRevoked
    /\ OldPasswordSessionsRevoked
    /\ UsedTokenChangedPassword
    /\ LateChangesCounted

-----------------------------------------------------------------------------
\* The idle state of a request satisfies every shape.
LEMMA IdleFacts ==
    /\ Idle \in RequestState /\ Idle.pc = "idle" /\ Shape(Idle)
    /\ Idle.tok = NoToken /\ Idle.given = NoPassword
  BY AccountAssumption DEF Idle, RequestState, PC, Shape

\* Goto changes where a request is and keeps what it carries.
LEMMA GotoFacts ==
    ASSUME TypeOK, NEW r \in Request, NEW pc \in PC, Goto(r, pc)
    PROVE  \E state \in RequestState :
               /\ req' = [req EXCEPT ![r] = state]
               /\ state.pc = pc /\ state.given = req[r].given /\ state.snap = req[r].snap
               /\ state.tok = req[r].tok /\ state.rows = req[r].rows
  <1> DEFINE state == [req[r] EXCEPT !.pc = pc]
  <1>1. req[r] \in RequestState
    BY DEF TypeOK
  <1>2. /\ state \in RequestState
        /\ state.pc = pc /\ state.given = req[r].given /\ state.snap = req[r].snap
        /\ state.tok = req[r].tok /\ state.rows = req[r].rows
    BY <1>1 DEF RequestState
  <1>3. req' = [req EXCEPT ![r] = state]
    BY DEF Goto
  <1> QED
    BY <1>2, <1>3

\* A finite table of requests: how many are about to update the e-mail.
LEMMA EmailingFinite ==
    ASSUME TypeOK
    PROVE  /\ IsFiniteSet(Emailing) /\ Cardinality(Emailing) \in Nat
           /\ Cardinality(Request) \in Nat /\ Cardinality(Request) > 0
           /\ Cardinality(Emailing) <= Cardinality(Request)
  <1>1. Emailing \subseteq Request
    BY DEF Emailing
  <1> QED
    BY <1>1, AccountAssumption, FS_Subset, FS_CardinalityType, FS_EmptySet

\* Requests that keep the shape keep it when rows and counts only grow.
LEMMA ShapeFrame ==
    ASSUME SafeInv, NEW r \in Request, NEW state \in RequestState,
           req' = [req EXCEPT ![r] = state],
           Shape(state)',
           \A k \in ResetToken : resets[k] \in ResetRow => resets'[k] \in ResetRow,
           \A k \in ResetToken : uses'[k] \in Nat /\ uses'[k] >= uses[k]
    PROVE  RequestShape'
  <1> SUFFICES ASSUME NEW q \in Request PROVE Shape(req[q])'
    BY DEF RequestShape
  <1>1. CASE q = r
    BY <1>1 DEF SafeInv, TypeOK, Shape
  <1>2. CASE q # r
    <2>1. req'[q] = req[q] /\ Shape(req[q])
      BY <1>2 DEF SafeInv, TypeOK, RequestShape
    <2>2. \A k \in ResetToken : uses[k] \in Nat
      BY DEF SafeInv, TypeOK
    <2> QED
      BY <2>1, <2>2 DEF Shape
  <1> QED
    BY <1>1, <1>2

\* A step that neither closes nor opens sessions keeps what the closer owns.
LEMMA CloserFrame ==
    ASSUME SafeInv, NEW r \in Request, NEW state \in RequestState,
           req' = [req EXCEPT ![r] = state], state.pc # "closeCommit",
           UNCHANGED sessions
    PROVE  CloserOwnsRow'
  <1>1. \A q \in Request : Closing(q)' => Closing(q) /\ req'[q].rows = req[q].rows
    BY DEF SafeInv, TypeOK, Closing
  <1> QED
    BY <1>1 DEF SafeInv, CloserOwnsRow, Live

\* A request that does not join the e-mail updates of a closed account.
LEMMA EmailFrame ==
    ASSUME SafeInv, NEW r \in Request, NEW state \in RequestState,
           req' = [req EXCEPT ![r] = state],
           state.pc = "email" => status # "CLOSED",
           UNCHANGED <<status, late>>
    PROVE  LateChangesCounted'
  <1>1. CASE status # "CLOSED"
    BY <1>1 DEF SafeInv, LateChangesCounted
  <1>2. CASE status = "CLOSED"
    <2>1. Emailing' \subseteq Emailing
      BY <1>2 DEF Emailing, SafeInv, TypeOK
    <2>2. Cardinality(Emailing') <= Cardinality(Emailing) /\ Cardinality(Emailing') \in Nat
      BY <2>1, EmailingFinite, FS_Subset, FS_CardinalityType DEF SafeInv
    <2>3. Cardinality(Emailing) \in Nat /\ Cardinality(Request) \in Nat /\ late \in Nat
      BY EmailingFinite DEF SafeInv, TypeOK
    <2> QED
      BY <1>2, <2>2, <2>3 DEF SafeInv, LateChangesCounted
  <1> QED
    BY <1>1, <1>2

\* The variables a request's own bookkeeping leaves to TypeOK.
CountersTyped ==
    /\ failCount \in Nat /\ lockedUntil \in Nat /\ now \in 0..MaxTime
    /\ faults \in 0..MaxFaults /\ failed \in 0..LockoutThreshold

\* A step that moves one request and changes no row but the lockout's.
LEMMA RequestStep ==
    ASSUME SafeInv, NEW r \in Request, NEW state \in RequestState,
           req' = [req EXCEPT ![r] = state],
           Shape(state), state.pc # "closeCommit",
           state.pc = "email" => status # "CLOSED",
           req[r].pc \in {"markUsed", "revokeAll"} =>
               state.pc \in {"markUsed", "revokeAll"} \/ faults' # 0,
           CountersTyped', faults' = 0 => faults = 0,
           UNCHANGED <<status, verification, email, pw, sessions, resets, uses, late>>
    PROVE  SafeInv'
  <1>1. TypeOK'
    BY DEF SafeInv, TypeOK, CountersTyped
  <1>2. RequestShape'
    <2>1. Shape(state)'
      BY DEF Shape
    <2>2. /\ \A k \in ResetToken : resets[k] \in ResetRow => resets'[k] \in ResetRow
          /\ \A k \in ResetToken : uses'[k] \in Nat /\ uses'[k] >= uses[k]
      BY DEF SafeInv, TypeOK
    <2> QED
      BY <2>1, <2>2, ShapeFrame
  <1>3. CloserOwnsRow'
    BY CloserFrame
  <1>4. ClosedAccountSessionsRevoked' /\ UsedTokenChangedPassword'
    BY DEF SafeInv, ClosedAccountSessionsRevoked, UsedTokenChangedPassword, Live
  <1>5. OldPasswordSessionsRevoked'
    <2>1. faults' = 0 /\ ResetUnderWay => ResetUnderWay'
      BY DEF SafeInv, TypeOK, ResetUnderWay
    <2> QED
      BY <2>1 DEF SafeInv, OldPasswordSessionsRevoked, Live
  <1>6. LateChangesCounted'
    BY EmailFrame
  <1> QED
    BY <1>1, <1>2, <1>3, <1>4, <1>5, <1>6 DEF SafeInv

\* Registration leaves nothing to revoke and no request under way.
LEMMA InitSafe == Init => SafeInv
  <1> SUFFICES ASSUME Init PROVE SafeInv
    OBVIOUS
  <1>0. /\ \A r \in Request : req[r] = Idle
        /\ \A s \in Session : sessions[s] = NoSession /\ ~Live(s)
        /\ NoSession \in SessionRow
    BY DEF Init, Live, NoSession, SessionRow
  <1>1. TypeOK
    <2>1. Cardinality(Request) \in Nat
      BY AccountAssumption, FS_CardinalityType
    <2> QED
      BY <1>0, <2>1, IdleFacts, AccountAssumption DEF Init, TypeOK
  <1>2. RequestShape
    BY <1>0, IdleFacts DEF RequestShape
  <1>3. CloserOwnsRow
    BY <1>0, IdleFacts DEF CloserOwnsRow, Closing
  <1>4. ClosedAccountSessionsRevoked /\ OldPasswordSessionsRevoked
    BY <1>0 DEF ClosedAccountSessionsRevoked, OldPasswordSessionsRevoked
  <1>5. UsedTokenChangedPassword /\ LateChangesCounted
    BY DEF Init, UsedTokenChangedPassword, LateChangesCounted
  <1> QED
    BY <1>1, <1>2, <1>3, <1>4, <1>5 DEF SafeInv

-----------------------------------------------------------------------------
\* What an action leaves alone is typed as before.
LEMMA CountersKept ==
    ASSUME SafeInv, UNCHANGED <<failCount, lockedUntil, now, faults, failed>>
    PROVE  CountersTyped' /\ (faults' = 0 => faults = 0)
  BY DEF SafeInv, TypeOK, CountersTyped

\* A request that ends, and changed no row but the lockout's.
LEMMA DoneStep ==
    ASSUME SafeInv, NEW r \in Request, Done(r),
           req[r].pc \notin {"markUsed", "revokeAll"} \/ faults' # 0,
           CountersTyped', faults' = 0 => faults = 0,
           UNCHANGED <<status, verification, email, pw, sessions, resets, uses, late>>
    PROVE  SafeInv'
  <1>1. PICK state \in RequestState : state = Idle /\ req' = [req EXCEPT ![r] = state]
    BY IdleFacts DEF Done
  <1>2. Shape(state) /\ state.pc = "idle"
    BY <1>1, IdleFacts
  <1> QED
    BY <1>1, <1>2, RequestStep

\* A request that moves on from one statement to the next.
LEMMA GotoStep ==
    ASSUME SafeInv, NEW r \in Request, NEW pc \in PC, Goto(r, pc),
           pc \notin {"closeCommit", "markUsed", "setPassword"},
           pc \in {"mfa", "clear", "insert"} =>
               /\ req[r].pc \in {"lockCheck", "mfa", "clear"}
               /\ req[r].given = req[r].snap,
           pc # "lockCheck",
           pc = "email" => status # "CLOSED",
           req[r].pc \in {"markUsed", "revokeAll"} => faults' # 0,
           CountersTyped', faults' = 0 => faults = 0,
           UNCHANGED <<status, verification, email, pw, sessions, resets, uses, late>>
    PROVE  SafeInv'
  <1>1. PICK state \in RequestState :
               /\ req' = [req EXCEPT ![r] = state]
               /\ state.pc = pc /\ state.given = req[r].given /\ state.snap = req[r].snap
    BY GotoFacts DEF SafeInv
  <1>2. Shape(state)
    BY <1>1 DEF SafeInv, RequestShape, Shape
  <1> QED
    BY <1>1, <1>2, RequestStep

\* VerifyUserToken: only a pending account becomes active.
LEMMA VerifySafe ==
    ASSUME SafeInv, NEW r \in Request, VerifyUserToken(r)
    PROVE  SafeInv'
  <1> USE DEF VerifyUserToken
  <1>1. TypeOK'
    BY DEF SafeInv, TypeOK
  <1>2. RequestShape' /\ UsedTokenChangedPassword'
    BY DEF SafeInv, RequestShape, Shape, UsedTokenChangedPassword
  <1>3. CloserOwnsRow'
    BY DEF SafeInv, CloserOwnsRow, Closing, Live
  <1>4. ClosedAccountSessionsRevoked' /\ OldPasswordSessionsRevoked'
    BY DEF SafeInv, ClosedAccountSessionsRevoked, OldPasswordSessionsRevoked, ResetUnderWay, Live
  <1>5. LateChangesCounted'
    BY DEF SafeInv, LateChangesCounted
  <1> QED
    BY <1>1, <1>2, <1>3, <1>4, <1>5 DEF SafeInv

\* UnlockUser and the clock change no row a conjunct looks at.
LEMMA ClockSafe ==
    ASSUME SafeInv, CountersTyped',
           UNCHANGED <<status, verification, email, pw, sessions, resets, req, faults, uses, late>>
    PROVE  SafeInv'
  <1>1. TypeOK'
    BY DEF SafeInv, TypeOK, CountersTyped
  <1>2. RequestShape' /\ UsedTokenChangedPassword'
    BY DEF SafeInv, RequestShape, Shape, UsedTokenChangedPassword
  <1>3. CloserOwnsRow'
    BY DEF SafeInv, CloserOwnsRow, Closing, Live
  <1>4. ClosedAccountSessionsRevoked' /\ OldPasswordSessionsRevoked'
    BY DEF SafeInv, ClosedAccountSessionsRevoked, OldPasswordSessionsRevoked, ResetUnderWay, Live
  <1>5. LateChangesCounted'
    BY DEF SafeInv, LateChangesCounted, Emailing
  <1> QED
    BY <1>1, <1>2, <1>3, <1>4, <1>5 DEF SafeInv

\* Login reads the row, checks the lock and the password, and the MFA challenge.
LEMMA LoginSafe ==
    ASSUME SafeInv, NEW r \in Request,
           \/ \E p \in Password : LoginRead(r, p)
           \/ LoginCheck(r) \/ LoginFail(r) \/ LoginMFA(r) \/ LoginClear(r)
    PROVE  SafeInv'
  <1>1. ASSUME NEW p \in Password, LoginRead(r, p) PROVE SafeInv'
    <2>1. PICK state \in RequestState :
              /\ req' = [req EXCEPT ![r] = state]
              /\ state.pc = "lockCheck" /\ state.given = p /\ state.snap = pw
      <3> DEFINE state == [Idle EXCEPT !.pc = "lockCheck", !.given = p, !.snap = pw]
      <3>1. state \in RequestState /\ state.pc = "lockCheck" /\ state.given = p /\ state.snap = pw
        BY IdleFacts DEF SafeInv, TypeOK, RequestState, PC
      <3>2. req' = [req EXCEPT ![r] = state]
        BY <1>1 DEF LoginRead
      <3> QED
        BY <3>1, <3>2
    <2>2. Shape(state)
      BY <2>1 DEF Shape, SafeInv, TypeOK
    <2>3. req[r].pc = "idle"
      BY <1>1, IdleFacts DEF LoginRead
    <2> QED
      BY <1>1, <2>1, <2>2, <2>3, CountersKept, RequestStep DEF LoginRead
  <1>2. CASE LoginCheck(r)
    <2>1. CASE Done(r)
      BY <1>2, <2>1, CountersKept, DoneStep DEF LoginCheck
    <2>2. CASE Goto(r, PasswordOutcome(r))
      <3>1. CASE req[r].given = req[r].snap
        BY <1>2, <2>2, <3>1, CountersKept, GotoStep DEF LoginCheck, PasswordOutcome, PC
      <3>2. CASE req[r].given # req[r].snap
        BY <1>2, <2>2, <3>2, CountersKept, GotoStep DEF LoginCheck, PasswordOutcome, PC
      <3> QED
        BY <3>1, <3>2
    <2> QED
      BY <1>2, <2>1, <2>2 DEF LoginCheck
  <1>3. CASE LoginFail(r)
    <2>1. UNCHANGED <<failCount, lockedUntil>>
      <3>1. ~(RequiredColumns \subseteq SuppliedColumns)
        BY DEF RequiredColumns, SuppliedColumns
      <3> QED
        BY <1>3, <3>1 DEF LoginFail, recordFailure
    <2>2. CountersTyped' /\ faults' = faults
      BY <1>3, <2>1, AccountAssumption DEF LoginFail, Failure, CountersTyped, SafeInv, TypeOK
    <2> QED
      BY <1>3, <2>2, DoneStep DEF LoginFail
  <1>4. CASE LoginMFA(r)
    <2>1. req[r].given = req[r].snap
      BY <1>4 DEF LoginMFA, SafeInv, RequestShape, Shape
    <2>2. CASE Goto(r, "clear")
      BY <1>4, <2>1, <2>2, CountersKept, GotoStep DEF LoginMFA, PC
    <2>3. CASE Goto(r, "fail")
      BY <1>4, <2>1, <2>3, CountersKept, GotoStep DEF LoginMFA, PC
    <2>4. CASE Done(r)
      BY <1>4, <2>4, CountersKept, DoneStep DEF LoginMFA
    <2> QED
      BY <1>4, <2>2, <2>3, <2>4 DEF LoginMFA
  <1>5. CASE LoginClear(r)
    <2>1. req[r].given = req[r].snap
      BY <1>5 DEF LoginClear, SafeInv, RequestShape, Shape
    <2>2. CountersTyped' /\ faults' = faults
      BY <1>5, AccountAssumption DEF LoginClear, resetLockout, CountersTyped, SafeInv, TypeOK
    <2> QED
      BY <1>5, <2>1, <2>2, GotoStep DEF LoginClear, PC
  <1> QED
    BY <1>1, <1>2, <1>3, <1>4, <1>5

\* issueSession: the row carries the password read with the account, and is
\* marked when the password or the status changed in between.
LEMMA InsertSafe ==
    ASSUME SafeInv, NEW r \in Request, NEW s \in Session, LoginInsert(r, s)
    PROVE  SafeInv'
  <1>0. /\ req[r].given \in Password /\ req[r].given = req[r].snap
        /\ sessions[s] = NoSession /\ req[r].pc = "insert"
    BY DEF LoginInsert, SafeInv, RequestShape, Shape
  <1>1. PICK row \in SessionRow :
            /\ sessions' = [sessions EXCEPT ![s] = row]
            /\ row.state = "live" /\ row.pw = req[r].given
            /\ row.overChange = (req[r].snap # pw)
            /\ row.overClose = (status = "CLOSED" \/ ~UserRowFree)
    <2> DEFINE row == [state |-> "live", pw |-> req[r].given,
                       overChange |-> req[r].snap # pw,
                       overClose |-> status = "CLOSED" \/ ~UserRowFree]
    <2>1. row \in SessionRow
      BY <1>0 DEF SessionRow
    <2>2. sessions' = [sessions EXCEPT ![s] = row]
      BY DEF LoginInsert
    <2> QED
      BY <2>1, <2>2
  <1>2. PICK state \in RequestState : state = Idle /\ req' = [req EXCEPT ![r] = state]
    BY IdleFacts DEF Done, LoginInsert
  <1>3. Shape(state) /\ state.pc = "idle"
    BY <1>2, IdleFacts
  <1>4. /\ \A q \in Session : sessions'[q] = IF q = s THEN row ELSE sessions[q]
        /\ \A q \in Request : Closing(q)' => Closing(q) /\ req'[q].rows = req[q].rows
    BY <1>1, <1>2, <1>3 DEF SafeInv, TypeOK, Closing
  <1>5. TypeOK'
    BY <1>1, <1>2 DEF LoginInsert, SafeInv, TypeOK
  <1>6. RequestShape'
    <2>1. Shape(state)'
      BY <1>3 DEF Shape
    <2>2. /\ \A k \in ResetToken : resets[k] \in ResetRow => resets'[k] \in ResetRow
          /\ \A k \in ResetToken : uses'[k] \in Nat /\ uses'[k] >= uses[k]
      BY DEF SafeInv, TypeOK, LoginInsert
    <2> QED
      BY <1>2, <2>1, <2>2, ShapeFrame
  <1>7. CloserOwnsRow'
    BY <1>1, <1>4 DEF SafeInv, CloserOwnsRow, Live, UserRowFree
  <1>8. ClosedAccountSessionsRevoked' /\ UsedTokenChangedPassword'
    BY <1>1, <1>4 DEF LoginInsert, SafeInv, ClosedAccountSessionsRevoked,
                      UsedTokenChangedPassword, Live
  <1>9. OldPasswordSessionsRevoked'
    <2>1. ResetUnderWay => ResetUnderWay'
      BY <1>0, <1>2 DEF SafeInv, TypeOK, ResetUnderWay
    <2> QED
      BY <1>0, <1>1, <1>4, <2>1 DEF LoginInsert, SafeInv, OldPasswordSessionsRevoked, Live
  <1>10. LateChangesCounted'
    BY <1>2, <1>3, EmailFrame DEF LoginInsert
  <1> QED
    BY <1>5, <1>6, <1>7, <1>8, <1>9, <1>10 DEF SafeInv

\* Revoking sessions changes nothing but their state.
LEMMA RevokeFacts ==
    ASSUME TypeOK, NEW S, Revoke(S)
    PROVE  /\ sessions' \in [Session -> SessionRow]
           /\ \A s \in Session :
                  /\ Live(s)' => Live(s) /\ s \notin S
                  /\ sessions'[s].pw = sessions[s].pw
                  /\ sessions'[s].overChange = sessions[s].overChange
                  /\ sessions'[s].overClose = sessions[s].overClose
  <1>1. ASSUME NEW s \in Session
        PROVE  /\ sessions'[s] \in SessionRow
               /\ Live(s)' => Live(s) /\ s \notin S
               /\ sessions'[s].pw = sessions[s].pw
               /\ sessions'[s].overChange = sessions[s].overChange
               /\ sessions'[s].overClose = sessions[s].overClose
    <2>1. /\ sessions[s] \in SessionRow
          /\ sessions'[s] = IF s \in S THEN [sessions[s] EXCEPT !.state = "revoked"]
                                       ELSE sessions[s]
      BY DEF TypeOK, Revoke
    <2>2. CASE s \in S
      BY <2>1, <2>2 DEF SessionRow, Live
    <2>3. CASE s \notin S
      BY <2>1, <2>3 DEF SessionRow, Live
    <2> QED
      BY <2>2, <2>3
  <1>2. sessions' = [s \in Session |-> sessions'[s]]
    BY DEF Revoke
  <1> QED
    BY <1>1, <1>2

\* SoftDeleteUser up to its COMMIT: it matches every open session.
LEMMA CloseBeginSafe ==
    ASSUME SafeInv, NEW r \in Request, SoftDeleteUser(r)
    PROVE  SafeInv'
  <1>1. PICK state \in RequestState :
            /\ req' = [req EXCEPT ![r] = state]
            /\ state.pc = "closeCommit" /\ state.rows = LiveSessions
    <2>1. req[r] \in RequestState
      BY DEF SafeInv, TypeOK
    <2>2. PICK R \in SUBSET Session : R = LiveSessions
      BY DEF LiveSessions
    <2> DEFINE state == [[req[r] EXCEPT !.pc = "closeCommit"] EXCEPT !.rows = R]
    <2>3. state \in RequestState /\ state.pc = "closeCommit" /\ state.rows = R
      BY <2>1 DEF RequestState, PC
    <2>4. req' = [req EXCEPT ![r] = state]
      BY <2>2 DEF SoftDeleteUser, SafeInv, TypeOK
    <2> QED
      BY <2>2, <2>3, <2>4
  <1>2. TypeOK'
    BY <1>1 DEF SoftDeleteUser, SafeInv, TypeOK
  <1>3. RequestShape'
    <2>1. Shape(state)'
      BY <1>1 DEF Shape
    <2>2. /\ \A k \in ResetToken : resets[k] \in ResetRow => resets'[k] \in ResetRow
          /\ \A k \in ResetToken : uses'[k] \in Nat /\ uses'[k] >= uses[k]
      BY DEF SafeInv, TypeOK, SoftDeleteUser
    <2> QED
      BY <1>1, <2>1, <2>2, ShapeFrame
  <1>4. CloserOwnsRow'
    <2>1. \A q \in Request : Closing(q)' <=> q = r
      BY <1>1 DEF SoftDeleteUser, UserRowFree, Closing, SafeInv, TypeOK
    <2>2. req'[r].rows = LiveSessions /\ \A s \in Session : Live(s)' => Live(s)
      BY <1>1 DEF SoftDeleteUser, Live, SafeInv, TypeOK
    <2> QED
      BY <2>1, <2>2 DEF CloserOwnsRow, LiveSessions
  <1>5. ClosedAccountSessionsRevoked' /\ UsedTokenChangedPassword'
    BY DEF SoftDeleteUser, SafeInv, ClosedAccountSessionsRevoked, UsedTokenChangedPassword, Live
  <1>6. OldPasswordSessionsRevoked'
    <2>1. ResetUnderWay => ResetUnderWay'
      BY <1>1 DEF SoftDeleteUser, SafeInv, TypeOK, ResetUnderWay
    <2> QED
      BY <2>1 DEF SoftDeleteUser, SafeInv, OldPasswordSessionsRevoked, Live
  <1>7. LateChangesCounted'
    BY <1>1, EmailFrame DEF SoftDeleteUser
  <1> QED
    BY <1>2, <1>3, <1>4, <1>5, <1>6, <1>7 DEF SafeInv

\* SoftDeleteUser's COMMIT: the matched sessions go with the account.
LEMMA CloseCommitSafe ==
    ASSUME SafeInv, NEW r \in Request, SoftDeleteCommit(r)
    PROVE  SafeInv'
  <1>1. PICK state \in RequestState : state = Idle /\ req' = [req EXCEPT ![r] = state]
    BY IdleFacts DEF Done, SoftDeleteCommit
  <1>2. Shape(state) /\ state.pc = "idle"
    BY <1>1, IdleFacts
  <1>3. /\ sessions' \in [Session -> SessionRow]
        /\ \A s \in Session :
               /\ Live(s)' => Live(s) /\ s \notin req[r].rows
               /\ sessions'[s].pw = sessions[s].pw
               /\ sessions'[s].overChange = sessions[s].overChange
               /\ sessions'[s].overClose = sessions[s].overClose
    <2>1. PICK R : R = req[r].rows
      OBVIOUS
    <2>2. Revoke(R)
      BY <2>1 DEF SoftDeleteCommit, Revoke
    <2> QED
      BY <2>1, <2>2, RevokeFacts DEF SafeInv
  <1>4. TypeOK'
    BY <1>1, <1>3 DEF SoftDeleteCommit, SafeInv, TypeOK
  <1>5. RequestShape'
    <2>1. Shape(state)'
      BY <1>2 DEF Shape
    <2>2. /\ \A k \in ResetToken : resets[k] \in ResetRow => resets'[k] \in ResetRow
          /\ \A k \in ResetToken : uses'[k] \in Nat /\ uses'[k] >= uses[k]
      BY DEF SafeInv, TypeOK, SoftDeleteCommit
    <2> QED
      BY <1>1, <2>1, <2>2, ShapeFrame
  <1>6. CloserOwnsRow'
    <2>1. \A q \in Request : ~Closing(q)'
      BY <1>1, <1>2 DEF SoftDeleteCommit, SafeInv, CloserOwnsRow, Closing, TypeOK
    <2> QED
      BY <2>1 DEF CloserOwnsRow
  <1>7. ClosedAccountSessionsRevoked' /\ UsedTokenChangedPassword'
    BY <1>3 DEF SoftDeleteCommit, SafeInv, CloserOwnsRow, ClosedAccountSessionsRevoked,
                UsedTokenChangedPassword
  <1>8. OldPasswordSessionsRevoked'
    <2>1. ResetUnderWay => ResetUnderWay'
      BY <1>1 DEF SoftDeleteCommit, Closing, SafeInv, TypeOK, ResetUnderWay
    <2> QED
      BY <1>3, <2>1 DEF SoftDeleteCommit, SafeInv, OldPasswordSessionsRevoked
  <1>9. LateChangesCounted'
    <2>1. Emailing' = Emailing /\ r \notin Emailing
      BY <1>1, <1>2 DEF SoftDeleteCommit, Closing, Emailing, SafeInv, TypeOK
    <2>2. CASE status = "CLOSED"
      BY <2>1, <2>2 DEF SoftDeleteCommit, SafeInv, LateChangesCounted
    <2>3. CASE status # "CLOSED"
      <3>1. Emailing \subseteq Request \ {r}
        BY <2>1 DEF Emailing
      <3>2. /\ IsFiniteSet(Request \ {r})
            /\ Cardinality(Request \ {r}) = Cardinality(Request) - 1
        BY AccountAssumption, FS_RemoveElement
      <3>3. Cardinality(Emailing) <= Cardinality(Request \ {r})
        BY <3>1, <3>2, FS_Subset
      <3>4. Cardinality(Emailing) < Cardinality(Request)
        BY <3>2, <3>3, EmailingFinite DEF SafeInv
      <3>5. status' = "CLOSED" /\ late' = 0
        BY <2>3 DEF SoftDeleteCommit, SafeInv, LateChangesCounted
      <3>6. Cardinality(Emailing') \in Nat /\ Cardinality(Emailing') < Cardinality(Request)
        BY <2>1, <3>4, EmailingFinite DEF SafeInv
      <3> QED
        BY <3>5, <3>6 DEF LateChangesCounted
    <2> QED
      BY <2>2, <2>3
  <1> QED
    BY <1>4, <1>5, <1>6, <1>7, <1>8, <1>9 DEF SafeInv

\* UpdateUserEmail's UPDATE: on a closed account it uses up one request that
\* had passed the status check.
LEMMA EmailUpdateSafe ==
    ASSUME SafeInv, NEW r \in Request, NEW e \in Email, EmailUpdate(r, e)
    PROVE  SafeInv'
  <1>1. PICK state \in RequestState : state = Idle /\ req' = [req EXCEPT ![r] = state]
    BY IdleFacts DEF Done, EmailUpdate
  <1>2. Shape(state) /\ state.pc = "idle"
    BY <1>1, IdleFacts
  <1>3. LateChangesCounted' /\ late' \in 0..Cardinality(Request)
    <2>1. Emailing' = Emailing \ {r} /\ r \in Emailing
      BY <1>1, <1>2 DEF EmailUpdate, Emailing, SafeInv, TypeOK
    <2>2. Cardinality(Emailing') = Cardinality(Emailing) - 1
      BY <2>1, FS_RemoveElement, EmailingFinite DEF SafeInv
    <2>3. /\ Cardinality(Emailing) \in Nat /\ Cardinality(Request) \in Nat
          /\ Cardinality(Emailing) - 1 \in Nat
          /\ late \in 0..Cardinality(Request)
      <3>1. Cardinality(Emailing') \in Nat
        BY <2>1, EmailingFinite, FS_RemoveElement, FS_CardinalityType DEF SafeInv
      <3> QED
        BY <2>2, <3>1, EmailingFinite DEF SafeInv, TypeOK
    <2>4. CASE status = "CLOSED"
      <3>1. late + Cardinality(Emailing) < Cardinality(Request)
        BY <2>4 DEF SafeInv, LateChangesCounted
      <3>2. late' = late + 1 /\ status' = "CLOSED"
        BY <2>3, <2>4, <3>1 DEF EmailUpdate
      <3> QED
        BY <2>2, <2>3, <3>1, <3>2 DEF LateChangesCounted
    <2>5. CASE status # "CLOSED"
      BY <2>3, <2>5 DEF EmailUpdate, SafeInv, LateChangesCounted
    <2> QED
      BY <2>4, <2>5
  <1>4. TypeOK'
    BY <1>1, <1>3 DEF EmailUpdate, SafeInv, TypeOK
  <1>5. RequestShape'
    <2>1. Shape(state)'
      BY <1>2 DEF Shape
    <2>2. /\ \A k \in ResetToken : resets[k] \in ResetRow => resets'[k] \in ResetRow
          /\ \A k \in ResetToken : uses'[k] \in Nat /\ uses'[k] >= uses[k]
      BY DEF SafeInv, TypeOK, EmailUpdate
    <2> QED
      BY <1>1, <2>1, <2>2, ShapeFrame
  <1>6. CloserOwnsRow'
    BY <1>1, <1>2, CloserFrame DEF EmailUpdate
  <1>7. ClosedAccountSessionsRevoked' /\ UsedTokenChangedPassword'
    BY DEF EmailUpdate, SafeInv, ClosedAccountSessionsRevoked, UsedTokenChangedPassword, Live
  <1>8. OldPasswordSessionsRevoked'
    <2>1. ResetUnderWay => ResetUnderWay'
      BY <1>1 DEF EmailUpdate, SafeInv, TypeOK, ResetUnderWay
    <2> QED
      BY <2>1 DEF EmailUpdate, SafeInv, OldPasswordSessionsRevoked, Live
  <1> QED
    BY <1>3, <1>4, <1>5, <1>6, <1>7, <1>8 DEF SafeInv

\* PasswordResetInit's INSERT: a fresh row, not used.
LEMMA ResetInsertSafe ==
    ASSUME SafeInv, NEW r \in Request, NEW k \in ResetToken, ResetInitInsert(r, k)
    PROVE  SafeInv'
  <1>1. PICK state \in RequestState : state = Idle /\ req' = [req EXCEPT ![r] = state]
    BY IdleFacts DEF Done, ResetInitInsert
  <1>2. Shape(state) /\ state.pc = "idle"
    BY <1>1, IdleFacts
  <1>3. PICK row \in ResetRow : resets' = [resets EXCEPT ![k] = row] /\ ~row.used
    <2> DEFINE row == [exp |-> now + PasswordResetTTL, used |-> FALSE]
    <2>1. row \in ResetRow
      BY AccountAssumption DEF SafeInv, TypeOK, ResetRow
    <2>2. resets' = [resets EXCEPT ![k] = row]
      BY DEF ResetInitInsert
    <2> QED
      BY <2>1, <2>2
  <1>4. TypeOK'
    BY <1>1, <1>3 DEF ResetInitInsert, SafeInv, TypeOK
  <1>5. RequestShape'
    <2>1. Shape(state)'
      BY <1>2 DEF Shape
    <2>2. \A j \in ResetToken : resets[j] \in ResetRow => resets'[j] \in ResetRow
      <3>1. \A j \in ResetToken : resets'[j] = IF j = k THEN row ELSE resets[j]
        BY <1>3 DEF SafeInv, TypeOK
      <3> QED
        BY <3>1
    <2>3. \A j \in ResetToken : uses'[j] \in Nat /\ uses'[j] >= uses[j]
      BY DEF SafeInv, TypeOK, ResetInitInsert
    <2> QED
      BY <1>1, <2>1, <2>2, <2>3, ShapeFrame
  <1>6. CloserOwnsRow'
    BY <1>1, <1>2, CloserFrame DEF ResetInitInsert
  <1>7. ClosedAccountSessionsRevoked'
    BY DEF ResetInitInsert, SafeInv, ClosedAccountSessionsRevoked, Live
  <1>8. UsedTokenChangedPassword'
    BY <1>3 DEF ResetInitInsert, SafeInv, TypeOK, UsedTokenChangedPassword
  <1>9. OldPasswordSessionsRevoked'
    <2>1. ResetUnderWay => ResetUnderWay'
      BY <1>1 DEF ResetInitInsert, SafeInv, TypeOK, ResetUnderWay
    <2> QED
      BY <2>1 DEF ResetInitInsert, SafeInv, OldPasswordSessionsRevoked, Live
  <1>10. LateChangesCounted'
    BY <1>1, <1>2, EmailFrame DEF ResetInitInsert
  <1> QED
    BY <1>4, <1>5, <1>6, <1>7, <1>8, <1>9, <1>10 DEF SafeInv

\* PasswordResetConfirm selects a row that exists and is unused.
LEMMA ConfirmSelectSafe ==
    ASSUME SafeInv, NEW r \in Request, NEW k \in ResetToken, NEW p \in Password,
           ConfirmSelect(r, k, p)
    PROVE  SafeInv'
  <1>1. PICK state \in RequestState :
            /\ req' = [req EXCEPT ![r] = state]
            /\ state.pc = "setPassword" /\ state.given = p /\ state.tok = k
    <2> DEFINE state == [Idle EXCEPT !.pc = "setPassword", !.given = p, !.tok = k]
    <2>1. state \in RequestState /\ state.pc = "setPassword" /\ state.given = p /\ state.tok = k
      BY IdleFacts DEF RequestState, PC
    <2>2. req' = [req EXCEPT ![r] = state]
      BY DEF ConfirmSelect
    <2> QED
      BY <2>1, <2>2
  <1>2. Shape(state)
    <2>1. resets[k] \in ResetRow
      BY DEF ConfirmSelect, SafeInv, TypeOK
    <2> QED
      BY <1>1, <2>1 DEF Shape
  <1>3. req[r].pc = "idle"
    BY IdleFacts DEF ConfirmSelect
  <1> QED
    BY <1>1, <1>2, <1>3, CountersKept, RequestStep DEF ConfirmSelect

\* SetUserPassword: from here until the sessions are revoked a reset is under way.
LEMMA SetPasswordSafe ==
    ASSUME SafeInv, NEW r \in Request, ConfirmSetPassword(r)
    PROVE  SafeInv'
  <1>1. PICK k \in ResetToken : k = req[r].tok /\ resets[k] \in ResetRow
    BY DEF ConfirmSetPassword, SafeInv, RequestShape, Shape
  <1>2. PICK state \in RequestState :
            /\ req' = [req EXCEPT ![r] = state]
            /\ state.pc = "markUsed" /\ state.given = req[r].given /\ state.tok = k
    BY <1>1, GotoFacts DEF ConfirmSetPassword, SafeInv, PC
  <1>3. req[r].given \in Password
    BY DEF ConfirmSetPassword, SafeInv, RequestShape, Shape
  <1>4. /\ \A j \in ResetToken : uses'[j] \in 0..2 /\ uses'[j] >= uses[j]
        /\ uses'[k] >= 1 /\ uses' \in [ResetToken -> 0..2]
    BY <1>1 DEF ConfirmSetPassword, SafeInv, TypeOK
  <1>5. TypeOK'
    BY <1>2, <1>3, <1>4 DEF ConfirmSetPassword, SafeInv, TypeOK
  <1>6. RequestShape'
    <2>1. Shape(state)'
      BY <1>1, <1>2, <1>3, <1>4 DEF Shape, ConfirmSetPassword
    <2>2. /\ \A j \in ResetToken : resets[j] \in ResetRow => resets'[j] \in ResetRow
          /\ \A j \in ResetToken : uses'[j] \in Nat /\ uses'[j] >= uses[j]
      BY <1>4 DEF ConfirmSetPassword
    <2> QED
      BY <1>2, <2>1, <2>2, ShapeFrame
  <1>7. CloserOwnsRow'
    BY <1>2, CloserFrame DEF ConfirmSetPassword
  <1>8. ClosedAccountSessionsRevoked'
    BY DEF ConfirmSetPassword, SafeInv, ClosedAccountSessionsRevoked, Live
  <1>9. UsedTokenChangedPassword'
    BY <1>4 DEF ConfirmSetPassword, SafeInv, TypeOK, UsedTokenChangedPassword
  <1>10. OldPasswordSessionsRevoked'
    BY <1>2 DEF OldPasswordSessionsRevoked, ResetUnderWay, SafeInv, TypeOK
  <1>11. LateChangesCounted'
    BY <1>2, EmailFrame DEF ConfirmSetPassword
  <1> QED
    BY <1>5, <1>6, <1>7, <1>8, <1>9, <1>10, <1>11 DEF SafeInv

\* The token is marked after the password changed.
LEMMA MarkUsedSafe ==
    ASSUME SafeInv, NEW r \in Request, ConfirmMarkUsed(r)
    PROVE  SafeInv'
  <1>1. PICK k \in ResetToken : k = req[r].tok /\ resets[k] \in ResetRow /\ uses[k] >= 1
    BY DEF ConfirmMarkUsed, SafeInv, RequestShape, Shape
  <1>2. PICK state \in RequestState :
            req' = [req EXCEPT ![r] = state] /\ state.pc = "revokeAll"
    BY GotoFacts DEF ConfirmMarkUsed, SafeInv, PC
  <1>3. PICK row \in ResetRow : resets' = [resets EXCEPT ![k] = row]
    <2> DEFINE row == [resets[k] EXCEPT !.used = TRUE]
    <2>1. row \in ResetRow
      BY <1>1 DEF ResetRow
    <2>2. resets' = [resets EXCEPT ![k] = row]
      BY <1>1 DEF ConfirmMarkUsed
    <2> QED
      BY <2>1, <2>2
  <1>4. TypeOK'
    BY <1>2, <1>3 DEF ConfirmMarkUsed, SafeInv, TypeOK
  <1>5. RequestShape'
    <2>1. Shape(state)'
      BY <1>2 DEF Shape
    <2>2. /\ \A j \in ResetToken : resets[j] \in ResetRow => resets'[j] \in ResetRow
          /\ \A j \in ResetToken : uses'[j] \in Nat /\ uses'[j] >= uses[j]
      BY <1>3 DEF ConfirmMarkUsed, SafeInv, TypeOK
    <2> QED
      BY <1>2, <2>1, <2>2, ShapeFrame
  <1>6. CloserOwnsRow'
    BY <1>2, CloserFrame DEF ConfirmMarkUsed
  <1>7. ClosedAccountSessionsRevoked'
    BY DEF ConfirmMarkUsed, SafeInv, ClosedAccountSessionsRevoked, Live
  <1>8. UsedTokenChangedPassword'
    <2>1. uses' = uses /\ \A j \in ResetToken : j # k => resets'[j] = resets[j]
      BY <1>3 DEF ConfirmMarkUsed, SafeInv, TypeOK
    <2> QED
      BY <1>1, <2>1 DEF SafeInv, UsedTokenChangedPassword
  <1>9. OldPasswordSessionsRevoked'
    BY <1>2 DEF OldPasswordSessionsRevoked, ResetUnderWay, SafeInv, TypeOK
  <1>10. LateChangesCounted'
    BY <1>2, EmailFrame DEF ConfirmMarkUsed
  <1> QED
    BY <1>4, <1>5, <1>6, <1>7, <1>8, <1>9, <1>10 DEF SafeInv

\* RevokeAllSessionsForUser leaves no session open.
LEMMA RevokeAllSafe ==
    ASSUME SafeInv, NEW r \in Request, ConfirmRevokeAll(r)
    PROVE  SafeInv'
  <1>1. PICK state \in RequestState :
            req' = [req EXCEPT ![r] = state] /\ state.pc = "unlock"
    BY GotoFacts DEF ConfirmRevokeAll, SafeInv, PC
  <1>2. sessions' \in [Session -> SessionRow] /\ \A s \in Session : ~Live(s)'
    <2>1. PICK R : R = LiveSessions
      OBVIOUS
    <2>2. Revoke(R)
      BY <2>1 DEF ConfirmRevokeAll, Revoke
    <2> QED
      BY <2>1, <2>2, RevokeFacts DEF SafeInv, LiveSessions
  <1>3. TypeOK'
    BY <1>1, <1>2 DEF ConfirmRevokeAll, SafeInv, TypeOK
  <1>4. RequestShape'
    <2>1. Shape(state)'
      BY <1>1 DEF Shape
    <2>2. /\ \A j \in ResetToken : resets[j] \in ResetRow => resets'[j] \in ResetRow
          /\ \A j \in ResetToken : uses'[j] \in Nat /\ uses'[j] >= uses[j]
      BY DEF ConfirmRevokeAll, SafeInv, TypeOK
    <2> QED
      BY <1>1, <2>1, <2>2, ShapeFrame
  <1>5. CloserOwnsRow'
    <2>1. \A q \in Request : Closing(q)' => Closing(q)
      BY <1>1 DEF SafeInv, TypeOK, Closing
    <2> QED
      BY <1>2, <2>1 DEF CloserOwnsRow, SafeInv
  <1>6. ClosedAccountSessionsRevoked' /\ OldPasswordSessionsRevoked'
    BY <1>2 DEF ClosedAccountSessionsRevoked, OldPasswordSessionsRevoked
  <1>7. UsedTokenChangedPassword'
    BY DEF ConfirmRevokeAll, SafeInv, UsedTokenChangedPassword
  <1>8. LateChangesCounted'
    BY <1>1, EmailFrame DEF ConfirmRevokeAll
  <1> QED
    BY <1>3, <1>4, <1>5, <1>6, <1>7, <1>8 DEF SafeInv

\* A failed statement ends the request or skips the write it stands for.
LEMMA FailSafe ==
    ASSUME SafeInv, NEW r \in Request, Fail(r)
    PROVE  SafeInv'
  <1>1. CountersTyped' /\ faults' # 0
    BY AccountAssumption DEF Fail, CountersTyped, SafeInv, TypeOK
  <1>2. CASE req[r].pc = "revokeAll"
    BY <1>1, <1>2, GotoStep DEF Fail, PC
  <1>3. CASE req[r].pc = "clear"
    <2>1. req[r].given = req[r].snap
      BY <1>3 DEF SafeInv, RequestShape, Shape
    <2> QED
      BY <1>1, <1>3, <2>1, GotoStep DEF Fail, PC
  <1>4. CASE req[r].pc = "lockCheck"
    <2>1. CASE req[r].given = req[r].snap
      BY <1>1, <1>4, <2>1, GotoStep DEF Fail, PasswordOutcome, PC
    <2>2. CASE req[r].given # req[r].snap
      BY <1>1, <1>4, <2>2, GotoStep DEF Fail, PasswordOutcome, PC
    <2> QED
      BY <2>1, <2>2
  <1>5. CASE req[r].pc \notin {"revokeAll", "clear", "lockCheck"}
    BY <1>1, <1>5, DoneStep DEF Fail
  <1> QED
    BY <1>2, <1>3, <1>4, <1>5

\* The steps that only begin or end a request, or unlock the account.
LEMMA SimpleSafe ==
    ASSUME SafeInv, NEW r \in Request,
           \/ UnlockUser(r) \/ ResetInitRead(r) \/ ConfirmRefused(r) \/ ConfirmUnlock(r)
           \/ \E s \in Session : CloseBegin(r, s) \/ EmailSelect(r, s)
    PROVE  SafeInv'
  <1>1. CASE UnlockUser(r)
    <2>1. CountersTyped'
      BY <1>1, AccountAssumption DEF UnlockUser, resetLockout, CountersTyped, SafeInv, TypeOK
    <2> QED
      BY <1>1, <2>1, ClockSafe DEF UnlockUser
  <1>2. CASE ResetInitRead(r)
    BY <1>2, IdleFacts, CountersKept, GotoStep DEF ResetInitRead, PC
  <1>3. CASE ConfirmRefused(r)
    BY <1>3, CountersKept, DoneStep DEF ConfirmRefused
  <1>4. CASE ConfirmUnlock(r)
    <2>1. CountersTyped' /\ faults' = faults
      BY <1>4, AccountAssumption DEF ConfirmUnlock, resetLockout, CountersTyped, SafeInv, TypeOK
    <2> QED
      BY <1>4, <2>1, DoneStep DEF ConfirmUnlock
  <1>5. ASSUME NEW s \in Session, CloseBegin(r, s) PROVE SafeInv'
    BY <1>5, IdleFacts, CountersKept, GotoStep DEF CloseBegin, PC
  <1>6. ASSUME NEW s \in Session, EmailSelect(r, s) PROVE SafeInv'
    BY <1>6, IdleFacts, CountersKept, GotoStep DEF EmailSelect, PC
  <1> QED
    BY <1>1, <1>2, <1>3, <1>4, <1>5, <1>6

\* Every step keeps the invariant.
LEMMA NextSafe ==
    ASSUME SafeInv, [Next]_vars
    PROVE  SafeInv'
  <1>1. CASE UNCHANGED vars
    <2>1. CountersTyped'
      BY <1>1 DEF vars, CountersTyped, SafeInv, TypeOK
    <2> QED
      BY <1>1, <2>1, ClockSafe DEF vars
  <1>2. CASE Tick
    <2>1. CountersTyped'
      BY <1>2, AccountAssumption DEF Tick, CountersTyped, SafeInv, TypeOK
    <2> QED
      BY <1>2, <2>1, ClockSafe DEF Tick
  <1>3. ASSUME NEW r \in Request,
               \/ VerifyUserToken(r) \/ UnlockUser(r) \/ ResetInitRead(r)
               \/ \E p \in Password : LoginRead(r, p)
               \/ LoginCheck(r) \/ LoginFail(r) \/ LoginMFA(r) \/ LoginClear(r)
               \/ \E s \in Session : LoginInsert(r, s) \/ CloseBegin(r, s) \/ EmailSelect(r, s)
               \/ \E e \in Email : EmailUpdate(r, e)
               \/ SoftDeleteUser(r) \/ SoftDeleteCommit(r)
               \/ \E k \in ResetToken : ResetInitInsert(r, k)
               \/ \E k \in ResetToken, p \in Password : ConfirmSelect(r, k, p)
               \/ ConfirmRefused(r) \/ ConfirmSetPassword(r) \/ ConfirmMarkUsed(r)
               \/ ConfirmRevokeAll(r) \/ ConfirmUnlock(r)
               \/ Fail(r)
        PROVE  SafeInv'
    BY <1>3, VerifySafe, SimpleSafe, LoginSafe, InsertSafe, EmailUpdateSafe, CloseBeginSafe,
       CloseCommitSafe, ResetInsertSafe, ConfirmSelectSafe, SetPasswordSafe, MarkUsedSafe,
       RevokeAllSafe, FailSafe
  <1> QED
    BY <1>1, <1>2, <1>3 DEF Next

-----------------------------------------------------------------------------
\* The invariant holds in every state the statements of login, reset and
\* closure reach.
THEOREM Safety == Spec => []SafeInv
  <1> QED
    BY InitSafe, NextSafe, PTL DEF Spec

\* Every variable keeps its type; the late-change counter stays below the bound.
THEOREM TypeCorrect == Spec => []TypeOK
  <1>1. SafeInv => TypeOK
    BY DEF SafeInv
  <1> QED
    BY <1>1, Safety, PTL

\* PasswordResetConfirm revokes every session of the old password, except
\* those of logins that overlapped the change, unless a statement failed.
THEOREM OldSessionsRevoked == Spec => []OldPasswordSessionsRevoked
  <1>1. SafeInv => OldPasswordSessionsRevoked
    BY DEF SafeInv
  <1> QED
    BY <1>1, Safety, PTL

\* SoftDeleteUser leaves no session open, except those of logins that inserted
\* their row after its UPDATE of the sessions.
THEOREM ClosureRevokes == Spec => []ClosedAccountSessionsRevoked
  <1>1. SafeInv => ClosedAccountSessionsRevoked
    BY DEF SafeInv
  <1> QED
    BY <1>1, Safety, PTL

\* PasswordResetConfirm uses up a token only after SetUserPassword succeeded.
THEOREM TokenSpentByChange == Spec => []UsedTokenChangedPassword
  <1>1. SafeInv => UsedTokenChangedPassword
    BY DEF SafeInv
  <1> QED
    BY <1>1, Safety, PTL

\* UpdateUserEmail changes a closed account's e-mail only for requests that had
\* read the status before SoftDeleteUser committed.
THEOREM LateEmailBounded == Spec => []ClosedEmailChangeOverlaps
  <1>1. SafeInv => ClosedEmailChangeOverlaps
    <2> SUFFICES ASSUME SafeInv PROVE late < Cardinality(Request)
      BY DEF ClosedEmailChangeOverlaps
    <2>1. /\ Cardinality(Emailing) \in Nat /\ Cardinality(Request) \in Nat
          /\ Cardinality(Request) > 0 /\ late \in Nat
      BY EmailingFinite DEF SafeInv, TypeOK
    <2> QED
      BY <2>1 DEF SafeInv, LateChangesCounted
  <1> QED
    BY <1>1, Safety, PTL
=============================================================================

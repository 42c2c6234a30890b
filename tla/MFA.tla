-------------------------------- MODULE MFA --------------------------------
(***************************************************************************)
(* Second factors of one account in the Postgres store                      *)
(* (internal/dbstore.go, internal/handlers.go): the tables mfa_factors and  *)
(* mfa_recovery_codes, and the requests that enrol, confirm and disable     *)
(* factors, reissue recovery codes, and answer the challenge of a login or  *)
(* of a password reset.  A step is one statement or one COMMIT.  A one-time *)
(* password fits the secret of exactly one factor and changes no row.       *)
(***************************************************************************)
EXTENDS Naturals, FiniteSets

CONSTANTS
    Factor, Request,
    Batch,              \* reissues of recovery codes
    Slot,               \* codes of one reissue (ten in the code)
    NoFactor, NoCode, NoBatch, NoRequest,
    MaxFaults           \* bound on failed statements

Code == Batch \X Slot

ASSUME MFAAssumption ==
    /\ NoFactor \notin Factor /\ NoCode \notin Code
    /\ NoBatch \notin Batch /\ NoRequest \notin Request
    /\ IsFiniteSet(Factor)
    /\ MaxFaults \in Nat

VARIABLES
    factors,    \* table mfa_factors: state and age of each factor
    codes,      \* table mfa_recovery_codes
    rowLock,    \* the transaction that updated a code and has not committed
    req,        \* what each request is doing
    faults,
    proven,     \* history: factors whose two codes a client has shown
    accepted,   \* history: how often a code answered a challenge (2: several)
    overlap,    \* history: reissues that were under way together with a batch
    account     \* users.status, as far as EnrollMFA tells it apart

vars == <<factors, codes, rowLock, req, faults, proven, accepted, overlap, account>>

FactorRow == [exists : BOOLEAN, confirmed : BOOLEAN, disabled : BOOLEAN, created_at : Nat]

NoRow == [exists |-> FALSE, confirmed |-> FALSE, disabled |-> FALSE, created_at |-> 0]

RequestState ==
    [pc : {"idle", "enroll", "verify", "reissue", "challenge", "consume"},
     factor : Factor \cup {NoFactor}, code : Code \cup {NoCode},
     batch : Batch \cup {NoBatch}, rows : SUBSET Code]

Idle ==
    [pc |-> "idle", factor |-> NoFactor, code |-> NoCode, batch |-> NoBatch, rows |-> {}]

TypeOK ==
    /\ factors \in [Factor -> FactorRow]
    /\ codes \in [Code -> {"none", "unused", "used", "deleted"}]
    /\ rowLock \in [Code -> Request \cup {NoRequest}]
    /\ req \in [Request -> RequestState]
    /\ faults \in 0..MaxFaults
    /\ proven \in SUBSET Factor
    /\ accepted \in [Code -> 0..2]
    /\ overlap \in [Batch -> SUBSET Batch]
    /\ account \in {"open", "closed"}
    /\ \A r \in Request :
           /\ req[r].pc = "verify" => req[r].factor \in Factor
           /\ req[r].pc = "consume" => req[r].code \in Code /\ rowLock[req[r].code] = r

Init ==
    /\ factors = [f \in Factor |-> NoRow]
    /\ codes = [c \in Code |-> "none"]
    /\ rowLock = [c \in Code |-> NoRequest]
    /\ req = [r \in Request |-> Idle]
    /\ faults = 0
    /\ proven = {}
    /\ accepted = [c \in Code |-> 0]
    /\ overlap = [b \in Batch |-> {}]
    /\ account = "open"

-----------------------------------------------------------------------------
\* Mutant: disabled_at is not looked at.
confirmedFactors_AnyState == {f \in Factor : factors[f].exists /\ factors[f].confirmed}

\* confirmedFactors: WHERE confirmed=true AND disabled_at IS NULL.
confirmedFactors ==
    {f \in Factor : factors[f].exists /\ factors[f].confirmed /\ ~factors[f].disabled}

Pending ==
    {f \in Factor : factors[f].exists /\ ~factors[f].confirmed /\ ~factors[f].disabled}

\* ORDER BY created_at DESC LIMIT 1.
Latest(f) == f \in Pending /\ \A g \in Pending : factors[g].created_at <= factors[f].created_at

Stored == {c \in Code : codes[c] \in {"unused", "used"}}

BatchCodes(b) == {b} \X Slot

Reissuing == {req[q].batch : q \in {p \in Request : req[p].pc = "reissue"}}

Unlocked(c) == rowLock[c] = NoRequest

Done(r) == req' = [req EXCEPT ![r] = Idle]

-----------------------------------------------------------------------------
(* Factors *)

\* SoftDeleteUser, whose statements Accounts models: no factor and no recovery
\* code is touched, and the requests under way go on.
SoftDeleteUser ==
    /\ account' = "closed"
    /\ UNCHANGED <<factors, codes, rowLock, req, faults, proven, accepted, overlap>>

\* EnrollMFA: SELECT status; ErrAccountClosed ends the request.
EnrollSelect(r) ==
    /\ req[r] = Idle
    /\ req' = [req EXCEPT ![r] =
           IF account = "closed" THEN Idle ELSE [Idle EXCEPT !.pc = "enroll"]]
    /\ UNCHANGED <<factors, codes, rowLock, faults, proven, accepted, overlap, account>>

\* EnrollMFA: INSERT INTO mfa_factors, unconfirmed.  The status is not looked at
\* again, so an account closed since then gets the factor too.
EnrollMFA(r, f) ==
    /\ req[r].pc = "enroll"
    /\ ~factors[f].exists
    /\ factors' = [factors EXCEPT ![f] =
           [NoRow EXCEPT !.exists = TRUE,
                         !.created_at = 1 + Cardinality({g \in Factor : factors[g].exists})]]
    /\ Done(r)
    /\ UNCHANGED <<codes, rowLock, faults, proven, accepted, overlap, account>>

\* Mutant: that the SELECT found no row is not noticed.
VerifySelect_NoRows(r) ==
    \E f \in Factor \cup {NoFactor} :
        /\ req[r] = Idle
        /\ IF Pending = {} THEN f = NoFactor ELSE Latest(f)
        /\ req' = [req EXCEPT ![r] = [Idle EXCEPT !.pc = "verify", !.factor = f]]
        /\ proven' = proven \cup ({f} \cap Factor)
        /\ UNCHANGED <<factors, codes, rowLock, faults, accepted, overlap, account>>

\* VerifyMFA: the newest pending factor is selected and both codes fit it ...
VerifySelect(r) ==
    \E f \in Factor :
        /\ req[r] = Idle
        /\ Latest(f)
        /\ req' = [req EXCEPT ![r] = [Idle EXCEPT !.pc = "verify", !.factor = f]]
        /\ proven' = proven \cup {f}
        /\ UNCHANGED <<factors, codes, rowLock, faults, accepted, overlap, account>>

\* Mutant: the UPDATE names the newest pending factor, not the one selected.
VerifyUpdate_Newest(r) ==
    /\ req[r].pc = "verify"
    /\ factors' = [f \in Factor |->
           IF Latest(f) THEN [factors[f] EXCEPT !.confirmed = TRUE] ELSE factors[f]]
    /\ Done(r)
    /\ UNCHANGED <<codes, rowLock, faults, proven, accepted, overlap, account>>

\* ... then UPDATE mfa_factors SET confirmed=true WHERE id=...
VerifyUpdate(r) ==
    /\ req[r].pc = "verify"
    /\ factors' = [factors EXCEPT ![req[r].factor].confirmed = TRUE]
    /\ Done(r)
    /\ UNCHANGED <<codes, rowLock, faults, proven, accepted, overlap, account>>

\* DisableFactor: disabled_at is set and confirmed cleared.  The SELECT before it
\* reads the owner, which never changes.
DisableFactor(r, f) ==
    /\ req[r] = Idle
    /\ factors[f].exists
    /\ factors' = [factors EXCEPT ![f].disabled = TRUE, ![f].confirmed = FALSE]
    /\ UNCHANGED <<codes, rowLock, req, faults, proven, accepted, overlap, account>>

-----------------------------------------------------------------------------
(* Recovery codes *)

\* GenerateRecoveryCodes: the DELETE fixes the rows it will remove.  Rows that
\* another reissue commits after this point are not among them.
ReissueDelete(r, b) ==
    /\ req[r] = Idle
    /\ b \notin Reissuing
    /\ \A c \in BatchCodes(b) : codes[c] = "none"
    /\ req' = [req EXCEPT ![r] = [Idle EXCEPT !.pc = "reissue", !.batch = b, !.rows = Stored]]
    /\ overlap' = [d \in Batch |->
           IF d = b THEN Reissuing
           ELSE IF d \in Reissuing THEN overlap[d] \cup {b} ELSE overlap[d] \ {b}]
    /\ UNCHANGED <<factors, codes, rowLock, faults, proven, accepted, account>>

\* Mutant: only used codes are removed.
ReissueCommit_UsedOnly(r) ==
    /\ req[r].pc = "reissue"
    /\ \A c \in req[r].rows : Unlocked(c)
    /\ codes' = [c \in Code |->
           IF c \in BatchCodes(req[r].batch) THEN "unused"
           ELSE IF c \in req[r].rows /\ codes[c] = "used" THEN "deleted" ELSE codes[c]]
    /\ Done(r)
    /\ UNCHANGED <<factors, rowLock, faults, proven, accepted, overlap, account>>

\* Its row locks granted, the DELETE, the INSERTs and the COMMIT.
ReissueCommit(r) ==
    /\ req[r].pc = "reissue"
    /\ \A c \in req[r].rows : Unlocked(c)
    /\ codes' = [c \in Code |->
           IF c \in BatchCodes(req[r].batch) THEN "unused"
           ELSE IF c \in req[r].rows THEN "deleted" ELSE codes[c]]
    /\ Done(r)
    /\ UNCHANGED <<factors, rowLock, faults, proven, accepted, overlap, account>>

\* Login or PasswordResetConfirm finds a confirmed factor: a code is demanded.
ChallengeBegin(r) ==
    /\ req[r] = Idle
    /\ confirmedFactors # {}
    /\ req' = [req EXCEPT ![r] = [Idle EXCEPT !.pc = "challenge"]]
    /\ UNCHANGED <<factors, codes, rowLock, faults, proven, accepted, overlap, account>>

\* validateMFA: a one-time password of a factor confirmed by now, or a code that
\* fits nothing; either way no row changes.
ChallengeEnd(r) ==
    /\ req[r].pc = "challenge"
    /\ Done(r)
    /\ UNCHANGED <<factors, codes, rowLock, faults, proven, accepted, overlap, account>>

\* Mutant: used_at IS NULL is not part of the UPDATE's condition.
RecoveryUpdate_AnyState(r, c) ==
    /\ req[r].pc = "challenge"
    /\ c \in Stored
    /\ Unlocked(c)
    /\ rowLock' = [rowLock EXCEPT ![c] = r]
    /\ req' = [req EXCEPT ![r].pc = "consume", ![r].code = c]
    /\ UNCHANGED <<factors, codes, faults, proven, accepted, overlap, account>>

\* validateMFA: UPDATE mfa_recovery_codes SET used_at ... AND used_at IS NULL
\* hits a row; a concurrent one waits and looks at the condition again.
RecoveryUpdate(r, c) ==
    /\ req[r].pc = "challenge"
    /\ codes[c] = "unused"
    /\ Unlocked(c)
    /\ rowLock' = [rowLock EXCEPT ![c] = r]
    /\ req' = [req EXCEPT ![r].pc = "consume", ![r].code = c]
    /\ UNCHANGED <<factors, codes, faults, proven, accepted, overlap, account>>

Accept(c) == accepted' = [accepted EXCEPT ![c] = IF @ < 2 THEN @ + 1 ELSE @]

\* COMMIT, and the challenge is passed.
RecoveryCommit(r) ==
    LET c == req[r].code IN
        /\ req[r].pc = "consume"
        /\ codes' = [codes EXCEPT ![c] = "used"]
        /\ rowLock' = [rowLock EXCEPT ![c] = NoRequest]
        /\ Accept(c)
        /\ Done(r)
        /\ UNCHANGED <<factors, faults, proven, overlap, account>>

\* The COMMIT fails and its error is discarded: the code is accepted, the row
\* rolled back.
RecoveryCommitLost(r) ==
    LET c == req[r].code IN
        /\ req[r].pc = "consume"
        /\ faults < MaxFaults
        /\ faults' = faults + 1
        /\ rowLock' = [rowLock EXCEPT ![c] = NoRequest]
        /\ Accept(c)
        /\ Done(r)
        /\ UNCHANGED <<factors, codes, proven, overlap, account>>

\* Any other statement fails, or the process dies: the request ends, its
\* transaction rolled back and the code it had updated as it was.
Fail(r) ==
    /\ faults < MaxFaults
    /\ req[r] # Idle
    /\ faults' = faults + 1
    /\ rowLock' = [c \in Code |-> IF rowLock[c] = r THEN NoRequest ELSE rowLock[c]]
    /\ Done(r)
    /\ UNCHANGED <<factors, codes, proven, accepted, overlap, account>>

Step(r) ==
    \/ EnrollSelect(r)
    \/ \E f \in Factor : EnrollMFA(r, f) \/ DisableFactor(r, f)
    \/ VerifySelect(r) \/ VerifyUpdate(r)
    \/ \E b \in Batch : ReissueDelete(r, b)
    \/ ReissueCommit(r)
    \/ ChallengeBegin(r) \/ ChallengeEnd(r)
    \/ \E c \in Code : RecoveryUpdate(r, c)
    \/ RecoveryCommit(r) \/ RecoveryCommitLost(r)
    \/ Fail(r)

Next == SoftDeleteUser \/ \E r \in Request : Step(r)

Spec == Init /\ [][Next]_vars

-----------------------------------------------------------------------------
(* Properties *)

\* VerifyMFA selects a factor in one statement and confirms it in another: the
\* factor that becomes part of the challenge is one whose codes the client has
\* shown, whatever was enrolled or disabled in between.
OnlyProvenFactorsCount == confirmedFactors \subseteq proven

\* A factor that was disabled is never part of a challenge again, not even when
\* a VerifyMFA that selected it earlier confirms it after that.
DisabledIsFinal ==
    [][\A f \in Factor : factors[f].disabled => f \notin confirmedFactors']_vars

\* "recovery codes (single-use, hashed)": while no COMMIT was lost, a code
\* answers one challenge, however many logins present it at once.
RecoveryCodeSingleUse == faults = 0 => \A c \in Code : accepted[c] <= 1

\* "re-issue invalidates prior codes" (PROJECT_PLAN.md) up to overlap: codes of two
\* reissues are both usable only if the reissues overlapped, as a DELETE cannot
\* see rows that are committed after it began.
OnlyOverlappingBatchesCoexist ==
    \A c, d \in Code :
        (codes[c] = "unused" /\ codes[d] = "unused" /\ c[1] # d[1]) => d[1] \in overlap[c[1]]
=============================================================================

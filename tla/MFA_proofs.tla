----------------------------- MODULE MFA_proofs -----------------------------
(***************************************************************************)
(* Proofs about MFA for any factors, requests, batches of recovery codes    *)
(* and number of failed statements.                                         *)
(***************************************************************************)
EXTENDS MFA, FiniteSetTheorems, TLAPS

\* A factor is confirmed only if its codes were shown, and only a row that
\* exists was disabled.
FactorRowsSound ==
    \A f \in Factor :
        /\ factors[f].confirmed => f \in proven
        /\ factors[f].disabled => factors[f].exists

\* The factor a VerifyMFA is about to confirm is the one whose codes it checked.
VerifyProven == \A r \in Request : req[r].pc = "verify" => req[r].factor \in proven

\* A code whose UPDATE has not committed is still unused in the table.
ConsumeUnused == \A r \in Request : req[r].pc = "consume" => codes[req[r].code] = "unused"

\* While no COMMIT was lost, a code that answered a challenge is used or gone.
AcceptedSpent ==
    faults = 0 =>
        \A c \in Code :
            \/ accepted[c] = 0
            \/ accepted[c] = 1 /\ codes[c] \in {"used", "deleted"}

\* The batches being issued are new, distinct, and know of each other.
ReissueOwnsBatch ==
    \A r \in Request :
        req[r].pc = "reissue" =>
            /\ req[r].batch \in Batch
            /\ \A c \in Code : c[1] = req[r].batch => codes[c] = "none"
            /\ \A c \in req[r].rows : c \in Code /\ codes[c] # "none"
            /\ \A q \in Request :
                   q # r /\ req[q].pc = "reissue" =>
                       /\ req[q].batch # req[r].batch
                       /\ req[q].batch \in overlap[req[r].batch]

\* A usable code is one a running reissue will delete, or one of a reissue that
\* ran together with it.
ReissueCoversCodes ==
    \A r \in Request : \A c \in Code :
        req[r].pc = "reissue" /\ codes[c] = "unused" =>
            \/ c \in req[r].rows
            \/ c[1] \in overlap[req[r].batch] /\ req[r].batch \in overlap[c[1]]

FactorInv == FactorRowsSound /\ VerifyProven

CodeInv ==
    /\ ConsumeUnused
    /\ AcceptedSpent
    /\ ReissueOwnsBatch
    /\ ReissueCoversCodes
    /\ OnlyOverlappingBatchesCoexist

SafeInv == TypeOK /\ FactorInv /\ CodeInv

-----------------------------------------------------------------------------
\* The idle state of a request.
LEMMA IdleFacts == Idle \in RequestState /\ Idle.pc = "idle"
  BY DEF Idle, RequestState

\* What the first statements of the handlers make of an idle request.
LEMMA StateFacts ==
    /\ \A f \in Factor :
           LET st == [Idle EXCEPT !.pc = "verify", !.factor = f]
           IN  st \in RequestState /\ st.pc = "verify" /\ st.factor = f
    /\ LET st == [Idle EXCEPT !.pc = "challenge"]
       IN  st \in RequestState /\ st.pc = "challenge"
    /\ LET st == [Idle EXCEPT !.pc = "enroll"]
       IN  st \in RequestState /\ st.pc = "enroll"
    /\ \A b \in Batch, R \in SUBSET Code :
           LET st == [Idle EXCEPT !.pc = "reissue", !.batch = b, !.rows = R]
           IN  /\ st \in RequestState /\ st.pc = "reissue" /\ st.batch = b
               /\ st.rows = R
  BY DEF Idle, RequestState

\* A code is a batch and a slot.
LEMMA CodeFacts ==
    /\ \A c \in Code : c[1] \in Batch
    /\ \A b \in Batch, c \in Code : c \in BatchCodes(b) <=> c[1] = b
    /\ \A b \in Batch : BatchCodes(b) \subseteq Code
  BY DEF Code, BatchCodes

\* The tables are empty at the start, so the invariant holds there.
LEMMA InitSafe == Init => SafeInv
  <1> SUFFICES ASSUME Init PROVE SafeInv
    OBVIOUS
  <1>1. TypeOK
    <2>1. NoRow \in FactorRow
      BY DEF NoRow, FactorRow
    <2>2. \A r \in Request : req[r].pc = "idle"
      BY IdleFacts DEF Init
    <2> QED
      BY <2>1, <2>2, MFAAssumption, IdleFacts DEF Init, TypeOK
  <1>2. FactorInv
    BY IdleFacts DEF Init, FactorInv, FactorRowsSound, VerifyProven, NoRow
  <1>3. CodeInv
    BY IdleFacts DEF Init, CodeInv, ConsumeUnused, AcceptedSpent, ReissueOwnsBatch,
                     ReissueCoversCodes, OnlyOverlappingBatchesCoexist
  <1> QED
    BY <1>1, <1>2, <1>3 DEF SafeInv

\* Types after a step of request r: the tables keep theirs, and no lock but
\* r's own is given away.
LEMMA TypeStep ==
    ASSUME TypeOK, NEW r \in Request, NEW state \in RequestState,
           req' = [req EXCEPT ![r] = state],
           state.pc = "verify" => state.factor \in Factor,
           state.pc = "consume" => state.code \in Code /\ rowLock'[state.code] = r,
           factors' \in [Factor -> FactorRow],
           codes' \in [Code -> {"none", "unused", "used", "deleted"}],
           rowLock' \in [Code -> Request \cup {NoRequest}],
           \A c \in Code : rowLock'[c] = rowLock[c] \/ rowLock[c] \in {r, NoRequest},
           faults' \in 0..MaxFaults,
           proven' \in SUBSET Factor,
           accepted' \in [Code -> 0..2],
           overlap' \in [Batch -> SUBSET Batch],
           account' \in {"open", "closed"}
    PROVE  TypeOK'
  <1>1. \A q \in Request : req'[q] = IF q = r THEN state ELSE req[q]
    BY DEF TypeOK
  <1>2. req' \in [Request -> RequestState]
    BY DEF TypeOK
  <1>3. \A q \in Request :
           /\ req'[q].pc = "verify" => req'[q].factor \in Factor
           /\ req'[q].pc = "consume" =>
                  req'[q].code \in Code /\ rowLock'[req'[q].code] = q
    BY <1>1, MFAAssumption DEF TypeOK
  <1> QED
    BY <1>2, <1>3 DEF TypeOK

\* What a step of request r does to the requests.
LEMMA RequestUpdate ==
    ASSUME TypeOK, NEW r \in Request, NEW state, req' = [req EXCEPT ![r] = state]
    PROVE  \A q \in Request : req'[q] = IF q = r THEN state ELSE req[q]
  BY DEF TypeOK

\* A step that leaves the factors alone and starts no confirmation.
LEMMA FactorFrame ==
    ASSUME FactorInv, UNCHANGED <<factors, proven>>,
           \A q \in Request : req'[q].pc = "verify" => req'[q] = req[q]
    PROVE  FactorInv'
  BY DEF FactorInv, FactorRowsSound, VerifyProven

\* A step that leaves the codes alone and starts no reissue.
LEMMA CodeFrame ==
    ASSUME CodeInv, UNCHANGED <<codes, overlap>>,
           faults' = 0 => faults = 0 /\ accepted' = accepted,
           \A q \in Request : req'[q].pc = "reissue" => req'[q] = req[q],
           \A q \in Request : req'[q].pc = "consume" => codes[req'[q].code] = "unused"
    PROVE  CodeInv'
  <1>1. ConsumeUnused' /\ AcceptedSpent'
    BY DEF CodeInv, ConsumeUnused, AcceptedSpent
  <1>2. ReissueOwnsBatch'
    BY DEF CodeInv, ReissueOwnsBatch
  <1>3. ReissueCoversCodes'
    BY DEF CodeInv, ReissueCoversCodes
  <1>4. OnlyOverlappingBatchesCoexist'
    BY DEF CodeInv, OnlyOverlappingBatchesCoexist
  <1> QED
    BY <1>1, <1>2, <1>3, <1>4 DEF CodeInv

-----------------------------------------------------------------------------
(* Factors *)

\* EnrollMFA: the new row is neither confirmed nor disabled.
LEMMA EnrollStep ==
    ASSUME SafeInv, NEW r \in Request, NEW f \in Factor, EnrollMFA(r, f)
    PROVE  SafeInv'
  <1> DEFINE n == 1 + Cardinality({g \in Factor : factors[g].exists})
             row == [NoRow EXCEPT !.exists = TRUE, !.created_at = n]
  <1>1. n \in Nat
    <2>1. IsFiniteSet({g \in Factor : factors[g].exists})
      BY MFAAssumption, FS_Subset
    <2>2. Cardinality({g \in Factor : factors[g].exists}) \in Nat
      BY <2>1, FS_CardinalityType
    <2> QED
      BY <2>2
  <1>2. factors' = [factors EXCEPT ![f] = row]
    BY DEF EnrollMFA
  <1> HIDE DEF n
  <1>3. row \in FactorRow /\ row.exists = TRUE /\ row.confirmed = FALSE /\ row.disabled = FALSE
    BY <1>1 DEF FactorRow, NoRow
  <1> HIDE DEF row
  <1>4. \A g \in Factor : factors'[g] = IF g = f THEN row ELSE factors[g]
    BY <1>2 DEF SafeInv, TypeOK
  <1>5. UNCHANGED <<codes, rowLock, faults, proven, accepted, overlap, account>>
    BY DEF EnrollMFA
  <1>a. req' = [req EXCEPT ![r] = Idle]
    BY DEF EnrollMFA, Done
  <1>b. \A q \in Request : req'[q] = IF q = r THEN Idle ELSE req[q]
    BY <1>a, RequestUpdate DEF SafeInv
  <1>6. TypeOK'
    <2>1. factors' \in [Factor -> FactorRow]
      BY <1>2, <1>3 DEF SafeInv, TypeOK
    <2> QED
      BY <2>1, <1>5, <1>a, IdleFacts, TypeStep DEF SafeInv, TypeOK
  <1>7. FactorInv'
    <2>1. FactorRowsSound'
      BY <1>3, <1>4, <1>5 DEF SafeInv, FactorInv, FactorRowsSound
    <2>2. VerifyProven'
      BY <1>5, <1>b, IdleFacts DEF SafeInv, FactorInv, VerifyProven
    <2> QED
      BY <2>1, <2>2 DEF FactorInv
  <1>8. CodeInv'
    BY <1>5, <1>b, IdleFacts, CodeFrame DEF SafeInv, CodeInv, ConsumeUnused
  <1> QED
    BY <1>6, <1>7, <1>8 DEF SafeInv

\* DisableFactor: the row is disabled and no longer confirmed.
LEMMA DisableStep ==
    ASSUME SafeInv, NEW r \in Request, NEW f \in Factor, DisableFactor(r, f)
    PROVE  SafeInv'
  <1> DEFINE row == [[factors[f] EXCEPT !.disabled = TRUE] EXCEPT !.confirmed = FALSE]
  <1>1. factors[f] \in FactorRow /\ factors[f].exists
    BY DEF SafeInv, TypeOK, DisableFactor
  <1>2. factors' = [factors EXCEPT ![f] = row]
    BY DEF DisableFactor, SafeInv, TypeOK
  <1>3. row \in FactorRow /\ row.confirmed = FALSE /\ row.exists = factors[f].exists
    BY <1>1 DEF FactorRow
  <1> HIDE DEF row
  <1>4. \A g \in Factor : factors'[g] = IF g = f THEN row ELSE factors[g]
    BY <1>2 DEF SafeInv, TypeOK
  <1>5. UNCHANGED <<codes, rowLock, req, faults, proven, accepted, overlap, account>>
    BY DEF DisableFactor
  <1>6. TypeOK'
    BY <1>2, <1>3, <1>5 DEF SafeInv, TypeOK
  <1>7. FactorInv'
    BY <1>1, <1>3, <1>4, <1>5 DEF SafeInv, FactorInv, FactorRowsSound, VerifyProven
  <1>8. CodeInv'
    BY <1>5, CodeFrame DEF SafeInv, CodeInv, ConsumeUnused
  <1> QED
    BY <1>6, <1>7, <1>8 DEF SafeInv

\* VerifyMFA, the SELECT: the factor it holds is one whose codes were shown.
LEMMA VerifySelectStep ==
    ASSUME SafeInv, NEW r \in Request, VerifySelect(r)
    PROVE  SafeInv'
  <1>1. PICK f \in Factor :
            /\ req' = [req EXCEPT ![r] = [Idle EXCEPT !.pc = "verify", !.factor = f]]
            /\ proven' = proven \cup {f}
            /\ UNCHANGED <<factors, codes, rowLock, faults, accepted, overlap, account>>
    BY DEF VerifySelect
  <1> DEFINE state == [Idle EXCEPT !.pc = "verify", !.factor = f]
  <1>2. state \in RequestState /\ state.pc = "verify" /\ state.factor = f
    BY StateFacts
  <1>3. req' = [req EXCEPT ![r] = state]
    BY <1>1
  <1> HIDE DEF state
  <1>4. \A q \in Request : req'[q] = IF q = r THEN state ELSE req[q]
    BY <1>3, RequestUpdate DEF SafeInv
  <1>5. TypeOK'
    BY <1>1, <1>2, <1>3, TypeStep DEF SafeInv, TypeOK
  <1>6. FactorInv'
    BY <1>1, <1>2, <1>4 DEF SafeInv, FactorInv, FactorRowsSound, VerifyProven
  <1>7. CodeInv'
    BY <1>1, <1>2, <1>4, CodeFrame DEF SafeInv, CodeInv, ConsumeUnused
  <1> QED
    BY <1>5, <1>6, <1>7 DEF SafeInv

\* VerifyMFA, the UPDATE: it confirms that factor, disabled or not by now.
LEMMA VerifyUpdateStep ==
    ASSUME SafeInv, NEW r \in Request, VerifyUpdate(r)
    PROVE  SafeInv'
  <1> DEFINE f == req[r].factor
             row == [factors[f] EXCEPT !.confirmed = TRUE]
  <1>1. f \in Factor /\ f \in proven /\ factors[f] \in FactorRow
    BY DEF VerifyUpdate, SafeInv, TypeOK, FactorInv, VerifyProven
  <1>2. factors' = [factors EXCEPT ![f] = row]
    BY <1>1 DEF VerifyUpdate, SafeInv, TypeOK
  <1>3. /\ row \in FactorRow /\ row.exists = factors[f].exists
        /\ row.disabled = factors[f].disabled
    BY <1>1 DEF FactorRow
  <1> HIDE DEF row
  <1>4. \A g \in Factor : factors'[g] = IF g = f THEN row ELSE factors[g]
    BY <1>1, <1>2 DEF SafeInv, TypeOK
  <1>5. /\ req' = [req EXCEPT ![r] = Idle]
        /\ UNCHANGED <<codes, rowLock, faults, proven, accepted, overlap, account>>
    BY DEF VerifyUpdate, Done
  <1>6. \A q \in Request : req'[q] = IF q = r THEN Idle ELSE req[q]
    BY <1>5, RequestUpdate DEF SafeInv
  <1>7. TypeOK'
    <2>1. factors' \in [Factor -> FactorRow]
      BY <1>1, <1>2, <1>3 DEF SafeInv, TypeOK
    <2> QED
      BY <2>1, <1>5, IdleFacts, TypeStep DEF SafeInv, TypeOK
  <1>8. FactorInv'
    <2>1. FactorRowsSound'
      BY <1>1, <1>3, <1>4, <1>5 DEF SafeInv, FactorInv, FactorRowsSound
    <2>2. VerifyProven'
      BY <1>5, <1>6, IdleFacts DEF SafeInv, FactorInv, VerifyProven
    <2> QED
      BY <2>1, <2>2 DEF FactorInv
  <1>9. CodeInv'
    BY <1>5, <1>6, IdleFacts, CodeFrame DEF SafeInv, CodeInv, ConsumeUnused
  <1> QED
    BY <1>7, <1>8, <1>9 DEF SafeInv

-----------------------------------------------------------------------------
(* Challenges and recovery codes *)

\* A step that changes no table: a login's challenge, or EnrollMFA's SELECT.
LEMMA ChallengeStep ==
    ASSUME SafeInv, NEW r \in Request, ChallengeBegin(r) \/ ChallengeEnd(r) \/ EnrollSelect(r)
    PROVE  SafeInv'
  <1>1. PICK state \in {Idle, [Idle EXCEPT !.pc = "challenge"],
                           [Idle EXCEPT !.pc = "enroll"]} :
            req' = [req EXCEPT ![r] = state]
    BY DEF ChallengeBegin, ChallengeEnd, EnrollSelect, Done
  <1>2. UNCHANGED <<factors, codes, rowLock, faults, proven, accepted, overlap, account>>
    BY DEF ChallengeBegin, ChallengeEnd, EnrollSelect
  <1>3. state \in RequestState /\ state.pc \in {"idle", "challenge", "enroll"}
    BY IdleFacts, StateFacts
  <1>4. \A q \in Request : req'[q] = IF q = r THEN state ELSE req[q]
    BY <1>1, RequestUpdate DEF SafeInv
  <1>5. TypeOK'
    BY <1>1, <1>2, <1>3, TypeStep DEF SafeInv, TypeOK
  <1>6. FactorInv'
    BY <1>2, <1>3, <1>4, FactorFrame DEF SafeInv
  <1>7. CodeInv'
    BY <1>2, <1>3, <1>4, CodeFrame DEF SafeInv, CodeInv, ConsumeUnused
  <1> QED
    BY <1>5, <1>6, <1>7 DEF SafeInv

\* The UPDATE of a recovery code locks a row that is unused and unlocked.
LEMMA RecoveryUpdateStep ==
    ASSUME SafeInv, NEW r \in Request, NEW c \in Code, RecoveryUpdate(r, c)
    PROVE  SafeInv'
  <1> DEFINE s0 == [[req[r] EXCEPT !.pc = "consume"] EXCEPT !.code = c]
  <1>a. req[r] \in RequestState
    BY DEF SafeInv, TypeOK
  <1>b. s0 \in RequestState /\ s0.pc = "consume" /\ s0.code = c
    BY <1>a DEF RequestState
  <1>c. req' = [req EXCEPT ![r] = s0]
    BY DEF RecoveryUpdate, SafeInv, TypeOK
  <1> HIDE DEF s0
  <1>d. PICK state \in RequestState :
            req' = [req EXCEPT ![r] = state] /\ state.pc = "consume" /\ state.code = c
    BY <1>b, <1>c
  <1>1. req' = [req EXCEPT ![r] = state]
    BY <1>d
  <1>2. state \in RequestState /\ state.pc = "consume" /\ state.code = c
    BY <1>d
  <1>3. /\ codes[c] = "unused" /\ Unlocked(c) /\ rowLock' = [rowLock EXCEPT ![c] = r]
        /\ UNCHANGED <<factors, codes, faults, proven, accepted, overlap, account>>
    BY DEF RecoveryUpdate
  <1>4. \A q \in Request : req'[q] = IF q = r THEN state ELSE req[q]
    BY <1>1, RequestUpdate DEF SafeInv
  <1>5. TypeOK'
    <2>1. /\ rowLock' \in [Code -> Request \cup {NoRequest}]
          /\ \A d \in Code : rowLock'[d] = rowLock[d] \/ rowLock[d] \in {r, NoRequest}
          /\ rowLock'[c] = r
      BY <1>3 DEF SafeInv, TypeOK, Unlocked
    <2> QED
      BY <1>1, <1>2, <1>3, <2>1, TypeStep DEF SafeInv, TypeOK
  <1>6. FactorInv'
    BY <1>2, <1>3, <1>4, FactorFrame DEF SafeInv
  <1>7. CodeInv'
    BY <1>2, <1>3, <1>4, CodeFrame DEF SafeInv, CodeInv, ConsumeUnused
  <1> QED
    BY <1>5, <1>6, <1>7 DEF SafeInv

\* Counting the challenges a code has answered.
LEMMA AcceptFacts ==
    ASSUME TypeOK, NEW c \in Code, Accept(c)
    PROVE  /\ accepted' \in [Code -> 0..2]
           /\ \A d \in Code : d # c => accepted'[d] = accepted[d]
           /\ accepted[c] = 0 => accepted'[c] = 1
  <1> DEFINE m == IF accepted[c] < 2 THEN accepted[c] + 1 ELSE accepted[c]
  <1>1. accepted' = [accepted EXCEPT ![c] = m]
    BY DEF Accept, TypeOK
  <1>2. m \in 0..2 /\ (accepted[c] = 0 => m = 1)
    BY DEF TypeOK
  <1> HIDE DEF m
  <1> QED
    BY <1>1, <1>2 DEF TypeOK

\* The holder of a code's lock gives it up, having committed or not.
LEMMA ConsumeFacts ==
    ASSUME SafeInv, NEW r \in Request, req[r].pc = "consume",
           rowLock' = [rowLock EXCEPT ![req[r].code] = NoRequest]
    PROVE  /\ req[r].code \in Code /\ codes[req[r].code] = "unused"
           /\ rowLock' \in [Code -> Request \cup {NoRequest}]
           /\ \A d \in Code : rowLock'[d] = rowLock[d] \/ rowLock[d] \in {r, NoRequest}
           /\ \A q \in Request : q # r /\ req[q].pc = "consume" =>
                  req[q].code \in Code /\ req[q].code # req[r].code
  BY DEF SafeInv, TypeOK, CodeInv, ConsumeUnused

\* The COMMIT is lost: the row stays as it was, and a fault has been counted.
LEMMA RecoveryLostStep ==
    ASSUME SafeInv, NEW r \in Request, RecoveryCommitLost(r)
    PROVE  SafeInv'
  <1>1. /\ req[r].pc = "consume" /\ Accept(req[r].code)
        /\ faults < MaxFaults /\ faults' = faults + 1
        /\ rowLock' = [rowLock EXCEPT ![req[r].code] = NoRequest]
        /\ req' = [req EXCEPT ![r] = Idle]
        /\ UNCHANGED <<factors, codes, proven, overlap, account>>
    BY DEF RecoveryCommitLost, Done
  <1>2. \A q \in Request : req'[q] = IF q = r THEN Idle ELSE req[q]
    BY <1>1, RequestUpdate DEF SafeInv
  <1>3. faults' \in 0..MaxFaults /\ faults' # 0
    BY <1>1, MFAAssumption DEF SafeInv, TypeOK
  <1>4. TypeOK'
    <2>1. accepted' \in [Code -> 0..2]
      BY <1>1, ConsumeFacts, AcceptFacts DEF SafeInv
    <2> QED
      BY <1>1, <1>3, <2>1, ConsumeFacts, IdleFacts, TypeStep DEF SafeInv, TypeOK
  <1>5. FactorInv'
    BY <1>1, <1>2, IdleFacts, FactorFrame DEF SafeInv
  <1>6. CodeInv'
    BY <1>1, <1>2, <1>3, IdleFacts, CodeFrame DEF SafeInv, CodeInv, ConsumeUnused
  <1> QED
    BY <1>4, <1>5, <1>6 DEF SafeInv

\* A failed request: its locks are freed, the tables stay as they were.
LEMMA FailStep ==
    ASSUME SafeInv, NEW r \in Request, Fail(r)
    PROVE  SafeInv'
  <1>1. /\ faults < MaxFaults /\ faults' = faults + 1
        /\ rowLock' = [c \in Code |-> IF rowLock[c] = r THEN NoRequest ELSE rowLock[c]]
        /\ req' = [req EXCEPT ![r] = Idle]
        /\ UNCHANGED <<factors, codes, proven, accepted, overlap, account>>
    BY DEF Fail, Done
  <1>2. \A q \in Request : req'[q] = IF q = r THEN Idle ELSE req[q]
    BY <1>1, RequestUpdate DEF SafeInv
  <1>3. faults' \in 0..MaxFaults /\ faults' # 0
    BY <1>1, MFAAssumption DEF SafeInv, TypeOK
  <1>4. TypeOK'
    <2>1. /\ rowLock' \in [Code -> Request \cup {NoRequest}]
          /\ \A d \in Code : rowLock'[d] = rowLock[d] \/ rowLock[d] \in {r, NoRequest}
      BY <1>1 DEF SafeInv, TypeOK
    <2> QED
      BY <1>1, <1>3, <2>1, IdleFacts, TypeStep DEF SafeInv, TypeOK
  <1>5. FactorInv'
    BY <1>1, <1>2, IdleFacts, FactorFrame DEF SafeInv
  <1>6. CodeInv'
    BY <1>1, <1>2, <1>3, IdleFacts, CodeFrame DEF SafeInv, CodeInv, ConsumeUnused
  <1> QED
    BY <1>4, <1>5, <1>6 DEF SafeInv

\* COMMIT of a recovery code: it was unused, so this is its first challenge.
LEMMA RecoveryCommitStep ==
    ASSUME SafeInv, NEW r \in Request, NEW c \in Code, c = req[r].code,
           RecoveryCommit(r)
    PROVE  SafeInv'
  <1>1. /\ req[r].pc = "consume" /\ Accept(c)
        /\ codes' = [codes EXCEPT ![c] = "used"]
        /\ rowLock' = [rowLock EXCEPT ![req[r].code] = NoRequest]
        /\ req' = [req EXCEPT ![r] = Idle]
        /\ UNCHANGED <<factors, faults, proven, overlap, account>>
    BY DEF RecoveryCommit, Done
  <1>2. \A q \in Request : req'[q] = IF q = r THEN Idle ELSE req[q]
    BY <1>1, RequestUpdate DEF SafeInv
  <1>3. \A d \in Code : codes'[d] = IF d = c THEN "used" ELSE codes[d]
    BY <1>1 DEF SafeInv, TypeOK
  <1>4. codes[c] = "unused"
    BY <1>1, ConsumeFacts
  <1>5. TypeOK'
    <2>1. accepted' \in [Code -> 0..2]
      BY <1>1, AcceptFacts DEF SafeInv
    <2>2. codes' \in [Code -> {"none", "unused", "used", "deleted"}]
      BY <1>1 DEF SafeInv, TypeOK
    <2> QED
      BY <1>1, <2>1, <2>2, ConsumeFacts, IdleFacts, TypeStep DEF SafeInv, TypeOK
  <1>6. FactorInv'
    BY <1>1, <1>2, IdleFacts, FactorFrame DEF SafeInv
  <1>7. ConsumeUnused'
    <2>1. \A q \in Request : q # r /\ req[q].pc = "consume" =>
              req[q].code \in Code /\ req[q].code # c /\ codes[req[q].code] = "unused"
      BY <1>1, ConsumeFacts DEF SafeInv, CodeInv, ConsumeUnused
    <2> QED
      BY <1>2, <1>3, <2>1, IdleFacts DEF ConsumeUnused
  <1>8. AcceptedSpent'
    <2> SUFFICES ASSUME faults = 0, NEW d \in Code
                 PROVE  \/ accepted'[d] = 0
                        \/ accepted'[d] = 1 /\ codes'[d] \in {"used", "deleted"}
      BY <1>1 DEF AcceptedSpent
    <2>1. \/ accepted[d] = 0
          \/ accepted[d] = 1 /\ codes[d] \in {"used", "deleted"}
      BY DEF SafeInv, CodeInv, AcceptedSpent
    <2>2. CASE d = c
      BY <2>1, <2>2, <1>1, <1>3, <1>4, AcceptFacts DEF SafeInv
    <2>3. CASE d # c
      BY <2>1, <2>3, <1>1, <1>3, AcceptFacts DEF SafeInv
    <2> QED
      BY <2>2, <2>3
  <1>9. ReissueOwnsBatch'
    BY <1>1, <1>2, <1>3, <1>4, IdleFacts DEF SafeInv, CodeInv, ReissueOwnsBatch
  <1>10. ReissueCoversCodes'
    BY <1>1, <1>2, <1>3, IdleFacts DEF SafeInv, CodeInv, ReissueCoversCodes
  <1>11. OnlyOverlappingBatchesCoexist'
    BY <1>1, <1>3 DEF SafeInv, CodeInv, OnlyOverlappingBatchesCoexist
  <1> QED
    BY <1>5, <1>6, <1>7, <1>8, <1>9, <1>10, <1>11 DEF SafeInv, CodeInv

-----------------------------------------------------------------------------
(* Reissues *)

\* The batches of running reissues.
LEMMA ReissuingFacts ==
    /\ \A q \in Request : req[q].pc = "reissue" => req[q].batch \in Reissuing
    /\ \A b \in Reissuing : \E q \in Request : req[q].pc = "reissue" /\ req[q].batch = b
  BY DEF Reissuing

\* The DELETE of a reissue: it covers every code stored by now, and it overlaps
\* with the reissues that are running.
LEMMA ReissueDeleteStep ==
    ASSUME SafeInv, NEW r \in Request, NEW b \in Batch, ReissueDelete(r, b)
    PROVE  SafeInv'
  <1>2. PICK R \in SUBSET Code : R = Stored
    BY DEF Stored
  <1> DEFINE state == [Idle EXCEPT !.pc = "reissue", !.batch = b, !.rows = R]
  <1>1. /\ req[r] = Idle /\ b \notin Reissuing
        /\ \A c \in BatchCodes(b) : codes[c] = "none"
        /\ req' = [req EXCEPT ![r] = state]
        /\ UNCHANGED <<factors, codes, rowLock, faults, proven, accepted, account>>
    BY <1>2 DEF ReissueDelete
  <1>3. /\ state \in RequestState /\ state.pc = "reissue" /\ state.batch = b
        /\ state.rows = R
    BY DEF Idle, RequestState
  <1> HIDE DEF state
  <1>4. \A q \in Request : req'[q] = IF q = r THEN state ELSE req[q]
    BY <1>1 DEF SafeInv, TypeOK
  <1>5. Reissuing \in SUBSET Batch
    BY ReissuingFacts DEF SafeInv, CodeInv, ReissueOwnsBatch
  <1>6. \A c \in Code : c[1] = b => codes[c] = "none"
    BY <1>1, CodeFacts
  <1>7. /\ overlap'[b] = Reissuing
        /\ \A d \in Batch : d \in Reissuing => overlap'[d] = overlap[d] \cup {b}
        /\ \A d, e \in Batch : d # b /\ e # b /\ e \in overlap[d] => e \in overlap'[d]
    BY <1>1, <1>5 DEF ReissueDelete
  <1>8. \A q \in Request : q # r /\ req[q].pc = "reissue" =>
            req[q].batch \in Batch /\ req[q].batch # b /\ req[q].batch \in Reissuing
    BY <1>1, <1>5, ReissuingFacts
  <1>9. TypeOK'
    <2>1. overlap' \in [Batch -> SUBSET Batch]
      BY <1>5 DEF ReissueDelete, SafeInv, TypeOK
    <2> QED
      BY <1>1, <1>3, <2>1, TypeStep DEF SafeInv, TypeOK
  <1>10. FactorInv'
    BY <1>1, <1>3, <1>4, FactorFrame DEF SafeInv
  <1>11. ConsumeUnused' /\ AcceptedSpent'
    BY <1>1, <1>3, <1>4 DEF SafeInv, CodeInv, ConsumeUnused, AcceptedSpent
  <1>12. ReissueOwnsBatch'
    <2>1. ASSUME NEW p \in Request, req'[p].pc = "reissue"
          PROVE  /\ req'[p].batch \in Batch
                 /\ \A c \in Code : c[1] = req'[p].batch => codes'[c] = "none"
                 /\ \A c \in req'[p].rows : c \in Code /\ codes'[c] # "none"
      <3>1. \A c \in Stored : c \in Code /\ codes[c] # "none"
        BY DEF Stored
      <3>2. CASE p = r
        BY <3>1, <3>2, <1>1, <1>2, <1>3, <1>4, <1>6
      <3>3. CASE p # r
        BY <2>1, <3>3, <1>1, <1>4 DEF SafeInv, CodeInv, ReissueOwnsBatch
      <3> QED
        BY <3>2, <3>3
    <2>2. ASSUME NEW p \in Request, NEW q \in Request, p # q,
                 req'[p].pc = "reissue", req'[q].pc = "reissue"
          PROVE  req'[q].batch # req'[p].batch /\ req'[q].batch \in overlap'[req'[p].batch]
      <3>1. CASE p = r
        BY <2>2, <3>1, <1>3, <1>4, <1>7, <1>8
      <3>2. CASE q = r
        BY <2>2, <3>2, <1>3, <1>4, <1>7, <1>8
      <3>3. CASE p # r /\ q # r
        <4>1. req'[p] = req[p] /\ req'[q] = req[q]
          BY <3>3, <1>4
        <4>2. /\ req[q].batch # req[p].batch /\ req[q].batch \in overlap[req[p].batch]
          BY <2>2, <4>1 DEF SafeInv, CodeInv, ReissueOwnsBatch
        <4> QED
          BY <2>2, <3>3, <4>1, <4>2, <1>7, <1>8
      <3> QED
        BY <3>1, <3>2, <3>3
    <2> QED
      BY <2>1, <2>2 DEF ReissueOwnsBatch
  <1>13. ReissueCoversCodes'
    <2> SUFFICES ASSUME NEW p \in Request, NEW c \in Code,
                        req'[p].pc = "reissue", codes[c] = "unused"
                 PROVE  \/ c \in req'[p].rows
                        \/ c[1] \in overlap'[req'[p].batch] /\ req'[p].batch \in overlap'[c[1]]
      BY <1>1 DEF ReissueCoversCodes
    <2>1. CASE p = r
      BY <2>1, <1>2, <1>3, <1>4 DEF Stored
    <2>2. CASE p # r
      <3>1. req'[p] = req[p] /\ req[p].pc = "reissue"
        BY <2>2, <1>4
      <3>2. \/ c \in req[p].rows
            \/ c[1] \in overlap[req[p].batch] /\ req[p].batch \in overlap[c[1]]
        BY <3>1 DEF SafeInv, CodeInv, ReissueCoversCodes
      <3>3. c[1] \in Batch /\ c[1] # b
        BY <1>6, CodeFacts
      <3> QED
        BY <2>2, <3>1, <3>2, <3>3, <1>7, <1>8
    <2> QED
      BY <2>1, <2>2
  <1>14. OnlyOverlappingBatchesCoexist'
    <2> SUFFICES ASSUME NEW c \in Code, NEW d \in Code, codes[c] = "unused",
                        codes[d] = "unused", c[1] # d[1]
                 PROVE  d[1] \in overlap'[c[1]]
      BY <1>1 DEF OnlyOverlappingBatchesCoexist
    <2>1. d[1] \in overlap[c[1]]
      BY DEF SafeInv, CodeInv, OnlyOverlappingBatchesCoexist
    <2>2. c[1] \in Batch /\ d[1] \in Batch /\ c[1] # b /\ d[1] # b
      BY <1>6, CodeFacts
    <2> QED
      BY <2>1, <2>2, <1>7
  <1> QED
    BY <1>9, <1>10, <1>11, <1>12, <1>13, <1>14 DEF SafeInv, CodeInv

\* COMMIT of a reissue: the usable codes left are its own and those of the
\* reissues it overlapped with.
LEMMA ReissueCommitStep ==
    ASSUME SafeInv, NEW r \in Request, NEW b \in Batch, b = req[r].batch,
           ReissueCommit(r)
    PROVE  SafeInv'
  <1> DEFINE R == req[r].rows
  <1>1. /\ req[r].pc = "reissue" /\ \A c \in R : Unlocked(c)
        /\ req' = [req EXCEPT ![r] = Idle]
        /\ UNCHANGED <<factors, rowLock, faults, proven, accepted, overlap, account>>
    BY DEF ReissueCommit, Done
  <1>2. \A q \in Request : req'[q] = IF q = r THEN Idle ELSE req[q]
    BY <1>1, RequestUpdate DEF SafeInv
  <1>3. \A c \in Code : codes'[c] = IF c[1] = b THEN "unused"
                                    ELSE IF c \in R THEN "deleted" ELSE codes[c]
    BY CodeFacts DEF ReissueCommit
  <1>4. /\ \A c \in Code : c[1] = b => codes[c] = "none"
        /\ \A q \in Request : q # r /\ req[q].pc = "reissue" =>
               /\ req[q].batch # b
               /\ req[q].batch \in overlap[b] /\ b \in overlap[req[q].batch]
    BY <1>1 DEF SafeInv, CodeInv, ReissueOwnsBatch
  <1>5. TypeOK'
    <2>1. codes' \in [Code -> {"none", "unused", "used", "deleted"}]
      BY DEF ReissueCommit, SafeInv, TypeOK
    <2> QED
      BY <1>1, <2>1, IdleFacts, TypeStep DEF SafeInv, TypeOK
  <1>6. FactorInv'
    BY <1>1, <1>2, IdleFacts, FactorFrame DEF SafeInv
  <1>7. ConsumeUnused'
    <2> SUFFICES ASSUME NEW q \in Request, q # r, req[q].pc = "consume"
                 PROVE  codes'[req[q].code] = "unused"
      BY <1>2, IdleFacts DEF ConsumeUnused
    <2>1. /\ req[q].code \in Code /\ rowLock[req[q].code] = q
          /\ codes[req[q].code] = "unused"
      BY DEF SafeInv, TypeOK, CodeInv, ConsumeUnused
    <2>2. req[q].code \notin R
      BY <2>1, <1>1, MFAAssumption DEF Unlocked
    <2> QED
      BY <2>1, <2>2, <1>3
  <1>8. AcceptedSpent'
    <2> SUFFICES ASSUME faults = 0, NEW d \in Code
                 PROVE  \/ accepted[d] = 0
                        \/ accepted[d] = 1 /\ codes'[d] \in {"used", "deleted"}
      BY <1>1 DEF AcceptedSpent
    <2>1. \/ accepted[d] = 0
          \/ accepted[d] = 1 /\ codes[d] \in {"used", "deleted"}
      BY DEF SafeInv, CodeInv, AcceptedSpent
    <2> QED
      BY <2>1, <1>3, <1>4
  <1>9. ReissueOwnsBatch'
    <2> SUFFICES ASSUME NEW q \in Request, q # r, req[q].pc = "reissue"
                 PROVE  /\ req[q].batch \in Batch
                        /\ \A c \in Code : c[1] = req[q].batch => codes'[c] = "none"
                        /\ \A c \in req[q].rows : c \in Code /\ codes'[c] # "none"
                        /\ \A p \in Request :
                               p # q /\ p # r /\ req[p].pc = "reissue" =>
                                   /\ req[p].batch # req[q].batch
                                   /\ req[p].batch \in overlap[req[q].batch]
      BY <1>1, <1>2, IdleFacts DEF ReissueOwnsBatch
    <2>1. /\ req[q].batch \in Batch
          /\ \A c \in Code : c[1] = req[q].batch => codes[c] = "none"
          /\ \A c \in req[q].rows : c \in Code /\ codes[c] # "none"
          /\ \A p \in Request :
                 p # q /\ req[p].pc = "reissue" =>
                     /\ req[p].batch # req[q].batch
                     /\ req[p].batch \in overlap[req[q].batch]
      BY DEF SafeInv, CodeInv, ReissueOwnsBatch
    <2>2. \A c \in R : codes[c] # "none"
      BY <1>1 DEF SafeInv, CodeInv, ReissueOwnsBatch
    <2> QED
      BY <2>1, <2>2, <1>3, <1>4
  <1>10. ReissueCoversCodes'
    <2> SUFFICES ASSUME NEW q \in Request, q # r, req[q].pc = "reissue",
                        NEW c \in Code, codes'[c] = "unused"
                 PROVE  \/ c \in req[q].rows
                        \/ c[1] \in overlap[req[q].batch] /\ req[q].batch \in overlap[c[1]]
      BY <1>1, <1>2, IdleFacts DEF ReissueCoversCodes
    <2>1. CASE c[1] = b
      BY <2>1, <1>4
    <2>2. CASE c[1] # b
      BY <2>2, <1>3 DEF SafeInv, CodeInv, ReissueCoversCodes
    <2> QED
      BY <2>1, <2>2
  <1>11. OnlyOverlappingBatchesCoexist'
    <2> SUFFICES ASSUME NEW c \in Code, NEW d \in Code, codes'[c] = "unused",
                        codes'[d] = "unused", c[1] # d[1]
                 PROVE  d[1] \in overlap[c[1]]
      BY <1>1 DEF OnlyOverlappingBatchesCoexist
    <2>1. \A x \in Code : codes'[x] = "unused" /\ x[1] # b =>
              /\ codes[x] = "unused"
              /\ x[1] \in overlap[b] /\ b \in overlap[x[1]]
      BY <1>1, <1>3 DEF SafeInv, CodeInv, ReissueCoversCodes
    <2>2. CASE c[1] = b
      BY <2>1, <2>2
    <2>3. CASE d[1] = b
      BY <2>1, <2>3
    <2>4. CASE c[1] # b /\ d[1] # b
      BY <2>1, <2>4 DEF SafeInv, CodeInv, OnlyOverlappingBatchesCoexist
    <2> QED
      BY <2>2, <2>3, <2>4
  <1> QED
    BY <1>5, <1>6, <1>7, <1>8, <1>9, <1>10, <1>11 DEF SafeInv, CodeInv

-----------------------------------------------------------------------------
\* Any step of the store keeps the invariant.
LEMMA NextSafe == SafeInv /\ [Next]_vars => SafeInv'
  <1> SUFFICES ASSUME SafeInv, [Next]_vars PROVE SafeInv'
    OBVIOUS
  <1>1. CASE UNCHANGED vars
    <2>1. UNCHANGED <<factors, codes, rowLock, req, faults, proven, accepted, overlap, account>>
      BY <1>1 DEF vars
    <2>2. TypeOK'
      BY <2>1 DEF SafeInv, TypeOK
    <2>3. FactorInv'
      BY <2>1, FactorFrame DEF SafeInv
    <2>4. CodeInv'
      BY <2>1, CodeFrame DEF SafeInv, CodeInv, ConsumeUnused
    <2> QED
      BY <2>2, <2>3, <2>4 DEF SafeInv
  <1>4. CASE SoftDeleteUser
    <2>1. /\ UNCHANGED <<factors, codes, rowLock, req, faults, proven, accepted, overlap>>
          /\ account' = "closed"
      BY <1>4 DEF SoftDeleteUser
    <2>2. TypeOK'
      BY <2>1 DEF SafeInv, TypeOK
    <2>3. FactorInv'
      BY <2>1, FactorFrame DEF SafeInv
    <2>4. CodeInv'
      BY <2>1, CodeFrame DEF SafeInv, CodeInv, ConsumeUnused
    <2> QED
      BY <2>2, <2>3, <2>4 DEF SafeInv
  <1>2. ASSUME NEW r \in Request, ReissueCommit(r) PROVE SafeInv'
    <2>1. req[r].batch \in Batch
      BY <1>2 DEF ReissueCommit, SafeInv, CodeInv, ReissueOwnsBatch
    <2> QED
      BY <1>2, <2>1, ReissueCommitStep
  <1>3. ASSUME NEW r \in Request, RecoveryCommit(r) PROVE SafeInv'
    <2>1. req[r].code \in Code
      BY <1>3 DEF RecoveryCommit, SafeInv, TypeOK
    <2> QED
      BY <1>3, <2>1, RecoveryCommitStep
  <1> QED
    BY <1>1, <1>2, <1>3, <1>4, EnrollStep, DisableStep, VerifySelectStep, VerifyUpdateStep,
       ReissueDeleteStep, ChallengeStep, RecoveryUpdateStep, RecoveryLostStep, FailStep
       DEF Next, Step

\* The store keeps the invariant, however its requests interleave or fail.
THEOREM Safety == Spec => []SafeInv
  BY InitSafe, NextSafe, PTL DEF Spec

\* Type correctness; in particular a code being consumed is locked by its login.
THEOREM TypeCorrect == Spec => []TypeOK
  <1>1. SafeInv => TypeOK
    BY DEF SafeInv
  <1> QED
    BY <1>1, Safety, PTL

\* VerifyMFA never makes a factor count whose codes nobody has shown, whatever
\* is enrolled or disabled between its SELECT and its UPDATE.
THEOREM ProvenFactors == Spec => []OnlyProvenFactorsCount
  <1>1. SafeInv => OnlyProvenFactorsCount
    BY DEF SafeInv, FactorInv, FactorRowsSound, OnlyProvenFactorsCount, confirmedFactors
  <1> QED
    BY <1>1, Safety, PTL

\* validateMFA accepts a recovery code once while no COMMIT is lost, however many
\* logins present it and however reissues come in between.
THEOREM SingleUse == Spec => []RecoveryCodeSingleUse
  <1>1. SafeInv => RecoveryCodeSingleUse
    <2> SUFFICES ASSUME SafeInv, faults = 0, NEW c \in Code
                 PROVE  accepted[c] <= 1
      BY DEF RecoveryCodeSingleUse
    <2>1. accepted[c] = 0 \/ accepted[c] = 1
      BY DEF SafeInv, CodeInv, AcceptedSpent
    <2> QED
      BY <2>1
  <1> QED
    BY <1>1, Safety, PTL

\* GenerateRecoveryCodes: two batches are usable together only if their reissues
\* overlapped.
THEOREM BatchesCoexist == Spec => []OnlyOverlappingBatchesCoexist
  <1>1. SafeInv => OnlyOverlappingBatchesCoexist
    BY DEF SafeInv, CodeInv
  <1> QED
    BY <1>1, Safety, PTL

\* DisableFactor is final: no statement clears disabled_at, so a VerifyMFA that
\* confirms the factor late does not bring it back.
THEOREM DisableFinal == Spec => DisabledIsFinal
  <1> DEFINE Final(f) == factors[f].disabled => f \notin confirmedFactors'
  <1>1. ASSUME SafeInv, [Next]_vars, NEW f \in Factor, factors[f].disabled
        PROVE  factors'[f].disabled
    <2>1. factors[f] \in FactorRow /\ factors[f].exists
      BY <1>1 DEF SafeInv, TypeOK, FactorInv, FactorRowsSound
    <2>2. /\ [factors[f] EXCEPT !.confirmed = TRUE].disabled = factors[f].disabled
          /\ [[factors[f] EXCEPT !.disabled = TRUE] EXCEPT !.confirmed = FALSE].disabled
                 = TRUE
      BY <2>1 DEF FactorRow
    <2>3. CASE UNCHANGED factors
      BY <1>1, <2>3
    <2>4. ASSUME NEW r \in Request, NEW g \in Factor, EnrollMFA(r, g)
          PROVE  factors'[f].disabled
      BY <1>1, <2>1, <2>4 DEF EnrollMFA, SafeInv, TypeOK
    <2>5. ASSUME NEW r \in Request, NEW g \in Factor, DisableFactor(r, g)
          PROVE  factors'[f].disabled
      <3>1. factors' = [factors EXCEPT ![g] =
                [[factors[g] EXCEPT !.disabled = TRUE] EXCEPT !.confirmed = FALSE]]
        BY <2>5, <1>1 DEF DisableFactor, SafeInv, TypeOK
      <3> QED
        BY <1>1, <2>2, <3>1 DEF SafeInv, TypeOK
    <2>6. ASSUME NEW r \in Request, VerifyUpdate(r)
          PROVE  factors'[f].disabled
      <3>1. req[r].factor \in Factor
        BY <1>1, <2>6 DEF VerifyUpdate, SafeInv, TypeOK
      <3>2. factors' = [factors EXCEPT ![req[r].factor] =
                [factors[req[r].factor] EXCEPT !.confirmed = TRUE]]
        BY <2>6, <1>1, <3>1 DEF VerifyUpdate, SafeInv, TypeOK
      <3> QED
        BY <1>1, <2>2, <3>1, <3>2 DEF SafeInv, TypeOK
    <2> QED
      BY <1>1, <2>3, <2>4, <2>5, <2>6
         DEF Next, Step, vars, SoftDeleteUser, EnrollSelect, VerifySelect, ReissueDelete, ReissueCommit, ChallengeBegin,
             ChallengeEnd, RecoveryUpdate, RecoveryCommit, RecoveryCommitLost, Fail
  <1>2. SafeInv /\ [Next]_vars => [\A f \in Factor : Final(f)]_vars
    BY <1>1 DEF confirmedFactors
  <1> QED
    BY <1>2, Safety, PTL DEF Spec, DisabledIsFinal
=============================================================================

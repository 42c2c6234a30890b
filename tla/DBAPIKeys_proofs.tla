-------------------------- MODULE DBAPIKeys_proofs --------------------------
(***************************************************************************)
(* Proofs about DBAPIKeys for any sets of records, keys and requests and    *)
(* any number of failed statements.                                         *)
(***************************************************************************)
EXTENDS DBAPIKeys, TLAPS

\* A rotation or revocation owns the lock of an unrevoked row from its
\* SELECT ... FOR UPDATE to its COMMIT.
TransactionOwnsRow ==
    \A r \in Request :
        req[r].pc # "idle" =>
            /\ req[r].id \in KeyID
            /\ rowLock[req[r].id] = r
            /\ Exists(req[r].id)
            /\ ~api_keys[req[r].id].revoked

\* The key a rotation has drawn is in no ledger and no other request has it.
DrawnKeysFresh ==
    \A r \in Request :
        /\ req[r].pc = "rotate" => req[r].new \in Key
        /\ req[r].new # NoKey =>
               /\ \A id \in KeyID : req[r].new \notin Issued(id)
               /\ \A q \in Request : q # r => req[q].new # req[r].new

\* A row stands for the last two keys issued for its id.
RowsFollowLedger ==
    \A id \in KeyID :
        LET n == Len(issued[id]) IN
            /\ Exists(id) <=> n > 0
            /\ n > 0 => api_keys[id].key_hash = sha256Hex(issued[id][n])
            /\ n = 1 => api_keys[id].previous_key_hash = NoHash
            /\ n > 1 => api_keys[id].previous_key_hash = sha256Hex(issued[id][n - 1])

SafeInv == TypeOK /\ TransactionOwnsRow /\ DrawnKeysFresh /\ RowsFollowLedger

-----------------------------------------------------------------------------
\* Distinct keys have distinct digests, and every digest is some key's.
LEMMA DigestFacts ==
    /\ \A k \in Key : sha256Hex(k) \in Digest
    /\ \A k, l : sha256Hex(k) = sha256Hex(l) => k = l
    /\ \A h \in Digest : \E k \in Key : h = sha256Hex(k)
  BY DEF Digest, sha256Hex

\* The idle state of a request is a request state that holds no key.
LEMMA IdleFacts ==
    /\ Idle \in RequestState
    /\ Idle.pc = "idle" /\ Idle.id = NoID /\ Idle.new = NoKey
  BY DEF Idle, RequestState

\* Appending a key to a ledger: it becomes the last one, the others stay.
LEMMA AppendFacts ==
    ASSUME NEW seq \in Seq(Key), NEW k \in Key
    PROVE  /\ Len(seq) \in Nat
           /\ Append(seq, k) \in Seq(Key)
           /\ Len(Append(seq, k)) = Len(seq) + 1
           /\ Append(seq, k)[Len(seq) + 1] = k
           /\ \A i \in 1..Len(seq) : Append(seq, k)[i] = seq[i]
  OBVIOUS

\* A row's fields, and the effect on it of a rotation to digest h and of a
\* revocation.
LEMMA RowFacts ==
    ASSUME NEW row \in Row, NEW h \in Digest
    PROVE  LET rotated == [[row EXCEPT !.previous_key_hash = row.key_hash]
                               EXCEPT !.key_hash = h]
               closed  == [row EXCEPT !.revoked = TRUE]
           IN  /\ row.key_hash \in Digest
               /\ row.previous_key_hash \in Digest \cup {NoHash}
               /\ row.revoked \in BOOLEAN
               /\ rotated \in Row /\ closed \in Row
               /\ rotated.key_hash = h
               /\ rotated.previous_key_hash = row.key_hash
               /\ rotated.revoked = row.revoked
               /\ closed.key_hash = row.key_hash
               /\ closed.previous_key_hash = row.previous_key_hash
               /\ closed.revoked = TRUE
  BY DEF Row

\* The tables are empty at the start, so the invariant holds there.
LEMMA InitSafe == Init => SafeInv
  <1> SUFFICES ASSUME Init PROVE SafeInv
    OBVIOUS
  <1>1. TypeOK
    BY KeyAssumption, IdleFacts DEF Init, TypeOK
  <1>2. TransactionOwnsRow /\ DrawnKeysFresh
    BY IdleFacts DEF Init, TransactionOwnsRow, DrawnKeysFresh
  <1>3. RowsFollowLedger
    <2>1. \A id \in KeyID : Len(issued[id]) = 0 /\ api_keys[id] = NoRow
      BY DEF Init
    <2>2. ~(0 > 0) /\ 0 # 1 /\ ~(0 > 1)
      OBVIOUS
    <2> QED
      BY <2>1, <2>2, Zenon DEF RowsFollowLedger, Exists
  <1> QED
    BY <1>1, <1>2, <1>3 DEF SafeInv

\* CreateAPIKey: the INSERT adds a row for a key that nobody holds.
LEMMA CreateStep ==
    ASSUME SafeInv, NEW r \in Request, NEW id \in KeyID, NEW k \in Key,
           CreateAPIKey(r, id, k)
    PROVE  SafeInv'
  <1> DEFINE row == [key_hash |-> sha256Hex(k), previous_key_hash |-> NoHash,
                     revoked |-> FALSE]
  <1>1. /\ row \in Row /\ row # NoRow /\ row.key_hash = sha256Hex(k)
        /\ row.previous_key_hash = NoHash /\ row.revoked = FALSE
    <2>1. row \in Row
      BY DigestFacts DEF Row
    <2> QED
      BY <2>1, KeyAssumption
  <1>2. /\ \A x \in KeyID : api_keys'[x] = IF x = id THEN row ELSE api_keys[x]
        /\ \A x \in KeyID : issued'[x] = IF x = id THEN <<k>> ELSE issued[x]
        /\ ~Exists(id) /\ Fresh(k) /\ UNCHANGED <<rowLock, req, faults>>
    BY DEF CreateAPIKey, SafeInv, TypeOK
  <1> HIDE DEF row
  <1>3. TypeOK'
    BY <1>1, <1>2 DEF row, CreateAPIKey, SafeInv, TypeOK
  <1>4. TransactionOwnsRow'
    BY <1>1, <1>2 DEF SafeInv, TransactionOwnsRow, Exists
  <1>5. DrawnKeysFresh'
    <2> SUFFICES ASSUME NEW q \in Request, req[q].new # NoKey, NEW x \in KeyID
                 PROVE  req[q].new \notin {issued'[x][i] : i \in 1..Len(issued'[x])}
      BY <1>2 DEF SafeInv, DrawnKeysFresh, Issued
    <2>1. CASE x = id
      BY <2>1, <1>2 DEF Fresh
    <2>2. CASE x # id
      BY <2>2, <1>2 DEF SafeInv, DrawnKeysFresh, Issued
    <2> QED
      BY <2>1, <2>2
  <1>6. RowsFollowLedger'
    <2>1. Len(<<k>>) = 1 /\ <<k>>[1] = k
      OBVIOUS
    <2> SUFFICES ASSUME NEW x \in KeyID
                 PROVE  LET n == Len(issued'[x]) IN
                          /\ api_keys'[x] # NoRow <=> n > 0
                          /\ n > 0 => api_keys'[x].key_hash = sha256Hex(issued'[x][n])
                          /\ n = 1 => api_keys'[x].previous_key_hash = NoHash
                          /\ n > 1 => api_keys'[x].previous_key_hash
                                          = sha256Hex(issued'[x][n - 1])
      BY DEF RowsFollowLedger, Exists
    <2>2. CASE x = id
      <3>1. issued'[x] = <<k>> /\ api_keys'[x] = row
        BY <2>2, <1>2
      <3> QED
        BY <3>1, <2>1, <1>1
    <2>3. CASE x # id
      BY <2>3, <1>2 DEF SafeInv, RowsFollowLedger, Exists
    <2> QED
      BY <2>2, <2>3
  <1> QED
    BY <1>3, <1>4, <1>5, <1>6 DEF SafeInv

\* SELECT ... FOR UPDATE, of a rotation or a revocation: the row is unrevoked
\* and was unlocked, and what the request holds is new.
LEMMA SelectStep ==
    ASSUME SafeInv, NEW r \in Request, NEW id \in KeyID, Lock(r, id),
           NEW state \in RequestState,
           state.pc # "idle", state.id = id,
           state.pc = "rotate" => state.new \in Key,
           state.new # NoKey => Fresh(state.new),
           req' = [req EXCEPT ![r] = state],
           UNCHANGED <<api_keys, faults, issued>>
    PROVE  SafeInv'
  <1>1. \A q \in Request : req'[q] = IF q = r THEN state ELSE req[q]
    BY DEF SafeInv, TypeOK
  <1>2. \A x \in KeyID : rowLock'[x] = IF x = id THEN r ELSE rowLock[x]
    BY DEF Lock, SafeInv, TypeOK
  <1>3. Exists(id) /\ rowLock[id] = NoRequest /\ ~api_keys[id].revoked
    BY DEF Lock
  <1>4. TypeOK'
    BY DEF Lock, SafeInv, TypeOK
  <1>5. TransactionOwnsRow'
    BY <1>1, <1>2, <1>3, KeyAssumption DEF SafeInv, TransactionOwnsRow, Exists
  <1>6. DrawnKeysFresh'
    BY <1>1 DEF SafeInv, DrawnKeysFresh, Fresh, Issued
  <1>7. RowsFollowLedger'
    BY DEF SafeInv, RowsFollowLedger, Exists
  <1> QED
    BY <1>4, <1>5, <1>6, <1>7 DEF SafeInv

\* The end of a transaction frees its own lock and leaves every other one.
LEMMA ReleaseFacts ==
    ASSUME SafeInv, NEW r \in Request, Release(r)
    PROVE  /\ \A q \in Request : req'[q] = IF q = r THEN Idle ELSE req[q]
           /\ \A id \in KeyID : rowLock[id] # r => rowLock'[id] = rowLock[id]
           /\ req' \in [Request -> RequestState]
           /\ rowLock' \in [KeyID -> Request \cup {NoRequest}]
  BY IdleFacts DEF Release, Done, SafeInv, TypeOK

\* What RotateCommit does to the row and the ledger of its record.
LEMMA RotateCommitFacts ==
    ASSUME SafeInv, NEW r \in Request, RotateCommit(r)
    PROVE  /\ req[r].id \in KeyID /\ req[r].new \in Key
           /\ api_keys' \in [KeyID -> Row \cup {NoRow}]
           /\ issued' \in [KeyID -> Seq(Key)]
           /\ \A x \in KeyID : x # req[r].id => api_keys'[x] = api_keys[x]
           /\ \A x \in KeyID : x # req[r].id => issued'[x] = issued[x]
           /\ issued'[req[r].id] = Append(issued[req[r].id], req[r].new)
           /\ LET old == api_keys[req[r].id]
                  new == api_keys'[req[r].id]
              IN  /\ old \in Row /\ new \in Row /\ old # NoRow /\ new # NoRow
                  /\ ~old.revoked /\ ~new.revoked
                  /\ new.previous_key_hash = old.key_hash
                  /\ new.key_hash = sha256Hex(req[r].new)
  <1> DEFINE id == req[r].id
             old == api_keys[id]
             new == [[old EXCEPT !.previous_key_hash = old.key_hash]
                         EXCEPT !.key_hash = sha256Hex(req[r].new)]
  <1>1. /\ id \in KeyID /\ req[r].new \in Key /\ old \in Row /\ ~old.revoked
    BY DEF RotateCommit, SafeInv, TransactionOwnsRow, DrawnKeysFresh, Exists, TypeOK
  <1>2. /\ new \in Row /\ new.previous_key_hash = old.key_hash
        /\ new.key_hash = sha256Hex(req[r].new) /\ new.revoked = old.revoked
    <2>1. sha256Hex(req[r].new) \in Digest
      BY <1>1, DigestFacts
    <2> QED
      BY <1>1, <2>1 DEF Row
  <1>3. api_keys' = [api_keys EXCEPT ![id] = new]
    BY <1>1 DEF RotateCommit, SafeInv, TypeOK
  <1>4. issued' = [issued EXCEPT ![id] = Append(issued[id], req[r].new)]
    BY <1>1 DEF RotateCommit, SafeInv, TypeOK
  <1>5. Append(issued[id], req[r].new) \in Seq(Key)
    BY <1>1, AppendFacts DEF SafeInv, TypeOK
  <1>6. old # NoRow /\ new # NoRow
    BY <1>1, <1>2, KeyAssumption
  <1> HIDE DEF new
  <1>7. api_keys'[id] = new
    BY <1>1, <1>3 DEF SafeInv, TypeOK
  <1>8. /\ api_keys' \in [KeyID -> Row \cup {NoRow}]
        /\ issued' \in [KeyID -> Seq(Key)]
        /\ issued'[id] = Append(issued[id], req[r].new)
        /\ \A x \in KeyID : x # id => api_keys'[x] = api_keys[x]
        /\ \A x \in KeyID : x # id => issued'[x] = issued[x]
    BY <1>1, <1>2, <1>3, <1>4, <1>5 DEF SafeInv, TypeOK
  <1> QED
    BY <1>1, <1>2, <1>6, <1>7, <1>8

\* COMMIT of a rotation: the row and the ledger move together.
LEMMA RotateStep ==
    ASSUME SafeInv, NEW r \in Request, RotateCommit(r)
    PROVE  SafeInv'
  <1> DEFINE id == req[r].id
             k == req[r].new
  <1>1. Release(r) /\ UNCHANGED faults
    BY DEF RotateCommit
  <1>2. id \in KeyID /\ k \in Key /\ k # NoKey /\ rowLock[id] = r
    <2>1. id \in KeyID /\ k \in Key
      BY RotateCommitFacts
    <2>2. rowLock[id] = r
      BY DEF RotateCommit, SafeInv, TransactionOwnsRow
    <2> QED
      BY <2>1, <2>2, KeyAssumption
  <1>3. TypeOK'
    BY <1>1, RotateCommitFacts, ReleaseFacts DEF SafeInv, TypeOK
  <1>4. TransactionOwnsRow'
    <2> SUFFICES ASSUME NEW q \in Request, q # r, req[q].pc # "idle"
                 PROVE  /\ req[q].id \in KeyID
                        /\ rowLock'[req[q].id] = q
                        /\ api_keys'[req[q].id] # NoRow
                        /\ ~api_keys'[req[q].id].revoked
      BY <1>1, ReleaseFacts, IdleFacts DEF TransactionOwnsRow, Exists
    <2>1. /\ req[q].id \in KeyID /\ rowLock[req[q].id] = q
          /\ api_keys[req[q].id] # NoRow /\ ~api_keys[req[q].id].revoked
      BY DEF SafeInv, TransactionOwnsRow, Exists
    <2> QED
      BY <2>1, <1>1, <1>2, RotateCommitFacts, ReleaseFacts
  <1>5. DrawnKeysFresh'
    <2> SUFFICES ASSUME NEW q \in Request, q # r, req[q].new # NoKey, NEW x \in KeyID
                 PROVE  req[q].new \notin {issued'[x][i] : i \in 1..Len(issued'[x])}
      BY <1>1, ReleaseFacts, IdleFacts DEF SafeInv, DrawnKeysFresh, Issued
    <2>1. req[q].new \notin Issued(x) /\ req[q].new # k
      BY <1>2 DEF SafeInv, DrawnKeysFresh
    <2>2. CASE x = id
      <3>1. issued[id] \in Seq(Key) /\ issued'[id] = Append(issued[id], k)
        BY <1>2, RotateCommitFacts DEF SafeInv, TypeOK
      <3> QED
        BY <2>1, <2>2, <3>1, <1>2, AppendFacts DEF Issued
    <2>3. CASE x # id
      BY <2>1, <2>3, RotateCommitFacts DEF Issued
    <2> QED
      BY <2>2, <2>3
  <1>6. RowsFollowLedger'
    <2> SUFFICES ASSUME NEW x \in KeyID
                 PROVE  LET n == Len(issued'[x]) IN
                          /\ api_keys'[x] # NoRow <=> n > 0
                          /\ n > 0 => api_keys'[x].key_hash = sha256Hex(issued'[x][n])
                          /\ n = 1 => api_keys'[x].previous_key_hash = NoHash
                          /\ n > 1 => api_keys'[x].previous_key_hash
                                          = sha256Hex(issued'[x][n - 1])
      BY DEF RowsFollowLedger, Exists
    <2>1. CASE x # id
      BY <2>1, RotateCommitFacts DEF SafeInv, RowsFollowLedger, Exists
    <2>2. CASE x = id
      <3> DEFINE n == Len(issued[id])
      <3>1. /\ n \in Nat /\ n > 0 /\ api_keys[id].key_hash = sha256Hex(issued[id][n])
            /\ issued[id] \in Seq(Key)
        BY <1>2, RotateCommitFacts DEF SafeInv, TypeOK, RowsFollowLedger, Exists
      <3>2. /\ Len(issued'[id]) = n + 1 /\ issued'[id][n + 1] = k
            /\ issued'[id][n] = issued[id][n]
        <4>1. issued'[id] = Append(issued[id], k)
          BY RotateCommitFacts
        <4> QED
          BY <4>1, <3>1, <1>2, AppendFacts
      <3>3. /\ api_keys'[id] # NoRow /\ api_keys'[id].key_hash = sha256Hex(k)
            /\ api_keys'[id].previous_key_hash = api_keys[id].key_hash
        BY RotateCommitFacts
      <3> HIDE DEF n, id, k
      <3> QED
        BY <2>2, <3>1, <3>2, <3>3
    <2> QED
      BY <2>1, <2>2
  <1> QED
    BY <1>3, <1>4, <1>5, <1>6 DEF SafeInv
\* COMMIT of a revocation: only the revoked mark of its own row changes.
LEMMA RevokeStep ==
    ASSUME SafeInv, NEW r \in Request, RevokeCommit(r)
    PROVE  SafeInv'
  <1> DEFINE id == req[r].id
             row == [api_keys[id] EXCEPT !.revoked = TRUE]
  <1>1. Release(r) /\ UNCHANGED <<faults, issued>>
    BY DEF RevokeCommit
  <1>2. id \in KeyID /\ rowLock[id] = r /\ api_keys[id] \in Row
    BY DEF RevokeCommit, SafeInv, TransactionOwnsRow, Exists, TypeOK
  <1>3. /\ row \in Row /\ row # NoRow /\ row.key_hash = api_keys[id].key_hash
        /\ row.previous_key_hash = api_keys[id].previous_key_hash
        /\ api_keys[id] # NoRow
    <2>1. api_keys[id].key_hash \in Digest
      BY <1>2 DEF Row
    <2>2. /\ row \in Row /\ row.key_hash = api_keys[id].key_hash
          /\ row.previous_key_hash = api_keys[id].previous_key_hash
      BY ONLY <1>2, <2>1, RowFacts
    <2> QED
      BY <1>2, <2>2, KeyAssumption
  <1> HIDE DEF row
  <1>4. api_keys' = [api_keys EXCEPT ![id] = row]
    BY <1>2 DEF row, RevokeCommit, SafeInv, TypeOK
  <1>5. \A x \in KeyID : api_keys'[x] = IF x = id THEN row ELSE api_keys[x]
    BY <1>4, <1>2 DEF SafeInv, TypeOK
  <1>6. TypeOK'
    BY <1>1, <1>2, <1>3, <1>4, ReleaseFacts DEF SafeInv, TypeOK
  <1>7. TransactionOwnsRow'
    <2> SUFFICES ASSUME NEW q \in Request, q # r, req[q].pc # "idle"
                 PROVE  /\ req[q].id \in KeyID
                        /\ rowLock'[req[q].id] = q
                        /\ api_keys'[req[q].id] # NoRow
                        /\ ~api_keys'[req[q].id].revoked
      BY <1>1, ReleaseFacts, IdleFacts DEF TransactionOwnsRow, Exists
    <2>1. /\ req[q].id \in KeyID /\ rowLock[req[q].id] = q
          /\ api_keys[req[q].id] # NoRow /\ ~api_keys[req[q].id].revoked
      BY DEF SafeInv, TransactionOwnsRow, Exists
    <2> QED
      BY <2>1, <1>1, <1>2, <1>5, ReleaseFacts
  <1>8. DrawnKeysFresh'
    BY <1>1, ReleaseFacts, IdleFacts DEF SafeInv, DrawnKeysFresh, Issued
  <1>9. RowsFollowLedger'
    BY <1>1, <1>3, <1>5 DEF SafeInv, RowsFollowLedger, Exists
  <1> QED
    BY <1>6, <1>7, <1>8, <1>9 DEF SafeInv

\* Any step of the store keeps the invariant.
LEMMA NextSafe == SafeInv /\ [Next]_vars => SafeInv'
  <1> SUFFICES ASSUME SafeInv, [Next]_vars PROVE SafeInv'
    OBVIOUS
  <1>1. CASE UNCHANGED vars
    BY <1>1 DEF vars, SafeInv, TypeOK, TransactionOwnsRow, DrawnKeysFresh,
                RowsFollowLedger, Exists, Issued
  <1>2. ASSUME NEW r \in Request, NEW id \in KeyID, NEW k \in Key,
               RotateSelect(r, id, k)
        PROVE  SafeInv'
    <2> DEFINE state == [pc |-> "rotate", id |-> id, new |-> k]
    <2>1. /\ state \in RequestState /\ state.pc = "rotate" /\ state.id = id
          /\ state.new = k
      BY DEF RequestState
    <2> HIDE DEF state
    <2>2. /\ Lock(r, id) /\ Fresh(k) /\ req' = [req EXCEPT ![r] = state]
          /\ UNCHANGED <<api_keys, faults, issued>>
      BY <1>2 DEF state, RotateSelect
    <2> QED
      BY <2>1, <2>2, SelectStep
  <1>3. ASSUME NEW r \in Request, NEW id \in KeyID, RevokeSelect(r, id)
        PROVE  SafeInv'
    <2> DEFINE state == [Idle EXCEPT !.pc = "revoke", !.id = id]
    <2>1. /\ state \in RequestState /\ state.pc = "revoke" /\ state.id = id
          /\ state.new = NoKey
      BY DEF RequestState, Idle
    <2> HIDE DEF state
    <2>2. /\ Lock(r, id) /\ req' = [req EXCEPT ![r] = state]
          /\ UNCHANGED <<api_keys, faults, issued>>
      BY <1>3 DEF state, RevokeSelect
    <2> QED
      BY <2>1, <2>2, SelectStep
  <1>4. ASSUME NEW r \in Request, Fail(r)
        PROVE  SafeInv'
    <2>1. /\ Release(r) /\ faults < MaxFaults /\ faults' = faults + 1
          /\ UNCHANGED <<api_keys, issued>>
      BY <1>4 DEF Fail
    <2>2. TypeOK'
      <3>1. faults' \in 0..MaxFaults
        BY <2>1, KeyAssumption DEF SafeInv, TypeOK
      <3> QED
        BY <3>1, <2>1, ReleaseFacts DEF SafeInv, TypeOK
    <2>3. TransactionOwnsRow'
      BY <2>1, ReleaseFacts, IdleFacts DEF SafeInv, TransactionOwnsRow, Exists
    <2>4. DrawnKeysFresh'
      BY <2>1, ReleaseFacts, IdleFacts DEF SafeInv, DrawnKeysFresh, Issued
    <2>5. RowsFollowLedger'
      BY <2>1 DEF SafeInv, RowsFollowLedger, Exists
    <2> QED
      BY <2>2, <2>3, <2>4, <2>5 DEF SafeInv
  <1> QED
    BY <1>1, <1>2, <1>3, <1>4, CreateStep, RotateStep, RevokeStep DEF Next

\* The store keeps the invariant, however its transactions interleave or fail.
THEOREM Safety == Spec => []SafeInv
  BY InitSafe, NextSafe, PTL DEF Spec

\* Type correctness of the table, the locks and the requests.
THEOREM TypeCorrect == Spec => []TypeOK
  <1>1. SafeInv => TypeOK
    BY DEF SafeInv
  <1> QED
    BY <1>1, Safety, PTL

\* The last two keys of a ledger are the ones at its last two places.
LEMMA LastTwoFacts ==
    ASSUME SafeInv, NEW id \in KeyID, NEW k \in Key
    PROVE  LET n == Len(issued[id]) IN
             k \in LastTwo(id) <=>
                 \/ n > 0 /\ k = issued[id][n]
                 \/ n > 1 /\ k = issued[id][n - 1]
  <1> DEFINE n == Len(issued[id])
  <1>1. n \in Nat
    BY DEF SafeInv, TypeOK
  <1>2. \A i \in 1..n : i + 1 >= n <=> i = n \/ (n > 1 /\ i = n - 1)
    BY <1>1
  <1>3. k \in LastTwo(id) <=> \E i \in 1..n : i + 1 >= n /\ k = issued[id][i]
    BY DEF LastTwo
  <1> HIDE DEF n
  <1>4. k \in LastTwo(id) <=>
                 \/ n > 0 /\ k = issued[id][n]
                 \/ n > 1 /\ k = issued[id][n - 1]
    BY <1>1, <1>2, <1>3
  <1> QED
    BY <1>4 DEF n

\* ResolveAPIKey honours exactly the two newest keys of an unrevoked record,
\* however rotations and revocations of it interleave or fail half way.
THEOREM LastTwoResolve == Spec => []LastTwoKeysResolve
  <1>1. SafeInv => LastTwoKeysResolve
    <2> SUFFICES ASSUME SafeInv, NEW k \in Key, NEW id \in KeyID, Exists(id)
                 PROVE  sha256Hex(k) \in {api_keys[id].key_hash,
                                          api_keys[id].previous_key_hash}
                            <=> k \in LastTwo(id)
      BY DEF LastTwoKeysResolve, ResolveAPIKey
    <2> DEFINE n == Len(issued[id])
    <2>1. n \in Nat /\ n > 0
      BY DEF SafeInv, TypeOK, RowsFollowLedger
    <2>2. /\ api_keys[id].key_hash = sha256Hex(issued[id][n])
          /\ n = 1 => api_keys[id].previous_key_hash = NoHash
          /\ n > 1 => api_keys[id].previous_key_hash = sha256Hex(issued[id][n - 1])
      BY <2>1 DEF SafeInv, RowsFollowLedger
    <2>3. k \in LastTwo(id) <=>
                 \/ n > 0 /\ k = issued[id][n]
                 \/ n > 1 /\ k = issued[id][n - 1]
      BY LastTwoFacts
    <2>4. sha256Hex(k) # NoHash
      BY DigestFacts, KeyAssumption
    <2> HIDE DEF n
    <2>5. CASE n = 1
      <3>1. /\ api_keys[id].key_hash = sha256Hex(issued[id][n])
            /\ api_keys[id].previous_key_hash = NoHash
            /\ k \in LastTwo(id) <=> k = issued[id][n]
        BY <2>2, <2>3, <2>5
      <3> QED
        BY <3>1, <2>4, DigestFacts
    <2>6. CASE n > 1
      <3>1. /\ api_keys[id].key_hash = sha256Hex(issued[id][n])
            /\ api_keys[id].previous_key_hash = sha256Hex(issued[id][n - 1])
            /\ k \in LastTwo(id) <=> k = issued[id][n] \/ k = issued[id][n - 1]
        BY <2>1, <2>2, <2>3, <2>6
      <3> QED
        BY <3>1, DigestFacts
    <2> QED
      BY <2>1, <2>5, <2>6
  <1> QED
    BY <1>1, Safety, PTL

-----------------------------------------------------------------------------
(* Refinement of KeyRing: the abstract state of a record *)

newestOf == [id \in KeyID |-> IF Exists(id) THEN api_keys[id].key_hash ELSE NoKey]

olderOf ==
    [id \in KeyID |-> IF Exists(id) /\ api_keys[id].previous_key_hash # NoHash
                         THEN api_keys[id].previous_key_hash ELSE NoKey]

revokedIDs == {id \in KeyID : Exists(id) /\ api_keys[id].revoked}

spentDigests == {sha256Hex(k) : k \in UNION {Issued(id) : id \in KeyID}}

\* A digest is spent when its key is in some ledger.
LEMMA SpentFacts ==
    \A k \in Key : sha256Hex(k) \in spentDigests <=> \E id \in KeyID : k \in Issued(id)
  BY DigestFacts DEF spentDigests

\* Writing a row for one id changes the abstract state at that id alone.
LEMMA AbstractRow ==
    ASSUME SafeInv, NEW id \in KeyID, NEW row \in Row,
           api_keys' = [api_keys EXCEPT ![id] = row]
    PROVE  /\ newestOf' = [newestOf EXCEPT ![id] = row.key_hash]
           /\ olderOf' = [olderOf EXCEPT ![id] =
                  IF row.previous_key_hash # NoHash THEN row.previous_key_hash ELSE NoKey]
           /\ revokedIDs' = IF row.revoked THEN revokedIDs \cup {id}
                                           ELSE revokedIDs \ {id}
  <1>1. row # NoRow
    BY KeyAssumption
  <1>2. \A x \in KeyID : api_keys'[x] = IF x = id THEN row ELSE api_keys[x]
    BY DEF SafeInv, TypeOK
  <1>3. newestOf' = [newestOf EXCEPT ![id] = row.key_hash]
    <2>1. \A x \in KeyID : newestOf'[x] = IF x = id THEN row.key_hash ELSE newestOf[x]
      BY <1>1, <1>2 DEF newestOf, Exists
    <2>2. newestOf' = [x \in KeyID |-> IF x = id THEN row.key_hash ELSE newestOf[x]]
      BY <2>1 DEF newestOf
    <2> QED
      BY <2>2 DEF newestOf
  <1>4. olderOf' = [olderOf EXCEPT ![id] =
            IF row.previous_key_hash # NoHash THEN row.previous_key_hash ELSE NoKey]
    <2> DEFINE prev == IF row.previous_key_hash # NoHash
                         THEN row.previous_key_hash ELSE NoKey
    <2>1. \A x \in KeyID : olderOf'[x] = IF x = id THEN prev ELSE olderOf[x]
      BY <1>1, <1>2 DEF olderOf, Exists
    <2> HIDE DEF prev
    <2>2. olderOf' = [x \in KeyID |-> IF x = id THEN prev ELSE olderOf[x]]
      BY <2>1 DEF olderOf
    <2>3. olderOf' = [olderOf EXCEPT ![id] = prev]
      BY <2>2 DEF olderOf
    <2> QED
      BY <2>3 DEF prev
  <1>5. revokedIDs' = IF row.revoked THEN revokedIDs \cup {id} ELSE revokedIDs \ {id}
    BY <1>1, <1>2 DEF revokedIDs, Exists
  <1> QED
    BY <1>3, <1>4, <1>5

\* Recording a key for one id adds its digest to the spent ones.
LEMMA AbstractLedger ==
    ASSUME SafeInv, NEW id \in KeyID, NEW k \in Key,
           \A x \in KeyID : x # id => Issued(x)' = Issued(x),
           Issued(id)' = Issued(id) \cup {k}
    PROVE  spentDigests' = spentDigests \cup {sha256Hex(k)}
  <1>1. \A h : h \in spentDigests <=>
                \E x \in KeyID : \E l \in Issued(x) : h = sha256Hex(l)
    BY DEF spentDigests
  <1>2. \A h : h \in spentDigests' <=>
                \E x \in KeyID : \E l \in Issued(x)' : h = sha256Hex(l)
    BY DEF spentDigests
  <1> QED
    BY <1>1, <1>2

\* A step of the store is a step of the key ring or leaves its state alone: only
\* an INSERT and the two COMMITs publish something.
LEMMA StepRefines ==
    ASSUME SafeInv, [Next]_vars
    PROVE  [Ring!Next]_(Ring!vars)
  <1>u. ASSUME UNCHANGED <<api_keys, issued>> PROVE UNCHANGED Ring!vars
    BY <1>u DEF Ring!vars, Exists, Issued
  <1>1. ASSUME NEW r \in Request, NEW id \in KeyID, NEW k \in Key, CreateAPIKey(r, id, k)
        PROVE  Ring!Next
    <2> DEFINE row == [key_hash |-> sha256Hex(k), previous_key_hash |-> NoHash,
                       revoked |-> FALSE]
    <2>1. /\ row \in Row /\ row.key_hash = sha256Hex(k)
          /\ row.previous_key_hash = NoHash /\ row.revoked = FALSE
      BY DigestFacts DEF Row
    <2>2. /\ api_keys' = [api_keys EXCEPT ![id] = row]
          /\ ~Exists(id) /\ Fresh(k)
          /\ issued' = [issued EXCEPT ![id] = <<k>>]
      BY <1>1 DEF CreateAPIKey
    <2> HIDE DEF row
    <2>3. /\ newestOf' = [newestOf EXCEPT ![id] = sha256Hex(k)]
          /\ newestOf[id] = NoKey
      BY <2>1, <2>2, AbstractRow DEF newestOf
    <2>4. olderOf' = olderOf
      <3>1. olderOf' = [olderOf EXCEPT ![id] = NoKey]
        BY <2>1, <2>2, AbstractRow
      <3> QED
        BY <3>1, <2>2 DEF olderOf
    <2>5. revokedIDs' = revokedIDs
      <3>1. revokedIDs' = revokedIDs \ {id}
        BY <2>1, <2>2, AbstractRow
      <3> QED
        BY <3>1, <2>2 DEF revokedIDs
    <2>6. spentDigests' = spentDigests \cup {sha256Hex(k)}
      <3>1. Len(issued[id]) = 0
        BY <2>2 DEF SafeInv, TypeOK, RowsFollowLedger
      <3>2. Issued(id) = {}
        BY <3>1 DEF Issued
      <3>3. \A x \in KeyID : issued'[x] = IF x = id THEN <<k>> ELSE issued[x]
        BY <2>2 DEF SafeInv, TypeOK
      <3>4. Len(<<k>>) = 1 /\ <<k>>[1] = k
        OBVIOUS
      <3>5. Issued(id)' = {k}
        BY <3>3, <3>4 DEF Issued
      <3>6. \A x \in KeyID : x # id => Issued(x)' = Issued(x)
        BY <3>3 DEF Issued
      <3> QED
        BY <3>2, <3>5, <3>6, AbstractLedger
    <2>7. sha256Hex(k) \notin spentDigests
      BY <2>2, SpentFacts DEF Fresh
    <2>8. Ring!Create(id, sha256Hex(k))
      BY <2>3, <2>4, <2>5, <2>6, <2>7
         DEF Ring!Create, newestOf, olderOf, revokedIDs, spentDigests
    <2> QED
      BY <2>8, DigestFacts DEF Ring!Next
  <1>2. ASSUME NEW r \in Request, NEW id \in KeyID, NEW k \in Key, RotateCommit(r),
               id = req[r].id, k = req[r].new
        PROVE  Ring!Next
    <2> DEFINE row == api_keys'[id]
    <2>1. /\ id \in KeyID /\ k \in Key /\ row \in Row
          /\ api_keys[id] \in Row /\ api_keys[id] # NoRow
          /\ ~api_keys[id].revoked /\ ~row.revoked
          /\ row.previous_key_hash = api_keys[id].key_hash
          /\ row.key_hash = sha256Hex(k)
      BY <1>2, RotateCommitFacts
    <2>2. api_keys' = [api_keys EXCEPT ![id] = row]
      BY <1>2, <2>1, RotateCommitFacts DEF SafeInv, TypeOK
    <2>3. /\ \A x \in KeyID : x # id => issued'[x] = issued[x]
          /\ issued'[id] = Append(issued[id], k)
          /\ issued[id] \in Seq(Key)
      BY <1>2, <2>1, RotateCommitFacts DEF SafeInv, TypeOK
    <2>4. /\ k # NoKey /\ \A x \in KeyID : k \notin Issued(x)
      BY <1>2, KeyAssumption DEF SafeInv, DrawnKeysFresh
    <2>5. api_keys[id].key_hash \in Digest /\ api_keys[id].key_hash # NoHash
      BY <2>1, KeyAssumption DEF Row
    <2> HIDE DEF row
    <2>6. /\ newestOf[id] = api_keys[id].key_hash /\ newestOf[id] # NoKey
      BY <2>1, <2>5, KeyAssumption DEF newestOf, Exists
    <2>7. /\ newestOf' = [newestOf EXCEPT ![id] = sha256Hex(k)]
          /\ olderOf' = [olderOf EXCEPT ![id] = newestOf[id]]
      BY <2>1, <2>2, <2>5, <2>6, AbstractRow
    <2>8. id \notin revokedIDs /\ revokedIDs' = revokedIDs
      <3>1. revokedIDs' = revokedIDs \ {id}
        BY <2>1, <2>2, AbstractRow
      <3> QED
        BY <3>1, <2>1 DEF revokedIDs
    <2>9. spentDigests' = spentDigests \cup {sha256Hex(k)}
      <3>1. \A x \in KeyID : x # id => Issued(x)' = Issued(x)
        BY <2>3 DEF Issued
      <3>2. Issued(id)' = Issued(id) \cup {k}
        BY <2>1, <2>3, AppendFacts DEF Issued
      <3> QED
        BY <2>1, <3>1, <3>2, AbstractLedger
    <2>10. sha256Hex(k) \notin spentDigests
      BY <2>1, <2>4, SpentFacts
    <2>11. Ring!Rotate(id, sha256Hex(k))
      BY <2>6, <2>7, <2>8, <2>9, <2>10
         DEF Ring!Rotate, newestOf, olderOf, revokedIDs, spentDigests
    <2> QED
      BY <2>1, <2>11, DigestFacts DEF Ring!Next
  <1>3. ASSUME NEW r \in Request, NEW id \in KeyID, RevokeCommit(r), id = req[r].id
        PROVE  Ring!Next
    <2> DEFINE row == [api_keys[id] EXCEPT !.revoked = TRUE]
    <2>1. /\ id \in KeyID /\ api_keys[id] # NoRow /\ api_keys[id] \in Row
          /\ ~api_keys[id].revoked
      BY <1>3 DEF RevokeCommit, SafeInv, TypeOK, TransactionOwnsRow, Exists
    <2>2. /\ row \in Row /\ row.revoked = TRUE
          /\ row.key_hash = api_keys[id].key_hash
          /\ row.previous_key_hash = api_keys[id].previous_key_hash
          /\ api_keys[id].key_hash \in Digest
      BY <2>1 DEF Row
    <2> HIDE DEF row
    <2>3. api_keys' = [api_keys EXCEPT ![id] = row] /\ UNCHANGED issued
      BY <1>3, <2>1 DEF row, RevokeCommit, SafeInv, TypeOK
    <2>4. newestOf' = newestOf /\ olderOf' = olderOf /\ newestOf[id] # NoKey
      BY <2>1, <2>2, <2>3, AbstractRow, KeyAssumption DEF newestOf, olderOf, Exists
    <2>5. revokedIDs' = revokedIDs \cup {id} /\ id \notin revokedIDs
      BY <2>1, <2>2, <2>3, AbstractRow DEF revokedIDs
    <2>6. spentDigests' = spentDigests
      BY <2>3 DEF spentDigests, Issued
    <2>7. Ring!Revoke(id)
      BY <2>4, <2>5, <2>6 DEF Ring!Revoke, newestOf, olderOf, revokedIDs, spentDigests
    <2> QED
      BY <2>1, <2>7 DEF Ring!Next
  <1>4. ASSUME NEW r \in Request, NEW id \in KeyID, NEW k \in Key,
               RotateSelect(r, id, k)
        PROVE  UNCHANGED Ring!vars
    BY <1>4, <1>u DEF RotateSelect
  <1>5. ASSUME NEW r \in Request, NEW id \in KeyID, RevokeSelect(r, id)
        PROVE  UNCHANGED Ring!vars
    BY <1>5, <1>u DEF RevokeSelect
  <1>6. ASSUME NEW r \in Request, Fail(r)
        PROVE  UNCHANGED Ring!vars
    BY <1>6, <1>u DEF Fail
  <1>7. CASE UNCHANGED vars
    BY <1>7, <1>u DEF vars
  <1>8. ASSUME NEW r \in Request, RotateCommit(r)
        PROVE  Ring!Next
    BY <1>2, <1>8, RotateCommitFacts
  <1>9. ASSUME NEW r \in Request, RevokeCommit(r)
        PROVE  Ring!Next
    <2>1. req[r].id \in KeyID
      BY <1>9 DEF RevokeCommit, SafeInv, TransactionOwnsRow
    <2> QED
      BY <1>3, <1>9, <2>1
  <1> QED
    BY <1>1, <1>4, <1>5, <1>6, <1>7, <1>8, <1>9 DEF Next

\* The api_keys table implements the key ring: rotations and revocations that
\* race for a row or fail half way never spoil what a partner was promised.
THEOREM Refinement == Spec => ImplementsKeyRing
  <1>1. Init => Ring!Init
    <2> SUFFICES ASSUME Init PROVE Ring!Init
      OBVIOUS
    <2>1. \A id \in KeyID : ~Exists(id) /\ Len(issued[id]) = 0
      BY DEF Init, Exists
    <2>2. \A id \in KeyID : Issued(id) = {}
      <3>1. 1..0 = {}
        OBVIOUS
      <3> QED
        BY <2>1, <3>1 DEF Issued
    <2> QED
      BY <2>1, <2>2 DEF Ring!Init
  <1>2. SafeInv /\ [Next]_vars => [Ring!Next]_(Ring!vars)
    BY StepRefines
  <1> QED
    BY <1>1, <1>2, Safety, PTL DEF Spec, ImplementsKeyRing, Ring!Spec
=============================================================================

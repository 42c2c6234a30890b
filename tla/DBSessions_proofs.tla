-------------------------- MODULE DBSessions_proofs --------------------------
(***************************************************************************)
(* Proofs about DBSessions for any sets of users, sessions, tokens and      *)
(* requests, any lifetime and any number of faults.                         *)
(***************************************************************************)
EXTENDS DBSessions, TLAPS

\* Distinct tokens have distinct digests, and every token has one.
LEMMA DigestFacts ==
    /\ \A t \in Token \cup {Bogus} : sha256Hex(t) \in Digest
    /\ \A t, u : sha256Hex(t) = sha256Hex(u) => t = u
    /\ \A h \in Digest : \E t \in Token \cup {Bogus} : h = sha256Hex(t)
  BY DEF Digest, sha256Hex

\* A row's fields, and the effect of setting revoked_at on it.
LEMMA RowFacts ==
    ASSUME NEW row \in Row
    PROVE  /\ row # NoRow
           /\ row.user \in User /\ row.hash \in Digest
           /\ row.exp \in Nat /\ row.revoked \in BOOLEAN
           /\ [row EXCEPT !.revoked = TRUE] \in Row
           /\ [row EXCEPT !.revoked = TRUE].revoked = TRUE
           /\ [row EXCEPT !.revoked = TRUE].hash = row.hash
  BY SentinelAssumption DEF Row

\* The idle state of a request is a request state that waits on nothing.
LEMMA IdleFacts ==
    /\ Idle \in RequestState
    /\ Idle.pc = "idle" /\ Idle.tok = NoToken /\ Idle.new = NoToken
    /\ Idle.sid = NoSession /\ Idle.batch = {}
  BY DEF Idle, RequestState, PC

\* The fields of a request's state.
LEMMA RequestFacts ==
    ASSUME TypeOK, NEW q \in Request
    PROVE  /\ req[q].tok \in Token \cup {Bogus, NoToken}
           /\ req[q].new \in Token \cup {NoToken}
           /\ req[q].sid \in Session \cup {NoSession}
           /\ req[q].batch \in SUBSET Session
  BY DEF TypeOK, RequestState

\* The tables are empty at the start, so the invariant holds there.
LEMMA InitSafe == Init => SafeInv
  <1> SUFFICES ASSUME Init PROVE SafeInv
    OBVIOUS
  <1>1. TypeOK
    BY TTLAssumption, IdleFacts DEF Init, TypeOK
  <1>2. RotationOwnsRow /\ DrawnTokensFresh /\ RequestShape
    BY IdleFacts DEF Init, RotationOwnsRow, DrawnTokensFresh, RequestShape
  <1>3. TablesOwned /\ TokenLedger
    BY DigestFacts DEF Init, TablesOwned, TokenLedger, Exists
  <1> QED
    BY <1>1, <1>2, <1>3 DEF SafeInv

\* A step that leaves the tables alone, sends request r to a state that is not
\* in a rotation and frees no lock but r's keeps the invariant.
LEMMA RequestStep ==
    ASSUME SafeInv, NEW r \in Request, NEW state \in RequestState,
           req' = [req EXCEPT ![r] = state],
           state.pc # "rotate", state.new = NoToken,
           state.pc \in {"lookup", "reuse"} => state.tok \in Token \cup {Bogus},
           state.pc \in {"reuse", "revokeFind", "revoke", "logoutSelect", "logoutUpdate"} =>
               state.sid \in Session /\ Exists(state.sid),
           \A s \in state.batch : Exists(s),
           rowLock' \in [Session -> Request \cup {NoRequest}],
           \A s \in Session : rowLock'[s] = rowLock[s] \/ rowLock[s] = r,
           refused' \in SUBSET (Token \cup {Bogus}),
           now' \in 0..MaxTime, faults' \in 0..MaxFaults,
           UNCHANGED <<sessions, used, family>>
    PROVE  SafeInv'
  <1>1. \A q \in Request : req'[q] = IF q = r THEN state ELSE req[q]
    BY DEF SafeInv, TypeOK
  <1>2. TypeOK'
    BY <1>1 DEF SafeInv, TypeOK
  <1>3. RotationOwnsRow'
    BY <1>1 DEF SafeInv, RotationOwnsRow, HasHash, Exists
  <1>4. DrawnTokensFresh'
    BY <1>1 DEF SafeInv, DrawnTokensFresh
  <1>5. RequestShape'
    BY <1>1 DEF SafeInv, RequestShape, Exists
  <1>6. TablesOwned' /\ TokenLedger'
    BY DEF SafeInv, TablesOwned, TokenLedger, Exists
  <1> QED
    BY <1>2, <1>3, <1>4, <1>5, <1>6 DEF SafeInv

\* Revoking existing, unlocked rows and finishing the request keeps it too:
\* the lock is what keeps a row in a rotation from being revoked.
LEMMA RevokeStep ==
    ASSUME SafeInv, NEW r \in Request, NEW S \in SUBSET Session,
           \A s \in S : Exists(s) /\ Unlocked(s),
           Revoke(S), Done(r),
           refused' \in SUBSET (Token \cup {Bogus}),
           UNCHANGED <<used, rowLock, now, faults, family>>
    PROVE  SafeInv'
  <1>1. \A q \in Request : req'[q] = IF q = r THEN Idle ELSE req[q]
    BY DEF SafeInv, TypeOK, Done
  <1>2. \A s \in Session : Exists(s) => sessions[s] \in Row
    BY DEF SafeInv, TypeOK, Exists
  <1>3. \A s \in Session :
            /\ sessions'[s] = IF s \in S THEN [sessions[s] EXCEPT !.revoked = TRUE]
                                         ELSE sessions[s]
            /\ Exists(s)' <=> Exists(s)
            /\ Exists(s) => sessions'[s].hash = sessions[s].hash
            /\ s \notin S => sessions'[s] = sessions[s]
            /\ s \in S => Exists(s)
    BY <1>2, RowFacts DEF Revoke, Exists
  <1>4. TypeOK'
    <2>1. sessions' \in [Session -> Row \cup {NoRow}]
      BY <1>2, RowFacts DEF Revoke, SafeInv, TypeOK
    <2>2. req' \in [Request -> RequestState]
      BY IdleFacts DEF Done, SafeInv, TypeOK
    <2> QED
      BY <2>1, <2>2 DEF SafeInv, TypeOK
  <1>5. RotationOwnsRow'
    <2> SUFFICES ASSUME NEW q \in Request, req'[q].pc = "rotate"
                 PROVE  /\ req'[q].sid \in Session
                        /\ req'[q].tok \in Token
                        /\ req'[q].new \in Token
                        /\ rowLock'[req'[q].sid] = q
                        /\ HasHash(req[q].sid, req[q].tok)' /\ req'[q] = req[q]
                        /\ ~sessions'[req'[q].sid].revoked
      BY DEF RotationOwnsRow, HasHash, Exists
    <2>1. req'[q] = req[q] /\ req[q].pc = "rotate"
      BY <1>1, IdleFacts
    <2>2. rowLock[req[q].sid] = q /\ req[q].sid \in Session
          /\ HasHash(req[q].sid, req[q].tok) /\ ~sessions[req[q].sid].revoked
          /\ req[q].tok \in Token /\ req[q].new \in Token
      BY <2>1 DEF SafeInv, RotationOwnsRow
    <2>3. req[q].sid \notin S
      BY <2>2, SentinelAssumption DEF Unlocked
    <2> QED
      BY <1>3, <2>1, <2>2, <2>3 DEF HasHash, Exists
  <1>6. DrawnTokensFresh'
    BY <1>1, IdleFacts DEF SafeInv, DrawnTokensFresh
  <1>7. RequestShape'
    BY <1>1, <1>3, IdleFacts DEF SafeInv, RequestShape, TypeOK, RequestState
  <1>8. TablesOwned'
    BY <1>3 DEF SafeInv, TablesOwned, Exists
  <1>9. TokenLedger'
    BY <1>3 DEF SafeInv, TokenLedger, TypeOK, Exists
  <1> QED
    BY <1>4, <1>5, <1>6, <1>7, <1>8, <1>9 DEF SafeInv

\* A new session: its token is stored nowhere else.
LEMMA IssueStep ==
    ASSUME SafeInv, NEW r \in Request, NEW u \in User, NEW s \in Session,
           NEW t \in Token, issueSession(r, u, s, t)
    PROVE  SafeInv'
  <1> DEFINE row == [user |-> u, hash |-> sha256Hex(t), exp |-> now + SessionTTL,
                     revoked |-> FALSE]
  <1>1. row \in Row /\ row # NoRow /\ row.hash = sha256Hex(t)
    <2>1. now + SessionTTL \in Nat
      BY TTLAssumption DEF SafeInv, TypeOK
    <2>2. row \in Row
      BY <2>1, DigestFacts DEF Row
    <2> QED
      BY <2>2, SentinelAssumption
  <1>2. \A q \in Session : sessions'[q] = IF q = s THEN row ELSE sessions[q]
    BY DEF issueSession, SafeInv, TypeOK
  <1>3. \A x \in Token : family'[x] = IF x = t THEN s ELSE family[x]
    BY DEF issueSession, SafeInv, TypeOK
  <1>4. ~Exists(s) /\ Fresh(t) /\ UNCHANGED <<used, rowLock, req, now, faults, refused>>
    BY DEF issueSession
  <1> HIDE DEF row
  <1>5. TypeOK'
    BY <1>1, <1>4 DEF row, issueSession, SafeInv, TypeOK
  <1>6. RotationOwnsRow'
    BY <1>2, <1>4 DEF SafeInv, RotationOwnsRow, HasHash, Exists
  <1>7. DrawnTokensFresh'
    <2> SUFFICES ASSUME NEW q \in Request, req[q].new # NoToken
                 PROVE  family'[req[q].new] = NoSession
      BY <1>4 DEF SafeInv, DrawnTokensFresh
    <2>1. req[q].new \in Token
      BY RequestFacts DEF SafeInv
    <2> QED
      BY <2>1, <1>3, <1>4 DEF SafeInv, DrawnTokensFresh, Fresh
  <1>8. RequestShape'
    BY <1>1, <1>2, <1>4, RequestFacts DEF SafeInv, RequestShape, Exists
  <1>9. TablesOwned'
    <2>1. ASSUME NEW q \in Session, sessions'[q] # NoRow
          PROVE  \E x \in Token : sessions'[q].hash = sha256Hex(x) /\ family'[x] = q
      <3>1. CASE q = s
        BY <3>1, <1>1, <1>2, <1>3
      <3>2. CASE q # s
        <4>1. PICK x \in Token : sessions[q].hash = sha256Hex(x) /\ family[x] = q
          BY <2>1, <3>2, <1>2 DEF SafeInv, TablesOwned, Exists
        <4> QED
          BY <4>1, <3>2, <1>2, <1>3, <1>4, SentinelAssumption DEF Fresh
      <3> QED
        BY <3>1, <3>2
    <2>2. ASSUME NEW x \in Token, used[sha256Hex(x)] # NoSession
          PROVE  family'[x] = used[sha256Hex(x)]
      BY <2>2, <1>3, <1>4 DEF SafeInv, TablesOwned, Fresh
    <2> QED
      BY <2>1, <2>2, <1>4 DEF SafeInv, TablesOwned, Exists
  <1>10. TokenLedger'
    <2> SUFFICES ASSUME NEW x \in Token, family'[x] # NoSession
                 PROVE  LET q == family'[x] IN
                          /\ sessions'[q] # NoRow
                          /\ \/ sessions'[q].hash = sha256Hex(x) /\ used[sha256Hex(x)] = NoSession
                             \/ sessions'[q].hash # sha256Hex(x) /\ used[sha256Hex(x)] = q
      BY <1>4 DEF TokenLedger, Exists
    <2>1. CASE x = t
      BY <2>1, <1>1, <1>2, <1>3, <1>4, SentinelAssumption
         DEF SafeInv, TablesOwned, Fresh
    <2>2. CASE x # t
      BY <2>2, <1>2, <1>3, <1>4 DEF SafeInv, TokenLedger, TypeOK, Exists
    <2> QED
      BY <2>1, <2>2
  <1> QED
    BY <1>5, <1>6, <1>7, <1>8, <1>9, <1>10 DEF SafeInv

\* SELECT ... FOR UPDATE: the row is locked and the drawn token is new.
LEMMA SelectStep ==
    ASSUME SafeInv, NEW r \in Request, NEW t \in Presentable, NEW new \in Token,
           RefreshSelect(r, t, new)
    PROVE  SafeInv'
  <1> DEFINE state(s) == [Idle EXCEPT !.pc = "rotate", !.tok = t, !.new = new, !.sid = s]
  <1>1. PICK s \in Session :
            /\ HasHash(s, t) /\ Unlocked(s) /\ ~sessions[s].revoked
            /\ Fresh(new)
            /\ req[r] = Idle
            /\ req' = [req EXCEPT ![r] = state(s)]
            /\ rowLock' = [rowLock EXCEPT ![s] = r]
            /\ UNCHANGED <<sessions, used, now, faults, family, refused>>
    BY DEF RefreshSelect, Start
  <1>2. t \in Token
    <2>1. PICK x \in Token : sessions[s].hash = sha256Hex(x)
      BY <1>1 DEF SafeInv, TablesOwned, HasHash
    <2> QED
      BY <2>1, <1>1, DigestFacts DEF HasHash
  <1>3. /\ state(s) \in RequestState
        /\ state(s).pc = "rotate" /\ state(s).tok = t /\ state(s).new = new
        /\ state(s).sid = s /\ state(s).batch = {}
    BY <1>2 DEF Idle, RequestState, PC
  <1>4. \A q \in Request : req'[q] = IF q = r THEN state(s) ELSE req[q]
    BY <1>1 DEF SafeInv, TypeOK
  <1> HIDE DEF state
  <1>5. TypeOK'
    BY <1>1, <1>3 DEF SafeInv, TypeOK
  <1>6. RotationOwnsRow'
    BY <1>1, <1>2, <1>3, <1>4, SentinelAssumption
       DEF SafeInv, TypeOK, RotationOwnsRow, HasHash, Exists, Unlocked
  <1>7. DrawnTokensFresh'
    BY <1>1, <1>3, <1>4, SentinelAssumption DEF SafeInv, DrawnTokensFresh, Fresh
  <1>8. RequestShape'
    BY <1>1, <1>3, <1>4 DEF SafeInv, RequestShape, Exists
  <1>9. TablesOwned' /\ TokenLedger'
    BY <1>1 DEF SafeInv, TablesOwned, TokenLedger, Exists
  <1> QED
    BY <1>5, <1>6, <1>7, <1>8, <1>9 DEF SafeInv

\* COMMIT of a rotation: the old token moves to used_refresh_tokens in the same
\* step as the new one becomes current.
LEMMA RotateStep ==
    ASSUME SafeInv, NEW r \in Request, RefreshRotate(r)
    PROVE  SafeInv'
  <1> DEFINE s == req[r].sid
             old == req[r].tok
             new == req[r].new
  <1>1. /\ s \in Session /\ old \in Token /\ new \in Token
        /\ HasHash(s, old) /\ ~sessions[s].revoked
    BY DEF RefreshRotate, SafeInv, RotationOwnsRow
  <1>2. /\ family[new] = NoSession
        /\ \A q \in Request : q # r => req[q].new # new
    BY <1>1, SentinelAssumption DEF SafeInv, DrawnTokensFresh
  <1>3. /\ used[sha256Hex(old)] = NoSession
        /\ sessions' = [sessions EXCEPT ![s].hash = sha256Hex(new)]
        /\ used' = [used EXCEPT ![sha256Hex(old)] = s]
        /\ family' = [family EXCEPT ![new] = s]
        /\ rowLock' = [rowLock EXCEPT ![s] = NoRequest]
        /\ Done(r)
        /\ UNCHANGED <<now, faults, refused>>
        /\ rowLock[s] = r
    BY DEF RefreshRotate, SafeInv, RotationOwnsRow
  <1>4. family[old] = s
    <2>1. PICK x \in Token : sessions[s].hash = sha256Hex(x) /\ family[x] = s
      BY <1>1 DEF SafeInv, TablesOwned, HasHash
    <2> QED
      BY <2>1, <1>1, DigestFacts DEF HasHash
  <1>5. old # new
    BY <1>1, <1>2, <1>4, SentinelAssumption
  <1>6. \A q \in Request : req'[q] = IF q = r THEN Idle ELSE req[q]
    BY <1>3 DEF SafeInv, TypeOK, Done
  <1>7. /\ sessions[s] \in Row
        /\ [sessions[s] EXCEPT !.hash = sha256Hex(new)] \in Row
        /\ [sessions[s] EXCEPT !.hash = sha256Hex(new)].hash = sha256Hex(new)
    BY <1>1, DigestFacts DEF SafeInv, TypeOK, HasHash, Exists, Row
  <1>8. /\ \A q \in Session : sessions'[q] =
               IF q = s THEN [sessions[s] EXCEPT !.hash = sha256Hex(new)] ELSE sessions[q]
        /\ \A q \in Session : sessions'[q] # NoRow <=> Exists(q)
    BY <1>1, <1>3, <1>7, RowFacts DEF SafeInv, TypeOK, Exists
  <1>9. \A x \in Token : family'[x] = IF x = new THEN s ELSE family[x]
    BY <1>1, <1>3 DEF SafeInv, TypeOK
  <1>10. \A x \in Token \cup {Bogus} :
            used'[sha256Hex(x)] = IF x = old THEN s ELSE used[sha256Hex(x)]
    BY <1>1, <1>3, DigestFacts DEF SafeInv, TypeOK
  <1> HIDE DEF s, old, new
  <1>11. TypeOK'
    <2>1. sessions' \in [Session -> Row \cup {NoRow}]
      BY <1>1, <1>3, <1>7 DEF SafeInv, TypeOK
    <2>2. used' \in [Digest -> Session \cup {NoSession}]
      BY <1>1, <1>3 DEF SafeInv, TypeOK
    <2>3. req' \in [Request -> RequestState]
      BY <1>3, IdleFacts DEF Done, SafeInv, TypeOK
    <2> QED
      BY <1>1, <1>3, <2>1, <2>2, <2>3 DEF SafeInv, TypeOK
  <1>12. RotationOwnsRow'
    <2> SUFFICES ASSUME NEW q \in Request, q # r, req[q].pc = "rotate"
                 PROVE  /\ req[q].sid \in Session /\ req[q].tok \in Token
                        /\ req[q].new \in Token /\ rowLock'[req[q].sid] = q
                        /\ sessions'[req[q].sid] = sessions[req[q].sid]
                        /\ HasHash(req[q].sid, req[q].tok)
                        /\ ~sessions[req[q].sid].revoked
      BY <1>6, IdleFacts DEF RotationOwnsRow, HasHash, Exists
    <2>1. /\ req[q].sid \in Session /\ req[q].tok \in Token /\ req[q].new \in Token
          /\ rowLock[req[q].sid] = q /\ HasHash(req[q].sid, req[q].tok)
          /\ ~sessions[req[q].sid].revoked
      BY DEF SafeInv, RotationOwnsRow
    <2>2. req[q].sid # s
      BY <2>1, <1>3
    <2> QED
      BY <2>1, <2>2, <1>1, <1>3, <1>8 DEF SafeInv, TypeOK
  <1>13. DrawnTokensFresh'
    <2> SUFFICES ASSUME NEW q \in Request, q # r, req[q].new # NoToken
                 PROVE  /\ family'[req[q].new] = NoSession
                        /\ \A p \in Request : p # q => req'[p].new # req[q].new
      BY <1>6, IdleFacts DEF DrawnTokensFresh
    <2>1. req[q].new \in Token /\ req[q].new # new
      BY <1>2, RequestFacts DEF SafeInv
    <2> QED
      BY <2>1, <1>6, <1>9, IdleFacts DEF SafeInv, DrawnTokensFresh
  <1>14. RequestShape'
    BY <1>6, <1>8, IdleFacts, RequestFacts DEF SafeInv, RequestShape, Exists
  <1>15. TablesOwned'
    <2>1. ASSUME NEW q \in Session, sessions'[q] # NoRow
          PROVE  \E x \in Token : sessions'[q].hash = sha256Hex(x) /\ family'[x] = q
      <3>1. CASE q = s
        BY <3>1, <1>1, <1>7, <1>8, <1>9
      <3>2. CASE q # s
        <4>1. PICK x \in Token : sessions[q].hash = sha256Hex(x) /\ family[x] = q
          BY <2>1, <1>8 DEF SafeInv, TablesOwned
        <4> QED
          BY <4>1, <3>2, <1>2, <1>8, <1>9, SentinelAssumption
      <3> QED
        BY <3>1, <3>2
    <2>2. ASSUME NEW x \in Token, used'[sha256Hex(x)] # NoSession
          PROVE  family'[x] = used'[sha256Hex(x)]
      BY <2>2, <1>1, <1>2, <1>4, <1>5, <1>9, <1>10, SentinelAssumption
         DEF SafeInv, TablesOwned
    <2>3. used'[sha256Hex(Bogus)] = NoSession
      BY <1>1, <1>10, SentinelAssumption DEF SafeInv, TablesOwned
    <2> QED
      BY <2>1, <2>2, <2>3 DEF TablesOwned, Exists
  <1>16. TokenLedger'
    <2> SUFFICES ASSUME NEW x \in Token, family'[x] # NoSession
                 PROVE  LET q == family'[x] IN
                          /\ sessions'[q] # NoRow
                          /\ \/ /\ sessions'[q].hash = sha256Hex(x)
                                /\ used'[sha256Hex(x)] = NoSession
                             \/ /\ sessions'[q].hash # sha256Hex(x)
                                /\ used'[sha256Hex(x)] = q
      BY DEF TokenLedger, Exists
    <2>1. CASE x = new
      <3>1. used[sha256Hex(x)] = NoSession
        BY <2>1, <1>1, <1>2 DEF SafeInv, TablesOwned
      <3> QED
        BY <2>1, <3>1, <1>1, <1>5, <1>7, <1>8, <1>9, <1>10 DEF HasHash
    <2>2. CASE x = old
      <3>1. sha256Hex(new) # sha256Hex(old)
        BY <1>5, DigestFacts
      <3>2. family'[x] = s /\ used'[sha256Hex(x)] = s
        BY <2>2, <1>1, <1>4, <1>5, <1>9, <1>10
      <3>3. sessions'[s] # NoRow /\ sessions'[s].hash = sha256Hex(new)
        BY <1>1, <1>7, <1>8 DEF HasHash
      <3> QED
        BY <2>2, <3>1, <3>2, <3>3
    <2>3. CASE x # old /\ x # new
      <3>1. family'[x] = family[x] /\ used'[sha256Hex(x)] = used[sha256Hex(x)]
            /\ family[x] \in Session
        BY <2>3, <1>9, <1>10 DEF SafeInv, TypeOK
      <3>2. CASE family[x] = s
        <4>1. sessions[s].hash # sha256Hex(x)
          BY <2>3, <1>1, DigestFacts DEF HasHash
        <4>2. sha256Hex(new) # sha256Hex(x)
          BY <2>3, DigestFacts
        <4> QED
          BY <3>1, <3>2, <4>1, <4>2, <1>1, <1>7, <1>8 DEF SafeInv, TokenLedger
      <3>3. CASE family[x] # s
        BY <3>1, <3>3, <1>8 DEF SafeInv, TokenLedger
      <3> QED
        BY <3>2, <3>3
    <2> QED
      BY <2>1, <2>2, <2>3
  <1> QED
    BY <1>11, <1>12, <1>13, <1>14, <1>15, <1>16 DEF SafeInv

\* Every step keeps the invariant.
LEMMA NextSafe == SafeInv /\ [Next]_vars => SafeInv'
  <1> SUFFICES ASSUME SafeInv, [Next]_vars PROVE SafeInv'
    OBVIOUS
  <1>t. /\ TypeOK
        /\ rowLock \in [Session -> Request \cup {NoRequest}]
        /\ refused \in SUBSET (Token \cup {Bogus})
        /\ now \in 0..MaxTime /\ faults \in 0..MaxFaults
    BY DEF SafeInv, TypeOK
  <1>1. ASSUME NEW r \in Request, Arrive(r) PROVE SafeInv'
    <2>1. ASSUME NEW u \in User, NEW s \in Session, NEW t \in Token,
                 issueSession(r, u, s, t)
          PROVE  SafeInv'
      BY <2>1, IssueStep
    <2>2. ASSUME NEW t \in Presentable, NEW new \in Token, RefreshSelect(r, t, new)
          PROVE  SafeInv'
      BY <2>2, SelectStep
    <2>3. ASSUME NEW t \in Presentable, RefreshRefuse(r, t)
          PROVE  SafeInv'
      <3>1. req' = [req EXCEPT ![r] = Idle] /\ t \in Token \cup {Bogus}
        BY <2>3 DEF RefreshRefuse, SafeInv, TypeOK, Presentable
      <3> QED
        BY <2>3, <3>1, <1>t, IdleFacts, RequestStep DEF RefreshRefuse
    <2>4. ASSUME NEW t \in Presentable, RefreshMiss(r, t)
          PROVE  SafeInv'
      <3> DEFINE state == [Idle EXCEPT !.pc = "lookup", !.tok = t]
      <3>1. /\ state \in RequestState /\ state.pc = "lookup"
            /\ state.new = NoToken /\ state.batch = {} /\ state.tok = t
            /\ t \in Token \cup {Bogus}
        BY DEF Idle, RequestState, PC, Presentable
      <3>2. req' = [req EXCEPT ![r] = state]
        BY <2>4 DEF RefreshMiss, Start
      <3> HIDE DEF state
      <3> QED
        BY <2>4, <3>1, <3>2, <1>t, RequestStep DEF RefreshMiss
    <2>5. ASSUME NEW s \in Session, LogoutBegin(r, s)
          PROVE  SafeInv'
      <3> DEFINE state == [Idle EXCEPT !.pc = "logoutSelect", !.sid = s]
      <3>1. /\ state \in RequestState /\ state.pc = "logoutSelect"
            /\ state.new = NoToken /\ state.batch = {} /\ state.sid = s
        BY DEF Idle, RequestState, PC
      <3>2. req' = [req EXCEPT ![r] = state] /\ Exists(s)
        BY <2>5 DEF LogoutBegin, Start, SessionByID
      <3> HIDE DEF state
      <3> QED
        BY <2>5, <3>1, <3>2, <1>t, RequestStep DEF LogoutBegin
    <2>6. ASSUME NEW own \in Session, NEW s \in Session, RevokeBegin(r, own, s)
          PROVE  SafeInv'
      <3> DEFINE state == [Idle EXCEPT !.pc = "revokeFind", !.sid = s]
      <3>1. /\ state \in RequestState /\ state.pc = "revokeFind"
            /\ state.new = NoToken /\ state.batch = {} /\ state.sid = s
        BY DEF Idle, RequestState, PC
      <3>2. req' = [req EXCEPT ![r] = state] /\ Exists(s)
        BY <2>6 DEF RevokeBegin, Start
      <3> HIDE DEF state
      <3> QED
        BY <2>6, <3>1, <3>2, <1>t, RequestStep DEF RevokeBegin
    <2>7. ASSUME NEW u \in User, RevokeAllBegin(r, u)
          PROVE  SafeInv'
      <3> DEFINE B == {s \in Session : SessionByID(s) /\ sessions[s].user = u}
                 state == [Idle EXCEPT !.pc = "revokeAll", !.batch = B]
      <3>1. /\ state \in RequestState /\ state.pc = "revokeAll"
            /\ state.new = NoToken /\ state.batch = B
        BY DEF Idle, RequestState, PC
      <3>2. req' = [req EXCEPT ![r] = state]
        BY <2>7 DEF RevokeAllBegin, Start
      <3>3. \A s \in B : Exists(s)
        BY DEF SessionByID
      <3> HIDE DEF state, B
      <3> QED
        BY <2>7, <3>1, <3>2, <3>3, <1>t, RequestStep DEF RevokeAllBegin
    <2> QED
      BY <1>1, <2>1, <2>2, <2>3, <2>4, <2>5, <2>6, <2>7 DEF Arrive
  <1>2. ASSUME NEW r \in Request, Proceed(r) PROVE SafeInv'
    <2>1. CASE RefreshLookupHit(r)
      <3> DEFINE t == req[r].tok
                 sid == used[sha256Hex(t)]
                 state == [req[r] EXCEPT !.pc = "reuse", !.sid = sid]
      <3>1. /\ req[r].pc = "lookup" /\ sid # NoSession
            /\ req' = [req EXCEPT ![r] = state]
        BY <2>1 DEF RefreshLookupHit, SafeInv, TypeOK
      <3>2. t \in Token \cup {Bogus} /\ req[r].new = NoToken
            /\ \A s \in req[r].batch : Exists(s)
        BY <3>1 DEF SafeInv, RequestShape
      <3>3. t \in Token
        BY <3>1, <3>2 DEF SafeInv, TablesOwned
      <3>4. sid \in Session /\ Exists(sid)
        <4>1. family[t] = sid
          BY <3>1, <3>3 DEF SafeInv, TablesOwned
        <4>2. Exists(family[t])
          BY <3>1, <3>3, <4>1 DEF SafeInv, TokenLedger
        <4> QED
          BY <3>1, <3>3, <4>1, <4>2 DEF SafeInv, TypeOK
      <3>5. /\ state \in RequestState /\ state.pc = "reuse" /\ state.sid = sid
            /\ state.new = NoToken /\ state.tok = t /\ state.batch = req[r].batch
        BY <3>2, <3>4 DEF SafeInv, TypeOK, RequestState, PC
      <3> HIDE DEF state, sid
      <3> QED
        BY <2>1, <3>1, <3>2, <3>4, <3>5, <1>t, RequestStep DEF RefreshLookupHit
    <2>2. CASE RefreshLookupMiss(r)
      <3>1. req' = [req EXCEPT ![r] = Idle] /\ refused' = refused \cup {req[r].tok}
            /\ req[r].tok \in Token \cup {Bogus}
        BY <2>2 DEF RefreshLookupMiss, Done, SafeInv, RequestShape
      <3> QED
        BY <2>2, <3>1, <1>t, IdleFacts, RequestStep DEF RefreshLookupMiss
    <2>3. CASE RefreshRotate(r)
      BY <2>3, RotateStep
    <2>4. CASE LogoutSelect(r)
      <3>1. CASE req' = [req EXCEPT ![r] = Idle]
        BY <2>4, <3>1, <1>t, IdleFacts, RequestStep DEF LogoutSelect
      <3>2. CASE req' = [req EXCEPT ![r].pc = "logoutUpdate"]
        <4> DEFINE state == [req[r] EXCEPT !.pc = "logoutUpdate"]
        <4>1. /\ req[r].pc = "logoutSelect"
              /\ req' = [req EXCEPT ![r] = state]
          BY <2>4, <3>2 DEF LogoutSelect, SafeInv, TypeOK
        <4>2. /\ req[r].sid \in Session /\ Exists(req[r].sid) /\ req[r].new = NoToken
              /\ \A s \in req[r].batch : Exists(s)
          BY <4>1 DEF SafeInv, RequestShape
        <4>3. /\ state \in RequestState /\ state.pc = "logoutUpdate"
              /\ state.sid = req[r].sid /\ state.new = NoToken
              /\ state.batch = req[r].batch
          BY <4>2 DEF SafeInv, TypeOK, RequestState, PC
        <4> HIDE DEF state
        <4> QED
          BY <2>4, <4>1, <4>2, <4>3, <1>t, RequestStep DEF LogoutSelect
      <3> QED
        BY <2>4, <3>1, <3>2 DEF LogoutSelect, Done
    <2>5. CASE RevokeFind(r)
      <3>1. CASE req' = [req EXCEPT ![r] = Idle]
        BY <2>5, <3>1, <1>t, IdleFacts, RequestStep DEF RevokeFind
      <3>2. CASE req' = [req EXCEPT ![r].pc = "revoke"]
        <4> DEFINE state == [req[r] EXCEPT !.pc = "revoke"]
        <4>1. /\ req[r].pc = "revokeFind"
              /\ req' = [req EXCEPT ![r] = state]
          BY <2>5, <3>2 DEF RevokeFind, SafeInv, TypeOK
        <4>2. /\ req[r].sid \in Session /\ Exists(req[r].sid) /\ req[r].new = NoToken
              /\ \A s \in req[r].batch : Exists(s)
          BY <4>1 DEF SafeInv, RequestShape
        <4>3. /\ state \in RequestState /\ state.pc = "revoke"
              /\ state.sid = req[r].sid /\ state.new = NoToken
              /\ state.batch = req[r].batch
          BY <4>2 DEF SafeInv, TypeOK, RequestState, PC
        <4> HIDE DEF state
        <4> QED
          BY <2>5, <4>1, <4>2, <4>3, <1>t, RequestStep DEF RevokeFind
      <3> QED
        BY <2>5, <3>1, <3>2 DEF RevokeFind, Done
    <2> QED
      BY <1>2, <2>1, <2>2, <2>3, <2>4, <2>5 DEF Proceed
  <1>3. ASSUME NEW r \in Request, Await(r) PROVE SafeInv'
    <2>1. CASE RefreshReuse(r) \/ LogoutUpdate(r) \/ RevokeSession(r)
      <3>1. /\ req[r].sid \in Session /\ Exists(req[r].sid) /\ Unlocked(req[r].sid)
            /\ Revoke({req[r].sid}) /\ Done(r)
            /\ UNCHANGED <<used, rowLock, now, faults, family>>
            /\ refused' \in SUBSET (Token \cup {Bogus})
        BY <2>1, <1>t DEF RefreshReuse, LogoutUpdate, RevokeSession, SafeInv, RequestShape
      <3> QED
        BY <3>1, RevokeStep
    <2>2. CASE RevokeAllCommit(r)
      <3>1. /\ req[r].batch \in SUBSET Session
            /\ \A s \in req[r].batch : Exists(s) /\ Unlocked(s)
        BY <2>2, <1>t, RequestFacts DEF RevokeAllCommit, SafeInv, RequestShape
      <3> QED
        BY <2>2, <3>1, <1>t, RevokeStep DEF RevokeAllCommit
    <2> QED
      BY <1>3, <2>1, <2>2 DEF Await
  <1>4. ASSUME NEW r \in Request, Fail(r) PROVE SafeInv'
    <2>1. /\ req' = [req EXCEPT ![r] = Idle]
          /\ UNCHANGED <<sessions, used, now, family>>
          /\ faults' \in 0..MaxFaults
      BY <1>4, <1>t, TTLAssumption DEF Fail, Done
    <2>2. /\ rowLock' \in [Session -> Request \cup {NoRequest}]
          /\ \A s \in Session : rowLock'[s] = rowLock[s] \/ rowLock[s] = r
      BY <1>4, <1>t DEF Fail
    <2>3. refused' \in SUBSET (Token \cup {Bogus})
      BY <1>4, <1>t DEF Fail
    <2> QED
      BY <2>1, <2>2, <2>3, <1>t, IdleFacts, RequestStep
  <1>5. CASE Crash
    <2>1. \A q \in Request : req'[q] = Idle
      BY <1>5 DEF Crash
    <2>2. TypeOK'
      BY <1>5, IdleFacts, TTLAssumption DEF Crash, SafeInv, TypeOK
    <2>3. RotationOwnsRow' /\ DrawnTokensFresh' /\ RequestShape'
      BY <2>1, IdleFacts DEF RotationOwnsRow, DrawnTokensFresh, RequestShape
    <2>4. TablesOwned' /\ TokenLedger'
      BY <1>5 DEF Crash, SafeInv, TablesOwned, TokenLedger, Exists
    <2> QED
      BY <2>2, <2>3, <2>4 DEF SafeInv
  <1>6. CASE Tick \/ UNCHANGED vars
    <2>1. UNCHANGED <<sessions, used, rowLock, req, family>> /\ TypeOK'
      BY <1>6, TTLAssumption DEF Tick, vars, SafeInv, TypeOK
    <2> QED
      BY <2>1 DEF SafeInv, RotationOwnsRow, DrawnTokensFresh, RequestShape,
                  TablesOwned, TokenLedger, HasHash, Exists
  <1> QED
    BY <1>1, <1>2, <1>3, <1>4, <1>5, <1>6 DEF Next

\* Type correctness and the token ledger hold in every reachable state.
THEOREM Safety == Spec => []SafeInv
  BY InitSafe, NextSafe, PTL DEF Spec

\* The ledger of refresh tokens has no gap: every token stored for a session is
\* its current hash or its entry in used_refresh_tokens, and never both.
THEOREM LedgerComplete == Spec => [](TypeOK /\ TokenLedger)
  <1>1. SafeInv => TypeOK /\ TokenLedger
    BY DEF SafeInv
  <1> QED
    BY <1>1, Safety, PTL

\* The tables and the requests keep their types for any constants.
THEOREM TypeCorrect == Spec => []TypeOK
  <1>1. SafeInv => TypeOK
    BY DEF SafeInv
  <1> QED
    BY <1>1, Safety, PTL

-----------------------------------------------------------------------------
\* What a step does to the tables: it opens a session, rotates one, revokes some
\* existing ones, or leaves the tables as they are.
LEMMA TableSteps ==
    ASSUME SafeInv, [Next]_vars
    PROVE  \/ UNCHANGED <<sessions, used>>
           \/ \E r \in Request, u \in User, s \in Session, t \in Token :
                  issueSession(r, u, s, t)
           \/ \E r \in Request : RefreshRotate(r)
           \/ \E S \in SUBSET Session :
                  (\A s \in S : Exists(s)) /\ Revoke(S) /\ UNCHANGED used
  <1>1. ASSUME NEW r \in Request, Arrive(r)
        PROVE  \/ UNCHANGED <<sessions, used>>
               \/ \E u \in User, s \in Session, t \in Token : issueSession(r, u, s, t)
    BY <1>1 DEF Arrive, RefreshSelect, RefreshRefuse, RefreshMiss, LogoutBegin,
                RevokeBegin, RevokeAllBegin
  <1>2. ASSUME NEW r \in Request, Proceed(r)
        PROVE  UNCHANGED <<sessions, used>> \/ RefreshRotate(r)
    BY <1>2 DEF Proceed, RefreshLookupHit, RefreshLookupMiss, LogoutSelect, RevokeFind
  <1>3. ASSUME NEW r \in Request, Await(r)
        PROVE  \E S \in SUBSET Session :
                  (\A s \in S : Exists(s)) /\ Revoke(S) /\ UNCHANGED used
    <2>1. CASE RefreshReuse(r) \/ LogoutUpdate(r) \/ RevokeSession(r)
      <3>1. /\ req[r].sid \in Session /\ Exists(req[r].sid)
            /\ Revoke({req[r].sid}) /\ UNCHANGED used
        BY <2>1 DEF RefreshReuse, LogoutUpdate, RevokeSession, SafeInv, RequestShape
      <3> QED
        BY <3>1
    <2>2. CASE RevokeAllCommit(r)
      <3>1. req[r].batch \in SUBSET Session /\ \A s \in req[r].batch : Exists(s)
        BY RequestFacts DEF SafeInv, RequestShape
      <3> QED
        BY <2>2, <3>1 DEF RevokeAllCommit
    <2> QED
      BY <1>3, <2>1, <2>2 DEF Await
  <1>4. ASSUME NEW r \in Request, Fail(r) PROVE UNCHANGED <<sessions, used>>
    BY <1>4 DEF Fail
  <1>5. ASSUME Crash \/ Tick \/ UNCHANGED vars PROVE UNCHANGED <<sessions, used>>
    BY <1>5 DEF Crash, Tick, vars
  <1> QED
    BY <1>1, <1>2, <1>3, <1>4, <1>5 DEF Next

\* The effect of Revoke on existing rows.
LEMMA RevokeEffect ==
    ASSUME SafeInv, NEW S \in SUBSET Session, \A s \in S : Exists(s), Revoke(S)
    PROVE  \A s \in Session :
               /\ sessions'[s] # NoRow <=> Exists(s)
               /\ Exists(s) => /\ sessions'[s].hash = sessions[s].hash
                               /\ sessions'[s].revoked <=> (sessions[s].revoked \/ s \in S)
  <1> SUFFICES ASSUME NEW s \in Session
               PROVE  /\ sessions'[s] # NoRow <=> Exists(s)
                      /\ Exists(s) => /\ sessions'[s].hash = sessions[s].hash
                                      /\ sessions'[s].revoked <=> (sessions[s].revoked \/ s \in S)
    OBVIOUS
  <1>1. Exists(s) => sessions[s] \in Row
    BY DEF SafeInv, TypeOK, Exists
  <1>2. CASE s \in S
    <2>1. sessions'[s] = [sessions[s] EXCEPT !.revoked = TRUE]
      BY <1>2 DEF Revoke
    <2> QED
      BY <1>1, <1>2, <2>1, RowFacts DEF Exists
  <1>3. CASE s \notin S
    BY <1>3 DEF Revoke, Exists
  <1> QED
    BY <1>2, <1>3

\* The effect of a rotation on the tables.
LEMMA RotateEffect ==
    ASSUME SafeInv, NEW r \in Request, RefreshRotate(r)
    PROVE  /\ req[r].sid \in Session /\ req[r].new \in Token /\ req[r].tok \in Token
           /\ HasHash(req[r].sid, req[r].tok) /\ ~sessions[req[r].sid].revoked
           /\ family[req[r].new] = NoSession
           /\ sessions'[req[r].sid] # NoRow
           /\ sessions'[req[r].sid].hash = sha256Hex(req[r].new)
           /\ sessions'[req[r].sid].revoked = sessions[req[r].sid].revoked
           /\ \A q \in Session : q # req[r].sid => sessions'[q] = sessions[q]
           /\ used' = [used EXCEPT ![sha256Hex(req[r].tok)] = req[r].sid]
  <1>1. /\ req[r].sid \in Session /\ req[r].new \in Token /\ req[r].tok \in Token
        /\ HasHash(req[r].sid, req[r].tok) /\ ~sessions[req[r].sid].revoked
    BY DEF RefreshRotate, SafeInv, RotationOwnsRow
  <1>2. family[req[r].new] = NoSession
    BY <1>1, SentinelAssumption DEF SafeInv, DrawnTokensFresh
  <1>3. /\ sessions' = [sessions EXCEPT ![req[r].sid].hash = sha256Hex(req[r].new)]
        /\ used' = [used EXCEPT ![sha256Hex(req[r].tok)] = req[r].sid]
    BY DEF RefreshRotate
  <1>4. sessions[req[r].sid] \in Row
    BY <1>1 DEF SafeInv, TypeOK, HasHash, Exists
  <1>5. /\ sessions'[req[r].sid] = [sessions[req[r].sid] EXCEPT !.hash = sha256Hex(req[r].new)]
        /\ \A q \in Session : q # req[r].sid => sessions'[q] = sessions[q]
    BY <1>1, <1>3 DEF SafeInv, TypeOK
  <1>6. /\ [sessions[req[r].sid] EXCEPT !.hash = sha256Hex(req[r].new)] \in Row
        /\ sessions'[req[r].sid].hash = sha256Hex(req[r].new)
        /\ sessions'[req[r].sid].revoked = sessions[req[r].sid].revoked
    BY <1>1, <1>4, <1>5, DigestFacts DEF Row
  <1> QED
    BY <1>1, <1>2, <1>3, <1>5, <1>6, RowFacts

\* No step hands a new token to a revoked session or brings one back, although
\* Refresh reads revoked_at in one statement and rotates in another.
THEOREM RevocationIsFinal == Spec => RevokedIsFinal
  <1> DEFINE Final(s) ==
        (Exists(s) /\ sessions[s].revoked) =>
              /\ sessions'[s] # NoRow
              /\ sessions'[s].revoked
              /\ sessions'[s].hash = sessions[s].hash
  <1>1. ASSUME SafeInv, [Next]_vars, NEW s \in Session PROVE Final(s)
    <2>1. CASE UNCHANGED <<sessions, used>>
      BY <2>1 DEF Exists
    <2>2. CASE \E r \in Request, u \in User, q \in Session, t \in Token :
                  issueSession(r, u, q, t)
      BY <2>2, <1>1 DEF issueSession, Exists, SafeInv, TypeOK
    <2>3. CASE \E r \in Request : RefreshRotate(r)
      <3>1. PICK r \in Request : RefreshRotate(r)
        BY <2>3
      <3> QED
        BY <1>1, <3>1, RotateEffect DEF Exists
    <2>4. CASE \E S \in SUBSET Session :
                  (\A q \in S : Exists(q)) /\ Revoke(S) /\ UNCHANGED used
      BY <1>1, <2>4, RevokeEffect
    <2> QED
      BY <1>1, <2>1, <2>2, <2>3, <2>4, TableSteps
  <1>2. SafeInv /\ [Next]_vars => [\A s \in Session : Final(s)]_vars
    BY <1>1
  <1> QED
    BY <1>2, Safety, PTL DEF Spec, RevokedIsFinal

-----------------------------------------------------------------------------
(* Refinement of TokenFamily: the abstract state of a session *)

cur == [s \in Session |-> IF Exists(s) THEN sessions[s].hash ELSE NoToken]
ret == [s \in Session |-> {h \in Digest : used[h] = s}]
shut == {s \in Session : Exists(s) /\ sessions[s].revoked}

\* A token that no session was given yet is unseen by the contract.
LEMMA FreshIsUnseen ==
    ASSUME SafeInv, NEW t \in Token, family[t] = NoSession
    PROVE  Family!Unseen(sha256Hex(t))
  <1> SUFFICES ASSUME NEW s \in Session
               PROVE  cur[s] # sha256Hex(t) /\ sha256Hex(t) \notin ret[s]
    BY DEF Family!Unseen, cur, ret
  <1>1. cur[s] # sha256Hex(t)
    <2>1. CASE Exists(s)
      <3>1. PICK x \in Token : sessions[s].hash = sha256Hex(x) /\ family[x] = s
        BY <2>1 DEF SafeInv, TablesOwned
      <3>2. x # t
        BY <3>1, SentinelAssumption
      <3> QED
        BY <2>1, <3>1, <3>2, DigestFacts DEF cur
    <2>2. CASE ~Exists(s)
      BY <2>2, DigestFacts, SentinelAssumption DEF cur
    <2> QED
      BY <2>1, <2>2
  <1>2. sha256Hex(t) \notin ret[s]
    BY SentinelAssumption DEF ret, SafeInv, TablesOwned
  <1> QED
    BY <1>1, <1>2

\* Every step of the store is a step of the contract or leaves it unchanged.
LEMMA StepRefines ==
    ASSUME SafeInv, [Next]_vars
    PROVE  [Family!Next]_(Family!vars)
  <1>u. ASSUME UNCHANGED <<cur, ret, shut>> PROVE UNCHANGED Family!vars
    BY <1>u DEF cur, ret, shut, Family!vars
  <1>1. CASE UNCHANGED <<sessions, used>>
    BY <1>1 DEF Family!vars, Exists
  <1>2. ASSUME NEW r \in Request, NEW u \in User, NEW s \in Session, NEW t \in Token,
               issueSession(r, u, s, t)
        PROVE  Family!Next
    <2>1. ~Exists(s) /\ family[t] = NoSession /\ UNCHANGED used
      BY <1>2 DEF issueSession, Fresh
    <2>2. /\ \A q \in Session : q # s => sessions'[q] = sessions[q]
          /\ sessions'[s].hash = sha256Hex(t) /\ sessions'[s].revoked = FALSE
      BY <1>2 DEF issueSession, SafeInv, TypeOK
    <2>3. sessions'[s] # NoRow
      <3>1. TypeOK' /\ TokenLedger' /\ family'[t] = s
        BY <1>2, IssueStep DEF SafeInv, issueSession, TypeOK
      <3> QED
        BY <3>1, SentinelAssumption DEF TokenLedger, Exists
    <2>4. cur[s] = NoToken /\ cur' = [cur EXCEPT ![s] = sha256Hex(t)]
      BY <2>1, <2>2, <2>3 DEF cur, Exists
    <2>5. ret' = ret /\ shut' = shut
      BY <2>1, <2>2 DEF ret, shut, Exists
    <2>6. Family!Open(s, sha256Hex(t))
      BY <2>1, <2>4, <2>5, FreshIsUnseen DEF Family!Open, cur, ret, shut
    <2> QED
      BY <2>6, DigestFacts DEF Family!Next
  <1>3. ASSUME NEW r \in Request, RefreshRotate(r)
        PROVE  Family!Next
    <2>0. PICK s \in Session, t \in Token, h \in Digest :
              s = req[r].sid /\ t = req[r].new /\ h = sha256Hex(req[r].tok)
      BY <1>3, RotateEffect, DigestFacts
    <2>1. /\ Exists(s) /\ sessions[s].hash = h /\ ~sessions[s].revoked
          /\ family[t] = NoSession
          /\ sessions'[s] # NoRow /\ sessions'[s].hash = sha256Hex(t)
          /\ sessions'[s].revoked = sessions[s].revoked
          /\ \A q \in Session : q # s => sessions'[q] = sessions[q]
          /\ used' = [used EXCEPT ![h] = s]
      BY <1>3, <2>0, RotateEffect DEF HasHash
    <2>2. used[h] = NoSession
      BY <1>3, <2>0 DEF RefreshRotate
    <2>3. /\ cur[s] = h /\ cur[s] # NoToken /\ s \notin shut
          /\ cur' = [cur EXCEPT ![s] = sha256Hex(t)]
      BY <2>1, SentinelAssumption DEF cur, shut, Exists
    <2>4. ret' = [ret EXCEPT ![s] = ret[s] \cup {cur[s]}]
      <3>1. \A g \in Digest : used'[g] = IF g = h THEN s ELSE used[g]
        BY <2>1 DEF SafeInv, TypeOK
      <3>2. ASSUME NEW q \in Session
            PROVE  ret'[q] = IF q = s THEN ret[q] \cup {h} ELSE ret[q]
        BY <2>1, <2>2, <3>1, SentinelAssumption DEF ret
      <3> QED
        BY <3>2, <2>1, <2>3 DEF ret
    <2>5. shut' = shut
      BY <2>1 DEF shut, Exists
    <2>6. Family!Rotate(s, sha256Hex(t))
      BY <2>1, <2>3, <2>4, <2>5, FreshIsUnseen DEF Family!Rotate, cur, ret, shut
    <2> QED
      BY <2>1, <2>6, DigestFacts DEF Family!Next
  <1>4. ASSUME NEW S \in SUBSET Session, \A s \in S : Exists(s), Revoke(S),
               UNCHANGED used
        PROVE  Family!Next \/ UNCHANGED Family!vars
    <2>0. PICK T \in SUBSET Session : T = S \ shut
      OBVIOUS
    <2>e. \A s \in Session :
            /\ sessions'[s] # NoRow <=> Exists(s)
            /\ Exists(s) => /\ sessions'[s].hash = sessions[s].hash
                            /\ sessions'[s].revoked <=> (sessions[s].revoked \/ s \in S)
      BY <1>4, RevokeEffect
    <2>c. cur' = cur
      <3>1. ASSUME NEW s \in Session PROVE cur'[s] = cur[s]
        <4>1. CASE Exists(s)
          <5>1. sessions'[s] # NoRow /\ sessions'[s].hash = sessions[s].hash
            BY <2>e, <4>1
          <5> QED
            BY <4>1, <5>1 DEF cur, Exists
        <4>2. CASE ~Exists(s)
          <5>1. sessions'[s] = NoRow
            BY <2>e, <4>2
          <5> QED
            BY <4>2, <5>1 DEF cur, Exists
        <4> QED
          BY <4>1, <4>2
      <3> QED
        BY <3>1 DEF cur
    <2>r. ret' = ret
      BY <1>4 DEF ret
    <2>s. shut' = shut \cup T
      <3>1. ASSUME NEW s \in Session
            PROVE  (sessions'[s] # NoRow /\ sessions'[s].revoked)
                     <=> ((Exists(s) /\ sessions[s].revoked) \/ s \in S)
        BY <1>4, <2>e DEF Exists
      <3> QED
        BY <2>0, <3>1 DEF shut, Exists
    <2>1. /\ cur' = cur /\ ret' = ret /\ shut' = shut \cup T
          /\ T \cap shut = {}
      BY <2>0, <2>c, <2>r, <2>s
    <2>2. CASE T = {}
      BY <2>1, <2>2, <1>u
    <2>3. CASE T # {}
      <3>1. \A s \in T : cur[s] # NoToken
        <4> SUFFICES ASSUME NEW s \in T PROVE cur[s] # NoToken
          OBVIOUS
        <4>1. s \in Session /\ sessions[s] \in Row /\ Exists(s)
          BY <1>4, <2>0 DEF SafeInv, TypeOK, Exists
        <4>2. sessions[s].hash \in Digest
          BY <4>1 DEF Row
        <4>3. cur[s] = sessions[s].hash
          BY <4>1 DEF cur
        <4> QED
          BY <4>2, <4>3, SentinelAssumption
      <3>2. Family!Close(T)
        BY <2>1, <2>3, <3>1 DEF Family!Close, cur, ret, shut
      <3> QED
        BY <2>1, <3>2 DEF Family!Next
    <2> QED
      BY <2>2, <2>3
  <1> QED
    BY <1>1, <1>2, <1>3, <1>4, TableSteps

\* The Postgres session store implements the contract of a rotating token family.
THEOREM Refinement == Spec => ImplementsTokenFamily
  <1>1. Init => Family!Init
    BY SentinelAssumption DEF Init, Family!Init, Exists
  <1>2. SafeInv /\ [Next]_vars => [Family!Next]_(Family!vars)
    BY StepRefines
  <1> QED
    BY <1>1, <1>2, Safety, PTL DEF Spec, ImplementsTokenFamily, Family!Spec

-----------------------------------------------------------------------------
(* Reuse detection *)

\* Refresh refuses the current token of a session that is revoked or expired.
Closed(s) == sessions[s].revoked \/ now > sessions[s].exp

\* A token that missed the session table has an entry in used_refresh_tokens, and
\* a request about to revoke works on the session that entry names.
ReuseFollowsLedger ==
    \A r \in Request :
        /\ req[r].pc = "lookup" /\ req[r].tok \in Token =>
               used[sha256Hex(req[r].tok)] # NoSession
        /\ req[r].pc = "reuse" => req[r].sid = used[sha256Hex(req[r].tok)]

\* Nobody rotates a token that was refused.
RotationNotRefused ==
    \A r \in Request : req[r].pc = "rotate" => req[r].tok \notin refused

\* A refused token never becomes usable again: it was exchanged before, or its
\* session is closed.
RefusedUnusable ==
    \A t \in refused \cap Token :
        /\ family[t] # NoSession
        /\ used[sha256Hex(t)] # NoSession \/ Closed(family[t])

\* What reuse detection rests on.
ReuseInv ==
    /\ ReuseFollowsLedger
    /\ RotationNotRefused
    /\ RefusedUnusable
    /\ ReuseRevokes

\* Time passes and revocation stays: what Closed and the ledger say of a stored
\* token is not unsaid by a later step.
Ageing ==
    /\ \A s \in Session : Exists(s) /\ Closed(s) => Closed(s)'
    /\ \A s \in Session : Exists(s) /\ sessions[s].revoked => sessions'[s].revoked
    /\ \A t \in Token : family[t] # NoSession => family'[t] = family[t]
    /\ \A t \in Token : used[sha256Hex(t)] # NoSession =>
           used'[sha256Hex(t)] = used[sha256Hex(t)]

\* Revoking rows and letting the clock run only ages the tables.
LEMMA RevokeAges ==
    ASSUME SafeInv, NEW S \in SUBSET Session, \A s \in S : Exists(s), Revoke(S),
           UNCHANGED <<used, now, faults, family>>
    PROVE  Ageing
  <1> SUFFICES ASSUME NEW s \in Session, Exists(s)
               PROVE  /\ sessions[s].revoked => sessions'[s].revoked
                      /\ sessions'[s].exp = sessions[s].exp
    BY DEF Ageing, Closed
  <1>1. sessions[s] \in Row
    BY DEF SafeInv, TypeOK, Exists
  <1>2. sessions'[s] = IF s \in S THEN [sessions[s] EXCEPT !.revoked = TRUE] ELSE sessions[s]
    BY DEF Revoke
  <1> QED
    BY <1>1, <1>2 DEF Row

\* A step that leaves the tables alone only ages them, whatever the clock does.
LEMMA UnchangedAges ==
    ASSUME SafeInv, UNCHANGED <<sessions, used, family>>,
           now' \in {now, now + 1}
    PROVE  Ageing
  <1>1. now \in Nat
    BY TTLAssumption DEF SafeInv, TypeOK
  <1>2. ASSUME NEW s \in Session, Exists(s), now > sessions[s].exp
        PROVE  now' > sessions'[s].exp
    <2>1. sessions[s] \in Row
      BY <1>2 DEF SafeInv, TypeOK, Exists
    <2>2. sessions[s].exp \in Nat /\ sessions'[s].exp = sessions[s].exp
      BY <2>1, RowFacts
    <2> QED
      BY <1>1, <1>2, <2>2
  <1> QED
    BY <1>1, <1>2 DEF Ageing, Closed

\* A new session takes an unused row and an unused token.
LEMMA IssueAges ==
    ASSUME SafeInv, NEW r \in Request, NEW u \in User, NEW s \in Session, NEW t \in Token,
           issueSession(r, u, s, t)
    PROVE  Ageing
  <1>1. \A q \in Session : Exists(q) => sessions'[q] = sessions[q]
    BY DEF issueSession, SafeInv, TypeOK
  <1>2. \A x \in Token : family[x] # NoSession => family'[x] = family[x]
    BY DEF issueSession, Fresh, SafeInv, TypeOK
  <1> QED
    BY <1>1, <1>2 DEF issueSession, Ageing, Closed

\* A rotation writes a ledger entry that was free and keeps the expiry.
LEMMA RotateAges ==
    ASSUME SafeInv, NEW r \in Request, RefreshRotate(r)
    PROVE  /\ Ageing
           /\ \A t \in Token : t # req[r].tok => used'[sha256Hex(t)] = used[sha256Hex(t)]
  <1> DEFINE s == req[r].sid
  <1>1. /\ s \in Session /\ req[r].new \in Token /\ req[r].tok \in Token
        /\ Exists(s) /\ family[req[r].new] = NoSession
        /\ used' = [used EXCEPT ![sha256Hex(req[r].tok)] = s]
        /\ \A q \in Session : q # s => sessions'[q] = sessions[q]
    BY RotateEffect DEF HasHash
  <1>2. /\ used[sha256Hex(req[r].tok)] = NoSession
        /\ sessions' = [sessions EXCEPT ![s].hash = sha256Hex(req[r].new)]
        /\ family' = [family EXCEPT ![req[r].new] = s]
        /\ UNCHANGED <<now, faults>>
    BY DEF RefreshRotate
  <1>3. sessions[s] \in Row
    BY <1>1 DEF SafeInv, TypeOK, Exists
  <1>4. sessions'[s].exp = sessions[s].exp /\ sessions'[s].revoked = sessions[s].revoked
    BY <1>1, <1>2, <1>3 DEF SafeInv, TypeOK, Row
  <1>5. \A q \in Session : /\ sessions'[q].exp = sessions[q].exp
                           /\ sessions'[q].revoked = sessions[q].revoked
    BY <1>1, <1>4
  <1>6. \A t \in Token : t # req[r].tok => used'[sha256Hex(t)] = used[sha256Hex(t)]
    BY <1>1, DigestFacts DEF SafeInv, TypeOK
  <1>7. \A t \in Token : family[t] # NoSession => family'[t] = family[t]
    BY <1>1, <1>2 DEF SafeInv, TypeOK
  <1> QED
    BY <1>2, <1>5, <1>6, <1>7 DEF Ageing, Closed

\* A stored token's session exists, and only its own row can hold its hash.
LEMMA StoredFacts ==
    ASSUME SafeInv, NEW t \in Token, family[t] # NoSession
    PROVE  /\ family[t] \in Session /\ Exists(family[t])
           /\ used[sha256Hex(t)] # NoSession => used[sha256Hex(t)] = family[t]
           /\ used[sha256Hex(t)] = NoSession => HasHash(family[t], t)
           /\ \A s \in Session : HasHash(s, t) => s = family[t] /\ used[sha256Hex(t)] = NoSession
  <1>1. family[t] \in Session /\ Exists(family[t])
    BY DEF SafeInv, TypeOK, TokenLedger
  <1>2. /\ used[sha256Hex(t)] # NoSession => used[sha256Hex(t)] = family[t]
        /\ used[sha256Hex(t)] = NoSession => HasHash(family[t], t)
    BY <1>1, SentinelAssumption DEF SafeInv, TokenLedger, HasHash
  <1>3. ASSUME NEW s \in Session, HasHash(s, t)
        PROVE  s = family[t] /\ used[sha256Hex(t)] = NoSession
    <2>1. PICK x \in Token : sessions[s].hash = sha256Hex(x) /\ family[x] = s
      BY <1>3 DEF SafeInv, TablesOwned, HasHash
    <2>2. s = family[t]
      BY <1>3, <2>1, DigestFacts DEF HasHash
    <2> QED
      BY <1>3, <2>2 DEF SafeInv, TokenLedger, HasHash
  <1> QED
    BY <1>1, <1>2, <1>3

\* A step of request r that ages the tables and uses up no refused token keeps
\* the invariant when what it refuses is unusable and r goes on consistently.
LEMMA ReuseStep ==
    ASSUME SafeInv, ReuseInv, Ageing, NEW r \in Request,
           \A q \in Request : q # r => req'[q] = req[q],
           req'[r].pc = "lookup" /\ req'[r].tok \in Token =>
               used'[sha256Hex(req'[r].tok)] # NoSession,
           req'[r].pc = "reuse" => req'[r].sid = used'[sha256Hex(req'[r].tok)],
           req'[r].pc = "rotate" => req'[r].tok \notin refused',
           \A t \in refused \cap Token : used'[sha256Hex(t)] = used[sha256Hex(t)],
           \A t \in (refused' \ refused) \cap Token :
               /\ family'[t] # NoSession
               /\ used'[sha256Hex(t)] # NoSession \/ Closed(family[t])'
               /\ used'[sha256Hex(t)] # NoSession =>
                      sessions'[used'[sha256Hex(t)]].revoked
               /\ \A q \in Request : q # r /\ req[q].pc = "rotate" => req[q].tok # t
    PROVE  ReuseInv'
  <1>1. ReuseFollowsLedger'
    <2> SUFFICES ASSUME NEW q \in Request, q # r
                 PROVE  /\ req[q].pc = "lookup" /\ req[q].tok \in Token =>
                               used'[sha256Hex(req[q].tok)] # NoSession
                        /\ req[q].pc = "reuse" => req[q].sid = used'[sha256Hex(req[q].tok)]
      BY DEF ReuseFollowsLedger
    <2>1. CASE req[q].pc = "lookup" /\ req[q].tok \in Token
      BY <2>1 DEF ReuseInv, ReuseFollowsLedger, Ageing
    <2>2. CASE req[q].pc = "reuse"
      <3>1. /\ req[q].sid \in Session /\ req[q].tok \in Token \cup {Bogus}
            /\ req[q].sid = used[sha256Hex(req[q].tok)]
        BY <2>2 DEF SafeInv, RequestShape, ReuseInv, ReuseFollowsLedger
      <3>2. req[q].tok \in Token
        BY <3>1, SentinelAssumption DEF SafeInv, TablesOwned
      <3> QED
        BY <2>2, <3>1, <3>2, SentinelAssumption DEF Ageing
    <2> QED
      BY <2>1, <2>2
  <1>2. RotationNotRefused'
    <2> SUFFICES ASSUME NEW q \in Request, q # r, req[q].pc = "rotate"
                 PROVE  req[q].tok \notin refused'
      BY DEF RotationNotRefused
    <2>1. req[q].tok \in Token /\ req[q].tok \notin refused
      BY DEF SafeInv, RotationOwnsRow, ReuseInv, RotationNotRefused
    <2> QED
      BY <2>1
  <1>3. ASSUME NEW t \in refused \cap Token
        PROVE  /\ family[t] \in Session /\ Exists(family[t]) /\ family'[t] = family[t]
               /\ family'[t] # NoSession
               /\ used'[sha256Hex(t)] # NoSession \/ Closed(family[t])'
               /\ used[sha256Hex(t)] # NoSession => used[sha256Hex(t)] = family[t]
    <2>1. family[t] # NoSession /\ (used[sha256Hex(t)] # NoSession \/ Closed(family[t]))
      BY DEF ReuseInv, RefusedUnusable
    <2>2. /\ family[t] \in Session /\ Exists(family[t]) /\ family'[t] = family[t]
          /\ used[sha256Hex(t)] # NoSession => used[sha256Hex(t)] = family[t]
      BY <2>1, StoredFacts DEF Ageing
    <2>3. Closed(family[t]) => Closed(family[t])'
      BY <2>2 DEF Ageing, Closed
    <2> QED
      BY <2>1, <2>2, <2>3
  <1>4. RefusedUnusable'
    BY <1>3 DEF RefusedUnusable
  <1>5. ReuseRevokes'
    <2> SUFFICES ASSUME NEW t \in refused' \cap Token, used'[sha256Hex(t)] # NoSession
                 PROVE  sessions'[used'[sha256Hex(t)]].revoked
      BY DEF ReuseRevokes
    <2>1. CASE t \in refused
      BY <1>3, <2>1 DEF ReuseInv, ReuseRevokes, Ageing
    <2>2. CASE t \notin refused
      BY <2>2
    <2> QED
      BY <2>1, <2>2
  <1> QED
    BY <1>1, <1>2, <1>4, <1>5 DEF ReuseInv

\* Every step keeps the invariant of reuse detection.
LEMMA ReuseSafe ==
    ASSUME SafeInv, ReuseInv, [Next]_vars
    PROVE  ReuseInv'
  <1>t. /\ req \in [Request -> RequestState]
        /\ \A q \in Request : \A state : req' = [req EXCEPT ![q] = state] =>
               req'[q] = state /\ \A p \in Request : p # q => req'[p] = req[p]
    BY DEF SafeInv, TypeOK
  <1>1. ASSUME NEW r \in Request, Arrive(r) PROVE ReuseInv'
    <2>1. ASSUME NEW u \in User, NEW s \in Session, NEW t \in Token, issueSession(r, u, s, t)
          PROVE  ReuseInv'
      <3>1. Ageing /\ UNCHANGED <<req, used, refused>> /\ req[r].pc = "idle"
        BY <2>1, IssueAges, IdleFacts DEF issueSession
      <3> QED
        BY <3>1, ReuseStep
    <2>2. ASSUME NEW t \in Presentable, NEW new \in Token, RefreshSelect(r, t, new)
          PROVE  ReuseInv'
      <3>1. PICK s \in Session :
                /\ HasHash(s, t) /\ ~Closed(s)
                /\ req' = [req EXCEPT ![r] =
                       [Idle EXCEPT !.pc = "rotate", !.tok = t, !.new = new, !.sid = s]]
                /\ UNCHANGED <<sessions, used, now, faults, family, refused>>
        BY <2>2 DEF RefreshSelect, Start, Closed
      <3>2. req'[r].pc = "rotate" /\ req'[r].tok = t /\ \A q \in Request : q # r => req'[q] = req[q]
        BY <1>t, <3>1 DEF Idle
      <3>3. t \notin refused
        <4>1. PICK x \in Token : sessions[s].hash = sha256Hex(x) /\ family[x] = s
          BY <3>1 DEF SafeInv, TablesOwned, HasHash
        <4>2. t = x /\ t \in Token /\ family[t] # NoSession
          BY <3>1, <4>1, DigestFacts, SentinelAssumption DEF HasHash
        <4>3. s = family[t] /\ used[sha256Hex(t)] = NoSession
          BY <3>1, <4>2, StoredFacts
        <4> QED
          BY <3>1, <4>2, <4>3 DEF ReuseInv, RefusedUnusable
      <3> QED
        BY <3>1, <3>2, <3>3, UnchangedAges, ReuseStep
    <2>3. ASSUME NEW t \in Presentable, RefreshRefuse(r, t)
          PROVE  ReuseInv'
      <3>1. PICK s \in Session :
                /\ HasHash(s, t) /\ Unlocked(s) /\ Closed(s)
                /\ req[r] = Idle /\ refused' = refused \cup {t}
                /\ UNCHANGED <<sessions, used, req, now, faults, family>>
        BY <2>3 DEF RefreshRefuse, Closed
      <3>2. PICK x \in Token : sessions[s].hash = sha256Hex(x) /\ family[x] = s
        BY <3>1 DEF SafeInv, TablesOwned, HasHash
      <3>3. t = x /\ t \in Token /\ family[t] # NoSession
        BY <3>1, <3>2, DigestFacts, SentinelAssumption DEF HasHash
      <3>4. s = family[t] /\ used[sha256Hex(t)] = NoSession
        BY <3>1, <3>3, StoredFacts
      <3>5. ASSUME NEW q \in Request, req[q].pc = "rotate" PROVE req[q].tok # t
        <4>1. /\ req[q].sid \in Session /\ HasHash(req[q].sid, req[q].tok)
              /\ rowLock[req[q].sid] = q
          BY <3>5 DEF SafeInv, RotationOwnsRow
        <4>2. req[q].tok = t => req[q].sid = s
          BY <3>3, <3>4, <4>1, StoredFacts
        <4> QED
          BY <3>1, <4>1, <4>2, SentinelAssumption DEF Unlocked
      <3>6. Closed(family[t])' /\ family'[t] # NoSession /\ used'[sha256Hex(t)] = NoSession
        BY <3>1, <3>3, <3>4 DEF Closed
      <3> QED
        BY <3>1, <3>5, <3>6, IdleFacts, UnchangedAges, ReuseStep
    <2>4. ASSUME NEW t \in Presentable, RefreshMiss(r, t)
          PROVE  ReuseInv'
      <3>1. /\ \A s \in Session : ~HasHash(s, t)
            /\ req' = [req EXCEPT ![r] = [Idle EXCEPT !.pc = "lookup", !.tok = t]]
            /\ UNCHANGED <<sessions, used, now, faults, family, refused>>
        BY <2>4 DEF RefreshMiss, Start
      <3>2. req'[r].pc = "lookup" /\ req'[r].tok = t /\ \A q \in Request : q # r => req'[q] = req[q]
        BY <1>t, <3>1 DEF Idle
      <3>3. t \in Token => used[sha256Hex(t)] # NoSession
        <4>1. t \in Token => family[t] # NoSession
          BY SentinelAssumption DEF Presentable
        <4> QED
          BY <3>1, <4>1, StoredFacts
      <3> QED
        BY <3>1, <3>2, <3>3, UnchangedAges, ReuseStep
    <2>5. ASSUME \/ \E s \in Session : LogoutBegin(r, s)
                 \/ \E own, s \in Session : RevokeBegin(r, own, s)
                 \/ \E u \in User : RevokeAllBegin(r, u)
          PROVE  ReuseInv'
      <3>1. UNCHANGED <<sessions, used, now, faults, family, refused>>
        BY <2>5 DEF LogoutBegin, RevokeBegin, RevokeAllBegin
      <3>2. /\ req'[r].pc \in {"logoutSelect", "revokeFind", "revokeAll"}
            /\ \A q \in Request : q # r => req'[q] = req[q]
        <4>1. ASSUME NEW s \in Session, LogoutBegin(r, s)
              PROVE  /\ req'[r].pc = "logoutSelect"
                     /\ \A q \in Request : q # r => req'[q] = req[q]
          BY <1>t, <4>1 DEF LogoutBegin, Start, Idle
        <4>2. ASSUME NEW own \in Session, NEW s \in Session, RevokeBegin(r, own, s)
              PROVE  /\ req'[r].pc = "revokeFind"
                     /\ \A q \in Request : q # r => req'[q] = req[q]
          BY <1>t, <4>2 DEF RevokeBegin, Start, Idle
        <4>3. ASSUME NEW u \in User, RevokeAllBegin(r, u)
              PROVE  /\ req'[r].pc = "revokeAll"
                     /\ \A q \in Request : q # r => req'[q] = req[q]
          BY <1>t, <4>3 DEF RevokeAllBegin, Start, Idle
        <4> QED
          BY <2>5, <4>1, <4>2, <4>3
      <3> QED
        BY <3>1, <3>2, UnchangedAges, ReuseStep
    <2> QED
      BY <1>1, <2>1, <2>2, <2>3, <2>4, <2>5 DEF Arrive
  <1>2. ASSUME NEW r \in Request, Proceed(r) PROVE ReuseInv'
    <2>1. CASE RefreshLookupHit(r)
      <3>1. /\ req[r].pc = "lookup" /\ used[sha256Hex(req[r].tok)] # NoSession
            /\ req' = [req EXCEPT ![r].pc = "reuse", ![r].sid = used[sha256Hex(req[r].tok)]]
            /\ UNCHANGED <<sessions, used, now, faults, family, refused>>
        BY <2>1 DEF RefreshLookupHit
      <3>2. req[r].tok \in Token
        BY <3>1 DEF SafeInv, RequestShape, TablesOwned
      <3>3. /\ req'[r].pc = "reuse" /\ req'[r].sid = used[sha256Hex(req[r].tok)]
            /\ req'[r].tok = req[r].tok /\ \A q \in Request : q # r => req'[q] = req[q]
        BY <1>t, <3>1 DEF RequestState
      <3> QED
        BY <3>1, <3>2, <3>3, UnchangedAges, ReuseStep
    <2>2. CASE RefreshLookupMiss(r)
      <3>1. /\ req[r].pc = "lookup" /\ used[sha256Hex(req[r].tok)] = NoSession
            /\ refused' = refused \cup {req[r].tok} /\ req' = [req EXCEPT ![r] = Idle]
            /\ UNCHANGED <<sessions, used, now, faults, family>>
        BY <2>2 DEF RefreshLookupMiss, Done
      <3>2. req[r].tok \notin Token
        BY <3>1 DEF ReuseInv, ReuseFollowsLedger
      <3> QED
        BY <1>t, <3>1, <3>2, IdleFacts, UnchangedAges, ReuseStep
    <2>3. CASE RefreshRotate(r)
      <3>1. /\ req[r].pc = "rotate" /\ req' = [req EXCEPT ![r] = Idle] /\ UNCHANGED refused
        BY <2>3 DEF RefreshRotate, Done
      <3>2. req[r].tok \notin refused
        BY <3>1 DEF ReuseInv, RotationNotRefused
      <3> QED
        BY <1>t, <2>3, <3>1, <3>2, IdleFacts, RotateAges, ReuseStep
    <2>4. CASE LogoutSelect(r)
      <3>1. /\ UNCHANGED <<sessions, used, now, faults, family, refused>>
            /\ req[r].pc = "logoutSelect"
        BY <2>4 DEF LogoutSelect
      <3>2. /\ req'[r].pc \in {"idle", "logoutUpdate"}
            /\ \A q \in Request : q # r => req'[q] = req[q]
        <4>1. CASE req' = [req EXCEPT ![r] = Idle]
          BY <1>t, <4>1, IdleFacts
        <4>2. CASE req' = [req EXCEPT ![r].pc = "logoutUpdate"]
          BY <1>t, <4>2 DEF RequestState
        <4> QED
          BY <2>4, <4>1, <4>2 DEF LogoutSelect, Done
      <3> QED
        BY <3>1, <3>2, UnchangedAges, ReuseStep
    <2>5. CASE RevokeFind(r)
      <3>1. /\ UNCHANGED <<sessions, used, now, faults, family, refused>>
            /\ req[r].pc = "revokeFind"
        BY <2>5 DEF RevokeFind
      <3>2. /\ req'[r].pc \in {"idle", "revoke"}
            /\ \A q \in Request : q # r => req'[q] = req[q]
        <4>1. CASE req' = [req EXCEPT ![r] = Idle]
          BY <1>t, <4>1, IdleFacts
        <4>2. CASE req' = [req EXCEPT ![r].pc = "revoke"]
          BY <1>t, <4>2 DEF RequestState
        <4> QED
          BY <2>5, <4>1, <4>2 DEF RevokeFind, Done
      <3> QED
        BY <3>1, <3>2, UnchangedAges, ReuseStep
    <2> QED
      BY <1>2, <2>1, <2>2, <2>3, <2>4, <2>5 DEF Proceed
  <1>3. ASSUME NEW r \in Request, Await(r) PROVE ReuseInv'
    <2>1. CASE RefreshReuse(r)
      <3>1. PICK s \in Session, t \in Token \cup {Bogus} :
                /\ s = req[r].sid /\ t = req[r].tok /\ Exists(s)
                /\ used[sha256Hex(t)] = s
        BY <2>1 DEF RefreshReuse, SafeInv, RequestShape, ReuseInv, ReuseFollowsLedger
      <3>2. t \in Token /\ family[t] = s
        BY <3>1, SentinelAssumption DEF SafeInv, TablesOwned
      <3>3. /\ Revoke({s}) /\ refused' = refused \cup {t} /\ req' = [req EXCEPT ![r] = Idle]
            /\ UNCHANGED <<used, now, faults, family>>
        BY <2>1, <3>1 DEF RefreshReuse, Done
      <3>4. Ageing
        BY <3>1, <3>3, RevokeAges
      <3>5. sessions'[s].revoked
        BY <3>1, <3>3, RevokeEffect
      <3>6. ASSUME NEW q \in Request, req[q].pc = "rotate" PROVE req[q].tok # t
        <4>1. req[q].sid \in Session /\ HasHash(req[q].sid, req[q].tok)
          BY <3>6 DEF SafeInv, RotationOwnsRow
        <4> QED
          BY <3>1, <3>2, <4>1, StoredFacts, SentinelAssumption
      <3> QED
        BY <1>t, <3>1, <3>2, <3>3, <3>4, <3>5, <3>6, IdleFacts, SentinelAssumption, ReuseStep
    <2>2. ASSUME LogoutUpdate(r) \/ RevokeSession(r) \/ RevokeAllCommit(r)
          PROVE  ReuseInv'
      <3>1. PICK S \in SUBSET Session : (\A s \in S : Exists(s)) /\ Revoke(S)
        <4>1. CASE RevokeAllCommit(r)
          BY <4>1, RequestFacts DEF RevokeAllCommit, SafeInv, RequestShape
        <4>2. CASE LogoutUpdate(r) \/ RevokeSession(r)
          <5>1. req[r].sid \in Session /\ Exists(req[r].sid) /\ Revoke({req[r].sid})
            BY <4>2 DEF LogoutUpdate, RevokeSession, SafeInv, RequestShape
          <5> QED
            BY <5>1
        <4> QED
          BY <2>2, <4>1, <4>2
      <3>2. req' = [req EXCEPT ![r] = Idle] /\ UNCHANGED <<used, now, faults, family, refused>>
        BY <2>2 DEF LogoutUpdate, RevokeSession, RevokeAllCommit, Done
      <3> QED
        BY <1>t, <3>1, <3>2, IdleFacts, RevokeAges, ReuseStep
    <2> QED
      BY <1>3, <2>1, <2>2 DEF Await
  <1>4. ASSUME NEW r \in Request, Fail(r) PROVE ReuseInv'
    <2>1. /\ req' = [req EXCEPT ![r] = Idle]
          /\ UNCHANGED <<sessions, used, now, family, refused>>
      BY <1>4 DEF Fail, Done
    <2> QED
      BY <1>t, <2>1, IdleFacts, UnchangedAges, ReuseStep
  <1>5. CASE Crash
    <2>1. /\ \A q \in Request : req'[q].pc = "idle"
          /\ UNCHANGED <<sessions, used, now, family, refused>>
      BY <1>5, IdleFacts DEF Crash
    <2> QED
      BY <2>1 DEF ReuseInv, ReuseFollowsLedger, RotationNotRefused, RefusedUnusable,
                  ReuseRevokes, Closed
  <1>6. CASE Tick \/ UNCHANGED vars
    <2>1. /\ UNCHANGED <<sessions, used, req, faults, family, refused>>
          /\ now' \in {now, now + 1}
      BY <1>6 DEF Tick, vars
    <2>2. Ageing
      BY <2>1, UnchangedAges
    <2>3. RefusedUnusable'
      BY <2>1, <2>2, StoredFacts DEF Ageing, Closed, ReuseInv, RefusedUnusable
    <2> QED
      BY <2>1, <2>3 DEF ReuseInv, ReuseFollowsLedger, RotationNotRefused, ReuseRevokes
  <1> QED
    BY <1>1, <1>2, <1>3, <1>4, <1>5, <1>6 DEF Next

\* "reused old refresh token is rejected and revokes the chain" (PROJECT_PLAN.md): a
\* caller who is told that a token it exchanged before is invalid finds the
\* session revoked, however its requests interleave and whatever crashes, as long
\* as no statement of the refusing request itself failed.
THEOREM ReuseDetected == Spec => []ReuseRevokes
  <1>1. Init => ReuseInv
    BY IdleFacts DEF Init, ReuseInv, ReuseFollowsLedger, RotationNotRefused, RefusedUnusable,
                     ReuseRevokes
  <1>2. SafeInv /\ ReuseInv /\ [Next]_vars => ReuseInv'
    BY ReuseSafe
  <1>3. ReuseInv => ReuseRevokes
    BY DEF ReuseInv
  <1> QED
    BY <1>1, <1>2, <1>3, Safety, PTL DEF Spec
=============================================================================

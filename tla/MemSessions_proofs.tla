------------------------- MODULE MemSessions_proofs -------------------------
(***************************************************************************)
(* Proofs about MemSessions for any sets of users, sessions, tokens and     *)
(* requests and any lifetime.                                               *)
(***************************************************************************)
EXTENDS MemSessions, TLAPS

\* A session's hash and a chain entry belong to tokens issued for that session,
\* and the current token is not in the chain.
MapsOwned ==
    /\ \A s \in Session : Exists(s) =>
           \E t \in Token : sessions[s].hash = sha256Hex(t) /\ family[t] = s
    /\ \A t \in Token : refreshChain[sha256Hex(t)] # NoSession =>
           /\ family[t] = refreshChain[sha256Hex(t)]
           /\ Exists(family[t]) /\ sessions[family[t]].hash # sha256Hex(t)
    /\ refreshChain[sha256Hex(Bogus)] = NoSession

\* One request is inside the rotation and holds the mutex; the session it found
\* stays unrevoked and indexed, and its token unrefused, until it leaves.
WriterOwnsMaps ==
    \A r \in Request :
        /\ writer = r <=> req[r].pc = "rotate"
        /\ req[r].pc = "rotate" =>
               /\ req[r].tok \in Token /\ req[r].tok \notin refused
               /\ req[r].sid \in Session
               /\ sessionsByRT[sha256Hex(req[r].tok)] = req[r].sid
               /\ ~sessions[req[r].sid].revoked

\* Between two critical sections a request holds a session that exists; in the
\* reuse branch it is the one the chain names for the token.
RequestShape ==
    \A r \in Request :
        /\ req[r].pc = "reuse" =>
               /\ req[r].tok \in Token
               /\ refreshChain[sha256Hex(req[r].tok)] # NoSession
        /\ req[r].pc = "find" => req[r].tok = NoToken
        /\ req[r].pc \in {"find", "revoke", "logout"} =>
               /\ req[r].sid \in Session /\ Exists(req[r].sid)
               /\ req[r].tok # NoToken =>
                      /\ req[r].tok \in Token
                      /\ refreshChain[sha256Hex(req[r].tok)] = req[r].sid

\* A refused token never becomes usable: it leads nowhere, or to a session that
\* is revoked or past its expiry.
RefusedUnusable ==
    \A t \in refused \cap Token :
        LET s == sessionsByRT[sha256Hex(t)] IN
            /\ family[t] # NoSession
            /\ s # NoSession => sessions[s].revoked \/ now > sessions[s].exp

SafeInv ==
    /\ TypeOK
    /\ MapsOwned
    /\ IndexAgrees
    /\ WriterOwnsMaps
    /\ RequestShape
    /\ RefusedUnusable
    /\ ReuseRevokes

-----------------------------------------------------------------------------
\* Distinct tokens have distinct digests, and every token has one.
LEMMA DigestFacts ==
    /\ \A t \in Token \cup {Bogus} : sha256Hex(t) \in Digest
    /\ \A t, u : sha256Hex(t) = sha256Hex(u) => t = u
    /\ \A h \in Digest : \E t \in Token \cup {Bogus} : h = sha256Hex(t)
  BY DEF Digest, sha256Hex

\* A row's fields, and the effect of setting RevokedAt or a new hash on it.
LEMMA RowFacts ==
    ASSUME NEW row \in Row
    PROVE  /\ row # NoRow
           /\ row.user \in User /\ row.hash \in Digest
           /\ row.exp \in Nat /\ row.revoked \in BOOLEAN
           /\ [row EXCEPT !.revoked = TRUE] \in Row
           /\ [row EXCEPT !.revoked = TRUE].revoked = TRUE
           /\ [row EXCEPT !.revoked = TRUE].hash = row.hash
           /\ [row EXCEPT !.revoked = TRUE].exp = row.exp
  BY SentinelAssumption DEF Row

\* The idle state of a request.
LEMMA IdleFacts ==
    Idle \in RequestState /\ Idle.pc = "idle" /\ Idle.tok = NoToken /\ Idle.sid = NoSession
  BY DEF Idle, RequestState

\* Sessions have distinct hashes, and a token leads to its own session only.
LEMMA OwnedFacts ==
    ASSUME SafeInv
    PROVE  /\ \A s \in Session : Exists(s) => sessions[s] \in Row
           /\ \A s, q \in Session :
                  Exists(s) /\ Exists(q) /\ sessions[s].hash = sessions[q].hash => s = q
           /\ \A s \in Session, t \in Token \cup {Bogus} :
                  Exists(s) /\ sessions[s].hash = sha256Hex(t) => t \in Token /\ family[t] = s
           /\ \A t \in Token \cup {Bogus} :
                  LET s == sessionsByRT[sha256Hex(t)] IN
                      s # NoSession =>
                          /\ s \in Session /\ Exists(s) /\ sessions[s].hash = sha256Hex(t)
                          /\ t \in Token /\ family[t] = s
                          /\ refreshChain[sha256Hex(t)] = NoSession
  <1>1. \A s \in Session : Exists(s) => sessions[s] \in Row
    BY DEF SafeInv, TypeOK, Exists
  <1>2. \A s \in Session, t \in Token \cup {Bogus} :
            Exists(s) /\ sessions[s].hash = sha256Hex(t) => t \in Token /\ family[t] = s
    BY DigestFacts DEF SafeInv, MapsOwned
  <1>3. \A s, q \in Session :
            Exists(s) /\ Exists(q) /\ sessions[s].hash = sessions[q].hash => s = q
    BY <1>2 DEF SafeInv, MapsOwned
  <1>4. ASSUME NEW t \in Token \cup {Bogus}, sessionsByRT[sha256Hex(t)] # NoSession
        PROVE  LET s == sessionsByRT[sha256Hex(t)] IN
                   /\ s \in Session /\ Exists(s) /\ sessions[s].hash = sha256Hex(t)
                   /\ t \in Token /\ family[t] = s
                   /\ refreshChain[sha256Hex(t)] = NoSession
    <2> DEFINE s == sessionsByRT[sha256Hex(t)]
    <2>1. s \in Session
      BY <1>4, DigestFacts DEF SafeInv, TypeOK
    <2>2. Exists(s) /\ sessions[s].hash = sha256Hex(t)
      BY <1>4, DigestFacts DEF SafeInv, IndexAgrees
    <2>3. t \in Token /\ family[t] = s
      BY <1>2, <2>1, <2>2
    <2>4. refreshChain[sha256Hex(t)] = NoSession
      BY <2>2, <2>3 DEF SafeInv, MapsOwned
    <2> QED
      BY <2>1, <2>2, <2>3, <2>4
  <1> QED
    BY <1>1, <1>2, <1>3, <1>4

\* The maps are empty at the start, so the invariant holds there.
LEMMA InitSafe == Init => SafeInv
  <1> SUFFICES ASSUME Init PROVE SafeInv
    OBVIOUS
  <1>0. /\ \A r \in Request : req[r].pc = "idle"
        /\ \A s \in Session : ~Exists(s)
        /\ \A t \in Token \cup {Bogus} : refreshChain[sha256Hex(t)] = NoSession
    BY IdleFacts, DigestFacts DEF Init, Exists
  <1>1. TypeOK
    BY TTLAssumption, IdleFacts DEF Init, TypeOK
  <1>2. MapsOwned
    BY <1>0 DEF MapsOwned
  <1>3. IndexAgrees
    BY <1>0 DEF Init, IndexAgrees, SessionByID
  <1>4. WriterOwnsMaps /\ RequestShape
    BY <1>0, SentinelAssumption DEF Init, WriterOwnsMaps, RequestShape
  <1>5. RefusedUnusable /\ ReuseRevokes
    BY DEF Init, RefusedUnusable, ReuseRevokes
  <1> QED
    BY <1>1, <1>2, <1>3, <1>4, <1>5 DEF SafeInv

\* A step of a request that does not touch the maps, outside the rotation.
LEMMA RequestStep ==
    ASSUME SafeInv, NEW r \in Request, NEW state \in RequestState,
           req' = [req EXCEPT ![r] = state],
           req[r].pc # "rotate", state.pc # "rotate",
           state.pc = "reuse" =>
               state.tok \in Token /\ refreshChain[sha256Hex(state.tok)] # NoSession,
           state.pc = "find" => state.tok = NoToken,
           state.pc \in {"find", "revoke", "logout"} =>
               /\ state.sid \in Session /\ Exists(state.sid)
               /\ state.tok # NoToken =>
                      /\ state.tok \in Token
                      /\ refreshChain[sha256Hex(state.tok)] = state.sid,
           UNCHANGED <<sessions, sessionsByRT, refreshChain, writer, now, up, family, refused>>
    PROVE  SafeInv'
  <1>1. \A q \in Request : req'[q] = IF q = r THEN state ELSE req[q]
    BY DEF SafeInv, TypeOK
  <1>2. TypeOK'
    BY DEF SafeInv, TypeOK
  <1>3. MapsOwned' /\ IndexAgrees'
    BY DEF SafeInv, MapsOwned, IndexAgrees, Exists, SessionByID
  <1>4. WriterOwnsMaps'
    BY <1>1 DEF SafeInv, WriterOwnsMaps
  <1>5. RequestShape'
    BY <1>1 DEF SafeInv, RequestShape, Exists
  <1>6. RefusedUnusable' /\ ReuseRevokes'
    BY DEF SafeInv, RefusedUnusable, ReuseRevokes
  <1> QED
    BY <1>2, <1>3, <1>4, <1>5, <1>6 DEF SafeInv

\* Under the mutex, existing sessions are revoked and some of them unindexed;
\* a token refused in the same step is one whose session is revoked by now.
LEMMA RevokeStep ==
    ASSUME SafeInv, NEW S \in SUBSET Session, writer = NoRequest,
           \A s \in S : Exists(s),
           SetRevoked(S),
           sessionsByRT' \in [Digest -> Session \cup {NoSession}],
           \A h \in Digest :
               \/ sessionsByRT'[h] = sessionsByRT[h]
               \/ sessionsByRT'[h] = NoSession /\ \E s \in S : sessions[s].hash = h,
           req' \in [Request -> RequestState],
           \A q \in Request : req'[q] = req[q] \/ req'[q] = Idle,
           refused' \in SUBSET (Token \cup {Bogus}),
           refused \subseteq refused',
           \A t \in refused' \cap Token : t \notin refused =>
               /\ refreshChain[sha256Hex(t)] \in Session
               /\ sessions'[refreshChain[sha256Hex(t)]].revoked,
           UNCHANGED <<refreshChain, writer, now, up, family>>
    PROVE  SafeInv'
  <1>1. \A s \in Session :
            /\ sessions'[s] # NoRow <=> Exists(s)
            /\ Exists(s) => /\ sessions'[s].hash = sessions[s].hash
                            /\ sessions'[s].exp = sessions[s].exp
                            /\ sessions[s].revoked => sessions'[s].revoked
            /\ s \in S => sessions'[s].revoked
            /\ s \notin S => sessions'[s] = sessions[s]
    BY OwnedFacts, RowFacts DEF SetRevoked, Exists
  <1>2. TypeOK'
    <2>1. sessions' \in [Session -> Row \cup {NoRow}]
      BY OwnedFacts, RowFacts DEF SetRevoked, SafeInv, TypeOK
    <2> QED
      BY <2>1 DEF SafeInv, TypeOK
  <1>3. MapsOwned'
    <2>1. \A s \in Session : sessions'[s] # NoRow =>
              \E t \in Token : sessions'[s].hash = sha256Hex(t) /\ family[t] = s
      <3> SUFFICES ASSUME NEW s \in Session, sessions'[s] # NoRow
                   PROVE  \E t \in Token :
                              sessions'[s].hash = sha256Hex(t) /\ family[t] = s
        OBVIOUS
      <3>1. Exists(s) /\ sessions'[s].hash = sessions[s].hash
        BY <1>1
      <3> QED
        BY <3>1 DEF SafeInv, MapsOwned
    <2>2. ASSUME NEW t \in Token, refreshChain[sha256Hex(t)] # NoSession
          PROVE  /\ family[t] = refreshChain[sha256Hex(t)]
                 /\ sessions'[family[t]] # NoRow /\ sessions'[family[t]].hash # sha256Hex(t)
      <3>1. /\ family[t] = refreshChain[sha256Hex(t)] /\ family[t] \in Session
            /\ Exists(family[t]) /\ sessions[family[t]].hash # sha256Hex(t)
        BY <2>2 DEF SafeInv, TypeOK, MapsOwned
      <3> QED
        BY <3>1, <1>1
    <2> QED
      BY <2>1, <2>2 DEF SafeInv, MapsOwned, Exists
  <1>4. IndexAgrees'
    <2>1. ASSUME NEW h \in Digest, sessionsByRT'[h] # NoSession
          PROVE  /\ sessions'[sessionsByRT'[h]] # NoRow
                 /\ sessions'[sessionsByRT'[h]].hash = h
      <3>1. sessionsByRT'[h] = sessionsByRT[h] /\ sessionsByRT[h] \in Session
        BY <2>1 DEF SafeInv, TypeOK
      <3>2. Exists(sessionsByRT[h]) /\ sessions[sessionsByRT[h]].hash = h
        BY <2>1, <3>1 DEF SafeInv, IndexAgrees
      <3> QED
        BY <3>1, <3>2, <1>1
    <2>2. ASSUME NEW s \in Session, sessions'[s] # NoRow, ~sessions'[s].revoked
          PROVE  sessionsByRT'[sessions'[s].hash] = s
      <3>1. s \notin S /\ sessions'[s] = sessions[s] /\ Exists(s) /\ sessions[s] \in Row
        BY <2>2, <1>1, OwnedFacts
      <3>2. sessionsByRT[sessions[s].hash] = s /\ sessions[s].hash \in Digest
        BY <2>2, <3>1, RowFacts DEF SafeInv, IndexAgrees, SessionByID
      <3>3. \A q \in S : sessions[q].hash # sessions[s].hash
        BY <3>1, OwnedFacts
      <3> QED
        BY <3>1, <3>2, <3>3
    <2> QED
      BY <2>1, <2>2 DEF IndexAgrees, SessionByID, Exists
  <1>5. WriterOwnsMaps'
    <2>1. \A q \in Request : req[q].pc # "rotate" /\ writer # q
      BY SentinelAssumption DEF SafeInv, WriterOwnsMaps
    <2> QED
      BY <2>1, IdleFacts DEF WriterOwnsMaps
  <1>6. RequestShape'
    <2>1. \A s \in Session : Exists(s) => sessions'[s] # NoRow
      BY <1>1
    <2> QED
      BY <2>1, IdleFacts DEF SafeInv, RequestShape, Exists
  <1>7. RefusedUnusable' /\ ReuseRevokes'
    <2> SUFFICES ASSUME NEW t \in refused' \cap Token
                 PROVE  /\ family[t] # NoSession
                        /\ sessionsByRT'[sha256Hex(t)] # NoSession =>
                               \/ sessions'[sessionsByRT'[sha256Hex(t)]].revoked
                               \/ now > sessions'[sessionsByRT'[sha256Hex(t)]].exp
                        /\ refreshChain[sha256Hex(t)] # NoSession =>
                               sessions'[refreshChain[sha256Hex(t)]].revoked
      BY DEF RefusedUnusable, ReuseRevokes
    <2> DEFINE h == sha256Hex(t)
    <2>0. h \in Digest
      BY DigestFacts
    <2>1. /\ sessionsByRT[h] # NoSession =>
                 sessionsByRT[h] \in Session /\ Exists(sessionsByRT[h])
          /\ sessionsByRT'[h] # NoSession => sessionsByRT'[h] = sessionsByRT[h]
          /\ refreshChain[h] # NoSession =>
                 /\ refreshChain[h] \in Session /\ Exists(refreshChain[h])
                 /\ sessionsByRT[h] = NoSession /\ family[t] = refreshChain[h]
      BY <2>0, OwnedFacts DEF SafeInv, TypeOK, MapsOwned
    <2>2. CASE t \in refused
      <3>1. /\ family[t] # NoSession
            /\ sessionsByRT[h] # NoSession =>
                   sessions[sessionsByRT[h]].revoked \/ now > sessions[sessionsByRT[h]].exp
            /\ refreshChain[h] # NoSession => sessions[refreshChain[h]].revoked
        BY <2>2 DEF SafeInv, RefusedUnusable, ReuseRevokes
      <3> HIDE DEF h
      <3> QED
        BY <3>1, <2>1, <1>1 DEF h
    <2>3. CASE t \notin refused
      BY <2>1, <2>3, SentinelAssumption
    <2> QED
      BY <2>2, <2>3
  <1> QED
    BY <1>2, <1>3, <1>4, <1>5, <1>6, <1>7 DEF SafeInv

\* RefreshRefuse: nothing but the answer.  Time has run out for the token, or
\* nothing leads from it to a session.
LEMMA RefuseStep ==
    ASSUME SafeInv, NEW r \in Request, NEW t \in Presentable, RefreshRefuse(r, t)
    PROVE  SafeInv'
  <1>1. /\ writer = NoRequest /\ refused' = refused \cup {t}
        /\ UNCHANGED <<sessions, sessionsByRT, refreshChain, writer, req, now, up, family>>
        /\ t \in Token \cup {Bogus}
        /\ t \in Token => family[t] # NoSession
    BY SentinelAssumption DEF RefreshRefuse, Locked, Presentable
  <1>2. /\ sessionsByRT[sha256Hex(t)] # NoSession =>
               \/ sessions[sessionsByRT[sha256Hex(t)]].revoked
               \/ now > sessions[sessionsByRT[sha256Hex(t)]].exp
        /\ refreshChain[sha256Hex(t)] = NoSession
    BY <1>1, OwnedFacts DEF RefreshRefuse
  <1>3. TypeOK'
    BY <1>1 DEF SafeInv, TypeOK
  <1>4. MapsOwned' /\ IndexAgrees' /\ RequestShape'
    BY <1>1 DEF SafeInv, MapsOwned, IndexAgrees, RequestShape, Exists, SessionByID
  <1>5. WriterOwnsMaps'
    <2>1. \A q \in Request : req[q].pc # "rotate" /\ writer # q
      BY <1>1, SentinelAssumption DEF SafeInv, WriterOwnsMaps
    <2> QED
      BY <1>1, <2>1 DEF WriterOwnsMaps
  <1>6. RefusedUnusable'
    BY <1>1, <1>2 DEF SafeInv, RefusedUnusable
  <1>7. ReuseRevokes'
    BY <1>1, <1>2 DEF SafeInv, ReuseRevokes
  <1> QED
    BY <1>3, <1>4, <1>5, <1>6, <1>7 DEF SafeInv

\* Time passes: what was expired stays expired.
LEMMA TickStep ==
    ASSUME SafeInv, Tick
    PROVE  SafeInv'
  <1>1. /\ now' = now + 1 /\ now < MaxTime /\ now \in Nat
        /\ UNCHANGED <<sessions, sessionsByRT, refreshChain, writer, req, up, family, refused>>
    BY TTLAssumption DEF Tick, SafeInv, TypeOK
  <1>2. TypeOK'
    BY <1>1, TTLAssumption DEF SafeInv, TypeOK
  <1>3. MapsOwned' /\ IndexAgrees' /\ RequestShape' /\ WriterOwnsMaps' /\ ReuseRevokes'
    BY <1>1 DEF SafeInv, MapsOwned, IndexAgrees, RequestShape, WriterOwnsMaps,
                ReuseRevokes, Exists, SessionByID
  <1>4. RefusedUnusable'
    <2> SUFFICES ASSUME NEW t \in refused \cap Token
                 PROVE  /\ family[t] # NoSession
                        /\ sessionsByRT[sha256Hex(t)] # NoSession =>
                               \/ sessions[sessionsByRT[sha256Hex(t)]].revoked
                               \/ now' > sessions[sessionsByRT[sha256Hex(t)]].exp
      BY <1>1 DEF RefusedUnusable
    <2>1. /\ family[t] # NoSession
          /\ sessionsByRT[sha256Hex(t)] # NoSession =>
                 /\ \/ sessions[sessionsByRT[sha256Hex(t)]].revoked
                    \/ now > sessions[sessionsByRT[sha256Hex(t)]].exp
                 /\ sessions[sessionsByRT[sha256Hex(t)]] \in Row
      BY OwnedFacts DEF SafeInv, RefusedUnusable
    <2>2. \A row \in Row : now > row.exp => now' > row.exp
      BY <1>1 DEF Row
    <2> QED
      BY <2>1, <2>2
  <1> QED
    BY <1>2, <1>3, <1>4 DEF SafeInv

\* A new session: its token is in no map yet.
LEMMA IssueStep ==
    ASSUME SafeInv, NEW r \in Request, NEW u \in User, NEW s \in Session,
           NEW t \in Token, issueSession(r, u, s, t)
    PROVE  SafeInv'
  <1> DEFINE row == [user |-> u, hash |-> sha256Hex(t), exp |-> now + SessionTTL,
                     revoked |-> FALSE]
  <1>1. row \in Row /\ row # NoRow /\ row.hash = sha256Hex(t) /\ row.revoked = FALSE
    <2>1. now + SessionTTL \in Nat
      BY TTLAssumption DEF SafeInv, TypeOK
    <2>2. row \in Row
      BY <2>1, DigestFacts DEF Row
    <2> QED
      BY <2>2, SentinelAssumption
  <1>2. /\ sessions' = [sessions EXCEPT ![s] = row]
        /\ sessionsByRT' = [sessionsByRT EXCEPT ![sha256Hex(t)] = s]
        /\ family' = [family EXCEPT ![t] = s]
        /\ writer = NoRequest /\ ~Exists(s) /\ family[t] = NoSession
        /\ UNCHANGED <<refreshChain, writer, req, now, up, refused>>
    BY DEF issueSession, Locked, Fresh
  <1> HIDE DEF row
  <1>3. /\ \A q \in Session : sessions'[q] = IF q = s THEN row ELSE sessions[q]
        /\ \A x \in Token : family'[x] = IF x = t THEN s ELSE family[x]
    BY <1>2 DEF SafeInv, TypeOK
  <1>4. /\ sha256Hex(t) \in Digest
        /\ \A h \in Digest : sessionsByRT'[h] = IF h = sha256Hex(t) THEN s
                                                ELSE sessionsByRT[h]
    BY <1>2, DigestFacts DEF SafeInv, TypeOK
  <1>5. refreshChain[sha256Hex(t)] = NoSession
    BY <1>2 DEF SafeInv, MapsOwned
  <1>6. TypeOK'
    BY <1>1, <1>2 DEF SafeInv, TypeOK
  <1>7. MapsOwned'
    <2>1. ASSUME NEW q \in Session, sessions'[q] # NoRow
          PROVE  \E x \in Token : sessions'[q].hash = sha256Hex(x) /\ family'[x] = q
      <3>1. CASE q = s
        BY <3>1, <1>1, <1>3
      <3>2. CASE q # s
        <4>1. PICK x \in Token : sessions[q].hash = sha256Hex(x) /\ family[x] = q
          BY <2>1, <3>2, <1>3 DEF SafeInv, MapsOwned, Exists
        <4> QED
          BY <4>1, <3>2, <1>2, <1>3, SentinelAssumption
      <3> QED
        BY <3>1, <3>2
    <2>2. ASSUME NEW x \in Token, refreshChain[sha256Hex(x)] # NoSession
          PROVE  /\ family'[x] = refreshChain[sha256Hex(x)]
                 /\ sessions'[family'[x]] # NoRow /\ sessions'[family'[x]].hash # sha256Hex(x)
      <3>1. /\ x # t /\ family[x] = refreshChain[sha256Hex(x)] /\ family[x] \in Session
            /\ Exists(family[x]) /\ sessions[family[x]].hash # sha256Hex(x)
        BY <2>2, <1>5 DEF SafeInv, TypeOK, MapsOwned
      <3> QED
        BY <3>1, <1>2, <1>3 DEF Exists
    <2> QED
      BY <2>1, <2>2, <1>2 DEF SafeInv, MapsOwned, Exists
  <1>8. IndexAgrees'
    <2>1. ASSUME NEW h \in Digest, sessionsByRT'[h] # NoSession
          PROVE  /\ sessions'[sessionsByRT'[h]] # NoRow
                 /\ sessions'[sessionsByRT'[h]].hash = h
      <3>1. CASE h = sha256Hex(t)
        BY <3>1, <1>1, <1>3, <1>4
      <3>2. CASE h # sha256Hex(t)
        <4>1. /\ sessionsByRT'[h] = sessionsByRT[h] /\ sessionsByRT[h] \in Session
              /\ Exists(sessionsByRT[h]) /\ sessions[sessionsByRT[h]].hash = h
          BY <2>1, <3>2, <1>4 DEF SafeInv, TypeOK, IndexAgrees
        <4> QED
          BY <4>1, <1>2, <1>3 DEF Exists
      <3> QED
        BY <3>1, <3>2
    <2>2. ASSUME NEW q \in Session, sessions'[q] # NoRow, ~sessions'[q].revoked
          PROVE  sessionsByRT'[sessions'[q].hash] = q
      <3>1. CASE q = s
        BY <3>1, <1>1, <1>3, <1>4
      <3>2. CASE q # s
        <4>1. /\ sessions'[q] = sessions[q] /\ sessions[q] \in Row
              /\ sessionsByRT[sessions[q].hash] = q
          BY <2>2, <3>2, <1>3, OwnedFacts DEF SafeInv, IndexAgrees, SessionByID, Exists
        <4>2. sessions[q].hash \in Digest
          BY <4>1, RowFacts
        <4>3. Exists(q)
          BY <2>2, <4>1 DEF Exists
        <4>4. sessions[q].hash # sha256Hex(t)
          BY <4>3, <1>2, OwnedFacts, SentinelAssumption
        <4> QED
          BY <4>1, <4>2, <4>4, <1>4
      <3> QED
        BY <3>1, <3>2
    <2> QED
      BY <2>1, <2>2 DEF IndexAgrees, SessionByID, Exists
  <1>9. WriterOwnsMaps'
    <2>1. \A q \in Request : req[q].pc # "rotate" /\ writer # q
      BY <1>2, SentinelAssumption DEF SafeInv, WriterOwnsMaps
    <2> QED
      BY <1>2, <2>1 DEF WriterOwnsMaps
  <1>10. RequestShape'
    BY <1>1, <1>2, <1>3 DEF SafeInv, RequestShape, Exists
  <1>11. RefusedUnusable' /\ ReuseRevokes'
    <2> SUFFICES ASSUME NEW x \in refused \cap Token
                 PROVE  /\ family'[x] # NoSession
                        /\ sessionsByRT'[sha256Hex(x)] # NoSession =>
                               \/ sessions'[sessionsByRT'[sha256Hex(x)]].revoked
                               \/ now > sessions'[sessionsByRT'[sha256Hex(x)]].exp
                        /\ refreshChain[sha256Hex(x)] # NoSession =>
                               sessions'[refreshChain[sha256Hex(x)]].revoked
      BY <1>2 DEF RefusedUnusable, ReuseRevokes
    <2>1. /\ x # t /\ family[x] # NoSession
          /\ sessionsByRT[sha256Hex(x)] # NoSession =>
                 \/ sessions[sessionsByRT[sha256Hex(x)]].revoked
                 \/ now > sessions[sessionsByRT[sha256Hex(x)]].exp
          /\ refreshChain[sha256Hex(x)] # NoSession =>
                 sessions[refreshChain[sha256Hex(x)]].revoked
      BY <1>2 DEF SafeInv, RefusedUnusable, ReuseRevokes
    <2>2. sessionsByRT'[sha256Hex(x)] = sessionsByRT[sha256Hex(x)]
      BY <2>1, <1>4, DigestFacts
    <2>3. /\ sessionsByRT[sha256Hex(x)] # NoSession =>
                 sessionsByRT[sha256Hex(x)] \in Session /\ sessionsByRT[sha256Hex(x)] # s
          /\ refreshChain[sha256Hex(x)] # NoSession =>
                 refreshChain[sha256Hex(x)] \in Session /\ refreshChain[sha256Hex(x)] # s
      BY <1>2, OwnedFacts, DigestFacts DEF SafeInv, TypeOK, MapsOwned
    <2> QED
      BY <2>1, <2>2, <2>3, <1>3
  <1> QED
    BY <1>6, <1>7, <1>8, <1>9, <1>10, <1>11 DEF SafeInv

\* Refresh enters the rotation: the token leads to a usable session, so it was
\* never refused, and nobody else holds the mutex.
LEMMA EnterStep ==
    ASSUME SafeInv, NEW r \in Request, NEW t \in Presentable, RefreshEnter(r, t)
    PROVE  SafeInv'
  <1>0. t \in Token \cup {Bogus}
    BY DEF Presentable
  <1>1. PICK s \in Session : s = sessionsByRT[sha256Hex(t)]
    BY <1>0, OwnedFacts DEF RefreshEnter
  <1> DEFINE state == [pc |-> "rotate", tok |-> t, sid |-> s]
  <1>2. /\ writer = NoRequest /\ writer' = r
        /\ ~sessions[s].revoked /\ ~(now > sessions[s].exp)
        /\ req' = [req EXCEPT ![r] = state]
        /\ UNCHANGED <<sessions, sessionsByRT, refreshChain, now, up, family, refused>>
    BY <1>1 DEF RefreshEnter, Locked, Start
  <1>3. t \in Token
    BY <1>0, <1>1, OwnedFacts, SentinelAssumption
  <1>4. t \notin refused
    BY <1>1, <1>2, <1>3, SentinelAssumption DEF SafeInv, RefusedUnusable
  <1>5. state \in RequestState /\ state.pc = "rotate" /\ state.tok = t /\ state.sid = s
    BY <1>3 DEF RequestState
  <1> HIDE DEF state
  <1>6. \A q \in Request : req'[q] = IF q = r THEN state ELSE req[q]
    BY <1>2 DEF SafeInv, TypeOK
  <1>7. TypeOK'
    BY <1>2, <1>5 DEF SafeInv, TypeOK
  <1>8. MapsOwned' /\ IndexAgrees'
    BY <1>2 DEF SafeInv, MapsOwned, IndexAgrees, Exists, SessionByID
  <1>9. WriterOwnsMaps'
    <2>1. \A q \in Request : req[q].pc # "rotate"
      BY <1>2, SentinelAssumption DEF SafeInv, WriterOwnsMaps
    <2> QED
      BY <1>1, <1>2, <1>3, <1>4, <1>5, <1>6, <2>1 DEF WriterOwnsMaps
  <1>10. RequestShape'
    BY <1>2, <1>5, <1>6 DEF SafeInv, RequestShape, Exists
  <1>11. RefusedUnusable' /\ ReuseRevokes'
    BY <1>2 DEF SafeInv, RefusedUnusable, ReuseRevokes
  <1> QED
    BY <1>7, <1>8, <1>9, <1>10, <1>11 DEF SafeInv

\* What RefreshLeave does to the maps, and where it starts from: request r
\* exchanges the old token of session s for the new one.
LeaveEffect(r, new, s, old) ==
    /\ s = req[r].sid /\ old = req[r].tok /\ old # new
    /\ old \notin refused /\ family[old] = s /\ family[new] = NoSession
    /\ Exists(s) /\ sessions[s].hash = sha256Hex(old) /\ ~sessions[s].revoked
    /\ refreshChain[sha256Hex(old)] = NoSession
    /\ refreshChain[sha256Hex(new)] = NoSession
    /\ sessions'[s] \in Row /\ sessions'[s].hash = sha256Hex(new)
    /\ sessions'[s].revoked = FALSE
    /\ \A q \in Session : q # s => sessions'[q] = sessions[q]
    /\ sessions' \in [Session -> Row \cup {NoRow}]
    /\ sessionsByRT' \in [Digest -> Session \cup {NoSession}]
    /\ refreshChain' \in [Digest -> Session \cup {NoSession}]
    /\ \A x \in Token \cup {Bogus} :
           /\ sessionsByRT'[sha256Hex(x)] = IF x = new THEN s ELSE
                  IF x = old THEN NoSession ELSE sessionsByRT[sha256Hex(x)]
           /\ refreshChain'[sha256Hex(x)] =
                  IF x = old THEN s ELSE refreshChain[sha256Hex(x)]
    /\ \A x \in Token : family'[x] = IF x = new THEN s ELSE family[x]
    /\ \A q \in Request : req'[q] = IF q = r THEN Idle ELSE req[q]
    /\ writer = r /\ writer' = NoRequest /\ UNCHANGED <<now, up, refused>>

\* RefreshLeave has that effect for the session and the token it holds.
LEMMA LeaveFacts ==
    ASSUME SafeInv, NEW r \in Request, NEW new \in Token, RefreshLeave(r, new)
    PROVE  \E s \in Session, old \in Token : LeaveEffect(r, new, s, old)
  <1>0. req[r].pc = "rotate" /\ family[new] = NoSession
    BY DEF RefreshLeave, Fresh
  <1>1. PICK s \in Session, old \in Token : s = req[r].sid /\ old = req[r].tok
    BY <1>0 DEF SafeInv, WriterOwnsMaps
  <1>2. /\ old \notin refused /\ writer = r /\ ~sessions[s].revoked
        /\ sessionsByRT[sha256Hex(old)] = s
    BY <1>0, <1>1 DEF SafeInv, WriterOwnsMaps
  <1>3. /\ Exists(s) /\ sessions[s].hash = sha256Hex(old) /\ family[old] = s
        /\ refreshChain[sha256Hex(old)] = NoSession /\ sessions[s] \in Row
    BY <1>2, OwnedFacts, SentinelAssumption
  <1>4. old # new /\ refreshChain[sha256Hex(new)] = NoSession
    BY <1>0, <1>3, SentinelAssumption DEF SafeInv, MapsOwned
  <1> DEFINE row == [sessions[s] EXCEPT !.hash = sha256Hex(new)]
  <1>5. row \in Row /\ row.hash = sha256Hex(new) /\ row.revoked = sessions[s].revoked
    BY <1>3, DigestFacts DEF Row
  <1>6. /\ sessions' = [sessions EXCEPT ![s] = row]
        /\ sessionsByRT' = [sessionsByRT EXCEPT ![sha256Hex(old)] = NoSession,
                                                ![sha256Hex(new)] = s]
        /\ refreshChain' = [refreshChain EXCEPT ![sha256Hex(old)] = s]
        /\ family' = [family EXCEPT ![new] = s]
        /\ req' = [req EXCEPT ![r] = Idle]
        /\ writer' = NoRequest /\ UNCHANGED <<now, up, refused>>
    BY <1>1 DEF RefreshLeave, Done, SafeInv, TypeOK
  <1> HIDE DEF row
  <1>7. /\ sessions'[s] = row
        /\ \A q \in Session : q # s => sessions'[q] = sessions[q]
        /\ sessions' \in [Session -> Row \cup {NoRow}]
    BY <1>5, <1>6 DEF SafeInv, TypeOK
  <1>8. row.revoked = FALSE
    BY <1>2, <1>5, RowFacts
  <1>9. /\ sessionsByRT' \in [Digest -> Session \cup {NoSession}]
        /\ refreshChain' \in [Digest -> Session \cup {NoSession}]
        /\ \A x \in Token \cup {Bogus} :
               sessionsByRT'[sha256Hex(x)] = IF x = new THEN s ELSE
                   IF x = old THEN NoSession ELSE sessionsByRT[sha256Hex(x)]
    BY <1>6, DigestFacts DEF SafeInv, TypeOK
  <1>10. \A x \in Token \cup {Bogus} :
              refreshChain'[sha256Hex(x)] = IF x = old THEN s ELSE refreshChain[sha256Hex(x)]
    BY <1>6, DigestFacts DEF SafeInv, TypeOK
  <1>11. /\ \A x \in Token : family'[x] = IF x = new THEN s ELSE family[x]
         /\ \A q \in Request : req'[q] = IF q = r THEN Idle ELSE req[q]
    BY <1>6 DEF SafeInv, TypeOK
  <1>12. /\ sessions'[s] \in Row /\ sessions'[s].hash = sha256Hex(new)
         /\ sessions'[s].revoked = FALSE
    BY <1>5, <1>7, <1>8
  <1>13. LeaveEffect(r, new, s, old)
    BY <1>0, <1>1, <1>2, <1>3, <1>4, <1>6, <1>7, <1>9, <1>10, <1>11, <1>12
       DEF LeaveEffect
  <1> QED
    BY <1>13

\* RefreshLeave: the old token moves to the chain in the same step as the new
\* one becomes current and indexed.
LEMMA LeaveStep ==
    ASSUME SafeInv, NEW r \in Request, NEW new \in Token, RefreshLeave(r, new)
    PROVE  SafeInv'
  <1>0. PICK s \in Session, old \in Token : LeaveEffect(r, new, s, old)
    BY LeaveFacts
  <1>1. /\ s = req[r].sid /\ old = req[r].tok /\ old # new
        /\ old \notin refused /\ family[old] = s /\ family[new] = NoSession
        /\ Exists(s) /\ sessions[s].hash = sha256Hex(old) /\ ~sessions[s].revoked
        /\ refreshChain[sha256Hex(old)] = NoSession
        /\ refreshChain[sha256Hex(new)] = NoSession
        /\ sessions'[s] \in Row /\ sessions'[s].hash = sha256Hex(new)
        /\ sessions'[s].revoked = FALSE
        /\ \A q \in Session : q # s => sessions'[q] = sessions[q]
        /\ sessions' \in [Session -> Row \cup {NoRow}]
        /\ sessionsByRT' \in [Digest -> Session \cup {NoSession}]
        /\ refreshChain' \in [Digest -> Session \cup {NoSession}]
        /\ \A x \in Token \cup {Bogus} :
               /\ sessionsByRT'[sha256Hex(x)] = IF x = new THEN s ELSE
                      IF x = old THEN NoSession ELSE sessionsByRT[sha256Hex(x)]
               /\ refreshChain'[sha256Hex(x)] =
                      IF x = old THEN s ELSE refreshChain[sha256Hex(x)]
        /\ \A x \in Token : family'[x] = IF x = new THEN s ELSE family[x]
        /\ \A q \in Request : req'[q] = IF q = r THEN Idle ELSE req[q]
        /\ writer = r /\ writer' = NoRequest /\ UNCHANGED <<now, up, refused>>
    BY <1>0 DEF LeaveEffect
  <1>2. \A q \in Session : sessions'[q] # NoRow <=> Exists(q)
    BY <1>1, RowFacts DEF Exists
  <1>3. TypeOK'
    <2>1. family' \in [Token -> Session \cup {NoSession}]
      BY <1>1 DEF RefreshLeave, SafeInv, TypeOK
    <2>2. req' \in [Request -> RequestState]
      BY IdleFacts DEF RefreshLeave, Done, SafeInv, TypeOK
    <2> QED
      BY <1>1, <2>1, <2>2 DEF SafeInv, TypeOK
  <1>4. MapsOwned'
    <2>1. ASSUME NEW q \in Session, sessions'[q] # NoRow
          PROVE  \E x \in Token : sessions'[q].hash = sha256Hex(x) /\ family'[x] = q
      <3>1. CASE q = s
        BY <3>1, <1>1
      <3>2. CASE q # s
        <4>1. PICK x \in Token : sessions[q].hash = sha256Hex(x) /\ family[x] = q
          BY <2>1, <1>2 DEF SafeInv, MapsOwned
        <4>2. x # new
          BY <4>1, <1>1, SentinelAssumption
        <4> QED
          BY <4>1, <4>2, <3>2, <1>1
      <3> QED
        BY <3>1, <3>2
    <2>2. ASSUME NEW x \in Token, refreshChain'[sha256Hex(x)] # NoSession
          PROVE  /\ family'[x] = refreshChain'[sha256Hex(x)]
                 /\ sessions'[family'[x]] # NoRow /\ sessions'[family'[x]].hash # sha256Hex(x)
      <3>1. CASE x = old
        BY <3>1, <1>1, <1>2, DigestFacts
      <3>2. CASE x # old
        <4>1. /\ refreshChain'[sha256Hex(x)] = refreshChain[sha256Hex(x)]
              /\ family[x] = refreshChain[sha256Hex(x)] /\ family[x] \in Session
              /\ Exists(family[x]) /\ sessions[family[x]].hash # sha256Hex(x)
          BY <2>2, <3>2, <1>1 DEF SafeInv, TypeOK, MapsOwned
        <4>2. x # new /\ family'[x] = family[x]
          BY <2>2, <4>1, <1>1
        <4>3. sessions'[family[x]].hash # sha256Hex(x)
          BY <4>1, <4>2, <1>1, DigestFacts
        <4> QED
          BY <4>1, <4>2, <4>3, <1>2
      <3> QED
        BY <3>1, <3>2
    <2>3. refreshChain'[sha256Hex(Bogus)] = NoSession
      BY <1>1, SentinelAssumption DEF SafeInv, MapsOwned
    <2> QED
      BY <2>1, <2>2, <2>3 DEF MapsOwned, Exists
  <1>5. IndexAgrees'
    <2>1. ASSUME NEW h \in Digest, sessionsByRT'[h] # NoSession
          PROVE  /\ sessions'[sessionsByRT'[h]] # NoRow
                 /\ sessions'[sessionsByRT'[h]].hash = h
      <3>1. PICK x \in Token \cup {Bogus} : h = sha256Hex(x)
        BY DigestFacts
      <3>2. CASE x = new
        BY <3>1, <3>2, <1>1, <1>2
      <3>3. CASE x # new
        <4>1. x # old /\ sessionsByRT'[h] = sessionsByRT[h]
          BY <2>1, <3>1, <3>3, <1>1
        <4>2. /\ sessionsByRT[h] \in Session /\ Exists(sessionsByRT[h])
              /\ sessions[sessionsByRT[h]].hash = h
          BY <2>1, <3>1, <4>1, OwnedFacts
        <4>3. sessionsByRT[h] # s
          BY <3>1, <4>1, <4>2, <1>1, DigestFacts
        <4> QED
          BY <4>1, <4>2, <4>3, <1>1, <1>2
      <3> QED
        BY <3>2, <3>3
    <2>2. ASSUME NEW q \in Session, sessions'[q] # NoRow, ~sessions'[q].revoked
          PROVE  sessionsByRT'[sessions'[q].hash] = q
      <3>1. CASE q = s
        BY <3>1, <1>1
      <3>2. CASE q # s
        <4>1. sessions'[q] = sessions[q] /\ Exists(q) /\ sessionsByRT[sessions[q].hash] = q
          BY <2>2, <3>2, <1>1, <1>2 DEF SafeInv, IndexAgrees, SessionByID
        <4>2. PICK x \in Token : sessions[q].hash = sha256Hex(x) /\ family[x] = q
          BY <4>1 DEF SafeInv, MapsOwned
        <4>3. x # new /\ x # old
          BY <4>2, <3>2, <1>1, SentinelAssumption
        <4> QED
          BY <4>1, <4>2, <4>3, <1>1
      <3> QED
        BY <3>1, <3>2
    <2> QED
      BY <2>1, <2>2 DEF IndexAgrees, SessionByID, Exists
  <1>6. WriterOwnsMaps'
    <2>1. \A q \in Request : q # r => req[q].pc # "rotate"
      BY <1>1 DEF SafeInv, WriterOwnsMaps
    <2>2. \A q \in Request : req'[q].pc # "rotate" /\ writer' # q
      BY <2>1, <1>1, IdleFacts, SentinelAssumption
    <2> QED
      BY <2>2 DEF WriterOwnsMaps
  <1>7. RequestShape'
    <2> SUFFICES ASSUME NEW q \in Request, q # r
                 PROVE  /\ req[q].pc = "reuse" =>
                               /\ req[q].tok \in Token
                               /\ refreshChain'[sha256Hex(req[q].tok)] # NoSession
                        /\ req[q].pc = "find" => req[q].tok = NoToken
                        /\ req[q].pc \in {"find", "revoke", "logout"} =>
                               /\ req[q].sid \in Session /\ sessions'[req[q].sid] # NoRow
                               /\ req[q].tok # NoToken =>
                                      /\ req[q].tok \in Token
                                      /\ refreshChain'[sha256Hex(req[q].tok)] = req[q].sid
      BY <1>1, IdleFacts DEF RequestShape, Exists
    <2>1. \A x \in Token : refreshChain[sha256Hex(x)] # NoSession =>
              refreshChain'[sha256Hex(x)] = refreshChain[sha256Hex(x)]
      BY <1>1
    <2> QED
      BY <2>1, <1>2, SentinelAssumption DEF SafeInv, RequestShape
  <1>8. RefusedUnusable' /\ ReuseRevokes'
    <2> SUFFICES ASSUME NEW x \in refused \cap Token
                 PROVE  /\ family'[x] # NoSession
                        /\ sessionsByRT'[sha256Hex(x)] # NoSession =>
                               \/ sessions'[sessionsByRT'[sha256Hex(x)]].revoked
                               \/ now > sessions'[sessionsByRT'[sha256Hex(x)]].exp
                        /\ refreshChain'[sha256Hex(x)] # NoSession =>
                               sessions'[refreshChain'[sha256Hex(x)]].revoked
      BY <1>1 DEF RefusedUnusable, ReuseRevokes
    <2>1. /\ family[x] # NoSession
          /\ sessionsByRT[sha256Hex(x)] # NoSession =>
                 \/ sessions[sessionsByRT[sha256Hex(x)]].revoked
                 \/ now > sessions[sessionsByRT[sha256Hex(x)]].exp
          /\ refreshChain[sha256Hex(x)] # NoSession =>
                 sessions[refreshChain[sha256Hex(x)]].revoked
      BY DEF SafeInv, RefusedUnusable, ReuseRevokes
    <2>2. /\ x # new /\ x # old /\ family'[x] = family[x]
          /\ sessionsByRT'[sha256Hex(x)] = sessionsByRT[sha256Hex(x)]
          /\ refreshChain'[sha256Hex(x)] = refreshChain[sha256Hex(x)]
      BY <2>1, <1>1
    <2>3. /\ sessionsByRT[sha256Hex(x)] # NoSession =>
                 sessionsByRT[sha256Hex(x)] \in Session /\ sessionsByRT[sha256Hex(x)] # s
          /\ refreshChain[sha256Hex(x)] # NoSession =>
                 refreshChain[sha256Hex(x)] \in Session /\ refreshChain[sha256Hex(x)] # s
      <3>1. sessionsByRT[sha256Hex(x)] # NoSession =>
                 sessionsByRT[sha256Hex(x)] \in Session /\ sessionsByRT[sha256Hex(x)] # s
        BY <2>2, <1>1, OwnedFacts, DigestFacts
      <3>2. refreshChain[sha256Hex(x)] # NoSession =>
                 refreshChain[sha256Hex(x)] \in Session /\ refreshChain[sha256Hex(x)] # s
        BY <2>1, <1>1, DigestFacts DEF SafeInv, TypeOK
      <3> QED
        BY <3>1, <3>2
    <2> QED
      BY <2>1, <2>2, <2>3, <1>1
  <1> QED
    BY <1>3, <1>4, <1>5, <1>6, <1>7, <1>8 DEF SafeInv

\* The critical sections that revoke: RevokeSession, Logout,
\* RevokeAllSessionsForUser and SoftDeleteUser.
LEMMA RevokingSteps ==
    ASSUME SafeInv, NEW r \in Request, NEW u \in User,
           \/ RevokeSession(r) \/ Logout(r)
           \/ RevokeAllSessionsForUser(r, u) \/ SoftDeleteUser(r, u)
    PROVE  /\ SafeInv'
           /\ UNCHANGED refreshChain
           /\ \E S \in SUBSET Session : (\A s \in S : Exists(s)) /\ SetRevoked(S)
  <1>0. writer = NoRequest /\ UNCHANGED <<refreshChain, writer, now, up, family>>
    BY DEF RevokeSession, Logout, RevokeAllSessionsForUser, SoftDeleteUser, Locked
  <1>1. ASSUME NEW S \in SUBSET Session, \A s \in S : Exists(s), SetRevoked(S),
               Unindex(S) \/ UNCHANGED sessionsByRT
        PROVE  /\ sessionsByRT' \in [Digest -> Session \cup {NoSession}]
               /\ \A h \in Digest :
                      \/ sessionsByRT'[h] = sessionsByRT[h]
                      \/ sessionsByRT'[h] = NoSession /\ \E s \in S : sessions[s].hash = h
    BY <1>1 DEF Unindex, SafeInv, TypeOK
  <1>2. UNCHANGED sessions => SetRevoked({})
    BY DEF SetRevoked, SafeInv, TypeOK
  <1>3. CASE RevokeSession(r) \/ Logout(r)
    <2> DEFINE sid == req[r].sid
    <2>1. /\ sid \in Session /\ Exists(sid)
          /\ req[r].tok # NoToken =>
                 req[r].tok \in Token /\ refreshChain[sha256Hex(req[r].tok)] = sid
      BY <1>3 DEF RevokeSession, Logout, SafeInv, RequestShape
    <2>2. PICK S \in SUBSET Session :
              /\ S = IF sessions[sid].revoked THEN {} ELSE {sid}
              /\ SetRevoked(S) /\ (Unindex(S) \/ UNCHANGED sessionsByRT)
      BY <1>2, <1>3, <2>1 DEF RevokeSession, Logout
    <2>3. \A s \in S : Exists(s)
      BY <2>1, <2>2
    <2>4. sessions'[sid].revoked
      <3>1. CASE sessions[sid].revoked
        BY <2>1, <2>2, <3>1 DEF SetRevoked
      <3>2. CASE ~sessions[sid].revoked
        <4>1. S = {sid} /\ sessions[sid] \in Row
          BY <2>1, <2>2, <3>2, OwnedFacts
        <4>2. sessions'[sid] = [sessions[sid] EXCEPT !.revoked = TRUE]
          BY <4>1, <2>1, <2>2 DEF SetRevoked
        <4> QED
          BY <4>1, <4>2, RowFacts
      <3> QED
        BY <3>1, <3>2
    <2>5. /\ refused' \in SUBSET (Token \cup {Bogus}) /\ refused \subseteq refused'
          /\ \A t \in refused' \cap Token : t \notin refused =>
                 /\ refreshChain[sha256Hex(t)] \in Session
                 /\ sessions'[refreshChain[sha256Hex(t)]].revoked
      BY <1>3, <2>1, <2>4 DEF RevokeSession, Logout, SafeInv, TypeOK
    <2>6. req' \in [Request -> RequestState] /\ \A q \in Request : req'[q] = req[q] \/ req'[q] = Idle
      BY <1>3, IdleFacts DEF RevokeSession, Logout, Done, SafeInv, TypeOK
    <2>7. SafeInv'
      BY <1>0, <1>1, <2>2, <2>3, <2>5, <2>6, RevokeStep
    <2> QED
      BY <1>0, <2>2, <2>3, <2>7
  <1>4. CASE RevokeAllSessionsForUser(r, u) \/ SoftDeleteUser(r, u)
    <2>1. PICK S \in SUBSET Session : S = SessionsOf(u)
      BY DEF SessionsOf
    <2>2. /\ SetRevoked(S) /\ (Unindex(S) \/ UNCHANGED sessionsByRT)
          /\ UNCHANGED <<req, refused>>
      BY <1>4, <2>1 DEF RevokeAllSessionsForUser, SoftDeleteUser
    <2>3. \A s \in S : Exists(s)
      BY <2>1 DEF SessionsOf, SessionByID
    <2>4. /\ refused' \in SUBSET (Token \cup {Bogus}) /\ req' \in [Request -> RequestState]
      BY <2>2 DEF SafeInv, TypeOK
    <2>5. SafeInv'
      BY <1>0, <1>1, <2>2, <2>3, <2>4, RevokeStep
    <2> QED
      BY <1>0, <2>2, <2>3, <2>5
  <1> QED
    BY <1>3, <1>4

-----------------------------------------------------------------------------
\* The critical sections that only start or continue a request.
LEMMA ControlSteps ==
    ASSUME SafeInv, NEW r \in Request,
           \/ \E t \in Presentable : RefreshReuse(r, t)
           \/ \E own, s \in Session : RevokeBegin(r, own, s)
           \/ \E s \in Session : LogoutBegin(r, s)
           \/ ReadChain(r)
           \/ RevokeFind(r)
    PROVE  SafeInv' /\ UNCHANGED <<sessions, refreshChain>>
  <1>1. ASSUME NEW t \in Presentable, RefreshReuse(r, t)
        PROVE  SafeInv' /\ UNCHANGED <<sessions, refreshChain>>
    <2> DEFINE state == [Idle EXCEPT !.pc = "reuse", !.tok = t]
    <2>1. t \in Token
      BY <1>1 DEF RefreshReuse, Presentable, SafeInv, MapsOwned
    <2>2. state \in RequestState /\ state.pc = "reuse" /\ state.tok = t
      BY <2>1 DEF Idle, RequestState
    <2> HIDE DEF state
    <2>3. /\ req[r] = Idle /\ req' = [req EXCEPT ![r] = state]
          /\ refreshChain[sha256Hex(t)] # NoSession
          /\ UNCHANGED <<sessions, sessionsByRT, refreshChain, writer, now, up, family,
                         refused>>
      BY <1>1 DEF RefreshReuse, Start, state
    <2>4. req[r].pc # "rotate"
      BY <2>3, IdleFacts
    <2> QED
      BY <2>1, <2>2, <2>3, <2>4, RequestStep
  <1>2. ASSUME NEW s \in Session, NEW own \in Session,
               RevokeBegin(r, own, s) \/ LogoutBegin(r, s)
        PROVE  SafeInv' /\ UNCHANGED <<sessions, refreshChain>>
    <2>1. PICK state \in RequestState :
              /\ state.pc \in {"find", "logout"} /\ state.tok = NoToken /\ state.sid = s
              /\ req[r] = Idle /\ req' = [req EXCEPT ![r] = state]
      <3>1. /\ [Idle EXCEPT !.pc = "find", !.sid = s] \in RequestState
            /\ [Idle EXCEPT !.pc = "find", !.sid = s].pc = "find"
            /\ [Idle EXCEPT !.pc = "find", !.sid = s].tok = NoToken
            /\ [Idle EXCEPT !.pc = "find", !.sid = s].sid = s
        BY DEF Idle, RequestState
      <3>2. /\ [Idle EXCEPT !.pc = "logout", !.sid = s] \in RequestState
            /\ [Idle EXCEPT !.pc = "logout", !.sid = s].pc = "logout"
            /\ [Idle EXCEPT !.pc = "logout", !.sid = s].tok = NoToken
            /\ [Idle EXCEPT !.pc = "logout", !.sid = s].sid = s
        BY DEF Idle, RequestState
      <3>3. CASE RevokeBegin(r, own, s)
        <4>1. /\ req[r] = Idle
              /\ req' = [req EXCEPT ![r] = [Idle EXCEPT !.pc = "find", !.sid = s]]
          BY <3>3 DEF RevokeBegin, Start
        <4> QED
          BY <3>1, <4>1
      <3>4. CASE LogoutBegin(r, s)
        <4>1. /\ req[r] = Idle
              /\ req' = [req EXCEPT ![r] = [Idle EXCEPT !.pc = "logout", !.sid = s]]
          BY <3>4 DEF LogoutBegin, Start
        <4> QED
          BY <3>2, <4>1
      <3> QED
        BY <1>2, <3>3, <3>4
    <2>2. /\ Exists(s) /\ req[r].pc # "rotate"
          /\ UNCHANGED <<sessions, sessionsByRT, refreshChain, writer, now, up, family,
                         refused>>
      BY <1>2, <2>1, IdleFacts DEF RevokeBegin, LogoutBegin, SessionByID
    <2> QED
      BY <2>1, <2>2, RequestStep
  <1>3. CASE ReadChain(r)
    <2> DEFINE s0 == [[req[r] EXCEPT !.pc = "revoke"]
                          EXCEPT !.sid = refreshChain[sha256Hex(req[r].tok)]]
    <2>1. /\ req[r] \in RequestState /\ req[r].pc = "reuse" /\ req[r].tok \in Token
          /\ refreshChain[sha256Hex(req[r].tok)] \in Session
          /\ Exists(refreshChain[sha256Hex(req[r].tok)])
      BY <1>3, DigestFacts DEF ReadChain, SafeInv, TypeOK, RequestShape, MapsOwned
    <2>2. /\ s0 \in RequestState /\ s0.pc = "revoke" /\ s0.tok = req[r].tok
          /\ s0.sid = refreshChain[sha256Hex(req[r].tok)]
      BY <2>1 DEF RequestState
    <2>3. /\ req' = [req EXCEPT ![r] = s0]
          /\ UNCHANGED <<sessions, sessionsByRT, refreshChain, writer, now, up, family,
                         refused>>
      BY <1>3 DEF ReadChain, SafeInv, TypeOK
    <2> HIDE DEF s0
    <2>4. PICK state \in RequestState :
              /\ state.pc = "revoke" /\ state.sid \in Session /\ Exists(state.sid)
              /\ state.tok \in Token
              /\ refreshChain[sha256Hex(state.tok)] = state.sid
              /\ req' = [req EXCEPT ![r] = state]
      BY <2>1, <2>2, <2>3
    <2> QED
      BY <2>1, <2>3, <2>4, RequestStep
  <1>4. CASE RevokeFind(r)
    <2> DEFINE s0 == [req[r] EXCEPT !.pc = "revoke"]
    <2>1. /\ req[r] \in RequestState /\ req[r].pc = "find" /\ req[r].tok = NoToken
          /\ req[r].sid \in Session /\ Exists(req[r].sid)
          /\ UNCHANGED <<sessions, sessionsByRT, refreshChain, writer, now, up, family,
                         refused>>
      BY <1>4 DEF RevokeFind, SafeInv, TypeOK, RequestShape
    <2>2. CASE Done(r)
      <3>1. req' = [req EXCEPT ![r] = Idle]
        BY <2>2 DEF Done
      <3> QED
        BY <2>1, <3>1, IdleFacts, RequestStep
    <2>3. CASE req' = [req EXCEPT ![r].pc = "revoke"]
      <3>1. s0 \in RequestState /\ s0.pc = "revoke" /\ s0.tok = NoToken /\ s0.sid = req[r].sid
        BY <2>1 DEF RequestState
      <3>2. req' = [req EXCEPT ![r] = s0]
        BY <2>3 DEF SafeInv, TypeOK
      <3> HIDE DEF s0
      <3>3. PICK state \in RequestState :
                /\ state.pc = "revoke" /\ state.tok = NoToken
                /\ state.sid \in Session /\ Exists(state.sid)
                /\ req' = [req EXCEPT ![r] = state]
        BY <2>1, <3>1, <3>2
      <3> QED
        BY <2>1, <3>3, RequestStep
    <2> QED
      BY <1>4, <2>2, <2>3 DEF RevokeFind
  <1> QED
    BY <1>1, <1>2, <1>3, <1>4

\* What a step does to the maps: it opens a session, rotates one, revokes some
\* existing ones, or leaves sessions and chain as they are.  It keeps the invariant.
LEMMA MapSteps ==
    ASSUME SafeInv, [Next]_vars
    PROVE  /\ SafeInv'
           /\ \/ UNCHANGED <<sessions, refreshChain>>
              \/ \E r \in Request, u \in User, s \in Session, t \in Token :
                     issueSession(r, u, s, t)
              \/ \E r \in Request, new \in Token : RefreshLeave(r, new)
              \/ \E S \in SUBSET Session :
                     (\A s \in S : Exists(s)) /\ SetRevoked(S) /\ UNCHANGED refreshChain
  <1>1. CASE UNCHANGED vars
    <2>1. UNCHANGED <<sessions, sessionsByRT, refreshChain, writer, req, now, up, family,
                      refused>>
      BY <1>1 DEF vars
    <2>2. SafeInv'
      BY <2>1 DEF SafeInv, TypeOK, MapsOwned, IndexAgrees, WriterOwnsMaps, RequestShape,
                  RefusedUnusable, ReuseRevokes, Exists, SessionByID
    <2> QED
      BY <2>1, <2>2
  <1>2. CASE Tick
    <2>1. UNCHANGED <<sessions, refreshChain>>
      BY <1>2 DEF Tick
    <2> QED
      BY <1>2, <2>1, TickStep
  <1>3. ASSUME NEW r \in Request, ReadChainAborts(r)
        PROVE  SafeInv' /\ UNCHANGED <<sessions, refreshChain>>
    <2>1. /\ up' = FALSE
          /\ UNCHANGED <<sessions, sessionsByRT, refreshChain, writer, req, now, family,
                         refused>>
      BY <1>3 DEF ReadChainAborts
    <2>2. TypeOK'
      BY <2>1 DEF SafeInv, TypeOK
    <2> QED
      BY <2>1, <2>2 DEF SafeInv, MapsOwned, IndexAgrees, WriterOwnsMaps, RequestShape,
                        RefusedUnusable, ReuseRevokes, Exists, SessionByID
  <1>4. ASSUME NEW r \in Request, NEW t \in Presentable,
               RefreshEnter(r, t) \/ RefreshRefuse(r, t)
        PROVE  SafeInv' /\ UNCHANGED <<sessions, refreshChain>>
    <2>1. UNCHANGED <<sessions, refreshChain>>
      BY <1>4 DEF RefreshEnter, RefreshRefuse
    <2> QED
      BY <1>4, <2>1, EnterStep, RefuseStep
  <1>5. ASSUME NEW r \in Request, RevokeSession(r) \/ Logout(r)
        PROVE  /\ SafeInv'
               /\ \E S \in SUBSET Session :
                      (\A s \in S : Exists(s)) /\ SetRevoked(S) /\ UNCHANGED refreshChain
    <2>1. req[r].sid \in Session /\ Exists(req[r].sid)
      BY <1>5 DEF RevokeSession, Logout, SafeInv, RequestShape
    <2>2. sessions[req[r].sid].user \in User
      BY <2>1, OwnedFacts, RowFacts
    <2>3. PICK u \in User : TRUE
      BY <2>2
    <2> QED
      BY <1>5, <2>3, RevokingSteps
  <1>6. ASSUME NEW r \in Request, NEW u \in User,
               RevokeAllSessionsForUser(r, u) \/ SoftDeleteUser(r, u)
        PROVE  /\ SafeInv'
               /\ \E S \in SUBSET Session :
                      (\A s \in S : Exists(s)) /\ SetRevoked(S) /\ UNCHANGED refreshChain
    BY <1>6, RevokingSteps
  <1>7. ASSUME NEW r \in Request, NEW u \in User, NEW s \in Session, NEW t \in Token,
               issueSession(r, u, s, t)
        PROVE  SafeInv'
    BY <1>7, IssueStep
  <1>8. ASSUME NEW r \in Request, NEW new \in Token, RefreshLeave(r, new)
        PROVE  SafeInv'
    BY <1>8, LeaveStep
  <1>9. ASSUME NEW r \in Request, Arrive(r)
        PROVE  /\ SafeInv'
               /\ \/ UNCHANGED <<sessions, refreshChain>>
                  \/ \E u \in User, s \in Session, t \in Token : issueSession(r, u, s, t)
                  \/ \E S \in SUBSET Session :
                         (\A s \in S : Exists(s)) /\ SetRevoked(S) /\ UNCHANGED refreshChain
    BY <1>9, <1>4, <1>6, <1>7, ControlSteps DEF Arrive
  <1>10. ASSUME NEW r \in Request, Proceed(r)
         PROVE  /\ SafeInv'
                /\ \/ UNCHANGED <<sessions, refreshChain>>
                   \/ \E new \in Token : RefreshLeave(r, new)
                   \/ \E S \in SUBSET Session :
                          (\A s \in S : Exists(s)) /\ SetRevoked(S) /\ UNCHANGED refreshChain
    BY <1>10, <1>5, <1>8, ControlSteps DEF Proceed
  <1> QED
    BY <1>1, <1>2, <1>3, <1>9, <1>10 DEF Next

\* Any step of the store keeps the invariant.
LEMMA NextSafe == SafeInv /\ [Next]_vars => SafeInv'
  BY MapSteps

\* The store keeps the invariant, however its critical sections interleave.
THEOREM Safety == Spec => []SafeInv
  BY InitSafe, NextSafe, PTL DEF Spec

\* Type correctness of the maps and the requests.
THEOREM TypeCorrect == Spec => []TypeOK
  <1>1. SafeInv => TypeOK
    BY DEF SafeInv
  <1> QED
    BY <1>1, Safety, PTL

\* sessionsByRT is an index of RefreshTokenHash at every moment the mutex is free
\* and inside the rotation too.
THEOREM IndexSound == Spec => []IndexAgrees
  <1>1. SafeInv => IndexAgrees
    BY DEF SafeInv
  <1> QED
    BY <1>1, Safety, PTL

\* Refresh's reuse detection: once the caller is told that an exchanged token is
\* invalid, the session it belonged to is revoked.
THEOREM ReuseDetected == Spec => []ReuseRevokes
  <1>1. SafeInv => ReuseRevokes
    BY DEF SafeInv
  <1> QED
    BY <1>1, Safety, PTL

-----------------------------------------------------------------------------
(* Refinement of TokenFamily: the abstract state of a session *)

cur == [s \in Session |-> IF Exists(s) THEN sessions[s].hash ELSE NoToken]
ret == [s \in Session |-> {h \in Digest : refreshChain[h] = s}]
shut == {s \in Session : Exists(s) /\ sessions[s].revoked}

\* A token that no session was given yet is unseen by the contract.
LEMMA FreshIsUnseen ==
    ASSUME SafeInv, NEW t \in Token, family[t] = NoSession
    PROVE  Family!Unseen(sha256Hex(t))
  <1> SUFFICES ASSUME NEW s \in Session
               PROVE  cur[s] # sha256Hex(t) /\ sha256Hex(t) \notin ret[s]
    BY DEF Family!Unseen, cur, ret
  <1>1. CASE Exists(s)
    <2>1. sessions[s].hash # sha256Hex(t)
      BY <1>1, OwnedFacts, SentinelAssumption
    <2>2. refreshChain[sha256Hex(t)] # s
      BY SentinelAssumption DEF SafeInv, MapsOwned
    <2> QED
      BY <1>1, <2>1, <2>2 DEF cur, ret
  <1>2. CASE ~Exists(s)
    <2>1. sha256Hex(t) # NoToken
      BY DigestFacts, SentinelAssumption
    <2>2. refreshChain[sha256Hex(t)] # s
      BY SentinelAssumption DEF SafeInv, MapsOwned
    <2> QED
      BY <1>2, <2>1, <2>2 DEF cur, ret
  <1> QED
    BY <1>1, <1>2

\* issueSession opens a family with an unseen token.
LEMMA IssueRefines ==
    ASSUME SafeInv, NEW r \in Request, NEW u \in User, NEW s \in Session, NEW t \in Token,
           issueSession(r, u, s, t)
    PROVE  Family!Next
  <1>1. ~Exists(s) /\ family[t] = NoSession /\ UNCHANGED refreshChain
    BY DEF issueSession, Fresh
  <1>2. /\ \A q \in Session : q # s => sessions'[q] = sessions[q]
        /\ sessions'[s].hash = sha256Hex(t) /\ sessions'[s].revoked = FALSE
    BY DEF issueSession, SafeInv, TypeOK
  <1>3. sessions'[s] # NoRow
    <2>1. sessionsByRT'[sha256Hex(t)] = s
      BY DigestFacts DEF issueSession, SafeInv, TypeOK
    <2>2. SafeInv'
      BY IssueStep
    <2> QED
      BY <2>1, <2>2, DigestFacts, SentinelAssumption DEF SafeInv, IndexAgrees, Exists
  <1>4. cur[s] = NoToken /\ cur' = [cur EXCEPT ![s] = sha256Hex(t)]
    BY <1>1, <1>2, <1>3 DEF cur, Exists
  <1>5. ret' = ret /\ shut' = shut
    BY <1>1, <1>2 DEF ret, shut, Exists
  <1>6. Family!Open(s, sha256Hex(t))
    BY <1>1, <1>4, <1>5, FreshIsUnseen DEF Family!Open, cur, ret, shut
  <1> QED
    BY <1>6, DigestFacts DEF Family!Next

\* Leaving the rotation exchanges the current token of an open family.
LEMMA LeaveRefines ==
    ASSUME SafeInv, NEW r \in Request, NEW new \in Token, RefreshLeave(r, new)
    PROVE  Family!Next
  <1>0. PICK s \in Session, old \in Token : LeaveEffect(r, new, s, old)
    BY LeaveFacts
  <1> DEFINE h == sha256Hex(old)
  <1>1. /\ Exists(s) /\ sessions[s].hash = h /\ ~sessions[s].revoked
        /\ family[new] = NoSession /\ refreshChain[h] = NoSession
        /\ sessions'[s] \in Row /\ sessions'[s].hash = sha256Hex(new)
        /\ sessions'[s].revoked = FALSE
        /\ \A q \in Session : q # s => sessions'[q] = sessions[q]
    BY <1>0 DEF LeaveEffect
  <1>2. sessions'[s] # NoRow /\ h \in Digest /\ h # NoToken
    BY <1>1, RowFacts, DigestFacts, SentinelAssumption
  <1>3. \A g \in Digest : refreshChain'[g] = IF g = h THEN s ELSE refreshChain[g]
    BY <1>0, DigestFacts DEF LeaveEffect
  <1> HIDE DEF h
  <1>4. cur[s] = h /\ cur[s] # NoToken /\ s \notin shut
    BY <1>1, <1>2 DEF cur, shut
  <1>5. cur' = [cur EXCEPT ![s] = sha256Hex(new)]
    BY <1>1, <1>2 DEF cur, Exists
  <1>6. ret' = [ret EXCEPT ![s] = ret[s] \cup {cur[s]}]
    <2>1. ASSUME NEW q \in Session
          PROVE  ret'[q] = IF q = s THEN ret[q] \cup {h} ELSE ret[q]
      BY <1>1, <1>2, <1>3, SentinelAssumption DEF ret
    <2> QED
      BY <2>1, <1>4 DEF ret
  <1>7. shut' = shut
    BY <1>1 DEF shut, Exists
  <1>8. Family!Rotate(s, sha256Hex(new))
    BY <1>1, <1>4, <1>5, <1>6, <1>7, FreshIsUnseen DEF Family!Rotate, cur, ret, shut
  <1> QED
    BY <1>8, DigestFacts DEF Family!Next

\* Revoking sessions closes the families that were still open, if any.
LEMMA RevokeRefines ==
    ASSUME SafeInv, NEW S \in SUBSET Session, \A s \in S : Exists(s), SetRevoked(S),
           UNCHANGED refreshChain
    PROVE  Family!Next \/ UNCHANGED Family!vars
  <1>0. PICK T \in SUBSET Session : T = S \ shut
    OBVIOUS
  <1>1. \A s \in Session :
            /\ sessions'[s] # NoRow <=> Exists(s)
            /\ Exists(s) => sessions'[s].hash = sessions[s].hash
            /\ s \in S => sessions'[s].revoked
            /\ s \notin S => sessions'[s] = sessions[s]
    BY OwnedFacts, RowFacts DEF SetRevoked, Exists
  <1>2. cur' = cur
    <2>1. ASSUME NEW s \in Session PROVE cur'[s] = cur[s]
      <3>1. CASE Exists(s)
        <4>1. sessions'[s] # NoRow /\ sessions'[s].hash = sessions[s].hash
          BY <1>1, <3>1
        <4> QED
          BY <3>1, <4>1 DEF cur, Exists
      <3>2. CASE ~Exists(s)
        <4>1. sessions'[s] = NoRow
          BY <1>1, <3>2
        <4> QED
          BY <3>2, <4>1 DEF cur, Exists
      <3> QED
        BY <3>1, <3>2
    <2> QED
      BY <2>1 DEF cur
  <1>3. ret' = ret
    BY DEF ret
  <1>4. shut' = shut \cup T
    <2>1. ASSUME NEW s \in Session
          PROVE  (sessions'[s] # NoRow /\ sessions'[s].revoked)
                     <=> ((Exists(s) /\ sessions[s].revoked) \/ s \in S)
      BY <1>1 DEF Exists
    <2> QED
      BY <1>0, <2>1 DEF shut, Exists
  <1>5. CASE T = {}
    BY <1>2, <1>3, <1>4, <1>5 DEF cur, ret, shut, Family!vars
  <1>6. CASE T # {}
    <2>1. \A s \in T : cur[s] # NoToken
      <3> SUFFICES ASSUME NEW s \in T PROVE cur[s] # NoToken
        OBVIOUS
      <3>1. s \in Session /\ sessions[s].hash \in Digest /\ Exists(s)
        BY <1>0, OwnedFacts, RowFacts
      <3>2. cur[s] = sessions[s].hash
        BY <3>1 DEF cur
      <3> QED
        BY <3>1, <3>2, SentinelAssumption
    <2>2. T \cap shut = {}
      BY <1>0
    <2>3. Family!Close(T)
      BY <1>2, <1>3, <1>4, <1>6, <2>1, <2>2 DEF Family!Close, cur, ret, shut
    <2> QED
      BY <2>3 DEF Family!Next
  <1> QED
    BY <1>5, <1>6

\* The in-memory store implements the contract of a rotating token family.
THEOREM Refinement == Spec => ImplementsTokenFamily
  <1>1. Init => Family!Init
    BY SentinelAssumption DEF Init, Family!Init, Exists
  <1>2. SafeInv /\ [Next]_vars => [Family!Next]_(Family!vars)
    <2> SUFFICES ASSUME SafeInv, [Next]_vars
                 PROVE  Family!Next \/ UNCHANGED Family!vars
      OBVIOUS
    <2>1. CASE UNCHANGED <<sessions, refreshChain>>
      BY <2>1 DEF Family!vars, Exists
    <2> QED
      BY <2>1, MapSteps, IssueRefines, LeaveRefines, RevokeRefines
  <1> QED
    BY <1>1, <1>2, Safety, PTL DEF Spec, ImplementsTokenFamily, Family!Spec
=============================================================================

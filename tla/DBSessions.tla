----------------------------- MODULE DBSessions -----------------------------
(***************************************************************************)
(* The session half of the Postgres store (internal/dbstore.go): the tables *)
(* sessions and used_refresh_tokens, and the HTTP requests that work on     *)
(* them concurrently (internal/server.go, internal/handlers.go).  A request *)
(* is one goroutine; a step is one SQL statement, or one transaction's      *)
(* commit.  Under READ COMMITTED nobody sees a transaction's writes before  *)
(* it commits, so Refresh has two visible points: SELECT ... FOR UPDATE,    *)
(* which takes the row lock, and COMMIT, which publishes and unlocks.       *)
(***************************************************************************)
EXTENDS Naturals

CONSTANTS
    User, Session, Token,   \* user ids, session ids, refresh tokens
    Bogus,                  \* a refresh token nobody was ever given
    Request,                \* the goroutines that serve requests
    NoRow, NoSession, NoToken, NoRequest,
    SessionTTL,             \* lifetime of a session, in ticks
    MaxTime,                \* bound on the clock
    MaxFaults               \* bound on failed statements and crashes

\* The digest sha256Hex keeps of a token; distinct tokens have distinct digests.
sha256Hex(t) == <<"sha256", t>>

Digest == {sha256Hex(t) : t \in Token \cup {Bogus}}

Row == [user : User, hash : Digest, exp : Nat, revoked : BOOLEAN]

ASSUME TTLAssumption == SessionTTL \in Nat /\ MaxTime \in Nat /\ MaxFaults \in Nat

ASSUME SentinelAssumption ==
    /\ Bogus \notin Token
    /\ NoRow \notin Row
    /\ NoSession \notin Session
    /\ NoToken \notin Token /\ NoToken # Bogus /\ NoToken \notin Digest
    /\ NoRequest \notin Request

VARIABLES
    sessions,   \* table sessions: session id -> row
    used,       \* table used_refresh_tokens: token_hash -> session_id
    rowLock,    \* the transaction holding the FOR UPDATE lock of a row
    req,        \* what each request is doing
    now,        \* the clock
    faults,     \* statement failures and crashes so far
    family,     \* history: the session a token was stored for
    refused     \* history: tokens answered with ErrRefreshTokenInvalid after no failed statement

tables == <<sessions, used, family>>
vars == <<sessions, used, rowLock, req, now, faults, family, refused>>

PC == {"idle", "lookup", "rotate", "reuse", "revokeFind", "revoke",
       "logoutSelect", "logoutUpdate", "revokeAll"}

RequestState ==
    [pc : PC, tok : Token \cup {Bogus, NoToken}, new : Token \cup {NoToken},
     sid : Session \cup {NoSession}, batch : SUBSET Session]

Idle == [pc |-> "idle", tok |-> NoToken, new |-> NoToken,
         sid |-> NoSession, batch |-> {}]

TypeOK ==
    /\ sessions \in [Session -> Row \cup {NoRow}]
    /\ used \in [Digest -> Session \cup {NoSession}]
    /\ rowLock \in [Session -> Request \cup {NoRequest}]
    /\ req \in [Request -> RequestState]
    /\ now \in 0..MaxTime
    /\ faults \in 0..MaxFaults
    /\ family \in [Token -> Session \cup {NoSession}]
    /\ refused \in SUBSET (Token \cup {Bogus})

Init ==
    /\ sessions = [s \in Session |-> NoRow]
    /\ used = [h \in Digest |-> NoSession]
    /\ rowLock = [s \in Session |-> NoRequest]
    /\ req = [r \in Request |-> Idle]
    /\ now = 0
    /\ faults = 0
    /\ family = [t \in Token |-> NoSession]
    /\ refused = {}

-----------------------------------------------------------------------------
Exists(s) == sessions[s] # NoRow

\* SessionByID: a row that is not revoked; the expiry is not looked at.
SessionByID(s) == Exists(s) /\ ~sessions[s].revoked

HasHash(s, t) == Exists(s) /\ sessions[s].hash = sha256Hex(t)

Unlocked(s) == rowLock[s] = NoRequest

\* randomToken: a value no table and no running transaction holds.
Fresh(t) == family[t] = NoSession /\ \A q \in Request : req[q].new # t

Start(r, state) == req[r] = Idle /\ req' = [req EXCEPT ![r] = state]

Done(r) == req' = [req EXCEPT ![r] = Idle]

\* UPDATE sessions SET revoked_at=... on the rows of S.
Revoke(S) ==
    sessions' = [s \in Session |->
        IF s \in S THEN [sessions[s] EXCEPT !.revoked = TRUE] ELSE sessions[s]]

-----------------------------------------------------------------------------
\* Mutant: the refresh token is stored as it is, not as its digest.
issueSession_Plain(r, u, s, t) ==
    /\ ~Exists(s)
    /\ Fresh(t)
    /\ req[r] = Idle
    /\ sessions' = [sessions EXCEPT ![s] =
           [user |-> u, hash |-> t, exp |-> now + SessionTTL, revoked |-> FALSE]]
    /\ family' = [family EXCEPT ![t] = s]
    /\ UNCHANGED <<used, rowLock, req, now, faults, refused>>

\* issueSession: INSERT INTO sessions.
issueSession(r, u, s, t) ==
    /\ ~Exists(s)
    /\ Fresh(t)
    /\ req[r] = Idle
    /\ sessions' = [sessions EXCEPT ![s] =
           [user |-> u, hash |-> sha256Hex(t), exp |-> now + SessionTTL,
            revoked |-> FALSE]]
    /\ family' = [family EXCEPT ![t] = s]
    /\ UNCHANGED <<used, rowLock, req, now, faults, refused>>

\* Mutant: a plain SELECT, the row is not locked.
RefreshSelect_NoLock(r, t, new) ==
    \E s \in Session :
        /\ HasHash(s, t)
        /\ Unlocked(s)
        /\ ~sessions[s].revoked
        /\ ~(now > sessions[s].exp)
        /\ Fresh(new)
        /\ Start(r, [Idle EXCEPT !.pc = "rotate", !.tok = t, !.new = new, !.sid = s])
        /\ UNCHANGED <<sessions, used, rowLock, now, faults, family, refused>>

\* Mutant: revoked_at is selected and never looked at.
RefreshSelect_Revoked(r, t, new) ==
    \E s \in Session :
        /\ HasHash(s, t)
        /\ Unlocked(s)
        /\ ~(now > sessions[s].exp)
        /\ Fresh(new)
        /\ Start(r, [Idle EXCEPT !.pc = "rotate", !.tok = t, !.new = new, !.sid = s])
        /\ rowLock' = [rowLock EXCEPT ![s] = r]
        /\ UNCHANGED <<sessions, used, now, faults, family, refused>>

\* Refresh, SELECT ... FOR UPDATE finds a usable row: it stays locked while the
\* replacement token is drawn.
RefreshSelect(r, t, new) ==
    \E s \in Session :
        /\ HasHash(s, t)
        /\ Unlocked(s)
        /\ ~sessions[s].revoked
        /\ ~(now > sessions[s].exp)
        /\ Fresh(new)
        /\ Start(r, [Idle EXCEPT !.pc = "rotate", !.tok = t, !.new = new, !.sid = s])
        /\ rowLock' = [rowLock EXCEPT ![s] = r]
        /\ UNCHANGED <<sessions, used, now, faults, family, refused>>

\* Mutant: the early return leaves the transaction open and the row locked.
RefreshRefuse_NoRollback(r, t) ==
    \E s \in Session :
        /\ HasHash(s, t)
        /\ Unlocked(s)
        /\ sessions[s].revoked \/ now > sessions[s].exp
        /\ req[r] = Idle
        /\ refused' = refused \cup {t}
        /\ rowLock' = [rowLock EXCEPT ![s] = r]
        /\ UNCHANGED <<sessions, used, req, now, faults, family>>

\* Refresh, the row found is revoked or expired: roll back and refuse.
RefreshRefuse(r, t) ==
    \E s \in Session :
        /\ HasHash(s, t)
        /\ Unlocked(s)
        /\ sessions[s].revoked \/ now > sessions[s].exp
        /\ req[r] = Idle
        /\ refused' = refused \cup {t}
        /\ UNCHANGED <<sessions, used, rowLock, req, now, faults, family>>

\* Refresh, no session has this hash: the reuse check comes next.
RefreshMiss(r, t) ==
    /\ \A s \in Session : ~HasHash(s, t)
    /\ Start(r, [Idle EXCEPT !.pc = "lookup", !.tok = t])
    /\ UNCHANGED <<sessions, used, rowLock, now, faults, family, refused>>

\* Mutant: a reused token is refused and its session left alone.
RefreshLookupHit_NoRevoke(r) ==
    /\ req[r].pc = "lookup"
    /\ used[sha256Hex(req[r].tok)] # NoSession
    /\ refused' = refused \cup {req[r].tok}
    /\ Done(r)
    /\ UNCHANGED <<sessions, used, rowLock, now, faults, family>>

\* SELECT session_id FROM used_refresh_tokens finds the session.
RefreshLookupHit(r) ==
    LET sid == used[sha256Hex(req[r].tok)] IN
        /\ req[r].pc = "lookup"
        /\ sid # NoSession
        /\ req' = [req EXCEPT ![r].pc = "reuse", ![r].sid = sid]
        /\ UNCHANGED <<sessions, used, rowLock, now, faults, family, refused>>

\* ... or the token was never issued.
RefreshLookupMiss(r) ==
    /\ req[r].pc = "lookup"
    /\ used[sha256Hex(req[r].tok)] = NoSession
    /\ refused' = refused \cup {req[r].tok}
    /\ Done(r)
    /\ UNCHANGED <<sessions, used, rowLock, now, faults, family>>

\* RevokeSession(prevSID), a statement of its own outside the transaction.
RefreshReuse(r) ==
    /\ req[r].pc = "reuse"
    /\ Unlocked(req[r].sid)
    /\ Revoke({req[r].sid})
    /\ refused' = refused \cup {req[r].tok}
    /\ Done(r)
    /\ UNCHANGED <<used, rowLock, now, faults, family>>

\* Mutant: the exchanged token is not recorded in used_refresh_tokens.
RefreshRotate_NoLedger(r) ==
    LET s == req[r].sid IN
        /\ req[r].pc = "rotate"
        /\ sessions' = [sessions EXCEPT ![s].hash = sha256Hex(req[r].new)]
        /\ family' = [family EXCEPT ![req[r].new] = s]
        /\ rowLock' = [rowLock EXCEPT ![s] = NoRequest]
        /\ Done(r)
        /\ UNCHANGED <<used, now, faults, refused>>

\* UPDATE sessions, INSERT INTO used_refresh_tokens (token_hash is its primary
\* key) and COMMIT.
RefreshRotate(r) ==
    LET s == req[r].sid
        h == sha256Hex(req[r].tok) IN
        /\ req[r].pc = "rotate"
        /\ used[h] = NoSession
        /\ sessions' = [sessions EXCEPT ![s].hash = sha256Hex(req[r].new)]
        /\ used' = [used EXCEPT ![h] = s]
        /\ family' = [family EXCEPT ![req[r].new] = s]
        /\ rowLock' = [rowLock EXCEPT ![s] = NoRequest]
        /\ Done(r)
        /\ UNCHANGED <<now, faults, refused>>

-----------------------------------------------------------------------------
\* DELETE /v1/sessions: requireAuth finds the session, then Logout selects it
\* without locking, then updates it.
LogoutBegin(r, s) ==
    /\ SessionByID(s)
    /\ Start(r, [Idle EXCEPT !.pc = "logoutSelect", !.sid = s])
    /\ UNCHANGED <<sessions, used, rowLock, now, faults, family, refused>>

LogoutSelect(r) ==
    /\ req[r].pc = "logoutSelect"
    /\ IF sessions[req[r].sid].revoked
          THEN Done(r)
          ELSE req' = [req EXCEPT ![r].pc = "logoutUpdate"]
    /\ UNCHANGED <<sessions, used, rowLock, now, faults, family, refused>>

LogoutUpdate(r) ==
    /\ req[r].pc = "logoutUpdate"
    /\ Unlocked(req[r].sid)
    /\ Revoke({req[r].sid})
    /\ Done(r)
    /\ UNCHANGED <<used, rowLock, now, faults, family, refused>>

\* DELETE /v1/sessions/{id}: requireAuth finds the caller's session `own`.  The
\* target is one of the same user; for any other the request ends with an error.
RevokeBegin(r, own, s) ==
    /\ SessionByID(own)
    /\ Exists(s)
    /\ sessions[own].user = sessions[s].user
    /\ Start(r, [Idle EXCEPT !.pc = "revokeFind", !.sid = s])
    /\ UNCHANGED <<sessions, used, rowLock, now, faults, family, refused>>

\* The handler looks the target up in a statement of its own.
RevokeFind(r) ==
    /\ req[r].pc = "revokeFind"
    /\ IF SessionByID(req[r].sid)
          THEN req' = [req EXCEPT ![r].pc = "revoke"]
          ELSE Done(r)
    /\ UNCHANGED <<sessions, used, rowLock, now, faults, family, refused>>

RevokeSession(r) ==
    /\ req[r].pc = "revoke"
    /\ Unlocked(req[r].sid)
    /\ Revoke({req[r].sid})
    /\ Done(r)
    /\ UNCHANGED <<used, rowLock, now, faults, family, refused>>

\* RevokeAllSessionsForUser: the statement's snapshot fixes which rows it will
\* update; it then waits for their locks.
RevokeAllBegin(r, u) ==
    /\ Start(r, [Idle EXCEPT !.pc = "revokeAll",
           !.batch = {s \in Session : SessionByID(s) /\ sessions[s].user = u}])
    /\ UNCHANGED <<sessions, used, rowLock, now, faults, family, refused>>

RevokeAllCommit(r) ==
    /\ req[r].pc = "revokeAll"
    /\ \A s \in req[r].batch : Unlocked(s)
    /\ Revoke(req[r].batch)
    /\ Done(r)
    /\ UNCHANGED <<used, rowLock, now, faults, family, refused>>

-----------------------------------------------------------------------------
\* A statement or commit of request r fails, or its connection is lost: the
\* deferred Rollback releases the lock.  Refresh ignores the error of the reuse
\* lookup and of RevokeSession: it answers "invalid" and the session stays open.  A
\* response lost after COMMIT changes nothing here: the client is left with the
\* token it had.
Fail(r) ==
    /\ faults < MaxFaults
    /\ req[r].pc # "idle"
    /\ faults' = faults + 1
    /\ rowLock' = [s \in Session |-> IF rowLock[s] = r THEN NoRequest ELSE rowLock[s]]
    /\ Done(r)
    /\ UNCHANGED <<sessions, used, now, family, refused>>

\* The process dies: every request is gone, the tables stay.
Crash ==
    /\ faults < MaxFaults
    /\ faults' = faults + 1
    /\ rowLock' = [s \in Session |-> NoRequest]
    /\ req' = [r \in Request |-> Idle]
    /\ UNCHANGED <<sessions, used, now, family, refused>>

Tick ==
    /\ now < MaxTime
    /\ now' = now + 1
    /\ UNCHANGED <<sessions, used, rowLock, req, faults, family, refused>>

-----------------------------------------------------------------------------
\* A client may present any token from the moment it is stored: its current
\* one, one it exchanged before (a retry after a lost response, a stolen copy),
\* or one that was never issued.
Presentable == {t \in Token : family[t] # NoSession} \cup {Bogus}

\* What a client may start.
Arrive(r) ==
    \/ \E u \in User, s \in Session, t \in Token : issueSession(r, u, s, t)
    \/ \E t \in Presentable :
           \/ \E new \in Token : RefreshSelect(r, t, new)
           \/ RefreshRefuse(r, t)
           \/ RefreshMiss(r, t)
    \/ \E s \in Session : LogoutBegin(r, s)
    \/ \E own, s \in Session : RevokeBegin(r, own, s)
    \/ \E u \in User : RevokeAllBegin(r, u)

\* Steps that wait for nobody, and steps that may wait for a row lock.
Proceed(r) ==
    RefreshLookupHit(r) \/ RefreshLookupMiss(r) \/ RefreshRotate(r)
        \/ LogoutSelect(r) \/ RevokeFind(r)

Await(r) ==
    RefreshReuse(r) \/ LogoutUpdate(r) \/ RevokeSession(r) \/ RevokeAllCommit(r)

Next ==
    \/ \E r \in Request : Arrive(r) \/ Proceed(r) \/ Await(r) \/ Fail(r)
    \/ Crash
    \/ Tick

Spec == Init /\ [][Next]_vars

\* A started request is scheduled, and a waiter at the head of a row's lock
\* queue is woken before later ones: weak fairness for the first kind of step,
\* strong fairness for the second.  No client is obliged to send anything.
Fairness == \A r \in Request : WF_vars(Proceed(r)) /\ SF_vars(Await(r))

FairSpec == Spec /\ Fairness

-----------------------------------------------------------------------------
(* The inductive invariant behind the safety properties *)

\* A transaction between SELECT ... FOR UPDATE and COMMIT holds the lock of a row
\* that still is as it was read.
RotationOwnsRow ==
    \A r \in Request : req[r].pc = "rotate" =>
        /\ req[r].sid \in Session
        /\ req[r].tok \in Token
        /\ req[r].new \in Token
        /\ rowLock[req[r].sid] = r
        /\ HasHash(req[r].sid, req[r].tok)
        /\ ~sessions[req[r].sid].revoked

\* A drawn token is nobody else's.
DrawnTokensFresh ==
    \A r \in Request : req[r].new # NoToken =>
        /\ family[req[r].new] = NoSession
        /\ \A q \in Request : q # r => req[q].new # req[r].new

\* A request carries what its next statement needs, and the sessions it is about
\* to revoke exist.
RequestShape ==
    \A r \in Request :
        /\ req[r].pc # "rotate" => req[r].new = NoToken
        /\ req[r].pc \in {"lookup", "reuse"} => req[r].tok \in Token \cup {Bogus}
        /\ req[r].pc \in {"reuse", "revokeFind", "revoke", "logoutSelect", "logoutUpdate"} =>
               req[r].sid \in Session /\ Exists(req[r].sid)
        /\ \A s \in req[r].batch : Exists(s)

\* The tables speak of stored tokens only.
TablesOwned ==
    /\ \A s \in Session : Exists(s) =>
           \E t \in Token : sessions[s].hash = sha256Hex(t) /\ family[t] = s
    /\ \A t \in Token : used[sha256Hex(t)] # NoSession => family[t] = used[sha256Hex(t)]
    /\ used[sha256Hex(Bogus)] = NoSession

-----------------------------------------------------------------------------
(* Properties *)

\* Every token ever stored for a session is accounted for exactly once: it is
\* the session's current hash or its entry in used_refresh_tokens, never both
\* and never another session's.  A gap here is a token whose reuse goes unseen.
TokenLedger ==
    \A t \in Token : family[t] # NoSession =>
        LET s == family[t] IN
            /\ Exists(s)
            /\ \/ sessions[s].hash = sha256Hex(t) /\ used[sha256Hex(t)] = NoSession
               \/ sessions[s].hash # sha256Hex(t) /\ used[sha256Hex(t)] = s

\* What every step preserves: the ledger and the facts it rests on.
SafeInv ==
    /\ TypeOK
    /\ RotationOwnsRow
    /\ DrawnTokensFresh
    /\ RequestShape
    /\ TablesOwned
    /\ TokenLedger

\* Refresh reads revoked_at in one statement and publishes the rotation in
\* another: no interleaving hands a new token to a revoked session, and no
\* step brings a revoked session or a deleted row back.
RevokedIsFinal ==
    [][\A s \in Session :
          (Exists(s) /\ sessions[s].revoked) =>
              /\ sessions'[s] # NoRow
              /\ sessions'[s].revoked
              /\ sessions'[s].hash = sessions[s].hash]_vars

\* "reused old refresh token is rejected and revokes the chain" (PROJECT_PLAN.md):
\* when the caller is told that a token it exchanged before is invalid, the
\* session is revoked already, whatever crashed or failed elsewhere; only a
\* request whose own lookup or revocation failed may leave the session open.
ReuseRevokes ==
    \A t \in refused \cap Token :
        used[sha256Hex(t)] # NoSession => sessions[used[sha256Hex(t)]].revoked

\* Every request that started is answered: no request keeps a row lock, or
\* waits for one, for ever.
RequestsTerminate ==
    \A r \in Request : req[r].pc # "idle" ~> req[r].pc = "idle"

\* The store keeps the contract of a rotating token family.
Family == INSTANCE TokenFamily WITH
    Token <- Digest,
    current <- [s \in Session |-> IF Exists(s) THEN sessions[s].hash ELSE NoToken],
    retired <- [s \in Session |-> {h \in Digest : used[h] = s}],
    closed <- {s \in Session : Exists(s) /\ sessions[s].revoked}

\* Every step of the tables is a step of the contract: a token is exchanged at
\* most once, only while it is the newest and the session is open, and a
\* replacement was never seen before.
ImplementsTokenFamily == Family!Spec
=============================================================================

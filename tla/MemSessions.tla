---------------------------- MODULE MemSessions ----------------------------
(***************************************************************************)
(* Sessions in the in-memory store (internal/sessions.go, users.go), the    *)
(* backend of development and of the tests: the maps sessions, sessionsByRT *)
(* and refreshChain under one RWMutex.  A critical section is one step,     *)
(* except Refresh's rotation, which is entered and left in two: the reuse   *)
(* branch of another Refresh reads refreshChain after it has released the   *)
(* mutex, and the Go runtime aborts a process whose map is read while it is *)
(* written.  One behaviour is one life of the process.                      *)
(***************************************************************************)
EXTENDS Naturals

CONSTANTS
    User, Session, Token, Bogus, Request,
    NoRow, NoSession, NoToken, NoRequest,
    SessionTTL, MaxTime

\* The digest sha256Hex keeps of a token.
sha256Hex(t) == <<"sha256", t>>

Digest == {sha256Hex(t) : t \in Token \cup {Bogus}}

Row == [user : User, hash : Digest, exp : Nat, revoked : BOOLEAN]

ASSUME SentinelAssumption ==
    /\ NoRow \notin Row /\ NoSession \notin Session /\ NoRequest \notin Request
    /\ Bogus \notin Token /\ NoToken \notin Token \cup {Bogus} \cup Digest

ASSUME TTLAssumption == SessionTTL \in Nat /\ MaxTime \in Nat

VARIABLES
    sessions,      \* session id -> *Session
    sessionsByRT,  \* refresh token hash -> session id
    refreshChain,  \* superseded refresh token hash -> session id
    writer,        \* the request inside Refresh's rotation, holding mu
    req,           \* what each request does between two critical sections
    now,
    up,            \* the process is running
    family,        \* history: the session a token was issued for
    refused        \* history: tokens answered with ErrRefreshTokenInvalid

vars == <<sessions, sessionsByRT, refreshChain, writer, req, now, up, family,
          refused>>

RequestState ==
    [pc : {"idle", "rotate", "reuse", "find", "revoke", "logout"},
     tok : Token \cup {Bogus, NoToken}, sid : Session \cup {NoSession}]

Idle == [pc |-> "idle", tok |-> NoToken, sid |-> NoSession]

TypeOK ==
    /\ sessions \in [Session -> Row \cup {NoRow}]
    /\ sessionsByRT \in [Digest -> Session \cup {NoSession}]
    /\ refreshChain \in [Digest -> Session \cup {NoSession}]
    /\ writer \in Request \cup {NoRequest}
    /\ req \in [Request -> RequestState]
    /\ now \in 0..MaxTime
    /\ up \in BOOLEAN
    /\ family \in [Token -> Session \cup {NoSession}]
    /\ refused \in SUBSET (Token \cup {Bogus})

Init ==
    /\ sessions = [s \in Session |-> NoRow]
    /\ sessionsByRT = [h \in Digest |-> NoSession]
    /\ refreshChain = [h \in Digest |-> NoSession]
    /\ writer = NoRequest
    /\ req = [r \in Request |-> Idle]
    /\ now = 0
    /\ up = TRUE
    /\ family = [t \in Token |-> NoSession]
    /\ refused = {}

-----------------------------------------------------------------------------
Exists(s) == sessions[s] # NoRow

\* SessionByID: present and not revoked; the expiry is not looked at.
SessionByID(s) == Exists(s) /\ ~sessions[s].revoked

Fresh(t) == family[t] = NoSession

\* s.mu.Lock() succeeds for request r.
Locked(r) == up /\ writer = NoRequest

Start(r, state) == req[r] = Idle /\ req' = [req EXCEPT ![r] = state]

Done(r) == req' = [req EXCEPT ![r] = Idle]

\* RevokedAt is set on the sessions of S that have none.
SetRevoked(S) ==
    sessions' = [s \in Session |->
        IF s \in S THEN [sessions[s] EXCEPT !.revoked = TRUE] ELSE sessions[s]]

\* delete(s.sessionsByRT, sess.RefreshTokenHash) for the sessions of S.
Unindex(S) ==
    sessionsByRT' = [h \in Digest |->
        IF \E s \in S : sessions[s].hash = h THEN NoSession ELSE sessionsByRT[h]]

-----------------------------------------------------------------------------
\* Mutant: the refresh token is kept as it is, not as its digest.
issueSession_Plain(r, u, s, t) ==
    /\ Locked(r)
    /\ req[r] = Idle
    /\ ~Exists(s)
    /\ Fresh(t)
    /\ sessions' = [sessions EXCEPT ![s] =
           [user |-> u, hash |-> t, exp |-> now + SessionTTL, revoked |-> FALSE]]
    /\ sessionsByRT' = [sessionsByRT EXCEPT ![sha256Hex(t)] = s]
    /\ family' = [family EXCEPT ![t] = s]
    /\ UNCHANGED <<refreshChain, writer, req, now, up, refused>>

\* issueSession: the session and its index entry, under the mutex.
issueSession(r, u, s, t) ==
    /\ Locked(r)
    /\ req[r] = Idle
    /\ ~Exists(s)
    /\ Fresh(t)
    /\ sessions' = [sessions EXCEPT ![s] =
           [user |-> u, hash |-> sha256Hex(t), exp |-> now + SessionTTL,
            revoked |-> FALSE]]
    /\ sessionsByRT' = [sessionsByRT EXCEPT ![sha256Hex(t)] = s]
    /\ family' = [family EXCEPT ![t] = s]
    /\ UNCHANGED <<refreshChain, writer, req, now, up, refused>>

\* Refresh finds a usable session and enters the rotation, holding the mutex.
RefreshEnter(r, t) ==
    LET s == sessionsByRT[sha256Hex(t)] IN
        /\ Locked(r)
        /\ s # NoSession
        /\ ~sessions[s].revoked
        /\ ~(now > sessions[s].exp)
        /\ \E new \in Token : Fresh(new)    \* bound: a token is left to draw
        /\ Start(r, [pc |-> "rotate", tok |-> t, sid |-> s])
        /\ writer' = r
        /\ UNCHANGED <<sessions, sessionsByRT, refreshChain, now, up, family, refused>>

\* Mutant: the old hash stays in sessionsByRT.
RefreshLeave_KeepIndex(r, new) ==
    LET s == req[r].sid
        old == sha256Hex(req[r].tok) IN
        /\ up
        /\ req[r].pc = "rotate"
        /\ Fresh(new)
        /\ sessions' = [sessions EXCEPT ![s].hash = sha256Hex(new)]
        /\ sessionsByRT' = [sessionsByRT EXCEPT ![sha256Hex(new)] = s]
        /\ refreshChain' = [refreshChain EXCEPT ![old] = s]
        /\ family' = [family EXCEPT ![new] = s]
        /\ writer' = NoRequest
        /\ Done(r)
        /\ UNCHANGED <<now, up, refused>>

\* The maps are updated and the mutex released.
RefreshLeave(r, new) ==
    LET s == req[r].sid
        old == sha256Hex(req[r].tok) IN
        /\ up
        /\ req[r].pc = "rotate"
        /\ Fresh(new)
        /\ sessions' = [sessions EXCEPT ![s].hash = sha256Hex(new)]
        /\ sessionsByRT' = [sessionsByRT EXCEPT ![old] = NoSession, ![sha256Hex(new)] = s]
        /\ refreshChain' = [refreshChain EXCEPT ![old] = s]
        /\ family' = [family EXCEPT ![new] = s]
        /\ writer' = NoRequest
        /\ Done(r)
        /\ UNCHANGED <<now, up, refused>>

\* The token is unknown, or its session is revoked or expired.
RefreshRefuse(r, t) ==
    LET s == sessionsByRT[sha256Hex(t)] IN
        /\ Locked(r)
        /\ req[r] = Idle
        /\ IF s = NoSession
              THEN refreshChain[sha256Hex(t)] = NoSession
              ELSE sessions[s].revoked \/ now > sessions[s].exp
        /\ refused' = refused \cup {t}
        /\ UNCHANGED <<sessions, sessionsByRT, refreshChain, writer, req, now, up, family>>

\* The token was superseded: the mutex is released, the session not revoked yet.
RefreshReuse(r, t) ==
    /\ Locked(r)
    /\ sessionsByRT[sha256Hex(t)] = NoSession
    /\ refreshChain[sha256Hex(t)] # NoSession
    /\ Start(r, [Idle EXCEPT !.pc = "reuse", !.tok = t])
    /\ UNCHANGED <<sessions, sessionsByRT, refreshChain, writer, now, up, family, refused>>

\* s.refreshChain[hash] is read without the mutex ...
ReadChain(r) ==
    /\ up
    /\ req[r].pc = "reuse"
    /\ req' = [req EXCEPT ![r].pc = "revoke",
                          ![r].sid = refreshChain[sha256Hex(req[r].tok)]]
    /\ UNCHANGED <<sessions, sessionsByRT, refreshChain, writer, now, up, family, refused>>

\* ... and while another request writes it, the read may abort the process.
ReadChainAborts(r) ==
    /\ up
    /\ req[r].pc = "reuse"
    /\ writer # NoRequest
    /\ up' = FALSE
    /\ UNCHANGED <<sessions, sessionsByRT, refreshChain, writer, req, now, family, refused>>

\* Mutant: the session is revoked only if the index still leads to it from the
\* presented token.
RevokeSession_OnlyIndexed(r) ==
    /\ Locked(r)
    /\ req[r].pc = "revoke"
    /\ IF req[r].tok # NoToken => sessionsByRT[sha256Hex(req[r].tok)] = req[r].sid
          THEN SetRevoked({req[r].sid}) /\ Unindex({req[r].sid})
          ELSE UNCHANGED <<sessions, sessionsByRT>>
    /\ refused' = refused \cup ({req[r].tok} \ {NoToken})
    /\ Done(r)
    /\ UNCHANGED <<refreshChain, writer, now, up, family>>

\* RevokeSession, from DELETE /v1/sessions/{id} and from the reuse branch, which
\* then answers that the token is invalid.
RevokeSession(r) ==
    /\ Locked(r)
    /\ req[r].pc = "revoke"
    /\ IF sessions[req[r].sid].revoked
          THEN UNCHANGED <<sessions, sessionsByRT>>
          ELSE SetRevoked({req[r].sid}) /\ Unindex({req[r].sid})
    /\ refused' = refused \cup ({req[r].tok} \ {NoToken})
    /\ Done(r)
    /\ UNCHANGED <<refreshChain, writer, now, up, family>>

\* DELETE /v1/sessions/{id}: requireAuth finds the caller's session `own`; the
\* target is one of the same user, any other ends in an error.
RevokeBegin(r, own, s) ==
    /\ Locked(r)
    /\ SessionByID(own)
    /\ Exists(s)
    /\ sessions[own].user = sessions[s].user
    /\ Start(r, [Idle EXCEPT !.pc = "find", !.sid = s])
    /\ UNCHANGED <<sessions, sessionsByRT, refreshChain, writer, now, up, family, refused>>

\* The handler looks the target up in a critical section of its own.
RevokeFind(r) ==
    /\ Locked(r)
    /\ req[r].pc = "find"
    /\ IF SessionByID(req[r].sid)
          THEN req' = [req EXCEPT ![r].pc = "revoke"]
          ELSE Done(r)
    /\ UNCHANGED <<sessions, sessionsByRT, refreshChain, writer, now, up, family, refused>>

\* requireAuth finds the session; Logout runs in a critical section of its own.
LogoutBegin(r, s) ==
    /\ Locked(r)
    /\ SessionByID(s)
    /\ Start(r, [Idle EXCEPT !.pc = "logout", !.sid = s])
    /\ UNCHANGED <<sessions, sessionsByRT, refreshChain, writer, now, up, family, refused>>

Logout(r) ==
    /\ Locked(r)
    /\ req[r].pc = "logout"
    /\ IF sessions[req[r].sid].revoked
          THEN UNCHANGED <<sessions, sessionsByRT>>
          ELSE SetRevoked({req[r].sid}) /\ Unindex({req[r].sid})
    /\ Done(r)
    /\ UNCHANGED <<refreshChain, writer, now, up, family, refused>>

SessionsOf(u) == {s \in Session : SessionByID(s) /\ sessions[s].user = u}

\* Mutant: the sessions leave the index and are not marked revoked.
RevokeAllSessionsForUser_OnlyIndex(r, u) ==
    /\ Locked(r)
    /\ req[r] = Idle
    /\ Unindex(SessionsOf(u))
    /\ UNCHANGED <<sessions, refreshChain, writer, req, now, up, family, refused>>

RevokeAllSessionsForUser(r, u) ==
    /\ Locked(r)
    /\ req[r] = Idle
    /\ SetRevoked(SessionsOf(u))
    /\ Unindex(SessionsOf(u))
    /\ UNCHANGED <<refreshChain, writer, req, now, up, family, refused>>

\* SoftDeleteUser revokes the user's sessions and leaves the index as it is.
SoftDeleteUser(r, u) ==
    /\ Locked(r)
    /\ req[r] = Idle
    /\ SetRevoked(SessionsOf(u))
    /\ UNCHANGED <<sessionsByRT, refreshChain, writer, req, now, up, family, refused>>

Tick ==
    /\ up
    /\ now < MaxTime
    /\ now' = now + 1
    /\ UNCHANGED <<sessions, sessionsByRT, refreshChain, writer, req, up, family, refused>>

-----------------------------------------------------------------------------
Presentable == {t \in Token : family[t] # NoSession} \cup {Bogus}

Arrive(r) ==
    \/ \E u \in User, s \in Session, t \in Token : issueSession(r, u, s, t)
    \/ \E t \in Presentable :
           RefreshEnter(r, t) \/ RefreshRefuse(r, t) \/ RefreshReuse(r, t)
    \/ \E own, s \in Session : RevokeBegin(r, own, s)
    \/ \E s \in Session : LogoutBegin(r, s)
    \/ \E u \in User : RevokeAllSessionsForUser(r, u) \/ SoftDeleteUser(r, u)

Proceed(r) ==
    \/ \E new \in Token : RefreshLeave(r, new)
    \/ ReadChain(r)
    \/ RevokeFind(r)
    \/ RevokeSession(r)
    \/ Logout(r)

Next ==
    \/ \E r \in Request : Arrive(r) \/ Proceed(r) \/ ReadChainAborts(r)
    \/ Tick

Spec == Init /\ [][Next]_vars

-----------------------------------------------------------------------------
(* Properties *)

\* sessionsByRT is an index of RefreshTokenHash: outside the rotation, an open
\* session is found under its current hash and under no other, so neither a
\* retired token nor a foreign one can reach it.
IndexAgrees ==
    /\ \A h \in Digest : sessionsByRT[h] # NoSession =>
           Exists(sessionsByRT[h]) /\ sessions[sessionsByRT[h]].hash = h
    /\ \A s \in Session : SessionByID(s) => sessionsByRT[sessions[s].hash] = s

\* "reused old refresh token is rejected and revokes the chain": when the
\* caller is told that a token it exchanged before is invalid, the session is
\* revoked, although the branch released the mutex before it revoked.
ReuseRevokes ==
    \A t \in refused \cap Token :
        LET s == refreshChain[sha256Hex(t)] IN s # NoSession => sessions[s].revoked

\* The maps keep the contract of a rotating token family.
Family == INSTANCE TokenFamily WITH
    Token <- Digest,
    current <- [s \in Session |-> IF Exists(s) THEN sessions[s].hash ELSE NoToken],
    retired <- [s \in Session |-> {h \in Digest : refreshChain[h] = s}],
    closed <- {s \in Session : Exists(s) /\ sessions[s].revoked}

\* Every step of the maps is a step of the contract, as for the Postgres store.
ImplementsTokenFamily == Family!Spec
=============================================================================

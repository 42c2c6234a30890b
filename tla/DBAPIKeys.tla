----------------------------- MODULE DBAPIKeys -----------------------------
(***************************************************************************)
(* Partner API keys in the Postgres store (internal/dbstore.go, reached     *)
(* through internal/handlers.go).  Rotate and revoke are transactions that  *)
(* lock the row with SELECT ... FOR UPDATE and publish at COMMIT; a request *)
(* is one goroutine.  Of a key only its digest is stored; prefix, scopes,   *)
(* allow list and expires_at are carried along and looked at by nothing     *)
(* modelled here.                                                           *)
(***************************************************************************)
EXTENDS Naturals, Sequences

CONSTANTS
    KeyID, Key, Request,
    NoRow, NoHash, NoKey, NoID, NoRequest,
    MaxFaults           \* bound on failed statements

\* The digest sha256Hex keeps of a key.
sha256Hex(k) == <<"sha256", k>>

Digest == {sha256Hex(k) : k \in Key}

Row == [key_hash : Digest, previous_key_hash : Digest \cup {NoHash}, revoked : BOOLEAN]

ASSUME KeyAssumption ==
    /\ NoRow \notin Row /\ NoHash \notin Digest
    /\ NoKey \notin Key \cup Digest
    /\ NoID \notin KeyID /\ NoRequest \notin Request
    /\ MaxFaults \in Nat

VARIABLES
    api_keys,   \* table api_keys: id -> row
    rowLock,    \* the transaction holding the FOR UPDATE lock of a row
    req,        \* what each request is doing
    faults,
    issued      \* history: the keys stored for an id, in order

vars == <<api_keys, rowLock, req, faults, issued>>

RequestState ==
    [pc : {"idle", "rotate", "revoke"}, id : KeyID \cup {NoID}, new : Key \cup {NoKey}]

Idle == [pc |-> "idle", id |-> NoID, new |-> NoKey]

TypeOK ==
    /\ api_keys \in [KeyID -> Row \cup {NoRow}]
    /\ rowLock \in [KeyID -> Request \cup {NoRequest}]
    /\ req \in [Request -> RequestState]
    /\ faults \in 0..MaxFaults
    /\ issued \in [KeyID -> Seq(Key)]

Init ==
    /\ api_keys = [id \in KeyID |-> NoRow]
    /\ rowLock = [id \in KeyID |-> NoRequest]
    /\ req = [r \in Request |-> Idle]
    /\ faults = 0
    /\ issued = [id \in KeyID |-> <<>>]

-----------------------------------------------------------------------------
Exists(id) == api_keys[id] # NoRow

Issued(id) == {issued[id][i] : i \in 1..Len(issued[id])}

\* generateAPIKey: material nobody was given and no transaction has drawn.
Fresh(k) ==
    /\ \A id \in KeyID : k \notin Issued(id)
    /\ \A q \in Request : req[q].new # k

Done(r) == req' = [req EXCEPT ![r] = Idle]

\* SELECT ... FOR UPDATE of an unrevoked row.
Lock(r, id) ==
    /\ req[r] = Idle
    /\ Exists(id)
    /\ rowLock[id] = NoRequest
    /\ ~api_keys[id].revoked
    /\ rowLock' = [rowLock EXCEPT ![id] = r]

\* COMMIT or ROLLBACK.
Release(r) ==
    /\ rowLock' = [id \in KeyID |-> IF rowLock[id] = r THEN NoRequest ELSE rowLock[id]]
    /\ Done(r)

\* ResolveAPIKey: the rows whose current or previous hash matches, if not revoked.
ResolveAPIKey(k) ==
    {id \in KeyID :
        /\ Exists(id)
        /\ sha256Hex(k) \in {api_keys[id].key_hash, api_keys[id].previous_key_hash}
        /\ ~api_keys[id].revoked}

-----------------------------------------------------------------------------
\* Mutant: the key is stored as it is, not as its digest.
CreateAPIKey_Plain(r, id, k) ==
    /\ req[r] = Idle
    /\ ~Exists(id)
    /\ Fresh(k)
    /\ api_keys' = [api_keys EXCEPT ![id] =
           [key_hash |-> k, previous_key_hash |-> NoHash, revoked |-> FALSE]]
    /\ issued' = [issued EXCEPT ![id] = <<k>>]
    /\ UNCHANGED <<rowLock, req, faults>>

\* CreateAPIKey: INSERT INTO api_keys.
CreateAPIKey(r, id, k) ==
    /\ req[r] = Idle
    /\ ~Exists(id)
    /\ Fresh(k)
    /\ api_keys' = [api_keys EXCEPT ![id] =
           [key_hash |-> sha256Hex(k), previous_key_hash |-> NoHash, revoked |-> FALSE]]
    /\ issued' = [issued EXCEPT ![id] = <<k>>]
    /\ UNCHANGED <<rowLock, req, faults>>

\* Mutant: a plain SELECT, the row is not locked.
RotateSelect_NoLock(r, id, k) ==
    /\ req[r] = Idle
    /\ Exists(id)
    /\ rowLock[id] = NoRequest
    /\ ~api_keys[id].revoked
    /\ Fresh(k)
    /\ req' = [req EXCEPT ![r] = [pc |-> "rotate", id |-> id, new |-> k]]
    /\ UNCHANGED <<api_keys, rowLock, faults, issued>>

\* RotateAPIKey: the new key is drawn and the row locked ...
RotateSelect(r, id, k) ==
    /\ Lock(r, id)
    /\ Fresh(k)
    /\ req' = [req EXCEPT ![r] = [pc |-> "rotate", id |-> id, new |-> k]]
    /\ UNCHANGED <<api_keys, faults, issued>>

\* Mutant: previous_key_hash is filled once and then kept.
RotateCommit_KeepFirst(r) ==
    LET id == req[r].id IN
        /\ req[r].pc = "rotate"
        /\ api_keys' = [api_keys EXCEPT
               ![id].previous_key_hash = IF @ = NoHash THEN api_keys[id].key_hash ELSE @,
               ![id].key_hash = sha256Hex(req[r].new)]
        /\ issued' = [issued EXCEPT ![id] = Append(@, req[r].new)]
        /\ Release(r)
        /\ UNCHANGED faults

\* ... then UPDATE and COMMIT move the current hash to previous_key_hash.
RotateCommit(r) ==
    LET id == req[r].id IN
        /\ req[r].pc = "rotate"
        /\ api_keys' = [api_keys EXCEPT
               ![id].previous_key_hash = api_keys[id].key_hash,
               ![id].key_hash = sha256Hex(req[r].new)]
        /\ issued' = [issued EXCEPT ![id] = Append(@, req[r].new)]
        /\ Release(r)
        /\ UNCHANGED faults

\* RevokeAPIKey: lock, then UPDATE revoked_at and COMMIT.
RevokeSelect(r, id) ==
    /\ Lock(r, id)
    /\ req' = [req EXCEPT ![r] = [Idle EXCEPT !.pc = "revoke", !.id = id]]
    /\ UNCHANGED <<api_keys, faults, issued>>

RevokeCommit(r) ==
    /\ req[r].pc = "revoke"
    /\ api_keys' = [api_keys EXCEPT ![req[r].id].revoked = TRUE]
    /\ Release(r)
    /\ UNCHANGED <<faults, issued>>

\* A statement fails or the connection is lost: the deferred Rollback runs.
Fail(r) ==
    /\ faults < MaxFaults
    /\ req[r].pc # "idle"
    /\ faults' = faults + 1
    /\ Release(r)
    /\ UNCHANGED <<api_keys, issued>>

Next ==
    \E r \in Request :
        \/ \E id \in KeyID, k \in Key : CreateAPIKey(r, id, k) \/ RotateSelect(r, id, k)
        \/ \E id \in KeyID : RevokeSelect(r, id)
        \/ RotateCommit(r) \/ RevokeCommit(r)
        \/ Fail(r)

Spec == Init /\ [][Next]_vars

-----------------------------------------------------------------------------
(* Properties *)

\* The keys of a record that are still honoured.
LastTwo(id) == {issued[id][i] : i \in {n \in 1..Len(issued[id]) : n + 1 >= Len(issued[id])}}

\* However rotations and revocations of a record interleave or fail half way, a
\* key resolves exactly when it is one of the two newest of its record and the
\* record is not revoked, and then to that record alone: no rotation loses the
\* key that a concurrent one has just handed out, and no older key lingers.
LastTwoKeysResolve ==
    \A k \in Key :
        ResolveAPIKey(k) =
            {id \in KeyID : Exists(id) /\ ~api_keys[id].revoked /\ k \in LastTwo(id)}

\* The table keeps the contract of a key ring.
Ring == INSTANCE KeyRing WITH
    Material <- Digest,
    newest <- [id \in KeyID |-> IF Exists(id) THEN api_keys[id].key_hash ELSE NoKey],
    older <- [id \in KeyID |->
        IF Exists(id) /\ api_keys[id].previous_key_hash # NoHash
           THEN api_keys[id].previous_key_hash ELSE NoKey],
    revoked <- {id \in KeyID : Exists(id) /\ api_keys[id].revoked},
    spent <- {sha256Hex(k) : k \in UNION {Issued(id) : id \in KeyID}}

\* Every step of the table is a step of the contract: in particular a rotation
\* that read the row before a revocation never hands out a key after it.
ImplementsKeyRing == Ring!Spec
=============================================================================

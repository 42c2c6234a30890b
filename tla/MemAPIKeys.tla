----------------------------- MODULE MemAPIKeys -----------------------------
(***************************************************************************)
(* Partner API keys in the in-memory store (internal/apikeys.go): the map   *)
(* apiKeys and its index apiKeysByHash under one RWMutex.  Every operation  *)
(* is one critical section, so one step.                                    *)
(***************************************************************************)
CONSTANTS KeyID, Key, NoRow, NoHash, NoID

\* The digest sha256Hex keeps of a key.
sha256Hex(k) == <<"sha256", k>>

Digest == {sha256Hex(k) : k \in Key}

VARIABLES
    apiKeys,         \* id -> *APIKey
    apiKeysByHash,   \* key hash -> id
    issued           \* history: the keys handed out for an id

vars == <<apiKeys, apiKeysByHash, issued>>

Init ==
    /\ apiKeys = [id \in KeyID |-> NoRow]
    /\ apiKeysByHash = [h \in Digest |-> NoID]
    /\ issued = [id \in KeyID |-> {}]

Exists(id) == apiKeys[id] # NoRow

Fresh(k) == \A id \in KeyID : k \notin issued[id]

CreateAPIKey(id, k) ==
    /\ ~Exists(id)
    /\ Fresh(k)
    /\ apiKeys' = [apiKeys EXCEPT ![id] =
           [KeyHash |-> sha256Hex(k), PreviousKeyHash |-> NoHash, revoked |-> FALSE]]
    /\ apiKeysByHash' = [apiKeysByHash EXCEPT ![sha256Hex(k)] = id]
    /\ issued' = [issued EXCEPT ![id] = {k}]

\* The replaced hash becomes PreviousKeyHash; the one it displaces stays indexed.
RotateAPIKey(id, k) ==
    /\ Exists(id)
    /\ ~apiKeys[id].revoked
    /\ Fresh(k)
    /\ apiKeys' = [apiKeys EXCEPT
           ![id].PreviousKeyHash = apiKeys[id].KeyHash, ![id].KeyHash = sha256Hex(k)]
    /\ apiKeysByHash' = [apiKeysByHash EXCEPT
           ![sha256Hex(k)] = id, ![apiKeys[id].KeyHash] = id]
    /\ issued' = [issued EXCEPT ![id] = @ \cup {k}]

\* Only the current and the previous hash leave the index.
RevokeAPIKey(id) ==
    /\ Exists(id)
    /\ ~apiKeys[id].revoked
    /\ apiKeys' = [apiKeys EXCEPT ![id].revoked = TRUE]
    /\ apiKeysByHash' = [h \in Digest |->
           IF h \in {apiKeys[id].KeyHash, apiKeys[id].PreviousKeyHash}
              THEN NoID ELSE apiKeysByHash[h]]
    /\ UNCHANGED issued

\* ResolveAPIKey: what the index says, RevokedAt is not looked at.
ResolveAPIKey(k) == {id \in KeyID : apiKeysByHash[sha256Hex(k)] = id}

Next ==
    \E id \in KeyID :
        \/ \E k \in Key : CreateAPIKey(id, k) \/ RotateAPIKey(id, k)
        \/ RevokeAPIKey(id)

Spec == Init /\ [][Next]_vars

-----------------------------------------------------------------------------
\* "RevokeAPIKey marks the key revoked; future authz decisions deny"
\* (internal/apikeys.go): no key handed out for a revoked record resolves.
RevokedKeyDenied ==
    \A id \in KeyID : (Exists(id) /\ apiKeys[id].revoked) =>
        \A k \in issued[id] : ResolveAPIKey(k) = {}
=============================================================================

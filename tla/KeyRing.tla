------------------------------ MODULE KeyRing ------------------------------
(***************************************************************************)
(* What a store promises about a partner's API key: the key record accepts *)
(* the newest material and the one it replaced (the dual-active window of  *)
(* a rotation) until it is revoked, and nothing after that.  Material is   *)
(* never handed out twice.  internal/dbstore.go (DBAPIKeys) is checked     *)
(* against it.                                                             *)
(***************************************************************************)
CONSTANTS
    KeyID,     \* ids of key records
    Material,  \* what the store keeps of a key (its digest)
    NoKey

VARIABLES
    newest,    \* the material issued last
    older,     \* the material it replaced
    revoked,   \* the records that accept nothing any more
    spent      \* all material ever issued

vars == <<newest, older, revoked, spent>>

Init ==
    /\ newest = [id \in KeyID |-> NoKey]
    /\ older = [id \in KeyID |-> NoKey]
    /\ revoked = {}
    /\ spent = {}

Create(id, m) ==
    /\ newest[id] = NoKey
    /\ m \notin spent
    /\ newest' = [newest EXCEPT ![id] = m]
    /\ spent' = spent \cup {m}
    /\ UNCHANGED <<older, revoked>>

\* The material that was the newest stays accepted, the one before it does not.
Rotate(id, m) ==
    /\ newest[id] # NoKey
    /\ id \notin revoked
    /\ m \notin spent
    /\ newest' = [newest EXCEPT ![id] = m]
    /\ older' = [older EXCEPT ![id] = newest[id]]
    /\ spent' = spent \cup {m}
    /\ UNCHANGED revoked

Revoke(id) ==
    /\ newest[id] # NoKey
    /\ id \notin revoked
    /\ revoked' = revoked \cup {id}
    /\ UNCHANGED <<newest, older, spent>>

Next ==
    \E id \in KeyID :
        \/ \E m \in Material : Create(id, m) \/ Rotate(id, m)
        \/ Revoke(id)

Spec == Init /\ [][Next]_vars
=============================================================================

-------------------------------- MODULE RBAC --------------------------------
(***************************************************************************)
(* Role bindings and the authorization decision in the Postgres store       *)
(* (internal/rbac.go, internal/dbstore.go).  Table role_bindings refers to  *)
(* table roles, which the first migration seeds; the roles the code knows   *)
(* are those of the map rolePermissions.  Each operation is one statement.  *)
(* A binding's scope is stored and never read by Authorize; it is left out. *)
(***************************************************************************)
CONSTANTS
    Binding,     \* ids of bindings
    Subject,     \* users and API keys
    NoSubject,   \* the empty subject_id
    NoBinding

VARIABLES
    bindings,    \* table role_bindings
    accepted     \* history: bindings whose role and subject AddBinding accepted

vars == <<bindings, accepted>>

rolePermissions ==
    [user          |-> {"profile:read", "profile:write", "session:create", "session:read",
                        "session:delete"},
     partner_admin |-> {"keys:create", "keys:read", "keys:rotate", "keys:revoke",
                        "partner:read", "partner:write"},
     partner_api   |-> {"keys:read", "partner:read"},
     support       |-> {"users:read", "session:read"},
     compliance    |-> {"users:read", "audit:read"},
     ops           |-> {"users:unlock", "session:read", "audit:read"},
     admin         |-> {"*"}]

Role == DOMAIN rolePermissions

\* Names in table roles after the first migration.
SeededRoles == {"USER", "PARTNER_ADMIN", "PARTNER_API", "SUPPORT", "COMPLIANCE", "OPS", "ADMIN"}

Action == UNION {rolePermissions[role] : role \in Role} \ {"*"}

Init ==
    /\ bindings = [b \in Binding |-> NoBinding]
    /\ accepted = [b \in Binding |-> NoBinding]

-----------------------------------------------------------------------------
\* AddBinding: a known role and a subject are accepted; the INSERT fails when the
\* name is not in table roles.
AddBinding(b, subject, role) ==
    LET row == [subject |-> subject, role |-> role] IN
        /\ accepted[b] = NoBinding
        /\ role \in Role
        /\ subject # NoSubject
        /\ accepted' = [accepted EXCEPT ![b] = row]
        /\ bindings' = IF role \in SeededRoles THEN [bindings EXCEPT ![b] = row] ELSE bindings

\* DeleteBinding: DELETE ... WHERE id=...
DeleteBinding(b) ==
    /\ bindings[b] # NoBinding
    /\ bindings' = [bindings EXCEPT ![b] = NoBinding]
    /\ accepted' = [accepted EXCEPT ![b] = NoBinding]

BindingsForSubject(subject) ==
    {b \in Binding : bindings[b] # NoBinding /\ bindings[b].subject = subject}

\* Authorize: some role bound to the subject permits the action.
Authorize(subject, action) ==
    \E b \in BindingsForSubject(subject) :
        rolePermissions[bindings[b].role] \cap {"*", action} # {}

Next ==
    \E b \in Binding :
        \/ \E subject \in Subject \cup {NoSubject}, role \in Role : AddBinding(b, subject, role)
        \/ DeleteBinding(b)

Spec == Init /\ [][Next]_vars

-----------------------------------------------------------------------------
(* Properties *)

\* "Bindings can be created/listed/deleted" (PROJECT_PLAN.md): a binding that
\* passes AddBinding's checks grants its subject what its role permits.
AcceptedBindingGrants ==
    \A b \in Binding :
        accepted[b] # NoBinding =>
            \A action \in Action :
                rolePermissions[accepted[b].role] \cap {"*", action} # {} =>
                    Authorize(accepted[b].subject, action)
=============================================================================

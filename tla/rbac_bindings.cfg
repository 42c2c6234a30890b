\* A binding for a role of rolePermissions in the Postgres store.
SPECIFICATION Spec
CONSTANTS
    Binding = {b1, b2}
    Subject = {u1, k1}
    NoSubject = noSubject
    NoBinding = noBinding
INVARIANT AcceptedBindingGrants
CHECK_DEADLOCK FALSE

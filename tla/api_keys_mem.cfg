\* One record rotated twice, then revoked.
SPECIFICATION Spec
CONSTANTS
    KeyID = {i1, i2}
    Key = {k1, k2, k3}
    NoRow = noRow
    NoHash = noHash
    NoID = noID
INVARIANT RevokedKeyDenied
CHECK_DEADLOCK FALSE

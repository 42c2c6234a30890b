\* Two key records and five keys: enough to rotate one record four times, or both,
\* by three concurrent requests.  The run ends when the keys are used up.
SPECIFICATION Spec
CONSTANTS
    KeyID = {i1, i2}
    Key = {k1, k2, k3, k4, k5}
    Request = {r1, r2, r3}
    NoRow = noRow
    NoHash = noHash
    NoKey = noKey
    NoID = noID
    NoRequest = noRequest
    MaxFaults = 2
SYMMETRY Symmetry
INVARIANTS TypeOK LastTwoKeysResolve
PROPERTIES ImplementsKeyRing
CHECK_DEADLOCK FALSE

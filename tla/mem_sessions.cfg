\* The in-memory session maps: index, reuse chain and contract.
SPECIFICATION Spec
CONSTANTS
    User = {u1, u2}
    Session = {s1, s2}
    Token = {t1, t2, t3, t4}
    Request = {r1, r2}
    Bogus = bogus
    NoRow = noRow
    NoSession = noSession
    NoToken = noToken
    NoRequest = noRequest
    SessionTTL = 1
    MaxTime = 2
SYMMETRY Symmetry
INVARIANTS TypeOK IndexAgrees ReuseRevokes
PROPERTIES ImplementsTokenFamily
\* An aborted process does nothing more.
CHECK_DEADLOCK FALSE

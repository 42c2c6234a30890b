\* Two accounts, two e-mails and two requests in the in-memory store.
SPECIFICATION Spec
CONSTANTS
    User = {u1, u2}
    Email = {e1, e2}
    Session = {s1}
    ResetToken = {k1}
    Request = {r1, r2}
    NoUser = noUser
    NoEmail = noEmail
    NoToken = noToken
    NoSession = noSession
    LockoutThreshold = 1
    LockoutBase = 2
    LockoutCap = 3
    Width = 4
    MaxFailures = 5
SYMMETRY Symmetry
INVARIANTS TypeOK EmailIndexAgrees LockoutEventSubject LockedGuessesOverlap
    OldPasswordSessionsRevoked ClosedAccountSessionsRevoked
PROPERTIES LockNeverShortened
CHECK_DEADLOCK FALSE

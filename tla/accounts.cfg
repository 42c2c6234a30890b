\* Login, password reset and closure of one account, interleaved.
SPECIFICATION Spec
CONSTANTS
    Password = {p1, p2}
    First = p1
    Email = {e1, e2}
    ResetToken = {k1}
    Session = {s1, s2}
    Request = {r1, r2}
    NoPassword = noPassword
    NoToken = noToken
    NoReset = noReset
    LockoutThreshold = 2
    LockTime = 1
    MaxLock = 2
    PasswordResetTTL = 1
    MaxTime = 3
    MaxFaults = 1
SYMMETRY Symmetry
INVARIANTS TypeOK OldPasswordSessionsRevoked ClosedAccountSessionsRevoked
    UsedTokenChangedPassword ClosedEmailChangeOverlaps
CHECK_DEADLOCK FALSE

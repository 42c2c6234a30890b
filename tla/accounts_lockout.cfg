\* Five wrong passwords in a row, one client, the code's threshold.
SPECIFICATION Spec
CONSTANTS
    Password = {p1, p2}
    First = p1
    Email = {e1}
    ResetToken = {k1}
    Session = {s1}
    Request = {r1}
    NoPassword = noPassword
    NoToken = noToken
    NoReset = noReset
    LockoutThreshold = 5
    LockTime = 1
    MaxLock = 2
    PasswordResetTTL = 1
    MaxTime = 1
    MaxFaults = 0
INVARIANT ThresholdLocks
CHECK_DEADLOCK FALSE

\* Two confirmations of one reset token.
SPECIFICATION Spec
CONSTANTS
    Password = {p1, p2}
    First = p1
    Email = {e1}
    ResetToken = {k1}
    Session = {s1}
    Request = {r1, r2}
    NoPassword = noPassword
    NoToken = noToken
    NoReset = noReset
    LockoutThreshold = 2
    LockTime = 1
    MaxLock = 2
    PasswordResetTTL = 1
    MaxTime = 2
    MaxFaults = 0
INVARIANT ResetTokenSingleUse
CHECK_DEADLOCK FALSE

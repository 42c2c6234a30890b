\* Two confirmations of one reset token in the in-memory store.
SPECIFICATION Spec
CONSTANTS
    User = {u1}
    Email = {e1}
    Session = {s1}
    ResetToken = {k1}
    Request = {r1, r2}
    NoUser = noUser
    NoEmail = noEmail
    NoToken = noToken
    NoSession = noSession
    LockoutThreshold = 1
    LockoutBase = 2
    LockoutCap = 3
    Width = 4
    MaxFailures = 5
INVARIANT ResetTokenSingleUse
CHECK_DEADLOCK FALSE

\* One session under interleaving, expiry and one fault: safety and termination.
SPECIFICATION FairSpec
CONSTANTS
    User = {u1}
    Session = {s1}
    Token = {t1, t2, t3}
    Request = {r1, r2}
    Bogus = bogus
    NoRow = noRow
    NoSession = noSession
    NoToken = noToken
    NoRequest = noRequest
    SessionTTL = 1
    MaxTime = 2
    MaxFaults = 1
INVARIANTS TypeOK TokenLedger ReuseRevokes
PROPERTIES RevokedIsFinal ImplementsTokenFamily RequestsTerminate

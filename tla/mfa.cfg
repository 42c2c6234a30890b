\* Two factors and three reissues of the recovery codes (one code stands for the ten),
\* by three requests.
SPECIFICATION Spec
CONSTANTS
    Factor = {f1, f2}
    Request = {r1, r2, r3}
    Batch = {b1, b2, b3}
    Slot = {c1}
    NoFactor = noFactor
    NoCode = noCode
    NoBatch = noBatch
    NoRequest = noRequest
    MaxFaults = 1
SYMMETRY Symmetry
INVARIANTS TypeOK OnlyProvenFactorsCount RecoveryCodeSingleUse OnlyOverlappingBatchesCoexist
PROPERTIES DisabledIsFinal

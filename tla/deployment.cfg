\* Two replicas and an operator on one database, with crashes and rollbacks.
SPECIFICATION Spec
CONSTANTS
    Replica = {p1, p2}
    Operator = {o1}
    LastVersion = 2
    Key = {k1, k2}
    NoKey = noKey
    MaxFactors = 2
    MaxFaults = 1
    MaxRollbacks = 1
INVARIANTS TypeOK RecordedMeansApplied ServingSeesSchema ChallengeSkippedOnlyAcrossKeys
PROPERTIES ReplicaEventuallyServes

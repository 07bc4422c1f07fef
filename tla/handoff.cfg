CONSTANTS
    p1 = p1
    p2 = p2
    w1 = w1
    v1 = v1
    Pros = {p1, p2}
    Workers = {w1}
    Operator = Operator
    MaxLate = 1
    MaxJobs = 1
    Kinds <- MCKinds
    Versions = {v1}
    Unresolved = Unresolved
SPECIFICATION FairSpec
CHECK_DEADLOCK FALSE
INVARIANTS TypeOK OnlyShippable
PROPERTIES StopWithholds ImplementsIntake RetriesDeliver

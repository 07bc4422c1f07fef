CONSTANTS
    r1 = r1
    j1 = j1
    j2 = j2
    w1 = w1
    w2 = w2
    k1 = k1
    k2 = k2
    k3 = k3
    Runs = {r1}
    Jobs = {j1, j2}
    Keys = {k1, k2, k3}
    Workers = {w1, w2}
    NoJob = NoJob
    NoKey = NoKey
    NoWorker = NoWorker
    RunOf <- MCRunOf
    JobOf <- MCJobOf
    StageOf <- MCStageOf
    LastStage = 2
    Swallowed = {k2}
    Worst = 2
    Costs = {1}
    RoundWorst = 3
    CostLimit = 4
    DayLimit = 5
    MaxSlots = 1
    MaxAttempts = 2
    MaxDays = 0
    Killable = {r1}
    SlowAt = {}
    CrashAt <- Anywhere
SPECIFICATION FairSpec
CHECK_DEADLOCK FALSE
INVARIANTS TypeOK HoldCoversCalls LedgersAgree
PROPERTY SlotIsGranted

CONSTANTS
    r1 = r1
    j1 = j1
    j2 = j2
    w1 = w1
    w2 = w2
    k1 = k1
    k2 = k2
    k3 = k3
    Runs = {r1}
    Jobs = {j1}
    Keys = {k1, k2}
    Workers = {w1, w2}
    NoJob = NoJob
    NoKey = NoKey
    NoWorker = NoWorker
    RunOf <- MCRunOf
    JobOf <- MCJobOf
    StageOf <- MCStageOf
    LastStage = 2
    Swallowed = {k2}
    Worst = 2
    Costs = {1}
    RoundWorst = 2
    CostLimit = 10
    DayLimit = 12
    MaxSlots = 1
    MaxAttempts = 4
    MaxDays = 1
    Killable = {}
    SlowAt <- Anywhere
    CrashAt <- Anywhere
SPECIFICATION Spec
CHECK_DEADLOCK FALSE
PROPERTY RecordedAnswersAreReused
INVARIANT ChargesAreCovered

CONSTANTS
    r1 = r1
    j1 = j1
    j2 = j2
    w1 = w1
    w2 = w2
    Runs = {r1}
    Jobs = {j1}
    Workers = {w1, w2}
    NoRun = NoRun
    NoJob = NoJob
    NoWorker = NoWorker
    RunOf <- MCRunOf
    Maint = w1
    MaxAttempts = 1
    MaxRounds = 1
    Busy = {2}
    MaxFlips = 0
    Killable = {r1}
    SlowAt = {}
SPECIFICATION Spec
CHECK_DEADLOCK FALSE
PROPERTY TerminalRunIsImmutable

CONSTANTS
    m1 = m1
    f1 = f1
    Sends = {m1, f1}
    Stamped = {m1}
    Malformed = {}
    Lag = 1
    Catchup = 2
    MinWindow = 1
    Lookback = 2
    DeferLimit = 3
    StartCursor = 0
    MaxFlips = 2
    MaxNow = 5
SPECIFICATION FairSpec
CHECK_DEADLOCK FALSE
INVARIANTS TypeOK CursorIsHonest LateWinnersOnly
PROPERTY SendsAreRegistered

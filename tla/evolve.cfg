CONSTANTS
    a = a
    b = b
    Mechs = {a, b}
    NoMech = NoMech
    CandidateCount = 2
    MaxRounds = 2
    MaxNoImprove = 2
    Patience = 1
    KeepDelta = 1
    WinThreshold = 1
    MaxRefills = 1
    Floor = 1
    Scores = {0, 1, 2}
    MaxCrashes = 1
    MaxVetoes = 1
    MaxRetrievals = 1
SPECIFICATION StableSpec
CHECK_DEADLOCK FALSE
INVARIANTS TypeOK OneChampion BestWins ResumeForgetsNothing VerdictsAreOwn ShippedIsConfirmed
SYMMETRY MechSymmetry

CONSTANTS
    e1 = e1
    a1 = a1
    Exposures = {e1}
    Pros = {a1}
    ProOf <- MCOnePro
    Horizons = {1, 2}
    Grace = 1
    Limit = 1
    MaxVisits = 2
    MaxNow = 4
SPECIFICATION FairSpec
CHECK_DEADLOCK FALSE
INVARIANTS TypeOK CoverageIsHonest
PROPERTIES NegativesAreProven SendsAreMeasured

CONSTANTS
    i1 = i1
    i2 = i2
    eA = eA
    eB = eB
    Procs = {i1, i2}
    Exposures = {eA, eB}
    ArmOf <- MCArmOf
    NoExposure = NoExposure
    Sources = {"flow", "manual", "amplitude", "iterable"}
    Items <- MCItems
    Registrations <- MCRegistrations
    MaxWrites = 5
SYMMETRY ProcSymmetry
SPECIFICATION Spec
CHECK_DEADLOCK FALSE
INVARIANTS TypeOK DisagreementFailsClosed
PROPERTIES EligibilityIsEarned GrantIsCausal MeasuredStands

SPECIFICATION Spec
CONSTANTS
    None = None
    r1 = r1
    r2 = r2
    Roots <- TwoNames
    MaxRounds = 2
    MaxCrashes = 3
    MaxFaults = 1
SYMMETRY Names
INVARIANTS
    ReleasedIsVerified
    QuarantineHolds
    DeathAloneRecovers
CHECK_DEADLOCK FALSE

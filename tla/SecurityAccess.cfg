SPECIFICATION FairSpec
CONSTANTS
    MaxLevel = 2
    MAX_ATTEMPTS = 3
    LOCKOUT = 2
INVARIANTS
    TypeOK
    LockoutMeansLocked
    SeedSpentOnce
    GuessRate
PROPERTIES
    LockoutEnds

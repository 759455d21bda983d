SPECIFICATION FairSpec
CONSTANTS
    Threads = {t1, t2}
    None = None
    INTERVAL = 2
INVARIANTS
    TypeOK
    NoKeySentTwice
    SeedSurvivesIdleDrop
PROPERTIES
    ReconnectsApart
    Reconnects

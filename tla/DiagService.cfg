SPECIFICATION TalkingSpec
CONSTANTS
    Testers <- MCTesters
    S3_DEFAULT = 1
    MaxLevel = 2
    MAX_ATTEMPTS = 2
    LOCKOUT = 1
    WireTesters = {w1}
    Nobody = Nobody
INVARIANTS
    TypeOK
    NothingSurvivesShutdown
PROPERTIES
    RoutinesNeedAcceptedKey
    CertificateWorkInSession
    UnavailableCostsNothing
    SilentSessionEnds

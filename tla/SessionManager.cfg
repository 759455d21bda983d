SPECIFICATION FairSpec
CONSTANTS
    Testers <- MCTesters
    S3_DEFAULT = 2
INVARIANTS
    TypeOK
    TimerFollowsHolder
PROPERTIES
    LeaseExclusion
    NoPrematureExpiry
    ImplementsLease

SPECIFICATION ProgramsSpec
CONSTANTS
    Testers <- MCTesters
    S3_DEFAULT = 1
    MaxLevel = 2
    MAX_ATTEMPTS = 1
    LOCKOUT = 1
    WireTesters = {w1}
    Nobody = Nobody
    Frames <- MCFrames
    Arguments <- MCArguments
INVARIANT RequestIsItsFrame
PROPERTIES
    AnswerNamesItsRequest
    CleanWriteSucceeds
    CertificateCommandsRefused

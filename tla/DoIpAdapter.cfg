SPECIFICATION FairSpec
CONSTANTS
    Peers = {p1, p2}
    NoAddress = NoAddress
    Kinds <- AllKinds
    MaxDials = 2
    MaxFrames = 4
INVARIANTS
    NoUseAfterClose
    ServedAfterActivation
PROPERTIES
    AnswerGoesToAsker
    ImplementsChannel
    WaitingTesterAccepted

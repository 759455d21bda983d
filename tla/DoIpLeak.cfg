SPECIFICATION Spec
CONSTANTS
    Peers = {p1, p2}
    NoAddress = NoAddress
    Kinds <- ProperKinds
    MaxDials = 2
    MaxFrames = 2
INVARIANT NoSocketLeftOpen

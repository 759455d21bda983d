SPECIFICATION FairSpec
CONSTANTS
    Processes = {daemon, cli}
    vin1 = vin1
    vin2 = vin2
    Vins <- MCVins
    Empty = Empty
    Writes <- MCWrites
    INTERVAL = 1
INVARIANTS
    TypeOK
    WrittenWhenPositive
    UnavailableWroteNothing
    VinIsNeverUnprovisioned
PROPERTY WriteGetsThrough

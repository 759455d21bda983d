SPECIFICATION FairClientSpec
CONSTANTS
    Clients = {c1, c2, c3}
    Callers = {k1}
    Main = Main
    None = None
INVARIANT
    DispatcherOutlivesHandlers
PROPERTIES
    StatusIsOneMoment
    ShutdownCompletes
    QueriesReturn
    OneLossIsHidden

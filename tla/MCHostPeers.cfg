SPECIFICATION MCFairSpec
CONSTANTS
    Devices = {d1}
    Conns = {c1, c2}
    Streams = {control, terminal}
    NoConn = noconn
    Nobody = nobody
    MaxInFlight = 1
    MaxBusy = 2
INVARIANTS
    ReportedHasConnection
PROPERTIES
    CloseKeepsRebound
    SettlesOnCurrent
    GoneIsReported

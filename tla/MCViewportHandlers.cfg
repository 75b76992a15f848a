SPECIFICATION FairHandlers
CONSTANTS
    Desktop = desktop
    Devices = {d1, d2}
    TTL = 1
    Nobody = nobody
    Tasks = {t1, t2}
    Idle = idle
INVARIANT WritersDrove
PROPERTIES
    OwnerOnRequest
    TakeoverEndsByForce
    GoneDeviceLosesTerminal

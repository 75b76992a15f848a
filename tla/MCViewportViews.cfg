SPECIFICATION MCFairSpec
CONSTANTS
    Desktop = desktop
    Devices = {d1, d2}
    Grids = {1}
    MinGrid = 2
    TTL = 1
    Names = {phone}
    NoName = noname
    Nobody = nobody
    MaxGeneration = 2
    MaxSent = 2
INVARIANTS
    OneDriver
PROPERTIES
    GenerationFences
    TakeoverHolds
    HeldUntilLapse
    NonOwnerConverges

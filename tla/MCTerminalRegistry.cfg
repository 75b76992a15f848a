SPECIFICATION FairSpec
CONSTANTS
    Callers = {c1, c2}
    Shapes = {a, b}
    NoShape = noshape
    MaxSessions = 2
INVARIANTS
    GrantIsAlive
    NoOrphan
    AgreeAtRest
PROPERTY UnlistedEnds

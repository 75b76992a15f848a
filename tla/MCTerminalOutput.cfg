SPECIFICATION Spec
CONSTANTS
    MaxChars = 3
    Window = 2
    Cache = 3
    MaxHeld = 2
    MaxRequests = 2
    MaxLosses = 1
CHECK_DEADLOCK FALSE
INVARIANTS
    Ordered
    
PROPERTY
    NeverBack

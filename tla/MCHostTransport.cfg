SPECIFICATION FairTransport
CONSTANT MaxGeneration = 3
INVARIANTS
    SlotAlive
    ConnectingHasTask
    QuietHostIsTrue
PROPERTY ConnectingSettles
CHECK_DEADLOCK FALSE

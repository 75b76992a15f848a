SPECIFICATION EnqueueFairSpec
CONSTANTS
    Tasks = {1, 2}
    Workers = {w1, w2}
    NoTask = 0
    Scans = {s1}
    Threshold = 1
INVARIANTS
    RunningHasWorker
    SeenIsExtracted
PROPERTIES
    SettledStaysSettled
    TaskSettles

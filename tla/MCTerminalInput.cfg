SPECIFICATION FairSpec
CONSTANTS
    MaxInputs = 2
    MaxAttempts = 3
    Interrupts = {2}
    MaxLosses = 2
INVARIANTS
    InterruptsOnce
PROPERTIES
    SurvivesLosses
    InputSettles

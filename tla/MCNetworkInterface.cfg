SPECIFICATION LiveSpec
CONSTANTS
    Blocks = {b1, b2, b3}
    MaxChallenge = 3
    Faults <- MCFaults
INVARIANTS
    TypeOK
    OnePending
    RefusedOnlyIfOverlapped
PROPERTIES
    EveryBlockIsTaken
CHECK_DEADLOCK FALSE

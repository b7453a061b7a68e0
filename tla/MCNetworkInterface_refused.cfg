SPECIFICATION Spec
CONSTANTS
    Blocks = {b1, b2, b3}
    MaxChallenge = 3
    Faults <- MCNoFaults
INVARIANT
    SolutionsReachTheContract
CHECK_DEADLOCK FALSE

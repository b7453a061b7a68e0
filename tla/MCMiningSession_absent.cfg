SPECIFICATION Spec
CONSTANTS
    MiningStyle = "pool"
    MaxChallenge = 3
    Targets <- MCTargets
    Nonces <- MCNonces
    Faults <- MCRejectOrAbsent
    Keccak <- MCKeccak
    None = None
INVARIANT
    AssertionsHold
CHECK_DEADLOCK FALSE

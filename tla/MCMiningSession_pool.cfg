SPECIFICATION PoolSpec
CONSTANTS
    MiningStyle = "pool"
    MaxChallenge = 2
    Targets <- MCTargets
    Nonces <- MCNonces
    Faults <- MCRejectOrAbsent
    Keccak <- MCKeccak
    None = None
PROPERTIES
    UndisturbedRunsAreHandedOver
    PoolKeepsMining

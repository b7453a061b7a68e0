SPECIFICATION Spec
CONSTANTS
    MiningStyle = "solo"
    MaxChallenge = 3
    Targets <- MCTargets
    Nonces <- MCNonces
    Faults <- MCNoFaults
    Keccak <- MCKeccak
    None = None
PROPERTY
    HandsOverWhatItFinds

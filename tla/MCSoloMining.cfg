SPECIFICATION SoloSpec
CONSTANTS
    MiningStyle = "solo"
    MaxChallenge = 3
    Targets <- MCTargets
    Nonces <- MCNonces
    Faults <- MCReject
    NetworkFaults <- MCNetworkFaults
    Keccak <- MCKeccak
    None = None
INVARIANTS
    SoloTypeOK
    SolversFollowSession
    RestsOnlyWhenSolved
    OneBlockPerChallenge
    RestsWhileOnTheWay
PROPERTIES
    RunsDoNotOverlap
    SoloMinesEachChallengeOnce

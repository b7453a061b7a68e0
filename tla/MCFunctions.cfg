CONSTANTS
    IntMax = 32767
    Precision = 3
    MaxExp = 12
    MinExp = 8
    SubExp = 10
    Indent = 2
    SizeMax = 15
    Rate = 4
    NumBytes = 2
    Digests <- MCDigests
SPECIFICATION FunctionsSpec
INVARIANTS
    TextsAreJson
    BytesAreSound
    KeccakIsFips202
    DigestsAreTheStandards
    Sha256IsFips180
    WordsKeepTheirValue
CHECK_DEADLOCK FALSE

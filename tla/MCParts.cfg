SPECIFICATION PartsSpec
CONSTANTS
    Limit = 1
    Absent = Absent
    Null = Null
    WritesFail = TRUE
    Shares = {s1, s2}
    MaxStops = 2
    Modulus = 3
    MaxHashes = 8
    Size = 3
    Targets = {0, 3}
    Nonces = {1, 2, 3}
    Top = 5
    Intensity = 2
    Block = 2
    Qualities <- MCQualities
    Keys = {"a", "b", "c"}
    Values = {1, 2}
    Hash <- MCHash
    Primes <- MCPrimes
    List = "list"
    NoIter = "none"
    MaxSerial = 4
INVARIANTS
    PartsTypeOK
    LogsAreSound
    StackHoldsTheQueued
    CountsAreExact
    ScansAreSound
    ValuesAreSound
PROPERTIES
    LinesStayOnDisk
    EveryShareIsSent
    ScanReturns
    TableIsAnObject
    DeepCopiesAreEqual
CHECK_DEADLOCK FALSE

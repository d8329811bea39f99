CONSTANTS
    NumCores = 3
    Policy = "ShortestOpsFirst"
    TaskIds <- MCTaskIds
    Addresses <- MCAddresses
    Workloads <- Unrestricted
    MemLatencies = {0, 2}
SPECIFICATION MeasuredSpec
INVARIANTS
    TypeOK
    CoreProtocol
    NoException
    WorkConserving
    NoPastEvent
    ActiveOnlyWhenSatisfied
    MakespanBounds
    AveragesExact
    ReadyTimesAgree
PROPERTIES
    TimeMonotone
    IdleCoresTakeTurns
    Terminates
    ShortestThenOldest

CONSTANTS
    NumCores = 2
    Policy = "FIFO"
    TaskIds <- MCTaskIds
    Addresses <- MCAddresses
    Workloads <- SingleRoot
    MemLatencies = {1, 2}
SPECIFICATION MeasuredSpec
INVARIANTS
    ScheduledOnce
    DependencyOrder
    InDegreeCountsUnsatisfied
    RequestMatchesOp
    NoCoreLost
PROPERTIES
    ImplementsTaskExecution
    FifoByReadyTime

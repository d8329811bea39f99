CONSTANTS
    NumCores = 2
    Policy = "FIFO"
    TaskIds <- MCTaskIds
    Addresses <- MCAddresses
    Workloads <- JustNoOps
    MemLatencies = {1}
SPECIFICATION MeasuredSpec
INVARIANT
    AllExecuted

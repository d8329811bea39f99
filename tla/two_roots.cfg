CONSTANTS
    NumCores = 1
    Policy = "FIFO"
    TaskIds <- MCTaskIds
    Addresses <- MCAddresses
    Workloads <- JustTwoRoots
    MemLatencies = {1}
SPECIFICATION MeasuredSpec
INVARIANT
    ScheduledOnce

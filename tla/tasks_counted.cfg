CONSTANTS
    NumCores = 2
    Policy = "FIFO"
    TaskIds <- MCTaskIds
    Addresses <- MCAddresses
    Workloads <- JustFanOut
    MemLatencies = {1, 3}
SPECIFICATION MeasuredSpec
INVARIANT
    TasksCounted

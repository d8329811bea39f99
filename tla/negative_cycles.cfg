CONSTANTS
    NumCores = 2
    Policy = "FIFO"
    TaskIds <- MCTaskIds
    Addresses <- MCAddresses
    Workloads <- JustBackwards
    MemLatencies = {1}
SPECIFICATION MeasuredSpec
PROPERTY
    TimeAdvances

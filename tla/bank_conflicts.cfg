CONSTANTS
    NumCores = 2
    Policy = "FIFO"
    TaskIds <- MCTaskIds
    Addresses <- MCAddresses
    AddressBits = 20
    Workloads <- Workloads1
    Configs <- JustHashed
    MemLatencies = {5}
SPECIFICATION AskedSpec
INVARIANT
    OneAtATime

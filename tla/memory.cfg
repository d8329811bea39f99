CONSTANTS
    NumCores = 2
    Policy = "RoundRobin"
    TaskIds <- MCTaskIds
    Addresses <- MCAddresses
    AddressBits = 20
    Workloads <- Workloads1
    Configs <- MCConfigs
    MemLatencies = {1, 5, 8}
SPECIFICATION AskedSpec
INVARIANTS
    LruExact
    BanksPartitionLink
    DTCMShieldsMemory
PROPERTY
    ImplementsSimulator

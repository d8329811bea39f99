CONSTANTS
    AddressBits = 20
    Configs <- MCConfigs
    DeviceCores = {0}
    Addresses <- MCAddresses
    MaxRequests = 3
    MaxRefusals = 1
    Times = {0, 1, 3, 13}
CHECK_DEADLOCK FALSE
SPECIFICATION Spec
INVARIANTS
    FirstComeFirstServed
    CountersAddUp
    WithinCapacity
    EndInOrder
    NeverBeforeAnswered

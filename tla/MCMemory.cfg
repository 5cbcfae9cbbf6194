SPECIFICATION MemorySpec
CONSTANTS
    Content = {x}
    Client = {m1}
    Replayer = {r1}
    Batch = 1
    MaxRequests = 3
    MaxMem = 2
    MaxLedger = 1
    MaxFaults = 0
CHECK_DEADLOCK FALSE
PROPERTIES
    UpdateCarriesLifecycle

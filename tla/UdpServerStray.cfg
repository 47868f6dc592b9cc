SPECIFICATION Spec
CONSTANTS
    HostA = HostA
    HostB = HostB
    Addresses = {HostA, HostB}
    NumEndpoints = 2
    AddressOf <- SameHost
    SendersOf <- BothHosts
    OnOff = FALSE
    OtherSizes = FALSE
    MaxBurst = 1
    MaxRx = 2
    MaxQueue = 3
INVARIANTS AssertsHold

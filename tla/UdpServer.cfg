SPECIFICATION FairSpec
CONSTANTS
    HostA = HostA
    HostB = HostB
    Addresses = {HostA, HostB}
    NumEndpoints = 2
    AddressOf <- SameHost
    SendersOf <- OwnHost
    OnOff = TRUE
    OtherSizes = TRUE
    MaxBurst = 1
    MaxRx = 2
    MaxQueue = 3
INVARIANTS TypeOK NoUseAfterDelete SendAlive CountMatches
PROPERTIES OnlyOthersDeafen MarkedFreed

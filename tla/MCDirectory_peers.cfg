CONSTANTS
    a1 = a1  a2 = a2
    Agents = {a1, a2}
    Keys = {10, 12}
    HashSize = 2
    Hash <- MCHash
    Ip <- MCIp
    Ports = {4200, 4201}
    First = 1
    Period = 5
    SweepPeriod = 5
    NodeTimeout = 15
    MaxDelay = 1
    MaxLost = 1
    MaxCrashes = 1
    Room = 1
    NoDatum = NoDatum
    Idle = Idle
SPECIFICATION Spec
INVARIANTS TypeOK LiveIsListed SilentIsDropped TableIsMap 
PROPERTY ImplementsPeerMap

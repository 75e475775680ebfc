CONSTANTS
    nA = nA  nB = nB  nC = nC  j3 = j3  j4 = j4  f1 = f1  f2 = f2
    Nodes = {nA, nB, nC}
    Jobs = {j3, j4}
    NTypes = 3
    Capacity <- MCCapacity
    Fds = {f1, f2}
    Plans <- MCPlans
    Together = 1
    MaxQueue = 3
    NoJob = NoJob
    NoFd = NoFd
    Unknown = Unknown
SPECIFICATION FairSpec

PROPERTY TimedOutJobRuns
CHECK_DEADLOCK FALSE

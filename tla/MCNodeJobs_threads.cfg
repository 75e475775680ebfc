SPECIFICATION MCSpec
CONSTANTS
  MaxId = 3
  Resources = 2
  Workers = {w1, w2}
  MaxBatch = 2
  Fds = {f1, f2, f3, f4}
  Ptrs = {1, 2, 3}
  Heartbeat = {}
  MaxBacklog = 2
  Prompt = {1001, 1002}
  Timeouts = {}
  Faults = FALSE
  Abrupt = FALSE
  NReq <- MCNReqZero
  NoFd = NoFd
  NoPtr = NoPtr
SYMMETRY Symmetry
INVARIANTS NoDangling  RequestIsSent OneWorkerPerConnection
PROPERTY ImplementsLifecycle

SPECIFICATION MCSpec
CONSTANTS
  MaxId = 2
  Resources = 2
  Workers = {w1}
  MaxBatch = 1
  Fds = {f1, f2, f3}
  Ptrs = {1, 2, 3}
  Heartbeat = {1001}
  MaxBacklog = 1
  Prompt = {1001, 1002}
  Timeouts = {1002}
  Faults = TRUE
  Abrupt = FALSE
  NReq <- MCNReq
  NoFd = NoFd
  NoPtr = NoPtr
SYMMETRY Symmetry
INVARIANTS NTypeOK IndexIsCurrent NoLeakedConnection 
PROPERTY ImplementsLifecycle

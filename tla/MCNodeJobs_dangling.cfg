SPECIFICATION MCSpec
CONSTANTS
  MaxId = 1
  Resources = 1
  Workers = {w1, w2}
  MaxBatch = 1
  Fds = {f1, f2}
  Ptrs = {1, 2, 3}
  Heartbeat = {}
  MaxBacklog = 2
  Prompt = {1001}
  Timeouts = {1001}
  Faults = FALSE
  Abrupt = FALSE
  NReq <- MCNReq
  NoFd = NoFd
  NoPtr = NoPtr
SYMMETRY Symmetry
INVARIANT NoDangling

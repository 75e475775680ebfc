SPECIFICATION MCSpec
CONSTANTS
  MaxId = 2
  Heartbeat = {1001, 1002}
  MaxBacklog = 2
  Prompt = {1001, 1002}
  Timeouts = {1001, 1002}
  MayDie = FALSE
  NReq <- MCNReq
INVARIANT CoordinatorUp

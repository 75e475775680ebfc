SPECIFICATION MCFairSpec
CONSTANTS
  MaxId = 3
  Heartbeat = {1001}
  MaxBacklog = 2
  Prompt = {1001}
  Timeouts = {1002, 1003}
  MayDie = TRUE
  NReq <- MCNReq
INVARIANTS LTypeOK CoordinatorUp   
 

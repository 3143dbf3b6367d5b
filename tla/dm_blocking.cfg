CONSTANTS
  w1 = w1
  r1 = r1
  r2 = r2
  Threads <- Trio
  NumNodes = 2
  NodeOf <- TrioNodeOf
  OpsOf <- BlockingOps
  NativeWait = TRUE
  MaxCalls <- OneCall
SPECIFICATION FairSpec
PROPERTY EveryCallReturns
CHECK_DEADLOCK FALSE

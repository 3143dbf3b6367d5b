CONSTANTS
  w1 = w1
  r1 = r1
  r2 = r2
  Threads <- Trio
  NumNodes = 2
  NodeOf <- TrioNodeOf
  OpsOf <- TrioOps
  NativeWait = FALSE
  MaxCalls <- TrioCalls
SPECIFICATION Spec
INVARIANT ExclusionInvariant
PROPERTY ImplementsRWLock
CHECK_DEADLOCK FALSE

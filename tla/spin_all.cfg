CONSTANTS
  Threads = {w1, w2, r1, r2}
  Lockers = {w1, w2}
  TryLockers = {w2}
  SharedLockers = {r1, r2}
  TrySharedLockers = {r1}
  ModeSetters = {w2}
  NativeWait = TRUE
  MaxCalls = 1
SPECIFICATION Spec
INVARIANT StrandedOnlyBySlip
PROPERTY ImplementsRWLock
CHECK_DEADLOCK FALSE

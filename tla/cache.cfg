SPECIFICATION Spec
CONSTANTS
  k1 = k1
  k2 = k2
  k3 = k3
  v1 = v1
  v2 = v2
  Keys = {k1, k2, k3}
  Values = {v1, v2}
  NoValue = NoValue
  Shards = {1, 2}
  ShardOf <- MCShardOf
  Threads = {t1, t2}
  NoThread = NoThread
  CasRetries = 2
  MaxReclaimTries = 2
  MaxPending = 1
  Menus <- MCMenus
SYMMETRY Sym
INVARIANTS CacheBooks ShardExclusive CriticalReported
PROPERTIES GrowthWithinQuota WrittenByHolder

SPECIFICATION MCSpec
VIEW MCView
CONSTANTS
  k1 = k1
  k2 = k2
  k3 = k3
  NoItem = NoItem
  Keys <- MCKeys
  TtlKeys <- MCTtlKeys
  Predicates = {{}}
  ValueSizes = {1}
  SizeCaps = {2}
  MemoryCaps = {9}
  SearchTries = 2
  MaxHandles = 1
  SketchMax = 1
INVARIANT BooksAgree
PROPERTIES ImplementsContract WithinBudget EvictionOrder ItemsStay SegmentsHold

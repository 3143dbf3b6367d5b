SPECIFICATION Spec
CONSTANTS
  Items = {i1, i2}
  Handles = {h1, h2}
  MaxRef = 2
  MaxPending = 0
  WriterOps = {"insert", "expire"}
INVARIANT PinnedIsLive

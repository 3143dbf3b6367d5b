CONSTANTS
  Threads = {t1, t2, t3}
  Objects = {1, 2}
  Fields = 2
  MaxSections = 2
SPECIFICATION Spec
SYMMETRY Symmetric
INVARIANT SeqlockInvariant
INVARIANT SomeWriterRuns

SPECIFICATION Spec
CONSTANTS
  t1 = t1
  Threads = {t1}
  SourcesOf <- IntSources
  IntBits = 4
  WordBits = 8
INVARIANTS WiredOr
PROPERTIES EdgesOnly

CONSTANTS
  NumObj = 3
  NumRoot = 1
  Finalizable = {2, 3}
  NoRefs = {}
  WeakHolders = {}
  TransientObj = {1, 2, 3}
  MaxNested = 1
  WriteMayFail = FALSE
SPECIFICATION Spec
VIEW ListView
INVARIANTS
  OneQueue

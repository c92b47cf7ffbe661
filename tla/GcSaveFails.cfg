CONSTANTS
  NumObj = 3
  NumRoot = 1
  Finalizable = {}
  NoRefs = {}
  WeakHolders = {}
  TransientObj = {1, 2, 3}
  MaxNested = 0
  WriteMayFail = TRUE
SPECIFICATION Spec
VIEW ListView
INVARIANTS
  NoDanglingRef

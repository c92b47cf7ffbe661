CONSTANTS
  NumObj = 3
  NumRoot = 1
  Finalizable = {2, 3}
  NoRefs = {2}
  WeakHolders = {3}
  TransientObj = {1, 2}
  MaxNested = 0
  WriteMayFail = FALSE
SPECIFICATION FairSpec
VIEW ListView
INVARIANTS
  TypeOK
  FreeListOK
  NoDanglingRef
  WeakRefsValid
  OneQueue
  ReadyForPass
  PassCollects
PROPERTIES
  FinalizedOnceThenDeleted
  PassEnds

CONSTANTS
  root = root
  a = a
  b = b
  p1 = p1
  p2 = p2
  p3 = p3
  Obj = {root}
  RootObj = {root}
  TransientObj = {}
  Prop = {p2, p3}
  ImageVal <- MCImageVal
  RecArrSize = 5
  MaxSavepts = 2
  SaveptMax = 1
SPECIFICATION FairSpec
VIEW LiveView
INVARIANTS
  WalkAssertionsHold
PROPERTIES
  UndoTerminates
  ImplementsSnapshotStack

CONSTANTS
  root = root
  a = a
  b = b
  p1 = p1
  p2 = p2
  p3 = p3
  Obj = {root, a}
  RootObj = {root}
  TransientObj = {}
  Prop = {p1}
  ImageVal <- MCImageVal
  RecArrSize = 4
  MaxSavepts = 2
  SaveptMax = 1
SPECIFICATION Spec
VIEW LiveView
INVARIANTS
  TypeOK
  ChainMatchesSlots
  UndoRestores
  NoDanglingRef

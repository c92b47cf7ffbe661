CONSTANTS
  MaxId = 6
  RootKind <- MCRootKind
  TransientRoot = {}
  ImageRef <- MCImageRef
  NewKinds = {"tads"}
  SaveAnytime = FALSE
  MaxDynamic = 2
  MaxWork = 4
  MaxSaves = 1
  MaxLoads = 2
SPECIFICATION Spec
VIEW LoadView
CHECK_DEADLOCK FALSE
INVARIANTS
  TypeOK
  RestoredGame
  FileReadable
  NoDanglingRef
  ComparatorReady
  InitOnce

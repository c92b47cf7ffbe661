CONSTANTS
  MaxId = 5
  RootKind <- MCRootKind
  TransientRoot = {}
  ImageRef <- MCImageRef
  NewKinds = {"tads"}
  SaveAnytime = TRUE
  MaxDynamic = 2
  MaxWork = 4
  MaxSaves = 1
  MaxLoads = 1
SPECIFICATION Spec
VIEW LoadView
CHECK_DEADLOCK FALSE
INVARIANTS
  FileReadable

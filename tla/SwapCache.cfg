CONSTANTS
  o1 = o1
  o2 = o2
  o3 = o3
  Free = Free
  End = End
  Junk = Junk
  Object = {o1, o2, o3}
  Static = {o1}
  Size <- MCSize
  NewSize <- MCNewSize
  Hdr = 1
  Split = 2
  Chunk = 6
  FirstChunk = 2
  Chunks = 1
  Quota = 2
  MaxLock <- MCMaxLock
  Versions <- MCVersions
  FreeAbsent = FALSE
SPECIFICATION Spec
VIEW CodeView
INVARIANTS
  TypeOK
  ContentsKept
  SwapFileOK
  LruFindsUnlocked
PROPERTIES
  LockedStaysPut
  NoMemoryWhenFull

CONSTANTS
  msg = msg
  quit = quit
  t1 = t1
  t2 = t2
  s1 = s1
  Idle = Idle
  NoThread = NoThread
  Event = {msg, quit}
  ManualReset = {quit}
  Waiter = {t1, t2}
  Signaler = {s1}
  WaitList <- MCWaitList
  WaitOne = {msg}
  Interrupted = {t2}
  MaxCount <- MCMaxCount
  MaxGroup = 1
SPECIFICATION FairSpec
INVARIANTS
  TypeOK
  NoLostSignal
  EnoughWakeups
  GroupEventAlive
PROPERTIES
  ImplementsEvents
  WaitEnds

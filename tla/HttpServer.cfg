CONSTANTS
  c1 = c1
  c2 = c2
  Conn = {c1, c2}
  MaxReq <- MCMaxReq
  Ways <- MCWays
  MaxBackground = 1
  NoReq = NoReq
  NoConn = NoConn
SPECIFICATION FairSpec
VIEW LiveView
CHECK_DEADLOCK FALSE
INVARIANTS
  TypeOK
  RefsExact
  EventCountsMessages
  ReplyInTurn
PROPERTIES
  EveryoneWakes

CHECK_DEADLOCK FALSE
SPECIFICATION FairSpec
CONSTANTS
  BUF_LEN = 2
  NoKey = NoKey
  Idle = Idle
  Keys <- OneKey
  FirstKey <- First
  Deferred <- TimerOnly
  Readers <- OneReader
  Calls <- OnlyRead
  MaxEdges = 3
  MaxStops = 0
PROPERTIES
  BlockedReaderIsServed

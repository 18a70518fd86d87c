CHECK_DEADLOCK FALSE
SPECIFICATION Spec
CONSTANTS
  BUF_LEN = 2
  NoKey = NoKey
  Idle = Idle
  Keys <- TwoKeys
  FirstKey <- First
  Deferred <- TimerOnly
  Readers <- OneReader
  Calls <- OnlyRead
  MaxEdges = 2
  MaxStops = 0
INVARIANTS
  WordNamesItsKey

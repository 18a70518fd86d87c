CHECK_DEADLOCK FALSE
SPECIFICATION Spec
CONSTANTS
  BUF_LEN = 2
  NoKey = NoKey
  Idle = Idle
  Keys <- OneKey
  FirstKey <- First
  Deferred <- TimerOnly
  Readers <- OneReader
  Calls <- OnlyRead
  MaxEdges = 2
  MaxStops = 1
INVARIANTS
  FourCarriesKey

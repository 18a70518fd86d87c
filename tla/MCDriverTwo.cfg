CHECK_DEADLOCK FALSE
SPECIFICATION Spec
CONSTANTS
  BUF_LEN = 3
  NoKey = NoKey
  Idle = Idle
  Keys <- OneKey
  FirstKey <- First
  Deferred <- TimerOnly
  Readers <- TwoReaders
  Calls <- OnlyRead
  MaxEdges = 2
  MaxStops = 0
INVARIANTS
  NothingInvented

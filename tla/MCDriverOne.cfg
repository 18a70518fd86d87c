CHECK_DEADLOCK FALSE
SPECIFICATION Spec
CONSTANTS
  BUF_LEN = 3
  NoKey = NoKey
  Idle = Idle
  Keys <- OneKey
  FirstKey <- First
  Deferred <- SinceStage08
  Readers <- OneReader
  Calls <- AllCalls
  MaxEdges = 3
  MaxStops = 0
INVARIANTS
  TypeOK
  KeysComeInOrder
  NothingLostBeforeLap
  NoLostWakeup
  OneReaderOwnsReadIndex
PROPERTIES
  StuckForever

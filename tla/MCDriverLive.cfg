CHECK_DEADLOCK FALSE
SPECIFICATION FairSpec
CONSTANTS
  BUF_LEN = 2
  NoKey = NoKey
  Idle = Idle
  Keys <- OneKey
  FirstKey <- First
  Deferred <- Stage07
  Readers <- OneReader
  Calls <- AllCalls
  MaxEdges = 2
  MaxStops = 1
INVARIANTS
  NoEdgeForgotten
PROPERTIES
  HandlersCatchUp
  ReportWakesSleepers
  SigioIsTaken

CHECK_DEADLOCK FALSE
SPECIFICATION Spec
CONSTANTS
  RunStages <- AllStages
  GpiosOf <- BothGpios
  BUF_LEN = 3
  Half = 4
  MaxEdges = 5
  EdgesOf <- SafetyEdges
  MaxStops = 1
  NonblockReads = 1
INVARIANTS
  TypeOK
  SleepIsJustified
  NoEdgeForgotten
  StrayNeedsOverflow
  RepeatsOnlyAfterRound
  NextKeyUnlessInterrupted
  NewestKeyKept
  PollKeepsItsWord
  BehindByCoalescedSignals

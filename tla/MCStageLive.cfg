CHECK_DEADLOCK FALSE
SPECIFICATION FairSpec
CONSTANTS
  RunStages <- AllStages
  GpiosOf <- NotZero
  BUF_LEN = 4
  Half = 8
  MaxEdges = 2
  EdgesOf <- LiveEdges
  MaxStops = 0
  NonblockReads = 1
PROPERTY
  PressIsServed

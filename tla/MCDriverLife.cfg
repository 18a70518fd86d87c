CHECK_DEADLOCK FALSE
SPECIFICATION Spec
CONSTANTS
  Drivers <- AllDrivers
  NKeys = 2
  NLeds = 2
  MaxLoads = 2
  MaxBinds <- TwoToFour
  CAP = 3
  NonblockReads = 0
INVARIANTS
  TypeOK
  OopsNeedsUnchecked
  NothingElseOutlives
  CallsFindTheirs
  HandlersReadLive
  SlotsNameBoundDevices

CHECK_DEADLOCK FALSE
SPECIFICATION Spec
CONSTANTS
  Devices <- AllDevices
  Procs <- TwoProcs
  MaxRuns = 2
INVARIANTS
  TypeOK
  LedsShowTheLastWrite
  OpenPinsStayConfigured
  NullOnlyWhileMapping
  ReadReturnsOneWrite

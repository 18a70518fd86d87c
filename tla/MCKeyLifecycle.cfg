CHECK_DEADLOCK FALSE
SPECIFICATION FairSpec
CONSTANTS
  NKeys = 2
  MaxProbes = 2
INVARIANTS
  TypeOK
  OnlyWorkOutlives
  LineOwnerLives
PROPERTIES
  RemoveFinishes

SPECIFICATION Spec
CONSTANTS
  BUF_LEN = 4
  NoKey = NoKey
  Zero = Zero
  k1 = k1
  k2 = k2
  Key <- MCKey
INVARIANTS
  TypeOK
  WaitingAreKeys
PROPERTIES
  DeafForever
  ImplementsFifo

SPECIFICATION Spec
CONSTANTS
  a1 = a1
  p1 = p1
  Active <- MC_Active
  Passive <- MC_Passive
  Descriptors <- MC_Descriptors
  MaxUnclosed = 1
  MaxEvents = 2
INVARIANTS
  TypeOK
  Owned
  BlockingAsTold
  ConnectedWhenOpened
  
  AcceptedInOrder
PROPERTIES
  CallsReturn

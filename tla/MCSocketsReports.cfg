SPECIFICATION Spec
CONSTANTS
  a1 = a1
  p1 = p1
  Active <- MC_Active
  Passive <- MC_Passive
  Descriptors <- MC_Descriptors
  MaxUnclosed = 0
  MaxEvents = 1
INVARIANTS
  ReportsAsDocumented

CONSTANTS
  TeamSizes = {1, 2}
  MaxContexts = 3
  MaxAhead = 1
  MayFail = TRUE
SPECIFICATION FairSpec
INVARIANTS
  TypeOK
  NeverBothWaiting
  PlayedToTheEnd
PROPERTIES
  ImplementsGame
  EndsWhenClosed
  EveryContextAnswered

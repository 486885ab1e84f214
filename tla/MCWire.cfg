CONSTANTS
  Null = Null
  TeamSizes = {3}
  Games <- MCGames
  Contexts <- MCContexts
  MoveLists <- MCMoveLists
  MaxMessages = 3
  MaxAhead = 2
SPECIFICATION Spec
INVARIANTS
  TypeOK
  ReceivedAsSent
  MovesAsSent
  Framed
  OnlyComplete
  NeverStarved

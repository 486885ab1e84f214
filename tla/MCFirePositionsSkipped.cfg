SPECIFICATION Spec
CONSTANTS
  Left = 2
  Right = 26
  Top = 2
  Bottom = 26
  NetDepth = 4
  NetHeight = 12
  Radius = 2
  PuckRadius = 1
  StickLength = 8
  StickSlope <- const_StickSlope
  EnemyPenalty = 12
  BetweenPenalty = 11
  StickPenalty = 4
  QuarterPenalty = 3
  Undecided = 1
  SubstitutionHeight = 5
  Drifts <- const_Drifts
  Hockeyists <- const_Hockeyists
  Enemies <- const_Enemies
  Goalies <- const_Goalies
INVARIANTS SkippedAreSecured

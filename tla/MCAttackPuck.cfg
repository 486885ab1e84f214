SPECIFICATION Spec
CONSTANTS
  StickSlope <- const_StickSlope
  Radius = 8
  StickLength = 32
  PuckReach = 12
  SafeSlope <- const_SafeSlope
  AimSlope <- const_AimSlope
  Selves <- const_Selves
  Mates <- const_Mates
  Foes <- const_Foes
INVARIANTS
  TypeOK
PROPERTIES
  SwingIsEnded

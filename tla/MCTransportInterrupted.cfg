CONSTANTS
  MaxOut = 4
  MaxIn = 4
  MaxRequest = 3
  StreamSize = 2
  MayInterrupt = TRUE
SPECIFICATION Spec
PROPERTY
  MovedIsCounted

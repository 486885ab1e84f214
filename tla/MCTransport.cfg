CONSTANTS
  MaxOut = 5
  MaxIn = 5
  MaxRequest = 3
  StreamSize = 2
  MayInterrupt = TRUE
SPECIFICATION FairSpec
INVARIANTS
  TypeOK
  SentOnce
  ReceivedOnce
  BufferFits
PROPERTIES
  ImplementsStreams
  TransferEnds

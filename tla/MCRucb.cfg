SPECIFICATION Spec
CONSTANTS
  Files <- FullAndShort
  RUCB_DATASIZE = 2
  MAX_TRANSMISSIONS = 2
  Ids = 4
  Room = 2
  AckRoom = 2
  MaxFiles = 3
INVARIANTS TypeOK UnderWay OnceInOrder SentTrue FileWhole
PROPERTIES Ends
CHECK_DEADLOCK FALSE

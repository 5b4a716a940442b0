SPECIFICATION FairSpec
CONSTANTS
  d1 = d1
  d2 = d2
  k = k
  NONE = NONE
  Packets <- MCPackets
  Acks <- MCAcks
  MaxTx <- MCMaxTx
  Addrs = {a1, a2, a3}
  Blocks = {b1, b2}
  QueuebufNum = 3
  PerNeighbor = 2
  OthersMax = 1
INVARIANTS
  TypeOK
  PoolsBalanced
  NeverStuck
  InOrder
  AnswerTrue
PROPERTY
  Answered

SPECIFICATION Spec
CONSTANTS
  c = c
  s = s
  Ends <- MCEnds
  Client <- c
  Iss <- MCIss
  SeqMod = 16
  Mss = 1
  MaxRtx = 1
  MaxSynRtx = 1
  BufLen = 2
  MaxBytes <- MCMaxBytes
  Cap <- MCCap
  SendWhileBusy = FALSE
  UnlistenLate = FALSE
INVARIANTS TypeOK InFlightKnown ApplicationKnows
PROPERTIES ImplementsStream
CHECK_DEADLOCK FALSE

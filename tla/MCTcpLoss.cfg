SPECIFICATION Spec
CONSTANTS
  c = c
  s = s
  Ends <- MCEnds
  Client <- c
  Iss <- MCIss
  SeqMod = 16
  Mss = 2
  MaxRtx = 1
  MaxSynRtx = 1
  BufLen = 2
  MaxBytes <- MCMaxBytes
  Cap <- MCCap
  SendWhileBusy = TRUE
  UnlistenLate = FALSE
PROPERTIES ImplementsStream
CHECK_DEADLOCK FALSE

SPECIFICATION Spec
CONSTANTS
  a = a
  b = b
  Names = {a, b}
  Values = {v}
  NoFile = NoFile
  Nobody = Nobody
  Sectors = 3
  PagesPerSector = 4
  DynPages = 2
  LogRecords = 2
  Slots = 2
  MaxRegions <- Sizes31
  CrashIn = {}
INVARIANT FilesHold

SPECIFICATION Spec
CONSTANTS
  a = a
  b = b
  Names = {a, b}
  Values = {v, w}
  NoFile = NoFile
  Nobody = Nobody
  Sectors = 4
  PagesPerSector = 2
  DynPages = 2
  LogRecords = 2
  Slots = 2
  MaxRegions <- Sizes31
  CrashIn = {"reserve", "append", "log"}
INVARIANTS TypeOK QuickSkipFindsAll RamTrue FilesHold
SYMMETRY Symmetry

SPECIFICATION BootFairSpec
CONSTANTS
  Slots = {0}
  MsiBase = 4
  NumMsi = 0
  GuestData = {}
  SpiSpan = 8
  WordSpan = 16
  EmuIrqs = {}
  Regions = {}
  NumPins = 1
  NumAvail = 2
  QueueSize = 2
  EarlyDevice = TRUE
  MaxEvents = 3
  NoPhandle = 3
  Configs <- SomeConfigs
  BootEvents <- DevicesAndStart
  TraceRegions <- OneTraceRegion
INVARIANTS BootTypeOK DevicesInTree NoNullDevice DevicesUsePool RamIsNoPool PhandlesDistinct MemoryIsBacked
PROPERTIES GuestStarts

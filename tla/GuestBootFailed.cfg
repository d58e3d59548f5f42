SPECIFICATION BootSpec
CONSTANTS
  Slots = {0}
  MsiBase = 4
  NumMsi = 0
  GuestData = {}
  SpiSpan = 8
  WordSpan = 16
  EmuIrqs = {}
  Regions = {}
  NumPins = 1
  NumAvail = 2
  QueueSize = 2
  EarlyDevice = TRUE
  MaxEvents = 3
  NoPhandle = 3
  Configs <- GeneratedConfigs
  BootEvents <- DevicesAndStart
  TraceRegions <- OneTraceRegion
INVARIANTS StartsConfigured

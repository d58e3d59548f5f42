SPECIFICATION Spec
CONSTANTS
  Slots = {0, 1}
  MsiBase = 4
  NumMsi = 1
  GuestData = {3, 4, 5, 12}
  SpiSpan = 8
  WordSpan = 16
  EmuIrqs = {5}
  Regions = {16}
  NumPins = 1
  NumAvail = 2
  QueueSize = 1
  EarlyDevice = FALSE
  MaxEvents = 5
INVARIANTS TypeOK LinesFollow RegistryFollows DevicesBeforeBoot

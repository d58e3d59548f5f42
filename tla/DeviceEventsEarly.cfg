SPECIFICATION Spec
CONSTANTS
  Slots = {0}
  MsiBase = 4
  NumMsi = 0
  GuestData = {}
  SpiSpan = 8
  WordSpan = 16
  EmuIrqs = {}
  Regions = {}
  NumPins = 1
  NumAvail = 1
  QueueSize = 2
  EarlyDevice = TRUE
  MaxEvents = 3
INVARIANTS DevicesBeforeBoot

SPECIFICATION FairSpec
CONSTANTS
  Vmm = Vmm
  None = None
  NativeThreads = {Vmm}
  VCpus = {0}
  NativeBase = 1
  Slots = {0, 1}
  Buffers = {0, 1}
  QueueSize = 1
INVARIANTS OneOwner ReplyFindsCallback ClientWaits
PROPERTIES FaultsAreAnswered NativeCallsReturn ImplementsService

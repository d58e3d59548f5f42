SPECIFICATION Spec
CONSTANTS
  Vmm = Vmm
  None = None
  NativeThreads = {Vmm}
  VCpus = {0}
  NativeBase = 1
  Slots = {0, 1}
  Buffers = {0, 1, 2}
  QueueSize = 3
INVARIANTS SlotFreeWhenUsed

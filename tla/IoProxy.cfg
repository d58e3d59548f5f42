SPECIFICATION Spec
CONSTANTS
  Vmm = Vmm
  None = None
  NativeThreads = {Vmm}
  VCpus = {0,1}
  NativeBase = 2
  Slots = {0,1,2}
  Buffers = {0,1,2,3}
  QueueSize = 4
INVARIANTS TypeOK OwnReply OneOwner ReplyFindsCallback ResourcesSuffice ClientWaits
VIEW LiveState

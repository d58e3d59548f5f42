CONSTANTS
    p1 = p1  p2 = p2  c1 = c1  c2 = c2
    Producers = {p1, p2}
    Consumers = {c1, c2}
    KernelThreads = {}
    RelaxedThreads = {}
    Size = 4
    HtdMax = 1
    Width = 12
    Start = 9
    MaxOps = 5
SPECIFICATION Spec
SYMMETRY Symmetry
INVARIANTS TypeOK ReadsWhatWasSent ExclusiveSlots WindowOrder LastCommitPublishes DistanceBounded
PROPERTIES NoFalseRefusal ImplementsFifo

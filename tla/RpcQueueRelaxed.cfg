CONSTANTS
    p1 = p1  p2 = p2  c1 = c1  c2 = c2
    Producers = {p1, p2}
    Consumers = {c1}
    KernelThreads = {}
    RelaxedThreads = {p1}
    Size = 2
    HtdMax = 1
    Width = 6
    Start = 5
    MaxOps = 2
SPECIFICATION Spec
INVARIANTS ReadsWhatWasSent

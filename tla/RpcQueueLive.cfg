CONSTANTS
    p1 = p1  p2 = p2  c1 = c1  c2 = c2
    Producers = {p1, p2}
    Consumers = {c1}
    KernelThreads = {}
    RelaxedThreads = {p2}
    Size = 2
    HtdMax = 1
    Width = 8
    Start = 7
    MaxOps = 4
SPECIFICATION FairSpec
PROPERTIES CallsReturn AcceptedIsDelivered

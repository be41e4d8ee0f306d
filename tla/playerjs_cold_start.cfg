SPECIFICATION Spec
CONSTANTS
    Threads = {t1}
    Urls = {u1}
    Chunks = 2
    MemLimit = 3
    MaxFaults = 1
SYMMETRY Symmetry
INVARIANTS ReturnsWholeText

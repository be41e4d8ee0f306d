SPECIFICATION Spec
CONSTANTS
    Threads = {t1, t2}
    Urls = {u1, u2}
    Chunks = 3
    MemLimit = 1
    MaxFaults = 2
SYMMETRY Symmetry
INVARIANTS TypeOK QuiescentFilesComplete TornOnlyByRaceOrFault
PROPERTIES NoNeedlessDownload

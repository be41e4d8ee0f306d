SPECIFICATION Spec
CONSTANTS
    plain = plain
    hidden = hidden
    odd = odd
    Tasks = {t1, t2}
    Scripts <- MCScripts
    Hashes <- MCScripts
    hashCode <- MCHash
    SigFunction <- MCSigFunction
    NFunction <- MCNFunction
    Discovery <- MCDiscovery
    kMemLimits <- MCMemLimits
    MaxText = 6
INVARIANTS TypeOK OwnFunction SentinelHasCause RawTokenHasCause BodyIsWhole
PROPERTIES TasksEnd

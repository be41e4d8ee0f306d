SPECIFICATION Spec
CONSTANTS
    android = android
    web_embedded = web_embedded
    ios = ios
    p1 = p1
    p2 = p2
    Clients = {android, web_embedded, ios}
    Chain <- MCChain
    StsClients = {web_embedded}
    Players = {p1, p2}
    StampedPlayers = {p1}
    FormatLists <- MCFormatLists
INVARIANTS OmitsOnlyFailures KeepsOrder SignatureMatchesPlayer CachedIsPlayable
PROPERTIES CallsEnd

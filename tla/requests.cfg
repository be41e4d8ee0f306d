SPECIFICATION RequestsSpec
CONSTANTS
    ANDROID_VR = ANDROID_VR
    TVHTML5 = TVHTML5
    IOS = IOS
    MWEB = MWEB
    WEB = WEB
    Clients <- MCClients
    Chain <- MCChain
    SessionClients <- MCSessionClients
    Codes <- MCCodes
    retryOnStatusCodes <- MCRetryOn
    maxRetries = 3
INVARIANTS
    RequestsTypeOK ExhaustionVerdict WinnerIsFirst
    LastWordReturned BackoffIsLinear BodiesAreClosed
PROPERTIES Ends

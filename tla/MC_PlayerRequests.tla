-------------------------- MODULE MC_PlayerRequests --------------------------
(* Five clients of the chain and the three retries of HttpClientProvider.kt, *)
(* after two of its four status codes.                                        *)
EXTENDS PlayerRequests

CONSTANTS ANDROID_VR, TVHTML5, IOS, MWEB, WEB

MCClients == {ANDROID_VR, TVHTML5, IOS, MWEB, WEB}
MCChain == <<ANDROID_VR, TVHTML5, IOS, MWEB, WEB>>
MCSessionClients == {WEB}
MCCodes == {200, 404, 429, 503}
MCRetryOn == {429, 503}
=============================================================================

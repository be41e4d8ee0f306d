----------------------------- MODULE RetryPolicy -----------------------------
(* What HttpClientProvider gives its RetryInterceptor.                      *)
EXTENDS Naturals

CONSTANTS
    Codes,              \* status codes the server may answer with
    retryOnStatusCodes, \* those after which the request is sent again
    maxRetries

ASSUME RetryAssumption == retryOnStatusCodes \subseteq Codes /\ maxRetries \in Nat
=============================================================================

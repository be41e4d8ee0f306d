--------------------------- MODULE ClientFallback ---------------------------
(***************************************************************************)
(* YouTubeExtractor.fetchWithFallback: one extraction asks the InnerTube   *)
(* clients of a chain, one after the other, until one of them gives a      *)
(* playable answer, and otherwise picks the error the caller will see.     *)
(*                                                                         *)
(* An answer is what InnerTubeClient.fetchPlayerResponse makes of one HTTP *)
(* exchange: a parsed player response (its playability status and whether  *)
(* the reason text speaks of a region) or one of the ways in which no      *)
(* response is obtained.                                                   *)
(***************************************************************************)
EXTENDS Naturals, Sequences

CONSTANTS
    Clients,    \* the InnerTube client configurations
    Chain       \* the order in which they are asked (clientChain)

ASSUME ChainAssumption == Chain \in Seq(Clients) /\ Chain # << >>

VARIABLES
    tried,              \* number of clients that have answered
    lastError,          \* the local variable of that name, or NoError for null
    geoBlockedError,    \* TRUE once the local variable of that name is set
    verdict,            \* how the call ended, Pending while it runs
    thrown              \* history: the error each client led to, in order

vars == <<tried, lastError, geoBlockedError, verdict, thrown>>

-----------------------------------------------------------------------------

NoError == "none"

\* Subclasses of YTDLPError that one client's attempt can throw.
AttemptErrors ==
    {"AgeRestricted", "GeoBlocked", "VideoUnavailable",
     "LiveStreamNotSupported", "NetworkError"}

\* Not subclasses of YTDLPError: a connection lost while the body is read
\* (outside the try block of the client), kotlinx.serialization's exception for
\* a body that is not a player response, OkHttp's exception for a retry while the
\* body of the refused answer is open (module HttpRetry), and the cancellation of
\* the coroutine.
ForeignErrors == {"IOException", "SerializationException", "IllegalStateException",
                  "CancellationException"}

Statuses == {"OK", "LOGIN_REQUIRED", "UNPLAYABLE", "ERROR",
             "LIVE_STREAM_OFFLINE", "CONTENT_CHECK_REQUIRED"}

Answers ==
    [kind : {"noResponse", "httpError", "retryRefused", "bodyLost", "badJson", "cancelled"}]
    \cup [kind : {"response"}, status : Statuses, geoReason : BOOLEAN]

(* PlayerResponseParser.checkPlayability: the error it throws, if any.     *)
checkPlayability(status, geoReason) ==
    CASE status = "OK"                        -> NoError
      [] status = "LOGIN_REQUIRED"            -> "AgeRestricted"
      [] status \in {"UNPLAYABLE", "ERROR"}   ->
            IF geoReason THEN "GeoBlocked" ELSE "VideoUnavailable"
      [] status = "LIVE_STREAM_OFFLINE"       -> "LiveStreamNotSupported"
      [] OTHER                                -> "VideoUnavailable"

(* InnerTubeClient.fetchPlayerResponse followed by checkPlayability.       *)
Attempt(a) ==
    CASE a.kind \in {"noResponse", "httpError"} -> "NetworkError"
      [] a.kind = "retryRefused" -> "IllegalStateException"
      [] a.kind = "bodyLost"     -> "IOException"
      [] a.kind = "badJson"      -> "SerializationException"
      [] a.kind = "cancelled"    -> "CancellationException"
      [] a.kind = "response"     -> checkPlayability(a.status, a.geoReason)

Pending == [kind |-> "pending"]
Returned(client) == [kind |-> "returned", client |-> client]
Thrown(error) == [kind |-> "thrown", error |-> error]

CallErrors == {"GeoBlocked", "VideoUnavailable", "AllClientsFailed",
               "LiveStreamNotSupported"} \cup ForeignErrors

Verdicts ==
    {Pending} \cup {Returned(c) : c \in Clients} \cup {Thrown(e) : e \in CallErrors}

-----------------------------------------------------------------------------

Init ==
    /\ tried = 0
    /\ lastError = NoError
    /\ geoBlockedError = FALSE
    /\ verdict = Pending
    /\ thrown = << >>

(* The next client of the chain is asked and its attempt ends with e.      *)
Ask(e) ==
    /\ verdict = Pending
    /\ tried < Len(Chain)
    /\ tried' = tried + 1
    /\ thrown' = Append(thrown, e)

\* A bug that ReturnResponse could have: the chain's favourite gets the credit.
ReturnFirstClient(e) ==
    /\ e = NoError
    /\ Ask(e)
    /\ verdict' = Returned(Chain[1])
    /\ UNCHANGED <<lastError, geoBlockedError>>

(* The response is playable: it is returned with the client that gave it.  *)
ReturnResponse(e) ==
    /\ e = NoError
    /\ Ask(e)
    /\ verdict' = Returned(Chain[tried + 1])
    /\ UNCHANGED <<lastError, geoBlockedError>>

(* catch LiveStreamNotSupported: rethrown, no other client is asked.       *)
RethrowLive(e) ==
    /\ e = "LiveStreamNotSupported"
    /\ Ask(e)
    /\ verdict' = Thrown(e)
    /\ UNCHANGED <<lastError, geoBlockedError>>

(* catch GeoBlocked: remembered for the end of the chain.                  *)
CatchGeoBlocked(e) ==
    /\ e = "GeoBlocked"
    /\ Ask(e)
    /\ geoBlockedError' = TRUE
    /\ lastError' = e
    /\ UNCHANGED verdict

\* A bug that CatchOther could have: the region verdict is forgotten.
CatchOtherForgetsGeo(e) ==
    /\ e \in AttemptErrors \ {"LiveStreamNotSupported", "GeoBlocked"}
    /\ Ask(e)
    /\ lastError' = e
    /\ geoBlockedError' = FALSE
    /\ UNCHANGED verdict

\* A bug that CatchOther could have: a network error is answered by asking the
\* same client once more.
CatchOtherAsksAgain(e) ==
    /\ e \in AttemptErrors \ {"LiveStreamNotSupported", "GeoBlocked"}
    /\ IF e = "NetworkError"
       THEN verdict = Pending /\ tried < Len(Chain) /\ UNCHANGED <<tried, thrown>>
       ELSE Ask(e)
    /\ lastError' = e
    /\ UNCHANGED <<geoBlockedError, verdict>>

(* catch YTDLPError.                                                       *)
CatchOther(e) ==
    /\ e \in AttemptErrors \ {"LiveStreamNotSupported", "GeoBlocked"}
    /\ Ask(e)
    /\ lastError' = e
    /\ UNCHANGED <<geoBlockedError, verdict>>

(* No catch clause matches: the exception leaves the loop and the call.    *)
Escape(e) ==
    /\ e \in ForeignErrors
    /\ Ask(e)
    /\ verdict' = Thrown(e)
    /\ UNCHANGED <<lastError, geoBlockedError>>

\* A bug that ChainEnd could have: the last error is thrown as it is.
ChainEndRaw ==
    /\ verdict = Pending
    /\ tried = Len(Chain)
    /\ verdict' = Thrown(IF geoBlockedError THEN "GeoBlocked" ELSE lastError)
    /\ UNCHANGED <<tried, lastError, geoBlockedError, thrown>>

(* After the loop: the most specific terminal error is thrown.             *)
ChainEnd ==
    /\ verdict = Pending
    /\ tried = Len(Chain)
    /\ verdict' = Thrown(IF geoBlockedError THEN "GeoBlocked"
                         ELSE IF lastError = "VideoUnavailable" THEN lastError
                         ELSE "AllClientsFailed")
    /\ UNCHANGED <<tried, lastError, geoBlockedError, thrown>>

(* One turn of the loop with answer a.                                     *)
Turn(a) ==
    LET e == Attempt(a)
    IN  \/ ReturnResponse(e)
        \/ RethrowLive(e)
        \/ CatchGeoBlocked(e)
        \/ CatchOther(e)
        \/ Escape(e)

\* The call is over; the extraction goes on in its caller.
Done == verdict # Pending /\ UNCHANGED vars

Next == (\E a \in Answers : Turn(a)) \/ ChainEnd \/ Done

(* Every HTTP call ends (OkHttp's connect, read and write timeouts) and    *)
(* the loop is sequential code, so the call itself keeps making progress.  *)
Spec == Init /\ [][Next]_vars /\ WF_vars(Next)

-----------------------------------------------------------------------------

TypeOK ==
    /\ tried \in 0 .. Len(Chain)
    /\ lastError \in {NoError} \cup AttemptErrors
    /\ geoBlockedError \in BOOLEAN
    /\ verdict \in Verdicts
    /\ thrown \in Seq({NoError} \cup AttemptErrors \cup ForeignErrors)
    /\ Len(thrown) = tried

Recoverable == AttemptErrors \ {"LiveStreamNotSupported"}

\* The first n clients failed in a way that lets the loop go on.
FailedUpTo(n) == \A i \in 1 .. n : thrown[i] \in Recoverable
SomeGeoBlocked == \E i \in 1 .. tried : thrown[i] = "GeoBlocked"

(***************************************************************************)
(* The error a caller sees is the one the comment at                       *)
(* YouTubeExtractor.kt:118 describes, computed from all answers at once: a *)
(* region block reported by any client wins over every later failure, an   *)
(* unavailable video is reported only on the word of the last client,      *)
(* everything else is AllClientsFailed; and only when all were asked.      *)
(***************************************************************************)
ExhaustionVerdict ==
    (verdict.kind = "thrown" /\ verdict.error \notin ForeignErrors \cup {"LiveStreamNotSupported"})
    => /\ tried = Len(Chain)
       /\ FailedUpTo(tried)
       /\ verdict.error = IF SomeGeoBlocked THEN "GeoBlocked"
                          ELSE IF thrown[tried] = "VideoUnavailable" THEN thrown[tried]
                          ELSE "AllClientsFailed"

(***************************************************************************)
(* A response is returned with the client that produced it (its user agent *)
(* goes into the result), and only after every client before it failed.    *)
(***************************************************************************)
WinnerIsFirst ==
    verdict.kind = "returned" =>
        /\ verdict.client = Chain[tried]
        /\ thrown[tried] = NoError
        /\ FailedUpTo(tried - 1)

(***************************************************************************)
(* The fallback ends: with a response or with an error (the loop of        *)
(* YouTubeExtractor.kt:103 and the throw after it).                        *)
(***************************************************************************)
Ends == <>(verdict # Pending)
=============================================================================

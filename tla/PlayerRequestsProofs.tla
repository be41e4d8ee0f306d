------------------------ MODULE PlayerRequestsProofs ------------------------
(***************************************************************************)
(* For every chain of clients, every number of retries and any status      *)
(* codes: the error a caller sees and the client a response is credited    *)
(* to; the response each HTTP call returns, its requests and its pauses;   *)
(* and whose bodies are left open.                                         *)
(***************************************************************************)
EXTENDS PlayerRequests, TLAPS, FiniteSetTheorems

(* The fallback.                                                           *)

(* The loop invariant: while the call runs, the two local variables sum up *)
(* the answers so far, all of which let the loop go on.                    *)
LoopInv ==
    verdict = Pending =>
        /\ FailedUpTo(tried)
        /\ geoBlockedError <=> SomeGeoBlocked
        /\ tried > 0 => lastError = thrown[tried]

FallbackInv == TypeOK /\ LoopInv /\ ExhaustionVerdict /\ WinnerIsFirst

Errors == {NoError} \cup AttemptErrors \cup ForeignErrors

(* One attempt ends with no error or with one of the errors listed.        *)
LEMMA AttemptType == \A a \in Answers : Attempt(a) \in Errors
BY DEF Answers, Statuses, Attempt, checkPlayability, Errors, AttemptErrors, ForeignErrors, NoError

(* The history grows by the answer and keeps what it had.                  *)
LEMMA AskGrows ==
    ASSUME TypeOK, NEW e \in Errors, Ask(e)
    PROVE  /\ tried \in Nat /\ tried' = tried + 1 /\ tried' \in 0 .. Len(Chain)
           /\ verdict = Pending
           /\ thrown' \in Seq(Errors) /\ Len(thrown') = tried'
           /\ thrown'[tried'] = e
           /\ \A i \in 1 .. tried : thrown'[i] = thrown[i]
           /\ Chain[tried'] \in Clients
<1>1. tried \in Nat /\ Len(Chain) \in Nat /\ tried' = tried + 1 /\ tried' \in 1 .. Len(Chain)
  BY ChainAssumption DEF TypeOK, Ask
<1>2. thrown \in Seq(Errors) /\ Len(thrown) = tried /\ thrown' = Append(thrown, e)
  BY DEF TypeOK, Ask, Errors
<1>3. thrown' \in Seq(Errors) /\ Len(thrown') = tried + 1
  BY <1>1, <1>2
<1>4. thrown'[tried + 1] = e /\ \A i \in 1 .. tried : thrown'[i] = thrown[i]
  BY <1>1, <1>2
<1>5. Chain[tried'] \in Clients
  BY <1>1, ChainAssumption
<1> QED BY <1>1, <1>2, <1>3, <1>4, <1>5 DEF Ask

LEMMA InitFallback == Init => FallbackInv
<1> SUFFICES ASSUME Init PROVE FallbackInv
  OBVIOUS
<1>1. TypeOK
  <2>1. Len(Chain) \in Nat /\ tried = 0
    BY ChainAssumption DEF Init
  <2>2. thrown \in Seq(Errors) /\ Len(thrown) = 0
    BY DEF Init
  <2>3. verdict \in Verdicts /\ lastError = NoError /\ geoBlockedError \in BOOLEAN
    BY DEF Init, Verdicts
  <2> QED BY <2>1, <2>2, <2>3 DEF TypeOK, Errors
<1>2. LoopInv
  BY DEF Init, LoopInv, FailedUpTo, SomeGeoBlocked
<1>3. ExhaustionVerdict /\ WinnerIsFirst
  BY DEF Init, ExhaustionVerdict, WinnerIsFirst, Pending
<1> QED BY <1>1, <1>2, <1>3 DEF FallbackInv

(* A caught error keeps the loop invariant: both catch clauses that go on. *)
LEMMA CaughtKeeps ==
    ASSUME FallbackInv, NEW e \in Errors, Ask(e), verdict' = verdict, lastError' = e,
           e \in Recoverable,
           geoBlockedError' = IF e = "GeoBlocked" THEN TRUE ELSE geoBlockedError
    PROVE  FallbackInv'
<1>1. /\ tried \in Nat /\ tried' = tried + 1 /\ tried' \in 0 .. Len(Chain)
      /\ verdict = Pending
      /\ thrown' \in Seq(Errors) /\ Len(thrown') = tried'
      /\ thrown'[tried'] = e
      /\ \A i \in 1 .. tried : thrown'[i] = thrown[i]
  BY AskGrows DEF FallbackInv
<1>2. TypeOK'
  <2>1. lastError' \in {NoError} \cup AttemptErrors /\ geoBlockedError' \in BOOLEAN /\ verdict' \in Verdicts
    BY DEF FallbackInv, TypeOK, Recoverable
  <2> QED BY <1>1, <2>1 DEF TypeOK, Errors
<1>3. FailedUpTo(tried)'
  BY <1>1 DEF FallbackInv, LoopInv, FailedUpTo
<1>4. (geoBlockedError <=> SomeGeoBlocked)'
  <2>1. geoBlockedError <=> SomeGeoBlocked
    BY <1>1 DEF FallbackInv, LoopInv
  <2>2. SomeGeoBlocked' <=> (SomeGeoBlocked \/ e = "GeoBlocked")
    BY <1>1 DEF SomeGeoBlocked
  <2>3. geoBlockedError' <=> (geoBlockedError \/ e = "GeoBlocked")
    BY DEF FallbackInv, TypeOK
  <2> QED BY <2>1, <2>2, <2>3
<1>5. LoopInv'
  BY <1>1, <1>3, <1>4 DEF LoopInv
<1>6. ExhaustionVerdict' /\ WinnerIsFirst'
  BY <1>1 DEF ExhaustionVerdict, WinnerIsFirst, Pending
<1> QED BY <1>2, <1>5, <1>6 DEF FallbackInv

(* An exception that leaves the loop says nothing about the chain.         *)
LEMMA LeavingKeeps ==
    ASSUME FallbackInv, NEW e \in Errors, Ask(e), verdict' = Thrown(e),
           UNCHANGED <<lastError, geoBlockedError>>,
           e \in ForeignErrors \cup {"LiveStreamNotSupported"}
    PROVE  FallbackInv'
<1>1. /\ tried \in Nat /\ tried' = tried + 1 /\ tried' \in 0 .. Len(Chain)
      /\ thrown' \in Seq(Errors) /\ Len(thrown') = tried'
  BY AskGrows DEF FallbackInv
<1>2. Thrown(e) \in Verdicts
  BY DEF Verdicts, CallErrors
<1>3. TypeOK'
  BY <1>1, <1>2 DEF FallbackInv, TypeOK, Errors
<1>4. LoopInv' /\ ExhaustionVerdict' /\ WinnerIsFirst'
  BY DEF LoopInv, ExhaustionVerdict, WinnerIsFirst, Pending, Thrown
<1> QED BY <1>3, <1>4 DEF FallbackInv

LEMMA ReturnKeeps ==
    ASSUME FallbackInv, NEW e \in Errors, ReturnResponse(e)
    PROVE  FallbackInv'
<1>1. /\ tried \in Nat /\ tried' = tried + 1 /\ tried' \in 0 .. Len(Chain)
      /\ verdict = Pending
      /\ thrown' \in Seq(Errors) /\ Len(thrown') = tried'
      /\ thrown'[tried'] = e
      /\ \A i \in 1 .. tried : thrown'[i] = thrown[i]
      /\ Chain[tried'] \in Clients
  BY AskGrows DEF FallbackInv, ReturnResponse
<1>2. verdict' = Returned(Chain[tried']) /\ e = NoError /\ UNCHANGED <<lastError, geoBlockedError>>
  BY <1>1 DEF ReturnResponse
<1>3. TypeOK'
  BY <1>1, <1>2 DEF FallbackInv, TypeOK, Errors, Verdicts
<1>4. LoopInv' /\ ExhaustionVerdict'
  BY <1>2 DEF LoopInv, ExhaustionVerdict, Pending, Returned
<1>5. FailedUpTo(tried)
  BY <1>1 DEF FallbackInv, LoopInv
<1>6. WinnerIsFirst'
  BY <1>1, <1>2, <1>5 DEF WinnerIsFirst, FailedUpTo, Returned
<1> QED BY <1>3, <1>4, <1>6 DEF FallbackInv

LEMMA ChainEndKeeps ==
    ASSUME FallbackInv, ChainEnd
    PROVE  FallbackInv'
<1> DEFINE v == IF geoBlockedError THEN "GeoBlocked"
                ELSE IF lastError = "VideoUnavailable" THEN lastError
                ELSE "AllClientsFailed"
<1>1. /\ verdict = Pending /\ verdict' = Thrown(v) /\ tried = Len(Chain)
      /\ UNCHANGED <<tried, lastError, geoBlockedError, thrown>>
  BY DEF ChainEnd
<1>2. v \in {"GeoBlocked", "VideoUnavailable", "AllClientsFailed"}
  OBVIOUS
<1>3. TypeOK'
  <2>1. Thrown(v) \in Verdicts
    BY <1>2 DEF Verdicts, CallErrors
  <2> QED BY <1>1, <2>1 DEF FallbackInv, TypeOK
<1>4. LoopInv' /\ WinnerIsFirst'
  BY <1>1 DEF LoopInv, WinnerIsFirst, Pending, Thrown
<1>5. tried > 0
  BY <1>1, ChainAssumption DEF FallbackInv, TypeOK
<1>6. /\ FailedUpTo(tried)
      /\ geoBlockedError <=> SomeGeoBlocked
      /\ lastError = thrown[tried]
  BY <1>1, <1>5 DEF FallbackInv, LoopInv
<1>7. verdict'.error = v
  BY <1>1 DEF Thrown
<1>8. ExhaustionVerdict'
  <2>1. FailedUpTo(tried)' /\ (SomeGeoBlocked' <=> SomeGeoBlocked)
    BY <1>1, <1>6 DEF FailedUpTo, SomeGeoBlocked
  <2>2. v = IF SomeGeoBlocked THEN "GeoBlocked"
            ELSE IF thrown[tried] = "VideoUnavailable" THEN thrown[tried]
            ELSE "AllClientsFailed"
    BY <1>6
  <2> HIDE DEF v
  <2> QED BY <1>1, <1>7, <2>1, <2>2 DEF ExhaustionVerdict
<1> QED BY <1>3, <1>4, <1>8 DEF FallbackInv

LEMMA NextFallback == FallbackInv /\ [Next]_vars => FallbackInv'
<1> SUFFICES ASSUME FallbackInv, [Next]_vars PROVE FallbackInv'
  OBVIOUS
<1>1. ASSUME NEW a \in Answers, Turn(a) PROVE FallbackInv'
  <2> DEFINE e == Attempt(a)
  <2>e. e \in Errors
    BY AttemptType
  <2>1. CASE ReturnResponse(e)
    BY <2>e, <2>1, ReturnKeeps
  <2>2. CASE RethrowLive(e)
    BY <2>e, <2>2, LeavingKeeps DEF RethrowLive
  <2>3. CASE CatchGeoBlocked(e)
    <3>1. e \in Recoverable
      BY <2>3 DEF CatchGeoBlocked, Recoverable, AttemptErrors
    <3> QED BY <2>e, <2>3, <3>1, CaughtKeeps DEF CatchGeoBlocked
  <2>4. CASE CatchOther(e)
    <3>1. e \in Recoverable /\ e # "GeoBlocked"
      BY <2>4 DEF CatchOther, Recoverable
    <3> QED BY <2>e, <2>4, <3>1, CaughtKeeps DEF CatchOther
  <2>5. CASE Escape(e)
    BY <2>e, <2>5, LeavingKeeps DEF Escape
  <2> QED BY <1>1, <2>1, <2>2, <2>3, <2>4, <2>5 DEF Turn
<1>2. CASE ChainEnd
  BY <1>2, ChainEndKeeps
<1>3. CASE UNCHANGED vars
  BY <1>3 DEF vars, FallbackInv, TypeOK, LoopInv, FailedUpTo, SomeGeoBlocked, ExhaustionVerdict, WinnerIsFirst
<1> QED BY <1>1, <1>2, <1>3 DEF Next, Done

-----------------------------------------------------------------------------
(* The HTTP call.                                                           *)

\* Twice the pauses after n rejected responses.
Pauses(n) == n * (n + 1)

\* The first n responses asked for a retry.
RejectedUpTo(n) == \A i \in 1 .. n : codes[i] \in retryOnStatusCodes

(* What the place in the loop says of the responses so far: those that     *)
(* were rejected and paused after are counted by attempt, and no body but  *)
(* that of the last one is open.                                           *)
RoundInv ==
    /\ pc # "over" => outcome = Http!Pending
    /\ open \subseteq {Len(codes)}
    /\ pc \in {"proceed", "test"} =>
        /\ attempt <= maxRetries /\ lastResponse = attempt
        /\ Len(codes) = IF pc = "test" THEN attempt + 1 ELSE attempt
        /\ RejectedUpTo(attempt)
        /\ 2 * slept = Pauses(attempt)
    /\ pc \in {"sleep", "giveUp"} =>
        /\ attempt >= 1 /\ lastResponse = attempt /\ Len(codes) = attempt
        /\ RejectedUpTo(attempt)
        /\ 2 * slept = Pauses(attempt - 1)
        /\ IF pc = "sleep" THEN attempt <= maxRetries ELSE attempt = maxRetries + 1
    /\ outcome.kind = "returned" => Len(codes) >= 1 /\ 2 * slept = Pauses(Len(codes) - 1)

CallInv == Http!TypeOK /\ RoundInv /\ Http!LastWordReturned

LEMMA PausesStep ==
    /\ Pauses(0) = 0
    /\ \A n \in Nat : n >= 1 => Pauses(n) = Pauses(n - 1) + 2 * n
BY DEF Pauses

LEMMA InitCall == Http!Init => CallInv
<1> SUFFICES ASSUME Http!Init PROVE CallInv
  OBVIOUS
<1>1. codes \in Seq(Codes) /\ Len(codes) = 0
  BY DEF Http!Init
<1>2. Http!TypeOK
  BY <1>1, RetryAssumption DEF Http!Init, Http!TypeOK
<1>3. RoundInv /\ Http!LastWordReturned
  BY <1>1, RetryAssumption, PausesStep DEF Http!Init, RoundInv, Http!LastWordReturned, RejectedUpTo, Http!Pending
<1> QED BY <1>2, <1>3 DEF CallInv

(* What proceed makes of the responses.                                    *)
LEMMA AnswerKeeps ==
    ASSUME CallInv, NEW code \in Codes, NEW empty \in BOOLEAN, Http!Answer(code, empty)
    PROVE  CallInv'
<1>1. /\ pc = "proceed" /\ pc' = "test" /\ codes \in Seq(Codes) /\ Len(codes) = attempt
      /\ attempt \in Nat /\ attempt <= maxRetries /\ maxRetries \in Nat
      /\ lastResponse = attempt /\ RejectedUpTo(attempt) /\ 2 * slept = Pauses(attempt)
      /\ outcome = Http!Pending /\ slept \in Nat
      /\ UNCHANGED <<attempt, lastResponse, outcome, slept>>
  BY RetryAssumption DEF CallInv, Http!TypeOK, RoundInv, Http!Answer
<1>2. /\ codes' \in Seq(Codes) /\ Len(codes') = attempt + 1
      /\ \A i \in 1 .. attempt : codes'[i] = codes[i]
  BY <1>1 DEF Http!Answer
<1>3. open' \subseteq {attempt + 1}
  BY <1>1 DEF Http!Answer
<1>4. Http!TypeOK'
  BY <1>1, <1>2, <1>3 DEF Http!TypeOK
<1>5. RoundInv'
  BY <1>1, <1>2, <1>3 DEF RoundInv, RejectedUpTo, Http!Pending
<1>6. Http!LastWordReturned'
  BY <1>1 DEF Http!LastWordReturned, Http!Pending
<1> QED BY <1>4, <1>5, <1>6 DEF CallInv

LEMMA ThrownKeeps ==
    ASSUME CallInv, Http!Unreachable \/ Http!Refused
    PROVE  CallInv'
<1>1. /\ pc' = "over" /\ outcome' \in {Http!Thrown("IOException"), Http!Thrown("IllegalStateException")}
      /\ UNCHANGED <<attempt, lastResponse, open, slept, codes>>
  BY DEF Http!Unreachable, Http!Refused
<1>2. outcome'.kind = "thrown"
  BY <1>1 DEF Http!Thrown
<1>3. Http!TypeOK'
  BY <1>1 DEF CallInv, Http!TypeOK
<1>4. RoundInv' /\ Http!LastWordReturned'
  BY <1>1, <1>2 DEF CallInv, RoundInv, Http!LastWordReturned
<1> QED BY <1>3, <1>4 DEF CallInv

LEMMA AcceptKeeps ==
    ASSUME CallInv, Http!Accept
    PROVE  CallInv'
<1>1. /\ pc = "test" /\ pc' = "over" /\ codes \in Seq(Codes) /\ Len(codes) = attempt + 1
      /\ attempt \in Nat /\ attempt <= maxRetries /\ maxRetries \in Nat
      /\ RejectedUpTo(attempt) /\ 2 * slept = Pauses(attempt)
      /\ codes[Len(codes)] \notin retryOnStatusCodes
      /\ outcome' = Http!Returned(Len(codes)) /\ open \subseteq {Len(codes)}
      /\ UNCHANGED <<attempt, lastResponse, open, slept, codes>>
  BY RetryAssumption DEF CallInv, Http!TypeOK, RoundInv, Http!Accept, Http!response
<1>2. outcome'.kind = "returned" /\ outcome'.response = Len(codes)
  BY <1>1 DEF Http!Returned
<1>3. Http!TypeOK'
  BY <1>1 DEF CallInv, Http!TypeOK
<1>4. RoundInv'
  BY <1>1, <1>2 DEF RoundInv
<1>5. Http!LastWordReturned'
  BY <1>1, <1>2 DEF Http!LastWordReturned, RejectedUpTo
<1> QED BY <1>3, <1>4, <1>5 DEF CallInv

LEMMA RejectKeeps ==
    ASSUME CallInv, Http!Reject
    PROVE  CallInv'
<1>1. /\ pc = "test" /\ codes \in Seq(Codes) /\ Len(codes) = attempt + 1
      /\ attempt \in Nat /\ attempt <= maxRetries /\ maxRetries \in Nat
      /\ RejectedUpTo(attempt) /\ 2 * slept = Pauses(attempt) /\ outcome = Http!Pending
      /\ codes[Len(codes)] \in retryOnStatusCodes /\ open \subseteq {Len(codes)}
  BY RetryAssumption DEF CallInv, Http!TypeOK, RoundInv, Http!Reject, Http!response
<1>2. /\ lastResponse' = attempt + 1 /\ attempt' = attempt + 1 /\ open' \subseteq open
      /\ pc' = IF attempt + 1 <= maxRetries THEN "sleep" ELSE "giveUp"
      /\ UNCHANGED <<outcome, slept, codes>>
  BY <1>1 DEF Http!Reject, Http!response
<1>3. Http!TypeOK'
  <2>1. attempt' \in 0 .. maxRetries + 1 /\ lastResponse' \in 0 .. Len(codes')
    BY <1>1, <1>2
  <2>2. pc' \in {"sleep", "giveUp"} /\ open' \subseteq 1 .. Len(codes')
    BY <1>1, <1>2
  <2> QED BY <1>2, <2>1, <2>2 DEF CallInv, Http!TypeOK
<1>4. \A i \in 1 .. attempt + 1 : codes[i] \in retryOnStatusCodes
  BY <1>1 DEF RejectedUpTo
<1>5. RoundInv'
  BY <1>1, <1>2, <1>4 DEF RoundInv, Http!Pending, RejectedUpTo
<1>6. Http!LastWordReturned'
  BY <1>1, <1>2 DEF Http!LastWordReturned, Http!Pending
<1> QED BY <1>3, <1>5, <1>6 DEF CallInv

LEMMA SleepKeeps ==
    ASSUME CallInv, Http!Sleep
    PROVE  CallInv'
<1>1. /\ pc = "sleep" /\ pc' = "proceed" /\ Len(codes) = attempt /\ lastResponse = attempt
      /\ attempt \in Nat /\ attempt >= 1 /\ attempt <= maxRetries /\ slept \in Nat
      /\ RejectedUpTo(attempt) /\ 2 * slept = Pauses(attempt - 1) /\ outcome = Http!Pending
      /\ slept' = slept + attempt
      /\ UNCHANGED <<attempt, lastResponse, open, outcome, codes>>
  BY RetryAssumption DEF CallInv, Http!TypeOK, RoundInv, Http!Sleep
<1>2. 2 * slept' = Pauses(attempt)
  BY <1>1, PausesStep
<1>3. Http!TypeOK'
  BY <1>1 DEF CallInv, Http!TypeOK
<1>4. RoundInv'
  BY <1>1, <1>2 DEF CallInv, RoundInv, RejectedUpTo, Http!Pending
<1>5. Http!LastWordReturned'
  BY <1>1 DEF Http!LastWordReturned, Http!Pending
<1> QED BY <1>3, <1>4, <1>5 DEF CallInv

LEMMA GiveUpKeeps ==
    ASSUME CallInv, Http!GiveUp
    PROVE  CallInv'
<1>1. /\ pc = "giveUp" /\ pc' = "over" /\ Len(codes) = attempt /\ attempt = maxRetries + 1
      /\ attempt \in Nat /\ attempt >= 1 /\ open \subseteq {Len(codes)}
      /\ RejectedUpTo(attempt) /\ 2 * slept = Pauses(attempt - 1)
      /\ outcome' = Http!Returned(attempt)
      /\ UNCHANGED <<attempt, lastResponse, open, slept, codes>>
  BY RetryAssumption DEF CallInv, Http!TypeOK, RoundInv, Http!GiveUp
<1>2. outcome'.kind = "returned" /\ outcome'.response = Len(codes)
  BY <1>1 DEF Http!Returned
<1>3. Http!TypeOK'
  BY <1>1 DEF CallInv, Http!TypeOK
<1>4. RoundInv'
  BY <1>1, <1>2 DEF RoundInv
<1>5. Http!LastWordReturned'
  BY <1>1, <1>2 DEF Http!LastWordReturned, RejectedUpTo
<1> QED BY <1>3, <1>4, <1>5 DEF CallInv

LEMMA NextCall == CallInv /\ [Http!Next]_call => CallInv'
<1> SUFFICES ASSUME CallInv, [Http!Next]_call PROVE CallInv'
  OBVIOUS
<1>1. CASE UNCHANGED call
  BY <1>1 DEF call, CallInv, Http!TypeOK, RoundInv, Http!LastWordReturned, RejectedUpTo
<1>2. CASE Http!Next
  BY <1>1, <1>2, AnswerKeeps, ThrownKeeps, AcceptKeeps, RejectKeeps, SleepKeeps, GiveUpKeeps
  DEF Http!Next, Http!Done, Http!vars, call
<1> QED BY <1>1, <1>2

-----------------------------------------------------------------------------
(* The two together.                                                       *)

(* What is left open when a call ends with an exception, and what no one   *)
(* has left open yet.                                                      *)
ThrownInv ==
    /\ outcome = Http!Thrown("IOException") => open = {}
    /\ verdict = Pending => \A b \in abandoned : b.call # "player"

HistoryInv == sessionInitialized \in BOOLEAN /\ abandoned \subseteq Abandoned

IInv == FallbackInv /\ CallInv /\ ThrownInv /\ HistoryInv /\ BodiesAreClosed

LEMMA InitIInv == RequestsInit => IInv
<1> SUFFICES ASSUME RequestsInit PROVE IInv
  OBVIOUS
<1>1. FallbackInv /\ CallInv
  BY InitFallback, InitCall DEF RequestsInit
<1>2. ThrownInv /\ HistoryInv /\ BodiesAreClosed
  BY DEF RequestsInit, Http!Init, ThrownInv, HistoryInv, BodiesAreClosed
<1> QED BY <1>1, <1>2 DEF IInv

LEMMA HttpStepKeeps ==
    ASSUME IInv, HttpStep
    PROVE  IInv'
<1>1. Http!Next /\ verdict = Pending /\ UNCHANGED <<vars, sessionInitialized, abandoned>>
  BY DEF HttpStep
<1>2. FallbackInv'
  BY <1>1, NextFallback DEF IInv
<1>3. CallInv'
  BY <1>1, NextCall DEF IInv
<1>4. ThrownInv'
  <2>1. outcome' = Http!Thrown("IOException") => open' = {}
    <3>1. ASSUME NEW code \in Codes, NEW empty \in BOOLEAN, Http!Answer(code, empty)
          PROVE  outcome' = outcome /\ outcome = Http!Pending
      BY <3>1 DEF HttpStep, Http!Answer
    <3>2. CASE Http!Unreachable
      BY <3>2 DEF Http!Unreachable
    <3>3. CASE Http!Refused
      BY <3>3 DEF Http!Refused, Http!Thrown
    <3>4. CASE Http!Accept \/ Http!GiveUp
      BY <3>4 DEF Http!Accept, Http!GiveUp, Http!Thrown, Http!Returned
    <3>5. CASE Http!Reject \/ Http!Sleep
      BY <3>5 DEF HttpStep, Http!Reject, Http!Sleep, Http!Thrown, Http!Pending
    <3>6. CASE Http!Done
      BY <3>6 DEF Http!Done, Http!vars, IInv, ThrownInv
    <3> QED
      BY <1>1, <3>1, <3>2, <3>3, <3>4, <3>5, <3>6 DEF Http!Next, Http!Thrown, Http!Pending
  <2> QED BY <1>1, <2>1 DEF IInv, ThrownInv, vars
<1>5. HistoryInv' /\ BodiesAreClosed'
  BY <1>1 DEF IInv, HistoryInv, BodiesAreClosed, vars
<1> QED BY <1>2, <1>3, <1>4, <1>5 DEF IInv

(* A call that is over leaves nothing open unless its retry was refused,   *)
(* and then one body.                                                      *)
LEMMA EndLeaves ==
    ASSUME IInv, outcome # Http!Pending
    PROVE  \/ LeftOpen = {}
           \/ /\ \E r \in Nat : LeftOpen = {r}
              /\ outcome = Http!Thrown("IllegalStateException")
<1>1. outcome \in {Http!Thrown("IOException"), Http!Thrown("IllegalStateException")}
                  \cup {Http!Returned(r) : r \in 1 .. Len(codes)}
  BY DEF IInv, CallInv, Http!TypeOK
<1>2. CASE outcome = Http!Thrown("IOException")
  BY <1>2 DEF IInv, ThrownInv, LeftOpen, Http!Thrown
<1>3. CASE outcome = Http!Thrown("IllegalStateException")
  <2>1. LeftOpen = open /\ open \subseteq {Len(codes)} /\ Len(codes) \in Nat
    BY <1>3 DEF IInv, CallInv, Http!TypeOK, RoundInv, LeftOpen, Http!Thrown
  <2> QED BY <1>3, <2>1
<1>4. ASSUME NEW r \in 1 .. Len(codes), outcome = Http!Returned(r)
      PROVE  LeftOpen = {}
  <2>1. outcome.kind = "returned" /\ open \subseteq {outcome.response}
    BY <1>4 DEF Http!Returned, IInv, CallInv, Http!LastWordReturned
  <2> QED BY <2>1 DEF LeftOpen
<1> QED BY <1>1, <1>2, <1>3, <1>4

(* The next call starts afresh; what the last one left behind is recorded. *)
LEMMA EndKeeps ==
    ASSUME IInv, NEW purpose \in {"homepage", "player"}, EndOfCall(purpose)
    PROVE  /\ CallInv'
           /\ outcome' = Http!Pending
           /\ \/ abandoned' = abandoned
              \/ /\ outcome = Http!Thrown("IllegalStateException")
                 /\ \E b \in Abandoned :
                      /\ b.call = purpose /\ b.turn = tried
                      /\ b.ended = Http!Thrown("IllegalStateException")
                      /\ abandoned' = abandoned \cup {b}
<1>1. CallInv'
  <2>1. Http!Init'
    BY DEF EndOfCall, Http!Init
  <2>2. (Http!Init => CallInv)'
    BY InitCall, PTL
  <2> QED BY <2>1, <2>2
<1>2. LeftOpen = {} => abandoned' = abandoned
  BY DEF EndOfCall
<1>3. ASSUME NEW r \in Nat, LeftOpen = {r}, outcome = Http!Thrown("IllegalStateException")
      PROVE  \E b \in Abandoned :
                /\ b.call = purpose /\ b.turn = tried
                /\ b.ended = Http!Thrown("IllegalStateException")
                /\ abandoned' = abandoned \cup {b}
  <2> DEFINE b == [call |-> purpose, turn |-> tried, response |-> r, ended |-> outcome]
  <2>1. abandoned' = abandoned \cup {b}
    BY <1>3 DEF EndOfCall
  <2>2. tried \in 0 .. Len(Chain)
    BY DEF IInv, FallbackInv, TypeOK
  <2>3. b \in Abandoned
    BY <1>3, <2>2 DEF Abandoned
  <2>4. b.call = purpose /\ b.turn = tried /\ b.ended = Http!Thrown("IllegalStateException")
    BY <1>3
  <2> HIDE DEF b
  <2> QED BY <2>1, <2>3, <2>4
<1>4. \/ LeftOpen = {}
      \/ /\ \E r \in Nat : LeftOpen = {r}
         /\ outcome = Http!Thrown("IllegalStateException")
  BY EndLeaves DEF EndOfCall
<1>5. outcome' = Http!Pending
  BY DEF EndOfCall
<1> QED BY <1>1, <1>2, <1>3, <1>4, <1>5

(* The homepage is asked for once, so its refused retry is the only one.   *)
LEMMA SessionEnsuredKeeps ==
    ASSUME IInv, SessionEnsured
    PROVE  IInv'
<1>1. /\ verdict = Pending /\ tried < Len(Chain)
      /\ Chain[tried + 1] \in SessionClients
      /\ ~sessionInitialized /\ sessionInitialized' = TRUE /\ UNCHANGED vars
      /\ EndOfCall("homepage")
  BY DEF SessionEnsured, AtHomepage
<1>2. /\ CallInv'
      /\ outcome' = Http!Pending
      /\ \/ abandoned' = abandoned
         \/ \E b \in Abandoned :
                /\ b.call = "homepage" /\ b.turn = tried
                /\ b.ended = Http!Thrown("IllegalStateException")
                /\ abandoned' = abandoned \cup {b}
  BY <1>1, EndKeeps
<1>3. FallbackInv'
  BY <1>1, NextFallback DEF IInv
<1>4. \A b \in abandoned : b.call \notin {"homepage", "player"}
  BY <1>1 DEF IInv, ThrownInv, BodiesAreClosed
<1>5. abandoned = {}
  BY <1>4 DEF IInv, HistoryInv, Abandoned
<1>6. ThrownInv' /\ HistoryInv' /\ BodiesAreClosed'
  <2>1. outcome' # Http!Thrown("IOException")
    BY <1>2 DEF Http!Pending, Http!Thrown
  <2>2. CASE abandoned' = abandoned
    BY <1>1, <1>5, <2>1, <2>2 DEF ThrownInv, HistoryInv, BodiesAreClosed
  <2>3. ASSUME NEW b \in Abandoned, b.call = "homepage", b.turn = tried,
               b.ended = Http!Thrown("IllegalStateException"), abandoned' = abandoned \cup {b}
        PROVE  ThrownInv' /\ HistoryInv' /\ BodiesAreClosed'
    <3>1. abandoned' = {b}
      BY <2>3, <1>5
    <3>2. ThrownInv' /\ HistoryInv'
      BY <1>1, <2>1, <2>3, <3>1 DEF ThrownInv, HistoryInv, Abandoned, vars
    <3>3. BodiesAreClosed'
      BY <1>1, <2>3, <3>1 DEF BodiesAreClosed, vars
    <3> QED BY <3>2, <3>3
  <2> QED BY <1>2, <2>2, <2>3
<1> QED BY <1>2, <1>3, <1>6 DEF IInv

(* A player request's refused retry is the end of the extraction.          *)
LEMMA TakeAnswerKeeps ==
    ASSUME IInv, TakeAnswer
    PROVE  IInv'
<1>1. PICK a \in AnswersTo(outcome) : Turn(a)
  BY DEF TakeAnswer
<1>e. EndOfCall("player") /\ outcome # Http!Pending /\ UNCHANGED sessionInitialized
  BY DEF TakeAnswer, EndOfCall
<1>2. outcome \in {Http!Thrown("IOException"), Http!Thrown("IllegalStateException")}
                  \cup {Http!Returned(r) : r \in 1 .. Len(codes)}
  BY <1>e DEF IInv, CallInv, Http!TypeOK
<1>3. a \in Answers
  <2>1. CASE outcome = Http!Thrown("IOException")
    BY <1>1, <2>1 DEF AnswersTo, Answers, Http!Thrown
  <2>2. CASE outcome = Http!Thrown("IllegalStateException")
    BY <1>1, <2>2 DEF AnswersTo, Answers, Http!Thrown
  <2>3. ASSUME NEW r \in 1 .. Len(codes), outcome = Http!Returned(r)
        PROVE  a \in Answers
    <3>1. outcome.kind = "returned" /\ outcome # Http!Thrown("IOException")
          /\ outcome # Http!Thrown("IllegalStateException")
      BY <2>3 DEF Http!Returned, Http!Thrown
    <3> QED BY <1>1, <3>1 DEF AnswersTo, Answers
  <2> QED BY <1>2, <2>1, <2>2, <2>3
<1>4. FallbackInv'
  BY <1>1, <1>3, NextFallback DEF Next, IInv
<1>5. /\ CallInv'
      /\ outcome' = Http!Pending
      /\ \/ abandoned' = abandoned
         \/ /\ outcome = Http!Thrown("IllegalStateException")
            /\ \E b \in Abandoned :
                 /\ b.call = "player" /\ b.turn = tried
                 /\ b.ended = Http!Thrown("IllegalStateException")
                 /\ abandoned' = abandoned \cup {b}
  BY <1>e, EndKeeps
<1>6. \A d \in abandoned : d.call # "player"
  <2>1. verdict = Pending
    BY <1>1 DEF Turn, ReturnResponse, RethrowLive, CatchGeoBlocked, CatchOther, Escape, Ask
  <2> QED BY <2>1 DEF IInv, ThrownInv
<1>7. outcome = Http!Thrown("IllegalStateException") =>
        verdict' \in {Thrown("IllegalStateException"), Thrown("CancellationException")}
  <2> SUFFICES ASSUME outcome = Http!Thrown("IllegalStateException")
               PROVE  verdict' \in {Thrown("IllegalStateException"), Thrown("CancellationException")}
    OBVIOUS
  <2>1. a.kind \in {"retryRefused", "cancelled"}
    BY <1>1 DEF AnswersTo, Http!Thrown
  <2>2. Attempt(a) \in {"IllegalStateException", "CancellationException"}
    BY <2>1 DEF Attempt
  <2> QED BY <1>1, <2>2 DEF Turn, ReturnResponse, RethrowLive, CatchGeoBlocked, CatchOther,
                            Escape, NoError, AttemptErrors
<1>8. outcome' # Http!Thrown("IOException")
  BY <1>5 DEF Http!Pending, Http!Thrown
<1>9. CASE abandoned' = abandoned
  <2>1. ThrownInv' /\ HistoryInv'
    BY <1>6, <1>8, <1>9, <1>e DEF IInv, ThrownInv, HistoryInv
  <2>2. BodiesAreClosed'
    BY <1>6, <1>9, <1>e DEF IInv, BodiesAreClosed
  <2> QED BY <1>4, <1>5, <2>1, <2>2 DEF IInv
<1>10. ASSUME outcome = Http!Thrown("IllegalStateException"),
              NEW b \in Abandoned, b.call = "player",
              b.ended = Http!Thrown("IllegalStateException"), abandoned' = abandoned \cup {b}
       PROVE  IInv'
  <2>1. verdict' \in {Thrown("IllegalStateException"), Thrown("CancellationException")}
    BY <1>7, <1>10
  <2>2. ThrownInv' /\ HistoryInv'
    BY <1>8, <1>10, <1>e, <2>1 DEF IInv, ThrownInv, HistoryInv, Thrown, Pending
  <2>3. BodiesAreClosed'
    BY <1>6, <1>10, <1>e, <2>1 DEF IInv, BodiesAreClosed
  <2> QED BY <1>4, <1>5, <2>2, <2>3 DEF IInv
<1> QED BY <1>5, <1>9, <1>10

LEMMA NextIInv == IInv /\ [RequestsNext]_allVars => IInv'
<1> SUFFICES ASSUME IInv, [RequestsNext]_allVars PROVE IInv'
  OBVIOUS
<1>1. CASE HttpStep
  BY <1>1, HttpStepKeeps
<1>2. CASE SessionEnsured \/ TakeAnswer
  BY <1>2, SessionEnsuredKeeps, TakeAnswerKeeps
<1>3. ASSUME [ChainEnd]_vars, UNCHANGED <<call, sessionInitialized, abandoned>> PROVE IInv'
  <2>1. FallbackInv'
    BY <1>3, NextFallback DEF Next, IInv
  <2>2. CallInv'
    BY <1>3, NextCall DEF IInv
  <2>3. verdict' = Pending => verdict = Pending
    BY <1>3 DEF ChainEnd, vars, Thrown, Pending
  <2>4. verdict' # verdict => verdict = Pending
    BY <1>3 DEF ChainEnd, vars
  <2>5. ThrownInv' /\ HistoryInv' /\ BodiesAreClosed'
    BY <1>3, <2>3, <2>4 DEF IInv, ThrownInv, HistoryInv, BodiesAreClosed, call
  <2> QED BY <2>1, <2>2, <2>5 DEF IInv
<1>4. CASE UNCHANGED allVars
  BY <1>3, <1>4 DEF allVars
<1> QED BY <1>1, <1>2, <1>3, <1>4 DEF RequestsNext, Done

LEMMA SpecIInv == RequestsSpec => []IInv
BY InitIInv, NextIInv, PTL DEF RequestsSpec

-----------------------------------------------------------------------------

(* The variables of the fallback and of the HTTP call have their types; a  *)
(* call throws only the errors of CallErrors.                              *)
THEOREM TypeCorrect == RequestsSpec => []RequestsTypeOK
<1>1. IInv => RequestsTypeOK
  BY DEF IInv, FallbackInv, CallInv, HistoryInv, RequestsTypeOK
<1> QED BY <1>1, SpecIInv, PTL

(* Whatever the chain, the error a caller sees is the one determined by    *)
(* all answers, and it is thrown only after every client was asked.        *)
THEOREM VerdictCorrect == RequestsSpec => []ExhaustionVerdict
<1>1. IInv => ExhaustionVerdict
  BY DEF IInv, FallbackInv
<1> QED BY <1>1, SpecIInv, PTL

(* Whatever the chain, a response is credited to the client that gave it   *)
(* and every client before it failed.                                      *)
THEOREM WinnerCorrect == RequestsSpec => []WinnerIsFirst
<1>1. IInv => WinnerIsFirst
  BY DEF IInv, FallbackInv
<1> QED BY <1>1, SpecIInv, PTL

(* In each call of the chain, the response returned is the first that      *)
(* needs no retry, or the last of maxRetries + 1, and no other response is *)
(* left open.                                                              *)
THEOREM LastWordCorrect == RequestsSpec => []LastWordReturned
<1>1. IInv => LastWordReturned
  BY DEF IInv, CallInv, LastWordReturned
<1> QED BY <1>1, SpecIInv, PTL

(* The pauses of each call grow linearly and none follows the last request.*)
THEOREM BackoffCorrect == RequestsSpec => []BackoffIsLinear
<1>1. IInv => BackoffIsLinear
  <2> SUFFICES ASSUME IInv PROVE Http!BackoffIsLinear
    BY DEF BackoffIsLinear
  <2>1. CASE pc = "over"
    BY <2>1 DEF IInv, CallInv, RoundInv, Http!BackoffIsLinear, Http!TypeOK, Pauses
  <2>2. CASE pc # "over"
    BY <2>2 DEF IInv, CallInv, RoundInv, Http!BackoffIsLinear, Http!TypeOK, Pauses, Http!Pending
  <2> QED BY <2>1, <2>2
<1> QED BY <1>1, SpecIInv, PTL

(* Over a chain of any length, with any number of retries, a body is left  *)
(* open only by a refused retry: one of the homepage, which the extraction *)
(* survives, and one of a client, which it does not.                       *)
THEOREM BodiesCorrect == RequestsSpec => []BodiesAreClosed
<1>1. IInv => BodiesAreClosed
  BY DEF IInv
<1> QED BY <1>1, SpecIInv, PTL
=============================================================================

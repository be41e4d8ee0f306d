--------------------------- MODULE PlayerRequests ---------------------------
(***************************************************************************)
(* InnerTubeClient.fetchPlayerResponse between its neighbours: each client *)
(* that the fallback (ClientFallback) asks is one HTTP call with the       *)
(* library's retries (HttpRetry), and what the fallback takes for the      *)
(* client's answer is what fetchPlayerResponse makes of the outcome. A     *)
(* client that needs the session has ensureSession GET the homepage first, *)
(* in a call of its own with the same retries.                             *)
(***************************************************************************)
EXTENDS ClientFallback, RetryPolicy, FiniteSets

CONSTANT SessionClients \* those that fetchPlayerResponse calls ensureSession for

ASSUME SessionAssumption == SessionClients \subseteq Clients

VARIABLES
    pc, attempt, lastResponse, open, outcome, slept, codes, \* of the HTTP call
    sessionInitialized,
    abandoned   \* history: the responses that no one closed when their call was over

Http == INSTANCE HttpRetry

call == <<pc, attempt, lastResponse, open, outcome, slept, codes>>
allVars == <<vars, call, sessionInitialized, abandoned>>

(* An earlier or concurrent extraction may have made the session.          *)
RequestsInit ==
    /\ Init /\ Http!Init
    /\ sessionInitialized \in BOOLEAN
    /\ abandoned = {}

\* The HTTP call made now is ensureSession's, not yet the client's own.
AtHomepage ==
    /\ verdict = Pending /\ tried < Len(Chain)
    /\ Chain[tried + 1] \in SessionClients
    /\ ~sessionInitialized

(* A step of the HTTP call made for the client that is being asked.        *)
HttpStep ==
    /\ verdict = Pending /\ tried < Len(Chain)
    /\ outcome = Http!Pending
    /\ Http!Next
    /\ UNCHANGED <<vars, sessionInitialized, abandoned>>

\* response.isSuccessful
Successful(code) == code \in 200 .. 299

(* fetchPlayerResponse, by the outcome of execute(). A call that was       *)
(* cancelled meanwhile ends with that.                                     *)
AnswersTo(out) ==
    [kind : {"cancelled"}]
    \cup CASE out = Http!Thrown("IOException") -> [kind : {"noResponse"}]
           [] out = Http!Thrown("IllegalStateException") -> [kind : {"retryRefused"}]
           [] out.kind = "returned" ->
                IF Successful(codes[out.response])
                THEN {a \in Answers : a.kind \in {"bodyLost", "badJson", "response"}}
                ELSE [kind : {"httpError"}]

\* A bug that LeftOpen could have: use { } is left out.
LeftOpenUnused == open

\* response.use closes what it is called on, however it is left.
LeftOpen == IF outcome.kind = "returned" THEN open \ {outcome.response} ELSE open

(* The HTTP call, which was made of the purpose, is over and another may   *)
(* begin. What is still open then stays so.                                *)
EndOfCall(purpose) ==
    /\ outcome # Http!Pending
    /\ abandoned' = abandoned \cup
            {[call |-> purpose, turn |-> tried, response |-> r, ended |-> outcome] : r \in LeftOpen}
    /\ pc' = "proceed" /\ attempt' = 0 /\ lastResponse' = 0
    /\ open' = {} /\ outcome' = Http!Pending
    /\ slept' = 0 /\ codes' = << >>

(* The rest of ensureSession: whatever the homepage's code or exception,   *)
(* and whether or not its body could be read, it is not asked again.       *)
SessionEnsured ==
    /\ AtHomepage
    /\ EndOfCall("homepage")
    /\ sessionInitialized' = TRUE
    /\ UNCHANGED vars

(* What the loop does with the client's answer.                            *)
TakeAnswer ==
    /\ ~AtHomepage
    /\ EndOfCall("player")
    /\ \E a \in AnswersTo(outcome) : Turn(a)
    /\ UNCHANGED sessionInitialized

RequestsNext ==
    \/ HttpStep
    \/ SessionEnsured
    \/ TakeAnswer
    \/ (ChainEnd \/ Done) /\ UNCHANGED <<call, sessionInitialized, abandoned>>

(* OkHttp's timeouts end every exchange, and the rest is sequential code.  *)
RequestsSpec == RequestsInit /\ [][RequestsNext]_allVars /\ WF_allVars(RequestsNext)

-----------------------------------------------------------------------------

Abandoned ==
    [call : {"homepage", "player"}, turn : 0 .. Len(Chain), response : Nat,
     ended : {Http!Returned(r) : r \in 1 .. maxRetries + 1}
             \cup {Http!Thrown(e) : e \in {"IOException", "IllegalStateException"}}]

RequestsTypeOK ==
    /\ TypeOK /\ Http!TypeOK
    /\ sessionInitialized \in BOOLEAN
    /\ abandoned \subseteq Abandoned

\* The properties of the call, of each call of an extraction.
LastWordReturned == Http!LastWordReturned
BackoffIsLinear == Http!BackoffIsLinear

(***************************************************************************)
(* How many connections an extraction can lose to bodies that nobody       *)
(* closes: whatever the codes, the exceptions and the way the answers are  *)
(* taken, only a call whose retry was refused leaves one open, at most one *)
(* of a client, which ends the extraction, and at most one of the          *)
(* homepage, which goes unnoticed because ensureSession swallows the       *)
(* exception (HttpClientProvider.kt:28-36, InnerTubeClient.kt:57-68, 78-93)*)
(***************************************************************************)
BodiesAreClosed ==
    \A b \in abandoned :
        /\ b.ended = Http!Thrown("IllegalStateException")
        /\ \A d \in abandoned : d.call = b.call => d = b
        /\ b.call = "player" =>
            verdict \in {Thrown("IllegalStateException"), Thrown("CancellationException")}
        /\ b.call = "homepage" => sessionInitialized /\ Chain[b.turn + 1] \in SessionClients

(***************************************************************************)
(* InnerTubeClientTest.kt:90 "429 is retried and succeeds on third         *)
(* attempt": a retry is made, it is not refused by the HTTP client.        *)
(***************************************************************************)
RetryIsMade == outcome # Http!Thrown("IllegalStateException")
=============================================================================

------------------------------ MODULE HttpRetry ------------------------------
(***************************************************************************)
(* RetryInterceptor.intercept: one HTTP call of the library. The request   *)
(* is sent again, after a pause, while the server answers with a code that *)
(* asks for it, at most maxRetries times more.                             *)
(*                                                                         *)
(* What proceed does is OkHttp's: it returns a response whose body is open *)
(* unless it is empty, it throws IOException, and it throws                *)
(* IllegalStateException when the body of an earlier response of the same  *)
(* call is still open.                                                     *)
(***************************************************************************)
EXTENDS RetryPolicy, Sequences

VARIABLES
    pc,             \* where intercept is
    attempt,        \* local variable
    lastResponse,   \* local variable: the number of a response, or 0 for null
    open,           \* the responses whose bodies are open
    outcome,        \* how intercept ended
    slept,          \* time spent in Thread.sleep, in units of 500 ms
    codes           \* history: the code of every response

vars == <<pc, attempt, lastResponse, open, outcome, slept, codes>>

Pending == [kind |-> "pending"]
Returned(r) == [kind |-> "returned", response |-> r]
Thrown(e) == [kind |-> "thrown", exception |-> e]

\* The response at hand.
response == Len(codes)

-----------------------------------------------------------------------------

Init ==
    /\ pc = "proceed"
    /\ attempt = 0 /\ lastResponse = 0
    /\ open = {} /\ outcome = Pending
    /\ slept = 0 /\ codes = << >>

(* chain.proceed returns.                                                  *)
Answer(code, empty) ==
    /\ pc = "proceed" /\ pc' = "test"
    /\ open = {}
    /\ codes' = Append(codes, code)
    /\ open' = IF empty THEN {} ELSE {Len(codes) + 1}
    /\ UNCHANGED <<attempt, lastResponse, outcome, slept>>

(* chain.proceed throws IOException: no connection, or none in time.       *)
Unreachable ==
    /\ pc = "proceed" /\ pc' = "over"
    /\ open = {}
    /\ outcome' = Thrown("IOException")
    /\ UNCHANGED <<attempt, lastResponse, open, slept, codes>>

(* chain.proceed throws: the last response was not closed.                 *)
Refused ==
    /\ pc = "proceed" /\ pc' = "over"
    /\ open # {}
    /\ outcome' = Thrown("IllegalStateException")
    /\ UNCHANGED <<attempt, lastResponse, open, slept, codes>>

(* if (response.code !in retryOnStatusCodes) return response               *)
Accept ==
    /\ pc = "test" /\ pc' = "over"
    /\ codes[response] \notin retryOnStatusCodes
    /\ outcome' = Returned(response)
    /\ UNCHANGED <<attempt, lastResponse, open, slept, codes>>

\* A bug that Reject could have: the comparison is off by one.
RejectOnceMore ==
    /\ pc = "test"
    /\ codes[response] \in retryOnStatusCodes
    /\ open' = open \ {lastResponse}
    /\ lastResponse' = response
    /\ attempt' = attempt + 1
    /\ pc' = IF attempt' <= maxRetries + 1 THEN "sleep" ELSE "giveUp"
    /\ UNCHANGED <<outcome, slept, codes>>

(* The response before this one is closed and this one is kept.            *)
Reject ==
    /\ pc = "test"
    /\ codes[response] \in retryOnStatusCodes
    /\ open' = open \ {lastResponse}
    /\ lastResponse' = response
    /\ attempt' = attempt + 1
    /\ pc' = IF attempt' <= maxRetries THEN "sleep" ELSE "giveUp"
    /\ UNCHANGED <<outcome, slept, codes>>

\* A bug that Sleep could have: the pause doubles.
SleepDoubling ==
    /\ pc = "sleep" /\ pc' = "proceed"
    /\ slept' = slept + 2 ^ attempt
    /\ UNCHANGED <<attempt, lastResponse, open, outcome, codes>>

(* Thread.sleep(500L * attempt)                                            *)
Sleep ==
    /\ pc = "sleep" /\ pc' = "proceed"
    /\ slept' = slept + attempt
    /\ UNCHANGED <<attempt, lastResponse, open, outcome, codes>>

(* After the loop: return lastResponse!!                                   *)
GiveUp ==
    /\ pc = "giveUp" /\ pc' = "over"
    /\ outcome' = Returned(lastResponse)
    /\ UNCHANGED <<attempt, lastResponse, open, slept, codes>>

Done == pc = "over" /\ UNCHANGED vars

Next ==
    \/ \E code \in Codes, empty \in BOOLEAN : Answer(code, empty)
    \/ Unreachable \/ Refused \/ Accept \/ Reject \/ Sleep \/ GiveUp
    \/ Done

Spec == Init /\ [][Next]_vars

-----------------------------------------------------------------------------

TypeOK ==
    /\ pc \in {"proceed", "test", "sleep", "giveUp", "over"}
    /\ attempt \in 0 .. maxRetries + 1
    /\ codes \in Seq(Codes)
    /\ lastResponse \in 0 .. Len(codes)
    /\ open \subseteq 1 .. Len(codes)
    /\ outcome \in {Pending} \cup {Returned(r) : r \in 1 .. Len(codes)}
                  \cup {Thrown(e) : e \in {"IOException", "IllegalStateException"}}
    /\ slept \in Nat

(***************************************************************************)
(* The response a caller gets is the first one that needs no retry, or     *)
(* that of the last of maxRetries + 1 requests, and it is the only one     *)
(* whose body can still be open (RetryInterceptor, HttpClientProvider.kt:  *)
(* 28-37).                                                                 *)
(***************************************************************************)
LastWordReturned ==
    outcome.kind = "returned" =>
        /\ outcome.response = Len(codes)
        /\ \A i \in 1 .. Len(codes) - 1 : codes[i] \in retryOnStatusCodes
        /\ codes[Len(codes)] \notin retryOnStatusCodes => Len(codes) <= maxRetries + 1
        /\ codes[Len(codes)] \in retryOnStatusCodes => Len(codes) = maxRetries + 1
        /\ open \subseteq {outcome.response}

(***************************************************************************)
(* "0.5s, 1s, 1.5s backoff" (HttpClientProvider.kt:34): however the call   *)
(* ends, its thread slept 500 ms times 1 + 2 + ... over the requests that  *)
(* were sent again, and never once the retries were used up.               *)
(***************************************************************************)
BackoffIsLinear ==
    LET again == IF pc \in {"over", "giveUp"} THEN Len(codes) - 1 ELSE attempt
    IN  pc = "proceed" \/ outcome.kind = "returned" =>
            2 * slept = again * (again + 1)
=============================================================================

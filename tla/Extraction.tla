----------------------------- MODULE Extraction -----------------------------
(***************************************************************************)
(* YouTubeExtractor.extract: calls for one video, one after the other, on  *)
(* one YTDLPDroid. A call looks into the cache, fetches the watch page and *)
(* the player script, runs the client fallback, resolves all formats of    *)
(* the answer in concurrent tasks, selects streams and caches the result.  *)
(* The coroutine of the caller may be cancelled at any moment.             *)
(*                                                                         *)
(* The fallback is the module ClientFallback, run step by step. The signed *)
(* URLs of an answer are made for one version of the player: the one whose *)
(* timestamp the request carried, if it carried any.                       *)
(***************************************************************************)
EXTENDS Naturals, Sequences, SequencesExt, Lists

CONSTANTS
    Clients, Chain,     \* as in ClientFallback
    StsClients,         \* those that send the signatureTimestamp
    Players,            \* player scripts the watch page may name
    StampedPlayers,     \* those in which a timestamp is found
    FormatLists         \* format lists an answer may carry

ASSUME ExtractionAssumption ==
    /\ StsClients \subseteq Clients /\ StampedPlayers \subseteq Players
    /\ << >> \in FormatLists

VARIABLES
    tried, lastError, geoBlockedError, verdict, thrown,  \* fetchWithFallback
    pc,                 \* where the call is
    cancelled,          \* the caller's job was cancelled
    playerJsUrl,        \* the player the prefetch found, or NoPlayer for null
    signatureTimestamp, \* the player it was read from, or NoPlayer for null
    response,           \* the playable answer
    resolvedPlayerJsUrl,
    task,               \* per format: where its task is
    resolvedFormats,    \* places, in the format list, of what awaitAll gave
    outcome,            \* how the call ended
    cached,             \* the entry of the video in the extraction cache
    broken              \* history: tasks that failed by themselves

fallback == <<tried, lastError, geoBlockedError, verdict, thrown>>
prefetch == <<playerJsUrl, signatureTimestamp>>
resolution == <<resolvedPlayerJsUrl, task, resolvedFormats, broken>>
vars == <<fallback, pc, cancelled, prefetch, response, resolution, outcome, cached>>

Fallback == INSTANCE ClientFallback

-----------------------------------------------------------------------------

NoPlayer == "null"
NoResponse == [client |-> "none"]
Pending == [kind |-> "pending"]
Failed(error) == [kind |-> "failed", error |-> error]
Result(kept) ==
    [kind |-> "result", client |-> response.client, list |-> response.formats, kept |-> kept,
     player |-> resolvedPlayerJsUrl, signedFor |-> response.signedFor]

(* A format has its URL in the clear or in a signatureCipher, or neither;  *)
(* and it is an audio, a video or a muxed stream.                          *)
Kinds == {"url", "cipher", "neither"}
Media == {"audio", "video", "muxed"}
FormatRecords == [kind : Kinds, media : Media]

ASSUME FormatAssumption == FormatLists \subseteq Seq(FormatRecords)

allFormats == response.formats
Tasks == DOMAIN allFormats

Init ==
    /\ Fallback!Init
    /\ pc = "idle" /\ cancelled = FALSE
    /\ playerJsUrl = NoPlayer /\ signatureTimestamp = NoPlayer
    /\ response = NoResponse
    /\ resolvedPlayerJsUrl = NoPlayer /\ task = << >> /\ resolvedFormats = << >>
    /\ broken = {}
    /\ outcome = Pending /\ cached = Pending

Goto(from, to) == pc = from /\ pc' = to

\* The call ends and its locals go out of scope.
End(how) ==
    /\ pc' = "over"
    /\ outcome' = how

(* A call for the video; the locals of the last one are forgotten.         *)
Call ==
    /\ pc \in {"idle", "over"} /\ pc' = "lookup"
    /\ cancelled' = FALSE
    /\ tried' = 0 /\ lastError' = Fallback!NoError /\ geoBlockedError' = FALSE
    /\ verdict' = Fallback!Pending /\ thrown' = << >>
    /\ playerJsUrl' = NoPlayer /\ signatureTimestamp' = NoPlayer
    /\ response' = NoResponse /\ resolvedPlayerJsUrl' = NoPlayer
    /\ task' = << >> /\ resolvedFormats' = << >> /\ broken' = {}
    /\ outcome' = Pending
    /\ UNCHANGED cached

(* The job of the caller is cancelled (its view model is cleared).         *)
Cancel ==
    /\ pc \notin {"idle", "over"}
    /\ ~cancelled /\ cancelled' = TRUE
    /\ UNCHANGED <<fallback, pc, prefetch, response, resolution, outcome, cached>>

(* extractionCache.get, a hit.                                             *)
CacheHit ==
    /\ pc = "lookup" /\ cached # Pending
    /\ End(cached)
    /\ UNCHANGED <<fallback, cancelled, prefetch, response, resolution, cached>>

(* No entry, or one that has expired.                                      *)
CacheMiss ==
    /\ Goto("lookup", "page")
    /\ cached' = Pending
    /\ UNCHANGED <<fallback, cancelled, prefetch, response, resolution, outcome>>

(* runCatching { fetchPlayerJsUrl }: the URL, or null after any exception, *)
(* the cancellation of the caller among them.                              *)
PrefetchUrl ==
    /\ pc = "page"
    /\ \/ ~cancelled /\ playerJsUrl' \in Players /\ pc' = "script"
       \/ playerJsUrl' = NoPlayer /\ pc' = "ask"
    /\ UNCHANGED <<fallback, cancelled, signatureTimestamp, response, resolution,
                   outcome, cached>>

(* runCatching { fetchPlayerJs, extractSignatureTimestamp }.               *)
PrefetchScript ==
    /\ Goto("script", "ask")
    /\ \/ ~cancelled /\ playerJsUrl \in StampedPlayers /\ signatureTimestamp' = playerJsUrl
       \/ signatureTimestamp' = NoPlayer
    /\ UNCHANGED <<fallback, cancelled, playerJsUrl, response, resolution, outcome, cached>>

(* One turn of the fallback; every request of a cancelled caller ends in a *)
(* CancellationException, and of no other.                                 *)
Ask ==
    /\ pc = "ask"
    /\ \/ \E a \in Fallback!Answers : (a.kind = "cancelled") = cancelled /\ Fallback!Turn(a)
       \/ Fallback!ChainEnd
    /\ UNCHANGED <<pc, cancelled, prefetch, response, resolution, outcome, cached>>

(* The fallback throws.                                                    *)
AskFails ==
    /\ pc = "ask" /\ verdict.kind = "thrown"
    /\ End(Failed(verdict.error))
    /\ UNCHANGED <<fallback, cancelled, prefetch, response, resolution, cached>>

(* The fallback returns a playable answer: of a live stream or not, with   *)
(* details and streaming data or without.                                  *)
AskReturns ==
    /\ Goto("ask", "checks") /\ verdict.kind = "returned"
    /\ \E details \in {"none", "live", "video"}, data \in BOOLEAN, list \in FormatLists :
        /\ ~data => list = << >>
        /\ response' =
                    [client |-> verdict.client, details |-> details,
                     streamingData |-> data, formats |-> list,
                     signedFor |-> IF verdict.client \in StsClients
                                   THEN signatureTimestamp ELSE NoPlayer]
    /\ UNCHANGED <<fallback, cancelled, prefetch, resolution, outcome, cached>>

(* isLive, extractVideoInfo and the test of streamingData: the first that  *)
(* fails ends the call.                                                    *)
ChecksFail ==
    /\ pc = "checks"
    /\ \/ response.details = "live" /\ End(Failed("LiveStreamNotSupported"))
       \/ response.details = "none" /\ End(Failed("IllegalStateException"))
       \/ response.details = "video" /\ ~response.streamingData /\ End(Failed("NoStreamsFound"))
    /\ UNCHANGED <<fallback, cancelled, prefetch, response, resolution, cached>>

\* Every format gets a task of its own.
Launch(url) ==
    /\ resolvedPlayerJsUrl' = url
    /\ task' = [i \in Tasks |-> "new"]
    /\ UNCHANGED <<resolvedFormats, broken>>

\* A bug that UsePrefetched could have: the watch page is asked once more.
UseFreshUrl ==
    /\ Goto("checks", "tasks")
    /\ response.details = "video" /\ response.streamingData
    /\ playerJsUrl # NoPlayer
    /\ \E url \in Players : Launch(url)
    /\ UNCHANGED <<fallback, cancelled, prefetch, response, outcome, cached>>

(* The prefetched URL is used again.                                       *)
UsePrefetched ==
    /\ Goto("checks", "tasks")
    /\ response.details = "video" /\ response.streamingData
    /\ playerJsUrl # NoPlayer
    /\ Launch(playerJsUrl)
    /\ UNCHANGED <<fallback, cancelled, prefetch, response, outcome, cached>>

(* The prefetch had failed: the watch page is fetched again.               *)
Refetch ==
    /\ Goto("checks", "tasks")
    /\ response.details = "video" /\ response.streamingData
    /\ playerJsUrl = NoPlayer /\ ~cancelled
    /\ \E url \in Players : Launch(url)
    /\ UNCHANGED <<fallback, cancelled, prefetch, response, outcome, cached>>

(* This time the failure is the call's.                                    *)
RefetchFails ==
    /\ pc = "checks"
    /\ response.details = "video" /\ response.streamingData
    /\ playerJsUrl = NoPlayer
    /\ End(Failed(IF cancelled THEN "CancellationException" ELSE "PlayerJsFetchFailed"))
    /\ UNCHANGED <<fallback, cancelled, prefetch, response, resolution, cached>>

-----------------------------------------------------------------------------

Move(i, from, to) == pc = "tasks" /\ i \in Tasks /\ task[i] = from /\ task' = [task EXCEPT ![i] = to]

(* buildPlayableUrl gets the player script.                                *)
TaskScript(i) ==
    /\ Move(i, "new", "script")
    /\ ~cancelled
    /\ UNCHANGED <<fallback, pc, cancelled, prefetch, response, resolvedPlayerJsUrl,
                   resolvedFormats, broken, outcome, cached>>

(* It deciphers the URL and the n parameter.                               *)
TaskResolves(i) ==
    /\ Move(i, "script", "done")
    /\ allFormats[i].kind # "neither"
    /\ UNCHANGED <<fallback, pc, cancelled, prefetch, response, resolvedPlayerJsUrl,
                   resolvedFormats, broken, outcome, cached>>

\* A bug that TaskFails could have: the task starts over.
TaskFailsRetries(i) ==
    /\ Move(i, "script", "new")
    /\ UNCHANGED <<fallback, pc, cancelled, prefetch, response, resolvedPlayerJsUrl,
                   resolvedFormats, broken, outcome, cached>>

(* It throws: the script is not to be had, the format has no URL, or a     *)
(* JavaScript function is not found or fails. runCatching makes it null.   *)
TaskFails(i) ==
    /\ Move(i, "new", "null") \/ Move(i, "script", "null")
    /\ broken' = broken \cup {i}
    /\ UNCHANGED <<fallback, pc, cancelled, prefetch, response, resolvedPlayerJsUrl,
                   resolvedFormats, outcome, cached>>

(* A task that had not started when the caller was cancelled never runs;   *)
(* in one that had, fetchPlayerJs may throw CancellationException.         *)
TaskCancelled(i) ==
    /\ Move(i, "new", "null") \/ Move(i, "script", "null")
    /\ cancelled
    /\ UNCHANGED <<fallback, pc, cancelled, prefetch, response, resolvedPlayerJsUrl,
                   resolvedFormats, broken, outcome, cached>>

AllOver == \A i \in Tasks : task[i] \in {"done", "null"}

\* The tasks that gave a URL, in the order of the answer's formats.
Resolved == Filter([i \in Tasks |-> i], {i \in Tasks : task[i] = "done"})

\* A bug that AwaitAll could have: URLs are collected as tasks complete.
AwaitAllAsCompleted ==
    /\ Goto("tasks", "select")
    /\ AllOver /\ ~cancelled
    /\ resolvedFormats' \in {Resolved, Reverse(Resolved)}
    /\ UNCHANGED <<fallback, cancelled, prefetch, response, resolvedPlayerJsUrl, task,
                   broken, outcome, cached>>

\* A bug that AwaitAll could have: each await is guarded by runCatching.
AwaitAllCaught ==
    /\ Goto("tasks", "select")
    /\ AllOver
    /\ resolvedFormats' = Resolved
    /\ UNCHANGED <<fallback, cancelled, prefetch, response, resolvedPlayerJsUrl, task,
                   broken, outcome, cached>>

(* awaitAll().filterNotNull(), the coroutineScope of a live caller.        *)
AwaitAll ==
    /\ Goto("tasks", "select")
    /\ AllOver /\ ~cancelled
    /\ resolvedFormats' = Resolved
    /\ UNCHANGED <<fallback, cancelled, prefetch, response, resolvedPlayerJsUrl, task,
                   broken, outcome, cached>>

(* coroutineScope waits for its tasks and throws CancellationException.    *)
AwaitCancelled ==
    /\ pc = "tasks"
    /\ AllOver /\ cancelled
    /\ End(Failed("CancellationException"))
    /\ UNCHANGED <<fallback, cancelled, prefetch, response, resolution, cached>>

\* FormatSelector.select has a stream to return as audio.
Selectable == \E k \in DOMAIN resolvedFormats : allFormats[resolvedFormats[k]].media # "video"

(* No format was resolved, or none that has sound.                         *)
SelectFails ==
    /\ pc = "select"
    /\ ~Selectable
    /\ End(Failed("NoStreamsFound"))
    /\ UNCHANGED <<fallback, cancelled, prefetch, response, resolution, cached>>

\* A bug that Finish could have: the result is cached, but the error is lost.
FinishAnyway ==
    /\ pc = "select"
    /\ End(Result(resolvedFormats))
    /\ cached' = outcome'
    /\ UNCHANGED <<fallback, cancelled, prefetch, response, resolution>>

(* The result is built, cached if it lives long enough, and returned.      *)
Finish ==
    /\ pc = "select"
    /\ Selectable
    /\ End(Result(resolvedFormats))
    /\ cached' \in {outcome', cached}
    /\ UNCHANGED <<fallback, cancelled, prefetch, response, resolution>>

Task(i) == TaskScript(i) \/ TaskResolves(i) \/ TaskFails(i) \/ TaskCancelled(i)

Step ==
    \/ CacheHit \/ CacheMiss
    \/ PrefetchUrl \/ PrefetchScript
    \/ Ask \/ AskFails \/ AskReturns
    \/ ChecksFail \/ UsePrefetched \/ Refetch \/ RefetchFails
    \/ pc = "tasks" /\ \E i \in Tasks : Task(i)
    \/ AwaitAll \/ AwaitCancelled
    \/ SelectFails \/ Finish

Next == Call \/ Cancel \/ Step

(* The dispatcher runs the call and its tasks; OkHttp's timeouts end every *)
(* request. That an evaluation of JavaScript ends is an assumption: QuickJS*)
(* is given no deadline (quickjs_bridge.cpp:32). Whether there are calls   *)
(* and cancellations is the application's business.                        *)
Spec == Init /\ [][Next]_vars /\ WF_vars(Step)

-----------------------------------------------------------------------------

Responses ==
    [client : Clients, details : {"none", "live", "video"},
     streamingData : BOOLEAN, formats : FormatLists, signedFor : StampedPlayers \cup {NoPlayer}]

Results ==
    [kind : {"result"}, client : Clients, list : FormatLists, kept : Seq(Nat),
     player : Players, signedFor : StampedPlayers \cup {NoPlayer}]

Errors == Fallback!CallErrors \cup {"IllegalStateException", "NoStreamsFound", "PlayerJsFetchFailed"}

TypeOK ==
    /\ Fallback!TypeOK
    /\ pc \in {"idle", "lookup", "page", "script", "ask", "checks", "tasks", "select", "over"}
    /\ cancelled \in BOOLEAN
    /\ playerJsUrl \in Players \cup {NoPlayer}
    /\ signatureTimestamp \in StampedPlayers \cup {NoPlayer}
    /\ response \in Responses \cup {NoResponse}
    /\ resolvedPlayerJsUrl \in Players \cup {NoPlayer}
    /\ pc \in {"tasks", "select"} =>
            /\ response # NoResponse
            /\ task \in [Tasks -> {"new", "script", "done", "null"}]
            /\ broken \subseteq Tasks
    /\ cached \in Results \cup {Pending}
    /\ outcome \in Results \cup {Pending} \cup {Failed(e) : e \in Errors}

(***************************************************************************)
(* A result was selected among all formats that could be resolved: one is  *)
(* missing only because its own task failed, never because the caller was  *)
(* cancelled meanwhile (runCatching swallows that exception in every task, *)
(* YouTubeExtractor.kt:71), nor because another format failed.             *)
(***************************************************************************)
OmitsOnlyFailures ==
    outcome.kind = "result" /\ resolvedPlayerJsUrl # NoPlayer =>
        \A i \in Tasks : (\E k \in DOMAIN outcome.kept : outcome.kept[k] = i) <=> i \notin broken

(***************************************************************************)
(* The formats reach FormatSelector in the order of the answer, whatever   *)
(* the order in which the tasks ended: it resolves ties by that order.     *)
(***************************************************************************)
KeepsOrder ==
    outcome.kind = "result" =>
        \A j, k \in DOMAIN outcome.kept : j < k => outcome.kept[j] < outcome.kept[k]

(***************************************************************************)
(* If the request carried the timestamp of a player, the signatures of the *)
(* answer are deciphered with the script of that player, though the watch  *)
(* page may name another one by then (YouTubeExtractor.kt:43-52 and 63-65).*)
(***************************************************************************)
SignatureMatchesPlayer ==
    outcome.kind = "result" /\ outcome.signedFor # NoPlayer =>
        outcome.player = outcome.signedFor

(***************************************************************************)
(* What is cached, and served to later calls without a request, has a      *)
(* stream that can be returned as audio: a call that fails caches nothing. *)
(***************************************************************************)
CachedIsPlayable ==
    cached # Pending =>
        \E k \in DOMAIN cached.kept : cached.list[cached.kept[k]].media # "video"

(***************************************************************************)
(* Every call ends, cancelled or not, however many of its tasks fail.      *)
(***************************************************************************)
CallsEnd == pc = "lookup" ~> pc = "over"
=============================================================================

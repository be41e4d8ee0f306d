# TLA+ for yt-dlp-android

`src/` is an Android library (Kotlin, with a small JNI bridge to QuickJS) that
turns a YouTube video id into playable stream URLs. Its core is
`YouTubeExtractor.extract`: it asks YouTube's InnerTube endpoint through a chain
of client identities, downloads the player script, deciphers the URLs of the
formats in concurrent coroutines, selects streams and caches the result.
`YTDLPDroid` shares one extractor, one OkHttp client and all caches among the
coroutines of an application, on `Dispatchers.IO`.

This directory holds models of that core, the TLC configurations that check
them, and proofs of their safety properties.

## The system

Paths are below `src/library/src/main/kotlin/com/ytdlpdroid/`.

| Component | State | Operations | What makes it correct |
|---|---|---|---|
| Client fallback: `extractor/YouTubeExtractor.kt` `fetchWithFallback`, `innertube/PlayerResponseParser.kt` | locals of the loop | ask the next client, classify its answer, return or throw | the first playable answer, credited to its client; else the most specific error |
| Extraction: `YouTubeExtractor.extract`, `YTDLPDroid.extract` | locals of the call, one task a format | prefetch, fallback, checks, tasks, selection, caching; cancellation | a result omits only formats that failed, in order; signatures fit the player; every call ends |
| Extraction cache: `cache/ExtractionCache.kt`, `cache/MemoryCache.kt` | an access-ordered `LinkedHashMap` under a monitor, with deadlines | `get`, `put`, eviction | bounded, LRU, never staler than the margin accounts for |
| Player script cache: `decipher/PlayerJsRepository.kt`, `cache/DiskCache.kt` | an unlocked `LinkedHashMap`, a directory of files | `fetchPlayerJs` | the text returned is the script |
| InnerTube session: `innertube/InnerTubeClient.kt` | two volatile fields, a monitor, a cookie jar | `ensureSession`, `fetchPlayerResponse` | one homepage request; all WEB requests alike |
| HTTP retry: `network/HttpClientProvider.kt` | locals of `intercept` | send, send again after a pause, give up | the last response, the right number of requests |
| Deciphering: `decipher/DecipherService.kt`, `SignatureDecipherer.kt`, `NParamDecipherer.kt` | two unlocked `HashMap`s of functions | find, test and run functions of the script | a function of the right player; fallbacks only with cause |
| JavaScript engine: `js/QuickJsEngine.kt`, `cpp/quickjs_bridge.cpp` | a QuickJS runtime per evaluation; characters of the arguments | `execute`, `executeWithPlayerJs` | failures become null, smaller limits are tried, each runtime is torn down with nothing left |
| QuickJS: `cpp/quickjs/` (vendored) | the heap of a runtime: counters, lists of the collector, weak references, pending jobs | allocation, references, `JS_RunGC`, `JS_FreeRuntime` | frees all garbage and nothing else; its assertions hold |
| Format selection: `format/FormatSelector.kt`, `Codec.kt` | none | `select` | the best format the options allow |
| Parsers and tables: `MimeTypeParser`, `JsFunctionExtractor`, `VideoIdParser`, `InnerTubeClientConfig`, the response mapping | none | pure functions | the right value |
| Sample application: `src/sample` | a state flow | `play` | not part of the library |

How they interact: the application calls `extract`; it looks into the extraction
cache, calls the script cache twice (page, script), then the fallback, which
calls the InnerTube client, which goes through the retry interceptor. The format
tasks call the script cache and the decipherers, which call the engine, which
makes a QuickJS runtime, runs the script in it and tears it down. All of
this is direct calls and shared objects; there are no queues and no callbacks.
What is hard: coroutines of one call and of several share caches, some of which
have no lock; a process may die in a file write; the caller may be cancelled;
JavaScript evaluations fail under memory pressure; a clock runs between reads;
and whatever a script leaves behind, in cycles, jobs and exceptions, the bridge
has to free.

## Modules and how they correspond to the code

Actions are named for the code's functions, or for the outcome of one. A comment
before an action says which call it is; `map` in `PROJECT.json` gives the lines.
Operators and actions whose names extend another's (`ChainEndRaw`, `ComputeTtlNoMargin`)
under a comment "A bug that ... could have" are variants no `Next` uses; each
shows that a property notices such a bug.

* **ClientFallback**: one call of `fetchWithFallback`. An answer is what one
  HTTP exchange becomes: a parsed response by status and by whether its reason
  speaks of a region, or one of six ways to get none. `Turn` is one round of the
  loop, with one action for each `catch` clause and `Escape` for the exceptions
  none of them takes. `thrown` is a history variable.
* **ExtractionCache** (over **LinkedHashMaps**): concurrent calls of `extract`
  as the cache sees them. `get` and `put` of `MemoryCache` are `@Synchronized`
  and one step each; the clock may tick between any two steps, and is read where
  the code reads it: at the lookup, at the stamp (`YouTubeExtractor.kt:88`), for
  the time to live (`ExtractionCache.kt:12`) and at the put. An answer announces
  the lifetime of its URLs or leaves it out; then `Stamp` takes `DefaultLifetime`
  for it (`AssumedLifetime`), as line 81 takes six hours, whatever the CDN will do.
  An announced lifetime is taken to be the true one. `mintedAt`, `deadline`,
  `announced`, `cachedAt`, `missedAt` and `usedSince` are history.
* **PlayerJsCache**: threads in `fetchPlayerJs`. `writeText` and `readText` are
  loops over a buffer, so a file is written and read piece by piece, at each
  writer's own offset, after a truncation. `memCache` has no lock; the model
  takes it that an access that races with another may miss an entry or lose a
  put, and that an iterator whose map was reordered throws
  `ConcurrentModificationException` (`PlayerJsRepository.kt:35`). `Crash` loses
  the memory of the process and keeps the files; `WriteFails` is a full disk.
  `damaged`, `faulted`, `served` and `raced` are history.
* **InnerTubeSession**: threads in `fetchPlayerResponse`; `ensureSession` is
  double-checked locking, one action for each read, write and exchange; the jar
  (`store`) is replaced by every response that sets cookies.
  `InitLooksAtomic` says that the locking implements **OneTimeInit**, an abstract
  specification in which the session is made in one step: the refinement mapping
  hides the monitor, the exchange and the two reads of the flag.
* **HttpRetry** (over **RetryPolicy**): `RetryInterceptor.intercept` and what
  OkHttp does at `proceed`, which is external: a response has an open body unless
  it is empty, and a second exchange is refused while one is open.
* **PlayerRequests** composes ClientFallback with an instance of HttpRetry:
  each client asked is one HTTP call with its retries, and `AnswersTo` is what
  `fetchPlayerResponse` makes of the call's outcome. A client in `SessionClients`
  (WEB) has `ensureSession` GET the homepage first, unless the session is there
  (`AtHomepage`), in a call of its own through the same interceptor; whatever
  becomes of it, `SessionEnsured` goes on to the client's own call. Every call
  ends in `EndOfCall`. `abandoned` is history: the bodies that nobody closed, over
  the whole chain, with the call that left them. Another thread that holds the
  session's monitor meanwhile is the matter of InnerTubeSession.
* **Extraction** composes: it runs **ClientFallback** step by step as an
  instance, and adds prefetch, checks, tasks, selection, one cache entry and the
  cancellation of the caller (`Cancel`). `runCatching` takes
  CancellationException too, so a cancelled call goes on until `coroutineScope`
  throws; `TaskCancelled` and `AwaitCancelled` are that. `broken` is history.
* **Decipher**: concurrent tasks in `buildPlayableUrl`. `getOrPut` on an
  unlocked `HashMap` is a get, a search and a put (`SigHit`/`SigMiss`,
  `SigFound`, `SigPut`; `NHit`/`NMiss`, `TestPasses`/`TestFails`, `NPut`); a put
  that races with another may be lost. A function is known by the script it was
  found in. What the regular expressions find in a script is a constant of the
  script. An evaluation may fail whatever the code. A run of the whole script may
  also succeed and be of no use: `FullStarved` is memory running out inside one of
  the `try` statements around the player script and in the discovery, `FullThrows`
  is the function found throwing on this token, which the discovery catches, and
  `FullBlank` a result that `takeIf` drops (`QuickJsEngine.kt:30`). All three keep
  the token and try no other limit; `spoilt` is the history of them.
* **JsFunctionExtractor**: `findMatchingBrace` and the cut of
  `extractFunctionBody` as walks over tokens, beside a lexer of JavaScript that
  they are compared with (`CutsWholeBodies`). Decipher extends it, since its
  searches cut their functions with it.
* **QuickJsHeap**: the heap of one runtime (`quickjs.c`). A node is whatever has
  a `JSGCObjectHeader`: an object (functions with their bytecode), a detached
  closure variable, or the context. The script takes any step the interpreter
  could: make an object, a closure or a WeakRef, read and write properties and
  variables, drop a value. Each loop of the collector is one action an entry:
  `FreeZero` (`free_zero_refcount`), `Decref`, `Scan`, `Restore`, `FreeCycle`,
  `Sweep`. The order in which lists are traversed is left open.
* **QuickJsBridge** (over QuickJsHeap): both native methods. Every allocation may
  fail; `Run` is a step of the script, in `JS_Eval` or in the `toString` that
  `JS_ToCString` calls; the teardown is one action for each thing it frees, in the
  order of `evalAndReturn` and `JS_FreeRuntime`, with the collector running in
  between where a count becomes zero.
* **FormatSelection**: `select`, its helpers and the codec detection of
  `MimeTypeParser` as operators over sequences of format records; one behaviour
  is one call (`SelectorSpec`). A codecs string is the set of patterns that are
  found in it. A comparator is the tuple of keys it compares, one after the other.

`MC_*` modules give the constants their values. **Lists** holds Kotlin's `filter`,
`maxWithOrNull` (which keeps the first of equals), comparators and `indexOf`, the
walks over a list as recursive functions. `*Proofs` modules hold the theorems,
**CollectionLemmas** the lemmas about the operators on maps and lists.

## Runs

| Run | Shows | Bounds |
|---|---|---|
| `requests` | `ExhaustionVerdict`, `WinnerIsFirst`, `LastWordReturned`, `BackoffIsLinear`, `BodiesAreClosed`, `Ends` | a chain of 5 clients, one of which needs the session, 3 retries, 4 codes, 2 of them retried |
| `retry_open_body` | violates `RetryIsMade` | the same |
| `cache` | `Bounded`, `HitNotStale`, `OverwritesOnlyRivals`, `LruEviction` | 2 callers, 3 videos, 2 slots, margin 1, an announced lifetime of 2, one of 1 taken for 3, clock to 2 |
| `playerjs` | `QuiescentFilesComplete`, `TornOnlyByRaceOrFault`, `NoNeedlessDownload` | 2 threads, 2 scripts of 3 pieces, memory limit 1, 2 faults |
| `playerjs_cold_start` | violates `ReturnsWholeText` | 1 thread, 1 script of 2 pieces, 1 fault |
| `session` | `OneHomepageGet`, `InitLooksAtomic`, `RequestsEnd` | 3 threads, 1 cookie, 2 visitor values |
| `session_cookies` | violates `InitCookiesReplayed` | 1 thread, 2 cookies |
| `extraction` | `OmitsOnlyFailures`, `KeepsOrder`, `SignatureMatchesPlayer`, `CachedIsPlayable`, `CallsEnd` | 3 clients, 2 players, lists of up to 3 formats, a cancellation anywhere |
| `decipher` | `OwnFunction`, `SentinelHasCause`, `RawTokenHasCause`, `BodyIsWhole`, `TasksEnd` | 2 tasks, 3 players, the 3 memory limits of the code; texts of up to 6 tokens |
| `formats` | `VideoIsBest`, `FailuresOfOthersAreHarmless` | lists of up to 3 of 13 formats, all options, safe and unsafe devices |
| `engine` | `CountsAgree`, `NoDangling`, `ReachableIsKept`, `GarbageIsFound`, `WeakRefsAreSafe`, `Assertions`, `LeavesNothing`, `CollectionProgresses` | 2 objects of the script and the global object, 1 closure variable, 1 property, 1 job, 1 and 2 attempts |
| `engine_oom` | violates `DegradesGracefully` | the same |

`requests`, `cache`, `playerjs` and `decipher` check their type invariants too;
those of the session and the heap are proved, and those of the others left out.
Why the bounds are enough:

* Two racing actors are the least that can overwrite each other's file, put or
  map entry; three threads in `session` make one hold the monitor, one wait and
  one take the fast path. The theorems below have no such bound.
* Five clients instead of the chain's eight: the loop keeps no more of a failure
  than its last error and one flag, so a region block, a later failure, another
  one after it, a success and a client after that are all there is to order. The
  proofs take a chain of any length. Of the four codes one succeeds, one fails
  and two are retried.
* Three videos for two slots make an eviction with a choice. The margin, the
  two lifetimes and the clock give entries that live, expire and are never
  cached, and hits past the deadline, after a short lag, of an entry whose lifetime
  was made up.
* With a memory limit of 1 instead of the code's 3, two scripts are enough to
  evict; three pieces let two writers and a reader interleave in the middle.
* The three clients of `extraction` are one that sends the signature timestamp
  between two that do not. The script of one of its players has a timestamp
  that is found. The format lists have every kind of URL and of media.
* The players of `decipher` are one with both functions, one with a signature
  function that cannot run and an n function that only the discovery finds, and
  one with neither, whose candidate the test rejects. Six tokens after the head
  hold a parameter list, a body and a string with an escape.
* The thirteen formats disagree in every pair of keys that the comparison uses;
  one has codecs no pattern finds, one has no width.
* In `engine`, two objects make a cycle, also through the closure variable and
  through the context, which the functions of the global object refer to; a
  WeakRef may point out of, into and within a cycle. With `Threshold` 3 the
  collector runs whenever all objects are there. `Copies` 1 keeps one reference
  to each object on the stack and `Jobs` 1 one pending job. Attempts are 1 and 2
  instead of 3, since each begins and ends with an empty heap, which
  `LeavesNothing` says. The theorems need none of these bounds.

`cache`, `playerjs` and `engine` use symmetry, over values no action or property
tells apart and with no liveness property; `session`, `requests`, `extraction` and
`decipher` check liveness and use none. Deadlock is checked everywhere: `Done`
steps stand for the caller going on after a call that is over, and `Undefined` in
QuickJsBridge for whatever follows undefined behaviour.

### Fairness

Only what the dispatcher and OkHttp give: a call in progress goes on
(`WF(RequestsNext)` in PlayerRequests, `WF(Step)` in Extraction, `WF` of each thread's or
task's `Step` in InnerTubeSession and Decipher), because coroutines that can run
are run and every exchange ends by a timeout (`HttpClientProvider.kt`). Calls
and cancellations themselves are not fair. Weak fairness is enough for the
monitor, because a thread enters it at most once before the session is there.
**One assumption has no ground in the code**: that each JavaScript
evaluation ends. `JS_Eval` (`quickjs_bridge.cpp:32`) has neither an interrupt
handler nor a deadline. `CallsEnd` and `TasksEnd` hold on that assumption.
QuickJsBridge assumes no fairness: its script may run for ever. That a collection
ends is the action property `CollectionProgresses`, a measure that every step
lowers, which needs none.

## Proofs

For all values of the constants under the named `ASSUME`s, checked by TLAPS:

| Module | Theorems | Inductive invariant |
|---|---|---|
| PlayerRequestsProofs | `TypeCorrect`, `VerdictCorrect`, `WinnerCorrect`, `LastWordCorrect`, `BackoffCorrect`, `BodiesCorrect` | `LoopInv`: while the loop runs, its two locals are the summary of all answers so far, which the properties compute from the history; `RoundInv`: what `attempt`, `lastResponse`, the open body and the time slept are at each place of the interceptor; `ThrownInv`: a client's call that left a body open is the last one of the extraction; `HistoryInv`: what the history may hold |
| ExtractionCacheProofs | `TypeCorrect`, `CacheBounded`, `HitsAreFresh`, `PutsReplaceRivals`, `EvictsLeastRecent` | `ClaimOK` follows one result from stamp to put as the clock runs; `EntryOK` bounds an entry's deadline by its margin, its lag and what a made-up lifetime adds; `RivalOK`: what a caller that missed finds later was put since; `Aged`: each entry's history names every video that stands behind it |
| PlayerJsCacheProofs | `TypeCorrect`, `FilesCorrect`, `TornExplained`, `DownloadsNeeded` | `Covered`: each piece of a file is in place or some writer is still before it, so a truncation is made good by the one who truncated; `Intact`, `Stored`, `Explained`: see below |
| InnerTubeSessionProofs | `TypeCorrect`, `SessionInitOnce`, `VisitorShared`, `SessionInitAtomic` | `Exclusion` of the monitor, `InitOnce`: a request was sent only if the session is there or being made, `Passed`: past `ensureSession` it is there. `SessionInitAtomic` is the refinement of OneTimeInit: each step is one of its steps or a stutter |
| DecipherProofs | `TypeCorrect`, `FunctionsAreOwn`, `SentinelExplained`, `RawTokenExplained`, `BodiesAreWhole` | `CacheOK`: the entry at a script's hash is that script's, or the sentinel with a cause; `PartsOK`, `CodeOK`: what a task has in hand and has made is its own script's, and a task that runs the whole script has a cause. For `BodiesAreWhole`, `Agree` ties the loop to the lexer, see below |
| ExtractionProofs | `SignaturesMatch`, `CachedResultsPlayable`, `OmissionsExplained`, `OrderKept`, `VideoSelectedIsBest`, `OthersAreHarmless` | `OnePlayer`: the timestamp, the answer and the tasks know of no player but the prefetched one; the same of the outcome and of the cached entry, which a later call returns; `Explained`: a task that gave nothing failed, or its caller is cancelled. `SelectorInv`: what is selected is what `select` returns for the list and the options |
| QuickJsHeapProofs | `CountsAlwaysAgree`, `NothingDangles`, `ReachableIsAlwaysKept`, `GarbageIsAlwaysFound`, `WeakRefsStaySafe`, `AssertionsNeverFail`, `CollectionsEnd`, `NothingIsEverLeft`, `HeapTypeCorrect` | `BridgeInv`, see below |

The invariants are needed because no property is inductive: each speaks of the
end of a call, or of a hit, and what makes it true is what actors know on the way
there. `HitsAreFresh` and `PutsReplaceRivals` are action properties, proved from
the same invariant.

`Aged` is about the order of the map: whatever stands behind an entry was used
since that entry was. A full map has `MaxSize` keys behind its eldest, all distinct
and all in that entry's history, which is what `LruEviction` asks of an eviction.
`Explained` of PlayerJsCacheProofs says what threads, the memory cache and the disk
may hold of a script whose file no writer ever failed to finish (`faulted`): a text
is whole or its file was read while it was written (`Intact`), and whoever holds one
found it on disk or has opened the file itself (`Stored`). A crash takes memory and
threads and leaves this of all files but those being written, so both theorems
cover cold starts after any number of crashes.

What a walk over a list returns is proved in CollectionLemmas by induction on its
prefixes. The library's induction takes a predicate as a parameter, which the
provers cannot instantiate; so these proofs take a least counterexample instead
(`LeastElement`). `FilterFacts` says that a filter finds the chosen elements at
increasing places and misses none, `MaxByFacts` that `MaxBy` finds the first of the
greatest. The latter needs that the keys compare (`Ranks`), which `Grades`
and `KeysRank` show of the keys of FormatSelection. From there the selection is said
without lists: the stream selected is the first of the greatest among the elements
of the whole list that pass each filter (`MaxByPicks`), of which there is only one
(`OneFirstBest`) and which the loss of another element does not change
(`FirstBestStays`). FormatSelection's theorems stand in ExtractionProofs, because
selecting is the last step of an extraction and needs the same lemmas.

`BodiesAreWhole` goes by a simulation. Token by token, the loop of
`findMatchingBrace` and the lexer count the same depth and are in the same string
(`Agree`). The loop looks back one character where the lexer remembers an
escape, and the two differ only when that character is escaped itself; so `Agree`
says that the lexer is in a string behind a backslash only if another stands
before it, and `TokenKeepsAgree` that it survives each token but the one
excluded. `LoopFollowsLexer` carries it through the text, up to the
token where both close the body.

The proof about the heap goes by what trial deletion is up to. `Counted` says
whose references `ref_count` holds during each pass: those of the nodes not yet
visited while `gc_decref` runs, of the visited ones while `gc_scan` gives back, of
all at any other time. `ListsInUse` and `Traversed` say how the lists sort the
nodes. From the counts follows `Kept`: when `gc_scan` is over, every root and all
it leads to is in `gc_obj_list`; and, by induction along the traversal, `Least`:
every closed set with the roots holds that list. `FreedHoldNothing` and
`NoDangling` make it safe to free the members of a cycle one by one, `Live` that
a closure variable is freed by the object that has its last reference.
`Husks` and `SlotsHold` say what slots and remains there may be at all. One lemma
an action shows that it keeps this invariant; counting references is reduced to
cardinalities of finite sets. For the bridge, `Accounts` says that each reference
it or the runtime owns is the value, the exception, a job or the context, and
`Stages` which of them there are at each point of a call; so the last collection
starts with no roots, and by `Least` keeps nothing.

Assumptions: a non-empty chain; natural numbers for sizes, margins, lifetimes
(those of the answers and the one made up) and lengths of texts; clients with a
session that are clients (`SessionAssumption`); formats, lists of formats and options that are records of the
code's classes (`FormatAssumption`, `SelectionAssumption`); at least one piece and
one memory limit; finite sets of objects, variables and properties.
`DecipherAssumption` takes scripts to have different
hashes, and PlayerJsCache knows a file by its URL: the code keys both by a 32-bit
`String.hashCode`, so both leave collisions out. `MaxTime`, `MaxFaults`,
`Threshold`, `Copies` and `Jobs` are bounds or settings that the theorems leave
arbitrary.

Only model-checked: the four liveness properties, `Ends`, `RequestsEnd`,
`CallsEnd` and `TasksEnd`, since ENABLED and with it fairness are beyond TLAPS. Every
type invariant, safety invariant and action property that a run checks is a
theorem. The violation runs are counterexamples and have nothing to prove.

## Where the code and its words disagree

The four violation runs:

* `retry_open_body`: the interceptor closes a response one round late, so a
  retry after an answer with a body is refused by OkHttp with
  IllegalStateException. The test that promises the retry
  (`InnerTubeClientTest.kt:90`) uses empty bodies.
* `playerjs_cold_start`: a script file cut short by a crash is served, whole or
  not, by every later process (`DiskCache.kt:14`).
* `session_cookies`: a response that sets other cookies makes the jar forget
  those of the session (`InnerTubeClient.kt:102` against `:22`).
* `engine_oom`: when the second allocation of `JS_NewContextRaw` fails, the
  context is given back but stays in `gc_obj_list` (`quickjs.c:2125`), through which
  `JS_FreeRuntime` then walks; the bridge's limits are there to degrade
  "gracefully [...] instead of crashing" (`quickjs_bridge.cpp:83`).

Others, met while reading; some are visible in the models, none has a run:

* "moving to the next on any failure" (README:304): only YTDLPError is caught;
  ClientFallback's `Escape` is the rest.
* Options are not part of the extraction cache's key, so a call is served the
  streams that the options of another call selected.
* A hit may be past the point where README:275 says to refresh: the cache's
  deadline counts from the put. And where `expiresInSeconds` is missing or no
  number, `YouTubeExtractor.kt:81` makes up six hours: a hit may then be dead for as
  long as these exceed the real lifetime (`Overrun` in `HitNotStale`).
* The homepage's failure is "non-fatal" (`InnerTubeClient.kt:91`): so is that of
  its refused retry, whose open body then holds a connection that nobody closes,
  after an extraction that may succeed. `BodiesAreClosed` allows this one body.
* Concurrent tasks each search the script and test the function, where
  `NParamDeciphererTest.kt:59` has it extracted once (`NParamDecipherer.kt:15`).
* "All errors extend YTDLPError" (README:197): a response without details ends
  in IllegalStateException, and see `Escape`. `AgeRestricted` is never what the
  caller sees: the loop turns it into another error.
* "Failures here are non-fatal" (`YouTubeExtractor.kt:45`): when the prefetch
  fails the watch page is fetched again, and that failure is fatal (`:65`).
* The memory cache of scripts is said to keep two (`PlayerJsRepository.kt:19`);
  the path that reads the disk adds without evicting.
* AV1, which crashes the player on 32-bit x86, is to be given "only if it is the
  sole codec available" (`FormatSelector.kt:17-19` and `76-77`). But line 75 is the
  `else` of `preferH264`: a call that prefers H.264 and finds none gets AV1 on such
  a device although there is VP9. `VideoIsBest` asks for the avoidance only where
  the code has it (`ShunsAV1`). The muxed stream ignores the cap.
* Codecs that no pattern of `MimeTypeParser` finds, as `vp09.00.51.08`, count as
  unknown and lose every tie.
* An escaped backslash at the end of a string, or a brace among the parameters,
  makes `JsFunctionExtractor` cut a function at the wrong brace; `BodyIsWhole`
  excludes just these two.
* The bridge tries smaller memory limits, but the `try` around the player script
  takes the very exception that would make it do so (`FullStarved`); nor are they
  tried after a function that throws or gives a blank (`FullThrows`, `FullBlank`).
  The engine speaks of 128 MB and allows 64.
* A failure of the engine while it tests a good function counts as a verdict on
  the function (`NParamDecipherer.kt:63`): the sentinel is cached, and each later URL
  of that player runs the whole script. `SentinelHasCause` allows it as a cause.

## Not modelled, and why

* The rest of QuickJS: its parser, interpreter, built-in objects, regular
  expressions, Unicode tables and number formatting are third-party code and make
  up nearly all lines of the repository. What a script computes is a choice of
  the models; only what the bridge's own teardown relies on is modelled. Of the
  heap, shapes, modules and the frames of async functions are left out, and
  `globalThis` is not taken as a value. Of `JS_NewContext`, the failures of
  `JS_NewContextRaw` are modelled (`CreateContext`), those of the intrinsics it
  adds afterwards, which it does not check, are not: which of the built-in objects
  are then missing is a matter of the interpreter.
* `extractObjectLiteral` is the same brace matcher behind another pattern. That
  the regular expressions match where a text begins is taken for granted.
* `VideoIdParser`, `InnerTubeClientConfig`, the field mapping of responses, the
  builder and the data classes: no state. Which clients send the timestamp is
  `StsClients`.
* `DiskCache.evictBeyond`, `PlayerJsRepository.evictOldCache`,
  `MemoryCache.remove`: no caller in the library.
* The options of a call: the extraction cache ignores them, see above.
* The sample application: not part of the library. Two plays in a row race in its
  view model.

## Plan

Done, in this order: ClientFallback, ExtractionCache, PlayerJsCache,
InnerTubeSession, HttpRetry, Extraction, FormatSelection, Decipher; OneTimeInit
and its refinement; PlayerRequests; QuickJsHeap and QuickJsBridge;
JsFunctionExtractor; proofs of all their safety properties. What could come
next:

1. An abstract specification of the library (a call returns a playable result or
   an error, and the cache is invisible but for staleness) that Extraction
   implements; Extraction over ExtractionCache for concurrent calls.
2. Shapes and async functions in QuickJsHeap.
3. `PlayerViewModel` of the sample.

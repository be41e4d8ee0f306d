------------------------------ MODULE Decipher ------------------------------
(***************************************************************************)
(* DecipherService.buildPlayableUrl: concurrent tasks, one a format, turn  *)
(* the formats of an answer into URLs. A signatureCipher is deciphered and *)
(* the n parameter transformed by functions that are searched for in the   *)
(* player script and remembered, by the script's hash, in two unlocked     *)
(* HashMaps that all tasks share. When the search for the n function gives *)
(* nothing plausible, the whole script is run to find it.                  *)
(*                                                                         *)
(* JavaScript is evaluated in a QuickJS runtime of its own. An evaluation  *)
(* may fail whatever the code: the runtime is not created, or memory runs  *)
(* out, which other evaluations at the same time make likely.              *)
(***************************************************************************)
EXTENDS Naturals, Sequences, JsFunctionExtractor

CONSTANTS
    Tasks,          \* coroutines on Dispatchers.IO, of one or more extractions
    Scripts,        \* player scripts
    Hashes,         \* values of String.hashCode
    hashCode,       \* the hash of every script
    SigFunction,    \* per script: the function found: "missing", "bare", "whole"
    NFunction,      \* per script: "missing", "implausible", "plausible"
    Discovery,      \* per script: does the discovery script find a function
    kMemLimits      \* memory limits of the attempts to run a whole script

FULL_PLAYER_JS_SENTINEL == "__FULL_PLAYER_JS__"
NoCode == "no code"
NoScript == "no script"
Clear == "in the clear"     \* sigBy: no signature to decipher
Untouched == "untouched"    \* nBy: the n of the answer, or none

(* Two scripts are taken to have different hashes.                         *)
ASSUME DecipherAssumption ==
    /\ hashCode \in [Scripts -> Hashes]
    /\ \A p, q \in Scripts : hashCode[p] = hashCode[q] => p = q
    /\ SigFunction \in [Scripts -> {"missing", "bare", "whole"}]
    /\ NFunction \in [Scripts -> {"missing", "implausible", "plausible"}]
    /\ Discovery \in [Scripts -> BOOLEAN]
    /\ Len(kMemLimits) \in Nat \ {0}
    /\ {FULL_PLAYER_JS_SENTINEL, NoCode, NoScript, Untouched} \cap Scripts = {}

VARIABLES
    sigCache,   \* SignatureDecipherer.functionCache: the script a function is from
    nCache,     \* NParamDecipherer.functionCache, likewise, or the sentinel
    pc, format, playerJs,   \* per task: place and arguments
    code,       \* per task: fnCode
    attempt,    \* per task: place in kMemLimits of the next attempt
    sigBy, nBy, \* per task: the script whose function made each part of its URL
    flawed,     \* history: scripts whose n function was tested by a failing engine
    spoilt      \* history, per task: what spoilt its run of the whole script

maps == <<sigCache, nCache>>
locals == <<format, playerJs, code, attempt, sigBy, nBy, spoilt>>
vars == <<maps, pc, locals, flawed>>

-----------------------------------------------------------------------------

(* A format has its URL in the clear, in a signatureCipher, or nowhere: it *)
(* has neither, or a cipher without "s" or "url". There may be an n in it. *)
Formats == [url : {"clear", "cipher", "none"}, hasN : BOOLEAN]
NoFormat == [url |-> "none", hasN |-> FALSE]

Phases == {"idle", "url", "sigSearch", "sigPut", "sigRun", "n", "nSearch", "nTest",
           "nPut", "nRun", "full", "done"}

key(t) == hashCode[playerJs[t]]

Init ==
    /\ sigCache = [h \in Hashes |-> NoCode] /\ nCache = [h \in Hashes |-> NoCode]
    /\ pc = [t \in Tasks |-> "idle"]
    /\ format = [t \in Tasks |-> NoFormat] /\ playerJs = [t \in Tasks |-> NoScript]
    /\ code = [t \in Tasks |-> NoCode] /\ attempt = [t \in Tasks |-> 1]
    /\ sigBy = [t \in Tasks |-> Clear] /\ nBy = [t \in Tasks |-> Untouched]
    /\ flawed = {} /\ spoilt = [t \in Tasks |-> "nothing"]

Goto(t, from, to) == pc[t] = from /\ pc' = [pc EXCEPT ![t] = to]

\* The task is over: its locals go out of scope.
End(t) ==
    /\ pc' = [pc EXCEPT ![t] = "idle"]
    /\ format' = [format EXCEPT ![t] = NoFormat]
    /\ playerJs' = [playerJs EXCEPT ![t] = NoScript]
    /\ code' = [code EXCEPT ![t] = NoCode] /\ attempt' = [attempt EXCEPT ![t] = 1]
    /\ sigBy' = [sigBy EXCEPT ![t] = Clear] /\ nBy' = [nBy EXCEPT ![t] = Untouched]
    /\ spoilt' = [spoilt EXCEPT ![t] = "nothing"]

\* Another task is putting into the map that t reads or writes.
Racing(t, put) == \E s \in Tasks \ {t} : pc[s] = put

(* A new task, with the script that fetchPlayerJs returned.                *)
Begin(t, p, f) ==
    /\ Goto(t, "idle", "url")
    /\ format' = [format EXCEPT ![t] = f]
    /\ playerJs' = [playerJs EXCEPT ![t] = p]
    /\ UNCHANGED <<maps, code, attempt, sigBy, nBy, spoilt, flawed>>

(* format.url is there.                                                    *)
Plain(t) ==
    /\ Goto(t, "url", "n")
    /\ format[t].url = "clear"
    /\ UNCHANGED <<maps, locals, flawed>>

(* It throws.                                                              *)
NoUrl(t) ==
    /\ pc[t] = "url" /\ End(t)
    /\ format[t].url = "none"
    /\ UNCHANGED <<maps, flawed>>

-----------------------------------------------------------------------------
(* SignatureDecipherer.decrypt.                                            *)

\* A bug that SigHit could have: the cache has one slot, for any player.
SigHitAny(t) ==
    /\ Goto(t, "url", "sigRun")
    /\ format[t].url = "cipher"
    /\ \E h \in Hashes : sigCache[h] # NoCode /\ code' = [code EXCEPT ![t] = sigCache[h]]
    /\ UNCHANGED <<maps, format, playerJs, attempt, sigBy, nBy, spoilt, flawed>>

SigHit(t) ==
    /\ Goto(t, "url", "sigRun")
    /\ format[t].url = "cipher" /\ sigCache[key(t)] # NoCode
    /\ code' = [code EXCEPT ![t] = sigCache[key(t)]]
    /\ UNCHANGED <<maps, format, playerJs, attempt, sigBy, nBy, spoilt, flawed>>

SigMiss(t) ==
    /\ Goto(t, "url", "sigSearch")
    /\ format[t].url = "cipher" /\ (sigCache[key(t)] = NoCode \/ Racing(t, "sigPut"))
    /\ UNCHANGED <<maps, locals, flawed>>

(* extractSigFunctionCode throws, and getOrPut stores nothing.             *)
SigNotFound(t) ==
    /\ pc[t] = "sigSearch" /\ End(t)
    /\ SigFunction[playerJs[t]] = "missing"
    /\ UNCHANGED <<maps, flawed>>

SigFound(t) ==
    /\ Goto(t, "sigSearch", "sigPut")
    /\ SigFunction[playerJs[t]] # "missing"
    /\ code' = [code EXCEPT ![t] = playerJs[t]]
    /\ UNCHANGED <<maps, format, playerJs, attempt, sigBy, nBy, spoilt, flawed>>

(* The put of getOrPut, which a racing put into the HashMap may lose.      *)
SigPut(t) ==
    /\ Goto(t, "sigPut", "sigRun")
    /\ \/ sigCache' = [sigCache EXCEPT ![key(t)] = code[t]]
       \/ Racing(t, "sigPut") /\ UNCHANGED sigCache
    /\ UNCHANGED <<nCache, locals, flawed>>

(* The function runs, if its helper object was found with it.              *)
SigRun(t) ==
    /\ Goto(t, "sigRun", "n")
    /\ SigFunction[code[t]] = "whole"
    /\ sigBy' = [sigBy EXCEPT ![t] = code[t]]
    /\ code' = [code EXCEPT ![t] = NoCode]
    /\ UNCHANGED <<maps, format, playerJs, attempt, nBy, spoilt, flawed>>

(* It throws, or the engine fails: execute returns null, and DecipherFailed*)
(* ends the task.                                                          *)
SigRunFails(t) ==
    /\ pc[t] = "sigRun" /\ End(t)
    /\ UNCHANGED <<maps, flawed>>

-----------------------------------------------------------------------------
(* NParamDecipherer.transform.                                             *)

(* No n in the URL: it is returned as it is.                               *)
NoToken(t) ==
    /\ Goto(t, "n", "done")
    /\ ~format[t].hasN
    /\ UNCHANGED <<maps, locals, flawed>>

By(c) == IF c = FULL_PLAYER_JS_SENTINEL THEN "full" ELSE "nRun"

NHit(t) ==
    /\ Goto(t, "n", By(nCache[key(t)]))
    /\ format[t].hasN /\ nCache[key(t)] # NoCode
    /\ code' = [code EXCEPT ![t] = nCache[key(t)]]
    /\ UNCHANGED <<maps, format, playerJs, attempt, sigBy, nBy, spoilt, flawed>>

\* A bug that NMiss could have: the sentinel keeps other tasks from searching.
NMissMarks(t) ==
    /\ Goto(t, "n", "nSearch")
    /\ format[t].hasN /\ nCache[key(t)] = NoCode
    /\ nCache' = [nCache EXCEPT ![key(t)] = FULL_PLAYER_JS_SENTINEL]
    /\ UNCHANGED <<sigCache, locals, flawed>>

NMiss(t) ==
    /\ Goto(t, "n", "nSearch")
    /\ format[t].hasN /\ (nCache[key(t)] = NoCode \/ Racing(t, "nPut"))
    /\ UNCHANGED <<maps, locals, flawed>>

\* A bug that NNameless could have: null is stored for a function.
NNamelessNull(t) ==
    /\ Goto(t, "nSearch", "nPut")
    /\ NFunction[playerJs[t]] = "missing"
    /\ code' = [code EXCEPT ![t] = "null"]
    /\ UNCHANGED <<maps, format, playerJs, attempt, sigBy, nBy, spoilt, flawed>>

(* No pattern matches, or the function it names has no body.               *)
NNameless(t) ==
    /\ Goto(t, "nSearch", "nPut")
    /\ NFunction[playerJs[t]] = "missing"
    /\ code' = [code EXCEPT ![t] = FULL_PLAYER_JS_SENTINEL]
    /\ UNCHANGED <<maps, format, playerJs, attempt, sigBy, nBy, spoilt, flawed>>

NNamed(t) ==
    /\ Goto(t, "nSearch", "nTest")
    /\ NFunction[playerJs[t]] # "missing"
    /\ UNCHANGED <<maps, locals, flawed>>

(* isPlausibleNsigFunction, both inputs.                                   *)
TestPasses(t) ==
    /\ Goto(t, "nTest", "nPut")
    /\ NFunction[playerJs[t]] = "plausible"
    /\ code' = [code EXCEPT ![t] = playerJs[t]]
    /\ UNCHANGED <<maps, format, playerJs, attempt, sigBy, nBy, spoilt, flawed>>

(* The function is found out, or the engine fails: catch (_: Exception)    *)
(* takes the one for the other.                                            *)
TestFails(t) ==
    /\ Goto(t, "nTest", "nPut")
    /\ code' = [code EXCEPT ![t] = FULL_PLAYER_JS_SENTINEL]
    /\ flawed' = IF NFunction[playerJs[t]] = "plausible" THEN flawed \cup {playerJs[t]}
                 ELSE flawed
    /\ UNCHANGED <<maps, format, playerJs, attempt, sigBy, nBy, spoilt>>

(* NewStringUTF throws OutOfMemoryError, which no catch before the task's  *)
(* takes; getOrPut stores nothing.                                         *)
EngineThrows(t) ==
    /\ pc[t] \in {"nTest", "full"} /\ End(t)
    /\ UNCHANGED <<maps, flawed>>

NPut(t) ==
    /\ Goto(t, "nPut", By(code[t]))
    /\ \/ nCache' = [nCache EXCEPT ![key(t)] = code[t]]
       \/ Racing(t, "nPut") /\ UNCHANGED nCache
    /\ UNCHANGED <<sigCache, locals, flawed>>

NRun(t) ==
    /\ Goto(t, "nRun", "done")
    /\ nBy' = [nBy EXCEPT ![t] = code[t]]
    /\ UNCHANGED <<maps, format, playerJs, code, attempt, sigBy, spoilt, flawed>>

NRunFails(t) ==
    /\ pc[t] = "nRun" /\ End(t)
    /\ UNCHANGED <<maps, flawed>>

(* The whole script and the discovery script run within a memory limit.    *)
(* If the discovery finds no function it returns the token it was given.   *)
Full(t) ==
    /\ Goto(t, "full", "done")
    /\ nBy' = [nBy EXCEPT ![t] = IF Discovery[playerJs[t]] THEN playerJs[t] ELSE Untouched]
    /\ UNCHANGED <<maps, format, playerJs, code, attempt, sigBy, spoilt, flawed>>

Spoil(t, what) ==
    /\ Goto(t, "full", "done")
    /\ spoilt' = [spoilt EXCEPT ![t] = what]
    /\ UNCHANGED <<maps, format, playerJs, code, attempt, sigBy, nBy, flawed>>

(* Memory runs out: in the player script, where the try it is wrapped in   *)
(* takes the exception and the discovery finds nothing in what was run     *)
(* till then, or in the discovery, whose own two try statements take it.   *)
FullStarved(t) == Spoil(t, "memory")

(* The function found passed the tests and throws on this token: the       *)
(* discovery's own try takes that too, and res is still the token.         *)
FullThrows(t) == Spoil(t, "exception") /\ Discovery[playerJs[t]]

(* It gives nothing, or a blank text, for this token: takeIf drops the     *)
(* result, and the other limits are not tried.                             *)
FullBlank(t) == Spoil(t, "blank") /\ Discovery[playerJs[t]]

\* A bug that FullFails could have: the other limits are not tried.
FullFailsAtOnce(t) ==
    /\ Goto(t, "full", "done")
    /\ attempt' = [attempt EXCEPT ![t] = @ + 1]
    /\ UNCHANGED <<maps, format, playerJs, code, sigBy, nBy, spoilt, flawed>>

\* A bug that FullFails could have: the last limit is tried for ever.
FullFailsForever(t) ==
    /\ pc[t] = "full"
    /\ attempt' = [attempt EXCEPT ![t] = IF @ < Len(kMemLimits) THEN @ + 1 ELSE 1]
    /\ UNCHANGED <<maps, pc, format, playerJs, code, sigBy, nBy, spoilt, flawed>>

(* The evaluation gives nothing: the next limit is tried, and after the    *)
(* last the URL keeps its token.                                           *)
FullFails(t) ==
    /\ Goto(t, "full", IF attempt[t] < Len(kMemLimits) THEN "full" ELSE "done")
    /\ attempt' = [attempt EXCEPT ![t] = @ + 1]
    /\ UNCHANGED <<maps, format, playerJs, code, sigBy, nBy, spoilt, flawed>>

(* The URL is returned.                                                    *)
Return(t) ==
    /\ pc[t] = "done" /\ End(t)
    /\ UNCHANGED <<maps, flawed>>

-----------------------------------------------------------------------------

SigStep(t) ==
    \/ Plain(t) \/ NoUrl(t) \/ SigHit(t) \/ SigMiss(t) \/ SigNotFound(t) \/ SigFound(t)
    \/ SigPut(t) \/ SigRun(t) \/ SigRunFails(t)

NStep(t) ==
    \/ NoToken(t) \/ NHit(t) \/ NMiss(t) \/ NNameless(t) \/ NNamed(t)
    \/ TestPasses(t) \/ TestFails(t) \/ EngineThrows(t) \/ NPut(t)
    \/ NRun(t) \/ NRunFails(t) \/ Full(t) \/ FullFails(t)
    \/ FullStarved(t) \/ FullThrows(t) \/ FullBlank(t)

Step(t) == SigStep(t) \/ NStep(t) \/ Return(t)

Next == \E t \in Tasks : Step(t) \/ \E p \in Scripts, f \in Formats : Begin(t, p, f)

(* The dispatcher runs every task. That each evaluation of JavaScript ends *)
(* is assumed: QuickJS is given no deadline.                               *)
Spec == Init /\ [][Next]_vars /\ \A t \in Tasks : WF_vars(Step(t))

-----------------------------------------------------------------------------

TypeOK ==
    /\ sigCache \in [Hashes -> Scripts \cup {NoCode}]
    /\ nCache \in [Hashes -> Scripts \cup {NoCode, FULL_PLAYER_JS_SENTINEL}]
    /\ pc \in [Tasks -> Phases]
    /\ format \in [Tasks -> Formats]
    /\ playerJs \in [Tasks -> Scripts \cup {NoScript}]
    /\ \A t \in Tasks : pc[t] # "idle" => playerJs[t] \in Scripts
    /\ code \in [Tasks -> Scripts \cup {NoCode, FULL_PLAYER_JS_SENTINEL}]
    /\ attempt \in [Tasks -> 1 .. Len(kMemLimits) + 1]
    /\ sigBy \in [Tasks -> Scripts \cup {Clear}]
    /\ nBy \in [Tasks -> Scripts \cup {Untouched}]
    /\ flawed \subseteq Scripts
    /\ spoilt \in [Tasks -> {"nothing", "memory", "exception", "blank"}]

(***************************************************************************)
(* Tasks of extractions that use different players share both caches: the  *)
(* two parts of a URL are made by functions of the script it was built     *)
(* with, whoever put them there (SignatureDecipherer.kt:23,                *)
(* NParamDecipherer.kt:15).                                                *)
(***************************************************************************)
OwnFunction ==
    \A t \in Tasks : pc[t] = "done" =>
        /\ sigBy[t] = IF format[t].url = "cipher" THEN playerJs[t] ELSE Clear
        /\ nBy[t] \in {playerJs[t], Untouched}

(***************************************************************************)
(* The sentinel, which makes every later URL of a player run the whole     *)
(* script, is remembered for a script with a plausible function only if    *)
(* the engine once failed while that function was tested                   *)
(* (NParamDecipherer.kt:34-38 and 63).                                     *)
(***************************************************************************)
SentinelHasCause ==
    \A p \in Scripts : nCache[hashCode[p]] = FULL_PLAYER_JS_SENTINEL =>
        NFunction[p] # "plausible" \/ p \in flawed

(***************************************************************************)
(* A URL keeps the token of the answer, which the CDN throttles, only if   *)
(* there was no function to use, or the engine failed in its test; and     *)
(* then the run of the whole script failed under every memory limit ("all  *)
(* attempts failed; Kotlin side falls back to original n-param",           *)
(* quickjs_bridge.cpp:123), or was of no use under one: the discovery      *)
(* found no function, memory ran out where a try statement hides it, or    *)
(* the function found threw on the token or gave a blank                   *)
(* (NParamDecipherer.kt:144-149, QuickJsEngine.kt:30).                     *)
(***************************************************************************)
RawTokenHasCause ==
    \A t \in Tasks : pc[t] = "done" /\ format[t].hasN /\ nBy[t] = Untouched =>
        /\ NFunction[playerJs[t]] # "plausible" \/ playerJs[t] \in flawed
        /\ \/ attempt[t] > Len(kMemLimits)
           \/ ~Discovery[playerJs[t]]
           \/ spoilt[t] \in {"memory", "exception", "blank"}

(***************************************************************************)
(* Every task ends, so that the extraction that waits for it does.         *)
(***************************************************************************)
TasksEnd == \A t \in Tasks : pc[t] = "url" ~> pc[t] \in {"idle", "done"}

(***************************************************************************)
(* "Handles both `fnName=function(a){...}` and `function fnName(a){...}`   *)
(* forms" (JsFunctionExtractor.kt:7): whenever a task looks for a function *)
(* in a script, the text it cuts out ends with the brace that closes the   *)
(* body, past braces and escaped quotes in strings; it is null only if     *)
(* nothing closes it. It may be something else only for an escaped         *)
(* backslash at the end of a string or a brace in the parameters.          *)
(***************************************************************************)
BodyIsWhole ==
    \A t \in Tasks : pc[t] \in {"sigSearch", "nSearch"} => CutsWholeBodies
=============================================================================

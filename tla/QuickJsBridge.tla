--------------------------- MODULE QuickJsBridge ---------------------------
(***************************************************************************)
(* The two native methods of QuickJsEngine (quickjs_bridge.cpp): each      *)
(* attempt makes a runtime with a memory limit and a context, evaluates    *)
(* the script, turns its value into a Java string, and frees the context   *)
(* and the runtime again. A call is served by the thread it comes from and *)
(* by runtimes of its own, so one call at a time is modelled.              *)
(*                                                                         *)
(* Memory may be short at any allocation: for the characters of an         *)
(* argument, the runtime, the context, in the script (which then throws),  *)
(* and for the Java string. The script is any program over the heap; it    *)
(* may run for ever, since JS_Eval has no interrupt handler.               *)
(***************************************************************************)
EXTENDS QuickJsHeap

CONSTANTS
    Attempts,   \* how many memory limits each method tries
    Jobs        \* a bound: pending jobs of one runtime

Methods == {"executeNative", "executeWithPlayerJsNative"}

ASSUME BridgeAssumption == Attempts \in [Methods -> Nat] /\ Jobs \in Nat

VARIABLES
    pc,         \* where the call is
    attempts,   \* memory limits that are still to be tried
    chars,      \* jstrings with their characters held by the bridge
    value,      \* what the bridge holds of the script: an object, or Null for
                \* a primitive value or none
    threw,      \* JS_Eval returned an exception
    exception,  \* rt->current_exception after it, an object or Null
    jobs,       \* arguments of the entries of rt->job_list
    result,     \* "string" or Null
    halfMade    \* gc_obj_list has an entry of a context that was given back

call == <<pc, attempts, chars, result>>
runtime == <<value, threw, exception, jobs, halfMade>>
vars == <<heapVars, call, runtime>>

Arguments == {"code", "argument"}

NothingHeld ==
    /\ value = Null /\ threw = FALSE /\ exception = Null
    /\ jobs = {} /\ halfMade = FALSE

BridgeInit ==
    /\ Init
    /\ pc = "idle" /\ attempts = 0 /\ chars = {} /\ result = Null
    /\ NothingHeld

\* GetStringUTFChars gives NULL when memory is short.
Enter(method) ==
    /\ pc = "idle"
    /\ \E got \in SUBSET Arguments :
        IF got = Arguments
        THEN /\ pc' = "attempt"
             /\ attempts' = Attempts[method]
             /\ chars' = IF method = "executeNative" THEN Arguments ELSE {}
        ELSE UNCHANGED <<pc, attempts, chars>>
    /\ result' = Null
    /\ UNCHANGED <<heapVars, runtime>>

NextAttempt ==
    /\ pc' = "attempt"
    /\ attempts' = IF result # Null THEN 0 ELSE attempts - 1
    /\ UNCHANGED <<chars, result>>

(* All attempts are made, or one had a result.                             *)
Leave ==
    /\ pc = "attempt" /\ attempts = 0
    /\ pc' = "idle" /\ chars' = {}
    /\ UNCHANGED <<heapVars, attempts, result, runtime>>

\* JS_NewRuntime, which returns NULL when memory is short.
NewRuntime ==
    /\ pc = "attempt" /\ attempts > 0
    /\ \/ pc' = "newContext" /\ UNCHANGED <<attempts, chars, result>>
       \/ NextAttempt
    /\ UNCHANGED <<heapVars, runtime>>

Goto(from, to) ==
    /\ pc = from /\ pass = "none"
    /\ pc' = to
    /\ UNCHANGED <<attempts, chars>>

\* JS_NewContext. JS_NewContextRaw puts the context in gc_obj_list before it
\* allocates class_proto, and leaves it there when that fails. What fails after that,
\* among the intrinsics JS_NewContext adds, is left out: it does not check them.
CreateContext ==
    \/ /\ Goto("newContext", "eval")
       /\ NewContext
       /\ UNCHANGED <<result, runtime>>
    \/ /\ Goto("newContext", "freeRuntime")
       /\ halfMade' \in BOOLEAN
       /\ UNCHANGED <<heapVars, result, value, threw, exception, jobs>>

-----------------------------------------------------------------------------

\* A step of the script, in JS_Eval or in a toString that JS_ToCString calls.
Run ==
    /\ pc \in {"eval", "toCString"}
    /\ \/ Mutate /\ UNCHANGED jobs
       \/ \E o \in Objects \ jobs :
            /\ Cardinality(jobs) < Jobs
            /\ EnqueueJob(o)
            /\ jobs' = jobs \cup {o}
    /\ UNCHANGED <<call, value, threw, exception, halfMade>>

\* The script ends with an object, or with a primitive value: out.
EndsWith(out) ==
    /\ \A n \in Nodes : stack[n] = (IF n = out THEN 1 ELSE 0)
    /\ IF out = Null THEN UNCHANGED heapVars ELSE Hand(out)

(* JS_Eval returns, or throws and JS_GetException takes what it threw.     *)
EvalEnds ==
    /\ Goto("eval", "toCString")
    /\ \E out \in Objects \cup {Null} : EndsWith(out) /\ value' = out
    /\ threw' \in BOOLEAN
    /\ UNCHANGED <<result, exception, jobs, halfMade>>

\* JS_ToCString calls a method of the object.
CallToString ==
    /\ pc = "toCString" /\ value # Null
    /\ stack[value] = 0
    /\ Call(value)
    /\ UNCHANGED <<call, runtime>>

(* JS_ToCString gives a string, of which NewStringUTF may make a result, or *)
(* throws: then current_exception has what was thrown.                     *)
ToCStringEnds ==
    /\ Goto("toCString", "freeValue")
    /\ \/ /\ EndsWith(Null)
          /\ result' \in (IF threw THEN {Null} ELSE {"string", Null})
          /\ UNCHANGED exception
       \/ \E out \in Objects \cup {Null} :
            /\ EndsWith(out)
            /\ exception' = out
            /\ UNCHANGED result
    /\ UNCHANGED <<value, threw, jobs, halfMade>>

-----------------------------------------------------------------------------

\* The reference to out is given up, if it is one.
GiveUp(out) == IF out = Null THEN UNCHANGED heapVars ELSE Disown(out)

\* A bug that DropValue could have: what was thrown is not freed.
DropReturnedValue ==
    /\ Goto("freeValue", "freeContext")
    /\ GiveUp(IF threw THEN Null ELSE value)
    /\ value' = Null /\ threw' = FALSE
    /\ UNCHANGED <<result, exception, jobs, halfMade>>

(* JS_FreeValue of the value, or of what was thrown.                       *)
DropValue ==
    /\ Goto("freeValue", "freeContext")
    /\ GiveUp(value) /\ value' = Null /\ threw' = FALSE
    /\ UNCHANGED <<result, exception, jobs, halfMade>>

DropContext ==
    /\ Goto("freeContext", "freeRuntime")
    /\ FreeContext
    /\ UNCHANGED <<result, runtime>>

(* JS_FreeRuntime: current_exception, each job with its realm, and a last  *)
(* collection.                                                             *)
DropException ==
    /\ Goto("freeRuntime", "freeJobs")
    /\ GiveUp(exception) /\ exception' = Null
    /\ UNCHANGED <<result, value, threw, jobs, halfMade>>

DropJob(o) ==
    /\ o \in jobs
    /\ Goto("freeJobs", "freeRealm")
    /\ Disown(o) /\ jobs' = jobs \ {o}
    /\ UNCHANGED <<result, value, threw, exception, halfMade>>

DropRealm ==
    /\ Goto("freeRealm", "freeJobs")
    /\ FreeContext
    /\ UNCHANGED <<result, runtime>>

\* The collection comes to the entry of a context that was given back: from
\* here on anything may happen, and nothing more is modelled.
LastGC ==
    /\ jobs = {}
    /\ Goto("freeJobs", IF halfMade THEN "undefined" ELSE "lastGC")
    /\ RunLastGC
    /\ UNCHANGED <<result, runtime>>

RuntimeFreed ==
    /\ pc = "lastGC" /\ pass = "none"
    /\ NextAttempt
    /\ UNCHANGED <<heapVars, runtime>>

(* A step of a collection, or of freeing what has no references left.      *)
CollectStep == pc # "undefined" /\ Collect /\ UNCHANGED <<call, runtime>>

Teardown ==
    \/ DropValue \/ DropContext
    \/ DropException \/ (\E o \in Objects : DropJob(o)) \/ DropRealm
    \/ LastGC \/ RuntimeFreed

Undefined == pc = "undefined" /\ UNCHANGED vars

BridgeNext ==
    \/ \E method \in Methods : Enter(method)
    \/ Leave \/ NewRuntime \/ CreateContext
    \/ Run \/ EvalEnds \/ CallToString \/ ToCStringEnds
    \/ Teardown \/ CollectStep
    \/ Undefined

BridgeSpec == BridgeInit /\ [][BridgeNext]_vars

-----------------------------------------------------------------------------

BridgeTypeOK ==
    /\ TypeOK
    /\ pc \in {"idle", "attempt", "newContext", "eval", "toCString", "freeValue",
               "freeContext", "freeRuntime", "freeJobs", "freeRealm", "lastGC", "undefined"}
    /\ attempts \in Nat /\ chars \subseteq Arguments
    /\ {value, exception} \subseteq Objects \cup {Null}
    /\ threw \in BOOLEAN /\ halfMade \in BOOLEAN
    /\ jobs \subseteq Objects
    /\ result \in {"string", Null}

(***************************************************************************)
(* A runtime leaves nothing: when JS_FreeRuntime has run, no object, no    *)
(* remains of one and no reference are there, whatever the script made,    *)
(* whatever its value or exception was, and with its jobs unrun            *)
(* (the assertions of quickjs.c:1977-1978); and when a call is over it     *)
(* holds no characters of its arguments (quickjs_bridge.cpp:24-124).       *)
(***************************************************************************)
LeavesNothing ==
    /\ pc \in {"idle", "attempt"} =>
        /\ \A n \in Nodes : at[n] = "free" /\ Total(n) = 0
        /\ NothingHeld
    /\ pc = "idle" => chars = {}

(***************************************************************************)
(* "Tries progressively smaller memory limits so it degrades gracefully on *)
(* low-RAM devices instead of crashing" (quickjs_bridge.cpp:83-84): no     *)
(* shortage of memory leads to undefined behaviour.                        *)
(***************************************************************************)
DegradesGracefully == pc # "undefined"
=============================================================================

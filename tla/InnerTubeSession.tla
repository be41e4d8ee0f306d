-------------------------- MODULE InnerTubeSession --------------------------
(***************************************************************************)
(* InnerTubeClient: threads post player requests; those for the WEB client *)
(* first make sure that the homepage was fetched once, for its cookies and *)
(* its visitor data. ensureSession is double-checked locking over two      *)
(* volatile fields; the cookie jar is shared by all requests.              *)
(***************************************************************************)
EXTENDS Naturals, FiniteSets

CONSTANTS
    Threads,    \* coroutines on Dispatchers.IO
    Cookies,    \* names of the cookies the host may set
    Visitors    \* visitor data the homepage may contain

VARIABLES
    sessionInitialized, \* volatile field
    cachedVisitorData,  \* volatile field, NoVisitor for null
    lock,               \* holder of the client's monitor, or NoThread
    store,              \* cookies the jar has for the host
    pc,                 \* where each thread is in fetchPlayerResponse
    config,             \* the client it asks for, WEB or another
    visitor,            \* its local visitorData
    sent,               \* cookies its request was sent with
    gets,               \* history: homepage requests made
    initCookies         \* history: cookies the homepage set

session == <<sessionInitialized, cachedVisitorData, lock>>
locals == <<config, visitor, sent>>
history == <<gets, initCookies>>
vars == <<sessionInitialized, cachedVisitorData, lock, store, pc, config,
          visitor, sent, gets, initCookies>>

NoVisitor == "null"
NoThread == "nobody"

ASSUME SessionAssumption == NoThread \notin Threads

Configs == {"WEB", "OTHER"}
Phases == {"idle", "check", "lock", "recheck", "get", "body", "assign", "finish",
           "release", "visitor", "post", "await"}

\* Places inside the synchronized block.
Inside == {"recheck", "get", "body", "assign", "finish", "release"}

-----------------------------------------------------------------------------

Init ==
    /\ sessionInitialized = FALSE /\ cachedVisitorData = NoVisitor
    /\ lock = NoThread /\ store = {}
    /\ pc = [t \in Threads |-> "idle"] /\ config = [t \in Threads |-> "OTHER"]
    /\ visitor = [t \in Threads |-> NoVisitor] /\ sent = [t \in Threads |-> {}]
    /\ gets = 0 /\ initCookies = {}

Goto(t, from, to) == pc[t] = from /\ pc' = [pc EXCEPT ![t] = to]

(* CookieJar.saveFromResponse: a response that sets cookies replaces all   *)
(* that the jar had for the host.                                          *)
Save(cs) == store' = IF cs = {} THEN store ELSE cs

(* fetchPlayerResponse is entered; only WEB goes through ensureSession.    *)
Fetch(t, c) ==
    /\ Goto(t, "idle", IF c = "WEB" THEN "check" ELSE "post")
    /\ config' = [config EXCEPT ![t] = c]
    /\ UNCHANGED <<session, store, visitor, sent, history>>

(* if (sessionInitialized) return, without the lock.                       *)
Check(t) ==
    /\ Goto(t, "check", IF sessionInitialized THEN "visitor" ELSE "lock")
    /\ UNCHANGED <<session, store, locals, history>>

Acquire(t) ==
    /\ Goto(t, "lock", "recheck")
    /\ lock = NoThread
    /\ lock' = t
    /\ UNCHANGED <<sessionInitialized, cachedVisitorData, store, locals, history>>

\* A bug that Recheck could have: the second check is left out.
RecheckSkipped(t) ==
    /\ Goto(t, "recheck", "get")
    /\ gets' = gets + 1
    /\ UNCHANGED <<session, store, locals, initCookies>>

(* The second check; if the session is still to be made the homepage       *)
(* request goes out.                                                       *)
Recheck(t) ==
    /\ Goto(t, "recheck", IF sessionInitialized THEN "release" ELSE "get")
    /\ gets' = IF sessionInitialized THEN gets ELSE gets + 1
    /\ UNCHANGED <<session, store, locals, initCookies>>

(* The headers of the homepage arrive: the jar takes their cookies.        *)
Headers(t) ==
    /\ Goto(t, "get", "body")
    /\ \E cs \in SUBSET Cookies : Save(cs) /\ initCookies' = cs
    /\ UNCHANGED <<session, locals, gets>>

\* A bug that Body could have: the flag is set before the field it guards.
BodyFlagsFirst(t) ==
    /\ Goto(t, "body", "assign")
    /\ sessionInitialized' = TRUE
    /\ UNCHANGED <<cachedVisitorData, lock, store, locals, history>>

(* The page is read and searched.                                          *)
Body(t) ==
    /\ Goto(t, "body", "assign")
    /\ UNCHANGED <<session, store, locals, history>>

(* cachedVisitorData = the match, or null.                                 *)
Assign(t) ==
    /\ Goto(t, "assign", "finish")
    /\ cachedVisitorData' \in Visitors \cup {NoVisitor}
    /\ UNCHANGED <<sessionInitialized, lock, store, locals, history>>

\* A bug that GetFails could have: the exception skips the release.
GetFailsLocked(t) ==
    /\ pc[t] \in {"get", "body"}
    /\ pc' = [pc EXCEPT ![t] = "visitor"]
    /\ UNCHANGED <<session, store, locals, history>>

(* The request or the reading of its body throws; the exception is caught. *)
GetFails(t) ==
    /\ pc[t] \in {"get", "body"}
    /\ pc' = [pc EXCEPT ![t] = "finish"]
    /\ UNCHANGED <<session, store, locals, history>>

(* finally { sessionInitialized = true }                                   *)
Finish(t) ==
    /\ Goto(t, "finish", "release")
    /\ sessionInitialized' = TRUE
    /\ UNCHANGED <<cachedVisitorData, lock, store, locals, history>>

Release(t) ==
    /\ Goto(t, "release", "visitor")
    /\ lock' = NoThread
    /\ UNCHANGED <<sessionInitialized, cachedVisitorData, store, locals, history>>

(* val visitorData = cachedVisitorData                                     *)
ReadVisitor(t) ==
    /\ Goto(t, "visitor", "post")
    /\ visitor' = [visitor EXCEPT ![t] = cachedVisitorData]
    /\ UNCHANGED <<session, store, config, sent, history>>

(* The player request goes out with the cookies of the jar.                *)
Post(t) ==
    /\ Goto(t, "post", "await")
    /\ sent' = [sent EXCEPT ![t] = store]
    /\ UNCHANGED <<session, store, config, visitor, history>>

\* The locals of t go out of scope.
Leave(t) ==
    /\ pc' = [pc EXCEPT ![t] = "idle"]
    /\ config' = [config EXCEPT ![t] = "OTHER"]
    /\ visitor' = [visitor EXCEPT ![t] = NoVisitor]
    /\ sent' = [sent EXCEPT ![t] = {}]

(* Its response arrives, whatever it says, or the call fails.              *)
Answer(t) ==
    /\ pc[t] = "await"
    /\ Leave(t)
    /\ \E cs \in SUBSET Cookies : Save(cs)
    /\ UNCHANGED <<session, history>>

Step(t) ==
    \/ Check(t) \/ Acquire(t) \/ Recheck(t) \/ Headers(t) \/ Body(t) \/ Assign(t)
    \/ GetFails(t) \/ Finish(t) \/ Release(t) \/ ReadVisitor(t) \/ Post(t) \/ Answer(t)

Next == \E t \in Threads : Step(t) \/ \E c \in Configs : Fetch(t, c)

(* Whether a request is made is up to the application; a thread that makes *)
(* one is run by the dispatcher, and OkHttp's timeouts end every exchange. *)
(* A monitor need not be fair: it is taken at most once by every thread    *)
(* that came before the session was there.                                 *)
Spec == Init /\ [][Next]_vars /\ \A t \in Threads : WF_vars(Step(t))

-----------------------------------------------------------------------------

TypeOK ==
    /\ sessionInitialized \in BOOLEAN
    /\ cachedVisitorData \in Visitors \cup {NoVisitor}
    /\ lock \in Threads \cup {NoThread}
    /\ store \subseteq Cookies
    /\ pc \in [Threads -> Phases]
    /\ config \in [Threads -> Configs]
    /\ visitor \in [Threads -> Visitors \cup {NoVisitor}]
    /\ sent \in [Threads -> SUBSET Cookies]
    /\ gets \in Nat
    /\ initCookies \subseteq Cookies

(***************************************************************************)
(* "One-time session init" (InnerTubeClient.kt:71): however many threads   *)
(* find the session missing at once, the homepage is requested once in the *)
(* life of the client.                                                     *)
(***************************************************************************)
OneHomepageGet == gets <= 1

(***************************************************************************)
(* The flag guards the field: a thread that comes past ensureSession, on   *)
(* the fast path or after waiting, finds the initialisation over, and the  *)
(* visitor data it sends is the one every other WEB request sends.         *)
(***************************************************************************)
OneVisitor ==
    \A t \in Threads :
        config[t] = "WEB" /\ pc[t] \in {"post", "await"} =>
            sessionInitialized /\ visitor[t] = cachedVisitorData

(***************************************************************************)
(* No thread waits for ever: not for the monitor, even when the homepage   *)
(* request of its holder throws, and not for its own request.              *)
(***************************************************************************)
RequestsEnd == \A t \in Threads : pc[t] # "idle" ~> pc[t] = "idle"

\* A WEB request as a caller of OneTimeInit.
PhaseOf(t) ==
    IF config[t] # "WEB" \/ pc[t] = "idle" THEN "idle"
    ELSE IF pc[t] \in {"post", "await"} THEN "served" ELSE "asking"

OneTime == INSTANCE OneTimeInit WITH
    Callers <- Threads,
    Values  <- Visitors \cup {NoVisitor},
    Default <- NoVisitor,
    ready   <- sessionInitialized,
    value   <- IF sessionInitialized THEN cachedVisitorData ELSE NoVisitor,
    phase   <- [t \in Threads |-> PhaseOf(t)],
    taken   <- visitor

(***************************************************************************)
(* Double-checked locking is as good as doing it in one step: to its       *)
(* callers, ensureSession and the read of cachedVisitorData after it look  *)
(* like OneTimeInit, whatever the interleaving and when the homepage fails *)
(* (InnerTubeClient.kt:71-97).                                             *)
(***************************************************************************)
InitLooksAtomic == OneTime!Spec

(***************************************************************************)
(* InnerTubeClient.kt:22 "YouTube session cookies (CONSENT, YSC,           *)
(* VISITOR_INFO1_LIVE) are captured during the init GET and replayed on    *)
(* InnerTube POST requests": a WEB request goes out with all of them.      *)
(***************************************************************************)
InitCookiesReplayed ==
    \A t \in Threads :
        config[t] = "WEB" /\ pc[t] = "await" => initCookies \subseteq sent[t]
=============================================================================

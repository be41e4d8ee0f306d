----------------------- MODULE InnerTubeSessionProofs -----------------------
(***************************************************************************)
(* For any number of threads: the homepage is requested at most once, all  *)
(* WEB requests send the same visitor data, and to them the session is     *)
(* made in one step.                                                       *)
(***************************************************************************)
EXTENDS InnerTubeSession, TLAPS

\* The thread is making the session.
Making(t) == pc[t] \in {"get", "body", "assign", "finish"}

(* The monitor keeps threads out of each other's way.                      *)
Exclusion == \A t \in Threads : pc[t] \in Inside => lock = t

(* The homepage was requested only if the session is there or being made,  *)
(* and it is being made only while it is not there.                        *)
InitOnce ==
    /\ gets <= 1
    /\ gets = 1 => sessionInitialized \/ \E t \in Threads : Making(t)
    /\ \A t \in Threads : Making(t) => ~sessionInitialized

(* Past ensureSession the session is there.                                *)
Passed ==
    \A t \in Threads :
        /\ pc[t] \in {"release", "visitor"} => sessionInitialized
        /\ config[t] = "WEB" /\ pc[t] \in {"post", "await"} => sessionInitialized

IInv == TypeOK /\ Exclusion /\ InitOnce /\ Passed /\ OneVisitor

-----------------------------------------------------------------------------

LEMMA InitIInv == Init => IInv
<1> SUFFICES ASSUME Init PROVE IInv
  OBVIOUS
<1>1. \A t \in Threads : pc[t] = "idle"
  BY DEF Init
<1>2. TypeOK
  BY DEF Init, TypeOK, Configs, Phases
<1>3. Exclusion /\ Passed /\ OneVisitor
  BY <1>1 DEF Exclusion, Passed, OneVisitor, Inside
<1>4. InitOnce
  BY <1>1 DEF Init, InitOnce, Making
<1> QED BY <1>2, <1>3, <1>4 DEF IInv

LEMMA NextType == TypeOK /\ [Next]_vars => TypeOK'
<1> SUFFICES ASSUME TypeOK, [Next]_vars PROVE TypeOK'
  OBVIOUS
<1> USE DEF TypeOK, Phases
<1>1. ASSUME NEW t \in Threads, NEW c \in Configs, Fetch(t, c) PROVE TypeOK'
  BY <1>1 DEF Fetch, Goto, session, history
<1>2. ASSUME NEW t \in Threads, Step(t) PROVE TypeOK'
  <2>1. CASE Check(t) \/ Acquire(t) \/ Body(t)
    BY <2>1 DEF Check, Acquire, Body, Goto, session, locals, history
  <2>5. CASE Recheck(t)
    BY <2>5 DEF Recheck, Goto, session, locals
  <2>6. CASE Assign(t)
    BY <2>6 DEF Assign, Goto, locals, history
  <2>7. CASE Finish(t) \/ Release(t)
    BY <2>7 DEF Finish, Release, Goto, locals, history
  <2>2. CASE Headers(t) \/ GetFails(t)
    BY <2>2 DEF Headers, GetFails, Goto, Save, session, locals, history
  <2>3. CASE ReadVisitor(t) \/ Post(t)
    BY <2>3 DEF ReadVisitor, Post, Goto, session, history
  <2>4. CASE Answer(t)
    BY <2>4 DEF Answer, Leave, Save, session, history, Configs
  <2> QED BY <1>2, <2>1, <2>2, <2>3, <2>4, <2>5, <2>6, <2>7 DEF Step
<1>3. CASE UNCHANGED vars
  BY <1>3 DEF vars
<1> QED BY <1>1, <1>2, <1>3 DEF Next

(* The steps that leave the shared fields and the monitor alone.           *)
LEMMA LocalKeeps ==
    ASSUME IInv, TypeOK', NEW t \in Threads, UNCHANGED <<session, gets>>,
           NEW to \in Phases, pc' = [pc EXCEPT ![t] = to],
           pc[t] \notin Inside \/ (Making(t) /\ to \in {"body", "assign", "finish"}),
           to \in Inside => Making(t),
           to = "visitor" => sessionInitialized,
           \A s \in Threads \ {t} : config'[s] = config[s] /\ visitor'[s] = visitor[s],
           config'[t] = "WEB" /\ to \in {"post", "await"} =>
                sessionInitialized /\ visitor'[t] = cachedVisitorData
    PROVE  IInv'
<1>1. pc'[t] = to /\ \A s \in Threads \ {t} : pc'[s] = pc[s]
  BY DEF IInv, TypeOK
<1>2. to # "release"
  BY DEF Making, Inside
<1>3. Exclusion'
  BY <1>1 DEF IInv, Exclusion, session, Making, Inside
<1>4. \A s \in Threads : Making(s)' <=> Making(s)
  BY <1>1 DEF Making, Inside
<1>5. InitOnce'
  BY <1>4 DEF IInv, InitOnce, session
<1>6. Passed'
  BY <1>1, <1>2 DEF IInv, Passed, session
<1>7. OneVisitor'
  BY <1>1 DEF IInv, OneVisitor, session
<1> QED BY <1>3, <1>5, <1>6, <1>7 DEF IInv

LEMMA NextIInv == IInv /\ [Next]_vars => IInv'
<1> SUFFICES ASSUME IInv, [Next]_vars PROVE IInv'
  OBVIOUS
<1>0. TypeOK'
  BY NextType DEF IInv
<1>1. ASSUME NEW t \in Threads, NEW c \in Configs, Fetch(t, c) PROVE IInv'
  BY <1>0, <1>1, LocalKeeps DEF IInv, TypeOK, Fetch, Goto, Phases, Inside, Making, history
<1>2. ASSUME NEW t \in Threads, Step(t) PROVE IInv'
  <2>1. CASE Check(t)
    BY <1>0, <2>1, LocalKeeps DEF Check, Goto, Phases, Inside, Making, history, locals
  <2>2. CASE Acquire(t)
    <3>1. /\ lock = NoThread /\ lock' = t /\ pc' = [pc EXCEPT ![t] = "recheck"] /\ pc[t] = "lock"
          /\ UNCHANGED <<sessionInitialized, cachedVisitorData, gets, config, visitor>>
      BY <2>2 DEF Acquire, Goto, locals, history
    <3>2. pc'[t] = "recheck" /\ \A s \in Threads \ {t} : pc'[s] = pc[s]
      BY <3>1 DEF IInv, TypeOK
    <3>3. \A s \in Threads : pc[s] \notin Inside
      BY <3>1, SessionAssumption DEF IInv, Exclusion
    <3>4. Exclusion'
      BY <3>1, <3>2, <3>3 DEF Exclusion
    <3>5. InitOnce' /\ Passed' /\ OneVisitor'
      BY <3>1, <3>2 DEF IInv, InitOnce, Passed, OneVisitor, Making
    <3> QED BY <1>0, <3>4, <3>5 DEF IInv
  <2>3. CASE Recheck(t)
    <3>1. /\ pc[t] = "recheck" /\ UNCHANGED <<session, config, visitor>>
          /\ pc' = [pc EXCEPT ![t] = IF sessionInitialized THEN "release" ELSE "get"]
          /\ gets' = IF sessionInitialized THEN gets ELSE gets + 1
      BY <2>3 DEF Recheck, Goto, locals
    <3>2. /\ pc'[t] = (IF sessionInitialized THEN "release" ELSE "get")
          /\ \A s \in Threads \ {t} : pc'[s] = pc[s]
      BY <3>1 DEF IInv, TypeOK
    <3>3. lock = t /\ \A s \in Threads \ {t} : pc[s] \notin Inside
      BY <3>1 DEF IInv, Exclusion, Inside
    <3>4. Exclusion'
      BY <3>1, <3>2, <3>3 DEF IInv, Exclusion, session
    <3>5. gets \in Nat /\ (~sessionInitialized => gets = 0)
      BY <3>1, <3>3 DEF IInv, TypeOK, InitOnce, Making, Inside
    <3>6. InitOnce'
      BY <3>1, <3>2, <3>5 DEF IInv, InitOnce, Making, session
    <3>7. Passed' /\ OneVisitor'
      BY <3>1, <3>2 DEF IInv, Passed, OneVisitor, session
    <3> QED BY <1>0, <3>4, <3>6, <3>7 DEF IInv
  <2>4. CASE Headers(t) \/ Body(t) \/ GetFails(t)
    BY <1>0, <2>4, LocalKeeps DEF Headers, Body, GetFails, Goto, Phases, Inside, Making,
       history, locals
  <2>5. CASE Assign(t)
    <3>1. /\ pc[t] = "assign" /\ UNCHANGED <<sessionInitialized, lock, gets, config, visitor>>
          /\ pc' = [pc EXCEPT ![t] = "finish"]
      BY <2>5 DEF Assign, Goto, locals, history
    <3>2. pc'[t] = "finish" /\ \A s \in Threads \ {t} : pc'[s] = pc[s]
      BY <3>1 DEF IInv, TypeOK
    <3>3. ~sessionInitialized
      BY <3>1 DEF IInv, InitOnce, Making
    <3>4. Exclusion' /\ InitOnce' /\ Passed'
      BY <3>1, <3>2 DEF IInv, Exclusion, InitOnce, Passed, Making, Inside
    <3>5. OneVisitor'
      BY <3>1, <3>2, <3>3 DEF IInv, OneVisitor, Passed
    <3> QED BY <1>0, <3>4, <3>5 DEF IInv
  <2>6. CASE Finish(t)
    <3>1. /\ pc[t] = "finish" /\ sessionInitialized' = TRUE
          /\ UNCHANGED <<cachedVisitorData, lock, gets, config, visitor>>
          /\ pc' = [pc EXCEPT ![t] = "release"]
      BY <2>6 DEF Finish, Goto, locals, history
    <3>2. pc'[t] = "release" /\ \A s \in Threads \ {t} : pc'[s] = pc[s]
      BY <3>1 DEF IInv, TypeOK
    <3>3. \A s \in Threads \ {t} : pc[s] \notin Inside
      BY <3>1 DEF IInv, Exclusion, Inside
    <3>4. \A s \in Threads : ~Making(s)'
      BY <3>2, <3>3 DEF Making, Inside
    <3>5. Exclusion'
      BY <3>1, <3>2 DEF IInv, Exclusion, Inside
    <3>6. InitOnce' /\ Passed' /\ OneVisitor'
      BY <3>1, <3>2, <3>4 DEF IInv, InitOnce, Passed, OneVisitor
    <3> QED BY <1>0, <3>5, <3>6 DEF IInv
  <2>7. CASE Release(t)
    <3>1. /\ pc[t] = "release" /\ lock' = NoThread
          /\ UNCHANGED <<sessionInitialized, cachedVisitorData, gets, config, visitor>>
          /\ pc' = [pc EXCEPT ![t] = "visitor"]
      BY <2>7 DEF Release, Goto, locals, history
    <3>2. pc'[t] = "visitor" /\ \A s \in Threads \ {t} : pc'[s] = pc[s]
      BY <3>1 DEF IInv, TypeOK
    <3>3. \A s \in Threads \ {t} : pc[s] \notin Inside
      BY <3>1 DEF IInv, Exclusion, Inside
    <3>4. Exclusion'
      BY <3>2, <3>3 DEF Exclusion, Inside
    <3>5. InitOnce' /\ Passed' /\ OneVisitor'
      BY <3>1, <3>2 DEF IInv, InitOnce, Passed, OneVisitor, Making
    <3> QED BY <1>0, <3>4, <3>5 DEF IInv
  <2>8. CASE ReadVisitor(t)
    <3>1. /\ pc[t] = "visitor" /\ pc' = [pc EXCEPT ![t] = "post"]
          /\ visitor' = [visitor EXCEPT ![t] = cachedVisitorData]
          /\ UNCHANGED <<session, gets, config>>
      BY <2>8 DEF ReadVisitor, Goto, history
    <3>2. sessionInitialized /\ visitor'[t] = cachedVisitorData
          /\ \A s \in Threads \ {t} : visitor'[s] = visitor[s]
      BY <3>1 DEF IInv, TypeOK, Passed
    <3> QED BY <1>0, <3>1, <3>2, LocalKeeps DEF Phases, Inside
  <2>9. CASE Post(t)
    BY <1>0, <2>9, LocalKeeps DEF Post, Goto, Phases, Inside, Making, history, IInv, OneVisitor
  <2>10. CASE Answer(t)
    <3>1. /\ pc[t] = "await" /\ pc' = [pc EXCEPT ![t] = "idle"] /\ UNCHANGED <<session, gets>>
          /\ \A s \in Threads \ {t} : config'[s] = config[s] /\ visitor'[s] = visitor[s]
      BY <2>10 DEF Answer, Leave, history, IInv, TypeOK
    <3> QED BY <1>0, <3>1, LocalKeeps DEF Phases, Inside
  <2> QED BY <1>2, <2>1, <2>2, <2>3, <2>4, <2>5, <2>6, <2>7, <2>8, <2>9, <2>10 DEF Step
<1>3. CASE UNCHANGED vars
  BY <1>0, <1>3 DEF vars, IInv, Exclusion, InitOnce, Passed, OneVisitor, Making
<1> QED BY <1>1, <1>2, <1>3 DEF Next

LEMMA SpecIInv == Spec => []IInv
BY InitIInv, NextIInv, PTL DEF Spec

(* Every variable has its type in every reachable state.                   *)
THEOREM TypeCorrect == Spec => []TypeOK
<1>1. IInv => TypeOK
  BY DEF IInv
<1> QED BY <1>1, SpecIInv, PTL

(* The homepage is requested at most once in the life of the client.       *)
THEOREM SessionInitOnce == Spec => []OneHomepageGet
<1>1. IInv => OneHomepageGet
  BY DEF IInv, InitOnce, OneHomepageGet
<1> QED BY <1>1, SpecIInv, PTL

(* All WEB requests are sent after the session init, with one visitor data.*)
THEOREM VisitorShared == Spec => []OneVisitor
<1>1. IInv => OneVisitor
  BY DEF IInv
<1> QED BY <1>1, SpecIInv, PTL

-----------------------------------------------------------------------------

LEMMA InitMaps == Init => OneTime!Init
<1> SUFFICES ASSUME Init PROVE OneTime!Init
  OBVIOUS
<1>1. [t \in Threads |-> PhaseOf(t)] = [t \in Threads |-> "idle"]
  BY DEF Init, PhaseOf
<1> QED BY <1>1 DEF Init, OneTime!Init

\* Only WEB requests go through ensureSession and have visitor data.
OnlyWeb ==
    \A t \in Threads :
        /\ pc[t] \notin {"idle", "post", "await"} => config[t] = "WEB"
        /\ config[t] # "WEB" \/ pc[t] = "idle" => visitor[t] = NoVisitor

LEMMA NextOnlyWeb == TypeOK /\ OnlyWeb /\ [Next]_vars => OnlyWeb'
<1> SUFFICES ASSUME TypeOK, OnlyWeb, [Next]_vars PROVE OnlyWeb'
  OBVIOUS
<1> USE DEF TypeOK, OnlyWeb, Phases
<1>1. ASSUME NEW t \in Threads, NEW c \in Configs, Fetch(t, c) PROVE OnlyWeb'
  BY <1>1 DEF Fetch, Goto
<1>2. ASSUME NEW t \in Threads, Step(t) PROVE OnlyWeb'
  <2>1. CASE Check(t) \/ Acquire(t) \/ Recheck(t) \/ Headers(t) \/ Body(t)
    BY <2>1 DEF Check, Acquire, Recheck, Headers, Body, Goto, locals
  <2>2. CASE Assign(t) \/ GetFails(t) \/ Finish(t) \/ Release(t)
    BY <2>2 DEF Assign, GetFails, Finish, Release, Goto, locals
  <2>3. CASE ReadVisitor(t) \/ Post(t)
    BY <2>3 DEF ReadVisitor, Post, Goto
  <2>4. CASE Answer(t)
    BY <2>4 DEF Answer, Leave
  <2> QED BY <1>2, <2>1, <2>2, <2>3, <2>4 DEF Step
<1>3. CASE UNCHANGED vars
  BY <1>3 DEF vars
<1> QED BY <1>1, <1>2, <1>3 DEF Next

LEMMA SpecOnlyWeb == Spec => []OnlyWeb
<1>1. Init => TypeOK /\ OnlyWeb
  BY InitIInv DEF Init, OnlyWeb, IInv
<1>2. TypeOK /\ OnlyWeb /\ [Next]_vars => (TypeOK /\ OnlyWeb)'
  BY NextType, NextOnlyWeb
<1> QED BY <1>1, <1>2, PTL DEF Spec

\* What a thread's step does to the session and to itself as seen by OneTimeInit.
MapsToStutter(t) ==
    /\ PhaseOf(t)' = PhaseOf(t) /\ visitor' = visitor
    /\ sessionInitialized' = sessionInitialized
    /\ sessionInitialized => cachedVisitorData' = cachedVisitorData

LEMMA OthersKeepTheirPhase ==
    ASSUME TypeOK, NEW t \in Threads, NEW to, NEW c,
           pc' = [pc EXCEPT ![t] = to], config' = [config EXCEPT ![t] = c]
    PROVE  /\ \A s \in Threads \ {t} : PhaseOf(s)' = PhaseOf(s)
           /\ [s \in Threads |-> PhaseOf(s)]' =
                [[s \in Threads |-> PhaseOf(s)] EXCEPT ![t] = PhaseOf(t)']
           /\ pc'[t] = to /\ config'[t] = c
<1>1. pc'[t] = to /\ config'[t] = c
  BY DEF TypeOK
<1>2. \A s \in Threads \ {t} : pc'[s] = pc[s] /\ config'[s] = config[s]
  BY DEF TypeOK
<1>3. \A s \in Threads \ {t} : PhaseOf(s)' = PhaseOf(s)
  BY <1>2 DEF PhaseOf
<1> QED BY <1>1, <1>3

LEMMA StutterMaps ==
    ASSUME TypeOK, NEW t \in Threads, NEW to, NEW c,
           pc' = [pc EXCEPT ![t] = to], config' = [config EXCEPT ![t] = c],
           MapsToStutter(t)
    PROVE  UNCHANGED OneTime!vars
<1>1. \A s \in Threads : PhaseOf(s)' = PhaseOf(s)
  BY OthersKeepTheirPhase DEF MapsToStutter
<1> QED BY <1>1 DEF OneTime!vars, MapsToStutter

LEMMA StepMaps == IInv /\ OnlyWeb /\ [Next]_vars => [OneTime!Next]_OneTime!vars
<1> SUFFICES ASSUME IInv, OnlyWeb, [Next]_vars PROVE [OneTime!Next]_OneTime!vars
  OBVIOUS
<1> USE DEF IInv
<1>0. TypeOK
  OBVIOUS
<1>1. ASSUME NEW t \in Threads, NEW c \in Configs, Fetch(t, c) PROVE [OneTime!Next]_OneTime!vars
  <2>1. /\ pc[t] = "idle" /\ UNCHANGED <<session, visitor>>
        /\ pc' = [pc EXCEPT ![t] = IF c = "WEB" THEN "check" ELSE "post"]
        /\ config' = [config EXCEPT ![t] = c]
    BY <1>1 DEF Fetch, Goto
  <2>2. PhaseOf(t) = "idle" /\ PhaseOf(t)' = IF c = "WEB" THEN "asking" ELSE "idle"
    BY <2>1 DEF PhaseOf, TypeOK
  <2>5. [s \in Threads |-> PhaseOf(s)]' = [[s \in Threads |-> PhaseOf(s)] EXCEPT ![t] = PhaseOf(t)']
    BY <2>1, <1>0, OthersKeepTheirPhase
  <2>3. CASE c = "WEB"
    <3>1. OneTime!Ask(t)
      BY <2>1, <2>2, <2>3, <2>5 DEF OneTime!Ask, session
    <3> QED BY <3>1 DEF OneTime!Next
  <2>4. CASE c # "WEB"
    <3>1. MapsToStutter(t)
      BY <2>1, <2>2, <2>4 DEF MapsToStutter, session
    <3> QED BY <2>1, <3>1, <1>0, StutterMaps
  <2> QED BY <2>3, <2>4
<1>2. ASSUME NEW t \in Threads, Step(t) PROVE [OneTime!Next]_OneTime!vars
  <2>0. config = [config EXCEPT ![t] = config[t]]
    BY DEF TypeOK
  \* Past the fast path, or on the way to it, and on no business of the others.
  <2>1. ASSUME NEW from \in Phases, NEW to \in Phases, pc[t] = from,
               pc' = [pc EXCEPT ![t] = to],
               from \notin {"idle", "post", "await"} <=> to \notin {"idle", "post", "await"},
               from = "idle" <=> to = "idle",
               UNCHANGED <<session, visitor, config>>
        PROVE  [OneTime!Next]_OneTime!vars
    <3>1. pc'[t] = to
      BY <2>1 DEF TypeOK
    <3>2. MapsToStutter(t)
      BY <2>1, <3>1 DEF MapsToStutter, PhaseOf, session
    <3> QED BY <2>0, <2>1, <3>2, <1>0, StutterMaps
  <2>2. CASE Check(t) \/ Recheck(t) \/ Headers(t) \/ Body(t) \/ GetFails(t)
    BY <2>1, <2>2 DEF Check, Recheck, Headers, Body, GetFails, Goto, locals, Phases
  <2>3. CASE Acquire(t) \/ Release(t)
    <3>1. \E from, to \in {"lock", "recheck", "release", "visitor"} :
            /\ pc[t] = from /\ pc' = [pc EXCEPT ![t] = to]
            /\ UNCHANGED <<sessionInitialized, cachedVisitorData, config, visitor>>
      BY <2>3 DEF Acquire, Release, Goto, locals
    <3>2. PICK from, to \in {"lock", "recheck", "release", "visitor"} :
            /\ pc[t] = from /\ pc' = [pc EXCEPT ![t] = to]
            /\ UNCHANGED <<sessionInitialized, cachedVisitorData, config, visitor>>
      BY <3>1
    <3>3. pc'[t] = to
      BY <3>2 DEF TypeOK
    <3>4. MapsToStutter(t)
      BY <3>2, <3>3 DEF MapsToStutter, PhaseOf
    <3> QED BY <2>0, <3>2, <3>4, <1>0, StutterMaps
  <2>4. CASE Assign(t)
    <3>1. /\ pc[t] = "assign" /\ pc' = [pc EXCEPT ![t] = "finish"]
          /\ UNCHANGED <<sessionInitialized, config, visitor>>
      BY <2>4 DEF Assign, Goto, locals
    <3>2. ~sessionInitialized /\ pc'[t] = "finish"
      BY <3>1 DEF TypeOK, InitOnce, Making
    <3>3. MapsToStutter(t)
      BY <3>1, <3>2 DEF MapsToStutter, PhaseOf
    <3> QED BY <2>0, <3>1, <3>3, <1>0, StutterMaps
  <2>5. CASE Finish(t)
    <3>1. /\ pc[t] = "finish" /\ pc' = [pc EXCEPT ![t] = "release"]
          /\ sessionInitialized' = TRUE
          /\ UNCHANGED <<cachedVisitorData, config, visitor>>
      BY <2>5 DEF Finish, Goto, locals
    <3>2. ~sessionInitialized /\ config[t] = "WEB"
      BY <3>1 DEF InitOnce, Making, OnlyWeb
    <3>3. \A s \in Threads : PhaseOf(s)' = PhaseOf(s)
      BY <3>1 DEF PhaseOf, TypeOK
    <3>4. PhaseOf(t) = "asking"
      BY <3>1, <3>2 DEF PhaseOf
    <3>5. OneTime!Make
      BY <3>1, <3>2, <3>3, <3>4 DEF OneTime!Make, TypeOK
    <3> QED BY <3>5 DEF OneTime!Next
  <2>6. CASE ReadVisitor(t)
    <3>1. /\ pc[t] = "visitor" /\ pc' = [pc EXCEPT ![t] = "post"]
          /\ visitor' = [visitor EXCEPT ![t] = cachedVisitorData]
          /\ UNCHANGED <<session, config>>
      BY <2>6 DEF ReadVisitor, Goto
    <3>2. sessionInitialized /\ config[t] = "WEB"
      BY <3>1 DEF Passed, OnlyWeb
    <3>3. PhaseOf(t) = "asking" /\ PhaseOf(t)' = "served"
      BY <3>1, <3>2 DEF PhaseOf, TypeOK
    <3>5. [s \in Threads |-> PhaseOf(s)]' = [[s \in Threads |-> PhaseOf(s)] EXCEPT ![t] = PhaseOf(t)']
      BY <2>0, <3>1, <1>0, OthersKeepTheirPhase
    <3>4. OneTime!Take(t)
      BY <3>1, <3>2, <3>3, <3>5 DEF OneTime!Take, session
    <3> QED BY <3>4 DEF OneTime!Next
  <2>7. CASE Post(t)
    BY <2>1, <2>7 DEF Post, Goto, Phases
  <2>8. CASE Answer(t)
    <3>1. /\ pc[t] = "await" /\ pc' = [pc EXCEPT ![t] = "idle"]
          /\ config' = [config EXCEPT ![t] = "OTHER"]
          /\ visitor' = [visitor EXCEPT ![t] = NoVisitor]
          /\ UNCHANGED session
      BY <2>8 DEF Answer, Leave
    <3>2. PhaseOf(t)' = "idle"
      BY <3>1 DEF PhaseOf, TypeOK
    <3>5. [s \in Threads |-> PhaseOf(s)]' = [[s \in Threads |-> PhaseOf(s)] EXCEPT ![t] = PhaseOf(t)']
      BY <3>1, <1>0, OthersKeepTheirPhase
    <3>3. CASE config[t] = "WEB"
      <4>1. PhaseOf(t) = "served"
        BY <3>1, <3>3 DEF PhaseOf
      <4>2. OneTime!Leave(t)
        BY <3>1, <3>2, <3>5, <4>1 DEF OneTime!Leave, session
      <4> QED BY <4>2 DEF OneTime!Next
    <3>4. CASE config[t] # "WEB"
      <4>1. PhaseOf(t) = "idle" /\ visitor[t] = NoVisitor
        BY <3>4 DEF PhaseOf, OnlyWeb
      <4>2. visitor' = visitor
        BY <3>1, <4>1 DEF TypeOK
      <4>3. MapsToStutter(t)
        BY <3>1, <3>2, <4>1, <4>2 DEF MapsToStutter, session
      <4> QED BY <3>1, <4>3, <1>0, StutterMaps
    <3> QED BY <3>3, <3>4
  <2> QED BY <1>2, <2>2, <2>3, <2>4, <2>5, <2>6, <2>7, <2>8 DEF Step
<1>3. CASE UNCHANGED vars
  BY <1>3 DEF vars, OneTime!vars, PhaseOf
<1> QED BY <1>1, <1>2, <1>3 DEF Next

(* Double-checked locking implements a session that is made in one step.   *)
THEOREM SessionInitAtomic == Spec => InitLooksAtomic
BY InitMaps, StepMaps, SpecIInv, SpecOnlyWeb, PTL DEF Spec, InitLooksAtomic, OneTime!Spec
=============================================================================

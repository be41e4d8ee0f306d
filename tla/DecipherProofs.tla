--------------------------- MODULE DecipherProofs ---------------------------
(***************************************************************************)
(* For any number of tasks and player scripts: no URL is made by a         *)
(* function of another player, the sentinel is remembered only with cause, *)
(* and a URL keeps its token only with cause. For texts of any length, a   *)
(* function is cut at the brace that closes its body.                      *)
(***************************************************************************)
EXTENDS Decipher, CollectionLemmas

\* There is no function of p to use, or the engine failed when it was tested.
Excused(p) == NFunction[p] # "plausible" \/ p \in flawed

(* An entry of a script's hash is that script's.                           *)
CacheOK ==
    \A p \in Scripts :
        /\ sigCache[hashCode[p]] \in {NoCode, p}
        /\ nCache[hashCode[p]] \in {NoCode, p, FULL_PLAYER_JS_SENTINEL}
        /\ nCache[hashCode[p]] = FULL_PLAYER_JS_SENTINEL => Excused(p)

\* The parts of the URL that a task has made so far.
PartsOK(t) ==
    /\ pc[t] \in {"idle", "url", "sigSearch", "sigPut", "sigRun"} => sigBy[t] = Clear
    /\ pc[t] \in {"sigSearch", "sigPut", "sigRun"} => format[t].url = "cipher"
    /\ pc[t] \in {"n", "nSearch", "nTest", "nPut", "nRun", "full", "done"} =>
            sigBy[t] = IF format[t].url = "cipher" THEN playerJs[t] ELSE Clear
    /\ pc[t] # "done" => nBy[t] = Untouched
    /\ pc[t] \notin {"full", "done"} => attempt[t] = 1
    /\ pc[t] = "full" => attempt[t] <= Len(kMemLimits)
    /\ pc[t] = "done" =>
        /\ nBy[t] \in {playerJs[t], Untouched}
        /\ format[t].hasN /\ nBy[t] = Untouched =>
            /\ Excused(playerJs[t])
            /\ \/ attempt[t] > Len(kMemLimits)
               \/ ~Discovery[playerJs[t]]
               \/ spoilt[t] \in {"memory", "exception", "blank"}

\* The code a task has at hand is its own script's.
CodeOK(t) ==
    /\ pc[t] \in {"sigPut", "sigRun", "nRun"} => code[t] = playerJs[t]
    /\ pc[t] = "nPut" => code[t] \in {playerJs[t], FULL_PLAYER_JS_SENTINEL}
    /\ pc[t] = "nPut" /\ code[t] = FULL_PLAYER_JS_SENTINEL => Excused(playerJs[t])
    /\ pc[t] = "full" => Excused(playerJs[t])

IInv == TypeOK /\ CacheOK /\ \A t \in Tasks : PartsOK(t) /\ CodeOK(t)

-----------------------------------------------------------------------------

LEMMA InitIInv == Init => IInv
<1> SUFFICES ASSUME Init PROVE IInv
  OBVIOUS
<1>1. TypeOK
  BY DecipherAssumption DEF Init, TypeOK, Phases, NoFormat, Formats
<1>2. CacheOK
  BY DecipherAssumption DEF Init, CacheOK, NoCode, FULL_PLAYER_JS_SENTINEL
<1>3. \A t \in Tasks : PartsOK(t) /\ CodeOK(t)
  BY DEF Init, PartsOK, CodeOK
<1> QED BY <1>1, <1>2, <1>3 DEF IInv

(* A step of one task leaves the others as they are; a script that was     *)
(* flawed stays so.                                                        *)
LEMMA LocalStep ==
    ASSUME IInv, NEW t \in Tasks, TypeOK', CacheOK', PartsOK(t)', CodeOK(t)',
           flawed \subseteq flawed',
           \A s \in Tasks \ {t} :
                /\ pc'[s] = pc[s] /\ format'[s] = format[s] /\ playerJs'[s] = playerJs[s]
                /\ code'[s] = code[s] /\ attempt'[s] = attempt[s]
                /\ sigBy'[s] = sigBy[s] /\ nBy'[s] = nBy[s] /\ spoilt'[s] = spoilt[s]
    PROVE  IInv'
<1>1. ASSUME NEW s \in Tasks \ {t} PROVE PartsOK(s)' /\ CodeOK(s)'
  <2>1. PartsOK(s) /\ CodeOK(s)
    BY DEF IInv
  <2>2. Excused(playerJs[s]) => Excused(playerJs[s])'
    BY <1>1 DEF Excused
  <2>3. PartsOK(s)'
    BY <1>1, <2>1, <2>2 DEF PartsOK, Excused
  <2>4. CodeOK(s)'
    BY <1>1, <2>1, <2>2 DEF CodeOK, Excused
  <2> QED BY <2>3, <2>4
<1> QED BY <1>1 DEF IInv

(* The maps stay as they are.                                              *)
LEMMA SameMaps ==
    ASSUME IInv, UNCHANGED maps, flawed \subseteq flawed'
    PROVE  CacheOK'
BY DEF IInv, CacheOK, Excused, maps

(* The script of a task that is running, and what the maps hold for it.    *)
LEMMA Running ==
    ASSUME IInv, NEW t \in Tasks, pc[t] # "idle"
    PROVE  /\ playerJs[t] \in Scripts /\ key(t) \in Hashes
           /\ playerJs[t] \notin {FULL_PLAYER_JS_SENTINEL, NoCode, NoScript, Untouched}
           /\ sigCache[key(t)] \in {NoCode, playerJs[t]}
           /\ nCache[key(t)] \in {NoCode, playerJs[t], FULL_PLAYER_JS_SENTINEL}
           /\ nCache[key(t)] = FULL_PLAYER_JS_SENTINEL => Excused(playerJs[t])
           /\ PartsOK(t) /\ CodeOK(t)
<1>1. playerJs[t] \in Scripts
  BY DEF IInv, TypeOK
<1> QED BY <1>1, DecipherAssumption DEF IInv, CacheOK, key

LEMMA EndKeeps ==
    ASSUME IInv, NEW t \in Tasks, End(t), UNCHANGED <<maps, flawed>>
    PROVE  IInv'
<1>1. TypeOK'
  BY DecipherAssumption DEF IInv, TypeOK, End, maps, Phases, NoFormat, Formats
<1>2. CacheOK'
  BY SameMaps
<1>3. PartsOK(t)' /\ CodeOK(t)'
  BY DEF IInv, TypeOK, End, PartsOK, CodeOK
<1> QED BY <1>1, <1>2, <1>3, LocalStep DEF IInv, TypeOK, End

LEMMA SigStepKeeps ==
    ASSUME IInv, NEW t \in Tasks, SigStep(t)
    PROVE  IInv'
<1> USE DEF Goto
<1>0. pc[t] # "idle"
  BY DEF SigStep, Plain, NoUrl, SigHit, SigMiss, SigNotFound, SigFound, SigPut, SigRun, SigRunFails
<1> DEFINE p == playerJs[t]
<1>r. /\ p \in Scripts /\ key(t) \in Hashes /\ p # NoCode
      /\ sigCache[key(t)] \in {NoCode, p} /\ PartsOK(t) /\ CodeOK(t)
  BY <1>0, Running
<1>1. CASE Plain(t) \/ SigMiss(t)
  <2>1. TypeOK'
    BY <1>1 DEF IInv, TypeOK, Plain, SigMiss, maps, locals, Phases
  <2>2. CacheOK'
    BY <1>1, SameMaps DEF Plain, SigMiss
  <2>3. PartsOK(t)' /\ CodeOK(t)'
    BY <1>1, <1>r DEF IInv, TypeOK, Plain, SigMiss, locals, PartsOK, CodeOK
  <2> QED BY <1>1, <2>1, <2>2, <2>3, LocalStep DEF IInv, TypeOK, Plain, SigMiss, locals
<1>2. CASE NoUrl(t) \/ SigNotFound(t) \/ SigRunFails(t)
  BY <1>2, EndKeeps DEF NoUrl, SigNotFound, SigRunFails
<1>3. CASE SigHit(t) \/ SigFound(t)
  <2>1. code' = [code EXCEPT ![t] = p]
    BY <1>3, <1>r DEF SigHit, SigFound
  <2>2. TypeOK'
    BY <1>3, <1>r, <2>1 DEF IInv, TypeOK, SigHit, SigFound, maps, Phases
  <2>3. CacheOK'
    BY <1>3, SameMaps DEF SigHit, SigFound
  <2>4. PartsOK(t)' /\ CodeOK(t)'
    BY <1>3, <1>r, <2>1 DEF IInv, TypeOK, SigHit, SigFound, PartsOK, CodeOK
  <2> QED BY <1>3, <2>1, <2>2, <2>3, <2>4, LocalStep DEF IInv, TypeOK, SigHit, SigFound
<1>4. CASE SigPut(t)
  <2>1. code[t] = p
    BY <1>4, <1>r DEF SigPut, CodeOK
  <2>2. TypeOK'
    BY <1>4, <1>r, <2>1 DEF IInv, TypeOK, SigPut, locals, Phases
  <2>3. CacheOK'
    BY <1>4, <1>r, <2>1, DecipherAssumption DEF IInv, TypeOK, CacheOK, SigPut, key, Excused
  <2>4. PartsOK(t)' /\ CodeOK(t)'
    BY <1>4, <1>r, <2>1 DEF IInv, TypeOK, SigPut, locals, PartsOK, CodeOK
  <2> QED BY <1>4, <2>2, <2>3, <2>4, LocalStep DEF IInv, TypeOK, SigPut, locals
<1>5. CASE SigRun(t)
  <2>1. code[t] = p /\ format[t].url = "cipher"
    BY <1>5, <1>r DEF SigRun, CodeOK, PartsOK
  <2>2. TypeOK'
    BY <1>5, <1>r, <2>1 DEF IInv, TypeOK, SigRun, maps, Phases
  <2>3. CacheOK'
    BY <1>5, SameMaps DEF SigRun
  <2>4. PartsOK(t)' /\ CodeOK(t)'
    BY <1>5, <1>r, <2>1 DEF IInv, TypeOK, SigRun, PartsOK, CodeOK
  <2> QED BY <1>5, <2>2, <2>3, <2>4, LocalStep DEF IInv, TypeOK, SigRun
<1> QED BY <1>1, <1>2, <1>3, <1>4, <1>5 DEF SigStep

LEMMA NStepKeeps ==
    ASSUME IInv, NEW t \in Tasks, NStep(t)
    PROVE  IInv'
<1> USE DEF Goto
<1>0. pc[t] # "idle"
  BY DEF NStep, NoToken, NHit, NMiss, NNameless, NNamed, TestPasses, TestFails,
     EngineThrows, NPut, NRun, NRunFails, Full, FullStarved, FullThrows, FullBlank, Spoil, FullFails
<1> DEFINE p == playerJs[t]
           S == FULL_PLAYER_JS_SENTINEL
<1>r. /\ p \in Scripts /\ key(t) \in Hashes /\ p \notin {S, NoCode, Untouched}
      /\ nCache[key(t)] \in {NoCode, p, S} /\ (nCache[key(t)] = S => Excused(p))
      /\ PartsOK(t) /\ CodeOK(t)
  BY <1>0, Running
<1>1. CASE NoToken(t) \/ NMiss(t) \/ NNamed(t)
  <2>1. TypeOK'
    BY <1>1 DEF IInv, TypeOK, NoToken, NMiss, NNamed, maps, locals, Phases
  <2>2. CacheOK'
    BY <1>1, SameMaps DEF NoToken, NMiss, NNamed
  <2>3. PartsOK(t)' /\ CodeOK(t)'
    BY <1>1, <1>r DEF IInv, TypeOK, NoToken, NMiss, NNamed, locals, PartsOK, CodeOK
  <2> QED BY <1>1, <2>1, <2>2, <2>3, LocalStep DEF IInv, TypeOK, NoToken, NMiss, NNamed, locals
<1>2. CASE EngineThrows(t) \/ NRunFails(t)
  BY <1>2, EndKeeps DEF EngineThrows, NRunFails
<1>3. CASE NHit(t)
  <2>1. /\ pc[t] = "n" /\ code' = [code EXCEPT ![t] = nCache[key(t)]]
        /\ nCache[key(t)] \in {p, S}
        /\ pc' = [pc EXCEPT ![t] = IF nCache[key(t)] = S THEN "full" ELSE "nRun"]
        /\ UNCHANGED <<maps, format, playerJs, attempt, sigBy, nBy, spoilt, flawed>>
    BY <1>3, <1>r DEF NHit, By
  <2>2. TypeOK'
    BY <1>r, <2>1 DEF IInv, TypeOK, maps, Phases
  <2>3. CacheOK'
    BY <2>1, SameMaps
  <2>4. attempt[t] <= Len(kMemLimits)
    BY <1>r, <2>1, DecipherAssumption DEF PartsOK
  <2>5. PartsOK(t)' /\ CodeOK(t)'
    BY <1>r, <2>1, <2>4 DEF IInv, TypeOK, PartsOK, CodeOK, Excused
  <2> QED BY <2>1, <2>2, <2>3, <2>5, LocalStep DEF IInv, TypeOK
<1>4. CASE NNameless(t) \/ TestPasses(t) \/ TestFails(t)
  <2>1. PICK c \in {p, S} :
            /\ code' = [code EXCEPT ![t] = c] /\ pc' = [pc EXCEPT ![t] = "nPut"]
            /\ pc[t] \in {"nSearch", "nTest"}
            /\ c = S => Excused(p)'
            /\ flawed \subseteq flawed' /\ flawed' \subseteq Scripts
            /\ UNCHANGED <<maps, format, playerJs, attempt, sigBy, nBy, spoilt>>
    <3>1. CASE NNameless(t)
      BY <3>1 DEF NNameless, Excused, IInv, TypeOK
    <3>2. CASE TestPasses(t)
      BY <1>r, <3>2 DEF TestPasses, IInv, TypeOK
    <3>3. CASE TestFails(t)
      BY <1>r, <3>3 DEF TestFails, Excused, IInv, TypeOK
    <3> QED BY <1>4, <3>1, <3>2, <3>3
  <2>2. TypeOK'
    BY <1>r, <2>1 DEF IInv, TypeOK, maps, Phases
  <2>3. CacheOK'
    BY <2>1, SameMaps
  <2>4. PartsOK(t)' /\ CodeOK(t)'
    BY <1>r, <2>1 DEF IInv, TypeOK, PartsOK, CodeOK
  <2> QED BY <2>1, <2>2, <2>3, <2>4, LocalStep DEF IInv, TypeOK
<1>5. CASE NPut(t)
  <2>1. /\ pc[t] = "nPut" /\ UNCHANGED <<sigCache, locals, flawed>>
        /\ code[t] \in {p, S} /\ (code[t] = S => Excused(p))
        /\ pc' = [pc EXCEPT ![t] = IF code[t] = S THEN "full" ELSE "nRun"]
        /\ \/ nCache' = [nCache EXCEPT ![key(t)] = code[t]]
           \/ UNCHANGED nCache
    BY <1>5, <1>r DEF NPut, By, CodeOK
  <2>2. TypeOK'
    BY <1>r, <2>1 DEF IInv, TypeOK, locals, Phases
  <2>3. CacheOK'
    BY <1>r, <2>1, DecipherAssumption DEF IInv, TypeOK, CacheOK, key, Excused
  <2>4. attempt[t] <= Len(kMemLimits)
    BY <1>r, <2>1, DecipherAssumption DEF PartsOK
  <2>5. PartsOK(t)' /\ CodeOK(t)'
    BY <1>r, <2>1, <2>4 DEF IInv, TypeOK, locals, PartsOK, CodeOK, Excused
  <2> QED BY <2>1, <2>2, <2>3, <2>5, LocalStep DEF IInv, TypeOK, locals
<1>6. CASE NRun(t)
  <2>1. code[t] = p
    BY <1>6, <1>r DEF NRun, CodeOK
  <2>2. TypeOK'
    BY <1>6, <1>r, <2>1 DEF IInv, TypeOK, NRun, maps, Phases
  <2>3. CacheOK'
    BY <1>6, SameMaps DEF NRun
  <2>4. PartsOK(t)' /\ CodeOK(t)'
    BY <1>6, <1>r, <2>1 DEF IInv, TypeOK, NRun, PartsOK, CodeOK
  <2> QED BY <1>6, <2>2, <2>3, <2>4, LocalStep DEF IInv, TypeOK, NRun
<1>7. CASE Full(t)
  <2>1. Excused(p) /\ Discovery[p] \in BOOLEAN
    BY <1>7, <1>r, DecipherAssumption DEF Full, CodeOK
  <2>2. TypeOK'
    BY <1>7, <1>r DEF IInv, TypeOK, Full, maps, Phases
  <2>3. CacheOK'
    BY <1>7, SameMaps DEF Full
  <2>4. PartsOK(t)' /\ CodeOK(t)'
    BY <1>7, <1>r, <2>1 DEF IInv, TypeOK, Full, PartsOK, CodeOK, Excused
  <2> QED BY <1>7, <2>2, <2>3, <2>4, LocalStep DEF IInv, TypeOK, Full
<1>9. ASSUME NEW what \in {"memory", "exception", "blank"}, Spoil(t, what)
      PROVE  IInv'
  <2>1. Excused(p) /\ spoilt'[t] = what
    BY <1>9, <1>r DEF Spoil, Goto, CodeOK, IInv, TypeOK
  <2>2. TypeOK'
    BY <1>9, <1>r DEF IInv, TypeOK, Spoil, maps, Phases
  <2>3. CacheOK'
    BY <1>9, SameMaps DEF Spoil
  <2>4. PartsOK(t)' /\ CodeOK(t)'
    BY <1>9, <1>r, <2>1 DEF IInv, TypeOK, Spoil, PartsOK, CodeOK, Excused
  <2> QED BY <1>9, <2>2, <2>3, <2>4, LocalStep DEF IInv, TypeOK, Spoil
<1>8. CASE FullFails(t)
  <2>1. /\ Excused(p) /\ attempt[t] <= Len(kMemLimits) /\ pc[t] = "full"
        /\ attempt[t] \in 1 .. Len(kMemLimits) + 1 /\ Len(kMemLimits) \in Nat
        /\ attempt' = [attempt EXCEPT ![t] = attempt[t] + 1]
        /\ pc' = [pc EXCEPT ![t] = IF attempt[t] < Len(kMemLimits) THEN "full" ELSE "done"]
        /\ UNCHANGED <<maps, format, playerJs, code, sigBy, nBy, spoilt, flawed>>
    BY <1>8, <1>r, DecipherAssumption DEF FullFails, CodeOK, PartsOK, IInv, TypeOK
  <2>2. TypeOK'
    BY <2>1 DEF IInv, TypeOK, maps, Phases
  <2>3. CacheOK'
    BY <2>1, SameMaps
  <2>4. PartsOK(t)' /\ CodeOK(t)'
    BY <1>r, <2>1 DEF IInv, TypeOK, PartsOK, CodeOK, Excused
  <2> QED BY <2>1, <2>2, <2>3, <2>4, LocalStep DEF IInv, TypeOK
<1> QED BY <1>1, <1>2, <1>3, <1>4, <1>5, <1>6, <1>7, <1>8, <1>9
    DEF NStep, FullStarved, FullThrows, FullBlank

LEMMA BeginKeeps ==
    ASSUME IInv, NEW t \in Tasks, NEW p \in Scripts, NEW f \in Formats, Begin(t, p, f)
    PROVE  IInv'
<1>1. TypeOK'
  BY DEF IInv, TypeOK, Begin, Goto, maps, Phases
<1>2. CacheOK'
  BY SameMaps DEF Begin
<1>3. PartsOK(t)' /\ CodeOK(t)'
  BY DEF IInv, TypeOK, Begin, Goto, PartsOK, CodeOK
<1> QED BY <1>1, <1>2, <1>3, LocalStep DEF IInv, TypeOK, Begin, Goto

LEMMA NextIInv == IInv /\ [Next]_vars => IInv'
<1> SUFFICES ASSUME IInv, [Next]_vars PROVE IInv'
  OBVIOUS
<1>1. CASE Next
  <2>1. PICK t \in Tasks : Step(t) \/ \E p \in Scripts, f \in Formats : Begin(t, p, f)
    BY <1>1 DEF Next
  <2>2. CASE Return(t)
    BY <2>2, EndKeeps DEF Return
  <2> QED BY <2>1, <2>2, SigStepKeeps, NStepKeeps, BeginKeeps DEF Step
<1>2. CASE UNCHANGED vars
  BY <1>2 DEF vars, maps, locals, IInv, TypeOK, CacheOK, PartsOK, CodeOK, Excused
<1> QED BY <1>1, <1>2

LEMMA SpecIInv == Spec => []IInv
BY InitIInv, NextIInv, PTL DEF Spec

(* Every variable has its type in every reachable state.                   *)
THEOREM TypeCorrect == Spec => []TypeOK
<1>1. IInv => TypeOK
  BY DEF IInv
<1> QED BY <1>1, SpecIInv, PTL

(* No part of a URL is made by a function of another player's script.      *)
THEOREM FunctionsAreOwn == Spec => []OwnFunction
<1>1. IInv => OwnFunction
  BY DEF IInv, PartsOK, OwnFunction
<1> QED BY <1>1, SpecIInv, PTL

(* The sentinel is remembered only for want of a function, or after the    *)
(* engine failed in its test.                                              *)
THEOREM SentinelExplained == Spec => []SentinelHasCause
<1>1. IInv => SentinelHasCause
  BY DEF IInv, CacheOK, Excused, SentinelHasCause
<1> QED BY <1>1, SpecIInv, PTL

(* A URL keeps its token only for want of a function, or after the engine  *)
(* failed in its test; and then only if every limit was tried in vain, or  *)
(* one run found no function, ran out of memory, or found one that threw   *)
(* on the token or gave a blank.                                           *)
THEOREM RawTokenExplained == Spec => []RawTokenHasCause
<1>1. IInv => RawTokenHasCause
  BY DEF IInv, PartsOK, Excused, RawTokenHasCause
<1> QED BY <1>1, SpecIInv, PTL

-----------------------------------------------------------------------------

(* The loop of findMatchingBrace, and the lexer, token by token.           *)
LEMMA WalkedSteps ==
    ASSUME NEW js, Len(js) \in Nat, NEW from \in 0 .. Len(js)
    PROVE  /\ Walked(js, from + 1)[from] = Outside
           /\ \A i \in from + 1 .. Len(js) :
                Walked(js, from + 1)[i] = Walk(Walked(js, from + 1)[i - 1], js, i)
<1> DEFINE Body(f, i) == IF i = from THEN Outside ELSE Walk(f[i - 1], js, i)
           IsWalk(f, m) == f = [i \in from .. m |-> Body(f, i)]
           T == {m \in from .. Len(js) : ~ \E f : IsWalk(f, m)}
<1>1. T = {}
  <2> SUFFICES ASSUME T # {} PROVE FALSE
    OBVIOUS
  <2>1. PICK m \in T : \A k \in T : m <= k
    <3>1. T \subseteq Nat
      OBVIOUS
    <3> HIDE DEF T
    <3> QED BY <3>1, LeastElement
  <2>2. m \in from .. Len(js) /\ ~ \E f : IsWalk(f, m)
    BY <2>1
  <2>3. CASE m = from
    <3>1. IsWalk([i \in from .. from |-> Outside], from)
      OBVIOUS
    <3> QED BY <2>2, <2>3, <3>1
  <2>4. CASE m # from
    <3>1. m - 1 \in from .. Len(js) /\ ~ (m <= m - 1) /\ m \in Nat /\ from < m
      BY <2>2, <2>4
    <3>2. PICK f : IsWalk(f, m - 1)
      BY <2>1, <3>1
    <3> DEFINE g == [i \in from .. m |-> IF i = m THEN Body(f, m) ELSE f[i]]
    <3>3. ASSUME NEW i \in from .. m PROVE g[i] = Body(g, i)
      <4>1. CASE i = m
        BY <2>4, <3>1, <4>1
      <4>2. CASE i # m
        <5>1. /\ i \in from .. m - 1
              /\ i # from => i - 1 \in from .. m - 1 /\ i - 1 \in from .. m /\ i - 1 # m
          BY <3>1, <4>2
        <5>2. f[i] = Body(f, i)
          BY <3>2, <5>1
        <5>3. i # from => g[i - 1] = f[i - 1]
          BY <5>1
        <5> QED BY <4>2, <5>2, <5>3
      <4> QED BY <4>1, <4>2
    <3>4. IsWalk(g, m)
      BY <3>3
    <3> QED BY <2>2, <3>4
  <2> QED BY <2>3, <2>4
<1> DEFINE walked == CHOOSE f : IsWalk(f, Len(js))
<1>2. IsWalk(walked, Len(js))
  <2>1. Len(js) \in from .. Len(js)
    OBVIOUS
  <2>2. \E f : IsWalk(f, Len(js))
    BY <1>1, <2>1
  <2> HIDE DEF IsWalk
  <2> QED BY <2>2
<1>3. Walked(js, from + 1) = walked
  <2>1. from + 1 - 1 = from
    OBVIOUS
  <2> QED BY <2>1 DEF Walked
<1> HIDE DEF walked
<1>4. \A i \in from .. Len(js) : walked[i] = Body(walked, i)
  BY <1>2
<1>5. \A i \in from + 1 .. Len(js) : i \in from .. Len(js) /\ i # from
  OBVIOUS
<1> QED BY <1>3, <1>4, <1>5

LEMMA LexedSteps ==
    ASSUME NEW body, Len(body) \in Nat
    PROVE  /\ Lexed(body)[0] = Code
           /\ \A n \in 1 .. Len(body) : Lexed(body)[n] = Read(Lexed(body)[n - 1], body[n])
<1> DEFINE Body(f, n) == IF n = 0 THEN Code ELSE Read(f[n - 1], body[n])
           IsWalk(f, m) == f = [n \in 0 .. m |-> Body(f, n)]
           T == {m \in 0 .. Len(body) : ~ \E f : IsWalk(f, m)}
<1>1. T = {}
  <2> SUFFICES ASSUME T # {} PROVE FALSE
    OBVIOUS
  <2>1. PICK m \in T : \A k \in T : m <= k
    <3>1. T \subseteq Nat
      OBVIOUS
    <3> HIDE DEF T
    <3> QED BY <3>1, LeastElement
  <2>2. m \in 0 .. Len(body) /\ ~ \E f : IsWalk(f, m)
    BY <2>1
  <2>3. CASE m = 0
    <3>1. IsWalk([n \in 0 .. 0 |-> Code], 0)
      OBVIOUS
    <3> QED BY <2>2, <2>3, <3>1
  <2>4. CASE m # 0
    <3>1. m - 1 \in 0 .. Len(body) /\ ~ (m <= m - 1) /\ m \in Nat
      BY <2>2, <2>4
    <3>2. PICK f : IsWalk(f, m - 1)
      BY <2>1, <3>1
    <3> DEFINE g == [n \in 0 .. m |-> IF n = m THEN Body(f, m) ELSE f[n]]
    <3>3. ASSUME NEW n \in 0 .. m PROVE g[n] = Body(g, n)
      <4>1. CASE n = m
        BY <2>4, <3>1, <4>1
      <4>2. CASE n # m
        <5>1. n \in 0 .. m - 1 /\ (n # 0 => n - 1 \in 0 .. m - 1 /\ n - 1 \in 0 .. m /\ n - 1 # m)
          BY <3>1, <4>2
        <5>2. f[n] = Body(f, n)
          BY <3>2, <5>1
        <5>3. n # 0 => g[n - 1] = f[n - 1]
          BY <5>1
        <5> QED BY <4>2, <5>2, <5>3
      <4> QED BY <4>1, <4>2
    <3>4. IsWalk(g, m)
      BY <3>3
    <3> QED BY <2>2, <3>4
  <2> QED BY <2>3, <2>4
<1> DEFINE lexed == CHOOSE f : IsWalk(f, Len(body))
<1>2. IsWalk(lexed, Len(body))
  <2>1. Len(body) \in 0 .. Len(body)
    OBVIOUS
  <2>2. \E f : IsWalk(f, Len(body))
    BY <1>1, <2>1
  <2> HIDE DEF IsWalk
  <2> QED BY <2>2
<1>3. Lexed(body) = lexed
  BY DEF Lexed
<1> HIDE DEF lexed
<1>4. \A n \in 0 .. Len(body) : lexed[n] = Body(lexed, n)
  BY <1>2
<1>5. 0 \in 0 .. Len(body) /\ \A n \in 1 .. Len(body) : n \in 0 .. Len(body) /\ n # 0
  OBVIOUS
<1> QED BY <1>3, <1>4, <1>5

-----------------------------------------------------------------------------

Loops == [depth : Int, inString : BOOLEAN, stringChar : Quotes \cup {"other"}, found : Int]
Lexers == [mode : {"code", "string", "escape"}, quote : Quotes \cup {"other"}, open : Int]

(* The loop at token w and the lexer at token l, behind a token last that  *)
(* follows a token before, agree.                                          *)
Agree(w, l, last, before) ==
    /\ w \in Loops /\ l \in Lexers
    /\ w.found = null /\ w.depth = l.open
    /\ w.inString <=> l.mode # "code"
    /\ l.mode # "code" => l.quote \in Quotes /\ w.stringChar = l.quote
    /\ l.mode = "escape" => last = "backslash"
    /\ l.mode = "string" /\ last = "backslash" => before = "backslash"

\* The lexer is inside of the body, or at its first token.
Inside(l, c) == l.open > 0 \/ (l.open = 0 /\ l.mode = "code" /\ c = "lbrace")

(* One more token, which is not a quote behind two backslashes: the loop   *)
(* returns if the lexer finds the body closed, and else they agree.        *)
LEMMA TokenKeepsAgree ==
    ASSUME NEW js, NEW i \in Nat, NEW w, NEW l, NEW before,
           Agree(w, l, js[i - 1], before),
           Inside(l, js[i]),
           ~ (before = "backslash" /\ js[i - 1] = "backslash" /\ js[i] \in Quotes),
           js[i] \in Tokens \cup {"head"}
    PROVE  IF Read(l, js[i]).open = 0
           THEN Walk(w, js, i).found = i
           ELSE Agree(Walk(w, js, i), Read(l, js[i]), js[i], js[i - 1]) /\ Read(l, js[i]).open > 0
<1> DEFINE c == js[i]
           prev == js[i - 1]
           v == Walk(w, js, i)
           m == Read(l, c)
<1>1. /\ w \in Loops /\ l \in Lexers /\ w.found = null /\ w.depth = l.open
      /\ w.inString <=> l.mode # "code"
      /\ l.mode # "code" => l.quote \in Quotes /\ w.stringChar = l.quote
      /\ l.mode = "escape" => prev = "backslash"
      /\ l.mode = "string" /\ prev = "backslash" => before = "backslash"
  BY DEF Agree
<1>2. PICK o \in Int : l.open = o /\ w.depth = o
  BY <1>1 DEF Loops, Lexers
<1>3. (o > 0 \/ o = 0) /\ (l.mode # "code" \/ c # "lbrace" => o > 0)
  BY <1>2 DEF Inside
<1>4. o + 1 > 0 /\ o + 1 \in Int
  <2>1. o > 0 \/ o = 0
    BY <1>3
  <2> QED BY <2>1
<1>5. CASE l.mode = "escape"
  <2>1. m = [l EXCEPT !.mode = "string"]
    BY <1>5 DEF Read
  <2>2. v = [w EXCEPT !.inString = TRUE]
    BY <1>1, <1>5 DEF Walk
  <2>3. Agree(v, m, c, prev)
    BY <1>1, <1>5, <2>1, <2>2 DEF Agree, Loops, Lexers
  <2>5. m.open = o /\ o > 0
    BY <1>2, <1>1, <1>5, <1>3, <2>1 DEF Lexers
  <2>6. m.open > 0 /\ m.open # 0
    BY <2>5
  <2> QED BY <2>3, <2>6
<1>6. CASE l.mode = "string" /\ c = "backslash"
  <2>1. m = [l EXCEPT !.mode = "escape"]
    BY <1>1, <1>6 DEF Read, Quotes
  <2>2. w.stringChar # c
    BY <1>1, <1>6 DEF Quotes
  <2>3. v = [w EXCEPT !.inString = TRUE]
    BY <1>1, <1>6, <2>2 DEF Walk
  <2>4. Agree(v, m, c, prev)
    BY <1>1, <1>6, <2>1, <2>3 DEF Agree, Loops, Lexers
  <2>5. m.open = o /\ o > 0
    BY <1>2, <1>1, <1>6, <1>3, <2>1 DEF Lexers
  <2>6. m.open > 0 /\ m.open # 0
    BY <2>5
  <2> QED BY <2>4, <2>6
<1>7. CASE l.mode = "string" /\ c # "backslash" /\ c = l.quote
  <2>1. m = [l EXCEPT !.mode = "code"]
    BY <1>1, <1>7 DEF Read
  <2>2. prev # "backslash"
    BY <1>1, <1>7
  <2>3. v = [w EXCEPT !.inString = FALSE]
    BY <1>1, <1>7, <2>2 DEF Walk
  <2>4. Agree(v, m, c, prev)
    BY <1>1, <1>7, <2>1, <2>3 DEF Agree, Loops, Lexers
  <2>5. m.open = o /\ o > 0
    BY <1>2, <1>1, <1>7, <1>3, <2>1 DEF Lexers
  <2>6. m.open > 0 /\ m.open # 0
    BY <2>5
  <2> QED BY <2>4, <2>6
<1>8. CASE l.mode = "string" /\ c # "backslash" /\ c # l.quote
  <2>1. m = l
    BY <1>8 DEF Read
  <2>2. v = [w EXCEPT !.inString = TRUE]
    BY <1>1, <1>8 DEF Walk
  <2>3. Agree(v, m, c, prev)
    BY <1>1, <1>8, <2>1, <2>2 DEF Agree, Loops, Lexers
  <2>5. m.open = o /\ o > 0
    BY <1>2, <1>1, <1>8, <1>3, <2>1 DEF Lexers
  <2>6. m.open > 0 /\ m.open # 0
    BY <2>5
  <2> QED BY <2>3, <2>6
<1>9. CASE l.mode = "code"
  <2>1. v = OutsideStrings(w, js, i)
    BY <1>1, <1>9 DEF Walk
  <2>2. CASE c \in Quotes
    <3>1. m = [l EXCEPT !.mode = "string", !.quote = c]
      BY <1>9, <2>2 DEF Read, Quotes
    <3>2. v = [w EXCEPT !.inString = TRUE, !.stringChar = c]
      BY <2>1, <2>2 DEF OutsideStrings, Quotes
    <3>3. c # "backslash" /\ c # "lbrace"
      BY <2>2 DEF Quotes
    <3>4. Agree(v, m, c, prev)
      BY <1>1, <1>9, <2>2, <3>1, <3>2, <3>3 DEF Agree, Loops, Lexers
    <3>5. m.open = o /\ o > 0
      BY <1>2, <1>1, <1>3, <3>1, <3>3 DEF Lexers
    <3>6. m.open > 0 /\ m.open # 0
      BY <3>5
    <3> QED BY <3>4, <3>6
  <2>3. CASE c = "lbrace"
    <3>1. m = [l EXCEPT !.open = @ + 1]
      BY <1>9, <2>3 DEF Read, Quotes
    <3>2. v = [w EXCEPT !.depth = @ + 1]
      BY <2>1, <2>3 DEF OutsideStrings, Quotes
    <3>3. o + 1 > 0 /\ o + 1 \in Int
      BY <1>4
    <3>4. m.open = o + 1 /\ v.depth = o + 1
      BY <1>2, <1>1, <3>1, <3>2 DEF Loops, Lexers
    <3>5. m.open > 0 /\ m.open # 0
      BY <3>3, <3>4
    <3>6. v \in Loops /\ m \in Lexers
      <4>1. v = [w EXCEPT !.depth = o + 1] /\ m = [l EXCEPT !.open = o + 1]
        BY <1>2, <3>1, <3>2
      <4> QED BY <1>1, <3>3, <4>1 DEF Loops, Lexers
    <3>7. /\ v.found = w.found /\ v.inString = w.inString /\ v.stringChar = w.stringChar
          /\ m.mode = l.mode /\ m.quote = l.quote
      BY <1>1, <3>1, <3>2 DEF Loops, Lexers
    <3>8. Agree(v, m, c, prev)
      BY <1>2, <1>1, <1>9, <3>4, <3>6, <3>7 DEF Agree
    <3> QED BY <3>5, <3>8
  <2>4. CASE c = "rbrace"
    <3>1. m = [l EXCEPT !.open = @ - 1]
      BY <1>9, <2>4 DEF Read, Quotes
    <3>2. v = [w EXCEPT !.depth = @ - 1, !.found = IF w.depth = 1 THEN i ELSE null]
      BY <2>1, <2>4 DEF OutsideStrings, Quotes
    <3>3. o > 0 /\ o - 1 \in Int
      <4>1. o > 0
        BY <1>3, <2>4
      <4> QED BY <4>1
    <3>4. m.open = o - 1
      BY <1>2, <1>1, <3>1 DEF Lexers
    <3>5. CASE o = 1
      <4>1. v.found = i
        BY <1>2, <1>1, <3>2, <3>5 DEF Loops
      <4>2. m.open = 0
        BY <3>4, <3>5
      <4> QED BY <4>1, <4>2
    <3>6. CASE o # 1
      <4>1. v = [w EXCEPT !.depth = o - 1, !.found = null] /\ m = [l EXCEPT !.open = o - 1]
        BY <1>2, <3>1, <3>2, <3>6
      <4>2. v \in Loops /\ m \in Lexers
        BY <1>1, <3>3, <4>1 DEF Loops, Lexers, null
      <4>3. /\ v.found = null /\ v.inString = w.inString /\ v.stringChar = w.stringChar
            /\ v.depth = o - 1 /\ m.mode = l.mode /\ m.quote = l.quote
        BY <1>1, <3>1, <4>1 DEF Loops, Lexers
      <4>4. Agree(v, m, c, prev)
        BY <1>1, <1>9, <3>4, <4>2, <4>3 DEF Agree
      <4>5. m.open > 0 /\ m.open # 0
        BY <3>3, <3>4, <3>6
      <4> QED BY <4>4, <4>5
    <3> QED BY <3>5, <3>6
  <2>5. CASE c \notin Quotes \cup {"lbrace", "rbrace"}
    <3>1. m = l
      BY <1>9, <2>5 DEF Read
    <3>2. v = w
      BY <2>1, <2>5 DEF OutsideStrings
    <3>3. Agree(v, m, c, prev)
      BY <1>1, <1>9, <3>1, <3>2 DEF Agree
    <3>4. m.open = o /\ o > 0
      BY <1>2, <1>3, <2>5, <3>1
    <3>5. m.open > 0 /\ m.open # 0
      BY <3>4
    <3> QED BY <3>3, <3>5
  <2> QED BY <2>2, <2>3, <2>4, <2>5
<1> QED BY <1>1, <1>5, <1>6, <1>7, <1>8, <1>9 DEF Lexers

(* The loop, started at the first token of a body, is where the lexer is,  *)
(* or has returned the place where the lexer found the body closed.        *)
LEMMA LoopFollowsLexer ==
    ASSUME NEW js \in Seq(Tokens \cup {"head"}), NEW from \in 1 .. Len(js) - 1,
           js[from] = "rparen", js[from + 1] = "lbrace", ~ EscapedBackslash(js),
           NEW body, body = SubSeq(js, from + 1, Len(js))
    PROVE  LET found == findMatchingBrace(js, from + 1)
           IN  \/ found = null /\ \A k \in 1 .. Len(body) : Lexed(body)[k].open > 0
               \/ \E m \in 1 .. Len(body) :
                    /\ found = from + m /\ Lexed(body)[m].open = 0
                    /\ \A k \in 1 .. m - 1 : Lexed(body)[k].open > 0
<1> DEFINE W == Walked(js, from + 1)
           L == Lexed(body)
           Open(n) == \A k \in 1 .. n : L[k].open > 0
           Together(n) ==
                /\ Agree(W[from + n], L[n], js[from + n], js[from + n - 1])
                /\ Open(n) /\ (n = 0 => L[n] = Code)
           Returned(n) ==
                \E m \in 1 .. n : W[from + n].found = from + m /\ L[m].open = 0 /\ Open(m - 1)
           Good(n) == Together(n) \/ Returned(n)
           T == {n \in 0 .. Len(body) : ~ Good(n)}
<1>1. /\ Len(js) \in Nat /\ from \in Nat /\ from + Len(body) = Len(js) /\ Len(body) \in Nat
      /\ \A n \in 1 .. Len(body) : body[n] = js[from + n] /\ from + n \in 1 .. Len(js)
  OBVIOUS
<1>2. /\ W[from] = Outside
      /\ \A i \in from + 1 .. Len(js) : W[i] = Walk(W[i - 1], js, i)
  BY <1>1, WalkedSteps
<1>3. /\ L[0] = Code
      /\ \A n \in 1 .. Len(body) : L[n] = Read(L[n - 1], body[n])
  BY <1>1, LexedSteps
<1> HIDE DEF W, L
<1>4. Good(0)
  <2>1. Agree(Outside, Code, js[from], js[from - 1])
    BY DEF Agree, Outside, Code, Loops, Lexers, null
  <2>2. from + 0 = from /\ from + 0 - 1 = from - 1
    BY <1>1
  <2> QED BY <1>2, <1>3, <2>1, <2>2
<1>5. ASSUME NEW n \in 1 .. Len(body), Good(n - 1) PROVE Good(n)
  <2>1. /\ from + n \in from + 1 .. Len(js) /\ from + n \in Nat /\ from + (n - 1) = from + n - 1
        /\ from + (n - 1) - 1 = from + n - 2 /\ n \in Int
    BY <1>1
  <2> DEFINE i == from + n
             w == W[i - 1]
             l == L[n - 1]
  <2>2. W[i] = Walk(w, js, i) /\ L[n] = Read(l, js[i])
    BY <1>1, <1>2, <1>3, <2>1
  <2>3. CASE Together(n - 1)
    <3>1. Agree(w, l, js[i - 1], js[i - 2])
      <4>1. from + (n - 1) = i - 1 /\ from + (n - 1) - 1 = i - 2
        BY <2>1
      <4>2. Agree(W[from + (n - 1)], l, js[from + (n - 1)], js[from + (n - 1) - 1])
        BY <2>3
      <4> HIDE DEF i, l
      <4> QED BY <4>1, <4>2
    <3>2. Inside(l, js[i])
      <4>1. CASE n = 1
        <5>1. l = Code /\ js[i] = "lbrace"
          BY <1>1, <1>3, <4>1
        <5> QED BY <5>1 DEF Inside, Code
      <4>2. CASE n # 1
        <5>1. n - 1 \in 1 .. n - 1
          BY <2>1, <4>2
        <5>2. l.open > 0
          BY <2>3, <5>1
        <5> QED BY <5>2 DEF Inside
      <4> QED BY <4>1, <4>2
    <3>3. ~ (js[i - 2] = "backslash" /\ js[i - 1] = "backslash" /\ js[i] \in Quotes)
      <4>1. CASE n = 1
        <5>1. js[i - 1] = "rparen"
          BY <1>1, <4>1
        <5> QED BY <5>1
      <4>2. CASE n # 1
        <5>1. i - 2 \in 1 .. Len(js) - 2 /\ (i - 2) + 1 = i - 1 /\ (i - 2) + 2 = i
          BY <1>1, <4>2
        <5> HIDE DEF i
        <5> QED BY <5>1 DEF EscapedBackslash
      <4> QED BY <4>1, <4>2
    <3>4. js[i] \in Tokens \cup {"head"}
      BY <1>1
    <3>5. IF L[n].open = 0 THEN W[i].found = i
          ELSE Agree(W[i], L[n], js[i], js[i - 1]) /\ L[n].open > 0
      <4> HIDE DEF i, w, l
      <4>1. i \in Nat
        BY <2>1 DEF i
      <4> QED BY <2>2, <3>1, <3>2, <3>3, <3>4, <4>1, TokenKeepsAgree
    <3>6. CASE L[n].open = 0
      <4>1. W[from + n].found = from + n
        BY <3>5, <3>6
      <4>2. Open(n - 1)
        BY <2>3
      <4>3. n \in 1 .. n
        BY <2>1
      <4>4. Returned(n)
        <5> HIDE DEF Open
        <5> QED BY <3>6, <4>1, <4>2, <4>3
      <4> QED BY <4>4
    <3>7. CASE L[n].open # 0
      <4>1. Agree(W[from + n], L[n], js[from + n], js[from + n - 1]) /\ L[n].open > 0
        BY <3>5, <3>7
      <4>2. Open(n)
        <5>1. \A k \in 1 .. n : k = n \/ k \in 1 .. n - 1
          BY <2>1
        <5>2. \A k \in 1 .. n - 1 : L[k].open > 0
          BY <2>3
        <5> QED BY <4>1, <5>1, <5>2
      <4>3. n # 0
        BY <2>1
      <4> HIDE DEF Open
      <4> QED BY <4>1, <4>2, <4>3
    <3> QED BY <3>6, <3>7
  <2>4. CASE Returned(n - 1)
    <3> HIDE DEF Open
    <3>1. PICK m \in 1 .. n - 1 : W[from + (n - 1)].found = from + m /\ L[m].open = 0 /\ Open(m - 1)
      BY <2>4
    <3>2. w.found = from + m /\ from + m # 0 /\ m \in 1 .. n
      BY <1>1, <2>1, <3>1
    <3>3. W[from + n].found = from + m
      <4> HIDE DEF w
      <4> QED BY <2>2, <3>2 DEF Walk, null
    <3>4. Returned(n)
      BY <3>1, <3>2, <3>3
    <3> QED BY <3>4
  <2> HIDE DEF Together, Returned
  <2> QED BY <1>5, <2>3, <2>4
<1> HIDE DEF Good
<1>6. T = {}
  <2> SUFFICES ASSUME T # {} PROVE FALSE
    OBVIOUS
  <2>1. PICK n \in T : \A k \in T : n <= k
    <3>1. T \subseteq Nat
      BY <1>1
    <3> HIDE DEF T
    <3> QED BY <3>1, LeastElement
  <2>2. n \in 1 .. Len(body) /\ ~ Good(n)
    BY <1>1, <1>4, <2>1
  <2>3. n - 1 \in 0 .. Len(body) /\ ~ (n <= n - 1)
    BY <1>1, <2>2
  <2>4. Good(n - 1)
    BY <2>1, <2>3
  <2> QED BY <1>5, <2>2, <2>4
<1>7. Good(Len(body))
  BY <1>1, <1>6
<1>8. findMatchingBrace(js, from + 1) = W[from + Len(body)].found
  BY <1>1 DEF findMatchingBrace, W
<1> HIDE DEF Open
<1>9. CASE Together(Len(body))
  <2>1. W[from + Len(body)].found = null
    BY <1>9 DEF Agree
  <2> QED BY <1>8, <1>9, <2>1 DEF Open, L
<1>10. CASE Returned(Len(body))
  BY <1>8, <1>10 DEF Open, L
<1> HIDE DEF Together, Returned
<1> QED BY <1>7, <1>9, <1>10 DEF Good

(* For texts of any length that hold neither of the two things that        *)
(* mislead it, extractFunctionBody cuts where the lexer says.              *)
LEMMA AllCutsAreWhole == CutsWholeBodies
<1> SUFFICES ASSUME NEW js \in Texts,
                    startPattern(js), ~ EscapedBackslash(js), ~ BraceInParams(js),
                    NEW from, from = ParamsEnd(js),
                    NEW body, body = SubSeq(js, from + 1, Len(js))
             PROVE  extractFunctionBody(js) =
                        IF Closed(body) = {} THEN null ELSE from + CHOOSE n \in Closed(body) : TRUE
  BY DEF CutsWholeBodies
<1>1. js \in Seq(Tokens \cup {"head"})
  <2>1. PICK t \in BoundedSeq(Tokens, MaxText) : js = <<"head">> \o t
    BY DEF Texts
  <2>2. t \in Seq(Tokens)
    BY <2>1, TextAssumption DEF BoundedSeq, SeqOf
  <2> QED BY <2>1, <2>2
<1>2. Len(js) \in Nat /\ from \in 1 .. Len(js) - 1 /\ js[from] = "rparen" /\ js[from + 1] = "lbrace"
  <2>1. from \in 0 .. Len(js) /\ (from # 0 => js[from] = "rparen")
    BY <1>1, IndexOfFacts DEF ParamsEnd
  <2> QED BY <1>1, <2>1 DEF startPattern
<1>3. IndexOf(js, "lbrace") = from + 1
  <2> DEFINE open == IndexOf(js, "lbrace")
  <2>1. /\ open \in 0 .. Len(js) /\ (open # 0 => js[open] = "lbrace")
        /\ \A j \in 1 .. Len(js) : js[j] = "lbrace" => open # 0 /\ open <= j
    BY <1>1, IndexOfFacts
  <2> HIDE DEF open
  <2>2. open # 0 /\ open <= from + 1
    BY <1>2, <2>1
  <2>3. ~ (open \in 1 .. from)
    BY <2>1, <2>2 DEF BraceInParams
  <2>4. open = from + 1
    BY <1>2, <2>1, <2>2, <2>3
  <2> QED BY <2>4 DEF open
<1> DEFINE found == findMatchingBrace(js, from + 1)
           open(k) == Lexed(body)[k].open
<1>4. extractFunctionBody(js) = found
  BY <1>3 DEF extractFunctionBody
<1>5. \/ found = null /\ \A k \in 1 .. Len(body) : open(k) > 0
      \/ \E m \in 1 .. Len(body) :
            found = from + m /\ open(m) = 0 /\ \A k \in 1 .. m - 1 : open(k) > 0
  BY <1>1, <1>2, LoopFollowsLexer
<1>6. Len(body) \in Nat
  BY <1>1, <1>2
<1>7. \A n : n \in Closed(body) <=>
            n \in 1 .. Len(body) /\ open(n) = 0 /\ \A k \in 1 .. n - 1 : open(k) > 0
  BY DEF Closed
<1> HIDE DEF found, open
<1>8. \A k : ~ (open(k) = 0 /\ open(k) > 0)
  OBVIOUS
<1>9. CASE found = null /\ \A k \in 1 .. Len(body) : open(k) > 0
  <2>1. Closed(body) = {}
    BY <1>7, <1>8, <1>9
  <2> QED BY <1>4, <1>9, <2>1
<1>10. ASSUME NEW m \in 1 .. Len(body), found = from + m, open(m) = 0,
              \A k \in 1 .. m - 1 : open(k) > 0
       PROVE  extractFunctionBody(js) =
                IF Closed(body) = {} THEN null ELSE from + CHOOSE n \in Closed(body) : TRUE
  <2>1. m \in Closed(body)
    BY <1>7, <1>10
  <2>2. ASSUME NEW n \in Closed(body) PROVE n = m
    <3>1. n \in 1 .. Len(body) /\ open(n) = 0 /\ \A k \in 1 .. n - 1 : open(k) > 0
      BY <1>7
    <3>2. ~ (n \in 1 .. m - 1) /\ ~ (m \in 1 .. n - 1)
      BY <1>8, <1>10, <3>1
    <3> QED BY <1>6, <3>1, <3>2
  <2>3. (CHOOSE n \in Closed(body) : TRUE) = m
    BY <2>1, <2>2
  <2> QED BY <1>4, <1>10, <2>1, <2>3
<1> QED BY <1>5, <1>9, <1>10

(* Whenever a task looks for a function, the text it cuts out is the whole *)
(* body, in a text of any length without an escaped backslash before a     *)
(* quote and without a brace in the parameters.                            *)
THEOREM BodiesAreWhole == Spec => []BodyIsWhole
<1>1. BodyIsWhole
  BY AllCutsAreWhole DEF BodyIsWhole
<1> QED BY <1>1, PTL
=============================================================================

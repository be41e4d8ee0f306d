-------------------------- MODULE ExtractionProofs --------------------------
(***************************************************************************)
(* For every chain of clients, set of players and list of formats: the     *)
(* signatures of a result are deciphered with the player they were made    *)
(* for, and a call that fails leaves nothing in the cache (IInv); a result *)
(* omits only formats whose own tasks failed, and keeps their order (TInv, *)
(* on top of it). For every list of formats and all options, the selection *)
(* takes the best video that they allow (SelectorInv).                     *)
(***************************************************************************)
EXTENDS Extraction, FormatSelection, CollectionLemmas

\* A result is deciphered with the player its request named.
Matches(o) == o.kind = "result" /\ o.signedFor # NoPlayer => o.player = o.signedFor

\* A result has a stream that can be returned as audio.
Playable(o) ==
    o.kind = "result" => \E k \in DOMAIN o.kept : o.list[o.kept[k]].media # "video"

(* The one player a call knows of, from the watch page to the tasks.       *)
OnePlayer ==
    /\ signatureTimestamp \in {NoPlayer, playerJsUrl}
    /\ pc \in {"lookup", "page"} => signatureTimestamp = NoPlayer
    /\ pc \in {"checks", "tasks", "select"} => response.signedFor \in {NoPlayer, signatureTimestamp}
    /\ pc \in {"tasks", "select"} /\ playerJsUrl # NoPlayer => resolvedPlayerJsUrl = playerJsUrl

IInv ==
    /\ OnePlayer
    /\ Matches(outcome) /\ Matches(cached)
    /\ Playable(outcome) /\ Playable(cached)
    /\ cached # Pending => cached.kind = "result"

-----------------------------------------------------------------------------

LEMMA NotResults ==
    /\ Matches(Pending) /\ Playable(Pending) /\ Pending.kind = "pending"
    /\ \A e : Matches(Failed(e)) /\ Playable(Failed(e))
BY DEF Matches, Playable, Pending, Failed

LEMMA InitIInv == Init => IInv
BY NotResults DEF Init, IInv, OnePlayer

(* A call that ends with an error, and one that is served from the cache.  *)
LEMMA FailureKeeps ==
    ASSUME IInv, NEW e, End(Failed(e)), UNCHANGED <<prefetch, response, cached>>
    PROVE  IInv'
BY NotResults DEF IInv, OnePlayer, End, prefetch

(* The steps that leave outcome and cache alone keep what is said of them. *)
LEMMA LocalsKeep ==
    ASSUME IInv, OnePlayer', UNCHANGED <<outcome, cached>>
    PROVE  IInv'
BY DEF IInv, Matches, Playable

LEMMA PrepareKeeps ==
    ASSUME IInv, CacheMiss \/ PrefetchUrl \/ PrefetchScript \/ Ask \/ AskReturns
    PROVE  IInv'
<1> USE DEF Goto
<1>1. CASE CacheMiss
  <2>1. OnePlayer'
    BY <1>1 DEF IInv, OnePlayer, CacheMiss, prefetch
  <2>2. cached' = Pending /\ outcome' = outcome
    BY <1>1 DEF CacheMiss
  <2>3. Matches(cached)' /\ Playable(cached)' /\ cached'.kind = "pending"
    BY <2>2, NotResults DEF Matches, Playable
  <2> QED BY <2>1, <2>2, <2>3 DEF IInv, Matches, Playable
<1>2. CASE PrefetchUrl
  <2>1. OnePlayer'
    BY <1>2 DEF IInv, OnePlayer, PrefetchUrl
  <2> QED BY <1>2, <2>1, LocalsKeep DEF PrefetchUrl
<1>3. CASE PrefetchScript
  <2>1. OnePlayer'
    BY <1>3 DEF IInv, OnePlayer, PrefetchScript
  <2> QED BY <1>3, <2>1, LocalsKeep DEF PrefetchScript
<1>4. CASE Ask
  <2>1. UNCHANGED <<pc, prefetch, response, resolution, outcome, cached>>
    BY <1>4 DEF Ask
  <2>2. OnePlayer'
    BY <2>1 DEF IInv, OnePlayer, prefetch, resolution
  <2> QED BY <2>1, <2>2, LocalsKeep
<1>5. CASE AskReturns
  <2>1. /\ pc' = "checks" /\ response'.signedFor \in {NoPlayer, signatureTimestamp}
        /\ UNCHANGED <<prefetch, resolution, outcome, cached>>
    BY <1>5 DEF AskReturns
  <2>2. OnePlayer'
    BY <2>1 DEF IInv, OnePlayer, prefetch, resolution
  <2> QED BY <2>1, <2>2, LocalsKeep
<1> QED BY <1>1, <1>2, <1>3, <1>4, <1>5

LEMMA ResolveKeeps ==
    ASSUME IInv,
           \/ UsePrefetched \/ Refetch \/ AwaitAll
           \/ pc = "tasks" /\ \E i \in Tasks : Task(i)
    PROVE  IInv'
<1> USE DEF Goto
<1>1. CASE UsePrefetched \/ Refetch
  <2>1. OnePlayer'
    BY <1>1 DEF IInv, OnePlayer, UsePrefetched, Refetch, Launch, prefetch
  <2> QED BY <1>1, <2>1, LocalsKeep DEF UsePrefetched, Refetch
<1>2. CASE AwaitAll
  <2>1. OnePlayer'
    BY <1>2 DEF IInv, OnePlayer, AwaitAll, prefetch
  <2> QED BY <1>2, <2>1, LocalsKeep DEF AwaitAll
<1>3. CASE pc = "tasks" /\ \E i \in Tasks : Task(i)
  <2>1. UNCHANGED <<pc, prefetch, response, resolvedPlayerJsUrl, outcome, cached>>
    BY <1>3 DEF Task, TaskScript, TaskResolves, TaskFails, TaskCancelled
  <2>2. OnePlayer'
    BY <2>1 DEF IInv, OnePlayer, prefetch
  <2> QED BY <2>1, <2>2, LocalsKeep
<1> QED BY <1>1, <1>2, <1>3

LEMMA ErrorsKeep ==
    ASSUME IInv, AskFails \/ ChecksFail \/ RefetchFails \/ AwaitCancelled \/ SelectFails
    PROVE  IInv'
<1>1. PICK e : End(Failed(e))
  BY DEF AskFails, ChecksFail, RefetchFails, AwaitCancelled, SelectFails
<1>2. UNCHANGED <<prefetch, response, cached>>
  BY DEF AskFails, ChecksFail, RefetchFails, AwaitCancelled, SelectFails
<1> QED BY <1>1, <1>2, FailureKeeps

LEMMA HitKeeps == ASSUME IInv, CacheHit PROVE IInv'
BY DEF IInv, OnePlayer, CacheHit, End, prefetch, Matches, Playable

LEMMA FinishKeeps == ASSUME IInv, Finish PROVE IInv'
<1> DEFINE r == Result(resolvedFormats)
<1>1. /\ pc = "select" /\ pc' = "over" /\ outcome' = r /\ cached' \in {r, cached}
      /\ UNCHANGED <<prefetch, response>>
  BY DEF Finish, End
<1>2. /\ r.kind = "result" /\ r.signedFor = response.signedFor /\ r.player = resolvedPlayerJsUrl
      /\ r.kept = resolvedFormats /\ r.list = response.formats
  BY DEF Result
<1> HIDE DEF r
<1>3. Matches(r)
  BY <1>1, <1>2 DEF IInv, OnePlayer, Matches
<1>4. Playable(r)
  BY <1>2 DEF Finish, Selectable, Playable, allFormats
<1>5. OnePlayer'
  BY <1>1 DEF IInv, OnePlayer, prefetch
<1> QED BY <1>1, <1>2, <1>3, <1>4, <1>5 DEF IInv, Matches, Playable

LEMMA CallKeeps == ASSUME IInv, Call \/ Cancel PROVE IInv'
<1>1. CASE Call
  <2>1. OnePlayer' /\ outcome' = Pending /\ cached' = cached
    BY <1>1 DEF Call, OnePlayer
  <2> QED BY <2>1, NotResults DEF IInv, Matches, Playable
<1>2. CASE Cancel
  <2>1. OnePlayer'
    BY <1>2 DEF IInv, OnePlayer, Cancel, prefetch, resolution
  <2> QED BY <1>2, <2>1, LocalsKeep DEF Cancel
<1> QED BY <1>1, <1>2

LEMMA NextIInv == IInv /\ [Next]_vars => IInv'
<1> SUFFICES ASSUME IInv, [Next]_vars PROVE IInv'
  OBVIOUS
<1>1. CASE UNCHANGED vars
  <2>1. OnePlayer'
    BY <1>1 DEF IInv, OnePlayer, vars, prefetch, resolution
  <2> QED BY <1>1, <2>1, LocalsKeep DEF vars
<1>2. CASE Next
  BY <1>2, PrepareKeeps, ResolveKeeps, ErrorsKeep, HitKeeps, FinishKeeps, CallKeeps DEF Next, Step
<1> QED BY <1>1, <1>2

LEMMA SpecIInv == Spec => []IInv
BY InitIInv, NextIInv, PTL DEF Spec

(* The signatures of an answer are deciphered with the script of the       *)
(* player whose timestamp its request carried.                             *)
THEOREM SignaturesMatch == Spec => []SignatureMatchesPlayer
<1>1. IInv => SignatureMatchesPlayer
  BY DEF IInv, Matches, SignatureMatchesPlayer
<1> QED BY <1>1, SpecIInv, PTL

(* What is cached has a stream with sound: no failed call cached it.       *)
THEOREM CachedResultsPlayable == Spec => []CachedIsPlayable
<1>1. IInv => CachedIsPlayable
  BY DEF IInv, Playable, CachedIsPlayable
<1> QED BY <1>1, SpecIInv, PTL

-----------------------------------------------------------------------------

\* The places are those of the formats whose tasks did not fail, in order.
Whole(kept) == \A i \in Tasks : (\E k \in DOMAIN kept : kept[k] = i) <=> i \notin broken
Ordered(kept) == \A j, k \in DOMAIN kept : j < k => kept[j] < kept[k]

(* Why a task gave nothing: it failed, or the caller was cancelled, which  *)
(* awaitAll then notices.                                                  *)
Explained ==
    /\ task \in [Tasks -> {"new", "script", "done", "null"}]
    /\ \A i \in Tasks : i \in broken => task[i] = "null"
    /\ \A i \in Tasks : task[i] = "null" => i \in broken \/ cancelled

TInv ==
    /\ pc \in {"checks", "tasks", "select"} => allFormats \in FormatLists
    /\ pc = "tasks" => Explained
    /\ pc = "select" => Whole(resolvedFormats) /\ Ordered(resolvedFormats)
    /\ pc # "over" => outcome = Pending
    /\ pc \in {"idle", "lookup", "page", "script", "ask", "checks"} =>
            resolvedPlayerJsUrl = NoPlayer /\ broken = {}
    /\ cached.kind = "result" => Ordered(cached.kept)
    /\ OmitsOnlyFailures /\ KeepsOrder

-----------------------------------------------------------------------------

(* What filterNotNull gives of the tasks.                                  *)
LEMMA ResolvedFacts ==
    ASSUME allFormats \in Seq(FormatRecords)
    PROVE  /\ Ordered(Resolved)
           /\ \A i \in Tasks : (\E k \in DOMAIN Resolved : Resolved[k] = i) <=> task[i] = "done"
<1> DEFINE s == [i \in Tasks |-> i]
           S == {i \in Tasks : task[i] = "done"}
<1>1. Tasks = 1 .. Len(allFormats) /\ Len(allFormats) \in Nat
  BY DEF Tasks
<1>2. s \in Seq(Nat) /\ Len(s) = Len(allFormats) /\ \A i \in Tasks : s[i] = i
  BY <1>1
<1>3. Resolved = Filter(s, S)
  BY DEF Resolved
<1>4. S \subseteq Tasks /\ \A i \in Tasks : i \in S <=> task[i] = "done"
  OBVIOUS
<1> HIDE DEF s, S
<1>5. Resolved \in Seq(Nat) /\ \E at : IsFiltered(Resolved, s, Len(s), S, at)
  BY <1>2, <1>3, FilterFacts
<1>6. PICK at : IsFiltered(Resolved, s, Len(allFormats), S, at)
  BY <1>2, <1>5
<1>7. /\ DOMAIN Resolved = 1 .. Len(Resolved)
      /\ \A k \in DOMAIN Resolved : at[k] \in Tasks /\ Resolved[k] = at[k] /\ at[k] \in S
      /\ \A j, k \in DOMAIN Resolved : j < k => at[j] < at[k]
      /\ \A i \in Tasks : i \in S => \E k \in DOMAIN Resolved : at[k] = i
  <2>1. DOMAIN Resolved = 1 .. Len(Resolved)
    BY <1>5
  <2>2. \A k \in DOMAIN Resolved : at[k] \in Tasks
    BY <1>1, <1>6, <2>1 DEF IsFiltered
  <2>3. \A k \in DOMAIN Resolved : Resolved[k] = at[k] /\ at[k] \in S
    BY <1>2, <1>6, <2>1, <2>2 DEF IsFiltered
  <2>4. \A j, k \in DOMAIN Resolved : j < k => at[j] < at[k]
    BY <1>6, <2>1 DEF IsFiltered
  <2>5. ASSUME NEW i \in Tasks, i \in S PROVE \E k \in DOMAIN Resolved : at[k] = i
    <3>1. i \in 1 .. Len(allFormats) /\ s[i] \in S
      BY <1>1, <1>2, <2>5
    <3> QED BY <1>6, <2>1, <3>1 DEF IsFiltered
  <2> QED BY <2>1, <2>2, <2>3, <2>4, <2>5
<1>8. Ordered(Resolved)
  BY <1>7 DEF Ordered
<1> QED BY <1>4, <1>7, <1>8

LEMMA InitTInv == Init => TInv
BY DEF Init, TInv, OmitsOnlyFailures, KeepsOrder, Pending

(* The steps up to the answer, and those that end with an error.           *)
LEMMA PrepareKeepsTInv ==
    ASSUME TInv, CacheMiss \/ PrefetchUrl \/ PrefetchScript \/ Ask \/ AskReturns
    PROVE  TInv'
<1>1. /\ pc \in {"lookup", "page", "script", "ask"} /\ pc' \in {"page", "script", "ask", "checks"}
      /\ outcome' = outcome /\ resolvedPlayerJsUrl' = resolvedPlayerJsUrl /\ broken' = broken
      /\ cached' \in {cached, Pending}
      /\ pc' = "checks" => response'.formats \in FormatLists
  BY DEF CacheMiss, PrefetchUrl, PrefetchScript, Ask, AskReturns, Goto, resolution
<1>2. outcome = Pending /\ resolvedPlayerJsUrl = NoPlayer /\ broken = {}
  BY <1>1 DEF TInv
<1> QED BY <1>1, <1>2 DEF TInv, OmitsOnlyFailures, KeepsOrder, Pending, allFormats

LEMMA FailureKeepsTInv ==
    ASSUME TInv, AskFails \/ ChecksFail \/ RefetchFails \/ AwaitCancelled \/ SelectFails
    PROVE  TInv'
<1>1. PICK e : End(Failed(e))
  BY DEF AskFails, ChecksFail, RefetchFails, AwaitCancelled, SelectFails
<1>2. pc' = "over" /\ outcome'.kind = "failed" /\ cached' = cached
  BY <1>1 DEF End, Failed, AskFails, ChecksFail, RefetchFails, AwaitCancelled, SelectFails
<1> QED BY <1>2 DEF TInv, OmitsOnlyFailures, KeepsOrder, Ordered

LEMMA LaunchKeepsTInv ==
    ASSUME TInv, UsePrefetched \/ Refetch
    PROVE  TInv'
<1>1. /\ pc = "checks" /\ pc' = "tasks" /\ task' = [i \in Tasks |-> "new"]
      /\ UNCHANGED <<response, broken, outcome, cached>>
  BY DEF UsePrefetched, Refetch, Launch, Goto
<1>2. broken = {} /\ outcome = Pending /\ allFormats \in FormatLists
  BY <1>1 DEF TInv
<1>3. Explained'
  BY <1>1, <1>2 DEF Explained, Tasks, allFormats
<1> QED BY <1>1, <1>2, <1>3 DEF TInv, OmitsOnlyFailures, KeepsOrder, Pending, allFormats, Ordered

LEMMA TasksKeepTInv ==
    ASSUME TInv, NEW i \in Tasks, pc = "tasks", Task(i)
    PROVE  TInv'
<1>1. /\ UNCHANGED <<pc, cancelled, response, resolvedPlayerJsUrl, outcome, cached>>
      /\ \/ task[i] \in {"new", "script"} /\ task' = [task EXCEPT ![i] = "script"] /\ broken' = broken
         \/ task[i] \in {"new", "script"} /\ task' = [task EXCEPT ![i] = "done"] /\ broken' = broken
         \/ task' = [task EXCEPT ![i] = "null"] /\ broken' = broken /\ cancelled
         \/ task' = [task EXCEPT ![i] = "null"] /\ broken' = broken \cup {i}
  BY DEF Task, TaskScript, TaskResolves, TaskFails, TaskCancelled, Move
<1>2. Explained
  BY DEF TInv
<1>3. Explained'
  BY <1>1, <1>2 DEF Explained, Tasks, allFormats
<1>4. outcome = Pending
  BY DEF TInv
<1> QED BY <1>1, <1>3, <1>4 DEF TInv, OmitsOnlyFailures, KeepsOrder, Pending, allFormats, Ordered

LEMMA AwaitKeepsTInv ==
    ASSUME TInv, AwaitAll
    PROVE  TInv'
<1>1. /\ pc = "tasks" /\ pc' = "select" /\ AllOver /\ ~cancelled /\ resolvedFormats' = Resolved
      /\ UNCHANGED <<response, resolvedPlayerJsUrl, broken, outcome, cached>>
  BY DEF AwaitAll, Goto
<1>2. Explained /\ allFormats \in FormatLists /\ outcome = Pending
  BY <1>1 DEF TInv
<1>3. allFormats \in Seq(FormatRecords)
  BY <1>2, FormatAssumption
<1>4. \A i \in Tasks : task[i] = "done" <=> i \notin broken
  BY <1>1, <1>2 DEF Explained, AllOver
<1>5. Whole(Resolved) /\ Ordered(Resolved)
  BY <1>3, <1>4, ResolvedFacts DEF Whole
<1>6. (Whole(resolvedFormats) /\ Ordered(resolvedFormats))'
  BY <1>1, <1>5 DEF Whole, Ordered, Tasks, allFormats
<1> QED BY <1>1, <1>2, <1>6 DEF TInv, OmitsOnlyFailures, KeepsOrder, Pending, allFormats, Ordered

LEMMA HitKeepsTInv ==
    ASSUME TInv, CacheHit
    PROVE  TInv'
BY DEF TInv, CacheHit, End, OmitsOnlyFailures, KeepsOrder, Ordered, resolution

LEMMA FinishKeepsTInv ==
    ASSUME TInv, Finish
    PROVE  TInv'
<1>1. /\ pc = "select" /\ pc' = "over" /\ outcome'.kept = resolvedFormats
      /\ cached' \in {outcome', cached}
      /\ UNCHANGED <<response, resolvedPlayerJsUrl, broken>>
  BY DEF Finish, End, Result, resolution
<1>2. Whole(resolvedFormats) /\ Ordered(resolvedFormats)
  BY <1>1 DEF TInv
<1>3. OmitsOnlyFailures' /\ KeepsOrder'
  BY <1>1, <1>2 DEF OmitsOnlyFailures, KeepsOrder, Whole, Ordered, Tasks, allFormats
<1> QED BY <1>1, <1>2, <1>3 DEF TInv, Ordered

LEMMA CallKeepsTInv ==
    ASSUME TInv, Call \/ Cancel
    PROVE  TInv'
<1>1. CASE Call
  BY <1>1 DEF TInv, Call, OmitsOnlyFailures, KeepsOrder, Pending, Ordered
<1>2. CASE Cancel
  <2>1. UNCHANGED <<pc, response, resolvedPlayerJsUrl, task, resolvedFormats, broken, outcome, cached>>
    BY <1>2 DEF Cancel, resolution
  <2>2. cancelled'
    BY <1>2 DEF Cancel
  <2> QED BY <2>1, <2>2 DEF TInv, Explained, OmitsOnlyFailures, KeepsOrder, Whole, Ordered, Tasks, allFormats
<1> QED BY <1>1, <1>2

LEMMA NextTInv == TInv /\ [Next]_vars => TInv'
<1> SUFFICES ASSUME TInv, [Next]_vars PROVE TInv'
  OBVIOUS
<1>1. CASE UNCHANGED vars
  <2>1. UNCHANGED <<pc, cancelled, response, resolvedPlayerJsUrl, task, resolvedFormats, broken,
                    outcome, cached>>
    BY <1>1 DEF vars, resolution
  <2> QED BY <2>1 DEF TInv, Explained, OmitsOnlyFailures, KeepsOrder, Whole, Ordered, Tasks, allFormats
<1>2. CASE Next
  BY <1>2, PrepareKeepsTInv, FailureKeepsTInv, LaunchKeepsTInv, TasksKeepTInv, AwaitKeepsTInv,
     HitKeepsTInv, FinishKeepsTInv, CallKeepsTInv DEF Next, Step
<1> QED BY <1>1, <1>2

LEMMA SpecTInv == Spec => []TInv
BY InitTInv, NextTInv, PTL DEF Spec

(* A result omits a format only if its own task failed.                    *)
THEOREM OmissionsExplained == Spec => []OmitsOnlyFailures
<1>1. TInv => OmitsOnlyFailures
  BY DEF TInv
<1> QED BY <1>1, SpecTInv, PTL

(* The formats of a result are in the order of the answer.                 *)
THEOREM OrderKept == Spec => []KeepsOrder
<1>1. TInv => KeepsOrder
  BY DEF TInv
<1> QED BY <1>1, SpecTInv, PTL

-----------------------------------------------------------------------------

(***************************************************************************)
(* The selection that an extraction ends with (FormatSelection): what is   *)
(* selected is the first of the greatest, by keys that compare, among the  *)
(* formats that the filters leave.                                         *)
(***************************************************************************)

(* The codec that is detected has the best of the grades that the patterns *)
(* tell of, and the grade of nothing where they tell of none.              *)
LEMMA Grades ==
    /\ DOMAIN Grade = {"^av01", "^av1", "vp9", "hdr", "vp9.2", "hvc1", "hev1", "avc1", "avc3", "vp8"}
    /\ Grade["^av01"] = 50 /\ Grade["^av1"] = 50
    /\ Grade["hdr"] = 45 /\ Grade["vp9.2"] = 45 /\ Grade["vp9"] = 40
    /\ Grade["hvc1"] = 35 /\ Grade["hev1"] = 35 /\ Grade["avc1"] = 30 /\ Grade["avc3"] = 30
    /\ Grade["vp8"] = 10
<1>1. DOMAIN Grade = {"^av01", "^av1", "vp9", "hdr", "vp9.2", "hvc1", "hev1", "avc1", "avc3", "vp8"}
  BY DEF Grade
<1>2. Grade["^av01"] = 50 /\ Grade["^av1"] = 50
  BY DEF Grade, VideoCodec
<1>3. Grade["hdr"] = 45 /\ Grade["vp9.2"] = 45 /\ Grade["vp9"] = 40
  BY DEF Grade, VideoCodec
<1>4. Grade["hvc1"] = 35 /\ Grade["hev1"] = 35 /\ Grade["avc1"] = 30 /\ Grade["avc3"] = 30
  BY DEF Grade, VideoCodec
<1>5. Grade["vp8"] = 10
  BY DEF Grade, VideoCodec
<1> QED BY <1>1, <1>2, <1>3, <1>4, <1>5

Rank(f) == VideoCodec[detectVideoCodec(f)]

LEMMA RankIsGrade ==
    ASSUME NEW f
    PROVE  /\ Rank(f) \in Nat
           /\ \A p \in Telling(f) : Grade[p] <= Rank(f) /\ Grade[p] \in Nat \ {0}
           /\ Rank(f) = 0 \/ \E p \in Telling(f) : Grade[p] = Rank(f)
           /\ detectVideoCodec(f) = "H264" <=> Rank(f) = 30
           /\ detectVideoCodec(f) = "AV1" <=> Rank(f) = 50
<1> DEFINE has(p) == p \in f.codecs
<1>1. detectVideoCodec(f) =
        IF has("^av01") \/ has("^av1") THEN "AV1"
        ELSE IF has("vp9") /\ (has("hdr") \/ has("vp9.2")) THEN "VP9_HDR"
        ELSE IF has("vp9") THEN "VP9"
        ELSE IF has("hvc1") \/ has("hev1") THEN "H265"
        ELSE IF has("avc1") \/ has("avc3") THEN "H264"
        ELSE IF has("vp8") THEN "VP8" ELSE "UNKNOWN"
  <2>1. \A p, q : Names(f, {p, q}) <=> has(p) \/ has(q)
    BY DEF Names
  <2>2. \A p : Names(f, {p}) <=> has(p)
    BY DEF Names
  <2> HIDE DEF has
  <2> QED BY <2>1, <2>2 DEF detectVideoCodec
<1>2. \A p : p \in Telling(f) <=>
                /\ has(p) /\ p \in DOMAIN Grade
                /\ p \in {"hdr", "vp9.2"} => has("vp9")
  BY DEF Telling
<1>3. /\ VideoCodec["AV1"] = 50 /\ VideoCodec["VP9_HDR"] = 45 /\ VideoCodec["VP9"] = 40
      /\ VideoCodec["H265"] = 35 /\ VideoCodec["H264"] = 30 /\ VideoCodec["VP8"] = 10
      /\ VideoCodec["UNKNOWN"] = 0
  BY DEF VideoCodec
<1> HIDE DEF has
<1>4. \A p \in Telling(f) : p \in {"^av01", "^av1", "vp9", "hdr", "vp9.2", "hvc1", "hev1", "avc1", "avc3", "vp8"}
  BY <1>2, Grades
<1>5. \A p \in Telling(f) : Grade[p] \in Nat \ {0}
  BY <1>4, Grades
<1>6. Rank(f) \in Nat
  BY <1>1, <1>3 DEF Rank
<1>7. \A p \in Telling(f) : Grade[p] <= Rank(f)
  BY <1>1, <1>2, <1>3, <1>4, Grades DEF Rank
<1>8. Rank(f) = 0 \/ \E p \in Telling(f) : Grade[p] = Rank(f)
  BY <1>1, <1>2, <1>3, Grades DEF Rank
<1>9. detectVideoCodec(f) = "H264" <=> Rank(f) = 30
  BY <1>1, <1>3 DEF Rank
<1>10. detectVideoCodec(f) = "AV1" <=> Rank(f) = 50
  BY <1>1, <1>3 DEF Rank
<1> QED BY <1>5, <1>6, <1>7, <1>8, <1>9, <1>10

LEMMA CodecsAgree ==
    ASSUME NEW f
    PROVE  /\ IsH264(f) <=> detectVideoCodec(f) = "H264"
           /\ IsAV1(f) <=> detectVideoCodec(f) = "AV1"
<1>1. \A p \in Telling(f) : InCodecOf(f, p) <=> Grade[p] = Rank(f)
  <2> SUFFICES ASSUME NEW p \in Telling(f) PROVE InCodecOf(f, p) <=> Grade[p] = Rank(f)
    OBVIOUS
  <2>1. ASSUME InCodecOf(f, p) PROVE Grade[p] = Rank(f)
    BY <2>1, RankIsGrade DEF InCodecOf
  <2>2. ASSUME Grade[p] = Rank(f) PROVE InCodecOf(f, p)
    BY <2>2, RankIsGrade DEF InCodecOf
  <2> QED BY <2>1, <2>2
<1>2. \A p : InCodecOf(f, p) => p \in Telling(f)
  BY DEF InCodecOf
<1>3. \A p \in Telling(f) : p \in DOMAIN Grade
  BY DEF Telling
<1>4. \A p \in Telling(f) : (Grade[p] = 30 <=> p \in {"avc1", "avc3"})
                         /\ (Grade[p] = 50 <=> p \in {"^av01", "^av1"})
  BY <1>3, Grades
<1>5. IsH264(f) <=> Rank(f) = 30
  <2>1. ASSUME IsH264(f) PROVE Rank(f) = 30
    BY <1>1, <1>2, <1>4, <2>1 DEF IsH264
  <2>2. ASSUME Rank(f) = 30 PROVE IsH264(f)
    <3>1. PICK p \in Telling(f) : Grade[p] = Rank(f)
      BY <2>2, RankIsGrade
    <3> QED BY <1>1, <1>4, <2>2, <3>1 DEF IsH264
  <2> QED BY <2>1, <2>2
<1>6. IsAV1(f) <=> Rank(f) = 50
  <2>1. ASSUME IsAV1(f) PROVE Rank(f) = 50
    BY <1>1, <1>2, <1>4, <2>1 DEF IsAV1
  <2>2. ASSUME Rank(f) = 50 PROVE IsAV1(f)
    <3>1. PICK p \in Telling(f) : Grade[p] = Rank(f)
      BY <2>2, RankIsGrade
    <3> QED BY <1>1, <1>4, <2>2, <3>1 DEF IsAV1
  <2> QED BY <2>1, <2>2
<1> QED BY <1>5, <1>6, RankIsGrade

-----------------------------------------------------------------------------

(* The keys of formats compare.                                            *)
HeightKeys == [f \in Formats |-> <<f.height>>]

LEMMA KeysRank ==
    ASSUME NEW opts
    PROVE  /\ \A f \in Formats :
                VideoKeys[f] = <<f.height, f.fps, Rank(f), f.bitrate>> /\ VideoKeys[f] \in [1 .. 4 -> Int]
           /\ Ranks(VideoKeys, Formats) /\ Ranks(AudioKeys(opts), Formats)
           /\ Ranks(HeightKeys, Formats)
<1>1. \A f \in Formats : f.height \in Int /\ f.fps \in Int /\ f.bitrate \in Int
  BY SelectionAssumption DEF RawFormats
<1>2. ASSUME NEW f \in Formats PROVE VideoKeys[f] = <<f.height, f.fps, Rank(f), f.bitrate>>
  BY DEF VideoKeys, Rank
<1>3. ASSUME NEW f \in Formats PROVE VideoKeys[f] \in [1 .. 4 -> Int]
  <2>1. Rank(f) \in Int
    BY RankIsGrade
  <2> QED BY <1>1, <1>2, <2>1
<1>4. Ranks(VideoKeys, Formats)
  BY <1>3 DEF Ranks
<1>5. Ranks(AudioKeys(opts), Formats)
  <2> DEFINE codec(f) == detectAudioCodec(f)
             rank(f) == IF ~opts.preferOpusAudio /\ codec(f) = "AAC" THEN 100 ELSE AudioCodec[codec(f)]
  <2>1. \A f : codec(f) \in {"OPUS", "VORBIS", "AAC", "AC3", "MP3", "UNKNOWN"}
    BY DEF detectAudioCodec
  <2>2. \A c \in {"OPUS", "VORBIS", "AAC", "AC3", "MP3", "UNKNOWN"} : AudioCodec[c] \in Int
    BY DEF AudioCodec
  <2>3. \A f \in Formats : AudioKeys(opts)[f] = <<rank(f), f.bitrate>>
    BY DEF AudioKeys
  <2> HIDE DEF codec
  <2>4. \A f \in Formats : rank(f) \in Int
    BY <2>1, <2>2
  <2> HIDE DEF rank
  <2>5. \A f \in Formats : AudioKeys(opts)[f] \in [1 .. 2 -> Int]
    BY <1>1, <2>3, <2>4
  <2> QED BY <2>5 DEF Ranks
<1>6. Ranks(HeightKeys, Formats)
  <2>1. \A f \in Formats : HeightKeys[f] \in [1 .. 1 -> Int]
    BY <1>1 DEF HeightKeys
  <2> QED BY <2>1 DEF Ranks
<1> QED BY <1>2, <1>3, <1>4, <1>5, <1>6

(* The formats among which the video of a list is chosen: those of P, of   *)
(* which there is one, or else all of B.                                   *)
Choice(s, B, P) == IF Some(s, B \cap P) THEN B \cap P ELSE B
VideoChoice(s, opts) ==
    LET B == VideoOnly \cap FitsCap(opts)
    IN  IF opts.preferH264
        THEN Choice(s, B, {f \in Formats : detectVideoCodec(f) = "H264"})
        ELSE IF av1UnsafeOnThisDevice
        THEN Choice(s, B, {f \in Formats : detectVideoCodec(f) # "AV1"})
        ELSE B

LEMMA PreferPicks ==
    ASSUME NEW X, NEW s \in Seq(X), NEW t \in Seq(X), NEW B, NEW P, Picks(t, s, B)
    PROVE  Prefer(t, P) \in Seq(X) /\ Picks(Prefer(t, P), s, Choice(s, B, P))
<1>1. Filter(t, P) \in Seq(X) /\ Picks(Filter(t, P), t, P)
  BY FilterPicks
<1>2. Picks(Filter(t, P), s, B \cap P)
  BY <1>1, PicksOfPicks
<1>3. Filter(t, P) # << >> <=> Some(s, B \cap P)
  BY <1>1, <1>2, PicksSome
<1> QED BY <1>1, <1>2, <1>3 DEF Prefer, Choice

\* x is what a search for the best of S in s gives.
IsBest(s, S, keys, x) ==
    IF Some(s, S) THEN FirstBest(s, S, keys, x) ELSE x = None

videoOf(s, opts) == selectBestVideo(Filter(s, VideoOnly), opts)
audioOf(s, opts) == selectBestAudio(Filter(s, Audio), opts)
muxedOf(s) == bestMuxed(Filter(s, Muxed))

LEMMA Searches ==
    ASSUME NEW s \in Seq(Formats), NEW opts
    PROVE  /\ IsBest(s, VideoChoice(s, opts), VideoKeys, videoOf(s, opts))
           /\ IsBest(s, Audio, AudioKeys(opts), audioOf(s, opts))
           /\ IsBest(s, Muxed, HeightKeys, muxedOf(s))
<1>1. IsBest(s, VideoChoice(s, opts), VideoKeys, videoOf(s, opts))
  <2> DEFINE t == Filter(s, VideoOnly)
             u == Filter(t, FitsCap(opts))
  <2>1. t \in Seq(Formats) /\ Picks(t, s, VideoOnly)
    BY FilterPicks
  <2> HIDE DEF t
  <2>2. u \in Seq(Formats) /\ Picks(u, t, FitsCap(opts))
    BY <2>1, FilterPicks
  <2> HIDE DEF u
  <2>3. Picks(u, s, VideoOnly \cap FitsCap(opts))
    BY <2>1, <2>2, PicksOfPicks
  <2>4. \A P : Prefer(u, P) \in Seq(Formats)
               /\ Picks(Prefer(u, P), s, Choice(s, VideoOnly \cap FitsCap(opts), P))
    BY <2>2, <2>3, PreferPicks
  <2>5. Narrowed(u, opts) \in Seq(Formats) /\ Picks(Narrowed(u, opts), s, VideoChoice(s, opts))
    BY <2>2, <2>3, <2>4 DEF Narrowed, VideoChoice
  <2>6. videoOf(s, opts) = MaxBy(Narrowed(u, opts), VideoKeys, None)
    BY DEF videoOf, selectBestVideo, t, u
  <2> QED BY <2>5, <2>6, KeysRank, MaxByPicks DEF IsBest
<1>2. IsBest(s, Audio, AudioKeys(opts), audioOf(s, opts))
  <2>1. Filter(s, Audio) \in Seq(Formats) /\ Picks(Filter(s, Audio), s, Audio)
    BY FilterPicks
  <2> QED BY <2>1, KeysRank, MaxByPicks DEF IsBest, audioOf, selectBestAudio
<1>3. IsBest(s, Muxed, HeightKeys, muxedOf(s))
  <2>1. Filter(s, Muxed) \in Seq(Formats) /\ Picks(Filter(s, Muxed), s, Muxed)
    BY FilterPicks
  <2>2. muxedOf(s) = MaxBy(Filter(s, Muxed), HeightKeys, None)
    BY DEF muxedOf, bestMuxed, HeightKeys
  <2> QED BY <2>1, <2>2, KeysRank, MaxByPicks DEF IsBest
<1> QED BY <1>1, <1>2, <1>3

(* What is found is a format, and it is None only if there is nothing.     *)
LEMMA FoundOrNone ==
    ASSUME NEW s \in Seq(Formats), NEW S, NEW keys, NEW x, IsBest(s, S, keys, x)
    PROVE  x # None <=> Some(s, S)
<1>1. \A f \in Formats : f # None
  <2>1. \A f \in Formats : f.mime \in {"audio", "video", "other"}
    BY SelectionAssumption DEF RawFormats
  <2>2. None.mime = "none"
    BY DEF None
  <2> QED BY <2>1, <2>2
<1>2. ASSUME Some(s, S) PROVE x # None
  <2>1. \E m \in DOMAIN s : s[m] = x
    BY <1>2 DEF IsBest, FirstBest
  <2> QED BY <1>1, <2>1
<1> QED BY <1>2 DEF IsBest

(* The loss of an element that was not chosen changes no choice.           *)
LEMMA BestStays ==
    ASSUME NEW s \in Seq(Formats), NEW i \in DOMAIN s, NEW S, NEW keys, NEW x, NEW y,
           IsBest(s, S, keys, x), IsBest(RemoveAt(s, i), S, keys, y), s[i] # x
    PROVE  x = y
<1>1. RemoveAt(s, i) \in Seq(Formats)
  BY RemoveAtFacts
<1>2. CASE Some(s, S)
  <2>1. FirstBest(RemoveAt(s, i), S, keys, x)
    BY <1>2, FirstBestStays DEF IsBest
  <2>2. Some(RemoveAt(s, i), S)
    BY <2>1 DEF FirstBest, Some
  <2> QED BY <1>1, <2>1, <2>2, OneFirstBest DEF IsBest
<1>3. CASE ~ Some(s, S)
  BY <1>3, SomeAfter DEF IsBest
<1> QED BY <1>2, <1>3

LEMMA ChoiceStays ==
    ASSUME NEW s \in Seq(Formats), NEW i \in DOMAIN s, NEW B, NEW P, NEW keys, NEW x,
           IsBest(s, Choice(s, B, P), keys, x), s[i] # x
    PROVE  Choice(RemoveAt(s, i), B, P) = Choice(s, B, P)
<1>1. CASE Some(s, B \cap P)
  <2>1. FirstBest(s, B \cap P, keys, x)
    BY <1>1 DEF IsBest, Choice
  <2>2. FirstBest(RemoveAt(s, i), B \cap P, keys, x)
    BY <2>1, FirstBestStays
  <2>3. Some(RemoveAt(s, i), B \cap P)
    BY <2>2 DEF FirstBest, Some
  <2> QED BY <1>1, <2>3 DEF Choice
<1>2. CASE ~ Some(s, B \cap P)
  BY <1>2, SomeAfter DEF Choice
<1> QED BY <1>1, <1>2

LEMMA OthersDoNotMatter ==
    ASSUME NEW s \in Seq(Formats), NEW i \in DOMAIN s, NEW opts
    PROVE  /\ s[i] # videoOf(s, opts) => videoOf(RemoveAt(s, i), opts) = videoOf(s, opts)
           /\ s[i] # audioOf(s, opts) => audioOf(RemoveAt(s, i), opts) = audioOf(s, opts)
           /\ s[i] # muxedOf(s) => muxedOf(RemoveAt(s, i)) = muxedOf(s)
<1> DEFINE t == RemoveAt(s, i)
<1>1. t \in Seq(Formats)
  BY RemoveAtFacts
<1>2. ASSUME s[i] # videoOf(s, opts) PROVE videoOf(t, opts) = videoOf(s, opts)
  <2>0. IsBest(s, VideoChoice(s, opts), VideoKeys, videoOf(s, opts))
    BY Searches
  <2>1. VideoChoice(t, opts) = VideoChoice(s, opts)
    <3> DEFINE B == VideoOnly \cap FitsCap(opts)
    <3>1. ASSUME NEW P, VideoChoice(s, opts) = Choice(s, B, P)
          PROVE  Choice(t, B, P) = Choice(s, B, P)
      BY <1>2, <2>0, <3>1, ChoiceStays
    <3> HIDE DEF B, t
    <3>2. CASE opts.preferH264
      BY <3>1, <3>2 DEF VideoChoice, B
    <3>3. CASE ~ opts.preferH264 /\ av1UnsafeOnThisDevice
      BY <3>1, <3>3 DEF VideoChoice, B
    <3>4. CASE ~ opts.preferH264 /\ ~ av1UnsafeOnThisDevice
      BY <3>4 DEF VideoChoice
    <3> QED BY <3>2, <3>3, <3>4
  <2>2. /\ IsBest(s, VideoChoice(s, opts), VideoKeys, videoOf(s, opts))
        /\ IsBest(t, VideoChoice(s, opts), VideoKeys, videoOf(t, opts))
    BY <1>1, <2>1, Searches
  <2> QED BY <1>2, <2>2, BestStays
<1>3. ASSUME s[i] # audioOf(s, opts) PROVE audioOf(t, opts) = audioOf(s, opts)
  BY <1>1, <1>3, Searches, BestStays
<1>4. ASSUME s[i] # muxedOf(s) PROVE muxedOf(t) = muxedOf(s)
  BY <1>1, <1>4, Searches, BestStays
<1> QED BY <1>2, <1>3, <1>4

-----------------------------------------------------------------------------

(* What is selected is what select returns for the list and the options,   *)
(* which never change.                                                     *)
SelectorInv ==
    /\ formats \in Seq(Formats)
    /\ selection \in {Unselected, select(formats, options)}

LEMMA SelectorInvHolds == SelectorSpec => []SelectorInv
<1>1. SelectorInit => SelectorInv
  BY DEF SelectorInit, SelectorInv, BoundedSeq, SeqOf
<1>2. SelectorInv /\ [SelectorNext]_selectorVars => SelectorInv'
  <2> SUFFICES ASSUME SelectorInv, [SelectorNext]_selectorVars PROVE SelectorInv'
    OBVIOUS
  <2>1. UNCHANGED <<formats, options, av1UnsafeOnThisDevice>>
    BY DEF SelectorNext, Select, Done, selectorVars
  <2>2. select(formats, options)' = select(formats, options)
    BY <2>1 DEF select, selectBestVideo, Narrowed
  <2>3. selection' \in {selection, select(formats, options)}
    BY DEF SelectorNext, Select, Done, selectorVars
  <2> QED BY <2>1, <2>2, <2>3 DEF SelectorInv, Unselected
<1> QED BY <1>1, <1>2, PTL DEF SelectorSpec

(* The two results of select, in terms of the three searches.              *)
LEMMA SelectCases ==
    ASSUME NEW s \in Seq(Formats), NEW opts
    PROVE  /\ Some(s, Audio) =>
                select(s, opts) =
                    [kind |-> "selection", video |-> videoOf(s, opts), audio |-> audioOf(s, opts),
                     muxed |-> IF opts.includeMuxedFallback THEN muxedOf(s) ELSE None]
           /\ ~ Some(s, Audio) /\ Some(s, Muxed) =>
                select(s, opts) =
                    [kind |-> "selection", video |-> None, audio |-> muxedOf(s), muxed |-> muxedOf(s)]
           /\ ~ Some(s, Audio) /\ ~ Some(s, Muxed) => select(s, opts) = NoStreamsFound
<1>1. audioOf(s, opts) # None <=> Some(s, Audio)
  BY Searches, FoundOrNone
<1>2. muxedOf(s) # None <=> Some(s, Muxed)
  BY Searches, FoundOrNone
<1>3. select(s, opts) =
        IF audioOf(s, opts) # None
        THEN [kind |-> "selection", video |-> videoOf(s, opts), audio |-> audioOf(s, opts),
              muxed |-> IF opts.includeMuxedFallback THEN muxedOf(s) ELSE None]
        ELSE IF muxedOf(s) # None
        THEN [kind |-> "selection", video |-> None, audio |-> muxedOf(s), muxed |-> muxedOf(s)]
        ELSE NoStreamsFound
  BY DEF select, videoOf, audioOf, muxedOf
<1> QED BY <1>1, <1>2, <1>3

(* What the call allows is what the code's filters leave of the list.      *)
LEMMA AllowedIsChoice ==
    ASSUME formats \in Seq(Formats), NEW g
    PROVE  g \in Allowed <=> g \in VideoChoice(formats, options) /\ Some(formats, {g})
<1> DEFINE B == VideoOnly \cap FitsCap(options)
           listed(f) == Some(formats, {f})
           H264 == {f \in Formats : detectVideoCodec(f) = "H264"}
           NotAV1 == {f \in Formats : detectVideoCodec(f) # "AV1"}
<1>1. \A f : f \in WithinCap <=> f \in B /\ listed(f)
  BY DEF WithinCap, Streams, FitsCap, Some, VideoOnly
<1>2. B \subseteq Formats
  BY DEF VideoOnly
<1>3. \A f \in Formats : (f \in H264 <=> IsH264(f)) /\ (f \in NotAV1 <=> ~ IsAV1(f))
  BY CodecsAgree
<1>4. \A P : Some(formats, B \cap P) <=> \E f \in B \cap P : listed(f)
  BY DEF Some
<1>5. VideoChoice(formats, options) =
        IF options.preferH264 THEN Choice(formats, B, H264)
        ELSE IF av1UnsafeOnThisDevice THEN Choice(formats, B, NotAV1) ELSE B
  BY DEF VideoChoice
<1>6. g \in Allowed <=>
        /\ g \in WithinCap
        /\ IF options.preferH264
           THEN IsH264(g) \/ \A f \in WithinCap : ~IsH264(f)
           ELSE (av1UnsafeOnThisDevice /\ IsAV1(g)) => \A f \in WithinCap : IsAV1(f)
  BY DEF Allowed, ShunsAV1
<1> HIDE DEF B, listed, H264, NotAV1
<1>7. CASE options.preferH264
  BY <1>1, <1>2, <1>3, <1>4, <1>5, <1>6, <1>7 DEF Choice, listed
<1>8. CASE ~ options.preferH264 /\ av1UnsafeOnThisDevice
  BY <1>1, <1>2, <1>3, <1>4, <1>5, <1>6, <1>8 DEF Choice, listed
<1>9. CASE ~ options.preferH264 /\ ~ av1UnsafeOnThisDevice
  BY <1>1, <1>5, <1>6, <1>9 DEF listed
<1> QED BY <1>7, <1>8, <1>9

(* A better format has the greater key.                                    *)
LEMMA BetterIsGreater ==
    ASSUME NEW f \in Formats, NEW g \in Formats, Better(g, f)
    PROVE  Less(VideoKeys[f], VideoKeys[g])
<1> DEFINE a == VideoKeys[f]
           b == VideoKeys[g]
<1>1. /\ a = <<f.height, f.fps, Rank(f), f.bitrate>> /\ b = <<g.height, g.fps, Rank(g), g.bitrate>>
      /\ a \in [1 .. 4 -> Int] /\ b \in [1 .. 4 -> Int]
  BY KeysRank
<1>2. /\ a[1] = f.height /\ a[2] = f.fps /\ a[3] = Rank(f)
      /\ b[1] = g.height /\ b[2] = g.fps /\ b[3] = Rank(g)
      /\ DOMAIN a = 1 .. 4
  BY <1>1
<1> HIDE DEF a, b
<1>3. \A i \in 1 .. 4 : a[i] \in Int /\ b[i] \in Int
  BY <1>1
<1>4. CASE g.height > f.height
  <2>1. a[1] < b[1] /\ \A j \in 1 .. 1 - 1 : a[j] = b[j]
    BY <1>2, <1>3, <1>4
  <2> QED BY <1>2, <2>1 DEF Less, a, b
<1>5. CASE g.height = f.height /\ g.fps > f.fps
  <2>1. a[2] < b[2] /\ \A j \in 1 .. 2 - 1 : a[j] = b[j]
    BY <1>2, <1>3, <1>5
  <2> QED BY <1>2, <2>1 DEF Less, a, b
<1>6. CASE /\ g.height = f.height /\ g.fps = f.fps
           /\ \E p \in Telling(g) : \A q \in Telling(f) : Grade[p] > Grade[q]
  <2>1. PICK p \in Telling(g) : \A q \in Telling(f) : Grade[p] > Grade[q]
    BY <1>6
  <2>2. Rank(f) < Rank(g)
    BY <2>1, RankIsGrade
  <2>3. a[3] < b[3] /\ \A j \in 1 .. 3 - 1 : a[j] = b[j]
    BY <1>2, <1>3, <1>6, <2>2
  <2> QED BY <1>2, <2>3 DEF Less, a, b
<1> QED BY <1>4, <1>5, <1>6 DEF Better

(* VideoIsBest for lists of any length of any formats: the video obeys the *)
(* cap, the preference of the call and the avoidance of AV1 as far as the  *)
(* code has it (ShunsAV1), and no format that does is better.              *)
THEOREM VideoSelectedIsBest == SelectorSpec => []VideoIsBest
<1>1. SelectorInv => VideoIsBest
  <2> SUFFICES ASSUME SelectorInv, selection.kind = "selection"
               PROVE  IF selection.video = None
                      THEN Allowed = {} \/ Streams(Audio) = {}
                      ELSE /\ selection.video \in Allowed
                           /\ \A g \in Allowed : ~Better(g, selection.video)
    BY DEF VideoIsBest, Selected
  <2>1. formats \in Seq(Formats) /\ selection = select(formats, options)
    BY DEF SelectorInv, Unselected
  <2>2. CASE ~ Some(formats, Audio)
    <3>1. Streams(Audio) = {}
      BY <2>2 DEF Streams, Some
    <3>2. selection.video = None
      BY <2>1, <2>2, SelectCases DEF NoStreamsFound
    <3> QED BY <3>1, <3>2
  <2>3. CASE Some(formats, Audio)
    <3> DEFINE S == VideoChoice(formats, options)
               x == selection.video
    <3>1. x = videoOf(formats, options)
      BY <2>1, <2>3, SelectCases
    <3>2. IsBest(formats, S, VideoKeys, x)
      BY <2>1, <3>1, Searches
    <3>3. \A g : g \in Allowed <=> g \in S /\ Some(formats, {g})
      BY <2>1, AllowedIsChoice
    <3> HIDE DEF S, x
    <3>4. CASE ~ Some(formats, S)
      <4>1. Allowed = {}
        BY <3>3, <3>4 DEF Some
      <4>2. x = None
        BY <3>2, <3>4 DEF IsBest
      <4> QED BY <4>1, <4>2 DEF x
    <3>5. CASE Some(formats, S)
      <4>1. PICK m \in DOMAIN formats :
              /\ formats[m] = x /\ x \in S
              /\ \A j \in DOMAIN formats : formats[j] \in S => ~ Less(VideoKeys[x], VideoKeys[formats[j]])
        BY <3>2, <3>5 DEF IsBest, FirstBest
      <4>2. x # None
        BY <2>1, <3>2, <3>5, FoundOrNone
      <4>3. x \in Allowed
        BY <3>3, <4>1 DEF Some
      <4>4. ASSUME NEW g \in Allowed PROVE ~ Better(g, x)
        <5>1. PICK j \in DOMAIN formats : formats[j] = g
          BY <3>3, <4>4 DEF Some
        <5>2. g \in Formats /\ x \in Formats
          BY <2>1, <4>1, <5>1
        <5>3. ~ Less(VideoKeys[x], VideoKeys[g])
          BY <3>3, <4>1, <4>4, <5>1
        <5> QED BY <5>2, <5>3, BetterIsGreater
      <4> QED BY <4>2, <4>3, <4>4 DEF x
    <3> QED BY <3>4, <3>5
  <2> QED BY <2>2, <2>3
<1> QED BY <1>1, SelectorInvHolds, PTL

(* FailuresOfOthersAreHarmless for lists of any length: a format that was  *)
(* not selected can be missing from the list, and nothing else changes.    *)
THEOREM OthersAreHarmless == SelectorSpec => []FailuresOfOthersAreHarmless
<1>1. SelectorInv => FailuresOfOthersAreHarmless
  <2> SUFFICES ASSUME SelectorInv PROVE FailuresOfOthersAreHarmless
    OBVIOUS
  <2>1. formats \in Seq(Formats) /\ (selection = select(formats, options) \/ selection = Unselected)
    BY DEF SelectorInv
  <2>2. ASSUME Selected, NEW i \in DOMAIN formats,
               formats[i] \notin {selection.video, selection.audio, selection.muxed}
        PROVE  select(RemoveAt(formats, i), options) = selection
    <3> DEFINE t == RemoveAt(formats, i)
    <3>1. t \in Seq(Formats)
      BY <2>1, RemoveAtFacts
    <3>2. selection = select(formats, options)
      BY <2>1, <2>2 DEF Selected, Unselected
    <3>3. /\ formats[i] # videoOf(formats, options) =>
                videoOf(t, options) = videoOf(formats, options)
          /\ formats[i] # audioOf(formats, options) =>
                audioOf(t, options) = audioOf(formats, options)
          /\ formats[i] # muxedOf(formats) => muxedOf(t) = muxedOf(formats)
      BY <2>1, OthersDoNotMatter
    <3>4. \A S : Some(t, S) => Some(formats, S)
      BY <2>1, SomeAfter
    <3>5. /\ audioOf(t, options) # None <=> Some(t, Audio)
          /\ muxedOf(t) # None <=> Some(t, Muxed)
          /\ audioOf(formats, options) # None <=> Some(formats, Audio)
          /\ muxedOf(formats) # None <=> Some(formats, Muxed)
      BY <2>1, <3>1, Searches, FoundOrNone
    <3> HIDE DEF t
    <3>6. CASE Some(formats, Audio)
      <4>1. selection =
                [kind |-> "selection", video |-> videoOf(formats, options),
                 audio |-> audioOf(formats, options),
                 muxed |-> IF options.includeMuxedFallback THEN muxedOf(formats) ELSE None]
        BY <2>1, <3>2, <3>6, SelectCases
      <4>2. /\ videoOf(t, options) = videoOf(formats, options)
            /\ audioOf(t, options) = audioOf(formats, options)
            /\ options.includeMuxedFallback => muxedOf(t) = muxedOf(formats)
        BY <2>2, <3>3, <4>1
      <4>3. Some(t, Audio)
        BY <3>5, <3>6, <4>2
      <4> QED BY <3>1, <4>1, <4>2, <4>3, SelectCases DEF t
    <3>7. CASE ~ Some(formats, Audio)
      <4>1. Some(formats, Muxed)
        BY <2>1, <2>2, <3>2, <3>7, SelectCases DEF Selected, NoStreamsFound
      <4>2. selection = [kind |-> "selection", video |-> None, audio |-> muxedOf(formats),
                         muxed |-> muxedOf(formats)]
        BY <2>1, <3>2, <3>7, <4>1, SelectCases
      <4>3. muxedOf(t) = muxedOf(formats)
        BY <2>2, <3>3, <4>2
      <4>4. ~ Some(t, Audio) /\ Some(t, Muxed)
        BY <3>4, <3>5, <3>7, <4>1, <4>3
      <4> QED BY <3>1, <4>2, <4>3, <4>4, SelectCases DEF t
    <3> QED BY <3>6, <3>7
  <2>3. ASSUME selection = NoStreamsFound PROVE Streams(Audio) \cup Streams(Muxed) = {}
    <3>1. select(formats, options) = NoStreamsFound
      BY <2>1, <2>3 DEF NoStreamsFound, Unselected
    <3>2. ~ Some(formats, Audio) /\ ~ Some(formats, Muxed)
      BY <2>1, <3>1, SelectCases DEF NoStreamsFound
    <3> QED BY <3>2 DEF Some, Streams
  <2> QED BY <2>2, <2>3 DEF FailuresOfOthersAreHarmless
<1> QED BY <1>1, SelectorInvHolds, PTL
=============================================================================

----------------------- MODULE ExtractionCacheProofs -----------------------
(***************************************************************************)
(* For every number of callers, every capacity, margin and lifetime, and   *)
(* however long the clock runs: the cache stays bounded, hits are no       *)
(* staler than the extraction was slow and its lifetime made up, a put     *)
(* replaces only a rival's entry (IInv), and an eviction takes an entry    *)
(* only after MaxSize other videos were used since it was (Aged, on top of *)
(* it).                                                                    *)
(***************************************************************************)
EXTENDS ExtractionCache, CollectionLemmas, FiniteSetTheorems

\* What a caller that has stamped its result knows about the result's claim.
ClaimOK(c) ==
    /\ pc[c] \in {"stamp", "ttl", "put"} => result[c].mintedAt <= result[c].deadline
    /\ pc[c] = "ttl" => result[c].expiresAt - now <= AssumedLifetime(result[c])
    /\ pc[c] = "put" => ttl[c] + Margin <= AssumedLifetime(result[c])

\* What the lag of an extraction and a lifetime made up add to the life of its entry.
EntryOK(e) ==
    e.expiresAt + Margin <= e.value.deadline + Lag(e.value) + Overrun(e.value)

\* A caller that missed can find only entries put since.
RivalOK(c) ==
    pc[c] \in Resolving =>
        /\ missedAt[c] <= now
        /\ \A i \in DOMAIN map :
            map[i].key = videoId[c] => map[i].value.cachedAt >= missedAt[c]

IInv ==
    /\ TypeOK
    /\ Bounded
    /\ \A c \in Callers : ClaimOK(c)
    /\ \A i \in DOMAIN map : EntryOK(map[i])
    /\ \A c \in Callers : RivalOK(c)

-----------------------------------------------------------------------------

(* What a put does to the map.                                             *)
LEMMA InsertedFacts ==
    ASSUME TypeOK, Bounded, NEW entry \in Entries
    PROVE  /\ Inserted(entry) \in Seq(Entries)
           /\ Len(Inserted(entry)) <= MaxSize /\ DistinctKeys(Inserted(entry))
           /\ \A i \in DOMAIN Inserted(entry) :
                \/ Inserted(entry)[i] = entry
                \/ \E j \in DOMAIN map : Inserted(entry)[i] = map[j]
<1> DEFINE all == Youngest(map, entry)
<1>1. map \in Seq(Entries) /\ Len(map) <= MaxSize /\ DistinctKeys(map) /\ MaxSize \in Nat
  BY CacheAssumption DEF TypeOK, Bounded
<1>2. /\ all \in Seq(Entries) /\ DistinctKeys(all) /\ Len(all) \in Nat /\ Len(all) <= MaxSize + 1
      /\ \A i \in DOMAIN all : all[i] = entry \/ \E j \in DOMAIN map : all[i] = map[j]
  <2>1. /\ all \in Seq(Entries) /\ DistinctKeys(all)
        /\ Len(all) = IF Holds(map, entry.key) THEN Len(map) ELSE Len(map) + 1
        /\ \A i \in DOMAIN all : all[i] = entry \/ \E j \in DOMAIN map : all[i] = map[j]
    BY <1>1, YoungestFacts
  <2>2. Len(map) \in Nat
    BY <1>1
  <2> HIDE DEF all
  <2> QED BY <1>1, <2>1, <2>2
<1>3. Inserted(entry) = IF Len(all) > MaxSize THEN Tail(all) ELSE all
  BY DEF Inserted
<1> HIDE DEF all
<1>4. CASE Len(all) > MaxSize
  <2>1. /\ Tail(all) \in Seq(Entries) /\ Len(Tail(all)) = Len(all) - 1 /\ DistinctKeys(Tail(all))
        /\ \A i \in DOMAIN Tail(all) : \E j \in DOMAIN all : Tail(all)[i] = all[j]
    BY <1>1, <1>2, <1>4, TailFacts
  <2> QED BY <1>1, <1>2, <1>3, <1>4, <2>1
<1>5. CASE ~(Len(all) > MaxSize)
  BY <1>1, <1>2, <1>3, <1>5
<1> QED BY <1>4, <1>5

-----------------------------------------------------------------------------

(* A result is told from the absence of one.                               *)
LEMMA ResultIsSome == \A r \in StreamResults : r # NoResult
BY DEF StreamResults, NoResult

LEMMA InitIInv == Init => IInv
<1> SUFFICES ASSUME Init PROVE IInv
  OBVIOUS
<1>1. TypeOK
  BY CacheAssumption DEF Init, TypeOK, Phases
<1>2. Bounded
  BY CacheAssumption DEF Init, Bounded, DistinctKeys
<1>3. \A c \in Callers : ClaimOK(c) /\ RivalOK(c)
  BY DEF Init, ClaimOK, RivalOK, Resolving
<1>4. \A i \in DOMAIN map : EntryOK(map[i])
  BY DEF Init
<1> QED BY <1>1, <1>2, <1>3, <1>4 DEF IInv

(* A step of caller c that leaves the map and the clock alone: only what   *)
(* is said of c itself has to be shown again.                              *)
LEMMA LocalStep ==
    ASSUME IInv, NEW c \in Callers, TypeOK', UNCHANGED <<map, now>>,
           ClaimOK(c)', RivalOK(c)',
           \A d \in Callers \ {c} :
                /\ pc'[d] = pc[d] /\ videoId'[d] = videoId[d] /\ result'[d] = result[d]
                /\ ttl'[d] = ttl[d] /\ missedAt'[d] = missedAt[d]
    PROVE  IInv'
<1>1. Bounded' /\ (\A i \in DOMAIN map : EntryOK(map[i]))'
  BY DEF IInv, Bounded, EntryOK
<1>2. \A d \in Callers : ClaimOK(d)'
  BY DEF IInv, ClaimOK
<1>3. \A d \in Callers : RivalOK(d)'
  BY DEF IInv, RivalOK
<1> QED BY <1>1, <1>2, <1>3 DEF IInv

(* The steps that only move a caller on.                                   *)
LEMMA CallKeeps ==
    ASSUME IInv, NEW c \in Callers, NEW v \in Videos, Call(c, v)
    PROVE  IInv'
<1>1. TypeOK'
  BY DEF IInv, TypeOK, Call, Goto, Phases, NoVideo
<1>2. ClaimOK(c)' /\ RivalOK(c)'
  BY DEF IInv, TypeOK, Call, Goto, ClaimOK, RivalOK, Resolving
<1> QED BY <1>1, <1>2, LocalStep DEF IInv, TypeOK, Call, Goto

LEMMA MissKeeps ==
    ASSUME IInv, NEW c \in Callers, LookupMiss(c)
    PROVE  IInv'
<1>1. TypeOK'
  BY DEF IInv, TypeOK, LookupMiss, Goto, Phases
<1>2. ClaimOK(c)'
  BY DEF IInv, TypeOK, LookupMiss, Goto, ClaimOK
<1>3. RivalOK(c)'
  BY DEF IInv, TypeOK, LookupMiss, Goto, RivalOK, Places, Holds
<1> QED BY <1>1, <1>2, <1>3, LocalStep DEF IInv, TypeOK, LookupMiss, Goto

LEMMA AnsweredKeeps ==
    ASSUME IInv, NEW c \in Callers, Answered(c)
    PROVE  IInv'
<1>1. PICK a \in Answers :
        result' = [result EXCEPT ![c] =
            [video |-> videoId[c], expiresAt |-> 0, mintedAt |-> now, deadline |-> now + a.life,
             announced |-> a.announced, cachedAt |-> 0]]
  BY DEF Answered
<1>2. a.life \in Nat /\ a.announced \in BOOLEAN /\ now \in Nat
  BY CacheAssumption DEF IInv, TypeOK
<1>3. videoId[c] \in Videos
  BY DEF IInv, TypeOK, Answered, Goto
<1>4. result'[c] \in StreamResults /\ result'[c].mintedAt = now /\ result'[c].deadline = now + a.life
  BY <1>1, <1>2, <1>3 DEF IInv, TypeOK, StreamResults
<1>5. TypeOK'
  <2>1. result' \in [Callers -> StreamResults \cup {NoResult}] /\ result'[c] # NoResult
    BY <1>1, <1>4 DEF IInv, TypeOK, StreamResults, NoResult
  <2>2. \A d \in Callers : d # c => result'[d] = result[d] /\ pc'[d] = pc[d]
    BY <1>1 DEF IInv, TypeOK, Answered, Goto
  <2>3. pc' \in [Callers -> Phases] /\ pc[c] = "resolve" /\ pc'[c] = "stamp"
    BY DEF IInv, TypeOK, Answered, Goto, Phases
  <2> QED BY <2>1, <2>2, <2>3 DEF IInv, TypeOK, Answered
<1>6. ClaimOK(c)'
  BY <1>2, <1>4 DEF IInv, TypeOK, Answered, Goto, ClaimOK
<1>7. RivalOK(c)'
  BY DEF IInv, TypeOK, Answered, Goto, RivalOK, Resolving
<1> QED BY <1>1, <1>5, <1>6, <1>7, LocalStep DEF IInv, TypeOK, Answered, Goto

LEMMA StampKeeps ==
    ASSUME IInv, NEW c \in Callers, Stamp(c)
    PROVE  IInv'
<1>1. result[c] \in StreamResults /\ result[c].mintedAt <= result[c].deadline /\ now \in Nat
  BY DEF IInv, TypeOK, Stamp, Goto, ClaimOK
<1> DEFINE life == AssumedLifetime(result[c])
           r == [result[c] EXCEPT !.expiresAt = now + life]
<1>a. life \in Nat
  BY <1>1, CacheAssumption DEF AssumedLifetime, StreamResults
<1>2. /\ r \in StreamResults /\ r # NoResult
      /\ r.mintedAt = result[c].mintedAt /\ r.deadline = result[c].deadline
      /\ r.expiresAt - now = AssumedLifetime(r)
  <2>1. r \in StreamResults /\ r # NoResult /\ r.expiresAt = now + life
        /\ r.mintedAt = result[c].mintedAt /\ r.deadline = result[c].deadline
        /\ r.announced = result[c].announced
    <3> HIDE DEF life
    <3> QED BY <1>1, <1>a DEF StreamResults, NoResult
  <2>2. AssumedLifetime(r) = life
    BY <2>1 DEF AssumedLifetime
  <2> HIDE DEF r, life
  <2> QED BY <1>1, <1>a, <2>1, <2>2
<1>3. result' = [result EXCEPT ![c] = r] /\ c \in DOMAIN result
  BY DEF IInv, TypeOK, Stamp
<1> HIDE DEF r, life
<1>4. TypeOK'
  <2>1. result' \in [Callers -> StreamResults \cup {NoResult}] /\ result'[c] = r
    BY <1>2, <1>3 DEF IInv, TypeOK
  <2>2. \A d \in Callers : d # c => result'[d] = result[d] /\ pc'[d] = pc[d]
    BY <1>3 DEF IInv, TypeOK, Stamp, Goto
  <2>3. pc' \in [Callers -> Phases] /\ pc[c] = "stamp" /\ pc'[c] = "ttl"
    BY DEF IInv, TypeOK, Stamp, Goto, Phases
  <2> QED BY <1>2, <2>1, <2>2, <2>3 DEF IInv, TypeOK, Stamp
<1>5. ClaimOK(c)'
  <2>1. result'[c] = r /\ pc'[c] = "ttl" /\ now' = now
    BY <1>3 DEF IInv, TypeOK, Stamp, Goto
  <2> QED BY <1>1, <1>2, <2>1 DEF ClaimOK, StreamResults
<1>6. RivalOK(c)'
  BY DEF IInv, TypeOK, Stamp, Goto, RivalOK, Resolving
<1> QED BY <1>3, <1>4, <1>5, <1>6, LocalStep DEF IInv, TypeOK, Stamp, Goto

LEMMA TtlKeeps ==
    ASSUME IInv, NEW c \in Callers, ComputeTtl(c)
    PROVE  IInv'
<1>1. /\ result[c] \in StreamResults /\ result[c].mintedAt <= result[c].deadline
      /\ result[c].expiresAt - now <= AssumedLifetime(result[c])
      /\ now \in Nat /\ Margin \in Nat
  BY CacheAssumption DEF IInv, TypeOK, ComputeTtl, Goto, ClaimOK
<1> DEFINE t == result[c].expiresAt - now - Margin
<1>2. t \in Int /\ t + Margin <= AssumedLifetime(result[c])
  <2>1. AssumedLifetime(result[c]) \in Int /\ result[c].expiresAt \in Int
    BY <1>1, CacheAssumption DEF AssumedLifetime, StreamResults
  <2> QED BY <1>1, <2>1
<1>3. ttl' = [ttl EXCEPT ![c] = t]
  BY DEF ComputeTtl
<1>4. pc' = [pc EXCEPT ![c] = IF t > 0 THEN "put" ELSE "done"] /\ pc[c] = "ttl"
  BY DEF ComputeTtl, Goto
<1> HIDE DEF t
<1>5. TypeOK'
  BY <1>2, <1>3, <1>4 DEF IInv, TypeOK, ComputeTtl, Phases
<1>6. ClaimOK(c)'
  BY <1>1, <1>2, <1>3, <1>4 DEF IInv, TypeOK, ComputeTtl, ClaimOK
<1>7. RivalOK(c)'
  BY <1>4 DEF IInv, TypeOK, ComputeTtl, RivalOK, Resolving
<1> QED BY <1>3, <1>4, <1>5, <1>6, <1>7, LocalStep DEF IInv, TypeOK, ComputeTtl

(* The steps that end a call.                                              *)
LEMMA EndKeeps ==
    ASSUME IInv, NEW c \in Callers, Fail(c) \/ Return(c)
    PROVE  IInv'
<1>1. /\ pc' = [pc EXCEPT ![c] = "idle"]
      /\ result' = [result EXCEPT ![c] = NoResult]
      /\ videoId' = [videoId EXCEPT ![c] = NoVideo]
      /\ ttl' = [ttl EXCEPT ![c] = 0]
      /\ missedAt' = [missedAt EXCEPT ![c] = 0]
      /\ UNCHANGED <<now, map, usedSince>>
  BY DEF Fail, Return
<1>2. TypeOK'
  BY <1>1, CacheAssumption DEF IInv, TypeOK, Phases
<1>3. ClaimOK(c)' /\ RivalOK(c)'
  BY <1>1 DEF IInv, TypeOK, ClaimOK, RivalOK, Resolving
<1> QED BY <1>1, <1>2, <1>3, LocalStep DEF IInv, TypeOK

LEMMA TickKeeps ==
    ASSUME IInv, Tick
    PROVE  IInv'
<1>1. now \in Nat /\ now' = now + 1 /\ now' \in 0 .. MaxTime
  BY CacheAssumption DEF IInv, TypeOK, Tick
<1>2. TypeOK'
  BY <1>1 DEF IInv, TypeOK, Tick
<1>3. Bounded' /\ (\A i \in DOMAIN map : EntryOK(map[i]))'
  BY DEF IInv, Bounded, EntryOK, Tick
<1>4. \A c \in Callers : ClaimOK(c)'
  <2> TAKE c \in Callers
  <2>1. pc[c] = "ttl" => result[c] \in StreamResults
    BY DEF IInv, TypeOK
  <2>2. pc[c] = "ttl" => result[c].expiresAt \in Int /\ AssumedLifetime(result[c]) \in Int
    BY <2>1, CacheAssumption DEF StreamResults, AssumedLifetime
  <2>3. UNCHANGED <<pc, result, ttl>> /\ AssumedLifetime(result[c])' = AssumedLifetime(result[c])
    BY DEF Tick, AssumedLifetime
  <2> QED BY <1>1, <2>2, <2>3 DEF IInv, ClaimOK
<1>5. \A c \in Callers : RivalOK(c)'
  BY <1>1 DEF IInv, TypeOK, RivalOK, Tick
<1> QED BY <1>2, <1>3, <1>4, <1>5 DEF IInv

(* A step of caller c that rearranges the map: it is enough that the map   *)
(* stays bounded and every entry was there before or is new and sound.     *)
LEMMA MapStep ==
    ASSUME IInv, NEW c \in Callers, TypeOK', Bounded', now' = now,
           ClaimOK(c)', RivalOK(c)',
           \A i \in DOMAIN map' :
                \/ \E j \in DOMAIN map : map'[i] = map[j]
                \/ EntryOK(map'[i]) /\ map'[i].value.cachedAt = now,
           \A d \in Callers \ {c} :
                /\ pc'[d] = pc[d] /\ videoId'[d] = videoId[d] /\ result'[d] = result[d]
                /\ ttl'[d] = ttl[d] /\ missedAt'[d] = missedAt[d]
    PROVE  IInv'
<1>1. (\A i \in DOMAIN map : EntryOK(map[i]))'
  BY DEF IInv, EntryOK
<1>2. \A d \in Callers : ClaimOK(d)'
  BY DEF IInv, ClaimOK
<1>3. \A d \in Callers : RivalOK(d)'
  <2> SUFFICES ASSUME NEW d \in Callers \ {c}, pc[d] \in Resolving
               PROVE  /\ missedAt[d] <= now
                      /\ \A i \in DOMAIN map' :
                            map'[i].key = videoId[d] => map'[i].value.cachedAt >= missedAt[d]
    BY DEF RivalOK
  <2>1. /\ missedAt[d] <= now
        /\ \A i \in DOMAIN map :
              map[i].key = videoId[d] => map[i].value.cachedAt >= missedAt[d]
    BY DEF IInv, RivalOK
  <2>2. missedAt[d] \in Int /\ now \in Int
    BY CacheAssumption DEF IInv, TypeOK
  <2> QED BY <2>1, <2>2
<1> QED BY <1>1, <1>2, <1>3 DEF IInv

LEMMA ExpiredKeeps ==
    ASSUME IInv, NEW c \in Callers, LookupExpired(c)
    PROVE  IInv'
<1> DEFINE v == videoId[c]
<1>1. map' = Without(map, v) /\ Holds(map, v)
  BY DEF LookupExpired, Places, Holds
<1>2. map \in Seq(Entries) /\ DistinctKeys(map) /\ Len(map) <= MaxSize /\ Len(map) \in Nat
  BY DEF IInv, TypeOK, Bounded
<1>3. /\ map' \in Seq(Entries) /\ Len(map') = Len(map) - 1 /\ DistinctKeys(map')
      /\ \A i \in DOMAIN map' : map'[i].key # v /\ \E j \in DOMAIN map : map'[i] = map[j]
  BY <1>1, <1>2, WithoutFacts
<1>4. TypeOK'
  <2>1. missedAt' \in [Callers -> 0 .. MaxTime] /\ pc' \in [Callers -> Phases]
    BY CacheAssumption DEF IInv, TypeOK, LookupExpired, Goto, Phases
  <2> QED BY <1>3, <2>1 DEF IInv, TypeOK, LookupExpired, Goto
<1>5. Bounded'
  BY <1>2, <1>3, CacheAssumption DEF Bounded
<1>6. ClaimOK(c)'
  BY DEF IInv, TypeOK, LookupExpired, Goto, ClaimOK
<1>7. RivalOK(c)'
  <2>1. now <= now
    BY CacheAssumption DEF IInv, TypeOK
  <2> QED BY <1>3, <2>1 DEF IInv, TypeOK, LookupExpired, Goto, RivalOK
<1> QED BY <1>3, <1>4, <1>5, <1>6, <1>7, MapStep DEF IInv, TypeOK, LookupExpired, Goto

(* A put inserts an entry of the video it counts as used.                  *)
LEMMA PutEntry ==
    ASSUME IInv, NEW c \in Callers, Put(c)
    PROVE  \E e \in Entries :
            e.key = videoId[c] /\ map' = Inserted(e) /\ Use(e.key)
<1> DEFINE kept == [result[c] EXCEPT !.cachedAt = now]
           entry == [key |-> videoId[c], value |-> kept, expiresAt |-> now + ttl[c]]
<1>1. /\ result[c] \in StreamResults /\ videoId[c] \in Videos /\ now \in Nat /\ ttl[c] \in Int
      /\ map' = Inserted(entry) /\ Use(videoId[c])
  BY CacheAssumption DEF IInv, TypeOK, Put, Goto
<1>2. kept \in StreamResults
  BY <1>1 DEF StreamResults
<1>3. entry \in Entries /\ entry.key = videoId[c]
  BY <1>1, <1>2 DEF Entries
<1> QED BY <1>1, <1>3

(* Use keeps the history a relation between videos.                        *)
LEMMA UseType ==
    ASSUME TypeOK, NEW v \in Videos, Use(v)
    PROVE  usedSince' \in [Videos -> SUBSET Videos]
BY DEF TypeOK, Use

LEMMA HitKeeps ==
    ASSUME IInv, NEW c \in Callers, LookupHit(c)
    PROVE  IInv'
<1>1. PICK p \in DOMAIN map :
        /\ map[p].key = videoId[c]
        /\ map' = Youngest(map, map[p])
        /\ result' = [result EXCEPT ![c] = map[p].value]
  BY DEF LookupHit, Places
<1>2. /\ map \in Seq(Entries) /\ DistinctKeys(map) /\ map[p] \in Entries
      /\ Holds(map, map[p].key) /\ Len(map) <= MaxSize
  BY <1>1 DEF IInv, TypeOK, Bounded, Holds, Places
<1>3. /\ map' \in Seq(Entries) /\ Len(map') = Len(map) /\ DistinctKeys(map')
      /\ \A i \in DOMAIN map' : \E j \in DOMAIN map : map'[i] = map[j]
  BY <1>1, <1>2, YoungestFacts
<1>4. TypeOK'
  <2>1. map[p].value \in StreamResults /\ map[p].value # NoResult
    BY <1>2, ResultIsSome DEF Entries
  <2>2. result' \in [Callers -> StreamResults \cup {NoResult}] /\ result'[c] # NoResult
    BY <1>1, <2>1 DEF IInv, TypeOK
  <2>3. \A d \in Callers : d # c => result'[d] = result[d] /\ pc'[d] = pc[d]
    BY <1>1 DEF IInv, TypeOK, LookupHit, Goto
  <2>4. pc' \in [Callers -> Phases] /\ pc[c] = "lookup" /\ pc'[c] = "hit"
    BY DEF IInv, TypeOK, LookupHit, Goto, Phases
  <2>5. videoId[c] \in Videos
    BY <2>4 DEF IInv, TypeOK
  <2>6. usedSince' \in [Videos -> SUBSET Videos]
    BY <2>5, UseType DEF IInv, LookupHit
  <2> QED BY <1>3, <2>2, <2>3, <2>4, <2>6 DEF IInv, TypeOK, LookupHit
<1>5. Bounded'
  BY <1>2, <1>3 DEF Bounded
<1>6. ClaimOK(c)' /\ RivalOK(c)'
  BY DEF IInv, TypeOK, LookupHit, Goto, ClaimOK, RivalOK, Resolving
<1>7. \A d \in Callers \ {c} : pc'[d] = pc[d] /\ result'[d] = result[d]
  BY <1>1 DEF IInv, TypeOK, LookupHit, Goto
<1> QED BY <1>3, <1>4, <1>5, <1>6, <1>7, MapStep DEF LookupHit

LEMMA PutKeeps ==
    ASSUME IInv, NEW c \in Callers, Put(c)
    PROVE  IInv'
<1> DEFINE kept == [result[c] EXCEPT !.cachedAt = now]
           entry == [key |-> videoId[c], value |-> kept, expiresAt |-> now + ttl[c]]
<1>1. /\ pc[c] = "put" /\ pc' = [pc EXCEPT ![c] = "done"]
      /\ map' = Inserted(entry) /\ result' = [result EXCEPT ![c] = kept]
      /\ UNCHANGED <<now, videoId, ttl, missedAt>>
  BY DEF Put, Goto
<1>2. /\ result[c] \in StreamResults /\ videoId[c] \in Videos
      /\ now \in Nat /\ ttl[c] \in Int /\ Margin \in Nat
      /\ ttl[c] + Margin <= AssumedLifetime(result[c])
  BY <1>1, CacheAssumption DEF IInv, TypeOK, ClaimOK
<1>3. /\ kept \in StreamResults /\ kept # NoResult /\ kept.cachedAt = now
      /\ kept.deadline = result[c].deadline /\ kept.mintedAt = result[c].mintedAt
      /\ kept.announced = result[c].announced
  BY <1>2 DEF StreamResults, NoResult
<1>4. /\ entry \in Entries /\ entry.value = kept /\ entry.expiresAt = now + ttl[c]
      /\ entry.key = videoId[c]
  BY <1>2, <1>3 DEF Entries
<1>5. EntryOK(entry) /\ entry.value.cachedAt = now
  <2>1. /\ result[c].deadline \in Nat /\ result[c].mintedAt \in Nat
        /\ AssumedLifetime(result[c]) \in Int
    BY <1>2, CacheAssumption DEF StreamResults, AssumedLifetime
  <2> HIDE DEF kept, entry
  <2>2. AssumedLifetime(kept) = AssumedLifetime(result[c])
    BY <1>3 DEF AssumedLifetime
  <2> QED BY <1>2, <1>3, <1>4, <2>1, <2>2 DEF EntryOK, Lag, Overrun
<1> HIDE DEF entry, kept
<1>6. /\ map' \in Seq(Entries) /\ Bounded'
      /\ \A i \in DOMAIN map' : map'[i] = entry \/ \E j \in DOMAIN map : map'[i] = map[j]
  BY <1>1, <1>4, InsertedFacts DEF IInv, Bounded
<1>7. TypeOK'
  <2>1. result' \in [Callers -> StreamResults \cup {NoResult}] /\ result'[c] # NoResult
    BY <1>1, <1>3 DEF IInv, TypeOK
  <2>2. \A d \in Callers : d # c => result'[d] = result[d] /\ pc'[d] = pc[d]
    BY <1>1 DEF IInv, TypeOK
  <2>3. pc' \in [Callers -> Phases] /\ pc'[c] = "done"
    BY <1>1 DEF IInv, TypeOK, Phases
  <2>4. usedSince' \in [Videos -> SUBSET Videos]
    BY <1>2, UseType DEF IInv, Put
  <2> QED BY <1>1, <1>6, <2>1, <2>2, <2>3, <2>4 DEF IInv, TypeOK
<1>8. ClaimOK(c)' /\ RivalOK(c)'
  BY <1>1 DEF IInv, TypeOK, ClaimOK, RivalOK, Resolving
<1>9. \A i \in DOMAIN map' :
        (\E j \in DOMAIN map : map'[i] = map[j])
        \/ (EntryOK(map'[i]) /\ map'[i].value.cachedAt = now)
  BY <1>5, <1>6
<1>10. \A d \in Callers \ {c} : pc'[d] = pc[d] /\ result'[d] = result[d]
  BY <1>1 DEF IInv, TypeOK
<1> QED BY <1>1, <1>6, <1>7, <1>8, <1>9, <1>10, MapStep

-----------------------------------------------------------------------------

LEMMA NextIInv == IInv /\ [Next]_vars => IInv'
<1> SUFFICES ASSUME IInv, [Next]_vars PROVE IInv'
  OBVIOUS
<1>1. ASSUME NEW c \in Callers, Step(c) PROVE IInv'
  BY <1>1, CallKeeps, MissKeeps, ExpiredKeeps, HitKeeps, AnsweredKeeps, StampKeeps,
     EndKeeps, TtlKeeps, PutKeeps DEF Step
<1>2. CASE Tick
  BY <1>2, TickKeeps
<1>3. CASE UNCHANGED vars
  BY <1>3 DEF vars, IInv, TypeOK, Bounded, ClaimOK, EntryOK, RivalOK
<1> QED BY <1>1, <1>2, <1>3 DEF Next

LEMMA SpecIInv == Spec => []IInv
BY InitIInv, NextIInv, PTL DEF Spec

(* Every variable has its type in every reachable state.                   *)
THEOREM TypeCorrect == Spec => []TypeOK
<1>1. IInv => TypeOK
  BY DEF IInv
<1> QED BY <1>1, SpecIInv, PTL

(* The cache never outgrows its capacity and never holds a video twice.    *)
THEOREM CacheBounded == Spec => []Bounded
<1>1. IInv => Bounded
  BY DEF IInv
<1> QED BY <1>1, SpecIInv, PTL

(* A hit is past the deadline by no more than the extraction's lag, and    *)
(* the excess of a lifetime the server did not announce, exceed the margin.*)
THEOREM HitsAreFresh == Spec => HitNotStale
<1> DEFINE A == \A c \in Callers : pc[c] = "lookup" /\ pc'[c] = "hit" =>
        now + Margin <= result'[c].deadline + Lag(result'[c]) + Overrun(result'[c])
<1>1. IInv /\ [Next]_vars => [A]_vars
  <2> SUFFICES ASSUME IInv, Next, NEW c \in Callers, pc[c] = "lookup", pc'[c] = "hit"
               PROVE  now + Margin <= result'[c].deadline + Lag(result'[c]) + Overrun(result'[c])
    OBVIOUS
  <2>1. LookupHit(c)
    <3>1. PICK d \in Callers : Step(d)
      BY DEF Next, Tick
    <3>2. pc \in [Callers -> Phases]
      BY DEF IInv, TypeOK
    <3>3. d = c
      <4>1. \E to : pc' = [pc EXCEPT ![d] = to]
        BY <3>1 DEF Step, Goto, Call, LookupMiss, LookupExpired, LookupHit, Answered,
                    Stamp, Fail, ComputeTtl, Put, Return
      <4> QED BY <3>2, <4>1
    <3>4. /\ \A v \in Videos : ~Call(c, v)
          /\ ~LookupMiss(c) /\ ~LookupExpired(c) /\ ~Answered(c) /\ ~Stamp(c)
          /\ ~Fail(c) /\ ~ComputeTtl(c) /\ ~Put(c) /\ ~Return(c)
      BY <3>2 DEF Goto, Call, LookupMiss, LookupExpired, Answered, Stamp, Fail,
                  ComputeTtl, Put, Return
    <3> QED BY <3>1, <3>3, <3>4 DEF Step
  <2>2. PICK p \in DOMAIN map :
          now <= map[p].expiresAt /\ result' = [result EXCEPT ![c] = map[p].value]
    BY <2>1 DEF LookupHit, Places
  <2>3. map[p] \in Entries /\ EntryOK(map[p]) /\ result'[c] = map[p].value
    BY <2>2 DEF IInv, TypeOK
  <2>4. now \in Int /\ Margin \in Int
    BY CacheAssumption DEF IInv, TypeOK
  <2>5. LET v == map[p].value
        IN  v.deadline \in Int /\ Lag(v) \in Int /\ Overrun(v) \in Int /\ map[p].expiresAt \in Int
    BY <2>3, CacheAssumption DEF Entries, StreamResults, Lag, Overrun, AssumedLifetime
  <2> QED BY <2>2, <2>3, <2>4, <2>5 DEF EntryOK
<1>2. Spec => [][Next]_vars
  BY DEF Spec
<1>3. [][A]_vars => HitNotStale
  BY DEF HitNotStale
<1> HIDE DEF A
<1> QED BY <1>1, <1>2, <1>3, SpecIInv, PTL

(* A put never replaces an entry that its own call could have used.        *)
THEOREM PutsReplaceRivals == Spec => OverwritesOnlyRivals
<1> DEFINE A == \A c \in Callers : pc[c] = "put" /\ pc'[c] = "done" =>
        \A i \in Places(map, videoId[c]) : map[i].value.cachedAt >= missedAt[c]
<1>1. IInv => A
  BY DEF IInv, RivalOK, Resolving, Places
<1>2. [][A]_vars => OverwritesOnlyRivals
  BY DEF OverwritesOnlyRivals
<1> HIDE DEF A
<1>3. Spec => [][A]_vars
  BY <1>1, SpecIInv, PTL
<1> QED BY <1>2, <1>3

-----------------------------------------------------------------------------

(* Why the eldest entry is the least recently used one: every video that   *)
(* stands behind an entry was used since that entry was.                   *)
Aged ==
    /\ \A v \in Videos : IsFiniteSet(usedSince[v])
    /\ \A i, j \in DOMAIN map : i < j => map[j].key \in usedSince[map[i].key]

(* The map after a step, when no video was used.                           *)
LEMMA OrderKept ==
    ASSUME TypeOK, Aged, UNCHANGED usedSince,
           \A i, j \in DOMAIN map' : i < j => InOrder(map, map'[i], map'[j])
    PROVE  Aged'
<1> SUFFICES ASSUME NEW i \in DOMAIN map', NEW j \in DOMAIN map', i < j
             PROVE  map'[j].key \in usedSince[map'[i].key]
  BY DEF Aged
<1>1. PICK p, q \in DOMAIN map : p < q /\ map[p] = map'[i] /\ map[q] = map'[j]
  BY DEF InOrder
<1> QED BY <1>1 DEF Aged

(* Using v starts its history anew and adds v to every other history.      *)
LEMMA UseFacts ==
    ASSUME TypeOK, Aged, NEW v \in Videos, Use(v)
    PROVE  /\ \A u \in Videos : IsFiniteSet(usedSince'[u])
           /\ \A u \in Videos \ {v} : usedSince[u] \cup {v} \subseteq usedSince'[u]
<1> SUFFICES ASSUME NEW u \in Videos
             PROVE  /\ IsFiniteSet(usedSince'[u])
                    /\ u # v => usedSince[u] \cup {v} \subseteq usedSince'[u]
  OBVIOUS
<1>1. IsFiniteSet(usedSince[u])
  BY DEF Aged
<1>2. usedSince'[u] = IF u = v THEN {} ELSE usedSince[u] \cup {v}
  BY DEF Use
<1>3. IsFiniteSet({}) /\ IsFiniteSet(usedSince[u] \cup {v})
  BY <1>1, FS_EmptySet, FS_AddElement
<1> QED BY <1>2, <1>3

(* The map with e used, before any eviction: still in order of use.        *)
LEMMA YoungestIsAged ==
    ASSUME TypeOK, Bounded, Aged, NEW e \in Entries, Use(e.key)
    PROVE  \A i, j \in DOMAIN Youngest(map, e) :
                i < j => Youngest(map, e)[j].key \in usedSince'[Youngest(map, e)[i].key]
<1> DEFINE y == Youngest(map, e)
<1>1. map \in Seq(Entries) /\ DistinctKeys(map) /\ e.key \in Videos
  BY DEF TypeOK, Bounded, Entries
<1>2. y \in Seq(Entries)
  BY <1>1, YoungestFacts
<1>3. \A i, j \in DOMAIN y :
        i < j => /\ y[i].key # e.key
                 /\ y[j] = e \/ (y[j].key # e.key /\ InOrder(map, y[i], y[j]))
  BY <1>1, YoungestKeeps
<1>4. \A u \in Videos \ {e.key} : usedSince[u] \cup {e.key} \subseteq usedSince'[u]
  BY <1>1, UseFacts
<1> HIDE DEF y
<1>5. ASSUME NEW i \in DOMAIN y, NEW j \in DOMAIN y, i < j PROVE y[j].key \in usedSince'[y[i].key]
  <2>1. y[i] \in Entries
    BY <1>2
  <2>2. y[i].key \in Videos \ {e.key}
    BY <1>3, <1>5, <2>1 DEF Entries
  <2>3. CASE y[j] = e
    BY <1>4, <2>2, <2>3
  <2>4. CASE InOrder(map, y[i], y[j])
    <3>1. y[j].key \in usedSince[y[i].key]
      BY <2>4 DEF InOrder, Aged
    <3> QED BY <1>4, <2>2, <3>1
  <2> QED BY <1>3, <1>5, <2>3, <2>4
<1> QED BY <1>5 DEF y

LEMMA InitAged == Init => Aged
<1>1. ASSUME Init PROVE \A v \in Videos : IsFiniteSet(usedSince[v])
  BY <1>1, FS_EmptySet DEF Init
<1> QED BY <1>1 DEF Init, Aged

LEMMA NextAged == IInv /\ Aged /\ [Next]_vars => Aged'
<1> SUFFICES ASSUME IInv, Aged, [Next]_vars PROVE Aged'
  OBVIOUS
<1>1. TypeOK /\ Bounded /\ map \in Seq(Entries) /\ DistinctKeys(map)
  BY DEF IInv, TypeOK, Bounded
<1>2. CASE UNCHANGED <<map, usedSince>>
  BY <1>2 DEF Aged
<1>3. ASSUME NEW c \in Callers, LookupExpired(c) PROVE Aged'
  <2>1. map' = Without(map, videoId[c]) /\ UNCHANGED usedSince
    BY <1>3 DEF LookupExpired, Places
  <2>2. \A i, j \in DOMAIN map' : i < j => InOrder(map, map'[i], map'[j])
    BY <1>1, <2>1, WithoutKeeps
  <2> QED BY <1>1, <2>1, <2>2, OrderKept
<1>4. ASSUME NEW c \in Callers, LookupHit(c) PROVE Aged'
  <2>1. PICK p \in DOMAIN map :
          map[p].key = videoId[c] /\ map' = Youngest(map, map[p]) /\ Use(map[p].key)
    BY <1>4 DEF LookupHit, Places
  <2>2. map[p] \in Entries
    BY <1>1
  <2>3. map[p].key \in Videos
    BY <2>2 DEF Entries
  <2>4. \A i, j \in DOMAIN map' : i < j => map'[j].key \in usedSince'[map'[i].key]
    BY <1>1, <2>1, <2>2, YoungestIsAged
  <2>5. \A v \in Videos : IsFiniteSet(usedSince'[v])
    BY <1>1, <2>1, <2>3, UseFacts
  <2> QED BY <2>4, <2>5 DEF Aged
<1>5. ASSUME NEW c \in Callers, Put(c) PROVE Aged'
  <2>1. PICK e \in Entries : map' = Inserted(e) /\ Use(e.key)
    BY <1>5, PutEntry DEF IInv
  <2> DEFINE y == Youngest(map, e)
  <2>2. e.key \in Videos /\ \A v \in Videos : IsFiniteSet(usedSince'[v])
    BY <1>1, <2>1, UseFacts DEF Entries
  <2>3. \A i, j \in DOMAIN y : i < j => y[j].key \in usedSince'[y[i].key]
    BY <1>1, <2>1, YoungestIsAged
  <2>4. y \in Seq(Entries) /\ y # << >>
    <3>1. y \in Seq(Entries) /\ y[Len(y)] = e
          /\ Len(y) = IF Holds(map, e.key) THEN Len(map) ELSE Len(map) + 1
      BY <1>1, YoungestFacts
    <3>2. Holds(map, e.key) => Len(map) > 0
      BY <1>1 DEF Holds, Places
    <3>3. Len(map) \in Nat
      BY <1>1
    <3> HIDE DEF y
    <3> QED BY <3>1, <3>2, <3>3
  <2>5. map' = y \/ map' = Tail(y)
    BY <2>1 DEF Inserted
  <2> HIDE DEF y
  <2>6. CASE map' = y
    BY <2>2, <2>3, <2>6 DEF Aged
  <2>7. CASE map' = Tail(y)
    <3>1. \A i, j \in DOMAIN map' : i < j => InOrder(y, map'[i], map'[j])
      BY <2>4, <2>7, TailKeeps
    <3> QED BY <2>2, <2>3, <3>1 DEF Aged, InOrder
  <2> QED BY <2>5, <2>6, <2>7
<1>6. ASSUME NEW c \in Callers, Step(c) PROVE Aged'
  BY <1>2, <1>3, <1>4, <1>5, <1>6 DEF Step, Call, LookupMiss, Answered, Stamp, Fail, ComputeTtl, Return
<1> QED BY <1>2, <1>6 DEF Next, Tick, vars

LEMMA SpecAged == Spec => [](IInv /\ Aged)
<1>1. Init => IInv /\ Aged
  BY InitIInv, InitAged
<1>2. IInv /\ Aged /\ [Next]_vars => (IInv /\ Aged)'
  BY NextIInv, NextAged
<1> QED BY <1>1, <1>2, PTL DEF Spec

(* Only an expired entry, or one that a put of another video evicts, goes. *)
LEMMA LossIsEviction ==
    ASSUME IInv, [Next]_vars, NEW i \in DOMAIN map, now <= map[i].expiresAt,
           \A j \in DOMAIN map' : map'[j].key # map[i].key
    PROVE  \E e \in Entries :
            /\ Use(e.key)
            /\ Len(Youngest(map, e)) > MaxSize
            /\ Youngest(map, e)[1].key = map[i].key
<1>1. map \in Seq(Entries) /\ DistinctKeys(map) /\ MaxSize \in Nat /\ Len(map) <= MaxSize
  BY CacheAssumption DEF IInv, TypeOK, Bounded
<1>2. map' # map
  OBVIOUS
<1>3. ASSUME NEW c \in Callers, LookupExpired(c) PROVE FALSE
  <2>1. PICK p \in DOMAIN map : now > map[p].expiresAt /\ map' = Without(map, map[p].key)
    BY <1>3 DEF LookupExpired, Places
  <2>2. map[i].key = map[p].key
    BY <1>1, <2>1, WithoutKeeps
  <2>3. i = p
    BY <1>1, <2>2 DEF DistinctKeys
  <2>4. map[i] \in Entries /\ now \in Int
    BY <1>1, CacheAssumption DEF IInv, TypeOK
  <2> QED BY <2>1, <2>3, <2>4 DEF Entries
<1>4. ASSUME NEW e \in Entries,
             \A j \in DOMAIN Youngest(map, e) : Youngest(map, e)[j].key # map[i].key
      PROVE  FALSE
  <2> DEFINE y == Youngest(map, e)
  <2>1. y \in Seq(Entries) /\ y[Len(y)] = e
        /\ Len(y) = IF Holds(map, e.key) THEN Len(map) ELSE Len(map) + 1
    BY <1>1, YoungestFacts
  <2>2. map[i].key # e.key => \E j \in DOMAIN y : y[j] = map[i]
    BY <1>1, YoungestKeeps
  <2>3. Len(map) \in Nat /\ Len(map) > 0
    BY <1>1
  <2>4. \A j \in DOMAIN y : y[j].key # map[i].key
    BY <1>4
  <2> HIDE DEF y
  <2>5. Len(y) \in DOMAIN y
    BY <2>1, <2>3
  <2> QED BY <2>1, <2>2, <2>4, <2>5
<1>5. ASSUME NEW c \in Callers, LookupHit(c) PROVE FALSE
  <2>1. PICK p \in DOMAIN map : map' = Youngest(map, map[p])
    BY <1>5 DEF LookupHit, Places
  <2>2. map[p] \in Entries
    BY <1>1
  <2> QED BY <1>4, <2>1, <2>2
<1>6. PICK c \in Callers : Put(c)
  BY <1>2, <1>3, <1>5 DEF Next, Step, Tick, vars, Call, LookupMiss, Answered, Stamp, Fail,
     ComputeTtl, Return
<1>7. PICK e \in Entries : map' = Inserted(e) /\ Use(e.key)
  BY <1>6, PutEntry
<1> DEFINE y == Youngest(map, e)
<1>8. PICK j \in DOMAIN y : y[j].key = map[i].key
  BY <1>4
<1>9. y \in Seq(Entries) /\ y # << >>
  <2>1. y \in Seq(Entries)
    BY <1>1, YoungestFacts
  <2> HIDE DEF y
  <2> QED BY <1>8, <2>1
<1>10. map' = IF Len(y) > MaxSize THEN Tail(y) ELSE y
  BY <1>7 DEF Inserted
<1> HIDE DEF y
<1>11. map' # y
  BY <1>8
<1>12. j = 1
  BY <1>8, <1>9, <1>10, <1>11, TailKeeps
<1>13. Len(y) > MaxSize /\ y[1].key = map[i].key
  BY <1>8, <1>10, <1>11, <1>12
<1> QED BY <1>7, <1>13 DEF y

(* The entries behind the eldest are of as many videos, all used since.    *)
LEMMA ManyUsed ==
    ASSUME IInv, Aged, NEW e \in Entries, Use(e.key), Len(Youngest(map, e)) > MaxSize
    PROVE  Cardinality(usedSince'[Youngest(map, e)[1].key]) >= MaxSize
<1> DEFINE y == Youngest(map, e)
           since == usedSince'[y[1].key]
           others == 2 .. Len(y)
           f == [j \in others |-> y[j].key]
<1>1. TypeOK /\ Bounded /\ MaxSize \in Nat /\ map \in Seq(Entries) /\ DistinctKeys(map)
  BY CacheAssumption DEF IInv, TypeOK, Bounded
<1>2. y \in Seq(Entries) /\ DistinctKeys(y)
  BY <1>1, YoungestFacts
<1>3. \A i, j \in DOMAIN y : i < j => y[j].key \in usedSince'[y[i].key]
  BY <1>1, YoungestIsAged
<1>4. Len(y) > MaxSize
  OBVIOUS
<1> HIDE DEF y
<1>5. Len(y) \in Nat /\ 1 \in DOMAIN y /\ others \subseteq DOMAIN y
  BY <1>1, <1>2, <1>4
<1>6. e.key \in Videos /\ y[1].key \in Videos
  <2>1. y[1] \in Entries
    BY <1>2, <1>5
  <2> QED BY <2>1 DEF Entries
<1>7. IsFiniteSet(since)
  BY <1>1, <1>6, UseFacts
<1>8. f \in Injection(others, since)
  <2>1. f \in [others -> since]
    BY <1>3, <1>5
  <2>2. \A a, b \in others : f[a] = f[b] => a = b
    BY <1>2, <1>5 DEF DistinctKeys
  <2> HIDE DEF f, since, others
  <2> QED BY <2>1, <2>2 DEF Injection, IsInjective
<1>9. IsFiniteSet(others) /\ Cardinality(others) = Len(y) - 1
  <2>1. Len(y) \in Int /\ Len(y) >= 1
    BY <1>1, <1>4, <1>5
  <2>2. /\ IsFiniteSet(2 .. Len(y))
        /\ Cardinality(2 .. Len(y)) = IF 2 > Len(y) THEN 0 ELSE Len(y) - 2 + 1
    <3>1. 2 \in Int
      OBVIOUS
    <3> QED BY <2>1, <3>1, FS_Interval, Zenon
  <2> QED BY <2>1, <2>2
<1> HIDE DEF f, since, others
<1>10. Cardinality(others) <= Cardinality(since)
  BY <1>7, <1>8, <1>9, FS_Injection
<1>11. Cardinality(since) \in Nat
  BY <1>7, FS_CardinalityType
<1>12. Cardinality(since) >= MaxSize
  BY <1>1, <1>4, <1>5, <1>9, <1>10, <1>11
<1> QED BY <1>12 DEF since, y

(* A live entry is evicted only when at least MaxSize other videos were    *)
(* hit or put since it was.                                                *)
THEOREM EvictsLeastRecent == Spec => LruEviction
<1> DEFINE A == \A i \in DOMAIN map :
        LET v == map[i].key
        IN  (now <= map[i].expiresAt /\ \A j \in DOMAIN map' : map'[j].key # v)
            => Cardinality(usedSince'[v]) >= MaxSize
<1>1. IInv /\ Aged /\ [Next]_vars => [A]_vars
  BY LossIsEviction, ManyUsed
<1>2. [][A]_vars => LruEviction
  BY DEF LruEviction
<1>3. Spec => [][Next]_vars
  BY DEF Spec
<1> HIDE DEF A
<1> QED BY <1>1, <1>2, <1>3, SpecAged, PTL
=============================================================================

--------------------------- MODULE ExtractionCache ---------------------------
(***************************************************************************)
(* ExtractionCache over MemoryCache, driven by concurrent calls of         *)
(* YouTubeExtractor.extract: look the video up, and on a miss resolve it,  *)
(* stamp the result with its expiry and put it into the cache.             *)
(*                                                                         *)
(* MemoryCache.get and put are @Synchronized and are one step each. What   *)
(* lies between them is not locked, and the clock is read four times: when *)
(* the expiry is stamped, when the time to live is computed, when the      *)
(* entry is put and when it is looked up. Time may pass between any two.   *)
(***************************************************************************)
EXTENDS Integers, Sequences, FiniteSets, LinkedHashMaps

CONSTANTS
    Callers,    \* coroutines that call extract on one YTDLPDroid
    Videos,     \* video ids, the keys of the cache
    MaxSize,    \* memoryCacheCapacity
    Margin,     \* the safety margin of ExtractionCache.put (5 minutes)
    Answers,    \* how long the URLs of an answer are good for, and whether it says so
    DefaultLifetime, \* taken for it when expiresInSeconds says nothing (6 hours)
    MaxTime     \* bound: the clock stops here

ASSUME CacheAssumption ==
    /\ MaxSize \in Nat /\ Margin \in Nat /\ MaxTime \in Nat
    /\ Answers \subseteq [life : Nat, announced : BOOLEAN] /\ DefaultLifetime \in Nat

VARIABLES
    now,        \* System.currentTimeMillis()
    map,        \* the access-ordered LinkedHashMap, eldest entry first
    pc,         \* where each caller is in extract
    videoId,    \* the argument of its call
    result,     \* the StreamResult it holds
    ttl,        \* the local ttlMs of ExtractionCache.put
    missedAt,   \* history: when its lookup missed
    usedSince   \* history: the videos hit or put since a video last was

vars == <<now, map, pc, videoId, result, ttl, missedAt, usedSince>>

-----------------------------------------------------------------------------

(* A StreamResult: expiresAt is what it claims; mintedAt and deadline are  *)
(* when the server made its URLs and when the CDN stops honouring them,    *)
(* announced whether expiresInSeconds is there and a number; cachedAt is   *)
(* when it was put into the cache (the last four are history).             *)
StreamResults ==
    [video : Videos, expiresAt : Nat, mintedAt : Nat, deadline : Nat,
     announced : BOOLEAN, cachedAt : Nat]

\* expiresInSeconds?.toLongOrNull() ?: 21600L
AssumedLifetime(r) == IF r.announced THEN r.deadline - r.mintedAt ELSE DefaultLifetime

NoResult == [video |-> "none"]
NoVideo == "none"

Entries == [key : Videos, value : StreamResults, expiresAt : Int]

Phases == {"idle", "lookup", "resolve", "stamp", "ttl", "put", "hit", "done"}

Use(v) == usedSince' = [u \in Videos |-> IF u = v THEN {} ELSE usedSince[u] \cup {v}]

-----------------------------------------------------------------------------

Init ==
    /\ now = 0
    /\ map = << >>
    /\ pc = [c \in Callers |-> "idle"]
    /\ videoId = [c \in Callers |-> NoVideo]
    /\ result = [c \in Callers |-> NoResult]
    /\ ttl = [c \in Callers |-> 0]
    /\ missedAt = [c \in Callers |-> 0]
    /\ usedSince = [v \in Videos |-> {}]

Goto(c, from, to) == pc[c] = from /\ pc' = [pc EXCEPT ![c] = to]

Call(c, v) ==
    /\ Goto(c, "idle", "lookup")
    /\ videoId' = [videoId EXCEPT ![c] = v]
    /\ UNCHANGED <<now, map, result, ttl, missedAt, usedSince>>

(* MemoryCache.get, no entry.                                              *)
LookupMiss(c) ==
    /\ Goto(c, "lookup", "resolve")
    /\ ~Holds(map, videoId[c])
    /\ missedAt' = [missedAt EXCEPT ![c] = now]
    /\ UNCHANGED <<now, map, videoId, result, ttl, usedSince>>

\* A bug that LookupExpired could have: the dead entry is left in place.
LookupExpiredKeeps(c) ==
    /\ Goto(c, "lookup", "resolve")
    /\ \E i \in Places(map, videoId[c]) : now > map[i].expiresAt
    /\ missedAt' = [missedAt EXCEPT ![c] = now]
    /\ UNCHANGED <<now, map, videoId, result, ttl, usedSince>>

\* A bug that LookupExpired could have: it does not return after the removal.
LookupExpiredFallsThrough(c) ==
    /\ Goto(c, "lookup", "hit")
    /\ \E i \in Places(map, videoId[c]) :
        /\ now > map[i].expiresAt
        /\ map' = Without(map, map[i].key)
    /\ missedAt' = [missedAt EXCEPT ![c] = now]
    /\ UNCHANGED <<now, videoId, result, ttl, usedSince>>

(* MemoryCache.get, the entry is dead: it is removed and null returned.    *)
LookupExpired(c) ==
    /\ Goto(c, "lookup", "resolve")
    /\ \E i \in Places(map, videoId[c]) :
        /\ now > map[i].expiresAt
        /\ map' = Without(map, map[i].key)
    /\ missedAt' = [missedAt EXCEPT ![c] = now]
    /\ UNCHANGED <<now, videoId, result, ttl, usedSince>>

\* A bug that LookupHit could have: the map is ordered by insertion.
LookupHitKeepsPlace(c) ==
    /\ Goto(c, "lookup", "hit")
    /\ \E i \in Places(map, videoId[c]) :
        /\ now <= map[i].expiresAt
        /\ result' = [result EXCEPT ![c] = map[i].value]
    /\ Use(videoId[c])
    /\ UNCHANGED <<now, map, videoId, ttl, missedAt>>

(* MemoryCache.get, the entry is live: it becomes the youngest of the map. *)
LookupHit(c) ==
    /\ Goto(c, "lookup", "hit")
    /\ \E i \in Places(map, videoId[c]) :
        /\ now <= map[i].expiresAt
        /\ map' = Youngest(map, map[i])
        /\ result' = [result EXCEPT ![c] = map[i].value]
    /\ Use(videoId[c])
    /\ UNCHANGED <<now, videoId, ttl, missedAt>>

(* A client of the chain answers: the server has minted the URLs, good for *)
(* a lifetime that the answer announces or leaves out.                     *)
Answered(c) ==
    /\ Goto(c, "resolve", "stamp")
    /\ \E a \in Answers :
        result' = [result EXCEPT ![c] =
            [video |-> videoId[c], expiresAt |-> 0, mintedAt |-> now, deadline |-> now + a.life,
             announced |-> a.announced, cachedAt |-> 0]]
    /\ UNCHANGED <<now, map, videoId, ttl, missedAt, usedSince>>

(* The formats are resolved and the result is built with                   *)
(* expiresAt = currentTimeMillis() + expiresInSeconds * 1000.              *)
Stamp(c) ==
    /\ Goto(c, "stamp", "ttl")
    /\ result' = [result EXCEPT ![c].expiresAt = now + AssumedLifetime(result[c])]
    /\ UNCHANGED <<now, map, videoId, ttl, missedAt, usedSince>>

(* The call fails before it has a result; nothing is cached.               *)
Fail(c) ==
    /\ pc[c] \in {"resolve", "stamp"}
    /\ pc' = [pc EXCEPT ![c] = "idle"]
    /\ result' = [result EXCEPT ![c] = NoResult]
    /\ ttl' = [ttl EXCEPT ![c] = 0]
    /\ missedAt' = [missedAt EXCEPT ![c] = 0]
    /\ videoId' = [videoId EXCEPT ![c] = NoVideo]
    /\ UNCHANGED <<now, map, usedSince>>

\* A bug that ComputeTtl could have: the safety margin is left out.
ComputeTtlNoMargin(c) ==
    LET t == result[c].expiresAt - now
    IN  /\ Goto(c, "ttl", IF t > 0 THEN "put" ELSE "done")
        /\ ttl' = [ttl EXCEPT ![c] = t]
        /\ UNCHANGED <<now, map, videoId, result, missedAt, usedSince>>

(* ExtractionCache.put up to its test of ttlMs.                            *)
ComputeTtl(c) ==
    LET t == result[c].expiresAt - now - Margin
    IN  /\ Goto(c, "ttl", IF t > 0 THEN "put" ELSE "done")
        /\ ttl' = [ttl EXCEPT ![c] = t]
        /\ UNCHANGED <<now, map, videoId, result, missedAt, usedSince>>

\* A bug that Inserted could have: the comparison is off by one.
InsertedLoose(entry) ==
    LET all == Youngest(map, entry)
    IN  IF Len(all) > MaxSize + 1 THEN Tail(all) ELSE all

(* map[key] = entry on an access-ordered map: the key becomes the youngest *)
(* and removeEldestEntry drops the eldest entry when size > maxSize.       *)
Inserted(entry) ==
    LET all == Youngest(map, entry)
    IN  IF Len(all) > MaxSize THEN Tail(all) ELSE all

(* MemoryCache.put.                                                        *)
Put(c) ==
    LET kept == [result[c] EXCEPT !.cachedAt = now]
    IN  /\ Goto(c, "put", "done")
        /\ map' = Inserted([key |-> videoId[c], value |-> kept,
                            expiresAt |-> now + ttl[c]])
        /\ result' = [result EXCEPT ![c] = kept]
        /\ Use(videoId[c])
        /\ UNCHANGED <<now, videoId, ttl, missedAt>>

(* extract returns the result.                                             *)
Return(c) ==
    /\ pc[c] \in {"hit", "done"}
    /\ pc' = [pc EXCEPT ![c] = "idle"]
    /\ result' = [result EXCEPT ![c] = NoResult]
    /\ ttl' = [ttl EXCEPT ![c] = 0]
    /\ missedAt' = [missedAt EXCEPT ![c] = 0]
    /\ videoId' = [videoId EXCEPT ![c] = NoVideo]
    /\ UNCHANGED <<now, map, usedSince>>

Tick ==
    /\ now < MaxTime
    /\ now' = now + 1
    /\ UNCHANGED <<map, pc, videoId, result, ttl, missedAt, usedSince>>

Step(c) ==
    \/ \E v \in Videos : Call(c, v)
    \/ LookupMiss(c)
    \/ LookupExpired(c)
    \/ LookupHit(c)
    \/ Answered(c)
    \/ Stamp(c)
    \/ Fail(c)
    \/ ComputeTtl(c)
    \/ Put(c)
    \/ Return(c)

Next == (\E c \in Callers : Step(c)) \/ Tick

Spec == Init /\ [][Next]_vars

-----------------------------------------------------------------------------

Resolving == {"resolve", "stamp", "ttl", "put"}

TypeOK ==
    /\ now \in 0 .. MaxTime
    /\ map \in Seq(Entries)
    /\ pc \in [Callers -> Phases]
    /\ videoId \in [Callers -> Videos \cup {NoVideo}]
    /\ \A c \in Callers : pc[c] # "idle" => videoId[c] \in Videos
    /\ result \in [Callers -> StreamResults \cup {NoResult}]
    /\ \A c \in Callers : pc[c] \in {"stamp", "ttl", "put", "hit", "done"} => result[c] # NoResult
    /\ ttl \in [Callers -> Int]
    /\ missedAt \in [Callers -> 0 .. MaxTime]
    /\ usedSince \in [Videos -> SUBSET Videos]

(***************************************************************************)
(* The cache holds one entry a video and never more than the capacity the  *)
(* builder was given (README.md:104 "max cached stream results"), whatever *)
(* puts and lookups run into each other.                                   *)
(***************************************************************************)
Bounded ==
    Len(map) <= MaxSize /\ DistinctKeys(map)

(***************************************************************************)
(* How stale a hit can be. ExtractionCache.kt:12 subtracts a margin from   *)
(* an expiry that YouTubeExtractor.kt:88 stamps long after the server      *)
(* minted the URLs, from a lifetime that line 81 makes up when the server  *)
(* announces none. A result served from the cache outlives the CDN's       *)
(* deadline by no more than the time from the answer to the put, and what  *)
(* the made-up lifetime adds to the real one, exceed the margin; so with a *)
(* lifetime announced, a call that took less than the margin is never      *)
(* served dead.                                                            *)
(***************************************************************************)
Lag(r) == r.cachedAt - r.mintedAt
Overrun(r) == AssumedLifetime(r) - (r.deadline - r.mintedAt)

HitNotStale ==
    [][\A c \in Callers : pc[c] = "lookup" /\ pc'[c] = "hit" =>
        now + Margin <= result'[c].deadline + Lag(result'[c]) + Overrun(result'[c])]_vars

(***************************************************************************)
(* A put replaces only what another call cached since this one's own       *)
(* lookup (two calls that resolve the same video at the same time): no     *)
(* call replaces an entry it could have been served from.                  *)
(***************************************************************************)
OverwritesOnlyRivals ==
    [][\A c \in Callers : pc[c] = "put" /\ pc'[c] = "done" =>
        \A i \in Places(map, videoId[c]) : map[i].value.cachedAt >= missedAt[c]]_vars

(***************************************************************************)
(* Least recently used: a live entry leaves the cache only when at least   *)
(* MaxSize other videos were hit or put since it was (MemoryCache.kt:7,    *)
(* access order and removeEldestEntry).                                    *)
(***************************************************************************)
LruEviction ==
    [][\A i \in DOMAIN map :
        LET v == map[i].key
        IN  (now <= map[i].expiresAt /\ \A j \in DOMAIN map' : map'[j].key # v)
            => Cardinality(usedSince'[v]) >= MaxSize]_vars
=============================================================================

---------------------------- MODULE PlayerJsCache ----------------------------
(***************************************************************************)
(* PlayerJsRepository.fetchPlayerJs over DiskCache: threads of the IO      *)
(* dispatcher read the player script of a URL through an unsynchronised    *)
(* access-ordered LinkedHashMap and a directory of files.                  *)
(*                                                                         *)
(* A script is Chunks pieces long. A file is written piece by piece after  *)
(* it was truncated, and read piece by piece, because writeText and        *)
(* readText are loops over a buffer. Its name is the hash of the URL; two  *)
(* URLs are taken to have different hashes, so a file is known by its URL. *)
(***************************************************************************)
EXTENDS Naturals, Sequences, SequencesExt, LinkedHashMaps

CONSTANTS
    Threads,    \* coroutines that run fetchPlayerJs on Dispatchers.IO
    Urls,       \* player script URLs
    Chunks,     \* pieces a script is written and read in
    MemLimit,   \* entries from which the network path evicts one (3)
    MaxFaults   \* bound: crashes and failed writes

ASSUME PlayerJsAssumption ==
    Chunks \in Nat \ {0} /\ MemLimit \in Nat \ {0} /\ MaxFaults \in Nat

VARIABLES
    mem,        \* memCache, eldest entry first
    iterating,  \* threads whose iterator over memCache is still valid
    file,       \* the content of every file, << >> if there is none
    pc, url, text, next,    \* per thread: place, argument, text, next piece
    faults,     \* crashes and failed writes so far
    damaged,    \* history: files whose writer failed since they were opened
    faulted,    \* history: URLs whose file a writer ever failed to finish
    served,     \* history: URLs for which a fetch has returned
    raced       \* history: URLs read while another thread wrote their file

memVars == <<mem, iterating>>
faultVars == <<faults, damaged, faulted>>
history == <<faultVars, served, raced>>
vars == <<mem, iterating, file, pc, url, text, next, history>>

-----------------------------------------------------------------------------

\* A piece of the script, and what a file holds where no one has written.
Piece == "piece"
Hole == "hole"

Texts == {x \in Seq({Piece, Hole}) : Len(x) <= Chunks}
Whole == [i \in 1 .. Chunks |-> Piece]

NoUrl == "no url"

Phases == {"idle", "memGet", "diskCheck", "read", "fill", "net", "open", "write",
           "evict", "evictRemove", "memPut", "done"}

\* Threads about to touch the unsynchronised map.
MemPhases == {"memGet", "fill", "evict", "evictRemove", "memPut"}

Writing(t, u) == pc[t] = "write" /\ url[t] = u
BeingWritten == {u \in Urls : \E t \in Threads : Writing(t, u)}

-----------------------------------------------------------------------------

Init ==
    /\ mem = << >> /\ iterating = {}
    /\ file = [u \in Urls |-> << >>]
    /\ pc = [t \in Threads |-> "idle"] /\ url = [t \in Threads |-> NoUrl]
    /\ text = [t \in Threads |-> << >>] /\ next = [t \in Threads |-> 1]
    /\ faults = 0 /\ damaged = {} /\ faulted = {} /\ served = {} /\ raced = {}

Goto(t, from, to) == pc[t] = from /\ pc' = [pc EXCEPT ![t] = to]

\* The call of t is over; its locals go out of scope.
Leave(t) ==
    /\ pc' = [pc EXCEPT ![t] = "idle"]
    /\ url' = [url EXCEPT ![t] = NoUrl]
    /\ text' = [text EXCEPT ![t] = << >>]
    /\ next' = [next EXCEPT ![t] = 1]

\* Another thread is at the map too: an operation of t may go wrong.
Racing(t) == \E s \in Threads \ {t} : pc[s] \in MemPhases

(* An access makes u the youngest entry, with text x. A LinkedHashMap that *)
(* is reordered or grows invalidates every iterator over it.               *)
Touch(u, x) ==
    /\ mem' = Youngest(mem, [key |-> u, text |-> x])
    /\ iterating' = IF mem # << >> /\ Last(mem).key = u THEN iterating ELSE {}

Return(t, from) ==
    /\ Goto(t, from, "done")
    /\ served' = served \cup {url[t]}

Fetch(t, u) ==
    /\ Goto(t, "idle", "memGet")
    /\ url' = [url EXCEPT ![t] = u]
    /\ UNCHANGED <<memVars, file, text, next, history>>

(* memCache[playerJsUrl], an entry: it is returned.                        *)
MemHit(t) ==
    /\ Return(t, "memGet")
    /\ \E i \in Places(mem, url[t]) :
        /\ Touch(url[t], mem[i].text)
        /\ text' = [text EXCEPT ![t] = mem[i].text]
    /\ UNCHANGED <<file, url, next, faultVars, raced>>

(* No entry, or one that a racing thread's change hides from this lookup.  *)
MemMiss(t) ==
    /\ Goto(t, "memGet", "diskCheck")
    /\ ~Holds(mem, url[t]) \/ Racing(t)
    /\ UNCHANGED <<memVars, file, url, text, next, history>>

(* f.exists() && f.length() > 0                                            *)
DiskHit(t) ==
    /\ Goto(t, "diskCheck", "read")
    /\ file[url[t]] # << >>
    /\ UNCHANGED <<memVars, file, url, text, next, history>>

DiskMiss(t) ==
    /\ Goto(t, "diskCheck", "net")
    /\ file[url[t]] = << >>
    /\ UNCHANGED <<memVars, file, url, text, next, history>>

\* Read(t) either takes the next piece of the file or finds its end.
Raced(t) ==
    IF \E s \in Threads \ {t} : Writing(s, url[t]) THEN raced \cup {url[t]} ELSE raced

ReadPiece(t) ==
    /\ pc[t] = "read"
    /\ Len(text[t]) < Len(file[url[t]])
    /\ text' = [text EXCEPT ![t] = Append(@, file[url[t]][Len(@) + 1])]
    /\ raced' = Raced(t)
    /\ UNCHANGED <<memVars, file, pc, url, next, faultVars, served>>

ReadEnd(t) ==
    /\ Goto(t, "read", "fill")
    /\ Len(text[t]) >= Len(file[url[t]])
    /\ raced' = Raced(t)
    /\ UNCHANGED <<memVars, file, url, text, next, faultVars, served>>

(* Disk hit: memCache[playerJsUrl] = text, and no eviction.                *)
Fill(t) ==
    /\ Return(t, "fill")
    /\ Touch(url[t], text[t])
    /\ UNCHANGED <<file, url, text, next, faultVars, raced>>

\* A bug that Download could have: a body cut short is taken for the script.
DownloadShort(t) ==
    /\ Goto(t, "net", "open")
    /\ text' = [text EXCEPT ![t] = <<Piece>>]
    /\ UNCHANGED <<memVars, file, url, next, history>>

(* fetchText succeeds.                                                     *)
Download(t) ==
    /\ Goto(t, "net", "open")
    /\ text' = [text EXCEPT ![t] = Whole]
    /\ UNCHANGED <<memVars, file, url, next, history>>

(* fetchText throws PlayerJsFetchFailed.                                   *)
DownloadFails(t) ==
    /\ pc[t] = "net"
    /\ Leave(t)
    /\ UNCHANGED <<memVars, file, history>>

(* DiskCache.put: mkdirs, then writeText opens the file and truncates it.  *)
Open(t) ==
    /\ Goto(t, "open", "write")
    /\ file' = [file EXCEPT ![url[t]] = << >>]
    /\ next' = [next EXCEPT ![t] = 1]
    /\ damaged' = damaged \ {url[t]}
    /\ UNCHANGED <<memVars, url, text, faults, faulted, served, raced>>

\* f with a piece at offset i; the pieces before it that f lacks are holes.
Patched(f, i) ==
    [k \in 1 .. (IF i > Len(f) THEN i ELSE Len(f)) |->
        IF k = i THEN Piece ELSE IF k <= Len(f) THEN f[k] ELSE Hole]

\* A bug that Write could have: the last piece is never flushed.
WriteUnflushed(t) ==
    /\ Goto(t, "write", IF next[t] + 1 >= Chunks THEN "evict" ELSE "write")
    /\ next' = [next EXCEPT ![t] = @ + 1]
    /\ file' = [file EXCEPT ![url[t]] = Patched(@, next[t])]
    /\ UNCHANGED <<memVars, url, text, history>>

\* A bug that Write could have: the loop runs once too often.
WriteOverrun(t) ==
    /\ Goto(t, "write", IF next[t] > Chunks THEN "evict" ELSE "write")
    /\ next' = [next EXCEPT ![t] = @ + 1]
    /\ file' = [file EXCEPT ![url[t]] = Patched(@, next[t])]
    /\ UNCHANGED <<memVars, url, text, history>>

(* One piece is written at the writer's own offset; after the last the     *)
(* file is closed.                                                         *)
Write(t) ==
    /\ Goto(t, "write", IF next[t] = Chunks THEN "evict" ELSE "write")
    /\ next' = [next EXCEPT ![t] = @ + 1]
    /\ file' = [file EXCEPT ![url[t]] = Patched(@, next[t])]
    /\ UNCHANGED <<memVars, url, text, history>>

(* writeText throws IOException (no space left): it leaves fetchPlayerJs   *)
(* and the pieces written so far stay in the file.                         *)
WriteFails(t) ==
    /\ pc[t] = "write"
    /\ faults < MaxFaults /\ faults' = faults + 1
    /\ damaged' = damaged \cup {url[t]} /\ faulted' = faulted \cup {url[t]}
    /\ Leave(t)
    /\ UNCHANGED <<memVars, file, served, raced>>

(* memCache.size >= 3: the iterator is created and moved to the eldest.    *)
EvictBegin(t) ==
    /\ Goto(t, "evict", "evictRemove")
    /\ Len(mem) >= MemLimit
    /\ iterating' = iterating \cup {t}
    /\ UNCHANGED <<mem, file, url, text, next, history>>

EvictNothing(t) ==
    /\ Goto(t, "evict", "memPut")
    /\ Len(mem) < MemLimit
    /\ UNCHANGED <<memVars, file, url, text, next, history>>

\* A bug that EvictRemove could have: the script is dropped from disk as well.
EvictRemoveFromDisk(t) ==
    /\ Goto(t, "evictRemove", "memPut")
    /\ t \in iterating
    /\ mem' = Tail(mem)
    /\ iterating' = {}
    /\ file' = [file EXCEPT ![Head(mem).key] = << >>]
    /\ UNCHANGED <<url, text, next, history>>

(* it.remove() on a valid iterator; it invalidates the others.             *)
EvictRemove(t) ==
    /\ Goto(t, "evictRemove", "memPut")
    /\ t \in iterating
    /\ mem' = Tail(mem)
    /\ iterating' = {}
    /\ UNCHANGED <<file, url, text, next, history>>

(* it.remove() throws ConcurrentModificationException.                     *)
EvictThrows(t) ==
    /\ pc[t] = "evictRemove"
    /\ t \notin iterating
    /\ Leave(t)
    /\ UNCHANGED <<memVars, file, history>>

(* memCache[playerJsUrl] = text                                            *)
MemPut(t) ==
    /\ Return(t, "memPut")
    /\ Touch(url[t], text[t])
    /\ UNCHANGED <<file, url, text, next, faultVars, raced>>

(* The same, for either put, when a racing thread's change loses it.       *)
MemPutLost(t) ==
    /\ Return(t, "memPut") \/ Return(t, "fill")
    /\ Racing(t)
    /\ iterating' = {}
    /\ UNCHANGED <<mem, file, url, text, next, faultVars, raced>>

Finish(t) ==
    /\ pc[t] = "done"
    /\ Leave(t)
    /\ UNCHANGED <<memVars, file, history>>

(* The process dies at any point and a new one opens the same directory.   *)
Crash ==
    /\ faults < MaxFaults /\ faults' = faults + 1
    /\ mem' = << >> /\ iterating' = {}
    /\ pc' = [t \in Threads |-> "idle"] /\ url' = [t \in Threads |-> NoUrl]
    /\ text' = [t \in Threads |-> << >>] /\ next' = [t \in Threads |-> 1]
    /\ damaged' = damaged \cup BeingWritten /\ faulted' = faulted \cup BeingWritten
    /\ UNCHANGED <<file, served, raced>>

Step(t) ==
    \/ \E u \in Urls : Fetch(t, u)
    \/ MemHit(t) \/ MemMiss(t)
    \/ DiskHit(t) \/ DiskMiss(t) \/ ReadPiece(t) \/ ReadEnd(t) \/ Fill(t)
    \/ Download(t) \/ DownloadFails(t)
    \/ Open(t) \/ Write(t) \/ WriteFails(t)
    \/ EvictBegin(t) \/ EvictNothing(t) \/ EvictRemove(t) \/ EvictThrows(t)
    \/ MemPut(t) \/ MemPutLost(t) \/ Finish(t)

Next == (\E t \in Threads : Step(t)) \/ Crash

Spec == Init /\ [][Next]_vars

-----------------------------------------------------------------------------

TypeOK ==
    /\ mem \in Seq([key : Urls, text : Texts]) /\ DistinctKeys(mem)
    /\ iterating \subseteq {t \in Threads : pc[t] = "evictRemove"}
    /\ file \in [Urls -> Texts]
    /\ pc \in [Threads -> Phases]
    /\ url \in [Threads -> Urls \cup {NoUrl}]
    /\ \A t \in Threads : pc[t] # "idle" => url[t] \in Urls
    /\ text \in [Threads -> Texts]
    /\ next \in [Threads -> 1 .. Chunks + 1]
    /\ \A t \in Threads : pc[t] = "write" => next[t] <= Chunks
    /\ faults \in 0 .. MaxFaults
    /\ damaged \subseteq Urls /\ faulted \subseteq Urls
    /\ served \subseteq Urls /\ raced \subseteq Urls

(***************************************************************************)
(* What DiskCache.put leaves behind. Threads that download the same script *)
(* truncate each other's file and write over one another; when all of them *)
(* have closed it, and none failed or died in the middle, the file holds   *)
(* the whole script.                                                       *)
(***************************************************************************)
QuiescentFilesComplete ==
    \A u \in Urls :
        (file[u] # << >> /\ u \notin damaged /\ \A t \in Threads : ~Writing(t, u))
        => file[u] = Whole

(***************************************************************************)
(* A script returned by fetchPlayerJs in pieces has only two causes: its   *)
(* own file was read while another thread wrote it, or a writer of its own *)
(* file once failed or died. Nothing that happens to other scripts, or in  *)
(* the two caches and their evictions, tears a text.                       *)
(***************************************************************************)
TornOnlyByRaceOrFault ==
    \A t \in Threads :
        pc[t] = "done" /\ text[t] # Whole => url[t] \in raced \cup faulted

(***************************************************************************)
(* PlayerJsRepositoryTest "second call with same url reads from memory     *)
(* without network" and "reads from disk cache on cold start without       *)
(* network", for calls that overlap and processes that die: a script that  *)
(* was returned once is downloaded again only while another download of it *)
(* has its file truncated, or when a writer of its file failed or died.    *)
(***************************************************************************)
NoNeedlessDownload ==
    [][\A t \in Threads :
        (pc[t] = "diskCheck" /\ pc'[t] = "net" /\ url[t] \in served \ faulted)
        => \E s \in Threads : Writing(s, url[t])]_vars

(***************************************************************************)
(* PlayerJsRepositoryTest "reads from disk cache on cold start without     *)
(* network" and "fetches player js from network and writes to disk": what  *)
(* fetchPlayerJs returns is the script the server sent, whole.             *)
(***************************************************************************)
ReturnsWholeText ==
    \A t \in Threads : pc[t] = "done" => text[t] = Whole
=============================================================================

------------------------ MODULE PlayerJsCacheProofs ------------------------
(***************************************************************************)
(* For any number of threads, scripts and pieces, and any number of        *)
(* crashes and failed writes: a script file that no one is writing and     *)
(* whose last writer did not fail is whole (IInv); and of a script whose   *)
(* writers all finished, a fetch returns the whole unless its file was     *)
(* read while it was written, and what is on disk is not downloaded again  *)
(* (DInv, on top of it).                                                   *)
(***************************************************************************)
EXTENDS PlayerJsCache, CollectionLemmas

\* Piece i of the file of u is in place, or a writer has still to write it.
CellOK(u, i) ==
    \/ i <= Len(file[u]) /\ file[u][i] = Piece
    \/ \E t \in Threads : Writing(t, u) /\ next[t] <= i

(* The inductive strengthening: a truncation that undoes another thread's  *)
(* pieces is made good by the truncating thread itself.                    *)
Covered(u) ==
    \/ u \in damaged
    \/ file[u] = << >> /\ \A t \in Threads : ~Writing(t, u)
    \/ \A i \in 1 .. Chunks : CellOK(u, i)

IInv ==
    /\ TypeOK
    /\ iterating # {} => mem # << >>
    /\ \A u \in Urls : Covered(u)

Entries == [key : Urls, text : Texts]

-----------------------------------------------------------------------------

LEMMA TextFacts ==
    /\ << >> \in Texts /\ Len(<< >>) = 0
    /\ Whole \in Texts
    /\ \A x \in Texts : Len(x) \in 0 .. Chunks /\ x \in Seq({Piece, Hole})
<1>1. << >> \in Texts /\ Len(<< >>) = 0
  BY PlayerJsAssumption DEF Texts
<1>2. Whole \in Texts
  <2>1. Whole \in [1 .. Chunks -> {Piece, Hole}]
    BY DEF Whole
  <2>2. Whole \in Seq({Piece, Hole}) /\ Len(Whole) = Chunks
    BY <2>1, PlayerJsAssumption DEF Whole
  <2> QED BY <2>2, PlayerJsAssumption DEF Texts
<1>3. \A x \in Texts : Len(x) \in 0 .. Chunks /\ x \in Seq({Piece, Hole})
  BY PlayerJsAssumption DEF Texts
<1> QED BY <1>1, <1>2, <1>3

(* A text all of whose pieces are in place is the script.                  *)
LEMMA WholeIsWhole ==
    ASSUME NEW x \in Texts, \A i \in 1 .. Chunks : i <= Len(x) /\ x[i] = Piece
    PROVE  x = Whole
<1>1. Chunks \in Nat \ {0} /\ Len(x) \in 0 .. Chunks /\ x \in Seq({Piece, Hole})
  BY TextFacts, PlayerJsAssumption
<1>2. Len(x) = Chunks
  BY <1>1
<1> QED BY <1>1, <1>2 DEF Whole

(* A write at offset i sets piece i and keeps the pieces already there.    *)
LEMMA PatchedFacts ==
    ASSUME NEW f \in Texts, NEW i \in 1 .. Chunks
    PROVE  /\ Patched(f, i) \in Texts
           /\ i <= Len(Patched(f, i)) /\ Patched(f, i)[i] = Piece
           /\ \A k \in 1 .. Len(f) :
                k <= Len(Patched(f, i)) /\ (f[k] = Piece => Patched(f, i)[k] = Piece)
<1> DEFINE n == IF i > Len(f) THEN i ELSE Len(f)
<1>1. /\ Len(f) \in 0 .. Chunks /\ f \in Seq({Piece, Hole}) /\ Chunks \in Nat
      /\ n \in 1 .. Chunks /\ i \in 1 .. n /\ Len(f) <= n
  BY TextFacts, PlayerJsAssumption
<1>2. Patched(f, i) = [k \in 1 .. n |-> IF k = i THEN Piece ELSE IF k <= Len(f) THEN f[k] ELSE Hole]
  BY DEF Patched
<1> HIDE DEF n
<1>3. Patched(f, i) \in [1 .. n -> {Piece, Hole}]
  BY <1>1, <1>2
<1>4. Patched(f, i) \in Seq({Piece, Hole}) /\ Len(Patched(f, i)) = n
  BY <1>1, <1>2, <1>3
<1> QED BY <1>1, <1>2, <1>4 DEF Texts

(* An access keeps memCache a map of texts, and not empty.                 *)
LEMMA TouchFacts ==
    ASSUME TypeOK, NEW u \in Urls, NEW x \in Texts, Touch(u, x)
    PROVE  /\ mem' \in Seq(Entries) /\ DistinctKeys(mem') /\ mem' # << >>
           /\ iterating' \subseteq iterating
<1> DEFINE e == [key |-> u, text |-> x]
<1>1. e \in Entries /\ mem \in Seq(Entries) /\ DistinctKeys(mem) /\ mem' = Youngest(mem, e)
  BY DEF TypeOK, Entries, Touch
<1>2. /\ mem' \in Seq(Entries) /\ DistinctKeys(mem')
      /\ Len(mem') = IF Holds(mem, e.key) THEN Len(mem) ELSE Len(mem) + 1
  BY <1>1, YoungestFacts
<1>3. Holds(mem, e.key) => Len(mem) > 0
  BY <1>1 DEF Holds, Places
<1>4. Len(mem) \in Nat /\ Len(mem') \in Nat
  BY <1>1, <1>2
<1>5. mem' # << >>
  BY <1>2, <1>3, <1>4
<1> QED BY <1>2, <1>5 DEF Touch

(* A step that leaves the files, and who writes them from where, alone.    *)
LEMMA QuietKeepsCovered ==
    ASSUME IInv, UNCHANGED <<file, damaged>>,
           \A t \in Threads : pc[t] = "write" \/ pc'[t] = "write" =>
                pc'[t] = pc[t] /\ url'[t] = url[t] /\ next'[t] = next[t]
    PROVE  \A u \in Urls : Covered(u)'
BY DEF IInv, Covered, CellOK, Writing

(* The locals of a thread whose call is over.                              *)
LEMMA LeaveType ==
    ASSUME IInv, NEW t \in Threads, Leave(t)
    PROVE  /\ pc' \in [Threads -> Phases] /\ url' \in [Threads -> Urls \cup {NoUrl}]
           /\ text' \in [Threads -> Texts] /\ next' \in [Threads -> 1 .. Chunks + 1]
<1>1. pc' \in [Threads -> Phases] /\ url' \in [Threads -> Urls \cup {NoUrl}]
  BY DEF IInv, TypeOK, Leave, Phases
<1>2. text' \in [Threads -> Texts]
  BY TextFacts DEF IInv, TypeOK, Leave
<1>3. 1 \in 1 .. Chunks + 1
  BY PlayerJsAssumption
<1>4. next' \in [Threads -> 1 .. Chunks + 1]
  BY <1>3 DEF IInv, TypeOK, Leave
<1> QED BY <1>1, <1>2, <1>4

(* One thread's step that touches neither files nor map nor history.       *)
LEMMA LocalKeeps ==
    ASSUME IInv, NEW t \in Threads, UNCHANGED <<memVars, file, next, history>>,
           NEW to \in Phases \ {"write", "evictRemove"}, pc[t] \notin {"write", "evictRemove"},
           pc' = [pc EXCEPT ![t] = to],
           url' \in [Threads -> Urls \cup {NoUrl}], text' \in [Threads -> Texts],
           \A s \in Threads \ {t} : url'[s] = url[s],
           to # "idle" => url'[t] \in Urls
    PROVE  IInv'
<1>1. pc' \in [Threads -> Phases] /\ \A s \in Threads \ {t} : pc'[s] = pc[s]
  BY DEF IInv, TypeOK
<1>2. pc'[t] = to
  BY DEF IInv, TypeOK
<1>3. TypeOK'
  BY <1>1, <1>2 DEF IInv, TypeOK, memVars, history, faultVars
<1>4. \A u \in Urls : Covered(u)'
  BY <1>1, <1>2, QuietKeepsCovered DEF history, faultVars
<1> QED BY <1>3, <1>4 DEF IInv, memVars

LEMMA InitIInv == Init => IInv
<1> SUFFICES ASSUME Init PROVE IInv
  OBVIOUS
<1>1. TypeOK
  <2>1. mem \in Seq([key : Urls, text : Texts]) /\ DistinctKeys(mem)
    BY DEF Init, DistinctKeys
  <2>2. faults \in 0 .. MaxFaults /\ next \in [Threads -> 1 .. Chunks + 1]
    BY PlayerJsAssumption DEF Init
  <2>3. file \in [Urls -> Texts] /\ text \in [Threads -> Texts]
    BY TextFacts DEF Init
  <2> QED BY <2>1, <2>2, <2>3 DEF Init, TypeOK, Phases
<1>2. \A u \in Urls : Covered(u)
  BY DEF Init, Covered, Writing
<1> QED BY <1>1, <1>2 DEF Init, IInv

-----------------------------------------------------------------------------

(* The steps that move a thread on without touching anything shared.       *)
LEMMA LocalStepsKeep ==
    ASSUME IInv, NEW t \in Threads,
           \/ \E u \in Urls : Fetch(t, u)
           \/ MemMiss(t) \/ DiskHit(t) \/ DiskMiss(t)
           \/ Download(t) \/ EvictNothing(t)
    PROVE  IInv'
<1>1. ASSUME NEW u \in Urls, Fetch(t, u) PROVE IInv'
  <2>1. url' \in [Threads -> Urls \cup {NoUrl}] /\ url'[t] \in Urls
        /\ \A s \in Threads \ {t} : url'[s] = url[s]
    BY <1>1 DEF IInv, TypeOK, Fetch
  <2> QED BY <1>1, <2>1, LocalKeeps DEF IInv, TypeOK, Fetch, Goto, Phases
<1>2. CASE MemMiss(t)
  BY <1>2, LocalKeeps DEF IInv, TypeOK, MemMiss, Goto, Phases
<1>3. CASE DiskHit(t)
  BY <1>3, LocalKeeps DEF IInv, TypeOK, DiskHit, Goto, Phases
<1>4. CASE DiskMiss(t)
  BY <1>4, LocalKeeps DEF IInv, TypeOK, DiskMiss, Goto, Phases
<1>5. CASE Download(t)
  <2>1. text' \in [Threads -> Texts]
    BY <1>5, TextFacts DEF IInv, TypeOK, Download
  <2> QED BY <1>5, <2>1, LocalKeeps DEF IInv, TypeOK, Download, Goto, Phases
<1>6. CASE EvictNothing(t)
  BY <1>6, LocalKeeps DEF IInv, TypeOK, EvictNothing, Goto, Phases
<1> QED BY <1>1, <1>2, <1>3, <1>4, <1>5, <1>6

(* The steps that read a file.                                             *)
LEMMA ReadsKeep ==
    ASSUME IInv, NEW t \in Threads, ReadPiece(t) \/ ReadEnd(t)
    PROVE  IInv'
<1>1. raced' \subseteq Urls
  BY DEF IInv, TypeOK, ReadPiece, ReadEnd, Raced, Goto
<1>2. CASE ReadPiece(t)
  <2> DEFINE f == file[url[t]]
             x == text[t]
  <2>1. f \in Texts /\ x \in Texts /\ pc[t] = "read" /\ Len(x) < Len(f)
    BY <1>2 DEF IInv, TypeOK, ReadPiece
  <2>2. text' = [text EXCEPT ![t] = Append(x, f[Len(x) + 1])]
    BY <1>2 DEF ReadPiece
  <2> HIDE DEF f, x
  <2>3. Append(x, f[Len(x) + 1]) \in Texts
    <3>1. /\ f \in Seq({Piece, Hole}) /\ Len(f) \in 0 .. Chunks
          /\ x \in Seq({Piece, Hole}) /\ Len(x) \in 0 .. Chunks /\ Chunks \in Nat
      BY <2>1, TextFacts, PlayerJsAssumption
    <3>2. f[Len(x) + 1] \in {Piece, Hole}
      BY <2>1, <3>1
    <3> DEFINE a == Append(x, f[Len(x) + 1])
    <3>3. a \in Seq({Piece, Hole}) /\ Len(a) = Len(x) + 1
      BY <3>1, <3>2
    <3> HIDE DEF a
    <3>4. a \in Texts
      BY <2>1, <3>1, <3>3 DEF Texts
    <3> QED BY <3>4 DEF a
  <2>4. text' \in [Threads -> Texts]
    BY <2>2, <2>3 DEF IInv, TypeOK
  <2>5. TypeOK'
    BY <1>1, <1>2, <2>4 DEF IInv, TypeOK, ReadPiece, memVars, faultVars
  <2>6. \A u \in Urls : Covered(u)'
    BY <1>2, QuietKeepsCovered DEF ReadPiece, faultVars
  <2> QED BY <1>2, <2>5, <2>6 DEF IInv, ReadPiece, memVars
<1>3. CASE ReadEnd(t)
  <2>1. pc' = [pc EXCEPT ![t] = "fill"] /\ pc[t] = "read" /\ pc' \in [Threads -> Phases]
    BY <1>3 DEF IInv, TypeOK, ReadEnd, Goto, Phases
  <2>2. pc'[t] = "fill" /\ \A s \in Threads \ {t} : pc'[s] = pc[s]
    BY <2>1 DEF IInv, TypeOK
  <2>3. TypeOK'
    BY <1>1, <1>3, <2>1, <2>2 DEF IInv, TypeOK, ReadEnd, memVars, faultVars
  <2>4. \A u \in Urls : Covered(u)'
    BY <1>3, <2>1, <2>2, QuietKeepsCovered DEF ReadEnd, faultVars
  <2> QED BY <1>3, <2>3, <2>4 DEF IInv, ReadEnd, memVars
<1> QED BY <1>2, <1>3

(* A fetch that leaves from a place other than its write.                  *)
LEMMA LeavingKeeps ==
    ASSUME IInv, NEW t \in Threads, DownloadFails(t) \/ EvictThrows(t) \/ Finish(t)
    PROVE  IInv'
<1>1. /\ Leave(t) /\ pc[t] \in {"net", "evictRemove", "done"}
      /\ UNCHANGED <<memVars, file, history>>
      /\ t \notin iterating
  BY DEF IInv, TypeOK, DownloadFails, EvictThrows, Finish
<1>2. /\ pc' \in [Threads -> Phases] /\ url' \in [Threads -> Urls \cup {NoUrl}]
      /\ text' \in [Threads -> Texts] /\ next' \in [Threads -> 1 .. Chunks + 1]
  BY <1>1, LeaveType
<1>3. /\ pc'[t] = "idle"
      /\ \A s \in Threads \ {t} : pc'[s] = pc[s] /\ url'[s] = url[s] /\ next'[s] = next[s]
  BY <1>1 DEF IInv, TypeOK, Leave
<1>4. TypeOK'
  BY <1>1, <1>2, <1>3 DEF IInv, TypeOK, memVars, history, faultVars
<1>5. \A u \in Urls : Covered(u)'
  BY <1>1, <1>3, QuietKeepsCovered DEF history, faultVars
<1> QED BY <1>1, <1>4, <1>5 DEF IInv, memVars

(* The steps that end a fetch with a text.                                 *)
LEMMA ReturnsKeep ==
    ASSUME IInv, NEW t \in Threads, MemHit(t) \/ Fill(t) \/ MemPut(t) \/ MemPutLost(t)
    PROVE  IInv'
<1>1. /\ pc[t] \in {"memGet", "fill", "memPut"} /\ pc' = [pc EXCEPT ![t] = "done"]
      /\ served' = served \cup {url[t]} /\ UNCHANGED <<file, url, next, faultVars, raced>>
  BY DEF MemHit, Fill, MemPut, MemPutLost, Return, Goto
<1>2. url[t] \in Urls /\ text[t] \in Texts /\ mem \in Seq(Entries) /\ DistinctKeys(mem)
  BY <1>1 DEF IInv, TypeOK, Entries
<1>3. /\ mem' \in Seq(Entries) /\ DistinctKeys(mem')
      /\ iterating' \subseteq iterating /\ (iterating' # {} => mem' # << >>)
      /\ text' \in [Threads -> Texts]
  <2>1. CASE MemHit(t)
    <3>1. PICK i \in DOMAIN mem : /\ Touch(url[t], mem[i].text)
                                  /\ text' = [text EXCEPT ![t] = mem[i].text]
      BY <2>1 DEF MemHit, Places
    <3>2. mem[i] \in Entries
      BY <1>2
    <3>3. mem[i].text \in Texts
      BY <3>2 DEF Entries
    <3> QED BY <1>2, <3>1, <3>3, TouchFacts DEF IInv, TypeOK
  <2>2. CASE Fill(t) \/ MemPut(t)
    BY <1>2, <2>2, TouchFacts DEF IInv, TypeOK, Fill, MemPut
  <2>3. CASE MemPutLost(t)
    BY <1>2, <2>3 DEF IInv, TypeOK, MemPutLost
  <2> QED BY <2>1, <2>2, <2>3
<1>4. /\ pc' \in [Threads -> Phases] /\ pc'[t] = "done"
      /\ \A s \in Threads \ {t} : pc'[s] = pc[s]
  BY <1>1 DEF IInv, TypeOK, Phases
<1>5. TypeOK'
  BY <1>1, <1>2, <1>3, <1>4 DEF IInv, TypeOK, Entries, faultVars
<1>6. \A u \in Urls : Covered(u)'
  BY <1>1, <1>4, QuietKeepsCovered DEF faultVars
<1> QED BY <1>3, <1>5, <1>6 DEF IInv

(* The eviction of the eldest entry from memory.                           *)
LEMMA EvictionKeeps ==
    ASSUME IInv, NEW t \in Threads, EvictBegin(t) \/ EvictRemove(t)
    PROVE  IInv'
<1>1. mem \in Seq(Entries) /\ DistinctKeys(mem)
  BY DEF IInv, TypeOK, Entries
<1>2. UNCHANGED <<file, url, text, next, history>>
  BY DEF EvictBegin, EvictRemove
<1>3. CASE EvictBegin(t)
  <2>1. /\ pc[t] = "evict" /\ pc' \in [Threads -> Phases] /\ pc'[t] = "evictRemove"
        /\ \A s \in Threads \ {t} : pc'[s] = pc[s]
    BY <1>3 DEF IInv, TypeOK, EvictBegin, Goto, Phases
  <2>2. mem' = mem /\ iterating' = iterating \cup {t} /\ mem # << >>
    BY <1>1, <1>3, PlayerJsAssumption DEF EvictBegin
  <2>3. TypeOK'
    BY <1>2, <2>1, <2>2 DEF IInv, TypeOK, history, faultVars
  <2>4. \A u \in Urls : Covered(u)'
    BY <1>2, <2>1, QuietKeepsCovered DEF history, faultVars
  <2> QED BY <2>2, <2>3, <2>4 DEF IInv
<1>4. CASE EvictRemove(t)
  <2>1. /\ pc[t] = "evictRemove" /\ pc' \in [Threads -> Phases] /\ pc'[t] = "memPut"
        /\ \A s \in Threads \ {t} : pc'[s] = pc[s]
    BY <1>4 DEF IInv, TypeOK, EvictRemove, Goto, Phases
  <2>2. mem # << >> /\ mem' = Tail(mem) /\ iterating' = {}
    BY <1>4 DEF IInv, EvictRemove
  <2>3. mem' \in Seq(Entries) /\ DistinctKeys(mem')
    BY <1>1, <2>2, TailFacts
  <2>4. TypeOK'
    BY <1>2, <2>1, <2>2, <2>3 DEF IInv, TypeOK, history, faultVars, Entries
  <2>5. \A u \in Urls : Covered(u)'
    BY <1>2, <2>1, QuietKeepsCovered DEF history, faultVars
  <2> QED BY <2>2, <2>4, <2>5 DEF IInv
<1> QED BY <1>3, <1>4

(* Opening truncates the file, and the opener will write all of it.        *)
LEMMA OpenKeeps ==
    ASSUME IInv, NEW t \in Threads, Open(t)
    PROVE  IInv'
<1> DEFINE v == url[t]
<1>1. /\ pc[t] = "open" /\ v \in Urls /\ pc' = [pc EXCEPT ![t] = "write"]
      /\ file' = [file EXCEPT ![v] = << >>] /\ next' = [next EXCEPT ![t] = 1]
      /\ damaged' = damaged \ {v}
      /\ UNCHANGED <<mem, iterating, url, text, faults, faulted, served, raced>>
  BY DEF IInv, TypeOK, Open, Goto, memVars
<1>2. /\ pc' \in [Threads -> Phases] /\ pc'[t] = "write" /\ next'[t] = 1
      /\ \A s \in Threads \ {t} : pc'[s] = pc[s] /\ next'[s] = next[s]
  BY <1>1 DEF IInv, TypeOK, Phases
<1>3. TypeOK'
  <2>1. file' \in [Urls -> Texts]
    BY <1>1, TextFacts DEF IInv, TypeOK
  <2>2. next' \in [Threads -> 1 .. Chunks + 1] /\ 1 <= Chunks
    BY <1>1, PlayerJsAssumption DEF IInv, TypeOK
  <2> QED BY <1>1, <1>2, <2>1, <2>2 DEF IInv, TypeOK
<1>4. ASSUME NEW u \in Urls PROVE Covered(u)'
  <2>1. CASE u = v
    <3>1. \A i \in 1 .. Chunks : CellOK(u, i)'
      BY <1>1, <1>2, <2>1 DEF CellOK, Writing
    <3> QED BY <3>1 DEF Covered
  <2>2. CASE u # v
    <3>1. file'[u] = file[u] /\ (u \in damaged => u \in damaged')
      BY <1>1, <2>2 DEF IInv, TypeOK
    <3>2. \A s \in Threads : Writing(s, u)' <=> Writing(s, u)
      BY <1>1, <1>2, <2>2 DEF Writing
    <3>3. \A s \in Threads : Writing(s, u) => next'[s] = next[s]
      BY <1>1, <1>2, <2>2 DEF Writing
    <3>4. \A i \in 1 .. Chunks : CellOK(u, i) => CellOK(u, i)'
      BY <3>1, <3>2, <3>3 DEF CellOK
    <3> QED BY <3>1, <3>2, <3>4 DEF IInv, Covered
  <2> QED BY <2>1, <2>2
<1> QED BY <1>1, <1>3, <1>4 DEF IInv

(* A write puts its piece in place and has only the later ones left.       *)
LEMMA WriteKeeps ==
    ASSUME IInv, NEW t \in Threads, Write(t)
    PROVE  IInv'
<1> DEFINE v == url[t]
           n == next[t]
<1>1. /\ pc[t] = "write" /\ v \in Urls /\ n \in 1 .. Chunks /\ Chunks \in Nat
      /\ pc' = [pc EXCEPT ![t] = IF n = Chunks THEN "evict" ELSE "write"]
      /\ file' = [file EXCEPT ![v] = Patched(file[v], n)] /\ next' = [next EXCEPT ![t] = n + 1]
      /\ UNCHANGED <<mem, iterating, url, text, faultVars, served, raced>>
  BY PlayerJsAssumption DEF IInv, TypeOK, Write, Goto, memVars, history, faultVars
<1>2. /\ pc' \in [Threads -> Phases] /\ pc'[t] = (IF n = Chunks THEN "evict" ELSE "write")
      /\ next'[t] = n + 1
      /\ \A s \in Threads \ {t} : pc'[s] = pc[s] /\ next'[s] = next[s]
  BY <1>1 DEF IInv, TypeOK, Phases
<1>3. file[v] \in Texts /\ file'[v] = Patched(file[v], n)
  BY <1>1 DEF IInv, TypeOK
<1>4. /\ file'[v] \in Texts /\ n <= Len(file'[v]) /\ file'[v][n] = Piece
      /\ \A k \in 1 .. Len(file[v]) :
            k <= Len(file'[v]) /\ (file[v][k] = Piece => file'[v][k] = Piece)
      /\ Len(file[v]) \in Nat
  <2> HIDE DEF v, n
  <2>1. Len(file[v]) \in Nat
    BY <1>3, TextFacts
  <2> QED BY <1>1, <1>3, <2>1, PatchedFacts
<1> HIDE DEF v, n
<1>5. TypeOK'
  <2>1. file' \in [Urls -> Texts]
    BY <1>1, <1>3, <1>4 DEF IInv, TypeOK
  <2>2. next' \in [Threads -> 1 .. Chunks + 1] /\ (pc'[t] = "write" => next'[t] <= Chunks)
    BY <1>1, <1>2 DEF IInv, TypeOK
  <2>3. url[t] \in Urls /\ t \notin iterating
    BY <1>1 DEF v, IInv, TypeOK
  <2> QED BY <1>1, <1>2, <2>1, <2>2, <2>3 DEF IInv, TypeOK, faultVars
<1>6. ASSUME NEW u \in Urls PROVE Covered(u)'
  <2>1. CASE u = v
    <3>1. Writing(t, v)
      BY <1>1 DEF Writing, v
    <3>2. u \in damaged \/ \A i \in 1 .. Chunks : CellOK(v, i)
      BY <2>1, <3>1 DEF IInv, Covered
    <3>3. ASSUME NEW i \in 1 .. Chunks, CellOK(v, i) PROVE CellOK(v, i)'
      <4>1. CASE i <= Len(file[v]) /\ file[v][i] = Piece
        <5>1. i \in 1 .. Len(file[v])
          BY <1>4, <4>1
        <5> QED BY <1>4, <4>1, <5>1, <1>1 DEF CellOK, v
      <4>2. ASSUME NEW s \in Threads, Writing(s, v), next[s] <= i PROVE CellOK(v, i)'
        <5>1. CASE s # t
          BY <1>1, <1>2, <4>2, <5>1 DEF CellOK, Writing, v
        <5>2. CASE s = t /\ i = n
          BY <1>1, <1>4, <5>2 DEF CellOK, v
        <5>3. CASE s = t /\ i # n
          <6>1. n + 1 <= i /\ n # Chunks
            BY <1>1, <4>2, <5>3 DEF n
          <6> QED BY <1>1, <1>2, <3>1, <6>1 DEF CellOK, Writing, v
        <5> QED BY <5>1, <5>2, <5>3
      <4> QED BY <3>3, <4>1, <4>2 DEF CellOK
    <3>4. v' = v
      BY <1>1 DEF v
    <3> QED BY <1>1, <2>1, <3>2, <3>3, <3>4 DEF Covered, faultVars
  <2>2. CASE u # v
    <3>1. file'[u] = file[u]
      BY <1>1, <2>2 DEF IInv, TypeOK
    <3>2. \A s \in Threads : Writing(s, u)' <=> Writing(s, u)
      BY <1>1, <1>2, <2>2 DEF Writing, v
    <3>3. \A s \in Threads : Writing(s, u) => next'[s] = next[s]
      BY <1>1, <1>2, <2>2 DEF Writing, v
    <3>4. \A i \in 1 .. Chunks : CellOK(u, i) => CellOK(u, i)'
      BY <3>1, <3>2, <3>3 DEF CellOK
    <3> QED BY <1>1, <3>1, <3>2, <3>4 DEF IInv, Covered, faultVars
  <2> QED BY <2>1, <2>2
<1> QED BY <1>1, <1>5, <1>6 DEF IInv

(* A failed write is recorded as damage to its file and to no other.       *)
LEMMA WriteFailsKeeps ==
    ASSUME IInv, NEW t \in Threads, WriteFails(t)
    PROVE  IInv'
<1>1. /\ Leave(t) /\ pc[t] = "write" /\ url[t] \in Urls /\ t \notin iterating
      /\ damaged' = damaged \cup {url[t]} /\ faulted' = faulted \cup {url[t]}
      /\ faults' = faults + 1 /\ faults < MaxFaults
      /\ UNCHANGED <<mem, iterating, file, served, raced>>
  BY DEF IInv, TypeOK, WriteFails, memVars
<1>2. /\ pc' \in [Threads -> Phases] /\ url' \in [Threads -> Urls \cup {NoUrl}]
      /\ text' \in [Threads -> Texts] /\ next' \in [Threads -> 1 .. Chunks + 1]
  BY <1>1, LeaveType
<1>3. /\ pc'[t] = "idle"
      /\ \A s \in Threads \ {t} : pc'[s] = pc[s] /\ url'[s] = url[s] /\ next'[s] = next[s]
  BY <1>1 DEF IInv, TypeOK, Leave
<1>4. faults' \in 0 .. MaxFaults
  BY <1>1, PlayerJsAssumption DEF IInv, TypeOK
<1>5. TypeOK'
  BY <1>1, <1>2, <1>3, <1>4 DEF IInv, TypeOK
<1>6. ASSUME NEW u \in Urls PROVE Covered(u)'
  <2>1. CASE u = url[t]
    BY <1>1, <2>1 DEF Covered
  <2>2. CASE u # url[t]
    <3>1. \A s \in Threads : Writing(s, u)' <=> Writing(s, u)
      BY <1>1, <1>3, <2>2 DEF Writing
    <3>2. \A s \in Threads : Writing(s, u) => next'[s] = next[s]
      BY <1>3, <2>2 DEF Writing
    <3>3. \A i \in 1 .. Chunks : CellOK(u, i) => CellOK(u, i)'
      BY <1>1, <3>1, <3>2 DEF CellOK
    <3> QED BY <1>1, <3>1, <3>3 DEF IInv, Covered
  <2> QED BY <2>1, <2>2
<1> QED BY <1>1, <1>5, <1>6 DEF IInv

(* A crash damages exactly the files that were being written.              *)
LEMMA CrashKeeps ==
    ASSUME IInv, Crash
    PROVE  IInv'
<1>1. TypeOK'
  <2>1. faults' \in 0 .. MaxFaults
    BY PlayerJsAssumption DEF IInv, TypeOK, Crash
  <2>2. mem' \in Seq([key : Urls, text : Texts]) /\ DistinctKeys(mem')
    BY DEF Crash, DistinctKeys
  <2>3. text' \in [Threads -> Texts] /\ next' \in [Threads -> 1 .. Chunks + 1]
    BY TextFacts, PlayerJsAssumption DEF Crash
  <2> QED BY <2>1, <2>2, <2>3 DEF IInv, TypeOK, Crash, BeingWritten, Phases
<1>2. ASSUME NEW u \in Urls PROVE Covered(u)'
  <2>1. \A t \in Threads : ~Writing(t, u)'
    BY DEF Crash, Writing
  <2>2. CASE \E t \in Threads : Writing(t, u)
    BY <2>2 DEF Crash, BeingWritten, Covered
  <2>3. CASE \A t \in Threads : ~Writing(t, u)
    BY <2>1, <2>3 DEF IInv, Crash, BeingWritten, Covered, CellOK
  <2> QED BY <2>2, <2>3
<1> QED BY <1>1, <1>2 DEF IInv, Crash

-----------------------------------------------------------------------------

LEMMA NextIInv == IInv /\ [Next]_vars => IInv'
<1> SUFFICES ASSUME IInv, [Next]_vars PROVE IInv'
  OBVIOUS
<1>1. ASSUME NEW t \in Threads, Step(t) PROVE IInv'
  BY <1>1, LocalStepsKeep, ReadsKeep, LeavingKeeps, ReturnsKeep, EvictionKeeps,
     OpenKeeps, WriteKeeps, WriteFailsKeeps DEF Step
<1>2. CASE Crash
  BY <1>2, CrashKeeps
<1>3. CASE UNCHANGED vars
  BY <1>3 DEF vars, history, faultVars, IInv, TypeOK, Covered, CellOK, Writing
<1> QED BY <1>1, <1>2, <1>3 DEF Next

LEMMA SpecIInv == Spec => []IInv
BY InitIInv, NextIInv, PTL DEF Spec

(* Every variable has its type in every reachable state.                   *)
THEOREM TypeCorrect == Spec => []TypeOK
<1>1. IInv => TypeOK
  BY DEF IInv
<1> QED BY <1>1, SpecIInv, PTL

(* Whatever the interleaving of its writers, a file that is not being      *)
(* written and was not damaged holds the whole script.                     *)
THEOREM FilesCorrect == Spec => []QuiescentFilesComplete
<1>1. IInv => QuiescentFilesComplete
  <2> SUFFICES ASSUME IInv, NEW u \in Urls, file[u] # << >>, u \notin damaged,
                      \A t \in Threads : ~Writing(t, u)
               PROVE  file[u] = Whole
    BY DEF QuiescentFilesComplete
  <2>1. \A i \in 1 .. Chunks : i <= Len(file[u]) /\ file[u][i] = Piece
    BY DEF IInv, Covered, CellOK
  <2>2. file[u] \in Texts
    BY DEF IInv, TypeOK
  <2> QED BY <2>1, <2>2, WholeIsWhole
<1> QED BY <1>1, SpecIInv, PTL

-----------------------------------------------------------------------------

(***************************************************************************)
(* Of a script whose file no writer failed to finish: once on disk it      *)
(* stays there, or is being written again; if memCache or a thread holds   *)
(* it, it is on disk; and a text in pieces was read while it was written.  *)
(***************************************************************************)
OnDisk(u) == u \in faulted \/ file[u] # << >> \/ \E t \in Threads : Writing(t, u)

marred == raced \cup faulted
Intact(x, u) == x = Whole \/ u \in marred

\* What thread t holds was on disk, or it has opened the file itself.
Stored(t) ==
    pc[t] \in {"read", "fill", "evict", "evictRemove", "memPut", "done"} => OnDisk(url[t])

\* The text of thread t: nothing, what it downloaded, or what it read so far.
TextOK(t) ==
    /\ pc[t] \in {"idle", "memGet", "diskCheck", "net"} => text[t] = << >>
    /\ pc[t] \in {"open", "write", "evict", "evictRemove", "memPut"} => text[t] = Whole
    /\ pc[t] \in {"fill", "done"} => Intact(text[t], url[t])
    /\ pc[t] = "read" => url[t] \in marred \/ \A i \in 1 .. Len(text[t]) : text[t][i] = Piece

EntryOK(e) == OnDisk(e.key) /\ Intact(e.text, e.key)
EntriesOK == \A i \in DOMAIN mem : EntryOK(mem[i])

Explained ==
    /\ damaged \subseteq faulted
    /\ \A u \in served : OnDisk(u)
    /\ EntriesOK
    /\ \A t \in Threads : Stored(t) /\ TextOK(t)

DInv == IInv /\ Explained

(* A file stays on disk in a step that neither truncates nor closes one.   *)
LEMMA QuietKeepsOnDisk ==
    ASSUME UNCHANGED file, faulted \subseteq faulted',
           \A t \in Threads : pc[t] = "write" => pc'[t] = "write" /\ url'[t] = url[t]
    PROVE  \A u \in Urls : OnDisk(u) => OnDisk(u)'
BY DEF OnDisk, Writing

(* One step of one thread, with what has to be said of it.                 *)
LEMMA ThreadStep ==
    ASSUME IInv, Explained, NEW t \in Threads,
           \A s \in Threads \ {t} : pc'[s] = pc[s] /\ url'[s] = url[s] /\ text'[s] = text[s],
           \A u \in Urls : OnDisk(u) => OnDisk(u)',
           raced \subseteq raced', faulted \subseteq faulted', damaged' \subseteq faulted',
           \A u \in served' : OnDisk(u)', EntriesOK', Stored(t)', TextOK(t)'
    PROVE  Explained'
<1> SUFFICES ASSUME NEW s \in Threads, s # t PROVE Stored(s)' /\ TextOK(s)'
  BY DEF Explained
<1>1. /\ pc'[s] = pc[s] /\ url'[s] = url[s] /\ text'[s] = text[s] /\ Stored(s) /\ TextOK(s)
      /\ (pc[s] # "idle" => url[s] \in Urls)
  BY DEF IInv, TypeOK, Explained
<1>2. Stored(s)'
  BY <1>1 DEF Stored
<1>3. TextOK(s)'
  BY <1>1 DEF TextOK, Intact, marred
<1> QED BY <1>2, <1>3

LEMMA EntryTypes == IInv => mem \in Seq(Entries) /\ \A i \in DOMAIN mem : mem[i] \in Entries
<1> SUFFICES ASSUME IInv PROVE mem \in Seq(Entries) /\ \A i \in DOMAIN mem : mem[i] \in Entries
  OBVIOUS
<1>1. mem \in Seq(Entries)
  BY DEF IInv, TypeOK, Entries
<1> QED BY <1>1

(* A thread's argument, as a value, is on disk after the step.             *)
LEMMA StoredNext ==
    ASSUME NEW t \in Threads, NEW v, v = url'[t], OnDisk(v)'
    PROVE  Stored(t)'
BY DEF Stored, OnDisk, Writing

(* What holds of an entry of memCache holds of it from then on.            *)
LEMMA EntriesStay ==
    ASSUME raced \subseteq raced', faulted \subseteq faulted',
           \A u \in Urls : OnDisk(u) => OnDisk(u)'
    PROVE  \A e \in Entries : EntryOK(e) => EntryOK(e)'
<1> TAKE e \in Entries
<1>1. e.key \in Urls
  BY DEF Entries
<1> QED BY <1>1 DEF EntryOK, Intact, marred

(* An access to memCache: its entries are the old ones and the new one.    *)
LEMMA TouchKeepsEntries ==
    ASSUME IInv, Explained, NEW u \in Urls, NEW x \in Texts, Touch(u, x),
           OnDisk(u)', Intact(x, u)', raced \subseteq raced', faulted \subseteq faulted',
           \A v \in Urls : OnDisk(v) => OnDisk(v)'
    PROVE  EntriesOK'
<1> DEFINE e == [key |-> u, text |-> x]
<1>1. e \in Entries /\ mem \in Seq(Entries) /\ DistinctKeys(mem) /\ mem' = Youngest(mem, e)
  BY DEF IInv, TypeOK, Entries, Touch
<1>2. EntryOK(e)'
  BY DEF EntryOK
<1> HIDE DEF e
<1>3. \A i \in DOMAIN mem' : mem'[i] = e \/ \E j \in DOMAIN mem : mem'[i] = mem[j]
  BY <1>1, YoungestFacts
<1>4. \A j \in DOMAIN mem : mem[j] \in Entries /\ EntryOK(mem[j])
  BY <1>1 DEF Explained, EntriesOK
<1>5. \A d \in Entries : EntryOK(d) => EntryOK(d)'
  BY EntriesStay
<1> QED BY <1>1, <1>2, <1>3, <1>4, <1>5 DEF EntriesOK

(* A step that leaves files, memory and history alone.                     *)
LEMMA PrivateStep ==
    ASSUME IInv, Explained, NEW t \in Threads, pc[t] # "write",
           \A s \in Threads \ {t} : pc'[s] = pc[s] /\ url'[s] = url[s] /\ text'[s] = text[s],
           UNCHANGED <<mem, file, damaged, faulted, served, raced>>,
           pc'[t] \in {"read", "fill", "evict", "evictRemove", "memPut", "done"} => OnDisk(url'[t]),
           TextOK(t)'
    PROVE  Explained'
<1>1. \A u \in Urls : OnDisk(u) => OnDisk(u)'
  BY QuietKeepsOnDisk
<1>2. \A u \in served' : OnDisk(u)'
  BY <1>1 DEF IInv, TypeOK, Explained
<1>3. EntriesOK'
  <2>1. \A i \in DOMAIN mem : mem[i] \in Entries
    BY EntryTypes
  <2> QED BY <1>1, <2>1, EntriesStay DEF Explained, EntriesOK
<1>4. Stored(t)'
  <2>1. CASE pc'[t] \in {"read", "fill", "evict", "evictRemove", "memPut", "done"}
    <3>1. PICK v : v = url'[t] /\ OnDisk(v)
      BY <2>1
    <3>2. OnDisk(v)'
      <4>1. \A s \in Threads : Writing(s, v) => s # t
        BY DEF Writing
      <4> QED BY <3>1, <4>1 DEF OnDisk, Writing
    <3> QED BY <3>1, <3>2, StoredNext
  <2>2. CASE pc'[t] \notin {"read", "fill", "evict", "evictRemove", "memPut", "done"}
    BY <2>2 DEF Stored
  <2> QED BY <2>1, <2>2
<1>5. damaged' \subseteq faulted' /\ faulted \subseteq faulted' /\ raced \subseteq raced'
  BY DEF Explained
<1> QED BY <1>1, <1>2, <1>3, <1>4, <1>5, ThreadStep

(* A thread's way to the network, past the eviction, and out.              *)
LEMMA PrivateStepsExplain ==
    ASSUME IInv, Explained, NEW t \in Threads,
           \/ \E u \in Urls : Fetch(t, u)
           \/ MemMiss(t) \/ DiskHit(t) \/ DiskMiss(t) \/ Download(t) \/ DownloadFails(t)
           \/ EvictBegin(t) \/ EvictNothing(t) \/ EvictThrows(t) \/ Finish(t)
    PROVE  Explained'
<1>1. /\ pc[t] # "write" /\ UNCHANGED <<mem, file, damaged, faulted, served, raced>>
      /\ \A s \in Threads \ {t} : pc'[s] = pc[s] /\ url'[s] = url[s] /\ text'[s] = text[s]
  BY DEF IInv, TypeOK, Fetch, MemMiss, DiskHit, DiskMiss, Download, DownloadFails, EvictBegin,
         EvictNothing, EvictThrows, Finish, Goto, Leave, memVars, history, faultVars
<1>2. Stored(t) /\ TextOK(t) /\ pc \in [Threads -> Phases]
      /\ url \in [Threads -> Urls \cup {NoUrl}] /\ text \in [Threads -> Texts]
  BY DEF Explained, IInv, TypeOK
<1>3. CASE \E u \in Urls : Fetch(t, u)
  <2>1. pc'[t] = "memGet" /\ text'[t] = << >>
    BY <1>2, <1>3 DEF Fetch, Goto, TextOK
  <2> QED BY <1>1, <2>1, PrivateStep DEF TextOK
<1>4. CASE MemMiss(t) \/ DiskMiss(t)
  <2>1. pc'[t] \in {"diskCheck", "net"} /\ text'[t] = << >>
    BY <1>2, <1>4 DEF MemMiss, DiskMiss, Goto, TextOK
  <2> QED BY <1>1, <2>1, PrivateStep DEF TextOK
<1>5. CASE DiskHit(t)
  <2>1. pc'[t] = "read" /\ text'[t] = << >> /\ url'[t] = url[t] /\ OnDisk(url[t])
    BY <1>2, <1>5 DEF DiskHit, Goto, TextOK, OnDisk
  <2>2. TextOK(t)'
    BY <2>1 DEF TextOK
  <2> QED BY <1>1, <2>1, <2>2, PrivateStep
<1>6. CASE Download(t)
  <2>1. pc'[t] = "open" /\ text'[t] = Whole
    BY <1>2, <1>6 DEF Download, Goto
  <2> QED BY <1>1, <2>1, PrivateStep DEF TextOK
<1>7. CASE EvictBegin(t) \/ EvictNothing(t)
  <2>1. /\ pc[t] = "evict" /\ pc'[t] \in {"evictRemove", "memPut"}
        /\ text'[t] = text[t] /\ url'[t] = url[t]
    BY <1>2, <1>7 DEF EvictBegin, EvictNothing, Goto
  <2>2. text[t] = Whole /\ OnDisk(url[t])
    BY <1>2, <2>1 DEF TextOK, Stored
  <2> QED BY <1>1, <2>1, <2>2, PrivateStep DEF TextOK
<1>8. CASE DownloadFails(t) \/ EvictThrows(t) \/ Finish(t)
  <2>1. pc'[t] = "idle" /\ text'[t] = << >>
    BY <1>2, <1>8 DEF DownloadFails, EvictThrows, Finish, Leave
  <2> QED BY <1>1, <2>1, PrivateStep DEF TextOK
<1> QED BY <1>3, <1>4, <1>5, <1>6, <1>7, <1>8

(* A thread that reads a file no one writes reads the whole script.        *)
LEMMA ReadsExplain ==
    ASSUME IInv, Explained, NEW t \in Threads, ReadPiece(t) \/ ReadEnd(t)
    PROVE  Explained'
<1> DEFINE u == url[t]
           f == file[u]
           x == text[t]
<1>1. /\ pc[t] = "read" /\ u \in Urls /\ f \in Texts /\ x \in Texts
      /\ pc'[t] \in {"read", "fill"} /\ UNCHANGED <<mem, file, url, faultVars, served>>
      /\ raced' = Raced(t)
      /\ \A s \in Threads \ {t} : pc'[s] = pc[s] /\ url'[s] = url[s] /\ text'[s] = text[s]
      /\ \A s \in Threads : pc[s] = "write" => pc'[s] = "write"
  BY DEF IInv, TypeOK, ReadPiece, ReadEnd, Goto, memVars
<1>2. raced \subseteq raced' /\ UNCHANGED <<damaged, faulted>>
  BY <1>1 DEF Raced, faultVars
<1>3. \A v \in Urls : OnDisk(v) => OnDisk(v)'
  BY <1>1, <1>2, QuietKeepsOnDisk
<1>4. \A v \in served' : OnDisk(v)'
  BY <1>1, <1>3 DEF IInv, TypeOK, Explained
<1>5. EntriesOK'
  <2>1. \A i \in DOMAIN mem : mem[i] \in Entries
    BY EntryTypes
  <2> QED BY <1>1, <1>2, <1>3, <2>1, EntriesStay DEF Explained, EntriesOK
<1>6. OnDisk(u)
  BY <1>1 DEF Explained, Stored
<1>7. Stored(t)'
  <2>1. PICK v \in Urls : v = url[t] /\ v = url'[t] /\ OnDisk(v)'
    BY <1>1, <1>3, <1>6
  <2> QED BY <2>1, StoredNext
<1>8. u \notin marred' => f = Whole /\ u \notin marred
  <2> SUFFICES ASSUME u \notin marred' PROVE f = Whole /\ u \notin marred
    OBVIOUS
  <2>1. u \notin faulted /\ u \notin raced /\ \A s \in Threads : ~Writing(s, u)
    BY <1>1, <1>2 DEF Raced, Writing, marred
  <2>2. f # << >> /\ u \notin damaged
    BY <1>6, <2>1 DEF OnDisk, Explained
  <2>3. \A i \in 1 .. Chunks : i <= Len(f) /\ f[i] = Piece
    BY <1>1, <2>1, <2>2 DEF IInv, Covered, CellOK
  <2> HIDE DEF f
  <2> QED BY <1>1, <2>1, <2>3, WholeIsWhole DEF marred
<1>9. TextOK(t)
  BY DEF Explained
<1>10. TextOK(t)'
  <2>1. CASE u \in marred'
    BY <1>1, <2>1 DEF TextOK, Intact
  <2>2. CASE u \notin marred'
    <3>1. f = Whole /\ \A i \in 1 .. Len(x) : x[i] = Piece
      BY <1>1, <1>8, <1>9, <2>2 DEF TextOK
    <3>2. /\ x \in Seq({Piece, Hole}) /\ Len(x) \in 0 .. Chunks /\ Chunks \in Nat
          /\ Len(Whole) = Chunks /\ \A i \in 1 .. Chunks : Whole[i] = Piece
      BY <1>1, TextFacts, PlayerJsAssumption DEF Whole
    <3>3. CASE ReadPiece(t)
      <4> DEFINE y == Append(x, f[Len(x) + 1])
      <4>1. Len(x) < Len(f) /\ pc'[t] = "read" /\ text'[t] = y
        BY <3>3 DEF ReadPiece, IInv, TypeOK
      <4>2. f[Len(x) + 1] = Piece
        BY <3>1, <3>2, <4>1
      <4> HIDE DEF f, x
      <4>3. y = Append(x, Piece) /\ \A i \in 1 .. Len(y) : y[i] = Piece
        BY <3>1, <3>2, <4>2
      <4> QED BY <4>1, <4>3 DEF TextOK
    <3>4. CASE ReadEnd(t)
      <4>1. Len(x) >= Len(f) /\ pc'[t] = "fill" /\ text'[t] = x
        BY <3>4 DEF ReadEnd, Goto, IInv, TypeOK
      <4>2. \A i \in 1 .. Chunks : i <= Len(x) /\ x[i] = Piece
        BY <3>1, <3>2, <4>1
      <4> HIDE DEF x
      <4>3. x = Whole
        BY <1>1, <4>2, WholeIsWhole
      <4> QED BY <4>1, <4>3 DEF TextOK, Intact
    <3> QED BY <3>3, <3>4
  <2> QED BY <2>1, <2>2
<1> QED BY <1>1, <1>2, <1>3, <1>4, <1>5, <1>7, <1>10, ThreadStep DEF Explained

(* A fetch returns what was in memory, or what it read or downloaded.      *)
LEMMA ReturnsExplain ==
    ASSUME IInv, Explained, NEW t \in Threads, MemHit(t) \/ Fill(t) \/ MemPut(t) \/ MemPutLost(t)
    PROVE  Explained'
<1>1. /\ pc[t] \in {"memGet", "fill", "memPut"} /\ pc' = [pc EXCEPT ![t] = "done"]
      /\ served' = served \cup {url[t]} /\ UNCHANGED <<file, url, damaged, faulted, raced>>
  BY DEF MemHit, Fill, MemPut, MemPutLost, Return, Goto, faultVars
<1>2. /\ url[t] \in Urls /\ text[t] \in Texts /\ pc'[t] = "done"
      /\ \A s \in Threads \ {t} : pc'[s] = pc[s]
      /\ \A s \in Threads : pc[s] = "write" => pc'[s] = "write"
  BY <1>1 DEF IInv, TypeOK
<1>3. \A v \in Urls : OnDisk(v) => OnDisk(v)'
  BY <1>1, <1>2, QuietKeepsOnDisk
<1>4. mem \in Seq(Entries) /\ \A i \in DOMAIN mem : mem[i] \in Entries /\ EntryOK(mem[i])
  BY EntryTypes DEF Explained, EntriesOK
<1>5. Stored(t) /\ TextOK(t)
  BY DEF Explained
<1>6. PICK u \in Urls, x \in Texts :
        /\ u = url[t] /\ x = text'[t] /\ OnDisk(u) /\ Intact(x, u)
        /\ Touch(u, x) \/ UNCHANGED mem
  <2>1. CASE MemHit(t)
    <3>1. PICK i \in DOMAIN mem : /\ mem[i].key = url[t] /\ Touch(url[t], mem[i].text)
                                  /\ text' = [text EXCEPT ![t] = mem[i].text]
      BY <2>1 DEF MemHit, Places
    <3>2. mem[i].text \in Texts /\ OnDisk(url[t]) /\ Intact(mem[i].text, url[t])
      BY <1>4, <3>1 DEF Entries, EntryOK
    <3>3. text'[t] = mem[i].text
      BY <3>1 DEF IInv, TypeOK
    <3> QED BY <1>2, <3>1, <3>2, <3>3
  <2>2. CASE Fill(t) \/ MemPut(t) \/ MemPutLost(t)
    <3>1. /\ pc[t] \in {"fill", "memPut"} /\ text'[t] = text[t]
          /\ Touch(url[t], text[t]) \/ UNCHANGED mem
      BY <2>2 DEF Fill, MemPut, MemPutLost, Return, Goto
    <3>2. OnDisk(url[t]) /\ Intact(text[t], url[t])
      BY <1>5, <3>1 DEF Stored, TextOK, Intact
    <3> QED BY <1>2, <3>1, <3>2
  <2> QED BY <2>1, <2>2
<1>7. OnDisk(u)' /\ Intact(x, u)' /\ raced \subseteq raced' /\ faulted \subseteq faulted'
  BY <1>1, <1>3, <1>6 DEF Intact, marred
<1>8. EntriesOK'
  <2>1. CASE Touch(u, x)
    BY <1>3, <1>7, <2>1, TouchKeepsEntries
  <2>2. CASE UNCHANGED mem
    BY <1>3, <1>4, <1>7, <2>2, EntriesStay DEF EntriesOK
  <2> QED BY <1>6, <2>1, <2>2
<1>9. \A v \in served' : OnDisk(v)'
  BY <1>1, <1>3, <1>6, <1>7 DEF IInv, TypeOK, Explained
<1>10. Stored(t)'
  BY <1>1, <1>6, <1>7, StoredNext
<1>11. TextOK(t)'
  BY <1>1, <1>2, <1>6, <1>7 DEF TextOK, Intact
<1>12. \A s \in Threads \ {t} : text'[s] = text[s]
  BY DEF IInv, TypeOK, MemHit, Fill, MemPut, MemPutLost
<1> QED BY <1>1, <1>2, <1>3, <1>7, <1>8, <1>9, <1>10, <1>11, <1>12, ThreadStep DEF Explained

(* An eviction from memory leaves the file on disk.                        *)
LEMMA EvictRemoveExplains ==
    ASSUME IInv, Explained, NEW t \in Threads, EvictRemove(t)
    PROVE  Explained'
<1>1. /\ pc[t] = "evictRemove" /\ pc'[t] = "memPut" /\ mem # << >> /\ mem' = Tail(mem)
      /\ \A s \in Threads \ {t} : pc'[s] = pc[s]
      /\ \A s \in Threads : pc[s] = "write" => pc'[s] = "write"
      /\ UNCHANGED <<file, url, text, damaged, faulted, served, raced>>
  BY DEF IInv, TypeOK, EvictRemove, Goto, history, faultVars
<1>2. \A v \in Urls : OnDisk(v) => OnDisk(v)'
  BY <1>1, QuietKeepsOnDisk
<1>3. EntriesOK'
  <2>1. mem \in Seq(Entries) /\ \A i \in DOMAIN mem : mem[i] \in Entries /\ EntryOK(mem[i])
    BY EntryTypes DEF Explained, EntriesOK
  <2>2. \A i \in DOMAIN mem' : \E j \in DOMAIN mem : mem'[i] = mem[j]
    <3>1. DistinctKeys(mem)
      BY DEF IInv, TypeOK
    <3> QED BY <1>1, <2>1, <3>1, TailFacts
  <2> QED BY <1>1, <1>2, <2>1, <2>2, EntriesStay DEF EntriesOK
<1>4. \A v \in served' : OnDisk(v)'
  BY <1>1, <1>2 DEF IInv, TypeOK, Explained
<1>5. url[t] \in Urls /\ OnDisk(url[t]) /\ text[t] = Whole
  BY <1>1 DEF IInv, TypeOK, Explained, Stored, TextOK
<1>6. Stored(t)'
  <2>1. PICK v \in Urls : v = url[t] /\ v = url'[t] /\ OnDisk(v)'
    BY <1>1, <1>2, <1>5
  <2> QED BY <2>1, StoredNext
<1>7. TextOK(t)'
  BY <1>1, <1>5 DEF TextOK
<1> QED BY <1>1, <1>2, <1>3, <1>4, <1>6, <1>7, ThreadStep DEF Explained

(* Opening empties the file, which counts as on disk while it is written;  *)
(* a write puts a piece into it.                                           *)
LEMMA WritesExplain ==
    ASSUME IInv, Explained, NEW t \in Threads, Open(t) \/ Write(t)
    PROVE  Explained'
<1> DEFINE n == next[t]
<1>1. PICK u \in Urls : u = url[t]
  BY DEF IInv, TypeOK, Open, Write, Goto
<1>2. /\ UNCHANGED <<mem, url, text, faulted, served, raced>> /\ damaged' \subseteq faulted' /\ text[t] = Whole
      /\ \A s \in Threads \ {t} : pc'[s] = pc[s]
      /\ pc'[t] \in {"write", "evict"}
      /\ \A v \in Urls \ {u} : file'[v] = file[v]
  BY <1>1 DEF IInv, TypeOK, Explained, TextOK, Open, Write, Goto, memVars, history, faultVars
<1>3. OnDisk(u)'
  <2>1. CASE Open(t)
    <3>1. pc'[t] = "write"
      BY <2>1 DEF IInv, TypeOK, Open, Goto
    <3> QED BY <1>1, <1>2, <3>1 DEF OnDisk, Writing
  <2>2. CASE Write(t)
    <3>1. n \in 1 .. Chunks /\ file[u] \in Texts /\ file'[u] = Patched(file[u], n)
      BY <1>1, <2>2 DEF IInv, TypeOK, Write, Goto
    <3>2. Patched(file[u], n) \in Texts /\ n <= Len(Patched(file[u], n))
      BY <3>1, PatchedFacts
    <3>3. Patched(file[u], n) # << >>
      BY <3>1, <3>2, TextFacts
    <3> QED BY <3>1, <3>3 DEF OnDisk
  <2> QED BY <2>1, <2>2
<1>4. ASSUME NEW v \in Urls, OnDisk(v) PROVE OnDisk(v)'
  <2>1. CASE v = u
    BY <1>3, <2>1
  <2>2. CASE v # u
    BY <1>1, <1>2, <1>4, <2>2 DEF OnDisk, Writing
  <2> QED BY <2>1, <2>2
<1>5. EntriesOK'
  <2>1. \A i \in DOMAIN mem : mem[i] \in Entries
    BY EntryTypes
  <2> QED BY <1>2, <1>4, <2>1, EntriesStay DEF Explained, EntriesOK
<1>6. \A v \in served' : OnDisk(v)'
  BY <1>2, <1>4 DEF IInv, TypeOK, Explained
<1>7. Stored(t)'
  BY <1>1, <1>2, <1>3, StoredNext
<1>8. TextOK(t)'
  BY <1>2 DEF TextOK
<1> QED BY <1>2, <1>4, <1>5, <1>6, <1>7, <1>8, ThreadStep

(* A writer that fails leaves its thread, and a fault at its file.         *)
LEMMA WriteFailsExplains ==
    ASSUME IInv, Explained, NEW t \in Threads, WriteFails(t)
    PROVE  Explained'
<1>1. PICK u \in Urls : u = url[t]
  BY DEF IInv, TypeOK, WriteFails
<1>2. /\ UNCHANGED <<mem, file, served, raced>> /\ faulted' = faulted \cup {u}
      /\ damaged' = damaged \cup {u} /\ pc'[t] = "idle" /\ text'[t] = << >>
      /\ \A s \in Threads \ {t} : pc'[s] = pc[s] /\ url'[s] = url[s] /\ text'[s] = text[s]
  BY <1>1 DEF IInv, TypeOK, WriteFails, Leave, memVars
<1>3. \A v \in Urls : OnDisk(v) => OnDisk(v)'
  BY <1>1, <1>2 DEF OnDisk, Writing
<1>4. EntriesOK'
  <2>1. \A i \in DOMAIN mem : mem[i] \in Entries
    BY EntryTypes
  <2> QED BY <1>2, <1>3, <2>1, EntriesStay DEF Explained, EntriesOK
<1>5. \A v \in served' : OnDisk(v)'
  BY <1>2, <1>3 DEF IInv, TypeOK, Explained
<1>6. Stored(t)' /\ TextOK(t)'
  BY <1>2 DEF Stored, TextOK
<1>7. damaged' \subseteq faulted'
  BY <1>2 DEF Explained
<1> QED BY <1>2, <1>3, <1>4, <1>5, <1>6, <1>7, ThreadStep

(* A crash leaves the files, and a fault at those that were being written. *)
LEMMA CrashExplains ==
    ASSUME IInv, Explained, Crash
    PROVE  Explained'
<1>1. /\ mem' = << >> /\ UNCHANGED <<file, served>> /\ faulted' = faulted \cup BeingWritten
      /\ \A t \in Threads : pc'[t] = "idle" /\ text'[t] = << >>
  BY DEF Crash
<1>2. \A u \in served' : OnDisk(u)'
  BY <1>1 DEF IInv, TypeOK, Explained, OnDisk, BeingWritten
<1>3. damaged' \subseteq faulted'
  BY DEF Crash, Explained
<1>4. EntriesOK'
  BY <1>1 DEF EntriesOK
<1>5. \A t \in Threads : Stored(t)' /\ TextOK(t)'
  BY <1>1 DEF Stored, TextOK
<1> QED BY <1>2, <1>3, <1>4, <1>5 DEF Explained

-----------------------------------------------------------------------------

LEMMA InitDInv == Init => DInv
<1>1. Init => Explained
  BY DEF Init, Explained, EntriesOK, Stored, TextOK
<1> QED BY <1>1, InitIInv DEF DInv

LEMMA NextDInv == DInv /\ [Next]_vars => DInv'
<1> SUFFICES ASSUME IInv, Explained, [Next]_vars PROVE Explained'
  BY NextIInv DEF DInv
<1>1. ASSUME NEW t \in Threads, Step(t) PROVE Explained'
  BY <1>1, PrivateStepsExplain, ReadsExplain, ReturnsExplain, EvictRemoveExplains,
     WritesExplain, WriteFailsExplains DEF Step
<1>2. CASE Crash
  BY <1>2, CrashExplains
<1>3. CASE UNCHANGED vars
  BY <1>3 DEF vars, history, faultVars, Explained, EntriesOK, EntryOK, Intact, marred, Stored,
              TextOK, OnDisk, Writing
<1> QED BY <1>1, <1>2, <1>3 DEF Next

LEMMA SpecDInv == Spec => []DInv
BY InitDInv, NextDInv, PTL DEF Spec

(* A script is returned in pieces only if its own file was read while      *)
(* another thread wrote it, or was not finished by a writer: whatever      *)
(* happens to the two caches, and however many threads there are.          *)
THEOREM TornExplained == Spec => []TornOnlyByRaceOrFault
<1>1. DInv => TornOnlyByRaceOrFault
  BY DEF DInv, Explained, TextOK, Intact, marred, TornOnlyByRaceOrFault
<1> QED BY <1>1, SpecDInv, PTL

(* A script that was returned once is downloaded again only while another  *)
(* thread has its file truncated for writing.                              *)
THEOREM DownloadsNeeded == Spec => NoNeedlessDownload
<1> DEFINE Needed ==
        \A t \in Threads :
            (pc[t] = "diskCheck" /\ pc'[t] = "net" /\ url[t] \in served \ faulted)
            => \E s \in Threads : Writing(s, url[t])
<1>1. DInv /\ [Next]_vars => [Needed]_vars
  <2> SUFFICES ASSUME DInv, Next, NEW t \in Threads, pc[t] = "diskCheck", pc'[t] = "net",
                      url[t] \in served \ faulted
               PROVE  \E s \in Threads : Writing(s, url[t])
    OBVIOUS
  <2>1. OnDisk(url[t])
    BY DEF DInv, Explained
  <2>2. file[url[t]] = << >>
    <3>1. pc \in [Threads -> Phases]
      BY DEF DInv, IInv, TypeOK
    <3>2. PICK s \in Threads : Step(s)
      BY DEF Next, Crash
    <3>3. s = t
      BY <3>1, <3>2 DEF Step, Fetch, MemHit, MemMiss, DiskHit, DiskMiss, ReadPiece,
         ReadEnd, Fill, Download, DownloadFails, Open, Write, WriteFails, EvictBegin, EvictNothing,
         EvictRemove, EvictThrows, MemPut, MemPutLost, Finish, Goto, Return, Leave
    <3>4. DiskMiss(t)
      BY <3>1, <3>2, <3>3 DEF Step, Fetch, MemHit, MemMiss, DiskHit, DiskMiss, ReadPiece,
         ReadEnd, Fill, Download, DownloadFails, Open, Write, WriteFails, EvictBegin, EvictNothing,
         EvictRemove, EvictThrows, MemPut, MemPutLost, Finish, Goto, Return, Leave
    <3> QED BY <3>4 DEF DiskMiss
  <2> QED BY <2>1, <2>2 DEF OnDisk
<1>2. Spec => [][Needed]_vars
  BY <1>1, SpecDInv, PTL DEF Spec
<1> QED BY <1>2 DEF NoNeedlessDownload
=============================================================================

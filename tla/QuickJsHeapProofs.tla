------------------------- MODULE QuickJsHeapProofs -------------------------
(***************************************************************************)
(* Proofs about the heap of a runtime as the bridge uses it, for any       *)
(* objects, closure variables and properties, any threshold and any number *)
(* of attempts and jobs.                                                   *)
(*                                                                         *)
(* First, how many references there are before and after a step. Then the  *)
(* inductive invariant of the heap, IInv: what ref_count counts during     *)
(* each pass of trial deletion (Counted), how the traversals sort the      *)
(* nodes (ListsInUse, Traversed), why what is kept is what can be reached  *)
(* (Kept, Least), and that what is freed neither refers to anything nor is *)
(* referred to (FreedHoldNothing, NoDangling, WeakRefsAreSafe). One lemma  *)
(* per action shows that it keeps IInv. Last, what the bridge owns at each *)
(* stage of a call (Accounts, Stages), with which it frees the runtime     *)
(* completely, and the theorems.                                           *)
(***************************************************************************)
EXTENDS QuickJsBridge, FiniteSetTheorems, TLAPS

(***************************************************************************)
(* Counting references. Count is Refs for any function r from slots to     *)
(* what they hold, so that its lemmas apply before and after a step.       *)
(***************************************************************************)
Holders(r, n, M) == {e \in M \X Slots : r[e] = n}
Count(r, n, M) == Cardinality(Holders(r, n, M))

LEMMA RefsIsCount ==
    \A n, M : Refs(n, M) = Count(ref, n, M) /\ Refs(n, M)' = Count(ref', n, M)
BY DEF Refs, Into, Count, Holders

LEMMA HeapIsFinite == IsFiniteSet(Nodes) /\ IsFiniteSet(Slots) /\ IsFiniteSet(Objects)
<1>1. IsFiniteSet({Context})
  BY FS_Singleton
<1>2. IsFiniteSet(Others)
  BY <1>1, FS_Union, HeapAssumption DEF Others
<1>3. IsFiniteSet({"realm"} \cup {"var"})
  BY FS_Singleton, FS_Union
<1>4. IsFiniteSet({"realm"} \cup {"var"} \cup {"global"})
  BY <1>3, FS_Singleton, FS_Union
<1>5. {"realm"} \cup {"var"} \cup {"global"} = {"realm", "var", "global"}
  OBVIOUS
<1>6. IsFiniteSet(Slots)
  BY <1>4, <1>5, FS_Union, HeapAssumption DEF Slots
<1> QED BY <1>2, <1>6, FS_Union, HeapAssumption DEF Nodes

LEMMA HoldersFinite ==
    ASSUME NEW r, NEW n, NEW M \in SUBSET Nodes
    PROVE  IsFiniteSet(Holders(r, n, M))
<1>1. IsFiniteSet(M)
  BY HeapIsFinite, FS_Subset
<1>2. IsFiniteSet(M \X Slots)
  BY <1>1, HeapIsFinite, FS_Product
<1>3. Holders(r, n, M) \in SUBSET (M \X Slots)
  BY DEF Holders
<1> QED BY <1>2, <1>3, FS_Subset

LEMMA CountType ==
    \A r, n : \A M \in SUBSET Nodes : Count(r, n, M) \in Nat
BY HoldersFinite, FS_CardinalityType DEF Count

(* The references that two disjoint sets of nodes hold add up.             *)
LEMMA CountUnion ==
    \A r, n : \A M, K \in SUBSET Nodes :
        M \cap K = {} => Count(r, n, M \cup K) = Count(r, n, M) + Count(r, n, K)
<1> SUFFICES ASSUME NEW r, NEW n, NEW M \in SUBSET Nodes, NEW K \in SUBSET Nodes, M \cap K = {}
             PROVE  Count(r, n, M \cup K) = Count(r, n, M) + Count(r, n, K)
  OBVIOUS
<1>1. Holders(r, n, M \cup K) = Holders(r, n, M) \cup Holders(r, n, K)
  BY DEF Holders
<1>2. Holders(r, n, M) \cap Holders(r, n, K) = {}
  BY DEF Holders
<1>3. IsFiniteSet(Holders(r, n, M)) /\ IsFiniteSet(Holders(r, n, K))
  BY HoldersFinite
<1>4. Cardinality(Holders(r, n, M)) \in Nat /\ Cardinality(Holders(r, n, K)) \in Nat
  BY <1>3, FS_CardinalityType
<1>5. Cardinality(Holders(r, n, M) \cup Holders(r, n, K)) =
        Cardinality(Holders(r, n, M)) + Cardinality(Holders(r, n, K)) - Cardinality({})
  BY <1>2, <1>3, FS_Union
<1>6. Cardinality({}) = 0
  BY FS_EmptySet
<1>7. Count(r, n, M \cup K) = Cardinality(Holders(r, n, M) \cup Holders(r, n, K))
  BY <1>1 DEF Count
<1> HIDE DEF Holders
<1> QED BY <1>4, <1>5, <1>6, <1>7 DEF Count

LEMMA CountMonotone ==
    \A r, n : \A M, K \in SUBSET Nodes : M \subseteq K => Count(r, n, M) <= Count(r, n, K)
<1> SUFFICES ASSUME NEW r, NEW n, NEW M \in SUBSET Nodes, NEW K \in SUBSET Nodes, M \subseteq K
             PROVE  Count(r, n, M) <= Count(r, n, K)
  OBVIOUS
<1>1. K = M \cup (K \ M) /\ M \cap (K \ M) = {} /\ K \ M \in SUBSET Nodes
  OBVIOUS
<1>2. Count(r, n, K) = Count(r, n, M) + Count(r, n, K \ M)
  BY <1>1, CountUnion
<1> QED BY <1>2, CountType

LEMMA CountZero ==
    \A r, n : \A M \in SUBSET Nodes :
        Count(r, n, M) = 0 <=> \A e \in M \X Slots : r[e] # n
<1> SUFFICES ASSUME NEW r, NEW n, NEW M \in SUBSET Nodes
             PROVE  Count(r, n, M) = 0 <=> \A e \in M \X Slots : r[e] # n
  OBVIOUS
<1>1. Count(r, n, M) = 0 <=> Holders(r, n, M) = {}
  BY HoldersFinite, FS_EmptySet DEF Count
<1>2. Holders(r, n, M) = {} <=> \A e \in M \X Slots : r[e] # n
  BY DEF Holders
<1> QED BY <1>1, <1>2

(* What counts is what the slots hold.                                     *)
LEMMA CountSame ==
    \A r, q, n : \A M \in SUBSET Nodes :
        (\A e \in M \X Slots : r[e] = n <=> q[e] = n) => Count(r, n, M) = Count(q, n, M)
BY DEF Count, Holders

(* One slot is written.                                                    *)
Cells == Nodes \X Slots
One(x, n) == IF x = n THEN 1 ELSE 0

LEMMA CountPut ==
    \A r, q, n : \A d \in Cells :
        (\A e \in Cells : e # d => q[e] = r[e]) =>
            Count(q, n, Nodes) = Count(r, n, Nodes) + One(q[d], n) - One(r[d], n)
<1> SUFFICES ASSUME NEW r, NEW q, NEW n, NEW d \in Cells, \A e \in Cells : e # d => q[e] = r[e]
             PROVE  Count(q, n, Nodes) = Count(r, n, Nodes) + One(q[d], n) - One(r[d], n)
  OBVIOUS
<1> DEFINE Rest == {e \in Nodes \X Slots : e # d /\ r[e] = n}
<1>1. Holders(r, n, Nodes) = IF r[d] = n THEN Rest \cup {d} ELSE Rest
  BY DEF Holders, Cells
<1>2. Holders(q, n, Nodes) = IF q[d] = n THEN Rest \cup {d} ELSE Rest
  BY DEF Holders, Cells
<1>3. IsFiniteSet(Rest)
  <2>1. IsFiniteSet(Nodes \X Slots)
    BY HeapIsFinite, FS_Product
  <2>2. Rest \in SUBSET (Nodes \X Slots)
    OBVIOUS
  <2> QED BY <2>1, <2>2, FS_Subset
<1>4. d \notin Rest
  OBVIOUS
<1>5. Cardinality(Rest \cup {d}) = Cardinality(Rest) + 1 /\ Cardinality(Rest) \in Nat
  BY <1>3, <1>4, FS_AddElement, FS_CardinalityType
<1> HIDE DEF Rest
<1> QED BY <1>1, <1>2, <1>5 DEF Count, One

(* The nodes of M drop the references they hold.                           *)
LEMMA CountRelease ==
    ASSUME NEW r, NEW q, NEW n \in Nodes, NEW M \in SUBSET Nodes,
           \A e \in Nodes \X Slots : q[e] = IF e[1] \in M THEN Null ELSE r[e]
    PROVE  /\ Count(q, n, Nodes) = Count(r, n, Nodes) - Count(r, n, M)
           /\ Count(r, n, M) <= Count(r, n, Nodes)
<1>1. n # Null
  BY HeapAssumption
<1>2. Nodes = M \cup (Nodes \ M) /\ M \cap (Nodes \ M) = {} /\ Nodes \ M \in SUBSET Nodes
  OBVIOUS
<1>3. Count(r, n, Nodes) = Count(r, n, M) + Count(r, n, Nodes \ M)
  BY <1>2, CountUnion
<1>4. Count(q, n, Nodes) = Count(q, n, M) + Count(q, n, Nodes \ M)
  BY <1>2, CountUnion
<1>5. Count(q, n, M) = 0
  BY <1>1, CountZero
<1>6. Count(q, n, Nodes \ M) = Count(r, n, Nodes \ M)
  BY CountSame
<1>7. Count(r, n, M) \in Nat /\ Count(r, n, Nodes \ M) \in Nat
  BY CountType
<1> QED BY <1>3, <1>4, <1>5, <1>6, <1>7
-----------------------------------------------------------------------------
(* The inductive invariant.                                                *)

(* Properties and closure variables hold objects, and so do Others.        *)
HoldsObjects ==
    \A e \in Nodes \X Slots :
        e[1] \in Others \/ e[2] \in Props => ref[e] \in Objects \cup {Null}

(* ref_count is the number of references, but for those that trial         *)
(* deletion has taken and not yet given back.                              *)
Counting == CASE pass = "decref" -> Nodes \ visited
              [] pass \in {"scan", "restore"} -> visited
              [] OTHER -> Nodes
Counted == \A n \in Nodes : ref_count[n] = stack[n] + owned[n] + Refs(n, Counting)

(* The lists that are in use during each pass.                             *)
ListsInUse ==
    /\ In("tmp_obj_list") # {} => pass \in {"decref", "scan", "restore", "cycles"}
    /\ In("gc_zero_ref_count_list") # {} => pass \in {"zero", "cycles", "sweep"}
    /\ pass \in {"zero", "sweep"} =>
        \A n \in In("gc_zero_ref_count_list") : n \in Objects /\ ref_count[n] = 0

(* What each traversal has done, and how it sorts the nodes.               *)
Traversed ==
    /\ visited \subseteq In("gc_obj_list") \cup In("tmp_obj_list")
    /\ pass \notin {"decref", "scan", "restore"} => visited = {}
    /\ pass = "decref" =>
        \A n \in Nodes : at[n] = "tmp_obj_list" <=> n \in visited /\ ref_count[n] = 0
    /\ pass = "scan" =>
        /\ visited \subseteq In("gc_obj_list")
        /\ \A n \in In("gc_obj_list") : ref_count[n] > 0
        /\ \A n \in In("tmp_obj_list") : ref_count[n] = 0
    /\ pass = "restore" => In("gc_obj_list") \subseteq visited

(* What was freed, or has only its structure left, refers to nothing.      *)
Freed == In("free") \cup In("husk")
         \cup {o \in Objects : pass \in {"cycles", "sweep"} /\ at[o] = "gc_zero_ref_count_list"}
FreedHoldNothing ==
    /\ \A n \in Freed, s \in Slots : ref[<<n, s>>] = Null
    /\ \A o \in Objects \cap Freed : weak[o] = Null

(* What is in the lists has references.                                    *)
Live ==
    /\ pass \notin {"cycles", "sweep"} =>
        \A n \in In("gc_obj_list") \cup In("tmp_obj_list") : Total(n) > 0
    /\ pass = "cycles" =>
        \A n \in Others \cap (In("tmp_obj_list") \cup In("gc_zero_ref_count_list")) : ref_count[n] > 0

(* What gc_scan keeps has a reference from what it keeps, or a root.       *)
Kept ==
    pass \in {"restore", "cycles", "sweep"} =>
        /\ Roots \subseteq In("gc_obj_list") /\ Closed(In("gc_obj_list"))
        /\ \A n \in In("gc_obj_list") : stack[n] + owned[n] + Refs(n, In("gc_obj_list")) > 0
Least ==
    pass \in {"scan", "restore", "cycles", "sweep"} =>
        \A S \in SUBSET Nodes : Roots \subseteq S /\ Closed(S) => In("gc_obj_list") \subseteq S

IInv ==
    /\ TypeOK /\ HoldsObjects /\ Counted
    /\ ListsInUse /\ Traversed /\ FreedHoldNothing /\ NoDangling /\ Live
    /\ Kept /\ Least /\ WeakRefsAreSafe

-----------------------------------------------------------------------------

LEMMA Domains ==
    /\ Null \notin Nodes
    /\ Objects \subseteq Nodes /\ Others \subseteq Nodes /\ Nodes = Objects \cup Others
    /\ Objects \cap Others = {}
    /\ Context \in Others /\ VarRefs \subseteq Others /\ Context \notin VarRefs
    /\ Global \in Objects
    /\ Props \subseteq Slots /\ {"realm", "var", "global"} \subseteq Slots
    /\ "realm" \notin Props /\ "var" \notin Props /\ "global" \notin Props
BY HeapAssumption DEF Nodes, Others, Slots

LEMMA RefsType ==
    \A n : \A M \in SUBSET Nodes : Refs(n, M) \in Nat
BY CountType, RefsIsCount

LEMMA RefsUnion ==
    \A n : \A M, K \in SUBSET Nodes :
        M \cap K = {} => Refs(n, M \cup K) = Refs(n, M) + Refs(n, K)
BY CountUnion, RefsIsCount

LEMMA RefsMonotone ==
    \A n : \A M, K \in SUBSET Nodes : M \subseteq K => Refs(n, M) <= Refs(n, K)
BY CountMonotone, RefsIsCount

LEMMA RefsZero ==
    \A n : \A M \in SUBSET Nodes :
        Refs(n, M) = 0 <=> \A m \in M, s \in Slots : ref[<<m, s>>] # n
<1> SUFFICES ASSUME NEW n, NEW M \in SUBSET Nodes
             PROVE  Refs(n, M) = 0 <=> \A m \in M, s \in Slots : ref[<<m, s>>] # n
  OBVIOUS
<1>1. Refs(n, M) = 0 <=> \A e \in M \X Slots : ref[e] # n
  BY CountZero, RefsIsCount
<1> QED BY <1>1

(* A set of nodes that hold nothing adds nothing.                          *)
LEMMA RefsOfRest ==
    ASSUME NEW M \in SUBSET Nodes, NEW K \in SUBSET Nodes, M \subseteq K, NEW n \in Nodes,
           \A m \in K \ M, s \in Slots : ref[<<m, s>>] = Null
    PROVE  Refs(n, K) = Refs(n, M)
<1>1. K = M \cup (K \ M) /\ M \cap (K \ M) = {} /\ K \ M \in SUBSET Nodes
  OBVIOUS
<1>2. Refs(n, K) = Refs(n, M) + Refs(n, K \ M)
  BY <1>1, RefsUnion
<1>3. Refs(n, K \ M) = 0
  BY <1>1, RefsZero, Domains
<1> QED BY <1>1, <1>2, <1>3, RefsType

(* Nothing is closed under references but what contains their targets.     *)
LEMMA ClosedSlots ==
    \A S : Closed(S) <=> \A m \in S, s \in Slots : ref[<<m, s>>] # Null => ref[<<m, s>>] \in S
BY DEF Closed

LEMMA SameReferences ==
    ASSUME UNCHANGED <<ref, roots>>
    PROVE  /\ \A n, M : Refs(n, M)' = Refs(n, M)
           /\ \A n : Total(n)' = Total(n)
           /\ Roots' = Roots
           /\ \A S : Closed(S)' = Closed(S)
<1>1. \A n, M : Refs(n, M)' = Refs(n, M)
  BY DEF Refs, Into
<1> QED BY <1>1 DEF Total, Roots, Closed, roots

LEMMA HoldsSlots ==
    /\ HoldsObjects <=> \A m \in Nodes, s \in Slots :
            m \in Others \/ s \in Props => ref[<<m, s>>] \in Objects \cup {Null}
    /\ HoldsObjects' <=> \A m \in Nodes, s \in Slots :
            m \in Others \/ s \in Props => ref'[<<m, s>>] \in Objects \cup {Null}
BY DEF HoldsObjects

(* What is in a list, and each list on its own, after a step.              *)
LEMMA InList ==
    \A n, list : /\ n \in In(list) <=> n \in Nodes /\ at[n] = list
                 /\ n \in In(list)' <=> n \in Nodes /\ at'[n] = list
BY DEF In

-----------------------------------------------------------------------------
(* Trial deletion.                                                         *)

LEMMA DecrefKeeps ==
    ASSUME IInv, NEW m \in Nodes, Decref(m)
    PROVE  IInv'
<1>1. /\ pass = "decref" /\ pass' = "decref"
      /\ at[m] = "gc_obj_list" /\ m \notin visited /\ visited' = visited \cup {m}
      /\ \A n \in Nodes : ref_count'[n] = ref_count[n] - Refs(n, {m})
      /\ \A n \in Nodes : at'[n] = IF n \in visited' /\ ref_count'[n] = 0 THEN "tmp_obj_list" ELSE at[n]
      /\ UNCHANGED <<ref, weak, roots>>
  BY DEF Decref
<1>2. /\ TypeOK /\ visited \subseteq Nodes
      /\ stack \in [Nodes -> Nat] /\ owned \in [Nodes -> Nat] /\ ref_count \in [Nodes -> Nat]
      /\ at \in [Nodes -> Lists \cup {"free", "husk"}]
  BY DEF IInv, TypeOK
<1>3. \A n \in Nodes : /\ ref_count'[n] = stack[n] + owned[n] + Refs(n, Nodes \ visited')
                       /\ ref_count'[n] \in Nat /\ ref_count'[n] <= ref_count[n]
  <2> TAKE n \in Nodes
  <2>1. ref_count[n] = stack[n] + owned[n] + Refs(n, Nodes \ visited)
    BY <1>1 DEF IInv, Counted, Counting
  <2>2. Nodes \ visited = (Nodes \ visited') \cup {m} /\ (Nodes \ visited') \cap {m} = {}
    BY <1>1
  <2>3. Refs(n, Nodes \ visited) = Refs(n, Nodes \ visited') + Refs(n, {m})
    BY <2>2, RefsUnion
  <2> QED BY <1>1, <1>2, <2>1, <2>3, RefsType
<1>4. \A n \in Nodes : at[n] = "tmp_obj_list" <=> n \in visited /\ ref_count[n] = 0
  BY <1>1 DEF IInv, Traversed
<1>5. visited \subseteq In("gc_obj_list") \cup In("tmp_obj_list")
  BY DEF IInv, Traversed
<1>6. \A n \in Nodes : at[n] = "tmp_obj_list" => ref_count'[n] = 0
  BY <1>3, <1>4, <1>2
<1>7. \A n \in Nodes :
        /\ at'[n] = "tmp_obj_list" <=> n \in visited' /\ ref_count'[n] = 0
        /\ at'[n] \in {"gc_obj_list", "tmp_obj_list"} <=> at[n] \in {"gc_obj_list", "tmp_obj_list"}
        /\ at'[n] \notin {"gc_obj_list", "tmp_obj_list"} => at'[n] = at[n]
  BY <1>1, <1>2, <1>4, <1>5, <1>6, InList
<1>8. TypeOK'
  <2>1. ref_count' \in [Nodes -> Nat]
    BY <1>1, <1>3 DEF Decref
  <2>2. at' \in [Nodes -> Lists \cup {"free", "husk"}]
    BY <1>2 DEF Decref, Lists
  <2> QED BY <1>1, <1>2, <2>1, <2>2 DEF TypeOK, roots
<1>9. /\ \A n, M : Refs(n, M)' = Refs(n, M)
      /\ \A n : Total(n)' = Total(n)
  BY <1>1, SameReferences
<1>10. Counted' /\ HoldsObjects'
  BY <1>1, <1>3, <1>9 DEF IInv, Counted, Counting, HoldsObjects, roots
<1>11. ListsInUse' /\ Traversed'
  BY <1>1, <1>2, <1>5, <1>7, InList DEF IInv, ListsInUse, Traversed
<1>12. FreedHoldNothing'
  BY <1>1, <1>7, InList DEF IInv, FreedHoldNothing, Freed
<1>13. NoDangling' /\ Live'
  BY <1>1, <1>7, <1>9, InList DEF IInv, NoDangling, Live
<1>14. WeakRefsAreSafe'
  <2>1. \A n \in Nodes : ref_count[n] = 0 => ref_count'[n] = 0
    BY <1>2, <1>3
  <2> QED BY <1>1, <1>7, <2>1, Domains DEF IInv, WeakRefsAreSafe, WeakRefsTo
<1>15. Kept' /\ Least'
  BY <1>1 DEF Kept, Least
<1> QED BY <1>8, <1>10, <1>11, <1>12, <1>13, <1>14, <1>15 DEF IInv

(* Nodes in no list that trial deletion uses hold nothing, so the nodes it *)
(* has been over hold all references that there are.                       *)
LEMMA TraversedHoldAll ==
    ASSUME IInv, pass \in {"decref", "restore"},
           In("gc_obj_list") \cup In("tmp_obj_list") \subseteq visited
    PROVE  /\ \A n \in Nodes : Refs(n, Nodes \ visited) = 0
           /\ \A n \in Nodes : Refs(n, Nodes) = Refs(n, visited)
<1>1. visited \in SUBSET Nodes /\ Nodes \ visited \in SUBSET Nodes
  BY DEF IInv, TypeOK
<1>2. \A m \in Nodes \ visited : at[m] \in {"free", "husk"}
  BY InList DEF IInv, TypeOK, Lists, ListsInUse
<1>3. \A m \in Nodes \ visited, s \in Slots : ref[<<m, s>>] = Null
  BY <1>2, InList DEF IInv, FreedHoldNothing, Freed
<1>4. \A n \in Nodes : Refs(n, Nodes \ visited) = 0
  BY <1>1, <1>3, RefsZero, Domains
<1>5. \A n \in Nodes : Refs(n, Nodes) = Refs(n, visited)
  BY <1>1, <1>3, RefsOfRest
<1> QED BY <1>4, <1>5

LEMMA DecrefDoneKeeps ==
    ASSUME IInv, DecrefDone
    PROVE  IInv'
<1>1. /\ pass = "decref" /\ pass' = "scan" /\ visited' = {}
      /\ In("gc_obj_list") \subseteq visited
      /\ UNCHANGED <<ref, weak, roots, ref_count, at>>
  BY DEF DecrefDone, Turn
<1>2. /\ TypeOK /\ stack \in [Nodes -> Nat] /\ owned \in [Nodes -> Nat]
      /\ ref_count \in [Nodes -> Nat] /\ at \in [Nodes -> Lists \cup {"free", "husk"}]
  BY DEF IInv, TypeOK
<1>3. \A n \in Nodes : at[n] = "tmp_obj_list" <=> n \in visited /\ ref_count[n] = 0
  BY <1>1 DEF IInv, Traversed
<1>4. In("gc_obj_list") \cup In("tmp_obj_list") \subseteq visited
  BY <1>1, <1>3, InList
<1>5. \A n \in Nodes : ref_count[n] = stack[n] + owned[n]
  <2>1. \A n \in Nodes : ref_count[n] = stack[n] + owned[n] + Refs(n, Nodes \ visited)
    BY <1>1 DEF IInv, Counted, Counting
  <2>2. \A n \in Nodes : Refs(n, Nodes \ visited) = 0
    BY <1>1, <1>4, TraversedHoldAll
  <2>3. \A n \in Nodes : ref_count[n] = stack[n] + owned[n] + 0
    BY <2>1, <2>2, Zenon
  <2> QED BY <1>2, <2>3
<1>6. \A n \in In("gc_obj_list") : ref_count[n] > 0
  BY <1>1, <1>2, <1>3, InList
<1>7. /\ \A n, M : Refs(n, M)' = Refs(n, M)
      /\ \A n : Total(n)' = Total(n)
      /\ Roots' = Roots
      /\ \A S : Closed(S)' = Closed(S)
  BY <1>1, SameReferences
<1>8. TypeOK' /\ HoldsObjects'
  BY <1>1 DEF IInv, TypeOK, HoldsObjects, roots, Passes
<1>9. Counted'
  <2>1. \A n : Refs(n, {}) = 0
    BY RefsZero
  <2> QED BY <1>1, <1>2, <1>5, <1>7, <2>1 DEF Counted, Counting, roots
<1>10. ListsInUse' /\ FreedHoldNothing' /\ WeakRefsAreSafe'
  BY <1>1, InList DEF IInv, ListsInUse, FreedHoldNothing, Freed, WeakRefsAreSafe, WeakRefsTo
<1>11. Traversed'
  BY <1>1, <1>3, <1>6, InList DEF Traversed
<1>12. NoDangling' /\ Live'
  BY <1>1, <1>7, InList DEF IInv, NoDangling, Live
<1>13. Least'
  <2>1. \A n \in In("gc_obj_list") : n \in Roots
    BY <1>2, <1>5, <1>6, InList DEF Roots
  <2> QED BY <1>1, <1>7, <2>1, InList DEF Least
<1>14. Kept'
  BY <1>1 DEF Kept
<1> QED BY <1>8, <1>9, <1>10, <1>11, <1>12, <1>13, <1>14 DEF IInv

LEMMA ScanKeeps ==
    ASSUME IInv, NEW m \in Nodes, Scan(m)
    PROVE  IInv'
<1>1. /\ pass = "scan" /\ pass' = "scan"
      /\ at[m] = "gc_obj_list" /\ m \notin visited /\ visited' = visited \cup {m}
      /\ \A n \in Nodes : ref_count'[n] = ref_count[n] + Refs(n, {m})
      /\ \A n \in Nodes : at'[n] = IF at[n] = "tmp_obj_list" /\ ref_count'[n] > 0
                                    THEN "gc_obj_list" ELSE at[n]
      /\ UNCHANGED <<ref, weak, roots>>
  BY DEF Scan
<1>2. /\ TypeOK /\ visited \subseteq Nodes
      /\ stack \in [Nodes -> Nat] /\ owned \in [Nodes -> Nat] /\ ref_count \in [Nodes -> Nat]
      /\ at \in [Nodes -> Lists \cup {"free", "husk"}]
  BY DEF IInv, TypeOK
<1>3. \A n \in Nodes : /\ ref_count'[n] = stack[n] + owned[n] + Refs(n, visited')
                       /\ ref_count'[n] \in Nat /\ ref_count'[n] >= ref_count[n]
  <2> TAKE n \in Nodes
  <2>1. ref_count[n] = stack[n] + owned[n] + Refs(n, visited)
    BY <1>1 DEF IInv, Counted, Counting
  <2>2. Refs(n, visited') = Refs(n, visited) + Refs(n, {m})
    BY <1>1, <1>2, RefsUnion
  <2> QED BY <1>1, <1>2, <2>1, <2>2, RefsType
<1>4. /\ visited \subseteq In("gc_obj_list")
      /\ \A n \in In("gc_obj_list") : ref_count[n] > 0
      /\ \A n \in In("tmp_obj_list") : ref_count[n] = 0
  BY <1>1 DEF IInv, Traversed
<1>5. /\ \A n, M : Refs(n, M)' = Refs(n, M)
      /\ \A n : Total(n)' = Total(n)
      /\ Roots' = Roots
      /\ \A S : Closed(S)' = Closed(S)
  BY <1>1, SameReferences
<1>6. \A n \in Nodes :
        /\ at'[n] \in {"gc_obj_list", "tmp_obj_list"} <=> at[n] \in {"gc_obj_list", "tmp_obj_list"}
        /\ at'[n] \notin {"gc_obj_list", "tmp_obj_list"} => at'[n] = at[n]
        /\ at[n] = "gc_obj_list" => at'[n] = "gc_obj_list"
  BY <1>1
<1>7. TypeOK'
  <2>1. ref_count' \in [Nodes -> Nat]
    BY <1>1, <1>3 DEF Scan
  <2>2. at' \in [Nodes -> Lists \cup {"free", "husk"}]
    BY <1>2 DEF Scan, Lists
  <2> QED BY <1>1, <1>2, <2>1, <2>2 DEF TypeOK, roots
<1>8. Counted' /\ HoldsObjects'
  BY <1>1, <1>3, <1>5 DEF IInv, Counted, Counting, HoldsObjects, roots
<1>9. ListsInUse'
  BY <1>1, <1>6, InList DEF IInv, ListsInUse
<1>10. Traversed'
  <2>1. visited' \subseteq In("gc_obj_list")'
    BY <1>1, <1>4, <1>6, InList
  <2>2. \A n \in In("gc_obj_list")' : ref_count'[n] > 0
    BY <1>1, <1>2, <1>3, <1>4, InList
  <2>3. \A n \in In("tmp_obj_list")' : ref_count'[n] = 0
    BY <1>1, <1>2, <1>3, InList
  <2> QED BY <1>1, <2>1, <2>2, <2>3 DEF Traversed
<1>11. FreedHoldNothing'
  BY <1>1, <1>6, InList DEF IInv, FreedHoldNothing, Freed
<1>12. NoDangling' /\ Live'
  BY <1>1, <1>5, <1>6, InList DEF IInv, NoDangling, Live
<1>13. WeakRefsAreSafe'
  <2> SUFFICES ASSUME NEW n \in Objects
               PROVE  /\ WeakRefsTo(n) # {} => at'[n] # "free"
                      /\ at'[n] = "husk" => WeakRefsTo(n) # {} /\ ref_count'[n] = 0
    BY <1>1 DEF WeakRefsAreSafe, WeakRefsTo
  <2>1. /\ WeakRefsTo(n) # {} => at[n] # "free"
        /\ at[n] = "husk" => WeakRefsTo(n) # {} /\ Total(n) = 0
    BY Domains DEF IInv, WeakRefsAreSafe, NoDangling
  <2>2. at[n] = "husk" => ref_count'[n] = 0
    <3>1. Refs(n, visited') <= Refs(n, Nodes) /\ Refs(n, visited') \in Nat /\ Refs(n, Nodes) \in Nat
      BY <1>1, <1>2, RefsMonotone, RefsType
    <3>2. at[n] = "husk" => stack[n] + owned[n] + Refs(n, Nodes) = 0
      BY <2>1 DEF Total
    <3> QED BY <1>2, <1>3, <3>1, <3>2, Domains
  <2> QED BY <1>6, <2>1, <2>2, Domains
<1>14. Least'
  <2> SUFFICES ASSUME NEW S \in SUBSET Nodes, Roots \subseteq S, Closed(S), NEW n \in In("gc_obj_list")'
               PROVE  n \in S
    BY <1>1, <1>5 DEF Least
  <2>1. In("gc_obj_list") \subseteq S
    BY <1>1 DEF IInv, Least
  <2>2. CASE n \notin In("gc_obj_list")
    <3>1. ref_count[n] = 0 /\ ref_count'[n] > 0 /\ n \in Nodes
      BY <1>1, <1>4, <2>2, InList
    <3>2. Refs(n, {m}) # 0
      BY <1>1, <3>1
    <3>3. PICK s \in Slots : ref[<<m, s>>] = n
      BY <3>2, RefsZero
    <3> QED BY <1>1, <2>1, <3>1, <3>3, ClosedSlots, InList, Domains
  <2> QED BY <2>1, <2>2
<1>15. Kept'
  BY <1>1 DEF Kept
<1> QED BY <1>7, <1>8, <1>9, <1>10, <1>11, <1>12, <1>13, <1>14, <1>15 DEF IInv

LEMMA ScanDoneKeeps ==
    ASSUME IInv, ScanDone
    PROVE  IInv'
<1>1. /\ pass = "scan" /\ pass' = "restore"
      /\ In("gc_obj_list") \subseteq visited
      /\ UNCHANGED <<ref, weak, roots, ref_count, at, visited>>
  BY DEF ScanDone
<1>2. /\ TypeOK /\ visited \subseteq Nodes
      /\ stack \in [Nodes -> Nat] /\ owned \in [Nodes -> Nat] /\ ref_count \in [Nodes -> Nat]
      /\ at \in [Nodes -> Lists \cup {"free", "husk"}]
      /\ ref \in [Nodes \X Slots -> Nodes \cup {Null}]
  BY DEF IInv, TypeOK
<1>3. /\ visited = In("gc_obj_list")
      /\ \A n \in In("gc_obj_list") : ref_count[n] > 0
      /\ \A n \in In("tmp_obj_list") : ref_count[n] = 0
      /\ \A n \in Nodes : ref_count[n] = stack[n] + owned[n] + Refs(n, visited)
  BY <1>1 DEF IInv, Traversed, Counted, Counting
<1>4. /\ \A n, M : Refs(n, M)' = Refs(n, M)
      /\ \A n : Total(n)' = Total(n)
      /\ Roots' = Roots
      /\ \A S : Closed(S)' = Closed(S)
  BY <1>1, SameReferences
<1>5. \A n \in Nodes : Total(n) # 0 => at[n] \in {"gc_obj_list", "tmp_obj_list"}
  BY <1>1, <1>2, InList DEF IInv, NoDangling, ListsInUse, Lists
<1>6. \A n \in Nodes : ref_count[n] > 0 => n \in In("gc_obj_list")
  <2> SUFFICES ASSUME NEW n \in Nodes, ref_count[n] > 0
               PROVE  n \in In("gc_obj_list")
    OBVIOUS
  <2>1. Refs(n, visited) <= Refs(n, Nodes) /\ Refs(n, visited) \in Nat /\ Refs(n, Nodes) \in Nat
    BY <1>2, RefsMonotone, RefsType
  <2>2. Total(n) # 0
    BY <1>2, <1>3, <2>1 DEF Total
  <2> QED BY <1>3, <1>5, <2>2, InList
<1>7. Roots \subseteq In("gc_obj_list")
  <2> SUFFICES ASSUME NEW n \in Nodes, stack[n] + owned[n] > 0
               PROVE  ref_count[n] > 0
    BY <1>6 DEF Roots
  <2> QED BY <1>2, <1>3, RefsType
<1>8. Closed(In("gc_obj_list"))
  <2> SUFFICES ASSUME NEW m \in In("gc_obj_list"), NEW s \in Slots, ref[<<m, s>>] # Null
               PROVE  ref[<<m, s>>] \in In("gc_obj_list")
    BY ClosedSlots
  <2> DEFINE n == ref[<<m, s>>]
  <2>1. n \in Nodes
    BY <1>2, InList
  <2>2. Refs(n, visited) # 0
    BY <1>2, <1>3, RefsZero
  <2>3. ref_count[n] > 0
    <3>1. Refs(n, visited) \in Nat
      BY <1>2, RefsType
    <3>2. stack[n] \in Nat /\ owned[n] \in Nat /\ ref_count[n] = stack[n] + owned[n] + Refs(n, visited)
      BY <1>2, <1>3, <2>1
    <3> HIDE DEF n
    <3> QED BY <2>2, <3>1, <3>2
  <2> QED BY <1>6, <2>1, <2>3
<1>9. Kept'
  <2>1. \A n \in In("gc_obj_list") : stack[n] + owned[n] + Refs(n, In("gc_obj_list")) > 0
    BY <1>3, InList
  <2> QED BY <1>1, <1>4, <1>7, <1>8, <2>1, InList DEF Kept, roots, In
<1>10. Least'
  BY <1>1, <1>4, InList DEF IInv, Least
<1>11. TypeOK' /\ HoldsObjects' /\ Counted'
  BY <1>1, <1>4 DEF IInv, TypeOK, HoldsObjects, Counted, Counting, roots, Passes
<1>12. ListsInUse' /\ FreedHoldNothing' /\ WeakRefsAreSafe'
  BY <1>1, InList DEF IInv, ListsInUse, FreedHoldNothing, Freed, WeakRefsAreSafe, WeakRefsTo
<1>13. Traversed' /\ NoDangling' /\ Live'
  BY <1>1, <1>4, InList DEF IInv, Traversed, NoDangling, Live
<1> QED BY <1>9, <1>10, <1>11, <1>12, <1>13 DEF IInv

LEMMA RestoreKeeps ==
    ASSUME IInv, NEW m \in Nodes, Restore(m)
    PROVE  IInv'
<1>1. /\ pass = "restore" /\ pass' = "restore"
      /\ at[m] = "tmp_obj_list" /\ m \notin visited /\ visited' = visited \cup {m}
      /\ \A n \in Nodes : ref_count'[n] = ref_count[n] + Refs(n, {m})
      /\ UNCHANGED <<ref, weak, roots, at>>
  BY DEF Restore
<1>2. /\ TypeOK /\ visited \subseteq Nodes
      /\ stack \in [Nodes -> Nat] /\ owned \in [Nodes -> Nat] /\ ref_count \in [Nodes -> Nat]
      /\ at \in [Nodes -> Lists \cup {"free", "husk"}]
  BY DEF IInv, TypeOK
<1>3. \A n \in Nodes : /\ ref_count'[n] = stack[n] + owned[n] + Refs(n, visited')
                       /\ ref_count'[n] \in Nat
  <2> TAKE n \in Nodes
  <2>1. ref_count[n] = stack[n] + owned[n] + Refs(n, visited)
    BY <1>1 DEF IInv, Counted, Counting
  <2>2. Refs(n, visited') = Refs(n, visited) + Refs(n, {m})
    BY <1>1, <1>2, RefsUnion
  <2> QED BY <1>1, <1>2, <2>1, <2>2, RefsType
<1>4. /\ \A n, M : Refs(n, M)' = Refs(n, M)
      /\ \A n : Total(n)' = Total(n)
      /\ Roots' = Roots
      /\ \A S : Closed(S)' = Closed(S)
  BY <1>1, SameReferences
<1>5. TypeOK'
  <2>1. ref_count' \in [Nodes -> Nat]
    BY <1>1, <1>3 DEF Restore
  <2> QED BY <1>1, <1>2, <2>1 DEF TypeOK, roots
<1>6. Counted' /\ HoldsObjects'
  BY <1>1, <1>3, <1>4 DEF IInv, Counted, Counting, HoldsObjects, roots
<1>7. ListsInUse' /\ FreedHoldNothing'
  BY <1>1, InList DEF IInv, ListsInUse, FreedHoldNothing, Freed
<1>8. Traversed'
  BY <1>1, <1>2, InList DEF IInv, Traversed
<1>9. NoDangling' /\ Live'
  BY <1>1, <1>4, InList DEF IInv, NoDangling, Live
<1>10. WeakRefsAreSafe'
  <2> SUFFICES ASSUME NEW n \in Objects, at[n] = "husk"
               PROVE  ref_count'[n] = 0
    BY <1>1 DEF IInv, WeakRefsAreSafe, WeakRefsTo
  <2>1. stack[n] + owned[n] + Refs(n, Nodes) = 0
    BY Domains DEF IInv, NoDangling, Total
  <2>2. /\ Refs(n, visited') <= Refs(n, Nodes)
        /\ Refs(n, visited') \in Nat /\ Refs(n, Nodes) \in Nat
    BY <1>1, <1>2, RefsMonotone, RefsType
  <2> QED BY <1>2, <1>3, <2>1, <2>2, Domains
<1>11. Kept' /\ Least'
  <2>1. In("gc_obj_list")' = In("gc_obj_list")
    BY <1>1 DEF In
  <2> QED BY <1>1, <1>4, <2>1 DEF IInv, Kept, Least, roots
<1> QED BY <1>5, <1>6, <1>7, <1>8, <1>9, <1>10, <1>11 DEF IInv

LEMMA RestoreDoneKeeps ==
    ASSUME IInv, RestoreDone
    PROVE  IInv'
<1>1. /\ pass = "restore" /\ pass' = "cycles" /\ visited' = {}
      /\ In("tmp_obj_list") \subseteq visited
      /\ UNCHANGED <<ref, weak, roots, ref_count, at>>
  BY DEF RestoreDone, Turn
<1>2. /\ TypeOK /\ visited \subseteq Nodes
      /\ stack \in [Nodes -> Nat] /\ owned \in [Nodes -> Nat] /\ ref_count \in [Nodes -> Nat]
      /\ at \in [Nodes -> Lists \cup {"free", "husk"}]
  BY DEF IInv, TypeOK
<1>3. \A n \in Nodes : ref_count[n] = stack[n] + owned[n] + Refs(n, Nodes)
  <2>1. \A n \in Nodes : ref_count[n] = stack[n] + owned[n] + Refs(n, visited)
    BY <1>1 DEF IInv, Counted, Counting
  <2>2. In("gc_obj_list") \cup In("tmp_obj_list") \subseteq visited
    BY <1>1 DEF IInv, Traversed
  <2>3. \A n \in Nodes : Refs(n, Nodes) = Refs(n, visited)
    BY <1>1, <2>2, TraversedHoldAll
  <2> QED BY <2>1, <2>3
<1>4. /\ \A n, M : Refs(n, M)' = Refs(n, M)
      /\ \A n : Total(n)' = Total(n)
      /\ Roots' = Roots
      /\ \A S : Closed(S)' = Closed(S)
  BY <1>1, SameReferences
<1>5. \A n \in Nodes : ref_count[n] = Total(n)
  BY <1>3 DEF Total
<1>6. TypeOK' /\ HoldsObjects'
  BY <1>1 DEF IInv, TypeOK, HoldsObjects, roots, Passes
<1>7. Counted'
  BY <1>1, <1>3, <1>4 DEF Counted, Counting, roots
<1>8. In("gc_zero_ref_count_list") = {}
  BY <1>1 DEF IInv, ListsInUse
<1>9. ListsInUse' /\ WeakRefsAreSafe'
  BY <1>1, <1>8, InList DEF IInv, ListsInUse, WeakRefsAreSafe, WeakRefsTo
<1>10. Freed' = Freed
  BY <1>1, <1>8, InList, Domains DEF Freed
<1>11. FreedHoldNothing' /\ Traversed'
  BY <1>1, <1>10 DEF IInv, FreedHoldNothing, Traversed
<1>12. NoDangling'
  BY <1>1, <1>4 DEF IInv, NoDangling
<1>13. Live'
  BY <1>1, <1>5, <1>8, InList DEF IInv, Live
<1>14. Kept' /\ Least'
  <2>1. In("gc_obj_list")' = In("gc_obj_list")
    BY <1>1 DEF In
  <2> QED BY <1>1, <1>4, <2>1 DEF IInv, Kept, Least, roots
<1> QED BY <1>6, <1>7, <1>9, <1>11, <1>12, <1>13, <1>14 DEF IInv

(* What is in the list of zero references when the cycles are broken up    *)
(* has none, and is no closure variable and no context.                    *)
LEMMA CyclesDoneKeeps ==
    ASSUME IInv, CyclesDone
    PROVE  IInv'
<1>1. /\ pass = "cycles" /\ pass' = "sweep" /\ visited' = {}
      /\ In("tmp_obj_list") = {}
      /\ UNCHANGED <<ref, weak, roots, ref_count, at>>
  BY DEF CyclesDone, Turn
<1>2. /\ TypeOK
      /\ ref \in [Nodes \X Slots -> Nodes \cup {Null}]
      /\ stack \in [Nodes -> Nat] /\ owned \in [Nodes -> Nat] /\ ref_count \in [Nodes -> Nat]
      /\ at \in [Nodes -> Lists \cup {"free", "husk"}]
  BY DEF IInv, TypeOK
<1>3. /\ Roots \subseteq In("gc_obj_list") /\ Closed(In("gc_obj_list"))
      /\ \A n \in Nodes : ref_count[n] = stack[n] + owned[n] + Refs(n, Nodes)
  BY <1>1 DEF IInv, Kept, Counted, Counting
<1>4. \A m \in Nodes : at[m] \in {"gc_obj_list", "gc_zero_ref_count_list", "free", "husk"}
  BY <1>1, <1>2, InList DEF Lists
<1>5. \A m \in Nodes, s \in Slots :
        ref[<<m, s>>] # Null =>
            m \in In("gc_obj_list") \/ (m \in Others /\ at[m] = "gc_zero_ref_count_list")
  <2>1. \A m \in Freed, s \in Slots : ref[<<m, s>>] = Null
    BY DEF IInv, FreedHoldNothing
  <2> QED BY <1>1, <1>4, <2>1, InList, Domains DEF Freed
<1>6. \A n \in Nodes : at[n] = "gc_zero_ref_count_list" => stack[n] + owned[n] = 0
  BY <1>2, <1>3, InList DEF Roots
<1>7. \A n \in Nodes, m \in In("gc_obj_list"), s \in Slots :
        at[n] = "gc_zero_ref_count_list" => ref[<<m, s>>] # n
  BY <1>3, ClosedSlots, InList, Domains
<1>8. \A n \in Others : at[n] # "gc_zero_ref_count_list"
  <2> SUFFICES ASSUME NEW n \in Others, at[n] = "gc_zero_ref_count_list"
               PROVE  FALSE
    OBVIOUS
  <2>1. n \in Nodes /\ ref_count[n] > 0
    BY <1>1, InList, Domains DEF IInv, Live
  <2>2. \A m \in Others, s \in Slots : ref[<<m, s>>] # n
    BY <2>1, Domains DEF IInv, HoldsObjects
  <2>3. Refs(n, Nodes) = 0
    BY <1>5, <1>7, <2>1, <2>2, RefsZero, Domains
  <2> QED BY <1>2, <1>3, <1>6, <2>1, <2>3
<1>9. \A n \in In("gc_zero_ref_count_list") : n \in Objects /\ ref_count[n] = 0
  <2> SUFFICES ASSUME NEW n \in Nodes, at[n] = "gc_zero_ref_count_list"
               PROVE  ref_count[n] = 0
    BY <1>8, InList, Domains
  <2>1. Refs(n, Nodes) = 0
    BY <1>5, <1>7, <1>8, RefsZero, Domains
  <2> QED BY <1>2, <1>3, <1>6, <2>1
<1>10. /\ \A n, M : Refs(n, M)' = Refs(n, M)
       /\ \A n : Total(n)' = Total(n)
       /\ Roots' = Roots
       /\ \A S : Closed(S)' = Closed(S)
  BY <1>1, SameReferences
<1>11. TypeOK' /\ HoldsObjects'
  BY <1>1 DEF IInv, TypeOK, HoldsObjects, roots, Passes
<1>12. Counted'
  BY <1>1, <1>3, <1>10 DEF Counted, Counting, roots
<1>13. ListsInUse' /\ WeakRefsAreSafe'
  BY <1>1, <1>9, InList DEF IInv, ListsInUse, WeakRefsAreSafe, WeakRefsTo
<1>14. FreedHoldNothing' /\ Traversed' /\ NoDangling' /\ Live'
  BY <1>1, <1>10, InList DEF IInv, FreedHoldNothing, Freed, Traversed, NoDangling, Live
<1>15. Kept' /\ Least'
  <2>1. In("gc_obj_list")' = In("gc_obj_list")
    BY <1>1 DEF In
  <2> QED BY <1>1, <1>10, <2>1 DEF IInv, Kept, Least, roots
<1> QED BY <1>11, <1>12, <1>13, <1>14, <1>15 DEF IInv

LEMMA SweepKeeps ==
    ASSUME IInv, Sweep
    PROVE  IInv'
<1>1. /\ pass = "sweep" /\ pass' = "none" /\ visited' = {}
      /\ \A n \in Nodes : at'[n] = IF at[n] # "gc_zero_ref_count_list" THEN at[n]
                                    ELSE IF WeakRefsTo(n) # {} THEN "husk" ELSE "free"
      /\ UNCHANGED <<ref, weak, roots, ref_count>>
  BY DEF Sweep, Turn
<1>2. /\ TypeOK /\ stack \in [Nodes -> Nat] /\ owned \in [Nodes -> Nat]
      /\ ref_count \in [Nodes -> Nat] /\ at \in [Nodes -> Lists \cup {"free", "husk"}]
  BY DEF IInv, TypeOK
<1>3. /\ \A n \in In("gc_zero_ref_count_list") : n \in Objects /\ ref_count[n] = 0
      /\ In("tmp_obj_list") = {}
  BY <1>1 DEF IInv, ListsInUse
<1>4. \A n \in Nodes : ref_count[n] = stack[n] + owned[n] + Refs(n, Nodes)
  BY <1>1 DEF IInv, Counted, Counting
<1>5. /\ \A n, M : Refs(n, M)' = Refs(n, M)
      /\ \A n : Total(n)' = Total(n)
  BY <1>1, SameReferences
<1>6. /\ \A n \in Nodes : at'[n] \in {"gc_obj_list", "free", "husk"}
      /\ \A n \in Nodes : at'[n] = "gc_obj_list" <=> at[n] = "gc_obj_list"
  BY <1>1, <1>2, <1>3, InList DEF Lists
<1>7. TypeOK' /\ HoldsObjects'
  <2>1. at' \in [Nodes -> Lists \cup {"free", "husk"}]
    BY <1>2 DEF Sweep, Lists
  <2> QED BY <1>1, <2>1 DEF IInv, TypeOK, HoldsObjects, roots, Passes
<1>8. Counted' /\ ListsInUse' /\ Traversed'
  BY <1>1, <1>4, <1>5, <1>6, InList DEF Counted, Counting, ListsInUse, Traversed, roots
<1>9. FreedHoldNothing'
  <2>1. Freed' \subseteq Freed
    BY <1>1, <1>3, InList DEF Freed
  <2> QED BY <1>1, <2>1 DEF IInv, FreedHoldNothing
<1>10. NoDangling'
  <2> SUFFICES ASSUME NEW n \in Nodes, at'[n] \in {"free", "husk"}
               PROVE  Total(n) = 0
    BY <1>5 DEF NoDangling
  <2>1. CASE at[n] = "gc_zero_ref_count_list"
    BY <1>3, <1>4, <2>1, InList DEF Total
  <2>2. CASE at[n] # "gc_zero_ref_count_list"
    BY <1>1, <2>2 DEF IInv, NoDangling
  <2> QED BY <2>1, <2>2
<1>11. Live'
  <2> SUFFICES ASSUME NEW n \in Nodes, at[n] = "gc_obj_list"
               PROVE  Total(n) > 0
    BY <1>1, <1>5, <1>6, InList DEF Live
  <2>1. stack[n] + owned[n] + Refs(n, In("gc_obj_list")) > 0
    BY <1>1, InList DEF IInv, Kept
  <2>2. Refs(n, In("gc_obj_list")) <= Refs(n, Nodes)
    BY RefsMonotone DEF In
  <2>3. /\ Refs(n, In("gc_obj_list")) \in Nat /\ Refs(n, Nodes) \in Nat
        /\ stack[n] \in Nat /\ owned[n] \in Nat
    BY <1>2, RefsType DEF In
  <2> QED BY <2>1, <2>2, <2>3 DEF Total
<1>12. WeakRefsAreSafe'
  <2>1. \A n : WeakRefsTo(n)' = WeakRefsTo(n)
    BY <1>1 DEF WeakRefsTo
  <2> QED BY <1>1, <1>3, <2>1, InList, Domains DEF IInv, WeakRefsAreSafe
<1>13. Kept' /\ Least'
  BY <1>1 DEF Kept, Least
<1> QED BY <1>7, <1>8, <1>9, <1>10, <1>11, <1>12, <1>13 DEF IInv

-----------------------------------------------------------------------------
(* Freeing an object, and what depends on it.                              *)

LEMMA FreeObjectEffect ==
    ASSUME IInv, pass \in {"zero", "cycles"}, UNCHANGED roots,
           NEW p \in Objects, at[p] \in {"tmp_obj_list", "gc_zero_ref_count_list"},
           NEW list, NEW zero, zero \subseteq Objects \cap In("gc_obj_list"),
           FreeObject(p, list, zero)
    PROVE  /\ Dependent(p) \subseteq Others
           /\ ref' \in [Nodes \X Slots -> Nodes \cup {Null}]
           /\ \A m \in Nodes, s \in Slots :
                ref'[<<m, s>>] = IF m = p \/ m \in Dependent(p) THEN Null ELSE ref[<<m, s>>]
           /\ ref_count' \in [Nodes -> Nat]
           /\ \A n \in Nodes : ref_count[n] = Total(n) /\ ref_count'[n] = Total(n)'
           /\ \A n \in Nodes : ref_count'[n] <= ref_count[n]
           /\ \A n \in Dependent(p) : ref_count'[n] = 0 /\ ref_count[n] = Refs(n, {p}) /\ ref_count[n] > 0
           /\ \A n \in Others \ Dependent(p) : ref_count[n] > 0 => ref_count'[n] > 0
           /\ weak' \in [Objects -> Objects \cup {Null}]
           /\ \A o \in Objects : weak'[o] = IF o = p THEN Null ELSE weak[o]
           /\ \A n \in Dependent(p) : n # p /\ n \notin Objects /\ at[n] # "husk"
<1> DEFINE M == {p} \cup Dependent(p)
<1>1. /\ ref' = [e \in Nodes \X Slots |-> IF e[1] \in M THEN Null ELSE ref[e]]
      /\ ref_count' = [n \in Nodes |-> ref_count[n] - Refs(n, M)]
      /\ weak' = [weak EXCEPT ![p] = Null]
  BY DEF FreeObject, Release
<1>2. /\ ref \in [Nodes \X Slots -> Nodes \cup {Null}]
      /\ weak \in [Objects -> Objects \cup {Null}]
      /\ stack \in [Nodes -> Nat] /\ owned \in [Nodes -> Nat] /\ ref_count \in [Nodes -> Nat]
  BY DEF IInv, TypeOK
<1>3. Dependent(p) \subseteq Others
  BY DEF Dependent
<1>4. M \in SUBSET Nodes /\ {p} \in SUBSET Nodes /\ Dependent(p) \in SUBSET Nodes /\ p \notin Dependent(p)
  BY <1>3, Domains
<1>5. \A n \in Nodes : ref_count[n] = Total(n)
  BY DEF IInv, Counted, Counting, Total
<1>6. \A n \in Nodes : /\ Refs(n, Nodes)' = Refs(n, Nodes) - Refs(n, M)
                       /\ Refs(n, M) <= Refs(n, Nodes)
  <2>1. \A e \in Nodes \X Slots : ref'[e] = IF e[1] \in M THEN Null ELSE ref[e]
    BY <1>1
  <2> HIDE DEF M
  <2> QED BY <1>4, <2>1, CountRelease, RefsIsCount
<1>7. \A n \in Nodes : ref_count'[n] = ref_count[n] - Refs(n, M)
  BY <1>1
<1>8. \A n \in Nodes : /\ ref_count'[n] \in Nat /\ ref_count'[n] <= ref_count[n]
                       /\ ref_count'[n] = Total(n)'
  <2> TAKE n \in Nodes
  <2>1. /\ Refs(n, M) \in Nat /\ Refs(n, Nodes) \in Nat /\ Refs(n, M) <= Refs(n, Nodes)
        /\ stack[n] \in Nat /\ owned[n] \in Nat
    BY <1>2, <1>4, <1>6, RefsType
  <2>2. ref_count[n] = stack[n] + owned[n] + Refs(n, Nodes)
    BY <1>5 DEF Total
  <2>3. Total(n)' = stack[n] + owned[n] + (Refs(n, Nodes) - Refs(n, M))
    BY <1>6 DEF Total, roots
  <2> HIDE DEF M
  <2> QED BY <1>7, <2>1, <2>2, <2>3
<1>9. \A n \in Others : Refs(n, M) = Refs(n, {p})
  <2> TAKE n \in Others
  <2>1. Refs(n, M) = Refs(n, {p}) + Refs(n, Dependent(p))
    BY <1>4, RefsUnion
  <2>2. \A m \in Dependent(p), s \in Slots : ref[<<m, s>>] # n
    BY <1>3, Domains DEF IInv, HoldsObjects
  <2>3. Refs(n, Dependent(p)) = 0
    BY <1>4, <2>2, RefsZero
  <2>4. Refs(n, {p}) \in Nat
    BY <1>4, RefsType
  <2> HIDE DEF M
  <2> QED BY <2>1, <2>3, <2>4
<1>10. \A n \in Dependent(p) : ref_count'[n] = 0 /\ ref_count[n] = Refs(n, {p}) /\ ref_count[n] > 0
  <2> SUFFICES ASSUME NEW n \in Dependent(p)
               PROVE  ref_count'[n] = 0 /\ ref_count[n] = Refs(n, {p}) /\ ref_count[n] > 0
    OBVIOUS
  <2>1. n \in Others /\ n \in Nodes /\ ref_count[n] = Refs(n, {p}) /\ ref_count[n] > 0
    BY <1>4 DEF Dependent
  <2>2. ref_count'[n] = ref_count[n] - Refs(n, {p})
    BY <1>7, <1>9, <2>1
  <2>3. ref_count[n] \in Nat
    BY <1>2, <2>1
  <2> HIDE DEF M
  <2> QED BY <2>1, <2>2, <2>3
<1>11. \A n \in Others \ Dependent(p) : ref_count[n] > 0 => ref_count'[n] > 0
  <2> SUFFICES ASSUME NEW n \in Others, n \notin Dependent(p), ref_count[n] > 0
               PROVE  ref_count'[n] > 0
    OBVIOUS
  <2>1. n \in Nodes /\ ref_count'[n] = ref_count[n] - Refs(n, {p}) /\ Refs(n, {p}) \in Nat
    BY <1>4, <1>7, <1>9, RefsType, Domains
  <2>2. ref_count'[n] \in Nat /\ ref_count[n] \in Nat
    BY <1>2, <1>8, <2>1
  <2>3. Refs(n, {p}) > 0 => Refs(n, {p}) # ref_count[n]
    BY DEF Dependent
  <2> QED BY <2>1, <2>2, <2>3
<1>12. /\ ref' \in [Nodes \X Slots -> Nodes \cup {Null}]
       /\ \A m \in Nodes, s \in Slots :
            ref'[<<m, s>>] = IF m = p \/ m \in Dependent(p) THEN Null ELSE ref[<<m, s>>]
  BY <1>1, <1>2
<1>13. ref_count' \in [Nodes -> Nat]
  BY <1>1, <1>8
<1>14. /\ weak' \in [Objects -> Objects \cup {Null}]
       /\ \A o \in Objects : weak'[o] = IF o = p THEN Null ELSE weak[o]
  BY <1>1, <1>2
<1>15. \A n \in Dependent(p) : n # p /\ n \notin Objects /\ at[n] # "husk"
  BY <1>3, <1>4, <1>5, <1>10, Domains DEF IInv, NoDangling
<1> QED BY <1>3, <1>5, <1>8, <1>10, <1>11, <1>12, <1>13, <1>14, <1>15

(* Where the nodes are after a turn of free_zero_refcount, and after an    *)
(* object of a cycle was freed.                                            *)
LEMMA FreeZeroPlaces ==
    ASSUME IInv, NEW p \in Objects, FreeZero(p)
    PROVE  \A n \in Nodes : at'[n] =
                IF n \in Dependent(p) THEN "free"
                ELSE IF n = p
                THEN IF ref_count'[p] = 0 /\ WeakRefsTo(p)' = {} THEN "free" ELSE "husk"
                ELSE IF at[n] = "husk"
                THEN IF WeakRefsTo(n)' = {} THEN "free" ELSE "husk"
                ELSE IF n \in Objects \cap In("gc_obj_list") /\ ref_count'[n] = 0
                THEN "gc_zero_ref_count_list" ELSE at[n]
<1> DEFINE zero == Objects \cap In("gc_obj_list")
<1>1. /\ pass = "zero" /\ at[p] = "gc_zero_ref_count_list" /\ UNCHANGED roots
      /\ FreeObject(p, "husk", zero) /\ zero \subseteq Objects \cap In("gc_obj_list")
  BY DEF FreeZero
<1>2. \A n \in zero : at[n] = "gc_obj_list"
  BY InList
<1>3. \A n \in Dependent(p) : n # p /\ n \notin Objects /\ at[n] # "husk"
  <2> HIDE DEF zero
  <2> QED BY <1>1, FreeObjectEffect
<1> QED BY <1>1, <1>2, <1>3 DEF FreeObject

LEMMA FreeCyclePlaces ==
    ASSUME IInv, NEW p \in Objects, FreeCycle(p)
    PROVE  \A n \in Nodes : at'[n] =
                IF n \in Dependent(p) THEN "free"
                ELSE IF n = p
                THEN IF ref_count'[p] = 0 /\ WeakRefsTo(p)' = {} THEN "free"
                     ELSE "gc_zero_ref_count_list"
                ELSE IF at[n] = "husk"
                THEN IF WeakRefsTo(n)' = {} THEN "free" ELSE "husk"
                ELSE at[n]
<1> DEFINE zero == {} list == "gc_zero_ref_count_list"
<1>1. /\ pass = "cycles" /\ at[p] = "tmp_obj_list" /\ UNCHANGED roots
      /\ FreeObject(p, list, zero) /\ zero \subseteq Objects \cap In("gc_obj_list")
  BY DEF FreeCycle
<1>2. \A n \in Dependent(p) : n # p /\ n \notin Objects /\ at[n] # "husk"
  <2> HIDE DEF zero, list
  <2> QED BY <1>1, FreeObjectEffect
<1> QED BY <1>1, <1>2 DEF FreeObject

LEMMA FreeZeroKeeps ==
    ASSUME IInv, NEW p \in Objects, FreeZero(p)
    PROVE  IInv'
<1> DEFINE new == Objects \cap In("gc_obj_list")
<1>1. /\ pass = "zero" /\ pass' = "zero" /\ at[p] = "gc_zero_ref_count_list"
      /\ FreeObject(p, "husk", new) /\ UNCHANGED <<roots, visited>>
  BY DEF FreeZero
<1>2. /\ Dependent(p) \subseteq Others
      /\ ref' \in [Nodes \X Slots -> Nodes \cup {Null}]
      /\ \A m \in Nodes, s \in Slots :
            ref'[<<m, s>>] = IF m = p \/ m \in Dependent(p) THEN Null ELSE ref[<<m, s>>]
      /\ ref_count' \in [Nodes -> Nat]
      /\ \A n \in Nodes : ref_count[n] = Total(n) /\ ref_count'[n] = Total(n)'
      /\ \A n \in Nodes : ref_count'[n] <= ref_count[n]
      /\ \A n \in Dependent(p) : ref_count'[n] = 0 /\ ref_count[n] > 0
      /\ \A n \in Others \ Dependent(p) : ref_count[n] > 0 => ref_count'[n] > 0
      /\ weak' \in [Objects -> Objects \cup {Null}]
      /\ \A o \in Objects : weak'[o] = IF o = p THEN Null ELSE weak[o]
  BY <1>1, FreeObjectEffect
<1>3. \A n \in Nodes : at'[n] =
        IF n \in Dependent(p) THEN "free"
        ELSE IF n = p
        THEN IF ref_count'[p] = 0 /\ WeakRefsTo(p)' = {} THEN "free" ELSE "husk"
        ELSE IF at[n] = "husk"
        THEN IF WeakRefsTo(n)' = {} THEN "free" ELSE "husk"
        ELSE IF n \in new /\ ref_count'[n] = 0 THEN "gc_zero_ref_count_list" ELSE at[n]
  BY FreeZeroPlaces
<1>4. /\ TypeOK /\ ref_count \in [Nodes -> Nat] /\ at \in [Nodes -> Lists \cup {"free", "husk"}]
  BY DEF IInv, TypeOK
<1>5. /\ In("tmp_obj_list") = {} /\ visited = {}
      /\ \A n \in In("gc_zero_ref_count_list") : n \in Objects /\ ref_count[n] = 0
  BY <1>1 DEF IInv, ListsInUse, Traversed
<1>6. p \in Nodes /\ ref_count'[p] = 0 /\ p \notin Dependent(p)
  BY <1>1, <1>2, <1>4, <1>5, InList, Domains
<1>7. \A n \in Nodes : ref_count[n] = 0 => ref_count'[n] = 0
  BY <1>2, <1>4
<1>8. \A n \in Nodes :
        /\ at'[n] \in {"gc_obj_list", "gc_zero_ref_count_list", "free", "husk"}
        /\ at'[n] = "gc_obj_list" => /\ at[n] = "gc_obj_list" /\ n \notin Dependent(p)
                                     /\ n \in Objects => ref_count'[n] # 0
        /\ at'[n] = "gc_zero_ref_count_list" => n \in Objects /\ ref_count'[n] = 0
        /\ at'[n] \in {"free", "husk"} => at[n] \in {"free", "husk"} \/ n = p \/ n \in Dependent(p)
  BY <1>3, <1>4, <1>5, <1>6, <1>7, InList, Domains DEF Lists
<1>9. TypeOK'
  <2>1. at' \in [Nodes -> Lists \cup {"free", "husk"}]
    BY <1>1, <1>8 DEF FreeObject, Lists
  <2> QED BY <1>1, <1>2, <1>4, <2>1 DEF TypeOK, roots
<1>10. HoldsObjects'
  BY <1>2 DEF IInv, HoldsObjects
<1>11. Counted'
  BY <1>1, <1>2 DEF Counted, Counting, Total
<1>12. ListsInUse' /\ Traversed'
  BY <1>1, <1>5, <1>8, InList DEF ListsInUse, Traversed
<1>13. FreedHoldNothing'
  <2>1. Freed = In("free") \cup In("husk") /\ Freed' = In("free")' \cup In("husk")'
    BY <1>1 DEF Freed
  <2>2. \A n \in Freed' : n \in Freed \/ n = p \/ n \in Dependent(p)
    BY <1>8, <2>1, InList
  <2>3. \A n \in Freed', s \in Slots : ref'[<<n, s>>] = Null
    <3> TAKE n \in Freed', s \in Slots
    <3>1. n \in Nodes /\ (n \in Freed => ref[<<n, s>>] = Null)
      BY <2>1, InList DEF IInv, FreedHoldNothing
    <3>2. ref'[<<n, s>>] = IF n = p \/ n \in Dependent(p) THEN Null ELSE ref[<<n, s>>]
      BY <1>2, <3>1
    <3> QED BY <2>2, <3>1, <3>2
  <2>4. \A o \in Objects \cap Freed' : weak'[o] = Null
    BY <1>2, <2>2, Domains DEF IInv, FreedHoldNothing
  <2> QED BY <2>3, <2>4 DEF FreedHoldNothing
<1>14. NoDangling'
  <2> SUFFICES ASSUME NEW n \in Nodes, at'[n] \in {"free", "husk"}
               PROVE  ref_count'[n] = 0
    BY <1>2 DEF NoDangling
  <2>1. CASE at[n] \in {"free", "husk"}
    BY <1>2, <1>7, <2>1 DEF IInv, NoDangling
  <2> QED BY <1>2, <1>6, <1>8, <2>1
<1>15. Live'
  <2> SUFFICES ASSUME NEW n \in Nodes, at'[n] = "gc_obj_list"
               PROVE  ref_count'[n] > 0
    BY <1>1, <1>2, <1>8, InList DEF Live
  <2>1. ref_count[n] > 0
    BY <1>1, <1>2, <1>8, InList DEF IInv, Live
  <2> QED BY <1>2, <1>8, <2>1, Domains
<1>16. WeakRefsAreSafe'
  <2> SUFFICES ASSUME NEW n \in Objects
               PROVE  /\ WeakRefsTo(n)' # {} => at'[n] # "free"
                      /\ at'[n] = "husk" => WeakRefsTo(n)' # {} /\ ref_count'[n] = 0
    BY DEF WeakRefsAreSafe
  <2>1. WeakRefsTo(n)' \subseteq WeakRefsTo(n)
    BY <1>2, Domains DEF WeakRefsTo
  <2>2. /\ WeakRefsTo(n) # {} => at[n] # "free"
        /\ at[n] = "husk" => ref_count[n] = 0
    BY DEF IInv, WeakRefsAreSafe
  <2> QED BY <1>1, <1>2, <1>3, <1>6, <1>7, <2>1, <2>2, Domains
<1>17. Kept' /\ Least'
  BY <1>1 DEF Kept, Least
<1> QED BY <1>9, <1>10, <1>11, <1>12, <1>13, <1>14, <1>15, <1>16, <1>17 DEF IInv

(* An object of a cycle is freed: what is kept does not notice.            *)
LEMMA FreeCyclicObject ==
    ASSUME IInv, NEW p \in Objects, FreeCycle(p)
    PROVE  IInv'
<1>1. /\ pass = "cycles" /\ pass' = "cycles" /\ at[p] = "tmp_obj_list"
      /\ FreeObject(p, "gc_zero_ref_count_list", {}) /\ UNCHANGED <<roots, visited>>
  BY DEF FreeCycle
<1>2. /\ Dependent(p) \subseteq Others
      /\ ref' \in [Nodes \X Slots -> Nodes \cup {Null}]
      /\ \A m \in Nodes, s \in Slots :
            ref'[<<m, s>>] = IF m = p \/ m \in Dependent(p) THEN Null ELSE ref[<<m, s>>]
      /\ ref_count' \in [Nodes -> Nat]
      /\ \A n \in Nodes : ref_count[n] = Total(n) /\ ref_count'[n] = Total(n)'
      /\ \A n \in Nodes : ref_count'[n] <= ref_count[n]
      /\ \A n \in Dependent(p) : ref_count'[n] = 0 /\ ref_count[n] = Refs(n, {p}) /\ ref_count[n] > 0
      /\ \A n \in Others \ Dependent(p) : ref_count[n] > 0 => ref_count'[n] > 0
      /\ weak' \in [Objects -> Objects \cup {Null}]
      /\ \A o \in Objects : weak'[o] = IF o = p THEN Null ELSE weak[o]
  BY <1>1, FreeObjectEffect
<1>3. \A n \in Nodes : at'[n] =
        IF n \in Dependent(p) THEN "free"
        ELSE IF n = p
        THEN IF ref_count'[p] = 0 /\ WeakRefsTo(p)' = {} THEN "free" ELSE "gc_zero_ref_count_list"
        ELSE IF at[n] = "husk"
        THEN IF WeakRefsTo(n)' = {} THEN "free" ELSE "husk"
        ELSE at[n]
  BY FreeCyclePlaces
<1>4. /\ TypeOK /\ ref_count \in [Nodes -> Nat] /\ at \in [Nodes -> Lists \cup {"free", "husk"}]
      /\ stack \in [Nodes -> Nat] /\ owned \in [Nodes -> Nat] /\ visited = {}
      /\ ref \in [Nodes \X Slots -> Nodes \cup {Null}]
  BY <1>1 DEF IInv, TypeOK, Traversed
<1>5. p \in Nodes /\ p \notin Dependent(p)
  BY <1>2, Domains
<1>6. \A n \in Nodes : ref_count[n] = 0 => ref_count'[n] = 0
  BY <1>2, <1>4
<1>7. /\ Roots \subseteq In("gc_obj_list") /\ Closed(In("gc_obj_list"))
      /\ \A n \in In("gc_obj_list") : stack[n] + owned[n] + Refs(n, In("gc_obj_list")) > 0
  BY <1>1 DEF IInv, Kept
<1>8. \A n \in Dependent(p) : at[n] # "gc_obj_list"
  <2> SUFFICES ASSUME NEW n \in Dependent(p), n \in In("gc_obj_list")
               PROVE  FALSE
    BY <1>2, InList, Domains
  <2> DEFINE gc == In("gc_obj_list")
  <2>1. n \in Nodes /\ gc \in SUBSET Nodes /\ gc \cup {p} \in SUBSET Nodes /\ gc \cap {p} = {}
    BY <1>1, <1>5, InList
  <2>2. Refs(n, gc \cup {p}) = Refs(n, gc) + Refs(n, {p})
    BY <2>1, RefsUnion
  <2>3. Refs(n, gc \cup {p}) <= Refs(n, Nodes)
    BY <2>1, RefsMonotone
  <2>4. /\ Refs(n, gc) \in Nat /\ Refs(n, {p}) \in Nat /\ Refs(n, Nodes) \in Nat
        /\ stack[n] \in Nat /\ owned[n] \in Nat
    BY <1>4, <2>1, <1>5, RefsType
  <2>5. ref_count[n] = stack[n] + owned[n] + Refs(n, Nodes) /\ ref_count[n] = Refs(n, {p})
    BY <1>2, <2>1 DEF Total
  <2>6. stack[n] + owned[n] + Refs(n, gc) > 0
    BY <1>7
  <2> HIDE DEF gc
  <2> QED BY <2>2, <2>3, <2>4, <2>5, <2>6
<1>9. \A n \in Nodes :
        /\ at'[n] \in Lists \cup {"free", "husk"}
        /\ at'[n] = "gc_obj_list" <=> at[n] = "gc_obj_list"
        /\ at'[n] = "tmp_obj_list" => at[n] = "tmp_obj_list"
        /\ at'[n] = "gc_zero_ref_count_list" => n = p \/ at[n] = "gc_zero_ref_count_list"
        /\ at'[n] \in {"free", "husk"} =>
                at[n] \in {"free", "husk"} \/ n \in Dependent(p) \/ (n = p /\ ref_count'[p] = 0)
        /\ n \in Dependent(p) => at'[n] = "free"
  BY <1>1, <1>3, <1>4, <1>5, <1>8 DEF Lists
<1>10. In("gc_obj_list")' = In("gc_obj_list")
  BY <1>9, InList
<1>11. TypeOK'
  <2>1. at' \in [Nodes -> Lists \cup {"free", "husk"}]
    BY <1>1, <1>9 DEF FreeObject
  <2> QED BY <1>1, <1>2, <1>4, <2>1 DEF TypeOK, roots, Passes
<1>12. HoldsObjects'
  BY <1>2 DEF IInv, HoldsObjects
<1>13. Counted'
  BY <1>1, <1>2 DEF Counted, Counting, Total
<1>14. ListsInUse' /\ Traversed'
  BY <1>1, <1>4, InList DEF ListsInUse, Traversed
<1>15. FreedHoldNothing'
  <2>1. \A n \in Nodes : n \in Freed' => n \in Freed \/ n = p \/ n \in Dependent(p)
    BY <1>1, <1>9, InList DEF Freed
  <2>2. \A n \in Freed' : n \in Nodes
    BY InList, Domains DEF Freed
  <2>3. \A n \in Freed', s \in Slots : ref'[<<n, s>>] = Null
    <3> TAKE n \in Freed', s \in Slots
    <3>1. n \in Nodes /\ (n \in Freed => ref[<<n, s>>] = Null)
      BY <2>2 DEF IInv, FreedHoldNothing
    <3>2. ref'[<<n, s>>] = IF n = p \/ n \in Dependent(p) THEN Null ELSE ref[<<n, s>>]
      BY <1>2, <3>1
    <3> QED BY <2>1, <3>1, <3>2
  <2>4. \A o \in Objects \cap Freed' : weak'[o] = Null
    BY <1>2, <2>1, Domains DEF IInv, FreedHoldNothing
  <2> QED BY <2>3, <2>4 DEF FreedHoldNothing
<1>16. NoDangling'
  <2> SUFFICES ASSUME NEW n \in Nodes, at'[n] \in {"free", "husk"}
               PROVE  ref_count'[n] = 0
    BY <1>2 DEF NoDangling
  <2>1. CASE at[n] \in {"free", "husk"}
    BY <1>2, <1>6, <2>1 DEF IInv, NoDangling
  <2> QED BY <1>2, <1>9, <2>1
<1>17. Live'
  <2> SUFFICES ASSUME NEW n \in Others,
                      n \in In("tmp_obj_list")' \cup In("gc_zero_ref_count_list")'
               PROVE  ref_count'[n] > 0
    BY <1>1 DEF Live
  <2>1. n # p /\ n \notin Dependent(p)
        /\ n \in In("tmp_obj_list") \cup In("gc_zero_ref_count_list")
    BY <1>9, InList, Domains
  <2> QED BY <1>1, <1>2, <2>1 DEF IInv, Live
<1>18. WeakRefsAreSafe'
  <2> SUFFICES ASSUME NEW n \in Objects
               PROVE  /\ WeakRefsTo(n)' # {} => at'[n] # "free"
                      /\ at'[n] = "husk" => WeakRefsTo(n)' # {} /\ ref_count'[n] = 0
    BY DEF WeakRefsAreSafe
  <2>1. WeakRefsTo(n)' \subseteq WeakRefsTo(n)
    BY <1>2, Domains DEF WeakRefsTo
  <2>2. /\ WeakRefsTo(n) # {} => at[n] # "free"
        /\ at[n] = "husk" => ref_count[n] = 0
    BY DEF IInv, WeakRefsAreSafe
  <2> QED BY <1>1, <1>2, <1>3, <1>5, <1>6, <2>1, <2>2, Domains
<1>19. \A m \in In("gc_obj_list"), s \in Slots : ref'[<<m, s>>] = ref[<<m, s>>]
  <2> TAKE m \in In("gc_obj_list"), s \in Slots
  <2>1. m \in Nodes /\ m # p /\ m \notin Dependent(p)
    BY <1>1, <1>8, InList
  <2>2. ref'[<<m, s>>] = IF m = p \/ m \in Dependent(p) THEN Null ELSE ref[<<m, s>>]
    BY <1>2, <2>1
  <2> QED BY <2>1, <2>2
<1>20. Kept'
  <2>1. Roots' = Roots
    BY <1>1 DEF Roots, roots
  <2>2. Closed(In("gc_obj_list"))'
    BY <1>7, <1>10, <1>19 DEF Closed
  <2>3. \A n : Refs(n, In("gc_obj_list"))' = Refs(n, In("gc_obj_list"))
    BY <1>10, <1>19 DEF Refs, Into
  <2> QED BY <1>1, <1>7, <1>10, <2>1, <2>2, <2>3 DEF Kept, roots
<1>21. Least'
  <2> SUFFICES ASSUME NEW S \in SUBSET Nodes, Roots \subseteq S, Closed(S)'
               PROVE  In("gc_obj_list") \subseteq S
    <3>1. Roots' = Roots
      BY <1>1 DEF Roots, roots
    <3> QED BY <1>10, <3>1 DEF Least
  <2> DEFINE K == S \cap In("gc_obj_list")
  <2>1. Roots \subseteq K
    BY <1>7
  <2>2. Closed(K)
    <3> SUFFICES ASSUME NEW m \in K, NEW s \in Slots, ref[<<m, s>>] # Null
                 PROVE  ref[<<m, s>>] \in K
      BY ClosedSlots
    <3>1. ref[<<m, s>>] \in In("gc_obj_list")
      BY <1>7, ClosedSlots
    <3>2. ref'[<<m, s>>] \in S
      BY <1>19 DEF Closed
    <3> QED BY <1>19, <3>1, <3>2
  <2>3. K \in SUBSET Nodes
    OBVIOUS
  <2>4. In("gc_obj_list") \subseteq K
    BY <1>1, <2>1, <2>2, <2>3 DEF IInv, Least
  <2> QED BY <2>4
<1> QED BY <1>11, <1>12, <1>13, <1>14, <1>15, <1>16, <1>17, <1>18, <1>20, <1>21 DEF IInv

LEMMA FreeCycleKeeps ==
    ASSUME IInv, NEW p \in Nodes, FreeCycle(p)
    PROVE  IInv'
<1>1. CASE p \in Objects
  BY <1>1, FreeCyclicObject
<1>2. CASE p \notin Objects
  <2>1. /\ pass = "cycles" /\ pass' = "cycles" /\ at[p] = "tmp_obj_list" /\ p \in Others
        /\ at' = [at EXCEPT ![p] = "gc_zero_ref_count_list"]
        /\ UNCHANGED <<ref, weak, ref_count, roots, visited>>
    BY <1>2, Domains DEF FreeCycle
  <2>2. at \in [Nodes -> Lists \cup {"free", "husk"}]
    BY DEF IInv, TypeOK
  <2>3. \A n \in Nodes : at'[n] = IF n = p THEN "gc_zero_ref_count_list" ELSE at[n]
    BY <2>1, <2>2
  <2>4. /\ \A n, M : Refs(n, M)' = Refs(n, M)
        /\ \A n : Total(n)' = Total(n)
        /\ Roots' = Roots
        /\ \A S : Closed(S)' = Closed(S)
    BY <2>1, SameReferences
  <2>5. In("gc_obj_list")' = In("gc_obj_list")
    BY <2>1, <2>3, InList
  <2>6. TypeOK' /\ HoldsObjects' /\ Counted'
    <3>1. at' \in [Nodes -> Lists \cup {"free", "husk"}]
      BY <2>1, <2>2 DEF Lists
    <3> QED BY <2>1, <2>4, <3>1 DEF IInv, TypeOK, HoldsObjects, Counted, Counting, roots
  <2>7. ListsInUse' /\ Traversed'
    BY <2>1, InList DEF IInv, ListsInUse, Traversed
  <2>8. FreedHoldNothing'
    <3>1. Freed' = Freed
      BY <2>1, <2>3, InList, Domains DEF Freed
    <3> QED BY <2>1, <3>1 DEF IInv, FreedHoldNothing
  <2>9. NoDangling' /\ Live'
    BY <2>1, <2>3, <2>4, InList DEF IInv, NoDangling, Live
  <2>10. WeakRefsAreSafe'
    BY <2>1, <2>3, Domains DEF IInv, WeakRefsAreSafe, WeakRefsTo
  <2>11. Kept' /\ Least'
    BY <2>1, <2>4, <2>5 DEF IInv, Kept, Least, roots
  <2> QED BY <2>6, <2>7, <2>8, <2>9, <2>10, <2>11 DEF IInv
<1> QED BY <1>1, <1>2

LEMMA ZeroDoneKeeps ==
    ASSUME IInv, ZeroDone
    PROVE  IInv'
<1>1. /\ pass = "zero" /\ pass' = "none" /\ visited' = {}
      /\ In("gc_zero_ref_count_list") = {}
      /\ UNCHANGED <<ref, weak, roots, ref_count, at>>
  BY DEF ZeroDone, Turn
<1>2. /\ \A n, M : Refs(n, M)' = Refs(n, M)
      /\ \A n : Total(n)' = Total(n)
  BY <1>1, SameReferences
<1>3. TypeOK' /\ HoldsObjects' /\ Counted'
  BY <1>1, <1>2 DEF IInv, TypeOK, HoldsObjects, Counted, Counting, roots, Passes
<1>4. ListsInUse' /\ Traversed' /\ FreedHoldNothing'
  BY <1>1, InList DEF IInv, ListsInUse, Traversed, FreedHoldNothing, Freed
<1>5. NoDangling' /\ Live' /\ WeakRefsAreSafe'
  BY <1>1, <1>2, InList DEF IInv, NoDangling, Live, WeakRefsAreSafe, WeakRefsTo
<1>6. Kept' /\ Least'
  BY <1>1 DEF Kept, Least
<1> QED BY <1>3, <1>4, <1>5, <1>6 DEF IInv

LEMMA CollectKeeps ==
    ASSUME IInv, Collect
    PROVE  IInv'
BY FreeZeroKeeps, DecrefKeeps, ScanKeeps, RestoreKeeps, FreeCycleKeeps, ZeroDoneKeeps,
   DecrefDoneKeeps, ScanDoneKeeps, RestoreDoneKeeps, CyclesDoneKeeps, SweepKeeps DEF Collect
-----------------------------------------------------------------------------
(* The script, the bridge and the runtime, between collections.            *)

(* While the script runs a node is in gc_obj_list if there is a reference  *)
(* to it, and is not there if there is none.                               *)
LEMMA Quiet ==
    ASSUME IInv, pass = "none"
    PROVE  /\ ref \in [Nodes \X Slots -> Nodes \cup {Null}]
           /\ weak \in [Objects -> Objects \cup {Null}]
           /\ stack \in [Nodes -> Nat] /\ owned \in [Nodes -> Nat]
           /\ ref_count \in [Nodes -> Nat]
           /\ at \in [Nodes -> Lists \cup {"free", "husk"}]
           /\ visited = {}
           /\ \A n \in Nodes :
                /\ ref_count[n] = stack[n] + owned[n] + Refs(n, Nodes)
                /\ at[n] \in {"gc_obj_list", "free", "husk"}
                /\ at[n] = "gc_obj_list" <=> ref_count[n] > 0
           /\ \A n \in Nodes, s \in Slots : ref_count[n] = 0 => ref[<<n, s>>] = Null
           /\ \A o \in Objects : ref_count[o] = 0 => weak[o] = Null
           /\ \A n \in Nodes : at[n] = "free" => ref_count[n] = 0
<1>1. /\ ref \in [Nodes \X Slots -> Nodes \cup {Null}]
      /\ weak \in [Objects -> Objects \cup {Null}]
      /\ stack \in [Nodes -> Nat] /\ owned \in [Nodes -> Nat]
      /\ ref_count \in [Nodes -> Nat]
      /\ at \in [Nodes -> Lists \cup {"free", "husk"}]
      /\ visited = {}
  BY DEF IInv, TypeOK, Traversed
<1>2. \A n \in Nodes : ref_count[n] = stack[n] + owned[n] + Refs(n, Nodes)
  BY DEF IInv, Counted, Counting
<1>3. \A n \in Nodes : at[n] \in {"gc_obj_list", "free", "husk"}
  BY <1>1, InList DEF IInv, ListsInUse, Lists
<1>4. \A n \in Nodes : at[n] = "gc_obj_list" <=> ref_count[n] > 0
  <2> TAKE n \in Nodes
  <2>1. ref_count[n] = Total(n)
    BY <1>2 DEF Total
  <2>2. at[n] = "gc_obj_list" => Total(n) > 0
    BY InList DEF IInv, Live
  <2>3. at[n] \in {"free", "husk"} => Total(n) = 0
    BY DEF IInv, NoDangling
  <2> QED BY <1>3, <2>1, <2>2, <2>3
<1>5. \A n \in Nodes : ref_count[n] = 0 => n \in Freed
  BY <1>1, <1>3, <1>4, InList DEF Freed
<1>6. /\ \A n \in Nodes, s \in Slots : ref_count[n] = 0 => ref[<<n, s>>] = Null
      /\ \A o \in Objects : ref_count[o] = 0 => weak[o] = Null
  BY <1>5, Domains DEF IInv, FreedHoldNothing
<1>7. \A n \in Nodes : at[n] = "free" => ref_count[n] = 0
  BY <1>1, <1>4
<1> QED BY <1>1, <1>2, <1>3, <1>4, <1>6, <1>7

(* What a step of the script has to see to.                                *)
LEMMA QuietAgain ==
    ASSUME pass' \in {"none", "zero"}, visited' = {},
           ref' \in [Nodes \X Slots -> Nodes \cup {Null}],
           weak' \in [Objects -> Objects \cup {Null}],
           stack' \in [Nodes -> Nat], owned' \in [Nodes -> Nat],
           ref_count' \in [Nodes -> Nat],
           at' \in [Nodes -> Lists \cup {"free", "husk"}],
           HoldsObjects', WeakRefsAreSafe',
           \A n \in Nodes :
                /\ ref_count'[n] = stack'[n] + owned'[n] + Refs(n, Nodes)'
                /\ at'[n] # "tmp_obj_list"
                /\ at'[n] = "gc_zero_ref_count_list" => pass' = "zero" /\ n \in Objects
                /\ at'[n] = "gc_obj_list" <=> ref_count'[n] > 0,
           \A n \in Nodes, s \in Slots : at'[n] \in {"free", "husk"} => ref'[<<n, s>>] = Null,
           \A o \in Objects : at'[o] \in {"free", "husk"} => weak'[o] = Null
    PROVE  IInv'
<1>1. TypeOK'
  BY DEF TypeOK, Passes
<1>2. Counted'
  BY DEF Counted, Counting
<1>3. \A n \in Nodes : at'[n] # "gc_obj_list" => ref_count'[n] = 0
  OBVIOUS
<1>4. ListsInUse' /\ Traversed'
  BY <1>3, InList DEF ListsInUse, Traversed
<1>5. FreedHoldNothing'
  BY InList, Domains DEF FreedHoldNothing, Freed
<1>6. NoDangling' /\ Live'
  BY <1>3, InList DEF NoDangling, Live, Total
<1>7. Kept' /\ Least'
  BY DEF Kept, Least
<1> QED BY <1>1, <1>2, <1>4, <1>5, <1>6, <1>7 DEF IInv

(* A step that frees nothing, and makes the nodes of new.                  *)
LEMMA MakeKeeps ==
    ASSUME IInv, pass = "none", UNCHANGED <<pass, visited>>,
           NEW new \in SUBSET Nodes, \A m \in new : at[m] = "free",
           at' = [m \in Nodes |-> IF m \in new THEN "gc_obj_list" ELSE at[m]],
           ref' \in [Nodes \X Slots -> Nodes \cup {Null}],
           weak' \in [Objects -> Objects \cup {Null}],
           stack' \in [Nodes -> Nat], owned' \in [Nodes -> Nat],
           ref_count' \in [Nodes -> Nat], HoldsObjects',
           \A n \in Nodes :
                /\ ref_count'[n] = stack'[n] + owned'[n] + Refs(n, Nodes)'
                /\ ref_count'[n] > 0 <=> ref_count[n] > 0 \/ n \in new,
           \A n \in Nodes, s \in Slots : ref_count'[n] = 0 => ref'[<<n, s>>] = ref[<<n, s>>],
           \A o \in Objects : \/ weak'[o] = weak[o]
                              \/ o \in new /\ weak'[o] \in Objects /\ ref_count[weak'[o]] > 0
    PROVE  IInv'
<1>1. /\ visited = {} /\ at \in [Nodes -> Lists \cup {"free", "husk"}]
      /\ ref_count \in [Nodes -> Nat]
      /\ \A n \in Nodes :
            /\ at[n] \in {"gc_obj_list", "free", "husk"}
            /\ at[n] = "gc_obj_list" <=> ref_count[n] > 0
      /\ \A n \in Nodes, s \in Slots : ref_count[n] = 0 => ref[<<n, s>>] = Null
      /\ \A o \in Objects : ref_count[o] = 0 => weak[o] = Null
  BY Quiet
<1>2. at' \in [Nodes -> Lists \cup {"free", "husk"}]
  BY <1>1 DEF Lists
<1>3. \A n \in Nodes : at'[n] = IF n \in new THEN "gc_obj_list" ELSE at[n]
  OBVIOUS
<1>4. \A n \in Nodes :
        /\ at'[n] \in {"gc_obj_list", "free", "husk"}
        /\ at'[n] = "gc_obj_list" <=> ref_count'[n] > 0
  BY <1>1, <1>3
<1>5. \A n \in Nodes : n \in new => ref_count[n] = 0
  BY <1>1
<1>6. \A n \in Nodes : ref_count'[n] = 0 => ref_count[n] = 0 /\ n \notin new
  BY <1>1
<1>7. \A n \in Nodes : at'[n] \in {"free", "husk"} => ref_count'[n] = 0
  BY <1>4
<1>8. \A n \in Nodes, s \in Slots : at'[n] \in {"free", "husk"} => ref'[<<n, s>>] = Null
  BY <1>1, <1>6, <1>7
<1>9. \A o \in Objects : at'[o] \in {"free", "husk"} => weak'[o] = Null
  BY <1>1, <1>6, <1>7, Domains
<1>10. WeakRefsAreSafe'
  <2> SUFFICES ASSUME NEW n \in Objects
               PROVE  /\ WeakRefsTo(n)' # {} => at'[n] # "free"
                      /\ at'[n] = "husk" => WeakRefsTo(n)' # {} /\ ref_count'[n] = 0
    BY DEF WeakRefsAreSafe
  <2>1. /\ WeakRefsTo(n) # {} => at[n] # "free"
        /\ at[n] = "husk" => WeakRefsTo(n) # {}
        /\ n \in Nodes /\ n # Null
    BY Domains DEF IInv, WeakRefsAreSafe
  <2>2. ASSUME WeakRefsTo(n)' # {}
        PROVE  at'[n] # "free"
    <3>1. PICK o \in Objects : weak'[o] = n
      BY <2>2 DEF WeakRefsTo
    <3>2. CASE weak[o] = n
      BY <1>3, <2>1, <3>2 DEF WeakRefsTo
    <3>3. CASE weak[o] # n
      BY <1>1, <1>3, <2>1, <3>1, <3>3
    <3> QED BY <3>2, <3>3
  <2>3. ASSUME at'[n] = "husk"
        PROVE  WeakRefsTo(n)' # {} /\ ref_count'[n] = 0
    <3>1. at[n] = "husk"
      BY <1>3, <2>1, <2>3
    <3>2. PICK o \in Objects : weak[o] = n
      BY <2>1, <3>1 DEF WeakRefsTo
    <3>3. weak'[o] = n
      BY <1>1, <1>5, <2>1, <3>2, Domains
    <3> QED BY <1>4, <2>1, <2>3, <3>3 DEF WeakRefsTo
  <2> QED BY <2>2, <2>3
<1> QED BY <1>1, <1>2, <1>4, <1>8, <1>9, <1>10, QuietAgain

(* References in a slot that held none, and in two of them.                *)
LEMMA PutOne ==
    ASSUME NEW d \in Cells, NEW a, NEW n \in Nodes,
           \A f \in Cells : ref'[f] = IF f = d THEN a ELSE ref[f]
    PROVE  Refs(n, Nodes)' = Refs(n, Nodes) + One(a, n) - One(ref[d], n)
<1>1. ref'[d] = a /\ \A f \in Cells : f # d => ref'[f] = ref[f]
  OBVIOUS
<1>2. Count(ref', n, Nodes) = Count(ref, n, Nodes) + One(ref'[d], n) - One(ref[d], n)
  BY <1>1, CountPut
<1> QED BY <1>1, <1>2, RefsIsCount

LEMMA PutTwo ==
    ASSUME NEW d \in Cells, NEW a, NEW e \in Cells, NEW b, d # e,
           ref[d] = Null, ref[e] = Null,
           \A f \in Cells : ref'[f] = IF f = e THEN b ELSE IF f = d THEN a ELSE ref[f]
    PROVE  \A n \in Nodes : Refs(n, Nodes)' = Refs(n, Nodes) + One(a, n) + One(b, n)
<1> SUFFICES ASSUME NEW n \in Nodes
             PROVE  Refs(n, Nodes)' = Refs(n, Nodes) + One(a, n) + One(b, n)
  OBVIOUS
<1> DEFINE mid == [f \in Cells |-> IF f = d THEN a ELSE ref[f]]
<1>1. /\ mid[d] = a /\ \A f \in Cells : f # d => mid[f] = ref[f]
      /\ mid[e] = Null
  OBVIOUS
<1>2. ref'[e] = b /\ \A f \in Cells : f # e => ref'[f] = mid[f]
  OBVIOUS
<1> HIDE DEF mid
<1>3. Count(mid, n, Nodes) = Count(ref, n, Nodes) + One(mid[d], n) - One(ref[d], n)
  BY <1>1, CountPut
<1>4. Count(ref', n, Nodes) = Count(mid, n, Nodes) + One(ref'[e], n) - One(mid[e], n)
  BY <1>2, CountPut
<1>5. /\ Count(ref, n, Nodes) \in Nat /\ One(Null, n) = 0
      /\ One(a, n) \in Nat /\ One(b, n) \in Nat
  BY CountType, Domains DEF One
<1>6. Count(mid, n, Nodes) = Count(ref, n, Nodes) + One(a, n)
  BY <1>1, <1>3, <1>5
<1>7. Count(ref', n, Nodes) = Count(mid, n, Nodes) + One(b, n)
  BY <1>1, <1>2, <1>4, <1>5, <1>6
<1>8. Count(ref', n, Nodes) = Count(ref, n, Nodes) + One(a, n) + One(b, n)
  BY <1>6, <1>7
<1> QED BY <1>8, RefsIsCount

(* No reference there was is changed: the ones to n that were stay.        *)
LEMMA SameRefs ==
    ASSUME UNCHANGED ref
    PROVE  /\ \A n : Refs(n, Nodes)' = Refs(n, Nodes)
           /\ HoldsObjects' <=> HoldsObjects
BY DEF Refs, Into, HoldsObjects

LEMMA PushKeeps ==
    ASSUME IInv, NEW o \in Objects, Push(o), ref_count[o] > 0
    PROVE  IInv'
<1>1. /\ pass = "none" /\ UNCHANGED <<ref, weak, owned, at, pass, visited>>
      /\ stack' = [stack EXCEPT ![o] = @ + 1]
      /\ ref_count' = [ref_count EXCEPT ![o] = @ + 1]
  BY DEF Push
<1>2. /\ ref \in [Nodes \X Slots -> Nodes \cup {Null}]
      /\ weak \in [Objects -> Objects \cup {Null}]
      /\ stack \in [Nodes -> Nat] /\ owned \in [Nodes -> Nat]
      /\ ref_count \in [Nodes -> Nat]
      /\ at \in [Nodes -> Lists \cup {"free", "husk"}]
      /\ \A n \in Nodes : ref_count[n] = stack[n] + owned[n] + Refs(n, Nodes)
  BY <1>1, Quiet
<1>3. /\ \A n : Refs(n, Nodes)' = Refs(n, Nodes)
      /\ HoldsObjects'
  BY <1>1, SameRefs DEF IInv
<1>4. \A n \in Nodes : /\ ref_count'[n] = stack'[n] + owned'[n] + Refs(n, Nodes)'
                       /\ ref_count'[n] > 0 <=> ref_count[n] > 0
  <2> TAKE n \in Nodes
  <2>1. /\ stack[n] \in Nat /\ owned[n] \in Nat /\ Refs(n, Nodes) \in Nat /\ o \in Nodes
        /\ ref_count[n] \in Nat
    BY <1>2, RefsType, Domains
  <2>2. /\ stack'[n] = IF n = o THEN stack[n] + 1 ELSE stack[n]
        /\ ref_count'[n] = IF n = o THEN ref_count[n] + 1 ELSE ref_count[n]
        /\ owned'[n] = owned[n] /\ Refs(n, Nodes)' = Refs(n, Nodes)
        /\ ref_count[n] = stack[n] + owned[n] + Refs(n, Nodes)
    BY <1>1, <1>2, <1>3, <2>1
  <2> QED BY <2>1, <2>2
<1>5. at' = [m \in Nodes |-> IF m \in {} THEN "gc_obj_list" ELSE at[m]]
  BY <1>1, <1>2
<1>6. stack' \in [Nodes -> Nat] /\ ref_count' \in [Nodes -> Nat]
  <2>1. stack[o] + 1 \in Nat /\ ref_count[o] + 1 \in Nat
    BY <1>2, Domains
  <2> QED BY <1>1, <1>2, <2>1
<1> DEFINE new == {}
<1>7. /\ new \in SUBSET Nodes /\ \A m \in new : at[m] = "free"
      /\ at' = [m \in Nodes |-> IF m \in new THEN "gc_obj_list" ELSE at[m]]
      /\ \A n \in Nodes : n \notin new
  BY <1>5
<1> HIDE DEF new
<1> QED BY <1>1, <1>2, <1>3, <1>4, <1>6, <1>7, MakeKeeps

(* There is a reference to what the script can get at.                     *)
GlobalHeld == at[Context] # "free" => ref[<<Context, "global">>] = Global
SlotsHold ==
    /\ GlobalHeld
    /\ \A o \in Objects : ref[<<o, "var">>] \in VarRefs \cup {Null}

LEMMA Referenced ==
    ASSUME IInv, pass = "none", NEW m \in Nodes, NEW s \in Slots, ref[<<m, s>>] # Null
    PROVE  ref[<<m, s>>] \in Nodes /\ ref_count[ref[<<m, s>>]] > 0
<1> PICK n : n = ref[<<m, s>>]
  OBVIOUS
<1>1. n \in Nodes
  BY Quiet
<1>2. Refs(n, Nodes) \in Nat /\ Refs(n, Nodes) # 0
  BY RefsType, RefsZero
<1>3. /\ ref_count[n] = stack[n] + owned[n] + Refs(n, Nodes)
      /\ stack[n] \in Nat /\ owned[n] \in Nat
  BY <1>1, Quiet
<1>4. ref_count[n] > 0
  BY <1>2, <1>3
<1> QED BY <1>1, <1>4

LEMMA AtHandLives ==
    ASSUME IInv, pass = "none", GlobalHeld, owned[Context] > 0
    PROVE  /\ ref_count[Context] > 0 /\ ref_count[Global] > 0
           /\ \A o \in Nodes : stack[o] > 0 \/ owned[o] > 0 => ref_count[o] > 0
           /\ \A n \in Nodes : AtHand(n) => ref_count[n] > 0
<1>1. \A o \in Nodes : stack[o] > 0 \/ owned[o] > 0 => ref_count[o] > 0
  <2> TAKE o \in Nodes
  <2>1. /\ ref_count[o] = stack[o] + owned[o] + Refs(o, Nodes)
        /\ stack[o] \in Nat /\ owned[o] \in Nat /\ Refs(o, Nodes) \in Nat
    BY Quiet, RefsType
  <2> QED BY <2>1
<1>2. ref_count[Context] > 0 /\ at[Context] = "gc_obj_list"
  BY <1>1, Quiet, Domains
<1>3. ref[<<Context, "global">>] = Global
  BY <1>2 DEF GlobalHeld
<1>4. ref_count[Global] > 0
  BY <1>3, Referenced, Domains
<1>5. \A n \in Nodes : AtHand(n) => ref_count[n] > 0
  BY <1>1, <1>4, Referenced, Domains DEF AtHand
<1> QED BY <1>1, <1>2, <1>4, <1>5

(* A step that makes nothing and frees nothing.                            *)
LEMMA NothingMade ==
    ASSUME IInv, pass = "none", UNCHANGED <<weak, at, pass, visited>>,
           ref' \in [Nodes \X Slots -> Nodes \cup {Null}],
           stack' \in [Nodes -> Nat], owned' \in [Nodes -> Nat],
           ref_count' \in [Nodes -> Nat], HoldsObjects',
           \A n \in Nodes :
                /\ ref_count'[n] = stack'[n] + owned'[n] + Refs(n, Nodes)'
                /\ ref_count'[n] > 0 <=> ref_count[n] > 0,
           \A n \in Nodes, s \in Slots : ref_count'[n] = 0 => ref'[<<n, s>>] = ref[<<n, s>>]
    PROVE  IInv'
<1> DEFINE new == {}
<1>1. /\ at \in [Nodes -> Lists \cup {"free", "husk"}]
      /\ weak \in [Objects -> Objects \cup {Null}]
  BY Quiet
<1>2. /\ new \in SUBSET Nodes /\ \A m \in new : at[m] = "free"
      /\ at' = [m \in Nodes |-> IF m \in new THEN "gc_obj_list" ELSE at[m]]
      /\ \A n \in Nodes : n \notin new
  BY <1>1
<1> HIDE DEF new
<1> QED BY <1>1, <1>2, MakeKeeps

LEMMA HandKeeps ==
    ASSUME IInv, NEW o \in Objects, Hand(o)
    PROVE  IInv'
<1>1. /\ pass = "none" /\ UNCHANGED <<ref, weak, ref_count, at, pass, visited>>
      /\ stack[o] > 0 /\ o \in Nodes
      /\ stack' = [stack EXCEPT ![o] = @ - 1]
      /\ owned' = [owned EXCEPT ![o] = @ + 1]
  BY Domains DEF Hand
<1>2. /\ ref \in [Nodes \X Slots -> Nodes \cup {Null}]
      /\ stack \in [Nodes -> Nat] /\ owned \in [Nodes -> Nat]
      /\ ref_count \in [Nodes -> Nat]
      /\ \A n \in Nodes : ref_count[n] = stack[n] + owned[n] + Refs(n, Nodes)
  BY <1>1, Quiet
<1>3. (\A n : Refs(n, Nodes)' = Refs(n, Nodes)) /\ HoldsObjects'
  BY <1>1, SameRefs DEF IInv
<1>4. stack' \in [Nodes -> Nat] /\ owned' \in [Nodes -> Nat]
  <2>1. stack[o] - 1 \in Nat /\ owned[o] + 1 \in Nat
    BY <1>1, <1>2
  <2> QED BY <1>1, <1>2, <2>1
<1>5. \A n \in Nodes : ref_count'[n] = stack'[n] + owned'[n] + Refs(n, Nodes)'
  <2> TAKE n \in Nodes
  <2>1. /\ stack[n] \in Nat /\ owned[n] \in Nat /\ Refs(n, Nodes) \in Nat
        /\ ref_count'[n] = stack[n] + owned[n] + Refs(n, Nodes)
        /\ stack'[n] = IF n = o THEN stack[n] - 1 ELSE stack[n]
        /\ owned'[n] = IF n = o THEN owned[n] + 1 ELSE owned[n]
        /\ Refs(n, Nodes)' = Refs(n, Nodes)
    BY <1>1, <1>2, <1>3, RefsType
  <2> QED BY <2>1
<1> QED BY <1>1, <1>2, <1>3, <1>4, <1>5, NothingMade

LEMMA EnqueueJobKeeps ==
    ASSUME IInv, NEW o \in Objects, EnqueueJob(o)
    PROVE  IInv'
<1>1. /\ pass = "none" /\ UNCHANGED <<ref, weak, stack, at, pass, visited>>
      /\ stack[o] > 0 /\ owned[Context] > 0 /\ o \in Nodes /\ Context \in Nodes /\ o # Context
      /\ owned' = [owned EXCEPT ![o] = @ + 1, ![Context] = @ + 1]
      /\ ref_count' = [ref_count EXCEPT ![o] = @ + 1, ![Context] = @ + 1]
  BY Domains DEF EnqueueJob
<1>2. /\ ref \in [Nodes \X Slots -> Nodes \cup {Null}]
      /\ stack \in [Nodes -> Nat] /\ owned \in [Nodes -> Nat]
      /\ ref_count \in [Nodes -> Nat]
      /\ \A n \in Nodes : ref_count[n] = stack[n] + owned[n] + Refs(n, Nodes)
  BY <1>1, Quiet
<1>3. (\A n : Refs(n, Nodes)' = Refs(n, Nodes)) /\ HoldsObjects'
  BY <1>1, SameRefs DEF IInv
<1>4. owned' \in [Nodes -> Nat] /\ ref_count' \in [Nodes -> Nat]
  <2>1. /\ owned[o] + 1 \in Nat /\ owned[Context] + 1 \in Nat
        /\ ref_count[o] + 1 \in Nat /\ ref_count[Context] + 1 \in Nat
    BY <1>1, <1>2
  <2> QED BY <1>1, <1>2, <2>1
<1>5. \A n \in Nodes : /\ ref_count'[n] = stack'[n] + owned'[n] + Refs(n, Nodes)'
                       /\ ref_count'[n] > 0 <=> ref_count[n] > 0
  <2> TAKE n \in Nodes
  <2>1. /\ stack[n] \in Nat /\ owned[n] \in Nat /\ Refs(n, Nodes) \in Nat
        /\ ref_count[n] = stack[n] + owned[n] + Refs(n, Nodes)
        /\ stack'[n] = stack[n]
        /\ owned'[n] = IF n \in {o, Context} THEN owned[n] + 1 ELSE owned[n]
        /\ ref_count'[n] = IF n \in {o, Context} THEN ref_count[n] + 1 ELSE ref_count[n]
        /\ Refs(n, Nodes)' = Refs(n, Nodes)
    BY <1>1, <1>2, <1>3, RefsType
  <2>2. n \in {o, Context} => ref_count[n] > 0
    BY <1>1, <2>1
  <2> QED BY <2>1, <2>2
<1> QED BY <1>1, <1>2, <1>3, <1>4, <1>5, NothingMade

LEMMA FreeContextKeeps ==
    ASSUME IInv, FreeContext
    PROVE  IInv'
<1>1. /\ pass = "none" /\ UNCHANGED <<ref, weak, stack, at, pass, visited>>
      /\ owned[Context] > 0 /\ ref_count[Context] > 1 /\ Context \in Nodes
      /\ owned' = [owned EXCEPT ![Context] = @ - 1]
      /\ ref_count' = [ref_count EXCEPT ![Context] = @ - 1]
  BY Domains DEF FreeContext
<1>2. /\ ref \in [Nodes \X Slots -> Nodes \cup {Null}]
      /\ stack \in [Nodes -> Nat] /\ owned \in [Nodes -> Nat]
      /\ ref_count \in [Nodes -> Nat]
      /\ \A n \in Nodes : ref_count[n] = stack[n] + owned[n] + Refs(n, Nodes)
  BY <1>1, Quiet
<1>3. (\A n : Refs(n, Nodes)' = Refs(n, Nodes)) /\ HoldsObjects'
  BY <1>1, SameRefs DEF IInv
<1>4. owned' \in [Nodes -> Nat] /\ ref_count' \in [Nodes -> Nat]
  <2>1. owned[Context] - 1 \in Nat /\ ref_count[Context] - 1 \in Nat
    BY <1>1, <1>2
  <2> QED BY <1>1, <1>2, <2>1
<1>5. \A n \in Nodes : /\ ref_count'[n] = stack'[n] + owned'[n] + Refs(n, Nodes)'
                       /\ ref_count'[n] > 0 <=> ref_count[n] > 0
  <2> TAKE n \in Nodes
  <2>1. /\ stack[n] \in Nat /\ owned[n] \in Nat /\ Refs(n, Nodes) \in Nat
        /\ ref_count[n] = stack[n] + owned[n] + Refs(n, Nodes)
        /\ stack'[n] = stack[n]
        /\ owned'[n] = IF n = Context THEN owned[n] - 1 ELSE owned[n]
        /\ ref_count'[n] = IF n = Context THEN ref_count[n] - 1 ELSE ref_count[n]
        /\ Refs(n, Nodes)' = Refs(n, Nodes)
    BY <1>1, <1>2, <1>3, RefsType
  <2>2. n = Context => ref_count[n] > 1
    BY <1>1
  <2> QED BY <2>1, <2>2
<1> QED BY <1>1, <1>2, <1>3, <1>4, <1>5, NothingMade

(* A reference to n goes away.                                             *)
LEMMA FreeValueKeeps ==
    ASSUME IInv, NEW n \in Objects, FreeValue(n), ref_count[n] > 0,
           ref' \in [Nodes \X Slots -> Nodes \cup {Null}], HoldsObjects',
           stack' \in [Nodes -> Nat], owned' \in [Nodes -> Nat],
           \A m \in Nodes : stack'[m] + owned'[m] + Refs(m, Nodes)' =
                            stack[m] + owned[m] + Refs(m, Nodes) - One(n, m),
           \A m \in Nodes, s \in Slots : ref_count[m] = 0 => ref'[<<m, s>>] = ref[<<m, s>>]
    PROVE  IInv'
<1>1. /\ pass = "none" /\ UNCHANGED <<weak, visited>> /\ n \in Nodes
      /\ ref_count' = [ref_count EXCEPT ![n] = @ - 1]
      /\ at' = IF ref_count[n] = 1 THEN [at EXCEPT ![n] = "gc_zero_ref_count_list"] ELSE at
      /\ pass' = IF ref_count[n] = 1 THEN "zero" ELSE "none"
  BY Domains DEF FreeValue
<1>2. /\ weak \in [Objects -> Objects \cup {Null}]
      /\ ref_count \in [Nodes -> Nat] /\ visited = {}
      /\ at \in [Nodes -> Lists \cup {"free", "husk"}]
      /\ \A m \in Nodes :
            /\ ref_count[m] = stack[m] + owned[m] + Refs(m, Nodes)
            /\ at[m] \in {"gc_obj_list", "free", "husk"}
            /\ at[m] = "gc_obj_list" <=> ref_count[m] > 0
      /\ \A m \in Nodes, s \in Slots : ref_count[m] = 0 => ref[<<m, s>>] = Null
      /\ \A o \in Objects : ref_count[o] = 0 => weak[o] = Null
  BY <1>1, Quiet
<1>3. /\ ref_count' \in [Nodes -> Nat]
      /\ \A m \in Nodes : ref_count'[m] = IF m = n THEN ref_count[m] - 1 ELSE ref_count[m]
  <2>1. ref_count[n] - 1 \in Nat
    BY <1>1, <1>2
  <2> QED BY <1>1, <1>2, <2>1
<1>4. \A m \in Nodes : ref_count'[m] = stack'[m] + owned'[m] + Refs(m, Nodes)'
  <2> TAKE m \in Nodes
  <2>1. ref_count[m] = stack[m] + owned[m] + Refs(m, Nodes)
    BY <1>2
  <2>2. stack'[m] + owned'[m] + Refs(m, Nodes)' = ref_count[m] - One(n, m)
    <3>1. stack'[m] + owned'[m] + Refs(m, Nodes)' =
            stack[m] + owned[m] + Refs(m, Nodes) - One(n, m)
      OBVIOUS
    <3>2. /\ stack[m] \in Nat /\ owned[m] \in Nat /\ Refs(m, Nodes) \in Nat /\ One(n, m) \in Nat
          /\ stack'[m] \in Nat /\ owned'[m] \in Nat /\ Refs(m, Nodes)' \in Nat
      BY <1>1, Quiet, RefsType, CountType, RefsIsCount DEF One
    <3> QED BY <2>1, <3>1, <3>2
  <2>3. ref_count[m] \in Nat
    BY <1>2
  <2> QED BY <1>3, <2>2, <2>3 DEF One
<1>5. \A m \in Nodes : at'[m] = IF m = n /\ ref_count[n] = 1 THEN "gc_zero_ref_count_list" ELSE at[m]
  BY <1>1, <1>2
<1>6. at' \in [Nodes -> Lists \cup {"free", "husk"}]
  BY <1>1, <1>2 DEF Lists
<1>7. \A m \in Nodes :
        /\ at'[m] # "tmp_obj_list"
        /\ at'[m] = "gc_zero_ref_count_list" => pass' = "zero" /\ m \in Objects
        /\ at'[m] = "gc_obj_list" <=> ref_count'[m] > 0
        /\ at'[m] \in {"free", "husk"} => at[m] = at'[m] /\ ref_count[m] = 0
  <2> TAKE m \in Nodes
  <2>1. /\ ref_count[m] \in Nat /\ at[m] \in {"gc_obj_list", "free", "husk"}
        /\ at[m] = "gc_obj_list" <=> ref_count[m] > 0
    BY <1>2
  <2> QED BY <1>1, <1>3, <1>5, <2>1
<1>8. \A m \in Nodes, s \in Slots : at'[m] \in {"free", "husk"} => ref'[<<m, s>>] = Null
  BY <1>2, <1>7
<1>9. \A o \in Objects : at'[o] \in {"free", "husk"} => weak'[o] = Null
  BY <1>1, <1>2, <1>7, Domains
<1>10. WeakRefsAreSafe'
  <2> SUFFICES ASSUME NEW m \in Objects
               PROVE  /\ WeakRefsTo(m) # {} => at'[m] # "free"
                      /\ at'[m] = "husk" => WeakRefsTo(m) # {} /\ ref_count'[m] = 0
    BY <1>1 DEF WeakRefsAreSafe, WeakRefsTo
  <2>1. /\ WeakRefsTo(m) # {} => at[m] # "free"
        /\ at[m] = "husk" => WeakRefsTo(m) # {} /\ ref_count[m] = 0
        /\ m \in Nodes
    BY Domains DEF IInv, WeakRefsAreSafe
  <2> QED BY <1>1, <1>3, <1>5, <2>1
<1>11. pass' \in {"none", "zero"} /\ visited' = {} /\ weak' \in [Objects -> Objects \cup {Null}]
  BY <1>1, <1>2
<1> QED BY <1>3, <1>4, <1>6, <1>7, <1>8, <1>9, <1>10, <1>11, QuietAgain

LEMMA DropKeeps ==
    ASSUME IInv, NEW o \in Objects, Drop(o) \/ Disown(o)
    PROVE  IInv'
<1>1. /\ pass = "none" /\ FreeValue(o) /\ UNCHANGED ref /\ o \in Nodes
      /\ \/ stack[o] > 0 /\ stack' = [stack EXCEPT ![o] = @ - 1] /\ UNCHANGED owned
         \/ owned[o] > 0 /\ owned' = [owned EXCEPT ![o] = @ - 1] /\ UNCHANGED stack
  BY Domains DEF Drop, Disown, FreeValue
<1>2. /\ ref \in [Nodes \X Slots -> Nodes \cup {Null}]
      /\ stack \in [Nodes -> Nat] /\ owned \in [Nodes -> Nat] /\ ref_count \in [Nodes -> Nat]
      /\ \A m \in Nodes : ref_count[m] = stack[m] + owned[m] + Refs(m, Nodes)
  BY <1>1, Quiet
<1>3. (\A m : Refs(m, Nodes)' = Refs(m, Nodes)) /\ HoldsObjects'
  BY <1>1, SameRefs DEF IInv
<1>4. ref_count[o] > 0
  BY <1>1, <1>2, RefsType
<1>5. /\ stack' \in [Nodes -> Nat] /\ owned' \in [Nodes -> Nat]
      /\ \A m \in Nodes : stack'[m] + owned'[m] = stack[m] + owned[m] - One(o, m)
  <2>1. CASE stack[o] > 0 /\ stack' = [stack EXCEPT ![o] = @ - 1] /\ UNCHANGED owned
    <3>1. stack[o] - 1 \in Nat
      BY <1>1, <1>2, <2>1
    <3>2. stack' \in [Nodes -> Nat] /\ owned' \in [Nodes -> Nat]
      BY <1>2, <2>1, <3>1
    <3>3. ASSUME NEW m \in Nodes
          PROVE  stack'[m] + owned'[m] = stack[m] + owned[m] - One(o, m)
      <4>1. /\ stack'[m] = (IF m = o THEN stack[m] - 1 ELSE stack[m]) /\ owned'[m] = owned[m]
            /\ stack[m] \in Nat /\ owned[m] \in Nat
        BY <1>2, <2>1
      <4> QED BY <4>1 DEF One
    <3> QED BY <3>2, <3>3
  <2>2. CASE owned[o] > 0 /\ owned' = [owned EXCEPT ![o] = @ - 1] /\ UNCHANGED stack
    <3>1. owned[o] - 1 \in Nat
      BY <1>1, <1>2, <2>2
    <3>2. stack' \in [Nodes -> Nat] /\ owned' \in [Nodes -> Nat]
      BY <1>2, <2>2, <3>1
    <3>3. ASSUME NEW m \in Nodes
          PROVE  stack'[m] + owned'[m] = stack[m] + owned[m] - One(o, m)
      <4>1. /\ owned'[m] = (IF m = o THEN owned[m] - 1 ELSE owned[m]) /\ stack'[m] = stack[m]
            /\ stack[m] \in Nat /\ owned[m] \in Nat
        BY <1>2, <2>2
      <4> QED BY <4>1 DEF One
    <3> QED BY <3>2, <3>3
  <2> QED BY <1>1, <2>1, <2>2
<1>6. ASSUME NEW m \in Nodes
      PROVE  stack'[m] + owned'[m] + Refs(m, Nodes)' =
             stack[m] + owned[m] + Refs(m, Nodes) - One(o, m)
  <2>1. /\ stack[m] \in Nat /\ owned[m] \in Nat /\ Refs(m, Nodes) \in Nat /\ One(o, m) \in Nat
        /\ Refs(m, Nodes)' = Refs(m, Nodes)
        /\ stack'[m] + owned'[m] = stack[m] + owned[m] - One(o, m)
    BY <1>2, <1>3, <1>5, RefsType DEF One
  <2> QED BY <2>1
<1>7. ref' \in [Nodes \X Slots -> Nodes \cup {Null}]
  BY <1>1, <1>2
<1> QED BY <1>1, <1>3, <1>4, <1>5, <1>6, <1>7, FreeValueKeeps

LEMMA PutKeeps ==
    ASSUME IInv, GlobalHeld, owned[Context] > 0,
           NEW n \in Objects \cup VarRefs, NEW p \in Props, NEW v \in Objects, Put(n, p, v)
    PROVE  IInv'
<1>1. /\ pass = "none" /\ AtHand(n) /\ stack[v] > 0 /\ UNCHANGED owned
      /\ stack' = [stack EXCEPT ![v] = @ - 1]
      /\ ref' = [ref EXCEPT ![<<n, p>>] = v]
      /\ n \in Nodes /\ v \in Nodes /\ p \in Slots /\ v # Null
  BY Domains DEF Put
<1>2. /\ ref \in [Nodes \X Slots -> Nodes \cup {Null}]
      /\ stack \in [Nodes -> Nat] /\ owned \in [Nodes -> Nat] /\ ref_count \in [Nodes -> Nat]
      /\ \A m \in Nodes : ref_count[m] = stack[m] + owned[m] + Refs(m, Nodes)
  BY <1>1, Quiet
<1>3. /\ ref' \in [Nodes \X Slots -> Nodes \cup {Null}]
      /\ \A m \in Nodes, s \in Slots :
            ref'[<<m, s>>] = IF m = n /\ s = p THEN v ELSE ref[<<m, s>>]
  BY <1>1, <1>2
<1> DEFINE d == <<n, p>> old == ref[d]
<1>4. /\ d \in Cells
      /\ \A f \in Cells : ref'[f] = IF f = d THEN v ELSE ref[f]
  BY <1>1, <1>2 DEF Cells
<1>5. old \in Objects \cup {Null}
  BY <1>1 DEF IInv, HoldsObjects
<1>6. HoldsObjects'
  BY <1>1, <1>2 DEF IInv, HoldsObjects
<1>7. ref_count[n] > 0
  BY <1>1, AtHandLives
<1>8. \A m \in Nodes, s \in Slots : ref_count[m] = 0 => ref'[<<m, s>>] = ref[<<m, s>>]
  BY <1>3, <1>7
<1>9. stack' \in [Nodes -> Nat] /\ owned' \in [Nodes -> Nat]
  <2>1. stack[v] - 1 \in Nat
    BY <1>1, <1>2
  <2> QED BY <1>1, <1>2, <2>1
<1>10. old # Null => ref_count[old] > 0
  BY <1>1, Referenced
<1> HIDE DEF d, old
<1>11. \A m \in Nodes : Refs(m, Nodes)' = Refs(m, Nodes) + One(v, m) - One(old, m)
  <2> TAKE m \in Nodes
  <2>1. Refs(m, Nodes)' = Refs(m, Nodes) + One(v, m) - One(ref[d], m)
    BY <1>4, PutOne
  <2> QED BY <2>1 DEF old
<1>12. ASSUME NEW m \in Nodes
       PROVE  stack'[m] + owned'[m] + Refs(m, Nodes)' =
              stack[m] + owned[m] + Refs(m, Nodes) - One(old, m)
  <2>1. /\ stack[m] \in Nat /\ owned[m] \in Nat /\ Refs(m, Nodes) \in Nat
        /\ One(old, m) \in Nat /\ One(v, m) \in Nat
        /\ Refs(m, Nodes)' = Refs(m, Nodes) + One(v, m) - One(old, m)
    BY <1>2, <1>11, RefsType DEF One
  <2>2. stack'[m] = stack[m] - One(v, m) /\ owned'[m] = owned[m]
    BY <1>1, <1>2, <2>1 DEF One
  <2> QED BY <2>1, <2>2
<1>13. CASE old = Null
  <2>1. UNCHANGED <<weak, ref_count, at, pass, visited>>
    BY <1>13 DEF Put, old, d
  <2>2. \A m \in Nodes : ref_count'[m] = stack'[m] + owned'[m] + Refs(m, Nodes)'
    <3> TAKE m \in Nodes
    <3>1. One(old, m) = 0
      BY <1>13, Domains DEF One
    <3>2. /\ stack[m] \in Nat /\ owned[m] \in Nat /\ Refs(m, Nodes) \in Nat
          /\ ref_count'[m] = stack[m] + owned[m] + Refs(m, Nodes)
      BY <1>2, <2>1, RefsType
    <3>3. stack'[m] + owned'[m] + Refs(m, Nodes)' =
              stack[m] + owned[m] + Refs(m, Nodes) - One(old, m)
      BY <1>12
    <3> QED BY <3>1, <3>2, <3>3
  <2>3. /\ \A m \in Nodes : /\ ref_count'[m] = stack'[m] + owned'[m] + Refs(m, Nodes)'
                            /\ ref_count'[m] > 0 <=> ref_count[m] > 0
        /\ \A m \in Nodes, s \in Slots : ref_count'[m] = 0 => ref'[<<m, s>>] = ref[<<m, s>>]
        /\ ref_count' \in [Nodes -> Nat]
    BY <1>2, <1>8, <2>1, <2>2
  <2> QED BY <1>1, <1>3, <1>6, <1>9, <2>1, <2>3, NothingMade
<1>14. CASE old # Null
  <2>1. old \in Objects /\ FreeValue(old)
    BY <1>5, <1>14 DEF Put, old, d
  <2> QED BY <1>3, <1>6, <1>8, <1>9, <1>10, <1>12, <1>14, <2>1, FreeValueKeeps
<1> QED BY <1>13, <1>14

-----------------------------------------------------------------------------
(* What is made.                                                           *)

LEMMA NewObjectKeeps ==
    ASSUME IInv, NEW o \in Objects,
           NewObject(o) \/ \E target \in Objects : NewWeakRef(o, target)
    PROVE  IInv'
<1> DEFINE new == {o}
<1>1. /\ pass = "none" /\ UNCHANGED <<ref, owned, pass, visited>>
      /\ o \in Nodes /\ new \in SUBSET Nodes /\ \A m \in new : at[m] = "free"
      /\ at' = [m \in Nodes |-> IF m \in new THEN "gc_obj_list" ELSE at[m]]
      /\ stack' = [stack EXCEPT ![o] = 1]
      /\ ref_count' = [ref_count EXCEPT ![o] = 1]
  BY Domains DEF NewObject, NewWeakRef, MakeObject, Make
<1>2. /\ ref \in [Nodes \X Slots -> Nodes \cup {Null}]
      /\ weak \in [Objects -> Objects \cup {Null}]
      /\ stack \in [Nodes -> Nat] /\ owned \in [Nodes -> Nat] /\ ref_count \in [Nodes -> Nat]
      /\ \A n \in Nodes : ref_count[n] = stack[n] + owned[n] + Refs(n, Nodes)
      /\ \A n \in Nodes : at[n] = "free" => ref_count[n] = 0
  BY <1>1, Quiet
<1>3. (\A n : Refs(n, Nodes)' = Refs(n, Nodes)) /\ HoldsObjects'
  BY <1>1, SameRefs DEF IInv
<1>4. \A t \in Objects : stack[t] > 0 => ref_count[t] > 0
  BY <1>1, <1>2, RefsType, Domains
<1>5. /\ weak' \in [Objects -> Objects \cup {Null}]
      /\ \A t \in Objects : \/ weak'[t] = weak[t]
                            \/ t \in new /\ weak'[t] \in Objects /\ ref_count[weak'[t]] > 0
  <2>1. CASE NewObject(o)
    BY <1>2, <2>1 DEF NewObject
  <2>2. CASE \E target \in Objects : NewWeakRef(o, target)
    <3>1. PICK target \in Objects : stack[target] > 0 /\ weak' = [weak EXCEPT ![o] = target]
      BY <2>2 DEF NewWeakRef
    <3>2. ref_count[target] > 0
      BY <1>4, <3>1
    <3> QED BY <1>2, <3>1, <3>2
  <2> QED BY <2>1, <2>2
<1>6. \A n \in Nodes : /\ ref_count'[n] = stack'[n] + owned'[n] + Refs(n, Nodes)'
                       /\ ref_count'[n] > 0 <=> ref_count[n] > 0 \/ n \in new
  <2> TAKE n \in Nodes
  <2>1. /\ stack[n] \in Nat /\ owned[n] \in Nat /\ Refs(n, Nodes) \in Nat
        /\ ref_count[n] = stack[n] + owned[n] + Refs(n, Nodes)
        /\ stack'[n] = IF n = o THEN 1 ELSE stack[n]
        /\ ref_count'[n] = IF n = o THEN 1 ELSE ref_count[n]
        /\ owned'[n] = owned[n]
        /\ Refs(n, Nodes)' = Refs(n, Nodes)
        /\ n \in new <=> n = o
        /\ n = o => ref_count[n] = 0
    BY <1>1, <1>2, <1>3, RefsType
  <2> HIDE DEF new
  <2> QED BY <2>1
<1>7. stack' \in [Nodes -> Nat] /\ ref_count' \in [Nodes -> Nat] /\ owned' \in [Nodes -> Nat]
  BY <1>1, <1>2
<1>8. /\ ref' \in [Nodes \X Slots -> Nodes \cup {Null}]
      /\ \A n \in Nodes, s \in Slots : ref_count'[n] = 0 => ref'[<<n, s>>] = ref[<<n, s>>]
  BY <1>1, <1>2
<1> HIDE DEF new
<1> QED BY <1>1, <1>3, <1>5, <1>6, <1>7, <1>8, MakeKeeps

(* The two slots of a function that is made.                               *)
RealmSlot(o) == <<o, "realm">>
VarSlot(o) == <<o, "var">>

SlotsOf(o, v) ==
    /\ RealmSlot(o) \in Cells /\ VarSlot(o) \in Cells /\ RealmSlot(o) # VarSlot(o)
    /\ ref[RealmSlot(o)] = Null /\ ref[VarSlot(o)] = Null
    /\ \A f \in Cells : ref'[f] = IF f = VarSlot(o) THEN v
                                  ELSE IF f = RealmSlot(o) THEN Context ELSE ref[f]
    /\ ref' \in [Nodes \X Slots -> Nodes \cup {Null}]
    /\ \A m \in Nodes, s \in Slots :
            m # o \/ s \in Props => ref'[<<m, s>>] = ref[<<m, s>>]

LEMMA FunctionSlots ==
    ASSUME IInv, pass = "none", NEW o \in Objects, at[o] = "free", NEW v \in Nodes,
           ref' = [ref EXCEPT ![<<o, "realm">>] = Context, ![<<o, "var">>] = v]
    PROVE  SlotsOf(o, v)
<1>1. /\ ref \in [Nodes \X Slots -> Nodes \cup {Null}] /\ o \in Nodes /\ Context \in Nodes
      /\ ref[<<o, "realm">>] = Null /\ ref[<<o, "var">>] = Null
  BY Quiet, Domains
<1>2. /\ ref' \in [Nodes \X Slots -> Nodes \cup {Null}]
      /\ \A m \in Nodes, s \in Slots :
           m # o \/ s \in Props => ref'[<<m, s>>] = ref[<<m, s>>]
  BY <1>1, Domains
<1>3. /\ RealmSlot(o) \in Cells /\ VarSlot(o) \in Cells /\ RealmSlot(o) # VarSlot(o)
      /\ ref[RealmSlot(o)] = Null /\ ref[VarSlot(o)] = Null
      /\ \A f \in Cells : ref'[f] = IF f = VarSlot(o) THEN v
                                    ELSE IF f = RealmSlot(o) THEN Context ELSE ref[f]
  BY <1>1, Domains DEF Cells, RealmSlot, VarSlot
<1> QED BY <1>2, <1>3 DEF SlotsOf

(* A function o is made, with the context for its realm and the variable v,*)
(* which is new or which another closure has.                              *)
LEMMA FunctionKeeps ==
    ASSUME IInv, NEW o \in Objects, NEW v \in Nodes, NEW new \in SUBSET Nodes,
           Make(new), new = {o} \/ new = {o, v}, v \in new \/ ref_count[v] > 0,
           v # o, Context \notin new, owned[Context] > 0,
           SlotsOf(o, v),
           stack' = [stack EXCEPT ![o] = 1], UNCHANGED <<weak, owned>>,
           ref_count' \in [Nodes -> Nat],
           \A n \in Nodes : ref_count'[n] = IF n = o THEN 1
                                            ELSE ref_count[n] + One(Context, n) + One(v, n)
    PROVE  IInv'
<1>1. /\ pass = "none" /\ UNCHANGED <<pass, visited>>
      /\ o \in Nodes /\ o \in new /\ Context \in Nodes /\ Context # o
      /\ \A m \in new : at[m] = "free"
      /\ at' = [m \in Nodes |-> IF m \in new THEN "gc_obj_list" ELSE at[m]]
  BY Domains DEF Make
<1>2. /\ ref \in [Nodes \X Slots -> Nodes \cup {Null}]
      /\ weak \in [Objects -> Objects \cup {Null}]
      /\ stack \in [Nodes -> Nat] /\ owned \in [Nodes -> Nat] /\ ref_count \in [Nodes -> Nat]
      /\ \A n \in Nodes : ref_count[n] = stack[n] + owned[n] + Refs(n, Nodes)
      /\ \A n \in Nodes : at[n] = "free" => ref_count[n] = 0
      /\ \A n \in Nodes, s \in Slots : ref_count[n] = 0 => ref[<<n, s>>] = Null
  BY <1>1, Quiet
<1>3. ref_count[o] = 0
  BY <1>1, <1>2
<1>4. /\ \A m \in Nodes, s \in Slots : m # o => ref'[<<m, s>>] = ref[<<m, s>>]
      /\ \A m \in Nodes, s \in Slots : s \in Props => ref'[<<m, s>>] = ref[<<m, s>>]
      /\ ref' \in [Nodes \X Slots -> Nodes \cup {Null}]
  BY DEF SlotsOf
<1>6. \A n \in Nodes : Refs(n, Nodes)' = Refs(n, Nodes) + One(Context, n) + One(v, n)
  BY PutTwo DEF SlotsOf
<1>7. HoldsObjects'
  <2> SUFFICES ASSUME NEW m \in Nodes, NEW s \in Slots, m \in Others \/ s \in Props
               PROVE  ref'[<<m, s>>] \in Objects \cup {Null}
    BY HoldsSlots
  <2>1. ref[<<m, s>>] \in Objects \cup {Null}
    BY HoldsSlots DEF IInv
  <2> QED BY <1>4, <2>1, Domains
<1>8. ref_count[Context] > 0
  BY <1>1, <1>2, RefsType
<1>9. \A n \in Nodes : n \in new => ref_count[n] = 0
  BY <1>1, <1>2
<1>10. \A n \in Nodes : /\ ref_count'[n] = stack'[n] + owned'[n] + Refs(n, Nodes)'
                        /\ ref_count'[n] > 0 <=> ref_count[n] > 0 \/ n \in new
  <2> TAKE n \in Nodes
  <2>1. /\ stack[n] \in Nat /\ owned[n] \in Nat /\ Refs(n, Nodes) \in Nat /\ ref_count[n] \in Nat
        /\ One(Context, n) \in Nat /\ One(v, n) \in Nat
        /\ ref_count[n] = stack[n] + owned[n] + Refs(n, Nodes)
        /\ owned'[n] = owned[n]
        /\ stack'[n] = IF n = o THEN 1 ELSE stack[n]
        /\ ref_count'[n] = IF n = o THEN 1 ELSE ref_count[n] + One(Context, n) + One(v, n)
        /\ Refs(n, Nodes)' = Refs(n, Nodes) + One(Context, n) + One(v, n)
    BY <1>2, <1>6, RefsType DEF One
  <2>2. CASE n = o
    <3>1. One(Context, n) = 0 /\ One(v, n) = 0 /\ ref_count[n] = 0 /\ n \in new
      BY <1>1, <1>3, <2>2 DEF One
    <3>2. stack[n] = 0 /\ owned[n] = 0 /\ Refs(n, Nodes) = 0
      BY <2>1, <3>1
    <3>3. stack'[n] = 1 /\ ref_count'[n] = 1 /\ owned'[n] = 0 /\ Refs(n, Nodes)' = 0
      BY <2>1, <2>2, <3>1, <3>2
    <3> QED BY <3>1, <3>3
  <2>3. CASE n # o
    <3>1. n \in new => n = v
      BY <2>3
    <3>2. One(Context, n) = 1 => ref_count[n] > 0
      BY <1>8 DEF One
    <3>3. One(v, n) = 1 => ref_count[n] > 0 \/ n \in new
      BY DEF One
    <3>4. One(Context, n) \in {0, 1} /\ One(v, n) \in {0, 1} /\ (n = v => One(v, n) = 1)
      BY DEF One
    <3> QED BY <2>1, <2>3, <3>1, <3>2, <3>3, <3>4
  <2> QED BY <2>2, <2>3
<1>11. \A n \in Nodes, s \in Slots : ref_count'[n] = 0 => ref'[<<n, s>>] = ref[<<n, s>>]
  <2>1. ref_count'[o] = 1
    BY <1>1
  <2> QED BY <1>4, <2>1
<1>12. stack' \in [Nodes -> Nat] /\ owned' \in [Nodes -> Nat]
       /\ weak' \in [Objects -> Objects \cup {Null}]
  BY <1>1, <1>2
<1>13. \A t \in Objects : weak'[t] = weak[t]
  OBVIOUS
<1> QED BY <1>1, <1>4, <1>7, <1>10, <1>11, <1>12, <1>13, MakeKeeps

LEMMA NewClosureKeeps ==
    ASSUME IInv, NEW o \in Objects, NEW r \in VarRefs, NewClosure(o, r)
    PROVE  IInv'
<1> DEFINE new == {o} \cup {r}
<1>1. /\ Make(new) /\ pass = "none" /\ owned[Context] > 0 /\ UNCHANGED <<weak, owned>>
      /\ stack' = [stack EXCEPT ![o] = 1]
      /\ ref' = [ref EXCEPT ![<<o, "realm">>] = Context, ![<<o, "var">>] = r]
      /\ ref_count' = [ref_count EXCEPT ![o] = 1, ![r] = 1, ![Context] = @ + 1]
  BY DEF NewClosure, MakeObject, Make
<1>2. /\ new \in SUBSET Nodes /\ new = {o, r} /\ r \in Nodes /\ o \in Nodes /\ r # o
      /\ Context \in Nodes /\ Context # o /\ Context # r
  BY Domains
<1>3. ref_count \in [Nodes -> Nat] /\ ref_count[r] = 0
  <2>1. at[r] = "free"
    BY <1>1, <1>2 DEF Make
  <2> QED BY <1>1, <1>2, <2>1, Quiet
<1>4. /\ ref_count' \in [Nodes -> Nat]
      /\ \A n \in Nodes : ref_count'[n] = IF n = o THEN 1
                                          ELSE ref_count[n] + One(Context, n) + One(r, n)
  <2>1. ref_count[Context] + 1 \in Nat
    BY <1>2, <1>3
  <2>2. \A n \in Nodes : ref_count'[n] = IF n = Context THEN ref_count[n] + 1
                                         ELSE IF n = r THEN 1 ELSE IF n = o THEN 1 ELSE ref_count[n]
    BY <1>1, <1>2, <1>3
  <2> QED BY <1>1, <1>2, <1>3, <2>1, <2>2 DEF One
<1>5. at[o] = "free"
  BY <1>1, <1>2 DEF Make
<1>6. SlotsOf(o, r)
  BY <1>1, <1>2, <1>5, FunctionSlots
<1>7. /\ Make(new) /\ owned[Context] > 0 /\ UNCHANGED <<weak, owned>>
      /\ stack' = [stack EXCEPT ![o] = 1]
      /\ new \in SUBSET Nodes /\ r \in Nodes /\ r # o
      /\ new = {o} \/ new = {o, r}
      /\ r \in new \/ ref_count[r] > 0
      /\ Context \notin new
  BY <1>1, <1>2
<1> HIDE DEF new
<1> QED BY <1>4, <1>6, <1>7, FunctionKeeps

LEMMA ShareVariableKeeps ==
    ASSUME IInv, SlotsHold, NEW o \in Objects, NEW c \in Objects, ShareVariable(o, c)
    PROVE  IInv'
<1> PICK v : v = ref[<<c, "var">>]
  OBVIOUS
<1> DEFINE new == {o} \cup {}
<1>1. /\ Make(new) /\ pass = "none" /\ owned[Context] > 0 /\ UNCHANGED <<weak, owned>>
      /\ v # Null
      /\ stack' = [stack EXCEPT ![o] = 1]
      /\ ref' = [ref EXCEPT ![<<o, "realm">>] = Context, ![<<o, "var">>] = v]
      /\ ref_count' = [ref_count EXCEPT ![o] = 1, ![v] = @ + 1, ![Context] = @ + 1]
  BY DEF ShareVariable, MakeObject, Make
<1>2. v \in Nodes /\ ref_count[v] > 0
  BY <1>1, Referenced, Domains
<1>3. ref_count \in [Nodes -> Nat] /\ ref_count[o] = 0 /\ o \in Nodes
  <2>1. at[o] = "free"
    BY <1>1 DEF Make
  <2> QED BY <1>1, <2>1, Quiet, Domains
<1>4. /\ new \in SUBSET Nodes /\ new = {o} /\ v # o
      /\ Context \in Nodes /\ Context # o /\ Context \notin new
  BY <1>2, <1>3, Domains
<1>5. /\ ref_count' \in [Nodes -> Nat]
      /\ \A n \in Nodes : ref_count'[n] = IF n = o THEN 1
                                          ELSE ref_count[n] + One(Context, n) + One(v, n)
  <2>1. v # Context
    BY <1>1, Domains DEF SlotsHold
  <2>2. \A n \in Nodes : ref_count'[n] = IF n = Context \/ n = v THEN ref_count[n] + 1
                                         ELSE IF n = o THEN 1 ELSE ref_count[n]
    BY <1>1, <1>2, <1>3, <1>4, <2>1
  <2>3. ref_count[Context] + 1 \in Nat /\ ref_count[v] + 1 \in Nat
    BY <1>2, <1>3, <1>4
  <2>4. ref_count' \in [Nodes -> Nat]
    BY <1>1, <1>3, <2>3
  <2> QED BY <1>2, <1>3, <1>4, <2>1, <2>2, <2>4 DEF One
<1>6. at[o] = "free"
  BY <1>1 DEF Make
<1>7. SlotsOf(o, v)
  BY <1>1, <1>2, <1>6, FunctionSlots
<1>8. /\ Make(new) /\ owned[Context] > 0 /\ UNCHANGED <<weak, owned>>
      /\ stack' = [stack EXCEPT ![o] = 1]
      /\ new \in SUBSET Nodes /\ v \in Nodes /\ v # o
      /\ new = {o} \/ new = {o, v}
      /\ v \in new \/ ref_count[v] > 0
      /\ Context \notin new
  BY <1>1, <1>2, <1>4
<1> HIDE DEF new
<1> QED BY <1>5, <1>7, <1>8, FunctionKeeps

LEMMA NewContextKeeps ==
    ASSUME IInv, NewContext
    PROVE  IInv'
<1> DEFINE new == {Context, Global}
<1>1. /\ pass = "none" /\ UNCHANGED <<pass, visited, weak, stack>>
      /\ new \in SUBSET Nodes /\ \A m \in new : at[m] = "free"
      /\ at' = [m \in Nodes |-> IF m \in new THEN "gc_obj_list" ELSE at[m]]
      /\ Context \in Nodes /\ Global \in Nodes /\ Context # Global
      /\ ref' = [ref EXCEPT ![<<Context, "global">>] = Global, ![<<Global, "realm">>] = Context]
      /\ ref_count' = [ref_count EXCEPT ![Context] = 2, ![Global] = 1]
      /\ owned' = [owned EXCEPT ![Context] = 1]
  BY Domains DEF NewContext, Make
<1>2. /\ ref \in [Nodes \X Slots -> Nodes \cup {Null}]
      /\ weak \in [Objects -> Objects \cup {Null}]
      /\ stack \in [Nodes -> Nat] /\ owned \in [Nodes -> Nat] /\ ref_count \in [Nodes -> Nat]
      /\ \A n \in Nodes : ref_count[n] = stack[n] + owned[n] + Refs(n, Nodes)
      /\ \A n \in Nodes : at[n] = "free" => ref_count[n] = 0
      /\ \A n \in Nodes, s \in Slots : ref_count[n] = 0 => ref[<<n, s>>] = Null
  BY <1>1, Quiet
<1>3. ref_count[Context] = 0 /\ ref_count[Global] = 0
  BY <1>1, <1>2
<1>4. /\ ref' \in [Nodes \X Slots -> Nodes \cup {Null}]
      /\ \A m \in Nodes, s \in Slots : m \notin new => ref'[<<m, s>>] = ref[<<m, s>>]
      /\ \A m \in Nodes, s \in Slots : s \in Props => ref'[<<m, s>>] = ref[<<m, s>>]
      /\ \A s \in Slots : ref'[<<Context, s>>] \in {Global, ref[<<Context, s>>]}
  BY <1>1, <1>2, Domains
<1> DEFINE d == <<Context, "global">> e == <<Global, "realm">>
<1>5. /\ d \in Cells /\ e \in Cells /\ d # e /\ ref[d] = Null /\ ref[e] = Null
      /\ \A f \in Cells : ref'[f] = IF f = e THEN Context ELSE IF f = d THEN Global ELSE ref[f]
  BY <1>1, <1>2, <1>3, Domains DEF Cells
<1> HIDE DEF d, e
<1>6. \A n \in Nodes : Refs(n, Nodes)' = Refs(n, Nodes) + One(Global, n) + One(Context, n)
  BY <1>5, PutTwo
<1>7. HoldsObjects'
  <2> SUFFICES ASSUME NEW m \in Nodes, NEW s \in Slots, m \in Others \/ s \in Props
               PROVE  ref'[<<m, s>>] \in Objects \cup {Null}
    BY HoldsSlots
  <2>1. ref[<<m, s>>] \in Objects \cup {Null}
    BY HoldsSlots DEF IInv
  <2> QED BY <1>4, <2>1, Domains
<1>8. \A n \in Nodes : /\ ref_count'[n] = stack'[n] + owned'[n] + Refs(n, Nodes)'
                       /\ ref_count'[n] > 0 <=> ref_count[n] > 0 \/ n \in new
  <2> TAKE n \in Nodes
  <2>1. /\ stack[n] \in Nat /\ owned[n] \in Nat /\ Refs(n, Nodes) \in Nat /\ ref_count[n] \in Nat
        /\ ref_count[n] = stack[n] + owned[n] + Refs(n, Nodes)
        /\ stack'[n] = stack[n]
        /\ owned'[n] = IF n = Context THEN 1 ELSE owned[n]
        /\ ref_count'[n] = IF n = Global THEN 1 ELSE IF n = Context THEN 2 ELSE ref_count[n]
        /\ Refs(n, Nodes)' = Refs(n, Nodes) + One(Global, n) + One(Context, n)
        /\ n \in new => ref_count[n] = 0
    BY <1>1, <1>2, <1>3, <1>6, RefsType
  <2>2. n \in new <=> n = Context \/ n = Global
    OBVIOUS
  <2>3. Context # Global
    BY <1>1
  <2> HIDE DEF new
  <2>4. CASE n = Context
    <3>1. One(Global, n) = 0 /\ One(Context, n) = 1 /\ ref_count[n] = 0
      BY <2>1, <2>2, <2>3, <2>4 DEF One
    <3>2. stack[n] = 0 /\ Refs(n, Nodes) = 0
      BY <1>2, <3>1, RefsType
    <3> QED BY <2>1, <2>2, <2>3, <2>4, <3>1, <3>2
  <2>5. CASE n = Global
    <3>1. One(Global, n) = 1 /\ One(Context, n) = 0 /\ ref_count[n] = 0
      BY <2>1, <2>2, <2>3, <2>5 DEF One
    <3>2. stack[n] = 0 /\ owned[n] = 0 /\ Refs(n, Nodes) = 0
      BY <2>1, <3>1
    <3> QED BY <2>1, <2>2, <2>3, <2>5, <3>1, <3>2
  <2>6. CASE n # Context /\ n # Global
    <3>1. One(Global, n) = 0 /\ One(Context, n) = 0
      BY <2>6 DEF One
    <3> QED BY <2>1, <2>2, <2>6, <3>1
  <2> QED BY <2>4, <2>5, <2>6
<1>9. stack' \in [Nodes -> Nat] /\ owned' \in [Nodes -> Nat] /\ ref_count' \in [Nodes -> Nat]
      /\ weak' \in [Objects -> Objects \cup {Null}] /\ \A t \in Objects : weak'[t] = weak[t]
  BY <1>1, <1>2
<1>10. \A n \in Nodes, s \in Slots : ref_count'[n] = 0 => ref'[<<n, s>>] = ref[<<n, s>>]
  <2>1. \A n \in new : ref_count'[n] # 0
    BY <1>1, <1>2
  <2> QED BY <1>4, <2>1
<1> HIDE DEF new
<1> QED BY <1>1, <1>4, <1>7, <1>8, <1>9, <1>10, MakeKeeps

-----------------------------------------------------------------------------
(* The collector is started.                                               *)

LEMMA RunLastGCKeeps ==
    ASSUME IInv, RunLastGC
    PROVE  IInv'
<1>1. /\ pass = "none" /\ pass' = "decref" /\ visited' = {}
      /\ UNCHANGED <<ref, weak, roots, ref_count, at>>
  BY DEF RunLastGC, Turn
<1>2. In("tmp_obj_list") = {} /\ visited = {}
  BY <1>1 DEF IInv, ListsInUse, Traversed
<1>3. /\ \A n, M : Refs(n, M)' = Refs(n, M)
      /\ \A n : Total(n)' = Total(n)
  BY <1>1, SameReferences
<1>4. Counted'
  <2>1. Nodes \ {} = Nodes
    OBVIOUS
  <2> QED BY <1>1, <1>3, <2>1 DEF IInv, Counted, Counting, roots
<1>5. TypeOK' /\ HoldsObjects'
  BY <1>1 DEF IInv, TypeOK, HoldsObjects, roots, Passes
<1>6. ListsInUse' /\ Traversed' /\ FreedHoldNothing'
  BY <1>1, <1>2, InList DEF IInv, ListsInUse, Traversed, FreedHoldNothing, Freed
<1>7. NoDangling' /\ Live' /\ WeakRefsAreSafe'
  BY <1>1, <1>3, InList DEF IInv, NoDangling, Live, WeakRefsAreSafe, WeakRefsTo
<1>8. Kept' /\ Least'
  BY <1>1 DEF Kept, Least
<1> QED BY <1>4, <1>5, <1>6, <1>7, <1>8 DEF IInv

LEMMA RunGCKeeps ==
    ASSUME IInv, RunGC
    PROVE  IInv'
<1>1. /\ pass = "none" /\ pass' = "decref" /\ visited' = {}
      /\ weak' = [o \in Objects |-> IF weak[o] # Null /\ ref_count[weak[o]] = 0
                                    THEN Null ELSE weak[o]]
      /\ at' = [n \in Nodes |-> IF at[n] = "husk" /\ WeakRefsTo(n)' = {} THEN "free" ELSE at[n]]
      /\ UNCHANGED <<ref, roots, ref_count>>
  BY DEF RunGC, Turn
<1>2. /\ weak \in [Objects -> Objects \cup {Null}]
      /\ at \in [Nodes -> Lists \cup {"free", "husk"}]
      /\ In("tmp_obj_list") = {} /\ In("gc_zero_ref_count_list") = {} /\ visited = {}
      /\ ref_count \in [Nodes -> Nat]
  BY <1>1 DEF IInv, TypeOK, ListsInUse, Traversed
<1>3. /\ \A n, M : Refs(n, M)' = Refs(n, M)
      /\ \A n : Total(n)' = Total(n)
  BY <1>1, SameReferences
<1>4. \A n \in Nodes : /\ at'[n] = "gc_obj_list" <=> at[n] = "gc_obj_list"
                       /\ at'[n] \in {"gc_obj_list", "free", "husk"}
                       /\ at'[n] \in {"free", "husk"} => at[n] \in {"free", "husk"}
                       /\ at'[n] = "husk" => at[n] = "husk"
                       /\ at[n] = "husk" /\ WeakRefsTo(n)' = {} => at'[n] = "free"
                       /\ at'[n] = "free" => at[n] = "free" \/ WeakRefsTo(n)' = {}
  BY <1>1, <1>2, InList DEF Lists
<1>5. \A o \in Objects : weak'[o] \in {weak[o], Null}
  BY <1>1
<1>6. weak' \in [Objects -> Objects \cup {Null}]
  BY <1>1, <1>2
<1>7. Counted'
  <2>1. Nodes \ {} = Nodes
    OBVIOUS
  <2> QED BY <1>1, <1>3, <2>1 DEF IInv, Counted, Counting, roots
<1>8. TypeOK' /\ HoldsObjects'
  <2>1. at' \in [Nodes -> Lists \cup {"free", "husk"}]
    BY <1>1, <1>4 DEF Lists
  <2> QED BY <1>1, <1>6, <2>1 DEF IInv, TypeOK, HoldsObjects, roots, Passes
<1>9. ListsInUse' /\ Traversed'
  BY <1>1, <1>4, InList DEF ListsInUse, Traversed
<1>10. FreedHoldNothing'
  <2>1. Freed' \subseteq Freed
    BY <1>1, <1>4, InList DEF Freed
  <2> QED BY <1>1, <1>5, <2>1 DEF IInv, FreedHoldNothing
<1>11. NoDangling' /\ Live'
  BY <1>1, <1>3, <1>4, InList DEF IInv, NoDangling, Live
<1>12. WeakRefsAreSafe'
  <2> SUFFICES ASSUME NEW n \in Objects
               PROVE  /\ WeakRefsTo(n)' # {} => at'[n] # "free"
                      /\ at'[n] = "husk" => WeakRefsTo(n)' # {} /\ ref_count'[n] = 0
    BY DEF WeakRefsAreSafe
  <2>1. /\ WeakRefsTo(n) # {} => at[n] # "free"
        /\ at[n] = "husk" => ref_count[n] = 0
        /\ n \in Nodes /\ n # Null
    BY Domains DEF IInv, WeakRefsAreSafe
  <2>2. WeakRefsTo(n)' \subseteq WeakRefsTo(n)
    BY <1>5, <2>1 DEF WeakRefsTo
  <2> QED BY <1>1, <1>4, <2>1, <2>2
<1>13. Kept' /\ Least'
  BY <1>1 DEF Kept, Least
<1> QED BY <1>7, <1>8, <1>9, <1>10, <1>11, <1>12, <1>13 DEF IInv

(* Whatever is pushed has a reference already.                             *)
LEMMA GetKeeps ==
    ASSUME IInv, NEW n \in Objects \cup VarRefs, NEW p \in Props, Get(n, p)
    PROVE  IInv'
<1>1. PICK o \in Objects : ref[<<n, p>>] = o /\ Push(o)
  BY DEF Get
<1>2. ref_count[o] > 0
  <2>1. pass = "none" /\ n \in Nodes /\ p \in Slots /\ o # Null
    BY <1>1, Domains DEF Push
  <2> QED BY <1>1, <2>1, Referenced
<1> QED BY <1>1, <1>2, PushKeeps

LEMMA DerefKeeps ==
    ASSUME IInv, NEW o \in Objects, Deref(o)
    PROVE  IInv'
<1>1. PICK t \in Objects : ref_count[t] # 0 /\ Push(t)
  BY DEF Deref
<1>2. ref_count[t] > 0
  BY <1>1, Domains DEF IInv, TypeOK
<1> QED BY <1>1, <1>2, PushKeeps

LEMMA CallKeeps ==
    ASSUME IInv, NEW o \in Objects, Call(o)
    PROVE  IInv'
<1>1. owned[o] > 0 /\ Push(o) /\ pass = "none" /\ o \in Nodes
  BY Domains DEF Call, Push
<1>2. /\ ref_count[o] = stack[o] + owned[o] + Refs(o, Nodes)
      /\ stack[o] \in Nat /\ owned[o] \in Nat /\ Refs(o, Nodes) \in Nat
  BY <1>1, Quiet, RefsType
<1> QED BY <1>1, <1>2, PushKeeps

(* A step of a script that has a context.                                  *)
LEMMA MutateKeeps ==
    ASSUME IInv, SlotsHold, owned[Context] > 0, Mutate
    PROVE  IInv'
<1>1. CASE \E o \in Objects :
            \/ NewObject(o) \/ Drop(o) \/ Deref(o)
            \/ \E t \in Objects : NewWeakRef(o, t) \/ ShareVariable(o, t)
            \/ \E r \in VarRefs : NewClosure(o, r)
  BY <1>1, NewObjectKeeps, DropKeeps, DerefKeeps, ShareVariableKeeps, NewClosureKeeps
<1>2. CASE \E p \in Props :
            \/ \E n \in Objects \cup VarRefs : Get(n, p)
            \/ \E n \in Objects \cup VarRefs, v \in Objects : Put(n, p, v)
  BY <1>2, GetKeeps, PutKeeps DEF SlotsHold
<1>3. CASE RunGC
  BY <1>3, RunGCKeeps
<1> QED BY <1>1, <1>2, <1>3 DEF Mutate

-----------------------------------------------------------------------------
(* Steps and the slots of contexts and functions.                          *)

(* No step but those that make a function or a context fill such slots.    *)
LEMMA SlotsStay ==
    ASSUME SlotsHold, at'[Context] # "free" => at[Context] # "free",
           \A m \in Nodes, s \in Slots : s \notin Props =>
                \/ ref'[<<m, s>>] = ref[<<m, s>>]
                \/ ref'[<<m, s>>] = Null /\ (m = Context => at'[m] = "free")
    PROVE  SlotsHold'
BY Domains DEF SlotsHold, GlobalHeld

LEMMA FreeObjectKeepsSlots ==
    ASSUME IInv, SlotsHold, pass \in {"zero", "cycles"}, UNCHANGED roots,
           NEW p \in Objects, at[p] \in {"tmp_obj_list", "gc_zero_ref_count_list"},
           NEW list, NEW zero, zero \subseteq Objects \cap In("gc_obj_list"),
           FreeObject(p, list, zero)
    PROVE  SlotsHold'
<1>1. /\ Context \in Nodes /\ Context # p /\ Context \notin zero /\ Dependent(p) \subseteq Nodes
      /\ at \in [Nodes -> Lists \cup {"free", "husk"}]
  BY Domains DEF IInv, TypeOK, Dependent
<1>2. \A m \in Nodes, s \in Slots :
            ref'[<<m, s>>] = IF m = p \/ m \in Dependent(p) THEN Null ELSE ref[<<m, s>>]
  BY FreeObjectEffect
<1>3. Context \in Dependent(p) => at[Context] # "husk"
  BY FreeObjectEffect
<1>4. /\ Context \in Dependent(p) => at'[Context] = "free"
      /\ at[Context] = "free" => at'[Context] = "free"
  BY <1>1, <1>3 DEF FreeObject
<1>5. \A m \in Nodes, s \in Slots : s \notin Props =>
                \/ ref'[<<m, s>>] = ref[<<m, s>>]
                \/ ref'[<<m, s>>] = Null /\ (m = Context => at'[m] = "free")
  BY <1>1, <1>2, <1>4
<1> QED BY <1>4, <1>5, SlotsStay

LEMMA CollectKeepsSlots ==
    ASSUME IInv, SlotsHold, Collect
    PROVE  SlotsHold'
<1>1. /\ Context \in Nodes /\ Context \notin Objects
      /\ at \in [Nodes -> Lists \cup {"free", "husk"}]
  BY Domains DEF IInv, TypeOK
<1>2. ASSUME UNCHANGED ref, at[Context] = "free" => at'[Context] = "free"
      PROVE  SlotsHold'
  BY <1>2, SlotsStay
<1>3. CASE \E p \in Objects : FreeZero(p)
  <2> PICK p \in Objects : FreeZero(p)
    BY <1>3
  <2> DEFINE zero == Objects \cap In("gc_obj_list")
  <2>1. /\ pass = "zero" /\ at[p] = "gc_zero_ref_count_list" /\ UNCHANGED roots
        /\ FreeObject(p, "husk", zero) /\ zero \subseteq Objects \cap In("gc_obj_list")
    BY DEF FreeZero
  <2> HIDE DEF zero
  <2> QED BY <2>1, FreeObjectKeepsSlots
<1>4. CASE \E m \in Nodes : Decref(m) \/ Scan(m) \/ Restore(m)
  <2> PICK m \in Nodes : Decref(m) \/ Scan(m) \/ Restore(m)
    BY <1>4
  <2>1. UNCHANGED ref
    BY DEF Decref, Scan, Restore
  <2>2. at[Context] = "free" => at'[Context] = "free"
    <3>1. CASE Decref(m)
      <4>1. pass = "decref" /\ at[m] = "gc_obj_list" /\ visited' = visited \cup {m}
            /\ at' = [n \in Nodes |-> IF n \in visited' /\ ref_count'[n] = 0
                                      THEN "tmp_obj_list" ELSE at[n]]
        BY <3>1 DEF Decref
      <4>2. visited \subseteq In("gc_obj_list") \cup In("tmp_obj_list")
        BY DEF IInv, Traversed
      <4> QED BY <1>1, <4>1, <4>2, InList
    <3>2. CASE Scan(m) \/ Restore(m)
      BY <1>1, <3>2 DEF Scan, Restore
    <3> QED BY <3>1, <3>2
  <2> QED BY <1>2, <2>1, <2>2
<1>5. CASE \E p \in Nodes : FreeCycle(p)
  <2> PICK p \in Nodes : FreeCycle(p)
    BY <1>5
  <2>1. CASE p \in Objects
    <3> DEFINE zero == {}
    <3>1. /\ pass = "cycles" /\ at[p] = "tmp_obj_list" /\ UNCHANGED roots
          /\ FreeObject(p, "gc_zero_ref_count_list", zero)
          /\ zero \subseteq Objects \cap In("gc_obj_list")
      BY <2>1 DEF FreeCycle
    <3> HIDE DEF zero
    <3> QED BY <2>1, <3>1, FreeObjectKeepsSlots
  <2>2. CASE p \notin Objects
    <3>1. /\ UNCHANGED ref /\ at[p] = "tmp_obj_list"
          /\ at' = [at EXCEPT ![p] = "gc_zero_ref_count_list"]
      BY <2>2 DEF FreeCycle
    <3> QED BY <1>1, <1>2, <3>1
  <2> QED BY <2>1, <2>2
<1>6. CASE Sweep
  <2>1. UNCHANGED ref /\ at'[Context] = IF at[Context] # "gc_zero_ref_count_list" THEN at[Context]
                                        ELSE IF WeakRefsTo(Context) # {} THEN "husk" ELSE "free"
    BY <1>1, <1>6 DEF Sweep
  <2> QED BY <1>2, <2>1
<1>7. CASE ZeroDone \/ DecrefDone \/ ScanDone \/ RestoreDone \/ CyclesDone
  BY <1>2, <1>7 DEF ZeroDone, DecrefDone, ScanDone, RestoreDone, CyclesDone
<1> QED BY <1>3, <1>4, <1>5, <1>6, <1>7 DEF Collect

LEMMA MutateKeepsSlots ==
    ASSUME IInv, SlotsHold, Mutate
    PROVE  SlotsHold'
<1>1. /\ Context \in Nodes /\ Context \notin Objects /\ Context \notin VarRefs /\ pass = "none"
      /\ at \in [Nodes -> Lists \cup {"free", "husk"}]
      /\ ref \in [Nodes \X Slots -> Nodes \cup {Null}]
  BY Domains DEF IInv, TypeOK, Mutate, NewObject, NewWeakRef, NewClosure, ShareVariable, MakeObject,
     Make, Drop, FreeValue, Deref, Push, Get, Put, RunGC, Turn
<1>2. ASSUME UNCHANGED ref, at[Context] = "free" => at'[Context] = "free"
      PROVE  SlotsHold'
  BY <1>2, SlotsStay
<1>3. ASSUME NEW o \in Objects, NEW v \in VarRefs, NEW new \in SUBSET Nodes,
             Make(new), o \in new, Context \notin new,
             ref' = [ref EXCEPT ![<<o, "realm">>] = Context, ![<<o, "var">>] = v]
      PROVE  SlotsHold'
  <2>1. at[o] = "free" /\ v \in Nodes
    BY <1>3, Domains DEF Make
  <2>2. SlotsOf(o, v)
    BY <1>1, <1>3, <2>1, FunctionSlots
  <2>3. at'[Context] = at[Context]
    BY <1>1, <1>3 DEF Make
  <2>4. ref'[VarSlot(o)] = v
    BY <2>2 DEF SlotsOf
  <2> QED BY <2>2, <2>3, <2>4, <1>1, Domains DEF SlotsOf, VarSlot, SlotsHold, GlobalHeld
<1>4. ASSUME NEW o \in Objects, NewObject(o) \/ \E t \in Objects : NewWeakRef(o, t)
      PROVE  SlotsHold'
  BY <1>1, <1>2, <1>4 DEF NewObject, NewWeakRef, MakeObject, Make
<1>5. ASSUME NEW o \in Objects, NEW r \in VarRefs, NewClosure(o, r)
      PROVE  SlotsHold'
  <2>1. Make({o} \cup {r}) /\ {o} \cup {r} \in SUBSET Nodes
    BY <1>5, Domains DEF NewClosure, MakeObject
  <2> QED BY <1>1, <1>3, <1>5, <2>1 DEF NewClosure
<1>6. ASSUME NEW o \in Objects, NEW c \in Objects, ShareVariable(o, c)
      PROVE  SlotsHold'
  <2> PICK v : v = ref[<<c, "var">>]
    OBVIOUS
  <2>1. v \in VarRefs
    BY <1>6 DEF SlotsHold, ShareVariable
  <2>2. /\ ref' = [ref EXCEPT ![<<o, "realm">>] = Context, ![<<o, "var">>] = v]
        /\ Make({o} \cup {})
    BY <1>6 DEF ShareVariable, MakeObject
  <2>3. {o} \cup {} \in SUBSET Nodes /\ Context \notin {o} \cup {}
    BY Domains
  <2> QED BY <1>3, <2>1, <2>2, <2>3
<1>7. ASSUME NEW o \in Objects, Push(o)
      PROVE  SlotsHold'
  BY <1>2, <1>7 DEF Push
<1>8. ASSUME NEW o \in Objects, FreeValue(o)
      PROVE  at[Context] = "free" => at'[Context] = "free"
  BY <1>1, <1>8 DEF FreeValue
<1>9. ASSUME NEW o \in Objects, Drop(o)
      PROVE  SlotsHold'
  BY <1>2, <1>8, <1>9 DEF Drop
<1>10. ASSUME NEW n \in Objects \cup VarRefs, NEW p \in Props, NEW v \in Objects, Put(n, p, v)
       PROVE  SlotsHold'
  <2>1. \A m \in Nodes, s \in Slots : s \notin Props => ref'[<<m, s>>] = ref[<<m, s>>]
    BY <1>1, <1>10 DEF Put
  <2>2. ref[<<n, p>>] \in Objects \cup {Null}
    <3>1. n \in Nodes /\ p \in Slots
      BY Domains
    <3> QED BY <3>1, HoldsSlots DEF IInv
  <2>3. at[Context] = "free" => at'[Context] = "free"
    BY <1>8, <1>10, <2>2 DEF Put
  <2> QED BY <2>1, <2>3, SlotsStay
<1>11. CASE RunGC
  <2>1. UNCHANGED ref /\ at'[Context] = IF at[Context] = "husk" /\ WeakRefsTo(Context)' = {}
                                        THEN "free" ELSE at[Context]
    BY <1>1, <1>11 DEF RunGC
  <2> QED BY <1>2, <2>1
<1>12. ASSUME NEW o \in Objects, Deref(o)
       PROVE  SlotsHold'
  BY <1>7, <1>12 DEF Deref
<1>13. ASSUME NEW n \in Objects \cup VarRefs, NEW p \in Props, Get(n, p)
       PROVE  SlotsHold'
  BY <1>7, <1>13 DEF Get
<1> QED BY <1>4, <1>5, <1>6, <1>9, <1>10, <1>11, <1>12, <1>13 DEF Mutate

-----------------------------------------------------------------------------
(* The heap under the bridge.                                              *)

Husks == \A n \in Others : at[n] # "husk"

HeapInv == IInv /\ SlotsHold /\ Husks

LEMMA CollectKeepsHusks ==
    ASSUME IInv, Husks, Collect
    PROVE  Husks'
<1>1. at \in [Nodes -> Lists \cup {"free", "husk"}] /\ Others \subseteq Nodes
      /\ \A n \in Others : n \notin Objects
  BY Domains DEF IInv, TypeOK
<1> SUFFICES ASSUME NEW n \in Others
             PROVE  at'[n] # "husk"
  BY DEF Husks
<1>2. n \in Nodes /\ n \notin Objects /\ at[n] # "husk"
  BY <1>1 DEF Husks
<1>3. CASE \E p \in Objects : FreeZero(p)
  <2> PICK p \in Objects : FreeZero(p)
    BY <1>3
  <2>1. at'[n] \in {"free", at[n]}
    BY <1>2, FreeZeroPlaces
  <2> QED BY <1>2, <2>1
<1>4. CASE \E m \in Nodes : Decref(m) \/ Scan(m) \/ Restore(m)
  BY <1>2, <1>4 DEF Decref, Scan, Restore
<1>5. CASE \E p \in Nodes : FreeCycle(p)
  <2> PICK p \in Nodes : FreeCycle(p)
    BY <1>5
  <2>1. CASE p \in Objects
    <3>1. at'[n] \in {"free", at[n]}
      BY <1>2, <2>1, FreeCyclePlaces
    <3> QED BY <1>2, <3>1
  <2>2. CASE p \notin Objects
    BY <1>1, <1>2, <2>2 DEF FreeCycle
  <2> QED BY <2>1, <2>2
<1>6. CASE Sweep
  <2>1. at[n] # "gc_zero_ref_count_list"
    BY <1>2, <1>6, InList DEF IInv, ListsInUse, Sweep, Turn
  <2> QED BY <1>2, <1>6, <2>1 DEF Sweep
<1>7. CASE ZeroDone \/ DecrefDone \/ ScanDone \/ RestoreDone \/ CyclesDone
  BY <1>2, <1>7 DEF ZeroDone, DecrefDone, ScanDone, RestoreDone, CyclesDone
<1> QED BY <1>3, <1>4, <1>5, <1>6, <1>7 DEF Collect

LEMMA MutateEffect ==
    ASSUME IInv, Husks, Mutate
    PROVE  pass = "none" /\ UNCHANGED owned /\ Husks'
<1>1. at \in [Nodes -> Lists \cup {"free", "husk"}] /\ Others \subseteq Nodes
      /\ \A n \in Others : n \notin Objects
  BY Domains DEF IInv, TypeOK
<1>2. ASSUME NEW new, Make(new)
      PROVE  Husks'
  BY <1>1, <1>2 DEF Make, Husks
<1>3. ASSUME NEW o \in Objects, FreeValue(o)
      PROVE  Husks'
  BY <1>1, <1>3 DEF FreeValue, Husks
<1>4. ASSUME NEW o \in Objects, Push(o)
      PROVE  pass = "none" /\ UNCHANGED owned /\ Husks'
  BY <1>4 DEF Push, Husks
<1>5. ASSUME NEW o \in Objects, NewObject(o) \/ \E t \in Objects : NewWeakRef(o, t) \/ ShareVariable(o, t)
      PROVE  pass = "none" /\ UNCHANGED owned /\ Husks'
  <2>1. Make({o} \cup {}) /\ UNCHANGED owned /\ pass = "none"
    BY <1>5 DEF NewObject, NewWeakRef, ShareVariable, MakeObject, Make
  <2> QED BY <1>2, <2>1
<1>6. ASSUME NEW o \in Objects, NEW r \in VarRefs, NewClosure(o, r)
      PROVE  pass = "none" /\ UNCHANGED owned /\ Husks'
  <2>1. Make({o} \cup {r}) /\ UNCHANGED owned /\ pass = "none"
    BY <1>6 DEF NewClosure, MakeObject, Make
  <2> QED BY <1>2, <2>1
<1>7. ASSUME NEW o \in Objects, Drop(o) \/ Deref(o)
      PROVE  pass = "none" /\ UNCHANGED owned /\ Husks'
  <2>1. CASE Drop(o)
    BY <1>3, <2>1 DEF Drop, FreeValue
  <2>2. CASE Deref(o)
    BY <1>4, <2>2 DEF Deref
  <2> QED BY <1>7, <2>1, <2>2
<1>8. ASSUME NEW n \in Objects \cup VarRefs, NEW p \in Props, NEW v \in Objects, Put(n, p, v)
      PROVE  pass = "none" /\ UNCHANGED owned /\ Husks'
  <2>1. ref[<<n, p>>] \in Objects \cup {Null}
    <3>1. n \in Nodes /\ p \in Slots
      BY Domains
    <3> QED BY <3>1, HoldsSlots DEF IInv
  <2>2. pass = "none" /\ UNCHANGED owned
    BY <1>8 DEF Put
  <2>3. Husks'
    <3>1. CASE ref[<<n, p>>] = Null
      BY <1>8, <3>1 DEF Put, Husks
    <3>2. CASE ref[<<n, p>>] # Null
      BY <1>3, <1>8, <2>1, <3>2 DEF Put
    <3> QED BY <3>1, <3>2
  <2> QED BY <2>2, <2>3
<1>9. ASSUME NEW n \in Objects \cup VarRefs, NEW p \in Props, Get(n, p)
      PROVE  pass = "none" /\ UNCHANGED owned /\ Husks'
  BY <1>4, <1>9 DEF Get
<1>10. CASE RunGC
  BY <1>1, <1>10 DEF RunGC, Turn, roots, Husks
<1> QED BY <1>5, <1>6, <1>7, <1>8, <1>9, <1>10 DEF Mutate

(* A step of the heap, where a script runs only while there is a context.  *)
HeapStep ==
    \/ Collect \/ (Mutate /\ owned[Context] > 0)
    \/ NewContext \/ FreeContext \/ RunLastGC
    \/ \E o \in Objects : EnqueueJob(o) \/ Hand(o) \/ Call(o) \/ Disown(o)

LEMMA HeapInvHolds ==
    ASSUME HeapInv, HeapStep \/ UNCHANGED heapVars
    PROVE  HeapInv'
<1> USE DEF HeapInv
<1>1. at \in [Nodes -> Lists \cup {"free", "husk"}] /\ Others \subseteq Nodes
      /\ \A n \in Others : n \notin Objects
      /\ Context \in Others /\ Context \in Nodes
      /\ ref \in [Nodes \X Slots -> Nodes \cup {Null}]
  BY Domains DEF IInv, TypeOK
<1>2. CASE Collect
  BY <1>2, CollectKeeps, CollectKeepsSlots, CollectKeepsHusks
<1>3. CASE Mutate /\ owned[Context] > 0
  BY <1>3, MutateKeeps, MutateKeepsSlots, MutateEffect
<1>4. ASSUME UNCHANGED <<ref, at>>
      PROVE  SlotsHold' /\ Husks'
  BY <1>4, SlotsStay DEF Husks
<1>5. CASE NewContext
  <2>1. /\ ref' = [ref EXCEPT ![<<Context, "global">>] = Global, ![<<Global, "realm">>] = Context]
        /\ at' = [m \in Nodes |-> IF m \in {Context, Global} THEN "gc_obj_list" ELSE at[m]]
    BY <1>5 DEF NewContext, Make
  <2>2. Husks'
    BY <1>1, <2>1 DEF Husks
  <2>3. ref'[<<Context, "global">>] = Global
    BY <1>1, <2>1, Domains
  <2>4. \A o \in Objects : ref'[<<o, "var">>] = ref[<<o, "var">>]
    BY <1>1, <2>1, Domains
  <2>5. SlotsHold'
    BY <2>3, <2>4 DEF SlotsHold, GlobalHeld
  <2> QED BY <1>5, <2>2, <2>5, NewContextKeeps
<1>6. CASE FreeContext
  <2>1. UNCHANGED <<ref, at>>
    BY <1>6 DEF FreeContext
  <2> QED BY <1>4, <1>6, <2>1, FreeContextKeeps
<1>7. CASE RunLastGC
  <2>1. UNCHANGED <<ref, at>>
    BY <1>7 DEF RunLastGC
  <2> QED BY <1>4, <1>7, <2>1, RunLastGCKeeps
<1>8. ASSUME NEW o \in Objects, EnqueueJob(o) \/ Hand(o) \/ Call(o)
      PROVE  HeapInv'
  <2>1. UNCHANGED <<ref, at>>
    BY <1>8 DEF EnqueueJob, Hand, Call, Push
  <2> QED BY <1>4, <1>8, <2>1, EnqueueJobKeeps, HandKeeps, CallKeeps
<1>9. ASSUME NEW o \in Objects, Disown(o)
      PROVE  HeapInv'
  <2>1. UNCHANGED ref /\ \A n \in Others : at'[n] = at[n]
    <3>1. /\ UNCHANGED ref
          /\ at' = IF ref_count[o] = 1 THEN [at EXCEPT ![o] = "gc_zero_ref_count_list"] ELSE at
      BY <1>9 DEF Disown, FreeValue
    <3> QED BY <1>1, <3>1
  <2>2. Husks
    OBVIOUS
  <2>3. at[Context] = "free" => at'[Context] = "free"
    <3>1. at'[Context] = at[Context]
      <4>1. \A n \in Others : at'[n] = at[n]
        BY <2>1
      <4> QED BY <4>1, Domains, Zenon
    <3> QED BY <3>1, Zenon
  <2>4. Husks'
    BY <2>1, <2>2 DEF Husks
  <2>5. SlotsHold'
    BY <2>1, <2>3, SlotsStay
  <2> QED BY <1>9, <2>5, <2>4, DropKeeps
<1>10. CASE UNCHANGED heapVars
  <2>1. UNCHANGED <<ref, weak, stack, owned, ref_count, at, pass, visited>>
    BY <1>10 DEF heapVars, roots
  <2>2. /\ \A n, M : Refs(n, M)' = Refs(n, M)
        /\ \A n : Total(n)' = Total(n)
        /\ Roots' = Roots
        /\ \A S : Closed(S)' = Closed(S)
    BY <2>1, SameReferences DEF roots
  <2>3. IInv'
    <3>1. /\ In("gc_obj_list")' = In("gc_obj_list") /\ In("tmp_obj_list")' = In("tmp_obj_list")
          /\ In("gc_zero_ref_count_list")' = In("gc_zero_ref_count_list")
          /\ Freed' = Freed
      BY <2>1 DEF In, Freed
    <3> HIDE DEF HeapInv
    <3>2. IInv
      BY DEF HeapInv
    <3>3. TypeOK' /\ HoldsObjects' /\ ListsInUse' /\ Traversed'
      BY <2>1, <3>1, <3>2 DEF IInv, TypeOK, HoldsObjects, ListsInUse, Traversed
    <3>4. Counted'
      BY <2>1, <2>2, <3>2 DEF IInv, Counted, Counting
    <3>5. FreedHoldNothing' /\ NoDangling' /\ Live'
      BY <2>1, <2>2, <3>1, <3>2 DEF IInv, FreedHoldNothing, NoDangling, Live
    <3>6. Kept' /\ Least'
      BY <2>1, <2>2, <3>1, <3>2 DEF IInv, Kept, Least
    <3>7. WeakRefsAreSafe'
      BY <2>1, <3>2 DEF IInv, WeakRefsAreSafe, WeakRefsTo
    <3> QED BY <3>3, <3>4, <3>5, <3>6, <3>7 DEF IInv
  <2> QED BY <1>4, <2>1, <2>3
<1> QED BY <1>2, <1>3, <1>5, <1>6, <1>7, <1>8, <1>9, <1>10 DEF HeapStep

LEMMA InitHeapInv == Init => HeapInv
<1> SUFFICES ASSUME Init
             PROVE  HeapInv
  OBVIOUS
<1>1. /\ pass = "none" /\ visited = {}
      /\ \A n \in Nodes : at[n] = "free" /\ stack[n] = 0 /\ owned[n] = 0 /\ ref_count[n] = 0
      /\ \A n \in Nodes, s \in Slots : ref[<<n, s>>] = Null
      /\ \A o \in Objects : weak[o] = Null
  BY Domains DEF Init
<1>2. TypeOK
  BY DEF Init, TypeOK, Passes
<1>3. HoldsObjects
  BY <1>1, HoldsSlots
<1>4. \A n \in Nodes : Refs(n, Nodes) = 0
  BY <1>1, RefsZero, Domains
<1>5. Counted /\ NoDangling
  BY <1>1, <1>4 DEF Counted, Counting, NoDangling, Total
<1>6. ListsInUse /\ Traversed /\ FreedHoldNothing /\ Live
  BY <1>1, InList, Domains DEF ListsInUse, Traversed, FreedHoldNothing, Freed, Live
<1>7. WeakRefsAreSafe /\ Kept /\ Least
  BY <1>1, Domains DEF WeakRefsAreSafe, WeakRefsTo, Kept, Least
<1>8. SlotsHold /\ Husks
  BY <1>1, Domains DEF SlotsHold, GlobalHeld, Husks
<1> QED BY <1>2, <1>3, <1>5, <1>6, <1>7, <1>8 DEF HeapInv, IInv

-----------------------------------------------------------------------------
(* What the bridge and the runtime have, at each point of a call.          *)

WithContext == {"eval", "toCString", "freeValue", "freeContext", "freeRealm"}

Accounts ==
    /\ \A o \in Objects :
            owned[o] = One(value, o) + One(exception, o) + (IF o \in jobs THEN 1 ELSE 0)
    /\ owned[Context] = Cardinality(jobs) + (IF pc \in WithContext THEN 1 ELSE 0)
    /\ \A r \in VarRefs : owned[r] = 0

Stages ==
    /\ jobs \subseteq Objects /\ {value, exception} \subseteq Objects \cup {Null}
    /\ pc \in {"idle", "attempt", "newContext"} =>
            pass = "none" /\ (\A n \in Nodes : at[n] = "free") /\ NothingHeld
    /\ pc = "idle" => chars = {}
    /\ pc \notin {"eval", "toCString"} => \A n \in Nodes : stack[n] = 0
    /\ pc \notin {"toCString", "freeValue"} => value = Null /\ threw = FALSE
    /\ pc \notin {"freeValue", "freeContext", "freeRuntime"} => exception = Null
    /\ pc \in {"idle", "attempt", "newContext", "lastGC"} => jobs = {}
    /\ pc \notin {"freeRuntime", "freeJobs", "freeRealm", "undefined"} => halfMade = FALSE
    /\ pc = "lastGC" => pass # "zero" /\ (pass = "none" => In("gc_obj_list") = {})

BridgeInv == HeapInv /\ Accounts /\ Stages

LEMMA JobsFinite ==
    ASSUME jobs \subseteq Objects
    PROVE  /\ IsFiniteSet(jobs) /\ Cardinality(jobs) \in Nat
           /\ \A o \in Objects \ jobs : Cardinality(jobs \cup {o}) = Cardinality(jobs) + 1
           /\ \A o \in jobs : Cardinality(jobs \ {o}) = Cardinality(jobs) - 1
           /\ jobs = {} => Cardinality(jobs) = 0
<1>1. IsFiniteSet(jobs) /\ Cardinality(jobs) \in Nat
  BY HeapIsFinite, FS_Subset, FS_CardinalityType
<1>2. \A o \in Objects \ jobs : Cardinality(jobs \cup {o}) = Cardinality(jobs) + 1
  BY <1>1, FS_AddElement
<1>3. \A o \in jobs : Cardinality(jobs \ {o}) = Cardinality(jobs) - 1
  BY <1>1, FS_RemoveElement
<1> QED BY <1>1, <1>2, <1>3, FS_EmptySet

(* A script runs only while the bridge has the context.                    *)
LEMMA StepsOfTheHeap ==
    ASSUME BridgeInv, BridgeNext
    PROVE  HeapStep \/ UNCHANGED heapVars
<1>1. pc \in {"eval", "toCString"} => owned[Context] > 0
  BY JobsFinite DEF BridgeInv, Accounts, Stages, WithContext
<1>2. \A o \in Objects \cup {Null} : GiveUp(o) \/ EndsWith(o) => HeapStep \/ UNCHANGED heapVars
  BY Domains DEF GiveUp, EndsWith, HeapStep
<1>3. ASSUME NEW method, Enter(method)
      PROVE  UNCHANGED heapVars
  BY <1>3 DEF Enter
<1>4. CASE Leave \/ NewRuntime \/ RuntimeFreed \/ Undefined
  BY <1>4 DEF Leave, NewRuntime, RuntimeFreed, Undefined, vars
<1>5. CASE CreateContext \/ DropContext \/ DropRealm \/ LastGC \/ CollectStep
  BY <1>5 DEF CreateContext, DropContext, DropRealm, LastGC, CollectStep, HeapStep
<1>6. CASE Run \/ CallToString \/ \E o \in Objects : DropJob(o)
  <2>1. value \in Objects \cup {Null}
    BY DEF BridgeInv, Stages
  <2> QED BY <1>1, <1>6, <2>1 DEF Run, CallToString, DropJob, HeapStep
<1>7. CASE EvalEnds \/ ToCStringEnds \/ DropValue \/ DropException
  <2>1. {value, exception} \subseteq Objects \cup {Null}
    BY DEF BridgeInv, Stages
  <2> QED BY <1>2, <1>7, <2>1 DEF EvalEnds, ToCStringEnds, DropValue, DropException
<1> QED BY <1>3, <1>4, <1>5, <1>6, <1>7 DEF BridgeNext, Teardown

LEMMA EffectsOnOwned ==
    ASSUME TypeOK
    PROVE  /\ \A o \in Objects : Hand(o) =>
                /\ \A n \in Nodes : owned'[n] = IF n = o THEN owned[n] + 1 ELSE owned[n]
                /\ \A n \in Nodes : stack'[n] = IF n = o THEN stack[n] - 1 ELSE stack[n]
           /\ \A o \in Objects : Disown(o) =>
                /\ \A n \in Nodes : owned'[n] = IF n = o THEN owned[n] - 1 ELSE owned[n]
                /\ UNCHANGED stack
           /\ \A o \in Objects : Call(o) => UNCHANGED owned
           /\ \A o \in Objects : EnqueueJob(o) =>
                \A n \in Nodes : owned'[n] = IF n = o \/ n = Context THEN owned[n] + 1 ELSE owned[n]
           /\ NewContext =>
                /\ \A n \in Nodes : owned'[n] = IF n = Context THEN 1 ELSE owned[n]
                /\ UNCHANGED stack
           /\ FreeContext =>
                /\ \A n \in Nodes : owned'[n] = IF n = Context THEN owned[n] - 1 ELSE owned[n]
                /\ UNCHANGED stack
           /\ Collect => UNCHANGED <<stack, owned>> /\ pass # "none"
           /\ RunLastGC => UNCHANGED <<stack, owned>> /\ pass' = "decref"
<1>1. owned \in [Nodes -> Nat] /\ stack \in [Nodes -> Nat]
  BY DEF TypeOK
<1>2. ASSUME NEW o \in Objects, Hand(o)
      PROVE  /\ \A n \in Nodes : owned'[n] = IF n = o THEN owned[n] + 1 ELSE owned[n]
             /\ \A n \in Nodes : stack'[n] = IF n = o THEN stack[n] - 1 ELSE stack[n]
  BY <1>1, <1>2, Domains DEF Hand
<1>3. ASSUME NEW o \in Objects, Disown(o)
      PROVE  /\ \A n \in Nodes : owned'[n] = IF n = o THEN owned[n] - 1 ELSE owned[n]
             /\ UNCHANGED stack
  BY <1>1, <1>3, Domains DEF Disown
<1>4. ASSUME NEW o \in Objects, EnqueueJob(o)
      PROVE  \A n \in Nodes : owned'[n] = IF n = o \/ n = Context THEN owned[n] + 1 ELSE owned[n]
  <2>1. o # Context
    BY Domains
  <2> QED BY <1>1, <1>4, <2>1, Domains DEF EnqueueJob
<1>5. ASSUME NewContext
      PROVE  /\ \A n \in Nodes : owned'[n] = IF n = Context THEN 1 ELSE owned[n]
             /\ UNCHANGED stack
  BY <1>1, <1>5, Domains DEF NewContext
<1>6. ASSUME FreeContext
      PROVE  /\ \A n \in Nodes : owned'[n] = IF n = Context THEN owned[n] - 1 ELSE owned[n]
             /\ UNCHANGED stack
  BY <1>1, <1>6, Domains DEF FreeContext
<1>7. Collect => UNCHANGED <<stack, owned>> /\ pass # "none"
  BY DEF Collect, FreeZero, Decref, Scan, Restore, FreeCycle, ZeroDone, DecrefDone, ScanDone,
         RestoreDone, CyclesDone, Sweep, Turn, roots
<1>8. RunLastGC => UNCHANGED <<stack, owned>> /\ pass' = "decref"
  BY DEF RunLastGC, Turn, roots
<1>9. \A o \in Objects : Call(o) => UNCHANGED owned
  BY DEF Call, Push
<1> QED BY <1>2, <1>3, <1>4, <1>5, <1>6, <1>7, <1>8, <1>9

(* With no roots, a collection keeps nothing.                              *)
LEMMA LastCollection ==
    ASSUME IInv, Collect, Roots = {}, pass # "zero"
    PROVE  pass' # "zero" /\ (pass' = "none" => In("gc_obj_list")' = {})
<1>1. pass' # "zero"
  BY DEF Collect, FreeZero, Decref, Scan, Restore, FreeCycle, ZeroDone, DecrefDone, ScanDone,
         RestoreDone, CyclesDone, Sweep, Turn
<1>2. ASSUME pass' = "none"
      PROVE  In("gc_obj_list")' = {}
  <2>1. Sweep
    BY <1>2, EffectsOnOwned
       DEF IInv, Collect, FreeZero, Decref, Scan, Restore, FreeCycle, ZeroDone, DecrefDone, ScanDone,
         RestoreDone, CyclesDone, Turn
  <2>2. Closed({})
    BY DEF Closed
  <2>3. In("gc_obj_list") = {}
    BY <2>1, <2>2 DEF IInv, Least, Sweep, Turn
  <2>4. \A n \in Nodes : at'[n] = "gc_obj_list" => at[n] = "gc_obj_list"
    BY <2>1 DEF Sweep
  <2> QED BY <2>3, <2>4, InList
<1> QED BY <1>1, <1>2

(* Nothing in the lists, and nothing is left at all.                       *)
LEMMA NothingLeft ==
    ASSUME HeapInv, pass = "none", In("gc_obj_list") = {}
    PROVE  \A n \in Nodes : at[n] = "free"
<1>1. /\ \A n \in Nodes : at[n] \in {"gc_obj_list", "free", "husk"}
      /\ \A n \in Nodes : at[n] = "gc_obj_list" <=> ref_count[n] > 0
      /\ ref_count \in [Nodes -> Nat]
      /\ \A o \in Objects : ref_count[o] = 0 => weak[o] = Null
  BY Quiet DEF HeapInv
<1>2. \A n \in Nodes : at[n] # "gc_obj_list" /\ ref_count[n] = 0
  BY <1>1, InList
<1>3. \A n \in Objects : at[n] # "husk"
  BY <1>1, <1>2, Domains DEF HeapInv, IInv, WeakRefsAreSafe, WeakRefsTo
<1>4. \A n \in Others : at[n] # "husk"
  BY DEF HeapInv, Husks
<1> QED BY <1>1, <1>2, <1>3, <1>4, Domains

LEMMA BridgeInvHolds ==
    ASSUME BridgeInv, BridgeNext
    PROVE  BridgeInv'
<1>1. HeapInv'
  BY StepsOfTheHeap, HeapInvHolds DEF BridgeInv
<1>2. /\ TypeOK /\ IInv /\ HeapInv /\ Husks
      /\ \A n \in Nodes : stack[n] \in Nat /\ owned[n] \in Nat
      /\ \A n \in Nodes : at[n] \in Lists \cup {"free", "husk"}
  BY DEF BridgeInv, HeapInv, IInv, TypeOK
<1>3. /\ jobs \subseteq Objects /\ value \in Objects \cup {Null} /\ exception \in Objects \cup {Null}
      /\ Cardinality(jobs) \in Nat /\ (jobs = {} => Cardinality(jobs) = 0)
  BY JobsFinite DEF BridgeInv, Stages
<1>4. /\ \A o \in Objects : o \in Nodes /\ o # Context /\ o # Null
      /\ \A r \in VarRefs : r \in Nodes /\ r # Context /\ r \notin Objects
      /\ Context \in Nodes
  BY Domains
<1>5. Accounts /\ Stages
  BY DEF BridgeInv
(* What a step does to the accounts is the heap's effect and the caller's. *)
<1>6. ASSUME UNCHANGED <<owned, value, exception, jobs>>, pc \in WithContext <=> pc' \in WithContext
      PROVE  Accounts'
  BY <1>5, <1>6 DEF Accounts
<1>7. ASSUME NEW out \in Objects \cup {Null}, EndsWith(out)
      PROVE  /\ \A n \in Nodes : owned'[n] = owned[n] + One(out, n)
             /\ \A n \in Nodes : stack'[n] = 0
  <2>1. \A n \in Nodes : stack[n] = One(out, n)
    BY <1>7 DEF EndsWith, One
  <2>2. CASE out = Null
    <3>1. UNCHANGED <<stack, owned>> /\ \A n \in Nodes : One(out, n) = 0
      BY <1>7, <2>2, Domains DEF EndsWith, heapVars, roots, One
    <3> QED BY <1>2, <2>1, <3>1
  <2>3. CASE out # Null
    <3>1. /\ \A n \in Nodes : owned'[n] = IF n = out THEN owned[n] + 1 ELSE owned[n]
          /\ \A n \in Nodes : stack'[n] = IF n = out THEN stack[n] - 1 ELSE stack[n]
      BY <1>2, <1>7, <2>3, EffectsOnOwned DEF EndsWith
    <3> QED BY <1>2, <2>1, <3>1 DEF One
  <2> QED BY <2>2, <2>3
<1>8. ASSUME NEW out \in Objects \cup {Null}, GiveUp(out)
      PROVE  /\ \A n \in Nodes : owned'[n] = owned[n] - One(out, n)
             /\ UNCHANGED stack
  <2>1. CASE out = Null
    <3>1. UNCHANGED <<stack, owned>> /\ \A n \in Nodes : One(out, n) = 0
      BY <1>8, <2>1, Domains DEF GiveUp, heapVars, roots, One
    <3> QED BY <1>2, <3>1
  <2>2. CASE out # Null
    <3>1. /\ \A n \in Nodes : owned'[n] = IF n = out THEN owned[n] - 1 ELSE owned[n]
          /\ UNCHANGED stack
      BY <1>2, <1>8, <2>2, EffectsOnOwned DEF GiveUp
    <3> QED BY <1>2, <3>1 DEF One
  <2> QED BY <2>1, <2>2
<1>9. /\ \A n \in Nodes : One(Null, n) = 0
      /\ \A x, n : One(x, n) \in {0, 1}
      /\ \A x \in Objects \cup {Null} : One(x, Context) = 0 /\ \A r \in VarRefs : One(x, r) = 0
  BY Domains DEF One
<1>10. ASSUME UNCHANGED heapVars
       PROVE  UNCHANGED <<stack, owned, at, pass>> /\ In("gc_obj_list")' = In("gc_obj_list")
  BY <1>10 DEF heapVars, roots, In
<1>11. ASSUME NEW method, Enter(method)
       PROVE  BridgeInv'
  <2>1. /\ pc = "idle" /\ pc' \in {"idle", "attempt"} /\ UNCHANGED <<heapVars, runtime>>
        /\ pc' = "idle" => UNCHANGED chars
    BY <1>11 DEF Enter
  <2>2. Accounts'
    BY <1>6, <1>10, <2>1 DEF runtime, WithContext
  <2>3. Stages'
    BY <1>5, <1>10, <2>1 DEF Stages, NothingHeld, runtime
  <2> QED BY <1>1, <2>2, <2>3 DEF BridgeInv
<1>12. CASE Leave \/ NewRuntime \/ RuntimeFreed \/ Undefined
  <2>1. /\ UNCHANGED <<heapVars, runtime>>
        /\ \/ pc \in {"idle", "attempt"} /\ pc' \in {"idle", "attempt", "newContext"}
           \/ pc = "lastGC" /\ pass = "none" /\ pc' = "attempt"
           \/ pc = "undefined" /\ pc' = "undefined"
        /\ pc' = "idle" => chars' = {}
    BY <1>12 DEF Leave, NewRuntime, RuntimeFreed, Undefined, NextAttempt, vars, call, runtime
  <2>2. Accounts'
    BY <1>6, <1>10, <2>1 DEF runtime, WithContext
  <2>3. pc = "lastGC" /\ pass = "none" => \A n \in Nodes : at[n] = "free"
    BY <1>2, <1>5, NothingLeft DEF Stages
  <2>4. Stages'
    BY <1>5, <1>10, <2>1, <2>3 DEF Stages, NothingHeld, runtime
  <2> QED BY <1>1, <2>2, <2>4 DEF BridgeInv
<1>13. CASE CreateContext
  <2>1. CASE pc' = "eval"
    <3>1. /\ pc = "newContext" /\ NewContext /\ UNCHANGED <<value, threw, exception, jobs, halfMade>>
      BY <1>13, <2>1 DEF CreateContext, Goto, runtime
    <3>2. NothingHeld /\ \A n \in Nodes : stack[n] = 0
      BY <1>5, <3>1 DEF Stages
    <3>3. /\ \A n \in Nodes : owned'[n] = IF n = Context THEN 1 ELSE owned[n]
          /\ UNCHANGED stack
      BY <1>2, <3>1, EffectsOnOwned
    <3>4. Accounts'
      BY <1>3, <1>4, <1>5, <2>1, <3>1, <3>2, <3>3 DEF Accounts, NothingHeld, WithContext, One
    <3>5. Stages'
      BY <1>5, <2>1, <3>1, <3>2, <3>3 DEF Stages, NothingHeld
    <3> QED BY <1>1, <3>4, <3>5 DEF BridgeInv
  <2>2. CASE pc' # "eval"
    <3>1. /\ pc = "newContext" /\ pc' = "freeRuntime" /\ halfMade' \in BOOLEAN
          /\ UNCHANGED <<heapVars, value, threw, exception, jobs>>
      BY <1>13, <2>2 DEF CreateContext, Goto
    <3>2. Accounts'
      BY <1>6, <1>10, <3>1 DEF WithContext
    <3>3. Stages'
      BY <1>5, <1>10, <3>1 DEF Stages, NothingHeld
    <3> QED BY <1>1, <3>2, <3>3 DEF BridgeInv
  <2> QED BY <2>1, <2>2
<1>14. CASE Run
  <2>1. /\ pc \in {"eval", "toCString"} /\ UNCHANGED <<pc, chars, value, threw, exception, halfMade>>
        /\ pc \in WithContext
    BY <1>14 DEF Run, call, WithContext
  <2>2. CASE Mutate /\ UNCHANGED jobs
    <3>1. UNCHANGED owned
      BY <1>2, <2>2, MutateEffect
    <3>2. Accounts'
      BY <1>6, <2>1, <2>2, <3>1
    <3>3. Stages'
      BY <1>5, <2>1, <2>2 DEF Stages
    <3> QED BY <1>1, <3>2, <3>3 DEF BridgeInv
  <2>3. ASSUME NEW o \in Objects \ jobs, EnqueueJob(o), jobs' = jobs \cup {o}
        PROVE  BridgeInv'
    <3>1. \A n \in Nodes : owned'[n] = IF n = o \/ n = Context THEN owned[n] + 1 ELSE owned[n]
      BY <1>2, <2>3, EffectsOnOwned
    <3>2. Cardinality(jobs') = Cardinality(jobs) + 1
      BY <1>3, <2>3, JobsFinite
    <3>3. Accounts'
      BY <1>2, <1>3, <1>4, <1>5, <2>1, <2>3, <3>1, <3>2 DEF Accounts, One
    <3>4. Stages'
      BY <1>5, <2>1, <2>3 DEF Stages
    <3> QED BY <1>1, <3>3, <3>4 DEF BridgeInv
  <2> QED BY <1>14, <2>2, <2>3 DEF Run
<1>15. CASE EvalEnds
  <2>1. /\ pc = "eval" /\ pc' = "toCString" /\ UNCHANGED <<chars, exception, jobs, halfMade>>
        /\ value = Null /\ exception = Null
    BY <1>5, <1>15 DEF EvalEnds, Goto, Stages
  <2>2. PICK out \in Objects \cup {Null} : EndsWith(out) /\ value' = out
    BY <1>15 DEF EvalEnds
  <2>3. (\A n \in Nodes : owned'[n] = owned[n] + One(out, n)) /\ \A n \in Nodes : stack'[n] = 0
    BY <1>7, <2>2
  <2>4. Accounts'
    <3>1. \A o \in Objects : owned'[o] = One(value', o) + One(exception', o) + (IF o \in jobs' THEN 1 ELSE 0)
      <4> SUFFICES ASSUME NEW o \in Objects
                   PROVE  owned'[o] = One(value', o) + One(exception', o) + (IF o \in jobs' THEN 1 ELSE 0)
        OBVIOUS
      <4>1. owned[o] = One(value, o) + One(exception, o) + (IF o \in jobs THEN 1 ELSE 0)
        BY <1>5 DEF Accounts
      <4>2. owned'[o] = owned[o] + One(value', o) /\ One(value, o) = 0
        BY <1>4, <1>9, <2>1, <2>2, <2>3
      <4> QED BY <1>2, <1>4, <1>9, <2>1, <4>1, <4>2
    <3>2. owned'[Context] = Cardinality(jobs') + (IF pc' \in WithContext THEN 1 ELSE 0)
      <4>1. owned'[Context] = owned[Context]
        BY <1>2, <1>3, <1>4, <1>9, <2>1, <2>2, <2>3
      <4> QED BY <1>5, <2>1, <4>1 DEF Accounts, WithContext
    <3>3. \A r \in VarRefs : owned'[r] = 0
      <4>1. \A r \in VarRefs : owned'[r] = owned[r]
        BY <1>2, <1>3, <1>4, <1>9, <2>1, <2>2, <2>3
      <4> QED BY <1>5, <4>1 DEF Accounts
    <3> QED BY <3>1, <3>2, <3>3 DEF Accounts
  <2>5. Stages'
    BY <1>5, <2>1, <2>2, <2>3 DEF Stages
  <2> QED BY <1>1, <2>4, <2>5 DEF BridgeInv
<1>16. CASE CallToString
  <2>1. /\ pc = "toCString" /\ UNCHANGED <<pc, chars, value, threw, exception, jobs, halfMade>>
        /\ UNCHANGED owned
    BY <1>2, <1>3, <1>16, EffectsOnOwned DEF CallToString, call, runtime
  <2>2. Accounts'
    BY <1>6, <2>1
  <2>3. Stages'
    BY <1>5, <2>1 DEF Stages
  <2> QED BY <1>1, <2>2, <2>3 DEF BridgeInv
<1>17. CASE ToCStringEnds
  <2>1. /\ pc = "toCString" /\ pc' = "freeValue" /\ UNCHANGED <<chars, value, threw, jobs, halfMade>>
        /\ exception = Null
    BY <1>5, <1>17 DEF ToCStringEnds, Goto, Stages
  <2>2. PICK out \in Objects \cup {Null} : EndsWith(out) /\ exception' = out
    BY <1>17, <2>1 DEF ToCStringEnds
  <2>3. (\A n \in Nodes : owned'[n] = owned[n] + One(out, n)) /\ \A n \in Nodes : stack'[n] = 0
    BY <1>7, <2>2
  <2>4. Accounts'
    <3>1. \A o \in Objects : owned'[o] = One(value', o) + One(exception', o) + (IF o \in jobs' THEN 1 ELSE 0)
      <4> SUFFICES ASSUME NEW o \in Objects
                   PROVE  owned'[o] = One(value', o) + One(exception', o) + (IF o \in jobs' THEN 1 ELSE 0)
        OBVIOUS
      <4>1. owned[o] = One(value, o) + One(exception, o) + (IF o \in jobs THEN 1 ELSE 0)
        BY <1>5 DEF Accounts
      <4>2. owned'[o] = owned[o] + One(exception', o) /\ One(exception, o) = 0
        BY <1>4, <1>9, <2>1, <2>2, <2>3
      <4> QED BY <1>2, <1>4, <1>9, <2>1, <4>1, <4>2
    <3>2. owned'[Context] = Cardinality(jobs') + (IF pc' \in WithContext THEN 1 ELSE 0)
      <4>1. owned'[Context] = owned[Context]
        BY <1>2, <1>3, <1>4, <1>9, <2>1, <2>2, <2>3
      <4> QED BY <1>5, <2>1, <4>1 DEF Accounts, WithContext
    <3>3. \A r \in VarRefs : owned'[r] = 0
      <4>1. \A r \in VarRefs : owned'[r] = owned[r]
        BY <1>2, <1>3, <1>4, <1>9, <2>1, <2>2, <2>3
      <4> QED BY <1>5, <4>1 DEF Accounts
    <3> QED BY <3>1, <3>2, <3>3 DEF Accounts
  <2>5. Stages'
    BY <1>5, <2>1, <2>2, <2>3 DEF Stages
  <2> QED BY <1>1, <2>4, <2>5 DEF BridgeInv
<1>18. CASE DropValue
  <2>1. /\ pc = "freeValue" /\ pc' = "freeContext" /\ UNCHANGED <<chars, exception, jobs, halfMade>>
        /\ GiveUp(value) /\ value' = Null /\ threw' = FALSE
    BY <1>18 DEF DropValue, Goto
  <2>2. (\A n \in Nodes : owned'[n] = owned[n] - One(value, n)) /\ UNCHANGED stack
    BY <1>3, <1>8, <2>1
  <2>3. Accounts'
    <3>1. \A o \in Objects : owned'[o] = One(value', o) + One(exception', o) + (IF o \in jobs' THEN 1 ELSE 0)
      <4> SUFFICES ASSUME NEW o \in Objects
                   PROVE  owned'[o] = One(value', o) + One(exception', o) + (IF o \in jobs' THEN 1 ELSE 0)
        OBVIOUS
      <4>1. owned[o] = One(value, o) + One(exception, o) + (IF o \in jobs THEN 1 ELSE 0)
        BY <1>5 DEF Accounts
      <4>2. owned'[o] = owned[o] - One(value, o) /\ One(value', o) = 0
        BY <1>4, <1>9, <2>1, <2>2
      <4> QED BY <1>2, <1>4, <1>9, <2>1, <4>1, <4>2
    <3>2. owned'[Context] = Cardinality(jobs') + (IF pc' \in WithContext THEN 1 ELSE 0)
      <4>1. owned'[Context] = owned[Context]
        BY <1>2, <1>3, <1>4, <1>9, <2>1, <2>2
      <4> QED BY <1>5, <2>1, <4>1 DEF Accounts, WithContext
    <3>3. \A r \in VarRefs : owned'[r] = 0
      <4>1. \A r \in VarRefs : owned'[r] = owned[r]
        BY <1>2, <1>3, <1>4, <1>9, <2>1, <2>2
      <4> QED BY <1>5, <4>1 DEF Accounts
    <3> QED BY <3>1, <3>2, <3>3 DEF Accounts
  <2>4. Stages'
    BY <1>5, <2>1, <2>2 DEF Stages
  <2> QED BY <1>1, <2>3, <2>4 DEF BridgeInv
<1>19. CASE DropException
  <2>1. /\ pc = "freeRuntime" /\ pc' = "freeJobs" /\ UNCHANGED <<chars, value, threw, jobs, halfMade>>
        /\ GiveUp(exception) /\ exception' = Null
    BY <1>19 DEF DropException, Goto
  <2>2. (\A n \in Nodes : owned'[n] = owned[n] - One(exception, n)) /\ UNCHANGED stack
    BY <1>3, <1>8, <2>1
  <2>3. Accounts'
    <3>1. \A o \in Objects : owned'[o] = One(value', o) + One(exception', o) + (IF o \in jobs' THEN 1 ELSE 0)
      <4> SUFFICES ASSUME NEW o \in Objects
                   PROVE  owned'[o] = One(value', o) + One(exception', o) + (IF o \in jobs' THEN 1 ELSE 0)
        OBVIOUS
      <4>1. owned[o] = One(value, o) + One(exception, o) + (IF o \in jobs THEN 1 ELSE 0)
        BY <1>5 DEF Accounts
      <4>2. owned'[o] = owned[o] - One(exception, o) /\ One(exception', o) = 0
        BY <1>4, <1>9, <2>1, <2>2
      <4> QED BY <1>2, <1>4, <1>9, <2>1, <4>1, <4>2
    <3>2. owned'[Context] = Cardinality(jobs') + (IF pc' \in WithContext THEN 1 ELSE 0)
      <4>1. owned'[Context] = owned[Context]
        BY <1>2, <1>3, <1>4, <1>9, <2>1, <2>2
      <4> QED BY <1>5, <2>1, <4>1 DEF Accounts, WithContext
    <3>3. \A r \in VarRefs : owned'[r] = 0
      <4>1. \A r \in VarRefs : owned'[r] = owned[r]
        BY <1>2, <1>3, <1>4, <1>9, <2>1, <2>2
      <4> QED BY <1>5, <4>1 DEF Accounts
    <3> QED BY <3>1, <3>2, <3>3 DEF Accounts
  <2>4. Stages'
    BY <1>5, <2>1, <2>2 DEF Stages
  <2> QED BY <1>1, <2>3, <2>4 DEF BridgeInv
<1>20. CASE DropContext \/ DropRealm
  <2>1. /\ \/ pc = "freeContext" /\ pc' = "freeRuntime"
           \/ pc = "freeRealm" /\ pc' = "freeJobs"
        /\ UNCHANGED <<chars, value, threw, exception, jobs, halfMade>> /\ FreeContext
    BY <1>20 DEF DropContext, DropRealm, Goto, runtime
  <2>2. (\A n \in Nodes : owned'[n] = IF n = Context THEN owned[n] - 1 ELSE owned[n]) /\ UNCHANGED stack
    BY <1>2, <2>1, EffectsOnOwned
  <2>3. Accounts'
    BY <1>2, <1>3, <1>4, <1>5, <2>1, <2>2 DEF Accounts, WithContext, One
  <2>4. Stages'
    BY <1>5, <2>1, <2>2 DEF Stages
  <2> QED BY <1>1, <2>3, <2>4 DEF BridgeInv
<1>21. ASSUME NEW o \in Objects, DropJob(o)
       PROVE  BridgeInv'
  <2>1. /\ pc = "freeJobs" /\ pc' = "freeRealm" /\ UNCHANGED <<chars, value, threw, exception, halfMade>>
        /\ Disown(o) /\ o \in jobs /\ jobs' = jobs \ {o}
    BY <1>21 DEF DropJob, Goto
  <2>2. (\A n \in Nodes : owned'[n] = IF n = o THEN owned[n] - 1 ELSE owned[n]) /\ UNCHANGED stack
    BY <1>2, <2>1, EffectsOnOwned
  <2>3. Cardinality(jobs') = Cardinality(jobs) - 1
    BY <1>3, <2>1, JobsFinite
  <2>4. Accounts'
    BY <1>2, <1>3, <1>4, <1>5, <2>1, <2>2, <2>3 DEF Accounts, WithContext, One
  <2>5. Stages'
    BY <1>5, <2>1, <2>2 DEF Stages
  <2> QED BY <1>1, <2>4, <2>5 DEF BridgeInv
<1>22. CASE LastGC
  <2>1. /\ pc = "freeJobs" /\ jobs = {} /\ UNCHANGED <<chars, value, threw, exception, jobs, halfMade>>
        /\ pc' = IF halfMade THEN "undefined" ELSE "lastGC"
        /\ UNCHANGED <<stack, owned>> /\ pass' = "decref"
    BY <1>2, <1>22, EffectsOnOwned DEF LastGC, Goto, runtime
  <2>2. Accounts'
    BY <1>6, <2>1 DEF WithContext
  <2>3. halfMade = TRUE \/ halfMade = FALSE \/ pc' # "undefined"
    BY <2>1
  <2>4. Stages'
    BY <1>5, <2>1 DEF Stages
  <2> QED BY <1>1, <2>2, <2>4 DEF BridgeInv
<1>23. CASE CollectStep
  <2>1. /\ pc # "undefined" /\ Collect /\ UNCHANGED <<pc, chars, value, threw, exception, jobs, halfMade>>
        /\ UNCHANGED <<stack, owned>> /\ pass # "none"
    BY <1>2, <1>23, EffectsOnOwned DEF CollectStep, call, runtime
  <2>2. Accounts'
    BY <1>6, <2>1
  <2>3. ASSUME pc = "lastGC"
        PROVE  pass' # "zero" /\ (pass' = "none" => In("gc_obj_list")' = {})
    <3>1. \A n \in Nodes : stack[n] = 0 /\ owned[n] = 0
      <4>1. jobs = {} /\ value = Null /\ exception = Null /\ \A n \in Nodes : stack[n] = 0
        BY <1>5, <2>3 DEF Stages
      <4>2. \A o \in Objects : owned[o] = 0
        BY <1>4, <1>5, <1>9, <4>1 DEF Accounts
      <4>3. owned[Context] = 0 /\ \A r \in VarRefs : owned[r] = 0
        BY <1>3, <1>5, <2>3, <4>1 DEF Accounts, WithContext
      <4> QED BY <4>1, <4>2, <4>3 DEF Nodes, Others
    <3>2. Roots = {}
      BY <3>1 DEF Roots
    <3>3. pass # "zero"
      BY <1>5, <2>3 DEF Stages
    <3> QED BY <1>2, <2>1, <3>2, <3>3, LastCollection
  <2>4. Stages'
    BY <1>5, <2>1, <2>3 DEF Stages
  <2> QED BY <1>1, <2>2, <2>4 DEF BridgeInv
<1> QED BY <1>11, <1>12, <1>13, <1>14, <1>15, <1>16, <1>17, <1>18, <1>19, <1>20, <1>21, <1>22, <1>23
       DEF BridgeNext, Teardown

LEMMA InitBridgeInv == BridgeInit => BridgeInv
<1> SUFFICES ASSUME BridgeInit
             PROVE  BridgeInv
  OBVIOUS
<1>1. HeapInv
  BY InitHeapInv DEF BridgeInit
<1>2. /\ pc = "idle" /\ chars = {} /\ NothingHeld /\ pass = "none"
      /\ \A n \in Nodes : at[n] = "free" /\ stack[n] = 0 /\ owned[n] = 0
  BY DEF BridgeInit, Init
<1>3. value = Null /\ exception = Null /\ jobs = {} /\ halfMade = FALSE /\ threw = FALSE
  BY <1>2 DEF NothingHeld
<1>4. /\ \A o \in Objects : owned[o] = 0 /\ One(Null, o) = 0
      /\ \A r \in VarRefs : owned[r] = 0
      /\ owned[Context] = 0
  BY <1>2, Domains DEF One
<1>5. Cardinality(jobs) = 0
  BY <1>3, JobsFinite
<1>6. Accounts
  BY <1>2, <1>3, <1>4, <1>5 DEF Accounts, WithContext
<1>7. Stages
  BY <1>2, <1>3 DEF Stages
<1> QED BY <1>1, <1>6, <1>7 DEF BridgeInv

LEMMA StutterKeeps ==
    ASSUME BridgeInv, UNCHANGED vars
    PROVE  BridgeInv'
<1>1. /\ UNCHANGED heapVars
      /\ UNCHANGED <<pc, chars, value, threw, exception, jobs, halfMade>>
  BY DEF vars, call, runtime
<1>2. HeapInv'
  BY <1>1, HeapInvHolds DEF BridgeInv
<1>3. UNCHANGED <<stack, owned, at, pass>> /\ In("gc_obj_list")' = In("gc_obj_list")
  BY <1>1 DEF heapVars, roots, In
<1>4. Accounts' /\ Stages'
  BY <1>1, <1>3 DEF BridgeInv, Accounts, Stages, NothingHeld
<1> QED BY <1>2, <1>4 DEF BridgeInv

(***************************************************************************)
(* The invariant holds, of every heap and every number of memory limits.   *)
(***************************************************************************)
THEOREM InvariantHolds == BridgeSpec => []BridgeInv
<1>1. BridgeInit => BridgeInv
  BY InitBridgeInv
<1>2. BridgeInv /\ [BridgeNext]_vars => BridgeInv'
  BY BridgeInvHolds, StutterKeeps
<1> QED BY <1>1, <1>2, PTL DEF BridgeSpec

(***************************************************************************)
(* Types: a reference leads to a node, a counter is a number, so that it   *)
(* never falls below zero (JS_FreeValueRT, quickjs.c).                     *)
(***************************************************************************)
THEOREM HeapTypeCorrect == BridgeSpec => []TypeOK
<1>1. BridgeInv => TypeOK
  BY DEF BridgeInv, HeapInv, IInv
<1> QED BY <1>1, InvariantHolds, PTL

(***************************************************************************)
(* Outside of trial deletion the counter of a node is the number of        *)
(* references to it, whatever the script does (gc_decref and gc_scan).     *)
(***************************************************************************)
THEOREM CountsAlwaysAgree == BridgeSpec => []CountsAgree
<1>1. BridgeInv => CountsAgree
  BY DEF BridgeInv, HeapInv, IInv, TypeOK, Passes, Counted, Counting, CountsAgree, Total
<1> QED BY <1>1, InvariantHolds, PTL

(***************************************************************************)
(* No reference leads to a node that was freed, in the middle of freeing a *)
(* cycle as little as anywhere else (gc_free_cycles and free_object).      *)
(***************************************************************************)
THEOREM NothingDangles == BridgeSpec => []NoDangling
<1>1. BridgeInv => NoDangling
  BY DEF BridgeInv, HeapInv, IInv
<1> QED BY <1>1, InvariantHolds, PTL

(***************************************************************************)
(* A weak reference leads to an object or to what remains of one, and      *)
(* remains are there only for weak references (js_weakref_free).           *)
(***************************************************************************)
THEOREM WeakRefsStaySafe == BridgeSpec => []WeakRefsAreSafe
<1>1. BridgeInv => WeakRefsAreSafe
  BY DEF BridgeInv, HeapInv, IInv
<1> QED BY <1>1, InvariantHolds, PTL

(***************************************************************************)
(* What a collection keeps is the least set with the roots and what they   *)
(* lead to: garbage is found, cycles included (gc_scan).                   *)
(***************************************************************************)
THEOREM GarbageIsAlwaysFound == BridgeSpec => []GarbageIsFound
<1>1. BridgeInv => GarbageIsFound
  BY DEF BridgeInv, HeapInv, IInv, Least, GarbageIsFound
<1> QED BY <1>1, InvariantHolds, PTL

(***************************************************************************)
(* What can be reached is in gc_obj_list after gc_scan, and whenever the   *)
(* script runs.                                                            *)
(***************************************************************************)
THEOREM ReachableIsAlwaysKept == BridgeSpec => []ReachableIsKept
<1>1. ASSUME IInv, pass \in {"none", "zero"}
      PROVE  Roots \subseteq In("gc_obj_list") /\ Closed(In("gc_obj_list"))
  <2>1. /\ \A n \in Nodes : stack[n] \in Nat /\ owned[n] \in Nat
        /\ \A n \in Nodes : at[n] \in Lists \cup {"free", "husk"}
        /\ \A e \in Nodes \X Slots : ref[e] \in Nodes \cup {Null}
        /\ \A n \in Nodes : Refs(n, Nodes) \in Nat
    BY <1>1, RefsType DEF IInv, TypeOK
  <2>2. ASSUME NEW n \in Nodes, Total(n) # 0
        PROVE  n \in In("gc_obj_list")
    <3>1. at[n] \notin {"free", "husk"}
      BY <1>1, <2>2 DEF IInv, NoDangling
    <3>2. at[n] # "tmp_obj_list"
      BY <1>1, <2>2, InList DEF IInv, ListsInUse
    <3>3. ref_count[n] = Total(n)
      BY <1>1, <2>2 DEF IInv, Counted, Counting, Total
    <3>4. at[n] # "gc_zero_ref_count_list"
      BY <1>1, <2>2, <3>3, InList DEF IInv, ListsInUse
    <3> QED BY <2>1, <2>2, <3>1, <3>2, <3>4 DEF In, Lists
  <2>3. ASSUME NEW n \in Roots
        PROVE  n \in In("gc_obj_list")
    <3>1. n \in Nodes /\ stack[n] + owned[n] > 0
      BY <2>3 DEF Roots
    <3> QED BY <2>1, <2>2, <3>1 DEF Total
  <2>4. ASSUME NEW m \in In("gc_obj_list"), NEW s \in Slots, ref[<<m, s>>] # Null
        PROVE  ref[<<m, s>>] \in In("gc_obj_list")
    <3>1. m \in Nodes
      BY DEF In
    <3>2. ref[<<m, s>>] \in Nodes
      BY <2>1, <2>4, <3>1
    <3>3. Refs(ref[<<m, s>>], Nodes) # 0
      BY <3>1, RefsZero
    <3> QED BY <2>1, <2>2, <3>2, <3>3 DEF Total
  <2> QED BY <2>3, <2>4, ClosedSlots
<1>2. BridgeInv => ReachableIsKept
  <2> SUFFICES ASSUME BridgeInv, pass \notin {"decref", "scan"}
               PROVE  Roots \subseteq In("gc_obj_list") /\ Closed(In("gc_obj_list"))
    BY DEF ReachableIsKept
  <2>1. IInv /\ pass \in Passes
    BY DEF BridgeInv, HeapInv, IInv, TypeOK
  <2>2. CASE pass \in {"restore", "cycles", "sweep"}
    BY <2>1, <2>2 DEF IInv, Kept
  <2> QED BY <1>1, <2>1, <2>2 DEF Passes
<1> QED BY <1>2, InvariantHolds, PTL

(***************************************************************************)
(* The assertions of gc_decref_child, gc_scan, free_zero_refcount and      *)
(* gc_free_cycles never fail.                                              *)
(***************************************************************************)
THEOREM AssertionsNeverFail == BridgeSpec => []Assertions
<1>1. ASSUME IInv, pass = "decref",
             NEW m \in In("gc_obj_list") \ visited, NEW n \in Nodes
      PROVE  Refs(n, {m}) <= ref_count[n]
  <2>1. m \in Nodes
    BY DEF In
  <2>2. {m} \in SUBSET Nodes /\ Nodes \ visited \in SUBSET Nodes /\ {m} \subseteq Nodes \ visited
    BY <2>1
  <2>3. Refs(n, {m}) <= Refs(n, Nodes \ visited)
    BY <2>2, RefsMonotone
  <2>4. ref_count[n] = stack[n] + owned[n] + Refs(n, Nodes \ visited)
    BY <1>1 DEF IInv, Counted, Counting
  <2>5. stack[n] \in Nat /\ owned[n] \in Nat
    BY <1>1 DEF IInv, TypeOK
  <2>6. Refs(n, {m}) \in Nat /\ Refs(n, Nodes \ visited) \in Nat
    BY <2>2, RefsType
  <2> QED BY <2>3, <2>4, <2>5, <2>6
<1>2. BridgeInv => Assertions
  <2> SUFFICES ASSUME BridgeInv
               PROVE  Assertions
    OBVIOUS
  <2>1. IInv
    BY DEF BridgeInv, HeapInv
  <2>2. pass = "scan" => \A n \in In("gc_obj_list") : ref_count[n] > 0
    BY <2>1 DEF IInv, Traversed
  <2>3. /\ pass = "zero" => \A n \in In("gc_zero_ref_count_list") : ref_count[n] = 0
        /\ pass = "sweep" => In("gc_zero_ref_count_list") \subseteq Objects
    BY <2>1 DEF IInv, ListsInUse
  <2> QED BY <1>1, <2>1, <2>2, <2>3 DEF Assertions
<1> QED BY <1>2, InvariantHolds, PTL

(***************************************************************************)
(* When JS_FreeRuntime has run nothing is left of the runtime, and when a  *)
(* call is over the bridge holds no characters of its arguments.           *)
(***************************************************************************)
THEOREM NothingIsEverLeft == BridgeSpec => []LeavesNothing
<1>1. BridgeInv => LeavesNothing
  BY DEF BridgeInv, HeapInv, IInv, NoDangling, Stages, LeavesNothing
<1> QED BY <1>1, InvariantHolds, PTL

(* Only a step of the collector starts and ends inside of a pass.          *)
LEMMA StepsInsideAPass ==
    ASSUME BridgeInv, BridgeNext, pass # "none"
    PROVE  Collect \/ UNCHANGED heapVars
<1>1. HeapStep \/ UNCHANGED heapVars
  BY StepsOfTheHeap
<1>2. ~Mutate
  BY MutateEffect DEF BridgeInv, HeapInv
<1>3. ~NewContext /\ ~FreeContext /\ ~RunLastGC
  BY DEF NewContext, Make, FreeContext, RunLastGC, Turn
<1>4. \A o \in Objects : ~EnqueueJob(o) /\ ~Hand(o) /\ ~Call(o) /\ ~Disown(o)
  BY DEF EnqueueJob, Hand, Call, Push, Disown, FreeValue
<1> QED BY <1>1, <1>2, <1>3, <1>4 DEF HeapStep

LEMMA Fewer ==
    ASSUME NEW A \in SUBSET Nodes, NEW B \in SUBSET A, NEW n \in A \ B
    PROVE  Cardinality(B) < Cardinality(A)
<1>1. IsFiniteSet(A)
  BY HeapIsFinite, FS_Subset
<1>2. Cardinality(B) <= Cardinality(A \ {n}) /\ IsFiniteSet(A \ {n}) /\ IsFiniteSet(B)
  BY <1>1, FS_Subset, FS_RemoveElement
<1>3. Cardinality(A \ {n}) = Cardinality(A) - 1
  BY <1>1, FS_RemoveElement
<1>4. Cardinality(A) \in Nat /\ Cardinality(B) \in Nat
  BY <1>1, <1>2, FS_CardinalityType
<1> QED BY <1>2, <1>3, <1>4

LEMMA CollectLeavesLess ==
    ASSUME IInv, Collect, pass' # "none", TypeOK'
    PROVE  StepsLeft' < StepsLeft
<1> DEFINE Left == CASE pass \in {"decref", "scan", "restore"} -> Nodes \ visited
                     [] pass = "zero" -> In("gc_obj_list") \cup In("gc_zero_ref_count_list")
                     [] pass = "cycles" -> In("tmp_obj_list")
                     [] pass = "sweep" -> {}
           N == Cardinality(Nodes)
<1>1. /\ Rank["zero"] = 0 /\ Rank["sweep"] = 0 /\ Rank["cycles"] = 1
      /\ Rank["restore"] = 2 /\ Rank["scan"] = 3 /\ Rank["decref"] = 4
  BY DEF Rank
<1>2. /\ pass # "none" /\ pass \in Passes /\ pass' \in Passes
      /\ \A n \in Nodes : at[n] \in Lists \cup {"free", "husk"}
      /\ at \in [Nodes -> Lists \cup {"free", "husk"}]
  BY EffectsOnOwned DEF IInv, TypeOK
<1>3. Left \in SUBSET Nodes /\ Left' \in SUBSET Nodes
  BY <1>2 DEF In, Passes
<1>4. StepsLeft = Rank[pass] * (N + 1) + Cardinality(Left)
  BY DEF StepsLeft
<1>5. StepsLeft' = Rank[pass'] * (N + 1) + Cardinality(Left')
  BY DEF StepsLeft
<1>6. /\ N \in Nat /\ Cardinality(Left) \in Nat /\ Cardinality(Left') \in Nat
      /\ Cardinality(Left') <= N
  BY <1>3, HeapIsFinite, FS_Subset, FS_CardinalityType
(* An entry of a pass is done: there is one less.                          *)
<1>7. ASSUME NEW n \in Left \ Left', Left' \subseteq Left, pass' = pass
      PROVE  StepsLeft' < StepsLeft
  <2>1. Cardinality(Left') < Cardinality(Left)
    BY <1>3, <1>7, Fewer
  <2>2. Rank[pass] \in Nat
    BY <1>1, <1>2 DEF Passes
  <2> DEFINE K == Rank[pass] * (N + 1)
  <2>3. K \in Nat
    BY <1>6, <2>2
  <2>4. StepsLeft = K + Cardinality(Left) /\ StepsLeft' = K + Cardinality(Left')
    BY <1>4, <1>5, <1>7
  <2> HIDE DEF K, Left
  <2> QED BY <1>6, <2>1, <2>3, <2>4
(* A pass is done: the next one has no more to do than there are nodes.    *)
<1>8. ASSUME \/ pass = "decref" /\ pass' = "scan"
             \/ pass = "scan" /\ pass' = "restore"
             \/ pass = "restore" /\ pass' = "cycles"
             \/ pass = "cycles" /\ pass' = "sweep"
      PROVE  StepsLeft' < StepsLeft
  <2> HIDE DEF Left, N
  <2>1. CASE pass = "decref" /\ pass' = "scan"
    BY <1>1, <1>4, <1>5, <1>6, <2>1
  <2>2. CASE pass = "scan" /\ pass' = "restore"
    BY <1>1, <1>4, <1>5, <1>6, <2>2
  <2>3. CASE pass = "restore" /\ pass' = "cycles"
    BY <1>1, <1>4, <1>5, <1>6, <2>3
  <2>4. CASE pass = "cycles" /\ pass' = "sweep"
    BY <1>1, <1>4, <1>5, <1>6, <2>4
  <2> QED BY <1>8, <2>1, <2>2, <2>3, <2>4
<1>9. CASE \E m \in Nodes : Decref(m) \/ Scan(m) \/ Restore(m)
  <2>1. PICK m \in Nodes : Decref(m) \/ Scan(m) \/ Restore(m)
    BY <1>9
  <2>2. /\ m \notin visited /\ visited' = visited \cup {m} /\ pass' = pass
        /\ pass \in {"decref", "scan", "restore"}
    BY <2>1 DEF Decref, Scan, Restore
  <2>3. m \in Left \ Left' /\ Left' \subseteq Left
    BY <2>2
  <2> QED BY <1>7, <2>2, <2>3
<1>10. CASE \E p \in Objects : FreeZero(p)
  <2>1. PICK p \in Objects : FreeZero(p)
    BY <1>10
  <2>2. pass = "zero" /\ pass' = "zero" /\ at[p] = "gc_zero_ref_count_list" /\ p \in Nodes
    BY <2>1, Domains DEF FreeZero
  <2>3. /\ \A n \in Nodes : at'[n] \in {"gc_obj_list", "gc_zero_ref_count_list"} =>
                at[n] \in {"gc_obj_list", "gc_zero_ref_count_list"}
        /\ at'[p] \notin {"gc_obj_list", "gc_zero_ref_count_list"}
    BY <1>2, <2>1, <2>2 DEF FreeZero, FreeObject, In
  <2>4. p \in Left \ Left' /\ Left' \subseteq Left
    BY <2>2, <2>3 DEF In
  <2> QED BY <1>7, <2>2, <2>4
<1>11. CASE \E p \in Nodes : FreeCycle(p)
  <2>1. PICK p \in Nodes : FreeCycle(p)
    BY <1>11
  <2>2. pass = "cycles" /\ pass' = "cycles" /\ at[p] = "tmp_obj_list"
    BY <2>1 DEF FreeCycle
  <2>3. (\A n \in Nodes : at'[n] = "tmp_obj_list" => at[n] = "tmp_obj_list") /\ at'[p] # "tmp_obj_list"
    <3>1. CASE p \in Objects
      BY <1>2, <2>1, <2>2, <3>1 DEF FreeCycle, FreeObject
    <3>2. CASE p \notin Objects
      BY <1>2, <2>1, <2>2, <3>2 DEF FreeCycle
    <3> QED BY <3>1, <3>2
  <2>4. p \in Left \ Left' /\ Left' \subseteq Left
    BY <2>2, <2>3 DEF In
  <2> QED BY <1>7, <2>2, <2>4
<1>12. CASE DecrefDone \/ ScanDone \/ RestoreDone \/ CyclesDone
  BY <1>8, <1>12 DEF DecrefDone, ScanDone, RestoreDone, CyclesDone, Turn
<1>13. ~ZeroDone /\ ~Sweep
  BY DEF ZeroDone, Sweep, Turn
<1> QED BY <1>9, <1>10, <1>11, <1>12, <1>13 DEF Collect

(***************************************************************************)
(* Each step of a collection leaves fewer steps, however large the heap is *)
(* and in whatever order the lists are traversed.                          *)
(***************************************************************************)
THEOREM CollectionsEnd == BridgeSpec => CollectionProgresses
<1>1. BridgeInv /\ BridgeInv' /\ [BridgeNext]_vars =>
        [pass # "none" /\ pass' # "none" => StepsLeft' < StepsLeft]_heapVars
  <2> SUFFICES ASSUME BridgeInv, BridgeInv', [BridgeNext]_vars, pass # "none", pass' # "none",
                      heapVars' # heapVars
               PROVE  StepsLeft' < StepsLeft
    OBVIOUS
  <2>1. BridgeNext
    BY DEF vars
  <2>2. Collect
    BY <2>1, StepsInsideAPass
  <2>3. IInv /\ TypeOK'
    BY DEF BridgeInv, HeapInv, IInv
  <2> QED BY <2>2, <2>3, CollectLeavesLess
<1> QED BY <1>1, InvariantHolds, PTL DEF BridgeSpec, CollectionProgresses
=============================================================================

---------------------------- MODULE QuickJsHeap ----------------------------
(***************************************************************************)
(* The garbage collected heap of one QuickJS runtime: reference counting,  *)
(* with the collection of cycles by trial deletion (quickjs.c), while a    *)
(* script makes objects, closures and weak references, links them and      *)
(* drops them.                                                             *)
(*                                                                         *)
(* A node is whatever has a JSGCObjectHeader. Objects are those that       *)
(* free_gc_object frees: JavaScript objects, a function being one with its *)
(* bytecode. The others, closure variables and the context, are freed by   *)
(* whoever drops the last reference to them, and refer to objects alone.   *)
(* Shapes, modules and the frames of async functions are left out.         *)
(*                                                                         *)
(* The runtime has one thread and a collection runs to its end before the  *)
(* script goes on. The order in which it takes the entries of a list is    *)
(* left open. That a node is reached again after it was freed shows in     *)
(* references to nodes that are at no list.                                *)
(***************************************************************************)
EXTENDS Naturals, FiniteSets

CONSTANTS
    Objects,    \* JavaScript objects, functions among them
    VarRefs,    \* closure variables (JSVarRef) that are detached from the stack
    Context,    \* the JSContext
    Global,     \* its global object, an object
    Props,      \* properties an object may have
    Threshold,  \* malloc_gc_threshold: the objects there are when a new one
                \* makes the collector run
    Copies      \* a bound: references to one object on the stack

Others == VarRefs \cup {Context}
Nodes == Objects \cup Others

\* Where a node keeps references: a function has its realm and a closure
\* variable, the context has its global object, whose functions have the
\* context for a realm. The value of a closure variable is kept like a property.
Slots == Props \cup {"realm", "var", "global"}

Null == "null"

ASSUME HeapAssumption ==
    /\ IsFiniteSet(Objects) /\ IsFiniteSet(VarRefs) /\ IsFiniteSet(Props)
    /\ Objects \cap Others = {} /\ Context \notin VarRefs
    /\ Global \in Objects
    /\ Null \notin Nodes
    /\ {"realm", "var", "global"} \cap Props = {}
    /\ Threshold \in Nat /\ Copies \in Nat

VARIABLES
    ref,        \* the reference each slot of each node holds, or Null
    weak,       \* target of an object that is a WeakRef, or Null
    stack,      \* references on the stack of the script
    owned,      \* references of the bridge, the runtime and its queue of jobs
    ref_count,  \* header.ref_count
    at,         \* the list a node is in, "free", or "husk" for the structure
                \* of a freed object that weak references still point to
    pass,       \* what the collector does, "none" while the script runs
    visited     \* what the traversal of gc_obj_list or tmp_obj_list has passed

roots == <<stack, owned>>
heapVars == <<ref, weak, roots, ref_count, at, pass, visited>>

Lists == {"gc_obj_list", "tmp_obj_list", "gc_zero_ref_count_list"}
Passes == {"none", "zero", "decref", "scan", "restore", "cycles", "sweep"}

In(list) == {n \in Nodes : at[n] = list}

\* The references to n that the nodes of M hold.
Into(n, M) == {e \in M \X Slots : ref[e] = n}
Refs(n, M) == Cardinality(Into(n, M))

WeakRefsTo(n) == {o \in Objects : weak[o] = n}

-----------------------------------------------------------------------------

Init ==
    /\ ref = [e \in Nodes \X Slots |-> Null]
    /\ weak = [o \in Objects |-> Null]
    /\ stack = [n \in Nodes |-> 0] /\ owned = [n \in Nodes |-> 0]
    /\ ref_count = [n \in Nodes |-> 0]
    /\ at = [n \in Nodes |-> "free"]
    /\ pass = "none" /\ visited = {}

\* The nodes of new come into being.
Make(new) ==
    /\ pass = "none"
    /\ \A m \in new : at[m] = "free"
    /\ at' = [m \in Nodes |-> IF m \in new THEN "gc_obj_list" ELSE at[m]]
    /\ UNCHANGED <<pass, visited>>

(* JS_NewContext.                                                          *)
NewContext ==
    /\ Make({Context, Global})
    /\ ref' = [ref EXCEPT ![<<Context, "global">>] = Global,
                          ![<<Global, "realm">>] = Context]
    /\ ref_count' = [ref_count EXCEPT ![Context] = 2, ![Global] = 1]
    /\ owned' = [owned EXCEPT ![Context] = 1]
    /\ UNCHANGED <<weak, stack>>

\* The script makes object o, and what else is new, and has it on its stack.
MakeObject(o, new) ==
    /\ Make({o} \cup new)
    /\ owned[Context] > 0 /\ o # Global
    /\ stack' = [stack EXCEPT ![o] = 1]
    /\ UNCHANGED owned

(* JS_NewObject.                                                           *)
NewObject(o) ==
    /\ MakeObject(o, {})
    /\ ref_count' = [ref_count EXCEPT ![o] = 1]
    /\ UNCHANGED <<ref, weak>>

(* new WeakRef(target): a weak reference counts, but not in ref_count.     *)
NewWeakRef(o, target) ==
    /\ MakeObject(o, {})
    /\ stack[target] > 0
    /\ weak' = [weak EXCEPT ![o] = target]
    /\ ref_count' = [ref_count EXCEPT ![o] = 1]
    /\ UNCHANGED ref

(* js_closure2 with a variable r of the running function, whose frame ends *)
(* before anything else happens (close_var_refs).                          *)
NewClosure(o, r) ==
    /\ MakeObject(o, {r})
    /\ ref' = [ref EXCEPT ![<<o, "realm">>] = Context, ![<<o, "var">>] = r]
    /\ ref_count' = [ref_count EXCEPT ![o] = 1, ![r] = 1, ![Context] = @ + 1]
    /\ UNCHANGED weak

(* js_closure2 inside the closure c: its variable is shared.               *)
ShareVariable(o, c) ==
    /\ MakeObject(o, {})
    /\ stack[c] > 0 /\ ref[<<c, "var">>] # Null
    /\ ref' = [ref EXCEPT ![<<o, "realm">>] = Context, ![<<o, "var">>] = ref[<<c, "var">>]]
    /\ ref_count' = [ref_count EXCEPT ![o] = 1, ![ref[<<c, "var">>]] = @ + 1, ![Context] = @ + 1]
    /\ UNCHANGED weak

\* What the script can get at without following a reference: what is on its
\* stack, the variables of the closures there, and globalThis.
AtHand(n) ==
    \/ stack[n] > 0
    \/ \E c \in Objects : stack[c] > 0 /\ ref[<<c, "var">>] = n
    \/ n = Global

\* JS_DupValue: one more reference to o is on the stack. The script uses the
\* global object, but does not take it as a value.
Push(o) ==
    /\ pass = "none"
    /\ stack[o] < Copies /\ o # Global
    /\ stack' = [stack EXCEPT ![o] = @ + 1]
    /\ ref_count' = [ref_count EXCEPT ![o] = @ + 1]
    /\ UNCHANGED <<ref, weak, owned, at, pass, visited>>

(* JS_GetProperty, or the value of a variable.                             *)
Get(n, p) ==
    /\ AtHand(n)
    /\ \E o \in Objects : ref[<<n, p>>] = o /\ Push(o)

(* js_weakref_deref: live is what has references (js_weakref_is_live).     *)
Deref(o) ==
    /\ stack[o] > 0
    /\ \E t \in Objects : weak[o] = t /\ ref_count[t] # 0 /\ Push(t)

\* JS_FreeValue of the object n outside of a collection: if that was the last
\* reference it is put in gc_zero_ref_count_list, and free_zero_refcount runs.
FreeValue(n) ==
    /\ pass = "none"
    /\ ref_count' = [ref_count EXCEPT ![n] = @ - 1]
    /\ at' = IF ref_count[n] = 1 THEN [at EXCEPT ![n] = "gc_zero_ref_count_list"] ELSE at
    /\ pass' = IF ref_count[n] = 1 THEN "zero" ELSE "none"
    /\ UNCHANGED <<weak, visited>>

(* A reference to o is dropped from the stack.                             *)
Drop(o) ==
    /\ stack[o] > 0
    /\ stack' = [stack EXCEPT ![o] = @ - 1]
    /\ FreeValue(o)
    /\ UNCHANGED <<ref, owned>>

(* set_value: the reference to v moves from the stack into the slot, and   *)
(* what the slot held is freed.                                             *)
Put(n, p, v) ==
    /\ pass = "none"
    /\ AtHand(n) /\ stack[v] > 0
    /\ stack' = [stack EXCEPT ![v] = @ - 1]
    /\ ref' = [ref EXCEPT ![<<n, p>>] = v]
    /\ IF ref[<<n, p>>] = Null
       THEN UNCHANGED <<weak, ref_count, at, pass, visited>>
       ELSE FreeValue(ref[<<n, p>>])
    /\ UNCHANGED owned

(* The script returns or throws o: its reference is the caller's.          *)
Hand(o) ==
    /\ pass = "none"
    /\ stack[o] > 0
    /\ stack' = [stack EXCEPT ![o] = @ - 1]
    /\ owned' = [owned EXCEPT ![o] = @ + 1]
    /\ UNCHANGED <<ref, weak, ref_count, at, pass, visited>>

(* A method of o, which the caller has, is called.                         *)
Call(o) == owned[o] > 0 /\ Push(o)

(* The caller, or the runtime, frees a value of its own.                   *)
Disown(o) ==
    /\ owned[o] > 0
    /\ owned' = [owned EXCEPT ![o] = @ - 1]
    /\ FreeValue(o)
    /\ UNCHANGED <<ref, stack>>

(* JS_EnqueueJob with o as its argument.                                   *)
EnqueueJob(o) ==
    /\ pass = "none"
    /\ stack[o] > 0 /\ owned[Context] > 0
    /\ owned' = [owned EXCEPT ![o] = @ + 1, ![Context] = @ + 1]
    /\ ref_count' = [ref_count EXCEPT ![o] = @ + 1, ![Context] = @ + 1]
    /\ UNCHANGED <<ref, weak, stack, at, pass, visited>>

(* JS_FreeContext, by the bridge or with a job. There always is another    *)
(* reference: the functions of the global object have the context as their *)
(* realm.                                                                  *)
FreeContext ==
    /\ pass = "none"
    /\ owned[Context] > 0 /\ ref_count[Context] > 1
    /\ owned' = [owned EXCEPT ![Context] = @ - 1]
    /\ ref_count' = [ref_count EXCEPT ![Context] = @ - 1]
    /\ UNCHANGED <<ref, weak, stack, at, pass, visited>>

-----------------------------------------------------------------------------

\* The Others that p alone refers to.
Dependent(p) == {i \in Others : Refs(i, {p}) > 0 /\ Refs(i, {p}) = ref_count[i]}

\* The nodes of M drop the references they hold.
Release(M) ==
    /\ ref' = [e \in Nodes \X Slots |-> IF e[1] \in M THEN Null ELSE ref[e]]
    /\ ref_count' = [n \in Nodes |-> ref_count[n] - Refs(n, M)]

\* free_object(p) or free_function_bytecode(p), and what depends on p is freed
\* with it. The structure of p goes, unless something still points to it: then
\* it belongs to list. The objects of zero are freed next if that was their
\* last reference.
FreeObject(p, list, zero) ==
    /\ Release({p} \cup Dependent(p))
    /\ weak' = [weak EXCEPT ![p] = Null]
    /\ at' = [n \in Nodes |->
            CASE n \in Dependent(p) -> "free"
              [] n = p -> IF ref_count'[p] = 0 /\ WeakRefsTo(p)' = {} THEN "free" ELSE list
              [] at[n] = "husk" -> IF WeakRefsTo(n)' = {} THEN "free" ELSE "husk"
              [] n \in zero /\ ref_count'[n] = 0 -> "gc_zero_ref_count_list"
              [] OTHER -> at[n]]

(* One turn of free_zero_refcount; __JS_FreeValueRT adds the objects that  *)
(* lose their last reference to the list.                                  *)
FreeZero(p) ==
    /\ pass = "zero" /\ at[p] = "gc_zero_ref_count_list"
    /\ FreeObject(p, "husk", Objects \cap In("gc_obj_list"))
    /\ UNCHANGED <<roots, pass, visited>>

Turn(from, to) == pass = from /\ pass' = to /\ visited' = {}

(* The list is empty.                                                      *)
ZeroDone ==
    /\ Turn("zero", "none")
    /\ In("gc_zero_ref_count_list") = {}
    /\ UNCHANGED <<ref, weak, roots, ref_count, at>>

-----------------------------------------------------------------------------

(* JS_RunGC, when the allocation of an object passes the threshold:        *)
(* gc_remove_weak_objects makes weak references to freed objects undefined. *)
RunGC ==
    /\ Turn("none", "decref")
    /\ Cardinality(Objects \cap In("gc_obj_list")) >= Threshold
    /\ weak' = [o \in Objects |-> IF weak[o] # Null /\ ref_count[weak[o]] = 0
                                  THEN Null ELSE weak[o]]
    /\ at' = [n \in Nodes |-> IF at[n] = "husk" /\ WeakRefsTo(n)' = {} THEN "free" ELSE at[n]]
    /\ UNCHANGED <<ref, roots, ref_count>>

(* JS_RunGCInternal(rt, FALSE), in JS_FreeRuntime.                         *)
RunLastGC ==
    /\ Turn("none", "decref")
    /\ UNCHANGED <<ref, weak, roots, ref_count, at>>

\* A bug that Decref could have: only children are moved, not the entry itself.
DecrefChildrenOnly(m) ==
    /\ pass = "decref"
    /\ at[m] = "gc_obj_list" /\ m \notin visited
    /\ ref_count' = [n \in Nodes |-> ref_count[n] - Refs(n, {m})]
    /\ visited' = visited \cup {m}
    /\ at' = [n \in Nodes |->
            IF n \in visited /\ ref_count'[n] = 0 THEN "tmp_obj_list" ELSE at[n]]
    /\ UNCHANGED <<ref, weak, roots, pass>>

(* gc_decref, one entry: its children lose a reference each. Those that    *)
(* have none left and were passed go to tmp_obj_list.                      *)
Decref(m) ==
    /\ pass = "decref"
    /\ at[m] = "gc_obj_list" /\ m \notin visited
    /\ ref_count' = [n \in Nodes |-> ref_count[n] - Refs(n, {m})]
    /\ visited' = visited \cup {m}
    /\ at' = [n \in Nodes |->
            IF n \in visited' /\ ref_count'[n] = 0 THEN "tmp_obj_list" ELSE at[n]]
    /\ UNCHANGED <<ref, weak, roots, pass>>

DecrefDone ==
    /\ Turn("decref", "scan")
    /\ In("gc_obj_list") \subseteq visited
    /\ UNCHANGED <<ref, weak, roots, ref_count, at>>

\* A bug that Scan could have: the children do not return from tmp_obj_list.
ScanCountsOnly(m) ==
    /\ pass = "scan"
    /\ at[m] = "gc_obj_list" /\ m \notin visited
    /\ ref_count' = [n \in Nodes |-> ref_count[n] + Refs(n, {m})]
    /\ visited' = visited \cup {m}
    /\ UNCHANGED <<ref, weak, roots, at, pass>>

\* A bug that Scan could have: an entry whose children return is done again.
ScanAgain(m) ==
    /\ pass = "scan"
    /\ at[m] = "gc_obj_list" /\ m \notin visited
    /\ at' = [n \in Nodes |->
            IF at[n] = "tmp_obj_list" /\ Refs(n, {m}) > 0 THEN "gc_obj_list" ELSE at[n]]
    /\ ref_count' = [n \in Nodes |-> ref_count[n] + Refs(n, {m})]
    /\ visited' = IF at' = at THEN visited \cup {m} ELSE visited
    /\ UNCHANGED <<ref, weak, roots, pass>>

(* gc_scan, one entry with references from elsewhere: its children get     *)
(* theirs back, and return from tmp_obj_list.                              *)
Scan(m) ==
    /\ pass = "scan"
    /\ at[m] = "gc_obj_list" /\ m \notin visited
    /\ ref_count' = [n \in Nodes |-> ref_count[n] + Refs(n, {m})]
    /\ visited' = visited \cup {m}
    /\ at' = [n \in Nodes |->
            IF at[n] = "tmp_obj_list" /\ ref_count'[n] > 0 THEN "gc_obj_list" ELSE at[n]]
    /\ UNCHANGED <<ref, weak, roots, pass>>

ScanDone ==
    /\ pass = "scan" /\ pass' = "restore"
    /\ In("gc_obj_list") \subseteq visited
    /\ UNCHANGED <<ref, weak, roots, ref_count, at, visited>>

\* A bug that Restore could have: it does what Scan does to the children.
RestoreReturns(m) ==
    /\ pass = "restore"
    /\ at[m] = "tmp_obj_list" /\ m \notin visited
    /\ ref_count' = [n \in Nodes |-> ref_count[n] + Refs(n, {m})]
    /\ visited' = visited \cup {m}
    /\ at' = [n \in Nodes |->
            IF at[n] = "tmp_obj_list" /\ Refs(n, {m}) > 0 THEN "gc_obj_list" ELSE at[n]]
    /\ UNCHANGED <<ref, weak, roots, pass>>

(* The second loop of gc_scan: the children of what is to be freed get     *)
(* theirs back as well.                                                    *)
Restore(m) ==
    /\ pass = "restore"
    /\ at[m] = "tmp_obj_list" /\ m \notin visited
    /\ ref_count' = [n \in Nodes |-> ref_count[n] + Refs(n, {m})]
    /\ visited' = visited \cup {m}
    /\ UNCHANGED <<ref, weak, roots, at, pass>>

\* A bug that RestoreDone could have: what is to be freed keeps the counters
\* that trial deletion left.
RestoreSkipped ==
    /\ Turn("restore", "cycles")
    /\ UNCHANGED <<ref, weak, roots, ref_count, at>>

RestoreDone ==
    /\ Turn("restore", "cycles")
    /\ In("tmp_obj_list") \subseteq visited
    /\ UNCHANGED <<ref, weak, roots, ref_count, at>>

\* A bug that FreeCycle could have: the structure is kept for weak references
\* only.
FreeCycleAtOnce(p) ==
    /\ pass = "cycles" /\ at[p] = "tmp_obj_list"
    /\ IF p \in Objects
       THEN FreeObject(p, "husk", {})
       ELSE /\ at' = [at EXCEPT ![p] = "gc_zero_ref_count_list"]
            /\ UNCHANGED <<ref, weak, ref_count>>
    /\ UNCHANGED <<roots, pass, visited>>

(* gc_free_cycles, one entry of tmp_obj_list. Of what is not an object it  *)
(* is expected that an object frees it.                                    *)
FreeCycle(p) ==
    /\ pass = "cycles" /\ at[p] = "tmp_obj_list"
    /\ IF p \in Objects
       THEN FreeObject(p, "gc_zero_ref_count_list", {})
       ELSE /\ at' = [at EXCEPT ![p] = "gc_zero_ref_count_list"]
            /\ UNCHANGED <<ref, weak, ref_count>>
    /\ UNCHANGED <<roots, pass, visited>>

CyclesDone ==
    /\ Turn("cycles", "sweep")
    /\ In("tmp_obj_list") = {}
    /\ UNCHANGED <<ref, weak, roots, ref_count, at>>

\* A bug that Sweep could have: weak references are not looked at.
SweepAll ==
    /\ Turn("sweep", "none")
    /\ at' = [n \in Nodes |-> IF at[n] = "gc_zero_ref_count_list" THEN "free" ELSE at[n]]
    /\ UNCHANGED <<ref, weak, roots, ref_count>>

(* The structures that were kept while there were references to them go,   *)
(* but for those that weak references point to.                            *)
Sweep ==
    /\ Turn("sweep", "none")
    /\ at' = [n \in Nodes |->
            IF at[n] # "gc_zero_ref_count_list" THEN at[n]
            ELSE IF WeakRefsTo(n) # {} THEN "husk" ELSE "free"]
    /\ UNCHANGED <<ref, weak, roots, ref_count>>

(* A step of the collector, or of free_zero_refcount.                      *)
Collect ==
    \/ \E p \in Objects : FreeZero(p)
    \/ \E m \in Nodes : Decref(m) \/ Scan(m) \/ Restore(m) \/ FreeCycle(m)
    \/ ZeroDone \/ DecrefDone \/ ScanDone \/ RestoreDone \/ CyclesDone \/ Sweep

(* A step of a running script. JS_RunGC is called where it allocates.      *)
Mutate ==
    \/ \E o \in Objects :
        \/ NewObject(o) \/ Drop(o) \/ Deref(o)
        \/ \E t \in Objects : NewWeakRef(o, t) \/ ShareVariable(o, t)
        \/ \E r \in VarRefs : NewClosure(o, r)
    \/ \E p \in Props :
        \/ \E n \in Objects \cup VarRefs : Get(n, p)
        \/ \E n \in Objects \cup VarRefs, v \in Objects : Put(n, p, v)
    \/ RunGC

Next ==
    \/ NewContext
    \/ \E o \in Objects : EnqueueJob(o) \/ Hand(o) \/ Call(o) \/ Disown(o)
    \/ Mutate \/ Collect
    \/ FreeContext \/ RunLastGC

Spec == Init /\ [][Next]_heapVars

-----------------------------------------------------------------------------

TypeOK ==
    /\ ref \in [Nodes \X Slots -> Nodes \cup {Null}]
    /\ weak \in [Objects -> Objects \cup {Null}]
    /\ stack \in [Nodes -> Nat] /\ owned \in [Nodes -> Nat]
    /\ ref_count \in [Nodes -> Nat]
    /\ at \in [Nodes -> Lists \cup {"free", "husk"}]
    /\ pass \in Passes
    /\ visited \subseteq Nodes

\* The references to n that there are.
Total(n) == stack[n] + owned[n] + Refs(n, Nodes)

(***************************************************************************)
(* Trial deletion gives back what it took: except in its midst, ref_count  *)
(* is the number of references (gc_decref and gc_scan, quickjs.c:6106-6163,*)
(* against JS_DupValue and JS_FreeValue everywhere else).                  *)
(***************************************************************************)
CountsAgree ==
    pass \notin {"decref", "scan", "restore"} =>
        \A n \in Nodes : ref_count[n] = Total(n)

(***************************************************************************)
(* No reference leads to memory that was freed, nor to the remains of a    *)
(* freed object: not while cycles are broken up, whose members are freed   *)
(* one by one with references to each other (gc_free_cycles and            *)
(* free_object, quickjs.c:5754 and 6165).                                  *)
(***************************************************************************)
NoDangling == \A n \in Nodes : at[n] \in {"free", "husk"} => Total(n) = 0

\* What the script, the bridge or the runtime has.
Roots == {n \in Nodes : stack[n] + owned[n] > 0}
Closed(S) == \A e \in S \X Slots : ref[e] # Null => ref[e] \in S

(***************************************************************************)
(* What can be reached is kept: once gc_scan has been over the list, it    *)
(* has every root, and what its members refer to (quickjs.c:6145).         *)
(***************************************************************************)
ReachableIsKept ==
    pass \notin {"decref", "scan"} =>
        Roots \subseteq In("gc_obj_list") /\ Closed(In("gc_obj_list"))

(***************************************************************************)
(* And nothing else is: what a collection keeps is the least set with the  *)
(* roots and all they lead to, so that no cycle outlives it.               *)
(***************************************************************************)
GarbageIsFound ==
    pass \in {"restore", "cycles", "sweep"} =>
        \A S \in SUBSET Nodes :
            Roots \subseteq S /\ Closed(S) => In("gc_obj_list") \subseteq S

(***************************************************************************)
(* A weak reference leads to an object that has not been freed or to the   *)
(* remains of one, never to memory that was given back; and remains do not *)
(* outlive the weak references to them (js_weakref_free, quickjs.c:48393). *)
(***************************************************************************)
WeakRefsAreSafe ==
    \A n \in Objects :
        /\ WeakRefsTo(n) # {} => at[n] # "free"
        /\ at[n] = "husk" => WeakRefsTo(n) # {} /\ ref_count[n] = 0

\* Steps that are left to the collector, at most.
Rank == [zero |-> 0, sweep |-> 0, cycles |-> 1, restore |-> 2, scan |-> 3, decref |-> 4]
StepsLeft ==
    Rank[pass] * (Cardinality(Nodes) + 1)
    + Cardinality(CASE pass \in {"decref", "scan", "restore"} -> Nodes \ visited
                    [] pass = "zero" -> In("gc_obj_list") \cup In("gc_zero_ref_count_list")
                    [] pass = "cycles" -> In("tmp_obj_list")
                    [] pass = "sweep" -> {})

(***************************************************************************)
(* A collection, and the freeing of what has no references left, come to   *)
(* an end: whatever their order, each step leaves fewer to be done, though *)
(* lists grow while they are traversed (free_zero_refcount, gc_scan and    *)
(* gc_free_cycles, quickjs.c:5827 and 6106-6222).                          *)
(***************************************************************************)
CollectionProgresses ==
    [][pass # "none" /\ pass' # "none" => StepsLeft' < StepsLeft]_heapVars

(***************************************************************************)
(* The assertions of the collector: gc_decref_child and gc_scan (a counter *)
(* that is to be decremented, and that of a kept node, are not zero),      *)
(* free_zero_refcount (the counter is zero), and gc_free_cycles (closure   *)
(* variables and contexts in a cycle were freed by an object of the cycle).*)
(***************************************************************************)
Assertions ==
    /\ pass = "decref" =>
        \A m \in In("gc_obj_list") \ visited, n \in Nodes : Refs(n, {m}) <= ref_count[n]
    /\ pass = "scan" => \A n \in In("gc_obj_list") : ref_count[n] > 0
    /\ pass = "zero" => \A n \in In("gc_zero_ref_count_list") : ref_count[n] = 0
    /\ pass = "sweep" => In("gc_zero_ref_count_list") \subseteq Objects
=============================================================================

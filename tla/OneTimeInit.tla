----------------------------- MODULE OneTimeInit -----------------------------
(***************************************************************************)
(* What InnerTubeClient promises of its session (ensureSession, "One-time  *)
(* session init"), without threads in each other's way: the value that all *)
(* callers take is made in one step, by the time the first of them takes   *)
(* it, and never changes.                                                  *)
(***************************************************************************)
CONSTANTS
    Callers,
    Values,     \* what the value may turn out to be
    Default     \* stands for no value

VARIABLES
    ready,      \* the value is made
    value,
    phase,      \* of each caller: "idle", "asking" or "served"
    taken       \* the value a served caller took

vars == <<ready, value, phase, taken>>

Init ==
    /\ ready = FALSE /\ value = Default
    /\ phase = [c \in Callers |-> "idle"]
    /\ taken = [c \in Callers |-> Default]

Ask(c) ==
    /\ phase[c] = "idle"
    /\ phase' = [phase EXCEPT ![c] = "asking"]
    /\ UNCHANGED <<ready, value, taken>>

(* Some caller is waiting for the value: it is made, once and for all.     *)
Make ==
    /\ ~ready
    /\ \E c \in Callers : phase[c] = "asking"
    /\ ready' = TRUE
    /\ value' \in Values
    /\ UNCHANGED <<phase, taken>>

Take(c) ==
    /\ phase[c] = "asking" /\ ready
    /\ phase' = [phase EXCEPT ![c] = "served"]
    /\ taken' = [taken EXCEPT ![c] = value]
    /\ UNCHANGED <<ready, value>>

Leave(c) ==
    /\ phase[c] = "served"
    /\ phase' = [phase EXCEPT ![c] = "idle"]
    /\ taken' = [taken EXCEPT ![c] = Default]
    /\ UNCHANGED <<ready, value>>

Next == Make \/ \E c \in Callers : Ask(c) \/ Take(c) \/ Leave(c)

Spec == Init /\ [][Next]_vars
=============================================================================

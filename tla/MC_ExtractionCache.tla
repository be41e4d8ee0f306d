------------------------- MODULE MC_ExtractionCache -------------------------
(* Two concurrent callers; the videos and callers are interchangeable.     *)
EXTENDS ExtractionCache, TLC

\* An announced lifetime, and one that is shorter than what the code makes up.
MCAnswers == {[life |-> 2, announced |-> TRUE], [life |-> 1, announced |-> FALSE]}

Symmetry == Permutations(Callers) \cup Permutations(Videos)
=============================================================================

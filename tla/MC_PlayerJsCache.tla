-------------------------- MODULE MC_PlayerJsCache --------------------------
(* Threads are interchangeable and so are the scripts' URLs.               *)
EXTENDS PlayerJsCache

Symmetry == Permutations(Threads) \cup Permutations(Urls)
=============================================================================

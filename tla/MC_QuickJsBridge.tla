-------------------------- MODULE MC_QuickJsBridge --------------------------
EXTENDS QuickJsBridge, TLC

CONSTANTS o1, o2, global, variable, context, property

Symmetry == Permutations(Objects \ {global})

\* One attempt less than the three of kMemLimits.
MCAttempts == [executeNative |-> 1, executeWithPlayerJsNative |-> 2]
=============================================================================

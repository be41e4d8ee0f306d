-------------------------------- MODULE Lists --------------------------------
(* Kotlin's operations on lists, as functions that walk the list.          *)
EXTENDS Integers, Sequences

(* filter, filterNotNull: the elements of s that are in S, in their order. *)
Filter(s, S) ==
    LET kept[n \in 0 .. Len(s)] ==
            IF n = 0 THEN << >>
            ELSE IF s[n] \in S THEN Append(kept[n - 1], s[n]) ELSE kept[n - 1]
    IN  kept[Len(s)]

\* compareBy and thenBy: the first pair of keys that differ decides.
Less(a, b) ==
    \E i \in DOMAIN a : a[i] < b[i] /\ \A j \in 1 .. i - 1 : a[j] = b[j]

(* maxWithOrNull, maxByOrNull, by the keys of each element; null is none.  *)
(* Of equal elements the first is kept.                                    *)
MaxBy(s, keys, none) ==
    LET best[n \in 0 .. Len(s)] ==
            IF n = 0 THEN none
            ELSE IF n = 1 \/ Less(keys[best[n - 1]], keys[s[n]]) THEN s[n] ELSE best[n - 1]
    IN  best[Len(s)]

(* indexOf: the first place of x in s, counted from 1; 0 if there is none. *)
IndexOf(s, x) ==
    LET places == {i \in 1 .. Len(s) : s[i] = x}
    IN  IF places = {} THEN 0 ELSE CHOOSE i \in places : \A j \in places : i <= j
=============================================================================

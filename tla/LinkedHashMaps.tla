--------------------------- MODULE LinkedHashMaps ---------------------------
(***************************************************************************)
(* java.util.LinkedHashMap with accessOrder = true, as far as MemoryCache  *)
(* and PlayerJsRepository use it: the sequence of its entries, which are   *)
(* records with a field key, from the least to the most recently used.     *)
(***************************************************************************)
EXTENDS Naturals, Sequences, SequencesExt

Places(m, k) == {i \in DOMAIN m : m[i].key = k}

Holds(m, k) == Places(m, k) # {}

DistinctKeys(m) == \A i, j \in DOMAIN m : m[i].key = m[j].key => i = j

(* remove(k)                                                               *)
Without(m, k) ==
    IF Holds(m, k) THEN RemoveAt(m, CHOOSE i \in Places(m, k) : TRUE) ELSE m

(* put(e.key, e), or get(e.key) when e is the entry the map holds: either  *)
(* makes it the youngest.                                                  *)
Youngest(m, e) == Append(Without(m, e.key), e)
=============================================================================

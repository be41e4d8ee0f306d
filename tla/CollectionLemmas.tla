--------------------------- MODULE CollectionLemmas ---------------------------
(***************************************************************************)
(* What the operations on the collections of Java and Kotlin return and    *)
(* preserve, for collections of any size: those of an access-ordered       *)
(* LinkedHashMap, and the walks over a list.                               *)
(***************************************************************************)
EXTENDS LinkedHashMaps, Lists, Integers, TLAPS, WellFoundedInduction

(* Removing an element keeps the others, in their order.                   *)
LEMMA RemoveAtFacts ==
    ASSUME NEW S, NEW s \in Seq(S), NEW i \in DOMAIN s
    PROVE  /\ RemoveAt(s, i) \in Seq(S)
           /\ Len(RemoveAt(s, i)) = Len(s) - 1
           /\ \A j \in 1 .. Len(s) - 1 :
                RemoveAt(s, i)[j] = IF j < i THEN s[j] ELSE s[j + 1]
<1> DEFINE a == SubSeq(s, 1, i - 1)
           b == SubSeq(s, i + 1, Len(s))
<1>1. Len(s) \in Nat /\ i \in 1 .. Len(s)
  OBVIOUS
<1>2. a \in Seq(S) /\ Len(a) = i - 1 /\ \A j \in 1 .. i - 1 : a[j] = s[j]
  BY <1>1
<1>3. b \in Seq(S) /\ Len(b) = Len(s) - i /\ \A j \in 1 .. Len(s) - i : b[j] = s[i + j]
  BY <1>1
<1> HIDE DEF a, b
<1>4. a \o b \in Seq(S) /\ Len(a \o b) = Len(s) - 1
  BY <1>1, <1>2, <1>3
<1>5. \A j \in 1 .. Len(s) - 1 : (a \o b)[j] = IF j < i THEN s[j] ELSE s[j + 1]
  <2> TAKE j \in 1 .. Len(s) - 1
  <2>1. CASE j < i
    BY <1>1, <1>2, <1>3, <2>1
  <2>2. CASE ~(j < i)
    <3>1. j - (i - 1) \in 1 .. Len(s) - i /\ i + (j - (i - 1)) = j + 1
      BY <1>1, <2>2
    <3>2. (a \o b)[j] = b[j - (i - 1)]
      BY <1>1, <1>2, <1>3, <1>4, <2>2
    <3> QED BY <1>3, <2>2, <3>1, <3>2
  <2> QED BY <2>1, <2>2
<1> QED BY <1>4, <1>5 DEF RemoveAt, a, b

(* A map without one of its keys: the other entries, in their order.       *)
LEMMA WithoutFacts ==
    ASSUME NEW S, NEW m \in Seq(S), DistinctKeys(m), NEW k
    PROVE  /\ Without(m, k) \in Seq(S)
           /\ Len(Without(m, k)) = IF Holds(m, k) THEN Len(m) - 1 ELSE Len(m)
           /\ DistinctKeys(Without(m, k))
           /\ \A i \in DOMAIN Without(m, k) :
                /\ Without(m, k)[i].key # k
                /\ \E j \in DOMAIN m : Without(m, k)[i] = m[j]
<1> DEFINE w == Without(m, k)
<1>0. Len(m) \in Nat /\ DOMAIN m = 1 .. Len(m)
  OBVIOUS
<1>1. CASE ~Holds(m, k)
  BY <1>1 DEF Without, Holds, Places
<1>2. CASE Holds(m, k)
  <2>1. PICK p \in DOMAIN m : m[p].key = k /\ w = RemoveAt(m, p)
    BY <1>2 DEF Without, Holds, Places
  <2> HIDE DEF w
  <2>2. /\ w \in Seq(S) /\ Len(w) = Len(m) - 1 /\ DOMAIN w = 1 .. Len(m) - 1
        /\ \A j \in 1 .. Len(m) - 1 : w[j] = IF j < p THEN m[j] ELSE m[j + 1]
    BY <2>1, RemoveAtFacts
  <2> DEFINE old(i) == IF i < p THEN i ELSE i + 1
  <2>3. \A i \in DOMAIN w : old(i) \in DOMAIN m /\ old(i) # p /\ w[i] = m[old(i)]
    BY <1>0, <2>1, <2>2
  <2>4. DistinctKeys(w)
    <3> SUFFICES ASSUME NEW i \in DOMAIN w, NEW j \in DOMAIN w, w[i].key = w[j].key
                 PROVE  i = j
      BY DEF DistinctKeys
    <3>1. old(i) = old(j)
      BY <2>3 DEF DistinctKeys
    <3>2. i \in Int /\ j \in Int /\ p \in Int
      BY <1>0, <2>1, <2>2
    <3> QED BY <3>1, <3>2
  <2>5. \A i \in DOMAIN w : w[i].key # k /\ \E j \in DOMAIN m : w[i] = m[j]
    BY <2>1, <2>3 DEF DistinctKeys
  <2> QED BY <1>2, <2>2, <2>4, <2>5 DEF w
<1> QED BY <1>1, <1>2

(* A map with e as its youngest entry.                                     *)
LEMMA YoungestFacts ==
    ASSUME NEW S, NEW m \in Seq(S), DistinctKeys(m), NEW e \in S
    PROVE  /\ Youngest(m, e) \in Seq(S)
           /\ Len(Youngest(m, e)) = IF Holds(m, e.key) THEN Len(m) ELSE Len(m) + 1
           /\ DistinctKeys(Youngest(m, e))
           /\ Youngest(m, e)[Len(Youngest(m, e))] = e
           /\ \A i \in DOMAIN Youngest(m, e) :
                Youngest(m, e)[i] = e \/ \E j \in DOMAIN m : Youngest(m, e)[i] = m[j]
<1> DEFINE w == Without(m, e.key)
           y == Append(w, e)
<1>1. /\ w \in Seq(S) /\ Len(w) = IF Holds(m, e.key) THEN Len(m) - 1 ELSE Len(m)
      /\ DistinctKeys(w)
      /\ \A i \in DOMAIN w : w[i].key # e.key /\ \E j \in DOMAIN m : w[i] = m[j]
  BY WithoutFacts
<1> HIDE DEF w
<1>2. /\ y \in Seq(S) /\ Len(y) = Len(w) + 1 /\ y[Len(w) + 1] = e
      /\ \A i \in 1 .. Len(w) : y[i] = w[i]
      /\ Len(w) \in Nat /\ DOMAIN w = 1 .. Len(w) /\ DOMAIN y = 1 .. Len(w) + 1
  BY <1>1
<1> HIDE DEF y
<1>3. DistinctKeys(y)
  <2> SUFFICES ASSUME NEW i \in DOMAIN y, NEW j \in DOMAIN y, y[i].key = y[j].key
               PROVE  i = j
    BY DEF DistinctKeys
  <2>1. CASE i = Len(w) + 1 \/ j = Len(w) + 1
    BY <1>1, <1>2, <2>1
  <2>2. CASE i # Len(w) + 1 /\ j # Len(w) + 1
    <3>1. i \in DOMAIN w /\ j \in DOMAIN w /\ w[i].key = w[j].key
      BY <1>2, <2>2
    <3> QED BY <1>1, <3>1 DEF DistinctKeys
  <2> QED BY <2>1, <2>2
<1>4. \A i \in DOMAIN y : y[i] = e \/ \E j \in DOMAIN m : y[i] = m[j]
  BY <1>1, <1>2
<1>5. Len(y) = IF Holds(m, e.key) THEN Len(m) ELSE Len(m) + 1
  BY <1>1, <1>2
<1>6. y = Youngest(m, e)
  BY DEF y, w, Youngest
<1> QED BY <1>2, <1>3, <1>4, <1>5, <1>6

(* A map without its eldest entry.                                         *)
LEMMA TailFacts ==
    ASSUME NEW S, NEW m \in Seq(S), DistinctKeys(m), m # << >>
    PROVE  /\ Tail(m) \in Seq(S) /\ Len(Tail(m)) = Len(m) - 1
           /\ DistinctKeys(Tail(m))
           /\ \A i \in DOMAIN Tail(m) : \E j \in DOMAIN m : Tail(m)[i] = m[j]
<1> DEFINE t == Tail(m)
<1>1. /\ t \in Seq(S) /\ Len(t) = Len(m) - 1 /\ Len(m) \in Nat
      /\ DOMAIN t = 1 .. Len(m) - 1
      /\ \A i \in 1 .. Len(m) - 1 : t[i] = m[i + 1] /\ i + 1 \in DOMAIN m
  OBVIOUS
<1> HIDE DEF t
<1>2. DistinctKeys(t)
  <2> SUFFICES ASSUME NEW i \in DOMAIN t, NEW j \in DOMAIN t, t[i].key = t[j].key
               PROVE  i = j
    BY DEF DistinctKeys
  <2>1. /\ i + 1 \in DOMAIN m /\ j + 1 \in DOMAIN m /\ m[i + 1].key = m[j + 1].key
        /\ i \in Int /\ j \in Int
    BY <1>1
  <2>2. i + 1 = j + 1
    BY <2>1 DEF DistinctKeys
  <2> QED BY <2>1, <2>2
<1>3. \A i \in DOMAIN t : \E j \in DOMAIN m : t[i] = m[j]
  BY <1>1
<1> QED BY <1>1, <1>2, <1>3 DEF t

(* Entry a stands before entry b.                                          *)
InOrder(m, a, b) == \E p, q \in DOMAIN m : p < q /\ m[p] = a /\ m[q] = b

(* Removing a key loses no other entry and keeps the order.                *)
LEMMA WithoutKeeps ==
    ASSUME NEW S, NEW m \in Seq(S), DistinctKeys(m), NEW k
    PROVE  /\ \A p \in DOMAIN m : m[p].key # k => \E i \in DOMAIN Without(m, k) : Without(m, k)[i] = m[p]
           /\ \A i, j \in DOMAIN Without(m, k) :
                i < j => InOrder(m, Without(m, k)[i], Without(m, k)[j])
<1> DEFINE w == Without(m, k)
<1>0. Len(m) \in Nat /\ DOMAIN m = 1 .. Len(m)
  OBVIOUS
<1>1. CASE ~Holds(m, k)
  <2>1. w = m
    BY <1>1 DEF Without
  <2> HIDE DEF w
  <2> QED BY <2>1 DEF InOrder, w
<1>2. CASE Holds(m, k)
  <2>1. PICK r \in DOMAIN m : m[r].key = k /\ w = RemoveAt(m, r)
    BY <1>2 DEF Without, Holds, Places
  <2> HIDE DEF w
  <2>2. /\ DOMAIN w = 1 .. Len(m) - 1
        /\ \A j \in 1 .. Len(m) - 1 : w[j] = IF j < r THEN m[j] ELSE m[j + 1]
    <3>1. /\ w \in Seq(S) /\ Len(w) = Len(m) - 1
          /\ \A j \in 1 .. Len(m) - 1 : w[j] = IF j < r THEN m[j] ELSE m[j + 1]
      BY <2>1, RemoveAtFacts
    <3> QED BY <3>1
  <2>3. ASSUME NEW p \in DOMAIN m, m[p].key # k PROVE \E i \in DOMAIN w : w[i] = m[p]
    <3>1. CASE p < r
      BY <1>0, <2>1, <2>2, <3>1
    <3>2. CASE ~(p < r)
      <4>1. p - 1 \in DOMAIN w /\ ~(p - 1 < r) /\ (p - 1) + 1 = p
        BY <1>0, <2>1, <2>2, <2>3, <3>2
      <4>2. w[p - 1] = m[p]
        BY <2>2, <4>1
      <4> QED BY <4>1, <4>2
    <3> QED BY <3>1, <3>2
  <2>4. ASSUME NEW i \in DOMAIN w, NEW j \in DOMAIN w, i < j PROVE InOrder(m, w[i], w[j])
    <3> DEFINE old(n) == IF n < r THEN n ELSE n + 1
    <3>1. /\ old(i) \in DOMAIN m /\ old(j) \in DOMAIN m /\ old(i) < old(j)
          /\ w[i] = m[old(i)] /\ w[j] = m[old(j)]
      BY <1>0, <2>1, <2>2, <2>4
    <3> QED BY <3>1 DEF InOrder
  <2> QED BY <2>3, <2>4 DEF w
<1> QED BY <1>1, <1>2

(* A use of e loses no entry of another key, and keeps the order of the    *)
(* others; e stands behind all of them.                                    *)
LEMMA YoungestKeeps ==
    ASSUME NEW S, NEW m \in Seq(S), DistinctKeys(m), NEW e \in S
    PROVE  /\ \A p \in DOMAIN m :
                m[p].key # e.key => \E i \in DOMAIN Youngest(m, e) : Youngest(m, e)[i] = m[p]
           /\ \A i, j \in DOMAIN Youngest(m, e) :
                i < j => /\ Youngest(m, e)[i].key # e.key
                         /\ \/ Youngest(m, e)[j] = e
                            \/ /\ Youngest(m, e)[j].key # e.key
                               /\ InOrder(m, Youngest(m, e)[i], Youngest(m, e)[j])
<1> DEFINE w == Without(m, e.key)
           y == Append(w, e)
<1>1. /\ w \in Seq(S)
      /\ \A i \in DOMAIN w : w[i].key # e.key
  BY WithoutFacts
<1>2. /\ \A p \in DOMAIN m : m[p].key # e.key => \E i \in DOMAIN w : w[i] = m[p]
      /\ \A i, j \in DOMAIN w : i < j => InOrder(m, w[i], w[j])
  BY WithoutKeeps
<1> HIDE DEF w
<1>3. /\ y[Len(w) + 1] = e /\ \A i \in 1 .. Len(w) : y[i] = w[i]
      /\ Len(w) \in Nat /\ DOMAIN w = 1 .. Len(w) /\ DOMAIN y = 1 .. Len(w) + 1
  BY <1>1
<1> HIDE DEF y
<1>4. \A p \in DOMAIN m : m[p].key # e.key => \E i \in DOMAIN y : y[i] = m[p]
  BY <1>2, <1>3
<1>5. ASSUME NEW i \in DOMAIN y, NEW j \in DOMAIN y, i < j
      PROVE  /\ y[i].key # e.key
             /\ y[j] = e \/ (y[j].key # e.key /\ InOrder(m, y[i], y[j]))
  <2>1. i \in DOMAIN w /\ y[i] = w[i]
    BY <1>3, <1>5
  <2>2. j = Len(w) + 1 \/ (j \in DOMAIN w /\ y[j] = w[j])
    BY <1>3
  <2> QED BY <1>1, <1>2, <1>3, <1>5, <2>1, <2>2
<1>6. y = Youngest(m, e)
  BY DEF y, w, Youngest
<1> QED BY <1>4, <1>5, <1>6

(* Dropping the eldest loses only that one, which stood before the others. *)
LEMMA TailKeeps ==
    ASSUME NEW S, NEW m \in Seq(S), m # << >>
    PROVE  /\ \A p \in DOMAIN m : p = 1 \/ \E i \in DOMAIN Tail(m) : Tail(m)[i] = m[p]
           /\ \A i, j \in DOMAIN Tail(m) : i < j => InOrder(m, Tail(m)[i], Tail(m)[j])
<1> DEFINE t == Tail(m)
<1>1. /\ Len(m) \in Nat /\ DOMAIN m = 1 .. Len(m) /\ DOMAIN t = 1 .. Len(m) - 1
      /\ \A i \in 1 .. Len(m) - 1 : t[i] = m[i + 1]
  OBVIOUS
<1> HIDE DEF t
<1>2. ASSUME NEW p \in DOMAIN m, p # 1 PROVE \E i \in DOMAIN t : t[i] = m[p]
  <2>1. p - 1 \in DOMAIN t /\ (p - 1) + 1 = p
    BY <1>1, <1>2
  <2>2. t[p - 1] = m[p]
    BY <1>1, <2>1
  <2> QED BY <2>1, <2>2
<1>3. ASSUME NEW i \in DOMAIN t, NEW j \in DOMAIN t, i < j PROVE InOrder(m, t[i], t[j])
  <2>1. /\ i + 1 \in DOMAIN m /\ j + 1 \in DOMAIN m /\ i + 1 < j + 1
        /\ t[i] = m[i + 1] /\ t[j] = m[j + 1]
    BY <1>1, <1>3
  <2> QED BY <2>1 DEF InOrder
<1> QED BY <1>2, <1>3 DEF t

-----------------------------------------------------------------------------

(* Induction over the naturals, in a form without a predicate: a set of    *)
(* counterexamples has a least one.                                        *)
LEMMA LeastElement ==
    ASSUME NEW T, T \subseteq Nat, T # {}
    PROVE  \E n \in T : \A m \in T : n <= m
<1> DEFINE R == {p \in Nat \X Nat : p[1] < p[2]}
<1>1. IsWellFoundedOn(R, Nat)
  BY NatLessThanWellFounded DEF OpToRel
<1>2. PICK n \in T : \A m \in T : ~ (<<m, n>> \in R)
  <2> HIDE DEF R
  <2> QED BY <1>1, WFMin
<1>3. ASSUME NEW m \in T, m < n PROVE FALSE
  <2>1. <<m, n>> \in Nat \X Nat /\ <<m, n>>[1] < <<m, n>>[2]
    BY <1>3
  <2> QED BY <1>2, <2>1
<1> QED BY <1>3

(* IndexOf is the first place of x, if it has one.                         *)
LEMMA IndexOfFacts ==
    ASSUME NEW X, NEW s \in Seq(X), NEW x
    PROVE  /\ IndexOf(s, x) \in 0 .. Len(s)
           /\ IndexOf(s, x) # 0 => s[IndexOf(s, x)] = x
           /\ \A j \in 1 .. Len(s) : s[j] = x => IndexOf(s, x) # 0 /\ IndexOf(s, x) <= j
<1> DEFINE places == {i \in 1 .. Len(s) : s[i] = x}
<1>1. Len(s) \in Nat /\ places \subseteq Nat
  OBVIOUS
<1>2. CASE places = {}
  BY <1>1, <1>2 DEF IndexOf
<1>3. CASE places # {}
  <2>1. \E i \in places : \A j \in places : i <= j
    <3> HIDE DEF places
    <3> QED BY <1>1, <1>3, LeastElement
  <2>2. IndexOf(s, x) = CHOOSE i \in places : \A j \in places : i <= j
    BY <1>3 DEF IndexOf
  <2>3. IndexOf(s, x) \in places /\ \A j \in places : IndexOf(s, x) <= j
    <3> HIDE DEF places
    <3> QED BY <2>1, <2>2
  <2> QED BY <1>1, <2>3
<1> QED BY <1>2, <1>3

(* The prefixes that Filter walks through.                                 *)
LEMMA FilterSteps ==
    ASSUME NEW X, NEW s \in Seq(X), NEW S
    PROVE  \E kept :
            /\ Filter(s, S) = kept[Len(s)] /\ kept[0] = << >>
            /\ \A n \in 1 .. Len(s) :
                kept[n] = IF s[n] \in S THEN Append(kept[n - 1], s[n]) ELSE kept[n - 1]
<1> DEFINE Body(f, n) == IF n = 0 THEN << >>
                         ELSE IF s[n] \in S THEN Append(f[n - 1], s[n]) ELSE f[n - 1]
           IsWalk(f, m) == f = [n \in 0 .. m |-> Body(f, n)]
           T == {m \in 0 .. Len(s) : ~ \E f : IsWalk(f, m)}
<1>1. Len(s) \in Nat
  OBVIOUS
<1>2. T = {}
  <2> SUFFICES ASSUME T # {} PROVE FALSE
    OBVIOUS
  <2>1. PICK m \in T : \A k \in T : m <= k
    <3>1. T \subseteq Nat
      BY <1>1
    <3> HIDE DEF T
    <3> QED BY <3>1, LeastElement
  <2>2. m \in 0 .. Len(s) /\ ~ \E f : IsWalk(f, m)
    BY <2>1
  <2>3. CASE m = 0
    <3>1. IsWalk([n \in 0 .. 0 |-> << >>], 0)
      OBVIOUS
    <3> QED BY <2>2, <2>3, <3>1
  <2>4. CASE m # 0
    <3>1. m - 1 \in 0 .. Len(s) /\ ~ (m <= m - 1) /\ m \in Nat
      BY <1>1, <2>2, <2>4
    <3>2. PICK f : IsWalk(f, m - 1)
      BY <2>1, <3>1
    <3> DEFINE g == [n \in 0 .. m |-> IF n = m THEN Body(f, m) ELSE f[n]]
    <3>3. ASSUME NEW n \in 0 .. m PROVE g[n] = Body(g, n)
      <4>1. CASE n = m
        BY <2>4, <3>1, <4>1
      <4>2. CASE n # m
        <5>1. n \in 0 .. m - 1 /\ (n # 0 => n - 1 \in 0 .. m - 1 /\ n - 1 \in 0 .. m /\ n - 1 # m)
          BY <3>1, <4>2
        <5>2. f[n] = Body(f, n)
          BY <3>2, <5>1
        <5>3. n # 0 => g[n - 1] = f[n - 1]
          BY <5>1
        <5> QED BY <4>2, <5>2, <5>3
      <4> QED BY <4>1, <4>2
    <3>4. IsWalk(g, m)
      BY <3>3
    <3> QED BY <2>2, <3>4
  <2> QED BY <2>3, <2>4
<1> DEFINE kept == CHOOSE f : IsWalk(f, Len(s))
<1>3. IsWalk(kept, Len(s))
  <2>1. Len(s) \in 0 .. Len(s)
    BY <1>1
  <2>2. \E f : IsWalk(f, Len(s))
    BY <1>2, <2>1
  <2> HIDE DEF IsWalk
  <2> QED BY <2>2
<1>4. Filter(s, S) = kept[Len(s)]
  BY DEF Filter
<1> HIDE DEF kept
<1>5. \A n \in 0 .. Len(s) : kept[n] = Body(kept, n)
  BY <1>3
<1>6. kept[0] = << >>
  BY <1>1, <1>5
<1>7. \A n \in 1 .. Len(s) :
        kept[n] = IF s[n] \in S THEN Append(kept[n - 1], s[n]) ELSE kept[n - 1]
  BY <1>1, <1>5
<1> QED BY <1>4, <1>6, <1>7

(* The elements of kept are those of s, up to place n, that are in S: they *)
(* are found at increasing places, and none is missing.                    *)
IsFiltered(kept, s, n, S, at) ==
    /\ at \in [1 .. Len(kept) -> 1 .. n]
    /\ \A k \in 1 .. Len(kept) : kept[k] = s[at[k]] /\ s[at[k]] \in S
    /\ \A j, k \in 1 .. Len(kept) : j < k => at[j] < at[k]
    /\ \A i \in 1 .. n : s[i] \in S => \E k \in 1 .. Len(kept) : at[k] = i

LEMMA FilterFacts ==
    ASSUME NEW X, NEW s \in Seq(X), NEW S
    PROVE  /\ Filter(s, S) \in Seq(X)
           /\ \E at : IsFiltered(Filter(s, S), s, Len(s), S, at)
<1>1. PICK kept :
        /\ Filter(s, S) = kept[Len(s)] /\ kept[0] = << >>
        /\ \A n \in 1 .. Len(s) :
            kept[n] = IF s[n] \in S THEN Append(kept[n - 1], s[n]) ELSE kept[n - 1]
  BY FilterSteps
<1> DEFINE Good(n) == kept[n] \in Seq(X) /\ \E at : IsFiltered(kept[n], s, n, S, at)
           T == {n \in 0 .. Len(s) : ~ Good(n)}
<1>2. Len(s) \in Nat
  OBVIOUS
<1>3. Good(0)
  <2>1. IsFiltered(<< >>, s, 0, S, << >>)
    BY DEF IsFiltered
  <2> QED BY <1>1, <2>1
<1>4. ASSUME NEW n \in 1 .. Len(s), Good(n - 1) PROVE Good(n)
  <2> DEFINE old == kept[n - 1]
  <2>1. PICK at : old \in Seq(X) /\ IsFiltered(old, s, n - 1, S, at)
    BY <1>4
  <2>2. kept[n] = IF s[n] \in S THEN Append(old, s[n]) ELSE old
    BY <1>1
  <2> HIDE DEF old
  <2>3. s[n] \in X /\ n \in Nat /\ Len(old) \in Nat
    BY <1>2, <2>1
  <2>4. CASE s[n] \notin S
    <3>1. IsFiltered(old, s, n, S, at)
      BY <1>2, <2>1, <2>3, <2>4 DEF IsFiltered
    <3> QED BY <2>1, <2>2, <2>4, <3>1
  <2>5. CASE s[n] \in S
    <3> DEFINE new == Append(old, s[n])
               to == [k \in 1 .. Len(old) + 1 |-> IF k = Len(old) + 1 THEN n ELSE at[k]]
    <3>1. /\ new \in Seq(X) /\ Len(new) = Len(old) + 1 /\ new[Len(old) + 1] = s[n]
          /\ \A k \in 1 .. Len(old) : new[k] = old[k]
      BY <2>1, <2>3
    <3>0. \A k \in 1 .. Len(old) : at[k] \in 1 .. n - 1
      BY <2>1 DEF IsFiltered
    <3>2. /\ to[Len(old) + 1] = n
          /\ \A k \in 1 .. Len(old) : to[k] = at[k]
      BY <2>3
    <3> HIDE DEF new
    <3>3. to \in [1 .. Len(new) -> 1 .. n]
      <4> SUFFICES ASSUME NEW k \in 1 .. Len(old) + 1
                   PROVE  (IF k = Len(old) + 1 THEN n ELSE at[k]) \in 1 .. n
        BY <3>1
      <4>1. k # Len(old) + 1 => k \in 1 .. Len(old)
        BY <2>3
      <4>2. k # Len(old) + 1 => at[k] \in 1 .. n
        BY <2>3, <3>0, <4>1
      <4>3. n \in 1 .. n
        BY <1>2
      <4> QED BY <4>2, <4>3
    <3> HIDE DEF to
    <3>4. \A k \in 1 .. Len(new) : new[k] = s[to[k]] /\ s[to[k]] \in S
      <4> SUFFICES ASSUME NEW k \in 1 .. Len(new)
                   PROVE  new[k] = s[to[k]] /\ s[to[k]] \in S
        OBVIOUS
      <4>1. k = Len(old) + 1 \/ k \in 1 .. Len(old)
        BY <2>3, <3>1
      <4> QED BY <2>1, <2>5, <3>1, <3>2, <4>1 DEF IsFiltered
    <3>5. \A j, k \in 1 .. Len(new) : j < k => to[j] < to[k]
      <4> SUFFICES ASSUME NEW j \in 1 .. Len(new), NEW k \in 1 .. Len(new), j < k
                   PROVE  to[j] < to[k]
        OBVIOUS
      <4>1. j \in 1 .. Len(old) /\ (k = Len(old) + 1 \/ k \in 1 .. Len(old))
        BY <2>3, <3>1
      <4>2. k = Len(old) + 1 => to[j] < to[k]
        BY <2>3, <3>0, <3>2, <4>1
      <4> QED BY <2>1, <3>2, <4>1, <4>2 DEF IsFiltered
    <3>6. \A i \in 1 .. n : s[i] \in S => \E k \in 1 .. Len(new) : to[k] = i
      <4> SUFFICES ASSUME NEW i \in 1 .. n, s[i] \in S PROVE \E k \in 1 .. Len(new) : to[k] = i
        OBVIOUS
      <4>1. CASE i = n
        BY <2>3, <3>1, <3>2, <4>1
      <4>2. CASE i # n
        <5>1. i \in 1 .. n - 1
          BY <2>3, <4>2
        <5>2. PICK k \in 1 .. Len(old) : at[k] = i
          BY <2>1, <5>1 DEF IsFiltered
        <5> QED BY <2>3, <3>1, <3>2, <5>2
      <4> QED BY <4>1, <4>2
    <3>7. IsFiltered(new, s, n, S, to)
      BY <3>3, <3>4, <3>5, <3>6 DEF IsFiltered
    <3> QED BY <2>2, <2>5, <3>1, <3>7 DEF new
  <2> QED BY <2>4, <2>5
<1>5. T = {}
  <2> SUFFICES ASSUME T # {} PROVE FALSE
    OBVIOUS
  <2>1. PICK m \in T : \A k \in T : m <= k
    <3>1. T \subseteq Nat
      BY <1>2
    <3> HIDE DEF T
    <3> QED BY <3>1, LeastElement
  <2> HIDE DEF Good
  <2>2. m \in 1 .. Len(s) /\ ~ Good(m)
    BY <1>2, <1>3, <2>1
  <2>3. m - 1 \in 0 .. Len(s) /\ ~ (m <= m - 1)
    BY <1>2, <2>2
  <2>4. Good(m - 1)
    BY <2>1, <2>3
  <2> QED BY <1>4, <2>2, <2>4
<1>6. Good(Len(s))
  <2> HIDE DEF Good
  <2> QED BY <1>2, <1>5
<1> QED BY <1>1, <1>6

-----------------------------------------------------------------------------

(* The lexicographic order on keys of n components.                        *)
LEMMA LessFacts ==
    ASSUME NEW n \in Nat
    PROVE  /\ \A a, b, c \in [1 .. n -> Int] : Less(a, b) /\ Less(b, c) => Less(a, c)
           /\ \A a, b \in [1 .. n -> Int] : ~ (Less(a, b) /\ Less(b, a))
           /\ \A a, b \in [1 .. n -> Int] : Less(a, b) \/ Less(b, a) \/ a = b
<1>1. ASSUME NEW a \in [1 .. n -> Int], NEW b \in [1 .. n -> Int], NEW c \in [1 .. n -> Int],
             Less(a, b), Less(b, c)
      PROVE  Less(a, c)
  <2>1. PICK i \in 1 .. n : a[i] < b[i] /\ \A j \in 1 .. i - 1 : a[j] = b[j]
    BY <1>1 DEF Less
  <2>2. PICK k \in 1 .. n : b[k] < c[k] /\ \A j \in 1 .. k - 1 : b[j] = c[j]
    BY <1>1 DEF Less
  <2>3. \A j \in 1 .. n : a[j] \in Int /\ b[j] \in Int /\ c[j] \in Int
    OBVIOUS
  <2>4. CASE i <= k
    <3>1. a[i] < c[i]
      <4>1. CASE i = k
        BY <2>1, <2>2, <2>3, <4>1
      <4>2. CASE i < k
        <5>1. i \in 1 .. k - 1
          BY <4>2
        <5> QED BY <2>1, <2>2, <5>1
      <4> QED BY <2>4, <4>1, <4>2
    <3>2. \A j \in 1 .. i - 1 : a[j] = c[j]
      <4>1. \A j \in 1 .. i - 1 : j \in 1 .. k - 1
        BY <2>4
      <4> QED BY <2>1, <2>2, <4>1
    <3> QED BY <3>1, <3>2 DEF Less
  <2>5. CASE k < i
    <3>1. a[k] < c[k]
      <4>1. k \in 1 .. i - 1
        BY <2>5
      <4> QED BY <2>1, <2>2, <4>1
    <3>2. \A j \in 1 .. k - 1 : a[j] = c[j]
      <4>1. \A j \in 1 .. k - 1 : j \in 1 .. i - 1
        BY <2>5
      <4> QED BY <2>1, <2>2, <4>1
    <3> QED BY <3>1, <3>2 DEF Less
  <2> QED BY <2>4, <2>5
<1>2. \A a \in [1 .. n -> Int] : ~ Less(a, a)
  BY DEF Less
<1>3. \A a, b \in [1 .. n -> Int] : ~ (Less(a, b) /\ Less(b, a))
  BY <1>1, <1>2
<1>4. ASSUME NEW a \in [1 .. n -> Int], NEW b \in [1 .. n -> Int], a # b
      PROVE  Less(a, b) \/ Less(b, a)
  <2> DEFINE T == {i \in 1 .. n : a[i] # b[i]}
  <2>1. T \subseteq Nat /\ T # {}
    BY <1>4
  <2>2. PICK i \in T : \A j \in T : i <= j
    <3> HIDE DEF T
    <3> QED BY <2>1, LeastElement
  <2>3. \A j \in 1 .. i - 1 : a[j] = b[j]
    <3> SUFFICES ASSUME NEW j \in 1 .. i - 1, a[j] # b[j] PROVE FALSE
      OBVIOUS
    <3>1. j \in T /\ ~ (i <= j)
      OBVIOUS
    <3> QED BY <2>2, <3>1
  <2>4. a[i] < b[i] \/ b[i] < a[i]
    BY <2>2
  <2> QED BY <2>2, <2>3, <2>4 DEF Less
<1> QED BY <1>1, <1>3, <1>4

(* The keys of the elements of X compare.                                  *)
Ranks(keys, X) == \E n \in Nat : \A x \in X : keys[x] \in [1 .. n -> Int]

LEMMA RanksFacts ==
    ASSUME NEW X, NEW keys, Ranks(keys, X)
    PROVE  /\ \A x \in X : ~ Less(keys[x], keys[x])
           /\ \A x, y, z \in X : Less(keys[x], keys[y]) /\ Less(keys[y], keys[z]) => Less(keys[x], keys[z])
           /\ \A x, y, z \in X : Less(keys[x], keys[z]) => Less(keys[x], keys[y]) \/ Less(keys[y], keys[z])
<1>1. PICK n \in Nat : \A x \in X : keys[x] \in [1 .. n -> Int]
  BY DEF Ranks
<1> QED BY <1>1, LessFacts

(* Element m is the first of the greatest of s up to place n.              *)
IsFirstMax(s, keys, n, m) ==
    /\ m \in 1 .. n
    /\ \A j \in 1 .. n : ~ Less(keys[s[m]], keys[s[j]])
    /\ \A j \in 1 .. m - 1 : Less(keys[s[j]], keys[s[m]])

(* The prefixes that MaxBy walks through.                                  *)
LEMMA MaxBySteps ==
    ASSUME NEW X, NEW s \in Seq(X), NEW keys, NEW none
    PROVE  \E best :
            /\ MaxBy(s, keys, none) = best[Len(s)] /\ best[0] = none
            /\ \A n \in 1 .. Len(s) :
                best[n] = IF n = 1 \/ Less(keys[best[n - 1]], keys[s[n]]) THEN s[n] ELSE best[n - 1]
<1> DEFINE Body(f, n) ==
                IF n = 0 THEN none
                ELSE IF n = 1 \/ Less(keys[f[n - 1]], keys[s[n]]) THEN s[n] ELSE f[n - 1]
           IsWalk(f, m) == f = [n \in 0 .. m |-> Body(f, n)]
           T == {m \in 0 .. Len(s) : ~ \E f : IsWalk(f, m)}
<1>1. Len(s) \in Nat
  OBVIOUS
<1>2. T = {}
  <2> SUFFICES ASSUME T # {} PROVE FALSE
    OBVIOUS
  <2>1. PICK m \in T : \A k \in T : m <= k
    <3>1. T \subseteq Nat
      BY <1>1
    <3> HIDE DEF T
    <3> QED BY <3>1, LeastElement
  <2>2. m \in 0 .. Len(s) /\ ~ \E f : IsWalk(f, m)
    BY <2>1
  <2>3. CASE m = 0
    <3>1. IsWalk([n \in 0 .. 0 |-> none], 0)
      OBVIOUS
    <3> QED BY <2>2, <2>3, <3>1
  <2>4. CASE m # 0
    <3>1. m - 1 \in 0 .. Len(s) /\ ~ (m <= m - 1) /\ m \in Nat
      BY <1>1, <2>2, <2>4
    <3>2. PICK f : IsWalk(f, m - 1)
      BY <2>1, <3>1
    <3> DEFINE g == [n \in 0 .. m |-> IF n = m THEN Body(f, m) ELSE f[n]]
    <3>3. ASSUME NEW n \in 0 .. m PROVE g[n] = Body(g, n)
      <4>1. CASE n = m
        BY <2>4, <3>1, <4>1
      <4>2. CASE n # m
        <5>1. n \in 0 .. m - 1 /\ (n # 0 => n - 1 \in 0 .. m - 1 /\ n - 1 \in 0 .. m /\ n - 1 # m)
          BY <3>1, <4>2
        <5>2. f[n] = Body(f, n)
          BY <3>2, <5>1
        <5>3. n # 0 => g[n - 1] = f[n - 1]
          BY <5>1
        <5> QED BY <4>2, <5>2, <5>3
      <4> QED BY <4>1, <4>2
    <3>4. IsWalk(g, m)
      BY <3>3
    <3> QED BY <2>2, <3>4
  <2> QED BY <2>3, <2>4
<1> DEFINE best == CHOOSE f : IsWalk(f, Len(s))
<1>3. IsWalk(best, Len(s))
  <2>1. Len(s) \in 0 .. Len(s)
    BY <1>1
  <2>2. \E f : IsWalk(f, Len(s))
    BY <1>2, <2>1
  <2> HIDE DEF IsWalk
  <2> QED BY <2>2
<1>4. MaxBy(s, keys, none) = best[Len(s)]
  BY DEF MaxBy
<1> HIDE DEF best
<1>5. \A n \in 0 .. Len(s) : best[n] = Body(best, n)
  BY <1>3
<1>6. best[0] = none
  BY <1>1, <1>5
<1>7. \A n \in 1 .. Len(s) :
        best[n] = IF n = 1 \/ Less(keys[best[n - 1]], keys[s[n]]) THEN s[n] ELSE best[n - 1]
  BY <1>1, <1>5
<1> QED BY <1>4, <1>6, <1>7

LEMMA MaxByFacts ==
    ASSUME NEW X, NEW s \in Seq(X), NEW keys, Ranks(keys, X), NEW none
    PROVE  /\ s = << >> => MaxBy(s, keys, none) = none
           /\ s # << >> => \E m : IsFirstMax(s, keys, Len(s), m) /\ MaxBy(s, keys, none) = s[m]
<1>1. PICK best :
        /\ MaxBy(s, keys, none) = best[Len(s)] /\ best[0] = none
        /\ \A n \in 1 .. Len(s) :
            best[n] = IF n = 1 \/ Less(keys[best[n - 1]], keys[s[n]]) THEN s[n] ELSE best[n - 1]
  BY MaxBySteps
<1> DEFINE Good(n) == \E m : IsFirstMax(s, keys, n, m) /\ best[n] = s[m]
           T == {n \in 1 .. Len(s) : ~ Good(n)}
<1>2. Len(s) \in Nat /\ \A i \in 1 .. Len(s) : s[i] \in X
  OBVIOUS
<1>3. 1 \in 1 .. Len(s) => Good(1)
  <2> SUFFICES ASSUME 1 \in 1 .. Len(s) PROVE Good(1)
    OBVIOUS
  <2>1. IsFirstMax(s, keys, 1, 1)
    BY <1>2, RanksFacts DEF IsFirstMax
  <2>2. best[1] = s[1]
    BY <1>1
  <2> QED BY <2>1, <2>2
<1>4. ASSUME NEW n \in 2 .. Len(s), Good(n - 1) PROVE Good(n)
  <2>1. PICK m : IsFirstMax(s, keys, n - 1, m) /\ best[n - 1] = s[m]
    BY <1>4
  <2>2. /\ n \in 1 .. Len(s) /\ n # 1 /\ m \in 1 .. n - 1 /\ m \in 1 .. n /\ m \in 1 .. Len(s)
        /\ \A j \in 1 .. n : j = n \/ j \in 1 .. n - 1
        /\ \A j \in 1 .. n : s[j] \in X
    BY <1>2, <2>1 DEF IsFirstMax
  <2>3. best[n] = IF Less(keys[s[m]], keys[s[n]]) THEN s[n] ELSE s[m]
    BY <1>1, <2>1, <2>2
  <2>4. CASE Less(keys[s[m]], keys[s[n]])
    <3>1. \A j \in 1 .. n - 1 : ~ Less(keys[s[m]], keys[s[j]])
      BY <2>1 DEF IsFirstMax
    <3>2. \A j \in 1 .. n - 1 : Less(keys[s[j]], keys[s[n]])
      BY <1>2, <2>2, <2>4, <3>1, RanksFacts
    <3>3. \A j \in 1 .. n : ~ Less(keys[s[n]], keys[s[j]])
      BY <1>2, <2>2, <3>2, RanksFacts
    <3>4. n \in 1 .. n
      BY <2>2
    <3>5. IsFirstMax(s, keys, n, n)
      BY <3>2, <3>3, <3>4 DEF IsFirstMax
    <3> QED BY <2>3, <2>4, <3>5
  <2>5. CASE ~ Less(keys[s[m]], keys[s[n]])
    <3>1. IsFirstMax(s, keys, n, m)
      BY <2>1, <2>2, <2>5 DEF IsFirstMax
    <3> QED BY <2>3, <2>5, <3>1
  <2> QED BY <2>4, <2>5
<1>5. T = {}
  <2> SUFFICES ASSUME T # {} PROVE FALSE
    OBVIOUS
  <2>1. PICK m \in T : \A k \in T : m <= k
    <3>1. T \subseteq Nat
      BY <1>2
    <3> HIDE DEF T
    <3> QED BY <3>1, LeastElement
  <2> HIDE DEF Good
  <2>2. m \in 2 .. Len(s) /\ ~ Good(m)
    BY <1>2, <1>3, <2>1
  <2>3. m - 1 \in 1 .. Len(s) /\ ~ (m <= m - 1)
    BY <1>2, <2>2
  <2>4. Good(m - 1)
    BY <2>1, <2>3
  <2> QED BY <1>4, <2>2, <2>4
<1>6. CASE s = << >>
  BY <1>1, <1>6
<1>7. CASE s # << >>
  <2>1. Len(s) \in 1 .. Len(s)
    BY <1>2, <1>7
  <2>2. Good(Len(s))
    <3> HIDE DEF Good
    <3> QED BY <1>5, <2>1
  <2> QED BY <1>1, <1>7, <2>2
<1> QED BY <1>6, <1>7

-----------------------------------------------------------------------------

\* t are the elements of s that are in S, in their order.
Picks(t, s, S) == \E at : IsFiltered(t, s, Len(s), S, at)

(* A filter of a filtered list.                                            *)
LEMMA PicksOfPicks ==
    ASSUME NEW X, NEW s \in Seq(X), NEW t \in Seq(X), NEW u \in Seq(X), NEW S, NEW R,
           Picks(t, s, S), Picks(u, t, R)
    PROVE  Picks(u, s, S \cap R)
<1>1. PICK at : IsFiltered(t, s, Len(s), S, at)
  BY DEF Picks
<1>2. PICK of : IsFiltered(u, t, Len(t), R, of)
  BY DEF Picks
<1> DEFINE to == [k \in 1 .. Len(u) |-> at[of[k]]]
<1>3. Len(s) \in Nat /\ Len(t) \in Nat /\ Len(u) \in Nat
  OBVIOUS
<1>4. /\ \A k \in 1 .. Len(t) : at[k] \in 1 .. Len(s) /\ t[k] = s[at[k]] /\ t[k] \in S
      /\ \A j, k \in 1 .. Len(t) : j < k => at[j] < at[k]
      /\ \A i \in 1 .. Len(s) : s[i] \in S => \E k \in 1 .. Len(t) : at[k] = i
  BY <1>1 DEF IsFiltered
<1>5. /\ \A k \in 1 .. Len(u) : of[k] \in 1 .. Len(t) /\ u[k] = t[of[k]] /\ u[k] \in R
      /\ \A j, k \in 1 .. Len(u) : j < k => of[j] < of[k]
      /\ \A i \in 1 .. Len(t) : t[i] \in R => \E k \in 1 .. Len(u) : of[k] = i
  BY <1>2 DEF IsFiltered
<1>6. \A k \in 1 .. Len(u) : to[k] = at[of[k]]
  OBVIOUS
<1>7. to \in [1 .. Len(u) -> 1 .. Len(s)]
  BY <1>4, <1>5
<1> HIDE DEF to
<1>8. ASSUME NEW k \in 1 .. Len(u) PROVE u[k] = s[to[k]] /\ s[to[k]] \in S \cap R
  <2>1. of[k] \in 1 .. Len(t) /\ u[k] = t[of[k]] /\ u[k] \in R
    BY <1>5
  <2>2. t[of[k]] = s[at[of[k]]] /\ t[of[k]] \in S
    BY <1>4, <2>1
  <2> QED BY <1>6, <2>1, <2>2
<1>9. ASSUME NEW j \in 1 .. Len(u), NEW k \in 1 .. Len(u), j < k PROVE to[j] < to[k]
  <2>1. of[j] \in 1 .. Len(t) /\ of[k] \in 1 .. Len(t) /\ of[j] < of[k]
    BY <1>5, <1>9
  <2>2. at[of[j]] < at[of[k]]
    BY <1>4, <2>1
  <2> QED BY <1>6, <2>2
<1>10. \A i \in 1 .. Len(s) : s[i] \in S \cap R => \E k \in 1 .. Len(u) : to[k] = i
  <2> SUFFICES ASSUME NEW i \in 1 .. Len(s), s[i] \in S, s[i] \in R
               PROVE  \E k \in 1 .. Len(u) : to[k] = i
    OBVIOUS
  <2>1. PICK j \in 1 .. Len(t) : at[j] = i
    BY <1>4
  <2>2. t[j] \in R
    BY <1>4, <2>1
  <2>3. PICK k \in 1 .. Len(u) : of[k] = j
    BY <1>5, <2>2
  <2> QED BY <1>6, <2>1, <2>3
<1>11. IsFiltered(u, s, Len(s), S \cap R, to)
  BY <1>7, <1>8, <1>9, <1>10 DEF IsFiltered
<1> QED BY <1>11 DEF Picks

LEMMA FilterPicks ==
    ASSUME NEW X, NEW s \in Seq(X), NEW S
    PROVE  Filter(s, S) \in Seq(X) /\ Picks(Filter(s, S), s, S)
BY FilterFacts DEF Picks

(* x is the first of the greatest among the elements of s that are in S.   *)
FirstBest(s, S, keys, x) ==
    \E m \in DOMAIN s :
        /\ s[m] = x /\ x \in S
        /\ \A j \in DOMAIN s : s[j] \in S => ~ Less(keys[x], keys[s[j]])
        /\ \A j \in DOMAIN s : j < m /\ s[j] \in S => Less(keys[s[j]], keys[x])

Some(s, S) == \E i \in DOMAIN s : s[i] \in S

LEMMA PicksSome ==
    ASSUME NEW X, NEW s \in Seq(X), NEW t \in Seq(X), NEW S, Picks(t, s, S)
    PROVE  t # << >> <=> Some(s, S)
<1>1. PICK at : IsFiltered(t, s, Len(s), S, at)
  BY DEF Picks
<1>2. ASSUME t # << >> PROVE Some(s, S)
  <2>1. 1 \in 1 .. Len(t)
    BY <1>2
  <2>2. at[1] \in 1 .. Len(s) /\ s[at[1]] \in S
    BY <1>1, <2>1 DEF IsFiltered
  <2> QED BY <2>2 DEF Some
<1>3. ASSUME Some(s, S) PROVE t # << >>
  <2>1. PICK i \in 1 .. Len(s) : s[i] \in S
    BY <1>3 DEF Some
  <2>2. PICK k \in 1 .. Len(t) : at[k] = i
    BY <1>1, <2>1 DEF IsFiltered
  <2> QED BY <2>2
<1> QED BY <1>2, <1>3

(* What MaxBy finds in a filtered list, said of the whole one.             *)
LEMMA MaxByPicks ==
    ASSUME NEW X, NEW s \in Seq(X), NEW t \in Seq(X), NEW S, Picks(t, s, S),
           NEW keys, Ranks(keys, X), NEW none
    PROVE  /\ Some(s, S) => FirstBest(s, S, keys, MaxBy(t, keys, none))
           /\ ~ Some(s, S) => MaxBy(t, keys, none) = none
<1>1. CASE ~ Some(s, S)
  BY <1>1, PicksSome, MaxByFacts
<1>2. CASE Some(s, S)
  <2>1. PICK at : IsFiltered(t, s, Len(s), S, at)
    BY DEF Picks
  <2>2. PICK m : IsFirstMax(t, keys, Len(t), m) /\ MaxBy(t, keys, none) = t[m]
    BY <1>2, PicksSome, MaxByFacts
  <2> DEFINE x == t[m]
  <2>3. /\ m \in 1 .. Len(t)
        /\ \A j \in 1 .. Len(t) : ~ Less(keys[x], keys[t[j]])
        /\ \A j \in 1 .. m - 1 : Less(keys[t[j]], keys[x])
    BY <2>2 DEF IsFirstMax
  <2>4. /\ \A k \in 1 .. Len(t) : at[k] \in 1 .. Len(s) /\ t[k] = s[at[k]] /\ t[k] \in S
        /\ \A j, k \in 1 .. Len(t) : j < k => at[j] < at[k]
        /\ \A i \in 1 .. Len(s) : s[i] \in S => \E k \in 1 .. Len(t) : at[k] = i
    BY <2>1 DEF IsFiltered
  <2>5. at[m] \in DOMAIN s /\ s[at[m]] = x /\ x \in S
    BY <2>3, <2>4
  <2> HIDE DEF x
  <2>6. ASSUME NEW j \in DOMAIN s, s[j] \in S
        PROVE  ~ Less(keys[x], keys[s[j]]) /\ (j < at[m] => Less(keys[s[j]], keys[x]))
    <3>1. PICK k \in 1 .. Len(t) : at[k] = j
      BY <2>4, <2>6
    <3>2. t[k] = s[j]
      BY <2>4, <3>1
    <3>3. j < at[m] => k \in 1 .. m - 1
      <4> SUFFICES ASSUME j < at[m], ~ (k < m) PROVE FALSE
        BY <2>3
      <4>1. k = m \/ m < k
        BY <2>3
      <4>2. CASE k = m
        BY <2>5, <3>1, <4>2
      <4>3. CASE m < k
        <5>1. at[m] < at[k] /\ at[m] \in Int /\ at[k] \in Int
          BY <2>3, <2>4, <4>3
        <5> QED BY <3>1, <5>1
      <4> QED BY <4>1, <4>2, <4>3
    <3> QED BY <2>3, <3>2, <3>3
  <2>7. FirstBest(s, S, keys, x)
    BY <2>5, <2>6 DEF FirstBest
  <2> QED BY <1>2, <2>2, <2>7 DEF x
<1> QED BY <1>1, <1>2

(* There is only one, and the loss of another element does not change it.  *)
LEMMA OneFirstBest ==
    ASSUME NEW X, NEW s \in Seq(X), NEW S, NEW keys, NEW x, NEW y,
           FirstBest(s, S, keys, x), FirstBest(s, S, keys, y)
    PROVE  x = y
<1>1. PICK m \in DOMAIN s :
        /\ s[m] = x /\ x \in S
        /\ \A j \in DOMAIN s : s[j] \in S => ~ Less(keys[x], keys[s[j]])
        /\ \A j \in DOMAIN s : j < m /\ s[j] \in S => Less(keys[s[j]], keys[x])
  BY DEF FirstBest
<1>2. PICK n \in DOMAIN s :
        /\ s[n] = y /\ y \in S
        /\ \A j \in DOMAIN s : s[j] \in S => ~ Less(keys[y], keys[s[j]])
        /\ \A j \in DOMAIN s : j < n /\ s[j] \in S => Less(keys[s[j]], keys[y])
  BY DEF FirstBest
<1>3. m \in Int /\ n \in Int
  OBVIOUS
<1>4. ~ (m < n) /\ ~ (n < m)
  BY <1>1, <1>2
<1>5. m = n
  BY <1>3, <1>4
<1> QED BY <1>1, <1>2, <1>5

LEMMA FirstBestStays ==
    ASSUME NEW X, NEW s \in Seq(X), NEW S, NEW keys, NEW x, FirstBest(s, S, keys, x),
           NEW i \in DOMAIN s, s[i] # x
    PROVE  FirstBest(RemoveAt(s, i), S, keys, x)
<1> DEFINE t == RemoveAt(s, i)
           old(j) == IF j < i THEN j ELSE j + 1
<1>1. PICK m \in DOMAIN s :
        /\ s[m] = x /\ x \in S
        /\ \A j \in DOMAIN s : s[j] \in S => ~ Less(keys[x], keys[s[j]])
        /\ \A j \in DOMAIN s : j < m /\ s[j] \in S => Less(keys[s[j]], keys[x])
  BY DEF FirstBest
<1>2. /\ t \in Seq(X) /\ Len(t) = Len(s) - 1
      /\ \A j \in 1 .. Len(s) - 1 : t[j] = IF j < i THEN s[j] ELSE s[j + 1]
  BY RemoveAtFacts
<1> HIDE DEF t
<1>3. Len(s) \in Nat /\ i \in 1 .. Len(s) /\ m \in 1 .. Len(s) /\ m # i
  BY <1>1
<1>4. DOMAIN t = 1 .. Len(s) - 1
  BY <1>2
<1>5. \A j \in DOMAIN t : old(j) \in DOMAIN s /\ t[j] = s[old(j)]
  BY <1>2, <1>3, <1>4
<1> DEFINE n == IF m < i THEN m ELSE m - 1
<1>6. n \in DOMAIN t /\ old(n) = m /\ \A j \in DOMAIN t : j < n => old(j) < m
  BY <1>3, <1>4
<1> HIDE DEF n, old
<1>7. t[n] = x
  BY <1>1, <1>5, <1>6
<1>8. \A j \in DOMAIN t : t[j] \in S => ~ Less(keys[x], keys[t[j]])
  BY <1>1, <1>5
<1>9. \A j \in DOMAIN t : j < n /\ t[j] \in S => Less(keys[t[j]], keys[x])
  BY <1>1, <1>5, <1>6
<1>10. FirstBest(t, S, keys, x)
  BY <1>1, <1>6, <1>7, <1>8, <1>9 DEF FirstBest
<1> QED BY <1>10 DEF t

LEMMA SomeAfter ==
    ASSUME NEW X, NEW s \in Seq(X), NEW S, NEW i \in DOMAIN s, Some(RemoveAt(s, i), S)
    PROVE  Some(s, S)
<1>1. /\ RemoveAt(s, i) \in Seq(X) /\ Len(RemoveAt(s, i)) = Len(s) - 1
      /\ \A j \in 1 .. Len(s) - 1 :
            RemoveAt(s, i)[j] = IF j < i THEN s[j] ELSE s[j + 1]
  BY RemoveAtFacts
<1>2. PICK j \in 1 .. Len(s) - 1 : RemoveAt(s, i)[j] \in S
  BY <1>1 DEF Some
<1>3. j \in DOMAIN s /\ j + 1 \in DOMAIN s
  OBVIOUS
<1> QED BY <1>1, <1>2, <1>3 DEF Some
=============================================================================

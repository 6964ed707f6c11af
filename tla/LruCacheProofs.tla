--------------------------- MODULE LruCacheProofs ---------------------------
(***************************************************************************)
(* The cache keeps its list, its map and its count right, and is the map   *)
(* of RecentlyUsed, for any keys, values and size and any number of purges.*)
(***************************************************************************)
EXTENDS LruCache, SequenceTheorems, TLAPS

----------------------------------------------------------------------------
(* Lists of keys. *)

\* The place of a key of the list.
LEMMA PlaceOf ==
  ASSUME NEW s \in Seq(Keys), NEW k \in Elems(s)
  PROVE  Place(s, k) \in 1..Len(s) /\ s[Place(s, k)] = k
BY DEF Place, Elems

\* A key that is the i-th of a list of distinct keys has its place there.
LEMMA PlaceUnique ==
  ASSUME NEW s \in Seq(Keys), Distinct(s), NEW i \in 1..Len(s)
  PROVE  Place(s, s[i]) = i
<1>1. s[i] \in Elems(s)
  BY DEF Elems
<1>2. QED
  BY <1>1, PlaceOf DEF Distinct

\* Without leaves the other keys in their order.
LEMMA WithoutProperties ==
  ASSUME NEW s \in Seq(Keys), NEW k \in Elems(s)
  PROVE  /\ Without(s, k) \in Seq(Keys)
         /\ Len(Without(s, k)) = Len(s) - 1
         /\ \A i \in 1..(Len(s) - 1) :
              Without(s, k)[i] = IF i < Place(s, k) THEN s[i] ELSE s[i + 1]
<1> DEFINE n == Len(s) - 1
<1>1. n \in Nat /\ Place(s, k) \in 1..(n + 1)
  BY PlaceOf
<1>2. Without(s, k) = [i \in 1..n |-> IF i < Place(s, k) THEN s[i] ELSE s[i + 1]]
  BY DEF Without
<1>3. \A i \in 1..n : s[i] \in Keys /\ s[i + 1] \in Keys
  BY <1>1
<1>4. Without(s, k) \in [1..n -> Keys]
  BY <1>2, <1>3
<1> HIDE DEF n
<1>5. Without(s, k) \in Seq(Keys) /\ Len(Without(s, k)) = n
  BY <1>1, <1>4
<1>6. QED
  BY <1>2, <1>5 DEF n

\* Push puts one key before the others.
LEMMA PushProperties ==
  ASSUME NEW s \in Seq(Keys), NEW k \in Keys
  PROVE  /\ Push(s, k) \in Seq(Keys)
         /\ Len(Push(s, k)) = Len(s) + 1
         /\ Push(s, k)[1] = k
         /\ \A i \in 2..(Len(s) + 1) : Push(s, k)[i] = s[i - 1]
<1> DEFINE n == Len(s) + 1
<1>1. n \in Nat /\ n >= 1
  OBVIOUS
<1>2. \A i \in 1..n : i # 1 => s[i - 1] \in Keys
  OBVIOUS
<1>3. Push(s, k) = [i \in 1..n |-> IF i = 1 THEN k ELSE s[i - 1]]
  BY DEF Push
<1>4. Push(s, k) \in [1..n -> Keys]
  BY <1>2, <1>3
<1> HIDE DEF n
<1>5. Push(s, k) \in Seq(Keys) /\ Len(Push(s, k)) = n
  BY <1>1, <1>4
<1>6. QED
  BY <1>1, <1>3, <1>5 DEF n

\* Without removes one key and keeps the others distinct.
LEMMA WithoutElems ==
  ASSUME NEW s \in Seq(Keys), Distinct(s), NEW k
  PROVE  /\ Without(s, k) \in Seq(Keys)
         /\ Distinct(Without(s, k))
         /\ Elems(Without(s, k)) = Elems(s) \ {k}
<1>1. CASE k \notin Elems(s)
  BY <1>1 DEF Without
<1>2. CASE k \in Elems(s)
  <2> DEFINE p == Place(s, k)
             w == Without(s, k)
             old(i) == IF i < p THEN i ELSE i + 1
  <2>1. p \in 1..Len(s) /\ s[p] = k /\ Len(s) \in Nat
    BY <1>2, PlaceOf
  <2>2. /\ w \in Seq(Keys) /\ Len(w) = Len(s) - 1
        /\ \A i \in 1..(Len(s) - 1) : w[i] = IF i < p THEN s[i] ELSE s[i + 1]
    BY <1>2, WithoutProperties
  <2> HIDE DEF p, w
  <2>3. \A i \in 1..Len(w) : old(i) \in 1..Len(s) /\ old(i) # p /\ w[i] = s[old(i)]
    BY <2>1, <2>2
  <2>4. Distinct(w)
    <3> SUFFICES ASSUME NEW i \in 1..Len(w), NEW j \in 1..Len(w), w[i] = w[j]
                 PROVE  i = j
      BY DEF Distinct
    <3>1. old(i) = old(j)
      <4>1. old(i) \in 1..Len(s) /\ old(j) \in 1..Len(s) /\ s[old(i)] = s[old(j)]
        BY <2>3
      <4> HIDE DEF old
      <4>2. QED
        BY <4>1 DEF Distinct
    <3>2. QED
      BY <3>1, <2>1, <2>2
  <2>5. Elems(w) \subseteq Elems(s) \ {k}
    <3> SUFFICES ASSUME NEW i \in 1..Len(w) PROVE w[i] \in Elems(s) \ {k}
      BY DEF Elems
    <3>1. old(i) \in 1..Len(s) /\ old(i) # p /\ w[i] = s[old(i)]
      BY <2>3
    <3> HIDE DEF old
    <3>2. w[i] # k
      BY <3>1, <2>1 DEF Distinct
    <3>3. QED
      BY <3>1, <3>2 DEF Elems
  <2>6. Elems(s) \ {k} \subseteq Elems(w)
    <3> SUFFICES ASSUME NEW i \in 1..Len(s), s[i] # k PROVE s[i] \in Elems(w)
      BY DEF Elems
    <3>1. i # p
      BY <2>1
    <3>2. CASE i < p
      <4>1. i \in 1..Len(w) /\ w[i] = s[i]
        BY <3>2, <2>1, <2>2
      <4>2. QED
        BY <4>1 DEF Elems
    <3>3. CASE i > p
      <4>1. i - 1 \in 1..Len(w) /\ w[i - 1] = s[i]
        BY <3>3, <2>1, <2>2
      <4>2. QED
        BY <4>1 DEF Elems
    <3>4. QED
      BY <3>1, <3>2, <3>3, <2>1
  <2>7. QED
    BY <2>2, <2>4, <2>5, <2>6 DEF w
<1>3. QED
  BY <1>1, <1>2

\* Moving or putting a key in front keeps the list distinct.
LEMMA FrontProperties ==
  ASSUME NEW s \in Seq(Keys), Distinct(s), NEW k \in Keys
  PROVE  /\ Front(s, k) \in Seq(Keys)
         /\ Distinct(Front(s, k))
         /\ Elems(Front(s, k)) = Elems(s) \union {k}
         /\ Len(Front(s, k)) = IF k \in Elems(s) THEN Len(s) ELSE Len(s) + 1
         /\ Front(s, k)[1] = k
         /\ \A i \in 2..Len(Front(s, k)) :
              Front(s, k)[i] = IF k \in Elems(s) /\ i > Place(s, k) THEN s[i] ELSE s[i - 1]
<1> DEFINE w == Without(s, k)
           f == Push(w, k)
<1>1. /\ w \in Seq(Keys) /\ Distinct(w) /\ Elems(w) = Elems(s) \ {k}
  BY WithoutElems
<1>2. /\ Len(w) = IF k \in Elems(s) THEN Len(s) - 1 ELSE Len(s)
      /\ \A i \in 1..Len(w) : w[i] = IF k \in Elems(s) /\ i >= Place(s, k) THEN s[i + 1] ELSE s[i]
  <2>1. CASE k \in Elems(s)
    BY <2>1, WithoutProperties, PlaceOf
  <2>2. CASE k \notin Elems(s)
    BY <2>2 DEF Without
  <2>3. QED
    BY <2>1, <2>2
<1>3. Front(s, k) = f
  BY DEF Front
<1> HIDE DEF w
<1>4. /\ f \in Seq(Keys) /\ Len(f) = Len(w) + 1 /\ f[1] = k
      /\ \A i \in 2..(Len(w) + 1) : f[i] = w[i - 1]
  BY <1>1, PushProperties
<1> HIDE DEF f
<1>5. \A i \in 2..Len(f) : f[i] = w[i - 1] /\ i - 1 \in 1..Len(w) /\ f[i] \in Elems(w)
  BY <1>1, <1>4 DEF Elems
<1>6. Distinct(f)
  <2> SUFFICES ASSUME NEW i \in 1..Len(f), NEW j \in 1..Len(f), f[i] = f[j]
               PROVE  i = j
    BY DEF Distinct
  <2>1. CASE i = 1 /\ j = 1
    BY <2>1
  <2>2. CASE i # 1 /\ j = 1
    BY <2>2, <1>1, <1>4, <1>5
  <2>3. CASE i = 1 /\ j # 1
    BY <2>3, <1>1, <1>4, <1>5
  <2>4. CASE i # 1 /\ j # 1
    <3>1. i - 1 \in 1..Len(w) /\ j - 1 \in 1..Len(w) /\ w[i - 1] = w[j - 1]
      BY <2>4, <1>5
    <3>2. i - 1 = j - 1
      BY <3>1, <1>1 DEF Distinct
    <3>3. QED
      BY <3>2
  <2>5. QED
    BY <2>1, <2>2, <2>3, <2>4
<1>7. Elems(f) = Elems(s) \union {k}
  <2>1. Elems(f) \subseteq Elems(w) \union {k}
    <3> SUFFICES ASSUME NEW i \in 1..Len(f) PROVE f[i] \in Elems(w) \union {k}
      BY DEF Elems
    <3>1. QED
      BY <1>4, <1>5
  <2>2. k \in Elems(f)
    BY <1>1, <1>4 DEF Elems
  <2>3. Elems(w) \subseteq Elems(f)
    <3> SUFFICES ASSUME NEW i \in 1..Len(w) PROVE w[i] \in Elems(f)
      BY DEF Elems
    <3>1. i + 1 \in 2..Len(f) /\ f[i + 1] = w[i]
      BY <1>1, <1>4
    <3>2. QED
      BY <3>1 DEF Elems
  <2>4. QED
    BY <1>1, <2>1, <2>2, <2>3
<1>8. \A i \in 2..Len(f) : f[i] = IF k \in Elems(s) /\ i > Place(s, k) THEN s[i] ELSE s[i - 1]
  <2>1. k \in Elems(s) => Place(s, k) \in 1..Len(s)
    BY PlaceOf
  <2>2. QED
    BY <1>2, <1>5, <2>1
<1>9. QED
  BY <1>2, <1>3, <1>4, <1>6, <1>7, <1>8

----------------------------------------------------------------------------
(* Caches. *)

Caches ==
  [evictList : Seq(Keys), items : UNION {[S -> EntriesOf(Values)] : S \in SUBSET Keys},
   generation : 0..MaxGeneration, len : Nat]

\* A cache whose list, map and count agree, with room for n elements, and no
\* entry of a generation to come.
Sound(c, n) ==
  /\ c \in Caches
  /\ Distinct(c.evictList)
  /\ Elems(c.evictList) = DOMAIN c.items
  /\ Len(c.evictList) <= n
  /\ c.len <= Len(c.evictList)
  /\ \A i \in 1..Len(c.evictList) : Live(c, c.evictList[i]) <=> i <= c.len
  /\ \A k \in DOMAIN c.items : c.items[k].generation <= c.generation

\* The invariant of the cache is that it is sound, and what it answered.
CacheInv == Sound(cache, Size) /\ answer \in [value : Values \union {None}, loaded : BOOLEAN]

\* The fields of a cache.
LEMMA CacheFields ==
  ASSUME NEW c \in Caches
  PROVE  /\ c.evictList \in Seq(Keys) /\ c.generation \in 0..MaxGeneration /\ c.len \in Nat
         /\ DOMAIN c.items \subseteq Keys
         /\ \A k \in DOMAIN c.items : c.items[k] \in EntriesOf(Values)
         /\ c = [evictList |-> c.evictList, items |-> c.items,
                 generation |-> c.generation, len |-> c.len]
         /\ c.items \in UNION {[S -> EntriesOf(Values)] : S \in SUBSET Keys}
BY DEF Caches

\* A cache can be put together from its fields.
LEMMA CacheOf ==
  ASSUME NEW l \in Seq(Keys), NEW S \in SUBSET Keys, NEW m \in [S -> EntriesOf(Values)],
         NEW g \in 0..MaxGeneration, NEW n \in Nat
  PROVE  [evictList |-> l, items |-> m, generation |-> g, len |-> n] \in Caches
BY DEF Caches

\* Taking an element out keeps the cache sound: the count goes down if the
\* element was one of the live ones, which are in front.
LEMMA RemoveElementSound ==
  ASSUME NEW n \in Nat, NEW c, Sound(c, n), NEW k, Present(c, k)
  PROVE  /\ Sound(RemoveElement(c, k), n)
         /\ n > 0 => Sound(RemoveElement(c, k), n - 1) \/ Len(c.evictList) < n
         /\ ~Present(RemoveElement(c, k), k)
         /\ Len(RemoveElement(c, k).evictList) = Len(c.evictList) - 1
         /\ RemoveElement(c, k).generation = c.generation
<1> DEFINE s == c.evictList
           m == c.items
           g == c.generation
           p == Place(s, k)
           w == Without(s, k)
           m2 == [x \in DOMAIN m \ {k} |-> m[x]]
           l2 == IF Live(c, k) THEN c.len - 1 ELSE c.len
           r == [evictList |-> w, items |-> m2, generation |-> g, len |-> l2]
<1>1. c \in Caches
  BY DEF Sound
<1>2. /\ s \in Seq(Keys) /\ g \in 0..MaxGeneration /\ c.len \in Nat
      /\ DOMAIN m \subseteq Keys /\ \A x \in DOMAIN m : m[x] \in EntriesOf(Values)
      /\ c = [evictList |-> s, items |-> m, generation |-> g, len |-> c.len]
  BY <1>1, CacheFields
<1>3. RemoveElement(c, k) = r
  BY DEF RemoveElement
<1>4. Distinct(s) /\ k \in Elems(s) /\ Elems(s) = DOMAIN m
  BY DEF Sound, Present
<1>5. p \in 1..Len(s) /\ s[p] = k
  BY <1>2, <1>4, PlaceOf
<1>6. Live(c, k) <=> p <= c.len
  BY <1>5 DEF Sound
<1>7. /\ w \in Seq(Keys) /\ Distinct(w) /\ Elems(w) = Elems(s) \ {k}
      /\ Len(w) = Len(s) - 1
      /\ \A i \in 1..(Len(s) - 1) : w[i] = IF i < p THEN s[i] ELSE s[i + 1]
  BY <1>2, <1>4, WithoutElems, WithoutProperties
<1>8. l2 \in Nat /\ l2 <= Len(w)
  BY <1>2, <1>5, <1>6, <1>7 DEF Sound
<1>9. m2 \in [DOMAIN m \ {k} -> EntriesOf(Values)] /\ DOMAIN m2 = DOMAIN m \ {k}
  BY <1>2
<1>10. r \in Caches
  BY <1>2, <1>7, <1>8, <1>9, CacheOf
<1>11. \A x \in DOMAIN m \ {k} : Live(r, x) <=> Live(c, x)
  BY DEF Live, Present
<1>12. \A i \in 1..Len(w) : Live(r, w[i]) <=> i <= l2
  <2> SUFFICES ASSUME NEW i \in 1..Len(w) PROVE Live(r, w[i]) <=> i <= l2
    OBVIOUS
  <2>1. w[i] \in DOMAIN m \ {k}
    BY <1>4, <1>7 DEF Elems
  <2>2. Live(r, w[i]) <=> Live(c, w[i])
    BY <1>11, <2>1
  <2>3. \A j \in 1..Len(s) : Live(c, s[j]) <=> j <= c.len
    BY DEF Sound
  <2> HIDE DEF w, r, s, p
  <2>4. i \in 1..Len(s) /\ i + 1 \in 1..Len(s) /\ p \in 1..Len(s)
    BY <1>5, <1>7, <1>2
  <2>5. CASE i < p
    <3>1. Live(r, w[i]) <=> i <= c.len
      BY <2>5, <2>2, <2>3, <2>4, <1>7, <1>2
    <3>2. QED
      BY <3>1, <2>5, <1>6, <1>2, <2>4
  <2>6. CASE ~(i < p)
    <3>1. Live(r, w[i]) <=> i + 1 <= c.len
      BY <2>6, <2>2, <2>3, <2>4, <1>7, <1>2
    <3>2. QED
      BY <3>1, <2>6, <1>6, <1>2, <2>4
  <2>7. QED
    BY <2>5, <2>6
<1>13. \A x \in DOMAIN m2 : m2[x].generation <= g
  BY DEF Sound
<1>14. QED
  <2>1. /\ r.evictList = w /\ r.items = m2 /\ r.len = l2 /\ r.generation = g
    OBVIOUS
  <2>2. Len(s) <= n /\ Len(s) \in Nat
    BY <1>2 DEF Sound
  <2>3. Sound(r, n) /\ (n > 0 => Sound(r, n - 1) \/ Len(s) < n)
    <3> HIDE DEF w, m2, l2, r, s
    <3>1. QED
      BY <2>1, <2>2, <1>4, <1>7, <1>8, <1>9, <1>10, <1>12, <1>13 DEF Sound
  <2>4. ~Present(r, k)
    BY <1>9 DEF Present
  <2> HIDE DEF r
  <2>5. QED
    BY <2>1, <2>3, <2>4, <1>3, <1>7

\* Storing a value keeps the cache sound, with room for one more element: the
\* entry in front is live, and the count goes up if it was not.
LEMMA StoredSound ==
  ASSUME NEW n \in Nat, NEW c, Sound(c, n), NEW k \in Keys, NEW v \in Values,
         NEW e \in {"never", "later"}
  PROVE  /\ Sound(Stored(c, k, v, e), n + 1)
         /\ Present(c, k) => Sound(Stored(c, k, v, e), n)
<1> DEFINE s == c.evictList
           m == c.items
           g == c.generation
           p == Place(s, k)
           f == Front(s, k)
           d == [value |-> v, expires |-> e, generation |-> g]
           m2 == [x \in DOMAIN m \union {k} |-> IF x = k THEN d ELSE m[x]]
           l2 == IF Live(c, k) THEN c.len ELSE c.len + 1
           r == [evictList |-> f, items |-> m2, generation |-> g, len |-> l2]
<1>1. c \in Caches
  BY DEF Sound
<1>2. /\ s \in Seq(Keys) /\ g \in 0..MaxGeneration /\ c.len \in Nat
      /\ DOMAIN m \subseteq Keys /\ \A x \in DOMAIN m : m[x] \in EntriesOf(Values)
  BY <1>1, CacheFields
<1>3. Stored(c, k, v, e) = r
  BY DEF Stored
<1>4. Distinct(s) /\ Elems(s) = DOMAIN m
  BY DEF Sound
<1>5. k \in Elems(s) => p \in 1..Len(s) /\ s[p] = k
  BY <1>2, PlaceOf
<1>6. Live(c, k) <=> k \in Elems(s) /\ p <= c.len
  BY <1>4, <1>5 DEF Sound, Live, Present
<1>7. /\ f \in Seq(Keys) /\ Distinct(f) /\ Elems(f) = Elems(s) \union {k}
      /\ Len(f) = IF k \in Elems(s) THEN Len(s) ELSE Len(s) + 1
      /\ f[1] = k
      /\ \A i \in 2..Len(f) : f[i] = IF k \in Elems(s) /\ i > p THEN s[i] ELSE s[i - 1]
  BY <1>2, <1>4, FrontProperties
<1>8. l2 \in Nat /\ l2 <= Len(f) /\ l2 >= 1
  BY <1>2, <1>5, <1>6, <1>7 DEF Sound
<1>9. m2 \in [DOMAIN m \union {k} -> EntriesOf(Values)] /\ DOMAIN m2 = DOMAIN m \union {k}
  <2>1. d \in EntriesOf(Values)
    BY <1>2 DEF EntriesOf
  <2> HIDE DEF d
  <2>2. QED
    BY <1>2, <2>1
<1>10. r \in Caches
  BY <1>2, <1>7, <1>8, <1>9, CacheOf
<1>11. Live(r, k) /\ \A x \in DOMAIN m \ {k} : Live(r, x) <=> Live(c, x)
  BY DEF Live, Present
<1>12. \A i \in 1..Len(f) : Live(r, f[i]) <=> i <= l2
  <2> SUFFICES ASSUME NEW i \in 1..Len(f) PROVE Live(r, f[i]) <=> i <= l2
    OBVIOUS
  <2>1. \A j \in 1..Len(s) : Live(c, s[j]) <=> j <= c.len
    BY DEF Sound
  <2>2. i # 1 => f[i] \in DOMAIN m \ {k}
    <3>1. i # 1 => f[i] # k
      BY <1>7 DEF Distinct
    <3>2. f[i] \in Elems(f)
      BY DEF Elems
    <3>3. QED
      BY <3>1, <3>2, <1>4, <1>7
  <2> HIDE DEF f, r, s, p, l2
  <2>3. CASE i = 1
    BY <2>3, <1>7, <1>8, <1>11
  <2>4. CASE i # 1 /\ k \in Elems(s) /\ i > p
    <3>1. i \in 1..Len(s) /\ f[i] = s[i]
      BY <2>4, <1>2, <1>5, <1>7
    <3>2. Live(r, f[i]) <=> i <= c.len
      BY <3>1, <2>1, <2>2, <2>4, <1>11
    <3>3. QED
      BY <3>2, <2>4, <1>2, <1>5, <1>6 DEF l2
  <2>5. CASE i # 1 /\ ~(k \in Elems(s) /\ i > p)
    <3>1. i - 1 \in 1..Len(s) /\ f[i] = s[i - 1]
      BY <2>5, <1>2, <1>5, <1>7
    <3>2. Live(r, f[i]) <=> i - 1 <= c.len
      BY <3>1, <2>1, <2>2, <2>5, <1>11
    <3>3. QED
      BY <3>2, <2>5, <1>2, <1>5, <1>6 DEF l2
  <2>6. QED
    BY <2>3, <2>4, <2>5
<1>13. \A x \in DOMAIN m2 : m2[x].generation <= g
  BY <1>2 DEF Sound
<1>14. QED
  <2>1. r.evictList = f /\ r.items = m2 /\ r.len = l2 /\ r.generation = g
    OBVIOUS
  <2>2. Len(s) <= n /\ Len(s) \in Nat
    BY <1>2 DEF Sound
  <2>3. Present(c, k) => k \in Elems(s)
    BY <1>4 DEF Present
  <2> HIDE DEF f, m2, l2, r, s
  <2>4. ASSUME NEW q \in Nat, Len(f) <= q
        PROVE  Sound(r, q)
    BY <2>1, <2>4, <1>4, <1>7, <1>8, <1>9, <1>10, <1>12, <1>13 DEF Sound
  <2>5. Len(f) <= n + 1 /\ (Present(c, k) => Len(f) <= n)
    BY <2>2, <2>3, <1>7
  <2>6. QED
    BY <2>4, <2>5, <1>3

\* Eviction makes a cache fit its size.
LEMMA EvictedSound ==
  ASSUME NEW c, Sound(c, Size + 1)
  PROVE  Sound(Evicted(c), Size)
<1> DEFINE s == c.evictList
<1>1. s \in Seq(Keys) /\ Len(s) \in Nat /\ Len(s) <= Size + 1 /\ Elems(s) = DOMAIN c.items
  <2>1. c \in Caches
    BY DEF Sound
  <2>2. QED
    BY <2>1, CacheFields DEF Sound
<1>2. CASE Len(s) > Size
  <2>1. s[Len(s)] \in Elems(s)
    BY <1>1, <1>2, LruCacheAssumption DEF Elems
  <2>2. Present(c, s[Len(s)])
    BY <1>1, <2>1 DEF Present
  <2>3. Size + 1 \in Nat /\ Size + 1 > 0 /\ ~(Len(s) < Size + 1) /\ (Size + 1) - 1 = Size
    BY <1>1, <1>2, LruCacheAssumption
  <2>4. Sound(RemoveElement(c, s[Len(s)]), Size)
    BY <2>2, <2>3, RemoveElementSound
  <2>5. QED
    BY <1>2, <2>4 DEF Evicted
<1>3. CASE ~(Len(s) > Size)
  BY <1>1, <1>3, LruCacheAssumption DEF Evicted, Sound
<1>4. QED
  BY <1>2, <1>3

\* A lookup keeps the cache sound, and finds a key that is live or none.
LEMMA GetValueSound ==
  ASSUME NEW c, Sound(c, Size), NEW k \in Keys
  PROVE  Sound(GetValue(c, k), Size)
<1>1. CASE Valid(c, k)
  <2> DEFINE s == c.evictList
             f == Front(s, k)
             p == Place(s, k)
             r == [evictList |-> f, items |-> c.items, generation |-> c.generation, len |-> c.len]
  <2>1. c \in Caches /\ Present(c, k) /\ Live(c, k)
    BY <1>1 DEF Sound, Valid, Live
  <2>2. /\ s \in Seq(Keys) /\ c.len \in Nat /\ DOMAIN c.items \subseteq Keys
        /\ Distinct(s) /\ Elems(s) = DOMAIN c.items
    BY <2>1, CacheFields DEF Sound
  <2>3. k \in Elems(s) /\ p \in 1..Len(s) /\ s[p] = k
    BY <2>1, <2>2, PlaceOf DEF Present
  <2>4. /\ f \in Seq(Keys) /\ Distinct(f) /\ Elems(f) = Elems(s) /\ Len(f) = Len(s)
        /\ f[1] = k /\ \A i \in 2..Len(f) : f[i] = IF i > p THEN s[i] ELSE s[i - 1]
    <3>1. /\ f \in Seq(Keys) /\ Distinct(f) /\ Elems(f) = Elems(s) \union {k} /\ Len(f) = Len(s)
          /\ f[1] = k
          /\ \A i \in 2..Len(f) : f[i] = IF k \in Elems(s) /\ i > p THEN s[i] ELSE s[i - 1]
      BY <2>2, <2>3, FrontProperties
    <3> HIDE DEF f, p
    <3>2. QED
      BY <3>1, <2>3
  <2>5. GetValue(c, k) = r
    BY <1>1, <2>1 DEF GetValue, Caches
  <2>6. r \in Caches
    BY <2>1, <2>4 DEF Caches
  <2>7. p <= c.len /\ \A i \in 1..Len(s) : Live(c, s[i]) <=> i <= c.len
    BY <2>1, <2>3 DEF Sound
  <2>8. \A i \in 1..Len(f) : Live(c, f[i]) <=> i <= c.len
    <3> SUFFICES ASSUME NEW i \in 1..Len(f) PROVE Live(c, f[i]) <=> i <= c.len
      OBVIOUS
    <3> HIDE DEF f, s, p
    <3>1. CASE i = 1
      BY <3>1, <2>1, <2>2, <2>3, <2>4, <2>7
    <3>2. CASE i # 1 /\ i > p
      BY <3>2, <2>2, <2>4, <2>7
    <3>3. CASE i # 1 /\ ~(i > p)
      <4>1. i - 1 \in 1..Len(s) /\ f[i] = s[i - 1] /\ i <= c.len
        BY <3>3, <2>2, <2>3, <2>4, <2>7
      <4>2. QED
        BY <4>1, <2>2, <2>7
    <3>4. QED
      BY <3>1, <3>2, <3>3
  <2>9. \A x : Live(r, x) <=> Live(c, x)
    BY DEF Live, Present
  <2>10. Sound(r, Size)
    <3>1. r.evictList = f /\ r.items = c.items /\ r.len = c.len /\ r.generation = c.generation
      OBVIOUS
    <3> HIDE DEF r, f, s
    <3>2. QED
      BY <3>1, <2>2, <2>4, <2>6, <2>8, <2>9 DEF Sound, s
  <2>11. QED
    BY <2>5, <2>10
<1>2. CASE ~Valid(c, k)
  BY <1>2, RemoveElementSound, LruCacheAssumption DEF GetValue
<1>3. QED
  BY <1>1, <1>2

\* Adding keeps the cache sound.
LEMMA AddToSound ==
  ASSUME NEW c, Sound(c, Size), NEW k \in Keys, NEW v \in Values, NEW e \in {"never", "later"}
  PROVE  Sound(AddTo(c, k, v, e), Size)
BY StoredSound, EvictedSound, LruCacheAssumption DEF AddTo

\* A purge, and the passing of time, keep the cache sound.
LEMMA PurgeSound ==
  ASSUME NEW c, Sound(c, Size), c.generation < MaxGeneration
  PROVE  Sound(NextGeneration(c), Size)
<1> DEFINE g == c.generation + 1
           r == [evictList |-> c.evictList, items |-> c.items, generation |-> g, len |-> 0]
<1>1. c \in Caches
  BY DEF Sound
<1>2. c.generation \in 0..MaxGeneration /\ g \in 0..MaxGeneration /\ c.evictList \in Seq(Keys)
  BY <1>1, CacheFields, LruCacheAssumption
<1>3. r \in Caches
  BY <1>1, <1>2 DEF Caches
<1>4. \A x \in DOMAIN c.items : c.items[x].generation \in Nat /\ c.items[x].generation < g
  BY <1>1, <1>2, CacheFields DEF Sound, EntriesOf
<1>5. \A x : ~Live(r, x)
  BY <1>2, <1>4 DEF Live, Present
<1>6. Sound(r, Size)
  <2>1. r.evictList = c.evictList /\ r.items = c.items /\ r.generation = g /\ r.len = 0
    OBVIOUS
  <2>2. \A i \in 1..Len(c.evictList) : ~(i <= 0)
    OBVIOUS
  <2> HIDE DEF r, g
  <2>3. QED
    BY <2>1, <2>2, <1>2, <1>3, <1>4, <1>5, LruCacheAssumption DEF Sound
<1>7. QED
  BY <1>6 DEF NextGeneration

\* The expiry of one entry does not matter for the list and the count.
LEMMA ExpireSound ==
  ASSUME NEW c, Sound(c, Size), NEW k, Present(c, k)
  PROVE  Sound([c EXCEPT !.items[k].expires = "past"], Size)
<1> DEFINE m == [c.items EXCEPT ![k].expires = "past"]
           r == [evictList |-> c.evictList, items |-> m, generation |-> c.generation, len |-> c.len]
<1>1. c \in Caches /\ k \in DOMAIN c.items
  BY DEF Sound, Present
<1>2. /\ DOMAIN c.items \subseteq Keys /\ \A x \in DOMAIN c.items : c.items[x] \in EntriesOf(Values)
      /\ c.evictList \in Seq(Keys) /\ c.generation \in 0..MaxGeneration /\ c.len \in Nat
  BY <1>1, CacheFields
<1>3. /\ DOMAIN m = DOMAIN c.items
      /\ \A x \in DOMAIN m : m[x] \in EntriesOf(Values) /\ m[x].generation = c.items[x].generation
  BY <1>1, <1>2 DEF EntriesOf
<1>4. m \in [DOMAIN c.items -> EntriesOf(Values)]
  BY <1>3
<1> HIDE DEF m
<1>5. r \in Caches
  BY <1>2, <1>4, CacheOf
<1>6. \A x : Live(r, x) <=> Live(c, x)
  BY <1>3 DEF Live, Present
<1>7. [c EXCEPT !.items[k].expires = "past"] = r
  BY <1>1 DEF m, Caches
<1>8. Sound(r, Size)
  <2>1. r.evictList = c.evictList /\ r.items = m /\ r.generation = c.generation /\ r.len = c.len
    OBVIOUS
  <2> HIDE DEF r
  <2>2. QED
    BY <2>1, <1>3, <1>5, <1>6 DEF Sound
<1>9. QED
  BY <1>7, <1>8

----------------------------------------------------------------------------
(* The invariant. *)

LEMMA HitTyped ==
  ASSUME NEW c, Sound(c, Size), NEW k, Valid(c, k)
  PROVE  Hit(c, k) \in [value : Values \union {None}, loaded : BOOLEAN]
<1>1. c \in Caches /\ k \in DOMAIN c.items
  BY DEF Sound, Valid, Live, Present
<1>2. c.items[k] \in EntriesOf(Values)
  BY <1>1, CacheFields
<1>3. QED
  BY <1>2 DEF Hit, EntriesOf

LEMMA MissTyped == Miss \in [value : Values \union {None}, loaded : BOOLEAN]
BY DEF Miss

LEMMA InitSound == CacheInit => CacheInv
<1> SUFFICES ASSUME CacheInit PROVE CacheInv
  OBVIOUS
<1>1. New \in Caches
  <2>1. [k \in {} |-> None] \in [{} -> EntriesOf(Values)]
    OBVIOUS
  <2>2. <<>> \in Seq(Keys) /\ {} \in SUBSET Keys /\ 0 \in 0..MaxGeneration /\ 0 \in Nat
    BY LruCacheAssumption
  <2>3. QED
    BY <2>1, <2>2, CacheOf DEF New
<1>2. /\ New.evictList = <<>> /\ New.items = [k \in {} |-> None] /\ New.len = 0
      /\ DOMAIN New.items = {} /\ Len(New.evictList) = 0
  BY DEF New
<1>3. Sound(New, Size)
  BY <1>1, <1>2, LruCacheAssumption DEF Sound, Distinct, Elems
<1>4. QED
  BY <1>3, MissTyped DEF CacheInit, CacheInv

LEMMA NextSound == CacheInv /\ [CacheNext]_cacheVars => CacheInv'
<1> SUFFICES ASSUME CacheInv, [CacheNext]_cacheVars PROVE CacheInv'
  OBVIOUS
<1>0. Sound(cache, Size)
  BY DEF CacheInv
<1>1. ASSUME NEW k \in Keys, Get(k) PROVE CacheInv'
  BY <1>0, <1>1, GetValueSound, HitTyped, MissTyped DEF CacheInv, Get
<1>2. ASSUME NEW k \in Keys, CacheRemove(k) PROVE CacheInv'
  BY <1>0, <1>2, RemoveElementSound, MissTyped, LruCacheAssumption DEF CacheInv, CacheRemove
<1>3. ASSUME NEW k \in Keys, Expire(k) PROVE CacheInv'
  BY <1>0, <1>3, ExpireSound DEF CacheInv, Expire
<1>4. ASSUME NEW k \in Keys, NEW v \in Values, NEW e \in {"never", "later"}, CacheAdd(k, v, e)
      PROVE  CacheInv'
  BY <1>0, <1>4, AddToSound, MissTyped DEF CacheInv, CacheAdd
<1>5. ASSUME NEW k \in Keys, NEW v \in Values, NEW e \in {"never", "later"}, GetOrAdd(k, v, e)
      PROVE  CacheInv'
  <2>1. Sound(GetValue(cache, k), Size)
    BY <1>0, GetValueSound
  <2>2. Sound(AddTo(GetValue(cache, k), k, v, e), Size)
    BY <2>1, AddToSound
  <2>3. [value |-> v, loaded |-> FALSE] \in [value : Values \union {None}, loaded : BOOLEAN]
    OBVIOUS
  <2>4. QED
    BY <1>0, <1>5, <2>1, <2>2, <2>3, HitTyped DEF CacheInv, GetOrAdd
<1>6. ASSUME Purge PROVE CacheInv'
  BY <1>0, <1>6, PurgeSound, MissTyped DEF CacheInv, Purge
<1>7. ASSUME UNCHANGED cacheVars PROVE CacheInv'
  BY <1>7 DEF CacheInv, cacheVars
<1>8. QED
  BY <1>1, <1>2, <1>3, <1>4, <1>5, <1>6, <1>7 DEF CacheNext

\* The invariant of the cache.
THEOREM CacheIsSound == CacheSpec => []CacheInv
BY InitSound, NextSound, PTL DEF CacheSpec

\* The state of the cache has its types.
THEOREM CacheTypes == CacheSpec => []CacheTypeOK
<1>1. CacheInv => CacheTypeOK
  BY DEF CacheInv, Sound, Caches, CacheTypeOK
<1>2. QED
  BY <1>1, CacheIsSound, PTL

\* evictList and items hold the same keys, at most Size of them.
THEOREM ListAndItemsMatch == CacheSpec => []ListMatchesItems
<1>1. CacheInv => ListMatchesItems
  BY DEF CacheInv, Sound, ListMatchesItems
<1>2. QED
  BY <1>1, CacheIsSound, PTL

\* len is the number of live entries, and they are in front: Keys never
\* panics, and an entry is evicted before its time only by live ones.
THEOREM CountIsExact == CacheSpec => []LiveInFront
<1>1. CacheInv => LiveInFront
  BY DEF CacheInv, Sound, LiveInFront
<1>2. QED
  BY <1>1, CacheIsSound, PTL

----------------------------------------------------------------------------
(* The front of a list. *)

\* Take returns the first n elements.
LEMMA TakeProperties ==
  ASSUME NEW s \in Seq(Keys), NEW n \in Nat, n <= Len(s)
  PROVE  /\ Take(s, n) \in Seq(Keys) /\ Len(Take(s, n)) = n
         /\ \A i \in 1..n : Take(s, n)[i] = s[i]
<1>1. Take(s, n) = [i \in 1..n |-> s[i]]
  BY DEF Take
<1>2. \A i \in 1..n : s[i] \in Keys
  OBVIOUS
<1>3. Take(s, n) \in [1..n -> Keys]
  BY <1>1, <1>2
<1>4. QED
  BY <1>1, <1>3

\* Taking more than there is takes everything.
LEMMA TakeAll ==
  ASSUME NEW s \in Seq(Keys), NEW n \in Nat, Len(s) <= n
  PROVE  Take(s, n) = s
<1>1. Take(s, n) = [i \in 1..Len(s) |-> s[i]]
  BY DEF Take
<1>2. QED
  BY <1>1, LenProperties

LEMMA TakeDistinct ==
  ASSUME NEW s \in Seq(Keys), Distinct(s), NEW n \in Nat, n <= Len(s)
  PROVE  Distinct(Take(s, n))
<1>1. Len(Take(s, n)) = n /\ \A i \in 1..n : Take(s, n)[i] = s[i]
  BY TakeProperties
<1>2. \A i \in 1..n : i \in 1..Len(s)
  OBVIOUS
<1>3. QED
  BY <1>1, <1>2 DEF Distinct

\* A key is in the front of a list if its place is.
LEMMA TakeElems ==
  ASSUME NEW s \in Seq(Keys), Distinct(s), NEW n \in Nat, n <= Len(s), NEW k
  PROVE  k \in Elems(Take(s, n)) <=> k \in Elems(s) /\ Place(s, k) <= n
<1>1. Len(Take(s, n)) = n /\ \A i \in 1..n : Take(s, n)[i] = s[i]
  BY TakeProperties
<1>2. ASSUME k \in Elems(Take(s, n)) PROVE k \in Elems(s) /\ Place(s, k) <= n
  <2>1. PICK i \in 1..n : s[i] = k
    BY <1>1, <1>2 DEF Elems
  <2>2. i \in 1..Len(s)
    OBVIOUS
  <2>3. QED
    BY <2>1, <2>2, PlaceUnique DEF Elems
<1>3. ASSUME k \in Elems(s), Place(s, k) <= n PROVE k \in Elems(Take(s, n))
  <2>1. Place(s, k) \in 1..n /\ s[Place(s, k)] = k
    BY <1>3, PlaceOf
  <2>2. QED
    BY <1>1, <2>1 DEF Elems
<1>4. QED
  BY <1>2, <1>3

LEMMA TakePlace ==
  ASSUME NEW s \in Seq(Keys), Distinct(s), NEW n \in Nat, n <= Len(s), NEW k \in Elems(s),
         Place(s, k) <= n
  PROVE  Place(Take(s, n), k) = Place(s, k)
<1>1. /\ Take(s, n) \in Seq(Keys) /\ Len(Take(s, n)) = n
      /\ \A i \in 1..n : Take(s, n)[i] = s[i]
  BY TakeProperties
<1>2. Place(s, k) \in 1..n /\ s[Place(s, k)] = k
  BY PlaceOf
<1>3. Distinct(Take(s, n))
  BY TakeDistinct
<1>4. QED
  BY <1>1, <1>2, <1>3, PlaceUnique

\* Removing an element of the front shortens the front, and one behind it does
\* not touch it.
LEMMA TakeWithout ==
  ASSUME NEW s \in Seq(Keys), Distinct(s), NEW n \in Nat, n <= Len(s), NEW k \in Elems(s)
  PROVE  /\ Place(s, k) <= n => Take(Without(s, k), n - 1) = Without(Take(s, n), k)
         /\ Place(s, k) > n => Take(Without(s, k), n) = Without(Take(s, n), k)
<1> DEFINE t == Take(s, n)
           w == Without(s, k)
           p == Place(s, k)
<1>1. p \in 1..Len(s)
  BY PlaceOf
<1>2. /\ t \in Seq(Keys) /\ Len(t) = n /\ Distinct(t)
      /\ \A i \in 1..n : t[i] = s[i]
  BY TakeProperties, TakeDistinct
<1>3. /\ w \in Seq(Keys) /\ Len(w) = Len(s) - 1
      /\ \A i \in 1..(Len(s) - 1) : w[i] = IF i < p THEN s[i] ELSE s[i + 1]
  BY WithoutProperties
<1>4. CASE p <= n
  <2>1. k \in Elems(t) /\ Place(t, k) = p
    BY <1>4, TakeElems, TakePlace
  <2>2. /\ Without(t, k) \in Seq(Keys) /\ Len(Without(t, k)) = n - 1
        /\ \A i \in 1..(n - 1) : Without(t, k)[i] = IF i < p THEN t[i] ELSE t[i + 1]
    BY <1>2, <2>1, WithoutProperties
  <2>3. n - 1 \in Nat /\ n - 1 <= Len(w)
    BY <1>1, <1>3, <1>4
  <2>4. /\ Take(w, n - 1) \in Seq(Keys) /\ Len(Take(w, n - 1)) = n - 1
        /\ \A i \in 1..(n - 1) : Take(w, n - 1)[i] = w[i]
    BY <1>3, <2>3, TakeProperties
  <2> HIDE DEF t, w, p
  <2>5. \A i \in 1..(n - 1) : Take(w, n - 1)[i] = Without(t, k)[i]
    <3> SUFFICES ASSUME NEW i \in 1..(n - 1) PROVE Take(w, n - 1)[i] = Without(t, k)[i]
      OBVIOUS
    <3>1. i \in 1..n /\ i + 1 \in 1..n /\ i \in 1..(Len(s) - 1)
      OBVIOUS
    <3>2. Take(w, n - 1)[i] = IF i < p THEN s[i] ELSE s[i + 1]
      BY <1>3, <2>4, <3>1
    <3>3. Without(t, k)[i] = IF i < p THEN s[i] ELSE s[i + 1]
      BY <1>2, <2>2, <3>1
    <3>4. QED
      BY <3>2, <3>3
  <2>6. Take(w, n - 1) = Without(t, k)
    BY <2>2, <2>4, <2>5, SeqEqual
  <2>7. QED
    BY <2>6, <1>1, <1>4 DEF t, w, p
<1>5. CASE p > n
  <2>1. Without(t, k) = t
    BY <1>1, <1>5, TakeElems DEF Without
  <2>2. n <= Len(w)
    BY <1>1, <1>3, <1>5
  <2>3. /\ Take(w, n) \in Seq(Keys) /\ Len(Take(w, n)) = n
        /\ \A i \in 1..n : Take(w, n)[i] = w[i]
    BY <1>3, <2>2, TakeProperties
  <2> HIDE DEF t, w, p
  <2>4. \A i \in 1..n : Take(w, n)[i] = t[i]
    BY <1>1, <1>2, <1>3, <1>5, <2>3
  <2>5. Take(w, n) = t
    BY <1>2, <2>3, <2>4, SeqEqual
  <2>6. QED
    BY <2>1, <2>5, <1>1, <1>5 DEF t, w, p
<1>6. QED
  BY <1>1, <1>4, <1>5

\* Moving an element of the front to its head keeps its length; any other
\* element that moves there makes it longer.
LEMMA TakeFront ==
  ASSUME NEW s \in Seq(Keys), Distinct(s), NEW n \in Nat, n <= Len(s), NEW k \in Keys
  PROVE  /\ k \in Elems(Take(s, n)) => Take(Front(s, k), n) = Front(Take(s, n), k)
         /\ k \notin Elems(Take(s, n)) => Take(Front(s, k), n + 1) = Front(Take(s, n), k)
<1> DEFINE t == Take(s, n)
           f == Front(s, k)
           h == Front(t, k)
           p == Place(s, k)
           m == IF k \in Elems(t) THEN n ELSE n + 1
<1>1. k \in Elems(s) => p \in 1..Len(s)
  BY PlaceOf
<1>2. /\ t \in Seq(Keys) /\ Len(t) = n /\ Distinct(t)
      /\ \A i \in 1..n : t[i] = s[i]
  BY TakeProperties, TakeDistinct
<1>3. /\ f \in Seq(Keys) /\ Len(f) = (IF k \in Elems(s) THEN Len(s) ELSE Len(s) + 1)
      /\ f[1] = k
      /\ \A i \in 2..Len(f) : f[i] = IF k \in Elems(s) /\ i > p THEN s[i] ELSE s[i - 1]
  BY FrontProperties
<1>4. /\ h \in Seq(Keys) /\ Len(h) = m /\ h[1] = k
      /\ \A i \in 2..m : h[i] = IF k \in Elems(t) /\ i > Place(t, k) THEN t[i] ELSE t[i - 1]
  <2> HIDE DEF t
  <2>1. /\ h \in Seq(Keys) /\ Len(h) = (IF k \in Elems(t) THEN Len(t) ELSE Len(t) + 1)
        /\ h[1] = k
        /\ \A i \in 2..Len(h) : h[i] = IF k \in Elems(t) /\ i > Place(t, k) THEN t[i] ELSE t[i - 1]
    BY <1>2, FrontProperties
  <2> HIDE DEF h
  <2>2. QED
    BY <2>1, <1>2
<1>5. /\ k \in Elems(t) <=> k \in Elems(s) /\ p <= n
      /\ k \in Elems(t) => Place(t, k) = p
  BY TakeElems, TakePlace
<1>6. m \in Nat /\ m <= Len(f) /\ (m > 0 => m >= 1)
  BY <1>1, <1>3, <1>5
<1>7. /\ Take(f, m) \in Seq(Keys) /\ Len(Take(f, m)) = m
      /\ \A i \in 1..m : Take(f, m)[i] = f[i]
  BY <1>3, <1>6, TakeProperties
<1>8. Take(f, m) = h
  <2> HIDE DEF f, t, h, p
  <2>1. ASSUME NEW i \in 1..m PROVE f[i] = h[i]
    <3>1. CASE i = 1
      BY <3>1, <1>3, <1>4
    <3>2. CASE i # 1 /\ k \in Elems(t)
      BY <3>2, <1>1, <1>2, <1>3, <1>4, <1>5
    <3>3. CASE i # 1 /\ k \notin Elems(t)
      <4>1. i \in 2..m /\ i \in 2..Len(f) /\ i - 1 \in 1..n
        BY <3>3, <1>3, <1>6
      <4>2. ~(k \in Elems(s) /\ i > p)
        BY <3>3, <4>1, <1>1, <1>5
      <4>3. f[i] = s[i - 1]
        BY <4>1, <4>2, <1>3
      <4>4. h[i] = t[i - 1]
        BY <3>3, <4>1, <1>4
      <4>5. QED
        BY <4>1, <4>3, <4>4, <1>2
    <3>4. QED
      BY <3>1, <3>2, <3>3
  <2> HIDE DEF m
  <2>2. QED
    BY <2>1, <1>4, <1>7, SeqEqual
<1>9. QED
  BY <1>8

----------------------------------------------------------------------------
(* The live entries. *)

\* The live keys are those of live entries.
LEMMA LiveFacts ==
  ASSUME NEW n \in Nat, NEW c, Sound(c, n)
  PROVE  /\ LiveKeys(c) \in Seq(Keys) /\ Distinct(LiveKeys(c)) /\ Len(LiveKeys(c)) = c.len
         /\ c.len \in Nat
         /\ \A k : k \in Elems(LiveKeys(c)) <=> Live(c, k)
         /\ \A k : k \in Elems(LiveKeys(c)) <=> k \in Elems(c.evictList) /\ Place(c.evictList, k) <= c.len
<1> DEFINE s == c.evictList
<1>1. c \in Caches
  BY DEF Sound
<1>2. s \in Seq(Keys) /\ c.len \in Nat /\ c.len <= Len(s) /\ Distinct(s) /\ Elems(s) = DOMAIN c.items
  BY <1>1, CacheFields DEF Sound
<1>3. LiveKeys(c) \in Seq(Keys) /\ Distinct(LiveKeys(c)) /\ Len(LiveKeys(c)) = c.len
  BY <1>2, TakeProperties, TakeDistinct DEF LiveKeys
<1>4. \A k : k \in Elems(LiveKeys(c)) <=> k \in Elems(s) /\ Place(s, k) <= c.len
  BY <1>2, TakeElems DEF LiveKeys
<1>5. ASSUME NEW k PROVE Live(c, k) <=> k \in Elems(s) /\ Place(s, k) <= c.len
  <2>1. CASE k \in Elems(s)
    <3>1. Place(s, k) \in 1..Len(s) /\ s[Place(s, k)] = k
      BY <1>2, <2>1, PlaceOf
    <3>2. QED
      BY <3>1, <2>1 DEF Sound
  <2>2. CASE k \notin Elems(s)
    BY <2>2, <1>2 DEF Live, Present
  <2>3. QED
    BY <2>1, <2>2
<1>6. QED
  BY <1>2, <1>3, <1>4, <1>5

\* Taking an element out takes its key out of the live keys.
LEMMA RemoveElementLive ==
  ASSUME NEW n \in Nat, NEW c, Sound(c, n), NEW k, Present(c, k)
  PROVE  /\ LiveKeys(RemoveElement(c, k)) = Without(LiveKeys(c), k)
         /\ \A x \in DOMAIN RemoveElement(c, k).items : RemoveElement(c, k).items[x] = c.items[x]
<1> DEFINE s == c.evictList
<1>1. c \in Caches
  BY DEF Sound
<1>2. s \in Seq(Keys) /\ c.len \in Nat /\ c.len <= Len(s) /\ Distinct(s) /\ k \in Elems(s)
  BY <1>1, CacheFields DEF Sound, Present
<1>3. Live(c, k) <=> Place(s, k) <= c.len
  BY <1>2, LiveFacts
<1>4. /\ RemoveElement(c, k).evictList = Without(s, k)
      /\ RemoveElement(c, k).len = IF Live(c, k) THEN c.len - 1 ELSE c.len
      /\ RemoveElement(c, k).items = [x \in DOMAIN c.items \ {k} |-> c.items[x]]
  BY DEF RemoveElement
<1>5. Place(s, k) \in Nat
  BY <1>2, PlaceOf
<1>6. QED
  BY <1>2, <1>3, <1>4, <1>5, TakeWithout DEF LiveKeys

\* Storing a value puts its key in front of the live keys.
LEMMA StoredLive ==
  ASSUME NEW n \in Nat, NEW c, Sound(c, n), NEW k \in Keys, NEW v, NEW e
  PROVE  LiveKeys(Stored(c, k, v, e)) = Front(LiveKeys(c), k)
<1> DEFINE s == c.evictList
<1>1. c \in Caches
  BY DEF Sound
<1>2. s \in Seq(Keys) /\ c.len \in Nat /\ c.len <= Len(s) /\ Distinct(s)
  BY <1>1, CacheFields DEF Sound
<1>3. Live(c, k) <=> k \in Elems(Take(s, c.len))
  BY LiveFacts DEF LiveKeys
<1>4. /\ Stored(c, k, v, e).evictList = Front(s, k)
      /\ Stored(c, k, v, e).len = IF Live(c, k) THEN c.len ELSE c.len + 1
  BY DEF Stored
<1>5. QED
  BY <1>2, <1>3, <1>4, TakeFront DEF LiveKeys

\* Eviction cuts the live keys to the size.
LEMMA EvictedLive ==
  ASSUME NEW c, Sound(c, Size + 1)
  PROVE  /\ LiveKeys(Evicted(c)) = Take(LiveKeys(c), Size)
         /\ \A x \in DOMAIN Evicted(c).items : Evicted(c).items[x] = c.items[x]
<1> DEFINE s == c.evictList
           t == LiveKeys(c)
           b == s[Len(s)]
<1>0. Size \in Nat /\ Size + 1 \in Nat
  BY LruCacheAssumption
<1>1. c \in Caches
  BY DEF Sound
<1>2. /\ s \in Seq(Keys) /\ Len(s) \in Nat /\ c.len \in Nat /\ c.len <= Len(s) /\ Distinct(s)
      /\ Len(s) <= Size + 1 /\ Elems(s) = DOMAIN c.items
  BY <1>1, CacheFields DEF Sound
<1>3. t \in Seq(Keys) /\ Distinct(t) /\ Len(t) = c.len
      /\ \A k : k \in Elems(t) <=> k \in Elems(s) /\ Place(s, k) <= c.len
  BY <1>0, LiveFacts
<1>4. CASE Len(s) > Size
  <2>1. Len(s) = Size + 1 /\ Len(s) \in 1..Len(s)
    BY <1>0, <1>2, <1>4
  <2>2. b \in Elems(s) /\ Place(s, b) = Size + 1 /\ Present(c, b)
    BY <1>2, <2>1, PlaceUnique DEF Elems, Present
  <2>3. Evicted(c) = RemoveElement(c, b)
    BY <1>4 DEF Evicted
  <2>4. LiveKeys(Evicted(c)) = Without(t, b)
    BY <1>0, <2>2, <2>3, RemoveElementLive
  <2>5. CASE c.len = Size + 1
    <3>1. t = s
      BY <1>2, <2>1, <2>5, TakeAll DEF LiveKeys
    <3>2. /\ Without(s, b) \in Seq(Keys) /\ Len(Without(s, b)) = Size
          /\ \A i \in 1..Size : Without(s, b)[i] = s[i]
      <4>1. /\ Without(s, b) \in Seq(Keys) /\ Len(Without(s, b)) = Len(s) - 1
            /\ \A i \in 1..(Len(s) - 1) :
                 Without(s, b)[i] = IF i < Place(s, b) THEN s[i] ELSE s[i + 1]
        BY <1>2, <2>2, WithoutProperties
      <4> HIDE DEF b, s
      <4>2. QED
        BY <4>1, <1>0, <2>1, <2>2
    <3>3. /\ Take(s, Size) \in Seq(Keys) /\ Len(Take(s, Size)) = Size
          /\ \A i \in 1..Size : Take(s, Size)[i] = s[i]
      BY <1>0, <1>2, <2>1, TakeProperties
    <3> HIDE DEF b, s
    <3>4. Without(s, b) = Take(s, Size)
      BY <3>2, <3>3, SeqEqual
    <3>5. QED
      BY <3>1, <3>4, <2>3, <2>4, <1>0, <2>2, RemoveElementLive DEF b, s
  <2>6. CASE c.len <= Size
    <3>1. b \notin Elems(t)
      BY <1>0, <1>2, <1>3, <2>2, <2>6
    <3>2. Without(t, b) = t /\ Take(t, Size) = t
      BY <1>0, <1>3, <2>6, <3>1, TakeAll DEF Without
    <3>3. QED
      BY <3>2, <2>3, <2>4, <1>0, <2>2, RemoveElementLive
  <2>7. QED
    BY <1>0, <1>2, <2>1, <2>5, <2>6
<1>5. CASE ~(Len(s) > Size)
  <2>1. Evicted(c) = c
    BY <1>5 DEF Evicted
  <2>2. Take(t, Size) = t
    BY <1>0, <1>2, <1>3, <1>5, TakeAll
  <2>3. QED
    BY <2>1, <2>2
<1>6. QED
  BY <1>4, <1>5

\* Adding is Put of the map.
LEMMA AddToLive ==
  ASSUME NEW c, Sound(c, Size), NEW k \in Keys, NEW v \in Values, NEW e \in {"never", "later"}
  PROVE  /\ LiveKeys(AddTo(c, k, v, e)) = Take(Front(LiveKeys(c), k), Size)
         /\ LiveContent(AddTo(c, k, v, e)) =
              [x \in Elems(Take(Front(LiveKeys(c), k), Size)) |->
                 IF x = k THEN [value |-> v, expires |-> e] ELSE LiveContent(c)[x]]
<1> DEFINE r == AddTo(c, k, v, e)
           q == Stored(c, k, v, e)
           t == LiveKeys(c)
<1>0. Size \in Nat /\ Size + 1 \in Nat
  BY LruCacheAssumption
<1>1. LiveKeys(q) = Front(t, k)
  BY <1>0, StoredLive
<1>2. /\ Sound(q, Size + 1) /\ (Present(c, k) => Sound(q, Size))
      /\ Sound(r, Size)
  BY <1>0, StoredSound, AddToSound
<1>3. LiveKeys(r) = Take(Front(t, k), Size)
  <2>1. CASE Present(c, k)
    <3>1. r = q /\ Sound(q, Size)
      BY <1>2, <2>1 DEF AddTo
    <3>2. LiveKeys(q) \in Seq(Keys) /\ Len(LiveKeys(q)) = q.len
      BY <1>0, <3>1, LiveFacts
    <3>3. q.len <= Size
      <4>1. q.evictList \in Seq(Keys) /\ q.len \in Nat
        BY <3>1, CacheFields DEF Sound
      <4> HIDE DEF q
      <4>2. QED
        BY <1>0, <3>1, <4>1 DEF Sound
    <3> HIDE DEF q, r
    <3>4. QED
      BY <1>0, <1>1, <3>1, <3>2, <3>3, TakeAll
  <2>2. CASE ~Present(c, k)
    <3>1. r = Evicted(q)
      BY <2>2 DEF AddTo
    <3> HIDE DEF q, r
    <3>2. QED
      BY <1>1, <1>2, <3>1, EvictedLive
  <2>3. QED
    BY <2>1, <2>2
<1>4. /\ r.generation = c.generation
      /\ \A x \in DOMAIN r.items : /\ x \in DOMAIN c.items \union {k}
                                 /\ r.items[x] = IF x = k
                                      THEN [value |-> v, expires |-> e, generation |-> c.generation]
                                      ELSE c.items[x]
  <2>1. /\ q.generation = c.generation
        /\ \A x \in DOMAIN q.items : /\ x \in DOMAIN c.items \union {k}
                                   /\ q.items[x] = IF x = k
                                        THEN [value |-> v, expires |-> e, generation |-> c.generation]
                                        ELSE c.items[x]
    BY DEF Stored
  <2>2. /\ Evicted(q).generation = q.generation
        /\ DOMAIN Evicted(q).items \subseteq DOMAIN q.items
        /\ \A x \in DOMAIN Evicted(q).items : Evicted(q).items[x] = q.items[x]
    <3>1. DOMAIN Evicted(q).items \subseteq DOMAIN q.items /\ Evicted(q).generation = q.generation
      <4> HIDE DEF q
      <4>1. QED
        BY DEF Evicted, RemoveElement
    <3>2. QED
      BY <1>2, <3>1, EvictedLive
  <2>3. r = q \/ r = Evicted(q)
    BY DEF AddTo
  <2> HIDE DEF q, r
  <2>4. QED
    BY <2>1, <2>2, <2>3
<1>5. ASSUME NEW x \in Elems(LiveKeys(r))
      PROVE  LiveContent(r)[x] = IF x = k THEN [value |-> v, expires |-> e] ELSE LiveContent(c)[x]
  <2>1. Live(r, x)
    BY <1>0, <1>2, <1>5, LiveFacts
  <2>2. x \in DOMAIN r.items /\ r.items[x].generation = c.generation
    BY <2>1, <1>4 DEF Live, Present
  <2>3. LiveContent(r)[x] = [value |-> r.items[x].value, expires |-> r.items[x].expires]
    BY <1>5 DEF LiveContent
  <2> HIDE DEF r
  <2>4. CASE x = k
    BY <1>4, <2>2, <2>3, <2>4
  <2>5. CASE x # k
    <3>1. x \in DOMAIN c.items /\ r.items[x] = c.items[x]
      BY <1>4, <2>2, <2>5
    <3>2. Live(c, x)
      BY <3>1, <2>2 DEF Live, Present
    <3>3. x \in Elems(LiveKeys(c))
      BY <1>0, <3>2, LiveFacts
    <3>4. LiveContent(c)[x] = [value |-> c.items[x].value, expires |-> c.items[x].expires]
      BY <3>3 DEF LiveContent
    <3>5. QED
      BY <2>3, <2>5, <3>1, <3>4
  <2>6. QED
    BY <2>4, <2>5
<1>6. LiveContent(r) = [x \in Elems(LiveKeys(r)) |->
                          IF x = k THEN [value |-> v, expires |-> e] ELSE LiveContent(c)[x]]
  <2>1. LiveContent(r) = [x \in Elems(LiveKeys(r)) |-> LiveContent(r)[x]]
    BY DEF LiveContent
  <2> HIDE DEF r
  <2>2. QED
    BY <1>5, <2>1
<1>7. QED
  BY <1>3, <1>6

\* A successful lookup moves the key to the front of the live keys; a failed one
\* leaves the live keys without it.
LEMMA GetValueLive ==
  ASSUME NEW c, Sound(c, Size), NEW k \in Keys
  PROVE  /\ Valid(c, k) => /\ LiveKeys(GetValue(c, k)) = Front(LiveKeys(c), k)
                           /\ LiveContent(GetValue(c, k)) = LiveContent(c)
         /\ ~Valid(c, k) => /\ LiveKeys(GetValue(c, k)) = Without(LiveKeys(c), k)
                            /\ LiveContent(GetValue(c, k)) =
                                 [x \in Elems(Without(LiveKeys(c), k)) |-> LiveContent(c)[x]]
<1> DEFINE s == c.evictList
           t == LiveKeys(c)
           r == GetValue(c, k)
<1>0. Size \in Nat
  BY LruCacheAssumption
<1>1. c \in Caches
  BY DEF Sound
<1>2. s \in Seq(Keys) /\ Distinct(s) /\ c.len \in Nat /\ c.len <= Len(s)
  BY <1>1, CacheFields DEF Sound
<1>3. t \in Seq(Keys) /\ Distinct(t) /\ \A x : x \in Elems(t) <=> Live(c, x)
  BY <1>0, LiveFacts
<1>4. CASE Valid(c, k)
  <2>1. k \in Elems(Take(s, c.len))
    BY <1>3, <1>4 DEF Valid, LiveKeys
  <2>2. r.evictList = Front(s, k) /\ r.items = c.items /\ r.len = c.len
    BY <1>1, <1>4 DEF GetValue, Caches
  <2>3. LiveKeys(r) = Front(t, k)
    BY <1>2, <2>1, <2>2, TakeFront DEF LiveKeys
  <2>4. Elems(Front(t, k)) = Elems(t)
    <3>1. k \in Elems(t) /\ Elems(Front(t, k)) = Elems(t) \union {k}
      BY <1>3, <1>4, FrontProperties DEF Valid
    <3> HIDE DEF t
    <3>2. QED
      BY <3>1
  <2>5. LiveContent(r) = LiveContent(c)
    BY <2>2, <2>3, <2>4 DEF LiveContent
  <2>6. QED
    BY <1>4, <2>3, <2>5
<1>5. CASE ~Valid(c, k) /\ Present(c, k)
  <2>1. r = RemoveElement(c, k)
    BY <1>5 DEF GetValue
  <2>2. LiveKeys(r) = Without(t, k) /\ \A x \in DOMAIN r.items : r.items[x] = c.items[x]
    BY <1>0, <1>5, <2>1, RemoveElementLive
  <2>3. Elems(Without(t, k)) = Elems(t) \ {k}
    BY <1>3, WithoutElems
  <2>4. DOMAIN r.items = DOMAIN c.items \ {k}
    BY <2>1 DEF RemoveElement
  <2>5. \A x \in Elems(Without(t, k)) : x \in DOMAIN r.items /\ x \in Elems(t)
    BY <1>3, <2>3, <2>4 DEF Live, Present
  <2> HIDE DEF r, t
  <2>6. LiveContent(r) = [x \in Elems(Without(t, k)) |-> LiveContent(c)[x]]
    BY <2>2, <2>5 DEF LiveContent, t
  <2>7. QED
    BY <1>5, <2>2, <2>6 DEF r, t
<1>6. CASE ~Valid(c, k) /\ ~Present(c, k)
  <2>1. r = c
    BY <1>6 DEF GetValue
  <2>2. Without(t, k) = t
    BY <1>3, <1>6 DEF Without, Live
  <2>3. LiveContent(c) = [x \in Elems(t) |-> LiveContent(c)[x]]
    BY DEF LiveContent
  <2>4. QED
    BY <1>6, <2>1, <2>2, <2>3
<1>7. QED
  BY <1>4, <1>5, <1>6

----------------------------------------------------------------------------
(* The cache implements the map. *)

LEMMA ContentTyped ==
  ASSUME NEW v \in Values, NEW e \in {"never", "later"}
  PROVE  /\ [value |-> v, expires |-> e] \in Map!Contents
         /\ [value |-> v, expires |-> e].expires # "past"
         /\ [value |-> v, expires |-> e].value = v
BY DEF Map!Contents

\* The map uses the same operations on lists.
LEMMA SameLists ==
  /\ \A s : Map!Elems(s) = Elems(s)
  /\ \A s, k : Map!Without(s, k) = Without(s, k)
  /\ \A s, k : Map!Front(s, k) = Front(s, k)
  /\ \A s, n : Map!Take(s, n) = Take(s, n)
BY DEF Map!Elems, Elems, Map!Place, Place, Map!Without, Without, Map!Push, Push, Map!Front, Front,
       Map!Take, Take

\* A key is fresh in the map if and only if the cache finds it.
LEMMA FreshIsValid ==
  ASSUME Sound(cache, Size), NEW k
  PROVE  /\ Map!Fresh(k) <=> Valid(cache, k)
         /\ Valid(cache, k) => Map!Hit(k) = Hit(cache, k)
<1>1. k \in Elems(LiveKeys(cache)) <=> Live(cache, k)
  BY LiveFacts, LruCacheAssumption
<1>2. k \in Elems(LiveKeys(cache)) =>
        LiveContent(cache)[k] = [value |-> cache.items[k].value, expires |-> cache.items[k].expires]
  BY DEF LiveContent
<1>3. Map!Fresh(k) <=> k \in Elems(LiveKeys(cache)) /\ LiveContent(cache)[k].expires # "past"
  BY SameLists DEF Map!Fresh
<1>4. CASE Live(cache, k)
  <2>1. LiveContent(cache)[k].expires = cache.items[k].expires /\
        LiveContent(cache)[k].value = cache.items[k].value
    BY <1>1, <1>2, <1>4
  <2>2. Valid(cache, k) <=> cache.items[k].expires # "past"
    BY <1>4 DEF Valid
  <2>3. Map!Hit(k) = Hit(cache, k)
    BY <2>1 DEF Map!Hit, Hit
  <2>4. QED
    BY <1>1, <1>3, <1>4, <2>1, <2>2, <2>3
<1>5. CASE ~Live(cache, k)
  BY <1>1, <1>3, <1>5 DEF Valid
<1>6. QED
  BY <1>4, <1>5

LEMMA InitMaps == CacheInit => Map!MapInit
<1> SUFFICES ASSUME CacheInit PROVE Map!MapInit
  OBVIOUS
<1>1. cache.evictList = <<>> /\ cache.len = 0 /\ answer = Miss
  BY DEF CacheInit, New
<1>2. LiveKeys(cache) = <<>>
  BY <1>1 DEF LiveKeys, Take
<1>3. Elems(<<>>) = {}
  BY DEF Elems
<1>4. LiveContent(cache) = [k \in {} |-> Map!Miss]
  BY <1>2, <1>3 DEF LiveContent
<1>5. QED
  BY <1>1, <1>2, <1>4 DEF Map!MapInit, Map!Miss, Miss

LEMMA PutMaps ==
  ASSUME Sound(cache, Size), NEW k \in Keys, NEW v \in Values, NEW e \in {"never", "later"},
         cache' = AddTo(cache, k, v, e)
  PROVE  Map!Put(k, [value |-> v, expires |-> e])
<1>1. LiveKeys(cache)' = LiveKeys(cache') /\ LiveContent(cache)' = LiveContent(cache')
  BY DEF LiveKeys, LiveContent
<1>2. QED
  BY <1>1, AddToLive, SameLists DEF Map!Put, Map!Holding

LEMMA NextMaps == CacheInv /\ [CacheNext]_cacheVars => [Map!MapNext]_(Map!mapVars)
<1> SUFFICES ASSUME CacheInv, [CacheNext]_cacheVars PROVE [Map!MapNext]_(Map!mapVars)
  OBVIOUS
<1>0. Sound(cache, Size) /\ Size \in Nat
  BY LruCacheAssumption DEF CacheInv
<1>1. LiveKeys(cache)' = LiveKeys(cache') /\ LiveContent(cache)' = LiveContent(cache')
  BY DEF LiveKeys, LiveContent
<1>2. ASSUME NEW k \in Keys, Get(k) PROVE Map!MapNext
  <2>1. CASE Valid(cache, k)
    BY <1>0, <1>1, <1>2, <2>1, GetValueLive, FreshIsValid, SameLists DEF Get, Map!Use, Map!MapGet, Map!MapNext
  <2>2. CASE ~Valid(cache, k)
    BY <1>0, <1>1, <1>2, <2>2, GetValueLive, FreshIsValid, SameLists
    DEF Get, Miss, Map!Miss, Map!Forget, Map!MapGet, Map!MapNext
  <2>3. QED
    BY <2>1, <2>2
<1>3. ASSUME NEW k \in Keys, CacheRemove(k) PROVE Map!MapNext
  <2> DEFINE t == LiveKeys(cache)
  <2>1. LiveKeys(cache') = Without(t, k) /\
        LiveContent(cache') = [x \in Elems(Without(t, k)) |-> LiveContent(cache)[x]]
    <3>1. t \in Seq(Keys) /\ Distinct(t) /\ \A x : x \in Elems(t) <=> Live(cache, x)
      BY <1>0, LiveFacts
    <3>2. CASE Present(cache, k)
      <4>1. cache' = RemoveElement(cache, k)
        BY <1>3, <3>2 DEF CacheRemove
      <4>2. /\ LiveKeys(cache') = Without(t, k)
            /\ \A x \in DOMAIN cache'.items : cache'.items[x] = cache.items[x]
        BY <1>0, <3>2, <4>1, RemoveElementLive
      <4>3. DOMAIN cache'.items = DOMAIN cache.items \ {k}
        BY <4>1 DEF RemoveElement
      <4>4. Elems(Without(t, k)) = Elems(t) \ {k}
        BY <3>1, WithoutElems
      <4>5. \A x \in Elems(Without(t, k)) : x \in DOMAIN cache'.items /\ x \in Elems(t)
        BY <3>1, <4>3, <4>4 DEF Live, Present
      <4> HIDE DEF t
      <4>6. QED
        BY <4>2, <4>5 DEF LiveContent, t
    <3>3. CASE ~Present(cache, k)
      <4>1. cache' = cache /\ Without(t, k) = t
        BY <1>3, <3>1, <3>3 DEF CacheRemove, Without, Live
      <4>2. LiveContent(cache) = [x \in Elems(t) |-> LiveContent(cache)[x]]
        BY DEF LiveContent
      <4>3. QED
        BY <4>1, <4>2
    <3>4. QED
      BY <3>2, <3>3
  <2>2. Map!Forget(k)
    BY <1>1, <1>3, <2>1, SameLists DEF Map!Forget, CacheRemove, Miss, Map!Miss
  <2>3. QED
    BY <2>2 DEF Map!MapNext
<1>4. ASSUME NEW k \in Keys, Expire(k) PROVE [Map!MapNext]_(Map!mapVars)
  <2> DEFINE t == LiveKeys(cache)
  <2>1. k \in DOMAIN cache.items /\ cache.items[k].expires = "later" /\ cache \in Caches
    BY <1>0, <1>4 DEF Expire, Present, Sound
  <2>2. /\ cache'.evictList = cache.evictList /\ cache'.len = cache.len
        /\ cache'.items = [cache.items EXCEPT ![k].expires = "past"]
    BY <1>4, <2>1 DEF Expire, Caches
  <2>3. LiveKeys(cache') = t
    BY <2>2 DEF LiveKeys
  <2>4. \A x \in Elems(t) : x \in DOMAIN cache.items /\ (x = k => Live(cache, k))
    BY <1>0, LiveFacts DEF Live, Present
  <2>5. cache.items[k] \in EntriesOf(Values)
    BY <2>1, CacheFields
  <2>6. /\ cache'.items[k].value = cache.items[k].value /\ cache'.items[k].expires = "past"
        /\ \A x \in DOMAIN cache.items : x # k => cache'.items[x] = cache.items[x]
    BY <2>1, <2>2, <2>5 DEF EntriesOf
  <2>7. /\ DOMAIN LiveContent(cache) = Elems(t)
        /\ \A x \in Elems(t) : LiveContent(cache)[x] =
             [value |-> cache.items[x].value, expires |-> cache.items[x].expires]
    BY DEF LiveContent
  <2>8. LiveContent(cache') = [x \in Elems(t) |->
             [value |-> cache'.items[x].value, expires |-> cache'.items[x].expires]]
    BY <2>3 DEF LiveContent
  <2>9. CASE k \in Elems(t)
    <3>1. LiveContent(cache') = [LiveContent(cache) EXCEPT ![k].expires = "past"]
      <4>1. [LiveContent(cache) EXCEPT ![k].expires = "past"] =
              [x \in Elems(t) |-> IF x = k THEN [LiveContent(cache)[k] EXCEPT !.expires = "past"]
                                  ELSE LiveContent(cache)[x]]
        BY <2>7, <2>9
      <4>2. [LiveContent(cache)[k] EXCEPT !.expires = "past"] =
              [value |-> cache'.items[k].value, expires |-> cache'.items[k].expires]
        BY <2>6, <2>7, <2>9
      <4>3. \A x \in Elems(t) : x # k => LiveContent(cache)[x] =
              [value |-> cache'.items[x].value, expires |-> cache'.items[x].expires]
        BY <2>4, <2>6, <2>7
      <4> HIDE DEF t
      <4>4. QED
        BY <2>8, <4>1, <4>2, <4>3
    <3>2. Map!Fresh(k) /\ LiveContent(cache)[k].expires = "later"
      BY <2>1, <2>7, <2>9, SameLists DEF Map!Fresh
    <3>3. Map!MapExpire(k)
      BY <1>1, <1>4, <2>3, <3>1, <3>2 DEF Map!MapExpire, Expire
    <3>4. QED
      BY <3>3 DEF Map!MapNext
  <2>10. CASE k \notin Elems(t)
    <3>1. \A x \in Elems(t) : cache'.items[x] = cache.items[x]
      BY <2>4, <2>6, <2>10
    <3>2. LiveContent(cache') = LiveContent(cache)
      <4> HIDE DEF t
      <4>1. QED
        BY <2>8, <3>1 DEF LiveContent, t
    <3>3. QED
      BY <1>1, <1>4, <2>3, <3>2 DEF Map!mapVars, Expire
  <2>11. QED
    BY <2>9, <2>10
<1>5. ASSUME NEW k \in Keys, NEW v \in Values, NEW e \in {"never", "later"}, CacheAdd(k, v, e)
      PROVE  Map!MapNext
  <2>1. Map!MapAdd(k, [value |-> v, expires |-> e])
    BY <1>0, <1>5, PutMaps DEF CacheAdd, Map!MapAdd, Miss, Map!Miss
  <2>2. QED
    BY <2>1, ContentTyped DEF Map!MapNext
<1>6. ASSUME NEW k \in Keys, NEW v \in Values, NEW e \in {"never", "later"}, GetOrAdd(k, v, e)
      PROVE  Map!MapNext
  <2> DEFINE d == [value |-> v, expires |-> e]
             t == LiveKeys(cache)
  <2>1. CASE Valid(cache, k)
    <3>1. Map!Use(k)
      BY <1>0, <1>1, <1>6, <2>1, GetValueLive, FreshIsValid, SameLists DEF GetOrAdd, Map!Use
    <3>2. QED
      BY <3>1 DEF Map!MapGet, Map!MapNext
  <2>2. CASE ~Valid(cache, k)
    <3> DEFINE c == GetValue(cache, k)
    <3>1. /\ cache' = AddTo(c, k, v, e) /\ answer' = [value |-> v, loaded |-> FALSE]
      BY <1>6, <2>2 DEF GetOrAdd
    <3>2. /\ Sound(c, Size) /\ LiveKeys(c) = Without(t, k)
          /\ LiveContent(c) = [x \in Elems(Without(t, k)) |-> LiveContent(cache)[x]]
      BY <1>0, <2>2, GetValueSound, GetValueLive
    <3>3. t \in Seq(Keys) /\ Distinct(t)
      BY <1>0, LiveFacts
    <3>4. /\ Without(t, k) \in Seq(Keys) /\ Distinct(Without(t, k))
          /\ Elems(Without(t, k)) = Elems(t) \ {k}
      BY <3>3, WithoutElems
    <3> HIDE DEF c, t
    <3>5. Front(Without(t, k), k) = Front(t, k)
      <4>1. k \notin Elems(Without(t, k))
        BY <3>4
      <4>2. Without(Without(t, k), k) = Without(t, k)
        BY <4>1 DEF Without
      <4>3. QED
        BY <4>2 DEF Front
    <3> DEFINE n == Take(Front(t, k), Size)
    <3>6. /\ LiveKeys(cache') = n
          /\ LiveContent(cache') = [x \in Elems(n) |-> IF x = k THEN d ELSE LiveContent(c)[x]]
      BY <3>1, <3>2, <3>5, AddToLive
    <3>7. \A x \in Elems(n) : x # k => x \in Elems(Without(t, k))
      <4>1. /\ Front(t, k) \in Seq(Keys) /\ Distinct(Front(t, k))
            /\ Elems(Front(t, k)) = Elems(t) \union {k}
        BY <3>3, FrontProperties
      <4>2. CASE Size <= Len(Front(t, k))
        BY <1>0, <3>4, <4>1, <4>2, TakeElems
      <4>3. CASE ~(Size <= Len(Front(t, k)))
        <5>1. n = Front(t, k)
          BY <1>0, <4>1, <4>3, TakeAll
        <5>2. QED
          BY <3>4, <4>1, <5>1
      <4>4. QED
        BY <4>2, <4>3
    <3> HIDE DEF n, d
    <3>8. LiveContent(cache') = [x \in Elems(n) |-> IF x = k THEN d ELSE LiveContent(cache)[x]]
      BY <3>2, <3>6, <3>7
    <3>9. Map!Put(k, d)
      BY <1>1, <3>6, <3>8, SameLists DEF Map!Put, Map!Holding, n, t
    <3>10. d.value = v /\ d \in Map!Contents /\ d.expires # "past"
      BY ContentTyped DEF d
    <3>11. Map!MapGetOrAdd(k, d)
      BY <1>0, <2>2, <3>1, <3>9, <3>10, FreshIsValid DEF Map!MapGetOrAdd
    <3>12. QED
      BY <3>10, <3>11 DEF Map!MapNext
  <2>3. QED
    BY <2>1, <2>2
<1>7. ASSUME Purge PROVE Map!MapNext
  <2>1. cache'.len = 0 /\ cache'.evictList = cache.evictList /\ answer' = Miss
    BY <1>7 DEF Purge, NextGeneration
  <2>2. cache.evictList \in Seq(Keys)
    BY <1>0, CacheFields DEF Sound
  <2>3. LiveKeys(cache') \in Seq(Keys) /\ Len(LiveKeys(cache')) = 0
    BY <2>1, <2>2, TakeProperties DEF LiveKeys
  <2>4. LiveKeys(cache') = <<>>
    BY <2>3, EmptySeq
  <2>5. LiveContent(cache') = [k \in {} |-> Map!Miss]
    BY <2>4 DEF LiveContent, Elems
  <2>6. Map!MapPurge
    BY <1>1, <2>1, <2>4, <2>5 DEF Map!MapPurge, Miss, Map!Miss
  <2>7. QED
    BY <2>6 DEF Map!MapNext
<1>8. ASSUME UNCHANGED cacheVars PROVE UNCHANGED Map!mapVars
  BY <1>8 DEF cacheVars, Map!mapVars, LiveKeys, LiveContent
<1>9. QED
  BY <1>2, <1>3, <1>4, <1>5, <1>6, <1>7, <1>8 DEF CacheNext

\* The cache is the bounded map of its live entries: no user can tell that
\* entries of earlier generations are still in it.
THEOREM CacheImplementsMap == CacheSpec => ImplementsMap
BY InitMaps, NextMaps, CacheIsSound, PTL DEF CacheSpec, ImplementsMap, Map!MapSpec

=============================================================================

------------------------------ MODULE LruCache ------------------------------
(***************************************************************************)
(* The cache of services/cache/lru: a list of entries, the last used one   *)
(* in front, and a map from keys to entries.  Purge does not touch them:   *)
(* it starts a new generation, and the entries of an older one count for   *)
(* nothing until they are replaced, looked up or evicted.  The cache       *)
(* counts its live entries instead of walking the list.                    *)
(*                                                                         *)
(* Every operation holds the lock of the cache and is one step.  An entry  *)
(* with a time to live may expire at any moment.                           *)
(***************************************************************************)
EXTENDS KeyLists

CONSTANTS Keys, Values, Size,
          None,          \* the value of a failed lookup
          MaxGeneration  \* bound on the number of purges

ASSUME LruCacheAssumption == Size \in Nat /\ MaxGeneration \in Nat /\ None \notin Values

VARIABLES
  cache,    \* evictList, items, generation (currentGeneration) and len
  answer    \* what the last operation returned: a value and "found" or "loaded"

cacheVars == <<cache, answer>>

EntriesOf(V) == [value : V, expires : {"never", "later", "past"}, generation : 0..MaxGeneration]

New == [evictList |-> <<>>, items |-> [k \in {} |-> None], generation |-> 0, len |-> 0]

----------------------------------------------------------------------------
(* The unexported methods, as functions of the cache c. *)

Present(c, k) == k \in DOMAIN c.items

Live(c, k) == Present(c, k) /\ c.items[k].generation = c.generation

\* What getValue finds.
Valid(c, k) == Live(c, k) /\ c.items[k].expires # "past"

\* `CountedTwice' takes a dead entry off len as well.
CountedTwice(c, k) ==
  [evictList  |-> Without(c.evictList, k),
   items      |-> [x \in DOMAIN c.items \ {k} |-> c.items[x]],
   generation |-> c.generation,
   len        |-> c.len - 1]

RemoveElement(c, k) ==
  [evictList  |-> Without(c.evictList, k),
   items      |-> [x \in DOMAIN c.items \ {k} |-> c.items[x]],
   generation |-> c.generation,
   len        |-> IF Live(c, k) THEN c.len - 1 ELSE c.len]

\* The entry of k, new or old, in front with a value; len counts it once.
Stored(c, k, v, e) ==
  LET d == [value |-> v, expires |-> e, generation |-> c.generation] IN
  [evictList  |-> Front(c.evictList, k),
   items      |-> [x \in DOMAIN c.items \union {k} |-> IF x = k THEN d ELSE c.items[x]],
   generation |-> c.generation,
   len        |-> IF Live(c, k) THEN c.len ELSE c.len + 1]

\* A new element beyond the size costs the one at the back of the list.
Evicted(c) ==
  IF Len(c.evictList) > Size THEN RemoveElement(c, c.evictList[Len(c.evictList)]) ELSE c

AddTo(c, k, v, e) ==
  IF Present(c, k) THEN Stored(c, k, v, e) ELSE Evicted(Stored(c, k, v, e))

\* `Unmoved' leaves the entry where it is.
Unmoved(c, k) == IF Present(c, k) /\ ~Valid(c, k) THEN RemoveElement(c, k) ELSE c

GetValue(c, k) ==
  IF Valid(c, k) THEN [c EXCEPT !.evictList = Front(@, k)]
  ELSE IF Present(c, k) THEN RemoveElement(c, k) ELSE c

NextGeneration(c) ==
  [evictList |-> c.evictList, items |-> c.items, generation |-> c.generation + 1, len |-> 0]

Miss == [value |-> None, loaded |-> FALSE]
Hit(c, k) == [value |-> c.items[k].value, loaded |-> TRUE]

----------------------------------------------------------------------------
(* The operations. *)

CacheInit == cache = New /\ answer = Miss

CacheAdd(k, v, e) == cache' = AddTo(cache, k, v, e) /\ answer' = Miss

Get(k) ==
  /\ cache' = GetValue(cache, k)
  /\ answer' = IF Valid(cache, k) THEN Hit(cache, k) ELSE Miss

GetOrAdd(k, v, e) ==
  \/ /\ Valid(cache, k)
     /\ cache' = GetValue(cache, k)
     /\ answer' = Hit(cache, k)
  \/ /\ ~Valid(cache, k)
     /\ cache' = AddTo(GetValue(cache, k), k, v, e)
     /\ answer' = [value |-> v, loaded |-> FALSE]

CacheRemove(k) ==
  /\ cache' = IF Present(cache, k) THEN RemoveElement(cache, k) ELSE cache
  /\ answer' = Miss

Purge ==
  /\ cache.generation < MaxGeneration
  /\ cache' = NextGeneration(cache)
  /\ answer' = Miss

\* Time: the entry of k is now past its time to live.
Expire(k) ==
  /\ Present(cache, k) /\ cache.items[k].expires = "later"
  /\ cache' = [cache EXCEPT !.items[k].expires = "past"]
  /\ UNCHANGED answer

CacheNext ==
  \/ \E k \in Keys : Get(k) \/ CacheRemove(k) \/ Expire(k)
  \/ \E k \in Keys, v \in Values, e \in {"never", "later"} : CacheAdd(k, v, e) \/ GetOrAdd(k, v, e)
  \/ Purge

CacheSpec == CacheInit /\ [][CacheNext]_cacheVars

----------------------------------------------------------------------------
(* Properties. *)

\* The types of the state.
CacheTypeOK ==
  /\ cache \in [evictList : Seq(Keys), items : UNION {[S -> EntriesOf(Values)] : S \in SUBSET Keys},
                generation : 0..MaxGeneration, len : Nat]
  /\ answer \in [value : Values \union {None}, loaded : BOOLEAN]

\* The list and the map (evictList and items) hold the same keys, each once,
\* and the list is not longer than the size of the cache.
ListMatchesItems ==
  /\ Distinct(cache.evictList)
  /\ Elems(cache.evictList) = DOMAIN cache.items
  /\ Len(cache.evictList) <= Size

\* The live entries are the front of the list, and len is how many they are:
\* otherwise Keys, which fills an array of size len with the live keys, would
\* panic or return empty keys, and a full cache would evict a live entry
\* while it keeps one from before the purge.
LiveInFront ==
  /\ cache.len <= Len(cache.evictList)
  /\ \A i \in 1..Len(cache.evictList) : Live(cache, cache.evictList[i]) <=> i <= cache.len

\* The cache is a bounded map of its live entries, in the order of their use:
\* it answers as that map does, whatever dead entries it still holds.
LiveKeys(c) == Take(c.evictList, c.len)

LiveContent(c) ==
  [k \in Elems(LiveKeys(c)) |-> [value |-> c.items[k].value, expires |-> c.items[k].expires]]

Map == INSTANCE RecentlyUsed WITH recent <- LiveKeys(cache), content <- LiveContent(cache)

ImplementsMap == Map!MapSpec

=============================================================================

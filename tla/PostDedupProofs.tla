-------------------------- MODULE PostDedupProofs --------------------------
(***************************************************************************)
(* Creating posts is idempotent, for any requests, pending ids and size of *)
(* the cache: one post for an id that the cache has not forgotten, the     *)
(* right answer, and no id that is pending for nobody.                     *)
(***************************************************************************)
EXTENDS PostDedup, LruCacheProofs, FiniteSetTheorems

----------------------------------------------------------------------------
(* The items of the cache.                                                 *)

\* The items of d are some of those of c and perhaps that of k, and it is of
\* the same generation.
ItemsFrom(d, c, k) ==
  /\ d.generation = c.generation
  /\ DOMAIN d.items \subseteq DOMAIN c.items \union {k}
  /\ \A x \in DOMAIN d.items \ {k} : d.items[x] = c.items[x]

HasItem(d, c, k, v) ==
  /\ k \in DOMAIN d.items
  /\ d.items[k] = [value |-> v, expires |-> "later", generation |-> c.generation]

LEMMA RemoveElementItems ==
  ASSUME NEW c, NEW k
  PROVE  /\ RemoveElement(c, k).generation = c.generation
         /\ DOMAIN RemoveElement(c, k).items = DOMAIN c.items \ {k}
         /\ \A x \in DOMAIN c.items \ {k} : RemoveElement(c, k).items[x] = c.items[x]
BY DEF RemoveElement

LEMMA StoredItems ==
  ASSUME NEW c, NEW k, NEW v
  PROVE  ItemsFrom(Stored(c, k, v, "later"), c, k) /\ HasItem(Stored(c, k, v, "later"), c, k, v)
<1> DEFINE d == [value |-> v, expires |-> "later", generation |-> c.generation]
           m == [x \in DOMAIN c.items \union {k} |-> IF x = k THEN d ELSE c.items[x]]
<1>1. Stored(c, k, v, "later").items = m /\ Stored(c, k, v, "later").generation = c.generation
  BY DEF Stored
<1>2. /\ DOMAIN m = DOMAIN c.items \union {k} /\ m[k] = d
      /\ \A x \in DOMAIN c.items \ {k} : m[x] = c.items[x]
  OBVIOUS
<1> HIDE DEF m
<1> QED  BY <1>1, <1>2 DEF ItemsFrom, HasItem

\* An addition keeps what it adds, in a cache with room for one.
LEMMA AddToItems ==
  ASSUME NEW c, Sound(c, Size), NEW k \in Keys, NEW v \in Values
  PROVE  ItemsFrom(AddTo(c, k, v, "later"), c, k) /\ HasItem(AddTo(c, k, v, "later"), c, k, v)
<1> DEFINE s == Stored(c, k, v, "later")
<1>1. ItemsFrom(s, c, k) /\ HasItem(s, c, k, v)
  BY StoredItems
<1>2. CASE AddTo(c, k, v, "later") = s
  BY <1>1, <1>2
<1>3. CASE AddTo(c, k, v, "later") = Evicted(s)
  <2>1. CASE ~(Len(s.evictList) > Size)
    BY <1>1, <1>3, <2>1 DEF Evicted
  <2>2. CASE Len(s.evictList) > Size
    <3> DEFINE last == s.evictList[Len(s.evictList)]
    <3>1. s.evictList = Front(c.evictList, k)
      BY DEF Stored
    <3>2. c.evictList \in Seq(Keys) /\ Distinct(c.evictList)
      BY CacheFields DEF Sound
    <3>3. s.evictList \in Seq(Keys) /\ Distinct(s.evictList) /\ s.evictList[1] = k
      BY <3>1, <3>2, FrontProperties
    <3> HIDE DEF s
    <3>4. last # k
      <4>1. Len(s.evictList) \in Nat /\ Len(s.evictList) > 1
        BY <2>2, <3>3, LruCacheAssumption, PostAssumption
      <4> QED  BY <3>3, <4>1 DEF Distinct
    <3> HIDE DEF last
    <3>5. AddTo(c, k, v, "later") = RemoveElement(s, last)
      BY <1>3, <2>2 DEF Evicted, last
    <3> DEFINE r == RemoveElement(s, last)
    <3>6. /\ r.generation = s.generation /\ DOMAIN r.items = DOMAIN s.items \ {last}
          /\ \A x \in DOMAIN s.items \ {last} : r.items[x] = s.items[x]
      BY RemoveElementItems
    <3> HIDE DEF r
    <3>7. ItemsFrom(r, c, k) /\ HasItem(r, c, k, v)
      BY <1>1, <3>4, <3>6 DEF ItemsFrom, HasItem
    <3> QED  BY <3>5, <3>7 DEF r
  <2> QED  BY <2>1, <2>2
<1> QED  BY <1>2, <1>3 DEF AddTo

\* A lookup drops at most the entry that it finds invalid.
LEMMA GetValueItems ==
  ASSUME NEW c, NEW k, c \in Caches
  PROVE  /\ GetValue(c, k).generation = c.generation
         /\ DOMAIN GetValue(c, k).items \subseteq DOMAIN c.items
         /\ \A x \in DOMAIN GetValue(c, k).items : GetValue(c, k).items[x] = c.items[x]
         /\ Valid(c, k) => GetValue(c, k).items = c.items
<1>1. CASE Valid(c, k)
  BY <1>1 DEF GetValue, Caches
<1>2. CASE ~Valid(c, k) /\ Present(c, k)
  BY <1>2, RemoveElementItems DEF GetValue
<1>3. CASE ~Valid(c, k) /\ ~Present(c, k)
  BY <1>3 DEF GetValue
<1> QED  BY <1>1, <1>2, <1>3

----------------------------------------------------------------------------
(* The operations of the cache, as the requests use them.                  *)

LEMMA AddStep ==
  ASSUME CacheInv, NEW k \in Keys, NEW v \in Values, CacheAdd(k, v, "later")
  PROVE  CacheInv' /\ ItemsFrom(cache', cache, k) /\ HasItem(cache', cache, k, v)
<1>1. Sound(cache, Size)  BY DEF CacheInv
<1>2. CacheNext  BY DEF CacheNext
<1> QED
  BY <1>1, <1>2, AddToItems, NextSound DEF CacheAdd

\* A lookup that finds the id answers with its entry and changes no entry; one
\* that does not puts it there.
LEMMA GetOrAddStep ==
  ASSUME CacheInv, NEW k \in Keys, NEW v \in Values, GetOrAdd(k, v, "later")
  PROVE  /\ CacheInv'
         /\ \/ /\ Valid(cache, k) /\ answer'.loaded /\ answer'.value = cache.items[k].value
               /\ cache'.items = cache.items /\ cache'.generation = cache.generation
            \/ /\ ~Valid(cache, k) /\ ~answer'.loaded /\ answer'.value = v
               /\ ItemsFrom(cache', cache, k) /\ HasItem(cache', cache, k, v)
<1>1. Sound(cache, Size) /\ cache \in Caches  BY DEF CacheInv, Sound
<1>2. CacheNext  BY DEF CacheNext
<1>3. CacheInv'  BY <1>2, NextSound
<1>4. CASE Valid(cache, k) /\ cache' = GetValue(cache, k) /\ answer' = Hit(cache, k)
  BY <1>1, <1>3, <1>4, GetValueItems DEF Hit
<1>5. CASE /\ ~Valid(cache, k) /\ cache' = AddTo(GetValue(cache, k), k, v, "later")
           /\ answer' = [value |-> v, loaded |-> FALSE]
  <2> DEFINE g == GetValue(cache, k)
  <2>1. Sound(g, Size)  BY <1>1, GetValueSound
  <2>2. /\ g.generation = cache.generation /\ DOMAIN g.items \subseteq DOMAIN cache.items
        /\ \A x \in DOMAIN g.items : g.items[x] = cache.items[x]
    BY <1>1, GetValueItems
  <2> HIDE DEF g
  <2>3. ItemsFrom(cache', g, k) /\ HasItem(cache', g, k, v)
    BY <1>5, <2>1, AddToItems DEF g
  <2>4. ItemsFrom(cache', cache, k) /\ HasItem(cache', cache, k, v)
    BY <2>2, <2>3 DEF ItemsFrom, HasItem
  <2>5. ~answer'.loaded /\ answer'.value = v
    BY <1>5
  <2> QED  BY <1>3, <1>5, <2>4, <2>5
<1> QED  BY <1>4, <1>5 DEF GetOrAdd

LEMMA RemoveStep ==
  ASSUME CacheInv, NEW k \in Keys, CacheRemove(k)
  PROVE  CacheInv' /\ ItemsFrom(cache', cache, k) /\ k \notin DOMAIN cache'.items
         /\ DOMAIN cache.items \ {k} \subseteq DOMAIN cache'.items
<1>1. CacheNext  BY DEF CacheNext
<1>2. CacheInv'  BY <1>1, NextSound
<1> QED  BY <1>2, RemoveElementItems DEF CacheRemove, Present, ItemsFrom

LEMMA ExpireStep ==
  ASSUME CacheInv, NEW k \in Keys, Expire(k)
  PROVE  /\ CacheInv' /\ cache'.generation = cache.generation
         /\ DOMAIN cache'.items = DOMAIN cache.items
         /\ \A x \in DOMAIN cache.items :
              /\ cache'.items[x].value = cache.items[x].value
              /\ x # k => cache'.items[x] = cache.items[x]
<1>1. CacheNext  BY DEF CacheNext
<1>2. CacheInv'  BY <1>1, NextSound
<1>3. cache \in Caches /\ k \in DOMAIN cache.items
  BY DEF CacheInv, Sound, Expire, Present
<1>4. \A x \in DOMAIN cache.items : cache.items[x] \in EntriesOf(Values)
  BY <1>3, CacheFields
<1> DEFINE m == [cache.items EXCEPT ![k].expires = "past"]
<1>5. /\ DOMAIN m = DOMAIN cache.items
      /\ \A x \in DOMAIN cache.items : /\ m[x].value = cache.items[x].value
                                       /\ x # k => m[x] = cache.items[x]
  BY <1>3, <1>4 DEF EntriesOf
<1> HIDE DEF m
<1>6. cache'.items = m /\ cache'.generation = cache.generation
  BY <1>3 DEF Expire, Caches, m
<1> QED  BY <1>2, <1>5, <1>6

----------------------------------------------------------------------------
(* The invariant.                                                          *)

\* The requests that have, or are about to have, a post.
Holds(r) == r \in posts \/ pc[r] = "creating"

Held(r) == Holds(r) /\ PendingOf[r] \notin lapsed \union {NoId}

OneHolder ==
  \A r, q \in Requests : Held(r) /\ Held(q) /\ PendingOf[r] = PendingOf[q] => r = q

Remembered == \A r \in Requests : Held(r) => Valid(cache, PendingOf[r])

\* What the cache says of an id is Unknown, or a post made for that id.
Named ==
  \A p \in DOMAIN cache.items :
    /\ cache.items[p].value \in Requests \union {Unknown}
    /\ p # NoId /\ cache.items[p].value # Unknown => PendingOf[cache.items[p].value] = p

\* Somebody answers for an id that is Unknown.
Answers(r, p) ==
  PendingOf[r] = p /\ (pc[r] \in {"creating", "saved"} \/ carried[r] # p)

Owned ==
  \A p \in DOMAIN cache.items \ {NoId} :
    cache.items[p].value = Unknown => \E r \in Requests : Answers(r, p)

Told(r) ==
  /\ carried[r] \in {PendingOf[r], NoId}
  /\ pc[r] \in {"saved", "posting"} => r \in posts
  /\ pc[r] \in {"idle", "fetching", "creating"} => r \notin posts
  /\ pc[r] = "fetching" => found[r] \in Requests /\ PendingOf[found[r]] = PendingOf[r]
  /\ reply[r] \in Requests => reply[r] \in posts /\ PendingOf[reply[r]] = PendingOf[r]

PostTypes ==
  /\ pc \in [Requests -> {"idle", "fetching", "creating", "saved", "posting", "done"}]
  /\ carried \in [Requests -> Keys]
  /\ found \in [Requests -> Requests \union {Unknown}]
  /\ reply \in [Requests -> Requests \union {None, "pending", "failed"}]
  /\ posts \subseteq Requests
  /\ lapsed \subseteq Keys

PostInv ==
  /\ CacheInv /\ PostTypes
  /\ OneHolder /\ Remembered /\ Named /\ Owned
  /\ \A r \in Requests : Told(r)

LEMMA HeldInUse ==
  ASSUME NEW r \in Requests, Holds(r)
  PROVE  InUse(PendingOf[r])
BY DEF Holds, InUse, PostsOf

LEMMA PostInvInit == PostInit => PostInv
<1> SUFFICES ASSUME PostInit PROVE PostInv
  OBVIOUS
<1>1. CacheInv /\ DOMAIN cache.items = {}
  BY InitSound DEF PostInit, CacheInit, New
<1>2. PostTypes
  BY PostAssumption DEF PostInit, PostTypes
<1>3. \A r \in Requests : pc[r] = "idle" /\ r \notin posts /\ reply[r] = None
  BY DEF PostInit
<1>4. \A r \in Requests : Told(r)
  BY <1>3, PostAssumption DEF PostInit, Told
<1> QED
  BY <1>1, <1>2, <1>3, <1>4
  DEF PostInv, OneHolder, Held, Holds, Remembered, Named, Owned

\* A step of r that leaves the entries of the cache alone, does not take the
\* id anew, and tells r the truth.
LEMMA RequestStep ==
  ASSUME PostInv, NEW r \in Requests, PostTypes', UNCHANGED lapsed,
         CacheInv', cache'.items = cache.items, cache'.generation = cache.generation,
         Held(r)' => Held(r),
         posts' \in {posts, posts \union {r}},
         \A q \in Requests \ {r} :
           pc'[q] = pc[q] /\ carried'[q] = carried[q] /\ found'[q] = found[q]
           /\ reply'[q] = reply[q],
         \A p \in Keys : Answers(r, p) => Answers(r, p)',
         Told(r)'
  PROVE  PostInv'
<1>1. Named'
  BY DEF PostInv, Named
<1>2. \A q \in Requests : Held(q)' => Held(q)
  BY DEF Held, Holds, PostTypes
<1>3. OneHolder' /\ Remembered'
  BY <1>2 DEF PostInv, OneHolder, Remembered, Valid, Live, Present
<1>4. \A q \in Requests, p \in Keys : Answers(q, p) => Answers(q, p)'
  BY DEF Answers
<1>5. DOMAIN cache.items \subseteq Keys
  BY CacheFields DEF PostInv, CacheInv, Sound
<1>6. Owned'
  BY <1>4, <1>5 DEF PostInv, Owned
<1>7. \A q \in Requests : Told(q)'
  BY DEF PostInv, Told
<1> QED  BY <1>1, <1>3, <1>6, <1>7 DEF PostInv

LEMMA SameCache ==
  ASSUME PostInv, UNCHANGED cacheVars
  PROVE  CacheInv' /\ cache'.items = cache.items /\ cache'.generation = cache.generation
BY DEF PostInv, CacheInv, cacheVars

\* A request that reads its answer.
LEMMA FetchKeeps ==
  ASSUME PostInv, NEW r \in Requests, Fetch(r)
  PROVE  PostInv'
<1>1. /\ UNCHANGED <<cacheVars, carried, found, posts, lapsed>>
      /\ pc[r] = "fetching" /\ pc' = [pc EXCEPT ![r] = "done"]
      /\ PostTypes /\ Told(r)
  BY DEF Fetch, Reply, Goto, PostInv
<1>2. PICK a \in Requests \union {"failed"} :
        reply' = [reply EXCEPT ![r] = a] /\ (a \in posts \/ a = "failed") /\ (a = "failed" \/ a = found[r])
  BY <1>1 DEF Fetch, Reply, Told
<1>3. PostTypes'
  BY <1>1, <1>2 DEF PostTypes
<1>4. Told(r)'
  BY <1>1, <1>2, PostAssumption DEF Told, PostTypes
<1>5. /\ Held(r)' => Held(r)
      /\ \A p \in Keys : Answers(r, p) => Answers(r, p)'
  BY <1>1 DEF Held, Holds, Answers, PostTypes
<1>6. \A q \in Requests \ {r} :
        pc'[q] = pc[q] /\ carried'[q] = carried[q] /\ found'[q] = found[q]
        /\ reply'[q] = reply[q]
  BY <1>1, <1>2 DEF PostTypes
<1> QED
  BY <1>1, <1>3, <1>4, <1>5, <1>6, SameCache, RequestStep

\* A plugin that takes the id away.
LEMMA ReplaceKeeps ==
  ASSUME PostInv, NEW r \in Requests, Replace(r)
  PROVE  PostInv'
<1>1. /\ UNCHANGED <<cacheVars, pc, found, reply, posts, lapsed>>
      /\ pc[r] = "creating" /\ carried' = [carried EXCEPT ![r] = NoId]
      /\ PostTypes /\ Told(r)
  BY DEF Replace, PostInv
<1>2. PostTypes'
  BY <1>1, PostAssumption DEF PostTypes
<1>3. Told(r)'
  BY <1>1 DEF Told, PostTypes
<1>4. /\ Held(r)' => Held(r)
      /\ \A p \in Keys : Answers(r, p) => Answers(r, p)'
  BY <1>1 DEF Held, Holds, Answers, PostTypes
<1>5. \A q \in Requests \ {r} :
        pc'[q] = pc[q] /\ carried'[q] = carried[q] /\ found'[q] = found[q]
        /\ reply'[q] = reply[q]
  BY <1>1 DEF PostTypes
<1> QED
  BY <1>1, <1>2, <1>3, <1>4, <1>5, SameCache, RequestStep

\* The post is saved by the one that held the id.
LEMMA SavePostKeeps ==
  ASSUME PostInv, NEW r \in Requests, SavePost(r)
  PROVE  PostInv'
<1>1. /\ UNCHANGED <<cacheVars, carried, found, reply, lapsed>>
      /\ pc[r] = "creating" /\ pc' = [pc EXCEPT ![r] = "saved"]
      /\ posts' = posts \union {r}
      /\ PostTypes /\ Told(r)
  BY DEF SavePost, Goto, PostInv
<1>2. PostTypes'
  BY <1>1 DEF PostTypes
<1>3. Told(r)'
  BY <1>1 DEF Told, PostTypes
<1>4. /\ Held(r)' => Held(r)
      /\ \A p \in Keys : Answers(r, p) => Answers(r, p)'
  BY <1>1 DEF Held, Holds, Answers, PostTypes
<1>5. \A q \in Requests \ {r} :
        pc'[q] = pc[q] /\ carried'[q] = carried[q] /\ found'[q] = found[q]
        /\ reply'[q] = reply[q]
  BY <1>1 DEF PostTypes
<1> QED
  BY <1>1, <1>2, <1>3, <1>4, <1>5, SameCache, RequestStep

\* What an addition of k leaves: k, and every id in use that it does not evict.
LEMMA AddedKeeps ==
  ASSUME PostInv, NEW k \in Keys, NEW v \in Values, ItemsFrom(cache', cache, k),
         HasItem(cache', cache, k, v), Lapse(Losing(k)), NEW q \in Requests, Held(q),
         PendingOf[q] \notin lapsed'
  PROVE  Valid(cache', PendingOf[q])
<1> DEFINE p == PendingOf[q]
<1>1. p \in Keys  BY PostAssumption
<1>2. InUse(p)  BY HeldInUse DEF Held
<1>3. CASE p = k
  BY <1>3 DEF HasItem, ItemsFrom, Valid, Live, Present
<1>4. CASE p # k
  <2>1. Valid(cache, p) /\ p \in DOMAIN cache.items
    BY DEF PostInv, Remembered, Valid, Live, Present
  <2>2. p \in DOMAIN cache'.items
    BY <1>2, <1>4, <2>1 DEF Lapse, Losing
  <2> QED  BY <1>4, <2>1, <2>2 DEF ItemsFrom, Valid, Live, Present
<1> QED  BY <1>3, <1>4

\* A request that has a post enters it under the id it carries.
LEMMA EnterKeeps ==
  ASSUME PostInv, NEW r \in Requests, pc[r] \in {"saved", "posting"},
         CacheAdd(carried[r], r, "later"), Lapse(Losing(carried[r])),
         UNCHANGED <<carried, found, posts>>,
         NEW s \in {"posting", "done"}, pc' = [pc EXCEPT ![r] = s],
         reply' \in {reply, [reply EXCEPT ![r] = r]}
  PROVE  PostInv'
<1> DEFINE k == carried[r]
<1>1. PostTypes /\ CacheInv /\ Told(r) /\ k \in Keys /\ r \in posts /\ r \in Values
  BY PostAssumption DEF PostInv, PostTypes, Told
<1>2. CacheInv' /\ ItemsFrom(cache', cache, k) /\ HasItem(cache', cache, k, r)
  BY <1>1, AddStep
<1>3. lapsed \subseteq lapsed' /\ lapsed' \subseteq Keys
  <2>1. DOMAIN cache.items \subseteq Keys
    BY <1>1, CacheFields DEF CacheInv, Sound
  <2> QED  BY <1>1, <2>1 DEF Lapse, Losing, PostTypes
<1>4. PostTypes'
  BY <1>1, <1>3 DEF PostTypes
<1>5. \A q \in Requests : Held(q)' => Held(q)
  BY <1>1, <1>3 DEF Held, Holds, PostTypes
<1>6. OneHolder'
  BY <1>5 DEF PostInv, OneHolder
<1>7. Remembered'
  <2> SUFFICES ASSUME NEW q \in Requests, Held(q)' PROVE Valid(cache', PendingOf[q])
    BY DEF Remembered
  <2>1. Held(q) /\ PendingOf[q] \notin lapsed'
    BY <1>5 DEF Held
  <2> QED  BY <1>1, <1>2, <2>1, AddedKeeps
<1>8. Named'
  BY <1>1, <1>2 DEF PostInv, Named, ItemsFrom, HasItem, Told
<1>9. Owned'
  <2> SUFFICES ASSUME NEW p \in DOMAIN cache'.items \ {NoId},
                      cache'.items[p].value = Unknown
               PROVE  \E q \in Requests : Answers(q, p)'
    BY DEF Owned
  <2>1. p # k
    BY <1>2, PostAssumption DEF HasItem
  <2>2. p \in DOMAIN cache.items /\ cache.items[p].value = Unknown
    BY <1>2, <2>1 DEF ItemsFrom
  <2>3. PICK q \in Requests : Answers(q, p)
    BY <2>2 DEF PostInv, Owned
  <2>4. Answers(q, p)'
    BY <1>1, <2>1, <2>3 DEF Answers, PostTypes
  <2> QED  BY <2>4
<1>10. \A q \in Requests : Told(q)'
  <2>1. Told(r)'  BY <1>1 DEF Told, PostTypes
  <2>2. \A q \in Requests \ {r} : Told(q)'
    BY <1>1 DEF PostInv, Told, PostTypes
  <2> QED  BY <2>1, <2>2
<1> QED  BY <1>2, <1>4, <1>6, <1>7, <1>8, <1>9, <1>10 DEF PostInv

LEMMA RecordKeeps ==
  ASSUME PostInv, NEW r \in Requests, Record(r)
  PROVE  PostInv'
BY EnterKeeps DEF Record, Goto

LEMMA FinishKeeps ==
  ASSUME PostInv, NEW r \in Requests, Finish(r)
  PROVE  PostInv'
<1>1. pc[r] = "posting" /\ pc' = [pc EXCEPT ![r] = "done"]
      /\ reply' = [reply EXCEPT ![r] = r] /\ UNCHANGED <<carried, found, posts>>
      /\ PostTypes /\ Told(r)
  BY DEF Finish, Reply, Goto, PostInv
<1>2. CASE CacheAdd(carried[r], r, "later") /\ Lapse(Losing(carried[r]))
  BY <1>1, <1>2, EnterKeeps
<1>3. CASE UNCHANGED <<cacheVars, lapsed>>
  <2>1. PostTypes'
    BY <1>1, <1>3 DEF PostTypes
  <2>2. Told(r)'
    BY <1>1 DEF Told, PostTypes
  <2>3. /\ Held(r)' => Held(r)
        /\ \A p \in Keys : Answers(r, p) => Answers(r, p)'
    BY <1>1, <1>3 DEF Held, Holds, Answers, PostTypes
  <2>4. \A q \in Requests \ {r} :
          pc'[q] = pc[q] /\ carried'[q] = carried[q] /\ found'[q] = found[q]
          /\ reply'[q] = reply[q]
    BY <1>1 DEF PostTypes
  <2> QED
    BY <1>1, <1>3, <2>1, <2>2, <2>3, <2>4, SameCache, RequestStep
<1> QED  BY <1>2, <1>3 DEF Finish

\* A request that fails takes its id out of the cache: nobody else held it.
LEMMA ForgottenKeeps ==
  ASSUME PostInv, NEW r \in Requests, pc[r] = "creating", Forgotten(r),
         UNCHANGED <<carried, found>>, pc' = [pc EXCEPT ![r] = "done"],
         reply' = [reply EXCEPT ![r] = "failed"],
         lapsed \subseteq lapsed', lapsed' \subseteq Keys,
         posts' = posts \/ (posts' = posts \union {r} /\ PendingOf[r] \in lapsed')
  PROVE  PostInv'
<1> DEFINE k == carried[r]
<1>1. PostTypes /\ CacheInv /\ Told(r) /\ k \in Keys /\ r \notin posts
  BY DEF PostInv, PostTypes, Told
<1>2. /\ CacheInv' /\ ItemsFrom(cache', cache, k)
      /\ k = NoId \/ k \notin DOMAIN cache'.items
      /\ DOMAIN cache'.items \subseteq DOMAIN cache.items
      /\ DOMAIN cache.items \ {k} \subseteq DOMAIN cache'.items
  <2>1. CASE k = NoId
    BY <1>1, <2>1 DEF Forgotten, cacheVars, CacheInv, ItemsFrom
  <2>2. CASE k # NoId
    BY <1>1, <2>2, RemoveStep DEF Forgotten, ItemsFrom
  <2> QED  BY <2>1, <2>2
<1>3. PostTypes'
  BY <1>1 DEF PostTypes
<1>4. \A q \in Requests : Held(q)' => Held(q) /\ q # r
  BY <1>1 DEF Held, Holds, PostTypes
<1>5. OneHolder'
  BY <1>4 DEF PostInv, OneHolder
<1>6. Remembered'
  <2> SUFFICES ASSUME NEW q \in Requests, Held(q)' PROVE Valid(cache', PendingOf[q])
    BY DEF Remembered
  <2>1. Held(q) /\ q # r /\ PendingOf[q] # NoId
    BY <1>4 DEF Held
  <2>2. PendingOf[q] # k
    <3> SUFFICES ASSUME PendingOf[q] = k PROVE FALSE
      OBVIOUS
    <3>1. PendingOf[r] = k /\ Held(r)
      BY <1>1, <2>1 DEF Told, Held, Holds
    <3> QED  BY <2>1, <3>1 DEF PostInv, OneHolder
  <2>3. Valid(cache, PendingOf[q])
    BY <2>1 DEF PostInv, Remembered
  <2> QED  BY <1>2, <2>2, <2>3 DEF Valid, Live, Present, ItemsFrom
<1>7. \A p \in DOMAIN cache'.items \ {NoId} :
        p # k /\ p \in DOMAIN cache.items /\ cache'.items[p] = cache.items[p]
  BY <1>2 DEF ItemsFrom
<1>8. Named'
  <2>1. NoId \in DOMAIN cache'.items => cache'.items[NoId] = cache.items[NoId]
    <3>1. CASE k = NoId
      BY <1>1, <3>1 DEF Forgotten, cacheVars
    <3>2. CASE k # NoId
      BY <1>2, <3>2 DEF ItemsFrom
    <3> QED  BY <3>1, <3>2
  <2> QED  BY <1>2, <1>7, <2>1 DEF PostInv, Named
<1>9. Owned'
  <2> SUFFICES ASSUME NEW p \in DOMAIN cache'.items \ {NoId},
                      cache'.items[p].value = Unknown
               PROVE  \E q \in Requests : Answers(q, p)'
    BY DEF Owned
  <2>1. PICK q \in Requests : Answers(q, p)
    BY <1>7 DEF PostInv, Owned
  <2>2. Answers(q, p)'
    BY <1>1, <1>7, <2>1 DEF Answers, PostTypes
  <2> QED  BY <2>2
<1>10. \A q \in Requests : Told(q)'
  <2>1. Told(r)'  BY <1>1, PostAssumption DEF Told, PostTypes
  <2>2. \A q \in Requests \ {r} : Told(q)'
    BY <1>1 DEF PostInv, Told, PostTypes
  <2> QED  BY <2>1, <2>2
<1> QED  BY <1>2, <1>3, <1>5, <1>6, <1>8, <1>9, <1>10 DEF PostInv

LEMMA FailPostKeeps ==
  ASSUME PostInv, NEW r \in Requests, FailPost(r)
  PROVE  PostInv'
<1>1. lapsed \subseteq Keys  BY DEF PostInv, PostTypes
<1>2. /\ pc[r] = "creating" /\ Forgotten(r) /\ UNCHANGED <<carried, found, posts, lapsed>>
      /\ pc' = [pc EXCEPT ![r] = "done"] /\ reply' = [reply EXCEPT ![r] = "failed"]
  BY DEF FailPost, Reply, Goto
<1>3. lapsed \subseteq lapsed' /\ lapsed' \subseteq Keys /\ posts' = posts
  BY <1>1, <1>2
<1> QED  BY <1>2, <1>3, ForgottenKeeps

LEMMA SaveUnansweredKeeps ==
  ASSUME PostInv, NEW r \in Requests, SaveUnanswered(r)
  PROVE  PostInv'
<1>1. InUse(PendingOf[r]) /\ PendingOf[r] \in Keys
  BY HeldInUse, PostAssumption DEF SaveUnanswered, Holds
<1>2. PendingOf[r] \in lapsed' /\ lapsed \subseteq lapsed' /\ lapsed' \subseteq Keys
  BY <1>1 DEF SaveUnanswered, Lapse, PostInv, PostTypes
<1> QED
  BY <1>2, ForgottenKeeps DEF SaveUnanswered, Reply, Goto

\* A request without an id goes on; one that finds its id in the cache fetches
\* its post or waits; any other is the first, and holds the id from now on.
LEMMA LookUpKeeps ==
  ASSUME PostInv, NEW r \in Requests, LookUp(r)
  PROVE  PostInv'
<1> DEFINE k == PendingOf[r]
<1>1. /\ PostTypes /\ CacheInv /\ Told(r) /\ k \in Keys /\ r \notin posts
      /\ pc[r] = "idle" /\ UNCHANGED <<carried, posts>>
      /\ Unknown \in Values
  BY PostAssumption DEF PostInv, LookUp, Told
<1>2. DOMAIN cache.items \subseteq Keys
  BY <1>1, CacheFields DEF CacheInv, Sound
<1>3. CASE /\ k = NoId /\ pc' = [pc EXCEPT ![r] = "creating"]
           /\ UNCHANGED <<cacheVars, found, reply, lapsed>>
  <2>1. PostTypes'
    BY <1>1, <1>3 DEF PostTypes
  <2>2. Told(r)'
    BY <1>1, <1>3 DEF Told, PostTypes
  <2>3. /\ Held(r)' => Held(r)
        /\ \A p \in Keys : Answers(r, p) => Answers(r, p)'
    BY <1>1, <1>3 DEF Held, Answers, PostTypes
  <2>4. \A q \in Requests \ {r} :
          pc'[q] = pc[q] /\ carried'[q] = carried[q] /\ found'[q] = found[q]
          /\ reply'[q] = reply[q]
    BY <1>1, <1>3 DEF PostTypes
  <2> QED
    BY <1>1, <1>3, <2>1, <2>2, <2>3, <2>4, SameCache, RequestStep
<1>4. ASSUME k # NoId, GetOrAdd(k, Unknown, "later"), Lapse(Losing(k)),
             Goto(r, Decided(r, answer')),
             found' = [found EXCEPT ![r] = answer'.value],
             reply' = IF Decided(r, answer') = "done" THEN [reply EXCEPT ![r] = "pending"]
                      ELSE reply
      PROVE  PostInv'
  <2>1. lapsed \subseteq lapsed' /\ lapsed' \subseteq Keys
    BY <1>1, <1>2, <1>4 DEF Lapse, Losing, PostTypes
  <2>2. CASE /\ Valid(cache, k) /\ answer'.loaded /\ answer'.value = cache.items[k].value
             /\ cache'.items = cache.items /\ cache'.generation = cache.generation
             /\ CacheInv'
    <3> DEFINE v == cache.items[k].value
               next == IF v = Unknown THEN "done" ELSE "fetching"
    <3>1. k \in DOMAIN cache.items
      BY <2>2 DEF Valid, Live, Present
    <3>2. v \in Requests \union {Unknown} /\ (v # Unknown => PendingOf[v] = k)
      BY <1>4, <3>1 DEF PostInv, Named
    <3>3. lapsed' = lapsed
      BY <1>4, <2>2 DEF Lapse, Losing
    <3>4. Decided(r, answer') = next
      BY <2>2 DEF Decided
    <3>5. pc' = [pc EXCEPT ![r] = next] /\ found' = [found EXCEPT ![r] = v]
      BY <1>4, <2>2, <3>4 DEF Goto
    <3>6. reply' \in {reply, [reply EXCEPT ![r] = "pending"]}
      BY <1>4
    <3>7. reply' \in [Requests -> Requests \union {None, "pending", "failed"}]
      BY <1>1, <3>6 DEF PostTypes
    <3> HIDE DEF v
    <3>8. next \in {"done", "fetching"} /\ (next = "fetching" => v # Unknown)
      OBVIOUS
    <3> HIDE DEF next
    <3>9. PostTypes'
      BY <1>1, <3>2, <3>3, <3>5, <3>7, <3>8 DEF PostTypes
    <3>10. Told(r)'
      BY <1>1, <3>2, <3>5, <3>6, <3>8, PostAssumption DEF Told, PostTypes
    <3>11. /\ Held(r)' => Held(r)
           /\ \A p \in Keys : Answers(r, p) => Answers(r, p)'
      BY <1>1, <3>3, <3>5, <3>8 DEF Held, Holds, Answers, PostTypes
    <3>12. \A q \in Requests \ {r} :
             pc'[q] = pc[q] /\ carried'[q] = carried[q] /\ found'[q] = found[q]
             /\ reply'[q] = reply[q]
      BY <1>1, <3>5, <3>6 DEF PostTypes
    <3> QED
      BY <1>1, <2>2, <3>3, <3>9, <3>10, <3>11, <3>12, RequestStep
  <2>3. CASE /\ ~Valid(cache, k) /\ ~answer'.loaded /\ answer'.value = Unknown
             /\ ItemsFrom(cache', cache, k) /\ HasItem(cache', cache, k, Unknown)
             /\ CacheInv'
    <3>1. /\ pc' = [pc EXCEPT ![r] = "creating"]
          /\ found' = [found EXCEPT ![r] = Unknown] /\ reply' = reply
      <4>1. Decided(r, answer') = "creating"
        BY <2>3 DEF Decided
      <4> QED  BY <1>4, <2>3, <4>1 DEF Goto
    <3>2. PostTypes'
      BY <1>1, <2>1, <3>1 DEF PostTypes
    <3>3. \A q \in Requests : Held(q)' => q = r \/ (Held(q) /\ PendingOf[q] # k)
      <4>1. \A q \in Requests \ {r} : Held(q)' => Held(q)
        BY <1>1, <2>1, <3>1 DEF Held, Holds, PostTypes
      <4>2. \A q \in Requests : Held(q) => PendingOf[q] # k
        BY <2>3 DEF PostInv, Remembered
      <4> QED  BY <4>1, <4>2
    <3>4. OneHolder'
      BY <3>3 DEF PostInv, OneHolder
    <3>5. Remembered'
      <4> SUFFICES ASSUME NEW q \in Requests, Held(q)' PROVE Valid(cache', PendingOf[q])
        BY DEF Remembered
      <4>1. CASE q = r
        BY <2>3, <4>1 DEF HasItem, ItemsFrom, Valid, Live, Present
      <4>2. CASE q # r
        <5>1. Held(q) /\ PendingOf[q] \notin lapsed'
          BY <3>3, <4>2 DEF Held
        <5> QED  BY <1>1, <1>4, <2>3, <5>1, AddedKeeps
      <4> QED  BY <4>1, <4>2
    <3>6. Named'
      BY <2>3 DEF PostInv, Named, ItemsFrom, HasItem
    <3>7. Owned'
      <4> SUFFICES ASSUME NEW p \in DOMAIN cache'.items \ {NoId},
                          cache'.items[p].value = Unknown
                   PROVE  \E q \in Requests : Answers(q, p)'
        BY DEF Owned
      <4>1. CASE p = k
        <5>1. Answers(r, p)'
          BY <1>1, <3>1, <4>1 DEF Answers, PostTypes
        <5> QED  BY <5>1
      <4>2. CASE p # k
        <5>1. p \in DOMAIN cache.items /\ cache.items[p].value = Unknown
          BY <2>3, <4>2 DEF ItemsFrom
        <5>2. PICK q \in Requests : Answers(q, p)
          BY <5>1 DEF PostInv, Owned
        <5>3. Answers(q, p)'
          BY <1>1, <3>1, <4>2, <5>2 DEF Answers, PostTypes
        <5> QED  BY <5>3
      <4> QED  BY <4>1, <4>2
    <3>8. \A q \in Requests : Told(q)'
      <4>1. Told(r)'
        BY <1>1, <3>1 DEF Told, PostTypes
      <4>2. \A q \in Requests \ {r} : Told(q)'
        BY <1>1, <3>1 DEF PostInv, Told, PostTypes
      <4> QED  BY <4>1, <4>2
    <3> QED
      BY <2>3, <3>2, <3>4, <3>5, <3>6, <3>7, <3>8 DEF PostInv
  <2> QED
    BY <1>1, <1>4, <2>2, <2>3, GetOrAddStep
<1> QED
  BY <1>3, <1>4 DEF LookUp, Goto

\* The cache forgets an id; if it was in use, that is noted.
LEMMA ForgetKeeps ==
  ASSUME PostInv, NEW k \in Keys, Forget(k)
  PROVE  PostInv'
<1>1. Expire(k) /\ Lapse({k}) /\ UNCHANGED reqVars /\ CacheInv /\ PostTypes
  BY DEF Forget, PostInv
<1>2. /\ CacheInv' /\ cache'.generation = cache.generation
      /\ DOMAIN cache'.items = DOMAIN cache.items
      /\ \A x \in DOMAIN cache.items :
           /\ cache'.items[x].value = cache.items[x].value
           /\ x # k => cache'.items[x] = cache.items[x]
  BY <1>1, ExpireStep
<1>3. \A q \in Requests : Held(q)' => Held(q) /\ PendingOf[q] # k
  BY <1>1, HeldInUse DEF Held, Holds, Lapse, reqVars
<1>4. OneHolder'
  BY <1>3 DEF PostInv, OneHolder
<1>5. Remembered'
  BY <1>2, <1>3 DEF PostInv, Remembered, Valid, Live, Present
<1>6. Named'
  BY <1>2 DEF PostInv, Named
<1>7. Owned'
  BY <1>1, <1>2 DEF PostInv, Owned, Answers, reqVars
<1>8. \A q \in Requests : Told(q)'
  BY <1>1 DEF PostInv, Told, reqVars
<1>9. PostTypes'
  BY <1>1 DEF PostTypes, Lapse, reqVars
<1> QED  BY <1>2, <1>4, <1>5, <1>6, <1>7, <1>8, <1>9 DEF PostInv

LEMMA PostInvNext == PostInv /\ [PostNext]_postVars => PostInv'
<1> SUFFICES ASSUME PostInv, [PostNext]_postVars PROVE PostInv'
  OBVIOUS
<1>1. CASE UNCHANGED postVars
  BY <1>1
  DEF PostInv, CacheInv, PostTypes, OneHolder, Held, Holds, Remembered, Named,
      Owned, Answers, Told, postVars, reqVars, cacheVars
<1>2. ASSUME NEW r \in Requests, LookUp(r) \/ Serve(r) PROVE PostInv'
  BY <1>2, LookUpKeeps, FetchKeeps, ReplaceKeeps, FailPostKeeps, SavePostKeeps,
     SaveUnansweredKeeps, RecordKeeps, FinishKeeps
  DEF Serve
<1>3. ASSUME NEW k \in Keys, Forget(k) PROVE PostInv'
  BY <1>3, ForgetKeeps
<1> QED  BY <1>1, <1>2, <1>3 DEF PostNext

\* The invariant holds in every reachable state (App.CreatePost).
THEOREM PostInvariance == PostSpec => []PostInv
BY PostInvInit, PostInvNext, PTL DEF PostSpec

\* The creation of posts has its types (PostTypeOK).
THEOREM PostsTyped == PostSpec => []PostTypeOK
<1>1. PostInv => PostTypeOK
  BY DEF PostInv, PostTypes, PostTypeOK, CacheInv, CacheTypeOK, Sound, Caches
<1> QED  BY <1>1, PostInvariance, PTL

\* However many requests race with one pending id, fail and are repeated, one
\* of them creates a post, as long as the cache remembers the id.
THEOREM CreatedOnce == PostSpec => []OnePost
<1>1. PostInv => OnePost
  <2> SUFFICES ASSUME PostInv, NEW p \in Keys \ (lapsed \union {NoId})
               PROVE  Cardinality(PostsOf(p)) <= 1
    BY DEF OnePost
  <2>1. \A r, q \in PostsOf(p) : r = q
    BY DEF PostInv, PostTypes, OneHolder, Held, Holds, PostsOf
  <2>2. CASE PostsOf(p) = {}
    BY <2>2, FS_EmptySet
  <2>3. CASE PostsOf(p) # {}
    <3>1. PICK r : r \in PostsOf(p)  BY <2>3
    <3>2. PostsOf(p) = {r}  BY <2>1, <3>1
    <3>3. Cardinality({r}) = 1  BY FS_Singleton
    <3> QED  BY <3>2, <3>3
  <2> QED  BY <2>2, <2>3
<1> QED  BY <1>1, PostInvariance, PTL

\* Every answer is a post that exists and was made for the id asked about.
THEOREM RepliesAreRight == PostSpec => []RightReply
<1>1. PostInv => RightReply
  BY DEF PostInv, Told, RightReply
<1> QED  BY <1>1, PostInvariance, PTL

\* Nobody is told to wait for a post that nobody is creating.
THEOREM PendingHasOwner == PostSpec => []PendingIsOwned
<1>1. PostInv => PendingIsOwned
  <2> SUFFICES ASSUME PostInv, NEW p \in Keys \ {NoId}, Valid(cache, p),
                      cache.items[p].value = Unknown
               PROVE  \E r \in Requests : Answers(r, p)
    BY DEF PendingIsOwned, Answers
  <2> QED  BY DEF PostInv, Owned, Valid, Live, Present
<1> QED  BY <1>1, PostInvariance, PTL
=============================================================================

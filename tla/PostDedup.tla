------------------------------ MODULE PostDedup ------------------------------
(***************************************************************************)
(* Creating posts, with the cache that makes it idempotent: a client that  *)
(* repeats a request sends the pending id of the first one again, and      *)
(* CreatePost looks it up in seenPendingPostIdsCache, an LruCache.         *)
(*                                                                         *)
(* One action is the code of a request from one access of the cache or of  *)
(* the database to the next.  What lies between, validation and the hooks  *)
(* of plugins, may fail or replace the post.  A post is named after the    *)
(* request that saved it.                                                  *)
(***************************************************************************)
EXTENDS LruCache, FiniteSets

CONSTANTS Requests,    \* among the Values
          PendingOf,   \* the pending id a request came with
          NoId,        \* the empty pending id
          Unknown      \* the value of an id whose post is not saved yet

ASSUME PostAssumption ==
  /\ Requests \subseteq Values /\ Unknown \in Values \ Requests
  /\ {None, "pending", "failed"} \intersect Requests = {}
  /\ PendingOf \in [Requests -> Keys] /\ NoId \in Keys
  /\ Size > 0

VARIABLES
  pc,        \* idle, fetching, creating, saved, posting, done
  carried,   \* the pending id in the request's post: a plugin may drop it
  found,     \* the post id a request read from the cache
  reply,     \* what it answered: a post, or "pending", "failed"
  posts,     \* the posts in the database
  lapsed     \* history: pending ids forgotten while they were in use

reqVars == <<pc, carried, found, reply, posts>>
postVars == <<cacheVars, reqVars, lapsed>>

PostInit ==
  /\ CacheInit
  /\ pc = [r \in Requests |-> "idle"]
  /\ carried = PendingOf
  /\ found = [r \in Requests |-> Unknown]
  /\ reply = [r \in Requests |-> None]
  /\ posts = {}
  /\ lapsed = {}

Goto(r, l) == pc' = [pc EXCEPT ![r] = l]

Reply(r, a) == Goto(r, "done") /\ reply' = [reply EXCEPT ![r] = a]

PostsOf(p) == {r \in posts : PendingOf[r] = p}

\* Somebody is creating a post for p, or has.
InUse(p) ==
  PostsOf(p) # {} \/ \E r \in Requests : PendingOf[r] = p /\ pc[r] = "creating"

Lapse(S) == lapsed' = lapsed \union {p \in S : InUse(p)}

\* The keys that an addition of k evicts.
Losing(k) == (DOMAIN cache.items \ DOMAIN cache'.items) \ {k}

----------------------------------------------------------------------------
(* A request. *)

\* deduplicateCreatePost: the first request with an id goes on to create the
\* post; the others are told that it is pending, or fetch it.
\* `Impatient' creates the post of a pending id as well.
Impatient(r, a) == IF a.loaded /\ a.value # Unknown THEN "fetching" ELSE "creating"

Decided(r, a) ==
  IF ~a.loaded THEN "creating" ELSE IF a.value = Unknown THEN "done" ELSE "fetching"

\* `LookUpAll' looks the empty id up like any other.
LookUpAll(r) ==
  /\ pc[r] = "idle"
  /\ GetOrAdd(PendingOf[r], Unknown, "later")
  /\ Lapse(Losing(PendingOf[r]))
  /\ Goto(r, Decided(r, answer'))
  /\ found' = [found EXCEPT ![r] = answer'.value]
  /\ reply' = IF Decided(r, answer') = "done" THEN [reply EXCEPT ![r] = "pending"] ELSE reply
  /\ UNCHANGED <<carried, posts>>

LookUp(r) ==
  /\ pc[r] = "idle"
  /\ \/ /\ PendingOf[r] = NoId
        /\ Goto(r, "creating")
        /\ UNCHANGED <<cacheVars, found, reply, lapsed>>
     \/ /\ PendingOf[r] # NoId
        /\ GetOrAdd(PendingOf[r], Unknown, "later")
        /\ Lapse(Losing(PendingOf[r]))
        /\ Goto(r, Decided(r, answer'))
        /\ found' = [found EXCEPT ![r] = answer'.value]
        /\ reply' = IF Decided(r, answer') = "done" THEN [reply EXCEPT ![r] = "pending"] ELSE reply
  /\ UNCHANGED <<carried, posts>>

\* GetSinglePost of the id in the cache; the database may fail.
Fetch(r) ==
  /\ pc[r] = "fetching"
  /\ \/ found[r] \in posts /\ Reply(r, found[r])
     \/ Reply(r, "failed")
  /\ UNCHANGED <<cacheVars, carried, found, posts, lapsed>>

\* A plugin returns a post of its own, without the pending id.
Replace(r) ==
  /\ pc[r] = "creating" /\ carried[r] # NoId
  /\ carried' = [carried EXCEPT ![r] = NoId]
  /\ UNCHANGED <<cacheVars, pc, found, reply, posts, lapsed>>

\* The deferred function after an error.  `Kept' forgets to remove the id.
Kept(r) == UNCHANGED cacheVars

Forgotten(r) ==
  IF carried[r] = NoId THEN UNCHANGED cacheVars ELSE CacheRemove(carried[r])

FailPost(r) ==
  /\ pc[r] = "creating"
  /\ Forgotten(r)
  /\ Reply(r, "failed")
  /\ UNCHANGED <<carried, found, posts, lapsed>>

\* The row is inserted, and the request knows it or, if the answer of the
\* database was lost, takes it for an error.
SavePost(r) ==
  /\ pc[r] = "creating"
  /\ posts' = posts \union {r}
  /\ Goto(r, "saved")
  /\ UNCHANGED <<cacheVars, carried, found, reply, lapsed>>

SaveUnanswered(r) ==
  /\ pc[r] = "creating"
  /\ posts' = posts \union {r}
  /\ Forgotten(r)
  /\ Lapse({PendingOf[r]})
  /\ Reply(r, "failed")
  /\ UNCHANGED <<carried, found>>

\* The cache learns the id of the post, under whatever id the post carries.
Record(r) ==
  /\ pc[r] = "saved"
  /\ CacheAdd(carried[r], r, "later")
  /\ Lapse(Losing(carried[r]))
  /\ Goto(r, "posting")
  /\ UNCHANGED <<carried, found, reply, posts>>

\* After the events of the post, the deferred function adds it again.
Finish(r) ==
  /\ pc[r] = "posting"
  /\ \/ carried[r] = NoId /\ UNCHANGED <<cacheVars, lapsed>>
     \/ /\ carried[r] # NoId
        /\ CacheAdd(carried[r], r, "later")
        /\ Lapse(Losing(carried[r]))
  /\ Reply(r, r)
  /\ UNCHANGED <<carried, found, posts>>

\* PENDING_POST_IDS_CACHE_TTL is over for the entry of k.
Forget(k) == Expire(k) /\ Lapse({k}) /\ UNCHANGED reqVars

Serve(r) ==
  Fetch(r) \/ Replace(r) \/ FailPost(r) \/ SavePost(r) \/ SaveUnanswered(r) \/ Record(r) \/ Finish(r)

PostNext == \/ \E r \in Requests : LookUp(r) \/ Serve(r)
            \/ \E k \in Keys : Forget(k)

PostSpec == PostInit /\ [][PostNext]_postVars

FairPostSpec == PostSpec /\ \A r \in Requests : WF_postVars(Serve(r))

----------------------------------------------------------------------------
(* Properties. *)

\* The types of the state.
PostTypeOK ==
  /\ CacheTypeOK
  /\ pc \in [Requests -> {"idle", "fetching", "creating", "saved", "posting", "done"}]
  /\ carried \in [Requests -> Keys]
  /\ found \in [Requests -> Requests \union {Unknown}]
  /\ reply \in [Requests -> Requests \union {None, "pending", "failed"}]
  /\ posts \subseteq Requests
  /\ lapsed \subseteq Keys

\* Requests with one pending id create one post, however they race, fail and
\* are repeated, unless the cache forgot the id while it was in use.
OnePost == \A p \in Keys \ (lapsed \union {NoId}) : Cardinality(PostsOf(p)) <= 1

\* A client is answered with a post that is in the database and was created
\* for its pending id, its own or that of an earlier request.
RightReply == \A r \in Requests : reply[r] \in Requests =>
  /\ reply[r] \in posts
  /\ PendingOf[reply[r]] = PendingOf[r]

\* An id that answers "pending" belongs to a request that is still creating the
\* post: a client is never told to wait for nobody, unless a plugin dropped
\* the id from the post.
PendingIsOwned == \A p \in Keys \ {NoId} :
  Valid(cache, p) /\ cache.items[p].value = Unknown =>
    \E r \in Requests : /\ PendingOf[r] = p
                        /\ pc[r] \in {"creating", "saved"} \/ carried[r] # p

\* ... and so it stops being pending, without waiting for the cache to forget.
IsPending(p) == Valid(cache, p) /\ cache.items[p].value = Unknown
Dropped(p) == \E r \in Requests : PendingOf[r] = p /\ carried[r] # p
PendingEnds == \A p \in Keys \ {NoId} : IsPending(p) ~> ~IsPending(p) \/ Dropped(p)
=============================================================================

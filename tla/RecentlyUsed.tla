---------------------------- MODULE RecentlyUsed ----------------------------
(***************************************************************************)
(* What a user of the cache relies on: a map of at most Size keys that     *)
(* answers with the value last put for a key, until it expires, and that   *)
(* forgets the key not used for the longest time when it needs the place.  *)
(***************************************************************************)
EXTENDS KeyLists

CONSTANTS Keys, Values, Size,
          None    \* the answer for a key that is not held

VARIABLES recent,   \* the keys that are held, the last used one in front
          content,  \* what each of them holds
          answer    \* the answer to the last operation

mapVars == <<recent, content, answer>>

Contents == [value : Values, expires : {"never", "later", "past"}]

Answers == [value : Values \union {None}, loaded : BOOLEAN]

Miss == [value |-> None, loaded |-> FALSE]
Hit(k) == [value |-> content[k].value, loaded |-> TRUE]

Fresh(k) == k \in Elems(recent) /\ content[k].expires # "past"

\* The keys of s, with d for the key k.
Holding(s, k, d) == [x \in Elems(s) |-> IF x = k THEN d ELSE content[x]]

MapInit == recent = <<>> /\ content = [k \in {} |-> Miss] /\ answer = Miss

Put(k, d) ==
  /\ recent' = Take(Front(recent, k), Size)
  /\ content' = Holding(recent', k, d)

MapAdd(k, d) == Put(k, d) /\ answer' = Miss

Use(k) ==
  /\ Fresh(k)
  /\ recent' = Front(recent, k)
  /\ answer' = Hit(k)
  /\ UNCHANGED content

Forget(k) ==
  /\ recent' = Without(recent, k)
  /\ content' = [x \in Elems(recent') |-> content[x]]
  /\ answer' = Miss

MapGet(k) == Use(k) \/ (~Fresh(k) /\ Forget(k))

MapGetOrAdd(k, d) ==
  \/ Use(k)
  \/ ~Fresh(k) /\ Put(k, d) /\ answer' = [value |-> d.value, loaded |-> FALSE]

MapPurge ==
  /\ recent' = <<>>
  /\ content' = [k \in {} |-> Miss]
  /\ answer' = Miss

MapExpire(k) ==
  /\ Fresh(k) /\ content[k].expires = "later"
  /\ content' = [content EXCEPT ![k].expires = "past"]
  /\ UNCHANGED <<recent, answer>>

MapNext ==
  \/ \E k \in Keys : MapGet(k) \/ Forget(k) \/ MapExpire(k)
  \/ \E k \in Keys, d \in Contents : d.expires # "past" /\ (MapAdd(k, d) \/ MapGetOrAdd(k, d))
  \/ MapPurge

MapSpec == MapInit /\ [][MapNext]_mapVars
=============================================================================

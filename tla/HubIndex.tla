------------------------------ MODULE HubIndex ------------------------------
(***************************************************************************)
(* The index a hub keeps of its WebSocket connections (hubConnectionIndex) *)
(* and the iteration of a broadcast over it.                               *)
(*                                                                         *)
(* The index is two kinds of unordered array, one of all connections and   *)
(* one for each user, and for each connection its place in both.  Removing *)
(* moves the last element of an array into the gap.  A broadcast ranges    *)
(* over one of the arrays and removes from it the connections it cannot    *)
(* send to: the loop keeps the length of the array it started with, and    *)
(* sees what the removals write into it.                                   *)
(***************************************************************************)
EXTENDS Naturals, Sequences

CONSTANTS Conns,     \* WebSocket connections
          Users,
          UserOf,    \* the user a connection authenticates as
          Everyone   \* the target of a broadcast that names no user

ASSUME HubIndexAssumption ==
  /\ UserOf \in [Conns -> Users]
  /\ Everyone \notin Users

Targets == Users \union {Everyone}

VARIABLES
  all,       \* connections
  byUser,    \* connectionsByUserId
  posAll,    \* connectionIndexes[c].connections, or 0 when c has no entry
  posUser,   \* connectionIndexes[c].connectionsByUserId, or 0
  target,    \* the target of the broadcast under way
  cand,      \* its candidates: the array as the loop sees it
  at,        \* the place the loop has reached, 0 between broadcasts
  due        \* history: the connections it has still to visit

tableVars == <<all, byUser, posAll, posUser>>
loopVars == <<target, cand, at, due>>
indexVars == <<tableVars, loopVars>>

IndexTypeOK ==
  /\ all \in Seq(Conns)
  /\ byUser \in [Users -> Seq(Conns)]
  /\ posAll \in [Conns -> Nat]
  /\ posUser \in [Conns -> Nat]
  /\ target \in Targets
  /\ cand \in Seq(Conns)
  /\ at \in Nat
  /\ due \subseteq Conns

Registered == {c \in Conns : posAll[c] > 0}

EmptyTables ==
  /\ all = <<>>
  /\ byUser = [u \in Users |-> <<>>]
  /\ posAll = [c \in Conns |-> 0]
  /\ posUser = [c \in Conns |-> 0]

EmptyLoop == target = Everyone /\ cand = <<>> /\ at = 0 /\ due = {}

IndexInit == EmptyTables /\ EmptyLoop

----------------------------------------------------------------------------

Add(c) ==
  LET u == UserOf[c] IN
  /\ all' = Append(all, c)
  /\ byUser' = [byUser EXCEPT ![u] = Append(@, c)]
  /\ posAll' = [posAll EXCEPT ![c] = Len(all) + 1]
  /\ posUser' = [posUser EXCEPT ![c] = Len(byUser[u]) + 1]

\* The last element of s moves to place p, and s loses its last place.
Cut(s, p) == [k \in 1..(Len(s) - 1) |-> IF k = p THEN s[Len(s)] ELSE s[k]]

\* The connection moved from the last place gets the place of c, which gets
\* none.  `Forgetful' is the form without the update of the moved one.
Forgetful(pos, s, c) == [pos EXCEPT ![c] = 0]
Moved(pos, s, c) == [pos EXCEPT ![s[Len(s)]] = pos[c], ![c] = 0]

Remove(c) ==
  LET u == UserOf[c] IN
  IF posAll[c] = 0
  THEN UNCHANGED tableVars
  ELSE /\ all' = Cut(all, posAll[c])
       /\ byUser' = [byUser EXCEPT ![u] = Cut(@, posUser[c])]
       /\ posAll' = Moved(posAll, all, c)
       /\ posUser' = Moved(posUser, byUser[u], c)

ArrayOf(t) == IF t = Everyone THEN all ELSE byUser[t]

\* The loop of a broadcast starts.
Iterate(t) ==
  /\ at = 0
  /\ target' = t
  /\ cand' = ArrayOf(t)
  /\ at' = 1
  /\ due' = {c \in Registered : t \in {Everyone, UserOf[c]}}

Visiting == at \in 1..Len(cand)
Visited == cand[at]

\* The loop goes on; the connection stays.
Keep ==
  /\ at' = at + 1
  /\ due' = due \ {Visited}
  /\ UNCHANGED <<target, cand>>

\* The connection is removed: the array under the loop changes with it.
Drop ==
  LET c == Visited
      s == ArrayOf(target)
      p == IF target = Everyone THEN posAll[c] ELSE posUser[c]
  IN  /\ cand' = IF posAll[c] = 0 THEN cand ELSE [cand EXCEPT ![p] = s[Len(s)]]
      /\ at' = at + 1
      /\ due' = due \ {c}
      /\ UNCHANGED target
      /\ Remove(c)

EndLoop ==
  /\ at > Len(cand)
  /\ target' = Everyone /\ cand' = <<>> /\ at' = 0 /\ due' = {}

\* Between broadcasts the hub registers connections it does not hold and
\* unregisters any.
IndexNext ==
  \/ /\ at = 0
     /\ \/ \E c \in Conns \ Registered : Add(c)
        \/ \E c \in Conns : Remove(c)
     /\ UNCHANGED loopVars
  \/ /\ \/ \E t \in Targets : Iterate(t)
        \/ Visiting /\ Keep
        \/ EndLoop
     /\ UNCHANGED tableVars
  \/ Visiting /\ Drop

IndexSpec == IndexInit /\ [][IndexNext]_indexVars

----------------------------------------------------------------------------
(* Properties.                                                             *)

\* Each connection of the index is in the array of all connections and in
\* that of its user, once, and its two entries say where; nothing else is in
\* the arrays (hubConnectionIndex.Add, Remove).
Consistent ==
  /\ \A c \in Registered :
       /\ posAll[c] <= Len(all) /\ all[posAll[c]] = c
       /\ posUser[c] \in 1..Len(byUser[UserOf[c]])
       /\ byUser[UserOf[c]][posUser[c]] = c
  /\ \A i \in 1..Len(all) : posAll[all[i]] = i
  /\ \A u \in Users : \A i \in 1..Len(byUser[u]) :
       /\ UserOf[byUser[u][i]] = u
       /\ posUser[byUser[u][i]] = i
       /\ byUser[u][i] \in Registered

\* A broadcast comes to every connection it is for exactly once, though it
\* removes connections from the array it walks (Hub.Start, case broadcast).
VisitOnce ==
  at > 0 =>
    /\ due = {cand[i] : i \in at..Len(cand)}
    /\ \A i, j \in at..Len(cand) : cand[i] = cand[j] => i = j
=============================================================================

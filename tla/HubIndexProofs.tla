--------------------------- MODULE HubIndexProofs ---------------------------
(***************************************************************************)
(* The index of a hub and its broadcast loop are correct for any number of *)
(* connections and users and any sequence of operations.  The lemmas at    *)
(* the end are about an index to which a connection is added again.        *)
(***************************************************************************)
EXTENDS HubIndex, TLAPS

\* The place of c in the array that the broadcast walks.
Place(c) == IF target = Everyone THEN posAll[c] ELSE posUser[c]

\* A removal writes at or before the place the loop has reached, so that what
\* is left of the loop is not disturbed: whatever has still to be visited may
\* have moved towards the front, never towards the back.
Behind ==
  at > 0 => \A j \in at..Len(cand) :
    /\ Place(cand[j]) \in 1..j
    /\ cand[j] \in Registered
    /\ target \in {Everyone, UserOf[cand[j]]}

IndexInv == IndexTypeOK /\ Consistent /\ VisitOnce /\ Behind

----------------------------------------------------------------------------
(* The arrays.                                                             *)

\* What Cut returns.
LEMMA CutProperties ==
  ASSUME NEW s \in Seq(Conns), NEW p \in 1..Len(s)
  PROVE  /\ Cut(s, p) \in Seq(Conns)
         /\ Len(Cut(s, p)) = Len(s) - 1
         /\ \A k \in 1..(Len(s) - 1) :
              Cut(s, p)[k] = IF k = p THEN s[Len(s)] ELSE s[k]
<1>1. Len(s) \in Nat /\ Len(s) >= 1 /\ Len(s) - 1 \in Nat
  OBVIOUS
<1>2. \A k \in 1..(Len(s) - 1) : s[k] \in Conns /\ s[Len(s)] \in Conns
  BY <1>1
<1>3. Cut(s, p) \in [1..(Len(s) - 1) -> Conns]
  BY <1>2 DEF Cut
<1>4. Cut(s, p) \in Seq(Conns) /\ Len(Cut(s, p)) = Len(s) - 1
  <2> DEFINE n == Len(s) - 1
  <2>1. n \in Nat /\ Cut(s, p) \in [1..n -> Conns]
    BY <1>1, <1>3
  <2> HIDE DEF n
  <2>2. Cut(s, p) \in Seq(Conns) /\ Len(Cut(s, p)) = n
    BY <2>1
  <2>3. QED
    BY <2>2 DEF n
<1>5. QED
  BY <1>4 DEF Cut

\* The connection c has its place in the array s, whose places are pos.
InPlace(s, pos, c) ==
  /\ pos[c] \in 1..Len(s) /\ s[pos[c]] = c
  /\ \A i \in 1..Len(s) : pos[s[i]] = i

\* s2, with the places pos2, is s without c: everything else stays in the
\* array, in the place pos2 says.
Without(s, pos, c, s2, pos2) ==
  /\ s2 \in Seq(Conns)
  /\ Len(s2) = Len(s) - 1
  /\ pos2 \in [Conns -> Nat]
  /\ pos2[c] = 0
  /\ s[Len(s)] # c => pos2[s[Len(s)]] = pos[c]
  /\ \A d \in Conns \ {c, s[Len(s)]} : pos2[d] = pos[d]
  /\ \A i \in 1..Len(s2) :
       /\ pos2[s2[i]] = i
       /\ s2[i] # c
       /\ \E k \in 1..Len(s) : s2[i] = s[k]
  /\ \A d \in Conns \ {c} :
       pos[d] \in 1..Len(s) /\ s[pos[d]] = d =>
         pos2[d] \in 1..Len(s2) /\ s2[pos2[d]] = d

LEMMA RemoveFromArray ==
  ASSUME NEW s \in Seq(Conns), NEW pos \in [Conns -> Nat], NEW c \in Conns,
         InPlace(s, pos, c)
  PROVE  Without(s, pos, c, Cut(s, pos[c]), Moved(pos, s, c))
<1> USE DEF InPlace
<1> DEFINE s2 == Cut(s, pos[c])
           pos2 == Moved(pos, s, c)
           n == Len(s)
           p == pos[c]
           last == s[n]
<1>1. n \in Nat /\ n >= 1 /\ p \in 1..n /\ last \in Conns /\ pos[last] = n
  OBVIOUS
<1>2. /\ s2 \in Seq(Conns) /\ Len(s2) = n - 1
      /\ \A k \in 1..(n - 1) : s2[k] = IF k = p THEN last ELSE s[k]
  BY CutProperties
<1>3. /\ pos2 \in [Conns -> Nat] /\ pos2[c] = 0
      /\ last # c => pos2[last] = p
      /\ \A d \in Conns \ {c, last} : pos2[d] = pos[d]
  BY <1>1 DEF Moved
<1>4. last = c <=> p = n
  BY <1>1
<1>5. ASSUME NEW i \in 1..(n - 1)
      PROVE  /\ pos2[s2[i]] = i
             /\ s2[i] # c
             /\ \E k \in 1..n : s2[i] = s[k]
  <2>1. i \in 1..n /\ n \in 1..n /\ i # n
    BY <1>1
  <2>2. CASE i = p
    <3>1. s2[i] = last /\ last # c
      BY <1>1, <1>2, <1>4, <2>1, <2>2
    <3>2. QED
      BY <1>3, <2>1, <2>2, <3>1
  <2>3. CASE i # p
    <3>1. s2[i] = s[i] /\ pos[s[i]] = i /\ s[i] \in Conns
      <4>1. i \in 1..(n - 1)
        BY <1>5
      <4>2. s2[i] = s[i]
        BY <1>2, <2>3, <4>1
      <4>3. QED
        BY <2>1, <4>2
    <3>2. s[i] # c /\ s[i] # last
      BY <1>1, <2>1, <2>3, <3>1
    <3>3. QED
      BY <1>3, <2>1, <3>1, <3>2
  <2>4. QED
    BY <2>2, <2>3
<1>6. ASSUME NEW d \in Conns \ {c}, pos[d] \in 1..n, s[pos[d]] = d
      PROVE  pos2[d] \in 1..(n - 1) /\ s2[pos2[d]] = d
  <2>1. CASE d = last
    <3>1. pos2[d] = p /\ p \in 1..(n - 1)
      BY <1>1, <1>3, <1>4, <2>1
    <3>2. QED
      BY <1>2, <2>1, <3>1
  <2>2. CASE d # last
    <3>1. pos2[d] = pos[d] /\ pos[d] # n /\ pos[d] # p
      BY <1>1, <1>3, <1>6, <2>2
    <3>2. pos[d] \in 1..(n - 1)
      BY <1>1, <1>6, <3>1
    <3>3. QED
      BY <1>2, <1>6, <3>1, <3>2
  <2>3. QED
    BY <2>1, <2>2
<1> HIDE DEF s2, pos2
<1>7. /\ s2 \in Seq(Conns) /\ Len(s2) = n - 1
      /\ \A i \in 1..Len(s2) :
           /\ pos2[s2[i]] = i
           /\ s2[i] # c
           /\ \E k \in 1..Len(s) : s2[i] = s[k]
      /\ \A d \in Conns \ {c} :
           pos[d] \in 1..Len(s) /\ s[pos[d]] = d =>
             pos2[d] \in 1..Len(s2) /\ s2[pos2[d]] = d
  BY <1>2, <1>5, <1>6
<1>8. QED
  BY <1>3, <1>7 DEF Without, s2, pos2

----------------------------------------------------------------------------
(* Adding and removing.                                                    *)

\* The part of the invariant that is about the arrays alone.
Tables ==
  /\ all \in Seq(Conns)
  /\ byUser \in [Users -> Seq(Conns)]
  /\ posAll \in [Conns -> Nat]
  /\ posUser \in [Conns -> Nat]
  /\ Consistent

LEMMA AddKeepsTables ==
  ASSUME Tables, NEW c \in Conns, c \notin Registered, Add(c)
  PROVE  Tables'
<1> DEFINE u == UserOf[c]
           n == Len(all)
           m == Len(byUser[u])
<1> USE HubIndexAssumption
<1>1. u \in Users /\ n \in Nat /\ m \in Nat /\ posAll[c] = 0
  BY DEF Tables, Registered
<1>2. /\ all' \in Seq(Conns) /\ Len(all') = n + 1 /\ all'[n + 1] = c
      /\ \A i \in 1..n : all'[i] = all[i]
  BY DEF Tables, Add
<1>3. /\ byUser' \in [Users -> Seq(Conns)]
      /\ Len(byUser'[u]) = m + 1 /\ byUser'[u][m + 1] = c
      /\ \A i \in 1..m : byUser'[u][i] = byUser[u][i]
      /\ \A v \in Users \ {u} : byUser'[v] = byUser[v]
  BY <1>1 DEF Tables, Add
<1>4. /\ posAll' \in [Conns -> Nat] /\ posUser' \in [Conns -> Nat]
      /\ posAll'[c] = n + 1 /\ posUser'[c] = m + 1
      /\ \A d \in Conns \ {c} : posAll'[d] = posAll[d] /\ posUser'[d] = posUser[d]
  BY <1>1 DEF Tables, Add
<1>5. ASSUME NEW d \in Conns, posAll'[d] > 0
      PROVE  /\ posAll'[d] <= Len(all') /\ all'[posAll'[d]] = d
             /\ posUser'[d] \in 1..Len(byUser'[UserOf[d]])
             /\ byUser'[UserOf[d]][posUser'[d]] = d
  <2>1. CASE d = c
    <3>1. posAll'[d] <= Len(all') /\ all'[posAll'[d]] = d
      BY <1>1, <1>2, <1>4, <2>1
    <3>2. m + 1 \in 1..(m + 1)
      BY <1>1
    <3>3. QED
      BY <1>3, <1>4, <2>1, <3>1, <3>2
  <2>2. CASE d # c
    <3>1. /\ posAll[d] \in 1..n /\ all[posAll[d]] = d
          /\ posUser[d] \in 1..Len(byUser[UserOf[d]])
          /\ byUser[UserOf[d]][posUser[d]] = d
          /\ posAll'[d] = posAll[d] /\ posUser'[d] = posUser[d]
      BY <1>1, <1>4, <1>5, <2>2 DEF Tables, Consistent, Registered
    <3>2. posAll'[d] <= Len(all') /\ all'[posAll'[d]] = d
      BY <1>1, <1>2, <3>1
    <3>3. CASE UserOf[d] = u
      <4>1. posUser[d] \in 1..m /\ byUser[u][posUser[d]] = d
        BY <3>1, <3>3
      <4>2. posUser[d] \in 1..(m + 1) /\ byUser'[u][posUser[d]] = d
        BY <1>1, <1>3, <4>1
      <4>3. QED
        BY <1>3, <3>1, <3>2, <3>3, <4>2
    <3>4. CASE UserOf[d] # u
      BY <1>3, <3>1, <3>2, <3>4
    <3>5. QED
      BY <3>3, <3>4
  <2>3. QED
    BY <2>1, <2>2
<1>6. ASSUME NEW i \in 1..Len(all')
      PROVE  posAll'[all'[i]] = i
  <2>1. CASE i = n + 1
    BY <1>2, <1>4, <2>1
  <2>2. CASE i # n + 1
    <3>1. i \in 1..n /\ all'[i] = all[i] /\ all[i] \in Conns /\ posAll[all[i]] = i
      <4>1. i \in 1..n
        BY <1>1, <1>2, <1>6, <2>2
      <4>2. all[i] \in Conns /\ posAll[all[i]] = i
        BY <4>1 DEF Tables, Consistent
      <4>3. QED
        BY <1>2, <4>1, <4>2
    <3>2. all[i] # c
      BY <1>1, <3>1
    <3>3. QED
      BY <1>4, <3>1, <3>2
  <2>3. QED
    BY <2>1, <2>2
<1>7. ASSUME NEW v \in Users, NEW i \in 1..Len(byUser'[v])
      PROVE  /\ UserOf[byUser'[v][i]] = v
             /\ posUser'[byUser'[v][i]] = i
             /\ posAll'[byUser'[v][i]] > 0 /\ byUser'[v][i] \in Conns
  <2>1. CASE v = u /\ i = m + 1
    BY <1>1, <1>3, <1>4, <2>1
  <2>2. CASE ~(v = u /\ i = m + 1)
    <3>1. i \in 1..Len(byUser[v]) /\ byUser'[v][i] = byUser[v][i]
      BY <1>1, <1>3, <2>2
    <3>2. /\ byUser[v][i] \in Conns /\ UserOf[byUser[v][i]] = v
          /\ posUser[byUser[v][i]] = i /\ posAll[byUser[v][i]] > 0
      BY <3>1 DEF Tables, Consistent, Registered
    <3>3. byUser[v][i] # c
      BY <1>1, <3>2
    <3>4. QED
      BY <1>4, <3>1, <3>2, <3>3
  <2>3. QED
    BY <2>1, <2>2
<1> HIDE DEF u, n, m
<1>8. Consistent'
  BY <1>5, <1>6, <1>7 DEF Consistent, Registered
<1>9. QED
  BY <1>2, <1>3, <1>4, <1>8 DEF Tables

\* Remove keeps the arrays in order, forgets c, and moves other connections
\* only towards the front, to the places c had.
LEMMA RemoveKeepsTables ==
  ASSUME Tables, NEW c \in Conns, Remove(c)
  PROVE  /\ Tables'
         /\ posAll'[c] = 0
         /\ \A d \in Conns \ {c} : posAll'[d] > 0 <=> posAll[d] > 0
         /\ \A d \in Conns \ {c} : posAll[d] > 0 =>
              /\ posAll'[d] > 0
              /\ posAll'[d] \in {posAll[d], posAll[c]}
              /\ posAll'[d] = posAll[d] \/ d = all[Len(all)]
              /\ posUser'[d] \in {posUser[d], posUser[c]}
              /\ \/ posUser'[d] = posUser[d]
                 \/ d = byUser[UserOf[c]][Len(byUser[UserOf[c]])]
<1>1. CASE posAll[c] = 0
  BY <1>1 DEF Remove, tableVars, Tables, Consistent, Registered
<1>2. CASE posAll[c] # 0
  <2> DEFINE u == UserOf[c]
             s == byUser[u]
             lastA == all[Len(all)]
             lastU == s[Len(s)]
  <2> USE HubIndexAssumption
  <2>1. c \in Registered
    BY <1>2 DEF Registered, Tables
  <2>2. /\ all \in Seq(Conns) /\ posAll \in [Conns -> Nat]
        /\ posAll[c] \in 1..Len(all) /\ all[posAll[c]] = c
        /\ \A i \in 1..Len(all) : posAll[all[i]] = i
    BY <1>2, <2>1 DEF Tables, Consistent
  <2>3. /\ u \in Users /\ s \in Seq(Conns) /\ posUser \in [Conns -> Nat]
        /\ posUser[c] \in 1..Len(s) /\ s[posUser[c]] = c
        /\ \A i \in 1..Len(s) : posUser[s[i]] = i
    BY <2>1 DEF Tables, Consistent
  <2>4. /\ all' = Cut(all, posAll[c]) /\ posAll' = Moved(posAll, all, c)
        /\ byUser' = [byUser EXCEPT ![u] = Cut(s, posUser[c])]
        /\ posUser' = Moved(posUser, s, c)
    BY <1>2 DEF Remove
  <2>5. /\ all' \in Seq(Conns) /\ posAll' \in [Conns -> Nat] /\ posAll'[c] = 0
        /\ lastA # c => posAll'[lastA] = posAll[c]
        /\ \A d \in Conns \ {c, lastA} : posAll'[d] = posAll[d]
        /\ \A i \in 1..Len(all') : posAll'[all'[i]] = i
        /\ \A d \in Conns \ {c} :
             posAll[d] \in 1..Len(all) /\ all[posAll[d]] = d =>
               posAll'[d] \in 1..Len(all') /\ all'[posAll'[d]] = d
    <3>1. Without(all, posAll, c, all', posAll')
      BY <2>2, <2>4, RemoveFromArray DEF InPlace
    <3>2. QED
      BY <3>1 DEF Without
  <2>6. /\ byUser'[u] \in Seq(Conns) /\ posUser' \in [Conns -> Nat]
        /\ lastU # c => posUser'[lastU] = posUser[c]
        /\ \A d \in Conns \ {c, lastU} : posUser'[d] = posUser[d]
        /\ \A i \in 1..Len(byUser'[u]) :
             /\ posUser'[byUser'[u][i]] = i
             /\ byUser'[u][i] # c
             /\ \E k \in 1..Len(s) : byUser'[u][i] = s[k]
        /\ \A d \in Conns \ {c} :
             posUser[d] \in 1..Len(s) /\ s[posUser[d]] = d =>
               posUser'[d] \in 1..Len(byUser'[u]) /\ byUser'[u][posUser'[d]] = d
    <3>1. byUser'[u] = Cut(s, posUser[c])
      BY <2>3, <2>4 DEF Tables
    <3>2. Without(s, posUser, c, byUser'[u], posUser')
      BY <2>3, <2>4, <3>1, RemoveFromArray DEF InPlace
    <3>3. QED
      BY <3>2 DEF Without
  <2>7. byUser' \in [Users -> Seq(Conns)]
        /\ \A v \in Users \ {u} : byUser'[v] = byUser[v]
    BY <2>3, <2>4, <2>6 DEF Tables
  <2>8. /\ lastA \in Conns /\ posAll[lastA] > 0
        /\ lastU \in Conns /\ UserOf[lastU] = u /\ posAll[lastU] > 0
    <3>1. Len(all) \in 1..Len(all) /\ Len(s) \in 1..Len(s)
      BY <2>2, <2>3
    <3>2. lastU \in Conns /\ UserOf[lastU] = u /\ lastU \in Registered
      <4>1. \A v \in Users : \A i \in 1..Len(byUser[v]) :
              byUser[v][i] \in Registered /\ UserOf[byUser[v][i]] = v
        BY DEF Tables, Consistent
      <4>2. QED
        BY <2>3, <3>1, <4>1 DEF Registered
    <3>3. lastA \in Conns /\ posAll[lastA] = Len(all)
      BY <2>2, <3>1
    <3>4. QED
      BY <2>2, <3>1, <3>2, <3>3 DEF Registered
  <2>9. \A d \in Conns \ {c} :
          /\ posAll'[d] > 0 <=> posAll[d] > 0
          /\ posAll'[d] \in {posAll[d], posAll[c]}
          /\ posAll'[d] = posAll[d] \/ d = lastA
          /\ posUser'[d] \in {posUser[d], posUser[c]}
          /\ posUser'[d] = posUser[d] \/ d = lastU
    <3>1. posAll[c] > 0
      BY <2>2
    <3>2. ASSUME NEW d \in Conns \ {c}
          PROVE  /\ posAll'[d] > 0 <=> posAll[d] > 0
                 /\ posAll'[d] \in {posAll[d], posAll[c]}
                 /\ posAll'[d] = posAll[d] \/ d = lastA
      BY <2>5, <2>8, <3>1
    <3>3. ASSUME NEW d \in Conns \ {c}
          PROVE  /\ posUser'[d] \in {posUser[d], posUser[c]}
                 /\ posUser'[d] = posUser[d] \/ d = lastU
      BY <2>6
    <3>4. QED
      BY <3>2, <3>3
  <2>10. ASSUME NEW d \in Conns, posAll'[d] > 0
         PROVE  /\ posAll'[d] <= Len(all') /\ all'[posAll'[d]] = d
                /\ posUser'[d] \in 1..Len(byUser'[UserOf[d]])
                /\ byUser'[UserOf[d]][posUser'[d]] = d
    <3>1. d # c /\ d \in Registered
      BY <2>5, <2>9, <2>10 DEF Registered
    <3>2. /\ posAll[d] \in 1..Len(all) /\ all[posAll[d]] = d
          /\ posUser[d] \in 1..Len(byUser[UserOf[d]])
          /\ byUser[UserOf[d]][posUser[d]] = d
      BY <3>1, <2>2 DEF Tables, Consistent, Registered
    <3>3. posAll'[d] \in 1..Len(all') /\ all'[posAll'[d]] = d
      BY <2>5, <3>1, <3>2
    <3>4. CASE UserOf[d] = u
      BY <2>6, <3>1, <3>2, <3>3, <3>4
    <3>5. CASE UserOf[d] # u
      <4>1. posUser'[d] = posUser[d] /\ byUser'[UserOf[d]] = byUser[UserOf[d]]
        BY <2>7, <2>8, <2>9, <3>1, <3>5
      <4>2. QED
        BY <3>2, <3>3, <4>1
    <3>6. QED
      BY <3>4, <3>5
  <2>11. ASSUME NEW v \in Users, NEW i \in 1..Len(byUser'[v])
         PROVE  /\ UserOf[byUser'[v][i]] = v
                /\ posUser'[byUser'[v][i]] = i
                /\ posAll'[byUser'[v][i]] > 0 /\ byUser'[v][i] \in Conns
    <3>1. CASE v = u
      <4>1. PICK k \in 1..Len(s) : byUser'[u][i] = s[k]
        BY <2>6, <2>11, <3>1
      <4>2. s[k] \in Conns /\ UserOf[s[k]] = u /\ posAll[s[k]] > 0
        BY <2>3 DEF Tables, Consistent, Registered
      <4>3. QED
        BY <2>6, <2>9, <2>11, <3>1, <4>1, <4>2
    <3>2. CASE v # u
      <4>1. byUser'[v] = byUser[v] /\ i \in 1..Len(byUser[v])
        BY <2>7, <2>11, <3>2
      <4>2. /\ byUser[v][i] \in Conns /\ UserOf[byUser[v][i]] = v
            /\ posUser[byUser[v][i]] = i /\ posAll[byUser[v][i]] > 0
        BY <4>1 DEF Tables, Consistent, Registered
      <4>3. byUser[v][i] # c /\ byUser[v][i] # lastU
        BY <2>8, <3>2, <4>2
      <4>4. QED
        BY <2>9, <4>1, <4>2, <4>3
    <3>3. QED
      BY <3>1, <3>2
  <2> HIDE DEF u, s, lastA, lastU
  <2>12. Tables'
    <3>1. Consistent'
      BY <2>5, <2>10, <2>11 DEF Consistent, Registered
    <3>2. QED
      BY <2>5, <2>6, <2>7, <3>1 DEF Tables
  <2>13. QED
    BY <2>5, <2>9, <2>12 DEF u, s, lastA, lastU
<1>3. QED
  BY <1>1, <1>2

----------------------------------------------------------------------------
(* The operations and the loop.                                            *)

LEMMA TablesOfInv == IndexInv => Tables
  BY DEF IndexInv, IndexTypeOK, Tables

LEMMA InitIndexInv == IndexInit => IndexInv
<1> SUFFICES ASSUME IndexInit PROVE IndexInv
  OBVIOUS
<1>1. IndexTypeOK
  BY DEF IndexInit, EmptyTables, EmptyLoop, IndexTypeOK, Targets
<1>2. Consistent
  BY DEF IndexInit, EmptyTables, Consistent, Registered
<1>3. VisitOnce /\ Behind
  BY DEF IndexInit, EmptyLoop, VisitOnce, Behind
<1>4. QED
  BY <1>1, <1>2, <1>3 DEF IndexInv

\* Between broadcasts.
LEMMA TableStep ==
  ASSUME IndexInv, at = 0, UNCHANGED loopVars, Tables'
  PROVE  IndexInv'
<1>1. at' = 0
  BY DEF loopVars
<1>2. IndexTypeOK'
  BY DEF IndexInv, IndexTypeOK, loopVars, Tables
<1>3. Consistent'
  BY DEF Tables
<1>4. QED
  BY <1>1, <1>2, <1>3 DEF IndexInv, VisitOnce, Behind

LEMMA IterateStep ==
  ASSUME IndexInv, NEW t \in Targets, Iterate(t), UNCHANGED tableVars
  PROVE  IndexInv'
<1> USE HubIndexAssumption DEF tableVars
<1>1. Tables /\ Tables' /\ UNCHANGED Registered
  BY TablesOfInv DEF Tables, Consistent, Registered
<1>2. /\ at' = 1 /\ target' = t /\ cand' = ArrayOf(t)
      /\ due' = {c \in Registered : t \in {Everyone, UserOf[c]}}
  BY DEF Iterate
<1>3. CASE t = Everyone
  <2>1. cand' = all /\ all \in Seq(Conns)
    BY <1>1, <1>2, <1>3 DEF ArrayOf, Tables
  <2>2. \A i \in 1..Len(all) :
          all[i] \in Conns /\ posAll[all[i]] = i /\ all[i] \in Registered
    BY <1>1, <2>1 DEF Tables, Consistent, Registered
  <2>3. due' = Registered
    BY <1>2, <1>3 DEF Registered
  <2>4. Registered = {all[i] : i \in 1..Len(all)}
    <3>1. ASSUME NEW c \in Registered
          PROVE  posAll[c] \in 1..Len(all) /\ all[posAll[c]] = c
      <4>1. c \in Conns /\ posAll[c] \in Nat /\ posAll[c] > 0
        BY <1>1 DEF Tables, Registered
      <4>2. posAll[c] <= Len(all) /\ all[posAll[c]] = c
        BY <1>1 DEF Tables, Consistent
      <4>3. QED
        BY <2>1, <4>1, <4>2
    <3>2. QED
      BY <2>2, <3>1
  <2>5. IndexTypeOK'
    BY <1>1, <1>2, <2>1, <2>3 DEF IndexTypeOK, Tables, Registered
  <2>6. VisitOnce'
    BY <1>2, <2>1, <2>2, <2>3, <2>4 DEF VisitOnce
  <2>7. Behind'
    BY <1>1, <1>2, <1>3, <2>1, <2>2 DEF Behind, Place
  <2>8. QED
    BY <1>1, <2>5, <2>6, <2>7 DEF IndexInv, Tables
<1>4. CASE t # Everyone
  <2> DEFINE s == byUser[t]
  <2>1. t \in Users /\ cand' = s /\ s \in Seq(Conns)
    BY <1>1, <1>2, <1>4 DEF ArrayOf, Tables, Targets
  <2>2. \A i \in 1..Len(s) :
          /\ s[i] \in Conns /\ posUser[s[i]] = i
          /\ s[i] \in Registered /\ UserOf[s[i]] = t
    BY <1>1, <2>1 DEF Tables, Consistent, Registered
  <2>3. due' = {c \in Registered : UserOf[c] = t}
    BY <1>2, <1>4 DEF Registered
  <2>4. {c \in Registered : UserOf[c] = t} = {s[i] : i \in 1..Len(s)}
    <3>1. \A c \in Registered : UserOf[c] = t =>
            posUser[c] \in 1..Len(s) /\ s[posUser[c]] = c
      BY <1>1 DEF Tables, Consistent, Registered
    <3>2. QED
      BY <2>2, <3>1
  <2>5. IndexTypeOK'
    BY <1>1, <1>2, <2>1, <2>3 DEF IndexTypeOK, Tables, Registered
  <2>6. VisitOnce'
    BY <1>2, <2>1, <2>2, <2>3, <2>4 DEF VisitOnce
  <2>7. Behind'
    BY <1>1, <1>2, <1>4, <2>1, <2>2 DEF Behind, Place
  <2>8. QED
    BY <1>1, <2>5, <2>6, <2>7 DEF IndexInv, Tables
<1>5. QED
  BY <1>3, <1>4

\* What is left of the loop after a step of it.
LEMMA LoopStep ==
  ASSUME IndexInv, Visiting, at' = at + 1, due' = due \ {Visited},
         target' = target, cand' \in Seq(Conns), Len(cand') = Len(cand),
         \A j \in (at + 1)..Len(cand) : cand'[j] = cand[j],
         Tables',
         \A j \in (at + 1)..Len(cand) :
           cand[j] \in Registered' /\ Place(cand[j])' \in 1..j
  PROVE  IndexInv'
<1>1. /\ at \in 1..Len(cand) /\ Len(cand) \in Nat /\ at \in Nat
      /\ due = {cand[i] : i \in at..Len(cand)}
      /\ \A i, j \in at..Len(cand) : cand[i] = cand[j] => i = j
  <2>1. at \in 1..Len(cand) /\ cand \in Seq(Conns) /\ at \in Nat
    BY DEF IndexInv, IndexTypeOK, Visiting
  <2>2. at > 0
    BY <2>1
  <2>3. QED
    BY <2>1, <2>2 DEF IndexInv, VisitOnce
<1>2. IndexTypeOK'
  <2>1. due' \subseteq Conns /\ at' \in Nat /\ target' \in Targets
    BY <1>1 DEF IndexInv, IndexTypeOK
  <2>2. QED
    BY <2>1 DEF IndexTypeOK, Tables
<1>3. VisitOnce'
  <2>1. at..Len(cand) = {at} \union (at + 1)..Len(cand)
    BY <1>1
  <2>2. due' = {cand[i] : i \in (at + 1)..Len(cand)}
    BY <1>1, <2>1 DEF Visited
  <2>3. {cand[i] : i \in (at + 1)..Len(cand)} =
          {cand'[i] : i \in (at + 1)..Len(cand)}
    OBVIOUS
  <2>4. \A i, j \in (at + 1)..Len(cand) : cand'[i] = cand'[j] => i = j
    BY <1>1, <2>1
  <2>5. QED
    BY <2>2, <2>3, <2>4 DEF VisitOnce
<1>4. Behind'
  <2>1. \A j \in (at + 1)..Len(cand) : target \in {Everyone, UserOf[cand[j]]}
    BY <1>1 DEF IndexInv, Behind
  <2>2. QED
    BY <2>1 DEF Behind, Place
<1>5. QED
  BY <1>2, <1>3, <1>4 DEF IndexInv, Tables

LEMMA KeepStep ==
  ASSUME IndexInv, Visiting, Keep, UNCHANGED tableVars
  PROVE  IndexInv'
<1>1. Tables'
  BY TablesOfInv DEF Tables, Consistent, Registered, tableVars
<1>2. at \in Nat /\ at > 0 /\ cand \in Seq(Conns)
  BY DEF IndexInv, IndexTypeOK, Visiting
<1>3. \A j \in (at + 1)..Len(cand) :
        cand[j] \in Registered' /\ Place(cand[j])' \in 1..j
  BY <1>2 DEF IndexInv, Behind, Place, Registered, Keep, tableVars
<1>4. QED
  BY <1>1, <1>2, <1>3, LoopStep DEF Keep

LEMMA DropStep ==
  ASSUME IndexInv, Visiting, Drop
  PROVE  IndexInv'
<1> DEFINE c == Visited
           s == ArrayOf(target)
           p == Place(c)
<1>1. /\ at \in 1..Len(cand) /\ at \in Nat /\ cand \in Seq(Conns) /\ c \in Conns
      /\ target \in Targets
  BY DEF IndexInv, IndexTypeOK, Visiting, Visited
<1>2. c \in Registered /\ p \in 1..at /\ target \in {Everyone, UserOf[c]}
  BY <1>1 DEF IndexInv, Behind, Visited
<1>3. Tables /\ posAll[c] > 0
  BY <1>2, TablesOfInv DEF Registered
<1>4. /\ cand' = [cand EXCEPT ![p] = s[Len(s)]]
      /\ at' = at + 1 /\ due' = due \ {Visited} /\ target' = target /\ Remove(c)
  BY <1>3 DEF Drop, Place
<1>5. s \in Seq(Conns) /\ s[Len(s)] \in Conns
  <2>1. s \in Seq(Conns)
    BY <1>1, <1>3 DEF ArrayOf, Tables, Targets
  <2>2. p \in 1..Len(s)
    BY <1>2, <1>3 DEF ArrayOf, Place, Tables, Consistent, Registered
  <2>3. QED
    BY <2>1, <2>2
<1>6. /\ Tables'
      /\ \A d \in Conns \ {c} : posAll[d] > 0 =>
           /\ posAll'[d] > 0
           /\ posAll'[d] \in {posAll[d], posAll[c]}
           /\ posUser'[d] \in {posUser[d], posUser[c]}
  BY <1>1, <1>3, <1>4, RemoveKeepsTables
<1>7. /\ cand' \in Seq(Conns) /\ Len(cand') = Len(cand)
      /\ \A j \in (at + 1)..Len(cand) : cand'[j] = cand[j]
  BY <1>1, <1>2, <1>4, <1>5
<1>8. ASSUME NEW j \in (at + 1)..Len(cand)
      PROVE  cand[j] \in Registered' /\ Place(cand[j])' \in 1..j
  <2>1. j \in at..Len(cand) /\ at \in at..Len(cand) /\ j # at /\ j > at
    BY <1>1
  <2>2. cand[j] \in Registered /\ Place(cand[j]) \in 1..j /\ at > 0
    BY <1>1, <2>1 DEF IndexInv, Behind
  <2>3. cand[j] \in Conns \ {c}
    BY <1>1, <2>1, <2>2 DEF IndexInv, VisitOnce, Visited, Registered
  <2>4. posAll'[cand[j]] > 0
    BY <1>6, <2>2, <2>3 DEF Registered
  <2>5. Place(cand[j])' \in {Place(cand[j]), p}
    <3>1. /\ posAll'[cand[j]] \in {posAll[cand[j]], posAll[c]}
          /\ posUser'[cand[j]] \in {posUser[cand[j]], posUser[c]}
      BY <1>6, <2>2, <2>3 DEF Registered
    <3>2. CASE target = Everyone
      BY <1>4, <1>7, <3>1, <3>2 DEF Place
    <3>3. CASE target # Everyone
      BY <1>4, <1>7, <3>1, <3>3 DEF Place
    <3>4. QED
      BY <3>2, <3>3
  <2>6. QED
    BY <1>2, <2>1, <2>2, <2>3, <2>4, <2>5 DEF Registered
<1>9. QED
  BY <1>4, <1>6, <1>7, <1>8, LoopStep

LEMMA EndLoopStep ==
  ASSUME IndexInv, EndLoop, UNCHANGED tableVars
  PROVE  IndexInv'
<1>1. Tables'
  BY TablesOfInv DEF Tables, Consistent, Registered, tableVars
<1>2. IndexTypeOK'
  BY <1>1 DEF EndLoop, IndexTypeOK, Tables, Targets
<1>3. QED
  BY <1>1, <1>2 DEF EndLoop, IndexInv, VisitOnce, Behind, Tables

LEMMA NextIndexInv == IndexInv /\ [IndexNext]_indexVars => IndexInv'
<1> SUFFICES ASSUME IndexInv, [IndexNext]_indexVars PROVE IndexInv'
  OBVIOUS
<1>1. CASE UNCHANGED indexVars
  BY <1>1
     DEF indexVars, tableVars, loopVars, IndexInv, IndexTypeOK, Consistent,
         VisitOnce, Behind, Place, Registered
<1>2. ASSUME NEW c \in Conns \ Registered, at = 0, Add(c), UNCHANGED loopVars
      PROVE  IndexInv'
  BY <1>2, TablesOfInv, AddKeepsTables, TableStep
<1>3. ASSUME NEW c \in Conns, at = 0, Remove(c), UNCHANGED loopVars
      PROVE  IndexInv'
  BY <1>3, TablesOfInv, RemoveKeepsTables, TableStep
<1>4. QED
  BY <1>1, <1>2, <1>3, IterateStep, KeepStep, DropStep, EndLoopStep
     DEF IndexNext

THEOREM IndexInvariance == IndexSpec => []IndexInv
  BY InitIndexInv, NextIndexInv, PTL DEF IndexSpec

\* The arrays, the places in them and the loop over them keep their types: what
\* a removal cuts is a list again (hubConnectionIndex.Add, Remove).
THEOREM IndexTypes == IndexSpec => []IndexTypeOK
<1>1. IndexInv => IndexTypeOK
  BY DEF IndexInv
<1>2. QED
  BY <1>1, IndexInvariance, PTL

\* The arrays and the places in them agree, for any number of connections.
THEOREM IndexConsistent == IndexSpec => []Consistent
<1>1. IndexInv => Consistent
  BY DEF IndexInv
<1>2. QED
  BY <1>1, IndexInvariance, PTL

\* A broadcast reaches each of its connections exactly once, however many of
\* them it removes on its way.
THEOREM BroadcastVisitsOnce == IndexSpec => []VisitOnce
<1>1. IndexInv => VisitOnce
  BY DEF IndexInv
<1>2. QED
  BY <1>1, IndexInvariance, PTL

----------------------------------------------------------------------------
(* An index to which connections may be added again.  It is not Consistent *)
(* any more, but this is left of it.                                       *)

\* The connection c is in the array s where pos says, and perhaps elsewhere.
IsAt(s, pos, c) == pos[c] \in 1..Len(s) /\ s[pos[c]] = c

\* A connection the index knows is where its places say.
Listed ==
  \A c \in Registered :
    IsAt(all, posAll, c) /\ IsAt(byUser[UserOf[c]], posUser, c)

\* The array of a user, and what a broadcast to a user walks, are of
\* connections of that user.
Owned ==
  /\ \A u \in Users : \A i \in 1..Len(byUser[u]) : UserOf[byUser[u][i]] = u
  /\ target # Everyone => \A i \in 1..Len(cand) : UserOf[cand[i]] = target

ListInv == IndexTypeOK /\ Listed /\ Owned

\* The steps that leave the tables alone.
LEMMA ListFrame ==
  ASSUME ListInv, UNCHANGED indexVars
  PROVE  ListInv'
BY DEF ListInv, IndexTypeOK, Listed, IsAt, Owned, Registered, indexVars, tableVars, loopVars

LEMMA IterateListed ==
  ASSUME ListInv, NEW t \in Targets, Iterate(t), UNCHANGED tableVars
  PROVE  ListInv'
<1> USE DEF ListInv
<1>1. IndexTypeOK'
  BY DEF IndexTypeOK, Iterate, ArrayOf, Targets, Registered, tableVars
<1>2. Listed'
  BY DEF Listed, IsAt, Registered, tableVars
<1>3. Owned'
  BY DEF Owned, Iterate, ArrayOf, Targets, tableVars
<1>4. QED
  BY <1>1, <1>2, <1>3

LEMMA KeepListed ==
  ASSUME ListInv, Keep, UNCHANGED tableVars
  PROVE  ListInv'
BY DEF ListInv, Keep, IndexTypeOK, Listed, IsAt, Owned, Registered, tableVars

LEMMA EndLoopListed ==
  ASSUME ListInv, EndLoop, UNCHANGED tableVars
  PROVE  ListInv'
BY DEF ListInv, EndLoop, IndexTypeOK, Targets, Listed, IsAt, Owned, Registered, tableVars

LEMMA EmptyListed ==
  ASSUME EmptyTables', EmptyLoop'
  PROVE  ListInv'
BY HubIndexAssumption
   DEF EmptyTables, EmptyLoop, ListInv, IndexTypeOK, Targets, Listed, Owned, Registered

\* The last connection of the array of all has an entry: without one, Remove
\* finds no place to correct.
LastKnown == posAll[all[Len(all)]] > 0

\* A removal keeps the others where the new places say, though c, or another,
\* may be in the array more than once.
LEMMA OthersKeepPlaces ==
  ASSUME NEW s \in Seq(Conns), NEW pos \in [Conns -> Nat], NEW c \in Conns,
         NEW d \in Conns \ {c}, IsAt(s, pos, c), IsAt(s, pos, d)
  PROVE  IsAt(Cut(s, pos[c]), Moved(pos, s, c), d)
<1> USE DEF IsAt
<1> DEFINE s2 == Cut(s, pos[c])
           pos2 == Moved(pos, s, c)
           n == Len(s)
           p == pos[c]
           last == s[n]
<1>1. n \in Nat /\ n >= 1 /\ p \in 1..n /\ last \in Conns
  OBVIOUS
<1>2. /\ Len(s2) = n - 1
      /\ \A k \in 1..(n - 1) : s2[k] = IF k = p THEN last ELSE s[k]
  BY CutProperties
<1>3. pos2[d] = IF d = last THEN p ELSE pos[d]
  BY <1>1 DEF Moved
<1> HIDE DEF s2, pos2
<1>4. CASE d = last
  <2>1. p # n
    BY <1>1, <1>4
  <2>2. p \in 1..(n - 1)
    BY <1>1, <2>1
  <2>3. QED
    BY <1>2, <1>3, <1>4, <2>2 DEF s2, pos2
<1>5. CASE d # last
  <2>1. pos[d] # n /\ pos[d] # p
    BY <1>5
  <2>2. pos[d] \in 1..(n - 1)
    BY <1>1, <2>1
  <2>3. QED
    BY <1>2, <1>3, <1>5, <2>1, <2>2 DEF s2, pos2
<1>6. QED
  BY <1>4, <1>5

\* Adding a connection, known or not.
LEMMA AddKeepsListed ==
  ASSUME IndexTypeOK, Listed, Owned, NEW c \in Conns, Add(c), UNCHANGED loopVars
  PROVE  IndexTypeOK' /\ Listed' /\ Owned' /\ Registered' = Registered \union {c}
<1> USE HubIndexAssumption
<1> DEFINE u == UserOf[c]
           n == Len(all)
           m == Len(byUser[u])
<1>1. u \in Users /\ n \in Nat /\ m \in Nat
  BY DEF IndexTypeOK
<1>2. /\ all' \in Seq(Conns) /\ Len(all') = n + 1 /\ all'[n + 1] = c
      /\ \A i \in 1..n : all'[i] = all[i]
  BY DEF IndexTypeOK, Add
<1>3. /\ byUser' \in [Users -> Seq(Conns)]
      /\ Len(byUser'[u]) = m + 1 /\ byUser'[u][m + 1] = c
      /\ \A i \in 1..m : byUser'[u][i] = byUser[u][i]
      /\ \A v \in Users \ {u} : byUser'[v] = byUser[v]
  BY <1>1 DEF IndexTypeOK, Add
<1>4. /\ posAll' \in [Conns -> Nat] /\ posUser' \in [Conns -> Nat]
      /\ posAll'[c] = n + 1 /\ posUser'[c] = m + 1
      /\ \A d \in Conns \ {c} : posAll'[d] = posAll[d] /\ posUser'[d] = posUser[d]
  BY <1>1 DEF IndexTypeOK, Add
<1>5. Registered' = Registered \union {c}
  BY <1>1, <1>4 DEF Registered
<1>6. ASSUME NEW d \in Registered'
      PROVE  IsAt(all', posAll', d) /\ IsAt(byUser'[UserOf[d]], posUser', d)
  <2>1. CASE d = c
    <3>1. n + 1 \in 1..(n + 1) /\ m + 1 \in 1..(m + 1)
      BY <1>1
    <3>2. QED
      BY <1>2, <1>3, <1>4, <2>1, <3>1 DEF IsAt
  <2>2. CASE d # c
    <3>1. d \in Conns /\ d \in Registered
      BY <1>5, <2>2 DEF Registered
    <3>2. /\ posAll[d] \in 1..n /\ all[posAll[d]] = d
          /\ posUser[d] \in 1..Len(byUser[UserOf[d]])
          /\ byUser[UserOf[d]][posUser[d]] = d
          /\ posAll'[d] = posAll[d] /\ posUser'[d] = posUser[d]
      BY <1>4, <2>2, <3>1 DEF Listed, IsAt
    <3>3. IsAt(all', posAll', d)
      BY <1>1, <1>2, <3>2 DEF IsAt
    <3>4. CASE UserOf[d] = u
      <4>1. posUser[d] \in 1..m /\ byUser[u][posUser[d]] = d
        BY <3>2, <3>4
      <4>2. posUser[d] \in 1..(m + 1) /\ byUser'[u][posUser[d]] = d
        BY <1>1, <1>3, <4>1
      <4>3. QED
        BY <1>3, <3>2, <3>3, <3>4, <4>2 DEF IsAt
    <3>5. CASE UserOf[d] # u
      BY <1>3, <3>1, <3>2, <3>3, <3>5 DEF IsAt
    <3>6. QED
      BY <3>4, <3>5
  <2>3. QED
    BY <2>1, <2>2
<1>7. ASSUME NEW v \in Users, NEW i \in 1..Len(byUser'[v])
      PROVE  UserOf[byUser'[v][i]] = v
  <2>1. CASE v = u /\ i = m + 1
    BY <1>3, <2>1
  <2>2. CASE ~(v = u /\ i = m + 1)
    <3>1. i \in 1..Len(byUser[v]) /\ byUser'[v][i] = byUser[v][i]
      BY <1>1, <1>3, <2>2
    <3>2. QED
      BY <3>1 DEF Owned
  <2>3. QED
    BY <2>1, <2>2
<1> HIDE DEF u, n, m
<1>8. IndexTypeOK' /\ Listed'
  BY <1>2, <1>3, <1>4, <1>6 DEF IndexTypeOK, Listed, loopVars
<1>9. Owned'
  BY <1>7 DEF Owned, loopVars
<1>10. QED
  BY <1>5, <1>8, <1>9

\* What a removal writes into the tables, when it finds all it needs.
LEMMA RemoveKeepsListed ==
  ASSUME IndexTypeOK, Listed, Owned, NEW c \in Registered, LastKnown, Remove(c)
  PROVE  /\ all' \in Seq(Conns)
         /\ byUser' \in [Users -> Seq(Conns)]
         /\ posAll' \in [Conns -> Nat]
         /\ posUser' \in [Conns -> Nat]
         /\ Listed'
         /\ \A v \in Users : \A i \in 1..Len(byUser'[v]) : UserOf[byUser'[v][i]] = v
         /\ Registered' = Registered \ {c}
<1> USE HubIndexAssumption
<1> DEFINE u == UserOf[c]
           s == byUser[u]
           lastA == all[Len(all)]
           lastU == s[Len(s)]
<1>1. /\ c \in Conns /\ u \in Users /\ s \in Seq(Conns) /\ all \in Seq(Conns)
      /\ posAll \in [Conns -> Nat] /\ posUser \in [Conns -> Nat]
      /\ IsAt(all, posAll, c) /\ IsAt(s, posUser, c)
  <2>1. c \in Conns /\ u \in Users /\ posAll[c] > 0
    BY DEF Registered
  <2>2. /\ s \in Seq(Conns) /\ all \in Seq(Conns)
        /\ posAll \in [Conns -> Nat] /\ posUser \in [Conns -> Nat]
    BY <2>1 DEF IndexTypeOK
  <2>3. QED
    BY <2>1, <2>2 DEF Listed
<1>2. /\ Len(all) \in 1..Len(all) /\ Len(s) \in 1..Len(s)
      /\ posAll[c] \in 1..Len(all) /\ posUser[c] \in 1..Len(s)
  BY <1>1 DEF IsAt
<1>3. lastA \in Conns /\ lastU \in Conns /\ UserOf[lastU] = u
  <2>1. \A v \in Users : \A i \in 1..Len(byUser[v]) : UserOf[byUser[v][i]] = v
    BY DEF Owned
  <2>2. UserOf[lastU] = u
    BY <1>1, <1>2, <2>1
  <2>3. QED
    BY <1>1, <1>2, <2>2
<1>4. /\ all' = Cut(all, posAll[c]) /\ posAll' = Moved(posAll, all, c)
      /\ byUser' = [byUser EXCEPT ![u] = Cut(s, posUser[c])]
      /\ posUser' = Moved(posUser, s, c)
  BY <1>1, <1>2 DEF Remove
<1>5. all' \in Seq(Conns)
  BY <1>1, <1>2, <1>4, CutProperties
<1>6. /\ Cut(s, posUser[c]) \in Seq(Conns)
      /\ Len(Cut(s, posUser[c])) = Len(s) - 1
      /\ \A k \in 1..(Len(s) - 1) :
           Cut(s, posUser[c])[k] = IF k = posUser[c] THEN lastU ELSE s[k]
  BY <1>1, <1>2, CutProperties
<1>7. byUser'[u] = Cut(s, posUser[c]) /\ \A v \in Users \ {u} : byUser'[v] = byUser[v]
  BY <1>1, <1>4 DEF IndexTypeOK
<1>8. byUser' \in [Users -> Seq(Conns)]
  BY <1>1, <1>4, <1>6 DEF IndexTypeOK
<1>9. /\ posAll' \in [Conns -> Nat] /\ posAll'[c] = 0
      /\ \A d \in Conns \ {c} : posAll'[d] = IF d = lastA THEN posAll[c] ELSE posAll[d]
  BY <1>1, <1>3, <1>4 DEF Moved
<1>10. /\ posUser' \in [Conns -> Nat]
       /\ \A d \in Conns \ {c, lastU} : posUser'[d] = posUser[d]
  BY <1>1, <1>3, <1>4 DEF Moved
<1>11. Registered' = Registered \ {c}
  <2>1. posAll[lastA] > 0 /\ posAll[c] > 0
    BY <1>1, <1>2 DEF LastKnown
  <2>2. \A d \in Conns \ {c} : posAll'[d] > 0 <=> posAll[d] > 0
    BY <1>3, <1>9, <2>1
  <2>3. ~(posAll'[c] > 0)
    BY <1>9
  <2>4. QED
    BY <2>2, <2>3 DEF Registered
<1>12. ASSUME NEW d \in Registered'
       PROVE  IsAt(all', posAll', d) /\ IsAt(byUser'[UserOf[d]], posUser', d)
  <2>1. d \in Conns \ {c} /\ d \in Registered
    BY <1>11 DEF Registered
  <2>2. IsAt(all, posAll, d) /\ IsAt(byUser[UserOf[d]], posUser, d)
    BY <2>1 DEF Listed
  <2>3. IsAt(all', posAll', d)
    <3>1. IsAt(Cut(all, posAll[c]), Moved(posAll, all, c), d)
      BY <1>1, <2>1, <2>2, OthersKeepPlaces
    <3>2. QED
      BY <1>4, <3>1
  <2>4. CASE UserOf[d] = u
    <3>1. IsAt(s, posUser, d)
      BY <2>2, <2>4
    <3>2. IsAt(Cut(s, posUser[c]), Moved(posUser, s, c), d)
      BY <1>1, <2>1, <3>1, OthersKeepPlaces
    <3>3. QED
      BY <1>4, <1>7, <2>3, <2>4, <3>2
  <2>5. CASE UserOf[d] # u
    <3>1. d # lastU /\ UserOf[d] \in Users \ {u}
      BY <1>3, <2>1, <2>5
    <3>2. QED
      BY <1>7, <1>10, <2>1, <2>2, <2>3, <3>1 DEF IsAt
  <2>6. QED
    BY <2>4, <2>5
<1>13. ASSUME NEW v \in Users, NEW i \in 1..Len(byUser'[v])
       PROVE  UserOf[byUser'[v][i]] = v
  <2>1. CASE v = u
    <3>1. i \in 1..(Len(s) - 1)
      BY <1>6, <1>7, <1>13, <2>1
    <3>2. i \in 1..Len(s) /\ UserOf[s[i]] = u
      <4>1. \A w \in Users : \A j \in 1..Len(byUser[w]) : UserOf[byUser[w][j]] = w
        BY DEF Owned
      <4>2. i \in 1..Len(s)
        BY <1>1, <3>1
      <4>3. QED
        BY <1>1, <4>1, <4>2
    <3>3. byUser'[u][i] \in {lastU, s[i]}
      BY <1>6, <1>7, <3>1
    <3>4. QED
      BY <1>3, <2>1, <3>2, <3>3
  <2>2. CASE v # u
    BY <1>7, <2>2 DEF Owned
  <2>3. QED
    BY <2>1, <2>2
<1> HIDE DEF u, s, lastA, lastU
<1>14. Listed'
  BY <1>12 DEF Listed
<1>15. QED
  BY <1>5, <1>8, <1>9, <1>10, <1>11, <1>13, <1>14

\* The removals of a broadcast.
LEMMA DropKeepsListed ==
  ASSUME IndexTypeOK, Listed, Owned, Visiting, Visited \in Registered, LastKnown, Drop
  PROVE  IndexTypeOK' /\ Listed' /\ Owned' /\ Registered' = Registered \ {Visited}
<1> USE HubIndexAssumption
<1> DEFINE c == Visited
           s == ArrayOf(target)
           p == IF target = Everyone THEN posAll[c] ELSE posUser[c]
           last == s[Len(s)]
<1>1. c \in Conns /\ posAll[c] # 0 /\ UserOf[c] \in Users
  BY DEF Registered
<1>2. /\ all' \in Seq(Conns)
      /\ byUser' \in [Users -> Seq(Conns)]
      /\ posAll' \in [Conns -> Nat]
      /\ posUser' \in [Conns -> Nat]
      /\ Listed'
      /\ \A v \in Users : \A i \in 1..Len(byUser'[v]) : UserOf[byUser'[v][i]] = v
      /\ Registered' = Registered \ {c}
  BY RemoveKeepsListed DEF Drop
<1>3. target # Everyone => target \in Users /\ UserOf[c] = target
  BY DEF IndexTypeOK, Targets, Owned, Visited, Visiting
<1>4. s \in Seq(Conns) /\ p \in 1..Len(s)
  <2>1. CASE target = Everyone
    <3>1. posAll[c] \in 1..Len(all)
      BY DEF Listed, IsAt
    <3>2. QED
      BY <1>1, <2>1, <3>1 DEF ArrayOf, IndexTypeOK
  <2>2. CASE target # Everyone
    <3>1. posUser[c] \in 1..Len(byUser[target])
      BY <1>3, <2>2 DEF Listed, IsAt
    <3>2. QED
      BY <1>3, <2>2, <3>1 DEF ArrayOf, IndexTypeOK
  <2>3. QED
    BY <2>1, <2>2
<1>5. last \in Conns /\ (target # Everyone => UserOf[last] = target)
  <2>1. Len(s) \in 1..Len(s)
    BY <1>4
  <2>2. QED
    BY <1>3, <1>4, <2>1 DEF ArrayOf, Owned
<1> HIDE DEF c, s, p, last
<1>6. cand' = [cand EXCEPT ![p] = last]
  BY <1>1 DEF Drop, c, s, p, last
<1>7. /\ cand' \in Seq(Conns) /\ Len(cand') = Len(cand)
      /\ \A i \in 1..Len(cand) : cand'[i] \in {cand[i], last}
  <2> DEFINE n == Len(cand)
  <2>1. n \in Nat /\ cand \in [1..n -> Conns]
    BY DEF IndexTypeOK
  <2> HIDE DEF n
  <2>2. cand' \in [1..n -> Conns] /\ \A i \in 1..n : cand'[i] \in {cand[i], last}
    BY <1>5, <1>6, <2>1
  <2>3. cand' \in Seq(Conns) /\ Len(cand') = n
    BY <2>1, <2>2
  <2>4. QED
    BY <2>2, <2>3 DEF n
<1>8. IndexTypeOK'
  BY <1>2, <1>7 DEF IndexTypeOK, Drop
<1>9. Owned'
  BY <1>2, <1>5, <1>7 DEF Owned, Drop
<1>10. QED
  BY <1>2, <1>8, <1>9 DEF c
=============================================================================

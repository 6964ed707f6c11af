---------------------------- MODULE MCComponents ----------------------------
(***************************************************************************)
(* One instance for TLC of each component that shares nothing with the     *)
(* others: a behaviour is one of one part, from the initial state of that  *)
(* part, while the others rest in theirs.                                  *)
(***************************************************************************)
EXTENDS HubIndex, LruCache, PluginKV, ServerGoroutines, BusyState, EmailBatching, HoverCards,
        FiniteSets, TLC

CONSTANTS
  c1, c2, c3, c4, u1, u2, x, n1, n2, s1

VARIABLE part

\* Two users, one of them with three connections.
MCUserOf == c1 :> u1 @@ c2 :> u1 @@ c3 :> u1 @@ c4 :> u2

\* What is waited for comes: the shutdown is over when the goroutines are, a busy
\* period ends, and a task is cancelled (Server.WaitForGoroutines, Busy.Set,
\* ScheduledTask.Cancel).
WaitsEnd == WaitReturns /\ BusyEnds /\ StartReturns

\* The types of all parts.
TypesOK ==
  /\ IndexTypeOK /\ CacheTypeOK /\ KvTypeOK /\ GoTypeOK
  /\ BusyTypeOK /\ EmailTypeOK

\* Two notifications for one user.
MCRecipient == n1 :> u1 @@ n2 :> u1

\* Both databases, one of them with a value from before v5.6.
InitialKv == KvInit /\ legacy = IF driver = "mysql" THEN NoValue ELSE x

\* The server starts with a job and its task, or has neither until batching is
\* enabled.
InitialEmail == EmailInit /\ emailBatching = IF part = "email" THEN s1 ELSE NoJob

Init ==
  /\ part \in {"index", "cache", "kv", "go", "busy", "email", "first", "hover"}
  /\ IndexInit /\ CacheInit
  /\ InitialKv /\ (driver = "postgres" => part = "kv")
  /\ GoInit /\ BusyInit /\ InitialEmail /\ HoverInit

IndexPart ==
  /\ part = "index" /\ IndexNext
  /\ UNCHANGED <<cacheVars, kvVars, goVars, busyVars, emailVars, hoverVars>>

CachePart ==
  /\ part = "cache" /\ CacheNext
  /\ UNCHANGED <<indexVars, kvVars, goVars, busyVars, emailVars, hoverVars>>

KvPart ==
  /\ part = "kv" /\ KvNext
  /\ UNCHANGED <<indexVars, cacheVars, goVars, busyVars, emailVars, hoverVars>>

GoPart ==
  /\ part = "go" /\ GoNext
  /\ UNCHANGED <<indexVars, cacheVars, kvVars, busyVars, emailVars, hoverVars>>

BusyPart ==
  /\ part = "busy" /\ BusyNext
  /\ UNCHANGED <<indexVars, cacheVars, kvVars, goVars, emailVars, hoverVars>>

\* Bound: without a job at first, one notification is added.
EmailPart ==
  /\ part \in {"email", "first"} /\ EmailNext
  /\ part = "first" => Cardinality(added') <= 1
  /\ UNCHANGED <<indexVars, cacheVars, kvVars, goVars, busyVars, hoverVars>>

HoverPart ==
  /\ part = "hover" /\ HoverNext
  /\ UNCHANGED <<indexVars, cacheVars, kvVars, goVars, busyVars, emailVars>>

Next ==
  /\ \/ IndexPart \/ CachePart \/ KvPart
     \/ GoPart \/ BusyPart \/ EmailPart \/ HoverPart
  /\ UNCHANGED part

vars ==
  <<part, indexVars, cacheVars, kvVars, goVars, busyVars, emailVars, hoverVars>>

\* The fairness of FairGoSpec, FairBusySpec and FairEmailSpec.
Spec ==
  /\ Init /\ [][Next]_vars
  /\ GoFairness /\ BusyFairness /\ EmailFairness
=============================================================================

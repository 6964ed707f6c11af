----------------------------- MODULE MCRequests -----------------------------
(***************************************************************************)
(* One instance for TLC of the components that somebody waits for: a hub   *)
(* that is called, a hub that panics, and the creation of a post by        *)
(* requests that fail, lose an answer or are repeated.  A behaviour is one *)
(* of one of them, while the others rest.                                  *)
(***************************************************************************)
EXTENDS PostDedup, TLC

CONSTANTS
  Conns, Users, Everyone, Callers, QueueCap,   \* WebHub
  u1, r1, r2, r3, p1

VARIABLES
  part,
  all, byUser, posAll, posUser, target, cand, at, due, hub, stop, registerQ,
  unregisterQ, queue, offline, reader, writer, sent, closed, cut, auth,
  caller                                       \* WebHub

hubVars ==
  <<all, byUser, posAll, posUser, target, cand, at, due, hub, stop, registerQ,
    unregisterQ, queue, offline, reader, writer, sent, closed, cut, auth, caller>>

\* All connections are of one user.
OneUser == [c \in Conns |-> u1]

\* A hub with room in its channels, and that of a client that is slow and
\* authenticates again.
Calls == INSTANCE WebHub WITH UserOf <- OneUser, Verdicts <- {"gone"},
           SendCap <- 0, Overflow <- FALSE, Reauth <- FALSE
Panics == INSTANCE WebHub WITH UserOf <- OneUser, Verdicts <- {"gone"},
            SendCap <- 1, Overflow <- TRUE, Reauth <- TRUE

\* A request and its repetition, and one without an id.  The cache has room
\* for one id: a plugin that drops the id makes it evict the other.
MCPendingOf == r1 :> p1 @@ r2 :> p1 @@ r3 :> NoId

\* The types of the hub, also after a panic, and of the posts.
RequestsTypeOK == Panics!TypeOK /\ PostTypeOK

\* Calls of the hub return, and connections that go finish, as WebHub has it.
CallsReturn == part = "calls" => Calls!CallsReturn
PumpsFinish == part = "calls" => Calls!PumpsFinish

RequestsInit ==
  part \in {"calls", "panics", "posts"} /\ Calls!Init /\ PostInit

CallsPart == part = "calls" /\ Calls!Next /\ UNCHANGED postVars

\* This hub is not stopped, and only its connections call it.
PanicsPart ==
  part = "panics" /\ Panics!Next /\ UNCHANGED <<stop, caller, postVars>>

PostsPart == part = "posts" /\ PostNext /\ UNCHANGED hubVars

RequestsNext == (CallsPart \/ PanicsPart \/ PostsPart) /\ UNCHANGED part

\* The fairness of FairSpec and of FairPostSpec.  The one that rests has nothing
\* to do that it is fair to, and of "panics" only the types are looked at.
RequestsSpec ==
  /\ RequestsInit /\ [][RequestsNext]_<<part, hubVars, postVars>>
  /\ Calls!Fairness
  /\ \A r \in Requests : WF_postVars(Serve(r))
=============================================================================

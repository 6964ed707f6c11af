------------------------------- MODULE WebHub -------------------------------
(***************************************************************************)
(* A hub and the WebSocket connections of its users: the goroutine of the  *)
(* hub (Hub.Start), the goroutine of each connection that registers it and *)
(* reads its requests (connectWebSocket, WebConn.Pump), the write pump of  *)
(* each connection, and other goroutines of the server that call the hub.  *)
(*                                                                         *)
(* Each position of a goroutine is a place where it waits for a channel,   *)
(* the peer or another goroutine.  A peer may close its connection and a   *)
(* write may fail at any time.                                             *)
(***************************************************************************)
EXTENDS HubIndex, FiniteSets

CONSTANTS
  Callers,    \* other goroutines that call the hub
  QueueCap,   \* bound: BROADCAST_QUEUE_SIZE
  SendCap,    \* bound: SEND_QUEUE_SIZE; 0, without Overflow, counts nothing
  Overflow,   \* whether a Send channel, or the broadcast channel of a hub that
              \* no longer reads it, can be found full
  Verdicts,   \* what GetSession may find once a cached session is dropped
  Reauth      \* whether a client whose session ended authenticates again on
              \* the same connection

ASSUME WebHubAssumption ==
  /\ QueueCap \in Nat \ {0}
  /\ SendCap \in Nat /\ (Overflow => SendCap > 0)
  /\ Overflow \in BOOLEAN
  /\ Verdicts \subseteq {"check", "gone", "idle"}
  /\ Reauth \in BOOLEAN

VARIABLES
  hub,          \* position of the hub's goroutine
  stop,         \* the stop channel is closed
  registerQ,    \* the register channel, which has room for one
  unregisterQ,  \* the unregister channel, the same
  queue,        \* the broadcast channel: targets of the events
  offline,      \* users still to be set offline when the hub stops
  reader,       \* position of a connection's goroutine
  writer,       \* the write pump of a connection
  sent,         \* how much its Send channel holds
  closed,       \* its Send channel is closed
  cut,          \* the hub has called its Close
  auth,         \* what IsAuthenticated would find of it
  caller        \* position of the other goroutines

hubVars == <<hub, stop, offline>>
chanVars == <<registerQ, unregisterQ, queue>>
sendVars == <<sent, closed>>
connVars == <<reader, writer, sendVars, cut, auth>>
vars == <<indexVars, hubVars, chanVars, connVars, caller>>

Serving == {"hello", "greet", "read", "publish", "respond"}

Sessions == {"anon", "cached", "check", "gone", "idle", "none"}

HubTypeOK ==
  /\ hub \in {"select", "each", "revoking", "panicked", "closing", "offline",
              "stopped"}
  /\ stop \in BOOLEAN
  /\ registerQ \in {{}} \union {{c} : c \in Conns}
  /\ unregisterQ \in {{}} \union {{c} : c \in Conns}
  /\ queue \in Seq(Targets) /\ Len(queue) <= QueueCap
  /\ offline \subseteq Users
  /\ reader \in [Conns -> Serving \union
                   {"new", "register", "revoking", "rejecting", "leaving",
                    "unregister", "finished", "panicked"}]
  /\ writer \in [Conns -> {"none", "run", "ended"}]
  /\ sent \in [Conns -> 0..SendCap]
  /\ closed \in [Conns -> BOOLEAN]
  /\ cut \in [Conns -> BOOLEAN]
  /\ auth \in [Conns -> Sessions]
  /\ caller \in [Callers -> {"idle", "publish", "invalidate"}]

TypeOK == IndexTypeOK /\ HubTypeOK

Init ==
  /\ IndexInit
  /\ hub = "select" /\ stop = FALSE /\ offline = {}
  /\ registerQ = {} /\ unregisterQ = {} /\ queue = <<>>
  /\ reader = [c \in Conns |-> "new"]
  /\ writer = [c \in Conns |-> "none"]
  /\ sent = [c \in Conns |-> 0]
  /\ closed = [c \in Conns |-> FALSE]
  /\ cut = [c \in Conns |-> FALSE]
  /\ auth = [c \in Conns |-> "anon"]
  /\ caller = [x \in Callers |-> "idle"]

----------------------------------------------------------------------------
(* Sessions.  IsAuthenticated trusts the cached session until it expires   *)
(* or is invalidated, then asks GetSession.  An expired session clears the *)
(* token; an idle one is also revoked, which calls the hub.                *)

HasToken(c) == auth[c] \notin {"anon", "none"}
Authenticated(c) == auth[c] \in {"cached", "check"}
Rejected(c) == auth[c] \in {"anon", "none", "gone"}
Idle(c) == auth[c] = "idle"

AfterCheck(c) ==
  [auth EXCEPT ![c] = IF @ = "check" THEN "cached"
                      ELSE IF @ = "gone" THEN "none" ELSE @]

\* InvalidateCache of the registered connections of a user.
Invalidated(u, verdict) ==
  [c \in Conns |-> IF c \in Registered /\ UserOf[c] = u /\ Authenticated(c)
                   THEN verdict ELSE auth[c]]

\* The cached session of a connection expires.
Expire(c) ==
  /\ auth[c] = "cached"
  /\ \E v \in Verdicts : auth' = [auth EXCEPT ![c] = v]
  /\ UNCHANGED <<indexVars, hubVars, chanVars, reader, writer, sendVars, cut,
                 caller>>

----------------------------------------------------------------------------
(* When the calls of the hub give up waiting for it.  The first two are the *)
(* forms a mistake would give.                                             *)

NeverGivesUp == FALSE
StopRequested == stop
DidStop == hub = "stopped"

UntilStopped == DidStop
UnregisterGivesUp == stop

----------------------------------------------------------------------------
(* The Send channel of a connection.                                       *)

Full(c) == Overflow /\ sent[c] = SendCap

\* Of a channel that cannot be found full the count stops at the bound.
Push(c) ==
  /\ sent' = [sent EXCEPT ![c] = IF @ < SendCap THEN @ + 1 ELSE @]
  /\ UNCHANGED closed

----------------------------------------------------------------------------
(* The goroutine of a connection.                                          *)

Goto(c, pc) == reader' = [reader EXCEPT ![c] = pc]

StartPump(c) ==
  /\ Goto(c, "read")
  /\ writer' = [writer EXCEPT ![c] = "run"]

\* connectWebSocket, with a session or without.
Connect(c) ==
  /\ reader[c] = "new"
  /\ \/ /\ auth' = [auth EXCEPT ![c] = "cached"]
        /\ Goto(c, "register") /\ UNCHANGED writer
     \/ StartPump(c) /\ UNCHANGED auth
  /\ UNCHANGED <<indexVars, hubVars, chanVars, sendVars, cut, caller>>

Register(c) ==
  /\ reader[c] = "register"
  /\ \/ registerQ = {} /\ registerQ' = {c}
     \/ UntilStopped /\ UNCHANGED registerQ
  /\ Goto(c, "hello")
  /\ UNCHANGED <<indexVars, hubVars, unregisterQ, queue, writer, sendVars, cut,
                 auth, caller>>

\* The write pump starts after the first registration.  A later one belongs
\* to an authentication challenge, which is answered.
AfterRegister(c) ==
  \/ writer[c] = "none" /\ StartPump(c)
  \/ writer[c] # "none" /\ Goto(c, "respond") /\ UNCHANGED writer

Hello(c) ==
  /\ reader[c] = "hello"
  /\ \/ Authenticated(c) /\ Goto(c, "greet") /\ UNCHANGED writer
     \/ Rejected(c) /\ AfterRegister(c)
     \/ Idle(c) /\ Goto(c, "revoking") /\ UNCHANGED writer
  /\ auth' = AfterCheck(c)
  /\ UNCHANGED <<indexVars, hubVars, chanVars, sendVars, cut, caller>>

\* A send to a closed channel panics; one to a full channel waits.
Panic(c) == closed[c] /\ Goto(c, "panicked") /\ UNCHANGED <<writer, sendVars>>
Send(c) == ~closed[c] /\ ~Full(c) /\ Push(c)

Greet(c) ==
  /\ reader[c] = "greet"
  /\ Panic(c) \/ (Send(c) /\ AfterRegister(c))
  /\ UNCHANGED <<indexVars, hubVars, chanVars, cut, auth, caller>>

Respond(c) ==
  /\ reader[c] = "respond"
  /\ Panic(c) \/ (Send(c) /\ Goto(c, "read") /\ UNCHANGED writer)
  /\ UNCHANGED <<indexVars, hubVars, chanVars, cut, auth, caller>>

\* A challenge is left without an answer when there is a token.  Bound: a client
\* authenticates again only while the index is no longer than it should be.
\* `Whenever' is the form without the guard.
Whenever(c) == TRUE
MayAuthenticate(c) ==
  /\ ~HasToken(c)
  /\ auth[c] = "none" => Reauth /\ Len(all) <= Cardinality(Conns)

\* The authentication challenge: SetSession and SetSessionToken, but not
\* SetSessionExpiresAt, so the session is asked for again.  A token that is
\* rejected closes the socket; that of an idle session is revoked first.
Challenge(c) ==
  /\ reader[c] = "read" /\ MayAuthenticate(c)
  /\ \/ /\ auth' = [auth EXCEPT ![c] = "check"]
        /\ Goto(c, "register")
     \/ Goto(c, "leaving") /\ UNCHANGED auth
     \/ "idle" \in Verdicts /\ Goto(c, "rejecting") /\ UNCHANGED auth
  /\ UNCHANGED <<indexVars, hubVars, chanVars, writer, sendVars, cut, caller>>

\* Any other request; its handler may publish an event.
Request(c) ==
  /\ reader[c] = "read"
  /\ \/ Authenticated(c) /\ (Goto(c, "publish") \/ Goto(c, "respond"))
     \/ Rejected(c) /\ Goto(c, "respond")
     \/ Idle(c) /\ Goto(c, "revoking")
  /\ auth' = AfterCheck(c)
  /\ UNCHANGED <<indexVars, hubVars, chanVars, writer, sendVars, cut, caller>>

\* The handler of a pong asks IsAuthenticated too.
Pong(c) ==
  /\ reader[c] = "read"
  /\ \/ Idle(c) /\ Goto(c, "revoking")
     \/ ~Idle(c) /\ UNCHANGED reader
  /\ auth' = AfterCheck(c)
  /\ UNCHANGED <<indexVars, hubVars, chanVars, writer, sendVars, cut, caller>>

\* The broadcast channel has room.  Once the hub has left its loop nobody
\* reads what is in it, and what exceeds the bound is left out.  `Unlimited'
\* is the form of a channel without a size.
Deaf == hub \in {"closing", "offline", "stopped"}
Unlimited(t) == queue' = Append(queue, t)
Queued(t) ==
  \/ Len(queue) < QueueCap /\ queue' = Append(queue, t)
  \/ ~Overflow /\ Deaf /\ UNCHANGED queue

Enqueue(t) == Queued(t) \/ (UntilStopped /\ UNCHANGED queue)

ReaderPublish(c) ==
  /\ reader[c] = "publish"
  /\ \E t \in Targets : Enqueue(t)
  /\ Goto(c, "respond")
  /\ UNCHANGED <<indexVars, hubVars, registerQ, unregisterQ, writer, sendVars,
                 cut, auth, caller>>

\* RevokeSession: InvalidateUser is taken by the hub, or the hub has stopped.
Ended(sessions, c) ==
  [sessions EXCEPT ![c] = IF @ = "idle" THEN "none" ELSE @]

Revoke(c) ==
  /\ reader[c] \in {"revoking", "rejecting"}
  /\ \/ hub = "select" /\ auth' = Ended(Invalidated(UserOf[c], "gone"), c)
     \/ UntilStopped /\ auth' = Ended(auth, c)
  /\ \/ reader[c] = "rejecting" /\ Goto(c, "leaving") /\ UNCHANGED writer
     \/ reader[c] = "revoking" /\ AfterRegister(c)
     \/ /\ reader[c] = "revoking" /\ writer[c] # "none"
        /\ Goto(c, "read") /\ UNCHANGED writer
  /\ UNCHANGED <<indexVars, hubVars, chanVars, sendVars, cut, caller>>

\* ReadJSON fails: the peer is gone, or this side closed the socket.
SocketClosed(c) == cut[c] \/ writer[c] = "ended"

ReadFails(c) ==
  /\ reader[c] = "read"
  /\ Goto(c, "leaving")
  /\ UNCHANGED <<indexVars, hubVars, chanVars, writer, sendVars, cut, auth,
                 caller>>

\* Pump waits for the write pump, which it has told to end.
Leave(c) ==
  /\ reader[c] = "leaving" /\ writer[c] = "ended"
  /\ Goto(c, "unregister")
  /\ UNCHANGED <<indexVars, hubVars, chanVars, writer, sendVars, cut, auth,
                 caller>>

Unregister(c) ==
  /\ reader[c] = "unregister"
  /\ \/ unregisterQ = {} /\ unregisterQ' = {c}
     \/ UnregisterGivesUp /\ UNCHANGED unregisterQ
  /\ Goto(c, "finished")
  /\ UNCHANGED <<indexVars, hubVars, registerQ, queue, writer, sendVars, cut,
                 auth, caller>>

\* The write pump takes a message and writes it.
Write(c) ==
  /\ writer[c] = "run" /\ sent[c] > 0
  /\ \/ sent' = [sent EXCEPT ![c] = @ - 1]
     \/ ~Overflow /\ sent[c] = SendCap /\ UNCHANGED sent
  /\ UNCHANGED <<indexVars, hubVars, chanVars, reader, writer, closed, cut,
                 auth, caller>>

\* It has to end when it is told to or finds Send closed, and it ends when a
\* write fails or the connection did not authenticate in time.  `MustEndCut'
\* is the form where Pump does not tell it.
MustEndCut(c) == cut[c] \/ (closed[c] /\ sent[c] = 0)
MustEnd(c) ==
  cut[c] \/ reader[c] = "leaving" \/ (closed[c] /\ sent[c] = 0)

EndWrite(c) ==
  /\ writer[c] = "run"
  /\ writer' = [writer EXCEPT ![c] = "ended"]
  /\ UNCHANGED <<indexVars, hubVars, chanVars, reader, sendVars, cut, auth,
                 caller>>

----------------------------------------------------------------------------
(* Other goroutines: events, invalidations of the cache, activity.         *)

StartCall(x) ==
  /\ caller[x] = "idle"
  /\ \E op \in {"publish", "invalidate"} : caller' = [caller EXCEPT ![x] = op]
  /\ UNCHANGED <<indexVars, hubVars, chanVars, connVars>>

Publish(x) ==
  /\ caller[x] = "publish"
  /\ \E t \in Targets : Enqueue(t)
  /\ caller' = [caller EXCEPT ![x] = "idle"]
  /\ UNCHANGED <<indexVars, hubVars, registerQ, unregisterQ, connVars>>

\* InvalidateUser, or UpdateActivity, which leaves the sessions alone.
Invalidate(x) ==
  /\ caller[x] = "invalidate"
  /\ \/ /\ hub = "select"
        /\ \/ \E u \in Users, v \in Verdicts : auth' = Invalidated(u, v)
           \/ UNCHANGED auth
     \/ UntilStopped /\ UNCHANGED auth
  /\ caller' = [caller EXCEPT ![x] = "idle"]
  /\ UNCHANGED <<indexVars, hubVars, chanVars, reader, writer, sendVars, cut>>

Stop ==
  /\ ~stop /\ stop' = TRUE
  /\ UNCHANGED <<indexVars, hub, offline, chanVars, connVars, caller>>

----------------------------------------------------------------------------
(* The goroutine of the hub.                                               *)

GotoHub(pc) == hub' = pc /\ UNCHANGED <<stop, offline>>

TakeRegister ==
  /\ hub = "select"
  /\ \E c \in registerQ : Add(c)
  /\ registerQ' = {}
  /\ UNCHANGED <<loopVars, hubVars, unregisterQ, queue, connVars, caller>>

\* A place in the index belongs to no connection: Remove dereferences nil.
Broken(c) ==
  /\ c \in Registered
  /\ \/ posAll[c] > Len(all) \/ posAll[all[Len(all)]] = 0
     \/ LET s == byUser[UserOf[c]]
        IN  posUser[c] > Len(s) \/ posUser[s[Len(s)]] = 0

\* When the last connection of a user goes, a new goroutine sets the user
\* offline and publishes the change like any other.
TakeUnregister ==
  /\ hub = "select"
  /\ \E c \in unregisterQ :
       \/ ~Broken(c) /\ Remove(c) /\ UNCHANGED hub
       \/ Broken(c) /\ hub' = "panicked" /\ UNCHANGED tableVars
  /\ unregisterQ' = {}
  /\ UNCHANGED <<loopVars, stop, offline, registerQ, queue, connVars, caller>>

TakeBroadcast ==
  /\ hub = "select" /\ queue # <<>>
  /\ Iterate(Head(queue))
  /\ queue' = Tail(queue)
  /\ GotoHub("each")
  /\ UNCHANGED <<tableVars, registerQ, unregisterQ, connVars, caller>>

\* The event is not for this connection, or its session has ended.
Pass(c) ==
  /\ ~Idle(c) /\ Keep
  /\ UNCHANGED <<tableVars, hub, sendVars>>

Deliver(c) ==
  /\ Authenticated(c) /\ Send(c) /\ Keep
  /\ UNCHANGED <<tableVars, hub>>

\* Send is full: close it and drop the connection.  `CloseAndKeep' is the form
\* that leaves it in the index.
CloseAndKeep(c) ==
  /\ Authenticated(c) /\ ~closed[c] /\ Full(c)
  /\ closed' = [closed EXCEPT ![c] = TRUE]
  /\ Keep
  /\ UNCHANGED <<tableVars, hub, sent>>

CloseSlow(c) ==
  /\ Authenticated(c) /\ ~closed[c] /\ Full(c) /\ ~Broken(c)
  /\ closed' = [closed EXCEPT ![c] = TRUE]
  /\ Drop
  /\ UNCHANGED <<hub, sent>>

\* The select with a default does not help when Send is closed.
HubPanics(c) ==
  /\ Authenticated(c) /\ (closed[c] \/ (Full(c) /\ Broken(c)))
  /\ hub' = "panicked"
  /\ UNCHANGED <<indexVars, sendVars>>

\* ShouldSendEvent revokes the idle session and waits for the hub itself.
HubRevokes(c) ==
  /\ Idle(c)
  /\ hub' = "revoking"
  /\ UNCHANGED <<indexVars, sendVars>>

Visit ==
  /\ hub = "each" /\ Visiting
  /\ \/ Pass(Visited) \/ Deliver(Visited) \/ CloseSlow(Visited)
     \/ HubPanics(Visited) \/ HubRevokes(Visited)
  /\ auth' = AfterCheck(Visited)
  /\ UNCHANGED <<stop, offline, chanVars, reader, writer, cut>>

EndBroadcast ==
  /\ hub = "each" /\ EndLoop /\ GotoHub("select")
  /\ UNCHANGED <<tableVars, chanVars, connVars>>

\* doRecover starts the hub again, with an index that is empty.
Recover ==
  /\ hub = "panicked" /\ GotoHub("select")
  /\ all' = <<>> /\ byUser' = [u \in Users |-> <<>>]
  /\ posAll' = [c \in Conns |-> 0] /\ posUser' = [c \in Conns |-> 0]
  /\ target' = Everyone /\ cand' = <<>> /\ at' = 0 /\ due' = {}
  /\ UNCHANGED <<chanVars, connVars>>

TakeStop ==
  /\ hub = "select" /\ stop
  /\ Iterate(Everyone)
  /\ GotoHub("closing")
  /\ UNCHANGED <<tableVars, chanVars, connVars, caller>>

\* WebConn.Close closes the socket and endWritePump, then waits for Pump.
\* `CutOff' is the form that does not wait.
CutOff(c) == cut[c]
PumpFinished(c) == cut[c] /\ reader[c] = "finished"

CloseConn ==
  /\ hub = "closing" /\ Visiting /\ ~cut[Visited]
  /\ cut' = [cut EXCEPT ![Visited] = TRUE]
  /\ UNCHANGED <<indexVars, hubVars, chanVars, reader, writer, sendVars, auth>>

Closed ==
  /\ hub = "closing" /\ Visiting /\ PumpFinished(Visited)
  /\ Keep
  /\ UNCHANGED <<tableVars, hubVars, chanVars, connVars>>

\* The users with a manual status, or all when the server is busy, keep
\* their status.
AllClosed ==
  /\ hub = "closing" /\ EndLoop
  /\ hub' = "offline"
  /\ offline' \in SUBSET {UserOf[cand[i]] : i \in 1..Len(cand)}
  /\ UNCHANGED <<tableVars, stop, chanVars, connVars>>

\* SetStatusOffline broadcasts the status to the channel of this same hub.
SetOffline ==
  /\ hub = "offline"
  /\ \E u \in offline :
       /\ offline' = offline \ {u}
       /\ Queued(u)
  /\ UNCHANGED <<indexVars, hub, stop, registerQ, unregisterQ, connVars>>

Stopped ==
  /\ hub = "offline" /\ offline = {}
  /\ GotoHub("stopped")
  /\ UNCHANGED <<indexVars, chanVars, connVars>>

HubStep ==
  /\ \/ Visit \/ EndBroadcast \/ Recover
     \/ CloseConn \/ Closed \/ AllClosed \/ SetOffline \/ Stopped
  /\ UNCHANGED caller

ReaderStep(c) == Hello(c) \/ Greet(c) \/ Respond(c) \/ Leave(c)

Next ==
  \/ HubStep \/ TakeRegister \/ TakeUnregister \/ TakeBroadcast \/ TakeStop
  \/ Stop
  \/ \E c \in Conns :
       \/ Connect(c) \/ ReaderStep(c) \/ Register(c) \/ Unregister(c)
       \/ Challenge(c) \/ Request(c) \/ Pong(c) \/ ReaderPublish(c)
       \/ Revoke(c) \/ ReadFails(c) \/ Write(c) \/ EndWrite(c) \/ Expire(c)
  \/ \E x \in Callers : StartCall(x) \/ Publish(x) \/ Invalidate(x)

Spec == Init /\ [][Next]_vars

\* A position where the goroutine of a connection needs a channel.
ReaderCall(c) == Register(c) \/ Unregister(c) \/ ReaderPublish(c) \/ Revoke(c)
CallerCall(x) == Publish(x) \/ Invalidate(x)

\* Goroutines run.  A select chooses among its ready cases at random, and a
\* channel serves those who wait for it in order: an operation on a channel
\* that is possible again and again takes place.  Peers, requests and calls
\* need not come.
ConnFairness(c) ==
  /\ WF_vars(ReaderStep(c)) /\ WF_vars(Write(c))
  /\ SF_vars(ReaderCall(c))
  /\ SF_vars(SocketClosed(c) /\ ReadFails(c))
  /\ WF_vars(MustEnd(c) /\ EndWrite(c))

\* What Stop relies on: the hub runs and takes the stop, and so do the
\* goroutines of the connections.
StopFairness ==
  /\ WF_vars(HubStep) /\ SF_vars(TakeStop)
  /\ \A c \in Conns : ConnFairness(c)

Fairness ==
  /\ StopFairness
  /\ SF_vars(TakeRegister) /\ SF_vars(TakeUnregister) /\ SF_vars(TakeBroadcast)
  /\ \A x \in Callers : SF_vars(CallerCall(x))

StopSpec == Spec /\ StopFairness
FairSpec == Spec /\ Fairness

----------------------------------------------------------------------------
(* Properties.                                                             *)

\* The hub uses its index as the index expects: it registers a connection
\* once, and registers or unregisters none during a broadcast
\* (Hub.Start, WebSocketRouter.ServeWebSocket).
UsesIndex == IndexSpec

\* The hub never sends to a connection whose channel it closed, nor closes it
\* again, nor loses its place: such a panic drops every connection of the hub
\* (Hub.Start, case broadcast; hubConnectionIndex.Remove).
HubNeverPanics == hub # "panicked"

\* A connection that is being served, and was not dropped for being slow, is
\* known to the hub: no removal of another connection, race of the register
\* channel or closing loses it (Hub.Register, hubConnectionIndex.Remove).
Reachable ==
  \A c \in Conns :
    /\ reader[c] \in Serving
    /\ auth[c] # "anon"
    /\ ~closed[c]
    /\ hub # "stopped"
    => c \in Registered \union registerQ

\* When a hub has stopped, no goroutine is left of a connection in its index:
\* the server does not exit under them, whatever they were doing.  Those it has
\* dropped, or forgot when it panicked, are not waited for (Hub.Start, case
\* stop; WebConn.Close).
NoneLeft ==
  hub = "stopped" =>
    \A c \in Registered : reader[c] = "finished" /\ writer[c] = "ended"

\* Stopping a hub ends, with all its connections, while they register, send,
\* publish or leave: the server shuts down gracefully
\* (Hub.Stop, WebConn.Close, WebConn.Pump).
StopReturns == stop ~> DidStop

Calling(c) ==
  reader[c] \in {"register", "publish", "revoking", "rejecting", "unregister"}

\* No call of the hub waits for ever, whether the hub is running, stopping or
\* stopped (Hub.Register, Unregister, Broadcast, InvalidateUser).
CallsReturn ==
  /\ \A x \in Callers : caller[x] # "idle" ~> caller[x] = "idle"
  /\ \A c \in Conns : Calling(c) ~> ~Calling(c)

\* A connection that is going finishes, which is what Close waits for
\* (WebConn.Pump).
PumpsFinish ==
  \A c \in Conns : reader[c] = "leaving" ~> reader[c] = "finished"
=============================================================================

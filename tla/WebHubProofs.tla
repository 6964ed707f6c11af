---------------------------- MODULE WebHubProofs ----------------------------
(***************************************************************************)
(* The hub, for any number of connections, users and callers, any sizes of *)
(* the channels and any verdicts on sessions.  Two invariants: HubInv holds *)
(* as long as no client whose session ended authenticates again on the     *)
(* same connection; StopInv holds always, also after panics of the hub.    *)
(***************************************************************************)
EXTENDS WebHub, HubIndexProofs

\* The hub has not heard of c, and will only by its next registration.
Unheard(c) == auth[c] = "anon" \/ reader[c] = "register"

\* Nothing of c is left to wait for.
Over(c) == reader[c] = "finished" /\ writer[c] = "ended"

\* A connection is registered once: what is in the register channel is not in
\* the index, and what was closed is in neither and comes to neither again.
RegisteredOnce ==
  \A c \in Conns :
    /\ reader[c] = "new" => auth[c] = "anon"
    /\ reader[c] = "register" => auth[c] # "anon"
    /\ Unheard(c) => c \notin Registered /\ c \notin registerQ /\ ~closed[c]
    /\ c \in registerQ => c \notin Registered
    /\ closed[c] => c \notin Registered /\ c \notin registerQ

\* Reachable, and as much of a reader that revokes its session.
Known ==
  \A c \in Conns :
    /\ reader[c] \in Serving \union {"revoking"}
    /\ auth[c] # "anon" /\ ~closed[c] /\ hub # "stopped"
    => c \in Registered \/ c \in registerQ

\* Only a connection that has finished unregisters, and its write pump ended
\* before.
Ends ==
  \A c \in Conns :
    /\ c \in unregisterQ => reader[c] = "finished"
    /\ reader[c] \in {"unregister", "finished"} => writer[c] = "ended"

\* The loop of the index belongs to the broadcast and to the stop, and the stop
\* leaves no connection behind it.
LoopOfHub ==
  /\ hub \in {"select", "offline", "stopped"} => at = 0
  /\ hub = "closing" => \A c \in Registered \ due : Over(c)
  /\ hub \in {"offline", "stopped"} => \A c \in Registered : Over(c)

HubInv ==
  /\ TypeOK /\ IndexInv /\ HubNeverPanics
  /\ RegisteredOnce /\ Known /\ Ends /\ LoopOfHub

LEMMA InvInit == Init => HubInv
<1> SUFFICES ASSUME Init PROVE HubInv
  OBVIOUS
<1>1. IndexInv
  BY InitIndexInv DEF Init
<1>2. Registered = {}
  BY DEF Init, IndexInit, EmptyTables, Registered
<1>3. TypeOK
  <2>1. IndexTypeOK
    BY <1>1 DEF IndexInv
  <2>2. queue \in Seq(Targets) /\ Len(queue) <= QueueCap
    BY WebHubAssumption DEF Init
  <2>3. sent \in [Conns -> 0..SendCap]
    BY WebHubAssumption DEF Init
  <2>4. QED
    BY <2>1, <2>2, <2>3 DEF Init, TypeOK, HubTypeOK, Serving, Sessions
<1>4. RegisteredOnce /\ Known /\ Ends
  BY <1>2 DEF Init, RegisteredOnce, Known, Ends, Unheard, Serving
<1>5. LoopOfHub /\ HubNeverPanics
  BY <1>2 DEF Init, IndexInit, EmptyLoop, LoopOfHub, HubNeverPanics
<1>6. QED
  BY <1>1, <1>3, <1>4, <1>5 DEF HubInv

----------------------------------------------------------------------------
(* The hub uses its index as IndexNext says.                               *)

\* No place in the index belongs to no connection.
LEMMA NothingBroken ==
  ASSUME IndexInv, NEW c \in Conns
  PROVE  ~Broken(c)
<1> SUFFICES ASSUME c \in Registered PROVE ~Broken(c)
  BY DEF Broken
<1> DEFINE s == byUser[UserOf[c]]
<1>1. /\ posAll[c] \in Nat /\ posAll[c] > 0 /\ all \in Seq(Conns)
      /\ s \in Seq(Conns) /\ UserOf[c] \in Users /\ posUser[c] \in Nat
  BY HubIndexAssumption DEF IndexInv, IndexTypeOK, Registered
<1>2. posAll[c] <= Len(all) /\ posUser[c] \in 1..Len(s)
  BY DEF IndexInv, Consistent
<1>3. Len(all) \in 1..Len(all) /\ Len(s) \in 1..Len(s)
  BY <1>1, <1>2
<1>4. posAll[all[Len(all)]] = Len(all)
  BY <1>3 DEF IndexInv, Consistent
<1>5. posUser[s[Len(s)]] = Len(s)
  BY <1>1, <1>3 DEF IndexInv, Consistent
<1>6. QED
  BY <1>1, <1>2, <1>3, <1>4, <1>5 DEF Broken

\* Whom the loop of a broadcast comes to is in the index.
LEMMA VisitedRegistered ==
  ASSUME IndexInv, Visiting
  PROVE  Visited \in Registered /\ Visited \in Conns
<1>1. at \in at..Len(cand) /\ at > 0
  BY DEF IndexInv, IndexTypeOK, Visiting
<1>2. QED
  BY <1>1 DEF IndexInv, Behind, Visited, Registered

LEMMA StepUsesIndex == HubInv /\ [Next]_vars => [IndexNext]_indexVars
<1> SUFFICES ASSUME HubInv, [Next]_vars PROVE [IndexNext]_indexVars
  OBVIOUS
<1>0. IndexInv /\ hub # "panicked" /\ queue \in Seq(Targets)
  BY DEF HubInv, HubNeverPanics, TypeOK, HubTypeOK
<1>1. CASE TakeRegister
  <2>1. PICK c \in registerQ : Add(c)
    BY <1>1 DEF TakeRegister
  <2>2. at = 0 /\ UNCHANGED loopVars
    BY <1>1 DEF TakeRegister, HubInv, LoopOfHub
  <2>3. c \in Conns \ Registered
    BY DEF HubInv, TypeOK, HubTypeOK, RegisteredOnce
  <2>4. QED
    BY <2>1, <2>2, <2>3 DEF IndexNext
<1>2. CASE TakeUnregister
  <2>1. PICK c \in unregisterQ : Remove(c) \/ UNCHANGED tableVars
    BY <1>2 DEF TakeUnregister
  <2>2. at = 0 /\ UNCHANGED loopVars /\ c \in Conns
    BY <1>2 DEF TakeUnregister, HubInv, LoopOfHub, TypeOK, HubTypeOK
  <2>3. QED
    BY <2>1, <2>2 DEF IndexNext, indexVars
<1>3. CASE TakeBroadcast
  <2>1. Head(queue) \in Targets
    BY <1>0, <1>3 DEF TakeBroadcast
  <2>2. QED
    BY <1>3, <2>1 DEF TakeBroadcast, IndexNext
<1>4. CASE TakeStop
  BY <1>4 DEF TakeStop, IndexNext, Targets
<1>5. CASE Visit
  BY <1>5 DEF Visit, Pass, Deliver, CloseSlow, HubPanics, HubRevokes, IndexNext, indexVars
<1>6. CASE EndBroadcast \/ Closed \/ AllClosed
  BY <1>6 DEF EndBroadcast, Closed, AllClosed, IndexNext
<1>7. CASE Recover
  BY <1>0, <1>7 DEF Recover
<1>8. CASE CloseConn \/ SetOffline \/ Stopped \/ Stop \/ UNCHANGED vars
  BY <1>8 DEF CloseConn, SetOffline, Stopped, Stop, vars
<1>9. ASSUME NEW c \in Conns,
             \/ Connect(c) \/ ReaderStep(c) \/ Register(c) \/ Unregister(c)
             \/ Challenge(c) \/ Request(c) \/ Pong(c) \/ ReaderPublish(c)
             \/ Revoke(c) \/ ReadFails(c) \/ Write(c) \/ EndWrite(c) \/ Expire(c)
      PROVE  UNCHANGED indexVars
  BY <1>9
     DEF Connect, ReaderStep, Hello, Greet, Respond, Leave, Register, Unregister,
         Challenge, Request, Pong, ReaderPublish, Revoke, ReadFails, Write, EndWrite,
         Expire
<1>10. ASSUME NEW x \in Callers, StartCall(x) \/ Publish(x) \/ Invalidate(x)
       PROVE  UNCHANGED indexVars
  BY <1>10 DEF StartCall, Publish, Invalidate
<1>11. QED
  BY <1>1, <1>2, <1>3, <1>4, <1>5, <1>6, <1>7, <1>8, <1>9, <1>10 DEF Next, HubStep

\* A step that leaves the index alone leaves the registered connections alone.
LEMMA IndexKept ==
  ASSUME UNCHANGED indexVars
  PROVE  Registered' = Registered /\ at' = at /\ due' = due
BY DEF indexVars, tableVars, loopVars, Registered

----------------------------------------------------------------------------
(* The types.                                                              *)

\* The pushes on the channels.
LEMMA PushTypes ==
  ASSUME HubTypeOK, NEW c \in Conns, Push(c)
  PROVE  sent' \in [Conns -> 0..SendCap] /\ closed' \in [Conns -> BOOLEAN]
<1>1. SendCap \in Nat
  BY WebHubAssumption
<1>2. \A n \in 0..SendCap : (IF n < SendCap THEN n + 1 ELSE n) \in 0..SendCap
  BY <1>1
<1>3. QED
  BY <1>2 DEF Push, HubTypeOK

LEMMA QueueTypes ==
  ASSUME HubTypeOK, NEW t \in Targets, Enqueue(t) \/ Queued(t)
  PROVE  queue' \in Seq(Targets) /\ Len(queue') <= QueueCap
<1>1. queue \in Seq(Targets) /\ Len(queue) <= QueueCap /\ QueueCap \in Nat
  BY WebHubAssumption DEF HubTypeOK
<1>2. CASE UNCHANGED queue
  BY <1>1, <1>2
<1>3. CASE Len(queue) < QueueCap /\ queue' = Append(queue, t)
  <2>1. Append(queue, t) \in Seq(Targets) /\ Len(Append(queue, t)) = Len(queue) + 1
    BY <1>1
  <2>2. QED
    BY <1>1, <1>3, <2>1
<1>4. QED
  BY <1>2, <1>3 DEF Enqueue, Queued

\* What IsAuthenticated and the invalidations make of the sessions.
LEMMA AuthTypes ==
  ASSUME HubTypeOK
  PROVE  /\ \A c \in Conns : AfterCheck(c) \in [Conns -> Sessions]
         /\ \A u \in Users, v \in Verdicts \union {"gone"} : Invalidated(u, v) \in [Conns -> Sessions]
         /\ \A c \in Conns, a \in [Conns -> Sessions] : Ended(a, c) \in [Conns -> Sessions]
<1>1. auth \in [Conns -> Sessions]
  BY DEF HubTypeOK
<1>2. \A c \in Conns : AfterCheck(c) \in [Conns -> Sessions]
  BY <1>1 DEF AfterCheck, Sessions
<1>3. \A u \in Users, v \in Verdicts \union {"gone"} : Invalidated(u, v) \in [Conns -> Sessions]
  <2>1. \A v \in Verdicts \union {"gone"} : v \in Sessions
    BY WebHubAssumption DEF Sessions
  <2>2. QED
    BY <1>1, <2>1 DEF Invalidated
<1>4. \A c \in Conns, a \in [Conns -> Sessions] : Ended(a, c) \in [Conns -> Sessions]
  BY DEF Ended, Sessions
<1>5. QED
  BY <1>2, <1>3, <1>4

LEMMA ReaderTypes ==
  ASSUME HubTypeOK, NEW c \in Conns,
         \/ Connect(c) \/ ReaderStep(c) \/ Register(c) \/ Unregister(c)
         \/ Challenge(c) \/ Request(c) \/ Pong(c) \/ ReaderPublish(c)
         \/ Revoke(c) \/ ReadFails(c) \/ Write(c) \/ EndWrite(c) \/ Expire(c)
  PROVE  HubTypeOK'
<1> USE DEF HubTypeOK, Serving, hubVars, chanVars, sendVars, connVars, Goto,
            StartPump, AfterRegister
<1>1. CASE Connect(c)
  BY <1>1 DEF Connect, Sessions
<1>2. CASE Hello(c)
  <2>1. auth' \in [Conns -> Sessions]
    BY <1>2, AuthTypes DEF Hello
  <2>2. QED
    BY <1>2, <2>1 DEF Hello
<1>3. CASE Greet(c) \/ Respond(c)
  <2>1. sent' \in [Conns -> 0..SendCap] /\ closed' \in [Conns -> BOOLEAN]
    BY <1>3, PushTypes DEF Greet, Respond, Panic, Send
  <2>2. QED
    BY <1>3, <2>1 DEF Greet, Respond, Panic, Send
<1>4. CASE Leave(c) \/ Unregister(c) \/ Register(c)
  <2>1. registerQ' \in {{}} \union {{d} : d \in Conns}
    BY <1>4 DEF Leave, Unregister, Register
  <2>2. unregisterQ' \in {{}} \union {{d} : d \in Conns}
    BY <1>4 DEF Leave, Unregister, Register
  <2>3. QED
    BY <1>4, <2>1, <2>2 DEF Leave, Unregister, Register
<1>5. CASE Challenge(c)
  BY <1>5 DEF Challenge, Sessions
<1>6. CASE Request(c) \/ Pong(c)
  <2>1. auth' \in [Conns -> Sessions]
    BY <1>6, AuthTypes DEF Request, Pong
  <2>2. QED
    BY <1>6, <2>1 DEF Request, Pong
<1>7. CASE ReaderPublish(c)
  <2>1. queue' \in Seq(Targets) /\ Len(queue') <= QueueCap
    BY <1>7, QueueTypes DEF ReaderPublish
  <2>2. QED
    BY <1>7, <2>1 DEF ReaderPublish
<1>8. CASE Revoke(c)
  <2>1. auth' \in [Conns -> Sessions]
    <3>1. UserOf[c] \in Users
      BY HubIndexAssumption
    <3>2. Invalidated(UserOf[c], "gone") \in [Conns -> Sessions]
      BY <3>1, AuthTypes
    <3>3. \/ auth' = Ended(Invalidated(UserOf[c], "gone"), c)
          \/ auth' = Ended(auth, c)
      BY <1>8 DEF Revoke
    <3>4. Ended(Invalidated(UserOf[c], "gone"), c) \in [Conns -> Sessions]
      BY <3>2, AuthTypes
    <3>5. auth \in [Conns -> Sessions]
      OBVIOUS
    <3>6. Ended(auth, c) \in [Conns -> Sessions]
      BY <3>5, AuthTypes
    <3>7. QED
      BY <3>3, <3>4, <3>6
  <2>2. QED
    BY <1>8, <2>1 DEF Revoke
<1>9. CASE ReadFails(c) \/ EndWrite(c)
  BY <1>9 DEF ReadFails, EndWrite
<1>10. CASE Write(c)
  <2>1. sent' \in [Conns -> 0..SendCap]
    <3>1. \A n \in 0..SendCap : n > 0 => n - 1 \in 0..SendCap
      BY WebHubAssumption
    <3>2. QED
      BY <1>10, <3>1 DEF Write
  <2>2. QED
    BY <1>10, <2>1 DEF Write
<1>11. CASE Expire(c)
  BY <1>11, WebHubAssumption DEF Expire, Sessions
<1>12. QED
  BY <1>1, <1>2, <1>3, <1>4, <1>5, <1>6, <1>7, <1>8, <1>9, <1>10, <1>11 DEF ReaderStep

LEMMA OtherTypes ==
  ASSUME HubTypeOK, IndexTypeOK,
         \/ HubStep \/ TakeRegister \/ TakeUnregister \/ TakeBroadcast \/ TakeStop
         \/ Stop
         \/ \E x \in Callers : StartCall(x) \/ Publish(x) \/ Invalidate(x)
  PROVE  HubTypeOK'
<1> USE DEF HubTypeOK, hubVars, chanVars, sendVars, connVars, GotoHub
<1>1. CASE TakeRegister \/ TakeUnregister \/ TakeStop \/ Stop
  BY <1>1 DEF TakeRegister, TakeUnregister, TakeStop, Stop
<1>2. CASE TakeBroadcast
  <2>1. Tail(queue) \in Seq(Targets) /\ Len(Tail(queue)) <= QueueCap
    BY <1>2, WebHubAssumption DEF TakeBroadcast
  <2>2. QED
    BY <1>2, <2>1 DEF TakeBroadcast
<1>3. CASE HubStep /\ Visit
  <2>1. Visited \in Conns
    BY <1>3 DEF Visit, Visiting, Visited, IndexTypeOK
  <2>2. sent' \in [Conns -> 0..SendCap] /\ closed' \in [Conns -> BOOLEAN]
    BY <1>3, <2>1, PushTypes
       DEF Visit, Pass, Deliver, Send, CloseSlow, HubPanics, HubRevokes
  <2>3. auth' \in [Conns -> Sessions]
    BY <1>3, <2>1, AuthTypes DEF Visit
  <2>4. hub' \in {"each", "panicked", "revoking"}
    BY <1>3 DEF Visit, Pass, Deliver, CloseSlow, HubPanics, HubRevokes
  <2>5. QED
    BY <1>3, <2>2, <2>3, <2>4 DEF HubStep, Visit
<1>4. CASE HubStep /\ (EndBroadcast \/ Recover \/ Closed \/ Stopped)
  BY <1>4 DEF HubStep, EndBroadcast, Recover, Closed, Stopped
<1>5. CASE HubStep /\ CloseConn
  BY <1>5 DEF HubStep, CloseConn
<1>6. CASE HubStep /\ AllClosed
  <2>1. {UserOf[cand[i]] : i \in 1..Len(cand)} \subseteq Users
    <3>1. \A i \in 1..Len(cand) : cand[i] \in Conns
      BY DEF IndexTypeOK
    <3>2. QED
      BY <3>1, HubIndexAssumption
  <2>2. offline' \subseteq Users
    BY <1>6, <2>1 DEF AllClosed
  <2>3. QED
    BY <1>6, <2>2 DEF HubStep, AllClosed
<1>7. CASE HubStep /\ SetOffline
  <2>1. PICK u \in offline : offline' = offline \ {u} /\ Queued(u)
    BY <1>7 DEF SetOffline
  <2>2. queue' \in Seq(Targets) /\ Len(queue') <= QueueCap
    BY <2>1, QueueTypes DEF Targets
  <2>3. QED
    BY <1>7, <2>1, <2>2 DEF HubStep, SetOffline
<1>8. ASSUME NEW x \in Callers, StartCall(x)
      PROVE  HubTypeOK'
  BY <1>8 DEF StartCall
<1>9. ASSUME NEW x \in Callers, Publish(x)
      PROVE  HubTypeOK'
  <2>1. queue' \in Seq(Targets) /\ Len(queue') <= QueueCap
    BY <1>9, QueueTypes DEF Publish
  <2>2. QED
    BY <1>9, <2>1 DEF Publish
<1>10. ASSUME NEW x \in Callers, Invalidate(x)
       PROVE  HubTypeOK'
  <2>1. auth' \in [Conns -> Sessions]
    BY <1>10, AuthTypes DEF Invalidate
  <2>2. QED
    BY <1>10, <2>1 DEF Invalidate
<1>11. QED
  BY <1>1, <1>2, <1>3, <1>4, <1>5, <1>6, <1>7, <1>8, <1>9, <1>10 DEF HubStep

----------------------------------------------------------------------------
(* The goroutines of the connections.                                      *)

\* What a step of a connection c leaves of the rest of the system: the hub and
\* the index do not move, and a connection that is over remains so.
Apart(c) ==
  /\ UNCHANGED <<indexVars, hubVars, closed>>
  /\ \A d \in Conns \ {c} : reader'[d] = reader[d] /\ writer'[d] = writer[d]

LEMMA ApartSteps ==
  ASSUME HubTypeOK, NEW c \in Conns,
         \/ Connect(c) \/ ReaderStep(c) \/ Register(c) \/ Unregister(c)
         \/ Challenge(c) \/ Request(c) \/ Pong(c) \/ ReaderPublish(c)
         \/ Revoke(c) \/ ReadFails(c) \/ Write(c) \/ EndWrite(c) \/ Expire(c)
  PROVE  Apart(c)
<1> USE DEF HubTypeOK, Apart, Goto, StartPump, AfterRegister, chanVars, sendVars, connVars
<1>1. CASE Connect(c) \/ Register(c) \/ Unregister(c) \/ Challenge(c)
  BY <1>1 DEF Connect, Register, Unregister, Challenge
<1>2. CASE Hello(c) \/ Leave(c)
  BY <1>2 DEF Hello, Leave
<1>3. CASE Greet(c) \/ Respond(c)
  BY <1>3 DEF Greet, Respond, Panic, Send, Push
<1>4. CASE Request(c) \/ Pong(c) \/ ReaderPublish(c)
  BY <1>4 DEF Request, Pong, ReaderPublish
<1>5. CASE Revoke(c)
  BY <1>5 DEF Revoke
<1>6. CASE ReadFails(c) \/ Write(c) \/ EndWrite(c) \/ Expire(c)
  BY <1>6 DEF ReadFails, Write, EndWrite, Expire
<1>7. QED
  BY <1>1, <1>2, <1>3, <1>4, <1>5, <1>6 DEF ReaderStep

\* The sessions: nobody becomes anonymous, nor stops being so but by a challenge
\* or when the connection is made.
SameAnon(c) == auth'[c] = "anon" <=> auth[c] = "anon"

LEMMA AnonKept ==
  ASSUME HubTypeOK
  PROVE  /\ \A c, d \in Conns : (AfterCheck(c)[d] = "anon") <=> (auth[d] = "anon")
         /\ \A d \in Conns, u \in Users, v \in Verdicts \union {"gone"} :
              (Invalidated(u, v)[d] = "anon") <=> (auth[d] = "anon")
         /\ \A c, d \in Conns, a \in [Conns -> Sessions] :
              (Ended(a, c)[d] = "anon") <=> (a[d] = "anon")
<1>1. auth \in [Conns -> Sessions]
  BY DEF HubTypeOK
<1>2. \A c, d \in Conns : (AfterCheck(c)[d] = "anon") <=> (auth[d] = "anon")
  BY <1>1 DEF AfterCheck
<1>3. \A d \in Conns, u \in Users, v \in Verdicts \union {"gone"} :
        (Invalidated(u, v)[d] = "anon") <=> (auth[d] = "anon")
  BY <1>1, WebHubAssumption DEF Invalidated, Authenticated
<1>4. \A c, d \in Conns, a \in [Conns -> Sessions] :
        (Ended(a, c)[d] = "anon") <=> (a[d] = "anon")
  BY DEF Ended
<1>5. QED
  BY <1>2, <1>3, <1>4

LEMMA RevokeKeepsAnon ==
  ASSUME HubTypeOK, NEW c \in Conns, Revoke(c)
  PROVE  \A d \in Conns : SameAnon(d)
<1>1. UserOf[c] \in Users /\ auth \in [Conns -> Sessions]
  BY HubIndexAssumption DEF HubTypeOK
<1>2. Invalidated(UserOf[c], "gone") \in [Conns -> Sessions]
  BY <1>1, AuthTypes
<1>3. CASE auth' = Ended(Invalidated(UserOf[c], "gone"), c)
  BY <1>1, <1>2, <1>3, AnonKept DEF SameAnon
<1>4. CASE auth' = Ended(auth, c)
  BY <1>1, <1>4, AnonKept DEF SameAnon
<1>5. QED
  BY <1>3, <1>4 DEF Revoke

\* The parts of the invariant that a step of a goroutine can disturb.
RestInv == RegisteredOnce /\ Known /\ Ends /\ LoopOfHub /\ HubNeverPanics

\* Such a step keeps the invariant when it moves c only as these say.
LEMMA ConnFrame ==
  ASSUME HubInv, NEW c \in Conns, Apart(c), UNCHANGED <<registerQ, unregisterQ>>,
         \A d \in Conns : SameAnon(d),
         reader[c] \notin {"new", "register", "finished"},
         reader'[c] \notin {"new", "register", "finished"},
         reader'[c] \in Serving \union {"revoking"}
           => reader[c] \in Serving \union {"revoking"},
         reader'[c] = "unregister" => writer'[c] = "ended"
  PROVE  RestInv'
<1> USE DEF HubInv, Apart, SameAnon
<1>1. Registered' = Registered /\ at' = at /\ due' = due /\ hub' = hub
  BY IndexKept DEF hubVars
<1>2. RegisteredOnce'
  BY <1>1 DEF RegisteredOnce, Unheard
<1>3. Known'
  BY <1>1 DEF Known
<1>4. Ends'
  BY DEF Ends
<1>5. \A d \in Conns : Over(d) => Over(d)'
  BY DEF Over
<1>6. LoopOfHub'
  BY <1>1, <1>5 DEF LoopOfHub, Registered
<1>7. QED
  BY <1>1, <1>2, <1>3, <1>4, <1>6 DEF RestInv, HubNeverPanics

LEMMA ConnectStep ==
  ASSUME HubInv, NEW c \in Conns, Connect(c)
  PROVE  RestInv'
<1> USE DEF HubInv, Apart, TypeOK, HubTypeOK
<1>1. Apart(c) /\ UNCHANGED <<registerQ, unregisterQ>> /\ reader[c] = "new" /\ auth[c] = "anon"
  BY ApartSteps DEF Connect, chanVars, RegisteredOnce
<1>2. Registered' = Registered /\ at' = at /\ due' = due /\ hub' = hub
  BY <1>1, IndexKept DEF hubVars
<1>3. /\ \A d \in Conns \ {c} : auth'[d] = auth[d]
      /\ \/ auth'[c] = "cached" /\ reader'[c] = "register"
         \/ auth'[c] = "anon" /\ reader'[c] = "read"
  BY <1>1 DEF Connect, Goto, StartPump
<1>4. RegisteredOnce'
  BY <1>1, <1>2, <1>3 DEF RegisteredOnce, Unheard
<1>5. Known' /\ Ends'
  BY <1>1, <1>2, <1>3 DEF Known, Ends, Serving
<1>6. LoopOfHub'
  BY <1>1, <1>2, <1>3 DEF LoopOfHub, Over, Registered
<1>7. QED
  BY <1>2, <1>4, <1>5, <1>6 DEF RestInv, HubNeverPanics

LEMMA RegisterStep ==
  ASSUME HubInv, NEW c \in Conns, Register(c)
  PROVE  RestInv'
<1> USE DEF HubInv, Apart, TypeOK, HubTypeOK
<1>1. /\ Apart(c) /\ UNCHANGED <<unregisterQ, auth>>
      /\ reader[c] = "register" /\ reader'[c] = "hello"
      /\ registerQ' = {c} \/ (hub = "stopped" /\ registerQ' = registerQ)
  BY ApartSteps DEF Register, Goto, UntilStopped, DidStop
<1>2. Registered' = Registered /\ at' = at /\ due' = due /\ hub' = hub
  BY <1>1, IndexKept DEF hubVars
<1>3. RegisteredOnce'
  BY <1>1, <1>2 DEF RegisteredOnce, Unheard
<1>4. Known'
  <2>1. CASE registerQ' = {c} /\ registerQ = {}
    BY <1>1, <1>2, <2>1 DEF Known
  <2>2. CASE hub = "stopped"
    BY <1>2, <2>2 DEF Known
  <2>3. QED
    BY <2>1, <2>2 DEF Register, UntilStopped, DidStop
<1>5. Ends'
  BY <1>1, <1>2 DEF Ends
<1>6. LoopOfHub'
  BY <1>1, <1>2 DEF LoopOfHub, Over, Registered
<1>7. QED
  BY <1>2, <1>3, <1>4, <1>5, <1>6 DEF RestInv, HubNeverPanics

\* Only an anonymous connection registers by a challenge, for it never was.
LEMMA ChallengeStep ==
  ASSUME HubInv, ~Reauth, NEW c \in Conns, Challenge(c)
  PROVE  RestInv'
<1> USE DEF HubInv, Apart, TypeOK, HubTypeOK
<1>1. Apart(c) /\ UNCHANGED <<registerQ, unregisterQ>> /\ reader[c] = "read" /\ auth[c] = "anon"
  BY ApartSteps DEF Challenge, chanVars, MayAuthenticate, HasToken
<1>2. Registered' = Registered /\ at' = at /\ due' = due /\ hub' = hub
  BY <1>1, IndexKept DEF hubVars
<1>3. /\ \A d \in Conns \ {c} : auth'[d] = auth[d]
      /\ \/ auth'[c] = "check" /\ reader'[c] = "register"
         \/ auth'[c] = "anon" /\ reader'[c] \in {"leaving", "rejecting"}
  BY <1>1 DEF Challenge, Goto
<1>4. RegisteredOnce'
  BY <1>1, <1>2, <1>3 DEF RegisteredOnce, Unheard
<1>5. Known' /\ Ends'
  BY <1>1, <1>2, <1>3 DEF Known, Ends, Serving
<1>6. LoopOfHub'
  BY <1>1, <1>2, <1>3 DEF LoopOfHub, Over, Registered
<1>7. QED
  BY <1>2, <1>4, <1>5, <1>6 DEF RestInv, HubNeverPanics

LEMMA UnregisterStep ==
  ASSUME HubInv, NEW c \in Conns, Unregister(c)
  PROVE  RestInv'
<1> USE DEF HubInv, Apart, TypeOK, HubTypeOK
<1>1. /\ Apart(c) /\ UNCHANGED <<registerQ, auth, writer>>
      /\ reader[c] = "unregister" /\ reader'[c] = "finished"
      /\ unregisterQ' \in {{c}, unregisterQ}
  BY ApartSteps DEF Unregister, Goto
<1>2. Registered' = Registered /\ at' = at /\ due' = due /\ hub' = hub
  BY <1>1, IndexKept DEF hubVars
<1>3. RegisteredOnce'
  BY <1>1, <1>2 DEF RegisteredOnce, Unheard
<1>4. Known' /\ Ends'
  BY <1>1, <1>2 DEF Known, Ends, Serving
<1>5. LoopOfHub'
  BY <1>1, <1>2 DEF LoopOfHub, Over, Registered
<1>6. QED
  BY <1>2, <1>3, <1>4, <1>5 DEF RestInv, HubNeverPanics

\* Whoever reads has registered or is anonymous, and stays so.
LEMMA ReaderMoves ==
  ASSUME HubTypeOK, NEW c \in Conns,
         \/ ReaderStep(c) \/ Request(c) \/ Pong(c) \/ ReaderPublish(c)
         \/ Revoke(c) \/ ReadFails(c)
  PROVE  /\ UNCHANGED <<registerQ, unregisterQ>>
         /\ \A d \in Conns : SameAnon(d)
         /\ reader[c] \notin {"new", "register", "finished"}
         /\ reader'[c] \notin {"new", "register", "finished"}
         /\ reader'[c] \in Serving \union {"revoking"}
              => reader[c] \in Serving \union {"revoking"}
         /\ reader'[c] = "unregister" => writer'[c] = "ended"
<1> USE DEF HubTypeOK, Serving, Goto, chanVars
<1>1. UNCHANGED <<registerQ, unregisterQ>>
  BY DEF ReaderStep, Hello, Greet, Respond, Leave, Request, Pong, ReaderPublish, Revoke, ReadFails
<1>2. \A d \in Conns : SameAnon(d)
  <2>1. CASE Revoke(c)
    BY <2>1, RevokeKeepsAnon
  <2>2. CASE auth' = AfterCheck(c) \/ UNCHANGED auth
    BY <2>2, AnonKept DEF SameAnon
  <2>3. QED
    BY <2>1, <2>2
       DEF ReaderStep, Hello, Greet, Respond, Leave, Request, Pong, ReaderPublish,
           ReadFails, connVars
<1>3. reader[c] \notin {"new", "register", "finished"}
  BY DEF ReaderStep, Hello, Greet, Respond, Leave, Request, Pong, ReaderPublish, Revoke, ReadFails
<1>4. CASE ReaderStep(c)
  <2>1. /\ reader'[c] \notin {"new", "register", "finished"}
        /\ reader'[c] \in Serving \union {"revoking"}
             => reader[c] \in Serving \union {"revoking"}
        /\ reader'[c] = "unregister" => writer'[c] = "ended"
    BY <1>4 DEF ReaderStep, Hello, Greet, Respond, Leave, AfterRegister, StartPump, Panic
  <2>2. QED
    BY <1>1, <1>2, <1>3, <2>1
<1>5. CASE Request(c) \/ Pong(c) \/ ReaderPublish(c) \/ Revoke(c) \/ ReadFails(c)
  <2>1. /\ reader'[c] \notin {"new", "register", "finished", "unregister"}
        /\ reader'[c] \in Serving \union {"revoking"}
             => reader[c] \in Serving \union {"revoking"}
    BY <1>5 DEF Request, Pong, ReaderPublish, Revoke, ReadFails, AfterRegister, StartPump
  <2>2. QED
    BY <1>1, <1>2, <1>3, <2>1
<1>6. QED
  BY <1>4, <1>5

LEMMA ReaderSteps ==
  ASSUME HubInv, NEW c \in Conns,
         \/ ReaderStep(c) \/ Request(c) \/ Pong(c) \/ ReaderPublish(c)
         \/ Revoke(c) \/ ReadFails(c)
  PROVE  RestInv'
<1>1. HubTypeOK
  BY DEF HubInv, TypeOK
<1>2. Apart(c)
  BY <1>1, ApartSteps
<1>3. QED
  BY <1>1, <1>2, ReaderMoves, ConnFrame

\* The write pump, and the sessions that expire.
LEMMA PumpSteps ==
  ASSUME HubInv, NEW c \in Conns, Write(c) \/ EndWrite(c) \/ Expire(c)
  PROVE  RestInv'
<1> USE DEF HubInv, TypeOK, HubTypeOK, Apart
<1>1. Apart(c) /\ UNCHANGED <<registerQ, unregisterQ, reader>>
  BY ApartSteps DEF Write, EndWrite, Expire, chanVars
<1>2. Registered' = Registered /\ at' = at /\ due' = due /\ hub' = hub
  BY <1>1, IndexKept DEF hubVars
<1>3. \A d \in Conns : SameAnon(d)
  BY WebHubAssumption DEF Write, EndWrite, Expire, SameAnon
<1>4. \A d \in Conns : writer[d] = "ended" => writer'[d] = "ended"
  BY DEF Write, EndWrite, Expire
<1>5. RegisteredOnce' /\ Known' /\ Ends'
  BY <1>1, <1>2, <1>3, <1>4 DEF RegisteredOnce, Unheard, Known, Ends, SameAnon
<1>6. LoopOfHub'
  BY <1>1, <1>2, <1>4 DEF LoopOfHub, Over, Registered
<1>7. QED
  BY <1>2, <1>5, <1>6 DEF RestInv, HubNeverPanics

\* The other goroutines move nothing of a connection but its session.
LEMMA CallerSteps ==
  ASSUME HubInv, NEW x \in Callers, StartCall(x) \/ Publish(x) \/ Invalidate(x)
  PROVE  RestInv'
<1> USE DEF HubInv, TypeOK, HubTypeOK, connVars, sendVars, chanVars
<1>1. UNCHANGED <<indexVars, hubVars, registerQ, unregisterQ, reader, writer, closed>>
  BY DEF StartCall, Publish, Invalidate
<1>2. Registered' = Registered /\ at' = at /\ due' = due /\ hub' = hub
  BY <1>1, IndexKept DEF hubVars
<1>3. \A d \in Conns : SameAnon(d)
  BY AnonKept DEF StartCall, Publish, Invalidate, SameAnon
<1>4. RegisteredOnce' /\ Known' /\ Ends'
  BY <1>1, <1>2, <1>3 DEF RegisteredOnce, Unheard, Known, Ends, SameAnon
<1>5. LoopOfHub'
  BY <1>1, <1>2 DEF LoopOfHub, Over, Registered
<1>6. QED
  BY <1>2, <1>4, <1>5 DEF RestInv, HubNeverPanics

----------------------------------------------------------------------------
(* The goroutine of the hub.                                               *)

LEMMA RegisterTaken ==
  ASSUME HubInv, TakeRegister
  PROVE  RestInv'
<1> USE DEF HubInv, TypeOK, HubTypeOK, connVars, sendVars, hubVars
<1>1. PICK c \in registerQ : Add(c)
  BY DEF TakeRegister
<1>2. c \in Conns /\ registerQ = {c} /\ registerQ' = {}
  BY DEF TakeRegister
<1>3. Registered' = Registered \union {c}
  <2>1. Len(all) \in Nat /\ posAll \in [Conns -> Nat]
    BY DEF IndexTypeOK
  <2>2. posAll' = [posAll EXCEPT ![c] = Len(all) + 1]
    BY <1>1 DEF Add
  <2>3. QED
    BY <1>2, <2>1, <2>2 DEF Registered
<1>4. UNCHANGED <<hub, at, due, unregisterQ, reader, writer, closed, auth>>
  BY DEF TakeRegister, loopVars
<1>5. RegisteredOnce'
  BY <1>2, <1>3, <1>4 DEF RegisteredOnce, Unheard
<1>6. Known' /\ Ends'
  BY <1>2, <1>3, <1>4 DEF Known, Ends
<1>7. LoopOfHub' /\ HubNeverPanics'
  BY <1>4 DEF LoopOfHub, HubNeverPanics, TakeRegister
<1>8. QED
  BY <1>5, <1>6, <1>7 DEF RestInv

LEMMA UnregisterTaken ==
  ASSUME HubInv, TakeUnregister
  PROVE  RestInv'
<1> USE DEF HubInv, TypeOK, HubTypeOK, connVars, sendVars, hubVars
<1>1. PICK c \in unregisterQ : Remove(c) /\ UNCHANGED hub
  <2>1. \A d \in unregisterQ : ~Broken(d)
    BY NothingBroken
  <2>2. QED
    BY <2>1 DEF TakeUnregister
<1>2. c \in Conns /\ reader[c] = "finished" /\ unregisterQ' = {}
  BY DEF TakeUnregister, Ends
<1>3. Registered' = Registered \ {c}
  <2>1. posAll'[c] = 0 /\ \A d \in Conns \ {c} : posAll'[d] > 0 <=> posAll[d] > 0
    BY <1>1, <1>2, TablesOfInv, RemoveKeepsTables
  <2>2. QED
    BY <1>2, <2>1 DEF Registered
<1>4. UNCHANGED <<hub, at, due, registerQ, reader, writer, closed, auth>>
  BY <1>1 DEF TakeUnregister, loopVars
<1>5. RegisteredOnce'
  BY <1>3, <1>4 DEF RegisteredOnce, Unheard
<1>6. Known' /\ Ends'
  BY <1>2, <1>3, <1>4 DEF Known, Ends, Serving
<1>7. LoopOfHub' /\ HubNeverPanics'
  BY <1>4 DEF LoopOfHub, HubNeverPanics, TakeUnregister
<1>8. QED
  BY <1>5, <1>6, <1>7 DEF RestInv

\* A step that moves neither the connections nor the tables.
LEMMA HubFrame ==
  ASSUME HubInv, UNCHANGED <<posAll, registerQ, unregisterQ, reader, writer, closed, auth>>,
         hub' # "panicked", hub = "stopped" => hub' = "stopped", LoopOfHub'
  PROVE  RestInv'
<1>1. Registered' = Registered
  BY DEF Registered
<1>2. RegisteredOnce'
  BY <1>1 DEF HubInv, RegisteredOnce, Unheard
<1>3. Known' /\ Ends'
  BY <1>1 DEF HubInv, Known, Ends
<1>4. QED
  BY <1>2, <1>3 DEF RestInv, HubNeverPanics

LEMMA TakenSteps ==
  ASSUME HubInv, TakeBroadcast \/ TakeStop \/ Stop
  PROVE  RestInv'
<1> USE DEF connVars, sendVars, chanVars, tableVars, indexVars, GotoHub
<1>1. UNCHANGED <<posAll, registerQ, unregisterQ, reader, writer, closed, auth>>
  BY DEF TakeBroadcast, TakeStop, Stop
<1>2. Registered' = Registered
  BY <1>1 DEF Registered
<1>3. CASE TakeBroadcast
  BY <1>1, <1>3, HubFrame DEF TakeBroadcast, LoopOfHub
<1>4. CASE TakeStop
  <2>1. due' = Registered
    BY <1>4 DEF TakeStop, Iterate
  <2>2. LoopOfHub'
    BY <1>2, <1>4, <2>1 DEF TakeStop, LoopOfHub
  <2>3. QED
    BY <1>1, <1>4, <2>2, HubFrame DEF TakeStop
<1>5. CASE Stop
  <2>1. UNCHANGED <<hub, at, due>>
    BY <1>5 DEF Stop, loopVars
  <2>2. LoopOfHub'
    BY <1>1, <1>2, <2>1 DEF HubInv, LoopOfHub, Over
  <2>3. QED
    BY <1>1, <2>1, <2>2, HubFrame DEF HubInv, HubNeverPanics
<1>6. QED
  BY <1>3, <1>4, <1>5

\* The hub never panics: whom it comes to is in the index, so its channel is open
\* and its places are its own.
LEMMA VisitStep ==
  ASSUME HubInv, HubStep, Visit
  PROVE  RestInv'
<1> USE DEF HubInv, TypeOK, HubTypeOK, chanVars
<1> DEFINE c == Visited
<1>1. c \in Conns /\ c \in Registered
  BY VisitedRegistered DEF Visit
<1>2. ~closed[c] /\ ~Broken(c)
  BY <1>1, NothingBroken DEF RegisteredOnce
<1>3. \A d \in Conns : SameAnon(d)
  BY <1>1, AnonKept DEF Visit, SameAnon
<1>4. /\ UNCHANGED <<registerQ, unregisterQ, reader, writer>>
      /\ hub' \in {"each", "revoking"} /\ hub = "each"
      /\ \/ UNCHANGED closed /\ UNCHANGED tableVars
         \/ closed' = [closed EXCEPT ![c] = TRUE] /\ Remove(c)
  <2>1. ~HubPanics(c)
    BY <1>2 DEF HubPanics
  <2>2. QED
    BY <2>1
       DEF Visit, Pass, Deliver, Send, Push, CloseSlow, Drop, HubRevokes, sendVars,
           indexVars
<1>5. LoopOfHub' /\ HubNeverPanics'
  BY <1>4 DEF LoopOfHub, HubNeverPanics
<1>6. Ends'
  BY <1>4 DEF Ends
<1>7. CASE UNCHANGED closed /\ UNCHANGED tableVars
  <2>1. Registered' = Registered
    BY <1>7 DEF Registered, tableVars
  <2>2. RegisteredOnce' /\ Known'
    BY <1>3, <1>4, <1>7, <2>1 DEF RegisteredOnce, Unheard, Known, SameAnon
  <2>3. QED
    BY <1>5, <1>6, <2>2 DEF RestInv
<1>8. CASE closed' = [closed EXCEPT ![c] = TRUE] /\ Remove(c)
  <2>1. posAll'[c] = 0 /\ \A d \in Conns \ {c} : posAll'[d] > 0 <=> posAll[d] > 0
    BY <1>1, <1>8, TablesOfInv, RemoveKeepsTables
  <2>2. Registered' = Registered \ {c}
    BY <1>1, <2>1 DEF Registered
  <2>3. closed'[c] /\ \A d \in Conns \ {c} : closed'[d] = closed[d]
    BY <1>1, <1>8
  <2>4. RegisteredOnce'
    BY <1>1, <1>3, <1>4, <2>2, <2>3 DEF RegisteredOnce, Unheard, SameAnon
  <2>5. Known'
    BY <1>1, <1>3, <1>4, <2>2, <2>3 DEF Known, SameAnon
  <2>6. QED
    BY <1>5, <1>6, <2>4, <2>5 DEF RestInv
<1>9. QED
  BY <1>4, <1>7, <1>8

\* The stop waits for the goroutine of each connection.
LEMMA ClosingSteps ==
  ASSUME HubInv, HubStep, CloseConn \/ Closed \/ AllClosed \/ SetOffline \/ Stopped
  PROVE  RestInv'
<1> USE DEF connVars, sendVars, chanVars, tableVars, indexVars, loopVars, hubVars, GotoHub
<1>1. UNCHANGED <<posAll, registerQ, unregisterQ, reader, writer, closed, auth>>
  BY DEF CloseConn, Closed, AllClosed, SetOffline, Stopped
<1>2. Registered' = Registered /\ \A c \in Conns : Over(c)' = Over(c)
  BY <1>1 DEF Registered, Over
<1>3. CASE CloseConn
  BY <1>1, <1>2, <1>3, HubFrame DEF CloseConn, HubInv, LoopOfHub, Registered
<1>4. CASE Closed
  <2>1. due' = due \ {Visited} /\ reader[Visited] = "finished" /\ UNCHANGED hub
        /\ hub = "closing" /\ Visited \in Conns
    BY <1>4, VisitedRegistered DEF Closed, Keep, PumpFinished, HubInv
  <2>2. Over(Visited)
    BY <2>1 DEF HubInv, Ends, Over
  <2>3. \A c \in Registered \ due : Over(c)
    BY <2>1 DEF HubInv, LoopOfHub
  <2>4. LoopOfHub'
    BY <1>2, <2>1, <2>2, <2>3 DEF LoopOfHub, Registered
  <2>5. QED
    BY <1>1, <2>1, <2>4, HubFrame
<1>5. CASE AllClosed
  <2>1. hub = "closing" /\ hub' = "offline" /\ at > Len(cand) /\ at' = 0
    BY <1>5 DEF AllClosed, EndLoop
  <2>2. due = {}
    <3>1. at \in Nat /\ Len(cand) \in Nat /\ at > 0
      BY <2>1 DEF HubInv, IndexInv, IndexTypeOK
    <3>2. at..Len(cand) = {}
      BY <2>1, <3>1
    <3>3. QED
      BY <3>1, <3>2 DEF HubInv, IndexInv, VisitOnce
  <2>3. LoopOfHub'
    BY <1>2, <2>1, <2>2 DEF HubInv, LoopOfHub, Registered
  <2>4. QED
    BY <1>1, <2>1, <2>3, HubFrame
<1>6. CASE SetOffline \/ Stopped
  <2>1. /\ hub = "offline" /\ hub' \in {"offline", "stopped"} /\ UNCHANGED at
    BY <1>6 DEF SetOffline, Stopped
  <2>2. LoopOfHub'
    BY <1>2, <2>1 DEF HubInv, LoopOfHub, Registered
  <2>3. QED
    BY <1>1, <2>1, <2>2, HubFrame
<1>7. QED
  BY <1>3, <1>4, <1>5, <1>6

LEMMA EndBroadcastStep ==
  ASSUME HubInv, HubStep, EndBroadcast
  PROVE  RestInv'
<1>1. /\ UNCHANGED <<posAll, registerQ, unregisterQ, reader, writer, closed, auth>>
      /\ hub = "each" /\ hub' = "select" /\ at' = 0
  BY DEF EndBroadcast, EndLoop, GotoHub, tableVars, chanVars, connVars, sendVars
<1>2. QED
  BY <1>1, HubFrame DEF LoopOfHub

----------------------------------------------------------------------------
(* The invariant.                                                          *)

LEMMA RestNext ==
  ASSUME ~Reauth, HubInv, [Next]_vars
  PROVE  RestInv'
<1>1. CASE UNCHANGED vars
  <2>1. Registered' = Registered
    BY <1>1 DEF vars, indexVars, tableVars, Registered
  <2>2. LoopOfHub'
    BY <1>1, <2>1
       DEF vars, indexVars, loopVars, hubVars, connVars, HubInv, LoopOfHub, Over
  <2>3. QED
    BY <1>1, <2>2, HubFrame
       DEF vars, indexVars, tableVars, hubVars, chanVars, connVars, sendVars,
           HubInv, HubNeverPanics
<1>2. CASE HubStep
  <2>1. ~Recover
    BY DEF Recover, HubInv, HubNeverPanics
  <2>2. QED
    BY <1>2, <2>1, VisitStep, ClosingSteps, EndBroadcastStep DEF HubStep
<1>3. CASE TakeRegister \/ TakeUnregister \/ TakeBroadcast \/ TakeStop \/ Stop
  BY <1>3, RegisterTaken, UnregisterTaken, TakenSteps
<1>4. ASSUME NEW c \in Conns,
             \/ Connect(c) \/ ReaderStep(c) \/ Register(c) \/ Unregister(c)
             \/ Challenge(c) \/ Request(c) \/ Pong(c) \/ ReaderPublish(c)
             \/ Revoke(c) \/ ReadFails(c) \/ Write(c) \/ EndWrite(c) \/ Expire(c)
      PROVE  RestInv'
  BY <1>4, ConnectStep, RegisterStep, UnregisterStep, ChallengeStep, ReaderSteps, PumpSteps
<1>5. QED
  BY <1>1, <1>2, <1>3, <1>4, CallerSteps DEF Next

LEMMA TypesNext == TypeOK /\ [Next]_vars => HubTypeOK'
<1> SUFFICES ASSUME TypeOK, [Next]_vars PROVE HubTypeOK'
  OBVIOUS
<1>1. HubTypeOK /\ IndexTypeOK
  BY DEF TypeOK
<1>2. CASE UNCHANGED vars
  BY <1>1, <1>2 DEF vars, hubVars, chanVars, connVars, sendVars, HubTypeOK
<1>3. CASE Next
  BY <1>1, <1>3, ReaderTypes, OtherTypes DEF Next
<1>4. QED
  BY <1>2, <1>3

LEMMA HubInvNext == ~Reauth /\ HubInv /\ [Next]_vars => HubInv'
<1> SUFFICES ASSUME ~Reauth, HubInv, [Next]_vars PROVE HubInv'
  OBVIOUS
<1>1. IndexInv'
  <2>1. [IndexNext]_indexVars
    BY StepUsesIndex
  <2>2. QED
    BY <2>1, NextIndexInv DEF HubInv
<1>2. TypeOK'
  BY <1>1, TypesNext DEF HubInv, IndexInv, TypeOK
<1>3. QED
  BY <1>1, <1>2, RestNext DEF RestInv, HubInv

----------------------------------------------------------------------------
(* What outlives a panic and a second registration of a connection.  The   *)
(* index may then hold a connection twice, forget one and find no place    *)
(* for another, but those it knows it can find, and a stop waits for them. *)

\* The stop has come past the connections before `at' only when they were over.
StopWaits ==
  /\ hub = "closing" => cand = all /\ \A i \in 1..Len(cand) : i < at => Over(cand[i])
  /\ hub \in {"offline", "stopped"} => \A c \in Registered : Over(c)

\* A connection has no token before it is made.
NewIsAnon == \A c \in Conns : reader[c] = "new" => auth[c] = "anon"

StopInv == HubTypeOK /\ ListInv /\ Ends /\ StopWaits /\ NewIsAnon

LEMMA StopInvInit == Init => StopInv
<1> SUFFICES ASSUME Init PROVE StopInv
  OBVIOUS
<1>1. HubInv
  BY InvInit
<1>2. Listed
  <2>1. Registered = {}
    BY DEF Init, IndexInit, EmptyTables, Registered
  <2>2. QED
    BY <2>1 DEF Listed
<1>3. Owned
  BY DEF Init, IndexInit, EmptyTables, EmptyLoop, Owned
<1>4. QED
  BY <1>1, <1>2, <1>3
     DEF HubInv, TypeOK, Init, ListInv, StopInv, StopWaits, RegisteredOnce, NewIsAnon

\* Remove finds the places it writes when none is broken.
LEMMA UnbrokenRemoves ==
  ASSUME ListInv, NEW c \in Registered, ~Broken(c)
  PROVE  LastKnown
<1>1. all \in Seq(Conns) /\ posAll \in [Conns -> Nat] /\ posAll[c] \in 1..Len(all)
  BY DEF ListInv, IndexTypeOK, Listed, IsAt
<1>2. Len(all) \in 1..Len(all)
  BY <1>1
<1>3. all[Len(all)] \in Conns /\ posAll[all[Len(all)]] # 0
  BY <1>1, <1>2 DEF Broken
<1>4. QED
  BY <1>1, <1>3 DEF LastKnown

LEMMA RegisterKeepsListed ==
  ASSUME StopInv, TakeRegister \/ TakeUnregister
  PROVE  ListInv'
<1> USE DEF StopInv, ListInv
<1>1. CASE TakeRegister
  <2>1. PICK c \in registerQ : Add(c)
    BY <1>1 DEF TakeRegister
  <2>2. c \in Conns /\ UNCHANGED loopVars
    BY <1>1 DEF HubTypeOK, TakeRegister
  <2>3. QED
    BY <2>1, <2>2, AddKeepsListed
<1>2. CASE UNCHANGED tableVars /\ UNCHANGED loopVars
  BY <1>2, ListFrame DEF indexVars
<1>3. CASE TakeUnregister /\ ~UNCHANGED tableVars
  <2>1. PICK c \in unregisterQ : ~Broken(c) /\ Remove(c)
    BY <1>3 DEF TakeUnregister
  <2>2. c \in Conns /\ UNCHANGED loopVars
    BY <1>3 DEF HubTypeOK, TakeUnregister
  <2>3. c \in Registered
    BY <1>3, <2>1, <2>2 DEF Remove, Registered, IndexTypeOK
  <2>4. QED
    BY <2>1, <2>2, <2>3, UnbrokenRemoves, RemoveKeepsListed DEF Owned, IndexTypeOK, loopVars
<1>4. QED
  BY <1>1, <1>2, <1>3 DEF TakeUnregister

LEMMA VisitKeepsListed ==
  ASSUME StopInv, Visit
  PROVE  ListInv'
<1> USE DEF StopInv, ListInv
<1> DEFINE c == Visited
<1>1. Visiting /\ c \in Conns
  BY DEF Visit, Visiting, Visited, IndexTypeOK
<1>2. CASE Keep /\ UNCHANGED tableVars
  BY <1>1, <1>2, KeepListed
<1>3. CASE UNCHANGED indexVars
  BY <1>3, ListFrame
<1>4. CASE Drop /\ ~Broken(c)
  <2>1. CASE c \in Registered
    BY <1>1, <1>4, <2>1, UnbrokenRemoves, DropKeepsListed
  <2>2. CASE c \notin Registered
    <3>1. posAll[c] = 0
      BY <1>1, <2>2 DEF IndexTypeOK, Registered
    <3>2. UNCHANGED tableVars /\ UNCHANGED <<target, cand>> /\ at' = at + 1 /\ due' = due \ {c}
      BY <1>4, <3>1 DEF Drop, Remove
    <3>3. QED
      BY <1>1, <3>2, KeepListed DEF Keep
  <2>3. QED
    BY <2>1, <2>2
<1>5. QED
  BY <1>2, <1>3, <1>4 DEF Visit, Pass, Deliver, CloseSlow, HubPanics, HubRevokes

LEMMA ListInvNext ==
  ASSUME StopInv, [Next]_vars
  PROVE  ListInv'
<1>0. ListInv /\ queue \in Seq(Targets)
  BY DEF StopInv, HubTypeOK
<1>1. CASE UNCHANGED indexVars
  BY <1>0, <1>1, ListFrame
<1>2. CASE TakeRegister \/ TakeUnregister
  BY <1>2, RegisterKeepsListed
<1>3. CASE TakeBroadcast
  <2>1. Head(queue) \in Targets
    BY <1>0, <1>3 DEF TakeBroadcast
  <2>2. QED
    BY <1>0, <1>3, <2>1, IterateListed DEF TakeBroadcast
<1>4. CASE TakeStop
  BY <1>0, <1>4, IterateListed DEF TakeStop, Targets
<1>5. CASE Visit
  BY <1>5, VisitKeepsListed
<1>6. CASE EndBroadcast \/ AllClosed
  BY <1>0, <1>6, EndLoopListed DEF EndBroadcast, AllClosed
<1>7. CASE Closed
  BY <1>0, <1>7, KeepListed DEF Closed
<1>8. CASE Recover
  <2>1. ListInv'
    BY <1>8, EmptyListed DEF Recover, IndexInit, EmptyTables, EmptyLoop
  <2>2. QED
    BY <2>1
<1>9. CASE CloseConn \/ SetOffline \/ Stopped \/ Stop \/ UNCHANGED vars
  BY <1>1, <1>9 DEF CloseConn, SetOffline, Stopped, Stop, vars
<1>10. ASSUME NEW c \in Conns,
             \/ Connect(c) \/ ReaderStep(c) \/ Register(c) \/ Unregister(c)
             \/ Challenge(c) \/ Request(c) \/ Pong(c) \/ ReaderPublish(c)
             \/ Revoke(c) \/ ReadFails(c) \/ Write(c) \/ EndWrite(c) \/ Expire(c)
      PROVE  UNCHANGED indexVars
  BY <1>10, ApartSteps DEF StopInv, Apart
<1>11. ASSUME NEW x \in Callers, StartCall(x) \/ Publish(x) \/ Invalidate(x)
       PROVE  UNCHANGED indexVars
  BY <1>11 DEF StartCall, Publish, Invalidate
<1>12. QED
  BY <1>1, <1>2, <1>3, <1>4, <1>5, <1>6, <1>7, <1>8, <1>9, <1>10, <1>11 DEF Next, HubStep

\* A goroutine that has finished does nothing more, and its write pump ended
\* before.
LEMMA ConnEnds ==
  ASSUME HubTypeOK, Ends, NEW c \in Conns,
         \/ Connect(c) \/ ReaderStep(c) \/ Register(c) \/ Unregister(c)
         \/ Challenge(c) \/ Request(c) \/ Pong(c) \/ ReaderPublish(c)
         \/ Revoke(c) \/ ReadFails(c) \/ Write(c) \/ EndWrite(c) \/ Expire(c)
  PROVE  /\ reader'[c] \in {"unregister", "finished"} => writer'[c] = "ended"
         /\ reader[c] = "finished" => reader'[c] = "finished"
         /\ \A d \in unregisterQ' \ unregisterQ : reader'[d] = "finished"
<1> USE DEF HubTypeOK, Ends, Goto, StartPump, AfterRegister, Serving, chanVars, sendVars
<1>1. CASE Connect(c) \/ Register(c) \/ Challenge(c)
  BY <1>1 DEF Connect, Register, Challenge
<1>2. CASE Hello(c) \/ Leave(c)
  BY <1>2 DEF Hello, Leave
<1>3. CASE Greet(c) \/ Respond(c)
  BY <1>3 DEF Greet, Respond, Panic, Send, Push
<1>4. CASE Request(c) \/ Pong(c) \/ ReaderPublish(c)
  BY <1>4 DEF Request, Pong, ReaderPublish
<1>5. CASE Revoke(c)
  BY <1>5 DEF Revoke
<1>6. CASE ReadFails(c) \/ Write(c) \/ EndWrite(c) \/ Expire(c)
  BY <1>6 DEF ReadFails, Write, EndWrite, Expire
<1>7. CASE Unregister(c)
  BY <1>7 DEF Unregister
<1>8. QED
  BY <1>1, <1>2, <1>3, <1>4, <1>5, <1>6, <1>7 DEF ReaderStep

\* Nobody else moves the goroutines of a connection.
LEMMA OthersLeaveConns ==
  ASSUME HubTypeOK, [Next]_vars,
         ~ \E c \in Conns :
             \/ Connect(c) \/ ReaderStep(c) \/ Register(c) \/ Unregister(c)
             \/ Challenge(c) \/ Request(c) \/ Pong(c) \/ ReaderPublish(c)
             \/ Revoke(c) \/ ReadFails(c) \/ Write(c) \/ EndWrite(c) \/ Expire(c)
  PROVE  UNCHANGED <<reader, writer>> /\ unregisterQ' \subseteq unregisterQ
<1> USE DEF connVars, chanVars
<1>1. CASE HubStep
  BY <1>1 DEF HubStep, Visit, EndBroadcast, Recover, CloseConn, Closed, AllClosed,
              SetOffline, Stopped
<1>2. CASE TakeRegister \/ TakeUnregister \/ TakeBroadcast \/ TakeStop \/ Stop
  BY <1>2 DEF TakeRegister, TakeUnregister, TakeBroadcast, TakeStop, Stop
<1>3. ASSUME NEW x \in Callers, StartCall(x) \/ Publish(x) \/ Invalidate(x)
      PROVE  UNCHANGED <<reader, writer>> /\ unregisterQ' \subseteq unregisterQ
  BY <1>3 DEF StartCall, Publish, Invalidate
<1>4. CASE UNCHANGED vars
  BY <1>4 DEF vars
<1>5. QED
  BY <1>1, <1>2, <1>3, <1>4 DEF Next

LEMMA EndsNext ==
  ASSUME HubTypeOK, Ends, [Next]_vars
  PROVE  Ends' /\ \A c \in Conns : Over(c) => Over(c)'
<1>1. ASSUME NEW c \in Conns,
             \/ Connect(c) \/ ReaderStep(c) \/ Register(c) \/ Unregister(c)
             \/ Challenge(c) \/ Request(c) \/ Pong(c) \/ ReaderPublish(c)
             \/ Revoke(c) \/ ReadFails(c) \/ Write(c) \/ EndWrite(c) \/ Expire(c)
      PROVE  Ends' /\ \A d \in Conns : Over(d) => Over(d)'
  <2>1. \A d \in Conns \ {c} : reader'[d] = reader[d] /\ writer'[d] = writer[d]
    BY <1>1, ApartSteps DEF Apart
  <2>2. /\ reader'[c] \in {"unregister", "finished"} => writer'[c] = "ended"
        /\ reader[c] = "finished" => reader'[c] = "finished"
        /\ \A d \in unregisterQ' \ unregisterQ : reader'[d] = "finished"
    BY <1>1, ConnEnds
  <2>3. QED
    BY <2>1, <2>2 DEF Ends, Over
<1>2. CASE ~ \E c \in Conns :
             \/ Connect(c) \/ ReaderStep(c) \/ Register(c) \/ Unregister(c)
             \/ Challenge(c) \/ Request(c) \/ Pong(c) \/ ReaderPublish(c)
             \/ Revoke(c) \/ ReadFails(c) \/ Write(c) \/ EndWrite(c) \/ Expire(c)
  <2>1. UNCHANGED <<reader, writer>> /\ unregisterQ' \subseteq unregisterQ
    BY <1>2, OthersLeaveConns
  <2>2. QED
    BY <2>1 DEF Ends, Over
<1>3. QED
  BY <1>1, <1>2

\* The connections that are over stay so, and the hub moves on from each only
\* when it is.
LEMMA StopWaitsNext ==
  ASSUME StopInv, [Next]_vars
  PROVE  StopWaits'
<1> USE DEF StopInv
<1>0. /\ \A c \in Conns : Over(c) => Over(c)'
      /\ cand \in Seq(Conns) /\ at \in Nat
  BY EndsNext DEF ListInv, IndexTypeOK
<1>1. CASE UNCHANGED indexVars /\ (UNCHANGED hub \/ (hub = "offline" /\ hub' = "stopped"))
  <2>1. Registered' = Registered /\ UNCHANGED <<all, cand, at>>
    BY <1>1, IndexKept DEF indexVars, tableVars, loopVars
  <2>2. \A i \in 1..Len(cand) : cand[i] \in Conns
    BY <1>0
  <2>3. \A i \in 1..Len(cand) : Over(cand[i]) => Over(cand[i])'
    BY <1>0, <2>1, <2>2 DEF Over
  <2>4. CASE hub = "closing"
    BY <1>1, <2>1, <2>3, <2>4 DEF StopWaits, Over
  <2>5. CASE hub # "closing"
    BY <1>0, <1>1, <2>1, <2>5 DEF StopWaits, Registered
  <2>6. QED
    BY <2>4, <2>5
<1>2. CASE hub' \notin {"closing", "offline", "stopped"}
  BY <1>2 DEF StopWaits
<1>3. CASE TakeStop
  <2>1. hub' = "closing" /\ cand' = all /\ all' = all /\ at' = 1
    BY <1>3 DEF TakeStop, GotoHub, Iterate, ArrayOf, tableVars
  <2>2. \A i \in 1..Len(cand') : ~(i < at')
    BY <2>1
  <2>3. QED
    BY <2>1, <2>2 DEF StopWaits
<1>4. CASE Closed
  <2>1. /\ hub = "closing" /\ UNCHANGED <<hub, all, cand, reader, writer>> /\ at' = at + 1
        /\ at \in 1..Len(cand) /\ cand[at] \in Conns /\ reader[cand[at]] = "finished"
    BY <1>0, <1>4
       DEF Closed, Keep, tableVars, hubVars, connVars, PumpFinished, Visiting, Visited
  <2>2. Over(cand[at])
    BY <2>1 DEF Ends, Over
  <2>3. \A i \in 1..Len(cand) : i < at + 1 => Over(cand[i])
    <3>1. \A i \in 1..Len(cand) : i < at + 1 => i < at \/ i = at
      BY <1>0
    <3>2. QED
      BY <2>1, <2>2, <3>1 DEF StopWaits
  <2>4. QED
    BY <2>1, <2>3 DEF StopWaits, Over
<1>5. CASE AllClosed
  <2>1. /\ hub = "closing" /\ hub' = "offline" /\ at > Len(cand)
        /\ UNCHANGED <<tableVars, reader, writer>>
    BY <1>5 DEF AllClosed, EndLoop, connVars
  <2>2. cand = all /\ \A i \in 1..Len(cand) : Over(cand[i])
    BY <1>0, <2>1 DEF StopWaits
  <2>3. \A c \in Registered : Over(c)
    BY <2>2 DEF ListInv, Listed, IsAt
  <2>4. Registered' = Registered
    BY <2>1 DEF tableVars, Registered
  <2>5. QED
    BY <2>1, <2>3, <2>4 DEF StopWaits, Over
<1>6. ASSUME NEW c \in Conns,
             \/ Connect(c) \/ ReaderStep(c) \/ Register(c) \/ Unregister(c)
             \/ Challenge(c) \/ Request(c) \/ Pong(c) \/ ReaderPublish(c)
             \/ Revoke(c) \/ ReadFails(c) \/ Write(c) \/ EndWrite(c) \/ Expire(c)
      PROVE  StopWaits'
  BY <1>1, <1>6, ApartSteps DEF Apart, hubVars
<1>7. ASSUME NEW x \in Callers, StartCall(x) \/ Publish(x) \/ Invalidate(x)
      PROVE  StopWaits'
  BY <1>1, <1>7 DEF StartCall, Publish, Invalidate, hubVars
<1>8. CASE CloseConn \/ SetOffline \/ Stopped \/ Stop \/ UNCHANGED vars
  BY <1>1, <1>8 DEF CloseConn, SetOffline, Stopped, Stop, vars, hubVars, GotoHub
<1>9. CASE Visit \/ EndBroadcast \/ Recover \/ TakeRegister \/ TakeUnregister \/ TakeBroadcast
  <2>1. hub' \in {"select", "each", "revoking", "panicked"}
    BY <1>9
       DEF Visit, Pass, Deliver, CloseSlow, HubPanics, HubRevokes, EndBroadcast,
           Recover, TakeRegister, TakeUnregister, TakeBroadcast, GotoHub, hubVars
  <2>2. QED
    BY <1>2, <2>1
<1>10. QED
  BY <1>3, <1>4, <1>5, <1>6, <1>7, <1>8, <1>9 DEF Next, HubStep

LEMMA NewIsAnonNext ==
  ASSUME HubTypeOK, ListInv, NewIsAnon, [Next]_vars
  PROVE  NewIsAnon'
<1> USE DEF HubTypeOK
<1>1. ASSUME \A d \in Conns : SameAnon(d),
             \A d \in Conns : reader'[d] = "new" => reader[d] = "new"
      PROVE  NewIsAnon'
  BY <1>1 DEF NewIsAnon, SameAnon
<1>2. ASSUME NEW c \in Conns,
             \/ Connect(c) \/ ReaderStep(c) \/ Register(c) \/ Unregister(c)
             \/ Challenge(c) \/ Request(c) \/ Pong(c) \/ ReaderPublish(c)
             \/ Revoke(c) \/ ReadFails(c) \/ Write(c) \/ EndWrite(c) \/ Expire(c)
      PROVE  NewIsAnon'
  <2>1. \A d \in Conns \ {c} : reader'[d] = reader[d]
    BY <1>2, ApartSteps DEF Apart
  <2>2. CASE Connect(c) \/ Challenge(c)
    <3>1. reader'[c] # "new" /\ \A d \in Conns \ {c} : auth'[d] = auth[d]
      BY <2>2 DEF Connect, Challenge, Goto, StartPump
    <3>2. QED
      BY <2>1, <3>1 DEF NewIsAnon
  <2>3. CASE \/ ReaderStep(c) \/ Request(c) \/ Pong(c) \/ ReaderPublish(c)
             \/ Revoke(c) \/ ReadFails(c)
    BY <1>1, <2>1, <2>3, ReaderMoves
  <2>4. CASE Register(c) \/ Unregister(c) \/ Write(c) \/ EndWrite(c) \/ Expire(c)
    <3>1. \A d \in Conns : SameAnon(d)
      BY <2>4, WebHubAssumption DEF Register, Unregister, Write, EndWrite, Expire, SameAnon
    <3>2. reader'[c] = reader[c] \/ reader'[c] # "new"
      BY <2>4 DEF Register, Unregister, Write, EndWrite, Expire, Goto
    <3>3. QED
      BY <1>1, <2>1, <3>1, <3>2
  <2>5. QED
    BY <1>2, <2>2, <2>3, <2>4
<1>3. CASE Visit
  <2>1. Visited \in Conns
    BY <1>3 DEF Visit, Visiting, Visited, ListInv, IndexTypeOK
  <2>2. QED
    BY <1>1, <1>3, <2>1, AnonKept DEF Visit, SameAnon
<1>4. CASE HubStep /\ ~Visit
  BY <1>4
     DEF HubStep, EndBroadcast, Recover, CloseConn, Closed, AllClosed, SetOffline, Stopped,
         connVars, NewIsAnon
<1>5. CASE \/ TakeRegister \/ TakeUnregister \/ TakeBroadcast \/ TakeStop \/ Stop
           \/ UNCHANGED vars
  BY <1>5
     DEF TakeRegister, TakeUnregister, TakeBroadcast, TakeStop, Stop, vars, connVars,
         NewIsAnon
<1>6. ASSUME NEW x \in Callers, StartCall(x) \/ Publish(x) \/ Invalidate(x)
      PROVE  NewIsAnon'
  <2>1. \A d \in Conns : SameAnon(d)
    BY <1>6, AnonKept DEF StartCall, Publish, Invalidate, SameAnon, connVars
  <2>2. QED
    BY <1>1, <1>6, <2>1 DEF StartCall, Publish, Invalidate, connVars
<1>7. QED
  BY <1>2, <1>3, <1>4, <1>5, <1>6 DEF Next, HubStep

LEMMA StopInvNext == StopInv /\ [Next]_vars => StopInv'
<1> SUFFICES ASSUME StopInv, [Next]_vars PROVE StopInv'
  OBVIOUS
<1>1. HubTypeOK'
  BY TypesNext DEF StopInv, ListInv, TypeOK
<1>2. Ends'
  BY EndsNext DEF StopInv
<1>3. NewIsAnon'
  BY NewIsAnonNext DEF StopInv
<1>4. QED
  BY <1>1, <1>2, <1>3, ListInvNext, StopWaitsNext DEF StopInv

\* The hub forgets a connection only when it closes it or when it has finished,
\* unless it starts again after a panic.
LEMMA Forgets ==
  ASSUME StopInv, hub # "panicked", [Next]_vars
  PROVE  \A c \in Registered \ Registered' : closed'[c] \/ reader[c] = "finished"
<1> USE DEF StopInv, ListInv
<1>1. CASE UNCHANGED tableVars
  BY <1>1 DEF tableVars, Registered
<1>2. CASE TakeRegister
  <2>1. PICK c \in registerQ : Add(c)
    BY <1>2 DEF TakeRegister
  <2>2. c \in Conns /\ UNCHANGED loopVars
    BY <1>2 DEF HubTypeOK, TakeRegister
  <2>3. QED
    BY <2>1, <2>2, AddKeepsListed
<1>3. CASE TakeUnregister /\ ~UNCHANGED tableVars
  <2>1. PICK c \in unregisterQ : ~Broken(c) /\ Remove(c)
    BY <1>3 DEF TakeUnregister
  <2>2. c \in Registered /\ reader[c] = "finished"
    BY <1>3, <2>1 DEF HubTypeOK, Remove, Registered, IndexTypeOK, Ends
  <2>3. Registered' = Registered \ {c}
    BY <2>1, <2>2, UnbrokenRemoves, RemoveKeepsListed
  <2>4. QED
    BY <2>2, <2>3
<1>4. CASE Visit /\ CloseSlow(Visited) /\ ~UNCHANGED tableVars
  <2> DEFINE c == Visited
  <2>1. /\ Visiting /\ Drop /\ ~Broken(c) /\ c \in Conns
        /\ closed' = [closed EXCEPT ![c] = TRUE]
    BY <1>4 DEF Visit, CloseSlow, Visiting, Visited, IndexTypeOK
  <2>2. c \in Registered /\ closed'[c]
    BY <1>4, <2>1 DEF Drop, Remove, Registered, IndexTypeOK, HubTypeOK
  <2>3. Registered' = Registered \ {c}
    BY <2>1, <2>2, UnbrokenRemoves, DropKeepsListed
  <2>4. QED
    BY <2>2, <2>3
<1>5. CASE Visit /\ ~CloseSlow(Visited)
  BY <1>1, <1>5 DEF Visit, Pass, Deliver, HubPanics, HubRevokes, indexVars
<1>6. ASSUME NEW c \in Conns,
             \/ Connect(c) \/ ReaderStep(c) \/ Register(c) \/ Unregister(c)
             \/ Challenge(c) \/ Request(c) \/ Pong(c) \/ ReaderPublish(c)
             \/ Revoke(c) \/ ReadFails(c) \/ Write(c) \/ EndWrite(c) \/ Expire(c)
      PROVE  UNCHANGED tableVars
  BY <1>6, ApartSteps DEF Apart, indexVars
<1>7. ASSUME NEW x \in Callers, StartCall(x) \/ Publish(x) \/ Invalidate(x)
      PROVE  UNCHANGED tableVars
  BY <1>7 DEF StartCall, Publish, Invalidate, indexVars
<1>8. CASE \/ HubStep /\ ~Visit
           \/ TakeBroadcast \/ TakeStop \/ Stop \/ UNCHANGED vars
  BY <1>1, <1>8
     DEF HubStep, EndBroadcast, Recover, CloseConn, Closed, AllClosed, SetOffline,
         Stopped, TakeBroadcast, TakeStop, Stop, vars, indexVars
<1>9. QED
  BY <1>1, <1>2, <1>3, <1>4, <1>5, <1>6, <1>7, <1>8 DEF Next, HubStep

\* A connection comes to be served by registering, or is anonymous.
LEMMA ConnKeepsKnown ==
  ASSUME HubTypeOK, NewIsAnon, Known, NEW c \in Conns,
         \/ Connect(c) \/ ReaderStep(c) \/ Register(c) \/ Unregister(c)
         \/ Challenge(c) \/ Request(c) \/ Pong(c) \/ ReaderPublish(c)
         \/ Revoke(c) \/ ReadFails(c) \/ Write(c) \/ EndWrite(c) \/ Expire(c)
  PROVE  Known'
<1> USE DEF HubTypeOK
<1>1. /\ Registered' = Registered /\ closed' = closed /\ hub' = hub
      /\ \A d \in Conns \ {c} : reader'[d] = reader[d]
  BY ApartSteps, IndexKept DEF Apart, hubVars
<1>2. CASE Register(c)
  <2>1. /\ registerQ = {} \/ hub = "stopped"
        /\ registerQ' = {c} \/ hub = "stopped"
        /\ auth' = auth
    BY <1>2 DEF Register, UntilStopped, DidStop
  <2>2. QED
    BY <1>1, <2>1 DEF Known
<1>3. CASE Connect(c) \/ Challenge(c)
  <2>1. registerQ' = registerQ /\ \A d \in Conns \ {c} : auth'[d] = auth[d]
    BY <1>3 DEF Connect, Challenge, chanVars
  <2>2. reader'[c] \in {"register", "leaving", "rejecting"} \/ auth'[c] = "anon"
    BY <1>3 DEF Connect, Challenge, Goto, StartPump, NewIsAnon
  <2>3. QED
    BY <1>1, <2>1, <2>2 DEF Known, Serving
<1>4. CASE \/ ReaderStep(c) \/ Request(c) \/ Pong(c) \/ ReaderPublish(c)
           \/ Revoke(c) \/ ReadFails(c)
  BY <1>1, <1>4, ReaderMoves DEF Known, SameAnon
<1>5. CASE Unregister(c) \/ Write(c) \/ EndWrite(c) \/ Expire(c)
  <2>1. registerQ' = registerQ /\ \A d \in Conns : SameAnon(d)
    BY <1>5, WebHubAssumption DEF Unregister, Write, EndWrite, Expire, SameAnon, chanVars
  <2>2. reader'[c] = reader[c] \/ reader'[c] = "finished"
    BY <1>5 DEF Unregister, Write, EndWrite, Expire, Goto
  <2>3. QED
    BY <1>1, <2>1, <2>2 DEF Known, SameAnon, Serving
<1>6. QED
  BY <1>2, <1>3, <1>4, <1>5

LEMMA KnownNext ==
  ASSUME StopInv, hub # "panicked", Known, [Next]_vars
  PROVE  Known'
<1> USE DEF StopInv, HubTypeOK
<1>1. ASSUME NEW c \in Conns,
             \/ Connect(c) \/ ReaderStep(c) \/ Register(c) \/ Unregister(c)
             \/ Challenge(c) \/ Request(c) \/ Pong(c) \/ ReaderPublish(c)
             \/ Revoke(c) \/ ReadFails(c) \/ Write(c) \/ EndWrite(c) \/ Expire(c)
      PROVE  Known'
  BY <1>1, ConnKeepsKnown
<1>2. ASSUME reader' = reader, \A d \in Conns : SameAnon(d),
             hub = "stopped" => hub' = "stopped",
             \A d \in Conns : closed[d] => closed'[d],
             \A d \in registerQ : d \in registerQ' \/ d \in Registered'
      PROVE  Known'
  <2>1. \A c \in Registered \ Registered' : closed'[c] \/ reader[c] = "finished"
    BY Forgets
  <2>2. QED
    BY <1>2, <2>1 DEF Known, SameAnon, Serving
<1>3. CASE TakeRegister
  <2>1. PICK c \in registerQ : Add(c)
    BY <1>3 DEF TakeRegister
  <2>2. c \in Conns /\ registerQ = {c} /\ UNCHANGED loopVars
    BY <1>3 DEF TakeRegister
  <2>3. c \in Registered'
    BY <2>1, <2>2, AddKeepsListed DEF ListInv
  <2>4. QED
    BY <1>2, <1>3, <2>2, <2>3 DEF TakeRegister, hubVars, connVars, sendVars, SameAnon
<1>4. CASE TakeUnregister \/ TakeBroadcast \/ TakeStop \/ Stop \/ UNCHANGED vars
  BY <1>2, <1>4
     DEF TakeUnregister, TakeBroadcast, TakeStop, Stop, vars, GotoHub, hubVars, chanVars,
         connVars, sendVars, SameAnon
<1>5. CASE Visit
  <2>1. Visited \in Conns
    BY <1>5 DEF Visit, Visiting, Visited, ListInv, IndexTypeOK
  <2>2. \A d \in Conns : SameAnon(d)
    BY <1>5, <2>1, AnonKept DEF Visit, SameAnon
  <2>3. \A d \in Conns : closed[d] => closed'[d]
    BY <1>5 DEF Visit, Pass, Deliver, Send, Push, CloseSlow, HubPanics, HubRevokes, sendVars
  <2>4. QED
    BY <1>2, <1>5, <2>2, <2>3 DEF Visit, chanVars
<1>6. CASE HubStep /\ ~Visit
  BY <1>2, <1>6
     DEF HubStep, EndBroadcast, Recover, CloseConn, Closed, AllClosed, SetOffline, Stopped,
         GotoHub, hubVars, chanVars, connVars, sendVars, SameAnon
<1>7. ASSUME NEW x \in Callers, StartCall(x) \/ Publish(x) \/ Invalidate(x)
      PROVE  Known'
  <2>1. \A d \in Conns : SameAnon(d)
    BY <1>7, AnonKept DEF StartCall, Publish, Invalidate, SameAnon, connVars
  <2>2. QED
    BY <1>2, <1>7, <2>1 DEF StartCall, Publish, Invalidate, hubVars, chanVars, connVars, sendVars
<1>8. QED
  BY <1>1, <1>3, <1>4, <1>5, <1>6, <1>7 DEF Next

----------------------------------------------------------------------------
(* The theorems.                                                           *)

THEOREM StopInvariance == Spec => []StopInv
<1>1. StopInv /\ [Next]_vars => StopInv'
  BY StopInvNext
<1>2. QED
  BY <1>1, StopInvInit, PTL DEF Spec

\* The variables keep their types: the channels of a hub, its arrays and the
\* positions of all its goroutines, also when the hub has panicked and is
\* started again and when a connection is registered twice (Hub.Start,
\* WebConn.Pump).
THEOREM HubTypes == Spec => []TypeOK
<1>1. StopInv => TypeOK
  BY DEF StopInv, ListInv, TypeOK
<1>2. QED
  BY <1>1, StopInvariance, PTL

\* A connection the index knows is in both arrays at the places it has for it,
\* even when it was registered twice, and what belongs to one user stays with
\* that user (hubConnectionIndex.Add, Remove).
THEOREM KnownAreListed == Spec => [](Listed /\ Owned)
<1>1. StopInv => Listed /\ Owned
  BY DEF StopInv, ListInv
<1>2. QED
  BY <1>1, StopInvariance, PTL

\* A hub that has stopped leaves no goroutine of a connection that is in its
\* index, also when it registered one of them twice (Hub.Start, case stop;
\* WebConn.Close).
THEOREM StopLeavesNone == Spec => []NoneLeft
<1>1. StopInv => NoneLeft
  BY DEF StopInv, StopWaits, Over, NoneLeft
<1>2. QED
  BY <1>1, StopInvariance, PTL

\* Whatever clients do, a connection that is served and was not dropped for being
\* slow is lost to the hub only when the hub panics and starts again, with an
\* empty index (Hub.Start, doRecover).
THEOREM OnlyPanicsLose == Spec => [][hub # "panicked" /\ Known => Known']_vars
<1>1. StopInv /\ [Next]_vars => [hub # "panicked" /\ Known => Known']_vars
  BY KnownNext
<1>2. QED
  BY <1>1, StopInvariance, PTL DEF Spec

\* As long as the hub has not panicked, every connection that is served and was
\* not dropped is in the index or about to be, also when clients authenticate
\* again (Hub.Register, hubConnectionIndex.Remove).
THEOREM ReachableUnlessPanics == Spec /\ []HubNeverPanics => []Reachable
<1>1. Init => Known
  BY InvInit DEF HubInv
<1>2. StopInv /\ HubNeverPanics /\ Known /\ [Next]_vars => Known'
  BY KnownNext DEF HubNeverPanics
<1>3. Known => Reachable
  BY DEF Known, Reachable
<1>4. QED
  BY <1>1, <1>2, <1>3, StopInvariance, PTL DEF Spec

----------------------------------------------------------------------------
(* The theorems without clients that authenticate again: a hub they do it  *)
(* to registers a connection twice, and then it may panic.                 *)

\* The invariant holds of every state of a hub.
THEOREM HubInvariance ==
  ASSUME ~Reauth
  PROVE  Spec => []HubInv
<1>1. HubInv /\ [Next]_vars => HubInv'
  BY HubInvNext
<1>2. QED
  BY <1>1, InvInit, PTL DEF Spec

\* The hub never sends to a channel that it closed, nor closes one twice, nor
\* follows a place that is not in the arrays (Hub.Start, case broadcast;
\* hubConnectionIndex.Remove).
THEOREM NeverPanics ==
  ASSUME ~Reauth
  PROVE  Spec => []HubNeverPanics
<1>1. HubInv => HubNeverPanics
  BY DEF HubInv
<1>2. QED
  BY <1>1, HubInvariance, PTL

\* Every connection that is served, and was not dropped for being slow, is in
\* the index or about to be (Hub.Register, hubConnectionIndex.Remove).
THEOREM AlwaysReachable ==
  ASSUME ~Reauth
  PROVE  Spec => []Reachable
<1>1. HubInv => Reachable
  BY DEF HubInv, Known, Reachable
<1>2. QED
  BY <1>1, HubInvariance, PTL

\* The hub with all its goroutines implements the specification of its index:
\* it registers a connection once, and nothing changes the arrays under the
\* loop of a broadcast but its own removals (Hub.Start,
\* WebSocketRouter.ServeWebSocket).
THEOREM HubUsesIndex ==
  ASSUME ~Reauth
  PROVE  Spec => UsesIndex
<1>1. Init => IndexInit
  BY DEF Init
<1>2. HubInv /\ [Next]_vars => [IndexNext]_indexVars
  BY StepUsesIndex
<1>3. QED
  BY <1>1, <1>2, HubInvariance, PTL DEF Spec, UsesIndex, IndexSpec

----------------------------------------------------------------------------
(* Whom the stop waits for.  That it ends needs fairness, but one reason   *)
(* for which it might not is a matter of states.                           *)

\* The goroutine of c is at a call of the hub and none of the ways out of the
\* call is open.
AwaitsHub(c) ==
  \/ reader[c] = "register" /\ registerQ # {} /\ ~UntilStopped
  \/ reader[c] = "unregister" /\ unregisterQ # {} /\ ~UnregisterGivesUp
  \/ /\ reader[c] = "publish" /\ ~UntilStopped
     /\ ~(Len(queue) < QueueCap \/ (~Overflow /\ Deaf))
  \/ reader[c] \in {"revoking", "rejecting"} /\ hub # "select" /\ ~UntilStopped

\* The hub does not wait for itself, nor the stop for a connection that waits for
\* the hub.
NoCircle ==
  /\ hub # "revoking"
  /\ hub = "closing" /\ Visiting => ~AwaitsHub(Visited)

\* Nothing revokes a session where none is found idle, and the hub closes only
\* when it was told to.
NoneRevoked ==
  /\ hub = "closing" => stop
  /\ hub # "revoking"
  /\ \A c \in Conns : auth[c] # "idle" /\ reader[c] \notin {"revoking", "rejecting"}

LEMMA NoneTurnsIdle ==
  ASSUME HubTypeOK, "idle" \notin Verdicts, \A c \in Conns : auth[c] # "idle"
  PROVE  /\ \A c, d \in Conns : AfterCheck(c)[d] # "idle"
         /\ \A u \in Users, v \in Verdicts \union {"gone"}, d \in Conns :
              Invalidated(u, v)[d] # "idle"
<1>1. auth \in [Conns -> Sessions]
  BY DEF HubTypeOK
<1>2. \A c, d \in Conns : AfterCheck(c)[d] # "idle"
  BY <1>1 DEF AfterCheck
<1>3. \A u \in Users, v \in Verdicts \union {"gone"}, d \in Conns :
        Invalidated(u, v)[d] # "idle"
  BY <1>1 DEF Invalidated
<1>4. QED
  BY <1>2, <1>3

LEMMA ConnRevokesNone ==
  ASSUME HubTypeOK, "idle" \notin Verdicts, NoneRevoked, NEW c \in Conns,
         \/ Connect(c) \/ ReaderStep(c) \/ Register(c) \/ Unregister(c)
         \/ Challenge(c) \/ Request(c) \/ Pong(c) \/ ReaderPublish(c)
         \/ Revoke(c) \/ ReadFails(c) \/ Write(c) \/ EndWrite(c) \/ Expire(c)
  PROVE  NoneRevoked'
<1> USE DEF HubTypeOK
<1>1. UNCHANGED <<hub, stop>> /\ \A d \in Conns \ {c} : reader'[d] = reader[d]
  BY ApartSteps DEF Apart, hubVars
<1>2. /\ auth[c] # "idle" /\ reader[c] \notin {"revoking", "rejecting"}
      /\ \A d \in Conns : auth[d] # "idle"
  BY DEF NoneRevoked
<1>3. \A d \in Conns : auth'[d] # "idle"
  <2>1. CASE Connect(c) \/ Challenge(c) \/ Expire(c)
    BY <1>2, <2>1 DEF Connect, Challenge, Expire
  <2>2. CASE auth' = AfterCheck(c) \/ UNCHANGED auth
    BY <1>2, <2>2, NoneTurnsIdle
  <2>3. QED
    BY <1>2, <2>1, <2>2
       DEF ReaderStep, Hello, Greet, Respond, Leave, Register, Unregister, Request, Pong,
           ReaderPublish, Revoke, ReadFails, Write, EndWrite
<1>4. reader'[c] \notin {"revoking", "rejecting"}
  <2> USE DEF Goto, StartPump, AfterRegister, Idle
  <2>1. CASE Connect(c) \/ Challenge(c) \/ Register(c) \/ Unregister(c)
    BY <1>2, <2>1 DEF Connect, Challenge, Register, Unregister
  <2>2. CASE ReaderStep(c)
    BY <1>2, <2>2 DEF ReaderStep, Hello, Greet, Respond, Leave, Panic
  <2>3. CASE Request(c) \/ Pong(c) \/ ReaderPublish(c) \/ Revoke(c) \/ ReadFails(c)
    BY <1>2, <2>3 DEF Request, Pong, ReaderPublish, Revoke, ReadFails
  <2>4. CASE Write(c) \/ EndWrite(c) \/ Expire(c)
    BY <1>2, <2>4 DEF Write, EndWrite, Expire
  <2>5. QED
    BY <2>1, <2>2, <2>3, <2>4
<1>5. QED
  BY <1>1, <1>3, <1>4 DEF NoneRevoked

LEMMA NoneRevokedNext ==
  ASSUME TypeOK, "idle" \notin Verdicts, NoneRevoked, [Next]_vars
  PROVE  NoneRevoked'
<1> USE DEF TypeOK, HubTypeOK
<1>1. ASSUME NEW c \in Conns,
             \/ Connect(c) \/ ReaderStep(c) \/ Register(c) \/ Unregister(c)
             \/ Challenge(c) \/ Request(c) \/ Pong(c) \/ ReaderPublish(c)
             \/ Revoke(c) \/ ReadFails(c) \/ Write(c) \/ EndWrite(c) \/ Expire(c)
      PROVE  NoneRevoked'
  BY <1>1, ConnRevokesNone
<1>2. \A c \in Conns : auth[c] # "idle"
  BY DEF NoneRevoked
<1>3. CASE Visit
  <2>1. Visited \in Conns
    BY <1>3 DEF Visit, Visiting, Visited, IndexTypeOK
  <2>2. \A d \in Conns : auth'[d] # "idle"
    BY <1>2, <1>3, <2>1, NoneTurnsIdle DEF Visit
  <2>3. hub' \in {"each", "panicked"}
    BY <1>2, <1>3, <2>1
       DEF Visit, Pass, Deliver, CloseSlow, HubPanics, HubRevokes, Idle
  <2>4. QED
    BY <1>3, <2>2, <2>3 DEF Visit, NoneRevoked
<1>4. CASE HubStep /\ ~Visit
  BY <1>4
     DEF HubStep, EndBroadcast, Recover, CloseConn, Closed, AllClosed, SetOffline, Stopped,
         GotoHub, hubVars, connVars, NoneRevoked
<1>5. CASE \/ TakeRegister \/ TakeUnregister \/ TakeBroadcast \/ TakeStop \/ Stop
           \/ UNCHANGED vars
  BY <1>5
     DEF TakeRegister, TakeUnregister, TakeBroadcast, TakeStop, Stop, vars, GotoHub,
         hubVars, connVars, NoneRevoked
<1>6. ASSUME NEW x \in Callers, StartCall(x) \/ Publish(x) \/ Invalidate(x)
      PROVE  NoneRevoked'
  <2>1. \A d \in Conns : auth'[d] # "idle"
    BY <1>2, <1>6, NoneTurnsIdle DEF StartCall, Publish, Invalidate, connVars
  <2>2. QED
    BY <1>6, <2>1 DEF StartCall, Publish, Invalidate, hubVars, connVars, NoneRevoked
<1>7. QED
  BY <1>1, <1>3, <1>4, <1>5, <1>6 DEF Next, HubStep

\* With room in the channels and sessions that are not found idle, the hub never
\* waits for itself, and the connection that a stop waits for always has a way
\* out of the call it makes: registration is behind it, Unregister gives up
\* and its event finds room (Hub.Unregister, Hub.Broadcast, WebConn.Close).
THEOREM StopHasNoCircle ==
  ASSUME ~Reauth, ~Overflow, "idle" \notin Verdicts
  PROVE  Spec => []NoCircle
<1>1. Init => NoneRevoked
  BY DEF Init, NoneRevoked
<1>2. HubInv /\ NoneRevoked /\ [Next]_vars => NoneRevoked'
  BY NoneRevokedNext DEF HubInv
<1>3. HubInv /\ NoneRevoked => NoCircle
  <2> SUFFICES ASSUME HubInv, NoneRevoked, hub = "closing", Visiting
               PROVE  ~AwaitsHub(Visited)
    BY DEF NoneRevoked, NoCircle
  <2>1. Visited \in Conns /\ Visited \in Registered
    BY VisitedRegistered DEF HubInv
  <2>2. reader[Visited] # "register"
    BY <2>1 DEF HubInv, RegisteredOnce, Unheard
  <2>3. stop /\ reader[Visited] \notin {"revoking", "rejecting"}
    BY <2>1 DEF NoneRevoked
  <2>4. QED
    BY <2>2, <2>3 DEF AwaitsHub, UnregisterGivesUp, Deaf
<1>4. QED
  BY <1>1, <1>2, <1>3, HubInvariance, PTL DEF Spec
=============================================================================

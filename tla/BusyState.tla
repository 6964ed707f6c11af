----------------------------- MODULE BusyState -----------------------------
(***************************************************************************)
(* Busy: a server that is busy for a time.  Set and Clear, called by an    *)
(* administrator or by a message of the cluster, hold the mutex.  The      *)
(* timer that ends the busy time runs clearWithoutNotify without it, so    *)
(* every access of a field is a step of its own.                           *)
(***************************************************************************)
CONSTANTS Timers,      \* the timers ever made
          MutexHolder, \* whoever holds the mutex
          NoTimer

ASSUME BusyAssumption == NoTimer \notin Timers /\ MutexHolder \notin Timers

VARIABLES
  busy, expires,   \* expires: whether the time is set
  timer,           \* the field, a timer or NoTimer
  made,            \* the timer that AfterFunc has just returned
  timers,          \* new, armed, stopped, fired
  inside,          \* the next access of the holder and of each callback
  goal,            \* what the holder of the mutex is doing: set or clear
  nilTimer,        \* Stop was called on no timer: the server has crashed
  raced            \* history: a callback ran at the same time as another

busyVars == <<busy, expires, timer, made, timers, inside, goal, nilTimer, raced>>

Actors == Timers \union {MutexHolder}

BusyInit ==
  /\ busy = FALSE /\ expires = FALSE /\ timer = NoTimer /\ made = NoTimer
  /\ timers = [t \in Timers |-> "new"]
  /\ inside = [p \in Actors |-> "out"]
  /\ goal = "clear"
  /\ nilTimer = FALSE /\ raced = FALSE

Access(p, from, to) ==
  /\ ~nilTimer
  /\ inside[p] = from /\ inside' = [inside EXCEPT ![p] = to]

Outside == \A p \in Actors : inside[p] = "out"

Meets == raced' = (raced \/ ~Outside)

\* Set, Clear and ClusterEventChanged take the mutex.
Lock(g) ==
  /\ g = "set" => \E t \in Timers : timers[t] = "new"
  /\ Access(MutexHolder, "out", "check")
  /\ goal' = g /\ Meets
  /\ UNCHANGED <<busy, expires, timer, made, timers, nilTimer>>

\* The time is over: the callback starts.
Fire(t) ==
  /\ timers[t] = "armed"
  /\ timers' = [timers EXCEPT ![t] = "fired"]
  /\ Access(t, "out", "check") /\ Meets
  /\ UNCHANGED <<busy, expires, timer, made, goal, nilTimer>>

----------------------------------------------------------------------------
(* clearWithoutNotify. *)

CheckTimer(p) ==
  /\ Access(p, "check", IF timer # NoTimer THEN "stop" ELSE "forget")
  /\ UNCHANGED <<busy, expires, timer, made, timers, goal, nilTimer, raced>>

\* The field is read again.
StopTimer(p) ==
  /\ Access(p, "stop", "forget")
  /\ nilTimer' = (timer = NoTimer)
  /\ timers' = [t \in Timers |-> IF t = timer /\ timers[t] = "armed" THEN "stopped" ELSE timers[t]]
  /\ UNCHANGED <<busy, expires, timer, made, goal, raced>>

\* `KeepStopped' leaves the stopped timer in the field.
KeepStopped(p) ==
  /\ Access(p, "forget", "zero")
  /\ UNCHANGED <<busy, expires, timer, made, timers, goal, nilTimer, raced>>

DropTimer(p) ==
  /\ Access(p, "forget", "zero")
  /\ timer' = NoTimer
  /\ UNCHANGED <<busy, expires, made, timers, goal, nilTimer, raced>>

ZeroExpires(p) ==
  /\ Access(p, "zero", "unbusy")
  /\ expires' = FALSE
  /\ UNCHANGED <<busy, timer, made, timers, goal, nilTimer, raced>>

Unbusy(p) ==
  /\ Access(p, "unbusy", IF p = MutexHolder /\ goal = "set" THEN "mark" ELSE "out")
  /\ busy' = FALSE
  /\ UNCHANGED <<expires, timer, made, timers, goal, nilTimer, raced>>

----------------------------------------------------------------------------
(* setWithoutNotify, after it. *)

MarkBusy ==
  /\ Access(MutexHolder, "mark", "date")
  /\ busy' = TRUE
  /\ UNCHANGED <<expires, timer, made, timers, goal, nilTimer, raced>>

SetExpires ==
  /\ Access(MutexHolder, "date", "arm")
  /\ expires' = TRUE
  /\ UNCHANGED <<busy, timer, made, timers, goal, nilTimer, raced>>

\* `NewTimer' calls nothing.
NewTimer(t) ==
  /\ timers[t] = "new"
  /\ Access(MutexHolder, "arm", "keep")
  /\ timers' = [timers EXCEPT ![t] = "stopped"]
  /\ made' = t
  /\ UNCHANGED <<busy, expires, timer, goal, nilTimer, raced>>

AfterFunc(t) ==
  /\ timers[t] = "new"
  /\ Access(MutexHolder, "arm", "keep")
  /\ timers' = [timers EXCEPT ![t] = "armed"]
  /\ made' = t
  /\ UNCHANGED <<busy, expires, timer, goal, nilTimer, raced>>

KeepTimer ==
  /\ Access(MutexHolder, "keep", "out")
  /\ timer' = made
  /\ UNCHANGED <<busy, expires, made, timers, goal, nilTimer, raced>>

ClearStep(p) ==
  CheckTimer(p) \/ StopTimer(p) \/ DropTimer(p) \/ ZeroExpires(p) \/ Unbusy(p)

SetStep == MarkBusy \/ SetExpires \/ KeepTimer \/ \E t \in Timers : AfterFunc(t)

BusyNext ==
  \/ \E g \in {"set", "clear"} : Lock(g)
  \/ \E t \in Timers : Fire(t)
  \/ \E p \in Actors : ClearStep(p)
  \/ SetStep

BusySpec == BusyInit /\ [][BusyNext]_busyVars

\* Time passes, and whoever is inside goes on.
BusyFairness ==
  /\ WF_busyVars(SetStep)
  /\ \A p \in Actors : WF_busyVars(ClearStep(p))
  /\ \A t \in Timers : WF_busyVars(Fire(t))

FairBusySpec == BusySpec /\ BusyFairness

----------------------------------------------------------------------------
(* Properties. *)

\* The types of the state.
BusyTypeOK ==
  /\ {busy, expires, nilTimer, raced} \subseteq BOOLEAN
  /\ {timer, made} \subseteq Timers \union {NoTimer}
  /\ timers \in [Timers -> {"new", "armed", "stopped", "fired"}]
  /\ inside \in [Actors -> {"out", "check", "stop", "forget", "zero", "unbusy",
                            "mark", "date", "arm", "keep"}]
  /\ goal \in {"set", "clear"}

\* Only a callback that runs at the same time as another access does harm:
\* without one, nothing stops a nil timer, and between the calls the fields
\* agree and a busy server has a timer that will end it.
OnlyRacesHurt ==
  ~raced =>
    /\ ~nilTimer
    /\ Outside => /\ busy = expires /\ busy = (timer # NoTimer)
                  /\ \A t \in Timers : timers[t] = "armed" <=> t = timer

\* However they race, no server stays busy for ever: the timer of the last
\* Set clears it, or somebody who stopped that timer does.
BusyEnds == busy ~> ~busy \/ nilTimer
=============================================================================

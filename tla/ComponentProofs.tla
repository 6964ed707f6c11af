-------------------------- MODULE ComponentProofs --------------------------
(***************************************************************************)
(* Proofs about small components, each for constants of any size: the      *)
(* goroutines of the server and its shutdown (ServerGoroutines), the busy  *)
(* state (BusyState), and the cards of the page for unsupported browsers   *)
(* (HoverCards).                                                           *)
(***************************************************************************)
EXTENDS ServerGoroutines, BusyState, HoverCards, FiniteSetTheorems, TLAPS

(* The goroutines: the count is right, no wake-up is lost, and every       *)
(* goroutine is awaited.                                                   *)
GoInv == GoTypeOK /\ WakeUpComes /\ AllAwaited

LEMMA RunningFinite == IsFiniteSet(Running)
BY GoroutinesAssumption, FS_Subset DEF Running

\* The count is zero when nothing runs.
LEMMA NoneRun == GoTypeOK => (goroutineCount = 0 <=> Running = {})
BY RunningFinite, FS_EmptySet DEF GoTypeOK

LEMMA GoInvInit == GoInit => GoInv
<1> SUFFICES ASSUME GoInit PROVE GoInv
  OBVIOUS
<1>1. Running = {}
  BY DEF GoInit, Running
<1>2. QED
  BY <1>1, FS_EmptySet DEF GoInit, GoInv, GoTypeOK, WakeUpComes, AllAwaited

\* A goroutine starts.
LEMMA GoKeeps ==
  ASSUME GoInv, NEW g \in Routines, Go(g)
  PROVE  GoInv'
<1>1. routine' = [routine EXCEPT ![g] = "running"] /\ routine \in [Routines -> {"new", "running", "counted", "ended"}]
  BY DEF Go, SetRoutine, GoInv, GoTypeOK
<1>2. Running' = Running \union {g} /\ g \notin Running
  BY <1>1 DEF Running, Go
<1>3. Cardinality(Running') = Cardinality(Running) + 1
  BY <1>2, RunningFinite, FS_AddElement
<1>4. GoTypeOK'
  BY <1>1, <1>3 DEF Go, GoInv, GoTypeOK
<1>5. WakeUpComes'
  BY <1>1 DEF Go, GoInv, WakeUpComes
<1>6. AllAwaited'
  BY <1>2 DEF Go, GoInv, AllAwaited
<1>7. QED
  BY <1>4, <1>5, <1>6 DEF GoInv

\* A goroutine counts itself off: it is the one that will signal.
LEMMA CountOffKeeps ==
  ASSUME GoInv, NEW g \in Routines, CountOff(g)
  PROVE  GoInv'
<1>1. routine' = [routine EXCEPT ![g] = "counted"] /\ routine \in [Routines -> {"new", "running", "counted", "ended"}]
  BY DEF CountOff, SetRoutine, GoInv, GoTypeOK
<1>2. Running' = Running \ {g} /\ g \in Running
  BY <1>1 DEF Running, CountOff
<1>3. Cardinality(Running') = Cardinality(Running) - 1
  BY <1>2, RunningFinite, FS_RemoveElement
<1>4. GoTypeOK'
  BY <1>1, <1>3 DEF CountOff, GoInv, GoTypeOK
<1>5. WakeUpComes'
  BY <1>1 DEF CountOff, GoInv, WakeUpComes
<1>6. AllAwaited'
  BY <1>2 DEF CountOff, GoInv, AllAwaited
<1>7. QED
  BY <1>4, <1>5, <1>6 DEF GoInv

LEMMA SignalKeeps ==
  ASSUME GoInv, NEW g \in Routines, Signal(g)
  PROVE  GoInv'
<1>1. routine' = [routine EXCEPT ![g] = "ended"] /\ routine \in [Routines -> {"new", "running", "counted", "ended"}]
  BY DEF Signal, SetRoutine, GoInv, GoTypeOK
<1>2. Running' = Running
  BY <1>1 DEF Running, Signal
<1>3. QED
  BY <1>1, <1>2 DEF Signal, GoInv, GoTypeOK, WakeUpComes, AllAwaited

\* The shutdown receives only if a goroutine was running when it looked, and
\* is over only if none was.
LEMMA ShutdownKeeps ==
  ASSUME GoInv, Shutdown \/ WaitForGoroutines
  PROVE  GoInv'
<1>1. routine' = routine /\ goroutineCount' = goroutineCount /\ Running' = Running
      /\ lateRoutines' = lateRoutines
  BY DEF Shutdown, WaitForGoroutines, TestCount, Receive, Running
<1>2. GoTypeOK'
  BY <1>1 DEF GoInv, GoTypeOK, Shutdown, WaitForGoroutines, TestCount, Receive
<1>3. Running # {} => \E g \in Routines : routine[g] \in {"running", "counted"}
  BY DEF Running
<1>4. WakeUpComes'
  BY <1>1, <1>3, NoneRun DEF GoInv, WakeUpComes, Shutdown, WaitForGoroutines, TestCount, Receive
<1>5. AllAwaited'
  BY <1>1, NoneRun DEF GoInv, AllAwaited, Shutdown, WaitForGoroutines, TestCount, Receive
<1>6. QED
  BY <1>2, <1>4, <1>5 DEF GoInv

LEMMA GoInvHolds == GoSpec => []GoInv
<1>1. GoInv /\ [GoNext]_goVars => GoInv'
  <2>1. GoInv /\ UNCHANGED goVars => GoInv'
    BY DEF GoInv, GoTypeOK, WakeUpComes, AllAwaited, Running, goVars
  <2>2. QED
    BY <2>1, GoKeeps, CountOffKeeps, SignalKeeps, ShutdownKeeps DEF GoNext, End
<1>2. QED
  BY <1>1, GoInvInit, PTL DEF GoSpec

\* The count is the number of goroutines that run.
THEOREM CountIsRight == GoSpec => []GoTypeOK
<1>1. GoInv => GoTypeOK
  BY DEF GoInv
<1>2. QED
  BY <1>1, GoInvHolds, PTL

\* The shutdown never waits for a signal that will not come.
THEOREM NoLostWakeUp == GoSpec => []WakeUpComes
<1>1. GoInv => WakeUpComes
  BY DEF GoInv
<1>2. QED
  BY <1>1, GoInvHolds, PTL

\* No goroutine that was started before the wait was over outlives it.
THEOREM GoroutinesAwaited == GoSpec => []AllAwaited
<1>1. GoInv => AllAwaited
  BY DEF GoInv
<1>2. QED
  BY <1>1, GoInvHolds, PTL

----------------------------------------------------------------------------
(* The busy state.                                                         *)

Armed == {t \in Timers : timers[t] = "armed"}

Clearing == {"check", "stop", "forget", "zero", "unbusy"}
Setting == {"mark", "date", "arm", "keep"}

\* Callbacks only clear.
BusyPlaces == \A t \in Timers : inside[t] \in Clearing \union {"out"}

\* What the fields are between the calls.
Agree == busy = expires /\ busy = (timer # NoTimer) /\ Armed = {timer} \ {NoTimer}

\* What they are for the one who is inside.
InPlace(p) ==
  /\ inside[p] \in {"check", "stop"} => Armed \subseteq {timer}
  /\ inside[p] = "stop" => timer # NoTimer
  /\ inside[p] \in {"forget", "zero", "unbusy", "mark", "date", "arm"} => Armed = {}
  /\ inside[p] \in {"zero", "unbusy"} \union Setting => timer = NoTimer
  /\ inside[p] \in {"unbusy", "mark", "date"} => ~expires
  /\ inside[p] = "mark" => ~busy
  /\ inside[p] \in {"date", "arm", "keep"} => busy
  /\ inside[p] \in {"arm", "keep"} => expires
  /\ inside[p] = "keep" => made # NoTimer /\ Armed = {made}

\* Nobody else is inside.
AloneIn(p) == \A q \in Actors \ {p} : inside[q] = "out"

Orderly ==
  /\ ~nilTimer
  /\ Outside => Agree
  /\ \A p \in Actors : inside[p] # "out" => AloneIn(p) /\ InPlace(p)

BusyInv == BusyTypeOK /\ BusyPlaces /\ (~raced => Orderly)

LEMMA BusyInvInit == BusyInit => BusyInv
<1> SUFFICES ASSUME BusyInit PROVE BusyInv
  OBVIOUS
<1>1. Armed = {} /\ \A p \in Actors : inside[p] = "out"
  BY DEF BusyInit, Armed
<1>2. BusyTypeOK /\ BusyPlaces
  BY <1>1 DEF BusyInit, BusyTypeOK, BusyPlaces, Actors
<1>3. Orderly
  BY <1>1 DEF BusyInit, Orderly, Agree
<1>4. QED
  BY <1>2, <1>3 DEF BusyInv

\* Who enters when nobody is inside finds the fields in agreement.
LEMMA EnterKeeps ==
  ASSUME BusyInv, (\E g \in {"set", "clear"} : Lock(g)) \/ \E t \in Timers : Fire(t)
  PROVE  BusyInv'
<1> USE DEF BusyInv, BusyTypeOK
<1>1. PICK p \in Actors :
        /\ inside' = [inside EXCEPT ![p] = "check"] /\ Meets /\ inside[p] = "out"
        /\ UNCHANGED <<busy, expires, timer, made, nilTimer>>
  BY DEF Lock, Fire, Access, Actors
<1>2. BusyTypeOK'
  BY <1>1 DEF Lock, Fire, Meets
<1>3. BusyPlaces'
  BY <1>1 DEF BusyPlaces, Clearing, Actors
<1>4. ASSUME ~raced'
      PROVE  Orderly'
  <2>1. ~raced /\ Outside
    BY <1>1, <1>4 DEF Meets
  <2>2. AloneIn(p)' /\ inside'[p] = "check" /\ \A q \in Actors \ {p} : inside'[q] = "out"
    BY <1>1, <2>1 DEF AloneIn, Outside
  <2>3. Armed' \subseteq Armed
    BY DEF Armed, Lock, Fire
  <2>4. Armed' \subseteq {timer'}
    BY <1>1, <2>1, <2>3 DEF Orderly, Agree
  <2>5. InPlace(p)'
    BY <2>2, <2>4 DEF InPlace, Setting
  <2>6. QED
    BY <1>1, <2>1, <2>2, <2>5 DEF Orderly, Outside
<1>5. QED
  BY <1>2, <1>3, <1>4

\* Who is inside goes on, alone.
LEMMA GoOn ==
  ASSUME BusyInv, NEW p \in Actors, NEW to, inside[p] # "out",
         inside' = [inside EXCEPT ![p] = to], BusyTypeOK', BusyPlaces',
         UNCHANGED raced,
         ~raced => ~nilTimer',
         ~raced /\ InPlace(p) /\ AloneIn(p) /\ to = "out" => Agree',
         ~raced /\ InPlace(p) /\ AloneIn(p) /\ to # "out" => InPlace(p)'
  PROVE  BusyInv'
<1> SUFFICES ASSUME ~raced PROVE Orderly'
  BY DEF BusyInv
<1>1. InPlace(p) /\ AloneIn(p)
  BY DEF BusyInv, Orderly
<1>2. inside'[p] = to /\ \A q \in Actors \ {p} : inside'[q] = "out"
  BY <1>1 DEF BusyInv, BusyTypeOK, AloneIn
<1>3. CASE to = "out"
  BY <1>1, <1>2, <1>3 DEF Orderly, Outside
<1>4. CASE to # "out"
  BY <1>1, <1>2, <1>4 DEF Orderly, Outside, AloneIn
<1>5. QED
  BY <1>3, <1>4

LEMMA ClearKeeps ==
  ASSUME BusyInv, NEW p \in Actors, ClearStep(p)
  PROVE  BusyInv'
<1> USE DEF BusyInv, BusyTypeOK, Access
<1>1. CASE CheckTimer(p)
  <2>1. BusyTypeOK' /\ BusyPlaces'
    BY <1>1 DEF CheckTimer, BusyPlaces, Clearing, Actors
  <2>2. InPlace(p) => InPlace(p)'
    BY <1>1, BusyAssumption DEF CheckTimer, InPlace, Armed, Setting
  <2>3. QED
    BY <1>1, <2>1, <2>2, GoOn DEF CheckTimer, Orderly
<1>2. CASE StopTimer(p)
  <2>1. BusyTypeOK' /\ BusyPlaces'
    BY <1>2 DEF StopTimer, BusyPlaces, Clearing, Actors
  <2>2. InPlace(p) => ~nilTimer'
    BY <1>2 DEF StopTimer, InPlace
  <2>3. InPlace(p) => Armed' = {}
    BY <1>2 DEF StopTimer, InPlace, Armed
  <2>4. InPlace(p) => InPlace(p)'
    BY <1>2, <2>3 DEF StopTimer, InPlace, Setting
  <2>5. QED
    BY <1>2, <2>1, <2>2, <2>4, GoOn DEF StopTimer, Orderly
<1>3. CASE DropTimer(p)
  <2>1. BusyTypeOK' /\ BusyPlaces'
    BY <1>3 DEF DropTimer, BusyPlaces, Clearing, Actors
  <2>2. InPlace(p) => InPlace(p)'
    BY <1>3 DEF DropTimer, InPlace, Armed, Setting
  <2>3. QED
    BY <1>3, <2>1, <2>2, GoOn DEF DropTimer, Orderly
<1>4. CASE ZeroExpires(p)
  <2>1. BusyTypeOK' /\ BusyPlaces'
    BY <1>4 DEF ZeroExpires, BusyPlaces, Clearing, Actors
  <2>2. InPlace(p) => InPlace(p)'
    BY <1>4 DEF ZeroExpires, InPlace, Armed, Setting
  <2>3. QED
    BY <1>4, <2>1, <2>2, GoOn DEF ZeroExpires, Orderly
<1>5. CASE Unbusy(p)
  <2>1. BusyTypeOK' /\ BusyPlaces'
    BY <1>5, BusyAssumption DEF Unbusy, BusyPlaces, Clearing, Actors
  <2>2. InPlace(p) => Armed' = {} /\ timer' = NoTimer /\ ~expires' /\ ~busy'
    BY <1>5 DEF Unbusy, InPlace, Armed, Setting
  <2>3. Armed' = {} /\ timer' = NoTimer /\ ~expires' /\ ~busy' => Agree'
    BY <2>1 DEF Agree
  <2>4. InPlace(p) /\ inside'[p] = "mark" => InPlace(p)'
    BY <2>2 DEF InPlace, Setting
  <2>5. QED
    BY <1>5, <2>1, <2>2, <2>3, <2>4, GoOn DEF Unbusy, Orderly
<1>6. QED
  BY <1>1, <1>2, <1>3, <1>4, <1>5 DEF ClearStep

LEMMA SetKeeps ==
  ASSUME BusyInv, SetStep
  PROVE  BusyInv'
<1> USE DEF BusyInv, BusyTypeOK, Access
<1> DEFINE p == MutexHolder
<1>0. p \in Actors /\ p \notin Timers
  BY BusyAssumption DEF Actors
<1>1. BusyPlaces'
  BY <1>0 DEF SetStep, MarkBusy, SetExpires, AfterFunc, KeepTimer, BusyPlaces, Clearing, Actors
<1>2. BusyTypeOK'
  BY <1>0 DEF SetStep, MarkBusy, SetExpires, AfterFunc, KeepTimer
<1>3. CASE MarkBusy \/ SetExpires
  <2>1. InPlace(p) => InPlace(p)'
    BY <1>0, <1>3 DEF MarkBusy, SetExpires, InPlace, Armed, Setting
  <2>2. QED
    BY <1>0, <1>1, <1>2, <1>3, <2>1, GoOn DEF MarkBusy, SetExpires, Orderly
<1>4. ASSUME NEW t \in Timers, AfterFunc(t)
      PROVE  BusyInv'
  <2>1. InPlace(p) => Armed' = {t} /\ made' = t /\ busy' /\ expires' /\ timer' = NoTimer
    BY <1>0, <1>4 DEF AfterFunc, InPlace, Armed, Setting
  <2>2. inside'[p] = "keep" /\ t # NoTimer
    BY <1>0, <1>4, BusyAssumption DEF AfterFunc
  <2>3. InPlace(p) => InPlace(p)'
    BY <2>1, <2>2 DEF InPlace, Setting
  <2>4. QED
    BY <1>0, <1>1, <1>2, <1>4, <2>3, GoOn DEF AfterFunc, Orderly
<1>5. CASE KeepTimer
  <2>1. InPlace(p) => Armed' = {timer'} /\ timer' # NoTimer /\ busy' /\ expires'
    BY <1>0, <1>5 DEF KeepTimer, InPlace, Armed
  <2>2. InPlace(p) => Agree'
    BY <2>1, <1>2 DEF Agree
  <2>3. QED
    BY <1>0, <1>1, <1>2, <1>5, <2>2, GoOn DEF KeepTimer, Orderly
<1>6. QED
  BY <1>3, <1>4, <1>5 DEF SetStep

LEMMA BusyInvNext == BusyInv /\ [BusyNext]_busyVars => BusyInv'
<1>1. BusyInv /\ UNCHANGED busyVars => BusyInv'
  BY DEF busyVars, BusyInv, BusyTypeOK, BusyPlaces, Orderly, Outside, Agree, Armed, AloneIn, InPlace
<1>2. QED
  BY <1>1, EnterKeeps, ClearKeeps, SetKeeps DEF BusyNext

LEMMA BusyInvHolds == BusySpec => []BusyInv
BY BusyInvInit, BusyInvNext, PTL DEF BusySpec

\* The flag, the date, the timers and the places of those who use them keep their
\* types (Busy.Set, Clear, clearWithoutNotify).
THEOREM BusyTypes == BusySpec => []BusyTypeOK
<1>1. BusyInv => BusyTypeOK
  BY DEF BusyInv
<1>2. QED
  BY <1>1, BusyInvHolds, PTL

\* However often the server is set busy and cleared, with any number of timers:
\* as long as no callback of a timer ran beside another access, nobody stopped
\* a timer that is not there, and between the calls the server is busy just
\* when it has a date and an armed timer (Busy.Set, Clear, clearWithoutNotify).
THEOREM RacesAlone == BusySpec => []OnlyRacesHurt
<1>1. BusyInv => OnlyRacesHurt
  <2> SUFFICES ASSUME BusyInv, ~raced PROVE ~nilTimer /\ (Outside => Agree)
    BY BusyAssumption DEF OnlyRacesHurt, Agree, Armed, BusyInv, BusyTypeOK
  <2> QED
    BY DEF BusyInv, Orderly
<1>2. QED
  BY <1>1, BusyInvHolds, PTL

----------------------------------------------------------------------------
(* The cards.                                                              *)

HoverInv ==
  /\ highlights \in [Cards -> Nat]
  /\ hiddens \in [Cards -> [Elements -> Nat]]
  /\ over \in [Cards -> BOOLEAN]
  /\ CardsFollowMouse

LEMMA HoverInvInit == HoverInit => HoverInv
<1> SUFFICES ASSUME HoverInit PROVE HoverInv
  OBVIOUS
<1> USE DEF Elements, Plain, Hover
<1>1. /\ highlights \in [Cards -> Nat]
      /\ hiddens \in [Cards -> [Elements -> Nat]]
      /\ over \in [Cards -> BOOLEAN]
  BY DEF HoverInit
<1>2. \A c \in Cards : highlights[c] = 0 /\ over[c] = FALSE /\ hiddens[c][1] = 0 /\ hiddens[c][2] = 1
  BY DEF HoverInit
<1>3. CardsFollowMouse
  <2>1. \A c \in Cards : /\ over[c] = FALSE /\ (highlights[c] > 0) = FALSE
                         /\ Hidden(c, 1) = FALSE /\ Hidden(c, 2) = TRUE
    BY <1>2 DEF Hidden
  <2>2. QED
    BY <2>1 DEF CardsFollowMouse
<1>4. QED
  BY <1>1, <1>3 DEF HoverInv

\* When both queries find an element, the exchange hides one and shows the other.
LEMMA ExchangeElements ==
  ASSUME HoverInv, NEW c \in Cards, NEW h \in Elements, NEW s \in Elements, h # s
  PROVE  LET H == Exchange(c, {h}, {s}) IN
         /\ H \in [Cards -> [Elements -> Nat]]
         /\ \A d \in Cards \ {c} : H[d] = hiddens[d]
         /\ H[c][s] = 0 /\ H[c][h] > 0
<1> DEFINE f == [e \in Elements |->
         IF e \in {s} THEN 0 ELSE IF e \in {h} THEN hiddens[c][e] + 1 ELSE hiddens[c][e]]
<1>1. hiddens \in [Cards -> [Elements -> Nat]]
  BY DEF HoverInv
<1>2. f \in [Elements -> Nat] /\ f[s] = 0 /\ f[h] > 0
  BY <1>1
<1>3. Exchange(c, {h}, {s}) = [hiddens EXCEPT ![c] = f]
  BY DEF Exchange
<1> HIDE DEF f
<1>4. QED
  BY <1>1, <1>2, <1>3

LEMMA OnHoverKeeps ==
  ASSUME HoverInv, NEW c \in Cards, OnHover(c)
  PROVE  HoverInv'
<1> USE DEF HoverInv, Elements, Plain, Hover, Hidden
<1>1. /\ highlights' \in [Cards -> Nat] /\ over' \in [Cards -> BOOLEAN]
      /\ highlights'[c] > 0 /\ over'[c]
      /\ \A d \in Cards \ {c} : highlights'[d] = highlights[d] /\ over'[d] = over[d]
  BY DEF OnHover, Target
<1>2. CASE ~over[c]
  <2>1. ~Hidden(c, 1) /\ Hidden(c, 2)
    BY <1>2 DEF CardsFollowMouse
  <2>2. First({e \in Elements : ~Hidden(c, e)}) = {1} /\ {e \in {Hover} : Hidden(c, e)} = {2}
    BY <2>1 DEF First
  <2>3. hiddens' = Exchange(c, {1}, {2})
    BY <2>2 DEF OnHover, Target
  <2>4. /\ hiddens' \in [Cards -> [Elements -> Nat]]
        /\ \A d \in Cards \ {c} : hiddens'[d] = hiddens[d]
        /\ hiddens'[c][2] = 0 /\ hiddens'[c][1] > 0
    BY <2>3, ExchangeElements
  <2>5. QED
    BY <1>1, <2>4 DEF CardsFollowMouse
<1>3. CASE over[c]
  <2>1. {e \in {Hover} : Hidden(c, e)} = {}
    BY <1>3 DEF CardsFollowMouse
  <2>2. UNCHANGED hiddens
    BY <2>1 DEF OnHover, Target, Exchange
  <2>3. QED
    BY <1>1, <1>3, <2>2 DEF CardsFollowMouse
<1>4. QED
  BY <1>2, <1>3

LEMMA OnUnHoverKeeps ==
  ASSUME HoverInv, NEW c \in Cards, OnUnHover(c)
  PROVE  HoverInv'
<1> USE DEF HoverInv, Elements, Plain, Hover, Hidden
<1>1. /\ highlights' \in [Cards -> Nat] /\ over' \in [Cards -> BOOLEAN]
      /\ highlights'[c] = 0 /\ ~over'[c]
      /\ \A d \in Cards \ {c} : highlights'[d] = highlights[d] /\ over'[d] = over[d]
  BY DEF OnUnHover, Target
<1>2. CASE over[c]
  <2>1. Hidden(c, 1) /\ ~Hidden(c, 2)
    BY <1>2 DEF CardsFollowMouse
  <2>2. First({e \in Elements : Hidden(c, e)}) = {1} /\ {e \in {Hover} : ~Hidden(c, e)} = {2}
    BY <2>1 DEF First
  <2>3. hiddens' = Exchange(c, {2}, {1})
    BY <2>2 DEF OnUnHover, Target
  <2>4. /\ hiddens' \in [Cards -> [Elements -> Nat]]
        /\ \A d \in Cards \ {c} : hiddens'[d] = hiddens[d]
        /\ hiddens'[c][1] = 0 /\ hiddens'[c][2] > 0
    BY <2>3, ExchangeElements
  <2>5. QED
    BY <1>1, <2>4 DEF CardsFollowMouse
<1>3. CASE ~over[c]
  <2>1. {e \in {Hover} : ~Hidden(c, e)} = {}
    BY <1>3 DEF CardsFollowMouse
  <2>2. UNCHANGED hiddens
    BY <2>1 DEF OnUnHover, Target, Exchange
  <2>3. QED
    BY <1>1, <1>3, <2>2 DEF CardsFollowMouse
<1>4. QED
  BY <1>2, <1>3

\* Whatever events the browser repeats or leaves out, for any number of cards
\* and copies of a class: each card shows the element and the highlight that
\* its own last event asks for (onHover, onUnHover).
THEOREM CardsAreRight == HoverSpec => []CardsFollowMouse
<1>1. HoverInv /\ [HoverNext]_hoverVars => HoverInv'
  <2>1. HoverInv /\ UNCHANGED hoverVars => HoverInv'
    BY DEF hoverVars, HoverInv, CardsFollowMouse, Hidden
  <2>2. QED
    BY <2>1, OnHoverKeeps, OnUnHoverKeeps DEF HoverNext
<1>2. HoverInv => CardsFollowMouse
  BY DEF HoverInv
<1>3. QED
  BY <1>1, <1>2, HoverInvInit, PTL DEF HoverSpec
=============================================================================

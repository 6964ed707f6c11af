-------------------------- MODULE ServerGoroutines --------------------------
(***************************************************************************)
(* Server.Go and Server.WaitForGoroutines: a count of the goroutines that  *)
(* run, and a channel with room for one signal, by which a goroutine that  *)
(* ends wakes the shutdown that waits for it.  The count and the signal    *)
(* are two steps on both sides, and a signal that finds the channel full   *)
(* is dropped.                                                             *)
(*                                                                         *)
(* Requests, goroutines and recurring tasks call Go, and the shutdown stops *)
(* none of them for certain: a goroutine may start at any time.            *)
(***************************************************************************)
EXTENDS Integers, FiniteSets

CONSTANT Routines   \* the goroutines ever started

ASSUME GoroutinesAssumption == IsFiniteSet(Routines)

VARIABLES
  goroutineCount,
  exitSignal,    \* how many signals are in the channel
  routine,       \* new, running, counted (off, not signalled yet), ended
  shutdown,      \* no, testing, receiving, over (past WaitForGoroutines)
  lateRoutines   \* history: the goroutines started when the wait was over

goVars == <<goroutineCount, exitSignal, routine, shutdown, lateRoutines>>

GoInit ==
  /\ goroutineCount = 0 /\ exitSignal = 0
  /\ routine = [g \in Routines |-> "new"]
  /\ shutdown = "no"
  /\ lateRoutines = {}

SetRoutine(g, s) == routine' = [routine EXCEPT ![g] = s]

Go(g) ==
  /\ routine[g] = "new" /\ SetRoutine(g, "running")
  /\ goroutineCount' = goroutineCount + 1
  /\ lateRoutines' = IF shutdown = "over" THEN lateRoutines \union {g} ELSE lateRoutines
  /\ UNCHANGED <<exitSignal, shutdown>>

CountOff(g) ==
  /\ routine[g] = "running" /\ SetRoutine(g, "counted")
  /\ goroutineCount' = goroutineCount - 1
  /\ UNCHANGED <<exitSignal, shutdown, lateRoutines>>

\* `Unbuffered' has a channel without room: the signal is lost unless the
\* shutdown is receiving at that moment.
Unbuffered(g) ==
  /\ routine[g] = "counted" /\ SetRoutine(g, "ended")
  /\ exitSignal' \in {exitSignal, 1}
  /\ UNCHANGED <<goroutineCount, shutdown, lateRoutines>>

Signal(g) ==
  /\ routine[g] = "counted" /\ SetRoutine(g, "ended")
  /\ exitSignal' = 1
  /\ UNCHANGED <<goroutineCount, shutdown, lateRoutines>>

Shutdown ==
  /\ shutdown = "no" /\ shutdown' = "testing"
  /\ UNCHANGED <<goroutineCount, exitSignal, routine, lateRoutines>>

\* `AllButOne' is the loop with an off-by-one.
AllButOne ==
  /\ shutdown = "testing"
  /\ shutdown' = IF goroutineCount > 1 THEN "receiving" ELSE "over"
  /\ UNCHANGED <<goroutineCount, exitSignal, routine, lateRoutines>>

TestCount ==
  /\ shutdown = "testing"
  /\ shutdown' = IF goroutineCount # 0 THEN "receiving" ELSE "over"
  /\ UNCHANGED <<goroutineCount, exitSignal, routine, lateRoutines>>

Receive ==
  /\ shutdown = "receiving" /\ exitSignal = 1
  /\ exitSignal' = 0 /\ shutdown' = "testing"
  /\ UNCHANGED <<goroutineCount, routine, lateRoutines>>

End(g) == CountOff(g) \/ Signal(g)

WaitForGoroutines == TestCount \/ Receive

GoNext == \/ \E g \in Routines : Go(g) \/ End(g)
          \/ Shutdown \/ WaitForGoroutines

GoSpec == GoInit /\ [][GoNext]_goVars

\* The shutdown is scheduled, and the functions given to Go return.
GoFairness == WF_goVars(WaitForGoroutines) /\ \A g \in Routines : WF_goVars(End(g))

FairGoSpec == GoSpec /\ GoFairness

----------------------------------------------------------------------------
(* Properties. *)

Running == {g \in Routines : routine[g] = "running"}

\* The types of the state, and the count counts.
GoTypeOK ==
  /\ exitSignal \in {0, 1}
  /\ routine \in [Routines -> {"new", "running", "counted", "ended"}]
  /\ shutdown \in {"no", "testing", "receiving", "over"}
  /\ lateRoutines \subseteq Routines
  /\ goroutineCount = Cardinality(Running)

\* No wake-up is lost: when the shutdown waits for a signal and there is none,
\* a goroutine will still send one.
WakeUpComes ==
  shutdown = "receiving" /\ exitSignal = 0 =>
    \E g \in Routines : routine[g] \in {"running", "counted"}

\* The shutdown waits for every goroutine that was started before it was over.
AllAwaited == shutdown = "over" => Running \subseteq lateRoutines

\* Waiting ends when the goroutines do, though they start others meanwhile.
WaitReturns == shutdown = "testing" ~> shutdown = "over"
=============================================================================

------------------------- MODULE MigrationJobsProofs -------------------------
(***************************************************************************)
(* Safety of the migrations job for any number of servers, jobs, batches   *)
(* and events.                                                             *)
(***************************************************************************)
EXTENDS MigrationJobs, TLAPS

\* The vocabulary of the actions, visible to every proof below.
USE DEF dbVars, jobVars, workerVars, schedVars, GotoW, Leave, GotoS,
        LeaveScheduler

\* Ids are given in order, and only to new rows.
Fresh == \A j \in JobIds : j > created => status[j] = "none"

\* A worker holds only a job that was claimed, and that nobody ended well: but
\* itself, when the answer was lost.
HeldClaimed ==
  \A s \in Servers :
    /\ wpc[s] # "idle" => wjob[s] \in JobIds
    /\ wpc[s] \in Held =>
         \/ status[wjob[s]] \in {"in_progress", "cancel_requested", "error"}
         \/ wpc[s] = "fail" /\ status[wjob[s]] = "success"

\* The scheduler declares wedged only jobs that exist.
WedgeKnown ==
  \A s \in Servers :
    spc[s] = "wedge" => sjob[s] \in JobIds /\ sjob[s] <= created

\* Every saved, carried or copied position is backed by batches that ran.
ProgressSound ==
  /\ \A j \in JobIds : 1..lastDone[j] \subseteq migrated
  /\ \A s \in Servers :
       /\ 1..wdone[s] \subseteq migrated
       /\ 1..sdone[s] \subseteq migrated
       /\ wpc[s] = "record" => wdone[s] = NBatches

IInv ==
  /\ TypeOK /\ Fresh /\ HeldClaimed /\ WedgeKnown
  /\ ClaimExclusive /\ ProgressSound /\ MigrationSound

----------------------------------------------------------------------------

LEMMA InitIInv == Init => IInv
<1> SUFFICES ASSUME Init PROVE IInv
  OBVIOUS
<1>1. TypeOK
  <2>1. nextRun \in [Servers -> BOOLEAN]
    <3>1. \A s \in Servers : (s \in RunScheduler) \in BOOLEAN
      OBVIOUS
    <3>2. nextRun = [s \in Servers |-> s \in RunScheduler]
      BY DEF Init
    <3>3. QED
      BY <3>1, <3>2
  <2>2. /\ status \in [JobIds -> Status]
        /\ lastDone \in [JobIds -> 0..NBatches]
        /\ stale \in [JobIds -> BOOLEAN]
        /\ created \in 0..MaxJobs
        /\ migrated \subseteq 1..NBatches
        /\ completed \in BOOLEAN
    <3>1. status \in [JobIds -> Status]
      BY DEF Init, Status
    <3>2. created \in 0..MaxJobs /\ lastDone \in [JobIds -> 0..NBatches]
      BY MigrationJobsAssumption DEF Init
    <3>3. QED
      BY <3>1, <3>2 DEF Init
  <2>3. /\ server \in [Servers -> {"up", "stopping", "draining", "hung", "down"}]
        /\ offered \in [Servers -> SUBSET JobIds]
        /\ wpc \in [Servers -> {"idle", "claim"} \union Held]
        /\ wjob \in [Servers -> JobIds \union {NoJob}]
        /\ wdone \in [Servers -> 0..NBatches]
        /\ wcancel \in [Servers -> BOOLEAN]
    BY MigrationJobsAssumption DEF Init
  <2>4. /\ spc \in [Servers -> {"idle", "list", "wedge", "create"}]
        /\ sjob \in [Servers -> JobIds \union {NoJob}]
        /\ sdone \in [Servers -> 0..NBatches]
        /\ allDone \in [Servers -> BOOLEAN]
        /\ isLeader \in [Servers -> BOOLEAN]
        /\ events \in 0..MaxEvents
    BY MigrationJobsAssumption DEF Init
  <2>5. QED
    BY <2>1, <2>2, <2>3, <2>4 DEF TypeOK, DbTypeOK, WorkerTypeOK, SchedTypeOK
<1>2. Fresh /\ HeldClaimed /\ WedgeKnown /\ ClaimExclusive /\ MigrationSound
  BY DEF Init, Fresh, HeldClaimed, WedgeKnown, ClaimExclusive, MigrationSound,
         Holds, Held
<1>3. ProgressSound
  BY DEF Init, ProgressSound
<1>4. QED
  BY <1>1, <1>2, <1>3 DEF IInv

LEMMA ZeroPosition == 0 \in 0..NBatches
BY MigrationJobsAssumption

LEMMA EmptyPrefix == 1..0 = {}
OBVIOUS

\* Workers that keep their job or give it up stay exclusive.
LEMMA KeepOrRelease ==
  ASSUME ClaimExclusive,
         \A t \in Servers :
           wpc'[t] \in Held => wpc[t] \in Held /\ wjob'[t] = wjob[t]
  PROVE  ClaimExclusive'
BY DEF ClaimExclusive, Holds

----------------------------------------------------------------------------
(* Every step preserves the invariant. *)

LEMMA WatcherPollStep ==
  ASSUME IInv, NEW s \in Servers, WatcherPoll(s)
  PROVE  IInv'
<1> USE DEF IInv
<1>1. TypeOK'
  BY MigrationJobsAssumption, ZeroPosition DEF WatcherPoll, TypeOK, DbTypeOK,
       WorkerTypeOK, SchedTypeOK
<1>2. Fresh' /\ WedgeKnown'
  BY DEF WatcherPoll, TypeOK, DbTypeOK, WorkerTypeOK, SchedTypeOK, Fresh,
       WedgeKnown
<1>3. HeldClaimed' /\ ClaimExclusive'
  BY KeepOrRelease DEF WatcherPoll, TypeOK, DbTypeOK, WorkerTypeOK,
       SchedTypeOK, HeldClaimed, Held, ClaimExclusive, Holds
<1>4. ProgressSound' /\ MigrationSound'
  BY EmptyPrefix DEF WatcherPoll, TypeOK, DbTypeOK, WorkerTypeOK, SchedTypeOK,
       ProgressSound, MigrationSound
<1>5. QED
  BY <1>1, <1>2, <1>3, <1>4

LEMMA WatcherSendStep ==
  ASSUME IInv, NEW s \in Servers, WatcherSend(s)
  PROVE  IInv'
<1> USE DEF IInv
<1>1. TypeOK'
  BY MigrationJobsAssumption, ZeroPosition DEF WatcherSend, TypeOK, DbTypeOK,
       WorkerTypeOK, SchedTypeOK, Held
<1>2. Fresh' /\ WedgeKnown'
  BY DEF WatcherSend, TypeOK, DbTypeOK, WorkerTypeOK, SchedTypeOK, Fresh,
       WedgeKnown
<1>3. HeldClaimed' /\ ClaimExclusive'
  BY KeepOrRelease DEF WatcherSend, TypeOK, DbTypeOK, WorkerTypeOK,
       SchedTypeOK, HeldClaimed, Held
<1>4. ProgressSound' /\ MigrationSound'
  <2>1. \A t \in Servers :
          wdone'[t] = wdone[t] \/ \E j \in JobIds : wdone'[t] = lastDone[j]
    BY DEF WatcherSend, TypeOK, WorkerTypeOK
  <2>2. \A t \in Servers : wpc'[t] = "record" => wdone'[t] = NBatches
    BY DEF WatcherSend, TypeOK, WorkerTypeOK, ProgressSound
  <2>3. QED
    BY <2>1, <2>2 DEF WatcherSend, ProgressSound, MigrationSound
<1>5. QED
  BY <1>1, <1>2, <1>3, <1>4

LEMMA ClaimStep ==
  ASSUME IInv, NEW s \in Servers, Claim(s)
  PROVE  IInv'
<1> USE DEF IInv
<1>1. TypeOK'
  <2>1. DbTypeOK'
    BY DEF Claim, TypeOK, DbTypeOK, WorkerTypeOK, Status, Active
  <2>2. WorkerTypeOK'
    <3>1. UNCHANGED <<server, offered>>
      BY DEF Claim
    <3>2. CASE Leave(s)
      BY <3>1, <3>2, ZeroPosition DEF TypeOK, WorkerTypeOK
    <3>3. CASE GotoW(s, "select") /\ UNCHANGED wdone
      BY <3>1, <3>3 DEF TypeOK, WorkerTypeOK, Held
    <3>4. QED
      BY <3>2, <3>3 DEF Claim
  <2>3. QED
    BY <2>1, <2>2 DEF Claim, TypeOK, SchedTypeOK
<1>2. Fresh' /\ WedgeKnown'
  BY DEF Claim, TypeOK, DbTypeOK, WorkerTypeOK, SchedTypeOK, Fresh,
       WedgeKnown, MayClaim
<1>3. HeldClaimed' /\ ClaimExclusive'
  <2>1. \/ UNCHANGED status
        \/ /\ MayClaim(wjob[s])
           /\ status' = [status EXCEPT ![wjob[s]] = "in_progress"]
    BY DEF Claim
  <2>2. \A t \in Servers : Holds(t, wjob[s]) => ~MayClaim(wjob[s])
    BY DEF HeldClaimed, Holds, MayClaim
  <2>3. CASE Leave(s)
    <3>1. \A t \in Servers :
            wpc'[t] # "idle" => t # s /\ wpc'[t] = wpc[t] /\ wjob'[t] = wjob[t]
      BY <2>3 DEF TypeOK, WorkerTypeOK
    <3>2. ClaimExclusive'
      BY <3>1, KeepOrRelease DEF Held
    <3>3. HeldClaimed'
      BY <2>1, <2>2, <3>1
         DEF HeldClaimed, Holds, Held, TypeOK, DbTypeOK, WorkerTypeOK
    <3>4. QED
      BY <3>2, <3>3
  <2>4. CASE /\ MayClaim(wjob[s]) /\ GotoW(s, "select")
             /\ status' = [status EXCEPT ![wjob[s]] = "in_progress"]
    <3>1. \A t \in Servers : ~Holds(t, wjob[s])
      BY <2>2, <2>4
    <3>2. wjob' = wjob /\ \A t \in Servers : t # s => wpc'[t] = wpc[t]
      BY <2>4 DEF TypeOK, WorkerTypeOK
    <3>3. ClaimExclusive'
      BY <3>1, <3>2 DEF ClaimExclusive, Holds
    <3>4. HeldClaimed'
      BY <2>4, <3>1, <3>2
         DEF Claim, HeldClaimed, Holds, TypeOK, DbTypeOK, WorkerTypeOK
    <3>5. QED
      BY <3>3, <3>4
  <2>5. QED
    BY <2>3, <2>4 DEF Claim
<1>4. ProgressSound' /\ MigrationSound'
  <2>1. \A t \in Servers : wdone'[t] = wdone[t] \/ wdone'[t] = 0
    BY DEF Claim, TypeOK, WorkerTypeOK
  <2>2. \A t \in Servers : wpc'[t] = "record" => wdone'[t] = NBatches
    BY DEF Claim, TypeOK, WorkerTypeOK, ProgressSound
  <2>3. QED
    BY <2>1, <2>2, EmptyPrefix DEF Claim, ProgressSound, MigrationSound
<1>5. QED
  BY <1>1, <1>2, <1>3, <1>4

LEMMA CancelWatchStep ==
  ASSUME IInv, NEW s \in Servers, CancelWatch(s)
  PROVE  IInv'
<1> USE DEF IInv
<1>1. TypeOK'
  BY MigrationJobsAssumption, ZeroPosition DEF CancelWatch, TypeOK, DbTypeOK,
       WorkerTypeOK, SchedTypeOK
<1>2. Fresh' /\ WedgeKnown'
  BY DEF CancelWatch, TypeOK, DbTypeOK, WorkerTypeOK, SchedTypeOK, Fresh,
       WedgeKnown
<1>3. HeldClaimed' /\ ClaimExclusive'
  BY KeepOrRelease DEF CancelWatch, TypeOK, DbTypeOK, WorkerTypeOK,
       SchedTypeOK, HeldClaimed, Held, ClaimExclusive, Holds
<1>4. ProgressSound' /\ MigrationSound'
  BY EmptyPrefix DEF CancelWatch, TypeOK, DbTypeOK, WorkerTypeOK, SchedTypeOK,
       ProgressSound, MigrationSound
<1>5. QED
  BY <1>1, <1>2, <1>3, <1>4

LEMMA CancelJobStep ==
  ASSUME IInv, NEW s \in Servers, CancelJob(s)
  PROVE  IInv'
<1> USE DEF IInv
<1>1. TypeOK'
  BY MigrationJobsAssumption, ZeroPosition DEF CancelJob, SetJobCanceled,
       TypeOK, DbTypeOK, WorkerTypeOK, SchedTypeOK, Status, Terminal
<1>2. Fresh' /\ WedgeKnown'
  BY DEF CancelJob, SetJobCanceled, TypeOK, DbTypeOK, WorkerTypeOK,
       SchedTypeOK, Fresh, WedgeKnown, HeldClaimed, Held
<1>3. HeldClaimed' /\ ClaimExclusive'
  BY KeepOrRelease DEF CancelJob, SetJobCanceled, TypeOK, DbTypeOK,
       WorkerTypeOK, SchedTypeOK, HeldClaimed, Held, ClaimExclusive, Holds
<1>4. ProgressSound' /\ MigrationSound'
  BY EmptyPrefix DEF CancelJob, SetJobCanceled, TypeOK, DbTypeOK,
       WorkerTypeOK, SchedTypeOK, ProgressSound, MigrationSound
<1>5. QED
  BY <1>1, <1>2, <1>3, <1>4

LEMMA StopJobStep ==
  ASSUME IInv, NEW s \in Servers, StopJob(s)
  PROVE  IInv'
<1> USE DEF IInv
<1>1. TypeOK'
  BY MigrationJobsAssumption, ZeroPosition DEF StopJob, SetJobCanceled,
       TypeOK, DbTypeOK, WorkerTypeOK, SchedTypeOK, Status, Terminal
<1>2. Fresh' /\ WedgeKnown'
  BY DEF StopJob, SetJobCanceled, TypeOK, DbTypeOK, WorkerTypeOK, SchedTypeOK,
       Fresh, WedgeKnown, HeldClaimed, Held
<1>3. HeldClaimed' /\ ClaimExclusive'
  BY KeepOrRelease DEF StopJob, SetJobCanceled, TypeOK, DbTypeOK,
       WorkerTypeOK, SchedTypeOK, HeldClaimed, Held, ClaimExclusive, Holds
<1>4. ProgressSound' /\ MigrationSound'
  BY EmptyPrefix DEF StopJob, SetJobCanceled, TypeOK, DbTypeOK, WorkerTypeOK,
       SchedTypeOK, ProgressSound, MigrationSound
<1>5. QED
  BY <1>1, <1>2, <1>3, <1>4

LEMMA BeginBatchStep ==
  ASSUME IInv, NEW s \in Servers, BeginBatch(s)
  PROVE  IInv'
<1> USE DEF IInv
<1>1. TypeOK'
  BY MigrationJobsAssumption, ZeroPosition DEF BeginBatch, TypeOK, DbTypeOK,
       WorkerTypeOK, SchedTypeOK, Held
<1>2. Fresh' /\ WedgeKnown'
  BY DEF BeginBatch, TypeOK, DbTypeOK, WorkerTypeOK, SchedTypeOK, Fresh,
       WedgeKnown
<1>3. HeldClaimed' /\ ClaimExclusive'
  BY KeepOrRelease DEF BeginBatch, TypeOK, DbTypeOK, WorkerTypeOK,
       SchedTypeOK, HeldClaimed, Held
<1>4. ProgressSound' /\ MigrationSound'
  BY EmptyPrefix DEF BeginBatch, TypeOK, DbTypeOK, WorkerTypeOK, SchedTypeOK,
       ProgressSound, MigrationSound
<1>5. QED
  BY <1>1, <1>2, <1>3, <1>4

LEMMA RunBatchStep ==
  ASSUME IInv, NEW s \in Servers, RunBatch(s)
  PROVE  IInv'
<1> USE DEF IInv
<1>1. TypeOK'
  <2>1. wdone[s] \in 0..NBatches /\ NBatches \in Nat
    BY MigrationJobsAssumption DEF TypeOK, WorkerTypeOK
  <2>2. ~NoMoreRows(wdone[s]) => wdone[s] + 1 \in 1..NBatches
    BY <2>1 DEF NoMoreRows
  <2>3. wdone' \in [Servers -> 0..NBatches]
    BY <2>1, <2>2 DEF RunBatch, TypeOK, WorkerTypeOK
  <2>4. WorkerTypeOK'
    BY <2>3 DEF RunBatch, TypeOK, WorkerTypeOK, Held
  <2>5. DbTypeOK'
    BY <2>2 DEF RunBatch, TypeOK, DbTypeOK
  <2>6. QED
    BY <2>4, <2>5 DEF RunBatch, TypeOK, SchedTypeOK
<1>2. Fresh' /\ WedgeKnown'
  BY DEF RunBatch, TypeOK, DbTypeOK, WorkerTypeOK, SchedTypeOK, Fresh,
       WedgeKnown
<1>3. HeldClaimed' /\ ClaimExclusive'
  BY KeepOrRelease DEF RunBatch, TypeOK, DbTypeOK, WorkerTypeOK, SchedTypeOK,
       HeldClaimed, Held
<1>4. ProgressSound' /\ MigrationSound'
  <2>1. wdone[s] \in 0..NBatches /\ migrated' \subseteq 1..NBatches
    BY <1>1 DEF TypeOK, DbTypeOK, WorkerTypeOK
  <2>2. MigrationSound'
    BY <2>1 DEF RunBatch, MigrationSound
  <2>3. CASE /\ wpc' = [wpc EXCEPT ![s] = "save"]
             /\ wdone' = [wdone EXCEPT ![s] = @ + 1]
             /\ migrated' = migrated \union {wdone[s] + 1}
    <3>1. \A t \in Servers :
            wdone'[t] = IF t = s THEN wdone[s] + 1 ELSE wdone[t]
      BY <2>3 DEF TypeOK, WorkerTypeOK
    <3>2. 1..(wdone[s] + 1) \subseteq migrated'
      BY <2>1, <2>3 DEF ProgressSound
    <3>3. \A t \in Servers : wpc'[t] = "record" => wdone'[t] = NBatches
      BY <2>3, <3>1 DEF TypeOK, WorkerTypeOK, ProgressSound
    <3>4. QED
      BY <2>2, <2>3, <3>1, <3>2, <3>3 DEF RunBatch, ProgressSound
  <2>4. CASE migrated \subseteq migrated' /\ UNCHANGED wdone
    <3>1. \A t \in Servers : wpc'[t] = "record" => wdone'[t] = NBatches
      BY <2>1, <2>4
         DEF RunBatch, TypeOK, WorkerTypeOK, ProgressSound, NoMoreRows
    <3>2. QED
      BY <2>2, <2>4, <3>1 DEF RunBatch, ProgressSound
  <2>5. QED
    BY <2>3, <2>4 DEF RunBatch
<1>5. QED
  BY <1>1, <1>2, <1>3, <1>4

LEMMA SaveProgressStep ==
  ASSUME IInv, NEW s \in Servers, SaveProgress(s)
  PROVE  IInv'
<1> USE DEF IInv
<1>1. TypeOK'
  <2>1. status' \in [JobIds -> Status]
    BY DEF SaveProgress, TypeOK, DbTypeOK, Status, Active
  <2>2. lastDone' \in [JobIds -> 0..NBatches]
    BY DEF SaveProgress, TypeOK, DbTypeOK, WorkerTypeOK
  <2>3. WorkerTypeOK'
    BY DEF SaveProgress, TypeOK, WorkerTypeOK, Held
  <2>4. QED
    BY <2>1, <2>2, <2>3 DEF SaveProgress, TypeOK, DbTypeOK, SchedTypeOK
<1>2. Fresh' /\ WedgeKnown'
  BY DEF SaveProgress, TypeOK, DbTypeOK, WorkerTypeOK, SchedTypeOK, Fresh,
       WedgeKnown, MaySave
<1>3. HeldClaimed' /\ ClaimExclusive'
  BY KeepOrRelease DEF SaveProgress, TypeOK, DbTypeOK, WorkerTypeOK,
       SchedTypeOK, HeldClaimed, Held
<1>4. ProgressSound' /\ MigrationSound'
  BY EmptyPrefix DEF SaveProgress, TypeOK, DbTypeOK, WorkerTypeOK,
       SchedTypeOK, ProgressSound, MigrationSound
<1>5. QED
  BY <1>1, <1>2, <1>3, <1>4

LEMMA RecordMigrationStep ==
  ASSUME IInv, NEW s \in Servers, RecordMigration(s)
  PROVE  IInv'
<1> USE DEF IInv
<1>1. TypeOK'
  BY MigrationJobsAssumption, ZeroPosition DEF RecordMigration, TypeOK,
       DbTypeOK, WorkerTypeOK, SchedTypeOK, Held
<1>2. Fresh' /\ WedgeKnown'
  BY DEF RecordMigration, TypeOK, DbTypeOK, WorkerTypeOK, SchedTypeOK, Fresh,
       WedgeKnown
<1>3. HeldClaimed' /\ ClaimExclusive'
  BY KeepOrRelease DEF RecordMigration, TypeOK, DbTypeOK, WorkerTypeOK,
       SchedTypeOK, HeldClaimed, Held
<1>4. ProgressSound' /\ MigrationSound'
  BY EmptyPrefix DEF RecordMigration, TypeOK, DbTypeOK, WorkerTypeOK,
       SchedTypeOK, ProgressSound, MigrationSound
<1>5. QED
  BY <1>1, <1>2, <1>3, <1>4

LEMMA FinishStep ==
  ASSUME IInv, NEW s \in Servers, Finish(s)
  PROVE  IInv'
<1> USE DEF IInv
<1>1. TypeOK'
  <2>1. DbTypeOK'
    <3>1. status' \in [JobIds -> Status]
      BY DEF Finish, TypeOK, DbTypeOK, Status, Terminal
    <3>2. stale' \in [JobIds -> BOOLEAN]
      BY DEF Finish, TypeOK, DbTypeOK
    <3>3. QED
      BY <3>1, <3>2 DEF Finish, TypeOK, DbTypeOK
  <2>2. WorkerTypeOK'
    <3>1. UNCHANGED <<server, offered>>
      BY DEF Finish
    <3>2. CASE Leave(s)
      BY <3>1, <3>2, ZeroPosition DEF TypeOK, WorkerTypeOK
    <3>3. CASE GotoW(s, "fail") /\ UNCHANGED wdone
      BY <3>1, <3>3 DEF TypeOK, WorkerTypeOK, Held
    <3>4. QED
      BY <3>2, <3>3 DEF Finish
  <2>3. QED
    BY <2>1, <2>2 DEF Finish, TypeOK, SchedTypeOK
<1>2. Fresh' /\ WedgeKnown'
  BY DEF Finish, TypeOK, DbTypeOK, WorkerTypeOK, SchedTypeOK, Fresh,
       WedgeKnown, HeldClaimed, Held
<1>3. HeldClaimed' /\ ClaimExclusive'
  <2>1. \A t \in Servers :
          \/ t # s /\ wpc'[t] = wpc[t] /\ wjob'[t] = wjob[t]
          \/ t = s /\ wpc'[t] = "fail" /\ wjob'[t] = wjob[t]
          \/ t = s /\ wpc'[t] = "idle"
    BY DEF Finish, TypeOK, WorkerTypeOK
  <2>2. wpc[s] = "finish" /\ wjob[s] \in JobIds /\ Holds(s, wjob[s])
    BY DEF Finish, HeldClaimed, Holds, Held
  <2>3. ClaimExclusive'
    <3>1. \A t \in Servers :
            wpc'[t] \in Held => wpc[t] \in Held /\ wjob'[t] = wjob[t]
      BY <2>1, <2>2 DEF Held
    <3>2. QED
      BY <3>1, KeepOrRelease
  <2>4. \A j \in JobIds :
          status'[j] = status[j] \/ (j = wjob[s] /\ status'[j] = "success")
    BY <2>2 DEF Finish, TypeOK, DbTypeOK
  <2>5. \A t \in Servers \ {s} : wpc[t] \in Held => wjob[t] # wjob[s]
    BY <2>2 DEF ClaimExclusive, Holds
  <2>6. status[wjob[s]] \in {"in_progress", "cancel_requested", "error"}
    BY <2>2 DEF HeldClaimed, Held
  <2>7. HeldClaimed'
    BY <2>1, <2>2, <2>4, <2>5, <2>6 DEF HeldClaimed, Held
  <2>8. QED
    BY <2>3, <2>7
<1>4. ProgressSound' /\ MigrationSound'
  <2>1. \A t \in Servers : wdone'[t] = wdone[t] \/ wdone'[t] = 0
    BY DEF Finish, TypeOK, WorkerTypeOK
  <2>2. \A t \in Servers : wpc'[t] = "record" => wdone'[t] = NBatches
    BY DEF Finish, TypeOK, WorkerTypeOK, ProgressSound
  <2>3. QED
    BY <2>1, <2>2, EmptyPrefix DEF Finish, ProgressSound, MigrationSound
<1>5. QED
  BY <1>1, <1>2, <1>3, <1>4

LEMMA FailStep ==
  ASSUME IInv, NEW s \in Servers, Fail(s)
  PROVE  IInv'
<1> USE DEF IInv
<1>1. TypeOK'
  <2>1. status' \in [JobIds -> Status]
    BY DEF Fail, TypeOK, DbTypeOK, Status, Terminal
  <2>2. lastDone' \in [JobIds -> 0..NBatches]
    BY DEF Fail, TypeOK, DbTypeOK, WorkerTypeOK
  <2>3. WorkerTypeOK'
    BY ZeroPosition DEF Fail, TypeOK, WorkerTypeOK
  <2>4. QED
    BY <2>1, <2>2, <2>3 DEF Fail, TypeOK, DbTypeOK, SchedTypeOK
<1>2. Fresh' /\ WedgeKnown'
  BY DEF Fail, TypeOK, DbTypeOK, WorkerTypeOK, SchedTypeOK, Fresh, WedgeKnown,
       MayFail, Active
<1>3. HeldClaimed' /\ ClaimExclusive'
  BY KeepOrRelease DEF Fail, TypeOK, DbTypeOK, WorkerTypeOK, SchedTypeOK,
       HeldClaimed, Held
<1>4. ProgressSound' /\ MigrationSound'
  BY EmptyPrefix DEF Fail, TypeOK, DbTypeOK, WorkerTypeOK, SchedTypeOK,
       ProgressSound, MigrationSound
<1>5. QED
  BY <1>1, <1>2, <1>3, <1>4

LEMMA SchedTickStep ==
  ASSUME IInv, NEW s \in Servers, SchedTick(s)
  PROVE  IInv'
<1> USE DEF IInv
<1>1. TypeOK'
  BY MigrationJobsAssumption, ZeroPosition DEF SchedTick, TypeOK, DbTypeOK,
       WorkerTypeOK, SchedTypeOK, SetNextRunTime
<1>2. Fresh' /\ WedgeKnown'
  BY DEF SchedTick, TypeOK, DbTypeOK, WorkerTypeOK, SchedTypeOK, Fresh,
       WedgeKnown
<1>3. HeldClaimed' /\ ClaimExclusive'
  BY KeepOrRelease DEF SchedTick, TypeOK, DbTypeOK, WorkerTypeOK, SchedTypeOK,
       HeldClaimed, Held, ClaimExclusive, Holds
<1>4. ProgressSound' /\ MigrationSound'
  BY EmptyPrefix DEF SchedTick, TypeOK, DbTypeOK, WorkerTypeOK, SchedTypeOK,
       ProgressSound, MigrationSound
<1>5. QED
  BY <1>1, <1>2, <1>3, <1>4

LEMMA SchedListStep ==
  ASSUME IInv, NEW s \in Servers, SchedList(s)
  PROVE  IInv'
<1> USE DEF IInv
<1>1. TypeOK'
  <2>1. created = NoJob \/ created \in JobIds
    BY DEF TypeOK, DbTypeOK, NoJob, JobIds
  <2>2. sdone' \in [Servers -> 0..NBatches]
    BY <2>1, ZeroPosition
       DEF SchedList, TypeOK, DbTypeOK, SchedTypeOK, ResumeAt, Waiting, NoJob
  <2>3. sjob' \in [Servers -> JobIds \union {NoJob}]
    BY <2>1 DEF SchedList, TypeOK, SchedTypeOK
  <2>4. nextRun' \in [Servers -> BOOLEAN]
    BY DEF SchedList, SetNextRunTime, TypeOK, SchedTypeOK
  <2>5. SchedTypeOK'
    BY <2>2, <2>3, <2>4 DEF SchedList, TypeOK, SchedTypeOK
  <2>6. QED
    BY <2>5 DEF SchedList, TypeOK, DbTypeOK, WorkerTypeOK
<1>2. Fresh' /\ WedgeKnown'
  <2>1. created \in Nat /\ (created > 0 => created \in JobIds)
    BY MigrationJobsAssumption DEF TypeOK, DbTypeOK, JobIds
  <2>2. \A t \in Servers : spc'[t] = "wedge" =>
          \/ spc[t] = "wedge" /\ sjob'[t] = sjob[t]
          \/ sjob'[t] = created /\ Waiting(created)
    BY DEF SchedList, TypeOK, SchedTypeOK
  <2>3. UNCHANGED <<status, created>>
    BY DEF SchedList
  <2>4. QED
    BY <2>1, <2>2, <2>3 DEF Fresh, WedgeKnown, Waiting
<1>3. HeldClaimed' /\ ClaimExclusive'
  BY KeepOrRelease DEF SchedList, TypeOK, DbTypeOK, WorkerTypeOK, SchedTypeOK,
       HeldClaimed, Held, ClaimExclusive, Holds
<1>4. ProgressSound' /\ MigrationSound'
  <2>1. created = NoJob \/ created \in JobIds
    BY DEF TypeOK, DbTypeOK, NoJob, JobIds
  <2>2. \A t \in Servers :
          \/ sdone'[t] = sdone[t] \/ sdone'[t] = 0
          \/ \E j \in JobIds : sdone'[t] = lastDone[j]
    BY <2>1 DEF SchedList, TypeOK, SchedTypeOK, ResumeAt, NoJob
  <2>3. QED
    BY <2>2, EmptyPrefix DEF SchedList, ProgressSound, MigrationSound
<1>5. QED
  BY <1>1, <1>2, <1>3, <1>4

LEMMA SchedWedgeStep ==
  ASSUME IInv, NEW s \in Servers, SchedWedge(s)
  PROVE  IInv'
<1> USE DEF IInv
<1>1. TypeOK'
  BY MigrationJobsAssumption, ZeroPosition DEF SchedWedge, TypeOK, DbTypeOK,
       WorkerTypeOK, SchedTypeOK, Status, Terminal
<1>2. Fresh' /\ WedgeKnown'
  <2>1. sjob[s] \in JobIds /\ sjob[s] <= created
    BY DEF SchedWedge, WedgeKnown
  <2>2. \A j \in JobIds : j > created => j # sjob[s]
    BY <2>1, MigrationJobsAssumption DEF TypeOK, DbTypeOK, JobIds
  <2>3. \A j \in JobIds : j # sjob[s] => status'[j] = status[j]
    BY DEF SchedWedge, TypeOK, DbTypeOK
  <2>4. Fresh'
    BY <2>2, <2>3 DEF SchedWedge, Fresh
  <2>5. WedgeKnown'
    BY DEF SchedWedge, WedgeKnown, TypeOK, SchedTypeOK
  <2>6. QED
    BY <2>4, <2>5
<1>3. HeldClaimed' /\ ClaimExclusive'
  <2>1. UNCHANGED <<wpc, wjob>>
    BY DEF SchedWedge
  <2>2. \A j \in JobIds : status'[j] = status[j] \/ status'[j] = "error"
    BY DEF SchedWedge, TypeOK, DbTypeOK
  <2>3. HeldClaimed'
    BY <2>1, <2>2 DEF HeldClaimed, Held
  <2>4. QED
    BY <2>1, <2>3, KeepOrRelease
<1>4. ProgressSound' /\ MigrationSound'
  BY EmptyPrefix DEF SchedWedge, TypeOK, DbTypeOK, WorkerTypeOK, SchedTypeOK,
       ProgressSound, MigrationSound
<1>5. QED
  BY <1>1, <1>2, <1>3, <1>4

LEMMA SchedCreateStep ==
  ASSUME IInv, NEW s \in Servers, SchedCreate(s)
  PROVE  IInv'
<1> USE DEF IInv
<1>1. TypeOK'
  <2>1. status' \in [JobIds -> Status]
    BY DEF SchedCreate, TypeOK, DbTypeOK, Status
  <2>2. lastDone' \in [JobIds -> 0..NBatches]
    BY DEF SchedCreate, TypeOK, DbTypeOK, SchedTypeOK
  <2>3. created' \in 0..MaxJobs
    BY MigrationJobsAssumption DEF SchedCreate, TypeOK, DbTypeOK
  <2>4. nextRun' \in [Servers -> BOOLEAN]
    BY DEF SchedCreate, SetNextRunTime, TypeOK, SchedTypeOK
  <2>5. SchedTypeOK'
    BY <2>4, ZeroPosition DEF SchedCreate, TypeOK, SchedTypeOK
  <2>6. QED
    BY <2>1, <2>2, <2>3, <2>5
       DEF SchedCreate, TypeOK, DbTypeOK, WorkerTypeOK
<1>2. Fresh' /\ WedgeKnown'
  <2>1. created \in Nat /\ created' \in Nat /\ created <= created'
    BY MigrationJobsAssumption DEF SchedCreate, TypeOK, DbTypeOK
  <2>2. \A j \in JobIds : j > created' => status'[j] = status[j]
    <3>1. CASE UNCHANGED status
      BY <3>1
    <3>2. CASE /\ created' = created + 1
               /\ status' = [status EXCEPT ![created + 1] = "pending"]
      BY <2>1, <3>2 DEF TypeOK, DbTypeOK, JobIds
    <3>3. QED
      BY <3>1, <3>2 DEF SchedCreate
  <2>3. Fresh'
    BY <2>1, <2>2 DEF Fresh, JobIds
  <2>4. \A t \in Servers :
          spc'[t] = "wedge" => spc[t] = "wedge" /\ sjob'[t] = sjob[t]
    BY DEF SchedCreate, TypeOK, SchedTypeOK
  <2>5. WedgeKnown'
    BY <2>1, <2>4 DEF WedgeKnown, JobIds
  <2>6. QED
    BY <2>3, <2>5
<1>3. HeldClaimed' /\ ClaimExclusive'
  <2>1. UNCHANGED <<wpc, wjob>>
    BY DEF SchedCreate
  <2>2. \A j \in JobIds : status[j] # "none" => status'[j] = status[j]
    <3>1. created \in Nat /\ (created < MaxJobs => created + 1 \in JobIds)
      BY MigrationJobsAssumption DEF TypeOK, DbTypeOK, JobIds
    <3>2. QED
      BY <3>1 DEF SchedCreate, TypeOK, DbTypeOK, Fresh
  <2>3. HeldClaimed'
    BY <2>1, <2>2 DEF HeldClaimed, Held
  <2>4. QED
    BY <2>1, <2>3, KeepOrRelease
<1>4. ProgressSound' /\ MigrationSound'
  BY EmptyPrefix DEF SchedCreate, TypeOK, DbTypeOK, WorkerTypeOK, SchedTypeOK,
       ProgressSound, MigrationSound
<1>5. QED
  BY <1>1, <1>2, <1>3, <1>4

LEMMA CrashStep ==
  ASSUME IInv, NEW s \in Servers, Crash(s)
  PROVE  IInv'
<1> USE DEF IInv
<1>1. TypeOK'
  BY MigrationJobsAssumption, ZeroPosition DEF Crash, Forget, TypeOK,
       DbTypeOK, WorkerTypeOK, SchedTypeOK, Event, NoJob
<1>2. Fresh' /\ WedgeKnown'
  BY DEF Crash, Forget, TypeOK, DbTypeOK, WorkerTypeOK, SchedTypeOK, Fresh,
       WedgeKnown
<1>3. HeldClaimed' /\ ClaimExclusive'
  BY KeepOrRelease DEF Crash, Forget, TypeOK, DbTypeOK, WorkerTypeOK,
       SchedTypeOK, HeldClaimed, Held
<1>4. ProgressSound' /\ MigrationSound'
  BY EmptyPrefix DEF Crash, Forget, TypeOK, DbTypeOK, WorkerTypeOK,
       SchedTypeOK, ProgressSound, MigrationSound
<1>5. QED
  BY <1>1, <1>2, <1>3, <1>4

LEMMA StopStep ==
  ASSUME IInv, NEW s \in Servers, Stop(s)
  PROVE  IInv'
<1> USE DEF IInv
<1>1. TypeOK'
  BY MigrationJobsAssumption, ZeroPosition DEF Stop, TypeOK, DbTypeOK,
       WorkerTypeOK, SchedTypeOK, Event
<1>2. Fresh' /\ WedgeKnown'
  BY DEF Stop, TypeOK, DbTypeOK, WorkerTypeOK, SchedTypeOK, Fresh, WedgeKnown
<1>3. HeldClaimed' /\ ClaimExclusive'
  BY KeepOrRelease DEF Stop, TypeOK, DbTypeOK, WorkerTypeOK, SchedTypeOK,
       HeldClaimed, Held, ClaimExclusive, Holds
<1>4. ProgressSound' /\ MigrationSound'
  BY EmptyPrefix DEF Stop, TypeOK, DbTypeOK, WorkerTypeOK, SchedTypeOK,
       ProgressSound, MigrationSound
<1>5. QED
  BY <1>1, <1>2, <1>3, <1>4

LEMMA StopIdleStep ==
  ASSUME IInv, NEW s \in Servers, StopIdle(s)
  PROVE  IInv'
<1> USE DEF IInv
<1>1. TypeOK'
  BY MigrationJobsAssumption, ZeroPosition DEF StopIdle, TypeOK, DbTypeOK,
       WorkerTypeOK, SchedTypeOK
<1>2. Fresh' /\ WedgeKnown'
  BY DEF StopIdle, TypeOK, DbTypeOK, WorkerTypeOK, SchedTypeOK, Fresh,
       WedgeKnown
<1>3. HeldClaimed' /\ ClaimExclusive'
  BY KeepOrRelease DEF StopIdle, TypeOK, DbTypeOK, WorkerTypeOK, SchedTypeOK,
       HeldClaimed, Held, ClaimExclusive, Holds
<1>4. ProgressSound' /\ MigrationSound'
  BY EmptyPrefix DEF StopIdle, TypeOK, DbTypeOK, WorkerTypeOK, SchedTypeOK,
       ProgressSound, MigrationSound
<1>5. QED
  BY <1>1, <1>2, <1>3, <1>4

LEMMA StopSchedulerStep ==
  ASSUME IInv, NEW s \in Servers, StopScheduler(s)
  PROVE  IInv'
<1> USE DEF IInv
<1>1. TypeOK'
  BY MigrationJobsAssumption, ZeroPosition DEF StopScheduler, Forget, TypeOK,
       DbTypeOK, WorkerTypeOK, SchedTypeOK, NoJob
<1>2. Fresh' /\ WedgeKnown'
  BY DEF StopScheduler, Forget, TypeOK, DbTypeOK, WorkerTypeOK, SchedTypeOK,
       Fresh, WedgeKnown
<1>3. HeldClaimed' /\ ClaimExclusive'
  BY KeepOrRelease DEF StopScheduler, Forget, TypeOK, DbTypeOK, WorkerTypeOK,
       SchedTypeOK, HeldClaimed, Held
<1>4. ProgressSound' /\ MigrationSound'
  BY EmptyPrefix DEF StopScheduler, Forget, TypeOK, DbTypeOK, WorkerTypeOK,
       SchedTypeOK, ProgressSound, MigrationSound
<1>5. QED
  BY <1>1, <1>2, <1>3, <1>4

LEMMA StopUnstartedStep ==
  ASSUME IInv, NEW s \in Servers, StopUnstarted(s)
  PROVE  IInv'
<1> USE DEF IInv
<1>1. TypeOK'
  BY MigrationJobsAssumption, ZeroPosition DEF StopUnstarted, TypeOK, DbTypeOK,
       WorkerTypeOK, SchedTypeOK
<1>2. Fresh' /\ WedgeKnown'
  BY DEF StopUnstarted, TypeOK, DbTypeOK, WorkerTypeOK, SchedTypeOK, Fresh,
       WedgeKnown
<1>3. HeldClaimed' /\ ClaimExclusive'
  BY KeepOrRelease DEF StopUnstarted, TypeOK, DbTypeOK, WorkerTypeOK, SchedTypeOK,
       HeldClaimed, Held, ClaimExclusive, Holds
<1>4. ProgressSound' /\ MigrationSound'
  BY EmptyPrefix DEF StopUnstarted, TypeOK, DbTypeOK, WorkerTypeOK, SchedTypeOK,
       ProgressSound, MigrationSound
<1>5. QED
  BY <1>1, <1>2, <1>3, <1>4

LEMMA KillStep ==
  ASSUME IInv, NEW s \in Servers, Kill(s)
  PROVE  IInv'
<1> USE DEF IInv
<1>1. TypeOK'
  BY MigrationJobsAssumption, ZeroPosition DEF Kill, Forget, TypeOK, DbTypeOK,
       WorkerTypeOK, SchedTypeOK, NoJob
<1>2. Fresh' /\ WedgeKnown'
  BY DEF Kill, Forget, TypeOK, DbTypeOK, WorkerTypeOK, SchedTypeOK, Fresh,
       WedgeKnown
<1>3. HeldClaimed' /\ ClaimExclusive'
  BY KeepOrRelease DEF Kill, Forget, TypeOK, DbTypeOK, WorkerTypeOK,
       SchedTypeOK, HeldClaimed, Held
<1>4. ProgressSound' /\ MigrationSound'
  BY EmptyPrefix DEF Kill, Forget, TypeOK, DbTypeOK, WorkerTypeOK,
       SchedTypeOK, ProgressSound, MigrationSound
<1>5. QED
  BY <1>1, <1>2, <1>3, <1>4

LEMMA RestartStep ==
  ASSUME IInv, NEW s \in Servers, Restart(s)
  PROVE  IInv'
<1> USE DEF IInv
<1>1. TypeOK'
  BY MigrationJobsAssumption, ZeroPosition DEF Restart, TypeOK, DbTypeOK,
       WorkerTypeOK, SchedTypeOK, SetNextRunTime
<1>2. Fresh' /\ WedgeKnown'
  BY DEF Restart, TypeOK, DbTypeOK, WorkerTypeOK, SchedTypeOK, Fresh,
       WedgeKnown
<1>3. HeldClaimed' /\ ClaimExclusive'
  BY KeepOrRelease DEF Restart, TypeOK, DbTypeOK, WorkerTypeOK, SchedTypeOK,
       HeldClaimed, Held, ClaimExclusive, Holds
<1>4. ProgressSound' /\ MigrationSound'
  BY EmptyPrefix DEF Restart, TypeOK, DbTypeOK, WorkerTypeOK, SchedTypeOK,
       ProgressSound, MigrationSound
<1>5. QED
  BY <1>1, <1>2, <1>3, <1>4

LEMMA ConfigChangeStep ==
  ASSUME IInv, NEW s \in Servers, ConfigChange(s)
  PROVE  IInv'
<1> USE DEF IInv
<1>1. TypeOK'
  <2>1. nextRun' \in [Servers -> BOOLEAN]
    BY DEF ConfigChange, SetNextRunTime, TypeOK, SchedTypeOK
  <2>2. SchedTypeOK'
    BY <2>1 DEF ConfigChange, TypeOK, SchedTypeOK
  <2>3. events' \in 0..MaxEvents
    BY MigrationJobsAssumption DEF ConfigChange, Event, TypeOK
  <2>4. QED
    BY <2>2, <2>3 DEF ConfigChange, TypeOK, DbTypeOK, WorkerTypeOK
<1>2. Fresh' /\ WedgeKnown'
  BY DEF ConfigChange, TypeOK, DbTypeOK, WorkerTypeOK, SchedTypeOK, Fresh,
       WedgeKnown
<1>3. HeldClaimed' /\ ClaimExclusive'
  BY KeepOrRelease DEF ConfigChange, TypeOK, DbTypeOK, WorkerTypeOK,
       SchedTypeOK, HeldClaimed, Held, ClaimExclusive, Holds
<1>4. ProgressSound' /\ MigrationSound'
  BY EmptyPrefix DEF ConfigChange, TypeOK, DbTypeOK, WorkerTypeOK,
       SchedTypeOK, ProgressSound, MigrationSound
<1>5. QED
  BY <1>1, <1>2, <1>3, <1>4

LEMMA LeaderChangeStep ==
  ASSUME IInv, NEW s \in Servers, NEW leads \in BOOLEAN, LeaderChange(s, leads)
  PROVE  IInv'
<1> USE DEF IInv
<1>1. TypeOK'
  <2>1. nextRun' \in [Servers -> BOOLEAN]
    BY DEF LeaderChange, SetNextRunTime, TypeOK, SchedTypeOK
  <2>2. SchedTypeOK'
    BY <2>1 DEF LeaderChange, TypeOK, SchedTypeOK
  <2>3. events' \in 0..MaxEvents
    BY MigrationJobsAssumption DEF LeaderChange, Event, TypeOK
  <2>4. QED
    BY <2>2, <2>3 DEF LeaderChange, TypeOK, DbTypeOK, WorkerTypeOK
<1>2. Fresh' /\ WedgeKnown'
  BY DEF LeaderChange, TypeOK, DbTypeOK, WorkerTypeOK, SchedTypeOK, Fresh,
       WedgeKnown
<1>3. HeldClaimed' /\ ClaimExclusive'
  BY KeepOrRelease DEF LeaderChange, TypeOK, DbTypeOK, WorkerTypeOK,
       SchedTypeOK, HeldClaimed, Held, ClaimExclusive, Holds
<1>4. ProgressSound' /\ MigrationSound'
  BY EmptyPrefix DEF LeaderChange, TypeOK, DbTypeOK, WorkerTypeOK,
       SchedTypeOK, ProgressSound, MigrationSound
<1>5. QED
  BY <1>1, <1>2, <1>3, <1>4

LEMMA GoStaleStep ==
  ASSUME IInv, NEW j \in JobIds, GoStale(j)
  PROVE  IInv'
<1> USE DEF IInv
<1>1. TypeOK'
  BY MigrationJobsAssumption, ZeroPosition DEF GoStale, TypeOK, DbTypeOK,
       WorkerTypeOK, SchedTypeOK
<1>2. Fresh' /\ WedgeKnown'
  BY DEF GoStale, TypeOK, DbTypeOK, WorkerTypeOK, SchedTypeOK, Fresh,
       WedgeKnown
<1>3. HeldClaimed' /\ ClaimExclusive'
  BY KeepOrRelease DEF GoStale, TypeOK, DbTypeOK, WorkerTypeOK, SchedTypeOK,
       HeldClaimed, Held, ClaimExclusive, Holds
<1>4. ProgressSound' /\ MigrationSound'
  BY EmptyPrefix DEF GoStale, TypeOK, DbTypeOK, WorkerTypeOK, SchedTypeOK,
       ProgressSound, MigrationSound
<1>5. QED
  BY <1>1, <1>2, <1>3, <1>4

LEMMA RequestCancellationStep ==
  ASSUME IInv, NEW j \in JobIds, RequestCancellation(j)
  PROVE  IInv'
<1> USE DEF IInv
<1>1. TypeOK'
  BY MigrationJobsAssumption, ZeroPosition DEF RequestCancellation, TypeOK,
       DbTypeOK, WorkerTypeOK, SchedTypeOK, Status, Active, Terminal, Event
<1>2. Fresh' /\ WedgeKnown'
  BY DEF RequestCancellation, TypeOK, DbTypeOK, WorkerTypeOK, SchedTypeOK,
       Fresh, WedgeKnown
<1>3. HeldClaimed' /\ ClaimExclusive'
  <2>1. UNCHANGED <<wpc, wjob>>
    BY DEF RequestCancellation
  <2>2. \A k \in JobIds :
          \/ status'[k] = status[k]
          \/ status[k] = "pending"
          \/ status'[k] = "cancel_requested"
    BY DEF RequestCancellation, TypeOK, DbTypeOK
  <2>3. HeldClaimed'
    BY <2>1, <2>2 DEF HeldClaimed, Held
  <2>4. QED
    BY <2>1, <2>3, KeepOrRelease
<1>4. ProgressSound' /\ MigrationSound'
  BY EmptyPrefix DEF RequestCancellation, TypeOK, DbTypeOK, WorkerTypeOK,
       SchedTypeOK, ProgressSound, MigrationSound
<1>5. QED
  BY <1>1, <1>2, <1>3, <1>4

----------------------------------------------------------------------------

LEMMA StutterStep ==
  ASSUME IInv, UNCHANGED vars
  PROVE  IInv'
BY DEF IInv, vars, TypeOK, DbTypeOK, WorkerTypeOK, SchedTypeOK, Fresh,
       HeldClaimed, WedgeKnown, ClaimExclusive, Holds, ProgressSound,
       MigrationSound

LEMMA NextIInv == IInv /\ [Next]_vars => IInv'
<1> SUFFICES ASSUME IInv, [Next]_vars PROVE IInv'
  OBVIOUS
<1>1. ASSUME NEW s \in Servers, WorkerStep(s) PROVE IInv'
  BY <1>1, WatcherPollStep, WatcherSendStep, ClaimStep, CancelWatchStep,
     CancelJobStep, StopJobStep, BeginBatchStep, RunBatchStep,
     SaveProgressStep, RecordMigrationStep, FinishStep, FailStep
     DEF WorkerStep
<1>2. ASSUME NEW s \in Servers, SchedStep(s) PROVE IInv'
  BY <1>2, SchedTickStep, SchedListStep, SchedWedgeStep, SchedCreateStep
     DEF SchedStep
<1>3. ASSUME NEW s \in Servers, Lifecycle(s) PROVE IInv'
  BY <1>3, CrashStep, StopStep, StopIdleStep, StopSchedulerStep,
     StopUnstartedStep, KillStep, RestartStep DEF Lifecycle
<1>4. ASSUME NEW s \in Servers,
             ConfigChange(s) \/ \E leads \in BOOLEAN : LeaderChange(s, leads)
      PROVE  IInv'
  BY <1>4, ConfigChangeStep, LeaderChangeStep
<1>5. ASSUME NEW j \in JobIds, GoStale(j) \/ RequestCancellation(j)
      PROVE  IInv'
  BY <1>5, GoStaleStep, RequestCancellationStep
<1>6. QED
  BY <1>1, <1>2, <1>3, <1>4, <1>5, StutterStep DEF Next

\* The inductive invariant holds in every reachable state.
THEOREM Invariance == Spec => []IInv
BY InitIInv, NextIInv, PTL DEF Spec

\* The variables keep their types.
THEOREM TypeCorrect == Spec => []TypeOK
<1>1. IInv => TypeOK
  BY DEF IInv
<1>2. QED
  BY <1>1, Invariance, PTL

\* No two workers ever run the same job (JobServer.ClaimJob).
THEOREM ClaimsExclusive == Spec => []ClaimExclusive
<1>1. IInv => ClaimExclusive
  BY DEF IInv
<1>2. QED
  BY <1>1, Invariance, PTL

\* The Systems row is written only after every batch has been run, through
\* any number of crashes, wedged jobs and failed statements.
THEOREM MigrationIsSound == Spec => []MigrationSound
<1>1. IInv => MigrationSound
  BY DEF IInv
<1>2. QED
  BY <1>1, Invariance, PTL

----------------------------------------------------------------------------
(* What a step does to the status of a job.                                *)

\* The changes of status the statements of the job store can make.
Changes(j) ==
  \/ status'[j] = status[j]
  \/ status[j] = "none" /\ status'[j] = "pending"
  \/ status[j] = "pending" /\ status'[j] \in {"in_progress", "canceled"}
  \/ status[j] = "in_progress" /\ status'[j] = "cancel_requested"
  \/ /\ status[j] \in Active \union {"error"}
     /\ status'[j] \in Terminal
     /\ \E s \in Servers : Holds(s, j)
  \/ /\ status'[j] = "error"
     /\ \E s \in Servers : spc[s] = "wedge" /\ sjob[s] = j

LEMMA StepChanges ==
  ASSUME IInv, [Next]_vars
  PROVE  \A j \in JobIds : Changes(j)
<1> USE DEF IInv
<1>1. CASE UNCHANGED status
  BY <1>1 DEF Changes
<1>2. ASSUME NEW s \in Servers, Claim(s), status' # status
      PROVE  \A j \in JobIds : Changes(j)
  BY <1>2 DEF Claim, MayClaim, Changes, TypeOK, DbTypeOK
<1>3. ASSUME NEW s \in Servers, CancelJob(s) \/ StopJob(s)
      PROVE  \A j \in JobIds : Changes(j)
  <2>1. status[wjob[s]] \in Active \union {"error"} /\ Holds(s, wjob[s])
    BY <1>3 DEF CancelJob, StopJob, HeldClaimed, Holds, Held, Active
  <2>2. \A j \in JobIds :
          \/ status'[j] = status[j]
          \/ j = wjob[s] /\ status'[j] = "canceled"
    BY <1>3 DEF CancelJob, StopJob, SetJobCanceled, TypeOK, DbTypeOK
  <2>3. QED
    BY <2>1, <2>2 DEF Changes, Terminal
<1>4. ASSUME NEW s \in Servers, SaveProgress(s)
      PROVE  \A j \in JobIds : Changes(j)
  BY <1>4 DEF SaveProgress, MaySave, Changes, TypeOK, DbTypeOK
<1>5. ASSUME NEW s \in Servers, Finish(s) \/ Fail(s)
      PROVE  \A j \in JobIds : Changes(j)
  <2>1. /\ Holds(s, wjob[s])
        /\ status' = status \/ status[wjob[s]] \in Active \union {"error"}
    BY <1>5 DEF Finish, Fail, MayFail, HeldClaimed, Holds, Held, Active
  <2>2. \A j \in JobIds :
          \/ status'[j] = status[j]
          \/ j = wjob[s] /\ status'[j] \in {"success", "error"}
    BY <1>5 DEF Finish, Fail, TypeOK, DbTypeOK
  <2>3. QED
    BY <2>1, <2>2 DEF Changes, Terminal
<1>6. ASSUME NEW s \in Servers, SchedWedge(s)
      PROVE  \A j \in JobIds : Changes(j)
  <2>1. \A j \in JobIds :
          \/ status'[j] = status[j]
          \/ j = sjob[s] /\ status'[j] = "error"
    BY <1>6 DEF SchedWedge, TypeOK, DbTypeOK
  <2>2. spc[s] = "wedge"
    BY <1>6 DEF SchedWedge
  <2>3. QED
    BY <2>1, <2>2 DEF Changes
<1>7. ASSUME NEW s \in Servers, SchedCreate(s)
      PROVE  \A j \in JobIds : Changes(j)
  <2>1. created \in Nat /\ (created < MaxJobs => created + 1 \in JobIds)
    BY MigrationJobsAssumption DEF TypeOK, DbTypeOK, JobIds
  <2>2. QED
    BY <1>7, <2>1 DEF SchedCreate, Changes, Fresh, TypeOK, DbTypeOK
<1>8. ASSUME NEW j \in JobIds, RequestCancellation(j)
      PROVE  \A k \in JobIds : Changes(k)
  BY <1>8 DEF RequestCancellation, Changes, TypeOK, DbTypeOK
<1>9. CASE \E s \in Servers :
        \/ WatcherPoll(s) \/ WatcherSend(s) \/ CancelWatch(s)
        \/ BeginBatch(s) \/ RunBatch(s) \/ RecordMigration(s)
        \/ SchedTick(s) \/ SchedList(s) \/ Lifecycle(s) \/ ConfigChange(s)
        \/ \E leads \in BOOLEAN : LeaderChange(s, leads)
  <2>1. UNCHANGED status
    BY <1>9
       DEF WatcherPoll, WatcherSend, CancelWatch, BeginBatch, RunBatch,
           RecordMigration, SchedTick, SchedList, Lifecycle, Crash, Stop,
           StopIdle, StopScheduler, StopUnstarted, Kill, Restart, ConfigChange,
           LeaderChange
  <2>2. QED
    BY <1>1, <2>1
<1>10. ASSUME NEW j \in JobIds, GoStale(j)
       PROVE  UNCHANGED status
  BY <1>10 DEF GoStale
<1>11. QED
  BY <1>1, <1>2, <1>3, <1>4, <1>5, <1>6, <1>7, <1>8, <1>9, <1>10
     DEF Next, WorkerStep, SchedStep, vars

\* An ended job never waits or runs again, an active one is never offered
\* again, whatever late write arrives.
THEOREM NeverReactivates == Spec => NeverReactivated
<1>1. IInv /\ [Next]_vars =>
        [\A j \in JobIds :
           /\ status[j] \in Terminal => status'[j] \in Terminal
           /\ status[j] \in Active => status'[j] \notin {"none", "pending"}]_vars
  BY StepChanges DEF Changes, Terminal, Active
<1>2. QED
  BY <1>1, Invariance, PTL DEF Spec, NeverReactivated

\* A verdict is revised only by a late wedge decision or by the worker of a
\* job that was declared wedged.
THEOREM VerdictsStand == Spec => VerdictStands
<1>1. IInv /\ [Next]_vars =>
        [\A j \in JobIds :
           status[j] \in Terminal /\ status'[j] # status[j] =>
             \/ /\ status[j] # "error" /\ status'[j] = "error"
                /\ \E s \in Servers : spc[s] = "wedge" /\ sjob[s] = j
             \/ /\ status[j] = "error"
                /\ \E s \in Servers : Holds(s, j)]_vars
  BY StepChanges DEF Changes, Terminal, Active
<1>2. QED
  BY <1>1, Invariance, PTL DEF Spec, VerdictStands

\* The cluster of servers implements the abstract migration.
THEOREM Refinement == Spec => ImplementsMigration
<1>1. Init => Migration!Init
  BY DEF Init, Migration!Init
<1>2. ASSUME IInv, [Next]_vars
      PROVE  [Migration!Next]_(Migration!vars)
  <2> USE DEF IInv
  <2>1. ASSUME NEW s \in Servers, RunBatch(s)
        PROVE  [Migration!Next]_(Migration!vars)
    <3>1. CASE UNCHANGED <<migrated, wdone>>
      BY <2>1, <3>1 DEF RunBatch, Migration!vars
    <3>2. CASE /\ ~NoMoreRows(wdone[s])
               /\ migrated' = migrated \union {wdone[s] + 1}
      <4>1. wdone[s] \in 0..NBatches /\ NBatches \in Nat
        BY <1>2, MigrationJobsAssumption DEF TypeOK, WorkerTypeOK
      <4>2. wdone[s] + 1 \in 1..NBatches /\ (wdone[s] + 1) - 1 = wdone[s]
        BY <3>2, <4>1 DEF NoMoreRows
      <4>3. Migration!Apply(wdone[s] + 1)
        BY <1>2, <2>1, <3>2, <4>2 DEF RunBatch, ProgressSound, Migration!Apply
      <4>4. QED
        BY <4>2, <4>3 DEF Migration!Next
    <3>3. QED
      BY <2>1, <3>1, <3>2 DEF RunBatch
  <2>2. ASSUME NEW s \in Servers, RecordMigration(s)
        PROVE  [Migration!Next]_(Migration!vars)
    <3>1. migrated = 1..NBatches
      BY <1>2, <2>2 DEF RecordMigration, ProgressSound, TypeOK, DbTypeOK
    <3>2. CASE UNCHANGED completed
      BY <2>2, <3>2 DEF RecordMigration, Migration!vars
    <3>3. CASE ~completed /\ completed' = TRUE
      BY <2>2, <3>1, <3>3
         DEF RecordMigration, Migration!Next, Migration!Record
    <3>4. QED
      BY <2>2, <3>2, <3>3 DEF RecordMigration
  <2>3. CASE UNCHANGED <<migrated, completed>>
    BY <2>3 DEF Migration!vars
  <2>4. ASSUME NEW s \in Servers,
               \/ WatcherPoll(s) \/ WatcherSend(s) \/ Claim(s)
               \/ CancelWatch(s) \/ CancelJob(s) \/ StopJob(s)
               \/ BeginBatch(s) \/ SaveProgress(s) \/ Finish(s) \/ Fail(s)
        PROVE  UNCHANGED <<migrated, completed>>
    BY <2>4
       DEF WatcherPoll, WatcherSend, Claim, CancelWatch, CancelJob, StopJob,
           SetJobCanceled, BeginBatch, SaveProgress, Finish, Fail
  <2>5. ASSUME NEW s \in Servers,
               \/ SchedStep(s) \/ Lifecycle(s) \/ ConfigChange(s)
               \/ \E leads \in BOOLEAN : LeaderChange(s, leads)
        PROVE  UNCHANGED <<migrated, completed>>
    BY <2>5
       DEF SchedStep, SchedTick, SchedList, SchedWedge, SchedCreate,
           Lifecycle, Crash, Stop, StopIdle, StopScheduler, StopUnstarted,
           Kill, Restart, ConfigChange, LeaderChange
  <2>6. ASSUME NEW j \in JobIds, GoStale(j) \/ RequestCancellation(j)
        PROVE  UNCHANGED <<migrated, completed>>
    BY <2>6 DEF GoStale, RequestCancellation
  <2>7. QED
    BY <1>2, <2>1, <2>2, <2>3, <2>4, <2>5, <2>6 DEF Next, WorkerStep, vars
<1>3. QED
  BY <1>1, <1>2, Invariance, PTL DEF Spec, ImplementsMigration, Migration!Spec
----------------------------------------------------------------------------
(* Who runs a job.                                                         *)

\* A worker holds what it held, or has just claimed it.
LEMMA StepHolds ==
  ASSUME IInv, [Next]_vars
  PROVE  \A t \in Servers : \A j \in JobIds :
           Holds(t, j)' => Holds(t, j) \/ status[j] = "pending"
<1> USE DEF IInv, TypeOK, WorkerTypeOK
<1>1. CASE UNCHANGED <<wpc, wjob>>
  BY <1>1 DEF Holds
<1>2. ASSUME NEW s \in Servers, Claim(s)
      PROVE  \A t \in Servers : \A j \in JobIds :
               Holds(t, j)' => Holds(t, j) \/ status[j] = "pending"
  BY <1>2 DEF Claim, MayClaim, Holds, Held
<1>3. ASSUME NEW s \in Servers,
             \/ CancelJob(s) \/ StopJob(s) \/ BeginBatch(s) \/ RunBatch(s)
             \/ SaveProgress(s) \/ RecordMigration(s) \/ Finish(s) \/ Fail(s)
      PROVE  \A t \in Servers : \A j \in JobIds : Holds(t, j)' => Holds(t, j)
  BY <1>3 DEF CancelJob, StopJob, SetJobCanceled, BeginBatch, RunBatch,
       SaveProgress, RecordMigration, Finish, Fail, Holds, Held
<1>4. ASSUME NEW s \in Servers, WatcherSend(s)
      PROVE  \A t \in Servers : \A j \in JobIds : Holds(t, j)' => Holds(t, j)
  BY <1>4 DEF WatcherSend, Holds, Held
<1>5. ASSUME NEW s \in Servers, Forget(s)
      PROVE  \A t \in Servers : \A j \in JobIds : Holds(t, j)' => Holds(t, j)
  BY <1>5 DEF Forget, Holds, Held
<1>6. ASSUME NEW s \in Servers,
             \/ WatcherPoll(s) \/ CancelWatch(s) \/ SchedStep(s)
             \/ Stop(s) \/ StopIdle(s) \/ StopUnstarted(s) \/ Restart(s)
             \/ ConfigChange(s) \/ \E leads \in BOOLEAN : LeaderChange(s, leads)
      PROVE  UNCHANGED <<wpc, wjob>>
  BY <1>6 DEF WatcherPoll, CancelWatch, SchedStep, SchedTick, SchedList,
       SchedWedge, SchedCreate, Stop, StopIdle, StopUnstarted, Restart,
       ConfigChange, LeaderChange
<1>7. ASSUME NEW j \in JobIds, GoStale(j) \/ RequestCancellation(j)
      PROVE  UNCHANGED <<wpc, wjob>>
  BY <1>7 DEF GoStale, RequestCancellation
<1>8. QED
  BY <1>1, <1>2, <1>3, <1>4, <1>5, <1>6, <1>7
     DEF Next, WorkerStep, Lifecycle, Crash, StopScheduler, Kill, vars

\* A server that stops offers nothing, and gets further only when its worker
\* is idle.
Drained ==
  \A s \in Servers :
    /\ server[s] # "up" => offered[s] = {}
    /\ server[s] \in {"draining", "hung", "down"} => wpc[s] = "idle"

LEMMA DrainedStep ==
  ASSUME IInv, Drained, [Next]_vars
  PROVE  Drained'
<1> USE DEF IInv, TypeOK, WorkerTypeOK
<1>1. CASE UNCHANGED <<server, offered, wpc>>
  BY <1>1 DEF Drained
<1>2. ASSUME NEW s \in Servers, WatcherPoll(s) \/ WatcherSend(s)
      PROVE  Drained'
  BY <1>2 DEF WatcherPoll, WatcherSend, Drained
<1>3. ASSUME NEW s \in Servers,
             \/ Claim(s) \/ BeginBatch(s) \/ RunBatch(s) \/ SaveProgress(s)
             \/ RecordMigration(s) \/ Finish(s) \/ Fail(s) \/ CancelJob(s)
      PROVE  Drained'
  <2>1. wpc[s] # "idle" /\ UNCHANGED <<server, offered>>
    BY <1>3 DEF Claim, BeginBatch, RunBatch, SaveProgress, RecordMigration,
         Finish, Fail, CancelJob, SetJobCanceled
  <2>2. \A t \in Servers : t # s => wpc'[t] = wpc[t]
    BY <1>3 DEF Claim, BeginBatch, RunBatch, SaveProgress, RecordMigration,
         Finish, Fail, CancelJob, SetJobCanceled
  <2>3. QED
    BY <2>1, <2>2 DEF Drained
<1>4. ASSUME NEW s \in Servers, StopJob(s)
      PROVE  Drained'
  BY <1>4 DEF StopJob, SetJobCanceled, Drained
<1>5. ASSUME NEW s \in Servers, Forget(s)
      PROVE  Drained'
  BY <1>5 DEF Forget, Drained
<1>6. ASSUME NEW s \in Servers,
             Stop(s) \/ StopIdle(s) \/ StopUnstarted(s) \/ Restart(s)
      PROVE  Drained'
  BY <1>6 DEF Stop, StopIdle, StopUnstarted, Restart, Drained
<1>7. ASSUME NEW s \in Servers,
             \/ CancelWatch(s) \/ SchedStep(s) \/ ConfigChange(s)
             \/ \E leads \in BOOLEAN : LeaderChange(s, leads)
      PROVE  UNCHANGED <<server, offered, wpc>>
  BY <1>7 DEF CancelWatch, SchedStep, SchedTick, SchedList, SchedWedge,
       SchedCreate, ConfigChange, LeaderChange
<1>8. ASSUME NEW j \in JobIds, GoStale(j) \/ RequestCancellation(j)
      PROVE  UNCHANGED <<server, offered, wpc>>
  BY <1>8 DEF GoStale, RequestCancellation
<1>9. QED
  BY <1>1, <1>2, <1>3, <1>4, <1>5, <1>6, <1>7, <1>8
     DEF Next, WorkerStep, Lifecycle, Crash, StopScheduler, Kill, vars

\* A job that is active after a step was active, and is held by those that
\* held it, or is held by somebody else now.
LEMMA StaysAlive ==
  ASSUME ExecutorAlive,
         \A j \in JobIds : status'[j] \in Active =>
           \/ /\ status[j] \in Active
              /\ \A t \in Servers : Holds(t, j) => Holds(t, j)'
           \/ \E t \in Servers : Holds(t, j)'
  PROVE  ExecutorAlive'
BY DEF ExecutorAlive

LEMMA AliveStep ==
  ASSUME IInv, Drained, ExecutorAlive, [Next]_vars,
         "crash" \notin Events, ~QueryFails
  PROVE  ExecutorAlive'
<1> USE DEF IInv, TypeOK, DbTypeOK, WorkerTypeOK
<1>1. CASE UNCHANGED <<status, wpc, wjob>>
  BY <1>1 DEF ExecutorAlive, Holds
<1>2. ASSUME NEW s \in Servers, WatcherSend(s)
      PROVE  ExecutorAlive'
  BY <1>2, StaysAlive DEF WatcherSend, Holds, Held
<1>3. ASSUME NEW s \in Servers, Claim(s)
      PROVE  ExecutorAlive'
  <2>1. wjob[s] \in JobIds
    BY <1>3 DEF Claim, HeldClaimed
  <2>2. CASE /\ status' = [status EXCEPT ![wjob[s]] = "in_progress"]
             /\ GotoW(s, "select")
    <3>1. \A j \in JobIds : j = wjob[s] => Holds(s, j)'
      BY <2>2 DEF Holds, Held
    <3>2. \A j \in JobIds : j # wjob[s] => status'[j] = status[j]
      BY <2>2
    <3>3. \A j \in JobIds : \A t \in Servers : Holds(t, j) => Holds(t, j)'
      BY <2>2 DEF Holds, Held
    <3>4. QED
      BY <2>1, <3>1, <3>2, <3>3, StaysAlive
  <2>3. CASE Leave(s) /\ UNCHANGED status
    BY <1>3, <2>3, StaysAlive DEF Claim, Holds, Held
  <2>4. QED
    BY <1>3, <2>2, <2>3 DEF Claim
<1>4. ASSUME NEW s \in Servers,
             CancelJob(s) \/ StopJob(s) \/ Finish(s) \/ Fail(s)
      PROVE  ExecutorAlive'
  <2>1. wjob[s] \in JobIds /\ status'[wjob[s]] \notin Active
    BY <1>4 DEF CancelJob, StopJob, SetJobCanceled, Finish, Fail, MayFail,
         HeldClaimed, Active, Held
  <2>2. \A j \in JobIds : j # wjob[s] => status'[j] = status[j]
    BY <1>4 DEF CancelJob, StopJob, SetJobCanceled, Finish, Fail
  <2>3. \A j \in JobIds : \A t \in Servers :
          j # wjob[s] /\ Holds(t, j) => Holds(t, j)'
    BY <1>4 DEF CancelJob, StopJob, SetJobCanceled, Finish, Fail, Holds
  <2>4. QED
    BY <2>1, <2>2, <2>3, StaysAlive
<1>5. ASSUME NEW s \in Servers,
             \/ BeginBatch(s) \/ RunBatch(s) \/ SaveProgress(s)
             \/ RecordMigration(s)
      PROVE  ExecutorAlive'
  <2>1. \A j \in JobIds : status'[j] = status[j]
    BY <1>5 DEF BeginBatch, RunBatch, SaveProgress, MaySave, RecordMigration
  <2>2. \A j \in JobIds : \A t \in Servers : Holds(t, j) => Holds(t, j)'
    BY <1>5 DEF BeginBatch, RunBatch, SaveProgress, RecordMigration, Holds, Held
  <2>3. QED
    BY <2>1, <2>2, StaysAlive
<1>6. ASSUME NEW s \in Servers, SchedStep(s)
      PROVE  ExecutorAlive'
  <2>1. \A j \in JobIds : status'[j] \in Active => status[j] \in Active
    BY <1>6 DEF SchedStep, SchedTick, SchedList, SchedWedge, SchedCreate, Active
  <2>2. UNCHANGED <<wpc, wjob>>
    BY <1>6 DEF SchedStep, SchedTick, SchedList, SchedWedge, SchedCreate
  <2>3. QED
    BY <2>1, <2>2, StaysAlive DEF Holds
<1>7. ASSUME NEW s \in Servers, Forget(s), server[s] \in {"draining", "hung"},
             UNCHANGED status
      PROVE  ExecutorAlive'
  <2>1. wpc[s] \notin Held
    BY <1>7 DEF Drained, Held
  <2>2. \A j \in JobIds : \A t \in Servers : Holds(t, j) => Holds(t, j)'
    BY <1>7, <2>1 DEF Forget, Holds
  <2>3. QED
    BY <1>7, <2>2, StaysAlive
<1>8. ASSUME NEW s \in Servers, Lifecycle(s)
      PROVE  ExecutorAlive'
  <2>1. CASE StopScheduler(s) \/ Kill(s)
    BY <1>7, <2>1 DEF StopScheduler, Kill
  <2>2. CASE Stop(s) \/ StopIdle(s) \/ StopUnstarted(s) \/ Restart(s)
    BY <1>1, <2>2 DEF Stop, StopIdle, StopUnstarted, Restart
  <2>3. ~Crash(s)
    BY DEF Crash, Event
  <2>4. QED
    BY <1>8, <2>1, <2>2, <2>3 DEF Lifecycle
<1>9. ASSUME NEW s \in Servers,
             \/ WatcherPoll(s) \/ CancelWatch(s) \/ ConfigChange(s)
             \/ \E leads \in BOOLEAN : LeaderChange(s, leads)
      PROVE  UNCHANGED <<status, wpc, wjob>>
  BY <1>9 DEF WatcherPoll, CancelWatch, ConfigChange, LeaderChange
<1>10. ASSUME NEW j \in JobIds, GoStale(j)
       PROVE  UNCHANGED <<status, wpc, wjob>>
  BY <1>10 DEF GoStale
<1>11. ASSUME NEW j \in JobIds, RequestCancellation(j)
       PROVE  ExecutorAlive'
  <2>1. \A k \in JobIds : status'[k] \in Active => status[k] \in Active
    BY <1>11 DEF RequestCancellation, Active
  <2>2. UNCHANGED <<wpc, wjob>>
    BY <1>11 DEF RequestCancellation
  <2>3. QED
    BY <2>1, <2>2, StaysAlive DEF Holds
<1>12. QED
  BY <1>1, <1>2, <1>3, <1>4, <1>5, <1>6, <1>8, <1>9, <1>10, <1>11
     DEF Next, WorkerStep, vars

\* Where no server crashes and no statement fails, a job shown as running is
\* run by somebody: the ways out of Worker.DoJob, the shutdown's included, end
\* the job they leave.
THEOREM ExecutorsLive ==
  ASSUME "crash" \notin Events, ~QueryFails
  PROVE  Spec => []ExecutorAlive
<1>1. Init => Drained /\ ExecutorAlive
  BY DEF Init, Drained, ExecutorAlive, Active
<1>2. IInv /\ Drained /\ ExecutorAlive /\ [Next]_vars => Drained' /\ ExecutorAlive'
  BY DrainedStep, AliveStep
<1>3. QED
  BY <1>1, <1>2, Invariance, PTL DEF Spec

----------------------------------------------------------------------------
(* One instance at a time.                                                 *)

\* Job j waits for no worker any more, and if it is shown as running nobody
\* runs it.
Settled(j) ==
  /\ status[j] # "pending"
  /\ status[j] = "in_progress" => \A s \in Servers : ~Holds(s, j)

\* The scheduler creates a job when all that were created before are settled.
\* The one it declares wedged is the last, which the verdict settles; should the
\* write of it fail, servers are prompt and the job was settled already.
Scheduling ==
  /\ \A j \in JobIds : j <= created => status[j] # "none"
  /\ \A j \in JobIds : j < created => Settled(j)
  /\ \A s \in Servers :
       /\ spc[s] = "create" /\ created > 0 => Settled(created)
       /\ spc[s] = "wedge" => sjob[s] = created /\ (Prompt => Settled(created))
  /\ Prompt => \A j \in JobIds : stale[j] => status[j] # "none" /\ Settled(j)
  /\ \A s \in Servers : spc[s] # "idle" => s \in RunScheduler

\* What is settled stays settled: a claim needs a pending job.
LEMMA StaysSettled ==
  ASSUME IInv, [Next]_vars, NEW j \in JobIds, Settled(j), status[j] # "none"
  PROVE  Settled(j)' /\ status'[j] # "none"
<1>1. Changes(j)
  BY StepChanges
<1>2. \A t \in Servers : Holds(t, j)' => Holds(t, j)
  BY StepHolds DEF Settled
<1>3. status'[j] # "pending" /\ status'[j] # "none"
  BY <1>1 DEF Changes, Settled, Terminal
<1>4. status'[j] = "in_progress" => status[j] = "in_progress"
  BY <1>1 DEF Changes, Settled, Terminal
<1>5. QED
  BY <1>2, <1>3, <1>4 DEF Settled

\* Only the creation of a job adds one.
LEMMA StepCreates ==
  ASSUME IInv, [Next]_vars
  PROVE  \/ created' = created
         \/ \E s \in Servers : SchedCreate(s) /\ created' = created + 1
<1>1. ASSUME NEW s \in Servers,
             \/ WorkerStep(s) \/ SchedTick(s) \/ SchedList(s) \/ SchedWedge(s)
             \/ Lifecycle(s) \/ ConfigChange(s)
             \/ \E leads \in BOOLEAN : LeaderChange(s, leads)
      PROVE  created' = created
  BY <1>1
     DEF WorkerStep, WatcherPoll, WatcherSend, Claim, CancelWatch, CancelJob,
         StopJob, SetJobCanceled, BeginBatch, RunBatch, SaveProgress,
         RecordMigration, Finish, Fail, SchedTick, SchedList, SchedWedge,
         Lifecycle, Crash, Stop, StopIdle, StopScheduler, StopUnstarted, Kill,
         Restart, ConfigChange, LeaderChange
<1>2. ASSUME NEW j \in JobIds, GoStale(j) \/ RequestCancellation(j)
      PROVE  created' = created
  BY <1>2 DEF GoStale, RequestCancellation
<1>3. ASSUME NEW s \in Servers, SchedCreate(s)
      PROVE  created' = created \/ created' = created + 1
  BY <1>3 DEF SchedCreate
<1>4. QED
  BY <1>1, <1>2, <1>3 DEF Next, SchedStep, vars

\* A scheduler gets where it decides only through its own steps, and only a
\* configured one runs.
LEMMA StepDecides ==
  ASSUME IInv, [Next]_vars
  PROVE  \A s \in Servers :
           /\ spc'[s] # "idle" => spc[s] # "idle" \/ s \in RunScheduler
           /\ spc'[s] = "wedge" =>
                (spc[s] = "wedge" /\ sjob'[s] = sjob[s]) \/ SchedList(s)
           /\ spc'[s] = "create" =>
                spc[s] = "create" \/ SchedList(s) \/ SchedWedge(s)
<1> USE DEF IInv, TypeOK, SchedTypeOK
<1>1. CASE UNCHANGED <<spc, sjob>>
  BY <1>1
<1>2. ASSUME NEW s \in Servers, SchedStep(s)
      PROVE  \A t \in Servers :
               /\ spc'[t] # "idle" => spc[t] # "idle" \/ t \in RunScheduler
               /\ spc'[t] = "wedge" =>
                    (spc[t] = "wedge" /\ sjob'[t] = sjob[t]) \/ SchedList(t)
               /\ spc'[t] = "create" =>
                    spc[t] = "create" \/ SchedList(t) \/ SchedWedge(t)
  <2> USE DEF GotoS, LeaveScheduler
  <2>1. \A t \in Servers \ {s} : spc'[t] = spc[t] /\ sjob'[t] = sjob[t]
    BY <1>2 DEF SchedStep, SchedTick, SchedList, SchedWedge, SchedCreate
  <2>2. CASE SchedTick(s)
    BY <2>1, <2>2 DEF SchedTick, Listens
  <2>3. CASE SchedList(s)
    BY <2>1, <2>3 DEF SchedList
  <2>4. CASE SchedWedge(s)
    BY <2>1, <2>4 DEF SchedWedge
  <2>5. CASE SchedCreate(s)
    BY <2>1, <2>5 DEF SchedCreate
  <2>6. QED
    BY <1>2, <2>2, <2>3, <2>4, <2>5 DEF SchedStep
<1>3. ASSUME NEW s \in Servers, Forget(s)
      PROVE  \A t \in Servers :
               spc'[t] # "idle" => spc'[t] = spc[t] /\ sjob'[t] = sjob[t]
  BY <1>3 DEF Forget
<1>4. ASSUME NEW s \in Servers,
             \/ WorkerStep(s) \/ Stop(s) \/ StopIdle(s) \/ StopUnstarted(s)
             \/ Restart(s) \/ ConfigChange(s)
             \/ \E leads \in BOOLEAN : LeaderChange(s, leads)
      PROVE  UNCHANGED <<spc, sjob>>
  BY <1>4
     DEF WorkerStep, WatcherPoll, WatcherSend, Claim, CancelWatch, CancelJob,
         StopJob, SetJobCanceled, BeginBatch, RunBatch, SaveProgress,
         RecordMigration, Finish, Fail, Stop, StopIdle, StopUnstarted,
         Restart, ConfigChange, LeaderChange
<1>5. ASSUME NEW j \in JobIds, GoStale(j) \/ RequestCancellation(j)
      PROVE  UNCHANGED <<spc, sjob>>
  BY <1>5 DEF GoStale, RequestCancellation
<1>6. QED
  BY <1>1, <1>2, <1>3, <1>4, <1>5
     DEF Next, Lifecycle, Crash, StopScheduler, Kill, vars

\* A job becomes stale only by ageing.
LEMMA StepAges ==
  ASSUME IInv, [Next]_vars
  PROVE  \A j \in JobIds : stale'[j] => stale[j] \/ GoStale(j)
<1> USE DEF IInv, TypeOK, DbTypeOK
<1>1. CASE UNCHANGED stale
  BY <1>1
<1>2. ASSUME NEW s \in Servers,
             \/ Claim(s) \/ CancelJob(s) \/ StopJob(s) \/ SaveProgress(s)
             \/ Finish(s) \/ Fail(s) \/ SchedWedge(s)
      PROVE  \A j \in JobIds : stale'[j] => stale[j]
  BY <1>2 DEF Claim, CancelJob, StopJob, SetJobCanceled, SaveProgress, Finish,
       Fail, SchedWedge
<1>3. ASSUME NEW j \in JobIds, RequestCancellation(j)
      PROVE  \A k \in JobIds : stale'[k] => stale[k]
  BY <1>3 DEF RequestCancellation
<1>4. ASSUME NEW j \in JobIds, GoStale(j)
      PROVE  \A k \in JobIds : stale'[k] => stale[k] \/ GoStale(k)
  BY <1>4 DEF GoStale
<1>5. ASSUME NEW s \in Servers,
             \/ WatcherPoll(s) \/ WatcherSend(s) \/ CancelWatch(s)
             \/ BeginBatch(s) \/ RunBatch(s) \/ RecordMigration(s)
             \/ SchedTick(s) \/ SchedList(s) \/ SchedCreate(s) \/ Lifecycle(s)
             \/ ConfigChange(s) \/ \E leads \in BOOLEAN : LeaderChange(s, leads)
      PROVE  UNCHANGED stale
  BY <1>5
     DEF WatcherPoll, WatcherSend, CancelWatch, BeginBatch, RunBatch,
         RecordMigration, SchedTick, SchedList, SchedCreate, Lifecycle, Crash,
         Stop, StopIdle, StopScheduler, StopUnstarted, Kill, Restart,
         ConfigChange, LeaderChange
<1>6. QED
  BY <1>1, <1>2, <1>3, <1>4, <1>5 DEF Next, WorkerStep, SchedStep, vars

\* With one scheduler, and servers that are prompt or statements that succeed.
LEMMA SchedulingStep ==
  ASSUME IInv, Scheduling, [Next]_vars,
         Prompt \/ ~QueryFails, \A s, t \in RunScheduler : s = t
  PROVE  Scheduling'
<1> USE DEF IInv
<1>1. created \in Nat /\ \A j \in JobIds : j \in Nat /\ j > 0
  BY MigrationJobsAssumption DEF TypeOK, DbTypeOK, JobIds
<1>2. \A s \in Servers : spc'[s] # "idle" => s \in RunScheduler
  BY StepDecides DEF Scheduling
<1>3. Prompt => \A j \in JobIds : stale'[j] => status'[j] # "none" /\ Settled(j)'
  <2> SUFFICES ASSUME Prompt, NEW j \in JobIds, stale'[j]
               PROVE  status'[j] # "none" /\ Settled(j)'
    OBVIOUS
  <2>1. CASE stale[j]
    BY <2>1, StaysSettled DEF Scheduling
  <2>2. CASE GoStale(j)
    <3>1. status[j] = "in_progress" /\ \A s \in Servers : ~Holds(s, j)
      BY <2>2 DEF GoStale, Holds
    <3>2. QED
      BY <3>1, StaysSettled DEF Settled
  <2>3. QED
    BY <2>1, <2>2, StepAges
<1>4. created > 0 => created \in JobIds /\ status[created] # "none"
  BY <1>1, MigrationJobsAssumption DEF Scheduling, TypeOK, DbTypeOK, JobIds
<1>5. ASSUME NEW s \in Servers, spc'[s] = "wedge", created' = created
      PROVE  sjob'[s] = created' /\ (Prompt => Settled(created)')
  <2>1. CASE spc[s] = "wedge" /\ sjob'[s] = sjob[s]
    <3>1. sjob[s] = created /\ created > 0 /\ (Prompt => Settled(created))
      BY <1>1, <2>1 DEF Scheduling, WedgeKnown
    <3>2. QED
      BY <1>4, <1>5, <2>1, <3>1, StaysSettled
  <2>2. CASE SchedList(s)
    <3>1. sjob'[s] = created /\ Waiting(created) /\ Wedged(created)
      BY <1>5, <2>2 DEF SchedList, GotoS, LeaveScheduler, TypeOK, SchedTypeOK
    <3>2. created > 0 /\ (Prompt => Settled(created))
      BY <1>4, <3>1 DEF Waiting, Wedged, Scheduling
    <3>3. QED
      BY <1>4, <1>5, <3>1, <3>2, StaysSettled
  <2>3. QED
    BY <1>5, <2>1, <2>2, StepDecides
<1>6. ASSUME NEW s \in Servers, spc'[s] = "create", created' = created, created > 0
      PROVE  Settled(created)'
  <2>1. CASE Settled(created)
    BY <1>4, <1>6, <2>1, StaysSettled
  <2>2. CASE spc[s] = "create"
    BY <1>6, <2>1, <2>2 DEF Scheduling
  <2>3. CASE SchedList(s)
    <3>1. ~Waiting(created)
      BY <1>6, <2>3 DEF SchedList, GotoS, LeaveScheduler, TypeOK, SchedTypeOK
    <3>2. QED
      BY <1>6, <2>1, <3>1 DEF Waiting, Settled
  <2>4. CASE SchedWedge(s)
    <3>1. sjob[s] = created /\ (Prompt => Settled(created))
      BY <2>4 DEF SchedWedge, Scheduling
    <3>2. status'[created] = "error" \/ Settled(created)
      BY <1>4, <1>6, <2>4, <3>1 DEF SchedWedge, TypeOK, DbTypeOK
    <3>3. QED
      BY <1>6, <2>1, <3>2 DEF Settled
  <2>5. QED
    BY <1>6, <2>2, <2>3, <2>4, StepDecides
<1>7. CASE created' = created
  <2>1. \A j \in JobIds : j <= created => status'[j] # "none"
    BY StepChanges DEF Changes, Scheduling, Terminal
  <2>2. \A j \in JobIds : j < created => Settled(j)'
    BY <1>1, StaysSettled DEF Scheduling
  <2>3. QED
    BY <1>2, <1>3, <1>5, <1>6, <1>7, <2>1, <2>2 DEF Scheduling
<1>8. ASSUME NEW s \in Servers, SchedCreate(s), created' = created + 1
      PROVE  Scheduling'
  <2>1. status' = [status EXCEPT ![created + 1] = "pending"]
    BY <1>1, <1>8 DEF SchedCreate
  <2>2. \A j \in JobIds : j <= created + 1 => status'[j] # "none"
    BY <1>1, <2>1 DEF Scheduling, TypeOK, DbTypeOK
  <2>3. \A j \in JobIds : j < created + 1 => Settled(j)'
    <3> SUFFICES ASSUME NEW j \in JobIds, j <= created PROVE Settled(j)'
      BY <1>1
    <3>1. status[j] # "none"
      BY DEF Scheduling
    <3>2. CASE j = created
      <4>1. spc[s] = "create" /\ created > 0
        BY <1>1, <1>8, <3>2 DEF SchedCreate
      <4>2. QED
        BY <3>1, <3>2, <4>1, StaysSettled DEF Scheduling
    <3>3. CASE j < created
      BY <3>1, <3>3, StaysSettled DEF Scheduling
    <3>4. QED
      BY <1>1, <3>2, <3>3
  <2>4. \A t \in Servers : spc'[t] \notin {"wedge", "create"}
    <3>1. spc[s] = "create" /\ spc'[s] = "idle"
      BY <1>8 DEF SchedCreate, TypeOK, SchedTypeOK
    <3>2. QED
      BY <1>2, <3>1 DEF Scheduling
  <2>5. QED
    BY <1>2, <1>3, <1>8, <2>2, <2>3, <2>4 DEF Scheduling
<1>9. QED
  BY <1>7, <1>8, StepCreates

\* Where one server runs the scheduler, one instance of the migration is in
\* progress at a time, through crashes and cancellations, with servers that may
\* be slow or statements that may fail, but not both: a job is created when the
\* earlier ones are settled (Scheduler.ScheduleJob).
THEOREM OneRuns ==
  ASSUME Prompt \/ ~QueryFails, \A s, t \in RunScheduler : s = t
  PROVE  Spec => []OneInProgress
<1>1. Init => Scheduling
  <2> SUFFICES ASSUME Init PROVE Scheduling
    OBVIOUS
  <2>1. created = 0 /\ \A j \in JobIds : ~(j <= 0) /\ ~(j < 0)
    BY MigrationJobsAssumption DEF Init, JobIds
  <2>2. QED
    BY <2>1 DEF Init, Scheduling
<1>2. IInv /\ Scheduling /\ [Next]_vars => Scheduling'
  BY SchedulingStep
<1>3. IInv /\ Scheduling => OneInProgress
  <2> SUFFICES ASSUME IInv, Scheduling, NEW s \in Servers, NEW t \in Servers,
                      wpc[s] \in Held, status[wjob[s]] = "in_progress",
                      wpc[t] \in Held, status[wjob[t]] = "in_progress"
               PROVE  s = t
    BY DEF OneInProgress
  <2>1. ASSUME NEW u \in Servers, wpc[u] \in Held,
               status[wjob[u]] = "in_progress"
        PROVE  wjob[u] \in JobIds /\ wjob[u] = created
    <3>1. wjob[u] \in JobIds /\ created \in Nat /\ wjob[u] \in Nat
      BY <2>1, MigrationJobsAssumption
         DEF IInv, HeldClaimed, Held, TypeOK, DbTypeOK, JobIds
    <3>2. ~(wjob[u] > created)
      BY <2>1, <3>1 DEF IInv, Fresh
    <3>3. ~(wjob[u] < created)
      BY <2>1, <3>1 DEF Scheduling, Settled, Holds
    <3>4. QED
      BY <3>1, <3>2, <3>3
  <2>2. QED
    BY <2>1 DEF IInv, ClaimExclusive, Holds
<1>4. QED
  BY <1>1, <1>2, <1>3, Invariance, PTL DEF Spec
=============================================================================

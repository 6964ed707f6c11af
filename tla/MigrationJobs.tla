---------------------------- MODULE MigrationJobs ----------------------------
(***************************************************************************)
(* The migrations job of the job server: the scheduler, the watcher, the   *)
(* worker and its cancellation watcher of every server of a cluster, all   *)
(* working on the Jobs and Systems tables of one database.                 *)
(*                                                                         *)
(* The Go channel select of every goroutine is a program counter; each     *)
(* database statement is one step, and everything between two statements   *)
(* belongs to the statement before it.  Time appears only as `stale', the  *)
(* test that a job has shown no activity for an hour.                      *)
(***************************************************************************)
EXTENDS Naturals

CONSTANTS
  Servers,       \* the servers that run jobs
  RunScheduler,  \* those whose JobSettings.RunScheduler is set
  MaxJobs,       \* bound: rows of the Jobs table
  NBatches,      \* positions of the migration, stage changes included
  MaxEvents,     \* bound: events of the environment that are counted
  Events,        \* the kinds of events of a run
  Prompt         \* no step, restart or wait for a worker lasts an hour

EventKinds == {"crash", "stop", "cancel", "leader", "config", "query"}

ASSUME MigrationJobsAssumption ==
  /\ RunScheduler \subseteq Servers
  /\ MaxJobs \in Nat
  /\ NBatches \in Nat
  /\ MaxEvents \in Nat
  /\ Events \subseteq EventKinds
  /\ Prompt \in BOOLEAN

JobIds == 1..MaxJobs      \* in the order of CreateAt
NoJob == 0

Active == {"in_progress", "cancel_requested"}
Terminal == {"success", "error", "canceled"}
Status == {"none", "pending"} \union Active \union Terminal

\* The points of DoJob at which the worker holds a claimed job.
Held == {"select", "batch", "save", "record", "finish", "fail"}

VARIABLES
  status, lastDone, stale,      \* Jobs: one row for each id up to created
  created,
  migrated,                     \* the rows the migration rewrites
  completed,                    \* Systems: the row named after the migration
  server,                       \* the life of each server process
  offered,                      \* watcher: pending jobs still to be sent
  wpc, wjob, wdone,             \* worker: position, job, its last_done
  wcancel,                      \* cancelWatcherChan is closed
  spc, sjob, sdone,             \* scheduler: position, job it read
  allDone,                      \* scheduler: allMigrationsCompleted
  isLeader,
  nextRun,                      \* scheduler: nextRunTimes[idx] # nil
  events                        \* counts the events so far

dbVars == <<status, lastDone, stale, created, migrated, completed>>
jobVars == <<status, lastDone, stale, created>>
workerVars == <<offered, wpc, wjob, wdone, wcancel>>
schedVars == <<spc, sjob, sdone, allDone, isLeader, nextRun>>
vars == <<dbVars, server, workerVars, schedVars, events>>

DbTypeOK ==
  /\ status \in [JobIds -> Status]
  /\ lastDone \in [JobIds -> 0..NBatches]
  /\ stale \in [JobIds -> BOOLEAN]
  /\ created \in 0..MaxJobs
  /\ migrated \subseteq 1..NBatches
  /\ completed \in BOOLEAN

WorkerTypeOK ==
  /\ server \in [Servers -> {"up", "stopping", "draining", "hung", "down"}]
  /\ offered \in [Servers -> SUBSET JobIds]
  /\ wpc \in [Servers -> {"idle", "claim"} \union Held]
  /\ wjob \in [Servers -> JobIds \union {NoJob}]
  /\ wdone \in [Servers -> 0..NBatches]
  /\ wcancel \in [Servers -> BOOLEAN]

SchedTypeOK ==
  /\ spc \in [Servers -> {"idle", "list", "wedge", "create"}]
  /\ sjob \in [Servers -> JobIds \union {NoJob}]
  /\ sdone \in [Servers -> 0..NBatches]
  /\ allDone \in [Servers -> BOOLEAN]
  /\ isLeader \in [Servers -> BOOLEAN]
  /\ nextRun \in [Servers -> BOOLEAN]

TypeOK == DbTypeOK /\ WorkerTypeOK /\ SchedTypeOK /\ events \in 0..MaxEvents

Init ==
  /\ status = [j \in JobIds |-> "none"]
  /\ lastDone = [j \in JobIds |-> 0]
  /\ stale = [j \in JobIds |-> FALSE]
  /\ created = 0
  /\ migrated = {}
  /\ completed = FALSE
  /\ server = [s \in Servers |-> "up"]
  /\ offered = [s \in Servers |-> {}]
  /\ wpc = [s \in Servers |-> "idle"]
  /\ wjob = [s \in Servers |-> NoJob]
  /\ wdone = [s \in Servers |-> 0]
  /\ wcancel = [s \in Servers |-> FALSE]
  /\ spc = [s \in Servers |-> "idle"]
  /\ sjob = [s \in Servers |-> NoJob]
  /\ sdone = [s \in Servers |-> 0]
  /\ allDone = [s \in Servers |-> FALSE]
  /\ isLeader = [s \in Servers |-> TRUE]
  /\ nextRun = [s \in Servers |-> s \in RunScheduler]
  /\ events = 0

----------------------------------------------------------------------------
(* The tests on rows the statements below are conditional on.  Each is     *)
(* followed by the form a mistake in the code could give it; no action     *)
(* uses that form.                                                         *)

\* The update of ClaimJob applies to a pending job only.
ClaimAnyLive(j) == status[j] \notin Terminal
MayClaim(j) == status[j] = "pending"

\* The update of UpdateInProgressJobData applies to a job in progress only.
SaveAlways(j) == status[j] # "none"
MaySave(j) == status[j] = "in_progress"

\* The updates of SetJobError apply to a job in progress, then to a job
\* asked to cancel.
FailInProgressOnly(j) == status[j] = "in_progress"
MayFail(j) == status[j] \in Active

\* runAdvancedPermissionsPhase2Migration is done when a batch finds no rows.
OneBatchEarly(done) == done + 1 >= NBatches
NoMoreRows(done) == done = NBatches

\* GetMigrationState: the job, newest first, that says whether the migration
\* is scheduled.
WaitingOnlyRunning(j) == j > 0 /\ status[j] = "in_progress"
Waiting(j) == j > 0 /\ status[j] \in {"pending", "in_progress"}

\* ScheduleJob: neither created nor active within the hour.
NeverWedged(j) == j = NoJob
Wedged(j) == stale[j]

----------------------------------------------------------------------------
(* The environment.  A database statement may fail at any time when the    *)
(* run allows it, and it may have taken effect although it failed; the     *)
(* other events are counted.                                               *)

QueryFails == "query" \in Events

Event(kind) ==
  /\ kind \in Events
  /\ events < MaxEvents
  /\ events' = events + 1

Holds(s, j) == wpc[s] \in Held /\ wjob[s] = j

\* An hour passes without a write to the row of a job.  When servers are
\* prompt, only a job that lost its worker gets there.
GoStale(j) ==
  /\ status[j] \in {"pending", "in_progress"} /\ ~stale[j]
  /\ Prompt => status[j] = "in_progress" /\ \A s \in Servers : wjob[s] # j
  /\ stale' = [stale EXCEPT ![j] = TRUE]
  /\ UNCHANGED <<status, lastDone, created, migrated, completed, server,
                 workerVars, schedVars, events>>

----------------------------------------------------------------------------
(* The watcher: PollAndNotify lists the pending jobs, oldest first, and    *)
(* offers each to the worker with a send that does not wait.               *)

WatcherPoll(s) ==
  /\ server[s] = "up" /\ offered[s] = {}
  /\ LET pending == {j \in JobIds : status[j] = "pending"}
     IN  /\ pending # {}
         /\ offered' = [offered EXCEPT ![s] = pending]
  /\ UNCHANGED <<dbVars, server, wpc, wjob, wdone, wcancel, schedVars, events>>

WatcherSend(s) ==
  /\ \E j \in offered[s] :
       /\ \A k \in offered[s] : j <= k
       /\ offered' = [offered EXCEPT ![s] = @ \ {j}]
       /\ \/ /\ wpc[s] = "idle"
             /\ wpc' = [wpc EXCEPT ![s] = "claim"]
             /\ wjob' = [wjob EXCEPT ![s] = j]
             /\ wdone' = [wdone EXCEPT ![s] = lastDone[j]]
          \/ /\ wpc[s] # "idle"
             /\ UNCHANGED <<wpc, wjob, wdone>>
  /\ UNCHANGED <<dbVars, server, wcancel, schedVars, events>>

----------------------------------------------------------------------------
(* The worker.                                                             *)

GotoW(s, pc) ==
  /\ wpc' = [wpc EXCEPT ![s] = pc]
  /\ UNCHANGED <<wjob, wcancel>>

\* DoJob returns: its job, progress and cancellation watcher are gone.
Leave(s) ==
  /\ wpc' = [wpc EXCEPT ![s] = "idle"]
  /\ wjob' = [wjob EXCEPT ![s] = NoJob]
  /\ wdone' = [wdone EXCEPT ![s] = 0]
  /\ wcancel' = [wcancel EXCEPT ![s] = FALSE]

Claim(s) ==
  /\ wpc[s] = "claim"
  /\ \/ /\ MayClaim(wjob[s])
        /\ status' = [status EXCEPT ![wjob[s]] = "in_progress"]
        /\ stale' = [stale EXCEPT ![wjob[s]] = FALSE]
        /\ \/ GotoW(s, "select") /\ UNCHANGED wdone
           \/ QueryFails /\ Leave(s)
     \/ /\ ~MayClaim(wjob[s]) \/ QueryFails
        /\ Leave(s)
        /\ UNCHANGED <<status, stale>>
  /\ UNCHANGED <<lastDone, created, migrated, completed, server, offered,
                 schedVars, events>>

\* CancellationWatcher polls the row of the job its worker is running.
CancelWatch(s) ==
  /\ wpc[s] \in Held /\ ~wcancel[s]
  /\ status[wjob[s]] = "cancel_requested"
  /\ wcancel' = [wcancel EXCEPT ![s] = TRUE]
  /\ UNCHANGED <<dbVars, server, offered, wpc, wjob, wdone, schedVars, events>>

\* setJobCanceled writes the status whatever it was; a failure is logged.
SetJobCanceled(s) ==
  /\ \/ /\ status' = [status EXCEPT ![wjob[s]] = "canceled"]
        /\ stale' = [stale EXCEPT ![wjob[s]] = FALSE]
     \/ QueryFails /\ UNCHANGED <<status, stale>>
  /\ Leave(s)
  /\ UNCHANGED <<lastDone, created, migrated, completed, offered, schedVars,
                 events>>

CancelJob(s) ==
  /\ wpc[s] = "select" /\ wcancel[s]
  /\ SetJobCanceled(s)
  /\ UNCHANGED server

\* DoJob takes the only stop token and returns to Run, which never sees it:
\* Worker.Stop goes on waiting.
StopJob(s) ==
  /\ wpc[s] = "select" /\ server[s] = "stopping"
  /\ SetJobCanceled(s)
  /\ server' = [server EXCEPT ![s] = "hung"]

\* time.After fires.  At the last position the batch finds no more rows.
BeginBatch(s) ==
  /\ wpc[s] = "select" /\ ~wcancel[s] /\ server[s] # "stopping"
  /\ GotoW(s, "batch")
  /\ UNCHANGED <<dbVars, server, offered, wdone, schedVars, events>>

RunBatch(s) ==
  /\ wpc[s] = "batch"
  /\ \/ /\ ~NoMoreRows(wdone[s])
        /\ migrated' = migrated \union {wdone[s] + 1}
        /\ \/ wdone' = [wdone EXCEPT ![s] = @ + 1] /\ GotoW(s, "save")
           \/ QueryFails /\ GotoW(s, "fail") /\ UNCHANGED wdone
     \/ /\ NoMoreRows(wdone[s])
        /\ GotoW(s, "record")
        /\ UNCHANGED <<migrated, wdone>>
     \/ /\ QueryFails
        /\ GotoW(s, "fail")
        /\ UNCHANGED <<migrated, wdone>>
  /\ UNCHANGED <<jobVars, completed, server, offered, schedVars, events>>

\* UpdateInProgressJobData changes nothing, and says so to nobody, unless
\* the job is in progress.
SaveProgress(s) ==
  LET j == wjob[s] IN
  /\ wpc[s] = "save"
  /\ \/ /\ MaySave(j)
        /\ status' = [status EXCEPT ![j] = "in_progress"]
        /\ lastDone' = [lastDone EXCEPT ![j] = wdone[s]]
        /\ stale' = [stale EXCEPT ![j] = FALSE]
        /\ GotoW(s, "select") \/ (QueryFails /\ GotoW(s, "fail"))
     \/ /\ ~MaySave(j)
        /\ GotoW(s, "select")
        /\ UNCHANGED <<status, lastDone, stale>>
     \/ /\ QueryFails
        /\ GotoW(s, "fail")
        /\ UNCHANGED <<status, lastDone, stale>>
  /\ UNCHANGED <<created, migrated, completed, server, offered, wdone,
                 schedVars, events>>

\* System().Save inserts the row: it fails when the migration was recorded.
RecordMigration(s) ==
  /\ wpc[s] = "record"
  /\ \/ /\ ~completed /\ completed' = TRUE
        /\ GotoW(s, "finish") \/ (QueryFails /\ GotoW(s, "fail"))
     \/ (completed \/ QueryFails) /\ GotoW(s, "fail") /\ UNCHANGED completed
  /\ UNCHANGED <<jobVars, migrated, server, offered, wdone, schedVars, events>>

\* setJobSuccess writes the status whatever it was.
Finish(s) ==
  /\ wpc[s] = "finish"
  /\ \/ /\ status' = [status EXCEPT ![wjob[s]] = "success"]
        /\ stale' = [stale EXCEPT ![wjob[s]] = FALSE]
        /\ Leave(s) \/ (QueryFails /\ GotoW(s, "fail") /\ UNCHANGED wdone)
     \/ QueryFails /\ GotoW(s, "fail") /\ UNCHANGED <<status, stale, wdone>>
  /\ UNCHANGED <<lastDone, created, migrated, completed, server, offered,
                 schedVars, events>>

\* SetJobError with an error writes the whole row, progress included, of a
\* job in progress or asked to cancel, and logs that it could not otherwise.
Fail(s) ==
  LET j == wjob[s] IN
  /\ wpc[s] = "fail"
  /\ \/ /\ MayFail(j)
        /\ status' = [status EXCEPT ![j] = "error"]
        /\ lastDone' = [lastDone EXCEPT ![j] = wdone[s]]
        /\ stale' = [stale EXCEPT ![j] = FALSE]
     \/ /\ ~MayFail(j) \/ QueryFails
        /\ UNCHANGED <<status, lastDone, stale>>
  /\ Leave(s)
  /\ UNCHANGED <<created, migrated, completed, server, offered, schedVars,
                 events>>

\* RequestCancellation: two optimistic updates.  A job claimed between them
\* gets the second; only the one that succeeds matters.
RequestCancellation(j) ==
  /\ Event("cancel")
  /\ \/ /\ status[j] = "pending"
        /\ status' = [status EXCEPT ![j] = "canceled"]
     \/ /\ status[j] = "in_progress"
        /\ status' = [status EXCEPT ![j] = "cancel_requested"]
  /\ stale' = [stale EXCEPT ![j] = FALSE]
  /\ UNCHANGED <<lastDone, created, migrated, completed, server, workerVars,
                 schedVars>>

----------------------------------------------------------------------------
(* The scheduler.                                                          *)

\* The scheduler's goroutine runs and has not been told to stop.
Listens(s) == s \in RunScheduler /\ server[s] \notin {"draining", "down"}

GotoS(s, pc) == spc' = [spc EXCEPT ![s] = pc]

\* ScheduleJob returns to the loop of Schedulers.Start.
LeaveScheduler(s) ==
  /\ spc' = [spc EXCEPT ![s] = "idle"]
  /\ sjob' = [sjob EXCEPT ![s] = NoJob]
  /\ sdone' = [sdone EXCEPT ![s] = 0]

\* setNextRunTime; when its queries fail the scheduler gets no next run.
SetNextRunTime(s, done) ==
  \/ nextRun' = [nextRun EXCEPT ![s] = ~done]
  \/ QueryFails /\ nextRun' = [nextRun EXCEPT ![s] = FALSE]

\* The run is due: ScheduleJob asks the Systems table first, and takes a
\* failed query for a missing row.
SchedTick(s) ==
  /\ Listens(s) /\ spc[s] = "idle" /\ isLeader[s] /\ nextRun[s]
  /\ \/ /\ completed
        /\ allDone' = [allDone EXCEPT ![s] = TRUE]
        /\ SetNextRunTime(s, TRUE)
        /\ UNCHANGED spc
     \/ /\ ~completed \/ QueryFails
        /\ GotoS(s, "list")
        /\ UNCHANGED <<allDone, nextRun>>
  /\ UNCHANGED <<dbVars, server, workerVars, sjob, sdone, isLeader, events>>

\* A job resumes where the one before it, if any, had got.  `ResumeAfter' is
\* the form that takes the batch it was at for done.
ResumeAfter(j) == IF j = NoJob THEN 0 ELSE lastDone[j] + 1
ResumeAt(j) == IF j = NoJob THEN 0 ELSE lastDone[j]

\* The newest job of the migration decides.  A job asked to cancel counts as
\* unscheduled although its worker may still be running.
SchedList(s) ==
  LET newest == created IN
  /\ spc[s] = "list"
  /\ \/ /\ ~Waiting(newest)
        /\ GotoS(s, "create")
        /\ sdone' = [sdone EXCEPT ![s] = ResumeAt(newest)]
        /\ UNCHANGED <<sjob, nextRun>>
     \/ /\ Waiting(newest) /\ Wedged(newest)
        /\ GotoS(s, "wedge")
        /\ sjob' = [sjob EXCEPT ![s] = newest]
        /\ sdone' = [sdone EXCEPT ![s] = ResumeAt(newest)]
        /\ UNCHANGED nextRun
     \/ /\ (Waiting(newest) /\ ~Wedged(newest)) \/ QueryFails
        /\ LeaveScheduler(s)
        /\ SetNextRunTime(s, allDone[s])
  /\ UNCHANGED <<dbVars, server, workerVars, allDone, isLeader, events>>

\* SetJobError(job, nil) writes the status whatever it is by now.
SchedWedge(s) ==
  /\ spc[s] = "wedge"
  /\ \/ /\ status' = [status EXCEPT ![sjob[s]] = "error"]
        /\ stale' = [stale EXCEPT ![sjob[s]] = FALSE]
     \/ QueryFails /\ UNCHANGED <<status, stale>>
  /\ GotoS(s, "create")
  /\ UNCHANGED <<lastDone, created, migrated, completed, server, workerVars,
                 sjob, sdone, allDone, isLeader, nextRun, events>>

\* createJob copies last_done.  When it fails the old next run stays due.
SchedCreate(s) ==
  /\ spc[s] = "create"
  /\ \/ /\ created < MaxJobs
        /\ created' = created + 1
        /\ status' = [status EXCEPT ![created + 1] = "pending"]
        /\ lastDone' = [lastDone EXCEPT ![created + 1] = sdone[s]]
        /\ SetNextRunTime(s, allDone[s]) \/ (QueryFails /\ UNCHANGED nextRun)
     \/ QueryFails /\ UNCHANGED <<created, status, lastDone, nextRun>>
  /\ LeaveScheduler(s)
  /\ UNCHANGED <<stale, migrated, completed, server, workerVars, allDone,
                 isLeader, events>>

\* HandleClusterLeaderChange does not wait: a scheduler that is busy never
\* hears of the change.
LeaderChange(s, leads) ==
  /\ Event("leader")
  /\ Listens(s)
  /\ \/ /\ spc[s] = "idle"
        /\ isLeader' = [isLeader EXCEPT ![s] = leads]
        /\ \/ leads /\ SetNextRunTime(s, allDone[s])
           \/ ~leads /\ nextRun' = [nextRun EXCEPT ![s] = FALSE]
     \/ /\ spc[s] # "idle"
        /\ UNCHANGED <<isLeader, nextRun>>
  /\ UNCHANGED <<dbVars, server, workerVars, spc, sjob, sdone, allDone>>

\* handleConfigChange waits until the scheduler is back at its select.
ConfigChange(s) ==
  /\ Event("config")
  /\ Listens(s) /\ spc[s] = "idle"
  /\ \/ isLeader[s] /\ SetNextRunTime(s, allDone[s])
     \/ ~isLeader[s] /\ nextRun' = [nextRun EXCEPT ![s] = FALSE]
  /\ UNCHANGED <<dbVars, server, workerVars, spc, sjob, sdone, allDone,
                 isLeader>>

----------------------------------------------------------------------------
(* The life of a server process.                                           *)

\* Everything a process keeps in memory is gone.
Forget(s) ==
  /\ offered' = [offered EXCEPT ![s] = {}]
  /\ Leave(s)
  /\ LeaveScheduler(s)
  /\ allDone' = [allDone EXCEPT ![s] = FALSE]
  /\ isLeader' = [isLeader EXCEPT ![s] = TRUE]
  /\ nextRun' = [nextRun EXCEPT ![s] = FALSE]
  /\ server' = [server EXCEPT ![s] = "down"]

Crash(s) ==
  /\ Event("crash") /\ server[s] \in {"up", "stopping", "draining"}
  /\ Forget(s)
  /\ UNCHANGED dbVars

\* Workers.Stop: the watcher has left its loop, the worker's stop channel
\* holds the token.
Stop(s) ==
  /\ Event("stop") /\ server[s] = "up" /\ offered[s] = {}
  /\ server' = [server EXCEPT ![s] = "stopping"]
  /\ UNCHANGED <<dbVars, workerVars, schedVars>>

\* Run takes the token; StopSchedulers follows and closes the scheduler's
\* stop channel.
StopIdle(s) ==
  /\ server[s] = "stopping" /\ wpc[s] = "idle"
  /\ server' = [server EXCEPT ![s] = "draining"]
  /\ UNCHANGED <<dbVars, workerVars, schedVars, events>>

\* The scheduler sees it at its select, and the process ends.
StopScheduler(s) ==
  /\ server[s] = "draining" /\ spc[s] = "idle"
  /\ Forget(s)
  /\ UNCHANGED <<dbVars, events>>

\* Schedulers.Stop waits for a goroutine that was never started, when the
\* process is a server; a job server without a scheduler does not call it.
StopUnstarted(s) ==
  /\ server[s] = "draining" /\ s \notin RunScheduler
  /\ server' = [server EXCEPT ![s] = "hung"]
  /\ UNCHANGED <<dbVars, workerVars, schedVars, events>>

\* A shutdown that does not end is ended by its operator.
Kill(s) ==
  /\ server[s] = "hung"
  /\ Forget(s)
  /\ UNCHANGED <<dbVars, events>>

\* Schedulers.Start arms the scheduler.
Restart(s) ==
  /\ server[s] = "down"
  /\ server' = [server EXCEPT ![s] = "up"]
  /\ \/ s \in RunScheduler /\ SetNextRunTime(s, allDone[s])
     \/ s \notin RunScheduler /\ UNCHANGED nextRun
  /\ UNCHANGED <<dbVars, workerVars, spc, sjob, sdone, allDone, isLeader,
                 events>>

WorkerStep(s) ==
  \/ WatcherPoll(s) \/ WatcherSend(s) \/ Claim(s)
  \/ CancelWatch(s) \/ CancelJob(s) \/ StopJob(s)
  \/ BeginBatch(s) \/ RunBatch(s) \/ SaveProgress(s)
  \/ RecordMigration(s) \/ Finish(s) \/ Fail(s)

SchedStep(s) ==
  \/ SchedTick(s) \/ SchedList(s) \/ SchedWedge(s) \/ SchedCreate(s)

Lifecycle(s) ==
  \/ Crash(s) \/ Stop(s) \/ StopIdle(s) \/ StopScheduler(s)
  \/ StopUnstarted(s) \/ Kill(s) \/ Restart(s)

Next ==
  \/ \E s \in Servers :
       \/ WorkerStep(s) \/ SchedStep(s) \/ Lifecycle(s)
       \/ ConfigChange(s)
       \/ \E leads \in BOOLEAN : LeaderChange(s, leads)
  \/ \E j \in JobIds : GoStale(j) \/ RequestCancellation(j)

Spec == Init /\ [][Next]_vars

\* Every goroutine of a live server runs, a job that nobody touches ages, a
\* killed or stopped server is started again.  Crashes, stops, cancellations
\* and changes of leader or configuration need not happen.
Fairness ==
  /\ \A s \in Servers :
       /\ WF_vars(WatcherPoll(s) \/ WatcherSend(s))
       /\ WF_vars(CancelWatch(s))
       /\ WF_vars(\/ Claim(s) \/ CancelJob(s) \/ StopJob(s)
                  \/ BeginBatch(s) \/ RunBatch(s) \/ SaveProgress(s)
                  \/ RecordMigration(s) \/ Finish(s) \/ Fail(s))
       /\ WF_vars(SchedStep(s))
       /\ WF_vars(StopIdle(s) \/ StopScheduler(s) \/ Kill(s) \/ Restart(s))
  /\ \A j \in JobIds : WF_vars(GoStale(j))

FairSpec == Spec /\ Fairness

----------------------------------------------------------------------------
(* Properties.                                                             *)

\* Two workers never run the same job: several watchers offer a pending job
\* to several workers, and only one of their claims succeeds
\* (JobServer.ClaimJob, Worker.DoJob).
ClaimExclusive ==
  \A s, t \in Servers : \A j \in JobIds :
    Holds(s, j) /\ Holds(t, j) => s = t

\* The Systems row appears only when every batch has been run, though a job
\* resumes from the last_done another, perhaps lost, job left behind
\* (Scheduler.createJob, Worker.runMigration).
MigrationSound == completed => migrated = 1..NBatches

\* A job that has ended never waits or runs again, and one that was claimed is
\* never offered again, whatever late writes of cancelled, wedged and crashed
\* instances arrive (JobServer.SetJob*, UpdateInProgressJobData).
NeverReactivated ==
  [][\A j \in JobIds :
       /\ status[j] \in Terminal => status'[j] \in Terminal
       /\ status[j] \in Active => status'[j] \notin {"none", "pending"}]_vars

\* The batches are applied in order and recorded once, at the end.
Migration == INSTANCE OnlineMigration
ImplementsMigration == Migration!Spec

\* Without crashes and lost writes, a job shown as running is being run:
\* every way out of Worker.DoJob leaves the job in a final state.
ExecutorAlive ==
  \A j \in JobIds : status[j] \in Active => \E s \in Servers : Holds(s, j)

\* How a job ended is revised in two cases only: a scheduler that found the
\* job wedged writes its error late, or the worker of a job declared wedged
\* ends it after all (JobServer.SetJobSuccess, SetJobCanceled, SetJobError).
VerdictStands ==
  [][\A j \in JobIds :
       status[j] \in Terminal /\ status'[j] # status[j] =>
         \/ /\ status[j] # "error" /\ status'[j] = "error"
            /\ \E s \in Servers : spc[s] = "wedge" /\ sjob[s] = j
         \/ /\ status[j] = "error"
            /\ \E s \in Servers : Holds(s, j)]_vars

\* One instance of the migration at a time: the scheduler schedules a
\* migration "assuming it isn't in progress already"
\* (Scheduler.ScheduleJob, GetMigrationState).
SingleInstance ==
  \A s, t \in Servers : wpc[s] \in Held /\ wpc[t] \in Held => s = t

\* One instance of the migration is in progress at a time: only a worker
\* whose job was asked to cancel may go on while another runs
\* (Scheduler.ScheduleJob, Worker.DoJob).
OneInProgress ==
  \A s, t \in Servers :
    /\ wpc[s] \in Held /\ status[wjob[s]] = "in_progress"
    /\ wpc[t] \in Held /\ status[wjob[t]] = "in_progress"
    => s = t

\* The migration ends, through crashes, shutdowns and cancellations: a later
\* job takes over from the one that was lost (Scheduler.ScheduleJob).
EventuallyMigrated == <>completed

\* The shutdown of a server ends, whatever its worker is doing and whether or
\* not it has a scheduler (Worker.Stop, Schedulers.Stop, Server.Shutdown).
ShutdownReturns == \A s \in Servers : server[s] # "hung"

\* A cancellation is answered: a job asked to cancel while a worker has it
\* reaches a final state, unless the worker crashes
\* (JobServer.CancellationWatcher, Worker.DoJob).
CancelAnswered ==
  \A s \in Servers : \A j \in JobIds :
    Holds(s, j) /\ status[j] = "cancel_requested" ~>
      status[j] \in Terminal \/ server[s] = "down"
=============================================================================

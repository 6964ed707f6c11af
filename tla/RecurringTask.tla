---------------------------- MODULE RecurringTask ----------------------------
(***************************************************************************)
(* Recurring tasks (model/scheduled_task.go) and the start of the email    *)
(* batching job (InitEmailBatching), which makes the job when the server   *)
(* has none and replaces its task.  It is called when the server starts    *)
(* and, with batching enabled, after every change of the configuration;    *)
(* the listeners of two changes may run at the same time.                  *)
(*                                                                         *)
(* The field of the server that holds the job has no lock.  The task of a  *)
(* job has one: a Start makes a task, puts it in the job under the mutex,  *)
(* and cancels the task it found there, waiting until its function is not  *)
(* running.                                                                *)
(***************************************************************************)
CONSTANTS Tasks, Starters, NoTask, NoJob

ASSUME TaskAssumption ==
  NoTask \notin Tasks /\ Tasks # {} /\ NoJob \notin Starters

\* A job has the name of the starter that made it, which makes but one.
Jobs == Starters

VARIABLES
  emailBatching,  \* the field of the server
  twoJobs,        \* history: a job was made although there was one
  task,           \* of each job: its task
  jobOf,          \* of each task: the job whose function it runs
  state,          \* of each task: new, waiting (for its ticker), running, ended
  cancel,         \* the tasks whose cancel channel is closed
  starter,        \* each InitEmailBatching: idle, missing, found, created, swapped, cancelling
  newTask, oldTask,
  closedTwice     \* a cancel channel was closed again: a panic

taskVars ==
  <<emailBatching, twoJobs, task, jobOf, state, cancel, starter, newTask, oldTask, closedTwice>>

\* Names have no meaning: they are taken in a fixed order.
Some(S) == CHOOSE x \in S : TRUE

\* The server has started, with batching enabled or not.
TaskInit ==
  /\ \/ /\ emailBatching = NoJob
        /\ task = [j \in Jobs |-> NoTask]
        /\ state = [t \in Tasks |-> "new"]
        /\ jobOf = [t \in Tasks |-> NoJob]
     \/ LET first == Some(Tasks)
        IN  /\ emailBatching \in Jobs
            /\ task = [j \in Jobs |-> IF j = emailBatching THEN first ELSE NoTask]
            /\ state = [t \in Tasks |-> IF t = first THEN "waiting" ELSE "new"]
            /\ jobOf = [t \in Tasks |-> IF t = first THEN emailBatching ELSE NoJob]
  /\ cancel = {}
  /\ starter = [s \in Starters |-> "idle"]
  /\ newTask = [s \in Starters |-> NoTask] /\ oldTask = [s \in Starters |-> NoTask]
  /\ twoJobs = FALSE /\ closedTwice = FALSE

SetState(t, from, to) == state[t] = from /\ state' = [state EXCEPT ![t] = to]

StarterGoes(s, from, to) == starter[s] = from /\ starter' = [starter EXCEPT ![s] = to]

Unused == {t \in Tasks : state[t] = "new" /\ \A s \in Starters : newTask[s] # t}

\* InitEmailBatching looks for the job.  Bound: it does so only when a task is
\* left for it, whose name it takes.
FindJob(s) ==
  /\ StarterGoes(s, "idle", IF emailBatching = NoJob THEN "missing" ELSE "found")
  /\ Unused # {} /\ newTask' = [newTask EXCEPT ![s] = Some(Unused)]
  /\ UNCHANGED <<emailBatching, twoJobs, task, jobOf, state, cancel, oldTask, closedTwice>>

\* It makes one, whatever another has made since.
CreateJob(s) ==
  /\ StarterGoes(s, "missing", "found")
  /\ twoJobs' = (twoJobs \/ emailBatching # NoJob)
  /\ emailBatching' = s
  /\ UNCHANGED <<task, jobOf, state, cancel, newTask, oldTask, closedTwice>>

\* Start, of the job that is now in the field.  CreateRecurringTask: its
\* goroutine waits for the first tick.
CreateTask(s) ==
  LET t == newTask[s]
  IN  /\ StarterGoes(s, "found", "created") /\ SetState(t, "new", "waiting")
      /\ jobOf' = [jobOf EXCEPT ![t] = emailBatching]
      /\ UNCHANGED <<emailBatching, twoJobs, task, cancel, newTask, oldTask, closedTwice>>

\* The job whose Start this is.
Its(s) == jobOf[newTask[s]]

\* Under the mutex of the job.  `Replace' forgets the task that was there.
Replace(s) ==
  /\ StarterGoes(s, "created", "idle")
  /\ task' = [task EXCEPT ![Its(s)] = newTask[s]]
  /\ newTask' = [newTask EXCEPT ![s] = NoTask]
  /\ UNCHANGED <<emailBatching, twoJobs, jobOf, state, cancel, oldTask, closedTwice>>

SwapTask(s) ==
  /\ StarterGoes(s, "created", IF task[Its(s)] = NoTask THEN "idle" ELSE "swapped")
  /\ oldTask' = [oldTask EXCEPT ![s] = task[Its(s)]]
  /\ task' = [task EXCEPT ![Its(s)] = newTask[s]]
  /\ newTask' = [newTask EXCEPT ![s] = NoTask]
  /\ UNCHANGED <<emailBatching, twoJobs, jobOf, state, cancel, closedTwice>>

CloseCancel(s) ==
  /\ StarterGoes(s, "swapped", "cancelling")
  /\ closedTwice' = (closedTwice \/ oldTask[s] \in cancel)
  /\ cancel' = cancel \union {oldTask[s]}
  /\ UNCHANGED <<emailBatching, twoJobs, task, jobOf, state, newTask, oldTask>>

AwaitCancelled(s) ==
  /\ StarterGoes(s, "cancelling", "idle") /\ state[oldTask[s]] = "ended"
  /\ oldTask' = [oldTask EXCEPT ![s] = NoTask]
  /\ UNCHANGED <<emailBatching, twoJobs, task, jobOf, state, cancel, newTask, closedTwice>>

TaskGoes(t, from, to) ==
  /\ SetState(t, from, to)
  /\ UNCHANGED <<emailBatching, twoJobs, task, jobOf, cancel, starter, newTask, oldTask, closedTwice>>

\* The select of the task takes a tick, although it may be cancelled already.
TickTask(t) == TaskGoes(t, "waiting", "running")
FunctionReturns(t) == TaskGoes(t, "running", "waiting")
EndTask(t) == t \in cancel /\ TaskGoes(t, "waiting", "ended")

StartStep(s) ==
  CreateJob(s) \/ CreateTask(s) \/ SwapTask(s) \/ CloseCancel(s) \/ AwaitCancelled(s)

TaskNext ==
  \/ \E s \in Starters : FindJob(s) \/ StartStep(s)
  \/ \E t \in Tasks : TickTask(t) \/ FunctionReturns(t) \/ EndTask(t)

TaskSpec == TaskInit /\ [][TaskNext]_taskVars

----------------------------------------------------------------------------
(* Properties. *)

\* The types of the state.
TaskTypeOK ==
  /\ emailBatching \in Jobs \union {NoJob}
  /\ task \in [Jobs -> Tasks \union {NoTask}]
  /\ jobOf \in [Tasks -> Jobs \union {NoJob}]
  /\ state \in [Tasks -> {"new", "waiting", "running", "ended"}]
  /\ cancel \subseteq Tasks
  /\ starter \in [Starters -> {"idle", "missing", "found", "created", "swapped", "cancelling"}]
  /\ newTask \in [Starters -> Tasks \union {NoTask}]
  /\ oldTask \in [Starters -> Tasks \union {NoTask}]
  /\ twoJobs \in BOOLEAN /\ closedTwice \in BOOLEAN

Alive == {t \in Tasks : state[t] \in {"waiting", "running"}}

\* Some Start is about to put the task in its job, or to cancel it.
InHand(t) ==
  \E s \in Starters : \/ starter[s] = "created" /\ t = newTask[s]
                      \/ starter[s] \in {"swapped", "cancelling"} /\ t = oldTask[s]

\* However many Starts run at once, a job is left with one task, which nobody
\* cancels, and no task is cancelled twice.  The tasks are all of one job,
\* unless two first calls of InitEmailBatching each found none and made one:
\* then both may tick for ever (InitEmailBatching, EmailBatchingJob.Start).
OneTask ==
  /\ ~closedTwice
  /\ \A j \in Jobs : task[j] # NoTask => task[j] \in Alive \ cancel /\ jobOf[task[j]] = j
  /\ \A t \in Alive : t = task[jobOf[t]] \/ InHand(t)
  /\ ~twoJobs => \A t \in Alive : jobOf[t] = emailBatching
=============================================================================

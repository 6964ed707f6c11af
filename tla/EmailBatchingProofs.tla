------------------------ MODULE EmailBatchingProofs ------------------------
(***************************************************************************)
(* Proofs about recurring tasks and the email batching job that uses them: *)
(* any number of concurrent Starts leave a job with one task, and the job  *)
(* mails no notification twice unless its checks overlap.                  *)
(***************************************************************************)
EXTENDS EmailBatching, TLAPS

\* A Start that has made its task and is not over.
Holding(s) == starter[s] \in {"created", "swapped", "cancelling"}

\* The task in its hands, which nobody else will cancel.
Owned(s) == IF starter[s] = "created" THEN newTask[s] ELSE oldTask[s]

\* The tasks in hand are different, none of them is the task of a job, and
\* only one that is being cancelled may have ended.
Hands ==
  /\ \A s \in Starters : Holding(s) => /\ Owned(s) \in Tasks
                                      /\ state[Owned(s)] # "new"
                                      /\ \A j \in Jobs : Owned(s) # task[j]
  /\ \A s, r \in Starters : s # r /\ Holding(s) /\ Holding(r) => Owned(s) # Owned(r)
  /\ \A s \in Starters : starter[s] \in {"created", "swapped"} => Owned(s) \in Alive \ cancel

\* The names for tasks to come are different, and of none that was made.
Names ==
  /\ \A s \in Starters : starter[s] \in {"missing", "found"} => newTask[s] \in Tasks
                                                             /\ state[newTask[s]] = "new"
  /\ \A s, r \in Starters : s # r /\ newTask[s] # NoTask => newTask[s] # newTask[r]
  /\ \A s \in Starters : starter[s] \in {"idle", "swapped", "cancelling"} => newTask[s] = NoTask

Others ==
  /\ \A t \in cancel : \/ state[t] = "ended"
                       \/ \E s \in Starters : starter[s] = "cancelling" /\ Owned(s) = t
  /\ \A t \in Tasks : state[t] = "ended" => t \in cancel

\* A task is of a job from when it is made, and there is none without a job.
OfJobs ==
  /\ \A t \in Tasks : state[t] # "new" => jobOf[t] \in Jobs /\ emailBatching # NoJob
  /\ \A s \in Starters : starter[s] = "found" => emailBatching # NoJob

TaskInv == TaskTypeOK /\ OneTask /\ Hands /\ Names /\ Others /\ OfJobs

LEMMA TaskInvInit == TaskInit => TaskInv
<1> SUFFICES ASSUME TaskInit PROVE TaskInv
  OBVIOUS
<1> USE TaskAssumption
<1>1. /\ cancel = {} /\ starter = [s \in Starters |-> "idle"]
      /\ newTask = [s \in Starters |-> NoTask] /\ oldTask = [s \in Starters |-> NoTask]
      /\ twoJobs = FALSE /\ closedTwice = FALSE
  BY DEF TaskInit
<1>2. CASE /\ emailBatching = NoJob
           /\ task = [j \in Jobs |-> NoTask]
           /\ state = [t \in Tasks |-> "new"]
           /\ jobOf = [t \in Tasks |-> NoJob]
  BY <1>1, <1>2 DEF TaskInv, TaskTypeOK, OneTask, Alive, Hands, Names, Others, OfJobs, Holding
<1>3. ASSUME NEW first \in Tasks,
             emailBatching \in Jobs,
             task = [j \in Jobs |-> IF j = emailBatching THEN first ELSE NoTask],
             state = [t \in Tasks |-> IF t = first THEN "waiting" ELSE "new"],
             jobOf = [t \in Tasks |-> IF t = first THEN emailBatching ELSE NoJob]
      PROVE  TaskInv
  <2>1. TaskTypeOK
    BY <1>1, <1>3 DEF TaskTypeOK
  <2>2. Alive = {first}
    BY <1>3 DEF Alive
  <2>3. OneTask
    BY <1>1, <1>3, <2>2 DEF OneTask, Jobs
  <2>4. Hands /\ Names /\ Others /\ OfJobs
    BY <1>1, <1>3 DEF Hands, Names, Others, OfJobs, Holding, Jobs
  <2>5. QED
    BY <2>1, <2>3, <2>4 DEF TaskInv
<1>4. Some(Tasks) \in Tasks
  BY DEF Some
<1>5. QED
  BY <1>2, <1>3, <1>4 DEF TaskInit

\* A task that is alive is the job's or in somebody's hands.
LEMMA AliveInHands ==
  ASSUME OneTask, NEW t \in Alive
  PROVE  t = task[jobOf[t]] \/ \E s \in Starters : Holding(s) /\ Owned(s) = t
BY DEF OneTask, InHand, Owned, Holding

LEMMA HeldInHand ==
  ASSUME NEW t, NEW s \in Starters, Holding(s), Owned(s) = t
  PROVE  InHand(t)
BY DEF InHand, Owned, Holding

\* Looking for the job takes a name, and changes no task.
LEMMA FindKeeps ==
  ASSUME TaskInv, NEW s \in Starters, FindJob(s)
  PROVE  TaskInv'
<1> USE TaskAssumption DEF TaskInv, TaskTypeOK
<1> DEFINE n == Some(Unused)
<1>1. n \in Unused
  BY DEF FindJob, Some
<1>2. /\ starter' = [starter EXCEPT ![s] = IF emailBatching = NoJob THEN "missing" ELSE "found"]
      /\ starter[s] = "idle" /\ newTask' = [newTask EXCEPT ![s] = n]
      /\ UNCHANGED <<emailBatching, twoJobs, task, jobOf, state, cancel, oldTask, closedTwice>>
  BY DEF FindJob, StarterGoes
<1>3. n \in Tasks /\ state[n] = "new" /\ \A r \in Starters : newTask[r] # n
  BY <1>1 DEF Unused
<1>4. TaskTypeOK' /\ Alive' = Alive
  BY <1>2, <1>3 DEF Alive
<1>5. \A r \in Starters : /\ Holding(r)' = Holding(r)
                          /\ Holding(r) => Owned(r)' = Owned(r) /\ starter'[r] = starter[r]
  BY <1>2 DEF Holding, Owned
<1>6. Hands'
  BY <1>2, <1>4, <1>5 DEF Hands, Holding
<1>7. Names'
  BY <1>2, <1>3 DEF Names
<1>8. Others' /\ OfJobs'
  BY <1>2, <1>5 DEF Others, OfJobs, Holding
<1>9. \A t \in Alive : InHand(t) => InHand(t)'
  BY <1>2 DEF InHand
<1>10. OneTask'
  BY <1>2, <1>4, <1>9 DEF OneTask
<1>11. QED
  BY <1>4, <1>6, <1>7, <1>8, <1>10

\* The field is written; there are two jobs if there was one.
LEMMA CreateJobKeeps ==
  ASSUME TaskInv, NEW s \in Starters, CreateJob(s)
  PROVE  TaskInv'
<1> USE TaskAssumption DEF TaskInv, TaskTypeOK
<1>1. /\ starter' = [starter EXCEPT ![s] = "found"] /\ starter[s] = "missing"
      /\ twoJobs' = (twoJobs \/ emailBatching # NoJob) /\ emailBatching' = s
      /\ UNCHANGED <<task, jobOf, state, cancel, newTask, oldTask, closedTwice>>
  BY DEF CreateJob, StarterGoes
<1>2. TaskTypeOK' /\ Alive' = Alive /\ emailBatching' # NoJob
  BY <1>1 DEF Alive, Jobs
<1>3. \A r \in Starters : /\ Holding(r)' = Holding(r)
                          /\ Holding(r) => Owned(r)' = Owned(r) /\ starter'[r] = starter[r]
  BY <1>1 DEF Holding, Owned
<1>4. Hands'
  BY <1>1, <1>2, <1>3 DEF Hands, Holding
<1>5. Names'
  BY <1>1 DEF Names
<1>6. Others' /\ OfJobs'
  BY <1>1, <1>2, <1>3 DEF Others, OfJobs, Holding
<1>7. \A t \in Alive : InHand(t) => InHand(t)'
  BY <1>1 DEF InHand
<1>8. ~twoJobs' => Alive = {}
  BY <1>1 DEF OfJobs, Alive
<1>9. OneTask'
  BY <1>1, <1>2, <1>7, <1>8 DEF OneTask
<1>10. QED
  BY <1>2, <1>4, <1>5, <1>6, <1>9

\* A task that is made is in nobody else's hands.
LEMMA CreateTaskKeeps ==
  ASSUME TaskInv, NEW s \in Starters, CreateTask(s)
  PROVE  TaskInv'
<1> USE TaskAssumption DEF TaskInv, TaskTypeOK
<1> DEFINE t == newTask[s]
<1>1. /\ starter' = [starter EXCEPT ![s] = "created"] /\ starter[s] = "found"
      /\ state' = [state EXCEPT ![t] = "waiting"] /\ state[t] = "new"
      /\ jobOf' = [jobOf EXCEPT ![t] = emailBatching]
      /\ UNCHANGED <<emailBatching, twoJobs, task, cancel, newTask, oldTask, closedTwice>>
  BY DEF CreateTask, StarterGoes, SetState
<1>2. t \in Tasks /\ emailBatching \in Jobs
  BY <1>1 DEF Names, OfJobs
<1>3. TaskTypeOK'
  BY <1>1, <1>2
<1>4. Owned(s)' = t /\ Holding(s)' /\ ~Holding(s)
      /\ \A r \in Starters \ {s} : Owned(r)' = Owned(r) /\ Holding(r)' = Holding(r)
                                   /\ starter'[r] = starter[r]
  BY <1>1 DEF Owned, Holding
<1>5. t \notin cancel
  <2>1. \A r \in Starters : starter[r] = "cancelling" => state[Owned(r)] # "new"
    BY DEF Hands, Holding
  <2>2. QED
    BY <1>1, <2>1 DEF Others
<1>6. Alive' = Alive \union {t} /\ t \notin Alive /\ \A j \in Jobs : t # task[j]
  BY <1>1, <1>2 DEF Alive, OneTask
<1>7. Hands'
  <2>1. \A r \in Starters : Holding(r)' => /\ Owned(r)' \in Tasks
                                          /\ state'[Owned(r)'] # "new"
                                          /\ \A j \in Jobs : Owned(r)' # task'[j]
    BY <1>1, <1>2, <1>4, <1>6 DEF Hands
  <2>2. \A r, q \in Starters : r # q /\ Holding(r)' /\ Holding(q)' => Owned(r)' # Owned(q)'
    BY <1>1, <1>4 DEF Hands
  <2>3. \A r \in Starters : starter'[r] \in {"created", "swapped"} => Owned(r)' \in Alive' \ cancel'
    BY <1>1, <1>4, <1>5, <1>6 DEF Hands
  <2>4. QED
    BY <2>1, <2>2, <2>3 DEF Hands
<1>8. Names'
  BY <1>1, <1>2 DEF Names
<1>9. Others' /\ OfJobs'
  BY <1>1, <1>2, <1>4 DEF Others, OfJobs
<1>10. InHand(t)' /\ \A x \in Alive : InHand(x) => InHand(x)'
  BY <1>1 DEF InHand
<1>11. OneTask'
  BY <1>1, <1>2, <1>6, <1>10 DEF OneTask
<1>12. QED
  BY <1>3, <1>7, <1>8, <1>9, <1>11

\* The swap exchanges the task in hand for that of the job.
LEMMA SwapKeeps ==
  ASSUME TaskInv, NEW s \in Starters, SwapTask(s)
  PROVE  TaskInv'
<1> USE TaskAssumption DEF TaskInv, TaskTypeOK
<1> DEFINE t == newTask[s]
           j == jobOf[newTask[s]]
           old == task[jobOf[newTask[s]]]
<1>1. /\ starter' = [starter EXCEPT ![s] = IF old = NoTask THEN "idle" ELSE "swapped"]
      /\ starter[s] = "created"
      /\ oldTask' = [oldTask EXCEPT ![s] = old] /\ newTask' = [newTask EXCEPT ![s] = NoTask]
      /\ task' = [task EXCEPT ![j] = t]
      /\ UNCHANGED <<emailBatching, twoJobs, jobOf, state, cancel, closedTwice>>
  BY DEF SwapTask, StarterGoes, Its
<1>2. Owned(s) = t /\ t \in Alive \ cancel /\ t \in Tasks /\ j \in Jobs
      /\ \A k \in Jobs : t # task[k]
  BY <1>1 DEF Owned, Hands, Holding, OfJobs, Alive
<1>3. old \in Tasks \union {NoTask} /\ task' \in [Jobs -> Tasks \union {NoTask}]
      /\ task'[j] = t /\ \A k \in Jobs \ {j} : task'[k] = task[k]
  BY <1>1, <1>2
<1>4. TaskTypeOK' /\ Alive' = Alive
  BY <1>1, <1>2, <1>3 DEF Alive
<1>5. Holding(s)' = (old # NoTask) /\ Owned(s)' = old
  BY <1>1, <1>2, <1>3 DEF Owned, Holding
<1>6. \A r \in Starters \ {s} : Owned(r)' = Owned(r) /\ starter'[r] = starter[r] /\ Holding(r)' = Holding(r)
                                /\ newTask'[r] = newTask[r]
  BY <1>1 DEF Owned, Holding
<1>7. old # NoTask => /\ old \in Alive \ cancel /\ jobOf[old] = j /\ old # t
                      /\ state[old] # "new" /\ \A k \in Jobs \ {j} : task[k] # old
  <2>1. old # NoTask => old \in Alive \ cancel /\ jobOf[old] = j
    BY <1>2 DEF OneTask
  <2>2. \A k \in Jobs : task[k] # NoTask => jobOf[task[k]] = k
    BY DEF OneTask
  <2>3. QED
    BY <1>2, <2>1, <2>2 DEF Alive
<1>8. Hands'
  <2>1. \A r \in Starters : Holding(r)' => /\ Owned(r)' \in Tasks
                                          /\ state'[Owned(r)'] # "new"
                                          /\ \A k \in Jobs : Owned(r)' # task'[k]
    <3> SUFFICES ASSUME NEW r \in Starters, Holding(r)'
                 PROVE  /\ Owned(r)' \in Tasks
                        /\ state'[Owned(r)'] # "new"
                        /\ \A k \in Jobs : Owned(r)' # task'[k]
      OBVIOUS
    <3>1. CASE r = s
      BY <1>1, <1>3, <1>5, <1>7, <3>1
    <3>2. CASE r # s
      <4>1. Holding(r) /\ Owned(r)' = Owned(r)
        BY <1>6, <3>2
      <4>2. Owned(r) # t
        BY <1>1, <1>2, <3>2, <4>1 DEF Hands, Holding
      <4>3. QED
        BY <1>1, <1>3, <4>1, <4>2 DEF Hands
    <3>3. QED
      BY <3>1, <3>2
  <2>2. \A r, q \in Starters : r # q /\ Holding(r)' /\ Holding(q)' => Owned(r)' # Owned(q)'
    <3>1. \A r \in Starters \ {s} : Holding(r) => Owned(r) # old
      BY <1>2 DEF Hands
    <3>2. QED
      BY <1>5, <1>6, <3>1 DEF Hands
  <2>3. \A r \in Starters : starter'[r] \in {"created", "swapped"} => Owned(r)' \in Alive' \ cancel'
    <3>1. CASE old = NoTask
      BY <1>1, <1>4, <1>6, <3>1 DEF Hands
    <3>2. CASE old # NoTask
      BY <1>1, <1>4, <1>5, <1>6, <1>7, <3>2 DEF Hands
    <3>3. QED
      BY <3>1, <3>2
  <2>4. QED
    BY <2>1, <2>2, <2>3 DEF Hands
<1>9. Names'
  BY <1>1 DEF Names
<1>10. Others' /\ OfJobs'
  BY <1>1, <1>6 DEF Others, OfJobs
<1>11. OneTask'
  <2>1. \A x \in Alive : x = task'[jobOf'[x]] \/ \E r \in Starters : Holding(r)' /\ Owned(r)' = x
    <3> TAKE x \in Alive
    <3>0. jobOf[x] \in Jobs /\ x # NoTask
      BY DEF OfJobs, Alive
    <3>1. CASE x = task[jobOf[x]]
      BY <1>1, <1>3, <1>5, <3>0, <3>1
    <3>2. ASSUME NEW r \in Starters, Holding(r), Owned(r) = x
          PROVE  x = task'[jobOf'[x]] \/ \E q \in Starters : Holding(q)' /\ Owned(q)' = x
      BY <1>1, <1>2, <1>3, <1>6, <3>2
    <3>3. QED
      BY <3>1, <3>2, AliveInHands
  <2>2. \A x \in Alive' : x = task'[jobOf'[x]] \/ InHand(x)'
    BY <1>4, <2>1 DEF InHand, Owned, Holding
  <2>3. \A k \in Jobs : task'[k] # NoTask => task'[k] \in Alive' \ cancel' /\ jobOf'[task'[k]] = k
    BY <1>1, <1>2, <1>3, <1>4 DEF OneTask
  <2>4. QED
    BY <1>1, <1>4, <2>2, <2>3 DEF OneTask
<1>12. QED
  BY <1>4, <1>8, <1>9, <1>10, <1>11

\* Cancelling the task in hand: nobody has closed its channel before.
LEMMA CloseKeeps ==
  ASSUME TaskInv, NEW s \in Starters, CloseCancel(s)
  PROVE  TaskInv'
<1> USE TaskAssumption DEF TaskInv, TaskTypeOK
<1>1. /\ starter' = [starter EXCEPT ![s] = "cancelling"] /\ starter[s] = "swapped"
      /\ cancel' = cancel \union {oldTask[s]}
      /\ closedTwice' = (closedTwice \/ oldTask[s] \in cancel)
      /\ UNCHANGED <<emailBatching, twoJobs, task, jobOf, state, newTask, oldTask>>
  BY DEF CloseCancel, StarterGoes
<1>2. Owned(s) = oldTask[s] /\ Owned(s)' = oldTask[s] /\ oldTask[s] \in Alive \ cancel
      /\ oldTask[s] \in Tasks /\ \A j \in Jobs : oldTask[s] # task[j]
  BY <1>1 DEF Owned, Hands, Holding
<1>3. Holding(s)' /\ Holding(s) /\ \A r \in Starters \ {s} :
        Owned(r)' = Owned(r) /\ starter'[r] = starter[r] /\ Holding(r)' = Holding(r)
  BY <1>1 DEF Owned, Holding
<1>4. TaskTypeOK' /\ Alive' = Alive
  BY <1>1, <1>2 DEF Alive
<1>5. Hands'
  <2>1. \A r \in Starters : Holding(r)' => /\ Owned(r)' \in Tasks
                                          /\ state'[Owned(r)'] # "new"
                                          /\ \A k \in Jobs : Owned(r)' # task'[k]
    BY <1>1, <1>2, <1>3 DEF Hands
  <2>2. \A r, q \in Starters : r # q /\ Holding(r)' /\ Holding(q)' => Owned(r)' # Owned(q)'
    BY <1>1, <1>2, <1>3 DEF Hands
  <2>3. \A r \in Starters : starter'[r] \in {"created", "swapped"} => Owned(r)' \in Alive' \ cancel'
    <3> SUFFICES ASSUME NEW r \in Starters, starter'[r] \in {"created", "swapped"}
                 PROVE  Owned(r)' \in Alive' \ cancel'
      OBVIOUS
    <3>1. r # s
      BY <1>1
    <3>2. Holding(r) /\ Owned(r) \in Alive \ cancel /\ Owned(r)' = Owned(r)
      BY <1>1, <1>3, <3>1 DEF Hands, Holding
    <3>3. Owned(r) # oldTask[s]
      BY <1>2, <1>3, <3>1, <3>2 DEF Hands
    <3>4. QED
      BY <1>1, <1>4, <3>2, <3>3
  <2>4. QED
    BY <2>1, <2>2, <2>3 DEF Hands
<1>6. Names'
  BY <1>1 DEF Names
<1>7. Others' /\ OfJobs'
  BY <1>1, <1>2, <1>3 DEF Others, OfJobs
<1>8. \A t \in Alive : InHand(t) => InHand(t)'
  BY <1>1 DEF InHand
<1>9. OneTask'
  BY <1>1, <1>2, <1>4, <1>8 DEF OneTask
<1>10. QED
  BY <1>4, <1>5, <1>6, <1>7, <1>9

LEMMA AwaitKeeps ==
  ASSUME TaskInv, NEW s \in Starters, AwaitCancelled(s)
  PROVE  TaskInv'
<1> USE TaskAssumption DEF TaskInv, TaskTypeOK
<1>1. /\ starter' = [starter EXCEPT ![s] = "idle"] /\ starter[s] = "cancelling"
      /\ state[oldTask[s]] = "ended"
      /\ oldTask' = [oldTask EXCEPT ![s] = NoTask]
      /\ UNCHANGED <<emailBatching, twoJobs, task, jobOf, state, cancel, newTask, closedTwice>>
  BY DEF AwaitCancelled, StarterGoes
<1>2. Owned(s) = oldTask[s] /\ ~Holding(s)'
  BY <1>1 DEF Owned, Holding
<1>3. \A r \in Starters \ {s} :
        Owned(r)' = Owned(r) /\ starter'[r] = starter[r] /\ Holding(r)' = Holding(r)
  BY <1>1 DEF Owned, Holding
<1>4. TaskTypeOK' /\ Alive' = Alive /\ oldTask[s] \notin Alive
  BY <1>1 DEF Alive
<1>5. Hands'
  BY <1>1, <1>2, <1>3, <1>4 DEF Hands
<1>6. Names'
  BY <1>1 DEF Names
<1>7. Others' /\ OfJobs'
  BY <1>1, <1>2, <1>3 DEF Others, OfJobs
<1>8. \A t \in Alive : InHand(t) => InHand(t)'
  BY <1>1, <1>4 DEF InHand
<1>9. OneTask'
  BY <1>1, <1>4, <1>8 DEF OneTask
<1>10. QED
  BY <1>4, <1>5, <1>6, <1>7, <1>9

\* A task that ticks, or whose function returns, is alive before and after.
LEMMA RunKeeps ==
  ASSUME TaskInv, NEW t \in Tasks, TickTask(t) \/ FunctionReturns(t)
  PROVE  TaskInv'
<1> USE TaskAssumption DEF TaskInv, TaskTypeOK
<1>1. PICK to \in {"waiting", "running"} : state' = [state EXCEPT ![t] = to]
  BY DEF TickTask, FunctionReturns, TaskGoes, SetState
<1>2. state[t] \in {"waiting", "running"}
      /\ UNCHANGED <<emailBatching, twoJobs, task, jobOf, cancel, starter, newTask, oldTask, closedTwice>>
  BY DEF TickTask, FunctionReturns, TaskGoes, SetState
<1>3. /\ TaskTypeOK' /\ Alive' = Alive /\ \A x \in Tasks : InHand(x)' = InHand(x)
      /\ \A s \in Starters : Owned(s)' = Owned(s) /\ Holding(s)' = Holding(s)
  BY <1>1, <1>2 DEF Alive, Owned, Holding, InHand
<1>4. Hands' /\ Names'
  BY <1>1, <1>2, <1>3 DEF Hands, Names
<1>5. Others' /\ OfJobs'
  BY <1>1, <1>2, <1>3 DEF Others, OfJobs
<1>6. OneTask'
  BY <1>2, <1>3 DEF OneTask, Alive
<1>7. QED
  BY <1>3, <1>4, <1>5, <1>6

LEMMA EndKeeps ==
  ASSUME TaskInv, NEW t \in Tasks, EndTask(t)
  PROVE  TaskInv'
<1> USE TaskAssumption DEF TaskInv, TaskTypeOK
<1>1. /\ t \in cancel /\ state[t] = "waiting" /\ state' = [state EXCEPT ![t] = "ended"]
      /\ UNCHANGED <<emailBatching, twoJobs, task, jobOf, cancel, starter, newTask, oldTask, closedTwice>>
  BY DEF EndTask, TaskGoes, SetState
<1>2. /\ TaskTypeOK' /\ Alive' = Alive \ {t} /\ \A x \in Tasks : InHand(x)' = InHand(x)
      /\ \A s \in Starters : Owned(s)' = Owned(s) /\ Holding(s)' = Holding(s)
  BY <1>1 DEF Alive, Owned, Holding, InHand
<1>3. Hands' /\ Names'
  BY <1>1, <1>2 DEF Hands, Names
<1>4. Others' /\ OfJobs'
  BY <1>1, <1>2 DEF Others, OfJobs
<1>5. OneTask'
  BY <1>1, <1>2 DEF OneTask, Alive
<1>6. QED
  BY <1>2, <1>3, <1>4, <1>5

LEMMA TaskInvNext == TaskInv /\ [TaskNext]_taskVars => TaskInv'
<1>1. TaskInv /\ UNCHANGED taskVars => TaskInv'
  BY DEF TaskInv, TaskTypeOK, OneTask, Alive, InHand, Hands, Names, Others, OfJobs,
         Owned, Holding, taskVars
<1>2. QED
  BY <1>1, FindKeeps, CreateJobKeeps, CreateTaskKeeps, SwapKeeps, CloseKeeps, AwaitKeeps,
     RunKeeps, EndKeeps
     DEF TaskNext, StartStep

LEMMA TaskInvHolds == TaskSpec => []TaskInv
BY TaskInvInit, TaskInvNext, PTL DEF TaskSpec

\* However many calls of InitEmailBatching overlap: every task that is alive is
\* its job's or somebody is about to cancel it, nobody cancels a task twice or
\* cancels that of a job, and the tasks are of one job unless two calls made one
\* each (InitEmailBatching, EmailBatchingJob.Start, CreateRecurringTask, Cancel).
THEOREM TasksReplaced == TaskSpec => []OneTask
<1>1. TaskInv => OneTask
  BY DEF TaskInv
<1>2. QED
  BY <1>1, TaskInvHolds, PTL

----------------------------------------------------------------------------
(* The tasks of the email batching are recurring tasks.                    *)

LEMMA EmailStepIsTaskStep == [EmailNext]_emailVars => [TaskNext]_taskVars
<1> SUFFICES ASSUME [EmailNext]_emailVars PROVE [TaskNext]_taskVars
  OBVIOUS
<1>1. CASE UNCHANGED emailVars
  BY <1>1 DEF emailVars
<1>2. ASSUME NEW n \in Notifications, AddNotification(n) PROVE UNCHANGED taskVars
  BY <1>2 DEF AddNotification, Adding
<1>3. ASSUME NEW t \in Tasks, Tick(t) \/ CheckEnds(t) PROVE TaskNext
  BY <1>3 DEF Tick, CheckEnds, TaskNext
<1>4. ASSUME NEW t \in Tasks, NEW from, NEW to, Goes(t, from, to) PROVE UNCHANGED taskVars
  BY <1>4 DEF Goes
<1>5. ASSUME NEW t \in Tasks, CheckStep(t) PROVE [TaskNext]_taskVars
  BY <1>3, <1>4, <1>5
     DEF CheckStep, ReceiveNew, StoreList, NothingNew, NextUser, DropBatch, KeepBatch,
         ForgetBatch, MailBatch, DeleteMailed
<1>6. ASSUME NEW t \in Tasks, EndTask(t) PROVE TaskNext
  BY <1>6 DEF TaskNext
<1>7. ASSUME NEW s \in Starters, FindJob(s) \/ StartStep(s) PROVE TaskNext
  BY <1>7 DEF TaskNext
<1>8. QED
  BY <1>1, <1>2, <1>3, <1>5, <1>6, <1>7 DEF EmailNext

\* Whatever the jobs do with their notifications, they are made, started and
\* cancelled as RecurringTask says (InitEmailBatching, EmailBatchingJob.Start).
THEOREM EmailUsesTasks == EmailSpec => TaskSpec
<1>1. EmailInit => TaskInit
  BY DEF EmailInit
<1>2. QED
  BY <1>1, EmailStepIsTaskStep, PTL DEF EmailSpec, TaskSpec

\* Whatever is saved and whenever the listeners run, a job of the email batching
\* never has two tasks but one that is being replaced; the tasks that tick are
\* those of the job in the field of the server, unless two calls that found no
\* job have each made one (InitEmailBatching, EmailBatchingJob.Start).
THEOREM EmailHasOneTask == EmailSpec => []OneTask
BY EmailUsesTasks, TasksReplaced, PTL

----------------------------------------------------------------------------
(* The elements of a list.                                                 *)

LEMMA ElemsOfEmpty == Elems(<<>>) = {}
BY DEF Elems

LEMMA ElemsTyped ==
  ASSUME NEW S, NEW s \in Seq(S)
  PROVE  Elems(s) \subseteq S
BY DEF Elems

LEMMA ElemsOfAppend ==
  ASSUME NEW S, NEW s \in Seq(S), NEW e \in S
  PROVE  Elems(Append(s, e)) = Elems(s) \union {e} /\ Append(s, e) # <<>>
<1> DEFINE n == Len(s)
<1>1. n \in Nat /\ Len(Append(s, e)) = n + 1 /\ Append(s, e)[n + 1] = e
  OBVIOUS
<1>2. \A i \in 1..n : Append(s, e)[i] = s[i]
  OBVIOUS
<1>3. 1..(n + 1) = 1..n \union {n + 1}
  BY <1>1
<1>4. QED
  BY <1>1, <1>2, <1>3 DEF Elems

LEMMA DistinctAppend ==
  ASSUME NEW S, NEW s \in Seq(S), NEW e \in S, Distinct(s), e \notin Elems(s)
  PROVE  Distinct(Append(s, e))
<1> DEFINE n == Len(s)
<1>1. n \in Nat /\ Len(Append(s, e)) = n + 1 /\ Append(s, e)[n + 1] = e
  OBVIOUS
<1>2. \A i \in 1..n : Append(s, e)[i] = s[i] /\ s[i] # e
  BY DEF Elems
<1>3. \A i \in 1..(n + 1) : i \in 1..n \/ i = n + 1
  BY <1>1
<1>4. QED
  BY <1>1, <1>2, <1>3 DEF Distinct

\* Taking the first element of a list.
LEMMA TailOf ==
  ASSUME NEW S, NEW s \in Seq(S), s # <<>>
  PROVE  /\ Head(s) \in Elems(s) /\ Head(s) \in S
         /\ Tail(s) \in Seq(S) /\ Len(Tail(s)) = Len(s) - 1
         /\ Elems(Tail(s)) \subseteq Elems(s)
<1> DEFINE n == Len(s)
<1>1. n \in Nat /\ n >= 1 /\ Head(s) = s[1] /\ Tail(s) \in Seq(S) /\ Len(Tail(s)) = n - 1
  OBVIOUS
<1>2. \A i \in 1..(n - 1) : Tail(s)[i] = s[i + 1] /\ i + 1 \in 1..n
  BY <1>1
<1>3. QED
  BY <1>1, <1>2 DEF Elems

\* Taking the first element of a list without repetitions.
LEMMA ElemsOfTail ==
  ASSUME NEW S, NEW s \in Seq(S), s # <<>>, Distinct(s)
  PROVE  /\ Head(s) \in Elems(s) /\ Tail(s) \in Seq(S) /\ Len(Tail(s)) = Len(s) - 1
         /\ Elems(Tail(s)) = Elems(s) \ {Head(s)}
         /\ Distinct(Tail(s))
<1> DEFINE n == Len(s)
<1>1. n \in Nat /\ n >= 1 /\ Head(s) = s[1] /\ Tail(s) \in Seq(S) /\ Len(Tail(s)) = n - 1
  OBVIOUS
<1>2. \A i \in 1..(n - 1) : Tail(s)[i] = s[i + 1] /\ i + 1 \in 1..n /\ i + 1 # 1
  BY <1>1
<1>3. Head(s) \in Elems(s)
  BY <1>1 DEF Elems
<1>4. Elems(Tail(s)) \subseteq Elems(s) \ {Head(s)}
  BY <1>1, <1>2 DEF Elems, Distinct
<1>5. Elems(s) \ {Head(s)} \subseteq Elems(Tail(s))
  <2> SUFFICES ASSUME NEW i \in 1..n, s[i] # Head(s) PROVE s[i] \in Elems(Tail(s))
    BY DEF Elems
  <2>1. i - 1 \in 1..(n - 1) /\ (i - 1) + 1 = i
    BY <1>1
  <2>2. Tail(s)[i - 1] = s[i]
    BY <1>2, <2>1
  <2>3. QED
    BY <1>1, <2>1, <2>2 DEF Elems
<1>6. Distinct(Tail(s))
  <2> SUFFICES ASSUME NEW i \in 1..(n - 1), NEW j \in 1..(n - 1), Tail(s)[i] = Tail(s)[j]
               PROVE  i = j
    BY <1>1 DEF Distinct
  <2>1. i + 1 = j + 1
    BY <1>2 DEF Distinct
  <2>2. QED
    BY <1>1, <2>1
<1>7. QED
  BY <1>1, <1>3, <1>4, <1>5, <1>6

----------------------------------------------------------------------------
(* The types.                                                              *)

Of(u) == {n \in Notifications : Recipient[n] = u}
Queued(j) == Elems(newNotifications[j])
Listed(j) == {n \in Notifications : n \in Elems(pending[j][Recipient[n]])}
HeldBy(t) == Elems(held[t])

Busy(t) == check[t] \in {"store", "look", "dropped", "mailed"}

BatchTypes ==
  /\ newNotifications \in [Jobs -> Seq(Notifications)]
  /\ \A j \in Jobs : Len(newNotifications[j]) <= BufferSize
  /\ pending \in [Jobs -> [UserIds -> Seq(Notifications)]]
  /\ \A j \in Jobs, u \in UserIds : pending[j][u] \in Seq(Of(u))
  /\ check \in [Tasks -> {"receive", "store", "range", "look", "dropped", "mailed"}]
  /\ held \in [Tasks -> Seq(Notifications)]
  /\ unchecked \in [Tasks -> SUBSET UserIds]
  /\ mailed \in [Notifications -> Nat]
  /\ added \subseteq Notifications /\ dropped \subseteq Notifications
  /\ overlapped \in BOOLEAN

\* A task whose function does not run is at its beginning, and holds a list of
\* one user where it is busy with one, else none.
Tidy ==
  \A t \in Tasks :
    /\ ~Runs(t) => check[t] = "receive"
    /\ Busy(t) => held[t] # <<>> /\ \E u \in UserIds : held[t] \in Seq(Of(u))
    /\ ~Busy(t) => held[t] = <<>>

\* Nothing is anywhere that was not added.
AllAdded ==
  /\ \A j \in Jobs : Queued(j) \subseteq added /\ Listed(j) \subseteq added
  /\ \A t \in Tasks : HeldBy(t) \subseteq added
  /\ Settled \subseteq added

BatchShape == BatchTypes /\ Tidy /\ AllAdded

LEMMA ListedOf ==
  ASSUME BatchTypes, NEW j \in Jobs, NEW u \in UserIds
  PROVE  Elems(pending[j][u]) = {n \in Listed(j) : Recipient[n] = u}
<1>1. Elems(pending[j][u]) \subseteq Of(u)
  BY ElemsTyped DEF BatchTypes
<1>2. QED
  BY <1>1 DEF Of, Listed

\* The list in its hands is not empty, and has one user.
LEMMA HeldOf ==
  ASSUME BatchTypes, Tidy, NEW t \in Tasks, Busy(t)
  PROVE  /\ HeldUser(t) \in UserIds /\ held[t] \in Seq(Of(HeldUser(t)))
         /\ HeldBy(t) \subseteq Of(HeldUser(t)) /\ HeldBy(t) # {}
<1>1. PICK u \in UserIds : held[t] \in Seq(Of(u)) /\ held[t] # <<>>
  BY DEF Tidy
<1>2. Head(held[t]) \in Of(u) /\ Head(held[t]) \in Elems(held[t])
  BY <1>1 DEF Elems
<1>3. HeldUser(t) = u
  BY <1>2 DEF HeldUser, Of
<1>4. Elems(held[t]) \subseteq Of(u)
  BY <1>1, ElemsTyped
<1>5. QED
  BY <1>1, <1>2, <1>3, <1>4 DEF HeldBy

LEMMA ShapeInit == EmailInit => BatchShape
<1> SUFFICES ASSUME EmailInit PROVE BatchShape
  OBVIOUS
<1>1. BatchTypes
  <2>1. /\ newNotifications \in [Jobs -> Seq(Notifications)]
        /\ \A j \in Jobs : Len(newNotifications[j]) <= BufferSize
    BY BatchAssumption DEF EmailInit
  <2>2. /\ pending \in [Jobs -> [UserIds -> Seq(Notifications)]]
        /\ \A j \in Jobs, u \in UserIds : pending[j][u] \in Seq(Of(u))
    BY DEF EmailInit
  <2>3. held \in [Tasks -> Seq(Notifications)]
    BY DEF EmailInit
  <2>4. /\ check \in [Tasks -> {"receive", "store", "range", "look", "dropped", "mailed"}]
        /\ unchecked \in [Tasks -> SUBSET UserIds]
    BY DEF EmailInit
  <2>5. mailed \in [Notifications -> Nat]
    BY DEF EmailInit
  <2>6. /\ added \subseteq Notifications /\ dropped \subseteq Notifications
        /\ overlapped \in BOOLEAN
    BY DEF EmailInit
  <2>7. QED
    BY <2>1, <2>2, <2>3, <2>4, <2>5, <2>6 DEF BatchTypes
<1>2. Tidy
  BY DEF EmailInit, Tidy, Busy
<1>3. \A j \in Jobs : Queued(j) = {} /\ Listed(j) = {}
  BY ElemsOfEmpty, BatchAssumption DEF EmailInit, Queued, Listed
<1>4. Settled = {} /\ \A t \in Tasks : HeldBy(t) = {}
  BY ElemsOfEmpty DEF EmailInit, Settled, HeldBy
<1>5. QED
  BY <1>1, <1>2, <1>3, <1>4 DEF BatchShape, AllAdded

\* Those of S are mailed: each of them once more.
LEMMA MailedOf ==
  ASSUME BatchTypes, NEW S, Mail(S)
  PROVE  /\ mailed' \in [Notifications -> Nat]
         /\ \A n \in Notifications : mailed'[n] = IF n \in S THEN mailed[n] + 1 ELSE mailed[n]
BY DEF BatchTypes, Mail

\* What becomes of the lists of a job when one is replaced.
LEMMA SetListGives ==
  ASSUME BatchTypes, Tidy, NEW t \in Tasks, NEW j \in Jobs, j = jobOf[t], Busy(t),
         NEW list \in Seq(Of(HeldUser(t))), SetList(t, list)
  PROVE  /\ pending' \in [Jobs -> [UserIds -> Seq(Notifications)]]
         /\ \A k \in Jobs, u \in UserIds : pending'[k][u] \in Seq(Of(u))
         /\ \A k \in Jobs \ {j} : pending'[k] = pending[k]
         /\ Listed(j)' = Elems(list) \union {n \in Listed(j) : Recipient[n] # HeldUser(t)}
<1> DEFINE w == HeldUser(t)
<1>1. w \in UserIds
  BY HeldOf
<1>2. list \in Seq(Notifications)
  BY DEF Of
<1>3. pending' = [pending EXCEPT ![j] = [pending[j] EXCEPT ![w] = list]]
  BY DEF SetList
<1>4. pending[j] \in [UserIds -> Seq(Notifications)]
  BY DEF BatchTypes
<1>5. [pending[j] EXCEPT ![w] = list] \in [UserIds -> Seq(Notifications)]
  BY <1>2, <1>4
<1>6. /\ pending' \in [Jobs -> [UserIds -> Seq(Notifications)]]
      /\ \A k \in Jobs \ {j} : pending'[k] = pending[k]
      /\ pending'[j] = [pending[j] EXCEPT ![w] = list]
  BY <1>3, <1>5 DEF BatchTypes
<1>7. pending'[j][w] = list /\ \A u \in UserIds \ {w} : pending'[j][u] = pending[j][u]
  BY <1>1, <1>4, <1>6
<1>8. \A k \in Jobs, u \in UserIds : pending'[k][u] \in Seq(Of(u))
  BY <1>6, <1>7 DEF BatchTypes
<1>9. Elems(list) \subseteq Of(w)
  BY ElemsTyped
<1>10. \A n \in Notifications : Recipient[n] \in UserIds
  BY BatchAssumption
<1>11. Listed(j)' = Elems(list) \union {n \in Listed(j) : Recipient[n] # w}
  BY <1>7, <1>9, <1>10 DEF Listed, Of
<1>12. QED
  BY <1>6, <1>8, <1>11

\* What a step of the function does to what belongs to other tasks and jobs.
OneJobStep(t) ==
  /\ Runs(t) /\ jobOf[t] \in Jobs
  /\ UNCHANGED <<taskVars, added, overlapped>>
  /\ \A k \in Jobs \ {jobOf[t]} : newNotifications'[k] = newNotifications[k] /\ pending'[k] = pending[k]
  /\ \A x \in Tasks \ {t} : held'[x] = held[x] /\ check'[x] = check[x]

\* What such a step must show of its own job and task: the lists keep their
\* types, and what is there was there before, where only what it holds may be
\* settled.
Own(j) ==
  Queued(j) \union Listed(j) \union UNION {HeldBy(t) : t \in {x \in Tasks : Runs(x) /\ jobOf[x] = j}}

KeepsItsOwn(t, j) ==
  /\ BatchTypes'
  /\ Queued(j)' \subseteq Own(j) /\ Listed(j)' \subseteq Own(j) /\ HeldBy(t)' \subseteq Own(j)
  /\ Settled' \subseteq Settled \union HeldBy(t)
  /\ Busy(t)' => held'[t] # <<>> /\ \E u \in UserIds : held'[t] \in Seq(Of(u))
  /\ ~Busy(t)' => held'[t] = <<>>

LEMMA OwnAdded ==
  ASSUME AllAdded, NEW j \in Jobs
  PROVE  Own(j) \subseteq added
BY DEF AllAdded, Own

LEMMA ShapeKept ==
  ASSUME BatchShape, NEW t \in Tasks, NEW j \in Jobs, j = jobOf[t],
         OneJobStep(t), KeepsItsOwn(t, j)
  PROVE  BatchShape'
<1>1. BatchTypes'
  BY DEF KeepsItsOwn
<1>2. added' = added /\ state' = state
  BY DEF OneJobStep, taskVars
<1>3. Own(j) \subseteq added
  BY OwnAdded DEF BatchShape
<1>4. HeldBy(t) \subseteq added
  BY DEF BatchShape, AllAdded
<1>5. \A k \in Jobs \ {j} : Queued(k)' = Queued(k) /\ Listed(k)' = Listed(k)
  BY DEF OneJobStep, Queued, Listed
<1>6. \A x \in Tasks \ {t} : HeldBy(x)' = HeldBy(x) /\ Busy(x)' = Busy(x) /\ Runs(x)' = Runs(x)
  BY <1>2 DEF OneJobStep, HeldBy, Busy, Runs
<1>7. AllAdded'
  BY <1>2, <1>3, <1>4, <1>5, <1>6 DEF KeepsItsOwn, BatchShape, AllAdded
<1>8. Runs(t)'
  BY <1>2 DEF OneJobStep, Runs
<1>9. Tidy'
  BY <1>6, <1>8 DEF OneJobStep, KeepsItsOwn, BatchShape, Tidy
<1>10. QED
  BY <1>1, <1>7, <1>9 DEF BatchShape

----------------------------------------------------------------------------
(* The steps of the function: what each does to the lists of its job.      *)

LEMMA GoesGives ==
  ASSUME BatchShape, NEW t \in Tasks, NEW from, NEW to, Goes(t, from, to),
         to \in {"receive", "store", "range", "look", "dropped", "mailed"}
  PROVE  /\ Runs(t) /\ check[t] = from /\ check'[t] = to
         /\ check' \in [Tasks -> {"receive", "store", "range", "look", "dropped", "mailed"}]
         /\ \A x \in Tasks \ {t} : check'[x] = check[x]
         /\ UNCHANGED <<taskVars, added, overlapped>>
BY DEF BatchShape, BatchTypes, Goes

LEMMA HoldGives ==
  ASSUME BatchShape, NEW t \in Tasks, NEW list \in Seq(Notifications), Hold(t, list)
  PROVE  /\ held' \in [Tasks -> Seq(Notifications)]
         /\ held'[t] = list
         /\ \A x \in Tasks \ {t} : held'[x] = held[x]
BY DEF BatchShape, BatchTypes, Hold

LEMMA EmptyIsList == \A S : <<>> \in Seq(S)
OBVIOUS

LEMMA ReceiveGives ==
  ASSUME BatchShape, NEW t \in Tasks, NEW j \in Jobs, j = jobOf[t], ReceiveNew(t)
  PROVE  LET n == Head(newNotifications[j])
         IN  /\ OneJobStep(t) /\ KeepsItsOwn(t, j)
             /\ n \in Queued(j) /\ (Distinct(newNotifications[j]) => Queued(j)' = Queued(j) \ {n}
                                                                     /\ Distinct(newNotifications'[j]))
             /\ Listed(j)' = Listed(j)
             /\ HeldBy(t)' = {m \in Listed(j) : Recipient[m] = Recipient[n]} \union {n}
             /\ check[t] = "receive" /\ check'[t] = "store" /\ UNCHANGED <<mailed, dropped>>
<1> DEFINE n == Head(newNotifications[j])
           r == Recipient[n]
<1>1. Goes(t, "receive", "store") /\ newNotifications[j] # <<>>
      /\ newNotifications' = [newNotifications EXCEPT ![j] = Tail(@)]
      /\ Hold(t, Append(pending[j][r], n))
      /\ UNCHANGED <<pending, unchecked, mailed, dropped>>
  BY DEF ReceiveNew, ListNew
<1>2. /\ newNotifications[j] \in Seq(Notifications) /\ Len(newNotifications[j]) <= BufferSize
      /\ Len(newNotifications[j]) \in Nat /\ BufferSize \in Nat
  BY BatchAssumption DEF BatchShape, BatchTypes
<1>3. /\ n \in Queued(j) /\ n \in Notifications
      /\ Tail(newNotifications[j]) \in Seq(Notifications)
      /\ Len(Tail(newNotifications[j])) = Len(newNotifications[j]) - 1
      /\ Elems(Tail(newNotifications[j])) \subseteq Queued(j)
  BY <1>1, <1>2, TailOf DEF Queued
<1>4. r \in UserIds /\ n \in Of(r)
  BY <1>3, BatchAssumption DEF Of
<1>5. pending[j][r] \in Seq(Of(r)) /\ pending[j][r] \in Seq(Notifications)
  BY <1>4 DEF BatchShape, BatchTypes
<1>6. /\ Append(pending[j][r], n) \in Seq(Of(r)) /\ Append(pending[j][r], n) \in Seq(Notifications)
      /\ Append(pending[j][r], n) # <<>>
      /\ Elems(Append(pending[j][r], n)) = {m \in Listed(j) : Recipient[m] = r} \union {n}
  <2>1. /\ Elems(Append(pending[j][r], n)) = Elems(pending[j][r]) \union {n}
        /\ Append(pending[j][r], n) # <<>>
    <3> HIDE DEF n, r
    <3>1. n \in Notifications /\ pending[j][r] \in Seq(Notifications)
      BY <1>3, <1>5
    <3>2. QED
      BY <3>1, ElemsOfAppend
  <2>2. Elems(pending[j][r]) = {m \in Listed(j) : Recipient[m] = r}
    BY <1>4, ListedOf DEF BatchShape
  <2>3. Append(pending[j][r], n) \in Seq(Of(r)) /\ Append(pending[j][r], n) \in Seq(Notifications)
    BY <1>3, <1>4, <1>5
  <2>4. QED
    BY <2>1, <2>2, <2>3
<1>7. /\ Runs(t) /\ check[t] = "receive" /\ check'[t] = "store"
      /\ check' \in [Tasks -> {"receive", "store", "range", "look", "dropped", "mailed"}]
      /\ \A x \in Tasks \ {t} : check'[x] = check[x]
      /\ UNCHANGED <<taskVars, added, overlapped>>
  BY <1>1, GoesGives
<1>8. /\ held' \in [Tasks -> Seq(Notifications)]
      /\ held'[t] = Append(pending[j][r], n)
      /\ \A x \in Tasks \ {t} : held'[x] = held[x]
  BY <1>1, <1>6, HoldGives
<1>9. /\ newNotifications' \in [Jobs -> Seq(Notifications)]
      /\ newNotifications'[j] = Tail(newNotifications[j])
      /\ \A k \in Jobs \ {j} : newNotifications'[k] = newNotifications[k]
  BY <1>1, <1>3 DEF BatchShape, BatchTypes
<1>10. \A k \in Jobs : Len(newNotifications'[k]) <= BufferSize
  <2>1. Len(Tail(newNotifications[j])) <= BufferSize
    BY <1>2, <1>3
  <2>2. QED
    BY <1>9, <2>1 DEF BatchShape, BatchTypes
<1>11. BatchTypes'
  BY <1>1, <1>7, <1>8, <1>9, <1>10 DEF BatchShape, BatchTypes
<1>12. OneJobStep(t)
  BY <1>1, <1>7, <1>8, <1>9 DEF OneJobStep
<1>13. /\ Queued(j)' = Elems(Tail(newNotifications[j])) /\ Listed(j)' = Listed(j)
       /\ HeldBy(t)' = {m \in Listed(j) : Recipient[m] = r} \union {n}
  BY <1>1, <1>6, <1>8, <1>9 DEF Queued, Listed, HeldBy
<1>14. KeepsItsOwn(t, j)
  BY <1>1, <1>3, <1>4, <1>6, <1>7, <1>8, <1>11, <1>13 DEF KeepsItsOwn, Own, Settled, Busy
<1>15. Distinct(newNotifications[j]) => Queued(j)' = Queued(j) \ {n} /\ Distinct(newNotifications'[j])
  BY <1>1, <1>2, <1>9, <1>13, ElemsOfTail DEF Queued
<1>16. QED
  BY <1>1, <1>3, <1>7, <1>12, <1>13, <1>14, <1>15

LEMMA StoreGives ==
  ASSUME BatchShape, NEW t \in Tasks, NEW j \in Jobs, j = jobOf[t], StoreList(t)
  PROVE  /\ OneJobStep(t) /\ KeepsItsOwn(t, j)
         /\ UNCHANGED newNotifications
         /\ Listed(j)' = HeldBy(t) \union {n \in Listed(j) : Recipient[n] # HeldUser(t)}
         /\ HeldBy(t)' = {}
         /\ check[t] = "store" /\ check'[t] = "receive" /\ UNCHANGED <<mailed, dropped>>
<1>1. Goes(t, "store", "receive") /\ SetList(t, held[t]) /\ Hold(t, <<>>)
      /\ UNCHANGED <<newNotifications, unchecked, mailed, dropped>>
  BY DEF StoreList
<1>2. /\ Runs(t) /\ check[t] = "store" /\ check'[t] = "receive"
      /\ check' \in [Tasks -> {"receive", "store", "range", "look", "dropped", "mailed"}]
      /\ \A x \in Tasks \ {t} : check'[x] = check[x]
      /\ UNCHANGED <<taskVars, added, overlapped>>
  BY <1>1, GoesGives
<1>3. Busy(t) /\ held[t] \in Seq(Of(HeldUser(t))) /\ BatchTypes /\ Tidy
  BY <1>2, HeldOf DEF Busy, BatchShape
<1>4. /\ pending' \in [Jobs -> [UserIds -> Seq(Notifications)]]
      /\ \A k \in Jobs, u \in UserIds : pending'[k][u] \in Seq(Of(u))
      /\ \A k \in Jobs \ {j} : pending'[k] = pending[k]
      /\ Listed(j)' = HeldBy(t) \union {n \in Listed(j) : Recipient[n] # HeldUser(t)}
  BY <1>1, <1>3, SetListGives DEF HeldBy
<1>5. /\ held' \in [Tasks -> Seq(Notifications)] /\ held'[t] = <<>>
      /\ \A x \in Tasks \ {t} : held'[x] = held[x]
  BY <1>1, EmptyIsList, HoldGives
<1>6. BatchTypes'
  BY <1>1, <1>2, <1>4, <1>5 DEF BatchShape, BatchTypes
<1>7. OneJobStep(t)
  BY <1>1, <1>2, <1>4, <1>5 DEF OneJobStep
<1>8. HeldBy(t)' = {} /\ Queued(j)' = Queued(j) /\ HeldBy(t) \subseteq Own(j)
  BY <1>1, <1>2, <1>5, ElemsOfEmpty DEF HeldBy, Queued, Own
<1>9. KeepsItsOwn(t, j)
  BY <1>1, <1>2, <1>4, <1>5, <1>6, <1>8 DEF KeepsItsOwn, Own, Settled, Busy
<1>10. QED
  BY <1>1, <1>2, <1>4, <1>7, <1>8, <1>9

LEMMA NothingGives ==
  ASSUME BatchShape, NEW t \in Tasks, NEW j \in Jobs, j = jobOf[t], NothingNew(t)
  PROVE  /\ OneJobStep(t) /\ KeepsItsOwn(t, j)
         /\ UNCHANGED <<newNotifications, pending, held, mailed, dropped>>
         /\ check[t] = "receive" /\ check'[t] = "range"
<1>1. Goes(t, "receive", "range")
      /\ unchecked' = [unchecked EXCEPT ![t] = {u \in UserIds : pending[jobOf[t]][u] # <<>>}]
      /\ UNCHANGED <<newNotifications, pending, held, mailed, dropped>>
  BY DEF NothingNew
<1>2. /\ Runs(t) /\ check[t] = "receive" /\ check'[t] = "range"
      /\ check' \in [Tasks -> {"receive", "store", "range", "look", "dropped", "mailed"}]
      /\ \A x \in Tasks \ {t} : check'[x] = check[x]
      /\ UNCHANGED <<taskVars, added, overlapped>>
  BY <1>1, GoesGives
<1>3. unchecked' \in [Tasks -> SUBSET UserIds]
  BY <1>1 DEF BatchShape, BatchTypes
<1>4. BatchTypes'
  BY <1>1, <1>2, <1>3 DEF BatchShape, BatchTypes
<1>5. OneJobStep(t)
  BY <1>1, <1>2 DEF OneJobStep
<1>6. held[t] = <<>>
  BY <1>2 DEF BatchShape, Tidy, Busy
<1>7. KeepsItsOwn(t, j)
  BY <1>1, <1>2, <1>4, <1>6 DEF KeepsItsOwn, Own, Settled, Busy, Queued, Listed, HeldBy
<1>8. QED
  BY <1>1, <1>2, <1>5, <1>7

LEMMA NextGives ==
  ASSUME BatchShape, NEW t \in Tasks, NEW j \in Jobs, j = jobOf[t],
         NEW u \in UserIds, NextUser(t, u)
  PROVE  /\ OneJobStep(t) /\ KeepsItsOwn(t, j)
         /\ UNCHANGED <<newNotifications, pending, mailed, dropped>>
         /\ HeldBy(t)' = {n \in Listed(j) : Recipient[n] = u}
         /\ check[t] = "range" /\ check'[t] \in {"range", "look"}
<1> DEFINE list == pending[j][u]
           to == IF list = <<>> THEN "range" ELSE "look"
<1>1. Goes(t, "range", to) /\ Hold(t, list)
      /\ unchecked' = [unchecked EXCEPT ![t] = unchecked[t] \ {u}]
      /\ UNCHANGED <<newNotifications, pending, mailed, dropped>>
  BY DEF NextUser
<1>2. /\ Runs(t) /\ check[t] = "range" /\ check'[t] = to
      /\ check' \in [Tasks -> {"receive", "store", "range", "look", "dropped", "mailed"}]
      /\ \A x \in Tasks \ {t} : check'[x] = check[x]
      /\ UNCHANGED <<taskVars, added, overlapped>>
  BY <1>1, GoesGives
<1>3. list \in Seq(Of(u)) /\ list \in Seq(Notifications)
      /\ Elems(list) = {n \in Listed(j) : Recipient[n] = u}
  BY ListedOf DEF BatchShape, BatchTypes
<1>4. /\ held' \in [Tasks -> Seq(Notifications)] /\ held'[t] = list
      /\ \A x \in Tasks \ {t} : held'[x] = held[x]
  BY <1>1, <1>3, HoldGives
<1>5. unchecked' \in [Tasks -> SUBSET UserIds]
  BY <1>1 DEF BatchShape, BatchTypes
<1>6. BatchTypes'
  BY <1>1, <1>2, <1>4, <1>5 DEF BatchShape, BatchTypes
<1>7. OneJobStep(t)
  BY <1>1, <1>2, <1>4 DEF OneJobStep
<1>8. HeldBy(t)' = {n \in Listed(j) : Recipient[n] = u}
  BY <1>3, <1>4 DEF HeldBy
<1>9. KeepsItsOwn(t, j)
  BY <1>1, <1>2, <1>3, <1>4, <1>6, <1>8 DEF KeepsItsOwn, Own, Settled, Busy, Queued, Listed
<1>10. QED
  BY <1>1, <1>2, <1>7, <1>8, <1>9

LEMMA EmptyListGives ==
  ASSUME BatchTypes, Tidy, NEW t \in Tasks, NEW j \in Jobs, j = jobOf[t], Busy(t),
         SetList(t, <<>>)
  PROVE  /\ pending' \in [Jobs -> [UserIds -> Seq(Notifications)]]
         /\ \A k \in Jobs, u \in UserIds : pending'[k][u] \in Seq(Of(u))
         /\ \A k \in Jobs \ {j} : pending'[k] = pending[k]
         /\ Listed(j)' = {n \in Listed(j) : Recipient[n] # HeldUser(t)}
<1>1. <<>> \in Seq(Of(HeldUser(t)))
  BY EmptyIsList
<1>2. /\ pending' \in [Jobs -> [UserIds -> Seq(Notifications)]]
      /\ \A k \in Jobs, u \in UserIds : pending'[k][u] \in Seq(Of(u))
      /\ \A k \in Jobs \ {j} : pending'[k] = pending[k]
      /\ Listed(j)' = Elems(<<>>) \union {n \in Listed(j) : Recipient[n] # HeldUser(t)}
  BY <1>1, SetListGives
<1>3. QED
  BY <1>2, ElemsOfEmpty

LEMMA DropGives ==
  ASSUME BatchShape, NEW t \in Tasks, NEW j \in Jobs, j = jobOf[t], DropBatch(t)
  PROVE  /\ OneJobStep(t) /\ KeepsItsOwn(t, j)
         /\ UNCHANGED <<newNotifications, held, mailed, dropped>>
         /\ Listed(j)' = {n \in Listed(j) : Recipient[n] # HeldUser(t)}
         /\ check[t] = "look" /\ check'[t] = "dropped"
<1>1. Goes(t, "look", "dropped") /\ SetList(t, <<>>)
      /\ UNCHANGED <<newNotifications, held, unchecked, mailed, dropped>>
  BY DEF DropBatch, DeleteList
<1>2. /\ Runs(t) /\ check[t] = "look" /\ check'[t] = "dropped"
      /\ check' \in [Tasks -> {"receive", "store", "range", "look", "dropped", "mailed"}]
      /\ \A x \in Tasks \ {t} : check'[x] = check[x]
      /\ UNCHANGED <<taskVars, added, overlapped>>
  BY <1>1, GoesGives
<1>3. Busy(t) /\ BatchTypes /\ Tidy
  BY <1>2 DEF Busy, BatchShape
<1>4. /\ pending' \in [Jobs -> [UserIds -> Seq(Notifications)]]
      /\ \A k \in Jobs, u \in UserIds : pending'[k][u] \in Seq(Of(u))
      /\ \A k \in Jobs \ {j} : pending'[k] = pending[k]
      /\ Listed(j)' = {n \in Listed(j) : Recipient[n] # HeldUser(t)}
  BY <1>1, <1>3, EmptyListGives
<1>5. BatchTypes'
  BY <1>1, <1>2, <1>4 DEF BatchShape, BatchTypes
<1>6. OneJobStep(t)
  BY <1>1, <1>2, <1>4 DEF OneJobStep
<1>7. HeldBy(t)' = HeldBy(t) /\ Queued(j)' = Queued(j) /\ HeldBy(t) \subseteq Own(j)
  BY <1>1, <1>2 DEF HeldBy, Queued, Own
<1>8. held[t] # <<>> /\ \E u \in UserIds : held[t] \in Seq(Of(u))
  BY <1>3 DEF Tidy
<1>9. KeepsItsOwn(t, j)
  BY <1>1, <1>2, <1>4, <1>5, <1>7, <1>8 DEF KeepsItsOwn, Own, Settled, Busy
<1>10. QED
  BY <1>1, <1>2, <1>4, <1>6, <1>9

LEMMA KeepGives ==
  ASSUME BatchShape, NEW t \in Tasks, NEW j \in Jobs, j = jobOf[t], KeepBatch(t)
  PROVE  /\ OneJobStep(t) /\ KeepsItsOwn(t, j)
         /\ UNCHANGED <<newNotifications, pending, mailed, dropped>>
         /\ HeldBy(t)' = {}
         /\ check[t] = "look" /\ check'[t] = "range"
<1>1. Goes(t, "look", "range") /\ Hold(t, <<>>)
      /\ UNCHANGED <<newNotifications, pending, unchecked, mailed, dropped>>
  BY DEF KeepBatch
<1>2. /\ Runs(t) /\ check[t] = "look" /\ check'[t] = "range"
      /\ check' \in [Tasks -> {"receive", "store", "range", "look", "dropped", "mailed"}]
      /\ \A x \in Tasks \ {t} : check'[x] = check[x]
      /\ UNCHANGED <<taskVars, added, overlapped>>
  BY <1>1, GoesGives
<1>3. /\ held' \in [Tasks -> Seq(Notifications)] /\ held'[t] = <<>>
      /\ \A x \in Tasks \ {t} : held'[x] = held[x]
  BY <1>1, EmptyIsList, HoldGives
<1>4. BatchTypes'
  BY <1>1, <1>2, <1>3 DEF BatchShape, BatchTypes
<1>5. OneJobStep(t)
  BY <1>1, <1>2, <1>3 DEF OneJobStep
<1>6. HeldBy(t)' = {}
  BY <1>3, ElemsOfEmpty DEF HeldBy
<1>7. KeepsItsOwn(t, j)
  BY <1>1, <1>2, <1>3, <1>4, <1>6 DEF KeepsItsOwn, Own, Settled, Busy, Queued, Listed
<1>8. QED
  BY <1>1, <1>2, <1>5, <1>6, <1>7

LEMMA ForgetGives ==
  ASSUME BatchShape, NEW t \in Tasks, NEW j \in Jobs, j = jobOf[t], ForgetBatch(t)
  PROVE  /\ OneJobStep(t) /\ KeepsItsOwn(t, j)
         /\ UNCHANGED <<newNotifications, pending, mailed>>
         /\ HeldBy(t)' = {} /\ dropped' = dropped \union HeldBy(t)
         /\ check[t] = "dropped" /\ check'[t] = "range"
<1>1. Goes(t, "dropped", "range") /\ Hold(t, <<>>)
      /\ dropped' = dropped \union Elems(held[t])
      /\ UNCHANGED <<newNotifications, pending, unchecked, mailed>>
  BY DEF ForgetBatch
<1>2. /\ Runs(t) /\ check[t] = "dropped" /\ check'[t] = "range"
      /\ check' \in [Tasks -> {"receive", "store", "range", "look", "dropped", "mailed"}]
      /\ \A x \in Tasks \ {t} : check'[x] = check[x]
      /\ UNCHANGED <<taskVars, added, overlapped>>
  BY <1>1, GoesGives
<1>3. /\ held' \in [Tasks -> Seq(Notifications)] /\ held'[t] = <<>>
      /\ \A x \in Tasks \ {t} : held'[x] = held[x]
  BY <1>1, EmptyIsList, HoldGives
<1>4. HeldBy(t) \subseteq Notifications
  BY DEF BatchShape, AllAdded, BatchTypes
<1>5. BatchTypes'
  BY <1>1, <1>2, <1>3, <1>4 DEF BatchShape, BatchTypes, HeldBy
<1>6. OneJobStep(t)
  BY <1>1, <1>2, <1>3 DEF OneJobStep
<1>7. HeldBy(t)' = {} /\ dropped' = dropped \union HeldBy(t)
  BY <1>1, <1>3, ElemsOfEmpty DEF HeldBy
<1>8. KeepsItsOwn(t, j)
  BY <1>1, <1>2, <1>3, <1>5, <1>7 DEF KeepsItsOwn, Own, Settled, Busy, Queued, Listed
<1>9. QED
  BY <1>1, <1>2, <1>6, <1>7, <1>8

LEMMA MailGives ==
  ASSUME BatchShape, NEW t \in Tasks, NEW j \in Jobs, j = jobOf[t],
         NEW u \in UserIds, MailBatch(t, u)
  PROVE  /\ OneJobStep(t) /\ KeepsItsOwn(t, j)
         /\ UNCHANGED <<newNotifications, pending, held, dropped>>
         /\ Mail(HeldBy(t)) /\ Settled' = Settled \union HeldBy(t)
         /\ check[t] \in {"look", "dropped"} /\ check'[t] = "mailed"
<1>1. PICK from \in {"look", "dropped"} : Goes(t, from, "mailed")
  BY DEF MailBatch
<1>2. Mail(HeldBy(t)) /\ UNCHANGED <<newNotifications, pending, held, unchecked, dropped>>
  BY DEF MailBatch, HeldBy
<1>3. /\ Runs(t) /\ check[t] = from /\ check'[t] = "mailed"
      /\ check' \in [Tasks -> {"receive", "store", "range", "look", "dropped", "mailed"}]
      /\ \A x \in Tasks \ {t} : check'[x] = check[x]
      /\ UNCHANGED <<taskVars, added, overlapped>>
  BY <1>1, GoesGives
<1>4. /\ mailed' \in [Notifications -> Nat]
      /\ \A n \in Notifications : mailed'[n] = IF n \in HeldBy(t) THEN mailed[n] + 1 ELSE mailed[n]
  BY <1>2, MailedOf DEF BatchShape
<1>5. BatchTypes'
  BY <1>2, <1>3, <1>4 DEF BatchShape, BatchTypes
<1>6. OneJobStep(t)
  BY <1>2, <1>3 DEF OneJobStep
<1>7. Busy(t)
  BY <1>3 DEF Busy
<1>8. held[t] # <<>> /\ \E w \in UserIds : held[t] \in Seq(Of(w))
  BY <1>7 DEF BatchShape, Tidy
<1>9. HeldBy(t) \subseteq Notifications
  BY DEF BatchShape, AllAdded, BatchTypes
<1>10. Settled' = Settled \union HeldBy(t)
  BY <1>2, <1>4, <1>9 DEF Settled, BatchShape, BatchTypes
<1>11. HeldBy(t)' = HeldBy(t) /\ Queued(j)' = Queued(j) /\ Listed(j)' = Listed(j) /\ HeldBy(t) \subseteq Own(j)
  BY <1>2, <1>3 DEF HeldBy, Queued, Listed, Own
<1>12. KeepsItsOwn(t, j)
  BY <1>2, <1>3, <1>5, <1>8, <1>10, <1>11 DEF KeepsItsOwn, Own, Busy
<1>13. QED
  BY <1>1, <1>2, <1>3, <1>6, <1>10, <1>12

LEMMA DeleteGives ==
  ASSUME BatchShape, NEW t \in Tasks, NEW j \in Jobs, j = jobOf[t], DeleteMailed(t)
  PROVE  /\ OneJobStep(t) /\ KeepsItsOwn(t, j)
         /\ UNCHANGED <<newNotifications, mailed, dropped>>
         /\ Listed(j)' = {n \in Listed(j) : Recipient[n] # HeldUser(t)}
         /\ HeldBy(t)' = {}
         /\ check[t] = "mailed" /\ check'[t] = "range"
<1>1. Goes(t, "mailed", "range") /\ SetList(t, <<>>) /\ Hold(t, <<>>)
      /\ UNCHANGED <<newNotifications, unchecked, mailed, dropped>>
  BY DEF DeleteMailed, DeleteList
<1>2. /\ Runs(t) /\ check[t] = "mailed" /\ check'[t] = "range"
      /\ check' \in [Tasks -> {"receive", "store", "range", "look", "dropped", "mailed"}]
      /\ \A x \in Tasks \ {t} : check'[x] = check[x]
      /\ UNCHANGED <<taskVars, added, overlapped>>
  BY <1>1, GoesGives
<1>3. Busy(t) /\ BatchTypes /\ Tidy
  BY <1>2 DEF Busy, BatchShape
<1>4. /\ pending' \in [Jobs -> [UserIds -> Seq(Notifications)]]
      /\ \A k \in Jobs, u \in UserIds : pending'[k][u] \in Seq(Of(u))
      /\ \A k \in Jobs \ {j} : pending'[k] = pending[k]
      /\ Listed(j)' = {n \in Listed(j) : Recipient[n] # HeldUser(t)}
  BY <1>1, <1>3, EmptyListGives
<1>5. /\ held' \in [Tasks -> Seq(Notifications)] /\ held'[t] = <<>>
      /\ \A x \in Tasks \ {t} : held'[x] = held[x]
  BY <1>1, EmptyIsList, HoldGives
<1>6. BatchTypes'
  BY <1>1, <1>2, <1>4, <1>5 DEF BatchShape, BatchTypes
<1>7. OneJobStep(t)
  BY <1>1, <1>2, <1>4, <1>5 DEF OneJobStep
<1>8. HeldBy(t)' = {} /\ Queued(j)' = Queued(j)
  BY <1>1, <1>5, ElemsOfEmpty DEF HeldBy, Queued
<1>9. KeepsItsOwn(t, j)
  BY <1>1, <1>2, <1>4, <1>5, <1>6, <1>8 DEF KeepsItsOwn, Own, Settled, Busy
<1>10. QED
  BY <1>1, <1>2, <1>4, <1>7, <1>8, <1>9

----------------------------------------------------------------------------
(* A notification is settled once.                                         *)

\* The tasks of the job whose function runs.
Checking(j) == {t \in Tasks : Runs(t) /\ jobOf[t] = j}

\* Of a job whose checks do not overlap: what is queued is nowhere else; what a
\* check holds is not settled before the check has mailed it, and in no list
\* when the check has dropped it; and the lists hold what is settled only while
\* the check that mailed it has not deleted its list.
OnePlace(j) ==
  /\ \A t, x \in Checking(j) : t = x
  /\ Distinct(newNotifications[j])
  /\ Queued(j) \intersect (Listed(j) \union Settled) = {}
  /\ \A t \in Checking(j) :
       /\ Queued(j) \intersect HeldBy(t) = {}
       /\ check[t] \in {"store", "look", "dropped"} => HeldBy(t) \intersect Settled = {}
       /\ check[t] = "dropped" => HeldBy(t) \intersect Listed(j) = {}
  /\ \A n \in Listed(j) \intersect Settled :
       \E t \in Checking(j) : check[t] = "mailed" /\ Recipient[n] = HeldUser(t)

Apart == \A j, k \in Jobs : j # k => Own(j) \intersect Own(k) = {}

Once ==
  /\ \A n \in Notifications : mailed[n] <= 1
  /\ \A n \in dropped : mailed[n] = 0

OnceInv == (\A j \in Jobs : OnePlace(j)) /\ Apart /\ Once

BatchInv == BatchShape /\ (~overlapped => OnceInv)

\* What is another job's is not disturbed by the step of a check.
LEMMA OthersKept ==
  ASSUME BatchShape, OnceInv, NEW t \in Tasks, NEW j \in Jobs, j = jobOf[t],
         OneJobStep(t), KeepsItsOwn(t, j), OnePlace(j)', Once'
  PROVE  OnceInv'
<1>1. state' = state /\ jobOf' = jobOf
  BY DEF OneJobStep, taskVars
<1>2. t \in Checking(j) /\ \A k \in Jobs : Checking(k)' = Checking(k)
  BY <1>1 DEF Checking, OneJobStep, Runs
<1>3. \A k \in Jobs \ {j} : Queued(k)' = Queued(k) /\ Listed(k)' = Listed(k)
                            /\ newNotifications'[k] = newNotifications[k]
  BY DEF OneJobStep, Queued, Listed
<1>4. \A x \in Tasks \ {t} : HeldBy(x)' = HeldBy(x) /\ check'[x] = check[x] /\ HeldUser(x)' = HeldUser(x)
  BY DEF OneJobStep, HeldBy, HeldUser
<1>5. \A k \in Jobs : Own(k) = Queued(k) \union Listed(k) \union UNION {HeldBy(x) : x \in Checking(k)}
  BY DEF Own, Checking
<1>6. \A k \in Jobs : Own(k)' = Queued(k)' \union Listed(k)' \union UNION {HeldBy(x)' : x \in Checking(k)}
  BY <1>2 DEF Own, Checking
<1>7. \A k \in Jobs \ {j} : t \notin Checking(k) /\ Checking(k) \subseteq Tasks
  BY DEF Checking
<1>8. \A k \in Jobs \ {j} : Own(k)' = Own(k)
  <2> TAKE k \in Jobs \ {j}
  <2>1. \A x \in Checking(k) : HeldBy(x)' = HeldBy(x)
    BY <1>4, <1>7
  <2>2. UNION {HeldBy(x)' : x \in Checking(k)} = UNION {HeldBy(x) : x \in Checking(k)}
    BY <2>1
  <2>3. QED
    BY <1>3, <1>5, <1>6, <2>2
<1>9. Own(j)' \subseteq Own(j) /\ HeldBy(t) \subseteq Own(j)
  <2>1. \A x \in Checking(j) : HeldBy(x) \subseteq Own(j)
    BY <1>5
  <2>2. \A x \in Checking(j) : HeldBy(x)' \subseteq Own(j)
    BY <1>4, <2>1 DEF KeepsItsOwn, Checking
  <2>3. QED
    BY <1>2, <1>6, <2>1, <2>2 DEF KeepsItsOwn
<1>10. Apart'
  <2> SUFFICES ASSUME NEW i \in Jobs, NEW k \in Jobs, i # k
               PROVE  Own(i)' \intersect Own(k)' = {}
    BY DEF Apart
  <2>1. Own(i)' \subseteq Own(i) /\ Own(k)' \subseteq Own(k)
    BY <1>8, <1>9
  <2>2. QED
    BY <2>1 DEF OnceInv, Apart
<1>11. ASSUME NEW k \in Jobs \ {j} PROVE OnePlace(k)'
  <2>1. HeldBy(t) \intersect Own(k) = {}
    BY <1>9 DEF OnceInv, Apart
  <2>2. /\ Queued(k) \subseteq Own(k) /\ Listed(k) \subseteq Own(k)
        /\ \A x \in Checking(k) : HeldBy(x) \subseteq Own(k)
    BY <1>5
  <2>3. /\ Queued(k) \intersect Settled' = Queued(k) \intersect Settled
        /\ Listed(k) \intersect Settled' \subseteq Listed(k) \intersect Settled
        /\ \A x \in Checking(k) : HeldBy(x) \intersect Settled' \subseteq HeldBy(x) \intersect Settled
    <3>1. Settled' \subseteq Settled \union HeldBy(t)
      BY DEF KeepsItsOwn
    <3>2. Queued(k) \intersect Settled = {}
      BY DEF OnceInv, OnePlace
    <3>3. QED
      BY <2>1, <2>2, <3>1, <3>2
  <2>4. \A x \in Checking(k) : HeldBy(x)' = HeldBy(x) /\ check'[x] = check[x] /\ HeldUser(x)' = HeldUser(x)
    BY <1>4, <1>7
  <2>5. Checking(k)' = Checking(k) /\ Queued(k)' = Queued(k) /\ Listed(k)' = Listed(k)
        /\ newNotifications'[k] = newNotifications[k]
    BY <1>2, <1>3
  <2>6. OnePlace(k)
    BY DEF OnceInv
  <2>7. \A n \in Listed(k)' \intersect Settled' :
          \E x \in Checking(k)' : check'[x] = "mailed" /\ Recipient[n] = HeldUser(x)'
    BY <2>3, <2>4, <2>5, <2>6 DEF OnePlace
  <2>8. \A x \in Checking(k)' :
          /\ Queued(k)' \intersect HeldBy(x)' = {}
          /\ check'[x] \in {"store", "look", "dropped"} => HeldBy(x)' \intersect Settled' = {}
          /\ check'[x] = "dropped" => HeldBy(x)' \intersect Listed(k)' = {}
    BY <2>3, <2>4, <2>5, <2>6 DEF OnePlace
  <2>9. QED
    BY <2>3, <2>5, <2>6, <2>7, <2>8 DEF OnePlace
<1>12. QED
  BY <1>10, <1>11 DEF OnceInv

\* What the invariant says of the one check of a job.
Here(t, j) ==
  /\ Distinct(newNotifications[j])
  /\ Queued(j) \intersect (Listed(j) \union Settled \union HeldBy(t)) = {}
  /\ check[t] \in {"store", "look", "dropped"} => HeldBy(t) \intersect Settled = {}
  /\ check[t] = "dropped" => HeldBy(t) \intersect Listed(j) = {}
  /\ \A n \in Listed(j) \intersect Settled : check[t] = "mailed" /\ Recipient[n] = HeldUser(t)

LEMMA OneCheck ==
  ASSUME OnceInv, NEW t \in Tasks, NEW j \in Jobs, j = jobOf[t], OneJobStep(t)
  PROVE  Here(t, j) /\ (Here(t, j)' => OnePlace(j)')
<1>1. Checking(j) = {t} /\ Checking(j)' = {t}
  <2>1. t \in Checking(j) /\ \A x \in Checking(j) : x = t
    BY DEF OnceInv, OnePlace, OneJobStep, Checking
  <2>2. Checking(j)' = Checking(j)
    BY DEF OneJobStep, taskVars, Checking, Runs
  <2>3. QED
    BY <2>1, <2>2
<1>2. Here(t, j)
  BY <1>1 DEF OnceInv, OnePlace, Here
<1>3. Here(t, j)' => OnePlace(j)'
  BY <1>1 DEF OnePlace, Here
<1>4. QED
  BY <1>2, <1>3

\* Each step of the function keeps the invariant of its own job.
LEMMA CheckKeeps ==
  ASSUME BatchShape, OnceInv, NEW t \in Tasks, NEW j \in Jobs, j = jobOf[t],
         CheckStep(t), ~CheckEnds(t)
  PROVE  OneJobStep(t) /\ KeepsItsOwn(t, j) /\ Here(t, j)' /\ Once'
<1>1. OneJobStep(t) => Here(t, j)
  BY OneCheck
<1>2. \A x : Busy(x) => HeldBy(x) \subseteq Of(HeldUser(x)) \/ x \notin Tasks
  BY HeldOf DEF BatchShape
<1>3. CASE ReceiveNew(t)
  <2> DEFINE n == Head(newNotifications[j])
  <2>1. /\ OneJobStep(t) /\ KeepsItsOwn(t, j)
        /\ n \in Queued(j) /\ (Distinct(newNotifications[j]) => Queued(j)' = Queued(j) \ {n}
                                                                /\ Distinct(newNotifications'[j]))
        /\ Listed(j)' = Listed(j)
        /\ HeldBy(t)' = {m \in Listed(j) : Recipient[m] = Recipient[n]} \union {n}
        /\ check[t] = "receive" /\ check'[t] = "store" /\ UNCHANGED <<mailed, dropped>>
    BY <1>3, ReceiveGives
  <2>2. Here(t, j) /\ Settled' = Settled
    BY <1>1, <2>1 DEF Settled
  <2>3. Here(t, j)'
    BY <2>1, <2>2 DEF Here
  <2>4. QED
    BY <2>1, <2>3 DEF OnceInv, Once
<1>4. CASE StoreList(t)
  <2>1. /\ OneJobStep(t) /\ KeepsItsOwn(t, j)
        /\ UNCHANGED newNotifications
        /\ Listed(j)' = HeldBy(t) \union {n \in Listed(j) : Recipient[n] # HeldUser(t)}
        /\ HeldBy(t)' = {}
        /\ check[t] = "store" /\ check'[t] = "receive" /\ UNCHANGED <<mailed, dropped>>
    BY <1>4, StoreGives
  <2>2. Here(t, j) /\ Settled' = Settled /\ Queued(j)' = Queued(j)
    BY <1>1, <2>1 DEF Settled, Queued
  <2>3. Here(t, j)'
    BY <2>1, <2>2 DEF Here
  <2>4. QED
    BY <2>1, <2>3 DEF OnceInv, Once
<1>5. CASE NothingNew(t)
  <2>1. /\ OneJobStep(t) /\ KeepsItsOwn(t, j)
        /\ UNCHANGED <<newNotifications, pending, held, mailed, dropped>>
        /\ check[t] = "receive" /\ check'[t] = "range"
    BY <1>5, NothingGives
  <2>2. Here(t, j) /\ Settled' = Settled /\ Queued(j)' = Queued(j)
        /\ Listed(j)' = Listed(j) /\ HeldBy(t)' = HeldBy(t)
    BY <1>1, <2>1 DEF Settled, Queued, Listed, HeldBy
  <2>3. Here(t, j)'
    BY <2>1, <2>2 DEF Here
  <2>4. QED
    BY <2>1, <2>3 DEF OnceInv, Once
<1>6. ASSUME NEW u \in UserIds, NextUser(t, u)
      PROVE  OneJobStep(t) /\ KeepsItsOwn(t, j) /\ Here(t, j)' /\ Once'
  <2>1. /\ OneJobStep(t) /\ KeepsItsOwn(t, j)
        /\ UNCHANGED <<newNotifications, pending, mailed, dropped>>
        /\ HeldBy(t)' = {n \in Listed(j) : Recipient[n] = u}
        /\ check[t] = "range" /\ check'[t] \in {"range", "look"}
    BY <1>6, NextGives
  <2>2. Here(t, j) /\ Settled' = Settled /\ Queued(j)' = Queued(j) /\ Listed(j)' = Listed(j)
    BY <1>1, <2>1 DEF Settled, Queued, Listed
  <2>3. Here(t, j)'
    BY <2>1, <2>2 DEF Here
  <2>4. QED
    BY <2>1, <2>3 DEF OnceInv, Once
<1>7. CASE DropBatch(t)
  <2>1. /\ OneJobStep(t) /\ KeepsItsOwn(t, j)
        /\ UNCHANGED <<newNotifications, held, mailed, dropped>>
        /\ Listed(j)' = {n \in Listed(j) : Recipient[n] # HeldUser(t)}
        /\ check[t] = "look" /\ check'[t] = "dropped"
    BY <1>7, DropGives
  <2>2. Here(t, j) /\ Settled' = Settled /\ Queued(j)' = Queued(j) /\ HeldBy(t)' = HeldBy(t)
    BY <1>1, <2>1 DEF Settled, Queued, HeldBy
  <2>3. HeldBy(t) \subseteq Of(HeldUser(t))
    BY <1>2, <2>1 DEF Busy
  <2>4. Here(t, j)'
    BY <2>1, <2>2, <2>3 DEF Here, Of
  <2>5. QED
    BY <2>1, <2>4 DEF OnceInv, Once
<1>8. CASE KeepBatch(t)
  <2>1. /\ OneJobStep(t) /\ KeepsItsOwn(t, j)
        /\ UNCHANGED <<newNotifications, pending, mailed, dropped>>
        /\ HeldBy(t)' = {}
        /\ check[t] = "look" /\ check'[t] = "range"
    BY <1>8, KeepGives
  <2>2. Here(t, j) /\ Settled' = Settled /\ Queued(j)' = Queued(j) /\ Listed(j)' = Listed(j)
    BY <1>1, <2>1 DEF Settled, Queued, Listed
  <2>3. Here(t, j)'
    BY <2>1, <2>2 DEF Here
  <2>4. QED
    BY <2>1, <2>3 DEF OnceInv, Once
<1>9. CASE ForgetBatch(t)
  <2>1. /\ OneJobStep(t) /\ KeepsItsOwn(t, j)
        /\ UNCHANGED <<newNotifications, pending, mailed>>
        /\ HeldBy(t)' = {} /\ dropped' = dropped \union HeldBy(t)
        /\ check[t] = "dropped" /\ check'[t] = "range"
    BY <1>9, ForgetGives
  <2>2. Here(t, j) /\ Settled' = Settled \union HeldBy(t) /\ Queued(j)' = Queued(j)
        /\ Listed(j)' = Listed(j)
    BY <1>1, <2>1 DEF Settled, Queued, Listed
  <2>3. Here(t, j)'
    BY <2>1, <2>2 DEF Here
  <2>4. \A n \in HeldBy(t) : mailed[n] = 0
    <3>1. HeldBy(t) \intersect Settled = {} /\ HeldBy(t) \subseteq Notifications
      BY <2>1, <2>2 DEF Here, BatchShape, AllAdded, BatchTypes
    <3>2. QED
      BY <3>1 DEF Settled, BatchShape, BatchTypes
  <2>5. QED
    BY <2>1, <2>3, <2>4 DEF OnceInv, Once
<1>10. ASSUME NEW u \in UserIds, MailBatch(t, u)
       PROVE  OneJobStep(t) /\ KeepsItsOwn(t, j) /\ Here(t, j)' /\ Once'
  <2>1. /\ OneJobStep(t) /\ KeepsItsOwn(t, j)
        /\ UNCHANGED <<newNotifications, pending, held, dropped>>
        /\ Mail(HeldBy(t)) /\ Settled' = Settled \union HeldBy(t)
        /\ check[t] \in {"look", "dropped"} /\ check'[t] = "mailed"
    BY <1>10, MailGives
  <2>2. Here(t, j) /\ Queued(j)' = Queued(j) /\ HeldBy(t)' = HeldBy(t)
        /\ Listed(j)' = Listed(j) /\ HeldUser(t)' = HeldUser(t)
    BY <1>1, <2>1 DEF Queued, Listed, HeldBy, HeldUser
  <2>3. HeldBy(t) \subseteq Of(HeldUser(t))
    BY <1>2, <2>1 DEF Busy
  <2>4. Here(t, j)'
    BY <2>1, <2>2, <2>3 DEF Here, Of
  <2>5. \A n \in HeldBy(t) : mailed[n] = 0 /\ n \notin dropped /\ n \in Notifications
    <3>1. HeldBy(t) \intersect Settled = {} /\ HeldBy(t) \subseteq Notifications
      BY <2>1, <2>2 DEF Here, BatchShape, AllAdded, BatchTypes
    <3>2. QED
      BY <3>1 DEF Settled, BatchShape, BatchTypes
  <2>6. \A n \in Notifications : mailed'[n] = IF n \in HeldBy(t) THEN mailed[n] + 1 ELSE mailed[n]
    BY <2>1, MailedOf DEF BatchShape
  <2>7. \A n \in Notifications : mailed'[n] <= 1
    BY <2>5, <2>6 DEF OnceInv, Once
  <2>8. \A n \in dropped' : mailed'[n] = 0
    BY <2>1, <2>5, <2>6 DEF OnceInv, Once, BatchShape, BatchTypes
  <2>9. QED
    BY <2>1, <2>4, <2>7, <2>8 DEF Once
<1>11. CASE DeleteMailed(t)
  <2>1. /\ OneJobStep(t) /\ KeepsItsOwn(t, j)
        /\ UNCHANGED <<newNotifications, mailed, dropped>>
        /\ Listed(j)' = {n \in Listed(j) : Recipient[n] # HeldUser(t)}
        /\ HeldBy(t)' = {}
        /\ check[t] = "mailed" /\ check'[t] = "range"
    BY <1>11, DeleteGives
  <2>2. Here(t, j) /\ Settled' = Settled /\ Queued(j)' = Queued(j)
    BY <1>1, <2>1 DEF Settled, Queued
  <2>3. Here(t, j)'
    BY <2>1, <2>2 DEF Here
  <2>4. QED
    BY <2>1, <2>3 DEF OnceInv, Once
<1>12. QED
  BY <1>3, <1>4, <1>5, <1>6, <1>7, <1>8, <1>9, <1>10, <1>11 DEF CheckStep

LEMMA CheckShape ==
  ASSUME BatchShape, NEW t \in Tasks, NEW j \in Jobs, j = jobOf[t],
         CheckStep(t), ~CheckEnds(t)
  PROVE  OneJobStep(t) /\ KeepsItsOwn(t, j)
BY ReceiveGives, StoreGives, NothingGives, NextGives, DropGives, KeepGives, ForgetGives,
   MailGives, DeleteGives
   DEF CheckStep

LEMMA CheckKeepsInv ==
  ASSUME BatchInv, TaskInv, NEW t \in Tasks, CheckStep(t), ~CheckEnds(t)
  PROVE  BatchInv'
<1>1. Runs(t)
  BY DEF CheckStep, ReceiveNew, StoreList, NothingNew, NextUser, DropBatch, KeepBatch,
         ForgetBatch, MailBatch, DeleteMailed, Goes
<1>2. PICK j \in Jobs : j = jobOf[t]
  BY <1>1 DEF TaskInv, OfJobs, Runs
<1>3. OneJobStep(t) /\ KeepsItsOwn(t, j)
  BY <1>2, CheckShape DEF BatchInv
<1>4. BatchShape'
  BY <1>2, <1>3, ShapeKept DEF BatchInv
<1>5. overlapped' = overlapped
  BY <1>3 DEF OneJobStep
<1>6. ASSUME ~overlapped PROVE OnceInv'
  <2>1. OnceInv
    BY <1>6 DEF BatchInv
  <2>2. Here(t, j)' /\ Once'
    BY <1>2, <2>1, CheckKeeps DEF BatchInv
  <2>3. OnePlace(j)'
    BY <1>2, <1>3, <2>1, <2>2, OneCheck
  <2>4. QED
    BY <1>2, <1>3, <2>1, <2>2, <2>3, OthersKept DEF BatchInv
<1>7. QED
  BY <1>4, <1>5, <1>6 DEF BatchInv

\* A step that moves no notification, and disturbs no check that holds some.
LEMMA NothingMoves ==
  ASSUME BatchInv, BatchTypes', Tidy',
         UNCHANGED <<newNotifications, pending, held, added, mailed, dropped>>,
         \A x \in Tasks : Busy(x) \/ Busy(x)' =>
           Runs(x) /\ Runs(x)' /\ jobOf'[x] = jobOf[x] /\ check'[x] = check[x],
         ~overlapped' => ~overlapped /\ \A k \in Jobs : \A t, x \in Checking(k)' : t = x
  PROVE  BatchInv'
<1>1. /\ Settled' = Settled /\ \A k : Queued(k)' = Queued(k) /\ Listed(k)' = Listed(k)
      /\ \A x : HeldBy(x)' = HeldBy(x) /\ HeldUser(x)' = HeldUser(x)
  BY DEF Settled, Queued, Listed, HeldBy, HeldUser
<1>2. AllAdded'
  BY <1>1 DEF BatchInv, BatchShape, AllAdded
<1>3. \A x \in Tasks : HeldBy(x) # {} => Busy(x)
  BY ElemsOfEmpty DEF BatchInv, BatchShape, Tidy, HeldBy
<1>4. \A k \in Jobs, x \in Tasks : Busy(x) \/ Busy(x)' => (x \in Checking(k)' <=> x \in Checking(k))
  BY DEF Checking
<1>5. ASSUME ~overlapped' PROVE OnceInv'
  <2>1. OnceInv /\ \A k \in Jobs : \A t, x \in Checking(k)' : t = x
    BY <1>5 DEF BatchInv
  <2>2. ASSUME NEW k \in Jobs PROVE Own(k)' \subseteq Own(k)
    <3>1. Own(k) = Queued(k) \union Listed(k) \union UNION {HeldBy(x) : x \in Checking(k)}
      BY DEF Own, Checking
    <3>2. Own(k)' = Queued(k)' \union Listed(k)' \union UNION {HeldBy(x)' : x \in Checking(k)'}
      BY DEF Own, Checking
    <3>3. \A x \in Checking(k)' : HeldBy(x)' # {} => x \in Checking(k) /\ HeldBy(x)' = HeldBy(x)
      BY <1>1, <1>3, <1>4 DEF Checking
    <3>4. QED
      BY <1>1, <3>1, <3>2, <3>3
  <2>3. Apart'
    BY <2>1, <2>2 DEF OnceInv, Apart
  <2>4. Once'
    BY <2>1 DEF OnceInv, Once
  <2>5. ASSUME NEW k \in Jobs PROVE OnePlace(k)'
    <3>1. OnePlace(k)
      BY <2>1 DEF OnceInv
    <3>2. Distinct(newNotifications'[k])
      BY <3>1 DEF OnePlace
    <3>3. \A x \in Checking(k)' :
            /\ Queued(k)' \intersect HeldBy(x)' = {}
            /\ check'[x] \in {"store", "look", "dropped"} => HeldBy(x)' \intersect Settled' = {}
            /\ check'[x] = "dropped" => HeldBy(x)' \intersect Listed(k)' = {}
      <4> TAKE x \in Checking(k)'
      <4>1. CASE Busy(x)
        BY <1>1, <1>4, <3>1, <4>1 DEF OnePlace, Checking
      <4>2. CASE ~Busy(x)
        <5>1. HeldBy(x)' = {}
          BY <1>1, <1>3, <4>2 DEF Checking
        <5>2. QED
          BY <5>1
      <4>3. QED
        BY <4>1, <4>2
    <3>4. \A n \in Listed(k)' \intersect Settled' :
            \E x \in Checking(k)' : check'[x] = "mailed" /\ Recipient[n] = HeldUser(x)'
      <4> TAKE n \in Listed(k)' \intersect Settled'
      <4>1. PICK x \in Checking(k) : check[x] = "mailed" /\ Recipient[n] = HeldUser(x)
        BY <1>1, <3>1 DEF OnePlace
      <4>2. Busy(x) /\ x \in Tasks
        BY <4>1 DEF Busy, Checking
      <4>3. x \in Checking(k)' /\ check'[x] = check[x]
        BY <1>4, <4>2
      <4>4. QED
        BY <1>1, <4>1, <4>3
    <3>5. QED
      BY <1>1, <2>1, <3>1, <3>2, <3>3, <3>4 DEF OnePlace
  <2>6. QED
    BY <2>3, <2>4, <2>5 DEF OnceInv
<1>6. QED
  BY <1>2, <1>5 DEF BatchInv, BatchShape

\* The steps of the tasks alone: a check goes on in the same job.
LEMMA TaskStepKeeps ==
  ASSUME BatchInv, TaskInv, UNCHANGED batchVars,
         \/ UNCHANGED taskVars
         \/ \E t \in Tasks : EndTask(t)
         \/ \E s \in Starters : FindJob(s) \/ StartStep(s)
  PROVE  BatchInv'
<1>1. \A x \in Tasks : Runs(x)' = Runs(x) /\ (Runs(x) => jobOf'[x] = jobOf[x])
  <2>1. CASE UNCHANGED taskVars
    BY <2>1 DEF taskVars, Runs
  <2>2. ASSUME NEW t \in Tasks, EndTask(t)
        PROVE  \A x \in Tasks : Runs(x)' = Runs(x) /\ (Runs(x) => jobOf'[x] = jobOf[x])
    BY <2>2 DEF EndTask, TaskGoes, SetState, Runs, TaskInv, TaskTypeOK
  <2>3. ASSUME NEW s \in Starters, FindJob(s) \/ StartStep(s)
        PROVE  \A x \in Tasks : Runs(x)' = Runs(x) /\ (Runs(x) => jobOf'[x] = jobOf[x])
    <3>1. CASE CreateTask(s)
      BY <3>1 DEF CreateTask, SetState, Runs, TaskInv, TaskTypeOK
    <3>2. CASE ~CreateTask(s)
      BY <2>3, <3>2 DEF FindJob, StartStep, CreateJob, SwapTask, CloseCancel, AwaitCancelled, Runs
    <3>3. QED
      BY <3>1, <3>2
  <2>4. QED
    BY <2>1, <2>2, <2>3
<1>2. BatchTypes' /\ Tidy'
  BY <1>1 DEF BatchInv, BatchShape, BatchTypes, Tidy, batchVars, Busy
<1>3. \A x \in Tasks : Busy(x) \/ Busy(x)' =>
        Runs(x) /\ Runs(x)' /\ jobOf'[x] = jobOf[x] /\ check'[x] = check[x]
  BY <1>1 DEF BatchInv, BatchShape, Tidy, batchVars, Busy
<1>4. ~overlapped' => ~overlapped /\ \A k \in Jobs : \A t, x \in Checking(k)' : t = x
  <2>1. \A k \in Jobs : Checking(k)' = Checking(k)
    BY <1>1 DEF Checking
  <2>2. QED
    BY <2>1 DEF batchVars, BatchInv, OnceInv, OnePlace
<1>5. QED
  BY <1>2, <1>3, <1>4, NothingMoves DEF batchVars

\* A tick: the check holds nothing yet, and another of the job is an overlap.
LEMMA TickKeeps ==
  ASSUME BatchInv, TaskInv, NEW t \in Tasks, Tick(t)
  PROVE  BatchInv'
<1>1. /\ state[t] = "waiting" /\ state' = [state EXCEPT ![t] = "running"] /\ jobOf' = jobOf
      /\ overlapped' = (overlapped \/ \E x \in Tasks : Runs(x) /\ jobOf[x] = jobOf[t])
      /\ UNCHANGED <<newNotifications, pending, check, held, unchecked, added, mailed, dropped>>
  BY DEF Tick, TickTask, TaskGoes, SetState
<1>2. ~Runs(t) /\ Runs(t)' /\ \A x \in Tasks \ {t} : Runs(x)' = Runs(x)
  BY <1>1 DEF Runs, TaskInv, TaskTypeOK
<1>3. BatchTypes' /\ Tidy'
  BY <1>1, <1>2 DEF BatchInv, BatchShape, BatchTypes, Tidy, Busy
<1>4. \A x \in Tasks : Busy(x) \/ Busy(x)' =>
        Runs(x) /\ Runs(x)' /\ jobOf'[x] = jobOf[x] /\ check'[x] = check[x]
  BY <1>1, <1>2 DEF BatchInv, BatchShape, Tidy, Busy
<1>5. ~overlapped' => ~overlapped /\ \A k \in Jobs : \A y, x \in Checking(k)' : y = x
  <2> SUFFICES ASSUME ~overlapped', NEW k \in Jobs, NEW y \in Checking(k)', NEW x \in Checking(k)'
               PROVE  ~overlapped /\ y = x
    BY <1>1
  <2>1. ~overlapped /\ \A z \in Tasks : ~(Runs(z) /\ jobOf[z] = jobOf[t])
    BY <1>1
  <2>2. \A z \in Checking(k)' : z \in Tasks /\ jobOf[z] = k /\ (z = t \/ Runs(z))
    BY <1>1, <1>2 DEF Checking
  <2>3. \A z, w \in Checking(k) : z = w
    <3>1. OnePlace(k)
      BY <2>1 DEF BatchInv, OnceInv
    <3>2. QED
      BY <3>1 DEF OnePlace
  <2>4. CASE y = t \/ x = t
    BY <2>1, <2>2, <2>4
  <2>5. CASE y # t /\ x # t
    <3>1. y \in Tasks /\ jobOf[y] = k /\ Runs(y) /\ x \in Tasks /\ jobOf[x] = k /\ Runs(x)
      BY <2>2, <2>5
    <3>2. y \in Checking(k) /\ x \in Checking(k)
      BY <3>1 DEF Checking
    <3>3. QED
      BY <2>1, <2>3, <3>2
  <2>6. QED
    BY <2>1, <2>4, <2>5
<1>6. QED
  BY <1>1, <1>3, <1>4, <1>5, NothingMoves

LEMMA EndsKeeps ==
  ASSUME BatchInv, TaskInv, NEW t \in Tasks, CheckEnds(t)
  PROVE  BatchInv'
<1>1. /\ state[t] = "running" /\ state' = [state EXCEPT ![t] = "waiting"] /\ jobOf' = jobOf
      /\ check[t] = "range" /\ check' = [check EXCEPT ![t] = "receive"]
      /\ UNCHANGED <<newNotifications, pending, held, unchecked, added, mailed, dropped, overlapped>>
  BY DEF CheckEnds, FunctionReturns, TaskGoes, SetState
<1>2. ~Runs(t)' /\ \A x \in Tasks \ {t} : Runs(x)' = Runs(x) /\ check'[x] = check[x]
  BY <1>1 DEF Runs, TaskInv, TaskTypeOK, BatchInv, BatchShape, BatchTypes
<1>3. ~Busy(t) /\ ~Busy(t)' /\ check'[t] = "receive" /\ \A x \in Tasks \ {t} : Busy(x)' = Busy(x)
  BY <1>1, <1>2 DEF Busy, BatchInv, BatchShape, BatchTypes
<1>4. BatchTypes'
  <2>1. check' \in [Tasks -> {"receive", "store", "range", "look", "dropped", "mailed"}]
    BY <1>1 DEF BatchInv, BatchShape, BatchTypes
  <2>2. QED
    BY <1>1, <2>1 DEF BatchInv, BatchShape, BatchTypes
<1>5. Tidy'
  BY <1>1, <1>2, <1>3 DEF BatchInv, BatchShape, Tidy
<1>6. \A x \in Tasks : Busy(x) \/ Busy(x)' =>
        Runs(x) /\ Runs(x)' /\ jobOf'[x] = jobOf[x] /\ check'[x] = check[x]
  BY <1>1, <1>2, <1>3 DEF BatchInv, BatchShape, Tidy, Busy
<1>7. ~overlapped' => ~overlapped /\ \A k \in Jobs : \A y, x \in Checking(k)' : y = x
  BY <1>1, <1>2 DEF Checking, BatchInv, OnceInv, OnePlace
<1>8. QED
  BY <1>1, <1>4, <1>5, <1>6, <1>7, NothingMoves

\* A notification that was not added is nowhere: it goes to the channel of one
\* job, or to the mailer.
LEMMA AddKeeps ==
  ASSUME BatchInv, TaskInv, NEW n \in Notifications, AddNotification(n)
  PROVE  BatchInv'
<1> USE DEF BatchInv, BatchShape
<1>1. /\ n \notin added /\ added' = added \union {n} /\ emailBatching # NoJob
      /\ UNCHANGED <<taskVars, pending, check, held, unchecked, dropped, overlapped>>
  BY DEF AddNotification, Adding
<1>2. PICK j \in Jobs : j = emailBatching
  BY <1>1 DEF TaskInv, TaskTypeOK
<1>3. /\ \A k : Listed(k)' = Listed(k) /\ Checking(k)' = Checking(k)
      /\ \A x : HeldBy(x)' = HeldBy(x) /\ HeldUser(x)' = HeldUser(x)
  BY <1>1 DEF Listed, HeldBy, HeldUser, Checking, Runs, taskVars
<1>4. Tidy'
  BY <1>1 DEF Tidy, Busy, Runs, taskVars
<1>5. \A k \in Jobs : n \notin Own(k) /\ n \notin Queued(k) /\ n \notin Listed(k)
  BY <1>1, OwnAdded DEF Own
<1>6. n \notin Settled /\ \A x \in Tasks : n \notin HeldBy(x)
  BY <1>1 DEF AllAdded
<1>7. CASE /\ Len(newNotifications[j]) < BufferSize
           /\ newNotifications' = [newNotifications EXCEPT ![j] = Append(newNotifications[j], n)]
           /\ UNCHANGED mailed
  <2>1. newNotifications[j] \in Seq(Notifications)
    BY DEF BatchTypes
  <2>2. /\ Append(newNotifications[j], n) \in Seq(Notifications)
        /\ Len(Append(newNotifications[j], n)) <= BufferSize
    BY <1>7, <2>1, BatchAssumption
  <2>3. Elems(Append(newNotifications[j], n)) = Elems(newNotifications[j]) \union {n}
    BY <2>1, ElemsOfAppend
  <2>4. /\ newNotifications' \in [Jobs -> Seq(Notifications)]
        /\ newNotifications'[j] = Append(newNotifications[j], n)
        /\ \A k \in Jobs \ {j} : newNotifications'[k] = newNotifications[k]
    BY <1>7, <2>2 DEF BatchTypes
  <2>5. Queued(j)' = Queued(j) \union {n} /\ \A k \in Jobs \ {j} : Queued(k)' = Queued(k)
    BY <2>3, <2>4 DEF Queued
  <2>6. Settled' = Settled
    BY <1>1, <1>7 DEF Settled
  <2>7. \A k \in Jobs : Len(newNotifications'[k]) <= BufferSize
    BY <2>2, <2>4 DEF BatchTypes
  <2>8. BatchTypes'
    BY <1>1, <1>7, <2>4, <2>7 DEF BatchTypes
  <2>9. AllAdded'
    BY <1>1, <1>3, <2>5, <2>6 DEF AllAdded
  <2>10. ASSUME ~overlapped PROVE OnceInv'
    <3>1. Distinct(newNotifications[j]) => Distinct(newNotifications'[j])
      <4>1. n \notin Elems(newNotifications[j])
        BY <1>5 DEF Queued
      <4>2. QED
        BY <2>1, <2>4, <4>1, DistinctAppend
    <3>2. \A k \in Jobs : OnePlace(k)'
      <4> SUFFICES ASSUME NEW k \in Jobs PROVE OnePlace(k)'
        OBVIOUS
      <4>1. OnePlace(k) /\ check' = check
        BY <1>1, <2>10 DEF OnceInv
      <4>2. Distinct(newNotifications'[k])
        BY <2>4, <3>1, <4>1 DEF OnePlace
      <4>3. Queued(k)' \subseteq Queued(k) \union {n}
        BY <2>5
      <4>4. \A x \in Checking(k) : n \notin HeldBy(x)
        BY <1>6 DEF Checking
      <4>5. QED
        BY <1>3, <1>5, <1>6, <2>6, <4>1, <4>2, <4>3, <4>4 DEF OnePlace
    <3>3. \A k \in Jobs : Own(k)' \subseteq Own(k) \union IF k = j THEN {n} ELSE {}
      BY <1>1, <1>3, <2>5 DEF Own, Runs, taskVars
    <3>4. Apart'
      BY <1>5, <2>10, <3>3 DEF OnceInv, Apart
    <3>5. Once'
      BY <1>1, <1>7, <2>10 DEF OnceInv, Once
    <3>6. QED
      BY <3>2, <3>4, <3>5 DEF OnceInv
  <2>11. QED
    BY <1>1, <1>4, <2>8, <2>9, <2>10
<1>8. CASE Mail({n}) /\ UNCHANGED newNotifications
  <2>1. /\ mailed' \in [Notifications -> Nat] /\ mailed'[n] = mailed[n] + 1
        /\ \A m \in Notifications \ {n} : mailed'[m] = mailed[m]
    BY <1>8, MailedOf
  <2>2. Settled' = Settled \union {n}
    BY <1>1, <2>1 DEF Settled, BatchTypes
  <2>3. \A k : Queued(k)' = Queued(k)
    BY <1>8 DEF Queued
  <2>4. BatchTypes'
    BY <1>1, <1>8, <2>1 DEF BatchTypes
  <2>5. AllAdded'
    BY <1>1, <1>3, <2>2, <2>3 DEF AllAdded
  <2>6. ASSUME ~overlapped PROVE OnceInv'
    <3>1. \A k \in Jobs : OnePlace(k)'
      BY <1>1, <1>3, <1>5, <1>6, <1>8, <2>2, <2>3, <2>6 DEF OnceInv, OnePlace, Checking
    <3>2. \A k \in Jobs : Own(k)' = Own(k)
      BY <1>1, <1>3, <2>3 DEF Own, Runs, taskVars
    <3>3. Apart'
      BY <2>6, <3>2 DEF OnceInv, Apart
    <3>4. mailed[n] = 0 /\ n \notin dropped
      BY <1>6 DEF Settled, BatchTypes
    <3>5. Once'
      <4>1. Once /\ dropped' = dropped /\ dropped \subseteq Notifications
        BY <1>1, <2>6 DEF OnceInv, BatchTypes
      <4>2. \A m \in Notifications : mailed'[m] <= 1
        BY <2>1, <3>4, <4>1 DEF Once
      <4>3. \A m \in dropped : mailed'[m] = 0
        BY <2>1, <3>4, <4>1 DEF Once
      <4>4. QED
        BY <4>1, <4>2, <4>3 DEF Once
    <3>6. QED
      BY <3>1, <3>3, <3>5 DEF OnceInv
  <2>7. QED
    BY <1>1, <1>4, <2>4, <2>5, <2>6
<1>9. QED
  BY <1>2, <1>7, <1>8 DEF AddNotification, Queue

LEMMA BatchInvInit == EmailInit => BatchInv
<1> SUFFICES ASSUME EmailInit PROVE BatchInv
  OBVIOUS
<1>1. BatchShape
  BY ShapeInit
<1>2. /\ \A j \in Jobs : Distinct(newNotifications[j]) /\ Queued(j) = {} /\ Listed(j) = {}
      /\ \A t \in Tasks : HeldBy(t) = {}
      /\ added = {}
  BY ElemsOfEmpty, BatchAssumption DEF EmailInit, Distinct, Queued, Listed, HeldBy
<1>3. \A t \in Tasks : ~Runs(t)
  BY DEF EmailInit, TaskInit, Runs
<1>4. \A j \in Jobs : OnePlace(j) /\ Own(j) = {}
  BY <1>2, <1>3 DEF OnePlace, Own, Checking
<1>5. Once
  BY DEF EmailInit, Once
<1>6. QED
  BY <1>1, <1>4, <1>5 DEF BatchInv, OnceInv, Apart

LEMMA BatchInvNext == TaskInv /\ BatchInv /\ [EmailNext]_emailVars => BatchInv'
<1> SUFFICES ASSUME TaskInv, BatchInv, [EmailNext]_emailVars PROVE BatchInv'
  OBVIOUS
<1>1. CASE UNCHANGED emailVars
  BY <1>1, TaskStepKeeps DEF emailVars
<1>2. ASSUME NEW n \in Notifications, AddNotification(n) PROVE BatchInv'
  BY <1>2, AddKeeps
<1>3. ASSUME NEW t \in Tasks, Tick(t) \/ CheckStep(t) PROVE BatchInv'
  BY <1>3, TickKeeps, EndsKeeps, CheckKeepsInv
<1>4. ASSUME NEW t \in Tasks, EndTask(t), UNCHANGED batchVars PROVE BatchInv'
  BY <1>4, TaskStepKeeps
<1>5. ASSUME NEW s \in Starters, FindJob(s) \/ StartStep(s), UNCHANGED batchVars PROVE BatchInv'
  BY <1>5, TaskStepKeeps
<1>6. QED
  BY <1>1, <1>2, <1>3, <1>4, <1>5 DEF EmailNext

LEMMA EmailInvHolds == EmailSpec => [](TaskInv /\ BatchInv)
<1>1. EmailInit => TaskInv /\ BatchInv
  BY TaskInvInit, BatchInvInit DEF EmailInit
<1>2. TaskInv /\ BatchInv /\ [EmailNext]_emailVars => TaskInv' /\ BatchInv'
  BY EmailStepIsTaskStep, TaskInvNext, BatchInvNext
<1>3. QED
  BY <1>1, <1>2, PTL DEF EmailSpec

\* The variables of the jobs and of their tasks keep their types: no channel
\* holds more than it has room for, and each list, whatever checks overlap, only
\* notifications of its user (EmailBatchingJob.Add, handleNewNotifications).
THEOREM EmailTypes == EmailSpec => []EmailTypeOK
<1>1. TaskInv /\ BatchInv => EmailTypeOK
  <2>1. BatchShape => dropped \subseteq added
    BY DEF BatchShape, AllAdded, Settled
  <2>2. BatchTypes => \A j \in Jobs : \A u \in UserIds : pending[j][u] \in Seq({n \in Notifications : Recipient[n] = u})
    BY DEF BatchTypes, Of
  <2>3. QED
    BY <2>1, <2>2 DEF TaskInv, BatchInv, BatchShape, BatchTypes, EmailTypeOK
<1>2. QED
  BY <1>1, EmailInvHolds, PTL

\* With any number of notifications, users, jobs and tasks, and however often
\* the task is replaced: a notification is handed to the mailer once at most,
\* and not when it was dropped, until two checks of a job overlap
\* (EmailBatchingJob.Add, handleNewNotifications, checkPendingNotifications).
THEOREM NeverMailedTwice == EmailSpec => []MailedOnce
<1>1. BatchInv => MailedOnce
  BY DEF BatchInv, OnceInv, Once, MailedOnce
<1>2. QED
  BY <1>1, EmailInvHolds, PTL
=============================================================================

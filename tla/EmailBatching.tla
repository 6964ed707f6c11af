---------------------------- MODULE EmailBatching ----------------------------
(***************************************************************************)
(* The email batching job: Add queues a notification or, if the channel is *)
(* full, has it mailed at once; CheckPendingEmails, run by the task of the *)
(* job, moves what is queued to the lists of the users and mails a list    *)
(* when it is old enough, or drops it when the user has been active.       *)
(*                                                                         *)
(* The lists have no lock: the task is the only one to touch them, unless  *)
(* its successor ticks while a long check still runs.  A check reads a     *)
(* list, asks the database about it, and deletes it later; what it read is *)
(* in `held' meanwhile.                                                    *)
(***************************************************************************)
EXTENDS RecurringTask, KeyLists

CONSTANTS Notifications, UserIds, Recipient, BufferSize

ASSUME BatchAssumption == Recipient \in [Notifications -> UserIds] /\ BufferSize \in Nat

VARIABLES
  newNotifications,      \* of each job: the channel
  pending,               \* pendingNotifications of each job: a list of each user, empty if none
  check, held, unchecked,\* of each task: where its function is, the list it
                         \* holds, and the users it has still to look at
  added,                 \* those Add was called with
  mailed,                \* how often each was handed to the mailer, which tries once
  dropped,
  overlapped             \* history: two tasks of a job ran its function at once

batchVars ==
  <<newNotifications, pending, check, held, unchecked, added, mailed, dropped, overlapped>>
emailVars == <<taskVars, batchVars>>

EmailInit ==
  /\ TaskInit
  /\ newNotifications = [j \in Jobs |-> <<>>]
  /\ pending = [j \in Jobs |-> [u \in UserIds |-> <<>>]]
  /\ check = [t \in Tasks |-> "receive"]
  /\ held = [t \in Tasks |-> <<>>]
  /\ unchecked = [t \in Tasks |-> {}]
  /\ added = {} /\ dropped = {}
  /\ mailed = [n \in Notifications |-> 0]
  /\ overlapped = FALSE

Settled == dropped \union {n \in Notifications : mailed[n] > 0}

\* server.Go(handler): a mail that fails is logged and forgotten.
Mail(S) == mailed' = [n \in Notifications |-> IF n \in S THEN mailed[n] + 1 ELSE mailed[n]]

Queue(j, n) == newNotifications' = [newNotifications EXCEPT ![j] = Append(@, n)]

\* Each notification is added once, and not before there is a job.
Adding(n) ==
  /\ emailBatching # NoJob
  /\ n \in Notifications \ added /\ n = Some(Notifications \ added)
  /\ added' = added \union {n}
  /\ UNCHANGED <<taskVars, pending, check, held, unchecked, dropped, overlapped>>

\* `AddAlways' has no bound.
AddAlways(n) == Adding(n) /\ Queue(emailBatching, n) /\ UNCHANGED mailed

AddNotification(n) ==
  /\ Adding(n)
  /\ \/ Len(newNotifications[emailBatching]) < BufferSize
        /\ Queue(emailBatching, n) /\ UNCHANGED mailed
     \/ Len(newNotifications[emailBatching]) >= BufferSize
        /\ Mail({n}) /\ UNCHANGED newNotifications

Runs(t) == state[t] = "running"

\* A tick of the ticker: the function starts.
Tick(t) ==
  /\ TickTask(t)
  /\ overlapped' = (overlapped \/ \E x \in Tasks : Runs(x) /\ jobOf[x] = jobOf[t])
  /\ UNCHANGED <<newNotifications, pending, check, held, unchecked, added, mailed, dropped>>

----------------------------------------------------------------------------
(* The steps of the function.                                              *)

Goes(t, from, to) ==
  /\ Runs(t) /\ check[t] = from /\ check' = [check EXCEPT ![t] = to]
  /\ UNCHANGED <<taskVars, added, overlapped>>

Hold(t, list) == held' = [held EXCEPT ![t] = list]

\* The list it holds belongs to one user.
HeldUser(t) == Recipient[Head(held[t])]
SetList(t, list) == pending' = [pending EXCEPT ![jobOf[t]][HeldUser(t)] = list]

\* `StartList' loses the list there was.
StartList(list, n) == <<n>>
ListNew(list, n) == Append(list, n)

\* handleNewNotifications, until the channel is empty: it reads the list of
\* the recipient, and stores the longer one.
ReceiveNew(t) ==
  LET j == jobOf[t]
      n == Head(newNotifications[j])
  IN  /\ Goes(t, "receive", "store")
      /\ newNotifications[j] # <<>>
      /\ newNotifications' = [newNotifications EXCEPT ![j] = Tail(@)]
      /\ Hold(t, ListNew(pending[j][Recipient[n]], n))
      /\ UNCHANGED <<pending, unchecked, mailed, dropped>>

StoreList(t) ==
  /\ Goes(t, "store", "receive")
  /\ SetList(t, held[t]) /\ Hold(t, <<>>)
  /\ UNCHANGED <<newNotifications, unchecked, mailed, dropped>>

NothingNew(t) ==
  /\ Goes(t, "receive", "range")
  /\ newNotifications[jobOf[t]] = <<>>
  /\ unchecked' = [unchecked EXCEPT ![t] = {u \in UserIds : pending[jobOf[t]][u] # <<>>}]
  /\ UNCHANGED <<newNotifications, pending, held, mailed, dropped>>

\* checkPendingNotifications ranges over the map and meets each user once,
\* unless the list has been deleted.
NextUser(t, u) ==
  LET list == pending[jobOf[t]][u]
  IN  /\ Goes(t, "range", IF list = <<>> THEN "range" ELSE "look")
      /\ u \in unchecked[t] /\ unchecked' = [unchecked EXCEPT ![t] = @ \ {u}]
      /\ Hold(t, list)
      /\ UNCHANGED <<newNotifications, pending, mailed, dropped>>

\* `Leave' does not delete the list that was dealt with.
Leave(t) == UNCHANGED pending
DeleteList(t) == SetList(t, <<>>)

\* The database says that the user has been active since, which may be so at
\* any time: the list is deleted, and looked at further.
DropBatch(t) ==
  /\ Goes(t, "look", "dropped")
  /\ DeleteList(t)
  /\ UNCHANGED <<newNotifications, held, unchecked, mailed, dropped>>

\* The interval of the user is not over.
KeepBatch(t) ==
  /\ Goes(t, "look", "range")
  /\ Hold(t, <<>>)
  /\ UNCHANGED <<newNotifications, pending, unchecked, mailed, dropped>>

ForgetBatch(t) ==
  /\ Goes(t, "dropped", "range")
  /\ dropped' = dropped \union Elems(held[t])
  /\ Hold(t, <<>>)
  /\ UNCHANGED <<newNotifications, pending, unchecked, mailed>>

\* It is over: the list is mailed, dropped or not, and deleted.
MailBatch(t, u) ==
  /\ \E from \in {"look", "dropped"} : Goes(t, from, "mailed")
  /\ u = HeldUser(t)
  /\ Mail(Elems(held[t]))
  /\ UNCHANGED <<newNotifications, pending, held, unchecked, dropped>>

DeleteMailed(t) ==
  /\ Goes(t, "mailed", "range")
  /\ DeleteList(t) /\ Hold(t, <<>>)
  /\ UNCHANGED <<newNotifications, unchecked, mailed, dropped>>

CheckEnds(t) ==
  /\ check[t] = "range" /\ unchecked[t] = {}
  /\ FunctionReturns(t)
  /\ check' = [check EXCEPT ![t] = "receive"]
  /\ UNCHANGED <<newNotifications, pending, held, unchecked, added, mailed, dropped,
                 overlapped>>

CheckStep(t) ==
  \/ ReceiveNew(t) \/ StoreList(t) \/ NothingNew(t)
  \/ DropBatch(t) \/ KeepBatch(t) \/ ForgetBatch(t) \/ DeleteMailed(t)
  \/ CheckEnds(t)
  \/ \E u \in UserIds : NextUser(t, u) \/ MailBatch(t, u)

EmailNext ==
  \/ \E n \in Notifications : AddNotification(n)
  \/ \E t \in Tasks : Tick(t) \/ CheckStep(t)
  \/ \E t \in Tasks : EndTask(t) /\ UNCHANGED batchVars
  \/ \E s \in Starters : (FindJob(s) \/ StartStep(s)) /\ UNCHANGED batchVars

EmailSpec == EmailInit /\ [][EmailNext]_emailVars

\* Goroutines run, a ticker goes on ticking, a select that can be left is left
\* at last, and a list gets old.
EmailFairness ==
  /\ \A s \in Starters : WF_emailVars(StartStep(s) /\ UNCHANGED batchVars)
  /\ \A t \in Tasks : /\ SF_emailVars(EndTask(t) /\ UNCHANGED batchVars)
                      /\ WF_emailVars(Tick(t)) /\ WF_emailVars(CheckStep(t))
                      /\ \A u \in UserIds : SF_emailVars(MailBatch(t, u))

FairEmailSpec == EmailSpec /\ EmailFairness

----------------------------------------------------------------------------
(* Properties. *)

\* The types of the state.
EmailTypeOK ==
  /\ TaskTypeOK
  /\ \A j \in Jobs : /\ newNotifications[j] \in Seq(Notifications)
                     /\ Len(newNotifications[j]) <= BufferSize
                     /\ \A u \in UserIds : pending[j][u] \in Seq({n \in Notifications : Recipient[n] = u})
  /\ check \in [Tasks -> {"receive", "store", "range", "look", "dropped", "mailed"}]
  /\ \A t \in Tasks : held[t] \in Seq(Notifications)
  /\ unchecked \in [Tasks -> SUBSET UserIds]
  /\ dropped \subseteq added /\ added \subseteq Notifications
  /\ mailed \in [Notifications -> Nat]
  /\ overlapped \in BOOLEAN

\* However often the task is replaced, a notification is handed to the mailer
\* once at most, and not if it was dropped, unless two checks of the job
\* overlapped: the second may read a list that the first has mailed and not
\* deleted yet (EmailBatchingJob.checkPendingNotifications).
MailedOnce ==
  ~overlapped =>
    /\ \A n \in Notifications : mailed[n] <= 1
    /\ \A n \in dropped : mailed[n] = 0

\* Every notification is dropped or handed to the mailer at last, also when the
\* task that would have done it is cancelled.  It is lost when two checks
\* overlap and one deletes what the other has appended, and when the job that
\* queued it is replaced by another before it was started
\* (EmailBatchingJob.Add, CheckPendingEmails, InitEmailBatching).
AllSettled ==
  \A n \in Notifications : n \in added ~> n \in Settled \/ overlapped \/ twoJobs

\* Starting the job comes to its end: Cancel returns.
StartReturns == \A s \in Starters : starter[s] # "idle" ~> starter[s] = "idle"
=============================================================================

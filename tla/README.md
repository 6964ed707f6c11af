# A formal model of the Mattermost server

TLA+ models of the concurrent core of the server in `src/`, the TLC runs that
check them on small instances, and theorems about them checked by TLAPS.

The server is a Go process: goroutines that talk through channels, a SQL
database shared with the other servers of a cluster, and WebSocket connections
to clients. Two parts are modelled in depth: the **migrations job** of the job
server, and a **hub** with its WebSocket connections. Around them stand nine
smaller ones, each with a protocol of its own: the LRU cache, the
deduplication of posts, the plugins' key-value store, the processes of the
plugins, the wait for goroutines, the busy state, recurring tasks, the email
batches, and the page for unsupported browsers.

## The system

| Part (source) | State | Operations | Interacts with |
|---|---|---|---|
| Migrations job (`migrations/`) | progress of the current job, "all completed" flag | schedule, claim, run a batch, save progress, record, fail, cancel | Jobs and Systems tables, job server |
| Job server (`jobs/`) | next run times, leadership, watcher and worker goroutines | start, stop, poll, schedule, request cancellation | database, cluster events, configuration |
| Hub index (`app/web_hub.go`) | arrays of connections, places of each connection | Add, Remove, iterate | the hub that owns it |
| Hub and connections (`app/web_hub.go`, `web_conn.go`, `websocket_router.go`, `api4/websocket.go`) | channels, index, per connection a socket, a Send channel, a cached session | register, authenticate, publish, deliver, invalidate, unregister, stop | sessions, status, every request handler |
| Sessions (`app/session.go`) | session cache, Sessions table | get, revoke, extend | hub, caches, cluster |
| Server goroutines and shutdown (`app/server.go`) | count and exit signal | Go, WaitForGoroutines, Shutdown | everything above |
| Caches (`services/cache/lru`, `store/localcachelayer`) | list, map, generation, length | Add, Get, GetOrAdd, Remove, Purge, Keys, Len | stores, cluster invalidations |
| Post creation (`app/post.go`) | cache of pending post ids | create, deduplicate | cache, hub |
| User status (`app/status.go`) | cached and stored status | set online, away, offline, do not disturb | hub, cache |
| Busy state (`app/busy.go`) | flag and timer | set, clear, cluster events | status |
| Plugin key-value store (`app/plugin_key_value_store.go`, `store/sqlstore/plugin_store.go`) | rows with expiry, hashed keys | set, compare and set, delete | database |
| Plugin environment (`plugin/`) | plugin processes, health | activate, deactivate, restart | key-value store |
| Scheduled tasks and batches (`model/scheduled_task.go`, `app/email_batching.go`, `app/notification_push.go`) | timers, queues | create, cancel, add, flush | posts |
| Page for unsupported browsers (`templates/unsupported_browser.js`) | classes of its elements | mouse over, mouse out | the browser |
| Configuration (`config/`) | configuration, listeners | load, set, watch | every part |

Request handlers, stores, data types, clients of external services, import and
export and the command line keep no state of their own between calls; they are
listed in `PROJECT.json` as not modelled.

What is hard here:

* several servers act on one row of the Jobs table, with conditional updates
  whose "changed nothing" is often ignored, and with a timeout (one hour) that
  can fire while the presumed dead worker is alive;
* a server may crash, or be stopped, between any two database statements;
* a hub and a connection each wait for the other in several ways, through
  channels of size zero, one and more, closed or left unread at the stop;
* the hub removes connections from the array it is ranging over;
* a client may authenticate again on a connection that is still registered;
* an idle session is revoked by whoever looks at it, the hub included;
* a cache keeps dead entries and counts the live ones;
* a client repeats a request that is being served, has failed or has succeeded;
* one call of the key-value store is several SQL statements, each of which may
  fail, or take effect and lose its answer;
* timers, tasks and plugin processes are replaced while they run, some of them
  without a lock.

What makes each part correct: a job is run by one worker, its final state
stands, the migration is recorded once and after its last batch, and a lost job
is replaced; a connection that is served is known to the hub, an event reaches
each connection it is for once, the hub does not panic, every call of it
returns, and its stop ends and leaves nothing behind; a cache answers like a map,
a store like a register, a repeated request makes one post; a signal is not
lost, a timer or task that was replaced does no harm, and a process that dies
is replaced and none is forgotten.

## Modules

| Module | Contents |
|---|---|
| `OnlineMigration` | abstract: batches in order, then one record |
| `MigrationJobs` | servers, Jobs and Systems tables; implements `OnlineMigration` |
| `MCMigrationJobs` | model values and symmetry for TLC |
| `MigrationJobsProofs` | its theorems |
| `HubIndex` | the index of a hub and the loop of a broadcast over it |
| `HubIndexProofs` | its theorems |
| `WebHub` | a hub with its connections and callers; EXTENDS `HubIndex` and uses it as `IndexSpec` expects |
| `MCWebHub` | model values and symmetry for TLC |
| `WebHubProofs` | its theorems; EXTENDS `HubIndexProofs` |
| `KeyLists` | lists of distinct keys |
| `RecentlyUsed` | abstract: a bounded map that forgets the key not used for longest |
| `LruCache` | the cache of `services/cache/lru`; implements `RecentlyUsed` |
| `LruCacheProofs` | its theorems |
| `PostDedup` | creating posts; EXTENDS `LruCache`, whose operations it calls |
| `PostDedupProofs` | its theorems; EXTENDS `LruCacheProofs` |
| `CasRegister` | abstract: a register with compare-and-set and expiry |
| `PluginKV` | the statements of the key-value store; implements `CasRegister` |
| `ServerGoroutines` | `Server.Go` and `WaitForGoroutines` |
| `BusyState` | the busy flag and its timer |
| `RecurringTask` | recurring tasks and the start of the email batching job |
| `EmailBatching` | the notifications of that job; EXTENDS `RecurringTask` |
| `EmailBatchingProofs` | the theorems of both |
| `PluginEnvironment` | the process of a plugin, its health check, saves and installations |
| `PluginProofs` | the theorems of `PluginKV` and of `PluginEnvironment` |
| `HoverCards` | the cards of the page for unsupported browsers |
| `ComponentProofs` | the theorems of `ServerGoroutines`, `BusyState` and `HoverCards` |
| `MCComponents` | one instance of `HubIndex` and of each small component but those of the next |
| `MCRecovery` | one instance of `MigrationJobs` and of `PluginEnvironment`, against crashes |
| `MCRequests` | two instances of `WebHub` and one of `PostDedup`, against calls that wait |

The `map` of `PROJECT.json` gives the lines of each definition. Some definitions
are followed or preceded by a second form of the same test (`ClaimAnyLive`
beside `MayClaim`): what a mistake would make of it. No action uses these
forms; putting one in place of the right form violates the property that
`PROJECT.json` names for it.

### MigrationJobs

Each goroutine is a program counter. `wpc` is the worker (`Worker.Run`,
`DoJob`), `offered` the list a watcher is going through (`PollAndNotify`),
`wcancel` the closed `cancelWatcherChan`, `spc` the scheduler (`ScheduleJob`),
`nextRun`, `isLeader` and `allDone` what `Schedulers` and `Scheduler` remember,
and `server` the life of the process through `Server.Shutdown`. `status`,
`lastDone`, `created` and `stale` are the Jobs table, `completed` the Systems
row, `migrated` the batches applied.

A database statement is one step, and so is the code up to the next statement.
An `UPDATE ... WHERE Status = ...` is a test and an assignment in one step.
`UpdateInProgressJobData`, which does not report that it changed nothing, is
modelled as such (`SaveProgress`), and so are the unconditional writes of
`SetJobSuccess`, `SetJobCanceled` and `SetJobError(job, nil)`. With the event
kind `"query"` any statement may fail, before or after it took effect, and the
code's reaction follows: a failed `GetByName` is taken for a missing row, a failed
`setNextRunTime` leaves the scheduler without a next run, and a failed write ends
in `SetJobError`, which finds nothing to do if the write it is about ended the
job after all.

Time is the flag `stale`: no activity for `MIGRATION_JOB_WEDGED_TIMEOUT`, an
hour. Without `Prompt` it may come at any moment, also while the worker runs;
with `Prompt` only to a job that lost its worker. The second is an assumption
about the deployment: no batch, pause or restart lasts an hour.

Bounds: `MaxJobs` rows, `NBatches` batches, `MaxEvents` crashes, stops,
cancellations, changes of leader or configuration. `SchedCreate` stops at
`MaxJobs`; in `recovery` `MaxJobs` is one more than the events that can
lose a job. Both reads of a scheduler run go to the same database; a replica
that lags behind is not modelled.

`StopJob` is what `DoJob` does with the stop signal: it takes the only token and
returns to `Run`, which then waits for another. The server is then `hung`;
`Kill` is the operator. `StopUnstarted` is `Schedulers.Stop` on a server
whose `RunScheduler` is off.

### HubIndex

`all`, `byUser`, `posAll` and `posUser` are the fields of `hubConnectionIndex`,
with places from 1 and 0 for "no entry". `Add` and `Remove` are the two methods.
A Go `range` over a slice keeps the length it started with and reads the
elements as they are when it gets there: `cand` is that view, `at` the place of
the loop, and `Drop` is the `default` case that closes a slow connection and
calls `Remove`, which writes into the array under the loop. `due`, a history
variable, holds the connections the loop has still to visit.

### WebHub

`hub` is the goroutine of `Hub.Start`: `select`, the loop of a broadcast
(`each`), waiting in `RevokeSession` inside `ShouldSendEvent` (`revoking`),
`panicked` until `doRecover` starts it again with an empty index, and the stop:
closing connections one by one (`WebConn.Close` waits for `Pump`), setting users
offline, stopped. `reader` is the goroutine of a connection
(`connectWebSocket`, `Pump`, `readPump` and the handlers it calls), `writer` its
write pump, `caller` any other goroutine that publishes or invalidates.

Each channel keeps its own rule. `register` and `unregister` hold one; Register,
Broadcast and InvalidateUser give up when the hub *has stopped* (`UntilStopped`),
Unregister already when the stop is *requested* (`UnregisterGivesUp`); a send on
`Send` waits when it is full and panics when it is closed; the hub's own send
does not wait and closes the channel instead. InvalidateUser has no buffer: it
is one step with the hub at its select.

`auth` is what `IsAuthenticated` would find: no token yet (`anon`), a cached
session, a session to be asked for (`check`), one that is gone or idle, or a
token that was cleared (`none`). Reading the session and storing it is one step;
the race of those two is in the hazards and not covered: split, the model is
too large for TLC. Which events a
connection wants (`Pass`) is a free choice, because no property depends on it.
The peer may leave and a write may fail at any time.

### LruCache and RecentlyUsed

`cache` is the struct `Cache`: `evictList`, `items`, `generation` and `len`. Every
method holds the lock and is one action; the unexported methods are functions of
the struct. `Purge` only increments the generation, so an entry is *live* when
its generation is the current one, and *dead* entries leave when they are
replaced, looked up or evicted. An entry may carry a time to live; a step of
time turns it to `past`. `LiveKeys` and `LiveContent` map the cache to
`RecentlyUsed`, which knows no generations.

### PostDedup

A request of `CreatePost` in the steps between its accesses of the pending-id
cache and of the database: look up, record, save, record the post. Hooks of
plugins may reject or replace the post, and a replacement may drop the pending
id (`carried`); the insert may fail, or succeed and report an error. The cache is
an `LruCache` with its own eviction and expiry; `lapsed` remembers the ids it
forgot while somebody used them.

### PluginKV and CasRegister

One key with its row, and the value a server older than v5.6 stored under the
hash of the key (`legacy`). Every statement of `SaveOrUpdate`, `CompareAndSet`,
`CompareAndDelete`, `Delete` and `DeleteAllForPlugin`, with the clean-up of the
hashed key that `app/plugin_key_value_store.go` adds, is an action that succeeds,
fails, or takes effect and reports an error. Postgres and MySQL differ in the
upsert and in the second question after an update that changed nothing. A row
expires in two steps: the code compares once with `>` and once with `<`, so
there is a millisecond (`now`) in which a row is neither shown nor cleared.

### ServerGoroutines

`goroutineCount` and `exitSignal` are the fields of the server. A goroutine that
ends counts itself off, then sends to the channel of size one if there is room;
the shutdown tests the count, then receives. Each is a step. Nothing stops
callers of `Go`: `lateRoutines` are those started when the wait was over.

### BusyState

`Set`, `Clear` and `ClusterEventChanged` hold the mutex, the callback of
`time.AfterFunc` does not, so every access of a field is a step of its own.
`Timer.Stop` does not stop a callback that has begun. `raced` remembers that a
callback overlapped another access.

### RecurringTask and EmailBatching

A task is its goroutine: waiting for its ticker or its `cancel` channel, or in
its function. `InitEmailBatching` looks for the job of the server (`FindJob`),
makes one if there was none (`CreateJob`) and calls `Start`, which creates a task,
swaps it with the one in the job, and cancels that one. The field of the server
has no lock, the job has: two listeners of the configuration may run all this at
once, also when there is no job yet, and each may then make one (`twoJobs`).

`EmailBatching` gives the function its body, an access of the lists or a query at
a time: receive what is queued and store the longer list, range over the users,
read the list of each, ask the database, and then keep it, drop it because the
user has been active since, or hand it to the mailer, and delete it. `held` is
the list a check has read. A check of the old task and one of the new may run
at once (`overlapped`), on lists without a lock. What the mailer makes of a mail is
not modelled: it tries once and logs a failure. `Add` before there is a job
dereferences nil (`email_batching.go:43`); here it waits for the job. Jobs, tasks
and notifications are taken in a fixed order, as their names have no meaning.

### PluginEnvironment

`registered` is the entry of the one plugin in `registeredPlugins`, a `sync.Map`
of structs: every `Load`, `Store` and `Delete` is a step, and `rp` and `copy`
are what a goroutine loaded before. `step` is the place of each goroutine in
`Activate`, `Deactivate`, `SetPluginState`, `Shutdown` and the health check;
`plan` and `setting` say who called `Deactivate` and `SetPluginState`. A save of
the configuration calls its two listeners one after the other in either order
(`SyncPluginsActiveState`, `InitPluginHealthCheckJob`); an installation replaces
the files between `RemovePlugin` and `Activate`. `ProcessDies` ends a process; a live
one may leave the three pings of a check unanswered (`Ping`), and a start may
fail before or after there is one. With `Recent` all failures fall within
`HEALTH_CHECK_DISABLE_DURATION`, without it some may. `restarts` counts those
that follow recent failures. `overlapped` remembers that two goroutines were at
work at once.

### HoverCards

The listeners of `unsupported_browser.js`, on the elements of each card. The
classes are strings, so a class may be there twice; `querySelector` returns the
first element that matches, and the class names make both elements match one
of the queries.

## Runs

The passing runs explore the full state space of their constants.

| Run | Question | Constants | Shows |
|---|---|---|---|
| `jobs_races` | Are claims, verdicts and the record right when everything races? | 2 servers, both scheduling; 2 jobs, 1 batch; 1 cancellation or stop; an hour may pass at any time | `ClaimExclusive`, `MigrationSound`, `ExecutorAlive`, `NeverReactivated`, `VerdictStands` |
| `jobs_faults` | And when statements fail and servers crash? | 2 servers, 1 scheduling; any statement may fail, or lose its answer; 1 crash, stop, leader or configuration event | `MigrationSound` |
| `jobs_cancel_overlap` | Is there one instance at a time, as `scheduler.go:52` says? | 2 servers, 1 cancellation | violated: `SingleInstance` |
| `jobs_shutdown` | Is the shutdown graceful, as `server.go:92` says? | 1 server, 1 stop | violated: `ShutdownReturns` |
| `hub_races` | Is the hub safe when connections come, go, are slow, and sessions end or idle? | 2 connections of 1 user; channels of 1 | `HubNeverPanics`, `Reachable`, `NoneLeft`, `UsesIndex` |
| `hub_stop` | Does the stop return? | 2 connections, room in the channels, fair | `StopReturns` |
| `hub_idle` | The same with idle sessions | 1 connection | violated: `StopReturns` |
| `hub_reauth` | Is the index right if a client authenticates again? | 1 connection | violated: `Consistent` |
| `components` | Is each component that shares nothing with the others right? | see below; fair | `TypesOK`; `Consistent`, `VisitOnce`; `LiveInFront`, `ImplementsMap`; `HashedIsGone`, `ImplementsRegister`; `WakeUpComes`, `AllAwaited`; `OnlyRacesHurt`; `OneTask`, `MailedOnce`, `AllSettled`; `CardsFollowMouse`; `WaitsEnd` |
| `recovery` | Is what was lost to a crash taken up? | see below; fair | `RecoveryTypeOK`; `ImplementsMigration`, `OneInProgress`, `MigrationEnds`, `CancelAnswered`; `NoStrayProcess`, `DeadIsReplaced` |
| `requests` | Is whoever waits answered? | see below; fair | `RequestsTypeOK`; `CallsReturn`, `PumpsFinish`; `OnePost`, `RightReply`, `PendingIsOwned`, `PendingEnds` |
| `plugin_restarts` | Is a plugin that keeps failing disabled, as `health_check.go:18` says? | 4 failures, all recent; nobody else at work | violated: `RestartsLimited` |

`components`, `recovery` and `requests` are disjoint sums: `part` chooses one
component, whose actions alone then take place, so their states add up instead
of multiplying. `TypesOK`, `RecoveryTypeOK` and `RequestsTypeOK` are the
conjunctions of the type invariants of their parts. `WaitsEnd` joins what each
part of `components` owes to whoever waits (`WaitReturns`, `BusyEnds`,
`StartReturns`).

| Part | Instance | What it reaches |
|---|---|---|
| `index` | 4 connections, 2 users | a removal in the middle of a loop that goes on |
| `cache` | 3 keys, 2 values, size 2, 1 purge | eviction of dead and of live entries, revival |
| `posts` (in `requests`) | 2 requests with one id, 1 without; cache of size 1 | a repetition at every moment, eviction of the id |
| `kv` | 2 clients, 2 values; Postgres with a value under the hashed key, MySQL without | every pair of calls, expiry, lost answers |
| `go` | 3 goroutines | a dropped signal, a late goroutine |
| `busy` | 2 timers | a timer replaced while its callback runs |
| `email` | 2 starts, 2 tasks, 2 notifications of a user, a channel of 1; there is a job | a full channel, a task cancelled in its function, two checks that overlap |
| `first` | the same without a job at first, and 1 notification | two starts that make a job each, a notification in the job that is replaced |
| `hover` | 3 cards | any series of events, `MaxClasses` copies of a class |
| `jobs` (in `recovery`) | 2 servers, 1 scheduling; 2 jobs, 2 batches; a crash, stop or cancellation; prompt | a job lost before, between and after its batches, and its successor |
| `plugins` (in `recovery`) | 1 save or installation, 2 failures, 2 processes at a time | a restart that overlaps a deactivation, a process that dies again |
| `calls` (in `requests`) | 1 connection, 1 caller, room in the channels | calls before, during and after the stop |
| `panics` (in `requests`) | 1 connection that may authenticate again, a slow client | the panic and the recovery, for the types |

Deadlock is not checked: a server that is up with nothing to do, a finished
connection, a stopped hub and a component at its bounds are all meant to stop.

Why the bounds are enough. Two servers give every pair of actors a race: watcher
against watcher, worker against scheduler, late write against new verdict; two
jobs are a lost one and its successor; one batch already separates "applied"
from "saved" from "recorded", and where the order of batches matters
(`ImplementsMigration`, in `recovery`) there are two. Two connections of one
user share every array of the index and every channel; four are needed for a
removal in the middle of a loop that goes on. Two failures of a plugin are one
that is repaired and one more; four are needed to pass the restart limit; two
processes are one in use and one lost. Channels of size one are full, and empty
again, in every run. The theorems below remove the bounds for the properties
they state.

### Fairness

Go runs every goroutine that can run (weak fairness of the steps that wait for
nobody). A `select` with several ready cases picks one at random, and a channel
serves its waiters in order, so an operation that becomes possible again and
again takes place (strong fairness of `TakeStop`, `TakeRegister`,
`TakeUnregister`, `TakeBroadcast`, `ReaderCall`, `CallerCall`). `hub_stop` only
assumes it of what `Hub.Stop` relies on. Peers, requests, callers, cancellations,
crashes and stops have no fairness: they may never come. A job that nobody
touches ages, and a server that is down or hung is started again by whoever
runs it; `recovery` needs both and `hub_*` neither.

The smaller components need less, and but for two steps weak fairness: a request, a
goroutine that is counted, the wait, a callback, a tick of a task, a check, a
replacement and the health check go on when they can. Strongly fair are the end
of a cancelled task, whose `select` may take a tick instead a few times, and the
mailing of a list, which happens at last because the list gets older than the
interval. `End` of a goroutine is fair because
`WaitForGoroutines` is about goroutines that end. Nobody is obliged to set the busy
state, to call the store, to notify, to save, to install or to crash.

### What the violated runs show

* `jobs_cancel_overlap`: `GetMigrationState` does not count a job in
  `cancel_requested` as in progress, so the scheduler creates its successor while
  its worker is between batches. `OneInProgress` is what does hold, and
  `MigrationSound` shows that the overlap does no harm to the record.
* `jobs_shutdown`: a worker stopped inside `DoJob` consumes the signal that `Run`
  waits for; `Workers.Stop` waits for ever. The same property fails with
  `RunScheduler = {}`, without any job: `Schedulers.Stop` waits for a goroutine
  that was not started (`StopUnstarted`).
* `hub_idle`: an idle session found by the hub in `ShouldSendEvent` is revoked
  with a call that waits for the hub; found by a connection while the hub waits
  for that connection in `Close`, it closes a circle.
* `hub_reauth`: a client whose session ended keeps its connection with an empty
  token; an authentication challenge registers it again, and `Add` overwrites
  its entry.
* `plugin_restarts`: `RestartPlugin` calls `Deactivate`, which deletes the entry of
  the plugin and with it the failure just counted, so the count is one at every
  failure and no limit is reached. If `Deactivate` kept the entry,
  `RestartsLimited` would hold on this instance.

`StopReturns` also needs room in the channels: with `Overflow = TRUE` a
connection may wait on its full `Send` channel after its write pump ended, or
the stopping hub on its own full broadcast channel in `SetStatusOffline`. This
is why `hub_stop` and the `calls` of `requests` have `Overflow = FALSE`; the
hazards list it.

### Defects that the properties step around

Some properties hold only outside a case in which the code does something that a
reader of it may not expect. The hazards give each at its line; the
exceptions are named in the properties.

* A plugin that replaces a post drops its pending id: the id answers "pending"
  until the cache forgets it, or the post is created twice (`carried` in
  `PendingIsOwned`). A lost answer of the insert creates it twice as well
  (`lapsed` in `OnePost`).
* A compare-and-set that answers false deletes the value under the hashed key,
  the only one there is before the first write, and one of nil that succeeds
  replaces it; `ImplementsRegister` is about the row.
* Goroutines are started after `WaitForGoroutines` returned, which the comment of
  `Go` (`server.go:454`) excludes (`lateRoutines` in `AllAwaited`).
* The callback of the busy timer runs without the mutex: it may stop a nil timer,
  or end a period that has just begun (`raced` in `OnlyRacesHurt`).
* A check of the email batches that takes longer than the interval meets its
  successor on one map without a lock: TLC shows a list mailed twice and, without
  the exception, a notification deleted before it was mailed (`overlapped` in
  `MailedOnce` and `AllSettled`). A list deleted because its user was active is
  mailed all the same if its interval is over. A restart loses what was queued.
* Two first calls of `InitEmailBatching` may make a job each: both tasks tick for
  ever, and what was queued in the first job is lost if it is replaced before its
  `Start` (`twoJobs` in `OneTask` and `AllSettled`).
* The operations of the plugin environment hold no lock (`overlapped` in
  `NoStrayProcess`). TLC shows a save that turns a plugin off while the health
  check restarts it: `SetPluginState` writes back an entry loaded before the new
  supervisor was stored, and the plugin stays "running" without one, its process
  lost and never checked again. This is why `DeadIsReplaced` speaks of entries that
  have a supervisor.

## Theorems

Every safety invariant, action property and refinement that a passing run checks
is also a theorem, for every value of the constants that the module's assumption
allows. Where a theorem has a further hypothesis it is named here, with
what happens without it.

**Migrations job** (`MigrationJobsProofs`), for any servers, jobs, batches and
events:

* `TypeCorrect`, `ClaimsExclusive`, `MigrationIsSound`: `Spec => []TypeOK`,
  `[]ClaimExclusive`, `[]MigrationSound`;
* `NeverReactivates`, `VerdictsStand`: the two action properties;
* `Refinement`: `Spec => ImplementsMigration`;
* `ExecutorsLive`: `Spec => []ExecutorAlive`, if no server crashes and no statement
  fails;
* `OneRuns`: `Spec => []OneInProgress`, if at most one server runs the scheduler, and
  servers are prompt or no statement fails.

`MigrationSound` and `ClaimExclusive` are not inductive. The invariant `IInv` adds:
rows above `created` are untouched (`Fresh`), so a new job is nobody's; the job a
worker holds is in progress, asked to cancel or in error (`HeldClaimed`), never
pending, so a claim only takes a job nobody holds; it has ended well only if the
answer to that write was lost; a job a scheduler is about
to declare wedged exists (`WedgeKnown`), so the verdict does not touch a fresh
row; and every copy of the progress, in a row, a worker or a scheduler, is
backed by batches that were applied (`ProgressSound`). The last carries
`MigrationSound`, because the record is only written after a worker's copy
reached the last batch, and the refinement, because a batch then always starts
where those before it ended. There is one lemma per action for each part.

`ExecutorAlive` needs `Drained`: a server that stops offers no more jobs, and gets
beyond its workers only when its own is idle. A worker is then always there to
take the job it claimed to one of the ends of `DoJob`. Its two hypotheses are
about the deployment and not about the code: a crash leaves a job without a
worker, and so does a failed write of its end; the wedge timeout is there
for them, and `MigrationEnds` (`EventuallyMigrated` of `MigrationJobs`, for the
behaviours of `MCRecovery` that are of the jobs) is about what follows.

`OneInProgress` needs `Scheduling`: the scheduler creates a job only when every job
before is *settled*, not pending and, if it is in progress, in nobody's hands.
What is settled stays settled, because a claim needs a pending job. The job
that is declared wedged is the last one, and the verdict settles it, whoever
holds it. The hypotheses are needed, as TLC shows on the instance of
`jobs_races`: two schedulers may both read that nothing runs and both create a
job; and when an hour passes under a worker that is alive, and then the write of
the verdict fails, which `ScheduleJob` ignores, the job and its successor are
both in progress.

**Index of a hub** (`HubIndexProofs`), for finite or infinite sets of connections
and users: `IndexTypes`, `IndexConsistent` and `BroadcastVisitsOnce`: `IndexSpec =>
[]IndexTypeOK`, `[]Consistent` and `[]VisitOnce`. The invariant `IndexInv` joins both with the
types and `Behind`: each connection the loop has still to visit is registered,
is a target of the broadcast, and has its place in the array at or before the
place where the loop will find it. A removal then writes at or before the place
the loop has reached, and what is left of the loop is not disturbed.

**Hub** (`WebHubProofs`), for any connections, users and callers, any length of the
channels and any verdict on a session, in two groups.

* Without a further hypothesis: `HubTypes`, `StopLeavesNone`: `Spec => []TypeOK`,
  `[]NoneLeft`; `KnownAreListed`; `OnlyPanicsLose` and, which follows,
  `ReachableUnlessPanics`: `Spec /\ []HubNeverPanics => []Reachable`.
* If `~Reauth`: `NeverPanics`, `AlwaysReachable`: `Spec => []HubNeverPanics`,
  `[]Reachable`, and `HubUsesIndex`: `Spec => UsesIndex`. `hub_reauth` shows what a
  client that authenticates again does to the index: it is then listed twice, its
  first place is never found again, and `Remove` may panic on it.

The first group is about all a hub goes through, with double registrations,
panics and the recovery from them, and rests on `StopInv`. Of `Consistent` half is
left: a connection that has an entry is where the entry says (`Listed`), though it
may stand elsewhere too, and what stands elsewhere may have no entry. That is
inductive by itself, as the move of the last connection into the gap corrects
the entry of just that one; only that the last one has an entry has to be known
(`LastKnown`): a removal that does not find it panics, and the index is thrown
away. `Owned`: the arrays of the users stay apart, so the correction of one leaves
the others alone. `StopWaits`: the stop walks the very array of all connections,
which nothing changes under it, and is past the connections that are over; as
each entry points into that array, none is forgotten. `Ends` is below.
`OnlyPanicsLose` says that no step but the recovery takes a connection that is
served out of `Known`: who is removed has finished or was closed (`Forgets`).

For the second group the invariant `HubInv` is `IndexInv` with four parts more.
`RegisteredOnce`: a connection is registered by the goroutine that serves it and
only before the hub has heard of it, and one whose channel is closed is neither
in the index nor comes to it again; so the hub sends to no closed channel, and
`Add` meets no entry. `Known`: whoever is served, or is having its session revoked,
is in the index or in the channel to it. `Ends`: who unregisters has
finished, and its write pump before it. `LoopOfHub`: the loop of the index belongs
to the broadcast or to the stop, which leaves no goroutine behind the place it
has reached.

`StopHasNoCircle` is the part of `StopReturns` that is no matter of fairness: with
room in the channels (`~Overflow`), `~Reauth` and no session found idle, the hub
never waits for itself, and the connection a stop waits for always finds a way
out of the call it is in. Each hypothesis is needed, as TLC shows on the
instance of `hub_stop`: with idle sessions there is the circle of `hub_idle`; when
the broadcast channel is full, the stop waits for a connection whose event
waits for the hub to read or to have stopped; and a client that authenticates
again may wait for the register channel in the same way.

**Cache** (`LruCacheProofs`), for any keys, values, size and number of purges:
`CacheTypes`, `ListAndItemsMatch`, `CountIsExact`, and the refinement
`CacheImplementsMap`: `CacheSpec => ImplementsMap`. The three invariants are
inductive together. The argument is the order of the list: an entry that is
added, used or revived goes to the front, and `Purge` makes every entry dead at
once, so a dead entry never stands before a live one, `len` is the length of the
live part, and the last of a full list is evicted dead before live. The lemmas
on `KeyLists` say what moving and removing a key does to the order.

**Posts** (`PostDedupProofs`), for any requests, pending ids and contents of the
cache, and any cache with room (`Size > 0`; the code's
`PENDING_POST_IDS_CACHE_SIZE` is 25000): `PostsTyped`, `CreatedOnce`,
`RepliesAreRight`, `PendingHasOwner`. Over the invariant of the cache, `PostInv` says
that of the requests with one id only one has a post or is creating it, as
long as the id has not lapsed (`OneHolder`); that the cache then knows the id
(`Remembered`), which is what the next request finds; that what it says of an id is a
post made for that id (`Named`) or else has a request that will answer
(`Owned`); and what a request at each step has been told (`Told`).

**Key-value store** (`PluginProofs`), for any clients and values: `KvTypes`,
`HashedValuesEnd`, and the refinement `StoreIsRegister`:
`KvSpec => ImplementsRegister`. The invariant ties the program counter of a
client to its request: only a set, or a compare-and-set of nothing, is at its
insert, only a compare-and-set that would change nothing asks again, only a
delete is at the hashed key, and an answer is awaited exactly while a statement
is left to run. Each statement then is either one decision of the
register or a stutter.

**Plugin environment** (`PluginProofs`), for any administrators, changes, failures
and number of processes: `EnvironmentTypes`, `NoProcessForgotten`. The property is
not nearly inductive: between two steps of an operation the registration, the
processes and the copies it holds do not agree.
`EnvInv` says that, while nothing has overlapped, all goroutines but one are
idle, and `Fact` says of that one what holds at each step it may have reached; the
proof is a simulation of one operation from its first step to its last, and
of how one ends in the state (`Quiet`) where the next begins. For operations that
do overlap it claims nothing, and the section above tells why.

**Goroutines** (`ComponentProofs`), for every finite set of them: `CountIsRight`,
`NoLostWakeUp`, `GoroutinesAwaited`. The invariant: the count is the number of
goroutines that run, and when the shutdown is about to receive, there is a
signal, or a goroutine that still runs or has not signalled yet.

**Busy state** (`ComponentProofs`), for any timers: `BusyTypes`, and `RacesAlone`:
`BusySpec => []OnlyRacesHurt`. While no callback has raced, whoever is inside is
alone there, and `InPlace` says how far the flag, the date, the field and the
armed timer may differ at each access; between the calls they agree.

**Tasks and email batches** (`EmailBatchingProofs`), for any tasks and calls of
`InitEmailBatching`, with or without a job at first: `TasksReplaced`:
`TaskSpec => []OneTask`; and with any notifications, users and room in the channel:
`EmailUsesTasks`: `EmailSpec => TaskSpec`, from which `EmailHasOneTask` follows,
`EmailTypes`: `EmailSpec => []EmailTypeOK`, and `NeverMailedTwice`:
`EmailSpec => []MailedOnce`. The first invariant adds that the tasks held by the
starts and by the jobs are pairwise different and each of the job it is held
for, so none is cancelled twice, that those held are alive until their start
cancels them, and that a task which was cancelled has ended or is awaited by the
start that cancelled it. The second (`OnceInv`) says of each job whose checks do
not overlap that what is queued is nowhere else, that what a check holds is not
settled before it has mailed it, and that the lists hold something settled only
while the check that mailed it has not deleted its list; and that two jobs share
nothing. It needs `~overlapped`: two checks of one job may hold the same list.

**Cards** (`ComponentProofs`), for any cards and copies of a class: `CardsAreRight`:
`HoverSpec => []CardsFollowMouse`, inductive once the counts are known to be
numbers.

What is only model-checked: everything about fairness, which is out of the
prover's reach (`MigrationEnds`, `CancelAnswered`, `StopReturns`,
`CallsReturn`, `PumpsFinish`, `WaitsEnd`, `AllSettled`, `DeadIsReplaced`,
`PendingEnds`), and the conjunctions `TypesOK`, `RecoveryTypeOK` and
`RequestsTypeOK` in which a run asks for the types of several components at
once: each of their conjuncts is a theorem above. The violated runs are
counterexamples and have nothing to prove.

## Not modelled

* The web client (`client/`): minified bundles, built from another repository.
  They have no source here to translate.
* User status: a read, a decision and a save without a lock. An automatic change
  may overwrite a manual one, whatever the comment at `status.go:181` says, and a
  failed read has the same effect: there is no property left that holds.
* Sessions: the read and the store in `IsAuthenticated` as two steps, the session
  cache and its invalidation in the cluster.
* The authentication of another user on a connection that has been of one
  (`AddAuthentication`): the user of a connection is a constant.
* The clock of the key-value store: `GetMillis` is read just before a statement is
  sent (`plugin_store.go:91`, `:108`, `:183`), and here when it takes effect.
* The choice of a hub for a user, activity times, the content of events, the
  authentication timeout other than as a failed write.
* The cached stores of `store/localcachelayer`: they read through `LruCache` and
  drop an entry after a write; a read that crosses a write may leave a stale
  entry until it expires, and nothing promises otherwise.
* Push notifications: queues to workers that share nothing.
* Plugins: failing file operations, removal, hooks, the API and the RPC layer,
  and two saves at once. Two saves would add races for which nothing is promised.
* Jobs: replica lag, the rows and SQL of a batch, other types of jobs, a server
  with `RunJobs` off, the start and stop of the whole set of workers, whose
  implementations belong to the enterprise repository.
* The order in which listeners of the configuration see concurrent saves.
* Posts: validation, attachments, events, updates and deletions.
* The stateless parts of the inventory.

## Plan

1. `Sessions`: the split read and store against an invalidation, in a module
   without the hub, with the session cache of several servers.
2. `JobServer`: starting and stopping watcher and schedulers under changes of the
   configuration.

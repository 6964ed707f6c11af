------------------------- MODULE PluginEnvironment -------------------------
(***************************************************************************)
(* The environment of the plugins: one plugin, whose process is started,   *)
(* stopped, checked and restarted by the health check job and by the       *)
(* goroutines that save the configuration or install the plugin.           *)
(*                                                                         *)
(* The table of registered plugins is a sync.Map: one Load, Store or       *)
(* Delete is one step, and nothing holds two of them together.  An entry   *)
(* is a struct, so whoever loads it has a copy.                            *)
(***************************************************************************)
EXTENDS Naturals

CONSTANTS
  Admins,      \* goroutines that save the configuration or install
  Checker,     \* the goroutine of the health check job
  NoPlugin,
  Recent,      \* whether all failures fall within HEALTH_CHECK_DISABLE_DURATION
  MaxProcs,    \* bound: processes at one time
  MaxFailures, \* bound: processes that crash or leave a check unanswered
  MaxChanges   \* bound: changes of the configuration, and installations

Actors == Admins \union {Checker}
Procs == 1..MaxProcs
NoProc == 0

VARIABLES
  config,      \* whether the plugin is on or off, or all plugins are disabled
  job,         \* the field pluginHealthCheckJob: none, on, cancelled
  registered,  \* the entry of the plugin
  alive,       \* the processes that run
  step,        \* the next step of each goroutine
  rp, copy,    \* its copies of the entry: its own, that of SetPluginState
  plan,        \* what it does after Deactivate
  setting,     \* why it calls SetPluginState
  listeners,   \* the configuration listeners it has still to call
  failures, changes,
  restarts,    \* history: restarts after recent failures, up to one too many
  overlapped   \* history: two of them were at work at one time

envVars == <<config, job, registered, alive>>
boundVars == <<failures, changes, restarts>>
localVars == <<rp, copy, plan, setting, listeners>>
pluginVars == <<envVars, step, localVars, boundVars, overlapped>>

RestartLimit == 3

States == {"notRunning", "running", "failedToStart", "failedToStayRunning"}

Entries == [state : States, sup : Procs \union {NoProc}, fails : 0..RestartLimit]
NewPlugin == [state |-> "notRunning", sup |-> NoProc, fails |-> 0]

ASSUME PluginAssumption ==
  /\ NoPlugin \notin Entries /\ Checker \notin Admins
  /\ MaxProcs \in Nat \ {0} /\ Recent \in BOOLEAN

Registered == registered # NoPlugin
IsActive == Registered /\ registered.state = "running"
HasSupervisor == Registered /\ registered.sup # NoProc

\* The server has started, and the plugin with it when it is on.
EnvInit ==
  /\ job = "on"
  /\ \/ /\ config = "on" /\ alive = {1}
        /\ registered = [state |-> "running", sup |-> 1, fails |-> 0]
     \/ config = "off" /\ alive = {} /\ registered = NoPlugin
  /\ step = [a \in Actors |-> "idle"]
  /\ rp = [a \in Actors |-> NewPlugin]
  /\ copy = [a \in Actors |-> NewPlugin]
  /\ plan = [a \in Actors |-> "end"]
  /\ setting = [a \in Actors |-> "run"]
  /\ listeners = [a \in Actors |-> {}]
  /\ failures = 0 /\ changes = 0 /\ restarts = 0 /\ overlapped = FALSE

----------------------------------------------------------------------------
(* Steps.                                                                  *)

Move(a, from, to) == step[a] = from /\ step' = [step EXCEPT ![a] = to]

Alone(a) == \A b \in Actors \ {a} : step[b] = "idle"

Begin(a, to) ==
  /\ Move(a, "idle", to)
  /\ overlapped' = (overlapped \/ ~Alone(a))

\* Where a goroutine ends up when an operation is over: the listeners that are
\* left are called.
Rest(a) == IF a = Checker THEN "idle" ELSE "listen"

\* Copies that are not used any more are cleared.
Set(var, a, value) == var' = [var EXCEPT ![a] = value]

\* SetPluginState is called next.
ThenSet(a, from, why) == Move(a, from, "setLoad") /\ Set(setting, a, why)

----------------------------------------------------------------------------
(* SetPluginState: a Load and a Store.                                     *)

NewState(why) ==
  CASE why = "run" -> "running"
    [] why = "fail" -> "failedToStart"
    [] why = "stay" -> "failedToStayRunning"
    [] OTHER -> "notRunning"

\* Whoever called Deactivate goes on.
AfterDeactivate(a) ==
  CASE plan[a] = "restart" -> "activate"
    [] plan[a] = "stay" -> "stay"
    [] plan[a] = "install" -> "remove"
    [] OTHER -> Rest(a)

\* Deactivate stops the process when the plugin was active.
AfterSet(a) ==
  CASE setting[a] = "stopActive" -> "kill"
    [] setting[a] = "stopInactive" -> AfterDeactivate(a)
    [] OTHER -> Rest(a)

SetLoad(a) ==
  /\ \/ /\ Registered /\ Set(copy, a, registered)
        /\ Move(a, "setLoad", "setStore") /\ UNCHANGED setting
     \/ /\ ~Registered /\ UNCHANGED copy
        /\ Move(a, "setLoad", AfterSet(a)) /\ Set(setting, a, "run")
  /\ UNCHANGED <<envVars, rp, plan, listeners, boundVars, overlapped>>

SetStore(a) ==
  /\ Move(a, "setStore", AfterSet(a))
  /\ registered' = [copy[a] EXCEPT !.state = NewState(setting[a])]
  /\ Set(copy, a, NewPlugin) /\ Set(setting, a, "run")
  /\ UNCHANGED <<config, job, alive, rp, plan, listeners, boundVars, overlapped>>

----------------------------------------------------------------------------
(* Activate.                                                               *)

\* The files of the plugin are away while it is installed again.
Away == \E a \in Actors : step[a] = "removed"

Activate(a) ==
  /\ \/ (IsActive \/ Away) /\ Move(a, "activate", Rest(a))
     \/ ~IsActive /\ Move(a, "activate", "load")
  /\ UNCHANGED <<envVars, localVars, boundVars, overlapped>>

Load(a) ==
  /\ Move(a, "load", "store")
  /\ Set(rp, a, IF Registered THEN registered ELSE NewPlugin)
  /\ UNCHANGED <<envVars, copy, plan, setting, listeners, boundVars, overlapped>>

Store(a) ==
  /\ Move(a, "store", "start")
  /\ registered' = rp[a]
  /\ UNCHANGED <<config, job, alive, localVars, boundVars, overlapped>>

Known(p) ==
  \/ Registered /\ registered.sup = p
  \/ \E a \in Actors : rp[a].sup = p \/ copy[a].sup = p

\* A new process takes the first number that is free.
Taken(p) == p \in alive \/ Known(p)
NewProc(p) == ~Taken(p) /\ \A q \in Procs : q < p => Taken(q)

\* The process starts, or OnActivate refuses and it is stopped, or there is
\* none.  `Abandon' does not stop it.
Abandon(a) == \E p \in Procs : NewProc(p) /\ alive' = alive \union {p}
GiveUp(a) == UNCHANGED alive

Start(a) ==
  /\ \/ /\ Move(a, "start", "storeSup")
        /\ \E p \in Procs :
             /\ NewProc(p)
             /\ alive' = alive \union {p}
             /\ Set(rp, a, [rp[a] EXCEPT !.sup = p])
        /\ UNCHANGED setting
     \/ ThenSet(a, "start", "fail") /\ GiveUp(a) /\ Set(rp, a, NewPlugin)
  /\ UNCHANGED <<config, job, registered, copy, plan, listeners, boundVars, overlapped>>

StoreSup(a) ==
  /\ ThenSet(a, "storeSup", "run")
  /\ registered' = rp[a] /\ Set(rp, a, NewPlugin)
  /\ UNCHANGED <<config, job, alive, copy, plan, listeners, boundVars, overlapped>>

----------------------------------------------------------------------------
(* Deactivate.                                                             *)

Deactivate(a) ==
  /\ \/ ~Registered /\ UNCHANGED rp /\ Move(a, "deactivate", AfterDeactivate(a))
     \/ Registered /\ Set(rp, a, registered) /\ Move(a, "deactivate", "wasActive")
  /\ UNCHANGED <<envVars, copy, plan, setting, listeners, boundVars, overlapped>>

WasActive(a) ==
  /\ \/ IsActive /\ ThenSet(a, "wasActive", "stopActive") /\ UNCHANGED rp
     \/ /\ ~IsActive /\ ThenSet(a, "wasActive", "stopInactive")
        /\ Set(rp, a, NewPlugin)
  /\ UNCHANGED <<envVars, copy, plan, listeners, boundVars, overlapped>>

\* OnDeactivate and Shutdown of the supervisor that was loaded first.
StopProcess(a) ==
  /\ Move(a, "kill", "delete")
  /\ alive' = alive \ {rp[a].sup}
  /\ Set(rp, a, NewPlugin)
  /\ UNCHANGED <<config, job, registered, copy, plan, setting, listeners, boundVars, overlapped>>

\* The entry goes, with the failures that handleHealthCheckFail counted in it.
Delete(a) ==
  /\ Move(a, "delete", AfterDeactivate(a))
  /\ registered' = NoPlugin
  /\ UNCHANGED <<config, job, alive, localVars, boundVars, overlapped>>

\* RemovePlugin; then the new files are there, and the plugin is activated if
\* its own setting is on, which says nothing of plugins being disabled.  File
\* operations do not fail here.
Remove(a) ==
  /\ Move(a, "remove", "removed")
  /\ registered' = NoPlugin
  /\ UNCHANGED <<config, job, alive, localVars, boundVars, overlapped>>

Installed(a) ==
  /\ \E next \in CASE config = "on" -> {"activate"}
                   [] config = "off" -> {Rest(a)}
                   [] OTHER -> {"activate", Rest(a)} :
       Move(a, "removed", next)
  /\ UNCHANGED <<envVars, localVars, boundVars, overlapped>>

----------------------------------------------------------------------------
(* The health check job.                                                   *)

Tick ==
  /\ job = "on" /\ IsActive
  /\ Begin(Checker, "check")
  /\ UNCHANGED <<envVars, localVars, boundVars>>

\* checkPlugin.
Check ==
  /\ \/ /\ HasSupervisor
        /\ Move(Checker, "check", "ping") /\ Set(rp, Checker, registered)
     \/ /\ ~HasSupervisor
        /\ Move(Checker, "check", "idle") /\ UNCHANGED rp
  /\ UNCHANGED <<envVars, copy, plan, setting, listeners, boundVars, overlapped>>

\* PerformHealthCheck pings three times.  A dead process answers none of them,
\* and a live one may leave all three unanswered.
Lives == rp[Checker].sup \in alive
Failure == failures < MaxFailures /\ failures' = failures + 1

Ping ==
  /\ \/ Lives /\ Move(Checker, "ping", "idle") /\ UNCHANGED failures
     \/ Lives /\ Move(Checker, "ping", "fail") /\ Failure
     \/ ~Lives /\ Move(Checker, "ping", "fail") /\ UNCHANGED failures
  /\ Set(rp, Checker, NewPlugin)
  /\ UNCHANGED <<envVars, copy, plan, setting, listeners, changes, restarts, overlapped>>

\* handleHealthCheckFail.
Failed(entry) ==
  [entry EXCEPT !.fails = IF @ < RestartLimit THEN @ + 1 ELSE @]

HandleFail ==
  /\ \/ /\ Registered
        /\ Move(Checker, "fail", "note") /\ Set(rp, Checker, Failed(registered))
     \/ ~Registered /\ Move(Checker, "fail", "idle") /\ UNCHANGED rp
  /\ UNCHANGED <<envVars, copy, plan, setting, listeners, boundVars, overlapped>>

\* RestartPlugin deactivates and activates.  `JustActivate' is the form
\* without the first.
JustActivate == "activate"
RestartPlugin == "deactivate"

\* shouldDeactivatePlugin: three failures, if they are recent, are too many.
TooMany == rp[Checker].fails >= RestartLimit

Note ==
  /\ registered' = rp[Checker]
  /\ \/ /\ TooMany
        /\ Move(Checker, "note", "reset") /\ UNCHANGED <<plan, rp, restarts>>
     \/ /\ ~(TooMany /\ Recent)
        /\ Move(Checker, "note", RestartPlugin)
        /\ Set(plan, Checker, "restart") /\ Set(rp, Checker, NewPlugin)
        /\ restarts' = IF Recent /\ restarts <= RestartLimit THEN restarts + 1 ELSE restarts
  /\ UNCHANGED <<config, job, alive, copy, setting, listeners, failures, changes, overlapped>>

Reset ==
  /\ Move(Checker, "reset", "deactivate") /\ Set(plan, Checker, "stay")
  /\ registered' = [rp[Checker] EXCEPT !.fails = 0]
  /\ Set(rp, Checker, NewPlugin)
  /\ UNCHANGED <<config, job, alive, copy, setting, listeners, boundVars, overlapped>>

FailedToStay ==
  /\ ThenSet(Checker, "stay", "stay")
  /\ UNCHANGED <<envVars, rp, copy, plan, listeners, boundVars, overlapped>>

----------------------------------------------------------------------------
(* The goroutines of administrators.                                       *)

Changing == changes < MaxChanges /\ changes' = changes + 1

\* A save of the configuration calls its listeners, one after the other.
Save(a) ==
  /\ Changing
  /\ \E c \in {"on", "off", "disabled"} \ {config} : config' = c
  /\ Begin(a, "listen")
  /\ Set(listeners, a, {"sync", "init"}) /\ Set(plan, a, "end")
  /\ UNCHANGED <<job, registered, alive, rp, copy, setting, failures, restarts>>

\* installPluginLocally of a plugin that is installed already.
Install(a) ==
  /\ Changing /\ config # "disabled"
  /\ Begin(a, "deactivate")
  /\ Set(plan, a, "install")
  /\ UNCHANGED <<envVars, rp, copy, setting, listeners, failures, restarts>>

\* SyncPluginsActiveState reads the configuration of this moment.
Sync(a) ==
  /\ "sync" \in listeners[a]
  /\ Set(listeners, a, listeners[a] \ {"sync"})
  /\ Move(a, "listen", CASE config = "on" -> "activate"
                         [] config = "off" -> "deactivate"
                         [] OTHER -> "cancel")
  /\ UNCHANGED <<envVars, rp, copy, plan, setting, boundVars, overlapped>>

\* InitPluginHealthCheckJob.  Cancel waits for the job.
CheckerEnds == job = "on" => step[Checker] = "idle"

InitJob(a) ==
  /\ "init" \in listeners[a] /\ step[a] = "listen"
  /\ Set(listeners, a, listeners[a] \ {"init"})
  /\ \/ config # "disabled" /\ job' = (IF job = "none" THEN "on" ELSE job)
     \/ config = "disabled" /\ CheckerEnds /\ job' = "none"
  /\ UNCHANGED <<config, registered, alive, step, rp, copy, plan, setting, boundVars, overlapped>>

Listened(a) ==
  /\ listeners[a] = {} /\ Move(a, "listen", "idle")
  /\ UNCHANGED <<envVars, localVars, boundVars, overlapped>>

\* Environment.Shutdown: the job ends, and remains in the field.
Cancel(a) ==
  /\ CheckerEnds /\ Move(a, "cancel", "shutdown")
  /\ job' = (IF job = "on" THEN "cancelled" ELSE job)
  /\ UNCHANGED <<config, registered, alive, localVars, boundVars, overlapped>>

Shutdown(a) ==
  /\ \/ /\ IsActive /\ HasSupervisor
        /\ Set(rp, a, registered) /\ Move(a, "shutdown", "kill")
     \/ /\ ~(IsActive /\ HasSupervisor)
        /\ UNCHANGED rp /\ Move(a, "shutdown", "delete")
  /\ UNCHANGED <<envVars, copy, plan, setting, listeners, boundVars, overlapped>>

\* A process ends by itself; what becomes of a forgotten one matters to nobody.
ProcessDies ==
  /\ Failure
  /\ \E p \in {q \in alive : Known(q)} : alive' = alive \ {p}
  /\ UNCHANGED <<config, job, registered, step, localVars, changes, restarts, overlapped>>

----------------------------------------------------------------------------
Operate(a) ==
  \/ SetLoad(a) \/ SetStore(a)
  \/ Activate(a) \/ Load(a) \/ Store(a) \/ Start(a) \/ StoreSup(a)
  \/ Deactivate(a) \/ WasActive(a) \/ StopProcess(a) \/ Delete(a)

CheckerStep ==
  \/ Tick \/ Check \/ Ping \/ HandleFail \/ Note \/ Reset \/ FailedToStay
  \/ Operate(Checker)

AdminStep(a) ==
  \/ Sync(a) \/ InitJob(a) \/ Listened(a) \/ Cancel(a) \/ Shutdown(a)
  \/ Remove(a) \/ Installed(a) \/ Operate(a)

EnvNext ==
  \/ CheckerStep \/ ProcessDies
  \/ \E a \in Admins : Save(a) \/ Install(a) \/ AdminStep(a)

EnvSpec == EnvInit /\ [][EnvNext]_pluginVars

\* Goroutines run, and the ticker ticks.  Changes and failures need not come.
EnvFairness ==
  /\ WF_pluginVars(CheckerStep)
  /\ \A a \in Admins : WF_pluginVars(AdminStep(a))

----------------------------------------------------------------------------
(* Properties.                                                             *)

\* The types: only the checker gives up on a plugin, and a save does not end
\* before its listeners have been called.
EnvTypeOK ==
  /\ config \in {"on", "off", "disabled"} /\ job \in {"none", "on", "cancelled"}
  /\ registered \in Entries \union {NoPlugin}
  /\ alive \subseteq Procs
  /\ \A a \in Actors :
       /\ rp[a] \in Entries /\ copy[a] \in Entries
       /\ step[a] = "stay" => a = Checker
       /\ step[a] = "idle" => listeners[a] = {}

\* As long as operations do not overlap, nothing runs that the environment
\* does not show as running, through failed starts, crashes, restarts,
\* installations and the shutdown, and nothing at all once the plugin is off
\* (Environment.Activate, Deactivate, Shutdown).
NoStrayProcess ==
  ~overlapped /\ (\A a \in Actors : step[a] = "idle") =>
    alive \subseteq IF IsActive /\ config = "on" THEN {registered.sup} ELSE {}

Dead == IsActive /\ registered.sup \in Procs \ alive

Restarted == IsActive /\ registered.sup \in alive
FailedToStart == Registered /\ registered.state = "failedToStart"

\* A plugin that keeps failing, and that nobody touches meanwhile, is restarted
\* no more than HEALTH_CHECK_RESTART_LIMIT times before it is disabled
\* (PluginHealthCheckJob.handleHealthCheckFail, Environment.Deactivate).
RestartsLimited == changes = 0 => restarts <= RestartLimit

\* While the job runs, a plugin whose process has died is restarted, or shown
\* as failed; and whatever saves and installations do meanwhile, it is not
\* shown for ever as running in the dead process
\* (PluginHealthCheckJob.checkPlugin, Environment.RestartPlugin).
DeadIsReplaced ==
  Dead ~> \/ Restarted \/ FailedToStart \/ job # "on"
          \/ (overlapped \/ config # "on") /\ ~Dead
=============================================================================

----------------------------- MODULE MCRecovery -----------------------------
(***************************************************************************)
(* One instance for TLC of the components that take up what was lost to a  *)
(* crash: the migrations job of servers that crash or stop, and the        *)
(* plugins, whose processes crash.  A behaviour is one of one of them,     *)
(* while the other rests.                                                  *)
(***************************************************************************)
EXTENDS MigrationJobs, PluginEnvironment, TLC

VARIABLE part

\* The jobs of servers that schedule none, which rest.
Unscheduled == INSTANCE MigrationJobs WITH Events <- {}, RunScheduler <- {}

\* The types of both.
RecoveryTypeOK == TypeOK /\ EnvTypeOK

\* Servers that run jobs migrate the data in the end, whatever crashes, stops
\* or is cancelled (Worker.DoJob, Scheduler.ScheduleJob).
MigrationEnds == part = "jobs" => EventuallyMigrated

RecoveryInit ==
  /\ part \in {"jobs", "plugins"}
  /\ IF part = "jobs" THEN Init ELSE Unscheduled!Init
  /\ EnvInit /\ (part # "plugins" => config = "off")

JobsPart == part = "jobs" /\ Next /\ UNCHANGED pluginVars
PluginsPart == part = "plugins" /\ EnvNext /\ UNCHANGED vars

\* The fairness of MigrationJobs and of the plugins: the one that rests has
\* nothing to do that it is fair to.
RecoverySpec ==
  /\ RecoveryInit
  /\ [][(JobsPart \/ PluginsPart) /\ UNCHANGED part]_<<part, vars, pluginVars>>
  /\ Fairness /\ EnvFairness
=============================================================================

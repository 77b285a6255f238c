---------------------------- MODULE ServicesMC ------------------------------
(***************************************************************************)
(* Background work of the processes, in one run: the task of a scheduled   *)
(* job, the migration runs, the tasks of the watcher, the resolver of      *)
(* users' homeservers and the refresh of a ranking.  They share no state:  *)
(* part names the one that a behaviour is about, the others stand still.   *)
(***************************************************************************)
EXTENDS JobScheduler, MigrationManager, WatcherTasks, UserHsResolver

VARIABLES
    part,
    family, graph, indexed, ranking, samples, holder, asker, job, asked, changes, losses, budget

(* One request at a time beside the refresh job.                           *)
Ranking == INSTANCE Rankings WITH
    Ranked <- {1, 2}, Changing <- {1}, Askers <- {1}, ScanPage <- 1,
    MaxRequests <- 1, MaxChanges <- 2, MaxLosses <- 1

rankVars == <<family, graph, indexed, ranking, samples, holder, asker, job, asked, changes,
              losses, budget>>
vars == <<part, schedulerVars, migrationVars, watcherVars, resolverVars, rankVars>>

FireTimes  == {2, 3, 6}                       \* two adjacent ones and a later one
Catalog    == {"staged", "single"}
StagedOnes == {"staged"}

Init ==
    /\ part \in {"scheduler", "migrations", "watcher", "resolver", "ranking"}
    /\ SchedulerInit /\ MigrationInit /\ WatcherInit
    /\ ResolverInit /\ (part # "resolver" => known = Users /\ published = [u \in Users |-> None])
    /\ Ranking!RankInit /\ (part # "ranking" => family = "allTime" /\ graph = <<1, 1>>)

Next ==
    \/ /\ part = "scheduler" /\ SchedulerNext
       /\ UNCHANGED <<part, migrationVars, watcherVars, resolverVars, rankVars>>
    \/ /\ part = "migrations" /\ MigrationNext
       /\ UNCHANGED <<part, schedulerVars, watcherVars, resolverVars, rankVars>>
    \/ /\ part = "watcher" /\ WatcherNext
       /\ UNCHANGED <<part, schedulerVars, migrationVars, resolverVars, rankVars>>
    \/ /\ part = "resolver" /\ ResolverNext
       /\ UNCHANGED <<part, schedulerVars, migrationVars, watcherVars, rankVars>>
    \/ /\ part = "ranking" /\ Ranking!RankNext
       /\ UNCHANGED <<part, schedulerVars, migrationVars, watcherVars, resolverVars>>

-----------------------------------------------------------------------------
(* Fairness.                                                               *)

(* The task is polled and a lock round trip ends within its timeout; a job *)
(* may hang, and no time need pass.                                        *)
SchedulerFairness ==
    /\ WF_schedulerVars(part = "scheduler" /\ LoopStep)
    /\ WF_schedulerVars(part = "scheduler" /\ LockedStep)

(* The operator runs the migrations again and again and a run goes on.     *)
MigrationFairness ==
    /\ WF_migrationVars(part = "migrations" /\ StartMigrations)
    /\ WF_migrationVars(part = "migrations" /\ MigrationStep)

(* Tasks and the supervisor are polled, a task's function returns (a       *)
(* processor has its budget, a request its timeout), and time passes.      *)
WatcherFairness ==
    /\ WF_watcherVars(part = "watcher" /\ Supervise)
    /\ WF_watcherVars(part = "watcher" /\ PollStep)
    /\ WF_watcherVars(part = "watcher" /\ WatcherTick)
    /\ \A t \in Others : WF_watcherVars(part = "watcher" /\ EndOther(t))

(* The resolver task keeps ticking, a started ingestion goes on and time   *)
(* passes.                                                                 *)
ResolverFairness ==
    /\ WF_resolverVars(part = "resolver" /\ ResolverStep)
    /\ \A i \in Ingestors : WF_resolverVars(part = "resolver" /\ IngestorStep(i))
    /\ WF_resolverVars(part = "resolver" /\ ResolverTick)
    /\ \A u \in Users : WF_resolverVars(part = "resolver" /\ Expire(u))

(* A handler that has begun goes on, a request goes on, the job is run     *)
(* again and again.                                                        *)
RankFairness ==
    /\ \A u \in {1, 2} : WF_rankVars(part = "ranking" /\ Ranking!ChangeDetails(u))
    /\ WF_rankVars(part = "ranking" /\ Ranking!RankStep(1))
    /\ WF_rankVars(part = "ranking" /\ Ranking!JobStep)

FairSpec ==
    /\ Init /\ [][Next]_vars
    /\ SchedulerFairness /\ MigrationFairness /\ WatcherFairness /\ ResolverFairness
    /\ RankFairness

-----------------------------------------------------------------------------
(* The liveness properties of the parts, each about its own behaviours.    *)

(* A shutdown ends the job's task without waiting for the next fire time   *)
(* or for a hung job, also when the run consumed the only notification.    *)
SchedulerStops == part = "scheduler" => ShutdownStopsTask

(* A migration that was released for backfill and taken off the list       *)
(* finishes, although runs fail in between.                                *)
MigrationsFinish == part = "migrations" => ReleasedMigrationFinishes

(* A shutdown, a dropped shutdown channel or a panic of any task ends the  *)
(* watcher service, and it fails if and only if a task panicked.           *)
WatcherStops == part = "watcher" => TasksStop

(* A homeserver that ranks among the first PollLimit of every list is      *)
(* polled again and again, however it and the others fail.                 *)
WatcherPolls == part = "watcher" => MonitoredIsPolled

(* The mapping of a known user settles on what is published once the       *)
(* record stays as it is.                                                  *)
ResolverSettles == part = "resolver" => MappingSettles

(* Once the graph is left alone a ranking becomes and stays what it says.  *)
RankingSettles == part = "ranking" => Ranking!RankingCatchesUp
=============================================================================

-------------------------- MODULE ServicesProofs ---------------------------
(***************************************************************************)
(* Proofs about the background work of a nexusd process: the task of a     *)
(* scheduled job, for any schedule and any jumps of the wall clock, and    *)
(* the migration runs, for any catalogue and any failures.                 *)
(***************************************************************************)
EXTENDS JobScheduler, MigrationManager, TLAPS

-----------------------------------------------------------------------------
(* The scheduler's types.                                                  *)

LEMMA SchedulerTypeInit == SchedulerInit => SchedulerTypeOK
  <1> SUFFICES ASSUME SchedulerInit PROVE SchedulerTypeOK
    OBVIOUS
  <1>1. shutdown \in BOOLEAN /\ unseen \in BOOLEAN /\ closed \in BOOLEAN
    BY DEF SchedulerInit
  <1> QED
    BY <1>1, SchedulerAssumption DEF SchedulerInit, SchedulerTypeOK, Running

LEMMA SchedulerTypeStep ==
    ASSUME SchedulerTypeOK, [SchedulerNext]_schedulerVars
    PROVE  SchedulerTypeOK'
  <1> USE DEF SchedulerTypeOK, shutdownVars, Running, Stopped
  <1>1. CASE ExitAtTop \/ ScheduleExhausted
    BY <1>1 DEF ExitAtTop, ScheduleExhausted
  <1>2. CASE PickNext
    BY <1>2, SchedulerAssumption DEF PickNext
  <1>3. CASE SleepOn
    <2>1. chunk' \in 0..MaxSleep
      <3>1. nextFire - clock \in Nat
        BY <1>3, SchedulerAssumption DEF SleepOn
      <3> QED
        BY <1>3, <3>1, SchedulerAssumption DEF SleepOn, Chunk
    <2> QED
      BY <1>3, <2>1 DEF SleepOn
  <1>4. CASE ExitFromSleep
    <2>1. unseen' \in BOOLEAN /\ shutdown' \in BOOLEAN /\ closed' \in BOOLEAN
      BY <1>4 DEF ExitFromSleep
    <2> QED
      BY <1>4, <2>1, SchedulerAssumption DEF ExitFromSleep
  <1>5. CASE FireTimeReached
    BY <1>5 DEF FireTimeReached
  <1>6. CASE SkipOnShutdown \/ BeginAcquire \/ AcquireReturns \/ StartJob
             \/ ReleaseReturns \/ JobEnds \/ JobPanics
    BY <1>6 DEF SkipOnShutdown, BeginAcquire, AcquireReturns, StartJob,
                ReleaseReturns, JobEnds, JobPanics
  <1>7. CASE AbandonRun
    <2>1. unseen' \in BOOLEAN /\ shutdown' \in BOOLEAN /\ closed' \in BOOLEAN
      BY <1>7 DEF AbandonRun
    <2> QED
      BY <1>7, <2>1 DEF AbandonRun
  <1>8. CASE SendShutdown \/ DropSenders
    <2>1. unseen' \in BOOLEAN /\ shutdown' \in BOOLEAN /\ closed' \in BOOLEAN
      BY <1>8 DEF SendShutdown, DropSenders
    <2> QED
      BY <1>8, <2>1 DEF SendShutdown, DropSenders
  <1>9. CASE SchedulerTick
    <2>1. clock' \in 0..MaxTime /\ chunk' \in 0..MaxSleep
      BY <1>9, SchedulerAssumption DEF SchedulerTick
    <2> QED
      BY <1>9, <2>1 DEF SchedulerTick
  <1>10. CASE Jump
    <2>1. clock' \in 0..MaxTime /\ jumps' \in 0..MaxJumps
      BY <1>10, SchedulerAssumption DEF Jump
    <2> QED
      BY <1>10, <2>1 DEF Jump
  <1>11. CASE UNCHANGED schedulerVars
    BY <1>11 DEF schedulerVars
  <1> QED
    BY <1>1, <1>2, <1>3, <1>4, <1>5, <1>6, <1>7, <1>8, <1>9, <1>10, <1>11
    DEF SchedulerNext, LoopStep, LockedStep

(* Every variable of the job's task keeps its type.                        *)
THEOREM SchedulerTypeCorrect == SchedulerSpec => []SchedulerTypeOK
  BY SchedulerTypeInit, SchedulerTypeStep, PTL DEF SchedulerSpec

-----------------------------------------------------------------------------
(* The fire time slept towards lies after the last one, wherever the clock *)
(* is set meanwhile: PickNext anchors at the later of the two.             *)
SleepsForward == taskPc = "sleep" => nextFire > lastFired

LEMMA SleepsForwardStep ==
    ASSUME SchedulerTypeOK, SleepsForward, [SchedulerNext]_schedulerVars
    PROVE  SleepsForward'
  <1> USE DEF SleepsForward
  <1>1. CASE PickNext
    <2>1. PICK t \in Schedule : t > Anchor /\ nextFire' = t
      BY <1>1 DEF PickNext, Upcoming
    <2>2. lastFired \in Nat /\ clock \in Nat /\ t \in Nat
      BY SchedulerAssumption DEF SchedulerTypeOK
    <2>3. t > lastFired
      BY <2>1, <2>2 DEF Anchor
    <2> QED
      BY <1>1, <2>1, <2>3 DEF PickNext
  <1>2. CASE taskPc' # "sleep"
    BY <1>2
  <1>3. CASE UNCHANGED <<taskPc, nextFire, lastFired>>
    BY <1>3
  <1>4. CASE LoopStep
    BY <1>1, <1>2, <1>3, <1>4
    DEF LoopStep, ExitAtTop, ScheduleExhausted, SleepOn, ExitFromSleep, FireTimeReached
  <1>5. CASE LockedStep \/ JobEnds \/ JobPanics
    BY <1>2, <1>5
    DEF LockedStep, SkipOnShutdown, BeginAcquire, AcquireReturns, StartJob, AbandonRun,
        ReleaseReturns, JobEnds, JobPanics
  <1>6. CASE SendShutdown \/ DropSenders \/ SchedulerTick \/ Jump
    BY <1>3, <1>6 DEF SendShutdown, DropSenders, SchedulerTick, Jump
  <1>7. CASE UNCHANGED schedulerVars
    BY <1>3, <1>7 DEF schedulerVars
  <1> QED
    BY <1>4, <1>5, <1>6, <1>7 DEF SchedulerNext

(* No fire time is run twice, and none that lies before one already run,   *)
(* although the wall clock may be set back at any moment.                  *)
THEOREM FireTimesIncrease == SchedulerSpec => NoTickTwice
  <1>1. SchedulerInit => SleepsForward
    BY DEF SchedulerInit, SleepsForward
  <1>2. SchedulerTypeOK /\ SleepsForward /\ [SchedulerNext]_schedulerVars => SleepsForward'
    BY SleepsForwardStep
  <1>3. SchedulerTypeOK /\ SleepsForward /\ [SchedulerNext]_schedulerVars
           => [lastFired' # lastFired => lastFired' > lastFired]_schedulerVars
    <2> SUFFICES ASSUME SchedulerTypeOK, SleepsForward, SchedulerNext, lastFired' # lastFired
                 PROVE  lastFired' > lastFired
      OBVIOUS
    <2>1. FireTimeReached
      BY DEF SchedulerNext, LoopStep, LockedStep, ExitAtTop, PickNext, ScheduleExhausted,
             SleepOn, ExitFromSleep, SkipOnShutdown, BeginAcquire, AcquireReturns, StartJob,
             AbandonRun, ReleaseReturns, JobEnds, JobPanics, SendShutdown, DropSenders,
             SchedulerTick, Jump
    <2> QED
      BY <2>1 DEF FireTimeReached, SleepsForward
  <1> QED
    BY <1>1, <1>2, <1>3, SchedulerTypeCorrect, PTL DEF SchedulerSpec, NoTickTwice

-----------------------------------------------------------------------------
(* Between the check of the channel and the job's first poll a shutdown    *)
(* that was sent is still unseen: only the two places that end the turn    *)
(* consume the notification.                                               *)
PendingIsUnseen == taskPc \in {"acquire", "granted"} /\ shutdown => unseen

LEMMA PendingIsUnseenStep ==
    ASSUME PendingIsUnseen, [SchedulerNext]_schedulerVars
    PROVE  PendingIsUnseen'
  <1> USE DEF PendingIsUnseen, shutdownVars
  <1>1. CASE LoopStep
    BY <1>1 DEF LoopStep, ExitAtTop, PickNext, ScheduleExhausted, SleepOn, ExitFromSleep,
                FireTimeReached
  <1>2. CASE LockedStep
    BY <1>2 DEF LockedStep, SkipOnShutdown, BeginAcquire, AcquireReturns, StartJob,
                AbandonRun, ReleaseReturns
  <1>3. CASE JobEnds \/ JobPanics
    BY <1>3 DEF JobEnds, JobPanics
  <1>4. CASE SendShutdown \/ DropSenders \/ SchedulerTick \/ Jump
    BY <1>4 DEF SendShutdown, DropSenders, SchedulerTick, Jump
  <1>5. CASE UNCHANGED schedulerVars
    BY <1>5 DEF schedulerVars
  <1> QED
    BY <1>1, <1>2, <1>3, <1>4, <1>5 DEF SchedulerNext

(* No run starts once the shutdown was sent or its senders are gone, also  *)
(* when that happens while the lock is being acquired.                     *)
THEOREM ShutdownStartsNothing == SchedulerSpec => NoRunAfterShutdown
  <1>1. SchedulerInit => PendingIsUnseen
    BY DEF SchedulerInit, PendingIsUnseen
  <1>2. PendingIsUnseen /\ [SchedulerNext]_schedulerVars => PendingIsUnseen'
    BY PendingIsUnseenStep
  <1>3. PendingIsUnseen /\ [SchedulerNext]_schedulerVars
           => [taskPc' = "run" /\ taskPc # "run" => ~shutdown /\ ~closed]_schedulerVars
    <2> SUFFICES ASSUME PendingIsUnseen, SchedulerNext, taskPc' = "run", taskPc # "run"
                 PROVE  ~shutdown /\ ~closed
      OBVIOUS
    <2>1. StartJob
      BY DEF SchedulerNext, LoopStep, LockedStep, ExitAtTop, PickNext, ScheduleExhausted,
             SleepOn, ExitFromSleep, FireTimeReached, SkipOnShutdown, BeginAcquire,
             AcquireReturns, AbandonRun, ReleaseReturns, JobEnds, JobPanics, SendShutdown,
             DropSenders, SchedulerTick, Jump
    <2> QED
      BY <2>1 DEF StartJob, ShutdownReady, PendingIsUnseen
  <1> QED
    BY <1>1, <1>2, <1>3, PTL DEF SchedulerSpec, NoRunAfterShutdown

-----------------------------------------------------------------------------
(* The migration runs.  A run works from the phases it read when it began; *)
(* the phase it is about to store follows one that it has just completed.  *)

SnapshotInOrder ==
    \A m \in Migrations : Before(m, snapshot[m]) \subseteq executed[m]

SingleSnapshot ==
    \A m \in Migrations \ MultiStaged : snapshot[m] \in {"new", "backfill", "done"}

CurrentIsExecuted ==
    \A m \in current : /\ runPc = "advance" /\ snapshot[m] \in Executed
                       /\ snapshot[m] \in executed[m]

MigrationInv ==
    MigrationTypeOK /\ PhasesInOrder /\ SnapshotInOrder /\ SingleSnapshot /\ CurrentIsExecuted

(* The phase stored after a completed one has nothing left before it.      *)
LEMMA NextPhaseInOrder ==
    ASSUME MigrationInv, NEW m \in current
    PROVE  /\ Before(m, NextPhase(m)) \subseteq executed[m]
           /\ NextPhase(m) \in MigrationPhase
           /\ m \notin MultiStaged => NextPhase(m) = "done"
  <1>1. m \in Migrations
    BY DEF MigrationInv, MigrationTypeOK
  <1>2. snapshot[m] \in executed[m] /\ Before(m, snapshot[m]) \subseteq executed[m]
    BY <1>1 DEF MigrationInv, CurrentIsExecuted, SnapshotInOrder
  <1>3. CASE m \in MultiStaged
    <2>1. snapshot[m] \in {"backfill", "cutover", "cleanup"}
      BY DEF MigrationInv, CurrentIsExecuted, Executed
    <2>2. CASE snapshot[m] = "backfill"
      BY <1>2, <1>3, <2>2 DEF NextPhase, PhaseAfter, Before, MigrationPhase, Executed
    <2>3. CASE snapshot[m] = "cutover"
      BY <1>2, <1>3, <2>3 DEF NextPhase, PhaseAfter, Before, MigrationPhase, Executed
    <2>4. CASE snapshot[m] = "cleanup"
      BY <1>2, <1>3, <2>4 DEF NextPhase, PhaseAfter, Before, MigrationPhase, Executed
    <2> QED
      BY <2>1, <2>2, <2>3, <2>4
  <1>4. CASE m \notin MultiStaged
    <2>1. snapshot[m] = "backfill"
      BY <1>1, <1>4 DEF MigrationInv, SingleSnapshot, CurrentIsExecuted, Executed
    <2> QED
      BY <1>2, <1>4, <2>1 DEF NextPhase, Before, MigrationPhase
  <1> QED
    BY <1>3, <1>4

LEMMA MigrationInit_Inv == MigrationInit => MigrationInv
  <1> SUFFICES ASSUME MigrationInit PROVE MigrationInv
    OBVIOUS
  <1>1. MigrationTypeOK
    BY MigrationAssumption DEF MigrationInit, MigrationTypeOK, MigrationPhase
  <1>2. \A m \in Migrations : Before(m, "new") = {}
    BY DEF Before
  <1> QED
    BY <1>1, <1>2
    DEF MigrationInit, MigrationInv, PhasesInOrder, SnapshotInOrder, SingleSnapshot,
        CurrentIsExecuted

LEMMA MigrationStep_Inv ==
    ASSUME MigrationInv, [MigrationNext]_migrationVars
    PROVE  MigrationInv'
  <1> USE DEF MigrationInv
  <1>1. CASE StartMigrations
    BY <1>1 DEF StartMigrations, MigrationTypeOK, Check, PhasesInOrder, SnapshotInOrder,
                SingleSnapshot, CurrentIsExecuted, Before
  <1>2. CASE GetMigrations
    <2>1. MigrationTypeOK'
      BY <1>2 DEF GetMigrations, MigrationTypeOK
    <2>2. SingleSnapshot'
      BY <1>2 DEF GetMigrations, MigrationTypeOK, SingleSnapshot
    <2> QED
      BY <1>2, <2>1, <2>2
      DEF GetMigrations, PhasesInOrder, SnapshotInOrder, CurrentIsExecuted, Before
  <1>3. CASE EndRun
    BY <1>3 DEF EndRun, migrationRunVars, MigrationTypeOK, PhasesInOrder, SnapshotInOrder,
                SingleSnapshot, CurrentIsExecuted, Before
  <1>4. ASSUME NEW m \in Migrations, MarkReady(m) PROVE MigrationInv'
    <2>1. MigrationTypeOK'
      BY <1>4 DEF MarkReady, MigrationTypeOK, MigrationPhase, Executed
    <2>2. PhasesInOrder'
      BY <1>4 DEF MarkReady, MigrationTypeOK, PhasesInOrder, Before
    <2> QED
      BY <1>4, <2>1, <2>2
      DEF MarkReady, SnapshotInOrder, SingleSnapshot, CurrentIsExecuted, Before
  <1>5. ASSUME NEW m \in Migrations, StoreNewMigration(m) PROVE MigrationInv'
    <2>1. current = {} /\ current' = {}
      BY <1>5 DEF StoreNewMigration, CurrentIsExecuted
    <2>2. CASE /\ m \in MultiStaged
               /\ nodePhase' = [nodePhase EXCEPT ![m] = "dual_write"]
               /\ todo' = todo \ {m}
               /\ UNCHANGED snapshot
      <3>1. MigrationTypeOK'
        BY <1>5, <2>1, <2>2 DEF StoreNewMigration, MigrationTypeOK, MigrationPhase
      <3>2. PhasesInOrder'
        BY <1>5, <2>2 DEF StoreNewMigration, MigrationTypeOK, PhasesInOrder, Before
      <3> QED
        BY <1>5, <2>1, <2>2, <3>1, <3>2
        DEF StoreNewMigration, SnapshotInOrder, SingleSnapshot, CurrentIsExecuted, Before
    <2>3. CASE /\ m \notin MultiStaged
               /\ nodePhase' = [nodePhase EXCEPT ![m] = "backfill"]
               /\ snapshot' = [snapshot EXCEPT ![m] = "backfill"]
               /\ UNCHANGED todo
      <3>1. MigrationTypeOK'
        BY <1>5, <2>1, <2>3 DEF StoreNewMigration, MigrationTypeOK, MigrationPhase, Executed
      <3>2. PhasesInOrder' /\ SnapshotInOrder'
        BY <1>5, <2>3
        DEF StoreNewMigration, MigrationTypeOK, PhasesInOrder, SnapshotInOrder, Before
      <3>3. SingleSnapshot'
        BY <2>3 DEF MigrationTypeOK, SingleSnapshot
      <3> QED
        BY <2>1, <3>1, <3>2, <3>3 DEF CurrentIsExecuted
    <2> QED
      BY <1>5, <2>2, <2>3 DEF StoreNewMigration
  <1>6. ASSUME NEW m \in Migrations, SkipMigration(m) PROVE MigrationInv'
    BY <1>6 DEF SkipMigration, MigrationTypeOK, PhasesInOrder, SnapshotInOrder,
                SingleSnapshot, CurrentIsExecuted, Before
  <1>7. ASSUME NEW m \in Migrations, ExecutePhase(m) PROVE MigrationInv'
    <2>1. executed' = [executed EXCEPT ![m] = executed[m] \cup {snapshot[m]}]
      BY <1>7 DEF ExecutePhase
    <2>2. \A n \in Migrations : executed[n] \subseteq executed'[n]
      BY <2>1 DEF MigrationTypeOK
    <2>3. snapshot[m] \in executed'[m] /\ snapshot[m] \in Executed
      BY <1>7, <2>1 DEF MigrationTypeOK, ExecutePhase
    <2>4. MigrationTypeOK'
      <3>1. executed' \in [Migrations -> SUBSET Executed]
        BY <2>1, <2>3 DEF MigrationTypeOK
      <3> QED
        BY <1>7, <3>1 DEF ExecutePhase, MigrationTypeOK
    <2>5. PhasesInOrder' /\ SnapshotInOrder'
      BY <1>7, <2>2 DEF ExecutePhase, PhasesInOrder, SnapshotInOrder, Before
    <2> QED
      BY <1>7, <2>3, <2>4, <2>5 DEF ExecutePhase, SingleSnapshot, CurrentIsExecuted
  <1>8. ASSUME NEW m \in Migrations, UpdateMigrationPhase(m) PROVE MigrationInv'
    <2>1. m \in current /\ nodePhase' = [nodePhase EXCEPT ![m] = NextPhase(m)]
      BY <1>8 DEF UpdateMigrationPhase
    <2>2. /\ Before(m, NextPhase(m)) \subseteq executed[m]
          /\ NextPhase(m) \in MigrationPhase
          /\ m \notin MultiStaged => NextPhase(m) = "done"
      BY <2>1, NextPhaseInOrder
    <2>3. MigrationTypeOK'
      BY <1>8, <2>1, <2>2 DEF UpdateMigrationPhase, MigrationTypeOK
    <2>4. PhasesInOrder'
      <3> SUFFICES ASSUME NEW n \in Migrations
                   PROVE  Before(n, nodePhase'[n]) \subseteq executed'[n]
        BY DEF PhasesInOrder, Before
      <3>1. CASE n = m
        BY <1>8, <2>1, <2>2, <3>1 DEF UpdateMigrationPhase, MigrationTypeOK
      <3>2. CASE n # m
        BY <1>8, <2>1, <3>2 DEF UpdateMigrationPhase, MigrationTypeOK, PhasesInOrder
      <3> QED
        BY <3>1, <3>2
    <2> QED
      BY <1>8, <2>3, <2>4
      DEF UpdateMigrationPhase, SnapshotInOrder, SingleSnapshot, CurrentIsExecuted, Before
  <1>9. CASE RunFails
    <2>1. failedRuns' \in 0..MaxFailedRuns
      BY <1>9, MigrationAssumption DEF RunFails, MigrationTypeOK
    <2> QED
      BY <1>9, <2>1 DEF RunFails, MigrationTypeOK, PhasesInOrder, SnapshotInOrder,
                        SingleSnapshot, CurrentIsExecuted, Before
  <1>10. ASSUME NEW m \in Migrations, EditConfig(m) PROVE MigrationInv'
    BY <1>10 DEF EditConfig, MigrationTypeOK, PhasesInOrder, SnapshotInOrder,
                 SingleSnapshot, CurrentIsExecuted, Before
  <1>11. CASE UNCHANGED migrationVars
    BY <1>11 DEF migrationVars, MigrationTypeOK, PhasesInOrder, SnapshotInOrder,
                 SingleSnapshot, CurrentIsExecuted, Before
  <1> QED
    BY <1>1, <1>2, <1>3, <1>4, <1>5, <1>6, <1>7, <1>8, <1>9, <1>10, <1>11
    DEF MigrationNext, MigrationStep

(* No migration's stored phase runs ahead of the phases that were          *)
(* completed, whichever run was cut short and whenever it was listed.      *)
THEOREM MigrationsGoInOrder == MigrationSpec => [](MigrationTypeOK /\ PhasesInOrder)
  <1>1. MigrationInv => MigrationTypeOK /\ PhasesInOrder
    BY DEF MigrationInv
  <1>2. MigrationInv /\ [MigrationNext]_migrationVars => MigrationInv'
    BY MigrationStep_Inv
  <1> QED
    BY <1>1, <1>2, MigrationInit_Inv, PTL DEF MigrationSpec
=============================================================================

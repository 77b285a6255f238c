-------------------------- MODULE MigrationManager --------------------------
(***************************************************************************)
(* The migration manager: each run moves the registered migrations one     *)
(* phase on, keeping every migration's phase in a node of the graph.  The  *)
(* operator lists migrations in backfill_ready between runs; a run may     *)
(* fail or be killed at any call and is then simply started again.         *)
(***************************************************************************)
EXTENDS Integers

CONSTANTS
    Migrations,     \* registered migrations
    MultiStaged,    \* those that are multi-staged
    MaxFailedRuns       \* bound: failed runs

ASSUME MigrationAssumption ==
    MultiStaged \subseteq Migrations /\ MaxFailedRuns \in Nat

Executed == {"backfill", "cutover", "cleanup"}
MigrationPhase == {"dual_write", "done"} \cup Executed

VARIABLES
    nodePhase,     \* phase in each migration's node, "new" when there is none
    listed,     \* backfill_ready of the config file
    runPc,         \* step of the run
    toMark,      \* stored and listed migrations still to be marked
    snapshot,   \* the phases the run works from
    todo,       \* migrations of this run not handled yet
    current,    \* set with the migration whose phase was just executed
    executed,   \* phases ever completed, for each migration
    acted,      \* migrations this run stored or executed a phase of
    predicted,  \* what check reported when the run started
    failedRuns

migrationVars == <<nodePhase, listed, runPc, toMark, snapshot, todo, current, executed, acted,
          predicted, failedRuns>>
migrationRunVars == <<toMark, snapshot, todo, current, acted, predicted>>

MigrationTypeOK ==
    /\ nodePhase \in [Migrations -> MigrationPhase \cup {"new"}]
    /\ snapshot \in [Migrations -> MigrationPhase \cup {"new"}]
    /\ executed \in [Migrations -> SUBSET Executed]
    /\ \A m \in Migrations \ MultiStaged : nodePhase[m] \in {"new", "backfill", "done"}
    /\ runPc \in {"idle", "mark", "apply", "advance"}
    /\ listed \subseteq Migrations /\ toMark \subseteq Migrations /\ todo \subseteq Migrations
    /\ acted \subseteq Migrations /\ predicted \subseteq Migrations
    /\ current \subseteq todo
    /\ failedRuns \in 0..MaxFailedRuns

MigrationInit ==
    /\ nodePhase = [m \in Migrations |-> "new"] /\ snapshot = nodePhase
    /\ executed = [m \in Migrations |-> {}]
    /\ runPc = "idle" /\ listed = {} /\ toMark = {} /\ todo = {} /\ current = {}
    /\ acted = {} /\ predicted = {} /\ failedRuns = 0

-----------------------------------------------------------------------------
(* check and the phases.                                                   *)

IsPending(phase, backfillReady) ==
    \/ phase \in {"new"} \cup Executed
    \/ phase = "dual_write" /\ backfillReady

Check == {m \in Migrations : IsPending(nodePhase[m], m \in listed)}

(* Faulty variant: the cleanup follows the backfill.                       *)
SkippingCutover(phase) ==
    CASE phase = "dual_write" -> "backfill"
      [] phase = "backfill"   -> "cleanup"
      [] phase = "cutover"    -> "cleanup"
      [] OTHER                -> "done"

PhaseAfter(phase) ==
    CASE phase = "dual_write" -> "backfill"
      [] phase = "backfill"   -> "cutover"
      [] phase = "cutover"    -> "cleanup"
      [] OTHER                -> "done"

NextPhase(m) == IF m \in MultiStaged THEN PhaseAfter(snapshot[m]) ELSE "done"

-----------------------------------------------------------------------------
(* One run.                                                                *)

StartMigrations ==
    /\ runPc = "idle"
    /\ toMark' = {m \in listed : nodePhase[m] # "new"}
    /\ predicted' = Check
    /\ acted' = {}
    /\ runPc' = "mark"
    /\ UNCHANGED <<nodePhase, listed, snapshot, todo, current, executed, failedRuns>>

MarkReady(m) ==
    /\ runPc = "mark" /\ m \in toMark
    /\ nodePhase' = [nodePhase EXCEPT ![m] = "backfill"]
    /\ toMark' = toMark \ {m}
    /\ UNCHANGED <<listed, runPc, snapshot, todo, current, executed, acted, predicted,
                   failedRuns>>

GetMigrations ==
    /\ runPc = "mark" /\ toMark = {}
    /\ snapshot' = nodePhase
    /\ todo' = Migrations
    /\ runPc' = "apply"
    /\ UNCHANGED <<nodePhase, listed, toMark, current, executed, acted, predicted, failedRuns>>

StoreNewMigration(m) ==
    /\ runPc = "apply" /\ m \in todo /\ snapshot[m] = "new"
    /\ acted' = acted \cup {m}
    /\ \/ /\ m \in MultiStaged
          /\ nodePhase' = [nodePhase EXCEPT ![m] = "dual_write"]
          /\ todo' = todo \ {m}
          /\ UNCHANGED snapshot
       \/ /\ m \notin MultiStaged
          /\ nodePhase' = [nodePhase EXCEPT ![m] = "backfill"]
          /\ snapshot' = [snapshot EXCEPT ![m] = "backfill"]
          /\ UNCHANGED todo
    /\ UNCHANGED <<listed, runPc, toMark, current, executed, predicted, failedRuns>>

SkipMigration(m) ==
    /\ runPc = "apply" /\ m \in todo /\ snapshot[m] \in {"dual_write", "done"}
    /\ todo' = todo \ {m}
    /\ UNCHANGED <<nodePhase, listed, runPc, toMark, snapshot, current, executed, acted,
                   predicted, failedRuns>>

ExecutePhase(m) ==
    /\ runPc = "apply" /\ m \in todo /\ snapshot[m] \in Executed
    /\ executed' = [executed EXCEPT ![m] = @ \cup {snapshot[m]}]
    /\ acted' = acted \cup {m}
    /\ current' = {m}
    /\ runPc' = "advance"
    /\ UNCHANGED <<nodePhase, listed, toMark, snapshot, todo, predicted, failedRuns>>

(* Faulty variant: the phase just completed is stored, not the next one.   *)
StoreSamePhase(m) ==
    /\ runPc = "advance" /\ m \in current
    /\ nodePhase' = [nodePhase EXCEPT ![m] = snapshot[m]]
    /\ todo' = todo \ {m}
    /\ current' = {}
    /\ runPc' = "apply"
    /\ UNCHANGED <<listed, toMark, snapshot, executed, acted, predicted, failedRuns>>

UpdateMigrationPhase(m) ==
    /\ runPc = "advance" /\ m \in current
    /\ nodePhase' = [nodePhase EXCEPT ![m] = NextPhase(m)]
    /\ todo' = todo \ {m}
    /\ current' = {}
    /\ runPc' = "apply"
    /\ UNCHANGED <<listed, toMark, snapshot, executed, acted, predicted, failedRuns>>

EndRun ==
    /\ runPc = "apply" /\ todo = {}
    /\ runPc' = "idle"
    /\ UNCHANGED <<nodePhase, listed, executed, failedRuns>> /\ UNCHANGED migrationRunVars

(* A query or a phase fails, or the process is killed: the run is over.    *)
RunFails ==
    /\ runPc # "idle" /\ failedRuns < MaxFailedRuns
    /\ failedRuns' = failedRuns + 1
    /\ runPc' = "idle" /\ toMark' = {} /\ todo' = {} /\ current' = {}
    /\ acted' = {} /\ predicted' = {}
    /\ UNCHANGED <<nodePhase, listed, snapshot, executed>>

(* The operator edits backfill_ready; a run reads the file when it starts. *)
EditConfig(m) ==
    /\ runPc = "idle"
    /\ listed' = IF m \in listed THEN listed \ {m} ELSE listed \cup {m}
    /\ acted' = {} /\ predicted' = {}
    /\ UNCHANGED <<nodePhase, runPc, toMark, snapshot, todo, current, executed, failedRuns>>

MigrationStep ==
    \/ GetMigrations \/ EndRun
    \/ \E m \in Migrations :
          \/ MarkReady(m) \/ StoreNewMigration(m) \/ SkipMigration(m)
          \/ ExecutePhase(m) \/ UpdateMigrationPhase(m)

MigrationNext ==
    StartMigrations \/ MigrationStep \/ RunFails \/ \E m \in Migrations : EditConfig(m)

MigrationSpec == MigrationInit /\ [][MigrationNext]_migrationVars

-----------------------------------------------------------------------------
(* Properties.                                                             *)

(* No phase is passed over: a stored phase is reached only after the ones  *)
(* before it were completed, whatever run was cut short and whenever the   *)
(* migration was listed.                                                   *)
Before(m, phase) ==
    CASE phase = "cutover" -> {"backfill"}
      [] phase = "cleanup" -> {"backfill", "cutover"}
      [] phase = "done"    -> IF m \in MultiStaged THEN Executed ELSE {"backfill"}
      [] OTHER             -> {}

PhasesInOrder ==
    \A m \in Migrations : Before(m, nodePhase[m]) \subseteq executed[m]

(* A migration that was released for backfill and taken off the list       *)
(* finishes, although runs fail in between.                                *)
ReleasedMigrationFinishes ==
    \A m \in Migrations :
        (nodePhase[m] \in Executed /\ <>[](m \notin listed)) ~> nodePhase[m] = "done"
=============================================================================

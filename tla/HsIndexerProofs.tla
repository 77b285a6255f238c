-------------------------- MODULE HsIndexerProofs --------------------------
(***************************************************************************)
(* Proofs about the primary-homeserver loop for any log, any users, any    *)
(* batch limit and a homeserver that may answer anything: its types, that  *)
(* the stored cursor never passes an event nobody took care of, that no    *)
(* batch is replayed for ever, and that the loop implements EventIntake.   *)
(* The last three need that Redis does not restart under a run.            *)
(***************************************************************************)
EXTENDS HsIndexer, TLAPS

(* What a poll can return: lines and a closing cursor of the log.          *)
LEMMA AnswerType ==
    ASSUME TypeOK, NEW a \in Answers(requested)
    PROVE  a.lines \subseteq Positions /\ a.closing \in 0..Len \cup {NoCursor, BadCursor}
  <1>1. Upto(requested) \in 0..Len
    BY IndexerAssumption DEF TypeOK, Upto
  <1>2. NextLines(requested) \subseteq Positions
    BY <1>1, IndexerAssumption DEF TypeOK, NextLines, Positions
  <1>3. 1..head \subseteq Positions /\ 0..head \subseteq 0..Len
    BY IndexerAssumption DEF TypeOK, Positions
  <1> QED
    BY <1>1, <1>2, <1>3 DEF Answers

LEMMA TypeInit == Init => TypeOK
  <1> SUFFICES ASSUME Init PROVE TypeOK
    OBVIOUS
  <1>1. stopping \in BOOLEAN /\ decided \subseteq Users \X BOOLEAN
    BY DEF Init
  <1>2. snap \in [cursor : 0..Len \cup {Missing},
                  outcome : [Positions -> Outcome], withheld : SUBSET Positions]
    BY DEF Init, NoOutcome, Outcome
  <1> QED
    BY <1>1, <1>2, IndexerAssumption
    DEF Init, TypeOK, NoOutcome, NoCache, Outcome, Mapping, Missing, NoCursor, BadCursor

LEMMA EndRunType ==
    ASSUME TypeOK, EndRun
    PROVE  /\ pc' = "idle"
           /\ requested' \in 0..Len /\ todo' \subseteq Positions
           /\ closing' \in 0..Len \cup {NoCursor, BadCursor}
           /\ cache' \in [Users -> Mapping \cup {"none"}]
           /\ decided' \subseteq Users \X BOOLEAN
  BY IndexerAssumption DEF EndRun, NoCache

LEMMA TypeStep == TypeOK /\ [Next]_vars => TypeOK'
  <1> SUFFICES ASSUME TypeOK, [Next]_vars PROVE TypeOK'
    OBVIOUS
  <1>1. CASE Start
    BY <1>1, IndexerAssumption DEF Start, TypeOK, memVars
  <1>2. CASE Build
    BY <1>2 DEF Build, TypeOK, NoCache, Missing
  <1>3. CASE Poll
    <2>1. PICK a \in Answers(requested) : todo' = a.lines /\ closing' = a.closing
      BY <1>3 DEF Poll
    <2> QED
      BY <1>3, <2>1, AnswerType DEF Poll, TypeOK
  <1>4. CASE ResolveBatchCursor
    <2>1. CASE BatchAccepted
      BY <1>4, <2>1 DEF ResolveBatchCursor, BatchAccepted, TypeOK, memVars
    <2>2. CASE ~BatchAccepted
      BY <1>4, <2>2, EndRunType DEF ResolveBatchCursor, TypeOK
    <2> QED
      BY <2>1, <2>2
  <1>5. CASE PassNoise
    BY <1>5 DEF PassNoise, TypeOK, Outcome
  <1>6. ASSUME NEW r \in {"ok"} \cup ErrorClass, HandleEvent(r) PROVE TypeOK'
    <2>1. PICK p \in todo \ Noise :
             /\ cache' = [cache EXCEPT ![UserOf[p]] = UserHsMapping(UserOf[p])]
             /\ decided' = decided \cup
                   {<<UserOf[p], ShouldProcess(UserHsMapping(UserOf[p]))>>}
             /\ outcome' = [outcome EXCEPT ![p] =
                   IF ShouldProcess(UserHsMapping(UserOf[p])) THEN OutcomeOf(r) ELSE "skipped"]
             /\ todo' = todo \ {p}
      BY <1>6 DEF HandleEvent
    <2>2. UserOf[p] \in Users
      BY IndexerAssumption DEF TypeOK
    <2>3. cache' \in [Users -> Mapping \cup {"none"}]
      BY <2>1, <2>2 DEF TypeOK, UserHsMapping
    <2>4. ShouldProcess(UserHsMapping(UserOf[p])) \in BOOLEAN
      BY DEF ShouldProcess
    <2>5. decided' \subseteq Users \X BOOLEAN
      <3>1. decided \subseteq Users \X BOOLEAN
        BY DEF TypeOK
      <3>2. decided' = decided \cup
               {<<UserOf[p], ShouldProcess(UserHsMapping(UserOf[p]))>>}
        BY <2>1
      <3>3. <<UserOf[p], ShouldProcess(UserHsMapping(UserOf[p]))>> \in Users \X BOOLEAN
        BY <2>2, <2>4
      <3> HIDE DEF ShouldProcess, UserHsMapping
      <3> QED
        BY <3>1, <3>2, <3>3, Zenon
    <2>6. outcome' \in [Positions -> Outcome]
      BY <2>1 DEF TypeOK, OutcomeOf, Outcome
    <2> QED
      BY <1>6, <2>1, <2>3, <2>5, <2>6 DEF HandleEvent, TypeOK
  <1>7. CASE RunFails
    BY <1>7, EndRunType DEF RunFails, TypeOK
  <1>8. CASE StopBatch
    BY <1>8, EndRunType DEF StopBatch, TypeOK
  <1>9. CASE SaveCursor
    <2>1. cursor' \in 0..Len \cup {Missing}
      BY <1>9 DEF SaveCursor, TypeOK, NoCursor
    <2> QED
      BY <1>9, <2>1, EndRunType DEF SaveCursor, TypeOK
  <1>10. CASE Shutdown
    BY <1>10 DEF Shutdown, TypeOK, redisVars, memVars
  <1>11. CASE Exit
    BY <1>11 DEF Exit, TypeOK, redisVars, memVars
  <1>12. CASE Crash
    <2>1. /\ requested' \in 0..Len /\ todo' \subseteq Positions
          /\ closing' \in 0..Len \cup {NoCursor, BadCursor}
          /\ cache' \in [Users -> Mapping \cup {"none"}]
          /\ decided' \subseteq Users \X BOOLEAN
      BY <1>12, IndexerAssumption DEF Crash, NoCache
    <2>2. pc' = "down" /\ stopping' = FALSE /\ faults' \in Nat
      BY <1>12 DEF Crash, TypeOK
    <2> QED
      BY <1>12, <2>1, <2>2 DEF Crash, TypeOK, redisVars
  <1>13. CASE Publish
    <2>1. head' \in 0..Len
      BY <1>13, IndexerAssumption DEF Publish, TypeOK
    <2> QED
      BY <1>13, <2>1 DEF Publish, TypeOK, redisVars, memVars
  <1>14. ASSUME NEW u \in Users, Remap(u) PROVE TypeOK'
    <2>1. mapping' \in [Users -> Mapping] /\ changes' \in Nat
      BY <1>14 DEF Remap, TypeOK
    <2> QED
      BY <1>14, <2>1 DEF Remap, TypeOK, redisVars, memVars
  <1>15. CASE Snapshot
    <2>1. snap' \in [cursor : 0..Len \cup {Missing},
                     outcome : [Positions -> Outcome], withheld : SUBSET Positions]
      BY <1>15 DEF Snapshot, TypeOK
    <2> QED
      BY <1>15, <2>1 DEF Snapshot, TypeOK, redisVars, memVars
  <1>16. CASE Restore
    <2>1. /\ cursor' \in 0..Len \cup {Missing} /\ outcome' \in [Positions -> Outcome]
          /\ withheld' \subseteq Positions /\ ran' \in Nat /\ faults' \in Nat
      BY <1>16 DEF Restore, TypeOK
    <2> QED
      BY <1>16, <2>1 DEF Restore, TypeOK, memVars
  <1>17. CASE UNCHANGED vars
    BY <1>17 DEF TypeOK, vars
  <1> QED
    BY <1>1, <1>2, <1>3, <1>4, <1>5, <1>6, <1>7, <1>8, <1>9, <1>10, <1>11,
       <1>12, <1>13, <1>14, <1>15, <1>16, <1>17 DEF Next, RunStep

(* Every variable of the primary-homeserver loop keeps its type.           *)
THEOREM TypeCorrect == Spec => []TypeOK
  BY TypeInit, TypeStep, PTL DEF Spec

(***************************************************************************)
(* The inductive invariant.  A run works from the cursor that is stored:   *)
(* while it holds a batch, every position up to the closing cursor is      *)
(* accounted for or still to be processed.  The snapshot Redis comes back  *)
(* with is closed in the same way.  A batch that was started is paid for   *)
(* by the cursor, by a fault or by the run in progress; while the watcher  *)
(* is stopping, the fault is reserved for the run it may cut short.        *)
(***************************************************************************)
InRun == pc \in {"poll", "resolve", "batch"}

RequestedIsStored == InRun => requested = cursor

BatchIsCovered ==
    pc = "batch" => \A p \in Positions : p <= closing => p \in Accounted \cup todo

SnapshotIsCovered ==
    \A p \in Positions : p <= snap.cursor =>
        snap.outcome[p] # "none" \/ p \in snap.withheld

StartedBatchesArePaid ==
    ran + (IF stopping /\ pc # "idle" THEN 1 ELSE 0)
        <= (IF cursor = Missing THEN 0 ELSE cursor) + faults
           + (IF pc = "batch" /\ requested < closing THEN 1 ELSE 0)

StoppingIsUp == stopping => pc # "down"

CursorCoverage == NoGap /\ RequestedIsStored /\ BatchIsCovered /\ SnapshotIsCovered

Inv == TypeOK /\ CursorCoverage /\ StartedBatchesArePaid /\ StoppingIsUp

LEMMA InvInit == Init => Inv
  <1> SUFFICES ASSUME Init PROVE Inv
    OBVIOUS
  <1>1. TypeOK
    BY TypeInit
  <1>2. CursorCoverage
    BY IndexerAssumption DEF Init, CursorCoverage, NoGap, RequestedIsStored, InRun,
          BatchIsCovered, SnapshotIsCovered, Missing, Positions
  <1>3. StartedBatchesArePaid /\ StoppingIsUp
    BY DEF Init, StartedBatchesArePaid, StoppingIsUp, Missing
  <1> QED
    BY <1>1, <1>2, <1>3 DEF Inv

(* Steps that leave Redis, the batch and the history alone.                *)
LEMMA CoverageUntouched ==
    ASSUME CursorCoverage, UNCHANGED <<cursor, outcome, snap, withheld>>,
           UNCHANGED <<pc, requested, todo, closing>>
           \/ pc' \in {"idle", "down"}
    PROVE  CursorCoverage'
  BY DEF CursorCoverage, NoGap, RequestedIsStored, InRun, BatchIsCovered,
         SnapshotIsCovered, Accounted

(* A position that gets an outcome stays accounted for.                    *)
LEMMA TakeCovers ==
    ASSUME TypeOK, NEW p \in Positions, NEW o \in Outcome \ {"none"},
           outcome' = [outcome EXCEPT ![p] = o], UNCHANGED withheld
    PROVE  Accounted' = Accounted \cup {p}
  <1>1. \A q \in Positions : outcome'[q] = IF q = p THEN o ELSE outcome[q]
    BY DEF TypeOK
  <1> QED
    BY <1>1 DEF Accounted

LEMMA TakeStep ==
    ASSUME Inv, pc = "batch", NEW p \in todo, NEW o \in Outcome \ {"none"},
           outcome' = [outcome EXCEPT ![p] = o], todo' = todo \ {p},
           UNCHANGED <<cursor, snap, withheld, pc, requested, closing,
                       stopping, faults, ran>>
    PROVE  CursorCoverage' /\ StartedBatchesArePaid' /\ StoppingIsUp'
  <1>1. p \in Positions /\ TypeOK
    BY DEF Inv, TypeOK
  <1>2. Accounted' = Accounted \cup {p}
    BY <1>1, TakeCovers
  <1>3. CursorCoverage'
    BY <1>2 DEF Inv, CursorCoverage, NoGap, RequestedIsStored, InRun,
          BatchIsCovered, SnapshotIsCovered
  <1> QED
    BY <1>3 DEF Inv, StartedBatchesArePaid, StoppingIsUp

LEMMA InvStep ==
    ASSUME ~MidRunRestore, Inv, [Next]_vars PROVE Inv'
  <1>0. TypeOK /\ TypeOK' /\ CursorCoverage
    BY TypeStep DEF Inv
  <1> SUFFICES CursorCoverage' /\ StartedBatchesArePaid' /\ StoppingIsUp'
    BY <1>0 DEF Inv
  <1>1. CASE Start
    <2>1. CursorCoverage'
      <3>1. Accounted' = Accounted
        BY <1>1 DEF Start, Accounted
      <3>2. NoGap'
        BY <1>0, <1>1, <3>1 DEF Start, CursorCoverage, NoGap, Missing, Positions
      <3> QED
        BY <1>0, <1>1, <3>2 DEF Start, CursorCoverage, RequestedIsStored, InRun,
              BatchIsCovered, SnapshotIsCovered
    <2>2. StartedBatchesArePaid' /\ StoppingIsUp'
      BY <1>1 DEF Start, Inv, TypeOK, StartedBatchesArePaid, StoppingIsUp, Missing
    <2> QED
      BY <2>1, <2>2
  <1>2. CASE Build
    <2>1. CursorCoverage'
      BY <1>0, <1>2 DEF Build, CursorCoverage, NoGap, RequestedIsStored, InRun,
            BatchIsCovered, SnapshotIsCovered, Accounted
    <2>2. StartedBatchesArePaid' /\ StoppingIsUp'
      BY <1>2 DEF Build, Inv, StartedBatchesArePaid, StoppingIsUp
    <2> QED
      BY <2>1, <2>2
  <1>3. CASE Poll
    <2>1. CursorCoverage'
      BY <1>0, <1>3 DEF Poll, CursorCoverage, NoGap, RequestedIsStored, InRun,
            BatchIsCovered, SnapshotIsCovered, Accounted
    <2>2. StartedBatchesArePaid' /\ StoppingIsUp'
      BY <1>3 DEF Poll, Inv, StartedBatchesArePaid, StoppingIsUp
    <2> QED
      BY <2>1, <2>2
  <1>4. CASE ResolveBatchCursor
    <2>1. CASE BatchAccepted
      <3>1. requested = cursor /\ pc' = "batch" /\ UNCHANGED <<todo, closing, requested>>
        BY <1>0, <1>4, <2>1 DEF ResolveBatchCursor, CursorCoverage,
              RequestedIsStored, InRun, memVars
      <3>2. withheld' = IF todo = {} THEN withheld ELSE withheld \cup
               {p \in Positions : requested < p /\ p <= closing /\ p \notin todo}
        BY <1>4, <2>1 DEF ResolveBatchCursor
      <3>3. Accounted \subseteq Accounted'
        BY <1>4, <3>2 DEF ResolveBatchCursor, Accounted
      <3>4. NoGap'
        BY <1>0, <1>4, <3>3 DEF ResolveBatchCursor, CursorCoverage, NoGap
      <3>5. BatchIsCovered'
        <4> SUFFICES ASSUME NEW p \in Positions, p <= closing
                     PROVE  p \in Accounted' \cup todo
          BY <3>1 DEF BatchIsCovered
        <4>1. CASE p <= cursor
          BY <1>0, <3>3, <4>1 DEF CursorCoverage, NoGap
        <4>2. CASE ~(p <= cursor) /\ todo # {}
          <5>1. requested < p
            BY <1>0, <3>1, <4>2 DEF TypeOK, Positions, Missing
          <5> QED
            BY <3>2, <4>2, <5>1 DEF Accounted
        <4>3. CASE ~(p <= cursor) /\ todo = {}
          BY <1>0, <2>1, <3>1, <4>3, IndexerAssumption
          DEF BatchAccepted, TypeOK, Positions, NoCursor, BadCursor, Missing
        <4> QED
          BY <4>1, <4>2, <4>3
      <3>6. CursorCoverage'
        BY <1>0, <1>4, <3>1, <3>4, <3>5 DEF ResolveBatchCursor, CursorCoverage,
              RequestedIsStored, InRun, SnapshotIsCovered
      <3>7. StartedBatchesArePaid' /\ StoppingIsUp'
        BY <1>4, <2>1, <3>1 DEF ResolveBatchCursor, BatchAccepted, Inv, TypeOK,
              StartedBatchesArePaid, StoppingIsUp, NoCursor, BadCursor, Missing
      <3> QED
        BY <3>6, <3>7
    <2>2. CASE ~BatchAccepted
      <3>1. pc' = "idle" /\ UNCHANGED <<cursor, outcome, snap, withheld>>
        BY <1>4, <2>2 DEF ResolveBatchCursor, EndRun
      <3>2. CursorCoverage'
        BY <1>0, <3>1, CoverageUntouched
      <3>3. StartedBatchesArePaid' /\ StoppingIsUp'
        BY <1>4, <2>2, <3>1 DEF ResolveBatchCursor, Inv, TypeOK,
              StartedBatchesArePaid, StoppingIsUp
      <3> QED
        BY <3>2, <3>3
    <2> QED
      BY <2>1, <2>2
  <1>5. CASE PassNoise
    <2>1. PICK p \in todo : outcome' = [outcome EXCEPT ![p] = "dropped"]
                            /\ todo' = todo \ {p}
      BY <1>5 DEF PassNoise
    <2> QED
      BY <1>5, <2>1, TakeStep DEF PassNoise, Outcome
  <1>6. ASSUME NEW r \in {"ok"} \cup ErrorClass, HandleEvent(r)
        PROVE  CursorCoverage' /\ StartedBatchesArePaid' /\ StoppingIsUp'
    <2>1. PICK p \in todo :
             /\ outcome' = [outcome EXCEPT ![p] =
                   IF ShouldProcess(UserHsMapping(UserOf[p])) THEN OutcomeOf(r) ELSE "skipped"]
             /\ todo' = todo \ {p}
      BY <1>6 DEF HandleEvent
    <2>2. (IF ShouldProcess(UserHsMapping(UserOf[p])) THEN OutcomeOf(r) ELSE "skipped")
             \in Outcome \ {"none"}
      BY DEF OutcomeOf, Outcome
    <2> QED
      BY <1>6, <2>1, <2>2, TakeStep DEF HandleEvent
  <1>7. CASE RunFails
    <2>1. CursorCoverage'
      BY <1>0, <1>7, CoverageUntouched DEF RunFails, EndRun
    <2>2. StartedBatchesArePaid' /\ StoppingIsUp'
      BY <1>7 DEF RunFails, EndRun, Inv, TypeOK, StartedBatchesArePaid, StoppingIsUp, Missing
    <2> QED
      BY <2>1, <2>2
  <1>8. CASE StopBatch
    <2>1. CursorCoverage'
      BY <1>0, <1>8, CoverageUntouched DEF StopBatch, EndRun
    <2>2. StartedBatchesArePaid' /\ StoppingIsUp'
      BY <1>8 DEF StopBatch, EndRun, Inv, TypeOK, StartedBatchesArePaid, StoppingIsUp, Missing
    <2> QED
      BY <2>1, <2>2
  <1>9. CASE SaveCursor
    <2>1. Accounted' = Accounted /\ pc' = "idle" /\ todo = {} /\ pc = "batch"
      BY <1>9 DEF SaveCursor, EndRun, Accounted
    <2>2. cursor' = cursor \/ (cursor' = closing /\ closing >= cursor)
      BY <1>0, <1>9 DEF SaveCursor, TypeOK, NoCursor, BadCursor, Missing
    <2>3. NoGap'
      BY <1>0, <2>1, <2>2 DEF CursorCoverage, NoGap, BatchIsCovered
    <2>4. CursorCoverage'
      BY <1>0, <1>9, <2>1, <2>3 DEF SaveCursor, CursorCoverage, RequestedIsStored,
            InRun, BatchIsCovered, SnapshotIsCovered
    <2>5. StartedBatchesArePaid' /\ StoppingIsUp'
      <3>1. requested = cursor
        BY <1>0, <2>1 DEF CursorCoverage, RequestedIsStored, InRun
      <3>2. cursor' = IF closing = NoCursor \/ closing < cursor THEN cursor ELSE closing
        BY <1>9 DEF SaveCursor
      <3>3. UNCHANGED <<ran, faults, stopping>>
        BY <1>9 DEF SaveCursor
      <3> QED
        BY <2>1, <3>1, <3>2, <3>3 DEF Inv, TypeOK, StartedBatchesArePaid,
              StoppingIsUp, NoCursor, BadCursor, Missing
    <2> QED
      BY <2>4, <2>5
  <1>10. CASE Shutdown
    <2>1. CursorCoverage'
      BY <1>0, <1>10, CoverageUntouched DEF Shutdown, redisVars, memVars
    <2>2. StartedBatchesArePaid' /\ StoppingIsUp'
      BY <1>10 DEF Shutdown, redisVars, memVars, Inv, TypeOK, StartedBatchesArePaid,
            StoppingIsUp, Missing
    <2> QED
      BY <2>1, <2>2
  <1>11. CASE Exit
    <2>1. CursorCoverage'
      BY <1>0, <1>11, CoverageUntouched DEF Exit, redisVars, memVars
    <2>2. StartedBatchesArePaid' /\ StoppingIsUp'
      BY <1>11 DEF Exit, redisVars, memVars, Inv, TypeOK, StartedBatchesArePaid,
            StoppingIsUp, Missing
    <2> QED
      BY <2>1, <2>2
  <1>12. CASE Crash
    <2>1. CursorCoverage'
      BY <1>0, <1>12, CoverageUntouched DEF Crash, redisVars
    <2>2. StartedBatchesArePaid' /\ StoppingIsUp'
      BY <1>12 DEF Crash, redisVars, Inv, TypeOK, StartedBatchesArePaid,
            StoppingIsUp, Missing
    <2> QED
      BY <2>1, <2>2
  <1>13. CASE Publish
    <2>1. CursorCoverage'
      BY <1>0, <1>13, CoverageUntouched DEF Publish, redisVars, memVars
    <2>2. StartedBatchesArePaid' /\ StoppingIsUp'
      BY <1>13 DEF Publish, redisVars, memVars, Inv, StartedBatchesArePaid, StoppingIsUp
    <2> QED
      BY <2>1, <2>2
  <1>14. ASSUME NEW u \in Users, Remap(u)
         PROVE  CursorCoverage' /\ StartedBatchesArePaid' /\ StoppingIsUp'
    <2>1. CursorCoverage'
      BY <1>0, <1>14, CoverageUntouched DEF Remap, redisVars, memVars
    <2>2. StartedBatchesArePaid' /\ StoppingIsUp'
      BY <1>14 DEF Remap, redisVars, memVars, Inv, StartedBatchesArePaid, StoppingIsUp
    <2> QED
      BY <2>1, <2>2
  <1>15. CASE Snapshot
    <2>1. SnapshotIsCovered'
      BY <1>0, <1>15 DEF Snapshot, SnapshotIsCovered, CursorCoverage, NoGap, Accounted
    <2>2. CursorCoverage'
      BY <1>0, <1>15, <2>1 DEF Snapshot, redisVars, memVars, CursorCoverage, NoGap,
            RequestedIsStored, InRun, BatchIsCovered, Accounted
    <2>3. StartedBatchesArePaid' /\ StoppingIsUp'
      BY <1>15 DEF Snapshot, redisVars, memVars, Inv, StartedBatchesArePaid, StoppingIsUp
    <2> QED
      BY <2>2, <2>3
  <1>16. CASE Restore
    <2>1. pc \in {"down", "idle"} /\ pc' = pc
      BY <1>16 DEF Restore
    <2>2. NoGap'
      BY <1>0, <1>16 DEF Restore, CursorCoverage, SnapshotIsCovered, NoGap, Accounted
    <2>3. CursorCoverage'
      BY <1>0, <1>16, <2>1, <2>2 DEF Restore, CursorCoverage, RequestedIsStored,
            InRun, BatchIsCovered, SnapshotIsCovered
    <2>4. StartedBatchesArePaid' /\ StoppingIsUp'
      BY <1>0, <1>16, <2>1 DEF Restore, Inv, TypeOK, StartedBatchesArePaid,
            StoppingIsUp, Missing
    <2> QED
      BY <2>3, <2>4
  <1>17. CASE UNCHANGED vars
    <2>1. CursorCoverage'
      BY <1>0, <1>17, CoverageUntouched DEF vars
    <2> QED
      BY <1>17, <2>1 DEF vars, Inv, StartedBatchesArePaid, StoppingIsUp
  <1> QED
    BY <1>1, <1>2, <1>3, <1>4, <1>5, <1>6, <1>7, <1>8, <1>9, <1>10, <1>11,
       <1>12, <1>13, <1>14, <1>15, <1>16, <1>17 DEF Next, RunStep

LEMMA Invariance ==
    ASSUME ~MidRunRestore PROVE Spec => []Inv
  <1>1. Inv /\ [Next]_vars => Inv'
    BY InvStep
  <1> QED
    BY <1>1, InvInit, PTL DEF Spec

(* For any log, limit and homeserver answers: while Redis restarts only    *)
(* between runs, the stored cursor passes accounted events only.           *)
THEOREM CursorPassesNothing ==
    ASSUME ~MidRunRestore PROVE Spec => []NoGap
  BY Invariance, PTL DEF Inv, CursorCoverage

(* Whatever the homeserver answers, a batch that cannot move the cursor is *)
(* not handled over and over.                                              *)
THEOREM BatchesAreNotReplayed ==
    ASSUME ~MidRunRestore PROVE Spec => []NoReplayLoop
  <1>1. Inv => NoReplayLoop
    BY DEF Inv, TypeOK, StartedBatchesArePaid, NoReplayLoop, Missing
  <1> QED
    BY <1>1, Invariance, PTL

(***************************************************************************)
(* The loop implements EventIntake.                                        *)
(***************************************************************************)
Saved == [at |-> snap.cursor,
          done |-> {p \in Positions : snap.outcome[p] # "none"} \cup snap.withheld]

LEMMA IntakeInit == Init => Intake!Init
  <1> SUFFICES ASSUME Init PROVE Intake!Init
    OBVIOUS
  <1>1. Accounted = {}
    BY DEF Init, Accounted, NoOutcome
  <1>2. {p \in Positions : snap.outcome[p] # "none"} \cup snap.withheld = {}
    BY DEF Init, NoOutcome
  <1>3. cursor = -1 /\ snap.cursor = -1
    BY DEF Init, Missing
  <1> QED
    BY <1>1, <1>2, <1>3 DEF Intake!Init

(* Coverage stated over the positions of the log covers the whole prefix.  *)
LEMMA CoveredByNoGap ==
    ASSUME NEW c \in 0..Len, NEW D,
           \A p \in Positions : p <= c => p \in D
    PROVE  Intake!Covered(c, D)
  BY IndexerAssumption DEF Intake!Covered, Positions

LEMMA IntakeStep ==
    ASSUME Inv, Inv', [Next]_vars
    PROVE  [Intake!Next]_(Intake!intakeVars)
  <1> USE DEF Intake!Next, Intake!intakeVars
  <1>0. TypeOK /\ CursorCoverage
    BY DEF Inv
  <1>1. ASSUME UNCHANGED <<cursor, outcome, snap, withheld>>
        PROVE  UNCHANGED <<cursor, Accounted, Saved>>
    BY <1>1 DEF Accounted, Saved
  <1>2. CASE Start
    <2>1. Accounted' = Accounted /\ Saved' = Saved
      BY <1>2 DEF Start, Accounted, Saved
    <2>2. CASE cursor = Missing
      <3>1. cursor' = 0 /\ cursor' > cursor
        BY <1>2, <2>2 DEF Start, Missing
      <3>2. Intake!Covered(cursor', Accounted)
        BY <3>1 DEF Intake!Covered
      <3> QED
        BY <2>1, <3>1, <3>2 DEF Intake!Commit, Saved
    <2>3. CASE cursor # Missing
      BY <1>2, <2>1, <2>3 DEF Start, Saved
    <2> QED
      BY <2>2, <2>3
  <1>3. CASE ResolveBatchCursor
    <2>1. Accounted \subseteq Accounted' /\ UNCHANGED <<cursor, Saved>>
      BY <1>3 DEF ResolveBatchCursor, Accounted, Saved
    <2> QED
      BY <2>1 DEF Intake!Take, Saved
  <1>4. CASE PassNoise \/ \E r \in {"ok"} \cup ErrorClass : HandleEvent(r)
    <2>1. /\ UNCHANGED <<cursor, snap, withheld>>
          /\ \E p \in Positions, o \in Outcome \ {"none"} :
                outcome' = [outcome EXCEPT ![p] = o]
      <3>1. CASE PassNoise
        BY <1>0, <3>1 DEF PassNoise, TypeOK, Outcome
      <3>2. ASSUME NEW r \in {"ok"} \cup ErrorClass, HandleEvent(r)
            PROVE  /\ UNCHANGED <<cursor, snap, withheld>>
                   /\ \E p \in Positions, o \in Outcome \ {"none"} :
                         outcome' = [outcome EXCEPT ![p] = o]
        <4>1. PICK p \in todo : outcome' = [outcome EXCEPT ![p] =
                 IF ShouldProcess(UserHsMapping(UserOf[p])) THEN OutcomeOf(r) ELSE "skipped"]
          BY <3>2 DEF HandleEvent
        <4>2. (IF ShouldProcess(UserHsMapping(UserOf[p])) THEN OutcomeOf(r) ELSE "skipped")
                 \in Outcome \ {"none"}
          BY DEF OutcomeOf, Outcome
        <4>3. p \in Positions
          BY <1>0 DEF TypeOK
        <4> QED
          BY <3>2, <4>1, <4>2, <4>3 DEF HandleEvent
      <3> QED
        BY <1>4, <3>1, <3>2
    <2>2. Accounted \subseteq Accounted'
      BY <1>0, <2>1, TakeCovers
    <2>3. Saved' = Saved
      BY <2>1 DEF Saved
    <2> QED
      BY <2>1, <2>2, <2>3 DEF Intake!Take, Saved
  <1>5. CASE SaveCursor
    <2>1. Accounted' = Accounted /\ Saved' = Saved /\ todo = {} /\ pc = "batch"
      BY <1>5 DEF SaveCursor, Accounted, Saved
    <2>2. cursor' = cursor \/ (cursor' = closing /\ closing > cursor /\ closing \in 0..Len)
      BY <1>0, <1>5 DEF SaveCursor, TypeOK, NoCursor, BadCursor, Missing
    <2>3. CASE cursor' = cursor
      BY <2>1, <2>3 DEF Saved
    <2>4. CASE cursor' = closing /\ closing > cursor /\ closing \in 0..Len
      <3>1. \A p \in Positions : p <= closing => p \in Accounted
        BY <1>0, <2>1 DEF CursorCoverage, BatchIsCovered
      <3>2. Intake!Covered(closing, Accounted)
        BY <2>4, <3>1, CoveredByNoGap
      <3> QED
        BY <2>1, <2>4, <3>2 DEF Intake!Commit, Saved
    <2> QED
      BY <2>2, <2>3, <2>4
  <1>6. CASE Snapshot
    <2>1. cursor' = cursor /\ Accounted' = Accounted
          /\ Saved' = [at |-> cursor, done |-> Accounted]
      BY <1>6 DEF Snapshot, redisVars, Accounted, Saved
    <2> QED
      BY <2>1 DEF Intake!Snapshot, Saved
  <1>7. CASE Restore
    <2>1. cursor' = Saved.at /\ Accounted' = Saved.done /\ Saved' = Saved
      BY <1>7 DEF Restore, Accounted, Saved
    <2> QED
      BY <2>1 DEF Intake!Restore, Saved
  <1>8. CASE \/ Build \/ Poll \/ RunFails \/ StopBatch \/ Shutdown \/ Exit \/ Crash
             \/ Publish \/ (\E u \in Users : Remap(u)) \/ UNCHANGED vars
    <2>1. UNCHANGED <<cursor, outcome, snap, withheld>>
      BY <1>8 DEF Build, Poll, RunFails, StopBatch, Shutdown, Exit, Crash, Publish,
            Remap, vars, redisVars
    <2> QED
      BY <1>1, <2>1 DEF Saved
  <1> QED
    BY <1>2, <1>3, <1>4, <1>5, <1>6, <1>7, <1>8 DEF Next, RunStep

(* For any log and any homeserver: an event is taken care of before the    *)
(* cursor in Redis passes it, and a restart of Redis brings cursor and     *)
(* outcomes back together.                                                 *)
THEOREM LoopImplementsIntake ==
    ASSUME ~MidRunRestore PROVE Spec => IntakeSpec
  <1>1. Inv /\ Inv' /\ [Next]_vars => [Intake!Next]_(Intake!intakeVars)
    BY IntakeStep
  <1>2. Spec => [][Intake!Next]_(Intake!intakeVars)
    BY <1>1, Invariance, PTL DEF Spec
  <1> QED
    BY <1>2, IntakeInit, PTL DEF Spec, IntakeSpec, Intake!Spec
=============================================================================

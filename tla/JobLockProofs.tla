--------------------------- MODULE JobLockProofs ---------------------------
(***************************************************************************)
(* Proofs about the run lock for any number of processes and any lengths   *)
(* of the deadline, the margin and the round-trip timeout: its types and,  *)
(* while hosts stay awake and clocks are not set back, mutual exclusion.   *)
(***************************************************************************)
EXTENDS JobLock, TLAPS

(* A chunk of sleep_wall never passes the deadline.                        *)
LEMMA ChunkFits ==
    ASSUME NEW r \in 0..MaxRun
    PROVE  NextChunk(r) \in 0..MaxRun /\ NextChunk(r) <= r
  BY LockAssumption DEF NextChunk

(***************************************************************************)
(* The types hold with suspends and clock steps too; a process sends only  *)
(* requests for a token it has minted.                                     *)
(***************************************************************************)
TypeInv == TypeOK /\ BusyHasToken

LEMMA ReleaseTypes ==
    ASSUME TypeInv, NEW p \in Procs, Release(p),
           pc[p] \in {"acquire", "run"}
    PROVE  TypeInv'
  <1> USE LockAssumption DEF TypeInv, TypeOK, Tokens, BusyHasToken, Release
  <1>1. tok[p] \in 1..minted
    OBVIOUS
  <1>2. dels' \subseteq 1..minted'
    BY <1>1
  <1>3. pc' \in [Procs -> {"idle", "acquire", "run", "release", "down"}]
    OBVIOUS
  <1>4. BusyHasToken'
    OBVIOUS
  <1> QED
    BY <1>2, <1>3, <1>4

LEMMA ResetTypes ==
    ASSUME TypeInv, NEW p \in Procs, NEW s \in {"idle", "down"}, Reset(p, s),
           UNCHANGED <<slot, ttl, sets, minted, upsets>>,
           dels' \subseteq Tokens, asleep' \subseteq Procs
    PROVE  TypeInv'
  BY LockAssumption DEF TypeInv, TypeOK, Tokens, BusyHasToken, Reset

LEMMA TypeStep == TypeInv /\ [Next]_vars => TypeInv'
  <1> SUFFICES ASSUME TypeInv, [Next]_vars PROVE TypeInv'
    OBVIOUS
  <1> USE LockAssumption DEF TypeInv, TypeOK, Tokens, BusyHasToken
  <1>1. ASSUME NEW t \in Tokens, TryAcquireLock(t) PROVE TypeInv'
    BY <1>1 DEF TryAcquireLock, Claim, LOCK_TTL_SECS
  <1>2. ASSUME NEW t \in Tokens, ReleaseLock(t) PROVE TypeInv'
    BY <1>2 DEF ReleaseLock, CompareAndDelete
  <1>3. ASSUME NEW t \in Tokens, LoseRequest(t) PROVE TypeInv'
    BY <1>3 DEF LoseRequest
  <1>4. ASSUME NEW p \in Procs, Fire(p) PROVE TypeInv'
    BY <1>4 DEF Fire
  <1>5. ASSUME NEW p \in Procs, StartRun(p) PROVE TypeInv'
    <2>1. NextChunk(MaxRun) \in 0..MaxRun
      BY ChunkFits
    <2> QED
      BY <1>5, <2>1 DEF StartRun
  <1>6. ASSUME NEW p \in Procs, RereadClock(p) PROVE TypeInv'
    <2>1. NextChunk(left[p]) \in 0..MaxRun
      BY ChunkFits
    <2> QED
      BY <1>6, <2>1 DEF RereadClock
  <1>7. ASSUME NEW p \in Procs, AcquireFails(p) \/ EndRun(p) \/ AbandonAtDeadline(p)
        PROVE  TypeInv'
    BY <1>7, ReleaseTypes DEF AcquireFails, EndRun, AbandonAtDeadline
  <1>8. ASSUME NEW p \in Procs, SkipHeld(p) \/ ReleaseReturns(p) \/ Restart(p)
        PROVE  TypeInv'
    <2>1. Reset(p, "idle") /\ UNCHANGED <<slot, ttl, sets, minted, upsets, dels, asleep>>
      BY <1>8 DEF SkipHeld, ReleaseReturns, Restart
    <2> QED
      BY <2>1, ResetTypes
  <1>9. ASSUME NEW p \in Procs, RunPanics(p) PROVE TypeInv'
    <2>1. tok[p] \in Tokens
      BY <1>9 DEF RunPanics
    <2>2. dels' \subseteq Tokens
      BY <1>9, <2>1 DEF RunPanics
    <2>3. Reset(p, "down") /\ UNCHANGED <<slot, ttl, sets, minted, upsets, asleep>>
      BY <1>9 DEF RunPanics
    <2> QED
      BY <2>2, <2>3, ResetTypes
  <1>10. ASSUME NEW p \in Procs, Crash(p) PROVE TypeInv'
    <2>1. /\ Reset(p, "down") /\ UNCHANGED <<slot, ttl, sets, minted, upsets, dels>>
          /\ asleep' \subseteq Procs
      BY <1>10 DEF Crash
    <2> QED
      BY <2>1, ResetTypes
  <1>11. ASSUME NEW p \in Procs, Suspend(p) \/ Resume(p) PROVE TypeInv'
    <2>1. CASE Suspend(p)
      BY <2>1 DEF Suspend
    <2>2. CASE Resume(p)
      BY <2>2 DEF Resume
    <2> QED
      BY <1>11, <2>1, <2>2
  <1>12. ASSUME NEW p \in Procs, SetClockBack(p) PROVE TypeInv'
    BY <1>12 DEF SetClockBack
  <1>13. CASE Tick
    BY <1>13 DEF Tick
  <1>14. CASE UNCHANGED vars
    BY <1>14 DEF vars
  <1> HIDE DEF TypeInv, TypeOK, BusyHasToken
  <1> QED
    BY <1>1, <1>2, <1>3, <1>4, <1>5, <1>6, <1>7, <1>8, <1>9, <1>10, <1>11, <1>12,
       <1>13, <1>14 DEF Next, RedisStep, ProcStep

LEMMA TypeInit == Init => TypeInv
  BY LockAssumption DEF Init, TypeInv, TypeOK, Tokens, BusyHasToken

(* Every variable of the lock keeps its type: tokens in the slot and in    *)
(* the requests were minted, and no timer leaves its range.                *)
THEOREM TypeCorrect == Spec => []TypeOK
  <1>1. TypeInv => TypeOK
    BY DEF TypeInv
  <1> QED
    BY <1>1, TypeInit, TypeStep, PTL DEF Spec

(***************************************************************************)
(* The lease outlasts the run while hosts stay awake and clocks are not    *)
(* set back.  LeaseInv is preserved by every action.                       *)
(***************************************************************************)

(* The conjuncts of LeaseInv about grants, runs and requests.              *)
Leased == GrantIsLeased /\ RunIsLeased
Covered == TokensDiffer /\ NotReleasedYet /\ (upsets = 0 => Leased)

(* A process that ends its run or its acquire gives up its claim.          *)
LEMMA ReleaseIsCovered ==
    ASSUME LeaseInv, NEW p \in Procs, Release(p), pc[p] \in {"acquire", "run"}
    PROVE  Covered'
  <1> USE DEF LeaseInv, TypeOK, Release
  <1>1. TokensDiffer'
    BY DEF TokensDiffer
  <1>2. NotReleasedYet'
    BY DEF NotReleasedYet, TokensDiffer, BusyHasToken
  <1>3. upsets' = 0 => Leased'
    BY DEF Leased, GrantIsLeased, RunIsLeased
  <1> QED
    BY <1>1, <1>2, <1>3 DEF Covered

LEMMA ResetIsCovered ==
    ASSUME LeaseInv, NEW p \in Procs, NEW s \in {"idle", "down"}, Reset(p, s),
           UNCHANGED <<slot, ttl, sets, upsets>>, dels' \subseteq dels \cup {tok[p]},
           pc[p] \in {"acquire", "run", "release"} \/ dels' = dels
    PROVE  Covered'
  <1> USE DEF LeaseInv, TypeOK, Reset
  <1>1. TokensDiffer'
    BY DEF TokensDiffer
  <1>2. NotReleasedYet'
    BY DEF NotReleasedYet, TokensDiffer, BusyHasToken
  <1>3. upsets' = 0 => Leased'
    BY DEF Leased, GrantIsLeased, RunIsLeased
  <1> QED
    BY <1>1, <1>2, <1>3 DEF Covered

(* A tick takes one unit of the lease and one of every timer: the margin   *)
(* is still there when the deadline comes.                                 *)
LEMMA TickIsCovered ==
    ASSUME LeaseInv, Tick, upsets = 0
    PROVE  Leased'
  <1> USE LockAssumption DEF LeaseInv, TypeOK, Tick, HostsAreAwake, Awake
  <1>1. GrantIsLeased'
    <2> SUFFICES ASSUME NEW p \in Procs, pc[p] = "acquire", reply[p] = "taken"
                 PROVE  slot' = tok[p] /\ ttl' >= MaxRun + Margin - IoTimeout + io'[p]
      BY DEF GrantIsLeased
    <2>1. io[p] > 0
      BY DEF TimerExpired, Waiting
    <2>2. slot = tok[p] /\ ttl >= MaxRun + Margin - IoTimeout + io[p]
      BY DEF GrantIsLeased
    <2>3. ttl > 1
      BY <2>1, <2>2
    <2> QED
      BY <2>1, <2>2, <2>3
  <1>2. RunIsLeased'
    <2> SUFFICES ASSUME NEW p \in Procs, pc[p] = "run"
                 PROVE  /\ slot' = tok[p] /\ ttl' >= left'[p] + Margin - IoTimeout
                        /\ chunk'[p] <= left'[p]
      BY DEF RunIsLeased
    <2>1. chunk[p] > 0
      BY DEF TimerExpired, Waiting
    <2>2. /\ slot = tok[p] /\ ttl >= left[p] + Margin - IoTimeout
          /\ chunk[p] <= left[p]
      BY DEF RunIsLeased
    <2>3. left[p] > 0 /\ ttl > 1
      BY <2>1, <2>2
    <2> QED
      BY <2>1, <2>2, <2>3
  <1> QED
    BY <1>1, <1>2 DEF Leased

LEMMA LeaseStep ==
    ASSUME LeaseInv, [Next]_vars
    PROVE  LeaseInv'
  <1>1. TypeInv'
    BY TypeStep DEF LeaseInv, TypeInv
  <1>2. upsets' = 0 => upsets = 0 /\ HostsAreAwake'
    BY DEF LeaseInv, TypeOK, HostsAreAwake, Next, RedisStep, TryAcquireLock, ReleaseLock,
       LoseRequest, Fire, ProcStep, StartRun, SkipHeld, AcquireFails, EndRun, RereadClock,
       AbandonAtDeadline, ReleaseReturns, RunPanics, Crash, Restart, Suspend, Resume,
       SetClockBack, Tick, Release, vars
  <1>3. Covered'
    <2> USE LockAssumption DEF LeaseInv, TypeOK, Tokens
    <2>1. ASSUME NEW t \in Tokens, TryAcquireLock(t) PROVE Covered'
      <3> USE <2>1 DEF TryAcquireLock
      <3>1. TokensDiffer' /\ NotReleasedYet'
        BY DEF TokensDiffer, NotReleasedYet
      <3>2. upsets = 0 => GrantIsLeased'
        BY DEF GrantIsLeased, BusyHasToken, Claim, LOCK_TTL_SECS
      <3>3. upsets = 0 => RunIsLeased'
        BY DEF RunIsLeased, BusyHasToken
      <3> QED
        BY <3>1, <3>2, <3>3 DEF Covered, Leased
    <2>2. ASSUME NEW t \in Tokens, ReleaseLock(t) PROVE Covered'
      <3> USE <2>2 DEF ReleaseLock
      <3>1. TokensDiffer' /\ NotReleasedYet'
        BY DEF TokensDiffer, NotReleasedYet
      <3>2. upsets = 0 => GrantIsLeased'
        BY DEF GrantIsLeased, NotReleasedYet, CompareAndDelete
      <3>3. upsets = 0 => RunIsLeased'
        BY DEF RunIsLeased, NotReleasedYet, CompareAndDelete
      <3> QED
        BY <3>1, <3>2, <3>3 DEF Covered, Leased
    <2>3. ASSUME NEW t \in Tokens, LoseRequest(t) PROVE Covered'
      BY <2>3 DEF LoseRequest, Covered, Leased, TokensDiffer, NotReleasedYet,
         GrantIsLeased, RunIsLeased
    <2>4. ASSUME NEW p \in Procs, Fire(p) PROVE Covered'
      <3> USE <2>4 DEF Fire
      <3>1. minted + 1 \notin dels /\ \A q \in Procs : tok[q] # minted + 1
        OBVIOUS
      <3>2. TokensDiffer' /\ NotReleasedYet'
        BY <3>1 DEF TokensDiffer, NotReleasedYet
      <3>3. upsets = 0 => Leased'
        BY DEF Leased, GrantIsLeased, RunIsLeased
      <3> QED
        BY <3>2, <3>3 DEF Covered
    <2>5. ASSUME NEW p \in Procs, StartRun(p) PROVE Covered'
      <3> USE <2>5 DEF StartRun
      <3>1. TokensDiffer' /\ NotReleasedYet' /\ (upsets = 0 => GrantIsLeased')
        BY DEF TokensDiffer, NotReleasedYet, GrantIsLeased
      <3>2. NextChunk(MaxRun) <= MaxRun
        BY ChunkFits
      <3>3. upsets = 0 => slot = tok[p] /\ ttl >= MaxRun + Margin - IoTimeout
        BY DEF GrantIsLeased
      <3>4. upsets = 0 => RunIsLeased'
        BY <3>2, <3>3 DEF RunIsLeased
      <3> QED
        BY <3>1, <3>4 DEF Covered, Leased
    <2>6. ASSUME NEW p \in Procs, RereadClock(p) PROVE Covered'
      <3>1. NextChunk(left[p]) <= left[p]
        BY ChunkFits
      <3> QED
        BY <2>6, <3>1 DEF RereadClock, Covered, Leased, TokensDiffer, NotReleasedYet,
           GrantIsLeased, RunIsLeased
    <2>7. ASSUME NEW p \in Procs, AcquireFails(p) \/ EndRun(p) \/ AbandonAtDeadline(p)
          PROVE  Covered'
      BY <2>7, ReleaseIsCovered DEF AcquireFails, EndRun, AbandonAtDeadline
    <2>8. ASSUME NEW p \in Procs, SkipHeld(p) \/ ReleaseReturns(p) \/ Restart(p)
          PROVE  Covered'
      <3>1. Reset(p, "idle") /\ UNCHANGED <<slot, ttl, sets, dels, upsets>>
        BY <2>8 DEF SkipHeld, ReleaseReturns, Restart
      <3> QED
        BY <3>1, ResetIsCovered
    <2>9. ASSUME NEW p \in Procs, RunPanics(p) \/ Crash(p) PROVE Covered'
      <3>1. /\ Reset(p, "down") /\ UNCHANGED <<slot, ttl, sets, upsets>>
            /\ dels' \subseteq dels \cup {tok[p]}
            /\ pc[p] = "run" \/ dels' = dels
        BY <2>9 DEF RunPanics, Crash
      <3> QED
        BY <3>1, ResetIsCovered
    <2>10. ASSUME NEW p \in Procs, Suspend(p) \/ SetClockBack(p) PROVE Covered'
      BY <2>10 DEF Suspend, SetClockBack, Covered, TokensDiffer, NotReleasedYet
    <2>11. ASSUME NEW p \in Procs, Resume(p) PROVE Covered'
      BY <2>11 DEF Resume, Covered, Leased, TokensDiffer, NotReleasedYet, GrantIsLeased,
         RunIsLeased
    <2>12. CASE Tick
      <3>1. TokensDiffer' /\ NotReleasedYet' /\ upsets' = upsets
        BY <2>12 DEF Tick, TokensDiffer, NotReleasedYet
      <3> QED
        BY <2>12, <3>1, TickIsCovered DEF Covered
    <2>13. CASE UNCHANGED vars
      BY <2>13 DEF vars, Covered, Leased, TokensDiffer, NotReleasedYet, GrantIsLeased,
         RunIsLeased
    <2> HIDE DEF LeaseInv, TypeOK, Tokens
    <2> QED
      BY <2>1, <2>2, <2>3, <2>4, <2>5, <2>6, <2>7, <2>8, <2>9, <2>10, <2>11, <2>12,
         <2>13 DEF Next, RedisStep, ProcStep
  <1> QED
    BY <1>1, <1>2, <1>3 DEF LeaseInv, TypeInv, Covered, Leased

LEMMA LeaseInit == Init => LeaseInv
  <1> SUFFICES ASSUME Init PROVE LeaseInv
    OBVIOUS
  <1>1. TypeOK
    BY TypeInit DEF TypeInv
  <1> QED
    BY <1>1 DEF Init, LeaseInv, TokensDiffer, BusyHasToken, NotReleasedYet,
       GrantIsLeased, RunIsLeased, HostsAreAwake

(* While hosts stay awake and clocks are not set back, a running job's     *)
(* process holds the slot: the lease, the deadline and the token-scoped    *)
(* release leave no gap, however late requests are executed.               *)
THEOREM RunsHoldTheSlot == Spec => []RunHoldsSlot
  <1>1. LeaseInv => RunHoldsSlot
    BY DEF LeaseInv, RunIsLeased, RunHoldsSlot
  <1>2. LeaseInv /\ [Next]_vars => LeaseInv'
    BY LeaseStep
  <1> QED
    BY <1>1, <1>2, LeaseInit, PTL DEF Spec

(* Under the same condition no two processes run the job at once.          *)
THEOREM MutualExclusion == Spec => []OneRunAtATime
  <1>1. LeaseInv => OneRunAtATime
    BY DEF LeaseInv, RunIsLeased, TokensDiffer, BusyHasToken, OneRunAtATime
  <1>2. LeaseInv /\ [Next]_vars => LeaseInv'
    BY LeaseStep
  <1> QED
    BY <1>1, <1>2, LeaseInit, PTL DEF Spec
=============================================================================

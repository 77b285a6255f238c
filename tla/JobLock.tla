------------------------------ MODULE JobLock ------------------------------
(***************************************************************************)
(* The run lock of a scheduled job: several nexusd processes fire the same *)
(* job, each claims the slot in Redis with a lease, runs under a           *)
(* wall-clock deadline and releases the slot by token.  Requests wait on   *)
(* the network and may be lost or executed after their caller gave up, a   *)
(* process may crash, its host may sleep and its clock may be set back.    *)
(* Time advances in ticks; an awake process handles an expired timer       *)
(* before the next tick.                                                   *)
(***************************************************************************)
EXTENDS Integers

CONSTANTS
    Procs,          \* processes that fire the job (or run it on demand)
    MaxRun,         \* MAX_RUN
    Margin,         \* LEASE_MARGIN
    IoTimeout,      \* LOCK_IO_TIMEOUT
    MaxSleep,       \* MAX_SLEEP, the longest chunk of sleep_wall
    MaxFires,       \* bound: tokens minted
    MaxUpsets       \* bound: host suspends and clocks set back

ASSUME LockAssumption ==
    /\ MaxRun \in Nat \ {0} /\ MaxSleep \in Nat \ {0}
    /\ Margin \in Nat /\ IoTimeout \in Nat /\ IoTimeout < Margin
    /\ MaxFires \in Nat /\ MaxUpsets \in Nat

VARIABLES
    slot,       \* token in the lock's key, 0 when the key is absent
    ttl,        \* time until the key expires
    sets,       \* tokens of SET requests not executed yet
    dels,       \* tokens of compare-and-delete requests not executed yet
    reply,      \* reply to each process's SET
    pc,         \* step of each process
    tok,        \* token of the current run, 0 for none
    io,         \* time left of the current lock round trip (monotonic)
    left,       \* time left to the deadline of the run, by the wall clock
    chunk,      \* time left of the current chunk of sleep_wall (monotonic)
    asleep,     \* processes on a suspended host
    minted,     \* tokens minted so far
    upsets      \* host suspends and clock steps so far

vars == <<slot, ttl, sets, dels, reply, pc, tok, io, left, chunk, asleep, minted, upsets>>

Tokens == 1..minted

TypeOK ==
    /\ minted \in 0..MaxFires /\ upsets \in 0..MaxUpsets
    /\ slot \in 0..minted
    /\ ttl \in 0..(MaxRun + Margin)
    /\ sets \subseteq Tokens /\ dels \subseteq Tokens
    /\ reply \in [Procs -> {"none", "taken", "held"}]
    /\ pc \in [Procs -> {"idle", "acquire", "run", "release", "down"}]
    /\ tok \in [Procs -> 0..minted]
    /\ io \in [Procs -> 0..IoTimeout]
    /\ left \in [Procs -> 0..MaxRun]
    /\ chunk \in [Procs -> 0..MaxRun]
    /\ asleep \subseteq Procs

Init ==
    /\ slot = 0 /\ ttl = 0 /\ sets = {} /\ dels = {}
    /\ minted = 0 /\ upsets = 0
    /\ reply = [p \in Procs |-> "none"]
    /\ pc = [p \in Procs |-> "idle"]
    /\ tok = [p \in Procs |-> 0]
    /\ io = [p \in Procs |-> 0]
    /\ left = [p \in Procs |-> 0]
    /\ chunk = [p \in Procs |-> 0]
    /\ asleep = {}

Awake(p) == p \notin asleep

(* What a process forgets when its run is over.                            *)
Reset(p, step) ==
    /\ pc' = [pc EXCEPT ![p] = step]
    /\ tok' = [tok EXCEPT ![p] = 0]
    /\ io' = [io EXCEPT ![p] = 0]
    /\ reply' = [reply EXCEPT ![p] = "none"]
    /\ left' = [left EXCEPT ![p] = 0]
    /\ chunk' = [chunk EXCEPT ![p] = 0]

-----------------------------------------------------------------------------
(* The lock's backend.                                                     *)

LOCK_TTL_SECS == MaxRun + Margin

(* Faulty variant: the key is set without an expiry.                       *)
ClaimForever(t) ==
    /\ slot' = t
    /\ ttl' = 0

Claim(t) ==
    /\ slot' = t
    /\ ttl' = LOCK_TTL_SECS

TryAcquireLock(t) ==
    /\ t \in sets
    /\ sets' = sets \ {t}
    /\ IF slot = 0 THEN Claim(t) ELSE UNCHANGED <<slot, ttl>>
    /\ reply' = [p \in Procs |->
                    IF pc[p] = "acquire" /\ tok[p] = t
                    THEN (IF slot = 0 THEN "taken" ELSE "held")
                    ELSE reply[p]]
    /\ UNCHANGED <<dels, pc, tok, io, left, chunk, asleep, minted, upsets>>

(* Faulty variant: the key is deleted whoever holds it.                    *)
DeleteAlways(t) == slot' = 0 /\ ttl' = 0

CompareAndDelete(t) ==
    IF slot = t THEN slot' = 0 /\ ttl' = 0 ELSE UNCHANGED <<slot, ttl>>

ReleaseLock(t) ==
    /\ t \in dels
    /\ dels' = dels \ {t}
    /\ CompareAndDelete(t)
    /\ UNCHANGED <<sets, reply, pc, tok, io, left, chunk, asleep, minted, upsets>>

(* A request never reaches the backend.                                    *)
LoseRequest(t) ==
    /\ t \in sets \cup dels
    /\ \/ sets' = sets \ {t} /\ UNCHANGED dels
       \/ dels' = dels \ {t} /\ UNCHANGED sets
    /\ UNCHANGED <<slot, ttl, reply, pc, tok, io, left, chunk, asleep, minted, upsets>>

-----------------------------------------------------------------------------
(* A process.                                                              *)

Fire(p) ==
    /\ pc[p] = "idle" /\ Awake(p) /\ minted < MaxFires
    /\ minted' = minted + 1
    /\ tok' = [tok EXCEPT ![p] = minted + 1]
    /\ sets' = sets \cup {minted + 1}
    /\ reply' = [reply EXCEPT ![p] = "none"]
    /\ io' = [io EXCEPT ![p] = IoTimeout]
    /\ pc' = [pc EXCEPT ![p] = "acquire"]
    /\ UNCHANGED <<slot, ttl, dels, left, chunk, asleep, upsets>>

(* The sleep until the clock is read again.                                *)
NextChunk(remaining) == IF remaining < MaxSleep THEN remaining ELSE MaxSleep

StartRun(p) ==
    /\ pc[p] = "acquire" /\ reply[p] = "taken" /\ Awake(p)
    /\ pc' = [pc EXCEPT ![p] = "run"]
    /\ left' = [left EXCEPT ![p] = MaxRun]
    /\ chunk' = [chunk EXCEPT ![p] = NextChunk(MaxRun)]
    /\ io' = [io EXCEPT ![p] = 0]
    /\ reply' = [reply EXCEPT ![p] = "none"]
    /\ UNCHANGED <<slot, ttl, sets, dels, tok, asleep, minted, upsets>>

SkipHeld(p) ==
    /\ pc[p] = "acquire" /\ reply[p] = "held" /\ Awake(p)
    /\ Reset(p, "idle")
    /\ UNCHANGED <<slot, ttl, sets, dels, asleep, minted, upsets>>

(* The guard sends the release of its token and awaits it.                 *)
Release(p) ==
    /\ dels' = dels \cup {tok[p]}
    /\ io' = [io EXCEPT ![p] = IoTimeout]
    /\ pc' = [pc EXCEPT ![p] = "release"]
    /\ left' = [left EXCEPT ![p] = 0]
    /\ chunk' = [chunk EXCEPT ![p] = 0]
    /\ reply' = [reply EXCEPT ![p] = "none"]
    /\ UNCHANGED <<slot, ttl, sets, tok, asleep, minted, upsets>>

(* The acquire returned an error or its deadline elapsed; the SET may      *)
(* still be executed.                                                      *)
AcquireFails(p) ==
    /\ pc[p] = "acquire" /\ Awake(p)
    /\ Release(p)

(* The job finished or failed, or a shutdown abandons it.                  *)
EndRun(p) ==
    /\ pc[p] = "run" /\ Awake(p)
    /\ Release(p)

(* Faulty variant: the elapsed time is counted from the last reading.      *)
RestartDeadline(p) ==
    /\ pc[p] = "run" /\ Awake(p) /\ chunk[p] = 0 /\ left[p] > 0
    /\ chunk' = [chunk EXCEPT ![p] = NextChunk(MaxRun)]
    /\ left' = [left EXCEPT ![p] = MaxRun]
    /\ UNCHANGED <<slot, ttl, sets, dels, reply, pc, tok, io, asleep, minted, upsets>>

(* A chunk of sleep_wall is over: the clock is read again.                 *)
RereadClock(p) ==
    /\ pc[p] = "run" /\ Awake(p) /\ chunk[p] = 0 /\ left[p] > 0
    /\ chunk' = [chunk EXCEPT ![p] = NextChunk(left[p])]
    /\ UNCHANGED <<slot, ttl, sets, dels, reply, pc, tok, io, left, asleep, minted, upsets>>

AbandonAtDeadline(p) ==
    /\ pc[p] = "run" /\ Awake(p) /\ chunk[p] = 0 /\ left[p] = 0
    /\ Release(p)

(* The release was answered, failed or timed out: only the log differs.    *)
ReleaseReturns(p) ==
    /\ pc[p] = "release" /\ Awake(p)
    /\ Reset(p, "idle")
    /\ UNCHANGED <<slot, ttl, sets, dels, asleep, minted, upsets>>

(* run() panics: the guard's drop spawns the release and the job stays     *)
(* disabled until a restart.                                               *)
RunPanics(p) ==
    /\ pc[p] = "run" /\ Awake(p)
    /\ dels' = dels \cup {tok[p]}
    /\ Reset(p, "down")
    /\ UNCHANGED <<slot, ttl, sets, asleep, minted, upsets>>

-----------------------------------------------------------------------------
(* Crashes, suspends, the clocks.                                          *)

Crash(p) ==
    /\ pc[p] # "down"
    /\ Reset(p, "down")
    /\ asleep' = asleep \ {p}
    /\ UNCHANGED <<slot, ttl, sets, dels, minted, upsets>>

Restart(p) ==
    /\ pc[p] = "down"
    /\ Reset(p, "idle")
    /\ UNCHANGED <<slot, ttl, sets, dels, asleep, minted, upsets>>

Suspend(p) ==
    /\ Awake(p) /\ upsets < MaxUpsets
    /\ upsets' = upsets + 1
    /\ asleep' = asleep \cup {p}
    /\ UNCHANGED <<slot, ttl, sets, dels, reply, pc, tok, io, left, chunk, minted>>

Resume(p) ==
    /\ p \in asleep
    /\ asleep' = asleep \ {p}
    /\ UNCHANGED <<slot, ttl, sets, dels, reply, pc, tok, io, left, chunk, minted,
                   upsets>>

(* A clock set back past the start of the run reads as no time elapsed.    *)
SetClockBack(p) ==
    /\ pc[p] = "run" /\ upsets < MaxUpsets
    /\ upsets' = upsets + 1
    /\ left' = [left EXCEPT ![p] = MaxRun]
    /\ UNCHANGED <<slot, ttl, sets, dels, reply, pc, tok, io, chunk, asleep, minted>>

Waiting(p) == pc[p] \in {"acquire", "release"}

(* An awake process has a timer to handle first.                           *)
TimerExpired(p) ==
    /\ Awake(p)
    /\ (Waiting(p) /\ io[p] = 0) \/ (pc[p] = "run" /\ chunk[p] = 0)

(* One unit of time.  Redis and the wall clocks always advance, monotonic  *)
(* timers only on hosts that are awake; an expired key is gone.            *)
Tick ==
    /\ \A p \in Procs : ~TimerExpired(p)
    /\ slot' = IF ttl = 1 THEN 0 ELSE slot
    /\ ttl' = IF ttl > 0 THEN ttl - 1 ELSE 0
    /\ io' = [p \in Procs |-> IF Awake(p) /\ io[p] > 0 THEN io[p] - 1 ELSE io[p]]
    /\ left' = [p \in Procs |-> IF left[p] > 0 THEN left[p] - 1 ELSE 0]
    /\ chunk' = [p \in Procs |-> IF Awake(p) /\ chunk[p] > 0 THEN chunk[p] - 1 ELSE chunk[p]]
    /\ UNCHANGED <<sets, dels, reply, pc, tok, asleep, minted, upsets>>

RedisStep(t) == TryAcquireLock(t) \/ ReleaseLock(t) \/ LoseRequest(t)

ProcStep(p) ==
    \/ StartRun(p) \/ SkipHeld(p) \/ AcquireFails(p)
    \/ EndRun(p) \/ RereadClock(p) \/ AbandonAtDeadline(p) \/ ReleaseReturns(p)

Next ==
    \/ \E t \in Tokens : RedisStep(t)
    \/ \E p \in Procs :
          \/ Fire(p) \/ ProcStep(p) \/ RunPanics(p) \/ Crash(p) \/ Restart(p)
          \/ Suspend(p) \/ Resume(p) \/ SetClockBack(p)
    \/ Tick

Spec == Init /\ [][Next]_vars

(* Time passes, a suspended host wakes up, and a process handles an        *)
(* expired timer.  Nothing forces a request to be executed, a job to       *)
(* finish or a process to restart.                                         *)
HandleTimer(p) == TimerExpired(p) /\ ProcStep(p)

FairSpec ==
    /\ Spec /\ WF_vars(Tick)
    /\ \A p \in Procs : WF_vars(HandleTimer(p)) /\ WF_vars(Resume(p))

-----------------------------------------------------------------------------
(* Properties.                                                             *)

(* The deadline "keeps a run from outliving its lease": as long as no host *)
(* was suspended and no clock set back, the slot holds the token of the    *)
(* process that runs the job, whatever late request, expiry or release     *)
(* comes in between.                                                       *)
RunHoldsSlot ==
    upsets = 0 => \A p \in Procs : pc[p] = "run" => slot = tok[p]

(* Cross-process mutual exclusion of a job's runs, under the same          *)
(* condition.                                                              *)
OneRunAtATime ==
    upsets = 0 => \A p, q \in Procs : pc[p] = "run" /\ pc[q] = "run" => p = q

(* The invariant that carries them: a grant and a run are still covered by *)
(* the lease, no request in flight can take the slot from them, and no two *)
(* processes share a token.                                                *)
TokensDiffer == \A p, q \in Procs : tok[p] = tok[q] /\ tok[p] # 0 => p = q

BusyHasToken ==
    \A p \in Procs : pc[p] \in {"acquire", "run", "release"} => tok[p] # 0

NotReleasedYet ==
    \A p \in Procs : pc[p] \in {"acquire", "run"} => tok[p] \notin dels

GrantIsLeased ==
    \A p \in Procs : pc[p] = "acquire" /\ reply[p] = "taken" =>
        slot = tok[p] /\ ttl >= MaxRun + Margin - IoTimeout + io[p]

RunIsLeased ==
    \A p \in Procs : pc[p] = "run" =>
        /\ slot = tok[p] /\ ttl >= left[p] + Margin - IoTimeout
        /\ chunk[p] <= left[p]

HostsAreAwake == asleep = {}

LeaseInv ==
    /\ TypeOK /\ TokensDiffer /\ BusyHasToken /\ NotReleasedYet
    /\ upsets = 0 => GrantIsLeased /\ RunIsLeased /\ HostsAreAwake

(* A slot is freed whatever becomes of its holder: a crash, a lost release *)
(* or a SET executed after the release of the same token.                  *)
SlotChangesHands == \A t \in 1..MaxFires : slot = t ~> slot # t

(* A job that hangs is abandoned at the deadline, also when its host is    *)
(* suspended on the way.                                                   *)
HungRunIsAbandoned == \A p \in Procs : pc[p] = "run" ~> pc[p] # "run"
=============================================================================

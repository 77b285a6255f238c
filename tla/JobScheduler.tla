---------------------------- MODULE JobScheduler ----------------------------
(***************************************************************************)
(* The task that drives one scheduled job of a nexusd process: pick the    *)
(* next fire time, sleep towards it in chunks, run under the lock, over    *)
(* again, until a shutdown.  The wall clock may jump either way; the       *)
(* shutdown arrives over a watch channel whose receiver is told of a       *)
(* change only once.                                                       *)
(***************************************************************************)
EXTENDS Integers

CONSTANTS
    Schedule,   \* fire times of the cron expression
    MaxSleep,   \* MAX_SLEEP
    MaxTime,    \* bound: the clock stops here
    MaxJumps    \* bound: steps of the wall clock

ASSUME SchedulerAssumption ==
    /\ MaxTime \in Nat /\ Schedule \subseteq 1..MaxTime
    /\ MaxSleep \in Nat \ {0} /\ MaxJumps \in Nat

VARIABLES
    clock,      \* wall clock
    jumps,
    taskPc,         \* step of the task
    lastFired,  \* last_fired, 0 for none
    nextFire,       \* the fire time slept towards, 0 for none
    chunk,      \* monotonic time left of the current sleep
    shutdown,   \* the value in the watch channel
    unseen,     \* it changed since the receiver last looked
    closed      \* every sender was dropped

shutdownVars == <<shutdown, unseen, closed>>
schedulerVars == <<clock, jumps, taskPc, lastFired, nextFire, chunk, shutdown, unseen, closed>>

Running == {"top", "sleep", "begin", "acquire", "granted", "run", "release"}
Stopped == {"exited", "exhausted", "panicked"}

SchedulerTypeOK ==
    /\ clock \in 0..MaxTime /\ jumps \in 0..MaxJumps
    /\ taskPc \in Running \cup Stopped
    /\ lastFired \in Schedule \cup {0}
    /\ nextFire \in Schedule \cup {0}
    /\ (taskPc = "sleep" => nextFire \in Schedule)
    /\ chunk \in 0..MaxSleep
    /\ shutdown \in BOOLEAN /\ unseen \in BOOLEAN /\ closed \in BOOLEAN

SchedulerInit ==
    /\ clock = 0 /\ jumps = 0 /\ taskPc = "top" /\ lastFired = 0 /\ nextFire = 0
    /\ chunk = 0 /\ shutdown = FALSE /\ unseen = FALSE /\ closed = FALSE

(* What wait_for_shutdown returns on: an unseen true, or no sender left.   *)
ShutdownReady == (unseen /\ shutdown) \/ closed

-----------------------------------------------------------------------------
(* run_job: one turn of the loop.                                          *)

(* Faulty variant: the channel is not read at the top of the loop.         *)
NeverSeesShutdown == FALSE

SeesShutdown == shutdown

ExitAtTop ==
    /\ taskPc = "top" /\ SeesShutdown
    /\ taskPc' = "exited"
    /\ UNCHANGED <<clock, jumps, lastFired, nextFire, chunk>> /\ UNCHANGED shutdownVars

(* Faulty variant: the next fire time is counted from the clock alone.     *)
AnchorAtNow == clock

Anchor == IF lastFired > clock THEN lastFired ELSE clock

Upcoming(t) == t \in Schedule /\ t > Anchor /\ \A s \in Schedule : s > Anchor => t <= s

PickNext ==
    /\ taskPc = "top" /\ ~SeesShutdown
    /\ \E t \in Schedule : Upcoming(t) /\ nextFire' = t
    /\ taskPc' = "sleep" /\ chunk' = 0
    /\ UNCHANGED <<clock, jumps, lastFired>> /\ UNCHANGED shutdownVars

ScheduleExhausted ==
    /\ taskPc = "top" /\ ~SeesShutdown
    /\ \A t \in Schedule : ~Upcoming(t)
    /\ taskPc' = "exhausted"
    /\ UNCHANGED <<clock, jumps, lastFired, nextFire, chunk>> /\ UNCHANGED shutdownVars

Chunk(remaining) == IF remaining < MaxSleep THEN remaining ELSE MaxSleep

(* The clock is read after each chunk; the select looks at the channel     *)
(* first.                                                                  *)
SleepOn ==
    /\ taskPc = "sleep" /\ chunk = 0 /\ clock < nextFire /\ ~ShutdownReady
    /\ chunk' = Chunk(nextFire - clock)
    /\ UNCHANGED <<clock, jumps, taskPc, lastFired, nextFire>> /\ UNCHANGED shutdownVars

ExitFromSleep ==
    /\ taskPc = "sleep" /\ ShutdownReady
    /\ chunk > 0 \/ clock < nextFire
    /\ taskPc' = "exited" /\ unseen' = FALSE /\ chunk' = 0
    /\ UNCHANGED <<clock, jumps, lastFired, nextFire, shutdown, closed>>

FireTimeReached ==
    /\ taskPc = "sleep" /\ chunk = 0 /\ clock >= nextFire
    /\ lastFired' = nextFire
    /\ nextFire' = 0
    /\ taskPc' = "begin"
    /\ UNCHANGED <<clock, jumps, chunk>> /\ UNCHANGED shutdownVars

-----------------------------------------------------------------------------
(* run_locked.                                                             *)

SkipOnShutdown ==
    /\ taskPc = "begin" /\ shutdown
    /\ taskPc' = "top"
    /\ UNCHANGED <<clock, jumps, lastFired, nextFire, chunk>> /\ UNCHANGED shutdownVars

BeginAcquire ==
    /\ taskPc = "begin" /\ ~shutdown
    /\ taskPc' = "acquire"
    /\ UNCHANGED <<clock, jumps, lastFired, nextFire, chunk>> /\ UNCHANGED shutdownVars

(* Taken, or held, failed or timed out, which skips this fire.             *)
AcquireReturns ==
    /\ taskPc = "acquire"
    /\ taskPc' \in {"granted", "top"}
    /\ UNCHANGED <<clock, jumps, lastFired, nextFire, chunk>> /\ UNCHANGED shutdownVars

(* Faulty variant: the select does not look at the channel first.          *)
StartJobUnbiased ==
    /\ taskPc = "granted"
    /\ taskPc' = "run"
    /\ UNCHANGED <<clock, jumps, lastFired, nextFire, chunk>> /\ UNCHANGED shutdownVars

(* job.run() is polled for the first time.                                 *)
StartJob ==
    /\ taskPc = "granted" /\ ~ShutdownReady
    /\ taskPc' = "run"
    /\ UNCHANGED <<clock, jumps, lastFired, nextFire, chunk>> /\ UNCHANGED shutdownVars

AbandonRun ==
    /\ taskPc \in {"granted", "run"} /\ ShutdownReady
    /\ taskPc' = "release" /\ unseen' = FALSE
    /\ UNCHANGED <<clock, jumps, lastFired, nextFire, chunk, shutdown, closed>>

(* Finished, failed or past its deadline.                                  *)
JobEnds ==
    /\ taskPc = "run"
    /\ taskPc' = "release"
    /\ UNCHANGED <<clock, jumps, lastFired, nextFire, chunk>> /\ UNCHANGED shutdownVars

JobPanics ==
    /\ taskPc = "run"
    /\ taskPc' = "panicked"
    /\ UNCHANGED <<clock, jumps, lastFired, nextFire, chunk>> /\ UNCHANGED shutdownVars

ReleaseReturns ==
    /\ taskPc = "release"
    /\ taskPc' = "top"
    /\ UNCHANGED <<clock, jumps, lastFired, nextFire, chunk>> /\ UNCHANGED shutdownVars

-----------------------------------------------------------------------------
(* The channel and the clock.                                              *)

SendShutdown ==
    /\ ~shutdown /\ ~closed
    /\ shutdown' = TRUE /\ unseen' = TRUE
    /\ UNCHANGED <<clock, jumps, taskPc, lastFired, nextFire, chunk, closed>>

DropSenders ==
    /\ ~closed
    /\ closed' = TRUE
    /\ UNCHANGED <<clock, jumps, taskPc, lastFired, nextFire, chunk, shutdown, unseen>>

(* One unit of time; a sleep that is over is handled first.                *)
SchedulerTick ==
    /\ clock < MaxTime
    /\ taskPc = "sleep" => chunk > 0
    /\ clock' = clock + 1
    /\ chunk' = IF chunk > 0 THEN chunk - 1 ELSE 0
    /\ UNCHANGED <<jumps, taskPc, lastFired, nextFire>> /\ UNCHANGED shutdownVars

(* A suspend, a correction of the clock or a restored snapshot.            *)
Jump ==
    /\ jumps < MaxJumps
    /\ jumps' = jumps + 1
    /\ \E t \in 0..MaxTime : clock' = t
    /\ UNCHANGED <<taskPc, lastFired, nextFire, chunk>> /\ UNCHANGED shutdownVars

LoopStep ==
    \/ ExitAtTop \/ PickNext \/ ScheduleExhausted
    \/ SleepOn \/ ExitFromSleep \/ FireTimeReached

LockedStep ==
    \/ SkipOnShutdown \/ BeginAcquire \/ AcquireReturns
    \/ StartJob \/ AbandonRun \/ ReleaseReturns

SchedulerNext ==
    \/ LoopStep \/ LockedStep \/ JobEnds \/ JobPanics
    \/ SendShutdown \/ DropSenders \/ SchedulerTick \/ Jump

SchedulerSpec == SchedulerInit /\ [][SchedulerNext]_schedulerVars

-----------------------------------------------------------------------------
(* Properties.                                                             *)

(* No fire time is run twice, although the clock steps back over it        *)
(* between the run and the next choice.                                    *)
NoTickTwice == [][lastFired' # lastFired => lastFired' > lastFired]_schedulerVars

(* No run starts after the shutdown was sent, also when it is sent while   *)
(* the lock is being acquired.                                             *)
NoRunAfterShutdown ==
    [][taskPc' = "run" /\ taskPc # "run" => ~shutdown /\ ~closed]_schedulerVars

(* A shutdown ends the task without waiting for the next fire time or for  *)
(* a hung job, also when the run consumed the only notification.           *)
ShutdownStopsTask == (shutdown \/ closed) ~> taskPc \in Stopped
=============================================================================

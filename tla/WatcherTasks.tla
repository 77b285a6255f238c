---------------------------- MODULE WatcherTasks ----------------------------
(***************************************************************************)
(* The watcher service: its periodic tasks (service/task_runner.rs), the   *)
(* signals that end them, and the run of the external-homeservers task     *)
(* (service/runner): which homeservers it polls, in which order, and how   *)
(* a failing one is backed off.                                            *)
(***************************************************************************)
EXTENDS FiniteSets, Integers, Sequences

CONSTANTS
    Others,          \* the tasks but the external one
    Homeservers, Primary, HsBlacklist,
    PollLimit,       \* monitored_homeservers_limit
    PollInterval,    \* external_hs_monitoring_interval_ms
    InitialBackoff, MaxBackoff,
    MaxPanics        \* bound

ASSUME WatcherAssumption ==
    /\ Primary \in Homeservers /\ HsBlacklist \subseteq Homeservers
    /\ PollLimit \in Nat \ {0} /\ PollInterval \in Nat \ {0}
    /\ InitialBackoff \in Nat \ {0} /\ MaxBackoff \in Nat /\ InitialBackoff <= MaxBackoff
    /\ MaxPanics \in Nat

VARIABLES
    service,   \* start(): "starting", "running", or what it returned
    taskAt,    \* [Tasks -> "wait", "run", "left" or "panicked"]
    joined,    \* the tasks whose end the JoinSet reported
    signalled, \* "none", "sent" (a shutdown) or "dropped" (no sender left)
    cancelled, \* cancel_tx has sent
    tickReady,     \* the interval of the external task has a tick to give
    until,     \* time to its next tick
    targets,   \* hs_ids of the current or the last run
    place,     \* how many of them the loop has passed
    polled,    \* how many it built and ran
    polling,   \* the homeserver whose processor runs, 0 for none
    backoff,   \* [Homeservers -> [next, left]]; next 0 for no entry
    panics

pollVars     == <<targets, place, polled, polling>>
signalVars  == <<signalled, cancelled>>
tickVars    == <<tickReady, until>>
watcherVars == <<service, taskAt, joined, signalled, cancelled, tickReady, until, targets,
                 place, polled, polling, backoff, panics>>

Tasks     == Others \cup {"external"}
NoBackoff == [next |-> 0, left |-> 0]

WatcherInit ==
    /\ service = "starting"
    /\ taskAt = [t \in Tasks |-> "wait"] /\ joined = {}
    /\ signalled = "none" /\ cancelled = FALSE
    /\ tickReady = TRUE /\ until = PollInterval   \* the first tick is immediate
    /\ targets = <<>> /\ place = 0 /\ polled = 0 /\ polling = 0
    /\ backoff = [h \in Homeservers |-> NoBackoff]
    /\ panics = 0

-----------------------------------------------------------------------------
(* start() and run_periodic_tasks.                                         *)

StartWatcher ==   \* persist_if_unknown may fail, and then there are no tasks
    /\ service = "starting"
    /\ service' \in {"running", "failed"}
    /\ UNCHANGED <<taskAt, joined, backoff, panics>>
    /\ UNCHANGED signalVars /\ UNCHANGED tickVars /\ UNCHANGED pollVars

(* The select is biased: a task that waits leaves before it takes a tick.  *)
Told == signalled # "none" \/ cancelled

LeaveLoop(t) ==
    /\ service = "running" /\ taskAt[t] = "wait" /\ Told
    /\ taskAt' = [taskAt EXCEPT ![t] = "left"]
    /\ UNCHANGED <<service, joined, backoff, panics>>
    /\ UNCHANGED signalVars /\ UNCHANGED tickVars /\ UNCHANGED pollVars

(* Another task's tick; its function returns, and an error is only logged. *)
BeginOther(t) ==
    /\ service = "running" /\ taskAt[t] = "wait" /\ ~Told
    /\ taskAt' = [taskAt EXCEPT ![t] = "run"]
    /\ UNCHANGED <<service, joined, backoff, panics>>
    /\ UNCHANGED signalVars /\ UNCHANGED tickVars /\ UNCHANGED pollVars
EndOther(t) ==
    /\ taskAt[t] = "run"
    /\ taskAt' = [taskAt EXCEPT ![t] = "wait"]
    /\ UNCHANGED <<service, joined, backoff, panics>>
    /\ UNCHANGED signalVars /\ UNCHANGED tickVars /\ UNCHANGED pollVars

TaskPanics(t) ==
    /\ taskAt[t] = "run" /\ panics < MaxPanics
    /\ taskAt' = [taskAt EXCEPT ![t] = "panicked"]
    /\ panics' = panics + 1
    /\ polling' = IF t = "external" THEN 0 ELSE polling
    /\ UNCHANGED <<service, joined, backoff, targets, place, polled>>
    /\ UNCHANGED signalVars /\ UNCHANGED tickVars

(* Faulty variant: a panic is reported without cancelling the others.      *)
JoinQuietly(t) ==
    /\ taskAt[t] \in {"left", "panicked"} /\ t \notin joined
    /\ joined' = joined \cup {t}
    /\ UNCHANGED <<service, taskAt, signalled, cancelled, backoff, panics>>
    /\ UNCHANGED tickVars /\ UNCHANGED pollVars

Join(t) ==
    /\ taskAt[t] \in {"left", "panicked"} /\ t \notin joined
    /\ joined' = joined \cup {t}
    /\ cancelled' = (cancelled \/ taskAt[t] = "panicked")
    /\ UNCHANGED <<service, taskAt, signalled, backoff, panics>>
    /\ UNCHANGED tickVars /\ UNCHANGED pollVars

(* task_results_into_result.                                               *)
Return ==
    /\ service = "running" /\ joined = Tasks
    /\ service' = IF \E t \in Tasks : taskAt[t] = "panicked" THEN "failed" ELSE "ended"
    /\ UNCHANGED <<taskAt, joined, backoff, panics>>
    /\ UNCHANGED signalVars /\ UNCHANGED tickVars /\ UNCHANGED pollVars

Signal ==   \* Ctrl-C, or the launcher's end of the channel is gone
    /\ signalled = "none"
    /\ signalled' \in {"sent", "dropped"}
    /\ UNCHANGED <<service, taskAt, joined, cancelled, backoff, panics>>
    /\ UNCHANGED tickVars /\ UNCHANGED pollVars

-----------------------------------------------------------------------------
(* The external task's run.                                                *)

Lists == UNION {{s \in [1..n -> Homeservers] : \A i, j \in 1..n : s[i] = s[j] => i = j} :
                    n \in 0..Cardinality(Homeservers)}

(* hs_by_priority: what the graph has now, in its order.                   *)
Relevant(list) == SelectSeq(list, LAMBDA h : h # Primary /\ h \notin HsBlacklist)
Priorities     == {Relevant(list) : list \in Lists}

BeginRun ==
    /\ service = "running" /\ taskAt["external"] = "wait" /\ ~Told /\ tickReady
    /\ taskAt' = [taskAt EXCEPT !["external"] = "run"]
    /\ tickReady' = FALSE
    /\ targets' \in Priorities
    /\ place' = 0 /\ polled' = 0
    /\ UNCHANGED <<service, joined, until, polling, backoff, panics>> /\ UNCHANGED signalVars

AtServer == taskAt["external"] = "run" /\ polling = 0 /\ place < Len(targets)
StopsHere == polled >= PollLimit \/ signalled = "sent"   \* a dropped sender sends nothing

ShouldSkip(h) == backoff[h].left > 0

RecordFailure(h) ==
    LET secs == IF backoff[h].next = 0 THEN InitialBackoff ELSE backoff[h].next
    IN  [backoff EXCEPT ![h] = [left |-> secs,
                                next |-> IF 2 * secs > MaxBackoff THEN MaxBackoff ELSE 2 * secs]]

(* Faulty variant: a homeserver that is skipped is recorded like one that  *)
(* failed.                                                                 *)
SkipRecorded ==
    /\ AtServer /\ ~StopsHere /\ ShouldSkip(targets[place + 1])
    /\ backoff' = RecordFailure(targets[place + 1])
    /\ place' = place + 1
    /\ UNCHANGED <<service, taskAt, joined, targets, polled, polling, panics>>
    /\ UNCHANGED signalVars /\ UNCHANGED tickVars

SkipServer ==
    /\ AtServer /\ ~StopsHere /\ ShouldSkip(targets[place + 1])
    /\ place' = place + 1
    /\ UNCHANGED <<service, taskAt, joined, targets, polled, polling, backoff, panics>>
    /\ UNCHANGED signalVars /\ UNCHANGED tickVars

PollServer ==
    /\ AtServer /\ ~StopsHere /\ ~ShouldSkip(targets[place + 1])
    /\ place' = place + 1 /\ polled' = polled + 1
    /\ polling' = targets[place + 1]
    /\ UNCHANGED <<service, taskAt, joined, targets, backoff, panics>>
    /\ UNCHANGED signalVars /\ UNCHANGED tickVars

Statuses == {"FailedToBuild", "Ok", "Error", "Panic", "BudgetSpent"}

(* record_run_status; a processor's panic is one of its results.           *)
Polled(status) ==
    /\ polling # 0
    /\ backoff' = IF status = "Ok" THEN [backoff EXCEPT ![polling] = NoBackoff]
                                   ELSE RecordFailure(polling)
    /\ polling' = 0
    /\ UNCHANGED <<service, taskAt, joined, targets, place, polled, panics>>
    /\ UNCHANGED signalVars /\ UNCHANGED tickVars

(* The list is done, or the query for it failed and it is empty.           *)
EndPolling ==
    /\ taskAt["external"] = "run" /\ polling = 0
    /\ place = Len(targets) \/ StopsHere
    /\ taskAt' = [taskAt EXCEPT !["external"] = "wait"]
    /\ UNCHANGED <<service, joined, backoff, panics>>
    /\ UNCHANGED signalVars /\ UNCHANGED tickVars /\ UNCHANGED pollVars

(* Missed ticks are skipped: however late, the task finds one of them.     *)
WatcherTick ==
    /\ service = "running"
    /\ tickReady' = (tickReady \/ until = 1)
    /\ until' = IF until = 1 THEN PollInterval ELSE until - 1
    /\ backoff' = [h \in Homeservers |->
                     [backoff[h] EXCEPT !.left = IF @ = 0 THEN 0 ELSE @ - 1]]
    /\ UNCHANGED <<service, taskAt, joined, panics>>
    /\ UNCHANGED signalVars /\ UNCHANGED pollVars

-----------------------------------------------------------------------------
Supervise == StartWatcher \/ Return \/ \E t \in Tasks : LeaveLoop(t) \/ Join(t)
PollStep  == BeginRun \/ SkipServer \/ PollServer \/ EndPolling \/ \E s \in Statuses : Polled(s)

WatcherNext ==
    \/ Supervise \/ PollStep \/ Signal \/ WatcherTick
    \/ \E t \in Others : BeginOther(t) \/ EndOther(t)
    \/ \E t \in Tasks : TaskPanics(t)

WatcherSpec == WatcherInit /\ [][WatcherNext]_watcherVars

-----------------------------------------------------------------------------
(* Properties.                                                             *)

(* A shutdown, a dropped shutdown channel or the panic of any one task     *)
(* ends the service, though the other tasks are in the middle of a run,    *)
(* and start() then reports an error if and only if a task panicked.       *)
TasksStop ==
    (service = "running" /\ (signalled # "none" \/ panics > 0))
        ~> (service = "ended" /\ panics = 0) \/ (service = "failed" /\ panics > 0)

Leading(h) == \E i \in 1..PollLimit : i <= Len(targets) /\ targets[i] = h

(* A homeserver that ranks among the first PollLimit of every list is      *)
(* polled again and again, however it and the others fail, however long    *)
(* the runs take and whichever of them are backed off.                     *)
MonitoredIsPolled ==
    \A h \in Homeservers \ ({Primary} \cup HsBlacklist) :
        \/ <>(service # "running" /\ service # "starting")
        \/ []<>~Leading(h)
        \/ []<>(polling = h)
=============================================================================

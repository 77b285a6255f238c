------------------------------- MODULE Media -------------------------------
(***************************************************************************)
(* File variants derived on demand by the web API: the routes that serve a *)
(* file and an avatar (routes/static), VariantController (media/mod.rs),   *)
(* the permit pool and its two gates (media/concurrency.rs), the           *)
(* conversion of one variant (media/processors/mod.rs) under its deadline  *)
(* (media/subprocess.rs), and the watcher's file handler that stores and   *)
(* removes the file those variants belong to (handlers/file.rs).           *)
(*                                                                         *)
(* One file is modelled.  A request is a future that can be dropped at any *)
(* await (the client leaves or the request timeout fires); the conversion  *)
(* it starts is a task of its own that keeps the permit.  Versions of the  *)
(* stored file are numbers: odd when complete, even while being written,   *)
(* 0 when the file's directory is gone.                                    *)
(***************************************************************************)
EXTENDS Naturals, Sequences, FiniteSets

CONSTANTS
  Clients,              \* the requests a behaviour makes
  Capacities,           \* the pool sizes considered
  MaxWaitingPerPermit,  \* MAX_WAITING_PER_PERMIT
  MaxUpsets             \* bound: crashes, hours that pass, and further puts and dels of the file

ASSUME MediaAssumption ==
  /\ Clients \subseteq Nat /\ IsFiniteSet(Clients)
  /\ MaxWaitingPerPermit \in Nat \ {0}
  /\ Capacities \subseteq Nat
  /\ MaxUpsets \in Nat

VARIABLES
  kind,       \* MediaKind of the file
  capacity,   \* MediaPermits::capacity
  free,       \* permits available in the semaphore
  queue,      \* the semaphore's list of waiters
  waiting,    \* QueuedGate::waiting
  requests,   \* where each request is
  tasks,      \* the conversion each request spawned
  details,    \* the graph holds the file's details
  main,       \* version of the stored file, 0 without a directory
  output,     \* version each derived variant was made from, 0 when absent
  marker,     \* TIMEDOUT_MARKER_NAME: "none", "fresh" or "stale"
  strays,     \* temp files nobody owns, "new" or "old"
  editing,    \* the step the watcher's file handler is at
  killed,     \* history: conversions killed within the last hour
  excused,    \* history: events within the hour that cost a marker
  edits,      \* history: puts and dels of the file after its first put
  upsets      \* how much of MaxUpsets is used

mediaVars == <<kind, capacity, free, queue, waiting, requests, tasks, details, main, output, marker,
               strays, editing, killed, excused, edits, upsets>>
gateVars == <<free, queue, waiting>>
diskVars == <<main, output, marker, strays>>
historyVars == <<killed, excused, edits, upsets>>

Derived == {"small", "feed"}
NoRequest == [stage |-> "none", route |-> "files", variant |-> "small", serving |-> FALSE, permit |-> FALSE]
NoTask == [stage |-> "none", version |-> 0, variant |-> "small"]
Answered(r) == [NoRequest EXCEPT !.stage = r]
Answers == {"ok", "main", "invalid", "unsupported", "missing", "shed", "failed", "gone"}

\* QueuedGate::new
MaxWaiting == (IF capacity = 0 THEN 1 ELSE capacity) * MaxWaitingPerPermit

MediaInit ==
  /\ kind \in {"image", "video", "other"} /\ capacity \in Capacities
  /\ free = capacity /\ queue = <<>> /\ waiting = 0
  /\ requests = [c \in Clients |-> NoRequest] /\ tasks = [c \in Clients |-> NoTask]
  /\ details = TRUE /\ main = 1 /\ output = [v \in Derived |-> 0] /\ marker = "none"
  /\ strays = [new |-> 0, old |-> 0] /\ editing = "none"
  /\ killed = 0 /\ excused = 0 /\ edits = 0 /\ upsets = 0

\* The next step of request c.
Reaches(c, stage) == requests' = [requests EXCEPT ![c].stage = stage]
IsAt(c, stage) == requests[c].stage = stage

\* A waiter leaves the semaphore's list, whose members differ.
Without(q, c) ==
  IF \A i \in 1 .. Len(q) : q[i] # c THEN q
  ELSE LET at == CHOOSE i \in 1 .. Len(q) : q[i] = c
       IN [i \in 1 .. Len(q) - 1 |-> IF i < at THEN q[i] ELSE q[i + 1]]

\* Dropping an OwnedSemaphorePermit: the first waiter is handed it, else it is free again.
ReturnPermit(q, n) ==
  IF q = <<>> THEN /\ free' = n + 1 /\ queue' = q
              ELSE /\ free' = n /\ queue' = Tail(q)

\* The requests after client c's permit is dropped and c answered: a first
\* waiter now owns a permit it has not been polled with yet.
Handed(rs, q) == IF q = <<>> THEN rs ELSE [rs EXCEPT ![Head(q)].stage = "assigned"]

\* What ensure_variant's result r makes of request c: the file route serves
\* the variant from disk; the avatar route first derives the small variant,
\* falling back to main when the work is shed, and then serves it.
IsLoadShed(r) == r \in {"shed", "skipped", "timeout"}
ResultOf(c, r) ==
  LET q == requests[c]
  IN IF r = "ok" /\ ~q.serving THEN [q EXCEPT !.stage = "ensure", !.serving = TRUE, !.permit = FALSE]
     ELSE IF r = "ok" THEN [q EXCEPT !.stage = "serve", !.permit = FALSE]
     ELSE Answered(IF IsLoadShed(r) THEN (IF q.serving THEN "shed" ELSE "main") ELSE r)

\* static_files_handler and user_avatar_handler up to ensure_variant: the
\* file's details are read from the graph, and the file route refuses a
\* variant its content type does not have.
Request(c, route, v) ==
  /\ IsAt(c, "none")
  /\ \A d \in Clients : requests[d].stage = "none" => ~(d < c)
  /\ route = "avatar" => v = "small"
  /\ requests' = [requests EXCEPT ![c] =
       IF ~details THEN Answered("missing")
       ELSE IF route = "files" /\ kind # "image" THEN Answered("invalid")
       ELSE [stage |-> "ensure", route |-> route, variant |-> v, serving |-> route = "files", permit |-> FALSE]]
  /\ UNCHANGED <<kind, capacity, tasks, details, editing, gateVars, diskVars, historyVars>>

\* ensure_variant: check_variant_exists, then create_file_variant picks the
\* processor; the video processor has no options, so its answer is the
\* file's own type with nothing on disk.
EnsureVariant(c) ==
  /\ IsAt(c, "ensure")
  /\ requests' = [requests EXCEPT ![c] =
       IF output[@.variant] # 0 \/ kind = "video" THEN ResultOf(c, "ok")
       ELSE IF kind = "other" THEN ResultOf(c, "unsupported")
       ELSE [@ EXCEPT !.stage = "check"]]
  /\ UNCHANGED <<kind, capacity, tasks, details, editing, gateVars, diskVars, historyVars>>

\* serve_file_variant after ensure_variant: ServeDir reads the file's path.
Serve(c) ==
  /\ IsAt(c, "serve")
  /\ requests' = [requests EXCEPT ![c] = Answered(IF output[@.variant] # 0 THEN "ok" ELSE "missing")]
  /\ UNCHANGED <<kind, capacity, tasks, details, editing, gateVars, diskVars, historyVars>>

\* create_variant up to its first look at the marker; a passing look also
\* sweeps the temp directory.  A stale marker is removed in a step of its own.
CheckMarker(c) ==
  /\ IsAt(c, "check")
  /\ requests' = [requests EXCEPT ![c] =
       CASE marker = "fresh" -> ResultOf(c, "skipped")
         [] marker = "stale" -> [@ EXCEPT !.stage = "unmark"]
         [] OTHER -> [@ EXCEPT !.stage = "acquire"]]
  /\ strays' = IF marker = "none" THEN [strays EXCEPT !.old = 0] ELSE strays
  /\ UNCHANGED <<kind, capacity, tasks, details, main, output, marker, editing, gateVars, historyVars>>

\* timed_out_recently removing the expired marker it saw; by now it can be
\* the fresh one of a conversion killed meanwhile.
Unmark(c) ==
  /\ IsAt(c, "unmark")
  /\ marker' = "none"
  /\ excused' = excused + (IF marker = "fresh" THEN 1 ELSE 0)
  /\ strays' = IF requests[c].permit THEN strays ELSE [strays EXCEPT !.old = 0]
  /\ Reaches(c, IF requests[c].permit THEN "spawn" ELSE "acquire")
  /\ UNCHANGED <<kind, capacity, tasks, details, main, output, editing, gateVars, killed, edits, upsets>>

\* MediaPermits::try_acquire, the fast path of QueuedGate and all of
\* FailFastGate; a pool without permits sheds at once.
TryAcquire(c) ==
  /\ IsAt(c, "acquire")
  /\ \/ /\ free > 0 /\ free' = free - 1
        /\ requests' = [requests EXCEPT ![c].stage = "recheck", ![c].permit = TRUE]
     \/ /\ free = 0 /\ UNCHANGED free
        /\ requests' = [requests EXCEPT ![c] =
             IF @.route = "avatar" \/ capacity = 0 THEN ResultOf(c, "shed") ELSE [@ EXCEPT !.stage = "enter"]]
  /\ UNCHANGED <<kind, capacity, queue, waiting, tasks, details, editing, diskVars, historyVars>>

\* WaitingGuard::enter and the start of the wait: the counter is raised
\* first, so a request that finds the queue full is counted until it backs out.
EnterQueue(c) ==
  /\ IsAt(c, "enter")
  /\ waiting' = waiting + 1
  /\ IF waiting >= MaxWaiting THEN Reaches(c, "full") /\ UNCHANGED <<free, queue>>
     ELSE IF free > 0 THEN Reaches(c, "assigned") /\ free' = free - 1 /\ UNCHANGED queue
     ELSE Reaches(c, "parked") /\ queue' = Append(queue, c) /\ UNCHANGED free
  /\ UNCHANGED <<kind, capacity, tasks, details, editing, diskVars, historyVars>>

\* The rest of WaitingGuard::enter for a full queue.
BackOut(c) ==
  /\ IsAt(c, "full")
  /\ waiting' = waiting - 1
  /\ requests' = [requests EXCEPT ![c] = ResultOf(c, "shed")]
  /\ UNCHANGED <<kind, capacity, free, queue, tasks, details, editing, diskVars, historyVars>>

\* QueuedGate::acquire returning with a permit: the guard is dropped.
Resume(c) ==
  /\ IsAt(c, "assigned")
  /\ waiting' = waiting - 1
  /\ requests' = [requests EXCEPT ![c].stage = "recheck", ![c].permit = TRUE]
  /\ UNCHANGED <<kind, capacity, free, queue, tasks, details, editing, diskVars, historyVars>>

\* The wait outlasting acquire_timeout.
WaitedTooLong(c) ==
  /\ IsAt(c, "parked")
  /\ queue' = Without(queue, c)
  /\ waiting' = waiting - 1
  /\ requests' = [requests EXCEPT ![c] = ResultOf(c, "shed")]
  /\ UNCHANGED <<kind, capacity, free, tasks, details, editing, diskVars, historyVars>>

\* Only the output is looked at again: a file killed meanwhile is converted.
RecheckOutputOnly(c) ==
  /\ IsAt(c, "recheck")
  /\ IF output[requests[c].variant] # 0
     THEN /\ requests' = Handed([requests EXCEPT ![c] = ResultOf(c, "ok")], queue)
          /\ ReturnPermit(queue, free)
     ELSE Reaches(c, "spawn") /\ UNCHANGED <<free, queue>>
  /\ UNCHANGED <<kind, capacity, waiting, tasks, details, editing, diskVars, historyVars>>

\* create_variant after the acquire: both cheap checks are made again; an
\* early return drops the permit.
Recheck(c) ==
  /\ IsAt(c, "recheck")
  /\ IF output[requests[c].variant] # 0 \/ marker = "fresh"
     THEN /\ requests' = Handed([requests EXCEPT ![c] =
                           ResultOf(c, IF output[@.variant] # 0 THEN "ok" ELSE "skipped")], queue)
          /\ ReturnPermit(queue, free)
     ELSE /\ Reaches(c, IF marker = "stale" THEN "unmark" ELSE "spawn")
          /\ UNCHANGED <<free, queue>>
  /\ UNCHANGED <<kind, capacity, waiting, tasks, details, editing, diskVars, historyVars>>

\* tokio::spawn of the conversion, which takes the permit with it.
Spawn(c) ==
  /\ IsAt(c, "spawn")
  /\ requests' = [requests EXCEPT ![c].stage = "await", ![c].permit = FALSE]
  /\ tasks' = [tasks EXCEPT ![c] = [stage |-> "running", version |-> main, variant |-> requests[c].variant]]
  /\ UNCHANGED <<kind, capacity, details, editing, gateVars, diskVars, historyVars>>

\* MediaSubprocess::run around ImageProcessor::process: the tools succeed
\* (with or without output), fail, or outlast the deadline and are killed.
\* A stored file that is gone makes identify fail.
Converted(c, outcome) ==
  /\ tasks[c].stage = "running"
  /\ outcome \in {"whole", "empty"} => tasks[c].version # 0
  /\ tasks' = [tasks EXCEPT ![c].stage = outcome]
  /\ killed' = killed + (IF outcome = "killed" THEN 1 ELSE 0)
  /\ UNCHANGED <<kind, capacity, requests, details, editing, gateVars, diskVars, excused, edits, upsets>>

\* Publishing whatever the converter left behind.
PublishVariantUnchecked(c) ==
  LET t == tasks[c] IN
  /\ output' = IF t.stage \in {"whole", "empty"} /\ main # 0
               THEN [output EXCEPT ![t.variant] = IF t.stage = "empty" THEN 2 ELSE t.version] ELSE output
  /\ marker' = IF t.stage = "killed" /\ main # 0 THEN "fresh" ELSE marker
  /\ strays' = IF t.stage = "whole" /\ main = 0 THEN [strays EXCEPT !.new = @ + 1] ELSE strays

\* What the task's last step makes of the disk: a whole output is renamed
\* into the file's directory, an empty or failed one is dropped, a killed
\* one leaves the marker.  Without the directory the rename fails, leaving
\* the temp file, and so does the marker's write.
PublishVariant(c) ==
  LET t == tasks[c] IN
  /\ output' = IF t.stage = "whole" /\ main # 0
               THEN [output EXCEPT ![t.variant] = t.version] ELSE output
  /\ marker' = IF t.stage = "killed" /\ main # 0 THEN "fresh" ELSE marker
  /\ strays' = IF t.stage = "whole" /\ main = 0 THEN [strays EXCEPT !.new = @ + 1] ELSE strays

\* The end of the spawned task: it publishes, drops its permit, and the
\* request that still awaits it is answered.
FinishTask(c) ==
  LET t == tasks[c].stage
      r == CASE t = "whole" /\ main # 0 -> "ok" [] t = "killed" -> "timeout" [] OTHER -> "failed"
  IN /\ t \in {"whole", "empty", "failed", "killed"}
     /\ PublishVariant(c)
     /\ ReturnPermit(queue, free)
     /\ requests' = Handed(IF IsAt(c, "await") THEN [requests EXCEPT ![c] = ResultOf(c, r)] ELSE requests, queue)
     /\ tasks' = [tasks EXCEPT ![c] = NoTask]
     /\ UNCHANGED <<kind, capacity, waiting, details, main, editing, historyVars>>

\* A decrement written after the await instead of in the guard's drop.
CancelLeakingPlace(c) ==
  /\ requests[c].stage \in {"ensure", "serve", "check", "unmark", "acquire", "parked", "assigned", "recheck", "await"}
  /\ waiting' = waiting
  /\ LET rest == Without(queue, c)
         gone == [requests EXCEPT ![c] = Answered("gone")]
     IN IF requests[c].permit \/ IsAt(c, "assigned")
        THEN ReturnPermit(rest, free) /\ requests' = Handed(gone, rest)
        ELSE free' = free /\ queue' = rest /\ requests' = gone
  /\ UNCHANGED <<kind, capacity, tasks, details, editing, diskVars, historyVars>>

\* The request's future dropped at an await: its guard and a permit it still
\* holds are dropped with it; a spawned task is not.
Cancel(c) ==
  /\ requests[c].stage \in {"ensure", "serve", "check", "unmark", "acquire", "parked", "assigned", "recheck", "await"}
  /\ waiting' = waiting - (IF requests[c].stage \in {"parked", "assigned"} THEN 1 ELSE 0)
  /\ LET rest == Without(queue, c)
         gone == [requests EXCEPT ![c] = Answered("gone")]
     IN IF requests[c].permit \/ IsAt(c, "assigned")
        THEN ReturnPermit(rest, free) /\ requests' = Handed(gone, rest)
        ELSE free' = free /\ queue' = rest /\ requests' = gone
  /\ UNCHANGED <<kind, capacity, tasks, details, editing, diskVars, historyVars>>

\* The API process dies and starts again: memory is lost, the disk is not.
RestartServer ==
  /\ upsets < MaxUpsets /\ upsets' = upsets + 1
  /\ \E c \in Clients : tasks[c] # NoTask
  /\ requests' = [c \in Clients |-> IF requests[c].stage \in Answers \cup {"none"} THEN requests[c]
                                    ELSE Answered("gone")]
  /\ tasks' = [c \in Clients |-> NoTask]
  /\ free' = capacity /\ queue' = <<>> /\ waiting' = 0
  /\ strays' = [strays EXCEPT !.new = @ + Cardinality({c \in Clients : tasks[c].stage \in {"whole", "empty"}})]
  /\ excused' = excused + 1
  /\ UNCHANGED <<kind, capacity, details, main, output, marker, editing, killed, edits>>

\* An hour passes, far more than a request or a conversion may take:
\* TIMEDOUT_MARKER_TTL and TEMP_FILE_MAX_AGE run out.
Hour ==
  /\ upsets < MaxUpsets /\ upsets' = upsets + 1
  /\ \A c \in Clients : requests[c].stage \in Answers \cup {"none"} /\ tasks[c] = NoTask
  /\ marker' = IF marker = "fresh" THEN "stale" ELSE marker
  /\ strays' = [new |-> 0, old |-> strays.old + strays.new]
  /\ killed' = 0 /\ excused' = 0
  /\ UNCHANGED <<kind, capacity, requests, tasks, details, main, output, editing, gateVars, edits>>

\* handlers/file.rs sync_put of an edited or returning file: ingest writes
\* main in place, and the details follow.  Variants on disk are kept.
PutFile ==
  /\ \/ /\ editing = "none" /\ upsets < MaxUpsets /\ upsets' = upsets + 1 /\ edits' = edits + 1
        /\ editing' = "writing" /\ main' = 2 * edits + 2 /\ UNCHANGED details
     \/ /\ editing = "writing" /\ editing' = "written" /\ main' = main + 1 /\ UNCHANGED <<details, edits, upsets>>
     \/ /\ editing = "written" /\ editing' = "none" /\ details' = TRUE /\ UNCHANGED <<main, edits, upsets>>
  /\ UNCHANGED <<kind, capacity, requests, tasks, gateVars, output, marker, strays, killed, excused>>

\* handlers/file.rs del: the details leave the graph, then the directory
\* goes with everything in it.
DelFile ==
  /\ \/ /\ editing = "none" /\ details /\ upsets < MaxUpsets /\ upsets' = upsets + 1 /\ edits' = edits + 1
        /\ editing' = "deleting" /\ details' = FALSE /\ UNCHANGED <<main, output, marker>>
     \/ /\ editing = "deleting" /\ editing' = "none" /\ main' = 0 /\ UNCHANGED <<details, edits, upsets>>
        /\ output' = [v \in Derived |-> 0] /\ marker' = "none"
  /\ UNCHANGED <<kind, capacity, requests, tasks, gateVars, strays, killed, excused>>

MediaNext ==
  \/ \E c \in Clients, route \in {"files", "avatar"}, v \in Derived : Request(c, route, v)
  \/ \E c \in Clients :
       \/ EnsureVariant(c) \/ Serve(c) \/ CheckMarker(c) \/ Unmark(c)
       \/ TryAcquire(c) \/ EnterQueue(c) \/ BackOut(c) \/ Resume(c) \/ WaitedTooLong(c)
       \/ Recheck(c) \/ Spawn(c) \/ FinishTask(c) \/ Cancel(c)
  \/ \E c \in Clients, outcome \in {"whole", "empty", "failed", "killed"} : Converted(c, outcome)
  \/ RestartServer \/ Hour \/ PutFile \/ DelFile

MediaSpec == MediaInit /\ [][MediaNext]_mediaVars

----------------------------------------------------------------------------
\* The requests the queue's counter stands for, and the permits in use.
Counted == {c \in Clients : requests[c].stage \in {"full", "parked", "assigned"}}
Holding == {c \in Clients : requests[c].permit \/ requests[c].stage = "assigned" \/ tasks[c] # NoTask}

(* The gate's accounts survive every way a request can end (answer, time   *)
(* out while parked, dropped future, dropped with a permit already         *)
(* assigned): the waiting counter is the number of requests it was raised  *)
(* for, no more than max_waiting are really parked, every permit is free   *)
(* or held by exactly one request or conversion, none is idle while        *)
(* somebody waits, and at most `capacity` conversions run, those of        *)
(* dropped requests included (concurrency.rs).                             *)
GateAccounts ==
  /\ waiting = Cardinality(Counted)
  /\ Cardinality({c \in Clients : requests[c].stage \in {"parked", "assigned"}}) <= MaxWaiting
  /\ free + Cardinality(Holding) = capacity
  /\ queue # <<>> => free = 0
  /\ {queue[i] : i \in 1 .. Len(queue)} = {c \in Clients : requests[c].stage = "parked"}

(* A variant on disk was made from the complete stored file, never from a  *)
(* converter's wreckage, as long as the file was not put again over itself *)
(* (a second put keeps the old variants); and a removed file leaves no     *)
(* variant and no marker behind, though a conversion of it may end after   *)
(* the removal (processors/mod.rs create_variant, handlers/file.rs).       *)
PublishedIsWhole ==
  /\ \A v \in Derived : edits = 0 => output[v] \in {0, main}
  /\ main = 0 => /\ \A v \in Derived : output[v] = 0
                 /\ marker = "none"

(* A file whose conversion is killed costs at most one deadline per permit *)
(* and hour, whatever variants are asked for and however requests overlap  *)
(* or are dropped: each further one is paid for by an event that took the  *)
(* marker away, a crash before it was written or a reader that removed a   *)
(* fresh marker after seeing a stale one (timed_out_recently).             *)
KillsAreRemembered == edits = 0 => killed <= capacity * (1 + excused)
=============================================================================

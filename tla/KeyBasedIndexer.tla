-------------------------- MODULE KeyBasedIndexer --------------------------
(***************************************************************************)
(* The event processor of one external homeserver: a run goes over the     *)
(* users hosted there, in key order from the resume point, fetches each    *)
(* user's stream from the cursor read at the start of the run, handles the *)
(* events and stores the user's cursor, until the users or the budget are  *)
(* spent.  The user ingestor seeds cursors and the resolver moves users    *)
(* meanwhile; the homeserver is not trusted.                               *)
(***************************************************************************)
EXTENDS EventErrors, Integers

CONSTANTS
    Users,          \* user keys, as naturals in key order
    Len,            \* bound: length of a user's stream
    Foreign,        \* <<user, position>> whose resource has another owner
    Noise,          \* <<user, position>> not handled by Nexus, or unparseable
    Limit,          \* key_based_events_limit
    MaxFailures,    \* MAX_FAILURES of UserNotFoundBackoff
    Misbehaving,    \* whether the homeserver may send malformed streams
    MaxFaults,      \* bound: failures, 404s, stops and restarts
    MaxMoves        \* bound: users leaving or joining the homeserver

Positions == 1..Len

ASSUME KeyBasedAssumption ==
    /\ Users \subseteq Nat \ {0} /\ Len \in Nat /\ Limit \in Nat \ {0}
    /\ MaxFailures \in Nat \ {0}
    /\ Foreign \subseteq Users \X Positions /\ Noise \subseteq Users \X Positions
    /\ Misbehaving \in BOOLEAN /\ MaxFaults \in Nat /\ MaxMoves \in Nat

Absent == -1        \* no member for this homeserver in the user's sorted set
Nobody == 0         \* no resume point, no current user
Nothing == 0        \* latest_cursor = None

VARIABLES
    head,       \* length of each user's stream so far
    hosted,     \* users with an active HOSTED_BY edge to this homeserver
    cursor,     \* UserHsCursor of each user, in Redis
    outcome,    \* what became of each user's events
    failures,   \* consecutive_failures of UserNotFoundBackoff
    skips,      \* skips_remaining
    resume,     \* the homeserver's entry in UserResumePoints
    pc,
    turn,       \* users of this run, as `order` got them
    start,      \* resume point the turn was ordered by
    left,       \* users of the turn not reached yet
    at,         \* cursors read at the start of the run
    user,       \* user in progress
    events,     \* fetched events still to handle
    latest,     \* latest_cursor
    spent,      \* the deadline has passed
    stopping, faults, moves,
    withheld    \* history: positions an accepted stream left out

storeVars  == <<cursor, outcome>>
memoryVars == <<failures, skips, resume>>
runVars    == <<pc, turn, start, left, at, user, events, latest, spent>>
envVars    == <<head, hosted, stopping, faults, moves>>
vars == <<head, hosted, cursor, outcome, failures, skips, resume, pc, turn,
          start, left, at, user, events, latest, spent, stopping, faults,
          moves, withheld>>

Outcome == {"none", "indexed", "queued", "dropped"}

TypeOK ==
    /\ head \in [Users -> 0..Len] /\ hosted \subseteq Users
    /\ cursor \in [Users -> 0..Len \cup {Absent}]
    /\ outcome \in [Users -> [Positions -> Outcome]]
    /\ failures \in [Users -> 0..MaxFailures] /\ skips \in [Users -> 0..MaxFailures]
    /\ resume \in Users \cup {Nobody}
    /\ pc \in {"idle", "users", "fetch", "events"}
    /\ turn \subseteq Users /\ left \subseteq turn
    /\ start \in Users \cup {Nobody}
    /\ at \in [Users -> 0..Len]
    /\ user \in Users \cup {Nobody}
    /\ pc \in {"fetch", "events"} => user \in turn
    /\ events \subseteq Positions
    /\ latest \in 0..Len
    /\ spent \in BOOLEAN /\ stopping \in BOOLEAN
    /\ faults \in Nat /\ moves \in Nat
    /\ withheld \subseteq Users \X Positions

Init ==
    /\ head = [u \in Users |-> 0] /\ hosted \in SUBSET Users
    /\ cursor = [u \in Users |-> Absent]
    /\ outcome = [u \in Users |-> [p \in Positions |-> "none"]]
    /\ failures = [u \in Users |-> 0] /\ skips = [u \in Users |-> 0]
    /\ resume = Nobody
    /\ pc = "idle" /\ turn = {} /\ start = Nobody /\ left = {}
    /\ at = [u \in Users |-> 0] /\ user = Nobody
    /\ events = {} /\ latest = Nothing /\ spent = FALSE
    /\ stopping = FALSE /\ faults = 0 /\ moves = 0
    /\ withheld = {}

-----------------------------------------------------------------------------
(* UserResumePoints: key order, rotated to the first user not below the    *)
(* resume point.                                                           *)
Comes(u, v) ==      \* u has its turn no later than v
    IF (u >= start) = (v >= start) THEN u <= v ELSE u >= start

FirstOf(S, u) == u \in S /\ \A v \in S : Comes(u, v)

(* Faulty variant: the next run starts from the user this one stopped at.  *)
StopAtSameUser(u) == resume' = u

(* record_stop_after: the user after this one in turn, wrapping around.    *)
RecordStopAfter(u) ==
    \E v \in turn : /\ FirstOf(IF left = {} THEN turn ELSE left, v)
                    /\ resume' = v

(* UserHsCursor::read *)
ReadCursor(u) == IF cursor[u] = Absent THEN 0 ELSE cursor[u]

EndRun ==
    /\ pc' = "idle" /\ turn' = {} /\ start' = Nobody /\ left' = {}
    /\ at' = [u \in Users |-> 0] /\ user' = Nobody
    /\ events' = {} /\ latest' = Nothing /\ spent' = FALSE

(* run_internal up to the loop: the hosted users and their cursors.        *)
StartRun ==
    /\ pc = "idle" /\ ~stopping
    /\ hosted # {}
    /\ turn' = hosted /\ left' = hosted /\ start' = resume
    /\ at' = [u \in Users |-> IF u \in hosted THEN ReadCursor(u) ELSE 0]
    /\ pc' = "users"
    /\ UNCHANGED <<user, events, latest, spent, withheld>>
    /\ UNCHANGED storeVars /\ UNCHANGED memoryVars /\ UNCHANGED envVars

(* UserNotFoundBackoff::consume_skip *)
Skips(u) == skips[u] > 0

(* The next user in turn, or its skip after earlier 404s.                  *)
TakeUser ==
    /\ pc = "users" /\ ~stopping
    /\ \E u \in left :
          /\ FirstOf(left, u)
          /\ left' = left \ {u}
          /\ IF Skips(u)
             THEN /\ skips' = [skips EXCEPT ![u] = skips[u] - 1]
                  /\ UNCHANGED <<pc, user>>
             ELSE /\ pc' = "fetch" /\ user' = u
                  /\ UNCHANGED skips
    /\ UNCHANGED <<failures, resume, turn, start, at, events, latest, spent,
                   withheld>>
    /\ UNCHANGED storeVars /\ UNCHANGED envVars

(* Every user was reached: the next run starts from the first.             *)
FullPass ==
    /\ pc = "users" /\ ~stopping /\ left = {}
    /\ resume' = Nobody
    /\ EndRun
    /\ UNCHANGED <<failures, skips, withheld>>
    /\ UNCHANGED storeVars /\ UNCHANGED envVars

StopRun ==
    /\ pc = "users" /\ stopping
    /\ EndRun
    /\ UNCHANGED withheld
    /\ UNCHANGED storeVars /\ UNCHANGED memoryVars /\ UNCHANGED envVars

(* After a user, with or without an error: past the deadline the run ends  *)
(* and leaves the users it did not reach to the next one.                  *)
DeadlineCheck ==
    \/ RecordStopAfter(user) /\ EndRun
    \/ /\ ~spent
       /\ pc' = "users" /\ user' = Nobody /\ events' = {} /\ latest' = Nothing
       /\ UNCHANGED <<resume, turn, start, left, at, spent>>

(* UserNotFoundBackoff::record_success *)
ClearBackoff(u) ==
    /\ failures' = [failures EXCEPT ![u] = 0]
    /\ skips' = [skips EXCEPT ![u] = 0]

(* UserNotFoundBackoff::record_failure *)
BackOff(u) ==
    LET f == IF failures[u] < MaxFailures THEN failures[u] + 1 ELSE MaxFailures
    IN  /\ failures' = [failures EXCEPT ![u] = f]
        /\ skips' = [skips EXCEPT ![u] = f]

(* What /events-stream may answer: the events after the cursor, at most    *)
(* Limit; from a homeserver that misbehaves, any of its events.            *)
StreamEnd(u) == IF at[u] + Limit <= head[u] THEN at[u] + Limit ELSE head[u]

Streams(u) ==
    {(at[u] + 1)..StreamEnd(u)}
    \cup IF Misbehaving THEN SUBSET (1..head[u]) ELSE {}

(* Every event lies above the cursor the batch was requested with.         *)
InOrder(u, S) == \A p \in S : p > at[u]

(* user_events answered and process_user_events accepts the batch.         *)
FetchEvents ==
    /\ pc = "fetch" /\ ~stopping
    /\ \E S \in Streams(user) :
          /\ InOrder(user, S)
          /\ events' = S
          /\ withheld' = withheld \cup
                {q \in Users \X Positions :
                    /\ q[1] = user /\ q[2] > at[user] /\ q[2] \notin S
                    /\ \E p \in S : q[2] < p}
    /\ pc' = "events"
    /\ UNCHANGED <<turn, start, left, at, user, latest, spent>>
    /\ UNCHANGED storeVars /\ UNCHANGED memoryVars /\ UNCHANGED envVars

(* EventCursorOutOfOrder: an event at or below the cursor, or events that  *)
(* do not increase.  No handler runs and the homeserver's run is aborted.  *)
OutOfOrder ==
    /\ pc = "fetch" /\ ~stopping /\ Misbehaving /\ head[user] > 0
    /\ EndRun
    /\ UNCHANGED withheld
    /\ UNCHANGED storeVars /\ UNCHANGED memoryVars /\ UNCHANGED envVars

(* Shutdown seen after the fetch: (None, Ok), before the batch is checked. *)
FetchAtShutdown ==
    /\ pc = "fetch" /\ stopping
    /\ ClearBackoff(user)
    /\ DeadlineCheck
    /\ UNCHANGED withheld
    /\ UNCHANGED storeVars /\ UNCHANGED envVars

(* The fetch failed for this user only; a 404 backs the user off.          *)
FetchFails(notFound) ==
    /\ pc = "fetch" /\ faults < MaxFaults
    /\ faults' = faults + 1
    /\ IF notFound THEN BackOff(user) ELSE UNCHANGED <<failures, skips>>
    /\ DeadlineCheck
    /\ UNCHANGED <<head, hosted, stopping, moves, withheld>>
    /\ UNCHANGED storeVars

(* The run is aborted before or during a fetch: rate limit, transport, 5xx,*)
(* a failed graph or Redis read.                                           *)
RunAborts ==
    /\ pc \in {"users", "fetch"} /\ faults < MaxFaults
    /\ faults' = faults + 1
    /\ EndRun
    /\ UNCHANGED <<head, hosted, stopping, moves, withheld>>
    /\ UNCHANGED storeVars /\ UNCHANGED memoryVars

NextEvent(p) == p \in events /\ \A q \in events : p <= q

OutcomeOf(r) ==
    IF r = "ok" THEN "indexed"
    ELSE IF ShouldEnqueueRelatedEvent(r) THEN "queued" ELSE "dropped"

(* Faulty variant: a resource Nexus does not handle is passed before its   *)
(* owner is checked.                                                       *)
MayPassUnhandledFirst(u, p) == <<u, p>> \notin Foreign \ Noise

(* validate_user_id *)
MayPass(u, p) == <<u, p>> \notin Foreign

(* One event: passed when Nexus does not handle it, else handled with an   *)
(* answer that does not stop the run.  The deadline is read after it.      *)
HandleEvent(r) ==
    /\ pc = "events" /\ ~stopping /\ ~spent
    /\ ~ShouldNotRetryNow(r)
    /\ \E p \in events :
          /\ NextEvent(p) /\ MayPass(user, p)
          /\ outcome' = [outcome EXCEPT ![user][p] =
                            IF <<user, p>> \in Noise THEN "dropped" ELSE OutcomeOf(r)]
          /\ events' = events \ {p}
          /\ latest' = p
    /\ spent' \in BOOLEAN
    /\ UNCHANGED <<cursor, pc, turn, start, left, at, user, withheld>>
    /\ UNCHANGED memoryVars /\ UNCHANGED envVars

(* UserHsCursor::write, best effort: refused when it would go back.        *)
WriteCursor ==
    cursor' = IF latest # Nothing /\ latest >= ReadCursor(user)
              THEN [cursor EXCEPT ![user] = latest] ELSE cursor

(* The write went through, or it failed and is only logged.                *)
StoreLatest(stored) ==
    \/ stored /\ WriteCursor /\ UNCHANGED faults
    \/ ~stored /\ faults < MaxFaults /\ faults' = faults + 1 /\ UNCHANGED cursor

(* The batch is through, or cut short by the shutdown or the budget: Ok.   *)
FinishUser(stored) ==
    /\ pc = "events"
    /\ events = {} \/ stopping \/ spent
    /\ StoreLatest(stored)
    /\ ClearBackoff(user)
    /\ DeadlineCheck
    /\ UNCHANGED <<head, hosted, outcome, stopping, moves, withheld>>

(* UserIdMismatch: the batch stops before the event of another owner.      *)
StopAtForeign(stored) ==
    /\ pc = "events" /\ ~stopping /\ ~spent
    /\ \E p \in events : NextEvent(p) /\ ~MayPass(user, p)
    /\ StoreLatest(stored)
    /\ DeadlineCheck
    /\ UNCHANGED <<head, hosted, outcome, failures, skips, stopping, moves,
                   withheld>>

(* The handler or the enqueue fails on Nexus's own infrastructure: the     *)
(* cursor reached so far is stored and the run is aborted.                 *)
HandlerAborts(stored) ==
    /\ pc = "events" /\ events # {} /\ ~stopping /\ ~spent
    /\ faults < MaxFaults
    /\ faults' = faults + 1
    /\ IF stored THEN WriteCursor ELSE UNCHANGED cursor
    /\ EndRun
    /\ UNCHANGED <<head, hosted, outcome, stopping, moves, withheld>>
    /\ UNCHANGED memoryVars

(* The process dies or stops: 404 backoff and resume points are in memory. *)
Forget ==
    /\ failures' = [u \in Users |-> 0] /\ skips' = [u \in Users |-> 0]
    /\ resume' = Nobody

Crash ==
    /\ faults < MaxFaults
    /\ faults' = faults + 1
    /\ stopping' = FALSE
    /\ Forget /\ EndRun
    /\ UNCHANGED <<head, hosted, moves, withheld>>
    /\ UNCHANGED storeVars

Shutdown ==
    /\ ~stopping /\ faults < MaxFaults
    /\ stopping' = TRUE /\ faults' = faults + 1
    /\ UNCHANGED <<head, hosted, moves, withheld>>
    /\ UNCHANGED storeVars /\ UNCHANGED memoryVars /\ UNCHANGED runVars

Restart ==
    /\ stopping /\ pc = "idle"
    /\ stopping' = FALSE
    /\ Forget
    /\ UNCHANGED <<head, hosted, faults, moves, withheld>>
    /\ UNCHANGED storeVars /\ UNCHANGED runVars

Publish(u) ==
    /\ head[u] < Len
    /\ head' = [head EXCEPT ![u] = head[u] + 1]
    /\ UNCHANGED <<hosted, stopping, faults, moves, withheld>>
    /\ UNCHANGED storeVars /\ UNCHANGED memoryVars /\ UNCHANGED runVars

(* The resolver binds the user here, marks the mapping stale or realigns.  *)
Move(u) ==
    /\ moves < MaxMoves
    /\ moves' = moves + 1
    /\ hosted' = IF u \in hosted THEN hosted \ {u} ELSE hosted \cup {u}
    /\ UNCHANGED <<head, stopping, faults, withheld>>
    /\ UNCHANGED storeVars /\ UNCHANGED memoryVars /\ UNCHANGED runVars

(* Faulty variant: the seed is a plain write.                              *)
SeedOver(u) ==
    /\ u \in hosted /\ cursor[u] # 0
    /\ cursor' = [cursor EXCEPT ![u] = 0]
    /\ UNCHANGED <<outcome, withheld>>
    /\ UNCHANGED memoryVars /\ UNCHANGED runVars /\ UNCHANGED envVars

(* UserHsCursor::init by the ingestor, on another task, after it published *)
(* the HOSTED_BY edge: ZADD NX.                                            *)
Seed(u) ==
    /\ u \in hosted /\ cursor[u] = Absent
    /\ cursor' = [cursor EXCEPT ![u] = 0]
    /\ UNCHANGED <<outcome, withheld>>
    /\ UNCHANGED memoryVars /\ UNCHANGED runVars /\ UNCHANGED envVars

RunStep ==
    \/ StartRun \/ TakeUser \/ FullPass \/ StopRun
    \/ FetchEvents \/ OutOfOrder \/ FetchAtShutdown
    \/ (\E r \in {"ok"} \cup ErrorClass : HandleEvent(r))
    \/ FinishUser(TRUE) \/ StopAtForeign(TRUE)

Failure ==
    \/ (\E notFound \in BOOLEAN : FetchFails(notFound))
    \/ RunAborts \/ FinishUser(FALSE) \/ StopAtForeign(FALSE)
    \/ (\E stored \in BOOLEAN : HandlerAborts(stored))
    \/ Crash \/ Shutdown

Next ==
    \/ RunStep \/ Failure \/ Restart
    \/ \E u \in Users : Publish(u) \/ Move(u) \/ Seed(u)

Spec == Init /\ [][Next]_vars

(* The external loop keeps polling the homeserver and a run goes on; how   *)
(* much of it fits in the budget is left open.                             *)
FairSpec == Spec /\ WF_vars(RunStep)

-----------------------------------------------------------------------------
(* Properties.                                                             *)

Accounted(u) ==
    {p \in Positions : outcome[u][p] # "none" \/ <<u, p>> \in withheld}

(* A user's stored cursor passes only events that were handled, queued or  *)
(* dropped, or that the homeserver left out of a stream it sent: a run cut *)
(* short by its budget, an error, a shutdown or a crash leaves its events  *)
(* to the next run.                                                        *)
NoGap == \A u \in Users : \A p \in Positions : p <= cursor[u] => p \in Accounted(u)

(* An event on a user's stream whose resource belongs to somebody else is  *)
(* never handled and never passed, not even one that Nexus would ignore.   *)
ForeignNeverTaken ==
    \A q \in Foreign : /\ outcome[q[1]][q[2]] = "none"
                       /\ cursor[q[1]] >= q[2] => q \in withheld

Blocked(u, p) == \E f \in 1..p : <<u, f>> \in Foreign

(* Every event of an honest homeserver is eventually taken, for each of    *)
(* its users: a budget that never suffices for a whole pass, skipped runs  *)
(* after 404s and users that leave or join do not starve anybody.          *)
UserIsServed ==
    \A u \in Users, p \in Positions :
        p <= head[u] /\ u \in hosted
            ~> p \in Accounted(u) \/ u \notin hosted \/ Blocked(u, p) \/ stopping

(* Each user's stream is an EventIntake of its own.                        *)
Intake(u) == INSTANCE EventIntake WITH
    checkpoint <- cursor[u], done <- Accounted(u),
    saved <- [at |-> Absent, done |-> {}]

IntakeSpec ==
    /\ \A u \in Users : Intake(u)!Init
    /\ [][\A u \in Users : Intake(u)!Next \/ UNCHANGED Intake(u)!intakeVars]_vars
=============================================================================

----------------------------- MODULE HsIndexer -----------------------------
(***************************************************************************)
(* The primary-homeserver loop: HsEventProcessorRunner builds one          *)
(* HsEventProcessor per tick, which polls one batch from the cursor kept   *)
(* in Redis, checks the cursor line closing the batch, runs the lines one  *)
(* by one and stores the new cursor last.  The user-HS resolver changes    *)
(* the HOSTED_BY mappings meanwhile, the process may stop anywhere, Redis  *)
(* may come back with an older snapshot, and the homeserver is not trusted.*)
(***************************************************************************)
EXTENDS EventErrors, Integers

CONSTANTS
    Users,
    Len,            \* bound: length of the homeserver's event log
    UserOf,         \* position -> user the event belongs to
    Noise,          \* positions whose line is skipped or does not parse
    Limit,          \* WatcherConfig::events_limit
    Misbehaving,    \* whether the homeserver may send malformed batches
    MidRunRestore,  \* whether Redis may restart under a run
    MaxFaults,      \* bound: failures, stops and restarts
    MaxChanges      \* bound: changes of a mapping

Positions == 1..Len

ASSUME IndexerAssumption ==
    /\ Len \in Nat /\ Limit \in Nat \ {0}
    /\ UserOf \in [Positions -> Users]
    /\ Noise \subseteq Positions
    /\ Misbehaving \in BOOLEAN /\ MidRunRestore \in BOOLEAN
    /\ MaxFaults \in Nat /\ MaxChanges \in Nat

Missing  == -1      \* no Homeserver key in Redis
NoCursor == -1      \* the response has no cursor line
BadCursor == -2     \* a cursor line that is not a number

(* HsMapping, with the stale flag of a mapping to this homeserver.         *)
Mapping == {"unbound", "current", "stale", "other"}

VARIABLES
    head,       \* events the homeserver has logged so far
    mapping,    \* HOSTED_BY edge of each user, as the graph has it
    cursor,     \* Homeserver.cursor in Redis
    outcome,    \* what became of each position, as Redis remembers it
    snap,       \* the snapshot Redis comes back with
    pc,         \* where the watcher's run stands
    requested,  \* self.homeserver.cursor
    todo,       \* event lines of the batch still to process
    closing,    \* the cursor closing the batch
    cache,      \* hs_mapping_cache, "none" where nothing is cached
    stopping,   \* the shutdown flag
    faults, changes,
    withheld,   \* history: positions a response with events left out
    ran,        \* history: batches whose handlers were started
    decided     \* history: decisions taken in this run

memVars  == <<requested, todo, closing, cache, decided>>
redisVars == <<cursor, outcome>>
vars == <<head, mapping, cursor, outcome, snap, pc, requested, todo, closing,
          cache, stopping, faults, changes, withheld, ran, decided>>

Outcome == {"none", "indexed", "queued", "dropped", "skipped"}
NoOutcome == [p \in Positions |-> "none"]
NoCache == [u \in Users |-> "none"]

TypeOK ==
    /\ head \in 0..Len
    /\ mapping \in [Users -> Mapping]
    /\ cursor \in 0..Len \cup {Missing}
    /\ outcome \in [Positions -> Outcome]
    /\ snap \in [cursor : 0..Len \cup {Missing},
                 outcome : [Positions -> Outcome], withheld : SUBSET Positions]
    /\ pc \in {"down", "idle", "poll", "resolve", "batch"}
    /\ requested \in 0..Len
    /\ todo \subseteq Positions
    /\ closing \in 0..Len \cup {NoCursor, BadCursor}
    /\ pc = "batch" => closing # BadCursor
    /\ cache \in [Users -> Mapping \cup {"none"}]
    /\ stopping \in BOOLEAN
    /\ faults \in Nat /\ changes \in Nat
    /\ withheld \subseteq Positions
    /\ ran \in Nat
    /\ decided \subseteq Users \X BOOLEAN

Init ==
    /\ head = 0
    /\ mapping \in [Users -> {"unbound", "current"}]
    /\ cursor = Missing /\ outcome = NoOutcome
    /\ snap = [cursor |-> Missing, outcome |-> NoOutcome, withheld |-> {}]
    /\ pc = "down" /\ requested = 0 /\ todo = {} /\ closing = NoCursor
    /\ cache = NoCache
    /\ stopping = FALSE /\ faults = 0 /\ changes = 0
    /\ withheld = {} /\ ran = 0 /\ decided = {}

(* NexusWatcher::start: persist_if_unknown seeds a missing cursor with 0.  *)
Start ==
    /\ pc = "down"
    /\ cursor' = IF cursor = Missing THEN 0 ELSE cursor
    /\ pc' = "idle"
    /\ UNCHANGED <<head, mapping, outcome, snap, stopping, faults, changes,
                   withheld, ran>>
    /\ UNCHANGED memVars

(* The runner's tick: shutdown check, then build() reads the cursor; with  *)
(* no key the processor is not built.                                      *)
Build ==
    /\ pc = "idle" /\ ~stopping /\ cursor # Missing
    /\ requested' = cursor
    /\ cache' = NoCache /\ decided' = {}
    /\ pc' = "poll"
    /\ UNCHANGED <<head, mapping, cursor, outcome, snap, todo, closing,
                   stopping, faults, changes, withheld, ran>>

(* The run returns; nothing it holds survives it.                          *)
EndRun ==
    /\ pc' = "idle"
    /\ requested' = 0 /\ todo' = {} /\ closing' = NoCursor
    /\ cache' = NoCache /\ decided' = {}

(* What GET /events may answer to a cursor: the next events, closed by the *)
(* last of them; nothing new; or, from a homeserver that misbehaves, any   *)
(* lines and any cursor line.                                              *)
Upto(c) == IF c + Limit <= head THEN c + Limit ELSE head

NextLines(c) == (c + 1)..Upto(c)

Answers(c) ==
    {[lines |-> NextLines(c), closing |-> Upto(c)]}
    \cup IF Misbehaving
         THEN [lines : SUBSET (1..head),
               closing : 0..head \cup {NoCursor, BadCursor}]
         ELSE {}

(* poll_events and EventBatch::split.                                      *)
Poll ==
    /\ pc = "poll"
    /\ \E a \in Answers(requested) :
          /\ todo' = a.lines
          /\ closing' = a.closing
    /\ pc' = "resolve"
    /\ UNCHANGED <<head, mapping, cursor, outcome, snap, requested, cache,
                   stopping, faults, changes, withheld, ran, decided>>

(* Faulty variants: a cursor that holds is taken as progress, a cursor one *)
(* ahead is taken as holding.                                              *)
AcceptsHolding ==
    /\ closing # BadCursor
    /\ closing = NoCursor => todo = {}
    /\ closing # NoCursor => closing >= cursor
    /\ closing # NoCursor /\ todo = {} => closing = requested

AcceptsTwoAhead ==
    /\ closing # BadCursor
    /\ closing = NoCursor => todo = {}
    /\ closing # NoCursor => closing >= cursor
    /\ closing # NoCursor /\ todo # {} => closing > requested + 1
    /\ closing # NoCursor /\ todo = {} => closing = requested

(* resolve_batch_cursor: a number, not behind the stored cursor, strictly  *)
(* ahead of the requested one when there are events, equal to it when      *)
(* there are none; and no events without a cursor line.                    *)
BatchAccepted ==
    /\ closing # BadCursor
    /\ closing = NoCursor => todo = {}
    /\ closing # NoCursor => closing >= cursor
    /\ closing # NoCursor /\ todo # {} => closing > requested
    /\ closing # NoCursor /\ todo = {} => closing = requested

ResolveBatchCursor ==
    /\ pc = "resolve"
    /\ IF BatchAccepted
       THEN /\ pc' = "batch"
            /\ ran' = IF todo = {} THEN ran ELSE ran + 1
            /\ withheld' = IF todo = {} THEN withheld ELSE withheld \cup
                  {p \in Positions : requested < p /\ p <= closing /\ p \notin todo}
            /\ UNCHANGED memVars
       ELSE EndRun /\ UNCHANGED <<ran, withheld>>
    /\ UNCHANGED <<head, mapping, cursor, outcome, snap, stopping, faults,
                   changes>>

(* user_hs_mapping: the graph is asked once per user and run.              *)
UserHsMapping(u) == IF cache[u] = "none" THEN mapping[u] ELSE cache[u]

(* should_process_event *)
ShouldProcess(m) == m \in {"unbound", "current"}

(* handle_error for an error the run does not stop at.                     *)
OutcomeOf(r) ==
    IF r = "ok" THEN "indexed"
    ELSE IF ShouldEnqueueRelatedEvent(r) THEN "queued" ELSE "dropped"

NextLine(p) == p \in todo /\ \A q \in todo : p <= q

(* A line that is not an event for Nexus: logged and passed.               *)
PassNoise ==
    /\ pc = "batch" /\ ~stopping
    /\ \E p \in todo \cap Noise :
          /\ NextLine(p)
          /\ outcome' = [outcome EXCEPT ![p] = "dropped"]
          /\ todo' = todo \ {p}
    /\ UNCHANGED <<head, mapping, cursor, snap, pc, requested, closing, cache,
                   stopping, faults, changes, withheld, ran, decided>>

(* handle_event: the guard on the user's mapping, then the handler, whose  *)
(* answer r does not stop the batch.                                       *)
HandleEvent(r) ==
    /\ pc = "batch" /\ ~stopping
    /\ ~ShouldNotRetryNow(r)
    /\ \E p \in todo \ Noise :
          LET u == UserOf[p]
              m == UserHsMapping(u)
          IN  /\ NextLine(p)
              /\ cache' = [cache EXCEPT ![u] = m]
              /\ decided' = decided \cup {<<u, ShouldProcess(m)>>}
              /\ outcome' = [outcome EXCEPT ![p] =
                                IF ShouldProcess(m) THEN OutcomeOf(r) ELSE "skipped"]
              /\ todo' = todo \ {p}
    /\ UNCHANGED <<head, mapping, cursor, snap, pc, requested, closing,
                   stopping, faults, changes, withheld, ran>>

(* The run stops at an error of its own infrastructure: the graph lookup,  *)
(* the handler, the enqueue, a Redis read or write, the poll.              *)
RunFails ==
    /\ pc \in {"poll", "resolve", "batch"} /\ faults < MaxFaults
    /\ faults' = faults + 1
    /\ EndRun
    /\ UNCHANGED <<head, mapping, cursor, outcome, snap, stopping, changes,
                   withheld, ran>>

(* The shutdown flag is seen between two lines: the cursor stays.          *)
StopBatch ==
    /\ pc = "batch" /\ stopping /\ todo # {}
    /\ EndRun
    /\ UNCHANGED <<head, mapping, cursor, outcome, snap, stopping, faults,
                   changes, withheld, ran>>

(* Faulty variant: a batch cut short by the shutdown stores its cursor.    *)
SaveCursorOnStop ==
    /\ pc = "batch" /\ (todo = {} \/ stopping)
    /\ cursor' = IF closing = NoCursor \/ closing < cursor THEN cursor ELSE closing
    /\ EndRun
    /\ UNCHANGED <<head, mapping, outcome, snap, stopping, faults, changes,
                   withheld, ran>>

(* put_to_index after the last line, checked against the stored cursor     *)
(* again.                                                                  *)
SaveCursor ==
    /\ pc = "batch" /\ todo = {}
    /\ cursor' = IF closing = NoCursor \/ closing < cursor THEN cursor ELSE closing
    /\ EndRun
    /\ UNCHANGED <<head, mapping, outcome, snap, stopping, faults, changes,
                   withheld, ran>>

Shutdown ==
    /\ pc # "down" /\ ~stopping /\ faults < MaxFaults
    /\ stopping' = TRUE /\ faults' = faults + 1
    /\ UNCHANGED <<head, mapping, snap, pc, changes, withheld, ran>>
    /\ UNCHANGED redisVars
    /\ UNCHANGED memVars

Exit ==
    /\ pc = "idle" /\ stopping
    /\ pc' = "down" /\ stopping' = FALSE
    /\ UNCHANGED <<head, mapping, snap, faults, changes, withheld, ran>>
    /\ UNCHANGED redisVars
    /\ UNCHANGED memVars

Crash ==
    /\ pc # "down" /\ faults < MaxFaults
    /\ faults' = faults + 1
    /\ pc' = "down" /\ stopping' = FALSE
    /\ requested' = 0 /\ todo' = {} /\ closing' = NoCursor
    /\ cache' = NoCache /\ decided' = {}
    /\ UNCHANGED <<head, mapping, snap, changes, withheld, ran>>
    /\ UNCHANGED redisVars

(* The homeserver logs another event.                                      *)
Publish ==
    /\ head < Len
    /\ head' = head + 1
    /\ UNCHANGED <<mapping, snap, pc, stopping, faults, changes, withheld, ran>>
    /\ UNCHANGED redisVars
    /\ UNCHANGED memVars

(* The resolver and the ingestor: bind, mark stale, realign.               *)
Remap(u) ==
    /\ changes < MaxChanges
    /\ changes' = changes + 1
    /\ \E m \in Mapping :
          /\ <<mapping[u], m>> \in {<<"unbound", "current">>,
                <<"unbound", "other">>, <<"current", "stale">>,
                <<"stale", "current">>}
          /\ mapping' = [mapping EXCEPT ![u] = m]
    /\ UNCHANGED <<head, snap, pc, stopping, faults, withheld, ran>>
    /\ UNCHANGED redisVars
    /\ UNCHANGED memVars

(* Redis saves a snapshot, and restarts from the last one.                 *)
Snapshot ==
    /\ snap' = [cursor |-> cursor, outcome |-> outcome, withheld |-> withheld]
    /\ UNCHANGED <<head, mapping, pc, stopping, faults, changes, withheld, ran>>
    /\ UNCHANGED redisVars
    /\ UNCHANGED memVars

Restore ==
    /\ faults < MaxFaults
    /\ pc \in {"down", "idle"} \/ MidRunRestore
    /\ faults' = faults + 1
    /\ cursor' = snap.cursor /\ outcome' = snap.outcome
    /\ ran' = 0 /\ withheld' = snap.withheld
    /\ UNCHANGED <<head, mapping, snap, pc, stopping, changes>>
    /\ UNCHANGED memVars

RunStep ==
    \/ Build \/ Poll \/ ResolveBatchCursor \/ PassNoise
    \/ (\E r \in {"ok"} \cup ErrorClass : HandleEvent(r))
    \/ StopBatch \/ SaveCursor

Next ==
    \/ Start \/ RunStep \/ RunFails
    \/ Shutdown \/ Exit \/ Crash
    \/ Publish \/ (\E u \in Users : Remap(u))
    \/ Snapshot \/ Restore

Spec == Init /\ [][Next]_vars

(* The supervisor starts the watcher and the periodic task keeps ticking;  *)
(* nothing is assumed of faults, of the resolver or of the homeserver.     *)
FairSpec == Spec /\ WF_vars(RunStep) /\ WF_vars(Start)

-----------------------------------------------------------------------------
(* Properties.                                                             *)

Accounted == {p \in Positions : outcome[p] # "none"} \cup withheld

(* Every position the stored cursor has passed was indexed, queued,        *)
(* dropped or skipped, or the homeserver left it out of a batch with       *)
(* events: neither a run cut short, nor a malformed batch, nor a crash, nor*)
(* a Redis restart between two runs makes the loop jump over an event.     *)
NoGap == \A p \in Positions : p <= cursor => p \in Accounted

(* Handlers are never run again and again for a batch that cannot move the *)
(* cursor: each batch that was started advanced the cursor, was cut short  *)
(* by a fault or is still running, whatever cursor lines the homeserver    *)
(* sends.                                                                  *)
NoReplayLoop ==
    ran <= (IF cursor = Missing THEN 0 ELSE cursor) + faults
           + (IF pc = "batch" /\ requested < closing THEN 1 ELSE 0)

(* Every event of an honest homeserver is eventually accounted for, unless *)
(* the watcher is stopping or waits for the restart that seeds its cursor. *)
LogIsConsumed ==
    \A p \in Positions :
        p <= head ~> p \in Accounted \/ stopping \/ cursor = Missing

(* What Homeserver says of a Redis crash: the watcher "resumes from        *)
(* whatever cursor survived in the snapshot and catches up", so what the   *)
(* snapshot had lost is fetched again and no position is jumped over.      *)
RestartCatchesUp == NoGap

(* The loop implements the promise of EventIntake.                         *)
Intake == INSTANCE EventIntake WITH
    checkpoint <- cursor,
    done <- Accounted,
    saved <- [at |-> snap.cursor,
              done |-> {p \in Positions : snap.outcome[p] # "none"} \cup snap.withheld]

IntakeSpec == Intake!Spec
=============================================================================

---------------------------- MODULE RetryQueue -----------------------------
(***************************************************************************)
(* The persistent retry queue of the watcher: a Redis sorted set of due    *)
(* times (zset) and a JSON document per URI (json), written by the live    *)
(* event loops (Enqueue) and by RetryProcessor replicas.  Redis runs each  *)
(* command, MULTI/EXEC block and Lua script atomically; between two of     *)
(* them every other actor may step, so a processor holds a batch that may  *)
(* be superseded before it settles it.                                     *)
(***************************************************************************)
EXTENDS EventErrors, Integers, FiniteSets

CONSTANTS
    MaxRetries,         \* [watcher.retry] max_retries
    MaxDepRetries,      \* [watcher.retry] max_dependency_retries
    InitBackoff,        \* initial_backoff_secs
    MaxBackoff,         \* max_backoff_secs
    InitDepBackoff,     \* initial_missing_dep_backoff_secs
    MaxDepBackoff,      \* max_missing_dep_backoff_secs
    Width               \* bits of the unsigned word of calculate_backoff (u64)

CONSTANTS
    Uris,           \* retry entries are keyed by hash(URI)
    Procs,          \* RetryProcessor replicas
    BatchSize,      \* RETRY_BATCH_SIZE
    NoEntry,        \* no JSON document under the state key
    MaxEnqueues,    \* bound: fresh enqueues in a behaviour
    MaxTime,        \* bound: clock ticks in a behaviour
    MaxFaults       \* bound: aborted runs, lost documents and shutdowns

Absent == -1        \* no member in the sorted set

Entry == [nonce : Nat, count : Nat, at : Nat]

ASSUME PolicyAssumption ==
    /\ MaxRetries \in Nat /\ MaxDepRetries \in Nat
    /\ InitBackoff \in Nat \ {0} /\ MaxBackoff \in Nat \ {0}
    /\ InitDepBackoff \in Nat \ {0} /\ MaxDepBackoff \in Nat \ {0}
    /\ Width \in Nat \ {0}

ASSUME QueueAssumption ==
    /\ BatchSize \in Nat \ {0}
    /\ NoEntry \notin Entry
    /\ MaxEnqueues \in Nat /\ MaxTime \in Nat /\ MaxFaults \in Nat

(***************************************************************************)
(* How often a failed event is tried again and how long it waits:          *)
(* max_retries_for, backoff_params_for and calculate_backoff.              *)
(***************************************************************************)
MaxRetriesFor(e) == IF e = "dependency" THEN MaxDepRetries ELSE MaxRetries

InitialFor(e) == IF e = "dependency" THEN InitDepBackoff ELSE InitBackoff

CeilingFor(e) == IF e = "dependency" THEN MaxDepBackoff ELSE MaxBackoff

Fits(n) == n < 2 ^ Width

(* min(initial * 2^count, max); either overflow falls back to max.         *)
CalculateBackoff(count, initial, max) ==
    LET delay == initial * 2 ^ count
    IN  IF Fits(2 ^ count) /\ Fits(delay) /\ delay \in 0 .. max
        THEN delay ELSE max

BackoffFor(e, count) == CalculateBackoff(count, InitialFor(e), CeilingFor(e))

VARIABLES
    now,        \* wall clock
    lastNonce,  \* nanosecond clock reading of the latest enqueue
    zset,       \* RetryManagerV2:events : member -> score
    json,       \* RetryManagerV2:state:<key> : RetryEvent
    pc,         \* where each processor's run stands
    runNow,     \* the `now` read once at the start of the run
    keys,       \* (member, score) pairs returned by the range query
    batch,      \* fetched events the run has still to settle
    current,    \* the event handed to the handler
    stopping,   \* the shutdown flag
    faults,     \* faults so far
    latest,     \* history: nonce of the newest event enqueued for each URI
    settled     \* history: (URI, nonce) pairs that reached a final outcome

redisVars == <<zset, json>>
procVars  == <<pc, runNow, keys, batch, current>>
vars == <<now, lastNonce, zset, json, pc, runNow, keys, batch, current,
          stopping, faults, latest, settled>>

(* Fetched pairs keep the score they were ordered by.                      *)
Member == [uri : Uris, score : Nat]

Held == [uri : Uris, score : Nat, entry : Entry]

Result == {"ok", "corrupt"} \cup ErrorClass

TypeOK ==
    /\ now \in Nat /\ lastNonce \in Nat
    /\ zset \in [Uris -> Nat \cup {Absent}]
    /\ json \in [Uris -> Entry \cup {NoEntry}]
    /\ pc \in [Procs -> {"idle", "range", "mget", "clean", "batch", "handling"}]
    /\ runNow \in [Procs -> Nat]
    /\ keys \in [Procs -> SUBSET Member]
    /\ batch \in [Procs -> SUBSET Held]
    /\ current \in [Procs -> Held \cup {NoEntry}]
    /\ \A p \in Procs : pc[p] = "handling" => current[p] \in batch[p]
    /\ stopping \in BOOLEAN
    /\ faults \in Nat
    /\ latest \in [Uris -> Nat \cup {Absent}]
    /\ settled \subseteq Uris \X Nat

-----------------------------------------------------------------------------
(* Redis operations, one atomic effect each.                               *)

(* JSON.SET + ZADD of one MULTI/EXEC (RetryEvent::put_to_index).           *)
PutToIndex(u, e) ==
    /\ json' = [json EXCEPT ![u] = e]
    /\ zset' = [zset EXCEPT ![u] = e.at]

(* NONCE_GUARD_LUA: the document exists and carries the nonce.             *)
NonceMatches(u, n) == json[u] # NoEntry /\ json[u].nonce = n

(* Faulty variant: the removal does not compare nonces.                    *)
RemoveUnconditionally(u, n) ==
    /\ json' = [json EXCEPT ![u] = NoEntry]
    /\ zset' = [zset EXCEPT ![u] = Absent]

(* REMOVE_IF_NONCE_SCRIPT *)
RemoveIfNonce(u, n) ==
    IF NonceMatches(u, n)
    THEN /\ json' = [json EXCEPT ![u] = NoEntry]
         /\ zset' = [zset EXCEPT ![u] = Absent]
    ELSE UNCHANGED redisVars

(* PUT_IF_NONCE_SCRIPT *)
PutIfNonce(u, e, n) ==
    IF NonceMatches(u, n) THEN PutToIndex(u, e) ELSE UNCHANGED redisVars

(* Faulty variants: a blind ZREM, and no cleanup of tombstones at all.     *)
RemoveStaleBlindly(S) ==
    /\ zset' = [u \in Uris |-> IF u \in S THEN Absent ELSE zset[u]]
    /\ UNCHANGED json

KeepStale(S) == UNCHANGED redisVars

(* REMOVE_STALE_SCRIPT: a member goes only while its state is absent.      *)
RemoveStale(S) ==
    /\ zset' = [u \in Uris |-> IF u \in S /\ json[u] = NoEntry
                               THEN Absent ELSE zset[u]]
    /\ UNCHANGED json

(* The answers ZRANGEBYSCORE -inf..t LIMIT 0 BatchSize can give: the due   *)
(* members of lowest score; which of two equal scores is cut off is open.  *)
ReadyKeys(t) == {u \in Uris : zset[u] # Absent /\ zset[u] <= t}

ReadyRanges(t) ==
    {S \in SUBSET ReadyKeys(t) :
        /\ Cardinality(S) <= BatchSize
        /\ S # ReadyKeys(t) => Cardinality(S) = BatchSize
        /\ \A u \in S, v \in ReadyKeys(t) \ S : zset[u] <= zset[v]}

-----------------------------------------------------------------------------
(* Entries left by an earlier process, stored before the nonce field       *)
(* existed (serde default 0), or by nobody.                                *)
Init ==
    /\ now = 0 /\ lastNonce = 0
    /\ json \in [Uris -> {NoEntry, [nonce |-> 0, count |-> 0, at |-> 0]}]
    /\ zset = [u \in Uris |-> IF json[u] = NoEntry THEN Absent ELSE 0]
    /\ pc = [p \in Procs |-> "idle"]
    /\ runNow = [p \in Procs |-> 0]
    /\ keys = [p \in Procs |-> {}]
    /\ batch = [p \in Procs |-> {}]
    /\ current = [p \in Procs |-> NoEntry]
    /\ stopping = FALSE
    /\ faults = 0
    /\ latest = [u \in Uris |-> IF json[u] = NoEntry THEN Absent ELSE 0]
    /\ settled = {}

(* Faulty variant: the overwritten entry's nonce is kept.                  *)
EnqueueKeepingNonce(u, e) ==
    /\ lastNonce < MaxEnqueues
    /\ lastNonce' = lastNonce + 1
    /\ PutToIndex(u, [nonce |-> IF json[u] = NoEntry THEN lastNonce'
                                ELSE json[u].nonce,
                      count |-> 0, at |-> now + InitialFor(e)])
    /\ latest' = [latest EXCEPT ![u] = lastNonce']
    /\ UNCHANGED <<now, stopping, faults, settled>>
    /\ UNCHANGED procVars

(* RetryScheduler::enqueue by a live loop: overwrite, count 0, new nonce.  *)
Enqueue(u, e) ==
    /\ lastNonce < MaxEnqueues
    /\ lastNonce' = lastNonce + 1
    /\ PutToIndex(u, [nonce |-> lastNonce', count |-> 0,
                      at |-> now + InitialFor(e)])
    /\ latest' = [latest EXCEPT ![u] = lastNonce']
    /\ UNCHANGED <<now, stopping, faults, settled>>
    /\ UNCHANGED procVars

(* A tick of the periodic task: the run reads the clock once.              *)
StartRun(p) ==
    /\ pc[p] = "idle" /\ ~stopping
    /\ pc' = [pc EXCEPT ![p] = "range"]
    /\ runNow' = [runNow EXCEPT ![p] = now]
    /\ UNCHANGED <<now, lastNonce, zset, json, keys, batch, current, stopping,
                   faults, latest, settled>>

(* The run is over; what it held in memory is gone.                        *)
EndRun(p) ==
    /\ pc' = [pc EXCEPT ![p] = "idle"]
    /\ runNow' = [runNow EXCEPT ![p] = 0]
    /\ keys' = [keys EXCEPT ![p] = {}]
    /\ batch' = [batch EXCEPT ![p] = {}]
    /\ current' = [current EXCEPT ![p] = NoEntry]

(* RetryEvent::fetch_ready; an empty answer ends the run (Completed).      *)
FetchRange(p) ==
    /\ pc[p] = "range"
    /\ \E S \in ReadyRanges(runNow[p]) :
          IF S = {} THEN EndRun(p)
          ELSE /\ keys' = [keys EXCEPT ![p] =
                              {[uri |-> u, score |-> zset[u]] : u \in S}]
               /\ pc' = [pc EXCEPT ![p] = "mget"]
               /\ UNCHANGED <<runNow, batch, current>>
    /\ UNCHANGED <<now, lastNonce, zset, json, stopping, faults, latest,
                   settled>>

(* JSON.MGET: the documents found; keys without one are tombstones.        *)
FetchState(p) ==
    /\ pc[p] = "mget"
    /\ LET stale == {k \in keys[p] : json[k.uri] = NoEntry}
           live  == keys[p] \ stale
       IN  /\ keys' = [keys EXCEPT ![p] = stale]
           /\ batch' = [batch EXCEPT ![p] =
                 {[uri |-> k.uri, score |-> k.score, entry |-> json[k.uri]]
                     : k \in live}]
           /\ pc' = [pc EXCEPT ![p] = IF stale # {} THEN "clean" ELSE "batch"]
    /\ UNCHANGED <<now, lastNonce, zset, json, runNow, current, stopping,
                   faults, latest, settled>>

(* remove_stale_index_entries; a batch with no document ends the run even  *)
(* when more due members lie behind the tombstones.                        *)
CleanStale(p) ==
    /\ pc[p] = "clean"
    /\ RemoveStale({k.uri : k \in keys[p]})
    /\ IF batch[p] = {} THEN EndRun(p)
       ELSE /\ pc' = [pc EXCEPT ![p] = "batch"]
            /\ keys' = [keys EXCEPT ![p] = {}]
            /\ UNCHANGED <<runNow, batch, current>>
    /\ UNCHANGED <<now, lastNonce, stopping, faults, latest, settled>>

(* The loop over the batch, in score order: shutdown is checked before     *)
(* each event, then the event goes to the handler.                         *)
HandleNext(p) ==
    /\ pc[p] = "batch"
    /\ \E h \in batch[p] :
          /\ \A g \in batch[p] : h.score <= g.score
          /\ IF stopping THEN EndRun(p)
             ELSE /\ pc' = [pc EXCEPT ![p] = "handling"]
                  /\ current' = [current EXCEPT ![p] = h]
                  /\ UNCHANGED <<runNow, keys, batch>>
    /\ UNCHANGED <<now, lastNonce, zset, json, stopping, faults, latest,
                   settled>>

(* The outcomes after which the event leaves the queue: parse failure,     *)
(* success, an error not worth retrying, an exhausted retry count.         *)
IsFinal(r, count) ==
    \/ r \in {"ok", "corrupt"}
    \/ ~ShouldEnqueueRelatedEvent(r)
    \/ ~ShouldNotRetryNow(r) /\ count >= MaxRetriesFor(r)

Rescheduled(e, r) ==
    [nonce |-> e.nonce,
     count |-> IF ShouldNotRetryNow(r) THEN e.count ELSE e.count + 1,
     at    |-> now + BackoffFor(r, e.count)]

(* The handler answered r: remove_if_current or reschedule, on the nonce   *)
(* that was fetched.  An infra error is returned from the run; otherwise   *)
(* the loop goes on and, when the batch is done, fetches again with the    *)
(* same runNow.                                                            *)
Settle(p, r) ==
    /\ pc[p] = "handling"
    /\ LET u == current[p].uri
           e == current[p].entry
       IN  IF IsFinal(r, e.count)
           THEN /\ RemoveIfNonce(u, e.nonce)
                /\ settled' = settled \cup {<<u, e.nonce>>}
           ELSE /\ PutIfNonce(u, Rescheduled(e, r), e.nonce)
                /\ UNCHANGED settled
    /\ IF ShouldNotRetryNow(r) THEN EndRun(p)
       ELSE LET rest == batch[p] \ {current[p]}
            IN  /\ batch' = [batch EXCEPT ![p] = rest]
                /\ pc' = [pc EXCEPT ![p] =
                             IF rest = {} THEN "range" ELSE "batch"]
                /\ current' = [current EXCEPT ![p] = NoEntry]
                /\ UNCHANGED <<runNow, keys>>
    /\ UNCHANGED <<now, lastNonce, stopping, faults, latest>>

(* A store call fails, the handler panics or the process is killed: the    *)
(* run ends; Redis keeps its state.                                        *)
Abort(p) ==
    /\ pc[p] # "idle" /\ faults < MaxFaults
    /\ faults' = faults + 1
    /\ EndRun(p)
    /\ UNCHANGED <<now, lastNonce, zset, json, stopping, latest, settled>>

(* The document disappears without its member (eviction, a manual DEL):    *)
(* the tombstones that fetch_ready and the stale script are written for.   *)
LoseState(u) ==
    /\ json[u] # NoEntry /\ faults < MaxFaults
    /\ faults' = faults + 1
    /\ json' = [json EXCEPT ![u] = NoEntry]
    /\ settled' = settled \cup {<<u, json[u].nonce>>}
    /\ UNCHANGED <<now, lastNonce, zset, stopping, latest>>
    /\ UNCHANGED procVars

Shutdown ==
    /\ ~stopping /\ faults < MaxFaults
    /\ faults' = faults + 1
    /\ stopping' = TRUE
    /\ UNCHANGED <<now, lastNonce, latest, settled>>
    /\ UNCHANGED redisVars
    /\ UNCHANGED procVars

(* The next process: every run has returned, the queue is where it was.    *)
Restart ==
    /\ stopping /\ \A p \in Procs : pc[p] = "idle"
    /\ stopping' = FALSE
    /\ UNCHANGED <<now, lastNonce, faults, latest, settled>>
    /\ UNCHANGED redisVars
    /\ UNCHANGED procVars

Tick ==
    /\ now < MaxTime
    /\ now' = now + 1
    /\ UNCHANGED <<lastNonce, stopping, faults, latest, settled>>
    /\ UNCHANGED redisVars
    /\ UNCHANGED procVars

RunStep(p) ==
    \/ StartRun(p) \/ FetchRange(p) \/ FetchState(p) \/ CleanStale(p)
    \/ HandleNext(p)
    \/ \E r \in Result : Settle(p, r)

Next ==
    \/ \E u \in Uris, e \in {"dependency", "transient"} : Enqueue(u, e)
    \/ \E p \in Procs : RunStep(p) \/ Abort(p)
    \/ \E u \in Uris : LoseState(u)
    \/ Shutdown \/ Restart \/ Tick

Spec == Init /\ [][Next]_vars

(* The periodic task keeps ticking and a run that started goes on: nothing *)
(* is assumed of enqueues, faults, restarts or the clock.                  *)
FairSpec == Spec /\ \A p \in Procs : WF_vars(RunStep(p))

-----------------------------------------------------------------------------
(* Properties.                                                             *)

(* A JSON document is never left without its sorted-set member, or with a  *)
(* member of another due time: such state would sit in Redis for good,     *)
(* since fetch_ready finds entries through the sorted set only.            *)
StateIsIndexed == \A u \in Uris : json[u] # NoEntry => zset[u] = json[u].at

(* The newest event enqueued for a URI stays in the queue, under its own   *)
(* nonce, until it reaches a final outcome of its own: a stale in-flight   *)
(* retry of an older event, its failure or its dead-lettering never takes  *)
(* the newer entry with it (the nonce comparison of remove_if / put_if).   *)
NoLostEvent ==
    \A u \in Uris :
        latest[u] # Absent /\ <<u, latest[u]>> \notin settled
            => NonceMatches(u, latest[u])

(* An event that reached a final outcome is never queued again, whatever   *)
(* replicas still hold it ("can never resurrect a removed entry").         *)
NeverResurrected ==
    \A u \in Uris : json[u] # NoEntry => <<u, json[u].nonce>> \notin settled

Due(u) == json[u] # NoEntry /\ json[u].at <= now

(* A due entry is eventually attempted: it leaves the queue or moves to a  *)
(* later time, unless the process is shut down first.  Tombstones in front *)
(* of it, a full batch, runs cut short by an infra error of another event  *)
(* and superseded entries delay it but cannot starve it.                   *)
DueIsAttempted == \A u \in Uris : Due(u) ~> (~Due(u) \/ stopping)

(* The queue implements the ledger of RetryLedger: which event is pending  *)
(* for a URI changes only when a newer event is accepted or when that very *)
(* event reaches its outcome.                                              *)
Pending == [u \in Uris |-> IF json[u] = NoEntry THEN Absent ELSE json[u].nonce]

Ledger == INSTANCE RetryLedger WITH pending <- Pending, minted <- lastNonce,
                                    resolved <- settled

LedgerSpec == Ledger!Spec
=============================================================================

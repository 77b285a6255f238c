----------------------------- MODULE ProgressMC -----------------------------
(***************************************************************************)
(* What the loops of the watcher must get done in the end: the primary     *)
(* homeserver's loop, the processor of an external homeserver and the      *)
(* retry processor.  part names the loop that a behaviour is about; the    *)
(* other two stand still.                                                  *)
(***************************************************************************)
EXTENDS Integers

CONSTANT NoEntry   \* of RetryQueue

VARIABLES
    part,
    log, mapping, hsCursor, logged, snap, hsPc, requested, todo, closing, cache, hsStopping,
    hsFaults, changes, unsent, ran, decided,
    head, hosted, cursor, outcome, failures, skips, resume, keyPc, turn, start, left, at, user,
    events, latest, spent, keyStopping, keyFaults, moves, withheld,
    now, lastNonce, zset, json, pc, runNow, keys, batch, current, stopping, faults, newest, settled

hsVars    == <<log, mapping, hsCursor, logged, snap, hsPc, requested, todo, closing, cache,
               hsStopping, hsFaults, changes, unsent, ran, decided>>
keyVars   == <<head, hosted, cursor, outcome, failures, skips, resume, keyPc, turn, start, left,
               at, user, events, latest, spent, keyStopping, keyFaults, moves, withheld>>
retryVars == <<now, lastNonce, zset, json, pc, runNow, keys, batch, current, stopping, faults,
               newest, settled>>
vars      == <<part, hsVars, keyVars, retryVars>>

(* An event of each of two users, the second one not for Nexus.            *)
Primary == INSTANCE HsIndexer WITH
    Users <- {"a", "b"}, UserOf <- [p \in 1..2 |-> IF p = 1 THEN "a" ELSE "b"],
    Len <- 2, Noise <- {2}, Limit <- 1, Misbehaving <- FALSE, MidRunRestore <- FALSE,
    MaxFaults <- 1, MaxChanges <- 1,
    head <- log, cursor <- hsCursor, outcome <- logged, pc <- hsPc, stopping <- hsStopping,
    faults <- hsFaults, withheld <- unsent

(* What a handler answers does not matter to who is served.                *)
External == INSTANCE KeyBasedIndexer WITH
    Users <- {1, 2}, Len <- 1, Foreign <- {}, Noise <- {1, 2} \X {1}, Limit <- 1,
    MaxFailures <- 2, Misbehaving <- FALSE, MaxFaults <- 2, MaxMoves <- 1,
    pc <- keyPc, stopping <- keyStopping, faults <- keyFaults

(* Two URIs and a single processor.                                        *)
Retry == INSTANCE RetryQueue WITH
    Uris <- {"u1", "u2"}, Procs <- {"p1"},
    MaxRetries <- 1, MaxDepRetries <- 2, InitBackoff <- 1, MaxBackoff <- 2,
    InitDepBackoff <- 2, MaxDepBackoff <- 2, Width <- 4, BatchSize <- 1,
    MaxEnqueues <- 2, MaxTime <- 2, MaxFaults <- 1, latest <- newest

Init ==
    /\ part \in {"primary", "external", "retry"}
    /\ Primary!Init  /\ (part # "primary" => mapping = [u \in {"a", "b"} |-> "current"])
    /\ External!Init /\ (part # "external" => hosted = {1, 2})
    /\ Retry!Init    /\ (part # "retry" => \A u \in {"u1", "u2"} : json[u] = NoEntry)

Next ==
    \/ part = "primary"  /\ Primary!Next  /\ UNCHANGED <<part, keyVars, retryVars>>
    \/ part = "external" /\ External!Next /\ UNCHANGED <<part, hsVars, retryVars>>
    \/ part = "retry"    /\ Retry!Next    /\ UNCHANGED <<part, hsVars, keyVars>>

(* The supervisor starts the watcher, the periodic tasks keep ticking and  *)
(* a run goes on; nothing is assumed of faults, of the resolver, of a      *)
(* homeserver, of enqueues or of the clock.                                *)
FairSpec ==
    /\ Init /\ [][Next]_vars
    /\ WF_hsVars(part = "primary" /\ Primary!RunStep) /\ WF_hsVars(part = "primary" /\ Primary!Start)
    /\ WF_keyVars(part = "external" /\ External!RunStep)
    /\ WF_retryVars(part = "retry" /\ Retry!RunStep("p1"))

-----------------------------------------------------------------------------
(* Every event the primary homeserver logs is handled, queued, dropped or  *)
(* skipped in the end, unless the watcher is stopped or Redis lost the     *)
(* cursor's key.                                                           *)
LogIsConsumed == part = "primary" => Primary!LogIsConsumed

(* Every event of a user hosted on the external homeserver is reached,     *)
(* though runs are cut by their budget, users answer 404 and others fail.  *)
UserIsServed == part = "external" => External!UserIsServed

(* A due entry of the retry queue is attempted in the end: tombstones, a   *)
(* full batch and runs cut short delay it but cannot starve it.            *)
DueIsAttempted == part = "retry" => Retry!DueIsAttempted
=============================================================================

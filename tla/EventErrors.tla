---------------------------- MODULE EventErrors ----------------------------
(***************************************************************************)
(* How the watcher classifies the error a handler returned:                *)
(* EventProcessorError::should_not_retry_now and                           *)
(* RetryScheduler::should_enqueue_related_event.                           *)
(***************************************************************************)

(* The classes of error that handling tells apart.  "infra" stands for     *)
(* every should_not_retry_now error a handler can return (a failed graph   *)
(* or Redis query), "useless" for every error that is not worth a retry    *)
(* (404, invalid payload, SkipIndexing, ...), "dependency" for             *)
(* MissingDependency and "transient" for the rest (429, 5xx, I/O, ...).    *)
ErrorClass == {"infra", "useless", "dependency", "transient"}

ShouldNotRetryNow(e) == e = "infra"

ShouldEnqueueRelatedEvent(e) == e # "useless"
=============================================================================

---------------------------- MODULE RetryLedger ----------------------------
(***************************************************************************)
(* What the retry queue promises, apart from how Redis holds it: at most   *)
(* one pending event per URI, the newest one accepted; an outcome of an    *)
(* event resolves that event only; a resolved event does not come back.    *)
(***************************************************************************)
EXTENDS Integers

CONSTANT Uris

VARIABLES
    pending,    \* the event pending for each URI, or -1
    minted,     \* the newest event accepted so far
    resolved    \* (URI, event) pairs that reached their outcome

vars == <<pending, minted, resolved>>

None == -1

Init ==
    /\ pending \in [Uris -> {None, 0}]
    /\ minted = 0
    /\ resolved = {}

(* RetryScheduler::enqueue: a newer event takes the URI's place.           *)
Accept(u) ==
    /\ minted' = minted + 1
    /\ pending' = [pending EXCEPT ![u] = minted']
    /\ UNCHANGED resolved

(* The outcome of event n, also when n was superseded in the meantime.     *)
Resolve(u, n) ==
    /\ resolved' = resolved \cup {<<u, n>>}
    /\ pending' = IF pending[u] = n THEN [pending EXCEPT ![u] = None]
                  ELSE pending
    /\ UNCHANGED minted

Next ==
    \/ \E u \in Uris : Accept(u)
    \/ \E u \in Uris : \E n \in 0 .. minted : Resolve(u, n)

Spec == Init /\ [][Next]_vars
=============================================================================

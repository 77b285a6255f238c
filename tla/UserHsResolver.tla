-------------------------- MODULE UserHsResolver ---------------------------
(***************************************************************************)
(* Which homeserver a user is bound to.  The periodic resolver and the     *)
(* user ingestor (on the primary-homeserver and the retry task) both look  *)
(* a user's record up in PKDNS and write the HOSTED_BY edge afterwards;    *)
(* every graph query is atomic, a lookup takes its time, and the user may  *)
(* publish another homeserver meanwhile.                                   *)
(***************************************************************************)
EXTENDS Integers

CONSTANTS
    Users,
    Hss,            \* homeservers
    Blacklist,      \* external_hs_pk_blacklist
    Ingestors,      \* tasks that ingest users
    None,           \* no homeserver: nothing published, no edge
    InitialWait,    \* UNBOUND_RETRY_INITIAL
    Ttl,            \* hs_resolver_ttl, the cap of the unbound backoff
    MaxPublishes,   \* bound: changes of a published record
    MaxLookupFaults       \* bound: failed lookups, failed queries and stops

ASSUME ResolverAssumption ==
    /\ Blacklist \subseteq Hss /\ None \notin Hss
    /\ InitialWait \in Nat \ {0} /\ Ttl \in Nat \ {0}
    /\ MaxPublishes \in Nat /\ MaxLookupFaults \in Nat

MaybeHs == Hss \cup {None}

VARIABLES
    published,  \* the homeserver in each user's PKDNS record
    known,      \* users with a node in the graph
    edge,       \* HOSTED_BY target
    stale,      \* the edge's stale flag
    fresh,      \* users whose resolved_at is within the TTL
    seeded,     \* <<user, homeserver>> pairs with a cursor
    wait,       \* UnboundBackoff: time to next_attempt
    length,     \* UnboundBackoff: wait of the last empty lookup, 0 for none
    unresolved,      \* users of this resolver run still to resolve
    rpc, ruser, rstored, rfound,    \* the resolver's step and what it read
    ipc, iuser, ifound,             \* each ingestor's step and what it read
    publishes, lookupFaults

graphVars == <<known, edge, stale, fresh, seeded>>
backoffVars == <<wait, length>>
resVars == <<unresolved, rpc, ruser, rstored, rfound>>
ingVars == <<ipc, iuser, ifound>>
resolverVars == <<published, known, edge, stale, fresh, seeded, wait, length, unresolved,
          rpc, ruser, rstored, rfound, ipc, iuser, ifound, publishes, lookupFaults>>

ResolverTypeOK ==
    /\ published \in [Users -> MaybeHs] /\ known \subseteq Users
    /\ edge \in [Users -> MaybeHs] /\ stale \subseteq Users /\ fresh \subseteq Users
    /\ seeded \subseteq Users \X Hss
    /\ wait \in [Users -> 0..Ttl] /\ length \in [Users -> 0..Ttl]
    /\ unresolved \subseteq Users
    /\ rpc \in {"idle", "next", "lookup", "apply"}
    /\ ruser \in Users \cup {None} /\ rstored \in MaybeHs /\ rfound \in MaybeHs
    /\ ipc \in [Ingestors -> {"idle", "lookup", "node", "bind", "seed"}]
    /\ iuser \in [Ingestors -> Users \cup {None}]
    /\ ifound \in [Ingestors -> MaybeHs]
    /\ publishes \in Nat /\ lookupFaults \in Nat

(* Users indexed before they were bound are known without an edge.         *)
ResolverInit ==
    /\ published \in [Users -> MaybeHs]
    /\ known \in SUBSET Users
    /\ edge = [u \in Users |-> None] /\ stale = {} /\ fresh = {} /\ seeded = {}
    /\ wait = [u \in Users |-> 0] /\ length = [u \in Users |-> 0]
    /\ unresolved = {} /\ rpc = "idle"
    /\ ruser = None /\ rstored = None /\ rfound = None
    /\ ipc = [i \in Ingestors |-> "idle"]
    /\ iuser = [i \in Ingestors |-> None]
    /\ ifound = [i \in Ingestors |-> None]
    /\ publishes = 0 /\ lookupFaults = 0

-----------------------------------------------------------------------------
(* The resolver.                                                           *)

(* get_users_needing_hs_resolution *)
Needing == {u \in known : edge[u] = None \/ u \notin fresh}

(* retain_due keeps the users whose wait is over and forgets the backoff   *)
(* of users that are no longer candidates.                                 *)
StartResolver ==
    /\ rpc = "idle"
    /\ LET due == {u \in Needing : wait[u] = 0}
       IN  /\ unresolved' = due
           /\ rpc' = IF due = {} THEN "idle" ELSE "next"
    /\ wait' = [u \in Users |-> IF u \in Needing THEN wait[u] ELSE 0]
    /\ length' = [u \in Users |-> IF u \in Needing THEN length[u] ELSE 0]
    /\ UNCHANGED <<published, ruser, rstored, rfound, publishes, lookupFaults>>
    /\ UNCHANGED graphVars /\ UNCHANGED ingVars

(* resolve_user reads the stored mapping first.                            *)
ReadMapping ==
    /\ rpc = "next"
    /\ \E u \in unresolved :
          /\ unresolved' = unresolved \ {u}
          /\ ruser' = u /\ rstored' = edge[u]
    /\ rpc' = "lookup"
    /\ UNCHANGED <<published, rfound, publishes, lookupFaults>>
    /\ UNCHANGED graphVars /\ UNCHANGED backoffVars /\ UNCHANGED ingVars

Lookup ==
    /\ rpc = "lookup"
    /\ rfound' = published[ruser]
    /\ rpc' = "apply"
    /\ UNCHANGED <<published, unresolved, ruser, rstored, publishes, lookupFaults>>
    /\ UNCHANGED graphVars /\ UNCHANGED backoffVars /\ UNCHANGED ingVars

(* The run goes on with its next user, or is over.                         *)
NextUser ==
    /\ rpc' = IF unresolved = {} THEN "idle" ELSE "next"
    /\ ruser' = None /\ rstored' = None /\ rfound' = None
    /\ UNCHANGED unresolved

AtMost(n, max) == IF n \in 0..max THEN n ELSE max

(* UnboundBackoff::record_unbound *)
RecordUnbound(u) ==
    LET w == AtMost(IF length[u] = 0 THEN InitialWait ELSE 2 * length[u], Ttl)
    IN  /\ wait' = [wait EXCEPT ![u] = w]
        /\ length' = [length EXCEPT ![u] = w]

(* UnboundBackoff::clear *)
ClearBackoff(u) ==
    /\ wait' = [wait EXCEPT ![u] = 0]
    /\ length' = [length EXCEPT ![u] = 0]

(* The query of set_user_homeserver: nothing without a node; an edge to    *)
(* another homeserver is replaced (a new edge carries no stale flag), one  *)
(* to the same homeserver is kept with its flag.                           *)
SetUserHomeserver(u, h) ==
    IF u \notin known THEN UNCHANGED <<edge, stale, fresh>>
    ELSE /\ edge' = [edge EXCEPT ![u] = h]
         /\ stale' = IF edge[u] = h THEN stale ELSE stale \ {u}
         /\ fresh' = fresh \cup {u}

(* The query of set_user_homeserver_stale: nothing without an edge.        *)
SetStale(u, flag) ==
    IF edge[u] = None THEN UNCHANGED <<edge, stale, fresh>>
    ELSE /\ stale' = IF flag THEN stale \cup {u} ELSE stale \ {u}
         /\ fresh' = fresh \cup {u}
         /\ UNCHANGED edge

(* Nothing stored and nothing published.                                   *)
ApplyUnbound ==
    /\ rpc = "apply" /\ rstored = None /\ rfound = None
    /\ RecordUnbound(ruser)
    /\ NextUser
    /\ UNCHANGED <<published, publishes, lookupFaults>>
    /\ UNCHANGED graphVars /\ UNCHANGED ingVars

(* Nothing stored: bind to the published homeserver.                       *)
ApplyBind ==
    /\ rpc = "apply" /\ rstored = None /\ rfound # None
    /\ SetUserHomeserver(ruser, rfound)
    /\ ClearBackoff(ruser)
    /\ NextUser
    /\ UNCHANGED <<published, known, seeded, publishes, lookupFaults>>
    /\ UNCHANGED ingVars

(* Faulty variant: an empty lookup leaves the flag as it is.               *)
DivergedOnOther(stored, found) == found # None /\ found # stored

(* The published homeserver is missing or is not the stored one.           *)
Diverged(stored, found) == found # stored

(* Bound: only the flag follows what is published.                         *)
ApplyToggle ==
    /\ rpc = "apply" /\ rstored # None
    /\ SetStale(ruser, Diverged(rstored, rfound))
    /\ ClearBackoff(ruser)
    /\ NextUser
    /\ UNCHANGED <<published, known, seeded, publishes, lookupFaults>>
    /\ UNCHANGED ingVars

(* The lookup or a graph query failed: the user is left alone this time.   *)
ResolveFails ==
    /\ rpc \in {"lookup", "apply"} /\ lookupFaults < MaxLookupFaults
    /\ lookupFaults' = lookupFaults + 1
    /\ NextUser
    /\ UNCHANGED <<published, publishes>>
    /\ UNCHANGED graphVars /\ UNCHANGED backoffVars /\ UNCHANGED ingVars

(* Shutdown cancels the resolution in flight; the backoff is in memory.    *)
ResolverStops ==
    /\ lookupFaults < MaxLookupFaults
    /\ lookupFaults' = lookupFaults + 1
    /\ rpc' = "idle" /\ unresolved' = {}
    /\ ruser' = None /\ rstored' = None /\ rfound' = None
    /\ wait' = [u \in Users |-> 0] /\ length' = [u \in Users |-> 0]
    /\ UNCHANGED <<published, publishes>>
    /\ UNCHANGED graphVars /\ UNCHANGED ingVars

-----------------------------------------------------------------------------
(* The ingestor: maybe_ingest_user, one step per store call.               *)

Release(i) ==
    /\ ipc' = [ipc EXCEPT ![i] = "idle"]
    /\ iuser' = [iuser EXCEPT ![i] = None]
    /\ ifound' = [ifound EXCEPT ![i] = None]

(* A reference to an unknown user.                                         *)
Meet(i, u) ==
    /\ ipc[i] = "idle" /\ u \notin known
    /\ ipc' = [ipc EXCEPT ![i] = "lookup"]
    /\ iuser' = [iuser EXCEPT ![i] = u]
    /\ UNCHANGED <<published, ifound, publishes, lookupFaults>>
    /\ UNCHANGED graphVars /\ UNCHANGED backoffVars /\ UNCHANGED resVars

(* resolve_unless_blacklisted: a published homeserver not on the blacklist.*)
MayIngest(h) == h # None /\ h \notin Blacklist

ResolveUnlessBlacklisted(i) ==
    /\ ipc[i] = "lookup"
    /\ IF MayIngest(published[iuser[i]])
       THEN /\ ifound' = [ifound EXCEPT ![i] = published[iuser[i]]]
            /\ ipc' = [ipc EXCEPT ![i] = "node"]
            /\ UNCHANGED iuser
       ELSE Release(i)
    /\ UNCHANGED <<published, publishes, lookupFaults>>
    /\ UNCHANGED graphVars /\ UNCHANGED backoffVars /\ UNCHANGED resVars

PutToGraph(i) ==
    /\ ipc[i] = "node"
    /\ known' = known \cup {iuser[i]}
    /\ ipc' = [ipc EXCEPT ![i] = "bind"]
    /\ UNCHANGED <<published, edge, stale, fresh, seeded, iuser, ifound,
                   publishes, lookupFaults>>
    /\ UNCHANGED backoffVars /\ UNCHANGED resVars

Bind(i) ==
    /\ ipc[i] = "bind"
    /\ SetUserHomeserver(iuser[i], ifound[i])
    /\ ipc' = [ipc EXCEPT ![i] = "seed"]
    /\ UNCHANGED <<published, known, seeded, iuser, ifound, publishes, lookupFaults>>
    /\ UNCHANGED backoffVars /\ UNCHANGED resVars

SeedCursor(i) ==
    /\ ipc[i] = "seed"
    /\ seeded' = seeded \cup {<<iuser[i], ifound[i]>>}
    /\ Release(i)
    /\ UNCHANGED <<published, known, edge, stale, fresh, publishes, lookupFaults>>
    /\ UNCHANGED backoffVars /\ UNCHANGED resVars

(* A store call failed or the process died between two of them.            *)
IngestFails(i) ==
    /\ ipc[i] # "idle" /\ lookupFaults < MaxLookupFaults
    /\ lookupFaults' = lookupFaults + 1
    /\ Release(i)
    /\ UNCHANGED <<published, publishes>>
    /\ UNCHANGED graphVars /\ UNCHANGED backoffVars /\ UNCHANGED resVars

-----------------------------------------------------------------------------
(* The users and the clock.                                                *)

PublishRecord(u) ==
    /\ publishes < MaxPublishes
    /\ publishes' = publishes + 1
    /\ \E h \in MaybeHs \ {published[u]} : published' = [published EXCEPT ![u] = h]
    /\ UNCHANGED lookupFaults
    /\ UNCHANGED graphVars /\ UNCHANGED backoffVars /\ UNCHANGED resVars
    /\ UNCHANGED ingVars

ResolverTick ==
    /\ \E u \in Users : wait[u] > 0
    /\ wait' = [u \in Users |-> IF wait[u] > 0 THEN wait[u] - 1 ELSE 0]
    /\ UNCHANGED <<published, length, publishes, lookupFaults>>
    /\ UNCHANGED graphVars /\ UNCHANGED resVars /\ UNCHANGED ingVars

(* resolved_at gets older than the TTL.                                    *)
Expire(u) ==
    /\ u \in fresh
    /\ fresh' = fresh \ {u}
    /\ UNCHANGED <<published, known, edge, stale, seeded, publishes, lookupFaults>>
    /\ UNCHANGED backoffVars /\ UNCHANGED resVars /\ UNCHANGED ingVars

ResolverStep ==
    \/ StartResolver \/ ReadMapping \/ Lookup
    \/ ApplyUnbound \/ ApplyBind \/ ApplyToggle

IngestorStep(i) ==
    ResolveUnlessBlacklisted(i) \/ PutToGraph(i) \/ Bind(i) \/ SeedCursor(i)

ResolverNext ==
    \/ ResolverStep \/ ResolveFails \/ ResolverStops
    \/ \E i \in Ingestors :
          \/ (\E u \in Users : Meet(i, u))
          \/ IngestorStep(i) \/ IngestFails(i)
    \/ \E u \in Users : PublishRecord(u) \/ Expire(u)
    \/ ResolverTick

ResolverSpec == ResolverInit /\ [][ResolverNext]_resolverVars

-----------------------------------------------------------------------------
(* Properties.                                                             *)

(* The mapping settles on what is published once the record stays as it    *)
(* is: a known user is bound, and its flag tells whether the record still  *)
(* names the bound homeserver, although lookups fail, waits double and     *)
(* ingestions are cut short.                                               *)
MappingSettles ==
    \A u \in Users : \A h \in MaybeHs :
        [](<>[](published[u] = h) /\ u \in known =>
              <>[](/\ h # None => edge[u] # None
                   /\ edge[u] # None => (u \in stale <=> edge[u] # h)))
=============================================================================

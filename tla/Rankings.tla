------------------------------ MODULE Rankings ------------------------------
(***************************************************************************)
(* The rankings kept in Redis: influencers and most followed users         *)
(* (models/user), hot tags (models/tag).  A request that finds no key      *)
(* rebuilds it from the graph, a job refreshes it on a schedule, users are *)
(* deleted and come back, the key is lost.  One ranking is one behaviour:  *)
(* family says which.                                                      *)
(*   allTime       paged scan, no expiry, an empty graph deletes the key   *)
(*   mostFollowed  the same, and the lock covers the rebuild only          *)
(*   timeframe     one query, expires, an empty answer keeps the old key   *)
(*   hotTags       two keys, no lock, expires, an empty answer keeps them  *)
(***************************************************************************)
EXTENDS FiniteSets, Integers

CONSTANTS
    Ranked,       \* users, or labels; numbers in the order of ids
    Changing,     \* those that come and go
    Askers,       \* requests at one time
    ScanPage,     \* users in a page of the scan (500)
    MaxRequests, MaxChanges,
    MaxLosses     \* losses of a key and failures of the graph

ASSUME RankingsAssumption ==
    /\ Ranked \subseteq Nat \ {0} /\ Changing \subseteq Ranked
    /\ Askers \subseteq Nat \ {0}
    /\ ScanPage \in Nat \ {0}
    /\ {MaxRequests, MaxChanges, MaxLosses} \subseteq Nat

VARIABLES
    family,
    graph,       \* [Ranked -> Nat]: the score in the graph, 0 for none
    indexed,     \* those whose details in the index are there and not deleted
    ranking,     \* [member -> score]; no member, no key
    samples,     \* hotTags: the labels the JSON key has taggers for
    holder,      \* the asker with the rebuild lock, or 0
    asker,       \* [Askers -> what a request is at]
    job,         \* what the refresh job is at
    asked, changes, losses,
    budget       \* history: the rebuilds that losses of the key account for

rankVars == <<family, graph, indexed, ranking, samples, holder, asker, job,
              asked, changes, losses, budget>>

Families == {"allTime", "mostFollowed", "timeframe", "hotTags"}
Locks(f)       == f # "hotTags"
HoldsToEnd(f)  == f \in {"allTime", "timeframe"}
Paged(f)       == f \in {"allTime", "mostFollowed"}
Filters(f)     == f # "hotTags"

(* Faulty variant: an empty answer of the graph never touches the key.     *)
KeepsAlways(f) == TRUE
KeepsOnEmpty(f) == f \in {"timeframe", "hotTags"}

NoRanking == [u \in {} |-> 0]
InGraph   == [u \in {u \in Ranked : graph[u] > 0} |-> graph[u]]
Idle      == [at |-> "idle", after |-> 0, got |-> NoRanking, found |-> {}, gone |-> {}]
Begun     == [Idle EXCEPT !.at = "scan"]   \* the job, from one run to the next

RankInit ==
    /\ family \in Families
    /\ graph \in [Ranked -> 0..1] /\ \A u \in Changing : graph[u] = 1
    /\ indexed = {u \in Ranked : graph[u] > 0}
    /\ ranking = NoRanking /\ samples = {}
    /\ holder = 0
    /\ asker = [a \in Askers |-> Idle] /\ job = Begun
    /\ asked = 0 /\ changes = 0 /\ losses = 0
    /\ budget = 1

(* A key that goes, and a rebuild that wrote nothing, allow for another.   *)
Account(n) ==
    budget' = budget + n + IF ranking # NoRanking /\ ranking' = NoRanking THEN 1 ELSE 0

-----------------------------------------------------------------------------
(* The watcher: a profile is written to the graph, then to the index.      *)
(* Labels have no details.                                                 *)
ChangeGraph(u, n) ==
    /\ changes < MaxChanges /\ graph[u] # n
    /\ Filters(family) => (u \in indexed <=> graph[u] > 0)
    /\ graph' = [graph EXCEPT ![u] = n]
    /\ changes' = changes + 1
    /\ UNCHANGED <<family, indexed, ranking, samples, holder, asker,
                   job, asked, losses, budget>>
ChangeDetails(u) ==
    /\ Filters(family) /\ ~(u \in indexed <=> graph[u] > 0)
    /\ indexed' = IF graph[u] > 0 THEN indexed \cup {u} ELSE indexed \ {u}
    /\ asker' = [a \in Askers |-> [asker[a] EXCEPT !.gone = @ \ indexed']]
    /\ UNCHANGED <<family, graph, ranking, samples, holder, job,
                   asked, changes, losses, budget>>

(* The key expires, or Redis loses it; the two keys of hotTags go apart.   *)
Lose ==
    /\ losses < MaxLosses
    /\ \/ ranking # NoRanking /\ ranking' = NoRanking /\ UNCHANGED samples
       \/ samples # {} /\ samples' = {} /\ UNCHANGED ranking
    /\ losses' = losses + 1
    /\ Account(0)
    /\ UNCHANGED <<family, graph, indexed, holder, asker, job, asked, changes>>

-----------------------------------------------------------------------------
(* Reading the graph and writing the key, for a request and for the job.   *)
(* s is the record of the one that does it.                                *)
PageOf(s) ==
    LET rest == {u \in Ranked : graph[u] > 0 /\ u > s.after}
    IN IF Paged(family)
       THEN {u \in rest : Cardinality({v \in rest : v < u}) < ScanPage} ELSE rest
Scanned(s) ==
    LET page == PageOf(s)
        got  == [u \in DOMAIN s.got \cup page |-> IF u \in page THEN graph[u] ELSE s.got[u]]
    IN IF Paged(family) /\ Cardinality(page) = ScanPage
       THEN [s EXCEPT !.got = got, !.after = CHOOSE u \in page : \A v \in page : v <= u]
       ELSE [s EXCEPT !.got = got, !.at = IF family = "hotTags" THEN "writeSamples" ELSE "write"]
WritesNothing(s) == s.got = NoRanking /\ KeepsOnEmpty(family)

(* write_all_time_ranking, write_most_followed_ranking and                 *)
(* write_or_preserve_cache: the set is replaced in one script.             *)
WriteRanking(s) == ranking' = IF WritesNothing(s) THEN ranking ELSE s.got
WriteSamples(s) == samples' = IF WritesNothing(s) THEN samples ELSE DOMAIN s.got

(* refresh, fetch_and_cache and refresh_most_followed as the job runs them.*)
JobScans ==
    /\ job.at = "scan"
    /\ job' = Scanned(job)
    /\ UNCHANGED <<family, graph, indexed, ranking, samples, holder, asker,
                   asked, changes, losses, budget>>
JobWrites ==
    /\ \/ job.at = "writeSamples" /\ WriteSamples(job) /\ UNCHANGED ranking
          /\ job' = [job EXCEPT !.at = "write"]
       \/ job.at = "write" /\ WriteRanking(job) /\ UNCHANGED samples
          /\ job' = Begun
    /\ Account(0)
    /\ UNCHANGED <<family, graph, indexed, holder, asker, asked, changes, losses>>
JobFails ==
    /\ job.at = "scan" /\ losses < MaxLosses
    /\ losses' = losses + 1
    /\ job' = Begun
    /\ UNCHANGED <<family, graph, indexed, ranking, samples, holder,
                   asker, asked, changes, budget>>

-----------------------------------------------------------------------------
(* A request: get_global_influencers, get_most_followed and                *)
(* get_global_hot_tags.                                                    *)
Missing == ranking = NoRanking \/ (family = "hotTags" /\ samples = {})
Found == IF family = "hotTags" THEN DOMAIN ranking \cap samples ELSE DOMAIN ranking
AfterRead(s) == [s EXCEPT !.found = Found, !.at = IF Filters(family) THEN "filter" ELSE "answer"]

(* The first read; gone are those deleted before it.                       *)
Ask(a) ==
    /\ asked < MaxRequests
    /\ asker[a].at = "idle" /\ \A b \in Askers : b < a => asker[b].at # "idle"   \* the first free
    /\ LET s == [Idle EXCEPT !.gone = Ranked \ indexed]
       IN asker' = [asker EXCEPT ![a] =
                       IF ~Missing THEN AfterRead(s)
                       ELSE [s EXCEPT !.at = IF Locks(family) THEN "queue" ELSE "scan"]]
    /\ asked' = asked + 1
    /\ UNCHANGED <<family, graph, indexed, ranking, samples, holder, job, changes,
                   losses, budget>>
Lock(a) ==
    /\ asker[a].at = "queue" /\ holder = 0
    /\ holder' = a
    /\ asker' = [asker EXCEPT ![a].at = "reread"]
    /\ UNCHANGED <<family, graph, indexed, ranking, samples, job,
                   asked, changes, losses, budget>>

(* The lock of get_most_followed ends with its block.                      *)
Unlock(a, ended) ==
    holder' = IF holder = a /\ (ended \/ ~HoldsToEnd(family)) THEN 0 ELSE holder

(* Faulty variant: the one who waited rebuilds without another look.       *)
RereadBlind(a) ==
    /\ asker[a].at = "reread"
    /\ asker' = [asker EXCEPT ![a].at = "scan"]
    /\ budget' = budget - 1
    /\ UNCHANGED <<family, graph, indexed, ranking, samples, holder,
                   job, asked, changes, losses>>

Reread(a) ==
    /\ asker[a].at = "reread"
    /\ \/ /\ Missing
          /\ asker' = [asker EXCEPT ![a].at = "scan"]
          /\ budget' = budget - 1 /\ UNCHANGED holder
       \/ /\ ~Missing
          /\ asker' = [asker EXCEPT ![a] = AfterRead(@)]
          /\ Unlock(a, FALSE) /\ UNCHANGED budget
    /\ UNCHANGED <<family, graph, indexed, ranking, samples, job, asked, changes, losses>>

Scan(a) ==
    /\ asker[a].at = "scan"
    /\ asker' = [asker EXCEPT ![a] = Scanned(@)]
    /\ UNCHANGED <<family, graph, indexed, ranking, samples, holder, job,
                   asked, changes, losses, budget>>
(* The graph fails: the request ends with an error, nothing is written.    *)
ScanFails(a) ==
    /\ asker[a].at = "scan" /\ losses < MaxLosses
    /\ losses' = losses + 1
    /\ asker' = [asker EXCEPT ![a] = Idle]
    /\ Unlock(a, TRUE)
    /\ budget' = budget + (IF Locks(family) THEN 1 ELSE 0)
    /\ UNCHANGED <<family, graph, indexed, ranking, samples, job, asked, changes>>
Write(a) ==
    /\ \/ /\ asker[a].at = "writeSamples" /\ WriteSamples(asker[a]) /\ UNCHANGED ranking
          /\ asker' = [asker EXCEPT ![a].at = "write"]
          /\ UNCHANGED budget
       \/ /\ asker[a].at = "write" /\ WriteRanking(asker[a]) /\ UNCHANGED samples
          /\ asker' = [asker EXCEPT ![a].at = "last", ![a].got = NoRanking]
          /\ Account(IF asker[a].got = NoRanking /\ ranking = NoRanking THEN 1 ELSE 0)
    /\ UNCHANGED <<family, graph, indexed, holder, job, asked, changes, losses>>
LastRead(a) ==
    /\ asker[a].at = "last"
    /\ asker' = [asker EXCEPT ![a] = IF Missing THEN [@ EXCEPT !.at = "answer"] ELSE AfterRead(@)]
    /\ Unlock(a, FALSE)
    /\ UNCHANGED <<family, graph, indexed, ranking, samples, job,
                   asked, changes, losses, budget>>

(* Faulty variant: whoever is in the ranking is served.                    *)
KeptAll(found) == found
Kept(found) == found \cap indexed

(* filter_deleted: those without live details are left out, and then       *)
(* removed from the ranking: got is reused for them.                       *)
Filter(a) ==
    /\ asker[a].at = "filter"
    /\ LET kept == Kept(asker[a].found)
           gone == asker[a].found \ kept
       IN asker' = [asker EXCEPT ![a].found = kept,
                                 ![a].got = [u \in gone |-> 0],
                                 ![a].at = IF gone = {} THEN "answer" ELSE "remove"]
    /\ UNCHANGED <<family, graph, indexed, ranking, samples, holder, job,
                   asked, changes, losses, budget>>
RemoveDeleted(a) ==
    /\ asker[a].at = "remove"
    /\ ranking' = [u \in DOMAIN ranking \ DOMAIN asker[a].got |-> ranking[u]]
    /\ asker' = [asker EXCEPT ![a].at = "answer", ![a].got = NoRanking]
    /\ Account(0)
    /\ UNCHANGED <<family, graph, indexed, samples, holder, job, asked, changes, losses>>
Answer(a) ==
    /\ asker[a].at = "answer"
    /\ asker' = [asker EXCEPT ![a] = Idle]
    /\ Unlock(a, TRUE)
    /\ UNCHANGED <<family, graph, indexed, ranking, samples, job,
                   asked, changes, losses, budget>>

RankStep(a) ==
    \/ Lock(a) \/ Reread(a) \/ Scan(a) \/ ScanFails(a) \/ Write(a)
    \/ LastRead(a) \/ Filter(a) \/ RemoveDeleted(a) \/ Answer(a)
JobStep == JobScans \/ JobWrites \/ JobFails
RankNext ==
    \/ \E u \in Changing, n \in 0..1 : ChangeGraph(u, n)
    \/ \E u \in Ranked : ChangeDetails(u)
    \/ Lose
    \/ JobStep
    \/ \E a \in Askers : Ask(a) \/ RankStep(a)

RankSpec == RankInit /\ [][RankNext]_rankVars

-----------------------------------------------------------------------------
(* Requests that miss together share one rebuild: get_global_influencers   *)
(* and get_most_followed rebuild no more often than the key was lost (or   *)
(* emptied), but for rebuilds that had nothing to write.                   *)
RebuildOncePerLoss == Locks(family) => budget >= 0

(* Whoever was deleted before a request began, and still is, is not in its *)
(* answer, however old the ranking it was taken from.                      *)
DeletedNotServed ==
    \A a \in Askers : asker[a].at = "answer" => asker[a].found \cap asker[a].gone = {}

(* Once the graph is left alone the key becomes and stays what it says:    *)
(* neither a scan that began earlier nor a removal that was decided on     *)
(* earlier is the last word.  A cache that an empty answer leaves          *)
(* untouched is left to expire.                                            *)
RankingCatchesUp ==
    <>[](\/ ranking = InGraph /\ (family = "hotTags" => samples = DOMAIN InGraph)
         \/ InGraph = NoRanking /\ family \in {"timeframe", "hotTags"})
=============================================================================

---------------------------- MODULE StoresProofs ----------------------------
(***************************************************************************)
(* Proofs about the cached rankings, for any users, any number of requests *)
(* at one time and any size of the scan's page: requests that miss         *)
(* together share a rebuild, and nobody deleted before a request is served *)
(* by it.  And about the trust filter for any authors, any rankings, any   *)
(* number of switches, posts and runs cut short, when no start of the      *)
(* watcher falls into a publish of the trust job: posts out of the shared  *)
(* sets are always flagged, and a run that ends well leaves them in line.  *)
(* And about the retry queue for any sets of URIs and replicas and any     *)
(* limits: its types, that stored state stays reachable through the sorted *)
(* set, and that no interleaving of enqueues and replicas loses the newest *)
(* event or brings a settled one back.                                     *)
(***************************************************************************)
EXTENDS Rankings, TrustFilter, RetryQueue, TLAPS

-----------------------------------------------------------------------------
(* The rankings.                                                           *)
Points == {"idle", "queue", "reread", "scan", "writeSamples", "write", "last", "filter", "remove",
           "answer"}

\* What a request or the job keeps is a record of these five fields.
IsRequest(s) ==
    s = [at |-> s.at, after |-> s.after, got |-> s.got, found |-> s.found, gone |-> s.gone]

RankTypeOK ==
    /\ family \in Families
    /\ graph \in [Ranked -> 0..1]
    /\ indexed \subseteq Ranked
    /\ holder \in Askers \cup {0}
    /\ asker = [a \in Askers |-> asker[a]]
    /\ \A a \in Askers : IsRequest(asker[a]) /\ asker[a].at \in Points
    /\ IsRequest(job) /\ job.at \in {"scan", "writeSamples", "write"}
    /\ budget \in Int

\* A request that rebuilds, or is about to look whether it must, has the lock.
LockedInv ==
    Locks(family) =>
      \A a \in Askers : /\ asker[a].at \in {"reread", "scan", "write", "last"} => holder = a
                        /\ asker[a].at # "writeSamples"

\* A missing key that nobody is rebuilding has a rebuild left to its account.
BudgetInv ==
    Locks(family) =>
      /\ budget >= 0
      /\ ranking = NoRanking /\ (\A a \in Askers : asker[a].at \notin {"scan", "write"}) => budget >= 1

\* Labels have no details: whatever was ever counted in the graph is live.
LiveInv ==
    ~Filters(family) =>
      /\ Changing \subseteq indexed
      /\ \A u \in Ranked : graph[u] > 0 => u \in indexed
      /\ DOMAIN ranking \subseteq indexed /\ DOMAIN job.got \subseteq indexed
      /\ \A a \in Askers : asker[a].at # "filter" /\ DOMAIN asker[a].got \subseteq indexed

\* A request has found nobody before its read, and after the filter nobody
\* who was gone when it began.
ServedInv ==
    \A a \in Askers :
      /\ asker[a].gone \cap indexed = {}
      /\ asker[a].at \in {"answer", "remove"} => asker[a].found \cap asker[a].gone = {}
      /\ asker[a].at \notin {"answer", "remove", "filter"} => asker[a].found = {}

RankInv == RankTypeOK /\ LockedInv /\ BudgetInv /\ LiveInv /\ ServedInv

-----------------------------------------------------------------------------
(* How a step moves a request.                                             *)

\* A step of request a alone, which keeps every request a record.
Moves(a) ==
    /\ asker' = [b \in Askers |-> asker'[b]]
    /\ \A b \in Askers : IsRequest(asker'[b]) /\ asker'[b].at \in Points
    /\ \A b \in Askers : b # a => asker'[b] = asker[b]

LEMMA Moved ==
    ASSUME RankTypeOK, NEW a \in Askers, NEW r, IsRequest(r), r.at \in Points,
           asker' = [asker EXCEPT ![a] = r]
    PROVE  Moves(a) /\ asker'[a] = r
  <1>1. asker' = [b \in Askers |-> IF b = a THEN r ELSE asker[b]]
    BY DEF RankTypeOK
  <1>2. asker'[a] = r /\ \A b \in Askers : b # a => asker'[b] = asker[b]
    BY <1>1
  <1>3. \A b \in Askers : IsRequest(asker'[b]) /\ asker'[b].at \in Points
    <2> SUFFICES ASSUME NEW b \in Askers PROVE IsRequest(asker'[b]) /\ asker'[b].at \in Points
      OBVIOUS
    <2>1. CASE b = a
      BY <1>2, <2>1
    <2>2. CASE b # a
      BY <1>2, <2>2 DEF RankTypeOK
    <2> QED
      BY <2>1, <2>2
  <1>4. asker' = [b \in Askers |-> asker'[b]]
    BY <1>1
  <1> QED
    BY <1>2, <1>3, <1>4 DEF Moves

(* The record an update of several fields makes.                           *)
LEMMA Updated ==
    ASSUME NEW s, IsRequest(s), NEW t, NEW g
    PROVE  [s EXCEPT !.at = t, !.got = g]
             = [at |-> t, after |-> s.after, got |-> g, found |-> s.found, gone |-> s.gone]
  <1>1. PICK r : r = [s EXCEPT !.at = t]
    OBVIOUS
  <1>2. r = [at |-> t, after |-> s.after, got |-> s.got, found |-> s.found, gone |-> s.gone]
    BY <1>1 DEF IsRequest
  <1>3. [r EXCEPT !.got = g]
          = [at |-> t, after |-> s.after, got |-> g, found |-> s.found, gone |-> s.gone]
    BY <1>2
  <1> QED
    BY <1>1, <1>3

LEMMA Filtered ==
    ASSUME NEW s, IsRequest(s), NEW t, NEW g, NEW f
    PROVE  [s EXCEPT !.found = f, !.got = g, !.at = t]
             = [at |-> t, after |-> s.after, got |-> g, found |-> f, gone |-> s.gone]
  <1>1. PICK r : r = [s EXCEPT !.found = f, !.got = g]
    OBVIOUS
  <1>2. r = [at |-> s.at, after |-> s.after, got |-> g, found |-> f, gone |-> s.gone]
    BY <1>1 DEF IsRequest
  <1>3. [r EXCEPT !.at = t] = [at |-> t, after |-> s.after, got |-> g, found |-> f, gone |-> s.gone]
    BY <1>2
  <1> QED
    BY <1>1, <1>3

LEMMA IdleIsRequest == IsRequest(Idle) /\ Idle.at \in Points /\ Idle.found = {} /\ Idle.gone = {}
                       /\ Idle.got = NoRanking /\ Idle.at = "idle"
  BY DEF Idle, IsRequest, Points

LEMMA BegunIsRequest == IsRequest(Begun) /\ Begun.at = "scan" /\ Begun.got = NoRanking
  BY DEF Begun, Idle, IsRequest

LEMMA NoRankingIsEmpty == DOMAIN NoRanking = {}
  BY DEF NoRanking

(* What a scan step returns: only the page that was read is added, and a   *)
(* scan that ends goes on to the write.                                    *)
LEMMA ScannedFacts ==
    ASSUME NEW s, IsRequest(s)
    PROVE  /\ IsRequest(Scanned(s))
           /\ Scanned(s).found = s.found /\ Scanned(s).gone = s.gone
           /\ \/ Scanned(s).at = s.at
              \/ Scanned(s).at = "write" /\ family # "hotTags"
              \/ Scanned(s).at = "writeSamples" /\ family = "hotTags"
           /\ DOMAIN Scanned(s).got \subseteq DOMAIN s.got \cup {u \in Ranked : graph[u] > 0}
  <1> DEFINE page == PageOf(s)
             got  == [u \in DOMAIN s.got \cup page |-> IF u \in page THEN graph[u] ELSE s.got[u]]
             next == CHOOSE u \in page : \A v \in page : v <= u
  <1>1. page \subseteq {u \in Ranked : graph[u] > 0}
    BY DEF PageOf
  <1>2. DOMAIN got \subseteq DOMAIN s.got \cup {u \in Ranked : graph[u] > 0}
    BY <1>1
  <1>3. Scanned(s) = IF Paged(family) /\ Cardinality(page) = ScanPage
                     THEN [s EXCEPT !.got = got, !.after = next]
                     ELSE [s EXCEPT !.got = got, !.at = IF family = "hotTags" THEN "writeSamples"
                                                        ELSE "write"]
    BY DEF Scanned
  <1> HIDE DEF got, next, page
  <1>4. CASE Paged(family) /\ Cardinality(page) = ScanPage
    <2>1. Scanned(s) = [at |-> s.at, after |-> next, got |-> got, found |-> s.found, gone |-> s.gone]
      BY <1>3, <1>4 DEF IsRequest
    <2> QED
      BY <1>2, <2>1 DEF IsRequest
  <1>5. CASE ~(Paged(family) /\ Cardinality(page) = ScanPage)
    <2>1. Scanned(s) = [at |-> IF family = "hotTags" THEN "writeSamples" ELSE "write",
                        after |-> s.after, got |-> got, found |-> s.found, gone |-> s.gone]
      BY <1>3, <1>5 DEF IsRequest
    <2> QED
      BY <1>2, <2>1 DEF IsRequest
  <1> QED
    BY <1>4, <1>5

LEMMA AfterReadFacts ==
    ASSUME NEW s, IsRequest(s)
    PROVE  /\ IsRequest(AfterRead(s)) /\ AfterRead(s).found = Found
           /\ AfterRead(s).gone = s.gone /\ AfterRead(s).got = s.got
           /\ AfterRead(s).at = IF Filters(family) THEN "filter" ELSE "answer"
  <1> DEFINE f == Found
             t == IF Filters(family) THEN "filter" ELSE "answer"
  <1>1. AfterRead(s) = [s EXCEPT !.found = f, !.at = t]
    BY DEF AfterRead
  <1> HIDE DEF f, t
  <1>2. AfterRead(s) = [at |-> t, after |-> s.after, got |-> s.got, found |-> f, gone |-> s.gone]
    BY <1>1 DEF IsRequest
  <1>3. /\ IsRequest(AfterRead(s)) /\ AfterRead(s).found = f
        /\ AfterRead(s).gone = s.gone /\ AfterRead(s).got = s.got /\ AfterRead(s).at = t
    BY <1>2 DEF IsRequest
  <1> QED
    BY <1>3 DEF f, t

LEMMA AskMoves ==
    ASSUME RankTypeOK, NEW a \in Askers, Ask(a)
    PROVE  /\ Moves(a) /\ asker'[a].gone = Ranked \ indexed /\ asker'[a].got = NoRanking
           /\ \/ ~Missing /\ Filters(family) /\ asker'[a].at = "filter"
              \/ ~Missing /\ ~Filters(family) /\ asker'[a].at = "answer" /\ asker'[a].found = Found
              \/ Missing /\ Locks(family) /\ asker'[a].at = "queue" /\ asker'[a].found = {}
              \/ Missing /\ ~Locks(family) /\ asker'[a].at = "scan" /\ asker'[a].found = {}
  <1> DEFINE s == [Idle EXCEPT !.gone = Ranked \ indexed]
             t == IF Locks(family) THEN "queue" ELSE "scan"
  <1>1. IsRequest(s) /\ s.gone = Ranked \ indexed /\ s.got = NoRanking /\ s.found = {}
    BY DEF Idle, IsRequest
  <1>2. asker' = [asker EXCEPT ![a] = IF ~Missing THEN AfterRead(s) ELSE [s EXCEPT !.at = t]]
    BY DEF Ask
  <1> HIDE DEF s, t
  <1>3. CASE ~Missing
    <2>1. AfterRead(s).at \in Points
      BY <1>1, AfterReadFacts DEF Points
    <2>2. Moves(a) /\ asker'[a] = AfterRead(s)
      BY <1>1, <1>2, <1>3, <2>1, AfterReadFacts, Moved
    <2> QED
      BY <1>1, <1>3, <2>2, AfterReadFacts
  <1>4. CASE Missing
    <2>1. [s EXCEPT !.at = t]
            = [at |-> t, after |-> s.after, got |-> s.got, found |-> s.found, gone |-> s.gone]
      BY <1>1 DEF IsRequest
    <2>2. t \in Points
      BY DEF Points, t
    <2>3. IsRequest([s EXCEPT !.at = t]) /\ [s EXCEPT !.at = t].at \in Points
      BY <2>1, <2>2 DEF IsRequest
    <2>4. Moves(a) /\ asker'[a] = [s EXCEPT !.at = t]
      BY <1>2, <1>4, <2>3, Moved
    <2>5. /\ asker'[a].at = t /\ asker'[a].found = s.found /\ asker'[a].gone = s.gone
          /\ asker'[a].got = s.got
      BY <2>1, <2>4
    <2> QED
      BY <1>1, <1>4, <2>4, <2>5 DEF t
  <1> QED
    BY <1>3, <1>4

(* A request that only goes on to another point.                           *)
LEMMA GoesTo ==
    ASSUME RankTypeOK, NEW a \in Askers, NEW t \in Points, asker' = [asker EXCEPT ![a].at = t]
    PROVE  /\ Moves(a) /\ asker'[a].at = t /\ asker'[a].found = asker[a].found
           /\ asker'[a].gone = asker[a].gone /\ asker'[a].got = asker[a].got
  <1> DEFINE s == asker[a]
             r == [at |-> t, after |-> s.after, got |-> s.got, found |-> s.found, gone |-> s.gone]
  <1>1. IsRequest(s)
    BY DEF RankTypeOK
  <1>2. [s EXCEPT !.at = t] = r
    BY <1>1 DEF IsRequest
  <1>3. asker' = [asker EXCEPT ![a] = r]
    BY <1>2
  <1>4. IsRequest(r) /\ r.at \in Points
    BY DEF IsRequest
  <1>5. Moves(a) /\ asker'[a] = r
    BY <1>3, <1>4, Moved
  <1> QED
    BY <1>5

LEMMA RereadMoves ==
    ASSUME RankTypeOK, NEW a \in Askers, Reread(a)
    PROVE  /\ Moves(a) /\ asker'[a].gone = asker[a].gone /\ asker'[a].got = asker[a].got
           /\ \/ /\ Missing /\ asker'[a].at = "scan" /\ asker'[a].found = asker[a].found
                 /\ budget' = budget - 1 /\ UNCHANGED holder
              \/ /\ ~Missing /\ Unlock(a, FALSE) /\ UNCHANGED budget /\ asker'[a].found = Found
                 /\ asker'[a].at = IF Filters(family) THEN "filter" ELSE "answer"
  <1>1. CASE Missing
    BY <1>1, GoesTo DEF Reread, Points
  <1>2. CASE ~Missing
    <2>1. asker' = [asker EXCEPT ![a] = AfterRead(asker[a])] /\ Unlock(a, FALSE) /\ UNCHANGED budget
      BY <1>2 DEF Reread
    <2>2. IsRequest(asker[a])
      BY DEF RankTypeOK
    <2>3. IsRequest(AfterRead(asker[a])) /\ AfterRead(asker[a]).at \in Points
      BY <2>2, AfterReadFacts DEF Points
    <2>4. Moves(a) /\ asker'[a] = AfterRead(asker[a])
      BY <2>1, <2>3, Moved
    <2> QED
      BY <1>2, <2>1, <2>2, <2>4, AfterReadFacts
  <1> QED
    BY <1>1, <1>2

LEMMA ScanMoves ==
    ASSUME RankTypeOK, NEW a \in Askers, Scan(a)
    PROVE  /\ Moves(a) /\ asker'[a].gone = asker[a].gone /\ asker'[a].found = asker[a].found
           /\ \/ asker'[a].at = "scan"
              \/ asker'[a].at = "write" /\ family # "hotTags"
              \/ asker'[a].at = "writeSamples" /\ family = "hotTags"
           /\ DOMAIN asker'[a].got \subseteq DOMAIN asker[a].got \cup {u \in Ranked : graph[u] > 0}
  <1>1. asker' = [asker EXCEPT ![a] = Scanned(asker[a])] /\ asker[a].at = "scan"
    BY DEF Scan
  <1>2. IsRequest(asker[a])
    BY DEF RankTypeOK
  <1>3. IsRequest(Scanned(asker[a])) /\ Scanned(asker[a]).at \in Points
    BY <1>1, <1>2, ScannedFacts DEF Points
  <1>4. Moves(a) /\ asker'[a] = Scanned(asker[a])
    BY <1>1, <1>3, Moved
  <1> QED
    BY <1>1, <1>2, <1>4, ScannedFacts

(* A request that ends, with an answer or with an error.                   *)
LEMMA EndMoves ==
    ASSUME RankTypeOK, NEW a \in Askers, asker' = [asker EXCEPT ![a] = Idle]
    PROVE  /\ Moves(a) /\ asker'[a].at = "idle" /\ asker'[a].found = {} /\ asker'[a].gone = {}
           /\ asker'[a].got = NoRanking
  BY IdleIsRequest, Moved

LEMMA WriteMoves ==
    ASSUME RankTypeOK, NEW a \in Askers, Write(a)
    PROVE  /\ Moves(a) /\ asker'[a].gone = asker[a].gone /\ asker'[a].found = asker[a].found
           /\ \/ /\ asker[a].at = "writeSamples" /\ asker'[a].at = "write"
                 /\ asker'[a].got = asker[a].got /\ UNCHANGED <<ranking, budget>>
              \/ /\ asker[a].at = "write" /\ asker'[a].at = "last" /\ asker'[a].got = NoRanking
                 /\ WriteRanking(asker[a])
                 /\ Account(IF asker[a].got = NoRanking /\ ranking = NoRanking THEN 1 ELSE 0)
  <1> DEFINE s == asker[a]
  <1>1. CASE asker[a].at = "writeSamples"
    BY <1>1, GoesTo DEF Write, Points
  <1>2. CASE asker[a].at = "write"
    <2> DEFINE r == [at |-> "last", after |-> s.after, got |-> NoRanking, found |-> s.found,
                     gone |-> s.gone]
    <2>1. /\ asker' = [asker EXCEPT ![a].at = "last", ![a].got = NoRanking] /\ WriteRanking(asker[a])
          /\ Account(IF asker[a].got = NoRanking /\ ranking = NoRanking THEN 1 ELSE 0)
      BY <1>2 DEF Write
    <2>2. IsRequest(s)
      BY DEF RankTypeOK
    <2>3. [s EXCEPT !.at = "last", !.got = NoRanking] = r
      BY <2>2, Updated
    <2>4. asker' = [asker EXCEPT ![a] = r]
      BY <2>1, <2>3
    <2>5. IsRequest(r) /\ r.at \in Points
      BY DEF IsRequest, Points
    <2>6. Moves(a) /\ asker'[a] = r
      BY <2>4, <2>5, Moved
    <2> QED
      BY <1>2, <2>1, <2>6
  <1> QED
    BY <1>1, <1>2 DEF Write

LEMMA LastReadMoves ==
    ASSUME RankTypeOK, NEW a \in Askers, LastRead(a)
    PROVE  /\ Moves(a) /\ asker'[a].gone = asker[a].gone /\ asker'[a].got = asker[a].got
           /\ \/ asker'[a].at = "answer" /\ asker'[a].found = asker[a].found
              \/ /\ asker'[a].found = Found
                 /\ asker'[a].at = IF Filters(family) THEN "filter" ELSE "answer"
  <1>1. CASE Missing
    BY <1>1, GoesTo DEF LastRead, Points
  <1>2. CASE ~Missing
    <2>1. asker' = [asker EXCEPT ![a] = AfterRead(asker[a])]
      BY <1>2 DEF LastRead
    <2>2. IsRequest(asker[a])
      BY DEF RankTypeOK
    <2>3. IsRequest(AfterRead(asker[a])) /\ AfterRead(asker[a]).at \in Points
      BY <2>2, AfterReadFacts DEF Points
    <2>4. Moves(a) /\ asker'[a] = AfterRead(asker[a])
      BY <2>1, <2>3, Moved
    <2> QED
      BY <2>2, <2>4, AfterReadFacts
  <1> QED
    BY <1>1, <1>2

LEMMA FilterMoves ==
    ASSUME RankTypeOK, NEW a \in Askers, Filter(a)
    PROVE  /\ Moves(a) /\ asker'[a].gone = asker[a].gone
           /\ asker'[a].found = asker[a].found \cap indexed
           /\ asker'[a].at \in {"answer", "remove"}
  <1> DEFINE s == asker[a]
             kept == Kept(s.found)
             got == [u \in s.found \ kept |-> 0]
             t == IF s.found \ kept = {} THEN "answer" ELSE "remove"
             r == [at |-> t, after |-> s.after, got |-> got, found |-> kept, gone |-> s.gone]
  <1>1. IsRequest(s)
    BY DEF RankTypeOK
  <1>2. asker' = [asker EXCEPT ![a] = [s EXCEPT !.found = kept, !.got = got, !.at = t]]
    BY DEF Filter
  <1>3. kept = s.found \cap indexed /\ t \in {"answer", "remove"}
    BY DEF Kept
  <1> HIDE DEF kept, got, t, s
  <1>4. [s EXCEPT !.found = kept, !.got = got, !.at = t] = r
    BY <1>1, Filtered
  <1>5. IsRequest(r) /\ r.at \in Points
    BY <1>3 DEF IsRequest, Points
  <1>6. Moves(a) /\ asker'[a] = r
    BY <1>2, <1>4, <1>5, Moved
  <1> QED
    BY <1>3, <1>6 DEF s

LEMMA RemoveMoves ==
    ASSUME RankTypeOK, NEW a \in Askers, RemoveDeleted(a)
    PROVE  /\ Moves(a) /\ asker'[a].gone = asker[a].gone /\ asker'[a].found = asker[a].found
           /\ asker'[a].at = "answer" /\ asker'[a].got = NoRanking
  <1> DEFINE s == asker[a]
             r == [at |-> "answer", after |-> s.after, got |-> NoRanking, found |-> s.found,
                   gone |-> s.gone]
  <1>1. IsRequest(s) /\ asker' = [asker EXCEPT ![a].at = "answer", ![a].got = NoRanking]
    BY DEF RankTypeOK, RemoveDeleted
  <1>2. [s EXCEPT !.at = "answer", !.got = NoRanking] = r
    BY <1>1, Updated
  <1>3. IsRequest(r) /\ r.at \in Points
    BY DEF IsRequest, Points
  <1>4. asker' = [asker EXCEPT ![a] = r]
    BY <1>1, <1>2
  <1>5. Moves(a) /\ asker'[a] = r
    BY <1>3, <1>4, Moved
  <1> QED
    BY <1>5

(* A step of the watcher, of the job or of Redis leaves every request      *)
(* where it is; a user who comes back is no longer gone for anybody.       *)
LEMMA OthersStep ==
    ASSUME RankTypeOK,
           \/ \E u \in Changing, n \in 0..1 : ChangeGraph(u, n)
           \/ \E u \in Ranked : ChangeDetails(u)
           \/ Lose \/ JobStep \/ UNCHANGED rankVars
    PROVE  /\ asker' = [b \in Askers |-> asker'[b]] /\ UNCHANGED <<family, holder>>
           /\ \A b \in Askers : /\ IsRequest(asker'[b]) /\ asker'[b].at = asker[b].at
                                /\ asker'[b].found = asker[b].found /\ asker'[b].got = asker[b].got
           /\ \/ \A b \in Askers : asker'[b].gone = asker[b].gone \ indexed'
              \/ \A b \in Askers : asker'[b] = asker[b] /\ UNCHANGED indexed
  <1>1. ASSUME NEW u \in Ranked, ChangeDetails(u)
        PROVE  /\ asker' = [b \in Askers |-> asker'[b]] /\ UNCHANGED <<family, holder>>
               /\ \A b \in Askers : /\ IsRequest(asker'[b]) /\ asker'[b].at = asker[b].at
                                    /\ asker'[b].found = asker[b].found /\ asker'[b].got = asker[b].got
                                    /\ asker'[b].gone = asker[b].gone \ indexed'
    <2> DEFINE g(b) == asker[b].gone \ indexed'
    <2>1. asker' = [b \in Askers |-> [asker[b] EXCEPT !.gone = g(b)]]
      BY <1>1 DEF ChangeDetails
    <2>2. ASSUME NEW s, IsRequest(s), NEW n
          PROVE  [s EXCEPT !.gone = n]
                   = [at |-> s.at, after |-> s.after, got |-> s.got, found |-> s.found, gone |-> n]
      BY <2>2 DEF IsRequest
    <2>3. ASSUME NEW b \in Askers
          PROVE  /\ IsRequest(asker'[b]) /\ asker'[b].at = asker[b].at
                 /\ asker'[b].found = asker[b].found /\ asker'[b].got = asker[b].got
                 /\ asker'[b].gone = g(b)
      <3> HIDE DEF g
      <3>1. IsRequest(asker[b]) /\ asker'[b] = [asker[b] EXCEPT !.gone = g(b)]
        BY <2>1 DEF RankTypeOK
      <3>2. PICK s : s = asker[b]
        OBVIOUS
      <3>3. asker'[b] = [at |-> s.at, after |-> s.after, got |-> s.got, found |-> s.found, gone |-> g(b)]
        BY <2>2, <3>1, <3>2
      <3> QED
        BY <3>2, <3>3 DEF IsRequest
    <2>4. asker' = [b \in Askers |-> asker'[b]]
      BY <2>1
    <2> QED
      BY <1>1, <2>3, <2>4 DEF ChangeDetails
  <1>2. ASSUME asker' = asker, UNCHANGED <<family, holder, indexed>>
        PROVE  /\ asker' = [b \in Askers |-> asker'[b]] /\ UNCHANGED <<family, holder>>
               /\ \A b \in Askers : /\ IsRequest(asker'[b]) /\ asker'[b].at = asker[b].at
                                    /\ asker'[b].found = asker[b].found /\ asker'[b].got = asker[b].got
               /\ \A b \in Askers : asker'[b] = asker[b] /\ UNCHANGED indexed
    BY <1>2 DEF RankTypeOK
  <1>3. (\E u \in Changing, n \in 0..1 : ChangeGraph(u, n)) \/ Lose \/ JobStep \/ UNCHANGED rankVars
        => asker' = asker /\ UNCHANGED <<family, holder, indexed>>
    BY DEF ChangeGraph, Lose, JobStep, JobScans, JobWrites, JobFails, rankVars
  <1> QED
    BY <1>1, <1>2, <1>3

(* The job's record.                                                       *)
LEMMA JobMoves ==
    ASSUME RankTypeOK, JobStep
    PROVE  /\ IsRequest(job') /\ job'.at \in {"scan", "writeSamples", "write"}
           /\ DOMAIN job'.got \subseteq DOMAIN job.got \cup {u \in Ranked : graph[u] > 0}
           /\ UNCHANGED <<family, graph, indexed, holder, asker>>
           /\ \/ ranking' = ranking \/ ranking' = job.got
           /\ ranking' = ranking => budget' = budget
           /\ ranking' # ranking => Account(0)
  <1>1. IsRequest(job) /\ job.at \in {"scan", "writeSamples", "write"} /\ budget \in Int
    BY DEF RankTypeOK
  <1>2. CASE JobScans
    <2>1. job' = Scanned(job)
      BY <1>2 DEF JobScans
    <2> QED
      BY <1>1, <1>2, <2>1, ScannedFacts DEF JobScans
  <1>3. CASE JobWrites
    <2>1. CASE job.at = "writeSamples"
      <3>1. PICK s : s = job
        OBVIOUS
      <3>2. [s EXCEPT !.at = "write"] = [at |-> "write", after |-> s.after, got |-> s.got,
                                         found |-> s.found, gone |-> s.gone]
        BY <1>1, <3>1 DEF IsRequest
      <3>3. job' = [at |-> "write", after |-> s.after, got |-> s.got, found |-> s.found, gone |-> s.gone]
        BY <1>3, <2>1, <3>1, <3>2 DEF JobWrites
      <3>4. ranking' = ranking /\ Account(0) /\ UNCHANGED <<family, graph, indexed, holder, asker>>
        BY <1>3, <2>1 DEF JobWrites
      <3>5. budget' = budget
        BY <1>1, <3>4 DEF Account
      <3> QED
        BY <3>1, <3>3, <3>4, <3>5 DEF IsRequest
    <2>2. CASE job.at = "write"
      <3>1. /\ job' = Begun /\ WriteRanking(job) /\ Account(0)
            /\ UNCHANGED <<family, graph, indexed, holder, asker>>
        BY <1>3, <2>2 DEF JobWrites
      <3>2. ranking' = ranking \/ ranking' = job.got
        BY <3>1 DEF WriteRanking
      <3>3. ranking' = ranking => budget' = budget
        BY <1>1, <3>1 DEF Account
      <3> QED
        BY <3>1, <3>2, <3>3, BegunIsRequest, NoRankingIsEmpty
    <2> QED
      BY <1>3, <2>1, <2>2 DEF JobWrites
  <1>4. CASE JobFails
    BY <1>4, BegunIsRequest, NoRankingIsEmpty DEF JobFails
  <1> QED
    BY <1>2, <1>3, <1>4 DEF JobStep

(* Every step of a request moves that request alone.                       *)
LEMMA RequestStep ==
    ASSUME RankTypeOK, NEW a \in Askers, Ask(a) \/ RankStep(a)
    PROVE  Moves(a) /\ UNCHANGED <<family, graph, indexed, job>>
  <1>1. CASE Ask(a)
    BY <1>1, AskMoves DEF Ask
  <1>2. CASE Lock(a)
    BY <1>2, GoesTo DEF Lock, Points
  <1>3. CASE Reread(a)
    BY <1>3, RereadMoves DEF Reread
  <1>4. CASE Scan(a)
    BY <1>4, ScanMoves DEF Scan
  <1>5. CASE ScanFails(a)
    BY <1>5, EndMoves DEF ScanFails
  <1>6. CASE Write(a)
    BY <1>6, WriteMoves DEF Write
  <1>7. CASE LastRead(a)
    BY <1>7, LastReadMoves DEF LastRead
  <1>8. CASE Filter(a)
    BY <1>8, FilterMoves DEF Filter
  <1>9. CASE RemoveDeleted(a)
    BY <1>9, RemoveMoves DEF RemoveDeleted
  <1>10. CASE Answer(a)
    BY <1>10, EndMoves DEF Answer
  <1> QED
    BY <1>1, <1>2, <1>3, <1>4, <1>5, <1>6, <1>7, <1>8, <1>9, <1>10 DEF RankStep

(* The lock and the account after a request's step.                        *)
LEMMA RequestStepType ==
    ASSUME RankTypeOK, NEW a \in Askers, Ask(a) \/ RankStep(a)
    PROVE  holder' \in Askers \cup {0} /\ budget' \in Int
  <1>1. holder \in Askers \cup {0} /\ budget \in Int
    BY DEF RankTypeOK
  <1>2. CASE Ask(a) \/ Lock(a) \/ Scan(a) \/ Filter(a)
    BY <1>1, <1>2 DEF Ask, Lock, Scan, Filter
  <1>3. CASE Reread(a)
    BY <1>1, <1>3 DEF Reread, Unlock
  <1>4. CASE ScanFails(a)
    <2>1. holder' \in Askers \cup {0}
      BY <1>1, <1>4 DEF ScanFails, Unlock
    <2>2. budget' \in Int
      BY <1>1, <1>4 DEF ScanFails
    <2> QED
      BY <2>1, <2>2
  <1>5. CASE Write(a)
    BY <1>1, <1>5 DEF Write, Account
  <1>6. CASE LastRead(a)
    BY <1>1, <1>6 DEF LastRead, Unlock
  <1>7. CASE RemoveDeleted(a)
    BY <1>1, <1>7 DEF RemoveDeleted, Account
  <1>8. CASE Answer(a)
    BY <1>1, <1>8 DEF Answer, Unlock
  <1> QED
    BY <1>2, <1>3, <1>4, <1>5, <1>6, <1>7, <1>8 DEF RankStep

LEMMA RankTypeStep ==
    ASSUME RankTypeOK, [RankNext]_rankVars
    PROVE  RankTypeOK'
  <1>1. ASSUME NEW u \in Changing, NEW n \in 0..1, ChangeGraph(u, n) PROVE RankTypeOK'
    <2>1. u \in Ranked
      BY RankingsAssumption
    <2>2. graph' \in [Ranked -> 0..1]
      BY <1>1, <2>1 DEF ChangeGraph, RankTypeOK
    <2> QED
      BY <1>1, <2>2 DEF ChangeGraph, RankTypeOK
  <1>2. ASSUME NEW u \in Ranked, ChangeDetails(u) PROVE RankTypeOK'
    <2>1. indexed' \subseteq Ranked /\ UNCHANGED <<graph, job, budget>>
      BY <1>2 DEF ChangeDetails, RankTypeOK
    <2>2. /\ asker' = [b \in Askers |-> asker'[b]] /\ UNCHANGED <<family, holder>>
          /\ \A b \in Askers : IsRequest(asker'[b]) /\ asker'[b].at \in Points
      BY <1>2, OthersStep DEF RankTypeOK
    <2> QED
      BY <2>1, <2>2 DEF RankTypeOK
  <1>3. CASE Lose
    BY <1>3 DEF Lose, Account, RankTypeOK
  <1>4. CASE JobStep
    <2>1. budget' \in Int
      BY <1>4, JobMoves DEF RankTypeOK, Account
    <2> QED
      BY <1>4, <2>1, JobMoves DEF RankTypeOK
  <1>5. ASSUME NEW a \in Askers, Ask(a) \/ RankStep(a) PROVE RankTypeOK'
    BY <1>5, RequestStep, RequestStepType DEF RankTypeOK, Moves
  <1>6. CASE UNCHANGED rankVars
    BY <1>6 DEF rankVars, RankTypeOK
  <1> QED
    BY <1>1, <1>2, <1>3, <1>4, <1>5, <1>6 DEF RankNext

-----------------------------------------------------------------------------
(* One rebuild at a time, each paid for by a key that was missing.         *)

Rebuilding(a) == asker[a].at \in {"scan", "write"}

LEMMA LockedStep ==
    ASSUME RankTypeOK, LockedInv, [RankNext]_rankVars
    PROVE  LockedInv'
  <1> SUFFICES ASSUME Locks(family) PROVE LockedInv'
    <2>1. UNCHANGED family
      BY OthersStep, RequestStep DEF RankNext
    <2> QED
      BY <2>1 DEF LockedInv
  <1> DEFINE Critical == {"reread", "scan", "write", "last"}
  <1>1. family # "hotTags" /\ \A b \in Askers : b # 0
    BY RankingsAssumption DEF Locks
  <1>2. \A b \in Askers : /\ asker[b].at \in Critical => holder = b
                          /\ asker[b].at # "writeSamples"
    BY DEF LockedInv
  <1>3. CASE \/ \E u \in Changing, n \in 0..1 : ChangeGraph(u, n)
             \/ \E u \in Ranked : ChangeDetails(u)
             \/ Lose \/ JobStep \/ UNCHANGED rankVars
    BY <1>2, <1>3, OthersStep DEF LockedInv
  <1>4. ASSUME NEW a \in Askers, Moves(a), asker'[a].at # "writeSamples",
               asker'[a].at \in Critical => holder' = a,
               \/ UNCHANGED holder
               \/ holder = 0
               \/ holder = a
        PROVE  LockedInv'
    <2> SUFFICES ASSUME NEW b \in Askers
                 PROVE  (asker'[b].at \in Critical => holder' = b) /\ asker'[b].at # "writeSamples"
      BY DEF LockedInv
    <2>1. CASE b = a
      BY <1>4, <2>1
    <2>2. CASE b # a
      BY <1>1, <1>2, <1>4, <2>2 DEF Moves
    <2> QED
      BY <2>1, <2>2
  <1>5. ASSUME NEW a \in Askers, Unlock(a, TRUE) \/ Unlock(a, FALSE)
        PROVE  UNCHANGED holder \/ holder = a
    BY <1>5 DEF Unlock
  <1>6. ASSUME NEW a \in Askers, Ask(a) PROVE LockedInv'
    BY <1>4, <1>6, AskMoves DEF Ask
  <1>7. ASSUME NEW a \in Askers, Lock(a) PROVE LockedInv'
    BY <1>4, <1>7, GoesTo DEF Lock, Points
  <1>8. ASSUME NEW a \in Askers, Reread(a) PROVE LockedInv'
    <2>1. holder = a
      BY <1>2, <1>8 DEF Reread
    <2> QED
      BY <1>4, <1>8, <2>1, RereadMoves
  <1>9. ASSUME NEW a \in Askers, Scan(a) PROVE LockedInv'
    BY <1>1, <1>2, <1>4, <1>9, ScanMoves DEF Scan
  <1>10. ASSUME NEW a \in Askers, ScanFails(a) PROVE LockedInv'
    BY <1>4, <1>5, <1>10, EndMoves DEF ScanFails
  <1>11. ASSUME NEW a \in Askers, Write(a) PROVE LockedInv'
    BY <1>2, <1>4, <1>11, WriteMoves DEF Write
  <1>12. ASSUME NEW a \in Askers, LastRead(a) PROVE LockedInv'
    <2>1. asker'[a].at \in {"answer", "filter"}
      BY <1>12, LastReadMoves
    <2> QED
      BY <1>4, <1>5, <1>12, <2>1, LastReadMoves DEF LastRead
  <1>13. ASSUME NEW a \in Askers, Filter(a) PROVE LockedInv'
    BY <1>4, <1>13, FilterMoves DEF Filter
  <1>14. ASSUME NEW a \in Askers, RemoveDeleted(a) PROVE LockedInv'
    BY <1>4, <1>14, RemoveMoves DEF RemoveDeleted
  <1>15. ASSUME NEW a \in Askers, Answer(a) PROVE LockedInv'
    BY <1>4, <1>5, <1>15, EndMoves DEF Answer
  <1> QED
    BY <1>3, <1>6, <1>7, <1>8, <1>9, <1>10, <1>11, <1>12, <1>13, <1>14, <1>15 DEF RankNext, RankStep

(* The account after a write of the key: it never falls, and a key that is *)
(* gone is accounted for.                                                  *)
LEMMA AccountFacts ==
    ASSUME budget \in Int, NEW n \in {0, 1}, Account(n)
    PROVE  /\ budget' >= budget + n
           /\ ranking' = NoRanking /\ ranking # NoRanking => budget' >= budget + 1
  BY DEF Account

LEMMA BudgetStep ==
    ASSUME RankTypeOK, LockedInv, BudgetInv, [RankNext]_rankVars
    PROVE  BudgetInv'
  <1>0. UNCHANGED family
    BY OthersStep, RequestStep DEF RankNext
  <1> SUFFICES ASSUME Locks(family)
               PROVE  /\ budget' >= 0
                      /\ ranking' = NoRanking /\ (\A b \in Askers : ~Rebuilding(b)') => budget' >= 1
    BY <1>0 DEF BudgetInv, Rebuilding
  <1> DEFINE Goal == /\ budget' >= 0
                     /\ ranking' = NoRanking /\ (\A b \in Askers : ~Rebuilding(b)') => budget' >= 1
  <1>1. /\ budget \in Int /\ budget >= 0
        /\ ranking = NoRanking /\ (\A b \in Askers : ~Rebuilding(b)) => budget >= 1
    BY DEF RankTypeOK, BudgetInv, Rebuilding
  <1>2. Missing <=> ranking = NoRanking
    BY DEF Missing, Locks
  <1>3. ASSUME \A b \in Askers : Rebuilding(b) => Rebuilding(b)',
               (budget' = budget /\ ranking' = ranking) \/ Account(0)
        PROVE  Goal
    <2>1. CASE budget' = budget /\ ranking' = ranking
      BY <1>1, <1>3, <2>1
    <2>2. CASE Account(0)
      <3>1. /\ budget' >= budget + 0 /\ budget' \in Int
            /\ ranking' = NoRanking /\ ranking # NoRanking => budget' >= budget + 1
        BY <1>1, <2>2, AccountFacts DEF Account
      <3> QED
        BY <1>1, <1>3, <3>1
    <2> QED
      BY <1>3, <2>1, <2>2
  <1>4. CASE \/ \E u \in Changing, n \in 0..1 : ChangeGraph(u, n)
             \/ \E u \in Ranked : ChangeDetails(u)
             \/ Lose \/ JobStep \/ UNCHANGED rankVars
    <2>1. \A b \in Askers : Rebuilding(b) => Rebuilding(b)'
      BY <1>4, OthersStep DEF Rebuilding
    <2>2. (budget' = budget /\ ranking' = ranking) \/ Account(0)
      <3>1. CASE JobStep
        BY <3>1, JobMoves
      <3>2. CASE Lose
        BY <3>2 DEF Lose
      <3> QED
        BY <1>4, <3>1, <3>2 DEF ChangeGraph, ChangeDetails, rankVars
    <2> QED
      BY <1>3, <2>1, <2>2
  <1>5. ASSUME NEW a \in Askers, Ask(a) \/ Lock(a) \/ Scan(a) \/ LastRead(a) \/ Filter(a) \/ Answer(a)
        PROVE  Goal
    <2>1. Moves(a) /\ (Rebuilding(a) => Rebuilding(a)')
      <3>1. CASE Scan(a)
        BY <3>1, ScanMoves DEF Scan, Rebuilding, Locks
      <3>2. CASE ~Scan(a)
        BY <1>5, <3>2, RequestStep DEF RankStep, Rebuilding, Ask, Lock, LastRead, Filter, Answer
      <3> QED
        BY <3>1, <3>2
    <2>2. \A b \in Askers : Rebuilding(b) => Rebuilding(b)'
      BY <2>1 DEF Moves, Rebuilding
    <2>3. budget' = budget /\ ranking' = ranking
      BY <1>5 DEF Ask, Lock, Scan, LastRead, Filter, Answer
    <2> QED
      BY <1>3, <2>2, <2>3
  <1>6. ASSUME NEW a \in Askers, RemoveDeleted(a) PROVE Goal
    <2>1. \A b \in Askers : Rebuilding(b) => Rebuilding(b)'
      BY <1>6, RemoveMoves DEF RemoveDeleted, Rebuilding, Moves
    <2> QED
      BY <1>3, <1>6, <2>1 DEF RemoveDeleted
  <1>7. ASSUME NEW a \in Askers, Reread(a) PROVE Goal
    <2>1. \A b \in Askers : Rebuilding(b) => b = a
      BY <1>7 DEF LockedInv, Rebuilding, Reread
    <2>2. ~Rebuilding(a) /\ ranking' = ranking
      BY <1>7 DEF Rebuilding, Reread
    <2>3. CASE Missing
      <3>1. budget' = budget - 1 /\ Rebuilding(a)'
        BY <1>7, <2>3, RereadMoves DEF Rebuilding
      <3> QED
        BY <1>1, <1>2, <2>1, <2>2, <2>3, <3>1
    <2>4. CASE ~Missing
      BY <1>1, <1>2, <1>7, <2>2, <2>4, RereadMoves
    <2> QED
      BY <2>3, <2>4
  <1>8. ASSUME NEW a \in Askers, ScanFails(a) PROVE Goal
    <2>1. budget' = budget + 1
      BY <1>8 DEF ScanFails
    <2> QED
      BY <1>1, <2>1
  <1>9. ASSUME NEW a \in Askers, Write(a) PROVE Goal
    <2>1. asker[a].at = "write" /\ WriteRanking(asker[a])
      BY <1>9, WriteMoves DEF LockedInv
    <2>2. Account(IF asker[a].got = NoRanking /\ ranking = NoRanking THEN 1 ELSE 0)
      BY <1>9, <2>1, WriteMoves
    <2>3. budget' >= budget /\ budget' \in Int
      BY <1>1, <2>2 DEF Account
    <2>4. ranking' = NoRanking => budget' >= budget + 1
      <3>1. CASE ranking # NoRanking
        BY <1>1, <2>2, <3>1 DEF Account
      <3>2. CASE ranking = NoRanking
        <4>1. ranking' = NoRanking => asker[a].got = NoRanking
          BY <2>1 DEF WriteRanking, WritesNothing
        <4> QED
          BY <1>1, <2>2, <3>2, <4>1 DEF Account
      <3> QED
        BY <3>1, <3>2
    <2> QED
      BY <1>1, <2>3, <2>4
  <1> QED
    BY <1>4, <1>5, <1>6, <1>7, <1>8, <1>9 DEF RankNext, RankStep

-----------------------------------------------------------------------------
(* Nobody deleted before a request began is served.                        *)

LEMMA LiveStep ==
    ASSUME RankTypeOK, LiveInv, [RankNext]_rankVars
    PROVE  LiveInv'
  <1>0. UNCHANGED family
    BY OthersStep, RequestStep DEF RankNext
  <1> SUFFICES ASSUME ~Filters(family) PROVE LiveInv'
    BY <1>0 DEF LiveInv
  <1> DEFINE Live == {u \in Ranked : graph[u] > 0}
  <1>1. /\ Changing \subseteq indexed /\ Live \subseteq indexed
        /\ DOMAIN ranking \subseteq indexed /\ DOMAIN job.got \subseteq indexed
        /\ \A b \in Askers : asker[b].at # "filter" /\ DOMAIN asker[b].got \subseteq indexed
    BY DEF LiveInv
  <1>2. DOMAIN NoRanking = {} /\ graph \in [Ranked -> 0..1]
    BY NoRankingIsEmpty DEF RankTypeOK
  <1>3. ASSUME NEW u \in Changing, NEW n \in 0..1, ChangeGraph(u, n) PROVE LiveInv'
    <2>1. \A v \in Ranked : graph'[v] > 0 => v = u \/ graph[v] > 0
      BY <1>2, <1>3 DEF ChangeGraph
    <2> QED
      BY <1>1, <1>3, <2>1 DEF ChangeGraph, LiveInv
  <1>4. ASSUME NEW u \in Ranked, ChangeDetails(u) PROVE LiveInv'
    BY <1>4 DEF ChangeDetails
  <1>5. CASE Lose
    BY <1>1, <1>2, <1>5 DEF Lose, LiveInv
  <1>6. CASE JobStep
    <2>1. /\ UNCHANGED <<family, graph, indexed, asker>>
          /\ DOMAIN job'.got \subseteq DOMAIN job.got \cup Live
          /\ ranking' = ranking \/ ranking' = job.got
      BY <1>6, JobMoves
    <2> QED
      BY <1>1, <2>1 DEF LiveInv
  <1>7. ASSUME NEW a \in Askers, Ask(a) \/ RankStep(a) PROVE LiveInv'
    <2>1. Moves(a) /\ UNCHANGED <<family, graph, indexed, job>>
      BY <1>7, RequestStep
    <2>2. asker'[a].at # "filter" /\ DOMAIN asker'[a].got \subseteq indexed
      <3>1. CASE Ask(a)
        BY <1>2, <3>1, AskMoves
      <3>2. CASE Lock(a)
        BY <1>1, <3>2, GoesTo DEF Lock, Points
      <3>3. CASE Reread(a)
        BY <1>1, <3>3, RereadMoves
      <3>4. CASE Scan(a)
        BY <1>1, <3>4, ScanMoves
      <3>5. CASE ScanFails(a) \/ Answer(a)
        BY <1>2, <3>5, EndMoves DEF ScanFails, Answer
      <3>6. CASE Write(a)
        BY <1>1, <1>2, <3>6, WriteMoves
      <3>7. CASE LastRead(a)
        BY <1>1, <3>7, LastReadMoves
      <3>8. CASE Filter(a)
        BY <1>1, <3>8 DEF Filter
      <3>9. CASE RemoveDeleted(a)
        BY <1>2, <3>9, RemoveMoves
      <3> QED
        BY <1>7, <3>1, <3>2, <3>3, <3>4, <3>5, <3>6, <3>7, <3>8, <3>9 DEF RankStep
    <2>3. DOMAIN ranking' \subseteq indexed
      <3>1. CASE Write(a)
        BY <1>1, <3>1, WriteMoves DEF WriteRanking
      <3>2. CASE RemoveDeleted(a)
        <4>1. DOMAIN ranking' \subseteq DOMAIN ranking
          BY <3>2 DEF RemoveDeleted
        <4> QED
          BY <1>1, <4>1
      <3>3. CASE ~Write(a) /\ ~RemoveDeleted(a)
        <4>1. ranking' = ranking
          BY <1>7, <3>3 DEF RankStep, Ask, Lock, Reread, Scan, ScanFails, LastRead, Filter, Answer
        <4> QED
          BY <1>1, <4>1
      <3> QED
        BY <3>1, <3>2, <3>3
    <2> QED
      BY <1>1, <2>1, <2>2, <2>3 DEF LiveInv, Moves
  <1>8. CASE UNCHANGED rankVars
    BY <1>8 DEF rankVars, LiveInv
  <1> QED
    BY <1>3, <1>4, <1>5, <1>6, <1>7, <1>8 DEF RankNext

LEMMA ServedStep ==
    ASSUME RankTypeOK, LiveInv, ServedInv, [RankNext]_rankVars
    PROVE  ServedInv'
  <1>1. CASE \/ \E u \in Changing, n \in 0..1 : ChangeGraph(u, n)
             \/ \E u \in Ranked : ChangeDetails(u)
             \/ Lose \/ JobStep \/ UNCHANGED rankVars
    <2>1. \A b \in Askers : /\ asker'[b].gone \cap indexed' = {}
                            /\ asker'[b].gone \subseteq asker[b].gone
      BY <1>1, OthersStep DEF ServedInv
    <2> QED
      BY <1>1, <2>1, OthersStep DEF ServedInv
  <1>2. ASSUME NEW a \in Askers, Ask(a) \/ RankStep(a) PROVE ServedInv'
    <2> DEFINE s == asker'[a]
    <2>1. Moves(a) /\ UNCHANGED <<family, graph, indexed, job>>
      BY <1>2, RequestStep
    <2>2. /\ asker[a].gone \cap indexed = {}
          /\ asker[a].at \in {"answer", "remove"} => asker[a].found \cap asker[a].gone = {}
          /\ asker[a].at \notin {"answer", "remove", "filter"} => asker[a].found = {}
      BY DEF ServedInv
    <2>3. ~Filters(family) => Found \subseteq indexed
      BY DEF LiveInv, Found, Filters
    <2>4. SUFFICES /\ s.gone \cap indexed = {}
                   /\ s.at \in {"answer", "remove"} => s.found \cap s.gone = {}
                   /\ s.at \notin {"answer", "remove", "filter"} => s.found = {}
      BY <2>1 DEF ServedInv, Moves
    <2>5. CASE Ask(a)
      BY <2>3, <2>5, AskMoves
    <2>6. CASE Lock(a)
      BY <2>2, <2>6, GoesTo DEF Lock, Points
    <2>7. CASE Reread(a)
      <3>1. asker[a].at = "reread"
        BY <2>7 DEF Reread
      <3> QED
        BY <2>2, <2>3, <2>7, <3>1, RereadMoves
    <2>8. CASE Scan(a)
      <3>1. asker[a].at = "scan"
        BY <2>8 DEF Scan
      <3> QED
        BY <2>2, <2>8, <3>1, ScanMoves
    <2>9. CASE ScanFails(a) \/ Answer(a)
      BY <2>9, EndMoves DEF ScanFails, Answer
    <2>10. CASE Write(a)
      BY <2>2, <2>10, WriteMoves
    <2>11. CASE LastRead(a)
      <3>1. asker[a].at = "last"
        BY <2>11 DEF LastRead
      <3> QED
        BY <2>2, <2>3, <2>11, <3>1, LastReadMoves
    <2>12. CASE Filter(a)
      BY <2>2, <2>12, FilterMoves
    <2>13. CASE RemoveDeleted(a)
      <3>1. asker[a].at = "remove"
        BY <2>13 DEF RemoveDeleted
      <3> QED
        BY <2>2, <2>13, <3>1, RemoveMoves
    <2> QED
      BY <1>2, <2>5, <2>6, <2>7, <2>8, <2>9, <2>10, <2>11, <2>12, <2>13 DEF RankStep
  <1> QED
    BY <1>1, <1>2 DEF RankNext

-----------------------------------------------------------------------------
(* The invariant.                                                          *)

LEMMA RankInitInv == RankInit => RankInv
  <1> SUFFICES ASSUME RankInit PROVE RankInv
    OBVIOUS
  <1>1. \A a \in Askers : /\ asker[a] = Idle /\ IsRequest(asker[a]) /\ asker[a].at = "idle"
                          /\ asker[a].found = {} /\ asker[a].gone = {} /\ DOMAIN asker[a].got = {}
    BY IdleIsRequest, NoRankingIsEmpty DEF RankInit
  <1>2. IsRequest(job) /\ job.at = "scan" /\ DOMAIN job.got = {} /\ DOMAIN ranking = {}
    BY BegunIsRequest, NoRankingIsEmpty DEF RankInit
  <1>3. RankTypeOK
    BY <1>1, <1>2 DEF RankInit, RankTypeOK, Points
  <1>4. LockedInv /\ BudgetInv /\ ServedInv
    BY <1>1 DEF RankInit, LockedInv, BudgetInv, ServedInv
  <1>5. LiveInv
    BY <1>1, <1>2, RankingsAssumption DEF RankInit, LiveInv
  <1> QED
    BY <1>3, <1>4, <1>5 DEF RankInv

LEMMA RankInvStep ==
    ASSUME RankInv, [RankNext]_rankVars
    PROVE  RankInv'
  BY RankTypeStep, LockedStep, BudgetStep, LiveStep, ServedStep DEF RankInv

(* For any number of requests at one time, any page of the scan and any    *)
(* sequence of losses, failures, refreshes and deletions, requests that    *)
(* miss together share one rebuild: there is never one more than the key   *)
(* was missing (get_global_influencers, get_most_followed).                *)
THEOREM RebuildsArePaidFor == RankSpec => []RebuildOncePerLoss
  <1>1. RankInv => RebuildOncePerLoss
    BY DEF RankInv, BudgetInv, RebuildOncePerLoss
  <1>2. RankInv /\ [RankNext]_rankVars => RankInv'
    BY RankInvStep
  <1> QED
    BY <1>1, <1>2, RankInitInv, PTL DEF RankSpec

\* Two requests of a family with a lock that read the graph or write the key.
OneRebuilds ==
    Locks(family) => \A a, b \in Askers : Rebuilding(a) /\ Rebuilding(b) => a = b

(* The rebuild lock excludes: of all the requests for a ranking of users   *)
(* at most one reads the graph or writes the key, also after the graph has *)
(* failed one of them (rebuild_lock, REBUILD_ON_MISS).                     *)
THEOREM RebuildsExclude == RankSpec => []OneRebuilds
  <1>1. RankInv => OneRebuilds
    BY DEF RankInv, LockedInv, OneRebuilds, Rebuilding
  <1>2. RankInv /\ [RankNext]_rankVars => RankInv'
    BY RankInvStep
  <1> QED
    BY <1>1, <1>2, RankInitInv, PTL DEF RankSpec

(* Whoever was deleted before a request began and still is, is not in its  *)
(* answer, whether it was served from the key as it was, from a rebuild of *)
(* its own or of another request, and however deletions and the removal of *)
(* the deleted interleave (filter_deleted).                                *)
THEOREM DeletedAreNotServed == RankSpec => []DeletedNotServed
  <1>1. RankInv => DeletedNotServed
    BY DEF RankInv, ServedInv, DeletedNotServed
  <1>2. RankInv /\ [RankNext]_rankVars => RankInv'
    BY RankInvStep
  <1> QED
    BY <1>1, <1>2, RankInitInv, PTL DEF RankSpec

-----------------------------------------------------------------------------
(* The trust filter.                                                       *)
Stages == {"idle", "flag", "ranking", "copy", "decide", "look", "mark", "outside",
           "write", "page", "clear"}
Publishing == {"none", "first", "reindex", "second", "last"}
Runs == [stage : Stages, on : BOOLEAN, ranking : SUBSET Authors, applied : SUBSET Authors,
         hide : SUBSET Authors, show : SUBSET Authors, page : SUBSET Authors]

TrustTypeOK ==
  /\ stored \subseteq Authors /\ shown \subseteq Authors /\ trusted \subseteq Authors
  /\ applied \subseteq Authors /\ raced \subseteq Authors /\ slipped \subseteq Authors
  /\ on \in BOOLEAN /\ filtered \in BOOLEAN /\ showing \in BOOLEAN /\ atRest \in BOOLEAN
  /\ runs \in [Actors -> Runs]
  /\ publishing \in Publishing
  /\ writing \in {NoWrite} \cup [stage : {"put", "del"}, author : Authors]

\* The post of a stored author is out of the shared sets, and no handler is
\* about to write it; an author's post is in them, and no exception covers it.
Hidden(x)  == x \in stored /\ x \notin shown /\ x \notin raced /\ x # writing.author
Visible(x) == x \in shown /\ x \notin raced /\ x \notin slipped

\* A run of the watcher and one of the job are never under way together.
Exclusive ==
  /\ ~RunAt("watcher", "idle") => publishing = "none"
  /\ ~RunAt("job", "idle") => publishing \in {"first", "last"}

HandlerInv ==
  /\ writing.stage = "put" => writing.author \in stored
  /\ writing.stage = "del" => writing.author \notin shown \ raced
  /\ shown \subseteq stored \cup raced

\* What a run has read is still so: nobody else changes it.
RunInv(a) ==
  LET r == runs[a] IN
  /\ r.stage # "idle" => r.on = on
  /\ r.stage \in {"flag", "ranking", "copy", "decide"} => on
  /\ r.stage \in {"look", "mark", "outside"} => ~on
  /\ r.stage \in {"copy", "decide"} => r.ranking = trusted
  /\ r.stage \in {"write", "page", "clear"} /\ on => r.ranking = trusted
  /\ r.stage \in {"decide", "mark", "outside"} => r.applied = applied
  /\ r.stage \in {"outside", "write", "page", "clear"} /\ ~on => showing

\* The authors a partly applied change leaves shown for certain.
KeptOf(A, T) == IF A # {} /\ T # {} THEN A \cap T ELSE A \cup T

NoneLost ==
  \A x \in Authors : Hidden(x) => /\ x \notin KeptOf(applied, trusted)
                                  /\ applied \cup trusted # {}
NoneLeaked ==
  applied # {} /\ trusted # {} /\ ~showing
    => \A x \in Authors : Visible(x) => x \in applied \cup trusted

Agreed ==
  /\ \A x \in Authors : Hidden(x) => x \notin Admitted
  /\ \A x \in Authors : Visible(x) => x \in Admitted

\* While a run writes, the authors still out of line are still in its batches.
BatchInv(a) ==
  LET r == runs[a] IN
  RunAt(a, "write") \/ RunAt(a, "page") =>
    /\ \A x \in Admitted : Hidden(x) => x \in r.show
    /\ \A x \in Authors : Visible(x) /\ x \notin Admitted => x \in r.hide
PageInv(a) ==
  LET r == runs[a] x == Least(Batch(r)) IN
  RunAt(a, "page") =>
    /\ r.page \subseteq {x}
    /\ x \notin r.page => IF r.hide # {} THEN Visible(x) => x \in Admitted
                                         ELSE Hidden(x) => x \notin Admitted

InLine == Agreed /\ applied = IF on THEN trusted ELSE {}

ClearInv(a) == RunAt(a, "clear") => InLine
SettledInv == (Quiet /\ atRest) \/ publishing = "reindex" => InLine

RunsInv == \A a \in Actors : RunInv(a) /\ BatchInv(a) /\ PageInv(a) /\ ClearInv(a)

Flagged == /\ on => filtered
           /\ \A x \in Authors : Hidden(x) => filtered

TrustInv ==
  /\ TrustTypeOK /\ Exclusive /\ HandlerInv /\ RunsInv
  /\ Flagged /\ NoneLost /\ NoneLeaked /\ SettledInv

-----------------------------------------------------------------------------
(* Types.                                                                  *)

LEMMA NewRun ==
    ASSUME TrustTypeOK, NEW a \in Actors, NEW r \in Runs, runs' = [runs EXCEPT ![a] = r]
    PROVE  /\ runs' \in [Actors -> Runs] /\ runs'[a] = r
           /\ \A b \in Actors : b # a => runs'[b] = runs[b]
  BY DEF TrustTypeOK

(* The forms in which actions update a run.                                *)
LEMMA StageRun ==
    ASSUME TrustTypeOK, NEW a \in Actors, NEW s \in Stages, runs' = RunTo(a, s)
    PROVE  /\ runs' \in [Actors -> Runs]
           /\ runs'[a] = [runs[a] EXCEPT !.stage = s]
           /\ \A b \in Actors : b # a => runs'[b] = runs[b]
  <1>1. runs[a] \in Runs
    BY DEF TrustTypeOK
  <1>2. [runs[a] EXCEPT !.stage = s] \in Runs
    BY <1>1 DEF Runs
  <1> QED
    BY <1>2 DEF RunTo, TrustTypeOK

LEMMA IdleRunType == IdleRun \in Runs
  <1>1. FALSE \in BOOLEAN
    OBVIOUS
  <1> QED
    BY <1>1 DEF IdleRun, Runs, Stages

LEMMA BeginRun ==
    ASSUME TrustTypeOK, NEW a \in Actors, NEW isOn \in BOOLEAN, runs' = Reconcile(a, isOn)
    PROVE  /\ runs' \in [Actors -> Runs]
           /\ runs'[a].stage = (IF isOn THEN "flag" ELSE "look")
           /\ runs'[a].on = isOn
           /\ \A b \in Actors : b # a => runs'[b] = runs[b]
  <1> DEFINE r == [IdleRun EXCEPT !.stage = IF isOn THEN "flag" ELSE "look", !.on = isOn]
  <1>1. r \in Runs
    BY IdleRunType DEF Runs, Stages
  <1>2. r.stage = (IF isOn THEN "flag" ELSE "look") /\ r.on = isOn
    BY DEF IdleRun
  <1>3. runs' = [runs EXCEPT ![a] = r]
    BY DEF Reconcile
  <1> HIDE DEF r
  <1> QED
    BY <1>1, <1>2, <1>3, NewRun

LEMMA EndedRun ==
    ASSUME TrustTypeOK, NEW a \in Actors, runs' = [runs EXCEPT ![a] = IdleRun]
    PROVE  /\ runs' \in [Actors -> Runs] /\ runs'[a].stage = "idle"
           /\ \A b \in Actors : b # a => runs'[b] = runs[b]
  BY NewRun, IdleRunType DEF IdleRun

LEMMA TrustTypeInit == TrustInit => TrustTypeOK
  <1> SUFFICES ASSUME TrustInit PROVE TrustTypeOK
    OBVIOUS
  <1>1. on \in BOOLEAN /\ filtered \in BOOLEAN /\ showing \in BOOLEAN /\ atRest \in BOOLEAN
    BY DEF TrustInit
  <1>2. runs \in [Actors -> Runs]
    BY IdleRunType DEF TrustInit
  <1>3. writing \in {NoWrite} \cup [stage : {"put", "del"}, author : Authors]
    BY DEF TrustInit, NoWrite
  <1>4. stored \subseteq Authors
    BY DEF TrustInit
  <1> QED
    BY <1>1, <1>2, <1>3, <1>4 DEF TrustInit, TrustTypeOK, Publishing

LEMMA EndedType ==
    ASSUME TrustTypeOK, NEW a \in Actors, Ended(a)
    PROVE  runs' \in [Actors -> Runs] /\ publishing' \in Publishing /\ atRest' \in BOOLEAN
  BY EndedRun DEF Ended, TrustTypeOK, Publishing

(* What the two ways of computing a batch return.                          *)
LEMMA ChangesType ==
    ASSUME TrustTypeOK, NEW A \in SUBSET Authors, NEW T \in SUBSET Authors
    PROVE  /\ RankChanges(A, T).hide \subseteq Authors /\ RankChanges(A, T).show \subseteq Authors
           /\ ChangesAfterShowing(A, T).hide \subseteq Authors
           /\ ChangesAfterShowing(A, T).show \subseteq Authors
  <1>1. CASE A = {}
    BY <1>1 DEF TrustTypeOK, RankChanges, ChangesAfterShowing
  <1>2. CASE A # {}
    BY <1>2 DEF TrustTypeOK, RankChanges, ChangesAfterShowing
  <1> QED
    BY <1>1, <1>2

(* A decision to write, and what its batches are.                          *)
LEMMA DecideRun ==
    ASSUME TrustTypeOK, NEW a \in Actors, ApplyRanking(a),
           ~(runs[a].applied = runs[a].ranking /\ ~showing)
    PROVE  LET r == runs[a]
               c == IF showing /\ r.ranking # {} THEN ChangesAfterShowing(r.applied, r.ranking)
                    ELSE RankChanges(r.applied, r.ranking)
           IN  /\ runs' \in [Actors -> Runs]
               /\ runs'[a] = [r EXCEPT !.stage = "write", !.hide = c.hide, !.show = c.show]
               /\ \A b \in Actors : b # a => runs'[b] = runs[b]
               /\ UNCHANGED <<publishing, atRest>>
  <1> DEFINE r == runs[a]
             c == IF showing /\ r.ranking # {} THEN ChangesAfterShowing(r.applied, r.ranking)
                  ELSE RankChanges(r.applied, r.ranking)
             n == [r EXCEPT !.stage = "write", !.hide = c.hide, !.show = c.show]
  <1>1. r \in Runs
    BY DEF TrustTypeOK
  <1>2. c.hide \subseteq Authors /\ c.show \subseteq Authors
    BY <1>1, ChangesType DEF Runs
  <1>3. runs' = [runs EXCEPT ![a] = n] /\ UNCHANGED <<publishing, atRest>>
    BY DEF ApplyRanking
  <1> HIDE DEF c
  <1>4. n \in Runs
    BY <1>1, <1>2 DEF Runs, Stages
  <1> HIDE DEF n
  <1>5. /\ runs' \in [Actors -> Runs] /\ runs'[a] = n
        /\ \A b \in Actors : b # a => runs'[b] = runs[b]
    BY <1>3, <1>4, NewRun
  <1> QED
    BY <1>3, <1>5 DEF n, c

LEMMA ReadRankingsRun ==
    ASSUME TrustTypeOK, NEW a \in Actors, ReadRankings(a)
    PROVE  /\ runs' \in [Actors -> Runs]
           /\ \/ /\ runs[a].stage = "ranking"
                 /\ runs'[a] = [runs[a] EXCEPT !.stage = "copy", !.ranking = trusted]
              \/ /\ runs[a].stage = "copy"
                 /\ runs'[a] = [runs[a] EXCEPT !.stage = "decide", !.applied = applied]
           /\ \A b \in Actors : b # a => runs'[b] = runs[b]
  <1>1. runs[a] \in Runs
    BY DEF TrustTypeOK
  <1>2. /\ [runs[a] EXCEPT !.stage = "copy", !.ranking = trusted] \in Runs
        /\ [runs[a] EXCEPT !.stage = "decide", !.applied = applied] \in Runs
    BY <1>1 DEF Runs, Stages, TrustTypeOK
  <1>3. \/ /\ runs[a].stage = "ranking"
           /\ runs' = [runs EXCEPT ![a] = [runs[a] EXCEPT !.stage = "copy", !.ranking = trusted]]
        \/ /\ runs[a].stage = "copy"
           /\ runs' = [runs EXCEPT ![a] = [runs[a] EXCEPT !.stage = "decide", !.applied = applied]]
    BY DEF ReadRankings, RunAt
  <1> QED
    BY <1>2, <1>3, NewRun

(* The three steps of show_all that do not end the run.                    *)
LEMMA ShowAllRun ==
    ASSUME TrustTypeOK, NEW a \in Actors, ShowAll(a), ~Ended(a)
    PROVE  /\ runs' \in [Actors -> Runs]
           /\ \/ /\ runs[a].stage = "look" /\ UNCHANGED showing
                 /\ runs'[a] = [runs[a] EXCEPT !.stage = "mark", !.applied = applied]
              \/ /\ runs[a].stage = "mark" /\ showing' = TRUE
                 /\ runs'[a] = [runs[a] EXCEPT !.stage = "outside"]
              \/ /\ runs[a].stage = "outside" /\ UNCHANGED showing
                 /\ runs'[a] = [runs[a] EXCEPT !.stage = "write",
                       !.show = IF runs[a].applied \cup trusted = {} THEN {}
                                ELSE stored \ KeptOf(runs[a].applied, trusted)]
           /\ \A b \in Actors : b # a => runs'[b] = runs[b]
           /\ UNCHANGED <<publishing, atRest>>
  <1> DEFINE r == runs[a]
             back == IF r.applied \cup trusted = {} THEN {}
                     ELSE stored \ KeptOf(r.applied, trusted)
  <1>1. r \in Runs /\ back \subseteq Authors
    BY DEF TrustTypeOK
  <1>2. CASE RunAt(a, "look")
    <2>1. runs' = [runs EXCEPT ![a] = [r EXCEPT !.stage = "mark", !.applied = applied]]
      BY <1>2 DEF ShowAll, RunAt
    <2>2. [r EXCEPT !.stage = "mark", !.applied = applied] \in Runs
      BY <1>1 DEF Runs, Stages, TrustTypeOK
    <2>3. UNCHANGED <<showing, publishing, atRest>>
      BY <1>2 DEF ShowAll, RunAt
    <2> QED
      BY <1>2, <2>1, <2>2, <2>3, NewRun DEF RunAt
  <1>3. CASE RunAt(a, "mark")
    <2>1. runs' = [runs EXCEPT ![a] = [r EXCEPT !.stage = "outside"]]
      BY <1>3 DEF ShowAll, RunAt, RunTo
    <2>2. [r EXCEPT !.stage = "outside"] \in Runs
      BY <1>1 DEF Runs, Stages
    <2>3. showing' = TRUE /\ UNCHANGED <<publishing, atRest>>
      BY <1>3 DEF ShowAll, RunAt
    <2> QED
      BY <1>3, <2>1, <2>2, <2>3, NewRun DEF RunAt
  <1>4. CASE RunAt(a, "outside")
    <2>1. runs' = [runs EXCEPT ![a] = [r EXCEPT !.stage = "write", !.show = back]]
      BY <1>4 DEF ShowAll, RunAt, KeptOf
    <2> HIDE DEF back
    <2>2. [r EXCEPT !.stage = "write", !.show = back] \in Runs
      BY <1>1 DEF Runs, Stages
    <2>3. UNCHANGED <<showing, publishing, atRest>>
      BY <1>4 DEF ShowAll, RunAt
    <2>4. /\ runs' \in [Actors -> Runs] /\ runs'[a] = [r EXCEPT !.stage = "write", !.show = back]
          /\ \A b \in Actors : b # a => runs'[b] = runs[b]
      BY <2>1, <2>2, NewRun
    <2> QED
      BY <1>4, <2>3, <2>4 DEF RunAt, back
  <1> QED
    BY <1>2, <1>3, <1>4 DEF ShowAll

LEMMA ReadPageRun ==
    ASSUME TrustTypeOK, NEW a \in Actors, ReadPage(a)
    PROVE  /\ runs' \in [Actors -> Runs]
           /\ runs'[a] = [runs[a] EXCEPT !.stage = "page",
                                         !.page = {Least(Batch(runs[a]))} \cap stored]
           /\ \A b \in Actors : b # a => runs'[b] = runs[b]
  <1> DEFINE p == {Least(Batch(runs[a]))} \cap stored
  <1>1. runs[a] \in Runs /\ p \subseteq Authors
    BY DEF TrustTypeOK
  <1>2. runs' = [runs EXCEPT ![a] = [runs[a] EXCEPT !.stage = "page", !.page = p]]
    BY DEF ReadPage
  <1> HIDE DEF p
  <1>3. [runs[a] EXCEPT !.stage = "page", !.page = p] \in Runs
    BY <1>1 DEF Runs, Stages
  <1>4. /\ runs' \in [Actors -> Runs]
        /\ runs'[a] = [runs[a] EXCEPT !.stage = "page", !.page = p]
        /\ \A b \in Actors : b # a => runs'[b] = runs[b]
    BY <1>2, <1>3, NewRun
  <1> QED
    BY <1>4 DEF p

LEMMA WritePageRun ==
    ASSUME TrustTypeOK, NEW a \in Actors, WritePage(a)
    PROVE  LET r == runs[a] x == Least(Batch(r)) IN
           /\ runs' \in [Actors -> Runs]
           /\ runs'[a] = [r EXCEPT !.stage = "write", !.page = {}, !.hide = r.hide \ {x},
                                   !.show = IF r.hide # {} THEN r.show ELSE r.show \ {x}]
           /\ \A b \in Actors : b # a => runs'[b] = runs[b]
  <1> DEFINE r == runs[a]
             x == Least(Batch(r))
             h == r.hide \ {x}
             s == IF r.hide # {} THEN r.show ELSE r.show \ {x}
  <1>1. r \in Runs
    BY DEF TrustTypeOK
  <1>2. h \subseteq Authors /\ s \subseteq Authors
    BY <1>1 DEF Runs
  <1>3. runs' = [runs EXCEPT ![a] = [r EXCEPT !.stage = "write", !.page = {}, !.hide = h, !.show = s]]
    BY DEF WritePage
  <1> HIDE DEF h, s
  <1>4. [r EXCEPT !.stage = "write", !.page = {}, !.hide = h, !.show = s] \in Runs
    BY <1>1, <1>2 DEF Runs, Stages
  <1>5. /\ runs' \in [Actors -> Runs]
        /\ runs'[a] = [r EXCEPT !.stage = "write", !.page = {}, !.hide = h, !.show = s]
        /\ \A b \in Actors : b # a => runs'[b] = runs[b]
    BY <1>3, <1>4, NewRun
  <1> QED
    BY <1>5 DEF h, s

LEMMA TrustTypeStep ==
    ASSUME TrustTypeOK, [TrustNext]_trustVars
    PROVE  TrustTypeOK'
  <1> USE DEF switches
  <1>1. ASSUME NEW x \in Authors, PutPost(x) PROVE TrustTypeOK'
    <2>1. writing' \in {NoWrite} \cup [stage : {"put", "del"}, author : Authors]
      BY <1>1 DEF PutPost
    <2> QED
      BY <1>1, <2>1 DEF PutPost, TrustTypeOK
  <1>2. CASE GatedAdd
    <2>1. writing' \in {NoWrite} \cup [stage : {"put", "del"}, author : Authors]
      BY <1>2 DEF GatedAdd, NoWrite
    <2>2. Admitted \subseteq Authors
      BY DEF Admitted, TrustTypeOK
    <2>3. writing.author \in Authors
      BY <1>2 DEF GatedAdd, TrustTypeOK, NoWrite
    <2>4. shown' \subseteq Authors
      BY <1>2, <2>2 DEF GatedAdd, TrustTypeOK
    <2>5. slipped' \subseteq Authors
      BY <1>2, <2>3 DEF GatedAdd, TrustTypeOK
    <2> QED
      BY <1>2, <2>1, <2>4, <2>5 DEF GatedAdd, TrustTypeOK
  <1>3. ASSUME NEW x \in Authors, DelPost(x) PROVE TrustTypeOK'
    <2>1. writing' \in {NoWrite} \cup [stage : {"put", "del"}, author : Authors]
      BY <1>3 DEF DelPost
    <2> QED
      BY <1>3, <2>1 DEF DelPost, TrustTypeOK
  <1>4. CASE DelFromGraph
    <2>1. writing' \in {NoWrite} \cup [stage : {"put", "del"}, author : Authors]
      BY <1>4 DEF DelFromGraph, NoWrite
    <2> QED
      BY <1>4, <2>1 DEF DelFromGraph, TrustTypeOK
  <1>5. ASSUME NEW to \in BOOLEAN, Toggle(to) PROVE TrustTypeOK'
    <2>1. runs' \in [Actors -> Runs]
      BY <1>5, BeginRun DEF Toggle, Actors
    <2>2. on' \in BOOLEAN /\ filtered' \in BOOLEAN /\ atRest' \in BOOLEAN
      BY <1>5 DEF Toggle, TrustTypeOK
    <2> QED
      BY <1>5, <2>1, <2>2 DEF Toggle, TrustTypeOK
  <1>6. CASE PublishRanking
    <2>1. runs' \in [Actors -> Runs]
      BY <1>6, BeginRun DEF PublishRanking, Actors, TrustTypeOK
    <2> QED
      BY <1>6, <2>1 DEF PublishRanking, TrustTypeOK, Publishing
  <1>7. CASE ReconcileAgain
    <2>1. runs' \in [Actors -> Runs]
      BY <1>7, BeginRun DEF ReconcileAgain, Actors, TrustTypeOK
    <2> QED
      BY <1>7, <2>1 DEF ReconcileAgain, TrustTypeOK, Publishing
  <1>8. ASSUME NEW R \in SUBSET Authors, Reindex(R) PROVE TrustTypeOK'
    <2>1. atRest' \in BOOLEAN
      BY <1>8 DEF Reindex
    <2> QED
      BY <1>8, <2>1 DEF Reindex, TrustTypeOK, Publishing
  <1>9. ASSUME NEW a \in Actors, FlagFiltered(a) PROVE TrustTypeOK'
    <2>1. runs' \in [Actors -> Runs]
      BY <1>9, StageRun DEF FlagFiltered, Stages
    <2>2. filtered' \in BOOLEAN
      BY <1>9 DEF FlagFiltered
    <2> QED
      BY <1>9, <2>1, <2>2 DEF FlagFiltered, TrustTypeOK
  <1>10. ASSUME NEW a \in Actors, ReadRankings(a) PROVE TrustTypeOK'
    BY <1>10, ReadRankingsRun DEF ReadRankings, TrustTypeOK
  <1>11. ASSUME NEW a \in Actors, ApplyRanking(a) PROVE TrustTypeOK'
    <2>1. runs' \in [Actors -> Runs] /\ publishing' \in Publishing /\ atRest' \in BOOLEAN
      <3>1. CASE runs[a].applied = runs[a].ranking /\ ~showing
        BY <1>11, <3>1, EndedType DEF ApplyRanking
      <3>2. CASE ~(runs[a].applied = runs[a].ranking /\ ~showing)
        BY <1>11, <3>2, DecideRun DEF TrustTypeOK
      <3> QED
        BY <3>1, <3>2
    <2> QED
      BY <1>11, <2>1 DEF ApplyRanking, TrustTypeOK
  <1>12. ASSUME NEW a \in Actors, ShowAll(a) PROVE TrustTypeOK'
    <2>1. /\ runs' \in [Actors -> Runs] /\ publishing' \in Publishing
          /\ atRest' \in BOOLEAN /\ showing' \in BOOLEAN
      <3>1. CASE Ended(a)
        BY <1>12, <3>1, EndedType DEF ShowAll, TrustTypeOK
      <3>2. CASE ~Ended(a)
        BY <1>12, <3>2, ShowAllRun DEF TrustTypeOK
      <3> QED
        BY <3>1, <3>2
    <2> QED
      BY <1>12, <2>1 DEF ShowAll, TrustTypeOK
  <1>13. ASSUME NEW a \in Actors, ReadPage(a) PROVE TrustTypeOK'
    BY <1>13, ReadPageRun DEF ReadPage, TrustTypeOK
  <1>14. ASSUME NEW a \in Actors, WritePage(a) PROVE TrustTypeOK'
    <2>1. runs' \in [Actors -> Runs]
      BY <1>14, WritePageRun
    <2>2. runs[a].page \subseteq Authors
      BY DEF TrustTypeOK, Runs
    <2>3. shown' \subseteq Authors /\ raced' \subseteq Authors
      BY <1>14, <2>2 DEF WritePage, TrustTypeOK
    <2> QED
      BY <1>14, <2>1, <2>3 DEF WritePage, TrustTypeOK
  <1>15. ASSUME NEW a \in Actors, RecordApplied(a) PROVE TrustTypeOK'
    <2>1. runs' \in [Actors -> Runs]
      BY <1>15, StageRun DEF RecordApplied, Stages
    <2>2. applied' \subseteq Authors
      BY <1>15 DEF RecordApplied, TrustTypeOK, Runs
    <2> QED
      BY <1>15, <2>1, <2>2 DEF RecordApplied, TrustTypeOK
  <1>16. ASSUME NEW a \in Actors, ClearRecords(a) PROVE TrustTypeOK'
    <2>1. showing' \in BOOLEAN /\ filtered' \in BOOLEAN
      BY <1>16 DEF ClearRecords, TrustTypeOK
    <2> QED
      BY <1>16, <2>1, EndedType DEF ClearRecords, TrustTypeOK
  <1>17. ASSUME NEW a \in Actors, CutShort(a) PROVE TrustTypeOK'
    <2>1. runs' \in [Actors -> Runs] /\ atRest' \in BOOLEAN
      BY <1>17, EndedRun DEF CutShort
    <2> QED
      BY <1>17, <2>1 DEF CutShort, TrustTypeOK, Publishing
  <1>18. CASE UNCHANGED trustVars
    BY <1>18 DEF trustVars, TrustTypeOK
  <1> QED
    BY <1>1, <1>2, <1>3, <1>4, <1>5, <1>6, <1>7, <1>8, <1>9, <1>10, <1>11, <1>12, <1>13,
       <1>14, <1>15, <1>16, <1>17, <1>18 DEF TrustNext

-----------------------------------------------------------------------------
(* What the steps have in common.                                          *)

LEMMA AdmittedFacts ==
    ASSUME TrustTypeOK
    PROVE  /\ Admitted \subseteq Authors
           /\ \A x \in Authors : x \notin Admitted => on /\ trusted # {} /\ x \notin trusted
  BY DEF Admitted, TrustTypeOK

(* One run at a time.                                                      *)
LEMMA OthersIdle ==
    ASSUME Exclusive, NEW a \in Actors, ~RunAt(a, "idle"), NEW b \in Actors, b # a
    PROVE  RunAt(b, "idle")
  BY DEF Exclusive, Actors

LEMMA IdleRunsInv ==
    ASSUME NEW b \in Actors, runs'[b].stage = "idle"
    PROVE  RunInv(b)' /\ BatchInv(b)' /\ PageInv(b)' /\ ClearInv(b)'
  BY DEF RunInv, BatchInv, PageInv, ClearInv, RunAt

(* A step of the only run under way leaves the rest to its own invariants. *)
LEMMA RunsAfter ==
    ASSUME Exclusive, NEW a \in Actors, ~RunAt(a, "idle"),
           \A b \in Actors : b # a => runs'[b] = runs[b],
           RunInv(a)' /\ BatchInv(a)' /\ PageInv(a)' /\ ClearInv(a)'
    PROVE  RunsInv'
  <1> SUFFICES ASSUME NEW b \in Actors
               PROVE  RunInv(b)' /\ BatchInv(b)' /\ PageInv(b)' /\ ClearInv(b)'
    BY DEF RunsInv
  <1>1. CASE b = a
    BY <1>1
  <1>2. CASE b # a
    <2>1. runs'[b].stage = "idle"
      BY <1>2, OthersIdle DEF RunAt
    <2> QED
      BY <2>1, IdleRunsInv
  <1> QED
    BY <1>1, <1>2

LEMMA ExclusiveAfter ==
    ASSUME Exclusive, NEW a \in Actors, ~RunAt(a, "idle"),
           \A b \in Actors : b # a => runs'[b] = runs[b], UNCHANGED publishing
    PROVE  Exclusive'
  BY DEF Exclusive, Actors, RunAt

(* An event handler's step: what it hides is not admitted, what it shows   *)
(* is admitted and, once a ranking was applied, in one of the rankings.    *)
LEMMA HandlerStep ==
    ASSUME TrustInv, TrustTypeOK', HandlerInv',
           UNCHANGED <<trusted, applied, on, filtered, showing, runs, publishing, atRest>>,
           \A x \in Authors : Hidden(x)' => Hidden(x) \/ x \notin Admitted,
           \A x \in Authors : Visible(x)' =>
              \/ Visible(x)
              \/ /\ x \in Admitted
                 /\ applied # {} /\ trusted # {} /\ ~showing => x \in applied \cup trusted
    PROVE  TrustInv'
  <1>1. Exclusive'
    BY DEF TrustInv, Exclusive, RunAt
  <1>2. Admitted' = Admitted
    BY DEF Admitted
  <1>3. \A x \in Authors : x \notin Admitted => on /\ trusted # {} /\ x \notin trusted
    BY AdmittedFacts DEF TrustInv
  <1>4. Flagged'
    BY <1>3 DEF TrustInv, Flagged
  <1>5. NoneLost'
    BY <1>3 DEF TrustInv, NoneLost, KeptOf
  <1>6. NoneLeaked'
    BY DEF TrustInv, NoneLeaked
  <1>7. Agreed => Agreed'
    BY <1>2 DEF Agreed
  <1>8. InLine => InLine'
    BY <1>7 DEF InLine
  <1>9. SettledInv'
    BY <1>8 DEF TrustInv, SettledInv, Quiet, RunAt
  <1>10. ASSUME NEW a \in Actors
         PROVE  RunInv(a)' /\ BatchInv(a)' /\ PageInv(a)' /\ ClearInv(a)'
    <2>1. RunInv(a) /\ BatchInv(a) /\ PageInv(a) /\ ClearInv(a)
      BY DEF TrustInv, RunsInv
    <2>2. RunInv(a)'
      BY <2>1 DEF RunInv
    <2>3. BatchInv(a)'
      <3>1. Admitted \subseteq Authors
        BY AdmittedFacts DEF TrustInv
      <3> QED
        BY <2>1, <3>1, <1>2 DEF BatchInv, RunAt
    <2>4. PageInv(a)'
      <3>1. \A x : Hidden(x)' => Hidden(x) \/ x \notin Admitted
        BY DEF Hidden, TrustTypeOK
      <3>2. \A x : Visible(x)' => Visible(x) \/ x \in Admitted
        BY DEF Visible, TrustTypeOK
      <3>3. runs' = runs
        OBVIOUS
      <3> QED
        BY <2>1, <3>1, <3>2, <3>3, <1>2 DEF PageInv, RunAt, Batch, Hidden, Visible
    <2>5. ClearInv(a)'
      BY <2>1, <1>8 DEF ClearInv, RunAt
    <2> QED
      BY <2>2, <2>3, <2>4, <2>5
  <1> QED
    BY <1>1, <1>4, <1>5, <1>6, <1>9, <1>10 DEF TrustInv, RunsInv

(* A run ends well: the sets are in line.                                  *)
LEMMA EndStep ==
    ASSUME TrustInv, TrustTypeOK', NEW a \in Actors, ~RunAt(a, "idle"), Ended(a),
           HandlerInv', Flagged', NoneLost', NoneLeaked', InLine'
    PROVE  TrustInv'
  <1>1. /\ runs'[a].stage = "idle"
        /\ \A b \in Actors : b # a => runs'[b] = runs[b]
    BY EndedRun DEF TrustInv, Ended
  <1>2. \A b \in Actors : runs'[b].stage = "idle"
    BY <1>1, OthersIdle DEF TrustInv, RunAt
  <1>3. RunsInv'
    BY <1>2, IdleRunsInv DEF RunsInv
  <1>4. Exclusive'
    BY <1>2 DEF Exclusive, RunAt, Actors
  <1>5. SettledInv'
    BY DEF SettledInv
  <1> QED
    BY <1>3, <1>4, <1>5 DEF TrustInv

(* A run begins when none is under way.                                    *)
LEMMA BeginStep ==
    ASSUME TrustInv, TrustTypeOK', NEW a \in Actors, \A b \in Actors : RunAt(b, "idle"),
           runs' = Reconcile(a, on'), publishing' # "reindex",
           a = "watcher" => publishing' = "none",
           a = "job" => publishing' \in {"first", "last"},
           filtered' = (filtered \/ on'),
           UNCHANGED <<stored, shown, trusted, applied, showing, writing, raced, slipped>>
    PROVE  TrustInv'
  <1>1. /\ runs'[a].stage = (IF on' THEN "flag" ELSE "look") /\ runs'[a].on = on'
        /\ \A b \in Actors : b # a => runs'[b] = runs[b]
    BY BeginRun DEF TrustInv, TrustTypeOK
  <1>2. RunInv(a)' /\ BatchInv(a)' /\ PageInv(a)' /\ ClearInv(a)'
    BY <1>1 DEF RunInv, BatchInv, PageInv, ClearInv, RunAt
  <1>3. RunsInv'
    <2> SUFFICES ASSUME NEW b \in Actors
                 PROVE  RunInv(b)' /\ BatchInv(b)' /\ PageInv(b)' /\ ClearInv(b)'
      BY DEF RunsInv
    <2>1. CASE b = a
      BY <1>2, <2>1
    <2>2. CASE b # a
      BY <1>1, <2>2, IdleRunsInv DEF RunAt
    <2> QED
      BY <2>1, <2>2
  <1>4. Exclusive'
    BY <1>1 DEF Exclusive, RunAt, Actors
  <1>5. HandlerInv' /\ Flagged' /\ NoneLost' /\ NoneLeaked'
    BY DEF TrustInv, HandlerInv, Flagged, NoneLost, NoneLeaked, Hidden, Visible
  <1>6. ~Quiet'
    BY <1>1 DEF Quiet, RunAt
  <1>7. SettledInv'
    BY <1>6 DEF SettledInv
  <1> QED
    BY <1>3, <1>4, <1>5, <1>7 DEF TrustInv

(* A step of a run that reads or marks and writes no post.                 *)
LEMMA ReadStep ==
    ASSUME TrustInv, TrustTypeOK', NEW a \in Actors, ~RunAt(a, "idle"),
           \A b \in Actors : b # a => runs'[b] = runs[b], runs'[a].stage # "idle",
           RunInv(a)', BatchInv(a)', PageInv(a)', ClearInv(a)', NoneLeaked',
           on => filtered', filtered => filtered',
           UNCHANGED <<stored, shown, trusted, applied, on, writing, raced, slipped, publishing>>
    PROVE  TrustInv'
  <1>1. RunsInv' /\ Exclusive'
    BY RunsAfter, ExclusiveAfter DEF TrustInv
  <1>2. HandlerInv' /\ Flagged' /\ NoneLost'
    BY DEF TrustInv, HandlerInv, Flagged, NoneLost, Hidden
  <1>3. ~Quiet' /\ publishing' # "reindex"
    <2>1. publishing # "reindex"
      BY DEF TrustInv, Exclusive, Actors
    <2> QED
      BY <2>1 DEF Quiet, RunAt
  <1> QED
    BY <1>1, <1>2, <1>3 DEF TrustInv, SettledInv

-----------------------------------------------------------------------------
(* The steps of a run that write.                                          *)

(* The batches a decision computes hold every author out of line.          *)
LEMMA DecideStep ==
    ASSUME TrustInv, TrustTypeOK', NEW a \in Actors, ApplyRanking(a),
           ~(runs[a].applied = runs[a].ranking /\ ~showing)
    PROVE  TrustInv'
  <1> DEFINE A == applied
             T == trusted
             c == IF showing /\ T # {} THEN ChangesAfterShowing(A, T) ELSE RankChanges(A, T)
  <1>1. runs[a].stage = "decide" /\ on /\ runs[a].ranking = T /\ runs[a].applied = A
    BY DEF ApplyRanking, RunAt, TrustInv, RunsInv, RunInv
  <1>2. /\ runs'[a] = [runs[a] EXCEPT !.stage = "write", !.hide = c.hide, !.show = c.show]
        /\ \A b \in Actors : b # a => runs'[b] = runs[b]
        /\ UNCHANGED <<publishing, atRest>>
    BY <1>1, DecideRun DEF TrustInv
  <1>3. UNCHANGED <<stored, shown, trusted, applied, on, filtered, showing, writing, raced, slipped>>
    BY DEF ApplyRanking, switches
  <1>4. runs[a] \in Runs /\ runs[a].on = on
    BY <1>1 DEF TrustInv, TrustTypeOK, RunsInv, RunInv
  <1> HIDE DEF c
  <1>5. /\ runs'[a].stage = "write" /\ runs'[a].hide = c.hide /\ runs'[a].show = c.show
        /\ runs'[a].on = on /\ runs'[a].ranking = T
    BY <1>1, <1>2, <1>4 DEF Runs
  <1>6. RunInv(a)'
    BY <1>1, <1>3, <1>5 DEF RunInv
  <1>7. ASSUME NEW x \in Admitted, Hidden(x) PROVE x \in c.show
    <2>1. x \in Authors /\ x \in stored
      BY <1>7, AdmittedFacts DEF TrustInv, Hidden
    <2>2. x \notin KeptOf(A, T) /\ A \cup T # {}
      BY <1>7, <2>1 DEF TrustInv, NoneLost
    <2>3. CASE T # {}
      <3>1. x \in T
        BY <1>1, <2>3, <1>7 DEF Admitted
      <3>2. A # {} /\ x \notin A
        BY <2>2, <2>3, <3>1 DEF KeptOf
      <3> QED
        BY <2>3, <3>1, <3>2 DEF c, ChangesAfterShowing, RankChanges
    <2>4. CASE T = {}
      <3>1. A # {} /\ x \notin A
        BY <2>2, <2>4 DEF KeptOf
      <3> QED
        BY <2>1, <2>4, <3>1 DEF c, RankChanges
    <2> QED
      BY <2>3, <2>4
  <1>8. ASSUME NEW x \in Authors, Visible(x), x \notin Admitted PROVE x \in c.hide
    <2>1. T # {} /\ x \notin T
      BY <1>8, AdmittedFacts DEF TrustInv
    <2>2. x \in stored
      BY <1>8 DEF TrustInv, HandlerInv, Visible
    <2>3. CASE showing \/ A = {}
      BY <2>1, <2>2, <2>3 DEF c, ChangesAfterShowing, RankChanges
    <2>4. CASE ~showing /\ A # {}
      <3>1. x \in A
        BY <1>8, <2>1, <2>4 DEF TrustInv, NoneLeaked
      <3> QED
        BY <2>1, <2>4, <3>1 DEF c, RankChanges
    <2> QED
      BY <2>3, <2>4
  <1>9. BatchInv(a)'
    BY <1>3, <1>5, <1>7, <1>8 DEF BatchInv, RunAt, Admitted, Hidden, Visible
  <1>10. PageInv(a)' /\ ClearInv(a)'
    BY <1>5 DEF PageInv, ClearInv, RunAt
  <1>11. NoneLeaked'
    BY <1>3 DEF TrustInv, NoneLeaked, Visible
  <1> QED
    BY <1>1, <1>2, <1>3, <1>5, <1>6, <1>9, <1>10, <1>11, ReadStep DEF TrustInv, Flagged, RunAt

LEMMA ShowAllStep ==
    ASSUME TrustInv, TrustTypeOK', NEW a \in Actors, ShowAll(a), ~Ended(a)
    PROVE  TrustInv'
  <1>1. /\ \/ /\ runs[a].stage = "look" /\ UNCHANGED showing
              /\ runs'[a] = [runs[a] EXCEPT !.stage = "mark", !.applied = applied]
           \/ /\ runs[a].stage = "mark" /\ showing' = TRUE
              /\ runs'[a] = [runs[a] EXCEPT !.stage = "outside"]
           \/ /\ runs[a].stage = "outside" /\ UNCHANGED showing
              /\ runs'[a] = [runs[a] EXCEPT !.stage = "write",
                    !.show = IF runs[a].applied \cup trusted = {} THEN {}
                             ELSE stored \ KeptOf(runs[a].applied, trusted)]
        /\ \A b \in Actors : b # a => runs'[b] = runs[b]
        /\ UNCHANGED <<publishing, atRest>>
    BY ShowAllRun DEF TrustInv
  <1>2. UNCHANGED <<stored, shown, trusted, applied, on, filtered, writing, raced, slipped>>
    BY DEF ShowAll
  <1>3. runs[a] \in Runs /\ RunInv(a)
    BY DEF TrustInv, TrustTypeOK, RunsInv
  <1>4. ~on /\ runs[a].on = on /\ runs[a].stage \in {"look", "mark", "outside"}
    BY <1>1, <1>3 DEF RunInv
  <1>5. NoneLeaked' /\ (showing => showing')
    BY <1>1, <1>2 DEF TrustInv, NoneLeaked, Visible
  <1>6. runs'[a].stage \in {"mark", "outside", "write"} /\ runs'[a].on = on
    BY <1>1, <1>3, <1>4 DEF Runs
  <1>7. RunInv(a)'
    BY <1>1, <1>2, <1>3, <1>4, <1>5 DEF RunInv, Runs
  <1>8. BatchInv(a)'
    <2> SUFFICES ASSUME runs'[a].stage = "write"
                 PROVE  /\ \A x \in Admitted : Hidden(x) => x \in runs'[a].show
                        /\ \A x \in Authors : x \in Admitted
      BY <1>2, <1>6 DEF BatchInv, RunAt, Admitted, Hidden
    <2>1. /\ runs[a].applied = applied
          /\ runs'[a].show = IF applied \cup trusted = {} THEN {}
                             ELSE stored \ KeptOf(applied, trusted)
      BY <1>1, <1>3 DEF Runs, RunInv
    <2>2. \A x \in Authors : x \in Admitted
      BY <1>4 DEF Admitted
    <2>3. ASSUME NEW x \in Admitted, Hidden(x) PROVE x \in runs'[a].show
      <3>1. x \in stored /\ x \in Authors
        BY <2>3, AdmittedFacts DEF TrustInv, Hidden
      <3>2. x \notin KeptOf(applied, trusted) /\ applied \cup trusted # {}
        BY <2>3, <3>1 DEF TrustInv, NoneLost
      <3> QED
        BY <2>1, <3>1, <3>2
    <2> QED
      BY <2>2, <2>3
  <1>9. PageInv(a)' /\ ClearInv(a)'
    BY <1>6 DEF PageInv, ClearInv, RunAt
  <1> QED
    BY <1>1, <1>2, <1>4, <1>5, <1>6, <1>7, <1>8, <1>9, ReadStep DEF TrustInv, Flagged, RunAt

LEMMA ReadPageStep ==
    ASSUME TrustInv, TrustTypeOK', NEW a \in Actors, ReadPage(a)
    PROVE  TrustInv'
  <1> DEFINE x == Least(Batch(runs[a]))
  <1>1. /\ runs'[a] = [runs[a] EXCEPT !.stage = "page", !.page = {x} \cap stored]
        /\ \A b \in Actors : b # a => runs'[b] = runs[b]
    BY ReadPageRun DEF TrustInv
  <1>2. UNCHANGED <<stored, shown, trusted, applied, on, filtered, showing, writing, raced,
                    slipped, publishing>> /\ runs[a].stage = "write"
    BY DEF ReadPage, switches, RunAt
  <1>3. runs[a] \in Runs /\ RunInv(a) /\ BatchInv(a)
    BY DEF TrustInv, TrustTypeOK, RunsInv
  <1>4. /\ runs'[a].stage = "page" /\ runs'[a].page = {x} \cap stored
        /\ runs'[a].hide = runs[a].hide /\ runs'[a].show = runs[a].show
        /\ runs'[a].on = runs[a].on /\ runs'[a].ranking = runs[a].ranking
    BY <1>1, <1>3 DEF Runs
  <1>5. RunInv(a)'
    BY <1>2, <1>3, <1>4 DEF RunInv
  <1>6. BatchInv(a)'
    BY <1>2, <1>3, <1>4 DEF BatchInv, RunAt, Admitted, Hidden, Visible
  <1>7. PageInv(a)'
    <2>1. Least(Batch(runs'[a])) = x
      BY <1>4 DEF Batch
    <2> HIDE DEF x
    <2>2. x \notin stored => ~Hidden(x) /\ ~Visible(x)
      BY DEF TrustInv, HandlerInv, Hidden, Visible
    <2>3. x \notin runs'[a].page => x \notin stored
      BY <1>4
    <2> QED
      BY <1>2, <1>4, <2>1, <2>2, <2>3 DEF PageInv, RunAt, Hidden, Visible
  <1>8. ClearInv(a)'
    BY <1>4 DEF ClearInv, RunAt
  <1>9. NoneLeaked'
    BY <1>2 DEF TrustInv, NoneLeaked, Visible
  <1> QED
    BY <1>1, <1>2, <1>4, <1>5, <1>6, <1>7, <1>8, <1>9, ReadStep DEF TrustInv, Flagged, RunAt

LEMMA WritePageStep ==
    ASSUME TrustInv, TrustTypeOK', NEW a \in Actors, WritePage(a)
    PROVE  TrustInv'
  <1> DEFINE r == runs[a]
  <1>1. PICK x : x = Least(Batch(r))
    OBVIOUS
  <1>2. /\ runs'[a] = [r EXCEPT !.stage = "write", !.page = {}, !.hide = r.hide \ {x},
                                !.show = IF r.hide # {} THEN r.show ELSE r.show \ {x}]
        /\ \A b \in Actors : b # a => runs'[b] = runs[b]
    BY <1>1, WritePageRun DEF TrustInv
  <1>3. /\ r.stage = "page" /\ r \in Runs /\ RunInv(a) /\ BatchInv(a) /\ PageInv(a)
        /\ ~RunAt(a, "idle")
    BY DEF WritePage, RunAt, TrustInv, TrustTypeOK, RunsInv
  <1>4. UNCHANGED <<stored, trusted, applied, on, filtered, showing, publishing, writing, slipped>>
    BY DEF WritePage, switches
  <1>5. /\ runs'[a].stage = "write" /\ runs'[a].hide = r.hide \ {x}
        /\ runs'[a].show = IF r.hide # {} THEN r.show ELSE r.show \ {x}
        /\ runs'[a].on = r.on /\ runs'[a].ranking = r.ranking
    BY <1>2, <1>3 DEF Runs
  <1>6. /\ r.page \subseteq {x}
        /\ x \notin r.page => IF r.hide # {} THEN Visible(x) => x \in Admitted
                                             ELSE Hidden(x) => x \notin Admitted
    BY <1>1, <1>3 DEF PageInv, RunAt
  <1>7. /\ shown' = IF r.hide # {} THEN shown \ (r.page \ Admitted)
                                   ELSE shown \cup (r.page \cap Admitted)
        /\ raced \subseteq raced' /\ r.page \ stored \subseteq raced'
        /\ writing.stage = "del" => r.page \cap {writing.author} \subseteq raced'
    BY DEF WritePage
  <1>8. Admitted' = Admitted /\ Admitted \subseteq Authors
    BY <1>4, AdmittedFacts DEF Admitted, TrustInv
  <1>9. \A y \in Authors : Hidden(y)' =>
           \/ Hidden(y) /\ ~(r.hide = {} /\ y \in r.page /\ y \in Admitted)
           \/ y \notin Admitted
    BY <1>4, <1>7 DEF Hidden
  <1>10. \A y \in Authors : Visible(y)' =>
           \/ Visible(y) /\ ~(r.hide # {} /\ y \in r.page /\ y \notin Admitted)
           \/ r.hide = {} /\ y \in Admitted
    BY <1>4, <1>7 DEF Visible
  <1>11. \A y \in Authors : y \notin Admitted => on /\ trusted # {} /\ y \notin trusted
    BY AdmittedFacts DEF TrustInv
  <1>12. RunInv(a)'
    BY <1>3, <1>4, <1>5 DEF RunInv
  <1>13. BatchInv(a)'
    <2>1. ASSUME NEW y \in Admitted, Hidden(y)' PROVE y \in runs'[a].show
      <3>1. Hidden(y) /\ ~(r.hide = {} /\ y \in r.page)
        BY <1>8, <1>9, <2>1
      <3>2. y \in r.show
        BY <1>3, <2>1, <3>1 DEF BatchInv, RunAt
      <3>3. CASE r.hide # {}
        BY <1>5, <3>2, <3>3
      <3>4. CASE r.hide = {}
        <4>1. y # x
          BY <1>6, <2>1, <3>1, <3>4
        <4> QED
          BY <1>5, <3>2, <3>4, <4>1
      <3> QED
        BY <3>3, <3>4
    <2>2. ASSUME NEW y \in Authors, Visible(y)', y \notin Admitted PROVE y \in runs'[a].hide
      <3>1. Visible(y) /\ ~(r.hide # {} /\ y \in r.page)
        BY <1>10, <2>2
      <3>2. y \in r.hide
        BY <1>3, <2>2, <3>1 DEF BatchInv, RunAt
      <3>3. y # x
        BY <1>6, <2>2, <3>1, <3>2
      <3> QED
        BY <1>5, <3>2, <3>3
    <2> QED
      BY <1>8, <2>1, <2>2 DEF BatchInv
  <1>14. PageInv(a)' /\ ClearInv(a)'
    BY <1>5 DEF PageInv, ClearInv, RunAt
  <1>15. RunsInv' /\ Exclusive'
    BY <1>2, <1>3, <1>4, <1>12, <1>13, <1>14, RunsAfter, ExclusiveAfter DEF TrustInv
  <1>16. HandlerInv'
    <2>1. shown' \subseteq stored \cup raced'
      BY <1>7 DEF TrustInv, HandlerInv
    <2>2. writing.stage = "del" => writing.author \notin shown' \ raced'
      BY <1>7 DEF TrustInv, HandlerInv
    <2> QED
      BY <1>4, <2>1, <2>2 DEF TrustInv, HandlerInv
  <1>17. Flagged'
    BY <1>4, <1>9, <1>11 DEF TrustInv, Flagged
  <1>18. NoneLost'
    BY <1>4, <1>9, <1>11 DEF TrustInv, NoneLost, KeptOf
  <1>19. NoneLeaked'
    <2> SUFFICES ASSUME applied # {}, trusted # {}, ~showing, NEW y \in Authors, Visible(y)'
                 PROVE  y \in applied \cup trusted
      BY <1>4 DEF NoneLeaked
    <2>1. CASE Visible(y)
      BY <2>1 DEF TrustInv, NoneLeaked
    <2>2. CASE y \in Admitted
      <3>1. on
        BY <1>3 DEF RunInv
      <3> QED
        BY <2>2, <3>1 DEF Admitted
    <2> QED
      BY <1>10, <2>1, <2>2
  <1>20. ~Quiet' /\ publishing' # "reindex"
    BY <1>3, <1>4, <1>5 DEF TrustInv, Exclusive, Actors, Quiet, RunAt
  <1> QED
    BY <1>15, <1>16, <1>17, <1>18, <1>19, <1>20 DEF TrustInv, SettledInv

(* After the last write the sets are in line with the ranking recorded.    *)
LEMMA RecordAppliedStep ==
    ASSUME TrustInv, TrustTypeOK', NEW a \in Actors, RecordApplied(a)
    PROVE  TrustInv'
  <1>1. /\ runs'[a] = [runs[a] EXCEPT !.stage = "clear"]
        /\ \A b \in Actors : b # a => runs'[b] = runs[b]
    BY StageRun DEF TrustInv, RecordApplied, Stages
  <1>2. /\ runs[a].stage = "write" /\ runs[a] \in Runs /\ RunInv(a) /\ BatchInv(a)
        /\ ~RunAt(a, "idle")
    BY DEF RecordApplied, RunAt, TrustInv, TrustTypeOK, RunsInv
  <1>3. UNCHANGED <<stored, shown, trusted, on, filtered, showing, publishing, writing, raced,
                    slipped>>
    BY DEF RecordApplied, switches
  <1>4. runs[a].hide = {} /\ runs[a].show = {}
    BY DEF RecordApplied, Batch
  <1>5. applied' = IF on THEN trusted ELSE {}
    BY <1>2 DEF RecordApplied, RunInv
  <1>6. /\ runs'[a].stage = "clear" /\ runs'[a].on = runs[a].on
        /\ runs'[a].ranking = runs[a].ranking
    BY <1>1, <1>2 DEF Runs
  <1>7. Agreed /\ Admitted' = Admitted
    BY <1>2, <1>3, <1>4 DEF BatchInv, RunAt, Agreed, Admitted
  <1>8. Agreed'
    BY <1>3, <1>7 DEF Agreed, Hidden, Visible
  <1>9. InLine'
    BY <1>3, <1>5, <1>8 DEF InLine
  <1>10. RunInv(a)'
    BY <1>2, <1>3, <1>6 DEF RunInv
  <1>11. BatchInv(a)' /\ PageInv(a)' /\ ClearInv(a)'
    BY <1>6, <1>9 DEF BatchInv, PageInv, ClearInv, RunAt
  <1>12. RunsInv' /\ Exclusive'
    BY <1>1, <1>2, <1>3, <1>10, <1>11, RunsAfter, ExclusiveAfter DEF TrustInv
  <1>13. HandlerInv' /\ Flagged'
    BY <1>3 DEF TrustInv, HandlerInv, Flagged, Hidden
  <1>14. NoneLost'
    <2> SUFFICES ASSUME NEW x \in Authors, Hidden(x)
                 PROVE  x \notin KeptOf(applied', trusted) /\ applied' \cup trusted # {}
      BY <1>3 DEF NoneLost, Hidden
    <2>1. on /\ trusted # {} /\ x \notin trusted
      BY <1>7, AdmittedFacts DEF Agreed, TrustInv
    <2> QED
      BY <1>5, <2>1 DEF KeptOf
  <1>15. NoneLeaked'
    BY <1>3, <1>5, <1>7 DEF NoneLeaked, Agreed, Visible, Admitted
  <1>16. ~Quiet' /\ publishing' # "reindex"
    BY <1>2, <1>3, <1>6 DEF TrustInv, Exclusive, Actors, Quiet, RunAt
  <1> QED
    BY <1>12, <1>13, <1>14, <1>15, <1>16 DEF TrustInv, SettledInv

-----------------------------------------------------------------------------
(* The invariant.                                                          *)

LEMMA TrustInitInv == TrustInit => TrustInv
  <1> SUFFICES ASSUME TrustInit PROVE TrustInv
    OBVIOUS
  <1>1. TrustTypeOK
    BY TrustTypeInit
  <1>2. \A a \in Actors : runs[a].stage = "idle"
    BY DEF TrustInit, IdleRun
  <1>3. Exclusive /\ RunsInv
    BY <1>2 DEF Exclusive, Actors, RunsInv, RunInv, BatchInv, PageInv, ClearInv, RunAt
  <1>4. HandlerInv
    BY DEF TrustInit, HandlerInv, NoWrite
  <1>5. \A x : ~Hidden(x)
    BY DEF TrustInit, Hidden
  <1>6. ~on /\ applied = {}
    BY DEF TrustInit
  <1>7. Admitted = Authors
    BY <1>6 DEF Admitted
  <1> QED
    BY <1>1, <1>3, <1>4, <1>5, <1>6, <1>7
    DEF TrustInv, Flagged, NoneLost, NoneLeaked, SettledInv, InLine, Agreed

LEMMA NobodyIsNoAuthor == \A x \in Authors : x # 0
  BY TrustAssumption

LEMMA HandlerPreserves ==
    ASSUME TrustInv, TrustTypeOK',
           \/ \E x \in Authors : PutPost(x) \/ DelPost(x)
           \/ GatedAdd \/ DelFromGraph
    PROVE  TrustInv'
  <1> USE NobodyIsNoAuthor DEF switches
  <1>1. ASSUME NEW x \in Authors, PutPost(x) PROVE TrustInv'
    <2>1. HandlerInv'
      BY <1>1 DEF PutPost, TrustInv, HandlerInv
    <2>2. \A y \in Authors : (Hidden(y)' => Hidden(y)) /\ (Visible(y)' => Visible(y))
      BY <1>1 DEF PutPost, Hidden, Visible, NoWrite
    <2> QED
      BY <1>1, <2>1, <2>2, HandlerStep DEF PutPost
  <1>2. ASSUME NEW x \in Authors, DelPost(x) PROVE TrustInv'
    <2>1. HandlerInv'
      BY <1>2 DEF DelPost, TrustInv, HandlerInv
    <2>2. \A y \in Authors : (Hidden(y)' => Hidden(y)) /\ (Visible(y)' => Visible(y))
      BY <1>2 DEF DelPost, Hidden, Visible, NoWrite
    <2> QED
      BY <1>2, <2>1, <2>2, HandlerStep DEF DelPost
  <1>3. CASE GatedAdd
    <2> DEFINE w == writing.author
    <2>1. /\ shown' = shown \cup ({w} \cap Admitted) /\ writing'.author = 0
          /\ writing'.stage = "none" /\ stored' = stored /\ raced' = raced
          /\ w \in stored /\ slipped \subseteq slipped'
          /\ ~on /\ ~showing /\ applied # {} => w \in applied \cup slipped'
      BY <1>3 DEF GatedAdd, NoWrite, TrustInv, HandlerInv
    <2>2. HandlerInv'
      BY <2>1 DEF TrustInv, HandlerInv
    <2>3. \A y \in Authors : Hidden(y)' => Hidden(y) \/ y \notin Admitted
      BY <2>1 DEF Hidden
    <2>4. ASSUME NEW y \in Authors, Visible(y)'
          PROVE  \/ Visible(y)
                 \/ /\ y \in Admitted
                    /\ applied # {} /\ trusted # {} /\ ~showing => y \in applied \cup trusted
      <3>1. Visible(y) \/ (y = w /\ y \in Admitted)
        BY <2>1, <2>4 DEF Visible
      <3>2. ASSUME y = w, y \in Admitted, applied # {}, trusted # {}, ~showing
            PROVE  y \in applied \cup trusted
        BY <2>1, <2>4, <3>2 DEF Admitted, Visible
      <3> QED
        BY <3>1, <3>2
    <2> QED
      BY <1>3, <2>2, <2>3, <2>4, HandlerStep DEF GatedAdd
  <1>4. CASE DelFromGraph
    <2>1. HandlerInv'
      BY <1>4 DEF DelFromGraph, TrustInv, HandlerInv, NoWrite
    <2>2. \A y \in Authors : (Hidden(y)' => Hidden(y)) /\ (Visible(y)' => Visible(y))
      BY <1>4 DEF DelFromGraph, Hidden, Visible, NoWrite
    <2> QED
      BY <1>4, <2>1, <2>2, HandlerStep DEF DelFromGraph
  <1> QED
    BY <1>1, <1>2, <1>3, <1>4

(* The switch, the publish of the job and a run cut short.                 *)
LEMMA PublishPreserves ==
    ASSUME ~MayOverlap, TrustInv, TrustTypeOK',
           \/ \E to \in BOOLEAN : Toggle(to)
           \/ PublishRanking \/ ReconcileAgain
           \/ \E R \in SUBSET Authors : Reindex(R)
           \/ \E a \in Actors : CutShort(a)
    PROVE  TrustInv'
  <1> USE DEF switches
  <1>1. ASSUME NEW to \in BOOLEAN, Toggle(to) PROVE TrustInv'
    <2>1. publishing = "none" /\ RunAt("watcher", "idle")
      BY <1>1 DEF Toggle
    <2>2. \A b \in Actors : RunAt(b, "idle")
      BY <2>1 DEF TrustInv, Exclusive, Actors
    <2>3. /\ runs' = Reconcile("watcher", on') /\ publishing' = "none"
          /\ filtered' = (filtered \/ on')
          /\ UNCHANGED <<stored, shown, trusted, applied, showing, writing, raced, slipped>>
      BY <1>1, <2>1 DEF Toggle
    <2>4. "watcher" \in Actors
      BY DEF Actors
    <2> QED
      BY <2>2, <2>3, <2>4, BeginStep
  <1>2. CASE PublishRanking
    <2>1. publishing = "none" /\ RunAt("watcher", "idle")
      BY <1>2 DEF PublishRanking
    <2>2. \A b \in Actors : RunAt(b, "idle")
      BY <2>1 DEF TrustInv, Exclusive, Actors
    <2>3. /\ runs' = Reconcile("job", on') /\ publishing' = "first"
          /\ UNCHANGED <<stored, shown, trusted, applied, showing, writing, raced, slipped>>
      BY <1>2 DEF PublishRanking
    <2>4. filtered' = (filtered \/ on')
      BY <1>2 DEF PublishRanking, TrustInv, Flagged, TrustTypeOK
    <2>5. "job" \in Actors
      BY DEF Actors
    <2> QED
      BY <2>2, <2>3, <2>4, <2>5, BeginStep
  <1>3. CASE ReconcileAgain
    <2>1. publishing = "second" /\ RunAt("job", "idle")
      BY <1>3 DEF ReconcileAgain
    <2>2. \A b \in Actors : RunAt(b, "idle")
      BY <2>1 DEF TrustInv, Exclusive, Actors
    <2>3. /\ runs' = Reconcile("job", on') /\ publishing' = "last"
          /\ UNCHANGED <<stored, shown, trusted, applied, showing, writing, raced, slipped>>
      BY <1>3 DEF ReconcileAgain
    <2>4. filtered' = (filtered \/ on')
      BY <1>3 DEF ReconcileAgain, TrustInv, Flagged, TrustTypeOK
    <2>5. "job" \in Actors
      BY DEF Actors
    <2> QED
      BY <2>2, <2>3, <2>4, <2>5, BeginStep
  <1>4. ASSUME NEW R \in SUBSET Authors, Reindex(R) PROVE TrustInv'
    <2>1. publishing = "reindex" /\ publishing' = "second" /\ trusted' = R
      BY <1>4 DEF Reindex
    <2>2. UNCHANGED <<stored, shown, applied, on, filtered, showing, runs, writing, raced, slipped>>
      BY <1>4 DEF Reindex
    <2>3. \A b \in Actors : runs'[b].stage = "idle"
      BY <2>1, <2>2 DEF TrustInv, Exclusive, Actors, RunAt
    <2>4. RunsInv' /\ Exclusive'
      BY <2>3, IdleRunsInv DEF RunsInv, Exclusive, Actors, RunAt
    <2>5. Agreed /\ applied = IF on THEN trusted ELSE {}
      BY <2>1 DEF TrustInv, SettledInv, InLine
    <2>6. HandlerInv' /\ Flagged'
      BY <2>2 DEF TrustInv, HandlerInv, Flagged, Hidden
    <2>7. NoneLost'
      <3> SUFFICES ASSUME NEW x \in Authors, Hidden(x)
                   PROVE  x \notin KeptOf(applied, R) /\ applied \cup R # {}
        BY <2>1, <2>2 DEF NoneLost, Hidden
      <3>1. applied # {} /\ x \notin applied
        BY <2>5, AdmittedFacts DEF Agreed, TrustInv
      <3> QED
        BY <3>1 DEF KeptOf
    <2>8. NoneLeaked'
      BY <2>2, <2>5 DEF NoneLeaked, Agreed, Visible, Admitted
    <2>9. ~Quiet' /\ publishing' # "reindex"
      BY <2>1 DEF Quiet
    <2> QED
      BY <2>4, <2>6, <2>7, <2>8, <2>9 DEF TrustInv, SettledInv
  <1>5. ASSUME NEW a \in Actors, CutShort(a) PROVE TrustInv'
    <2>1. runs'[a].stage = "idle" /\ \A b \in Actors : b # a => runs'[b] = runs[b]
      BY <1>5, EndedRun DEF CutShort, TrustInv
    <2>2. /\ ~RunAt(a, "idle") \/ (a = "job" /\ publishing # "none")
          /\ publishing' = IF a = "job" THEN "none" ELSE publishing
          /\ atRest' = FALSE
          /\ UNCHANGED <<stored, shown, trusted, applied, on, filtered, showing, writing, raced, slipped>>
      BY <1>5 DEF CutShort
    <2>3. \A b \in Actors : runs'[b].stage = "idle"
      BY <2>1, <2>2 DEF TrustInv, Exclusive, Actors, RunAt
    <2>4. RunsInv' /\ Exclusive'
      BY <2>3, IdleRunsInv DEF RunsInv, Exclusive, Actors, RunAt
    <2>5. HandlerInv' /\ Flagged' /\ NoneLost' /\ NoneLeaked'
      BY <2>2 DEF TrustInv, HandlerInv, Flagged, NoneLost, NoneLeaked, Hidden, Visible
    <2>6. publishing' # "reindex"
      BY <2>2 DEF TrustInv, Exclusive, Actors
    <2> QED
      BY <2>2, <2>4, <2>5, <2>6 DEF TrustInv, SettledInv
  <1> QED
    BY <1>1, <1>2, <1>3, <1>4, <1>5

(* The steps of a run that only read or flag.                              *)
LEMMA FlagPreserves ==
    ASSUME TrustInv, TrustTypeOK', NEW a \in Actors, FlagFiltered(a) \/ ReadRankings(a)
    PROVE  TrustInv'
  <1>1. runs[a] \in Runs /\ RunInv(a)
    BY DEF TrustInv, TrustTypeOK, RunsInv
  <1>2. /\ UNCHANGED <<stored, shown, trusted, applied, on, showing, writing, raced, slipped, publishing>>
        /\ runs[a].stage \in {"flag", "ranking", "copy"}
        /\ filtered => filtered'
    BY DEF FlagFiltered, ReadRankings, switches, RunAt
  <1>3. on => filtered'
    BY <1>2 DEF TrustInv, Flagged
  <1>4. /\ \/ /\ runs[a].stage = "flag"
              /\ runs'[a] = [runs[a] EXCEPT !.stage = "ranking"]
           \/ /\ runs[a].stage = "ranking"
              /\ runs'[a] = [runs[a] EXCEPT !.stage = "copy", !.ranking = trusted]
           \/ /\ runs[a].stage = "copy"
              /\ runs'[a] = [runs[a] EXCEPT !.stage = "decide", !.applied = applied]
        /\ \A b \in Actors : b # a => runs'[b] = runs[b]
    <2>1. CASE FlagFiltered(a)
      BY <2>1, StageRun DEF FlagFiltered, RunAt, Stages, TrustInv
    <2>2. CASE ReadRankings(a)
      BY <2>2, ReadRankingsRun DEF TrustInv
    <2> QED
      BY <2>1, <2>2
  <1>5. runs'[a].stage \in {"ranking", "copy", "decide"}
    BY <1>1, <1>4 DEF Runs
  <1>6. RunInv(a)'
    <2>1. on /\ runs[a].on = on
      BY <1>1, <1>2 DEF RunInv
    <2>2. /\ runs'[a].on = on
          /\ runs'[a].stage \in {"copy", "decide"} => runs'[a].ranking = trusted
          /\ runs'[a].stage = "decide" => runs'[a].applied = applied
      <3>1. CASE runs[a].stage = "flag"
        BY <1>1, <1>4, <2>1, <3>1 DEF Runs
      <3>2. CASE runs[a].stage = "ranking"
        BY <1>1, <1>4, <2>1, <3>2 DEF Runs
      <3>3. CASE runs[a].stage = "copy"
        <4>1. runs[a].ranking = trusted
          BY <1>1, <3>3 DEF RunInv
        <4> QED
          BY <1>1, <1>4, <2>1, <3>3, <4>1 DEF Runs
      <3> QED
        BY <1>4, <3>1, <3>2, <3>3
    <2> QED
      BY <1>2, <1>5, <2>1, <2>2 DEF RunInv
  <1>7. BatchInv(a)' /\ PageInv(a)' /\ ClearInv(a)'
    BY <1>5 DEF BatchInv, PageInv, ClearInv, RunAt
  <1>8. NoneLeaked'
    BY <1>2 DEF TrustInv, NoneLeaked, Visible
  <1> QED
    BY <1>2, <1>3, <1>4, <1>5, <1>6, <1>7, <1>8, ReadStep DEF RunAt

(* The ends of a run: a ranking that is already applied, sets that were    *)
(* never filtered, and the last call.                                      *)
LEMMA NothingMoves ==
    ASSUME TrustInv, InLine, NEW a \in Actors, Ended(a), ~RunAt(a, "idle"), TrustTypeOK',
           UNCHANGED <<stored, shown, trusted, applied, on, filtered, showing, writing, raced, slipped>>
    PROVE  TrustInv'
  <1>1. HandlerInv' /\ Flagged' /\ NoneLost' /\ NoneLeaked'
    BY DEF TrustInv, HandlerInv, Flagged, NoneLost, NoneLeaked, Hidden, Visible
  <1>2. InLine'
    BY DEF InLine, Agreed, Hidden, Visible, Admitted
  <1> QED
    BY <1>1, <1>2, EndStep

LEMMA ApplyRankingPreserves ==
    ASSUME TrustInv, TrustTypeOK', NEW a \in Actors, ApplyRanking(a)
    PROVE  TrustInv'
  <1>1. CASE runs[a].applied = runs[a].ranking /\ ~showing
    <2>1. /\ Ended(a) /\ runs[a].stage = "decide"
          /\ UNCHANGED <<stored, shown, trusted, applied, on, filtered, showing, writing, raced, slipped>>
      BY <1>1 DEF ApplyRanking, switches, RunAt
    <2>2. on /\ applied = trusted
      BY <1>1, <2>1 DEF TrustInv, RunsInv, RunInv
    <2>3. InLine
      <3>1. ASSUME NEW x \in Authors, Hidden(x) PROVE x \notin Admitted
        BY <2>2, <3>1 DEF TrustInv, NoneLost, KeptOf, Admitted
      <3>2. ASSUME NEW x \in Authors, Visible(x) PROVE x \in Admitted
        BY <1>1, <2>2, <3>2 DEF TrustInv, NoneLeaked, Admitted
      <3> QED
        BY <2>2, <3>1, <3>2 DEF InLine, Agreed
    <2> QED
      BY <2>1, <2>3, NothingMoves DEF RunAt
  <1>2. CASE ~(runs[a].applied = runs[a].ranking /\ ~showing)
    BY <1>2, DecideStep
  <1> QED
    BY <1>1, <1>2

LEMMA ShowAllPreserves ==
    ASSUME TrustInv, TrustTypeOK', NEW a \in Actors, ShowAll(a)
    PROVE  TrustInv'
  <1>1. CASE Ended(a)
    <2>1. runs'[a].stage = "idle"
      BY <1>1, EndedRun DEF Ended, TrustInv
    <2>2. ASSUME NEW s \in Stages, runs' = RunTo(a, s), s # "idle" PROVE FALSE
      BY <2>1, <2>2, StageRun DEF TrustInv, TrustTypeOK, Runs
    <2>3. runs[a] \in Runs
      BY DEF TrustInv, TrustTypeOK
    <2>4. RunAt(a, "look") /\ ~filtered /\ applied = {} /\ UNCHANGED showing
      BY <2>1, <2>2, <2>3 DEF ShowAll, RunTo, TrustInv, TrustTypeOK, Runs, Stages
    <2>5. ~on
      BY <2>4 DEF TrustInv, RunsInv, RunInv, RunAt
    <2>6. InLine
      BY <2>4, <2>5 DEF TrustInv, Flagged, InLine, Agreed, Admitted
    <2>7. UNCHANGED <<stored, shown, trusted, applied, on, filtered, showing, writing, raced, slipped>>
      BY <2>4 DEF ShowAll
    <2> QED
      BY <1>1, <2>4, <2>6, <2>7, NothingMoves DEF RunAt
  <1>2. CASE ~Ended(a)
    BY <1>2, ShowAllStep
  <1> QED
    BY <1>1, <1>2

LEMMA ClearRecordsPreserves ==
    ASSUME TrustInv, TrustTypeOK', NEW a \in Actors, ClearRecords(a)
    PROVE  TrustInv'
  <1>1. /\ runs[a].stage = "clear" /\ Ended(a) /\ showing' = FALSE
        /\ filtered' = IF runs[a].on THEN filtered ELSE FALSE
        /\ UNCHANGED <<stored, shown, trusted, applied, on, writing, raced, slipped>>
    BY DEF ClearRecords, RunAt
  <1>2. InLine /\ runs[a].on = on
    BY <1>1 DEF TrustInv, RunsInv, RunInv, ClearInv, RunAt
  <1>3. \A x \in Authors : Hidden(x) => on
    BY <1>2, AdmittedFacts DEF TrustInv, InLine, Agreed
  <1>4. HandlerInv' /\ NoneLost'
    BY <1>1 DEF TrustInv, HandlerInv, NoneLost, Hidden
  <1>5. Flagged'
    BY <1>1, <1>2, <1>3 DEF TrustInv, Flagged, Hidden
  <1>6. NoneLeaked'
    BY <1>1, <1>2 DEF NoneLeaked, InLine, Agreed, Admitted, Visible
  <1>7. InLine'
    BY <1>1, <1>2 DEF InLine, Agreed, Hidden, Visible, Admitted
  <1> QED
    BY <1>1, <1>4, <1>5, <1>6, <1>7, EndStep DEF RunAt

LEMMA TrustInvStep ==
    ASSUME ~MayOverlap, TrustInv, [TrustNext]_trustVars
    PROVE  TrustInv'
  <1>1. TrustTypeOK'
    BY TrustTypeStep DEF TrustInv
  <1>2. CASE UNCHANGED trustVars
    <2>1. /\ runs' = runs /\ publishing' = publishing /\ atRest' = atRest
          /\ UNCHANGED <<stored, shown, trusted, applied, on, filtered, showing, writing, raced, slipped>>
      BY <1>2 DEF trustVars
    <2>2. HandlerInv'
      BY <2>1 DEF TrustInv, HandlerInv
    <2>3. \A y \in Authors : (Hidden(y)' => Hidden(y)) /\ (Visible(y)' => Visible(y))
      BY <2>1 DEF Hidden, Visible
    <2> QED
      BY <1>1, <2>1, <2>2, <2>3, HandlerStep
  <1>3. CASE TrustNext
    BY <1>1, <1>3, HandlerPreserves, PublishPreserves, FlagPreserves, ApplyRankingPreserves,
       ShowAllPreserves, ReadPageStep, WritePageStep, RecordAppliedStep, ClearRecordsPreserves
    DEF TrustNext
  <1> QED
    BY <1>2, <1>3

-----------------------------------------------------------------------------
(* Every value of the filter's state, in Redis and in a run under way,     *)
(* keeps its type, however switches, publishes and runs overlap            *)
(* (trust_filter/reconcile.rs).                                            *)
THEOREM TrustTypeCorrect == TrustSpec => []TrustTypeOK
  <1>1. TrustInit => TrustTypeOK
    BY TrustTypeInit
  <1>2. TrustTypeOK /\ [TrustNext]_trustVars => TrustTypeOK'
    BY TrustTypeStep
  <1> QED
    BY <1>1, <1>2, PTL DEF TrustSpec

(* As long as no start of the watcher falls into a publish, a post that    *)
(* the shared sets leave out is covered by the filtered record at every    *)
(* moment: while a run is under way and after one was cut short at any     *)
(* step (may_hide_posts, post/stream.rs).                                  *)
THEOREM HiddenPostsAreFlagged ==
    ASSUME ~MayOverlap
    PROVE  TrustSpec => []HiddenIsFlagged
  <1>1. TrustInit => TrustInv
    BY TrustInitInv
  <1>2. TrustInv /\ [TrustNext]_trustVars => TrustInv'
    BY TrustInvStep
  <1>3. TrustInv => HiddenIsFlagged
    <2> SUFFICES ASSUME TrustInv, NEW x \in (stored \ shown) \cap Steady PROVE filtered
      BY DEF HiddenIsFlagged
    <2>1. x \in Authors /\ Hidden(x)
      BY DEF TrustInv, TrustTypeOK, Steady, Hidden
    <2> QED
      BY <2>1 DEF TrustInv, Flagged
  <1> QED
    BY <1>1, <1>2, <1>3, PTL DEF TrustSpec

(* As long as no start of the watcher falls into a publish, a run that     *)
(* ends well leaves in the shared sets exactly the posts of the authors    *)
(* the filter admits, and records the ranking in force, whatever switches, *)
(* rankings, posts and runs cut short came before (reconcile.rs).          *)
THEOREM RunsSettleTheSets ==
    ASSUME ~MayOverlap
    PROVE  TrustSpec => []SettledSetsAgree
  <1>1. TrustInit => TrustInv
    BY TrustInitInv
  <1>2. TrustInv /\ [TrustNext]_trustVars => TrustInv'
    BY TrustInvStep
  <1>3. TrustInv => SettledSetsAgree
    <2> SUFFICES ASSUME TrustInv, Quiet, atRest
                 PROVE  /\ shown \cap (Steady \ slipped) = (stored \cap Admitted) \cap (Steady \ slipped)
                        /\ applied = IF on THEN trusted ELSE {}
      BY DEF SettledSetsAgree
    <2>1. InLine
      BY DEF TrustInv, SettledInv
    <2>2. ASSUME NEW x \in Steady \ slipped, x \in shown PROVE x \in stored /\ x \in Admitted
      <3>1. x \in Authors /\ Visible(x) /\ x \in stored
        BY <2>2 DEF TrustInv, TrustTypeOK, HandlerInv, Steady, Visible
      <3> QED
        BY <2>1, <3>1 DEF InLine, Agreed
    <2>3. ASSUME NEW x \in Steady \ slipped, x \in stored, x \in Admitted PROVE x \in shown
      <3>1. x \in Authors /\ (x \notin shown => Hidden(x))
        BY <2>3 DEF TrustInv, TrustTypeOK, Steady, Hidden
      <3> QED
        BY <2>1, <2>3, <3>1 DEF InLine, Agreed
    <2> QED
      BY <2>1, <2>2, <2>3 DEF InLine
  <1> QED
    BY <1>1, <1>2, <1>3, PTL DEF TrustSpec

-----------------------------------------------------------------------------
(* The retry queue.                                                        *)

(* calculate_backoff returns a delay between 0 and the ceiling.            *)
LEMMA BackoffType ==
    ASSUME NEW e \in Result, NEW c \in Nat
    PROVE  BackoffFor(e, c) \in Nat /\ InitialFor(e) \in Nat
  <1>1. /\ InitialFor(e) \in Nat /\ CeilingFor(e) \in Nat
    BY PolicyAssumption DEF InitialFor, CeilingFor
  <1>2. \A d, m : m \in Nat =>
           (IF Fits(2 ^ c) /\ Fits(d) /\ d \in 0 .. m THEN d ELSE m) \in Nat
    OBVIOUS
  <1> QED
    BY <1>1, <1>2 DEF BackoffFor, CalculateBackoff

(* A rescheduled event is again an entry, under the same nonce.            *)
LEMMA RescheduledType ==
    ASSUME NEW e \in Entry, NEW r \in Result, now \in Nat
    PROVE  /\ Rescheduled(e, r) \in Entry
           /\ Rescheduled(e, r).nonce = e.nonce
  BY BackoffType DEF Rescheduled, Entry

(* A document never equals the sentinel that stands for no document.       *)
LEMMA NoEntryIsNoEntry == \A e \in Entry : e # NoEntry
  BY QueueAssumption

(***************************************************************************)
(* Type correctness.                                                       *)
(***************************************************************************)
LEMMA TypeInit == Init => TypeOK
  <1> SUFFICES ASSUME Init PROVE TypeOK
    OBVIOUS
  <1>1. json \in [Uris -> Entry \cup {NoEntry}]
    <2>1. [nonce |-> 0, count |-> 0, at |-> 0] \in Entry
      BY DEF Entry
    <2> QED
      BY <2>1 DEF Init
  <1>2. zset \in [Uris -> Nat \cup {Absent}] /\ latest \in [Uris -> Nat \cup {Absent}]
    BY DEF Init, Absent
  <1>3. /\ pc \in [Procs -> {"idle", "range", "mget", "clean", "batch", "handling"}]
        /\ \A p \in Procs : pc[p] # "handling"
    BY DEF Init
  <1>4. stopping \in BOOLEAN
    BY DEF Init
  <1> QED
    BY <1>1, <1>2, <1>3, <1>4 DEF Init, TypeOK

LEMMA EndRunType ==
    ASSUME TypeOK, NEW p \in Procs, EndRun(p)
    PROVE  /\ pc' \in [Procs -> {"idle", "range", "mget", "clean", "batch", "handling"}]
           /\ runNow' \in [Procs -> Nat]
           /\ keys' \in [Procs -> SUBSET Member]
           /\ batch' \in [Procs -> SUBSET Held]
           /\ current' \in [Procs -> Held \cup {NoEntry}]
           /\ \A q \in Procs : pc'[q] = "handling" => current'[q] \in batch'[q]
  BY DEF TypeOK, EndRun

LEMMA TypeStep == TypeOK /\ [Next]_vars => TypeOK'
  <1> SUFFICES ASSUME TypeOK, [Next]_vars PROVE TypeOK'
    OBVIOUS
  <1>1. ASSUME NEW u \in Uris, NEW e \in {"dependency", "transient"}, Enqueue(u, e)
        PROVE  TypeOK'
    <2>1. InitialFor(e) \in Nat
      BY PolicyAssumption DEF InitialFor
    <2>2. [nonce |-> lastNonce', count |-> 0, at |-> now + InitialFor(e)] \in Entry
      BY <1>1, <2>1 DEF Enqueue, TypeOK, Entry
    <2> QED
      BY <1>1, <2>1, <2>2 DEF Enqueue, PutToIndex, TypeOK, procVars
  <1>2. ASSUME NEW p \in Procs, StartRun(p) PROVE TypeOK'
    BY <1>2 DEF StartRun, TypeOK
  <1>3. ASSUME NEW p \in Procs, FetchRange(p) PROVE TypeOK'
    <2>1. PICK S \in ReadyRanges(runNow[p]) :
             IF S = {} THEN EndRun(p)
             ELSE /\ keys' = [keys EXCEPT ![p] =
                              {[uri |-> u, score |-> zset[u]] : u \in S}]
                  /\ pc' = [pc EXCEPT ![p] = "mget"]
                  /\ UNCHANGED <<runNow, batch, current>>
      BY <1>3 DEF FetchRange
    <2>2. CASE S = {}
      BY <1>3, <2>1, <2>2, EndRunType DEF FetchRange, TypeOK
    <2>3. CASE S # {}
      <3>1. \A u \in S : u \in Uris /\ zset[u] \in Nat
        BY DEF ReadyRanges, ReadyKeys, TypeOK
      <3>2. {[uri |-> u, score |-> zset[u]] : u \in S} \in SUBSET Member
        BY <3>1 DEF Member
      <3> QED
        BY <1>3, <2>1, <2>3, <3>2 DEF FetchRange, TypeOK
    <2> QED
      BY <2>2, <2>3
  <1>4. ASSUME NEW p \in Procs, FetchState(p) PROVE TypeOK'
    <2> DEFINE stale == {k \in keys[p] : json[k.uri] = NoEntry}
               docs == {[uri |-> k.uri, score |-> k.score, entry |-> json[k.uri]]
                           : k \in keys[p] \ stale}
    <2>1. docs \in SUBSET Held
      BY DEF TypeOK, Member, Held
    <2>2. stale \in SUBSET Member
      BY DEF TypeOK
    <2>3. /\ keys' = [keys EXCEPT ![p] = stale]
          /\ batch' = [batch EXCEPT ![p] = docs]
          /\ pc' = [pc EXCEPT ![p] = IF stale # {} THEN "clean" ELSE "batch"]
      BY <1>4 DEF FetchState
    <2> HIDE DEF stale, docs
    <2> QED
      BY <1>4, <2>1, <2>2, <2>3 DEF FetchState, TypeOK
  <1>5. ASSUME NEW p \in Procs, CleanStale(p) PROVE TypeOK'
    <2>1. zset' \in [Uris -> Nat \cup {Absent}] /\ json' = json
      BY <1>5 DEF CleanStale, RemoveStale, TypeOK
    <2>2. CASE batch[p] = {}
      BY <1>5, <2>1, <2>2, EndRunType DEF CleanStale, TypeOK
    <2>3. CASE batch[p] # {}
      BY <1>5, <2>1, <2>3 DEF CleanStale, TypeOK
    <2> QED
      BY <2>2, <2>3
  <1>6. ASSUME NEW p \in Procs, HandleNext(p) PROVE TypeOK'
    <2>1. PICK h \in batch[p] :
             IF stopping THEN EndRun(p)
             ELSE /\ pc' = [pc EXCEPT ![p] = "handling"]
                  /\ current' = [current EXCEPT ![p] = h]
                  /\ UNCHANGED <<runNow, keys, batch>>
      BY <1>6 DEF HandleNext
    <2>2. CASE stopping
      BY <1>6, <2>1, <2>2, EndRunType DEF HandleNext, TypeOK
    <2>3. CASE ~stopping
      <3>1. h \in Held
        BY DEF TypeOK
      <3> QED
        BY <1>6, <2>1, <2>3, <3>1 DEF HandleNext, TypeOK
    <2> QED
      BY <2>2, <2>3
  <1>7. ASSUME NEW p \in Procs, NEW r \in Result, Settle(p, r) PROVE TypeOK'
    <2> DEFINE u == current[p].uri
               e == current[p].entry
    <2>1. u \in Uris /\ e \in Entry
      BY <1>7 DEF Settle, TypeOK, Held
    <2>2. Rescheduled(e, r) \in Entry /\ Rescheduled(e, r).at \in Nat
      <3>1. Rescheduled(e, r) \in Entry
        BY <2>1, RescheduledType DEF TypeOK
      <3> QED
        BY <3>1 DEF Entry
    <2>3. /\ zset' \in [Uris -> Nat \cup {Absent}]
          /\ json' \in [Uris -> Entry \cup {NoEntry}]
          /\ settled' \subseteq Uris \X Nat
      <3> HIDE DEF u, e
      <3>1. CASE IsFinal(r, e.count)
        <4>1. RemoveIfNonce(u, e.nonce) /\ settled' = settled \cup {<<u, e.nonce>>}
          BY <1>7, <3>1 DEF Settle, u, e
        <4> QED
          BY <4>1, <2>1 DEF RemoveIfNonce, redisVars, TypeOK, Entry
      <3>2. CASE ~IsFinal(r, e.count)
        <4>1. PutIfNonce(u, Rescheduled(e, r), e.nonce) /\ settled' = settled
          BY <1>7, <3>2 DEF Settle, u, e
        <4> QED
          BY <4>1, <2>1, <2>2 DEF PutIfNonce, PutToIndex, redisVars, TypeOK
      <3> QED
        BY <3>1, <3>2
    <2>4. CASE ShouldNotRetryNow(r)
      BY <1>7, <2>3, <2>4, EndRunType DEF Settle, TypeOK
    <2>5. CASE ~ShouldNotRetryNow(r)
      BY <1>7, <2>3, <2>5 DEF Settle, TypeOK
    <2> QED
      BY <2>4, <2>5
  <1>8. ASSUME NEW p \in Procs, Abort(p) PROVE TypeOK'
    BY <1>8, EndRunType DEF Abort, TypeOK
  <1>9. ASSUME NEW u \in Uris, LoseState(u) PROVE TypeOK'
    <2>1. json[u] \in Entry
      BY <1>9 DEF LoseState, TypeOK
    <2>2. <<u, json[u].nonce>> \in Uris \X Nat
      BY <2>1 DEF Entry
    <2> QED
      BY <1>9, <2>2 DEF LoseState, TypeOK, procVars
  <1>10. CASE Shutdown \/ Restart \/ Tick
    <2>1. now' \in Nat /\ faults' \in Nat
      BY <1>10 DEF Shutdown, Restart, Tick, TypeOK
    <2>3. stopping' \in BOOLEAN
      BY <1>10, Zenon DEF Shutdown, Restart, Tick, TypeOK
    <2>2. UNCHANGED <<lastNonce, latest, settled, zset, json, pc, runNow, keys,
                      batch, current>>
      BY <1>10 DEF Shutdown, Restart, Tick, redisVars, procVars
    <2> QED
      BY <2>1, <2>2, <2>3 DEF TypeOK
  <1>11. CASE UNCHANGED vars
    BY <1>11 DEF vars, TypeOK
  <1> QED
    BY <1>1, <1>2, <1>3, <1>4, <1>5, <1>6, <1>7, <1>8, <1>9, <1>10, <1>11
    DEF Next, RunStep

(* Every reachable state of the queue and its processors is well typed,    *)
(* and a processor that waits for its handler holds the event it waits on. *)
THEOREM TypeCorrect == Spec => []TypeOK
  BY TypeInit, TypeStep, PTL DEF Spec

(***************************************************************************)
(* The inductive invariant behind the safety theorems.  A stored document  *)
(* is the newest event of its URI and is not settled; nonces that were     *)
(* ever stored, held by a run or settled are not newer than the clock they *)
(* are minted from, so a fresh nonce matches nothing old.                  *)
(***************************************************************************)
StoredIsNewest ==
    \A u \in Uris : json[u] # NoEntry => json[u].nonce = latest[u]

NoncesAreOld ==
    /\ \A u \in Uris : latest[u] <= lastNonce
    /\ \A p \in Procs : \A h \in batch[p] : h.entry.nonce <= lastNonce
    /\ \A x \in settled : x[2] <= lastNonce

Inv ==
    /\ TypeOK
    /\ StateIsIndexed
    /\ StoredIsNewest
    /\ NoLostEvent
    /\ NeverResurrected
    /\ NoncesAreOld

LEMMA InvInit == Init => Inv
  <1> SUFFICES ASSUME Init PROVE Inv
    OBVIOUS
  <1>1. \A u \in Uris : /\ json[u] # NoEntry => json[u] = [nonce |-> 0, count |-> 0, at |-> 0]
                        /\ json[u] # NoEntry => zset[u] = 0 /\ latest[u] = 0
                        /\ json[u] = NoEntry => latest[u] = Absent
    BY DEF Init
  <1>2. StateIsIndexed /\ StoredIsNewest
    BY <1>1 DEF StateIsIndexed, StoredIsNewest
  <1>3. NoLostEvent
    BY <1>1 DEF NoLostEvent, NonceMatches
  <1>4. NeverResurrected
    BY DEF Init, NeverResurrected
  <1>5. NoncesAreOld
    BY DEF Init, NoncesAreOld, Absent
  <1> QED
    BY <1>2, <1>3, <1>4, <1>5, TypeInit DEF Inv

(* The steps of a run that leave Redis and the history alone preserve the  *)
(* invariant once the events they hold are old.                            *)
LEMMA HistoryUntouched ==
    ASSUME Inv, TypeOK',
           json' = json, latest' = latest, settled' = settled,
           lastNonce' = lastNonce,
           \A u \in Uris : json[u] # NoEntry => zset'[u] = zset[u],
           \A p \in Procs : \A h \in batch'[p] : h.entry.nonce <= lastNonce
    PROVE  Inv'
  <1>1. StateIsIndexed' /\ StoredIsNewest' /\ NoLostEvent' /\ NeverResurrected'
    BY DEF Inv, StateIsIndexed, StoredIsNewest, NoLostEvent, NeverResurrected,
           NonceMatches
  <1>2. NoncesAreOld'
    BY DEF Inv, NoncesAreOld
  <1> QED
    BY <1>1, <1>2 DEF Inv

LEMMA EndRunHolds ==
    ASSUME Inv, NEW p \in Procs, EndRun(p)
    PROVE  \A q \in Procs : \A h \in batch'[q] : h.entry.nonce <= lastNonce
  BY DEF EndRun, Inv, TypeOK, NoncesAreOld

LEMMA InvStep == Inv /\ [Next]_vars => Inv'
  <1> SUFFICES ASSUME Inv, [Next]_vars PROVE Inv'
    OBVIOUS
  <1>0. TypeOK /\ TypeOK'
    BY TypeStep DEF Inv
  <1>1. ASSUME NEW u \in Uris, NEW e \in {"dependency", "transient"}, Enqueue(u, e)
        PROVE  Inv'
    <2> DEFINE d == [nonce |-> lastNonce', count |-> 0, at |-> now + InitialFor(e)]
    <2>1. /\ lastNonce \in Nat /\ lastNonce' = lastNonce + 1
          /\ json' = [json EXCEPT ![u] = d]
          /\ zset' = [zset EXCEPT ![u] = d.at]
          /\ latest' = [latest EXCEPT ![u] = lastNonce']
          /\ settled' = settled /\ batch' = batch
      BY <1>0, <1>1 DEF Enqueue, PutToIndex, procVars, TypeOK
    <2>2. d.nonce = lastNonce' /\ d # NoEntry
      <3>1. InitialFor(e) \in Nat
        BY PolicyAssumption DEF InitialFor
      <3>2. d \in Entry
        BY <1>0, <2>1, <3>1 DEF Entry, TypeOK
      <3> QED
        BY <3>2, NoEntryIsNoEntry
    <2> HIDE DEF d
    <2>3. \A x \in settled : x # <<u, lastNonce'>>
      BY <2>1 DEF Inv, NoncesAreOld
    <2>4. StateIsIndexed' /\ StoredIsNewest'
      BY <1>0, <2>1, <2>2 DEF Inv, StateIsIndexed, StoredIsNewest, TypeOK
    <2>5. NoLostEvent'
      BY <1>0, <2>1, <2>2 DEF Inv, NoLostEvent, NonceMatches, TypeOK
    <2>6. NeverResurrected'
      BY <1>0, <2>1, <2>2, <2>3 DEF Inv, NeverResurrected, TypeOK
    <2>7. NoncesAreOld'
      <3>1. \A v \in Uris : latest'[v] <= lastNonce'
        BY <1>0, <2>1 DEF Inv, NoncesAreOld, TypeOK, Absent
      <3>2. \A p \in Procs : \A h \in batch'[p] : h.entry.nonce <= lastNonce'
        BY <1>0, <2>1 DEF Inv, NoncesAreOld, TypeOK, Held, Entry
      <3>3. \A x \in settled' : x[2] <= lastNonce'
        BY <1>0, <2>1 DEF Inv, NoncesAreOld, TypeOK
      <3> QED
        BY <3>1, <3>2, <3>3 DEF NoncesAreOld
    <2> QED
      BY <1>0, <2>4, <2>5, <2>6, <2>7 DEF Inv
  <1>2. ASSUME NEW p \in Procs, StartRun(p) PROVE Inv'
    BY <1>0, <1>2, HistoryUntouched DEF StartRun, Inv, NoncesAreOld
  <1>3. ASSUME NEW p \in Procs, FetchRange(p) PROVE Inv'
    <2>1. \A q \in Procs : \A h \in batch'[q] : h.entry.nonce <= lastNonce
      BY <1>3, EndRunHolds DEF FetchRange, Inv, NoncesAreOld
    <2> QED
      BY <1>0, <1>3, <2>1, HistoryUntouched DEF FetchRange
  <1>4. ASSUME NEW p \in Procs, FetchState(p) PROVE Inv'
    <2> DEFINE stale == {k \in keys[p] : json[k.uri] = NoEntry}
               docs == {[uri |-> k.uri, score |-> k.score, entry |-> json[k.uri]]
                           : k \in keys[p] \ stale}
    <2>1. /\ batch' = [batch EXCEPT ![p] = docs]
          /\ \A h \in docs : \E k \in keys[p] :
                json[k.uri] # NoEntry /\ h.entry = json[k.uri]
      BY <1>4 DEF FetchState
    <2> HIDE DEF docs
    <2>2. \A h \in docs : h.entry.nonce <= lastNonce
      BY <1>0, <2>1 DEF Inv, StoredIsNewest, NoncesAreOld, TypeOK, Member
    <2>3. \A q \in Procs : \A h \in batch'[q] : h.entry.nonce <= lastNonce
      BY <1>0, <2>1, <2>2 DEF Inv, NoncesAreOld, TypeOK
    <2> QED
      BY <1>0, <1>4, <2>3, HistoryUntouched DEF FetchState
  <1>5. ASSUME NEW p \in Procs, CleanStale(p) PROVE Inv'
    <2>1. \A q \in Procs : \A h \in batch'[q] : h.entry.nonce <= lastNonce
      BY <1>5, EndRunHolds DEF CleanStale, Inv, NoncesAreOld
    <2>2. json' = json /\ \A u \in Uris : json[u] # NoEntry => zset'[u] = zset[u]
      BY <1>5 DEF CleanStale, RemoveStale
    <2> QED
      BY <1>0, <1>5, <2>1, <2>2, HistoryUntouched DEF CleanStale
  <1>6. ASSUME NEW p \in Procs, HandleNext(p) PROVE Inv'
    <2>1. \A q \in Procs : \A h \in batch'[q] : h.entry.nonce <= lastNonce
      BY <1>6, EndRunHolds DEF HandleNext, Inv, NoncesAreOld
    <2> QED
      BY <1>0, <1>6, <2>1, HistoryUntouched DEF HandleNext
  <1>7. ASSUME NEW p \in Procs, NEW r \in Result, Settle(p, r) PROVE Inv'
    <2> DEFINE u == current[p].uri
               e == current[p].entry
    <2>1. u \in Uris /\ e \in Entry /\ e.nonce \in Nat /\ e.nonce <= lastNonce
      BY <1>0, <1>7 DEF Settle, TypeOK, Held, Entry, Inv, NoncesAreOld
    <2>2. \A q \in Procs : \A h \in batch'[q] : h.entry.nonce <= lastNonce
      <3>1. CASE ShouldNotRetryNow(r)
        BY <1>7, <3>1, EndRunHolds DEF Settle
      <3>2. CASE ~ShouldNotRetryNow(r)
        BY <1>0, <1>7, <3>2 DEF Settle, Inv, NoncesAreOld, TypeOK
      <3> QED
        BY <3>1, <3>2
    <2>3. lastNonce' = lastNonce /\ latest' = latest
      BY <1>7 DEF Settle
    <2>4. CASE IsFinal(r, e.count)
      <3>1. RemoveIfNonce(u, e.nonce) /\ settled' = settled \cup {<<u, e.nonce>>}
        BY <1>7, <2>4 DEF Settle
      <3> HIDE DEF u, e
      <3>2. StateIsIndexed' /\ StoredIsNewest'
        BY <1>0, <2>1, <2>3, <3>1
        DEF RemoveIfNonce, redisVars, Inv, StateIsIndexed, StoredIsNewest, TypeOK
      <3>3. NoLostEvent'
        BY <1>0, <2>1, <2>3, <3>1
        DEF RemoveIfNonce, redisVars, Inv, NoLostEvent, NonceMatches, TypeOK
      <3>4. NeverResurrected'
        BY <1>0, <2>1, <2>3, <3>1
        DEF RemoveIfNonce, redisVars, Inv, NeverResurrected, NonceMatches, TypeOK
      <3>5. NoncesAreOld'
        BY <1>0, <2>1, <2>2, <2>3, <3>1 DEF Inv, NoncesAreOld
      <3> QED
        BY <1>0, <3>2, <3>3, <3>4, <3>5 DEF Inv
    <2>5. CASE ~IsFinal(r, e.count)
      <3> DEFINE d == Rescheduled(e, r)
      <3>1. PutIfNonce(u, d, e.nonce) /\ settled' = settled
        BY <1>7, <2>5 DEF Settle
      <3>2. d \in Entry /\ d.nonce = e.nonce /\ d # NoEntry
        BY <1>0, <2>1, RescheduledType, NoEntryIsNoEntry DEF TypeOK
      <3> HIDE DEF u, e, d
      <3>3. StateIsIndexed' /\ StoredIsNewest'
        BY <1>0, <2>1, <2>3, <3>1, <3>2
        DEF PutIfNonce, PutToIndex, NonceMatches, redisVars, Inv,
            StateIsIndexed, StoredIsNewest, TypeOK
      <3>4. NoLostEvent'
        BY <1>0, <2>1, <2>3, <3>1, <3>2
        DEF PutIfNonce, PutToIndex, NonceMatches, redisVars, Inv, NoLostEvent,
            TypeOK
      <3>5. NeverResurrected'
        BY <1>0, <2>1, <2>3, <3>1, <3>2
        DEF PutIfNonce, PutToIndex, NonceMatches, redisVars, Inv,
            NeverResurrected, TypeOK
      <3>6. NoncesAreOld'
        BY <1>0, <2>1, <2>2, <2>3, <3>1 DEF Inv, NoncesAreOld
      <3> QED
        BY <1>0, <3>3, <3>4, <3>5, <3>6 DEF Inv
    <2> QED
      BY <2>4, <2>5
  <1>8. ASSUME NEW p \in Procs, Abort(p) PROVE Inv'
    BY <1>0, <1>8, EndRunHolds, HistoryUntouched DEF Abort
  <1>9. ASSUME NEW u \in Uris, LoseState(u) PROVE Inv'
    <2>1. /\ json[u] # NoEntry /\ json[u] \in Entry
          /\ json' = [json EXCEPT ![u] = NoEntry]
          /\ settled' = settled \cup {<<u, json[u].nonce>>}
          /\ zset' = zset /\ latest' = latest /\ lastNonce' = lastNonce
          /\ batch' = batch
      BY <1>0, <1>9 DEF LoseState, procVars, TypeOK
    <2>2. StateIsIndexed' /\ StoredIsNewest'
      BY <1>0, <2>1 DEF Inv, StateIsIndexed, StoredIsNewest, TypeOK
    <2>3. NoLostEvent'
      BY <1>0, <2>1 DEF Inv, StoredIsNewest, NoLostEvent, NonceMatches, TypeOK
    <2>4. NeverResurrected'
      BY <1>0, <2>1 DEF Inv, NeverResurrected, TypeOK
    <2>5. NoncesAreOld'
      BY <1>0, <2>1 DEF Inv, StoredIsNewest, NoncesAreOld, TypeOK
    <2> QED
      BY <1>0, <2>2, <2>3, <2>4, <2>5 DEF Inv
  <1>10. CASE Shutdown \/ Restart \/ Tick
    <2>1. UNCHANGED <<lastNonce, latest, settled, zset, json, batch>>
      BY <1>10 DEF Shutdown, Restart, Tick, redisVars, procVars
    <2> QED
      BY <1>0, <2>1, HistoryUntouched DEF Inv, NoncesAreOld
  <1>11. CASE UNCHANGED vars
    BY <1>0, <1>11, HistoryUntouched DEF vars, Inv, NoncesAreOld
  <1> QED
    BY <1>1, <1>2, <1>3, <1>4, <1>5, <1>6, <1>7, <1>8, <1>9, <1>10, <1>11
    DEF Next, RunStep

LEMMA Invariance == Spec => []Inv
  BY InvInit, InvStep, PTL DEF Spec

(* For any number of replicas: no document is left without its sorted-set  *)
(* member, so every stored retry event is found by fetch_ready when due.   *)
THEOREM StateStaysIndexed == Spec => []StateIsIndexed
  BY Invariance, PTL DEF Inv

(* For any number of replicas and enqueues: the newest event of a URI is   *)
(* in the queue until its own final outcome.                               *)
THEOREM NewestEventIsKept == Spec => []NoLostEvent
  BY Invariance, PTL DEF Inv

(* For any number of replicas: a settled event never returns to the queue. *)
THEOREM SettledStaysSettled == Spec => []NeverResurrected
  BY Invariance, PTL DEF Inv

(***************************************************************************)
(* The queue implements RetryLedger.                                       *)
(***************************************************************************)
LEMMA LedgerInit == Init => Ledger!Init
  <1> SUFFICES ASSUME Init PROVE Ledger!Init
    OBVIOUS
  <1>1. Pending \in [Uris -> {-1, 0}]
    BY DEF Init, Pending, Absent
  <1> QED
    BY <1>1 DEF Init, Ledger!Init, Ledger!None

LEMMA LedgerStep == Inv /\ [Next]_vars => [Ledger!Next]_(Ledger!vars)
  <1> SUFFICES ASSUME Inv, [Next]_vars PROVE [Ledger!Next]_(Ledger!vars)
    OBVIOUS
  <1>0. TypeOK
    BY DEF Inv
  <1>1. ASSUME NEW u \in Uris, NEW e \in {"dependency", "transient"}, Enqueue(u, e)
        PROVE  Ledger!Accept(u)
    <2> DEFINE d == [nonce |-> lastNonce', count |-> 0, at |-> now + InitialFor(e)]
    <2>1. /\ lastNonce' = lastNonce + 1 /\ settled' = settled
          /\ json' = [json EXCEPT ![u] = d]
      BY <1>1 DEF Enqueue, PutToIndex
    <2>2. d.nonce = lastNonce' /\ d # NoEntry
      <3>1. InitialFor(e) \in Nat
        BY PolicyAssumption DEF InitialFor
      <3>2. d \in Entry
        BY <1>0, <2>1, <3>1 DEF Entry, TypeOK
      <3> QED
        BY <3>2, NoEntryIsNoEntry
    <2> HIDE DEF d
    <2>3. Pending' = [Pending EXCEPT ![u] = lastNonce']
      BY <1>0, <2>1, <2>2 DEF Pending, TypeOK
    <2> QED
      BY <2>1, <2>3 DEF Ledger!Accept
  <1>2. ASSUME NEW p \in Procs, NEW r \in Result, Settle(p, r)
        PROVE  [Ledger!Next]_(Ledger!vars)
    <2> DEFINE u == current[p].uri
               e == current[p].entry
    <2>1. u \in Uris /\ e \in Entry /\ e.nonce \in 0 .. lastNonce
      BY <1>0, <1>2 DEF Settle, TypeOK, Held, Entry, Inv, NoncesAreOld
    <2>2. lastNonce' = lastNonce
      BY <1>2 DEF Settle
    <2>3. CASE IsFinal(r, e.count)
      <3>1. RemoveIfNonce(u, e.nonce) /\ settled' = settled \cup {<<u, e.nonce>>}
        BY <1>2, <2>3 DEF Settle
      <3> HIDE DEF u, e
      <3>2. Pending' = IF Pending[u] = e.nonce THEN [Pending EXCEPT ![u] = Absent]
                       ELSE Pending
        BY <1>0, <2>1, <3>1
        DEF Pending, RemoveIfNonce, NonceMatches, redisVars, TypeOK, Absent
      <3>3. Ledger!Resolve(u, e.nonce)
        BY <2>2, <3>1, <3>2 DEF Ledger!Resolve, Ledger!None, Absent
      <3> QED
        BY <2>1, <3>3 DEF Ledger!Next
    <2>4. CASE ~IsFinal(r, e.count)
      <3> DEFINE d == Rescheduled(e, r)
      <3>1. PutIfNonce(u, d, e.nonce) /\ settled' = settled
        BY <1>2, <2>4 DEF Settle
      <3>2. d \in Entry /\ d.nonce = e.nonce /\ d # NoEntry
        BY <1>0, <2>1, RescheduledType, NoEntryIsNoEntry DEF TypeOK
      <3> HIDE DEF u, e, d
      <3>3. Pending' = Pending
        BY <1>0, <2>1, <3>1, <3>2
        DEF Pending, PutIfNonce, PutToIndex, NonceMatches, redisVars, TypeOK
      <3> QED
        BY <2>2, <3>1, <3>3 DEF Ledger!vars
    <2> QED
      BY <2>3, <2>4
  <1>3. ASSUME NEW u \in Uris, LoseState(u) PROVE [Ledger!Next]_(Ledger!vars)
    <2>1. /\ json[u] # NoEntry /\ json[u] \in Entry
          /\ json' = [json EXCEPT ![u] = NoEntry]
          /\ settled' = settled \cup {<<u, json[u].nonce>>}
          /\ lastNonce' = lastNonce
      BY <1>0, <1>3 DEF LoseState, TypeOK
    <2>2. json[u].nonce \in 0 .. lastNonce
      BY <1>0, <2>1 DEF Inv, StoredIsNewest, NoncesAreOld, TypeOK, Entry
    <2>3. Pending[u] = json[u].nonce /\ Pending' = [Pending EXCEPT ![u] = Absent]
      BY <1>0, <2>1 DEF Pending, TypeOK
    <2>4. Ledger!Resolve(u, json[u].nonce)
      BY <2>1, <2>3 DEF Ledger!Resolve, Ledger!None, Absent
    <2> QED
      BY <2>2, <2>4 DEF Ledger!Next
  <1>4. ASSUME UNCHANGED <<json, lastNonce, settled>>
        PROVE  UNCHANGED Ledger!vars
    BY <1>4 DEF Ledger!vars, Pending
  <1>5. ASSUME NEW p \in Procs,
               StartRun(p) \/ FetchRange(p) \/ FetchState(p) \/ CleanStale(p)
                 \/ HandleNext(p) \/ Abort(p)
        PROVE  UNCHANGED <<json, lastNonce, settled>>
    BY <1>5 DEF StartRun, FetchRange, FetchState, CleanStale, RemoveStale,
                HandleNext, Abort
  <1>6. CASE Shutdown \/ Restart \/ Tick
    BY <1>4, <1>6 DEF Shutdown, Restart, Tick, redisVars
  <1>7. CASE UNCHANGED vars
    BY <1>4, <1>7 DEF vars
  <1> QED
    BY <1>1, <1>2, <1>3, <1>4, <1>5, <1>6, <1>7 DEF Next, RunStep, Ledger!Next

(* The queue, with its batches, stale replicas, tombstones and restarts,   *)
(* implements the ledger: a URI's pending event changes only by a newer    *)
(* enqueue or by the outcome of that very event.                           *)
THEOREM QueueImplementsLedger == Spec => LedgerSpec
  <1>1. Spec => [][Ledger!Next]_(Ledger!vars)
    BY Invariance, LedgerStep, PTL DEF Spec
  <1> QED
    BY <1>1, LedgerInit, PTL DEF Spec, LedgerSpec, Ledger!Spec
=============================================================================

------------------------------- MODULE Reads -------------------------------
(***************************************************************************)
(* The index seen by its readers.  The watcher handles events (each in one *)
(* piece: see Writes), keys expire, requests fill what is missing, and the *)
(* index can be flushed and rebuilt from the graph by reindex::sync.  What *)
(* is checked is that it makes no difference to a reader whether an answer *)
(* comes from the index or from the graph.                                 *)
(***************************************************************************)
EXTENDS Writes

CONSTANTS
    FirstEvents,   \* what happened before: a sequence of events
    Events,        \* the events that may come
    Asker, Asked,  \* the user that asks, and the post he asks about
    MaxWrites,     \* how many of them do
    MaxLooks,      \* how many requests fill the index
    MaxExpired,    \* of how many posts the counts are missing at a time
    UserBatch, PostBatch, BookmarkPage   \* pages of the rebuild

VARIABLES
    store,     \* graph and index
    phase,     \* "live", or the step reindex::sync is at
    cursor,    \* where its scan is
    writes, looks,
    rebuilt    \* whether the index was rebuilt

readVars == <<store, phase, cursor, writes, looks, rebuilt>>

DbKeys ==
    {Timeline, TotalEngagement, LabelList, NameList, Ranking, Applied, On, Filtered, Showing}
    \cup UNION {{PostPerUser(u), RepliesPerUser(u), BookmarksUser(u), DetailsOf(u), TagScores(u),
                 FollowersKey(u), FollowingKey(u), RecommendedOf(u), Notifications(u)} : u \in Users}
    \cup UNION {{RepliesPerPost(p), DetailsOf(p), CountsOf(p), RelationsOf(p), TagScores(p)} : p \in Posts}
    \cup UNION {{TagPostTimeline(l), TagPostEngagement(l), UsersByLabel(l)} : l \in Labels}
    \cup {BookmarkOf(u, p) : u \in Users, p \in Posts}
    \cup {TaggersIn(x, l) : x \in Users \cup Posts, l \in Labels}
    \cup {WotScores(v, u) : v \in Users, u \in Users}
    \cup {WotTaggers(v, u, l) : v \in Users, u \in Users, l \in Labels}
SetKeys == {"details", "counts", "relationships", "bookmark", "taggers", "wotTaggers",
            "followers", "following", "recommended", "on", "filtered", "showing"}
EmptyDb == [k \in DbKeys |-> IF k[1] \in SetKeys THEN {} ELSE NoMembers]

(* SocialGraphStatus::reindex: the trust ranking, replaced in one step.    *)
RankElements(ranked) ==
    [u \in Members(ranked) |-> CHOOSE i \in 1..Len(ranked) : ranked[i] = u]
ReindexRanking(g, db) == ReplaceIndexSortedSet(db, Ranking, RankElements(GetTrustRankedUserIds(g)))

(* An empty deployment, with the filter on and the ranking applied or not. *)
EmptyGraph ==
    [user |-> [u \in Users |-> "none"], post |-> [p \in Posts |-> "none"], follows |-> {},
     bookmarks |-> {}, tags |-> {}, collected |-> {}]
FirstDb(filter) ==
    IF ~filter THEN EmptyDb
    ELSE LET ranking == [u \in {u \in Users : Trust[u] > 0} |-> 1 + Cardinality({v \in Users : Trust[v] > Trust[u]})]
         IN [EmptyDb EXCEPT ![On] = {1}, ![Filtered] = {1}, ![Ranking] = ranking,
                            ![Applied] = [u \in DOMAIN ranking |-> 0]]
Replay(filter) ==
    LET Upto[n \in 0..Len(FirstEvents)] ==
            IF n = 0 THEN [graph |-> EmptyGraph, db |-> FirstDb(filter)]
            ELSE Handle(Upto[n - 1], FirstEvents[n], n)
    IN Upto[Len(FirstEvents)]

ReadsInit ==
    /\ \E filter \in BOOLEAN : store = Replay(filter)
    /\ phase = "live" /\ cursor = 0 /\ writes = 0 /\ looks = 0 /\ rebuilt = FALSE

-----------------------------------------------------------------------------
WriteEvent(e) ==
    /\ phase = "live" /\ writes < MaxWrites
    /\ store' = Handle(store, e, 100 + writes)
    /\ writes' = writes + 1
    /\ UNCHANGED <<phase, cursor, looks, rebuilt>>

(* A request that finds a key missing fills it, also while the index is    *)
(* being rebuilt.                                                          *)
Look(fill) ==
    /\ looks < MaxLooks
    /\ fill # store.db
    /\ store' = [store EXCEPT !.db = fill]
    /\ looks' = looks + 1
    /\ UNCHANGED <<phase, cursor, writes, rebuilt>>
LookAtPost(p, viewer) ==
    LET g == store.graph
        x == FillBookmark(g, FillRelationships(g, FillCounts(g, FillPostDetails(g, store.db, p), p), p),
                          viewer, p)
    IN Look(IF \A c \in CountsView(g, x, p) : c.tags = 0 THEN x ELSE FillTags(g, x, p))
LookAtUser(u) ==
    LET g == store.graph
    IN Look(FillTags(g, FillFollows(g, FillFollows(g, FillUserDetails(g, store.db, {u}),
                                                   FollowersKey(u), u), FollowingKey(u), u), u))
LookThroughNetwork(u, viewer, depth) == Look(FillWotTags(store.graph, store.db, u, viewer, depth))

(* Redis drops a key whose time is up: counts after ten minutes, the tags  *)
(* of a network after three hours.                                         *)
Expire(db) ==
    /\ phase = "live" /\ db # store.db
    /\ store' = [store EXCEPT !.db = db]
    /\ UNCHANGED <<phase, cursor, writes, looks, rebuilt>>
ExpireCounts(p) ==
    /\ Cardinality({q \in Stored(store.graph) : store.db[CountsOf(q)] = {}}) < MaxExpired
    /\ Expire(Invalidate(store.db, {p}))
ExpireNetwork(u, viewer) == Expire(ExpireWotTags(store.db, u, viewer))

-----------------------------------------------------------------------------
(* flush and reindex::sync.                                                *)
FlushDb ==
    /\ phase = "live" /\ ~rebuilt
    /\ store' = [store EXCEPT !.db = EmptyDb]
    /\ phase' = "users" /\ cursor' = 0 /\ rebuilt' = TRUE
    /\ UNCHANGED <<writes, looks>>

(* Bookmark::reindex goes through the marked posts by the id of the post.  *)
RECURSIVE ReindexBookmarks(_, _, _, _)
ReindexBookmarks(g, db, u, after) ==
    LET page == UserBookmarks(g, u, after, BookmarkPage)
        At(p) == CHOOSE at \in PostBookmark(g, p, u) : TRUE
        put  == [k \in DOMAIN db |->
                    IF \E p \in Members(page) : k = BookmarkOf(u, p) THEN {At(k[3])}
                    ELSE IF k = BookmarksUser(u) THEN ZAdd(db[k], [p \in Members(page) |-> At(p)])
                    ELSE db[k]]
    IN IF Len(page) < BookmarkPage THEN put
       ELSE ReindexBookmarks(g, put, u, PostId[page[Len(page)]])
ReindexTags(g, db, x) ==
    PutTags(db, TagScores(x), [l \in Labels |-> TaggersIn(x, l)], ReadGraphQuery(g, x, Nobody))
ReindexUser(g, db, u) ==
    LET x == ReindexBookmarks(g, db, u, 0)
    IN ReindexTags(g, PutMultipleSets(x, [k \in {FollowersKey(u), FollowingKey(u)} |->
            IF k = FollowersKey(u) THEN FollowersOf(g, u) ELSE Follows(g, u)]), u)
ReindexPost(g, db, p) ==
    LET x == PutPostDetails(db, p, CHOOSE d \in GetPostById(g, p) : TRUE)
        y == PutIndexJson(x, CountsOf(p), CHOOSE c \in PostCounts(g, p) : TRUE)
        z == IF IsReply(p) THEN y ELSE AddToEngagement(y, p, Engagement(g, p))
    IN ReindexTags(g, PutIndexJson(z, RelationsOf(p), CHOOSE r \in PostRelationships(g, p) : TRUE), p)

(* The tasks of a batch write keys of their own: their order is the same.  *)
RECURSIVE InTurn(_, _, _, _)
InTurn(Do(_, _, _), g, db, s) ==
    IF s = <<>> THEN db ELSE InTurn(Do, g, Do(g, db, s[1]), Tail(s))

ReindexUsersByBatch ==
    /\ phase = "users"
    /\ LET batch == After({u \in Users : Exists(store.graph, u)}, cursor, UserBatch)
           filled == FillUserDetails(store.graph, store.db, Members(batch))
       IN /\ store' = [store EXCEPT !.db = InTurn(ReindexUser, store.graph, filled, batch)]
          /\ IF Len(batch) < UserBatch THEN phase' = "posts" /\ cursor' = 0
             ELSE phase' = "users" /\ cursor' = batch[Len(batch)]
    /\ UNCHANGED <<writes, looks, rebuilt>>

(* Faulty variant: a full batch ends the scan.                             *)
PostBatchesOnce(batch) ==
    phase' = "rankings" /\ cursor' = 0

PostBatches(batch) ==
    IF Len(batch) < PostBatch THEN phase' = "rankings" /\ cursor' = 0
    ELSE phase' = "posts" /\ cursor' = PostId[batch[Len(batch)]]
ReindexPostsByBatch ==
    /\ phase = "posts"
    /\ LET InOrder(p, q) == PostId[p] < PostId[q] \/ (PostId[p] = PostId[q] /\ p < q)
           batch == Page(Sorted({p \in Stored(store.graph) : PostId[p] > cursor}, InOrder), 0, PostBatch)
       IN /\ store' = [store EXCEPT !.db = InTurn(ReindexPost, store.graph, store.db, batch)]
          /\ PostBatches(batch)
    /\ UNCHANGED <<writes, looks, rebuilt>>

(* The rest of sync: the ranking (with the filter off a reconcile has      *)
(* nothing to do), the sets of each label, and the labels.                 *)
ReindexPostsByTag(g, db) ==
    [k \in DOMAIN db |->
        IF k[1] = "tagTimeline" THEN GateAdd(db, k, GlobalTagsByPost(g)[k[2]])[k]
        ELSE IF k[1] = "tagEngagement" THEN GateAdd(db, k, GlobalTagsByPostEngagement(g)[k[2]])[k]
        ELSE db[k]]
ReindexUsersByTag(g, db) ==
    [k \in DOMAIN db |-> IF k[1] = "usersByLabel" THEN ZAdd(db[k], GlobalTagsByUser(g)[k[2]]) ELSE db[k]]
ReindexRest ==
    /\ phase = "rankings"
    /\ LET g == store.graph
       IN store' = [store EXCEPT !.db =
                       PutLabels(ReindexUsersByTag(g, ReindexPostsByTag(g, ReindexRanking(g, @))), GetTags(g))]
    /\ phase' = "live"
    /\ UNCHANGED <<cursor, writes, looks, rebuilt>>

(* The scan behind the notifications of an edit or a delete: page after    *)
(* page, from the cursor of the last row, until one is short.              *)
RECURSIVE KeysetScan(_, _, _, _)
KeysetScan(query, cursorOf, after, size) ==
    LET rows == query[after]
    IN IF Len(rows) < size THEN Members(rows)
       ELSE Members(rows) \cup KeysetScan(query, cursorOf, cursorOf[rows[size]], size)

ReadsNext ==
    \/ \E e \in Events : WriteEvent(e)
    \/ \E p \in Posts, v \in Users : LookAtPost(p, v)
    \/ \E u \in Users : LookAtUser(u)
    \/ \E u, v \in Users, depth \in 1..2 : LookThroughNetwork(u, v, depth)
    \/ \E p \in Posts : ExpireCounts(p)
    \/ \E u, v \in Users : ExpireNetwork(u, v)
    \/ FlushDb
    \/ ReindexUsersByBatch \/ ReindexPostsByBatch \/ ReindexRest

ReadsSpec == ReadsInit /\ [][ReadsNext]_readVars
=============================================================================

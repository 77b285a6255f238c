---------------------------- MODULE PostStreams ----------------------------
(***************************************************************************)
(* models/post/stream.rs: the sorted sets that post feeds are read from,   *)
(* and the choice between them and the graph.  db is the index; its keys   *)
(* are tuples that begin with the name of their family.                    *)
(***************************************************************************)
EXTENDS StreamQueries

CONSTANTS ReachLimit   \* the users a feed looks at (200)

Timeline      == <<"timeline">>
TotalEngagement == <<"engagement">>
PostPerUser(u)    == <<"userPosts", u>>
RepliesPerUser(u) == <<"userReplies", u>>
RepliesPerPost(p) == <<"postReplies", p>>
BookmarksUser(u)  == <<"bookmarks", u>>
TagPostTimeline(l)   == <<"tagTimeline", l>>
TagPostEngagement(l) == <<"tagEngagement", l>>

Entry(m, n) == [x \in {m} |-> n]

-----------------------------------------------------------------------------
(* The trust filter's gate: while the filter is on and there is a ranking, *)
(* only posts of ranked authors enter a shared set.  An increment moves a  *)
(* member that is there and adds one that is not.                          *)
On       == <<"on">>         \* the switch of the API
Filtered == <<"filtered">>   \* posts may be hidden
Showing  == <<"showing">>    \* hidden posts are being put back
Applied  == <<"applied">>    \* the ranking the sets were last brought to
Ranking  == <<"ranking">>    \* the ranking of the trust engine
IsRankingApplied(db) == db[On] # {} /\ db[Applied] # NoMembers
MayHidePosts(db)     == db[Filtered] # {}
Admitted(db, p)      == db[On] # {} /\ db[Ranking] # NoMembers => Author[p] \in DOMAIN db[Ranking]
GateAdd(db, key, entries) ==
    PutIndexSortedSet(db, key, [p \in {p \in DOMAIN entries : Admitted(db, p)} |-> entries[p]])
GateIncr(db, key, p, delta) ==
    IF p \in DOMAIN db[key] \/ (delta > 0 /\ Admitted(db, p))
    THEN PutScoreIndexSortedSet(db, key, p, delta) ELSE db

AddToTimeline(db, p)        == GateAdd(db, Timeline, Entry(p, PostAt[p]))
RemoveFromTimeline(db, p)   == RemoveFromIndexSortedSet(db, Timeline, {p})
AddToPerUser(db, p)         == PutIndexSortedSet(db, PostPerUser(Author[p]), Entry(p, PostAt[p]))
RemoveFromPerUser(db, p)    == RemoveFromIndexSortedSet(db, PostPerUser(Author[p]), {p})
AddToPostReply(db, q, p)    == PutIndexSortedSet(db, RepliesPerPost(q), Entry(p, PostAt[p]))
RemoveFromPostReply(db, q, p) == RemoveFromIndexSortedSet(db, RepliesPerPost(q), {p})
AddToRepliesPerUser(db, p)  == PutIndexSortedSet(db, RepliesPerUser(Author[p]), Entry(p, PostAt[p]))
RemoveFromRepliesPerUser(db, p) == RemoveFromIndexSortedSet(db, RepliesPerUser(Author[p]), {p})
AddToBookmarks(db, u, p, at) == PutIndexSortedSet(db, BookmarksUser(u), Entry(p, at))
RemoveFromBookmarks(db, u, p) == RemoveFromIndexSortedSet(db, BookmarksUser(u), {p})
AddToEngagement(db, p, n)   == GateAdd(db, TotalEngagement, Entry(p, n))
DeleteFromEngagement(db, p) == RemoveFromIndexSortedSet(db, TotalEngagement, {p})
UpdateIndexScore(db, p, delta) == GateIncr(db, TotalEngagement, p, delta)

-----------------------------------------------------------------------------
(* Reading one set of the index.                                           *)
Request(source, sorting, order, ls, kind, viewer) ==
    [source |-> source, sorting |-> sorting, order |-> order, ls |-> ls, kind |-> kind,
     viewer |-> viewer, start |-> NoBound, end |-> NoBound, skip |-> 0, limit |-> 100]

ReadKey(db, key, r) ==
    TryFromIndexSortedSet(db, key, r.start, r.end, r.skip, r.limit, r.order)
GetGlobalPostsKeys(db, r) ==
    ReadKey(db, IF r.sorting = "timeline" THEN Timeline ELSE TotalEngagement, r)
(* get_posts_keys_by_tag is given no order: the newest come first.         *)
GetByLabel(db, l, r) ==
    ReadKey(db, IF r.sorting = "timeline" THEN TagPostTimeline(l) ELSE TagPostEngagement(l),
            [r EXCEPT !.order = "desc"])
GetPostsKeysByTag(db, r) == GetByLabel(db, CHOOSE l \in r.ls : TRUE, r)
GetAuthorPosts(db, r) ==
    ReadKey(db, IF r.source.on = "author" THEN PostPerUser(r.source.user)
                ELSE RepliesPerUser(r.source.user), r)
GetBookmarkedPosts(db, r) == ReadKey(db, BookmarksUser(r.source.user), r)
GetPostRepliesKeys(db, r) == ReadKey(db, RepliesPerPost(r.source.post), r)

(* Members of several sets in one order of score and key.                  *)
MergeScored(entries, order) ==
    LET Up(a, b)   == a[2] < b[2] \/ (a[2] = b[2] /\ a[1] < b[1])
        Down(a, b) == Up(b, a)
    IN IF order = "asc" THEN Sorted(entries, Up) ELSE Sorted(entries, Down)
Keys(entries) == [i \in 1..Len(entries) |-> entries[i][1]]
Scored(db, key, s) == {<<m, db[key][m]>> : m \in Members(s)}

(* The viewer's own posts are put back among those the filter shows: both  *)
(* sets are read as far as the page reaches, merged, and then cut.         *)
(* Faulty variant: both sets are read from skip on.                        *)
MergedTimelineSkipped(db, viewer, r) ==
    LET global == ReadKey(db, Timeline, r)
        own    == ReadKey(db, PostPerUser(viewer), r)
    IN Page(Keys(MergeScored(Scored(db, Timeline, global) \cup Scored(db, PostPerUser(viewer), own),
                             r.order)), 0, r.limit)

GetMergedTimeline(db, viewer, r) ==
    LET window == [r EXCEPT !.skip = 0, !.limit = r.skip + r.limit]
        global == ReadKey(db, Timeline, window)
        own    == ReadKey(db, PostPerUser(viewer), window)
    IN Page(Keys(MergeScored(Scored(db, Timeline, global) \cup Scored(db, PostPerUser(viewer), own),
                             r.order)), r.skip, r.limit)

(* Every set is read whole, then the posts are sorted the newest first     *)
(* whatever the order, and cut.                                            *)
GetPostsForUserIds(db, us, r) ==
    LET whole == [r EXCEPT !.skip = 0, !.limit = NoBound]
        found == UNION {Scored(db, PostPerUser(u), ReadKey(db, PostPerUser(u), whole)) : u \in us}
    IN Page(Keys(MergeScored(found, "desc")), r.skip, r.limit)

(* get_posts_by_source: the users come from the follow sets, ReachLimit of *)
(* them at most.                                                           *)
GetPostsBySource(db, users, r) ==
    LET us == Members(Page(Sorted(users, Earlier), 0, ReachLimit)) \ {r.source.user}
    IN IF us = {} THEN <<>> ELSE GetPostsForUserIds(db, us, r)

-----------------------------------------------------------------------------
(* Faulty variant: a feed filtered by kind is read from the index.         *)
CanUseIndexAnyKind(r) ==
    \/ r.source.on \in {"post_replies", "author_replies"}
    \/ r.source.on = "all" /\ Cardinality(r.ls) <= 1
    \/ /\ r.sorting = "timeline" /\ r.ls = {}
       /\ r.source.on \in {"author", "following", "followers", "friends", "bookmarks"}

CanUseIndex(r) ==
    /\ r.kind = <<"none">>
    /\ \/ r.source.on \in {"post_replies", "author_replies"}
       \/ r.source.on = "all" /\ Cardinality(r.ls) <= 1
       \/ /\ r.sorting = "timeline" /\ r.ls = {}
          /\ r.source.on \in {"author", "following", "followers", "friends", "bookmarks"}

(* The viewer whose own posts the filter must not hide from him.           *)
OwnPostsViewer(db, r) ==
    IF r.source.on = "all" /\ r.sorting = "timeline" /\ r.ls = {} /\ r.viewer # Nobody
          /\ MayHidePosts(db)
    THEN {r.viewer} ELSE {}
TrustRule(db, r) ==
    IF CanUseIndex(r) \/ r.source.on # "all" \/ ~IsRankingApplied(db) THEN {}
    ELSE {[viewer |-> IF OwnPostsViewer(db, r) = {} THEN Nobody ELSE r.viewer]}

GetFromIndex(db, users, r) ==
    CASE r.source.on = "all" /\ r.ls = {} ->
           IF OwnPostsViewer(db, r) = {} THEN GetGlobalPostsKeys(db, r)
           ELSE GetMergedTimeline(db, r.viewer, r)
      [] r.source.on = "all" /\ r.ls # {}      -> GetPostsKeysByTag(db, r)
      [] r.source.on = "bookmarks"             -> GetBookmarkedPosts(db, r)
      [] r.source.on = "post_replies" /\ r.ls = {} -> GetPostRepliesKeys(db, r)
      [] r.source.on \in {"author", "author_replies"} /\ r.ls = {} -> GetAuthorPosts(db, r)
      [] r.source.on \in {"following", "followers", "friends"} -> GetPostsBySource(db, users, r)
      [] OTHER                                 -> <<>>

GetFromGraph(g, r, rule) ==
    PostStream(g, r.source, r.sorting, r.order, r.ls, r.kind, rule, r.start, r.end, r.skip, r.limit)

(* A collection lists its items in its own order, those that are missing   *)
(* included; details are what PostDetails::get_by_id found.                *)
GetCollectionItemsPostKeys(details, r) ==
    IF details = {} \/ \E d \in details : d.kind # "collection" THEN <<>>
    ELSE Page(Items[r.source.post], r.skip, r.limit)

(* users is what the follow sets hold for the source, details those of the *)
(* collection asked for.                                                   *)
CollectPostKeys(g, db, users, details, r) ==
    IF r.source.on = "collection" THEN GetCollectionItemsPostKeys(details, r)
    ELSE IF CanUseIndex(r) THEN GetFromIndex(db, users, r)
    ELSE GetFromGraph(g, r, TrustRule(db, r))

(* PostsByTagSearch::get_by_label_with_reach.                              *)
GetByLabelWithReach(g, l, r) == GetFromGraph(g, [r EXCEPT !.ls = {l}, !.order = "desc"], {})

(* What a reconcile writes for a post, and what PostsByTagSearch moves.    *)
SharedSetEntries(entry) ==
    (IF entry.is_reply THEN {}
     ELSE {<<Timeline, entry.at>>, <<TotalEngagement, entry.engagement>>})
    \cup {<<TagPostTimeline(l), entry.at>> : l \in entry.labels}
    \cup {<<TagPostEngagement(l), entry.engagement + entry.mentions>> : l \in entry.labels}
PutPostByTag(db, p, l, detailsKnown) ==
    IF CheckSortedSetMember(db, TagPostTimeline(l), p) # {} \/ ~detailsKnown THEN db
    ELSE GateAdd(db, TagPostTimeline(l), Entry(p, PostAt[p]))
DelPostByTag(db, p, l, taggers) ==
    IF taggers = {} THEN RemoveFromIndexSortedSet(db, TagPostTimeline(l), {p}) ELSE db
UpdateLabelScore(db, p, l, delta) == GateIncr(db, TagPostEngagement(l), p, delta)
=============================================================================

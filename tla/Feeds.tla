------------------------------- MODULE Feeds -------------------------------
(***************************************************************************)
(* The feeds the API builds from the models: streams of users, searches,   *)
(* notifications and the bootstrap payload.  Whatever a cached ranking     *)
(* answers is a parameter here; Rankings has the caches.                   *)
(***************************************************************************)
EXTENDS Views

CONSTANTS
    MaxReachAuthors,  \* authors a content search looks at (1000)
    NotifyMaxScan     \* notifications a filtered page may scan (10 000)

Notifications(u) == <<"notifications", u>>
EventLines       == <<"events">>

-----------------------------------------------------------------------------
(* models/user/stream.rs.                                                  *)

(* A page of a follow set: the members come in no stated order.            *)
FollowPage(g, db, key, u, skip, limit) ==
    UNION {SPages(s, skip, limit) : s \in FollowView(g, db, key, u)}
FriendsPage(g, db, u, skip, limit) ==
    UNION {SPages(s, skip, limit) : s \in FriendsView(g, db, u)}

(* One list of several: in each round every list gives its first that has  *)
(* not been given, until a round gives nothing.                            *)
FirstUnseen(list, seen) ==
    LET Fresh(x) == x \notin seen IN SubSeq(SelectSeq(list, Fresh), 1, Least(1, Len(SelectSeq(list, Fresh))))
InterleaveUnique(lists) ==
    LET n == Len(lists)
        Turn[i \in 0..n * (1 + Cardinality(UNION {Members(lists[j]) : j \in 1..n}))] ==
            IF i = 0 THEN <<>>
            ELSE Turn[i - 1] \o FirstUnseen(lists[1 + ((i - 1) % n)], Members(Turn[i - 1]))
    IN IF n = 0 THEN <<>> ELSE Turn[n * (1 + Cardinality(UNION {Members(lists[j]) : j \in 1..n}))]

(* Every label is asked for as many as all labels together may show.       *)
PerLabel(skip, limit, ls) == (skip + limit) * (IF Len(ls) = 0 THEN 1 ELSE Len(ls))
GetStarterPackIds(g, ls, u, since, skip, limit) ==
    LET by == StarterPackUsers(g, Members(ls), u, since, PerLabel(skip, limit, ls))
        Has(l) == l \in DOMAIN by
        asked  == SelectSeq(InterleaveUnique(<<ls>>), Has)   \* a repeated label counts once
    IN Page(InterleaveUnique([i \in 1..Len(asked) |-> by[asked[i]]]), skip, limit)

GetPostRepliesIds(db, p) == {Author[q] : q \in DOMAIN db[RepliesPerPost(p)]}

(* Of the users found in the cache for u, those that are gone are dropped  *)
(* from it; a miss asks the graph and caches the answer.                   *)
RecommendedOf(u) == <<"recommended", u>>
Indexed(db, u)   == db[DetailsOf(u)] # {} /\ db[DetailsOf(u)] # {"deleted"}
TryGetCachedRecommended(db, u, n)     == TryGetRandomFromIndexSet(db, RecommendedOf(u), n)
CacheRecommendedUsers(db, u, us)      == PutIndexSet(db, RecommendedOf(u), us)
RemoveFromCachedRecommended(db, u, us) == RemoveFromIndexSet(db, RecommendedOf(u), us)
GetRecommendedIds(g, db, u, n) ==
    IF db[RecommendedOf(u)] # {}
    THEN {[ids |-> {v \in some : Indexed(db, v)},
           db |-> RemoveFromCachedRecommended(db, u, {v \in some : ~Indexed(db, v)})] :
              some \in TryGetCachedRecommended(db, u, n)}
    ELSE UNION {{[ids |-> ids, db |-> IF us = {} THEN db ELSE CacheRecommendedUsers(db, u, us)] :
                    ids \in SRandom(us, n)} : us \in RecommendUsers(g, u, 30)}

(* Sources in no order answer any of a set of sets; ranked is what the     *)
(* ranked ones answer.                                                     *)
GetUserListFromSource(g, db, i, ranked) ==
    CASE i.source = "followers"    -> FollowPage(g, db, FollowersKey(i.user), i.user, i.skip, i.limit)
      [] i.source = "following"    -> FollowPage(g, db, FollowingKey(i.user), i.user, i.skip, i.limit)
      [] i.source = "friends"      -> FriendsPage(g, db, i.user, i.skip, i.limit)
      [] i.source = "post_replies" -> {GetPostRepliesIds(db, i.post)}
      [] i.source = "starter_pack" -> {Members(GetStarterPackIds(g, i.tags, i.user, i.from, i.skip, i.limit))}
      [] i.source = "recommended"  -> {r.ids : r \in GetRecommendedIds(g, db, i.user, i.limit)}
      [] i.source \in {"most_followed", "influencers"} -> {ranked}
(* The views of those that are there.                                      *)
FromListedUserIds(g, db, us, viewer, page) ==
    {u \in us : UserViews(g, db, us, viewer, page)[u] # {}}
FromListedPostIds(g, db, ps) ==
    LET Known(p) == PostDetails(g, db, p) # {} IN SelectSeq(ps, Known)
FromListedResourceIds(g, rs, viewer) ==
    [i \in 1..Len(rs) |-> ResourceView(g, rs[i], viewer, 0, 5, 3)]
GetFromUsernameSearch(g, db, prefix, viewer, skip, limit, page) ==
    FromListedUserIds(g, db, Members(GetByName(db, prefix, skip, limit)), viewer, page)

-----------------------------------------------------------------------------
(* models/follow/reach.rs: one author too many tells that some were left.  *)
TrimToLimit(ids, limit) == [authors |-> Page(ids, 0, limit), met_limit |-> Len(ids) > limit]
ReachAuthors(g, u, reach, limit) == TrimToLimit(GetReachAuthorsByPosts(g, u, reach, limit + 1), limit)
ReachContains(g, u, reach, v)    == u # v /\ ReachContainsUser(g, u, v, reach)

(* Resources, the log of events, and taggers over all posts.               *)
GetResourceKeys(g, apps, ls, order, start, end, skip, limit) ==
    ResourceStream(g, apps, ls, order, start, end, skip, limit)
EventsFrom(db, cursor, limit) ==
    LET lines == TryFromIndexList(db, EventLines, cursor, limit)
    IN [events |-> lines, cursor |-> cursor + Len(lines)]
GetGlobalTaggers(g, hot, l, u, reach, skip, limit) ==
    IF u # Nobody
    THEN GetTagTaggersByReach(g, l, u, IF reach = <<>> THEN <<"following">> ELSE reach, skip, limit)
    ELSE IF hot = {} \/ \A h \in hot : l \notin DOMAIN h THEN <<>>
    ELSE Page((CHOOSE h \in hot : TRUE)[l], skip, limit)

-----------------------------------------------------------------------------
(* models/notification.  A notification is a number whose thousands are    *)
(* its type, scored by its time.                                           *)
TypeOfNote(m) == m \div 1000
NotificationsById(db, u, start, end, skip, limit) ==
    TryFromIndexSortedSet(db, Notifications(u), start, end, skip, limit, "desc")

(* Where a scan that stopped at its cap goes on.                           *)
NextStart(z, rows) == z[rows[Len(rows)]] - 1
(* The chunks of a scan are one read here: the first fixes its start.  It  *)
(* ends at a full page, at the end of the set or after NotifyMaxScan rows. *)
NotificationsFiltered(db, u, start, end, skip, limit, types) ==
    LET z     == db[Notifications(u)]
        whole == ZRange(z, end, start, 0, NoBound, "desc")
        rows  == Page(whole, 0, NotifyMaxScan)
        Fits(m) == TypeOfNote(m) \in types
        page  == Page(SelectSeq(rows, Fits), skip, limit)
        exhausted == Len(whole) < NotifyMaxScan
    IN [page |-> page,
        next_start |-> IF Len(page) < limit /\ ~exhausted THEN NextStart(z, rows) ELSE NoBound]

-----------------------------------------------------------------------------
(* models/bootstrap.rs.  posts are those of the timeline; the users are    *)
(* gathered from everything that is shown and looked up once at the end.   *)
RepliesShown == 3
TimelineShown == 20
RepliesOf(g, db, p) ==
    FromListedPostIds(g, db, GetPostRepliesKeys(db, [Request([on |-> "post_replies", user |-> 0, depth |-> 0,
        ls |-> {}, post |-> p], "timeline", "desc", {}, <<"none">>, Nobody) EXCEPT !.limit = RepliesShown]))
HandlePostStream(g, db, posts) ==
    [users |-> {Author[p] : p \in Members(posts)},
     answered |-> {p \in Members(posts) : \E c \in CountsView(g, db, p) : c.replies > 0}]
BootstrapPosts(g, db, viewer) ==
    LET r == [Request([on |-> "all", user |-> 0, depth |-> 0, ls |-> {}, post |-> 0], "timeline", "desc",
                      {}, <<"none">>, viewer) EXCEPT !.limit = TimelineShown]
    IN FromListedPostIds(g, db, CollectPostKeys(g, db, {}, {}, r))

UsersToMerge(shown, replies, listed, viewer) ==
    shown.users \cup {Author[p] : p \in replies} \cup listed \cup viewer

BootstrapById(g, db, u, influencers, recommended, taggers, page) ==
    LET viewer  == IF UserDetails(g, db, u) = {} THEN Nobody ELSE u
        posts   == BootstrapPosts(g, db, viewer)
        shown   == HandlePostStream(g, db, posts)
        replies == UNION {Members(RepliesOf(g, db, p)) : p \in shown.answered}
        listed  == influencers \cup taggers \cup (IF viewer = Nobody THEN {} ELSE recommended)
        users   == UsersToMerge(shown, replies, listed, IF viewer = Nobody THEN {} ELSE {u})
    IN [indexed |-> viewer # Nobody,
        stream |-> posts, replies |-> replies, listed |-> listed,
        users |-> FromListedUserIds(g, db, users, viewer, page),
        notifications |-> IF viewer = Nobody THEN <<>>
                          ELSE NotificationsById(db, u, NoBound, NoBound, 0, 30)]
=============================================================================

---------------------------- MODULE GraphQueries ----------------------------
(***************************************************************************)
(* The read queries of db/graph/queries/get.rs: what each Cypher text      *)
(* returns from a graph.  Users, posts, resources and labels are integers, *)
(* in the order of their ids, so that ORDER BY has a meaning; the number   *)
(* of a post is its place among the "author:post" keys, and PostId is the  *)
(* id alone, which only its author keeps unique.                           *)
(*                                                                         *)
(* A graph g has the fields                                                *)
(*   user       the state of each User node; a stub is named after its key *)
(*   post       the state of each Post node; "dead" is a tombstone         *)
(*   follows, bookmarks, tags    edges with the time they were indexed     *)
(*   collected  pairs of a collection and a post it lists                  *)
(* REPLIED, REPOSTED and MENTIONED edges stay as long as their post does,  *)
(* so they are those of the posts that are there.                          *)
(***************************************************************************)
EXTENDS KvStore

CONSTANTS
    Users, Posts, Labels, Resources,
    Author,      \* [Posts -> Users]
    PostId,      \* [Posts -> Nat]
    PostAt,      \* [Posts -> Nat]: indexed_at
    Parent,      \* [Posts -> SUBSET Posts]: the post it replies to, or nothing
    Embed,       \* [Posts -> SUBSET Posts]: the post it reposts, or nothing
    Mentioned,   \* [Posts -> SUBSET Users]
    KindOf,      \* [Posts -> {"short", "long", "collection"}]
    Locked,      \* posts with a lock
    Items,       \* [Posts -> Seq(Posts)]: what a collection lists
    Trust,       \* [Users -> Nat]: the score of the trust engine
    MinPosts     \* posts a recommended user has (5)

ASSUME GraphAssumption ==
    /\ Author \in [Posts -> Users]
    /\ \A p, q \in Posts : Author[p] = Author[q] /\ PostId[p] = PostId[q] => p = q
    /\ \A p, q \in Posts : p < q <=> \/ Author[p] < Author[q]
                                     \/ Author[p] = Author[q] /\ PostId[p] < PostId[q]

Nobody == 0
NoApp  == 0
MAX_QUERY_SKIP  == 10000
MAX_QUERY_LIMIT == 1000

Tag(u, x, l, app, at) == [by |-> u, to |-> x, label |-> l, app |-> app, at |-> at]

-----------------------------------------------------------------------------
(* Patterns that many queries share.                                       *)
Exists(g, u)      == g.user[u] # "none"
Active(g, u)      == g.user[u] \in {"stub", "live"}   \* NOT coalesce(deleted)
Named(g, u)       == g.user[u] = "live"               \* and u.name <> u.id
Stored(g)         == {p \in Posts : g.post[p] # "none"}
AuthoredBy(g, u)  == {p \in Stored(g) : Author[p] = u}
RepliesTo(g, p)   == {q \in Stored(g) : p \in Parent[q]}
RepostsOf(g, p)   == {q \in Stored(g) : p \in Embed[q]}
IsReply(p)        == Parent[p] # {}
CollectedIn(g, p) == {e[1] : e \in {c \in g.collected : c[2] = p}}
TagsOn(g, x)      == {t \in g.tags : t.to = x}
LabelsOn(g, x)    == {t.label : t \in TagsOn(g, x)}
TaggersOf(g, x, l) == {t.by : t \in {s \in TagsOn(g, x) : s.label = l}}
Follows(g, u)     == {e.to : e \in {f \in g.follows : f.from = u}}
FollowersOf(g, u) == {e.from : e \in {f \in g.follows : f.to = u}}

Earlier(a, b) == a < b
(* SKIP and LIMIT, both capped; a pair of sequences in either direction.   *)
Clip(s, skip, limit) == Page(s, Least(skip, MAX_QUERY_SKIP), Least(limit, MAX_QUERY_LIMIT))
After(S, cursor, limit) == Page(Sorted({x \in S : x > cursor}, Earlier), 0, limit)
RankedBy(S, Score(_)) ==
    LET Above(a, b) == Score(a) > Score(b) \/ (Score(a) = Score(b) /\ a < b)
    IN Sorted(S, Above)

-----------------------------------------------------------------------------
(* One post.                                                               *)
GetPostById(g, p) ==
    IF g.post[p] = "none" THEN {}
    ELSE {[id |-> p, kind |-> IF g.post[p] = "dead" THEN "short" ELSE KindOf[p],
           deleted |-> g.post[p] = "dead", reply |-> Parent[p]]}

PostCounts(g, p) ==
    IF g.post[p] = "none" THEN {}
    ELSE {[tags |-> Cardinality(TagsOn(g, p)), unique_tags |-> Cardinality(LabelsOn(g, p)),
           replies |-> Cardinality(RepliesTo(g, p)), reposts |-> Cardinality(RepostsOf(g, p)),
           collections |-> Cardinality(CollectedIn(g, p))]}

PostRelationships(g, p) ==
    IF g.post[p] = "none" THEN {}
    ELSE {[replied |-> Parent[p], reposted |-> Embed[p], mentioned |-> Mentioned[p]]}

PostBookmark(g, p, viewer) == {b.at : b \in {e \in g.bookmarks : e.post = p /\ e.by = viewer}}
(* user_bookmarks pages by the post's id alone.                            *)
UserBookmarks(g, u, cursor, limit) ==
    LET marked == {e.post : e \in {f \in g.bookmarks : f.by = u}}
        InOrder(p, q) == PostId[p] < PostId[q] \/ (PostId[p] = PostId[q] /\ p < q)
    IN Page(Sorted({p \in marked : PostId[p] > cursor}, InOrder), 0, limit)
GetPostBookmarks(g, p, cursor, limit) ==
    After({e.by : e \in {f \in g.bookmarks : f.post = p}}, cursor, limit)
GetBookmarkTarget(g, u, p) == {e.post : e \in {f \in g.bookmarks : f.by = u /\ f.post = p}}
GetPostReposts(g, p, cursor, limit) ==
    LET InOrder(q, r) == PostId[q] < PostId[r] \/ (PostId[q] = PostId[r] /\ q < r)
    IN Page(Sorted({q \in RepostsOf(g, p) : PostId[q] > cursor}, InOrder), 0, limit)
GetPostReplies(g, p, cursor, limit) ==
    LET InOrder(q, r) == PostId[q] < PostId[r] \/ (PostId[q] = PostId[r] /\ q < r)
    IN Page(Sorted({q \in RepliesTo(g, p) : PostId[q] > cursor}, InOrder), 0, limit)
GetPostTags(g, p, cursor, limit) ==
    LET Before(s, t) == s.by < t.by \/ (s.by = t.by /\ s.label < t.label)
        rest == {t \in TagsOn(g, p) : \/ t.by > cursor[1]
                                      \/ t.by = cursor[1] /\ t.label > cursor[2]}
    IN Page(Sorted(rest, Before), 0, limit)

(* The id of a tag is a hash of its target and label; app is part of where *)
(* a record is filed, and only a resource's edge carries it.               *)
GetTagTarget(g, u, x, l, app) == {t \in TagsOn(g, x) : t.by = u /\ t.label = l /\ t.app = app}
GetTagByTaggerAndId(g, u, x, l) == {t \in TagsOn(g, x) : t.by = u /\ t.label = l}

-----------------------------------------------------------------------------
(* The tags of a target: labels with their taggers and the viewer's URI.   *)
(* Taggers are collected in no stated order; the model takes that of ids.  *)
ViewerUris(g, x, viewer, l) ==
    LET apps == {t.app : t \in {s \in TagsOn(g, x) : s.by = viewer /\ s.label = l}}
    IN {a \in apps : \A b \in apps : a <= b}
TagRow(g, x, l, taggers, viewer) ==
    [label |-> l, taggers |-> taggers, taggers_count |-> Cardinality(taggers),
     uri |-> ViewerUris(g, x, viewer, l)]
PostTags(g, p, viewer) == {TagRow(g, p, l, TaggersOf(g, p, l), viewer) : l \in LabelsOn(g, p)}
UserTags(g, u, viewer) == {TagRow(g, u, l, TaggersOf(g, u, l), viewer) : l \in LabelsOn(g, u)}

RankedRows(rows) ==
    LET Above(r, s) == \/ r.taggers_count > s.taggers_count
                       \/ (r.taggers_count = s.taggers_count /\ r.label < s.label)
    IN Sorted(rows, Above)
FirstTaggers(row, n) ==
    [row EXCEPT !.taggers = Members(Page(Sorted(@, Earlier), 0, n))]

ResourceView(g, r, viewer, skipTags, limitTags, limitTaggers) ==
    LET rows == Page(RankedRows({TagRow(g, r, l, TaggersOf(g, r, l), viewer) : l \in LabelsOn(g, r)}),
                     skipTags, limitTags)
    IN [i \in 1..Len(rows) |-> FirstTaggers(rows[i], limitTaggers)]
ResourceLabelTaggers(g, r, l, viewer, skip, limit) ==
    [taggers |-> Page(Sorted(TaggersOf(g, r, l), Earlier), skip, limit),
     uri |-> ViewerUris(g, r, viewer, l)]
ResourceStream(g, apps, ls, order, start, end, skip, limit) ==
    LET edges == {t \in g.tags : t.to \in Resources /\ (apps = {} \/ t.app \in apps)
                                                    /\ (ls = {} \/ t.label \in ls)}
        Score(r) == CHOOSE n \in {t.at : t \in {e \in edges : e.to = r}} :
                        \A t \in {e \in edges : e.to = r} : t.at <= n
        Within(n) == IF order = "desc" THEN (start = NoBound \/ n <= start) /\ (end = NoBound \/ n >= end)
                     ELSE (start = NoBound \/ n >= start) /\ (end = NoBound \/ n <= end)
        found == {r \in {t.to : t \in edges} : Within(Score(r))}
        Up(r, s)   == Score(r) < Score(s) \/ (Score(r) = Score(s) /\ r < s)
        Down(r, s) == Up(s, r)
    IN Clip(IF order = "asc" THEN Sorted(found, Up) ELSE Sorted(found, Down), skip, limit)

-----------------------------------------------------------------------------
(* Reach: who a user's feed looks at.                                      *)
Step(g, S) == UNION {Follows(g, u) : u \in S}
Within(g, u, depth) ==
    LET Walk[n \in 1..depth] == IF n = 1 THEN Follows(g, u) ELSE Walk[n - 1] \cup Step(g, Walk[n - 1])
    IN Walk[depth]
(* stream_reach_to_graph_subquery: a reach is <<"wot", depth>> or a name.  *)
StreamReachToGraphSubquery(g, u, reach) ==
    CASE reach = <<"followers">> -> FollowersOf(g, u)
      [] reach = <<"following">> -> Follows(g, u)
      [] reach = <<"friends">>   -> Follows(g, u) \cap FollowersOf(g, u)
      [] OTHER                   -> Within(g, u, reach[2])
Reach(g, u, reach) == IF Exists(g, u) THEN StreamReachToGraphSubquery(g, u, reach) ELSE {}

(* Only those who wrote something, the most prolific first.                *)
GetReachAuthorsByPosts(g, u, reach, limit) ==
    LET authors == {v \in Reach(g, u, reach) \ {u} : AuthoredBy(g, v) # {}}
        Above(v, w) == LET m == Cardinality(AuthoredBy(g, v))  n == Cardinality(AuthoredBy(g, w))
                       IN m > n \/ (m = n /\ v > w)
    IN Page(Sorted(authors, Above), 0, limit)
ReachContainsUser(g, u, v, reach) ==
    u # v /\ Exists(g, v) /\ v \in Reach(g, u, reach)

GetViewerTrustedNetworkTags(g, u, viewer, depth) ==
    LET net == Reach(g, viewer, <<"wot", depth>>) \ {viewer}
    IN {TagRow(g, u, l, TaggersOf(g, u, l) \cap net, viewer) :
           l \in {l \in LabelsOn(g, u) : TaggersOf(g, u, l) \cap net # {}}}
GetViewerTrustedNetworkPostTags(g, p, viewer, depth, skipTags, limitTags, limitTaggers) ==
    LET rows == Page(RankedRows(GetViewerTrustedNetworkTags(g, p, viewer, depth)), skipTags, limitTags)
    IN [i \in 1..Len(rows) |-> FirstTaggers(rows[i], limitTaggers)]
GetTagTaggersByReach(g, l, u, reach, skip, limit) ==
    LET used(v) == {t \in g.tags : t.by = v /\ t.label = l /\ t.to \in Posts}
        reached == {v \in Reach(g, u, reach) : used(v) # {}}
        Latest(v) == CHOOSE n \in {t.at : t \in used(v)} : \A t \in used(v) : t.at <= n
    IN Page(RankedBy(reached, Latest), skip, limit)

-----------------------------------------------------------------------------
(* Users.                                                                  *)
GetUsersDetailsByIds(g, us) == [u \in us |-> IF Exists(g, u) THEN {g.user[u]} ELSE {}]
UsersExist(g, us)           == \A u \in us : Exists(g, u)
GetUserFollowers(g, u)      == IF Exists(g, u) THEN {FollowersOf(g, u)} ELSE {}
GetUserFollowing(g, u)      == IF Exists(g, u) THEN {Follows(g, u)} ELSE {}

TaggedCount(g, u) == Cardinality({t \in g.tags : t.by = u /\ t.to \in Users \cup Posts})
UserCountFields(g, u) ==
    [following   |-> Cardinality(Follows(g, u)),
     followers   |-> Cardinality(FollowersOf(g, u)),
     friends     |-> Cardinality(Follows(g, u) \cap FollowersOf(g, u)),
     posts       |-> Cardinality(AuthoredBy(g, u)),
     replies     |-> Cardinality({p \in AuthoredBy(g, u) : IsReply(p)}),
     collections |-> Cardinality({p \in AuthoredBy(g, u) :
                                     g.post[p] = "live" /\ KindOf[p] = "collection"}),
     bookmarks   |-> Cardinality({b \in g.bookmarks :
                                     b.by = u /\ (g.post[b.post] = "dead" \/ KindOf[b.post] # "collection")}),
     tagged      |-> TaggedCount(g, u),
     tags        |-> Cardinality(TagsOn(g, u)),
     unique_tags |-> Cardinality(LabelsOn(g, u))]
UserCountsByIds(g, us) == [u \in us |-> IF Exists(g, u) THEN {UserCountFields(g, u)} ELSE {}]

UsersByTags(g, S, ls, skip, limit) ==
    LET Score(u) == Cardinality({t \in TagsOn(g, u) : t.label \in ls})
        found == {u \in S : Active(g, u) /\ Score(u) > 0}
        Above(u, v) == Score(u) > Score(v) \/ (Score(u) = Score(v) /\ u > v)
    IN Clip(Sorted(found, Above), skip, limit)
SearchUsersByTags(g, ls, skip, limit) == UsersByTags(g, Users, ls, skip, limit)
SearchUsersByTagsWithReach(g, ls, u, reach, skip, limit) ==
    UsersByTags(g, Reach(g, u, reach) \ {u}, ls, skip, limit)

(* recommend_users and starter_pack_users.                                 *)
RecommendUsers(g, u, limit) ==
    LET far == Step(g, Follows(g, u)) \cup Step(g, Step(g, Follows(g, u)))
        potential == {v \in far \ (Follows(g, u) \cup {u}) :
                         Active(g, v) /\ Cardinality(AuthoredBy(g, v)) >= MinPosts}
    IN IF Exists(g, u) THEN SRandom(potential, limit) ELSE {{}}
Endorsers(g, v, l) ==
    TaggersOf(g, v, l) \cup UNION {TaggersOf(g, p, l) : p \in AuthoredBy(g, v)}
StarterPackUsers(g, ls, u, since, perLabel) ==
    LET Fits(v) == /\ Active(g, v) /\ v # u /\ (u = Nobody \/ v \notin Follows(g, u))
                   /\ \E p \in AuthoredBy(g, v) : PostAt[p] >= since
        Endorsed(l) == {v \in Users : Endorsers(g, v, l) # {} /\ Fits(v)}
        Score(v, l) == LET sum[S \in SUBSET Users] ==
                             IF S = {} THEN 0
                             ELSE LET w == CHOOSE w \in S : TRUE IN Trust[w] + sum[S \ {w}]
                       IN sum[Endorsers(g, v, l)]
        Above(v, w, l) ==
            LET m == Cardinality(Endorsers(g, v, l))  n == Cardinality(Endorsers(g, w, l))
            IN \/ Score(v, l) > Score(w, l)
               \/ (Score(v, l) = Score(w, l) /\ (m > n \/ (m = n /\ v < w)))
        Best(l) == LET Before(v, w) == Above(v, w, l)
                   IN Page(Sorted(Endorsed(l), Before), 0, Least(perLabel, MAX_QUERY_LIMIT))
    IN [l \in {l \in ls : Endorsed(l) # {}} |-> Best(l)]

(* Ranked: scored by the trust engine and not deleted, the best first.     *)
RankedUser(g, u) == Trust[u] > 0 /\ Active(g, u)
GetTrustRankedUserIds(g) ==
    LET Score(u) == Trust[u] IN RankedBy({u \in Users : RankedUser(g, u)}, Score)
=============================================================================

---------------------------- MODULE StreamQueries ----------------------------
(***************************************************************************)
(* The rest of db/graph/queries/get.rs: the post stream, the queries the   *)
(* index is rebuilt from and the rankings.                                 *)
(***************************************************************************)
EXTENDS GraphQueries

(* What a post is ranked by, overall and, as a reindex has it, per label.  *)
Engagement(g, p) ==
    Cardinality(TagsOn(g, p)) + Cardinality(RepliesTo(g, p)) + Cardinality(RepostsOf(g, p))

-----------------------------------------------------------------------------
(* post_stream.  A source is a record [on, user, depth, ls, post]: user is *)
(* the observer or the author, ls the domain tags, post the anchor.        *)
FromReach(reach, u) ==
    [on |-> reach[1], user |-> u, depth |-> IF Len(reach) = 2 THEN reach[2] ELSE 0,
     ls |-> {}, post |-> 0]
HasObserver(s) == s.on \in {"following", "followers", "friends", "bookmarks", "wot",
                            "domain_me", "domain_network"}
HasAuthor(s)   == s.on \in {"author", "author_replies"}

(* Who the MATCH of the source lets through as the author.                 *)
SourceAuthors(g, s) ==
    LET net == StreamReachToGraphSubquery(g, s.user, <<"wot", s.depth>>) \ {s.user}
    IN CASE s.on \in {"following", "followers", "friends"} ->
              StreamReachToGraphSubquery(g, s.user, <<s.on>>) \ {s.user}
         [] s.on = "wot"            -> net
         [] s.on = "domain_me"      -> {t.to : t \in {e \in g.tags : e.by = s.user /\ e.to \in Users
                                                                     /\ e.label \in s.ls}}
         [] s.on = "domain_network" -> {t.to : t \in {e \in g.tags : e.by \in net /\ e.to \in Users
                                                                     /\ e.label \in s.ls}}
         [] HasAuthor(s)            -> {s.user}
         [] OTHER                   -> Users
SourcePosts(g, s) ==
    CASE s.on = "bookmarks"        -> {b.post : b \in {e \in g.bookmarks : e.by = s.user}}
      [] s.on = "post_collections" -> CollectedIn(g, s.post)
      [] OTHER                     -> Stored(g)

(* TrustRule: [viewer |-> u] lets u see what he wrote; {} is no rule.      *)
TrustCondition(g, rule, p) ==
    \A r \in rule : RankedUser(g, Author[p]) \/ Author[p] = r.viewer
(* KindFilter; a tombstone is a short post without a lock.                 *)
KindCondition(g, kind, p) ==
    LET k == IF g.post[p] = "dead" THEN "short" ELSE KindOf[p]
    IN CASE kind = <<"none">>       -> TRUE
         [] kind[1] = "kind"        -> k = kind[2]
         [] kind[1] = "exclude"     -> k \notin kind[2]
         [] kind = <<"locked">>     -> g.post[p] = "live" /\ p \in Locked

StreamScore(g, sorting, p) == IF sorting = "timeline" THEN PostAt[p] ELSE Engagement(g, p)

PostStreamSet(g, s, ls, kind, rule) ==
    {p \in SourcePosts(g, s) :
        /\ HasObserver(s) => Exists(g, s.user)
        /\ Author[p] \in SourceAuthors(g, s)
        /\ s.on = "all" => TrustCondition(g, rule, p)
        /\ ls # {} => LabelsOn(g, p) \cap ls # {}
        /\ KindCondition(g, kind, p)
        /\ s.on # "bookmarks" => ~IsReply(p)}

(* start and end change sides with the order; "collection" is refused.     *)
InCursor(n, order, start, end) ==
    IF order = "desc" THEN (start = NoBound \/ n <= start) /\ (end = NoBound \/ n >= end)
    ELSE (start = NoBound \/ n >= start) /\ (end = NoBound \/ n <= end)
PostStream(g, s, sorting, order, ls, kind, rule, start, end, skip, limit) ==
    LET Score(p) == StreamScore(g, sorting, p)
        found == {p \in PostStreamSet(g, s, ls, kind, rule) : InCursor(Score(p), order, start, end)}
        Up(p, q) == \/ Score(p) < Score(q)
                    \/ (Score(p) = Score(q) /\ (PostId[p] < PostId[q] \/ (PostId[p] = PostId[q] /\ p < q)))
        Down(p, q) == Up(q, p)
    IN IF s.on = "collection" THEN <<>>
       ELSE Clip(IF order = "asc" THEN Sorted(found, Up) ELSE Sorted(found, Down), skip, limit)

-----------------------------------------------------------------------------
(* What a reindex reads.                                                   *)
GlobalTagsByPost(g) ==
    [l \in Labels |-> [p \in {p \in Stored(g) : l \in LabelsOn(g, p)} |-> PostAt[p]]]
GlobalTagsByPostEngagement(g) ==
    [l \in Labels |-> [p \in {p \in Stored(g) : l \in LabelsOn(g, p)} |->
                          Engagement(g, p) + Cardinality(Mentioned[p])]]
GlobalTagsByUser(g) ==
    [l \in Labels |-> [u \in {u \in Users : Active(g, u) /\ l \in LabelsOn(g, u)} |->
                          Cardinality({t \in TagsOn(g, u) : t.label = l})]]
GetTags(g) == {t.label : t \in g.tags}
PostAuthorIds(g) == {u \in Users : AuthoredBy(g, u) # {}}
(* Keyset pages of one author's posts, by time and then id.                *)
AuthorPostEntries(g, u, after, limit) ==
    LET Before(p, q) == PostAt[p] < PostAt[q] \/ (PostAt[p] = PostAt[q] /\ PostId[p] < PostId[q])
        rest == {p \in AuthoredBy(g, u) : after = 0 \/ Before(after, p)}
        page == Page(Sorted(rest, Before), 0, limit)
    IN [i \in 1..Len(page) |->
           [post |-> page[i], at |-> PostAt[page[i]], is_reply |-> IsReply(page[i]),
            labels |-> LabelsOn(g, page[i]), engagement |-> Engagement(g, page[i]),
            mentions |-> Cardinality(Mentioned[page[i]])]]

-----------------------------------------------------------------------------
(* Rankings.  A timeframe is the time it begins.  The score of an          *)
(* influencer is (tags + posts) * sqrt(followers); the model ranks by its  *)
(* square, which has the same order.                                       *)
Square(n) == n * n
InfluenceSince(g, u, from, followers) ==
    Square(Cardinality({t \in g.tags : t.by = u /\ t.to \in Posts /\ t.at >= from})
           + Cardinality({p \in AuthoredBy(g, u) : PostAt[p] >= from})) * followers
GetGlobalInfluencers(g, from, skip, limit) ==
    LET Score(u) == InfluenceSince(g, u, from, Cardinality({f \in g.follows : f.to = u /\ f.at >= from}))
        ranked == Page(RankedBy({u \in Users : Active(g, u)}, Score), skip, limit)
    IN [i \in 1..Len(ranked) |-> <<ranked[i], Score(ranked[i])>>]
GetInfluencersByReach(g, u, reach, from, skip, limit) ==
    LET Score(v) == InfluenceSince(g, v, from, Cardinality(FollowersOf(g, v)))
        ranked == Page(RankedBy({v \in Reach(g, u, reach) : Active(g, v)}, Score), skip, limit)
    IN [i \in 1..Len(ranked) |-> <<ranked[i], Score(ranked[i])>>]
GetAllTimeInfluencers(g, after, limit) ==
    LET page == After({u \in Users : Named(g, u)}, after, limit)
    IN [i \in 1..Len(page) |->
           <<page[i], Square(TaggedCount(g, page[i]) + Cardinality(AuthoredBy(g, page[i])))
                      * Cardinality(FollowersOf(g, page[i]))>>]
GetMostFollowedUsers(g, after, limit) ==
    LET page == After({u \in Users : Named(g, u)}, after, limit)
    IN [i \in 1..Len(page) |-> <<page[i], Cardinality(FollowersOf(g, page[i]))>>]

HotTagRows(edges, taggersLimit, skip, limit) ==
    LET Tagged(l)  == {t.to : t \in {e \in edges : e.label = l}}
        Taggers(l) == {t.by : t \in {e \in edges : e.label = l}}
        Score(l)   == Cardinality(Tagged(l))
        ranked == Page(RankedBy({t.label : t \in edges}, Score), skip, limit)
    IN [i \in 1..Len(ranked) |->
           [label |-> ranked[i], tagged_count |-> Score(ranked[i]),
            taggers_count |-> Cardinality(Taggers(ranked[i])),
            taggers |-> Page(Sorted(Taggers(ranked[i]), Earlier), 0, taggersLimit)]]
GetGlobalHotTags(g, types, from, taggersLimit, skip, limit) ==
    HotTagRows({t \in g.tags : t.to \in types /\ t.at >= from}, taggersLimit, skip, limit)
GetHotTagsByReach(g, u, reach, types, from, taggersLimit, skip, limit) ==
    HotTagRows({t \in g.tags : t.by \in Reach(g, u, reach) /\ t.to \in types /\ t.at >= from},
               taggersLimit, skip, limit)
=============================================================================

---------------------------- MODULE ReadProperties ---------------------------
(***************************************************************************)
(* What a reader of the API may rely on, through every event, expiry and   *)
(* rebuild of Reads.                                                       *)
(***************************************************************************)
EXTENDS Reads

(* Post ids are unique per author only, and the rebuild goes from batch to *)
(* batch by the id: the second of two posts with one id is skipped when a  *)
(* batch ends between them.                                                *)
MaybeSkipped ==
    IF rebuilt THEN {p \in Posts : \E q \in Posts \ {p} : PostId[q] = PostId[p]} ELSE {}

Source(on, u, p) == [on |-> on, user |-> u, depth |-> 0, ls |-> {}, post |-> p]
Feed(source, sorting, ls, viewer) == Request(source, sorting, "desc", ls, <<"none">>, viewer)
FeedRequests ==
    {Feed(Source("all", 0, 0), sorting, ls, v) :
        sorting \in {"timeline", "engagement"}, ls \in {{}} \cup {{l} : l \in Labels}, v \in {Nobody} \cup Users}
    \cup {Feed(Source(on, u, 0), "timeline", {}, Nobody) :
             on \in {"author", "author_replies", "bookmarks", "following", "followers", "friends"}, u \in Users}
    \cup {Feed(Source("post_replies", 0, p), "timeline", {}, Nobody) : p \in Posts}

(* The posts a feed stands for, by the graph.                              *)
FeedPosts(r) ==
    LET g == store.graph
        Shown(p) == Admitted(store.db, p) \/ (r.ls = {} /\ r.sorting = "timeline" /\ Author[p] = r.viewer)
    IN CASE r.source.on = "all" /\ r.ls = {} -> {p \in PostStreamSet(g, r.source, {}, r.kind, {}) : Shown(p)}
         [] r.source.on = "all" /\ r.ls # {} -> {p \in Stored(g) : LabelsOn(g, p) \cap r.ls # {} /\ Shown(p)}
         [] r.source.on = "author_replies"   -> {p \in AuthoredBy(g, r.source.user) : IsReply(p)}
         [] r.source.on = "post_replies"     -> RepliesTo(g, r.source.post)
         [] OTHER                            -> PostStreamSet(g, r.source, {}, r.kind, {})
ByLabelEngagement(r) == r.ls # {} /\ r.sorting = "engagement"
InOrderOf(g, s, sorting) ==
    \A i, j \in 1..Len(s) : i < j => StreamScore(g, sorting, s[i]) >= StreamScore(g, sorting, s[j])

(* A reconcile puts an author's posts back from the pages of               *)
(* author_post_entries.                                                    *)
RECURSIVE EntriesAfter(_, _, _)
EntriesAfter(g, u, after) ==
    LET page == AuthorPostEntries(g, u, after, 1)
    IN IF page = <<>> THEN {} ELSE Members(page) \cup EntriesAfter(g, u, page[1].post)
PutBack(db, key, p, n) == p \in DOMAIN db[key] /\ db[key][p] = n
ReconcileAgrees ==
    \A u \in PostAuthorIds(store.graph) : \A e \in EntriesAfter(store.graph, u, 0) :
        Admitted(store.db, e.post) /\ e.post \notin MaybeSkipped =>
            \A w \in SharedSetEntries(e) :
                w[1][1] = "tagEngagement" \/ PutBack(store.db, w[1], e.post, w[2])

(* A feed that is read from the index holds the posts the graph has for    *)
(* it, in the order of their time or engagement, through every event,      *)
(* expiry and rebuild.  The feed of one label lists replies too; ranked by *)
(* engagement it may also keep posts that lost the label.  Bookmarks come  *)
(* in the order they were made.  What a reconcile of the trust filter      *)
(* would write for an author it admits is what is there.                   *)
StreamsAgree ==
    phase = "live" =>
        /\ ReconcileAgrees
        /\ \A r \in FeedRequests :
            LET got == GetFromIndex(store.db, UsersOfSource(store.graph, store.db, r.source), r)
                of  == FeedPosts(r) \ MaybeSkipped
            IN /\ CanUseIndex(r)
               /\ of \subseteq Members(got)
               /\ ByLabelEngagement(r) \/ Members(got) \ MaybeSkipped = of
               /\ ByLabelEngagement(r) \/ r.source.on = "bookmarks" \/ MaybeSkipped # {}
                     \/ InOrderOf(store.graph, got, r.sorting)

(* An index in which nothing is cached but what has no other source.       *)
Uncached ==
    [k \in DbKeys |-> CASE k[1] = "followers" -> FollowersOf(store.graph, k[2])
                       [] k[1] = "following" -> Follows(store.graph, k[2])
                       [] k = Ranking        -> store.db[k]
                       [] OTHER              -> EmptyDb[k]]

Viewers  == {Nobody, Asker, Author[Asked]}
FullPage == TagPage(0, 10, 10)
PostAnswers(db, p, v) ==
    LET g == store.graph
    IN <<PostViewHandler(g, db, p, v, FullPage), PostDetailsHandler(g, db, p), PostCountsHandler(g, db, p),
         PostBookmarkHandler(g, db, p, v), PostTagsHandler(g, db, p, v, NoBound, FullPage)>>
UserAnswers(db, u, v) ==
    LET g == store.graph
    IN <<UserViewHandler(g, db, u, v, NoBound, FullPage), UserDetailsHandler(g, db, u),
         UserCountsHandler(g, u), UserRelationshipHandler(g, db, u, v),
         UserTagsHandler(g, db, u, v, NoBound, FullPage), UserFollowersHandler(g, db, u, 0, 10),
         UserFollowingHandler(g, db, u, 0, 10), UserFriendsHandler(g, db, u, 0, 10)>>

(* Lists that are read from the index alone.  A label is only sure to be   *)
(* listed while a post of an author the trust filter admits has it: it is  *)
(* dropped when the timeline of its posts, which the filter thins, is      *)
(* empty (tag.rs:640).                                                     *)
ListsAgree ==
    LET g == store.graph  db == store.db
        known == {u \in Users : Exists(g, u)}
        named(prefix) == {u \in Matches[prefix] \cap Users : Named(g, u)}
    IN /\ \A l \in Labels :
            /\ SearchUsersByTagsHandler(g, db, {l}, Nobody, <<>>, 0, 10).body = SearchUsersByTags(g, {l}, 0, 10)
            /\ \A p \in Posts \ MaybeSkipped :
                 /\ PostTaggersHandler(g, db, p, l, Nobody, 0, 10).body.taggers = {TaggersOf(g, p, l)}
                 /\ \A u \in TaggersOf(g, p, l) : TagViewHandler(g, u, p, l).status = 200
            /\ \A u \in Users :
                 UserTaggersHandler(g, db, u, l, Nobody, NoBound, 0, 10).body.taggers = {TaggersOf(g, u, l)}
       /\ \A prefix \in {x \in Prefixes : Matches[x] \subseteq Users} :
            /\ Members(SearchUsersByNameHandler(db, prefix, 0, 10).body) = named(prefix)
            /\ SearchUsersByIdHandler(db, prefix, 0, 10) = SearchUsersByNameHandler(db, prefix, 0, 10)
            /\ StreamUsernameSearchHandler(g, db, prefix, Asker, 0, 10, FullPage).body = named(prefix)
       /\ \A prefix \in {x \in Prefixes : Matches[x] \subseteq Labels} :
            {l \in Matches[prefix] : \E p \in Stored(g) : Admitted(db, p) /\ l \in LabelsOn(g, p)}
                \subseteq Members(SearchTagsByPrefixHandler(db, prefix, 0, 10).body)
       /\ StreamUsersByIdsHandler(g, db, Sorted(Users, Earlier), Asker, FullPage).body = known
       /\ Members(StreamPostsByIdsHandler(g, db, Sorted(Posts, Earlier)).body) = Stored(g)
       /\ UserViews(g, db, known, Asker, FullPage) = [u \in known |-> UserView(g, db, u, Asker, FullPage)]

(* The bootstrap payload has the profile of everyone it shows or lists.    *)
BootstrapComplete ==
    LET g == store.graph
    IN \A u \in Users :
        LET b == BootstrapHandler(g, store.db, u, {1}, {2}, {}, FullPage).body
            shown == {Author[p] : p \in Members(b.stream) \cup b.replies} \cup b.listed
        IN /\ {v \in shown : Exists(g, v)} \subseteq b.users
           /\ b.indexed => u \in b.users

(* What the routes answer about a post or a user is what they would answer *)
(* with nothing cached: every event drops or rewrites what it made stale.  *)
(* The lists of the index have all the graph has for them, and the         *)
(* bootstrap payload has a profile for everyone in it.                     *)
ViewsAgree ==
    phase = "live" => \A db \in {Uncached} :
        /\ \A p \in Posts \ MaybeSkipped, v \in Viewers :
             PostAnswers(store.db, p, v) = PostAnswers(db, p, v)
        /\ \A u \in Users, v \in Viewers :
             UserAnswers(store.db, u, v) = UserAnswers(db, u, v)
        /\ ListsAgree
        /\ looks = 0 => BootstrapComplete

-----------------------------------------------------------------------------
(* Queries of the posts route by user u and for post p: every source, with *)
(* labels or not and with each filter by kind or none.                     *)
PostQueries(u, p) ==
    {[source |-> on, author |-> IF on \in {"author", "author_replies"} THEN u ELSE Author[p],
      observer |-> u, post |-> p, depth |-> NoBound, domain_tags |-> Labels,
      sorting |-> "none", order |-> "none", tags |-> tags, kind |-> f[1], exclude |-> f[2], locked |-> f[3],
      start |-> NoBound, end |-> NoBound, skip |-> NoBound, limit |-> NoBound, viewer |-> Nobody] :
        on \in {"post_replies", "following", "bookmarks", "author", "author_replies", "collection",
               "post_collections", "wot", "wot_domain", "all"},
        tags \in {{}, Labels},
        f \in {<<"none", {}, FALSE>>, <<"long", {}, FALSE>>, <<"none", {"short"}, FALSE>>, <<"none", {}, TRUE>>}}

PostFiltersHold ==
    LET g == store.graph
    IN \A q \in PostQueries(Asker, Asked) :
        LET answer == StreamPostsHandler(g, store.db, q)
        IN answer.status = 200 =>
             \A x \in Members(answer.body) \ MaybeSkipped :
                /\ q.tags # {} => LabelsOn(g, x) \cap q.tags # {}
                /\ KindCondition(g, KindFilter(q), x)
                /\ \A r \in StreamRequests(q) : Author[x] \in SourceAuthors(g, r.source)

(* Searches and rankings within the reach of a user.                       *)
SearchFiltersHold ==
    LET g == store.graph  db == store.db
        all == Feed(Source("all", 0, 0), "timeline", {}, Asker)
    IN \A reach \in {<<"following">>, <<"followers">>, <<"friends">>, <<"wot", 2>>} :
        LET near == Reach(g, Asker, reach) \ {Asker}
            ranked == GetInfluencersByReach(g, Asker, reach, 0, 0, 10)
            hot == HotTagsHandler(g, <<>>, Asker, reach, 0, 10, 0, 10).body
        IN /\ \A l \in Labels :
                /\ \A x \in Members(SearchPostsByTagHandler(g, db, l, Asker, reach, all).body) :
                     Author[x] \in near /\ l \in LabelsOn(g, x)
                /\ \A u \in Members(SearchUsersByTagsHandler(g, db, {l}, Asker, reach, 0, 10).body) :
                     u \in near /\ Active(g, u) /\ l \in LabelsOn(g, u)
                /\ Members(TagTaggersHandler(g, {}, l, Asker, reach, 0, 10).body) \subseteq near \cup {Asker}
           /\ \A a \in {Nobody} \cup Users :
                \A x \in Members(SearchPostsByContentHandler(g, db, Posts, a, Asker, reach,
                                                             {"short"}, 0, 10).body) :
                   /\ Author[x] \in near /\ (a # Nobody => Author[x] = a)
                   /\ KindCondition(g, <<"kind", "short">>, x)
           /\ \A i \in 1..Len(ranked) : ranked[i][1] \in near \cup {Asker}
           /\ \A i \in 1..Len(hot) : Members(hot[i].taggers) \subseteq near \cup {Asker}

UserQuery(source) ==
    [source |-> source, user |-> Asker, viewer |-> Asker, author |-> Author[Asked], post |-> Asked,
     tags |-> IF source = "starter_pack" THEN Sorted(Labels, Earlier) ELSE <<>>,
     from |-> 0, reach |-> <<>>, preview |-> FALSE, skip |-> NoBound, limit |-> NoBound]
UsersOf(g, source) ==
    CASE source = "followers"    -> FollowersOf(g, Asker)
      [] source = "following"    -> Follows(g, Asker)
      [] source = "friends"      -> Follows(g, Asker) \cap FollowersOf(g, Asker)
      [] source = "post_replies" -> {Author[q] : q \in RepliesTo(g, Asked)}
      [] source \in {"recommended", "starter_pack"} ->
           {u \in Users : Active(g, u)} \ (Follows(g, Asker) \cup {Asker})
      [] OTHER -> {u \in Users : Active(g, u)}
RankedFor(g, source) ==
    LET rows == IF source = "most_followed" THEN GetMostFollowedUsers(g, 0, 10)
                ELSE GetAllTimeInfluencers(g, 0, 10) \o GetGlobalInfluencers(g, 0, 0, 10)
    IN {rows[i][1] : i \in 1..Len(rows)}
UserFiltersHold ==
    LET g == store.graph
    IN \A source \in {"followers", "following", "friends", "post_replies", "recommended", "starter_pack",
                      "most_followed", "influencers"} :
        \A us \in StreamUsersHandler(g, store.db, UserQuery(source), RankedFor(g, source), FullPage).body :
            us \subseteq UsersOf(g, source)

ResourceFiltersHold ==
    LET g == store.graph
    IN \A l \in Labels :
        LET found == StreamResourceIdsHandler(g, {1}, {l}, "none", NoBound, NoBound, 0, 10).body
            views == StreamResourcesHandler(g, {1}, {l}, "none", NoBound, NoBound, 0, 10, Asker).body
        IN \A i \in 1..Len(found) :
             /\ \E t \in TagsOn(g, found[i]) : t.label = l /\ t.app = 1
             /\ ResourceTagsHandler(g, found[i], NoBound, Asker, TagPage(0, 5, 3)).body = views[i]
             /\ \E n \in 1..Len(views[i]) :
                  /\ views[i][n].label = l
                  /\ views[i][n].taggers_count =
                       Len(ResourceTaggersHandler(g, found[i], l, NoBound, Asker, 0, 10).body.taggers)

(* A query that is accepted is honoured: no post comes back that lacks the *)
(* labels, the kind or the lock that were asked for or is by an author     *)
(* outside the source or the reach; no user or resource that is not what   *)
(* was asked for.                                                          *)
FiltersHold ==
    phase = "live" /\ looks = 0 =>
        PostFiltersHold /\ SearchFiltersHold /\ UserFiltersHold /\ ResourceFiltersHold

PagedRequests ==
    {Request(Source("all", 0, 0), "timeline", order, {}, <<"none">>, v) :
        order \in {"asc", "desc"}, v \in {Nobody} \cup Users}
    \cup {Request(Source("following", Asker, 0), "timeline", "desc", {}, <<"none">>, Nobody),
          Request(Source("all", 0, 0), "timeline", "desc", {}, <<"exclude", {"long"}>>, Asker)}
(* All that following next_start finds, where no two notifications have    *)
(* one time: the scan goes on strictly below the oldest it read, and would *)
(* lose a second one of that time.                                         *)
NoteTimes == 1..4
NoteSets ==
    LET notes == {1001, 1002, 2001, 2002}
    IN {z \in UNION {[some -> NoteTimes] : some \in SUBSET notes} :
           \A m, n \in DOMAIN z : z[m] = z[n] => m = n}
NotePages(z, types) ==
    LET db == [k \in {Notifications(Asker)} |-> z]
        Query(n) == [types |-> types, start |-> n - 1, end |-> NoBound, skip |-> NoBound, limit |-> 2]
        Below[n \in 0..5] ==     \* times below n
            LET a == ListNotificationsHandler(db, Asker, Query(n)).body
            IN Members(a.page) \cup (IF a.next_start = NoBound THEN {} ELSE Below[a.next_start + 1])
    IN Below[5]
(* All that following the cursor of the event log finds.                   *)
EventPages(lines) ==
    LET db == PutIndexList([k \in {EventLines} |-> <<>>], EventLines, lines)
        From[n \in Nat] == LET a == GetEventsHandler(db, n, 2).body
                           IN IF a.events = <<>> THEN <<>> ELSE a.events \o From[a.cursor]
    IN From[0]
FanOutReaches(g, p) ==
    LET self == [x \in Users |-> x]
        pair == [t \in TagsOn(g, p) |-> <<t.by, t.label>>]
        Marks   == [c \in Nat |-> GetPostBookmarks(g, p, c, 1)]
        Reposts == [c \in Nat |-> GetPostReposts(g, p, c, 1)]
        Replies == [c \in Nat |-> GetPostReplies(g, p, c, 1)]
        Tagged  == [c \in Nat \X Nat |-> GetPostTags(g, p, c, 1)]
    IN /\ KeysetScan(Marks, self, 0, 1) = {b.by : b \in {e \in g.bookmarks : e.post = p}}
       /\ KeysetScan(Reposts, PostId, 0, 1) = RepostsOf(g, p)
       /\ KeysetScan(Replies, PostId, 0, 1) = RepliesTo(g, p)
       /\ KeysetScan(Tagged, pair, <<0, 0>>, 1) = TagsOn(g, p)

(* Pages put together are the whole answer: the timeline with the viewer's *)
(* own posts merged in, the feed of a network, the starter pack of some    *)
(* labels, the notifications of one type, the log of events, and those to  *)
(* be told of an edited or deleted post.                                   *)
PagesPartition ==
    LET g == store.graph
    IN /\ phase = "live" /\ looks = 0 =>
            /\ \A r \in PagedRequests : \A k \in 0..3 :
                 GetPostKeys(g, store.db, [r EXCEPT !.skip = k, !.limit = 2])
                     = Page(GetPostKeys(g, store.db, r), k, 2)
            /\ \A u \in {Nobody, Asker}, k \in 0..2 :
                 LET Pack(skip, limit) == GetStarterPackIds(g, Sorted(Labels, Earlier), u, 0, skip, limit)
                 IN Pack(k, 1) = Page(Pack(0, 10), k, 1)
            /\ \A k \in 0..2 :
                 HotTagsHandler(g, GetGlobalHotTags(g, Posts, 0, 10, 0, 10), Nobody, <<>>, 0, 10, k, 1).body
                     = GetGlobalHotTags(g, Posts, 0, 10, k, 1)
            /\ \A p \in Posts : FanOutReaches(g, p)
       /\ phase = "live" /\ writes = 0 /\ looks = 0 /\ ~rebuilt =>
            /\ \A z \in NoteSets : NotePages(z, {1}) = {m \in DOMAIN z : TypeOfNote(m) = 1}
            /\ \A n \in 0..5 : LET lines == [i \in 1..n |-> i] IN EventPages(lines) = lines
=============================================================================

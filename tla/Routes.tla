------------------------------- MODULE Routes -------------------------------
(***************************************************************************)
(* The handlers of nexus-webapi/src/routes/v0: what a query asks of the    *)
(* models, and which queries are refused.  A query is a record; ids that   *)
(* were not given are Nobody, sorting, order and kind "none", depth and    *)
(* the bounds NoBound, lists empty.  A post id is given with its author.   *)
(***************************************************************************)
EXTENDS Feeds

CONSTANTS
    Moderated   \* labels that no starter pack is made of

Ok(body)  == [status |-> 200, body |-> body]
Invalid   == [status |-> 400, body |-> {}]
NotFound  == [status |-> 404, body |-> {}]
OkOr404(found) == IF found = {} THEN NotFound ELSE Ok(found)

(* BoundedLimit, BoundedSkip and BoundedPagination; BoundedVec.            *)
LimitOk(n, max) == n = NoBound \/ (1 <= n /\ n <= max)
SkipOk(n, max)  == n = NoBound \/ n <= max
LimitValue(n, default) == IF n = NoBound THEN default ELSE n
SkipValue(n)           == IF n = NoBound THEN 0 ELSE n
PageOk(q, skipMax, limitMax) == SkipOk(q.skip, skipMax) /\ LimitOk(q.limit, limitMax)
ListOk(s, max) == 1 <= Len(s) /\ Len(s) <= max

(* WotDepth and where it is optional: {} is an error.                      *)
WotDepth(d)         == IF d \in 1..3 THEN {d} ELSE {}
DefaultDepth        == 2
ResolveWotDepth(d)  == IF d = NoBound THEN {DefaultDepth} ELSE WotDepth(d)
ResolveDomainTrust(d) ==
    IF d = NoBound THEN {<<"domain_network", DefaultDepth>>}
    ELSE IF d = 0 THEN {<<"domain_me", 0>>}
    ELSE {<<"domain_network", n>> : n \in WotDepth(d)}
(* A depth of tags: 0 is the global view.                                  *)
ResolveTagWotDepth(viewer, d) ==
    IF d = NoBound THEN {0} ELSE IF viewer = Nobody THEN {} ELSE WotDepth(d)
BothOrNeither(u, reach) == (u = Nobody) <=> (reach = <<>>)

-----------------------------------------------------------------------------
(* stream/posts.rs.                                                        *)
SourceRecord(on, u, depth, ls, p) == [on |-> on, user |-> u, depth |-> depth, ls |-> ls, post |-> p]
BuildStreamSource(q) ==
    CASE q.source \in {"post_replies", "collection", "post_collections"} ->
           IF q.post = 0 \/ q.author = Nobody THEN {}
           ELSE {SourceRecord(q.source, 0, 0, {}, q.post)}
      [] q.source \in {"following", "followers", "friends", "bookmarks"} ->
           IF q.observer = Nobody THEN {} ELSE {SourceRecord(q.source, q.observer, 0, {}, 0)}
      [] q.source \in {"author", "author_replies"} ->
           IF q.author = Nobody THEN {} ELSE {SourceRecord(q.source, q.author, 0, {}, 0)}
      [] q.source = "wot" ->
           IF q.observer = Nobody THEN {}
           ELSE {SourceRecord("wot", q.observer, d, {}, 0) : d \in ResolveWotDepth(q.depth)}
      [] q.source = "wot_domain" ->
           IF q.observer = Nobody \/ q.domain_tags = {} THEN {}
           ELSE {SourceRecord(t[1], q.observer, t[2], q.domain_tags, 0) : t \in ResolveDomainTrust(q.depth)}
      [] q.source = "all" -> {SourceRecord("all", 0, 0, {}, 0)}
KindFilter(q) ==
    IF q.locked THEN <<"locked">>
    ELSE IF q.kind # "none" THEN <<"kind", q.kind>>
    ELSE IF q.exclude # {} THEN <<"exclude", q.exclude>> ELSE <<"none">>

ValidateSourceCompat(q) ==
    /\ ~(q.kind # "none" /\ q.exclude # {})
    /\ q.locked => q.kind = "none" /\ q.exclude = {}
    /\ q.source \in {"post_replies", "author_replies", "post_collections"} => KindFilter(q) = <<"none">>
    /\ q.source = "collection" =>
         /\ q.tags = {} /\ KindFilter(q) = <<"none">>
         /\ q.sorting = "none" /\ q.order = "none" /\ q.start = NoBound /\ q.end = NoBound
StreamRequests(q) ==
    {[source |-> s, sorting |-> IF q.sorting = "none" THEN "timeline" ELSE q.sorting,
      order |-> IF q.order = "none" THEN "desc" ELSE q.order, ls |-> q.tags, kind |-> KindFilter(q),
      viewer |-> q.viewer, start |-> q.start, end |-> q.end,
      skip |-> SkipValue(q.skip), limit |-> LimitValue(q.limit, 10)] : s \in BuildStreamSource(q)}

UsersOfSource(g, db, s) ==
    CASE s.on = "following" -> UNION FollowView(g, db, FollowingKey(s.user), s.user)
      [] s.on = "followers" -> UNION FollowView(g, db, FollowersKey(s.user), s.user)
      [] s.on = "friends"   -> UNION FriendsView(g, db, s.user)
      [] OTHER              -> {}
GetPostKeys(g, db, r) ==
    CollectPostKeys(g, db, UsersOfSource(g, db, r.source),
                    IF r.source.on = "collection" THEN PostDetails(g, db, r.source.post) ELSE {}, r)
StreamPostKeysHandler(g, db, q) ==
    IF ~PageOk(q, 10000, 50) \/ ~ValidateSourceCompat(q) \/ BuildStreamSource(q) = {} THEN Invalid
    ELSE Ok(GetPostKeys(g, db, CHOOSE r \in StreamRequests(q) : TRUE))
(* Keys whose post is gone are dropped from the page.                      *)
StreamPostsHandler(g, db, q) ==
    IF StreamPostKeysHandler(g, db, q).status # 200 THEN Invalid
    ELSE Ok(FromListedPostIds(g, db, StreamPostKeysHandler(g, db, q).body))
StreamPostsByIdsHandler(g, db, ps) ==
    IF ~ListOk(ps, 100) THEN Invalid ELSE Ok(FromListedPostIds(g, db, ps))

-----------------------------------------------------------------------------
(* stream/users.rs: the source a query stands for; q.source may be "none". *)
STARTER_PACK_MAX_SKIP == 100
GLOBAL_INFLUENCERS_CACHE_SIZE == 100
ValidateInterestTags(ls) == Members(ls) \cap Moderated = {}
UserSource(q) == IF q.source = "none" THEN "followers" ELSE q.source
BuildUserStreamInput(q) ==
    LET s == UserSource(q)
        valid ==
          /\ s = "starter_pack" => /\ q.tags # <<>> /\ SkipValue(q.skip) <= STARTER_PACK_MAX_SKIP
                                   /\ ValidateInterestTags(q.tags)
          /\ s # "starter_pack" => q.tags = <<>>
          /\ s = "influencers" /\ q.user = Nobody /\ q.from # 0 /\ ~q.preview =>
                SkipValue(q.skip) <= GLOBAL_INFLUENCERS_CACHE_SIZE
          /\ q.user = Nobody =>
                /\ s \notin {"followers", "following", "friends", "recommended"}
                /\ ~(s = "influencers" /\ q.reach # <<>>)
                /\ s = "post_replies" => q.author # Nobody /\ q.post # 0
    IN IF ~valid THEN {}
       ELSE {[source |-> s, skip |-> SkipValue(q.skip), limit |-> LimitValue(q.limit, 5), tags |-> q.tags,
              user |-> IF s = "starter_pack" /\ q.user = Nobody THEN q.viewer ELSE q.user,
              post |-> q.post, from |-> q.from, reach |-> q.reach, preview |-> q.preview]}
StreamUserIdsHandler(g, db, q, ranked) ==
    IF ~PageOk(q, 10000, 20) \/ BuildUserStreamInput(q) = {} THEN Invalid
    ELSE Ok(UNION {GetUserListFromSource(g, db, i, ranked) : i \in BuildUserStreamInput(q)})
StreamUsersHandler(g, db, q, ranked, page) ==
    LET ids == StreamUserIdsHandler(g, db, q, ranked)
    IN IF ids.status # 200 THEN Invalid
       ELSE Ok({FromListedUserIds(g, db, us, q.viewer, page) : us \in ids.body})
StreamUsernameSearchHandler(g, db, prefix, viewer, skip, limit, page) ==
    Ok(GetFromUsernameSearch(g, db, prefix, viewer, skip, limit, page))
StreamUsersByIdsHandler(g, db, us, viewer, page) ==
    IF ~ListOk(us, 100) THEN Invalid ELSE Ok(FromListedUserIds(g, db, Members(us), viewer, page))

-----------------------------------------------------------------------------
(* stream/resources.rs and resource/mod.rs; a resource has no network.     *)
StreamResourceIdsHandler(g, apps, ls, order, start, end, skip, limit) ==
    Ok(GetResourceKeys(g, apps, ls, IF order = "none" THEN "desc" ELSE order, start, end, skip, limit))
StreamResourcesHandler(g, apps, ls, order, start, end, skip, limit, viewer) ==
    Ok(FromListedResourceIds(g, StreamResourceIdsHandler(g, apps, ls, order, start, end, skip, limit).body,
                             viewer))
RejectResourceDepth(depth) == depth # NoBound
ResourceTagsHandler(g, r, depth, viewer, page) ==
    IF RejectResourceDepth(depth) THEN Invalid
    ELSE IF TagsOn(g, r) = {} THEN NotFound
    ELSE Ok(ResourceView(g, r, viewer, page.skip, page.limit, page.taggers))
ResourceTaggersHandler(g, r, l, depth, viewer, skip, limit) ==
    IF RejectResourceDepth(depth) THEN Invalid ELSE Ok(ResourceLabelTaggers(g, r, l, viewer, skip, limit))

(* search/posts.rs, search/users.rs and search/tags.rs.                    *)
SearchPostsByTagHandler(g, db, l, u, reach, r) ==
    IF ~BothOrNeither(u, reach) THEN Invalid
    ELSE Ok(IF u = Nobody THEN GetByLabel(db, l, r)
            ELSE GetByLabelWithReach(g, l, [r EXCEPT !.source = FromReach(reach, u)]))
(* Who may have written what is found: {} is an error, anyone is Users.    *)
ResolveScope(author, u, reach) ==
    IF ~BothOrNeither(u, reach) THEN {}
    ELSE {CASE author # Nobody /\ u # Nobody -> "author_in_reach"
            [] author = Nobody /\ u # Nobody -> "reach"
            [] author # Nobody /\ u = Nobody -> "author"
            [] OTHER                         -> "unscoped"}
AuthorInReachFilter(author, inReach) == IF inReach THEN {author} ELSE {}
ResolvedReachAuthors(found) == Members(found.authors)
ScopeAuthors(g, scope, author, u, reach) ==
    CASE scope = "unscoped"        -> Users
      [] scope = "author"          -> {author}
      [] scope = "author_in_reach" -> AuthorInReachFilter(author, ReachContains(g, u, reach, author))
      [] scope = "reach"           -> ResolvedReachAuthors(ReachAuthors(g, u, reach, MaxReachAuthors))
SearchPostsByContentHandler(g, db, words, author, u, reach, kinds, skip, limit) ==
    LET scope == ResolveScope(author, u, reach)
    IN IF scope = {} THEN Invalid
       ELSE Ok(PostsByContent(db, words, ScopeAuthors(g, CHOOSE s \in scope : TRUE, author, u, reach),
                              scope = {"unscoped"}, kinds, skip, limit))
(* A user is one number here, so the list of names is that of ids too.     *)
SearchUsersByNameHandler(db, prefix, skip, limit) == Ok(GetByName(db, prefix, skip, limit))
SearchUsersByIdHandler(db, prefix, skip, limit)   == Ok(GetByName(db, prefix, skip, limit))
SearchTagsByPrefixHandler(db, prefix, skip, limit) == Ok(TagsByPrefix(db, prefix, skip, limit))
SearchUsersByTagsHandler(g, db, ls, u, reach, skip, limit) ==
    IF ~BothOrNeither(u, reach) THEN Invalid
    ELSE Ok(IF u = Nobody THEN UsersByLabels(g, db, ls, skip, limit)
            ELSE SearchUsersByTagsWithReach(g, ls, u, reach, skip, limit))

(* tag/, notification/, events and bootstrap.                              *)
TagTaggersHandler(g, hot, l, u, reach, skip, limit) ==
    IF ~BothOrNeither(u, reach) THEN Invalid ELSE Ok(GetGlobalTaggers(g, hot, l, u, reach, skip, limit))
HotTagsHandler(g, cached, u, reach, from, taggersLimit, skip, limit) ==
    IF ~BothOrNeither(u, reach) THEN Invalid
    ELSE Ok(IF u = Nobody THEN Page(cached, skip, limit)
            ELSE GetHotTagsByReach(g, u, reach, Posts, from, taggersLimit, skip, limit))
TagViewHandler(g, u, x, l) == OkOr404(TagViewByTaggerAndId(g, u, x, l))
ListNotificationsHandler(db, u, q) ==
    IF q.types = {}
    THEN Ok([page |-> NotificationsById(db, u, q.start, q.end, SkipValue(q.skip), LimitValue(q.limit, 20)),
             next_start |-> NoBound])
    ELSE Ok(NotificationsFiltered(db, u, q.start, q.end, SkipValue(q.skip), LimitValue(q.limit, 20), q.types))
GetEventsHandler(db, cursor, limit) == Ok(EventsFrom(db, SkipValue(cursor), LimitValue(limit, 500)))
BootstrapHandler(g, db, u, influencers, recommended, taggers, page) ==
    Ok(BootstrapById(g, db, u, influencers, recommended, taggers, page))

-----------------------------------------------------------------------------
(* post/ and user/: one object, or 404.                                    *)
PostViewHandler(g, db, p, viewer, page)  == OkOr404(PostView(g, db, p, viewer, page))
PostDetailsHandler(g, db, p)             == OkOr404(PostDetails(g, db, p))
PostCountsHandler(g, db, p)              == OkOr404(CountsView(g, db, p))
PostBookmarkHandler(g, db, p, viewer)    == OkOr404(BookmarkView(g, db, viewer, p))
PostTagsHandler(g, db, p, viewer, depth, page) ==
    LET d == ResolveTagWotDepth(viewer, depth)
    IN IF d = {} THEN Invalid
       ELSE IF PostDetails(g, db, p) = {} THEN NotFound
       ELSE Ok(IF d = {0} THEN Tags(g, db, p, viewer, page)
               ELSE Members(GetWotTagsByPost(g, p, viewer, depth, page)))
PostTaggersHandler(g, db, p, l, viewer, skip, limit) ==
    Ok(TaggersById(g, db, p, l, viewer, 0, skip, limit))
UserDetailsHandler(g, db, u)             == OkOr404(UserDetails(g, db, u))
UserCountsHandler(g, u)                  == OkOr404(UserCountsByIds(g, {u})[u])
UserViewHandler(g, db, u, viewer, depth, page) ==
    LET d == ResolveTagWotDepth(viewer, depth)
        Through(v) == [v EXCEPT !.tags = IF \A c \in v.counts : c.tags = 0 THEN {}
                                         ELSE WotTags(g, db, u, viewer, depth, page)]
    IN IF d = {} THEN Invalid
       ELSE OkOr404(IF d = {0} THEN UserView(g, db, u, viewer, page)
                    ELSE {Through(v) : v \in UserView(g, db, u, viewer, page)})
UserRelationshipHandler(g, db, u, viewer) == OkOr404(RelationshipView(g, db, u, viewer))
UserTagsHandler(g, db, u, viewer, depth, page) ==
    LET d == ResolveTagWotDepth(viewer, depth)
    IN IF d = {} THEN Invalid
       ELSE IF ~Exists(g, u) THEN NotFound
       ELSE Ok(IF d = {0} THEN Tags(g, db, u, viewer, page) ELSE WotTags(g, db, u, viewer, depth, page))
UserTaggersHandler(g, db, u, l, viewer, depth, skip, limit) ==
    LET d == ResolveTagWotDepth(viewer, depth)
    IN IF d = {} THEN Invalid ELSE Ok(TaggersById(g, db, u, l, viewer, CHOOSE n \in d : TRUE, skip, limit))
UserFollowersHandler(g, db, u, skip, limit) == OkOr404(FollowPage(g, db, FollowersKey(u), u, skip, limit))
UserFollowingHandler(g, db, u, skip, limit) == OkOr404(FollowPage(g, db, FollowingKey(u), u, skip, limit))
UserFriendsHandler(g, db, u, skip, limit)   == OkOr404(FriendsPage(g, db, u, skip, limit))
=============================================================================

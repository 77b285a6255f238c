------------------------------- MODULE Views -------------------------------
(***************************************************************************)
(* What the models answer about one post, one user or one label: an index  *)
(* key if it is there, else the graph, and the key is filled on the way.   *)
(* X is the answer of X::get_by_id and FillX the index it leaves behind.   *)
(***************************************************************************)
EXTENDS PostStreams

CONSTANTS
    Prefixes,   \* what search requests begin with
    Matches     \* [Prefixes -> SUBSET (Users \cup Labels)]: the names with the prefix

MAX_TAG_PAGE == 100

DetailsOf(x)      == <<"details", x>>
CountsOf(p)       == <<"counts", p>>
RelationsOf(p)    == <<"relationships", p>>
BookmarkOf(u, p)  == <<"bookmark", u, p>>
TagScores(x)      == <<"tagScores", x>>
TaggersIn(x, l)   == <<"taggers", x, l>>
WotScores(v, u)   == <<"wotScores", v, u>>
WotTaggers(v, u, l) == <<"wotTaggers", v, u, l>>
FollowersKey(u)   == <<"followers", u>>
FollowingKey(u)   == <<"following", u>>
UsersByLabel(l)   == <<"usersByLabel", l>>
LabelList         == <<"labels">>
NameList          == <<"names">>

(* PostDetails, PostCounts, PostRelationships and Bookmark.  Reading fills *)
(* the JSON key; only details and bookmarks fill sorted sets too.          *)
PutPostDetails(db, p, d) ==
    LET stored == PutIndexJson(db, DetailsOf(p), d)
    IN IF IsReply(p)
       THEN AddToRepliesPerUser(AddToPostReply(stored, CHOOSE q \in Parent[p] : TRUE, p), p)
       ELSE AddToTimeline(AddToPerUser(stored, p), p)
PostDetails(g, db, p) ==
    IF TryFromIndexJson(db, DetailsOf(p)) # {} THEN db[DetailsOf(p)] ELSE GetPostById(g, p)
FillPostDetails(g, db, p) ==
    IF db[DetailsOf(p)] # {} \/ GetPostById(g, p) = {} THEN db
    ELSE PutPostDetails(db, p, CHOOSE d \in GetPostById(g, p) : TRUE)
CountsView(g, db, p) ==
    IF TryFromIndexJson(db, CountsOf(p)) # {} THEN db[CountsOf(p)] ELSE PostCounts(g, p)
FillCounts(g, db, p) ==
    IF db[CountsOf(p)] # {} \/ PostCounts(g, p) = {} THEN db
    ELSE PutIndexJson(db, CountsOf(p), CHOOSE c \in PostCounts(g, p) : TRUE)
RelationshipsView(g, db, p) ==
    IF TryFromIndexJson(db, RelationsOf(p)) # {} THEN db[RelationsOf(p)] ELSE PostRelationships(g, p)
FillRelationships(g, db, p) ==
    IF db[RelationsOf(p)] # {} \/ PostRelationships(g, p) = {} THEN db
    ELSE PutIndexJson(db, RelationsOf(p), CHOOSE r \in PostRelationships(g, p) : TRUE)
PutBookmark(db, u, p, at) == AddToBookmarks(PutIndexJson(db, BookmarkOf(u, p), at), u, p, at)
BookmarkView(g, db, u, p) ==
    IF u = Nobody THEN {}
    ELSE IF TryFromIndexJson(db, BookmarkOf(u, p)) # {} THEN db[BookmarkOf(u, p)]
    ELSE PostBookmark(g, p, u)
FillBookmark(g, db, u, p) ==
    IF u = Nobody \/ db[BookmarkOf(u, p)] # {} \/ PostBookmark(g, p, u) = {} THEN db
    ELSE PutBookmark(db, u, p, CHOOSE at \in PostBookmark(g, p, u) : TRUE)

-----------------------------------------------------------------------------
(* TagCollection.  A row of the index carries whether the viewer is among  *)
(* the taggers; his URI is asked of the graph only where he may be.        *)
TagPage(skip, limit, taggersLimit) ==
    [skip |-> skip, limit |-> Least(limit, MAX_TAG_PAGE), taggers |-> Least(taggersLimit, MAX_TAG_PAGE)]
TagsFromIndex(db, scores, taggersKey, viewer, page) ==
    LET ranked == TryFromIndexSortedSet(db, scores, NoBound, NoBound, page.skip, page.limit, "desc")
        Counted(l) == db[scores][l] >= 1
        used   == SelectSeq(ranked, Counted)
        sets   == TryFromMultipleSets(db, {taggersKey[l] : l \in Members(used)}, viewer, page.taggers)
        Kept(l) == sets[taggersKey[l]] # {}
        rows   == SelectSeq(used, Kept)
    IN IF db[scores] = NoMembers THEN {}
       ELSE {[i \in 1..Len(rows) |-> [label |-> rows[i], found |-> sets[taggersKey[rows[i]]]]]}
Row(f, l, uri) ==
    [label |-> l, taggers |-> (CHOOSE s \in f : TRUE).some,
     taggers_count |-> (CHOOSE s \in f : TRUE).size, uri |-> uri]
FlaggedViewerTagUris(g, x, viewer, l, flag) ==
    IF viewer = Nobody \/ flag = "no" THEN {} ELSE ViewerUris(g, x, viewer, l)
WithViewerTagUris(g, x, viewer, rows) ==
    {Row(rows[i].found, rows[i].label,
         FlaggedViewerTagUris(g, x, viewer, rows[i].label,
             IF \A s \in rows[i].found : s.has THEN "yes" ELSE "no")) : i \in 1..Len(rows)}
ReadGraphQuery(g, x, viewer) ==
    IF x \in Posts THEN PostTags(g, x, viewer) ELSE UserTags(g, x, viewer)
PutTags(db, scores, taggersKey, rows) ==
    PutMultipleSets(PutIndexSortedSet(db, scores,
                        [l \in {r.label : r \in rows} |->
                            Cardinality((CHOOSE r \in rows : r.label = l).taggers)]),
                    [k \in {taggersKey[r.label] : r \in rows} |->
                        (CHOOSE r \in rows : taggersKey[r.label] = k).taggers])
Tags(g, db, x, viewer, page) ==
    LET key == [l \in Labels |-> TaggersIn(x, l)]
        hit == TagsFromIndex(db, TagScores(x), key, viewer, page)
    IN IF hit # {} THEN WithViewerTagUris(g, x, viewer, CHOOSE rows \in hit : TRUE)
       ELSE ReadGraphQuery(g, x, viewer)
FillTags(g, db, x) ==
    LET key == [l \in Labels |-> TaggersIn(x, l)]
    IN IF db[TagScores(x)] # NoMembers THEN db ELSE PutTags(db, TagScores(x), key, ReadGraphQuery(g, x, Nobody))

(* The tags a viewer's network put on a user are cached for the pair, and  *)
(* an empty answer is not.  The depth is not part of the key.              *)
WotTags(g, db, u, viewer, depth, page) ==
    LET key == [l \in Labels |-> WotTaggers(viewer, u, l)]
        hit == TagsFromIndex(db, WotScores(viewer, u), key, viewer, page)
        rows == CHOOSE rs \in hit : TRUE
        is   == CheckSetMemberMultiple(db, {TaggersIn(u, rows[i].label) : i \in 1..Len(rows)}, viewer)
        Flag(l) == IF is[TaggersIn(u, l)] = <<TRUE, FALSE>> THEN "no" ELSE "maybe"
    IN IF hit = {} THEN GetViewerTrustedNetworkTags(g, u, viewer, depth)
       ELSE {Row(rows[i].found, rows[i].label,
                 FlaggedViewerTagUris(g, u, viewer, rows[i].label, Flag(rows[i].label))) :
                i \in 1..Len(rows)}
FillWotTags(g, db, u, viewer, depth) ==
    LET key == [l \in Labels |-> WotTaggers(viewer, u, l)]
        found == GetViewerTrustedNetworkTags(g, u, viewer, depth)
    IN IF db[WotScores(viewer, u)] # NoMembers \/ found = {} THEN db
       ELSE PutTags(db, WotScores(viewer, u), key, found)
ExpireWotTags(db, u, viewer) ==
    [k \in DOMAIN db |-> IF k = WotScores(viewer, u) THEN NoMembers
                         ELSE IF \E l \in Labels : k = WotTaggers(viewer, u, l) THEN {} ELSE db[k]]
GetWotTagsByPost(g, p, viewer, depth, page) ==
    GetViewerTrustedNetworkPostTags(g, p, viewer, depth, page.skip, page.limit, page.taggers)

(* TaggersCollection::get_tagger_by_id: a page of one label's taggers.     *)
TaggersPage(limit) == Least(limit, MAX_TAG_PAGE)
TaggersById(g, db, x, l, viewer, depth, skip, limit) ==
    LET wot == viewer # Nobody /\ depth > 0 /\ x \in Users
        key == IF wot THEN WotTaggers(viewer, x, l) ELSE TaggersIn(x, l)
        c   == CheckSetMember(db, TaggersIn(x, l), viewer)
        flag == IF wot /\ ~c[1] THEN "maybe" ELSE IF c[2] THEN "yes" ELSE "no"
    IN [taggers |-> TryFromIndexSet(db, key, skip, TaggersPage(limit)),
        uri |-> FlaggedViewerTagUris(g, x, viewer, l, flag)]
TagViewByTaggerAndId(g, u, x, l) ==
    IF x \in Resources THEN {} ELSE {t.label : t \in GetTagByTaggerAndId(g, u, x, l)}

-----------------------------------------------------------------------------
(* UserFollows and Friends: the whole set when the index lacks it.         *)
FollowView(g, db, key, u) ==
    IF db[key] # {} THEN {db[key]}
    ELSE IF key = FollowersKey(u) THEN GetUserFollowers(g, u) ELSE GetUserFollowing(g, u)
FillFollows(g, db, key, u) ==
    IF db[key] # {} \/ FollowView(g, db, key, u) = {} THEN db
    ELSE PutIndexSet(db, key, CHOOSE s \in FollowView(g, db, key, u) : TRUE)
FriendsView(g, db, u) ==
    LET following == UNION FollowView(g, db, FollowingKey(u), u)
        followers == UNION FollowView(g, db, FollowersKey(u), u)
    IN IF FollowView(g, db, FollowingKey(u), u) = {} /\ FollowView(g, db, FollowersKey(u), u) = {}
       THEN {} ELSE {following \cap followers}

(* Relationship and SocialGraphStatus: the place in the ranking.           *)
FromFollowSets(db, u, viewer) ==
    [following |-> CheckSetMember(db, FollowersKey(u), viewer)[2],
     followed_by |-> CheckSetMember(db, FollowersKey(viewer), u)[2]]
RelationshipView(g, db, u, viewer) ==
    IF viewer = Nobody \/ ~UsersExist(g, {u, viewer}) THEN {} ELSE {FromFollowSets(db, u, viewer)}
Classify(size, rank) ==
    IF size = 0 THEN {}
    ELSE {IF rank = {} THEN "new"
          ELSE IF \E n \in rank : 20 * n <= size + 19 THEN "established" ELSE "networked"}
SocialGraphStatus(db, us) ==
    LET found == CardAndMembers(db, Ranking, us)
    IN [u \in us |-> Classify(found[1], found[2][u])]

(* PostView and UserView: details decide, and tags are left out when the   *)
(* counts say there are none.                                              *)
UserDetails(g, db, u) ==
    IF TryFromIndexJson(db, DetailsOf(u)) # {} THEN db[DetailsOf(u)] ELSE GetUsersDetailsByIds(g, {u})[u]
FillUserDetails(g, db, us) ==
    LET missing == {u \in us : db[DetailsOf(u)] = {} /\ Exists(g, u)}
        live    == {u \in missing : Active(g, u)}
    IN PutIndexSortedSet(
           PutMultipleJson(db, [k \in {DetailsOf(u) : u \in missing} |-> g.user[k[2]]]),
           NameList, [u \in live |-> 0])
PostView(g, db, p, viewer, page) ==
    LET counts == CountsView(g, db, p)
    IN IF PostDetails(g, db, p) = {} THEN {}
       ELSE {[details |-> PostDetails(g, db, p), counts |-> counts,
              bookmark |-> BookmarkView(g, db, viewer, p),
              relationships |-> RelationshipsView(g, db, p),
              tags |-> IF \A c \in counts : c.tags = 0 THEN {} ELSE Tags(g, db, p, viewer, page)]}
UserView(g, db, u, viewer, page) ==
    LET counts == UserCountsByIds(g, {u})[u]
    IN IF UserDetails(g, db, u) = {} THEN {}
       ELSE {[details |-> UserDetails(g, db, u), counts |-> counts,
              relationship |-> RelationshipView(g, db, u, viewer),
              status |-> SocialGraphStatus(db, {u})[u],
              tags |-> IF \A c \in counts : c.tags = 0 THEN {} ELSE Tags(g, db, u, viewer, page)]}
(* Several users at once: details come from the index alone.               *)
UserViews(g, db, us, viewer, page) ==
    LET found  == TryFromIndexMultipleJson(db, {DetailsOf(u) : u \in us})
        counts == UserCountsByIds(g, us)
        knows  == viewer # Nobody /\ UsersExist(g, {viewer})
        View(u) == [details |-> found[DetailsOf(u)], counts |-> counts[u],
                    relationship |-> IF counts[u] # {} /\ knows THEN {FromFollowSets(db, u, viewer)} ELSE {},
                    status |-> SocialGraphStatus(db, us)[u],
                    tags |-> IF \A c \in counts[u] : c.tags = 0 THEN {} ELSE Tags(g, db, u, viewer, page)]
    IN [u \in us |-> IF found[DetailsOf(u)] = {} THEN {} ELSE {View(u)}]

-----------------------------------------------------------------------------
(* Searches.  One label is read from its sorted set, several from the      *)
(* graph.                                                                  *)
UsersByLabels(g, db, ls, skip, limit) ==
    IF Cardinality(ls) = 1
    THEN TryFromIndexSortedSet(db, UsersByLabel(CHOOSE l \in ls : TRUE), NoBound, NoBound,
                               skip, limit, "desc")
    ELSE SearchUsersByTags(g, ls, skip, limit)
SyncIndexScore(db, u, l) ==
    PutCardinalityIndexSortedSet(db, TaggersIn(u, l), UsersByLabel(l), u,
                                 TryFromIndexJson(db, DetailsOf(u)) = {"deleted"})
(* A prefix is a range of neighbours in the order of the list.             *)
SearchList(db, key, prefix, skip, limit) ==
    LET hits == Matches[prefix]
        least == CHOOSE m \in hits : \A n \in hits : m <= n
        most  == CHOOSE m \in hits : \A n \in hits : n <= m
    IN TryFromIndexSortedSetLex(db, key, least, most + 1, skip, limit)
GetByName(db, prefix, skip, limit)     == SearchList(db, NameList, prefix, skip, limit)
TagsByPrefix(db, prefix, skip, limit)  == SearchList(db, LabelList, prefix, skip, limit)
PutLabels(db, ls)    == PutIndexSortedSet(db, LabelList, [l \in ls |-> 0])
DelLabel(db, l)      == RemoveFromIndexSortedSet(db, LabelList, {l})

(* Posts by their text; authors is the reach of the viewer where it was    *)
(* asked for.                                                              *)
PostsByContent(db, words, authors, anyAuthor, kinds, skip, limit) ==
    LET indexed == {p \in Posts : db[DetailsOf(p)] # {}}
        kindOf == [p \in indexed |-> (CHOOSE d \in db[DetailsOf(p)] : TRUE).kind]
    IN FtSearch(indexed \cap words, words, authors, anyAuthor, kinds, Author, kindOf, skip, limit)
=============================================================================

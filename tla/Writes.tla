------------------------------- MODULE Writes -------------------------------
(***************************************************************************)
(* The handlers of the watcher, each in one piece and undisturbed, on the  *)
(* graph and the index the readers see (PostHandler and SocialHandler have *)
(* their steps and what can go wrong between them).  A store s has the     *)
(* fields graph and db.  Every user here is bound to a homeserver, so that *)
(* one who is deleted leaves a tombstone.                                  *)
(***************************************************************************)
EXTENDS Routes

ZeroCounts == [tags |-> 0, unique_tags |-> 0, replies |-> 0, reposts |-> 0, collections |-> 0]
Invalidate(db, ps) == RemoveMultipleJson(db, {CountsOf(p) : p \in ps})

(* The parents of a new post: their counts are dropped, a root moves up.   *)
BumpParents(g, db, qs) ==
    IF qs = {} THEN db
    ELSE LET q == CHOOSE q \in qs : TRUE
             y == FillRelationships(g, Invalidate(db, qs), q)
         IN IF \A r \in y[RelationsOf(q)] : r.replied = {} THEN UpdateIndexScore(y, q, 1) ELSE y
LowerParents(db, qs) ==
    IF qs = {} THEN db ELSE UpdateIndexScore(db, CHOOSE q \in qs : TRUE, -1)

(* Faulty variant: a new post does not lower what was cached of its parent.*)
LinkedPostKeepingCounts(g, db, p) ==
    LET x == [db EXCEPT ![CountsOf(p)] = {ZeroCounts}]
    IN PutPostDetails(PutIndexJson(IF IsReply(p) THEN x ELSE AddToEngagement(x, p, 0), RelationsOf(p),
                                   CHOOSE r \in PostRelationships(g, p) : TRUE),
                      p, CHOOSE d \in GetPostById(g, p) : TRUE)

(* The index of a post that is new: counts, parents, relationships and     *)
(* details.                                                                *)
LinkedPost(g, db, p) ==
    LET x == IF db[CountsOf(p)] # {} THEN db
             ELSE IF IsReply(p) THEN PutIndexJson(db, CountsOf(p), ZeroCounts)
             ELSE AddToEngagement(PutIndexJson(db, CountsOf(p), ZeroCounts), p, 0)
        y == BumpParents(g, BumpParents(g, x, Parent[p]), Embed[p])
        z == PutIndexJson(y, RelationsOf(p), CHOOSE r \in PostRelationships(g, p) : TRUE)
    IN PutPostDetails(z, p, CHOOSE d \in GetPostById(g, p) : TRUE)

CollectedEdges(g, p) == {p} \X {q \in Members(Items[p]) \ {p} : g.post[q] # "none"}
PutPost(s, p) ==
    LET g == s.graph
        edges   == CollectedEdges(g, p)
        touched == {e[2] : e \in edges \cup {c \in g.collected : c[1] = p}}
        h == [g EXCEPT !.post[p] = "live", !.collected = {c \in @ : c[1] # p} \cup edges]
        x == IF KindOf[p] = "collection" THEN Invalidate(s.db, touched) ELSE s.db
    IN IF ~Exists(g, Author[p]) \/ \E q \in Parent[p] \cup Embed[p] : g.post[q] = "none" THEN s
       ELSE [graph |-> h,
             db |-> IF g.post[p] = "none" THEN LinkedPost(h, x, p)
                    ELSE PutIndexJson(x, DetailsOf(p), CHOOSE d \in GetPostById(h, p) : TRUE)]

SafeToDelete(g, p) ==
    /\ RepliesTo(g, p) = {} /\ RepostsOf(g, p) = {} /\ Mentioned[p] = {} /\ TagsOn(g, p) = {}
    /\ \A b \in g.bookmarks : b.post # p
DeletePostDetails(db, p) ==
    LET x == RemoveMultipleJson(db, {DetailsOf(p)})
    IN IF IsReply(p)
       THEN RemoveFromRepliesPerUser(RemoveFromPostReply(x, CHOOSE q \in Parent[p] : TRUE, p), p)
       ELSE RemoveFromPerUser(RemoveFromTimeline(x, p), p)
UnlinkedPost(db, p) ==
    LET x == RemoveMultipleJson(db, {RelationsOf(p), CountsOf(p)})
        y == IF IsReply(p) THEN x ELSE DeleteFromEngagement(x, p)
    IN DeletePostDetails(LowerParents(LowerParents(y, Parent[p]), Embed[p]), p)
DelPost(s, p) ==
    LET g == s.graph
        listed  == {c[2] : c \in {c \in g.collected : c[1] = p}}
        gone == [g EXCEPT !.post[p] = "none", !.collected = {c \in @ : p \notin {c[1], c[2]}}]
        dead == [g EXCEPT !.post[p] = "dead", !.collected = {c \in @ : c[1] # p}]
    IN CASE g.post[p] = "none" -> s
         [] g.post[p] # "none" /\ SafeToDelete(g, p) ->
              [graph |-> gone,
               db |-> Invalidate(UnlinkedPost(s.db, p), listed \cup Parent[p] \cup Embed[p])]
         [] OTHER ->
              [graph |-> dead,
               db |-> PutIndexJson(Invalidate(s.db, listed), DetailsOf(p),
                                   CHOOSE d \in GetPostById(dead, p) : TRUE)]

-----------------------------------------------------------------------------
(* Tags.  The counters move only when the edge, or the tagger, is new.     *)
MovePostScores(g, db, p, l, delta) ==
    LET x == UpdateLabelScore(PutScoreIndexSortedSet(db, TagScores(p), l, delta), p, l, delta)
    IN IF IsReply(p) THEN x ELSE UpdateIndexScore(x, p, delta)
PutTag(s, u, x, l, app, at) ==
    LET g == s.graph
        new == GetTagTarget(g, u, x, l, app) = {}
        h == [g EXCEPT !.tags = IF new THEN @ \cup {Tag(u, x, l, app, at)} ELSE @]
        tagged == PutLabels(PutIndexSet(s.db, TaggersIn(x, l), {u}), {l})
        posted == PutPostByTag(Invalidate(tagged, {x}), x, l, s.db[DetailsOf(x)] # {})
    IN CASE x \in Posts /\ g.post[x] # "none" ->
              [graph |-> h, db |-> IF new THEN MovePostScores(g, posted, x, l, 1) ELSE posted]
         [] x \in Users ->
              [graph |-> h,
               db |-> SyncIndexScore(IF new THEN PutScoreIndexSortedSet(tagged, TagScores(x), l, 1)
                                     ELSE tagged, x, l)]
         [] x \in Resources -> [graph |-> h, db |-> PutLabels(s.db, {l})]
         [] OTHER -> s
DelTag(s, u, x, l, app) ==
    LET found == GetTagTarget(s.graph, u, x, l, app)
        h == [s.graph EXCEPT !.tags = @ \ found]
        known == x \in Users \cup Posts /\ u \in s.db[TaggersIn(x, l)]
        left == RemoveFromIndexSet(s.db, TaggersIn(x, l), {u})
        y == DelPostByTag(IF known THEN MovePostScores(s.graph, left, x, l, -1) ELSE left, x, l,
                          left[TaggersIn(x, l)])
    IN CASE found = {} -> s
         [] found # {} /\ x \in Posts ->
              [graph |-> h,
               db |-> Invalidate(IF y[TagPostTimeline(l)] = NoMembers THEN DelLabel(y, l) ELSE y, {x})]
         [] found # {} /\ x \in Users ->
              [graph |-> h,
               db |-> SyncIndexScore(IF known THEN PutScoreIndexSortedSet(left, TagScores(x), l, -1)
                                     ELSE left, x, l)]
         [] OTHER -> [s EXCEPT !.graph = h]

-----------------------------------------------------------------------------
(* Follows, bookmarks and profiles.                                        *)
PutFollow(s, u, v, at) ==
    [graph |-> [s.graph EXCEPT !.follows =
                   {e \in @ : <<e.from, e.to>> # <<u, v>>} \cup {[from |-> u, to |-> v, at |-> at]}],
     db |-> PutMultipleSets(s.db, [k \in {FollowersKey(v), FollowingKey(u)} |->
                                      IF k = FollowersKey(v) THEN {u} ELSE {v}])]
DelFollow(s, u, v) ==
    [graph |-> [s.graph EXCEPT !.follows = {e \in @ : <<e.from, e.to>> # <<u, v>>}],
     db |-> RemoveFromIndexSet(RemoveFromIndexSet(s.db, FollowersKey(v), {u}), FollowingKey(u), {v})]

PutMark(s, u, p, at) ==
    IF s.graph.post[p] = "none" THEN s
    ELSE [graph |-> [s.graph EXCEPT !.bookmarks =
                        {b \in @ : <<b.by, b.post>> # <<u, p>>} \cup {[by |-> u, post |-> p, at |-> at]}],
          db |-> PutBookmark(s.db, u, p, at)]
DelMark(s, u, p) ==
    IF GetBookmarkTarget(s.graph, u, p) = {} THEN s
    ELSE [graph |-> [s.graph EXCEPT !.bookmarks = {b \in @ : <<b.by, b.post>> # <<u, p>>}],
          db |-> RemoveFromBookmarks(RemoveMultipleJson(s.db, {BookmarkOf(u, p)}), u, p)]

SyncUserLabels(db, u) ==
    LET gone == db[DetailsOf(u)] = {"deleted"}
    IN [k \in DOMAIN db |->
           IF k[1] = "usersByLabel" /\ k[2] \in DOMAIN db[TagScores(u)]
           THEN ZFromCardinality(db[k], db[TaggersIn(u, k[2])], u, gone) ELSE db[k]]
PutUser(s, u) ==
    [graph |-> [s.graph EXCEPT !.user[u] = "live"],
     db |-> SyncUserLabels(PutIndexJson(PutIndexSortedSet(s.db, NameList, Entry(u, 0)),
                                        DetailsOf(u), "live"), u)]
DelUser(s, u) ==
    IF ~Exists(s.graph, u) THEN s
    ELSE [graph |-> [s.graph EXCEPT !.user[u] = "deleted"],
          db |-> SyncUserLabels(PutIndexJson(RemoveFromIndexSortedSet(s.db, NameList, {u}),
                                             DetailsOf(u), "deleted"), u)]

(* An event is a tuple that begins with its kind; at is when it is indexed.*)
Handle(s, e, at) ==
    CASE e[1] = "user"     -> PutUser(s, e[2])
      [] e[1] = "deluser"  -> DelUser(s, e[2])
      [] e[1] = "post"     -> PutPost(s, e[2])
      [] e[1] = "delpost"  -> DelPost(s, e[2])
      [] e[1] = "tag"      -> PutTag(s, e[2], e[3], e[4], e[5], at)
      [] e[1] = "deltag"   -> DelTag(s, e[2], e[3], e[4], e[5])
      [] e[1] = "follow"   -> PutFollow(s, e[2], e[3], at)
      [] e[1] = "unfollow" -> DelFollow(s, e[2], e[3])
      [] e[1] = "mark"     -> PutMark(s, e[2], e[3], at)
      [] e[1] = "unmark"   -> DelMark(s, e[2], e[3])
=============================================================================

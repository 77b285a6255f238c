----------------------------- MODULE PostIndex -----------------------------
(***************************************************************************)
(* The Redis keys a post is served from, as a value, and the operations of *)
(* the post models on them.  A model operation that writes several keys    *)
(* writes them one await after the other, so each takes the number k of    *)
(* keys it got to: Full is an operation that went through.                 *)
(*                                                                         *)
(* An index x has the fields                                               *)
(*   details    PostDetails (JSON), NoPost where there is none             *)
(*   rel        PostRelationships (JSON), NoRel where there is none        *)
(*   counts     PostCounts (JSON with a TTL): [links, collections]         *)
(*   score      Posts:Global:TotalEngagement, NoScore for a non-member     *)
(*   timeline   Posts:Global:Timeline                                      *)
(*   userPosts  the Posts:AuthorParents sets of all authors                *)
(*   thread     the Posts:PostReplies sets of all parents                  *)
(*   userReplies  the Posts:AuthorReplies sets of all authors              *)
(*   note       the Notification sets of all users                         *)
(***************************************************************************)
EXTENDS PostGraph

CONSTANTS NoRel, NoCounts, NoScore

ASSUME NoRelAssumption == NoRel \notin Relationships

Full == 3

EmptyIndex ==
    [details |-> [p \in Posts |-> NoPost], rel |-> [p \in Posts |-> NoRel],
     counts |-> [p \in Posts |-> NoCounts], score |-> [p \in Posts |-> NoScore],
     timeline |-> {}, userPosts |-> {}, thread |-> {}, userReplies |-> {}, note |-> {}]

IndexType(x) ==
    /\ x.details \in [Posts -> Details \cup {NoPost}]
    /\ x.rel \in [Posts -> Relationships \cup {NoRel}]
    /\ \A p \in Posts : x.counts[p] = NoCounts \/ x.counts[p] \in [links : Nat, collections : Nat]
    /\ \A p \in Posts : x.score[p] \in Int
    /\ x.timeline \cup x.userPosts \cup x.userReplies \subseteq Posts
    /\ x.thread \subseteq Posts \X Posts

-----------------------------------------------------------------------------
(* PostDetails.  A root post goes to the feeds, a reply under its parent.  *)
PutDetails(x, p, d, parent, isEdit, k) ==
    LET feed  == ~isEdit /\ parent = {}
        reply == ~isEdit /\ parent # {}
    IN [x EXCEPT !.details[p]  = IF k >= 1 THEN d ELSE @,
                 !.timeline    = IF feed /\ k >= 2 THEN @ \cup {p} ELSE @,
                 !.userPosts   = IF feed /\ k >= 3 THEN @ \cup {p} ELSE @,
                 !.thread      = IF reply /\ k >= 2 THEN @ \cup (parent \X {p}) ELSE @,
                 !.userReplies = IF reply /\ k >= 3 THEN @ \cup {p} ELSE @]

(* Faulty variant: a root post stays in its author's list.                 *)
DeleteDetailsFromTimelineOnly(x, p, parent, k) ==
    [x EXCEPT !.details[p]  = IF k >= 1 THEN NoPost ELSE @,
              !.timeline    = IF parent = {} /\ k >= 2 THEN @ \ {p} ELSE @,
              !.thread      = IF parent # {} /\ k >= 2 THEN @ \ (parent \X {p}) ELSE @,
              !.userReplies = IF parent # {} /\ k >= 3 THEN @ \ {p} ELSE @]

DeleteDetails(x, p, parent, k) ==
    [x EXCEPT !.details[p]  = IF k >= 1 THEN NoPost ELSE @,
              !.timeline    = IF parent = {} /\ k >= 2 THEN @ \ {p} ELSE @,
              !.userPosts   = IF parent = {} /\ k >= 3 THEN @ \ {p} ELSE @,
              !.thread      = IF parent # {} /\ k >= 2 THEN @ \ (parent \X {p}) ELSE @,
              !.userReplies = IF parent # {} /\ k >= 3 THEN @ \ {p} ELSE @]

(* get_by_id of the three models: what the index lacks is taken from the   *)
(* graph and stored on the way.                                            *)
FillDetails(x, g, p) ==
    IF x.details[p] = NoPost /\ Exists(g, p)
    THEN PutDetails(x, p, g.post[p], GraphRelationships(g, p).replied, FALSE, Full)
    ELSE x
FillRelationships(x, g, p) ==
    IF x.rel[p] = NoRel /\ Exists(g, p)
    THEN [x EXCEPT !.rel[p] = GraphRelationships(g, p)]
    ELSE x

(* PostRelationships::put_to_index and delete.                             *)
PutRelationships(x, p, r, k) == IF k >= 1 THEN [x EXCEPT !.rel[p] = r] ELSE x
DeleteRelationships(x, p)    == [x EXCEPT !.rel[p] = NoRel]

-----------------------------------------------------------------------------
(* The gate of the shared sets: ZADD, and ZINCRBY that creates a missing   *)
(* member only by an increment.                                            *)
AddScore(x, p, n) == [x EXCEPT !.score[p] = n]
(* Faulty variant: the score is set, not moved.                            *)
IncrAsSet(x, p, delta) == AddScore(x, p, delta)

Incr(x, p, delta) ==
    [x EXCEPT !.score[p] = IF @ # NoScore THEN @ + delta
                           ELSE IF delta > 0 THEN delta ELSE @]

GraphCounts(g, p) == [links |-> LinkCount(g, p), collections |-> CollectionCount(g, p)]

(* PostCounts: put_to_index ranks a root post, delete takes it out again.  *)
PutCounts(x, p, n, isReply, k) ==
    LET cached == IF k >= 1 THEN [x EXCEPT !.counts[p] = n] ELSE x
    IN IF k >= 2 /\ ~isReply THEN AddScore(cached, p, n.links) ELSE cached
Invalidate(x, qs) ==
    [x EXCEPT !.counts = [q \in Posts |-> IF q \in qs THEN NoCounts ELSE @[q]]]
DeleteCounts(x, p, removeFromFeeds, k) ==
    LET gone == IF k >= 1 THEN Invalidate(x, {p}) ELSE x
    IN IF k >= 2 /\ removeFromFeeds THEN [gone EXCEPT !.score[p] = NoScore] ELSE gone

(* Notifications are members of a sorted set by what they say, so the same *)
(* one is never there twice; nobody is told of what he did himself.        *)
Notify(x, from, tos, kind, p) ==
    [x EXCEPT !.note = @ \cup {[to |-> u, kind |-> kind, post |-> p] : u \in tos \ {from}}]
=============================================================================

---------------------------- MODULE SocialIndex ----------------------------
(***************************************************************************)
(* The Redis keys profiles, follows, tags and bookmarks are served from,   *)
(* as a value, and the operations of the models on them.                   *)
(*                                                                         *)
(* An index x has the fields                                               *)
(*   details    UserDetails (JSON), NoUser where there is none             *)
(*   names      Users:Name, pairs of a name and a user;  ids  Users:ID     *)
(*   followers, following    the sets of each user                         *)
(*   taggers    the tagger sets of each target and label                   *)
(*   score      Tags:Post and Tags:User, the number shown with a label;    *)
(*              NoScore for a label that is not listed                     *)
(*   byTag      the engagement of a post among the posts of a label        *)
(*   stream     the engagement of a post among all posts                   *)
(*   posts      which posts a label lists                                  *)
(*   rank       which users a label lists, with their number of taggers    *)
(*   labels     the labels autocomplete knows                              *)
(*   marks, marked   Bookmark (JSON), and the list of each user            *)
(*   counts     the number of tags in the cached counts of a post          *)
(*   note       notifications [to, from, kind]                             *)
(***************************************************************************)
EXTENDS SocialGraph

CONSTANTS NoScore

ASSUME NoScoreAssumption == NoScore \notin Int

Targets == Users \cup Posts

EmptyIndex ==
    [details |-> [u \in Users |-> NoUser], names |-> {}, ids |-> {},
     followers |-> [u \in Users |-> {}], following |-> [u \in Users |-> {}],
     taggers |-> [t \in Targets |-> [l \in Labels |-> {}]],
     score |-> [t \in Targets |-> [l \in Labels |-> NoScore]],
     byTag |-> [p \in Posts |-> [l \in Labels |-> NoScore]],
     stream |-> [p \in Posts |-> NoScore],
     posts |-> [l \in Labels |-> {}],
     rank |-> [l \in Labels |-> [u \in Users |-> 0]],
     labels |-> {}, marks |-> {}, marked |-> {},
     counts |-> [p \in Posts |-> NoScore], note |-> {}]

(* ZINCRBY; the gate of the two shared post sets adds a missing member     *)
(* only by an increment, the label list by either.                         *)
Moved(n, delta)      == IF n = NoScore THEN delta ELSE n + delta
MovedGated(n, delta) == IF n # NoScore THEN n + delta
                        ELSE IF delta > 0 THEN delta ELSE n

(* UserSearch: what the cached details say is what gets removed, so they   *)
(* must still be the old ones.  k keys are written before it stops.        *)
DeleteExistingRecords(x, u, k) ==
    [x EXCEPT !.names = IF k >= 1 /\ x.details[u] # NoUser THEN @ \ {<<x.details[u].name, u>>} ELSE @,
              !.ids   = IF k >= 2 THEN @ \ {u} ELSE @]
PutSearch(x, u, d, k) ==
    LET y == DeleteExistingRecords(x, u, k)
    IN [y EXCEPT !.names = IF k >= 3 /\ ~d.deleted THEN @ \cup {<<d.name, u>>} ELSE @,
                 !.ids   = IF k >= 4 /\ ~d.deleted THEN @ \cup {u} ELSE @]

(* Collection::get_by_ids of UserDetails: a miss is filled from the graph, *)
(* the details first and the search records after them.                    *)
FillUser(x, g, u) ==
    IF x.details[u] = NoUser /\ UserExists(g, u)
    THEN PutSearch([x EXCEPT !.details[u] = g.user[u]], u, g.user[u], 4)
    ELSE x

(* UserFollows::get_by_id: an empty set is no key, and read from the graph.*)
FillFollows(x, g, u) ==
    [x EXCEPT !.followers[u] = IF @ = {} THEN Followers(g, u) ELSE @,
              !.following[u] = IF @ = {} THEN Following(g, u) ELSE @]

(* TagCollection::get_by_id: no label list at all is read from the graph.  *)
FillTags(x, g, t) ==
    IF \A l \in Labels : x.score[t][l] = NoScore
    THEN [x EXCEPT
            !.score[t] = [l \in Labels |->
                IF Taggers(g, t, l) = {} THEN NoScore ELSE Cardinality(Taggers(g, t, l))],
            !.taggers[t] = [l \in Labels |-> @[l] \cup Taggers(g, t, l)]]
    ELSE x

(* sync_index_score: one Lua script.  The score becomes the number of      *)
(* taggers; nobody listed, or a user whose details say deleted, is out.    *)
SyncIndexScore(x, u, l) ==
    [x EXCEPT !.rank[l][u] =
        IF x.details[u] # NoUser /\ x.details[u].deleted THEN 0
        ELSE Cardinality(x.taggers[u][l])]

(* PostsByTagSearch: a post is listed under a label once, and as long as   *)
(* somebody tags it so; the label is suggested as long as it lists a post. *)
PutPostByTag(x, p, l) == [x EXCEPT !.posts[l] = @ \cup {p}]
DelPostByTag(x, p, l, k) ==
    LET y == IF k >= 1 /\ x.taggers[p][l] = {} THEN [x EXCEPT !.posts[l] = @ \ {p}] ELSE x
    IN IF k >= 2 /\ y.posts[l] = {} THEN [y EXCEPT !.labels = @ \ {l}] ELSE y

(* Bookmark::put_to_index and del_from_index: the JSON, then the list.     *)
PutBookmark(x, u, p, k) ==
    [x EXCEPT !.marks  = IF k >= 1 THEN @ \cup {<<u, p>>} ELSE @,
              !.marked = IF k >= 2 THEN @ \cup {<<u, p>>} ELSE @]
DelBookmark(x, u, p, k) ==
    [x EXCEPT !.marks  = IF k >= 1 THEN @ \ {<<u, p>>} ELSE @,
              !.marked = IF k >= 2 THEN @ \ {<<u, p>>} ELSE @]

Tell(x, from, to, kind) ==
    IF from = to THEN x
    ELSE [x EXCEPT !.note = @ \cup {[to |-> to, from |-> from, kind |-> kind]}]
=============================================================================

----------------------------- MODULE PostGraph -----------------------------
(***************************************************************************)
(* The part of the Neo4j graph that posts live in, as a value, and the     *)
(* Cypher statements the post handlers run on it, as operators from graph  *)
(* to graph.  Each statement is one transaction, so one operator is one    *)
(* atomic step of its caller.                                              *)
(*                                                                         *)
(* A graph g has the fields                                                *)
(*   post       the properties of each post, NoPost where there is none    *)
(*   replied, reposted, collected    edges between posts                   *)
(*   mentioned  edges from posts to users                                  *)
(*   takedown   the URIs with a Takedown node (a post stands for its URI)  *)
(***************************************************************************)
EXTENDS FiniteSets, Integers

CONSTANTS
    Users,
    Posts,
    Contents,    \* what a post can be: its text, kind, attachments and lock
    Author,      \* [Posts -> Users]
    Replied,     \* [Posts -> SUBSET Posts]: the parent of a post, or nothing
    Reposted,    \* [Posts -> SUBSET Posts]: the post it embeds, or nothing
    Items,       \* [Contents -> SUBSET Posts]: what a collection lists
    Mentions,    \* [Contents -> SUBSET Users]: who the text mentions
    Collections  \* the contents of kind Collection

CONSTANTS NoPost, Empty

ASSUME PostGraphAssumption ==
    /\ Author \in [Posts -> Users]
    /\ Replied \in [Posts -> SUBSET Posts]
    /\ Reposted \in [Posts -> SUBSET Posts]
    /\ Items \in [Contents -> SUBSET Posts]
    /\ Mentions \in [Contents -> SUBSET Users]
    /\ Collections \subseteq Contents
    /\ \A c \in Contents \ Collections : Items[c] = {}
    /\ Empty \in Contents \ Collections
    /\ Mentions[Empty] = {}

(* PostDetails, as far as a handler compares it: everything the author     *)
(* wrote is c, and deleted marks the tombstone.                            *)
Details == [c : Contents, deleted : BOOLEAN]

ASSUME NoPostAssumption == NoPost \notin Details

(* PostDetails::from_homeserver and the tombstone post::del builds.        *)
FromHomeserver(c) == [c |-> c, deleted |-> FALSE]
Tombstone         == [c |-> Empty, deleted |-> TRUE]

(* content_differs_from, is_different_than: the lock is part of c.         *)
IsDifferentThan(d, e) == d.c # e.c \/ d.deleted # e.deleted

Relationships == [replied : SUBSET Posts, reposted : SUBSET Posts]
NoParents     == [replied |-> {}, reposted |-> {}]

EmptyGraph ==
    [post |-> [p \in Posts |-> NoPost], replied |-> {}, reposted |-> {},
     collected |-> {}, mentioned |-> {}, takedown |-> {}]

GraphType(g) ==
    /\ g.post \in [Posts -> Details \cup {NoPost}]
    /\ g.replied \subseteq Posts \X Posts
    /\ g.reposted \subseteq Posts \X Posts
    /\ g.collected \subseteq Posts \X Posts
    /\ g.mentioned \subseteq Posts \X Users
    /\ g.takedown \subseteq Posts

Exists(g, p) == g.post[p] # NoPost

(* OperationOutcome: no row, an existing node, a new node.                 *)
CreatePostOutcome(g, p, r) ==
    IF \E q \in r.replied \cup r.reposted : ~Exists(g, q) THEN "MissingDependency"
    ELSE IF Exists(g, p) THEN "Updated" ELSE "CreatedOrDeleted"

(* Faulty variant: the properties are set only when the node is created.   *)
CreatePostOnce(g, p, d, r) ==
    [g EXCEPT !.post[p]  = IF @ = NoPost THEN d ELSE @,
              !.replied  = @ \cup ({p} \X r.replied),
              !.reposted = @ \cup ({p} \X r.reposted)]

CreatePost(g, p, d, r) ==
    [g EXCEPT !.post[p]  = d,
              !.replied  = @ \cup ({p} \X r.replied),
              !.reposted = @ \cup ({p} \X r.reposted)]

(* A mentioned user that is not in the graph yields no edge; here every    *)
(* user is.                                                                *)
CreateMentions(g, p, us) ==
    [g EXCEPT !.mentioned = IF Exists(g, p) THEN @ \cup ({p} \X us) ELSE @]

(* sync_collection_items rewrites the edges of p, unless derived is no     *)
(* longer what the graph holds, and returns the posts it touched.          *)
EdgesApply(g, p, derived) ==
    Exists(g, p) /\ (derived = NoPost \/ g.post[p].c = derived.c)
CurrentItems(g, p, items) == {q \in items \ {p} : Exists(g, q)}
SyncCollectionItems(g, p, items, derived) ==
    IF EdgesApply(g, p, derived)
    THEN [g EXCEPT !.collected = {e \in @ : e[1] # p}
                                     \cup ({p} \X CurrentItems(g, p, items))]
    ELSE g
TouchedItems(g, p, items, derived) ==
    IF EdgesApply(g, p, derived)
    THEN {q \in Posts : <<p, q>> \in g.collected} \cup CurrentItems(g, p, items)
    ELSE {}

(* DETACH DELETE takes every edge of the post with it.                     *)
DeletePost(g, p) ==
    LET Cut(edges) == {e \in edges : p \notin {e[1], e[2]}}
    IN [g EXCEPT !.post[p] = NoPost, !.replied = Cut(@), !.reposted = Cut(@),
                 !.collected = Cut(@), !.mentioned = {e \in @ : e[1] # p}]

(* A post that something points at, or that mentions someone, is not       *)
(* removed: it becomes a tombstone.  Tags and bookmarks count too and are  *)
(* left to TagHandler.                                                     *)
PostIsSafeToDelete(g, p) ==
    /\ \A e \in g.replied \cup g.reposted : e[2] # p
    /\ \A e \in g.mentioned : e[1] # p

(* post_relationships: the parents as the edges give them.                 *)
GraphRelationships(g, p) ==
    [replied  |-> {q \in Posts : <<p, q>> \in g.replied},
     reposted |-> {q \in Posts : <<p, q>> \in g.reposted}]

(* post_counts, split into what the parents' writes change and what the    *)
(* collections change.                                                     *)
LinkCount(g, p) ==
    Cardinality({e \in g.replied : e[2] = p}) + Cardinality({e \in g.reposted : e[2] = p})
CollectionCount(g, p) == Cardinality({e \in g.collected : e[2] = p})

RecordTakedown(g, p) == [g EXCEPT !.takedown = @ \cup {p}]
IsTakenDown(g, p)    == p \in g.takedown

(* Those changed_post writes to: the authors of what links to p.           *)
LinkedUsers(g, p) ==
    {Author[e[1]] : e \in {e \in g.replied \cup g.reposted : e[2] = p}}
=============================================================================

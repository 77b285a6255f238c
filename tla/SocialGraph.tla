---------------------------- MODULE SocialGraph ----------------------------
(***************************************************************************)
(* The part of the Neo4j graph that profiles, follows, tags, bookmarks and *)
(* files live in, as a value, and the Cypher statements their handlers run *)
(* on it.  Each statement is one transaction.                              *)
(*                                                                         *)
(* A graph g has the fields                                                *)
(*   user       the profile of each user, NoUser where there is no node    *)
(*   hosted     users with a HOSTED_BY edge                                *)
(*   posts      posts that are in the graph (PostHandler puts them there)  *)
(*   follows    pairs of users                                             *)
(*   tags       TAGGED edges [by, to, label, app]; the id of a tag is a    *)
(*              hash of its target and label, so it needs no field         *)
(*   bookmarks  pairs of a user and a post                                 *)
(*   files      records of files                                           *)
(***************************************************************************)
EXTENDS FiniteSets, Integers, Sequences

CONSTANTS
    Users,
    Posts,
    Labels,
    Names,      \* what a profile can be called
    Records,    \* the homeserver records that events are about
    Kind,       \* [Records -> {"follow", "tag", "bookmark", "profile", "file"}]
    By,         \* [Records -> Users]: the owner
    To,         \* [Records -> ...]: what the record points at
    Label,      \* [Records -> Labels]: of a tag
    App,        \* [Records -> ...]: the app a tag is filed under, or NoApp
    Author,     \* [Posts -> Users]
    IsReply     \* [Posts -> BOOLEAN]

CONSTANTS NoUser, NoApp, Stub, Blank

(* UserDetails, as far as the handlers tell it apart.                      *)
Profile == [name : Names \cup {Stub, Blank}, deleted : BOOLEAN]

(* The path of a profile, follow or bookmark is made from what it points   *)
(* at, so that there is one record of each; a tag may be filed twice,      *)
(* under different apps.                                                   *)
ASSUME SocialGraphAssumption ==
    /\ IsFiniteSet(Records)
    /\ Users \cap Posts = {}
    /\ Kind \in [Records -> {"follow", "tag", "bookmark", "profile", "file"}]
    /\ By \in [Records -> Users]
    /\ Author \in [Posts -> Users]
    /\ IsReply \in [Posts -> BOOLEAN]
    /\ \A r \in Records : Kind[r] = "tag" => Label[r] \in Labels
    /\ \A r \in Records : Kind[r] = "follow" => To[r] \in Users
    /\ \A r, s \in Records :
          /\ Kind[r] = Kind[s] /\ By[r] = By[s]
          /\ Kind[r] = "profile" \/ (Kind[r] \in {"follow", "bookmark"} /\ To[r] = To[s])
          => r = s
    /\ {Stub, Blank} \cap Names = {} /\ Stub # Blank
    /\ NoUser \notin Profile

(* UserDetails: from_homeserver, from_pubky (a stub is named after its     *)
(* key) and tombstone.                                                     *)
FromHomeserver(n) == [name |-> n, deleted |-> FALSE]
FromPubky         == [name |-> Stub, deleted |-> FALSE]
Tombstone         == [name |-> Blank, deleted |-> TRUE]

EmptyGraph ==
    [user |-> [u \in Users |-> NoUser], hosted |-> {}, posts |-> {},
     follows |-> {}, tags |-> {}, bookmarks |-> {}, files |-> {}]

UserExists(g, u) == g.user[u] # NoUser

(* tag_target, and classify_uri for tags filed under another app.          *)
Target(r) ==
    IF To[r] \in Posts THEN "post" ELSE IF To[r] \in Users THEN "user"
    ELSE IF App[r] # NoApp THEN "resource" ELSE "unsupported"

(* The edge of a tag record.  Only a tag of a resource carries its app.    *)
TagEdge(r) ==
    [by |-> By[r], to |-> To[r], label |-> Label[r],
     app |-> IF Target(r) = "resource" THEN App[r] ELSE NoApp]

(* What must be in the graph before the edge of a record can be.           *)
Ready(g, r) ==
    /\ UserExists(g, By[r])
    /\ To[r] \in Users => UserExists(g, To[r])
    /\ To[r] \in Posts => To[r] \in g.posts

Present(g, r) ==
    CASE Kind[r] = "follow"   -> <<By[r], To[r]>> \in g.follows
      [] Kind[r] = "tag"      -> TagEdge(r) \in g.tags
      [] Kind[r] = "bookmark" -> <<By[r], To[r]>> \in g.bookmarks
      [] Kind[r] = "file"     -> r \in g.files
      [] Kind[r] = "profile"  -> UserExists(g, By[r])

(* OperationOutcome of the MERGE statements.                               *)
Outcome(g, r) ==
    IF ~Ready(g, r) THEN "MissingDependency"
    ELSE IF Present(g, r) THEN "Updated" ELSE "CreatedOrDeleted"

CreateUser(g, u, d)  == [g EXCEPT !.user[u] = d]
CreateFollow(g, r)   == [g EXCEPT !.follows = @ \cup {<<By[r], To[r]>>}]
CreateTag(g, r)      == [g EXCEPT !.tags = @ \cup {TagEdge(r)}]
CreateBookmark(g, r) == [g EXCEPT !.bookmarks = @ \cup {<<By[r], To[r]>>}]
CreateFile(g, r)     == [g EXCEPT !.files = @ \cup {r}]

DeleteFollow(g, r)   == [g EXCEPT !.follows = @ \ {<<By[r], To[r]>>}]
DeleteTag(g, e)      == [g EXCEPT !.tags = @ \ {e}]
DeleteBookmark(g, r) == [g EXCEPT !.bookmarks = @ \ {<<By[r], To[r]>>}]
DeleteFile(g, r)     == [g EXCEPT !.files = @ \ {r}]

(* DETACH DELETE: the posts of a user stay, as nodes nobody authored, and  *)
(* are out of reach for every statement here.                              *)
DeleteUser(g, u) ==
    [g EXCEPT !.user[u] = NoUser, !.hosted = @ \ {u},
              !.posts = {p \in @ : Author[p] # u},
              !.follows = {e \in @ : u \notin {e[1], e[2]}},
              !.tags = {e \in @ : u \notin {e.by, e.to}},
              !.bookmarks = {e \in @ : e[1] # u}]

(* user_is_safe_to_delete: the node has no edge at all.                    *)
UserIsSafeToDelete(g, u) ==
    /\ u \notin g.hosted
    /\ \A p \in g.posts : Author[p] # u
    /\ \A e \in g.follows : u \notin {e[1], e[2]}
    /\ \A e \in g.tags : u \notin {e.by, e.to}
    /\ \A e \in g.bookmarks : e[1] # u

(* get_tag_target: the edge a tag record stands for.  A record filed under *)
(* an app stands for the edge without an app when that does not point at a *)
(* resource.                                                               *)
TagTarget(g, r) ==
    LET own    == [by |-> By[r], to |-> To[r], label |-> Label[r], app |-> App[r]]
        shared == [own EXCEPT !.app = NoApp]
    IN IF own \in g.tags THEN {own}
       ELSE IF shared \in g.tags /\ Target(r) \in {"post", "user"} THEN {shared} ELSE {}

Taggers(g, t, l)  == {e.by : e \in {e \in g.tags : e.to = t /\ e.label = l}}
Followers(g, u)   == {v \in Users : <<v, u>> \in g.follows}
Following(g, u)   == {v \in Users : <<u, v>> \in g.follows}
TagCount(g, p)    == Cardinality({e \in g.tags : e.to = p})
=============================================================================

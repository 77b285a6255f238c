--------------------------- MODULE SocialHandler ---------------------------
(***************************************************************************)
(* What the watcher does with the events of profiles, follows, tags,       *)
(* bookmarks and files.  As in PostHandler, every await that writes is a   *)
(* step of its own, a tokio::join is a set of writes done in any order,    *)
(* any write may fail, a failed one is attempted again with the whole      *)
(* event, and a missing dependency sends the event to the retry queue.     *)
(***************************************************************************)
EXTENDS SocialIndex

CONSTANTS
    LiveLoops,   \* the loops that read events (primary, external)
    Home,        \* [Users -> LiveLoops]: the loop that reads a user's events
    Known,       \* the users whose profile was indexed to begin with
    FirstName,   \* what they are called
    MaxOps,      \* how many records are written or deleted on homeservers
    MaxRaceOps,  \* the same, in a run where handlers overlap
    MaxFaults,     \* how many writes fail
    MaxRaceFaults  \* the same, in a run where handlers overlap

CONSTANTS Nothing

ASSUME SocialHandlerAssumption ==
    /\ Home \in [Users -> LiveLoops] /\ "retry" \notin LiveLoops
    /\ Nothing \notin Names \cup {"record"}
    /\ Known \subseteq Users /\ FirstName \in Names
    /\ MaxOps \in Nat /\ MaxRaceOps \in Nat /\ MaxFaults \in Nat /\ MaxRaceFaults \in Nat

Retry == "retry"
Loops == LiveLoops \cup {Retry}
Event == [type : {"put", "del"}, r : Records]

(* A homeserver holds the name of a profile, and of other records only     *)
(* that they are there.                                                    *)
Blob(r) == IF Kind[r] = "profile" THEN Names ELSE {"record"}

VARIABLES
    graph,    \* the graph (SocialGraph)
    index,    \* the index (SocialIndex)
    disk,     \* the files whose main variant is on disk
    hs,       \* the blob of each record on its owner's homeserver
    ops,      \* how many times a homeserver record changed
    log,      \* [LiveLoops -> Seq(Event)]: the events not handled yet
    queue,    \* the events waiting for a retry
    job,      \* [Loops -> Job]: the handler each loop is running
    faults,   \* the writes that failed so far
    overlap   \* whether handlers, or a handler and a reader, ever overlapped

vars == <<graph, index, disk, hs, ops, log, queue, job, faults, overlap>>
stores == <<graph, index, disk>>
inputs == <<hs, ops, log, queue>>

(* A handler: where it is, its event, the profile it writes, the tag edge  *)
(* it removes, what the index said before it wrote (known, friends), the   *)
(* writes of the join it is in and whether one of them failed, and the     *)
(* labels it still has to sync.                                            *)
Idle ==
    [pc |-> "idle", ev |-> Nothing, body |-> NoUser, edge |-> Nothing,
     known |-> FALSE, friends |-> FALSE, todo |-> {}, failed |-> FALSE, labels |-> {}]

Init ==
    /\ LET profiles == [u \in Users |-> IF u \in Known THEN FromHomeserver(FirstName) ELSE NoUser]
       IN /\ graph = [EmptyGraph EXCEPT !.user = profiles]
          /\ index = [EmptyIndex EXCEPT !.details = profiles, !.names = {FirstName} \X Known,
                                        !.ids = Known]
    /\ disk = {}
    /\ hs = [r \in Records |-> IF Kind[r] = "profile" /\ By[r] \in Known THEN FirstName ELSE Nothing]
    /\ ops = 0
    /\ log = [w \in LiveLoops |-> <<>>]
    /\ queue = {}
    /\ job = [w \in Loops |-> Idle]
    /\ faults = 0
    /\ overlap = FALSE

-----------------------------------------------------------------------------
Busy(w)  == job[w].pc # "idle"
Rec(w)   == job[w].ev.r
At(w, l) == job[w].pc = l

Logged(r, type) ==
    /\ ops < IF overlap THEN MaxRaceOps ELSE MaxOps
    /\ ops' = ops + 1
    /\ log' = [log EXCEPT ![Home[By[r]]] = Append(@, [type |-> type, r |-> r])]
    /\ UNCHANGED <<stores, queue, job, faults, overlap>>

UserPuts(r, c) ==
    /\ hs[r] # c
    /\ hs' = [hs EXCEPT ![r] = c]
    /\ Logged(r, "put")

UserDeletes(r) ==
    /\ hs[r] # Nothing
    /\ hs' = [hs EXCEPT ![r] = Nothing]
    /\ Logged(r, "del")

MayFail == faults < IF overlap THEN MaxRaceFaults ELSE MaxFaults

Raced(race) ==
    /\ race => ops <= MaxRaceOps /\ faults <= MaxRaceFaults
    /\ overlap' = (overlap \/ race)

Start(w, e) ==
    /\ ~Busy(w)
    /\ job' = [job EXCEPT ![w] = [Idle EXCEPT !.pc = IF e.type = "put" THEN "fetch" ELSE "find",
                                              !.ev = e]]
    /\ Raced(\E v \in Loops \ {w} : Busy(v))
    /\ UNCHANGED <<stores, inputs, faults>>

Take(w) ==
    \/ w # Retry /\ log[w] # <<>> /\ Start(w, Head(log[w]))
    \/ w = Retry /\ \E e \in queue : Start(w, e)

Passed(w) == IF w = Retry THEN log ELSE [log EXCEPT ![w] = Tail(@)]

Finish(w) ==
    /\ job' = [job EXCEPT ![w] = Idle]
    /\ log' = Passed(w)
    /\ queue' = IF w = Retry THEN queue \ {job[w].ev} ELSE queue
    /\ UNCHANGED <<hs, ops, faults, overlap>>

(* Faulty variant: the event is passed and not queued.                     *)
RequeueNothing(w) ==
    /\ job' = [job EXCEPT ![w] = Idle]
    /\ log' = Passed(w)
    /\ UNCHANGED <<hs, ops, queue, faults, overlap>>

(* A missing dependency queues the event, one entry per URI.               *)
Requeue(w) ==
    /\ job' = [job EXCEPT ![w] = Idle]
    /\ log' = Passed(w)
    /\ queue' = {e \in queue : e.r # Rec(w)} \cup {job[w].ev}
    /\ UNCHANGED <<hs, ops, faults, overlap>>

(* The step went through, or its write failed and the handling is given up *)
(* until the event is attempted again.                                     *)
Proceed(w, ok, j) ==
    /\ \/ ok /\ job' = [job EXCEPT ![w] = j] /\ UNCHANGED faults
       \/ /\ ~ok /\ MayFail
          /\ faults' = faults + 1
          /\ job' = [job EXCEPT ![w] = Idle]
    /\ UNCHANGED <<inputs, overlap>>
Goto(w, l) == [job[w] EXCEPT !.pc = l]
Join(w, l, writes) == [job[w] EXCEPT !.pc = l, !.todo = writes, !.failed = FALSE]

-----------------------------------------------------------------------------
(* PUT.  The blob is fetched; an unsupported target and a self-follow are  *)
(* passed over.                                                            *)
Ignored(r) ==
    \/ Kind[r] \in {"tag", "bookmark"} /\ Target(r) = "unsupported"
    \/ Kind[r] = "bookmark" /\ Target(r) # "post"
    \/ Kind[r] = "follow" /\ By[r] = To[r]

Fetch(w) ==
    /\ At(w, "fetch")
    /\ LET r == Rec(w)
       IN IF hs[r] = Nothing \/ Ignored(r) THEN Finish(w)
          ELSE Proceed(w, TRUE,
                 CASE Kind[r] = "profile" ->
                        [job[w] EXCEPT !.pc = "profile", !.body = FromHomeserver(hs[r])]
                   [] Kind[r] = "file" -> Goto(w, "write")
                   [] OTHER -> Goto(w, "edge"))
    /\ UNCHANGED stores

(* maybe_ingest_user: known already, or a stub that is bound to its        *)
(* homeserver (its graph writes are those of UserHsResolver).              *)
IngestGraph(g, x, u) ==
    IF FillUser(x, g, u).details[u] # NoUser THEN g
    ELSE [CreateUser(g, u, FromPubky) EXCEPT !.hosted = @ \cup {u}]

(* The user whose absence a handler tries to mend; a bookmark and the tag  *)
(* of a resource do not.                                                   *)
Mends(r) ==
    IF Kind[r] = "bookmark" \/ To[r] \notin Targets THEN {}
    ELSE IF To[r] \in Posts THEN {Author[To[r]]} ELSE {To[r]}

(* The writes after a tag was stored, the first time and when the edge was *)
(* there before.                                                           *)
(* Faulty variant: an existing edge is counted again.                      *)
TagWritesAlways(r, outcome) ==
    CASE Target(r) = "post" -> {"uncount", "tagger", "posts", "label", "count", "tell"}
      [] Target(r) = "user" -> {"tagger", "label", "count", "tell"}
      [] OTHER              -> {"label"}

PostTagWrites     == {"uncount", "tagger", "posts", "label"}
UserTagWrites     == {"tagger", "label"}
ResourceTagWrites == {"label"}
TagWrites(r, outcome) ==
    LET idempotent == IF Target(r) = "post" THEN PostTagWrites ELSE UserTagWrites
    IN IF Target(r) = "resource" THEN ResourceTagWrites
       ELSE IF outcome = "Updated" THEN idempotent ELSE idempotent \cup {"count", "tell"}

(* Faulty variant: a follow that is in the graph is taken to be indexed.   *)
FollowWritesOnce(outcome) ==
    IF outcome = "Updated" THEN {"followers"} ELSE {"followers", "following", "tell"}

FollowWrites(outcome) ==
    {"followers", "following"} \cup IF outcome = "Updated" THEN {} ELSE {"tell"}

(* is_followee_following_follower reads both sets before they are written. *)
WillBeFriends(x, r) == To[r] \notin x.following[By[r]] /\ By[r] \in x.following[To[r]]

PutEdge(w) ==
    /\ At(w, "edge")
    /\ LET r == Rec(w)
           outcome == Outcome(graph, r)
       IN \/ /\ outcome = "MissingDependency"
             /\ graph' = IF Mends(r) = {} THEN graph
                         ELSE IngestGraph(graph, index, CHOOSE u \in Mends(r) : TRUE)
             /\ index' = IF Mends(r) = {} THEN index
                         ELSE FillUser(index, graph, CHOOSE u \in Mends(r) : TRUE)
             /\ Requeue(w)
          \/ /\ outcome # "MissingDependency"
             /\ \E ok \in BOOLEAN :
                  /\ graph' = IF ~ok THEN graph
                              ELSE CASE Kind[r] = "follow" -> CreateFollow(graph, r)
                                     [] Kind[r] = "tag" -> CreateTag(graph, r)
                                     [] Kind[r] = "bookmark" -> CreateBookmark(graph, r)
                  /\ Proceed(w, ok,
                       CASE Kind[r] = "follow" ->
                              [Join(w, "follow", FollowWrites(outcome)) EXCEPT
                                  !.friends = WillBeFriends(index, r)]
                         [] Kind[r] = "tag" -> Join(w, "tag", TagWrites(r, outcome))
                         [] Kind[r] = "bookmark" -> Goto(w, "mark"))
             /\ UNCHANGED index
    /\ UNCHANGED disk

(* The counters a tag moves: the label's number on its target, and for a   *)
(* post its engagement under the label and, unless it is a reply, overall. *)
(* They are independent keys nobody reads together, so those of one join   *)
(* move in one step.                                                       *)
Counters(r) ==
    {"score"} \cup IF Target(r) # "post" THEN {}
                   ELSE {"byTag"} \cup IF IsReply[To[r]] THEN {} ELSE {"stream"}
Count(x, r, fields, n) ==
    LET t == To[r]
        l == Label[r]
        Up(f, move(_, _)) == [f EXCEPT ![t][l] = move(f[t][l], n)]
    IN [x EXCEPT
          !.score = IF "score" \in fields THEN Up(x.score, Moved) ELSE x.score,
          !.byTag = IF "byTag" \in fields THEN Up(x.byTag, MovedGated) ELSE x.byTag,
          !.stream = IF "stream" \in fields
                     THEN [x.stream EXCEPT ![t] = MovedGated(x.stream[t], n)] ELSE x.stream]

Moves(w, fields) ==
    IF job[w].pc = "tag" THEN Count(index, Rec(w), fields, 1)
    ELSE IF job[w].known THEN Count(index, Rec(w), fields, -1) ELSE index

(* One write of a join: of a follow, of a tag, of the removal of a tag.    *)
(* Removing, the counters and the notification are left alone unless the   *)
(* tagger, or the follower, was indexed before.                            *)
FollowEffect(x, r, friends, a) ==
    CASE a = "followers"   -> [x EXCEPT !.followers[To[r]] = @ \cup {By[r]}]
      [] a = "following"   -> [x EXCEPT !.following[By[r]] = @ \cup {To[r]}]
      [] a = "unfollowers" -> [x EXCEPT !.followers[To[r]] = @ \ {By[r]}]
      [] a = "unfollowing" -> [x EXCEPT !.following[By[r]] = @ \ {To[r]}]
      [] a = "tell"        -> Tell(x, By[r], To[r], IF friends THEN "friend" ELSE "follow")

Owner(r) == IF To[r] \in Posts THEN Author[To[r]] ELSE To[r]
TagEffect(x, r, a) ==
    CASE a = "uncount" -> [x EXCEPT !.counts[To[r]] = NoScore]
      [] a = "tagger"  -> [x EXCEPT !.taggers[To[r]][Label[r]] = @ \cup {By[r]}]
      [] a = "posts"   -> PutPostByTag(x, To[r], Label[r])
      [] a = "label"   -> [x EXCEPT !.labels = @ \cup {Label[r]}]
      [] a = "tell"    -> Tell(x, By[r], Owner(r), "tag")

UntagEffect(x, r, known, a) ==
    CASE a = "untagger" -> [x EXCEPT !.taggers[To[r]][Label[r]] = @ \ {By[r]}]
      [] a = "tell"     -> IF known THEN Tell(x, By[r], Owner(r), "untag") ELSE x

JoinEffect(w, a) ==
    LET r == Rec(w)
        j == job[w]
    IN CASE j.pc \in {"follow", "unfollow"}  -> FollowEffect(index, r, j.friends, a)
         [] a = "count"                      -> Moves(w, Counters(r))
         [] a # "count" /\ j.pc = "tag"      -> TagEffect(index, r, a)
         [] a # "count" /\ j.pc = "untag"    -> UntagEffect(index, r, j.known, a)

(* What a failing write leaves behind: one of the counters was not moved.  *)
JoinPartial(w, a) ==
    IF a # "count" THEN {index}
    ELSE {Moves(w, Counters(Rec(w)) \ {f}) : f \in Counters(Rec(w))}

(* What follows a join.  A handler that is through finishes the event.     *)
AfterJoin(w) ==
    LET r == Rec(w)
    IN CASE job[w].pc = "follow"   -> Goto(w, "done")
         [] job[w].pc = "unfollow" -> Goto(w, "lost")
         [] job[w].pc = "tag"   -> Goto(w, IF Target(r) = "user" THEN "sync" ELSE "done")
         [] job[w].pc = "untag" -> Goto(w, IF Target(r) = "user" THEN "sync" ELSE "cleanup")

JoinWrite(w, a) ==
    LET left == job[w].todo \ {a}
        After(failed) ==
            IF left # {} THEN [job[w] EXCEPT !.todo = left, !.failed = failed]
            ELSE IF failed THEN Idle ELSE [AfterJoin(w) EXCEPT !.todo = {}]
    IN /\ a \in job[w].todo
       /\ \/ /\ index' = JoinEffect(w, a)
             /\ job' = [job EXCEPT ![w] = After(job[w].failed)]
             /\ UNCHANGED faults
          \/ /\ MayFail
             /\ faults' = faults + 1
             /\ index' \in JoinPartial(w, a)
             /\ job' = [job EXCEPT ![w] = After(TRUE)]
       /\ UNCHANGED <<graph, disk, inputs, overlap>>

(* UsersByTagSearch::sync_index_score, once the sets are settled.          *)
SyncRank(w) ==
    /\ At(w, "sync")
    /\ \E ok \in BOOLEAN :
         /\ index' = IF ok THEN SyncIndexScore(index, To[Rec(w)], Label[Rec(w)]) ELSE index
         /\ Proceed(w, ok, Goto(w, IF job[w].ev.type = "put" THEN "done" ELSE "unedge"))
    /\ UNCHANGED <<graph, disk>>

Mark(w) ==
    /\ At(w, "mark")
    /\ \E k \in 0..2 :
         /\ index' = PutBookmark(index, By[Rec(w)], To[Rec(w)], k)
         /\ Proceed(w, k = 2, Goto(w, "done"))
    /\ UNCHANGED <<graph, disk>>

(* The main variant is written before the node, and removed after it.      *)
WriteFile(w) ==
    /\ At(w, "write")
    /\ \E k \in 0..2 :
         /\ disk' = IF k >= 1 THEN disk \cup {Rec(w)} ELSE disk
         /\ graph' = IF k = 2 THEN CreateFile(graph, Rec(w)) ELSE graph
         /\ Proceed(w, k = 2, Goto(w, "done"))
    /\ UNCHANGED index

-----------------------------------------------------------------------------
(* Profiles: the graph, the search records while the cached name is still  *)
(* the old one, the details, and the labels the user is listed under.      *)
PutProfile(w) ==
    /\ At(w, "profile")
    /\ \E ok \in BOOLEAN :
         /\ graph' = IF ok THEN CreateUser(graph, By[Rec(w)], job[w].body) ELSE graph
         /\ Proceed(w, ok, Goto(w, IF job[w].body.deleted THEN "details" ELSE "search"))
    /\ UNCHANGED <<index, disk>>

PutUserSearch(w) ==
    /\ At(w, "search")
    /\ \E k \in 0..4 :
         /\ index' = PutSearch(index, By[Rec(w)], job[w].body, k)
         /\ Proceed(w, k = 4, Goto(w, "details"))
    /\ UNCHANGED <<graph, disk>>

PutUserDetails(w) ==
    /\ At(w, "details")
    /\ \E ok \in BOOLEAN :
         /\ index' = IF ok THEN [index EXCEPT !.details[By[Rec(w)]] = job[w].body] ELSE index
         /\ Proceed(w, ok, Goto(w, "labels"))
    /\ UNCHANGED <<graph, disk>>

(* sync_user_labels: the labels listed for the user, then one by one.      *)
ReadLabels(w) ==
    /\ At(w, "labels")
    /\ LET listed == {l \in Labels : index.score[By[Rec(w)]][l] # NoScore}
       IN Proceed(w, TRUE, IF listed = {} THEN Goto(w, "done")
                           ELSE [job[w] EXCEPT !.pc = "resync", !.labels = listed])
    /\ UNCHANGED stores

SyncLabel(w) ==
    /\ At(w, "resync")
    /\ \E l \in job[w].labels, ok \in BOOLEAN :
         /\ index' = IF ok THEN SyncIndexScore(index, By[Rec(w)], l) ELSE index
         /\ Proceed(w, ok, [job[w] EXCEPT !.labels = @ \ {l},
                              !.pc = IF job[w].labels = {l} THEN "done" ELSE "resync"])
    /\ UNCHANGED <<graph, disk>>

-----------------------------------------------------------------------------
(* DEL.  What the graph does not know was removed by an earlier attempt.   *)
(* Otherwise the index is read, then cleared, and the graph comes last.    *)
FindFollow(w, r) ==
    IF By[r] = To[r] THEN Finish(w)
    ELSE Proceed(w, TRUE, [Join(w, "unfollow", {"unfollowers", "unfollowing"}) EXCEPT
            !.known = By[r] \in index.followers[To[r]],
            !.friends = To[r] \in index.following[By[r]] /\ By[r] \in index.following[To[r]]])

UntagWrites == {"count", "untagger", "tell"}
FindTag(w, r) ==
    \/ TagTarget(graph, r) = {} /\ Finish(w)
    \/ \E e \in TagTarget(graph, r) : Proceed(w, TRUE,
          IF Target(r) = "resource" THEN [Goto(w, "unedge") EXCEPT !.edge = e]
          ELSE [Join(w, "untag", UntagWrites) EXCEPT
                  !.edge = e, !.known = By[r] \in index.taggers[To[r]][Label[r]]])

FindBookmark(w, r) ==
    IF Present(graph, r) THEN Proceed(w, TRUE, Goto(w, "unmark")) ELSE Finish(w)

FindProfile(w, u) ==
    IF ~UserExists(graph, u) THEN Finish(w)
    ELSE Proceed(w, TRUE, [job[w] EXCEPT !.pc = "unsearch",
            !.body = IF UserIsSafeToDelete(graph, u) THEN NoUser ELSE Tombstone])

Find(w) ==
    /\ At(w, "find")
    /\ LET r == Rec(w)
       IN CASE Kind[r] = "follow"   -> FindFollow(w, r)
            [] Kind[r] = "tag"      -> FindTag(w, r)
            [] Kind[r] = "bookmark" -> FindBookmark(w, r)
            [] Kind[r] = "file"     -> Proceed(w, TRUE, Goto(w, "erase"))
            [] Kind[r] = "profile"  -> FindProfile(w, By[r])
    /\ UNCHANGED stores

LostFollow(w) ==
    /\ At(w, "lost")
    /\ \E ok \in BOOLEAN :
         /\ index' = IF ok /\ job[w].known /\ job[w].friends
                     THEN Tell(index, By[Rec(w)], To[Rec(w)], "lost") ELSE index
         /\ Proceed(w, ok, Goto(w, "unedge"))
    /\ UNCHANGED <<graph, disk>>

(* A label that lists no post any more is not suggested either.            *)
CleanUp(w) ==
    /\ At(w, "cleanup")
    /\ \E k \in 0..2 :
         /\ index' = DelPostByTag(index, To[Rec(w)], Label[Rec(w)], k)
         /\ Proceed(w, k = 2, Goto(w, "unedge"))
    /\ UNCHANGED <<graph, disk>>

Unmark(w) ==
    /\ At(w, "unmark")
    /\ \E k \in 0..2 :
         /\ index' = DelBookmark(index, By[Rec(w)], To[Rec(w)], k)
         /\ Proceed(w, k = 2, Goto(w, "unedge"))
    /\ UNCHANGED <<graph, disk>>

DeleteEdge(w) ==
    /\ At(w, "unedge")
    /\ LET r == Rec(w)
       IN \E ok \in BOOLEAN :
            /\ graph' = IF ~ok THEN graph
                        ELSE CASE Kind[r] = "follow" -> DeleteFollow(graph, r)
                               [] Kind[r] = "tag" -> DeleteTag(graph, job[w].edge)
                               [] Kind[r] = "bookmark" -> DeleteBookmark(graph, r)
            /\ Proceed(w, ok, Goto(w, IF Kind[r] = "tag" /\ Target(r) = "post"
                                      THEN "uncount" ELSE "done"))
    /\ UNCHANGED <<index, disk>>

InvalidateCounts(w) ==
    /\ At(w, "uncount")
    /\ \E ok \in BOOLEAN :
         /\ index' = IF ok THEN [index EXCEPT !.counts[To[Rec(w)]] = NoScore] ELSE index
         /\ Proceed(w, ok, Goto(w, "done"))
    /\ UNCHANGED <<graph, disk>>

EraseFile(w) ==
    /\ At(w, "erase")
    /\ \E k \in 0..2 :
         /\ graph' = IF k >= 1 THEN DeleteFile(graph, Rec(w)) ELSE graph
         /\ disk' = IF k = 2 THEN disk \ {Rec(w)} ELSE disk
         /\ Proceed(w, k = 2, Goto(w, "done"))
    /\ UNCHANGED index

(* A user with edges becomes a tombstone, one without goes altogether.     *)
DeleteSearch(w) ==
    /\ At(w, "unsearch")
    /\ \E k \in 0..2 :
         /\ index' = DeleteExistingRecords(index, By[Rec(w)], k)
         /\ Proceed(w, k = 2, Goto(w, IF job[w].body = NoUser THEN "undetails" ELSE "profile"))
    /\ UNCHANGED <<graph, disk>>

RemoveUser(w) ==
    /\ At(w, "undetails")
    /\ \E k \in 0..2 :
         /\ index' = IF k >= 1 THEN [index EXCEPT !.details[By[Rec(w)]] = NoUser] ELSE index
         /\ graph' = IF k = 2 THEN DeleteUser(graph, By[Rec(w)]) ELSE graph
         /\ Proceed(w, k = 2, Goto(w, "done"))
    /\ UNCHANGED disk

(* The event line is stored and the event is done with.                    *)
StoreEvent(w) ==
    /\ At(w, "done")
    /\ Finish(w) \/ Proceed(w, FALSE, Idle)
    /\ UNCHANGED stores

Quiet ==
    /\ \A w \in Loops : ~Busy(w)
    /\ \A w \in LiveLoops : log[w] = <<>>
    /\ queue = {}

-----------------------------------------------------------------------------
(* The post a tag or a bookmark waits for is indexed (PostHandler), with   *)
(* its author.                                                             *)
PostArrives(p) ==
    /\ p \notin graph.posts /\ UserExists(graph, Author[p])
    /\ graph' = [graph EXCEPT !.posts = @ \cup {p}]
    /\ index' = [index EXCEPT !.stream[p] = IF IsReply[p] THEN @ ELSE 0]
    /\ UNCHANGED <<disk, inputs, job, faults, overlap>>

(* Requests read through: what the index lacks is filled from the graph.   *)
View(x) ==
    /\ x # index
    /\ index' = x
    /\ Raced(~Quiet)
    /\ UNCHANGED <<graph, disk, inputs, job, faults>>
ViewUser(u)   == View(FillUser(index, graph, u))
ViewFollows(u) == View(FillFollows(index, graph, u))
ViewTags(t)   == View(FillTags(index, graph, t))
ViewCounts(p) ==
    /\ index.counts[p] = NoScore /\ p \in graph.posts
    /\ View([index EXCEPT !.counts[p] = TagCount(graph, p)])

Handle(w) ==
    \/ Take(w) \/ Fetch(w) \/ PutEdge(w) \/ \E a \in job[w].todo : JoinWrite(w, a)
    \/ SyncRank(w) \/ Mark(w) \/ WriteFile(w)
    \/ PutProfile(w) \/ PutUserSearch(w) \/ PutUserDetails(w) \/ ReadLabels(w) \/ SyncLabel(w)
    \/ Find(w) \/ LostFollow(w) \/ CleanUp(w) \/ Unmark(w) \/ DeleteEdge(w)
    \/ InvalidateCounts(w) \/ EraseFile(w) \/ DeleteSearch(w) \/ RemoveUser(w) \/ StoreEvent(w)

Next ==
    \/ \E r \in Records : UserDeletes(r) \/ \E c \in Blob(r) : UserPuts(r, c)
    \/ \E w \in Loops : Handle(w)
    \/ \E p \in Posts : PostArrives(p) \/ ViewCounts(p)
    \/ \E u \in Users : ViewUser(u) \/ ViewFollows(u)
    \/ \E t \in Targets : ViewTags(t)

Spec == Init /\ [][Next]_vars

-----------------------------------------------------------------------------
(* Everything the handlers keep as a set says what the graph says once all *)
(* events were handled, wherever one of them was interrupted and attempted *)
(* again: the two sides of a follow, the taggers, the posts of a label,    *)
(* the bookmarks, the files on disk and the profiles, which are found      *)
(* under the name they have.  They are found under no other, unless a      *)
(* write failed: the name an interrupted put stored is not the cached one  *)
(* that the next put or deletion removes.                                  *)
EdgesAgree ==
    Quiet /\ ~overlap =>
        /\ \A u \in Users :
             /\ index.followers[u] = Followers(graph, u)
             /\ index.following[u] = Following(graph, u)
             /\ index.details[u] \in {NoUser, graph.user[u]}
             /\ LET found == {n \in Names \cup {Stub, Blank} : <<n, u>> \in index.names}
                    due == IF index.details[u] = NoUser \/ index.details[u].deleted THEN {}
                           ELSE {index.details[u].name}
                IN due \subseteq found /\ (faults = 0 => found = due)
        /\ \A t \in Targets, l \in Labels : index.taggers[t][l] = Taggers(graph, t, l)
        /\ \A l \in Labels : index.posts[l] = {p \in graph.posts : Taggers(graph, p, l) # {}}
        /\ index.marks = graph.bookmarks /\ index.marked = graph.bookmarks
        /\ disk = graph.files

(* The numbers that are moved up and down are off by no more than the      *)
(* writes that failed, and exact when none did: no attempt counts an edge  *)
(* a second time, or takes back what it did not count.  The rank of a user *)
(* under a label is derived, not moved: it is the number of taggers or,    *)
(* for a user who was deleted, nothing, also when handlers and readers     *)
(* overlap ("concurrent events for the same (user, label) cannot commit a  *)
(* stale score").  A deleted user is only ranked if a write failed, and a  *)
(* profile that is back is ranked again unless one did: the labels to rank *)
(* are read from the numbers, which a failed write leaves out.             *)
CountDrift ==
    Quiet =>
        /\ \A u \in Users, l \in Labels :
             LET gone == index.details[u] # NoUser /\ index.details[u].deleted
                 taggers == Cardinality(index.taggers[u][l])
             IN /\ (overlap => faults = 0) => index.rank[l][u] \in {0, taggers}
                /\ faults = 0 /\ gone => index.rank[l][u] = 0
                /\ faults = 0 /\ ~gone /\ ~overlap => index.rank[l][u] = taggers
        /\ ~overlap =>
             LET Near(n, m) == LET d == (IF n = NoScore THEN 0 ELSE n) - m
                               IN d <= faults /\ -d <= faults
             IN /\ \A t \in Targets, l \in Labels :
                     Near(index.score[t][l], Cardinality(Taggers(graph, t, l)))
                /\ \A p \in graph.posts :
                     /\ \A l \in Labels : Near(index.byTag[p][l], Cardinality(Taggers(graph, p, l)))
                     /\ ~IsReply[p] => Near(index.stream[p], TagCount(graph, p))
                     /\ faults = 0 /\ index.counts[p] # NoScore => index.counts[p] = TagCount(graph, p)

(* The graph ends with what the homeservers hold, whatever was queued or   *)
(* interrupted, for every record whose dependencies arrived.  Two tag      *)
(* records of one user, target and label share an edge: either one's       *)
(* deletion removes it.                                                    *)
FollowsHomeserver ==
    Quiet /\ ~overlap => \A r \in Records :
        /\ Kind[r] \in {"follow", "bookmark", "file"} /\ ~Ignored(r) =>
              (Present(graph, r) <=> hs[r] # Nothing)
        /\ Kind[r] = "tag" /\ ~Ignored(r) /\ Present(graph, r) =>
              \E s \in Records : Kind[s] = "tag" /\ TagEdge(s) = TagEdge(r) /\ hs[s] # Nothing
        /\ Kind[r] = "profile" /\ hs[r] # Nothing =>
              graph.user[By[r]] = FromHomeserver(hs[r])
=============================================================================

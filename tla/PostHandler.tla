---------------------------- MODULE PostHandler ----------------------------
(***************************************************************************)
(* What the watcher does with the events of posts: put, edit, delete,      *)
(* tombstone, recovery of an interrupted put, and the moderator's          *)
(* takedowns.  Every await that writes is a step of its own, a tokio::join *)
(* is a set of writes done in any order, and any write may fail.           *)
(*                                                                         *)
(* A failed graph or Redis write ends the handling with an error that is   *)
(* not passed: the live loop reads the event again, the retry loop leaves  *)
(* it queued.  A missing dependency sends the event to the retry queue.    *)
(***************************************************************************)
EXTENDS PostIndex, Sequences

CONSTANTS
    LiveLoops,   \* the loops that read events (primary, external)
    Home,        \* [Users -> LiveLoops]: the loop that reads a user's events
    Moderator,   \* [LiveLoops -> BOOLEAN]: reads the moderator's events
    MaxOps,      \* how many records are written or deleted on homeservers
    MaxRaceOps,  \* the same, in a run where handlers overlap
    MaxFaults    \* how many writes fail

CONSTANTS Nothing

ASSUME PostHandlerAssumption ==
    /\ Home \in [Users -> LiveLoops] /\ "retry" \notin LiveLoops
    /\ Nothing \notin Contents
    /\ MaxOps \in Nat /\ MaxRaceOps \in Nat /\ MaxFaults \in Nat

Retry == "retry"
Loops == LiveLoops \cup {Retry}
Event == [type : {"put", "del", "mod"}, p : Posts]

VARIABLES
    graph,    \* the graph (PostGraph)
    index,    \* the index (PostIndex)
    hs,       \* the blob of each post on its author's homeserver
    ops,      \* how many times a homeserver record changed
    log,      \* [LiveLoops -> Seq(Event)]: the events not handled yet
    queue,    \* the events waiting for a retry
    job,      \* [Loops -> Job]: the handler each loop is running
    faults,   \* the writes that failed so far
    overlap,  \* whether two handlers ever ran at the same time
    torn,     \* posts whose last writes failed after the details were stored
    buried,   \* posts that a deletion turned into tombstones
    halfway   \* posts that a handler found half written or half removed

vars == <<graph, index, hs, ops, log, queue, job, faults, overlap, torn, buried, halfway>>
stores == <<graph, index>>
inputs == <<hs, ops, log, queue>>

(* A handler: where it is, its event, the details and relationships it is  *)
(* about, the details it found in the index, the writes of the join it is  *)
(* in, whether one of them failed, the posts whose counts it must drop,    *)
(* whether the post was in the index (post_in_index), who called del, and  *)
(* whether a newer entry of its URI was queued since it was taken.         *)
Idle ==
    [pc |-> "idle", ev |-> Nothing, body |-> NoPost, rels |-> NoParents,
     old |-> NoPost, todo |-> {}, failed |-> FALSE, touched |-> {},
     known |-> FALSE, ret |-> "event", next |-> "idle", newer |-> FALSE]

Init ==
    /\ graph = EmptyGraph
    /\ index = EmptyIndex
    /\ hs = [p \in Posts |-> Nothing]
    /\ ops = 0
    /\ log = [w \in LiveLoops |-> <<>>]
    /\ queue = {}
    /\ job = [w \in Loops |-> Idle]
    /\ faults = 0
    /\ overlap = FALSE
    /\ torn = {}
    /\ buried = {}
    /\ halfway = {}

-----------------------------------------------------------------------------
(* The homeservers: a user writes or deletes a post, the moderator tags it *)
(* for takedown, and an event line appears.                                *)
Logged(w, e) ==
    /\ ops < IF overlap THEN MaxRaceOps ELSE MaxOps
    /\ ops' = ops + 1
    /\ log' = [log EXCEPT ![w] = Append(@, e)]
    /\ UNCHANGED <<stores, queue, job, faults, overlap, torn, buried, halfway>>

UserPuts(p, c) ==
    /\ hs[p] # c
    /\ hs' = [hs EXCEPT ![p] = c]
    /\ Logged(Home[Author[p]], [type |-> "put", p |-> p])

UserDeletes(p) ==
    /\ hs[p] # Nothing
    /\ hs' = [hs EXCEPT ![p] = Nothing]
    /\ Logged(Home[Author[p]], [type |-> "del", p |-> p])

ModeratorTags(w, p) ==
    /\ Moderator[w]
    /\ Logged(w, [type |-> "mod", p |-> p])
    /\ UNCHANGED hs

-----------------------------------------------------------------------------
Busy(w)  == job[w].pc # "idle"
Post(w)  == job[w].ev.p
At(w, l) == job[w].pc = l

(* DefaultEventHandler::handle: dispatch.  del has no check in front.      *)
FirstStep(e) ==
    CASE e.type = "put" -> "check" [] e.type = "del" -> "find" [] e.type = "mod" -> "record"

Raced(race) ==
    /\ race => ops <= MaxRaceOps
    /\ overlap' = (overlap \/ race)

Start(w, e) ==
    /\ ~Busy(w)
    /\ job' = [job EXCEPT ![w] = [Idle EXCEPT !.pc = FirstStep(e), !.ev = e]]
    /\ Raced(\E v \in Loops \ {w} : Busy(v))
    /\ UNCHANGED <<stores, inputs, faults, torn, buried>>

Take(w) ==
    \/ w # Retry /\ log[w] # <<>> /\ Start(w, Head(log[w]))
    \/ w = Retry /\ \E e \in queue : Start(w, e)

(* The event is passed, or dropped from the queue; the retry loop drops    *)
(* only the entry it took (the nonce of remove_if_current).                *)
Finish(w) ==
    /\ job' = [job EXCEPT ![w] = Idle]
    /\ log' = IF w = Retry THEN log ELSE [log EXCEPT ![w] = Tail(@)]
    /\ queue' = IF w = Retry /\ ~job[w].newer THEN queue \ {job[w].ev} ELSE queue
    /\ UNCHANGED <<hs, ops, faults, overlap, torn, buried>>

(* The URI of an event of the moderator is the tag's, not the post's.      *)
SameUri(e, f) == e.p = f.p /\ (e.type = "mod" <=> f.type = "mod")

(* A missing dependency queues the event, one entry per URI, which a       *)
(* retry of an older entry leaves alone.                                   *)
Requeue(w) ==
    /\ job' = [v \in Loops |->
                 IF v = w THEN Idle
                 ELSE [job[v] EXCEPT !.newer =
                          @ \/ (v = Retry /\ Busy(v) /\ SameUri(job[v].ev, job[w].ev))]]
    /\ log' = IF w = Retry THEN log ELSE [log EXCEPT ![w] = Tail(@)]
    /\ queue' = IF job[w].newer THEN queue
                ELSE {e \in queue : ~SameUri(e, job[w].ev)} \cup {job[w].ev}
    /\ UNCHANGED <<hs, ops, faults, overlap, torn, buried>>

(* The step went through (k = Full), or its write failed after k keys and  *)
(* the whole handling is given up.                                         *)
Proceed(w, k, j) ==
    /\ \/ k = Full /\ job' = [job EXCEPT ![w] = j] /\ UNCHANGED faults
       \/ /\ k < Full /\ faults < MaxFaults
          /\ faults' = faults + 1
          /\ job' = [job EXCEPT ![w] = Idle]
    /\ buried' = IF job'[w].body = Tombstone THEN buried \cup {Post(w)} ELSE buried
    /\ UNCHANGED <<inputs, overlap, torn>>
Goto(w, l) == [job[w] EXCEPT !.pc = l, !.todo = {}]

-----------------------------------------------------------------------------
(* handle_put_event: the takedown check, the fetch, the handler, the       *)
(* takedown check again.                                                   *)
RemoveIfTakenDown(w) ==
    /\ At(w, "check") \/ At(w, "recheck")
    /\ Proceed(w, Full,
          IF IsTakenDown(graph, Post(w))
          THEN [Idle EXCEPT !.pc = "find", !.ev = job[w].ev, !.ret = job[w].pc,
                            !.newer = job[w].newer]
          ELSE IF At(w, "check") THEN Goto(w, "fetch") ELSE Goto(w, "store"))
    /\ UNCHANGED stores

(* The blob is the one the homeserver has now; a 404 is not retried.       *)
Fetch(w) ==
    /\ At(w, "fetch")
    /\ IF hs[Post(w)] = Nothing THEN Finish(w)
       ELSE Proceed(w, Full,
                [job[w] EXCEPT !.pc = "graph", !.body = FromHomeserver(hs[Post(w)]),
                    !.rels = [replied |-> Replied[Post(w)], reposted |-> Reposted[Post(w)]]])
    /\ UNCHANGED stores

(* Once written: back to the second check, or to whoever called del.       *)
AfterPut(w) ==
    IF job[w].ret = "event" /\ job[w].ev.type = "put" THEN Goto(w, "recheck") ELSE Goto(w, "store")

(* sync_put_details: the graph first.                                      *)
PutToGraph(w) ==
    /\ At(w, "graph")
    /\ LET p == Post(w)
           outcome == CreatePostOutcome(graph, p, job[w].rels)
       IN \/ outcome = "MissingDependency" /\ Requeue(w) /\ UNCHANGED stores
          \/ /\ outcome # "MissingDependency"
             /\ \E k \in {0, Full} :
                  /\ graph' = IF k = Full THEN CreatePost(graph, p, job[w].body, job[w].rels)
                              ELSE graph
                  /\ Proceed(w, k, Goto(w, IF outcome = "Updated" THEN "existing" ELSE "mentions"))
             /\ UNCHANGED index

IsCollection(d) == d.c \in Collections

(* The post existed: an edit, or the recovery of an interrupted put.       *)
Existing(w) ==
    /\ At(w, "existing")
    /\ LET d == index.details[Post(w)]
       IN Proceed(w, Full,
            IF d = NoPost THEN Goto(w, "recover")
            ELSE [job[w] EXCEPT !.old = d, !.next = "edit",
                     !.pc = IF IsCollection(d) \/ IsCollection(job[w].body)
                            THEN "edges" ELSE "edit"])
    /\ UNCHANGED stores

(* sync_collected_edges: the edges, then the counts of what they touched.  *)
SyncCollectedEdges(w) ==
    /\ At(w, "edges")
    /\ LET p == Post(w)
           derived == job[w].body
           items == IF derived = NoPost THEN {} ELSE Items[derived.c]
       IN \E k \in {0, Full} :
            /\ graph' = IF k = Full THEN SyncCollectionItems(graph, p, items, derived) ELSE graph
            /\ Proceed(w, k, [job[w] EXCEPT !.pc = "touched",
                              !.touched = TouchedItems(graph, p, items, derived)])
    /\ UNCHANGED index

InvalidateTouched(w) ==
    /\ At(w, "touched")
    /\ \E k \in {0, Full} :
         /\ index' = IF k = Full THEN Invalidate(index, job[w].touched) ELSE index
         /\ Proceed(w, k, [job[w] EXCEPT !.pc = job[w].next, !.touched = {}])
    /\ UNCHANGED graph

(* sync_edit: the new details, then those who linked to the post and the   *)
(* author of its parent are told.                                          *)
SyncEdit(w) ==
    /\ At(w, "edit")
    /\ IF IsDifferentThan(job[w].old, job[w].body)
       THEN \E k \in {0, Full} :
              /\ index' = PutDetails(index, Post(w), job[w].body, {}, TRUE, k)
              /\ Proceed(w, k, Goto(w, "tell"))
       ELSE Proceed(w, Full, AfterPut(w)) /\ UNCHANGED index
    /\ UNCHANGED graph

ChangedPost(w) ==
    /\ At(w, "tell")
    /\ LET p == Post(w)
           kind == IF job[w].body.deleted THEN "deleted" ELSE "edited"
           linked == Notify(index, Author[p], LinkedUsers(graph, p), kind, p)
           parents == {Author[q] : q \in job[w].rels.replied}
       IN \E k \in {0, 1, Full} :
            /\ index' = CASE k = 0 -> index [] k = 1 -> linked
                          [] k = Full -> Notify(linked, Author[p], parents, kind, p)
            /\ Proceed(w, k, AfterPut(w))
    /\ UNCHANGED graph

-----------------------------------------------------------------------------
(* The post is new: mentions, collected edges, its counts, its parents,    *)
(* and last its relationships and details.                                 *)
PutMentions(w) ==
    /\ At(w, "mentions") \/ At(w, "remention")
    /\ LET p == Post(w)
           us == Mentions[job[w].body.c]
           fresh == At(w, "mentions")
       IN \E k \in IF us = {} THEN {Full} ELSE {0, 1, Full} :
            /\ graph' = IF k >= 1 THEN CreateMentions(graph, p, us) ELSE graph
            /\ index' = IF k = Full THEN Notify(index, Author[p], us, "mention", p) ELSE index
            /\ Proceed(w, k, [job[w] EXCEPT
                    !.pc = IF fresh /\ ~IsCollection(job[w].body) THEN "counts" ELSE "edges",
                    !.next = IF fresh THEN "counts" ELSE "reindex"])

(* The next block of sync_put_details, with the writes it joins.           *)
Block(w, l) ==
    [job[w] EXCEPT !.pc = l,
        !.todo = CASE l = "reply"   -> {"uncount", "bump", "thread", "tell"}
                   [] l = "repost"  -> {"uncount", "bump", "tell"}
                   [] l = "finish"  -> {"rel", "details"}
                   [] l = "reindex" -> {"details", "rel", "counts"}
                   [] l = "unreply" -> {"bump", "tell"}
                   [] l = "unrepost" -> {"bump", "tell"}]
AfterCounts(w) ==
    IF job[w].rels.replied # {} THEN Block(w, "reply")
    ELSE IF job[w].rels.reposted # {} THEN Block(w, "repost") ELSE Block(w, "finish")
AfterReply(w) ==
    IF job[w].rels.reposted # {} THEN Block(w, "repost") ELSE Block(w, "finish")

PutDefaultCounts(w) ==
    /\ At(w, "counts")
    /\ LET p == Post(w)
           isReply == job[w].rels.replied # {}
       IN IF index.counts[p] = NoCounts
          THEN \E k \in {0, 1, Full} :
                 /\ index' = PutCounts(index, p, [links |-> 0, collections |-> 0], isReply, k)
                 /\ Proceed(w, k, AfterCounts(w))
          ELSE Proceed(w, Full, AfterCounts(w)) /\ UNCHANGED index
    /\ UNCHANGED graph

(* A parent's score moves only if the parent is a root post; a parent that *)
(* is not known at all counts as a reply.                                  *)
BumpParents(x, qs) ==
    LET q == CHOOSE q \in qs : TRUE
        y == FillRelationships(x, graph, q)
    IN IF y.rel[q] # NoRel /\ y.rel[q].replied = {} THEN Incr(y, q, 1) ELSE y

FillParent(x, qs) == LET q == CHOOSE q \in qs : TRUE IN FillDetails(x, graph, q)

(* One write of the join at label l, in full: of a new post, ...           *)
LinkEffect(p, l, qs, a) ==
    CASE a = "uncount" -> Invalidate(index, qs)
      [] a = "bump"    -> BumpParents(index, qs)
      [] a = "thread"  -> [index EXCEPT !.thread = @ \cup (qs \X {p})]
      [] a = "tell"    -> Notify(FillParent(index, qs), Author[p], {Author[q] : q \in qs}, l, p)

(* ... of a post that is deleted, where only the first attempt counts, ... *)
UnlinkEffect(p, known, qs, a) ==
    IF ~known THEN index
    ELSE CASE a = "bump" -> Incr(index, CHOOSE q \in qs : TRUE, -1)
           [] a = "tell" -> Notify(index, Author[p], {Author[q] : q \in qs}, "deleted", p)

(* ... and of one that is restored from the graph.                         *)
ReindexEffect(p, a) ==
    LET r == GraphRelationships(graph, p)
    IN IF ~Exists(graph, p) THEN index
       ELSE CASE a = "rel"    -> PutRelationships(index, p, r, Full)
              [] a = "counts" -> PutCounts(index, p, GraphCounts(graph, p), r.replied # {}, Full)

JoinEffect(w, l, a) ==
    LET p == Post(w)
        r == job[w].rels
        qs == IF l \in {"reply", "unreply"} THEN r.replied ELSE r.reposted
    IN CASE l \in {"reply", "repost"}          -> LinkEffect(p, l, qs, a)
         [] l \in {"unreply", "unrepost"}      -> UnlinkEffect(p, job[w].known, qs, a)
         [] a = "details"                      -> PutDetails(index, p, job[w].body, r.replied, FALSE, Full)
         [] a = "rel" /\ l = "finish"          -> PutRelationships(index, p, r, Full)
         [] a # "details" /\ l = "reindex"     -> ReindexEffect(p, a)

(* What a failing write of a join leaves behind: the keys it got to.       *)
JoinPartial(w, a) ==
    IF a = "details"
    THEN {PutDetails(index, Post(w), job[w].body, job[w].rels.replied, FALSE, k) : k \in 0..2}
    ELSE {index}

AfterJoin(w) ==
    CASE job[w].pc = "reply"    -> AfterReply(w)
      [] job[w].pc = "repost"   -> Block(w, "finish")
      [] job[w].pc = "unreply"  ->
            IF job[w].rels.reposted # {} THEN Block(w, "unrepost") ELSE Goto(w, "unindex")
      [] job[w].pc = "unrepost" -> Goto(w, "unindex")
      [] OTHER                  -> AfterPut(w)

(* The join ends when the last of its writes has; one that failed fails    *)
(* the handler only then.                                                  *)
JoinWrite(w, a) ==
    LET left == job[w].todo \ {a}
        After(failed) ==
            IF left # {} THEN [job[w] EXCEPT !.todo = left, !.failed = failed]
            ELSE IF failed THEN Idle ELSE AfterJoin(w)
    IN /\ a \in job[w].todo
       /\ \/ /\ index' = JoinEffect(w, job[w].pc, a)
             /\ job' = [job EXCEPT ![w] = After(job[w].failed)]
             /\ UNCHANGED faults
          \/ /\ faults < MaxFaults
             /\ faults' = faults + 1
             /\ index' \in JoinPartial(w, a)
             /\ job' = [job EXCEPT ![w] = After(TRUE)]
       /\ torn' = IF left = {} /\ ~Busy(w)' /\ job[w].pc \in {"finish", "reindex"}
                     /\ index'.details[Post(w)] # NoPost
                  THEN torn \cup {Post(w)} ELSE torn
       /\ UNCHANGED <<graph, inputs, overlap, buried>>

-----------------------------------------------------------------------------
(* recover_post_index_state: the details as the graph has them, the        *)
(* parents' counts and notifications, the mentions, the edges, and the     *)
(* join "reindex".  A tombstone notifies nobody.                           *)
RecoverRead(w) ==
    /\ At(w, "recover")
    /\ LET p == Post(w)
       IN IF Exists(graph, p)
          THEN Proceed(w, Full, [job[w] EXCEPT !.pc = "parents", !.body = graph.post[p],
                                                !.rels = GraphRelationships(graph, p)])
          ELSE Requeue(w)
    /\ UNCHANGED stores

(* Faulty variant: the recovery drops the counts and tells nobody.         *)
RecoverParentsSilently(w) ==
    /\ At(w, "parents")
    /\ \E k \in {0, Full} :
         /\ index' = IF k < Full THEN index
                     ELSE Invalidate(index, job[w].rels.replied \cup job[w].rels.reposted)
         /\ Proceed(w, k, Goto(w, "remention"))
    /\ UNCHANGED graph

RecoverParents(w) ==
    /\ At(w, "parents")
    /\ LET p == Post(w)
           Tell(x, qs, kind) ==
               IF qs = {} \/ job[w].body.deleted THEN x
               ELSE Notify(FillParent(x, qs), Author[p], {Author[q] : q \in qs}, kind, p)
           Parent(x, qs, kind, k) ==
               LET dropped == IF k >= 1 THEN Invalidate(x, qs) ELSE x
               IN IF k >= 2 THEN Tell(dropped, qs, kind) ELSE dropped
           r == job[w].rels
       IN \E k \in {0, 1, 2, Full} :
            /\ index' = IF k < Full THEN Parent(index, r.replied, "reply", k)
                        ELSE Parent(Parent(index, r.replied, "reply", 2), r.reposted, "repost", 2)
            /\ Proceed(w, k, Goto(w, "remention"))
    /\ UNCHANGED graph

Reindex(w) ==
    /\ At(w, "reindex") /\ job[w].todo = {}
    /\ Proceed(w, Full, Block(w, "reindex"))
    /\ UNCHANGED stores

-----------------------------------------------------------------------------
(* post::del: nothing to do for a post the graph lacks, a tombstone for    *)
(* one that is linked to, and otherwise sync_del.                          *)
Find(w) ==
    /\ At(w, "find")
    /\ LET p == Post(w)
           y == FillRelationships(index, graph, p)
       IN CASE ~Exists(graph, p) ->
                 IF job[w].ret = "event" THEN Finish(w) /\ UNCHANGED stores
                 ELSE Proceed(w, Full, Goto(w, "store")) /\ UNCHANGED stores
            [] Exists(graph, p) /\ PostIsSafeToDelete(graph, p) ->
                 Proceed(w, Full, Goto(w, "gate")) /\ UNCHANGED stores
            [] OTHER ->
                 /\ index' = y
                 /\ Proceed(w, Full, [job[w] EXCEPT !.pc = "graph", !.body = Tombstone,
                                         !.rels = [replied |-> y.rel[p].replied, reposted |-> {}]])
                 /\ UNCHANGED graph

(* sync_del.  Whether the relationships are indexed tells a first attempt  *)
(* from a later one; they go first, so that only one attempt lowers the    *)
(* parents' scores and notifies.                                           *)
Gate(w) ==
    /\ At(w, "gate")
    /\ LET p == Post(w)
           known == index.rel[p] # NoRel
       IN /\ Proceed(w, Full, [job[w] EXCEPT
                !.pc = IF known THEN "ungate" ELSE "uncount", !.known = known,
                !.rels = IF known THEN index.rel[p]
                         ELSE IF Exists(graph, p) THEN GraphRelationships(graph, p)
                         ELSE NoParents])
          /\ index' = IF known THEN FillDetails(index, graph, p) ELSE index
    /\ UNCHANGED graph

Ungate(w) ==
    /\ At(w, "ungate")
    /\ \E k \in {0, Full} :
         /\ index' = IF k = Full THEN DeleteRelationships(index, Post(w)) ELSE index
         /\ Proceed(w, k, Goto(w, "uncount"))
    /\ UNCHANGED graph

DropCounts(w) ==
    /\ At(w, "uncount")
    /\ \E k \in {0, 1, Full} :
         /\ index' = DeleteCounts(index, Post(w), job[w].rels.replied = {}, k)
         /\ Proceed(w, k, CASE job[w].rels.replied # {}  -> Block(w, "unreply")
                           [] job[w].rels.replied = {} /\ job[w].rels.reposted # {} ->
                                Block(w, "unrepost")
                           [] OTHER -> Goto(w, "unindex"))
    /\ UNCHANGED graph

Unindex(w) ==
    /\ At(w, "unindex")
    /\ \E k \in 0..Full :
         /\ index' = DeleteDetails(index, Post(w), job[w].rels.replied, k)
         /\ Proceed(w, k, [job[w] EXCEPT !.pc = "edges", !.body = NoPost, !.next = "drop"])
    /\ UNCHANGED graph

Drop(w) ==
    /\ At(w, "drop")
    /\ \E k \in {0, Full} :
         /\ graph' = IF k = Full THEN DeletePost(graph, Post(w)) ELSE graph
         /\ Proceed(w, k, Goto(w, "orphan"))
    /\ UNCHANGED index

InvalidateParents(w) ==
    /\ At(w, "orphan")
    /\ \E k \in {0, Full} :
         /\ index' = IF k = Full
                     THEN Invalidate(index, job[w].rels.replied \cup job[w].rels.reposted)
                     ELSE index
         /\ Proceed(w, k, Goto(w, "store"))
    /\ UNCHANGED graph

-----------------------------------------------------------------------------
(* Moderation::apply_moderation: remembered first, then removed.           *)
RecordTheTakedown(w) ==
    /\ At(w, "record")
    /\ \E k \in {0, Full} :
         /\ graph' = IF k = Full THEN RecordTakedown(graph, Post(w)) ELSE graph
         /\ Proceed(w, k, Goto(w, "find"))
    /\ UNCHANGED index

(* The handler went through: the event line is stored, and the event is    *)
(* done with only then.                                                    *)
StoreEvent(w) ==
    /\ At(w, "store")
    /\ \/ Finish(w)
       \/ Proceed(w, 0, Idle)
    /\ UNCHANGED stores

(* Every event was handled, and none waits for a retry.                    *)
Quiet ==
    /\ \A w \in Loops : ~Busy(w)
    /\ \A w \in LiveLoops : log[w] = <<>>
    /\ queue = {}

(* The cached counts live 600 seconds; a request reads them through, which *)
(* may be between two steps of a handler or of its retries.                *)
ExpireCounts(p) ==
    /\ index.counts[p] # NoCounts
    /\ index' = Invalidate(index, {p})
    /\ UNCHANGED <<graph, inputs, job, faults, overlap, torn, buried, halfway>>
ViewCounts(p) ==
    /\ index.counts[p] = NoCounts /\ Exists(graph, p)
    /\ index' = [index EXCEPT !.counts[p] = GraphCounts(graph, p)]
    /\ Raced(~Quiet)
    /\ UNCHANGED <<graph, inputs, job, faults, torn, buried, halfway>>

Handle(w) ==
    \/ Take(w) \/ RemoveIfTakenDown(w) \/ Fetch(w)
    \/ PutToGraph(w) \/ Existing(w) \/ SyncCollectedEdges(w) \/ InvalidateTouched(w)
    \/ SyncEdit(w) \/ ChangedPost(w) \/ PutMentions(w) \/ PutDefaultCounts(w)
    \/ \E a \in job[w].todo : JoinWrite(w, a)
    \/ RecoverRead(w) \/ RecoverParents(w) \/ Reindex(w)
    \/ Find(w) \/ Gate(w) \/ Ungate(w) \/ DropCounts(w) \/ Unindex(w) \/ Drop(w)
    \/ InvalidateParents(w) \/ RecordTheTakedown(w) \/ StoreEvent(w)

(* History: a post's details are stored elsewhere than by its own put, by  *)
(* the read-through of a handler, or a deletion that had begun to remove   *)
(* its post from the index ends in a tombstone.                            *)
Observe(w) ==
    LET filled == {q \in Posts : /\ index.details[q] = NoPost /\ index'.details[q] # NoPost
                                 /\ job[w].pc \notin {"edit", "finish", "reindex"}}
        kept == {q \in Posts : /\ At(w, "find") /\ q = Post(w) /\ At(w, "graph")'
                               /\ index.rel[q] = NoRel /\ index.details[q] # NoPost}
    IN halfway' = halfway \cup filled \cup kept

Next ==
    \/ \E p \in Posts : UserDeletes(p) \/ \E c \in Contents \ {Empty} : UserPuts(p, c)
    \/ \E w \in LiveLoops, p \in Posts : ModeratorTags(w, p)
    \/ \E w \in Loops : Handle(w) /\ Observe(w)
    \/ \E p \in Posts : ViewCounts(p) \/ ExpireCounts(p)

Spec == Init /\ [][Next]_vars

-----------------------------------------------------------------------------
(* The graph, the index and the handlers hold what their types allow; a    *)
(* cached count is never negative.                                         *)
TypeOK ==
    /\ GraphType(graph) /\ IndexType(index)
    /\ hs \in [Posts -> (Contents \ {Empty}) \cup {Nothing}]
    /\ log \in [LiveLoops -> Seq(Event)]
    /\ queue \subseteq Event
    /\ \A w \in Loops : job[w].body \in Details \cup {NoPost}

(* Once everything was handled, the index says what the graph says: every  *)
(* post is served with its current details from exactly the feeds it       *)
(* belongs to, and its relationships are indexed as long as it exists.     *)
(* This holds wherever a handler was interrupted and run again             *)
(* (recover_post_index_state, the order of sync_del), except for handlers  *)
(* that overlapped; for a failure within the very last writes of a put,    *)
(* after the details key that makes a retry take the edit path (torn); and *)
(* for posts whose interrupted put or deletion another handler met midway  *)
(* (halfway).  Cached counts agree too, as long as no write failed.        *)
IndexAgrees ==
    Quiet /\ ~overlap => \A p \in Posts \ (torn \cup halfway) :
        LET parents == GraphRelationships(graph, p).replied
        IN /\ index.details[p] = graph.post[p]
           /\ p \in index.timeline <=> Exists(graph, p) /\ parents = {}
           /\ p \in index.userPosts <=> Exists(graph, p) /\ parents = {}
           /\ p \in index.userReplies <=> parents # {}
           /\ {q \in Posts : <<q, p>> \in index.thread} = parents
           /\ index.score[p] # NoScore <=> Exists(graph, p) /\ parents = {}
           /\ index.rel[p] = NoRel <=> ~Exists(graph, p)
           /\ faults = 0 /\ index.counts[p] # NoCounts =>
                 index.counts[p].links = LinkCount(graph, p)

(* The engagement score of a root post is the number of its replies and    *)
(* reposts, off by at most the two increments one interrupted handler may  *)
(* have lost or kept: no retry applies an increment or a decrement again.  *)
ScoreDrift ==
    Quiet /\ ~overlap => \A p \in Posts : index.score[p] # NoScore =>
        LET drift == index.score[p] - LinkCount(graph, p)
        IN drift <= 2 * faults /\ -drift <= 2 * faults

Gone(d) == d \in {NoPost, Tombstone}

(* Whatever was queued, interrupted and replayed in whatever order, the    *)
(* graph ends with what the homeserver has: a put reads the blob when it   *)
(* is handled, so an older event of the URI does no harm.  A post that was *)
(* taken down is not in it, however the loops that put it and took it down *)
(* interleaved.                                                            *)
FollowsHomeserver ==
    Quiet =>
        /\ \A p \in graph.takedown : Gone(graph.post[p])
        /\ ~overlap => \A p \in Posts \ graph.takedown :
             IF hs[p] = Nothing THEN Gone(graph.post[p])
             ELSE graph.post[p] = FromHomeserver(hs[p])

(* A reply that is served was announced to the author it replies to, also  *)
(* when the put that should have told him was interrupted, unless another  *)
(* handler's read-through stored its details before it was (halfway), or   *)
(* it was a tombstone once (buried): a put of that is an edit.             *)
Announced ==
    ~overlap => \A p \in Posts \ (buried \cup halfway) :
        index.details[p] # NoPost /\ ~index.details[p].deleted =>
            \A q \in Replied[p] : Author[q] # Author[p] =>
                [to |-> Author[q], kind |-> "reply", post |-> p] \in index.note

(* "Whatever order events arrive in, a record the moderator took down      *)
(* stays down" (handle_put_event): neither the graph nor the index serves  *)
(* it.                                                                     *)
TakedownHolds ==
    Quiet => \A p \in graph.takedown : Gone(graph.post[p]) /\ Gone(index.details[p])
=============================================================================

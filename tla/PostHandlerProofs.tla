------------------------- MODULE PostHandlerProofs -------------------------
(***************************************************************************)
(* Proofs about the handlers of posts, for any posts, loops and bounds.    *)
(*                                                                         *)
(* A post that was taken down waits while an event of it, or a handler     *)
(* that has its removal ahead, is left; it is gone from the graph or       *)
(* waits.  A post is due while an event that will be acted upon is left;   *)
(* the graph has what the homeserver has, or the post is due.  And a post  *)
(* gets its details only from a handler that has told the parents, but     *)
(* for a read-through by the handler of another post.                      *)
(***************************************************************************)
EXTENDS PostHandler, TLAPS

(* What the graph, the index and a handler hold of a post.                 *)
Body == Details \cup {NoPost}

(* The graph and the index are records of these fields.                    *)
IsGraph(g) ==
    g = [post |-> g.post, replied |-> g.replied, reposted |-> g.reposted,
         collected |-> g.collected, mentioned |-> g.mentioned, takedown |-> g.takedown]
IsIndex(x) ==
    x = [details |-> x.details, rel |-> x.rel, counts |-> x.counts, score |-> x.score,
         timeline |-> x.timeline, userPosts |-> x.userPosts, thread |-> x.thread,
         userReplies |-> x.userReplies, note |-> x.note]

(* The relationships a post has by nature.                                 *)
Parents(p) == [replied |-> Replied[p], reposted |-> Reposted[p]]

(* Relationships that are among them.                                      *)
Within(r, p) == r.replied \subseteq Replied[p] /\ r.reposted \subseteq Reposted[p]

(* The graph's fields, and that its edges are edges of their posts.        *)
GraphOK(g) ==
    /\ IsGraph(g)
    /\ g.post \in [Posts -> Body]
    /\ g.takedown \subseteq Posts
    /\ \A p, q : <<p, q>> \in g.replied => p \in Posts /\ q \in Replied[p]
    /\ \A p, q : <<p, q>> \in g.reposted => p \in Posts /\ q \in Reposted[p]

(* The index's fields; the relationships are those of their posts.         *)
IndexOK(x) ==
    /\ IsIndex(x)
    /\ x.details \in [Posts -> Body]
    /\ x.rel \in [Posts -> Relationships \cup {NoRel}]
    /\ \A p \in Posts : x.rel[p] # NoRel => Within(x.rel[p], p)

(* Where a handler may be.                                                 *)
Points == {"idle", "check", "recheck", "fetch", "graph", "existing", "edges", "touched", "edit",
           "tell", "mentions", "remention", "counts", "reply", "repost", "finish", "recover",
           "parents", "reindex", "find", "gate", "ungate", "uncount", "unreply", "unrepost",
           "unindex", "drop", "orphan", "record", "store"}

(* The writes of a join.                                                   *)
Writes == {"uncount", "bump", "thread", "tell", "rel", "details", "counts"}

(* A handler.                                                              *)
JobType ==
    [pc : Points, ev : Event \cup {Nothing}, body : Body, rels : Relationships, old : Body,
     todo : SUBSET Writes, failed : BOOLEAN, touched : SUBSET Posts, known : BOOLEAN,
     ret : {"event", "check", "recheck"}, next : Points, newer : BOOLEAN]

(* What the variables hold.                                                *)
TypeInv ==
    /\ GraphOK(graph) /\ IndexOK(index)
    /\ hs \in [Posts -> (Contents \ {Empty}) \cup {Nothing}]
    /\ log \in [LiveLoops -> Seq(Event)]
    /\ queue \subseteq Event
    /\ job \in [Loops -> JobType]
    /\ overlap \in BOOLEAN
    /\ buried \subseteq Posts /\ halfway \subseteq Posts

(* Where a handler stands.                                                 *)
Removes(j) ==
    \/ j.pc \in {"find", "gate", "ungate", "uncount", "unreply", "unrepost", "unindex", "drop"}
    \/ j.pc \in {"edges", "touched"} /\ j.next = "drop"
IsWriting(j) ==
    \/ j.pc \in {"existing", "edit", "tell", "mentions", "remention", "counts", "reply", "repost",
                 "finish", "recover", "parents", "reindex"}
    \/ j.pc \in {"edges", "touched"} /\ j.next # "drop"

(* The handler of a put, not called for a removal.                         *)
IsPut(j) == j.ev.type = "put" /\ j.ret = "event"

(* A handler that has the takedown check, or a removal, still ahead.       *)
Obliged(j) ==
    \/ j.pc \in {"check", "record", "graph", "recheck"}
    \/ Removes(j)
    \/ IsWriting(j) /\ IsPut(j)

(* What a handler has found out by the time it is at a point.              *)
JobOK(j) ==
    /\ j.pc # "idle" => j.ev \in Event /\ Within(j.rels, j.ev.p)
    /\ j.pc \in {"check", "fetch", "recheck"} => IsPut(j)
    /\ j.pc = "record" => j.ev.type = "mod"
    /\ Removes(j) \/ j.pc = "orphan" => ~IsPut(j)
    /\ j.pc \in {"edges", "touched"} => j.next \in {"drop", "edit", "counts", "reindex"}
    /\ j.pc = "graph" /\ IsPut(j) => j.rels = Parents(j.ev.p) /\ j.body \in Details /\ ~j.body.deleted
    /\ j.pc = "graph" /\ ~IsPut(j) => j.body = Tombstone
    /\ IsWriting(j) => j.body \in Details
    /\ j.pc \in {"reply", "unreply"} => j.rels.replied # {}
    /\ j.pc \in {"repost", "unrepost"} => j.rels.reposted # {}
    /\ j.todo # {} => j.pc \in {"reply", "repost", "finish", "reindex", "unreply", "unrepost"}
    /\ j.pc = "reply" => j.todo \subseteq {"uncount", "bump", "thread", "tell"}
    /\ j.pc = "repost" => j.todo \subseteq {"uncount", "bump", "tell"}
    /\ j.pc = "finish" => j.todo \subseteq {"rel", "details"}
    /\ j.pc = "reindex" => j.todo \subseteq {"rel", "details", "counts"}
    /\ j.pc \in {"unreply", "unrepost"} => j.todo \subseteq {"bump", "tell"}

(* The event of a handler is still where it was taken from, or has a newer *)
(* entry.                                                                  *)
SourceOK(w) ==
    Busy(w) => IF w # Retry THEN log[w] # <<>> /\ job[w].ev = Head(log[w])
               ELSE IF job[w].newer THEN \E e \in queue : SameUri(e, job[w].ev)
               ELSE job[w].ev \in queue

(* Every handler.                                                          *)
JobsInv ==
    \A w \in Loops : /\ JobOK(job[w])
                     /\ SourceOK(w)
                     /\ job[w].newer => w = Retry

(* An event of the post waits, or a handler will still look at the         *)
(* takedown.                                                               *)
Waits(p) ==
    \/ \E w \in LiveLoops : \E i \in 1..Len(log[w]) : log[w][i].p = p /\ (i = 1 => ~Busy(w))
    \/ \E e \in queue : e.p = p /\ (Busy(Retry) /\ job[Retry].ev = e => job[Retry].newer)
    \/ \E w \in Loops : Busy(w) /\ Post(w) = p /\ Obliged(job[w])

(* A post that was taken down is gone or waits for its removal, and a      *)
(* handler that removes a post does so because of a takedown.              *)
TakedownInv ==
    /\ \A p \in graph.takedown : Gone(graph.post[p]) \/ Waits(p)
    /\ \A w \in Loops : Busy(w) /\ job[w].pc # "record" /\ (job[w].ev.type = "mod" \/ job[w].ret # "event")
                            => Post(w) \in graph.takedown

(* The log and the homeserver.                                             *)
PutOf(p) == [type |-> "put", p |-> p]
DelOf(p) == [type |-> "del", p |-> p]
HomeOf(p) == Home[Author[p]]

(* The last event of a post in its log says what the homeserver has.       *)
LogOrder ==
    /\ \A p \in Posts : LET l == log[HomeOf(p)] IN
         /\ hs[p] # Nothing => \A i \in 1..Len(l) : l[i] = DelOf(p) => \E j \in i + 1..Len(l) : l[j] = PutOf(p)
         /\ hs[p] = Nothing => \A i \in 1..Len(l) : l[i] = PutOf(p) => \E j \in i + 1..Len(l) : l[j] = DelOf(p)
    /\ \A w \in LiveLoops : \A i \in 1..Len(log[w]) :
         log[w][i].type # "mod" => w = HomeOf(log[w][i].p)

(* One handler at a time.                                                  *)
Sequential ==
    /\ \A v, w \in Loops : Busy(v) /\ Busy(w) => v = w
    /\ \A w \in Loops : ~job[w].newer
    /\ \A e \in queue : e.type = "put"

(* Every post of the graph has its edges, and every edge its posts.        *)
EdgesHold ==
    /\ \A p \in Posts : Exists(graph, p) =>
          GraphRelationships(graph, p) = Parents(p)
    /\ \A e \in graph.replied \cup graph.reposted : Exists(graph, e[1]) /\ Exists(graph, e[2])

(* What a handler found in the graph when it passed the check for it.      *)
StandsOn(w) ==
    LET j == job[w]
        p == j.ev.p
    IN /\ j.pc = "graph" /\ ~IsPut(j) => Exists(graph, p)
       /\ j.pc \in {"existing", "recover"} => Exists(graph, p)
       /\ Removes(j) /\ j.pc # "find" =>
             Exists(graph, p) /\ \A e \in graph.replied \cup graph.reposted : e[2] # p
       /\ IsWriting(j) /\ IsPut(j) => j.rels = Parents(p)

(* The graph has what the homeserver has.                                  *)
Match(p) == IF hs[p] = Nothing THEN Gone(graph.post[p]) ELSE graph.post[p] = FromHomeserver(hs[p])

(* A handler that has still to write the post.                             *)
Works(j) == j.pc \in {"check", "fetch", "graph"} \/ Removes(j)

(* An event of the post will still be acted upon.                          *)
Due(p) ==
    \/ \E i \in 1..Len(log[HomeOf(p)]) : 
          /\ log[HomeOf(p)][i].p = p /\ log[HomeOf(p)][i].type # "mod"
          /\ i = 1 /\ Busy(HomeOf(p)) => Works(job[HomeOf(p)])
    \/ /\ hs[p] # Nothing /\ PutOf(p) \in queue
       /\ Busy(Retry) /\ Post(Retry) = p => Works(job[Retry])

(* A post is in agreement with its homeserver, or due.                     *)
DueInv == \A p \in Posts \ graph.takedown : Match(p) \/ Due(p)

(* A later event of the post than the one w handles.                       *)
Later(w, p) ==
    \E i \in 1..Len(log[HomeOf(p)]) :
        /\ log[HomeOf(p)][i].p = p /\ log[HomeOf(p)][i].type # "mod"
        /\ w = HomeOf(p) => i # 1

(* A blob that was read is the current one, or a later event waits.        *)
FreshInv ==
    \A w \in Loops : job[w].pc = "graph" /\ IsPut(job[w]) =>
        job[w].body = FromHomeserver(hs[Post(w)]) \/ Later(w, Post(w))

(* What holds as long as no two handlers overlapped.                       *)
SeqInv ==
    ~overlap => /\ Sequential /\ EdgesHold /\ DueInv /\ FreshInv
                /\ \A w \in Loops : Busy(w) => StandsOn(w)

(* A tombstone, in the graph, in the index or on its way, was buried.      *)
Buries(d, p) == d # NoPost /\ d.deleted => p \in buried
BuriedInv ==
    /\ \A p \in Posts : Buries(graph.post[p], p) /\ Buries(index.details[p], p)
    /\ \A w \in Loops : Busy(w) =>
          /\ Buries(job[w].body, Post(w)) /\ Buries(job[w].old, Post(w))
          /\ job[w].pc = "graph" \/ IsWriting(job[w]) => IsPut(job[w]) \/ Post(w) \in buried

(* The authors of the parents were told.                                   *)
Told(p) == \A q \in Replied[p] : Author[q] # Author[p] =>
              [to |-> Author[q], kind |-> "reply", post |-> p] \in index.note

(* A handler past the point where it tells them.                           *)
HasTold(j) ==
    \/ j.pc \in {"edit", "tell", "repost", "finish", "remention", "reindex"}
    \/ j.pc \in {"edges", "touched"} /\ j.next \in {"edit", "reindex"}
    \/ j.pc = "reply" /\ "tell" \notin j.todo /\ ~j.failed

(* Details are stored only after the parents were told.                    *)
ToldInv ==
    ~overlap =>
      /\ \A w \in Loops : Busy(w) /\ HasTold(job[w]) /\ IsPut(job[w])
           /\ Post(w) \notin buried \cup halfway => Told(Post(w))
      /\ \A p \in Posts \ (buried \cup halfway) :
           index.details[p] # NoPost /\ ~index.details[p].deleted => Told(p)

(* The inductive invariant.                                                *)
PostInv == TypeInv /\ JobsInv /\ TakedownInv /\ LogOrder /\ SeqInv /\ BuriedInv /\ ToldInv

-----------------------------------------------------------------------------
(* The operators on the graph and on the index.                            *)

(* What the assumptions say of the constants.                              *)
LEMMA Nature == /\ Author \in [Posts -> Users] /\ Replied \in [Posts -> SUBSET Posts]
                /\ Reposted \in [Posts -> SUBSET Posts] /\ NoPost \notin Details
                /\ NoRel \notin Relationships /\ Home \in [Users -> LiveLoops]
                /\ Retry \notin LiveLoops /\ Nothing \notin Contents
                /\ Empty \in Contents /\ Tombstone \in Details /\ Idle \in JobType
                /\ Items \in [Contents -> SUBSET Posts] /\ Idle.pc = "idle"
<1>1. Idle \in JobType /\ Idle.pc = "idle"
  BY DEF Idle, JobType, Body, Points, Relationships, NoParents
<1> QED
  BY <1>1, PostGraphAssumption, PostHandlerAssumption, NoPostAssumption, NoRelAssumption
     DEF Retry, Tombstone, Details

(* The parts of the graph the invariants are about.                        *)
SameLinks(g, h) ==
    /\ h.post = g.post /\ h.replied = g.replied /\ h.reposted = g.reposted
    /\ h.takedown = g.takedown

(* Mentions are not among the links.                                       *)
LEMMA MentionsKeep ==
  ASSUME NEW g, GraphOK(g), NEW p, NEW us
  PROVE  GraphOK(CreateMentions(g, p, us)) /\ SameLinks(g, CreateMentions(g, p, us))
<1> DEFINE h == CreateMentions(g, p, us)
<1>0. IsGraph(g) BY DEF GraphOK
<1>1. IsGraph(h) /\ SameLinks(g, h)
  BY <1>0 DEF IsGraph, CreateMentions, SameLinks
<1> QED
  BY <1>1 DEF GraphOK, SameLinks

(* Neither are collected items.                                            *)
LEMMA CollectedKeep ==
  ASSUME NEW g, GraphOK(g), NEW p, NEW items, NEW d
  PROVE  /\ GraphOK(SyncCollectionItems(g, p, items, d))
         /\ SameLinks(g, SyncCollectionItems(g, p, items, d))
<1> DEFINE h == SyncCollectionItems(g, p, items, d)
<1>0. IsGraph(g) BY DEF GraphOK
<1>1. IsGraph(h) /\ SameLinks(g, h)
  BY <1>0 DEF IsGraph, SyncCollectionItems, SameLinks
<1> QED
  BY <1>1 DEF GraphOK, SameLinks

(* The graph once a post was created or updated: its details and its       *)
(* edges.                                                                  *)
LEMMA CreateFacts ==
  ASSUME NEW g, GraphOK(g), NEW p \in Posts, NEW d \in Details, NEW r \in Relationships, Within(r, p)
  PROVE  /\ GraphOK(CreatePost(g, p, d, r))
         /\ CreatePost(g, p, d, r).post = [g.post EXCEPT ![p] = d]
         /\ CreatePost(g, p, d, r).replied = g.replied \cup ({p} \X r.replied)
         /\ CreatePost(g, p, d, r).reposted = g.reposted \cup ({p} \X r.reposted)
         /\ CreatePost(g, p, d, r).takedown = g.takedown
<1> DEFINE h == CreatePost(g, p, d, r)
<1>0. IsGraph(g) BY DEF GraphOK
<1> DEFINE a == {p} \X r.replied
           b == {p} \X r.reposted
           k == [g.post EXCEPT ![p] = d]
<1>a. h = [g EXCEPT !.post = k, !.replied = @ \cup a, !.reposted = @ \cup b]
  BY DEF CreatePost
<1> HIDE DEF a, b, k
<1>b. /\ IsGraph(h) /\ h.post = k
      /\ h.replied = g.replied \cup a
      /\ h.reposted = g.reposted \cup b
      /\ h.takedown = g.takedown
  BY <1>0, <1>a DEF IsGraph
<1>1. /\ IsGraph(h) /\ h.post = [g.post EXCEPT ![p] = d]
      /\ h.replied = g.replied \cup ({p} \X r.replied)
      /\ h.reposted = g.reposted \cup ({p} \X r.reposted)
      /\ h.takedown = g.takedown
  BY <1>b DEF a, b, k
<1>2. h.post \in [Posts -> Body]
  BY <1>1 DEF GraphOK, Body
<1> HIDE DEF h
<1>3. \A x, y : <<x, y>> \in h.replied => x \in Posts /\ y \in Replied[x]
  BY <1>1 DEF GraphOK, Within
<1>4. \A x, y : <<x, y>> \in h.reposted => x \in Posts /\ y \in Reposted[x]
  BY <1>1 DEF GraphOK, Within
<1>5. GraphOK(h)
  BY <1>1, <1>2, <1>3, <1>4 DEF GraphOK
<1> QED
  BY <1>1, <1>5 DEF h

(* The graph once a post was deleted: the post and every edge at it are    *)
(* gone.                                                                   *)
LEMMA DropFacts ==
  ASSUME NEW g, GraphOK(g), NEW p \in Posts
  PROVE  /\ GraphOK(DeletePost(g, p))
         /\ DeletePost(g, p).post = [g.post EXCEPT ![p] = NoPost]
         /\ DeletePost(g, p).replied = {e \in g.replied : p \notin {e[1], e[2]}}
         /\ DeletePost(g, p).reposted = {e \in g.reposted : p \notin {e[1], e[2]}}
         /\ DeletePost(g, p).takedown = g.takedown
<1> DEFINE h == DeletePost(g, p)
<1>0. IsGraph(g) BY DEF GraphOK
<1> DEFINE a == {e \in g.replied : p \notin {e[1], e[2]}}
           b == {e \in g.reposted : p \notin {e[1], e[2]}}
           c == {e \in g.collected : p \notin {e[1], e[2]}}
           m == {e \in g.mentioned : e[1] # p}
           k == [g.post EXCEPT ![p] = NoPost]
<1>a. h = [g EXCEPT !.post = k, !.replied = a, !.reposted = b, !.collected = c, !.mentioned = m]
  BY DEF DeletePost
<1> HIDE DEF a, b, c, m, k
<1>b. /\ IsGraph(h) /\ h.post = k /\ h.replied = a /\ h.reposted = b
      /\ h.takedown = g.takedown
  BY <1>0, <1>a DEF IsGraph
<1>1. /\ IsGraph(h) /\ h.post = [g.post EXCEPT ![p] = NoPost]
      /\ h.replied = {e \in g.replied : p \notin {e[1], e[2]}}
      /\ h.reposted = {e \in g.reposted : p \notin {e[1], e[2]}}
      /\ h.takedown = g.takedown
  BY <1>b DEF a, b, k
<1>2. h.post \in [Posts -> Body]
  BY <1>1 DEF GraphOK, Body
<1> HIDE DEF h
<1>3. GraphOK(h)
  BY <1>1, <1>2 DEF GraphOK
<1> QED
  BY <1>1, <1>3 DEF h

(* The graph once a takedown was recorded.                                 *)
LEMMA RecordFacts ==
  ASSUME NEW g, GraphOK(g), NEW p \in Posts
  PROVE  /\ GraphOK(RecordTakedown(g, p))
         /\ RecordTakedown(g, p).post = g.post
         /\ RecordTakedown(g, p).replied = g.replied
         /\ RecordTakedown(g, p).reposted = g.reposted
         /\ RecordTakedown(g, p).takedown = g.takedown \cup {p}
<1> DEFINE h == RecordTakedown(g, p)
<1>0. IsGraph(g) BY DEF GraphOK
<1>1. /\ IsGraph(h) /\ h.post = g.post /\ h.replied = g.replied /\ h.reposted = g.reposted
      /\ h.takedown = g.takedown \cup {p}
  BY <1>0 DEF IsGraph, RecordTakedown
<1> HIDE DEF h
<1>3. GraphOK(h)
  BY <1>1 DEF GraphOK
<1> QED
  BY <1>1, <1>3 DEF h

(* The edges in the graph are those the post has by nature.                *)
LEMMA RelationshipsFacts ==
  ASSUME NEW g, GraphOK(g), NEW p \in Posts
  PROVE  GraphRelationships(g, p) \in Relationships /\ Within(GraphRelationships(g, p), p)
BY Nature DEF GraphOK, GraphRelationships, Relationships, Within

(* An operation on the index that leaves the details, the relationships    *)
(* and                                                                     *)
(* the notifications alone.                                                *)
Aside(x, y) == IndexOK(y) /\ y.details = x.details /\ y.rel = x.rel /\ y.note = x.note

(* Keys that are neither details nor relationships nor notifications.      *)
LEMMA AsideOK ==
  ASSUME NEW x, IndexOK(x), NEW y, IsIndex(y), y.details = x.details, y.rel = x.rel, y.note = x.note
  PROVE  Aside(x, y)
BY DEF Aside, IndexOK

(* Dropping cached counts.                                                 *)
LEMMA InvalidateAside ==
  ASSUME NEW x, IndexOK(x), NEW qs
  PROVE  Aside(x, Invalidate(x, qs))
<1> DEFINE y == Invalidate(x, qs)
<1>1. IsIndex(y) /\ y.details = x.details /\ y.rel = x.rel /\ y.note = x.note
  BY DEF IndexOK, IsIndex, Invalidate
<1> QED
  BY <1>1, AsideOK

(* Moving a score.                                                         *)
LEMMA IncrAside ==
  ASSUME NEW x, IndexOK(x), NEW p, NEW delta
  PROVE  Aside(x, Incr(x, p, delta))
<1> DEFINE y == Incr(x, p, delta)
<1>1. IsIndex(y) /\ y.details = x.details /\ y.rel = x.rel /\ y.note = x.note
  BY DEF IndexOK, IsIndex, Incr
<1> QED
  BY <1>1, AsideOK

(* Storing counts, also when the write stops after some of its keys.       *)
LEMMA PutCountsAside ==
  ASSUME NEW x, IndexOK(x), NEW p, NEW n, NEW isReply, NEW k
  PROVE  Aside(x, PutCounts(x, p, n, isReply, k))
<1> DEFINE c == [x EXCEPT !.counts[p] = n]
<1>1. IsIndex(c) /\ c.details = x.details /\ c.rel = x.rel /\ c.note = x.note
  BY DEF IndexOK, IsIndex
<1>2. \A z : IsIndex(z) => LET y == AddScore(z, p, n.links) IN
         IsIndex(y) /\ y.details = z.details /\ y.rel = z.rel /\ y.note = z.note
  BY DEF IsIndex, AddScore
<1>3. IsIndex(x) BY DEF IndexOK
<1> DEFINE y == PutCounts(x, p, n, isReply, k)
<1>4. y \in {x, c, AddScore(x, p, n.links), AddScore(c, p, n.links)}
  BY DEF PutCounts
<1> HIDE DEF y, c
<1>5. IsIndex(y) /\ y.details = x.details /\ y.rel = x.rel /\ y.note = x.note
  <2> DEFINE a == AddScore(x, p, n.links)
             b == AddScore(c, p, n.links)
  <2>1. IsIndex(a) /\ a.details = x.details /\ a.rel = x.rel /\ a.note = x.note
    BY <1>2, <1>3
  <2>2. IsIndex(b) /\ b.details = c.details /\ b.rel = c.rel /\ b.note = c.note
    BY <1>2, <1>1
  <2> HIDE DEF a, b
  <2>3. y = x \/ y = c \/ y = a \/ y = b BY <1>4 DEF a, b
  <2> QED BY <1>1, <1>3, <2>1, <2>2, <2>3
<1> QED
  BY <1>5, AsideOK DEF y

(* Removing counts, also when the write stops after some of its keys.      *)
LEMMA DeleteCountsAside ==
  ASSUME NEW x, IndexOK(x), NEW p, NEW isRoot, NEW k
  PROVE  Aside(x, DeleteCounts(x, p, isRoot, k))
<1> DEFINE c == Invalidate(x, {p})
           F(z) == [z EXCEPT !.score[p] = NoScore]
           a == F(x)
           b == F(c)
           y == DeleteCounts(x, p, isRoot, k)
<1>1. IsIndex(c) /\ c.details = x.details /\ c.rel = x.rel /\ c.note = x.note
  BY InvalidateAside DEF Aside, IndexOK
<1>3. IsIndex(x) BY DEF IndexOK
<1>4. y = x \/ y = c \/ y = a \/ y = b
  BY DEF DeleteCounts
<1>5. IsIndex(a) /\ a.details = x.details /\ a.rel = x.rel /\ a.note = x.note
  BY <1>3 DEF IsIndex
<1> HIDE DEF c
<1>6. IsIndex(b) /\ b.details = c.details /\ b.rel = c.rel /\ b.note = c.note
  BY <1>1 DEF IsIndex
<1> HIDE DEF y, a, b
<1>7. IsIndex(y) /\ y.details = x.details /\ y.rel = x.rel /\ y.note = x.note
  BY <1>1, <1>3, <1>4, <1>5, <1>6
<1> QED
  BY <1>7, AsideOK DEF y

(* A notification goes to everyone but the author himself.                 *)
LEMMA NotifyFacts ==
  ASSUME NEW x, IndexOK(x), NEW from, NEW tos, NEW kind, NEW p
  PROVE  /\ IndexOK(Notify(x, from, tos, kind, p))
         /\ Notify(x, from, tos, kind, p).details = x.details
         /\ Notify(x, from, tos, kind, p).rel = x.rel
         /\ Notify(x, from, tos, kind, p).note =
               x.note \cup {[to |-> u, kind |-> kind, post |-> p] : u \in tos \ {from}}
<1> DEFINE y == Notify(x, from, tos, kind, p)
           n == x.note \cup {[to |-> u, kind |-> kind, post |-> p] : u \in tos \ {from}}
<1>1. y = [x EXCEPT !.note = n]
  BY DEF Notify
<1>2. IsIndex(x) BY DEF IndexOK
<1> HIDE DEF n, y
<1>3. IsIndex(y) /\ y.details = x.details /\ y.rel = x.rel /\ y.note = n
  BY <1>1, <1>2 DEF IsIndex
<1>4. IndexOK(y)
  BY <1>3 DEF IndexOK
<1> QED
  BY <1>3, <1>4 DEF y, n

(* An index in which one post has other details.                           *)
LEMMA DetailsFacts ==
  ASSUME NEW x, IndexOK(x), NEW p \in Posts, NEW d \in Body, NEW y, IsIndex(y),
         y.details = [x.details EXCEPT ![p] = d], y.rel = x.rel
  PROVE  IndexOK(y)
BY DEF IndexOK

(* Details are stored by the first key of the write.                       *)
LEMMA PutDetailsFacts ==
  ASSUME NEW x, IndexOK(x), NEW p \in Posts, NEW d \in Body, NEW parent, NEW isEdit, NEW k \in Nat
  PROVE  /\ IndexOK(PutDetails(x, p, d, parent, isEdit, k))
         /\ PutDetails(x, p, d, parent, isEdit, k).rel = x.rel
         /\ PutDetails(x, p, d, parent, isEdit, k).note = x.note
         /\ PutDetails(x, p, d, parent, isEdit, k).details =
               [x.details EXCEPT ![p] = IF k >= 1 THEN d ELSE @]
<1> DEFINE y == PutDetails(x, p, d, parent, isEdit, k)
           feed  == ~isEdit /\ parent = {}
           reply == ~isEdit /\ parent # {}
           f == [x.details EXCEPT ![p] = IF k >= 1 THEN d ELSE @]
           t == IF feed /\ k >= 2 THEN x.timeline \cup {p} ELSE x.timeline
           u == IF feed /\ k >= 3 THEN x.userPosts \cup {p} ELSE x.userPosts
           s == IF reply /\ k >= 2 THEN x.thread \cup (parent \X {p}) ELSE x.thread
           v == IF reply /\ k >= 3 THEN x.userReplies \cup {p} ELSE x.userReplies
<1>1. y = [x EXCEPT !.details = f, !.timeline = t, !.userPosts = u, !.thread = s, !.userReplies = v]
  BY DEF PutDetails
<1>2. IsIndex(x) BY DEF IndexOK
<1> HIDE DEF y, f, t, u, s, v
<1>3. IsIndex(y) /\ y.details = f /\ y.rel = x.rel /\ y.note = x.note
  BY <1>1, <1>2 DEF IsIndex
<1>4. f = [x.details EXCEPT ![p] = IF k >= 1 THEN d ELSE x.details[p]]
  BY DEF f
<1>5. (IF k >= 1 THEN d ELSE x.details[p]) \in Body
  BY DEF IndexOK
<1>6. IndexOK(y)
  BY <1>3, <1>4, <1>5, DetailsFacts
<1> QED
  BY <1>3, <1>6 DEF y, f

(* And removed by the first key of the deletion.                           *)
LEMMA DeleteDetailsFacts ==
  ASSUME NEW x, IndexOK(x), NEW p \in Posts, NEW parent, NEW k \in Nat
  PROVE  /\ IndexOK(DeleteDetails(x, p, parent, k))
         /\ DeleteDetails(x, p, parent, k).rel = x.rel
         /\ DeleteDetails(x, p, parent, k).note = x.note
         /\ DeleteDetails(x, p, parent, k).details =
               [x.details EXCEPT ![p] = IF k >= 1 THEN NoPost ELSE @]
<1> DEFINE y == DeleteDetails(x, p, parent, k)
           f == [x.details EXCEPT ![p] = IF k >= 1 THEN NoPost ELSE @]
           t == IF parent = {} /\ k >= 2 THEN x.timeline \ {p} ELSE x.timeline
           u == IF parent = {} /\ k >= 3 THEN x.userPosts \ {p} ELSE x.userPosts
           s == IF parent # {} /\ k >= 2 THEN x.thread \ (parent \X {p}) ELSE x.thread
           v == IF parent # {} /\ k >= 3 THEN x.userReplies \ {p} ELSE x.userReplies
<1>1. y = [x EXCEPT !.details = f, !.timeline = t, !.userPosts = u, !.thread = s, !.userReplies = v]
  BY DEF DeleteDetails
<1>2. IsIndex(x) BY DEF IndexOK
<1> HIDE DEF y, f, t, u, s, v
<1>3. IsIndex(y) /\ y.details = f /\ y.rel = x.rel /\ y.note = x.note
  BY <1>1, <1>2 DEF IsIndex
<1>4. f = [x.details EXCEPT ![p] = IF k >= 1 THEN NoPost ELSE x.details[p]]
  BY DEF f
<1>5. (IF k >= 1 THEN NoPost ELSE x.details[p]) \in Body
  BY DEF IndexOK, Body
<1>6. IndexOK(y)
  BY <1>3, <1>4, <1>5, DetailsFacts
<1> QED
  BY <1>3, <1>6 DEF y, f

(* What a read-through does to the details.                                *)
FillsFrom(x, y, g) ==
    /\ IndexOK(y) /\ x.note \subseteq y.note
    /\ \A q \in Posts : \/ y.details[q] = x.details[q]
                        \/ x.details[q] = NoPost /\ y.details[q] = g.post[q] /\ g.post[q] # NoPost

(* A read through the cache stores what the graph has, where there was     *)
(* nothing.                                                                *)
LEMMA FillDetailsFacts ==
  ASSUME NEW x, IndexOK(x), NEW g, GraphOK(g), NEW p \in Posts
  PROVE  /\ FillsFrom(x, FillDetails(x, g, p), g)
         /\ FillDetails(x, g, p).note = x.note
<1> DEFINE r == GraphRelationships(g, p).replied
           z == PutDetails(x, p, g.post[p], r, FALSE, Full)
<1>0. Full \in Nat /\ Full >= 1 BY DEF Full
<1>1. g.post[p] \in Body BY DEF GraphOK
<1>2. /\ IndexOK(z) /\ z.rel = x.rel /\ z.note = x.note
      /\ z.details = [x.details EXCEPT ![p] = IF Full >= 1 THEN g.post[p] ELSE x.details[p]]
  <2>1. ASSUME NEW d \in Body, NEW s
        PROVE  LET y == PutDetails(x, p, d, s, FALSE, Full) IN
                 /\ IndexOK(y) /\ y.rel = x.rel /\ y.note = x.note
                 /\ y.details = [x.details EXCEPT ![p] = IF Full >= 1 THEN d ELSE x.details[p]]
    <3>1. \A e : LET y == PutDetails(x, p, d, s, e, Full) IN
                 /\ IndexOK(y) /\ y.rel = x.rel /\ y.note = x.note
                 /\ y.details = [x.details EXCEPT ![p] = IF Full >= 1 THEN d ELSE x.details[p]]
      BY <1>0, PutDetailsFacts
    <3> QED BY <3>1, Zenon
  <2> QED BY <1>1, <2>1
<1>3. FillDetails(x, g, p) = IF x.details[p] = NoPost /\ g.post[p] # NoPost THEN z ELSE x
  BY DEF FillDetails, Exists
<1> HIDE DEF z
<1>4. x.details[p] = NoPost /\ g.post[p] # NoPost => FillsFrom(x, z, g)
  BY <1>0, <1>2 DEF FillsFrom, IndexOK
<1>5. FillsFrom(x, x, g)
  BY DEF FillsFrom
<1> QED
  BY <1>2, <1>3, <1>4, <1>5

(* An index in which one post has other relationships.                     *)
LEMMA RelFacts ==
  ASSUME NEW x, IndexOK(x), NEW p \in Posts, NEW r \in Relationships \cup {NoRel}, 
         r # NoRel => Within(r, p)
  PROVE  LET y == [x EXCEPT !.rel[p] = r] IN
           IndexOK(y) /\ y.details = x.details /\ y.note = x.note /\ y.rel = [x.rel EXCEPT ![p] = r]
<1> DEFINE f == [x.rel EXCEPT ![p] = r]
           y == [x EXCEPT !.rel = f]
<1>2. IsIndex(x) BY DEF IndexOK
<1>4. f \in [Posts -> Relationships \cup {NoRel}]
  BY DEF IndexOK
<1>5. \A q \in Posts : f[q] # NoRel => Within(f[q], q)
  BY DEF IndexOK
<1> HIDE DEF f
<1>3. IsIndex(y) /\ y.details = x.details /\ y.rel = f /\ y.note = x.note
  BY <1>2 DEF IsIndex
<1> HIDE DEF y
<1>6. IndexOK(y)
  BY <1>3, <1>4, <1>5 DEF IndexOK
<1>7. y = [x EXCEPT !.rel[p] = r]
  BY DEF y, f
<1> QED
  BY <1>3, <1>6, <1>7 DEF f

(* A read of the relationships through the cache.                          *)
LEMMA FillRelationshipsFacts ==
  ASSUME NEW x, IndexOK(x), NEW g, GraphOK(g), NEW p \in Posts
  PROVE  LET y == FillRelationships(x, g, p) IN
           /\ IndexOK(y) /\ y.details = x.details /\ y.note = x.note
           /\ g.post[p] # NoPost => y.rel[p] \in Relationships /\ Within(y.rel[p], p)
<1> DEFINE r == GraphRelationships(g, p)
           z == [x EXCEPT !.rel[p] = r]
           y == FillRelationships(x, g, p)
<1>1. r \in Relationships /\ Within(r, p)
  BY RelationshipsFacts
<1>2. IndexOK(z) /\ z.details = x.details /\ z.note = x.note /\ z.rel = [x.rel EXCEPT ![p] = r]
  BY <1>1, RelFacts
<1>3. y = IF x.rel[p] = NoRel /\ g.post[p] # NoPost THEN z ELSE x
  BY DEF FillRelationships, Exists
<1> HIDE DEF z, r, y
<1>4. g.post[p] # NoPost => y.rel[p] \in Relationships /\ Within(y.rel[p], p)
  BY <1>1, <1>2, <1>3 DEF IndexOK
<1> QED
  BY <1>2, <1>3, <1>4 DEF y

(* Relationships stored by the handler of the post.                        *)
LEMMA PutRelationshipsFacts ==
  ASSUME NEW x, IndexOK(x), NEW p \in Posts, NEW r \in Relationships, Within(r, p)
  PROVE  LET y == PutRelationships(x, p, r, Full) IN
           IndexOK(y) /\ y.details = x.details /\ y.note = x.note
<1>1. PutRelationships(x, p, r, Full) = [x EXCEPT !.rel[p] = r]
  BY DEF PutRelationships, Full
<1> QED
  BY <1>1, RelFacts

(* Relationships removed by sync_del.                                      *)
LEMMA DeleteRelationshipsFacts ==
  ASSUME NEW x, IndexOK(x), NEW p \in Posts
  PROVE  LET y == DeleteRelationships(x, p) IN
           IndexOK(y) /\ y.details = x.details /\ y.note = x.note
BY RelFacts DEF DeleteRelationships

-----------------------------------------------------------------------------
(* Steps of one handler that neither link nor unlink a post.               *)

(* The details of a post change to none, to what the graph has, which is   *)
(* noted in halfway, or to what the post's own handler holds.              *)
DetailsMove(w) ==
    \A p \in Posts :
      \/ index'.details[p] = index.details[p]
      \/ index'.details[p] = NoPost
      \/ index'.details[p] = graph.post[p] /\ p \in halfway'
      \/ /\ p = Post(w) /\ index'.details[p] = job[w].body
         /\ HasTold(job[w]) /\ IsWriting(job[w])

(* What every step of a handler leaves of the state around it.             *)
Around(w) ==
    /\ GraphOK(graph') /\ IndexOK(index') /\ index.note \subseteq index'.note
    /\ DetailsMove(w)
    /\ hs' = hs /\ overlap' = overlap
    /\ buried \subseteq buried' /\ buried' \subseteq Posts
    /\ halfway \subseteq halfway' /\ halfway' \subseteq Posts

(* Nothing is passed and nothing queued.                                   *)
SameInputs == log' = log /\ queue' = queue

(* From i to j without passing a point that an invariant is about.         *)
SoftMove(i, j) ==
    /\ j \in JobType /\ JobOK(j) /\ j.pc # "idle"
    /\ j.ev = i.ev /\ j.newer = i.newer /\ j.ret = i.ret
    /\ i.pc # "record"
    /\ j.pc \notin {"graph", "check", "fetch", "record", "find", "existing", "recover"}
    /\ Obliged(i) => Obliged(j)
    /\ Works(i) => Works(j)
    /\ Removes(j) => Removes(i) /\ i.pc # "find"
    /\ IsWriting(j) => IsWriting(i) /\ j.rels = i.rels
    /\ j.body \in {i.body, NoPost} /\ j.old \in {i.old, NoPost}

(* The same without telling anybody.                                       *)
PlainMove(i, j) ==
    /\ SoftMove(i, j)
    /\ HasTold(j) => HasTold(i) \/ (IsWriting(i) /\ j.rels.replied = {})

(* A loop without a handler.                                               *)
LEMMA IdleFacts ==
  /\ Idle \in JobType /\ JobOK(Idle) /\ Idle.pc = "idle" /\ Idle.newer = FALSE
  /\ ~Obliged(Idle) /\ ~Works(Idle) /\ ~IsWriting(Idle) /\ ~Removes(Idle) /\ Idle.body = NoPost
  /\ Idle.old = NoPost
<1>1. Idle \in JobType BY Nature
<1>2. JobOK(Idle)
  BY DEF JobOK, Idle, Removes, IsWriting, IsPut
<1> QED
  BY <1>1, <1>2 DEF Idle, Obliged, Works, IsWriting, Removes

(* The events that were taken are where they were taken from.              *)
LEMMA JobsStep ==
  ASSUME TypeInv, JobsInv, NEW w \in Loops, NEW j \in JobType, JobOK(j),
         job' = [job EXCEPT ![w] = j], SameInputs,
         j.pc # "idle" => Busy(w) /\ j.ev = job[w].ev /\ j.newer = job[w].newer,
         j.newer => w = Retry
  PROVE  JobsInv' /\ (job \in [Loops -> JobType])'
<1>0. job \in [Loops -> JobType] BY DEF TypeInv
<1>1. job' \in [Loops -> JobType] BY <1>0
<1>2. ASSUME NEW v \in Loops PROVE (JobOK(job[v]) /\ SourceOK(v) /\ (job[v].newer => v = Retry))'
  <2>1. CASE v = w
    <3>1. job'[v] = j BY <1>0, <2>1
    <3>2. SourceOK(w) BY DEF JobsInv
    <3>3. SourceOK(v)'
      BY <3>1, <3>2, <2>1 DEF SourceOK, Busy, SameInputs
    <3> QED BY <3>1, <3>3, <2>1
  <2>2. CASE v # w
    <3>1. job'[v] = job[v] BY <1>0, <2>2
    <3>2. JobOK(job[v]) /\ SourceOK(v) /\ (job[v].newer => v = Retry) BY DEF JobsInv
    <3>3. SourceOK(v)'
      BY <3>1, <3>2 DEF SourceOK, Busy, SameInputs
    <3> QED BY <3>1, <3>2, <3>3
  <2> QED BY <2>1, <2>2
<1> QED
  BY <1>1, <1>2 DEF JobsInv

(* A handler that still looks at the takedown keeps the post waiting.      *)
LEMMA WaitsStep ==
  ASSUME TypeInv, NEW w \in Loops, NEW j \in JobType, Busy(w), j.pc # "idle",
         job' = [job EXCEPT ![w] = j], SameInputs,
         j.ev = job[w].ev, j.newer = job[w].newer,
         NEW p, Waits(p), p = Post(w) /\ Obliged(job[w]) => Obliged(j)
  PROVE  Waits(p)'
<1>0. job \in [Loops -> JobType] BY DEF TypeInv
<1>1. \A v \in Loops : Busy(v)' = Busy(v) /\ job'[v].ev = job[v].ev /\ job'[v].newer = job[v].newer
  BY <1>0 DEF Busy
<1>2. Retry \in Loops /\ \A v \in LiveLoops : v \in Loops BY DEF Loops
<1>3. CASE \E v \in LiveLoops : \E i \in 1..Len(log[v]) : log[v][i].p = p /\ (i = 1 => ~Busy(v))
  <2>1. PICK v \in LiveLoops : \E i \in 1..Len(log[v]) : log[v][i].p = p /\ (i = 1 => ~Busy(v))
    BY <1>3
  <2>2. v \in Loops /\ Busy(v)' = Busy(v) BY <1>1, <1>2
  <2> QED BY <2>1, <2>2 DEF Waits, SameInputs
<1>4. CASE \E e \in queue : e.p = p /\ (Busy(Retry) /\ job[Retry].ev = e => job[Retry].newer)
  <2>1. /\ Busy(Retry)' = Busy(Retry) /\ job'[Retry].ev = job[Retry].ev
        /\ job'[Retry].newer = job[Retry].newer
    BY <1>1, <1>2
  <2> QED BY <1>4, <2>1 DEF Waits, SameInputs
<1>5. CASE \E v \in Loops : Busy(v) /\ Post(v) = p /\ Obliged(job[v])
  <2>1. PICK v \in Loops : Busy(v) /\ Post(v) = p /\ Obliged(job[v]) BY <1>5
  <2>2. Obliged(job'[v])
    BY <1>0, <2>1
  <2>3. Busy(v)' /\ Post(v)' = p BY <1>1, <2>1 DEF Post
  <2> QED BY <2>2, <2>3 DEF Waits
<1> QED
  BY <1>3, <1>4, <1>5 DEF Waits

(* A handler that is given up leaves its event where it was.               *)
LEMMA WaitsAbort ==
  ASSUME TypeInv, JobsInv, NEW w \in Loops, Busy(w),
         job' = [job EXCEPT ![w] = Idle], SameInputs,
         NEW p, Waits(p) \/ p = Post(w)
  PROVE  Waits(p)'
<1>0. job \in [Loops -> JobType] BY DEF TypeInv
<1>1. Retry \in Loops /\ \A v \in LiveLoops : v \in Loops BY DEF Loops
<1>2. ~Busy(w)' /\ \A v \in Loops : v # w => job'[v] = job[v]
  BY <1>0, IdleFacts DEF Busy
<1>3. CASE p = Post(w) /\ w # Retry
  <2>1. log[w] # <<>> /\ job[w].ev = Head(log[w])
    BY <1>3 DEF JobsInv, SourceOK
  <2>2. w \in LiveLoops /\ log[w] \in Seq(Event)
    BY <1>3 DEF Loops, TypeInv
  <2>3. 1 \in 1..Len(log[w]) /\ log[w][1].p = p
    BY <1>3, <2>1, <2>2 DEF Post
  <2> QED BY <1>2, <2>2, <2>3 DEF Waits, SameInputs
<1>4. CASE p = Post(w) /\ w = Retry
  <2>1. \E e \in queue : e.p = p
    BY <1>4 DEF JobsInv, SourceOK, SameUri, Post
  <2> QED BY <1>2, <1>4, <2>1 DEF Waits, SameInputs
<1>5. CASE p # Post(w) /\ \E v \in LiveLoops : \E i \in 1..Len(log[v]) : log[v][i].p = p /\ (i = 1 => ~Busy(v))
  <2>1. PICK v \in LiveLoops : \E i \in 1..Len(log[v]) : log[v][i].p = p /\ (i = 1 => ~Busy(v))
    BY <1>5
  <2>2. v \in Loops /\ (~Busy(v) => ~Busy(v)') BY <1>1, <1>2 DEF Busy
  <2> QED BY <2>1, <2>2 DEF Waits, SameInputs
<1>6. CASE \E e \in queue : e.p = p /\ (Busy(Retry) /\ job[Retry].ev = e => job[Retry].newer)
  <2>1. \/ ~Busy(Retry)'
        \/ /\ Busy(Retry)' = Busy(Retry) /\ job'[Retry].ev = job[Retry].ev
           /\ job'[Retry].newer = job[Retry].newer
    BY <1>1, <1>2 DEF Busy
  <2> QED BY <1>6, <2>1 DEF Waits, SameInputs
<1>7. CASE p # Post(w) /\ \E v \in Loops : Busy(v) /\ Post(v) = p /\ Obliged(job[v])
  <2>1. PICK v \in Loops : Busy(v) /\ Post(v) = p /\ Obliged(job[v]) BY <1>7
  <2>2. job'[v] = job[v] BY <1>2, <1>7, <2>1
  <2> QED BY <2>1, <2>2 DEF Waits, Busy, Post
<1> QED
  BY <1>3, <1>4, <1>5, <1>6, <1>7 DEF Waits

-----------------------------------------------------------------------------
(* The end of a handler: its event is passed, dropped or queued.           *)

(* A log without its first event.                                          *)
LEMMA TailFacts ==
  ASSUME NEW l \in Seq(Event), l # <<>>
  PROVE  /\ Tail(l) \in Seq(Event) /\ Len(Tail(l)) = Len(l) - 1 /\ Len(l) \in Nat /\ Len(l) >= 1
         /\ \A i \in 1..Len(l) - 1 : Tail(l)[i] = l[i + 1]
         /\ Head(l) = l[1] /\ \A i \in 1..Len(l) : l[i] \in Event
OBVIOUS

(* The log after the handler of w has passed its event.                    *)
Passed(w) == log' = IF w = Retry THEN log ELSE [log EXCEPT ![w] = Tail(@)]

(* The log of w is shorter by the event of its handler.                    *)
LEMMA PassedFacts ==
  ASSUME TypeInv, JobsInv, NEW w \in Loops, Busy(w), Passed(w)
  PROVE  /\ log' \in [LiveLoops -> Seq(Event)]
         /\ \A v \in LiveLoops : v # w => log'[v] = log[v]
         /\ w # Retry => /\ w \in LiveLoops /\ log[w] # <<>> /\ log[w] \in Seq(Event)
                         /\ log'[w] = Tail(log[w]) /\ job[w].ev = log[w][1]
<1>1. log \in [LiveLoops -> Seq(Event)] BY DEF TypeInv
<1>2. CASE w = Retry
  BY <1>1, <1>2, Nature DEF Passed
<1>3. CASE w # Retry
  <2>1. w \in LiveLoops /\ log[w] # <<>> /\ log[w] \in Seq(Event) /\ job[w].ev = Head(log[w])
    BY <1>1, <1>3 DEF Loops, JobsInv, SourceOK
  <2>2. Tail(log[w]) \in Seq(Event) /\ Head(log[w]) = log[w][1]
    BY <2>1, TailFacts
  <2> QED BY <1>1, <1>3, <2>1, <2>2 DEF Passed
<1> QED BY <1>2, <1>3

(* What was behind the event of w is still in its log, one place further   *)
(* up.                                                                     *)
LEMMA PassedPlaces ==
  ASSUME TypeInv, JobsInv, NEW w \in Loops, Busy(w), Passed(w), NEW v \in LiveLoops,
         NEW i \in 1..Len(log[v]), v = w => i # 1
  PROVE  \E k \in 1..Len(log'[v]) : log'[v][k] = log[v][i]
<1>1. CASE v # w
  BY <1>1, PassedFacts
<1>2. CASE v = w
  <2>1. /\ log[w] # <<>> /\ log[w] \in Seq(Event) /\ log'[w] = Tail(log[w])
    BY <1>2, PassedFacts, Nature
  <2>2. /\ Len(log'[w]) = Len(log[w]) - 1 /\ Len(log[w]) \in Nat
        /\ \A m \in 1..Len(log[w]) - 1 : log'[w][m] = log[w][m + 1]
    BY <2>1, TailFacts
  <2>3. i - 1 \in 1..Len(log'[w]) /\ log'[w][i - 1] = log[w][(i - 1) + 1] /\ (i - 1) + 1 = i
    BY <1>2, <2>2
  <2> QED BY <1>2, <2>3
<1> QED BY <1>1, <1>2

(* The order of puts and deletions in a log survives passing an event.     *)
LEMMA OrderPassed ==
  ASSUME TypeInv, JobsInv, LogOrder, NEW w \in Loops, Busy(w), Passed(w), hs' = hs
  PROVE  LogOrder'
<1>1. ASSUME NEW v \in LiveLoops
      PROVE  \/ log'[v] = log[v]
             \/ /\ Len(log[v]) \in Nat /\ Len(log'[v]) = Len(log[v]) - 1
                /\ \A m \in 1..Len(log[v]) - 1 : log'[v][m] = log[v][m + 1]
  <2>1. CASE v = w
    <3>1. /\ log[w] # <<>> /\ log[w] \in Seq(Event) /\ log'[w] = Tail(log[w])
      BY <2>1, PassedFacts, Nature
    <3>2. /\ Len(log'[w]) = Len(log[w]) - 1 /\ Len(log[w]) \in Nat
          /\ \A m \in 1..Len(log[w]) - 1 : log'[w][m] = log[w][m + 1]
      BY <3>1, TailFacts
    <3> QED BY <2>1, <3>2
  <2>2. CASE v # w
    BY <2>2, PassedFacts
  <2> QED BY <2>1, <2>2
<1>2. ASSUME NEW p \in Posts
      PROVE  LET l == log'[HomeOf(p)] IN
         /\ hs[p] # Nothing => \A i \in 1..Len(l) : l[i] = DelOf(p) => \E j \in i + 1..Len(l) : l[j] = PutOf(p)
         /\ hs[p] = Nothing => \A i \in 1..Len(l) : l[i] = PutOf(p) => \E j \in i + 1..Len(l) : l[j] = DelOf(p)
  <2> DEFINE v == HomeOf(p)
             l == log[v]
             m == log'[v]
  <2>1. v \in LiveLoops BY Nature DEF HomeOf
  <2>2. /\ hs[p] # Nothing => \A i \in 1..Len(l) : l[i] = DelOf(p) => \E j \in i + 1..Len(l) : l[j] = PutOf(p)
        /\ hs[p] = Nothing => \A i \in 1..Len(l) : l[i] = PutOf(p) => \E j \in i + 1..Len(l) : l[j] = DelOf(p)
    BY DEF LogOrder
  <2>3. \/ m = l
        \/ /\ Len(l) \in Nat /\ Len(m) = Len(l) - 1
           /\ \A k \in 1..Len(l) - 1 : m[k] = l[k + 1]
    BY <1>1, <2>1
  <2> HIDE DEF l, m, v
  <2>4. ASSUME NEW a, NEW b, \A i \in 1..Len(l) : l[i] = a => \E j \in i + 1..Len(l) : l[j] = b
        PROVE  \A i \in 1..Len(m) : m[i] = a => \E j \in i + 1..Len(m) : m[j] = b
    <3>1. CASE m = l BY <3>1, <2>4
    <3>2. CASE /\ Len(l) \in Nat /\ Len(m) = Len(l) - 1
               /\ \A k \in 1..Len(l) - 1 : m[k] = l[k + 1]
      <4> SUFFICES ASSUME NEW i \in 1..Len(m), m[i] = a PROVE \E j \in i + 1..Len(m) : m[j] = b
        OBVIOUS
      <4>1. i + 1 \in 1..Len(l) /\ l[i + 1] = a BY <3>2
      <4>2. PICK j \in (i + 1) + 1..Len(l) : l[j] = b BY <4>1, <2>4
      <4>3. j - 1 \in i + 1..Len(m) /\ j - 1 \in 1..Len(l) - 1 /\ (j - 1) + 1 = j BY <3>2, <4>2
      <4>4. m[j - 1] = b BY <3>2, <4>2, <4>3
      <4> QED BY <4>3, <4>4
    <3> QED BY <2>3, <3>1, <3>2
  <2>5. /\ hs[p] # Nothing => \A i \in 1..Len(m) : m[i] = DelOf(p) => \E j \in i + 1..Len(m) : m[j] = PutOf(p)
        /\ hs[p] = Nothing => \A i \in 1..Len(m) : m[i] = PutOf(p) => \E j \in i + 1..Len(m) : m[j] = DelOf(p)
    BY <2>2, <2>4
  <2> QED BY <2>5 DEF m, v
<1>3. ASSUME NEW v \in LiveLoops, NEW i \in 1..Len(log'[v]), log'[v][i].type # "mod"
      PROVE  v = HomeOf(log'[v][i].p)
  <2>1. \E k \in 1..Len(log[v]) : log[v][k] = log'[v][i]
    <3>1. CASE log'[v] = log[v] BY <3>1
    <3>2. CASE /\ Len(log[v]) \in Nat /\ Len(log'[v]) = Len(log[v]) - 1
               /\ \A m \in 1..Len(log[v]) - 1 : log'[v][m] = log[v][m + 1]
      BY <3>2
    <3> QED BY <1>1, <3>1, <3>2
  <2> QED BY <1>3, <2>1 DEF LogOrder
<1> QED
  BY <1>2, <1>3 DEF LogOrder, HomeOf, PutOf, DelOf

(* An event further down the log waits as it did.                          *)
LEMMA WaitsPassed ==
  ASSUME TypeInv, JobsInv, NEW w \in Loops, Busy(w), Passed(w), ~Busy(w)',
         \A v \in Loops : Busy(v)' => Busy(v),
         NEW p, \E v \in LiveLoops : \E i \in 1..Len(log[v]) : 
                   log[v][i].p = p /\ (i = 1 => ~Busy(v))
  PROVE  Waits(p)'
<1>1. PICK v \in LiveLoops : \E i \in 1..Len(log[v]) : log[v][i].p = p /\ (i = 1 => ~Busy(v))
  OBVIOUS
<1>2. PICK i \in 1..Len(log[v]) : log[v][i].p = p /\ (i = 1 => ~Busy(v))
  BY <1>1
<1>3. v \in Loops BY DEF Loops
<1>4. CASE v # w
  <2>1. log'[v] = log[v] BY <1>4, PassedFacts
  <2> QED BY <1>2, <1>3, <2>1 DEF Waits
<1>5. CASE v = w
  <2>1. i # 1 BY <1>2, <1>5
  <2>2. \E k \in 1..Len(log'[v]) : log'[v][k] = log[v][i]
    BY <1>5, <2>1, PassedPlaces
  <2> QED BY <1>2, <1>3, <1>5, <2>2 DEF Waits
<1> QED BY <1>4, <1>5

(* What Finish does.                                                       *)
LEMMA FinishShape ==
  ASSUME TypeInv, NEW w \in Loops, Finish(w)
  PROVE  /\ Passed(w) /\ job' = [job EXCEPT ![w] = Idle] /\ ~Busy(w)'
         /\ \A v \in Loops : v # w => job'[v] = job[v]
         /\ \A v \in Loops : Busy(v)' => Busy(v)
         /\ hs' = hs /\ overlap' = overlap /\ buried' = buried
         /\ queue' \subseteq queue
         /\ \A e \in queue \ queue' : w = Retry /\ ~job[w].newer /\ e = job[w].ev
<1>0. job \in [Loops -> JobType] BY DEF TypeInv
<1> QED BY <1>0, IdleFacts DEF Finish, Passed, Busy

(* The end of a handler that owes nothing to a post leaves the post        *)
(* waiting.                                                                *)
LEMMA WaitsFinish ==
  ASSUME TypeInv, JobsInv, NEW w \in Loops, Busy(w), Finish(w),
         NEW p, Waits(p), p = Post(w) => ~Obliged(job[w])
  PROVE  Waits(p)'
<1>1. CASE \E v \in LiveLoops : \E i \in 1..Len(log[v]) : log[v][i].p = p /\ (i = 1 => ~Busy(v))
  BY <1>1, FinishShape, WaitsPassed
<1>2. CASE \E e \in queue : e.p = p /\ (Busy(Retry) /\ job[Retry].ev = e => job[Retry].newer)
  <2>1. PICK e \in queue : e.p = p /\ (Busy(Retry) /\ job[Retry].ev = e => job[Retry].newer)
    BY <1>2
  <2>2. Retry \in Loops BY DEF Loops
  <2>3. e \in queue' BY <2>1, FinishShape
  <2>4. Busy(Retry)' => Retry # w /\ job'[Retry] = job[Retry] /\ Busy(Retry)
    BY <2>2, FinishShape
  <2> QED BY <2>1, <2>3, <2>4 DEF Waits
<1>3. CASE \E v \in Loops : Busy(v) /\ Post(v) = p /\ Obliged(job[v])
  <2>1. PICK v \in Loops : Busy(v) /\ Post(v) = p /\ Obliged(job[v]) BY <1>3
  <2>2. job'[v] = job[v] BY <2>1, FinishShape
  <2> QED BY <2>1, <2>2 DEF Waits, Busy, Post
<1> QED BY <1>1, <1>2, <1>3 DEF Waits

(* And the other handlers with their events.                               *)
LEMMA JobsFinish ==
  ASSUME TypeInv, JobsInv, NEW w \in Loops, Busy(w), Finish(w)
  PROVE  JobsInv' /\ (job \in [Loops -> JobType])' /\ (log \in [LiveLoops -> Seq(Event)])'
<1>0. job \in [Loops -> JobType] BY DEF TypeInv
<1>1. job' \in [Loops -> JobType] BY <1>0, IdleFacts, FinishShape
<1>2. ASSUME NEW v \in Loops PROVE (JobOK(job[v]) /\ SourceOK(v) /\ (job[v].newer => v = Retry))'
  <2>1. CASE v = w
    <3>1. job'[v] = Idle BY <1>0, <2>1, FinishShape
    <3> QED BY <3>1, IdleFacts DEF SourceOK, Busy
  <2>2. CASE v # w
    <3>1. job'[v] = job[v] BY <2>2, FinishShape
    <3>2. JobOK(job[v]) /\ SourceOK(v) /\ (job[v].newer => v = Retry) BY DEF JobsInv
    <3>3. v # Retry => log'[v] = log[v]
      BY <2>2, FinishShape, PassedFacts DEF Loops
    <3>4. v = Retry => queue' = queue
      BY <2>2 DEF Finish
    <3>5. SourceOK(v)'
      BY <3>1, <3>2, <3>3, <3>4 DEF SourceOK, Busy
    <3> QED BY <3>1, <3>2, <3>5
  <2> QED BY <2>1, <2>2
<1>3. log' \in [LiveLoops -> Seq(Event)] BY FinishShape, PassedFacts
<1> QED
  BY <1>1, <1>2, <1>3 DEF JobsInv

(* A running handler has an event of a post.                               *)
LEMMA EventFacts ==
  ASSUME TypeInv, JobsInv, NEW w \in Loops, Busy(w)
  PROVE  /\ job[w] \in JobType /\ job[w].ev \in Event /\ Post(w) \in Posts
         /\ JobOK(job[w]) /\ Within(job[w].rels, Post(w))
<1>1. job[w] \in JobType BY DEF TypeInv
<1>2. JobOK(job[w]) BY DEF JobsInv
<1>3. job[w].ev \in Event /\ Within(job[w].rels, job[w].ev.p) BY <1>2 DEF JobOK, Busy
<1> QED BY <1>1, <1>2, <1>3 DEF Post, Event

(* What Requeue does: the entry of the URI is replaced, unless it is       *)
(* newer.                                                                  *)
LEMMA RequeueShape ==
  ASSUME TypeInv, JobsInv, NEW w \in Loops, Busy(w), Requeue(w)
  PROVE  /\ Passed(w) /\ job'[w] = Idle /\ ~Busy(w)'
         /\ job' \in [Loops -> JobType]
         /\ \A v \in Loops : v # w =>
              /\ job'[v] = [job[v] EXCEPT !.newer = job'[v].newer]
              /\ job'[v].newer \in BOOLEAN /\ (job[v].newer => job'[v].newer)
              /\ v # Retry => job'[v] = job[v]
              /\ v = Retry /\ job'[v] # job[v] => Busy(v) /\ SameUri(job[v].ev, job[w].ev)
              /\ v = Retry /\ Busy(v) /\ SameUri(job[v].ev, job[w].ev) => job'[v].newer
         /\ hs' = hs /\ overlap' = overlap /\ buried' = buried
         /\ queue' \subseteq queue \cup {job[w].ev}
         /\ \A e \in queue \ queue' : SameUri(e, job[w].ev)
         /\ \E e \in queue' : SameUri(e, job[w].ev)
         /\ ~job[w].newer => job[w].ev \in queue'
<1>0. job \in [Loops -> JobType] BY DEF TypeInv
<1>1. /\ job' = [v \in Loops |->
                 IF v = w THEN Idle
                 ELSE [job[v] EXCEPT !.newer =
                          @ \/ (v = Retry /\ Busy(v) /\ SameUri(job[v].ev, job[w].ev))]]
      /\ Passed(w) /\ hs' = hs /\ overlap' = overlap /\ buried' = buried
      /\ queue' = IF job[w].newer THEN queue
                  ELSE {e \in queue : ~SameUri(e, job[w].ev)} \cup {job[w].ev}
  BY DEF Requeue, Passed
<1>2. job'[w] = Idle /\ ~Busy(w)'
  BY <1>1, IdleFacts DEF Busy
<1>3. ASSUME NEW v \in Loops, v # w
      PROVE  /\ job'[v] \in JobType
             /\ job'[v] = [job[v] EXCEPT !.newer = job'[v].newer]
             /\ job'[v].newer \in BOOLEAN /\ (job[v].newer => job'[v].newer)
             /\ v # Retry => job'[v] = job[v]
             /\ v = Retry /\ job'[v] # job[v] => Busy(v) /\ SameUri(job[v].ev, job[w].ev)
             /\ v = Retry /\ Busy(v) /\ SameUri(job[v].ev, job[w].ev) => job'[v].newer
  <2> DEFINE b == (v = Retry /\ Busy(v) /\ SameUri(job[v].ev, job[w].ev))
             n == job[v].newer \/ b
  <2>1. job[v] \in JobType BY <1>0
  <2>2. job[v].newer \in BOOLEAN BY <2>1 DEF JobType
  <2>3. job'[v] = [job[v] EXCEPT !.newer = n] BY <1>1, <1>3
  <2>4. n \in BOOLEAN BY <2>2
  <2>5. job'[v].newer = n /\ job'[v] \in JobType
    <3> HIDE DEF n
    <3> QED BY <2>1, <2>3, <2>4 DEF JobType
  <2>6. ~b => job'[v] = job[v]
    <3>1. ~b => n = job[v].newer BY <2>2
    <3> HIDE DEF n, b
    <3> QED BY <2>1, <2>3, <3>1 DEF JobType
  <2> QED BY <2>2, <2>3, <2>4, <2>5, <2>6
<1>4. job' \in [Loops -> JobType]
  <2>1. \A v \in Loops : job'[v] \in JobType
    BY <1>2, <1>3, IdleFacts
  <2> QED BY <1>1, <2>1
<1>5. /\ queue' \subseteq queue \cup {job[w].ev}
      /\ \A e \in queue \ queue' : SameUri(e, job[w].ev)
      /\ ~job[w].newer => job[w].ev \in queue'
  BY <1>1
<1>6. \E e \in queue' : SameUri(e, job[w].ev)
  <2>1. CASE job[w].newer
    <3>1. w = Retry /\ \E e \in queue : SameUri(e, job[w].ev)
      BY <2>1 DEF JobsInv, SourceOK
    <3> QED BY <1>1, <2>1, <3>1
  <2>2. CASE ~job[w].newer
    BY <1>1, <2>2 DEF SameUri
  <2> QED BY <2>1, <2>2
<1> QED
  BY <1>1, <1>2, <1>3, <1>4, <1>5, <1>6

(* The mark of a newer entry changes nothing else about a handler.         *)
LEMMA NewerOnly ==
  ASSUME NEW i \in JobType, NEW n \in BOOLEAN, NEW j, j = [i EXCEPT !.newer = n]
  PROVE  /\ j.pc = i.pc /\ j.ev = i.ev /\ j.body = i.body /\ j.old = i.old /\ j.ret = i.ret
         /\ j.rels = i.rels /\ j.todo = i.todo /\ j.failed = i.failed /\ j.next = i.next
         /\ JobOK(i) => JobOK(j)
         /\ Obliged(j) = Obliged(i) /\ Works(j) = Works(i) /\ IsPut(j) = IsPut(i)
         /\ IsWriting(j) = IsWriting(i) /\ Removes(j) = Removes(i) /\ HasTold(j) = HasTold(i)
<1>1. /\ j.pc = i.pc /\ j.ev = i.ev /\ j.body = i.body /\ j.old = i.old /\ j.ret = i.ret
      /\ j.rels = i.rels /\ j.todo = i.todo /\ j.failed = i.failed /\ j.next = i.next
  BY DEF JobType
<1>2. /\ IsPut(j) = IsPut(i) /\ IsWriting(j) = IsWriting(i) /\ Removes(j) = Removes(i)
      /\ HasTold(j) = HasTold(i)
  BY <1>1 DEF IsPut, IsWriting, Removes, HasTold
<1>3. Obliged(j) = Obliged(i) /\ Works(j) = Works(i)
  BY <1>1, <1>2 DEF Obliged, Works
<1>4. JobOK(i) => JobOK(j)
  BY <1>1, <1>2 DEF JobOK
<1> QED BY <1>1, <1>2, <1>3, <1>4

(* The handlers of the other loops stand where they did.                   *)
LEMMA NewerKept ==
  ASSUME TypeInv, JobsInv, NEW w \in Loops, Busy(w), Requeue(w), NEW v \in Loops, v # w
  PROVE  LET i == job[v]
             j == job'[v]
         IN /\ j.pc = i.pc /\ j.ev = i.ev /\ j.body = i.body /\ j.old = i.old /\ j.ret = i.ret
            /\ j.rels = i.rels /\ j.todo = i.todo /\ j.failed = i.failed /\ j.next = i.next
            /\ Obliged(j) = Obliged(i) /\ Works(j) = Works(i) /\ IsPut(j) = IsPut(i)
            /\ IsWriting(j) = IsWriting(i) /\ Removes(j) = Removes(i) /\ HasTold(j) = HasTold(i)
<1>1. job[v] \in JobType BY DEF TypeInv
<1>2. job'[v] = [job[v] EXCEPT !.newer = job'[v].newer] /\ job'[v].newer \in BOOLEAN
  BY RequeueShape
<1> QED BY <1>1, <1>2, NewerOnly

(* A queued event waits, and so does everything that waited.               *)
LEMMA WaitsRequeue ==
  ASSUME TypeInv, JobsInv, NEW w \in Loops, Busy(w), Requeue(w),
         NEW p, Waits(p) \/ p = Post(w)
  PROVE  Waits(p)'
<1>0. Retry \in Loops BY DEF Loops
<1>1. \A v \in Loops : v # w => /\ job'[v].pc = job[v].pc /\ job'[v].ev = job[v].ev
                                /\ Obliged(job'[v]) = Obliged(job[v])
  BY NewerKept
<1>2. ~Busy(w)' /\ Passed(w) /\ \A v \in Loops : Busy(v)' => Busy(v)
  BY <1>1, RequeueShape DEF Busy
<1>3. CASE p = Post(w)
  <2>1. PICK e \in queue' : SameUri(e, job[w].ev) BY RequeueShape
  <2>2. e.p = p BY <1>3, <2>1 DEF SameUri, Post
  <2>3. Busy(Retry)' /\ job'[Retry].ev = e => job'[Retry].newer
    <3> SUFFICES ASSUME Busy(Retry)', job'[Retry].ev = e PROVE job'[Retry].newer
      OBVIOUS
    <3>1. Retry # w BY <1>2
    <3>2. Busy(Retry) /\ job[Retry].ev = e BY <1>0, <1>1, <3>1 DEF Busy
    <3> QED BY <1>0, <2>1, <3>1, <3>2, RequeueShape
  <2> QED BY <2>1, <2>2, <2>3 DEF Waits
<1>4. CASE p # Post(w) /\ \E v \in LiveLoops : \E i \in 1..Len(log[v]) : log[v][i].p = p /\ (i = 1 => ~Busy(v))
  BY <1>2, <1>4, WaitsPassed
<1>5. CASE p # Post(w) /\ \E e \in queue : e.p = p /\ (Busy(Retry) /\ job[Retry].ev = e => job[Retry].newer)
  <2>1. PICK e \in queue : e.p = p /\ (Busy(Retry) /\ job[Retry].ev = e => job[Retry].newer)
    BY <1>5
  <2>3. e \in queue' BY <1>5, <2>1, RequeueShape DEF SameUri, Post
  <2>4. Busy(Retry)' => Retry # w /\ Busy(Retry) /\ job'[Retry].ev = job[Retry].ev
                        /\ (job[Retry].newer => job'[Retry].newer)
    BY <1>0, <1>1, <1>2, RequeueShape
  <2> QED BY <2>1, <2>3, <2>4 DEF Waits
<1>6. CASE p # Post(w) /\ \E v \in Loops : Busy(v) /\ Post(v) = p /\ Obliged(job[v])
  <2>1. PICK v \in Loops : Busy(v) /\ Post(v) = p /\ Obliged(job[v]) BY <1>6
  <2>2. v # w BY <1>6, <2>1
  <2> QED BY <1>1, <2>1, <2>2 DEF Waits, Busy, Post
<1> QED BY <1>3, <1>4, <1>5, <1>6 DEF Waits

(* A retry whose entry was replaced knows it.                              *)
LEMMA JobsRequeue ==
  ASSUME TypeInv, JobsInv, NEW w \in Loops, Busy(w), Requeue(w)
  PROVE  /\ JobsInv' /\ (job \in [Loops -> JobType])' /\ (log \in [LiveLoops -> Seq(Event)])'
         /\ (queue \subseteq Event)'
<1>2. ASSUME NEW v \in Loops PROVE (JobOK(job[v]) /\ SourceOK(v) /\ (job[v].newer => v = Retry))'
  <2>1. CASE v = w
    <3>1. job'[v] = Idle BY <2>1, RequeueShape
    <3> QED BY <3>1, IdleFacts DEF SourceOK, Busy
  <2>2. CASE v # w /\ v # Retry
    <3>1. job'[v] = job[v] BY <2>2, RequeueShape
    <3>2. JobOK(job[v]) /\ SourceOK(v) /\ (job[v].newer => v = Retry) BY DEF JobsInv
    <3>3. log'[v] = log[v]
      BY <2>2, RequeueShape, PassedFacts DEF Loops
    <3>5. SourceOK(v)'
      BY <2>2, <3>1, <3>2, <3>3 DEF SourceOK, Busy
    <3> QED BY <3>1, <3>2, <3>5
  <2>3. CASE v # w /\ v = Retry
    <3>1. job[v] \in JobType /\ JobOK(job[v]) /\ SourceOK(v) BY DEF JobsInv, TypeInv
    <3>2. /\ job'[v] = [job[v] EXCEPT !.newer = job'[v].newer] /\ job'[v].newer \in BOOLEAN
          /\ (job[v].newer => job'[v].newer)
      BY <2>3, RequeueShape
    <3>3. JobOK(job'[v]) /\ job'[v].ev = job[v].ev /\ job'[v].pc = job[v].pc
      BY <3>1, <3>2, NewerOnly
    <3>4. SourceOK(v)'
      <4> SUFFICES ASSUME Busy(v)
                   PROVE  IF job'[v].newer THEN \E e \in queue' : SameUri(e, job[v].ev)
                          ELSE job[v].ev \in queue'
        BY <2>3, <3>3 DEF SourceOK, Busy
      <4>1. CASE SameUri(job[v].ev, job[w].ev)
        <5>1. job'[v].newer BY <2>3, <4>1, RequeueShape
        <5>2. PICK e \in queue' : SameUri(e, job[w].ev) BY RequeueShape
        <5>3. SameUri(e, job[v].ev) BY <4>1, <5>2 DEF SameUri
        <5> QED BY <5>1, <5>3
      <4>2. CASE ~SameUri(job[v].ev, job[w].ev)
        <5>1. job'[v] = job[v] BY <2>3, <4>2, RequeueShape
        <5>2. CASE job[v].newer
          <6>1. PICK e \in queue : SameUri(e, job[v].ev) BY <2>3, <3>1, <5>2 DEF SourceOK
          <6>2. ~SameUri(e, job[w].ev) BY <4>2, <6>1 DEF SameUri
          <6> QED BY <5>1, <5>2, <6>1, <6>2, RequeueShape
        <5>3. CASE ~job[v].newer
          BY <2>3, <3>1, <4>2, <5>1, <5>3, RequeueShape DEF SourceOK
        <5> QED BY <5>2, <5>3
      <4> QED BY <4>1, <4>2
    <3> QED BY <2>3, <3>3, <3>4
  <2> QED BY <2>1, <2>2, <2>3
<1>3. log' \in [LiveLoops -> Seq(Event)] BY RequeueShape, PassedFacts
<1>4. queue' \subseteq Event BY RequeueShape, EventFacts DEF TypeInv
<1> QED
  BY <1>2, <1>3, <1>4, RequeueShape DEF JobsInv

-----------------------------------------------------------------------------
(* What is still due while one handler runs at a time.                     *)

(* The loop that reads an author's events is not the retry loop.           *)
LEMMA HomeFacts ==
  ASSUME NEW p \in Posts
  PROVE  HomeOf(p) \in LiveLoops /\ HomeOf(p) \in Loops /\ HomeOf(p) # Retry /\ Retry \in Loops
BY Nature DEF HomeOf, Loops

(* The first event of a busy loop is its handler's.                        *)
LEMMA FirstIsMine ==
  ASSUME TypeInv, JobsInv, NEW v \in LiveLoops, Busy(v)
  PROVE  log[v] # <<>> /\ log[v] \in Seq(Event) /\ job[v].ev = log[v][1] /\ 1 \in 1..Len(log[v])
<1>1. v \in Loops /\ v # Retry /\ log[v] \in Seq(Event) BY Nature DEF Loops, TypeInv
<1>2. log[v] # <<>> /\ job[v].ev = Head(log[v]) BY <1>1 DEF JobsInv, SourceOK
<1> QED BY <1>1, <1>2, TailFacts

(* What is due stays due while the handler works on it.                    *)
LEMMA DueStep ==
  ASSUME TypeInv, JobsInv, NEW w \in Loops, Busy(w), NEW j \in JobType, j.pc # "idle",
         job' = [job EXCEPT ![w] = j], SameInputs, hs' = hs, j.ev = job[w].ev,
         NEW p \in Posts, Due(p), p = Post(w) /\ Works(job[w]) => Works(j)
  PROVE  Due(p)'
<1>0. job \in [Loops -> JobType] BY DEF TypeInv
<1>1. \A v \in Loops : Busy(v)' = Busy(v) /\ job'[v].ev = job[v].ev
  BY <1>0 DEF Busy
<1>2. ASSUME NEW v \in Loops, Busy(v), Post(v) = p, Works(job[v]) PROVE Works(job'[v])
  BY <1>0, <1>2
<1>3. CASE \E i \in 1..Len(log[HomeOf(p)]) : 
            /\ log[HomeOf(p)][i].p = p /\ log[HomeOf(p)][i].type # "mod"
            /\ i = 1 /\ Busy(HomeOf(p)) => Works(job[HomeOf(p)])
  <2> DEFINE h == HomeOf(p)
  <2>1. PICK i \in 1..Len(log[h]) : /\ log[h][i].p = p /\ log[h][i].type # "mod"
                                    /\ i = 1 /\ Busy(h) => Works(job[h])
    BY <1>3
  <2>2. i = 1 /\ Busy(h) => Works(job'[h])
    <3> SUFFICES ASSUME i = 1, Busy(h) PROVE Works(job'[h])
      OBVIOUS
    <3>1. Post(h) = p BY <2>1, FirstIsMine, HomeFacts DEF Post
    <3> QED BY <1>2, <2>1, <3>1, HomeFacts
  <2>3. Busy(h)' = Busy(h) BY <1>1, HomeFacts
  <2>4. h' = h BY DEF HomeOf
  <2> QED BY <2>1, <2>2, <2>3, <2>4 DEF Due, SameInputs, HomeOf
<1>4. CASE /\ hs[p] # Nothing /\ PutOf(p) \in queue
           /\ Busy(Retry) /\ Post(Retry) = p => Works(job[Retry])
  <2>1. Retry \in Loops BY HomeFacts
  <2>2. Busy(Retry)' /\ Post(Retry)' = p => Works(job'[Retry])
    BY <1>1, <1>2, <1>4, <2>1 DEF Post
  <2> QED BY <1>4, <2>2 DEF Due, SameInputs, PutOf
<1> QED BY <1>3, <1>4 DEF Due

(* What was due is due again when its handler is given up.                 *)
LEMMA DueAbort ==
  ASSUME TypeInv, NEW w \in Loops, Busy(w),
         job' = [job EXCEPT ![w] = Idle], SameInputs, hs' = hs,
         NEW p \in Posts, Due(p)
  PROVE  Due(p)'
<1>0. job \in [Loops -> JobType] BY DEF TypeInv
<1>1. \A v \in Loops : Busy(v)' => Busy(v) /\ job'[v] = job[v]
  BY <1>0, IdleFacts DEF Busy
<1>2. HomeOf(p) \in Loops /\ Retry \in Loops BY HomeFacts
<1>3. CASE \E i \in 1..Len(log[HomeOf(p)]) : 
            /\ log[HomeOf(p)][i].p = p /\ log[HomeOf(p)][i].type # "mod"
            /\ i = 1 /\ Busy(HomeOf(p)) => Works(job[HomeOf(p)])
  BY <1>1, <1>2, <1>3 DEF Due, SameInputs, HomeOf
<1>4. CASE /\ hs[p] # Nothing /\ PutOf(p) \in queue
           /\ Busy(Retry) /\ Post(Retry) = p => Works(job[Retry])
  <2>2. Busy(Retry)' /\ Post(Retry)' = p => Works(job'[Retry])
    BY <1>1, <1>2, <1>4 DEF Post
  <2> QED BY <1>4, <2>2 DEF Due, SameInputs, PutOf
<1> QED BY <1>3, <1>4 DEF Due

(* A place in the log that is not the passed event's.                      *)
LEMMA DuePlace ==
  ASSUME TypeInv, JobsInv, NEW w \in Loops, Busy(w), Passed(w), hs' = hs,
         \A v \in Loops : ~Busy(v)', NEW p \in Posts,
         NEW i \in 1..Len(log[HomeOf(p)]), log[HomeOf(p)][i].p = p,
         log[HomeOf(p)][i].type # "mod", HomeOf(p) = w => i # 1
  PROVE  Due(p)'
<1> DEFINE h == HomeOf(p)
<1>1. h \in LiveLoops /\ h \in Loops /\ h' = h BY HomeFacts DEF HomeOf
<1>2. PICK k \in 1..Len(log'[h]) : log'[h][k] = log[h][i]
  BY <1>1, PassedPlaces
<1>3. ~Busy(h)' BY <1>1
<1> QED BY <1>1, <1>2, <1>3 DEF Due, HomeOf

(* Nobody runs when the only handler ends.                                 *)
LEMMA AllIdle ==
  ASSUME Sequential, NEW w \in Loops, Busy(w), ~Busy(w)', \A v \in Loops : Busy(v)' => Busy(v)
  PROVE  \A v \in Loops : ~Busy(v)'
BY DEF Sequential

(* What is due to another post stays due when a handler ends.              *)
LEMMA DueFinish ==
  ASSUME TypeInv, JobsInv, Sequential, NEW w \in Loops, Busy(w), Finish(w),
         NEW p \in Posts, Due(p), p = Post(w) => ~Works(job[w])
  PROVE  Due(p)'
<1>1. \A v \in Loops : ~Busy(v)' BY FinishShape, AllIdle
<1>2. Passed(w) /\ hs' = hs BY FinishShape
<1>3. CASE \E i \in 1..Len(log[HomeOf(p)]) : 
            /\ log[HomeOf(p)][i].p = p /\ log[HomeOf(p)][i].type # "mod"
            /\ i = 1 /\ Busy(HomeOf(p)) => Works(job[HomeOf(p)])
  <2> DEFINE h == HomeOf(p)
  <2>1. PICK i \in 1..Len(log[h]) : /\ log[h][i].p = p /\ log[h][i].type # "mod"
                                    /\ i = 1 /\ Busy(h) => Works(job[h])
    BY <1>3
  <2>2. h = w => i # 1
    BY <2>1, FirstIsMine, HomeFacts DEF Post
  <2> QED BY <1>1, <1>2, <2>1, <2>2, DuePlace
<1>4. CASE /\ hs[p] # Nothing /\ PutOf(p) \in queue
           /\ Busy(Retry) /\ Post(Retry) = p => Works(job[Retry])
  <2>1. PutOf(p) \in queue'
    <3> SUFFICES ASSUME PutOf(p) \notin queue' PROVE FALSE
      OBVIOUS
    <3>1. w = Retry /\ PutOf(p) = job[w].ev BY <1>4, FinishShape
    <3>2. Post(w) = p BY <3>1 DEF Post, PutOf
    <3> QED BY <1>4, <3>1, <3>2
  <2> QED BY <1>1, <1>2, <1>4, <2>1, HomeFacts DEF Due, PutOf
<1> QED BY <1>3, <1>4 DEF Due

(* An event that is queued is due from the queue.                          *)
LEMMA DueRequeue ==
  ASSUME TypeInv, JobsInv, LogOrder, Sequential, NEW w \in Loops, Busy(w), Requeue(w),
         job[w].ev.type = "put", NEW p \in Posts, Due(p)
  PROVE  Due(p)'
<1>0. \A v \in Loops : Busy(v)' => Busy(v)
  BY NewerKept, RequeueShape DEF Busy
<1>1. \A v \in Loops : ~Busy(v)' BY <1>0, RequeueShape, AllIdle
<1>2. Passed(w) /\ hs' = hs /\ ~job[w].newer BY RequeueShape DEF Sequential
<1>3. job[w].ev \in Event BY EventFacts
<1>4. CASE /\ hs[p] # Nothing /\ PutOf(p) \in queue'
  BY <1>1, <1>2, <1>4, HomeFacts DEF Due, PutOf
<1>5. CASE p = Post(w) /\ hs[p] # Nothing
  <2>1. job[w].ev = PutOf(p) BY <1>3, <1>5 DEF Event, PutOf, Post
  <2>2. PutOf(p) \in queue' BY <1>2, <2>1, RequeueShape
  <2> QED BY <1>4, <1>5, <2>2
<1>6. CASE p # Post(w) /\ hs[p] # Nothing /\ PutOf(p) \in queue
  <2>1. ~SameUri(PutOf(p), job[w].ev) BY <1>6 DEF SameUri, PutOf, Post
  <2> QED BY <1>4, <1>6, <2>1, RequeueShape
<1>7. CASE /\ ~(p = Post(w) /\ hs[p] # Nothing)
           /\ \E i \in 1..Len(log[HomeOf(p)]) : 
                /\ log[HomeOf(p)][i].p = p /\ log[HomeOf(p)][i].type # "mod"
                /\ i = 1 /\ Busy(HomeOf(p)) => Works(job[HomeOf(p)])
  <2> DEFINE h == HomeOf(p)
  <2>1. PICK i \in 1..Len(log[h]) : log[h][i].p = p /\ log[h][i].type # "mod"
    BY <1>7
  <2>2. CASE h = w => i # 1
    BY <1>1, <1>2, <2>1, <2>2, DuePlace
  <2>3. CASE h = w /\ i = 1
    <3>1. job[w].ev = log[h][1] BY <2>3, FirstIsMine, HomeFacts
    <3>2. log[h][1] = PutOf(p) /\ hs[p] = Nothing
      BY <1>3, <1>7, <2>1, <2>3, <3>1 DEF Event, PutOf, Post
    <3>3. PICK k \in 1 + 1..Len(log[h]) : log[h][k] = DelOf(p)
      BY <2>1, <2>3, <3>2 DEF LogOrder
    <3>4. k \in 1..Len(log[h]) /\ k # 1 /\ log[h][k].p = p /\ log[h][k].type # "mod"
      BY <3>3 DEF DelOf
    <3> QED BY <1>1, <1>2, <3>4, DuePlace
  <2> QED BY <2>2, <2>3
<1> QED BY <1>5, <1>6, <1>7 DEF Due

-----------------------------------------------------------------------------
(* What every step of a handler leaves of the invariant about tombstones   *)
(* and about notifications.                                                *)

(* Details never come from anywhere but the graph or the handler.          *)
LEMMA BuriedStores ==
  ASSUME TypeInv, JobsInv, BuriedInv, NEW w \in Loops, Busy(w), Around(w),
         NEW p \in Posts
  PROVE  Buries(index.details[p], p)'
<1>1. Buries(graph.post[p], p) /\ Buries(index.details[p], p) /\ Buries(job[w].body, Post(w))
  BY DEF BuriedInv
<1>2. buried \subseteq buried' BY DEF Around
<1>3. \/ index'.details[p] = index.details[p]
      \/ index'.details[p] = NoPost
      \/ index'.details[p] = graph.post[p]
      \/ p = Post(w) /\ index'.details[p] = job[w].body
  BY DEF Around, DetailsMove
<1>4. index'.details[p] # NoPost /\ index'.details[p].deleted => p \in buried'
  BY <1>1, <1>2, <1>3 DEF Buries
<1> QED BY <1>4 DEF Buries

(* Notifications are never taken back.                                     *)
LEMMA ToldGrows ==
  ASSUME NEW w, Around(w), NEW p, Told(p)
  PROVE  Told(p)'
BY DEF Told, Around

(* A post's details appear only after its parents were told, or by a read- *)
(* through, which makes the post one that was found halfway.               *)
LEMMA ToldStores ==
  ASSUME TypeInv, JobsInv, BuriedInv, ToldInv, NEW w \in Loops, Busy(w), Around(w), ~overlap,
         NEW p \in Posts \ (buried \cup halfway)', index'.details[p] # NoPost,
         ~index'.details[p].deleted
  PROVE  Told(p)'
<1>1. p \in Posts /\ p \notin buried \cup halfway BY DEF Around
<1>2. CASE index'.details[p] = index.details[p]
  <2>1. Told(p) BY <1>1, <1>2 DEF ToldInv
  <2> QED BY <2>1, ToldGrows
<1>3. CASE p = Post(w) /\ HasTold(job[w]) /\ IsWriting(job[w])
  <2>1. IsPut(job[w]) BY <1>1, <1>3 DEF BuriedInv
  <2>2. Told(p) BY <1>1, <1>3, <2>1 DEF ToldInv
  <2> QED BY <2>2, ToldGrows
<1> QED BY <1>2, <1>3 DEF Around, DetailsMove

(* The job part of the two invariants, for one loop.                       *)
JobBuried(v) ==
    Busy(v) => /\ Buries(job[v].body, Post(v)) /\ Buries(job[v].old, Post(v))
               /\ job[v].pc = "graph" \/ IsWriting(job[v]) => IsPut(job[v]) \/ Post(v) \in buried
JobTold(v) ==
    ~overlap /\ Busy(v) /\ HasTold(job[v]) /\ IsPut(job[v]) /\ Post(v) \notin buried \cup halfway
      => Told(Post(v))
JobDown(v) ==
    Busy(v) /\ job[v].pc # "record" /\ (job[v].ev.type = "mod" \/ job[v].ret # "event")
      => Post(v) \in graph.takedown

(* The invariants about handlers, one loop at a time.                      *)
LEMMA JobParts ==
  /\ BuriedInv <=> /\ \A p \in Posts : Buries(graph.post[p], p) /\ Buries(index.details[p], p)
                   /\ \A v \in Loops : JobBuried(v)
  /\ ToldInv <=> /\ \A v \in Loops : JobTold(v)
                 /\ ~overlap => \A p \in Posts \ (buried \cup halfway) :
                       index.details[p] # NoPost /\ ~index.details[p].deleted => Told(p)
  /\ TakedownInv <=> /\ \A p \in graph.takedown : Gone(graph.post[p]) \/ Waits(p)
                     /\ \A v \in Loops : JobDown(v)
BY DEF BuriedInv, ToldInv, TakedownInv, JobBuried, JobTold, JobDown

(* The handlers of other loops are not concerned.                          *)
LEMMA OthersKept ==
  ASSUME TypeInv, BuriedInv, ToldInv, TakedownInv, NEW w \in Loops, Around(w),
         graph.takedown \subseteq graph'.takedown,
         NEW v \in Loops, job'[v] = job[v]
  PROVE  (JobBuried(v) /\ JobTold(v) /\ JobDown(v))'
<1>1. JobBuried(v) /\ JobTold(v) /\ JobDown(v) BY JobParts
<1>2. Busy(v)' = Busy(v) /\ Post(v)' = Post(v) BY DEF Busy, Post
<1>3. buried \subseteq buried' /\ halfway \subseteq halfway' /\ overlap' = overlap BY DEF Around
<1>4. JobBuried(v)'
  BY <1>1, <1>2, <1>3 DEF JobBuried, Buries
<1>5. JobTold(v)'
  <2> SUFFICES ASSUME ~overlap, Busy(v), HasTold(job[v]), IsPut(job[v]),
                      Post(v) \notin buried \cup halfway
               PROVE  Told(Post(v))'
    BY <1>2, <1>3 DEF JobTold
  <2>1. Told(Post(v)) BY <1>1 DEF JobTold
  <2> DEFINE p == Post(v)
  <2>2. p' = p BY <1>2
  <2> HIDE DEF p
  <2>3. Told(p) BY <2>1 DEF p
  <2>4. Told(p)' BY <2>2, <2>3 DEF Told, Around
  <2> QED BY <2>4 DEF p
<1>6. JobDown(v)'
  BY <1>1, <1>2 DEF JobDown
<1> QED BY <1>4, <1>5, <1>6

(* Types after a step of a handler.                                        *)
LEMMA TypeAround ==
  ASSUME TypeInv, NEW w, Around(w), (job \in [Loops -> JobType])',
         (log \in [LiveLoops -> Seq(Event)])', (queue \subseteq Event)'
  PROVE  TypeInv'
BY DEF TypeInv, Around

(* The order of the log does not depend on the handlers.                   *)
LEMMA OrderSame ==
  ASSUME LogOrder, log' = log, hs' = hs
  PROVE  LogOrder'
BY DEF LogOrder, HomeOf, PutOf, DelOf

(* A loop that has no handler, or whose handler ended.                     *)
LEMMA IdleParts ==
  ASSUME NEW v, ~Busy(v)'
  PROVE  (JobBuried(v) /\ JobTold(v) /\ JobDown(v))'
BY DEF JobBuried, JobTold, JobDown

(* A step that leaves the links alone leaves the edges in agreement.       *)
LEMMA EdgesSame ==
  ASSUME EdgesHold, SameLinks(graph, graph')
  PROVE  EdgesHold'
BY DEF EdgesHold, SameLinks, Exists, GraphRelationships, Parents

(* And every post in agreement with its homeserver, or due.                *)
LEMMA DueSame ==
  ASSUME DueInv, SameLinks(graph, graph'), hs' = hs, \A p \in Posts : Due(p) => Due(p)'
  PROVE  DueInv'
BY DEF DueInv, Match, SameLinks

(* A step of a handler starts no other.                                    *)
LEMMA SequentialStep ==
  ASSUME TypeInv, Sequential, NEW w \in Loops, NEW j \in JobType, job' = [job EXCEPT ![w] = j],
         j.pc # "idle" => Busy(w) /\ j.newer = job[w].newer, j.newer => job[w].newer, queue' = queue
  PROVE  Sequential'
<1>0. job \in [Loops -> JobType] BY DEF TypeInv
<1>1. \A v \in Loops : Busy(v)' => Busy(v) BY <1>0 DEF Busy
<1>2. \A v \in Loops : job'[v].newer => job[v].newer BY <1>0
<1> QED BY <1>1, <1>2 DEF Sequential

(* A blob that was read stays the current one, or a later event waits.     *)
LEMMA FreshSame ==
  ASSUME TypeInv, FreshInv, NEW w \in Loops, NEW j \in JobType, job' = [job EXCEPT ![w] = j],
         log' = log, hs' = hs, ~(j.pc = "graph" /\ IsPut(j))
  PROVE  FreshInv'
<1>0. job \in [Loops -> JobType] BY DEF TypeInv
<1> SUFFICES ASSUME NEW v \in Loops, job'[v].pc = "graph", IsPut(job'[v])
             PROVE  (job[v].body = FromHomeserver(hs[Post(v)]) \/ Later(v, Post(v)))'
  BY DEF FreshInv
<1>1. v # w /\ job'[v] = job[v] BY <1>0
<1>2. job[v].body = FromHomeserver(hs[Post(v)]) \/ Later(v, Post(v))
  BY <1>1 DEF FreshInv
<1> DEFINE p == Post(v)
<1>3. p' = p BY <1>1 DEF Post
<1> HIDE DEF p
<1>4. job[v].body = FromHomeserver(hs[p]) \/ Later(v, p) BY <1>2 DEF p
<1>5. job'[v].body = FromHomeserver(hs'[p]) \/ Later(v, p)' BY <1>1, <1>3, <1>4 DEF Later, HomeOf
<1> QED BY <1>3, <1>5 DEF p, FromHomeserver

(* What the handler of another loop found in the graph is still there.     *)
LEMMA StandsSame ==
  ASSUME NEW v, StandsOn(v), job'[v] = job[v], SameLinks(graph, graph')
  PROVE  StandsOn(v)'
BY DEF StandsOn, SameLinks, Exists

(* The invariant after a step of w, from its parts.                        *)
LEMMA Assemble ==
  ASSUME PostInv, NEW w \in Loops, Busy(w), Around(w), graph.takedown \subseteq graph'.takedown,
         JobsInv', (job \in [Loops -> JobType])', (log \in [LiveLoops -> Seq(Event)])',
         (queue \subseteq Event)', LogOrder', SeqInv',
         \A p \in graph'.takedown : Gone(graph'.post[p]) \/ Waits(p)',
         \A p \in Posts : graph'.post[p] # NoPost /\ graph'.post[p].deleted => p \in buried',
         \A v \in Loops : (JobBuried(v) /\ JobTold(v) /\ JobDown(v))'
  PROVE  PostInv'
<1>0. TypeInv /\ JobsInv /\ BuriedInv /\ ToldInv BY DEF PostInv
<1>1. TypeInv' BY <1>0, TypeAround
<1>2. overlap' = overlap BY DEF Around
<1>3. BuriedInv'
  <2>1. \A p \in Posts : Buries(index.details[p], p)' BY <1>0, BuriedStores
  <2>2. \A p \in Posts : Buries(graph.post[p], p)' BY DEF Buries
  <2> QED BY <2>1, <2>2 DEF BuriedInv, JobBuried
<1>4. ToldInv'
  <2>1. ~overlap' => \A p \in Posts \ (buried \cup halfway)' :
            index'.details[p] # NoPost /\ ~index'.details[p].deleted => Told(p)'
    BY <1>0, <1>2, ToldStores
  <2> QED BY <2>1 DEF ToldInv, JobTold
<1>5. TakedownInv' BY DEF TakedownInv, JobDown
<1> QED BY <1>1, <1>3, <1>4, <1>5 DEF PostInv

(* What a step needs beyond its effect on the stores.                      *)
ToldAfter(p) == \A q \in Replied[p] : Author[q] # Author[p] =>
              [to |-> Author[q], kind |-> "reply", post |-> p] \in index'.note

(* A step that passes no point an invariant is about, except that the      *)
(* parents may be told.                                                    *)
LEMMA SoftKeeps ==
  ASSUME PostInv, NEW w \in Loops, Busy(w), NEW j \in JobType, SoftMove(job[w], j),
         HasTold(j) => \/ HasTold(job[w]) \/ (IsWriting(job[w]) /\ j.rels.replied = {})
                       \/ overlap \/ Post(w) \in buried \/ ToldAfter(Post(w)),
         Around(w), SameLinks(graph, graph'), SameInputs, job' = [job EXCEPT ![w] = j]
  PROVE  PostInv'
<1>0. /\ TypeInv /\ JobsInv /\ TakedownInv /\ LogOrder /\ SeqInv /\ BuriedInv /\ ToldInv
      /\ job \in [Loops -> JobType]
  BY DEF PostInv, TypeInv
<1>1. /\ j \in JobType /\ JobOK(j) /\ j.pc # "idle" /\ j.ev = job[w].ev /\ j.newer = job[w].newer
      /\ j.ret = job[w].ret /\ job[w].pc # "record" /\ (Obliged(job[w]) => Obliged(j))
      /\ (Works(job[w]) => Works(j)) /\ j.pc # "graph" /\ j.pc \notin {"existing", "recover"}
  BY DEF SoftMove
<1>2. /\ job'[w] = j /\ Busy(w)' /\ Post(w)' = Post(w)
      /\ \A v \in Loops : v # w => job'[v] = job[v]
  BY <1>0, <1>1 DEF Busy, Post
<1>3. /\ overlap' = overlap /\ hs' = hs /\ log' = log /\ queue' = queue
      /\ graph'.takedown = graph.takedown /\ graph'.post = graph.post
      /\ buried \subseteq buried' /\ halfway \subseteq halfway'
  BY DEF Around, SameInputs, SameLinks
<1>4. JobsInv' /\ (job \in [Loops -> JobType])'
  <2>1. j.newer => w = Retry BY <1>0, <1>1 DEF JobsInv
  <2> QED BY <1>0, <1>1, <2>1, JobsStep
<1>6. \A p \in graph'.takedown : Gone(graph'.post[p]) \/ Waits(p)'
  <2> SUFFICES ASSUME NEW p \in graph.takedown PROVE Gone(graph.post[p]) \/ Waits(p)'
    BY <1>3
  <2>1. Gone(graph.post[p]) \/ Waits(p) BY <1>0 DEF TakedownInv
  <2> QED BY <1>0, <1>1, <2>1, WaitsStep
<1>7. (JobBuried(w) /\ JobTold(w) /\ JobDown(w))'
  <2>0. JobBuried(w) /\ JobTold(w) /\ JobDown(w) BY <1>0, JobParts
  <2>1. JobBuried(w)'
    <3>1. j.body \in {job[w].body, NoPost} /\ j.old \in {job[w].old, NoPost}
          /\ (IsWriting(j) => IsWriting(job[w])) /\ IsPut(j) = IsPut(job[w])
      BY <1>1 DEF SoftMove, IsPut
    <3> QED BY <1>1, <1>2, <1>3, <2>0, <3>1 DEF JobBuried, Buries
  <2>2. JobTold(w)'
    <3> SUFFICES ASSUME ~overlap, HasTold(j), IsPut(j), Post(w) \notin buried \cup halfway
                 PROVE  Told(Post(w))'
      BY <1>2, <1>3 DEF JobTold
    <3> DEFINE p == Post(w)
    <3>1. IsPut(job[w]) BY <1>1 DEF IsPut
    <3>4. p' = p BY <1>2 DEF p
    <3>2. Told(p) \/ ToldAfter(p)
      <4>1. CASE HasTold(job[w]) BY <2>0, <3>1, <4>1 DEF JobTold
      <4>2. CASE IsWriting(job[w]) /\ j.rels.replied = {}
        <5>1. StandsOn(w) BY <1>0 DEF SeqInv
        <5>2. job[w].rels = Parents(p) BY <3>1, <4>2, <5>1 DEF StandsOn, Post
        <5>3. IsWriting(j)
          BY <1>1, <4>2, <3>1 DEF HasTold, IsWriting, JobOK
        <5>4. Replied[p] = {}
          BY <4>2, <5>2, <5>3 DEF SoftMove, Parents
        <5> QED BY <5>4 DEF Told
      <4> QED BY <4>1, <4>2
    <3> HIDE DEF p
    <3>3. Told(p)' BY <3>2, <3>4 DEF Told, ToldAfter, Around
    <3> QED BY <3>3 DEF p
  <2>3. JobDown(w)'
    BY <1>1, <1>2, <1>3, <2>0 DEF JobDown
  <2> QED BY <2>1, <2>2, <2>3
<1>8. \A v \in Loops : (JobBuried(v) /\ JobTold(v) /\ JobDown(v))'
  BY <1>0, <1>2, <1>3, <1>7, OthersKept
<1>9. \A p \in Posts : graph'.post[p] # NoPost /\ graph'.post[p].deleted => p \in buried'
  BY <1>0, <1>3 DEF BuriedInv, Buries
<1>10. LogOrder' BY <1>0, <1>3, OrderSame
<1>11. SeqInv'
  <2> SUFFICES ASSUME ~overlap
               PROVE  Sequential' /\ EdgesHold' /\ DueInv' /\ FreshInv'
                      /\ \A v \in Loops : Busy(v)' => StandsOn(v)'
    BY <1>3 DEF SeqInv
  <2>0. Sequential /\ EdgesHold /\ DueInv /\ FreshInv /\ \A v \in Loops : Busy(v) => StandsOn(v)
    BY <1>0 DEF SeqInv
  <2>1. Sequential' BY <1>0, <1>1, <1>3, <2>0, SequentialStep
  <2>2. EdgesHold' BY <2>0, EdgesSame
  <2>3. \A p \in Posts : Due(p) => Due(p)' BY <1>0, <1>1, <1>3, DueStep
  <2>4. DueInv' BY <1>3, <2>0, <2>3, DueSame
  <2>5. FreshInv' BY <1>0, <1>1, <1>3, <2>0, FreshSame
  <2>6. ASSUME NEW v \in Loops, Busy(v)' PROVE StandsOn(v)'
    <3>1. CASE v = w
      <4>1. StandsOn(w) BY <2>0
      <4>2. /\ Removes(j) => Removes(job[w]) /\ job[w].pc # "find"
            /\ IsWriting(j) => IsWriting(job[w]) /\ j.rels = job[w].rels
            /\ IsPut(j) = IsPut(job[w])
        BY <1>1 DEF SoftMove, IsPut
      <4> QED BY <1>1, <1>2, <3>1, <4>1, <4>2 DEF StandsOn, SameLinks, Exists
    <3>2. CASE v # w
      <4>1. job'[v] = job[v] /\ Busy(v) BY <1>2, <2>6, <3>2 DEF Busy
      <4> QED BY <2>0, <4>1, StandsSame
    <3> QED BY <3>1, <3>2
  <2> QED BY <2>1, <2>2, <2>4, <2>5, <2>6
<1>12. (log \in [LiveLoops -> Seq(Event)])' /\ (queue \subseteq Event)'
       /\ graph.takedown \subseteq graph'.takedown
  BY <1>0, <1>3 DEF TypeInv
<1> QED BY <1>4, <1>6, <1>8, <1>9, <1>10, <1>11, <1>12, Assemble

(* One that tells nobody.                                                  *)
LEMMA PlainKeeps ==
  ASSUME PostInv, NEW w \in Loops, Busy(w), NEW j \in JobType, PlainMove(job[w], j),
         Around(w), SameLinks(graph, graph'), SameInputs, job' = [job EXCEPT ![w] = j]
  PROVE  PostInv'
BY SoftKeeps DEF PlainMove

(* A write that fails gives the handler up: nothing is lost, for its event *)
(* waits where it was taken from.                                          *)
LEMMA AbortKeeps ==
  ASSUME PostInv, NEW w \in Loops, Busy(w),
         Around(w), SameLinks(graph, graph'), SameInputs, job' = [job EXCEPT ![w] = Idle]
  PROVE  PostInv'
<1>0. /\ TypeInv /\ JobsInv /\ TakedownInv /\ LogOrder /\ SeqInv /\ BuriedInv /\ ToldInv
      /\ job \in [Loops -> JobType]
  BY DEF PostInv, TypeInv
<1>2. /\ job'[w] = Idle /\ ~Busy(w)' /\ \A v \in Loops : v # w => job'[v] = job[v]
  BY <1>0, IdleFacts DEF Busy
<1>3. /\ overlap' = overlap /\ hs' = hs /\ log' = log /\ queue' = queue
      /\ graph'.takedown = graph.takedown /\ graph'.post = graph.post
      /\ buried \subseteq buried' /\ halfway \subseteq halfway'
  BY DEF Around, SameInputs, SameLinks
<1>4. JobsInv' /\ (job \in [Loops -> JobType])'
  BY <1>0, IdleFacts, JobsStep
<1>6. \A p \in graph'.takedown : Gone(graph'.post[p]) \/ Waits(p)'
  <2> SUFFICES ASSUME NEW p \in graph.takedown PROVE Gone(graph.post[p]) \/ Waits(p)'
    BY <1>3
  <2>1. Gone(graph.post[p]) \/ Waits(p) BY <1>0 DEF TakedownInv
  <2> QED BY <1>0, <2>1, WaitsAbort
<1>8. \A v \in Loops : (JobBuried(v) /\ JobTold(v) /\ JobDown(v))'
  BY <1>0, <1>2, <1>3, OthersKept, IdleParts
<1>9. \A p \in Posts : graph'.post[p] # NoPost /\ graph'.post[p].deleted => p \in buried'
  BY <1>0, <1>3 DEF BuriedInv, Buries
<1>10. LogOrder' BY <1>0, <1>3, OrderSame
<1>11. SeqInv'
  <2> SUFFICES ASSUME ~overlap
               PROVE  Sequential' /\ EdgesHold' /\ DueInv' /\ FreshInv'
                      /\ \A v \in Loops : Busy(v)' => StandsOn(v)'
    BY <1>3 DEF SeqInv
  <2>0. Sequential /\ EdgesHold /\ DueInv /\ FreshInv /\ \A v \in Loops : Busy(v) => StandsOn(v)
    BY <1>0 DEF SeqInv
  <2>1. Sequential' BY <1>0, <1>3, <2>0, SequentialStep, IdleFacts
  <2>2. EdgesHold' BY <2>0, EdgesSame
  <2>3. \A p \in Posts : Due(p) => Due(p)' BY <1>0, <1>3, DueAbort
  <2>4. DueInv' BY <1>3, <2>0, <2>3, DueSame
  <2>5. FreshInv' BY <1>0, <1>3, <2>0, FreshSame, IdleFacts
  <2>6. ASSUME NEW v \in Loops, Busy(v)' PROVE StandsOn(v)'
    <3>1. v # w BY <1>2, <2>6
    <3>2. job'[v] = job[v] /\ Busy(v) BY <1>2, <2>6, <3>1 DEF Busy
    <3> QED BY <2>0, <3>2, StandsSame
  <2> QED BY <2>1, <2>2, <2>4, <2>5, <2>6
<1>12. (log \in [LiveLoops -> Seq(Event)])' /\ (queue \subseteq Event)'
       /\ graph.takedown \subseteq graph'.takedown
  BY <1>0, <1>3 DEF TypeInv
<1> QED BY <1>4, <1>6, <1>8, <1>9, <1>10, <1>11, <1>12, Assemble

(* A post whose details appear by a read-through was found halfway.        *)
LEMMA ObserveFacts ==
  ASSUME TypeInv, NEW w, Observe(w)
  PROVE  /\ halfway \subseteq halfway' /\ halfway' \subseteq Posts
         /\ \A q \in Posts :
               index.details[q] = NoPost /\ index'.details[q] # NoPost
                 /\ job[w].pc \notin {"edit", "finish", "reindex"} => q \in halfway'
<1> DEFINE filled == {q \in Posts : /\ index.details[q] = NoPost /\ index'.details[q] # NoPost
                                   /\ job[w].pc \notin {"edit", "finish", "reindex"}}
           kept == {q \in Posts : /\ At(w, "find") /\ q = Post(w) /\ At(w, "graph")'
                                 /\ index.rel[q] = NoRel /\ index.details[q] # NoPost}
<1>0. halfway \subseteq Posts BY DEF TypeInv
<1>1. halfway' = halfway \cup filled \cup kept BY DEF Observe
<1>2. kept \subseteq Posts OBVIOUS
<1> HIDE DEF kept
<1> QED BY <1>0, <1>1, <1>2

(* A step goes through, or the handler is given up.                        *)
LEMMA ProceedFacts ==
  ASSUME TypeInv, NEW w \in Loops, Busy(w), Post(w) \in Posts, NEW k, NEW j, Proceed(w, k, j), Observe(w)
  PROVE  /\ \/ k = Full /\ job' = [job EXCEPT ![w] = j]
               /\ buried' = IF j.body = Tombstone THEN buried \cup {Post(w)} ELSE buried
            \/ k < Full /\ job' = [job EXCEPT ![w] = Idle] /\ buried' = buried
         /\ SameInputs /\ hs' = hs /\ overlap' = overlap
         /\ buried \subseteq buried' /\ buried' \subseteq Posts
         /\ halfway \subseteq halfway' /\ halfway' \subseteq Posts
         /\ \A q \in Posts :
               index.details[q] = NoPost /\ index'.details[q] # NoPost
                 /\ job[w].pc \notin {"edit", "finish", "reindex"} => q \in halfway'
<1>0. job \in [Loops -> JobType] /\ buried \subseteq Posts /\ halfway \subseteq Posts BY DEF TypeInv
<1>1. halfway \subseteq halfway' /\ halfway' \subseteq Posts
      /\ \A q \in Posts :
               index.details[q] = NoPost /\ index'.details[q] # NoPost
                 /\ job[w].pc \notin {"edit", "finish", "reindex"} => q \in halfway'
  BY ObserveFacts
<1>2. Idle.body # Tombstone BY Nature, IdleFacts
<1>3. SameInputs /\ hs' = hs /\ overlap' = overlap
  BY DEF Proceed, SameInputs, inputs
<1>4. CASE k = Full /\ job' = [job EXCEPT ![w] = j]
  <2>1. job'[w] = j BY <1>0, <1>4
  <2>2. buried' = IF j.body = Tombstone THEN buried \cup {Post(w)} ELSE buried
    BY <2>1 DEF Proceed
  <2>3. buried \subseteq buried' /\ buried' \subseteq Posts BY <1>0, <2>2
  <2> QED BY <1>1, <1>3, <1>4, <2>2, <2>3
<1>5. CASE k < Full /\ job' = [job EXCEPT ![w] = Idle]
  <2>1. job'[w] = Idle BY <1>0, <1>5
  <2>2. buried' = buried
    BY <1>2, <2>1 DEF Proceed
  <2> QED BY <1>0, <1>1, <1>3, <1>5, <2>2
<1> QED BY <1>4, <1>5 DEF Proceed

(* Both, for a step that passes no point an invariant is about.            *)
LEMMA PlainAction ==
  ASSUME PostInv, NEW w \in Loops, Busy(w), NEW k, NEW j, Proceed(w, k, j), Observe(w),
         k = Full => PlainMove(job[w], j), GraphOK(graph'), SameLinks(graph, graph'), IndexOK(index'),
         index.note \subseteq index'.note, DetailsMove(w)
  PROVE  PostInv'
<1>0. TypeInv /\ JobsInv BY DEF PostInv
<1>1. Post(w) \in Posts BY <1>0, EventFacts
<1>2. /\ \/ k = Full /\ job' = [job EXCEPT ![w] = j]
         \/ job' = [job EXCEPT ![w] = Idle]
      /\ SameInputs /\ hs' = hs /\ overlap' = overlap
      /\ buried \subseteq buried' /\ buried' \subseteq Posts
      /\ halfway \subseteq halfway' /\ halfway' \subseteq Posts
  BY <1>0, <1>1, ProceedFacts
<1>3. Around(w) BY <1>2 DEF Around
<1>4. CASE k = Full /\ job' = [job EXCEPT ![w] = j]
  <2>1. j \in JobType /\ PlainMove(job[w], j) BY <1>4 DEF PlainMove, SoftMove
  <2> QED BY <1>2, <1>3, <1>4, <2>1, PlainKeeps
<1>5. CASE job' = [job EXCEPT ![w] = Idle]
  BY <1>2, <1>3, <1>5, AbortKeeps
<1> QED BY <1>2, <1>4, <1>5

(* A step that leaves the details alone.                                   *)
LEMMA AsideAction ==
  ASSUME PostInv, NEW w \in Loops, Busy(w), NEW k, NEW j, Proceed(w, k, j), Observe(w),
         k = Full => PlainMove(job[w], j), GraphOK(graph'), SameLinks(graph, graph'),
         IndexOK(index'), index'.details = index.details, index.note \subseteq index'.note
  PROVE  PostInv'
BY PlainAction DEF DetailsMove

(* What the invariant says of the stores and of a running handler.         *)
LEMMA InvFacts ==
  ASSUME PostInv
  PROVE  /\ TypeInv /\ JobsInv /\ GraphOK(graph) /\ IndexOK(index)
         /\ SameLinks(graph, graph) /\ Aside(index, index)
         /\ \A w \in Loops : Busy(w) => /\ job[w] \in JobType /\ JobOK(job[w])
                                        /\ Post(w) \in Posts /\ job[w].ev \in Event
                                        /\ Within(job[w].rels, Post(w))
BY EventFacts DEF PostInv, TypeInv, SameLinks, Aside

(* Collected edges do not concern the invariant.                           *)
LEMMA StepEdges ==
  ASSUME PostInv, NEW w \in Loops, Observe(w), SyncCollectedEdges(w)
  PROVE  PostInv'
<1>0. At(w, "edges") /\ Busy(w) BY DEF SyncCollectedEdges, At, Busy
<1> DEFINE i == job[w]
           p == Post(w)
           items == IF i.body = NoPost THEN {} ELSE Items[i.body.c]
           touched == TouchedItems(graph, p, items, i.body)
           j == [i EXCEPT !.pc = "touched", !.touched = touched]
<1>1. PICK k \in {0, Full} :
        /\ graph' = IF k = Full THEN SyncCollectionItems(graph, p, items, i.body) ELSE graph
        /\ Proceed(w, k, j)
  BY DEF SyncCollectedEdges
<1>2. index' = index BY DEF SyncCollectedEdges
<1>3. GraphOK(graph') /\ SameLinks(graph, graph')
  BY <1>0, <1>1, InvFacts, CollectedKeep
<1>4. i \in JobType /\ JobOK(i) /\ IndexOK(index) BY <1>0, InvFacts
<1>5. PlainMove(i, j)
  <2>1. items \in SUBSET Posts
    BY <1>4, Nature DEF JobType, Body, Details
  <2>2. touched \in SUBSET Posts
    BY <2>1 DEF TouchedItems, CurrentItems
  <2>3. i.pc = "edges" BY <1>0 DEF At
  <2> HIDE DEF touched, i, items
  <2>4. /\ j \in JobType /\ j.pc = "touched" /\ j.next = i.next /\ j.todo = i.todo /\ j.body = i.body /\ j.old = i.old
        /\ j.ev = i.ev /\ j.newer = i.newer /\ j.ret = i.ret /\ j.rels = i.rels /\ j.failed = i.failed
    BY <1>4, <2>2 DEF JobType, Points
  <2> HIDE DEF j
  <2> QED BY <1>4, <2>3, <2>4 DEF PlainMove, SoftMove, JobOK, Removes, IsWriting, IsPut, Obliged, Works, HasTold
<1> HIDE DEF j
<1> QED BY <1>0, <1>1, <1>2, <1>3, <1>4, <1>5, AsideAction

(* Neither do the counts of collected posts.                               *)
LEMMA StepTouched ==
  ASSUME PostInv, NEW w \in Loops, Observe(w), InvalidateTouched(w)
  PROVE  PostInv'
<1>0. At(w, "touched") /\ Busy(w) BY DEF InvalidateTouched, At, Busy
<1> DEFINE i == job[w]
           j == [i EXCEPT !.pc = i.next, !.touched = {}]
<1>1. PICK k \in {0, Full} :
        /\ index' = IF k = Full THEN Invalidate(index, i.touched) ELSE index
        /\ Proceed(w, k, j)
  BY DEF InvalidateTouched
<1>2. graph' = graph BY DEF InvalidateTouched
<1>4. i \in JobType /\ JobOK(i) /\ IndexOK(index) /\ GraphOK(graph) BY <1>0, InvFacts
<1>3. Aside(index, index') BY <1>1, <1>4, InvalidateAside DEF Aside
<1>5. PlainMove(i, j)
  <2>3. i.pc = "touched" BY <1>0 DEF At
  <2> HIDE DEF i
  <2>4. /\ j \in JobType /\ j.pc = i.next /\ j.next = i.next /\ j.todo = i.todo /\ j.body = i.body /\ j.old = i.old
        /\ j.ev = i.ev /\ j.newer = i.newer /\ j.ret = i.ret /\ j.rels = i.rels /\ j.failed = i.failed
    BY <1>4 DEF JobType
  <2> HIDE DEF j
  <2> QED BY <1>4, <2>3, <2>4 DEF PlainMove, SoftMove, JobOK, Removes, IsWriting, IsPut, Obliged, Works, HasTold
<1> HIDE DEF j
<1> QED BY <1>0, <1>1, <1>2, <1>3, <1>4, <1>5, AsideAction DEF Aside, SameLinks

(* A handler that moves to another point.                                  *)
LEMMA GotoFacts ==
  ASSUME NEW w, job[w] \in JobType, NEW l \in Points
  PROVE  LET i == job[w]
             j == Goto(w, l)
         IN /\ j \in JobType /\ j.pc = l /\ j.next = i.next /\ j.todo = {} /\ j.body = i.body
            /\ j.old = i.old /\ j.ev = i.ev /\ j.newer = i.newer /\ j.ret = i.ret
            /\ j.rels = i.rels /\ j.failed = i.failed
<1> DEFINE i == job[w]
<1>1. Goto(w, l) = [i EXCEPT !.pc = l, !.todo = {}] BY DEF Goto
<1> HIDE DEF i
<1> QED BY <1>1 DEF JobType, i

(* The points after the last write of a put.                               *)
LEMMA AfterPutFacts ==
  ASSUME NEW w, job[w] \in JobType, JobOK(job[w]), IsWriting(job[w]), job[w].pc # "idle"
  PROVE  LET j == AfterPut(w)
         IN /\ PlainMove(job[w], j) /\ j.pc \in {"recheck", "store"} /\ j.todo = {}
            /\ j.body = job[w].body
<1> DEFINE i == job[w]
           j == AfterPut(w)
           l == IF IsPut(i) THEN "recheck" ELSE "store"
<1>1. j = Goto(w, l) /\ l \in Points BY DEF AfterPut, IsPut, Points
<1>2. /\ j \in JobType /\ j.pc = l /\ j.next = i.next /\ j.todo = {} /\ j.body = i.body
      /\ j.old = i.old /\ j.ev = i.ev /\ j.newer = i.newer /\ j.ret = i.ret
      /\ j.rels = i.rels /\ j.failed = i.failed
  BY <1>1, GotoFacts
<1> HIDE DEF i, j
<1>3. PlainMove(i, j)
  BY <1>2 DEF i, l, PlainMove, SoftMove, JobOK, Removes, IsWriting, IsPut, Obliged, Works, HasTold
<1> QED BY <1>2, <1>3 DEF i, j

(* An edit stores the details of a post that was announced before.         *)
LEMMA StepEdit ==
  ASSUME PostInv, NEW w \in Loops, Observe(w), SyncEdit(w)
  PROVE  PostInv'
<1>0. At(w, "edit") /\ Busy(w) BY DEF SyncEdit, At, Busy
<1> DEFINE i == job[w]
<1>2. graph' = graph BY DEF SyncEdit
<1>4. /\ i \in JobType /\ JobOK(i) /\ IndexOK(index) /\ GraphOK(graph) /\ i.pc # "idle"
      /\ Post(w) \in Posts /\ i.body \in Body
  BY <1>0, InvFacts DEF Busy, JobType
<1>5. IsWriting(i) /\ HasTold(i) /\ i.pc = "edit" BY <1>0 DEF At, IsWriting, HasTold
<1>6. CASE IsDifferentThan(i.old, i.body)
  <2> DEFINE j == Goto(w, "tell")
  <2>1. PICK k \in {0, Full} : /\ index' = PutDetails(index, Post(w), i.body, {}, TRUE, k)
                               /\ Proceed(w, k, j)
    BY <1>6 DEF SyncEdit
  <2>2. PlainMove(i, j)
    <3>1. /\ j \in JobType /\ j.pc = "tell" /\ j.next = i.next /\ j.todo = {} /\ j.body = i.body
          /\ j.old = i.old /\ j.ev = i.ev /\ j.newer = i.newer /\ j.ret = i.ret
          /\ j.rels = i.rels /\ j.failed = i.failed
      BY <1>4, GotoFacts DEF Points
    <3> HIDE DEF i, j
    <3> QED BY <1>4, <1>5, <3>1 DEF PlainMove, SoftMove, JobOK, Removes, IsWriting, IsPut, Obliged, Works, HasTold
  <2>3. k \in Nat BY DEF Full
  <2>4. /\ IndexOK(index') /\ index'.note = index.note
        /\ index'.details = [index.details EXCEPT ![Post(w)] = IF k >= 1 THEN i.body ELSE @]
    <3>1. \A e : LET y == PutDetails(index, Post(w), i.body, {}, e, k) IN
               /\ IndexOK(y) /\ y.note = index.note
               /\ y.details = [index.details EXCEPT ![Post(w)] = IF k >= 1 THEN i.body ELSE @]
      BY <1>4, <2>3, PutDetailsFacts
    <3>2. LET y == PutDetails(index, Post(w), i.body, {}, TRUE, k) IN
               /\ IndexOK(y) /\ y.note = index.note
               /\ y.details = [index.details EXCEPT ![Post(w)] = IF k >= 1 THEN i.body ELSE @]
      BY <3>1, Zenon
    <3> QED BY <2>1, <3>2
  <2>5. DetailsMove(w)
    BY <1>4, <1>5, <2>4 DEF DetailsMove, IndexOK
  <2> HIDE DEF j
  <2> QED BY <1>0, <1>2, <1>4, <2>1, <2>2, <2>4, <2>5, PlainAction DEF SameLinks
<1>7. CASE ~IsDifferentThan(i.old, i.body)
  <2>1. Proceed(w, Full, AfterPut(w)) /\ index' = index BY <1>7 DEF SyncEdit
  <2>2. PlainMove(i, AfterPut(w)) BY <1>4, <1>5, AfterPutFacts
  <2> QED BY <1>0, <1>2, <1>4, <2>1, <2>2, AsideAction DEF SameLinks
<1> QED BY <1>6, <1>7

(* The notifications of an edit come on top.                               *)
LEMMA StepChanged ==
  ASSUME PostInv, NEW w \in Loops, Observe(w), ChangedPost(w)
  PROVE  PostInv'
<1>0. At(w, "tell") /\ Busy(w) BY DEF ChangedPost, At, Busy
<1> DEFINE i == job[w]
           p == Post(w)
           kind == IF job[w].body.deleted THEN "deleted" ELSE "edited"
           linked == Notify(index, Author[p], LinkedUsers(graph, p), kind, p)
           parents == {Author[q] : q \in job[w].rels.replied}
           both == Notify(linked, Author[p], parents, kind, p)
<1>2. graph' = graph BY DEF ChangedPost
<1>4. i \in JobType /\ JobOK(i) /\ IndexOK(index) /\ GraphOK(graph) /\ i.pc # "idle"
  BY <1>0, InvFacts DEF Busy
<1>1. PICK k \in {0, 1, Full} :
        /\ index' = CASE k = 0 -> index [] k = 1 -> linked [] k = Full -> both
        /\ Proceed(w, k, AfterPut(w))
  BY DEF ChangedPost
<1>3. index' \in {index, linked, both} BY <1>1 DEF Full
<1>5. PlainMove(i, AfterPut(w))
  <2>1. IsWriting(i) BY <1>0 DEF At, IsWriting
  <2> QED BY <1>4, <2>1, AfterPutFacts
<1>6. IndexOK(linked) /\ linked.details = index.details /\ index.note \subseteq linked.note
  BY <1>4, NotifyFacts
<1>7. IndexOK(both) /\ both.details = linked.details /\ linked.note \subseteq both.note
  BY <1>6, NotifyFacts
<1> HIDE DEF linked, both
<1>8. IndexOK(index') /\ index'.details = index.details /\ index.note \subseteq index'.note
  BY <1>3, <1>4, <1>6, <1>7
<1> QED BY <1>0, <1>1, <1>2, <1>4, <1>5, <1>8, AsideAction DEF SameLinks

(* So do those of mentions.                                                *)
LEMMA StepMentions ==
  ASSUME PostInv, NEW w \in Loops, Observe(w), PutMentions(w)
  PROVE  PostInv'
<1>0. (At(w, "mentions") \/ At(w, "remention")) /\ Busy(w) BY DEF PutMentions, At, Busy
<1> DEFINE i == job[w]
           p == Post(w)
           us == Mentions[job[w].body.c]
           fresh == At(w, "mentions")
           l == IF fresh /\ ~IsCollection(job[w].body) THEN "counts" ELSE "edges"
           n == IF fresh THEN "counts" ELSE "reindex"
           j == [i EXCEPT !.pc = l, !.next = n]
           h == CreateMentions(graph, p, us)
           y == Notify(index, Author[p], us, "mention", p)
<1>4. i \in JobType /\ JobOK(i) /\ IndexOK(index) /\ GraphOK(graph) /\ i.pc # "idle"
  BY <1>0, InvFacts DEF Busy
<1>1. PICK k \in {0, 1, Full} :
        /\ graph' = IF k >= 1 THEN h ELSE graph
        /\ index' = IF k = Full THEN y ELSE index
        /\ Proceed(w, k, j)
  BY DEF PutMentions
<1>2. GraphOK(graph') /\ SameLinks(graph, graph')
  <2>1. GraphOK(h) /\ SameLinks(graph, h) BY <1>4, MentionsKeep
  <2> HIDE DEF h
  <2> QED BY <1>1, <1>4, <2>1 DEF SameLinks
<1>3. IndexOK(index') /\ index'.details = index.details /\ index.note \subseteq index'.note
  <2>1. IndexOK(y) /\ y.details = index.details /\ index.note \subseteq y.note BY <1>4, NotifyFacts
  <2> HIDE DEF y
  <2> QED BY <1>1, <1>4, <2>1
<1>5. PlainMove(i, j)
  <2>1. \/ i.pc = "mentions" /\ l \in {"counts", "edges"} /\ n = "counts"
        \/ i.pc = "remention" /\ l = "edges" /\ n = "reindex"
    BY <1>0 DEF At
  <2>2. l \in Points /\ n \in Points BY DEF Points
  <2> HIDE DEF i, l, n
  <2>4. /\ j \in JobType /\ j.pc = l /\ j.next = n /\ j.todo = i.todo /\ j.body = i.body /\ j.old = i.old
        /\ j.ev = i.ev /\ j.newer = i.newer /\ j.ret = i.ret /\ j.rels = i.rels /\ j.failed = i.failed
    BY <1>4, <2>2 DEF JobType
  <2> HIDE DEF j
  <2> QED BY <1>4, <2>1, <2>4 DEF PlainMove, SoftMove, JobOK, Removes, IsWriting, IsPut, Obliged, Works, HasTold
<1> HIDE DEF j
<1> QED BY <1>0, <1>1, <1>2, <1>3, <1>5, AsideAction

(* A handler that enters a join.                                           *)
LEMMA BlockFacts ==
  ASSUME NEW w, job[w] \in JobType, NEW l \in {"reply", "repost", "finish", "reindex", "unreply", "unrepost"}
  PROVE  LET i == job[w]
             j == Block(w, l)
         IN /\ j \in JobType /\ j.pc = l /\ j.next = i.next /\ j.body = i.body
            /\ j.old = i.old /\ j.ev = i.ev /\ j.newer = i.newer /\ j.ret = i.ret
            /\ j.rels = i.rels /\ j.failed = i.failed
            /\ l = "reply" => j.todo = {"uncount", "bump", "thread", "tell"}
            /\ l = "repost" => j.todo = {"uncount", "bump", "tell"}
            /\ l = "finish" => j.todo = {"rel", "details"}
            /\ l = "reindex" => j.todo = {"details", "rel", "counts"}
            /\ l \in {"unreply", "unrepost"} => j.todo = {"bump", "tell"}
<1> DEFINE i == job[w]
           t == CASE l = "reply"   -> {"uncount", "bump", "thread", "tell"}
                  [] l = "repost"  -> {"uncount", "bump", "tell"}
                  [] l = "finish"  -> {"rel", "details"}
                  [] l = "reindex" -> {"details", "rel", "counts"}
                  [] l = "unreply" -> {"bump", "tell"}
                  [] l = "unrepost" -> {"bump", "tell"}
<1>1. Block(w, l) = [i EXCEPT !.pc = l, !.todo = t] BY DEF Block
<1>2. /\ l = "reply" => t = {"uncount", "bump", "thread", "tell"}
      /\ l = "repost" => t = {"uncount", "bump", "tell"}
      /\ l = "finish" => t = {"rel", "details"}
      /\ l = "reindex" => t = {"details", "rel", "counts"}
      /\ l \in {"unreply", "unrepost"} => t = {"bump", "tell"}
  OBVIOUS
<1>3. t \in SUBSET Writes BY DEF Writes
<1>4. l \in Points BY DEF Points
<1> HIDE DEF i, t
<1> QED BY <1>1, <1>2, <1>3, <1>4 DEF JobType, i

(* From a join or the point before it to the next join.                    *)
LEMMA BlockMove ==
  ASSUME NEW w, job[w] \in JobType, JobOK(job[w]), job[w].pc # "idle",
         NEW l \in {"reply", "repost", "finish", "unreply", "unrepost"},
         \/ job[w].pc \in {"counts", "reply"} /\ l \in {"repost", "finish"}
         \/ job[w].pc = "counts" /\ l = "reply"
         \/ job[w].pc = "repost" /\ l = "finish"
         \/ job[w].pc \in {"uncount", "unreply"} /\ l \in {"unreply", "unrepost"},
         l \in {"reply", "unreply"} => job[w].rels.replied # {},
         l \in {"repost", "unrepost"} => job[w].rels.reposted # {}
  PROVE  /\ SoftMove(job[w], Block(w, l))
         /\ \/ HasTold(job[w]) \/ (IsWriting(job[w]) /\ job[w].rels.replied = {})
            \/ l \in {"reply", "unreply", "unrepost"}
            => PlainMove(job[w], Block(w, l))
<1> DEFINE i == job[w]
           j == Block(w, l)
<1>1. /\ j \in JobType /\ j.pc = l /\ j.next = i.next /\ j.body = i.body
      /\ j.old = i.old /\ j.ev = i.ev /\ j.newer = i.newer /\ j.ret = i.ret
      /\ j.rels = i.rels /\ j.failed = i.failed
      /\ l = "reply" => j.todo = {"uncount", "bump", "thread", "tell"}
      /\ l = "repost" => j.todo = {"uncount", "bump", "tell"}
      /\ l = "finish" => j.todo = {"rel", "details"}
      /\ l \in {"unreply", "unrepost"} => j.todo = {"bump", "tell"}
  BY BlockFacts
<1> HIDE DEF i, j
<1>2. JobOK(i) BY DEF i
<1>3. \/ i.pc \in {"counts", "reply"} /\ l \in {"repost", "finish"}
      \/ i.pc = "counts" /\ l = "reply"
      \/ i.pc = "repost" /\ l = "finish"
      \/ i.pc \in {"uncount", "unreply"} /\ l \in {"unreply", "unrepost"}
  BY DEF i
<1>4. (l \in {"reply", "unreply"} => i.rels.replied # {}) /\ (l \in {"repost", "unrepost"} => i.rels.reposted # {})
  BY DEF i
<1>5. JobOK(j) BY <1>1, <1>2, <1>3, <1>4 DEF JobOK, Removes, IsWriting, IsPut
<1>6. SoftMove(i, j)
  BY <1>1, <1>3, <1>5 DEF SoftMove, Removes, IsWriting, IsPut, Obliged, Works
<1>7. l \in {"reply", "unreply", "unrepost"} => ~HasTold(j) BY <1>1 DEF HasTold
<1> HIDE DEF i
<1>8. \/ HasTold(i) \/ (IsWriting(i) /\ i.rels.replied = {}) \/ l \in {"reply", "unreply", "unrepost"}
      => PlainMove(i, j)
  BY <1>1, <1>6, <1>7 DEF PlainMove
<1> QED BY <1>6, <1>8 DEF i, j

(* A new post gets its counts before its parents are told.                 *)
LEMMA StepCounts ==
  ASSUME PostInv, NEW w \in Loops, Observe(w), PutDefaultCounts(w)
  PROVE  PostInv'
<1>0. At(w, "counts") /\ Busy(w) BY DEF PutDefaultCounts, At, Busy
<1> DEFINE i == job[w]
           p == Post(w)
           isReply == job[w].rels.replied # {}
<1>2. graph' = graph BY DEF PutDefaultCounts
<1>4. i \in JobType /\ JobOK(i) /\ IndexOK(index) /\ GraphOK(graph) /\ i.pc # "idle"
  BY <1>0, InvFacts DEF Busy
<1>1. PICK k : /\ index' = index \/ \E n, e : index' = PutCounts(index, p, n, e, k)
               /\ Proceed(w, k, AfterCounts(w))
  <2>1. CASE index.counts[p] = NoCounts
    <3>1. PICK k \in {0, 1, Full} :
                 /\ index' = PutCounts(index, p, [links |-> 0, collections |-> 0], isReply, k)
                 /\ Proceed(w, k, AfterCounts(w))
      BY <2>1 DEF PutDefaultCounts
    <3>2. \E n, e : index' = PutCounts(index, p, n, e, k) BY <3>1, Zenon
    <3> QED BY <3>1, <3>2
  <2>2. CASE index.counts[p] # NoCounts
    BY <2>2 DEF PutDefaultCounts
  <2> QED BY <2>1, <2>2
<1>3. Aside(index, index')
  <2>1. \A n, e : Aside(index, PutCounts(index, p, n, e, k)) BY <1>4, PutCountsAside
  <2>2. Aside(index, index) BY <1>4 DEF Aside
  <2> QED BY <1>1, <2>1, <2>2, Zenon
<1>5. PlainMove(i, AfterCounts(w))
  <2>1. i.pc = "counts" BY <1>0 DEF At
  <2>2. PICK l \in {"reply", "repost", "finish"} :
           /\ AfterCounts(w) = Block(w, l)
           /\ l = "reply" => i.rels.replied # {}
           /\ l # "reply" => i.rels.replied = {}
           /\ l = "repost" => i.rels.reposted # {}
    BY DEF AfterCounts
  <2>3. IsWriting(i) BY <2>1 DEF IsWriting
  <2> QED BY <1>4, <2>1, <2>2, <2>3, BlockMove
<1> QED BY <1>0, <1>1, <1>2, <1>3, <1>4, <1>5, AsideAction DEF Aside, SameLinks

(* The join that restores a post follows its parents.                      *)
LEMMA StepReindex ==
  ASSUME PostInv, NEW w \in Loops, Observe(w), Reindex(w)
  PROVE  PostInv'
<1>0. At(w, "reindex") /\ Busy(w) BY DEF Reindex, At, Busy
<1> DEFINE i == job[w]
           j == Block(w, "reindex")
<1>1. Proceed(w, Full, j) /\ graph' = graph /\ index' = index BY DEF Reindex, stores
<1>4. i \in JobType /\ JobOK(i) /\ IndexOK(index) /\ GraphOK(graph)
  BY <1>0, InvFacts DEF Busy
<1>2. i.pc = "reindex" BY <1>0 DEF At
<1>5. PlainMove(i, j)
  <2>1. /\ j \in JobType /\ j.pc = "reindex" /\ j.next = i.next /\ j.body = i.body
        /\ j.old = i.old /\ j.ev = i.ev /\ j.newer = i.newer /\ j.ret = i.ret
        /\ j.rels = i.rels /\ j.failed = i.failed
        /\ j.todo = {"details", "rel", "counts"}
    BY <1>4, BlockFacts
  <2> HIDE DEF i, j
  <2> QED BY <1>2, <1>4, <2>1 DEF PlainMove, SoftMove, JobOK, Removes, IsWriting, IsPut, Obliged, Works, HasTold
<1> QED BY <1>0, <1>1, <1>4, <1>5, AsideAction DEF SameLinks

(* Between two points of sync_del.                                         *)
LEMMA RemoveMove ==
  ASSUME NEW i \in JobType, JobOK(i), Removes(i) \/ i.pc = "orphan", NEW j \in JobType,
         i.pc # "find", j.ev = i.ev, j.newer = i.newer, j.ret = i.ret, Within(j.rels, j.ev.p),
         j.body \in {i.body, NoPost}, j.old \in {i.old, NoPost},
         \/ j.pc \in {"gate", "ungate", "uncount", "unindex", "drop"} /\ j.todo = {} /\ Removes(i)
         \/ j.pc = "edges" /\ j.next = "drop" /\ j.todo = {} /\ Removes(i)
         \/ j.pc = "store" /\ j.todo = {} /\ i.pc = "orphan"
  PROVE  PlainMove(i, j)
<1>1. i.pc # "idle" /\ i.ev \in Event BY DEF Removes, JobOK
<1> QED BY <1>1 DEF PlainMove, SoftMove, JobOK, Removes, IsWriting, IsPut, Obliged, Works, HasTold

(* sync_del, up to the deletion from the graph: the gate, ...              *)
LEMMA StepGate ==
  ASSUME PostInv, NEW w \in Loops, Observe(w), Gate(w)
  PROVE  PostInv'
<1>0. At(w, "gate") /\ Busy(w) BY DEF Gate, At, Busy
<1> DEFINE i == job[w]
           p == Post(w)
           known == index.rel[p] # NoRel
           l == IF known THEN "ungate" ELSE "uncount"
           r == IF known THEN index.rel[p]
                         ELSE IF Exists(graph, p) THEN GraphRelationships(graph, p)
                         ELSE NoParents
           j == [i EXCEPT !.pc = l, !.known = known, !.rels = r]
<1>2. graph' = graph BY DEF Gate
<1>4. /\ i \in JobType /\ JobOK(i) /\ IndexOK(index) /\ GraphOK(graph) /\ p \in Posts /\ i.pc = "gate"
  BY <1>0, InvFacts DEF At
<1>1. Proceed(w, Full, j) BY DEF Gate
<1>3. index' \in {index, FillDetails(index, graph, p)} BY DEF Gate
<1>5. r \in Relationships /\ Within(r, p)
  <2>1. known => r \in Relationships /\ Within(r, p) BY <1>4 DEF IndexOK
  <2>2. NoParents \in Relationships /\ Within(NoParents, p) BY DEF NoParents, Relationships, Within
  <2> QED BY <1>4, <2>1, <2>2, RelationshipsFacts
<1>6. PlainMove(i, j)
  <2>1. l \in {"ungate", "uncount"} /\ l \in Points /\ known \in BOOLEAN BY DEF Points
  <2> HIDE DEF i, l, known, r
  <2>2. /\ j \in JobType /\ j.pc = l /\ j.todo = i.todo /\ j.body = i.body /\ j.old = i.old
        /\ j.ev = i.ev /\ j.newer = i.newer /\ j.ret = i.ret /\ j.rels = r
    BY <1>4, <1>5, <2>1 DEF JobType
  <2> HIDE DEF j
  <2>3. i.todo = {} BY <1>4 DEF JobOK
  <2>4. j.ev.p = p BY <2>2 DEF i, Post
  <2> QED BY <1>4, <1>5, <2>1, <2>2, <2>3, <2>4, RemoveMove DEF Removes
<1>7. FillsFrom(index, index', graph)
  <2>1. FillsFrom(index, FillDetails(index, graph, p), graph) BY <1>4, FillDetailsFacts
  <2>2. FillsFrom(index, index, graph) BY <1>4 DEF FillsFrom
  <2> QED BY <1>3, <2>1, <2>2
<1>8. DetailsMove(w)
  <2>1. \A q \in Posts : index.details[q] = NoPost /\ index'.details[q] # NoPost => q \in halfway'
    BY <1>0, <1>1, <1>4, InvFacts, ProceedFacts
  <2> QED BY <1>7, <2>1 DEF FillsFrom, DetailsMove
<1> HIDE DEF j
<1> QED BY <1>0, <1>1, <1>2, <1>4, <1>6, <1>7, <1>8, PlainAction DEF SameLinks, FillsFrom

(* ... the keys of the post that count towards others, ...                 *)
LEMMA StepUngate ==
  ASSUME PostInv, NEW w \in Loops, Observe(w), Ungate(w)
  PROVE  PostInv'
<1>0. At(w, "ungate") /\ Busy(w) BY DEF Ungate, At, Busy
<1> DEFINE i == job[w]
           j == Goto(w, "uncount")
           y == DeleteRelationships(index, Post(w))
<1>2. graph' = graph BY DEF Ungate
<1>4. /\ i \in JobType /\ JobOK(i) /\ IndexOK(index) /\ GraphOK(graph) /\ Post(w) \in Posts /\ i.pc = "ungate"
      /\ Within(i.rels, i.ev.p)
  BY <1>0, InvFacts DEF At, Post
<1>1. PICK k \in {0, Full} : /\ index' = IF k = Full THEN y ELSE index
                             /\ Proceed(w, k, j)
  BY DEF Ungate
<1>3. IndexOK(index') /\ index'.details = index.details /\ index.note \subseteq index'.note
  <2>1. IndexOK(y) /\ y.details = index.details /\ y.note = index.note BY <1>4, DeleteRelationshipsFacts
  <2> HIDE DEF y
  <2> QED BY <1>1, <1>4, <2>1
<1>5. PlainMove(i, j)
  <2>1. /\ j \in JobType /\ j.pc = "uncount" /\ j.todo = {} /\ j.body = i.body
        /\ j.old = i.old /\ j.ev = i.ev /\ j.newer = i.newer /\ j.ret = i.ret /\ j.rels = i.rels
    BY <1>4, GotoFacts DEF Points
  <2> HIDE DEF j
  <2> QED BY <1>4, <2>1, RemoveMove DEF Removes
<1> HIDE DEF j
<1> QED BY <1>0, <1>1, <1>2, <1>3, <1>4, <1>5, AsideAction DEF SameLinks

(* ... its counts, ...                                                     *)
LEMMA StepDropCounts ==
  ASSUME PostInv, NEW w \in Loops, Observe(w), DropCounts(w)
  PROVE  PostInv'
<1>0. At(w, "uncount") /\ Busy(w) BY DEF DropCounts, At, Busy
<1> DEFINE i == job[w]
           j == CASE job[w].rels.replied # {}  -> Block(w, "unreply")
                           [] job[w].rels.replied = {} /\ job[w].rels.reposted # {} ->
                                Block(w, "unrepost")
                           [] OTHER -> Goto(w, "unindex")
<1>2. graph' = graph BY DEF DropCounts
<1>4. /\ i \in JobType /\ JobOK(i) /\ IndexOK(index) /\ GraphOK(graph) /\ Post(w) \in Posts /\ i.pc = "uncount"
      /\ Within(i.rels, i.ev.p)
  BY <1>0, InvFacts DEF At, Post
<1>1. PICK k \in {0, 1, Full} : /\ index' = DeleteCounts(index, Post(w), i.rels.replied = {}, k)
                                /\ Proceed(w, k, j)
  BY DEF DropCounts
<1>3. Aside(index, index')
  <2>1. \A e : Aside(index, DeleteCounts(index, Post(w), e, k)) BY <1>4, DeleteCountsAside
  <2>2. Aside(index, DeleteCounts(index, Post(w), i.rels.replied = {}, k)) BY <2>1, Zenon
  <2> QED BY <1>1, <2>2
<1>5. PlainMove(i, j)
  <2>1. CASE i.rels.replied # {}
    <3>1. j = Block(w, "unreply") BY <2>1
    <3> QED BY <1>4, <2>1, <3>1, BlockMove
  <2>2. CASE i.rels.replied = {} /\ i.rels.reposted # {}
    <3>1. j = Block(w, "unrepost") BY <2>2
    <3> QED BY <1>4, <2>2, <3>1, BlockMove
  <2>3. CASE i.rels.replied = {} /\ i.rels.reposted = {}
    <3>1. j = Goto(w, "unindex") BY <2>3
    <3>2. /\ j \in JobType /\ j.pc = "unindex" /\ j.todo = {} /\ j.body = i.body
          /\ j.old = i.old /\ j.ev = i.ev /\ j.newer = i.newer /\ j.ret = i.ret /\ j.rels = i.rels
      BY <1>4, <3>1, GotoFacts DEF Points
    <3> HIDE DEF j
    <3> QED BY <1>4, <3>2, RemoveMove DEF Removes
  <2> QED BY <2>1, <2>2, <2>3
<1> HIDE DEF j
<1> QED BY <1>0, <1>1, <1>2, <1>3, <1>4, <1>5, AsideAction DEF SameLinks, Aside

(* ... its relationships and details, ...                                  *)
LEMMA StepUnindex ==
  ASSUME PostInv, NEW w \in Loops, Observe(w), Unindex(w)
  PROVE  PostInv'
<1>0. At(w, "unindex") /\ Busy(w) BY DEF Unindex, At, Busy
<1> DEFINE i == job[w]
           j == [i EXCEPT !.pc = "edges", !.body = NoPost, !.next = "drop"]
<1>2. graph' = graph BY DEF Unindex
<1>4. /\ i \in JobType /\ JobOK(i) /\ IndexOK(index) /\ GraphOK(graph) /\ Post(w) \in Posts /\ i.pc = "unindex"
      /\ Within(i.rels, i.ev.p)
  BY <1>0, InvFacts DEF At, Post
<1>1. PICK k \in 0..Full : /\ index' = DeleteDetails(index, Post(w), i.rels.replied, k)
                           /\ Proceed(w, k, j)
  BY DEF Unindex
<1>3. /\ IndexOK(index') /\ index'.note = index.note
      /\ index'.details = [index.details EXCEPT ![Post(w)] = IF k >= 1 THEN NoPost ELSE @]
  BY <1>1, <1>4, DeleteDetailsFacts DEF Full
<1>5. DetailsMove(w) BY <1>3, <1>4 DEF DetailsMove, IndexOK
<1>6. PlainMove(i, j)
  <2> HIDE DEF i
  <2>1. /\ j \in JobType /\ j.pc = "edges" /\ j.todo = i.todo /\ j.body = NoPost /\ j.next = "drop"
        /\ j.old = i.old /\ j.ev = i.ev /\ j.newer = i.newer /\ j.ret = i.ret /\ j.rels = i.rels
    BY <1>4 DEF JobType, Points, Body
  <2> HIDE DEF j
  <2>2. i.todo = {} BY <1>4 DEF JobOK
  <2> QED BY <1>4, <2>1, <2>2, RemoveMove DEF Removes
<1> HIDE DEF j
<1> QED BY <1>0, <1>1, <1>2, <1>3, <1>4, <1>5, <1>6, PlainAction DEF SameLinks

(* ... and after it the counts of its parents.                             *)
LEMMA StepOrphan ==
  ASSUME PostInv, NEW w \in Loops, Observe(w), InvalidateParents(w)
  PROVE  PostInv'
<1>0. At(w, "orphan") /\ Busy(w) BY DEF InvalidateParents, At, Busy
<1> DEFINE i == job[w]
           j == Goto(w, "store")
           y == Invalidate(index, i.rels.replied \cup i.rels.reposted)
<1>2. graph' = graph BY DEF InvalidateParents
<1>4. /\ i \in JobType /\ JobOK(i) /\ IndexOK(index) /\ GraphOK(graph) /\ Post(w) \in Posts /\ i.pc = "orphan"
      /\ Within(i.rels, i.ev.p)
  BY <1>0, InvFacts DEF At, Post
<1>1. PICK k \in {0, Full} : /\ index' = IF k = Full THEN y ELSE index
                             /\ Proceed(w, k, j)
  BY DEF InvalidateParents
<1>3. Aside(index, index')
  <2>1. Aside(index, y) BY <1>4, InvalidateAside
  <2> HIDE DEF y
  <2> QED BY <1>1, <1>4, <2>1 DEF Aside
<1>5. PlainMove(i, j)
  <2>1. /\ j \in JobType /\ j.pc = "store" /\ j.todo = {} /\ j.body = i.body
        /\ j.old = i.old /\ j.ev = i.ev /\ j.newer = i.newer /\ j.ret = i.ret /\ j.rels = i.rels
    BY <1>4, GotoFacts DEF Points
  <2> HIDE DEF j
  <2> QED BY <1>4, <2>1, RemoveMove DEF Removes
<1> HIDE DEF j
<1> QED BY <1>0, <1>1, <1>2, <1>3, <1>4, <1>5, AsideAction DEF SameLinks, Aside

-----------------------------------------------------------------------------
(* Steps that pass a point an invariant is about.                          *)

(* The invariant after a step to another point, from the parts it          *)
(* concerns.                                                               *)
LEMMA MoveKeeps ==
  ASSUME PostInv, NEW w \in Loops, Busy(w), NEW j \in JobType, JobOK(j), j.pc # "idle",
         j.ev = job[w].ev, j.newer = job[w].newer, Around(w), SameInputs,
         job' = [job EXCEPT ![w] = j], graph.takedown \subseteq graph'.takedown,
         \A p \in graph'.takedown : Gone(graph'.post[p]) \/ Waits(p)',
         \A p \in Posts : graph'.post[p] # NoPost /\ graph'.post[p].deleted => p \in buried',
         JobBuried(w)', JobTold(w)', JobDown(w)',
         ~overlap => EdgesHold' /\ DueInv' /\ FreshInv' /\ StandsOn(w)'
  PROVE  PostInv'
<1>0. /\ TypeInv /\ JobsInv /\ TakedownInv /\ LogOrder /\ SeqInv /\ BuriedInv /\ ToldInv
      /\ job \in [Loops -> JobType]
  BY DEF PostInv, TypeInv
<1>1. /\ job'[w] = j /\ Busy(w)' /\ \A v \in Loops : v # w => job'[v] = job[v]
  BY <1>0 DEF Busy
<1>2. /\ overlap' = overlap /\ hs' = hs /\ log' = log /\ queue' = queue
  BY DEF Around, SameInputs
<1>3. JobsInv' /\ (job \in [Loops -> JobType])'
  <2>1. j.newer => w = Retry BY <1>0 DEF JobsInv
  <2> QED BY <1>0, <2>1, JobsStep
<1>4. \A v \in Loops : (JobBuried(v) /\ JobTold(v) /\ JobDown(v))'
  BY <1>0, <1>1, OthersKept
<1>5. LogOrder' BY <1>0, <1>2, OrderSame
<1>6. (log \in [LiveLoops -> Seq(Event)])' /\ (queue \subseteq Event)' BY <1>0, <1>2 DEF TypeInv
<1>7. SeqInv'
  <2> SUFFICES ASSUME ~overlap
               PROVE  Sequential' /\ EdgesHold' /\ DueInv' /\ FreshInv'
                      /\ \A v \in Loops : Busy(v)' => StandsOn(v)'
    BY <1>2 DEF SeqInv
  <2>0. Sequential BY <1>0 DEF SeqInv
  <2>1. Sequential' BY <1>0, <1>2, <2>0, SequentialStep
  <2>2. \A v \in Loops : Busy(v)' => v = w BY <1>1, <2>1 DEF Sequential
  <2> QED BY <2>1, <2>2
<1> QED BY <1>3, <1>4, <1>5, <1>6, <1>7, Assemble

(* A step that went through and left the details alone.                    *)
LEMMA StillAround ==
  ASSUME TypeInv, NEW w \in Loops, Busy(w), Post(w) \in Posts, NEW j, Proceed(w, Full, j), Observe(w),
         GraphOK(graph'), IndexOK(index'), index.note \subseteq index'.note,
         index'.details = index.details
  PROVE  /\ Around(w) /\ job' = [job EXCEPT ![w] = j] /\ SameInputs
         /\ buried' = IF j.body = Tombstone THEN buried \cup {Post(w)} ELSE buried
<1>1. DetailsMove(w) BY DEF DetailsMove
<1>2. ~(Full < Full) BY DEF Full
<1> QED BY <1>1, <1>2, ProceedFacts DEF Around

(* What a handler starts a step from.                                      *)
LEMMA SeqFacts ==
  ASSUME PostInv, NEW w \in Loops, Busy(w)
  PROVE  /\ TypeInv /\ JobsInv /\ LogOrder /\ BuriedInv /\ ToldInv /\ TakedownInv
         /\ job \in [Loops -> JobType]
         /\ \A p \in graph.takedown : Gone(graph.post[p]) \/ Waits(p)
         /\ JobBuried(w) /\ JobTold(w) /\ JobDown(w)
         /\ ~overlap => Sequential /\ EdgesHold /\ DueInv /\ FreshInv /\ StandsOn(w)
BY JobParts DEF PostInv, TypeInv, TakedownInv, SeqInv

(* A step that leaves the links alone and moves its handler to another     *)
(* point.                                                                  *)
LEMMA PointKeeps ==
  ASSUME PostInv, NEW w \in Loops, Busy(w), NEW j \in JobType, JobOK(j), j.pc # "idle",
         j.ev = job[w].ev, j.newer = job[w].newer, Around(w), SameLinks(graph, graph'), SameInputs,
         job' = [job EXCEPT ![w] = j],
         Post(w) \in graph.takedown /\ ~Gone(graph.post[Post(w)]) /\ Obliged(job[w]) => Obliged(j),
         Post(w) \notin graph.takedown /\ Works(job[w]) => Works(j),
         JobBuried(w)', JobTold(w)', JobDown(w)',
         ~overlap => FreshInv' /\ StandsOn(w)'
  PROVE  PostInv'
<1>0. /\ graph'.takedown = graph.takedown /\ graph'.post = graph.post /\ buried \subseteq buried'
      /\ hs' = hs /\ overlap' = overlap
  BY DEF SameLinks, Around
<1>7. \A q \in graph'.takedown : Gone(graph'.post[q]) \/ Waits(q)'
  <2> SUFFICES ASSUME NEW q \in graph.takedown PROVE Gone(graph.post[q]) \/ Waits(q)' BY <1>0
  <2>1. Gone(graph.post[q]) \/ Waits(q) BY SeqFacts
  <2> QED BY <2>1, WaitsStep, SeqFacts
<1>8. \A q \in Posts : graph'.post[q] # NoPost /\ graph'.post[q].deleted => q \in buried'
  BY <1>0, SeqFacts DEF BuriedInv, Buries
<1>12. ASSUME ~overlap PROVE EdgesHold' /\ DueInv'
  <2>0. Sequential /\ EdgesHold /\ DueInv /\ TypeInv /\ JobsInv
    BY <1>12, SeqFacts
  <2>2. EdgesHold' BY <2>0, EdgesSame
  <2>5. ASSUME NEW q \in Posts \ graph'.takedown PROVE Match(q)' \/ Due(q)'
    <3>1. Match(q) \/ Due(q) BY <1>0, <2>0, <2>5 DEF DueInv
    <3>2. Match(q) => Match(q)' BY <1>0 DEF Match
    <3>3. Due(q) => Due(q)' BY <1>0, <2>0, <2>5, DueStep
    <3> QED BY <3>1, <3>2, <3>3
  <2> QED BY <2>2, <2>5 DEF DueInv
<1> QED BY <1>0, <1>7, <1>8, <1>12, MoveKeeps

(* The takedown check sends the handler to the removal, or on.             *)
LEMMA StepCheck ==
  ASSUME PostInv, NEW w \in Loops, Observe(w), RemoveIfTakenDown(w)
  PROVE  PostInv'
<1> DEFINE i == job[w]
           p == Post(w)
           down == [Idle EXCEPT !.pc = "find", !.ev = i.ev, !.ret = i.pc, !.newer = i.newer]
           j == IF p \in graph.takedown THEN down
                ELSE IF At(w, "check") THEN Goto(w, "fetch") ELSE Goto(w, "store")
<1>0. i.pc \in {"check", "recheck"} /\ Busy(w) BY DEF RemoveIfTakenDown, At, Busy
<1>1. Proceed(w, Full, j) /\ graph' = graph /\ index' = index
  BY DEF RemoveIfTakenDown, stores, IsTakenDown
<1>2. /\ i \in JobType /\ JobOK(i) /\ IndexOK(index) /\ GraphOK(graph) /\ p \in Posts
      /\ i.ev \in Event /\ Within(i.rels, p) /\ p = i.ev.p
  BY <1>0, InvFacts DEF Post
<1>3. /\ j \in JobType /\ j.ev = i.ev /\ j.newer = i.newer /\ j.todo = {} /\ j.body \in {i.body, NoPost}
      /\ j.old \in {i.old, NoPost} /\ Within(j.rels, p)
      /\ \/ j.pc = "find" /\ j.ret \in {"check", "recheck"} /\ p \in graph.takedown
         \/ j.pc = "fetch" /\ i.pc = "check" /\ j.ret = i.ret /\ p \notin graph.takedown
         \/ j.pc = "store" /\ i.pc = "recheck" /\ j.ret = i.ret /\ p \notin graph.takedown
  <2>1. CASE p \in graph.takedown
    <3>1. j = down BY <2>1
    <3>2. NoParents \in Relationships /\ Within(NoParents, p) BY DEF NoParents, Relationships, Within
    <3> HIDE DEF i
    <3>3. i.ev \in Event /\ i.newer \in BOOLEAN /\ i.pc \in {"check", "recheck"} BY <1>0, <1>2 DEF JobType
    <3>4. /\ down \in JobType /\ down.ev = i.ev /\ down.newer = i.newer /\ down.todo = {}
          /\ down.body = NoPost /\ down.old = NoPost /\ down.rels = NoParents /\ down.pc = "find"
          /\ down.ret = i.pc
      BY <3>2, <3>3 DEF Idle, JobType, Points, Body
    <3> HIDE DEF down, j
    <3> QED BY <2>1, <3>1, <3>2, <3>3, <3>4
  <2>2. CASE p \notin graph.takedown /\ i.pc = "check"
    <3>1. j = Goto(w, "fetch") BY <2>2 DEF At
    <3> QED BY <1>2, <2>2, <3>1, GotoFacts DEF Points
  <2>3. CASE p \notin graph.takedown /\ i.pc = "recheck"
    <3>1. j = Goto(w, "store") BY <2>3 DEF At
    <3> QED BY <1>2, <2>3, <3>1, GotoFacts DEF Points
  <2> QED BY <1>0, <2>1, <2>2, <2>3
<1> HIDE DEF j
<1>4. JobOK(j) /\ j.pc # "idle"
  BY <1>0, <1>2, <1>3 DEF JobOK, Removes, IsWriting, IsPut
<1>5. Around(w) /\ job' = [job EXCEPT ![w] = j] /\ SameInputs /\ buried \subseteq buried' /\ overlap' = overlap
  BY <1>0, <1>1, <1>2, SeqFacts, StillAround DEF Around
<1>6. job'[w] = j /\ Post(w)' = p /\ Busy(w)' BY <1>0, <1>3, <1>4, <1>5, SeqFacts DEF Post, Busy
<1>7. p \in graph.takedown => Obliged(j) BY <1>3 DEF Obliged, Removes
<1>8. Works(i) => Works(j) BY <1>0, <1>3 DEF Works, Removes
<1>9. JobBuried(w)'
  <2>1. JobBuried(w) BY <1>0, SeqFacts
  <2> QED BY <1>0, <1>3, <1>5, <1>6, <2>1 DEF JobBuried, Buries, IsWriting
<1>10. JobTold(w)'
  BY <1>3, <1>6 DEF JobTold, HasTold
<1>11. JobDown(w)'
  <2>1. JobDown(w) BY <1>0, SeqFacts
  <2> QED BY <1>0, <1>1, <1>3, <1>6, <2>1 DEF JobDown
<1>12. ~overlap => FreshInv' /\ StandsOn(w)'
  <2>1. hs' = hs /\ log' = log BY <1>5 DEF Around, SameInputs
  <2>2. FreshInv => FreshInv' BY <1>0, <1>3, <1>5, <2>1, SeqFacts, FreshSame
  <2>3. StandsOn(w)' BY <1>3, <1>6 DEF StandsOn, Removes, IsWriting
  <2> QED BY <1>0, <2>2, <2>3, SeqFacts
<1>13. SameLinks(graph, graph') BY <1>1 DEF SameLinks
<1> QED BY <1>0, <1>3, <1>4, <1>5, <1>7, <1>8, <1>9, <1>10, <1>11, <1>12, <1>13, PointKeeps

(* Details in the index mean that the parents were told, unless the post   *)
(* was found halfway: the edit path need not tell them again.              *)
LEMMA StepExisting ==
  ASSUME PostInv, NEW w \in Loops, Observe(w), Existing(w)
  PROVE  PostInv'
<1> DEFINE i == job[w]
           p == Post(w)
           d == index.details[p]
           l == IF IsCollection(d) \/ IsCollection(i.body) THEN "edges" ELSE "edit"
           edit == [i EXCEPT !.old = d, !.next = "edit", !.pc = l]
           j == IF d = NoPost THEN Goto(w, "recover") ELSE edit
<1>0. i.pc = "existing" /\ Busy(w) BY DEF Existing, At, Busy
<1>1. Proceed(w, Full, j) /\ graph' = graph /\ index' = index
  BY DEF Existing, stores
<1>2. /\ i \in JobType /\ JobOK(i) /\ IndexOK(index) /\ GraphOK(graph) /\ p \in Posts
      /\ i.ev \in Event /\ Within(i.rels, p) /\ p = i.ev.p /\ d \in Body
  BY <1>0, InvFacts DEF Post, IndexOK
<1>3. /\ j \in JobType /\ j.ev = i.ev /\ j.newer = i.newer /\ j.ret = i.ret /\ j.body = i.body
      /\ j.rels = i.rels /\ j.todo = {} /\ j.old \in {i.old, d}
      /\ \/ j.pc = "recover"
         \/ j.pc \in {"edges", "edit"} /\ j.next = "edit" /\ d # NoPost
  <2>1. CASE d = NoPost
    <3>1. j = Goto(w, "recover") BY <2>1
    <3>2. "recover" \in Points BY DEF Points
    <3> HIDE DEF j, d
    <3> QED BY <1>2, <3>1, <3>2, GotoFacts
  <2>2. CASE d # NoPost
    <3>1. j = edit BY <2>2
    <3>2. l \in {"edges", "edit"} OBVIOUS
    <3>3. i.todo = {} BY <1>0, <1>2 DEF JobOK
    <3> HIDE DEF i, d, l
    <3>4. /\ edit \in JobType /\ edit.ev = i.ev /\ edit.newer = i.newer /\ edit.ret = i.ret /\ edit.body = i.body
          /\ edit.rels = i.rels /\ edit.todo = i.todo /\ edit.old = d /\ edit.pc = l /\ edit.next = "edit"
      BY <1>2, <3>2 DEF JobType, Points
    <3> HIDE DEF edit, j
    <3> QED BY <2>2, <3>1, <3>2, <3>3, <3>4
  <2> QED BY <2>1, <2>2
<1> HIDE DEF j
<1>4. JobOK(j) /\ j.pc # "idle" /\ ~(j.pc = "graph") /\ IsPut(j) = IsPut(i) /\ IsWriting(i) /\ IsWriting(j) /\ ~Removes(j)
  BY <1>0, <1>2, <1>3 DEF JobOK, Removes, IsWriting, IsPut
<1>5. Around(w) /\ job' = [job EXCEPT ![w] = j] /\ SameInputs /\ buried \subseteq buried' /\ overlap' = overlap
      /\ halfway \subseteq halfway'
  BY <1>0, <1>1, <1>2, SeqFacts, StillAround DEF Around
<1>6. job'[w] = j /\ Post(w)' = p /\ Busy(w)' BY <1>0, <1>3, <1>4, <1>5, SeqFacts DEF Post, Busy
<1>7. (Obliged(i) => Obliged(j)) /\ ~Works(i)
  BY <1>0, <1>4 DEF Obliged, Works, Removes
<1>8. JobBuried(w)'
  <2>1. JobBuried(w) /\ Buries(d, p) BY <1>0, <1>2, SeqFacts DEF BuriedInv
  <2> HIDE DEF d
  <2> QED BY <1>0, <1>3, <1>4, <1>5, <1>6, <2>1 DEF JobBuried, Buries
<1>9. JobTold(w)'
  <2> SUFFICES ASSUME ~overlap, HasTold(j), p \notin buried \cup halfway
               PROVE  Told(p)'
    BY <1>5, <1>6 DEF JobTold
  <2>1. d # NoPost BY <1>3 DEF HasTold
  <2>2. ~d.deleted BY <1>0, <1>2, <2>1, SeqFacts DEF BuriedInv, Buries
  <2>3. Told(p) BY <1>0, <1>2, <2>1, <2>2, SeqFacts DEF ToldInv
  <2>4. p' = p BY <1>6
  <2> HIDE DEF p
  <2> QED BY <1>1, <2>3, <2>4 DEF Told
<1>10. JobDown(w)'
  <2>1. JobDown(w) BY <1>0, SeqFacts
  <2> QED BY <1>0, <1>1, <1>3, <1>6, <2>1 DEF JobDown
<1>11. ~overlap => FreshInv' /\ StandsOn(w)'
  <2>1. hs' = hs /\ log' = log BY <1>5 DEF Around, SameInputs
  <2>2. FreshInv => FreshInv' BY <1>0, <1>3, <1>4, <1>5, <2>1, SeqFacts, FreshSame
  <2>3. StandsOn(w) => StandsOn(w)' BY <1>0, <1>1, <1>3, <1>4, <1>6 DEF StandsOn
  <2> QED BY <1>0, <2>2, <2>3, SeqFacts
<1>13. SameLinks(graph, graph') BY <1>1 DEF SameLinks
<1> QED BY <1>0, <1>3, <1>4, <1>5, <1>7, <1>8, <1>9, <1>10, <1>11, <1>13, PointKeeps

(* A handler that ends without changing the stores.                        *)
LEMMA EndAround ==
  ASSUME TypeInv, NEW w \in Loops, Busy(w), Post(w) \in Posts, Observe(w),
         graph' = graph, index' = index, hs' = hs, overlap' = overlap, buried' = buried
  PROVE  Around(w)
<1>0. /\ GraphOK(graph) /\ IndexOK(index) /\ buried \subseteq Posts /\ halfway \subseteq Posts
  BY DEF TypeInv
<1>1. halfway \subseteq halfway' /\ halfway' \subseteq Posts
  BY ObserveFacts
<1>2. DetailsMove(w) BY DEF DetailsMove
<1> QED BY <1>0, <1>1, <1>2 DEF Around

(* A handler that finishes has brought its post into agreement, or another *)
(* event of the post is due.                                               *)
LEMMA FinishKeeps ==
  ASSUME PostInv, NEW w \in Loops, Busy(w), Finish(w), Observe(w), graph' = graph, index' = index,
         Obliged(job[w]) => Gone(graph.post[Post(w)]),
         ~overlap /\ Works(job[w]) => \A p \in Posts \ graph.takedown : p = Post(w) => Match(p) \/ Due(p)'
  PROVE  PostInv'
<1>0. /\ TypeInv /\ JobsInv /\ LogOrder /\ BuriedInv /\ ToldInv /\ TakedownInv
      /\ job \in [Loops -> JobType] /\ Post(w) \in Posts
  BY SeqFacts, InvFacts
<1>1. /\ Passed(w) /\ job' = [job EXCEPT ![w] = Idle] /\ ~Busy(w)'
      /\ \A v \in Loops : v # w => job'[v] = job[v]
      /\ \A v \in Loops : Busy(v)' => Busy(v)
      /\ hs' = hs /\ overlap' = overlap /\ buried' = buried
      /\ queue' \subseteq queue
  BY <1>0, FinishShape
<1>2. Around(w) BY <1>0, <1>1, EndAround
<1>3. JobsInv' /\ (job \in [Loops -> JobType])' /\ (log \in [LiveLoops -> Seq(Event)])'
  BY <1>0, JobsFinish
<1>4. LogOrder' BY <1>0, <1>1, OrderPassed
<1>5. (queue \subseteq Event)' BY <1>0, <1>1 DEF TypeInv
<1>6. \A p \in graph'.takedown : Gone(graph'.post[p]) \/ Waits(p)'
  <2> SUFFICES ASSUME NEW p \in graph.takedown PROVE Gone(graph.post[p]) \/ Waits(p)' OBVIOUS
  <2>1. Gone(graph.post[p]) \/ Waits(p) BY SeqFacts
  <2> QED BY <1>0, <2>1, WaitsFinish
<1>7. \A p \in Posts : graph'.post[p] # NoPost /\ graph'.post[p].deleted => p \in buried'
  BY <1>0, <1>1 DEF BuriedInv, Buries
<1>8. \A v \in Loops : (JobBuried(v) /\ JobTold(v) /\ JobDown(v))'
  BY <1>0, <1>1, <1>2, OthersKept, IdleParts
<1>9. SeqInv'
  <2> SUFFICES ASSUME ~overlap
               PROVE  Sequential' /\ EdgesHold' /\ DueInv' /\ FreshInv'
                      /\ \A v \in Loops : Busy(v)' => StandsOn(v)'
    BY <1>1 DEF SeqInv
  <2>0. Sequential /\ EdgesHold /\ DueInv /\ FreshInv BY SeqFacts
  <2>1. \A v \in Loops : ~Busy(v)' BY <1>1, <2>0, AllIdle
  <2>2. Sequential'
    <3>1. \A v \in Loops : ~job'[v].newer BY <1>0, <1>1, <2>0, IdleFacts DEF Sequential
    <3> QED BY <1>1, <2>0, <2>1, <3>1 DEF Sequential
  <2>3. EdgesHold' BY <2>0, EdgesSame DEF SameLinks
  <2>4. DueInv'
    <3> SUFFICES ASSUME NEW p \in Posts \ graph.takedown PROVE Match(p)' \/ Due(p)'
      BY DEF DueInv
    <3>1. Match(p) => Match(p)' BY <1>1 DEF Match
    <3>2. Match(p) \/ Due(p) BY <2>0 DEF DueInv
    <3>3. CASE Due(p) /\ (p = Post(w) => ~Works(job[w]))
      BY <1>0, <2>0, <3>3, DueFinish
    <3>4. CASE p = Post(w) /\ Works(job[w]) BY <3>1, <3>4
    <3> QED BY <3>1, <3>2, <3>3, <3>4
  <2>5. FreshInv'
    <3>1. \A v \in Loops : job'[v].pc # "graph" BY <2>1 DEF Busy
    <3> QED BY <3>1 DEF FreshInv
  <2> QED BY <2>1, <2>2, <2>3, <2>4, <2>5
<1> QED BY <1>2, <1>3, <1>4, <1>5, <1>6, <1>7, <1>8, <1>9, Assemble

(* Once the line is stored the event is done with.                         *)
LEMMA StepStore ==
  ASSUME PostInv, NEW w \in Loops, Observe(w), StoreEvent(w)
  PROVE  PostInv'
<1>0. job[w].pc = "store" /\ Busy(w) /\ graph' = graph /\ index' = index
  BY DEF StoreEvent, At, Busy, stores
<1>1. CASE Finish(w)
  <2>1. ~Obliged(job[w]) /\ ~Works(job[w]) BY <1>0 DEF Obliged, Works, Removes, IsWriting
  <2> QED BY <1>0, <1>1, <2>1, FinishKeeps
<1>2. CASE Proceed(w, 0, Idle)
  <2>1. 0 # Full BY DEF Full
  <2> QED BY <1>0, <1>2, <2>1, InvFacts, AsideAction
<1> QED BY <1>1, <1>2 DEF StoreEvent

(* A removal by the author's own event, which a later put follows if the   *)
(* homeserver has the post again.                                          *)
LEMMA DelFollowed ==
  ASSUME PostInv, NEW w \in Loops, Busy(w), ~overlap, ~IsPut(job[w]), job[w].pc # "record",
         Post(w) \notin graph.takedown
  PROVE  /\ w # Retry /\ w = HomeOf(Post(w)) /\ job[w].ev = DelOf(Post(w))
         /\ hs[Post(w)] # Nothing => Later(w, Post(w))
<1>0. /\ TypeInv /\ JobsInv /\ LogOrder /\ JobDown(w) /\ Sequential BY SeqFacts
<1> DEFINE p == Post(w)
           e == job[w].ev
<1>1. p \in Posts /\ e \in Event /\ job[w] \in JobType BY <1>0, EventFacts
<1>2. job[w].ret = "event" /\ e.type = "del" 
  BY <1>0, <1>1 DEF JobDown, IsPut, Event
<1>3. e = DelOf(p) BY <1>1, <1>2 DEF DelOf, Event, Post
<1>4. w # Retry
  <2>1. w = Retry => e \in queue BY <1>0 DEF JobsInv, SourceOK, Sequential
  <2> QED BY <1>0, <1>2, <2>1 DEF Sequential
<1>5. w \in LiveLoops BY <1>4 DEF Loops
<1>6. log[w] # <<>> /\ log[w] \in Seq(Event) /\ e = log[w][1] /\ 1 \in 1..Len(log[w])
  BY <1>0, <1>5, FirstIsMine
<1>7. w = HomeOf(p)
  <2>1. log[w][1].type # "mod" /\ log[w][1].p = p BY <1>2, <1>6 DEF Post
  <2> QED BY <1>0, <1>5, <1>6, <2>1 DEF LogOrder
<1>8. ASSUME hs[p] # Nothing PROVE Later(w, p)
  <2>1. \E k \in 1 + 1..Len(log[w]) : log[w][k] = PutOf(p)
    BY <1>0, <1>1, <1>3, <1>6, <1>7, <1>8 DEF LogOrder
  <2>2. PICK k \in 1 + 1..Len(log[w]) : log[w][k] = PutOf(p) BY <2>1
  <2>3. k \in 1..Len(log[w]) /\ k # 1 BY <1>6, <2>2
  <2>4. log[w][k].p = p /\ log[w][k].type # "mod" BY <2>2 DEF PutOf
  <2> HIDE DEF p
  <2> QED BY <1>7, <2>3, <2>4 DEF Later
<1> QED BY <1>3, <1>4, <1>7, <1>8

(* A later event of the post is still due.                                 *)
LEMMA LaterStep ==
  ASSUME TypeInv, Sequential, NEW w \in Loops, Busy(w), NEW p \in Posts, Later(w, p), SameInputs,
         \A v \in Loops : v # w => job'[v] = job[v]
  PROVE  Due(p)'
<1>1. PICK i \in 1..Len(log[HomeOf(p)]) :
        /\ log[HomeOf(p)][i].p = p /\ log[HomeOf(p)][i].type # "mod"
        /\ w = HomeOf(p) => i # 1
  BY DEF Later
<1>2. HomeOf(p) # w => ~Busy(HomeOf(p))' BY HomeFacts DEF Sequential, Busy
<1>3. HomeOf(p)' = HomeOf(p) BY DEF HomeOf
<1> QED BY <1>1, <1>2, <1>3 DEF Due, SameInputs

(* A later event is due once the handler has ended.                        *)
LEMMA LaterFinish ==
  ASSUME TypeInv, JobsInv, Sequential, NEW w \in Loops, Busy(w), NEW p \in Posts, Later(w, p), Finish(w)
  PROVE  Due(p)'
<1>1. /\ Passed(w) /\ ~Busy(w)' /\ hs' = hs
      /\ \A v \in Loops : Busy(v)' => Busy(v)
  BY FinishShape
<1>2. \A v \in Loops : ~Busy(v)' BY <1>1, AllIdle
<1>3. PICK i \in 1..Len(log[HomeOf(p)]) :
        /\ log[HomeOf(p)][i].p = p /\ log[HomeOf(p)][i].type # "mod"
        /\ w = HomeOf(p) => i # 1
  BY DEF Later
<1> QED BY <1>1, <1>2, <1>3, DuePlace

(* A blob that is gone is no loss: its deletion follows in the log.        *)
LEMMA StepFetch ==
  ASSUME PostInv, NEW w \in Loops, Observe(w), Fetch(w)
  PROVE  PostInv'
<1> DEFINE i == job[w]
           p == Post(w)
           body == FromHomeserver(hs[p])
           r == Parents(p)
           j == [i EXCEPT !.pc = "graph", !.body = body, !.rels = r]
<1>0. i.pc = "fetch" /\ Busy(w) /\ graph' = graph /\ index' = index BY DEF Fetch, At, Busy, stores
<1>2. /\ i \in JobType /\ JobOK(i) /\ IndexOK(index) /\ GraphOK(graph) /\ p \in Posts
      /\ i.ev \in Event /\ p = i.ev.p /\ IsPut(i)
  <2>1. i \in JobType /\ JobOK(i) /\ IndexOK(index) /\ GraphOK(graph) /\ p \in Posts /\ i.ev \in Event
    BY <1>0, InvFacts
  <2> QED BY <1>0, <2>1 DEF Post, JobOK
<1>a. CASE hs[p] = Nothing
  <2>1. Finish(w) BY <1>a DEF Fetch
  <2>2. ~Obliged(i) BY <1>0 DEF Obliged, Removes, IsWriting
  <2>3. ASSUME ~overlap, NEW q \in Posts \ graph.takedown, q = p PROVE Match(q) \/ Due(q)'
    <3>0. /\ TypeInv /\ JobsInv /\ LogOrder /\ Sequential /\ DueInv BY <1>0, <2>3, SeqFacts
    <3>1. Later(w, p) => Due(q)' BY <1>0, <1>2, <2>1, <2>3, <3>0, LaterFinish
    <3>2. CASE w = Retry
      <4>1. Match(q) \/ Due(q) BY <2>3, <3>0 DEF DueInv
      <4>2. Due(q) => Later(w, q)
        <5>1. HomeOf(q) # Retry BY <2>3, HomeFacts
        <5> QED BY <1>a, <2>3, <3>2, <5>1 DEF Due, Later
      <4> QED BY <2>3, <3>1, <4>1, <4>2
    <3>3. CASE w # Retry
      <4>1. w \in LiveLoops BY <3>3 DEF Loops
      <4>2. log[w] # <<>> /\ log[w] \in Seq(Event) /\ i.ev = log[w][1] /\ 1 \in 1..Len(log[w])
        BY <1>0, <3>0, <4>1, FirstIsMine
      <4>3. i.ev = PutOf(p) BY <1>2 DEF PutOf, IsPut, Event
      <4>4. w = HomeOf(p)
        <5>1. log[w][1].type # "mod" /\ log[w][1].p = p BY <4>2, <4>3 DEF PutOf
        <5> QED BY <3>0, <4>1, <4>2, <5>1 DEF LogOrder
      <4>5. \E k \in 1 + 1..Len(log[w]) : log[w][k] = DelOf(p)
        BY <1>2, <1>a, <3>0, <4>2, <4>3, <4>4 DEF LogOrder
      <4>6. PICK k \in 1 + 1..Len(log[w]) : log[w][k] = DelOf(p) BY <4>5
      <4>7. k \in 1..Len(log[w]) /\ k # 1 BY <4>2, <4>6
      <4>8. log[w][k].p = p /\ log[w][k].type # "mod" BY <4>6 DEF DelOf
      <4>9. Later(w, p) BY <4>4, <4>7, <4>8 DEF Later
      <4> QED BY <3>1, <4>9
    <3> QED BY <3>2, <3>3
  <2> QED BY <1>0, <2>1, <2>2, <2>3, FinishKeeps
<1>b. CASE hs[p] # Nothing
  <2>1. Proceed(w, Full, j) BY <1>b DEF Fetch, Parents
  <2>2. body \in Details /\ ~body.deleted /\ body \in Body
    <3>1. hs[p] \in Contents BY <1>0, <1>2, <1>b, InvFacts DEF TypeInv
    <3> QED BY <3>1 DEF FromHomeserver, Details, Body
  <2>3. r \in Relationships /\ Within(r, p)
    BY <1>2, Nature DEF Parents, Relationships, Within
  <2>4. /\ j \in JobType /\ j.pc = "graph" /\ j.body = body /\ j.rels = r /\ j.ev = i.ev
        /\ j.newer = i.newer /\ j.ret = i.ret /\ j.old = i.old /\ j.todo = i.todo
    <3> HIDE DEF i, body, r
    <3> QED BY <1>2, <2>2, <2>3 DEF JobType, Points
  <2>5. i.todo = {} BY <1>0, <1>2 DEF JobOK
  <2> HIDE DEF j
  <2>6. JobOK(j) /\ IsPut(j)
    <3>1. IsPut(j) BY <1>2, <2>4 DEF IsPut
    <3> HIDE DEF i, body, p
    <3>2. j.ev.p = p /\ r = Parents(p) BY <1>2, <2>4
    <3> HIDE DEF r
    <3> QED BY <1>2, <2>2, <2>3, <2>4, <2>5, <3>1, <3>2 DEF JobOK, Removes, IsWriting
  <2>7. Around(w) /\ job' = [job EXCEPT ![w] = j] /\ SameInputs /\ buried \subseteq buried' /\ overlap' = overlap
        /\ hs' = hs
    BY <1>0, <1>2, <2>1, SeqFacts, StillAround DEF Around
  <2>8. job'[w] = j /\ Post(w)' = p /\ Busy(w)' /\ \A v \in Loops : v # w => job'[v] = job[v]
    BY <1>0, <2>4, <2>7, SeqFacts DEF Post, Busy
  <2>9. JobBuried(w)'
    <3>1. JobBuried(w) BY <1>0, SeqFacts
    <3> HIDE DEF body
    <3> QED BY <1>0, <2>2, <2>4, <2>6, <2>7, <2>8, <3>1 DEF JobBuried, Buries
  <2>10. JobTold(w)' BY <2>4, <2>8 DEF JobTold, HasTold
  <2>11. JobDown(w)'
    <3>1. JobDown(w) BY <1>0, SeqFacts
    <3> QED BY <1>0, <2>4, <2>8, <3>1 DEF JobDown
  <2>12. Obliged(j) /\ Works(j) BY <2>4 DEF Obliged, Works
  <2>13. ASSUME ~overlap PROVE FreshInv' /\ StandsOn(w)'
    <3>0. FreshInv /\ log' = log BY <1>0, <2>7, <2>13, SeqFacts DEF SameInputs
    <3>1. ASSUME NEW v \in Loops, job'[v].pc = "graph", IsPut(job'[v])
          PROVE  (job[v].body = FromHomeserver(hs[Post(v)]) \/ Later(v, Post(v)))'
      <4>1. CASE v = w
        <5>1. job'[v].body = FromHomeserver(hs'[p]) BY <2>4, <2>7, <2>8, <4>1
        <5>2. Post(v)' = p BY <2>8, <4>1
        <5> QED BY <5>1, <5>2 DEF FromHomeserver
      <4>2. CASE v # w
        <5>1. job'[v] = job[v] BY <2>8, <4>2
        <5>2. job[v].body = FromHomeserver(hs[Post(v)]) \/ Later(v, Post(v))
          BY <3>0, <3>1, <5>1 DEF FreshInv
        <5>3. job'[v].body = FromHomeserver(hs'[Post(v)]) \/ Later(v, Post(v))
          BY <2>7, <5>1, <5>2
        <5>4. Post(v)' = Post(v) BY <5>1 DEF Post
        <5> DEFINE q == Post(v)
        <5>5. q' = q BY <5>4
        <5> HIDE DEF q
        <5>6. job'[v].body = FromHomeserver(hs'[q]) \/ Later(v, q) BY <5>3 DEF q
        <5>7. Later(v, q) => Later(v, q)' BY <3>0, <5>5 DEF Later, HomeOf
        <5>8. (job[v].body = FromHomeserver(hs[q]) \/ Later(v, q))' BY <5>5, <5>6, <5>7 DEF FromHomeserver
        <5> QED BY <5>8 DEF q
      <4> QED BY <4>1, <4>2
    <3>2. StandsOn(w)'
      BY <2>4, <2>6, <2>8 DEF StandsOn, Removes, IsWriting
    <3> QED BY <3>1, <3>2 DEF FreshInv
  <2>14. SameLinks(graph, graph') /\ j.pc # "idle" BY <1>0, <2>4 DEF SameLinks
  <2> QED BY <1>0, <2>4, <2>6, <2>7, <2>9, <2>10, <2>11, <2>12, <2>13, <2>14, PointKeeps
<1> QED BY <1>a, <1>b

(* A post the graph lacks is in agreement with a deletion; one that is     *)
(* linked to becomes a tombstone, and is buried.                           *)
LEMMA StepFind ==
  ASSUME PostInv, NEW w \in Loops, Observe(w), Find(w)
  PROVE  PostInv'
<1> DEFINE i == job[w]
           p == Post(w)
           y == FillRelationships(index, graph, p)
<1>0. i.pc = "find" /\ Busy(w) /\ Removes(i) BY DEF Find, At, Busy, Removes
<1>2. /\ i \in JobType /\ JobOK(i) /\ IndexOK(index) /\ GraphOK(graph) /\ p \in Posts
      /\ i.ev \in Event /\ p = i.ev.p /\ ~IsPut(i) /\ Within(i.rels, p)
  <2>1. i \in JobType /\ JobOK(i) /\ IndexOK(index) /\ GraphOK(graph) /\ p \in Posts /\ i.ev \in Event
        /\ Within(i.rels, p)
    BY <1>0, InvFacts
  <2> QED BY <1>0, <2>1 DEF Post, JobOK

(* A step to another point, once its handler's part of the invariant is    *)
(* there.                                                                  *)
<1>m. ASSUME NEW j \in JobType, Proceed(w, Full, j), graph' = graph, IndexOK(index'),
             index'.details = index.details, index'.note = index.note,
             JobOK(j), j.pc # "idle", j.ev = i.ev, j.newer = i.newer, j.ret = i.ret,
             j.pc = "graph" \/ j.body = i.body, j.old = i.old,
             p \in graph.takedown /\ ~Gone(graph.post[p]) => Obliged(j),
             p \notin graph.takedown => Works(j),
             ~IsWriting(j), ~HasTold(j), j.pc = "graph" => j.body = Tombstone,
             j.pc \in {"graph", "gate", "store"},
             j.pc = "graph" => Exists(graph, p),
             j.pc = "gate" => Exists(graph, p) /\ \A e \in graph.replied \cup graph.reposted : e[2] # p
      PROVE  PostInv'
  <2>1. /\ Around(w) /\ job' = [job EXCEPT ![w] = j] /\ SameInputs /\ buried \subseteq buried'
        /\ overlap' = overlap /\ hs' = hs
        /\ buried' = IF j.body = Tombstone THEN buried \cup {p} ELSE buried
    BY <1>0, <1>2, <1>m, SeqFacts, StillAround DEF Around
  <2>2. job'[w] = j /\ Post(w)' = p /\ Busy(w)' /\ \A v \in Loops : v # w => job'[v] = job[v]
    BY <1>0, <1>m, <2>1, SeqFacts DEF Post, Busy
  <2>3. JobBuried(w)'
    <3>1. JobBuried(w) BY <1>0, SeqFacts
    <3>2. j.pc = "graph" => p \in buried' BY <1>m, <2>1
    <3> QED BY <1>0, <1>m, <2>1, <2>2, <3>1, <3>2 DEF JobBuried, Buries
  <2>4. JobTold(w)' BY <1>m, <2>2 DEF JobTold
  <2>5. JobDown(w)'
    <3>1. JobDown(w) BY <1>0, SeqFacts
    <3> QED BY <1>0, <1>m, <2>2, <3>1 DEF JobDown
  <2>6. ~IsPut(j) BY <1>2, <1>m DEF IsPut
  <2>7. ASSUME ~overlap PROVE FreshInv' /\ StandsOn(w)'
    <3>0. FreshInv /\ log' = log BY <1>0, <2>1, <2>7, SeqFacts DEF SameInputs
    <3>1. FreshInv' BY <1>0, <2>1, <2>6, <3>0, SeqFacts, FreshSame
    <3>2. graph' = graph /\ j.ev.p = p BY <1>2, <1>m
    <3> HIDE DEF p
    <3>3. StandsOn(w)'
      BY <1>m, <2>2, <2>6, <3>2 DEF StandsOn, Exists, Removes
    <3> QED BY <3>1, <3>3
  <2>8. SameLinks(graph, graph') BY <1>m DEF SameLinks
  <2> QED BY <1>0, <1>m, <2>1, <2>3, <2>4, <2>5, <2>7, <2>8, PointKeeps
<1>a. CASE ~Exists(graph, p) /\ i.ret = "event"
  <2>1. Finish(w) /\ graph' = graph /\ index' = index BY <1>0, <1>a DEF Find, stores
  <2>2. graph.post[p] = NoPost /\ Gone(graph.post[p]) BY <1>a DEF Exists, Gone
  <2>3. ASSUME ~overlap, NEW q \in Posts \ graph.takedown, q = p PROVE Match(q) \/ Due(q)'
    <3>0. TypeInv /\ JobsInv /\ Sequential BY <1>0, <2>3, SeqFacts
    <3>1. CASE hs[q] = Nothing BY <2>2, <2>3, <3>1 DEF Match
    <3>2. CASE hs[q] # Nothing
      <4>1. Later(w, p) BY <1>0, <1>2, <2>3, <3>2, DelFollowed
      <4> QED BY <1>0, <2>1, <2>3, <3>0, <4>1, LaterFinish
    <3> QED BY <3>1, <3>2
  <2> QED BY <1>0, <2>1, <2>2, <2>3, FinishKeeps
<1>b. CASE ~Exists(graph, p) /\ i.ret # "event"
  <2> DEFINE j == Goto(w, "store")
  <2>1. Proceed(w, Full, j) /\ graph' = graph /\ index' = index BY <1>0, <1>b DEF Find, stores
  <2>2. p \in graph.takedown /\ Gone(graph.post[p])
    <3>1. JobDown(w) BY <1>0, SeqFacts
    <3> QED BY <1>0, <1>b, <3>1 DEF JobDown, Exists, Gone
  <2>3. /\ j \in JobType /\ j.pc = "store" /\ j.todo = {} /\ j.body = i.body
        /\ j.old = i.old /\ j.ev = i.ev /\ j.newer = i.newer /\ j.ret = i.ret /\ j.rels = i.rels
    BY <1>2, GotoFacts DEF Points
  <2> HIDE DEF j
  <2>4. JobOK(j) /\ ~IsWriting(j) /\ ~HasTold(j)
    BY <1>2, <2>3 DEF JobOK, Removes, IsWriting, HasTold
  <2> QED BY <1>2, <1>m, <2>1, <2>2, <2>3, <2>4
<1>c. CASE Exists(graph, p) /\ PostIsSafeToDelete(graph, p)
  <2> DEFINE j == Goto(w, "gate")
  <2>1. Proceed(w, Full, j) /\ graph' = graph /\ index' = index BY <1>0, <1>c DEF Find, stores
  <2>3. /\ j \in JobType /\ j.pc = "gate" /\ j.todo = {} /\ j.body = i.body
        /\ j.old = i.old /\ j.ev = i.ev /\ j.newer = i.newer /\ j.ret = i.ret /\ j.rels = i.rels
    BY <1>2, GotoFacts DEF Points
  <2> HIDE DEF j
  <2>4. JobOK(j) /\ ~IsWriting(j) /\ ~HasTold(j) /\ Obliged(j) /\ Works(j)
    BY <1>2, <2>3 DEF JobOK, Removes, IsWriting, HasTold, Obliged, Works, IsPut
  <2>5. \A e \in graph.replied \cup graph.reposted : e[2] # p BY <1>c DEF PostIsSafeToDelete
  <2> QED BY <1>2, <1>c, <1>m, <2>1, <2>3, <2>4, <2>5
<1>d. CASE Exists(graph, p) /\ ~PostIsSafeToDelete(graph, p)
  <2> DEFINE r == [replied |-> y.rel[p].replied, reposted |-> {}]
             j == [i EXCEPT !.pc = "graph", !.body = Tombstone, !.rels = r]
  <2>1. Proceed(w, Full, j) /\ graph' = graph /\ index' = y BY <1>0, <1>d DEF Find
  <2>2. /\ IndexOK(y) /\ y.details = index.details /\ y.note = index.note
        /\ y.rel[p] \in Relationships /\ Within(y.rel[p], p)
    BY <1>2, <1>d, FillRelationshipsFacts DEF Exists
  <2>3. r \in Relationships /\ Within(r, p) BY <2>2 DEF Relationships, Within
  <2>4. Tombstone \in Details /\ Tombstone \in Body BY Nature DEF Body
  <2>5. /\ j \in JobType /\ j.pc = "graph" /\ j.body = Tombstone /\ j.rels = r /\ j.ev = i.ev
        /\ j.newer = i.newer /\ j.ret = i.ret /\ j.old = i.old /\ j.todo = i.todo
    <3> HIDE DEF i, r
    <3> QED BY <1>2, <2>3, <2>4 DEF JobType, Points
  <2>6. i.todo = {} BY <1>0, <1>2 DEF JobOK
  <2> HIDE DEF j, r
  <2>7. /\ JobOK(j) /\ ~IsWriting(j) /\ ~HasTold(j) /\ Obliged(j) /\ Works(j)
    <3>1. ~IsPut(j) BY <1>2, <2>5 DEF IsPut
    <3>2. j.ev.p = p BY <1>2, <2>5
    <3> HIDE DEF p
    <3> QED BY <1>2, <2>3, <2>5, <2>6, <3>1, <3>2 DEF JobOK, Removes, IsWriting, HasTold, Obliged, Works
  <2> HIDE DEF y
  <2> QED BY <1>2, <1>d, <1>m, <2>1, <2>2, <2>5, <2>7
<1> QED BY <1>a, <1>b, <1>c, <1>d

(* A recorded takedown waits for the removal the same handler goes on to.  *)
LEMMA StepRecord ==
  ASSUME PostInv, NEW w \in Loops, Observe(w), RecordTheTakedown(w)
  PROVE  PostInv'
<1> DEFINE i == job[w]
           p == Post(w)
           g == RecordTakedown(graph, p)
           j == Goto(w, "find")
<1>0. i.pc = "record" /\ Busy(w) /\ index' = index BY DEF RecordTheTakedown, At, Busy
<1>1. PICK k \in {0, Full} : graph' = (IF k = Full THEN g ELSE graph) /\ Proceed(w, k, j)
  BY DEF RecordTheTakedown
<1>2. /\ i \in JobType /\ JobOK(i) /\ IndexOK(index) /\ GraphOK(graph) /\ p \in Posts
      /\ i.ev \in Event /\ p = i.ev.p /\ Within(i.rels, p)
  BY <1>0, InvFacts DEF Post
<1>3. CASE k # Full
  <2>1. graph' = graph /\ SameLinks(graph, graph') BY <1>1, <1>3 DEF SameLinks
  <2> QED BY <1>0, <1>1, <1>2, <1>3, <2>1, AsideAction
<1>4. CASE k = Full
  <2>1. /\ GraphOK(graph') /\ graph'.post = graph.post /\ graph'.replied = graph.replied
        /\ graph'.reposted = graph.reposted /\ graph'.takedown = graph.takedown \cup {p}
    BY <1>1, <1>2, <1>4, RecordFacts
  <2>2. /\ j \in JobType /\ j.pc = "find" /\ j.todo = {} /\ j.body = i.body
        /\ j.old = i.old /\ j.ev = i.ev /\ j.newer = i.newer /\ j.ret = i.ret /\ j.rels = i.rels
    BY <1>2, GotoFacts DEF Points
  <2> HIDE DEF j
  <2>3. JobOK(j) /\ ~IsWriting(j) /\ ~HasTold(j) /\ Obliged(j) /\ j.pc # "idle"
    BY <1>0, <1>2, <2>2 DEF JobOK, Removes, IsWriting, HasTold, Obliged, IsPut
  <2>4. /\ Around(w) /\ job' = [job EXCEPT ![w] = j] /\ SameInputs /\ buried \subseteq buried'
        /\ overlap' = overlap /\ hs' = hs
    BY <1>0, <1>1, <1>2, <1>4, <2>1, SeqFacts, StillAround DEF Around
  <2>5. job'[w] = j /\ Post(w)' = p /\ Busy(w)' /\ \A v \in Loops : v # w => job'[v] = job[v]
    BY <1>0, <2>2, <2>4, SeqFacts DEF Post, Busy
  <2>6. \A q \in graph'.takedown : Gone(graph'.post[q]) \/ Waits(q)'
    <3> SUFFICES ASSUME NEW q \in graph.takedown \cup {p} PROVE Gone(graph.post[q]) \/ Waits(q)'
      BY <2>1
    <3>1. CASE q = p BY <2>3, <2>5, <3>1 DEF Waits
    <3>2. CASE q # p
      <4>1. Gone(graph.post[q]) \/ Waits(q) BY <1>0, <3>2, SeqFacts
      <4> QED BY <1>0, <2>2, <2>3, <2>4, <3>2, <4>1, WaitsStep, SeqFacts
    <3> QED BY <3>1, <3>2
  <2>7. \A q \in Posts : graph'.post[q] # NoPost /\ graph'.post[q].deleted => q \in buried'
    BY <1>0, <2>1, <2>4, SeqFacts DEF BuriedInv, Buries
  <2>8. JobBuried(w)'
    <3>1. JobBuried(w) BY <1>0, SeqFacts
    <3> QED BY <1>0, <2>2, <2>3, <2>4, <2>5, <3>1 DEF JobBuried, Buries
  <2>9. JobTold(w)' BY <2>3, <2>5 DEF JobTold
  <2>10. JobDown(w)' BY <2>1, <2>5 DEF JobDown
  <2>11. ASSUME ~overlap PROVE EdgesHold' /\ DueInv' /\ FreshInv' /\ StandsOn(w)'
    <3>0. /\ Sequential /\ EdgesHold /\ DueInv /\ FreshInv /\ StandsOn(w) /\ TypeInv /\ JobsInv
          /\ log' = log
      BY <1>0, <2>4, <2>11, SeqFacts DEF SameInputs
    <3>1. EdgesHold' BY <2>1, <3>0 DEF EdgesHold, Exists, GraphRelationships, Parents
    <3>2. DueInv'
      <4> SUFFICES ASSUME NEW q \in Posts \ graph'.takedown PROVE Match(q)' \/ Due(q)' BY DEF DueInv
      <4>1. q # p /\ q \notin graph.takedown BY <2>1
      <4>2. Match(q) \/ Due(q) BY <3>0, <4>1 DEF DueInv
      <4>3. Match(q) => Match(q)' BY <2>1, <2>4 DEF Match
      <4>4. Due(q) => Due(q)' BY <1>0, <2>2, <2>3, <2>4, <3>0, <4>1, DueStep
      <4> QED BY <4>2, <4>3, <4>4
    <3>3. FreshInv' BY <2>2, <2>4, <3>0, FreshSame
    <3>4. StandsOn(w)' BY <2>2, <2>5 DEF StandsOn, Removes, IsWriting
    <3> QED BY <3>1, <3>2, <3>3, <3>4
  <2>12. graph.takedown \subseteq graph'.takedown BY <2>1
  <2> QED BY <1>0, <2>2, <2>3, <2>4, <2>6, <2>7, <2>8, <2>9, <2>10, <2>11, <2>12, MoveKeeps
<1> QED BY <1>3, <1>4

(* The deletion from the graph takes only edges of the post itself.        *)
LEMMA StepDrop ==
  ASSUME PostInv, NEW w \in Loops, Observe(w), Drop(w)
  PROVE  PostInv'
<1> DEFINE i == job[w]
           p == Post(w)
           g == DeletePost(graph, p)
           j == Goto(w, "orphan")
<1>0. i.pc = "drop" /\ Busy(w) /\ index' = index BY DEF Drop, At, Busy
<1>1. PICK k \in {0, Full} : graph' = (IF k = Full THEN g ELSE graph) /\ Proceed(w, k, j)
  BY DEF Drop
<1>2. /\ i \in JobType /\ JobOK(i) /\ IndexOK(index) /\ GraphOK(graph) /\ p \in Posts
      /\ i.ev \in Event /\ p = i.ev.p /\ Within(i.rels, p)
  BY <1>0, InvFacts DEF Post
<1>3. CASE k # Full
  <2>1. graph' = graph /\ SameLinks(graph, graph') BY <1>1, <1>3 DEF SameLinks
  <2> QED BY <1>0, <1>1, <1>2, <1>3, <2>1, AsideAction
<1>4. CASE k = Full
  <2>1. /\ GraphOK(graph') /\ graph'.post = [graph.post EXCEPT ![p] = NoPost]
        /\ graph'.replied = {e \in graph.replied : p \notin {e[1], e[2]}}
        /\ graph'.reposted = {e \in graph.reposted : p \notin {e[1], e[2]}}
        /\ graph'.takedown = graph.takedown
    BY <1>1, <1>2, <1>4, DropFacts
  <2>a. /\ graph'.post[p] = NoPost /\ \A q \in Posts : q # p => graph'.post[q] = graph.post[q]
    BY <1>2, <2>1 DEF GraphOK
  <2>2. /\ j \in JobType /\ j.pc = "orphan" /\ j.todo = {} /\ j.body = i.body
        /\ j.old = i.old /\ j.ev = i.ev /\ j.newer = i.newer /\ j.ret = i.ret /\ j.rels = i.rels
    BY <1>2, GotoFacts DEF Points
  <2> HIDE DEF j
  <2>3. JobOK(j) /\ ~IsWriting(j) /\ ~HasTold(j) /\ j.pc # "idle" /\ ~IsPut(i)
    BY <1>0, <1>2, <2>2 DEF JobOK, Removes, IsWriting, HasTold, IsPut
  <2>4. /\ Around(w) /\ job' = [job EXCEPT ![w] = j] /\ SameInputs /\ buried \subseteq buried'
        /\ overlap' = overlap /\ hs' = hs
    BY <1>0, <1>1, <1>2, <1>4, <2>1, SeqFacts, StillAround DEF Around
  <2>5. job'[w] = j /\ Post(w)' = p /\ Busy(w)' /\ \A v \in Loops : v # w => job'[v] = job[v]
    BY <1>0, <2>2, <2>4, SeqFacts DEF Post, Busy
  <2>6. \A q \in graph'.takedown : Gone(graph'.post[q]) \/ Waits(q)'
    <3> SUFFICES ASSUME NEW q \in graph.takedown PROVE Gone(graph'.post[q]) \/ Waits(q)'
      BY <2>1
    <3>1. CASE q = p BY <2>a, <3>1 DEF Gone
    <3>2. CASE q # p
      <4>0. q \in Posts BY <1>2 DEF GraphOK
      <4>1. Gone(graph'.post[q]) \/ Waits(q) BY <1>0, <2>a, <3>2, <4>0, SeqFacts
      <4> QED BY <1>0, <2>2, <2>3, <2>4, <3>2, <4>1, WaitsStep, SeqFacts
    <3> QED BY <3>1, <3>2
  <2>7. \A q \in Posts : graph'.post[q] # NoPost /\ graph'.post[q].deleted => q \in buried'
    BY <1>0, <2>a, <2>4, SeqFacts DEF BuriedInv, Buries
  <2>8. JobBuried(w)'
    <3>1. JobBuried(w) BY <1>0, SeqFacts
    <3> QED BY <1>0, <2>2, <2>3, <2>4, <2>5, <3>1 DEF JobBuried, Buries
  <2>9. JobTold(w)' BY <2>3, <2>5 DEF JobTold
  <2>10. JobDown(w)'
    <3>1. JobDown(w) BY <1>0, SeqFacts
    <3> QED BY <1>0, <2>1, <2>2, <2>5, <3>1 DEF JobDown
  <2>11. ASSUME ~overlap PROVE EdgesHold' /\ DueInv' /\ FreshInv' /\ StandsOn(w)'
    <3>0. /\ Sequential /\ EdgesHold /\ DueInv /\ FreshInv /\ StandsOn(w) /\ TypeInv /\ JobsInv
          /\ log' = log
      BY <1>0, <2>4, <2>11, SeqFacts DEF SameInputs
    <3>a. \A e \in graph.replied \cup graph.reposted : e[2] # p
      BY <1>0, <1>2, <3>0 DEF StandsOn, Removes
    <3>1. EdgesHold'
      <4>1. ASSUME NEW q \in Posts, Exists(graph', q)
            PROVE  GraphRelationships(graph', q) = Parents(q)
        <5>1. q # p /\ Exists(graph, q) BY <2>a, <4>1 DEF Exists
        <5>2. GraphRelationships(graph, q) = Parents(q) BY <3>0, <5>1 DEF EdgesHold
        <5>3. \A x \in Posts : <<q, x>> \in graph'.replied <=> <<q, x>> \in graph.replied
          BY <2>1, <3>a, <5>1
        <5>4. \A x \in Posts : <<q, x>> \in graph'.reposted <=> <<q, x>> \in graph.reposted
          BY <2>1, <3>a, <5>1
        <5> QED BY <5>2, <5>3, <5>4 DEF GraphRelationships
      <4>2. ASSUME NEW e \in graph'.replied \cup graph'.reposted
            PROVE  Exists(graph', e[1]) /\ Exists(graph', e[2])
        <5>1. e \in graph.replied \cup graph.reposted /\ e[1] # p /\ e[2] # p BY <2>1
        <5>2. Exists(graph, e[1]) /\ Exists(graph, e[2]) BY <3>0, <5>1 DEF EdgesHold
        <5>3. graph'.post[e[1]] = graph.post[e[1]] /\ graph'.post[e[2]] = graph.post[e[2]]
          <6>1. \A x : x # p => graph'.post[x] = graph.post[x] BY <2>1
          <6> QED BY <5>1, <6>1
        <5> QED BY <5>2, <5>3 DEF Exists
      <4> QED BY <4>1, <4>2 DEF EdgesHold, Parents
    <3>2. DueInv'
      <4> SUFFICES ASSUME NEW q \in Posts \ graph.takedown PROVE Match(q)' \/ Due(q)'
        BY <2>1 DEF DueInv
      <4>1. CASE q # p
        <5>1. Match(q) \/ Due(q) BY <3>0 DEF DueInv
        <5>2. Match(q) => Match(q)' BY <2>a, <2>4, <4>1 DEF Match
        <5>3. Due(q) => Due(q)' BY <1>0, <2>2, <2>3, <2>4, <3>0, <4>1, DueStep
        <5> QED BY <5>1, <5>2, <5>3
      <4>2. CASE q = p /\ hs[q] = Nothing
        BY <2>a, <2>4, <4>2 DEF Match, Gone
      <4>3. CASE q = p /\ hs[q] # Nothing
        <5>1. Later(w, p) BY <1>0, <2>3, <2>11, <4>3, DelFollowed
        <5> QED BY <1>0, <2>4, <2>5, <3>0, <4>3, <5>1, LaterStep
      <4> QED BY <4>1, <4>2, <4>3
    <3>3. FreshInv' BY <2>2, <2>4, <3>0, FreshSame
    <3>4. StandsOn(w)' BY <2>2, <2>5 DEF StandsOn, Removes, IsWriting
    <3> QED BY <3>1, <3>2, <3>3, <3>4
  <2>12. graph.takedown \subseteq graph'.takedown BY <2>1
  <2> QED BY <1>0, <2>2, <2>3, <2>4, <2>6, <2>7, <2>8, <2>9, <2>10, <2>11, <2>12, MoveKeeps
<1> QED BY <1>3, <1>4

(* A missing dependency queues the event, which is due from there.         *)
LEMMA RequeueKeeps ==
  ASSUME PostInv, NEW w \in Loops, Busy(w), Requeue(w), Observe(w), graph' = graph, index' = index,
         ~overlap => job[w].ev.type = "put"
  PROVE  PostInv'
<1>0. /\ TypeInv /\ JobsInv /\ LogOrder /\ BuriedInv /\ ToldInv /\ TakedownInv
      /\ job \in [Loops -> JobType] /\ Post(w) \in Posts
  BY SeqFacts, InvFacts
<1>1. /\ Passed(w) /\ job'[w] = Idle /\ ~Busy(w)'
      /\ hs' = hs /\ overlap' = overlap /\ buried' = buried
      /\ queue' \subseteq queue \cup {job[w].ev}
      /\ \A v \in Loops : v # w => job'[v].newer \in BOOLEAN /\ (job'[v] # job[v] => Busy(v))
  <2>1. \A v \in Loops : v # w => job'[v].newer \in BOOLEAN BY <1>0, RequeueShape
  <2>2. \A v \in Loops : v # w /\ job'[v] # job[v] => Busy(v) BY <1>0, RequeueShape
  <2> QED BY <1>0, <2>1, <2>2, RequeueShape
<1>2. Around(w) BY <1>0, <1>1, EndAround
<1>3. JobsInv' /\ (job \in [Loops -> JobType])' /\ (log \in [LiveLoops -> Seq(Event)])'
      /\ (queue \subseteq Event)'
  BY <1>0, JobsRequeue
<1>4. LogOrder' BY <1>0, <1>1, OrderPassed
<1>6. \A p \in graph'.takedown : Gone(graph'.post[p]) \/ Waits(p)'
  <2> SUFFICES ASSUME NEW p \in graph.takedown PROVE Gone(graph.post[p]) \/ Waits(p)' OBVIOUS
  <2>1. Gone(graph.post[p]) \/ Waits(p) BY SeqFacts
  <2> QED BY <1>0, <2>1, WaitsRequeue
<1>7. \A p \in Posts : graph'.post[p] # NoPost /\ graph'.post[p].deleted => p \in buried'
  BY <1>0, <1>1 DEF BuriedInv, Buries
<1>8. ASSUME NEW v \in Loops PROVE (JobBuried(v) /\ JobTold(v) /\ JobDown(v))'
  <2>1. CASE v = w BY <1>1, <2>1, IdleParts
  <2>2. CASE v # w
    <3>1. JobBuried(v) /\ JobTold(v) /\ JobDown(v) BY <1>0, JobParts
    <3> DEFINE i == job[v]
               j == job'[v]
    <3>2. /\ j.pc = i.pc /\ j.ev = i.ev /\ j.body = i.body /\ j.old = i.old /\ j.ret = i.ret
          /\ IsPut(j) = IsPut(i) /\ IsWriting(j) = IsWriting(i) /\ HasTold(j) = HasTold(i)
      BY <1>0, <2>2, NewerKept
    <3>3. Busy(v)' = Busy(v) /\ Post(v)' = Post(v) BY <3>2 DEF Busy, Post
    <3>4. JobBuried(v)' BY <1>1, <3>1, <3>2, <3>3 DEF JobBuried, Buries
    <3>5. JobDown(v)' BY <3>1, <3>2, <3>3 DEF JobDown
    <3>6. JobTold(v)'
      <4> SUFFICES ASSUME ~overlap, Busy(v), HasTold(i), IsPut(i), Post(v) \notin buried \cup halfway
                   PROVE  Told(Post(v))'
        BY <1>1, <1>2, <3>2, <3>3 DEF JobTold, Around
      <4>1. Told(Post(v)) BY <3>1 DEF JobTold
      <4> DEFINE p == Post(v)
      <4>2. p' = p BY <3>3
      <4> HIDE DEF p
      <4>3. Told(p) BY <4>1 DEF p
      <4>4. Told(p)' BY <4>2, <4>3 DEF Told
      <4> QED BY <4>4 DEF p
    <3> QED BY <3>4, <3>5, <3>6
  <2> QED BY <2>1, <2>2
<1>9. SeqInv'
  <2> SUFFICES ASSUME ~overlap
               PROVE  Sequential' /\ EdgesHold' /\ DueInv' /\ FreshInv'
                      /\ \A v \in Loops : Busy(v)' => StandsOn(v)'
    BY <1>1 DEF SeqInv
  <2>0. Sequential /\ EdgesHold /\ DueInv /\ FreshInv BY SeqFacts
  <2>1. \A v \in Loops : v # w => ~Busy(v) /\ job'[v] = job[v] BY <1>1, <2>0 DEF Sequential
  <2>2. \A v \in Loops : ~Busy(v)' BY <1>1, <2>1 DEF Busy
  <2>3. Sequential'
    <3>1. \A v \in Loops : ~job'[v].newer BY <1>1, <2>0, <2>1, IdleFacts DEF Sequential
    <3>2. \A e \in queue' : e.type = "put" BY <1>1, <2>0 DEF Sequential
    <3> QED BY <2>2, <3>1, <3>2 DEF Sequential
  <2>4. EdgesHold' BY <2>0, EdgesSame DEF SameLinks
  <2>5. DueInv'
    <3> SUFFICES ASSUME NEW p \in Posts \ graph.takedown PROVE Match(p)' \/ Due(p)'
      BY DEF DueInv
    <3>1. Match(p) => Match(p)' BY <1>1 DEF Match
    <3>2. Match(p) \/ Due(p) BY <2>0 DEF DueInv
    <3>3. Due(p) => Due(p)' BY <1>0, <2>0, DueRequeue
    <3> QED BY <3>1, <3>2, <3>3
  <2>6. FreshInv'
    <3>1. \A v \in Loops : job'[v].pc # "graph" BY <2>2 DEF Busy
    <3> QED BY <3>1 DEF FreshInv
  <2> QED BY <2>2, <2>3, <2>4, <2>5, <2>6
<1>10. graph.takedown \subseteq graph'.takedown OBVIOUS
<1> QED BY <1>2, <1>3, <1>4, <1>6, <1>7, <1>8, <1>9, <1>10, Assemble

(* The recovery reads what the graph has of the post.                      *)
LEMMA StepRecover ==
  ASSUME PostInv, NEW w \in Loops, Observe(w), RecoverRead(w)
  PROVE  PostInv'
<1> DEFINE i == job[w]
           p == Post(w)
           d == graph.post[p]
           r == GraphRelationships(graph, p)
           j == [i EXCEPT !.pc = "parents", !.body = d, !.rels = r]
<1>0. i.pc = "recover" /\ Busy(w) /\ graph' = graph /\ index' = index
  BY DEF RecoverRead, At, Busy, stores
<1>2. /\ i \in JobType /\ JobOK(i) /\ IndexOK(index) /\ GraphOK(graph) /\ p \in Posts
      /\ i.ev \in Event /\ p = i.ev.p /\ i.todo = {}
  <2>1. /\ i \in JobType /\ JobOK(i) /\ IndexOK(index) /\ GraphOK(graph) /\ p \in Posts
        /\ i.ev \in Event
    BY <1>0, InvFacts
  <2> QED BY <1>0, <2>1 DEF Post, JobOK
<1>a. CASE ~Exists(graph, p)
  <2>1. Requeue(w) BY <1>a DEF RecoverRead
  <2>2. overlap BY <1>0, <1>2, <1>a, SeqFacts DEF StandsOn
  <2> QED BY <1>0, <2>1, <2>2, RequeueKeeps
<1>b. CASE Exists(graph, p)
  <2>1. Proceed(w, Full, j) BY <1>b DEF RecoverRead
  <2>2. r \in Relationships /\ Within(r, p) BY <1>2, RelationshipsFacts
  <2>3. d \in Body /\ d \in Details BY <1>2, <1>b DEF GraphOK, Exists, Body
  <2>4. /\ j \in JobType /\ j.pc = "parents" /\ j.body = d /\ j.rels = r /\ j.ev = i.ev
        /\ j.newer = i.newer /\ j.ret = i.ret /\ j.old = i.old /\ j.todo = {}
    <3> HIDE DEF i, r, d
    <3> QED BY <1>2, <2>2, <2>3 DEF JobType, Points
  <2> HIDE DEF j
  <2>5. /\ JobOK(j) /\ ~HasTold(j) /\ IsPut(j) = IsPut(i) /\ IsWriting(i) /\ IsWriting(j) /\ ~Removes(j)
    <3>1. j.ev.p = p BY <1>2, <2>4
    <3> HIDE DEF p, r, d
    <3> QED BY <1>0, <1>2, <2>2, <2>3, <2>4, <3>1 DEF JobOK, Removes, IsWriting, HasTold, IsPut
  <2>6. (Obliged(i) => Obliged(j)) /\ ~Works(i)
    BY <1>0, <2>5 DEF Obliged, Works, Removes
  <2>7. Around(w) /\ job' = [job EXCEPT ![w] = j] /\ SameInputs /\ buried \subseteq buried' /\ overlap' = overlap
        /\ hs' = hs
    BY <1>0, <1>2, <2>1, SeqFacts, StillAround DEF Around
  <2>8. job'[w] = j /\ Post(w)' = p /\ Busy(w)' /\ \A v \in Loops : v # w => job'[v] = job[v]
    BY <1>0, <2>4, <2>7, SeqFacts DEF Post, Busy
  <2>9. JobBuried(w)'
    <3>1. JobBuried(w) /\ Buries(d, p) BY <1>0, <1>2, SeqFacts DEF BuriedInv
    <3> HIDE DEF d
    <3> QED BY <1>0, <2>4, <2>5, <2>7, <2>8, <3>1 DEF JobBuried, Buries
  <2>10. JobTold(w)' BY <2>5, <2>8 DEF JobTold
  <2>11. JobDown(w)'
    <3>1. JobDown(w) BY <1>0, SeqFacts
    <3> QED BY <1>0, <2>4, <2>8, <3>1 DEF JobDown
  <2>12. ASSUME ~overlap PROVE FreshInv' /\ StandsOn(w)'
    <3>0. FreshInv /\ EdgesHold /\ log' = log BY <1>0, <2>7, <2>12, SeqFacts DEF SameInputs
    <3>1. FreshInv' BY <1>0, <2>4, <2>7, <3>0, SeqFacts, FreshSame
    <3>2. r = Parents(p) BY <1>2, <1>b, <3>0 DEF EdgesHold
    <3>3. j.ev.p = p BY <1>2, <2>4
    <3>4. StandsOn(w)'
      <4> HIDE DEF p, r
      <4> QED BY <2>4, <2>5, <2>8, <3>2, <3>3 DEF StandsOn, Parents
    <3> QED BY <3>1, <3>4
  <2>13. SameLinks(graph, graph') /\ j.pc # "idle" BY <1>0, <2>4 DEF SameLinks
  <2> QED BY <1>0, <2>4, <2>5, <2>6, <2>7, <2>9, <2>10, <2>11, <2>12, <2>13, PointKeeps
<1> QED BY <1>a, <1>b

(* Without overlap a tombstone never lacks a parent.                       *)
LEMMA ParentsThere ==
  ASSUME PostInv, NEW w \in Loops, Busy(w), ~overlap, job[w].pc = "graph", ~IsPut(job[w])
  PROVE  \A q \in job[w].rels.replied \cup job[w].rels.reposted : Exists(graph, q)
<1>0. EdgesHold /\ StandsOn(w) /\ GraphOK(graph) BY SeqFacts, InvFacts
<1>1. Post(w) \in Posts /\ Within(job[w].rels, Post(w)) BY InvFacts
<1>2. Exists(graph, Post(w)) BY <1>0 DEF StandsOn, Post
<1>3. GraphRelationships(graph, Post(w)) = Parents(Post(w)) BY <1>0, <1>1, <1>2 DEF EdgesHold
<1> SUFFICES ASSUME NEW q \in job[w].rels.replied \cup job[w].rels.reposted PROVE Exists(graph, q)
  OBVIOUS
<1>4. q \in Replied[Post(w)] \/ q \in Reposted[Post(w)] BY <1>1 DEF Within
<1>5. <<Post(w), q>> \in graph.replied \cup graph.reposted
  BY <1>3, <1>4 DEF GraphRelationships, Parents
<1> QED BY <1>0, <1>5 DEF EdgesHold

(* Creating a post whose parents exist keeps the edges in agreement.       *)
LEMMA CreateEdges ==
  ASSUME EdgesHold, GraphOK(graph), GraphOK(graph'), NEW p \in Posts, NEW d \in Details, NEW r, Within(r, p),
         graph'.post = [graph.post EXCEPT ![p] = d],
         graph'.replied = graph.replied \cup ({p} \X r.replied),
         graph'.reposted = graph.reposted \cup ({p} \X r.reposted),
         \A q \in r.replied \cup r.reposted : Exists(graph, q),
         r = Parents(p) \/ Exists(graph, p)
  PROVE  EdgesHold'
<1>0. d # NoPost BY Nature
<1>1. \A x \in Posts : Exists(graph', x) <=> x = p \/ Exists(graph, x)
  BY <1>0 DEF Exists, GraphOK
<1>2. ASSUME NEW x \in Posts, Exists(graph', x) PROVE GraphRelationships(graph', x) = Parents(x)
  <2>1. CASE x # p
    <3>1. GraphRelationships(graph, x) = Parents(x) BY <1>1, <1>2, <2>1 DEF EdgesHold
    <3>2. \A y \in Posts : /\ <<x, y>> \in graph'.replied <=> <<x, y>> \in graph.replied
                           /\ <<x, y>> \in graph'.reposted <=> <<x, y>> \in graph.reposted
      BY <2>1
    <3> QED BY <3>1, <3>2 DEF GraphRelationships
  <2>2. CASE x = p
    <3>1. \A y \in Posts : <<p, y>> \in graph'.replied => y \in Replied[p] BY DEF GraphOK
    <3>2. \A y \in Posts : <<p, y>> \in graph'.reposted => y \in Reposted[p] BY DEF GraphOK
    <3>3. \A y \in Posts : y \in Replied[p] => <<p, y>> \in graph'.replied
      <4>1. CASE r = Parents(p) BY <4>1 DEF Parents
      <4>2. CASE Exists(graph, p) BY <4>2 DEF EdgesHold, GraphRelationships, Parents
      <4> QED BY <4>1, <4>2
    <3>4. \A y \in Posts : y \in Reposted[p] => <<p, y>> \in graph'.reposted
      <4>1. CASE r = Parents(p) BY <4>1 DEF Parents
      <4>2. CASE Exists(graph, p) BY <4>2 DEF EdgesHold, GraphRelationships, Parents
      <4> QED BY <4>1, <4>2
    <3>5. Replied[p] \subseteq Posts /\ Reposted[p] \subseteq Posts BY Nature
    <3>6. {y \in Posts : <<p, y>> \in graph'.replied} = Replied[p] BY <3>1, <3>3, <3>5
    <3>7. {y \in Posts : <<p, y>> \in graph'.reposted} = Reposted[p] BY <3>2, <3>4, <3>5
    <3> QED BY <2>2, <3>6, <3>7 DEF GraphRelationships, Parents
  <2> QED BY <2>1, <2>2
<1>3. ASSUME NEW e \in graph'.replied \cup graph'.reposted
      PROVE  Exists(graph', e[1]) /\ Exists(graph', e[2])
  <2>1. CASE e \in graph.replied \cup graph.reposted
    <3>1. Exists(graph, e[1]) /\ Exists(graph, e[2]) BY <2>1 DEF EdgesHold
    <3>2. \A x : Exists(graph, x) => Exists(graph', x) BY <1>0 DEF Exists
    <3> QED BY <3>1, <3>2
  <2>2. CASE e \in ({p} \X r.replied) \cup ({p} \X r.reposted)
    <3>1. e[1] = p /\ e[2] \in r.replied \cup r.reposted BY <2>2
    <3>2. e[2] \in Posts BY <3>1, Nature DEF Within
    <3> QED BY <1>1, <3>1, <3>2
  <2> QED BY <2>1, <2>2
<1> QED BY <1>2, <1>3 DEF EdgesHold, Parents

(* The write to the graph: the post has what the homeserver has, or a      *)
(* later event is due.                                                     *)
LEMMA StepGraph ==
  ASSUME PostInv, NEW w \in Loops, Observe(w), PutToGraph(w)
  PROVE  PostInv'
<1> DEFINE i == job[w]
           p == Post(w)
           r == i.rels
           outcome == CreatePostOutcome(graph, p, r)
           l == IF outcome = "Updated" THEN "existing" ELSE "mentions"
           j == Goto(w, l)
<1>0. i.pc = "graph" /\ Busy(w) BY DEF PutToGraph, At, Busy
<1>2. /\ i \in JobType /\ JobOK(i) /\ IndexOK(index) /\ GraphOK(graph) /\ p \in Posts
      /\ i.ev \in Event /\ p = i.ev.p /\ Within(r, p) /\ r \in Relationships /\ i.body \in Details
      /\ IsPut(i) => r = Parents(p) /\ ~i.body.deleted
      /\ ~IsPut(i) => i.body = Tombstone
  <2>1. /\ i \in JobType /\ JobOK(i) /\ IndexOK(index) /\ GraphOK(graph) /\ p \in Posts
        /\ i.ev \in Event /\ Within(r, p) /\ p = i.ev.p
    BY <1>0, InvFacts DEF Post
  <2>2. r \in Relationships BY <2>1 DEF JobType
  <2> QED BY <1>0, <2>1, <2>2, Nature DEF JobOK
<1>a. CASE outcome = "MissingDependency"
  <2>1. Requeue(w) /\ graph' = graph /\ index' = index BY <1>a DEF PutToGraph, stores
  <2>2. \E q \in r.replied \cup r.reposted : ~Exists(graph, q) BY <1>a DEF CreatePostOutcome
  <2>3. ~overlap => IsPut(i) BY <1>0, <2>2, ParentsThere
  <2> QED BY <1>0, <2>1, <2>3, RequeueKeeps DEF IsPut
<1>b. CASE outcome # "MissingDependency"
  <2> DEFINE g == CreatePost(graph, p, i.body, r)
  <2>0. index' = index BY <1>b DEF PutToGraph
  <2>1. PICK k \in {0, Full} : graph' = (IF k = Full THEN g ELSE graph) /\ Proceed(w, k, j)
    BY <1>b DEF PutToGraph
  <2>2. CASE k # Full
    <3>1. graph' = graph /\ SameLinks(graph, graph') BY <2>1, <2>2 DEF SameLinks
    <3> QED BY <1>0, <1>2, <2>0, <2>1, <2>2, <3>1, AsideAction
  <2>3. CASE k = Full
    <3>1. /\ GraphOK(graph') /\ graph'.post = [graph.post EXCEPT ![p] = i.body]
          /\ graph'.replied = graph.replied \cup ({p} \X r.replied)
          /\ graph'.reposted = graph.reposted \cup ({p} \X r.reposted)
          /\ graph'.takedown = graph.takedown
      BY <1>2, <2>1, <2>3, CreateFacts
    <3>a. graph'.post[p] = i.body /\ \A q \in Posts : q # p => graph'.post[q] = graph.post[q]
      BY <1>2, <3>1 DEF GraphOK
    <3>b. l \in {"existing", "mentions"} /\ l \in Points BY DEF Points
    <3>2. /\ j \in JobType /\ j.pc \in {"existing", "mentions"} /\ j.todo = {} /\ j.body = i.body
          /\ j.old = i.old /\ j.ev = i.ev /\ j.newer = i.newer /\ j.ret = i.ret /\ j.rels = r
      BY <1>2, <3>b, GotoFacts
    <3> HIDE DEF j
    <3>c. IsPut(j) = IsPut(i) /\ (IsPut(j) => Obliged(j)) /\ JobOK(j) /\ ~HasTold(j) /\ ~Removes(j) /\ IsWriting(j) /\ j.pc # "idle"
      <4>1. IsPut(j) = IsPut(i) BY <3>2 DEF IsPut
      <4> QED BY <1>0, <1>2, <3>2, <4>1 DEF JobOK, Removes, IsWriting, HasTold, Obliged
    <3>4. /\ Around(w) /\ job' = [job EXCEPT ![w] = j] /\ SameInputs /\ buried \subseteq buried'
          /\ overlap' = overlap /\ hs' = hs
      BY <1>0, <1>2, <2>0, <2>1, <2>3, <3>1, SeqFacts, StillAround DEF Around
    <3>5. job'[w] = j /\ Post(w)' = p /\ Busy(w)' /\ \A v \in Loops : v # w => job'[v] = job[v]
      BY <1>0, <3>2, <3>4, SeqFacts DEF Post, Busy
    <3>6. \A q \in graph'.takedown : Gone(graph'.post[q]) \/ Waits(q)'
      <4> SUFFICES ASSUME NEW q \in graph.takedown PROVE Gone(graph'.post[q]) \/ Waits(q)'
        BY <3>1
      <4>1. CASE q = p /\ IsPut(i) BY <3>c, <3>5, <4>1 DEF Waits
      <4>2. CASE q = p /\ ~IsPut(i) BY <1>2, <3>a, <4>2 DEF Gone
      <4>3. CASE q # p
        <5>0. q \in Posts BY <1>2 DEF GraphOK
        <5>1. Gone(graph'.post[q]) \/ Waits(q) BY <1>0, <3>a, <4>3, <5>0, SeqFacts
        <5> QED BY <1>0, <3>2, <3>c, <3>4, <4>3, <5>1, WaitsStep, SeqFacts
      <4> QED BY <4>1, <4>2, <4>3
    <3>7. JobBuried(w) BY <1>0, SeqFacts
    <3>8. \A q \in Posts : graph'.post[q] # NoPost /\ graph'.post[q].deleted => q \in buried'
      BY <1>0, <3>a, <3>4, <3>7, SeqFacts DEF BuriedInv, Buries, JobBuried
    <3>9. JobBuried(w)'
      BY <1>0, <3>2, <3>c, <3>4, <3>5, <3>7 DEF JobBuried, Buries
    <3>10. JobTold(w)' BY <3>c, <3>5 DEF JobTold
    <3>11. JobDown(w)'
      <4>1. JobDown(w) BY <1>0, SeqFacts
      <4> QED BY <1>0, <3>1, <3>2, <3>5, <4>1 DEF JobDown
    <3>12. ASSUME ~overlap PROVE EdgesHold' /\ DueInv' /\ FreshInv' /\ StandsOn(w)'
      <4>0. /\ Sequential /\ EdgesHold /\ DueInv /\ FreshInv /\ StandsOn(w) /\ TypeInv /\ JobsInv
            /\ log' = log
        BY <1>0, <3>4, <3>12, SeqFacts DEF SameInputs
      <4>1. EdgesHold'
        <5>1. \A q \in r.replied \cup r.reposted : Exists(graph, q) BY <1>b DEF CreatePostOutcome
        <5>2. r = Parents(p) \/ Exists(graph, p) BY <1>0, <1>2, <4>0 DEF StandsOn
        <5> HIDE DEF p, r
        <5> QED BY <1>2, <3>1, <4>0, <5>1, <5>2, CreateEdges
      <4>2. DueInv'
        <5> SUFFICES ASSUME NEW q \in Posts \ graph.takedown PROVE Match(q)' \/ Due(q)'
          BY <3>1 DEF DueInv
        <5>0. Later(w, p) /\ q = p => Due(q)' BY <1>0, <3>4, <3>5, <4>0, LaterStep
        <5>1. CASE q # p
          <6>1. Match(q) \/ Due(q) BY <4>0 DEF DueInv
          <6>2. Match(q) => Match(q)' BY <3>a, <3>4, <5>1 DEF Match
          <6>3. Due(q) => Due(q)' BY <1>0, <3>2, <3>c, <3>4, <4>0, <5>1, DueStep
          <6> QED BY <6>1, <6>2, <6>3
        <5>2. CASE q = p /\ IsPut(i)
          <6>1. i.body = FromHomeserver(hs[p]) \/ Later(w, p) BY <1>0, <4>0, <5>2 DEF FreshInv
          <6>2. ASSUME i.body = FromHomeserver(hs[p]) PROVE Match(q)'
            <7>1. hs[p] \in Contents BY <1>2, <6>2 DEF Details, FromHomeserver
            <7>2. hs[p] # Nothing BY <7>1, Nature
            <7> QED BY <3>a, <3>4, <5>2, <6>2, <7>2 DEF Match, FromHomeserver
          <6> QED BY <5>0, <5>2, <6>1, <6>2
        <5>3. CASE q = p /\ ~IsPut(i)
          <6>1. hs[p] # Nothing => Later(w, p) BY <1>0, <3>12, <5>3, DelFollowed
          <6>2. hs[p] = Nothing => Match(q)' BY <1>2, <3>a, <3>4, <5>3 DEF Match, Gone
          <6> QED BY <5>0, <5>3, <6>1, <6>2
        <5> QED BY <5>1, <5>2, <5>3
      <4>3. FreshInv' BY <3>2, <3>4, <4>0, FreshSame
      <4>4. StandsOn(w)'
        <5>1. Exists(graph', p) BY <1>2, <3>a, Nature DEF Exists
        <5>2. j.ev.p = p BY <1>2, <3>2
        <5>3. IsPut(j) => j.rels = Parents(p) BY <1>2, <3>2, <3>c
        <5> HIDE DEF p
        <5> QED BY <3>2, <3>c, <3>5, <5>1, <5>2, <5>3 DEF StandsOn, Exists, Parents
      <4> QED BY <4>1, <4>2, <4>3, <4>4
    <3>13. graph.takedown \subseteq graph'.takedown BY <3>1
    <3> QED BY <1>0, <3>2, <3>c, <3>4, <3>6, <3>8, <3>9, <3>10, <3>11, <3>12, <3>13, MoveKeeps
  <2> QED BY <2>2, <2>3
<1> QED BY <1>a, <1>b

(* What the last writes of a put make of the index.                        *)
Kept(y, p, d) ==
    /\ IndexOK(y) /\ index.note \subseteq y.note
    /\ \A q \in Posts : y.details[q] = index.details[q] \/ (q = p /\ y.details[q] = d)

(* A write that leaves the details alone.                                  *)
LEMMA DetailsSame ==
  ASSUME NEW y, IndexOK(y), index.note \subseteq y.note, y.details = index.details
  PROVE  FillsFrom(index, y, graph) /\ \A p, d : Kept(y, p, d)
BY DEF FillsFrom, Kept

(* What is read of the parents through the cache.                          *)
LEMMA ParentFacts ==
  ASSUME NEW x, IndexOK(x), GraphOK(graph), NEW qs \in SUBSET Posts, qs # {}
  PROVE  /\ FillsFrom(x, FillParent(x, qs), graph) /\ FillParent(x, qs).note = x.note
         /\ LET y == BumpParents(x, qs) IN IndexOK(y) /\ y.details = x.details /\ y.note = x.note
<1> DEFINE q == CHOOSE q \in qs : TRUE
           y == FillRelationships(x, graph, q)
           z == Incr(y, q, 1)
<1>1. q \in Posts
  <2>1. \E c \in qs : TRUE OBVIOUS
  <2>2. q \in qs BY <2>1
  <2> QED BY <2>2
<1>2. FillParent(x, qs) = FillDetails(x, graph, q) BY DEF FillParent
<1>3. BumpParents(x, qs) = y \/ BumpParents(x, qs) = z BY DEF BumpParents
<1> HIDE DEF q
<1>4. FillsFrom(x, FillParent(x, qs), graph) /\ FillParent(x, qs).note = x.note
  BY <1>1, <1>2, FillDetailsFacts
<1>5. IndexOK(y) /\ y.details = x.details /\ y.note = x.note
  BY <1>1, FillRelationshipsFacts
<1>6. IndexOK(z) /\ z.details = y.details /\ z.note = y.note
  BY <1>5, IncrAside DEF Aside
<1> HIDE DEF y, z
<1> QED BY <1>3, <1>4, <1>5, <1>6

(* The parents' authors are told of p.                                     *)
Telling(x, qs, kind, p) ==
    Notify(FillParent(x, qs), Author[p], {Author[q] : q \in qs}, kind, p)
NotesOf(qs, kind, p) ==
    {[to |-> u, kind |-> kind, post |-> p] : u \in {Author[q] : q \in qs} \ {Author[p]}}

(* Telling the authors of the parents.                                     *)
LEMMA TellFacts ==
  ASSUME NEW x, IndexOK(x), GraphOK(graph), NEW qs \in SUBSET Posts, qs # {}, NEW p, NEW kind
  PROVE  /\ FillsFrom(x, Telling(x, qs, kind, p), graph)
         /\ Telling(x, qs, kind, p).note = x.note \cup NotesOf(qs, kind, p)
<1> DEFINE f == FillParent(x, qs)
           tos == {Author[q] : q \in qs}
           y == Notify(f, Author[p], tos, kind, p)
<1>1. FillsFrom(x, f, graph) /\ f.note = x.note BY ParentFacts
<1>2. IndexOK(f) BY <1>1 DEF FillsFrom
<1>7. y = Telling(x, qs, kind, p) BY DEF Telling
<1>8. NotesOf(qs, kind, p) = {[to |-> u, kind |-> kind, post |-> p] : u \in tos \ {Author[p]}}
  BY DEF NotesOf
<1> HIDE DEF f, tos
<1>3. /\ IndexOK(y) /\ y.details = f.details
      /\ y.note = f.note \cup {[to |-> u, kind |-> kind, post |-> p] : u \in tos \ {Author[p]}}
  BY <1>2, NotifyFacts
<1> HIDE DEF y
<1>4. x.note \subseteq y.note /\ y.note = x.note \cup NotesOf(qs, kind, p) BY <1>1, <1>3, <1>8
<1>5. \A q \in Posts : \/ y.details[q] = x.details[q]
                       \/ x.details[q] = NoPost /\ y.details[q] = graph.post[q] /\ graph.post[q] # NoPost
  BY <1>1, <1>3 DEF FillsFrom
<1>6. FillsFrom(x, y, graph) BY <1>3, <1>4, <1>5 DEF FillsFrom
<1> QED BY <1>4, <1>6, <1>7

(* The joined writes of a new post.                                        *)
LEMMA LinkEffects ==
  ASSUME IndexOK(index), GraphOK(graph), NEW p, NEW l, NEW qs \in SUBSET Posts, qs # {},
         NEW a \in {"uncount", "bump", "thread", "tell"}
  PROVE  /\ FillsFrom(index, LinkEffect(p, l, qs, a), graph)
         /\ a = "tell" => LinkEffect(p, l, qs, a).note = index.note \cup NotesOf(qs, l, p)
<1> DEFINE y == LinkEffect(p, l, qs, a)
<1>1. CASE a = "uncount"
  <2>1. y = Invalidate(index, qs) BY <1>1 DEF LinkEffect
  <2> QED BY <1>1, <2>1, InvalidateAside, DetailsSame DEF Aside
<1>2. CASE a = "bump"
  <2>1. y = BumpParents(index, qs) BY <1>2 DEF LinkEffect
  <2>2. IndexOK(y) /\ y.details = index.details /\ y.note = index.note BY <2>1, ParentFacts
  <2> HIDE DEF y
  <2>3. FillsFrom(index, y, graph) BY <2>2, DetailsSame
  <2> QED BY <1>2, <2>3 DEF y
<1>3. CASE a = "thread"
  <2> DEFINE t == index.thread \cup (qs \X {p})
  <2>1. y = [index EXCEPT !.thread = t] BY <1>3 DEF LinkEffect
  <2> HIDE DEF t
  <2>2. IsIndex(y) /\ y.details = index.details /\ y.rel = index.rel /\ y.note = index.note
    BY <2>1 DEF IndexOK, IsIndex
  <2> HIDE DEF y
  <2>3. FillsFrom(index, y, graph) BY <2>2, AsideOK, DetailsSame DEF Aside
  <2> QED BY <1>3, <2>3 DEF y
<1>4. CASE a = "tell"
  <2> DEFINE z == Telling(index, qs, l, p)
  <2>1. y = z BY <1>4 DEF LinkEffect, Telling
  <2>2. FillsFrom(index, z, graph) /\ z.note = index.note \cup NotesOf(qs, l, p)
    BY TellFacts
  <2> HIDE DEF z
    <2> QED BY <1>4, <2>1, <2>2
<1> QED BY <1>1, <1>2, <1>3, <1>4

(* The joined writes of a deleted post.                                    *)
LEMMA UnlinkEffects ==
  ASSUME IndexOK(index), NEW p, NEW known \in BOOLEAN, NEW qs, NEW a \in {"bump", "tell"}
  PROVE  FillsFrom(index, UnlinkEffect(p, known, qs, a), graph)
<1> DEFINE y == UnlinkEffect(p, known, qs, a)
           q == CHOOSE q \in qs : TRUE
           m == Incr(index, q, -1)
           n == Notify(index, Author[p], {Author[x] : x \in qs}, "deleted", p)
<1>1. y = index \/ y = m \/ y = n BY DEF UnlinkEffect
<1>2. FillsFrom(index, index, graph) BY DetailsSame
<1> HIDE DEF q
<1>3. FillsFrom(index, m, graph) BY IncrAside, DetailsSame DEF Aside
<1>4. FillsFrom(index, n, graph)
  <2>1. IndexOK(n) /\ n.details = index.details /\ index.note \subseteq n.note BY NotifyFacts
  <2> HIDE DEF n
  <2> QED BY <2>1, DetailsSame
<1> HIDE DEF m, n
<1> QED BY <1>1, <1>2, <1>3, <1>4

(* Details stored at the end of a put, also when only some keys are.       *)
LEMMA DetailsEffects ==
  ASSUME IndexOK(index), NEW p \in Posts, NEW d \in Body, NEW s, NEW k \in Nat
  PROVE  Kept(PutDetails(index, p, d, s, FALSE, k), p, d)
<1>1. \A e : LET y == PutDetails(index, p, d, s, e, k) IN
           /\ IndexOK(y) /\ y.note = index.note
           /\ y.details = [index.details EXCEPT ![p] = IF k >= 1 THEN d ELSE @]
  BY PutDetailsFacts
<1> DEFINE y == PutDetails(index, p, d, s, FALSE, k)
<1>2. /\ IndexOK(y) /\ y.note = index.note
      /\ y.details = [index.details EXCEPT ![p] = IF k >= 1 THEN d ELSE @]
  BY <1>1, Zenon
<1> HIDE DEF y
<1>3. Kept(y, p, d) BY <1>2 DEF Kept, IndexOK
<1> QED BY <1>3 DEF y

(* Relationships and counts stored at the end of a recovery.               *)
LEMMA ReindexEffects ==
  ASSUME IndexOK(index), GraphOK(graph), NEW p \in Posts, NEW d, NEW a \in {"rel", "counts"}
  PROVE  Kept(ReindexEffect(p, a), p, d)
<1> DEFINE r == GraphRelationships(graph, p)
           y == PutRelationships(index, p, r, Full)
           n == GraphCounts(graph, p)
           z == PutCounts(index, p, n, r.replied # {}, Full)
<1>1. ReindexEffect(p, a) = index \/ ReindexEffect(p, a) = y \/ ReindexEffect(p, a) = z
  BY DEF ReindexEffect
<1>2. Kept(index, p, d) BY DetailsSame
<1>3. Kept(y, p, d)
  <2>1. r \in Relationships /\ Within(r, p) BY RelationshipsFacts
  <2>2. IndexOK(y) /\ y.details = index.details /\ y.note = index.note BY <2>1, PutRelationshipsFacts
  <2> HIDE DEF y
  <2> QED BY <2>2, DetailsSame
<1>4. Kept(z, p, d)
  <2>1. \A e : Aside(index, PutCounts(index, p, n, e, Full)) BY PutCountsAside
  <2>2. Aside(index, z) BY <2>1, Zenon
  <2> HIDE DEF z
  <2> QED BY <2>2, DetailsSame DEF Aside
<1> HIDE DEF y, z
<1> QED BY <1>1, <1>2, <1>3, <1>4

(* Which writes are joined where.                                          *)
LEMMA JoinShapes ==
  ASSUME NEW w, NEW a \in Writes \ {"details"}
  PROVE  /\ \A l \in {"reply"} : JoinEffect(w, l, a) = LinkEffect(Post(w), l, job[w].rels.replied, a)
         /\ \A l \in {"repost"} : JoinEffect(w, l, a) = LinkEffect(Post(w), l, job[w].rels.reposted, a)
         /\ \A l \in {"unreply"} : JoinEffect(w, l, a) = UnlinkEffect(Post(w), job[w].known, job[w].rels.replied, a)
         /\ \A l \in {"unrepost"} : JoinEffect(w, l, a) = UnlinkEffect(Post(w), job[w].known, job[w].rels.reposted, a)
         /\ a \in {"rel", "counts"} => JoinEffect(w, "reindex", a) = ReindexEffect(Post(w), a)
<1>1. JoinEffect(w, "reply", a) = LinkEffect(Post(w), "reply", job[w].rels.replied, a)
  BY DEF JoinEffect, Writes
<1>2. JoinEffect(w, "repost", a) = LinkEffect(Post(w), "repost", job[w].rels.reposted, a)
  BY DEF JoinEffect, Writes
<1>3. JoinEffect(w, "unreply", a) = UnlinkEffect(Post(w), job[w].known, job[w].rels.replied, a)
  BY DEF JoinEffect, Writes
<1>4. JoinEffect(w, "unrepost", a) = UnlinkEffect(Post(w), job[w].known, job[w].rels.reposted, a)
  BY DEF JoinEffect, Writes
<1>5. a \in {"rel", "counts"} => JoinEffect(w, "reindex", a) = ReindexEffect(Post(w), a)
  BY DEF JoinEffect, Writes
<1> QED BY <1>1, <1>2, <1>3, <1>4, <1>5

(* One write of a join, whole or interrupted.                              *)
LEMMA JoinIndex ==
  ASSUME PostInv, NEW w \in Loops, Busy(w), NEW a \in job[w].todo, Observe(w),
         index' = JoinEffect(w, job[w].pc, a) \/ index' \in JoinPartial(w, a)
  PROVE  /\ IndexOK(index') /\ index.note \subseteq index'.note /\ DetailsMove(w)
         /\ job[w].pc = "reply" /\ a = "tell" /\ index' = JoinEffect(w, job[w].pc, a)
              => NotesOf(job[w].rels.replied, "reply", Post(w)) \subseteq index'.note
<1> DEFINE i == job[w]
           p == Post(w)
           l == job[w].pc
           r == job[w].rels
<1>0. /\ IndexOK(index) /\ GraphOK(graph) /\ i \in JobType /\ JobOK(i) /\ p \in Posts /\ TypeInv
      /\ Within(r, p)
  BY InvFacts
<1>1. /\ r \in Relationships /\ r.replied \in SUBSET Posts /\ r.reposted \in SUBSET Posts /\ i.body \in Body
      /\ i.known \in BOOLEAN
  BY <1>0 DEF JobType, Relationships
<1>2. l \in {"reply", "repost", "finish", "reindex", "unreply", "unrepost"}
  BY <1>0 DEF JobOK
<1>3. /\ l \in {"reply", "repost"} => a \in {"uncount", "bump", "thread", "tell"}
      /\ l = "finish" => a \in {"rel", "details"}
      /\ l = "reindex" => a \in {"rel", "details", "counts"}
      /\ l \in {"unreply", "unrepost"} => a \in {"bump", "tell"}
      /\ l \in {"reply", "unreply"} => r.replied # {}
      /\ l \in {"repost", "unrepost"} => r.reposted # {}
  BY <1>0 DEF JobOK
<1> DEFINE qs == IF l \in {"reply", "unreply"} THEN r.replied ELSE r.reposted
           y == JoinEffect(w, l, a)
<1>4. index' \in {y, index} \/ (a = "details" /\ \E k \in 0..2 : index' = PutDetails(index, p, i.body, r.replied, FALSE, k))
  BY DEF JoinPartial

(* The writes of the joins that link and unlink.                           *)
<1>a. CASE l \in {"reply", "repost", "unreply", "unrepost"}
  <2>0. a \in Writes \ {"details"} BY <1>3, <1>a DEF Writes
  <2>1. l \in {"reply", "repost"} => y = LinkEffect(p, l, qs, a) BY <2>0, JoinShapes
  <2>2. l \in {"unreply", "unrepost"} => y = UnlinkEffect(p, i.known, qs, a)
    BY <2>0, JoinShapes
  <2>3. qs \in SUBSET Posts /\ qs # {} BY <1>1, <1>3, <1>a
  <2>4. (l = "reply" => qs = r.replied) OBVIOUS
  <2>5. index' = y \/ index' = index BY <1>3, <1>4, <1>a
  <2> HIDE DEF qs, y
  <2>6. FillsFrom(index, y, graph)
    BY <1>0, <1>1, <1>3, <1>a, <2>1, <2>2, <2>3, LinkEffects, UnlinkEffects
  <2>7. l = "reply" /\ a = "tell" => y.note = index.note \cup NotesOf(qs, "reply", p)
    BY <1>0, <2>1, <2>3, LinkEffects
  <2>8. FillsFrom(index, index', graph)
    <3>1. FillsFrom(index, index, graph) BY <1>0 DEF FillsFrom
    <3> QED BY <2>5, <2>6, <3>1
  <2>9. \A q \in Posts : index.details[q] = NoPost /\ index'.details[q] # NoPost => q \in halfway'
    BY <1>0, <1>a, ObserveFacts
  <2>10. DetailsMove(w) BY <2>8, <2>9 DEF FillsFrom, DetailsMove
  <2> QED BY <2>4, <2>7, <2>8, <2>10 DEF FillsFrom, y

(* The last writes of a put.                                               *)
<1>b. CASE l \in {"finish", "reindex"}
  <2>1. ASSUME NEW z, Kept(z, p, i.body), index' = z
        PROVE  IndexOK(index') /\ index.note \subseteq index'.note /\ DetailsMove(w)
    <3>1. HasTold(i) /\ IsWriting(i) BY <1>b DEF HasTold, IsWriting
    <3> QED BY <2>1, <3>1 DEF Kept, DetailsMove
  <2>2. \A k \in Nat : Kept(PutDetails(index, p, i.body, r.replied, FALSE, k), p, i.body)
    BY <1>0, <1>1, DetailsEffects
  <2>3. Kept(index, p, i.body) BY <1>0, DetailsSame
  <2>4. Kept(y, p, i.body)
    <3>1. CASE a = "details"
      <4>1. y = PutDetails(index, p, i.body, r.replied, FALSE, Full) BY <1>b, <3>1 DEF JoinEffect
      <4>2. Full \in Nat BY DEF Full
      <4> QED BY <2>2, <4>1, <4>2
    <3>2. CASE a = "rel" /\ l = "finish"
      <4>1. y = PutRelationships(index, p, r, Full) BY <3>2 DEF JoinEffect
      <4> QED BY <1>0, <1>1, <4>1, PutRelationshipsFacts, DetailsSame
    <3>3. CASE a \in {"rel", "counts"} /\ l = "reindex"
      <4>1. y = ReindexEffect(p, a) BY <3>3, JoinShapes DEF Writes
      <4> QED BY <1>0, <3>3, <4>1, ReindexEffects
    <3> QED BY <1>3, <1>b, <3>1, <3>2, <3>3
  <2> HIDE DEF y
  <2>5. index' = y \/ index' = index
        \/ \E k \in Nat : index' = PutDetails(index, p, i.body, r.replied, FALSE, k)
    <3>1. 0..2 \subseteq Nat OBVIOUS
    <3> QED BY <1>4, <3>1, Zenon
  <2>6. IndexOK(index') /\ index.note \subseteq index'.note /\ DetailsMove(w)
    BY <2>1, <2>2, <2>3, <2>4, <2>5
  <2> QED BY <1>b, <2>6
<1> QED BY <1>2, <1>a, <1>b

(* Writes of the join are left.                                            *)
LEMMA JoinLeft ==
  ASSUME NEW i \in JobType, JobOK(i), NEW a \in i.todo, i.pc # "idle",
         NEW j \in JobType, j.pc = i.pc, j.todo = i.todo \ {a}, i.failed => j.failed, j.next = i.next,
         j.ev = i.ev, j.body = i.body, j.rels = i.rels, j.old = i.old, j.ret = i.ret,
         j.newer = i.newer
  PROVE  /\ SoftMove(i, j)
         /\ HasTold(j) => HasTold(i) \/ (i.pc = "reply" /\ a = "tell" /\ ~j.failed)
<1>2. i.pc \in {"reply", "repost", "finish", "reindex", "unreply", "unrepost"} BY DEF JobOK
<1>3. JobOK(j) BY DEF JobOK, Removes, IsWriting, IsPut
<1>4. SoftMove(i, j)
  BY <1>2, <1>3 DEF SoftMove, Removes, IsWriting, IsPut, Obliged, Works
<1>5. HasTold(j) => HasTold(i) \/ (i.pc = "reply" /\ a = "tell" /\ ~j.failed)
  BY <1>2 DEF HasTold
<1> QED BY <1>4, <1>5

(* The join has ended without a failure.                                   *)
LEMMA JoinDone ==
  ASSUME NEW w, job[w] \in JobType, JobOK(job[w]), NEW a \in job[w].todo, job[w].todo \ {a} = {},
         ~job[w].failed, job[w].pc # "idle"
  PROVE  LET i == job[w]
             j == AfterJoin(w)
         IN /\ j \in JobType /\ SoftMove(i, j)
            /\ HasTold(j) => HasTold(i) \/ (i.pc = "reply" /\ a = "tell")
<1> DEFINE i == job[w]
           j == AfterJoin(w)
<1>0. i.pc \in {"reply", "repost", "finish", "reindex", "unreply", "unrepost"} BY DEF JobOK
<1>1. CASE i.pc = "reply"
  <2>1. j = AfterReply(w) BY <1>1 DEF AfterJoin
  <2>2. PICK l \in {"repost", "finish"} : j = Block(w, l) /\ (l = "repost" => i.rels.reposted # {})
    BY <2>1 DEF AfterReply
  <2>3. SoftMove(i, j) BY <1>1, <2>2, BlockMove
  <2>4. HasTold(i) \/ a = "tell" BY <1>1 DEF HasTold
  <2> QED BY <1>1, <2>3, <2>4 DEF SoftMove
<1>2. CASE i.pc = "repost"
  <2>1. j = Block(w, "finish") BY <1>2 DEF AfterJoin
  <2>3. SoftMove(i, j) BY <1>2, <2>1, BlockMove
  <2>4. HasTold(i) BY <1>2 DEF HasTold
  <2> QED BY <2>3, <2>4 DEF SoftMove
<1>3. CASE i.pc \in {"finish", "reindex"}
  <2>1. j = AfterPut(w) BY <1>3 DEF AfterJoin
  <2>2. IsWriting(i) BY <1>3 DEF IsWriting
  <2>3. PlainMove(i, j) BY <2>1, <2>2, AfterPutFacts
  <2>4. HasTold(i) BY <1>3 DEF HasTold
  <2> QED BY <2>3, <2>4 DEF PlainMove, SoftMove
<1>4. CASE i.pc = "unreply" /\ i.rels.reposted # {}
  <2>1. j = Block(w, "unrepost") BY <1>4 DEF AfterJoin
  <2>2. PlainMove(i, j) BY <1>4, <2>1, BlockMove
  <2>3. ~IsWriting(i) BY <1>4 DEF IsWriting
  <2> QED BY <2>2, <2>3 DEF PlainMove, SoftMove
<1>5. CASE (i.pc = "unreply" /\ i.rels.reposted = {}) \/ i.pc = "unrepost"
  <2>1. j = Goto(w, "unindex") BY <1>5 DEF AfterJoin
  <2>2. /\ j \in JobType /\ j.pc = "unindex" /\ j.todo = {} /\ j.body = i.body
        /\ j.old = i.old /\ j.ev = i.ev /\ j.newer = i.newer /\ j.ret = i.ret /\ j.rels = i.rels
    BY <2>1, GotoFacts DEF Points
  <2>3. Within(i.rels, i.ev.p) BY DEF JobOK
  <2>4. i.pc \in {"unreply", "unrepost"} BY <1>5
  <2>5. Removes(i) /\ i.pc # "find" BY <2>4 DEF Removes
  <2> HIDE DEF j
  <2>6. PlainMove(i, j) BY <2>2, <2>3, <2>5, RemoveMove
  <2>7. ~HasTold(j) BY <2>2 DEF HasTold
  <2> QED BY <2>2, <2>6, <2>7 DEF PlainMove, j
<1> QED BY <1>0, <1>1, <1>2, <1>3, <1>4, <1>5

(* Whatever order its writes come in and whichever fails, a join is left   *)
(* only with every parent told.                                            *)
LEMMA StepJoin ==
  ASSUME PostInv, NEW w \in Loops, NEW a \in job[w].todo, Observe(w), JoinWrite(w, a)
  PROVE  PostInv'
<1> DEFINE i == job[w]
           p == Post(w)
           left == i.todo \ {a}
           After(f) == IF left # {} THEN [i EXCEPT !.todo = left, !.failed = f]
                       ELSE IF f THEN Idle ELSE AfterJoin(w)
<1>0. job \in [Loops -> JobType] /\ TypeInv BY DEF PostInv, TypeInv
<1>1. Busy(w)
  <2>1. JobOK(i) BY DEF PostInv, JobsInv
  <2> QED BY <2>1 DEF JobOK, Busy
<1>2. /\ IndexOK(index) /\ GraphOK(graph) /\ i \in JobType /\ JobOK(i) /\ p \in Posts
      /\ i.failed \in BOOLEAN /\ i.pc # "idle"
  BY <1>1, InvFacts DEF JobType, Busy
<1>3. PICK f \in BOOLEAN :
         /\ job' = [job EXCEPT ![w] = After(f)] /\ (i.failed => f)
         /\ \/ index' = JoinEffect(w, i.pc, a)
            \/ index' \in JoinPartial(w, a) /\ f
  BY <1>2 DEF JoinWrite
<1>4. /\ graph' = graph /\ hs' = hs /\ log' = log /\ queue' = queue /\ overlap' = overlap
      /\ buried' = buried
  BY DEF JoinWrite, inputs
<1>5. /\ IndexOK(index') /\ index.note \subseteq index'.note /\ DetailsMove(w)
      /\ i.pc = "reply" /\ a = "tell" /\ index' = JoinEffect(w, i.pc, a)
              => NotesOf(i.rels.replied, "reply", p) \subseteq index'.note
  BY <1>1, <1>3, JoinIndex
<1>6. Around(w)
  <2>1. halfway \subseteq halfway' /\ halfway' \subseteq Posts /\ buried \subseteq Posts
    BY <1>0, ObserveFacts DEF TypeInv
  <2> QED BY <1>2, <1>4, <1>5, <2>1 DEF Around
<1>7. SameLinks(graph, graph') /\ SameInputs BY <1>4 DEF SameLinks, SameInputs
<1>8. ASSUME i.pc = "reply", a = "tell", ~f
      PROVE  overlap \/ p \in buried \/ ToldAfter(p)
  <2>1. NotesOf(i.rels.replied, "reply", p) \subseteq index'.note BY <1>3, <1>5, <1>8
  <2>2. IsWriting(i) BY <1>8 DEF IsWriting
  <2>3. CASE ~IsPut(i)
    <3>1. JobBuried(w) BY <1>1, SeqFacts
    <3> QED BY <1>1, <2>2, <2>3, <3>1 DEF JobBuried
  <2>4. CASE IsPut(i) /\ ~overlap
    <3>1. StandsOn(w) BY <1>1, <2>4, SeqFacts
    <3>2. i.rels = Parents(p) BY <2>2, <2>4, <3>1 DEF StandsOn, Post
    <3>3. i.rels.replied = Replied[p] BY <3>2 DEF Parents
    <3> QED BY <2>1, <3>3 DEF ToldAfter, NotesOf
  <2> QED BY <2>3, <2>4
<1>9. CASE left # {}
  <2> DEFINE j == [i EXCEPT !.todo = left, !.failed = f]
  <2>1. job' = [job EXCEPT ![w] = j] BY <1>3, <1>9
  <2>2. /\ j \in JobType /\ SoftMove(i, j)
        /\ HasTold(j) => HasTold(i) \/ (i.pc = "reply" /\ a = "tell" /\ ~j.failed)
        /\ j.failed = f
    <3>1. i \in JobType /\ JobOK(i) /\ a \in i.todo /\ i.pc # "idle" BY <1>2
    <3> HIDE DEF i
    <3>2. /\ j \in JobType /\ j.pc = i.pc /\ j.todo = i.todo \ {a} /\ j.failed = f
          /\ j.next = i.next /\ j.ev = i.ev /\ j.body = i.body /\ j.rels = i.rels /\ j.old = i.old
          /\ j.ret = i.ret /\ j.newer = i.newer
      BY <3>1 DEF JobType
    <3> HIDE DEF j
    <3>3. i.failed => j.failed BY <1>3, <3>2
    <3> QED BY <3>1, <3>2, <3>3, JoinLeft
  <2> HIDE DEF j
  <2> QED BY <1>1, <1>6, <1>7, <1>8, <2>1, <2>2, SoftKeeps
<1>10. CASE left = {} /\ f
  <2>1. job' = [job EXCEPT ![w] = Idle] BY <1>3, <1>10
  <2> QED BY <1>1, <1>6, <1>7, <2>1, AbortKeeps
<1>11. CASE left = {} /\ ~f
  <2> DEFINE j == AfterJoin(w)
  <2>1. job' = [job EXCEPT ![w] = j] BY <1>3, <1>11
  <2>2. ~i.failed BY <1>3, <1>11
  <2>3. /\ j \in JobType /\ SoftMove(i, j)
        /\ HasTold(j) => HasTold(i) \/ (i.pc = "reply" /\ a = "tell")
    BY <1>2, <1>11, <2>2, JoinDone
  <2> HIDE DEF j
  <2> QED BY <1>1, <1>6, <1>7, <1>8, <1>11, <2>1, <2>3, SoftKeeps
<1> QED BY <1>9, <1>10, <1>11

(* One read-through after the other.                                       *)
LEMMA FillsOn ==
  ASSUME NEW x, NEW y, NEW z, FillsFrom(x, y, graph), FillsFrom(y, z, graph)
  PROVE  FillsFrom(x, z, graph)
BY DEF FillsFrom

(* The repair of one kind of parents, by a handler that restores p as d.   *)
ToldOf(x, qs, kind, p, d) == IF qs = {} \/ d.deleted THEN x ELSE Telling(x, qs, kind, p)
Repaired(x, qs, kind, k, p, d) ==
    LET dropped == IF k >= 1 THEN Invalidate(x, qs) ELSE x
    IN IF k >= 2 THEN ToldOf(dropped, qs, kind, p, d) ELSE dropped

(* The parents are told again unless the post is a tombstone.              *)
LEMMA RepairedFacts ==
  ASSUME NEW x, IndexOK(x), GraphOK(graph), NEW qs \in SUBSET Posts, NEW kind, NEW k \in {0, 1, 2},
         NEW p, NEW d
  PROVE  /\ FillsFrom(x, Repaired(x, qs, kind, k, p, d), graph)
         /\ k = 2 /\ qs # {} /\ ~d.deleted =>
               NotesOf(qs, kind, p) \subseteq Repaired(x, qs, kind, k, p, d).note
<1> DEFINE y == IF k >= 1 THEN Invalidate(x, qs) ELSE x
           z == ToldOf(y, qs, kind, p, d)
           t == Telling(y, qs, kind, p)
<1>1. IndexOK(y) /\ y.details = x.details /\ y.note = x.note
  BY InvalidateAside DEF Aside
<1>2. Repaired(x, qs, kind, k, p, d) = IF k = 2 THEN z ELSE y BY DEF Repaired
<1>3. z = IF qs = {} \/ d.deleted THEN y ELSE t BY DEF ToldOf
<1> HIDE DEF y
<1>4. FillsFrom(x, y, graph) /\ FillsFrom(y, y, graph) BY <1>1 DEF FillsFrom
<1>5. qs # {} => FillsFrom(y, t, graph) /\ t.note = y.note \cup NotesOf(qs, kind, p)
  BY <1>1, TellFacts
<1> HIDE DEF t, z
<1>6. FillsFrom(y, z, graph) BY <1>3, <1>4, <1>5
<1>7. FillsFrom(x, z, graph) BY <1>4, <1>6, FillsOn
<1> QED BY <1>2, <1>3, <1>4, <1>5, <1>7

(* The recovery tells every parent whose reply is restored.                *)
LEMMA StepParents ==
  ASSUME PostInv, NEW w \in Loops, Observe(w), RecoverParents(w)
  PROVE  PostInv'
<1> DEFINE i == job[w]
           p == Post(w)
           r == i.rels
           d == i.body
           j == Goto(w, "remention")
           One(k) == Repaired(index, r.replied, "reply", k, p, d)
           Two(x) == Repaired(x, r.reposted, "repost", 2, p, d)
<1>0. i.pc = "parents" /\ Busy(w) /\ graph' = graph BY DEF RecoverParents, At, Busy
<1>1. /\ i \in JobType /\ JobOK(i) /\ IndexOK(index) /\ GraphOK(graph) /\ p \in Posts /\ TypeInv
      /\ r.replied \in SUBSET Posts /\ r.reposted \in SUBSET Posts /\ i.todo = {} /\ d \in Details
  <2>1. /\ i \in JobType /\ JobOK(i) /\ IndexOK(index) /\ GraphOK(graph) /\ p \in Posts /\ TypeInv
    BY <1>0, InvFacts
  <2>2. r \in Relationships BY <2>1 DEF JobType
  <2>3. i.todo = {} /\ d \in Details BY <1>0, <2>1 DEF JobOK, IsWriting
  <2> QED BY <2>1, <2>2, <2>3 DEF Relationships
<1>2. PICK k \in {0, 1, 2, Full} :
        /\ index' = IF k < Full THEN One(k) ELSE Two(One(2))
        /\ Proceed(w, k, j)
  BY DEF RecoverParents, Repaired, ToldOf, Telling
<1>3. \A m \in {0, 1, 2} : FillsFrom(index, One(m), graph)
  BY <1>1, RepairedFacts
<1>4. r.replied # {} /\ ~d.deleted => NotesOf(r.replied, "reply", p) \subseteq One(2).note
  BY <1>1, RepairedFacts
<1>5. IndexOK(One(2)) BY <1>3 DEF FillsFrom
<1>6. FillsFrom(One(2), Two(One(2)), graph)
  <2> DEFINE o == One(2)
  <2> HIDE DEF o
  <2>1. IndexOK(o) BY <1>5 DEF o
  <2>2. FillsFrom(o, Two(o), graph) BY <1>1, <2>1, RepairedFacts
  <2> QED BY <2>2 DEF o
<1>7. FillsFrom(index, Two(One(2)), graph) BY <1>3, <1>6, FillsOn
<1>8. /\ FillsFrom(index, index', graph)
      /\ k = Full /\ r.replied # {} /\ ~d.deleted => NotesOf(r.replied, "reply", p) \subseteq index'.note
  <2>1. k < Full => k \in {0, 1, 2} BY DEF Full
  <2>2. One(2).note \subseteq Two(One(2)).note BY <1>6 DEF FillsFrom
  <2>3. ~(Full < Full) BY DEF Full
  <2> HIDE DEF One, Two
  <2> QED BY <1>2, <1>3, <1>4, <1>7, <2>1, <2>2, <2>3
<1> HIDE DEF One, Two
<1>9. /\ \/ k = Full /\ job' = [job EXCEPT ![w] = j]
         \/ job' = [job EXCEPT ![w] = Idle]
      /\ SameInputs /\ hs' = hs /\ overlap' = overlap
      /\ buried \subseteq buried' /\ buried' \subseteq Posts
      /\ halfway \subseteq halfway' /\ halfway' \subseteq Posts
      /\ \A q \in Posts : index.details[q] = NoPost /\ index'.details[q] # NoPost => q \in halfway'
  BY <1>0, <1>1, <1>2, ProceedFacts
<1>10. Around(w) /\ SameLinks(graph, graph')
  <2>1. DetailsMove(w) BY <1>8, <1>9 DEF FillsFrom, DetailsMove
  <2> QED BY <1>0, <1>1, <1>8, <1>9, <2>1 DEF Around, FillsFrom, SameLinks
<1>11. SoftMove(i, j) /\ j \in JobType
  <2>1. /\ j \in JobType /\ j.pc = "remention" /\ j.todo = {} /\ j.body = i.body
        /\ j.old = i.old /\ j.ev = i.ev /\ j.newer = i.newer /\ j.ret = i.ret /\ j.rels = i.rels
    BY <1>1, GotoFacts DEF Points
  <2> HIDE DEF i, j
  <2> QED BY <1>0, <1>1, <2>1 DEF SoftMove, JobOK, Removes, IsWriting, IsPut, Obliged, Works
<1>12. k = Full => overlap \/ p \in buried \/ ToldAfter(p)
  <2>0. IsWriting(i) /\ JobBuried(w) BY <1>0, SeqFacts DEF IsWriting
  <2>1. CASE ~IsPut(i) BY <1>0, <2>0, <2>1 DEF JobBuried
  <2>2. CASE d.deleted
    <3>1. d # NoPost BY <1>1, Nature
    <3> QED BY <1>0, <2>0, <2>2, <3>1 DEF JobBuried, Buries
  <2>3. CASE IsPut(i) /\ ~d.deleted /\ ~overlap
    <3>1. StandsOn(w) BY <1>0, <2>3, SeqFacts
    <3>2. r = Parents(p) BY <2>0, <2>3, <3>1 DEF StandsOn, Post
    <3>3. r.replied = Replied[p] BY <3>2 DEF Parents
    <3> QED BY <1>8, <2>3, <3>3 DEF ToldAfter, NotesOf
  <2> QED BY <2>1, <2>2, <2>3
<1> HIDE DEF i, j
<1>13. CASE k = Full /\ job' = [job EXCEPT ![w] = j]
  BY <1>0, <1>9, <1>10, <1>11, <1>12, <1>13, SoftKeeps DEF i
<1>14. CASE job' = [job EXCEPT ![w] = Idle]
  BY <1>0, <1>9, <1>10, <1>14, AbortKeeps
<1> QED BY <1>9, <1>13, <1>14

(* A handler that has only been given its event.                           *)
Starting(j) ==
    /\ j \in JobType /\ JobOK(j) /\ j.body = NoPost /\ j.old = NoPost /\ j.newer = FALSE /\ j.ret = "event"
    /\ j.pc \in {"check", "find", "record"} /\ (j.ev.type = "mod" => j.pc = "record")
    /\ ~IsWriting(j) /\ ~HasTold(j) /\ Obliged(j)
    /\ j.ev.type # "mod" => Works(j)

(* What Start makes of an event.                                           *)
LEMMA StartFacts ==
  ASSUME NEW e \in Event
  PROVE  LET j == [Idle EXCEPT !.pc = FirstStep(e), !.ev = e] IN Starting(j) /\ j.ev = e
<1> DEFINE j == [Idle EXCEPT !.pc = FirstStep(e), !.ev = e]
<1>1. /\ e.type \in {"put", "del", "mod"} /\ e.p \in Posts BY DEF Event
<1>2. /\ e.type = "put" => FirstStep(e) = "check"
      /\ e.type = "del" => FirstStep(e) = "find"
      /\ e.type = "mod" => FirstStep(e) = "record"
  BY DEF FirstStep
<1>3. FirstStep(e) \in Points BY <1>1, <1>2 DEF Points
<1>4. /\ j \in JobType /\ j.pc = FirstStep(e) /\ j.ev = e /\ j.body = NoPost /\ j.old = NoPost
      /\ j.newer = FALSE /\ j.ret = "event" /\ j.todo = {} /\ j.rels = NoParents
  <2>1. /\ Idle \in JobType /\ Idle.body = NoPost /\ Idle.old = NoPost /\ Idle.newer = FALSE
        /\ Idle.ret = "event" /\ Idle.todo = {} /\ Idle.rels = NoParents
    BY IdleFacts DEF Idle
  <2> HIDE DEF Idle
  <2> QED BY <1>3, <2>1 DEF JobType
<1>5. Within(NoParents, e.p) BY DEF Within, NoParents
<1> HIDE DEF j
<1>6. /\ ~IsWriting(j) /\ ~HasTold(j) /\ Obliged(j) /\ (e.type # "mod" => Works(j))
  BY <1>1, <1>2, <1>4 DEF IsWriting, HasTold, Obliged, Removes, Works
<1>7. JobOK(j)
  BY <1>1, <1>2, <1>4, <1>5, <1>6 DEF JobOK, IsPut, Removes
<1>8. Starting(j) BY <1>1, <1>2, <1>4, <1>6, <1>7 DEF Starting
<1> QED BY <1>4, <1>8 DEF j

(* A step that leaves the graph and the details alone and starts handlers  *)
(* at most.                                                                *)
LEMMA OutsideKeeps ==
  ASSUME PostInv, graph' = graph, IndexOK(index'), index'.details = index.details,
         index'.note = index.note, buried' = buried, halfway \subseteq halfway', halfway' \subseteq Posts,
         overlap => overlap', overlap' \in BOOLEAN,
         (hs \in [Posts -> (Contents \ {Empty}) \cup {Nothing}])', (log \in [LiveLoops -> Seq(Event)])',
         queue' = queue, job' \in [Loops -> JobType],
         \A v \in Loops : Busy(v)' => job'[v] = job[v] \/ Starting(job'[v])
  PROVE  TypeInv' /\ BuriedInv' /\ ToldInv'
<1>0. TypeInv /\ BuriedInv /\ ToldInv BY DEF PostInv
<1>1. TypeInv' BY <1>0 DEF TypeInv
<1>2. \A v \in Loops : Busy(v)' /\ job'[v] = job[v] => Busy(v) /\ Post(v)' = Post(v) BY DEF Busy, Post
<1>3. BuriedInv'
  <2>1. ASSUME NEW v \in Loops, Busy(v)' PROVE JobBuried(v)'
    <3>1. CASE Starting(job'[v]) BY <3>1 DEF Starting, JobBuried, Buries
    <3>2. CASE job'[v] = job[v] BY <1>0, <1>2, <2>1, <3>2 DEF BuriedInv, JobBuried, Buries
    <3> QED BY <2>1, <3>1, <3>2
  <2>2. \A p \in Posts : Buries(graph.post[p], p)' /\ Buries(index.details[p], p)'
    BY <1>0 DEF BuriedInv, Buries
  <2> QED BY <1>0, <2>1, <2>2 DEF BuriedInv, JobBuried, Buries
<1>4. ToldInv'
  <2> SUFFICES ASSUME ~overlap' PROVE
        /\ \A w \in Loops : Busy(w)' /\ HasTold(job'[w]) /\ IsPut(job'[w])
             /\ Post(w)' \notin buried' \cup halfway' => Told(Post(w))'
        /\ \A p \in Posts \ (buried' \cup halfway') :
             index'.details[p] # NoPost /\ ~index'.details[p].deleted => Told(p)'
    BY DEF ToldInv
  <2>1. \A p : Told(p)' = Told(p) BY DEF Told
  <2>2. ASSUME NEW v \in Loops, Busy(v)', HasTold(job'[v]), IsPut(job'[v]),
               Post(v)' \notin buried' \cup halfway'
        PROVE  Told(Post(v))'
    <3>1. job'[v] = job[v] BY <2>2 DEF Starting
    <3>2. Busy(v) /\ Post(v)' = Post(v) BY <1>2, <2>2, <3>1
    <3>3. Told(Post(v)) BY <1>0, <2>2, <3>1, <3>2 DEF ToldInv
    <3> QED BY <3>2, <3>3 DEF Told
  <2> QED BY <1>0, <2>1, <2>2 DEF ToldInv
<1> QED BY <1>1, <1>3, <1>4

(* The event is the first of the log, or one of the queue.                 *)
LEMMA TakeFacts ==
  ASSUME PostInv, NEW w \in Loops, Take(w)
  PROVE  \E e \in Event :
           /\ IF w = Retry THEN e \in queue ELSE log[w] # <<>> /\ e = Head(log[w])
           /\ Start(w, e)
<1>0. log \in [LiveLoops -> Seq(Event)] /\ queue \subseteq Event BY DEF PostInv, TypeInv
<1>1. CASE w # Retry
  <2>1. w \in LiveLoops BY <1>1 DEF Loops
  <2>2. log[w] # <<>> /\ Start(w, Head(log[w])) BY <1>1 DEF Take
  <2>3. log[w] \in Seq(Event) BY <1>0, <2>1
  <2>4. Head(log[w]) \in Event BY <2>2, <2>3
  <2> QED BY <1>1, <2>2, <2>4
<1>2. CASE w = Retry BY <1>0, <1>2 DEF Take
<1> QED BY <1>1, <1>2

(* A handler that starts owes its post what the event did.                 *)
LEMMA WaitsStart ==
  ASSUME PostInv, NEW w \in Loops, ~Busy(w), NEW j, Starting(j), job' = [job EXCEPT ![w] = j],
         IF w = Retry THEN j.ev \in queue ELSE log[w] # <<>> /\ j.ev = Head(log[w]), SameInputs,
         NEW p, Waits(p)
  PROVE  Waits(p)'
<1>0. job \in [Loops -> JobType] /\ log \in [LiveLoops -> Seq(Event)] BY DEF PostInv, TypeInv
<1>1. /\ job'[w] = j /\ Busy(w)' /\ \A v \in Loops : v # w => job'[v] = job[v]
      /\ Obliged(j) /\ log' = log /\ queue' = queue
  BY <1>0 DEF Busy, Starting, SameInputs
<1>2. j.ev.p = p => Waits(p)' BY <1>1 DEF Waits, Post
<1>3. CASE \E v \in LiveLoops : \E i \in 1..Len(log[v]) : log[v][i].p = p /\ (i = 1 => ~Busy(v))
  <2>1. PICK v \in LiveLoops : \E i \in 1..Len(log[v]) : log[v][i].p = p /\ (i = 1 => ~Busy(v))
    BY <1>3
  <2>2. PICK i \in 1..Len(log[v]) : log[v][i].p = p /\ (i = 1 => ~Busy(v)) BY <2>1
  <2>3. CASE v = w /\ i = 1
    <3>1. w # Retry BY <2>3, Nature
    <3>2. j.ev = log[v][1] BY <2>3, <3>1, <1>0
    <3> QED BY <1>2, <2>2, <2>3, <3>2
  <2>4. CASE ~(v = w /\ i = 1)
    <3>1. i = 1 => ~Busy(v)' BY <1>1, <2>2, <2>4 DEF Busy, Loops
    <3> QED BY <1>1, <2>2, <3>1 DEF Waits
  <2> QED BY <2>3, <2>4
<1>4. CASE \E e \in queue : e.p = p /\ (Busy(Retry) /\ job[Retry].ev = e => job[Retry].newer)
  <2>1. PICK e \in queue : e.p = p /\ (Busy(Retry) /\ job[Retry].ev = e => job[Retry].newer)
    BY <1>4
  <2>2. CASE w = Retry /\ j.ev = e BY <1>2, <2>1, <2>2
  <2>3. CASE w = Retry /\ j.ev # e BY <1>1, <2>1, <2>3 DEF Waits
  <2>4. CASE w # Retry
    <3>1. job'[Retry] = job[Retry] BY <1>1, <2>4 DEF Loops
    <3> QED BY <1>1, <2>1, <3>1 DEF Waits, Busy
  <2> QED BY <2>2, <2>3, <2>4
<1>5. CASE \E v \in Loops : Busy(v) /\ Post(v) = p /\ Obliged(job[v])
  <2>1. PICK v \in Loops : Busy(v) /\ Post(v) = p /\ Obliged(job[v]) BY <1>5
  <2>2. v # w /\ job'[v] = job[v] BY <1>1, <2>1
  <2> QED BY <2>1, <2>2 DEF Waits, Busy, Post
<1> QED BY <1>3, <1>4, <1>5 DEF Waits

(* And is due to do what the event was due for.                            *)
LEMMA DueStart ==
  ASSUME PostInv, Sequential, NEW w \in Loops, ~Busy(w), NEW j, Starting(j),
         job' = [job EXCEPT ![w] = j],
         IF w = Retry THEN j.ev \in queue ELSE log[w] # <<>> /\ j.ev = Head(log[w]), SameInputs,
         hs' = hs, NEW p \in Posts, Due(p)
  PROVE  Due(p)'
<1>0. job \in [Loops -> JobType] /\ log \in [LiveLoops -> Seq(Event)] BY DEF PostInv, TypeInv
<1> DEFINE h == HomeOf(p)
<1>1. /\ job'[w] = j /\ \A v \in Loops : v # w => job'[v] = job[v]
      /\ log' = log /\ queue' = queue /\ h' = h /\ (j.ev.type # "mod" => Works(j))
  BY <1>0 DEF SameInputs, Starting, HomeOf
<1>2. h \in LiveLoops /\ h \in Loops /\ h # Retry /\ Retry \in Loops BY HomeFacts
<1>3. CASE \E i \in 1..Len(log[h]) :
              log[h][i].p = p /\ log[h][i].type # "mod" /\ (i = 1 /\ Busy(h) => Works(job[h]))
  <2>1. PICK i \in 1..Len(log[h]) :
              log[h][i].p = p /\ log[h][i].type # "mod" /\ (i = 1 /\ Busy(h) => Works(job[h]))
    BY <1>3
  <2>2. i = 1 /\ Busy(h)' => Works(job'[h])
    <3>1. CASE h # w BY <1>1, <1>2, <2>1, <3>1 DEF Busy
    <3>2. CASE h = w
      <4>1. i = 1 => j.ev = log[h][i] BY <1>0, <1>2, <3>2
      <4> QED BY <1>1, <2>1, <3>2, <4>1
    <3> QED BY <3>1, <3>2
  <2> HIDE DEF h
  <2>3. \E k \in 1..Len(log'[h]) : 
            /\ log'[h][k].p = p /\ log'[h][k].type # "mod"
            /\ k = 1 /\ Busy(h)' => Works(job'[h])
    BY <1>1, <2>1, <2>2
  <2> QED BY <1>1, <2>3 DEF Due, h, HomeOf, Busy
<1>4. CASE hs[p] # Nothing /\ PutOf(p) \in queue /\ (Busy(Retry) /\ Post(Retry) = p => Works(job[Retry]))
  <2>1. Busy(Retry)' /\ Post(Retry)' = p => Works(job'[Retry])
    <3>1. CASE w # Retry BY <1>1, <1>2, <1>4, <3>1 DEF Busy, Post
    <3>2. CASE w = Retry
      <4>1. j.ev.type = "put" BY <3>2 DEF Sequential
      <4> QED BY <1>1, <3>2, <4>1
    <3> QED BY <3>1, <3>2
  <2> QED BY <1>1, <1>4, <2>1 DEF Due, PutOf
<1> QED BY <1>3, <1>4 DEF Due

(* An event is taken; two handlers may overlap from here.                  *)
LEMMA StepTake ==
  ASSUME PostInv, NEW w \in Loops, Observe(w), Take(w)
  PROVE  PostInv'
<1>0. /\ TypeInv /\ JobsInv /\ TakedownInv /\ LogOrder /\ SeqInv /\ BuriedInv /\ ToldInv
      /\ job \in [Loops -> JobType]
  BY DEF PostInv, TypeInv
<1>1. PICK e \in Event :
           /\ IF w = Retry THEN e \in queue ELSE log[w] # <<>> /\ e = Head(log[w])
           /\ Start(w, e)
  BY TakeFacts
<1> DEFINE j == [Idle EXCEPT !.pc = FirstStep(e), !.ev = e]
<1>2. Starting(j) /\ j.ev = e BY StartFacts
<1>3. /\ ~Busy(w) /\ job' = [job EXCEPT ![w] = j] /\ graph' = graph /\ index' = index /\ hs' = hs
      /\ log' = log /\ queue' = queue /\ buried' = buried /\ SameInputs
      /\ overlap' = (overlap \/ \E v \in Loops \ {w} : Busy(v))
  BY <1>1 DEF Start, Raced, stores, inputs, SameInputs
<1> HIDE DEF j
<1>4. /\ job'[w] = j /\ Busy(w)' /\ Post(w)' = e.p /\ \A v \in Loops : v # w => job'[v] = job[v]
      /\ job' \in [Loops -> JobType]
  BY <1>0, <1>2, <1>3 DEF Busy, Post, Starting
<1>5. halfway \subseteq halfway' /\ halfway' \subseteq Posts BY <1>0, ObserveFacts
<1>6. TypeInv' /\ BuriedInv' /\ ToldInv'
  <2>1. \A v \in Loops : Busy(v)' => job'[v] = job[v] \/ Starting(job'[v]) BY <1>2, <1>4
  <2>2. IndexOK(index) /\ overlap' \in BOOLEAN BY <1>0, <1>3 DEF TypeInv
  <2>3. (hs \in [Posts -> (Contents \ {Empty}) \cup {Nothing}])' /\ (log \in [LiveLoops -> Seq(Event)])'
    BY <1>0, <1>3 DEF TypeInv
  <2> QED BY <1>3, <1>4, <1>5, <2>1, <2>2, <2>3, OutsideKeeps
<1>7. JobsInv'
  <2>1. \A v \in Loops : v # w => JobOK(job'[v]) /\ SourceOK(v)' /\ (job'[v].newer => v = Retry)
    BY <1>0, <1>3, <1>4 DEF JobsInv, SourceOK, Busy
  <2>2. JobOK(job'[w]) /\ ~job'[w].newer BY <1>2, <1>4 DEF Starting
  <2>3. SourceOK(w)' BY <1>1, <1>2, <1>3, <1>4, <2>2 DEF SourceOK
  <2> QED BY <2>1, <2>2, <2>3 DEF JobsInv
<1>8. TakedownInv'
  <2>1. \A p \in graph'.takedown : Gone(graph'.post[p]) \/ Waits(p)'
    BY <1>0, <1>1, <1>2, <1>3, WaitsStart DEF TakedownInv
  <2>2. \A v \in Loops : JobDown(v)'
    BY <1>0, <1>2, <1>3, <1>4 DEF TakedownInv, JobDown, Starting, Busy, Post
  <2> QED BY <2>1, <2>2 DEF TakedownInv, JobDown
<1>9. LogOrder' BY <1>0, <1>3, OrderSame
<1>10. SeqInv'
  <2> SUFFICES ASSUME ~overlap'
               PROVE  Sequential' /\ EdgesHold' /\ DueInv' /\ FreshInv'
                      /\ \A v \in Loops : Busy(v)' => StandsOn(v)'
    BY DEF SeqInv
  <2>0. ~overlap /\ (\A v \in Loops \ {w} : ~Busy(v)) /\ Sequential /\ EdgesHold /\ DueInv
    BY <1>0, <1>3 DEF SeqInv
  <2>1. \A v \in Loops : Busy(v)' => v = w BY <1>4, <2>0 DEF Busy
  <2>2. Sequential'
    <3>1. \A v \in Loops : ~job'[v].newer BY <1>2, <1>4, <2>0 DEF Sequential, Starting
    <3> QED BY <1>3, <2>0, <2>1, <3>1 DEF Sequential
  <2>3. EdgesHold' BY <1>3, <2>0, EdgesSame DEF SameLinks
  <2>4. \A p \in Posts : Due(p) => Due(p)' BY <1>1, <1>2, <1>3, <2>0, DueStart
  <2>5. DueInv' BY <1>3, <2>0, <2>4, DueSame DEF SameLinks
  <2>6. \A v \in Loops : job'[v].pc # "graph" BY <1>2, <1>4, <2>1 DEF Busy, Starting
  <2>7. FreshInv' BY <2>6 DEF FreshInv
  <2>8. StandsOn(w)' BY <1>2, <1>4 DEF StandsOn, Starting, Removes
  <2> QED BY <2>1, <2>2, <2>3, <2>5, <2>7, <2>8
<1> QED BY <1>6, <1>7, <1>8, <1>9, <1>10 DEF PostInv

(* A log with one more event.                                              *)
LEMMA AppendPlaces ==
  ASSUME NEW l \in Seq(Event), NEW e \in Event
  PROVE  LET m == Append(l, e) IN
           /\ m \in Seq(Event) /\ Len(l) \in Nat /\ Len(m) = Len(l) + 1 /\ m[Len(l) + 1] = e
           /\ \A i \in 1..Len(l) : m[i] = l[i]
           /\ l # <<>> => Len(l) # 0 /\ m # <<>> /\ Head(m) = Head(l)
OBVIOUS

(* An event line of w was written.                                         *)
Longer(w, e) == log' = [log EXCEPT ![w] = Append(@, e)]

(* The log of w is longer by an event, the others are as they were.        *)
LEMMA LongerFacts ==
  ASSUME TypeInv, NEW w \in LiveLoops, NEW e \in Event, Longer(w, e)
  PROVE  /\ log' \in [LiveLoops -> Seq(Event)]
         /\ \A v \in LiveLoops :
              /\ Len(log[v]) \in Nat /\ Len(log'[v]) = IF v = w THEN Len(log[v]) + 1 ELSE Len(log[v])
              /\ \A i \in 1..Len(log[v]) : log'[v][i] = log[v][i] /\ i \in 1..Len(log'[v])
              /\ log[v] # <<>> => Len(log[v]) # 0 /\ log'[v] # <<>> /\ Head(log'[v]) = Head(log[v])
         /\ log'[w][Len(log[w]) + 1] = e /\ Len(log[w]) + 1 \in 1..Len(log'[w])
<1>0. log \in [LiveLoops -> Seq(Event)] BY DEF TypeInv
<1> DEFINE m == Append(log[w], e)
<1>1. /\ m \in Seq(Event) /\ Len(log[w]) \in Nat /\ Len(m) = Len(log[w]) + 1 /\ m[Len(log[w]) + 1] = e
      /\ \A i \in 1..Len(log[w]) : m[i] = log[w][i]
      /\ log[w] # <<>> => Len(log[w]) # 0 /\ m # <<>> /\ Head(m) = Head(log[w])
  BY <1>0, AppendPlaces
<1>2. /\ log' = [log EXCEPT ![w] = m] BY DEF Longer
<1> HIDE DEF m
<1>3. log' \in [LiveLoops -> Seq(Event)] /\ log'[w] = m /\ \A v \in LiveLoops : v # w => log'[v] = log[v]
  BY <1>0, <1>1, <1>2
<1>4. \A v \in LiveLoops : log[v] \in Seq(Event) BY <1>0
<1>5. \A v \in LiveLoops : Len(log[v]) \in Nat /\ (log[v] # <<>> => Len(log[v]) # 0) BY <1>4
<1> QED BY <1>1, <1>3, <1>5

(* What waits goes on waiting.                                             *)
LEMMA WaitsLonger ==
  ASSUME TypeInv, NEW w \in LiveLoops, NEW e \in Event, Longer(w, e), job' = job, queue' = queue,
         NEW p, Waits(p)
  PROVE  Waits(p)'
<1>0. \A v : Busy(v)' = Busy(v) /\ Post(v)' = Post(v) BY DEF Busy, Post
<1>1. CASE \E v \in LiveLoops : \E i \in 1..Len(log[v]) : log[v][i].p = p /\ (i = 1 => ~Busy(v))
  <2>1. PICK v \in LiveLoops : \E i \in 1..Len(log[v]) : log[v][i].p = p /\ (i = 1 => ~Busy(v))
    BY <1>1
  <2>2. PICK i \in 1..Len(log[v]) : log[v][i].p = p /\ (i = 1 => ~Busy(v)) BY <2>1
  <2>3. i \in 1..Len(log'[v]) /\ log'[v][i].p = p BY <2>2, LongerFacts
  <2> QED BY <1>0, <2>2, <2>3 DEF Waits
<1>2. CASE ~\E v \in LiveLoops : \E i \in 1..Len(log[v]) : log[v][i].p = p /\ (i = 1 => ~Busy(v))
  BY <1>0, <1>2 DEF Waits
<1> QED BY <1>1, <1>2

(* A new event of the post is a later one.                                 *)
LEMMA LaterLonger ==
  ASSUME TypeInv, NEW w \in LiveLoops, NEW e \in Event, Longer(w, e), NEW p \in Posts, NEW v,
         \/ Later(v, p)
         \/ w = HomeOf(p) /\ e.p = p /\ e.type # "mod" /\ (v = w => log[w] # <<>>)
  PROVE  Later(v, p)'
<1> DEFINE h == HomeOf(p)
<1>0. h' = h /\ h \in LiveLoops BY HomeFacts DEF HomeOf
<1>1. \E k \in 1..Len(log'[h]) : log'[h][k].p = p /\ log'[h][k].type # "mod" /\ (v = h => k # 1)
  <2>1. CASE Later(v, p)
    <3>1. PICK i \in 1..Len(log[h]) : log[h][i].p = p /\ log[h][i].type # "mod" /\ (v = h => i # 1)
      BY <2>1 DEF Later
    <3>2. i \in 1..Len(log'[h]) /\ log'[h][i] = log[h][i] BY <1>0, <3>1, LongerFacts
    <3> QED BY <3>1, <3>2
  <2>2. CASE w = h /\ e.p = p /\ e.type # "mod" /\ (v = w => log[w] # <<>>)
    <3>1. Len(log[w]) \in Nat /\ (log[w] # <<>> => Len(log[w]) # 0) BY LongerFacts
    <3>2. log'[w][Len(log[w]) + 1] = e /\ Len(log[w]) + 1 \in 1..Len(log'[w]) BY LongerFacts
    <3>3. v = h => Len(log[w]) + 1 # 1 BY <2>2, <3>1
    <3> QED BY <2>2, <3>2, <3>3
  <2> QED BY <2>1, <2>2
<1> HIDE DEF h
<1> QED BY <1>0, <1>1 DEF Later, h

(* A new event of the post is due.                                         *)
LEMMA DueLonger ==
  ASSUME TypeInv, JobsInv, NEW w \in LiveLoops, NEW e \in Event, Longer(w, e), job' = job, queue' = queue,
         NEW p \in Posts,
         \/ Due(p) /\ hs'[p] = hs[p]
         \/ w = HomeOf(p) /\ e.p = p /\ e.type # "mod"
  PROVE  Due(p)'
<1> DEFINE h == HomeOf(p)
<1>0. /\ h' = h /\ h \in LiveLoops /\ h \in Loops /\ \A v : Busy(v)' = Busy(v) /\ Post(v)' = Post(v)
  BY HomeFacts DEF HomeOf, Busy, Post
<1>1. CASE \E i \in 1..Len(log[h]) :
              log[h][i].p = p /\ log[h][i].type # "mod" /\ (i = 1 /\ Busy(h) => Works(job[h]))
  <2>1. PICK i \in 1..Len(log[h]) :
              log[h][i].p = p /\ log[h][i].type # "mod" /\ (i = 1 /\ Busy(h) => Works(job[h]))
    BY <1>1
  <2>2. i \in 1..Len(log'[h]) /\ log'[h][i] = log[h][i] BY <1>0, <2>1, LongerFacts
  <2> HIDE DEF h
  <2>3. \E k \in 1..Len(log'[h]) : 
            /\ log'[h][k].p = p /\ log'[h][k].type # "mod"
            /\ k = 1 /\ Busy(h)' => Works(job'[h])
    BY <1>0, <2>1, <2>2
  <2> QED BY <1>0, <2>3 DEF Due, h, HomeOf, Busy
<1>2. CASE w = h /\ e.p = p /\ e.type # "mod"
  <2>1. log'[w][Len(log[w]) + 1] = e /\ Len(log[w]) + 1 \in 1..Len(log'[w]) /\ Len(log[w]) \in Nat
        /\ (log[w] # <<>> => Len(log[w]) # 0)
    BY LongerFacts
  <2>2. Busy(h) => log[h] # <<>> BY <1>0, FirstIsMine
  <2>3. Len(log[w]) + 1 = 1 => ~Busy(h) BY <1>2, <2>1, <2>2
  <2> HIDE DEF h
  <2>4. \E k \in 1..Len(log'[h]) : 
            /\ log'[h][k].p = p /\ log'[h][k].type # "mod"
            /\ k = 1 /\ Busy(h)' => Works(job'[h])
    BY <1>0, <1>2, <2>1, <2>3
  <2> QED BY <1>0, <2>4 DEF Due, h, HomeOf, Busy
<1>3. CASE hs'[p] = hs[p] /\ hs[p] # Nothing /\ PutOf(p) \in queue /\ (Busy(Retry) /\ Post(Retry) = p => Works(job[Retry]))
  BY <1>0, <1>3 DEF Due, PutOf, Busy, Post
<1> QED BY <1>1, <1>2, <1>3 DEF Due

(* The last event of a post says what its homeserver has.                  *)
LEMMA OrderLonger ==
  ASSUME TypeInv, LogOrder, NEW w \in LiveLoops, NEW e \in Event, Longer(w, e),
         \A q \in Posts : hs'[q] # hs[q] => e.p = q /\ e.type # "mod",
         e.type # "mod" => w = HomeOf(e.p) /\ e = IF hs'[e.p] = Nothing THEN DelOf(e.p) ELSE PutOf(e.p)
  PROVE  LogOrder'
<1> DEFINE h(q) == HomeOf(q)
<1>0. \A q \in Posts : h(q) \in LiveLoops BY HomeFacts
<1>a. \A q : PutOf(q) # DelOf(q) /\ PutOf(q).p = q /\ DelOf(q).p = q
             /\ PutOf(q).type # "mod" /\ DelOf(q).type # "mod"
  BY DEF PutOf, DelOf
<1>1. ASSUME NEW q \in Posts, NEW g, NEW f, g # f, g.p = q, f.p = q, g.type # "mod", f.type # "mod",
             NEW i \in 1..Len(log'[h(q)]), log'[h(q)][i] = g,
             e.type # "mod" /\ e.p = q => e = f,
             hs'[q] = hs[q] => \A k \in 1..Len(log[h(q)]) :
                  log[h(q)][k] = g => \E m \in k + 1..Len(log[h(q)]) : log[h(q)][m] = f
      PROVE  \E j \in i + 1..Len(log'[h(q)]) : log'[h(q)][j] = f
  <2> DEFINE v == h(q)
  <2>0. v \in LiveLoops BY <1>0
  <2> HIDE DEF v
  <2>1. /\ Len(log[v]) \in Nat /\ Len(log'[v]) = IF v = w THEN Len(log[v]) + 1 ELSE Len(log[v])
        /\ \A k \in 1..Len(log[v]) : log'[v][k] = log[v][k] /\ k \in 1..Len(log'[v])
        /\ v = w => log'[v][Len(log[v]) + 1] = e
    BY <2>0, LongerFacts
  <2>2. i \in 1..Len(log'[v]) /\ log'[v][i] = g BY <1>1 DEF v
  <2>3. i \in 1..Len(log[v])
    <3>1. CASE v = w /\ i = Len(log[v]) + 1
      <4>1. e = g BY <2>1, <2>2, <3>1
      <4> QED BY <1>1, <4>1
    <3>2. CASE ~(v = w /\ i = Len(log[v]) + 1) BY <2>1, <2>2, <3>2
    <3> QED BY <3>1, <3>2
  <2>4. CASE e.type # "mod" /\ e.p = q
    <3>1. v = w /\ e = f BY <1>1, <2>4 DEF v
    <3>2. Len(log[v]) + 1 \in i + 1..Len(log'[v]) /\ log'[v][Len(log[v]) + 1] = f
      BY <2>1, <2>3, <3>1
    <3> QED BY <3>2 DEF v
  <2>5. CASE ~(e.type # "mod" /\ e.p = q)
    <3>1. hs'[q] = hs[q] BY <2>5
    <3>2. log[v][i] = g BY <2>1, <2>2, <2>3
    <3>3. PICK m \in i + 1..Len(log[v]) : log[v][m] = f BY <1>1, <2>3, <3>1, <3>2 DEF v
    <3>4. m \in i + 1..Len(log'[v]) /\ log'[v][m] = f BY <2>1, <2>3, <3>3
    <3> QED BY <3>4 DEF v
  <2> QED BY <2>4, <2>5
<1>2. ASSUME NEW q \in Posts
      PROVE  LET l == log'[h(q)] IN
         /\ hs'[q] # Nothing => \A i \in 1..Len(l) : l[i] = DelOf(q) => \E j \in i + 1..Len(l) : l[j] = PutOf(q)
         /\ hs'[q] = Nothing => \A i \in 1..Len(l) : l[i] = PutOf(q) => \E j \in i + 1..Len(l) : l[j] = DelOf(q)
  <2>0. LET l == log[h(q)] IN
         /\ hs[q] # Nothing => \A i \in 1..Len(l) : l[i] = DelOf(q) => \E j \in i + 1..Len(l) : l[j] = PutOf(q)
         /\ hs[q] = Nothing => \A i \in 1..Len(l) : l[i] = PutOf(q) => \E j \in i + 1..Len(l) : l[j] = DelOf(q)
    BY DEF LogOrder
  <2> HIDE DEF h
  <2>1. ASSUME hs'[q] # Nothing, NEW i \in 1..Len(log'[h(q)]), log'[h(q)][i] = DelOf(q)
        PROVE  \E j \in i + 1..Len(log'[h(q)]) : log'[h(q)][j] = PutOf(q)
    <3>1. e.type # "mod" /\ e.p = q => e = PutOf(q) BY <2>1
    <3>2. hs'[q] = hs[q] => \A k \in 1..Len(log[h(q)]) :
                log[h(q)][k] = DelOf(q) => \E m \in k + 1..Len(log[h(q)]) : log[h(q)][m] = PutOf(q)
      BY <2>0, <2>1
    <3> QED BY <1>a, <1>1, <2>1, <3>1, <3>2
  <2>2. ASSUME hs'[q] = Nothing, NEW i \in 1..Len(log'[h(q)]), log'[h(q)][i] = PutOf(q)
        PROVE  \E j \in i + 1..Len(log'[h(q)]) : log'[h(q)][j] = DelOf(q)
    <3>1. e.type # "mod" /\ e.p = q => e = DelOf(q) BY <2>2
    <3>2. hs'[q] = hs[q] => \A k \in 1..Len(log[h(q)]) :
                log[h(q)][k] = PutOf(q) => \E m \in k + 1..Len(log[h(q)]) : log[h(q)][m] = DelOf(q)
      BY <2>0, <2>2
    <3> QED BY <1>a, <1>1, <2>2, <3>1, <3>2
  <2> QED BY <2>1, <2>2
<1>3. ASSUME NEW v \in LiveLoops, NEW i \in 1..Len(log'[v]), log'[v][i].type # "mod"
      PROVE  v = HomeOf(log'[v][i].p)
  <2>1. /\ Len(log[v]) \in Nat /\ Len(log'[v]) = IF v = w THEN Len(log[v]) + 1 ELSE Len(log[v])
        /\ \A k \in 1..Len(log[v]) : log'[v][k] = log[v][k]
        /\ v = w => log'[v][Len(log[v]) + 1] = e
    BY LongerFacts
  <2>2. CASE v = w /\ i = Len(log[v]) + 1 BY <1>3, <2>1, <2>2
  <2>3. CASE ~(v = w /\ i = Len(log[v]) + 1)
    <3>1. i \in 1..Len(log[v]) /\ log'[v][i] = log[v][i] BY <2>1, <2>3
    <3> QED BY <1>3, <3>1 DEF LogOrder
  <2> QED BY <2>2, <2>3
<1> QED BY <1>2, <1>3 DEF LogOrder, HomeOf, PutOf, DelOf

(* The homeservers may write at any moment.                                *)
LEMMA LoggedKeeps ==
  ASSUME PostInv, NEW w \in LiveLoops, NEW e \in Event, Logged(w, e),
         hs' \in [Posts -> (Contents \ {Empty}) \cup {Nothing}],
         \A q \in Posts : hs'[q] # hs[q] => e.p = q /\ e.type # "mod",
         e.type # "mod" => w = HomeOf(e.p) /\ e = IF hs'[e.p] = Nothing THEN DelOf(e.p) ELSE PutOf(e.p)
  PROVE  PostInv'
<1>0. /\ TypeInv /\ JobsInv /\ TakedownInv /\ LogOrder /\ SeqInv /\ BuriedInv /\ ToldInv
      /\ job \in [Loops -> JobType] /\ IndexOK(index) /\ overlap \in BOOLEAN /\ halfway \subseteq Posts
  BY DEF PostInv, TypeInv
<1>1. /\ graph' = graph /\ index' = index /\ queue' = queue /\ job' = job /\ overlap' = overlap
      /\ buried' = buried /\ halfway' = halfway /\ Longer(w, e)
  BY DEF Logged, stores, Longer
<1>2. log' \in [LiveLoops -> Seq(Event)] BY <1>0, <1>1, LongerFacts
<1>3. TypeInv' /\ BuriedInv' /\ ToldInv' BY <1>0, <1>1, <1>2, OutsideKeeps
<1>4. \A v : Busy(v)' = Busy(v) /\ Post(v)' = Post(v) BY <1>1 DEF Busy, Post
<1>5. JobsInv'
  <2>1. ASSUME NEW v \in Loops PROVE SourceOK(v)'
    <3>1. SourceOK(v) BY <1>0 DEF JobsInv
    <3>2. CASE v = Retry BY <1>1, <1>4, <3>1, <3>2 DEF SourceOK
    <3>3. CASE v # Retry
      <4>1. v \in LiveLoops BY <3>3 DEF Loops
      <4>2. log[v] # <<>> => log'[v] # <<>> /\ Head(log'[v]) = Head(log[v])
        BY <1>0, <1>1, <4>1, LongerFacts
      <4> QED BY <1>1, <1>4, <3>1, <3>3, <4>2 DEF SourceOK
    <3> QED BY <3>2, <3>3
  <2> QED BY <1>0, <1>1, <2>1 DEF JobsInv
<1>6. TakedownInv'
  <2>1. \A p \in graph'.takedown : Gone(graph'.post[p]) \/ Waits(p)'
    BY <1>0, <1>1, WaitsLonger DEF TakedownInv
  <2> QED BY <1>0, <1>1, <1>4, <2>1 DEF TakedownInv
<1>7. LogOrder' BY <1>0, <1>1, OrderLonger
<1>8. SeqInv'
  <2> SUFFICES ASSUME ~overlap
               PROVE  Sequential' /\ EdgesHold' /\ DueInv' /\ FreshInv'
                      /\ \A v \in Loops : Busy(v)' => StandsOn(v)'
    BY <1>1 DEF SeqInv
  <2>0. Sequential /\ EdgesHold /\ DueInv /\ FreshInv /\ \A v \in Loops : Busy(v) => StandsOn(v)
    BY <1>0 DEF SeqInv
  <2>1. Sequential' BY <1>1, <1>4, <2>0 DEF Sequential
  <2>2. EdgesHold' BY <1>1, <2>0, EdgesSame DEF SameLinks
  <2>3. DueInv'
    <3> SUFFICES ASSUME NEW p \in Posts \ graph.takedown PROVE Match(p)' \/ Due(p)'
      BY <1>1 DEF DueInv
    <3>1. Match(p) \/ Due(p) BY <2>0 DEF DueInv
    <3>2. CASE hs'[p] = hs[p]
      <4>1. Match(p) => Match(p)' BY <1>1, <3>2 DEF Match
      <4>2. Due(p) => Due(p)' BY <1>0, <1>1, <3>2, DueLonger
      <4> QED BY <3>1, <4>1, <4>2
    <3>3. CASE hs'[p] # hs[p]
      <4>1. w = HomeOf(p) /\ e.p = p /\ e.type # "mod" BY <3>3
      <4> QED BY <1>0, <1>1, <4>1, DueLonger
    <3> QED BY <3>2, <3>3
  <2>4. FreshInv'
    <3> SUFFICES ASSUME NEW v \in Loops, job'[v].pc = "graph", IsPut(job'[v])
                 PROVE  (job[v].body = FromHomeserver(hs[Post(v)]) \/ Later(v, Post(v)))'
      BY DEF FreshInv
    <3>0. Busy(v) BY <1>1 DEF Busy
    <3>1. PICK p \in Posts : p = Post(v) /\ p = Post(v)' BY <1>4, <3>0, InvFacts
    <3>2. job[v].body = FromHomeserver(hs[p]) \/ Later(v, p) BY <1>1, <2>0, <3>1 DEF FreshInv
    <3>4. job'[v].body = FromHomeserver(hs'[p]) \/ Later(v, p)'
      <4>1. CASE hs'[p] = hs[p]
        <5>1. FromHomeserver(hs'[p]) = FromHomeserver(hs[p]) BY <4>1 DEF FromHomeserver
        <5>2. Later(v, p) => Later(v, p)' BY <1>0, <1>1, LaterLonger
        <5> QED BY <1>1, <3>2, <5>1, <5>2
      <4>2. CASE hs'[p] # hs[p]
        <5>1. w = HomeOf(p) /\ e.p = p /\ e.type # "mod" BY <4>2
        <5>2. v = w => log[w] # <<>> BY <1>0, <3>0, FirstIsMine
        <5> QED BY <1>0, <1>1, <5>1, <5>2, LaterLonger
      <4> QED BY <4>1, <4>2
    <3> QED BY <3>1, <3>4 DEF Later, HomeOf, FromHomeserver
  <2>5. \A v \in Loops : Busy(v)' => StandsOn(v)'
    BY <1>1, <1>4, <2>0, StandsSame DEF SameLinks
  <2> QED BY <2>1, <2>2, <2>3, <2>4, <2>5
<1> QED BY <1>3, <1>5, <1>6, <1>7, <1>8 DEF PostInv

(* A user writes or deletes a post.                                        *)
LEMMA StepUser ==
  ASSUME PostInv, NEW p \in Posts, UserDeletes(p) \/ \E c \in Contents \ {Empty} : UserPuts(p, c)
  PROVE  PostInv'
<1>0. hs \in [Posts -> (Contents \ {Empty}) \cup {Nothing}] BY DEF PostInv, TypeInv
<1>1. HomeOf(p) \in LiveLoops BY HomeFacts
<1>2. PutOf(p) \in Event /\ DelOf(p) \in Event /\ PutOf(p).p = p /\ DelOf(p).p = p
      /\ PutOf(p).type # "mod" /\ DelOf(p).type # "mod"
  BY DEF PutOf, DelOf, Event
<1>3. CASE UserDeletes(p)
  <2>1. hs' = [hs EXCEPT ![p] = Nothing] /\ Logged(HomeOf(p), DelOf(p))
    BY <1>3 DEF UserDeletes, HomeOf, DelOf
  <2>2. hs' \in [Posts -> (Contents \ {Empty}) \cup {Nothing}] /\ hs'[p] = Nothing
        /\ \A q \in Posts : hs'[q] # hs[q] => p = q
    BY <1>0, <2>1
  <2> QED BY <1>1, <1>2, <2>1, <2>2, LoggedKeeps
<1>4. CASE \E c \in Contents \ {Empty} : UserPuts(p, c)
  <2>0. PICK c \in Contents \ {Empty} : UserPuts(p, c) BY <1>4
  <2>1. hs' = [hs EXCEPT ![p] = c] /\ Logged(HomeOf(p), PutOf(p))
    BY <2>0 DEF UserPuts, HomeOf, PutOf
  <2>2. hs' \in [Posts -> (Contents \ {Empty}) \cup {Nothing}] /\ hs'[p] # Nothing
        /\ \A q \in Posts : hs'[q] # hs[q] => p = q
    BY <1>0, <2>1, Nature
  <2> QED BY <1>1, <1>2, <2>1, <2>2, LoggedKeeps
<1> QED BY <1>3, <1>4

(* The moderator tags a post.                                              *)
LEMMA StepModerator ==
  ASSUME PostInv, NEW w \in LiveLoops, NEW p \in Posts, ModeratorTags(w, p)
  PROVE  PostInv'
<1> DEFINE e == [type |-> "mod", p |-> p]
<1>1. e \in Event /\ e.type = "mod" BY DEF Event
<1>2. Logged(w, e) /\ hs' = hs BY DEF ModeratorTags
<1>3. hs \in [Posts -> (Contents \ {Empty}) \cup {Nothing}] BY DEF PostInv, TypeInv
<1> HIDE DEF e
<1> QED BY <1>1, <1>2, <1>3, LoggedKeeps

(* A step of the cached counts, or none at all.                            *)
LEMMA CountsKeep ==
  ASSUME PostInv, graph' = graph, Aside(index, index'), hs' = hs, log' = log, queue' = queue, job' = job,
         buried' = buried, halfway' = halfway, overlap => overlap', overlap' \in BOOLEAN
  PROVE  PostInv'
<1>0. /\ TypeInv /\ JobsInv /\ TakedownInv /\ LogOrder /\ SeqInv
      /\ job \in [Loops -> JobType] /\ halfway \subseteq Posts
      /\ hs \in [Posts -> (Contents \ {Empty}) \cup {Nothing}] /\ log \in [LiveLoops -> Seq(Event)]
  BY DEF PostInv, TypeInv
<1>1. TypeInv' /\ BuriedInv' /\ ToldInv' BY <1>0, OutsideKeeps DEF Aside
<1>2. \A v : Busy(v)' = Busy(v) /\ Post(v)' = Post(v) BY DEF Busy, Post
<1>3. JobsInv' BY <1>0, <1>2 DEF JobsInv, SourceOK
<1>4. TakedownInv' BY <1>0, <1>2 DEF TakedownInv, Waits
<1>5. LogOrder' BY <1>0, OrderSame
<1>6. SeqInv'
  <2> SUFFICES ASSUME ~overlap'
               PROVE  Sequential' /\ EdgesHold' /\ DueInv' /\ FreshInv'
                      /\ \A v \in Loops : Busy(v)' => StandsOn(v)'
    BY DEF SeqInv
  <2>0. Sequential /\ EdgesHold /\ DueInv /\ FreshInv /\ \A v \in Loops : Busy(v) => StandsOn(v)
    BY <1>0 DEF SeqInv
  <2>1. Sequential' BY <1>2, <2>0 DEF Sequential
  <2>2. EdgesHold' BY <2>0, EdgesSame DEF SameLinks
  <2>3. \A p \in Posts : Due(p) => Due(p)' BY <1>2 DEF Due, HomeOf, PutOf
  <2>4. DueInv' BY <2>0, <2>3, DueSame DEF SameLinks
  <2>5. FreshInv' BY <1>2, <2>0 DEF FreshInv, Later, HomeOf, FromHomeserver
  <2>6. \A v \in Loops : Busy(v)' => StandsOn(v)' BY <1>2, <2>0, StandsSame DEF SameLinks
  <2> QED BY <2>1, <2>2, <2>4, <2>5, <2>6
<1> QED BY <1>1, <1>3, <1>4, <1>5, <1>6 DEF PostInv

(* Counts expire and are read through.                                     *)
LEMMA StepView ==
  ASSUME PostInv, NEW p \in Posts, ViewCounts(p) \/ ExpireCounts(p)
  PROVE  PostInv'
<1>0. IndexOK(index) /\ overlap \in BOOLEAN BY DEF PostInv, TypeInv
<1>1. CASE ExpireCounts(p)
  <2>1. Aside(index, index') BY <1>0, <1>1, InvalidateAside DEF ExpireCounts
  <2> QED BY <1>0, <1>1, <2>1, CountsKeep DEF ExpireCounts, inputs
<1>2. CASE ViewCounts(p)
  <2> DEFINE c == [index.counts EXCEPT ![p] = GraphCounts(graph, p)]
  <2>1. index' = [index EXCEPT !.counts = c] BY <1>2 DEF ViewCounts
  <2> HIDE DEF c
  <2>2. IsIndex(index') /\ index'.details = index.details /\ index'.rel = index.rel /\ index'.note = index.note
    BY <1>0, <2>1 DEF IndexOK, IsIndex
  <2>3. Aside(index, index') BY <1>0, <2>2, AsideOK
  <2>4. overlap' = (overlap \/ ~Quiet) BY <1>2 DEF ViewCounts, Raced
  <2>5. (overlap => overlap') /\ overlap' \in BOOLEAN BY <1>0, <2>4
  <2> QED BY <1>2, <2>3, <2>5, CountsKeep DEF ViewCounts, inputs
<1> QED BY <1>1, <1>2

(* Nothing happens.                                                        *)
LEMMA StepStutter ==
  ASSUME PostInv, UNCHANGED vars
  PROVE  PostInv'
<1>0. IndexOK(index) /\ overlap \in BOOLEAN BY DEF PostInv, TypeInv
<1> QED BY <1>0, CountsKeep DEF vars, Aside

(* Every step of a handler keeps the invariant.                            *)
LEMMA HandleKeeps ==
  ASSUME PostInv, NEW w \in Loops, Handle(w), Observe(w)
  PROVE  PostInv'
BY StepTake, StepCheck, StepFetch, StepGraph, StepExisting, StepEdges, StepTouched, StepEdit,
   StepChanged, StepMentions, StepCounts, StepJoin, StepRecover, StepParents, StepReindex,
   StepFind, StepGate, StepUngate, StepDropCounts, StepUnindex, StepDrop, StepOrphan, StepRecord,
   StepStore
   DEF Handle

(* Nothing is stored and nothing waits.                                    *)
LEMMA StartsWell == Init => PostInv
<1> SUFFICES ASSUME Init PROVE PostInv OBVIOUS
<1>0. /\ graph = EmptyGraph /\ index = EmptyIndex /\ hs = [p \in Posts |-> Nothing]
      /\ log = [w \in LiveLoops |-> <<>>] /\ queue = {} /\ job = [w \in Loops |-> Idle]
      /\ overlap = FALSE /\ buried = {} /\ halfway = {}
  BY DEF Init
<1>1. GraphOK(graph)
  BY <1>0 DEF GraphOK, IsGraph, EmptyGraph, Body
<1>2. IndexOK(index)
  <2>1. /\ IsIndex(index) /\ index.details = [p \in Posts |-> NoPost] /\ index.rel = [p \in Posts |-> NoRel]
    BY <1>0 DEF IsIndex, EmptyIndex
  <2> QED BY <2>1 DEF IndexOK, Body
<1>3. \A w \in Loops : job[w] = Idle /\ ~Busy(w) BY <1>0, IdleFacts DEF Busy
<1>4. \A w \in LiveLoops : log[w] = <<>> /\ Len(log[w]) = 0 BY <1>0
<1>5. TypeInv
  <2>1. log \in [LiveLoops -> Seq(Event)] /\ job \in [Loops -> JobType] BY <1>0, IdleFacts
  <2> QED BY <1>0, <1>1, <1>2, <2>1 DEF TypeInv
<1>6. JobsInv BY <1>3, IdleFacts DEF JobsInv, SourceOK
<1>7. /\ graph.takedown = {} /\ graph.replied = {} /\ graph.reposted = {}
      /\ \A p \in Posts : graph.post[p] = NoPost /\ index.details[p] = NoPost
  BY <1>0 DEF EmptyGraph, EmptyIndex
<1>8. TakedownInv BY <1>3, <1>7 DEF TakedownInv
<1>9. LogOrder
  <2>1. \A p \in Posts : log[HomeOf(p)] = <<>> /\ Len(log[HomeOf(p)]) = 0 BY <1>4, HomeFacts
  <2>2. 1..0 = {} OBVIOUS
  <2> QED BY <1>4, <2>1, <2>2 DEF LogOrder
<1>10. SeqInv
  <2>1. Sequential BY <1>0, <1>3, IdleFacts DEF Sequential
  <2>2. EdgesHold BY <1>7 DEF EdgesHold, Exists
  <2>3. \A p \in Posts : hs[p] = Nothing /\ Gone(graph.post[p]) BY <1>0, <1>7 DEF Gone
  <2>4. DueInv BY <2>3 DEF DueInv, Match
  <2>5. FreshInv BY <1>3, IdleFacts DEF FreshInv
  <2> QED BY <1>3, <2>1, <2>2, <2>4, <2>5 DEF SeqInv
<1>11. BuriedInv BY <1>3, <1>7 DEF BuriedInv, Buries
<1>12. ToldInv BY <1>3, <1>7 DEF ToldInv
<1> QED BY <1>5, <1>6, <1>8, <1>9, <1>10, <1>11, <1>12 DEF PostInv

(* For any posts, loops and bounds, and wherever handlers are interrupted  *)
(* or overlap: the stores and the handlers are as PostInv says.            *)
THEOREM PostsCorrect == Spec => []PostInv
<1>1. PostInv /\ [Next]_vars => PostInv'
  <2> SUFFICES ASSUME PostInv, [Next]_vars PROVE PostInv' OBVIOUS
  <2>1. CASE \E p \in Posts : UserDeletes(p) \/ \E c \in Contents \ {Empty} : UserPuts(p, c)
    BY <2>1, StepUser
  <2>2. CASE \E w \in LiveLoops, p \in Posts : ModeratorTags(w, p) BY <2>2, StepModerator
  <2>3. CASE \E w \in Loops : Handle(w) /\ Observe(w) BY <2>3, HandleKeeps
  <2>4. CASE \E p \in Posts : ViewCounts(p) \/ ExpireCounts(p) BY <2>4, StepView
  <2>5. CASE UNCHANGED vars BY <2>5, StepStutter
  <2> QED BY <2>1, <2>2, <2>3, <2>4, <2>5 DEF Next
<1> QED BY <1>1, StartsWell, PTL DEF Spec

(* For any posts, loops and bounds: once every event was handled, a post   *)
(* that was taken down is gone from the graph, however the handlers        *)
(* overlapped, and without overlap every other post is what its homeserver *)
(* has, whatever was interrupted, queued and replayed.                     *)
THEOREM FollowsHomeserverAlways == Spec => []FollowsHomeserver
<1>1. PostInv => FollowsHomeserver
  <2> SUFFICES ASSUME PostInv, Quiet
               PROVE  /\ \A p \in graph.takedown : Gone(graph.post[p])
                      /\ ~overlap => \A p \in Posts \ graph.takedown :
                           IF hs[p] = Nothing THEN Gone(graph.post[p])
                           ELSE graph.post[p] = FromHomeserver(hs[p])
    BY DEF FollowsHomeserver
  <2>0. /\ \A w \in Loops : ~Busy(w)
        /\ \A w \in LiveLoops : log[w] = <<>> /\ Len(log[w]) = 0
    BY DEF Quiet
  <2>1. queue = {} /\ 1..0 = {} BY DEF Quiet
  <2>2. \A p : ~Waits(p) BY <2>0, <2>1 DEF Waits
  <2>3. \A p \in Posts : ~Due(p) BY <2>0, <2>1, HomeFacts DEF Due
  <2>4. \A p \in graph.takedown : Gone(graph.post[p]) BY <2>2 DEF PostInv, TakedownInv
  <2>5. ~overlap => \A p \in Posts \ graph.takedown : Match(p) BY <2>3 DEF PostInv, SeqInv, DueInv
  <2> QED BY <2>4, <2>5 DEF Match
<1> QED BY <1>1, PostsCorrect, PTL

(* For any posts, loops and bounds: without overlap, no interruption of a  *)
(* put and no retry of it serves a reply that its parent was never told    *)
(* of, but for a post that was found halfway.                              *)
THEOREM AnnouncedAlways == Spec => []Announced
<1>1. PostInv => Announced BY DEF PostInv, ToldInv, Told, Announced
<1> QED BY <1>1, PostsCorrect, PTL
=============================================================================

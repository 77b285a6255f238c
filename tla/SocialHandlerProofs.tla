------------------------ MODULE SocialHandlerProofs ------------------------
(***************************************************************************)
(* Proofs about the handlers of profiles, follows, tags, bookmarks and     *)
(* files, for any users, records and bounds.                               *)
(*                                                                         *)
(* The argument is the same for every kind of record.  A record is due     *)
(* while an event that will be acted upon waits for it.  What the graph,   *)
(* the index and the homeserver say of a record may differ only while it   *)
(* is due, and a handler that finishes its event leaves them in agreement. *)
(***************************************************************************)
EXTENDS SocialHandler, FiniteSetTheorems, TLAPS

Of(k) == {r \in Records : Kind[r] = k /\ ~Ignored(r)}
Pair(r) == <<By[r], To[r]>>
Edges == {TagEdge(r) : r \in Of("tag")}
Score == Int \cup {NoScore}

PutOf(r) == [type |-> "put", r |-> r]
DelOf(r) == [type |-> "del", r |-> r]

-----------------------------------------------------------------------------
(* Types.                                                                  *)
GraphType ==
    [user : [Users -> Profile \cup {NoUser}], hosted : SUBSET Users, posts : SUBSET Posts,
     follows : SUBSET {Pair(r) : r \in Of("follow")}, tags : SUBSET Edges,
     bookmarks : SUBSET {Pair(r) : r \in Of("bookmark")}, files : SUBSET Of("file")]

Owners      == {By[r] : r \in Records}
DetailsType == [Users -> Profile \cup {NoUser}]
NamesType   == SUBSET ((Names \cup {Stub, Blank}) \X Users)
FollowsType == [Users -> SUBSET Users]
TaggersType == [Targets -> [Labels -> SUBSET Owners]]
ScoresType  == [Targets -> [Labels -> Score]]
ByTagType   == [Posts -> [Labels -> Score]]
StreamType  == [Posts -> Score]
PostsType   == [Labels -> SUBSET Posts]
RankType    == [Labels -> [Users -> Nat]]
MarksType   == SUBSET (Users \X Posts)
CountsType  == [Posts -> Nat \cup {NoScore}]
NoteKinds   == {"friend", "follow", "lost", "tag", "untag"}
NoteType    == SUBSET [to : Users, from : Users, kind : NoteKinds]

IndexType ==
    [details : DetailsType, names : NamesType, ids : SUBSET Users,
     followers : FollowsType, following : FollowsType, taggers : TaggersType,
     score : ScoresType, byTag : ByTagType, stream : StreamType, posts : PostsType,
     rank : RankType, labels : SUBSET Labels, marks : MarksType, marked : MarksType,
     counts : CountsType, note : NoteType]

PutSteps == {"fetch", "edge", "follow", "tag", "mark", "write", "search"}
DelSteps == {"find", "unfollow", "lost", "untag", "cleanup", "unmark", "unedge", "uncount",
             "erase", "unsearch", "undetails"}
Joins == {"follow", "unfollow", "tag", "untag"}
Steps == PutSteps \cup DelSteps \cup
         {"idle", "sync", "profile", "details", "labels", "resync", "done"}

StepsOf(k) ==
    CASE k = "follow"   -> {"edge", "follow", "unfollow", "lost", "unedge"}
      [] k = "tag"      -> {"edge", "tag", "untag", "sync", "cleanup", "unedge", "uncount"}
      [] k = "bookmark" -> {"edge", "mark", "unmark", "unedge"}
      [] k = "file"     -> {"write", "erase"}
      [] k = "profile"  -> {"profile", "search", "details", "labels", "resync", "unsearch",
                            "undetails"}

TodoOf(l) ==
    CASE l = "follow"   -> {"followers", "following", "tell"}
      [] l = "unfollow" -> {"unfollowers", "unfollowing"}
      [] l = "tag"      -> {"uncount", "tagger", "posts", "label", "count", "tell"}
      [] l = "untag"    -> UntagWrites
      [] OTHER          -> {}

JobType ==
    [pc : Steps, ev : Event \cup {Nothing}, body : Profile \cup {NoUser},
     edge : Edges \cup {Nothing}, known : BOOLEAN, friends : BOOLEAN,
     todo : SUBSET {"followers", "following", "unfollowers", "unfollowing", "tell", "uncount",
                    "tagger", "posts", "label", "count", "untagger"},
     failed : BOOLEAN, labels : SUBSET Labels]

(* Where a handler can be, given its event.                                *)
JobShape(j) ==
    /\ j.pc = "idle" => j = Idle
    /\ j.pc # "idle" => j.ev \in Event
    /\ j.pc \in PutSteps => j.ev.type = "put"
    /\ j.pc \in DelSteps => j.ev.type = "del"
    /\ j.pc \notin {"idle", "fetch", "find", "done"} => j.pc \in StepsOf(Kind[j.ev.r])
    /\ j.pc \notin {"idle", "fetch", "find"} => ~Ignored(j.ev.r)
    /\ j.todo \subseteq TodoOf(j.pc) /\ (j.todo = {} <=> j.pc \notin Joins)
    /\ j.pc = "untag" => Target(j.ev.r) \in {"post", "user"}
    /\ j.pc = "sync" => Target(j.ev.r) = "user"
    /\ j.pc \in {"cleanup", "uncount"} => Target(j.ev.r) = "post"
    /\ j.pc = "tag" /\ "count" \in j.todo => Target(j.ev.r) \in {"post", "user"}
    /\ j.pc = "tag" /\ {"tagger", "tell"} \cap j.todo # {} => Target(j.ev.r) \in {"post", "user"}
    /\ j.pc = "tag" /\ {"uncount", "posts"} \cap j.todo # {} => Target(j.ev.r) = "post"
    /\ j.pc \in {"untag", "sync", "cleanup", "unedge"} /\ j.ev.type = "del"
          /\ Kind[j.ev.r] = "tag" => j.edge = TagEdge(j.ev.r)
    /\ j.pc \in {"profile", "search", "details", "labels", "resync"} =>
          IF j.ev.type = "put" THEN \E n \in Names : j.body = FromHomeserver(n)
          ELSE j.body = Tombstone
    /\ j.pc = "unsearch" => j.body \in {NoUser, Tombstone}
    /\ j.pc = "undetails" => j.body = NoUser

Deferrable(r) == Kind[r] \in {"follow", "tag", "bookmark"} /\ ~Ignored(r)

StoresOK == graph \in GraphType /\ index \in IndexType /\ disk \subseteq Of("file")

InputsOK ==
    /\ hs \in [Records -> Names \cup {"record", Nothing}]
    /\ \A r \in Records : hs[r] \in Blob(r) \cup {Nothing}
    /\ ops \in Nat /\ faults \in Nat /\ overlap \in BOOLEAN
    /\ log \in [LiveLoops -> Seq(Event)]
    /\ \A w \in LiveLoops : \A i \in 1..Len(log[w]) : Home[By[log[w][i].r]] = w
    /\ queue \subseteq {PutOf(r) : r \in {r \in Records : Deferrable(r)}}

JobsOK ==
    /\ job \in [Loops -> JobType]
    /\ \A w \in Loops : JobShape(job[w])
    /\ \A w \in LiveLoops : Busy(w) => log[w] # <<>> /\ job[w].ev = Head(log[w])
    /\ Busy(Retry) => job[Retry].ev.type = "put" /\ Deferrable(Rec(Retry))

TypeOK == StoresOK /\ InputsOK /\ JobsOK

-----------------------------------------------------------------------------
(* What is due.                                                            *)
InLog(e) == \E i \in 1..Len(log[Home[By[e.r]]]) : log[Home[By[e.r]]][i] = e

Due(r) ==
    \/ InLog(DelOf(r))
    \/ hs[r] # Nothing /\ (InLog(PutOf(r)) \/ PutOf(r) \in queue)

(* The newest event of a record says whether the homeserver has it.        *)
LogOrder ==
    \A r \in Records : LET s == log[Home[By[r]]] IN
        \A i \in 1..Len(s) :
            /\ s[i] = DelOf(r) /\ hs[r] # Nothing => \E j \in (i+1)..Len(s) : s[j] = PutOf(r)
            /\ s[i] = PutOf(r) /\ hs[r] = Nothing => \E j \in (i+1)..Len(s) : s[j] = DelOf(r)

(* Handlers that never overlapped run one at a time.                       *)
Sequential ==
    /\ \A v, w \in Loops : Busy(v) /\ Busy(w) => v = w
    /\ Busy(Retry) => job[Retry].ev \in queue
    /\ \A w \in Loops : Busy(w) /\ ~At(w, "fetch") => Due(Rec(w))

-----------------------------------------------------------------------------
(* Follows.                                                                *)
FollowSettled(r) ==
    LET there == Pair(r) \in graph.follows
    IN /\ there <=> hs[r] # Nothing
       /\ there <=> By[r] \in index.followers[To[r]]
       /\ there <=> To[r] \in index.following[By[r]]
FollowJob(j) ==
    LET r == j.ev.r
        follower == By[r] \in index.followers[To[r]]
        followee == To[r] \in index.following[By[r]]
    IN (j.pc # "idle" /\ Kind[r] = "follow") =>
       /\ j.pc = "follow" =>
            /\ Pair(r) \in graph.follows
            /\ ~j.failed => ("followers" \in j.todo \/ follower) /\ ("following" \in j.todo \/ followee)
       /\ j.pc = "done" /\ j.ev.type = "put" => Pair(r) \in graph.follows /\ follower /\ followee
       /\ j.pc = "unfollow" /\ ~j.failed =>
            ("unfollowers" \in j.todo \/ ~follower) /\ ("unfollowing" \in j.todo \/ ~followee)
       /\ j.pc \in {"lost", "unedge"} => ~follower /\ ~followee
       /\ j.pc = "done" /\ j.ev.type = "del" => Pair(r) \notin graph.follows
FollowInv ==
    /\ \A u, v \in Users :
         /\ v \in index.followers[u] => <<v, u>> \in graph.follows
         /\ v \in index.following[u] => <<u, v>> \in graph.follows
    /\ \A r \in Of("follow") : Due(r) \/ FollowSettled(r)
    /\ \A w \in Loops : FollowJob(job[w])

(* Bookmarks.                                                              *)
MarkSettled(r) ==
    LET there == Pair(r) \in graph.bookmarks
    IN /\ there <=> hs[r] # Nothing
       /\ there <=> Pair(r) \in index.marks
       /\ there <=> Pair(r) \in index.marked
MarkJob(j) ==
    LET r == j.ev.r
        all == Pair(r) \in index.marks /\ Pair(r) \in index.marked
        none == Pair(r) \notin index.marks /\ Pair(r) \notin index.marked
    IN (j.pc # "idle" /\ Kind[r] = "bookmark") =>
       /\ j.pc = "mark" => Pair(r) \in graph.bookmarks
       /\ j.pc = "done" /\ j.ev.type = "put" => Pair(r) \in graph.bookmarks /\ all
       /\ j.pc = "unedge" => none
       /\ j.pc = "done" /\ j.ev.type = "del" => Pair(r) \notin graph.bookmarks
MarkInv ==
    /\ index.marks \subseteq graph.bookmarks /\ index.marked \subseteq graph.bookmarks
    /\ \A r \in Of("bookmark") : Due(r) \/ MarkSettled(r)
    /\ \A w \in Loops : MarkJob(job[w])

(* Files.                                                                  *)
FileSettled(r) == (r \in graph.files <=> hs[r] # Nothing) /\ (r \in graph.files <=> r \in disk)
FileJob(j) ==
    j.pc = "done" /\ Kind[j.ev.r] = "file" =>
       IF j.ev.type = "put" THEN j.ev.r \in graph.files ELSE j.ev.r \notin disk
FileInv ==
    /\ graph.files \subseteq disk
    /\ \A r \in Of("file") : Due(r) \/ FileSettled(r)
    /\ \A w \in Loops : FileJob(job[w])

-----------------------------------------------------------------------------
(* Tags.  Two records may stand for one edge.                              *)
DueEdge(e) == \E s \in Of("tag") : TagEdge(s) = e /\ Due(s)
Held(e)    == \E s \in Of("tag") : TagEdge(s) = e /\ hs[s] # Nothing
Indexed(e) == e.to \in Targets => e.by \in index.taggers[e.to][e.label]
Listed(e)  == e.to \in Posts => e.to \in index.posts[e.label]

TagJob(j) ==
    LET r == j.ev.r
        e == TagEdge(r)
        tagged == By[r] \in index.taggers[To[r]][Label[r]]
    IN (j.pc # "idle" /\ Kind[r] = "tag") =>
       /\ j.ev.type = "put" /\ j.pc \in {"tag", "sync", "done"} => e \in graph.tags
       /\ j.pc = "tag" /\ ~j.failed =>
            ("tagger" \in j.todo \/ Indexed(e)) /\ ("posts" \in j.todo \/ Listed(e))
       /\ j.ev.type = "put" /\ j.pc \in {"sync", "done"} => Indexed(e) /\ Listed(e)
       /\ j.ev.type = "del" /\ j.pc \in {"untag", "sync", "cleanup", "unedge"} => e \in graph.tags
       /\ j.pc = "untag" /\ ~j.failed => "untagger" \in j.todo \/ ~tagged
       /\ j.ev.type = "del" /\ j.pc \in {"sync", "cleanup", "unedge"} /\ To[r] \in Targets => ~tagged
       /\ j.pc = "unedge" /\ To[r] \in Posts /\ To[r] \in index.posts[Label[r]] =>
            index.taggers[To[r]][Label[r]] # {}
       /\ j.ev.type = "del" /\ j.pc \in {"uncount", "done"} => e \notin graph.tags
TagInv ==
    /\ \A t \in Targets, l \in Labels : \A v \in index.taggers[t][l] :
         \E e \in graph.tags : e.by = v /\ e.to = t /\ e.label = l
    /\ \A l \in Labels : \A p \in index.posts[l] : \E e \in graph.tags : e.to = p /\ e.label = l
    /\ \A e \in graph.tags : DueEdge(e) \/ (Held(e) /\ Indexed(e) /\ Listed(e))
    /\ \A w \in Loops : TagJob(job[w])

-----------------------------------------------------------------------------
(* Profiles.                                                               *)
Profiles(u) == {r \in Records : Kind[r] = "profile" /\ By[r] = u}
Wanted(d) == IF d = NoUser \/ d.deleted THEN {} ELSE {d.name}
Found(u) == {n \in Names \cup {Stub, Blank} : <<n, u>> \in index.names}

UserSettled(u) ==
    /\ \A r \in Profiles(u) : hs[r] # Nothing => graph.user[u] = FromHomeserver(hs[r])
    /\ index.details[u] \in {NoUser, graph.user[u]}
    /\ Wanted(index.details[u]) \subseteq Found(u)

(* A user without edges, who can go.                                       *)
Clear(u) ==
    /\ \A e \in graph.follows : u \notin {e[1], e[2]}
    /\ \A e \in graph.tags : u \notin {e.by, e.to} /\ (e.to \in Posts => Author[e.to] # u)
    /\ \A e \in graph.bookmarks : e[1] # u /\ Author[e[2]] # u

(* The profile a handler of w writes is the one on the homeserver, or a     *)
(* newer event is behind it.                                               *)
Fresh(w) ==
    hs[Rec(w)] # Nothing =>
        \/ job[w].body = FromHomeserver(hs[Rec(w)])
        \/ \E i \in 2..Len(log[w]) : log[w][i] = PutOf(Rec(w))

UserJob(w) ==
    LET j == job[w]
        r == j.ev.r
        u == By[r]
    IN (j.pc # "idle" /\ Kind[r] = "profile") =>
       /\ j.ev.type = "put" =>
            /\ j.pc # "fetch" => Fresh(w)
            /\ j.pc \in {"search", "details", "labels", "resync", "done"} => graph.user[u] = j.body
            /\ j.pc = "details" => j.body.name \in Found(u)
            /\ j.pc \in {"labels", "resync", "done"} =>
                 index.details[u] = j.body /\ j.body.name \in Found(u)
            /\ j.pc = "done" => \E n \in Names : j.body = FromHomeserver(n)
       /\ j.ev.type = "del" =>
            /\ j.pc \in {"details", "labels", "resync"} => graph.user[u] = Tombstone
            /\ j.pc \in {"labels", "resync"} => index.details[u] = Tombstone
            /\ j.pc = "done" => index.details[u] = graph.user[u] /\ Wanted(graph.user[u]) = {}
            /\ j.pc \in {"unsearch", "undetails"} /\ j.body = NoUser => Clear(u)

(* Names, as long as no write failed.                                      *)
NameJob(j) ==
    LET u == By[j.ev.r]
    IN (j.pc # "idle" /\ Kind[j.ev.r] = "profile") =>
       /\ j.pc = "details" /\ j.ev.type = "put" => Found(u) = {j.body.name}
       /\ j.pc \in {"profile", "details"} /\ j.ev.type = "del" => Found(u) = {}
       /\ j.pc = "undetails" => Found(u) = {}
Renaming(j, u) ==
    /\ j.pc # "idle" /\ Kind[j.ev.r] = "profile" /\ By[j.ev.r] = u
    /\ j.pc \in {"details", "undetails"} \/ (j.pc = "profile" /\ j.ev.type = "del")

UserInv ==
    /\ \A u \in Users : graph.user[u] = NoUser => index.details[u] = NoUser
    /\ \A u \in Users : (\E r \in Profiles(u) : Due(r)) \/ UserSettled(u)
    /\ \A w \in Loops : UserJob(w)
NameInv ==
    faults = 0 =>
        /\ \A u \in Users : Found(u) = Wanted(index.details[u]) \/ \E w \in Loops : Renaming(job[w], u)
        /\ \A w \in Loops : NameJob(job[w])

(* The ends of an edge are in the graph.                                   *)
EdgeEnds ==
    /\ \A e \in graph.follows : UserExists(graph, e[1]) /\ UserExists(graph, e[2])
    /\ \A e \in graph.tags : /\ UserExists(graph, e.by)
                             /\ e.to \in Users => UserExists(graph, e.to)
                             /\ e.to \in Posts => e.to \in graph.posts
    /\ \A e \in graph.bookmarks : UserExists(graph, e[1]) /\ e[2] \in graph.posts

-----------------------------------------------------------------------------
(* What the operations on the index change, and what they leave alone.     *)
SameFollows(x, y) == y.followers = x.followers /\ y.following = x.following
SameTags(x, y)    == y.taggers = x.taggers /\ y.posts = x.posts
SameRank(x, y)    == y.rank = x.rank
SameMarks(x, y)   == y.marks = x.marks /\ y.marked = x.marked
SameUsers(x, y)   == y.details = x.details /\ y.names = x.names
SameScores(x, y)  == y.score = x.score /\ y.byTag = x.byTag /\ y.stream = x.stream
SameCached(x, y)  == y.counts = x.counts

(* A notification changes nothing else of the index.                       *)
LEMMA TellIndex ==
    ASSUME NEW x \in IndexType, NEW from \in Users, NEW to \in Users, NEW kind \in NoteKinds
    PROVE  LET y == Tell(x, from, to, kind) IN
           /\ y \in IndexType
           /\ SameFollows(x, y) /\ SameTags(x, y) /\ SameRank(x, y) /\ SameMarks(x, y)
           /\ SameUsers(x, y) /\ SameScores(x, y) /\ SameCached(x, y)
  <1> DEFINE n == x.note \cup {[to |-> to, from |-> from, kind |-> kind]}
  <1>1. n \in NoteType
    BY DEF NoteType, IndexType
  <1>2. Tell(x, from, to, kind) = IF from = to THEN x ELSE [x EXCEPT !.note = n]
    BY DEF Tell
  <1> HIDE DEF n
  <1> QED
    BY <1>1, <1>2 DEF IndexType, SameFollows, SameTags, SameRank, SameMarks, SameUsers, SameScores, SameCached

(* The sets of a follow after one write of a join.                         *)
FollowsAfter(x, y, r, a) ==
    \A u, v \in Users :
        /\ v \in y.followers[u] <=>
             IF u = To[r] /\ v = By[r] /\ a \in {"followers", "unfollowers"}
             THEN a = "followers" ELSE v \in x.followers[u]
        /\ v \in y.following[u] <=>
             IF u = By[r] /\ v = To[r] /\ a \in {"following", "unfollowing"}
             THEN a = "following" ELSE v \in x.following[u]

(* One write of the join of a follow, or of an unfollow.                   *)
LEMMA FollowIndex ==
    ASSUME NEW x \in IndexType, NEW r \in Of("follow"), NEW friends \in BOOLEAN,
           NEW a \in {"followers", "following", "unfollowers", "unfollowing", "tell"}
    PROVE  LET y == FollowEffect(x, r, friends, a) IN
           /\ y \in IndexType
           /\ SameTags(x, y) /\ SameRank(x, y) /\ SameMarks(x, y)
           /\ SameUsers(x, y) /\ SameScores(x, y) /\ SameCached(x, y)
           /\ FollowsAfter(x, y, r, a)
  <1> DEFINE y == FollowEffect(x, r, friends, a)
  <1> USE DEF SameFollows, SameTags, SameRank, SameMarks, SameUsers, SameScores, SameCached, FollowsAfter
  <1>0. By[r] \in Users /\ To[r] \in Users
    BY SocialGraphAssumption DEF Of
  <1>1. CASE a = "tell"
    <2> DEFINE k == IF friends THEN "friend" ELSE "follow"
    <2>1. y = Tell(x, By[r], To[r], k)
      BY <1>1 DEF FollowEffect
    <2>2. k \in NoteKinds
      BY DEF NoteKinds
    <2> HIDE DEF y, k
    <2>3. /\ y \in IndexType
          /\ SameFollows(x, y) /\ SameTags(x, y) /\ SameRank(x, y) /\ SameMarks(x, y)
          /\ SameUsers(x, y) /\ SameScores(x, y) /\ SameCached(x, y)
      BY <1>0, <2>1, <2>2, TellIndex
    <2> QED
      BY <1>1, <2>3 DEF y
  <1>2. CASE a = "followers"
    BY <1>0, <1>2 DEF FollowEffect, IndexType, FollowsType
  <1>3. CASE a = "following"
    BY <1>0, <1>3 DEF FollowEffect, IndexType, FollowsType
  <1>4. CASE a = "unfollowers"
    BY <1>0, <1>4 DEF FollowEffect, IndexType, FollowsType
  <1>5. CASE a = "unfollowing"
    BY <1>0, <1>5 DEF FollowEffect, IndexType, FollowsType
  <1> QED
    BY <1>1, <1>2, <1>3, <1>4, <1>5

(* The sets of a tag after one write of a join.                            *)
TagsAfter(x, y, r, joins, leaves, lists) ==
    /\ \A t \in Targets, l \in Labels : y.taggers[t][l] =
          IF t = To[r] /\ l = Label[r] /\ joins THEN x.taggers[t][l] \cup {By[r]}
          ELSE IF t = To[r] /\ l = Label[r] /\ leaves THEN x.taggers[t][l] \ {By[r]}
          ELSE x.taggers[t][l]
    /\ \A l \in Labels : y.posts[l] =
          IF l = Label[r] /\ lists THEN x.posts[l] \cup {To[r]} ELSE x.posts[l]

(* One write of the join of a tag, the counters apart.                     *)
LEMMA TagIndex ==
    ASSUME NEW x \in IndexType, NEW r \in Of("tag"),
           NEW a \in {"uncount", "tagger", "posts", "label", "tell"},
           a \in {"tagger", "tell"} => To[r] \in Targets,
           a \in {"uncount", "posts"} => To[r] \in Posts
    PROVE  LET y == TagEffect(x, r, a) IN
           /\ y \in IndexType
           /\ SameFollows(x, y) /\ SameRank(x, y) /\ SameMarks(x, y)
           /\ SameUsers(x, y) /\ SameScores(x, y)
           /\ TagsAfter(x, y, r, a = "tagger", FALSE, a = "posts")
           /\ \A p \in Posts : y.counts[p] =
                 IF a = "uncount" /\ p = To[r] THEN NoScore ELSE x.counts[p]
  <1> DEFINE y == TagEffect(x, r, a)
  <1> USE DEF SameFollows, SameTags, SameRank, SameMarks, SameUsers, SameScores, SameCached, TagsAfter
  <1>0. By[r] \in Users /\ By[r] \in Owners /\ Label[r] \in Labels
    BY SocialGraphAssumption DEF Of, Owners
  <1>1. CASE a = "tell"
    <2>1. y = Tell(x, By[r], Owner(r), "tag")
      BY <1>1 DEF TagEffect
    <2>2. Owner(r) \in Users /\ "tag" \in NoteKinds
      BY <1>1, SocialGraphAssumption DEF Owner, Targets, NoteKinds
    <2> HIDE DEF y
    <2>3. /\ y \in IndexType
          /\ SameFollows(x, y) /\ SameTags(x, y) /\ SameRank(x, y) /\ SameMarks(x, y)
          /\ SameUsers(x, y) /\ SameScores(x, y) /\ SameCached(x, y)
      BY <1>0, <2>1, <2>2, TellIndex
    <2> QED
      BY <1>1, <2>3 DEF y
  <1>2. CASE a = "uncount"
    BY <1>0, <1>2 DEF TagEffect, IndexType, CountsType
  <1>3. CASE a = "tagger"
    <2> DEFINE tg == [x.taggers EXCEPT ![To[r]][Label[r]] = @ \cup {By[r]}]
    <2>1. y = [x EXCEPT !.taggers = tg]
      BY <1>3 DEF TagEffect, IndexType
    <2>2. /\ tg \in TaggersType
          /\ \A t \in Targets, l \in Labels : tg[t][l] =
                 IF t = To[r] /\ l = Label[r] THEN x.taggers[t][l] \cup {By[r]} ELSE x.taggers[t][l]
      BY <1>0, <1>3 DEF IndexType, TaggersType
    <2> HIDE DEF y, tg
    <2>3. /\ y \in IndexType /\ y.taggers = tg /\ y.posts = x.posts
          /\ SameFollows(x, y) /\ SameRank(x, y) /\ SameMarks(x, y)
          /\ SameUsers(x, y) /\ SameScores(x, y) /\ SameCached(x, y)
      BY <2>1, <2>2 DEF IndexType
    <2> QED
      BY <1>3, <2>2, <2>3 DEF y
  <1>4. CASE a = "posts"
    BY <1>0, <1>4 DEF TagEffect, PutPostByTag, IndexType, PostsType
  <1>5. CASE a = "label"
    BY <1>0, <1>5 DEF TagEffect, IndexType
  <1> QED
    BY <1>1, <1>2, <1>3, <1>4, <1>5

(* One write of the join of an untag, the counters apart.                  *)
LEMMA UntagIndex ==
    ASSUME NEW x \in IndexType, NEW r \in Of("tag"), NEW known \in BOOLEAN,
           NEW a \in {"untagger", "tell"}, To[r] \in Targets
    PROVE  LET y == UntagEffect(x, r, known, a) IN
           /\ y \in IndexType
           /\ SameFollows(x, y) /\ SameRank(x, y) /\ SameMarks(x, y)
           /\ SameUsers(x, y) /\ SameScores(x, y) /\ SameCached(x, y) /\ y.posts = x.posts
           /\ TagsAfter(x, y, r, FALSE, a = "untagger", FALSE)
  <1> DEFINE y == UntagEffect(x, r, known, a)
  <1> USE DEF SameFollows, SameTags, SameRank, SameMarks, SameUsers, SameScores, SameCached, TagsAfter
  <1>0. By[r] \in Users /\ By[r] \in Owners /\ Label[r] \in Labels
    BY SocialGraphAssumption DEF Of, Owners
  <1>1. CASE a = "tell"
    <2>1. y = IF known THEN Tell(x, By[r], Owner(r), "untag") ELSE x
      BY <1>1 DEF UntagEffect
    <2>2. Owner(r) \in Users /\ "untag" \in NoteKinds
      BY SocialGraphAssumption DEF Owner, Targets, NoteKinds
    <2> HIDE DEF y
    <2>3. /\ y \in IndexType
          /\ SameFollows(x, y) /\ SameTags(x, y) /\ SameRank(x, y) /\ SameMarks(x, y)
          /\ SameUsers(x, y) /\ SameScores(x, y) /\ SameCached(x, y)
      BY <1>0, <2>1, <2>2, TellIndex
    <2> QED
      BY <1>1, <2>3 DEF y
  <1>2. CASE a = "untagger"
    <2> DEFINE tg == [x.taggers EXCEPT ![To[r]][Label[r]] = @ \ {By[r]}]
    <2>1. y = [x EXCEPT !.taggers = tg]
      BY <1>2 DEF UntagEffect, IndexType
    <2>2. /\ tg \in TaggersType
          /\ \A t \in Targets, l \in Labels : tg[t][l] =
                 IF t = To[r] /\ l = Label[r] THEN x.taggers[t][l] \ {By[r]} ELSE x.taggers[t][l]
      BY <1>0, <1>2 DEF IndexType, TaggersType
    <2> HIDE DEF y, tg
    <2>3. /\ y \in IndexType /\ y.taggers = tg /\ y.posts = x.posts
          /\ SameFollows(x, y) /\ SameRank(x, y) /\ SameMarks(x, y)
          /\ SameUsers(x, y) /\ SameScores(x, y) /\ SameCached(x, y)
      BY <2>1, <2>2 DEF IndexType
    <2> QED
      BY <1>2, <2>2, <2>3 DEF y
  <1> QED
    BY <1>1, <1>2

(* The counters of a tag move together or not at all.                      *)
LEMMA CountIndex ==
    ASSUME NEW x \in IndexType, NEW r \in Of("tag"), NEW n \in {1, -1},
           NEW fields \in SUBSET Counters(r), To[r] \in Targets
    PROVE  LET y == Count(x, r, fields, n) IN
           /\ y \in IndexType
           /\ SameFollows(x, y) /\ SameRank(x, y) /\ SameMarks(x, y)
           /\ SameUsers(x, y) /\ SameTags(x, y) /\ SameCached(x, y)
           /\ \A t \in Targets, l \in Labels : y.score[t][l] =
                 IF "score" \in fields /\ t = To[r] /\ l = Label[r]
                 THEN Moved(x.score[t][l], n) ELSE x.score[t][l]
           /\ \A p \in Posts, l \in Labels : y.byTag[p][l] =
                 IF "byTag" \in fields /\ p = To[r] /\ l = Label[r]
                 THEN MovedGated(x.byTag[p][l], n) ELSE x.byTag[p][l]
           /\ \A p \in Posts : y.stream[p] =
                 IF "stream" \in fields /\ p = To[r]
                 THEN MovedGated(x.stream[p], n) ELSE x.stream[p]
  <1> DEFINE t == To[r]
             l == Label[r]
             sc == IF "score" \in fields
                   THEN [x.score EXCEPT ![t][l] = Moved(@, n)] ELSE x.score
             bt == IF "byTag" \in fields
                   THEN [x.byTag EXCEPT ![t][l] = MovedGated(@, n)] ELSE x.byTag
             st == IF "stream" \in fields
                   THEN [x.stream EXCEPT ![t] = MovedGated(@, n)] ELSE x.stream
             y == [x EXCEPT !.score = sc, !.byTag = bt, !.stream = st]
  <1>0. By[r] \in Users /\ By[r] \in Owners /\ Label[r] \in Labels
    BY SocialGraphAssumption DEF Of, Owners
  <1>1. Count(x, r, fields, n) = y
    BY DEF Count
  <1>2. fields \cap {"byTag", "stream"} # {} => t \in Posts
    BY DEF Counters, Target
  <1>3. \A m \in Score : Moved(m, n) \in Score /\ MovedGated(m, n) \in Score
    BY DEF Score, Moved, MovedGated
  <1>4. sc \in ScoresType
    BY <1>0, <1>3 DEF IndexType, ScoresType
  <1>5. bt \in ByTagType
    BY <1>0, <1>2, <1>3 DEF IndexType, ByTagType
  <1>6. st \in StreamType
    BY <1>0, <1>2, <1>3 DEF IndexType, StreamType
  <1>7. \A t1 \in Targets, l1 \in Labels : sc[t1][l1] =
                 IF "score" \in fields /\ t1 = To[r] /\ l1 = Label[r]
                 THEN Moved(x.score[t1][l1], n) ELSE x.score[t1][l1]
    BY <1>0 DEF IndexType, ScoresType
  <1>8. \A p \in Posts, l1 \in Labels : bt[p][l1] =
                 IF "byTag" \in fields /\ p = To[r] /\ l1 = Label[r]
                 THEN MovedGated(x.byTag[p][l1], n) ELSE x.byTag[p][l1]
    BY <1>0, <1>2 DEF IndexType, ByTagType
  <1>9. \A p \in Posts : st[p] =
                 IF "stream" \in fields /\ p = To[r]
                 THEN MovedGated(x.stream[p], n) ELSE x.stream[p]
    BY <1>0, <1>2 DEF IndexType, StreamType
  <1> HIDE DEF sc, bt, st
  <1>10. /\ y \in IndexType /\ y.score = sc /\ y.byTag = bt /\ y.stream = st
         /\ SameFollows(x, y) /\ SameRank(x, y) /\ SameMarks(x, y)
         /\ SameUsers(x, y) /\ SameTags(x, y) /\ SameCached(x, y)
    BY <1>4, <1>5, <1>6
    DEF IndexType, SameFollows, SameTags, SameRank, SameMarks, SameUsers, SameCached
  <1> HIDE DEF y
  <1> QED
    BY <1>1, <1>7, <1>8, <1>9, <1>10

(* Taggers are users, and there are finitely many.                         *)
LEMMA TaggersFinite ==
    ASSUME NEW x \in IndexType, NEW t \in Targets, NEW l \in Labels
    PROVE  /\ x.taggers[t][l] \subseteq Users
           /\ IsFiniteSet(x.taggers[t][l]) /\ Cardinality(x.taggers[t][l]) \in Nat
  <1>1. IsFiniteSet(Owners)
    <2>1. By \in Surjection(Records, Owners)
      BY SocialGraphAssumption DEF Surjection, Owners
    <2> QED
      BY <2>1, FS_Surjection, SocialGraphAssumption
  <1>2. x.taggers[t][l] \subseteq Owners
    BY DEF IndexType, TaggersType
  <1>3. Owners \subseteq Users
    BY SocialGraphAssumption DEF Owners
  <1> QED
    BY <1>1, <1>2, <1>3, FS_Subset, FS_CardinalityType

(* A synchronisation ranks one user for one label.                         *)
LEMMA SyncIndex ==
    ASSUME NEW x \in IndexType, NEW u \in Users, NEW l \in Labels
    PROVE  LET y == SyncIndexScore(x, u, l) IN
           /\ y \in IndexType
           /\ SameFollows(x, y) /\ SameTags(x, y) /\ SameMarks(x, y)
           /\ SameUsers(x, y) /\ SameScores(x, y) /\ SameCached(x, y)
           /\ \A v \in Users, m \in Labels : y.rank[m][v] =
                 IF v = u /\ m = l
                 THEN IF x.details[u] # NoUser /\ x.details[u].deleted THEN 0
                      ELSE Cardinality(x.taggers[u][l])
                 ELSE x.rank[m][v]
  <1> DEFINE n == IF x.details[u] # NoUser /\ x.details[u].deleted THEN 0
                  ELSE Cardinality(x.taggers[u][l])
  <1>1. n \in Nat
    BY TaggersFinite DEF Targets
  <1> DEFINE rk == [x.rank EXCEPT ![l][u] = n]
             y == SyncIndexScore(x, u, l)
  <1>2. y = [x EXCEPT !.rank = rk]
    BY DEF SyncIndexScore, IndexType
  <1> HIDE DEF n, y
  <1>3. /\ rk \in RankType
        /\ \A v \in Users, m \in Labels : rk[m][v] = IF v = u /\ m = l THEN n ELSE x.rank[m][v]
    BY <1>1 DEF IndexType, RankType
  <1> HIDE DEF rk
  <1>4. /\ y \in IndexType /\ y.rank = rk
        /\ SameFollows(x, y) /\ SameTags(x, y) /\ SameMarks(x, y)
        /\ SameUsers(x, y) /\ SameScores(x, y) /\ SameCached(x, y)
    BY <1>2, <1>3 DEF IndexType, SameFollows, SameTags, SameMarks, SameUsers, SameScores, SameCached
  <1> QED
    BY <1>3, <1>4 DEF n, y

(* The job of a loop that handles nothing.                                 *)
LEMMA IdleOK == Idle \in JobType /\ JobShape(Idle) /\ Idle.pc = "idle" /\ Idle.todo = {} /\ Idle.failed = FALSE
  <1>1. Idle \in JobType
    BY DEF Idle, JobType, Steps
  <1>2. JobShape(Idle)
    BY DEF Idle, JobShape, PutSteps, DelSteps, Joins, TodoOf
  <1> QED
    BY <1>1, <1>2 DEF Idle

(* A handler that goes on, or gives up, keeps the shape of the jobs.       *)
LEMMA Advance ==
    ASSUME JobsOK, NEW w \in Loops, Busy(w), NEW j \in JobType, JobShape(j),
           j = Idle \/ j.ev = job[w].ev,
           job' = [job EXCEPT ![w] = j], log' = log
    PROVE  JobsOK'
  <1>0. j = Idle => j.pc = "idle"
    BY IdleOK
  <1> HIDE DEF JobShape
  <1>1. job' \in [Loops -> JobType] /\ \A v \in Loops : JobShape(job'[v])
    BY DEF JobsOK
  <1>2. ASSUME NEW v \in Loops, job'[v].pc # "idle"
        PROVE  job[v].pc # "idle" /\ job'[v].ev = job[v].ev
    BY <1>0, <1>2 DEF Busy, JobsOK
  <1>3. ASSUME NEW v \in LiveLoops, job'[v].pc # "idle"
        PROVE  log'[v] # <<>> /\ job'[v].ev = Head(log'[v])
    BY <1>2, <1>3 DEF Busy, JobsOK, Loops
  <1>4. ASSUME job'[Retry].pc # "idle"
        PROVE  job'[Retry].ev.type = "put" /\ Deferrable(job'[Retry].ev.r)
    BY <1>2, <1>4 DEF Busy, Rec, JobsOK, Loops
  <1> QED
    BY <1>1, <1>3, <1>4 DEF JobsOK, Busy, Rec, JobShape, Deferrable

(* A loop that passes its event has the rest of its log.                   *)
LEMMA PassedOK ==
    ASSUME InputsOK, NEW w \in Loops, w # Retry => log[w] # <<>>
    PROVE  /\ Passed(w) \in [LiveLoops -> Seq(Event)]
           /\ \A v \in LiveLoops : v # w => Passed(w)[v] = log[v]
           /\ w # Retry => Len(Passed(w)[w]) = Len(log[w]) - 1 /\ Len(log[w]) \in Nat
           /\ w # Retry => \A i \in 1..Len(Passed(w)[w]) : Passed(w)[w][i] = log[w][i + 1]
           /\ \A v \in LiveLoops : \A i \in 1..Len(Passed(w)[v]) : Home[By[Passed(w)[v][i].r]] = v
  <1>1. CASE w = Retry
    BY <1>1, SocialHandlerAssumption DEF Passed, InputsOK, Retry
  <1>2. CASE w # Retry
    <2>1. w \in LiveLoops /\ log[w] \in Seq(Event) /\ log[w] # <<>>
      BY <1>2 DEF Loops, InputsOK
    <2> DEFINE t == Tail(log[w])
    <2>2. t \in Seq(Event) /\ Len(t) = Len(log[w]) - 1 /\ Len(log[w]) \in Nat /\ \A i \in 1..Len(t) : t[i] = log[w][i + 1]
      BY <2>1
    <2> HIDE DEF t
    <2>3. Passed(w) = [log EXCEPT ![w] = t]
      BY <1>2 DEF Passed, t, InputsOK
    <2>4. /\ Passed(w) \in [LiveLoops -> Seq(Event)]
          /\ \A v \in LiveLoops : v # w => Passed(w)[v] = log[v]
          /\ Passed(w)[w] = t
      BY <2>1, <2>2, <2>3 DEF InputsOK
    <2>5. ASSUME NEW i \in 1..Len(t) PROVE Home[By[t[i].r]] = w
      <3>1. i + 1 \in 1..Len(log[w]) /\ t[i] = log[w][i + 1]
        BY <2>2
      <3>2. Home[By[log[w][i + 1].r]] = w
        BY <2>1, <3>1 DEF InputsOK
      <3> QED
        BY <3>1, <3>2
    <2> QED
      BY <2>2, <2>4, <2>5, <1>2 DEF InputsOK
  <1> QED
    BY <1>1, <1>2

(* A loop that passes its event keeps the types.                           *)
LEMMA Leave ==
    ASSUME InputsOK, JobsOK, NEW w \in Loops, Busy(w),
           job' = [job EXCEPT ![w] = Idle], log' = Passed(w),
           queue' \subseteq {PutOf(r) : r \in {r \in Records : Deferrable(r)}},
           UNCHANGED <<hs, ops, faults, overlap>>
    PROVE  InputsOK' /\ JobsOK'
  <1>0. w # Retry => log[w] # <<>>
    BY DEF Loops, JobsOK
  <1>1. InputsOK'
    BY <1>0, PassedOK, ZenonT(60) DEF InputsOK, Blob, Deferrable, Ignored, Target, PutOf, Event
  <1> HIDE DEF JobShape
  <1>2. job' \in [Loops -> JobType] /\ \A v \in Loops : JobShape(job'[v])
    BY IdleOK DEF JobsOK
  <1>3. ASSUME NEW v \in Loops, job'[v].pc # "idle"
        PROVE  v # w /\ job'[v] = job[v]
    BY IdleOK, <1>3 DEF Busy, JobsOK
  <1>4. ASSUME NEW v \in LiveLoops, job'[v].pc # "idle"
        PROVE  log'[v] # <<>> /\ job'[v].ev = Head(log'[v])
    <2>1. v # w /\ job'[v] = job[v]
      BY <1>3, <1>4 DEF Loops
    <2>2. log'[v] = log[v]
      BY <2>1, <1>0, PassedOK
    <2> QED
      BY <2>1, <2>2, <1>4 DEF JobsOK, Busy
  <1>5. ASSUME job'[Retry].pc # "idle"
        PROVE  job'[Retry].ev.type = "put" /\ Deferrable(job'[Retry].ev.r)
    BY <1>3, <1>5 DEF Busy, Rec, JobsOK, Loops
  <1> QED
    BY <1>1, <1>2, <1>4, <1>5 DEF JobsOK, Busy, Rec, JobShape, Deferrable

(* An event that is finished.                                              *)
LEMMA FinishOK ==
    ASSUME InputsOK, JobsOK, NEW w \in Loops, Busy(w), Finish(w)
    PROVE  InputsOK' /\ JobsOK'
  BY Leave DEF Finish, InputsOK

(* A step that goes through or fails.                                      *)
LEMMA ProceedOK ==
    ASSUME InputsOK, JobsOK, NEW w \in Loops, Busy(w), NEW ok \in BOOLEAN, NEW j,
           ok => j \in JobType /\ JobShape(j) /\ j.ev = job[w].ev,
           Proceed(w, ok, j)
    PROVE  InputsOK' /\ JobsOK'
  <1>1. InputsOK'
    BY DEF InputsOK, Proceed, inputs
  <1>2. log' = log
    BY DEF Proceed, inputs
  <1>3. PICK i : /\ i \in {j, Idle} /\ job' = [job EXCEPT ![w] = i]
                 /\ i \in JobType /\ JobShape(i) /\ (i = Idle \/ i.ev = job[w].ev)
    BY IdleOK DEF Proceed
  <1> QED
    BY <1>1, <1>2, <1>3, Advance

(* A profile is written to the graph.                                      *)
LEMMA CreateUserGraph ==
    ASSUME NEW g \in GraphType, NEW u \in Users, NEW d \in Profile
    PROVE  LET h == CreateUser(g, u, d) IN
           /\ h \in GraphType
           /\ h.hosted = g.hosted /\ h.posts = g.posts /\ h.follows = g.follows
           /\ h.tags = g.tags /\ h.bookmarks = g.bookmarks /\ h.files = g.files
           /\ \A v \in Users : h.user[v] = IF v = u THEN d ELSE g.user[v]
  BY DEF CreateUser, GraphType

(* A missing user is looked up and, if unknown, ingested.                  *)
LEMMA IngestUserGraph ==
    ASSUME NEW g \in GraphType, NEW x \in IndexType, NEW u \in Users
    PROVE  LET h == IngestGraph(g, x, u) IN
           /\ h \in GraphType
           /\ h.posts = g.posts /\ h.follows = g.follows
           /\ h.tags = g.tags /\ h.bookmarks = g.bookmarks /\ h.files = g.files
           /\ \A v \in Users : h.user[v] =
                 IF v = u /\ FillUser(x, g, u).details[u] = NoUser THEN FromPubky ELSE g.user[v]
  <1>1. FromPubky \in Profile
    BY DEF FromPubky, Profile
  <1> DEFINE c == CreateUser(g, u, FromPubky)
             h == [c EXCEPT !.hosted = c.hosted \cup {u}]
  <1>2. /\ c \in GraphType
        /\ c.hosted = g.hosted /\ c.posts = g.posts /\ c.follows = g.follows
        /\ c.tags = g.tags /\ c.bookmarks = g.bookmarks /\ c.files = g.files
        /\ \A v \in Users : c.user[v] = IF v = u THEN FromPubky ELSE g.user[v]
    BY <1>1, CreateUserGraph
  <1> HIDE DEF c
  <1>3. /\ h \in GraphType
        /\ h.posts = g.posts /\ h.follows = g.follows
        /\ h.tags = g.tags /\ h.bookmarks = g.bookmarks /\ h.files = g.files
        /\ h.user = c.user
    BY <1>2 DEF GraphType
  <1>4. IngestGraph(g, x, u) = IF FillUser(x, g, u).details[u] # NoUser THEN g ELSE h
    BY DEF IngestGraph, c
  <1> HIDE DEF h
  <1> QED
    BY <1>2, <1>3, <1>4

(* A user is removed with every edge, and every post, of theirs.           *)
LEMMA DeleteUserGraph ==
    ASSUME NEW g \in GraphType, NEW u \in Users
    PROVE  LET h == DeleteUser(g, u) IN
           /\ h \in GraphType
           /\ h.posts = {p \in g.posts : Author[p] # u}
           /\ h.follows = {e \in g.follows : u \notin {e[1], e[2]}}
           /\ h.tags = {e \in g.tags : u \notin {e.by, e.to}}
           /\ h.bookmarks = {e \in g.bookmarks : e[1] # u}
           /\ h.files = g.files
           /\ \A v \in Users : h.user[v] = IF v = u THEN NoUser ELSE g.user[v]
  BY DEF DeleteUser, GraphType

(* A file is stored or removed.                                            *)
LEMMA FileGraph ==
    ASSUME NEW g \in GraphType, NEW r \in Of("file"), NEW h \in {CreateFile(g, r), DeleteFile(g, r)}
    PROVE  /\ h \in GraphType
           /\ h.user = g.user /\ h.posts = g.posts /\ h.follows = g.follows
           /\ h.tags = g.tags /\ h.bookmarks = g.bookmarks
           /\ h = CreateFile(g, r) => h.files = g.files \cup {r}
           /\ h = DeleteFile(g, r) => h.files = g.files \ {r}
  <1>1. CASE h = CreateFile(g, r)
    BY <1>1 DEF CreateFile, DeleteFile, GraphType
  <1>2. CASE h = DeleteFile(g, r)
    BY <1>2 DEF CreateFile, DeleteFile, GraphType
  <1> QED
    BY <1>1, <1>2

StoreEdge(g, r) ==
    CASE Kind[r] = "follow" -> CreateFollow(g, r)
      [] Kind[r] = "tag" -> CreateTag(g, r)
      [] Kind[r] = "bookmark" -> CreateBookmark(g, r)
DropEdge(g, r, e) ==
    CASE Kind[r] = "follow" -> DeleteFollow(g, r)
      [] Kind[r] = "tag" -> DeleteTag(g, e)
      [] Kind[r] = "bookmark" -> DeleteBookmark(g, r)

(* An edge is merged into the graph.                                       *)
LEMMA CreateEdgeGraph ==
    ASSUME NEW g \in GraphType, NEW r \in Records, ~Ignored(r),
           Kind[r] \in {"follow", "tag", "bookmark"}
    PROVE  LET h == StoreEdge(g, r) IN
           /\ h \in GraphType
           /\ h.user = g.user /\ h.posts = g.posts /\ h.files = g.files
           /\ h.follows = IF Kind[r] = "follow" THEN g.follows \cup {Pair(r)} ELSE g.follows
           /\ h.tags = IF Kind[r] = "tag" THEN g.tags \cup {TagEdge(r)} ELSE g.tags
           /\ h.bookmarks = IF Kind[r] = "bookmark" THEN g.bookmarks \cup {Pair(r)} ELSE g.bookmarks
  <1>1. CASE Kind[r] = "follow"
    BY <1>1 DEF StoreEdge, CreateFollow, GraphType, Of, Pair
  <1>2. CASE Kind[r] = "tag"
    BY <1>2 DEF StoreEdge, CreateTag, GraphType, Of, Edges
  <1>3. CASE Kind[r] = "bookmark"
    BY <1>3 DEF StoreEdge, CreateBookmark, GraphType, Of, Pair
  <1> QED
    BY <1>1, <1>2, <1>3

(* An edge is removed from the graph.                                      *)
LEMMA DeleteEdgeGraph ==
    ASSUME NEW g \in GraphType, NEW r \in Records, NEW e \in Edges \cup {Nothing},
           Kind[r] \in {"follow", "tag", "bookmark"}
    PROVE  LET h == DropEdge(g, r, e) IN
           /\ h \in GraphType
           /\ h.user = g.user /\ h.posts = g.posts /\ h.files = g.files
           /\ h.follows = IF Kind[r] = "follow" THEN g.follows \ {Pair(r)} ELSE g.follows
           /\ h.tags = IF Kind[r] = "tag" THEN g.tags \ {e} ELSE g.tags
           /\ h.bookmarks = IF Kind[r] = "bookmark" THEN g.bookmarks \ {Pair(r)} ELSE g.bookmarks
  <1>1. CASE Kind[r] = "follow"
    BY <1>1 DEF DropEdge, DeleteFollow, GraphType, Of, Pair
  <1>2. CASE Kind[r] = "tag"
    BY <1>2 DEF DropEdge, DeleteTag, GraphType, Of, Edges
  <1>3. CASE Kind[r] = "bookmark"
    BY <1>3 DEF DropEdge, DeleteBookmark, GraphType, Of, Pair
  <1> QED
    BY <1>1, <1>2, <1>3

(* A tag record stands for its own edge.                                   *)
LEMMA TargetOfTag ==
    ASSUME NEW g \in GraphType, NEW r \in Of("tag")
    PROVE  TagTarget(g, r) = IF TagEdge(r) \in g.tags THEN {TagEdge(r)} ELSE {}
  <1> DEFINE own    == [by |-> By[r], to |-> To[r], label |-> Label[r], app |-> App[r]]
             shared == [own EXCEPT !.app = NoApp]
  <1>1. shared = [by |-> By[r], to |-> To[r], label |-> Label[r], app |-> NoApp]
    OBVIOUS
  <1>2. TagTarget(g, r) = IF own \in g.tags THEN {own}
          ELSE IF shared \in g.tags /\ Target(r) \in {"post", "user"} THEN {shared} ELSE {}
    BY DEF TagTarget
  <1>3. Target(r) \in {"post", "user", "resource"}
    BY DEF Of, Ignored, Target
  <1>4. ASSUME own \in g.tags, Target(r) # "resource"
        PROVE  App[r] = NoApp
    <2>1. PICK s \in Of("tag") : own = TagEdge(s)
      BY <1>4 DEF GraphType, Edges
    <2>2. To[s] = To[r] /\ App[r] = IF Target(s) = "resource" THEN App[s] ELSE NoApp
      BY <2>1 DEF TagEdge
    <2> QED
      BY <2>2, <1>3, <1>4 DEF Target
  <1>5. CASE Target(r) = "resource"
    BY <1>2, <1>5 DEF TagEdge
  <1>6. CASE Target(r) # "resource"
    BY <1>1, <1>2, <1>3, <1>4, <1>6 DEF TagEdge
  <1> QED
    BY <1>5, <1>6

-----------------------------------------------------------------------------
(* The search records of a user are replaced, up to write k.               *)
LEMMA SearchIndex ==
    ASSUME NEW x \in IndexType, NEW u \in Users, NEW d \in Profile, NEW k \in 0..4
    PROVE  LET y == PutSearch(x, u, d, k) IN
           /\ y \in IndexType
           /\ SameFollows(x, y) /\ SameTags(x, y) /\ SameRank(x, y) /\ SameMarks(x, y)
           /\ SameScores(x, y) /\ SameCached(x, y) /\ y.details = x.details
           /\ \A n, v : <<n, v>> \in y.names <=>
                \/ k >= 3 /\ ~d.deleted /\ v = u /\ n = d.name
                \/ <<n, v>> \in x.names
                   /\ ~(k >= 1 /\ x.details[u] # NoUser /\ v = u /\ n = x.details[u].name)
  <1> DEFINE m0 == IF k >= 1 /\ x.details[u] # NoUser THEN x.names \ {<<x.details[u].name, u>>} ELSE x.names
             i0 == IF k >= 2 THEN x.ids \ {u} ELSE x.ids
             m1 == IF k >= 3 /\ ~d.deleted THEN m0 \cup {<<d.name, u>>} ELSE m0
             i1 == IF k >= 4 /\ ~d.deleted THEN i0 \cup {u} ELSE i0
             z == DeleteExistingRecords(x, u, k)
             y == PutSearch(x, u, d, k)
  <1>1. z = [x EXCEPT !.names = m0, !.ids = i0]
    BY DEF DeleteExistingRecords, IndexType
  <1>2. m0 \in NamesType /\ i0 \in SUBSET Users /\ m1 \in NamesType /\ i1 \in SUBSET Users
    BY DEF IndexType, NamesType, Profile
  <1>3. \A n, v : <<n, v>> \in m1 <=>
                \/ k >= 3 /\ ~d.deleted /\ v = u /\ n = d.name
                \/ <<n, v>> \in x.names
                   /\ ~(k >= 1 /\ x.details[u] # NoUser /\ v = u /\ n = x.details[u].name)
    BY DEF IndexType
  <1>4. y = [z EXCEPT !.names = IF k >= 3 /\ ~d.deleted THEN z.names \cup {<<d.name, u>>} ELSE z.names,
                      !.ids = IF k >= 4 /\ ~d.deleted THEN z.ids \cup {u} ELSE z.ids]
    BY DEF PutSearch
  <1> HIDE DEF m0, i0, z, y
  <1>5. z.names = m0 /\ z.ids = i0 /\ z = [x EXCEPT !.names = m0, !.ids = i0]
    BY <1>1 DEF IndexType
  <1>6. y = [z EXCEPT !.names = m1, !.ids = i1]
    BY <1>4, <1>5
  <1> HIDE DEF m1, i1
  <1>7. /\ y \in IndexType /\ y.names = m1 /\ y.details = x.details
        /\ SameFollows(x, y) /\ SameTags(x, y) /\ SameRank(x, y) /\ SameMarks(x, y)
        /\ SameScores(x, y) /\ SameCached(x, y)
    BY <1>2, <1>5, <1>6 DEF IndexType, SameFollows, SameTags, SameRank, SameMarks, SameScores, SameCached
  <1> QED
    BY <1>3, <1>7 DEF y

(* The search records of a user are removed, up to write k.                *)
LEMMA UnsearchIndex ==
    ASSUME NEW x \in IndexType, NEW u \in Users, NEW k \in 0..2
    PROVE  LET y == DeleteExistingRecords(x, u, k) IN
           /\ y \in IndexType
           /\ SameFollows(x, y) /\ SameTags(x, y) /\ SameRank(x, y) /\ SameMarks(x, y)
           /\ SameScores(x, y) /\ SameCached(x, y) /\ y.details = x.details
           /\ \A n, v : <<n, v>> \in y.names <=>
                <<n, v>> \in x.names
                   /\ ~(k >= 1 /\ x.details[u] # NoUser /\ v = u /\ n = x.details[u].name)
  <1> DEFINE m0 == IF k >= 1 /\ x.details[u] # NoUser THEN x.names \ {<<x.details[u].name, u>>} ELSE x.names
             i0 == IF k >= 2 THEN x.ids \ {u} ELSE x.ids
             y == DeleteExistingRecords(x, u, k)
  <1>1. y = [x EXCEPT !.names = m0, !.ids = i0]
    BY DEF DeleteExistingRecords, IndexType
  <1>2. m0 \in NamesType /\ i0 \in SUBSET Users
    BY DEF IndexType, NamesType
  <1>3. \A n, v : <<n, v>> \in m0 <=> <<n, v>> \in x.names
                   /\ ~(k >= 1 /\ x.details[u] # NoUser /\ v = u /\ n = x.details[u].name)
    BY DEF IndexType
  <1> HIDE DEF m0, i0, y
  <1>4. /\ y \in IndexType /\ y.names = m0 /\ y.details = x.details
        /\ SameFollows(x, y) /\ SameTags(x, y) /\ SameRank(x, y) /\ SameMarks(x, y)
        /\ SameScores(x, y) /\ SameCached(x, y)
    BY <1>1, <1>2 DEF IndexType, SameFollows, SameTags, SameRank, SameMarks, SameScores, SameCached
  <1> QED
    BY <1>3, <1>4 DEF y

(* The cached profile of a user is written or removed.                     *)
LEMMA DetailsIndex ==
    ASSUME NEW x \in IndexType, NEW u \in Users, NEW d \in Profile \cup {NoUser}
    PROVE  LET y == [x EXCEPT !.details[u] = d] IN
           /\ y \in IndexType
           /\ SameFollows(x, y) /\ SameTags(x, y) /\ SameRank(x, y) /\ SameMarks(x, y)
           /\ SameScores(x, y) /\ SameCached(x, y) /\ y.names = x.names
           /\ \A v \in Users : y.details[v] = IF v = u THEN d ELSE x.details[v]
  <1> DEFINE ds == [x.details EXCEPT ![u] = d]
             y == [x EXCEPT !.details[u] = d]
  <1>1. y = [x EXCEPT !.details = ds]
    BY DEF IndexType
  <1>2. ds \in DetailsType /\ \A v \in Users : ds[v] = IF v = u THEN d ELSE x.details[v]
    BY DEF IndexType, DetailsType
  <1> HIDE DEF ds, y
  <1>3. /\ y \in IndexType /\ y.details = ds /\ y.names = x.names
        /\ SameFollows(x, y) /\ SameTags(x, y) /\ SameRank(x, y) /\ SameMarks(x, y)
        /\ SameScores(x, y) /\ SameCached(x, y)
    BY <1>1, <1>2 DEF IndexType, SameFollows, SameTags, SameRank, SameMarks, SameScores, SameCached
  <1> QED
    BY <1>2, <1>3 DEF y

(* A reader that misses the cached profile fills it in.                    *)
LEMMA FillUserIndex ==
    ASSUME NEW x \in IndexType, NEW g \in GraphType, NEW u \in Users
    PROVE  LET y == FillUser(x, g, u)
               miss == x.details[u] = NoUser /\ UserExists(g, u) IN
           /\ y \in IndexType
           /\ SameFollows(x, y) /\ SameTags(x, y) /\ SameRank(x, y) /\ SameMarks(x, y)
           /\ SameScores(x, y) /\ SameCached(x, y)
           /\ \A v \in Users : y.details[v] = IF v = u /\ miss THEN g.user[u] ELSE x.details[v]
           /\ \A n, v : <<n, v>> \in y.names <=>
                IF miss /\ v = u /\ n = g.user[u].name THEN ~g.user[u].deleted ELSE <<n, v>> \in x.names
           /\ ~miss => y = x
  <1> DEFINE y == FillUser(x, g, u)
             d == g.user[u]
             z == [x EXCEPT !.details[u] = d]
  <1>1. CASE ~(x.details[u] = NoUser /\ UserExists(g, u))
    BY <1>1 DEF FillUser, SameFollows, SameTags, SameRank, SameMarks, SameScores, SameCached
  <1>2. CASE x.details[u] = NoUser /\ UserExists(g, u)
    <2>1. d \in Profile
      BY <1>2 DEF GraphType, UserExists
    <2>2. y = PutSearch(z, u, d, 4)
      BY <1>2 DEF FillUser
    <2>3. /\ z \in IndexType
          /\ SameFollows(x, z) /\ SameTags(x, z) /\ SameRank(x, z) /\ SameMarks(x, z)
          /\ SameScores(x, z) /\ SameCached(x, z) /\ z.names = x.names
          /\ \A v \in Users : z.details[v] = IF v = u THEN d ELSE x.details[v]
      BY <2>1, DetailsIndex
    <2> HIDE DEF y, z, d
    <2>4. /\ y \in IndexType
          /\ SameFollows(z, y) /\ SameTags(z, y) /\ SameRank(z, y) /\ SameMarks(z, y)
          /\ SameScores(z, y) /\ SameCached(z, y) /\ y.details = z.details
          /\ \A n, v : <<n, v>> \in y.names <=>
                \/ 4 >= 3 /\ ~d.deleted /\ v = u /\ n = d.name
                \/ <<n, v>> \in z.names
                   /\ ~(4 >= 1 /\ z.details[u] # NoUser /\ v = u /\ n = z.details[u].name)
      <3>1. 4 \in 0..4
        OBVIOUS
      <3> QED
        BY <2>1, <2>2, <2>3, <3>1, SearchIndex, ZenonT(60)
    <2>5. d # NoUser
      BY <1>2 DEF UserExists, d
    <2>6. /\ SameFollows(x, y) /\ SameTags(x, y) /\ SameRank(x, y) /\ SameMarks(x, y)
          /\ SameScores(x, y) /\ SameCached(x, y)
      BY <2>3, <2>4 DEF SameFollows, SameTags, SameRank, SameMarks, SameScores, SameCached
    <2>7. \A v \in Users : y.details[v] = IF v = u THEN d ELSE x.details[v]
      BY <2>3, <2>4
    <2>8. \A n, v : <<n, v>> \in y.names <=>
                IF v = u /\ n = d.name THEN ~d.deleted ELSE <<n, v>> \in x.names
      <3>1. d.deleted \in BOOLEAN /\ z.details[u] = d
        BY <2>1, <2>3 DEF Profile
      <3>2. SUFFICES ASSUME NEW n, NEW v
                     PROVE  <<n, v>> \in y.names <=>
                              IF v = u /\ n = d.name THEN ~d.deleted ELSE <<n, v>> \in x.names
        OBVIOUS
      <3>3. <<n, v>> \in y.names <=>
                \/ ~d.deleted /\ v = u /\ n = d.name
                \/ <<n, v>> \in x.names /\ ~(v = u /\ n = d.name)
        BY <2>3, <2>4, <2>5, <3>1
      <3> QED
        BY <3>1, <3>3
    <2> QED
      BY <1>2, <2>4, <2>6, <2>7, <2>8 DEF y, d
  <1> QED
    BY <1>1, <1>2

(* A reader that misses the sets of follows fills them in.                 *)
LEMMA FillFollowsIndex ==
    ASSUME NEW x \in IndexType, NEW g \in GraphType, NEW u \in Users
    PROVE  LET y == FillFollows(x, g, u) IN
           /\ y \in IndexType
           /\ SameTags(x, y) /\ SameRank(x, y) /\ SameMarks(x, y)
           /\ SameUsers(x, y) /\ SameScores(x, y) /\ SameCached(x, y)
           /\ \A v \in Users :
                /\ y.followers[v] = IF v = u /\ x.followers[v] = {} THEN Followers(g, u) ELSE x.followers[v]
                /\ y.following[v] = IF v = u /\ x.following[v] = {} THEN Following(g, u) ELSE x.following[v]
  <1> DEFINE y == FillFollows(x, g, u)
             fr == [x.followers EXCEPT ![u] = IF x.followers[u] = {} THEN Followers(g, u) ELSE x.followers[u]]
             fg == [x.following EXCEPT ![u] = IF x.following[u] = {} THEN Following(g, u) ELSE x.following[u]]
  <1>1. y = [x EXCEPT !.followers = fr, !.following = fg]
    BY DEF FillFollows, IndexType
  <1>2. /\ fr \in FollowsType /\ fg \in FollowsType
        /\ \A v \in Users :
             /\ fr[v] = IF v = u /\ x.followers[v] = {} THEN Followers(g, u) ELSE x.followers[v]
             /\ fg[v] = IF v = u /\ x.following[v] = {} THEN Following(g, u) ELSE x.following[v]
    BY DEF IndexType, FollowsType, Followers, Following
  <1> HIDE DEF fr, fg, y
  <1>3. /\ y \in IndexType /\ y.followers = fr /\ y.following = fg
        /\ SameTags(x, y) /\ SameRank(x, y) /\ SameMarks(x, y)
        /\ SameUsers(x, y) /\ SameScores(x, y) /\ SameCached(x, y)
    BY <1>1, <1>2 DEF IndexType, SameTags, SameRank, SameMarks, SameUsers, SameScores, SameCached
  <1> QED
    BY <1>2, <1>3 DEF y

(* A bookmark is written to the index, or removed, up to write k.          *)
LEMMA MarkIndex ==
    ASSUME NEW x \in IndexType, NEW u \in Users, NEW p \in Posts, NEW k \in 0..2,
           NEW y \in {PutBookmark(x, u, p, k), DelBookmark(x, u, p, k)}
    PROVE  /\ y \in IndexType
           /\ SameFollows(x, y) /\ SameTags(x, y) /\ SameRank(x, y)
           /\ SameUsers(x, y) /\ SameScores(x, y) /\ SameCached(x, y)
           /\ y = PutBookmark(x, u, p, k) =>
                /\ y.marks = IF k >= 1 THEN x.marks \cup {<<u, p>>} ELSE x.marks
                /\ y.marked = IF k >= 2 THEN x.marked \cup {<<u, p>>} ELSE x.marked
           /\ y = DelBookmark(x, u, p, k) =>
                /\ y.marks = IF k >= 1 THEN x.marks \ {<<u, p>>} ELSE x.marks
                /\ y.marked = IF k >= 2 THEN x.marked \ {<<u, p>>} ELSE x.marked
  <1> USE DEF SameFollows, SameTags, SameRank, SameUsers, SameScores, SameCached
  <1> DEFINE P == PutBookmark(x, u, p, k)
             D == DelBookmark(x, u, p, k)
  <1>1. /\ P \in IndexType
        /\ SameFollows(x, P) /\ SameTags(x, P) /\ SameRank(x, P)
        /\ SameUsers(x, P) /\ SameScores(x, P) /\ SameCached(x, P)
        /\ P.marks = IF k >= 1 THEN x.marks \cup {<<u, p>>} ELSE x.marks
        /\ P.marked = IF k >= 2 THEN x.marked \cup {<<u, p>>} ELSE x.marked
    <2> DEFINE m == IF k >= 1 THEN x.marks \cup {<<u, p>>} ELSE x.marks
               d == IF k >= 2 THEN x.marked \cup {<<u, p>>} ELSE x.marked
    <2>1. m \in MarksType /\ d \in MarksType
      BY DEF IndexType, MarksType
    <2>2. P = [x EXCEPT !.marks = m, !.marked = d]
      BY DEF PutBookmark
    <2> HIDE DEF m, d, P
    <2>3. /\ P \in IndexType
          /\ SameFollows(x, P) /\ SameTags(x, P) /\ SameRank(x, P)
          /\ SameUsers(x, P) /\ SameScores(x, P) /\ SameCached(x, P)
          /\ P.marks = m /\ P.marked = d
      BY <2>1, <2>2 DEF IndexType
    <2> QED
      BY <2>3 DEF m, d
  <1>2. /\ D \in IndexType
        /\ SameFollows(x, D) /\ SameTags(x, D) /\ SameRank(x, D)
        /\ SameUsers(x, D) /\ SameScores(x, D) /\ SameCached(x, D)
        /\ D.marks = IF k >= 1 THEN x.marks \ {<<u, p>>} ELSE x.marks
        /\ D.marked = IF k >= 2 THEN x.marked \ {<<u, p>>} ELSE x.marked
    BY ZenonT(60) DEF DelBookmark, IndexType, MarksType
  <1> HIDE DEF P, D, SameFollows, SameTags, SameRank, SameUsers, SameScores, SameCached
  <1>3. CASE y = P
    BY <1>1, <1>2, <1>3 DEF P, D
  <1>4. CASE y = D
    BY <1>1, <1>2, <1>4 DEF P, D
  <1> QED
    BY <1>3, <1>4 DEF P, D

Unlists(x, p, l, k) == k >= 1 /\ x.taggers[p][l] = {}

(* A post without taggers for a label leaves the posts of that label.      *)
LEMMA UnlistIndex ==
    ASSUME NEW x \in IndexType, NEW p \in Posts, NEW l \in Labels, NEW k \in 0..2
    PROVE  LET y == DelPostByTag(x, p, l, k) IN
           /\ y \in IndexType
           /\ SameFollows(x, y) /\ SameRank(x, y) /\ SameMarks(x, y)
           /\ SameUsers(x, y) /\ SameScores(x, y) /\ SameCached(x, y) /\ y.taggers = x.taggers
           /\ \A m \in Labels : y.posts[m] =
                IF m = l /\ Unlists(x, p, l, k) THEN x.posts[m] \ {p} ELSE x.posts[m]
  <1> DEFINE ps == IF Unlists(x, p, l, k) THEN [x.posts EXCEPT ![l] = x.posts[l] \ {p}] ELSE x.posts
             z == [x EXCEPT !.posts = ps]
             lb == IF k >= 2 /\ z.posts[l] = {} THEN z.labels \ {l} ELSE z.labels
             y == DelPostByTag(x, p, l, k)
  <1>1. ps \in PostsType
    BY DEF IndexType, PostsType
  <1>2. \A m \in Labels : ps[m] =
          IF m = l /\ Unlists(x, p, l, k) THEN x.posts[m] \ {p} ELSE x.posts[m]
    BY DEF IndexType, PostsType
  <1>3. z \in IndexType /\ lb \in SUBSET Labels
    BY <1>1 DEF IndexType
  <1>4. y = [z EXCEPT !.labels = lb]
    BY DEF DelPostByTag, Unlists, IndexType
  <1> HIDE DEF ps, lb, y
  <1>5. /\ y \in IndexType /\ y.posts = ps /\ y.taggers = x.taggers
        /\ SameFollows(x, y) /\ SameRank(x, y) /\ SameMarks(x, y)
        /\ SameUsers(x, y) /\ SameScores(x, y) /\ SameCached(x, y)
    BY <1>3, <1>4 DEF IndexType, SameFollows, SameRank, SameMarks, SameUsers, SameScores, SameCached
  <1> QED
    BY <1>2, <1>5 DEF y
Unlisted(x, t) == \A l \in Labels : x.score[t][l] = NoScore

(* A reader that misses the tags of a target fills them in.                *)
LEMMA FillTagsIndex ==
    ASSUME NEW x \in IndexType, NEW g \in GraphType, NEW t \in Targets
    PROVE  LET y == FillTags(x, g, t)
               miss == Unlisted(x, t) IN
           /\ y \in IndexType
           /\ SameFollows(x, y) /\ SameRank(x, y) /\ SameMarks(x, y)
           /\ SameUsers(x, y) /\ SameCached(x, y)
           /\ y.posts = x.posts /\ y.byTag = x.byTag /\ y.stream = x.stream
           /\ \A s \in Targets, l \in Labels :
                /\ y.taggers[s][l] = IF s = t /\ miss THEN x.taggers[s][l] \cup Taggers(g, s, l)
                                     ELSE x.taggers[s][l]
                /\ y.score[s][l] = IF s = t /\ miss
                     THEN IF Taggers(g, s, l) = {} THEN NoScore ELSE Cardinality(Taggers(g, s, l))
                     ELSE x.score[s][l]
  <1> DEFINE y == FillTags(x, g, t)
             miss == Unlisted(x, t)
  <1>0. ASSUME NEW l \in Labels
        PROVE  /\ Taggers(g, t, l) \subseteq Owners
               /\ IsFiniteSet(Taggers(g, t, l)) /\ Cardinality(Taggers(g, t, l)) \in Nat
    <2>1. Taggers(g, t, l) \subseteq Owners
      BY DEF Taggers, GraphType, Edges, TagEdge, Of, Owners
    <2>2. By \in Surjection(Records, Owners)
      BY SocialGraphAssumption DEF Surjection, Owners
    <2>3. IsFiniteSet(Owners)
      BY <2>2, FS_Surjection, SocialGraphAssumption
    <2> QED
      BY <2>1, <2>3, FS_Subset, FS_CardinalityType
  <1>1. CASE ~miss
    BY <1>1 DEF FillTags, Unlisted, SameFollows, SameRank, SameMarks, SameUsers, SameCached
  <1>2. CASE miss
    <2> DEFINE sc == [x.score EXCEPT ![t] = [l \in Labels |->
                        IF Taggers(g, t, l) = {} THEN NoScore ELSE Cardinality(Taggers(g, t, l))]]
               tg == [x.taggers EXCEPT ![t] = [l \in Labels |-> x.taggers[t][l] \cup Taggers(g, t, l)]]
    <2>1. y = [x EXCEPT !.score = sc, !.taggers = tg]
      BY <1>2 DEF FillTags, Unlisted, IndexType
    <2>2. /\ sc \in ScoresType
          /\ \A s \in Targets, l \in Labels : sc[s][l] = IF s = t
               THEN IF Taggers(g, s, l) = {} THEN NoScore ELSE Cardinality(Taggers(g, s, l))
               ELSE x.score[s][l]
      BY <1>0 DEF IndexType, ScoresType, Score
    <2>3. /\ tg \in TaggersType
          /\ \A s \in Targets, l \in Labels :
               tg[s][l] = IF s = t THEN x.taggers[s][l] \cup Taggers(g, s, l) ELSE x.taggers[s][l]
      BY <1>0 DEF IndexType, TaggersType
    <2> HIDE DEF sc, tg, y
    <2>4. /\ y \in IndexType /\ y.score = sc /\ y.taggers = tg
          /\ SameFollows(x, y) /\ SameRank(x, y) /\ SameMarks(x, y)
          /\ SameUsers(x, y) /\ SameCached(x, y)
          /\ y.posts = x.posts /\ y.byTag = x.byTag /\ y.stream = x.stream
      BY <2>1, <2>2, <2>3 DEF IndexType, SameFollows, SameRank, SameMarks, SameUsers, SameCached
    <2> HIDE DEF miss
    <2> QED
      BY <1>2, <2>2, <2>3, <2>4 DEF y, miss
  <1> QED
    BY <1>1, <1>2

(* A cached count of a post is written or dropped.                         *)
LEMMA CachedIndex ==
    ASSUME NEW x \in IndexType, NEW p \in Posts, NEW n \in Nat \cup {NoScore}
    PROVE  LET y == [x EXCEPT !.counts[p] = n] IN
           /\ y \in IndexType
           /\ SameFollows(x, y) /\ SameTags(x, y) /\ SameRank(x, y) /\ SameMarks(x, y)
           /\ SameUsers(x, y) /\ SameScores(x, y)
           /\ \A q \in Posts : y.counts[q] = IF q = p THEN n ELSE x.counts[q]
  BY DEF IndexType, CountsType, SameFollows, SameTags, SameRank, SameMarks, SameUsers, SameScores

(* A post enters the stream by engagement.                                 *)
LEMMA StreamIndex ==
    ASSUME NEW x \in IndexType, NEW p \in Posts
    PROVE  LET y == [x EXCEPT !.stream[p] = IF IsReply[p] THEN @ ELSE 0] IN
           /\ y \in IndexType
           /\ SameFollows(x, y) /\ SameTags(x, y) /\ SameRank(x, y) /\ SameMarks(x, y)
           /\ SameUsers(x, y) /\ SameCached(x, y) /\ y.score = x.score /\ y.byTag = x.byTag
           /\ \A q \in Posts : y.stream[q] = IF q = p /\ ~IsReply[p] THEN 0 ELSE x.stream[q]
  BY DEF IndexType, StreamType, Score, SameFollows, SameTags, SameRank, SameMarks, SameUsers, SameCached

(* The three ways a profile comes about.                                   *)
LEMMA Bodies ==
    /\ \A n \in Names : /\ FromHomeserver(n) \in Profile /\ FromHomeserver(n) # NoUser
                        /\ ~FromHomeserver(n).deleted /\ FromHomeserver(n).name = n
    /\ Tombstone \in Profile /\ Tombstone # NoUser /\ Tombstone.deleted
    /\ FromPubky \in Profile /\ FromPubky # NoUser /\ ~FromPubky.deleted
  <1>1. /\ \A n \in Names : /\ FromHomeserver(n) \in Profile
                            /\ ~FromHomeserver(n).deleted /\ FromHomeserver(n).name = n
        /\ Tombstone \in Profile /\ Tombstone.deleted
        /\ FromPubky \in Profile /\ ~FromPubky.deleted
    BY DEF Profile, FromHomeserver, Tombstone, FromPubky
  <1> QED
    BY <1>1, SocialGraphAssumption

(* What a busy loop handles.                                               *)
LEMMA AtBusy ==
    ASSUME TypeOK, NEW w \in Loops, Busy(w)
    PROVE  /\ job[w] \in JobType /\ JobShape(job[w]) /\ job[w].ev \in Event
           /\ Rec(w) \in Records /\ By[Rec(w)] \in Users
           /\ job[w].ev.r = Rec(w) /\ job[w].ev.type \in {"put", "del"}
           /\ job[w].ev = [type |-> job[w].ev.type, r |-> Rec(w)]
           /\ Kind[Rec(w)] \in {"follow", "tag", "bookmark", "profile", "file"}
           /\ job[w].body \in Profile \cup {NoUser}
           /\ Kind[Rec(w)] = "tag" => Label[Rec(w)] \in Labels
           /\ Target(Rec(w)) = "post" <=> To[Rec(w)] \in Posts
           /\ Target(Rec(w)) = "user" <=> To[Rec(w)] \in Users
  <1>1. job[w] \in JobType /\ JobShape(job[w])
    BY DEF TypeOK, JobsOK
  <1>2. job[w].ev \in Event
    BY <1>1 DEF Busy, JobShape
  <1> QED
    BY <1>1, <1>2, SocialGraphAssumption DEF Event, Rec, JobType, Target

(* The job after a step.                                                   *)
LEMMA GotoOK ==
    ASSUME TypeOK, NEW w \in Loops, Busy(w), NEW l \in Steps, job[w].pc \notin Joins
    PROVE  /\ Goto(w, l) \in JobType /\ Goto(w, l).ev = job[w].ev /\ Goto(w, l).pc = l
           /\ Goto(w, l).todo = {} /\ Goto(w, l).body = job[w].body /\ Goto(w, l).edge = job[w].edge
           /\ Goto(w, l).labels = job[w].labels /\ Goto(w, l).failed = job[w].failed
           /\ Goto(w, l).known = job[w].known /\ Goto(w, l).friends = job[w].friends
  <1>1. job[w] \in JobType /\ JobShape(job[w])
    BY AtBusy
  <1>2. job[w].todo = {}
    BY <1>1 DEF JobShape
  <1> QED
    BY <1>1, <1>2 DEF Goto, JobType

(* A step that goes through or fails keeps the types, when the stores do.  *)
LEMMA StepOK ==
    ASSUME TypeOK, StoresOK', NEW w \in Loops, Busy(w), NEW ok \in BOOLEAN, NEW l \in Steps,
           job[w].pc \notin Joins, ok => JobShape(Goto(w, l)), Proceed(w, ok, Goto(w, l))
    PROVE  TypeOK'
  BY GotoOK, ProceedOK DEF TypeOK

(* Types: the fetch of a record.                                           *)
LEMMA FetchType ==
    ASSUME TypeOK, NEW w \in Loops, Fetch(w)
    PROVE  TypeOK'
  <1> DEFINE r == Rec(w)
  <1>0. Busy(w) /\ job[w].pc = "fetch"
    BY DEF Fetch, At, Busy
  <1>1. StoresOK'
    BY DEF Fetch, stores, TypeOK, StoresOK, GraphType, Of, Pair, Ignored, Target, IndexType
  <1>a. /\ job[w] \in JobType /\ JobShape(job[w]) /\ job[w].ev \in Event
        /\ r \in Records /\ By[r] \in Users
        /\ Kind[r] \in {"follow", "tag", "bookmark", "profile", "file"}
    BY <1>0, AtBusy
  <1>2. CASE Finish(w)
    BY <1>0, <1>1, <1>2, FinishOK DEF TypeOK
  <1>3. CASE ~(hs[r] = Nothing \/ Ignored(r))
    <2> DEFINE j == CASE Kind[r] = "profile" ->
                        [job[w] EXCEPT !.pc = "profile", !.body = FromHomeserver(hs[r])]
                   [] Kind[r] = "file" -> Goto(w, "write")
                   [] OTHER -> Goto(w, "edge")
    <2>1. Proceed(w, TRUE, j)
      BY <1>3 DEF Fetch
    <2>2. CASE Kind[r] = "profile"
      <3>1. hs[r] \in Names
        BY <1>a, <1>3, <2>2 DEF TypeOK, InputsOK, Blob
      <3>2. j = [job[w] EXCEPT !.pc = "profile", !.body = FromHomeserver(hs[r])]
        BY <2>2
      <3>a. FromHomeserver(hs[r]) \in Profile /\ "profile" \in Steps
        BY <3>1 DEF FromHomeserver, Profile, Steps
      <3>3. j \in JobType
        BY <1>a, <3>a, <3>2 DEF JobType
      <3> HIDE DEF j
      <3>4. JobShape(j) /\ j.ev = job[w].ev
        BY <1>a, <1>0, <3>1, <3>2, <3>3, <1>3, <2>2
        DEF JobShape, JobType, PutSteps, DelSteps, Joins, TodoOf, StepsOf, Rec
      <3> QED
        BY <1>0, <1>1, <2>1, <3>3, <3>4, ProceedOK DEF TypeOK
    <2>3. CASE Kind[r] # "profile"
      <3> DEFINE l == IF Kind[r] = "file" THEN "write" ELSE "edge"
      <3>1. j = Goto(w, l) /\ l \in Steps
        BY <2>3 DEF Steps, PutSteps
      <3> HIDE DEF j
      <3>2. /\ j \in JobType /\ j.ev = job[w].ev /\ j.pc = l /\ j.todo = {}
        BY <1>0, <3>1, GotoOK DEF Joins
      <3>3. JobShape(j)
        BY <1>a, <1>0, <1>3, <3>2, <2>3 DEF JobShape, PutSteps, DelSteps, Joins, TodoOf, StepsOf, Rec
      <3> QED
        BY <1>0, <1>1, <2>1, <3>2, <3>3, ProceedOK DEF TypeOK
    <2> QED
      BY <2>2, <2>3
  <1> QED
    BY <1>2, <1>3 DEF Fetch
-----------------------------------------------------------------------------
(* Types: the ranking of a tagged user.                                    *)
LEMMA SyncType ==
    ASSUME TypeOK, NEW w \in Loops, SyncRank(w)
    PROVE  TypeOK'
  <1> DEFINE r == Rec(w)
             l == IF job[w].ev.type = "put" THEN "done" ELSE "unedge"
  <1>0. Busy(w) /\ job[w].pc = "sync" /\ job[w].pc \notin Joins
    BY DEF SyncRank, At, Busy, Joins
  <1>1. /\ job[w] \in JobType /\ JobShape(job[w]) /\ job[w].ev \in Event
        /\ job[w].ev.r = r /\ r \in Records /\ By[r] \in Users
        /\ job[w].ev.type \in {"put", "del"} /\ job[w].body \in Profile \cup {NoUser}
        /\ Kind[r] \in {"follow", "tag", "bookmark", "profile", "file"}
        /\ Kind[r] = "tag" => Label[r] \in Labels
        /\ Target(r) = "post" <=> To[r] \in Posts
        /\ Target(r) = "user" <=> To[r] \in Users
    BY <1>0, AtBusy
  <1>2. l \in Steps
    BY DEF Steps, PutSteps, DelSteps
  <1>3. /\ Goto(w, l).ev = job[w].ev /\ Goto(w, l).pc = l
        /\ Goto(w, l).todo = {} /\ Goto(w, l).body = job[w].body /\ Goto(w, l).edge = job[w].edge
    BY <1>0, <1>2, GotoOK
  <1>4. JobShape(Goto(w, l))
    BY <1>0, <1>1, <1>3 DEF JobShape, PutSteps, DelSteps, Joins, TodoOf, StepsOf
  <1>5. PICK ok \in BOOLEAN :
          /\ index' = IF ok THEN SyncIndexScore(index, To[r], Label[r]) ELSE index
          /\ Proceed(w, ok, Goto(w, l)) /\ UNCHANGED <<graph, disk>>
    BY DEF SyncRank
  <1>6. StoresOK'
    <2>1. graph \in GraphType /\ index \in IndexType /\ disk \subseteq Of("file")
      BY DEF TypeOK, StoresOK
    <2>0. To[r] \in Users /\ Label[r] \in Labels
      BY <1>0, <1>1 DEF JobShape, StepsOf
    <2>2. index' \in IndexType
      BY <2>0, <2>1, <1>5, SyncIndex
    <2> QED
      BY <2>1, <2>2, <1>5 DEF StoresOK
  <1> QED
    BY <1>0, <1>2, <1>4, <1>5, <1>6, StepOK

(* Types: a bookmark.                                                      *)
LEMMA MarkType ==
    ASSUME TypeOK, NEW w \in Loops, Mark(w)
    PROVE  TypeOK'
  <1> DEFINE r == Rec(w)
             l == "done"
  <1>0. Busy(w) /\ job[w].pc = "mark" /\ job[w].pc \notin Joins
    BY DEF Mark, At, Busy, Joins
  <1>1. /\ job[w] \in JobType /\ JobShape(job[w]) /\ job[w].ev \in Event
        /\ job[w].ev.r = r /\ r \in Records /\ By[r] \in Users
        /\ job[w].ev.type \in {"put", "del"} /\ job[w].body \in Profile \cup {NoUser}
        /\ Kind[r] \in {"follow", "tag", "bookmark", "profile", "file"}
        /\ Kind[r] = "tag" => Label[r] \in Labels
        /\ Target(r) = "post" <=> To[r] \in Posts
        /\ Target(r) = "user" <=> To[r] \in Users
    BY <1>0, AtBusy
  <1>2. l \in Steps
    BY DEF Steps, PutSteps, DelSteps
  <1>3. /\ Goto(w, l).ev = job[w].ev /\ Goto(w, l).pc = l
        /\ Goto(w, l).todo = {} /\ Goto(w, l).body = job[w].body /\ Goto(w, l).edge = job[w].edge
    BY <1>0, <1>2, GotoOK
  <1>4. JobShape(Goto(w, l))
    BY <1>0, <1>1, <1>3 DEF JobShape, PutSteps, DelSteps, Joins, TodoOf, StepsOf
  <1>5. PICK k \in 0..2 :
          /\ index' = PutBookmark(index, By[r], To[r], k)
          /\ Proceed(w, k = 2, Goto(w, l)) /\ UNCHANGED <<graph, disk>>
    BY DEF Mark
  <1>6. StoresOK'
    <2>1. graph \in GraphType /\ index \in IndexType /\ disk \subseteq Of("file")
      BY DEF TypeOK, StoresOK
    <2>0. To[r] \in Posts
      BY <1>0, <1>1 DEF JobShape, StepsOf, Ignored
    <2>2. index' \in IndexType
      BY <2>0, <2>1, <1>1, <1>5, MarkIndex
    <2> QED
      BY <2>1, <2>2, <1>5 DEF StoresOK
  <1> QED
    BY <1>0, <1>2, <1>4, <1>5, <1>6, StepOK

(* Types: the end of a bookmark.                                           *)
LEMMA UnmarkType ==
    ASSUME TypeOK, NEW w \in Loops, Unmark(w)
    PROVE  TypeOK'
  <1> DEFINE r == Rec(w)
             l == "unedge"
  <1>0. Busy(w) /\ job[w].pc = "unmark" /\ job[w].pc \notin Joins
    BY DEF Unmark, At, Busy, Joins
  <1>1. /\ job[w] \in JobType /\ JobShape(job[w]) /\ job[w].ev \in Event
        /\ job[w].ev.r = r /\ r \in Records /\ By[r] \in Users
        /\ job[w].ev.type \in {"put", "del"} /\ job[w].body \in Profile \cup {NoUser}
        /\ Kind[r] \in {"follow", "tag", "bookmark", "profile", "file"}
        /\ Kind[r] = "tag" => Label[r] \in Labels
        /\ Target(r) = "post" <=> To[r] \in Posts
        /\ Target(r) = "user" <=> To[r] \in Users
    BY <1>0, AtBusy
  <1>2. l \in Steps
    BY DEF Steps, PutSteps, DelSteps
  <1>3. /\ Goto(w, l).ev = job[w].ev /\ Goto(w, l).pc = l
        /\ Goto(w, l).todo = {} /\ Goto(w, l).body = job[w].body /\ Goto(w, l).edge = job[w].edge
    BY <1>0, <1>2, GotoOK
  <1>4. JobShape(Goto(w, l))
    BY <1>0, <1>1, <1>3 DEF JobShape, PutSteps, DelSteps, Joins, TodoOf, StepsOf
  <1>5. PICK k \in 0..2 :
          /\ index' = DelBookmark(index, By[r], To[r], k)
          /\ Proceed(w, k = 2, Goto(w, l)) /\ UNCHANGED <<graph, disk>>
    BY DEF Unmark
  <1>6. StoresOK'
    <2>1. graph \in GraphType /\ index \in IndexType /\ disk \subseteq Of("file")
      BY DEF TypeOK, StoresOK
    <2>0. To[r] \in Posts
      BY <1>0, <1>1 DEF JobShape, StepsOf, Ignored
    <2>2. index' \in IndexType
      BY <2>0, <2>1, <1>1, <1>5, MarkIndex
    <2> QED
      BY <2>1, <2>2, <1>5 DEF StoresOK
  <1> QED
    BY <1>0, <1>2, <1>4, <1>5, <1>6, StepOK

(* Types: a file.                                                          *)
LEMMA WriteType ==
    ASSUME TypeOK, NEW w \in Loops, WriteFile(w)
    PROVE  TypeOK'
  <1> DEFINE r == Rec(w)
             l == "done"
  <1>0. Busy(w) /\ job[w].pc = "write" /\ job[w].pc \notin Joins
    BY DEF WriteFile, At, Busy, Joins
  <1>1. /\ job[w] \in JobType /\ JobShape(job[w]) /\ job[w].ev \in Event
        /\ job[w].ev.r = r /\ r \in Records /\ By[r] \in Users
        /\ job[w].ev.type \in {"put", "del"} /\ job[w].body \in Profile \cup {NoUser}
        /\ Kind[r] \in {"follow", "tag", "bookmark", "profile", "file"}
        /\ Kind[r] = "tag" => Label[r] \in Labels
        /\ Target(r) = "post" <=> To[r] \in Posts
        /\ Target(r) = "user" <=> To[r] \in Users
    BY <1>0, AtBusy
  <1>2. l \in Steps
    BY DEF Steps, PutSteps, DelSteps
  <1>3. /\ Goto(w, l).ev = job[w].ev /\ Goto(w, l).pc = l
        /\ Goto(w, l).todo = {} /\ Goto(w, l).body = job[w].body /\ Goto(w, l).edge = job[w].edge
    BY <1>0, <1>2, GotoOK
  <1>4. JobShape(Goto(w, l))
    BY <1>0, <1>1, <1>3 DEF JobShape, PutSteps, DelSteps, Joins, TodoOf, StepsOf
  <1>5. PICK k \in 0..2 :
          /\ disk' = IF k >= 1 THEN disk \cup {r} ELSE disk
          /\ graph' = IF k = 2 THEN CreateFile(graph, r) ELSE graph
          /\ Proceed(w, k = 2, Goto(w, l)) /\ UNCHANGED index
    BY DEF WriteFile
  <1>6. StoresOK'
    <2>1. graph \in GraphType /\ index \in IndexType /\ disk \subseteq Of("file")
      BY DEF TypeOK, StoresOK
    <2>2. r \in Of("file")
      BY <1>0, <1>1 DEF JobShape, Of, StepsOf
    <2>3. graph' \in GraphType
      BY <2>1, <2>2, <1>5, FileGraph
    <2> QED
      BY <2>1, <2>2, <2>3, <1>5 DEF StoresOK
  <1> QED
    BY <1>0, <1>2, <1>4, <1>5, <1>6, StepOK

(* Types: the end of a file.                                               *)
LEMMA EraseType ==
    ASSUME TypeOK, NEW w \in Loops, EraseFile(w)
    PROVE  TypeOK'
  <1> DEFINE r == Rec(w)
             l == "done"
  <1>0. Busy(w) /\ job[w].pc = "erase" /\ job[w].pc \notin Joins
    BY DEF EraseFile, At, Busy, Joins
  <1>1. /\ job[w] \in JobType /\ JobShape(job[w]) /\ job[w].ev \in Event
        /\ job[w].ev.r = r /\ r \in Records /\ By[r] \in Users
        /\ job[w].ev.type \in {"put", "del"} /\ job[w].body \in Profile \cup {NoUser}
        /\ Kind[r] \in {"follow", "tag", "bookmark", "profile", "file"}
        /\ Kind[r] = "tag" => Label[r] \in Labels
        /\ Target(r) = "post" <=> To[r] \in Posts
        /\ Target(r) = "user" <=> To[r] \in Users
    BY <1>0, AtBusy
  <1>2. l \in Steps
    BY DEF Steps, PutSteps, DelSteps
  <1>3. /\ Goto(w, l).ev = job[w].ev /\ Goto(w, l).pc = l
        /\ Goto(w, l).todo = {} /\ Goto(w, l).body = job[w].body /\ Goto(w, l).edge = job[w].edge
    BY <1>0, <1>2, GotoOK
  <1>4. JobShape(Goto(w, l))
    BY <1>0, <1>1, <1>3 DEF JobShape, PutSteps, DelSteps, Joins, TodoOf, StepsOf
  <1>5. PICK k \in 0..2 :
          /\ graph' = IF k >= 1 THEN DeleteFile(graph, r) ELSE graph
          /\ disk' = IF k = 2 THEN disk \ {r} ELSE disk
          /\ Proceed(w, k = 2, Goto(w, l)) /\ UNCHANGED index
    BY DEF EraseFile
  <1>6. StoresOK'
    <2>1. graph \in GraphType /\ index \in IndexType /\ disk \subseteq Of("file")
      BY DEF TypeOK, StoresOK
    <2>2. r \in Of("file")
      BY <1>0, <1>1 DEF JobShape, Of, StepsOf
    <2>3. graph' \in GraphType
      BY <2>1, <2>2, <1>5, FileGraph
    <2> QED
      BY <2>1, <2>2, <2>3, <1>5 DEF StoresOK
  <1> QED
    BY <1>0, <1>2, <1>4, <1>5, <1>6, StepOK

(* Types: a profile in the graph.                                          *)
LEMMA ProfileType ==
    ASSUME TypeOK, NEW w \in Loops, PutProfile(w)
    PROVE  TypeOK'
  <1> DEFINE r == Rec(w)
             l == IF job[w].body.deleted THEN "details" ELSE "search"
  <1>0. Busy(w) /\ job[w].pc = "profile" /\ job[w].pc \notin Joins
    BY DEF PutProfile, At, Busy, Joins
  <1>1. /\ job[w] \in JobType /\ JobShape(job[w]) /\ job[w].ev \in Event
        /\ job[w].ev.r = r /\ r \in Records /\ By[r] \in Users
        /\ job[w].ev.type \in {"put", "del"} /\ job[w].body \in Profile \cup {NoUser}
        /\ Kind[r] \in {"follow", "tag", "bookmark", "profile", "file"}
        /\ Kind[r] = "tag" => Label[r] \in Labels
        /\ Target(r) = "post" <=> To[r] \in Posts
        /\ Target(r) = "user" <=> To[r] \in Users
    BY <1>0, AtBusy
  <1>2. l \in Steps
    BY DEF Steps, PutSteps, DelSteps
  <1>3. /\ Goto(w, l).ev = job[w].ev /\ Goto(w, l).pc = l
        /\ Goto(w, l).todo = {} /\ Goto(w, l).body = job[w].body /\ Goto(w, l).edge = job[w].edge
    BY <1>0, <1>2, GotoOK
  <1>4. JobShape(Goto(w, l))
    <2>1. Kind[r] = "profile" /\ ~Ignored(r)
      BY <1>0, <1>1 DEF JobShape, StepsOf
    <2>2. IF job[w].ev.type = "put" THEN \E n \in Names : job[w].body = FromHomeserver(n)
          ELSE job[w].body = Tombstone
      BY <1>0, <1>1 DEF JobShape
    <2>3. l = "details" \/ (l = "search" /\ job[w].ev.type = "put")
      BY <1>1, <2>2, Bodies
    <2> HIDE DEF l
    <2> DEFINE j == Goto(w, l)
    <2>4. j.ev = job[w].ev /\ j.pc = l /\ j.todo = {} /\ j.body = job[w].body
      BY <1>3
    <2> HIDE DEF j
    <2>5. JobShape(j)
      BY <1>1, <2>1, <2>2, <2>3, <2>4 DEF JobShape, PutSteps, DelSteps, Joins, TodoOf, StepsOf
    <2> QED
      BY <2>5 DEF j
  <1>5. PICK ok \in BOOLEAN :
          /\ graph' = IF ok THEN CreateUser(graph, By[r], job[w].body) ELSE graph
          /\ Proceed(w, ok, Goto(w, l)) /\ UNCHANGED <<index, disk>>
    BY DEF PutProfile
  <1>6. StoresOK'
    <2>1. graph \in GraphType /\ index \in IndexType /\ disk \subseteq Of("file")
      BY DEF TypeOK, StoresOK
    <2>2. job[w].body \in Profile
      BY <1>0, <1>1, Bodies DEF JobShape
    <2>3. graph' \in GraphType
      BY <2>1, <2>2, <1>1, <1>5, CreateUserGraph
    <2> QED
      BY <2>1, <2>3, <1>5 DEF StoresOK
  <1> QED
    BY <1>0, <1>2, <1>4, <1>5, <1>6, StepOK

(* Types: the search records of a profile.                                 *)
LEMMA SearchType ==
    ASSUME TypeOK, NEW w \in Loops, PutUserSearch(w)
    PROVE  TypeOK'
  <1> DEFINE r == Rec(w)
             l == "details"
  <1>0. Busy(w) /\ job[w].pc = "search" /\ job[w].pc \notin Joins
    BY DEF PutUserSearch, At, Busy, Joins
  <1>1. /\ job[w] \in JobType /\ JobShape(job[w]) /\ job[w].ev \in Event
        /\ job[w].ev.r = r /\ r \in Records /\ By[r] \in Users
        /\ job[w].ev.type \in {"put", "del"} /\ job[w].body \in Profile \cup {NoUser}
        /\ Kind[r] \in {"follow", "tag", "bookmark", "profile", "file"}
        /\ Kind[r] = "tag" => Label[r] \in Labels
        /\ Target(r) = "post" <=> To[r] \in Posts
        /\ Target(r) = "user" <=> To[r] \in Users
    BY <1>0, AtBusy
  <1>2. l \in Steps
    BY DEF Steps, PutSteps, DelSteps
  <1>3. /\ Goto(w, l).ev = job[w].ev /\ Goto(w, l).pc = l
        /\ Goto(w, l).todo = {} /\ Goto(w, l).body = job[w].body /\ Goto(w, l).edge = job[w].edge
    BY <1>0, <1>2, GotoOK
  <1>4. JobShape(Goto(w, l))
    BY <1>0, <1>1, <1>3 DEF JobShape, PutSteps, DelSteps, Joins, TodoOf, StepsOf
  <1>5. PICK k \in 0..4 :
          /\ index' = PutSearch(index, By[r], job[w].body, k)
          /\ Proceed(w, k = 4, Goto(w, l)) /\ UNCHANGED <<graph, disk>>
    BY DEF PutUserSearch
  <1>6. StoresOK'
    <2>1. graph \in GraphType /\ index \in IndexType /\ disk \subseteq Of("file")
      BY DEF TypeOK, StoresOK
    <2>0. job[w].body \in Profile
      BY <1>0, <1>1, Bodies DEF JobShape
    <2>2. index' \in IndexType
      BY <2>0, <2>1, <1>1, <1>5, SearchIndex
    <2> QED
      BY <2>1, <2>2, <1>5 DEF StoresOK
  <1> QED
    BY <1>0, <1>2, <1>4, <1>5, <1>6, StepOK

(* Types: a cached profile.                                                *)
LEMMA PutDetailsType ==
    ASSUME TypeOK, NEW w \in Loops, PutUserDetails(w)
    PROVE  TypeOK'
  <1> DEFINE r == Rec(w)
             l == "labels"
  <1>0. Busy(w) /\ job[w].pc = "details" /\ job[w].pc \notin Joins
    BY DEF PutUserDetails, At, Busy, Joins
  <1>1. /\ job[w] \in JobType /\ JobShape(job[w]) /\ job[w].ev \in Event
        /\ job[w].ev.r = r /\ r \in Records /\ By[r] \in Users
        /\ job[w].ev.type \in {"put", "del"} /\ job[w].body \in Profile \cup {NoUser}
        /\ Kind[r] \in {"follow", "tag", "bookmark", "profile", "file"}
        /\ Kind[r] = "tag" => Label[r] \in Labels
        /\ Target(r) = "post" <=> To[r] \in Posts
        /\ Target(r) = "user" <=> To[r] \in Users
    BY <1>0, AtBusy
  <1>2. l \in Steps
    BY DEF Steps, PutSteps, DelSteps
  <1>3. /\ Goto(w, l).ev = job[w].ev /\ Goto(w, l).pc = l
        /\ Goto(w, l).todo = {} /\ Goto(w, l).body = job[w].body /\ Goto(w, l).edge = job[w].edge
    BY <1>0, <1>2, GotoOK
  <1>4. JobShape(Goto(w, l))
    BY <1>0, <1>1, <1>3 DEF JobShape, PutSteps, DelSteps, Joins, TodoOf, StepsOf
  <1>5. PICK ok \in BOOLEAN :
          /\ index' = IF ok THEN [index EXCEPT !.details[By[r]] = job[w].body] ELSE index
          /\ Proceed(w, ok, Goto(w, l)) /\ UNCHANGED <<graph, disk>>
    BY DEF PutUserDetails
  <1>6. StoresOK'
    <2>1. graph \in GraphType /\ index \in IndexType /\ disk \subseteq Of("file")
      BY DEF TypeOK, StoresOK
    <2>2. index' \in IndexType
      BY <2>1, <1>1, <1>5, DetailsIndex
    <2> QED
      BY <2>1, <2>2, <1>5 DEF StoresOK
  <1> QED
    BY <1>0, <1>2, <1>4, <1>5, <1>6, StepOK

(* Types: the notification of a lost friend.                               *)
LEMMA LostType ==
    ASSUME TypeOK, NEW w \in Loops, LostFollow(w)
    PROVE  TypeOK'
  <1> DEFINE r == Rec(w)
             l == "unedge"
  <1>0. Busy(w) /\ job[w].pc = "lost" /\ job[w].pc \notin Joins
    BY DEF LostFollow, At, Busy, Joins
  <1>1. /\ job[w] \in JobType /\ JobShape(job[w]) /\ job[w].ev \in Event
        /\ job[w].ev.r = r /\ r \in Records /\ By[r] \in Users
        /\ job[w].ev.type \in {"put", "del"} /\ job[w].body \in Profile \cup {NoUser}
        /\ Kind[r] \in {"follow", "tag", "bookmark", "profile", "file"}
        /\ Kind[r] = "tag" => Label[r] \in Labels
        /\ Target(r) = "post" <=> To[r] \in Posts
        /\ Target(r) = "user" <=> To[r] \in Users
    BY <1>0, AtBusy
  <1>2. l \in Steps
    BY DEF Steps, PutSteps, DelSteps
  <1>3. /\ Goto(w, l).ev = job[w].ev /\ Goto(w, l).pc = l
        /\ Goto(w, l).todo = {} /\ Goto(w, l).body = job[w].body /\ Goto(w, l).edge = job[w].edge
    BY <1>0, <1>2, GotoOK
  <1>4. JobShape(Goto(w, l))
    BY <1>0, <1>1, <1>3 DEF JobShape, PutSteps, DelSteps, Joins, TodoOf, StepsOf
  <1>5. PICK ok \in BOOLEAN :
          /\ index' = IF ok /\ job[w].known /\ job[w].friends
            THEN Tell(index, By[r], To[r], "lost") ELSE index
          /\ Proceed(w, ok, Goto(w, l)) /\ UNCHANGED <<graph, disk>>
    BY DEF LostFollow
  <1>6. StoresOK'
    <2>1. graph \in GraphType /\ index \in IndexType /\ disk \subseteq Of("file")
      BY DEF TypeOK, StoresOK
    <2>0. To[r] \in Users /\ "lost" \in NoteKinds
      BY <1>0, <1>1, SocialGraphAssumption DEF JobShape, StepsOf, NoteKinds
    <2>2. index' \in IndexType
      BY <2>0, <2>1, <1>1, <1>5, TellIndex
    <2> QED
      BY <2>1, <2>2, <1>5 DEF StoresOK
  <1> QED
    BY <1>0, <1>2, <1>4, <1>5, <1>6, StepOK

(* Types: the clean-up after an untag.                                     *)
LEMMA CleanUpType ==
    ASSUME TypeOK, NEW w \in Loops, CleanUp(w)
    PROVE  TypeOK'
  <1> DEFINE r == Rec(w)
             l == "unedge"
  <1>0. Busy(w) /\ job[w].pc = "cleanup" /\ job[w].pc \notin Joins
    BY DEF CleanUp, At, Busy, Joins
  <1>1. /\ job[w] \in JobType /\ JobShape(job[w]) /\ job[w].ev \in Event
        /\ job[w].ev.r = r /\ r \in Records /\ By[r] \in Users
        /\ job[w].ev.type \in {"put", "del"} /\ job[w].body \in Profile \cup {NoUser}
        /\ Kind[r] \in {"follow", "tag", "bookmark", "profile", "file"}
        /\ Kind[r] = "tag" => Label[r] \in Labels
        /\ Target(r) = "post" <=> To[r] \in Posts
        /\ Target(r) = "user" <=> To[r] \in Users
    BY <1>0, AtBusy
  <1>2. l \in Steps
    BY DEF Steps, PutSteps, DelSteps
  <1>3. /\ Goto(w, l).ev = job[w].ev /\ Goto(w, l).pc = l
        /\ Goto(w, l).todo = {} /\ Goto(w, l).body = job[w].body /\ Goto(w, l).edge = job[w].edge
    BY <1>0, <1>2, GotoOK
  <1>4. JobShape(Goto(w, l))
    BY <1>0, <1>1, <1>3 DEF JobShape, PutSteps, DelSteps, Joins, TodoOf, StepsOf
  <1>5. PICK k \in 0..2 :
          /\ index' = DelPostByTag(index, To[r], Label[r], k)
          /\ Proceed(w, k = 2, Goto(w, l)) /\ UNCHANGED <<graph, disk>>
    BY DEF CleanUp
  <1>6. StoresOK'
    <2>1. graph \in GraphType /\ index \in IndexType /\ disk \subseteq Of("file")
      BY DEF TypeOK, StoresOK
    <2>0. To[r] \in Posts /\ Label[r] \in Labels
      BY <1>0, <1>1 DEF JobShape, StepsOf
    <2>2. index' \in IndexType
      BY <2>0, <2>1, <1>5, UnlistIndex
    <2> QED
      BY <2>1, <2>2, <1>5 DEF StoresOK
  <1> QED
    BY <1>0, <1>2, <1>4, <1>5, <1>6, StepOK

(* Types: the end of an edge.                                              *)
LEMMA DeleteEdgeType ==
    ASSUME TypeOK, NEW w \in Loops, DeleteEdge(w)
    PROVE  TypeOK'
  <1> DEFINE r == Rec(w)
             l == IF Kind[r] = "tag" /\ Target(r) = "post" THEN "uncount" ELSE "done"
  <1>0. Busy(w) /\ job[w].pc = "unedge" /\ job[w].pc \notin Joins
    BY DEF DeleteEdge, At, Busy, Joins
  <1>1. /\ job[w] \in JobType /\ JobShape(job[w]) /\ job[w].ev \in Event
        /\ job[w].ev.r = r /\ r \in Records /\ By[r] \in Users
        /\ job[w].ev.type \in {"put", "del"} /\ job[w].body \in Profile \cup {NoUser}
        /\ Kind[r] \in {"follow", "tag", "bookmark", "profile", "file"}
        /\ Kind[r] = "tag" => Label[r] \in Labels
        /\ Target(r) = "post" <=> To[r] \in Posts
        /\ Target(r) = "user" <=> To[r] \in Users
    BY <1>0, AtBusy
  <1>2. l \in Steps
    BY DEF Steps, PutSteps, DelSteps
  <1>3. /\ Goto(w, l).ev = job[w].ev /\ Goto(w, l).pc = l
        /\ Goto(w, l).todo = {} /\ Goto(w, l).body = job[w].body /\ Goto(w, l).edge = job[w].edge
    BY <1>0, <1>2, GotoOK
  <1>4. JobShape(Goto(w, l))
    BY <1>0, <1>1, <1>3 DEF JobShape, PutSteps, DelSteps, Joins, TodoOf, StepsOf
  <1>5. PICK ok \in BOOLEAN :
          /\ graph' = IF ~ok THEN graph ELSE DropEdge(graph, r, job[w].edge)
          /\ Proceed(w, ok, Goto(w, l)) /\ UNCHANGED <<index, disk>>
    BY DEF DeleteEdge, DropEdge
  <1>6. StoresOK'
    <2>1. graph \in GraphType /\ index \in IndexType /\ disk \subseteq Of("file")
      BY DEF TypeOK, StoresOK
    <2>2. Kind[r] \in {"follow", "tag", "bookmark"}
      BY <1>0, <1>1, SocialGraphAssumption DEF JobShape, StepsOf
    <2>3. graph' \in GraphType
      <3> DEFINE e == job[w].edge
      <3>0. r \in Records /\ e \in Edges \cup {Nothing}
        BY <1>1 DEF JobType
      <3> HIDE DEF r, e
      <3>1. DropEdge(graph, r, e) \in GraphType
        BY <2>1, <2>2, <3>0, DeleteEdgeGraph
      <3> QED
        BY <2>1, <3>1, <1>5 DEF r, e
    <2> QED
      BY <2>1, <2>3, <1>5 DEF StoresOK
  <1> QED
    BY <1>0, <1>2, <1>4, <1>5, <1>6, StepOK

(* Types: the cached counts after an untag.                                *)
LEMMA UncountType ==
    ASSUME TypeOK, NEW w \in Loops, InvalidateCounts(w)
    PROVE  TypeOK'
  <1> DEFINE r == Rec(w)
             l == "done"
  <1>0. Busy(w) /\ job[w].pc = "uncount" /\ job[w].pc \notin Joins
    BY DEF InvalidateCounts, At, Busy, Joins
  <1>1. /\ job[w] \in JobType /\ JobShape(job[w]) /\ job[w].ev \in Event
        /\ job[w].ev.r = r /\ r \in Records /\ By[r] \in Users
        /\ job[w].ev.type \in {"put", "del"} /\ job[w].body \in Profile \cup {NoUser}
        /\ Kind[r] \in {"follow", "tag", "bookmark", "profile", "file"}
        /\ Kind[r] = "tag" => Label[r] \in Labels
        /\ Target(r) = "post" <=> To[r] \in Posts
        /\ Target(r) = "user" <=> To[r] \in Users
    BY <1>0, AtBusy
  <1>2. l \in Steps
    BY DEF Steps, PutSteps, DelSteps
  <1>3. /\ Goto(w, l).ev = job[w].ev /\ Goto(w, l).pc = l
        /\ Goto(w, l).todo = {} /\ Goto(w, l).body = job[w].body /\ Goto(w, l).edge = job[w].edge
    BY <1>0, <1>2, GotoOK
  <1>4. JobShape(Goto(w, l))
    BY <1>0, <1>1, <1>3 DEF JobShape, PutSteps, DelSteps, Joins, TodoOf, StepsOf
  <1>5. PICK ok \in BOOLEAN :
          /\ index' = IF ok THEN [index EXCEPT !.counts[To[r]] = NoScore] ELSE index
          /\ Proceed(w, ok, Goto(w, l)) /\ UNCHANGED <<graph, disk>>
    BY DEF InvalidateCounts
  <1>6. StoresOK'
    <2>1. graph \in GraphType /\ index \in IndexType /\ disk \subseteq Of("file")
      BY DEF TypeOK, StoresOK
    <2>0. To[r] \in Posts
      BY <1>0, <1>1 DEF JobShape
    <2>2. index' \in IndexType
      BY <2>0, <2>1, <1>5, CachedIndex
    <2> QED
      BY <2>1, <2>2, <1>5 DEF StoresOK
  <1> QED
    BY <1>0, <1>2, <1>4, <1>5, <1>6, StepOK

(* Types: the end of the search records.                                   *)
LEMMA UnsearchType ==
    ASSUME TypeOK, NEW w \in Loops, DeleteSearch(w)
    PROVE  TypeOK'
  <1> DEFINE r == Rec(w)
             l == IF job[w].body = NoUser THEN "undetails" ELSE "profile"
  <1>0. Busy(w) /\ job[w].pc = "unsearch" /\ job[w].pc \notin Joins
    BY DEF DeleteSearch, At, Busy, Joins
  <1>1. /\ job[w] \in JobType /\ JobShape(job[w]) /\ job[w].ev \in Event
        /\ job[w].ev.r = r /\ r \in Records /\ By[r] \in Users
        /\ job[w].ev.type \in {"put", "del"} /\ job[w].body \in Profile \cup {NoUser}
        /\ Kind[r] \in {"follow", "tag", "bookmark", "profile", "file"}
        /\ Kind[r] = "tag" => Label[r] \in Labels
        /\ Target(r) = "post" <=> To[r] \in Posts
        /\ Target(r) = "user" <=> To[r] \in Users
    BY <1>0, AtBusy
  <1>2. l \in Steps
    BY DEF Steps, PutSteps, DelSteps
  <1>3. /\ Goto(w, l).ev = job[w].ev /\ Goto(w, l).pc = l
        /\ Goto(w, l).todo = {} /\ Goto(w, l).body = job[w].body /\ Goto(w, l).edge = job[w].edge
    BY <1>0, <1>2, GotoOK
  <1>4. JobShape(Goto(w, l))
    BY <1>0, <1>1, <1>3 DEF JobShape, PutSteps, DelSteps, Joins, TodoOf, StepsOf
  <1>5. PICK k \in 0..2 :
          /\ index' = DeleteExistingRecords(index, By[r], k)
          /\ Proceed(w, k = 2, Goto(w, l)) /\ UNCHANGED <<graph, disk>>
    BY DEF DeleteSearch
  <1>6. StoresOK'
    <2>1. graph \in GraphType /\ index \in IndexType /\ disk \subseteq Of("file")
      BY DEF TypeOK, StoresOK
    <2>2. index' \in IndexType
      BY <2>1, <1>1, <1>5, UnsearchIndex
    <2> QED
      BY <2>1, <2>2, <1>5 DEF StoresOK
  <1> QED
    BY <1>0, <1>2, <1>4, <1>5, <1>6, StepOK

(* Types: the end of a user.                                               *)
LEMMA RemoveType ==
    ASSUME TypeOK, NEW w \in Loops, RemoveUser(w)
    PROVE  TypeOK'
  <1> DEFINE r == Rec(w)
             l == "done"
  <1>0. Busy(w) /\ job[w].pc = "undetails" /\ job[w].pc \notin Joins
    BY DEF RemoveUser, At, Busy, Joins
  <1>1. /\ job[w] \in JobType /\ JobShape(job[w]) /\ job[w].ev \in Event
        /\ job[w].ev.r = r /\ r \in Records /\ By[r] \in Users
        /\ job[w].ev.type \in {"put", "del"} /\ job[w].body \in Profile \cup {NoUser}
        /\ Kind[r] \in {"follow", "tag", "bookmark", "profile", "file"}
        /\ Kind[r] = "tag" => Label[r] \in Labels
        /\ Target(r) = "post" <=> To[r] \in Posts
        /\ Target(r) = "user" <=> To[r] \in Users
    BY <1>0, AtBusy
  <1>2. l \in Steps
    BY DEF Steps, PutSteps, DelSteps
  <1>3. /\ Goto(w, l).ev = job[w].ev /\ Goto(w, l).pc = l
        /\ Goto(w, l).todo = {} /\ Goto(w, l).body = job[w].body /\ Goto(w, l).edge = job[w].edge
    BY <1>0, <1>2, GotoOK
  <1>4. JobShape(Goto(w, l))
    BY <1>0, <1>1, <1>3 DEF JobShape, PutSteps, DelSteps, Joins, TodoOf, StepsOf
  <1>5. PICK k \in 0..2 :
          /\ index' = IF k >= 1 THEN [index EXCEPT !.details[By[r]] = NoUser] ELSE index
          /\ graph' = IF k = 2 THEN DeleteUser(graph, By[r]) ELSE graph
          /\ Proceed(w, k = 2, Goto(w, l)) /\ UNCHANGED disk
    BY DEF RemoveUser
  <1>6. StoresOK'
    <2>1. graph \in GraphType /\ index \in IndexType /\ disk \subseteq Of("file")
      BY DEF TypeOK, StoresOK
    <2>2. index' \in IndexType
      BY <2>1, <1>1, <1>5, DetailsIndex
    <2>3. graph' \in GraphType
      BY <2>1, <1>1, <1>5, DeleteUserGraph
    <2> QED
      BY <2>1, <2>2, <2>3, <1>5 DEF StoresOK
  <1> QED
    BY <1>0, <1>2, <1>4, <1>5, <1>6, StepOK

(* Types: the labels of a restored or deleted user.                        *)
LEMMA LabelsType ==
    ASSUME TypeOK, NEW w \in Loops, ReadLabels(w)
    PROVE  TypeOK'
  <1> DEFINE r == Rec(w)
             listed == {l \in Labels : index.score[By[r]][l] # NoScore}
             j == IF listed = {} THEN Goto(w, "done")
                  ELSE [job[w] EXCEPT !.pc = "resync", !.labels = listed]
  <1>0. Busy(w) /\ job[w].pc = "labels" /\ job[w].pc \notin Joins
    BY DEF ReadLabels, At, Busy, Joins
  <1>1. /\ job[w] \in JobType /\ JobShape(job[w]) /\ job[w].ev \in Event
        /\ job[w].ev.r = r /\ r \in Records
        /\ Kind[r] \in {"follow", "tag", "bookmark", "profile", "file"}
    BY <1>0, AtBusy
  <1>2. Proceed(w, TRUE, j) /\ UNCHANGED stores
    BY DEF ReadLabels
  <1>3. {"done", "resync"} \subseteq Steps /\ listed \subseteq Labels
    BY DEF Steps
  <1>4. /\ j \in JobType /\ j.pc \in {"done", "resync"} /\ j.ev = job[w].ev
        /\ j.todo = job[w].todo /\ j.body = job[w].body
    BY <1>1, <1>3 DEF JobType, Goto
  <1> HIDE DEF j
  <1>5. JobShape(j)
    BY <1>0, <1>1, <1>4 DEF JobShape, PutSteps, DelSteps, Joins, TodoOf, StepsOf
  <1>6. StoresOK'
    BY <1>2 DEF stores, TypeOK, StoresOK, GraphType, Of, Pair, Ignored, Target, IndexType
  <1> QED
    BY <1>0, <1>2, <1>4, <1>5, <1>6, ProceedOK DEF TypeOK

(* Types: the ranking for one of those labels.                             *)
LEMMA ResyncType ==
    ASSUME TypeOK, NEW w \in Loops, SyncLabel(w)
    PROVE  TypeOK'
  <1> DEFINE r == Rec(w)
  <1>0. Busy(w) /\ job[w].pc = "resync" /\ job[w].pc \notin Joins
    BY DEF SyncLabel, At, Busy, Joins
  <1>1. /\ job[w] \in JobType /\ JobShape(job[w]) /\ job[w].ev \in Event
        /\ job[w].ev.r = r /\ r \in Records /\ By[r] \in Users
        /\ Kind[r] \in {"follow", "tag", "bookmark", "profile", "file"}
    BY <1>0, AtBusy
  <1>2. PICK l \in job[w].labels, ok \in BOOLEAN :
          /\ index' = IF ok THEN SyncIndexScore(index, By[r], l) ELSE index
          /\ Proceed(w, ok, [job[w] EXCEPT !.labels = @ \ {l},
                              !.pc = IF job[w].labels = {l} THEN "done" ELSE "resync"])
          /\ UNCHANGED <<graph, disk>>
    BY DEF SyncLabel
  <1> DEFINE j == [job[w] EXCEPT !.labels = @ \ {l},
                              !.pc = IF job[w].labels = {l} THEN "done" ELSE "resync"]
  <1>3. {"done", "resync"} \subseteq Steps /\ l \in Labels
    BY <1>1 DEF Steps, JobType
  <1>4. /\ j \in JobType /\ j.pc \in {"done", "resync"} /\ j.ev = job[w].ev
        /\ j.todo = job[w].todo /\ j.body = job[w].body
    BY <1>1, <1>3 DEF JobType
  <1>a. Proceed(w, ok, j)
    BY <1>2
  <1> HIDE DEF j
  <1>5. JobShape(j)
    BY <1>0, <1>1, <1>4 DEF JobShape, PutSteps, DelSteps, Joins, TodoOf, StepsOf
  <1>6. StoresOK'
    <2>1. graph \in GraphType /\ index \in IndexType /\ disk \subseteq Of("file")
      BY DEF TypeOK, StoresOK
    <2>2. index' \in IndexType
      BY <2>1, <1>1, <1>2, <1>3, SyncIndex
    <2> QED
      BY <2>1, <2>2, <1>2 DEF StoresOK
  <1> QED
    BY <1>0, <1>a, <1>4, <1>5, <1>6, ProceedOK DEF TypeOK

(* Types: the event is stored.                                             *)
LEMMA StoreType ==
    ASSUME TypeOK, NEW w \in Loops, StoreEvent(w)
    PROVE  TypeOK'
  <1>0. Busy(w) /\ UNCHANGED stores
    BY DEF StoreEvent, At, Busy
  <1>1. StoresOK'
    BY <1>0 DEF stores, TypeOK, StoresOK, GraphType, Of, Pair, Ignored, Target, IndexType
  <1>2. CASE Finish(w)
    BY <1>0, <1>1, <1>2, FinishOK DEF TypeOK
  <1>3. CASE Proceed(w, FALSE, Idle)
    <2>1. InputsOK' /\ JobsOK'
      BY <1>0, <1>3, ProceedOK DEF TypeOK
    <2> QED
      BY <1>1, <2>1 DEF TypeOK
  <1> QED
    BY <1>2, <1>3 DEF StoreEvent

(* Types: a loop takes an event.                                           *)
LEMMA TakeType ==
    ASSUME TypeOK, NEW w \in Loops, Take(w)
    PROVE  TypeOK'
  <1>1. PICK e \in Event : Start(w, e) /\ IF w = Retry THEN e \in queue
                            ELSE log[w] # <<>> /\ e = Head(log[w])
    <2>1. CASE w = Retry
      BY <2>1 DEF Take, TypeOK, InputsOK, PutOf, Event
    <2>2. CASE w # Retry
      BY <2>2 DEF Take, TypeOK, InputsOK, Loops
    <2> QED
      BY <2>1, <2>2
  <1>2. StoresOK'
    BY <1>1 DEF Start, stores, TypeOK, StoresOK, GraphType, Of, Pair, Ignored, Target, IndexType
  <1>3. overlap' \in BOOLEAN
    BY <1>1 DEF Start, Raced, TypeOK, InputsOK
  <1>4. InputsOK'
    BY <1>1, <1>3 DEF Start, inputs, TypeOK, InputsOK
  <1> DEFINE j == [Idle EXCEPT !.pc = IF e.type = "put" THEN "fetch" ELSE "find", !.ev = e]
  <1>5. j.pc = (IF e.type = "put" THEN "fetch" ELSE "find") /\ j.ev = e /\ j.todo = {} /\ j \in JobType
    BY IdleOK DEF Idle, JobType, Steps, PutSteps, DelSteps
  <1>6. job' = [job EXCEPT ![w] = j]
    BY <1>1 DEF Start
  <1> HIDE DEF j
  <1>7. JobShape(j)
    BY <1>5 DEF JobShape, PutSteps, DelSteps, Joins, TodoOf, Event
  <1> HIDE DEF JobShape
  <1>8. job' \in [Loops -> JobType] /\ \A v \in Loops : JobShape(job'[v])
    BY <1>5, <1>6, <1>7 DEF TypeOK, JobsOK
  <1>9. /\ \A v \in LiveLoops : job'[v].pc # "idle" => log'[v] # <<>> /\ job'[v].ev = Head(log'[v])
        /\ job'[Retry].pc # "idle" => job'[Retry].ev.type = "put" /\ Deferrable(job'[Retry].ev.r)
    <2>1. log' = log
      BY <1>1 DEF Start, inputs
    <2>2. w = Retry => e.type = "put" /\ Deferrable(e.r)
      BY <1>1 DEF TypeOK, InputsOK, PutOf
    <2>3. job'[w] = j /\ \A v \in Loops : v # w => job'[v] = job[v]
      BY <1>6 DEF TypeOK, JobsOK
    <2> QED
      BY <2>1, <2>2, <2>3, <1>1, <1>5, SocialHandlerAssumption DEF TypeOK, JobsOK, Busy, Rec, Loops, Retry
  <1> QED
    BY <1>2, <1>4, <1>8, <1>9 DEF TypeOK, JobsOK, Busy, Rec, JobShape, Deferrable

(* The job of a handler that starts a join.                                *)
LEMMA JoinOK ==
    ASSUME TypeOK, NEW w \in Loops, Busy(w), NEW l \in Joins, NEW writes \in SUBSET TodoOf(l)
    PROVE  LET j == Join(w, l, writes) IN
           /\ j \in JobType /\ j.ev = job[w].ev /\ j.pc = l /\ j.todo = writes /\ j.failed = FALSE
           /\ j.body = job[w].body /\ j.edge = job[w].edge /\ j.known = job[w].known
           /\ j.friends = job[w].friends /\ j.labels = job[w].labels
  <1>1. job[w] \in JobType
    BY AtBusy
  <1>2. writes \subseteq {"followers", "following", "unfollowers", "unfollowing", "tell", "uncount",
                    "tagger", "posts", "label", "count", "untagger"} /\ l \in Steps
    BY DEF TodoOf, UntagWrites, Joins, Steps, PutSteps, DelSteps
  <1> QED
    BY <1>1, <1>2 DEF Join, JobType

(* The user that the handler of a record with a missing dependency looks   *)
(* for.                                                                    *)
Mended(r) == CHOOSE u \in Mends(r) : TRUE

(* The missing dependency is a user.                                       *)
LEMMA MendedUser ==
    ASSUME NEW r \in Records, Mends(r) # {}
    PROVE  Mended(r) \in Users
  <1>1. Mended(r) \in Mends(r)
    BY DEF Mended
  <1>2. Mends(r) \subseteq Users
    BY SocialGraphAssumption DEF Mends, Targets
  <1> QED
    BY <1>1, <1>2

PutJob(w, r, outcome) ==
    CASE Kind[r] = "follow" ->
           [Join(w, "follow", FollowWrites(outcome)) EXCEPT !.friends = WillBeFriends(index, r)]
      [] Kind[r] = "tag" -> Join(w, "tag", TagWrites(r, outcome))
      [] Kind[r] = "bookmark" -> Goto(w, "mark")

(* The job after an edge was merged.                                       *)
LEMMA PutJobOK ==
    ASSUME TypeOK, NEW w \in Loops, At(w, "edge"), NEW outcome \in {"Updated", "CreatedOrDeleted"}
    PROVE  LET r == Rec(w)
               j == PutJob(w, r, outcome) IN
           /\ j \in JobType /\ JobShape(j) /\ j.ev = job[w].ev
           /\ j.failed = (IF Kind[r] = "bookmark" THEN job[w].failed ELSE FALSE)
           /\ j.pc = IF Kind[r] = "bookmark" THEN "mark" ELSE Kind[r]
           /\ j.todo = IF Kind[r] = "bookmark" THEN {}
                       ELSE IF Kind[r] = "follow" THEN FollowWrites(outcome) ELSE TagWrites(r, outcome)
  <1> DEFINE r == Rec(w)
             j == PutJob(w, r, outcome)
  <1>0. Busy(w) /\ job[w].pc = "edge" /\ job[w].pc \notin Joins
    BY DEF At, Busy, Joins
  <1>1. /\ job[w] \in JobType /\ JobShape(job[w]) /\ job[w].ev \in Event
        /\ job[w].ev.r = r /\ r \in Records
        /\ Kind[r] \in {"follow", "tag", "bookmark", "profile", "file"}
        /\ Target(r) = "post" <=> To[r] \in Posts
        /\ Target(r) = "user" <=> To[r] \in Users
    BY <1>0, AtBusy
  <1>2. job[w].ev.type = "put" /\ ~Ignored(r) /\ Kind[r] \in {"follow", "tag", "bookmark"}
    BY <1>0, <1>1 DEF JobShape, PutSteps, StepsOf
  <1>3. CASE Kind[r] = "follow"
    <2> DEFINE i == Join(w, "follow", FollowWrites(outcome))
    <2>0. FollowWrites(outcome) \in SUBSET TodoOf("follow") /\ FollowWrites(outcome) # {} /\ "follow" \in Joins
      BY DEF FollowWrites, TodoOf, Joins
    <2>1. /\ i \in JobType /\ i.ev = job[w].ev /\ i.pc = "follow" /\ i.todo = FollowWrites(outcome)
          /\ i.failed = FALSE
      BY <1>0, <2>0, JoinOK, ZenonT(60)
    <2>2. j = [i EXCEPT !.friends = WillBeFriends(index, r)] /\ WillBeFriends(index, r) \in BOOLEAN
      BY <1>3 DEF PutJob, WillBeFriends
    <2> HIDE DEF i, j
    <2>3. /\ j \in JobType /\ j.ev = job[w].ev /\ j.pc = "follow" /\ j.todo = FollowWrites(outcome)
          /\ j.failed = FALSE
      BY <2>1, <2>2 DEF JobType
    <2>4. JobShape(j)
      BY <1>1, <1>2, <1>3, <2>0, <2>3 DEF JobShape, PutSteps, DelSteps, Joins, StepsOf
    <2> QED
      BY <1>3, <2>3, <2>4 DEF j
  <1>4. CASE Kind[r] = "tag"
    <2>0. TagWrites(r, outcome) \in SUBSET TodoOf("tag") /\ TagWrites(r, outcome) # {} /\ "tag" \in Joins
      BY DEF TagWrites, TodoOf, Joins, PostTagWrites, UserTagWrites, ResourceTagWrites
    <2>1. j = Join(w, "tag", TagWrites(r, outcome))
      BY <1>4 DEF PutJob
    <2>2. Target(r) \in {"post", "user", "resource"}
      BY <1>2, <1>4 DEF Ignored, Target
    <2>3. /\ {"tagger", "tell", "count"} \cap TagWrites(r, outcome) # {} => Target(r) \in {"post", "user"}
          /\ {"uncount", "posts"} \cap TagWrites(r, outcome) # {} => Target(r) = "post"
      BY <2>2 DEF TagWrites, PostTagWrites, UserTagWrites, ResourceTagWrites
    <2> HIDE DEF j
    <2>4. /\ j \in JobType /\ j.ev = job[w].ev /\ j.pc = "tag" /\ j.todo = TagWrites(r, outcome)
          /\ j.failed = FALSE
      BY <1>0, <2>0, <2>1, JoinOK, ZenonT(60)
    <2>5. JobShape(j)
      BY <1>1, <1>2, <1>4, <2>0, <2>3, <2>4 DEF JobShape, PutSteps, DelSteps, Joins, StepsOf
    <2> QED
      BY <1>4, <2>4, <2>5 DEF j
  <1>5. CASE Kind[r] = "bookmark"
    <2>1. j = Goto(w, "mark") /\ "mark" \in Steps
      BY <1>5 DEF PutJob, Steps, PutSteps
    <2> HIDE DEF j
    <2>2. /\ j \in JobType /\ j.ev = job[w].ev /\ j.pc = "mark" /\ j.todo = {} /\ j.failed = job[w].failed
      BY <1>0, <2>1, GotoOK
    <2>3. JobShape(j)
      BY <1>1, <1>2, <1>5, <2>2 DEF JobShape, PutSteps, DelSteps, Joins, StepsOf, TodoOf
    <2> QED
      BY <1>5, <2>2, <2>3 DEF j
  <1> QED
    BY <1>2, <1>3, <1>4, <1>5

(* The two ways a handler goes on from a record that is to be stored.      *)
LEMMA PutEdgeStep ==
    ASSUME TypeOK, NEW w \in Loops, PutEdge(w)
    PROVE  LET r == Rec(w) IN
           /\ Busy(w) /\ job[w].pc = "edge" /\ job[w].ev = PutOf(r) /\ r \in Records
           /\ Deferrable(r) /\ disk' = disk
           /\ \/ /\ ~Ready(graph, r) /\ Requeue(w)
                 /\ IF Mends(r) = {} THEN graph' = graph /\ index' = index
                    ELSE /\ graph' = IngestGraph(graph, index, Mended(r))
                         /\ index' = FillUser(index, graph, Mended(r))
              \/ /\ Ready(graph, r) /\ index' = index
                 /\ \E ok \in BOOLEAN :
                      /\ graph' = IF ok THEN StoreEdge(graph, r) ELSE graph
                      /\ Proceed(w, ok, PutJob(w, r, Outcome(graph, r)))
                 /\ Outcome(graph, r) = IF Present(graph, r) THEN "Updated" ELSE "CreatedOrDeleted"
  <1> DEFINE r == Rec(w)
  <1>0. Busy(w) /\ job[w].pc = "edge"
    BY DEF PutEdge, At, Busy
  <1>1. /\ JobShape(job[w]) /\ job[w].ev = [type |-> job[w].ev.type, r |-> r]
        /\ job[w].ev.r = r /\ r \in Records
    BY <1>0, AtBusy
  <1>2. job[w].ev = PutOf(r) /\ Deferrable(r)
    BY <1>0, <1>1, SocialGraphAssumption DEF JobShape, PutSteps, StepsOf, PutOf, Deferrable
  <1>3. Outcome(graph, r) = "MissingDependency" <=> ~Ready(graph, r)
    BY DEF Outcome
  <1>4. Ready(graph, r) => Outcome(graph, r) = IF Present(graph, r) THEN "Updated" ELSE "CreatedOrDeleted"
    BY DEF Outcome
  <1>5. CASE Outcome(graph, r) = "MissingDependency"
    <2>1. /\ Requeue(w) /\ disk' = disk
          /\ IF Mends(r) = {} THEN graph' = graph /\ index' = index
             ELSE /\ graph' = IngestGraph(graph, index, Mended(r))
                  /\ index' = FillUser(index, graph, Mended(r))
      BY <1>5 DEF PutEdge, Mended
    <2> QED
      BY <1>0, <1>1, <1>2, <1>3, <1>5, <2>1
  <1>6. CASE Outcome(graph, r) # "MissingDependency"
    <2>1. /\ disk' = disk /\ index' = index
          /\ \E ok \in BOOLEAN :
                      /\ graph' = IF ~ok THEN graph ELSE StoreEdge(graph, r)
                      /\ Proceed(w, ok, PutJob(w, r, Outcome(graph, r)))
      BY <1>6 DEF PutEdge, StoreEdge, PutJob
    <2> QED
      BY <1>0, <1>1, <1>2, <1>3, <1>4, <1>6, <2>1
  <1> QED
    BY <1>5, <1>6

(* An event that goes to the retry queue.                                  *)
LEMMA RequeueOK ==
    ASSUME InputsOK, JobsOK, NEW w \in Loops, Busy(w), Requeue(w),
           NEW r \in Records, Deferrable(r), job[w].ev = PutOf(r)
    PROVE  InputsOK' /\ JobsOK'
  BY Leave DEF Requeue, InputsOK

(* Types: an edge, or a missing dependency.                                *)
LEMMA PutEdgeType ==
    ASSUME TypeOK, NEW w \in Loops, PutEdge(w)
    PROVE  TypeOK'
  <1> DEFINE r == Rec(w)
  <1>0. graph \in GraphType /\ index \in IndexType /\ disk \subseteq Of("file")
    BY DEF TypeOK, StoresOK
  <1>1. Busy(w) /\ job[w].pc = "edge" /\ job[w].ev = PutOf(r) /\ r \in Records
           /\ Deferrable(r) /\ disk' = disk
    BY PutEdgeStep
  <1>2. CASE /\ Requeue(w)
             /\ IF Mends(r) = {} THEN graph' = graph /\ index' = index
                ELSE /\ graph' = IngestGraph(graph, index, Mended(r))
                     /\ index' = FillUser(index, graph, Mended(r))
    <2>1. InputsOK' /\ JobsOK'
      BY <1>1, <1>2, RequeueOK DEF TypeOK
    <2>2. graph' \in GraphType /\ index' \in IndexType
      <3>1. CASE Mends(r) = {}
        BY <3>1, <1>0, <1>2
      <3>2. CASE Mends(r) # {}
        BY <3>2, <1>0, <1>1, <1>2, MendedUser, IngestUserGraph, FillUserIndex
      <3> QED
        BY <3>1, <3>2
    <2> QED
      BY <1>0, <1>1, <2>1, <2>2 DEF TypeOK, StoresOK
  <1>3. CASE /\ index' = index
             /\ \E ok \in BOOLEAN :
                   /\ graph' = IF ok THEN StoreEdge(graph, r) ELSE graph
                   /\ Proceed(w, ok, PutJob(w, r, Outcome(graph, r)))
             /\ Outcome(graph, r) \in {"Updated", "CreatedOrDeleted"}
    <2> DEFINE o == Outcome(graph, r)
    <2>1. At(w, "edge")
      BY <1>1 DEF At
    <2> HIDE DEF o
    <2>2. /\ PutJob(w, r, o) \in JobType /\ JobShape(PutJob(w, r, o)) /\ PutJob(w, r, o).ev = job[w].ev
      BY <1>3, <2>1, PutJobOK DEF o
    <2>3. PICK ok \in BOOLEAN : /\ graph' = IF ok THEN StoreEdge(graph, r) ELSE graph
                                /\ Proceed(w, ok, PutJob(w, r, o))
      BY <1>3 DEF o
    <2>4. InputsOK' /\ JobsOK'
      BY <1>1, <2>2, <2>3, ProceedOK DEF TypeOK
    <2>5. graph' \in GraphType
      BY <1>0, <1>1, <2>3, CreateEdgeGraph DEF Deferrable
    <2> QED
      BY <1>0, <1>1, <1>3, <2>4, <2>5 DEF TypeOK, StoresOK
  <1> QED
    BY <1>2, <1>3, PutEdgeStep

(* The job after a write of a join, the last one or not.                   *)
AfterWrite(w, a, failed) ==
    LET left == job[w].todo \ {a}
    IN IF left # {} THEN [job[w] EXCEPT !.todo = left, !.failed = failed]
       ELSE IF failed THEN Idle ELSE [AfterJoin(w) EXCEPT !.todo = {}]

NextPc(l, r) ==
    CASE l = "follow"   -> "done"
      [] l = "unfollow" -> "lost"
      [] l = "tag"      -> IF Target(r) = "user" THEN "sync" ELSE "done"
      [] l = "untag"    -> IF Target(r) = "user" THEN "sync" ELSE "cleanup"

(* The job after a write of a join.                                        *)
LEMMA AfterWriteOK ==
    ASSUME TypeOK, NEW w \in Loops, Busy(w), NEW a \in job[w].todo, NEW failed \in BOOLEAN
    PROVE  LET j == AfterWrite(w, a, failed)
               last == job[w].todo = {a} IN
           /\ j \in JobType /\ JobShape(j)
           /\ j = Idle \/ j.ev = job[w].ev
           /\ last /\ failed => j = Idle
           /\ ~(last /\ failed) =>
                /\ j.ev = job[w].ev /\ j.todo = job[w].todo \ {a}
                /\ j.pc = (IF last THEN NextPc(job[w].pc, Rec(w)) ELSE job[w].pc)
                /\ j.failed = (IF last THEN job[w].failed ELSE failed)
                /\ j.known = job[w].known /\ j.friends = job[w].friends /\ j.edge = job[w].edge
                /\ j.labels = job[w].labels
  <1> DEFINE r == Rec(w)
             j == AfterWrite(w, a, failed)
             left == job[w].todo \ {a}
             l == NextPc(job[w].pc, r)
  <1>1. /\ job[w] \in JobType /\ JobShape(job[w]) /\ job[w].ev \in Event
        /\ job[w].ev.r = r /\ r \in Records
        /\ Kind[r] \in {"follow", "tag", "bookmark", "profile", "file"}
        /\ Target(r) = "post" <=> To[r] \in Posts
        /\ Target(r) = "user" <=> To[r] \in Users
    BY AtBusy
  <1>2. job[w].pc \in Joins
    BY <1>1 DEF JobShape
  <1>3. CASE left # {}
    <2>1. j = [job[w] EXCEPT !.todo = left, !.failed = failed]
      BY <1>3 DEF AfterWrite
    <2> HIDE DEF j
    <2>2. /\ j \in JobType /\ j.ev = job[w].ev /\ j.todo = left /\ j.pc = job[w].pc /\ j.failed = failed
          /\ j.known = job[w].known /\ j.friends = job[w].friends /\ j.edge = job[w].edge
          /\ j.body = job[w].body /\ j.labels = job[w].labels
      BY <1>1, <2>1 DEF JobType
    <2> HIDE DEF left
    <2>3. left \subseteq job[w].todo
      BY DEF left
    <2>4. JobShape(j)
      BY <1>1, <1>2, <1>3, <2>2, <2>3 DEF JobShape, Joins
    <2>5. job[w].todo # {a}
      BY <1>3 DEF left
    <2> QED
      BY <2>2, <2>4, <2>5 DEF j, left
  <1>4. CASE left = {} /\ failed
    <2>1. j = Idle
      BY <1>4 DEF AfterWrite
    <2> HIDE DEF j
    <2>2. job[w].todo = {a}
      BY <1>4
    <2> QED
      BY <1>4, <2>1, <2>2, IdleOK DEF j
  <1>5. CASE left = {} /\ ~failed
    <2>1. AfterJoin(w) = [job[w] EXCEPT !.pc = l]
      BY <1>2 DEF AfterJoin, NextPc, Goto, Joins
    <2>2. j = [[job[w] EXCEPT !.pc = l] EXCEPT !.todo = {}]
      BY <1>5, <2>1 DEF AfterWrite
    <2>3. l \in {"done", "lost", "sync", "cleanup"}
      BY <1>2 DEF NextPc, Joins
    <2>a. l \in Steps
      BY <2>3 DEF Steps, DelSteps
    <2> HIDE DEF j, l
    <2>4. /\ j \in JobType /\ j.ev = job[w].ev /\ j.todo = {} /\ j.pc = l /\ j.failed = job[w].failed
          /\ j.known = job[w].known /\ j.friends = job[w].friends /\ j.edge = job[w].edge
          /\ j.body = job[w].body /\ j.labels = job[w].labels
      BY <1>1, <2>2, <2>a DEF JobType
    <2>5. /\ l = "lost" => job[w].pc = "unfollow"
          /\ l = "sync" => job[w].pc \in {"tag", "untag"} /\ Target(r) = "user"
          /\ l = "cleanup" => job[w].pc = "untag" /\ Target(r) # "user"
      BY <1>2 DEF l, NextPc, Joins
    <2>6. JobShape(j)
      BY <1>1, <1>2, <2>3, <2>4, <2>5 DEF JobShape, Joins, PutSteps, DelSteps, StepsOf, TodoOf
    <2>7. job[w].todo = {a}
      BY <1>5
    <2> QED
      BY <1>5, <2>4, <2>6, <2>7 DEF j, l
  <1> QED
    BY <1>3, <1>4, <1>5

(* One write of a join.  It goes through or fails, and a failing move of   *)
(* the counters leaves one of them out.                                    *)
LEMMA JoinWriteStep ==
    ASSUME TypeOK, NEW w \in Loops, NEW a \in job[w].todo, JoinWrite(w, a)
    PROVE  LET r == Rec(w)
               j == job[w] IN
           /\ Busy(w) /\ j.pc \in Joins /\ a \in TodoOf(j.pc) /\ r \in Records /\ ~Ignored(r)
           /\ UNCHANGED <<graph, disk, inputs, overlap>>
           /\ j.pc \in {"follow", "unfollow"} => r \in Of("follow")
           /\ j.pc \in {"tag", "untag"} => r \in Of("tag")
           /\ j.pc = "untag" \/ a \in {"tagger", "count", "tell"} => To[r] \in Targets
           /\ a \in {"uncount", "posts"} => To[r] \in Posts
           /\ j.pc \in {"follow", "tag"} => j.ev = PutOf(r)
           /\ j.pc \in {"unfollow", "untag"} => j.ev = DelOf(r)
           /\ \E failing \in BOOLEAN :
                /\ job' = [job EXCEPT ![w] = AfterWrite(w, a, j.failed \/ failing)]
                /\ faults' = IF failing THEN faults + 1 ELSE faults
                /\ a # "count" /\ failing => index' = index
                /\ a # "count" /\ ~failing /\ j.pc \in {"follow", "unfollow"} =>
                     index' = FollowEffect(index, r, j.friends, a)
                /\ a # "count" /\ ~failing /\ j.pc = "tag" => index' = TagEffect(index, r, a)
                /\ a # "count" /\ ~failing /\ j.pc = "untag" => index' = UntagEffect(index, r, j.known, a)
                /\ a = "count" /\ j.pc = "untag" /\ ~j.known => index' = index
                /\ a = "count" /\ ~(j.pc = "untag" /\ ~j.known) =>
                     \E fields \in SUBSET Counters(r) :
                       /\ index' = Count(index, r, fields, IF j.pc = "tag" THEN 1 ELSE -1)
                       /\ ~failing => fields = Counters(r)
  <1> DEFINE r == Rec(w)
             j == job[w]
  <1>0. /\ j \in JobType /\ JobShape(j)
    BY DEF TypeOK, JobsOK
  <1>1. j.pc \in Joins /\ Busy(w) /\ a \in TodoOf(j.pc)
    BY <1>0, IdleOK DEF JobShape, Joins, Busy
  <1>2. /\ j.ev \in Event /\ j.ev.r = r /\ r \in Records /\ j.ev = [type |-> j.ev.type, r |-> r]
        /\ Kind[r] \in {"follow", "tag", "bookmark", "profile", "file"}
        /\ Target(r) = "post" <=> To[r] \in Posts
        /\ Target(r) = "user" <=> To[r] \in Users
    BY <1>1, AtBusy
  <1>3. ~Ignored(r)
    BY <1>0, <1>1, <1>2 DEF JobShape, Joins
  <1>4. /\ j.pc \in {"follow", "unfollow"} => r \in Of("follow")
        /\ j.pc \in {"tag", "untag"} => r \in Of("tag")
    BY <1>0, <1>1, <1>2, <1>3 DEF JobShape, Joins, StepsOf, Of
  <1>5. /\ j.pc \in {"follow", "tag"} => j.ev = PutOf(r)
        /\ j.pc \in {"unfollow", "untag"} => j.ev = DelOf(r)
    BY <1>0, <1>2 DEF JobShape, PutSteps, DelSteps, PutOf, DelOf
  <1>6. /\ j.pc = "untag" \/ a \in {"tagger", "count", "tell"} => To[r] \in Targets
        /\ a \in {"uncount", "posts"} => To[r] \in Posts
    <2>1. CASE j.pc = "tag"
      BY <2>1, <1>0, <1>2 DEF JobShape, Targets
    <2>2. CASE j.pc = "untag"
      BY <2>2, <1>0, <1>1, <1>2 DEF JobShape, Targets, TodoOf, UntagWrites
    <2>3. CASE j.pc \in {"follow", "unfollow"}
      BY <2>3, <1>1, <1>4, SocialGraphAssumption DEF Of, Targets, TodoOf
    <2> QED
      BY <2>1, <2>2, <2>3, <1>1 DEF Joins
  <1>7. /\ j.pc \in {"follow", "unfollow"} => a # "count" /\ JoinEffect(w, a) = FollowEffect(index, r, j.friends, a)
        /\ a # "count" /\ j.pc = "tag" => JoinEffect(w, a) = TagEffect(index, r, a)
        /\ a # "count" /\ j.pc = "untag" => JoinEffect(w, a) = UntagEffect(index, r, j.known, a)
        /\ a = "count" => JoinEffect(w, a) = Moves(w, Counters(r))
    <2>0. j.pc \in {"follow", "unfollow"} => a # "count"
      BY <1>1 DEF TodoOf
    <2>1. CASE j.pc \in {"follow", "unfollow"}
      BY <2>0, <2>1 DEF JoinEffect
    <2>2. CASE a = "count"
      BY <2>0, <2>2 DEF JoinEffect
    <2>3. CASE a # "count" /\ j.pc = "tag"
      BY <2>3 DEF JoinEffect
    <2>4. CASE a # "count" /\ j.pc = "untag"
      BY <2>4 DEF JoinEffect
    <2> QED
      BY <2>0, <2>1, <2>2, <2>3, <2>4, <1>1 DEF Joins
  <1>8. ASSUME NEW fields \in SUBSET Counters(r)
        PROVE  Moves(w, fields) = IF j.pc = "tag" THEN Count(index, r, fields, 1)
                                  ELSE IF j.known THEN Count(index, r, fields, -1) ELSE index
    BY DEF Moves
  <1>9. PICK failing \in BOOLEAN :
                /\ job' = [job EXCEPT ![w] = AfterWrite(w, a, j.failed \/ failing)]
                /\ faults' = IF failing THEN faults + 1 ELSE faults
                /\ ~failing => index' = JoinEffect(w, a)
                /\ failing => index' \in JoinPartial(w, a)
    <2>1. CASE index' = JoinEffect(w, a) /\ job' = [job EXCEPT ![w] = AfterWrite(w, a, j.failed)] /\ faults' = faults
      <3>1. j.failed = (j.failed \/ FALSE)
        BY <1>0 DEF JobType
      <3> QED
        BY <2>1, <3>1
    <2>2. CASE index' \in JoinPartial(w, a) /\ job' = [job EXCEPT ![w] = AfterWrite(w, a, TRUE)] /\ faults' = faults + 1
      <3>1. TRUE = (j.failed \/ TRUE)
        OBVIOUS
      <3> QED
        BY <2>2, <3>1
    <2> QED
      BY <2>1, <2>2 DEF JoinWrite, AfterWrite
  <1>10. failing /\ a = "count" => \E fields \in SUBSET Counters(r) : index' = Moves(w, fields)
    BY <1>9 DEF JoinPartial
  <1>11. failing /\ a # "count" => index' = index
    BY <1>9 DEF JoinPartial
  <1>12. UNCHANGED <<graph, disk, inputs, overlap>>
    BY DEF JoinWrite
  <1>13. a = "count" => \E fields \in SUBSET Counters(r) :
           index' = Moves(w, fields) /\ (~failing => fields = Counters(r))
    BY <1>7, <1>9, <1>10
  <1>14. /\ a = "count" /\ j.pc = "untag" /\ ~j.known => index' = index
         /\ a = "count" /\ ~(j.pc = "untag" /\ ~j.known) =>
                     \E fields \in SUBSET Counters(r) :
                       /\ index' = Count(index, r, fields, IF j.pc = "tag" THEN 1 ELSE -1)
                       /\ ~failing => fields = Counters(r)
    <2>1. SUFFICES ASSUME a = "count"
                   PROVE  /\ j.pc = "untag" /\ ~j.known => index' = index
                          /\ ~(j.pc = "untag" /\ ~j.known) =>
                               \E fields \in SUBSET Counters(r) :
                                 /\ index' = Count(index, r, fields, IF j.pc = "tag" THEN 1 ELSE -1)
                                 /\ ~failing => fields = Counters(r)
      OBVIOUS
    <2>2. PICK fields \in SUBSET Counters(r) :
            index' = Moves(w, fields) /\ (~failing => fields = Counters(r))
      BY <1>13, <2>1
    <2>3. j.pc \in {"tag", "untag"}
      BY <1>1, <2>1 DEF Joins, TodoOf
    <2> QED
      BY <1>8, <2>2, <2>3
  <1> HIDE DEF r
  <1>15. /\ a # "count" /\ failing => index' = index
         /\ a # "count" /\ ~failing /\ j.pc \in {"follow", "unfollow"} =>
                     index' = FollowEffect(index, r, j.friends, a)
         /\ a # "count" /\ ~failing /\ j.pc = "tag" => index' = TagEffect(index, r, a)
         /\ a # "count" /\ ~failing /\ j.pc = "untag" => index' = UntagEffect(index, r, j.known, a)
    BY <1>7, <1>9, <1>11
  <1> QED
    BY <1>1, <1>2, <1>3, <1>4, <1>5, <1>6, <1>9, <1>12, <1>14, <1>15 DEF r

(* Types: a write of a join.                                               *)
LEMMA JoinType ==
    ASSUME TypeOK, NEW w \in Loops, NEW a \in job[w].todo, JoinWrite(w, a)
    PROVE  TypeOK'
  <1> DEFINE r == Rec(w)
             j == job[w]
  <1>0. graph \in GraphType /\ index \in IndexType /\ disk \subseteq Of("file")
    BY DEF TypeOK, StoresOK
  <1>1. /\ Busy(w) /\ j.pc \in Joins /\ a \in TodoOf(j.pc)
        /\ UNCHANGED <<graph, disk, inputs, overlap>>
        /\ j.pc \in {"follow", "unfollow"} => r \in Of("follow")
        /\ j.pc \in {"tag", "untag"} => r \in Of("tag")
        /\ j.pc = "untag" \/ a \in {"tagger", "count", "tell"} => To[r] \in Targets
        /\ a \in {"uncount", "posts"} => To[r] \in Posts
    BY JoinWriteStep
  <1>2. PICK failing \in BOOLEAN :
                /\ job' = [job EXCEPT ![w] = AfterWrite(w, a, j.failed \/ failing)]
                /\ faults' = IF failing THEN faults + 1 ELSE faults
                /\ a # "count" /\ failing => index' = index
                /\ a # "count" /\ ~failing /\ j.pc \in {"follow", "unfollow"} =>
                     index' = FollowEffect(index, r, j.friends, a)
                /\ a # "count" /\ ~failing /\ j.pc = "tag" => index' = TagEffect(index, r, a)
                /\ a # "count" /\ ~failing /\ j.pc = "untag" => index' = UntagEffect(index, r, j.known, a)
                /\ a = "count" /\ j.pc = "untag" /\ ~j.known => index' = index
                /\ a = "count" /\ ~(j.pc = "untag" /\ ~j.known) =>
                     \E fields \in SUBSET Counters(r) :
                       /\ index' = Count(index, r, fields, IF j.pc = "tag" THEN 1 ELSE -1)
                       /\ ~failing => fields = Counters(r)
    BY JoinWriteStep
  <1>3. job[w] \in JobType
    BY <1>1, AtBusy
  <1>4. index' \in IndexType
    <2>0. j.known \in BOOLEAN /\ j.friends \in BOOLEAN
      BY <1>3 DEF JobType
    <2> HIDE DEF r
    <2>1. CASE index' = index
      BY <1>0, <2>1
    <2>2. CASE a # "count" /\ index' = FollowEffect(index, r, j.friends, a) /\ j.pc \in {"follow", "unfollow"}
      <3>1. a \in {"followers", "following", "unfollowers", "unfollowing", "tell"}
        BY <1>1, <2>2 DEF TodoOf
      <3> QED
        BY <1>0, <1>1, <2>0, <2>2, <3>1, FollowIndex
    <2>3. CASE a # "count" /\ index' = TagEffect(index, r, a) /\ j.pc = "tag"
      <3>1. a \in {"uncount", "tagger", "posts", "label", "tell"}
        BY <1>1, <2>3 DEF TodoOf
      <3> QED
        BY <1>0, <1>1, <2>3, <3>1, TagIndex
    <2>4. CASE a # "count" /\ index' = UntagEffect(index, r, j.known, a) /\ j.pc = "untag"
      <3>1. a \in {"untagger", "tell"}
        BY <1>1, <2>4 DEF TodoOf, UntagWrites
      <3> QED
        BY <1>0, <1>1, <2>0, <2>4, <3>1, UntagIndex
    <2>5. CASE a = "count" /\ index' # index
      <3>1. j.pc \in {"tag", "untag"}
        BY <1>1, <2>5 DEF TodoOf, Joins
      <3>2. PICK fields \in SUBSET Counters(r), n \in {1, -1} : index' = Count(index, r, fields, n)
        BY <1>2, <2>5
      <3> QED
        BY <1>0, <1>1, <2>5, <3>1, <3>2, CountIndex
    <2> QED
      BY <1>1, <1>2, <2>1, <2>2, <2>3, <2>4, <2>5 DEF Joins
  <1>5. StoresOK'
    BY <1>0, <1>1, <1>4 DEF StoresOK
  <1>6. InputsOK'
    BY <1>1, <1>2 DEF TypeOK, InputsOK, inputs
  <1>7. JobsOK'
    <2> DEFINE f == j.failed \/ failing
               i == AfterWrite(w, a, f)
    <2>1. f \in BOOLEAN
      OBVIOUS
    <2> HIDE DEF f
    <2>2. i \in JobType /\ JobShape(i) /\ (i = Idle \/ i.ev = job[w].ev)
      BY <1>1, <2>1, AfterWriteOK
    <2>3. job' = [job EXCEPT ![w] = i] /\ log' = log
      BY <1>1, <1>2 DEF f, inputs
    <2> HIDE DEF i
    <2> QED
      BY <1>1, <2>2, <2>3, Advance DEF TypeOK
  <1> QED
    BY <1>5, <1>6, <1>7 DEF TypeOK

-----------------------------------------------------------------------------
(* What a deletion finds.                                                  *)
FindJob(w, r) ==
    CASE Kind[r] = "follow" ->
           [Join(w, "unfollow", {"unfollowers", "unfollowing"}) EXCEPT
              !.known = By[r] \in index.followers[To[r]],
              !.friends = To[r] \in index.following[By[r]] /\ By[r] \in index.following[To[r]]]
      [] Kind[r] = "tag" ->
           IF Target(r) = "resource" THEN [Goto(w, "unedge") EXCEPT !.edge = TagEdge(r)]
           ELSE [Join(w, "untag", UntagWrites) EXCEPT
                   !.edge = TagEdge(r), !.known = By[r] \in index.taggers[To[r]][Label[r]]]
      [] Kind[r] = "bookmark" -> Goto(w, "unmark")
      [] Kind[r] = "file" -> Goto(w, "erase")
      [] Kind[r] = "profile" ->
           [job[w] EXCEPT !.pc = "unsearch",
              !.body = IF UserIsSafeToDelete(graph, By[r]) THEN NoUser ELSE Tombstone]

(* The job of a deletion that found its record.                            *)
LEMMA FindJobOK ==
    ASSUME TypeOK, NEW w \in Loops, At(w, "find"), ~Ignored(Rec(w))
    PROVE  LET r == Rec(w)
               j == FindJob(w, r) IN
           /\ j \in JobType /\ JobShape(j) /\ j.ev = job[w].ev
           /\ j.pc = (CASE Kind[r] = "follow" -> "unfollow"
                        [] Kind[r] = "tag" -> IF Target(r) = "resource" THEN "unedge" ELSE "untag"
                        [] Kind[r] = "bookmark" -> "unmark"
                        [] Kind[r] = "file" -> "erase"
                        [] Kind[r] = "profile" -> "unsearch")
           /\ Kind[r] = "follow" => j.todo = {"unfollowers", "unfollowing"} /\ j.failed = FALSE
           /\ Kind[r] = "tag" => j.edge = TagEdge(r)
           /\ Kind[r] = "tag" /\ Target(r) # "resource" =>
                /\ j.todo = UntagWrites /\ j.failed = FALSE
                /\ j.known = (By[r] \in index.taggers[To[r]][Label[r]])
           /\ Kind[r] = "tag" /\ Target(r) = "resource" => j.todo = {} /\ j.known = job[w].known
           /\ Kind[r] = "tag" => Target(r) \in {"post", "user", "resource"}
           /\ Kind[r] = "profile" =>
                j.body = IF UserIsSafeToDelete(graph, By[r]) THEN NoUser ELSE Tombstone
           /\ Kind[r] \in {"follow", "tag", "bookmark", "file", "profile"}
           /\ j.failed = FALSE \/ j.failed = job[w].failed
  <1> DEFINE r == Rec(w)
             j == FindJob(w, r)
  <1>0. Busy(w) /\ job[w].pc = "find" /\ job[w].pc \notin Joins
    BY DEF At, Busy, Joins
  <1>1. /\ job[w] \in JobType /\ JobShape(job[w]) /\ job[w].ev \in Event
        /\ job[w].ev.r = r /\ r \in Records
        /\ Kind[r] \in {"follow", "tag", "bookmark", "profile", "file"}
        /\ Target(r) = "post" <=> To[r] \in Posts
        /\ Target(r) = "user" <=> To[r] \in Users
    BY <1>0, AtBusy
  <1>2. job[w].ev.type = "del" /\ job[w].todo = {}
    BY <1>0, <1>1 DEF JobShape, PutSteps, DelSteps, Joins, StepsOf, TodoOf
  <1>3. CASE Kind[r] = "follow"
    <2> DEFINE i == Join(w, "unfollow", {"unfollowers", "unfollowing"})
               k == By[r] \in index.followers[To[r]]
               f == To[r] \in index.following[By[r]] /\ By[r] \in index.following[To[r]]
    <2>0. "unfollow" \in Joins /\ {"unfollowers", "unfollowing"} \in SUBSET TodoOf("unfollow")
      BY DEF TodoOf, Joins
    <2>1. /\ i \in JobType /\ i.ev = job[w].ev /\ i.pc = "unfollow"
          /\ i.todo = {"unfollowers", "unfollowing"} /\ i.failed = FALSE
      <3> DEFINE ws == {"unfollowers", "unfollowing"}
      <3> HIDE DEF ws
      <3>1. ws \in SUBSET TodoOf("unfollow")
        BY <2>0 DEF ws
      <3>2. /\ Join(w, "unfollow", ws) \in JobType /\ Join(w, "unfollow", ws).ev = job[w].ev
            /\ Join(w, "unfollow", ws).pc = "unfollow" /\ Join(w, "unfollow", ws).todo = ws
            /\ Join(w, "unfollow", ws).failed = FALSE
        BY <1>0, <2>0, <3>1, JoinOK, ZenonT(60)
      <3> QED
        BY <3>2 DEF ws
    <2>2. j = [i EXCEPT !.known = k, !.friends = f] /\ k \in BOOLEAN /\ f \in BOOLEAN
      BY <1>3 DEF FindJob
    <2> HIDE DEF i, j, k, f
    <2>3. /\ j \in JobType /\ j.ev = job[w].ev /\ j.pc = "unfollow"
          /\ j.todo = {"unfollowers", "unfollowing"} /\ j.failed = FALSE
      BY <2>1, <2>2 DEF JobType
    <2>4. JobShape(j)
      BY <1>1, <1>2, <1>3, <2>3 DEF JobShape, PutSteps, DelSteps, Joins, StepsOf, TodoOf
    <2> QED
      BY <1>3, <2>3, <2>4 DEF j
  <1>4. CASE Kind[r] = "tag"
    <2>0. TagEdge(r) \in Edges /\ Target(r) \in {"post", "user", "resource"}
      BY <1>1, <1>4 DEF Edges, Of, Ignored, Target
    <2>1. CASE Target(r) = "resource"
      <3> DEFINE i == Goto(w, "unedge")
      <3>0. "unedge" \in Steps
        BY DEF Steps, DelSteps
      <3>1. i \in JobType /\ i.ev = job[w].ev /\ i.pc = "unedge" /\ i.todo = {} /\ i.known = job[w].known
            /\ i.failed = job[w].failed
        BY <1>0, <3>0, GotoOK
      <3>2. j = [i EXCEPT !.edge = TagEdge(r)]
        BY <1>4, <2>1 DEF FindJob
      <3> HIDE DEF i, j
      <3>3. /\ j \in JobType /\ j.ev = job[w].ev /\ j.pc = "unedge" /\ j.todo = {} /\ j.known = job[w].known
            /\ j.edge = TagEdge(r) /\ j.failed = job[w].failed
        BY <2>0, <3>1, <3>2 DEF JobType
      <3>4. JobShape(j)
        BY <1>1, <1>2, <1>4, <3>3 DEF JobShape, PutSteps, DelSteps, Joins, StepsOf, TodoOf
      <3> QED
        BY <1>4, <2>0, <2>1, <3>3, <3>4 DEF j
    <2>2. CASE Target(r) # "resource"
      <3> DEFINE i == Join(w, "untag", UntagWrites)
                 k == By[r] \in index.taggers[To[r]][Label[r]]
      <3>0. "untag" \in Joins /\ UntagWrites \in SUBSET TodoOf("untag")
        BY DEF TodoOf, Joins
      <3>1. i \in JobType /\ i.ev = job[w].ev /\ i.pc = "untag" /\ i.todo = UntagWrites /\ i.failed = FALSE
        BY <1>0, <3>0, JoinOK, ZenonT(60)
      <3>2. j = [i EXCEPT !.edge = TagEdge(r), !.known = k] /\ k \in BOOLEAN
        BY <1>4, <2>2 DEF FindJob
      <3> HIDE DEF i, j, k
      <3>3. /\ j \in JobType /\ j.ev = job[w].ev /\ j.pc = "untag" /\ j.todo = UntagWrites /\ j.failed = FALSE
            /\ j.edge = TagEdge(r) /\ j.known = k
        BY <2>0, <3>1, <3>2 DEF JobType
      <3>4. JobShape(j)
        BY <1>1, <1>2, <1>4, <2>0, <2>2, <3>3 DEF JobShape, PutSteps, DelSteps, Joins, StepsOf, UntagWrites, TodoOf
      <3> QED
        BY <1>4, <2>0, <2>2, <3>3, <3>4 DEF j, k
    <2> QED
      BY <2>1, <2>2
  <1>5. CASE Kind[r] \in {"bookmark", "file"}
    <2> DEFINE l == IF Kind[r] = "bookmark" THEN "unmark" ELSE "erase"
    <2>1. j = Goto(w, l) /\ l \in Steps
      BY <1>5 DEF FindJob, Steps, DelSteps
    <2> HIDE DEF j
    <2>2. /\ j \in JobType /\ j.ev = job[w].ev /\ j.pc = l /\ j.todo = {} /\ j.failed = job[w].failed
      BY <1>0, <2>1, GotoOK
    <2>3. JobShape(j)
      BY <1>1, <1>2, <1>5, <2>2 DEF JobShape, PutSteps, DelSteps, Joins, StepsOf, TodoOf
    <2> QED
      BY <1>5, <2>2, <2>3 DEF j
  <1>6. CASE Kind[r] = "profile"
    <2> DEFINE b == IF UserIsSafeToDelete(graph, By[r]) THEN NoUser ELSE Tombstone
    <2>1. j = [job[w] EXCEPT !.pc = "unsearch", !.body = b]
      BY <1>6 DEF FindJob
    <2>2. b \in {NoUser, Tombstone} /\ b \in Profile \cup {NoUser} /\ "unsearch" \in Steps
      BY Bodies DEF Steps, DelSteps
    <2> HIDE DEF j, b
    <2>3. /\ j \in JobType /\ j.ev = job[w].ev /\ j.pc = "unsearch" /\ j.todo = {} /\ j.body = b
          /\ j.failed = job[w].failed
      BY <1>1, <1>2, <2>1, <2>2 DEF JobType
    <2>4. JobShape(j)
      BY <1>1, <1>2, <1>6, <2>2, <2>3 DEF JobShape, PutSteps, DelSteps, Joins, StepsOf, TodoOf
    <2> QED
      BY <1>6, <2>3, <2>4 DEF j, b
  <1> QED
    BY <1>1, <1>3, <1>4, <1>5, <1>6

(* A record that is in the graph is removed; otherwise nothing is to do.   *)
LEMMA FindStep ==
    ASSUME TypeOK, NEW w \in Loops, Find(w)
    PROVE  LET r == Rec(w) IN
           /\ Busy(w) /\ job[w].pc = "find" /\ job[w].ev = DelOf(r) /\ r \in Records
           /\ UNCHANGED stores
           /\ \/ /\ Finish(w)
                 /\ ~Ignored(r) => Kind[r] \in {"tag", "bookmark", "profile"} /\ ~Present(graph, r)
              \/ /\ Proceed(w, TRUE, FindJob(w, r)) /\ ~Ignored(r)
                 /\ Kind[r] \in {"tag", "bookmark", "profile"} => Present(graph, r)
  <1> DEFINE r == Rec(w)
  <1>0. Busy(w) /\ job[w].pc = "find" /\ UNCHANGED stores /\ graph \in GraphType
    BY DEF Find, At, Busy, TypeOK, StoresOK
  <1>1. /\ JobShape(job[w]) /\ job[w].ev = [type |-> job[w].ev.type, r |-> r]
        /\ job[w].ev.r = r /\ r \in Records
        /\ Kind[r] \in {"follow", "tag", "bookmark", "profile", "file"}
    BY <1>0, AtBusy
  <1>2. job[w].ev = DelOf(r)
    BY <1>0, <1>1 DEF JobShape, DelSteps, DelOf
  <1>3. CASE Kind[r] = "follow"
    <2>1. FindFollow(w, r)
      BY <1>3 DEF Find
    <2>2. Ignored(r) <=> By[r] = To[r]
      BY <1>3 DEF Ignored
    <2> QED
      BY <1>0, <1>1, <1>2, <1>3, <2>1, <2>2 DEF FindFollow, FindJob
  <1>4. CASE Kind[r] = "tag"
    <2>1. FindTag(w, r)
      BY <1>4 DEF Find
    <2>2. Present(graph, r) <=> TagEdge(r) \in graph.tags
      BY <1>4 DEF Present
    <2>3. CASE Ignored(r)
      <3>1. Target(r) = "unsupported"
        BY <1>4, <2>3 DEF Ignored
      <3>2. App[r] = NoApp /\ To[r] \notin Targets
        BY <3>1 DEF Target, Targets
      <3>3. TagTarget(graph, r) = {}
        <4>1. SUFFICES ASSUME NEW s \in Of("tag"), TagEdge(s).to = To[r], TagEdge(s).app = NoApp PROVE FALSE
          BY <3>1, <3>2, <1>0 DEF TagTarget, GraphType, Edges
        <4>2. To[s] = To[r] /\ (Target(s) = "resource" => App[s] = NoApp)
          BY <4>1 DEF TagEdge
        <4> QED
          BY <3>2, <4>2 DEF Target, Targets, Of, Ignored
      <3> QED
        BY <1>0, <1>1, <1>2, <2>1, <2>3, <3>3 DEF FindTag
    <2>4. CASE ~Ignored(r)
      <3>1. TagTarget(graph, r) = IF TagEdge(r) \in graph.tags THEN {TagEdge(r)} ELSE {}
        BY <1>0, <1>1, <1>4, <2>4, TargetOfTag DEF Of
      <3>2. \/ TagEdge(r) \notin graph.tags /\ Finish(w)
            \/ /\ TagEdge(r) \in graph.tags
               /\ Proceed(w, TRUE,
                    IF Target(r) = "resource" THEN [Goto(w, "unedge") EXCEPT !.edge = TagEdge(r)]
                    ELSE [Join(w, "untag", UntagWrites) EXCEPT
                  !.edge = TagEdge(r), !.known = By[r] \in index.taggers[To[r]][Label[r]]])
        BY <2>1, <3>1 DEF FindTag
      <3> QED
        BY <1>0, <1>1, <1>2, <1>4, <2>2, <2>4, <3>2 DEF FindJob
    <2> QED
      BY <2>3, <2>4
  <1>5. CASE Kind[r] = "bookmark"
    <2>1. FindBookmark(w, r)
      BY <1>5 DEF Find
    <2>2. Present(graph, r) => ~Ignored(r)
      <3>1. SUFFICES ASSUME Pair(r) \in graph.bookmarks PROVE ~Ignored(r)
        BY <1>5 DEF Present, Pair
      <3>2. PICK s \in Of("bookmark") : Pair(s) = Pair(r)
        BY <1>0, <3>1 DEF GraphType
      <3>3. s = r
        BY <1>1, <1>5, <3>2, SocialGraphAssumption DEF Of, Pair
      <3> QED
        BY <3>3 DEF Of
    <2> QED
      BY <1>0, <1>1, <1>2, <1>5, <2>1, <2>2 DEF FindBookmark, FindJob
  <1>6. CASE Kind[r] = "file"
    <2>1. ~Ignored(r)
      BY <1>6 DEF Ignored
    <2> QED
      BY <1>0, <1>1, <1>2, <1>6, <2>1 DEF Find, FindJob
  <1>7. CASE Kind[r] = "profile"
    <2>1. FindProfile(w, By[r]) /\ ~Ignored(r)
      BY <1>7 DEF Find, Ignored
    <2>2. Present(graph, r) <=> UserExists(graph, By[r])
      BY <1>7 DEF Present
    <2> QED
      BY <1>0, <1>1, <1>2, <1>7, <2>1, <2>2 DEF FindProfile, FindJob
  <1> QED
    BY <1>1, <1>3, <1>4, <1>5, <1>6, <1>7

(* Types: the search for what is to be deleted.                            *)
LEMMA FindType ==
    ASSUME TypeOK, NEW w \in Loops, Find(w)
    PROVE  TypeOK'
  <1> DEFINE r == Rec(w)
  <1>1. Busy(w) /\ job[w].pc = "find" /\ UNCHANGED stores
    BY FindStep
  <1>2. StoresOK'
    BY <1>1 DEF stores, TypeOK, StoresOK, GraphType, Of, Pair, Ignored, Target, IndexType
  <1>3. CASE Finish(w)
    BY <1>1, <1>2, <1>3, FinishOK DEF TypeOK
  <1>4. CASE Proceed(w, TRUE, FindJob(w, r)) /\ ~Ignored(r)
    <2>1. FindJob(w, r) \in JobType /\ JobShape(FindJob(w, r)) /\ FindJob(w, r).ev = job[w].ev
      BY <1>1, <1>4, FindJobOK DEF At
    <2> QED
      BY <1>1, <1>2, <1>4, <2>1, ProceedOK DEF TypeOK
  <1> QED
    BY <1>3, <1>4, FindStep

-----------------------------------------------------------------------------
(* A change on a homeserver adds one event to the log of its loop.         *)
UserWrites(r, c, type) == hs' = [hs EXCEPT ![r] = c] /\ Logged(r, type)

Appended(r, c, type) ==
    /\ UNCHANGED <<stores, queue, job, faults, overlap>>
    /\ \A s \in Records : hs'[s] = IF s = r THEN c ELSE hs[s]
    /\ Home[By[r]] \in LiveLoops
    /\ \A w \in LiveLoops : w # Home[By[r]] => log'[w] = log[w]
    /\ LET s == log[Home[By[r]]]
           t == log'[Home[By[r]]] IN
       /\ Len(s) \in Nat /\ Len(t) = Len(s) + 1 /\ t[Len(t)] = [type |-> type, r |-> r]
       /\ \A i \in 1..Len(s) : t[i] = s[i]

(* A change on a homeserver.                                               *)
LEMMA LoggedStep ==
    ASSUME TypeOK, NEW r \in Records, NEW c \in Blob(r) \cup {Nothing}, NEW type \in {"put", "del"},
           UserWrites(r, c, type)
    PROVE  TypeOK' /\ Appended(r, c, type)
  <1> DEFINE h == Home[By[r]]
             e == [type |-> type, r |-> r]
             s == log[h]
             t == Append(s, e)
  <1> USE DEF UserWrites
  <1>1. h \in LiveLoops
    BY SocialGraphAssumption, SocialHandlerAssumption
  <1>2. s \in Seq(Event) /\ e \in Event
    BY <1>1 DEF TypeOK, InputsOK, Event
  <1> HIDE DEF e
  <1>3. /\ t \in Seq(Event) /\ t # <<>> /\ Len(t) = Len(s) + 1 /\ Len(s) \in Nat /\ t[Len(t)] = e
        /\ \A i \in 1..Len(s) : t[i] = s[i]
        /\ s # <<>> => Head(t) = Head(s)
    BY <1>2
  <1>4. log' = [log EXCEPT ![h] = t] /\ UNCHANGED <<stores, queue, job, faults, overlap>> /\ ops' = ops + 1
    BY DEF Logged, e
  <1> HIDE DEF t
  <1>5. log' \in [LiveLoops -> Seq(Event)] /\ log'[h] = t /\ \A w \in LiveLoops : w # h => log'[w] = log[w]
    BY <1>1, <1>3, <1>4 DEF TypeOK, InputsOK
  <1>6. \A w \in LiveLoops : \A i \in 1..Len(log'[w]) : Home[By[log'[w][i].r]] = w
    <2>1. SUFFICES ASSUME NEW i \in 1..Len(t) PROVE Home[By[t[i].r]] = h
      BY <1>5 DEF TypeOK, InputsOK
    <2>2. CASE i = Len(t)
      BY <2>2, <1>3 DEF e
    <2>3. CASE i # Len(t)
      <3>1. i \in 1..Len(s)
        BY <2>3, <1>3
      <3> QED
        BY <3>1, <1>1, <1>3 DEF TypeOK, InputsOK
    <2> QED
      BY <2>2, <2>3
  <1>7. /\ hs' \in [Records -> Names \cup {"record", Nothing}]
        /\ \A q \in Records : hs'[q] = IF q = r THEN c ELSE hs[q]
        /\ \A q \in Records : hs'[q] \in Blob(q) \cup {Nothing}
    <2>1. c \in Names \cup {"record", Nothing}
      BY DEF Blob
    <2> QED
      BY <2>1 DEF TypeOK, InputsOK
  <1>8. InputsOK'
    BY <1>4, <1>5, <1>6, <1>7 DEF TypeOK, InputsOK, Blob, PutOf, Deferrable, Ignored, Target
  <1>9. JobsOK'
    <2>1. \A w \in LiveLoops : log[w] # <<>> => log'[w] # <<>> /\ Head(log'[w]) = Head(log[w])
      BY <1>3, <1>5
    <2> QED
      BY <2>1, <1>4 DEF TypeOK, JobsOK, JobShape, Busy, Rec, Deferrable
  <1>10. StoresOK'
    BY <1>4 DEF stores, TypeOK, StoresOK, GraphType, Of, Pair, Ignored, Target, IndexType
  <1> QED
    BY <1>1, <1>3, <1>4, <1>5, <1>7, <1>8, <1>9, <1>10 DEF TypeOK, e, Appended

(* Types: a record is written.                                             *)
LEMMA UserPutsStep ==
    ASSUME TypeOK, NEW r \in Records, NEW c \in Blob(r), UserPuts(r, c)
    PROVE  TypeOK'
  BY LoggedStep DEF UserPuts, UserWrites

(* Types: a record is deleted.                                             *)
LEMMA UserDeletesStep ==
    ASSUME TypeOK, NEW r \in Records, UserDeletes(r)
    PROVE  TypeOK'
  BY LoggedStep DEF UserDeletes, UserWrites

(* Steps that run no handler leave the jobs and the inputs alone.          *)
LEMMA OutsideOK ==
    ASSUME TypeOK, StoresOK', UNCHANGED <<inputs, job, faults>>, overlap' \in BOOLEAN
    PROVE  TypeOK'
  <1>1. InputsOK'
    BY DEF TypeOK, InputsOK, inputs
  <1>2. JobsOK'
    BY DEF TypeOK, JobsOK, inputs, JobShape, Busy, Rec, Deferrable
  <1> QED
    BY <1>1, <1>2 DEF TypeOK

(* Types: a post arrives.                                                  *)
LEMMA ArrivesType ==
    ASSUME TypeOK, NEW p \in Posts, PostArrives(p)
    PROVE  TypeOK'
  <1>0. graph \in GraphType /\ index \in IndexType /\ disk \subseteq Of("file")
    BY DEF TypeOK, StoresOK
  <1>1. graph' \in GraphType
    BY <1>0 DEF PostArrives, GraphType
  <1>2. index' \in IndexType
    <2>1. index' = [index EXCEPT !.stream[p] = IF IsReply[p] THEN @ ELSE 0]
      BY DEF PostArrives
    <2> QED
      BY <1>0, <2>1, StreamIndex
  <1>3. StoresOK'
    BY <1>0, <1>1, <1>2 DEF StoresOK, PostArrives
  <1>4. UNCHANGED <<inputs, job, faults>> /\ overlap' \in BOOLEAN
    BY DEF PostArrives, TypeOK, InputsOK
  <1> QED
    BY <1>3, <1>4, OutsideOK

(* Types: a reader that fills in what it missed.                           *)
LEMMA ViewType ==
    ASSUME TypeOK, NEW x \in IndexType, View(x)
    PROVE  TypeOK'
  <1>1. StoresOK'
    BY DEF View, TypeOK, StoresOK
  <1>2. UNCHANGED <<inputs, job, faults>> /\ overlap' \in BOOLEAN
    BY DEF View, Raced, TypeOK, InputsOK
  <1> QED
    BY <1>1, <1>2, OutsideOK

(* There are finitely many tags.                                           *)
LEMMA EdgesFinite ==
    ASSUME NEW g \in GraphType
    PROVE  IsFiniteSet(Edges) /\ IsFiniteSet(g.tags) /\ \A s \in SUBSET g.tags : IsFiniteSet(s) /\ Cardinality(s) \in Nat
  <1> DEFINE f == [r \in Of("tag") |-> TagEdge(r)]
  <1>1. IsFiniteSet(Of("tag"))
    BY SocialGraphAssumption, FS_Subset DEF Of
  <1>2. f \in Surjection(Of("tag"), Edges)
    BY DEF Surjection, Edges
  <1>3. IsFiniteSet(Edges)
    BY <1>1, <1>2, FS_Surjection
  <1>4. g.tags \subseteq Edges
    BY DEF GraphType
  <1> QED
    BY <1>3, <1>4, FS_Subset, FS_CardinalityType

(* Types: every reader.                                                    *)
LEMMA ViewsType ==
    ASSUME TypeOK,
           \/ \E p \in Posts : ViewCounts(p)
           \/ \E u \in Users : ViewUser(u) \/ ViewFollows(u)
           \/ \E t \in Targets : ViewTags(t)
    PROVE  TypeOK'
  <1>0. graph \in GraphType /\ index \in IndexType
    BY DEF TypeOK, StoresOK
  <1>1. ASSUME NEW p \in Posts, ViewCounts(p) PROVE TypeOK'
    <2>1. TagCount(graph, p) \in Nat
      BY <1>0, EdgesFinite DEF TagCount
    <2> DEFINE x == [index EXCEPT !.counts[p] = TagCount(graph, p)]
    <2>2. x \in IndexType
      BY <1>0, <2>1, CachedIndex
    <2>3. View(x)
      BY <1>1 DEF ViewCounts
    <2> HIDE DEF x
    <2> QED
      BY <2>2, <2>3, ViewType
  <1>2. ASSUME NEW u \in Users, ViewUser(u) PROVE TypeOK'
    BY <1>0, <1>2, FillUserIndex, ViewType DEF ViewUser
  <1>3. ASSUME NEW u \in Users, ViewFollows(u) PROVE TypeOK'
    BY <1>0, <1>3, FillFollowsIndex, ViewType DEF ViewFollows
  <1>4. ASSUME NEW t \in Targets, ViewTags(t) PROVE TypeOK'
    BY <1>0, <1>4, FillTagsIndex, ViewType DEF ViewTags
  <1> QED
    BY <1>1, <1>2, <1>3, <1>4

(* Types: every step of a handler.                                         *)
LEMMA HandleType ==
    ASSUME TypeOK, NEW w \in Loops, Handle(w)
    PROVE  TypeOK'
  BY TakeType, FetchType, PutEdgeType, JoinType, SyncType, MarkType, WriteType, ProfileType,
     SearchType, PutDetailsType, LabelsType, ResyncType, FindType, LostType, CleanUpType,
     UnmarkType, DeleteEdgeType, UncountType, EraseType, UnsearchType, RemoveType, StoreType
  DEF Handle

(* Types: nothing changes.                                                 *)
LEMMA StutterType ==
    ASSUME TypeOK, UNCHANGED vars
    PROVE  TypeOK'
  <1>1. StoresOK'
    BY DEF vars, TypeOK, StoresOK, GraphType, Of, Pair, Ignored, Target, IndexType
  <1>2. UNCHANGED <<inputs, job, faults>> /\ overlap' \in BOOLEAN
    BY DEF vars, inputs, TypeOK, InputsOK
  <1> QED
    BY <1>1, <1>2, OutsideOK

(* Types: every step.                                                      *)
LEMMA NextType ==
    ASSUME TypeOK, [Next]_vars
    PROVE  TypeOK'
  BY UserPutsStep, UserDeletesStep, HandleType, ArrivesType, ViewsType, StutterType DEF Next

(* Types: the first state.                                                 *)
LEMMA InitType == Init => TypeOK
  <1> SUFFICES ASSUME Init PROVE TypeOK
    OBVIOUS
  <1> DEFINE ps == [u \in Users |-> IF u \in Known THEN FromHomeserver(FirstName) ELSE NoUser]
             ns == {FirstName} \X Known
  <1>1. ps \in [Users -> Profile \cup {NoUser}] /\ ns \in NamesType /\ Known \in SUBSET Users
    BY Bodies, SocialHandlerAssumption DEF NamesType
  <1>2. /\ graph = [EmptyGraph EXCEPT !.user = ps]
        /\ index = [EmptyIndex EXCEPT !.details = ps, !.names = ns, !.ids = Known]
    BY DEF Init
  <1> HIDE DEF ps, ns
  <1>3. graph \in GraphType
    BY <1>1, <1>2 DEF EmptyGraph, GraphType
  <1>4. index \in IndexType
    <2>1. /\ [u \in Users |-> {}] \in FollowsType
          /\ [t \in Targets |-> [l \in Labels |-> {}]] \in TaggersType
          /\ [t \in Targets |-> [l \in Labels |-> NoScore]] \in ScoresType
          /\ [p \in Posts |-> [l \in Labels |-> NoScore]] \in ByTagType
          /\ [p \in Posts |-> NoScore] \in StreamType
          /\ [l \in Labels |-> {}] \in PostsType
          /\ [l \in Labels |-> [u \in Users |-> 0]] \in RankType
          /\ {} \in MarksType /\ [p \in Posts |-> NoScore] \in CountsType /\ {} \in NoteType
          /\ ps \in DetailsType
      BY <1>1 DEF FollowsType, TaggersType, ScoresType, ByTagType, StreamType, PostsType, RankType,
         MarksType, CountsType, NoteType, Score, DetailsType
    <2>2. index =
            [details |-> ps, names |-> ns, ids |-> Known,
             followers |-> [u \in Users |-> {}], following |-> [u \in Users |-> {}],
             taggers |-> [t \in Targets |-> [l \in Labels |-> {}]],
             score |-> [t \in Targets |-> [l \in Labels |-> NoScore]],
             byTag |-> [p \in Posts |-> [l \in Labels |-> NoScore]],
             stream |-> [p \in Posts |-> NoScore],
             posts |-> [l \in Labels |-> {}],
             rank |-> [l \in Labels |-> [u \in Users |-> 0]],
             labels |-> {}, marks |-> {}, marked |-> {},
             counts |-> [p \in Posts |-> NoScore], note |-> {}]
      BY <1>2 DEF EmptyIndex
    <2> DEFINE fl == [u \in Users |-> {}]
               tg == [t \in Targets |-> [l \in Labels |-> {}]]
               sc == [t \in Targets |-> [l \in Labels |-> NoScore]]
               bt == [p \in Posts |-> [l \in Labels |-> NoScore]]
               ct == [p \in Posts |-> NoScore]
               ls == [l \in Labels |-> {}]
               rk == [l \in Labels |-> [u \in Users |-> 0]]
               none == {}
    <2>3. /\ index = [details |-> ps, names |-> ns, ids |-> Known, followers |-> fl, following |-> fl,
                      taggers |-> tg, score |-> sc, byTag |-> bt, stream |-> ct, posts |-> ls,
                      rank |-> rk, labels |-> none, marks |-> none, marked |-> none,
                      counts |-> ct, note |-> none]
          /\ none \in SUBSET Labels /\ none \in MarksType /\ none \in NoteType /\ ps \in DetailsType
          /\ fl \in FollowsType /\ tg \in TaggersType /\ sc \in ScoresType /\ bt \in ByTagType
          /\ ct \in StreamType /\ ls \in PostsType /\ rk \in RankType /\ ct \in CountsType
      BY <2>1, <2>2
    <2> HIDE DEF fl, tg, sc, bt, ct, ls, rk, none
    <2> QED
      BY <1>1, <2>3 DEF IndexType
  <1>5. StoresOK
    BY <1>3, <1>4 DEF StoresOK, Init
  <1>6. InputsOK
    <2>1. hs \in [Records -> Names \cup {"record", Nothing}] /\ \A r \in Records : hs[r] \in Blob(r) \cup {Nothing}
      BY SocialHandlerAssumption DEF Init, Blob
    <2>2. log \in [LiveLoops -> Seq(Event)] /\ \A w \in LiveLoops : Len(log[w]) = 0
      BY DEF Init
    <2>3. \A w \in LiveLoops : \A i \in 1..Len(log[w]) : FALSE
      BY <2>2
    <2>4. ops = 0 /\ faults = 0 /\ overlap = FALSE /\ queue = {}
      BY DEF Init
    <2> QED
      BY <2>1, <2>2, <2>3, <2>4 DEF InputsOK
  <1>7. JobsOK
    <2>1. job \in [Loops -> JobType] /\ \A w \in Loops : JobShape(job[w]) /\ ~Busy(w)
      BY IdleOK DEF Init, Busy
    <2> QED
      BY <2>1 DEF JobsOK, Loops
  <1> QED
    BY <1>5, <1>6, <1>7 DEF TypeOK

(* The ways a handler that runs goes on: to another step of its event or,  *)
(* after a failure, nowhere; to the end of its event; to the retry queue.  *)
Goes(w, j) ==
    /\ job' = [job EXCEPT ![w] = j] /\ UNCHANGED <<inputs, overlap>>
    /\ j = Idle \/ (j.ev = job[w].ev /\ j.pc \notin {"idle", "fetch", "find"})
    /\ job[w].pc = "fetch" => hs[Rec(w)] # Nothing
Ends(w) ==
    /\ Finish(w) /\ UNCHANGED stores
    /\ \/ job[w].pc = "fetch" /\ (hs[Rec(w)] = Nothing \/ Ignored(Rec(w)))
       \/ job[w].pc = "find" \/ job[w].pc = "done"
Defers(w) == Requeue(w) /\ job[w].ev = PutOf(Rec(w)) /\ job[w].pc = "edge"

(* A step that goes through or fails is one of those ways.                 *)
LEMMA ProceedGoes ==
    ASSUME TypeOK, NEW w \in Loops, Busy(w), NEW ok \in BOOLEAN, NEW l \in Steps,
           job[w].pc \notin Joins, l \notin {"idle", "fetch", "find"}, Proceed(w, ok, Goto(w, l)),
           job[w].pc # "fetch"
    PROVE  \E j \in JobType : Goes(w, j)
  <1>1. Goto(w, l) \in JobType /\ Goto(w, l).ev = job[w].ev /\ Goto(w, l).pc = l
    BY GotoOK
  <1> QED
    BY <1>1, IdleOK DEF Proceed, Goes

(* Every step of a handler takes an event or is one of those ways.         *)
LEMMA HandleMoves ==
    ASSUME TypeOK, NEW w \in Loops, Handle(w)
    PROVE  \/ Take(w)
           \/ Busy(w) /\ ((\E j \in JobType : Goes(w, j)) \/ Ends(w) \/ Defers(w))
  <1> USE DEF Steps, PutSteps, DelSteps
  <1>1. CASE Fetch(w)
    <2> DEFINE r == Rec(w)
    <2>1. Busy(w) /\ job[w].pc = "fetch" /\ UNCHANGED stores
      BY <1>1 DEF Fetch, At, Busy
    <2>2. CASE hs[r] = Nothing \/ Ignored(r)
      BY <1>1, <2>1, <2>2 DEF Fetch, Ends
    <2>3. CASE ~(hs[r] = Nothing \/ Ignored(r))
      <3> DEFINE j == CASE Kind[r] = "profile" ->
                        [job[w] EXCEPT !.pc = "profile", !.body = FromHomeserver(hs[r])]
                   [] Kind[r] = "file" -> Goto(w, "write")
                   [] OTHER -> Goto(w, "edge")
      <3>1. Proceed(w, TRUE, j)
        BY <1>1, <2>3 DEF Fetch
      <3>2. job[w] \in JobType /\ r \in Records
        BY <2>1, AtBusy
      <3>3. j \in JobType /\ j.ev = job[w].ev /\ j.pc \in {"profile", "write", "edge"}
        <4>1. CASE Kind[r] = "profile"
          <5>1. hs[r] \in Names
            BY <2>3, <3>2, <4>1 DEF TypeOK, InputsOK, Blob
          <5>2. FromHomeserver(hs[r]) \in Profile
            BY <5>1, Bodies
          <5>3. j = [job[w] EXCEPT !.pc = "profile", !.body = FromHomeserver(hs[r])]
            BY <4>1
          <5> HIDE DEF j
          <5> QED
            BY <3>2, <5>2, <5>3 DEF JobType
        <4>2. CASE Kind[r] # "profile"
          <5> DEFINE l == IF Kind[r] = "file" THEN "write" ELSE "edge"
          <5>1. j = Goto(w, l) /\ l \in Steps
            BY <4>2
          <5> HIDE DEF j
          <5>2. j \in JobType /\ j.ev = job[w].ev /\ j.pc = l
            BY <2>1, <5>1, GotoOK DEF Joins
          <5> QED
            BY <5>2
        <4> QED
          BY <4>1, <4>2
      <3> HIDE DEF j
      <3>4. Goes(w, j)
        BY <2>3, <3>1, <3>3 DEF Goes, Proceed
      <3> QED
        BY <2>1, <3>3, <3>4
    <2> QED
      BY <2>2, <2>3
  <1>2. CASE PutEdge(w)
    <2> DEFINE r == Rec(w)
               o == Outcome(graph, r)
    <2>1. Busy(w) /\ job[w].pc = "edge" /\ job[w].ev = PutOf(r)
      BY <1>2, PutEdgeStep
    <2>2. CASE Requeue(w)
      BY <2>1, <2>2 DEF Defers
    <2>3. CASE o \in {"Updated", "CreatedOrDeleted"} /\ \E ok \in BOOLEAN : Proceed(w, ok, PutJob(w, r, o))
      <3> HIDE DEF o
      <3>1. /\ PutJob(w, r, o) \in JobType /\ PutJob(w, r, o).ev = job[w].ev
            /\ PutJob(w, r, o).pc = IF Kind[r] = "bookmark" THEN "mark" ELSE Kind[r]
        BY <2>1, <2>3, PutJobOK DEF At
      <3>2. Kind[r] \in {"follow", "tag", "bookmark", "profile", "file"}
        BY <2>1, AtBusy
      <3> QED
        BY <2>1, <2>3, <3>1, <3>2, IdleOK DEF Proceed, Goes
    <2> QED
      BY <1>2, <2>2, <2>3, PutEdgeStep
  <1>3. ASSUME NEW a \in job[w].todo, JoinWrite(w, a)
        PROVE  Busy(w) /\ \E j \in JobType : Goes(w, j)
    <2>1. /\ Busy(w) /\ job[w].pc \in Joins
          /\ UNCHANGED <<graph, disk, inputs, overlap>>
          /\ \E failing \in BOOLEAN : job' = [job EXCEPT ![w] = AfterWrite(w, a, job[w].failed \/ failing)]
      BY <1>3, JoinWriteStep
    <2>2. PICK f \in BOOLEAN : job' = [job EXCEPT ![w] = AfterWrite(w, a, f)]
      BY <2>1
    <2> DEFINE j == AfterWrite(w, a, f)
    <2>3. /\ j \in JobType
          /\ (job[w].todo = {a}) /\ f => j = Idle
          /\ ~(job[w].todo = {a} /\ f) =>
                /\ j.ev = job[w].ev
                /\ j.pc = (IF job[w].todo = {a} THEN NextPc(job[w].pc, Rec(w)) ELSE job[w].pc)
      BY <2>1, AfterWriteOK
    <2>4. NextPc(job[w].pc, Rec(w)) \in {"done", "lost", "sync", "cleanup"}
      BY <2>1 DEF NextPc, Joins
    <2> HIDE DEF j
    <2>5. j = Idle \/ (j.ev = job[w].ev /\ j.pc \notin {"idle", "fetch", "find"})
      BY <2>1, <2>3, <2>4 DEF Joins
    <2> QED
      BY <2>1, <2>2, <2>3, <2>5 DEF Goes, Joins, j
  <1>4. CASE Find(w)
    <2> DEFINE r == Rec(w)
    <2>1. Busy(w) /\ job[w].pc = "find" /\ UNCHANGED stores
      BY <1>4, FindStep
    <2>2. CASE Finish(w)
      BY <2>1, <2>2 DEF Ends
    <2>3. CASE Proceed(w, TRUE, FindJob(w, r)) /\ ~Ignored(r)
      <3> DEFINE j == FindJob(w, r)
      <3>1. /\ j \in JobType /\ j.ev = job[w].ev
            /\ j.pc = (CASE Kind[r] = "follow" -> "unfollow"
                        [] Kind[r] = "tag" -> IF Target(r) = "resource" THEN "unedge" ELSE "untag"
                        [] Kind[r] = "bookmark" -> "unmark"
                        [] Kind[r] = "file" -> "erase"
                        [] Kind[r] = "profile" -> "unsearch")
            /\ Kind[r] \in {"follow", "tag", "bookmark", "file", "profile"}
        BY <2>1, <2>3, FindJobOK DEF At
      <3> HIDE DEF j
      <3>2. j.pc \in {"unfollow", "unedge", "untag", "unmark", "erase", "unsearch"}
        BY <3>1
      <3> QED
        BY <2>1, <2>3, <3>1, <3>2 DEF Goes, Proceed, j
    <2> QED
      BY <1>4, <2>2, <2>3, FindStep
  <1>5. CASE StoreEvent(w)
    <2>1. Busy(w) /\ job[w].pc = "done" /\ UNCHANGED stores
      BY <1>5 DEF StoreEvent, At, Busy
    <2> QED
      BY <1>5, <2>1, IdleOK DEF StoreEvent, Ends, Goes, Proceed
  <1>6. CASE ReadLabels(w)
    <2> DEFINE listed == {l \in Labels : index.score[By[Rec(w)]][l] # NoScore}
               j == IF listed = {} THEN Goto(w, "done")
                    ELSE [job[w] EXCEPT !.pc = "resync", !.labels = listed]
    <2>1. Busy(w) /\ job[w].pc = "labels"
      BY <1>6 DEF ReadLabels, At, Busy
    <2>2. job[w] \in JobType
      BY <2>1, AtBusy
    <2>3. j \in JobType /\ j.ev = job[w].ev /\ j.pc \in {"done", "resync"}
      BY <2>2 DEF JobType, Goto
    <2>4. Proceed(w, TRUE, j)
      BY <1>6 DEF ReadLabels
    <2> HIDE DEF j
    <2> QED
      BY <2>1, <2>3, <2>4 DEF Goes, Proceed
  <1>7. CASE SyncLabel(w)
    <2>1. Busy(w) /\ job[w].pc = "resync"
      BY <1>7 DEF SyncLabel, At, Busy
    <2>2. job[w] \in JobType
      BY <2>1, AtBusy
    <2>3. PICK l \in job[w].labels, ok \in BOOLEAN :
          Proceed(w, ok, [job[w] EXCEPT !.labels = @ \ {l},
                              !.pc = IF job[w].labels = {l} THEN "done" ELSE "resync"])
      BY <1>7 DEF SyncLabel
    <2> DEFINE j == [job[w] EXCEPT !.labels = @ \ {l},
                              !.pc = IF job[w].labels = {l} THEN "done" ELSE "resync"]
    <2>4. j \in JobType /\ j.ev = job[w].ev /\ j.pc \in {"done", "resync"}
      BY <2>2, ZenonT(60) DEF JobType
    <2>5. Proceed(w, ok, j)
      BY <2>3
    <2> HIDE DEF j
    <2> QED
      BY <2>1, <2>4, <2>5, IdleOK DEF Goes, Proceed
  <1> HIDE DEF Steps, PutSteps, DelSteps
  <1>8. ASSUME NEW l \in Steps \ {"idle", "fetch", "find"}, NEW ok \in BOOLEAN, Proceed(w, ok, Goto(w, l)),
               NEW p \in Steps, job[w].pc = p, p \notin {"idle", "fetch", "follow", "unfollow", "tag", "untag"}
        PROVE  Busy(w) /\ \E j \in JobType : Goes(w, j)
    BY <1>8, ProceedGoes DEF Busy, Joins
  <1>9. CASE SyncRank(w)
    <2> DEFINE l == IF job[w].ev.type = "put" THEN "done" ELSE "unedge"
    <2>1. /\ job[w].pc = "sync" /\ "sync" \in Steps /\ l \in Steps \ {"idle", "fetch", "find"}
          /\ \E ok \in BOOLEAN : Proceed(w, ok, Goto(w, l))
      BY <1>9 DEF SyncRank, At, Steps, DelSteps
    <2> QED
      BY <2>1, <1>8
  <1>10. CASE Mark(w)
    <2>1. /\ job[w].pc = "mark" /\ "mark" \in Steps /\ "done" \in Steps
          /\ \E ok \in BOOLEAN : Proceed(w, ok, Goto(w, "done"))
      BY <1>10 DEF Mark, At, Steps, PutSteps
    <2> QED
      BY <2>1, <1>8
  <1>11. CASE WriteFile(w)
    <2>1. /\ job[w].pc = "write" /\ "write" \in Steps /\ "done" \in Steps
          /\ \E ok \in BOOLEAN : Proceed(w, ok, Goto(w, "done"))
      BY <1>11 DEF WriteFile, At, Steps, PutSteps
    <2> QED
      BY <2>1, <1>8
  <1>12. CASE PutProfile(w)
    <2> DEFINE l == IF job[w].body.deleted THEN "details" ELSE "search"
    <2>1. /\ job[w].pc = "profile" /\ "profile" \in Steps /\ l \in Steps \ {"idle", "fetch", "find"}
          /\ \E ok \in BOOLEAN : Proceed(w, ok, Goto(w, l))
      BY <1>12 DEF PutProfile, At, Steps, PutSteps
    <2> QED
      BY <2>1, <1>8
  <1>13. CASE PutUserSearch(w)
    <2>1. /\ job[w].pc = "search" /\ "search" \in Steps /\ "details" \in Steps
          /\ \E ok \in BOOLEAN : Proceed(w, ok, Goto(w, "details"))
      BY <1>13 DEF PutUserSearch, At, Steps, PutSteps
    <2> QED
      BY <2>1, <1>8
  <1>14. CASE PutUserDetails(w)
    <2>1. /\ job[w].pc = "details" /\ "labels" \in Steps /\ "details" \in Steps
          /\ \E ok \in BOOLEAN : Proceed(w, ok, Goto(w, "labels"))
      BY <1>14 DEF PutUserDetails, At, Steps, PutSteps
    <2> QED
      BY <2>1, <1>8
  <1>15. CASE LostFollow(w)
    <2>1. /\ job[w].pc = "lost" /\ "lost" \in Steps /\ "unedge" \in Steps
          /\ \E ok \in BOOLEAN : Proceed(w, ok, Goto(w, "unedge"))
      BY <1>15 DEF LostFollow, At, Steps, DelSteps
    <2> QED
      BY <2>1, <1>8
  <1>16. CASE CleanUp(w)
    <2>1. /\ job[w].pc = "cleanup" /\ "cleanup" \in Steps /\ "unedge" \in Steps
          /\ \E ok \in BOOLEAN : Proceed(w, ok, Goto(w, "unedge"))
      BY <1>16 DEF CleanUp, At, Steps, DelSteps
    <2> QED
      BY <2>1, <1>8
  <1>17. CASE Unmark(w)
    <2>1. /\ job[w].pc = "unmark" /\ "unmark" \in Steps /\ "unedge" \in Steps
          /\ \E ok \in BOOLEAN : Proceed(w, ok, Goto(w, "unedge"))
      BY <1>17 DEF Unmark, At, Steps, DelSteps
    <2> QED
      BY <2>1, <1>8
  <1>18. CASE DeleteEdge(w)
    <2> DEFINE l == IF Kind[Rec(w)] = "tag" /\ Target(Rec(w)) = "post" THEN "uncount" ELSE "done"
    <2>1. /\ job[w].pc = "unedge" /\ "unedge" \in Steps /\ l \in Steps \ {"idle", "fetch", "find"}
          /\ \E ok \in BOOLEAN : Proceed(w, ok, Goto(w, l))
      BY <1>18 DEF DeleteEdge, At, Steps, DelSteps
    <2> QED
      BY <2>1, <1>8
  <1>19. CASE InvalidateCounts(w)
    <2>1. /\ job[w].pc = "uncount" /\ "uncount" \in Steps /\ "done" \in Steps
          /\ \E ok \in BOOLEAN : Proceed(w, ok, Goto(w, "done"))
      BY <1>19 DEF InvalidateCounts, At, Steps, DelSteps
    <2> QED
      BY <2>1, <1>8
  <1>20. CASE EraseFile(w)
    <2>1. /\ job[w].pc = "erase" /\ "erase" \in Steps /\ "done" \in Steps
          /\ \E ok \in BOOLEAN : Proceed(w, ok, Goto(w, "done"))
      BY <1>20 DEF EraseFile, At, Steps, DelSteps
    <2> QED
      BY <2>1, <1>8
  <1>21. CASE DeleteSearch(w)
    <2> DEFINE l == IF job[w].body = NoUser THEN "undetails" ELSE "profile"
    <2>1. /\ job[w].pc = "unsearch" /\ "unsearch" \in Steps /\ l \in Steps \ {"idle", "fetch", "find"}
          /\ \E ok \in BOOLEAN : Proceed(w, ok, Goto(w, l))
      BY <1>21 DEF DeleteSearch, At, Steps, DelSteps
    <2> QED
      BY <2>1, <1>8
  <1>22. CASE RemoveUser(w)
    <2>1. /\ job[w].pc = "undetails" /\ "undetails" \in Steps /\ "done" \in Steps
          /\ \E ok \in BOOLEAN : Proceed(w, ok, Goto(w, "done"))
      BY <1>22 DEF RemoveUser, At, Steps, DelSteps
    <2> QED
      BY <2>1, <1>8
  <1> QED
    BY <1>1, <1>2, <1>3, <1>4, <1>5, <1>6, <1>7, <1>9, <1>10, <1>11, <1>12, <1>13, <1>14, <1>15,
       <1>16, <1>17, <1>18, <1>19, <1>20, <1>21, <1>22 DEF Handle

(* Events of different records, or types, differ.                          *)
LEMMA Events ==
    ASSUME NEW r \in Records, NEW s \in Records
    PROVE  /\ PutOf(r).r = r /\ DelOf(r).r = r /\ PutOf(r).type = "put" /\ DelOf(r).type = "del"
           /\ PutOf(r) # DelOf(s) /\ (PutOf(r) = PutOf(s) => r = s) /\ (DelOf(r) = DelOf(s) => r = s)
           /\ PutOf(r) \in Event /\ DelOf(r) \in Event
           /\ Home[By[r]] \in LiveLoops
  <1>1. /\ PutOf(r).r = r /\ DelOf(r).r = r /\ PutOf(r).type = "put" /\ DelOf(r).type = "del"
        /\ PutOf(s).r = s /\ DelOf(s).r = s /\ DelOf(s).type = "del"
    BY DEF PutOf, DelOf
  <1>2. PutOf(r) \in Event /\ DelOf(r) \in Event
    BY DEF PutOf, DelOf, Event
  <1>3. Home[By[r]] \in LiveLoops
    BY SocialGraphAssumption, SocialHandlerAssumption
  <1>4. PutOf(r) # DelOf(s)
    BY <1>1
  <1> QED
    BY <1>1, <1>2, <1>3, <1>4

(* A record is due by the homeserver, the log and the queue alone.         *)
LEMMA DueSame ==
    ASSUME UNCHANGED <<hs, log, queue>>, NEW r \in Records
    PROVE  Due(r)' <=> Due(r)
  BY DEF Due, InLog, PutOf, DelOf

(* Appending an event.                                                     *)
LEMMA LoggedDue ==
    ASSUME TypeOK, LogOrder, NEW r \in Records, NEW c \in Blob(r) \cup {Nothing}, NEW type \in {"put", "del"},
           c = Nothing <=> type = "del",
           UserWrites(r, c, type)
    PROVE  /\ LogOrder'
           /\ Due(r)' /\ \A s \in Records : Due(s) => Due(s)'
           /\ \A s \in Records : s # r => hs'[s] = hs[s]
  <1> DEFINE h == Home[By[r]]
             new == [type |-> type, r |-> r]
  <1>1. /\ UNCHANGED <<stores, queue, job, faults, overlap>>
        /\ \A s \in Records : hs'[s] = IF s = r THEN c ELSE hs[s]
        /\ h \in LiveLoops
        /\ \A w \in LiveLoops : w # h => log'[w] = log[w]
        /\ Len(log[h]) \in Nat /\ Len(log'[h]) = Len(log[h]) + 1 /\ log'[h][Len(log'[h])] = new
        /\ \A i \in 1..Len(log[h]) : log'[h][i] = log[h][i]
    <2>1. Appended(r, c, type)
      BY LoggedStep
    <2> QED
      BY <2>1 DEF Appended
  <1>2. ASSUME NEW e \in Event, InLog(e)
        PROVE  InLog(e)'
    <2> DEFINE m == Home[By[e.r]]
    <2>1. PICK i \in 1..Len(log[m]) : log[m][i] = e
      BY <1>2 DEF InLog
    <2>2. m \in LiveLoops
      BY SocialGraphAssumption, SocialHandlerAssumption DEF Event
    <2>3. i \in 1..Len(log'[m]) /\ log'[m][i] = e
      <3>1. CASE m # h
        BY <1>1, <2>1, <2>2, <3>1
      <3>2. CASE m = h
        <4> HIDE DEF m, h
        <4> QED
          BY <1>1, <2>1, <3>2
      <3> QED
        BY <3>1, <3>2
    <2> QED
      BY <2>3 DEF InLog
  <1>3. InLog(new)'
    <2>1. new.r = r /\ Len(log'[h]) \in 1..Len(log'[h])
      BY <1>1
    <2> HIDE DEF new
    <2> QED
      BY <1>1, <2>1 DEF InLog
  <1>4. new = IF type = "put" THEN PutOf(r) ELSE DelOf(r)
    BY DEF PutOf, DelOf
  <1>5. Due(r)'
    BY <1>1, <1>3, <1>4 DEF Due, PutOf, DelOf
  <1>6. ASSUME NEW s \in Records, Due(s) PROVE Due(s)'
    <2>1. CASE s = r
      BY <1>5, <2>1
    <2>2. CASE s # r
      <3>1. hs'[s] = hs[s] /\ queue' = queue /\ PutOf(s)' = PutOf(s) /\ DelOf(s)' = DelOf(s)
        BY <1>1, <2>2 DEF PutOf, DelOf
      <3>2. PutOf(s) \in Event /\ DelOf(s) \in Event
        BY Events
      <3>3. (InLog(PutOf(s)) => InLog(PutOf(s))') /\ (InLog(DelOf(s)) => InLog(DelOf(s))')
        BY <1>2, <3>2
      <3> QED
        BY <1>6, <3>1, <3>3 DEF Due, PutOf, DelOf
    <2> QED
      BY <2>1, <2>2
  <1>7. LogOrder'
    <2>1. SUFFICES ASSUME NEW q \in Records, NEW i \in 1..Len(log'[Home[By[q]]])
                   PROVE  LET s == log'[Home[By[q]]] IN
                          /\ s[i] = DelOf(q) /\ hs'[q] # Nothing => \E j \in (i+1)..Len(s) : s[j] = PutOf(q)
                          /\ s[i] = PutOf(q) /\ hs'[q] = Nothing => \E j \in (i+1)..Len(s) : s[j] = DelOf(q)
      BY DEF LogOrder, PutOf, DelOf
    <2>0. Home[By[q]] \in LiveLoops
      BY Events
    <2>2. CASE Home[By[q]] # h
      <3>1. q # r /\ hs'[q] = hs[q] /\ log'[Home[By[q]]] = log[Home[By[q]]]
        BY <1>1, <2>0, <2>2
      <3> QED
        BY <3>1 DEF LogOrder
    <2>3. CASE Home[By[q]] = h
      <3> DEFINE s == log[h]
                 t == log'[h]
      <3>0. Len(s) \in Nat /\ Len(t) = Len(s) + 1 /\ t[Len(t)] = new /\ \A k \in 1..Len(s) : t[k] = s[k]
        BY <1>1
      <3>1. CASE q = r
        <4>1. new = IF hs'[q] # Nothing THEN PutOf(q) ELSE DelOf(q)
          BY <1>1, <1>4, <3>1
        <4>2. PutOf(q) # DelOf(q)
          BY Events
        <4> HIDE DEF new, s, t
        <4>3. CASE i = Len(t)
          BY <3>0, <4>1, <4>2, <4>3, <2>3 DEF t
        <4>4. CASE i # Len(t)
          <5>1. Len(t) \in (i+1)..Len(t)
            BY <4>4, <3>0, <2>3 DEF t
          <5> QED
            BY <3>0, <4>1, <5>1, <2>3 DEF t
        <4> QED
          BY <4>3, <4>4
      <3>2. CASE q # r
        <4>1. hs'[q] = hs[q]
          BY <1>1, <3>2
        <4>2. new # PutOf(q) /\ new # DelOf(q)
          BY <3>2, Events, <1>4
        <4> HIDE DEF new, s, t
        <4>3. CASE i = Len(t)
          BY <3>0, <4>2, <4>3, <2>3 DEF t
        <4>4. CASE i # Len(t)
          <5>1. i \in 1..Len(s) /\ t[i] = s[i]
            BY <4>4, <3>0, <2>3 DEF t
          <5>2. /\ s[i] = DelOf(q) /\ hs[q] # Nothing => \E j \in (i+1)..Len(s) : s[j] = PutOf(q)
                /\ s[i] = PutOf(q) /\ hs[q] = Nothing => \E j \in (i+1)..Len(s) : s[j] = DelOf(q)
            BY <5>1, <2>3 DEF LogOrder, s
          <5>3. \A j \in (i+1)..Len(s) : j \in (i+1)..Len(t) /\ t[j] = s[j]
            BY <3>0, <5>1
          <5> QED
            BY <4>1, <5>1, <5>2, <5>3, <2>3 DEF t
        <4> QED
          BY <4>3, <4>4
      <3> QED
        BY <3>1, <3>2
    <2> QED
      BY <2>2, <2>3
  <1> QED
    BY <1>1, <1>5, <1>6, <1>7

(* Passing the first event.                                                *)
LEMMA PassedOrder ==
    ASSUME TypeOK, LogOrder, NEW w \in Loops, Busy(w), log' = Passed(w), hs' = hs
    PROVE  /\ LogOrder'
           /\ \A e \in Event : e # job[w].ev /\ InLog(e) => InLog(e)'
           /\ w = Retry => \A e \in Event : InLog(e) => InLog(e)'
           /\ w # Retry => \A s \in Records :
                /\ job[w].ev = PutOf(s) /\ hs[s] = Nothing => InLog(DelOf(s))'
                /\ job[w].ev = DelOf(s) /\ hs[s] # Nothing => InLog(PutOf(s))'
  <1>0. w # Retry => w \in LiveLoops /\ log[w] # <<>> /\ job[w].ev = Head(log[w])
    BY DEF Loops, TypeOK, JobsOK
  <1>1. /\ \A v \in LiveLoops : v # w => log'[v] = log[v]
        /\ w # Retry => Len(log'[w]) = Len(log[w]) - 1 /\ Len(log[w]) \in Nat
        /\ w # Retry => \A i \in 1..Len(log'[w]) : log'[w][i] = log[w][i + 1]
    BY <1>0, PassedOK DEF TypeOK
  <1>2. w # Retry => job[w].ev = log[w][1] /\ Len(log[w]) >= 1
    BY <1>0 DEF TypeOK, InputsOK
  <1>a. w = Retry => log' = log
    BY DEF Passed
  <1>b. Retry \notin LiveLoops
    BY SocialHandlerAssumption DEF Retry
  <1>3. ASSUME NEW e \in Event, InLog(e), e # job[w].ev \/ w = Retry
        PROVE  InLog(e)'
    <2> DEFINE h == Home[By[e.r]]
    <2>1. PICK i \in 1..Len(log[h]) : log[h][i] = e
      BY <1>3 DEF InLog
    <2>2. h \in LiveLoops
      BY SocialGraphAssumption, SocialHandlerAssumption DEF Event
    <2>3. CASE h # w
      BY <2>1, <2>2, <2>3, <1>1 DEF InLog
    <2>4. CASE h = w
      <3>0. w # Retry /\ e # job[w].ev
        BY <1>3, <1>b, <2>2, <2>4
      <3>1. i - 1 \in 1..Len(log'[w]) /\ log'[w][i - 1] = log[w][i]
        BY <3>0, <1>1, <1>2, <2>1, <2>4, SMTT(30)
      <3> QED
        BY <3>1, <2>1, <2>4 DEF InLog
    <2> QED
      BY <2>3, <2>4
  <1>4. ASSUME w # Retry, NEW s \in Records
        PROVE  /\ job[w].ev = PutOf(s) /\ hs[s] = Nothing => InLog(DelOf(s))'
               /\ job[w].ev = DelOf(s) /\ hs[s] # Nothing => InLog(PutOf(s))'
    <2> DEFINE h == Home[By[s]]
    <2>0. PutOf(s).r = s /\ DelOf(s).r = s
      BY Events
    <2>1. SUFFICES ASSUME NEW e \in {PutOf(s), DelOf(s)}, NEW f \in {PutOf(s), DelOf(s)}, job[w].ev = e,
                          e = PutOf(s) => hs[s] = Nothing /\ f = DelOf(s),
                          e = DelOf(s) => hs[s] # Nothing /\ f = PutOf(s)
                   PROVE  InLog(f)'
      BY Events DEF PutOf, DelOf
    <2>2. h = w
      <3>1. 1 \in 1..Len(log[w]) /\ log[w][1] = e /\ e.r = s
        BY <1>1, <1>2, <1>4, <2>0, <2>1
      <3> QED
        BY <3>1, <1>0, <1>4 DEF TypeOK, InputsOK
    <2>3. PICK j \in 2..Len(log[w]) : log[w][j] = f
      <3>1. 1 \in 1..Len(log[w]) /\ log[w][1] = e
        BY <1>1, <1>2, <1>4, <2>1
      <3>2. \E j \in (1+1)..Len(log[w]) : log[w][j] = f
        BY <3>1, <2>1, <2>2 DEF LogOrder
      <3> QED
        BY <3>2
    <2>4. j - 1 \in 1..Len(log'[w]) /\ log'[w][j - 1] = f
      BY <2>3, <1>1, <1>4
    <2> QED
      BY <2>0, <2>1, <2>2, <2>4 DEF InLog
  <1>5. LogOrder'
    <2>1. SUFFICES ASSUME NEW q \in Records, NEW i \in 1..Len(log'[Home[By[q]]])
                   PROVE  LET s == log'[Home[By[q]]] IN
                          /\ s[i] = DelOf(q) /\ hs[q] # Nothing => \E j \in (i+1)..Len(s) : s[j] = PutOf(q)
                          /\ s[i] = PutOf(q) /\ hs[q] = Nothing => \E j \in (i+1)..Len(s) : s[j] = DelOf(q)
      BY DEF LogOrder, PutOf, DelOf
    <2>2. Home[By[q]] \in LiveLoops
      BY Events
    <2>3. CASE Home[By[q]] # w
      <3>1. log'[Home[By[q]]] = log[Home[By[q]]]
        BY <2>2, <2>3, <1>1
      <3> QED
        BY <3>1 DEF LogOrder
    <2>4. CASE Home[By[q]] = w
      <3> DEFINE s == log[w]
                 t == log'[w]
      <3>0. w # Retry
        BY <2>2, <2>4, <1>b
      <3>1. i \in 1..Len(t) /\ i + 1 \in 1..Len(s) /\ t[i] = s[i + 1] /\ Len(s) = Len(t) + 1 /\ Len(t) \in Nat
        BY <3>0, <1>1, <2>1, <2>4
      <3>2. /\ s[i + 1] = DelOf(q) /\ hs[q] # Nothing => \E j \in ((i+1)+1)..Len(s) : s[j] = PutOf(q)
            /\ s[i + 1] = PutOf(q) /\ hs[q] = Nothing => \E j \in ((i+1)+1)..Len(s) : s[j] = DelOf(q)
        BY <3>1, <2>4 DEF LogOrder
      <3>3. \A j \in ((i+1)+1)..Len(s) : j - 1 \in (i+1)..Len(t) /\ t[j - 1] = s[j]
        BY <3>0, <3>1, <1>1, SMTT(30)
      <3> HIDE DEF s, t
      <3> QED
        BY <3>1, <3>2, <3>3, <2>4 DEF t
    <2> QED
      BY <2>3, <2>4
  <1> QED
    BY <1>3, <1>4, <1>5

(* A record stays due through every step of a handler, but for the one     *)
(* that ends its own event; and then the homeserver has what it had when   *)
(* the event was written.                                                  *)
LEMMA MovesDue ==
    ASSUME TypeOK, LogOrder, Sequential, NEW w \in Loops, Busy(w), NEW r \in Records, r = Rec(w),
           (\E j \in JobType : Goes(w, j)) \/ Ends(w) \/ Defers(w)
    PROVE  /\ LogOrder' /\ hs' = hs
           /\ \A s \in Records : s # r /\ Due(s) => Due(s)'
           /\ ~Ends(w) /\ ~At(w, "fetch") => Due(r)'
           /\ At(w, "fetch") /\ ~Ignored(r) /\ Due(r) => Due(r)'
           /\ ~At(w, "fetch") => Due(r)' \/ (job[w].ev.type = "put" <=> hs[r] # Nothing)
  <1> DEFINE type == job[w].ev.type
  <1>1. /\ type \in {"put", "del"} /\ job[w].ev \in Event /\ job[w].ev = [type |-> type, r |-> r]
    BY AtBusy
  <1>2. job[w].ev = IF type = "put" THEN PutOf(r) ELSE DelOf(r)
    BY <1>1 DEF PutOf, DelOf
  <1>3. ~At(w, "fetch") => Due(r)
    BY DEF Sequential
  <1>p. At(w, "fetch") => type = "put"
    BY AtBusy DEF At, JobShape, PutSteps
  <1> HIDE DEF type
  <1>4. CASE \E j \in JobType : Goes(w, j)
    <2>1. UNCHANGED <<hs, log, queue>>
      BY <1>4 DEF Goes, inputs
    <2>2. \A s \in Records : Due(s)' <=> Due(s)
      BY <2>1, DueSame
    <2>3. LogOrder'
      BY <2>1 DEF LogOrder, PutOf, DelOf
    <2> HIDE DEF At, Ends
    <2> QED
      BY <1>3, <2>1, <2>2, <2>3
  <1>5. CASE Finish(w) \/ Requeue(w)
    <2>0. log' = Passed(w) /\ hs' = hs
      BY <1>5 DEF Finish, Requeue
    <2>1. /\ LogOrder'
          /\ \A e \in Event : e # job[w].ev /\ InLog(e) => InLog(e)'
          /\ w = Retry => \A e \in Event : InLog(e) => InLog(e)'
          /\ w # Retry => \A s \in Records :
                /\ job[w].ev = PutOf(s) /\ hs[s] = Nothing => InLog(DelOf(s))'
                /\ job[w].ev = DelOf(s) /\ hs[s] # Nothing => InLog(PutOf(s))'
      BY <2>0, PassedOrder
    <2>2. ASSUME NEW s \in Records, s # r, Due(s) PROVE Due(s)'
      <3>1. PutOf(s) # job[w].ev /\ DelOf(s) # job[w].ev /\ PutOf(s) \in Event /\ DelOf(s) \in Event
        BY <1>1, <1>2, <2>2, Events
      <3>2. PutOf(s) \in queue => PutOf(s) \in queue'
        <4>1. PutOf(s).r = s
          BY Events
        <4> QED
          BY <1>5, <2>2, <3>1, <4>1 DEF Finish, Requeue
      <3>3. (InLog(PutOf(s)) => InLog(PutOf(s))') /\ (InLog(DelOf(s)) => InLog(DelOf(s))')
        BY <2>1, <3>1 DEF PutOf, DelOf
      <3> QED
        BY <2>0, <2>2, <3>2, <3>3 DEF Due, PutOf, DelOf
    <2>3. type = "put" /\ hs[r] = Nothing /\ Due(r) => Due(r)'
      <3>1. SUFFICES ASSUME type = "put", hs[r] = Nothing, Due(r) PROVE Due(r)'
        OBVIOUS
      <3>2. InLog(DelOf(r)) /\ DelOf(r) # job[w].ev /\ DelOf(r) \in Event
        BY <1>1, <1>2, <3>1, Events DEF Due
      <3>3. InLog(DelOf(r))'
        BY <2>1, <3>2 DEF DelOf
      <3> QED
        BY <3>3 DEF Due
    <2>4. Due(r)' \/ (type = "put" <=> hs[r] # Nothing) \/ At(w, "fetch")
      <3>1. CASE type = "put"
        BY <2>3, <3>1, <1>3
      <3>2. CASE type = "del"
        <4>1. w # Retry
          BY <3>2 DEF TypeOK, JobsOK, type
        <4>2. hs[r] # Nothing => InLog(PutOf(r))'
          <5>1. job[w].ev = DelOf(r)
            BY <1>2, <3>2
          <5> QED
            BY <2>1, <4>1, <5>1
        <4> QED
          BY <2>0, <3>2, <4>2 DEF Due
      <3> QED
        BY <1>1, <3>1, <3>2
    <2>5. CASE Ends(w)
      <3>1. At(w, "fetch") => hs[r] = Nothing \/ Ignored(r)
        BY <2>5 DEF Ends, At
      <3>2. At(w, "fetch") /\ ~Ignored(r) /\ Due(r) => Due(r)'
        BY <1>p, <2>3, <3>1
      <3> HIDE DEF At, Ends
      <3> QED
        BY <2>0, <2>1, <2>2, <2>4, <2>5, <3>2 DEF type
    <2>6. CASE Defers(w)
      <3>1. job[w].ev = PutOf(r) /\ queue' = {e \in queue : e.r # r} \cup {job[w].ev} /\ ~At(w, "fetch")
        BY <2>6 DEF Defers, Requeue, At
      <3>a. type = "put"
        BY <1>1, <3>1, Events DEF type
      <3>2. hs[r] # Nothing => Due(r)'
        BY <2>0, <3>1 DEF Due, PutOf
      <3>3. Due(r)'
        BY <1>3, <2>3, <3>1, <3>2, <3>a
      <3> QED
        BY <2>0, <2>1, <2>2, <3>1, <3>3
    <2> QED
      BY <1>4, <2>5, <2>6, <1>5 DEF Ends, Defers, Finish, Requeue
  <1> QED
    BY <1>4, <1>5 DEF Ends, Defers

Kinds == {"follow", "tag", "bookmark", "profile", "file"}

(* What a step that is not one of a handler of kind k may do to such       *)
(* records: one whose homeserver copy changes becomes due, and one that is *)
(* due stays so; and such a handler may only be started or given up.       *)
Quietly(k) ==
    /\ \A r \in Of(k) : (Due(r) => Due(r)') /\ (hs'[r] = hs[r] \/ Due(r)')
    /\ \A v \in Loops : \/ job'[v] = job[v] \/ job'[v] = Idle
                        \/ job'[v].pc \in {"fetch", "find"}
                        \/ job'[v].pc # "idle" /\ Kind[job'[v].ev.r] # k

(* Nothing runs, but for w.                                                *)
Alone(w) == \A v \in Loops \ {w} : ~Busy(v)

(* A change on a homeserver makes its record due, and no other.            *)
LEMMA WriteSeq ==
    ASSUME TypeOK, LogOrder, Sequential,
           NEW r \in Records, NEW c \in Blob(r) \cup {Nothing}, NEW type \in {"put", "del"},
           c = Nothing <=> type = "del", UserWrites(r, c, type)
    PROVE  /\ LogOrder' /\ Sequential' /\ \A k \in Kinds : Quietly(k)
           /\ UNCHANGED <<stores, queue, job, faults, overlap>>
           /\ \A s \in Records : Due(s) => Due(s)'
           /\ \A s \in Records : s # r => hs'[s] = hs[s]
           /\ Due(r)'
  <1>1. /\ LogOrder'
        /\ Due(r)' /\ \A s \in Records : Due(s) => Due(s)'
        /\ \A s \in Records : s # r => hs'[s] = hs[s]
    BY LoggedDue
  <1>2. UNCHANGED <<stores, queue, job, faults, overlap>>
    BY DEF UserWrites, Logged
  <1>3. Sequential'
    <2>1. /\ \A v, w \in Loops : Busy(v)' /\ Busy(w)' => v = w
          /\ Busy(Retry)' => job'[Retry].ev \in queue'
      BY <1>2 DEF Sequential, Busy
    <2>2. ASSUME NEW w \in Loops, Busy(w)', ~At(w, "fetch")'
          PROVE  Due(Rec(w))'
      <3>1. PICK s \in Records : s = Rec(w) /\ Due(s)
        <4>1. Busy(w) /\ ~At(w, "fetch")
          BY <1>2, <2>2 DEF Busy, At
        <4> QED
          BY <4>1, AtBusy DEF Sequential
      <3>2. Due(s)' /\ Rec(w)' = s
        BY <1>1, <1>2, <3>1 DEF Rec
      <3> QED
        BY <3>2 DEF Due, InLog, PutOf, DelOf
    <2> QED
      BY <2>1, <2>2 DEF Sequential, Retry
  <1>4. ASSUME NEW k \in Kinds PROVE Quietly(k)
    BY <1>1, <1>2 DEF Quietly, Of
  <1> QED
    BY <1>1, <1>2, <1>3, <1>4

(* Steps that leave the events and the jobs alone.                         *)
LEMMA SameSeq ==
    ASSUME LogOrder, Sequential, UNCHANGED <<inputs, job>>
    PROVE  LogOrder' /\ Sequential' /\ \A k \in Kinds : Quietly(k)
  <1>1. UNCHANGED <<hs, log, queue, job>>
    BY DEF inputs
  <1>2. LogOrder'
    BY <1>1 DEF LogOrder, PutOf, DelOf
  <1>3. Sequential'
    BY <1>1 DEF Sequential, Busy, At, Rec, Due, InLog, PutOf, DelOf, Retry
  <1>4. \A s \in Records : Due(s)' <=> Due(s)
    BY <1>1, DueSame
  <1> QED
    BY <1>1, <1>2, <1>3, <1>4 DEF Quietly, Of

(* The first event of a log.                                               *)
LEMMA InLogHead ==
    ASSUME TypeOK, NEW w \in LiveLoops, log[w] # <<>>
    PROVE  /\ Head(log[w]) \in Event /\ InLog(Head(log[w])) /\ Head(log[w]).r \in Records
           /\ Head(log[w]).type = "put" => Head(log[w]) = PutOf(Head(log[w]).r)
           /\ Head(log[w]).type = "del" => Head(log[w]) = DelOf(Head(log[w]).r)
  <1> DEFINE e == Head(log[w])
  <1>1. log[w] \in Seq(Event) /\ Len(log[w]) \in Nat
    BY DEF TypeOK, InputsOK
  <1>2. e = log[w][1] /\ 1 \in 1..Len(log[w]) /\ e \in Event
    BY <1>1
  <1>3. Home[By[e.r]] = w
    BY <1>2 DEF TypeOK, InputsOK
  <1> HIDE DEF e
  <1>4. e.r \in Records /\ e = [type |-> e.type, r |-> e.r]
    BY <1>2 DEF Event
  <1>5. InLog(e)
    BY <1>2, <1>3 DEF InLog
  <1> QED
    BY <1>2, <1>4, <1>5 DEF PutOf, DelOf, e

(* Without overlap, an event is taken only when nothing is handled.        *)
LEMMA TakeSeq ==
    ASSUME TypeOK, LogOrder, Sequential, NEW w \in Loops, Take(w), ~overlap'
    PROVE  /\ LogOrder' /\ Sequential' /\ \A k \in Kinds : Quietly(k)
           /\ UNCHANGED <<stores, inputs, faults, overlap>>
           /\ \A v \in Loops : ~Busy(v)
           /\ \A v \in Loops : v # w => job'[v] = job[v]
           /\ job'[w].pc \in {"fetch", "find"} /\ job'[w].ev.r \in Records
  <1>1. PICK e \in Event :
        /\ Start(w, e)
        /\ w # Retry => InLog(e) /\ e = Head(log[w])
        /\ w = Retry => e \in queue
        /\ e.r \in Records
        /\ e.type = "del" => e = DelOf(e.r)
        /\ w = Retry => e.type = "put"
    <2>1. CASE w # Retry
      BY <2>1, InLogHead DEF Take, Loops
    <2>2. CASE w = Retry
      <3>1. PICK e \in queue : Start(w, e)
        BY <2>2 DEF Take
      <3>2. PICK r \in Records : e = PutOf(r)
        BY <3>1 DEF TypeOK, InputsOK
      <3>3. e \in Event /\ e.r \in Records /\ e.type = "put"
        BY <3>2, Events
      <3> QED
        BY <2>2, <3>1, <3>3
    <2> QED
      BY <2>1, <2>2
  <1> DEFINE j == [Idle EXCEPT !.pc = IF e.type = "put" THEN "fetch" ELSE "find", !.ev = e]
  <1>2. ~Busy(w) /\ job' = [job EXCEPT ![w] = j] /\ UNCHANGED <<stores, inputs, faults>>
    BY <1>1 DEF Start
  <1>3. overlap' = overlap /\ \A v \in Loops : ~Busy(v)
    BY <1>1, <1>2 DEF Start, Raced, TypeOK, InputsOK
  <1>4. j.pc = (IF e.type = "put" THEN "fetch" ELSE "find") /\ j.ev = e
    BY DEF Idle
  <1> HIDE DEF j
  <1>5. job'[w] = j /\ \A v \in Loops : v # w => job'[v] = job[v]
    BY <1>2 DEF TypeOK, JobsOK
  <1>6. UNCHANGED <<hs, log, queue>>
    BY <1>2 DEF inputs
  <1>7. LogOrder'
    BY <1>6 DEF LogOrder, PutOf, DelOf
  <1>8. \A s \in Records : Due(s)' <=> Due(s)
    BY <1>6, DueSame
  <1>9. Sequential'
    <2>1. \A v \in Loops : Busy(v)' => v = w
      BY <1>3, <1>5 DEF Busy
    <2>2. Busy(Retry)' => job'[Retry].ev \in queue'
      BY <2>1, <1>1, <1>4, <1>5, <1>6 DEF Loops
    <2>3. ASSUME NEW v \in Loops, Busy(v)', ~At(v, "fetch")'
          PROVE  Due(Rec(v))'
      <3>1. v = w /\ e.type # "put"
        BY <2>1, <2>3, <1>4, <1>5 DEF At
      <3>2. e = DelOf(e.r) /\ InLog(e) /\ e.r \in Records
        BY <1>1, <3>1 DEF Event
      <3>3. PICK s \in Records : s = e.r
        BY <3>2
      <3>4. Due(s)
        BY <3>2, <3>3 DEF Due
      <3>5. Due(s)' /\ Rec(v)' = s
        BY <1>4, <1>5, <1>8, <3>1, <3>3, <3>4 DEF Rec
      <3> QED
        BY <3>5 DEF Due, InLog, PutOf, DelOf
    <2> QED
      BY <2>1, <2>2, <2>3 DEF Sequential, Retry
  <1>10. \A k \in Kinds : Quietly(k)
    BY <1>4, <1>5, <1>6, <1>8 DEF Quietly, Of
  <1> QED
    BY <1>1, <1>2, <1>3, <1>4, <1>5, <1>7, <1>9, <1>10

(* A step of the only handler there is.                                    *)
LEMMA MoveSeq ==
    ASSUME TypeOK, LogOrder, Sequential, NEW w \in Loops, Busy(w), Handle(w),
           NEW r \in Records, r = Rec(w)
    PROVE  /\ LogOrder' /\ Sequential' /\ hs' = hs /\ overlap' = overlap
           /\ Alone(w) /\ \A v \in Loops : v # w => job'[v] = job[v]
           /\ job'[w] = Idle \/ (job'[w].ev = job[w].ev /\ job'[w].pc \notin {"idle", "fetch", "find"})
           /\ \A k \in Kinds : k # Kind[r] => Quietly(k)
           /\ \A s \in Records : s # r /\ Due(s) => Due(s)'
           /\ job'[w] # Idle => Due(r)'
           /\ ~At(w, "fetch") => Due(r)
           /\ ~Ends(w) /\ ~At(w, "fetch") => Due(r)'
           /\ At(w, "fetch") /\ ~Ignored(r) /\ Due(r) => Due(r)'
           /\ Ends(w) /\ ~At(w, "fetch") => Due(r)' \/ (job[w].ev.type = "put" <=> hs[r] # Nothing)
  <1>0. (\E j \in JobType : Goes(w, j)) \/ Ends(w) \/ Defers(w)
    <2>1. ~Take(w)
      BY DEF Take, Start
    <2> QED
      BY <2>1, HandleMoves
  <1>1. /\ LogOrder' /\ hs' = hs
        /\ \A s \in Records : s # r /\ Due(s) => Due(s)'
        /\ ~Ends(w) /\ ~At(w, "fetch") => Due(r)'
        /\ At(w, "fetch") /\ ~Ignored(r) /\ Due(r) => Due(r)'
        /\ ~At(w, "fetch") => Due(r)' \/ (job[w].ev.type = "put" <=> hs[r] # Nothing)
    BY <1>0, MovesDue
  <1>2. Alone(w) /\ (~At(w, "fetch") => Due(r))
    BY DEF Alone, Sequential
  <1>3. overlap' = overlap
    BY <1>0 DEF Goes, Ends, Defers, Finish, Requeue
  <1>4. \E j \in JobType : /\ job' = [job EXCEPT ![w] = j]
                           /\ j = Idle \/ ((j.ev = job[w].ev /\ j.pc \notin {"idle", "fetch", "find"}) /\ Goes(w, j))
    BY <1>0, IdleOK DEF Goes, Ends, Defers, Finish, Requeue
  <1>5. /\ \A v \in Loops : v # w => job'[v] = job[v]
        /\ job'[w] = Idle \/ (job'[w].ev = job[w].ev /\ job'[w].pc \notin {"idle", "fetch", "find"} /\ Goes(w, job'[w]))
    BY <1>4 DEF TypeOK, JobsOK
  <1>6. job'[w] # Idle => Due(r)' /\ UNCHANGED <<hs, log, queue>>
    <2>1. SUFFICES ASSUME job'[w] # Idle PROVE Due(r)' /\ UNCHANGED <<hs, log, queue>>
      OBVIOUS
    <2>2. UNCHANGED <<hs, log, queue>> /\ (At(w, "fetch") => hs[r] # Nothing)
      BY <1>5, <2>1 DEF Goes, inputs, At
    <2>3. Due(r)
      <3>1. CASE ~At(w, "fetch")
        BY <3>1, <1>2
      <3>2. CASE At(w, "fetch")
        <4>1. job[w].ev = PutOf(r)
          BY <3>2, AtBusy DEF At, JobShape, PutSteps, PutOf
        <4>2. CASE w = Retry
          BY <2>2, <3>2, <4>1, <4>2 DEF Due, Sequential
        <4>3. CASE w # Retry
          <5>1. w \in LiveLoops /\ log[w] # <<>> /\ job[w].ev = Head(log[w])
            BY <4>3 DEF Loops, TypeOK, JobsOK
          <5>2. InLog(PutOf(r))
            BY <4>1, <5>1, InLogHead
          <5> QED
            BY <2>2, <3>2, <5>2 DEF Due
        <4> QED
          BY <4>2, <4>3
      <3> QED
        BY <3>1, <3>2
    <2> QED
      BY <2>2, <2>3, DueSame
  <1>7. Sequential'
    <2>1. \A v \in Loops : Busy(v)' => v = w /\ job'[w] # Idle
      BY <1>2, <1>5, IdleOK DEF Alone, Busy
    <2>2. Busy(Retry)' => job'[Retry].ev \in queue'
      <3>1. SUFFICES ASSUME Busy(Retry)' PROVE job'[Retry].ev \in queue'
        OBVIOUS
      <3>2. w = Retry /\ job'[w] # Idle
        BY <2>1, <3>1 DEF Loops
      <3> QED
        BY <1>5, <1>6, <3>2 DEF Sequential
    <2>3. ASSUME NEW v \in Loops, Busy(v)', ~At(v, "fetch")'
          PROVE  Due(Rec(v))'
      <3>1. Due(r)' /\ Rec(v)' = r
        BY <2>1, <2>3, <1>5, <1>6 DEF Rec
      <3> QED
        BY <3>1 DEF Due, InLog, PutOf, DelOf
    <2> QED
      BY <2>1, <2>2, <2>3 DEF Sequential, Retry
  <1>8. ASSUME NEW k \in Kinds, k # Kind[r] PROVE Quietly(k)
    <2>1. \A s \in Of(k) : s \in Records /\ s # r
      BY <1>8 DEF Of
    <2>2. ASSUME NEW v \in Loops
          PROVE  \/ job'[v] = job[v] \/ job'[v] = Idle
                 \/ job'[v].pc # "idle" /\ Kind[job'[v].ev.r] # k
      BY <1>5, <1>8 DEF Rec
    <2> QED
      BY <1>1, <2>1, <2>2 DEF Quietly
  <1> QED
    BY <1>1, <1>2, <1>3, <1>5, <1>6, <1>7, <1>8

(* The steps there are while handlers do not overlap.                      *)
Written ==
    \E r \in Records : \E c \in Blob(r) \cup {Nothing}, type \in {"put", "del"} :
        (c = Nothing <=> type = "del") /\ UserWrites(r, c, type)
Viewed == \/ \E p \in Posts : ViewCounts(p)
          \/ \E u \in Users : ViewUser(u) \/ ViewFollows(u)
          \/ \E t \in Targets : ViewTags(t)

(* Every step is one of a homeserver, a handler or a reader.               *)
LEMMA NextSplits ==
    ASSUME TypeOK, Next
    PROVE  \/ Written
           \/ \E w \in Loops : Take(w)
           \/ \E w \in Loops : Busy(w) /\ Handle(w)
           \/ \E p \in Posts : PostArrives(p)
           \/ Viewed
  <1>1. ASSUME NEW r \in Records, NEW c \in Blob(r), UserPuts(r, c) PROVE Written
    <2>1. c # Nothing
      BY SocialHandlerAssumption DEF Blob
    <2> QED
      <3>1. UserWrites(r, c, "put")
        BY <1>1 DEF UserPuts, UserWrites
      <3> QED
        BY <2>1, <3>1 DEF Written
  <1>2. ASSUME NEW r \in Records, UserDeletes(r) PROVE Written
    <2>1. UserWrites(r, Nothing, "del")
      BY <1>2 DEF UserDeletes, UserWrites
    <2> QED
      BY <2>1 DEF Written
  <1>3. ASSUME NEW w \in Loops, Handle(w) PROVE Take(w) \/ (Busy(w) /\ Handle(w))
    BY <1>3, HandleMoves
  <1> QED
    BY <1>1, <1>2, <1>3 DEF Next, Viewed

(* Without overlap, a reader fills in only when nothing is handled.        *)
LEMMA ViewedQuiet ==
    ASSUME TypeOK, Viewed, ~overlap'
    PROVE  /\ Quiet /\ UNCHANGED <<graph, disk, inputs, job, faults, overlap>> /\ index' # index
  BY DEF Viewed, ViewCounts, ViewUser, ViewFollows, ViewTags, View, Raced, TypeOK, InputsOK

(* Nothing is due once nothing waits.                                      *)
LEMMA QuietDue ==
    ASSUME TypeOK, Quiet
    PROVE  \A r \in Records : ~Due(r)
  <1>1. SUFFICES ASSUME NEW r \in Records PROVE ~Due(r)
    OBVIOUS
  <1>2. Home[By[r]] \in LiveLoops /\ PutOf(r).r = r /\ DelOf(r).r = r
    BY Events
  <1>3. log[Home[By[r]]] = <<>> /\ queue = {}
    BY <1>2 DEF Quiet
  <1> QED
    BY <1>2, <1>3 DEF Due, InLog

(* Handlers never overlap again once they did.                             *)
LEMMA OverlapStays ==
    ASSUME TypeOK, Next, ~overlap'
    PROVE  ~overlap
  <1>1. CASE Written
    BY <1>1 DEF Written, UserWrites, Logged
  <1>2. ASSUME NEW w \in Loops, Take(w) PROVE ~overlap
    BY <1>2 DEF Take, Start, Raced, TypeOK, InputsOK
  <1>3. ASSUME NEW w \in Loops, Busy(w), Handle(w) PROVE ~overlap
    <2>1. ~Take(w)
      BY <1>3 DEF Take, Start
    <2> QED
      BY <1>3, <2>1, HandleMoves DEF Goes, Ends, Defers, Finish, Requeue
  <1>4. CASE \E p \in Posts : PostArrives(p)
    BY <1>4 DEF PostArrives
  <1>5. CASE Viewed
    BY <1>5, ViewedQuiet
  <1> QED
    BY <1>1, <1>2, <1>3, <1>4, <1>5, NextSplits

(* The stores fall into groups, and a step touches few of them.            *)
FollowsKept == graph'.follows = graph.follows /\ SameFollows(index, index')
TagsKept    == graph'.tags = graph.tags /\ SameTags(index, index')
MarksKept   == graph'.bookmarks = graph.bookmarks /\ SameMarks(index, index')
FilesKept   == graph'.files = graph.files /\ disk' = disk
UsersKept   == graph'.user = graph.user /\ SameUsers(index, index')
PostsKept   == graph'.posts = graph.posts
CountsKept  == SameScores(index, index') /\ SameCached(index, index')
RankKept    == SameRank(index, index')
Touches(groups) ==
    /\ "follows" \notin groups => FollowsKept
    /\ "tags" \notin groups => TagsKept
    /\ "marks" \notin groups => MarksKept
    /\ "files" \notin groups => FilesKept
    /\ "users" \notin groups => UsersKept
    /\ "posts" \notin groups => PostsKept
    /\ "counts" \notin groups => CountsKept
    /\ "rank" \notin groups => RankKept

(* The step a handler is at tells the kind of its record.                  *)
LEMMA PcKind ==
    ASSUME TypeOK, NEW w \in Loops, Busy(w)
    PROVE  LET l == job[w].pc
               k == Kind[Rec(w)]
               t == job[w].ev.type IN
           /\ l \in {"follow", "unfollow", "lost"} => k = "follow"
           /\ l \in {"tag", "untag", "sync", "cleanup", "uncount"} => k = "tag"
           /\ l \in {"mark", "unmark"} => k = "bookmark"
           /\ l \in {"write", "erase"} => k = "file"
           /\ l \in {"profile", "search", "details", "labels", "resync", "unsearch", "undetails"} => k = "profile"
           /\ l \in {"edge", "unedge"} => k \in {"follow", "tag", "bookmark"}
           /\ l \notin {"fetch", "find"} => Rec(w) \in Of(k)
           /\ l \in PutSteps => job[w].ev = PutOf(Rec(w)) /\ t = "put"
           /\ l \in DelSteps => job[w].ev = DelOf(Rec(w)) /\ t = "del"
           /\ l = "unedge" /\ k = "tag" => job[w].edge = TagEdge(Rec(w))
  <1> DEFINE j == job[w]
             r == Rec(w)
  <1>1. /\ JobShape(j) /\ j.ev.r = r /\ r \in Records /\ j.pc # "idle"
        /\ Kind[r] \in {"follow", "tag", "bookmark", "profile", "file"}
        /\ j.ev = [type |-> j.ev.type, r |-> r] /\ j.ev.type \in {"put", "del"}
    BY AtBusy DEF Busy
  <1> HIDE DEF j, r
  <1>2. j.pc \notin {"idle", "fetch", "find", "done"} => j.pc \in StepsOf(Kind[r])
    BY <1>1 DEF JobShape
  <1>3. /\ j.pc \in {"follow", "unfollow", "lost"} => Kind[r] = "follow"
        /\ j.pc \in {"tag", "untag", "sync", "cleanup", "uncount"} => Kind[r] = "tag"
        /\ j.pc \in {"mark", "unmark"} => Kind[r] = "bookmark"
        /\ j.pc \in {"write", "erase"} => Kind[r] = "file"
        /\ j.pc \in {"profile", "search", "details", "labels", "resync", "unsearch", "undetails"} => Kind[r] = "profile"
        /\ j.pc \in {"edge", "unedge"} => Kind[r] \in {"follow", "tag", "bookmark"}
    BY <1>1, <1>2 DEF StepsOf
  <1>4. j.pc \notin {"fetch", "find"} => r \in Of(Kind[r])
    BY <1>1 DEF JobShape, Of
  <1>5. /\ j.pc \in PutSteps => j.ev = PutOf(r) /\ j.ev.type = "put"
        /\ j.pc \in DelSteps => j.ev = DelOf(r) /\ j.ev.type = "del"
    BY <1>1 DEF JobShape, PutOf, DelOf
  <1>6. j.pc = "unedge" /\ Kind[r] = "tag" => j.edge = TagEdge(r)
    BY <1>1 DEF JobShape, DelSteps
  <1> QED
    BY <1>3, <1>4, <1>5, <1>6 DEF j, r

(* A handler touches the stores of its own kind, and users.                *)
LEMMA Kept ==
    ASSUME TypeOK, NEW w \in Loops, Busy(w), Handle(w),
           NEW r \in Records, r = Rec(w), At(w, "undetails") => Clear(By[r])
    PROVE  /\ Kind[r] = "follow" => Touches({"follows", "users"})
           /\ Kind[r] = "tag" => Touches({"tags", "counts", "rank", "users"})
           /\ Kind[r] = "bookmark" => Touches({"marks", "users"})
           /\ Kind[r] = "file" => Touches({"files"})
           /\ Kind[r] = "profile" => Touches({"users", "rank", "posts"})
           /\ ~At(w, "undetails") => PostsKept
           /\ Kind[r] # "profile" /\ ~Defers(w) => UsersKept
  <1> DEFINE Goal == /\ Kind[r] = "follow" => Touches({"follows", "users"})
                     /\ Kind[r] = "tag" => Touches({"tags", "counts", "rank", "users"})
                     /\ Kind[r] = "bookmark" => Touches({"marks", "users"})
                     /\ Kind[r] = "file" => Touches({"files"})
                     /\ Kind[r] = "profile" => Touches({"users", "rank", "posts"})
                     /\ ~At(w, "undetails") => PostsKept
                     /\ Kind[r] # "profile" /\ ~Defers(w) => UsersKept
  <1>0. /\ graph \in GraphType /\ index \in IndexType /\ By[r] \in Users
        /\ Kind[r] \in Kinds /\ (Kind[r] = "tag" => Label[r] \in Labels) /\ job[w].body \in Profile \cup {NoUser}
        /\ (Target(r) = "post" <=> To[r] \in Posts) /\ (Target(r) = "user" <=> To[r] \in Users)
    BY AtBusy DEF TypeOK, StoresOK, Kinds
  <1>k. /\ job[w].pc \in {"follow", "unfollow", "lost"} => Kind[r] = "follow"
        /\ job[w].pc \in {"tag", "untag", "sync", "cleanup", "uncount"} => Kind[r] = "tag"
        /\ job[w].pc \in {"mark", "unmark"} => Kind[r] = "bookmark"
        /\ job[w].pc \in {"write", "erase"} => Kind[r] = "file"
        /\ job[w].pc \in {"profile", "search", "details", "labels", "resync", "unsearch", "undetails"} => Kind[r] = "profile"
        /\ job[w].pc \in {"edge", "unedge"} => Kind[r] \in {"follow", "tag", "bookmark"}
        /\ job[w].pc \notin {"fetch", "find"} => r \in Of(Kind[r])
    BY PcKind
  <1> DEFINE Same == SameFollows(index, index') /\ SameTags(index, index') /\ SameRank(index, index')
                     /\ SameMarks(index, index') /\ SameUsers(index, index') /\ SameScores(index, index')
                     /\ SameCached(index, index')
  <1>s. index' = index => Same
    BY DEF SameFollows, SameTags, SameRank, SameMarks, SameUsers, SameScores, SameCached
  <1>a. ASSUME UNCHANGED stores PROVE Goal
    BY <1>a, <1>s DEF stores, Touches, FollowsKept, TagsKept, MarksKept, FilesKept, UsersKept, PostsKept, CountsKept, RankKept
  <1> HIDE DEF Goal
  <1>1. CASE Fetch(w) \/ Find(w) \/ StoreEvent(w) \/ ReadLabels(w)
    <2>1. UNCHANGED stores
      BY <1>1, FindStep DEF Fetch, StoreEvent, ReadLabels
    <2> QED
      BY <1>a, <2>1 DEF Goal
  <1>2. CASE SyncRank(w)
    <2>1. job[w].pc = "sync" /\ UNCHANGED <<graph, disk>> /\ To[r] \in Users /\ Label[r] \in Labels
      BY <1>2, <1>0, <1>k, AtBusy DEF SyncRank, At, JobShape
    <2>2. SameFollows(index, index') /\ SameTags(index, index') /\ SameMarks(index, index') /\ SameUsers(index, index')
          /\ SameScores(index, index') /\ SameCached(index, index')
      <3>1. index' = index \/ index' = SyncIndexScore(index, To[r], Label[r])
        BY <1>2 DEF SyncRank
      <3> QED
        BY <1>0, <1>s, <2>1, <3>1, SyncIndex
    <2> QED
      BY <1>k, <2>1, <2>2 DEF Goal, Touches, FollowsKept, TagsKept, MarksKept, FilesKept, UsersKept, PostsKept, CountsKept, RankKept
  <1>3. CASE SyncLabel(w)
    <2>1. PICK l \in Labels : index' = index \/ index' = SyncIndexScore(index, By[r], l)
      <3>1. job[w] \in JobType
        BY AtBusy
      <3>2. job[w].labels \subseteq Labels
        BY <3>1 DEF JobType
      <3> QED
        BY <1>3, <3>2 DEF SyncLabel
    <2>2. SameFollows(index, index') /\ SameTags(index, index') /\ SameMarks(index, index') /\ SameUsers(index, index')
          /\ SameScores(index, index') /\ SameCached(index, index')
      BY <1>0, <1>s, <2>1, SyncIndex
    <2>3. job[w].pc = "resync" /\ UNCHANGED <<graph, disk>>
      BY <1>3 DEF SyncLabel, At
    <2> QED
      BY <1>k, <2>2, <2>3 DEF Goal, Touches, FollowsKept, TagsKept, MarksKept, FilesKept, UsersKept, PostsKept, CountsKept, RankKept
  <1>4. CASE LostFollow(w)
    <2>1. UNCHANGED <<graph, disk>> /\ job[w].pc = "lost"
      BY <1>4 DEF LostFollow, At
    <2>2. Same
      <3>1. index' = index \/ index' = Tell(index, By[r], To[r], "lost")
        BY <1>4 DEF LostFollow
      <3>2. To[r] \in Users /\ "lost" \in NoteKinds
        BY <2>1, <1>k, SocialGraphAssumption DEF NoteKinds
      <3> QED
        BY <1>0, <1>s, <3>1, <3>2, TellIndex
    <2> QED
      BY <1>k, <2>1, <2>2 DEF Goal, Touches, FollowsKept, TagsKept, MarksKept, FilesKept, UsersKept, PostsKept, CountsKept, RankKept
  <1>5. CASE Mark(w) \/ Unmark(w)
    <2>1. UNCHANGED <<graph, disk>> /\ job[w].pc \in {"mark", "unmark"}
      BY <1>5 DEF Mark, Unmark, At
    <2>2. Kind[r] = "bookmark" /\ To[r] \in Posts
      BY <1>0, <1>k, <2>1 DEF Of, Ignored
    <2>3. PICK k \in 0..2 : \E y \in {PutBookmark(index, By[r], To[r], k), DelBookmark(index, By[r], To[r], k)} : index' = y
      BY <1>5 DEF Mark, Unmark
    <2>4. /\ SameFollows(index, index') /\ SameTags(index, index') /\ SameRank(index, index')
          /\ SameUsers(index, index') /\ SameScores(index, index') /\ SameCached(index, index')
      BY <1>0, <2>2, <2>3, MarkIndex, SMTT(30)
    <2> QED
      BY <2>1, <2>2, <2>4 DEF Goal, Touches, FollowsKept, TagsKept, MarksKept, FilesKept, UsersKept, PostsKept, CountsKept, RankKept
  <1>6. CASE WriteFile(w) \/ EraseFile(w)
    <2>1. index' = index /\ Kind[r] = "file" /\ r \in Of("file")
      BY <1>6, <1>k DEF WriteFile, EraseFile, At
    <2>2. graph' = graph \/ graph' \in {CreateFile(graph, r), DeleteFile(graph, r)}
      BY <1>6 DEF WriteFile, EraseFile
    <2>3. /\ graph'.user = graph.user /\ graph'.posts = graph.posts /\ graph'.follows = graph.follows
          /\ graph'.tags = graph.tags /\ graph'.bookmarks = graph.bookmarks
      BY <1>0, <2>1, <2>2, FileGraph
    <2> QED
      BY <1>s, <2>1, <2>3 DEF Goal, Touches, FollowsKept, TagsKept, MarksKept, FilesKept, UsersKept, PostsKept, CountsKept, RankKept
  <1>7. CASE CleanUp(w) \/ InvalidateCounts(w)
    <2>1. job[w].pc \in {"cleanup", "uncount"} /\ UNCHANGED <<graph, disk>> /\ To[r] \in Posts /\ Label[r] \in Labels
      BY <1>7, <1>0, <1>k, AtBusy DEF CleanUp, InvalidateCounts, At, JobShape
    <2>2. /\ SameFollows(index, index') /\ SameRank(index, index')
          /\ SameMarks(index, index') /\ SameUsers(index, index')
      <3>1. CASE CleanUp(w)
        <4>1. PICK k \in 0..2 : index' = DelPostByTag(index, To[r], Label[r], k)
          BY <3>1 DEF CleanUp
        <4> QED
          BY <1>0, <2>1, <4>1, UnlistIndex
      <3>2. CASE InvalidateCounts(w)
        <4>1. index' = index \/ index' = [index EXCEPT !.counts[To[r]] = NoScore]
          BY <3>2 DEF InvalidateCounts
        <4> QED
          BY <1>0, <1>s, <2>1, <4>1, CachedIndex
      <3> QED
        BY <1>7, <3>1, <3>2
    <2> QED
      BY <1>k, <2>1, <2>2 DEF Goal, Touches, FollowsKept, TagsKept, MarksKept, FilesKept, UsersKept, PostsKept, CountsKept, RankKept
  <1>8. CASE PutProfile(w)
    <2>1. index' = index /\ disk' = disk /\ job[w].pc = "profile" /\ Kind[r] = "profile"
      BY <1>8, <1>k DEF PutProfile, At
    <2>2. graph' = graph \/ (graph' = CreateUser(graph, By[r], job[w].body) /\ job[w].body \in Profile)
      <3>1. job[w].body \in Profile
        <4>1. (\E n \in Names : job[w].body = FromHomeserver(n)) \/ job[w].body = Tombstone
          BY <2>1, AtBusy DEF JobShape
        <4> QED
          BY <4>1, Bodies
      <3> QED
        BY <1>8, <3>1 DEF PutProfile
    <2>3. /\ graph'.posts = graph.posts /\ graph'.follows = graph.follows
          /\ graph'.tags = graph.tags /\ graph'.bookmarks = graph.bookmarks /\ graph'.files = graph.files
      BY <1>0, <2>2, CreateUserGraph
    <2> QED
      BY <1>s, <2>1, <2>3 DEF Goal, Touches, FollowsKept, TagsKept, MarksKept, FilesKept, UsersKept, PostsKept, CountsKept, RankKept
  <1>9. CASE PutUserSearch(w) \/ PutUserDetails(w) \/ DeleteSearch(w)
    <2>1. job[w].pc \in {"search", "details", "unsearch"} /\ UNCHANGED <<graph, disk>> /\ Kind[r] = "profile"
      BY <1>9, <1>k DEF PutUserSearch, PutUserDetails, DeleteSearch, At
    <2>2. /\ SameFollows(index, index') /\ SameRank(index, index') /\ SameTags(index, index')
          /\ SameMarks(index, index') /\ SameScores(index, index') /\ SameCached(index, index')
      <3>1. CASE PutUserSearch(w)
        <4>0. job[w].body \in Profile
          <5>1. (\E n \in Names : job[w].body = FromHomeserver(n)) \/ job[w].body = Tombstone
            BY <3>1, AtBusy DEF JobShape, PutUserSearch, At
          <5> QED
            BY <5>1, Bodies
        <4>1. PICK k \in 0..4 : index' = PutSearch(index, By[r], job[w].body, k)
          BY <3>1 DEF PutUserSearch
        <4> QED
          BY <1>0, <4>0, <4>1, SearchIndex
      <3>2. CASE PutUserDetails(w)
        <4>1. index' = index \/ index' = [index EXCEPT !.details[By[r]] = job[w].body]
          BY <3>2 DEF PutUserDetails
        <4> QED
          BY <1>0, <1>s, <4>1, DetailsIndex
      <3>3. CASE DeleteSearch(w)
        <4>1. PICK k \in 0..2 : index' = DeleteExistingRecords(index, By[r], k)
          BY <3>3 DEF DeleteSearch
        <4> QED
          BY <1>0, <4>1, UnsearchIndex
      <3> QED
        BY <1>9, <3>1, <3>2, <3>3
    <2> QED
      BY <2>1, <2>2 DEF Goal, Touches, FollowsKept, TagsKept, MarksKept, FilesKept, UsersKept, PostsKept, CountsKept, RankKept
  <1>10. CASE RemoveUser(w)
    <2>1. job[w].pc = "undetails" /\ disk' = disk /\ Kind[r] = "profile" /\ Clear(By[r]) /\ At(w, "undetails")
      BY <1>10, <1>k DEF RemoveUser, At
    <2>2. /\ SameFollows(index, index') /\ SameRank(index, index') /\ SameTags(index, index')
          /\ SameMarks(index, index') /\ SameScores(index, index') /\ SameCached(index, index')
      <3>1. index' = index \/ index' = [index EXCEPT !.details[By[r]] = NoUser]
        BY <1>10 DEF RemoveUser
      <3> QED
        BY <1>0, <1>s, <3>1, DetailsIndex
    <2>3. /\ graph'.follows = graph.follows /\ graph'.tags = graph.tags
          /\ graph'.bookmarks = graph.bookmarks /\ graph'.files = graph.files
      <3>1. graph' = graph \/ graph' = DeleteUser(graph, By[r])
        BY <1>10 DEF RemoveUser
      <3>2. CASE graph' = DeleteUser(graph, By[r])
        <4>1. /\ graph'.follows = {e \in graph.follows : By[r] \notin {e[1], e[2]}}
              /\ graph'.tags = {e \in graph.tags : By[r] \notin {e.by, e.to}}
              /\ graph'.bookmarks = {e \in graph.bookmarks : e[1] # By[r]}
              /\ graph'.files = graph.files
          BY <1>0, <3>2, DeleteUserGraph
        <4> QED
          BY <2>1, <4>1 DEF Clear
      <3> QED
        BY <3>1, <3>2
    <2> QED
      BY <2>1, <2>2, <2>3 DEF Goal, Touches, FollowsKept, TagsKept, MarksKept, FilesKept, UsersKept, PostsKept, CountsKept, RankKept
  <1>11. CASE DeleteEdge(w)
    <2>1. index' = index /\ disk' = disk /\ job[w].pc = "unedge" /\ Kind[r] \in {"follow", "tag", "bookmark"}
      BY <1>11, <1>k DEF DeleteEdge, At
    <2>2. PICK e \in Edges \cup {Nothing} : graph' = graph \/ graph' = DropEdge(graph, r, e)
      <3>1. job[w].edge \in Edges \cup {Nothing}
        BY AtBusy DEF JobType
      <3> QED
        BY <1>11, <3>1 DEF DeleteEdge, DropEdge
    <2>3. /\ graph'.user = graph.user /\ graph'.posts = graph.posts /\ graph'.files = graph.files
          /\ Kind[r] # "follow" => graph'.follows = graph.follows
          /\ Kind[r] # "tag" => graph'.tags = graph.tags
          /\ Kind[r] # "bookmark" => graph'.bookmarks = graph.bookmarks
      <3>1. CASE graph' = DropEdge(graph, r, e)
        BY <1>0, <2>1, <3>1, DeleteEdgeGraph
      <3> QED
        BY <2>2, <3>1
    <2> QED
      BY <1>s, <2>1, <2>3 DEF Goal, Touches, FollowsKept, TagsKept, MarksKept, FilesKept, UsersKept, PostsKept, CountsKept, RankKept
  <1>12. CASE PutEdge(w)
    <2>0. /\ job[w].pc = "edge" /\ Deferrable(r) /\ disk' = disk /\ job[w].ev = PutOf(r)
          /\ \/ /\ Requeue(w)
                /\ IF Mends(r) = {} THEN graph' = graph /\ index' = index
                   ELSE /\ graph' = IngestGraph(graph, index, Mended(r))
                        /\ index' = FillUser(index, graph, Mended(r))
             \/ index' = index /\ (graph' = graph \/ graph' = StoreEdge(graph, r))
      BY <1>12, PutEdgeStep
    <2>1. Kind[r] \in {"follow", "tag", "bookmark"} /\ ~Ignored(r)
      BY <2>0 DEF Deferrable
    <2>2. CASE index' = index /\ (graph' = graph \/ graph' = StoreEdge(graph, r))
      <3>1. /\ graph'.user = graph.user /\ graph'.posts = graph.posts /\ graph'.files = graph.files
            /\ Kind[r] # "follow" => graph'.follows = graph.follows
            /\ Kind[r] # "tag" => graph'.tags = graph.tags
            /\ Kind[r] # "bookmark" => graph'.bookmarks = graph.bookmarks
        <4>1. CASE graph' = StoreEdge(graph, r)
          BY <1>0, <2>1, <4>1, CreateEdgeGraph
        <4> QED
          BY <2>2, <4>1
      <3> QED
        BY <1>s, <2>0, <2>1, <2>2, <3>1 DEF Goal, Touches, FollowsKept, TagsKept, MarksKept, FilesKept, UsersKept, PostsKept, CountsKept, RankKept
    <2>3. CASE Requeue(w) /\ Mends(r) # {} /\ graph' = IngestGraph(graph, index, Mended(r)) /\ index' = FillUser(index, graph, Mended(r))
      <3>1. Mended(r) \in Users /\ Defers(w)
        BY <2>0, <2>3, MendedUser DEF Defers
      <3>2. /\ graph'.posts = graph.posts /\ graph'.follows = graph.follows
            /\ graph'.tags = graph.tags /\ graph'.bookmarks = graph.bookmarks /\ graph'.files = graph.files
        BY <1>0, <2>3, <3>1, IngestUserGraph
      <3>3. /\ SameFollows(index, index') /\ SameRank(index, index') /\ SameTags(index, index')
            /\ SameMarks(index, index') /\ SameScores(index, index') /\ SameCached(index, index')
        BY <1>0, <2>3, <3>1, FillUserIndex
      <3> QED
        BY <2>0, <2>1, <3>1, <3>2, <3>3 DEF Goal, Touches, FollowsKept, TagsKept, MarksKept, FilesKept, UsersKept, PostsKept, CountsKept, RankKept
    <2> QED
      BY <1>a, <2>0, <2>2, <2>3 DEF stores
  <1>13. ASSUME NEW a \in job[w].todo, JoinWrite(w, a) PROVE Goal
    <2>0. UNCHANGED <<graph, disk>>
      BY <1>13, JoinWriteStep
    <2>1. /\ SameMarks(index, index') /\ SameUsers(index, index') /\ SameRank(index, index')
          /\ Kind[r] # "tag" => SameTags(index, index') /\ SameScores(index, index') /\ SameCached(index, index')
          /\ Kind[r] # "follow" => SameFollows(index, index')
          /\ Kind[r] \in {"follow", "tag"}
      <3>1. /\ job[w].pc \in Joins /\ a \in TodoOf(job[w].pc)
            /\ job[w].pc \in {"follow", "unfollow"} => r \in Of("follow")
            /\ job[w].pc \in {"tag", "untag"} => r \in Of("tag")
            /\ job[w].pc = "untag" \/ a \in {"tagger", "count", "tell"} => To[r] \in Targets
            /\ a \in {"uncount", "posts"} => To[r] \in Posts
            /\ \/ index' = index
               \/ job[w].pc \in {"follow", "unfollow"} /\ index' = FollowEffect(index, r, job[w].friends, a)
               \/ a # "count" /\ job[w].pc = "tag" /\ index' = TagEffect(index, r, a)
               \/ a # "count" /\ job[w].pc = "untag" /\ index' = UntagEffect(index, r, job[w].known, a)
               \/ a = "count" /\ \E n \in {1, -1}, fields \in SUBSET Counters(r) : index' = Count(index, r, fields, n)
        <4>1. /\ job[w].pc \in Joins /\ a \in TodoOf(job[w].pc)
              /\ job[w].pc \in {"follow", "unfollow"} => r \in Of("follow")
              /\ job[w].pc \in {"tag", "untag"} => r \in Of("tag")
              /\ job[w].pc = "untag" \/ a \in {"tagger", "count", "tell"} => To[r] \in Targets
              /\ a \in {"uncount", "posts"} => To[r] \in Posts
          BY <1>13, JoinWriteStep
        <4>2. \E failing \in BOOLEAN :
                /\ a # "count" /\ failing => index' = index
                /\ a # "count" /\ ~failing /\ job[w].pc \in {"follow", "unfollow"} =>
                     index' = FollowEffect(index, r, job[w].friends, a)
                /\ a # "count" /\ ~failing /\ job[w].pc = "tag" => index' = TagEffect(index, r, a)
                /\ a # "count" /\ ~failing /\ job[w].pc = "untag" => index' = UntagEffect(index, r, job[w].known, a)
                /\ a = "count" /\ job[w].pc = "untag" /\ ~job[w].known => index' = index
                /\ a = "count" /\ ~(job[w].pc = "untag" /\ ~job[w].known) =>
                     \E fields \in SUBSET Counters(r) :
                       index' = Count(index, r, fields, IF job[w].pc = "tag" THEN 1 ELSE -1)
          BY <1>13, JoinWriteStep
        <4>3. a # "count" \/ job[w].pc \in {"tag", "untag"}
          BY <4>1 DEF TodoOf, Joins
        <4> QED
          BY <4>1, <4>2, <4>3 DEF Joins
      <3>j. job[w].friends \in BOOLEAN /\ job[w].known \in BOOLEAN
        BY AtBusy DEF JobType
      <3>2. CASE index' = index
        BY <1>s, <1>k, <3>1, <3>2 DEF Joins
      <3>3. CASE job[w].pc \in {"follow", "unfollow"} /\ index' = FollowEffect(index, r, job[w].friends, a)
        <4>1. a \in {"followers", "following", "unfollowers", "unfollowing", "tell"} /\ r \in Of("follow")
          BY <3>1, <3>3 DEF TodoOf
        <4> QED
          BY <1>0, <1>k, <3>3, <3>j, <4>1, FollowIndex
      <3>4. CASE a # "count" /\ job[w].pc = "tag" /\ index' = TagEffect(index, r, a)
        <4>1. a \in {"uncount", "tagger", "posts", "label", "tell"} /\ r \in Of("tag")
          BY <3>1, <3>4 DEF TodoOf
        <4>2. Kind[r] = "tag"
          BY <1>k, <3>4
        <4> QED
          BY <1>0, <3>1, <3>4, <4>1, <4>2, TagIndex
      <3>5. CASE a # "count" /\ job[w].pc = "untag" /\ index' = UntagEffect(index, r, job[w].known, a)
        <4>1. a \in {"untagger", "tell"} /\ r \in Of("tag") /\ Kind[r] = "tag" /\ To[r] \in Targets
          BY <1>k, <3>1, <3>5 DEF TodoOf, UntagWrites
        <4> QED
          BY <1>0, <3>5, <3>j, <4>1, UntagIndex
      <3>6. CASE a = "count" /\ \E n \in {1, -1}, fields \in SUBSET Counters(r) : index' = Count(index, r, fields, n)
        <4>1. r \in Of("tag") /\ Kind[r] = "tag" /\ To[r] \in Targets
          <5>1. job[w].pc \in {"tag", "untag"}
            BY <3>1, <3>6 DEF TodoOf, Joins
          <5> QED
            BY <1>k, <3>1, <3>6, <5>1
        <4> QED
          BY <1>0, <3>6, <4>1, CountIndex
      <3> QED
        BY <3>1, <3>2, <3>3, <3>4, <3>5, <3>6
    <2> QED
      BY <2>0, <2>1 DEF Goal, Touches, FollowsKept, TagsKept, MarksKept, FilesKept, UsersKept, PostsKept, CountsKept, RankKept
  <1>14. ~Take(w)
    BY DEF Take, Start
  <1> QED
    BY <1>1, <1>2, <1>3, <1>4, <1>5, <1>6, <1>7, <1>8, <1>9, <1>10, <1>11, <1>12, <1>13, <1>14 DEF Handle, Goal

(* Steps that are not taken by a handler.                                  *)
LEMMA OutsideKept ==
    ASSUME TypeOK
    PROVE  /\ UNCHANGED stores => Touches({})
           /\ \A p \in Posts : PostArrives(p) =>
                Touches({"posts", "counts"}) /\ graph'.posts = graph.posts \cup {p} /\ UNCHANGED <<inputs, job>>
           /\ \A u \in Users : ViewUser(u) => Touches({"users"})
           /\ \A u \in Users : ViewFollows(u) => Touches({"follows"})
           /\ \A t \in Targets : ViewTags(t) => Touches({"tags", "counts"})
           /\ \A p \in Posts : ViewCounts(p) => Touches({"counts"})
  <1> USE DEF Touches, FollowsKept, TagsKept, MarksKept, FilesKept, UsersKept, PostsKept, CountsKept, RankKept
  <1>0. graph \in GraphType /\ index \in IndexType
    BY DEF TypeOK, StoresOK
  <1>1. UNCHANGED stores => Touches({})
    BY DEF stores, SameFollows, SameTags, SameRank, SameMarks, SameUsers, SameScores, SameCached
  <1>2. ASSUME NEW p \in Posts, PostArrives(p)
        PROVE  Touches({"posts", "counts"}) /\ graph'.posts = graph.posts \cup {p} /\ UNCHANGED <<inputs, job>>
    <2>1. index' = [index EXCEPT !.stream[p] = IF IsReply[p] THEN @ ELSE 0] /\ UNCHANGED <<disk, inputs, job>>
      BY <1>2 DEF PostArrives
    <2>2. /\ SameFollows(index, index') /\ SameTags(index, index') /\ SameRank(index, index')
          /\ SameMarks(index, index') /\ SameUsers(index, index')
      BY <1>0, <2>1, StreamIndex
    <2>3. /\ graph'.user = graph.user /\ graph'.posts = graph.posts \cup {p} /\ graph'.follows = graph.follows
          /\ graph'.tags = graph.tags /\ graph'.bookmarks = graph.bookmarks /\ graph'.files = graph.files
      BY <1>0, <1>2 DEF PostArrives, GraphType
    <2> QED
      BY <2>1, <2>2, <2>3
  <1>3. ASSUME NEW u \in Users, ViewUser(u) PROVE Touches({"users"})
    <2>1. index' = FillUser(index, graph, u) /\ UNCHANGED <<graph, disk>>
      BY <1>3 DEF ViewUser, View
    <2> QED
      BY <1>0, <2>1, FillUserIndex
  <1>4. ASSUME NEW u \in Users, ViewFollows(u) PROVE Touches({"follows"})
    <2>1. index' = FillFollows(index, graph, u) /\ UNCHANGED <<graph, disk>>
      BY <1>4 DEF ViewFollows, View
    <2> QED
      BY <1>0, <2>1, FillFollowsIndex
  <1>5. ASSUME NEW t \in Targets, ViewTags(t) PROVE Touches({"tags", "counts"})
    <2>1. index' = FillTags(index, graph, t) /\ UNCHANGED <<graph, disk>>
      BY <1>5 DEF ViewTags, View
    <2> QED
      BY <1>0, <2>1, FillTagsIndex
  <1>6. ASSUME NEW p \in Posts, ViewCounts(p) PROVE Touches({"counts"})
    <2>1. index' = [index EXCEPT !.counts[p] = TagCount(graph, p)] /\ UNCHANGED <<graph, disk>>
      BY <1>6 DEF ViewCounts, View
    <2>2. TagCount(graph, p) \in Nat
      BY <1>0, EdgesFinite DEF TagCount
    <2> QED
      BY <1>0, <2>1, <2>2, CachedIndex
  <1> QED
    BY <1>1, <1>2, <1>3, <1>4, <1>5, <1>6

(* The steps of a handler, by the kind of its record.                      *)
LEMMA KindSteps ==
    ASSUME TypeOK, NEW w \in Loops, Busy(w), Handle(w), NEW r \in Records, r = Rec(w)
    PROVE  /\ Kind[r] = "follow" => \/ Fetch(w) \/ PutEdge(w) \/ \E a \in job[w].todo : JoinWrite(w, a)
                                    \/ Find(w) \/ LostFollow(w) \/ DeleteEdge(w) \/ StoreEvent(w)
           /\ Kind[r] = "bookmark" => \/ Fetch(w) \/ PutEdge(w) \/ Mark(w) \/ Find(w) \/ Unmark(w)
                                      \/ DeleteEdge(w) \/ StoreEvent(w)
           /\ Kind[r] = "file" => Fetch(w) \/ WriteFile(w) \/ Find(w) \/ EraseFile(w) \/ StoreEvent(w)
           /\ Kind[r] = "tag" => \/ Fetch(w) \/ PutEdge(w) \/ \E a \in job[w].todo : JoinWrite(w, a)
                                 \/ SyncRank(w) \/ Find(w) \/ CleanUp(w) \/ DeleteEdge(w)
                                 \/ InvalidateCounts(w) \/ StoreEvent(w)
           /\ Kind[r] = "profile" => \/ Fetch(w) \/ PutProfile(w) \/ PutUserSearch(w) \/ PutUserDetails(w)
                                     \/ ReadLabels(w) \/ SyncLabel(w) \/ Find(w) \/ DeleteSearch(w)
                                     \/ RemoveUser(w) \/ StoreEvent(w)
  <1>1. /\ job[w].pc \in {"follow", "unfollow", "lost"} => Kind[r] = "follow"
        /\ job[w].pc \in {"tag", "untag", "sync", "cleanup", "uncount"} => Kind[r] = "tag"
        /\ job[w].pc \in {"mark", "unmark"} => Kind[r] = "bookmark"
        /\ job[w].pc \in {"write", "erase"} => Kind[r] = "file"
        /\ job[w].pc \in {"profile", "search", "details", "labels", "resync", "unsearch", "undetails"} => Kind[r] = "profile"
        /\ job[w].pc \in {"edge", "unedge"} => Kind[r] \in {"follow", "tag", "bookmark"}
    BY PcKind
  <1>2. ~Take(w)
    BY DEF Take, Start
  <1>3. \A a \in job[w].todo : JoinWrite(w, a) => job[w].pc \in {"follow", "unfollow", "tag", "untag"}
    BY JoinWriteStep DEF Joins
  <1>4. /\ SyncRank(w) => job[w].pc = "sync"
        /\ Mark(w) => job[w].pc = "mark"
        /\ WriteFile(w) => job[w].pc = "write"
        /\ PutEdge(w) => job[w].pc = "edge"
        /\ LostFollow(w) => job[w].pc = "lost"
        /\ CleanUp(w) => job[w].pc = "cleanup"
        /\ Unmark(w) => job[w].pc = "unmark"
        /\ DeleteEdge(w) => job[w].pc = "unedge"
    BY PutEdgeStep DEF SyncRank, Mark, WriteFile, LostFollow, CleanUp, Unmark, DeleteEdge, At
  <1>5. /\ InvalidateCounts(w) => job[w].pc = "uncount"
        /\ EraseFile(w) => job[w].pc = "erase"
        /\ PutProfile(w) => job[w].pc = "profile"
        /\ PutUserSearch(w) => job[w].pc = "search"
        /\ PutUserDetails(w) => job[w].pc = "details"
        /\ ReadLabels(w) => job[w].pc = "labels"
        /\ SyncLabel(w) => job[w].pc = "resync"
        /\ DeleteSearch(w) => job[w].pc = "unsearch"
        /\ RemoveUser(w) => job[w].pc = "undetails"
    BY DEF InvalidateCounts, EraseFile, PutProfile, PutUserSearch, PutUserDetails, ReadLabels, SyncLabel, DeleteSearch, RemoveUser, At
  <1> QED
    BY <1>1, <1>2, <1>3, <1>4, <1>5 DEF Handle

(* The job after a step that goes through, or that fails.                  *)
LEMMA ProceedTo ==
    ASSUME TypeOK, NEW w \in Loops, Busy(w), job[w].pc \notin Joins, NEW l \in Steps, NEW ok \in BOOLEAN,
           Proceed(w, ok, Goto(w, l))
    PROVE  /\ ok => /\ job'[w].pc = l /\ job'[w].ev = job[w].ev /\ job'[w].body = job[w].body
                    /\ job'[w].edge = job[w].edge /\ job'[w].known = job[w].known /\ job'[w].todo = {}
                    /\ job'[w].labels = job[w].labels /\ job'[w].failed = job[w].failed /\ faults' = faults
           /\ ~ok => job'[w] = Idle /\ faults' = faults + 1
  <1>1. /\ Goto(w, l).ev = job[w].ev /\ Goto(w, l).pc = l
        /\ Goto(w, l).todo = {} /\ Goto(w, l).body = job[w].body /\ Goto(w, l).edge = job[w].edge
        /\ Goto(w, l).labels = job[w].labels /\ Goto(w, l).failed = job[w].failed
        /\ Goto(w, l).known = job[w].known
    BY GotoOK
  <1>2. job \in [Loops -> JobType]
    BY DEF TypeOK, JobsOK
  <1>3. /\ ok => job'[w] = Goto(w, l) /\ faults' = faults
        /\ ~ok => job'[w] = Idle /\ faults' = faults + 1
    BY <1>2 DEF Proceed
  <1> QED
    BY <1>1, <1>3

-----------------------------------------------------------------------------
(* Follows.                                                                *)
LEMMA FollowFrame ==
    ASSUME FollowInv, Quietly("follow"), FollowsKept
    PROVE  FollowInv'
  <1>1. graph'.follows = graph.follows /\ index'.followers = index.followers /\ index'.following = index.following
    BY DEF FollowsKept, SameFollows
  <1>2. \A u, v \in Users :
         /\ v \in index'.followers[u] => <<v, u>> \in graph'.follows
         /\ v \in index'.following[u] => <<u, v>> \in graph'.follows
    BY <1>1 DEF FollowInv
  <1>3. ASSUME NEW r \in Of("follow") PROVE Due(r)' \/ FollowSettled(r)'
    <2>1. CASE Due(r)
      BY <2>1 DEF Quietly
    <2>2. CASE FollowSettled(r)
      BY <1>1, <2>2 DEF Quietly, FollowSettled, Pair
    <2> QED
      BY <2>1, <2>2 DEF FollowInv
  <1>4. ASSUME NEW w \in Loops PROVE FollowJob(job[w])'
    <2>1. CASE job'[w] = job[w]
      BY <1>1, <2>1 DEF FollowInv, FollowJob, Pair
    <2>2. CASE job'[w] # job[w]
      BY <2>2, IdleOK DEF Quietly, FollowJob
    <2> QED
      BY <2>1, <2>2
  <1> QED
    BY <1>2, <1>3, <1>4 DEF FollowInv, Of, Ignored, Target

(* A handler of the follow r.                                              *)
LEMMA FollowClose ==
    ASSUME TypeOK, LogOrder, Sequential, FollowInv, NEW w \in Loops, Busy(w), Handle(w),
           NEW r \in Records, r = Rec(w), Kind[r] = "follow",
           \A s \in Of("follow") : s # r =>
             /\ Pair(s) \in graph'.follows <=> Pair(s) \in graph.follows
             /\ By[s] \in index'.followers[To[s]] <=> By[s] \in index.followers[To[s]]
             /\ To[s] \in index'.following[By[s]] <=> To[s] \in index.following[By[s]],
           \A u, v \in Users :
             /\ v \in index'.followers[u] => <<v, u>> \in graph'.follows
             /\ v \in index'.following[u] => <<u, v>> \in graph'.follows,
           r \in Of("follow") => Due(r)' \/ FollowSettled(r)',
           FollowJob(job[w])'
    PROVE  FollowInv'
  <1>1. /\ \A s \in Records : s # r /\ Due(s) => Due(s)'
        /\ hs' = hs /\ \A v \in Loops : v # w => job'[v] = job[v]
        /\ Alone(w)
    BY MoveSeq
  <1>2. ASSUME NEW s \in Of("follow") PROVE Due(s)' \/ FollowSettled(s)'
    <2>1. CASE s # r
      <3>1. s \in Records /\ (Due(s) \/ FollowSettled(s))
        BY DEF FollowInv, Of
      <3>2. CASE Due(s)
        BY <1>1, <2>1, <3>1, <3>2
      <3>3. CASE FollowSettled(s)
        BY <1>1, <2>1, <3>3 DEF FollowSettled, Pair
      <3> QED
        BY <3>1, <3>2, <3>3
    <2> QED
      BY <2>1
  <1>3. ASSUME NEW v \in Loops PROVE FollowJob(job[v])'
    <2>1. CASE v # w
      BY <1>1, <2>1 DEF Alone, Busy, FollowJob
    <2> QED
      BY <2>1
  <1> QED
    BY <1>2, <1>3 DEF FollowInv, Of, Ignored, Target

(* The ends of a follow, which no other record has.                        *)
LEMMA FollowEnds ==
    ASSUME NEW r \in Of("follow")
    PROVE  /\ r \in Records /\ By[r] \in Users /\ To[r] \in Users /\ Pair(r) = <<By[r], To[r]>>
           /\ \A s \in Of("follow") : s # r => Pair(s) # Pair(r)
  BY SocialGraphAssumption DEF Of, Pair

(* Every step of the handler of a follow.                                  *)
LEMMA FollowStep ==
    ASSUME TypeOK, LogOrder, Sequential, FollowInv, NEW w \in Loops, Busy(w), Handle(w),
           NEW r \in Records, r = Rec(w), Kind[r] = "follow"
    PROVE  FollowInv'
  <1> DEFINE j == job[w]
             k == job'[w]
  <1>0. /\ graph \in GraphType /\ index \in IndexType /\ j \in JobType
        /\ j.ev.r = r /\ j.ev.type \in {"put", "del"} /\ j.pc # "idle"
    BY AtBusy DEF TypeOK, StoresOK, Busy
  <1>1. /\ hs' = hs /\ (k = Idle \/ (k.ev = j.ev /\ k.pc \notin {"idle", "fetch", "find"}))
        /\ (k # Idle => Due(r)') /\ (~At(w, "fetch") => Due(r))
        /\ (~Ends(w) /\ ~At(w, "fetch") => Due(r)')
        /\ (At(w, "fetch") /\ ~Ignored(r) /\ Due(r) => Due(r)')
        /\ (Ends(w) /\ ~At(w, "fetch") => Due(r)' \/ (j.ev.type = "put" <=> hs[r] # Nothing))
    BY MoveSeq
  <1>2. /\ \A u, v \in Users :
             /\ v \in index.followers[u] => <<v, u>> \in graph.follows
             /\ v \in index.following[u] => <<u, v>> \in graph.follows
        /\ r \in Of("follow") => Due(r) \/ FollowSettled(r)
        /\ FollowJob(j)
    BY DEF FollowInv
  <1>3. /\ j.pc \notin {"fetch", "find"} => r \in Of("follow")
        /\ j.pc \in PutSteps => j.ev = PutOf(r) /\ j.ev.type = "put"
        /\ j.pc \in DelSteps => j.ev = DelOf(r) /\ j.ev.type = "del"
    BY PcKind
  <1>4. k = Idle => FollowJob(job[w])'
    BY IdleOK DEF FollowJob
  <1>t. Idle.pc = "idle"
    BY IdleOK
  (* Steps that leave the stores alone.                                    *)
  <1>5. ASSUME UNCHANGED stores,
               r \in Of("follow") => Due(r)' \/ FollowSettled(r)', FollowJob(job[w])'
        PROVE  FollowInv'
    <2>1. UNCHANGED <<graph, index>>
      BY <1>5 DEF stores
    <2> QED
      BY <1>2, <1>5, <2>1, FollowClose
  <1>6. CASE Fetch(w)
    <2>1. UNCHANGED stores /\ At(w, "fetch")
      BY <1>6 DEF Fetch
    <2>2. r \in Of("follow") => Due(r)' \/ FollowSettled(r)'
      <3>1. SUFFICES ASSUME r \in Of("follow"), ~Due(r) PROVE FollowSettled(r)'
        BY <1>1, <2>1 DEF Of
      <3> QED
        BY <1>1, <1>2, <2>1, <3>1 DEF FollowSettled, stores, Pair
    <2>3. FollowJob(job[w])'
      <3>1. k = Idle \/ k.pc \notin {"follow", "done", "unfollow", "lost", "unedge"}
        <4>1. CASE Finish(w)
          BY <4>1 DEF Finish, TypeOK, JobsOK
        <4>2. CASE Proceed(w, TRUE, Goto(w, "edge"))
          <5>1. "edge" \in Steps /\ j.pc \notin Joins
            BY <2>1 DEF Steps, PutSteps, Joins, At
          <5> QED
            BY <4>2, <5>1, ProceedTo
        <4> QED
          BY <1>6, <4>1, <4>2 DEF Fetch
      <3> QED
        BY <1>4, <3>1 DEF FollowJob
    <2> QED
      BY <1>5, <2>1, <2>2, <2>3
  <1>7. CASE StoreEvent(w)
    <2>1. UNCHANGED stores /\ j.pc = "done" /\ k = Idle /\ ~At(w, "fetch") /\ r \in Of("follow")
      BY <1>3, <1>7 DEF StoreEvent, At, Finish, Proceed, TypeOK, JobsOK
    <2>2. Due(r)' \/ FollowSettled(r)'
      <3>1. CASE ~Ends(w)
        BY <1>1, <2>1, <3>1
      <3>2. CASE Ends(w)
        <4>1. Due(r)' \/ (j.ev.type = "put" <=> hs[r] # Nothing)
          BY <1>1, <2>1, <3>2
        <4>2. /\ j.ev.type = "put" => Pair(r) \in graph.follows /\ By[r] \in index.followers[To[r]] /\ To[r] \in index.following[By[r]]
              /\ j.ev.type = "del" => Pair(r) \notin graph.follows
          BY <1>0, <1>2, <2>1 DEF FollowJob
        <4>3. By[r] \in Users /\ To[r] \in Users /\ Pair(r) = <<By[r], To[r]>>
          BY <2>1, FollowEnds
        <4>4. j.ev.type = "del" => By[r] \notin index.followers[To[r]] /\ To[r] \notin index.following[By[r]]
          BY <1>2, <4>2, <4>3
        <4> QED
          BY <1>0, <1>1, <2>1, <4>1, <4>2, <4>4 DEF FollowSettled, stores, Pair
      <3> QED
        BY <3>1, <3>2
    <2> QED
      BY <1>4, <1>5, <2>1, <2>2
  <1>8. CASE Find(w)
    <2>1. /\ j.pc = "find" /\ UNCHANGED stores /\ j.ev = DelOf(r) /\ ~At(w, "fetch")
          /\ \/ Finish(w) /\ Ignored(r)
             \/ Proceed(w, TRUE, FindJob(w, r)) /\ ~Ignored(r)
      BY <1>8, FindStep DEF At
    <2>2. CASE Finish(w) /\ Ignored(r)
      <3>1. k = Idle /\ r \notin Of("follow")
        BY <2>2 DEF Finish, TypeOK, JobsOK, Of
      <3> QED
        BY <1>4, <1>5, <2>1, <3>1
    <2>3. CASE Proceed(w, TRUE, FindJob(w, r)) /\ ~Ignored(r)
      <3> DEFINE f == FindJob(w, r)
      <3>1. f.pc = "unfollow" /\ f.todo = {"unfollowers", "unfollowing"}
        BY <2>1, <2>3, FindJobOK DEF At
      <3> HIDE DEF f
      <3>2. k = f
        BY <2>3 DEF Proceed, f, TypeOK, JobsOK
      <3>3. FollowJob(job[w])'
        BY <3>1, <3>2 DEF FollowJob
      <3>4. Due(r)'
        BY <1>1, <1>t, <3>1, <3>2
      <3> QED
        BY <1>5, <2>1, <3>3, <3>4
    <2> QED
      BY <2>1, <2>2, <2>3
  <1>9. CASE PutEdge(w)
    <2>0. /\ j.pc = "edge" /\ j.ev = PutOf(r) /\ r \in Of("follow") /\ ~At(w, "fetch") /\ "edge" \in PutSteps
      BY <1>9, <1>3, PutEdgeStep DEF At, PutSteps
    <2>a. By[r] \in Users /\ To[r] \in Users /\ Pair(r) = <<By[r], To[r]>> /\ \A s \in Of("follow") : s # r => Pair(s) # Pair(r)
      BY <2>0, FollowEnds
    <2>d. Due(r)'
      <3>1. ~Ends(w)
        BY <2>0 DEF Ends
      <3> QED
        BY <1>1, <2>0, <3>1
    <2>1. \/ /\ Requeue(w)
             /\ IF Mends(r) = {} THEN graph' = graph /\ index' = index
                ELSE /\ graph' = IngestGraph(graph, index, Mended(r))
                     /\ index' = FillUser(index, graph, Mended(r))
          \/ /\ index' = index
             /\ \E ok \in BOOLEAN :
                  /\ graph' = IF ok THEN StoreEdge(graph, r) ELSE graph
                  /\ Proceed(w, ok, PutJob(w, r, Outcome(graph, r)))
             /\ Outcome(graph, r) \in {"Updated", "CreatedOrDeleted"}
      BY <1>9, PutEdgeStep
    <2>2. CASE Requeue(w) /\ IF Mends(r) = {} THEN graph' = graph /\ index' = index
                ELSE /\ graph' = IngestGraph(graph, index, Mended(r))
                     /\ index' = FillUser(index, graph, Mended(r))
      <3>1. k = Idle
        BY <2>2 DEF Requeue, TypeOK, JobsOK
      <3>2. graph'.follows = graph.follows /\ index'.followers = index.followers /\ index'.following = index.following
        <4>1. CASE Mends(r) = {}
          BY <2>2, <4>1
        <4>2. CASE Mends(r) # {}
          <5>1. Mended(r) \in Users
            BY <4>2, MendedUser
          <5>2. graph'.follows = graph.follows
            BY <1>0, <2>2, <4>2, <5>1, IngestUserGraph
          <5>3. SameFollows(index, index')
            BY <1>0, <2>2, <4>2, <5>1, FillUserIndex
          <5> QED
            BY <5>2, <5>3 DEF SameFollows
        <4> QED
          BY <4>1, <4>2
      <3> QED
        BY <1>2, <1>4, <2>d, <3>1, <3>2, FollowClose
    <2>3. CASE index' = index /\ (\E ok \in BOOLEAN :
                  /\ graph' = IF ok THEN StoreEdge(graph, r) ELSE graph
                  /\ Proceed(w, ok, PutJob(w, r, Outcome(graph, r)))) /\ Outcome(graph, r) \in {"Updated", "CreatedOrDeleted"}
      <3>1. PICK ok \in BOOLEAN :
              /\ graph' = IF ok THEN StoreEdge(graph, r) ELSE graph
              /\ Proceed(w, ok, PutJob(w, r, Outcome(graph, r)))
        BY <2>3
      <3>2. graph'.follows = IF ok THEN graph.follows \cup {Pair(r)} ELSE graph.follows
        <4>1. CASE ok
          <5>1. ~Ignored(r) /\ graph' = StoreEdge(graph, r)
            BY <2>0, <3>1, <4>1 DEF Of
          <5> QED
            BY <1>0, <4>1, <5>1, CreateEdgeGraph
        <4> QED
          BY <3>1, <4>1
      <3>3. FollowJob(job[w])'
        <4>1. CASE ok
          <5> DEFINE o == Outcome(graph, r)
                     f == PutJob(w, r, o)
          <5>0. o \in {"Updated", "CreatedOrDeleted"}
            BY <2>3
          <5> HIDE DEF o
          <5>1. f.pc = "follow" /\ f.ev = j.ev /\ f.todo = FollowWrites(o)
            BY <2>0, <5>0, PutJobOK DEF At
          <5> HIDE DEF f
          <5>2. k = f
            BY <3>1, <4>1 DEF Proceed, TypeOK, JobsOK, f, o
          <5>3. "followers" \in f.todo /\ "following" \in f.todo
            BY <5>1 DEF FollowWrites
          <5> QED
            BY <1>0, <3>2, <4>1, <5>1, <5>2, <5>3 DEF FollowJob, Pair
        <4>2. CASE ~ok
          BY <1>4, <3>1, <4>2 DEF Proceed, TypeOK, JobsOK
        <4> QED
          BY <4>1, <4>2
      <3>4. index' = index
        BY <2>3
      <3>5. \A s \in Of("follow") : s # r =>
             /\ Pair(s) \in graph'.follows <=> Pair(s) \in graph.follows
             /\ By[s] \in index'.followers[To[s]] <=> By[s] \in index.followers[To[s]]
             /\ To[s] \in index'.following[By[s]] <=> To[s] \in index.following[By[s]]
        BY <2>a, <3>2, <3>4
      <3>6. \A u, v \in Users :
             /\ v \in index'.followers[u] => <<v, u>> \in graph'.follows
             /\ v \in index'.following[u] => <<u, v>> \in graph'.follows
        BY <1>2, <3>2, <3>4
      <3> QED
        BY <2>d, <3>3, <3>5, <3>6, FollowClose
    <2> QED
      BY <2>1, <2>2, <2>3
  <1>10. CASE LostFollow(w)
    <2>0. j.pc = "lost" /\ r \in Of("follow") /\ ~At(w, "fetch") /\ ~Ends(w) /\ j.pc \notin Joins /\ "unedge" \in Steps
      BY <1>3, <1>10 DEF LostFollow, At, Ends, Joins, Steps, DelSteps
    <2>1. PICK ok \in BOOLEAN : Proceed(w, ok, Goto(w, "unedge"))
      BY <1>10 DEF LostFollow
    <2>2. graph' = graph /\ index'.followers = index.followers /\ index'.following = index.following
      <3>1. index' = index \/ index' = Tell(index, By[r], To[r], "lost")
        BY <1>10 DEF LostFollow
      <3>2. By[r] \in Users /\ To[r] \in Users /\ "lost" \in NoteKinds
        BY <2>0, FollowEnds DEF NoteKinds
      <3>3. SameFollows(index, index')
        <4>1. CASE index' = Tell(index, By[r], To[r], "lost")
          BY <1>0, <3>2, <4>1, TellIndex
        <4> QED
          BY <3>1, <4>1 DEF SameFollows
      <3> QED
        BY <3>3, <1>10 DEF SameFollows, LostFollow
    <2>3. k = Idle \/ (k.pc = "unedge" /\ k.ev = j.ev)
      BY <2>0, <2>1, ProceedTo
    <2>4. FollowJob(job[w])'
      <3>1. By[r] \notin index.followers[To[r]] /\ To[r] \notin index.following[By[r]]
        BY <1>0, <1>2, <2>0 DEF FollowJob
      <3> QED
        BY <1>0, <1>4, <2>2, <2>3, <3>1 DEF FollowJob
    <2> QED
      BY <1>1, <1>2, <2>0, <2>2, <2>4, FollowClose
  <1>11. CASE DeleteEdge(w)
    <2>0. j.pc = "unedge" /\ r \in Of("follow") /\ ~At(w, "fetch") /\ ~Ends(w) /\ j.pc \notin Joins /\ "done" \in Steps
          /\ j.ev.type = "del"
      BY <1>3, <1>11 DEF DeleteEdge, At, Ends, Joins, Steps, DelSteps
    <2>1. PICK ok \in BOOLEAN : /\ graph' = IF ~ok THEN graph ELSE DropEdge(graph, r, j.edge)
                                /\ Proceed(w, ok, Goto(w, "done"))
      BY <1>11 DEF DeleteEdge, DropEdge
    <2>a. By[r] \in Users /\ To[r] \in Users /\ Pair(r) = <<By[r], To[r]>> /\ \A s \in Of("follow") : s # r => Pair(s) # Pair(r)
      BY <2>0, FollowEnds
    <2>2. index' = index /\ graph'.follows = IF ok THEN graph.follows \ {Pair(r)} ELSE graph.follows
      <3>1. PICK e \in Edges \cup {Nothing} : j.edge = e
        BY <1>0 DEF JobType
      <3>2. CASE ok
        <4>1. graph' = DropEdge(graph, r, e)
          BY <2>1, <3>1, <3>2
        <4>2. graph'.follows = graph.follows \ {Pair(r)}
          BY <1>0, <4>1, DeleteEdgeGraph
        <4> QED
          BY <1>11, <3>2, <4>2 DEF DeleteEdge
      <3> QED
        BY <1>11, <2>1, <3>2 DEF DeleteEdge
    <2>3. /\ ok => k.pc = "done" /\ k.ev = j.ev
          /\ ~ok => k = Idle
      BY <2>0, <2>1, ProceedTo
    <2>4. By[r] \notin index.followers[To[r]] /\ To[r] \notin index.following[By[r]]
      BY <1>0, <1>2, <2>0 DEF FollowJob
    <2>5. FollowJob(job[w])'
      BY <1>0, <1>4, <2>0, <2>2, <2>3 DEF FollowJob, Pair
    <2>6. \A u, v \in Users :
             /\ v \in index'.followers[u] => <<v, u>> \in graph'.follows
             /\ v \in index'.following[u] => <<u, v>> \in graph'.follows
      <3>1. SUFFICES ASSUME NEW u \in Users, NEW v \in Users
                     PROVE  /\ v \in index.followers[u] => <<v, u>> \in graph'.follows
                            /\ v \in index.following[u] => <<u, v>> \in graph'.follows
        BY <2>2
      <3>2. v \in index.followers[u] => <<v, u>> \in graph.follows /\ <<v, u>> # Pair(r)
        <4>1. v \in index.followers[u] => v # By[r] \/ u # To[r]
          BY <2>4
        <4>2. <<v, u>> = <<By[r], To[r]>> => ~(v # By[r] \/ u # To[r])
          OBVIOUS
        <4>3. <<v, u>> # <<By[r], To[r]>> => <<v, u>> # Pair(r)
          BY <2>a
        <4> QED
          BY <1>2, <4>1, <4>2, <4>3
      <3>3. v \in index.following[u] => <<u, v>> \in graph.follows /\ <<u, v>> # Pair(r)
        <4>1. v \in index.following[u] => u # By[r] \/ v # To[r]
          BY <2>4
        <4>2. <<u, v>> = <<By[r], To[r]>> => ~(u # By[r] \/ v # To[r])
          OBVIOUS
        <4>3. <<u, v>> # <<By[r], To[r]>> => <<u, v>> # Pair(r)
          BY <2>a
        <4> QED
          BY <1>2, <4>1, <4>2, <4>3
      <3> QED
        BY <2>2, <3>2, <3>3
    <2>7. \A s \in Of("follow") : s # r =>
             /\ Pair(s) \in graph'.follows <=> Pair(s) \in graph.follows
             /\ By[s] \in index'.followers[To[s]] <=> By[s] \in index.followers[To[s]]
             /\ To[s] \in index'.following[By[s]] <=> To[s] \in index.following[By[s]]
      BY <2>a, <2>2
    <2> QED
      BY <1>1, <2>0, <2>5, <2>6, <2>7, FollowClose
  <1>12. ASSUME NEW a \in job[w].todo, JoinWrite(w, a) PROVE FollowInv'
    <2>0. j.pc \in {"follow", "unfollow"} /\ r \in Of("follow") /\ ~At(w, "fetch") /\ ~Ends(w) /\ a \in TodoOf(j.pc)
          /\ a # "count" /\ UNCHANGED graph
      <3>1. j.pc \in Joins /\ a \in TodoOf(j.pc) /\ UNCHANGED graph /\ (j.pc \in {"tag", "untag"} => r \in Of("tag"))
        BY <1>12, JoinWriteStep
      <3>2. j.pc \in {"follow", "unfollow"}
        BY <3>1 DEF Joins, Of
      <3>3. a # "count"
        BY <3>1, <3>2 DEF TodoOf
      <3> QED
        BY <1>3, <3>1, <3>2, <3>3 DEF At, Ends
    <2>1. PICK failing \in BOOLEAN :
                /\ job' = [job EXCEPT ![w] = AfterWrite(w, a, j.failed \/ failing)]
                /\ failing => index' = index
                /\ ~failing => index' = FollowEffect(index, r, j.friends, a)
      BY <1>12, <2>0, JoinWriteStep
    <2>a. By[r] \in Users /\ To[r] \in Users /\ Pair(r) = <<By[r], To[r]>> /\ (\A s \in Of("follow") : s # r => Pair(s) # Pair(r))
          /\ \A s \in Of("follow") : By[s] \in Users /\ To[s] \in Users /\ Pair(s) = <<By[s], To[s]>>
      BY <2>0, FollowEnds
    <2>2. \A u, v \in Users :
                 /\ v \in index'.followers[u] <=>
                      IF ~failing /\ u = To[r] /\ v = By[r] /\ a \in {"followers", "unfollowers"}
                      THEN a = "followers" ELSE v \in index.followers[u]
                 /\ v \in index'.following[u] <=>
                      IF ~failing /\ u = By[r] /\ v = To[r] /\ a \in {"following", "unfollowing"}
                      THEN a = "following" ELSE v \in index.following[u]
      <3>1. CASE ~failing
        <4>1. a \in {"followers", "following", "unfollowers", "unfollowing", "tell"}
          BY <2>0 DEF TodoOf
        <4>2. PICK friends \in BOOLEAN : index' = FollowEffect(index, r, friends, a)
          BY <1>0, <2>1, <3>1 DEF JobType
        <4>3. FollowsAfter(index, FollowEffect(index, r, friends, a), r, a)
          BY <1>0, <2>0, <4>1, FollowIndex
        <4>4. FollowsAfter(index, index', r, a)
          BY <4>2, <4>3
        <4> QED
          BY <3>1, <4>4 DEF FollowsAfter
      <3>2. CASE failing
        BY <2>1, <3>2
      <3> QED
        BY <3>1, <3>2
    <2>3. /\ (j.todo = {a}) /\ (j.failed \/ failing) => k = Idle
          /\ ~((j.todo = {a}) /\ (j.failed \/ failing)) =>
                /\ k.ev = j.ev /\ k.todo = j.todo \ {a}
                /\ k.pc = (IF j.todo = {a} THEN NextPc(j.pc, r) ELSE j.pc)
                /\ k.failed = (IF j.todo = {a} THEN j.failed ELSE j.failed \/ failing)
      <3> DEFINE failed == j.failed \/ failing
                 f == AfterWrite(w, a, failed)
      <3>1. failed \in BOOLEAN
        BY <1>0 DEF JobType
      <3> HIDE DEF failed
      <3>2. /\ (j.todo = {a}) /\ failed => f = Idle
            /\ ~((j.todo = {a}) /\ failed) =>
                /\ f.ev = j.ev /\ f.todo = j.todo \ {a}
                /\ f.pc = (IF j.todo = {a} THEN NextPc(j.pc, r) ELSE j.pc)
                /\ f.failed = (IF j.todo = {a} THEN j.failed ELSE failed)
        BY <3>1, AfterWriteOK
      <3> HIDE DEF f
      <3>3. k = f
        BY <2>1 DEF f, failed, TypeOK, JobsOK
      <3> QED
        BY <3>2, <3>3 DEF failed
    <2>4. FollowJob(job[w])'
      <3>1. CASE j.pc = "follow"
        <4>1. /\ Pair(r) \in graph.follows
              /\ ~j.failed => ("followers" \in j.todo \/ By[r] \in index.followers[To[r]])
                              /\ ("following" \in j.todo \/ To[r] \in index.following[By[r]])
              /\ a \in {"followers", "following", "tell"} /\ j.ev.type = "put" /\ j.failed \in BOOLEAN
              /\ NextPc(j.pc, r) = "done"
          BY <1>0, <1>2, <1>3, <2>0, <3>1 DEF FollowJob, TodoOf, JobType, NextPc, PutSteps
        <4>2. CASE k = Idle
          BY <1>4, <4>2
        <4>3. CASE k # Idle
          <5>1. ~((j.todo = {a}) /\ (j.failed \/ failing)) /\ k.ev = j.ev /\ k.todo = j.todo \ {a}
            BY <2>3, <4>3
          <5>2. k.pc \in {"follow", "done"} /\ (k.pc = "done" => ~k.failed /\ k.todo = {}) /\ (~k.failed => ~j.failed /\ ~failing)
            BY <2>3, <3>1, <4>1, <5>1
          <5>3. ~k.failed => /\ "followers" \in k.todo \/ By[r] \in index'.followers[To[r]]
                             /\ "following" \in k.todo \/ To[r] \in index'.following[By[r]]
            BY <2>2, <2>a, <4>1, <5>1, <5>2
          <5> QED
            BY <1>0, <2>0, <4>1, <5>1, <5>2, <5>3 DEF FollowJob, Pair
        <4> QED
          BY <4>2, <4>3
      <3>2. CASE j.pc = "unfollow"
        <4>1. /\ ~j.failed => ("unfollowers" \in j.todo \/ By[r] \notin index.followers[To[r]])
                              /\ ("unfollowing" \in j.todo \/ To[r] \notin index.following[By[r]])
              /\ a \in {"unfollowers", "unfollowing"} /\ j.ev.type = "del" /\ j.failed \in BOOLEAN
              /\ NextPc(j.pc, r) = "lost"
          BY <1>0, <1>2, <1>3, <2>0, <3>2 DEF FollowJob, TodoOf, JobType, NextPc, DelSteps
        <4>2. CASE k = Idle
          BY <1>4, <4>2
        <4>3. CASE k # Idle
          <5>1. ~((j.todo = {a}) /\ (j.failed \/ failing)) /\ k.ev = j.ev /\ k.todo = j.todo \ {a}
            BY <2>3, <4>3
          <5>2. k.pc \in {"unfollow", "lost"} /\ (k.pc = "lost" => ~k.failed /\ k.todo = {}) /\ (~k.failed => ~j.failed /\ ~failing)
            BY <2>3, <3>2, <4>1, <5>1
          <5>3. ~k.failed => /\ "unfollowers" \in k.todo \/ By[r] \notin index'.followers[To[r]]
                             /\ "unfollowing" \in k.todo \/ To[r] \notin index'.following[By[r]]
            BY <2>2, <2>a, <4>1, <5>1, <5>2
          <5> QED
            BY <1>0, <2>0, <4>1, <5>1, <5>2, <5>3 DEF FollowJob, Pair
        <4> QED
          BY <4>2, <4>3
      <3> QED
        BY <2>0, <3>1, <3>2
    <2>5. \A u, v \in Users :
             /\ v \in index'.followers[u] => <<v, u>> \in graph'.follows
             /\ v \in index'.following[u] => <<u, v>> \in graph'.follows
      <3>1. a \in {"followers", "following"} => Pair(r) \in graph.follows
        <4>1. a \in {"followers", "following"} => j.pc = "follow"
          BY <2>0 DEF TodoOf
        <4> QED
          BY <1>0, <1>2, <4>1 DEF FollowJob
      <3>2. SUFFICES ASSUME NEW u \in Users, NEW v \in Users
                     PROVE  /\ v \in index'.followers[u] => <<v, u>> \in graph.follows
                            /\ v \in index'.following[u] => <<u, v>> \in graph.follows
        BY <2>0
      <3> QED
        BY <1>2, <2>2, <2>a, <3>1
    <2>6. \A s \in Of("follow") : s # r =>
             /\ Pair(s) \in graph'.follows <=> Pair(s) \in graph.follows
             /\ By[s] \in index'.followers[To[s]] <=> By[s] \in index.followers[To[s]]
             /\ To[s] \in index'.following[By[s]] <=> To[s] \in index.following[By[s]]
      BY <2>0, <2>2, <2>a
    <2> QED
      BY <1>1, <2>0, <2>4, <2>5, <2>6, FollowClose
  <1> QED
    BY <1>6, <1>7, <1>8, <1>9, <1>10, <1>11, <1>12, KindSteps

RemovesClear == \A w \in Loops : At(w, "undetails") => Clear(By[Rec(w)])

(* For every kind of record, a step is one of a handler of that kind, one  *)
(* of a reader of it, or leaves it alone.                                  *)
Handles(w, k) == Busy(w) /\ Handle(w) /\ Kind[Rec(w)] = k

(* Every step, seen from each kind of record.                              *)
LEMMA Frames ==
    ASSUME TypeOK, LogOrder, Sequential, RemovesClear, Next, ~overlap'
    PROVE  /\ LogOrder' /\ Sequential'
           /\ \/ \E w \in Loops : Handles(w, "follow")
              \/ \E u \in Users : ViewFollows(u)
              \/ Quietly("follow") /\ FollowsKept
           /\ \/ \E w \in Loops : Handles(w, "tag")
              \/ \E t \in Targets : ViewTags(t)
              \/ Quietly("tag") /\ TagsKept /\ (RankKept \/ \E w \in Loops : Handles(w, "profile"))
           /\ (\E w \in Loops : Handles(w, "bookmark")) \/ (Quietly("bookmark") /\ MarksKept)
           /\ (\E w \in Loops : Handles(w, "file")) \/ (Quietly("file") /\ FilesKept)
           /\ \/ \E w \in Loops : Handles(w, "profile")
              \/ \E w \in Loops : Busy(w) /\ Handle(w) /\ Defers(w) /\ Quietly("profile")
              \/ \E u \in Users : ViewUser(u)
              \/ Quietly("profile") /\ UsersKept
  <1> DEFINE Goal == /\ LogOrder' /\ Sequential'
                     /\ \/ \E w \in Loops : Handles(w, "follow")
                        \/ \E u \in Users : ViewFollows(u)
                        \/ Quietly("follow") /\ FollowsKept
                     /\ \/ \E w \in Loops : Handles(w, "tag")
                        \/ \E t \in Targets : ViewTags(t)
                        \/ Quietly("tag") /\ TagsKept /\ (RankKept \/ \E w \in Loops : Handles(w, "profile"))
                     /\ (\E w \in Loops : Handles(w, "bookmark")) \/ (Quietly("bookmark") /\ MarksKept)
                     /\ (\E w \in Loops : Handles(w, "file")) \/ (Quietly("file") /\ FilesKept)
                     /\ \/ \E w \in Loops : Handles(w, "profile")
                        \/ \E w \in Loops : Busy(w) /\ Handle(w) /\ Defers(w) /\ Quietly("profile")
                        \/ \E u \in Users : ViewUser(u)
                        \/ Quietly("profile") /\ UsersKept
  <1>0. Kinds = {"follow", "tag", "bookmark", "profile", "file"}
    BY DEF Kinds
  <1>1. ASSUME LogOrder' /\ Sequential', \A k \in Kinds : Quietly(k), Touches({"posts", "counts"}) PROVE Goal
    BY <1>0, <1>1 DEF Touches
  <1>a. Touches({}) \/ Touches({"counts"}) => Touches({"posts", "counts"})
    BY DEF Touches
  <1>2. CASE Written
    <2>1. LogOrder' /\ Sequential' /\ (\A k \in Kinds : Quietly(k)) /\ UNCHANGED stores
      BY <1>2, WriteSeq DEF Written, stores
    <2> HIDE DEF Goal
    <2>2. Goal
      BY <1>1, <1>a, <2>1, OutsideKept
    <2> QED
      BY <2>2 DEF Goal
  <1>3. ASSUME NEW w \in Loops, Take(w) PROVE Goal
    <2>1. LogOrder' /\ Sequential' /\ (\A k \in Kinds : Quietly(k)) /\ UNCHANGED stores
      BY <1>3, TakeSeq DEF stores
    <2> HIDE DEF Goal
    <2> QED
      BY <1>1, <1>a, <2>1, OutsideKept
  <1>4. ASSUME NEW p \in Posts, PostArrives(p) PROVE Goal
    <2>1. UNCHANGED <<inputs, job>> /\ Touches({"posts", "counts"})
      BY <1>4, OutsideKept
    <2>2. LogOrder' /\ Sequential' /\ \A k \in Kinds : Quietly(k)
      BY <2>1, SameSeq
    <2> HIDE DEF Goal
    <2> QED
      BY <1>1, <2>1, <2>2
  <1>5. CASE Viewed
    <2>1. UNCHANGED <<inputs, job>>
      BY <1>5, ViewedQuiet
    <2>2. LogOrder' /\ Sequential' /\ \A k \in Kinds : Quietly(k)
      BY <2>1, SameSeq
    <2>3. ASSUME NEW p \in Posts, ViewCounts(p) PROVE Goal
      <3>1. Touches({"counts"})
        BY <2>3, OutsideKept
      <3> HIDE DEF Goal
      <3> QED
        BY <1>1, <1>a, <2>2, <3>1
    <2>4. ASSUME NEW u \in Users, ViewUser(u) PROVE Goal
      <3>1. Touches({"users"})
        BY <2>4, OutsideKept
      <3> QED
        BY <1>0, <2>2, <2>4, <3>1 DEF Touches
    <2>5. ASSUME NEW u \in Users, ViewFollows(u) PROVE Goal
      <3>1. Touches({"follows"})
        BY <2>5, OutsideKept
      <3> QED
        BY <1>0, <2>2, <2>5, <3>1 DEF Touches
    <2>6. ASSUME NEW t \in Targets, ViewTags(t) PROVE Goal
      <3>1. Touches({"tags", "counts"})
        BY <2>6, OutsideKept
      <3> QED
        BY <1>0, <2>2, <2>6, <3>1 DEF Touches
    <2> HIDE DEF Goal
    <2>7. Goal
      BY <1>5, <2>3, <2>4, <2>5, <2>6 DEF Viewed
    <2> QED
      BY <2>7 DEF Goal
  <1>6. ASSUME NEW w \in Loops, Busy(w), Handle(w) PROVE Goal
    <2>1. PICK r \in Records : r = Rec(w)
      BY <1>6, AtBusy
    <2>2. LogOrder' /\ Sequential' /\ \A k \in Kinds : k # Kind[r] => Quietly(k)
      BY <1>6, <2>1, MoveSeq
    <2>3. At(w, "undetails") => Clear(By[r])
      BY <2>1 DEF RemovesClear
    <2>4. /\ Kind[r] = "follow" => Touches({"follows", "users"})
          /\ Kind[r] = "tag" => Touches({"tags", "counts", "rank", "users"})
          /\ Kind[r] = "bookmark" => Touches({"marks", "users"})
          /\ Kind[r] = "file" => Touches({"files"})
          /\ Kind[r] = "profile" => Touches({"users", "rank", "posts"})
          /\ Kind[r] # "profile" /\ ~Defers(w) => UsersKept
      BY <1>6, <2>1, <2>3, Kept
    <2>5. Kind[r] \in Kinds /\ Handles(w, Kind[r])
      BY <1>6, <2>1, AtBusy DEF Handles, Kinds
    <2>6. CASE Kind[r] = "follow"
      BY <1>0, <1>6, <2>2, <2>4, <2>5, <2>6 DEF Touches
    <2>7. CASE Kind[r] = "tag"
      BY <1>0, <1>6, <2>2, <2>4, <2>5, <2>7 DEF Touches
    <2>8. CASE Kind[r] = "bookmark"
      BY <1>0, <1>6, <2>2, <2>4, <2>5, <2>8 DEF Touches
    <2>9. CASE Kind[r] = "file"
      BY <1>0, <1>6, <2>2, <2>4, <2>5, <2>9 DEF Touches
    <2>10. CASE Kind[r] = "profile"
      BY <1>0, <1>6, <2>2, <2>4, <2>5, <2>10 DEF Touches
    <2> QED
      BY <1>0, <2>5, <2>6, <2>7, <2>8, <2>9, <2>10
  <1> HIDE DEF Goal
  <1>7. Goal
    BY <1>2, <1>3, <1>4, <1>5, <1>6, NextSplits DEF Goal
  <1> QED
    BY <1>7 DEF Goal

(* A reader finds the sets of follows as the graph has them.               *)
LEMMA FollowViews ==
    ASSUME TypeOK, FollowInv, NEW u \in Users, ViewFollows(u), ~overlap'
    PROVE  FALSE
  <1>0. graph \in GraphType /\ index \in IndexType
    BY DEF TypeOK, StoresOK
  <1>1. Quiet /\ index' # index /\ index' = FillFollows(index, graph, u)
    <2>1. Viewed
      BY DEF Viewed
    <2> QED
      BY <2>1, ViewedQuiet DEF ViewFollows, View
  <1>2. \A r \in Of("follow") : FollowSettled(r)
    BY <1>1, QuietDue DEF FollowInv, Of
  <1>3. ASSUME NEW v \in Users, NEW x \in Users, <<v, x>> \in graph.follows
        PROVE  v \in index.followers[x] /\ x \in index.following[v]
    <2>1. PICK r \in Of("follow") : <<v, x>> = Pair(r)
      BY <1>0, <1>3 DEF GraphType
    <2>2. v = By[r] /\ x = To[r]
      BY <2>1 DEF Pair
    <2> QED
      BY <1>2, <1>3, <2>1, <2>2 DEF FollowSettled
  <1>4. index.followers[u] = {} => Followers(graph, u) = {}
    BY <1>3 DEF Followers
  <1>5. index.following[u] = {} => Following(graph, u) = {}
    BY <1>3 DEF Following
  <1>6. FillFollows(index, graph, u) = index
    <2> DEFINE f == index.followers
               g == index.following
    <2>1. f \in FollowsType /\ g \in FollowsType
      BY <1>0 DEF IndexType
    <2> DEFINE a == IF f[u] = {} THEN Followers(graph, u) ELSE f[u]
               b == IF g[u] = {} THEN Following(graph, u) ELSE g[u]
    <2>2. a = f[u] /\ b = g[u]
      BY <1>4, <1>5
    <2>3. [f EXCEPT ![u] = a] = f /\ [g EXCEPT ![u] = b] = g
      BY <2>1, <2>2 DEF FollowsType
    <2>4. FillFollows(index, graph, u) = [index EXCEPT !.followers = [f EXCEPT ![u] = a], !.following = [g EXCEPT ![u] = b]]
      BY DEF FillFollows
    <2>5. FillFollows(index, graph, u) = [index EXCEPT !.followers = f, !.following = g]
      BY <2>3, <2>4
    <2> QED
      BY <1>0, <2>5 DEF IndexType
  <1> QED
    BY <1>1, <1>6

(* Follows, through every step.                                            *)
LEMMA FollowNext ==
    ASSUME TypeOK, LogOrder, Sequential, RemovesClear, FollowInv, Next, ~overlap'
    PROVE  FollowInv'
  <1>1. \/ \E w \in Loops : Handles(w, "follow")
        \/ \E u \in Users : ViewFollows(u)
        \/ Quietly("follow") /\ FollowsKept
    BY Frames
  <1>2. ASSUME NEW w \in Loops, Handles(w, "follow") PROVE FollowInv'
    <2>1. PICK r \in Records : r = Rec(w)
      BY <1>2, AtBusy DEF Handles
    <2> QED
      BY <1>2, <2>1, FollowStep DEF Handles
  <1> QED
    BY <1>1, <1>2, FollowViews, FollowFrame

-----------------------------------------------------------------------------
(* Bookmarks.                                                              *)
LEMMA MarkFrame ==
    ASSUME MarkInv, Quietly("bookmark"), MarksKept
    PROVE  MarkInv'
  <1>1. graph'.bookmarks = graph.bookmarks /\ index'.marks = index.marks /\ index'.marked = index.marked
    BY DEF MarksKept, SameMarks
  <1>2. index'.marks \subseteq graph'.bookmarks /\ index'.marked \subseteq graph'.bookmarks
    BY <1>1 DEF MarkInv
  <1>3. ASSUME NEW r \in Of("bookmark") PROVE Due(r)' \/ MarkSettled(r)'
    <2>1. CASE Due(r)
      BY <2>1 DEF Quietly
    <2>2. CASE MarkSettled(r)
      BY <1>1, <2>2 DEF Quietly, MarkSettled, Pair
    <2> QED
      BY <2>1, <2>2 DEF MarkInv
  <1>4. ASSUME NEW w \in Loops PROVE MarkJob(job[w])'
    <2>1. CASE job'[w] = job[w]
      BY <1>1, <2>1 DEF MarkInv, MarkJob, Pair
    <2>2. CASE job'[w] # job[w]
      BY <2>2, IdleOK DEF Quietly, MarkJob
    <2> QED
      BY <2>1, <2>2
  <1> QED
    BY <1>2, <1>3, <1>4 DEF MarkInv, Of, Ignored, Target

(* What a handler of the bookmark r has to leave behind.                   *)
LEMMA MarkClose ==
    ASSUME TypeOK, LogOrder, Sequential, MarkInv, NEW w \in Loops, Busy(w), Handle(w),
           NEW r \in Records, r = Rec(w), Kind[r] = "bookmark",
           \A s \in Of("bookmark") : s # r =>
             /\ Pair(s) \in graph'.bookmarks <=> Pair(s) \in graph.bookmarks
             /\ Pair(s) \in index'.marks <=> Pair(s) \in index.marks
             /\ Pair(s) \in index'.marked <=> Pair(s) \in index.marked,
           index'.marks \subseteq graph'.bookmarks, index'.marked \subseteq graph'.bookmarks,
           r \in Of("bookmark") => Due(r)' \/ MarkSettled(r)',
           MarkJob(job[w])'
    PROVE  MarkInv'
  <1>1. /\ \A s \in Records : s # r /\ Due(s) => Due(s)'
        /\ hs' = hs /\ \A v \in Loops : v # w => job'[v] = job[v]
        /\ Alone(w)
    BY MoveSeq
  <1>2. ASSUME NEW s \in Of("bookmark") PROVE Due(s)' \/ MarkSettled(s)'
    <2>1. CASE s # r
      <3>1. s \in Records /\ (Due(s) \/ MarkSettled(s))
        BY DEF MarkInv, Of
      <3>2. CASE Due(s)
        BY <1>1, <2>1, <3>1, <3>2
      <3>3. CASE MarkSettled(s)
        BY <1>1, <2>1, <3>3 DEF MarkSettled, Pair
      <3> QED
        BY <3>1, <3>2, <3>3
    <2> QED
      BY <2>1
  <1>3. ASSUME NEW v \in Loops PROVE MarkJob(job[v])'
    <2>1. CASE v # w
      BY <1>1, <2>1 DEF Alone, Busy, MarkJob
    <2> QED
      BY <2>1
  <1> QED
    BY <1>2, <1>3 DEF MarkInv, Of, Ignored, Target

(* The ends of a bookmark, which no other record has.                      *)
LEMMA MarkEnds ==
    ASSUME NEW r \in Of("bookmark")
    PROVE  /\ r \in Records /\ By[r] \in Users /\ To[r] \in Posts /\ Pair(r) = <<By[r], To[r]>>
           /\ \A s \in Of("bookmark") : s # r => Pair(s) # Pair(r)
           /\ \A g : Present(g, r) <=> Pair(r) \in g.bookmarks
  <1>1. Kind[r] = "bookmark" /\ r \in Records /\ To[r] \in Posts
    BY DEF Of, Ignored, Target
  <1>2. By[r] \in Users /\ Pair(r) = <<By[r], To[r]>> /\ \A s \in Of("bookmark") : s # r => Pair(s) # Pair(r)
    BY <1>1, SocialGraphAssumption DEF Of, Pair
  <1>3. \A g : Present(g, r) <=> Pair(r) \in g.bookmarks
    BY <1>1 DEF Present, Pair
  <1> QED
    BY <1>1, <1>2, <1>3

(* Every step of the handler of a bookmark.                                *)
LEMMA MarkStep ==
    ASSUME TypeOK, LogOrder, Sequential, MarkInv, NEW w \in Loops, Busy(w), Handle(w),
           NEW r \in Records, r = Rec(w), Kind[r] = "bookmark"
    PROVE  MarkInv'
  <1> DEFINE j == job[w]
             n == job'[w]
  <1>0. /\ graph \in GraphType /\ index \in IndexType /\ j \in JobType
        /\ j.ev.r = r /\ j.ev.type \in {"put", "del"} /\ j.pc # "idle"
    BY AtBusy DEF TypeOK, StoresOK, Busy
  <1>1. /\ hs' = hs /\ (n = Idle \/ (n.ev = j.ev /\ n.pc \notin {"idle", "fetch", "find"}))
        /\ (n # Idle => Due(r)') /\ (~At(w, "fetch") => Due(r))
        /\ (~Ends(w) /\ ~At(w, "fetch") => Due(r)')
        /\ (At(w, "fetch") /\ ~Ignored(r) /\ Due(r) => Due(r)')
        /\ (Ends(w) /\ ~At(w, "fetch") => Due(r)' \/ (j.ev.type = "put" <=> hs[r] # Nothing))
    BY MoveSeq
  <1>2. /\ index.marks \subseteq graph.bookmarks /\ index.marked \subseteq graph.bookmarks
        /\ r \in Of("bookmark") => Due(r) \/ MarkSettled(r)
        /\ MarkJob(j)
    BY DEF MarkInv
  <1>3. /\ j.pc \notin {"fetch", "find"} => r \in Of("bookmark")
        /\ j.pc \in PutSteps => j.ev = PutOf(r) /\ j.ev.type = "put"
        /\ j.pc \in DelSteps => j.ev = DelOf(r) /\ j.ev.type = "del"
    BY PcKind
  <1>4. n = Idle => MarkJob(job[w])'
    BY IdleOK DEF MarkJob
  <1>t. Idle.pc = "idle"
    BY IdleOK
  <1>5. ASSUME UNCHANGED stores,
               r \in Of("bookmark") => Due(r)' \/ MarkSettled(r)', MarkJob(job[w])'
        PROVE  MarkInv'
    <2>1. UNCHANGED <<graph, index>>
      BY <1>5 DEF stores
    <2> QED
      BY <1>2, <1>5, <2>1, MarkClose
  <1>6. CASE Fetch(w)
    <2>1. UNCHANGED stores /\ At(w, "fetch")
      BY <1>6 DEF Fetch
    <2>2. r \in Of("bookmark") => Due(r)' \/ MarkSettled(r)'
      <3>1. SUFFICES ASSUME r \in Of("bookmark"), ~Due(r) PROVE MarkSettled(r)'
        BY <1>1, <2>1 DEF Of
      <3> QED
        BY <1>1, <1>2, <2>1, <3>1 DEF MarkSettled, stores, Pair
    <2>3. MarkJob(job[w])'
      <3>1. n = Idle \/ n.pc \notin {"mark", "done", "unedge"}
        <4>1. CASE Finish(w)
          BY <4>1 DEF Finish, TypeOK, JobsOK
        <4>2. CASE Proceed(w, TRUE, Goto(w, "edge"))
          <5>1. "edge" \in Steps /\ j.pc \notin Joins
            BY <2>1 DEF Steps, PutSteps, Joins, At
          <5> QED
            BY <4>2, <5>1, ProceedTo
        <4> QED
          BY <1>6, <4>1, <4>2 DEF Fetch
      <3> QED
        BY <1>4, <3>1 DEF MarkJob
    <2> QED
      BY <1>5, <2>1, <2>2, <2>3
  <1>7. CASE StoreEvent(w)
    <2>1. UNCHANGED stores /\ j.pc = "done" /\ n = Idle /\ ~At(w, "fetch") /\ r \in Of("bookmark")
      BY <1>3, <1>7 DEF StoreEvent, At, Finish, Proceed, TypeOK, JobsOK
    <2>2. Due(r)' \/ MarkSettled(r)'
      <3>1. CASE ~Ends(w)
        BY <1>1, <2>1, <3>1
      <3>2. CASE Ends(w)
        <4>1. Due(r)' \/ (j.ev.type = "put" <=> hs[r] # Nothing)
          BY <1>1, <2>1, <3>2
        <4>2. /\ j.ev.type = "put" => Pair(r) \in graph.bookmarks /\ Pair(r) \in index.marks /\ Pair(r) \in index.marked
              /\ j.ev.type = "del" => Pair(r) \notin graph.bookmarks
          BY <1>0, <1>2, <2>1 DEF MarkJob
        <4>3. j.ev.type = "del" => Pair(r) \notin index.marks /\ Pair(r) \notin index.marked
          BY <1>2, <4>2
        <4> QED
          BY <1>0, <1>1, <2>1, <4>1, <4>2, <4>3 DEF MarkSettled, stores, Pair
      <3> QED
        BY <3>1, <3>2
    <2> QED
      BY <1>4, <1>5, <2>1, <2>2
  <1>8. CASE Find(w)
    <2>1. /\ j.pc = "find" /\ UNCHANGED stores /\ j.ev = DelOf(r) /\ ~At(w, "fetch")
          /\ \/ Finish(w) /\ (Ignored(r) \/ ~Present(graph, r))
             \/ Proceed(w, TRUE, FindJob(w, r)) /\ ~Ignored(r)
      BY <1>8, FindStep DEF At
    <2>2. CASE Finish(w) /\ (Ignored(r) \/ ~Present(graph, r))
      <3>1. n = Idle /\ (r \in Of("bookmark") => ~Present(graph, r))
        BY <2>2 DEF Finish, TypeOK, JobsOK, Of
      <3>2. r \in Of("bookmark") => Due(r)' \/ MarkSettled(r)'
        <4>1. SUFFICES ASSUME r \in Of("bookmark") PROVE Due(r)' \/ MarkSettled(r)'
          OBVIOUS
        <4>2. Pair(r) \notin graph.bookmarks /\ Pair(r) \notin index.marks /\ Pair(r) \notin index.marked
          BY <1>2, <3>1, <4>1, MarkEnds
        <4>3. j.ev.type = "del"
          BY <2>1, Events
        <4>4. Due(r)' \/ hs[r] = Nothing
          BY <1>1, <2>1, <4>3
        <4> QED
          BY <1>1, <2>1, <4>2, <4>4 DEF MarkSettled, stores, Pair
      <3> QED
        BY <1>4, <1>5, <2>1, <3>1, <3>2
    <2>3. CASE Proceed(w, TRUE, FindJob(w, r)) /\ ~Ignored(r)
      <3> DEFINE f == FindJob(w, r)
      <3>1. f.pc = "unmark"
        BY <2>1, <2>3, FindJobOK DEF At
      <3> HIDE DEF f
      <3>2. n = f
        BY <2>3 DEF Proceed, f, TypeOK, JobsOK
      <3>3. MarkJob(job[w])'
        BY <3>1, <3>2 DEF MarkJob
      <3>4. Due(r)'
        BY <1>1, <1>t, <3>1, <3>2
      <3> QED
        BY <1>5, <2>1, <3>3, <3>4
    <2> QED
      BY <2>1, <2>2, <2>3
  <1>9. CASE PutEdge(w)
    <2>0. /\ j.pc = "edge" /\ j.ev = PutOf(r) /\ r \in Of("bookmark") /\ ~At(w, "fetch") /\ "edge" \in PutSteps
      BY <1>9, <1>3, PutEdgeStep DEF At, PutSteps
    <2>a. \A s \in Of("bookmark") : s # r => Pair(s) # Pair(r)
      BY <2>0, MarkEnds
    <2>d. Due(r)'
      <3>1. ~Ends(w)
        BY <2>0 DEF Ends
      <3> QED
        BY <1>1, <2>0, <3>1
    <2>1. \/ /\ Requeue(w)
             /\ IF Mends(r) = {} THEN graph' = graph /\ index' = index
                ELSE /\ graph' = IngestGraph(graph, index, Mended(r))
                     /\ index' = FillUser(index, graph, Mended(r))
          \/ /\ index' = index
             /\ \E ok \in BOOLEAN :
                  /\ graph' = IF ok THEN StoreEdge(graph, r) ELSE graph
                  /\ Proceed(w, ok, PutJob(w, r, Outcome(graph, r)))
             /\ Outcome(graph, r) \in {"Updated", "CreatedOrDeleted"}
      BY <1>9, PutEdgeStep
    <2>2. CASE Requeue(w) /\ graph' = graph /\ index' = index
      <3>1. n = Idle
        BY <2>2 DEF Requeue, TypeOK, JobsOK
      <3> QED
        BY <1>2, <1>4, <2>2, <2>d, <3>1, MarkClose
    <2>3. CASE index' = index /\ (\E ok \in BOOLEAN :
                  /\ graph' = IF ok THEN StoreEdge(graph, r) ELSE graph
                  /\ Proceed(w, ok, PutJob(w, r, Outcome(graph, r)))) /\ Outcome(graph, r) \in {"Updated", "CreatedOrDeleted"}
      <3>1. PICK ok \in BOOLEAN :
              /\ graph' = IF ok THEN StoreEdge(graph, r) ELSE graph
              /\ Proceed(w, ok, PutJob(w, r, Outcome(graph, r)))
        BY <2>3
      <3>2. graph'.bookmarks = IF ok THEN graph.bookmarks \cup {Pair(r)} ELSE graph.bookmarks
        <4>1. CASE ok
          <5>1. ~Ignored(r) /\ graph' = StoreEdge(graph, r)
            BY <2>0, <3>1, <4>1 DEF Of
          <5> QED
            BY <1>0, <4>1, <5>1, CreateEdgeGraph
        <4> QED
          BY <3>1, <4>1
      <3>3. MarkJob(job[w])'
        <4>1. CASE ok
          <5> DEFINE o == Outcome(graph, r)
                     f == PutJob(w, r, o)
          <5>0. o \in {"Updated", "CreatedOrDeleted"}
            BY <2>3
          <5> HIDE DEF o
          <5>1. f.pc = "mark" /\ f.ev = j.ev
            BY <2>0, <5>0, PutJobOK DEF At
          <5> HIDE DEF f
          <5>2. n = f
            BY <3>1, <4>1 DEF Proceed, TypeOK, JobsOK, f, o
          <5> QED
            BY <1>0, <3>2, <4>1, <5>1, <5>2 DEF MarkJob, Pair
        <4>2. CASE ~ok
          BY <1>4, <3>1, <4>2 DEF Proceed, TypeOK, JobsOK
        <4> QED
          BY <4>1, <4>2
      <3>4. index' = index
        BY <2>3
      <3> QED
        BY <1>2, <2>a, <2>d, <3>2, <3>3, <3>4, MarkClose
    <2>4. Mends(r) = {}
      BY DEF Mends
    <2> QED
      BY <2>1, <2>2, <2>3, <2>4
  <1>10. CASE Mark(w)
    <2>0. j.pc = "mark" /\ r \in Of("bookmark") /\ ~At(w, "fetch") /\ ~Ends(w) /\ j.pc \notin Joins /\ "done" \in Steps
          /\ j.ev.type = "put"
      BY <1>3, <1>10 DEF Mark, At, Ends, Joins, Steps, PutSteps
    <2>a. By[r] \in Users /\ To[r] \in Posts /\ Pair(r) = <<By[r], To[r]>> /\ \A s \in Of("bookmark") : s # r => Pair(s) # Pair(r)
      BY <2>0, MarkEnds
    <2>1. PICK k \in 0..2 : index' = PutBookmark(index, By[r], To[r], k) /\ Proceed(w, k = 2, Goto(w, "done"))
      BY <1>10 DEF Mark
    <2>2. /\ graph' = graph /\ index'.marks = (IF k >= 1 THEN index.marks \cup {Pair(r)} ELSE index.marks)
          /\ index'.marked = (IF k >= 2 THEN index.marked \cup {Pair(r)} ELSE index.marked)
      <3> DEFINE y == PutBookmark(index, By[r], To[r], k)
      <3>1. /\ y.marks = (IF k >= 1 THEN index.marks \cup {<<By[r], To[r]>>} ELSE index.marks)
            /\ y.marked = (IF k >= 2 THEN index.marked \cup {<<By[r], To[r]>>} ELSE index.marked)
        BY <1>0, <2>a, MarkIndex
      <3> HIDE DEF y
      <3> QED
        BY <1>10, <2>1, <2>a, <3>1 DEF Mark, y
    <2>3. (k = 2 => n.pc = "done" /\ n.ev = j.ev) /\ (k # 2 => n = Idle)
      <3>1. (k = 2) \in BOOLEAN
        OBVIOUS
      <3> QED
        BY <2>0, <2>1, <3>1, ProceedTo
    <2>4. Pair(r) \in graph.bookmarks
      BY <1>0, <1>2, <2>0 DEF MarkJob
    <2>5. MarkJob(job[w])'
      BY <1>0, <1>4, <2>0, <2>2, <2>3, <2>4 DEF MarkJob, Pair
    <2> QED
      BY <1>1, <1>2, <2>0, <2>2, <2>4, <2>5, <2>a, MarkClose
  <1>11. CASE Unmark(w)
    <2>0. j.pc = "unmark" /\ r \in Of("bookmark") /\ ~At(w, "fetch") /\ ~Ends(w) /\ j.pc \notin Joins /\ "unedge" \in Steps
      BY <1>3, <1>11 DEF Unmark, At, Ends, Joins, Steps, DelSteps
    <2>a. By[r] \in Users /\ To[r] \in Posts /\ Pair(r) = <<By[r], To[r]>> /\ \A s \in Of("bookmark") : s # r => Pair(s) # Pair(r)
      BY <2>0, MarkEnds
    <2>1. PICK k \in 0..2 : index' = DelBookmark(index, By[r], To[r], k) /\ Proceed(w, k = 2, Goto(w, "unedge"))
      BY <1>11 DEF Unmark
    <2>2. /\ graph' = graph /\ index'.marks = (IF k >= 1 THEN index.marks \ {Pair(r)} ELSE index.marks)
          /\ index'.marked = (IF k >= 2 THEN index.marked \ {Pair(r)} ELSE index.marked)
      <3> DEFINE y == DelBookmark(index, By[r], To[r], k)
      <3>1. /\ y.marks = (IF k >= 1 THEN index.marks \ {<<By[r], To[r]>>} ELSE index.marks)
            /\ y.marked = (IF k >= 2 THEN index.marked \ {<<By[r], To[r]>>} ELSE index.marked)
        BY <1>0, <2>a, MarkIndex
      <3> HIDE DEF y
      <3> QED
        BY <1>11, <2>1, <2>a, <3>1 DEF Unmark, y
    <2>3. (k = 2 => n.pc = "unedge" /\ n.ev = j.ev) /\ (k # 2 => n = Idle)
      <3>1. (k = 2) \in BOOLEAN
        OBVIOUS
      <3> QED
        BY <2>0, <2>1, <3>1, ProceedTo
    <2>5. MarkJob(job[w])'
      BY <1>0, <1>4, <2>2, <2>3 DEF MarkJob, Pair
    <2> QED
      BY <1>1, <1>2, <2>0, <2>2, <2>5, <2>a, MarkClose
  <1>12. CASE DeleteEdge(w)
    <2>0. j.pc = "unedge" /\ r \in Of("bookmark") /\ ~At(w, "fetch") /\ ~Ends(w) /\ j.pc \notin Joins /\ "done" \in Steps
          /\ j.ev.type = "del"
      BY <1>3, <1>12 DEF DeleteEdge, At, Ends, Joins, Steps, DelSteps
    <2>1. PICK ok \in BOOLEAN : /\ graph' = IF ~ok THEN graph ELSE DropEdge(graph, r, j.edge)
                                /\ Proceed(w, ok, Goto(w, "done"))
      BY <1>12 DEF DeleteEdge, DropEdge
    <2>a. \A s \in Of("bookmark") : s # r => Pair(s) # Pair(r)
      BY <2>0, MarkEnds
    <2>2. index' = index /\ graph'.bookmarks = IF ok THEN graph.bookmarks \ {Pair(r)} ELSE graph.bookmarks
      <3>1. PICK e \in Edges \cup {Nothing} : j.edge = e
        BY <1>0 DEF JobType
      <3>2. CASE ok
        <4>1. graph' = DropEdge(graph, r, e)
          BY <2>1, <3>1, <3>2
        <4>2. graph'.bookmarks = graph.bookmarks \ {Pair(r)}
          BY <1>0, <4>1, DeleteEdgeGraph
        <4> QED
          BY <1>12, <3>2, <4>2 DEF DeleteEdge
      <3> QED
        BY <1>12, <2>1, <3>2 DEF DeleteEdge
    <2>3. /\ ok => n.pc = "done" /\ n.ev = j.ev
          /\ ~ok => n = Idle
      BY <2>0, <2>1, ProceedTo
    <2>4. Pair(r) \notin index.marks /\ Pair(r) \notin index.marked
      BY <1>0, <1>2, <2>0 DEF MarkJob
    <2>5. MarkJob(job[w])'
      BY <1>0, <1>4, <2>0, <2>2, <2>3 DEF MarkJob, Pair
    <2> QED
      BY <1>1, <1>2, <2>0, <2>2, <2>4, <2>5, <2>a, MarkClose
  <1> QED
    BY <1>6, <1>7, <1>8, <1>9, <1>10, <1>11, <1>12, KindSteps

(* Bookmarks, through every step.                                          *)
LEMMA MarkNext ==
    ASSUME TypeOK, LogOrder, Sequential, RemovesClear, MarkInv, Next, ~overlap'
    PROVE  MarkInv'
  <1>1. (\E w \in Loops : Handles(w, "bookmark")) \/ (Quietly("bookmark") /\ MarksKept)
    BY Frames
  <1>2. ASSUME NEW w \in Loops, Handles(w, "bookmark") PROVE MarkInv'
    <2>1. PICK r \in Records : r = Rec(w)
      BY <1>2, AtBusy DEF Handles
    <2> QED
      BY <1>2, <2>1, MarkStep DEF Handles
  <1> QED
    BY <1>1, <1>2, MarkFrame

-----------------------------------------------------------------------------
(* Files.                                                                  *)
LEMMA FileFrame ==
    ASSUME FileInv, Quietly("file"), FilesKept
    PROVE  FileInv'
  <1>1. graph'.files = graph.files /\ disk' = disk
    BY DEF FilesKept
  <1>2. graph'.files \subseteq disk'
    BY <1>1 DEF FileInv
  <1>3. ASSUME NEW r \in Of("file") PROVE Due(r)' \/ FileSettled(r)'
    <2>1. CASE Due(r)
      BY <2>1 DEF Quietly
    <2>2. CASE FileSettled(r)
      BY <1>1, <2>2 DEF Quietly, FileSettled
    <2> QED
      BY <2>1, <2>2 DEF FileInv
  <1>4. ASSUME NEW w \in Loops PROVE FileJob(job[w])'
    <2>1. CASE job'[w] = job[w]
      BY <1>1, <2>1 DEF FileInv, FileJob
    <2>2. CASE job'[w] # job[w]
      BY <2>2, IdleOK DEF Quietly, FileJob
    <2> QED
      BY <2>1, <2>2
  <1> QED
    BY <1>2, <1>3, <1>4 DEF FileInv, Of, Ignored, Target

(* What a handler of the file r has to leave behind.                       *)
LEMMA FileClose ==
    ASSUME TypeOK, LogOrder, Sequential, FileInv, NEW w \in Loops, Busy(w), Handle(w),
           NEW r \in Records, r = Rec(w), Kind[r] = "file",
           \A s \in Of("file") : s # r =>
             (s \in graph'.files <=> s \in graph.files) /\ (s \in disk' <=> s \in disk),
           graph'.files \subseteq disk',
           r \in Of("file") => Due(r)' \/ FileSettled(r)',
           FileJob(job[w])'
    PROVE  FileInv'
  <1>1. /\ \A s \in Records : s # r /\ Due(s) => Due(s)'
        /\ hs' = hs /\ \A v \in Loops : v # w => job'[v] = job[v]
        /\ Alone(w)
    BY MoveSeq
  <1>2. ASSUME NEW s \in Of("file") PROVE Due(s)' \/ FileSettled(s)'
    <2>1. CASE s # r
      <3>1. s \in Records /\ (Due(s) \/ FileSettled(s))
        BY DEF FileInv, Of
      <3>2. CASE Due(s)
        BY <1>1, <2>1, <3>1, <3>2
      <3>3. CASE FileSettled(s)
        BY <1>1, <2>1, <3>3 DEF FileSettled
      <3> QED
        BY <3>1, <3>2, <3>3
    <2> QED
      BY <2>1
  <1>3. ASSUME NEW v \in Loops PROVE FileJob(job[v])'
    <2>1. CASE v # w
      BY <1>1, <2>1 DEF Alone, Busy, FileJob
    <2> QED
      BY <2>1
  <1> QED
    BY <1>2, <1>3 DEF FileInv, Of, Ignored, Target

(* Every step of the handler of a file.                                    *)
LEMMA FileStep ==
    ASSUME TypeOK, LogOrder, Sequential, FileInv, NEW w \in Loops, Busy(w), Handle(w),
           NEW r \in Records, r = Rec(w), Kind[r] = "file"
    PROVE  FileInv'
  <1> DEFINE j == job[w]
             n == job'[w]
  <1>0. /\ graph \in GraphType /\ index \in IndexType /\ j \in JobType /\ disk \subseteq Of("file")
        /\ j.ev.r = r /\ j.ev.type \in {"put", "del"} /\ j.pc # "idle"
        /\ r \in Of("file") /\ graph.files \subseteq Of("file")
    BY AtBusy DEF TypeOK, StoresOK, Busy, Of, Ignored, GraphType
  <1>1. /\ hs' = hs /\ (n = Idle \/ (n.ev = j.ev /\ n.pc \notin {"idle", "fetch", "find"}))
        /\ (n # Idle => Due(r)') /\ (~At(w, "fetch") => Due(r))
        /\ (~Ends(w) /\ ~At(w, "fetch") => Due(r)')
        /\ (At(w, "fetch") /\ ~Ignored(r) /\ Due(r) => Due(r)')
        /\ (Ends(w) /\ ~At(w, "fetch") => Due(r)' \/ (j.ev.type = "put" <=> hs[r] # Nothing))
    BY MoveSeq
  <1>2. /\ graph.files \subseteq disk /\ FileJob(j)
        /\ Due(r) \/ FileSettled(r)
    BY <1>0 DEF FileInv
  <1>3. /\ j.pc \in PutSteps => j.ev = PutOf(r) /\ j.ev.type = "put"
        /\ j.pc \in DelSteps => j.ev = DelOf(r) /\ j.ev.type = "del"
    BY PcKind
  <1>4. n = Idle => FileJob(job[w])'
    BY IdleOK DEF FileJob
  <1>t. Idle.pc = "idle"
    BY IdleOK
  <1>5. ASSUME UNCHANGED stores, Due(r)' \/ FileSettled(r)', FileJob(job[w])'
        PROVE  FileInv'
    <2>1. UNCHANGED <<graph, disk>>
      BY <1>5 DEF stores
    <2> QED
      BY <1>2, <1>5, <2>1, FileClose
  <1>6. CASE Fetch(w)
    <2>1. UNCHANGED stores /\ At(w, "fetch")
      BY <1>6 DEF Fetch
    <2>2. Due(r)' \/ FileSettled(r)'
      <3>1. SUFFICES ASSUME ~Due(r) PROVE FileSettled(r)'
        BY <1>0, <1>1, <2>1 DEF Of
      <3> QED
        BY <1>1, <1>2, <2>1, <3>1 DEF FileSettled, stores
    <2>3. FileJob(job[w])'
      <3>1. n = Idle \/ n.pc = "write"
        <4>1. CASE Finish(w)
          BY <4>1 DEF Finish, TypeOK, JobsOK
        <4>2. CASE Proceed(w, TRUE, Goto(w, "write"))
          <5>1. "write" \in Steps /\ j.pc \notin Joins
            BY <2>1 DEF Steps, PutSteps, Joins, At
          <5> QED
            BY <4>2, <5>1, ProceedTo
        <4> QED
          BY <1>6, <4>1, <4>2 DEF Fetch
      <3> QED
        BY <1>4, <3>1 DEF FileJob
    <2> QED
      BY <1>5, <2>1, <2>2, <2>3
  <1>7. CASE StoreEvent(w)
    <2>1. UNCHANGED stores /\ j.pc = "done" /\ n = Idle /\ ~At(w, "fetch")
      BY <1>3, <1>7 DEF StoreEvent, At, Finish, Proceed, TypeOK, JobsOK
    <2>2. Due(r)' \/ FileSettled(r)'
      <3>1. CASE ~Ends(w)
        BY <1>1, <2>1, <3>1
      <3>2. CASE Ends(w)
        <4>1. Due(r)' \/ (j.ev.type = "put" <=> hs[r] # Nothing)
          BY <1>1, <2>1, <3>2
        <4>2. /\ j.ev.type = "put" => r \in graph.files /\ r \in disk
              /\ j.ev.type = "del" => r \notin graph.files /\ r \notin disk
          BY <1>0, <1>2, <2>1 DEF FileJob
        <4> QED
          BY <1>0, <1>1, <2>1, <4>1, <4>2 DEF FileSettled, stores
      <3> QED
        BY <3>1, <3>2
    <2> QED
      BY <1>4, <1>5, <2>1, <2>2
  <1>8. CASE Find(w)
    <2>1. /\ j.pc = "find" /\ UNCHANGED stores /\ j.ev = DelOf(r) /\ ~At(w, "fetch")
          /\ Proceed(w, TRUE, FindJob(w, r)) /\ ~Ignored(r)
      BY <1>0, <1>8, FindStep DEF At, Of
    <2> DEFINE f == FindJob(w, r)
    <2>2. f.pc = "erase"
      BY <2>1, FindJobOK DEF At
    <2> HIDE DEF f
    <2>3. n = f
      BY <2>1 DEF Proceed, f, TypeOK, JobsOK
    <2>4. FileJob(job[w])'
      BY <2>2, <2>3 DEF FileJob
    <2>5. Due(r)'
      BY <1>1, <1>t, <2>2, <2>3
    <2> QED
      BY <1>5, <2>1, <2>4, <2>5
  <1>9. CASE WriteFile(w)
    <2>0. j.pc = "write" /\ ~At(w, "fetch") /\ ~Ends(w) /\ j.pc \notin Joins /\ "done" \in Steps /\ j.ev.type = "put"
      BY <1>3, <1>9 DEF WriteFile, At, Ends, Joins, Steps, PutSteps
    <2>1. PICK k \in 0..2 : /\ disk' = IF k >= 1 THEN disk \cup {r} ELSE disk
                            /\ graph' = IF k = 2 THEN CreateFile(graph, r) ELSE graph
                            /\ Proceed(w, k = 2, Goto(w, "done"))
      BY <1>9 DEF WriteFile
    <2>2. graph'.files = IF k = 2 THEN graph.files \cup {r} ELSE graph.files
      <3>1. CreateFile(graph, r).files = graph.files \cup {r}
        BY <1>0, FileGraph
      <3> QED
        BY <2>1, <3>1
    <2>3. (k = 2 => n.pc = "done" /\ n.ev = j.ev) /\ (k # 2 => n = Idle)
      <3>1. (k = 2) \in BOOLEAN
        OBVIOUS
      <3> QED
        BY <2>0, <2>1, <3>1, ProceedTo
    <2>4. FileJob(job[w])'
      BY <1>0, <1>4, <2>0, <2>2, <2>3 DEF FileJob
    <2> QED
      BY <1>1, <1>2, <2>0, <2>1, <2>2, <2>4, FileClose
  <1>10. CASE EraseFile(w)
    <2>0. j.pc = "erase" /\ ~At(w, "fetch") /\ ~Ends(w) /\ j.pc \notin Joins /\ "done" \in Steps /\ j.ev.type = "del"
      BY <1>3, <1>10 DEF EraseFile, At, Ends, Joins, Steps, DelSteps
    <2>1. PICK k \in 0..2 : /\ graph' = IF k >= 1 THEN DeleteFile(graph, r) ELSE graph
                            /\ disk' = IF k = 2 THEN disk \ {r} ELSE disk
                            /\ Proceed(w, k = 2, Goto(w, "done"))
      BY <1>10 DEF EraseFile
    <2>2. graph'.files = IF k >= 1 THEN graph.files \ {r} ELSE graph.files
      <3>1. DeleteFile(graph, r).files = graph.files \ {r}
        BY <1>0, FileGraph
      <3> QED
        BY <2>1, <3>1
    <2>3. (k = 2 => n.pc = "done" /\ n.ev = j.ev) /\ (k # 2 => n = Idle)
      <3>1. (k = 2) \in BOOLEAN
        OBVIOUS
      <3> QED
        BY <2>0, <2>1, <3>1, ProceedTo
    <2>4. FileJob(job[w])'
      BY <1>0, <1>4, <2>0, <2>1, <2>3 DEF FileJob
    <2> QED
      BY <1>1, <1>2, <2>0, <2>1, <2>2, <2>4, FileClose
  <1> QED
    BY <1>6, <1>7, <1>8, <1>9, <1>10, KindSteps

(* Files, through every step.                                              *)
LEMMA FileNext ==
    ASSUME TypeOK, LogOrder, Sequential, RemovesClear, FileInv, Next, ~overlap'
    PROVE  FileInv'
  <1>1. (\E w \in Loops : Handles(w, "file")) \/ (Quietly("file") /\ FilesKept)
    BY Frames
  <1>2. ASSUME NEW w \in Loops, Handles(w, "file") PROVE FileInv'
    <2>1. PICK r \in Records : r = Rec(w)
      BY <1>2, AtBusy DEF Handles
    <2> QED
      BY <1>2, <2>1, FileStep DEF Handles
  <1> QED
    BY <1>1, <1>2, FileFrame

(* The edge of a tag, and who else can have it.                            *)
LEMMA TagEnds ==
    ASSUME NEW r \in Of("tag")
    PROVE  /\ r \in Records /\ By[r] \in Users /\ By[r] \in Owners /\ Label[r] \in Labels
           /\ TagEdge(r) \in Edges /\ TagEdge(r).by = By[r] /\ TagEdge(r).to = To[r] /\ TagEdge(r).label = Label[r]
           /\ \A e \in Edges : /\ e.by = By[r] /\ e.to = To[r] /\ e.label = Label[r] /\ To[r] \in Targets
                               => e = TagEdge(r)
  <1>1. r \in Records /\ By[r] \in Users /\ By[r] \in Owners /\ Label[r] \in Labels /\ TagEdge(r) \in Edges
    BY SocialGraphAssumption DEF Of, Owners, Edges
  <1>2. TagEdge(r).by = By[r] /\ TagEdge(r).to = To[r] /\ TagEdge(r).label = Label[r]
    BY DEF TagEdge
  <1>3. ASSUME NEW e \in Edges, e.by = By[r], e.to = To[r], e.label = Label[r], To[r] \in Targets
        PROVE  e = TagEdge(r)
    <2>1. PICK s \in Of("tag") : e = TagEdge(s)
      BY DEF Edges
    <2>2. By[s] = By[r] /\ To[s] = To[r] /\ Label[s] = Label[r]
      BY <1>3, <2>1 DEF TagEdge
    <2>3. Target(s) # "resource" /\ Target(r) # "resource"
      BY <1>3, <2>2 DEF Target, Targets
    <2> QED
      BY <2>1, <2>2, <2>3 DEF TagEdge
  <1> QED
    BY <1>1, <1>2, <1>3

(* Every edge in the graph has ends and a label.                           *)
LEMMA EdgeFields ==
    ASSUME TypeOK, NEW e \in graph.tags
    PROVE  /\ e \in Edges /\ e.by \in Users /\ e.by \in Owners /\ e.label \in Labels
           /\ \E s \in Of("tag") : e = TagEdge(s)
  <1>1. e \in Edges
    BY DEF TypeOK, StoresOK, GraphType
  <1>2. PICK s \in Of("tag") : e = TagEdge(s)
    BY <1>1 DEF Edges
  <1> QED
    BY <1>1, <1>2, TagEnds

(* A step that leaves tags alone.                                          *)
LEMMA TagFrame ==
    ASSUME TagInv, Quietly("tag"), TagsKept
    PROVE  TagInv'
  <1>1. graph'.tags = graph.tags /\ index'.taggers = index.taggers /\ index'.posts = index.posts
    BY DEF TagsKept, SameTags
  <1>2. /\ \A t \in Targets, l \in Labels : \A v \in index'.taggers[t][l] :
             \E e \in graph'.tags : e.by = v /\ e.to = t /\ e.label = l
        /\ \A l \in Labels : \A p \in index'.posts[l] : \E e \in graph'.tags : e.to = p /\ e.label = l
    BY <1>1 DEF TagInv
  <1>3. ASSUME NEW e \in graph'.tags PROVE DueEdge(e)' \/ (Held(e) /\ Indexed(e) /\ Listed(e))'
    <2>0. Indexed(e)' = Indexed(e) /\ Listed(e)' = Listed(e)
      BY <1>1 DEF Indexed, Listed
    <2>1. CASE DueEdge(e)
      BY <2>1 DEF Quietly, DueEdge, Of, Ignored, Target
    <2>2. CASE Held(e) /\ Indexed(e) /\ Listed(e)
      <3>1. PICK s \in Of("tag") : TagEdge(s) = e /\ hs[s] # Nothing
        BY <2>2 DEF Held
      <3>2. hs'[s] = hs[s] \/ Due(s)'
        BY DEF Quietly
      <3>3. CASE Due(s)'
        BY <3>1, <3>3 DEF DueEdge
      <3>4. CASE hs'[s] = hs[s]
        BY <2>0, <2>2, <3>1, <3>4 DEF Held
      <3> QED
        BY <3>2, <3>3, <3>4
    <2> QED
      BY <1>1, <2>1, <2>2 DEF TagInv
  <1>4. ASSUME NEW w \in Loops PROVE TagJob(job[w])'
    <2>1. CASE job'[w] = job[w]
      <3>1. TagJob(job[w])
        BY DEF TagInv
      <3> QED
        BY <1>1, <2>1, <3>1 DEF TagJob, Indexed, Listed
    <2>2. CASE job'[w] # job[w]
      BY <2>2, IdleOK DEF Quietly, TagJob
    <2> QED
      BY <2>1, <2>2
  <1> QED
    BY <1>2, <1>3, <1>4 DEF TagInv, Targets

(* What a handler of the tag r has to leave behind.                        *)
LEMMA TagClose ==
    ASSUME TypeOK, LogOrder, Sequential, TagInv, NEW w \in Loops, Busy(w), Handle(w),
           NEW r \in Records, r = Rec(w), Kind[r] = "tag",
           \A e \in graph'.tags :
             \/ r \in Of("tag") /\ e = TagEdge(r)
             \/ e \in graph.tags /\ (Indexed(e) /\ Listed(e) => (Indexed(e) /\ Listed(e))'),
           \A t \in Targets, l \in Labels : \A v \in index'.taggers[t][l] :
             \E e \in graph'.tags : e.by = v /\ e.to = t /\ e.label = l,
           \A l \in Labels : \A p \in index'.posts[l] : \E e \in graph'.tags : e.to = p /\ e.label = l,
           r \in Of("tag") /\ TagEdge(r) \in graph'.tags =>
             Due(r)' \/ DueEdge(TagEdge(r))' \/ (Held(TagEdge(r)) /\ Indexed(TagEdge(r)) /\ Listed(TagEdge(r)))',
           TagJob(job[w])'
    PROVE  TagInv'
  <1>1. /\ \A s \in Records : s # r /\ Due(s) => Due(s)'
        /\ hs' = hs /\ \A v \in Loops : v # w => job'[v] = job[v]
        /\ Alone(w)
    BY MoveSeq
  <1>2. ASSUME NEW e \in graph'.tags PROVE DueEdge(e)' \/ (Held(e) /\ Indexed(e) /\ Listed(e))'
    <2>1. CASE r \in Of("tag") /\ e = TagEdge(r)
      <3>1. CASE Due(r)'
        BY <2>1, <3>1 DEF DueEdge
      <3> QED
        BY <2>1, <3>1
    <2>2. CASE ~(r \in Of("tag") /\ e = TagEdge(r))
      <3>1. e \in graph.tags /\ (Indexed(e) /\ Listed(e) => (Indexed(e) /\ Listed(e))')
        BY <2>2
      <3>2. CASE DueEdge(e)
        <4>1. PICK s \in Of("tag") : TagEdge(s) = e /\ Due(s)
          BY <3>2 DEF DueEdge
        <4>2. s # r /\ s \in Records
          BY <2>2, <4>1 DEF Of
        <4>3. Due(s)'
          BY <1>1, <4>1, <4>2
        <4> QED
          BY <4>1, <4>3 DEF DueEdge
      <3>3. CASE Held(e) /\ Indexed(e) /\ Listed(e)
        BY <1>1, <3>1, <3>3 DEF Held, Of, Ignored, Target
      <3> QED
        BY <3>1, <3>2, <3>3 DEF TagInv
    <2> QED
      BY <2>1, <2>2
  <1>3. ASSUME NEW v \in Loops PROVE TagJob(job[v])'
    <2>1. CASE v # w
      BY <1>1, <2>1 DEF Alone, Busy, TagJob
    <2> QED
      BY <2>1
  <1> QED
    BY <1>2, <1>3 DEF TagInv, Targets

(* A reader finds the taggers as the graph has them.                       *)
LEMMA TagViews ==
    ASSUME TypeOK, TagInv, NEW t \in Targets, ViewTags(t), ~overlap'
    PROVE  TagsKept
  <1>0. graph \in GraphType /\ index \in IndexType
    BY DEF TypeOK, StoresOK
  <1>1. Quiet /\ graph' = graph /\ index' = FillTags(index, graph, t)
    <2>1. Viewed
      BY DEF Viewed
    <2> QED
      BY <2>1, ViewedQuiet DEF ViewTags, View
  <1>2. \A e \in graph.tags : Indexed(e)
    BY <1>1, QuietDue DEF TagInv, DueEdge, Of
  <1>3. ASSUME NEW s \in Targets, NEW l \in Labels PROVE Taggers(graph, s, l) \subseteq index.taggers[s][l]
    BY <1>2 DEF Taggers, Indexed
  <1>4. /\ index' \in IndexType /\ index'.posts = index.posts
        /\ \A s \in Targets, l \in Labels : index'.taggers[s][l] = index.taggers[s][l]
    <2> DEFINE y == FillTags(index, graph, t)
               miss == Unlisted(index, t)
    <2>1. /\ y \in IndexType /\ y.posts = index.posts
          /\ \A s \in Targets, l \in Labels :
                y.taggers[s][l] = IF s = t /\ miss THEN index.taggers[s][l] \cup Taggers(graph, s, l)
                                  ELSE index.taggers[s][l]
      BY <1>0, FillTagsIndex, ZenonT(60)
    <2>2. index' = y
      BY <1>1
    <2> HIDE DEF y, miss
    <2>3. ASSUME NEW s \in Targets, NEW l \in Labels PROVE index'.taggers[s][l] = index.taggers[s][l]
      BY <1>3, <2>1, <2>2, SMTT(30)
    <2> QED
      BY <2>1, <2>2, <2>3
  <1>6. index'.taggers = index.taggers
    <2>1. index.taggers \in TaggersType /\ index'.taggers \in TaggersType
      BY <1>0, <1>4 DEF IndexType
    <2>2. \A s \in Targets : index'.taggers[s] = index.taggers[s]
      BY <1>4, <2>1 DEF TaggersType
    <2> QED
      BY <2>1, <2>2 DEF TaggersType
  <1> QED
    BY <1>1, <1>4, <1>6 DEF TagsKept, SameTags

(* Every step of the handler of a tag.                                     *)
LEMMA TagStep ==
    ASSUME TypeOK, LogOrder, Sequential, TagInv, NEW w \in Loops, Busy(w), Handle(w),
           NEW r \in Records, r = Rec(w), Kind[r] = "tag"
    PROVE  TagInv'
  <1> DEFINE j == job[w]
             n == job'[w]
             e == TagEdge(r)
  <1>0. /\ graph \in GraphType /\ index \in IndexType /\ j \in JobType
        /\ j.ev.r = r /\ j.ev.type \in {"put", "del"} /\ j.pc # "idle"
    BY AtBusy DEF TypeOK, StoresOK, Busy
  <1>1. /\ hs' = hs /\ (n = Idle \/ (n.ev = j.ev /\ n.pc \notin {"idle", "fetch", "find"}))
        /\ (n # Idle => Due(r)') /\ (~At(w, "fetch") => Due(r))
        /\ (~Ends(w) /\ ~At(w, "fetch") => Due(r)')
        /\ (At(w, "fetch") /\ ~Ignored(r) /\ Due(r) => Due(r)')
        /\ (Ends(w) /\ ~At(w, "fetch") => Due(r)' \/ (j.ev.type = "put" <=> hs[r] # Nothing))
    BY MoveSeq
  <1>2. /\ \A t \in Targets, l \in Labels : \A v \in index.taggers[t][l] :
             \E d \in graph.tags : d.by = v /\ d.to = t /\ d.label = l
        /\ \A l \in Labels : \A p \in index.posts[l] : \E d \in graph.tags : d.to = p /\ d.label = l
        /\ TagJob(j)
    BY DEF TagInv
  <1>a. \A d \in graph.tags : DueEdge(d) \/ (Held(d) /\ Indexed(d) /\ Listed(d))
    BY DEF TagInv
  <1>3. /\ j.pc \notin {"fetch", "find"} => r \in Of("tag")
        /\ j.pc \in PutSteps => j.ev = PutOf(r) /\ j.ev.type = "put"
        /\ j.pc \in DelSteps => j.ev = DelOf(r) /\ j.ev.type = "del"
    BY PcKind
  <1>4. n = Idle => TagJob(job[w])'
    BY IdleOK DEF TagJob
  <1>t. Idle.pc = "idle"
    BY IdleOK
  <1>e. r \in Of("tag") => /\ By[r] \in Users /\ By[r] \in Owners /\ Label[r] \in Labels
                           /\ e \in Edges /\ e.by = By[r] /\ e.to = To[r] /\ e.label = Label[r]
                           /\ \A d \in graph.tags : d.by = By[r] /\ d.to = To[r] /\ d.label = Label[r] /\ To[r] \in Targets
                                                    => d = e
    BY TagEnds, EdgeFields
  <1>p. /\ To[r] \in Posts => To[r] \notin Users /\ To[r] \in Targets /\ Target(r) = "post"
        /\ To[r] \in Users => To[r] \notin Posts /\ To[r] \in Targets /\ Target(r) = "user"
    BY SocialGraphAssumption DEF Target, Targets
  <1> HIDE DEF e
  (* Steps that leave the sets alone.                                      *)
  <1>5. ASSUME TagsKept,
               r \in Of("tag") /\ e \in graph.tags =>
                 Due(r)' \/ DueEdge(e)' \/ (Held(e) /\ Indexed(e) /\ Listed(e))',
               TagJob(job[w])'
        PROVE  TagInv'
    <2>1. graph'.tags = graph.tags /\ index'.taggers = index.taggers /\ index'.posts = index.posts
      BY <1>5 DEF TagsKept, SameTags
    <2>2. \A d \in graph'.tags : d \in graph.tags /\ (Indexed(d) /\ Listed(d) => (Indexed(d) /\ Listed(d))')
      BY <2>1 DEF Indexed, Listed
    <2> QED
      BY <1>2, <1>5, <2>1, <2>2, TagClose DEF e
  <1>s. UNCHANGED stores => TagsKept
    BY DEF stores, TagsKept, SameTags
  <1>6. CASE Fetch(w)
    <2>1. UNCHANGED stores /\ At(w, "fetch")
      BY <1>6 DEF Fetch
    <2>2. ASSUME r \in Of("tag"), e \in graph.tags
          PROVE  Due(r)' \/ DueEdge(e)' \/ (Held(e) /\ Indexed(e) /\ Listed(e))'
      <3>1. CASE DueEdge(e)
        <4>1. PICK s \in Of("tag") : TagEdge(s) = e /\ Due(s)
          BY <3>1 DEF DueEdge
        <4>2. s \in Records
          BY DEF Of
        <4>3. Due(s)'
          <5>1. CASE s = r
            BY <1>1, <2>1, <2>2, <4>1, <5>1 DEF Of
          <5>2. CASE s # r
            BY <4>1, <4>2, <5>2, MoveSeq
          <5> QED
            BY <5>1, <5>2
        <4> QED
          BY <4>1, <4>3 DEF DueEdge
      <3>2. CASE Held(e) /\ Indexed(e) /\ Listed(e)
        BY <1>1, <2>1, <3>2 DEF Held, Indexed, Listed, stores, Of, Ignored, Target
      <3> QED
        BY <1>a, <2>2, <3>1, <3>2
    <2>3. TagJob(job[w])'
      <3>1. n = Idle \/ n.pc \notin {"tag", "sync", "done", "untag", "cleanup", "unedge", "uncount"}
        <4>1. CASE Finish(w)
          BY <4>1 DEF Finish, TypeOK, JobsOK
        <4>2. CASE Proceed(w, TRUE, Goto(w, "edge"))
          <5>1. "edge" \in Steps /\ j.pc \notin Joins
            BY <2>1 DEF Steps, PutSteps, Joins, At
          <5> QED
            BY <4>2, <5>1, ProceedTo
        <4> QED
          BY <1>6, <4>1, <4>2 DEF Fetch
      <3> QED
        BY <1>4, <3>1 DEF TagJob
    <2> QED
      BY <1>5, <1>s, <2>1, <2>2, <2>3
  <1>7. CASE StoreEvent(w)
    <2>1. UNCHANGED stores /\ j.pc = "done" /\ n = Idle /\ ~At(w, "fetch") /\ r \in Of("tag")
      BY <1>3, <1>7 DEF StoreEvent, At, Finish, Proceed, TypeOK, JobsOK
    <2>2. e \in graph.tags => Due(r)' \/ (Held(e) /\ Indexed(e) /\ Listed(e))'
      <3>1. CASE ~Ends(w)
        BY <1>1, <2>1, <3>1
      <3>2. CASE Ends(w)
        <4>1. Due(r)' \/ (j.ev.type = "put" <=> hs[r] # Nothing)
          BY <1>1, <2>1, <3>2
        <4>2. /\ j.ev.type = "put" => Indexed(e) /\ Listed(e)
              /\ j.ev.type = "del" => e \notin graph.tags
          BY <1>0, <1>2, <2>1 DEF TagJob, e
        <4>3. j.ev.type = "put" /\ hs[r] # Nothing => (Held(e) /\ Indexed(e) /\ Listed(e))'
          BY <1>1, <2>1, <4>2 DEF Held, Indexed, Listed, stores, e
        <4> QED
          BY <1>0, <4>1, <4>2, <4>3
      <3> QED
        BY <3>1, <3>2
    <2> QED
      BY <1>4, <1>5, <1>s, <2>1, <2>2
  <1>8. CASE Find(w)
    <2>1. /\ j.pc = "find" /\ UNCHANGED stores /\ j.ev = DelOf(r) /\ ~At(w, "fetch")
          /\ \/ Finish(w) /\ (Ignored(r) \/ ~Present(graph, r))
             \/ Proceed(w, TRUE, FindJob(w, r)) /\ ~Ignored(r) /\ Present(graph, r)
      BY <1>8, FindStep DEF At
    <2>a. Present(graph, r) <=> e \in graph.tags
      BY DEF Present, e
    <2>2. CASE Finish(w) /\ (Ignored(r) \/ ~Present(graph, r))
      <3>1. n = Idle /\ (r \in Of("tag") => e \notin graph.tags)
        BY <2>2, <2>a DEF Finish, TypeOK, JobsOK, Of
      <3> QED
        BY <1>4, <1>5, <1>s, <2>1, <3>1
    <2>3. CASE Proceed(w, TRUE, FindJob(w, r)) /\ ~Ignored(r) /\ Present(graph, r)
      <3> DEFINE f == FindJob(w, r)
      <3>1. /\ f.ev = j.ev /\ Target(r) \in {"post", "user", "resource"}
            /\ f.pc = IF Target(r) = "resource" THEN "unedge" ELSE "untag"
            /\ Target(r) # "resource" => f.todo = UntagWrites
        BY <2>1, <2>3, FindJobOK DEF At
      <3> HIDE DEF f
      <3>2. n = f
        BY <2>3 DEF Proceed, f, TypeOK, JobsOK
      <3>a. Target(r) = "resource" => To[r] \notin Targets /\ To[r] \notin Posts
        BY DEF Target, Targets
      <3>b. "untagger" \in UntagWrites /\ j.ev.type = "del"
        BY <2>1, Events DEF UntagWrites
      <3>c. n.ev.r = r /\ n.ev.type = "del" /\ e \in graph'.tags
        BY <1>0, <2>1, <2>3, <2>a, <3>1, <3>2, <3>b DEF stores
      <3>3. TagJob(job[w])'
        <4>1. CASE Target(r) = "resource"
          BY <3>1, <3>2, <3>a, <3>c, <4>1 DEF TagJob, e
        <4>2. CASE Target(r) # "resource"
          BY <3>1, <3>2, <3>b, <3>c, <4>2 DEF TagJob, e
        <4> QED
          BY <4>1, <4>2
      <3>4. Due(r)'
        BY <1>1, <1>t, <3>1, <3>2
      <3> QED
        BY <1>5, <1>s, <2>1, <3>3, <3>4
    <2> QED
      BY <2>1, <2>2, <2>3
  <1>9. CASE PutEdge(w)
    <2>0. /\ j.pc = "edge" /\ j.ev = PutOf(r) /\ r \in Of("tag") /\ ~At(w, "fetch") /\ "edge" \in PutSteps
      BY <1>9, <1>3, PutEdgeStep DEF At, PutSteps
    <2>d. Due(r)'
      <3>1. ~Ends(w)
        BY <2>0 DEF Ends
      <3> QED
        BY <1>1, <2>0, <3>1
    <2>1. \/ /\ Requeue(w)
             /\ IF Mends(r) = {} THEN graph' = graph /\ index' = index
                ELSE /\ graph' = IngestGraph(graph, index, Mended(r))
                     /\ index' = FillUser(index, graph, Mended(r))
          \/ /\ index' = index
             /\ \E ok \in BOOLEAN :
                  /\ graph' = IF ok THEN StoreEdge(graph, r) ELSE graph
                  /\ Proceed(w, ok, PutJob(w, r, Outcome(graph, r)))
             /\ Outcome(graph, r) \in {"Updated", "CreatedOrDeleted"}
      BY <1>9, PutEdgeStep
    <2>2. CASE Requeue(w) /\ IF Mends(r) = {} THEN graph' = graph /\ index' = index
                ELSE /\ graph' = IngestGraph(graph, index, Mended(r))
                     /\ index' = FillUser(index, graph, Mended(r))
      <3>1. n = Idle
        BY <2>2 DEF Requeue, TypeOK, JobsOK
      <3>2. TagsKept
        <4>1. CASE Mends(r) = {}
          BY <2>2, <4>1 DEF TagsKept, SameTags
        <4>2. CASE Mends(r) # {}
          <5>1. Mended(r) \in Users
            BY <4>2, MendedUser
          <5>2. graph'.tags = graph.tags
            BY <1>0, <2>2, <4>2, <5>1, IngestUserGraph
          <5>3. SameTags(index, index')
            BY <1>0, <2>2, <4>2, <5>1, FillUserIndex
          <5> QED
            BY <5>2, <5>3 DEF TagsKept
        <4> QED
          BY <4>1, <4>2
      <3> QED
        BY <1>4, <1>5, <2>d, <3>1, <3>2
    <2>3. CASE index' = index /\ (\E ok \in BOOLEAN :
                  /\ graph' = IF ok THEN StoreEdge(graph, r) ELSE graph
                  /\ Proceed(w, ok, PutJob(w, r, Outcome(graph, r)))) /\ Outcome(graph, r) \in {"Updated", "CreatedOrDeleted"}
      <3>1. PICK ok \in BOOLEAN :
              /\ graph' = IF ok THEN StoreEdge(graph, r) ELSE graph
              /\ Proceed(w, ok, PutJob(w, r, Outcome(graph, r)))
        BY <2>3
      <3>2. graph'.tags = IF ok THEN graph.tags \cup {e} ELSE graph.tags
        <4>1. CASE ok
          <5>1. ~Ignored(r) /\ graph' = StoreEdge(graph, r)
            BY <2>0, <3>1, <4>1 DEF Of
          <5> QED
            BY <1>0, <4>1, <5>1, CreateEdgeGraph DEF e
        <4> QED
          BY <3>1, <4>1
      <3>3. TagJob(job[w])'
        <4>1. CASE ok
          <5> DEFINE o == Outcome(graph, r)
                     f == PutJob(w, r, o)
          <5>0. o \in {"Updated", "CreatedOrDeleted"}
            BY <2>3
          <5> HIDE DEF o
          <5>1. f.pc = "tag" /\ f.ev = j.ev /\ f.todo = TagWrites(r, o)
            BY <2>0, <5>0, PutJobOK DEF At
          <5> HIDE DEF f
          <5>2. n = f
            BY <3>1, <4>1 DEF Proceed, TypeOK, JobsOK, f, o
          <5>3. ("tagger" \in f.todo \/ To[r] \notin Targets) /\ ("posts" \in f.todo \/ To[r] \notin Posts)
            BY <5>1, <1>p DEF TagWrites, PostTagWrites, UserTagWrites, Targets
          <5>4. ("tagger" \in n.todo \/ Indexed(e)') /\ ("posts" \in n.todo \/ Listed(e)')
            BY <1>e, <2>0, <5>2, <5>3 DEF Indexed, Listed
          <5>5. n.ev.r = r /\ n.ev.type = "put" /\ n.pc = "tag" /\ e \in graph'.tags
            BY <2>0, <3>2, <4>1, <5>1, <5>2, Events
          <5> QED
            BY <5>4, <5>5 DEF TagJob, e
        <4>2. CASE ~ok
          BY <1>4, <3>1, <4>2 DEF Proceed, TypeOK, JobsOK
        <4> QED
          BY <4>1, <4>2
      <3>4. index' = index
        BY <2>3
      <3>5. \A d \in graph'.tags :
             \/ r \in Of("tag") /\ d = TagEdge(r)
             \/ d \in graph.tags /\ (Indexed(d) /\ Listed(d) => (Indexed(d) /\ Listed(d))')
        BY <2>0, <3>2, <3>4 DEF Indexed, Listed, e
      <3>6. graph.tags \subseteq graph'.tags
        BY <3>2
      <3> QED
        BY <1>2, <2>d, <3>3, <3>4, <3>5, <3>6, TagClose
    <2> QED
      BY <2>1, <2>2, <2>3
  <1>10. CASE SyncRank(w)
    <2>0. j.pc = "sync" /\ r \in Of("tag") /\ ~At(w, "fetch") /\ ~Ends(w) /\ j.pc \notin Joins /\ {"done", "unedge"} \subseteq Steps
      BY <1>3, <1>10 DEF SyncRank, At, Ends, Joins, Steps, DelSteps
    <2>1. PICK ok \in BOOLEAN :
             /\ index' = IF ok THEN SyncIndexScore(index, To[r], Label[r]) ELSE index
             /\ Proceed(w, ok, Goto(w, IF j.ev.type = "put" THEN "done" ELSE "unedge"))
      BY <1>10 DEF SyncRank
    <2>a. To[r] \in Users
      BY <1>0, <2>0, AtBusy DEF JobShape
    <2>2. TagsKept
      <3>1. graph' = graph
        BY <1>10 DEF SyncRank
      <3>2. SameTags(index, index')
        <4>1. CASE ok
          <5>1. index' = SyncIndexScore(index, To[r], Label[r])
            BY <2>1, <4>1
          <5> QED
            BY <1>0, <1>e, <2>0, <2>a, <5>1, SyncIndex
        <4> QED
          BY <2>1, <4>1 DEF SameTags
      <3> QED
        BY <3>1, <3>2 DEF TagsKept
    <2>3. n = Idle \/ (n.pc = (IF j.ev.type = "put" THEN "done" ELSE "unedge") /\ n.ev = j.ev)
      BY <2>0, <2>1, ProceedTo
    <2>4. TagJob(job[w])'
      <3>1. graph'.tags = graph.tags /\ index'.taggers = index.taggers /\ index'.posts = index.posts
        BY <2>2 DEF TagsKept, SameTags
      <3>2. CASE j.ev.type = "put" /\ n # Idle
        <4>1. e \in graph.tags /\ Indexed(e) /\ Listed(e)
          BY <1>0, <1>2, <2>0, <3>2 DEF TagJob, e
        <4>2. (Indexed(e) /\ Listed(e))'
          BY <3>1, <4>1 DEF Indexed, Listed
        <4> QED
          BY <1>0, <2>3, <3>1, <3>2, <4>1, <4>2 DEF TagJob, e
      <3>3. CASE j.ev.type = "del" /\ n # Idle
        <4>1. e \in graph.tags /\ By[r] \notin index.taggers[To[r]][Label[r]]
          BY <1>0, <1>2, <1>p, <2>0, <2>a, <3>3 DEF TagJob, e
        <4> QED
          BY <1>0, <1>p, <2>3, <2>a, <3>1, <3>3, <4>1 DEF TagJob, e
      <3> QED
        BY <1>0, <1>4, <3>2, <3>3
    <2> QED
      BY <1>1, <1>5, <2>0, <2>2, <2>4
  <1>11. CASE CleanUp(w)
    <2>0. j.pc = "cleanup" /\ r \in Of("tag") /\ ~At(w, "fetch") /\ ~Ends(w) /\ j.pc \notin Joins /\ "unedge" \in Steps
          /\ j.ev.type = "del"
      BY <1>3, <1>11 DEF CleanUp, At, Ends, Joins, Steps, DelSteps
    <2>a. To[r] \in Posts /\ To[r] \in Targets
      BY <1>0, <2>0, <1>p, AtBusy DEF JobShape
    <2>1. PICK k \in 0..2 : index' = DelPostByTag(index, To[r], Label[r], k) /\ Proceed(w, k = 2, Goto(w, "unedge"))
      BY <1>11 DEF CleanUp
    <2>2. /\ graph' = graph /\ index'.taggers = index.taggers
          /\ \A m \in Labels : index'.posts[m] =
                IF m = Label[r] /\ Unlists(index, To[r], Label[r], k) THEN index.posts[m] \ {To[r]} ELSE index.posts[m]
      <3> DEFINE y == DelPostByTag(index, To[r], Label[r], k)
      <3>1. /\ y.taggers = index.taggers
            /\ \A m \in Labels : y.posts[m] =
                IF m = Label[r] /\ Unlists(index, To[r], Label[r], k) THEN index.posts[m] \ {To[r]} ELSE index.posts[m]
        BY <1>0, <1>e, <2>0, <2>a, UnlistIndex
      <3>2. index' = y /\ graph' = graph
        BY <1>11, <2>1 DEF CleanUp
      <3> HIDE DEF y
      <3> QED
        BY <3>1, <3>2
    <2>3. (k = 2 => n.pc = "unedge" /\ n.ev = j.ev) /\ (k # 2 => n = Idle)
      <3>1. (k = 2) \in BOOLEAN
        OBVIOUS
      <3> QED
        BY <2>0, <2>1, <3>1, ProceedTo
    <2>4. e \in graph.tags /\ By[r] \notin index.taggers[To[r]][Label[r]]
      BY <1>0, <1>2, <2>0, <2>a DEF TagJob, e
    <2>5. TagJob(job[w])'
      <3>1. CASE k = 2
        <4>1. To[r] \in index'.posts[Label[r]] => index'.taggers[To[r]][Label[r]] # {}
          <5>1. index.taggers[To[r]][Label[r]] = {} => Unlists(index, To[r], Label[r], k)
            BY <3>1 DEF Unlists
          <5> QED
            BY <1>e, <2>0, <2>2, <5>1
        <4>2. n.pc = "unedge" /\ n.ev.r = r /\ n.ev.type = "del"
          BY <1>0, <2>0, <2>3, <3>1
        <4> QED
          BY <2>2, <2>4, <4>1, <4>2 DEF TagJob, e
      <3> QED
        BY <1>4, <2>3, <3>1
    <2>6. ASSUME NEW d \in graph'.tags
          PROVE  d \in graph.tags /\ (Indexed(d) /\ Listed(d) => (Indexed(d) /\ Listed(d))')
      <3>1. d \in graph.tags /\ d.label \in Labels
        BY <2>2, EdgeFields
      <3>2. ASSUME Indexed(d), Listed(d) PROVE (Indexed(d) /\ Listed(d))'
        <4>1. Indexed(d)'
          BY <2>2, <3>2 DEF Indexed
        <4>2. d.to \in Posts => d.to \in index.posts[d.label] /\ index.taggers[d.to][d.label] # {}
          BY <3>2 DEF Indexed, Listed, Targets
        <4>3. Listed(d)'
          BY <2>2, <3>1, <4>2 DEF Listed, Unlists
        <4> QED
          BY <4>1, <4>3
      <3> QED
        BY <3>1, <3>2
    <2>7. \A l \in Labels : \A p \in index'.posts[l] : \E d \in graph'.tags : d.to = p /\ d.label = l
      <3>1. ASSUME NEW l \in Labels, NEW p \in index'.posts[l] PROVE p \in index.posts[l]
        BY <2>2
      <3> QED
        BY <1>2, <2>2, <3>1
    <2>8. \A t \in Targets, l \in Labels : \A v \in index'.taggers[t][l] :
             \E d \in graph'.tags : d.by = v /\ d.to = t /\ d.label = l
      BY <1>2, <2>2
    <2>d. Due(r)'
      BY <1>1, <2>0
    <2> QED
      BY <2>5, <2>6, <2>7, <2>8, <2>d, TagClose
  <1>12. CASE DeleteEdge(w)
    <2>0. j.pc = "unedge" /\ r \in Of("tag") /\ ~At(w, "fetch") /\ ~Ends(w) /\ j.pc \notin Joins /\ {"uncount", "done"} \subseteq Steps
          /\ j.ev.type = "del" /\ j.edge = e
      <3>1. At(w, "unedge")
        BY <1>12 DEF DeleteEdge
      <3> QED
        BY <1>3, <3>1, PcKind DEF At, Ends, Joins, Steps, DelSteps, e
    <2>1. PICK ok \in BOOLEAN : /\ graph' = IF ~ok THEN graph ELSE DropEdge(graph, r, j.edge)
                                /\ Proceed(w, ok, Goto(w, IF Kind[r] = "tag" /\ Target(r) = "post" THEN "uncount" ELSE "done"))
      BY <1>12 DEF DeleteEdge, DropEdge
    <2>2. index' = index /\ graph'.tags = IF ok THEN graph.tags \ {e} ELSE graph.tags
      <3>2. CASE ok
        <4>1. graph' = DropEdge(graph, r, e)
          BY <2>0, <2>1, <3>2
        <4>2. graph'.tags = graph.tags \ {e}
          BY <1>0, <1>e, <2>0, <4>1, DeleteEdgeGraph
        <4> QED
          BY <1>12, <3>2, <4>2 DEF DeleteEdge
      <3> QED
        BY <1>12, <2>1, <3>2 DEF DeleteEdge
    <2>3. /\ ok => n.pc \in {"uncount", "done"} /\ n.ev = j.ev
          /\ ~ok => n = Idle
      BY <2>0, <2>1, ProceedTo
    <2>4. /\ To[r] \in Targets => By[r] \notin index.taggers[To[r]][Label[r]]
          /\ To[r] \in Posts /\ To[r] \in index.posts[Label[r]] => index.taggers[To[r]][Label[r]] # {}
      BY <1>0, <1>2, <2>0 DEF TagJob
    <2>5. TagJob(job[w])'
      BY <1>0, <1>4, <2>0, <2>2, <2>3 DEF TagJob, e
    <2>6. \A d \in graph'.tags :
             d \in graph.tags /\ (Indexed(d) /\ Listed(d) => (Indexed(d) /\ Listed(d))')
      BY <2>2 DEF Indexed, Listed
    <2>7. ASSUME NEW t \in Targets, NEW l \in Labels, NEW v \in index.taggers[t][l]
          PROVE  \E d \in graph'.tags : d.by = v /\ d.to = t /\ d.label = l
      <3>1. PICK d \in graph.tags : d.by = v /\ d.to = t /\ d.label = l
        BY <1>2
      <3>2. d # e
        BY <1>e, <2>0, <2>4, <2>7, <3>1
      <3> QED
        BY <2>2, <3>1, <3>2
    <2>8. ASSUME NEW l \in Labels, NEW p \in index.posts[l]
          PROVE  \E d \in graph'.tags : d.to = p /\ d.label = l
      <3>1. CASE p = To[r] /\ l = Label[r]
        <4>1. To[r] \in Posts /\ To[r] \in Targets
          BY <1>0, <3>1 DEF IndexType, PostsType, Targets
        <4>2. PICK v \in index.taggers[To[r]][Label[r]] : TRUE
          BY <2>4, <3>1, <4>1
        <4> QED
          BY <2>7, <3>1, <4>1, <4>2
      <3>2. CASE ~(p = To[r] /\ l = Label[r])
        <4>1. PICK d \in graph.tags : d.to = p /\ d.label = l
          BY <1>2
        <4>2. d # e
          BY <1>e, <2>0, <3>2, <4>1
        <4> QED
          BY <2>2, <4>1, <4>2
      <3> QED
        BY <3>1, <3>2
    <2>9. /\ \A t \in Targets, l \in Labels : \A v \in index'.taggers[t][l] :
               \E d \in graph'.tags : d.by = v /\ d.to = t /\ d.label = l
          /\ \A l \in Labels : \A p \in index'.posts[l] : \E d \in graph'.tags : d.to = p /\ d.label = l
      BY <2>2, <2>7, <2>8
    <2>d. Due(r)'
      BY <1>1, <2>0
    <2> QED
      BY <2>5, <2>6, <2>9, <2>d, TagClose
  <1>13. CASE InvalidateCounts(w)
    <2>0. j.pc = "uncount" /\ r \in Of("tag") /\ ~At(w, "fetch") /\ ~Ends(w) /\ j.pc \notin Joins /\ "done" \in Steps
          /\ j.ev.type = "del"
      BY <1>3, <1>13 DEF InvalidateCounts, At, Ends, Joins, Steps, DelSteps
    <2>a. To[r] \in Posts
      BY <1>0, <2>0, AtBusy DEF JobShape
    <2>1. PICK ok \in BOOLEAN :
             /\ index' = IF ok THEN [index EXCEPT !.counts[To[r]] = NoScore] ELSE index
             /\ Proceed(w, ok, Goto(w, "done"))
      BY <1>13 DEF InvalidateCounts
    <2>2. TagsKept
      <3>1. graph' = graph
        BY <1>13 DEF InvalidateCounts
      <3>2. SameTags(index, index')
        <4>1. CASE ok
          <5>1. index' = [index EXCEPT !.counts[To[r]] = NoScore]
            BY <2>1, <4>1
          <5> QED
            BY <1>0, <2>a, <5>1, CachedIndex
        <4> QED
          BY <2>1, <4>1 DEF SameTags
      <3> QED
        BY <3>1, <3>2 DEF TagsKept
    <2>3. n = Idle \/ (n.pc = "done" /\ n.ev = j.ev)
      BY <2>0, <2>1, ProceedTo
    <2>4. TagJob(job[w])'
      <3>1. graph'.tags = graph.tags /\ e \notin graph.tags
        BY <1>0, <1>2, <2>0, <2>2 DEF TagsKept, TagJob, e
      <3> QED
        BY <1>0, <1>4, <2>0, <2>3, <3>1 DEF TagJob, e
    <2> QED
      BY <1>1, <1>5, <2>0, <2>2, <2>4
  <1>14. ASSUME NEW a \in job[w].todo, JoinWrite(w, a) PROVE TagInv'
    <2>0. j.pc \in {"tag", "untag"} /\ r \in Of("tag") /\ ~At(w, "fetch") /\ ~Ends(w) /\ a \in TodoOf(j.pc)
          /\ UNCHANGED graph
          /\ (j.pc = "untag" \/ a \in {"tagger", "count", "tell"} => To[r] \in Targets)
          /\ (a \in {"uncount", "posts"} => To[r] \in Posts)
      <3>1. j.pc \in Joins /\ a \in TodoOf(j.pc) /\ UNCHANGED graph /\ (j.pc \in {"follow", "unfollow"} => r \in Of("follow"))
            /\ (j.pc = "untag" \/ a \in {"tagger", "count", "tell"} => To[r] \in Targets)
            /\ (a \in {"uncount", "posts"} => To[r] \in Posts)
        BY <1>14, JoinWriteStep
      <3>2. j.pc \in {"tag", "untag"}
        BY <3>1 DEF Joins, Of
      <3> QED
        BY <1>3, <3>1, <3>2 DEF At, Ends
    <2>1. PICK failing \in BOOLEAN :
                /\ job' = [job EXCEPT ![w] = AfterWrite(w, a, j.failed \/ failing)]
                /\ a # "count" /\ failing => index' = index
                /\ a # "count" /\ ~failing /\ j.pc = "tag" => index' = TagEffect(index, r, a)
                /\ a # "count" /\ ~failing /\ j.pc = "untag" => index' = UntagEffect(index, r, j.known, a)
                /\ a = "count" /\ j.pc = "untag" /\ ~j.known => index' = index
                /\ a = "count" /\ ~(j.pc = "untag" /\ ~j.known) =>
                     \E fields \in SUBSET Counters(r) :
                       index' = Count(index, r, fields, IF j.pc = "tag" THEN 1 ELSE -1)
      BY <1>14, <2>0, JoinWriteStep
    <2> DEFINE Joins1 == ~failing /\ a = "tagger"
               Leaves1 == ~failing /\ a = "untagger"
               Lists1 == ~failing /\ a = "posts"
    <2>t. TagsAfter(index, index', r, Joins1, Leaves1, Lists1)
      <3>1. CASE index' = index /\ (failing \/ a = "count")
        BY <3>1 DEF TagsAfter
      <3>2. CASE a # "count" /\ ~failing /\ j.pc = "tag"
        <4>1. a \in {"uncount", "tagger", "posts", "label", "tell"}
          BY <2>0, <3>2 DEF TodoOf
        <4> DEFINE y == TagEffect(index, r, a)
        <4>2. TagsAfter(index, y, r, a = "tagger", FALSE, a = "posts")
          BY <1>0, <2>0, <4>1, TagIndex
        <4>3. index' = y
          BY <2>1, <3>2
        <4> HIDE DEF y
        <4> QED
          BY <3>2, <4>1, <4>2, <4>3 DEF TagsAfter
      <3>3. CASE a # "count" /\ ~failing /\ j.pc = "untag"
        <4>1. a \in {"untagger", "tell"} /\ j.known \in BOOLEAN
          BY <1>0, <2>0, <3>3 DEF TodoOf, UntagWrites, JobType
        <4> DEFINE y == UntagEffect(index, r, j.known, a)
        <4>2. TagsAfter(index, y, r, FALSE, a = "untagger", FALSE)
          BY <1>0, <2>0, <3>3, <4>1, UntagIndex
        <4>3. index' = y
          BY <2>1, <3>3
        <4> HIDE DEF y
        <4> QED
          BY <3>3, <4>1, <4>2, <4>3 DEF TagsAfter
      <3>4. CASE a = "count" /\ ~(j.pc = "untag" /\ ~j.known)
        <4>1. PICK fields \in SUBSET Counters(r) : index' = Count(index, r, fields, IF j.pc = "tag" THEN 1 ELSE -1)
          BY <2>1, <3>4
        <4> DEFINE m == IF j.pc = "tag" THEN 1 ELSE -1
        <4>2. m \in {1, -1}
          OBVIOUS
        <4>3. index' = Count(index, r, fields, m)
          BY <4>1
        <4> HIDE DEF m
        <4>4. SameTags(index, index')
          BY <1>0, <2>0, <3>4, <4>2, <4>3, CountIndex
        <4> QED
          BY <3>4, <4>4 DEF SameTags, TagsAfter
      <3> QED
        BY <2>0, <2>1, <3>1, <3>2, <3>3, <3>4
    <2>2. /\ \A t \in Targets, l \in Labels : index'.taggers[t][l] =
                IF t = To[r] /\ l = Label[r] /\ Joins1 THEN index.taggers[t][l] \cup {By[r]}
                ELSE IF t = To[r] /\ l = Label[r] /\ Leaves1 THEN index.taggers[t][l] \ {By[r]}
                ELSE index.taggers[t][l]
          /\ \A l \in Labels : index'.posts[l] =
                IF l = Label[r] /\ Lists1 THEN index.posts[l] \cup {To[r]} ELSE index.posts[l]
      BY <2>t DEF TagsAfter
    <2>3. /\ (j.todo = {a}) /\ (j.failed \/ failing) => n = Idle
          /\ n # Idle => /\ n.ev = j.ev /\ n.todo = j.todo \ {a}
                        /\ n.pc = (IF j.todo = {a} THEN NextPc(j.pc, r) ELSE j.pc)
                        /\ n.failed = (IF j.todo = {a} THEN j.failed ELSE j.failed \/ failing)
      <3> DEFINE f == AfterWrite(w, a, j.failed \/ failing)
      <3>1. (j.failed \/ failing) \in BOOLEAN
        BY <1>0 DEF JobType
      <3>2. /\ (j.todo = {a}) /\ (j.failed \/ failing) => f = Idle
            /\ ~((j.todo = {a}) /\ (j.failed \/ failing)) =>
                        /\ f.ev = j.ev /\ f.todo = j.todo \ {a}
                        /\ f.pc = (IF j.todo = {a} THEN NextPc(j.pc, r) ELSE j.pc)
                        /\ f.failed = (IF j.todo = {a} THEN j.failed ELSE j.failed \/ failing)
        BY <3>1, AfterWriteOK
      <3>3. n = f
        BY <2>1 DEF TypeOK, JobsOK
      <3> HIDE DEF f
      <3> QED
        BY <3>2, <3>3
    <2>a. e \in graph.tags
      BY <1>0, <1>2, <1>3, <2>0 DEF TagJob, PutSteps, DelSteps, e
    <2>4. TagJob(job[w])'
      <3>0. CASE n = Idle
        BY <1>4, <3>0
      <3>1. CASE j.pc = "tag" /\ n # Idle
        <4>1. /\ ~j.failed => ("tagger" \in j.todo \/ Indexed(e)) /\ ("posts" \in j.todo \/ Listed(e))
              /\ j.ev.type = "put" /\ j.failed \in BOOLEAN /\ a # "untagger"
              /\ NextPc(j.pc, r) \in {"sync", "done"}
          BY <1>0, <1>2, <1>3, <2>0, <3>1 DEF TagJob, TodoOf, JobType, NextPc, PutSteps, e
        <4>2. ~((j.todo = {a}) /\ (j.failed \/ failing)) /\ n.ev = j.ev /\ n.todo = j.todo \ {a}
          BY <2>3, <3>1
        <4>3. n.pc \in {"tag", "sync", "done"} /\ (n.pc # "tag" => ~n.failed /\ n.todo = {}) /\ (~n.failed => ~j.failed /\ ~failing)
          BY <2>3, <3>1, <4>1, <4>2
        <4>4. ~n.failed => "tagger" \in n.todo \/ Indexed(e)'
          <5>1. SUFFICES ASSUME ~n.failed, "tagger" \notin n.todo, To[r] \in Targets
                         PROVE  By[r] \in index'.taggers[To[r]][Label[r]]
            BY <1>e, <2>0 DEF Indexed
          <5>2. a = "tagger" \/ By[r] \in index.taggers[To[r]][Label[r]]
            BY <1>e, <2>0, <4>1, <4>2, <4>3, <5>1 DEF Indexed
          <5> QED
            BY <1>e, <2>0, <2>2, <4>1, <4>3, <5>1, <5>2
        <4>5. ~n.failed => "posts" \in n.todo \/ Listed(e)'
          <5>1. SUFFICES ASSUME ~n.failed, "posts" \notin n.todo, To[r] \in Posts
                         PROVE  To[r] \in index'.posts[Label[r]]
            BY <1>e, <2>0 DEF Listed
          <5>2. a = "posts" \/ To[r] \in index.posts[Label[r]]
            BY <1>e, <2>0, <4>1, <4>2, <4>3, <5>1 DEF Listed
          <5> QED
            BY <1>e, <2>0, <2>2, <4>1, <4>3, <5>1, <5>2
        <4>6. n.ev.r = r /\ n.ev.type = "put" /\ e \in graph'.tags
          BY <1>0, <2>0, <2>a, <4>1, <4>2
        <4> QED
          BY <4>3, <4>4, <4>5, <4>6 DEF TagJob, e
      <3>2. CASE j.pc = "untag" /\ n # Idle
        <4>1. /\ ~j.failed => "untagger" \in j.todo \/ By[r] \notin index.taggers[To[r]][Label[r]]
              /\ j.ev.type = "del" /\ j.failed \in BOOLEAN /\ a # "tagger"
              /\ NextPc(j.pc, r) \in {"sync", "cleanup"}
          BY <1>0, <1>2, <1>3, <2>0, <3>2 DEF TagJob, TodoOf, UntagWrites, JobType, NextPc, DelSteps
        <4>2. ~((j.todo = {a}) /\ (j.failed \/ failing)) /\ n.ev = j.ev /\ n.todo = j.todo \ {a}
          BY <2>3, <3>2
        <4>3. n.pc \in {"untag", "sync", "cleanup"} /\ (n.pc # "untag" => ~n.failed /\ n.todo = {}) /\ (~n.failed => ~j.failed /\ ~failing)
          BY <2>3, <3>2, <4>1, <4>2
        <4>4. ~n.failed => "untagger" \in n.todo \/ By[r] \notin index'.taggers[To[r]][Label[r]]
          <5>1. SUFFICES ASSUME ~n.failed, "untagger" \notin n.todo
                         PROVE  By[r] \notin index'.taggers[To[r]][Label[r]]
            OBVIOUS
          <5>2. a = "untagger" \/ By[r] \notin index.taggers[To[r]][Label[r]]
            BY <4>1, <4>2, <4>3, <5>1
          <5> QED
            BY <1>e, <2>0, <2>2, <3>2, <4>1, <4>3, <5>1, <5>2
        <4>6. n.ev.r = r /\ n.ev.type = "del" /\ e \in graph'.tags
          BY <1>0, <2>0, <2>a, <4>1, <4>2
        <4> QED
          BY <4>3, <4>4, <4>6 DEF TagJob, e
      <3> QED
        BY <2>0, <3>0, <3>1, <3>2
    <2>5. ASSUME NEW t \in Targets, NEW l \in Labels, NEW v \in index'.taggers[t][l]
          PROVE  \E d \in graph.tags : d.by = v /\ d.to = t /\ d.label = l
      <3>1. CASE v \in index.taggers[t][l]
        BY <1>2, <3>1
      <3>2. CASE v \notin index.taggers[t][l]
        <4>0. index'.taggers[t][l] =
                IF t = To[r] /\ l = Label[r] /\ Joins1 THEN index.taggers[t][l] \cup {By[r]}
                ELSE IF t = To[r] /\ l = Label[r] /\ Leaves1 THEN index.taggers[t][l] \ {By[r]}
                ELSE index.taggers[t][l]
          BY <2>2
        <4>1. v = By[r] /\ t = To[r] /\ l = Label[r]
          BY <2>5, <3>2, <4>0
        <4> QED
          BY <1>e, <2>0, <2>a, <4>1
      <3> QED
        BY <3>1, <3>2
    <2>6. ASSUME NEW l \in Labels, NEW p \in index'.posts[l]
          PROVE  \E d \in graph.tags : d.to = p /\ d.label = l
      <3>1. CASE p \in index.posts[l]
        BY <1>2, <3>1
      <3>2. CASE p \notin index.posts[l]
        <4>1. p = To[r] /\ l = Label[r]
          BY <2>2, <2>6, <3>2
        <4> QED
          BY <1>e, <2>0, <2>a, <4>1
      <3> QED
        BY <3>1, <3>2
    <2>7. ASSUME NEW d \in graph'.tags, d # e
          PROVE  d \in graph.tags /\ (Indexed(d) /\ Listed(d) => (Indexed(d) /\ Listed(d))')
      <3>1. d \in graph.tags /\ d.label \in Labels
        BY <2>0, EdgeFields
      <3>2. ASSUME Indexed(d), d.to \in Targets PROVE d.by \in index'.taggers[d.to][d.label]
        <4>1. d.by \in index.taggers[d.to][d.label]
          BY <3>2 DEF Indexed
        <4>2. ~(d.by = By[r] /\ d.to = To[r] /\ d.label = Label[r])
          BY <1>e, <2>0, <2>7, <3>1, <3>2
        <4> QED
          BY <2>2, <3>1, <3>2, <4>1, <4>2
      <3>3. ASSUME Listed(d), d.to \in Posts PROVE d.to \in index'.posts[d.label]
        BY <2>2, <3>1, <3>3 DEF Listed
      <3> QED
        BY <3>1, <3>2, <3>3 DEF Indexed, Listed
    <2>8. /\ \A t \in Targets, l \in Labels : \A v \in index'.taggers[t][l] :
               \E d \in graph'.tags : d.by = v /\ d.to = t /\ d.label = l
          /\ \A l \in Labels : \A p \in index'.posts[l] : \E d \in graph'.tags : d.to = p /\ d.label = l
      BY <2>0, <2>5, <2>6
    <2>9. \A d \in graph'.tags :
             \/ r \in Of("tag") /\ d = TagEdge(r)
             \/ d \in graph.tags /\ (Indexed(d) /\ Listed(d) => (Indexed(d) /\ Listed(d))')
      BY <2>0, <2>7 DEF e
    <2>d. Due(r)'
      BY <1>1, <2>0
    <2> QED
      BY <2>4, <2>8, <2>9, <2>d, TagClose
  <1> QED
    BY <1>6, <1>7, <1>8, <1>9, <1>10, <1>11, <1>12, <1>13, <1>14, KindSteps

(* Tags, through every step.                                               *)
LEMMA TagNext ==
    ASSUME TypeOK, LogOrder, Sequential, RemovesClear, TagInv, Next, ~overlap'
    PROVE  TagInv'
  <1>1. \/ \E w \in Loops : Handles(w, "tag")
        \/ \E t \in Targets : ViewTags(t)
        \/ Quietly("tag") /\ TagsKept
    BY Frames
  <1>2. ASSUME NEW w \in Loops, Handles(w, "tag") PROVE TagInv'
    <2>1. PICK r \in Records : r = Rec(w)
      BY <1>2, AtBusy DEF Handles
    <2> QED
      BY <1>2, <2>1, TagStep DEF Handles
  <1>3. ASSUME NEW t \in Targets, ViewTags(t) PROVE TagInv'
    <2>1. TagsKept
      BY <1>3, TagViews
    <2>2. Viewed
      BY <1>3 DEF Viewed
    <2>3. UNCHANGED <<inputs, job>>
      BY <2>2, ViewedQuiet
    <2>4. Quietly("tag")
      BY <2>3, SameSeq DEF Kinds
    <2> QED
      BY <2>1, <2>4, TagFrame
  <1> QED
    BY <1>1, <1>2, <1>3, TagFrame

(* What a step may do to the ends of edges.                                *)
UsersStay == \A u \in Users : UserExists(graph, u) => UserExists(graph', u)
PostsStay == graph.posts \subseteq graph'.posts

(* A new edge has ends, and ends do not go.                                *)
LEMMA EdgeClose ==
    ASSUME TypeOK, EdgeEnds, UsersStay, PostsStay,
           \A e \in graph'.follows : e \in graph.follows \/
               \E s \in Of("follow") : e = Pair(s) /\ Ready(graph, s),
           \A e \in graph'.tags : e \in graph.tags \/
               \E s \in Of("tag") : e = TagEdge(s) /\ Ready(graph, s),
           \A e \in graph'.bookmarks : e \in graph.bookmarks \/
               \E s \in Of("bookmark") : e = Pair(s) /\ Ready(graph, s)
    PROVE  EdgeEnds'
  <1>0. graph \in GraphType
    BY DEF TypeOK, StoresOK
  <1>1. ASSUME NEW e \in graph'.follows PROVE UserExists(graph', e[1]) /\ UserExists(graph', e[2])
    <2>1. CASE e \in graph.follows
      <3>1. PICK s \in Of("follow") : e = Pair(s)
        BY <1>0, <2>1 DEF GraphType
      <3>2. e[1] \in Users /\ e[2] \in Users
        BY <3>1, FollowEnds
      <3> QED
        BY <2>1, <3>2 DEF EdgeEnds, UsersStay
    <2>2. ASSUME NEW s \in Of("follow"), e = Pair(s), Ready(graph, s)
          PROVE  UserExists(graph', e[1]) /\ UserExists(graph', e[2])
      <3>1. By[s] \in Users /\ To[s] \in Users /\ e[1] = By[s] /\ e[2] = To[s]
        BY <2>2, FollowEnds
      <3> QED
        BY <2>2, <3>1 DEF Ready, UsersStay
    <2> QED
      BY <2>1, <2>2
  <1>2. ASSUME NEW e \in graph'.bookmarks PROVE UserExists(graph', e[1]) /\ e[2] \in graph'.posts
    <2>1. CASE e \in graph.bookmarks
      <3>1. PICK s \in Of("bookmark") : e = Pair(s)
        BY <1>0, <2>1 DEF GraphType
      <3>2. e[1] \in Users /\ e[2] \in Posts
        BY <3>1, MarkEnds
      <3> QED
        BY <2>1, <3>2 DEF EdgeEnds, UsersStay, PostsStay
    <2>2. ASSUME NEW s \in Of("bookmark"), e = Pair(s), Ready(graph, s)
          PROVE  UserExists(graph', e[1]) /\ e[2] \in graph'.posts
      <3>1. By[s] \in Users /\ To[s] \in Posts /\ e[1] = By[s] /\ e[2] = To[s]
        BY <2>2, MarkEnds
      <3> QED
        BY <2>2, <3>1 DEF Ready, UsersStay, PostsStay
    <2> QED
      BY <2>1, <2>2
  <1>3. ASSUME NEW e \in graph'.tags
        PROVE  /\ UserExists(graph', e.by)
               /\ e.to \in Users => UserExists(graph', e.to)
               /\ e.to \in Posts => e.to \in graph'.posts
    <2>1. CASE e \in graph.tags
      <3>1. e.by \in Users
        BY <2>1, EdgeFields
      <3> QED
        BY <2>1, <3>1 DEF EdgeEnds, UsersStay, PostsStay
    <2>2. ASSUME NEW s \in Of("tag"), e = TagEdge(s), Ready(graph, s)
          PROVE  /\ UserExists(graph', e.by)
                 /\ e.to \in Users => UserExists(graph', e.to)
                 /\ e.to \in Posts => e.to \in graph'.posts
      <3>1. By[s] \in Users /\ e.by = By[s] /\ e.to = To[s]
        BY <2>2, TagEnds
      <3> QED
        BY <2>2, <3>1 DEF Ready, UsersStay, PostsStay
    <2> QED
      BY <2>1, <2>2
  <1> QED
    BY <1>1, <1>2, <1>3 DEF EdgeEnds

(* Removing a user without edges.                                          *)
LEMMA EdgeRemove ==
    ASSUME TypeOK, EdgeEnds, NEW u \in Users, Clear(u), graph' = DeleteUser(graph, u)
    PROVE  EdgeEnds'
  <1> DEFINE h == DeleteUser(graph, u)
  <1>0. graph \in GraphType
    BY DEF TypeOK, StoresOK
  <1>1. /\ h.posts = {p \in graph.posts : Author[p] # u}
        /\ h.follows = {e \in graph.follows : u \notin {e[1], e[2]}}
        /\ h.tags = {e \in graph.tags : u \notin {e.by, e.to}}
        /\ h.bookmarks = {e \in graph.bookmarks : e[1] # u}
        /\ \A v \in Users : h.user[v] = IF v = u THEN NoUser ELSE graph.user[v]
    BY <1>0, DeleteUserGraph
  <1> HIDE DEF h
  <1>2. graph' = h
    BY DEF h
  <1>3. ASSUME NEW v \in Users, v # u, UserExists(graph, v) PROVE UserExists(graph', v)
    BY <1>1, <1>2, <1>3 DEF UserExists
  <1>4. ASSUME NEW e \in graph'.follows PROVE UserExists(graph', e[1]) /\ UserExists(graph', e[2])
    <2>1. e \in graph.follows /\ e[1] # u /\ e[2] # u
      BY <1>1, <1>2
    <2>2. PICK s \in Of("follow") : e = Pair(s)
      BY <1>0, <2>1 DEF GraphType
    <2>3. e[1] \in Users /\ e[2] \in Users
      BY <2>2, FollowEnds
    <2> QED
      BY <1>3, <2>1, <2>3 DEF EdgeEnds
  <1>5. ASSUME NEW e \in graph'.bookmarks PROVE UserExists(graph', e[1]) /\ e[2] \in graph'.posts
    <2>1. e \in graph.bookmarks /\ e[1] # u /\ Author[e[2]] # u
      BY <1>1, <1>2 DEF Clear
    <2>2. PICK s \in Of("bookmark") : e = Pair(s)
      BY <1>0, <2>1 DEF GraphType
    <2>3. e[1] \in Users /\ e[2] \in Posts
      BY <2>2, MarkEnds
    <2> QED
      BY <1>1, <1>2, <1>3, <2>1, <2>3 DEF EdgeEnds
  <1>6. ASSUME NEW e \in graph'.tags
        PROVE  /\ UserExists(graph', e.by)
               /\ e.to \in Users => UserExists(graph', e.to)
               /\ e.to \in Posts => e.to \in graph'.posts
    <2>1. e \in graph.tags /\ e.by # u /\ e.to # u /\ (e.to \in Posts => Author[e.to] # u)
      BY <1>1, <1>2 DEF Clear
    <2>2. e.by \in Users
      BY <2>1, EdgeFields
    <2> QED
      BY <1>1, <1>2, <1>3, <2>1, <2>2 DEF EdgeEnds
  <1> QED
    BY <1>4, <1>5, <1>6 DEF EdgeEnds

SameEdges ==
    graph'.follows = graph.follows /\ graph'.tags = graph.tags /\ graph'.bookmarks = graph.bookmarks

(* The edges stay, and so do their ends.                                   *)
LEMMA EdgeSame ==
    ASSUME TypeOK, EdgeEnds, UsersStay, PostsStay, SameEdges
    PROVE  EdgeEnds'
  BY EdgeClose DEF SameEdges

(* The ends of edges, through every step.                                  *)
LEMMA EdgeNext ==
    ASSUME TypeOK, EdgeEnds, RemovesClear, Next, ~overlap'
    PROVE  EdgeEnds'
  <1>0. graph \in GraphType /\ index \in IndexType
    BY DEF TypeOK, StoresOK
  <1>1. CASE UNCHANGED graph
    BY <1>1, EdgeSame DEF UsersStay, PostsStay, SameEdges
  <1>2. ASSUME NEW p \in Posts, PostArrives(p) PROVE EdgeEnds'
    <2>1. graph' = [graph EXCEPT !.posts = @ \cup {p}]
      BY <1>2 DEF PostArrives
    <2>2. SameEdges /\ PostsStay /\ graph'.user = graph.user
      BY <1>0, <2>1 DEF GraphType, SameEdges, PostsStay
    <2> QED
      BY <2>2, EdgeSame DEF UsersStay, UserExists
  <1>3. ASSUME NEW w \in Loops, Busy(w), Handle(w) PROVE EdgeEnds'
    <2>1. PICK r \in Records : r = Rec(w)
      BY <1>3, AtBusy
    <2>u. By[r] \in Users
      BY <2>1, <1>3, AtBusy
    <2>2. CASE PutEdge(w)
      <3>1. /\ Deferrable(r)
            /\ \/ IF Mends(r) = {} THEN graph' = graph ELSE graph' = IngestGraph(graph, index, Mended(r))
               \/ /\ Ready(graph, r)
                  /\ \E ok \in BOOLEAN : graph' = IF ok THEN StoreEdge(graph, r) ELSE graph
        BY <1>3, <2>1, <2>2, PutEdgeStep
      <3>2. CASE graph' = graph
        BY <1>1, <3>2
      <3>3. CASE Mends(r) # {} /\ graph' = IngestGraph(graph, index, Mended(r))
        <4> DEFINE h == IngestGraph(graph, index, Mended(r))
        <4>1. Mended(r) \in Users
          BY <3>3, MendedUser
        <4>2. /\ h.posts = graph.posts /\ h.follows = graph.follows
              /\ h.tags = graph.tags /\ h.bookmarks = graph.bookmarks
              /\ \A v \in Users : h.user[v] = FromPubky \/ h.user[v] = graph.user[v]
          BY <1>0, <4>1, IngestUserGraph
        <4>3. graph' = h
          BY <3>3
        <4> HIDE DEF h
        <4>4. FromPubky # NoUser
          BY Bodies
        <4> QED
          BY <4>2, <4>3, <4>4, EdgeSame DEF UsersStay, PostsStay, SameEdges, UserExists
      <3>4. CASE Ready(graph, r) /\ graph' = StoreEdge(graph, r)
        <4>1. ~Ignored(r) /\ Kind[r] \in {"follow", "tag", "bookmark"} /\ r \in Of(Kind[r])
          BY <3>1 DEF Deferrable, Of
        <4>2. /\ graph'.user = graph.user /\ graph'.posts = graph.posts
              /\ graph'.follows = IF Kind[r] = "follow" THEN graph.follows \cup {Pair(r)} ELSE graph.follows
              /\ graph'.tags = IF Kind[r] = "tag" THEN graph.tags \cup {TagEdge(r)} ELSE graph.tags
              /\ graph'.bookmarks = IF Kind[r] = "bookmark" THEN graph.bookmarks \cup {Pair(r)} ELSE graph.bookmarks
          BY <1>0, <3>4, <4>1, CreateEdgeGraph
        <4>3. UsersStay /\ PostsStay
          BY <4>2 DEF UsersStay, PostsStay, UserExists
        <4>4. /\ \A e \in graph'.follows : e \in graph.follows \/
                    \E s \in Of("follow") : e = Pair(s) /\ Ready(graph, s)
              /\ \A e \in graph'.tags : e \in graph.tags \/
                    \E s \in Of("tag") : e = TagEdge(s) /\ Ready(graph, s)
              /\ \A e \in graph'.bookmarks : e \in graph.bookmarks \/
                    \E s \in Of("bookmark") : e = Pair(s) /\ Ready(graph, s)
          BY <3>4, <4>1, <4>2
        <4> QED
          BY <4>3, <4>4, EdgeClose
      <3> QED
        BY <3>1, <3>2, <3>3, <3>4
    <2>3. CASE DeleteEdge(w)
      <3>1. graph' = graph \/ graph' = DropEdge(graph, r, job[w].edge)
        BY <2>1, <2>3 DEF DeleteEdge, DropEdge
      <3>2. CASE graph' = DropEdge(graph, r, job[w].edge)
        <4>1. PICK e \in Edges \cup {Nothing} : e = job[w].edge
          BY <1>3, AtBusy DEF JobType
        <4>2. Kind[r] \in {"follow", "tag", "bookmark"}
          <5>1. job[w].pc = "unedge"
            BY <2>3 DEF DeleteEdge, At
          <5> QED
            BY <1>3, <2>1, <5>1, PcKind
        <4>3. graph' = DropEdge(graph, r, e)
          BY <3>2, <4>1
        <4> DEFINE h == DropEdge(graph, r, e)
        <4>a. /\ h.user = graph.user /\ h.posts = graph.posts
              /\ h.follows = IF Kind[r] = "follow" THEN graph.follows \ {Pair(r)} ELSE graph.follows
              /\ h.tags = IF Kind[r] = "tag" THEN graph.tags \ {e} ELSE graph.tags
              /\ h.bookmarks = IF Kind[r] = "bookmark" THEN graph.bookmarks \ {Pair(r)} ELSE graph.bookmarks
          BY <1>0, <4>2, DeleteEdgeGraph, ZenonT(60)
        <4>b. graph' = h
          BY <4>3
        <4> HIDE DEF h
        <4>4. /\ graph'.user = graph.user /\ graph'.posts = graph.posts
              /\ graph'.follows \subseteq graph.follows
              /\ graph'.tags \subseteq graph.tags
              /\ graph'.bookmarks \subseteq graph.bookmarks
          BY <4>a, <4>b
        <4>5. UsersStay /\ PostsStay
          BY <4>4 DEF UsersStay, PostsStay, UserExists
        <4> QED
          BY <4>4, <4>5, EdgeClose
      <3> QED
        BY <1>1, <3>1, <3>2
    <2>4. CASE WriteFile(w) \/ EraseFile(w)
      <3>1. graph' = graph \/ graph' = CreateFile(graph, r) \/ graph' = DeleteFile(graph, r)
        BY <2>1, <2>4 DEF WriteFile, EraseFile
      <3>2. r \in Of("file")
        <4>1. job[w].pc \in {"write", "erase"}
          BY <2>4 DEF WriteFile, EraseFile, At
        <4> QED
          BY <1>3, <2>1, <4>1, PcKind
      <3>3. CASE graph' = CreateFile(graph, r) \/ graph' = DeleteFile(graph, r)
        <4>1. /\ graph'.user = graph.user /\ graph'.posts = graph.posts /\ graph'.follows = graph.follows
              /\ graph'.tags = graph.tags /\ graph'.bookmarks = graph.bookmarks
          BY <1>0, <3>2, <3>3, FileGraph
        <4> QED
          BY <4>1, EdgeSame DEF UsersStay, PostsStay, UserExists, SameEdges
      <3> QED
        BY <1>1, <3>1, <3>3
    <2>5. CASE PutProfile(w)
      <3>1. graph' = graph \/ graph' = CreateUser(graph, By[r], job[w].body)
        BY <2>1, <2>5 DEF PutProfile
      <3>2. PICK d \in Profile : d = job[w].body
        <4>1. job[w].pc = "profile" /\ JobShape(job[w])
          BY <1>3, <2>5, AtBusy DEF PutProfile, At
        <4> QED
          BY <4>1, Bodies DEF JobShape
      <3>3. CASE graph' = CreateUser(graph, By[r], d)
        <4> DEFINE h == CreateUser(graph, By[r], d)
        <4>1. /\ h.posts = graph.posts /\ h.follows = graph.follows
              /\ h.tags = graph.tags /\ h.bookmarks = graph.bookmarks
              /\ \A v \in Users : h.user[v] = d \/ h.user[v] = graph.user[v]
          BY <1>0, <2>u, CreateUserGraph
        <4>2. graph' = h
          BY <3>3
        <4> HIDE DEF h
        <4>3. d # NoUser
          BY SocialGraphAssumption
        <4> QED
          BY <4>1, <4>2, <4>3, EdgeSame DEF UsersStay, PostsStay, SameEdges, UserExists
      <3> QED
        BY <1>1, <3>1, <3>2, <3>3
    <2>6. CASE RemoveUser(w)
      <3>1. graph' = graph \/ graph' = DeleteUser(graph, By[r])
        BY <2>1, <2>6 DEF RemoveUser
      <3>2. Clear(By[r])
        BY <2>1, <2>6 DEF RemovesClear, RemoveUser
      <3> QED
        BY <1>1, <2>u, <3>1, <3>2, EdgeRemove
    <2>7. CASE \/ Take(w) \/ Fetch(w) \/ (\E a \in job[w].todo : JoinWrite(w, a))
               \/ SyncRank(w) \/ Mark(w)
               \/ PutUserSearch(w) \/ PutUserDetails(w) \/ ReadLabels(w) \/ SyncLabel(w)
               \/ Find(w) \/ LostFollow(w) \/ CleanUp(w) \/ Unmark(w)
               \/ InvalidateCounts(w) \/ DeleteSearch(w) \/ StoreEvent(w)
      <3>1. UNCHANGED graph
        BY <2>7 DEF Take, Start, Fetch, JoinWrite, SyncRank, Mark, PutUserSearch, PutUserDetails, ReadLabels,
              SyncLabel, Find, LostFollow, CleanUp, Unmark, InvalidateCounts, DeleteSearch, StoreEvent, stores
      <3> QED
        BY <1>1, <3>1
    <2> QED
      BY <1>3, <2>2, <2>3, <2>4, <2>5, <2>6, <2>7 DEF Handle
  <1>4. ASSUME NEW w \in Loops, Take(w) PROVE UNCHANGED graph
    BY <1>4 DEF Take, Start, stores
  <1>5. Written => UNCHANGED graph
    BY DEF Written, UserWrites, Logged, stores
  <1>6. Viewed => UNCHANGED graph
    BY DEF Viewed, ViewUser, ViewFollows, ViewTags, ViewCounts, View
  <1> QED
    BY <1>1, <1>2, <1>3, <1>4, <1>5, <1>6, NextSplits

(* There is one profile of a user.                                         *)
LEMMA OneProfile ==
    ASSUME NEW r \in Records, Kind[r] = "profile"
    PROVE  /\ Profiles(By[r]) = {r} /\ r \in Of("profile") /\ By[r] \in Users /\ ~Ignored(r)
           /\ \A v \in Users : v # By[r] => r \notin Profiles(v)
  <1>1. By[r] \in Users /\ ~Ignored(r) /\ r \in Of("profile")
    BY SocialGraphAssumption DEF Ignored, Of
  <1>2. Profiles(By[r]) = {r}
    BY SocialGraphAssumption DEF Profiles
  <1> QED
    BY <1>1, <1>2 DEF Profiles

(* A handler that goes on has not read or queued an event.                 *)
LEMMA GoesOn ==
    ASSUME TypeOK, NEW w \in Loops, Busy(w), Handle(w), job'[w] # Idle
    PROVE  UNCHANGED inputs
  <1>1. ~Take(w)
    BY DEF Take, Start
  <1>2. CASE Ends(w) \/ Defers(w)
    BY <1>2 DEF Ends, Defers, Finish, Requeue, TypeOK, JobsOK
  <1> QED
    BY <1>1, <1>2, HandleMoves DEF Goes

(* A handler of the profile of u leaves the other profiles alone.          *)
OthersKept(u) ==
    \A v \in Users : v # u => /\ graph'.user[v] = graph.user[v] /\ index'.details[v] = index.details[v]
                              /\ Found(v)' = Found(v)

(* A profile that is left alone stays settled.                             *)
LEMMA SettledSame ==
    ASSUME NEW u \in Users, graph'.user[u] = graph.user[u], index'.details[u] = index.details[u],
           Found(u)' = Found(u), \A s \in Profiles(u) : hs'[s] = hs[s], UserSettled(u)
    PROVE  UserSettled(u)'
  BY DEF UserSettled, Profiles

(* What a handler of the profile r has to leave behind.                    *)
LEMMA UserClose ==
    ASSUME TypeOK, LogOrder, Sequential, UserInv, NEW w \in Loops, Busy(w), Handle(w),
           NEW r \in Records, r = Rec(w), Kind[r] = "profile", OthersKept(By[r]),
           graph'.user[By[r]] = NoUser => index'.details[By[r]] = NoUser,
           Due(r)' \/ UserSettled(By[r])', UserJob(w)'
    PROVE  UserInv'
  <1>1. /\ \A s \in Records : s # r /\ Due(s) => Due(s)'
        /\ hs' = hs /\ \A v \in Loops : v # w => job'[v] = job[v]
        /\ Alone(w)
    BY MoveSeq
  <1>o. Profiles(By[r]) = {r} /\ By[r] \in Users /\ \A v \in Users : v # By[r] => r \notin Profiles(v)
    BY OneProfile
  <1>2. ASSUME NEW u \in Users PROVE graph'.user[u] = NoUser => index'.details[u] = NoUser
    BY DEF UserInv, OthersKept
  <1>3. ASSUME NEW u \in Users PROVE (\E s \in Profiles(u) : Due(s)') \/ UserSettled(u)'
    <2>1. CASE u = By[r]
      BY <1>o, <2>1
    <2>2. CASE u # By[r]
      <3>1. graph'.user[u] = graph.user[u] /\ index'.details[u] = index.details[u] /\ Found(u)' = Found(u)
        BY <2>2 DEF OthersKept
      <3>2. CASE UserSettled(u)
        BY <1>1, <3>1, <3>2, SettledSame
      <3>3. ASSUME NEW s \in Profiles(u), Due(s) PROVE \E x \in Profiles(u) : Due(x)'
        <4>1. s \in Records /\ s # r
          BY <1>o, <2>2 DEF Profiles
        <4>2. Due(s)'
          BY <1>1, <3>3, <4>1
        <4> QED
          BY <4>2
      <3> QED
        BY <3>2, <3>3 DEF UserInv
    <2> QED
      BY <2>1, <2>2
  <1>4. ASSUME NEW v \in Loops PROVE UserJob(v)'
    <2>1. CASE v # w
      BY <1>1, <2>1 DEF Alone, Busy, UserJob
    <2> QED
      BY <2>1
  <1> QED
    BY <1>2, <1>3, <1>4 DEF UserInv, Profiles

(* Failures are counted.                                                   *)
LEMMA FaultsGrow ==
    ASSUME TypeOK, Next
    PROVE  faults \in Nat /\ (faults' = faults \/ faults' = faults + 1)
  <1>0. faults \in Nat
    BY DEF TypeOK, InputsOK
  <1>1. ASSUME NEW w \in Loops, Handle(w) PROVE faults' = faults \/ faults' = faults + 1
    <2> USE DEF Finish, Proceed, Requeue
    <2>1. CASE Take(w) \/ Fetch(w)
      BY <2>1 DEF Take, Start, Fetch
    <2>2. CASE PutEdge(w)
      BY <2>2 DEF PutEdge
    <2>3. ASSUME NEW a \in job[w].todo, JoinWrite(w, a) PROVE faults' = faults \/ faults' = faults + 1
      BY <2>3 DEF JoinWrite
    <2>4. CASE SyncRank(w) \/ Mark(w) \/ WriteFile(w)
      BY <2>4 DEF SyncRank, Mark, WriteFile
    <2>5. CASE PutProfile(w) \/ PutUserSearch(w) \/ PutUserDetails(w) \/ ReadLabels(w) \/ SyncLabel(w)
      BY <2>5 DEF PutProfile, PutUserSearch, PutUserDetails, ReadLabels, SyncLabel
    <2>6. CASE Find(w)
      BY <2>6, FindStep DEF Find
    <2>7. CASE LostFollow(w) \/ CleanUp(w) \/ Unmark(w) \/ DeleteEdge(w)
      BY <2>7 DEF LostFollow, CleanUp, Unmark, DeleteEdge
    <2>8. CASE InvalidateCounts(w) \/ EraseFile(w) \/ DeleteSearch(w) \/ RemoveUser(w) \/ StoreEvent(w)
      BY <2>8 DEF InvalidateCounts, EraseFile, DeleteSearch, RemoveUser, StoreEvent
    <2> QED
      BY <1>1, <2>1, <2>2, <2>3, <2>4, <2>5, <2>6, <2>7, <2>8 DEF Handle
  <1>2. Written \/ Viewed \/ (\E p \in Posts : PostArrives(p)) => faults' = faults
    BY DEF Written, UserWrites, Logged, Viewed, ViewUser, ViewFollows, ViewTags, ViewCounts, View, PostArrives
  <1>3. ASSUME NEW w \in Loops, Take(w) PROVE faults' = faults
    BY <1>3 DEF Take, Start
  <1> QED
    BY <1>0, <1>1, <1>2, <1>3, NextSplits

(* What a handler of the profile r has to leave of its name.               *)
LEMMA NameClose ==
    ASSUME TypeOK, LogOrder, Sequential, NameInv, NEW w \in Loops, Busy(w), Handle(w),
           NEW r \in Records, r = Rec(w), Kind[r] = "profile", OthersKept(By[r]),
           faults' = 0 => /\ faults = 0
                          /\ Found(By[r])' = Wanted(index.details[By[r]])' \/ Renaming(job[w], By[r])'
                          /\ NameJob(job[w])'
    PROVE  NameInv'
  <1>1. Alone(w) /\ \A v \in Loops : v # w => job'[v] = job[v]
    BY MoveSeq
  <1>2. SUFFICES ASSUME faults' = 0
                 PROVE  /\ \A u \in Users : Found(u)' = Wanted(index.details[u])' \/ \E v \in Loops : Renaming(job[v], u)'
                        /\ \A v \in Loops : NameJob(job[v])'
    BY DEF NameInv
  <1>3. faults = 0
    BY <1>2
  <1>4. ASSUME NEW v \in Loops, v # w PROVE NameJob(job[v])' /\ \A u \in Users : ~Renaming(job[v], u)
    BY <1>1, <1>4 DEF Alone, Busy, NameJob, Renaming
  <1>5. ASSUME NEW u \in Users, u # By[r] PROVE Found(u)' = Wanted(index.details[u])'
    <2>1. ~Renaming(job[w], u)
      BY <1>5 DEF Renaming, Rec
    <2>2. Found(u) = Wanted(index.details[u])
      BY <1>3, <1>4, <2>1 DEF NameInv
    <2> QED
      BY <1>5, <2>2 DEF OthersKept
  <1> QED
    BY <1>2, <1>4, <1>5

(* The profile a handler leaves off or changes.                            *)
LEMMA FoundSame ==
    ASSUME SameUsers(index, index')
    PROVE  index'.details = index.details /\ \A u \in Users : Found(u)' = Found(u)
  BY DEF SameUsers, Found

(* A step that leaves all profiles alone.                                  *)
LEMMA KeptOthers ==
    ASSUME graph'.user = graph.user, SameUsers(index, index'), NEW u \in Users
    PROVE  OthersKept(u)
  BY FoundSame DEF OthersKept

(* The names after a PutSearch.                                            *)
Searched(x, y, u, d, k) ==
    \A n, v : <<n, v>> \in y.names <=>
        \/ k >= 3 /\ ~d.deleted /\ v = u /\ n = d.name
        \/ <<n, v>> \in x.names
           /\ ~(k >= 1 /\ x.details[u] # NoUser /\ v = u /\ n = x.details[u].name)

(* Replacing the search records, in these words.                           *)
LEMMA SearchedNames ==
    ASSUME NEW x \in IndexType, NEW u \in Users, NEW d \in Profile, NEW k \in 0..4
    PROVE  /\ Searched(x, PutSearch(x, u, d, k), u, d, k)
           /\ PutSearch(x, u, d, k).details = x.details
  BY SearchIndex DEF Searched

(* Every step of the handler of a profile.                                 *)
LEMMA UserStep ==
    ASSUME TypeOK, LogOrder, Sequential, EdgeEnds, UserInv, NameInv, NEW w \in Loops, Busy(w), Handle(w),
           NEW r \in Records, r = Rec(w), Kind[r] = "profile", faults' = 0 => faults = 0
    PROVE  UserInv' /\ NameInv'
  <1> DEFINE j == job[w]
             n == job'[w]
             u == By[r]
  <1>0. /\ graph \in GraphType /\ index \in IndexType /\ j \in JobType /\ JobShape(j)
        /\ j.ev.r = r /\ j.ev.type \in {"put", "del"} /\ j.pc # "idle" /\ u \in Users
        /\ job \in [Loops -> JobType]
    BY AtBusy DEF TypeOK, StoresOK, JobsOK, Busy
  <1>1. /\ hs' = hs /\ (n = Idle \/ (n.ev = j.ev /\ n.pc \notin {"idle", "fetch", "find"}))
        /\ (n # Idle => Due(r)') /\ (~At(w, "fetch") => Due(r))
        /\ (~Ends(w) /\ ~At(w, "fetch") => Due(r)')
        /\ (At(w, "fetch") /\ ~Ignored(r) /\ Due(r) => Due(r)')
        /\ (Ends(w) /\ ~At(w, "fetch") => Due(r)' \/ (j.ev.type = "put" <=> hs[r] # Nothing))
        /\ Alone(w)
    BY MoveSeq
  <1>2. /\ graph.user[u] = NoUser => index.details[u] = NoUser
        /\ Due(r) \/ UserSettled(u)
        /\ UserJob(w)
    BY <1>0, OneProfile DEF UserInv
  <1>3. /\ j.pc \in PutSteps => j.ev = PutOf(r) /\ j.ev.type = "put"
        /\ j.pc \in DelSteps => j.ev = DelOf(r) /\ j.ev.type = "del"
    BY PcKind
  <1>i. Idle.pc = "idle"
    BY IdleOK
  <1>4. n = Idle => UserJob(w)' /\ NameJob(job[w])'
    BY <1>i DEF UserJob, NameJob
  <1>5. n # Idle => hs' = hs /\ log' = log
    BY GoesOn DEF inputs
  <1>n. faults = 0 => /\ Found(u) = Wanted(index.details[u]) \/ Renaming(j, u)
                      /\ NameJob(j)
    <2>1. SUFFICES ASSUME faults = 0, ~(Found(u) = Wanted(index.details[u]))
                   PROVE  Renaming(j, u)
      BY DEF NameInv
    <2>2. PICK v \in Loops : Renaming(job[v], u)
      BY <1>0, <2>1 DEF NameInv
    <2>3. v = w
      BY <1>1, <2>2 DEF Renaming, Alone, Busy
    <2> QED
      BY <2>2, <2>3
  <1> HIDE DEF u
  <1>u. u = By[r] /\ u \in Users
    BY <1>0 DEF u
  (* Steps that leave the profiles alone.                                  *)
  <1>6. ASSUME UsersKept, Due(r)' \/ UserSettled(u)', UserJob(w)',
               faults' = 0 => (Renaming(j, u) => Renaming(job[w], u)') /\ NameJob(job[w])'
        PROVE  UserInv' /\ NameInv'
    <2>1. graph'.user = graph.user /\ SameUsers(index, index')
      BY <1>6 DEF UsersKept
    <2>2. index'.details = index.details /\ Found(u)' = Found(u) /\ OthersKept(u)
      BY <1>u, <2>1, FoundSame, KeptOthers
    <2>3. UserInv'
      BY <1>2, <1>6, <1>u, <2>1, <2>2, UserClose
    <2>4. Found(u)' = Found(u) /\ Wanted(index.details[u])' = Wanted(index.details[u])
      BY <2>2 DEF Wanted, u
    <2>5. faults' = 0 => Found(By[r])' = Wanted(index.details[By[r]])' \/ Renaming(job[w], By[r])'
      BY <1>6, <1>n, <1>u, <2>4
    <2>6. NameInv'
      BY <1>6, <1>u, <2>2, <2>5, NameClose
    <2> QED
      BY <2>3, <2>6
  <1>s. UNCHANGED stores => UsersKept
    BY DEF stores, UsersKept, SameUsers
  <1>7. CASE Fetch(w)
    <2>1. UNCHANGED stores /\ At(w, "fetch") /\ ~Ignored(r) /\ j.pc = "fetch" /\ j.ev.type = "put"
      BY <1>3, <1>7, OneProfile DEF Fetch, At, PutSteps
    <2>2. Due(r)' \/ UserSettled(u)'
      <3>1. CASE Due(r)
        BY <1>1, <2>1, <3>1
      <3>2. CASE UserSettled(u)
        BY <1>1, <1>u, <2>1, <3>2, SettledSame DEF stores, Found
      <3> QED
        BY <1>2, <3>1, <3>2
    <2>3. n = Idle \/ (n.pc = "profile" /\ n.body = FromHomeserver(hs[r]) /\ n.ev = j.ev)
      <3>1. CASE Finish(w)
        BY <1>0, <3>1 DEF Finish
      <3>2. CASE Proceed(w, TRUE, [j EXCEPT !.pc = "profile", !.body = FromHomeserver(hs[r])])
        <4>1. n = [j EXCEPT !.pc = "profile", !.body = FromHomeserver(hs[r])]
          BY <1>0, <3>2 DEF Proceed
        <4> QED
          BY <1>0, <4>1 DEF JobType
      <3> QED
        BY <1>7, <3>1, <3>2 DEF Fetch
    <2>4. UserJob(w)' /\ NameJob(job[w])'
      <3>1. CASE n # Idle
        <4>1. n.ev.r = r /\ n.ev.type = "put" /\ n.pc = "profile" /\ n.body = FromHomeserver(hs[r])
          BY <1>0, <2>1, <2>3, <3>1
        <4>2. Fresh(w)'
          BY <1>1, <4>1 DEF Fresh, Rec
        <4> QED
          BY <4>1, <4>2 DEF UserJob, NameJob
      <3> QED
        BY <1>4, <3>1
    <2>5. ~Renaming(j, u)
      BY <2>1 DEF Renaming
    <2> QED
      BY <1>6, <1>s, <2>1, <2>2, <2>4, <2>5
  <1>8. CASE StoreEvent(w)
    <2>1. UNCHANGED stores /\ j.pc = "done" /\ n = Idle /\ ~At(w, "fetch")
      BY <1>0, <1>8 DEF StoreEvent, At, Finish, Proceed
    <2>5. ~Renaming(j, u)
      BY <2>1 DEF Renaming
    <2>2. Due(r)' \/ UserSettled(u)'
      <3>1. CASE ~Ends(w)
        BY <1>1, <2>1, <3>1
      <3>2. CASE Ends(w)
        <4>1. Due(r)' \/ (j.ev.type = "put" <=> hs[r] # Nothing)
          BY <1>1, <2>1, <3>2
        <4>2. CASE j.ev.type = "del" /\ hs[r] = Nothing
          <5>1. index.details[u] = graph.user[u] /\ Wanted(graph.user[u]) = {}
            BY <1>0, <1>2, <2>1, <4>2 DEF UserJob, u
          <5> QED
            BY <1>1, <1>u, <2>1, <4>2, <5>1, OneProfile DEF UserSettled, stores
        <4>3. CASE j.ev.type = "put"
          <5>1. /\ Fresh(w) /\ graph.user[u] = j.body /\ index.details[u] = j.body /\ j.body.name \in Found(u)
                /\ \E m \in Names : j.body = FromHomeserver(m)
            BY <1>0, <1>2, <2>1, <4>3 DEF UserJob, u
          <5>2. CASE \E i \in 2..Len(log[w]) : log[w][i] = PutOf(r)
            <6>1. PICK i \in 2..Len(log[w]) : log[w][i] = PutOf(r)
              BY <5>2
            <6>2. w # Retry /\ w \in LiveLoops
              BY <1>0 DEF TypeOK, JobsOK, Deferrable, Loops, Rec, Busy
            <6>3. log[w] # <<>> /\ log' = Passed(w) /\ Home[By[r]] = w /\ Len(log[w]) \in Nat /\ Len(log'[w]) = Len(log[w]) - 1
                  /\ \A x \in 1..Len(log'[w]) : log'[w][x] = log[w][x + 1]
              <7>1. log[w] # <<>>
                BY <6>2 DEF TypeOK, JobsOK
              <7>2. log' = Passed(w)
                BY <3>2 DEF Ends, Finish
              <7>3. i \in 1..Len(log[w]) /\ log[w] \in Seq(Event)
                BY <6>2 DEF TypeOK, InputsOK
              <7>4. Home[By[r]] = w
                BY <6>1, <6>2, <7>3, Events DEF TypeOK, InputsOK
              <7> QED
                BY <6>2, <7>1, <7>2, <7>4, PassedOK DEF TypeOK
            <6>4. i - 1 \in 1..Len(log'[w]) /\ log'[w][i - 1] = PutOf(r)
              BY <6>1, <6>3
            <6>5. InLog(PutOf(r))'
              BY <6>3, <6>4, Events DEF InLog
            <6>6. hs[r] # Nothing => Due(r)'
              BY <1>1, <6>5 DEF Due
            <6> QED
              BY <4>1, <4>3, <6>6
          <5>3. CASE hs[r] # Nothing => j.body = FromHomeserver(hs[r])
            <6>1. Wanted(index.details[u]) \subseteq Found(u)
              BY <5>1, Bodies DEF Wanted
            <6>2. UserSettled(u)
              BY <1>u, <5>1, <5>3, <6>1, OneProfile DEF UserSettled
            <6> QED
              BY <1>1, <1>u, <2>1, <6>2, SettledSame DEF stores, Found
          <5> QED
            BY <5>1, <5>2, <5>3 DEF Fresh
        <4> QED
          BY <1>0, <4>1, <4>2, <4>3
      <3> QED
        BY <3>1, <3>2
    <2> QED
      BY <1>4, <1>6, <1>s, <2>1, <2>2, <2>5
  <1>f. n # Idle /\ n.body = j.body /\ j.pc # "fetch" /\ j.ev.type = "put" => Fresh(w)'
    <2>1. SUFFICES ASSUME n # Idle, n.body = j.body, j.pc # "fetch", j.ev.type = "put" PROVE Fresh(w)'
      OBVIOUS
    <2>2. Fresh(w) /\ n.ev = j.ev /\ hs' = hs /\ log' = log
      BY <1>0, <1>1, <1>2, <1>5, <2>1 DEF UserJob
    <2> QED
      BY <2>1, <2>2 DEF Fresh, Rec
  (* The labels of a profile that was written.                             *)
  <1>l. ASSUME j.pc \in {"labels", "resync"}, UsersKept,
               n = Idle \/ (n # Idle /\ n.pc \in {"resync", "done"} /\ n.body = j.body), Due(r)'
        PROVE  UserInv' /\ NameInv'
    <2>1. ~Renaming(j, u)
      BY <1>l DEF Renaming
    <2>2. UserJob(w)' /\ NameJob(job[w])'
      <3>1. CASE n # Idle
        <4>1. /\ n.ev = j.ev /\ n.ev.r = r /\ n.pc \in {"resync", "done"} /\ n.body = j.body
              /\ graph'.user = graph.user /\ index'.details = index.details /\ Found(u)' = Found(u)
          BY <1>0, <1>1, <1>l, <1>u, <3>1, FoundSame DEF UsersKept
        <4>2. CASE j.ev.type = "put"
          <5>1. /\ graph.user[u] = j.body /\ index.details[u] = j.body /\ j.body.name \in Found(u)
                /\ \E m \in Names : j.body = FromHomeserver(m)
            BY <1>0, <1>2, <1>l, <1>u, <4>2 DEF UserJob, JobShape
          <5>2. Fresh(w)'
            BY <1>f, <1>l, <3>1, <4>1, <4>2
          <5> QED
            BY <1>u, <4>1, <4>2, <5>1, <5>2 DEF UserJob, NameJob, u
        <4>3. CASE j.ev.type = "del"
          <5>1. graph.user[u] = Tombstone /\ index.details[u] = Tombstone
            BY <1>0, <1>2, <1>l, <1>u, <4>3 DEF UserJob
          <5>2. Wanted(graph'.user[u]) = {}
            BY <4>1, <5>1, Bodies DEF Wanted
          <5> QED
            BY <1>u, <4>1, <4>3, <5>1, <5>2 DEF UserJob, NameJob, u
        <4> QED
          BY <1>0, <4>2, <4>3
      <3> QED
        BY <1>4, <3>1
    <2> QED
      BY <1>6, <1>l, <2>1, <2>2
  <1>9. CASE ReadLabels(w)
    <2>1. j.pc = "labels" /\ UNCHANGED stores /\ UsersKept
      BY <1>9, <1>s DEF ReadLabels, At
    <2>2. n # Idle /\ n.pc \in {"resync", "done"} /\ n.body = j.body
      <3> DEFINE listed == {l \in Labels : index.score[By[Rec(w)]][l] # NoScore}
      <3>1. Proceed(w, TRUE, IF listed = {} THEN Goto(w, "done")
                           ELSE [job[w] EXCEPT !.pc = "resync", !.labels = listed])
        BY <1>9 DEF ReadLabels
      <3> HIDE DEF listed
      <3>2. n = [j EXCEPT !.pc = "done"] \/ n = [j EXCEPT !.pc = "resync", !.labels = listed]
        BY <1>0, <3>1 DEF Proceed, Goto
      <3>3. j \in JobType
        BY <1>0
      <3> QED
        BY <1>i, <3>2, <3>3 DEF JobType
    <2>3. Due(r)'
      BY <1>1, <2>2
    <2> QED
      BY <1>l, <2>1, <2>2, <2>3
  <1>10. CASE SyncLabel(w)
    <2>1. j.pc = "resync" /\ graph' = graph
      BY <1>10 DEF SyncLabel, At
    <2>2. PICK l \in j.labels, ok \in BOOLEAN :
             /\ index' = IF ok THEN SyncIndexScore(index, By[Rec(w)], l) ELSE index
             /\ Proceed(w, ok, [j EXCEPT !.labels = @ \ {l},
                              !.pc = IF j.labels = {l} THEN "done" ELSE "resync"])
      BY <1>10 DEF SyncLabel
    <2>3. n = Idle \/ (n # Idle /\ n.pc \in {"resync", "done"} /\ n.body = j.body)
      <3>1. n = Idle \/ n = [j EXCEPT !.labels = @ \ {l}, !.pc = IF j.labels = {l} THEN "done" ELSE "resync"]
        BY <1>0, <2>2 DEF Proceed
      <3>2. j \in JobType
        BY <1>0
      <3> QED
        BY <1>i, <3>1, <3>2 DEF JobType
    <2>4. SameUsers(index, index')
      <3>1. l \in Labels
        BY <1>0, <2>2 DEF JobType
      <3>2. CASE index' = index
        BY <3>2 DEF SameUsers
      <3>3. CASE index' = SyncIndexScore(index, By[Rec(w)], l)
        BY <1>0, <1>u, <3>1, <3>3, SyncIndex
      <3> QED
        BY <2>2, <3>2, <3>3
    <2>5. Due(r)'
      BY <1>1, <2>1, <2>2 DEF Ends, At, Proceed, Finish
    <2> QED
      BY <1>l, <2>1, <2>3, <2>4, <2>5 DEF UsersKept
  (* Steps that write the profile.                                         *)
  <1>c. ASSUME OthersKept(u), graph'.user[u] = NoUser => index'.details[u] = NoUser,
               j.pc \notin {"fetch", "find", "done"}, UserJob(w)',
               faults' = 0 => /\ Found(u)' = Wanted(index.details[u])' \/ Renaming(job[w], u)'
                              /\ NameJob(job[w])'
        PROVE  UserInv' /\ NameInv'
    <2>1. Due(r)'
      BY <1>1, <1>c DEF Ends, At
    <2>2. UserInv'
      BY <1>c, <1>u, <2>1, UserClose
    <2>3. NameInv'
      BY <1>c, <1>u, NameClose DEF u
    <2> QED
      BY <2>2, <2>3
  <1>g. ASSUME index' = index, j.pc \notin {"fetch", "find", "done"}
        PROVE  Found(u)' = Found(u)
    BY <1>g, <1>u DEF Found, u
  <1>11. CASE Find(w)
    <2>1. /\ j.pc = "find" /\ UNCHANGED stores /\ j.ev.type = "del" /\ FindProfile(w, By[r])
          /\ UsersKept /\ ~Renaming(j, u)
      <3>1. j.pc = "find" /\ UNCHANGED stores
        BY <1>11 DEF Find, At
      <3>2. j.ev.type = "del" /\ ~Renaming(j, u)
        BY <1>3, <3>1 DEF DelSteps, Renaming
      <3>3. FindProfile(w, By[r])
        BY <1>11 DEF Find
      <3> QED
        BY <1>s, <3>1, <3>2, <3>3
    <2>2. CASE ~UserExists(graph, u)
      <3>1. Finish(w) /\ n = Idle
        BY <1>0, <1>u, <2>1, <2>2 DEF FindProfile, Finish
      <3>2. Due(r)' \/ hs[r] = Nothing
        BY <1>1, <2>1, <3>1 DEF Ends, At
      <3>3. graph.user[u] = NoUser /\ index.details[u] = NoUser
        BY <1>2, <2>2 DEF UserExists
      <3>4. hs[r] = Nothing => UserSettled(u)
        BY <1>u, <3>3, OneProfile DEF UserSettled, Wanted
      <3>5. Due(r)' \/ UserSettled(u)'
        BY <1>1, <1>u, <2>1, <3>2, <3>4, SettledSame DEF stores, Found
      <3> QED
        BY <1>4, <1>6, <2>1, <3>1, <3>5
    <2>3. CASE UserExists(graph, u)
      <3> DEFINE b == IF UserIsSafeToDelete(graph, u) THEN NoUser ELSE Tombstone
      <3>1. Proceed(w, TRUE, [j EXCEPT !.pc = "unsearch", !.body = b])
        BY <1>u, <2>1, <2>3 DEF FindProfile
      <3>2. b = NoUser => UserIsSafeToDelete(graph, u)
        BY Bodies
      <3> HIDE DEF b
      <3>3. n = [j EXCEPT !.pc = "unsearch", !.body = b]
        BY <1>0, <3>1 DEF Proceed
      <3>4. n.pc = "unsearch" /\ n.body = b /\ n.ev = j.ev /\ n # Idle
        BY <1>0, <1>i, <3>3 DEF JobType
      <3>5. UserIsSafeToDelete(graph, u) => Clear(u)
        BY DEF EdgeEnds, UserIsSafeToDelete, Clear
      <3>6. b = NoUser => Clear(u)'
        BY <1>u, <2>1, <3>2, <3>5 DEF stores, Clear, u
      <3>7. UserJob(w)' /\ NameJob(job[w])'
        BY <1>0, <1>u, <2>1, <3>4, <3>6 DEF UserJob, NameJob, u
      <3> QED
        BY <1>1, <1>6, <2>1, <3>4, <3>7
    <2> QED
      BY <2>2, <2>3
  <1>12. CASE PutProfile(w)
    <2>1. j.pc = "profile" /\ index' = index /\ j.body \in Profile
      <3>1. j.pc = "profile" /\ index' = index
        BY <1>12 DEF PutProfile, At
      <3> QED
        BY <1>0, <3>1, Bodies DEF JobShape
    <2>2. PICK ok \in BOOLEAN :
             /\ graph' = IF ok THEN CreateUser(graph, By[Rec(w)], j.body) ELSE graph
             /\ Proceed(w, ok, Goto(w, IF j.body.deleted THEN "details" ELSE "search"))
      BY <1>12 DEF PutProfile
    <2>3. CASE ~ok
      <3>1. n = Idle /\ faults' = faults + 1 /\ graph' = graph /\ UsersKept
        BY <1>0, <2>1, <2>2, <2>3 DEF Proceed, UsersKept, SameUsers
      <3>2. Due(r)' /\ faults' # 0
        BY <1>1, <2>1, <3>1 DEF Ends, At, TypeOK, InputsOK
      <3> QED
        BY <1>4, <1>6, <3>1, <3>2
    <2>4. CASE ok
      <3> DEFINE l == IF j.body.deleted THEN "details" ELSE "search"
      <3>1. l \in Steps /\ l \in {"details", "search"}
        BY DEF Steps, PutSteps
      <3>2. n.pc = l /\ n.ev = j.ev /\ n.body = j.body /\ faults' = faults
        <4>1. j.pc \notin Joins
          BY <2>1 DEF Joins
        <4>2. Proceed(w, ok, Goto(w, l))
          BY <2>2
        <4> HIDE DEF l
        <4> QED
          BY <2>4, <3>1, <4>1, <4>2, ProceedTo
      <3>3. n # Idle
        BY <1>i, <3>1, <3>2
      <3>4. \A v \in Users : graph'.user[v] = IF v = u THEN j.body ELSE graph.user[v]
        BY <1>0, <1>u, <2>1, <2>2, <2>4, CreateUserGraph
      <3>5. OthersKept(u)
        BY <2>1, <3>4 DEF OthersKept, Found
      <3>6. graph'.user[u] = j.body /\ j.body # NoUser
        BY <1>u, <2>1, <3>4, SocialGraphAssumption
      <3>7. Found(u)' = Found(u)
        BY <1>g, <2>1
      <3>8. CASE j.ev.type = "put"
        <4>1. ~j.body.deleted
          BY <1>0, <2>1, <3>8, Bodies DEF JobShape
        <4>2. n.pc = "search" /\ n.ev.r = r /\ n.ev.type = "put" /\ Fresh(w)'
          BY <1>0, <1>f, <2>1, <3>2, <3>3, <3>8, <4>1
        <4>3. UserJob(w)' /\ NameJob(job[w])'
          BY <1>u, <3>2, <3>6, <4>2 DEF UserJob, NameJob, u
        <4>4. faults' = 0 => Found(u)' = Wanted(index.details[u])'
          <5>1. faults' = 0 => Found(u) = Wanted(index.details[u])
            BY <1>n, <2>1, <3>2, <3>8 DEF Renaming
          <5> QED
            BY <1>u, <2>1, <3>7, <5>1 DEF Wanted, u
        <4> QED
          BY <1>c, <2>1, <3>5, <3>6, <4>3, <4>4
      <3>9. CASE j.ev.type = "del"
        <4>1. j.body = Tombstone
          BY <1>0, <2>1, <3>9 DEF JobShape
        <4>2. n.pc = "details" /\ n.ev.r = r /\ n.ev.type = "del"
          BY <1>0, <3>2, <3>9, <4>1, Bodies
        <4>3. faults = 0 => Found(u) = {}
          BY <1>0, <1>n, <1>u, <2>1, <3>9 DEF NameJob
        <4>4. UserJob(w)'
          BY <1>u, <3>6, <4>1, <4>2 DEF UserJob, u
        <4>5. faults' = 0 => NameJob(job[w])'
          BY <1>u, <3>2, <3>7, <4>2, <4>3 DEF NameJob, u
        <4>6. Renaming(job[w], u)'
          BY <1>u, <4>2 DEF Renaming, u
        <4> QED
          BY <1>c, <2>1, <3>5, <3>6, <4>4, <4>5, <4>6
      <3> QED
        BY <1>0, <3>8, <3>9
    <2> QED
      BY <2>3, <2>4
  <1>13. CASE PutUserSearch(w)
    <2>1. /\ j.pc = "search" /\ graph' = graph /\ j.body \in Profile /\ ~j.body.deleted /\ j.ev.type = "put"
          /\ j.body.name \in Names /\ graph.user[u] = j.body /\ ~Renaming(j, u)
      <3>1. j.pc = "search" /\ graph' = graph
        BY <1>13 DEF PutUserSearch, At
      <3>2. j.ev.type = "put" /\ ~Renaming(j, u)
        BY <1>3, <3>1 DEF PutSteps, Renaming
      <3>3. graph.user[u] = j.body
        BY <1>0, <1>2, <1>u, <3>1, <3>2 DEF UserJob
      <3> QED
        BY <1>0, <3>1, <3>2, <3>3, Bodies DEF JobShape
    <2>2. PICK k \in 0..4 : /\ index' = PutSearch(index, By[Rec(w)], j.body, k)
                            /\ Proceed(w, k = 4, Goto(w, "details"))
      BY <1>13 DEF PutUserSearch
    <2>3. /\ index'.details = index.details
          /\ \A m, v : <<m, v>> \in index'.names <=>
                \/ k >= 3 /\ v = u /\ m = j.body.name
                \/ <<m, v>> \in index.names
                   /\ ~(k >= 1 /\ index.details[u] # NoUser /\ v = u /\ m = index.details[u].name)
      <3>1. index' = PutSearch(index, u, j.body, k) /\ index \in IndexType
        BY <1>0, <1>u, <2>2
      <3>2. Searched(index, index', u, j.body, k) /\ index'.details = index.details
        BY <1>u, <2>1, <3>1, SearchedNames
      <3> QED
        BY <2>1, <3>2 DEF Searched
    <2>4. OthersKept(u) /\ (graph'.user[u] = NoUser => index'.details[u] = NoUser)
      BY <1>2, <2>1, <2>3 DEF OthersKept, Found
    <2>5. CASE k # 4
      <3>1. n = Idle /\ faults' # 0
        BY <1>0, <2>2, <2>5 DEF Proceed, TypeOK, InputsOK
      <3> QED
        BY <1>4, <1>c, <2>1, <2>4, <3>1
    <2>6. CASE k = 4
      <3>1. n.pc = "details" /\ n.ev = j.ev /\ n.body = j.body /\ faults' = faults
        <4>1. j.pc \notin Joins /\ "details" \in Steps /\ (k = 4) \in BOOLEAN
          BY <2>1 DEF Joins, Steps
        <4> QED
          BY <2>2, <2>6, <4>1, ProceedTo
      <3>2. n # Idle
        BY <1>i, <3>1
      <3>3. Fresh(w)'
        BY <1>f, <2>1, <3>1, <3>2
      <3>4. j.body.name \in Found(u)'
        BY <1>u, <2>1, <2>3, <2>6 DEF Found, u
      <3>5. UserJob(w)'
        BY <1>0, <1>u, <2>1, <3>1, <3>3, <3>4 DEF UserJob, u
      <3>6. faults = 0 => Found(u)' = {j.body.name}
        <4>1. SUFFICES ASSUME faults = 0, NEW m \in Found(u)' PROVE m = j.body.name
          BY <3>4
        <4>2. m \in Names \cup {Stub, Blank} /\ <<m, u>> \in index'.names
          BY <1>u, <4>1 DEF Found, u
        <4>3. Found(u) = Wanted(index.details[u])
          BY <1>n, <2>1, <4>1
        <4>4. CASE <<m, u>> \in index.names /\ ~(index.details[u] # NoUser /\ m = index.details[u].name)
          <5>1. m \in Wanted(index.details[u])
            BY <4>2, <4>3, <4>4 DEF Found
          <5> QED
            BY <4>4, <5>1 DEF Wanted
        <4> QED
          BY <2>3, <2>6, <4>2, <4>4
      <3>7. (faults' = 0 => NameJob(job[w])') /\ Renaming(job[w], u)'
        BY <1>0, <1>u, <2>1, <3>1, <3>6 DEF NameJob, Renaming, u
      <3> QED
        BY <1>c, <2>1, <2>4, <3>5, <3>7
    <2> QED
      BY <2>5, <2>6
  <1>14. CASE PutUserDetails(w)
    <2>1. j.pc = "details" /\ graph' = graph /\ j.body \in Profile
      <3>1. j.pc = "details" /\ graph' = graph
        BY <1>14 DEF PutUserDetails, At
      <3> QED
        BY <1>0, <3>1, Bodies DEF JobShape
    <2>2. PICK ok \in BOOLEAN :
             /\ index' = IF ok THEN [index EXCEPT !.details[By[Rec(w)]] = j.body] ELSE index
             /\ Proceed(w, ok, Goto(w, "labels"))
      BY <1>14 DEF PutUserDetails
    <2>3. CASE ~ok
      <3>1. n = Idle /\ faults' = faults + 1 /\ index' = index /\ UsersKept
        BY <1>0, <2>1, <2>2, <2>3 DEF Proceed, UsersKept, SameUsers
      <3>2. Due(r)' /\ faults' # 0
        BY <1>1, <2>1, <3>1 DEF Ends, At, TypeOK, InputsOK
      <3> QED
        BY <1>4, <1>6, <3>1, <3>2
    <2>4. CASE ok
      <3>1. n.pc = "labels" /\ n.ev = j.ev /\ n.body = j.body /\ faults' = faults
        <4>1. j.pc \notin Joins /\ "labels" \in Steps
          BY <2>1 DEF Joins, Steps
        <4> QED
          BY <2>2, <2>4, <4>1, ProceedTo
      <3>2. n # Idle
        BY <1>i, <3>1
      <3>3. index'.names = index.names /\ \A v \in Users : index'.details[v] = IF v = u THEN j.body ELSE index.details[v]
        BY <1>0, <1>u, <2>1, <2>2, <2>4, DetailsIndex
      <3>4. OthersKept(u)
        BY <2>1, <3>3 DEF OthersKept, Found
      <3>5. Found(u)' = Found(u)
        BY <1>u, <3>3 DEF Found, u
      <3>6. index'.details[u] = j.body /\ graph'.user[u] = j.body /\ j.body # NoUser
        <4>1. graph.user[u] = j.body
          BY <1>0, <1>2, <1>u, <2>1, Bodies DEF UserJob, JobShape
        <4> QED
          BY <1>u, <2>1, <3>3, <4>1, SocialGraphAssumption
      <3>7. UserJob(w)'
        <4>1. CASE j.ev.type = "put"
          <5>1. Fresh(w)' /\ j.body.name \in Found(u)
            BY <1>0, <1>2, <1>f, <1>u, <2>1, <3>1, <3>2, <4>1 DEF UserJob
          <5> QED
            BY <1>0, <1>u, <3>1, <3>5, <3>6, <4>1, <5>1 DEF UserJob, u
        <4>2. CASE j.ev.type = "del"
          <5>1. j.body = Tombstone
            BY <1>0, <2>1, <4>2 DEF JobShape
          <5> QED
            BY <1>0, <1>u, <3>1, <3>6, <4>2, <5>1 DEF UserJob, u
        <4> QED
          BY <1>0, <4>1, <4>2
      <3>8. NameJob(job[w])'
        BY <3>1 DEF NameJob
      <3>9. faults' = 0 => Found(u)' = Wanted(index.details[u])'
        <4>1. SUFFICES ASSUME faults = 0 PROVE Found(u) = Wanted(j.body)
          BY <1>u, <3>1, <3>5, <3>6 DEF u
        <4>2. CASE j.ev.type = "put"
          <5>1. Found(u) = {j.body.name} /\ ~j.body.deleted /\ j.body # NoUser
            BY <1>0, <1>n, <1>u, <2>1, <4>1, <4>2, Bodies DEF NameJob, JobShape
          <5> QED
            BY <5>1 DEF Wanted
        <4>3. CASE j.ev.type = "del"
          <5>1. Found(u) = {} /\ j.body.deleted
            BY <1>0, <1>n, <1>u, <2>1, <4>1, <4>3, Bodies DEF NameJob, JobShape
          <5> QED
            BY <5>1 DEF Wanted
        <4> QED
          BY <1>0, <4>2, <4>3
      <3> QED
        BY <1>c, <2>1, <3>4, <3>6, <3>7, <3>8, <3>9
    <2> QED
      BY <2>3, <2>4
  <1>15. CASE DeleteSearch(w)
    <2>1. j.pc = "unsearch" /\ graph' = graph /\ j.ev.type = "del" /\ ~Renaming(j, u)
      <3>1. j.pc = "unsearch" /\ graph' = graph
        BY <1>15 DEF DeleteSearch, At
      <3> QED
        BY <1>3, <3>1 DEF DelSteps, Renaming
    <2>2. PICK k \in 0..2 : /\ index' = DeleteExistingRecords(index, By[Rec(w)], k)
                            /\ Proceed(w, k = 2, Goto(w, IF j.body = NoUser THEN "undetails" ELSE "profile"))
      BY <1>15 DEF DeleteSearch
    <2>3. /\ index'.details = index.details
          /\ \A m, v : <<m, v>> \in index'.names <=>
                <<m, v>> \in index.names
                   /\ ~(k >= 1 /\ index.details[u] # NoUser /\ v = u /\ m = index.details[u].name)
      BY <1>0, <1>u, <2>2, UnsearchIndex, SMTT(30)
    <2>4. OthersKept(u) /\ (graph'.user[u] = NoUser => index'.details[u] = NoUser)
      BY <1>2, <2>1, <2>3 DEF OthersKept, Found
    <2>5. CASE k # 2
      <3>1. n = Idle /\ faults' # 0
        BY <1>0, <2>2, <2>5 DEF Proceed, TypeOK, InputsOK
      <3> QED
        BY <1>4, <1>c, <2>1, <2>4, <3>1
    <2>6. CASE k = 2
      <3> DEFINE l == IF j.body = NoUser THEN "undetails" ELSE "profile"
      <3>1. l \in Steps
        BY DEF Steps, DelSteps
      <3>2. n.pc = l /\ n.ev = j.ev /\ n.body = j.body /\ faults' = faults
        <4>1. j.pc \notin Joins /\ (k = 2) \in BOOLEAN
          BY <2>1 DEF Joins
        <4>2. Proceed(w, k = 2, Goto(w, l))
          BY <2>2
        <4> HIDE DEF l
        <4> QED
          BY <2>6, <3>1, <4>1, <4>2, ProceedTo
      <3>3. n.pc = "undetails" => j.body = NoUser
        BY <3>2
      <3>4. n.pc \in {"undetails", "profile"} /\ n.ev.type = "del" /\ n.ev.r = r
        BY <1>0, <2>1, <3>2
      <3>5. n.pc = "undetails" => Clear(u)'
        <4>1. j.body = NoUser => Clear(u)
          BY <1>0, <1>2, <1>u, <2>1 DEF UserJob
        <4> QED
          BY <1>u, <2>1, <3>3, <4>1 DEF Clear, u
      <3>6. UserJob(w)'
        BY <1>u, <3>4, <3>5 DEF UserJob, u
      <3>7. faults = 0 => Found(u)' = {}
        <4>1. SUFFICES ASSUME faults = 0, NEW m \in Found(u)' PROVE FALSE
          OBVIOUS
        <4>2. m \in Names \cup {Stub, Blank} /\ <<m, u>> \in index'.names
          BY <1>u, <4>1 DEF Found, u
        <4>3. Found(u) = Wanted(index.details[u])
          BY <1>n, <2>1, <4>1
        <4>4. <<m, u>> \in index.names /\ ~(index.details[u] # NoUser /\ m = index.details[u].name)
          BY <2>3, <2>6, <4>2
        <4>5. m \in Wanted(index.details[u])
          BY <4>2, <4>3, <4>4 DEF Found
        <4> QED
          BY <4>4, <4>5 DEF Wanted
      <3>8. (faults' = 0 => NameJob(job[w])') /\ Renaming(job[w], u)'
        BY <1>0, <1>u, <3>2, <3>4, <3>7 DEF NameJob, Renaming, u
      <3> QED
        BY <1>c, <2>1, <2>4, <3>6, <3>8
    <2> QED
      BY <2>5, <2>6
  <1>16. CASE RemoveUser(w)
    <2>1. j.pc = "undetails" /\ j.ev.type = "del"
      <3>1. j.pc = "undetails"
        BY <1>16 DEF RemoveUser, At
      <3> QED
        BY <1>3, <3>1 DEF DelSteps
    <2>2. PICK k \in 0..2 :
             /\ index' = IF k >= 1 THEN [index EXCEPT !.details[By[Rec(w)]] = NoUser] ELSE index
             /\ graph' = IF k = 2 THEN DeleteUser(graph, By[Rec(w)]) ELSE graph
             /\ Proceed(w, k = 2, Goto(w, "done"))
      BY <1>16 DEF RemoveUser
    <2>3. index'.names = index.names /\ \A v \in Users : index'.details[v] =
                IF v = u /\ k >= 1 THEN NoUser ELSE index.details[v]
      <3>1. CASE k >= 1
        <4>1. index' = [index EXCEPT !.details[u] = NoUser]
          BY <1>u, <2>2, <3>1
        <4> QED
          BY <1>0, <1>u, <3>1, <4>1, DetailsIndex
      <3>2. CASE ~(k >= 1)
        BY <2>2, <3>2
      <3> QED
        BY <3>1, <3>2
    <2>4. \A v \in Users : graph'.user[v] = IF v = u /\ k = 2 THEN NoUser ELSE graph.user[v]
      <3>1. CASE k = 2
        BY <1>0, <1>u, <2>2, <3>1, DeleteUserGraph
      <3>2. CASE k # 2
        BY <2>2, <3>2
      <3> QED
        BY <3>1, <3>2
    <2>5. OthersKept(u) /\ (graph'.user[u] = NoUser => index'.details[u] = NoUser) /\ Found(u)' = Found(u)
      BY <1>2, <1>u, <2>2, <2>3, <2>4 DEF OthersKept, Found, u
    <2>6. CASE k # 2
      <3>1. n = Idle /\ faults' # 0
        BY <1>0, <2>2, <2>6 DEF Proceed, TypeOK, InputsOK
      <3> QED
        BY <1>4, <1>c, <2>1, <2>5, <3>1
    <2>7. CASE k = 2
      <3>1. n.pc = "done" /\ n.ev = j.ev /\ faults' = faults
        <4>1. j.pc \notin Joins /\ "done" \in Steps /\ (k = 2) \in BOOLEAN
          BY <2>1 DEF Joins, Steps
        <4> QED
          BY <2>2, <2>7, <4>1, ProceedTo
      <3>2. index'.details[u] = NoUser /\ graph'.user[u] = NoUser
        BY <1>u, <2>3, <2>4, <2>7
      <3>3. UserJob(w)' /\ NameJob(job[w])'
        BY <1>0, <1>u, <2>1, <3>1, <3>2 DEF UserJob, NameJob, Wanted, u
      <3>4. faults' = 0 => Found(u)' = Wanted(index.details[u])'
        <4>1. faults = 0 => Found(u) = {}
          BY <1>0, <1>n, <1>u, <2>1 DEF NameJob
        <4> QED
          BY <1>u, <2>5, <3>1, <3>2, <4>1 DEF Wanted, u
      <3> QED
        BY <1>c, <2>1, <2>5, <3>3, <3>4
    <2> QED
      BY <2>6, <2>7
  <1> QED
    BY <1>7, <1>8, <1>9, <1>10, <1>11, <1>12, <1>13, <1>14, <1>15, <1>16, KindSteps

(* No handler of a profile runs.                                           *)
NoProfileJob == \A v \in Loops : Busy(v) => Kind[Rec(v)] # "profile"

(* What keeps a profile: what another step does to the jobs of profiles.   *)
LEMMA FreshWritten ==
    ASSUME TypeOK, NEW s \in Records, NEW c \in Blob(s) \cup {Nothing}, NEW type \in {"put", "del"},
           c = Nothing <=> type = "del", UserWrites(s, c, type),
           NEW w \in Loops, Busy(w), Kind[Rec(w)] = "profile", Fresh(w)
    PROVE  Fresh(w)'
  <1>1. Appended(s, c, type)
    BY LoggedStep
  <1>2. PICK r \in Records : r = Rec(w)
    BY AtBusy
  <1>3. w \in LiveLoops /\ job' = job
    BY <1>1 DEF TypeOK, JobsOK, Deferrable, Loops, Appended
  <1>4. log[w] # <<>> /\ log[w] \in Seq(Event) /\ job[w].ev = Head(log[w]) /\ Len(log[w]) \in Nat
    BY <1>3 DEF TypeOK, JobsOK, InputsOK
  <1>5. Len(log[w]) >= 1 /\ log[w][1].r = r
    BY <1>2, <1>4 DEF Rec
  <1>6. Home[By[r]] = w
    BY <1>3, <1>4, <1>5 DEF TypeOK, InputsOK
  <1>7. \A i \in 2..Len(log[w]) : i \in 2..Len(log'[w]) /\ log'[w][i] = log[w][i]
    <2>1. CASE w # Home[By[s]]
      BY <1>1, <1>3, <2>1 DEF Appended
    <2>2. CASE w = Home[By[s]]
      BY <1>1, <1>4, <2>2 DEF Appended
    <2> QED
      BY <2>1, <2>2
  <1>8. CASE s # r
    <2>1. hs'[r] = hs[r]
      BY <1>1, <1>8 DEF Appended
    <2> QED
      BY <1>2, <1>3, <1>7, <2>1 DEF Fresh, Rec, PutOf
  <1>9. CASE s = r
    <2>1. hs'[r] = c
      BY <1>1, <1>9 DEF Appended
    <2>2. CASE type = "put"
      <3>1. Len(log'[w]) \in 2..Len(log'[w]) /\ log'[w][Len(log'[w])] = PutOf(r)
        BY <1>1, <1>4, <1>5, <1>6, <1>9, <2>2 DEF Appended, PutOf
      <3> QED
        BY <1>2, <1>3, <3>1 DEF Fresh, Rec, PutOf
    <2>3. CASE type = "del"
      BY <1>2, <1>3, <2>1, <2>3 DEF Fresh, Rec
    <2> QED
      BY <2>2, <2>3
  <1> QED
    BY <1>8, <1>9

(* A step that leaves profiles alone.                                      *)
LEMMA UserFrame ==
    ASSUME TypeOK, UserInv, Quietly("profile"), UsersKept, \A w \in Loops : UserJob(w)'
    PROVE  UserInv'
  <1>1. graph'.user = graph.user /\ index'.details = index.details /\ \A u \in Users : Found(u)' = Found(u)
    BY FoundSame DEF UsersKept
  <1>2. \A u \in Users : graph'.user[u] = NoUser => index'.details[u] = NoUser
    BY <1>1 DEF UserInv
  <1>3. ASSUME NEW u \in Users PROVE (\E r \in Profiles(u) : Due(r)') \/ UserSettled(u)'
    <2>0. \A r \in Profiles(u) : r \in Of("profile")
      BY OneProfile DEF Profiles
    <2>1. CASE \E r \in Profiles(u) : Due(r)
      BY <2>0, <2>1 DEF Quietly
    <2>2. CASE UserSettled(u)
      <3>1. CASE \A s \in Profiles(u) : hs'[s] = hs[s]
        BY <1>1, <2>2, <3>1, SettledSame
      <3>2. CASE \E s \in Profiles(u) : hs'[s] # hs[s]
        BY <2>0, <3>2 DEF Quietly
      <3> QED
        BY <3>1, <3>2
    <2> QED
      BY <2>1, <2>2 DEF UserInv
  <1> QED
    BY <1>2, <1>3 DEF UserInv, Profiles

(* A handler or a reader fills in the profile of u; the handler may have   *)
(* made it up.                                                             *)
Fills(u) ==
    /\ index' = FillUser(index, graph, u)
    /\ \A v \in Users :
          \/ graph'.user[v] = graph.user[v]
          \/ v = u /\ index'.details[u] = NoUser /\ graph'.user[u] = FromPubky

(* Filling in a profile keeps what is known of profiles.                   *)
LEMMA FillsUser ==
    ASSUME TypeOK, UserInv, NameInv, Quietly("profile"), NEW u \in Users, hs' = hs, faults' = faults,
           Fills(u), NoProfileJob,
           \A w \in Loops : UserJob(w)' /\ NameJob(job[w])'
    PROVE  UserInv' /\ NameInv'
  <1> DEFINE miss == index.details[u] = NoUser /\ UserExists(graph, u)
  <1>0. graph \in GraphType /\ index \in IndexType
    BY DEF TypeOK, StoresOK
  <1>1. /\ \A v \in Users : index'.details[v] = IF v = u /\ miss THEN graph.user[u] ELSE index.details[v]
        /\ \A n, v : <<n, v>> \in index'.names <=>
              IF miss /\ v = u /\ n = graph.user[u].name THEN ~graph.user[u].deleted ELSE <<n, v>> \in index.names
        /\ \A v \in Users : \/ graph'.user[v] = graph.user[v]
                            \/ v = u /\ index'.details[u] = NoUser /\ graph'.user[u] = FromPubky
    BY <1>0, FillUserIndex DEF Fills
  <1>2. \A v \in Users : v # u => /\ graph'.user[v] = graph.user[v] /\ index'.details[v] = index.details[v]
                                  /\ Found(v)' = Found(v)
    BY <1>1 DEF Found
  <1>3. graph'.user[u] = NoUser => index'.details[u] = NoUser
    BY <1>1, Bodies DEF UserExists, UserInv
  <1>4. Wanted(graph.user[u]) \subseteq Names \cup {Stub, Blank}
    BY <1>0 DEF Wanted, GraphType, Profile
  <1>5. miss => /\ index'.details[u] = graph.user[u] /\ graph'.user[u] = graph.user[u]
                /\ Wanted(graph.user[u]) \subseteq Found(u)' /\ Found(u)' \subseteq Found(u) \cup Wanted(graph.user[u])
    BY <1>1, <1>4 DEF Found, Wanted, UserExists
  <1>6. ~miss => Found(u)' = Found(u) /\ index'.details[u] = index.details[u]
    BY <1>1 DEF Found
  <1>7. ASSUME NEW v \in Users PROVE (\E r \in Profiles(v) : Due(r)') \/ UserSettled(v)'
    <2>1. CASE \E r \in Profiles(v) : Due(r)
      BY <2>1, OneProfile DEF Quietly, Profiles
    <2>2. CASE UserSettled(v) /\ v # u
      BY <1>2, <2>2, SettledSame
    <2>3. CASE UserSettled(v) /\ v = u /\ miss
      <3>1. \A r \in Profiles(v) : hs[r] # Nothing => graph.user[v] = FromHomeserver(hs[r])
        BY <2>3 DEF UserSettled
      <3> QED
        BY <1>5, <2>3, <3>1 DEF UserSettled, Profiles
    <2>4. CASE UserSettled(v) /\ v = u /\ ~miss /\ index.details[u] # NoUser
      <3>1. graph'.user[v] = graph.user[v]
        BY <1>1, <1>6, <2>4
      <3> QED
        BY <1>6, <2>4, <3>1, SettledSame
    <2>5. CASE UserSettled(v) /\ v = u /\ ~miss /\ index.details[u] = NoUser
      <3>1. graph.user[u] = NoUser
        BY <2>5 DEF UserExists
      <3>2. ASSUME NEW r \in Profiles(u) PROVE hs[r] = Nothing
        <4>1. hs[r] # Nothing => hs[r] \in Names
          BY DEF Profiles, TypeOK, InputsOK, Blob
        <4> QED
          BY <2>5, <3>1, <4>1, Bodies DEF UserSettled
      <3>3. index'.details[u] = NoUser
        BY <1>6, <2>5
      <3> QED
        BY <2>5, <3>2, <3>3 DEF UserSettled, Profiles, Wanted
    <2> QED
      BY <2>1, <2>2, <2>3, <2>4, <2>5 DEF UserInv
  <1>8. UserInv'
    BY <1>2, <1>3, <1>7 DEF UserInv, Profiles
  <1>9. ASSUME faults = 0, NEW v \in Users PROVE Found(v)' = Wanted(index.details[v])'
    <2>1. Found(v) = Wanted(index.details[v])
      BY <1>9 DEF NameInv, NoProfileJob, Renaming, Busy, Rec
    <2>2. CASE v # u
      BY <1>2, <2>1, <2>2
    <2>3. CASE v = u /\ miss
      <3>1. Found(v) = {}
        BY <2>1, <2>3 DEF Wanted
      <3>2. Found(u)' = Wanted(graph.user[u]) /\ index'.details[u] = graph.user[u]
        BY <1>5, <2>3, <3>1
      <3>3. Wanted(index.details[u])' = Wanted(graph.user[u])
        BY <3>2 DEF Wanted
      <3> QED
        BY <2>3, <3>2, <3>3
    <2>4. CASE v = u /\ ~miss
      BY <1>6, <2>1, <2>4
    <2> QED
      BY <2>2, <2>3, <2>4
  <1>10. NameInv'
    BY <1>9 DEF NameInv
  <1> QED
    BY <1>8, <1>10

(* The job of a handler that has just taken its event says nothing yet.    *)
LEMMA JobsApart ==
    ASSUME TypeOK', NoProfileJob, Quietly("profile"), NEW v \in Loops
    PROVE  UserJob(v)' /\ NameJob(job[v])'
  <1>1. JobShape(job[v])'
    BY DEF TypeOK, JobsOK
  <1>2. CASE job'[v].pc = "idle"
    BY <1>2 DEF UserJob, NameJob
  <1>3. CASE job'[v].pc \in {"fetch", "find"}
    <2>1. job'[v].pc = "find" => job'[v].ev.type = "del"
      BY <1>1 DEF JobShape, DelSteps
    <2>2. job'[v].pc = "fetch" => job'[v].ev.type = "put"
      BY <1>1 DEF JobShape, PutSteps
    <2> QED
      BY <1>3, <2>1, <2>2 DEF UserJob, NameJob
  <1>4. CASE job'[v].pc # "idle" /\ Kind[job'[v].ev.r] # "profile"
    BY <1>4 DEF UserJob, NameJob
  <1>5. job'[v] = Idle => job'[v].pc = "idle"
    BY IdleOK
  <1>6. job'[v] = job[v] => job'[v].pc = "idle" \/ Kind[job'[v].ev.r] # "profile"
    BY DEF NoProfileJob, Busy, Rec
  <1> QED
    BY <1>2, <1>3, <1>4, <1>5, <1>6 DEF Quietly

(* No profile changes, and no handler of one runs.                         *)
LEMMA UserApart ==
    ASSUME TypeOK, TypeOK', UserInv, NameInv, NoProfileJob, Quietly("profile"), UsersKept,
           faults' = 0 => faults = 0
    PROVE  UserInv' /\ NameInv'
  <1>1. \A v \in Loops : UserJob(v)' /\ NameJob(job[v])'
    BY JobsApart
  <1>2. UserInv'
    BY <1>1, UserFrame
  <1>3. index'.details = index.details /\ \A u \in Users : Found(u)' = Found(u)
    BY FoundSame DEF UsersKept
  <1>4. ASSUME faults' = 0, NEW u \in Users PROVE Found(u)' = Wanted(index.details[u])'
    <2>1. Found(u) = Wanted(index.details[u])
      BY <1>4 DEF NameInv, NoProfileJob, Renaming, Busy, Rec
    <2> QED
      BY <1>3, <2>1 DEF Wanted
  <1> QED
    BY <1>1, <1>2, <1>4 DEF NameInv

(* Neither the handlers nor the profiles nor the edges change.             *)
LEMMA UserSame ==
    ASSUME TypeOK, UserInv, NameInv, Quietly("profile"), UsersKept, SameEdges, job' = job,
           faults' = faults, \A w \in Loops : Busy(w) /\ Kind[Rec(w)] = "profile" /\ Fresh(w) => Fresh(w)'
    PROVE  UserInv' /\ NameInv'
  <1>1. graph'.user = graph.user /\ index'.details = index.details /\ \A u \in Users : Found(u)' = Found(u)
    BY FoundSame DEF UsersKept
  <1>2. \A u \in Users : Clear(u)' <=> Clear(u)
    BY DEF SameEdges, Clear
  <1>3. ASSUME NEW w \in Loops PROVE UserJob(w)'
    <2>1. CASE Busy(w) /\ Kind[Rec(w)] = "profile"
      <3>1. PICK u \in Users : u = By[Rec(w)]
        BY <2>1, AtBusy
      <3>2. UserJob(w) /\ (Fresh(w) => Fresh(w)')
        BY <2>1 DEF UserInv
      <3>3. u = By[job[w].ev.r] /\ By[job'[w].ev.r] = u
        BY <3>1 DEF Rec
      <3>4. Found(By[job[w].ev.r])' = Found(u) /\ (Clear(u) => Clear(By[job[w].ev.r])')
        BY <1>1, <1>2, <3>3 DEF Found, Clear
      <3> QED
        BY <1>1, <3>2, <3>3, <3>4 DEF UserJob
    <2> QED
      BY <2>1 DEF UserJob, Busy, Rec
  <1>4. UserInv'
    BY <1>3, UserFrame
  <1>5. ASSUME NEW w \in Loops, faults = 0 PROVE NameJob(job[w])'
    <2>1. NameJob(job[w])
      BY <1>5 DEF NameInv
    <2>2. CASE Busy(w) /\ Kind[Rec(w)] = "profile"
      <3>1. PICK u \in Users : u = By[Rec(w)]
        BY <2>2, AtBusy
      <3>3. u = By[job[w].ev.r] /\ By[job'[w].ev.r] = u
        BY <3>1 DEF Rec
      <3>4. Found(By[job[w].ev.r])' = Found(u)
        BY <1>1, <3>3 DEF Found
      <3> QED
        BY <2>1, <3>3, <3>4 DEF NameJob
    <2> QED
      BY <2>2 DEF NameJob, Busy, Rec
  <1>6. ASSUME NEW u \in Users, NEW w \in Loops, Renaming(job[w], u) PROVE Renaming(job[w], u)'
    BY <1>6 DEF Renaming
  <1>7. ASSUME NEW u \in Users, faults = 0
        PROVE  Found(u)' = Wanted(index.details[u])' \/ \E w \in Loops : Renaming(job[w], u)'
    <2>1. CASE Found(u) = Wanted(index.details[u])
      BY <1>1, <2>1 DEF Wanted
    <2> QED
      BY <1>6, <1>7, <2>1 DEF NameInv
  <1> QED
    BY <1>4, <1>5, <1>7 DEF NameInv

(* Profiles and names, through every step.                                 *)
LEMMA UserNext ==
    ASSUME TypeOK, LogOrder, Sequential, RemovesClear, EdgeEnds, UserInv, NameInv, Next, ~overlap'
    PROVE  UserInv' /\ NameInv'
  <1>0. TypeOK' /\ (faults' = 0 => faults = 0) /\ graph \in GraphType /\ index \in IndexType /\ "profile" \in Kinds
    BY NextType, FaultsGrow DEF TypeOK, StoresOK, Kinds
  <1>1. CASE Written
    <2>0. PICK s \in Records : \E c \in Blob(s) \cup {Nothing}, type \in {"put", "del"} :
               (c = Nothing <=> type = "del") /\ UserWrites(s, c, type)
      BY <1>1 DEF Written
    <2>1. PICK c \in Blob(s) \cup {Nothing}, type \in {"put", "del"} :
               (c = Nothing <=> type = "del") /\ UserWrites(s, c, type)
      BY <2>0
    <2>2. Quietly("profile") /\ UNCHANGED <<stores, queue, job, faults, overlap>>
      BY <1>0, <2>1, WriteSeq
    <2>3. \A w \in Loops : Busy(w) /\ Kind[Rec(w)] = "profile" /\ Fresh(w) => Fresh(w)'
      BY <2>1, FreshWritten
    <2>4. UsersKept /\ SameEdges /\ job' = job /\ faults' = faults
      BY <2>2 DEF stores, UsersKept, SameUsers, SameEdges
    <2> QED
      BY <2>2, <2>3, <2>4, UserSame
  <1>2. ASSUME NEW w \in Loops, Take(w) PROVE UserInv' /\ NameInv'
    <2>1. Quietly("profile") /\ UNCHANGED <<stores, inputs, faults, overlap>> /\ \A v \in Loops : ~Busy(v)
      BY <1>0, <1>2, TakeSeq
    <2>2. UsersKept /\ NoProfileJob
      BY <2>1 DEF stores, UsersKept, SameUsers, NoProfileJob
    <2> QED
      BY <1>0, <2>1, <2>2, UserApart
  <1>3. ASSUME NEW p \in Posts, PostArrives(p) PROVE UserInv' /\ NameInv'
    <2>1. UNCHANGED <<inputs, job, faults>> /\ Touches({"posts", "counts"})
      BY <1>3, OutsideKept DEF PostArrives
    <2>2. Quietly("profile")
      BY <1>0, <2>1, SameSeq
    <2>3. UsersKept /\ SameEdges
      BY <2>1 DEF Touches, FollowsKept, TagsKept, MarksKept, SameEdges
    <2>4. \A w \in Loops : Fresh(w) => Fresh(w)'
      BY <2>1 DEF inputs, Fresh, Rec, PutOf
    <2> QED
      BY <2>1, <2>2, <2>3, <2>4, UserSame
  <1>4. CASE Viewed
    <2>1. Quiet /\ UNCHANGED <<graph, disk, inputs, job, faults, overlap>>
      BY <1>4, ViewedQuiet
    <2>2. Quietly("profile") /\ NoProfileJob
      BY <1>0, <2>1, SameSeq DEF Quiet, NoProfileJob
    <2>3. ASSUME NEW u \in Users, ViewUser(u) PROVE UserInv' /\ NameInv'
      <3>1. Fills(u)
        <4>1. index' = FillUser(index, graph, u) /\ graph' = graph
          BY <2>1, <2>3 DEF ViewUser, View
        <4> QED
          BY <4>1 DEF Fills
      <3>2. \A v \in Loops : UserJob(v)' /\ NameJob(job[v])'
        BY <1>0, <2>2, JobsApart
      <3> QED
        BY <2>1, <2>2, <3>1, <3>2, FillsUser DEF inputs
    <2>4. ASSUME UsersKept PROVE UserInv' /\ NameInv'
      BY <1>0, <2>1, <2>2, <2>4, UserApart
    <2>5. (\E u \in Users : ViewFollows(u)) \/ (\E t \in Targets : ViewTags(t)) \/ (\E p \in Posts : ViewCounts(p)) => UsersKept
      BY OutsideKept DEF Touches
    <2> QED
      BY <1>4, <2>3, <2>4, <2>5 DEF Viewed
  <1>5. ASSUME NEW w \in Loops, Busy(w), Handle(w) PROVE UserInv' /\ NameInv'
    <2>1. PICK r \in Records : r = Rec(w)
      BY <1>5, AtBusy
    <2>2. CASE Kind[r] = "profile"
      BY <1>0, <1>5, <2>1, <2>2, UserStep
    <2>3. CASE Kind[r] # "profile"
      <3>1. Quietly("profile") /\ hs' = hs /\ Alone(w)
        BY <1>0, <1>5, <2>1, <2>3, MoveSeq
      <3>2. NoProfileJob
        BY <2>1, <2>3, <3>1 DEF Alone, NoProfileJob
      <3>3. CASE UsersKept
        BY <1>0, <3>1, <3>2, <3>3, UserApart
      <3>4. CASE ~UsersKept
        <4>1. At(w, "undetails") => Clear(By[r])
          BY <2>1 DEF RemovesClear
        <4>2. Defers(w)
          BY <1>5, <2>1, <2>3, <3>4, <4>1, Kept
        <4>3. PutEdge(w) /\ faults' = faults
          <5>1. job[w].pc = "edge" /\ faults' = faults
            BY <4>2 DEF Defers, Requeue
          <5>2. job[w].todo = {}
            BY <1>5, <5>1, AtBusy DEF JobShape, Joins
          <5>3. ~Take(w)
            BY <1>5 DEF Take, Start
          <5> QED
            BY <1>5, <5>1, <5>2, <5>3
            DEF Handle, At, Fetch, SyncRank, Mark, WriteFile, PutProfile, PutUserSearch, PutUserDetails,
                ReadLabels, SyncLabel, Find, LostFollow, CleanUp, Unmark, DeleteEdge, InvalidateCounts,
                EraseFile, DeleteSearch, RemoveUser, StoreEvent
        <4>4. PICK u \in Users : /\ graph' = IngestGraph(graph, index, u)
                                 /\ index' = FillUser(index, graph, u)
          <5>1. \/ IF Mends(r) = {} THEN graph' = graph /\ index' = index
                    ELSE /\ graph' = IngestGraph(graph, index, Mended(r))
                         /\ index' = FillUser(index, graph, Mended(r))
                \/ index' = index /\ Deferrable(r) /\ (graph' = graph \/ graph' = StoreEdge(graph, r))
            BY <2>1, <4>3, PutEdgeStep
          <5>2. CASE index' = index /\ (graph' = graph \/ (Deferrable(r) /\ graph' = StoreEdge(graph, r)))
            <6>1. Deferrable(r) /\ graph' = StoreEdge(graph, r) => graph'.user = graph.user
              <7>1. SUFFICES ASSUME Deferrable(r), graph' = StoreEdge(graph, r) PROVE graph'.user = graph.user
                OBVIOUS
              <7>2. ~Ignored(r) /\ Kind[r] \in {"follow", "tag", "bookmark"}
                BY <7>1 DEF Deferrable
              <7> QED
                BY <1>0, <7>1, <7>2, CreateEdgeGraph
            <6> QED
              BY <3>4, <5>2, <6>1 DEF UsersKept, SameUsers
          <5> QED
            BY <5>1, <5>2, MendedUser
        <4>5. Fills(u)
          <5>1. \A v \in Users : graph'.user[v] =
                   IF v = u /\ FillUser(index, graph, u).details[u] = NoUser THEN FromPubky ELSE graph.user[v]
            BY <1>0, <4>4, IngestUserGraph
          <5> QED
            BY <4>4, <5>1 DEF Fills
        <4>6. \A v \in Loops : UserJob(v)' /\ NameJob(job[v])'
          BY <1>0, <3>1, <3>2, JobsApart
        <4> QED
          BY <3>1, <3>2, <4>3, <4>5, <4>6, FillsUser
      <3> QED
        BY <3>3, <3>4
    <2> QED
      BY <2>2, <2>3
  <1> QED
    BY <1>1, <1>2, <1>3, <1>4, <1>5, NextSplits

(* The inductive invariant: what holds as long as handlers do not overlap. *)
(* LogOrder and Sequential say which events are still to come; each of the *)
(* others relates one kind of record in the stores, up to what is due.     *)
EdgesInv ==
    ~overlap => /\ LogOrder /\ Sequential /\ FollowInv /\ MarkInv /\ FileInv /\ TagInv /\ EdgeEnds
                /\ UserInv /\ NameInv
HandlerInv == TypeOK /\ EdgesInv

(* A user that is removed has no edges.                                    *)
LEMMA UserRemoves ==
    ASSUME TypeOK, UserInv
    PROVE  RemovesClear
  <1>1. SUFFICES ASSUME NEW w \in Loops, At(w, "undetails") PROVE Clear(By[Rec(w)])
    BY DEF RemovesClear
  <1>2. Busy(w) /\ job[w].pc = "undetails"
    BY <1>1 DEF Busy, At
  <1>3. job[w].ev.type = "del" /\ Kind[Rec(w)] = "profile"
    BY <1>2, PcKind DEF DelSteps
  <1>4. job[w].body = NoUser
    BY <1>2, AtBusy DEF JobShape
  <1>5. UserJob(w)
    BY DEF UserInv
  <1> QED
    BY <1>2, <1>3, <1>4, <1>5 DEF UserJob, Rec

(* HandlerInv is kept by every step.                                       *)
LEMMA InvNext ==
    ASSUME HandlerInv, Next
    PROVE  HandlerInv'
  <1>0. TypeOK /\ TypeOK'
    BY NextType DEF HandlerInv
  <1>1. SUFFICES ASSUME ~overlap'
                 PROVE  (/\ LogOrder /\ Sequential /\ FollowInv /\ MarkInv /\ FileInv /\ TagInv /\ EdgeEnds
                         /\ UserInv /\ NameInv)'
    BY <1>0 DEF HandlerInv, EdgesInv
  <1>2. ~overlap
    BY <1>0, <1>1, OverlapStays
  <1>3. /\ LogOrder /\ Sequential /\ FollowInv /\ MarkInv /\ FileInv /\ TagInv /\ EdgeEnds
        /\ UserInv /\ NameInv
    BY <1>2 DEF HandlerInv, EdgesInv
  <1>4. RemovesClear
    BY <1>0, <1>3, UserRemoves
  <1>5. LogOrder' /\ Sequential'
    BY <1>0, <1>1, <1>3, <1>4, Frames
  <1>6. FollowInv' /\ MarkInv' /\ FileInv' /\ TagInv'
    BY <1>0, <1>1, <1>3, <1>4, FollowNext, MarkNext, FileNext, TagNext
  <1>7. EdgeEnds' /\ UserInv' /\ NameInv'
    BY <1>0, <1>1, <1>3, <1>4, EdgeNext, UserNext
  <1> QED
    BY <1>5, <1>6, <1>7

(* HandlerInv is kept when nothing changes.                                *)
LEMMA InvStutter ==
    ASSUME HandlerInv, UNCHANGED vars
    PROVE  HandlerInv'
  <1>0. TypeOK /\ TypeOK' /\ UNCHANGED stores /\ UNCHANGED <<inputs, job, faults, overlap>>
    BY StutterType DEF HandlerInv, vars, stores, inputs
  <1>1. SUFFICES ASSUME ~overlap'
                 PROVE  (/\ LogOrder /\ Sequential /\ FollowInv /\ MarkInv /\ FileInv /\ TagInv /\ EdgeEnds
                         /\ UserInv /\ NameInv)'
    BY <1>0 DEF HandlerInv, EdgesInv
  <1>3. /\ LogOrder /\ Sequential /\ FollowInv /\ MarkInv /\ FileInv /\ TagInv /\ EdgeEnds
        /\ UserInv /\ NameInv
    BY <1>0, <1>1 DEF HandlerInv, EdgesInv
  <1>4. LogOrder' /\ Sequential' /\ \A k \in Kinds : Quietly(k)
    BY <1>0, <1>3, SameSeq
  <1>5. /\ Quietly("follow") /\ Quietly("tag") /\ Quietly("bookmark") /\ Quietly("file") /\ Quietly("profile")
        /\ FollowsKept /\ TagsKept /\ MarksKept /\ FilesKept /\ UsersKept
    BY <1>0, <1>4, OutsideKept DEF Kinds, Touches
  <1>6. FollowInv' /\ MarkInv' /\ FileInv' /\ TagInv'
    BY <1>3, <1>5, FollowFrame, MarkFrame, FileFrame, TagFrame
  <1>7. EdgeEnds' /\ SameEdges
    BY <1>0, <1>3, EdgeSame DEF stores, UsersStay, PostsStay, SameEdges
  <1>8. \A w \in Loops : Fresh(w) => Fresh(w)'
    BY <1>0 DEF inputs, Fresh, Rec, PutOf
  <1>9. UserInv' /\ NameInv'
    BY <1>0, <1>3, <1>5, <1>7, <1>8, UserSame
  <1> QED
    BY <1>4, <1>6, <1>7, <1>9

(* HandlerInv holds at the start.                                          *)
LEMMA InvInit == Init => HandlerInv
  <1> SUFFICES ASSUME Init PROVE HandlerInv
    OBVIOUS
  <1>0. TypeOK
    BY InitType
  <1> DEFINE ps == [u \in Users |-> IF u \in Known THEN FromHomeserver(FirstName) ELSE NoUser]
             ns == {FirstName} \X Known
  <1>1. /\ graph = [EmptyGraph EXCEPT !.user = ps]
        /\ index = [EmptyIndex EXCEPT !.details = ps, !.names = ns, !.ids = Known]
        /\ disk = {} /\ queue = {}
        /\ hs = [r \in Records |-> IF Kind[r] = "profile" /\ By[r] \in Known THEN FirstName ELSE Nothing]
        /\ job = [w \in Loops |-> Idle] /\ log = [w \in LiveLoops |-> <<>>]
    BY DEF Init
  <1>2. /\ graph.user = ps /\ graph.follows = {} /\ graph.tags = {} /\ graph.bookmarks = {} /\ graph.files = {}
        /\ index.details = ps /\ index.names = ns /\ index.marks = {} /\ index.marked = {}
        /\ \A u \in Users : index.followers[u] = {} /\ index.following[u] = {}
        /\ \A t \in Targets, l \in Labels : index.taggers[t][l] = {}
        /\ \A l \in Labels : index.posts[l] = {}
    BY <1>1 DEF EmptyGraph, EmptyIndex
  <1>3. \A w \in Loops : job[w] = Idle /\ job[w].pc = "idle" /\ ~Busy(w)
    BY <1>1, IdleOK DEF Busy
  <1>4. \A w \in LiveLoops : Len(log[w]) = 0 /\ \A i \in 1..Len(log[w]) : FALSE
    BY <1>1
  <1>5. \A r \in Records : Kind[r] # "profile" => hs[r] = Nothing
    BY <1>1
  <1>6. LogOrder
    BY <1>4, Events DEF LogOrder
  <1>7. Sequential
    BY <1>3 DEF Sequential, Loops
  <1>8. FollowInv
    <2>1. \A r \in Of("follow") : FollowSettled(r)
      BY <1>2, <1>5, FollowEnds DEF FollowSettled, Of
    <2> QED
      BY <1>2, <1>3, <2>1 DEF FollowInv, FollowJob
  <1>9. MarkInv
    <2>1. \A r \in Of("bookmark") : MarkSettled(r)
      BY <1>2, <1>5 DEF MarkSettled, Of
    <2> QED
      BY <1>2, <1>3, <2>1 DEF MarkInv, MarkJob
  <1>10. FileInv
    <2>1. \A r \in Of("file") : FileSettled(r)
      BY <1>1, <1>2, <1>5 DEF FileSettled, Of
    <2> QED
      BY <1>1, <1>2, <1>3, <2>1 DEF FileInv, FileJob
  <1>11. TagInv /\ EdgeEnds
    BY <1>2, <1>3 DEF TagInv, TagJob, EdgeEnds
  <1>12. \A u \in Users : ps[u] = IF u \in Known THEN FromHomeserver(FirstName) ELSE NoUser
    OBVIOUS
  <1>13. \A u \in Users : Found(u) = IF u \in Known THEN {FirstName} ELSE {}
    BY <1>2, SocialHandlerAssumption DEF Found
  <1> HIDE DEF ps, ns
  <1>14. \A u \in Users : Found(u) = Wanted(index.details[u])
    BY <1>2, <1>12, <1>13, Bodies, SocialHandlerAssumption DEF Wanted
  <1>15. UserInv
    <2>1. \A u \in Users : UserSettled(u)
      <3>1. ASSUME NEW u \in Users, NEW r \in Profiles(u), hs[r] # Nothing
            PROVE  graph.user[u] = FromHomeserver(hs[r])
        BY <1>1, <1>2, <1>12, <3>1 DEF Profiles
      <3> QED
        BY <1>2, <1>14, <3>1 DEF UserSettled
    <2> QED
      BY <1>2, <1>3, <2>1 DEF UserInv, UserJob
  <1>16. NameInv
    BY <1>3, <1>14 DEF NameInv, NameJob
  <1> QED
    BY <1>0, <1>6, <1>7, <1>8, <1>9, <1>10, <1>11, <1>15, <1>16 DEF HandlerInv, EdgesInv

(* The inductive invariant holds throughout.  As long as handlers do not   *)
(* overlap, whatever write fails and whatever is retried: a record whose   *)
(* event is not due has the same standing on the homeserver, in the graph and *)
(* in the index (nexus-watcher/src/events/handlers); what the index has    *)
(* beyond that is in the graph; and an edge never outlives one of its ends. *)
THEOREM HandlerCorrect == Spec => []HandlerInv
  <1>1. HandlerInv /\ [Next]_vars => HandlerInv'
    BY InvNext, InvStutter
  <1> QED
    BY <1>1, InvInit, PTL DEF Spec

(* Every value of the handlers' state keeps its type, overlapping handlers *)
(* and failing writes included; a handler is only at steps of the kind of its *)
(* record, and of the type of its event.                                   *)
THEOREM TypeCorrect == Spec => []TypeOK
  <1>1. HandlerInv => TypeOK
    BY DEF HandlerInv
  <1> QED
    BY <1>1, HandlerCorrect, PTL

(* Nothing is due in a quiet state, so everything is settled.              *)
LEMMA InvEdges == HandlerInv => EdgesAgree
  <1> SUFFICES ASSUME HandlerInv, Quiet, ~overlap
               PROVE
        /\ \A u \in Users :
             /\ index.followers[u] = Followers(graph, u)
             /\ index.following[u] = Following(graph, u)
             /\ index.details[u] \in {NoUser, graph.user[u]}
             /\ LET found == {n \in Names \cup {Stub, Blank} : <<n, u>> \in index.names}
                    due == IF index.details[u] = NoUser \/ index.details[u].deleted THEN {}
                           ELSE {index.details[u].name}
                IN due \subseteq found /\ (faults = 0 => found = due)
        /\ \A t \in Targets, l \in Labels : index.taggers[t][l] = Taggers(graph, t, l)
        /\ \A l \in Labels : index.posts[l] = {p \in graph.posts : Taggers(graph, p, l) # {}}
        /\ index.marks = graph.bookmarks /\ index.marked = graph.bookmarks
        /\ disk = graph.files
    BY DEF EdgesAgree
  <1>0. /\ TypeOK /\ FollowInv /\ MarkInv /\ FileInv /\ TagInv /\ EdgeEnds /\ UserInv /\ NameInv
        /\ graph \in GraphType /\ index \in IndexType
    BY DEF HandlerInv, EdgesInv, TypeOK, StoresOK
  <1>1. (\A r \in Records : ~Due(r)) /\ \A w \in Loops : ~Busy(w)
    BY <1>0, QuietDue DEF Quiet
  <1>2. ASSUME NEW u \in Users
        PROVE  index.followers[u] = Followers(graph, u) /\ index.following[u] = Following(graph, u)
    <2>1. ASSUME NEW v \in Users, NEW x \in Users, <<v, x>> \in graph.follows
          PROVE  v \in index.followers[x] /\ x \in index.following[v]
      <3>1. PICK r \in Of("follow") : <<v, x>> = Pair(r)
        BY <1>0, <2>1 DEF GraphType
      <3>2. v = By[r] /\ x = To[r]
        BY <3>1 DEF Pair
      <3>3. FollowSettled(r)
        BY <1>0, <1>1 DEF FollowInv, Of
      <3> QED
        BY <2>1, <3>1, <3>2, <3>3 DEF FollowSettled
    <2>2. index.followers[u] \subseteq Users /\ index.following[u] \subseteq Users
      BY <1>0 DEF IndexType, FollowsType
    <2> QED
      BY <1>0, <2>1, <2>2 DEF FollowInv, Followers, Following
  <1>3. ASSUME NEW u \in Users
        PROVE  /\ index.details[u] \in {NoUser, graph.user[u]}
               /\ Wanted(index.details[u]) \subseteq Found(u) /\ (faults = 0 => Found(u) = Wanted(index.details[u]))
    <2>1. UserSettled(u)
      BY <1>0, <1>1 DEF UserInv, Profiles
    <2>2. faults = 0 => Found(u) = Wanted(index.details[u])
      BY <1>0, <1>1 DEF NameInv, Renaming, Busy
    <2> QED
      BY <2>1, <2>2 DEF UserSettled
  <1>4. \A e \in graph.tags : Indexed(e) /\ Listed(e)
    BY <1>0, <1>1 DEF TagInv, DueEdge, Of
  <1>5. ASSUME NEW t \in Targets, NEW l \in Labels PROVE index.taggers[t][l] = Taggers(graph, t, l)
    BY <1>0, <1>4 DEF TagInv, Indexed, Taggers
  <1>6. ASSUME NEW l \in Labels
        PROVE  index.posts[l] = {p \in graph.posts : Taggers(graph, p, l) # {}}
    <2>1. index.posts[l] \subseteq Posts /\ graph.posts \subseteq Posts
      BY <1>0 DEF IndexType, PostsType, GraphType
    <2>2. \A p \in index.posts[l] : p \in graph.posts /\ Taggers(graph, p, l) # {}
      BY <1>0, <2>1 DEF TagInv, EdgeEnds, Taggers
    <2>3. \A p \in graph.posts : Taggers(graph, p, l) # {} => p \in index.posts[l]
      BY <1>4, <2>1 DEF Taggers, Listed
    <2> QED
      BY <2>2, <2>3
  <1>7. index.marks = graph.bookmarks /\ index.marked = graph.bookmarks
    <2>1. ASSUME NEW e \in graph.bookmarks PROVE e \in index.marks /\ e \in index.marked
      <3>1. PICK r \in Of("bookmark") : e = Pair(r)
        BY <1>0 DEF GraphType
      <3>2. MarkSettled(r)
        BY <1>0, <1>1 DEF MarkInv, Of
      <3> QED
        BY <3>1, <3>2 DEF MarkSettled
    <2> QED
      BY <1>0, <2>1 DEF MarkInv
  <1>8. disk = graph.files
    <2>1. ASSUME NEW r \in disk PROVE r \in graph.files
      <3>1. r \in Of("file")
        BY <1>0 DEF TypeOK, StoresOK
      <3>2. FileSettled(r)
        BY <1>0, <1>1, <3>1 DEF FileInv, Of
      <3> QED
        BY <3>2 DEF FileSettled
    <2> QED
      BY <1>0, <2>1 DEF FileInv
  <1> QED
    BY <1>2, <1>3, <1>5, <1>6, <1>7, <1>8 DEF Found, Wanted

(* The same, for what the homeservers hold.                                *)
LEMMA InvHomeserver == HandlerInv => FollowsHomeserver
  <1> SUFFICES ASSUME HandlerInv, Quiet, ~overlap, NEW r \in Records
               PROVE
        /\ Kind[r] \in {"follow", "bookmark", "file"} /\ ~Ignored(r) =>
              (Present(graph, r) <=> hs[r] # Nothing)
        /\ Kind[r] = "tag" /\ ~Ignored(r) /\ Present(graph, r) =>
              \E s \in Records : Kind[s] = "tag" /\ TagEdge(s) = TagEdge(r) /\ hs[s] # Nothing
        /\ Kind[r] = "profile" /\ hs[r] # Nothing =>
              graph.user[By[r]] = FromHomeserver(hs[r])
    BY DEF FollowsHomeserver
  <1>0. /\ TypeOK /\ FollowInv /\ MarkInv /\ FileInv /\ TagInv /\ UserInv
    BY DEF HandlerInv, EdgesInv
  <1>1. \A s \in Records : ~Due(s)
    BY <1>0, QuietDue
  <1>2. CASE Kind[r] = "follow" /\ ~Ignored(r)
    <2>1. r \in Of("follow")
      BY <1>2 DEF Of
    <2>2. FollowSettled(r)
      BY <1>0, <1>1, <2>1 DEF FollowInv
    <2> QED
      BY <1>2, <2>2 DEF FollowSettled, Present, Pair
  <1>3. CASE Kind[r] = "bookmark" /\ ~Ignored(r)
    <2>1. r \in Of("bookmark")
      BY <1>3 DEF Of
    <2>2. MarkSettled(r)
      BY <1>0, <1>1, <2>1 DEF MarkInv
    <2> QED
      BY <1>3, <2>2 DEF MarkSettled, Present, Pair
  <1>4. CASE Kind[r] = "file" /\ ~Ignored(r)
    <2>1. r \in Of("file")
      BY <1>4 DEF Of
    <2>2. FileSettled(r)
      BY <1>0, <1>1, <2>1 DEF FileInv
    <2> QED
      BY <1>4, <2>2 DEF FileSettled, Present
  <1>5. CASE Kind[r] = "tag" /\ Present(graph, r)
    <2>1. TagEdge(r) \in graph.tags
      BY <1>5 DEF Present
    <2>2. Held(TagEdge(r))
      BY <1>0, <1>1, <2>1 DEF TagInv, DueEdge, Of
    <2> QED
      BY <1>5, <2>2 DEF Held, Of
  <1>6. CASE Kind[r] = "profile" /\ hs[r] # Nothing
    <2>1. Profiles(By[r]) = {r} /\ By[r] \in Users
      BY <1>6, OneProfile
    <2>2. UserSettled(By[r])
      BY <1>0, <1>1, <2>1 DEF UserInv
    <2> QED
      BY <1>6, <2>1, <2>2 DEF UserSettled
  <1> QED
    BY <1>2, <1>3, <1>4, <1>5, <1>6

(* Once every event is handled, the sets the index keeps of followers,     *)
(* followees, taggers, tagged posts and bookmarks are those of the graph, a *)
(* cached profile is the graph's, a user is found by the name of the cached *)
(* profile, and the files on disk are those of the graph: for any users and *)
(* records, after any failing writes, retries, deletions and restored      *)
(* profiles, as long as handlers did not overlap.                          *)
THEOREM EdgesAgreeAlways == Spec => []EdgesAgree
  BY HandlerCorrect, InvEdges, PTL

(* Once every event is handled, the graph has what the homeservers have: the *)
(* handlers (sync_put and del of follow.rs, tag.rs, bookmark.rs, file.rs and *)
(* user.rs) lose no record and leave none behind, whatever write failed    *)
(* before and however often an event was retried.                          *)
THEOREM FollowsHomeserverAlways == Spec => []FollowsHomeserver
  BY HandlerCorrect, InvHomeserver, PTL
=============================================================================

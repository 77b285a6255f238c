---------------------------- MODULE TrustFilter ----------------------------
(***************************************************************************)
(* The filter that keeps authors outside the trust ranking out of the      *)
(* sorted sets every viewer shares (nexus-common models/post/trust_filter).*)
(*                                                                         *)
(* Three kinds of process meet in Redis: event handlers that add an        *)
(* author's post to the shared sets through a gate script; the watcher,    *)
(* which stores the switch when it starts and then reconciles              *)
(* (FeaturesConfig::toggle); and the trust job, which reconciles,          *)
(* publishes a new ranking and reconciles again                            *)
(* (SocialGraphStatus::publish).  No lock is held; every script is one     *)
(* atomic step and every other write a step of its own.  Reads next to     *)
(* each other are one step where nothing tells their order.                *)
(*                                                                         *)
(* An author has at most one post, so a set of posts is a set of authors.  *)
(* A sorted set without members does not exist: {} is an absent ranking.   *)
(***************************************************************************)
EXTENDS Naturals, FiniteSets

CONSTANTS
  Authors,       \* numbers, 0 for nobody
  MayOverlap,    \* whether the watcher may start while the job publishes
  MaxToggles,    \* bound: starts of the watcher
  MaxRankings,  \* bound: runs of the trust job
  MaxPosts,      \* bound: posts put or deleted
  MaxBreaks      \* bound: runs cut short

ASSUME TrustAssumption ==
  /\ Authors \subseteq Nat \ {0} /\ MayOverlap \in BOOLEAN
  /\ {MaxToggles, MaxRankings, MaxPosts, MaxBreaks} \subseteq Nat

VARIABLES
  stored,     \* authors whose post is in the graph
  shown,      \* authors whose post is in the shared sets
  trusted,    \* USER_SOCIAL_GRAPH: the published ranking
  applied,    \* TrustFilter:Applied
  on,         \* TrustFilter:On
  filtered,   \* TrustFilter:Filtered
  showing,    \* TrustFilter:Showing
  runs,       \* the reconcile run of the watcher and of the job
  publishing, \* where the job's publish is
  writing,    \* a handler between its graph write and its index write
  atRest,    \* history: a run begun after the last change has ended well
  raced,      \* history: authors whose post was being deleted when a run wrote it
  slipped,    \* history: authors let in by a switch-off no run has acted on yet
  spent       \* how much of each bound is used

trustVars == <<stored, shown, trusted, applied, on, filtered, showing, runs, publishing, writing,
               atRest, raced, slipped, spent>>
switches == <<on, filtered, showing>>

Actors == {"watcher", "job"}
NoWrite == [stage |-> "none", author |-> 0]
IdleRun == [stage |-> "idle", on |-> FALSE, ranking |-> {}, applied |-> {}, hide |-> {}, show |-> {}, page |-> {}]
Least(S) == CHOOSE x \in S : \A y \in S : x <= y

TrustInit ==
  /\ stored \in {Authors, Authors \ {Least(Authors)}} /\ shown = stored /\ trusted = {} /\ applied = {}
  /\ on = FALSE /\ filtered = FALSE /\ showing = FALSE
  /\ runs = [a \in Actors |-> IdleRun] /\ publishing = "none" /\ writing = NoWrite
  /\ atRest = TRUE /\ raced = {} /\ slipped = {}
  /\ spent = [toggles |-> 0, publishes |-> 0, posts |-> 0, breaks |-> 0]

\* HELPERS' admitted: everyone unless the ranking and the switch both exist.
Admitted == IF on /\ trusted # {} THEN trusted ELSE Authors

RunTo(a, stage) == [runs EXCEPT ![a].stage = stage]
RunAt(a, stage) == runs[a].stage = stage

----------------------------------------------------------------------------
\* An event handler puts a post: the graph first, then ADD (or the creating
\* increment, INCR) through the gate.
PutPost(x) ==
  /\ writing = NoWrite /\ x \notin stored /\ spent.posts < MaxPosts
  /\ stored' = stored \cup {x} /\ writing' = [stage |-> "put", author |-> x]
  /\ spent' = [spent EXCEPT !.posts = @ + 1]
  /\ UNCHANGED <<shown, trusted, applied, switches, runs, publishing, atRest, raced, slipped>>

GatedAdd ==
  /\ writing.stage = "put" /\ writing' = NoWrite
  /\ shown' = shown \cup ({writing.author} \cap Admitted)
  /\ slipped' = IF ~on /\ ~showing /\ applied # {} THEN slipped \cup ({writing.author} \ applied) ELSE slipped
  /\ UNCHANGED <<stored, trusted, applied, switches, runs, publishing, atRest, raced, spent>>

\* An event handler deletes a post: out of the shared sets first, then out
\* of the graph.
DelPost(x) ==
  /\ writing = NoWrite /\ x \in stored /\ spent.posts < MaxPosts
  /\ shown' = shown \ {x} /\ writing' = [stage |-> "del", author |-> x]
  /\ spent' = [spent EXCEPT !.posts = @ + 1]
  /\ UNCHANGED <<stored, trusted, applied, switches, runs, publishing, atRest, raced, slipped>>

DelFromGraph ==
  /\ writing.stage = "del" /\ writing' = NoWrite
  /\ stored' = stored \ {writing.author}
  /\ UNCHANGED <<shown, trusted, applied, switches, runs, publishing, atRest, raced, slipped, spent>>

----------------------------------------------------------------------------
\* A run starts by reading the switch.
Reconcile(a, isOn) == [runs EXCEPT ![a] = [IdleRun EXCEPT !.stage = IF isOn THEN "flag" ELSE "look", !.on = isOn]]

\* Switching on without recording that posts may be hidden.
ToggleUnrecorded(to) ==
  /\ RunAt("watcher", "idle") /\ spent.toggles < MaxToggles
  /\ MayOverlap \/ publishing = "none"
  /\ on' = to
  /\ runs' = Reconcile("watcher", to)
  /\ atRest' = FALSE
  /\ spent' = [spent EXCEPT !.toggles = @ + 1]
  /\ UNCHANGED <<stored, shown, trusted, applied, filtered, showing, publishing, writing, raced, slipped>>

\* FeaturesConfig::toggle: switch(to) and the start of the reconcile after it.
Toggle(to) ==
  /\ RunAt("watcher", "idle") /\ spent.toggles < MaxToggles
  /\ MayOverlap \/ publishing = "none"
  /\ on' = to /\ filtered' = (filtered \/ to)
  /\ runs' = Reconcile("watcher", to)
  /\ atRest' = FALSE
  /\ spent' = [spent EXCEPT !.toggles = @ + 1]
  /\ UNCHANGED <<stored, shown, trusted, applied, showing, publishing, writing, raced, slipped>>

\* SocialGraphStatus::publish: reconcile, reindex the ranking, reconcile.
PublishRanking ==
  /\ publishing = "none" /\ spent.publishes < MaxRankings
  /\ MayOverlap \/ RunAt("watcher", "idle")
  /\ publishing' = "first" /\ runs' = Reconcile("job", on)
  /\ spent' = [spent EXCEPT !.publishes = @ + 1]
  /\ UNCHANGED <<stored, shown, trusted, applied, switches, writing, atRest, raced, slipped>>

Reindex(R) ==
  /\ publishing = "reindex" /\ publishing' = "second"
  /\ trusted' = R
  /\ atRest' = FALSE
  /\ UNCHANGED <<stored, shown, applied, switches, runs, writing, raced, slipped, spent>>

ReconcileAgain ==
  /\ publishing = "second" /\ RunAt("job", "idle")
  /\ publishing' = "last" /\ runs' = Reconcile("job", on)
  /\ UNCHANGED <<stored, shown, trusted, applied, switches, writing, atRest, raced, slipped, spent>>

\* A run ends well: the sets are in line again; the job goes on.
Ended(a) ==
  /\ runs' = [runs EXCEPT ![a] = IdleRun]
  /\ publishing' = IF a = "watcher" THEN publishing ELSE IF publishing = "first" THEN "reindex" ELSE "none"
  /\ atRest' = TRUE

----------------------------------------------------------------------------
\* rank_changes: the authors to hide and to show, going from one ranking to another.
RankChanges(from, to) ==
  CASE from = {} /\ to = {} -> [hide |-> {}, show |-> {}]
    [] from = {} /\ to # {} -> [hide |-> stored \ to, show |-> {}]
    [] from # {} /\ to # {} -> [hide |-> from \ to, show |-> to \ from]
    [] OTHER -> [hide |-> {}, show |-> stored \ from]

\* changes_after_showing.
ChangesAfterShowing(from, to) == [hide |-> stored \ to, show |-> IF from = {} THEN {} ELSE to \ from]

\* apply_ranking: the flag, then the three reads, then what they call for.
FlagFiltered(a) ==
  /\ RunAt(a, "flag") /\ filtered' = TRUE
  /\ runs' = RunTo(a, "ranking")
  /\ UNCHANGED <<stored, shown, trusted, applied, on, showing, publishing, writing, atRest, raced, slipped, spent>>

ReadRankings(a) ==
  /\ \/ RunAt(a, "ranking") /\ runs' = [runs EXCEPT ![a].stage = "copy", ![a].ranking = trusted]
     \/ RunAt(a, "copy") /\ runs' = [runs EXCEPT ![a].stage = "decide", ![a].applied = applied]
  /\ UNCHANGED <<stored, shown, trusted, applied, switches, publishing, writing, atRest, raced, slipped, spent>>

\* Trusting the copy although a switch-off was cut short.
ApplyRankingIgnoringShowing(a) ==
  LET r == runs[a] c == RankChanges(r.applied, r.ranking)
  IN /\ RunAt(a, "decide")
     /\ IF r.applied = r.ranking THEN Ended(a)
        ELSE /\ runs' = [runs EXCEPT ![a].stage = "write", ![a].hide = c.hide, ![a].show = c.show]
             /\ UNCHANGED <<publishing, atRest>>
     /\ UNCHANGED <<stored, shown, trusted, applied, switches, writing, raced, slipped, spent>>

ApplyRanking(a) ==
  LET r == runs[a]
      c == IF showing /\ r.ranking # {} THEN ChangesAfterShowing(r.applied, r.ranking)
           ELSE RankChanges(r.applied, r.ranking)
  IN /\ RunAt(a, "decide")
     /\ IF r.applied = r.ranking /\ ~showing THEN Ended(a)
        ELSE /\ runs' = [runs EXCEPT ![a].stage = "write", ![a].hide = c.hide, ![a].show = c.show]
             /\ UNCHANGED <<publishing, atRest>>
     /\ UNCHANGED <<stored, shown, trusted, applied, switches, writing, raced, slipped, spent>>

\* show_all: nothing to do for sets that were never filtered; otherwise the
\* showing record is set and everyone the copy or the live ranking leaves
\* out comes back.
ShowAll(a) ==
  /\ \/ /\ RunAt(a, "look")
        /\ IF ~filtered /\ applied = {} THEN Ended(a)
           ELSE /\ runs' = [runs EXCEPT ![a].stage = "mark", ![a].applied = applied]
                /\ UNCHANGED <<publishing, atRest>>
        /\ UNCHANGED showing
     \/ /\ RunAt(a, "mark") /\ showing' = TRUE
        /\ runs' = RunTo(a, "outside")
        /\ UNCHANGED <<publishing, atRest>>
     \/ /\ RunAt(a, "outside")
        /\ LET r == runs[a]
               kept == IF r.applied # {} /\ trusted # {} THEN r.applied \cap trusted ELSE r.applied \cup trusted
           IN runs' = [runs EXCEPT ![a].stage = "write",
                         ![a].show = IF r.applied \cup trusted = {} THEN {} ELSE stored \ kept]
        /\ UNCHANGED <<showing, publishing, atRest>>
  /\ UNCHANGED <<stored, shown, trusted, applied, on, filtered, writing, raced, slipped, spent>>

\* write_authors, one author at a time, the hides first: an author's posts
\* are read from the graph, then REMOVE or ADD checks the gate as it writes.
Batch(r) == IF r.hide # {} THEN r.hide ELSE r.show

ReadPage(a) ==
  /\ RunAt(a, "write") /\ Batch(runs[a]) # {}
  /\ runs' = [runs EXCEPT ![a].stage = "page", ![a].page = {Least(Batch(runs[a]))} \cap stored]
  /\ UNCHANGED <<stored, shown, trusted, applied, switches, publishing, writing, atRest, raced, slipped, spent>>

WritePage(a) ==
  LET r == runs[a] x == Least(Batch(r))
  IN /\ RunAt(a, "page")
     /\ shown' = IF r.hide # {} THEN shown \ (r.page \ Admitted) ELSE shown \cup (r.page \cap Admitted)
     /\ raced' = raced \cup (r.page \ stored) \cup (IF writing.stage = "del" THEN r.page \cap {writing.author} ELSE {})
     /\ runs' = [runs EXCEPT ![a].stage = "write", ![a].page = {}, ![a].hide = @ \ {x},
                             ![a].show = IF r.hide # {} THEN @ ELSE @ \ {x}]
     /\ UNCHANGED <<stored, trusted, applied, switches, publishing, writing, atRest, slipped, spent>>

\* record_applied, after the last write.
RecordApplied(a) ==
  /\ RunAt(a, "write") /\ Batch(runs[a]) = {}
  /\ applied' = IF runs[a].on THEN runs[a].ranking ELSE {}
  /\ runs' = RunTo(a, "clear")
  /\ UNCHANGED <<stored, shown, trusted, switches, publishing, writing, atRest, raced, slipped, spent>>

\* The run's last call.
ClearRecords(a) ==
  /\ RunAt(a, "clear") /\ showing' = FALSE
  /\ filtered' = IF runs[a].on THEN filtered ELSE FALSE
  /\ Ended(a)
  /\ UNCHANGED <<stored, shown, trusted, applied, on, writing, raced, slipped, spent>>

\* A call fails or the process stops in the middle of a run: the watcher
\* goes on without it, the job gives up its publish.
CutShort(a) ==
  /\ ~RunAt(a, "idle") \/ (a = "job" /\ publishing # "none")
  /\ spent.breaks < MaxBreaks
  /\ runs' = [runs EXCEPT ![a] = IdleRun]
  /\ publishing' = IF a = "job" THEN "none" ELSE publishing
  /\ atRest' = FALSE
  /\ spent' = [spent EXCEPT !.breaks = @ + 1]
  /\ UNCHANGED <<stored, shown, trusted, applied, switches, writing, raced, slipped>>

TrustNext ==
  \/ \E x \in Authors : PutPost(x) \/ DelPost(x)
  \/ GatedAdd \/ DelFromGraph
  \/ \E to \in BOOLEAN : Toggle(to)
  \/ PublishRanking \/ ReconcileAgain
  \/ \E R \in SUBSET Authors : Reindex(R)
  \/ \E a \in Actors :
       \/ FlagFiltered(a) \/ ReadRankings(a) \/ ApplyRanking(a) \/ ShowAll(a)
       \/ ReadPage(a) \/ WritePage(a) \/ RecordApplied(a) \/ ClearRecords(a) \/ CutShort(a)

TrustSpec == TrustInit /\ [][TrustNext]_trustVars

----------------------------------------------------------------------------
\* The posts the sets' state can be told from: none that is being written,
\* none that a run wrote while it was being deleted.
Steady == (stored \cup shown) \ (raced \cup {writing.author})
Quiet == (\A a \in Actors : RunAt(a, "idle")) /\ publishing = "none"

(* Whatever sequence of switches, rankings and posts went before, and at   *)
(* whatever step earlier runs were cut short, a run that ends well leaves  *)
(* in the shared sets exactly the posts of the authors the filter admits,  *)
(* and the applied copy is the ranking in force: index streams and graph   *)
(* streams (is_ranking_applied) hide the same authors (reconcile.rs).      *)
(* Left out: the posts that came in between a switch-off and a run that    *)
(* was cut short before it recorded that it is showing authors again.      *)
SettledSetsAgree ==
  Quiet /\ atRest =>
    /\ shown \cap (Steady \ slipped) = (stored \cap Admitted) \cap (Steady \ slipped)
    /\ applied = IF on THEN trusted ELSE {}

(* Overlapping runs of the watcher and the job converge, as the comment on *)
(* reconcile says: once all have ended well, the shared sets hold exactly  *)
(* the posts of the authors the filter admits.                             *)
OverlapsConverge == Quiet /\ atRest => shown \cap Steady = (stored \cap Admitted) \cap Steady

(* A post the shared sets leave out is always covered by the filtered      *)
(* record, so its author still finds it in their own timeline              *)
(* (may_hide_posts, post/stream.rs), also while a run is under way and     *)
(* after one was cut short.                                                *)
HiddenIsFlagged == (stored \ shown) \cap Steady # {} => filtered
=============================================================================

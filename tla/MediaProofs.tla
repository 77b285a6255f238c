---------------------------- MODULE MediaProofs -----------------------------
(***************************************************************************)
(* Proofs about the media gates for any finite number of requests, any     *)
(* size of the pool and of the queue, any number of restarts, hours and    *)
(* edits of the file: the accounts of the gate balance, what is published  *)
(* is whole, and a file that is killed is remembered.                      *)
(***************************************************************************)
EXTENDS Media, FiniteSetTheorems, SequenceTheorems, TLAPS

Stages == {"none", "ensure", "serve", "check", "unmark", "acquire", "enter", "full", "parked",
           "assigned", "recheck", "spawn", "await"} \cup Answers
Requests == [stage : Stages, route : {"files", "avatar"}, variant : Derived,
             serving : BOOLEAN, permit : BOOLEAN]
Conversions == [stage : {"running", "whole", "empty", "failed", "killed"}, version : Nat,
                variant : Derived]

GateTypeOK ==
  /\ capacity \in Nat /\ free \in Nat /\ queue \in Seq(Clients) /\ waiting \in Int
  /\ requests \in [Clients -> Requests]
  /\ tasks \in [Clients -> {NoTask} \cup Conversions]

FileTypeOK ==
  /\ kind \in {"image", "video", "other"} /\ details \in BOOLEAN
  /\ main \in Nat /\ output \in [Derived -> Nat]
  /\ marker \in {"none", "fresh", "stale"} /\ strays \in [new : Nat, old : Nat]
  /\ editing \in {"none", "writing", "written", "deleting"}
  /\ killed \in Nat /\ excused \in Nat /\ edits \in Nat /\ upsets \in Nat

MediaTypeOK == GateTypeOK /\ FileTypeOK

\* A request holds a permit from the acquire to the spawn, its task after that.
PermitOf(c) ==
  /\ requests[c].permit => requests[c].stage \in {"recheck", "unmark", "spawn"}
  /\ requests[c].stage \in {"recheck", "spawn"} => requests[c].permit
  /\ tasks[c] # NoTask => requests[c].stage \in {"await"} \cup Answers

\* The semaphore's list holds the parked requests, each once.
QueueInv ==
  /\ \A i \in 1 .. Len(queue) : requests[queue[i]].stage = "parked"
  /\ \A c \in Clients : requests[c].stage = "parked" => \E i \in 1 .. Len(queue) : queue[i] = c
  /\ \A i, j \in 1 .. Len(queue) : queue[i] = queue[j] => i = j

Lined == {c \in Clients : requests[c].stage \in {"parked", "assigned"}}

CountsInv ==
  /\ waiting = Cardinality(Counted)
  /\ Cardinality(Lined) <= MaxWaiting
  /\ free + Cardinality(Holding) = capacity
  /\ queue # <<>> => free = 0

GateInv == (\A c \in Clients : PermitOf(c)) /\ QueueInv /\ CountsInv

\* Until the file is edited it is the first version, and so is what is made of it.
FirstVersion ==
  edits = 0 => /\ main = 1 /\ editing = "none"
               /\ \A c \in Clients : tasks[c] # NoTask => tasks[c].version = 1
               /\ \A v \in Derived : output[v] \in {0, 1}
RemovedIsClean ==
  main = 0 => marker = "none" /\ \A v \in Derived : output[v] = 0

\* Conversions that were killed and have not left their marker yet, and those
\* that may still be killed although the marker is there.
Killed == {c \in Clients : tasks[c].stage = "killed"}
MayDie == {c \in Clients : tasks[c].stage = "running" \/ requests[c].stage = "spawn"}

KillsInv ==
  edits = 0 =>
    IF marker = "fresh" THEN killed + Cardinality(MayDie) <= capacity * (1 + excused)
    ELSE killed <= capacity * excused + Cardinality(Killed)

MediaInv == MediaTypeOK /\ GateInv /\ FirstVersion /\ RemovedIsClean /\ KillsInv

-----------------------------------------------------------------------------
(* Sets of requests and their sizes.                                       *)

One(b) == IF b THEN 1 ELSE 0

LEMMA SizeIsNatural ==
    ASSUME NEW S \in SUBSET Clients
    PROVE  IsFiniteSet(S) /\ Cardinality(S) \in Nat
  BY MediaAssumption, FS_Subset, FS_CardinalityType

(* Two sets that differ in one member at most.                             *)
LEMMA OneMemberMoves ==
    ASSUME NEW S \in SUBSET Clients, NEW T \in SUBSET Clients, NEW c \in Clients,
           \A d \in Clients : d # c => (d \in S <=> d \in T)
    PROVE  Cardinality(T) + One(c \in S) = Cardinality(S) + One(c \in T)
  <1> DEFINE R == S \ {c}
  <1>1. R \in SUBSET Clients /\ c \notin R
    OBVIOUS
  <1>2. IsFiniteSet(R) /\ Cardinality(R) \in Nat
    BY <1>1, SizeIsNatural
  <1>3. (c \in S => S = R \cup {c}) /\ (c \notin S => S = R)
    OBVIOUS
  <1>4. (c \in T => T = R \cup {c}) /\ (c \notin T => T = R)
    OBVIOUS
  <1> HIDE DEF R
  <1>5. Cardinality(R \cup {c}) = Cardinality(R) + 1
    BY <1>1, <1>2, FS_AddElement
  <1>6. Cardinality(S) = Cardinality(R) + One(c \in S)
    BY <1>2, <1>3, <1>5 DEF One
  <1>7. Cardinality(T) = Cardinality(R) + One(c \in T)
    BY <1>2, <1>4, <1>5 DEF One
  <1>8. One(c \in S) \in Nat /\ One(c \in T) \in Nat
    BY DEF One
  <1> QED
    BY <1>2, <1>6, <1>7, <1>8

LEMMA SmallerSet ==
    ASSUME NEW S \in SUBSET Clients, NEW T \in SUBSET S
    PROVE  Cardinality(T) <= Cardinality(S)
  BY SizeIsNatural, FS_Subset

LEMMA NoMembers == \A S : S = {} => Cardinality(S) = 0
  BY FS_EmptySet

LEMMA DisjointSets ==
    ASSUME NEW U \in SUBSET Clients, NEW S \in SUBSET U, NEW T \in SUBSET U, S \cap T = {}
    PROVE  Cardinality(S) + Cardinality(T) <= Cardinality(U)
  <1>1. IsFiniteSet(S) /\ IsFiniteSet(T) /\ Cardinality(S) \in Nat /\ Cardinality(T) \in Nat
    BY SizeIsNatural
  <1>2. Cardinality(S \cap T) = 0
    BY NoMembers, Zenon
  <1>3. Cardinality(S \cup T) = Cardinality(S) + Cardinality(T) - Cardinality(S \cap T)
    BY <1>1, FS_Union, Zenon
  <1>4. S \cup T \in SUBSET U
    OBVIOUS
  <1>5. Cardinality(S \cup T) <= Cardinality(U)
    BY <1>4, SmallerSet
  <1> QED
    BY <1>1, <1>2, <1>3, <1>5

-----------------------------------------------------------------------------
(* Types.                                                                  *)

LEMMA NoRequestType == NoRequest \in Requests /\ \A r \in Answers : Answered(r) \in Requests
                         /\ Answered(r).stage = r /\ Answered(r).permit = FALSE
  <1>1. FALSE \in BOOLEAN /\ "small" \in Derived
    BY DEF Derived
  <1>2. NoRequest \in Requests
    BY <1>1 DEF NoRequest, Requests, Stages
  <1>3. ASSUME NEW r \in Answers
        PROVE  Answered(r) \in Requests /\ Answered(r).stage = r /\ Answered(r).permit = FALSE
    BY <1>2 DEF Answered, Requests, Stages, NoRequest
  <1> QED
    BY <1>2, <1>3

Results == {"ok", "unsupported", "failed", "shed", "skipped", "timeout"}

LEMMA ResultFacts ==
    ASSUME MediaTypeOK, NEW c \in Clients, NEW r \in Results
    PROVE  /\ ResultOf(c, r) \in Requests /\ ResultOf(c, r).permit = FALSE
           /\ ResultOf(c, r).stage \in {"ensure", "serve"} \cup Answers
  <1> DEFINE q == requests[c]
  <1>1. q \in Requests
    BY DEF MediaTypeOK, GateTypeOK
  <1>2. CASE r = "ok" /\ ~q.serving
    <2>1. ResultOf(c, r) = [q EXCEPT !.stage = "ensure", !.serving = TRUE, !.permit = FALSE]
      BY <1>2 DEF ResultOf
    <2>2. TRUE \in BOOLEAN /\ FALSE \in BOOLEAN
      OBVIOUS
    <2> QED
      BY <1>1, <2>1, <2>2 DEF Requests, Stages
  <1>3. CASE r = "ok" /\ q.serving
    <2>1. ResultOf(c, r) = [q EXCEPT !.stage = "serve", !.permit = FALSE]
      BY <1>3 DEF ResultOf
    <2> QED
      BY <1>1, <2>1 DEF Requests, Stages
  <1>4. CASE r # "ok"
    <2> DEFINE t == IF IsLoadShed(r) THEN (IF q.serving THEN "shed" ELSE "main") ELSE r
    <2>1. ResultOf(c, r) = Answered(t)
      BY <1>4 DEF ResultOf
    <2>2. t \in Answers
      BY <1>4 DEF Results, IsLoadShed, Answers
    <2> HIDE DEF t
    <2> QED
      BY <2>1, <2>2, NoRequestType
  <1> QED
    BY <1>2, <1>3, <1>4

LEMMA Renewed ==
    ASSUME MediaTypeOK, NEW c \in Clients, NEW r \in Requests, requests' = [requests EXCEPT ![c] = r]
    PROVE  /\ requests' \in [Clients -> Requests] /\ requests'[c] = r
           /\ \A d \in Clients : d # c => requests'[d] = requests[d]
  BY DEF MediaTypeOK, GateTypeOK

LEMMA Reached ==
    ASSUME MediaTypeOK, NEW c \in Clients, NEW s \in Stages, Reaches(c, s)
    PROVE  /\ requests' \in [Clients -> Requests]
           /\ requests'[c].stage = s /\ requests'[c].permit = requests[c].permit
           /\ \A d \in Clients : d # c => requests'[d] = requests[d]
  <1>1. requests[c] \in Requests
    BY DEF MediaTypeOK, GateTypeOK
  <1>2. [requests[c] EXCEPT !.stage = s] \in Requests
    BY <1>1 DEF Requests
  <1>3. requests' = [requests EXCEPT ![c] = [requests[c] EXCEPT !.stage = s]]
    BY DEF Reaches
  <1>4. /\ requests' \in [Clients -> Requests] /\ requests'[c] = [requests[c] EXCEPT !.stage = s]
        /\ \A d \in Clients : d # c => requests'[d] = requests[d]
    BY <1>2, <1>3, Renewed
  <1> QED
    BY <1>1, <1>4 DEF Requests

LEMMA Granted ==
    ASSUME MediaTypeOK, NEW c \in Clients, NEW s \in Stages, NEW p \in BOOLEAN,
           requests' = [requests EXCEPT ![c].stage = s, ![c].permit = p]
    PROVE  /\ requests' \in [Clients -> Requests]
           /\ requests'[c].stage = s /\ requests'[c].permit = p
           /\ \A d \in Clients : d # c => requests'[d] = requests[d]
  <1>1. requests[c] \in Requests
    BY DEF MediaTypeOK, GateTypeOK
  <1>2. [requests[c] EXCEPT !.stage = s, !.permit = p] \in Requests
    BY <1>1 DEF Requests
  <1>3. requests' = [requests EXCEPT ![c] = [requests[c] EXCEPT !.stage = s, !.permit = p]]
    OBVIOUS
  <1>4. /\ requests' \in [Clients -> Requests]
        /\ requests'[c] = [requests[c] EXCEPT !.stage = s, !.permit = p]
        /\ \A d \in Clients : d # c => requests'[d] = requests[d]
    BY <1>2, <1>3, Renewed
  <1> QED
    BY <1>1, <1>4 DEF Requests

(* Another waiter is handed the permit that request c drops.               *)
LEMMA HandedFacts ==
    ASSUME MediaTypeOK, NEW rs \in [Clients -> Requests], NEW q \in Seq(Clients)
    PROVE  /\ Handed(rs, q) \in [Clients -> Requests]
           /\ q = <<>> => Handed(rs, q) = rs
           /\ q # <<>> =>
                /\ q[1] \in Clients
                /\ Handed(rs, q)[q[1]].stage = "assigned"
                /\ Handed(rs, q)[q[1]].permit = rs[q[1]].permit
                /\ \A d \in Clients : d # q[1] => Handed(rs, q)[d] = rs[d]
  <1>1. CASE q = <<>>
    BY <1>1 DEF Handed
  <1>2. CASE q # <<>>
    <2> DEFINE h == q[1]
    <2>1. h \in Clients /\ Head(q) = h
      BY <1>2
    <2>2. Handed(rs, q) = [rs EXCEPT ![h] = [rs[h] EXCEPT !.stage = "assigned"]]
      BY <1>2, <2>1 DEF Handed
    <2> HIDE DEF h
    <2>3. rs[h] \in Requests
      BY <2>1
    <2>4. [rs[h] EXCEPT !.stage = "assigned"] \in Requests
      BY <2>3 DEF Requests, Stages
    <2>5. /\ Handed(rs, q) \in [Clients -> Requests]
          /\ Handed(rs, q)[h] = [rs[h] EXCEPT !.stage = "assigned"]
          /\ \A d \in Clients : d # h => Handed(rs, q)[d] = rs[d]
      BY <2>1, <2>2, <2>4
    <2>6. Handed(rs, q)[h].stage = "assigned" /\ Handed(rs, q)[h].permit = rs[h].permit
      BY <2>3, <2>5 DEF Requests
    <2> QED
      BY <1>2, <2>1, <2>5, <2>6 DEF h
  <1> QED
    BY <1>1, <1>2

(* The list without one of its waiters.                                    *)
LEMMA WithoutFacts ==
    ASSUME NEW q \in Seq(Clients), NEW c \in Clients,
           \A i, j \in 1 .. Len(q) : q[i] = q[j] => i = j
    PROVE  LET w == Without(q, c) IN
           /\ w \in Seq(Clients)
           /\ (\A i \in 1 .. Len(q) : q[i] # c) => w = q
           /\ \A i \in 1 .. Len(w) : w[i] # c /\ \E j \in 1 .. Len(q) : w[i] = q[j]
           /\ \A j \in 1 .. Len(q) : q[j] # c => \E i \in 1 .. Len(w) : w[i] = q[j]
           /\ \A i, j \in 1 .. Len(w) : w[i] = w[j] => i = j
  <1>1. CASE \A i \in 1 .. Len(q) : q[i] # c
    BY <1>1 DEF Without
  <1>2. CASE ~(\A i \in 1 .. Len(q) : q[i] # c)
    <2> DEFINE at == CHOOSE i \in 1 .. Len(q) : q[i] = c
               w == Without(q, c)
    <2>1. at \in 1 .. Len(q) /\ q[at] = c
      BY <1>2
    <2>2. w = [i \in 1 .. Len(q) - 1 |-> IF i < at THEN q[i] ELSE q[i + 1]]
      BY <1>2 DEF Without
    <2> HIDE DEF at, w
    <2>3. Len(q) \in Nat /\ Len(q) >= 1
      BY <2>1
    <2>4. \A i \in 1 .. Len(q) - 1 : (IF i < at THEN q[i] ELSE q[i + 1]) \in Clients
      BY <2>1, <2>3
    <2>5. w \in Seq(Clients) /\ Len(w) = Len(q) - 1
      BY <2>2, <2>3, <2>4
    <2>6. \A i \in 1 .. Len(w) : \E j \in 1 .. Len(q) :
             w[i] = q[j] /\ j # at /\ j = (IF i < at THEN i ELSE i + 1)
      BY <2>1, <2>2, <2>3, <2>5
    <2>7. \A i \in 1 .. Len(w) : w[i] # c /\ \E j \in 1 .. Len(q) : w[i] = q[j]
      BY <2>1, <2>6
    <2>8. ASSUME NEW j \in 1 .. Len(q), q[j] # c PROVE \E i \in 1 .. Len(w) : w[i] = q[j]
      <3>1. CASE j < at
        BY <2>1, <2>2, <2>3, <2>5, <3>1
      <3>2. CASE j > at
        <4>1. j - 1 \in 1 .. Len(w) /\ w[j - 1] = q[j]
          BY <2>1, <2>2, <2>3, <2>5, <3>2
        <4> QED
          BY <4>1
      <3> QED
        BY <2>1, <2>8, <3>1, <3>2
    <2>9. ASSUME NEW i \in 1 .. Len(w), NEW j \in 1 .. Len(w), w[i] = w[j] PROVE i = j
      <3>1. (IF i < at THEN i ELSE i + 1) = (IF j < at THEN j ELSE j + 1)
        BY <2>6, <2>9
      <3> QED
        BY <2>1, <2>3, <2>5, <3>1
    <2> QED
      BY <1>2, <2>5, <2>7, <2>8, <2>9 DEF w
  <1> QED
    BY <1>1, <1>2

-----------------------------------------------------------------------------
(* How a step moves a request.                                             *)

Moves(c) ==
  /\ requests' \in [Clients -> Requests]
  /\ \A d \in Clients : d # c => requests'[d] = requests[d]

(* The steps before the pool is asked.                                     *)
LEMMA RequestMoves ==
    ASSUME MediaTypeOK, NEW c \in Clients, NEW route \in {"files", "avatar"}, NEW v \in Derived,
           Request(c, route, v)
    PROVE  /\ Moves(c) /\ requests[c].stage = "none" /\ requests'[c].permit = FALSE
           /\ requests'[c].stage \in {"ensure"} \cup Answers
  <1> DEFINE new == [stage |-> "ensure", route |-> route, variant |-> v, serving |-> route = "files",
                     permit |-> FALSE]
             r == IF ~details THEN Answered("missing")
                  ELSE IF route = "files" /\ kind # "image" THEN Answered("invalid") ELSE new
  <1>1. requests' = [requests EXCEPT ![c] = r] /\ requests[c].stage = "none"
    BY DEF Request, IsAt
  <1>2. new \in Requests /\ new.stage = "ensure" /\ new.permit = FALSE
    <2>1. FALSE \in BOOLEAN /\ (route = "files") \in BOOLEAN
      OBVIOUS
    <2> QED
      BY <2>1 DEF Requests, Stages
  <1> HIDE DEF new
  <1>3. /\ Answered("missing") \in Requests /\ Answered("missing").stage = "missing"
        /\ Answered("missing").permit = FALSE /\ Answered("invalid").permit = FALSE
        /\ Answered("invalid") \in Requests /\ Answered("invalid").stage = "invalid"
    BY NoRequestType DEF Answers
  <1>4. r \in Requests /\ r.permit = FALSE /\ r.stage \in {"ensure"} \cup Answers
    BY <1>2, <1>3 DEF Answers
  <1> HIDE DEF r
  <1> QED
    BY <1>1, <1>4, Renewed DEF Moves

LEMMA EnsureMoves ==
    ASSUME MediaTypeOK, NEW c \in Clients, EnsureVariant(c)
    PROVE  /\ Moves(c) /\ requests[c].stage = "ensure"
           /\ \/ /\ requests'[c].permit = FALSE
                 /\ requests'[c].stage \in {"ensure", "serve"} \cup Answers
              \/ requests'[c].stage = "check" /\ requests'[c].permit = requests[c].permit
  <1> DEFINE q == requests[c]
             next == [q EXCEPT !.stage = "check"]
             r == IF output[q.variant] # 0 \/ kind = "video" THEN ResultOf(c, "ok")
                  ELSE IF kind = "other" THEN ResultOf(c, "unsupported") ELSE next
  <1>1. requests' = [requests EXCEPT ![c] = r] /\ q.stage = "ensure" /\ q \in Requests
    BY DEF EnsureVariant, IsAt, MediaTypeOK, GateTypeOK
  <1>2. next \in Requests /\ next.stage = "check" /\ next.permit = q.permit
    BY <1>1 DEF Requests, Stages
  <1> HIDE DEF next
  <1>3. r = next \/ r \in {ResultOf(c, "ok"), ResultOf(c, "unsupported")}
    OBVIOUS
  <1> HIDE DEF r
  <1>4. /\ r \in Requests
        /\ \/ r.permit = FALSE /\ r.stage \in {"ensure", "serve"} \cup Answers
           \/ r.stage = "check" /\ r.permit = q.permit
    BY <1>2, <1>3, ResultFacts DEF Results
  <1> QED
    BY <1>1, <1>4, Renewed DEF Moves

LEMMA ServeMoves ==
    ASSUME MediaTypeOK, NEW c \in Clients, Serve(c)
    PROVE  /\ Moves(c) /\ requests[c].stage = "serve" /\ requests'[c].permit = FALSE
           /\ requests'[c].stage \in Answers
  <1> DEFINE r == Answered(IF output[requests[c].variant] # 0 THEN "ok" ELSE "missing")
  <1>1. requests' = [requests EXCEPT ![c] = r] /\ requests[c].stage = "serve"
    BY DEF Serve, IsAt
  <1>2. r \in Requests /\ r.permit = FALSE /\ r.stage \in Answers
    BY NoRequestType DEF Answers
  <1> HIDE DEF r
  <1> QED
    BY <1>1, <1>2, Renewed DEF Moves

LEMMA CheckMoves ==
    ASSUME MediaTypeOK, NEW c \in Clients, CheckMarker(c)
    PROVE  /\ Moves(c) /\ requests[c].stage = "check"
           /\ \/ /\ requests'[c].permit = FALSE
                 /\ requests'[c].stage \in {"ensure", "serve"} \cup Answers
              \/ /\ requests'[c].stage \in {"unmark", "acquire"}
                 /\ requests'[c].permit = requests[c].permit
  <1> DEFINE q == requests[c]
             r == CASE marker = "fresh" -> ResultOf(c, "skipped")
                    [] marker = "stale" -> [q EXCEPT !.stage = "unmark"]
                    [] OTHER -> [q EXCEPT !.stage = "acquire"]
  <1>1. requests' = [requests EXCEPT ![c] = r] /\ q.stage = "check" /\ q \in Requests
    BY DEF CheckMarker, IsAt, MediaTypeOK, GateTypeOK
  <1>2. /\ r \in Requests
        /\ \/ r.permit = FALSE /\ r.stage \in {"ensure", "serve"} \cup Answers
           \/ r.stage \in {"unmark", "acquire"} /\ r.permit = q.permit
    <2>1. CASE marker = "fresh"
      <3>1. r = ResultOf(c, "skipped")
        BY <2>1
      <3> HIDE DEF r
      <3> QED
        BY <3>1, ResultFacts DEF Results
    <2>2. CASE marker = "stale"
      <3>1. r = [q EXCEPT !.stage = "unmark"]
        BY <2>2
      <3> HIDE DEF r
      <3> QED
        BY <1>1, <3>1 DEF Requests, Stages
    <2>3. CASE marker = "none"
      <3>1. r = [q EXCEPT !.stage = "acquire"]
        BY <2>3
      <3> HIDE DEF r
      <3> QED
        BY <1>1, <3>1 DEF Requests, Stages
    <2> QED
      BY <2>1, <2>2, <2>3 DEF MediaTypeOK, FileTypeOK
  <1> HIDE DEF r
  <1> QED
    BY <1>1, <1>2, Renewed DEF Moves

LEMMA UnmarkMoves ==
    ASSUME MediaTypeOK, NEW c \in Clients, Unmark(c)
    PROVE  /\ Moves(c) /\ requests[c].stage = "unmark" /\ requests'[c].permit = requests[c].permit
           /\ requests'[c].stage = IF requests[c].permit THEN "spawn" ELSE "acquire"
  BY Reached DEF Unmark, IsAt, Stages, Moves

(* A result, and the permit it gives back when c held one.                 *)
LEMMA ResultMoves ==
    ASSUME MediaTypeOK, NEW c \in Clients, NEW r \in Results,
           requests' = [requests EXCEPT ![c] = ResultOf(c, r)]
    PROVE  /\ Moves(c) /\ requests'[c].permit = FALSE
           /\ requests'[c].stage \in {"ensure", "serve"} \cup Answers
  BY ResultFacts, Renewed DEF Moves

LEMMA TryAcquireMoves ==
    ASSUME MediaTypeOK, NEW c \in Clients, TryAcquire(c)
    PROVE  /\ Moves(c) /\ requests[c].stage = "acquire"
           /\ \/ /\ free > 0 /\ free' = free - 1
                 /\ requests'[c].stage = "recheck" /\ requests'[c].permit = TRUE
              \/ /\ free = 0 /\ UNCHANGED free
                 /\ \/ /\ requests'[c].permit = FALSE
                       /\ requests'[c].stage \in {"ensure", "serve"} \cup Answers
                    \/ requests'[c].stage = "enter" /\ requests'[c].permit = requests[c].permit
  <1>1. requests[c].stage = "acquire" /\ requests[c] \in Requests
    BY DEF TryAcquire, IsAt, MediaTypeOK, GateTypeOK
  <1>2. CASE free > 0
    <2>1. free' = free - 1 /\ requests' = [requests EXCEPT ![c].stage = "recheck", ![c].permit = TRUE]
      BY <1>2 DEF TryAcquire
    <2>2. "recheck" \in Stages /\ TRUE \in BOOLEAN
      BY DEF Stages
    <2> QED
      BY <1>1, <1>2, <2>1, <2>2, Granted DEF Moves
  <1>3. CASE free = 0
    <2>1. CASE requests[c].route = "avatar" \/ capacity = 0
      <3>1. UNCHANGED free /\ requests' = [requests EXCEPT ![c] = ResultOf(c, "shed")]
        BY <1>3, <2>1 DEF TryAcquire
      <3> QED
        BY <1>1, <1>3, <3>1, ResultMoves DEF Results
    <2>2. CASE ~(requests[c].route = "avatar" \/ capacity = 0)
      <3>1. UNCHANGED free /\ Reaches(c, "enter")
        BY <1>3, <2>2 DEF TryAcquire, Reaches
      <3> QED
        BY <1>1, <1>3, <3>1, Reached DEF Stages, Moves
    <2> QED
      BY <2>1, <2>2
  <1>4. free > 0 \/ free = 0
    BY DEF MediaTypeOK, GateTypeOK
  <1> QED
    BY <1>2, <1>3, <1>4

(* A dropped permit goes to the first waiter or back to the pool.          *)
LEMMA ReturnFacts ==
    ASSUME NEW q \in Seq(Clients), free \in Nat, ReturnPermit(q, free)
    PROVE  /\ free' \in Nat /\ queue' \in Seq(Clients)
           /\ q = <<>> => free' = free + 1 /\ queue' = <<>>
           /\ q # <<>> => free' = free /\ queue' = Tail(q)
  <1>1. CASE q = <<>>
    BY <1>1 DEF ReturnPermit
  <1>2. CASE q # <<>>
    <2>1. free' = free /\ queue' = Tail(q)
      BY <1>2 DEF ReturnPermit
    <2> QED
      BY <1>2, <2>1
  <1> QED
    BY <1>1, <1>2

\* Request c becomes r, tells nobody, and the first waiter of q gets the permit.
Passes(c, r, q) ==
  /\ requests' = Handed([requests EXCEPT ![c] = r], q)
  /\ ReturnPermit(q, free)

LEMMA PassFacts ==
    ASSUME MediaTypeOK, NEW c \in Clients, NEW r \in Requests, NEW q \in Seq(Clients),
           \A i \in 1 .. Len(q) : q[i] # c, Passes(c, r, q)
    PROVE  /\ requests' \in [Clients -> Requests] /\ requests'[c] = r
           /\ free' \in Nat /\ queue' \in Seq(Clients)
           /\ q = <<>> => Moves(c) /\ free' = free + 1 /\ queue' = <<>>
           /\ q # <<>> =>
                /\ q[1] \in Clients /\ q[1] # c
                /\ requests'[q[1]].stage = "assigned" /\ requests'[q[1]].permit = requests[q[1]].permit
                /\ \A d \in Clients : d \notin {c, q[1]} => requests'[d] = requests[d]
                /\ free' = free /\ queue' = Tail(q)
  <1> DEFINE rs == [requests EXCEPT ![c] = r]
  <1>1. /\ rs \in [Clients -> Requests] /\ rs[c] = r
        /\ \A d \in Clients : d # c => rs[d] = requests[d]
    BY DEF MediaTypeOK, GateTypeOK
  <1>2. requests' = Handed(rs, q)
    BY DEF Passes
  <1> HIDE DEF rs
  <1>3. /\ free' \in Nat /\ queue' \in Seq(Clients)
        /\ q = <<>> => free' = free + 1 /\ queue' = <<>>
        /\ q # <<>> => free' = free /\ queue' = Tail(q)
    BY ReturnFacts DEF MediaTypeOK, GateTypeOK, Passes
  <1>4. CASE q = <<>>
    BY <1>1, <1>2, <1>3, <1>4, HandedFacts DEF Moves
  <1>5. CASE q # <<>>
    <2>1. q[1] # c
      BY <1>5
    <2>2. /\ requests' \in [Clients -> Requests] /\ q[1] \in Clients
          /\ requests'[q[1]].stage = "assigned" /\ requests'[q[1]].permit = rs[q[1]].permit
          /\ \A d \in Clients : d # q[1] => requests'[d] = rs[d]
      BY <1>1, <1>2, <1>5, HandedFacts
    <2>3. rs[q[1]] = requests[q[1]]
      BY <1>1, <2>1, <2>2
    <2>4. \A d \in Clients : d \notin {c, q[1]} => requests'[d] = requests[d]
      BY <1>1, <2>2
    <2>5. requests'[c] = r
      BY <1>1, <2>1, <2>2
    <2> QED
      BY <1>3, <1>5, <2>1, <2>2, <2>3, <2>4, <2>5
  <1> QED
    BY <1>4, <1>5

-----------------------------------------------------------------------------
(* The accounts of the gate.                                               *)

LEMMA SetsOfClients ==
    /\ Counted \in SUBSET Clients /\ Holding \in SUBSET Clients /\ Lined \in SUBSET Counted
    /\ Cardinality(Counted) \in Nat /\ Cardinality(Holding) \in Nat /\ Cardinality(Lined) \in Nat
    /\ Cardinality(Lined) <= Cardinality(Counted)
  <1>1. Counted \in SUBSET Clients /\ Holding \in SUBSET Clients /\ Lined \in SUBSET Counted
    BY DEF Counted, Holding, Lined
  <1>2. Lined \in SUBSET Clients
    BY <1>1
  <1> QED
    BY <1>1, <1>2, SizeIsNatural, SmallerSet

LEMMA MaxWaitingType ==
    ASSUME GateTypeOK
    PROVE  MaxWaiting \in Nat
  BY MediaAssumption DEF MaxWaiting, GateTypeOK

LEMMA Balances ==
    \A f, g, h, k, x, y, n \in Nat :
       g + y = f + x /\ k + x = h + y /\ f + h = n => g + k = n
  OBVIOUS

(* A step that moves one request, or its task: what the counters change by *)
(* is what the request adds or takes away.                                 *)
LEMMA OneMoves ==
    ASSUME GateTypeOK, GateInv, GateTypeOK', NEW c \in Clients, UNCHANGED capacity,
           \A d \in Clients : d # c => requests'[d] = requests[d] /\ tasks'[d] = tasks[d],
           PermitOf(c)', QueueInv', queue' # <<>> => free' = 0,
           waiting' + One(c \in Counted) = waiting + One(c \in Counted'),
           free' + One(c \in Holding') = free + One(c \in Holding),
           c \in Lined' => c \in Lined \/ waiting < MaxWaiting
    PROVE  GateInv'
  <1>1. \A d \in Clients : PermitOf(d)'
    BY DEF GateInv, PermitOf
  <1>2. \A d \in Clients : d # c => /\ d \in Counted <=> d \in Counted'
                                    /\ d \in Holding <=> d \in Holding'
                                    /\ d \in Lined <=> d \in Lined'
    BY DEF Counted, Holding, Lined
  <1>3. /\ Counted \in SUBSET Clients /\ Holding \in SUBSET Clients /\ Lined \in SUBSET Clients
        /\ Counted' \in SUBSET Clients /\ Holding' \in SUBSET Clients /\ Lined' \in SUBSET Clients
    BY DEF Counted, Holding, Lined
  <1>4. /\ Cardinality(Counted') + One(c \in Counted) = Cardinality(Counted) + One(c \in Counted')
        /\ Cardinality(Holding') + One(c \in Holding) = Cardinality(Holding) + One(c \in Holding')
        /\ Cardinality(Lined') + One(c \in Lined) = Cardinality(Lined) + One(c \in Lined')
    BY <1>2, <1>3, OneMemberMoves
  <1>5. /\ Cardinality(Counted') \in Nat /\ Cardinality(Holding') \in Nat
        /\ Cardinality(Lined') \in Nat
    BY <1>3, SizeIsNatural
  <1>6. /\ waiting = Cardinality(Counted) /\ Cardinality(Lined) <= MaxWaiting
        /\ free + Cardinality(Holding) = capacity
    BY DEF GateInv, CountsInv
  <1>7. MaxWaiting' = MaxWaiting /\ MaxWaiting \in Nat
    BY MaxWaitingType DEF MaxWaiting
  <1>8. /\ One(c \in Counted) \in Nat /\ One(c \in Counted') \in Nat
        /\ One(c \in Holding) \in Nat /\ One(c \in Holding') \in Nat
    BY DEF One
  <1>9. waiting' = Cardinality(Counted')
    <2>1. waiting \in Int /\ waiting' \in Int /\ Cardinality(Counted) \in Nat
      BY SetsOfClients DEF GateTypeOK
    <2> QED
      BY <1>4, <1>5, <1>6, <1>8, <2>1
  <1>10. free' + Cardinality(Holding') = capacity'
    <2>1. free \in Nat /\ free' \in Nat /\ capacity \in Nat /\ Cardinality(Holding) \in Nat
      BY SetsOfClients DEF GateTypeOK
    <2> DEFINE f == free
               g == free'
               h == Cardinality(Holding)
               k == Cardinality(Holding')
               x == One(c \in Holding)
               y == One(c \in Holding')
    <2>2. /\ f \in Nat /\ g \in Nat /\ h \in Nat /\ k \in Nat /\ x \in Nat /\ y \in Nat
          /\ capacity \in Nat /\ k + x = h + y /\ f + h = capacity
      BY <1>4, <1>5, <1>6, <1>8, <2>1
    <2>3. g + y = f + x
      OBVIOUS
    <2>4. g + k = capacity
      <3> HIDE DEF f, g, h, k, x, y
      <3> QED
        BY <2>2, <2>3, Balances
    <2> QED
      BY <2>4
  <1>11. Cardinality(Lined') <= MaxWaiting'
    <2>1. CASE c \in Lined' /\ c \notin Lined
      <3>1. Cardinality(Lined') = Cardinality(Lined) + 1
        BY <1>4, <1>5, <2>1, SetsOfClients DEF One
      <3> QED
        BY <1>6, <1>7, <2>1, <3>1, SetsOfClients DEF GateTypeOK
    <2>2. CASE ~(c \in Lined' /\ c \notin Lined)
      <3>1. Cardinality(Lined') <= Cardinality(Lined)
        BY <1>4, <1>5, <2>2, SetsOfClients DEF One
      <3> QED
        BY <1>5, <1>6, <1>7, <3>1, SetsOfClients
    <2> QED
      BY <2>1, <2>2
  <1> QED
    BY <1>1, <1>9, <1>10, <1>11 DEF GateInv, CountsInv

(* A step that leaves the list alone and moves nobody in or out of it.     *)
LEMMA QueueStays ==
    ASSUME GateTypeOK, QueueInv, NEW c \in Clients, UNCHANGED queue,
           \A d \in Clients : d # c => requests'[d] = requests[d],
           requests[c].stage # "parked", requests'[c].stage # "parked"
    PROVE  QueueInv'
  <1>1. \A i \in 1 .. Len(queue) : queue[i] \in Clients /\ queue[i] # c
    BY DEF QueueInv, GateTypeOK
  <1>2. \A i \in 1 .. Len(queue) : requests'[queue[i]].stage = "parked"
    BY <1>1 DEF QueueInv
  <1>3. \A d \in Clients : requests'[d].stage = "parked" => \E i \in 1 .. Len(queue) : queue[i] = d
    BY DEF QueueInv
  <1> QED
    BY <1>2, <1>3 DEF QueueInv

(* Request c drops its permit and the first waiter gets it: nothing is     *)
(* free in between.                                                        *)
LEMMA HandsOver ==
    ASSUME GateTypeOK, GateInv, GateTypeOK', NEW c \in Clients, UNCHANGED capacity,
           queue # <<>>, queue[1] # c, queue' = Tail(queue), free' = free,
           requests'[queue[1]].stage = "assigned",
           requests'[queue[1]].permit = requests[queue[1]].permit,
           \A d \in Clients : d \notin {c, queue[1]} => requests'[d] = requests[d],
           \A d \in Clients : d # c => tasks'[d] = tasks[d],
           PermitOf(c)', requests[c].stage # "parked", c \notin Counted', c \in Holding, c \notin Holding',
           waiting' + One(c \in Counted) = waiting
    PROVE  GateInv'
  <1>0. Len(queue) \in Nat /\ Len(queue) >= 1 /\ queue[1] \in Clients
    BY DEF GateTypeOK
  <1>1. PICK h \in Clients : h = queue[1] /\ Len(queue) \in Nat /\ Len(queue) >= 1
    BY <1>0
  <1>2. requests[h].stage = "parked"
    BY <1>1 DEF GateInv, QueueInv
  <1>3. /\ h # c /\ requests'[h].stage = "assigned" /\ requests'[h].permit = requests[h].permit
        /\ \A d \in Clients : d \notin {c, h} => requests'[d] = requests[d] /\ tasks'[d] = tasks[d]
        /\ tasks'[h] = tasks[h]
    BY <1>1
  <1>4. requests[h].permit = FALSE /\ tasks[h] = NoTask
    <2>1. PermitOf(h) /\ requests[h].permit \in BOOLEAN
      BY <1>1 DEF GateInv, GateTypeOK, Requests
    <2> QED
      BY <1>2, <2>1 DEF PermitOf, Answers
  <1>5. \A d \in Clients : PermitOf(d)'
    <2>1. PermitOf(h)'
      BY <1>3, <1>4 DEF PermitOf
    <2>2. ASSUME NEW d \in Clients, d \notin {c, h} PROVE PermitOf(d)'
      BY <1>3, <2>2 DEF GateInv, PermitOf
    <2> QED
      BY <2>1, <2>2
  <1>6. QueueInv'
    <2>1. /\ Len(queue') = Len(queue) - 1 /\ \A i \in 1 .. Len(queue') : queue'[i] = queue[i + 1]
      <3>1. queue \in Seq(Clients) /\ queue # <<>>
        BY DEF GateTypeOK
      <3> QED
        BY <1>1, <3>1, HeadTailProperties
    <2>2. \A i \in 1 .. Len(queue') : queue'[i] \in Clients /\ queue'[i] \notin {c, h}
      <3> SUFFICES ASSUME NEW i \in 1 .. Len(queue')
                   PROVE  queue'[i] \in Clients /\ queue'[i] \notin {c, h}
        OBVIOUS
      <3>1. i + 1 \in 1 .. Len(queue) /\ i + 1 # 1 /\ 1 \in 1 .. Len(queue)
        BY <1>1, <2>1
      <3>2. queue'[i] = queue[i + 1]
        BY <2>1
      <3>3. queue[i + 1] \in Clients
        BY <3>1 DEF GateTypeOK
      <3>4. queue[i + 1] # queue[1]
        BY <3>1 DEF GateInv, QueueInv
      <3>5. requests[queue[i + 1]].stage = "parked"
        BY <3>1 DEF GateInv, QueueInv
      <3> QED
        BY <1>1, <3>2, <3>3, <3>4, <3>5
    <2>3. \A i \in 1 .. Len(queue') : requests'[queue'[i]].stage = "parked"
      <3> SUFFICES ASSUME NEW i \in 1 .. Len(queue') PROVE requests'[queue'[i]].stage = "parked"
        OBVIOUS
      <3>1. requests'[queue'[i]] = requests[queue'[i]]
        BY <1>3, <2>2
      <3>2. i + 1 \in 1 .. Len(queue) /\ queue'[i] = queue[i + 1]
        BY <1>1, <2>1
      <3> QED
        BY <3>1, <3>2 DEF GateInv, QueueInv
    <2>4. ASSUME NEW d \in Clients, requests'[d].stage = "parked"
          PROVE  \E i \in 1 .. Len(queue') : queue'[i] = d
      <3>1. d \notin {c, h}
        BY <1>3, <2>4 DEF Counted
      <3>2. requests[d].stage = "parked"
        BY <1>3, <2>4, <3>1
      <3>3. PICK i \in 1 .. Len(queue) : queue[i] = d
        BY <3>2 DEF GateInv, QueueInv
      <3>4. i # 1
        BY <1>1, <3>1, <3>3
      <3>5. i - 1 \in 1 .. Len(queue') /\ queue'[i - 1] = d
        BY <1>1, <2>1, <3>3, <3>4
      <3> QED
        BY <3>5
    <2>5. \A i, j \in 1 .. Len(queue') : queue'[i] = queue'[j] => i = j
      <3> SUFFICES ASSUME NEW i \in 1 .. Len(queue'), NEW j \in 1 .. Len(queue'), queue'[i] = queue'[j]
                   PROVE  i = j
        OBVIOUS
      <3>1. i + 1 \in 1 .. Len(queue) /\ j + 1 \in 1 .. Len(queue) /\ queue[i + 1] = queue[j + 1]
        BY <1>1, <2>1
      <3>2. i + 1 = j + 1
        BY <3>1 DEF GateInv, QueueInv
      <3> QED
        BY <1>1, <2>1, <3>2
    <2> QED
      BY <2>3, <2>4, <2>5 DEF QueueInv
  <1>7. /\ h \in Counted /\ h \in Counted' /\ h \in Lined /\ h \in Lined'
        /\ h \notin Holding /\ h \in Holding'
    BY <1>1, <1>2, <1>3, <1>4 DEF Counted, Lined, Holding
  <1>8. \A d \in Clients : d # c => (d \in Counted <=> d \in Counted') /\ (d \in Lined <=> d \in Lined')
    BY <1>3, <1>7 DEF Counted, Lined
  <1>9. /\ Counted \in SUBSET Clients /\ Holding \in SUBSET Clients /\ Lined \in SUBSET Clients
        /\ Counted' \in SUBSET Clients /\ Holding' \in SUBSET Clients /\ Lined' \in SUBSET Clients
    BY DEF Counted, Holding, Lined
  <1>10. /\ Cardinality(Counted') + One(c \in Counted) = Cardinality(Counted)
         /\ Cardinality(Lined') + One(c \in Lined) = Cardinality(Lined)
    <2>1. c \notin Lined'
      BY DEF Lined, Counted
    <2>2. /\ Cardinality(Counted') + One(c \in Counted) = Cardinality(Counted) + One(c \in Counted')
          /\ Cardinality(Lined') + One(c \in Lined) = Cardinality(Lined) + One(c \in Lined')
      BY <1>8, <1>9, OneMemberMoves
    <2>3. Cardinality(Counted) \in Nat /\ Cardinality(Lined) \in Nat
      BY <1>9, SizeIsNatural
    <2> QED
      BY <2>1, <2>2, <2>3 DEF One
  <1>11. Cardinality(Holding') = Cardinality(Holding)
    <2> DEFINE M == Holding \ {c}
    <2>1. M \in SUBSET Clients /\ \A d \in Clients : d # c => (d \in Holding <=> d \in M)
      BY <1>9
    <2>2. \A d \in Clients : d # h => (d \in M <=> d \in Holding')
      BY <1>3 DEF Holding
    <2>3. Cardinality(M) + One(c \in Holding) = Cardinality(Holding) + One(c \in M)
      BY <1>9, <2>1, OneMemberMoves
    <2>4. Cardinality(Holding') + One(h \in M) = Cardinality(M) + One(h \in Holding')
      BY <1>1, <1>9, <2>1, <2>2, OneMemberMoves
    <2>5. c \notin M /\ h \notin M
      BY <1>7
    <2> HIDE DEF M
    <2>6. Cardinality(M) \in Nat /\ Cardinality(Holding) \in Nat /\ Cardinality(Holding') \in Nat
      BY <1>9, <2>1, SizeIsNatural
    <2> QED
      BY <1>7, <2>3, <2>4, <2>5, <2>6 DEF One
  <1>12. CountsInv'
    <2>1. /\ waiting = Cardinality(Counted) /\ Cardinality(Lined) <= MaxWaiting
          /\ free + Cardinality(Holding) = capacity /\ free = 0
      BY DEF GateInv, CountsInv
    <2>2. MaxWaiting' = MaxWaiting /\ MaxWaiting \in Nat
      BY MaxWaitingType DEF MaxWaiting
    <2>3. Cardinality(Counted') \in Nat /\ Cardinality(Lined') \in Nat
      BY <1>9, SizeIsNatural
    <2>4. waiting' = Cardinality(Counted') /\ Cardinality(Lined') <= MaxWaiting
      BY <1>10, <2>1, <2>2, <2>3, SetsOfClients DEF One, GateTypeOK
    <2> QED
      BY <1>11, <2>1, <2>2, <2>4 DEF CountsInv
  <1> QED
    BY <1>5, <1>6, <1>12 DEF GateInv

-----------------------------------------------------------------------------
(* Where a request holds nothing.                                          *)
LEMMA HoldsNothing ==
    ASSUME GateTypeOK, GateInv, NEW c \in Clients
    PROVE  /\ requests[c] \in Requests /\ requests[c].stage \in Stages
           /\ requests[c].permit \in BOOLEAN
           /\ requests[c].stage \notin {"await"} \cup Answers => tasks[c] = NoTask
           /\ requests[c].stage \notin {"recheck", "unmark", "spawn"} => requests[c].permit = FALSE
           /\ requests[c].stage \in {"recheck", "spawn"} => requests[c].permit = TRUE
  <1>1. requests[c] \in Requests
    BY DEF GateTypeOK
  <1>2. requests[c].stage \in Stages /\ requests[c].permit \in BOOLEAN
    BY <1>1 DEF Requests
  <1>3. PermitOf(c)
    BY DEF GateInv
  <1> QED
    BY <1>1, <1>2, <1>3 DEF PermitOf

Away == {"none", "ensure", "serve", "check", "unmark", "acquire", "enter", "recheck", "spawn", "await"}
          \cup Answers

(* A request that moves outside the queue and keeps what it holds.         *)
LEMMA PlainMove ==
    ASSUME MediaTypeOK, GateInv, NEW c \in Clients, Moves(c),
           UNCHANGED <<capacity, free, queue, waiting, tasks>>,
           tasks[c] = NoTask \/ requests'[c].stage \in Answers,
           requests[c].stage \in Away, requests'[c].stage \in Away \ {"recheck"},
           requests'[c].permit = requests[c].permit,
           requests'[c].permit = TRUE => requests'[c].stage \in {"unmark", "spawn"},
           requests'[c].stage = "spawn" => requests'[c].permit = TRUE
    PROVE  GateTypeOK' /\ GateInv'
  <1>1. GateTypeOK'
    BY DEF MediaTypeOK, GateTypeOK, Moves
  <1>2. requests'[c].permit \in BOOLEAN
    BY <1>1 DEF GateTypeOK, Requests
  <1>3. PermitOf(c)'
    BY <1>2 DEF PermitOf
  <1>4. QueueInv'
    BY QueueStays DEF MediaTypeOK, GateInv, Moves, Away, Answers
  <1>5. c \notin Counted /\ c \notin Counted' /\ c \notin Lined'
    BY DEF Counted, Lined, Away, Answers
  <1>6. c \in Holding <=> c \in Holding'
    BY DEF Holding, Away, Answers
  <1>7. /\ waiting' + One(c \in Counted) = waiting + One(c \in Counted')
        /\ free' + One(c \in Holding') = free + One(c \in Holding)
    BY <1>5, <1>6 DEF One
  <1>8. queue' # <<>> => free' = 0
    BY DEF GateInv, CountsInv
  <1> QED
    BY <1>1, <1>3, <1>4, <1>5, <1>7, <1>8, OneMoves DEF MediaTypeOK, Moves

LEMMA RequestKeepsGate ==
    ASSUME MediaTypeOK, GateInv, NEW c \in Clients, NEW route \in {"files", "avatar"}, NEW v \in Derived,
           Request(c, route, v)
    PROVE  GateTypeOK' /\ GateInv'
  <1>1. /\ Moves(c) /\ requests[c].stage = "none" /\ requests'[c].permit = FALSE
        /\ requests'[c].stage \in {"ensure"} \cup Answers
    BY RequestMoves
  <1>2. UNCHANGED <<capacity, free, queue, waiting, tasks>>
    BY DEF Request, gateVars
  <1>3. tasks[c] = NoTask /\ requests[c].permit = FALSE
    BY <1>1, HoldsNothing DEF MediaTypeOK, Answers
  <1> QED
    BY <1>1, <1>2, <1>3, PlainMove DEF Away, Answers

LEMMA EarlyStepsKeepGate ==
    ASSUME MediaTypeOK, GateInv, NEW c \in Clients,
           EnsureVariant(c) \/ Serve(c) \/ CheckMarker(c) \/ Unmark(c)
    PROVE  GateTypeOK' /\ GateInv'
  <1>1. UNCHANGED <<capacity, free, queue, waiting, tasks>>
    BY DEF EnsureVariant, Serve, CheckMarker, Unmark, gateVars
  <1>2. CASE EnsureVariant(c) \/ Serve(c) \/ CheckMarker(c)
    <2>1. /\ Moves(c) /\ requests[c].stage \in {"ensure", "serve", "check"}
          /\ requests'[c].permit = FALSE \/ requests'[c].permit = requests[c].permit
          /\ requests'[c].stage \in {"ensure", "serve", "check", "unmark", "acquire"} \cup Answers
      BY <1>2, EnsureMoves, ServeMoves, CheckMoves
    <2>2. tasks[c] = NoTask /\ requests[c].permit = FALSE
      BY <2>1, HoldsNothing DEF MediaTypeOK, Answers
    <2> QED
      BY <1>1, <2>1, <2>2, PlainMove DEF Away, Answers
  <1>3. CASE Unmark(c)
    <2>1. /\ Moves(c) /\ requests[c].stage = "unmark" /\ requests'[c].permit = requests[c].permit
          /\ requests'[c].stage = IF requests[c].permit THEN "spawn" ELSE "acquire"
      BY <1>3, UnmarkMoves
    <2>2. tasks[c] = NoTask /\ requests[c].permit \in BOOLEAN
      BY <2>1, HoldsNothing DEF MediaTypeOK, Answers
    <2> QED
      BY <1>1, <2>1, <2>2, PlainMove DEF Away, Answers
  <1> QED
    BY <1>2, <1>3

(* The fast path.                                                          *)
LEMMA TryAcquireKeepsGate ==
    ASSUME MediaTypeOK, GateInv, NEW c \in Clients, TryAcquire(c)
    PROVE  GateTypeOK' /\ GateInv'
  <1>1. UNCHANGED <<capacity, queue, waiting, tasks>>
    BY DEF TryAcquire
  <1>2. Moves(c) /\ requests[c].stage = "acquire"
    BY TryAcquireMoves
  <1>3. tasks[c] = NoTask /\ requests[c].permit = FALSE
    BY <1>2, HoldsNothing DEF MediaTypeOK, Answers
  <1>4. CASE /\ free > 0 /\ free' = free - 1
             /\ requests'[c].stage = "recheck" /\ requests'[c].permit = TRUE
    <2>1. GateTypeOK'
      BY <1>1, <1>2, <1>4 DEF MediaTypeOK, GateTypeOK, Moves
    <2>2. PermitOf(c)'
      BY <1>1, <1>3, <1>4 DEF PermitOf
    <2>3. QueueInv'
      BY <1>1, <1>2, <1>4, QueueStays DEF MediaTypeOK, GateInv, Moves
    <2>4. queue' # <<>> => free' = 0
      BY <1>1, <1>4 DEF GateInv, CountsInv, MediaTypeOK, GateTypeOK
    <2>5. c \notin Counted /\ c \notin Counted' /\ c \notin Lined' /\ c \notin Holding /\ c \in Holding'
      BY <1>2, <1>3, <1>4 DEF Counted, Lined, Holding
    <2>6. /\ waiting' + One(c \in Counted) = waiting + One(c \in Counted')
          /\ free' + One(c \in Holding') = free + One(c \in Holding)
      BY <1>1, <1>4, <2>5 DEF One, MediaTypeOK, GateTypeOK
    <2> QED
      BY <1>1, <1>2, <2>1, <2>2, <2>3, <2>4, <2>5, <2>6, OneMoves DEF MediaTypeOK, Moves
  <1>5. CASE /\ UNCHANGED free
             /\ \/ /\ requests'[c].permit = FALSE
                   /\ requests'[c].stage \in {"ensure", "serve"} \cup Answers
                \/ requests'[c].stage = "enter" /\ requests'[c].permit = requests[c].permit
    BY <1>1, <1>2, <1>3, <1>5, PlainMove DEF Away, Answers
  <1> QED
    BY <1>4, <1>5, TryAcquireMoves

(* A place at the end of the list.                                         *)
LEMMA ParkedAtTheEnd ==
    ASSUME MediaTypeOK, GateInv, NEW c \in Clients, Moves(c), queue' = Append(queue, c),
           requests[c].stage # "parked", requests'[c].stage = "parked"
    PROVE  QueueInv' /\ queue' \in Seq(Clients)
  <1>1. queue \in Seq(Clients) /\ Len(queue) \in Nat
    BY DEF MediaTypeOK, GateTypeOK
  <1>2. /\ queue' \in Seq(Clients) /\ Len(queue') = Len(queue) + 1 /\ queue'[Len(queue) + 1] = c
        /\ \A i \in 1 .. Len(queue) : queue'[i] = queue[i]
    BY <1>1, AppendProperties
  <1>3. \A i \in 1 .. Len(queue) : queue[i] \in Clients /\ queue[i] # c
                                    /\ requests'[queue[i]].stage = "parked"
    BY <1>1 DEF GateInv, QueueInv, Moves
  <1>4. \A i \in 1 .. Len(queue') : i \in 1 .. Len(queue) \/ i = Len(queue) + 1
    BY <1>1, <1>2
  <1>5. \A i \in 1 .. Len(queue') : requests'[queue'[i]].stage = "parked"
    BY <1>2, <1>3, <1>4
  <1>6. ASSUME NEW d \in Clients, requests'[d].stage = "parked"
        PROVE  \E i \in 1 .. Len(queue') : queue'[i] = d
    <2>1. CASE d = c
      <3>1. Len(queue) + 1 \in 1 .. Len(queue')
        BY <1>1, <1>2
      <3> QED
        BY <1>2, <2>1, <3>1
    <2>2. CASE d # c
      <3>1. requests[d].stage = "parked"
        BY <1>6, <2>2 DEF Moves
      <3>2. PICK i \in 1 .. Len(queue) : queue[i] = d
        BY <3>1 DEF GateInv, QueueInv
      <3>3. i \in 1 .. Len(queue') /\ queue'[i] = d
        BY <1>1, <1>2, <3>2
      <3> QED
        BY <3>3
    <2> QED
      BY <2>1, <2>2
  <1>7. ASSUME NEW i \in 1 .. Len(queue'), NEW j \in 1 .. Len(queue'), queue'[i] = queue'[j]
        PROVE  i = j
    <2>1. CASE i \in 1 .. Len(queue) /\ j \in 1 .. Len(queue)
      <3>1. queue[i] = queue[j]
        BY <1>2, <1>7, <2>1
      <3> QED
        BY <2>1, <3>1 DEF GateInv, QueueInv
    <2>2. CASE i = Len(queue) + 1
      BY <1>2, <1>3, <1>4, <1>7, <2>2
    <2>3. CASE j = Len(queue) + 1
      BY <1>2, <1>3, <1>4, <1>7, <2>3
    <2> QED
      BY <1>4, <2>1, <2>2, <2>3
  <1>8. QueueInv'
    BY <1>5, <1>6, <1>7 DEF QueueInv
  <1> QED
    BY <1>2, <1>8

LEMMA EnterQueueKeepsGate ==
    ASSUME MediaTypeOK, GateInv, NEW c \in Clients, EnterQueue(c)
    PROVE  GateTypeOK' /\ GateInv'
  <1>1. requests[c].stage = "enter" /\ UNCHANGED <<capacity, tasks>> /\ waiting' = waiting + 1
    BY DEF EnterQueue, IsAt
  <1>2. tasks[c] = NoTask /\ requests[c].permit = FALSE
    BY <1>1, HoldsNothing DEF MediaTypeOK, Answers
  <1>3. /\ Moves(c) /\ requests'[c].permit = FALSE
        /\ \/ requests'[c].stage = "full" /\ waiting >= MaxWaiting /\ UNCHANGED <<free, queue>>
           \/ requests'[c].stage = "assigned" /\ ~(waiting >= MaxWaiting) /\ free > 0
                /\ free' = free - 1 /\ UNCHANGED queue
           \/ requests'[c].stage = "parked" /\ ~(waiting >= MaxWaiting) /\ ~(free > 0)
                /\ queue' = Append(queue, c) /\ UNCHANGED free
    <2>1. CASE waiting >= MaxWaiting
      <3>1. Reaches(c, "full") /\ UNCHANGED <<free, queue>>
        BY <2>1 DEF EnterQueue
      <3> QED
        BY <1>2, <2>1, <3>1, Reached DEF Moves, Stages
    <2>2. CASE ~(waiting >= MaxWaiting) /\ free > 0
      <3>1. Reaches(c, "assigned") /\ free' = free - 1 /\ UNCHANGED queue
        BY <2>2 DEF EnterQueue
      <3> QED
        BY <1>2, <2>2, <3>1, Reached DEF Moves, Stages
    <2>3. CASE ~(waiting >= MaxWaiting) /\ ~(free > 0)
      <3>1. Reaches(c, "parked") /\ queue' = Append(queue, c) /\ UNCHANGED free
        BY <2>3 DEF EnterQueue
      <3> QED
        BY <1>2, <2>3, <3>1, Reached DEF Moves, Stages
    <2> QED
      BY <2>1, <2>2, <2>3
  <1>4. free \in Nat /\ waiting \in Int /\ MaxWaiting \in Nat
    BY MaxWaitingType DEF MediaTypeOK, GateTypeOK
  <1>5. QueueInv' /\ queue' \in Seq(Clients)
    <2>1. CASE requests'[c].stage = "parked"
      BY <1>1, <1>3, <2>1, ParkedAtTheEnd
    <2>2. CASE requests'[c].stage # "parked"
      <3>1. UNCHANGED queue
        BY <1>3, <2>2
      <3>2. QueueInv'
        BY <1>1, <1>3, <2>2, <3>1, QueueStays DEF MediaTypeOK, GateInv, Moves
      <3> QED
        BY <3>1, <3>2 DEF MediaTypeOK, GateTypeOK
    <2> QED
      BY <2>1, <2>2
  <1>6. GateTypeOK'
    BY <1>1, <1>3, <1>4, <1>5 DEF MediaTypeOK, GateTypeOK, Moves
  <1>7. PermitOf(c)'
    BY <1>1, <1>2, <1>3 DEF PermitOf
  <1>8. queue' # <<>> => free' = 0
    BY <1>3, <1>4 DEF GateInv, CountsInv
  <1>9. c \notin Counted /\ c \in Counted' /\ c \notin Holding /\ (c \in Lined' => waiting < MaxWaiting)
    BY <1>1, <1>2, <1>3, <1>4 DEF Counted, Holding, Lined
  <1>10. c \in Holding' <=> requests'[c].stage = "assigned"
    BY <1>1, <1>2, <1>3 DEF Holding
  <1>11. /\ waiting' + One(c \in Counted) = waiting + One(c \in Counted')
         /\ free' + One(c \in Holding') = free + One(c \in Holding)
    BY <1>1, <1>3, <1>4, <1>9, <1>10 DEF One
  <1> QED
    BY <1>1, <1>3, <1>6, <1>5, <1>7, <1>8, <1>9, <1>11, OneMoves DEF MediaTypeOK, Moves

(* A request that leaves the queue: turned away, resumed, or out of time.  *)
LEMMA LeavesQueue ==
    ASSUME MediaTypeOK, GateInv, NEW c \in Clients, Moves(c), UNCHANGED <<capacity, free, tasks>>,
           waiting' = waiting - 1, requests[c].stage \in {"full", "parked", "assigned"},
           QueueInv', queue' \in Seq(Clients), queue' # <<>> => queue # <<>>,
           requests'[c].stage \in {"recheck", "ensure", "serve"} \cup Answers,
           requests'[c].permit = TRUE <=> requests[c].stage = "assigned",
           requests'[c].permit = TRUE <=> requests'[c].stage = "recheck"
    PROVE  GateTypeOK' /\ GateInv'
  <1>1. GateTypeOK'
    BY DEF MediaTypeOK, GateTypeOK, Moves
  <1>2. tasks[c] = NoTask /\ requests[c].permit = FALSE
    BY HoldsNothing DEF MediaTypeOK, Answers
  <1>3. requests'[c].permit \in BOOLEAN
    BY <1>1 DEF GateTypeOK, Requests
  <1>4. PermitOf(c)'
    BY <1>2, <1>3 DEF PermitOf, Answers
  <1>5. queue' # <<>> => free' = 0
    BY DEF GateInv, CountsInv
  <1>6. c \in Counted /\ c \notin Counted' /\ c \notin Lined'
    BY DEF Counted, Lined, Answers
  <1>7. c \in Holding <=> c \in Holding'
    BY <1>2, <1>3 DEF Holding, Answers
  <1>8. /\ waiting' + One(c \in Counted) = waiting + One(c \in Counted')
        /\ free' + One(c \in Holding') = free + One(c \in Holding)
    BY <1>6, <1>7 DEF One, MediaTypeOK, GateTypeOK
  <1> QED
    BY <1>1, <1>4, <1>5, <1>6, <1>8, OneMoves DEF MediaTypeOK, Moves

(* A waiter of the list leaves it.                                         *)
LEMMA LeavesList ==
    ASSUME MediaTypeOK, GateInv, NEW c \in Clients, Moves(c), queue' = Without(queue, c),
           requests'[c].stage # "parked"
    PROVE  QueueInv' /\ queue' \in Seq(Clients) /\ (queue' # <<>> => queue # <<>>)
  <1>1. /\ queue' \in Seq(Clients)
        /\ (\A i \in 1 .. Len(queue) : queue[i] # c) => queue' = queue
        /\ \A i \in 1 .. Len(queue') : queue'[i] # c /\ \E j \in 1 .. Len(queue) : queue'[i] = queue[j]
        /\ \A j \in 1 .. Len(queue) : queue[j] # c => \E i \in 1 .. Len(queue') : queue'[i] = queue[j]
        /\ \A i, j \in 1 .. Len(queue') : queue'[i] = queue'[j] => i = j
    <2>1. queue \in Seq(Clients) /\ \A i, j \in 1 .. Len(queue) : queue[i] = queue[j] => i = j
      BY DEF MediaTypeOK, GateTypeOK, GateInv, QueueInv
    <2> DEFINE w == Without(queue, c)
    <2>2. /\ w \in Seq(Clients)
          /\ (\A i \in 1 .. Len(queue) : queue[i] # c) => w = queue
          /\ \A i \in 1 .. Len(w) : w[i] # c /\ \E j \in 1 .. Len(queue) : w[i] = queue[j]
          /\ \A j \in 1 .. Len(queue) : queue[j] # c => \E i \in 1 .. Len(w) : w[i] = queue[j]
          /\ \A i, j \in 1 .. Len(w) : w[i] = w[j] => i = j
      BY <2>1, WithoutFacts
    <2>3. queue' = w
      OBVIOUS
    <2> HIDE DEF w
    <2> QED
      BY <2>2, <2>3
  <1>2. queue \in Seq(Clients)
    BY DEF MediaTypeOK, GateTypeOK
  <1>3. ASSUME NEW i \in 1 .. Len(queue') PROVE requests'[queue'[i]].stage = "parked"
    <2>1. PICK j \in 1 .. Len(queue) : queue'[i] = queue[j]
      BY <1>1
    <2>2. queue[j] \in Clients /\ queue[j] # c
      BY <1>1, <1>2, <2>1
    <2>3. requests[queue[j]].stage = "parked"
      BY DEF GateInv, QueueInv
    <2> QED
      BY <2>1, <2>2, <2>3 DEF Moves
  <1>4. ASSUME NEW d \in Clients, requests'[d].stage = "parked"
        PROVE  \E i \in 1 .. Len(queue') : queue'[i] = d
    <2>1. d # c /\ requests[d].stage = "parked"
      BY <1>4 DEF Moves
    <2>2. PICK j \in 1 .. Len(queue) : queue[j] = d
      BY <2>1 DEF GateInv, QueueInv
    <2> QED
      BY <1>1, <2>1, <2>2
  <1>5. QueueInv'
    BY <1>1, <1>3, <1>4 DEF QueueInv
  <1>6. queue' # <<>> => queue # <<>>
    BY <1>1, <1>2
  <1> QED
    BY <1>1, <1>5, <1>6

LEMMA WaitingStepsKeepGate ==
    ASSUME MediaTypeOK, GateInv, NEW c \in Clients, BackOut(c) \/ Resume(c) \/ WaitedTooLong(c)
    PROVE  GateTypeOK' /\ GateInv'
  <1>1. UNCHANGED <<capacity, free, tasks>> /\ waiting' = waiting - 1
    BY DEF BackOut, Resume, WaitedTooLong
  <1>2. CASE BackOut(c)
    <2>1. requests[c].stage = "full" /\ UNCHANGED queue
      BY <1>2 DEF BackOut, IsAt
    <2>2. /\ Moves(c) /\ requests'[c].permit = FALSE
          /\ requests'[c].stage \in {"ensure", "serve"} \cup Answers
      BY <1>2, ResultMoves DEF BackOut, Results
    <2>3. QueueInv' /\ queue' \in Seq(Clients)
      BY <2>1, <2>2, QueueStays DEF MediaTypeOK, GateTypeOK, GateInv, Moves, Answers
    <2> QED
      BY <1>1, <2>1, <2>2, <2>3, LeavesQueue DEF Answers
  <1>3. CASE Resume(c)
    <2>1. requests[c].stage = "assigned" /\ UNCHANGED queue
      BY <1>3 DEF Resume, IsAt
    <2>2. Moves(c) /\ requests'[c].permit = TRUE /\ requests'[c].stage = "recheck"
      <3>1. "recheck" \in Stages /\ TRUE \in BOOLEAN
        BY DEF Stages
      <3> QED
        BY <1>3, <3>1, Granted DEF Resume, Moves
    <2>3. QueueInv' /\ queue' \in Seq(Clients)
      BY <2>1, <2>2, QueueStays DEF MediaTypeOK, GateTypeOK, GateInv, Moves
    <2> QED
      BY <1>1, <2>1, <2>2, <2>3, LeavesQueue
  <1>4. CASE WaitedTooLong(c)
    <2>1. requests[c].stage = "parked" /\ queue' = Without(queue, c)
      BY <1>4 DEF WaitedTooLong, IsAt
    <2>2. /\ Moves(c) /\ requests'[c].permit = FALSE
          /\ requests'[c].stage \in {"ensure", "serve"} \cup Answers
      BY <1>4, ResultMoves DEF WaitedTooLong, Results
    <2>3. QueueInv' /\ queue' \in Seq(Clients) /\ (queue' # <<>> => queue # <<>>)
      BY <2>1, <2>2, LeavesList DEF Answers
    <2> QED
      BY <1>1, <2>1, <2>2, <2>3, LeavesQueue DEF Answers
  <1> QED
    BY <1>2, <1>3, <1>4

(* Request c, or its task, gives its permit back.                          *)
LEMMA GivesBack ==
    ASSUME MediaTypeOK, GateInv, NEW c \in Clients, NEW r \in Requests, Passes(c, r, queue),
           UNCHANGED capacity, tasks' \in [Clients -> {NoTask} \cup Conversions],
           \A d \in Clients : d # c => tasks'[d] = tasks[d], tasks'[c] = NoTask,
           c \in Holding, r.permit = FALSE, r.stage \in {"ensure", "serve"} \cup Answers,
           requests[c].stage # "parked", waiting' \in Int, waiting' + One(c \in Counted) = waiting
    PROVE  GateTypeOK' /\ GateInv'
  <1>1. queue \in Seq(Clients) /\ \A i \in 1 .. Len(queue) : queue[i] # c
    BY DEF MediaTypeOK, GateTypeOK, GateInv, QueueInv
  <1>2. /\ requests' \in [Clients -> Requests] /\ requests'[c] = r
        /\ free' \in Nat /\ queue' \in Seq(Clients)
        /\ queue = <<>> => Moves(c) /\ free' = free + 1 /\ queue' = <<>>
        /\ queue # <<>> =>
             /\ queue[1] \in Clients /\ queue[1] # c
             /\ requests'[queue[1]].stage = "assigned"
             /\ requests'[queue[1]].permit = requests[queue[1]].permit
             /\ \A d \in Clients : d \notin {c, queue[1]} => requests'[d] = requests[d]
             /\ free' = free /\ queue' = Tail(queue)
    BY <1>1, PassFacts
  <1>3. GateTypeOK'
    BY <1>2 DEF MediaTypeOK, GateTypeOK
  <1>4. PermitOf(c)'
    BY <1>2 DEF PermitOf, Answers
  <1>5. c \notin Counted' /\ c \notin Holding' /\ c \notin Lined'
    BY <1>2 DEF Counted, Holding, Lined, Answers
  <1>6. CASE queue = <<>>
    <2>1. Moves(c) /\ free' = free + 1 /\ queue' = queue
      BY <1>2, <1>6
    <2>2. QueueInv'
      BY <1>2, <2>1, QueueStays DEF MediaTypeOK, GateInv, Moves, Answers
    <2>3. /\ waiting' + One(c \in Counted) = waiting + One(c \in Counted')
          /\ free' + One(c \in Holding') = free + One(c \in Holding)
      <3>1. One(c \in Counted') = 0 /\ One(c \in Holding') = 0 /\ One(c \in Holding) = 1
        BY <1>5 DEF One
      <3>2. waiting \in Int /\ free \in Nat
        BY DEF MediaTypeOK, GateTypeOK
      <3>3. waiting + 0 = waiting /\ free + 1 + 0 = free + 1
        BY <3>2
      <3> QED
        BY <2>1, <3>1, <3>3
    <2> QED
      BY <1>2, <1>3, <1>4, <1>5, <1>6, <2>1, <2>2, <2>3, OneMoves DEF MediaTypeOK, Moves
  <1>7. CASE queue # <<>>
    BY <1>2, <1>3, <1>4, <1>5, <1>7, HandsOver DEF MediaTypeOK
  <1> QED
    BY <1>3, <1>6, <1>7

LEMMA RecheckKeepsGate ==
    ASSUME MediaTypeOK, GateInv, NEW c \in Clients, Recheck(c)
    PROVE  GateTypeOK' /\ GateInv'
  <1>1. requests[c].stage = "recheck" /\ UNCHANGED <<capacity, waiting, tasks>>
    BY DEF Recheck, IsAt
  <1>2. tasks[c] = NoTask /\ requests[c].permit = TRUE
    BY <1>1, HoldsNothing DEF MediaTypeOK, Answers
  <1>3. CASE output[requests[c].variant] # 0 \/ marker = "fresh"
    <2> DEFINE r == ResultOf(c, IF output[requests[c].variant] # 0 THEN "ok" ELSE "skipped")
    <2>1. Passes(c, r, queue)
      BY <1>3 DEF Recheck, Passes
    <2>2. r \in Requests /\ r.permit = FALSE /\ r.stage \in {"ensure", "serve"} \cup Answers
      BY ResultFacts DEF Results
    <2> HIDE DEF r
    <2>3. c \in Holding /\ c \notin Counted
      BY <1>1, <1>2 DEF Holding, Counted
    <2>4. waiting' \in Int /\ waiting' + One(c \in Counted) = waiting
      BY <1>1, <2>3 DEF One, MediaTypeOK, GateTypeOK
    <2>5. tasks' \in [Clients -> {NoTask} \cup Conversions]
      BY <1>1 DEF MediaTypeOK, GateTypeOK
    <2> QED
      BY <1>1, <1>2, <2>1, <2>2, <2>3, <2>4, <2>5, GivesBack
  <1>4. CASE ~(output[requests[c].variant] # 0 \/ marker = "fresh")
    <2>1. Reaches(c, IF marker = "stale" THEN "unmark" ELSE "spawn") /\ UNCHANGED <<free, queue>>
      BY <1>4 DEF Recheck
    <2>2. (IF marker = "stale" THEN "unmark" ELSE "spawn") \in Stages
      BY DEF Stages
    <2>3. /\ Moves(c) /\ requests'[c].permit = TRUE
          /\ requests'[c].stage = IF marker = "stale" THEN "unmark" ELSE "spawn"
      BY <1>2, <2>1, <2>2, Reached DEF Moves
    <2> QED
      BY <1>1, <1>2, <2>1, <2>3, PlainMove DEF Away
  <1> QED
    BY <1>3, <1>4

(* The task takes the permit over.                                         *)
LEMMA SpawnKeepsGate ==
    ASSUME MediaTypeOK, GateInv, NEW c \in Clients, Spawn(c)
    PROVE  /\ GateTypeOK' /\ GateInv'
           /\ Moves(c) /\ requests[c].stage = "spawn" /\ requests'[c].stage = "await"
           /\ tasks[c] = NoTask /\ tasks'[c].stage = "running" /\ tasks'[c].version = main
           /\ \A d \in Clients : d # c => tasks'[d] = tasks[d]
  <1> DEFINE t == [stage |-> "running", version |-> main, variant |-> requests[c].variant]
  <1>1. /\ requests[c].stage = "spawn" /\ UNCHANGED <<capacity, waiting, free, queue>>
        /\ tasks' = [tasks EXCEPT ![c] = t]
    BY DEF Spawn, IsAt, gateVars
  <1>2. tasks[c] = NoTask /\ requests[c].permit = TRUE /\ requests[c] \in Requests
    BY <1>1, HoldsNothing DEF MediaTypeOK, Answers
  <1>3. requests[c].variant \in Derived
    BY <1>2 DEF Requests
  <1>4. t \in Conversions /\ t.stage = "running" /\ t.version = main
    BY <1>3 DEF Conversions, MediaTypeOK, FileTypeOK
  <1>5. t # NoTask
    BY <1>4 DEF NoTask
  <1> HIDE DEF t
  <1>6. /\ tasks' \in [Clients -> {NoTask} \cup Conversions] /\ tasks'[c] = t
        /\ \A d \in Clients : d # c => tasks'[d] = tasks[d]
    BY <1>1, <1>4 DEF MediaTypeOK, GateTypeOK
  <1>7. Moves(c) /\ requests'[c].stage = "await" /\ requests'[c].permit = FALSE
    <2>1. "await" \in Stages /\ FALSE \in BOOLEAN
      BY DEF Stages
    <2>2. requests' = [requests EXCEPT ![c].stage = "await", ![c].permit = FALSE]
      BY DEF Spawn
    <2> QED
      BY <2>1, <2>2, Granted DEF Moves
  <1>8. GateTypeOK'
    BY <1>1, <1>6, <1>7 DEF MediaTypeOK, GateTypeOK, Moves
  <1>9. PermitOf(c)'
    BY <1>7 DEF PermitOf
  <1>10. QueueInv'
    BY <1>1, <1>7, QueueStays DEF MediaTypeOK, GateInv, Moves
  <1>11. /\ c \notin Counted /\ c \notin Counted' /\ c \notin Lined'
         /\ c \in Holding /\ c \in Holding'
    BY <1>1, <1>2, <1>5, <1>6, <1>7 DEF Counted, Lined, Holding
  <1>12. /\ waiting' + One(c \in Counted) = waiting + One(c \in Counted')
         /\ free' + One(c \in Holding') = free + One(c \in Holding)
    BY <1>1, <1>11 DEF One
  <1>13. queue' # <<>> => free' = 0
    BY <1>1 DEF GateInv, CountsInv
  <1>14. GateInv'
    BY <1>1, <1>6, <1>7, <1>8, <1>9, <1>10, <1>11, <1>12, <1>13, OneMoves DEF MediaTypeOK, Moves
  <1> QED
    BY <1>1, <1>2, <1>4, <1>6, <1>7, <1>8, <1>14

Outcomes == {"whole", "empty", "failed", "killed"}

LEMMA ConvertedKeepsGate ==
    ASSUME MediaTypeOK, GateInv, NEW c \in Clients, NEW outcome \in Outcomes, Converted(c, outcome)
    PROVE  /\ GateTypeOK' /\ GateInv'
           /\ tasks[c].stage = "running" /\ tasks'[c].stage = outcome
           /\ tasks'[c].version = tasks[c].version
           /\ \A d \in Clients : d # c => tasks'[d] = tasks[d]
  <1> DEFINE t == [tasks[c] EXCEPT !.stage = outcome]
  <1>1. /\ UNCHANGED <<capacity, waiting, free, queue, requests>> /\ tasks[c].stage = "running"
        /\ tasks' = [tasks EXCEPT ![c] = t]
    BY DEF Converted, gateVars
  <1>2. tasks[c] # NoTask /\ tasks[c] \in Conversions
    <2>1. tasks[c] \in {NoTask} \cup Conversions
      BY DEF MediaTypeOK, GateTypeOK
    <2>2. NoTask.stage = "none"
      BY DEF NoTask
    <2> QED
      BY <1>1, <2>1, <2>2
  <1>3. t \in Conversions /\ t.stage = outcome /\ t.version = tasks[c].version
    BY <1>2 DEF Conversions, Outcomes
  <1>4. t # NoTask
    BY <1>3 DEF NoTask, Outcomes
  <1> HIDE DEF t
  <1>5. /\ tasks' \in [Clients -> {NoTask} \cup Conversions] /\ tasks'[c] = t
        /\ \A d \in Clients : d # c => tasks'[d] = tasks[d]
    BY <1>1, <1>3 DEF MediaTypeOK, GateTypeOK
  <1>6. GateTypeOK'
    BY <1>1, <1>5 DEF MediaTypeOK, GateTypeOK
  <1>7. PermitOf(c) /\ PermitOf(c)'
    <2>1. PermitOf(c)
      BY DEF GateInv
    <2> QED
      BY <1>1, <1>2, <2>1 DEF PermitOf
  <1>8. requests[c].stage \in {"await"} \cup Answers
    BY <1>2, <1>7 DEF PermitOf
  <1>9. QueueInv'
    BY <1>1 DEF QueueInv, GateInv
  <1>10. /\ c \notin Counted /\ c \notin Counted' /\ c \notin Lined'
         /\ c \in Holding /\ c \in Holding'
    BY <1>1, <1>2, <1>4, <1>5, <1>8 DEF Counted, Lined, Holding, Answers
  <1>11. /\ waiting' + One(c \in Counted) = waiting + One(c \in Counted')
         /\ free' + One(c \in Holding') = free + One(c \in Holding)
    BY <1>1, <1>10 DEF One
  <1>12. queue' # <<>> => free' = 0
    BY <1>1 DEF GateInv, CountsInv
  <1>13. GateInv'
    BY <1>1, <1>5, <1>6, <1>7, <1>9, <1>10, <1>11, <1>12, OneMoves DEF MediaTypeOK
  <1> QED
    BY <1>1, <1>3, <1>5, <1>6, <1>13

(* A finished task.                                                        *)
LEMMA FinishTaskKeepsGate ==
    ASSUME MediaTypeOK, GateInv, NEW c \in Clients, FinishTask(c)
    PROVE  /\ GateTypeOK' /\ GateInv'
           /\ tasks[c] \in Conversions /\ tasks[c].stage \in Outcomes
           /\ tasks'[c] = NoTask /\ \A d \in Clients : d # c => tasks'[d] = tasks[d]
           /\ \A d \in Clients : requests'[d].stage = "spawn" => requests[d].stage = "spawn"
  <1> DEFINE t == tasks[c].stage
             a == CASE t = "whole" /\ main # 0 -> "ok" [] t = "killed" -> "timeout" [] OTHER -> "failed"
             r == IF IsAt(c, "await") THEN ResultOf(c, a) ELSE requests[c]
  <1>1. /\ t \in Outcomes /\ UNCHANGED <<capacity, waiting>> /\ tasks' = [tasks EXCEPT ![c] = NoTask]
        /\ ReturnPermit(queue, free)
        /\ requests' = Handed(IF IsAt(c, "await") THEN [requests EXCEPT ![c] = ResultOf(c, a)] ELSE requests,
                              queue)
    BY DEF FinishTask, Outcomes
  <1>2. tasks[c] # NoTask /\ tasks[c] \in Conversions
    <2>1. tasks[c] \in {NoTask} \cup Conversions
      BY DEF MediaTypeOK, GateTypeOK
    <2>2. NoTask.stage = "none"
      BY DEF NoTask
    <2> QED
      BY <1>1, <2>1, <2>2 DEF Outcomes
  <1>3. a \in Results
    <2>1. CASE t = "whole" /\ main # 0
      BY <2>1 DEF Results
    <2>2. CASE ~(t = "whole" /\ main # 0) /\ t = "killed"
      BY <2>2 DEF Results
    <2>3. CASE ~(t = "whole" /\ main # 0) /\ t # "killed"
      BY <2>3 DEF Results
    <2> QED
      BY <2>1, <2>2, <2>3
  <1> HIDE DEF a
  <1>4. requests[c].stage \in {"await"} \cup Answers
    <2>1. PermitOf(c)
      BY DEF GateInv
    <2> QED
      BY <1>2, <2>1 DEF PermitOf
  <1>5. requests[c] \in Requests /\ requests[c].permit = FALSE
    BY <1>4, HoldsNothing DEF MediaTypeOK, Answers
  <1>6. r \in Requests /\ r.permit = FALSE /\ r.stage \in {"ensure", "serve"} \cup Answers
    <2>1. CASE IsAt(c, "await")
      BY <1>3, <2>1, ResultFacts
    <2>2. CASE ~IsAt(c, "await")
      BY <1>4, <1>5, <2>2 DEF IsAt
    <2> QED
      BY <2>1, <2>2
  <1>7. Passes(c, r, queue)
    <2>1. requests = [requests EXCEPT ![c] = requests[c]]
      BY DEF MediaTypeOK, GateTypeOK
    <2>2. CASE IsAt(c, "await")
      BY <1>1, <2>2 DEF Passes
    <2>3. CASE ~IsAt(c, "await")
      <3>1. r = requests[c] /\ requests' = Handed(requests, queue)
        BY <1>1, <2>3
      <3> HIDE DEF r
      <3> QED
        BY <1>1, <2>1, <3>1 DEF Passes
    <2> QED
      BY <2>2, <2>3
  <1> HIDE DEF r
  <1>8. /\ tasks' \in [Clients -> {NoTask} \cup Conversions] /\ tasks'[c] = NoTask
        /\ \A d \in Clients : d # c => tasks'[d] = tasks[d]
    BY <1>1 DEF MediaTypeOK, GateTypeOK
  <1>9. c \in Holding /\ c \notin Counted /\ requests[c].stage # "parked"
    BY <1>2, <1>4 DEF Holding, Counted, Answers
  <1>10. waiting' \in Int /\ waiting' + One(c \in Counted) = waiting
    BY <1>1, <1>9 DEF One, MediaTypeOK, GateTypeOK
  <1>11. GateTypeOK' /\ GateInv'
    BY <1>1, <1>6, <1>7, <1>8, <1>9, <1>10, GivesBack
  <1>12. \A d \in Clients : requests'[d].stage = "spawn" => requests[d].stage = "spawn"
    <2>1. queue \in Seq(Clients) /\ \A i \in 1 .. Len(queue) : queue[i] # c
      BY <1>9 DEF MediaTypeOK, GateTypeOK, GateInv, QueueInv
    <2>2. /\ requests'[c] = r
          /\ queue = <<>> => Moves(c)
          /\ queue # <<>> => /\ requests'[queue[1]].stage = "assigned"
                             /\ \A d \in Clients : d \notin {c, queue[1]} => requests'[d] = requests[d]
      BY <1>6, <1>7, <2>1, PassFacts
    <2> QED
      BY <1>6, <2>2 DEF Moves, Answers
  <1> QED
    BY <1>1, <1>2, <1>8, <1>11, <1>12

(* A dropped future.                                                       *)
LEMMA CancelKeepsGate ==
    ASSUME MediaTypeOK, GateInv, NEW c \in Clients, Cancel(c)
    PROVE  /\ GateTypeOK' /\ GateInv' /\ UNCHANGED tasks
           /\ \A d \in Clients : requests'[d].stage = "spawn" => requests[d].stage = "spawn"
  <1> DEFINE r == Answered("gone")
             rest == Without(queue, c)
             s == requests[c].stage
             In == {"parked", "assigned"}
  <1>1. /\ s \in {"ensure", "serve", "check", "unmark", "acquire", "parked", "assigned", "recheck", "await"}
        /\ waiting' = waiting - (IF s \in In THEN 1 ELSE 0)
        /\ UNCHANGED <<capacity, tasks>>
        /\ IF requests[c].permit \/ IsAt(c, "assigned")
           THEN ReturnPermit(rest, free) /\ requests' = Handed([requests EXCEPT ![c] = r], rest)
           ELSE free' = free /\ queue' = rest /\ requests' = [requests EXCEPT ![c] = r]
    BY DEF Cancel
  <1>2. r \in Requests /\ r.permit = FALSE /\ r.stage = "gone"
    BY NoRequestType DEF Answers
  <1> HIDE DEF r
  <1>3. /\ queue \in Seq(Clients)
        /\ s # "parked" => \A i \in 1 .. Len(queue) : queue[i] # c
        /\ (\A i \in 1 .. Len(queue) : queue[i] # c) => rest = queue
    <2>1. queue \in Seq(Clients) /\ \A i, j \in 1 .. Len(queue) : queue[i] = queue[j] => i = j
      BY DEF MediaTypeOK, GateTypeOK, GateInv, QueueInv
    <2>2. s # "parked" => \A i \in 1 .. Len(queue) : queue[i] # c
      BY DEF GateInv, QueueInv
    <2> QED
      BY <2>1, <2>2, WithoutFacts
  <1>4. /\ requests[c].permit \in BOOLEAN /\ waiting \in Int
        /\ s \notin {"await"} \cup Answers => tasks[c] = NoTask
        /\ s \notin {"recheck", "unmark", "spawn"} => requests[c].permit = FALSE
        /\ s \in {"recheck", "spawn"} => requests[c].permit = TRUE
    BY HoldsNothing DEF MediaTypeOK, GateTypeOK
  <1> HIDE DEF s, rest
  <1>5. CASE requests[c].permit \/ IsAt(c, "assigned")
    <2>1. s \in {"assigned", "recheck", "unmark"}
      BY <1>1, <1>4, <1>5 DEF IsAt, s
    <2>2. Passes(c, r, queue) /\ tasks[c] = NoTask
      BY <1>1, <1>3, <1>4, <1>5, <2>1 DEF Passes, Answers
    <2>3. c \in Holding /\ (c \in Counted <=> s = "assigned")
      BY <1>5, <2>1 DEF Holding, Counted, IsAt, s
    <2>4. waiting' \in Int /\ waiting' + One(c \in Counted) = waiting
      BY <1>1, <1>4, <2>1, <2>3 DEF One
    <2>5. tasks' \in [Clients -> {NoTask} \cup Conversions] /\ tasks'[c] = NoTask
      BY <1>1, <2>2 DEF MediaTypeOK, GateTypeOK
    <2>6. r.stage \in {"ensure", "serve"} \cup Answers /\ requests[c].stage # "parked"
      BY <1>2, <2>1 DEF Answers, s
    <2>7. GateTypeOK' /\ GateInv'
      BY <1>1, <1>2, <2>2, <2>3, <2>4, <2>5, <2>6, GivesBack
    <2>8. /\ requests'[c] = r
          /\ queue = <<>> => Moves(c)
          /\ queue # <<>> => /\ requests'[queue[1]].stage = "assigned"
                             /\ \A d \in Clients : d \notin {c, queue[1]} => requests'[d] = requests[d]
      BY <1>2, <1>3, <2>1, <2>2, PassFacts
    <2>9. \A d \in Clients : requests'[d].stage = "spawn" => requests[d].stage = "spawn"
      BY <1>2, <2>8 DEF Moves
    <2> QED
      BY <1>1, <2>7, <2>9
  <1>6. CASE ~(requests[c].permit \/ IsAt(c, "assigned"))
    <2>1. free' = free /\ queue' = rest /\ requests' = [requests EXCEPT ![c] = r]
      BY <1>1, <1>6
    <2>2. Moves(c) /\ requests'[c] = r
      BY <1>2, <2>1, Renewed DEF Moves
    <2>3. requests[c].permit = FALSE /\ s \notin {"assigned", "recheck"}
      BY <1>4, <1>6 DEF IsAt, s
    <2>4. \A d \in Clients : requests'[d].stage = "spawn" => requests[d].stage = "spawn"
      BY <1>2, <2>2 DEF Moves
    <2>5. CASE s = "parked"
      <3>1. waiting' = waiting - 1 /\ requests[c].stage \in {"full", "parked", "assigned"}
        BY <1>1, <2>5 DEF s
      <3>2. QueueInv' /\ queue' \in Seq(Clients) /\ (queue' # <<>> => queue # <<>>)
        BY <1>2, <2>1, <2>2, LeavesList DEF rest
      <3>3. GateTypeOK' /\ GateInv'
        BY <1>1, <1>2, <2>1, <2>2, <2>5, <3>1, <3>2, LeavesQueue DEF Answers, s
      <3> QED
        BY <1>1, <2>4, <3>3
    <2>6. CASE s # "parked"
      <3>1. queue' = queue /\ waiting' = waiting
        BY <1>1, <1>3, <1>4, <2>1, <2>3, <2>6
      <3>2. s \in Away
        BY <1>1, <2>3, <2>6 DEF Away
      <3>3. GateTypeOK' /\ GateInv'
        BY <1>1, <1>2, <2>1, <2>2, <2>3, <3>1, <3>2, PlainMove DEF Away, Answers, s
      <3> QED
        BY <1>1, <2>4, <3>3
    <2> QED
      BY <2>5, <2>6
  <1> QED
    BY <1>5, <1>6

(* A restart starts with an empty gate.                                    *)
LEMMA RestartKeepsGate ==
    ASSUME MediaTypeOK, GateInv, RestartServer
    PROVE  /\ GateTypeOK' /\ GateInv'
           /\ \A c \in Clients : tasks'[c] = NoTask /\ requests'[c].stage \in Answers \cup {"none"}
  <1>1. /\ tasks' = [c \in Clients |-> NoTask] /\ free' = capacity /\ queue' = <<>> /\ waiting' = 0
        /\ requests' = [c \in Clients |-> IF requests[c].stage \in Answers \cup {"none"} THEN requests[c]
                                          ELSE Answered("gone")]
        /\ UNCHANGED capacity
    BY DEF RestartServer
  <1>2. /\ tasks' \in [Clients -> {NoTask} \cup Conversions] /\ \A c \in Clients : tasks'[c] = NoTask
    BY <1>1
  <1>3. Answered("gone") \in Requests /\ Answered("gone").stage = "gone" /\ Answered("gone").permit = FALSE
    BY NoRequestType DEF Answers
  <1>4. \A c \in Clients : /\ requests'[c] \in Requests /\ requests'[c].permit = FALSE
                           /\ requests'[c].stage \in Answers \cup {"none"}
    <2> SUFFICES ASSUME NEW c \in Clients
                 PROVE  /\ requests'[c] \in Requests /\ requests'[c].permit = FALSE
                        /\ requests'[c].stage \in Answers \cup {"none"}
      OBVIOUS
    <2>1. CASE requests[c].stage \in Answers \cup {"none"}
      <3>1. requests'[c] = requests[c]
        BY <1>1, <2>1
      <3>2. requests[c] \in Requests /\ requests[c].permit = FALSE
        BY <2>1, HoldsNothing DEF MediaTypeOK, Answers
      <3> QED
        BY <2>1, <3>1, <3>2
    <2>2. CASE requests[c].stage \notin Answers \cup {"none"}
      <3>1. requests'[c] = Answered("gone")
        BY <1>1, <2>2
      <3> QED
        BY <1>3, <3>1 DEF Answers
    <2> QED
      BY <2>1, <2>2
  <1>5. requests' \in [Clients -> Requests]
    <2>1. \A c \in Clients : (IF requests[c].stage \in Answers \cup {"none"} THEN requests[c]
                              ELSE Answered("gone")) \in Requests
      BY <1>3 DEF MediaTypeOK, GateTypeOK
    <2> QED
      BY <1>1, <2>1
  <1>6. GateTypeOK'
    <2>1. <<>> \in Seq(Clients) /\ 0 \in Int
      OBVIOUS
    <2> QED
      BY <1>1, <1>2, <1>5, <2>1 DEF MediaTypeOK, GateTypeOK
  <1>7. \A c \in Clients : PermitOf(c)'
    BY <1>2, <1>4 DEF PermitOf, Answers
  <1>8. QueueInv'
    <2>1. Len(queue') = 0 /\ 1 .. 0 = {}
      BY <1>1
    <2>2. \A c \in Clients : requests'[c].stage # "parked"
      BY <1>4 DEF Answers
    <2> QED
      BY <2>1, <2>2 DEF QueueInv
  <1>9. Counted' = {} /\ Holding' = {} /\ Lined' = {}
    BY <1>2, <1>4 DEF Counted, Holding, Lined, Answers
  <1>10. CountsInv'
    <2>1. Cardinality(Counted') = 0 /\ Cardinality(Holding') = 0 /\ Cardinality(Lined') = 0
      BY <1>9, NoMembers
    <2>2. MaxWaiting' \in Nat
      BY MaxWaitingType, <1>1 DEF MaxWaiting, MediaTypeOK
    <2>3. capacity \in Nat
      BY DEF MediaTypeOK, GateTypeOK
    <2>4. free' + 0 = capacity' /\ 0 <= MaxWaiting'
      BY <1>1, <2>2, <2>3
    <2> QED
      BY <1>1, <2>1, <2>4 DEF CountsInv
  <1> QED
    BY <1>2, <1>4, <1>6, <1>7, <1>8, <1>10 DEF GateInv

(* Steps of the file, of time, and no step.                                *)
LEMMA RestKeepsGate ==
    ASSUME MediaTypeOK, GateInv, UNCHANGED <<capacity, free, queue, waiting, requests, tasks>>
    PROVE  GateTypeOK' /\ GateInv'
  <1>1. GateTypeOK'
    BY DEF MediaTypeOK, GateTypeOK
  <1>2. \A c \in Clients : PermitOf(c)'
    BY DEF GateInv, PermitOf
  <1>3. QueueInv'
    BY DEF GateInv, QueueInv
  <1>4. Counted' = Counted /\ Holding' = Holding /\ Lined' = Lined /\ MaxWaiting' = MaxWaiting
    BY DEF Counted, Holding, Lined, MaxWaiting
  <1>5. CountsInv'
    BY <1>4 DEF GateInv, CountsInv
  <1> QED
    BY <1>1, <1>2, <1>3, <1>5 DEF GateInv

(* Every step keeps the accounts.                                          *)
LEMMA GateStep ==
    ASSUME MediaTypeOK, GateInv, [MediaNext]_mediaVars
    PROVE  GateTypeOK' /\ GateInv'
  <1>1. ASSUME NEW c \in Clients, NEW route \in {"files", "avatar"}, NEW v \in Derived, Request(c, route, v)
        PROVE  GateTypeOK' /\ GateInv'
    BY <1>1, RequestKeepsGate
  <1>2. ASSUME NEW c \in Clients, EnsureVariant(c) \/ Serve(c) \/ CheckMarker(c) \/ Unmark(c)
        PROVE  GateTypeOK' /\ GateInv'
    BY <1>2, EarlyStepsKeepGate
  <1>3. ASSUME NEW c \in Clients, TryAcquire(c) \/ EnterQueue(c)
        PROVE  GateTypeOK' /\ GateInv'
    BY <1>3, TryAcquireKeepsGate, EnterQueueKeepsGate
  <1>4. ASSUME NEW c \in Clients, BackOut(c) \/ Resume(c) \/ WaitedTooLong(c)
        PROVE  GateTypeOK' /\ GateInv'
    BY <1>4, WaitingStepsKeepGate
  <1>5. ASSUME NEW c \in Clients, Recheck(c) \/ Spawn(c) \/ FinishTask(c) \/ Cancel(c)
        PROVE  GateTypeOK' /\ GateInv'
    BY <1>5, RecheckKeepsGate, SpawnKeepsGate, FinishTaskKeepsGate, CancelKeepsGate
  <1>6. ASSUME NEW c \in Clients, NEW outcome \in Outcomes, Converted(c, outcome)
        PROVE  GateTypeOK' /\ GateInv'
    BY <1>6, ConvertedKeepsGate
  <1>7. CASE RestartServer
    BY <1>7, RestartKeepsGate
  <1>8. CASE Hour \/ PutFile \/ DelFile \/ UNCHANGED mediaVars
    <2>1. UNCHANGED <<capacity, free, queue, waiting, requests, tasks>>
      BY <1>8 DEF Hour, PutFile, DelFile, gateVars, mediaVars
    <2> QED
      BY <2>1, RestKeepsGate
  <1> QED
    BY <1>1, <1>2, <1>3, <1>4, <1>5, <1>6, <1>7, <1>8 DEF MediaNext, Outcomes

-----------------------------------------------------------------------------
(* The file, its variants and its marker.                                  *)

NoNewSpawn == \A d \in Clients : requests'[d].stage = "spawn" => requests[d].stage = "spawn"

(* Steps of a request that touch neither tasks nor the file.               *)
RequestStep(c) ==
  \/ \E route \in {"files", "avatar"}, v \in Derived : Request(c, route, v)
  \/ EnsureVariant(c) \/ Serve(c) \/ CheckMarker(c) \/ TryAcquire(c) \/ EnterQueue(c)
  \/ BackOut(c) \/ Resume(c) \/ WaitedTooLong(c) \/ Cancel(c)

LEMMA RequestStepFacts ==
    ASSUME MediaTypeOK, GateInv, NEW c \in Clients, RequestStep(c)
    PROVE  /\ NoNewSpawn /\ strays' \in [new : Nat, old : Nat]
           /\ UNCHANGED <<kind, capacity, tasks, details, main, output, marker, editing, killed, excused,
                          edits, upsets>>
  <1>1. UNCHANGED <<kind, capacity, tasks, details, main, output, marker, editing, killed, excused, edits,
                    upsets>>
    BY DEF RequestStep, Request, EnsureVariant, Serve, CheckMarker, TryAcquire, EnterQueue, BackOut,
           Resume, WaitedTooLong, Cancel, diskVars, historyVars
  <1>2. strays' \in [new : Nat, old : Nat]
    <2>1. strays \in [new : Nat, old : Nat]
      BY DEF MediaTypeOK, FileTypeOK
    <2>2. strays' = strays \/ strays' = [strays EXCEPT !.old = 0]
      BY DEF RequestStep, Request, EnsureVariant, Serve, CheckMarker, TryAcquire, EnterQueue, BackOut,
             Resume, WaitedTooLong, Cancel, diskVars
    <2> QED
      BY <2>1, <2>2
  <1>3. CASE \E route \in {"files", "avatar"}, v \in Derived : Request(c, route, v)
    BY <1>1, <1>2, <1>3, RequestMoves DEF NoNewSpawn, Moves, Answers
  <1>4. CASE EnsureVariant(c) \/ Serve(c) \/ CheckMarker(c) \/ TryAcquire(c)
    <2>1. Moves(c) /\ requests'[c].stage # "spawn"
      BY <1>4, EnsureMoves, ServeMoves, CheckMoves, TryAcquireMoves DEF Answers
    <2> QED
      BY <1>1, <1>2, <2>1 DEF NoNewSpawn, Moves
  <1>5. CASE EnterQueue(c)
    <2>1. PICK s \in {"full", "assigned", "parked"} : Reaches(c, s)
      BY <1>5 DEF EnterQueue
    <2>2. s \in Stages
      BY DEF Stages
    <2> QED
      BY <1>1, <1>2, <2>1, <2>2, Reached DEF NoNewSpawn
  <1>6. CASE BackOut(c) \/ WaitedTooLong(c)
    <2>1. requests' = [requests EXCEPT ![c] = ResultOf(c, "shed")]
      BY <1>6 DEF BackOut, WaitedTooLong
    <2> QED
      BY <1>1, <1>2, <2>1, ResultMoves DEF NoNewSpawn, Moves, Results, Answers
  <1>7. CASE Resume(c)
    <2>1. "recheck" \in Stages /\ TRUE \in BOOLEAN
      BY DEF Stages
    <2>2. requests' = [requests EXCEPT ![c].stage = "recheck", ![c].permit = TRUE]
      BY <1>7 DEF Resume
    <2> QED
      BY <1>1, <1>2, <2>1, <2>2, Granted DEF NoNewSpawn
  <1>8. CASE Cancel(c)
    BY <1>1, <1>2, <1>8, CancelKeepsGate DEF NoNewSpawn
  <1> QED
    BY <1>3, <1>4, <1>5, <1>6, <1>7, <1>8 DEF RequestStep

LEMMA RecheckFacts ==
    ASSUME MediaTypeOK, GateInv, NEW c \in Clients, Recheck(c)
    PROVE  /\ marker = "fresh" => NoNewSpawn
           /\ UNCHANGED <<kind, capacity, tasks, details, main, output, marker, strays, editing, killed,
                          excused, edits, upsets>>
  <1>1. /\ requests[c].stage = "recheck"
        /\ UNCHANGED <<kind, capacity, tasks, details, main, output, marker, strays, editing, killed,
                       excused, edits, upsets>>
    BY DEF Recheck, IsAt, diskVars, historyVars
  <1>2. ASSUME marker = "fresh" PROVE NoNewSpawn
    <2> DEFINE r == ResultOf(c, IF output[requests[c].variant] # 0 THEN "ok" ELSE "skipped")
    <2>1. Passes(c, r, queue)
      BY <1>2 DEF Recheck, Passes
    <2>2. r \in Requests /\ r.permit = FALSE /\ r.stage \in {"ensure", "serve"} \cup Answers
      BY ResultFacts DEF Results
    <2> HIDE DEF r
    <2>3. queue \in Seq(Clients) /\ \A i \in 1 .. Len(queue) : queue[i] # c
      BY <1>1 DEF MediaTypeOK, GateTypeOK, GateInv, QueueInv
    <2>4. /\ requests'[c] = r
          /\ queue = <<>> => Moves(c)
          /\ queue # <<>> => /\ requests'[queue[1]].stage = "assigned"
                             /\ \A d \in Clients : d \notin {c, queue[1]} => requests'[d] = requests[d]
      BY <2>1, <2>2, <2>3, PassFacts
    <2> QED
      BY <2>2, <2>4 DEF NoNewSpawn, Moves, Answers
  <1> QED
    BY <1>1, <1>2

(* What the end of a task leaves on the disk.                              *)
LEMMA PublishFacts ==
    ASSUME MediaTypeOK, NEW c \in Clients, tasks[c] \in Conversions, PublishVariant(c)
    PROVE  /\ output' \in [Derived -> Nat] /\ strays' \in [new : Nat, old : Nat]
           /\ \A v \in Derived : output'[v] = output[v] \/ (output'[v] = tasks[c].version /\ main # 0)
           /\ marker' = IF tasks[c].stage = "killed" /\ main # 0 THEN "fresh" ELSE marker
  <1>1. output \in [Derived -> Nat] /\ strays \in [new : Nat, old : Nat]
    BY DEF MediaTypeOK, FileTypeOK
  <1>2. tasks[c].variant \in Derived /\ tasks[c].version \in Nat
    BY DEF Conversions
  <1>3. /\ output' \in [Derived -> Nat]
        /\ \A v \in Derived : output'[v] = output[v] \/ (output'[v] = tasks[c].version /\ main # 0)
    <2>1. CASE tasks[c].stage = "whole" /\ main # 0
      <3>1. output' = [output EXCEPT ![tasks[c].variant] = tasks[c].version]
        BY <2>1 DEF PublishVariant
      <3> QED
        BY <1>1, <1>2, <2>1, <3>1
    <2>2. CASE ~(tasks[c].stage = "whole" /\ main # 0)
      <3>1. output' = output
        BY <2>2 DEF PublishVariant
      <3> QED
        BY <1>1, <3>1
    <2> QED
      BY <2>1, <2>2
  <1>4. strays' \in [new : Nat, old : Nat]
    <2>1. strays' = strays \/ strays' = [strays EXCEPT !.new = strays.new + 1]
      BY DEF PublishVariant
    <2> QED
      BY <1>1, <2>1
  <1> QED
    BY <1>3, <1>4 DEF PublishVariant

LEMMA FileTypeStep ==
    ASSUME MediaTypeOK, GateInv, [MediaNext]_mediaVars
    PROVE  FileTypeOK'
  <1> USE DEF FileTypeOK
  <1>0. FileTypeOK
    BY DEF MediaTypeOK
  <1>1. ASSUME NEW c \in Clients, RequestStep(c) PROVE FileTypeOK'
    BY <1>0, <1>1, RequestStepFacts
  <1>2. ASSUME NEW c \in Clients, Recheck(c) PROVE FileTypeOK'
    BY <1>0, <1>2, RecheckFacts
  <1>3. ASSUME NEW c \in Clients, Unmark(c) PROVE FileTypeOK'
    <2>1. strays' = strays \/ strays' = [strays EXCEPT !.old = 0]
      BY <1>3 DEF Unmark
    <2>2. strays' \in [new : Nat, old : Nat]
      BY <1>0, <2>1
    <2>3. /\ marker' = "none" /\ (excused' = excused \/ excused' = excused + 1)
          /\ UNCHANGED <<kind, details, main, output, editing, killed, edits, upsets>>
      BY <1>0, <1>3 DEF Unmark
    <2> QED
      BY <1>0, <2>2, <2>3
  <1>4. ASSUME NEW c \in Clients, Spawn(c) PROVE FileTypeOK'
    BY <1>0, <1>4 DEF Spawn, diskVars, historyVars
  <1>5. ASSUME NEW c \in Clients, FinishTask(c) PROVE FileTypeOK'
    <2>1. PublishVariant(c) /\ UNCHANGED <<kind, details, main, editing, killed, excused, edits, upsets>>
      BY <1>5 DEF FinishTask, historyVars
    <2>2. tasks[c] \in Conversions
      BY <1>5, FinishTaskKeepsGate
    <2>3. /\ output' \in [Derived -> Nat] /\ strays' \in [new : Nat, old : Nat]
          /\ marker' = IF tasks[c].stage = "killed" /\ main # 0 THEN "fresh" ELSE marker
      BY <2>1, <2>2, PublishFacts
    <2> QED
      BY <1>0, <2>1, <2>3
  <1>6. ASSUME NEW c \in Clients, NEW outcome \in Outcomes, Converted(c, outcome) PROVE FileTypeOK'
    <2>1. /\ killed' = killed \/ killed' = killed + 1
          /\ UNCHANGED <<kind, details, main, output, marker, strays, editing, excused, edits, upsets>>
      BY <1>0, <1>6 DEF Converted, diskVars
    <2> QED
      BY <1>0, <2>1
  <1>7. CASE RestartServer
    <2> DEFINE n == Cardinality({c \in Clients : tasks[c].stage \in {"whole", "empty"}})
    <2>1. n \in Nat
      BY SizeIsNatural
    <2>2. /\ strays' = [strays EXCEPT !.new = strays.new + n] /\ excused' = excused + 1
          /\ upsets' = upsets + 1
          /\ UNCHANGED <<kind, details, main, output, marker, editing, killed, edits>>
      BY <1>7 DEF RestartServer
    <2> HIDE DEF n
    <2>3. strays' \in [new : Nat, old : Nat]
      BY <1>0, <2>1, <2>2
    <2> QED
      BY <1>0, <2>2, <2>3
  <1>8. CASE Hour
    <2>1. /\ strays' = [new |-> 0, old |-> strays.old + strays.new] /\ killed' = 0 /\ excused' = 0
          /\ upsets' = upsets + 1 /\ marker' = IF marker = "fresh" THEN "stale" ELSE marker
          /\ UNCHANGED <<kind, details, main, output, editing, edits>>
      BY <1>8 DEF Hour
    <2>2. strays' \in [new : Nat, old : Nat]
      BY <1>0, <2>1
    <2> QED
      BY <1>0, <2>1, <2>2
  <1>9. CASE PutFile
    <2>1. UNCHANGED <<kind, output, marker, strays, killed, excused>>
      BY <1>9 DEF PutFile
    <2>2. details' \in BOOLEAN
      BY <1>0, <1>9 DEF PutFile
    <2>3. editing' \in {"none", "writing", "written", "deleting"}
      BY <1>9 DEF PutFile
    <2>4. main' \in Nat /\ edits' \in Nat /\ upsets' \in Nat
      BY <1>0, <1>9 DEF PutFile
    <2> QED
      BY <1>0, <2>1, <2>2, <2>3, <2>4
  <1>10. CASE DelFile
    <2>1. UNCHANGED <<kind, strays, killed, excused>>
      BY <1>10 DEF DelFile
    <2>2. details' \in BOOLEAN
      BY <1>0, <1>10 DEF DelFile
    <2>3. editing' \in {"none", "writing", "written", "deleting"}
      BY <1>10 DEF DelFile
    <2>4. edits' \in Nat /\ upsets' \in Nat
      BY <1>0, <1>10 DEF DelFile
    <2>5. main' \in Nat /\ marker' \in {"none", "fresh", "stale"}
      BY <1>0, <1>10 DEF DelFile
    <2>6. output' = output \/ output' = [v \in Derived |-> 0]
      BY <1>10 DEF DelFile
    <2>7. output' \in [Derived -> Nat]
      BY <1>0, <2>6
    <2> QED
      BY <1>0, <2>1, <2>2, <2>3, <2>4, <2>5, <2>7
  <1>11. CASE UNCHANGED mediaVars
    BY <1>0, <1>11 DEF mediaVars
  <1> QED
    BY <1>1, <1>2, <1>3, <1>4, <1>5, <1>6, <1>7, <1>8, <1>9, <1>10, <1>11
    DEF MediaNext, RequestStep, Outcomes

(* Only a complete first version is converted and published until the file *)
(* is edited; nothing is published next to a removed file.                 *)
LEMMA VersionStep ==
    ASSUME MediaTypeOK, GateInv, FirstVersion, RemovedIsClean, [MediaNext]_mediaVars
    PROVE  FirstVersion' /\ RemovedIsClean'
  <1>0. FileTypeOK
    BY DEF MediaTypeOK
  <1>1. ASSUME UNCHANGED <<main, output, editing, edits>>, marker' = marker \/ marker' = "none",
               \A c \in Clients : tasks'[c] = NoTask \/ tasks'[c] = tasks[c]
        PROVE  FirstVersion' /\ RemovedIsClean'
    <2>1. FirstVersion'
      BY <1>1 DEF FirstVersion
    <2>2. RemovedIsClean'
      BY <1>1 DEF RemovedIsClean
    <2> QED
      BY <2>1, <2>2
  <1>2. ASSUME NEW c \in Clients, RequestStep(c) \/ Recheck(c) \/ Unmark(c)
        PROVE  FirstVersion' /\ RemovedIsClean'
    <2>1. UNCHANGED <<main, output, editing, edits, tasks>> /\ (marker' = marker \/ marker' = "none")
      <3>1. CASE RequestStep(c)
        BY <3>1, RequestStepFacts
      <3>2. CASE Recheck(c)
        BY <3>2, RecheckFacts
      <3>3. CASE Unmark(c)
        BY <3>3 DEF Unmark
      <3> QED
        BY <1>2, <3>1, <3>2, <3>3
    <2> QED
      BY <1>1, <2>1
  <1>3. ASSUME NEW c \in Clients, Spawn(c) PROVE FirstVersion' /\ RemovedIsClean'
    <2>1. UNCHANGED <<main, output, marker, editing, edits>>
      BY <1>3 DEF Spawn, diskVars, historyVars
    <2>2. tasks'[c].version = main /\ \A d \in Clients : d # c => tasks'[d] = tasks[d]
      BY <1>3, SpawnKeepsGate
    <2>3. FirstVersion'
      BY <2>1, <2>2 DEF FirstVersion
    <2>4. RemovedIsClean'
      BY <2>1 DEF RemovedIsClean
    <2> QED
      BY <2>3, <2>4
  <1>4. ASSUME NEW c \in Clients, NEW outcome \in Outcomes, Converted(c, outcome)
        PROVE  FirstVersion' /\ RemovedIsClean'
    <2>1. UNCHANGED <<main, output, marker, editing, edits>>
      BY <1>4 DEF Converted, diskVars
    <2>2. /\ tasks[c].stage = "running" /\ tasks'[c].version = tasks[c].version
          /\ \A d \in Clients : d # c => tasks'[d] = tasks[d]
      BY <1>4, ConvertedKeepsGate
    <2>3. tasks[c] # NoTask
      BY <2>2 DEF NoTask
    <2>4. FirstVersion'
      BY <2>1, <2>2, <2>3 DEF FirstVersion
    <2>5. RemovedIsClean'
      BY <2>1 DEF RemovedIsClean
    <2> QED
      BY <2>4, <2>5
  <1>5. ASSUME NEW c \in Clients, FinishTask(c) PROVE FirstVersion' /\ RemovedIsClean'
    <2>1. UNCHANGED <<main, editing, edits>> /\ PublishVariant(c)
      BY <1>5 DEF FinishTask, historyVars
    <2>2. /\ tasks[c] \in Conversions /\ tasks[c].stage \in Outcomes
          /\ tasks'[c] = NoTask /\ \A d \in Clients : d # c => tasks'[d] = tasks[d]
      BY <1>5, FinishTaskKeepsGate
    <2>3. tasks[c] # NoTask
      BY <2>2 DEF NoTask, Outcomes
    <2>4. /\ \A v \in Derived : output'[v] = output[v] \/ (output'[v] = tasks[c].version /\ main # 0)
          /\ marker' = IF tasks[c].stage = "killed" /\ main # 0 THEN "fresh" ELSE marker
      BY <2>1, <2>2, PublishFacts
    <2>5. FirstVersion'
      <3> SUFFICES ASSUME edits' = 0
                   PROVE  /\ main' = 1 /\ editing' = "none"
                          /\ \A d \in Clients : tasks'[d] # NoTask => tasks'[d].version = 1
                          /\ \A v \in Derived : output'[v] \in {0, 1}
        BY DEF FirstVersion
      <3>1. /\ main = 1 /\ editing = "none" /\ \A v \in Derived : output[v] \in {0, 1}
            /\ \A d \in Clients : tasks[d] # NoTask => tasks[d].version = 1
        BY <2>1 DEF FirstVersion
      <3>2. tasks[c].version = 1
        BY <2>3, <3>1
      <3>3. \A d \in Clients : tasks'[d] # NoTask => tasks'[d].version = 1
        BY <2>2, <3>1
      <3>4. \A v \in Derived : output'[v] \in {0, 1}
        BY <2>4, <3>1, <3>2
      <3> QED
        BY <2>1, <3>1, <3>3, <3>4
    <2>6. RemovedIsClean'
      BY <2>1, <2>4 DEF RemovedIsClean
    <2> QED
      BY <2>5, <2>6
  <1>6. CASE RestartServer
    <2>1. UNCHANGED <<main, output, marker, editing, edits>>
      BY <1>6 DEF RestartServer
    <2>2. \A c \in Clients : tasks'[c] = NoTask
      BY <1>6, RestartKeepsGate
    <2> QED
      BY <1>1, <2>1, <2>2
  <1>7. CASE Hour
    <2>1. UNCHANGED <<main, output, editing, edits, tasks>>
      BY <1>7 DEF Hour
    <2>2. FirstVersion'
      BY <2>1 DEF FirstVersion
    <2>3. marker = "none" => marker' = "none"
      BY <1>7 DEF Hour
    <2>4. RemovedIsClean'
      BY <2>1, <2>3 DEF RemovedIsClean
    <2> QED
      BY <2>2, <2>4
  <1>8. CASE PutFile
    <2>1. edits \in Nat /\ main \in Nat
      BY <1>0 DEF FileTypeOK
    <2>2. edits' # 0
      <3>1. CASE editing = "none" /\ edits' = edits + 1
        BY <2>1, <3>1
      <3>2. CASE editing # "none" /\ edits' = edits
        BY <3>2 DEF FirstVersion
      <3> QED
        BY <1>8, <3>1, <3>2 DEF PutFile
    <2>3. main' # 0 \/ UNCHANGED main
      <3>1. main' = 2 * edits + 2 \/ main' = main + 1 \/ main' = main
        BY <1>8 DEF PutFile
      <3> QED
        BY <2>1, <3>1
    <2>4. UNCHANGED <<output, marker>>
      BY <1>8 DEF PutFile
    <2>5. FirstVersion'
      BY <2>2 DEF FirstVersion
    <2>6. RemovedIsClean'
      BY <2>3, <2>4 DEF RemovedIsClean
    <2> QED
      BY <2>5, <2>6
  <1>9. CASE DelFile
    <2>1. edits \in Nat
      BY <1>0 DEF FileTypeOK
    <2>2. edits' # 0
      <3>1. CASE editing = "none" /\ edits' = edits + 1
        BY <2>1, <3>1
      <3>2. CASE editing # "none" /\ edits' = edits
        BY <3>2 DEF FirstVersion
      <3> QED
        BY <1>9, <3>1, <3>2 DEF DelFile
    <2>3. \/ UNCHANGED <<main, output, marker>>
          \/ marker' = "none" /\ output' = [v \in Derived |-> 0]
      BY <1>9 DEF DelFile
    <2>4. FirstVersion'
      BY <2>2 DEF FirstVersion
    <2>5. RemovedIsClean'
      BY <2>3 DEF RemovedIsClean
    <2> QED
      BY <2>4, <2>5
  <1>10. CASE UNCHANGED mediaVars
    BY <1>1, <1>10 DEF mediaVars
  <1> QED
    BY <1>2, <1>3, <1>4, <1>5, <1>6, <1>7, <1>8, <1>9, <1>10 DEF MediaNext, RequestStep, Outcomes

-----------------------------------------------------------------------------
(* The conversions that were killed.                                       *)

LEMMA Budgets ==
    \A n, e \in Nat : /\ n * e \in Nat /\ n * (1 + e) \in Nat
                      /\ n * (1 + e) = n * e + n /\ n * (e + 1) = n * (1 + e)
  <1>1. ASSUME NEW n \in Nat, NEW e \in Nat
        PROVE  /\ n * e \in Nat /\ n * (1 + e) \in Nat
               /\ n * (1 + e) = n * e + n /\ n * (e + 1) = n * (1 + e)
    OBVIOUS
  <1> QED
    BY <1>1

(* A conversion that was killed and one that may be hold a permit each.    *)
LEMMA DeathsAreBounded ==
    ASSUME MediaTypeOK, GateInv
    PROVE  /\ Killed \in SUBSET Clients /\ MayDie \in SUBSET Clients
           /\ Cardinality(Killed) \in Nat /\ Cardinality(MayDie) \in Nat
           /\ Cardinality(Killed) + Cardinality(MayDie) <= capacity
  <1>1. Killed \in SUBSET Clients /\ MayDie \in SUBSET Clients
    BY DEF Killed, MayDie
  <1>2. Killed \in SUBSET Holding /\ MayDie \in SUBSET Holding /\ Killed \cap MayDie = {}
    <2>1. ASSUME NEW c \in Clients
          PROVE  /\ tasks[c].stage \in {"killed", "running"} => tasks[c] # NoTask
                 /\ requests[c].stage = "spawn" => requests[c].permit = TRUE /\ tasks[c] = NoTask
      <3>1. NoTask.stage = "none"
        BY DEF NoTask
      <3>2. requests[c].stage = "spawn" => requests[c].permit = TRUE /\ tasks[c] = NoTask
        BY HoldsNothing DEF MediaTypeOK, Answers
      <3> QED
        BY <3>1, <3>2
    <2>2. NoTask.stage = "none"
      BY DEF NoTask
    <2> QED
      BY <2>1, <2>2 DEF Killed, MayDie, Holding
  <1>3. Holding \in SUBSET Clients /\ Cardinality(Holding) \in Nat
    BY SetsOfClients
  <1>4. Cardinality(Killed) + Cardinality(MayDie) <= Cardinality(Holding)
    BY <1>2, <1>3, DisjointSets
  <1>5. free + Cardinality(Holding) = capacity /\ free \in Nat
    BY DEF GateInv, CountsInv, MediaTypeOK, GateTypeOK
  <1>6. Cardinality(Killed) \in Nat /\ Cardinality(MayDie) \in Nat
    BY <1>1, SizeIsNatural
  <1> QED
    BY <1>1, <1>3, <1>4, <1>5, <1>6

(* Steps that kill nothing and remember what was killed.                   *)
LEMMA KillsStay ==
    ASSUME MediaTypeOK, GateInv, KillsInv, MediaTypeOK', GateInv',
           UNCHANGED <<capacity, marker, killed, excused, edits>>,
           Killed \in SUBSET (Killed'), marker = "fresh" => MayDie' \in SUBSET MayDie
    PROVE  KillsInv'
  <1>1. /\ Killed' \in SUBSET Clients /\ MayDie \in SUBSET Clients
        /\ Cardinality(Killed) \in Nat /\ Cardinality(MayDie) \in Nat
        /\ Cardinality(Killed') \in Nat /\ Cardinality(MayDie') \in Nat
    <2>1. Killed' \in SUBSET Clients /\ MayDie' \in SUBSET Clients
      BY DEF Killed, MayDie
    <2> QED
      BY <2>1, DeathsAreBounded, SizeIsNatural
  <1>2. Cardinality(Killed) <= Cardinality(Killed')
    BY <1>1, SmallerSet
  <1>3. marker = "fresh" => Cardinality(MayDie') <= Cardinality(MayDie)
    BY <1>1, SmallerSet
  <1> DEFINE P == capacity * (1 + excused)
             Q == capacity * excused
             K == Cardinality(Killed')
             D == Cardinality(MayDie')
  <1>4. P \in Nat /\ Q \in Nat /\ killed \in Nat
    BY Budgets DEF MediaTypeOK, GateTypeOK, FileTypeOK
  <1>5. edits = 0 => IF marker = "fresh" THEN killed + Cardinality(MayDie) <= P
                     ELSE killed <= Q + Cardinality(Killed)
    BY DEF KillsInv
  <1>6. KillsInv' <=> (edits = 0 => IF marker = "fresh" THEN killed + D <= P ELSE killed <= Q + K)
    BY DEF KillsInv
  <1>7. K \in Nat /\ D \in Nat /\ Cardinality(Killed) <= K
        /\ (marker = "fresh" => D <= Cardinality(MayDie))
    BY <1>1, <1>2, <1>3
  <1> HIDE DEF P, Q, K, D
  <1> QED
    BY <1>1, <1>4, <1>5, <1>6, <1>7

(* A conversion is killed: one more to remember, one less that may die.    *)
LEMMA KillStep ==
    ASSUME MediaTypeOK, GateInv, KillsInv, MediaTypeOK', GateInv', NEW c \in Clients,
           Converted(c, "killed")
    PROVE  KillsInv'
  <1>1. /\ killed' = killed + 1 /\ UNCHANGED <<capacity, marker, excused, edits, requests>>
    BY DEF Converted, diskVars
  <1>2. /\ tasks[c].stage = "running" /\ tasks'[c].stage = "killed"
        /\ \A d \in Clients : d # c => tasks'[d] = tasks[d]
    BY ConvertedKeepsGate DEF Outcomes
  <1>3. requests[c].stage # "spawn"
    <2>1. tasks[c] # NoTask
      BY <1>2 DEF NoTask
    <2> QED
      BY <2>1, HoldsNothing DEF MediaTypeOK, Answers
  <1>4. /\ Killed \in SUBSET Clients /\ MayDie \in SUBSET Clients
        /\ Killed' \in SUBSET Clients /\ MayDie' \in SUBSET Clients
    BY DEF Killed, MayDie
  <1>5. c \notin Killed /\ c \in Killed' /\ c \in MayDie /\ c \notin MayDie'
    BY <1>1, <1>2, <1>3 DEF Killed, MayDie
  <1>6. \A d \in Clients : d # c => (d \in Killed <=> d \in Killed') /\ (d \in MayDie <=> d \in MayDie')
    BY <1>1, <1>2 DEF Killed, MayDie
  <1>7. /\ Cardinality(Killed') + One(c \in Killed) = Cardinality(Killed) + One(c \in Killed')
        /\ Cardinality(MayDie') + One(c \in MayDie) = Cardinality(MayDie) + One(c \in MayDie')
    BY <1>4, <1>6, OneMemberMoves
  <1>8. /\ Cardinality(Killed) \in Nat /\ Cardinality(MayDie) \in Nat
        /\ Cardinality(Killed') \in Nat /\ Cardinality(MayDie') \in Nat
    BY <1>4, SizeIsNatural
  <1>9. Cardinality(Killed') = Cardinality(Killed) + 1 /\ Cardinality(MayDie') + 1 = Cardinality(MayDie)
    BY <1>5, <1>7, <1>8 DEF One
  <1> DEFINE P == capacity * (1 + excused)
             Q == capacity * excused
             K == Cardinality(Killed')
             D == Cardinality(MayDie')
  <1>10. P \in Nat /\ Q \in Nat /\ killed \in Nat /\ K \in Nat /\ D \in Nat
    BY <1>8, Budgets DEF MediaTypeOK, GateTypeOK, FileTypeOK
  <1>11. edits = 0 => IF marker = "fresh" THEN killed + Cardinality(MayDie) <= P
                      ELSE killed <= Q + Cardinality(Killed)
    BY DEF KillsInv
  <1>12. KillsInv' <=> (edits = 0 => IF marker = "fresh" THEN (killed + 1) + D <= P
                                     ELSE killed + 1 <= Q + K)
    BY <1>1 DEF KillsInv
  <1>13. K = Cardinality(Killed) + 1 /\ D + 1 = Cardinality(MayDie)
    BY <1>9
  <1> HIDE DEF P, Q, K, D
  <1> QED
    BY <1>8, <1>10, <1>11, <1>12, <1>13

(* A fresh marker is lost, to a reader that saw a stale one or to a crash: *)
(* the event is excused.                                                   *)
LEMMA ExcusedStep ==
    ASSUME MediaTypeOK, GateInv, KillsInv, MediaTypeOK', GateInv',
           UNCHANGED <<capacity, killed, edits>>, excused' = excused + 1,
           marker' = "fresh" => marker = "fresh" /\ MayDie' = {}
    PROVE  KillsInv'
  <1>1. /\ Cardinality(Killed) \in Nat /\ Cardinality(MayDie) \in Nat
        /\ Cardinality(Killed') \in Nat
        /\ Cardinality(Killed) + Cardinality(MayDie) <= capacity
    <2>1. Killed' \in SUBSET Clients
      BY DEF Killed
    <2> QED
      BY <2>1, DeathsAreBounded, SizeIsNatural
  <1>2. marker' = "fresh" => Cardinality(MayDie') = 0
    BY NoMembers
  <1> DEFINE P == capacity * (1 + excused)
             Q == capacity * excused
             R == capacity * (1 + excused')
             S == capacity * excused'
  <1>3. P \in Nat /\ Q \in Nat /\ killed \in Nat /\ capacity \in Nat /\ P = Q + capacity /\ S = P
        /\ R \in Nat /\ R = S + capacity
    <2>1. capacity \in Nat /\ excused \in Nat /\ excused' \in Nat /\ killed \in Nat
      BY DEF MediaTypeOK, GateTypeOK, FileTypeOK
    <2>2. P \in Nat /\ Q \in Nat /\ P = Q + capacity /\ R \in Nat /\ R = S + capacity
      BY <2>1, Budgets
    <2>3. capacity * (excused + 1) = P
      BY <2>1, Budgets
    <2> QED
      BY <2>1, <2>2, <2>3
  <1>4. edits = 0 => IF marker = "fresh" THEN killed + Cardinality(MayDie) <= P
                     ELSE killed <= Q + Cardinality(Killed)
    BY DEF KillsInv
  <1>5. KillsInv' <=> (edits = 0 => IF marker' = "fresh" THEN killed + Cardinality(MayDie') <= R
                                    ELSE killed <= S + Cardinality(Killed'))
    BY DEF KillsInv
  <1> HIDE DEF P, Q, R, S
  <1>6. edits = 0 => killed <= P
    BY <1>1, <1>3, <1>4
  <1> QED
    BY <1>1, <1>2, <1>3, <1>5, <1>6

(* The end of a task: a killed one leaves the marker.                      *)
LEMMA FinishedKill ==
    ASSUME MediaTypeOK, GateInv, FirstVersion, KillsInv, MediaTypeOK', GateInv', NEW c \in Clients,
           FinishTask(c)
    PROVE  KillsInv'
  <1>1. UNCHANGED <<capacity, main, killed, excused, edits>> /\ PublishVariant(c)
    BY DEF FinishTask, historyVars
  <1>2. /\ tasks[c] \in Conversions /\ tasks[c].stage \in Outcomes
        /\ tasks'[c] = NoTask /\ \A d \in Clients : d # c => tasks'[d] = tasks[d]
        /\ NoNewSpawn
    BY FinishTaskKeepsGate DEF NoNewSpawn
  <1>3. marker' = IF tasks[c].stage = "killed" /\ main # 0 THEN "fresh" ELSE marker
    BY <1>1, <1>2, PublishFacts
  <1>4. MayDie' \in SUBSET MayDie
    <2>1. NoTask.stage = "none"
      BY DEF NoTask
    <2> QED
      BY <1>2, <2>1 DEF MayDie, NoNewSpawn
  <1>5. CASE tasks[c].stage # "killed"
    <2>1. Killed \in SUBSET (Killed')
      BY <1>2, <1>5 DEF Killed
    <2> QED
      BY <1>1, <1>3, <1>4, <1>5, <2>1, KillsStay
  <1>6. CASE tasks[c].stage = "killed"
    <2> SUFFICES ASSUME edits = 0 PROVE KillsInv'
      BY <1>1 DEF KillsInv
    <2>1. marker' = "fresh"
      BY <1>3, <1>6 DEF FirstVersion
    <2>2. /\ Cardinality(Killed) \in Nat /\ Cardinality(MayDie) \in Nat
          /\ Cardinality(Killed) + Cardinality(MayDie) <= capacity
          /\ MayDie \in SUBSET Clients
      BY DeathsAreBounded
    <2>3. Cardinality(MayDie') <= Cardinality(MayDie) /\ Cardinality(MayDie') \in Nat
      <3>1. MayDie' \in SUBSET Clients
        BY <1>4, <2>2
      <3> QED
        BY <1>4, <2>2, <3>1, SmallerSet, SizeIsNatural
    <2> DEFINE P == capacity * (1 + excused)
               Q == capacity * excused
               D == Cardinality(MayDie')
    <2>4. P \in Nat /\ Q \in Nat /\ killed \in Nat /\ capacity \in Nat /\ P = Q + capacity
      BY Budgets DEF MediaTypeOK, GateTypeOK, FileTypeOK
    <2>5. IF marker = "fresh" THEN killed + Cardinality(MayDie) <= P
          ELSE killed <= Q + Cardinality(Killed)
      BY DEF KillsInv
    <2>6. KillsInv' <=> killed + D <= P
      BY <1>1, <2>1 DEF KillsInv
    <2>7. D \in Nat /\ D <= Cardinality(MayDie)
      BY <2>3
    <2> HIDE DEF P, Q, D
    <2>8. killed + D <= P
      BY <2>2, <2>4, <2>5, <2>7
    <2> QED
      BY <2>6, <2>8
  <1> QED
    BY <1>5, <1>6

LEMMA KillsStep ==
    ASSUME MediaInv, MediaTypeOK', GateInv', [MediaNext]_mediaVars
    PROVE  KillsInv'
  <1> USE DEF MediaInv
  <1>1. ASSUME NEW c \in Clients, RequestStep(c) \/ Recheck(c) PROVE KillsInv'
    <2>1. UNCHANGED <<capacity, tasks, marker, killed, excused, edits>> /\ (marker = "fresh" => NoNewSpawn)
      BY <1>1, RequestStepFacts, RecheckFacts
    <2>2. Killed' = Killed /\ (marker = "fresh" => MayDie' \in SUBSET MayDie)
      BY <2>1 DEF Killed, MayDie, NoNewSpawn
    <2> QED
      BY <2>1, <2>2, KillsStay
  <1>2. ASSUME NEW c \in Clients, Unmark(c) PROVE KillsInv'
    <2>1. /\ UNCHANGED <<capacity, tasks, killed, edits>> /\ marker' = "none"
          /\ excused' = excused + (IF marker = "fresh" THEN 1 ELSE 0)
      BY <1>2 DEF Unmark
    <2>2. CASE marker = "fresh"
      <3>1. excused' = excused + 1
        BY <2>1, <2>2
      <3> QED
        BY <2>1, <3>1, ExcusedStep
    <2>3. CASE marker # "fresh"
      <3>1. excused' = excused
        BY <2>1, <2>3 DEF MediaTypeOK, FileTypeOK
      <3>2. Killed' = Killed
        BY <2>1 DEF Killed
      <3> QED
        BY <2>1, <2>3, <3>1, <3>2 DEF KillsInv
    <2> QED
      BY <2>2, <2>3
  <1>3. ASSUME NEW c \in Clients, Spawn(c) PROVE KillsInv'
    <2>1. UNCHANGED <<capacity, marker, killed, excused, edits>>
      BY <1>3 DEF Spawn, diskVars, historyVars
    <2>2. /\ Moves(c) /\ requests[c].stage = "spawn" /\ requests'[c].stage = "await"
          /\ tasks[c] = NoTask /\ tasks'[c].stage = "running"
          /\ \A d \in Clients : d # c => tasks'[d] = tasks[d]
      BY <1>3, SpawnKeepsGate
    <2>3. NoTask.stage = "none"
      BY DEF NoTask
    <2>4. Killed \in SUBSET (Killed') /\ MayDie' \in SUBSET MayDie
      BY <2>2, <2>3 DEF Killed, MayDie, Moves
    <2> QED
      BY <2>1, <2>4, KillsStay
  <1>4. ASSUME NEW c \in Clients, FinishTask(c) PROVE KillsInv'
    BY <1>4, FinishedKill
  <1>5. ASSUME NEW c \in Clients, NEW outcome \in Outcomes, Converted(c, outcome) PROVE KillsInv'
    <2>1. CASE outcome = "killed"
      BY <1>5, <2>1, KillStep
    <2>2. CASE outcome # "killed"
      <3>1. UNCHANGED <<capacity, marker, excused, edits, requests>> /\ killed' = killed
        BY <1>5, <2>2 DEF Converted, diskVars, MediaTypeOK, FileTypeOK
      <3>2. /\ tasks[c].stage = "running" /\ tasks'[c].stage = outcome
            /\ \A d \in Clients : d # c => tasks'[d] = tasks[d]
        BY <1>5, ConvertedKeepsGate
      <3>3. Killed \in SUBSET (Killed') /\ MayDie' \in SUBSET MayDie
        BY <3>1, <3>2 DEF Killed, MayDie, Outcomes
      <3> QED
        BY <3>1, <3>3, KillsStay
    <2> QED
      BY <2>1, <2>2
  <1>6. CASE RestartServer
    <2>1. UNCHANGED <<capacity, marker, killed, edits>> /\ excused' = excused + 1
      BY <1>6 DEF RestartServer
    <2>2. \A c \in Clients : tasks'[c] = NoTask /\ requests'[c].stage \in Answers \cup {"none"}
      BY <1>6, RestartKeepsGate
    <2>3. NoTask.stage = "none"
      BY DEF NoTask
    <2>4. MayDie' = {}
      BY <2>2, <2>3 DEF MayDie, Answers
    <2> QED
      BY <2>1, <2>4, ExcusedStep
  <1>7. CASE Hour
    <2>1. killed' = 0 /\ marker' # "fresh"
      BY <1>7 DEF Hour
    <2>2. capacity' * excused' \in Nat
      BY Budgets DEF MediaTypeOK, GateTypeOK, FileTypeOK
    <2>3. Cardinality(Killed') \in Nat
      <3>1. Killed' \in SUBSET Clients
        BY DEF Killed
      <3> QED
        BY <3>1, SizeIsNatural
    <2>4. 0 <= capacity' * excused' + Cardinality(Killed')
      BY <2>2, <2>3
    <2> QED
      BY <2>1, <2>4 DEF KillsInv
  <1>8. CASE PutFile \/ DelFile
    <2>1. edits \in Nat
      BY DEF MediaTypeOK, FileTypeOK
    <2>2. edits' # 0
      <3>1. CASE editing = "none" /\ edits' = edits + 1
        BY <2>1, <3>1
      <3>2. CASE editing # "none" /\ edits' = edits
        BY <3>2 DEF FirstVersion
      <3> QED
        BY <1>8, <3>1, <3>2 DEF PutFile, DelFile
    <2> QED
      BY <2>2 DEF KillsInv
  <1>9. CASE UNCHANGED mediaVars
    <2>1. UNCHANGED <<capacity, marker, killed, excused, edits, requests, tasks>>
      BY <1>9 DEF mediaVars
    <2>2. Killed' = Killed /\ MayDie' = MayDie
      BY <2>1 DEF Killed, MayDie
    <2> QED
      BY <2>1, <2>2, KillsStay
  <1> QED
    BY <1>1, <1>2, <1>3, <1>4, <1>5, <1>6, <1>7, <1>8, <1>9 DEF MediaNext, RequestStep, Outcomes

-----------------------------------------------------------------------------
(* The invariant.                                                          *)

LEMMA MediaInitHolds ==
    ASSUME MediaInit
    PROVE  MediaInv
  <1> USE DEF MediaInit
  <1>1. \A c \in Clients : requests[c] = NoRequest /\ tasks[c] = NoTask
    OBVIOUS
  <1>2. NoRequest.stage = "none" /\ NoRequest.permit = FALSE /\ NoTask.stage = "none"
    BY DEF NoRequest, NoTask
  <1>3. GateTypeOK
    <2>1. capacity \in Nat /\ free \in Nat
      BY MediaAssumption
    <2>2. <<>> \in Seq(Clients) /\ 0 \in Int
      OBVIOUS
    <2> QED
      BY <2>1, <2>2, NoRequestType DEF GateTypeOK
  <1>4. FileTypeOK
    <2>1. TRUE \in BOOLEAN /\ [v \in Derived |-> 0] \in [Derived -> Nat]
          /\ [new |-> 0, old |-> 0] \in [new : Nat, old : Nat]
      OBVIOUS
    <2> QED
      BY <2>1 DEF FileTypeOK
  <1>5. Counted = {} /\ Holding = {} /\ Lined = {} /\ Killed = {} /\ MayDie = {}
    BY <1>1, <1>2 DEF Counted, Holding, Lined, Killed, MayDie
  <1>6. GateInv
    <2>1. \A c \in Clients : PermitOf(c)
      BY <1>1, <1>2 DEF PermitOf
    <2>2. Len(queue) = 0 /\ 1 .. 0 = {}
      OBVIOUS
    <2>3. QueueInv
      BY <1>1, <1>2, <2>2 DEF QueueInv
    <2>4. Cardinality(Counted) = 0 /\ Cardinality(Holding) = 0 /\ Cardinality(Lined) = 0
      BY <1>5, NoMembers
    <2>5. capacity \in Nat /\ MaxWaiting \in Nat
      BY <1>3, MaxWaitingType DEF GateTypeOK
    <2>6. free + 0 = capacity /\ 0 <= MaxWaiting
      BY <2>5
    <2>7. CountsInv
      BY <2>4, <2>6 DEF CountsInv
    <2> QED
      BY <2>1, <2>3, <2>7 DEF GateInv
  <1>7. FirstVersion
    BY <1>1 DEF FirstVersion
  <1>8. RemovedIsClean
    BY DEF RemovedIsClean
  <1>9. KillsInv
    <2>1. Cardinality(Killed) = 0 /\ capacity * excused \in Nat
      BY <1>3, <1>4, <1>5, NoMembers, Budgets DEF GateTypeOK, FileTypeOK
    <2>2. 0 <= capacity * excused + 0
      BY <2>1
    <2> QED
      BY <2>1, <2>2 DEF KillsInv
  <1> QED
    BY <1>3, <1>4, <1>6, <1>7, <1>8, <1>9 DEF MediaInv, MediaTypeOK

(* Every step of the specification preserves the invariant.                *)
LEMMA MediaStepHolds ==
    ASSUME MediaInv, [MediaNext]_mediaVars
    PROVE  MediaInv'
  <1>1. MediaTypeOK /\ GateInv /\ FirstVersion /\ RemovedIsClean
    BY DEF MediaInv
  <1>2. GateTypeOK' /\ GateInv'
    BY <1>1, GateStep
  <1>3. FileTypeOK'
    BY <1>1, FileTypeStep
  <1>4. MediaTypeOK'
    BY <1>2, <1>3 DEF MediaTypeOK
  <1>5. FirstVersion' /\ RemovedIsClean'
    BY <1>1, VersionStep
  <1>6. KillsInv'
    BY <1>2, <1>4, KillsStep
  <1> QED
    BY <1>2, <1>4, <1>5, <1>6 DEF MediaInv

LEMMA MediaInvariant == MediaSpec => []MediaInv
  <1>1. MediaInit => MediaInv
    BY MediaInitHolds
  <1>2. MediaInv /\ [MediaNext]_mediaVars => MediaInv'
    BY MediaStepHolds
  <1> QED
    BY <1>1, <1>2, PTL DEF MediaSpec

(* The gate of concurrency.rs keeps its accounts, for every pool, queue    *)
(* bound and number of requests: the waiting counter counts exactly the    *)
(* requests it was raised for, no more than max_waiting are in line, every *)
(* permit is free or held once, and none is free while somebody is parked. *)
THEOREM GateAccountsBalance == MediaSpec => []GateAccounts
  <1>1. MediaInv => GateAccounts
    <2> SUFFICES ASSUME MediaInv PROVE GateAccounts
      OBVIOUS
    <2>1. queue \in Seq(Clients)
      BY DEF MediaInv, MediaTypeOK, GateTypeOK
    <2>2. /\ \A i \in 1 .. Len(queue) : queue[i] \in Clients /\ requests[queue[i]].stage = "parked"
          /\ \A c \in Clients : requests[c].stage = "parked" => \E i \in 1 .. Len(queue) : queue[i] = c
      BY <2>1 DEF MediaInv, GateInv, QueueInv
    <2>3. {queue[i] : i \in 1 .. Len(queue)} = {c \in Clients : requests[c].stage = "parked"}
      BY <2>2
    <2>4. CountsInv
      BY DEF MediaInv, GateInv
    <2> QED
      BY <2>3, <2>4 DEF CountsInv, Lined, GateAccounts
  <1> QED
    BY <1>1, MediaInvariant, PTL

(* A variant that create_variant published is made of the complete stored  *)
(* file until the file is put again, and a file that handlers/file.rs      *)
(* removed keeps no variant and no marker, whenever its conversions end.   *)
THEOREM PublishedStaysWhole == MediaSpec => []PublishedIsWhole
  <1>1. MediaInv => PublishedIsWhole
    BY DEF MediaInv, FirstVersion, RemovedIsClean, PublishedIsWhole
  <1> QED
    BY <1>1, MediaInvariant, PTL

(* A file that kills its converter costs one deadline per permit and hour, *)
(* and one more per permit for each event that took the marker away        *)
(* (timed_out_recently and the crash before the marker is written).        *)
THEOREM KillsStayRemembered == MediaSpec => []KillsAreRemembered
  <1>1. MediaInv => KillsAreRemembered
    <2> SUFFICES ASSUME MediaInv, edits = 0 PROVE killed <= capacity * (1 + excused)
      BY DEF KillsAreRemembered
    <2>1. /\ Cardinality(Killed) \in Nat /\ Cardinality(MayDie) \in Nat
          /\ Cardinality(Killed) + Cardinality(MayDie) <= capacity
      BY DeathsAreBounded DEF MediaInv
    <2> DEFINE P == capacity * (1 + excused)
               Q == capacity * excused
    <2>2. P \in Nat /\ Q \in Nat /\ killed \in Nat /\ capacity \in Nat /\ P = Q + capacity
      BY Budgets DEF MediaInv, MediaTypeOK, GateTypeOK, FileTypeOK
    <2>3. IF marker = "fresh" THEN killed + Cardinality(MayDie) <= P
          ELSE killed <= Q + Cardinality(Killed)
      BY DEF MediaInv, KillsInv
    <2> HIDE DEF P, Q
    <2>4. killed <= P
      BY <2>1, <2>2, <2>3
    <2> QED
      BY <2>4 DEF P
  <1> QED
    BY <1>1, MediaInvariant, PTL
=============================================================================

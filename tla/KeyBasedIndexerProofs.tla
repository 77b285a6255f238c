----------------------- MODULE KeyBasedIndexerProofs -----------------------
(***************************************************************************)
(* Proofs about the processor of an external homeserver for any users, any *)
(* streams, any limit and a homeserver that may leave out or repeat what   *)
(* it likes: its types, that a stored cursor passes accounted events only  *)
(* and never moves back, that nothing of another owner is taken, and that  *)
(* each user's stream is an EventIntake.                                   *)
(***************************************************************************)
EXTENDS KeyBasedIndexer, TLAPS

-----------------------------------------------------------------------------
(* Types.                                                                  *)

LEMMA TypeInit == Init => TypeOK
  <1> SUFFICES ASSUME Init PROVE TypeOK
    OBVIOUS
  <1>1. outcome \in [Users -> [Positions -> Outcome]]
    BY DEF Init, Outcome
  <1>2. stopping \in BOOLEAN /\ spent \in BOOLEAN
    BY DEF Init
  <1> QED
    BY <1>1, <1>2, KeyBasedAssumption DEF Init, TypeOK, Absent, Nobody, Nothing

(* The variables of a run, and what TypeOK says of them.                   *)
RunTypeOK ==
    /\ pc \in {"idle", "users", "fetch", "events"}
    /\ turn \subseteq Users /\ left \subseteq turn
    /\ start \in Users \cup {Nobody}
    /\ at \in [Users -> 0..Len]
    /\ user \in Users \cup {Nobody}
    /\ pc \in {"fetch", "events"} => user \in turn
    /\ events \subseteq Positions
    /\ latest \in 0..Len
    /\ spent \in BOOLEAN

LEMMA EndRunType ==
    ASSUME EndRun
    PROVE  RunTypeOK'
  <1>1. spent' \in BOOLEAN
    BY DEF EndRun
  <1> QED
    BY <1>1, KeyBasedAssumption DEF EndRun, RunTypeOK, Nobody, Nothing

LEMMA DeadlineType ==
    ASSUME TypeOK, DeadlineCheck
    PROVE  RunTypeOK' /\ resume' \in Users \cup {Nobody}
  <1>1. CASE RecordStopAfter(user) /\ EndRun
    <2>1. resume' \in Users
      BY <1>1 DEF RecordStopAfter, TypeOK
    <2> QED
      BY <1>1, <2>1, EndRunType
  <1>2. CASE /\ ~spent
             /\ pc' = "users" /\ user' = Nobody /\ events' = {} /\ latest' = Nothing
             /\ UNCHANGED <<resume, turn, start, left, at, spent>>
    <2>1. spent' \in BOOLEAN
      BY <1>2 DEF TypeOK
    <2> QED
      BY <1>2, <2>1, KeyBasedAssumption DEF TypeOK, RunTypeOK, Nothing
  <1> QED
    BY <1>1, <1>2 DEF DeadlineCheck

LEMMA BackoffType ==
    ASSUME TypeOK, user \in Users, ClearBackoff(user) \/ BackOff(user)
    PROVE  /\ failures' \in [Users -> 0..MaxFailures]
           /\ skips' \in [Users -> 0..MaxFailures]
  <1>1. CASE ClearBackoff(user)
    BY <1>1, KeyBasedAssumption DEF ClearBackoff, TypeOK
  <1>2. CASE BackOff(user)
    <2> DEFINE f == IF failures[user] < MaxFailures THEN failures[user] + 1 ELSE MaxFailures
    <2>1. f \in 0..MaxFailures
      BY KeyBasedAssumption DEF TypeOK
    <2>2. failures' = [failures EXCEPT ![user] = f] /\ skips' = [skips EXCEPT ![user] = f]
      BY <1>2 DEF BackOff
    <2> HIDE DEF f
    <2> QED
      BY <2>1, <2>2 DEF TypeOK
  <1> QED
    BY <1>1, <1>2

LEMMA WriteCursorType ==
    ASSUME TypeOK, user \in Users, WriteCursor
    PROVE  cursor' \in [Users -> 0..Len \cup {Absent}]
  BY DEF WriteCursor, TypeOK

LEMMA StreamsType ==
    ASSUME TypeOK, NEW u \in Users, NEW S \in Streams(u)
    PROVE  S \subseteq Positions
  <1>1. at[u] \in 0..Len /\ head[u] \in 0..Len
    BY DEF TypeOK
  <1>2. StreamEnd(u) \in 0..Len
    BY <1>1, KeyBasedAssumption DEF StreamEnd
  <1>3. (at[u] + 1)..StreamEnd(u) \subseteq Positions
    BY <1>1, <1>2, KeyBasedAssumption DEF Positions
  <1>4. 1..head[u] \subseteq Positions
    BY <1>1, KeyBasedAssumption DEF Positions
  <1> QED
    BY <1>3, <1>4 DEF Streams

LEMMA TypeStep == TypeOK /\ [Next]_vars => TypeOK'
  <1> SUFFICES ASSUME TypeOK, [Next]_vars PROVE TypeOK'
    OBVIOUS
  <1> USE DEF storeVars, memoryVars, runVars, envVars
  <1>1. CASE StartRun
    <2>1. at' \in [Users -> 0..Len]
      BY <1>1, KeyBasedAssumption DEF StartRun, ReadCursor, TypeOK
    <2> QED
      BY <1>1, <2>1 DEF StartRun, TypeOK
  <1>2. CASE TakeUser
    <2>1. PICK u \in left :
             /\ left' = left \ {u}
             /\ IF Skips(u)
                THEN /\ skips' = [skips EXCEPT ![u] = skips[u] - 1]
                     /\ UNCHANGED <<pc, user>>
                ELSE /\ pc' = "fetch" /\ user' = u
                     /\ UNCHANGED skips
      BY <1>2 DEF TakeUser
    <2>2. u \in turn /\ u \in Users
      BY DEF TypeOK
    <2>3. CASE Skips(u)
      <3>1. skips[u] - 1 \in 0..MaxFailures
        BY <2>2, <2>3, KeyBasedAssumption DEF Skips, TypeOK
      <3>2. skips' \in [Users -> 0..MaxFailures]
        BY <2>1, <2>3, <3>1 DEF TypeOK
      <3> QED
        BY <1>2, <2>1, <2>2, <2>3, <3>2 DEF TakeUser, TypeOK
    <2>4. CASE ~Skips(u)
      BY <1>2, <2>1, <2>2, <2>4 DEF TakeUser, TypeOK
    <2> QED
      BY <2>3, <2>4
  <1>3. CASE FullPass
    BY <1>3, EndRunType DEF FullPass, TypeOK, RunTypeOK
  <1>4. CASE StopRun
    BY <1>4, EndRunType DEF StopRun, TypeOK, RunTypeOK
  <1>5. CASE FetchEvents
    <2>1. user \in Users
      BY <1>5 DEF FetchEvents, TypeOK
    <2>2. events' \subseteq Positions
      BY <1>5, <2>1, StreamsType DEF FetchEvents
    <2>3. withheld' \subseteq Users \X Positions
      BY <1>5 DEF FetchEvents, TypeOK
    <2> QED
      BY <1>5, <2>2, <2>3 DEF FetchEvents, TypeOK
  <1>6. CASE OutOfOrder
    BY <1>6, EndRunType DEF OutOfOrder, TypeOK, RunTypeOK
  <1>7. CASE FetchAtShutdown
    <2>1. user \in Users
      BY <1>7 DEF FetchAtShutdown, TypeOK
    <2> QED
      BY <1>7, <2>1, DeadlineType, BackoffType DEF FetchAtShutdown, TypeOK, RunTypeOK
  <1>8. ASSUME NEW r \in {"ok"} \cup ErrorClass, HandleEvent(r) PROVE TypeOK'
    <2>1. PICK p \in events :
             /\ outcome' = [outcome EXCEPT ![user][p] =
                              IF <<user, p>> \in Noise THEN "dropped" ELSE OutcomeOf(r)]
             /\ events' = events \ {p}
             /\ latest' = p
      BY <1>8 DEF HandleEvent
    <2>2. user \in Users /\ p \in Positions
      BY <1>8 DEF HandleEvent, TypeOK
    <2>3. (IF <<user, p>> \in Noise THEN "dropped" ELSE OutcomeOf(r)) \in Outcome
      BY DEF OutcomeOf, Outcome
    <2>4. outcome' \in [Users -> [Positions -> Outcome]]
      BY <2>1, <2>2, <2>3 DEF TypeOK
    <2>5. latest' \in 0..Len
      BY <2>1, <2>2, KeyBasedAssumption DEF Positions
    <2> QED
      BY <1>8, <2>1, <2>4, <2>5 DEF HandleEvent, TypeOK
  <1>9. ASSUME NEW stored \in BOOLEAN, FinishUser(stored) PROVE TypeOK'
    <2>1. user \in Users
      BY <1>9 DEF FinishUser, TypeOK
    <2>2. cursor' \in [Users -> 0..Len \cup {Absent}] /\ faults' \in Nat
      BY <1>9, <2>1, WriteCursorType DEF FinishUser, StoreLatest, TypeOK
    <2> QED
      BY <1>9, <2>1, <2>2, DeadlineType, BackoffType DEF FinishUser, TypeOK, RunTypeOK
  <1>10. ASSUME NEW stored \in BOOLEAN, StopAtForeign(stored) PROVE TypeOK'
    <2>1. user \in Users
      BY <1>10 DEF StopAtForeign, TypeOK
    <2>2. cursor' \in [Users -> 0..Len \cup {Absent}] /\ faults' \in Nat
      BY <1>10, <2>1, WriteCursorType DEF StopAtForeign, StoreLatest, TypeOK
    <2> QED
      BY <1>10, <2>1, <2>2, DeadlineType DEF StopAtForeign, TypeOK, RunTypeOK
  <1>11. ASSUME NEW notFound \in BOOLEAN, FetchFails(notFound) PROVE TypeOK'
    <2>1. user \in Users
      BY <1>11 DEF FetchFails, TypeOK
    <2>2. failures' \in [Users -> 0..MaxFailures] /\ skips' \in [Users -> 0..MaxFailures]
      BY <1>11, <2>1, BackoffType DEF FetchFails, TypeOK
    <2> QED
      BY <1>11, <2>2, DeadlineType DEF FetchFails, TypeOK, RunTypeOK
  <1>12. CASE RunAborts
    BY <1>12, EndRunType DEF RunAborts, TypeOK, RunTypeOK
  <1>13. ASSUME NEW stored \in BOOLEAN, HandlerAborts(stored) PROVE TypeOK'
    <2>1. user \in Users
      BY <1>13 DEF HandlerAborts, TypeOK
    <2>2. cursor' \in [Users -> 0..Len \cup {Absent}]
      BY <1>13, <2>1, WriteCursorType DEF HandlerAborts, TypeOK
    <2> QED
      BY <1>13, <2>2, EndRunType DEF HandlerAborts, TypeOK, RunTypeOK
  <1>14. CASE Crash
    <2>1. failures' \in [Users -> 0..MaxFailures] /\ skips' \in [Users -> 0..MaxFailures]
      BY <1>14, KeyBasedAssumption DEF Crash, Forget
    <2>2. stopping' \in BOOLEAN
      BY <1>14 DEF Crash
    <2> QED
      BY <1>14, <2>1, <2>2, EndRunType DEF Crash, Forget, TypeOK, RunTypeOK
  <1>15. CASE Shutdown
    BY <1>15 DEF Shutdown, TypeOK
  <1>16. CASE Restart
    <2>1. failures' \in [Users -> 0..MaxFailures] /\ skips' \in [Users -> 0..MaxFailures]
      BY <1>16, KeyBasedAssumption DEF Restart, Forget
    <2> QED
      BY <1>16, <2>1 DEF Restart, Forget, TypeOK
  <1>17. ASSUME NEW u \in Users, Publish(u) PROVE TypeOK'
    <2>1. head' \in [Users -> 0..Len]
      BY <1>17, KeyBasedAssumption DEF Publish, TypeOK
    <2> QED
      BY <1>17, <2>1 DEF Publish, TypeOK
  <1>18. ASSUME NEW u \in Users, Move(u) PROVE TypeOK'
    <2>1. hosted' \subseteq Users
      BY <1>18 DEF Move, TypeOK
    <2> QED
      BY <1>18, <2>1 DEF Move, TypeOK
  <1>19. ASSUME NEW u \in Users, Seed(u) PROVE TypeOK'
    <2>1. cursor' \in [Users -> 0..Len \cup {Absent}]
      BY <1>19, KeyBasedAssumption DEF Seed, TypeOK
    <2> QED
      BY <1>19, <2>1 DEF Seed, TypeOK
  <1>20. CASE UNCHANGED vars
    BY <1>20 DEF TypeOK, vars
  <1> QED
    BY <1>1, <1>2, <1>3, <1>4, <1>5, <1>6, <1>7, <1>8, <1>9, <1>10, <1>11,
       <1>12, <1>13, <1>14, <1>15, <1>16, <1>17, <1>18, <1>19, <1>20
    DEF Next, RunStep, Failure

(* Every variable of the external processor keeps its type.                *)
THEOREM TypeCorrect == Spec => []TypeOK
  BY TypeInit, TypeStep, PTL DEF Spec
-----------------------------------------------------------------------------
(* What lies at or below the cursors a run read, and below the events it   *)
(* is handling, is accounted for or still in its hands.                    *)
ReadIsAccounted ==
    \A u \in Users : \A p \in Positions : p <= at[u] => p \in Accounted(u)

OutOfBatch == pc # "events" => latest = Nothing

LatestIsAccounted ==
    pc = "events" => \A p \in Positions : p <= latest => p \in Accounted(user)

BatchIsWhole ==
    pc = "events" =>
        \A e \in events : \A p \in Positions :
            at[user] < p /\ p < e => p \in events \/ p \in Accounted(user)

ForeignUntouched == \A q \in Foreign : outcome[q[1]][q[2]] = "none"

IntakeInv ==
    NoGap /\ ReadIsAccounted /\ OutOfBatch /\ LatestIsAccounted /\ BatchIsWhole

(* A run that ended, and one that went on to its next user, hold no batch. *)
LEMMA LeftBatch ==
    ASSUME TypeOK, ReadIsAccounted, EndRun \/ DeadlineCheck,
           UNCHANGED <<outcome, withheld>>
    PROVE  ReadIsAccounted' /\ OutOfBatch' /\ LatestIsAccounted' /\ BatchIsWhole'
  <1>1. pc' # "events" /\ latest' = Nothing
    BY DEF EndRun, DeadlineCheck
  <1>2. at' = at \/ at' = [u \in Users |-> 0]
    BY DEF EndRun, DeadlineCheck
  <1>3. ReadIsAccounted'
    <2> SUFFICES ASSUME NEW u \in Users, NEW p \in Positions, p <= at'[u]
                 PROVE  p \in Accounted(u)'
      BY DEF ReadIsAccounted
    <2>1. at'[u] # 0
      BY KeyBasedAssumption DEF Positions
    <2>2. p <= at[u]
      BY <1>2, <2>1
    <2> QED
      BY <2>2 DEF ReadIsAccounted, Accounted
  <1> QED
    BY <1>1, <1>3 DEF OutOfBatch, LatestIsAccounted, BatchIsWhole

(* UserHsCursor::write at the end of a batch: the cursor only moves up, to *)
(* an event that is accounted for with everything below it.                *)
LEMMA WriteMovesUp ==
    ASSUME TypeOK, IntakeInv, pc = "events", WriteCursor
    PROVE  \A u \in Users :
              \/ cursor'[u] = cursor[u]
              \/ /\ cursor'[u] > cursor[u] /\ cursor'[u] \in 0..Len
                 /\ \A p \in Positions : p <= cursor'[u] => p \in Accounted(u)
  <1> SUFFICES ASSUME NEW u \in Users, cursor'[u] # cursor[u]
               PROVE  /\ cursor'[u] > cursor[u] /\ cursor'[u] \in 0..Len
                      /\ \A p \in Positions : p <= cursor'[u] => p \in Accounted(u)
    OBVIOUS
  <1>1. u = user /\ cursor'[u] = latest /\ latest >= ReadCursor(u)
    BY DEF WriteCursor, TypeOK
  <1>2. cursor'[u] > cursor[u] /\ cursor'[u] \in 0..Len
    BY <1>1, KeyBasedAssumption DEF ReadCursor, TypeOK, Absent
  <1> QED
    BY <1>1, <1>2 DEF IntakeInv, LatestIsAccounted

(* What a step does to each user's stream, as EventIntake sees it.         *)
Advances(u) ==
    \/ cursor'[u] = cursor[u] /\ Accounted(u) \subseteq Accounted(u)'
    \/ /\ cursor'[u] > cursor[u] /\ cursor'[u] \in 0..Len
       /\ Accounted(u)' = Accounted(u)
       /\ \A p \in Positions : p <= cursor'[u] => p \in Accounted(u)

LEMMA AdvanceKeepsNoGap ==
    ASSUME TypeOK, NoGap, \A u \in Users : Advances(u)
    PROVE  NoGap'
  BY DEF NoGap, Advances

LEMMA StoredStep ==
    ASSUME TypeOK, IntakeInv, pc = "events", WriteCursor \/ UNCHANGED cursor,
           UNCHANGED <<outcome, withheld>>
    PROVE  \A u \in Users : Advances(u)
  BY WriteMovesUp DEF Advances, Accounted

(* No step takes a cursor back, and none moves it over an open event; the  *)
(* batch in hand stays whole.                                              *)
LEMMA IntakeStep ==
    ASSUME TypeOK, IntakeInv, [Next]_vars
    PROVE  (\A u \in Users : Advances(u)) /\ IntakeInv'
  <1> DEFINE Goal == (\A u \in Users : Advances(u)) /\ IntakeInv'
  <1> SUFFICES Goal
    OBVIOUS
  <1> USE DEF storeVars, memoryVars, runVars, envVars
  <1>a. ASSUME UNCHANGED storeVars, UNCHANGED withheld, EndRun \/ DeadlineCheck
        PROVE  Goal
    <2>1. \A u \in Users : Advances(u)
      BY <1>a DEF Advances, Accounted
    <2> QED
      BY <1>a, <2>1, LeftBatch, AdvanceKeepsNoGap DEF IntakeInv
  <1>b. ASSUME UNCHANGED storeVars, UNCHANGED withheld, UNCHANGED runVars
        PROVE  Goal
    BY <1>b DEF Advances, Accounted, IntakeInv, NoGap, ReadIsAccounted, OutOfBatch,
                LatestIsAccounted, BatchIsWhole
  <1>c. ASSUME pc = "events", WriteCursor \/ UNCHANGED cursor,
               UNCHANGED <<outcome, withheld>>, EndRun \/ DeadlineCheck
        PROVE  Goal
    BY <1>c, StoredStep, LeftBatch, AdvanceKeepsNoGap DEF IntakeInv
  <1>1. CASE StartRun
    <2>1. \A u \in Users : Advances(u)
      BY <1>1 DEF StartRun, Advances, Accounted
    <2>2. ReadIsAccounted'
      <3> SUFFICES ASSUME NEW u \in Users, NEW p \in Positions, p <= at'[u]
                   PROVE  p \in Accounted(u)'
        BY DEF ReadIsAccounted
      <3>1. at'[u] = (IF u \in hosted THEN ReadCursor(u) ELSE 0) /\ at'[u] # 0
        BY <1>1, KeyBasedAssumption DEF StartRun, Positions
      <3>2. p <= cursor[u]
        BY <3>1 DEF ReadCursor
      <3> QED
        BY <1>1, <3>2 DEF StartRun, IntakeInv, NoGap, Accounted
    <2> QED
      BY <1>1, <2>1, <2>2, AdvanceKeepsNoGap
      DEF StartRun, IntakeInv, OutOfBatch, LatestIsAccounted, BatchIsWhole
  <1>2. CASE TakeUser
    <2>1. pc = "users" /\ pc' \in {"users", "fetch"}
      BY <1>2 DEF TakeUser
    <2>2. UNCHANGED <<cursor, outcome, withheld, at, latest>>
      BY <1>2 DEF TakeUser
    <2> QED
      BY <2>1, <2>2 DEF Advances, Accounted, IntakeInv, NoGap, ReadIsAccounted, OutOfBatch,
                        LatestIsAccounted, BatchIsWhole
  <1>3. CASE FullPass
    BY <1>3, <1>a DEF FullPass
  <1>4. CASE StopRun
    BY <1>4, <1>a DEF StopRun
  <1>5. CASE FetchEvents
    <2>1. PICK S \in Streams(user) :
             /\ InOrder(user, S) /\ events' = S
             /\ withheld' = withheld \cup
                   {q \in Users \X Positions :
                       /\ q[1] = user /\ q[2] > at[user] /\ q[2] \notin S
                       /\ \E p \in S : q[2] < p}
      BY <1>5 DEF FetchEvents
    <2>2. user \in Users
      BY <1>5 DEF FetchEvents, TypeOK
    <2>3. \A u \in Users : Accounted(u) \subseteq Accounted(u)'
      BY <1>5, <2>1 DEF FetchEvents, Accounted
    <2>4. \A u \in Users : Advances(u)
      BY <1>5, <2>3 DEF FetchEvents, Advances
    <2>5. ReadIsAccounted' /\ OutOfBatch'
      BY <1>5, <2>3 DEF FetchEvents, IntakeInv, ReadIsAccounted, OutOfBatch
    <2>6. LatestIsAccounted'
      BY <1>5, KeyBasedAssumption
      DEF FetchEvents, IntakeInv, OutOfBatch, LatestIsAccounted, Nothing, Positions
    <2>7. BatchIsWhole'
      <3> SUFFICES ASSUME NEW e \in S, NEW p \in Positions, at[user] < p, p < e, p \notin S
                   PROVE  p \in Accounted(user)'
        BY <1>5, <2>1 DEF FetchEvents, BatchIsWhole
      <3>1. at[user] \in Int
        BY <2>2, KeyBasedAssumption DEF TypeOK
      <3>2. p > at[user]
        BY <3>1, KeyBasedAssumption DEF Positions
      <3>3. <<user, p>> \in withheld'
        BY <2>1, <2>2, <3>2
      <3> QED
        BY <1>5, <3>3 DEF FetchEvents, Accounted
    <2> QED
      BY <2>4, <2>5, <2>6, <2>7, AdvanceKeepsNoGap DEF IntakeInv
  <1>6. CASE OutOfOrder
    BY <1>6, <1>a DEF OutOfOrder
  <1>7. CASE FetchAtShutdown
    BY <1>7, <1>a DEF FetchAtShutdown
  <1>8. ASSUME NEW r \in {"ok"} \cup ErrorClass, HandleEvent(r) PROVE Goal
    <2>1. PICK p \in events :
             /\ NextEvent(p)
             /\ outcome' = [outcome EXCEPT ![user][p] =
                              IF <<user, p>> \in Noise THEN "dropped" ELSE OutcomeOf(r)]
             /\ events' = events \ {p}
             /\ latest' = p
      BY <1>8 DEF HandleEvent
    <2>2. user \in Users /\ p \in Positions /\ user' = user
      BY <1>8 DEF HandleEvent, TypeOK
    <2>3. (IF <<user, p>> \in Noise THEN "dropped" ELSE OutcomeOf(r)) # "none"
      BY DEF OutcomeOf
    <2>4. p \in Accounted(user)'
      BY <2>1, <2>2, <2>3 DEF Accounted, TypeOK
    <2>5. ASSUME NEW u \in Users PROVE Accounted(u) \subseteq Accounted(u)'
      <3> SUFFICES ASSUME NEW q \in Accounted(u) PROVE q \in Accounted(u)'
        OBVIOUS
      <3>1. CASE u = user /\ q = p
        BY <3>1, <2>2, <2>4 DEF Accounted
      <3>2. CASE ~(u = user /\ q = p)
        <4>1. outcome'[u][q] = outcome[u][q]
          BY <2>1, <2>2, <3>2 DEF TypeOK, Accounted
        <4> QED
          BY <1>8, <4>1 DEF HandleEvent, Accounted
      <3> QED
        BY <3>1, <3>2
    <2>6. \A u \in Users : Advances(u)
      BY <1>8, <2>5 DEF HandleEvent, Advances
    <2>7. ReadIsAccounted' /\ OutOfBatch'
      BY <1>8, <2>5 DEF HandleEvent, IntakeInv, ReadIsAccounted, OutOfBatch
    <2>8. LatestIsAccounted'
      <3> SUFFICES ASSUME NEW q \in Positions, q <= p PROVE q \in Accounted(user)'
        BY <1>8, <2>1 DEF HandleEvent, LatestIsAccounted
      <3>1. CASE q = p
        BY <3>1, <2>4
      <3>2. CASE q <= at[user]
        BY <2>2, <2>5, <3>2 DEF IntakeInv, ReadIsAccounted, Accounted
      <3>3. CASE q # p /\ ~(q <= at[user])
        <4>1. q < p /\ at[user] < q
          BY <2>2, <3>3, KeyBasedAssumption DEF TypeOK, Positions
        <4>2. q \notin events
          BY <2>1, <2>2, <4>1, KeyBasedAssumption DEF NextEvent, Positions
        <4>3. q \in Accounted(user)
          BY <1>8, <2>1, <4>1, <4>2 DEF HandleEvent, IntakeInv, BatchIsWhole
        <4> QED
          BY <2>2, <2>5, <4>3 DEF Accounted
      <3> QED
        BY <3>1, <3>2, <3>3
    <2>9. BatchIsWhole'
      BY <1>8, <2>1, <2>2, <2>4, <2>5 DEF HandleEvent, IntakeInv, BatchIsWhole
    <2> QED
      BY <2>6, <2>7, <2>8, <2>9, AdvanceKeepsNoGap DEF IntakeInv
  <1>9. ASSUME NEW stored \in BOOLEAN, FinishUser(stored) PROVE Goal
    BY <1>9, <1>c DEF FinishUser, StoreLatest
  <1>10. ASSUME NEW stored \in BOOLEAN, StopAtForeign(stored) PROVE Goal
    BY <1>10, <1>c DEF StopAtForeign, StoreLatest
  <1>11. ASSUME NEW notFound \in BOOLEAN, FetchFails(notFound) PROVE Goal
    BY <1>11, <1>a DEF FetchFails
  <1>12. CASE RunAborts
    BY <1>12, <1>a DEF RunAborts
  <1>13. ASSUME NEW stored \in BOOLEAN, HandlerAborts(stored) PROVE Goal
    BY <1>13, <1>c DEF HandlerAborts
  <1>14. CASE Crash
    BY <1>14, <1>a DEF Crash
  <1>15. CASE Shutdown
    BY <1>15, <1>b DEF Shutdown
  <1>16. CASE Restart
    BY <1>16, <1>b DEF Restart
  <1>17. ASSUME NEW u \in Users, Publish(u) PROVE Goal
    BY <1>17, <1>b DEF Publish
  <1>18. ASSUME NEW u \in Users, Move(u) PROVE Goal
    BY <1>18, <1>b DEF Move
  <1>19. ASSUME NEW u \in Users, Seed(u) PROVE Goal
    <2>1. cursor' = [cursor EXCEPT ![u] = 0] /\ cursor[u] = -1
      BY <1>19 DEF Seed, Absent
    <2>2. UNCHANGED <<outcome, withheld>> /\ UNCHANGED runVars
      BY <1>19 DEF Seed
    <2>3. \A v \in Users : Advances(v)
      BY <2>1, <2>2, KeyBasedAssumption DEF TypeOK, Advances, Accounted, Positions
    <2> QED
      BY <2>2, <2>3, AdvanceKeepsNoGap
      DEF IntakeInv, ReadIsAccounted, OutOfBatch, LatestIsAccounted, BatchIsWhole, Accounted
  <1>20. CASE UNCHANGED vars
    BY <1>20, <1>b DEF vars
  <1> HIDE DEF Goal
  <1> QED
    BY <1>1, <1>2, <1>3, <1>4, <1>5, <1>6, <1>7, <1>8, <1>9, <1>10, <1>11,
       <1>12, <1>13, <1>14, <1>15, <1>16, <1>17, <1>18, <1>19, <1>20
    DEF Next, RunStep, Failure

LEMMA IntakeInit == Init => IntakeInv
  BY KeyBasedAssumption
  DEF Init, IntakeInv, NoGap, ReadIsAccounted, OutOfBatch, LatestIsAccounted,
      BatchIsWhole, Absent, Positions

LEMMA Invariance == Spec => [](TypeOK /\ IntakeInv)
  <1>1. Init => TypeOK /\ IntakeInv
    BY TypeInit, IntakeInit
  <1>2. TypeOK /\ IntakeInv /\ [Next]_vars => TypeOK' /\ IntakeInv'
    BY TypeStep, IntakeStep
  <1> QED
    BY <1>1, <1>2, PTL DEF Spec

(* Whatever the homeserver sends and wherever a run is cut short, a user's *)
(* stored cursor passes only events that are accounted for.                *)
THEOREM CursorPassesNothing == Spec => []NoGap
  <1>1. TypeOK /\ IntakeInv => NoGap
    BY DEF IntakeInv
  <1> QED
    BY <1>1, Invariance, PTL

(* A step that takes no user's stored cursor back.                         *)
CursorsMoveUp == \A u \in Users : cursor'[u] >= cursor[u]

(* No stored cursor ever moves back: a late write of an aborted run, the   *)
(* ingestor's seed or a repeated event cannot reopen what was passed.      *)
THEOREM CursorsNeverMoveBack == Spec => [][CursorsMoveUp]_vars
  <1>1. TypeOK /\ IntakeInv /\ [Next]_vars => [CursorsMoveUp]_vars
    <2> SUFFICES ASSUME TypeOK, IntakeInv, [Next]_vars, NEW u \in Users
                 PROVE  cursor'[u] >= cursor[u]
      BY DEF CursorsMoveUp
    <2>1. Advances(u)
      BY IntakeStep
    <2>2. cursor[u] \in Int
      BY KeyBasedAssumption DEF TypeOK, Absent
    <2> QED
      BY <2>1, <2>2, KeyBasedAssumption DEF Advances
  <1> QED
    BY <1>1, Invariance, PTL DEF Spec

-----------------------------------------------------------------------------
(* An event of another owner has no outcome: only HandleEvent gives one,   *)
(* and it stops before such an event.                                      *)
LEMMA ForeignStep ==
    ASSUME TypeOK, ForeignUntouched, [Next]_vars
    PROVE  ForeignUntouched'
  <1> USE DEF storeVars
  <1>1. CASE UNCHANGED outcome
    BY <1>1 DEF ForeignUntouched
  <1>2. ASSUME NEW r \in {"ok"} \cup ErrorClass, HandleEvent(r) PROVE ForeignUntouched'
    <2>1. PICK p \in events :
             /\ MayPass(user, p)
             /\ outcome' = [outcome EXCEPT ![user][p] =
                              IF <<user, p>> \in Noise THEN "dropped" ELSE OutcomeOf(r)]
      BY <1>2 DEF HandleEvent
    <2>2. user \in Users /\ p \in Positions
      BY <1>2 DEF HandleEvent, TypeOK
    <2>3. ASSUME NEW q \in Foreign PROVE outcome'[q[1]][q[2]] = "none"
      <3>1. q[1] \in Users /\ q[2] \in Positions /\ q = <<q[1], q[2]>>
        BY KeyBasedAssumption
      <3>2. ~(q[1] = user /\ q[2] = p)
        BY <2>1, <3>1 DEF MayPass
      <3>3. outcome'[q[1]][q[2]] = outcome[q[1]][q[2]]
        BY <2>1, <2>2, <3>1, <3>2 DEF TypeOK
      <3> QED
        BY <3>3 DEF ForeignUntouched
    <2> QED
      BY <2>3 DEF ForeignUntouched
  <1>3. CASE \/ StartRun \/ TakeUser \/ FullPass \/ StopRun
             \/ FetchEvents \/ OutOfOrder \/ FetchAtShutdown
    BY <1>1, <1>3 DEF StartRun, TakeUser, FullPass, StopRun, FetchEvents,
                      OutOfOrder, FetchAtShutdown
  <1>4. ASSUME NEW stored \in BOOLEAN, FinishUser(stored) \/ StopAtForeign(stored)
        PROVE  ForeignUntouched'
    BY <1>1, <1>4 DEF FinishUser, StopAtForeign
  <1>5. CASE Failure
    BY <1>1, <1>4, <1>5 DEF Failure, FetchFails, RunAborts, HandlerAborts, Crash, Shutdown
  <1>6. ASSUME Restart \/ \E u \in Users : Publish(u) \/ Move(u) \/ Seed(u)
        PROVE  ForeignUntouched'
    BY <1>1, <1>6 DEF Restart, Publish, Move, Seed
  <1>7. CASE UNCHANGED vars
    BY <1>1, <1>7 DEF vars
  <1> QED
    BY <1>2, <1>3, <1>4, <1>5, <1>6, <1>7 DEF Next, RunStep

(* validate_user_id holds the line: an event whose resource belongs to     *)
(* somebody else is never handled, and no cursor passes one that was seen. *)
THEOREM ForeignIsNeverTaken == Spec => []ForeignNeverTaken
  <1>1. Init => ForeignUntouched
    BY KeyBasedAssumption DEF Init, ForeignUntouched
  <1>2. TypeOK /\ ForeignUntouched /\ [Next]_vars => ForeignUntouched'
    BY ForeignStep
  <1>3. TypeOK /\ IntakeInv /\ ForeignUntouched => ForeignNeverTaken
    <2> SUFFICES ASSUME TypeOK, NoGap, ForeignUntouched,
                        NEW q \in Foreign, cursor[q[1]] >= q[2]
                 PROVE  q \in withheld
      BY DEF IntakeInv, ForeignNeverTaken, ForeignUntouched
    <2>1. q[1] \in Users /\ q[2] \in Positions /\ q = <<q[1], q[2]>>
      BY KeyBasedAssumption
    <2>2. q[2] <= cursor[q[1]]
      BY <2>1, KeyBasedAssumption DEF TypeOK, Positions, Absent
    <2>3. q[2] \in Accounted(q[1])
      BY <2>1, <2>2 DEF NoGap
    <2> QED
      BY <2>1, <2>3 DEF Accounted, ForeignUntouched
  <1> QED
    BY <1>1, <1>2, <1>3, Invariance, PTL DEF Spec

-----------------------------------------------------------------------------
(* A processor of many users implements one EventIntake per user: a run    *)
(* takes events of one of them, a cursor write commits what was taken.     *)
THEOREM ProcessorImplementsIntake == Spec => IntakeSpec
  <1>1. Init => \A u \in Users : Intake(u)!Init
    BY DEF Init, Intake!Init, Accounted, Absent
  <1>2. TypeOK /\ IntakeInv /\ [Next]_vars
           => [\A u \in Users : Intake(u)!Next \/ UNCHANGED Intake(u)!intakeVars]_vars
    <2> SUFFICES ASSUME TypeOK, IntakeInv, [Next]_vars, NEW u \in Users
                 PROVE  Intake(u)!Next
      OBVIOUS
    <2>1. CASE cursor'[u] = cursor[u] /\ Accounted(u) \subseteq Accounted(u)'
      BY <2>1 DEF Intake!Next, Intake!Take, Absent
    <2>2. CASE /\ cursor'[u] > cursor[u] /\ cursor'[u] \in 0..Len
               /\ Accounted(u)' = Accounted(u)
               /\ \A p \in Positions : p <= cursor'[u] => p \in Accounted(u)
      <3>1. 1..cursor'[u] \subseteq Accounted(u)
        BY <2>2, KeyBasedAssumption DEF Positions
      <3> QED
        BY <2>2, <3>1 DEF Intake!Next, Intake!Commit, Intake!Covered, Absent
    <2> QED
      BY <2>1, <2>2, IntakeStep DEF Advances
  <1> QED
    BY <1>1, <1>2, Invariance, PTL DEF Spec, IntakeSpec
=============================================================================

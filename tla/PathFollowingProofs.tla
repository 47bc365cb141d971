------------------------- MODULE PathFollowingProofs -------------------------
(***************************************************************************)
(* Theorems about PathFollowing for any number of goals and any way in     *)
(* which building the path may end.                                        *)
(*                                                                         *)
(* That the program ends only after its goal was met rests on GoalInv:     *)
(* goal_reached is never reset, and once it is set a follower that begins  *)
(* again leaves its loop at once, so nothing is copied any more.           *)
(*                                                                         *)
(* What the follower can have for the state of the robot is in CopyInv:    *)
(* the observer, once its flag is set, has numbers of estimates only, and  *)
(* one estimate whole while main is not writing; a copy has what the       *)
(* observer had, unless main wrote meanwhile.                              *)
(***************************************************************************)
EXTENDS PathFollowing, TLAPS

\* queued and round stay within the bound.
RoundInv == /\ main = "assign" => round < MaxRounds
            /\ main # "assign" => round > 0
            /\ follower \notin {"idle", "exited"} => round > 0
            /\ \A t \in Tasks : queued[t] <= round

PathInv == /\ pobs.updated => pobs.resource
           /\ follower \in {"take", "loop", "reached", "report", "drive", "news", "lock",
                            "copy", "leave", "print"} => pobs.resource

GoalInv ==
    /\ goalReached => /\ reached # {} /\ pobs.resource
                      /\ stopAll \/ follower = "report"
                      /\ follower \notin {"reached", "drive", "news", "lock", "copy"}
    /\ ~goalReached => /\ main \in {"assign", "estimate", "publish", "write", "sleep"}
                       /\ main = "assign" => round = 0
    /\ follower = "report" => goalReached

Estimated(p) == \A f \in Fields : \E e \in seen : p[f] = e[f]

ObserverInv == /\ main \in {"publish", "write"} => estimate \in seen
               /\ main # "write" => written = {}
               /\ \A f \in written : sobs.resource[f] = estimate[f]
               /\ sobs.updated => Estimated(sobs.resource)
               /\ sobs.updated /\ main # "write" => sobs.resource \in seen
               /\ follower \in {"lock", "copy"} => sobs.updated

CopyInv ==
    /\ follower # "copy" =>
         /\ copied = {}
         /\ state = Start \/ (Estimated(state) /\ (state \in seen \/ overlapped))
    /\ follower = "copy" =>
         /\ \A f \in copied : \E e \in seen : state[f] = e[f]
         /\ \/ overlapped
            \/ sobs.resource \in seen /\ \A f \in copied : state[f] = sobs.resource[f]
    /\ follower = "reached" => state \in Near

FInv == TypeOK /\ RoundInv /\ PathNotMissed /\ PathInv /\ GoalInv /\ ObserverInv /\ CopyInv

LEMMA InitInv == Init => FInv
<1> SUFFICES ASSUME Init PROVE FInv
  OBVIOUS
<1>1. ControlOK /\ StatesOK
  BY StartAssumption DEF Init, ControlOK, StatesOK, Tasks
<1>2. FlagsOK /\ PathNotMissed /\ PathInv
  BY DEF Init, FlagsOK, PathNotMissed, PathInv
<1>3. RoundsOK /\ RoundInv
  BY RoundsAssumption DEF Init, RoundsOK, RoundInv, Tasks
<1>4. GoalInv /\ ObserverInv /\ CopyInv
  BY DEF Init, GoalInv, ObserverInv, CopyInv
<1> QED BY <1>1, <1>2, <1>3, <1>4 DEF FInv, TypeOK

-----------------------------------------------------------------------------
(* Types and bounds.                                                        *)

LEMMA NextControl == ASSUME ControlOK, [Next]_vars PROVE ControlOK'
<1> USE DEF ControlOK
<1>1. CASE Main
  <2>1. CASE Assign \/ Estimate
    BY <2>1 DEF Assign, Estimate, poolVars
  <2>2. CASE Publish \/ Writes
    BY <2>2 DEF Publish, Writes, poolVars
  <2>3. CASE TakeMessages \/ WakeUp \/ Goodbye
    BY <2>3 DEF TakeMessages, WakeUp, Goodbye, poolVars
  <2>4. CASE Answer
    <3>1. main' \in {"close", "assign"}
      BY <2>4 DEF Answer
    <3> QED BY <2>4, <3>1 DEF Answer, poolVars
  <2>5. CASE Close
    BY <2>5 DEF Close, Tasks
  <2> QED BY <1>1, <2>1, <2>2, <2>3, <2>4, <2>5 DEF Main
<1>2. CASE Constructor
  <2>1. CASE Plans
    <3>1. constructor' \in {"publish", "idle", "endless"}
      BY <2>1, OutcomesAssumption DEF Plans
    <3> QED BY <2>1, <3>1 DEF Plans, poolVars
  <2>2. CASE ConstructorStarts
    BY <2>2 DEF ConstructorStarts
  <2>3. CASE SeesGoalAndState
    BY <2>3 DEF SeesGoalAndState, poolVars
  <2>4. CASE ReadsState \/ CopiesState
    BY <2>4 DEF ReadsState, CopiesState, poolVars
  <2>5. CASE PublishesPath
    BY <2>5 DEF PublishesPath, poolVars
  <2> QED
    BY <1>2, <2>1, <2>2, <2>3, <2>4, <2>5 DEF Constructor
<1>3. CASE Follower
  BY <1>3 DEF Follower, FollowerMoves, FollowerStarts, FollowerWaits, WaitsForPath, TakesPath,
              Loops, SetsGoalReached, SetsStops, Drives, ReadsNews, CopiesNews, Leaves
<1>4. CASE SpuriousWakeup \/ UNCHANGED vars
  BY <1>4 DEF SpuriousWakeup, vars, poolVars
<1> QED BY <1>1, <1>2, <1>3, <1>4 DEF Next

LEMMA NextFlags == ASSUME FlagsOK, [Next]_vars PROVE FlagsOK'
<1> USE DEF FlagsOK
<1>1. CASE Main
  <2>1. CASE Writes
    <3>1. overlapped' \in BOOLEAN
      BY <2>1 DEF Writes
    <3> QED BY <2>1, <3>1, Zenon DEF Writes, flags
  <2> QED
    BY <1>1, <2>1, Zenon DEF Main, Assign, Estimate, Publish, TakeMessages, WakeUp, Goodbye,
                             Answer, Close, flags, observers, copying
<1>2. CASE Constructor
  <2>1. CASE PublishesPath
    <3>1. pobs' \in [resource : BOOLEAN, updated : BOOLEAN]
      BY <2>1 DEF PublishesPath
    <3> QED BY <2>1, <3>1, Zenon DEF PublishesPath, flags, copying
  <2> QED
    BY <1>2, <2>1, Zenon DEF Constructor, ConstructorStarts, SeesGoalAndState, ReadsState,
                             CopiesState, Plans, flags, observers, copying
<1>3. CASE Follower
  <2>1. CASE FollowerWaits
    <3>1. pobs' \in [resource : BOOLEAN, updated : BOOLEAN]
      BY <2>1 DEF FollowerWaits, WaitsForPath, TakesPath
    <3> QED
      BY <2>1, <3>1, Zenon DEF FollowerWaits, WaitsForPath, TakesPath, FollowerMoves, flags, copying
  <2> QED
    BY <1>3, <2>1, Zenon DEF Follower, FollowerMoves, FollowerStarts, Loops, SetsGoalReached,
                             SetsStops, Drives, ReadsNews, CopiesNews, Leaves, flags, copying
<1>4. CASE SpuriousWakeup \/ UNCHANGED vars
  BY <1>4, Zenon DEF SpuriousWakeup, vars, flags, observers, copying
<1> QED BY <1>1, <1>2, <1>3, <1>4 DEF Next

LEMMA NextStates == ASSUME StatesOK, [Next]_vars PROVE StatesOK'
<1> USE DEF StatesOK
<1>1. CASE Assign
  BY <1>1, StartAssumption DEF Assign
<1>2. CASE Estimate
  BY <1>2 DEF Estimate, observers, copying
<1>3. CASE Writes
  <2>1. CASE written = Fields /\ sobs' = [sobs EXCEPT !.updated = TRUE] /\ written' = {}
    BY <1>3, <2>1 DEF Writes, history
  <2>2. ASSUME NEW f \in Fields, sobs' = [sobs EXCEPT !.resource[f] = estimate[f]],
               written' = written \cup {f}
        PROVE  StatesOK'
    <3>1. sobs'.resource = [sobs.resource EXCEPT ![f] = estimate[f]]
      BY <2>2
    <3>2. estimate[f] \in Coordinates
      BY DEF Position
    <3>3. sobs'.resource \in Position
      BY <3>1, <3>2 DEF Position
    <3>4. sobs' \in [resource : Position, updated : BOOLEAN]
      BY <2>2, <3>3
    <3> QED BY <1>3, <2>2, <3>4 DEF Writes, history
  <2> QED BY <1>3, <2>1, <2>2 DEF Writes
<1>4. CASE CopiesNews
  <2>1. sobs' \in [resource : Position, updated : BOOLEAN] /\ copied' \subseteq Fields
    BY <1>4 DEF CopiesNews
  <2>2. state' \in Position
    <3>1. \A f \in Fields : sobs.resource[f] \in Coordinates
      BY DEF Position
    <3> QED BY <1>4, <3>1 DEF CopiesNews, Position
  <2> QED BY <1>4, <2>1, <2>2 DEF CopiesNews, FollowerMoves
<1>5. CASE Publish \/ TakeMessages \/ WakeUp \/ Goodbye \/ Answer \/ Close
  BY <1>5 DEF Publish, TakeMessages, WakeUp, Goodbye, Answer, Close, observers, copying, history
<1>6. CASE Constructor
  BY <1>6 DEF Constructor, ConstructorStarts, SeesGoalAndState, ReadsState, CopiesState,
              Plans, PublishesPath, observers, copying, history
<1>7. CASE FollowerStarts \/ FollowerWaits \/ Loops \/ SetsGoalReached \/ SetsStops \/ Drives
           \/ ReadsNews \/ Leaves
  BY <1>7 DEF FollowerMoves, FollowerStarts, FollowerWaits, WaitsForPath, TakesPath,
              Loops, SetsGoalReached, SetsStops, Drives, ReadsNews, Leaves, copying
<1>8. CASE SpuriousWakeup \/ UNCHANGED vars
  BY <1>8 DEF SpuriousWakeup, vars, observers, copying, history
<1> QED BY <1>1, <1>2, <1>3, <1>4, <1>5, <1>6, <1>7, <1>8 DEF Next, Main, Follower

LEMMA NextRounds ==
    ASSUME RoundsOK, RoundInv, [Next]_vars
    PROVE  round' \in 0..MaxRounds /\ queued' \in [Tasks -> 0..MaxRounds] /\ RoundInv'
<1> USE RoundsAssumption DEF RoundsOK, RoundInv
<1>1. CASE Assign
  <2>1. round + 1 \in 0..MaxRounds /\ \A t \in Tasks : queued[t] + 1 \in 0..(round + 1)
    BY <1>1 DEF Assign
  <2>2. round' = round + 1 /\ main' # "assign" /\ \A t \in Tasks : queued'[t] = queued[t] + 1
    BY <1>1 DEF Assign
  <2>3. queued' \in [Tasks -> 0..MaxRounds] /\ \A t \in Tasks : queued'[t] <= round'
    BY <1>1, <2>1, <2>2 DEF Assign
  <2> QED BY <1>1, <2>1, <2>2, <2>3
<1>2. CASE Estimate \/ Publish \/ Writes \/ TakeMessages \/ WakeUp \/ Goodbye \/ Answer \/ Close
  <2>1. /\ main # "assign" /\ UNCHANGED <<queued, round>>
        /\ follower' = follower
        /\ main' = "assign" => round < MaxRounds
    BY <1>2 DEF Estimate, Publish, Writes, TakeMessages, WakeUp, Goodbye, Answer, Close, poolVars,
                history
  <2> QED BY <2>1
<1>3. ASSUME NEW t \in Tasks, queued[t] > 0, queued' = [queued EXCEPT ![t] = @ - 1],
             UNCHANGED <<main, round>>
      PROVE  round' \in 0..MaxRounds /\ queued' \in [Tasks -> 0..MaxRounds] /\ RoundInv'
  <2>1. \A u \in Tasks : queued'[u] \in 0..round
    BY <1>3
  <2>2. round > 0
    BY <1>3
  <2>3. queued' \in [Tasks -> 0..MaxRounds]
    BY <1>3, <2>1
  <2> QED BY <1>3, <2>1, <2>2, <2>3
<1>4. CASE ConstructorStarts
  <2>1. CASE queued' = queued
    BY <1>4, <2>1 DEF ConstructorStarts, history
  <2>2. CASE queued' # queued
    BY <1>3, <1>4, <2>2 DEF ConstructorStarts, Tasks, history
  <2> QED BY <2>1, <2>2
<1>5. CASE SeesGoalAndState \/ ReadsState \/ CopiesState \/ Plans \/ PublishesPath
           \/ SpuriousWakeup \/ UNCHANGED vars
  <2>1. /\ UNCHANGED <<main, queued, round>>
        /\ follower' \notin {"idle", "exited"} => follower \notin {"idle", "exited"}
    BY <1>5 DEF SeesGoalAndState, ReadsState, CopiesState, Plans, PublishesPath, SpuriousWakeup,
                vars, poolVars, history
  <2> QED BY <2>1
<1>6. CASE FollowerStarts
  <2>1. CASE follower' = "exited"
    BY <1>6, <2>1 DEF FollowerStarts, FollowerMoves
  <2>2. CASE follower' # "exited"
    BY <1>3, <1>6, <2>2 DEF FollowerStarts, FollowerMoves, Tasks
  <2> QED BY <2>1, <2>2
<1>7. CASE FollowerWaits \/ Loops \/ SetsGoalReached \/ SetsStops \/ Drives
           \/ ReadsNews \/ CopiesNews \/ Leaves
  <2>1. /\ UNCHANGED <<main, queued, round>>
        /\ follower \notin {"idle", "exited"}
    BY <1>7 DEF FollowerWaits, WaitsForPath, TakesPath, Loops, SetsGoalReached, SetsStops, Drives,
                ReadsNews, CopiesNews, Leaves, FollowerMoves
  <2> QED BY <2>1
<1> QED
  BY <1>1, <1>2, <1>4, <1>5, <1>6, <1>7 DEF Next, Main, Constructor, Follower

-----------------------------------------------------------------------------
(* The path: set before it is announced, announced to who sleeps.           *)

LEMMA NextPath ==
    ASSUME FlagsOK, PathNotMissed, PathInv, [Next]_vars
    PROVE  PathNotMissed' /\ PathInv'
<1> USE DEF PathNotMissed, PathInv
<1>1. CASE Main \/ UNCHANGED vars
  BY <1>1 DEF Main, Assign, Estimate, Publish, Writes, TakeMessages, WakeUp, Goodbye, Answer, Close,
              vars, observers
<1>2. CASE PublishesPath
  BY <1>2 DEF PublishesPath
<1>3. CASE ConstructorStarts \/ SeesGoalAndState \/ ReadsState \/ CopiesState \/ Plans
           \/ SpuriousWakeup
  BY <1>3 DEF ConstructorStarts, SeesGoalAndState, ReadsState, CopiesState, Plans,
              SpuriousWakeup, observers
<1>4. CASE TakesPath
  BY <1>4 DEF TakesPath, FollowerMoves, FlagsOK
<1>5. CASE FollowerStarts \/ WaitsForPath \/ Loops \/ SetsGoalReached \/ SetsStops \/ Drives
           \/ ReadsNews \/ CopiesNews \/ Leaves
  BY <1>5 DEF FollowerStarts, WaitsForPath, Loops, SetsGoalReached, SetsStops, Drives,
              ReadsNews, CopiesNews, Leaves, FollowerMoves
<1> QED
  BY <1>1, <1>2, <1>3, <1>4, <1>5 DEF Next, Constructor, Follower, FollowerWaits

-----------------------------------------------------------------------------
(* The goal.                                                                *)

LEMMA NextGoal ==
    ASSUME FlagsOK, RoundInv, PathInv, GoalInv, CopyInv, [Next]_vars
    PROVE  GoalInv'
<1> USE DEF GoalInv
<1>1. CASE Assign \/ Estimate \/ Publish \/ Writes \/ TakeMessages \/ WakeUp
  BY <1>1 DEF Assign, Estimate, Publish, Writes, TakeMessages, WakeUp, flags, observers, history
<1>2. CASE Goodbye \/ Answer \/ Close
  <2>1. main \in {"goodbye", "ask", "close"}
    BY <1>2 DEF Goodbye, Answer, Close
  <2>2. goalReached
    BY <2>1
  <2>3. UNCHANGED <<goalReached, follower, pobs, reached>>
    BY <1>2 DEF Goodbye, Answer, Close, flags, observers, history
  <2>4. stopAll' \/ UNCHANGED stopAll
    BY <1>2 DEF Goodbye, Answer, Close, flags
  <2>5. stopAll => stopAll'
    BY <2>4
  <2> QED BY <2>2, <2>3, <2>5
<1>3. CASE Constructor \/ SpuriousWakeup \/ UNCHANGED vars
  <2>1. /\ UNCHANGED <<main, goalReached, stopAll, reached, round>>
        /\ pobs.resource => pobs'.resource
        /\ follower' = follower \/ (follower = "asleep" /\ follower' = "wait")
    BY <1>3 DEF Constructor, ConstructorStarts, SeesGoalAndState, ReadsState, CopiesState, Plans,
           PublishesPath, SpuriousWakeup, vars, flags, observers, history
  <2> QED BY <2>1
<1>4. CASE Loops
  BY <1>4 DEF Loops, FollowerMoves, flags
<1>5. CASE SetsGoalReached
  <2>1. pobs.resource
    BY <1>5 DEF SetsGoalReached, FollowerMoves, PathInv
  <2> QED BY <1>5, <2>1 DEF SetsGoalReached, FollowerMoves
<1>6. CASE SetsStops
  BY <1>6 DEF SetsStops, FollowerMoves
<1>7. CASE FollowerStarts \/ FollowerWaits \/ Leaves
  <2>1. /\ UNCHANGED <<main, goalReached, stopAll, reached, round>>
        /\ follower' \in {"exited", "wait", "asleep", "take", "loop", "idle", "print"}
        /\ follower # "report"
    BY <1>7 DEF FollowerStarts, FollowerWaits, WaitsForPath, TakesPath, Leaves, FollowerMoves, flags
  <2>2. pobs.resource => pobs'.resource
    BY <1>7 DEF FollowerStarts, FollowerWaits, WaitsForPath, TakesPath, Leaves, FlagsOK
  <2> QED BY <2>1, <2>2
<1>8. CASE Drives \/ ReadsNews \/ CopiesNews
  <2>1. /\ UNCHANGED <<main, goalReached, stopAll, round>> /\ ~goalReached
        /\ follower' # "report"
    BY <1>8 DEF Drives, ReadsNews, CopiesNews, FollowerMoves, flags
  <2> QED BY <2>1
<1> QED
  BY <1>1, <1>2, <1>3, <1>4, <1>5, <1>6, <1>7, <1>8 DEF Next, Main, Follower

-----------------------------------------------------------------------------
(* What is estimated, written and copied.                                   *)

LEMMA NextObserver ==
    ASSUME StatesOK, GoalInv, ObserverInv, [Next]_vars
    PROVE  ObserverInv'
<1> USE DEF ObserverInv
<1>1. CASE Estimate
  <2>1. UNCHANGED <<sobs, written, follower>> /\ main = "estimate" /\ seen \subseteq seen'
    BY <1>1 DEF Estimate, observers, copying
  <2>2. main' = "publish" => estimate' \in seen'
    BY <1>1 DEF Estimate
  <2>3. main' # "write" /\ main' \in {"goodbye", "publish"} /\ written = {} => ObserverInv'
    BY <2>1, <2>2 DEF Estimated
  <2> QED BY <1>1, <2>1, <2>2, <2>3 DEF Estimate
<1>2. CASE Writes
  <2>0. UNCHANGED <<estimate, seen, follower>> /\ main = "write" /\ estimate \in seen
    BY <1>2 DEF Writes, history
  <2>1. CASE written = Fields /\ sobs' = [sobs EXCEPT !.updated = TRUE]
             /\ written' = {} /\ main' = "sleep"
    <3>1. sobs'.resource = sobs.resource /\ sobs'.updated
      BY <2>1 DEF StatesOK
    <3>2. sobs.resource = estimate
      BY <2>1 DEF StatesOK, Position
    <3>3. Estimated(sobs.resource)'
      BY <2>0, <3>1, <3>2 DEF Estimated
    <3> QED BY <2>0, <2>1, <3>1, <3>2, <3>3
  <2>2. ASSUME NEW f \in Fields, sobs' = [sobs EXCEPT !.resource[f] = estimate[f]],
               written' = written \cup {f}, main' = main
        PROVE  ObserverInv'
    <3>1. sobs'.resource = [sobs.resource EXCEPT ![f] = estimate[f]] /\ sobs'.updated = sobs.updated
      BY <2>2 DEF StatesOK
    <3>2. sobs'.resource[f] = estimate[f]
          /\ \A g \in Fields : g # f => sobs'.resource[g] = sobs.resource[g]
      BY <3>1 DEF StatesOK, Position
    <3>3. \A g \in written' : sobs'.resource[g] = estimate'[g]
      BY <2>0, <2>2, <3>2 DEF StatesOK
    <3>4. sobs'.updated => Estimated(sobs.resource)'
      BY <2>0, <3>1, <3>2 DEF Estimated
    <3> QED BY <2>0, <2>2, <3>1, <3>3, <3>4
  <2> QED BY <1>2, <2>1, <2>2 DEF Writes
<1>3. CASE Assign
  <2>1. UNCHANGED <<sobs, written, follower, seen>> /\ main = "assign" /\ main' = "estimate"
    BY <1>3 DEF Assign
  <2> QED BY <2>1 DEF Estimated
<1>4. CASE Publish \/ TakeMessages \/ WakeUp \/ Goodbye \/ Answer \/ Close
  <2>1. /\ UNCHANGED <<sobs, written, follower, seen, estimate>>
        /\ main' \in {"publish", "write"} => main = "publish"
        /\ main # "write"
    BY <1>4 DEF Publish, TakeMessages, WakeUp, Goodbye, Answer, Close, observers, copying, history
  <2> QED BY <2>1 DEF Estimated
<1>5. CASE CopiesNews
  <2>1. /\ UNCHANGED <<main, estimate, written, seen>> /\ sobs'.resource = sobs.resource
        /\ \/ UNCHANGED sobs /\ follower' = follower
           \/ ~sobs'.updated /\ follower' = "loop"
    BY <1>5 DEF CopiesNews, FollowerMoves, StatesOK
  <2> QED BY <2>1 DEF Estimated
<1>6. CASE Constructor \/ SpuriousWakeup \/ UNCHANGED vars
  <2>1. /\ UNCHANGED <<main, sobs, written, seen, estimate>>
        /\ follower' = follower \/ follower' = "wait"
    BY <1>6 DEF Constructor, ConstructorStarts, SeesGoalAndState, ReadsState, CopiesState, Plans,
                PublishesPath, SpuriousWakeup, vars, observers, copying, history
  <2> QED BY <2>1 DEF Estimated
<1>7. CASE FollowerStarts \/ FollowerWaits \/ Loops \/ SetsGoalReached \/ SetsStops \/ Drives
           \/ ReadsNews \/ Leaves
  <2>1. /\ UNCHANGED <<main, sobs, written, seen, estimate>>
        /\ follower' \in {"lock", "copy"} => sobs.updated
    BY <1>7 DEF FollowerMoves, FollowerStarts, FollowerWaits, WaitsForPath, TakesPath, Loops,
                SetsGoalReached, SetsStops, Drives, ReadsNews, Leaves
  <2> QED BY <2>1 DEF Estimated
<1> QED BY <1>1, <1>2, <1>3, <1>4, <1>5, <1>6, <1>7 DEF Next, Main, Follower

LEMMA NextCopy ==
    ASSUME TypeOK, RoundInv, GoalInv, ObserverInv, CopyInv, [Next]_vars
    PROVE  CopyInv'
<1> USE DEF CopyInv
<1>1. CASE Assign
  <2>1. follower \notin {"copy", "reached"}
    BY <1>1 DEF Assign, GoalInv, RoundInv
  <2> QED BY <1>1, <2>1 DEF Assign
<1>2. CASE Estimate
  <2>1. UNCHANGED <<follower, state, copied, overlapped, sobs>> /\ seen \subseteq seen'
    BY <1>2 DEF Estimate, observers, copying
  <2> QED BY <2>1 DEF Estimated
<1>3. CASE Writes
  <2>1. UNCHANGED <<follower, state, copied, seen>>
    BY <1>3 DEF Writes, history
  <2>2. overlapped' = overlapped \/ (follower = "copy" /\ overlapped')
    BY <1>3 DEF Writes, TypeOK, FlagsOK
  <2>3. overlapped' \/ sobs'.resource = sobs.resource \/ follower # "copy"
    BY <1>3 DEF Writes, TypeOK, StatesOK
  <2> QED BY <2>1, <2>2, <2>3 DEF Estimated
<1>4. CASE Publish \/ TakeMessages \/ WakeUp \/ Goodbye \/ Answer \/ Close
  <2>1. UNCHANGED <<follower, state, copied, overlapped, sobs, seen>>
    BY <1>4 DEF Publish, TakeMessages, WakeUp, Goodbye, Answer, Close, observers, copying, history
  <2> QED BY <2>1 DEF Estimated
<1>5. CASE Constructor \/ SpuriousWakeup \/ UNCHANGED vars
  <2>1. /\ UNCHANGED <<state, copied, overlapped, sobs, seen>>
        /\ follower' = follower \/ (follower = "asleep" /\ follower' = "wait")
    BY <1>5 DEF Constructor, ConstructorStarts, SeesGoalAndState, ReadsState, CopiesState, Plans,
                PublishesPath, SpuriousWakeup, vars, observers, copying, history
  <2> QED BY <2>1 DEF Estimated
<1>6. CASE ReadsNews
  <2>1. sobs.resource \in seen
    BY <1>6 DEF ReadsNews, ObserverInv
  <2>2. follower' = "copy" /\ copied' = {} /\ UNCHANGED <<sobs, seen>>
    BY <1>6 DEF ReadsNews, FollowerMoves
  <2> QED BY <2>1, <2>2
<1>7. CASE CopiesNews
  <2>0. follower = "copy" /\ UNCHANGED <<overlapped, seen>> /\ sobs'.resource = sobs.resource
    BY <1>7 DEF CopiesNews, FollowerMoves, TypeOK, StatesOK
  <2>1. CASE copied = Fields /\ copied' = {} /\ follower' = "loop" /\ UNCHANGED state
    <3>1. Estimated(state)'
      BY <2>0, <2>1 DEF Estimated
    <3>2. overlapped \/ (sobs.resource \in seen /\ \A f \in Fields : state[f] = sobs.resource[f])
      BY <2>0, <2>1
    <3>3. (\A f \in Fields : state[f] = sobs.resource[f]) => state = sobs.resource
      BY DEF TypeOK, StatesOK, Position
    <3> QED BY <2>0, <2>1, <3>1, <3>2, <3>3
  <2>2. ASSUME NEW f \in Fields, state' = [state EXCEPT ![f] = sobs.resource[f]],
               copied' = copied \cup {f}, follower' = "copy"
        PROVE  CopyInv'
    <3>1. state'[f] = sobs.resource[f] /\ \A g \in Fields : g # f => state'[g] = state[g]
      BY <2>2 DEF TypeOK, StatesOK, Position
    <3>2. \E e \in seen : sobs.resource[f] = e[f]
      BY <2>0 DEF ObserverInv, Estimated
    <3>3. copied \subseteq Fields
      BY DEF TypeOK, StatesOK
    <3>4. \A g \in copied' : \E e \in seen' : state'[g] = e[g]
      BY <2>0, <2>2, <3>1, <3>2, <3>3
    <3>5. \/ overlapped'
          \/ sobs'.resource \in seen' /\ \A g \in copied' : state'[g] = sobs'.resource[g]
      BY <2>0, <2>2, <3>1, <3>3
    <3> QED BY <2>2, <3>4, <3>5
  <2> QED BY <1>7, <2>1, <2>2 DEF CopiesNews, FollowerMoves
<1>8. CASE FollowerStarts \/ FollowerWaits \/ Loops \/ SetsGoalReached \/ SetsStops \/ Drives
           \/ Leaves
  <2>1. /\ UNCHANGED <<state, copied, overlapped, sobs, seen>>
        /\ follower # "copy" /\ follower' # "copy"
        /\ follower' = "reached" => state \in Near
    BY <1>8 DEF FollowerMoves, FollowerStarts, FollowerWaits, WaitsForPath, TakesPath, Loops,
                SetsGoalReached, SetsStops, Drives, Leaves, copying
  <2> QED BY <2>1 DEF Estimated
<1> QED BY <1>1, <1>2, <1>3, <1>4, <1>5, <1>6, <1>7, <1>8 DEF Next, Main, Follower

LEMMA NextReached ==
    ASSUME RoundsOK, RoundInv, [Next]_vars
    PROVE  reached' \subseteq 1..MaxRounds
<1>1. CASE SetsGoalReached
  <2>1. round \in 1..MaxRounds
    BY <1>1, RoundsAssumption DEF SetsGoalReached, FollowerMoves, RoundInv, RoundsOK
  <2> QED BY <1>1, <2>1 DEF SetsGoalReached, RoundsOK
<1>2. CASE ~SetsGoalReached
  <2>1. reached' = reached
    BY <1>2 DEF Next, Main, Assign, Estimate, Publish, Writes, TakeMessages, WakeUp, Goodbye, Answer,
         Close, Constructor, ConstructorStarts, SeesGoalAndState, ReadsState, CopiesState, Plans,
         PublishesPath, Follower, FollowerStarts, FollowerWaits, Loops, SetsStops, Drives,
         ReadsNews, CopiesNews, Leaves, SpuriousWakeup, vars, history
  <2> QED BY <2>1 DEF RoundsOK
<1> QED BY <1>1, <1>2

LEMMA NextInv == FInv /\ [Next]_vars => FInv'
<1> SUFFICES ASSUME FInv, [Next]_vars PROVE FInv'
  OBVIOUS
<1>1. GoalInv'
  BY NextGoal DEF FInv, TypeOK
<1>2. round' \in 0..MaxRounds /\ queued' \in [Tasks -> 0..MaxRounds] /\ RoundInv'
  BY NextRounds DEF FInv, TypeOK
<1>3. RoundsOK'
  BY <1>2, NextReached DEF FInv, TypeOK, RoundsOK
<1>4. ObserverInv' /\ CopyInv'
  BY NextObserver, NextCopy DEF FInv, TypeOK
<1>5. ControlOK' /\ FlagsOK' /\ StatesOK'
  BY NextControl, NextFlags, NextStates DEF FInv, TypeOK
<1>6. PathNotMissed' /\ PathInv'
  BY NextPath DEF FInv, TypeOK
<1> QED BY <1>1, <1>2, <1>3, <1>4, <1>5, <1>6 DEF FInv, TypeOK

LEMMA Invariance == Spec => []FInv
<1> QED BY InitInv, NextInv, PTL DEF Spec

-----------------------------------------------------------------------------
\* The follower never sleeps beside a path that was published, and never takes
\* one that was not: for any number of goals and any planner.
THEOREM PathHandedOver == Spec => []Inv
<1>1. FInv => Inv
  BY DEF FInv, PathInv, Inv, ReadsAPath
<1> QED BY <1>1, Invariance, PTL

\* The main thread leaves its loop only when the follower, on a published path,
\* took a state for near the goal; each number of that state was estimated, and
\* the state as a whole unless it was copied while another was written.
THEOREM GoalMet == Spec => []GoalIsMet
<1>1. FInv => EndsOnlyAfterGoal
  BY DEF FInv, GoalInv, EndsOnlyAfterGoal
<1>2. FInv => ReachedIsEstimated
  BY StartAssumption DEF FInv, CopyInv, Estimated, ReachedIsEstimated
<1> QED BY <1>1, <1>2, Invariance, PTL DEF GoalIsMet
=============================================================================

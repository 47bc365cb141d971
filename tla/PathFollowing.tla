---------------------------- MODULE PathFollowing ----------------------------
(***************************************************************************)
(* A robot driven to a goal (cubic_engine/examples/exe19): the main thread *)
(* estimates the state of the robot, and two tasks of a ThreadPool build   *)
(* the path, once, and follow it.  They talk through observers             *)
(* (kernel/patterns: ObserverBase, ThreadedObserverBase), each a resource, *)
(* a flag that it has been updated, and a mutex; the state and the path    *)
(* observer have a condition variable too, and their readers copy the      *)
(* resource and clear the flag after they have unlocked the mutex.         *)
(*                                                                         *)
(* A state of the robot is its position, of two numbers, which are written *)
(* and copied one at a time (the names beside them are always the same);   *)
(* the position is near the goal or not.  What the planner of module       *)
(* Planning does with a query is one of its Outcomes, whatever the state.  *)
(* Two tasks on two threads taken in turn make the thread of a task always *)
(* the same.                                                               *)
(***************************************************************************)
EXTENDS Naturals, FiniteSets

CONSTANTS Outcomes,     \* how building a path may end: see Planning
          Coordinates,  \* what X and Y of a state may be
          Near,         \* the positions less than gradius from the goal
          Start,        \* the position of init_state
          MaxRounds     \* bound: the goals that are assigned

Fields == {"X", "Y"}
Position == [Fields -> Coordinates]

ASSUME OutcomesAssumption == Outcomes \subseteq {"path", "throws", "endless"}
ASSUME NearAssumption == Near \subseteq Position
ASSUME StartAssumption == Start \in Position \ Near
ASSUME RoundsAssumption == MaxRounds \in Nat \ {0}

VARIABLES
    main,           \* where main() and StateEstimationThread::run are
    round,          \* history: how many goals main has assigned
    estimate,       \* what the filter of the main thread estimates
    msgMutex,       \* who holds msg_mutex
    goalReached,    \* goal_reached
    stopAll,        \* threads_should_stop
    ownStop,        \* the stop condition of the follower
    queued,         \* queued[t]: how often task t waits in its thread's queue
    told,           \* threads of the pool told to stop
    constructor,    \* where the PathConstructorThread is
    follower,       \* where the PathFollowerThread is
    state,          \* the state the follower knows
    sobs,           \* the follower's state observer
    written,        \* the fields main has written into it, under its mutex
    copied,         \* the fields the follower has copied from it
    cobs,           \* updated_ of the constructor's state observer
    gobs,           \* updated_ of the constructor's goal observer
    pobs,           \* the follower's path observer
    reached,        \* history: rounds in which the follower met the goal
    seen,           \* history: the positions that were estimated
    overlapped      \* history: main wrote during the follower's last copy

observers == <<sobs, cobs, gobs, pobs>>
flags == <<goalReached, stopAll, ownStop>>
copying == <<state, written, copied, overlapped>>
history == <<round, reached, seen>>
poolVars == <<queued, told>>
vars == <<main, estimate, msgMutex, flags, poolVars, constructor, follower, copying,
          observers, history>>

Tasks == {"constructor", "follower"}

ControlOK ==
    /\ main \in {"assign", "estimate", "publish", "write", "sleep", "goodbye", "ask", "close",
                 "end"}
    /\ msgMutex \in {"none", "main", "follower"}
    /\ constructor \in {"idle", "wait", "read", "asleep", "copy", "plan", "endless", "publish",
                        "exited"}
    /\ follower \in {"idle", "wait", "asleep", "take", "loop", "reached", "report", "drive",
                     "news", "lock", "copy", "leave", "print", "exited"}
    /\ told \subseteq Tasks
FlagsOK ==
    /\ goalReached \in BOOLEAN /\ stopAll \in BOOLEAN /\ ownStop \in BOOLEAN
    /\ cobs \in BOOLEAN /\ gobs \in BOOLEAN /\ overlapped \in BOOLEAN
    /\ pobs \in [resource : BOOLEAN, updated : BOOLEAN]
StatesOK ==
    /\ estimate \in Position /\ state \in Position /\ seen \subseteq Position
    /\ sobs \in [resource : Position, updated : BOOLEAN]
    /\ written \subseteq Fields /\ copied \subseteq Fields
RoundsOK ==
    /\ round \in 0..MaxRounds /\ queued \in [Tasks -> 0..MaxRounds]
    /\ reached \subseteq 1..MaxRounds

TypeOK == ControlOK /\ FlagsOK /\ StatesOK /\ RoundsOK

Init == /\ main = "assign" /\ round = 0 /\ estimate = Start
        /\ msgMutex = "none"
        /\ goalReached = FALSE /\ stopAll = FALSE /\ ownStop = FALSE
        /\ queued = [t \in Tasks |-> 0] /\ told = {}
        /\ constructor = "idle" /\ follower = "idle"
        /\ state = Start /\ copied = {} /\ overlapped = FALSE
        /\ sobs = [resource |-> Start, updated |-> FALSE] /\ written = {}
        /\ cobs = FALSE /\ gobs = FALSE
        /\ pobs = [resource |-> FALSE, updated |-> FALSE]
        /\ reached = {} /\ seen = {}

-----------------------------------------------------------------------------
\* The main thread.  A new goal: the observers and states are set, those of a
\* task that is only about to end among them, and the tasks are queued.
Assign == /\ main = "assign"
          /\ main' = "estimate"
          /\ round' = round + 1
          /\ gobs' = TRUE
          /\ state' = Start /\ estimate' = Start
          /\ queued' = [t \in Tasks |-> queued[t] + 1]
          /\ UNCHANGED <<msgMutex, flags, told, constructor, follower, written, copied,
                         overlapped, sobs, cobs, pobs, reached, seen>>

\* StateEstimationThread::run, called and not queued: one estimate.
Estimate == /\ main = "estimate"
            /\ IF goalReached
               THEN main' = "goodbye" /\ UNCHANGED <<estimate, seen>>
               ELSE /\ main' = "publish"
                    /\ estimate' \in Position
                    /\ seen' = seen \cup {estimate'}
            /\ UNCHANGED <<round, msgMutex, flags, poolVars, constructor, follower, copying,
                           observers, reached>>

\* StateObserver::update of the constructor's observer: a sleeping reader is
\* notified.
Publish == /\ main = "publish"
           /\ main' = "write"
           /\ cobs' = TRUE
           /\ constructor' = IF constructor = "asleep" THEN "read" ELSE constructor
           /\ UNCHANGED <<estimate, msgMutex, flags, poolVars, follower, copying, sobs, gobs,
                          pobs, history>>

\* The same of the follower's, whose mutex main has while it writes: the fields
\* of the resource, then the flag.
Writes == /\ main = "write"
          /\ \/ \E f \in Fields \ written :
                   /\ sobs' = [sobs EXCEPT !.resource[f] = estimate[f]]
                   /\ written' = written \cup {f}
                   /\ overlapped' = (overlapped \/ follower = "copy")
                   /\ UNCHANGED main
             \/ /\ written = Fields
                /\ sobs' = [sobs EXCEPT !.updated = TRUE]
                /\ written' = {} /\ main' = "sleep"
                /\ UNCHANGED overlapped
          /\ UNCHANGED <<estimate, msgMutex, flags, poolVars, constructor, follower, state,
                         copied, cobs, gobs, pobs, history>>

\* The message, and the sleep for which msg_mutex is kept.
TakeMessages == /\ main = "sleep" /\ msgMutex = "none"
                /\ msgMutex' = "main"
                /\ UNCHANGED <<main, estimate, flags, poolVars, constructor, follower, copying,
                               observers, history>>
WakeUp == /\ main = "sleep" /\ msgMutex = "main"
          /\ msgMutex' = "none"
          /\ main' = "estimate"
          /\ UNCHANGED <<estimate, flags, poolVars, constructor, follower, copying, observers,
                         history>>

\* run() ends with a message; main announces the goal and asks under the mutex.
Goodbye == /\ main = "goodbye" /\ msgMutex = "none"
           /\ main' = "ask" /\ msgMutex' = "main"
           /\ UNCHANGED <<estimate, flags, poolVars, constructor, follower, copying, observers,
                          history>>

\* Mutant: the mutex of the messages is kept until main ends.
AnswerHolding == /\ main = "ask"
                 /\ main' \in {"close"} \cup (IF round < MaxRounds THEN {"assign"} ELSE {})
                 /\ stopAll' = TRUE
                 /\ UNCHANGED <<estimate, msgMutex, goalReached, ownStop, poolVars, constructor,
                                follower, copying, observers, history>>

\* "y" leaves the loop, anything else begins it again.
Answer == /\ main = "ask"
          /\ main' \in {"close"} \cup (IF round < MaxRounds THEN {"assign"} ELSE {})
          /\ msgMutex' = "none"
          /\ stopAll' = TRUE
          /\ UNCHANGED <<estimate, goalReached, ownStop, poolVars, constructor, follower,
                         copying, observers, history>>

\* ThreadPool::close: each thread in turn is told to stop and joined.
Place(t) == IF t = "constructor" THEN constructor ELSE follower
Close == /\ main = "close"
         /\ \A t \in told : Place(t) = "exited"
         /\ IF told = Tasks THEN main' = "end" /\ UNCHANGED told
            ELSE /\ told' = IF told = {} THEN {"constructor"} ELSE Tasks
                 /\ UNCHANGED main
         /\ UNCHANGED <<estimate, msgMutex, flags, queued, constructor, follower, copying,
                        observers, history>>

-----------------------------------------------------------------------------
\* The constructor's thread: do_work_ and the wait for goal and state.
ConstructorStarts ==
    /\ constructor = "idle"
    /\ IF "constructor" \in told THEN constructor' = "exited" /\ UNCHANGED queued
       ELSE /\ queued["constructor"] > 0
            /\ queued' = [queued EXCEPT !["constructor"] = @ - 1]
            /\ constructor' = "wait"
    /\ UNCHANGED <<main, estimate, msgMutex, flags, told, follower, copying, observers,
                   history>>

\* The condition of the loop that yields, which reads the flags unlocked.
GoalAndState == (gobs /\ cobs) \/ stopAll

SeesGoalAndState == /\ constructor = "wait"
                    /\ GoalAndState
                    /\ constructor' = "read"
                    /\ gobs' = FALSE
                    /\ UNCHANGED <<main, estimate, msgMutex, flags, poolVars, follower, copying,
                                   sobs, cobs, pobs, history>>

\* StateObserver::read: the wait under the mutex...
ReadsState == /\ constructor = "read"
              /\ constructor' = IF cobs THEN "copy" ELSE "asleep"
              /\ UNCHANGED <<main, estimate, msgMutex, flags, poolVars, follower, copying,
                             observers, history>>

\* ...and the copy without it; the flag is cleared for a newer state as well.
CopiesState == /\ constructor = "copy"
               /\ constructor' = "plan"
               /\ cobs' = FALSE
               /\ UNCHANGED <<main, estimate, msgMutex, flags, poolVars, follower, copying,
                              sobs, gobs, pobs, history>>

\* find_vertex, astar_search, reconstruct_a_star_path and build; an exception
\* ends the task in StoppableTask::operator().
Plans == /\ constructor = "plan"
         /\ constructor' \in {CASE o = "path" -> "publish" [] o = "throws" -> "idle"
                                [] o = "endless" -> "endless" : o \in Outcomes}
         /\ UNCHANGED <<main, estimate, msgMutex, flags, poolVars, follower, copying, observers,
                        history>>

\* Mutant: the reader is not notified.
PublishesQuietly ==
    /\ constructor = "publish"
    /\ constructor' = "idle"
    /\ pobs' = [resource |-> TRUE, updated |-> TRUE]
    /\ UNCHANGED <<main, estimate, msgMutex, flags, poolVars, follower, copying, sobs, cobs,
                   gobs, history>>

\* PathObserver::update, under its mutex.
PublishesPath ==
    /\ constructor = "publish"
    /\ constructor' = "idle"
    /\ pobs' = [resource |-> TRUE, updated |-> TRUE]
    /\ follower' = IF follower = "asleep" THEN "wait" ELSE follower
    /\ UNCHANGED <<main, estimate, msgMutex, flags, poolVars, copying, sobs, cobs, gobs,
                   history>>

-----------------------------------------------------------------------------
FollowerMoves(from, to) ==
    /\ follower = from /\ follower' = to
    /\ UNCHANGED <<main, estimate, written, constructor, cobs, gobs, round, seen, told>>

FollowerStarts ==
    /\ IF "follower" \in told THEN FollowerMoves("idle", "exited") /\ UNCHANGED queued
       ELSE /\ queued["follower"] > 0
            /\ queued' = [queued EXCEPT !["follower"] = @ - 1]
            /\ FollowerMoves("idle", "wait")
    /\ UNCHANGED <<msgMutex, flags, copying, sobs, pobs, reached>>

\* PathObserver::read: the wait, then the unlocked rest of it, which throws
\* when no path was ever set.
WaitsForPath == /\ FollowerMoves("wait", IF pobs.updated THEN "take" ELSE "asleep")
                /\ UNCHANGED pobs

TakesPath == /\ FollowerMoves("take", IF pobs.resource THEN "loop" ELSE "idle")
             /\ pobs' = [pobs EXCEPT !.updated = @ /\ ~pobs.resource]

FollowerWaits == /\ WaitsForPath \/ TakesPath
                 /\ UNCHANGED <<msgMutex, flags, queued, copying, sobs, reached>>

\* The loop: near enough, one of the flags is set after the other.
Loops == /\ FollowerMoves("loop", IF ownStop \/ stopAll THEN "leave"
                                  ELSE IF state \in Near THEN "reached" ELSE "drive")
         /\ UNCHANGED <<msgMutex, flags, queued, copying, sobs, pobs, reached>>

SetsGoalReached == /\ FollowerMoves("reached", "report")
                   /\ goalReached' = TRUE
                   /\ reached' = reached \cup {round}
                   /\ UNCHANGED <<msgMutex, stopAll, ownStop, queued, copying, sobs, pobs>>

SetsStops == /\ FollowerMoves("report", "leave")
             /\ stopAll' = TRUE /\ ownStop' = TRUE
             /\ UNCHANGED <<msgMutex, goalReached, queued, copying, sobs, pobs, reached>>

\* A steering command and the sleep after it; then the unlocked look for news.
Drives == /\ \/ FollowerMoves("drive", "news")
             \/ FollowerMoves("news", IF sobs.updated THEN "lock" ELSE "loop")
          /\ UNCHANGED <<msgMutex, flags, queued, copying, sobs, pobs, reached>>

\* Mutant: the mutex is not waited for.
ReadsNewsUnlocked == /\ sobs.updated
                     /\ FollowerMoves("lock", "copy")
                     /\ overlapped' = FALSE
                     /\ UNCHANGED <<msgMutex, flags, queued, state, copied, sobs, pobs,
                                    reached>>

\* StateObserver::read: the wait under the mutex, which ends at once...
ReadsNews == /\ main # "write" /\ sobs.updated
             /\ FollowerMoves("lock", "copy")
             /\ overlapped' = FALSE
             /\ UNCHANGED <<msgMutex, flags, queued, state, copied, sobs, pobs, reached>>

\* ...and the copy without it, of one field after the other in any order, what
\* is written meanwhile among them; the flag is cleared whatever it stands for.
CopiesNews ==
    /\ \/ \E f \in Fields \ copied :
             /\ FollowerMoves("copy", "copy")
             /\ state' = [state EXCEPT ![f] = sobs.resource[f]]
             /\ copied' = copied \cup {f}
             /\ UNCHANGED sobs
       \/ /\ copied = Fields
          /\ FollowerMoves("copy", "loop")
          /\ copied' = {}
          /\ sobs' = [sobs EXCEPT !.updated = FALSE]
          /\ UNCHANGED state
    /\ UNCHANGED <<msgMutex, flags, queued, overlapped, pobs, reached>>

\* The last message, for which main's answer is waited for.
Leaves == /\ \/ /\ FollowerMoves("leave", "print")
                /\ msgMutex = "none" /\ msgMutex' = "follower"
             \/ FollowerMoves("print", "idle") /\ msgMutex' = "none"
          /\ UNCHANGED <<flags, queued, copying, sobs, pobs, reached>>

\* Mutant: wait(lk) without the predicate.
WakeupEndsWait == /\ follower = "asleep" /\ follower' = "take"
                  /\ UNCHANGED <<main, estimate, msgMutex, flags, poolVars, constructor,
                                 copying, observers, history>>

\* A condition variable may wake its reader for no reason: wait(lk, is_updated)
\* looks at the flag again.
SpuriousWakeup == /\ \/ /\ constructor = "asleep" /\ constructor' = "read"
                        /\ UNCHANGED follower
                     \/ /\ follower = "asleep" /\ follower' = "wait"
                        /\ UNCHANGED constructor
                  /\ UNCHANGED <<main, estimate, msgMutex, flags, poolVars, copying, observers,
                                 history>>

Main == \/ Assign \/ Estimate \/ Publish \/ Writes \/ TakeMessages \/ WakeUp \/ Goodbye
        \/ Answer \/ Close
Constructor == \/ ConstructorStarts \/ SeesGoalAndState \/ ReadsState \/ CopiesState
               \/ Plans \/ PublishesPath
Follower == \/ FollowerStarts \/ FollowerWaits \/ Loops \/ SetsGoalReached \/ SetsStops
            \/ Drives \/ ReadsNews \/ CopiesNews \/ Leaves

Next == Main \/ Constructor \/ Follower \/ SpuriousWakeup

Spec == Init /\ [][Next]_vars

\* The three threads are scheduled, a mutex that is free again and again is
\* got, and the question is answered.
Fairness == /\ WF_vars(Main) /\ SF_vars(TakeMessages) /\ SF_vars(Goodbye)
            /\ WF_vars(Constructor) /\ WF_vars(Follower) /\ SF_vars(ReadsNews)
            /\ SF_vars(Leaves)
FairSpec == Spec /\ Fairness

-----------------------------------------------------------------------------
\* A follower that sleeps until there is a path has not been passed by: the
\* flag is set, the path stored and the sleeper notified under one mutex.
PathNotMissed == pobs.updated => follower # "asleep"

\* A follower reads a path that is there: what ends its wait is a path, and
\* neither a wake-up for no reason nor the end of the simulation.
ReadsAPath == follower = "take" => pobs.resource

Inv == TypeOK /\ PathNotMissed /\ ReadsAPath

\* The main thread stops estimating, asks and closes only when a path was
\* published and the follower was near the goal: a planner that throws, or
\* never ends, leaves the robot unattended and the program running.
EndsOnlyAfterGoal == main \in {"goodbye", "ask", "close", "end"} =>
                        pobs.resource /\ reached # {}

\* The state in which the follower takes the goal for reached: each of its two
\* numbers was estimated, and both in one estimate unless main published
\* another one during the copy, as the copy is made without the mutex.  So a
\* robot that was near the goal in no estimate may be taken to have reached it.
ReachedIsEstimated ==
    follower = "reached" =>
        /\ \A f \in Fields : \E e \in seen : state[f] = e[f]
        /\ state \in seen \/ overlapped

GoalIsMet == EndsOnlyAfterGoal /\ ReachedIsEstimated

\* A path and a robot that stays at a place near its goal end in the announcement.
GoalIsAnnounced ==
    ((\E p \in Near : <>[](estimate = p)) /\ <>pobs.resource) => <>(main = "ask")

\* After one goal pool.close() returns: no task of the pool waits for what main
\* holds or for what nobody will publish any more.  (After a second goal the
\* tasks wait for a state or a path that never comes.)
CloseReturns == main = "close" /\ round = 1 ~> main = "end"
=============================================================================

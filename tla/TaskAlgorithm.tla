--------------------------- MODULE TaskAlgorithm ---------------------------
(***************************************************************************)
(* The parallel linear-algebra objects of kernel/parallel (DotProduct,     *)
(* MatVecProduct, VectorUpdater): an object keeps one task per thread of   *)
(* the executor and a result, and execute() and reexecute() run the tasks  *)
(* and then gather what they computed.                                     *)
(*                                                                         *)
(* The executor is what ForkJoin promises and ThreadPool implements: while *)
(* the caller waits, pending tasks are run in any order and interleaving,  *)
(* and the wait ends when all of them have ended.  A value is abstracted   *)
(* to where it comes from: the result of partition p is the set of pairs   *)
(* <<call, operands>> whose products were added to it, so that a correct   *)
(* result holds one pair everywhere, that of one call and of the operands  *)
(* the object had in that call.                                            *)
(***************************************************************************)
EXTENDS Naturals, Sequences

CONSTANTS Algos,        \* the classes an object may be of
          NThreads,     \* executor.get_n_threads(), the partitions of the operands
          Operands,     \* the operands an object may be given
          Unfit,        \* operands that execute() rejects: null, or of different sizes
          NoTask,       \* a null task pointer
          NoResult,     \* the watching thread has not been given a result
          Calls,        \* what the application calls in this instance
          MaxCalls,     \* bound: calls of execute and reexecute
          EndStates     \* the ways run() ends in this instance

ASSUME AlgosAssumption == Algos \subseteq {"DotProduct", "MatVecProduct", "VectorUpdater"}
ASSUME CountsAssumption == NThreads \in Nat \ {0} /\ MaxCalls \in Nat
ASSUME UnfitAssumption == Unfit \notin Operands
ASSUME NoTaskAssumption ==
    NoTask \notin [state : {"PENDING", "STARTED", "FINISHED", "INTERRUPTED"},
                    of : Operands, own : SUBSET (Nat \X Operands)]
ASSUME EndStatesAssumption == EndStates \subseteq {"FINISHED", "INTERRUPTED"}

VARIABLES
    algo,       \* the class of the object; never changes
    pc,         \* where the caller is in execute() or reexecute()
    cursor,     \* t, the index of the loop that gathers the results
    outcome,    \* how the last call returned
    call,       \* how many calls have been made
    operands,   \* v1_ptr_, v2_ptr_ (M_, x_; y_, z_)
    asked,      \* history: the operands of the object in each call
    rerun,      \* history: tasks that had run once have been run again
    tasks,      \* tasks_
    result,     \* result[p]: what the p-th partition of result_ is the sum of
    valid,      \* result_.valid_result_
    seen        \* what get_or_wait() has returned to another thread

callerVars == <<algo, pc, cursor, outcome, call, operands, asked, rerun>>
vars == <<callerVars, tasks, result, valid, seen>>

Parts == 1..NThreads
Origin == Nat \X Operands
TaskState == {"PENDING", "STARTED", "FINISHED", "INTERRUPTED"}
Task == [state : TaskState, of : Operands, own : SUBSET Origin]

TypeOK == /\ algo \in Algos
          /\ pc \in {"idle", "executing", "gathering", "crashed"}
          /\ cursor \in 1 .. NThreads + 1
          /\ outcome \in {"none", "ok", "runtime_error", "invalid_argument"}
          /\ call \in 0..MaxCalls
          /\ operands \in Operands \cup {Unfit}
          /\ asked \in Seq(Operands \cup {Unfit})
          /\ rerun \in BOOLEAN
          /\ tasks \in Seq(Task \cup {NoTask})
          /\ result \in [Parts -> SUBSET Origin]
          /\ valid \in BOOLEAN
          /\ seen \in [Parts -> SUBSET Origin] \cup {NoResult}

-----------------------------------------------------------------------------
Nothing == [p \in Parts |-> {}]

Init == /\ algo \in Algos
        /\ pc = "idle"
        /\ cursor = 1
        /\ outcome = "none"
        /\ call = 0
        /\ operands \in Operands \cup {Unfit}
        /\ asked = <<>>
        /\ rerun = FALSE
        /\ tasks = <<>>
        /\ result = Nothing
        /\ valid = FALSE
        /\ seen = NoResult

\* DotProduct::set_vectors.
SetVectors(o) == /\ "set_vectors" \in Calls
                 /\ algo = "DotProduct"
                 /\ pc = "idle"
                 /\ operands' = o
                 /\ UNCHANGED <<algo, pc, cursor, outcome, call, asked, rerun, tasks,
                                result, valid, seen>>

\* The call begins: DotProduct alone invalidates and reinitialises result_.
EnterCall == /\ pc = "idle"
             /\ call < MaxCalls
             /\ call' = call + 1
             /\ asked' = Append(asked, operands)
             /\ IF algo = "DotProduct" THEN result' = Nothing /\ valid' = FALSE
                                       ELSE UNCHANGED <<result, valid>>
             /\ UNCHANGED <<algo, operands, seen>>

NewTask == [state |-> "PENDING", of |-> operands, own |-> {}]

\* clear_tasks_memory_() leaves as many null pointers as there were tasks, and
\* the new tasks are pushed behind them.
TasksToRun == [i \in DOMAIN tasks |-> NoTask] \o [p \in Parts |-> NewTask]

Fit == operands # Unfit

ExecuteRefused == /\ pc = "idle"
                  /\ \/ "execute" \in Calls
                     \/ "reexecute" \in Calls /\ tasks = <<>>
                  /\ ~Fit
                  /\ outcome' = "runtime_error"
                  /\ UNCHANGED <<algo, pc, cursor, call, operands, asked, rerun, tasks,
                                 result, valid, seen>>

\* The executor refuses a null pointer; VectorUpdater does not go through
\* execute() but dereferences tasks_[0] itself.
ExecuteTasks ==
    /\ Fit
    /\ EnterCall
    /\ tasks' = TasksToRun
    /\ cursor' = 1
    /\ UNCHANGED rerun
    /\ \/ tasks = <<>> /\ pc' = "executing" /\ UNCHANGED outcome
       \/ /\ tasks # <<>>
          /\ algo = "VectorUpdater"
          /\ pc' = "crashed"
          /\ UNCHANGED outcome
       \/ /\ tasks # <<>>
          /\ algo # "VectorUpdater"
          /\ outcome' = "invalid_argument"
          /\ UNCHANGED pc

Execute == "execute" \in Calls /\ ExecuteTasks

\* Mutant: the tasks keep the states of the previous call.
ReuseTasksAsTheyAre == tasks

\* reschedule() of the first NThreads tasks.
Rescheduled == [i \in DOMAIN tasks |-> [tasks[i] EXCEPT !.state = "PENDING"]]

\* reexecute() is execute() on an object without tasks; a null pointer among
\* the tasks is dereferenced.
Reexecute ==
    /\ "reexecute" \in Calls
    /\ \/ tasks = <<>> /\ ExecuteTasks
       \/ /\ tasks # <<>>
          /\ EnterCall
          /\ cursor' = 1
          /\ rerun' = TRUE
          /\ UNCHANGED outcome
          /\ IF \E p \in Parts : tasks[p] = NoTask
             THEN pc' = "crashed" /\ UNCHANGED tasks
             ELSE pc' = "executing" /\ tasks' = Rescheduled

-----------------------------------------------------------------------------
Begin(p) == /\ pc = "executing"
            /\ tasks[p].state = "PENDING"
            /\ tasks' = [tasks EXCEPT ![p].state = "STARTED"]
            /\ UNCHANGED <<callerVars, result, valid, seen>>

\* What run() does to its own result_ and to the result the tasks share.
Product(p) == {<<call, tasks[p].of>>}
Own(p) == IF algo = "DotProduct" THEN tasks[p].own \cup Product(p) ELSE {}
Shared(p) == CASE algo = "DotProduct"    -> result[p]
               [] algo = "MatVecProduct" -> result[p] \cup Product(p)
               [] algo = "VectorUpdater" -> Product(p)

\* run() ends; when it throws, its partition may or may not have been done.
End(p, end) ==
    /\ pc = "executing"
    /\ tasks[p].state = "STARTED"
    /\ \/ /\ tasks' = [tasks EXCEPT ![p].state = end, ![p].own = Own(p)]
          /\ result' = [result EXCEPT ![p] = Shared(p)]
       \/ /\ end # "FINISHED"
          /\ tasks' = [tasks EXCEPT ![p].state = end]
          /\ UNCHANGED result
    /\ UNCHANGED <<callerVars, valid, seen>>

\* Mutant: the variant of finished() that its source has commented out.
EndedWell(p) == tasks[p].state = "FINISHED"

\* TaskBase::finished().
Ended(p) == tasks[p].state \notin {"PENDING", "STARTED"}

\* The wait for the tasks is over: result_.validate_result().
Validate == /\ pc = "executing"
            /\ \A p \in Parts : Ended(p)
            /\ valid' = TRUE
            /\ pc' = "gathering"
            /\ UNCHANGED <<algo, cursor, outcome, call, operands, asked, rerun, tasks,
                           result, seen>>

\* Mutant: the flag says how the task looked at last has ended.
GatherLastWord ==
    /\ pc = "gathering"
    /\ cursor <= NThreads
    /\ cursor' = cursor + 1
    /\ valid' = (tasks[cursor].state = "FINISHED")
    /\ IF tasks[cursor].state = "FINISHED"
       THEN result' = [result EXCEPT ![cursor] = @ \cup tasks[cursor].own]
       ELSE UNCHANGED result
    /\ UNCHANGED <<algo, pc, outcome, call, operands, asked, rerun, tasks, seen>>

\* One turn of the loop over the tasks: a task that has not finished makes
\* the result invalid, one that has is joined with it.
Gather ==
    /\ pc = "gathering"
    /\ cursor <= NThreads
    /\ cursor' = cursor + 1
    /\ IF tasks[cursor].state = "FINISHED"
       THEN /\ result' = [result EXCEPT ![cursor] = @ \cup tasks[cursor].own]
            /\ UNCHANGED valid
       ELSE /\ valid' = FALSE
            /\ UNCHANGED result
    /\ UNCHANGED <<algo, pc, outcome, call, operands, asked, rerun, tasks, seen>>

Return == /\ pc = "gathering"
          /\ cursor > NThreads
          /\ pc' = "idle"
          /\ outcome' = "ok"
          /\ UNCHANGED <<algo, cursor, call, operands, asked, rerun, tasks, result,
                         valid, seen>>

\* get_or_wait() of another thread: it spins until the result is valid.
Watch == /\ "get_or_wait" \in Calls
         /\ seen = NoResult
         /\ valid
         /\ seen' = result
         /\ UNCHANGED <<callerVars, tasks, result, valid>>

-----------------------------------------------------------------------------
Executor(p) == Begin(p) \/ \E end \in EndStates : End(p, end)
CallSteps == Validate \/ Gather \/ Return

Next == \/ \E o \in Operands \cup {Unfit} : SetVectors(o)
        \/ ExecuteRefused \/ Execute \/ Reexecute
        \/ CallSteps
        \/ \E p \in Parts : Executor(p)
        \/ Watch

Spec == Init /\ [][Next]_vars

\* The executor runs what it was given (ThreadPool: ExecuteReturns), and the
\* caller's thread goes on with its call.
FairSpec == Spec /\ WF_vars(CallSteps) /\ \A p \in Parts : WF_vars(Executor(p))

-----------------------------------------------------------------------------
CompleteFor(r, k) == \A p \in Parts : r[p] = {<<k, asked[k]>>}

\* The result is the one of a call; after a call that returned normally, its.
ResultOfOneCall ==
    \E k \in 1..call : CompleteFor(result, k) /\ (outcome = "ok" => k = call)

\* A VectorUpdater overwrites its result and the products add to theirs: they
\* keep it right as long as no task is run a second time.
KeepsResult == algo = "VectorUpdater" \/ ~rerun

\* Between calls a result that says it is valid is complete: every partition
\* once, all from one call and from the operands the object had in it,
\* whichever calls were refused, broke off or had a task interrupted.
ValidMeansComplete == (pc = "idle" /\ valid /\ KeepsResult) => ResultOfOneCall

\* A call that returns leaves a valid result exactly when every task has
\* finished, whichever of them failed and in whatever order.
ValidIffFinished ==
    (pc = "idle" /\ outcome = "ok") =>
        (valid <=> \A p \in Parts : tasks[p] # NoTask /\ tasks[p].state = "FINISHED")

\* The variables keep their types and the flag of the result tells the truth.
Safe == TypeOK /\ ValidIffFinished

\* A call comes back even if tasks are interrupted.
CallReturns == pc = "executing" ~> pc = "idle"
=============================================================================

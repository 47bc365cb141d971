------------------------ MODULE TaskAlgorithmProofs ------------------------
(***************************************************************************)
(* Theorems about TaskAlgorithm for any number of tasks, any operands, any *)
(* calls and any number of them: the flag of the result says whether every *)
(* task finished, and a valid result is complete, provided that the object *)
(* is a VectorUpdater or no task of it was run a second time.              *)
(*                                                                         *)
(* Shape describes tasks_: the tasks of one call while it runs and once it *)
(* has returned normally, and otherwise nothing or null pointers in front. *)
(***************************************************************************)
EXTENDS TaskAlgorithm, SequenceTheorems, TLAPS

USE CountsAssumption, EndStatesAssumption, UnfitAssumption

Running == pc \in {"executing", "gathering"}
Whole == /\ DOMAIN tasks = Parts
         /\ \A p \in Parts : tasks[p] \in Task
Broken == tasks # <<>> /\ tasks[1] = NoTask

Shape == /\ Running => Whole
         /\ pc = "idle" => tasks = <<>> \/ Whole \/ Broken
         /\ pc = "idle" /\ outcome = "ok" => Whole
         /\ pc = "executing" => cursor = 1
         /\ pc = "gathering" => \A p \in Parts : Ended(p)

FlagSoFar == pc = "gathering" =>
                 (valid <=> \A p \in Parts : p < cursor => tasks[p].state = "FINISHED")

Inv == TypeOK /\ Shape /\ FlagSoFar /\ ValidIffFinished

\* A null pointer is not a task.
LEMMA NullIsNoTask == NoTask \notin Task
  BY NoTaskAssumption DEF Task, TaskState, Origin

LEMMA NewTaskIsTask == ASSUME TypeOK, Fit PROVE NewTask \in Task
  BY DEF TypeOK, Fit, NewTask, Task, TaskState

LEMMA FunctionIsSeq == ASSUME NEW S, NEW f \in [1..NThreads -> S]
                       PROVE  f \in Seq(S)
  OBVIOUS

\* What execute() hands to the executor: the new tasks when there were none,
\* and null pointers first when there were.
LEMMA TasksToRunShape ==
    ASSUME TypeOK, Fit
    PROVE  /\ TasksToRun \in Seq(Task \cup {NoTask})
           /\ tasks = <<>> => TasksToRun = [p \in Parts |-> NewTask]
           /\ tasks # <<>> => TasksToRun # <<>> /\ TasksToRun[1] = NoTask
<1> DEFINE S == Task \cup {NoTask}
           A == [i \in DOMAIN tasks |-> NoTask]
           B == [p \in Parts |-> NewTask]
<1>1. tasks \in Seq(S) /\ Len(tasks) \in Nat /\ DOMAIN tasks = 1..Len(tasks)
  BY LenProperties DEF TypeOK
<1>2. NewTask \in S /\ NoTask \in S
  BY NewTaskIsTask
<1>3. A \in [1..Len(tasks) -> S] /\ B \in [1..NThreads -> S]
  BY <1>1, <1>2 DEF Parts
<1>4. A \in Seq(S) /\ Len(A) = Len(tasks)
  BY <1>1, <1>3, LenProperties
<1>5. B \in Seq(S) /\ Len(B) = NThreads
  BY <1>3, LenProperties
<1>6. TasksToRun = A \o B
  BY DEF TasksToRun
<1> HIDE DEF A, B, S
<1>7. /\ A \o B \in Seq(S)
      /\ Len(A \o B) = Len(A) + Len(B)
      /\ \A i \in 1 .. Len(A) + Len(B) :
             (A \o B)[i] = IF i <= Len(A) THEN A[i] ELSE B[i - Len(A)]
  BY <1>4, <1>5, ConcatProperties
<1>8. TasksToRun \in Seq(S)
  BY <1>6, <1>7
<1>9. ASSUME tasks = <<>> PROVE TasksToRun = B
  <2>1. Len(A) = 0
    BY <1>1, <1>4, <1>9, EmptySeq
  <2>2. A = <<>>
    BY <2>1, <1>4, EmptySeq
  <2> QED BY <2>2, <1>6, <1>5, ConcatEmptySeq
<1>10. ASSUME tasks # <<>> PROVE TasksToRun # <<>> /\ TasksToRun[1] = NoTask
  <2>1. Len(tasks) > 0
    BY <1>1, <1>10, EmptySeq
  <2>2. A[1] = NoTask
    BY <2>1, <1>1 DEF A
  <2>3. (A \o B)[1] = NoTask
    BY <2>1, <2>2, <1>4, <1>5, <1>7
  <2>4. Len(A \o B) # 0
    BY <2>1, <1>4, <1>5, <1>7
  <2> QED BY <2>3, <2>4, <1>6, <1>7, EmptySeq
<1> QED BY <1>8, <1>9, <1>10 DEF B, S

-----------------------------------------------------------------------------
LEMMA InitInv == Init => Inv
<1> SUFFICES ASSUME Init PROVE Inv
  OBVIOUS
<1>1. TypeOK
  <2>1. asked \in Seq(Operands \cup {Unfit}) /\ tasks \in Seq(Task \cup {NoTask})
    BY EmptySeq DEF Init
  <2>2. result \in [Parts -> SUBSET Origin]
    BY DEF Init, Nothing
  <2>3. valid \in BOOLEAN /\ rerun \in BOOLEAN
    BY DEF Init
  <2>4. cursor \in 1 .. NThreads + 1 /\ call \in 0..MaxCalls
    BY DEF Init
  <2> QED BY <2>1, <2>2, <2>3, <2>4, Zenon DEF Init, TypeOK
<1>2. Shape /\ FlagSoFar /\ ValidIffFinished
  BY DEF Init, Shape, FlagSoFar, ValidIffFinished, Running
<1> QED BY <1>1, <1>2 DEF Inv

\* What all calls have in common keeps the types of the caller's variables.
LEMMA EnterCallTypes ==
    ASSUME TypeOK, EnterCall
    PROVE  /\ call' \in 0..MaxCalls
           /\ asked' \in Seq(Operands \cup {Unfit})
           /\ result' \in [Parts -> SUBSET Origin]
           /\ valid' \in BOOLEAN
           /\ operands' = operands /\ seen' = seen /\ algo' = algo /\ pc = "idle"
<1>1. asked' \in Seq(Operands \cup {Unfit})
  BY AppendProperties DEF TypeOK, EnterCall
<1>2. result' \in [Parts -> SUBSET Origin]
  BY DEF TypeOK, EnterCall, Nothing
<1>3. valid' \in BOOLEAN
  BY Zenon DEF TypeOK, EnterCall
<1>4. call' \in 0..MaxCalls
  BY DEF TypeOK, EnterCall
<1> QED BY <1>1, <1>2, <1>3, <1>4 DEF EnterCall

LEMMA ExecuteInv == ASSUME Inv, ExecuteTasks PROVE Inv'
<1> USE DEF Inv
<1>1. Fit /\ EnterCall /\ cursor' = 1 /\ tasks' = TasksToRun
  BY DEF ExecuteTasks
<1>2. tasks' \in Seq(Task \cup {NoTask})
  BY <1>1, TasksToRunShape
<1>3. pc' \in {"idle", "executing", "crashed"} /\ outcome' \in {outcome, "invalid_argument"}
  BY <1>1 DEF ExecuteTasks, EnterCall
<1>r. rerun' \in BOOLEAN
  BY DEF ExecuteTasks, TypeOK
<1>4. TypeOK'
  BY <1>1, <1>2, <1>3, <1>r, EnterCallTypes DEF TypeOK
<1>5. CASE tasks = <<>>
  <2>1. pc' = "executing" /\ tasks' = [p \in Parts |-> NewTask]
    BY <1>1, <1>5, TasksToRunShape DEF ExecuteTasks
  <2>2. Whole'
    BY <1>1, <2>1, NewTaskIsTask DEF Whole, Parts, Task, TaskState, Origin
  <2> QED BY <1>1, <1>4, <2>1, <2>2
          DEF Shape, FlagSoFar, ValidIffFinished, Running
<1>6. CASE tasks # <<>>
  <2>1. pc' \in {"idle", "crashed"} /\ (pc' = "idle" => outcome' = "invalid_argument")
    BY <1>1, <1>6 DEF ExecuteTasks, EnterCall
  <2>2. Broken'
    BY <1>1, <1>6, TasksToRunShape DEF Broken
  <2> QED BY <1>4, <2>1, <2>2 DEF Shape, FlagSoFar, ValidIffFinished, Running
<1> QED BY <1>5, <1>6

LEMMA ReexecuteInv == ASSUME Inv, Reexecute PROVE Inv'
<1> USE DEF Inv
<1>1. CASE ExecuteTasks
  BY <1>1, ExecuteInv
<1>2. CASE ~ExecuteTasks
  <2>1. /\ tasks # <<>> /\ EnterCall /\ cursor' = 1 /\ outcome' = outcome
        /\ rerun' = TRUE
        /\ \/ pc' = "crashed" /\ tasks' = tasks
           \/ /\ \A p \in Parts : tasks[p] # NoTask
              /\ pc' = "executing" /\ tasks' = Rescheduled
    BY <1>2 DEF Reexecute
  <2>2. pc = "idle"
    BY <2>1 DEF EnterCall
  <2>3. CASE pc' = "crashed" /\ tasks' = tasks
    <3>1. TypeOK'
      BY <2>1, <2>3, EnterCallTypes DEF TypeOK
    <3> QED BY <3>1, <2>3 DEF Shape, FlagSoFar, ValidIffFinished, Running
  <2>4. CASE /\ \A p \in Parts : tasks[p] # NoTask
             /\ pc' = "executing" /\ tasks' = Rescheduled
    <3>1. 1 \in Parts
      BY DEF Parts
    <3>2. Whole
      BY <2>1, <2>2, <2>4, <3>1 DEF Shape, Broken
    <3>3. \A p \in Parts : [tasks[p] EXCEPT !.state = "PENDING"] \in Task
      BY <3>2 DEF Whole, Task, TaskState
    <3>4. tasks' = [p \in Parts |-> [tasks[p] EXCEPT !.state = "PENDING"]]
      BY <2>4, <3>2 DEF Rescheduled, Whole
    <3>5. Whole'
      BY <3>3, <3>4 DEF Whole, Parts, Task, TaskState, Origin
    <3>6. tasks' \in [1..NThreads -> Task \cup {NoTask}]
      BY <3>3, <3>4 DEF Parts
    <3>7. tasks' \in Seq(Task \cup {NoTask})
      BY <3>6
    <3>8. TypeOK'
      BY <2>1, <2>4, <3>7, EnterCallTypes DEF TypeOK
    <3> QED BY <2>1, <2>4, <3>5, <3>8
            DEF Shape, FlagSoFar, ValidIffFinished, Running
  <2> QED BY <2>1, <2>3, <2>4
<1> QED BY <1>1, <1>2

-----------------------------------------------------------------------------
\* A step of a task that is running: what is left of its record, and of the
\* records of the other tasks.
LEMMA TaskStep ==
    ASSUME Inv, NEW p \in Parts, NEW t \in Task, pc = "executing",
           tasks' = [tasks EXCEPT ![p] = t]
    PROVE  /\ Whole' /\ tasks' \in Seq(Task \cup {NoTask})
           /\ tasks'[p] = t /\ \A q \in Parts \ {p} : tasks'[q] = tasks[q]
<1>1. Whole
  BY DEF Inv, Shape, Running
<1>2. tasks' \in [1..NThreads -> Task \cup {NoTask}]
  BY <1>1 DEF Whole, Parts, Inv, TypeOK
<1>3. tasks' \in Seq(Task \cup {NoTask})
  BY <1>2, FunctionIsSeq
<1>4. /\ DOMAIN tasks' = Parts
      /\ tasks'[p] = t /\ \A q \in Parts \ {p} : tasks'[q] = tasks[q]
  BY <1>1 DEF Whole
<1>5. \A q \in Parts : tasks'[q] \in Task
  BY <1>1, <1>4 DEF Whole
<1>6. Whole'
  BY <1>4, <1>5 DEF Whole, Parts, Task, TaskState, Origin
<1> QED BY <1>3, <1>4, <1>6

LEMMA BeginInv == ASSUME Inv, NEW p \in Parts, Begin(p) PROVE Inv'
<1> USE DEF Inv
<1> DEFINE t == [tasks[p] EXCEPT !.state = "STARTED"]
<1>1. /\ pc = "executing" /\ tasks' = [tasks EXCEPT ![p] = t]
      /\ UNCHANGED <<callerVars, result, valid, seen>>
  BY DEF Begin
<1>2. t \in Task
  BY <1>1 DEF Shape, Running, Whole, Task, TaskState
<1> HIDE DEF t
<1>3. Whole' /\ tasks' \in Seq(Task \cup {NoTask})
  BY <1>1, <1>2, TaskStep
<1>4. TypeOK'
  BY <1>1, <1>3 DEF TypeOK, callerVars
<1> QED BY <1>1, <1>3, <1>4
        DEF Shape, FlagSoFar, ValidIffFinished, Running, callerVars

LEMMA EndInv ==
    ASSUME Inv, NEW p \in Parts, NEW end \in EndStates, End(p, end) PROVE Inv'
<1> USE DEF Inv
<1>1. pc = "executing" /\ UNCHANGED <<callerVars, valid, seen>>
  BY DEF End
<1>2. Whole /\ tasks[p] \in Task /\ tasks[p].of \in Operands /\ call \in Nat
  BY <1>1 DEF Shape, Running, Whole, Task, TypeOK
<1>3. Product(p) \in SUBSET Origin
  BY <1>2 DEF Product, Origin
<1>4. Own(p) \in SUBSET Origin /\ Shared(p) \in SUBSET Origin
  BY <1>2, <1>3, AlgosAssumption DEF Own, Shared, Task, TypeOK
<1>5. result' \in [Parts -> SUBSET Origin]
  BY <1>4 DEF End, TypeOK
<1>6. PICK t \in Task : tasks' = [tasks EXCEPT ![p] = t]
  <2> DEFINE t1 == [tasks[p] EXCEPT !.state = end, !.own = Own(p)]
             t2 == [tasks[p] EXCEPT !.state = end]
  <2>1. t1 \in Task /\ t2 \in Task
    BY <1>2, <1>4 DEF Task, TaskState
  <2>2. CASE tasks' = [tasks EXCEPT ![p].state = end, ![p].own = Own(p)]
    <3>1. tasks' = [tasks EXCEPT ![p] = t1]
      BY <1>2, <2>2 DEF Whole, Task
    <3> QED BY <2>1, <3>1
  <2>3. CASE tasks' = [tasks EXCEPT ![p].state = end]
    <3>1. tasks' = [tasks EXCEPT ![p] = t2]
      BY <2>3
    <3> QED BY <2>1, <3>1
  <2> QED BY <2>2, <2>3 DEF End
<1>7. Whole' /\ tasks' \in Seq(Task \cup {NoTask})
  BY <1>1, <1>6, TaskStep
<1>8. TypeOK'
  BY <1>1, <1>5, <1>7 DEF TypeOK, callerVars
<1> QED BY <1>1, <1>7, <1>8
        DEF Shape, FlagSoFar, ValidIffFinished, Running, callerVars

LEMMA ValidateInv == ASSUME Inv, Validate PROVE Inv'
<1> USE DEF Inv
<1>1. /\ pc = "executing" /\ pc' = "gathering" /\ valid' = TRUE
      /\ \A p \in Parts : Ended(p)
      /\ UNCHANGED <<algo, cursor, outcome, call, operands, asked, rerun, tasks,
                   result, seen>>
  BY DEF Validate
<1>2. valid' \in BOOLEAN
  BY <1>1
<1>3. TypeOK'
  BY <1>1, <1>2, Zenon DEF TypeOK
<1>4. Shape'
  BY <1>1 DEF Shape, Running, Whole, Parts, Ended
<1>5. \A p \in Parts : ~(p < 1)
  BY DEF Parts
<1>6. FlagSoFar'
  BY <1>1, <1>5 DEF FlagSoFar, Shape, Parts
<1>7. ValidIffFinished'
  BY <1>1 DEF ValidIffFinished
<1> QED BY <1>3, <1>4, <1>6, <1>7

LEMMA GatherInv == ASSUME Inv, Gather PROVE Inv'
<1> USE DEF Inv
<1>1. /\ pc = "gathering" /\ cursor <= NThreads /\ cursor' = cursor + 1
      /\ UNCHANGED <<algo, pc, outcome, call, operands, asked, rerun, tasks, seen>>
  BY DEF Gather
<1>2. cursor \in Parts /\ cursor \in Nat
  BY <1>1 DEF TypeOK, Parts
<1>3. Whole /\ tasks[cursor] \in Task
  BY <1>1, <1>2 DEF Shape, Running, Whole
<1>4. result' \in [Parts -> SUBSET Origin]
  BY <1>1, <1>2, <1>3 DEF Gather, TypeOK, Task
<1>5. valid' <=> valid /\ tasks[cursor].state = "FINISHED"
  BY Zenon DEF Gather
<1>6. valid' \in BOOLEAN
  BY Zenon DEF Gather, TypeOK
<1>7. cursor' \in 1 .. NThreads + 1
  BY <1>1, <1>2
<1>8. TypeOK'
  BY <1>1, <1>4, <1>6, <1>7, Zenon DEF TypeOK
<1>9. Shape'
  BY <1>1 DEF Shape, Running, Whole, Parts, Ended
<1>10. \A p \in Parts : p < cursor' <=> p < cursor \/ p = cursor
  BY <1>1, <1>2 DEF Parts
<1>11. FlagSoFar'
  BY <1>1, <1>2, <1>5, <1>10, Zenon DEF FlagSoFar, Parts
<1>12. ValidIffFinished'
  BY <1>1 DEF ValidIffFinished
<1> QED BY <1>8, <1>9, <1>11, <1>12

LEMMA ReturnInv == ASSUME Inv, Return PROVE Inv'
<1> USE DEF Inv
<1>1. /\ pc = "gathering" /\ cursor > NThreads /\ pc' = "idle" /\ outcome' = "ok"
      /\ UNCHANGED <<algo, cursor, call, operands, asked, rerun, tasks, result, valid,
                   seen>>
  BY DEF Return
<1>2. TypeOK'
  BY <1>1, Zenon DEF TypeOK
<1>3. Whole
  BY <1>1 DEF Shape, Running
<1>4. Shape'
  BY <1>1, <1>3 DEF Shape, Running, Whole, Parts, Task, TaskState, Origin
<1>5. FlagSoFar'
  BY <1>1 DEF FlagSoFar
<1>6. \A p \in Parts : p < cursor
  BY <1>1 DEF Parts, TypeOK
<1>7. \A p \in Parts : tasks[p] # NoTask
  BY <1>3, NullIsNoTask DEF Whole
<1>8. ValidIffFinished'
  BY <1>1, <1>6, <1>7, Zenon DEF FlagSoFar, ValidIffFinished, Parts
<1> QED BY <1>2, <1>4, <1>5, <1>8

\* The steps that touch neither the tasks nor the progress of a call.
LEMMA AsideInv ==
    ASSUME Inv,
           \/ \E o \in Operands \cup {Unfit} : SetVectors(o)
           \/ ExecuteRefused \/ Watch \/ UNCHANGED vars
    PROVE  Inv'
<1> USE DEF Inv
<1>1. /\ UNCHANGED <<algo, pc, cursor, call, asked, rerun, tasks, result, valid>>
      /\ operands' \in Operands \cup {Unfit}
      /\ outcome' \in {outcome, "runtime_error"}
      /\ seen' \in {seen, result}
  BY DEF SetVectors, ExecuteRefused, Watch, vars, callerVars, TypeOK
<1>2. TypeOK'
  BY <1>1, Zenon DEF TypeOK
<1>3. Shape' /\ FlagSoFar'
  BY <1>1 DEF Shape, FlagSoFar, Running, Whole, Broken, Parts, Task, TaskState,
              Origin, Ended
<1>4. ValidIffFinished'
  BY <1>1, Zenon DEF ValidIffFinished, Parts
<1> QED BY <1>2, <1>3, <1>4

LEMMA NextInv == Inv /\ [Next]_vars => Inv'
<1> SUFFICES ASSUME Inv, [Next]_vars PROVE Inv'
  OBVIOUS
<1>1. CASE \/ \E o \in Operands \cup {Unfit} : SetVectors(o)
           \/ ExecuteRefused \/ Watch \/ UNCHANGED vars
  BY <1>1, AsideInv
<1>2. CASE Execute
  BY <1>2, ExecuteInv DEF Execute
<1>3. CASE Reexecute
  BY <1>3, ReexecuteInv
<1>4. CASE Validate
  BY <1>4, ValidateInv
<1>5. CASE Gather
  BY <1>5, GatherInv
<1>6. CASE Return
  BY <1>6, ReturnInv
<1>7. ASSUME NEW p \in Parts, Begin(p) PROVE Inv'
  BY <1>7, BeginInv
<1>8. ASSUME NEW p \in Parts, NEW end \in EndStates, End(p, end) PROVE Inv'
  BY <1>8, EndInv
<1> QED BY <1>1, <1>2, <1>3, <1>4, <1>5, <1>6, <1>7, <1>8
        DEF Next, CallSteps, Executor

LEMMA Invariance == Spec => []Inv
<1> QED BY InitInv, NextInv, PTL DEF Spec

\* The variables keep their types: the loops over tasks_ never leave it and
\* a task is never made of null operands.
THEOREM TypeCorrect == Spec => []TypeOK
<1>1. Inv => TypeOK
  BY DEF Inv
<1> QED BY <1>1, Invariance, PTL

\* A call that returns leaves its result valid exactly when all its tasks
\* have finished, for every object, executor and sequence of calls.
THEOREM FlagIsRight == Spec => []ValidIffFinished
<1>1. Inv => ValidIffFinished
  BY DEF Inv
<1> QED BY <1>1, Invariance, PTL

\* Types and the flag together: a call that returns leaves a valid result
\* exactly when all of its tasks have finished.
THEOREM AnswersSafe == Spec => []Safe
<1>1. TypeOK /\ ValidIffFinished => Safe
  BY DEF Safe
<1> QED BY <1>1, TypeCorrect, FlagIsRight, PTL

-----------------------------------------------------------------------------
(***************************************************************************)
(* A valid result is complete when the object is a VectorUpdater or is     *)
(* never re-executed.  While a call runs, Progress says what each task has *)
(* contributed so far; Steady says why a task that VectorUpdater runs a    *)
(* second time still works on the operands of the object.                  *)
(***************************************************************************)
Due == {<<call, asked[call]>>}
Progress(p) ==
    /\ tasks[p].of = asked[call]
    /\ ~Ended(p) => /\ tasks[p].own = {}
                    /\ algo # "VectorUpdater" => result[p] = {}
    /\ tasks[p].state = "FINISHED" => /\ result[p] \cup tasks[p].own = Due
                                      /\ p < cursor => result[p] = Due
Untouched == tasks = <<>> => result = Nothing /\ valid = FALSE
Steady == algo = "VectorUpdater" =>
              (Whole => \A p \in Parts : tasks[p].of = operands /\ tasks[p].own = {})
ValidIsComplete == pc = "idle" /\ valid => ResultOfOneCall
Complete == /\ Len(asked) = call
            /\ Running => call > 0 /\ \A p \in Parts : Progress(p)
            /\ Untouched
            /\ Steady
            /\ ValidIsComplete

LEMMA InitComplete == Init => Complete
  BY EmptySeq DEF Init, Complete, Running, Untouched, Steady, Whole, Parts,
                  ValidIsComplete

\* What a new call finds in the history.
LEMMA EnterCallHistory ==
    ASSUME TypeOK, Len(asked) = call, EnterCall
    PROVE  /\ Len(asked') = call' /\ call' = call + 1 /\ call \in Nat
           /\ asked'[call'] = operands
           /\ \A k \in 1..call : asked'[k] = asked[k]
<1>1. asked \in Seq(Operands \cup {Unfit}) /\ operands \in Operands \cup {Unfit}
      /\ asked' = Append(asked, operands) /\ call' = call + 1 /\ call \in Nat
  BY DEF TypeOK, EnterCall
<1> QED BY <1>1, AppendProperties

\* A call that has only been refused or has broken off leaves what the last
\* complete one left.
LEMMA ExecuteComplete == ASSUME Inv, Complete, ExecuteTasks PROVE Complete'
<1> USE DEF Inv, Complete
<1>1. /\ Fit /\ EnterCall /\ cursor' = 1 /\ tasks' = TasksToRun
      /\ pc = "idle" /\ operands' = operands
  BY DEF ExecuteTasks, EnterCall
<1>2. /\ Len(asked') = call' /\ call' = call + 1 /\ call \in Nat
      /\ asked'[call'] = operands
      /\ \A k \in 1..call : asked'[k] = asked[k]
  BY <1>1, EnterCallHistory
<1>3. CASE tasks = <<>>
  <2>1. pc' = "executing" /\ tasks' = [p \in Parts |-> NewTask]
    BY <1>1, <1>3, TasksToRunShape DEF ExecuteTasks
  <2>2. result' = Nothing /\ valid' = FALSE
    BY <1>1, <1>3 DEF Untouched, EnterCall
  <2>3. \A p \in Parts : /\ tasks'[p].state = "PENDING" /\ tasks'[p].own = {}
                         /\ tasks'[p].of = operands /\ result'[p] = {}
    BY <2>1, <2>2 DEF NewTask, Nothing
  <2>4. \A p \in Parts : Progress(p)'
    BY <1>2, <2>3 DEF Progress, Ended, Parts
  <2>5. Untouched' /\ Steady'
    BY <1>1, <2>2, <2>3 DEF Untouched, Steady, Parts, Nothing
  <2> QED BY <1>2, <2>1, <2>4, <2>5
          DEF Running, ValidIsComplete, ResultOfOneCall, Parts
<1>4. CASE tasks # <<>>
  <2>1. tasks' # <<>> /\ tasks'[1] = NoTask
    BY <1>1, <1>4, TasksToRunShape
  <2>2. ~Whole'
    BY <2>1, NullIsNoTask DEF Whole, Parts, Task, TaskState, Origin
  <2>3. pc' \in {"idle", "crashed"} /\ (pc' = "idle" => outcome' = "invalid_argument")
    BY <1>1, <1>4 DEF ExecuteTasks, EnterCall
  <2>4. valid' => valid /\ result' = result
    BY <1>1, Zenon DEF EnterCall
  <2>5. ASSUME pc' = "idle", valid' PROVE ValidIsComplete'
    <3>1. PICK k \in 1..call : CompleteFor(result, k)
      BY <1>1, <2>4, <2>5 DEF ValidIsComplete, ResultOfOneCall
    <3>2. k \in 1..call' /\ asked'[k] = asked[k]
      BY <1>2
    <3>3. \A p \in Parts : result'[p] = {<<k, asked'[k]>>}
      BY <2>4, <2>5, <3>1, <3>2 DEF CompleteFor
    <3> QED BY <2>3, <2>5, <3>2, <3>3
            DEF ValidIsComplete, ResultOfOneCall, CompleteFor, Parts
  <2>6. ValidIsComplete'
    BY <2>5 DEF ValidIsComplete, ResultOfOneCall
  <2> QED BY <1>2, <2>1, <2>2, <2>3, <2>6 DEF Running, Untouched, Steady
<1> QED BY <1>3, <1>4

LEMMA ReexecuteComplete ==
    ASSUME Inv, Complete, Reexecute, KeepsResult' PROVE Complete'
<1> USE DEF Inv, Complete
<1>1. CASE ExecuteTasks
  BY <1>1, ExecuteComplete
<1>2. CASE ~ExecuteTasks
  <2>1. /\ algo = "VectorUpdater" /\ tasks # <<>> /\ EnterCall /\ cursor' = 1
        /\ outcome' = outcome /\ pc = "idle" /\ operands' = operands
        /\ algo' = algo
        /\ \/ pc' = "crashed" /\ tasks' = tasks
           \/ /\ \A p \in Parts : tasks[p] # NoTask
              /\ pc' = "executing" /\ tasks' = Rescheduled
    BY <1>2 DEF Reexecute, KeepsResult, EnterCall
  <2>2. /\ Len(asked') = call' /\ call' = call + 1 /\ call \in Nat
        /\ asked'[call'] = operands
    BY <2>1, EnterCallHistory
  <2>3. CASE pc' = "crashed" /\ tasks' = tasks
    <3>1. Steady'
      BY <2>1, <2>3 DEF Steady, Whole, Parts, Task, TaskState, Origin
    <3> QED BY <2>1, <2>2, <2>3, <3>1
            DEF Running, Untouched, ValidIsComplete, ResultOfOneCall
  <2>4. CASE /\ \A p \in Parts : tasks[p] # NoTask
             /\ pc' = "executing" /\ tasks' = Rescheduled
    <3>1. 1 \in Parts
      BY DEF Parts
    <3>2. Whole
      BY <2>1, <2>4, <3>1 DEF Shape, Broken
    <3>3. \A p \in Parts : tasks[p].of = operands /\ tasks[p].own = {}
      BY <2>1, <3>2 DEF Steady
    <3>4. \A p \in Parts : /\ tasks'[p].state = "PENDING" /\ tasks'[p].own = {}
                           /\ tasks'[p].of = operands
      BY <2>4, <3>2, <3>3 DEF Rescheduled, Whole, Task
    <3>5. tasks' # <<>>
      BY <3>1, <2>4, <3>2 DEF Rescheduled, Whole
    <3>6. \A p \in Parts : Progress(p)'
      BY <2>1, <2>2, <3>4 DEF Progress, Ended, Parts
    <3>7. Steady'
      BY <2>1, <3>4 DEF Steady, Parts
    <3> QED BY <2>2, <2>4, <3>5, <3>6, <3>7
            DEF Running, Untouched, ValidIsComplete, ResultOfOneCall, Parts
  <2> QED BY <2>1, <2>3, <2>4
<1> QED BY <1>1, <1>2

LEMMA BeginComplete == ASSUME Inv, Complete, NEW p \in Parts, Begin(p) PROVE Complete'
<1> USE DEF Inv, Complete
<1>1. /\ pc = "executing" /\ tasks[p].state = "PENDING"
      /\ tasks' = [tasks EXCEPT ![p].state = "STARTED"]
      /\ UNCHANGED <<callerVars, result, valid, seen>>
  BY DEF Begin
<1>2. Whole /\ tasks[p] \in Task
  BY <1>1 DEF Shape, Running, Whole
<1>3. \A q \in Parts : /\ tasks'[q].of = tasks[q].of /\ tasks'[q].own = tasks[q].own
                       /\ q # p => tasks'[q] = tasks[q]
  BY <1>1, <1>2 DEF Whole, Task
<1>4. tasks'[p].state = "STARTED" /\ DOMAIN tasks' = Parts
  BY <1>1, <1>2 DEF Whole, Task
<1>5. \A q \in Parts : Progress(q)
  BY <1>1 DEF Running
<1>6. \A q \in Parts : Progress(q)'
  BY <1>1, <1>3, <1>4, <1>5 DEF Progress, Ended, Due, Parts, callerVars
<1>7. tasks' # <<>>
  BY <1>4 DEF Parts
<1>8. Steady'
  BY <1>1, <1>2, <1>3 DEF Steady, Parts, callerVars
<1> QED BY <1>1, <1>6, <1>7, <1>8
       
               DEF Running, Untouched, ValidIsComplete, ResultOfOneCall, Parts, callerVars

\* A task that ends normally has contributed what is due, once.
LEMMA EndComplete ==
    ASSUME Inv, Complete, NEW p \in Parts, NEW end \in EndStates, End(p, end)
    PROVE  Complete'
<1> USE DEF Inv, Complete
<1>1. /\ pc = "executing" /\ tasks[p].state = "STARTED" /\ cursor = 1
      /\ UNCHANGED <<callerVars, valid, seen>>
  BY DEF End, Shape
<1>2. Whole /\ tasks[p] \in Task /\ result \in [Parts -> SUBSET Origin]
  BY <1>1 DEF Shape, Running, Whole, TypeOK
<1>3. \A q \in Parts : Progress(q)
  BY <1>1 DEF Running
<1>4. /\ Product(p) = Due /\ tasks[p].own = {}
      /\ algo # "VectorUpdater" => result[p] = {}
  BY <1>1, <1>3 DEF Progress, Ended, Product, Due
<1>5. /\ Own(p) = IF algo = "DotProduct" THEN Due ELSE {}
      /\ Shared(p) = IF algo = "DotProduct" THEN {} ELSE Due
  BY <1>4, AlgosAssumption DEF Own, Shared, TypeOK
<1>6. /\ DOMAIN tasks' = Parts
      /\ \A q \in Parts \ {p} : tasks'[q] = tasks[q] /\ result'[q] = result[q]
      /\ tasks'[p].of = tasks[p].of /\ tasks'[p].state = end
  BY <1>2 DEF End, Whole, Task
<1>7. \/ tasks'[p].own = Own(p) /\ result'[p] = Shared(p)
      \/ end # "FINISHED" /\ tasks'[p].own = {}
  BY <1>2, <1>4 DEF End, Whole, Task
<1>8. Ended(p)' /\ ~(p < cursor')
  BY <1>1, <1>6 DEF Ended, Parts, callerVars
<1>9. Progress(p)'
  <2>1. tasks'[p].of = asked'[call']
    BY <1>1, <1>3, <1>6 DEF Progress, callerVars
  <2>2. Due' = Due
    BY <1>1 DEF Due, callerVars
  <2>3. tasks'[p].state = "FINISHED" => result'[p] \cup tasks'[p].own = Due'
    BY <1>5, <1>6, <1>7, <2>2
  <2> QED BY <1>8, <2>1, <2>3 DEF Progress
<1>10. ASSUME NEW q \in Parts \ {p} PROVE Progress(q)'
  BY <1>1, <1>3, <1>6 DEF Progress, Ended, Due, callerVars
<1>11. \A q \in Parts : Progress(q)'
  BY <1>9, <1>10
<1>12. tasks' # <<>>
  BY <1>6 DEF Parts
<1>13. Steady'
  BY <1>1, <1>2, <1>5, <1>6, <1>7 DEF Steady, Parts, callerVars
<1> QED BY <1>1, <1>11, <1>12, <1>13
       
               DEF Running, Untouched, ValidIsComplete, ResultOfOneCall, Parts, callerVars

LEMMA ValidateComplete == ASSUME Inv, Complete, Validate PROVE Complete'
<1> USE DEF Inv, Complete
<1>1. /\ pc = "executing" /\ pc' = "gathering"
      /\ UNCHANGED <<algo, cursor, outcome, call, operands, asked, rerun, tasks,
                   result, seen>>
  BY DEF Validate
<1>2. Whole /\ tasks # <<>>
  BY <1>1 DEF Shape, Running, Whole, Parts
<1>3. \A q \in Parts : Progress(q)'
  BY <1>1 DEF Running, Progress, Ended, Due
<1>4. Steady'
  BY <1>1 DEF Steady, Whole, Parts, Task, TaskState, Origin
<1> QED BY <1>1, <1>2, <1>3, <1>4
        DEF Running, Untouched, ValidIsComplete, ResultOfOneCall, Parts

LEMMA GatherComplete == ASSUME Inv, Complete, Gather PROVE Complete'
<1> USE DEF Inv, Complete
<1>1. /\ pc = "gathering" /\ cursor <= NThreads /\ cursor' = cursor + 1
      /\ UNCHANGED <<algo, pc, outcome, call, operands, asked, rerun, tasks, seen>>
  BY DEF Gather
<1>2. /\ Whole /\ tasks # <<>> /\ cursor \in Parts
      /\ result \in [Parts -> SUBSET Origin] /\ \A q \in Parts : Ended(q)
  BY <1>1 DEF Shape, Running, Whole, Parts, TypeOK
<1>3. \A q \in Parts : Progress(q)
  BY <1>1 DEF Running
<1>4. PICK c \in Parts : c = cursor
  BY <1>2
<1>5. /\ \A q \in Parts \ {c} : result'[q] = result[q]
      /\ tasks[c].state = "FINISHED" => result'[c] = result[c] \cup tasks[c].own
  BY <1>1, <1>2, <1>4 DEF Gather
<1>6. Due' = Due /\ \A q \in Parts : Ended(q)'
  BY <1>1, <1>2 DEF Due, Ended, Parts
<1>7. ASSUME NEW q \in Parts PROVE Progress(q)'
  <2>1. CASE q = c
    <3>1. tasks[c].state = "FINISHED" => result'[c] = Due /\ Due \cup tasks[c].own = Due
      BY <1>3, <1>5 DEF Progress
    <3> QED BY <1>1, <1>3, <1>6, <2>1, <3>1 DEF Progress
  <2>2. CASE q # c
    <3>1. q < cursor' => q < cursor
      BY <1>1, <1>2, <1>4, <2>2 DEF Parts
    <3> QED BY <1>1, <1>3, <1>5, <1>6, <2>2, <3>1 DEF Progress
  <2> QED BY <2>1, <2>2
<1>8. \A q \in Parts : Progress(q)'
  BY <1>7
<1>9. Steady'
  BY <1>1 DEF Steady, Whole, Parts, Task, TaskState, Origin
<1> QED BY <1>1, <1>2, <1>8, <1>9
        DEF Running, Untouched, ValidIsComplete, ResultOfOneCall, Parts

\* A call that returns a valid result returns its own.
LEMMA ReturnComplete == ASSUME Inv, Complete, Return PROVE Complete'
<1> USE DEF Inv, Complete
<1>1. /\ pc = "gathering" /\ cursor > NThreads /\ pc' = "idle"
      /\ UNCHANGED <<algo, cursor, call, operands, asked, rerun, tasks, result, valid,
                   seen>>
  BY DEF Return
<1>2. Whole /\ tasks # <<>> /\ call \in Nat /\ call > 0
  BY <1>1 DEF Shape, Running, Whole, Parts, TypeOK
<1>3. \A p \in Parts : Progress(p) /\ p < cursor
  BY <1>1 DEF Running, Parts, TypeOK
<1>4. valid => CompleteFor(result, call)
  BY <1>1, <1>3 DEF FlagSoFar, Progress, Due, CompleteFor
<1>5. call \in 1..call
  BY <1>2
<1>6. ValidIsComplete'
  BY <1>1, <1>4, <1>5 DEF ValidIsComplete, ResultOfOneCall, CompleteFor, Parts
<1>7. Steady'
  BY <1>1 DEF Steady, Whole, Parts, Task, TaskState, Origin
<1> QED BY <1>1, <1>2, <1>6, <1>7 DEF Running, Untouched

LEMMA AsideComplete ==
    ASSUME Inv, Complete,
           \/ \E o \in Operands \cup {Unfit} : SetVectors(o)
           \/ ExecuteRefused \/ Watch \/ UNCHANGED vars
    PROVE  Complete'
<1> USE DEF Inv, Complete
<1>1. /\ UNCHANGED <<algo, pc, cursor, call, asked, rerun, tasks, result, valid>>
      /\ algo = "DotProduct" \/ operands' = operands
      /\ outcome' = outcome \/ outcome' = "runtime_error"
  BY DEF SetVectors, ExecuteRefused, Watch, vars, callerVars
<1>2. Running => \A p \in Parts : Progress(p)'
  BY <1>1 DEF Progress, Ended, Due, Running
<1>3. Steady'
  BY <1>1 DEF Steady, Whole, Parts, Task, TaskState, Origin
<1>4. ValidIsComplete'
  BY <1>1 DEF ValidIsComplete, ResultOfOneCall, CompleteFor, Parts
<1> QED BY <1>1, <1>2, <1>3, <1>4 DEF Running, Untouched, Parts, Nothing

LEMMA NextComplete ==
    ASSUME Inv, Complete, KeepsResult', [Next]_vars PROVE Complete'
<1>1. CASE \/ \E o \in Operands \cup {Unfit} : SetVectors(o)
           \/ ExecuteRefused \/ Watch \/ UNCHANGED vars
  BY <1>1, AsideComplete
<1>2. CASE Execute
  BY <1>2, ExecuteComplete DEF Execute
<1>3. CASE Reexecute
  BY <1>3, ReexecuteComplete
<1>4. CASE Validate
  BY <1>4, ValidateComplete
<1>5. CASE Gather
  BY <1>5, GatherComplete
<1>6. CASE Return
  BY <1>6, ReturnComplete
<1>7. ASSUME NEW p \in Parts, Begin(p) PROVE Complete'
  BY <1>7, BeginComplete
<1>8. ASSUME NEW p \in Parts, NEW end \in EndStates, End(p, end) PROVE Complete'
  BY <1>8, EndComplete
<1> QED BY <1>1, <1>2, <1>3, <1>4, <1>5, <1>6, <1>7, <1>8
        DEF Next, CallSteps, Executor

\* A task once run again has been run again for ever, and the class stays.
LEMMA KeepsResultStable == ASSUME [Next]_vars, KeepsResult' PROVE KeepsResult
BY
        DEF Next, SetVectors, ExecuteRefused, Execute, Reexecute, ExecuteTasks, EnterCall,
       CallSteps, Validate, Gather, Return, Executor, Begin, End, Watch, vars,
       callerVars, KeepsResult

\* Between calls a result that says it is valid holds every partition exactly
\* once, of one call and of the operands the object had in it, for every
\* VectorUpdater and for every object none of whose tasks was run again.
THEOREM ResultIsComplete == Spec => []ValidMeansComplete
<1> DEFINE CInv == KeepsResult => Complete
<1>1. Init => CInv
  BY InitComplete
<1>2. Inv /\ CInv /\ [Next]_vars => CInv'
  <2> SUFFICES ASSUME Inv, CInv, [Next]_vars, KeepsResult' PROVE Complete'
    OBVIOUS
  <2>1. Complete
    BY KeepsResultStable
  <2> QED BY <2>1, NextComplete
<1>3. CInv => ValidMeansComplete
  BY DEF Complete, ValidIsComplete, ValidMeansComplete
<1> HIDE DEF CInv
<1> QED BY <1>1, <1>2, <1>3, Invariance, PTL DEF Spec
=============================================================================

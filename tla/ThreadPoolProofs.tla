-------------------------- MODULE ThreadPoolProofs --------------------------
(***************************************************************************)
(* Proofs about ThreadPool for any set of tasks, any number of threads and *)
(* any bound.  Three invariants carry them:                                *)
(*   PoolInv    the owner's loops stay inside pool_, and a thread exists   *)
(*              only where one was started and not yet joined;             *)
(*   TaskInv    where a task can be: a pending task in at most one place   *)
(*              (a position of a queue, a worker's hand), a started one in *)
(*              one hand, an ended one nowhere;                            *)
(*   OpenInv    in a pool started once, every open slot has its worker.    *)
(***************************************************************************)
EXTENDS ThreadPool, SequenceTheorems, TLAPS

USE NThreadsAssumption, BoundsAssumption, NoTaskAssumption, EndStatesAssumption,
    FlagsAssumption

Submitting == pc \in {"adding", "executing"}
ClosingDown == pc \in {"closing", "joining"}

\* A slot without a running thread: none was started, or it has been joined.
NoThread(w) == wpc[w] = "none"

PoolInv ==
    /\ pc = "starting" => /\ starts > 0
                          /\ cursor \in 0..OptionThreads
                          /\ cursor <= poolSize
                          /\ ~isStarted
                          /\ poolSize = OptionThreads * (starts - 1) + cursor
    /\ pc # "starting" => poolSize = OptionThreads * starts
    /\ isStarted => starts > 0
    /\ Submitting => cursor > 0
    /\ ClosingDown => isStarted /\ cursor <= poolSize
    /\ pc = "joining" => cursor < poolSize
    /\ \A w \in Slots : w >= poolSize => NoThread(w)
    /\ ClosingDown => \A w \in Slots : w < cursor => NoThread(w)
    /\ (pc \in {"idle", "adding", "executing"} /\ ~isStarted) => \A w \in Slots : NoThread(w)
    /\ \A w \in Slots : ~started[w] => NoThread(w) \/ (pc = "joining" /\ w = cursor)
    /\ \A t \in Tasks : state[t] = "STARTED" => \E w \in Slots : wpc[w] = "run" /\ hand[w] = t
    /\ \A w \in Slots : IF wpc[w] \in {"call", "begin", "run", "log"}
                        THEN hand[w] \in Tasks ELSE hand[w] = NoTask

QueuedOnce == \A v, w \in Slots : \A i \in DOMAIN queue[v], j \in DOMAIN queue[w] :
                  queue[v][i] = queue[w][j] => v = w /\ i = j
HeldOnce == \A v, w \in Slots : Holding(v) /\ Holding(w) /\ hand[v] = hand[w] => v = w
QueuedState == \A t \in Tasks : InQueue(t) => state[t] = "PENDING" /\ ~Held(t)
HeldState == \A w \in Slots :
                 /\ wpc[w] \in {"call", "begin"} => state[hand[w]] = "PENDING"
                 /\ wpc[w] = "run" => state[hand[w]] = "STARTED"
RunsState == \A t \in Tasks : runs[t] = IF state[t] = "PENDING" THEN 0 ELSE 1
BatchFresh ==
    Submitting =>
        /\ \A i, j \in DOMAIN batch : batch[i] = batch[j] /\ batch[i] # NoTask => i = j
        /\ \A i \in DOMAIN batch : i >= cursor /\ batch[i] # NoTask => Fresh(batch[i])

TaskInv == /\ QueuedOnce
           /\ HeldOnce
           /\ QueuedState
           /\ HeldState
           /\ RunsState
           /\ BatchFresh

Serving(w) == wpc[w] \notin {"none", "exited"}
OpenInv ==
    /\ starts = 0 \/ pc = "starting" => \A w \in Slots : queue[w] = <<>> /\ ~stop[w]
    /\ starts = 0 => \A w \in Slots : ~started[w]
    /\ pc = "starting" => /\ starts = 1
                          /\ \A w \in Slots : IF w < cursor THEN Serving(w) ELSE ~started[w]
    /\ isStarted /\ ~ClosingDown => \A w \in Slots : ~stop[w] /\ (w < poolSize => Serving(w))
    /\ isStarted => \A w \in Slots : queue[w] # <<>> => w < poolSize

-----------------------------------------------------------------------------
(* Arithmetic of the slots.                                                *)

LEMMA SlotFacts ==
    /\ OptionThreads \in 1..NThreads
    /\ InvalidSize \in Nat \ {0}
    /\ NThreads <= InvalidSize
    /\ \A w : w \in Slots <=> w \in Nat /\ w < InvalidSize
<1>1. OptionThreads \in 1..NThreads
  BY DEF OptionThreads
<1>2. NThreads * MaxStarts = NThreads + NThreads * (MaxStarts - 1)
  OBVIOUS
<1>3. NThreads * (MaxStarts - 1) \in Nat
  OBVIOUS
<1>4. NThreads * MaxStarts \in Nat \ {0} /\ NThreads <= NThreads * MaxStarts
  BY <1>2, <1>3
<1>5. \A w : w \in Slots <=> w \in Nat /\ w < InvalidSize
  BY <1>4 DEF Slots, InvalidSize
<1> QED
  BY <1>1, <1>4, <1>5 DEF InvalidSize

\* There is room for the threads of every start.
LEMMA Room ==
    ASSUME NEW n \in 0..MaxStarts
    PROVE  OptionThreads * n \in 0..InvalidSize
<1>1. OptionThreads \in 1..NThreads
  BY SlotFacts
<1>2. OptionThreads * n \in Nat /\ NThreads * n \in Nat /\ NThreads * MaxStarts \in Nat
  BY <1>1
<1>3. NThreads * n = OptionThreads * n + (NThreads - OptionThreads) * n
  BY <1>1
<1>4. (NThreads - OptionThreads) * n \in Nat
  BY <1>1
<1>5. NThreads * MaxStarts = NThreads * n + NThreads * (MaxStarts - n)
  OBVIOUS
<1>6. NThreads * (MaxStarts - n) \in Nat
  OBVIOUS
<1> QED
  BY <1>2, <1>3, <1>4, <1>5, <1>6 DEF InvalidSize

LEMMA RoomToSpawn ==
    ASSUME NEW n \in 1..MaxStarts, NEW c \in 0..OptionThreads
    PROVE  OptionThreads * (n - 1) + c \in 0..InvalidSize
<1>1. OptionThreads \in 1..NThreads
  BY SlotFacts
<1>2. OptionThreads * n \in 0..InvalidSize /\ InvalidSize \in Nat
  BY Room, SlotFacts
<1>3. OptionThreads * n = OptionThreads * (n - 1) + OptionThreads
  BY <1>1
<1>4. OptionThreads * (n - 1) \in Nat
  BY <1>1
<1> QED
  BY <1>1, <1>2, <1>3, <1>4

-----------------------------------------------------------------------------
(* Type correctness.                                                       *)

\* The slot that Enqueue picks.
Picked == IF next >= poolSize THEN 0 ELSE next

LEMMA PickedSlot ==
    ASSUME TypeOK
    PROVE  Picked \in Slots /\ Picked + 1 \in 0..InvalidSize
<1>1. poolSize \in Nat /\ poolSize <= InvalidSize /\ next \in Nat
  BY DEF TypeOK, InvalidSize
<1>2. Picked \in Nat /\ Picked < InvalidSize
  BY <1>1, SlotFacts DEF Picked
<1> QED
  BY <1>2, SlotFacts

LEMMA EnqueueTypes ==
    ASSUME TypeOK, NEW t \in Tasks, Enqueue(t)
    PROVE  /\ queue' \in [Slots -> Seq(Tasks)]
           /\ next' \in 0..InvalidSize
<1>1. Append(queue[Picked], t) \in Seq(Tasks)
  BY PickedSlot, AppendProperties DEF TypeOK
<1> QED
  BY <1>1, PickedSlot DEF Enqueue, Picked, TypeOK

LEMMA ReturnTypes ==
    ASSUME TypeOK, NEW how \in Outcome, Return(how)
    PROVE  /\ pc' \in PC /\ cursor' \in Nat
           /\ batch' \in Seq(Tasks \cup {NoTask}) /\ outcome' \in Outcome
BY DEF TypeOK, Return, PC

LEMMA RefuseTypes ==
    ASSUME TypeOK, NEW how \in Outcome, Refuse(how)
    PROVE  TypeOK'
BY ReturnTypes DEF Refuse, TypeOK, poolVars, threadVars, workVars, taskVars

LEMMA BatchesAreSeqs == \A b \in Batches : b \in Seq(Tasks \cup {NoTask})
BY DEF Batches

LEMMA OwnerCallTypes ==
    ASSUME TypeOK, OwnerCalls
    PROVE  TypeOK'
<1> USE DEF poolVars, threadVars, workVars, taskVars, callVars
<1>1. CASE StartRefused \/ CloseIgnored
  BY <1>1, RefuseTypes DEF StartRefused, CloseIgnored, Outcome
<1>2. CASE Start
  BY <1>2 DEF Start, TypeOK, PC
<1>3. CASE Close
  BY <1>3 DEF Close, TypeOK, PC
<1>4. ASSUME NEW t \in Tasks, AddTask(t) PROVE TypeOK'
  <2>1. CASE Refuse("logic_error")
    BY <2>1, RefuseTypes DEF Outcome
  <2>2. CASE Enqueue(t) /\ Return("ok")
    BY <2>2, EnqueueTypes, ReturnTypes DEF Outcome, Enqueue, TypeOK
  <2> QED
    BY <1>4, <2>1, <2>2 DEF AddTask
<1>5. ASSUME NEW t \in Tasks, Reschedule(t) PROVE TypeOK'
  BY <1>5 DEF Reschedule, TypeOK, TaskState
<1>6. ASSUME NEW b \in Batches, AddTasks(b) \/ Execute(b) PROVE TypeOK'
  <2>1. CASE Refuse("logic_error") \/ Refuse("ok")
    BY <2>1, RefuseTypes DEF Outcome
  <2>2. CASE Enter("adding", b) \/ Enter("executing", b)
    BY <1>6, <2>2, BatchesAreSeqs DEF Enter, TypeOK, PC
  <2> QED
    BY <1>6, <2>1, <2>2 DEF AddTasks, Execute
<1> QED
  BY <1>1, <1>2, <1>3, <1>4, <1>5, <1>6 DEF OwnerCalls

LEMMA OwnerStepTypes ==
    ASSUME TypeOK, PoolInv, OwnerSteps
    PROVE  TypeOK'
<1> USE DEF poolVars, threadVars, workVars, taskVars, callVars
<1>1. CASE SpawnThread
  <2>1. cursor + 1 \in 0..OptionThreads /\ starts \in 1..MaxStarts
    BY <1>1, SlotFacts DEF SpawnThread, PoolInv, TypeOK
  <2>2. poolSize' = OptionThreads * (starts - 1) + (cursor + 1)
    BY <1>1, <2>1, SlotFacts DEF SpawnThread, PoolInv, TypeOK
  <2>3. poolSize' \in 0..(NThreads * MaxStarts)
    BY <2>1, <2>2, RoomToSpawn DEF InvalidSize
  <2>4. started' \in [Slots -> BOOLEAN] /\ wpc' \in [Slots -> WPC]
    BY <1>1 DEF SpawnThread, TypeOK, WPC
  <2> QED
    BY <1>1, <2>3, <2>4 DEF SpawnThread, TypeOK
<1>2. CASE StartDone \/ CloseDone
  BY <1>2, ReturnTypes DEF StartDone, CloseDone, TypeOK, Outcome
<1>3. CASE SubmitNext
  <2>1. CASE Refuse("invalid_argument") \/ Refuse("logic_error")
    BY <2>1, RefuseTypes DEF Outcome
  <2>2. CASE /\ batch[cursor] # NoTask
             /\ Enqueue(batch[cursor])
             /\ cursor' = cursor + 1
             /\ UNCHANGED <<pc, batch, outcome>>
    <3>1. cursor \in 1..Len(batch)
      BY <1>3, LenProperties DEF SubmitNext, TypeOK, PoolInv, Submitting
    <3>2. batch[cursor] \in Tasks
      BY <2>2, <3>1, ElementOfSeq DEF TypeOK
    <3>3. queue' \in [Slots -> Seq(Tasks)] /\ next' \in 0..InvalidSize
      BY <2>2, <3>2, EnqueueTypes
    <3> QED
      BY <2>2, <3>3 DEF Enqueue, TypeOK
  <2> QED
    BY <1>3, <2>1, <2>2 DEF SubmitNext
<1>4. CASE AddTasksReturn \/ ExecuteReturn
  BY <1>4, RefuseTypes DEF AddTasksReturn, ExecuteReturn, Outcome
<1>5. CASE StopThread
  BY <1>5 DEF StopThread, TypeOK, PC
<1>6. CASE JoinThread
  <2>1. wpc' \in [Slots -> WPC]
    BY <1>6 DEF JoinThread, TypeOK, WPC
  <2> QED
    BY <1>6, <2>1 DEF JoinThread, TypeOK, PC
<1> QED
  BY <1>1, <1>2, <1>3, <1>4, <1>5, <1>6 DEF OwnerSteps

LEMMA WorkerTypes ==
    ASSUME TypeOK, PoolInv, NEW w \in Slots, Worker(w)
    PROVE  TypeOK'
<1> USE DEF poolVars, threadVars, taskVars, callVars, WPC
<1>1. CASE TestStop(w)
  BY <1>1 DEF TestStop, TypeOK
<1>2. CASE PopTask(w)
  <2>1. CASE queue[w] = <<>>
    BY <1>2, <2>1 DEF PopTask, TypeOK
  <2>2. CASE queue[w] # <<>>
    <3>1. Head(queue[w]) \in Tasks /\ Tail(queue[w]) \in Seq(Tasks)
      BY <2>2, HeadTailProperties DEF TypeOK
    <3>2. queue' = [queue EXCEPT ![w] = Tail(queue[w])]
      BY <1>2, <2>2 DEF PopTask
    <3>3. queue' \in [Slots -> Seq(Tasks)]
      BY <3>1, <3>2 DEF TypeOK
    <3>4. hand' \in [Slots -> Tasks \cup {NoTask}] /\ wpc' \in [Slots -> WPC]
      BY <1>2, <2>2, <3>1 DEF PopTask, TypeOK
    <3> QED
      BY <1>2, <2>2, <3>3, <3>4 DEF PopTask, TypeOK
  <2> QED
    BY <2>1, <2>2
<1>3. CASE CheckState(w)
  BY <1>3 DEF CheckState, TypeOK
<1>4. CASE BeginRun(w)
  <2>1. state' \in [Tasks -> TaskState] /\ wpc' \in [Slots -> WPC]
    BY <1>4 DEF BeginRun, TypeOK, TaskState
  <2>2. hand[w] \in Tasks
    BY <1>4 DEF BeginRun, PoolInv
  <2>3. runs' \in [Tasks -> Nat]
    BY <1>4, <2>2 DEF BeginRun, TypeOK
  <2> QED
    BY <1>4, <2>1, <2>3 DEF BeginRun, TypeOK
<1>5. ASSUME NEW end \in EndStates, EndRun(w, end) PROVE TypeOK'
  BY <1>5 DEF EndRun, TypeOK, TaskState
<1>6. CASE LogFinished(w)
  BY <1>6 DEF LogFinished, TypeOK
<1> QED
  BY <1>1, <1>2, <1>3, <1>4, <1>5, <1>6 DEF Worker

LEMMA NextTypes == TypeOK /\ PoolInv /\ [Next]_vars => TypeOK'
<1> SUFFICES ASSUME TypeOK, PoolInv, [Next]_vars PROVE TypeOK'
  OBVIOUS
<1>1. CASE UNCHANGED vars
  BY <1>1 DEF vars, callVars, poolVars, threadVars, workVars, taskVars, TypeOK
<1> QED
  BY <1>1, OwnerCallTypes, OwnerStepTypes, WorkerTypes DEF Next

-----------------------------------------------------------------------------
(* PoolInv.  Its threads' part, which the owner's calls leave alone, and    *)
(* the owner's part, which the workers leave alone.                         *)

\* Steps that touch neither the threads nor the tasks in the workers' hands,
\* and after which the owner is in no loop of start() or close().
LEMMA CallKeepsPool ==
    ASSUME TypeOK, PoolInv, pc \notin {"starting", "closing", "joining"},
           pc' \in {"idle", "adding", "executing"},
           pc' # "idle" => cursor' > 0,
           UNCHANGED <<poolSize, isStarted, starts, threadVars, wpc, hand, state>>
    PROVE  PoolInv'
BY DEF PoolInv, TypeOK, PC, ClosingDown, Submitting, NoThread, threadVars

LEMMA OwnerCallKeepsPool ==
    ASSUME TypeOK, PoolInv, OwnerCalls
    PROVE  PoolInv'
<1> USE DEF poolVars, threadVars, workVars, taskVars, callVars
<1>r. ASSUME NEW how, pc = "idle", Refuse(how) PROVE PoolInv'
  BY <1>r, CallKeepsPool DEF Refuse, Return
<1>1. CASE StartRefused \/ CloseIgnored
  BY <1>1, <1>r DEF StartRefused, CloseIgnored
<1>2. CASE Start
  <2>1. /\ starts' > 0
        /\ cursor' \in 0..OptionThreads
        /\ cursor' <= poolSize'
        /\ poolSize' = OptionThreads * (starts' - 1) + cursor'
    <3>1. poolSize = OptionThreads * starts /\ starts \in Nat /\ poolSize \in Nat
      BY <1>2 DEF Start, PoolInv, TypeOK
    <3> QED
      BY <1>2, <3>1, SlotFacts DEF Start
  <2> QED
    BY <1>2, <2>1 DEF Start, PoolInv, TypeOK, ClosingDown, Submitting, NoThread
<1>3. CASE Close
  BY <1>3 DEF Close, PoolInv, TypeOK, ClosingDown, Submitting, NoThread, Slots
<1>4. ASSUME NEW t \in Tasks, AddTask(t) PROVE PoolInv'
  <2>1. CASE Enqueue(t) /\ Return("ok")
    BY <1>4, <2>1, CallKeepsPool DEF AddTask, Enqueue, Return
  <2> QED
    BY <1>4, <1>r, <2>1 DEF AddTask
<1>5. ASSUME NEW t \in Tasks, Reschedule(t) PROVE PoolInv'
  BY <1>5 DEF Reschedule, PoolInv, TypeOK, ClosingDown, Submitting, NoThread
<1>6. ASSUME NEW b \in Batches, AddTasks(b) \/ Execute(b) PROVE PoolInv'
  <2>1. CASE Enter("adding", b) \/ Enter("executing", b)
    BY <1>6, <2>1, CallKeepsPool DEF AddTasks, Execute, Enter
  <2> QED
    BY <1>6, <1>r, <2>1 DEF AddTasks, Execute
<1> QED
  BY <1>1, <1>2, <1>3, <1>4, <1>5, <1>6 DEF OwnerCalls

LEMMA OwnerStepKeepsPool ==
    ASSUME TypeOK, PoolInv, OwnerSteps
    PROVE  PoolInv'
<1> USE DEF poolVars, threadVars, workVars, taskVars, callVars
<1>r. ASSUME NEW how, pc \in {"adding", "executing"}, Refuse(how) PROVE PoolInv'
  BY <1>r, CallKeepsPool DEF Refuse, Return
<1>1. CASE SpawnThread
  <2> USE DEF SpawnThread
  <2>1. /\ pc' = "starting" /\ starts' = starts /\ starts > 0 /\ ~isStarted'
        /\ cursor' \in 0..OptionThreads
        /\ cursor' <= poolSize'
        /\ poolSize' = OptionThreads * (starts' - 1) + cursor'
    <3>1. OptionThreads * (starts - 1) \in Nat /\ cursor \in Nat
      BY <1>1, SlotFacts DEF PoolInv, TypeOK
    <3> QED
      BY <1>1, <3>1, SlotFacts DEF PoolInv, TypeOK
  <2>2. cursor \in Slots /\ cursor < poolSize'
    <3>1. cursor \in Nat /\ cursor < OptionThreads /\ cursor <= poolSize /\ poolSize \in Nat
      BY <1>1 DEF PoolInv, TypeOK
    <3> QED
      BY <1>1, <3>1, SlotFacts
  <2>3. \A w \in Slots : w >= poolSize' => NoThread(w)'
    BY <1>1, <2>2, SlotFacts DEF PoolInv, TypeOK, NoThread
  <2>4. \A w \in Slots : w # cursor => wpc'[w] = wpc[w] /\ started'[w] = started[w]
    BY <1>1, <2>2 DEF TypeOK
  <2>5. CASE started[cursor]
    BY <1>1, <2>1, <2>3, <2>5 DEF PoolInv, TypeOK, NoThread, ClosingDown, Submitting
  <2>6. CASE ~started[cursor]
    <3>1. /\ wpc[cursor] = "none" /\ hand[cursor] = NoTask
          /\ wpc'[cursor] = "loop" /\ started'[cursor] = TRUE
      BY <1>1, <2>2, <2>6 DEF PoolInv, TypeOK, NoThread
    <3>2. \A w \in Slots : ~started'[w] => NoThread(w)'
      BY <1>1, <2>4, <3>1 DEF PoolInv, NoThread
    <3>3. \A t \in Tasks : state[t] = "STARTED" =>
              \E w \in Slots : wpc'[w] = "run" /\ hand[w] = t
      BY <2>4, <3>1 DEF PoolInv
    <3>4. \A w \in Slots : IF wpc'[w] \in {"call", "begin", "run", "log"}
                            THEN hand[w] \in Tasks ELSE hand[w] = NoTask
      BY <2>4, <3>1 DEF PoolInv
    <3> QED
      BY <1>1, <2>1, <2>3, <3>2, <3>3, <3>4 DEF PoolInv, ClosingDown, Submitting
  <2> QED
    BY <2>5, <2>6
<1>2. CASE StartDone
  <2>1. poolSize = OptionThreads * starts
    BY <1>2, SlotFacts DEF StartDone, PoolInv, TypeOK
  <2> QED
    BY <1>2, <2>1 DEF StartDone, Return, PoolInv, TypeOK, NoThread, ClosingDown, Submitting
<1>3. CASE SubmitNext
  <2>1. CASE Enqueue(batch[cursor]) /\ cursor' = cursor + 1 /\ UNCHANGED <<pc, batch, outcome>>
    <3>1. cursor' > 0
      BY <2>1 DEF TypeOK
    <3> QED
      BY <1>3, <2>1, <3>1, CallKeepsPool DEF SubmitNext, Enqueue
  <2> QED
    BY <1>3, <1>r, <2>1 DEF SubmitNext
<1>4. CASE AddTasksReturn \/ ExecuteReturn
  BY <1>4, <1>r DEF AddTasksReturn, ExecuteReturn
<1>5. CASE StopThread
  <2>1. \A w \in Slots : w # cursor => started'[w] = started[w]
    BY <1>5 DEF StopThread, TypeOK
  <2> QED
    BY <1>5, <2>1 DEF StopThread, PoolInv, TypeOK, NoThread, ClosingDown, Submitting
<1>6. CASE JoinThread
  <2>1. cursor \in Slots /\ wpc'[cursor] = "none"
    <3>1. cursor \in Nat /\ cursor < poolSize /\ poolSize \in Nat /\ poolSize <= InvalidSize
      BY <1>6 DEF JoinThread, PoolInv, TypeOK, InvalidSize
    <3>2. cursor \in Slots
      BY <3>1, SlotFacts
    <3> QED
      BY <1>6, <3>2 DEF JoinThread, TypeOK
  <2>2. \A w \in Slots : w # cursor => wpc'[w] = wpc[w]
    BY <1>6, <2>1 DEF JoinThread, TypeOK
  <2>3. \A w \in Slots : w < cursor' => NoThread(w)'
    BY <1>6, <2>1, <2>2 DEF JoinThread, PoolInv, TypeOK, NoThread, ClosingDown, Slots
  <2>4. \A w \in Slots : ~started'[w] => NoThread(w)'
    BY <1>6, <2>1, <2>2 DEF JoinThread, PoolInv, NoThread
  <2>5. \A t \in Tasks : state[t] = "STARTED" =>
            \E w \in Slots : wpc'[w] = "run" /\ hand[w] = t
    BY <1>6, <2>1, <2>2 DEF JoinThread, PoolInv
  <2>6. \A w \in Slots : IF wpc'[w] \in {"call", "begin", "run", "log"}
                          THEN hand[w] \in Tasks ELSE hand[w] = NoTask
    BY <1>6, <2>1, <2>2 DEF JoinThread, PoolInv
  <2>7. \A w \in Slots : w >= poolSize => NoThread(w)'
    BY <2>1, <2>2 DEF PoolInv, NoThread
  <2>8. isStarted /\ cursor' <= poolSize /\ starts > 0 /\ poolSize = OptionThreads * starts
    BY <1>6 DEF JoinThread, PoolInv, TypeOK, ClosingDown
  <2> QED
    BY <1>6, <2>3, <2>4, <2>5, <2>6, <2>7, <2>8
    DEF JoinThread, PoolInv, ClosingDown, Submitting
<1>7. CASE CloseDone
  <2>1. \A w \in Slots : NoThread(w)
    BY <1>7 DEF CloseDone, PoolInv, TypeOK, ClosingDown, Slots
  <2> QED
    BY <1>7, <2>1 DEF CloseDone, Return, PoolInv, TypeOK, NoThread, ClosingDown, Submitting
<1> QED
  BY <1>1, <1>2, <1>3, <1>4, <1>5, <1>6, <1>7 DEF OwnerSteps

\* A worker's step is one of a thread that exists, and the thread goes on
\* existing.
LEMMA WorkerKeepsPool ==
    ASSUME TypeOK, PoolInv, NEW w \in Slots, Worker(w)
    PROVE  PoolInv'
<1> USE DEF callVars, poolVars, threadVars, taskVars
<1>1. /\ UNCHANGED <<callVars, poolVars, threadVars>>
      /\ wpc[w] # "none" /\ wpc'[w] # "none"
      /\ \A v \in Slots : v # w => wpc'[v] = wpc[v] /\ hand'[v] = hand[v]
  BY DEF Worker, TestStop, PopTask, CheckState, BeginRun, EndRun, LogFinished, TypeOK
<1>2. \A v \in Slots : NoThread(v)' <=> NoThread(v)
  BY <1>1 DEF NoThread
<1>3. IF wpc'[w] \in {"call", "begin", "run", "log"} THEN hand'[w] \in Tasks
                                                   ELSE hand'[w] = NoTask
  <2>1. CASE PopTask(w)
    <3>1. queue[w] # <<>> => Head(queue[w]) \in Tasks
      BY HeadTailProperties DEF TypeOK
    <3> QED
      BY <2>1, <3>1 DEF PopTask, PoolInv, TypeOK
  <2>2. CASE ~PopTask(w)
    BY <2>2 DEF Worker, TestStop, CheckState, BeginRun, EndRun, LogFinished, PoolInv, TypeOK
  <2> QED
    BY <2>1, <2>2
<1>4. ASSUME NEW t \in Tasks, state'[t] = "STARTED"
      PROVE  \E v \in Slots : wpc'[v] = "run" /\ hand'[v] = t
  <2>1. CASE BeginRun(w)
    <3>1. hand[w] \in Tasks /\ wpc'[w] = "run" /\ hand' = hand
      BY <2>1 DEF BeginRun, PoolInv, TypeOK
    <3>2. CASE t = hand[w]
      BY <3>1, <3>2
    <3>3. CASE t # hand[w]
      <4>1. state[t] = "STARTED"
        BY <1>4, <2>1, <3>3 DEF BeginRun, TypeOK
      <4>2. PICK v \in Slots : wpc[v] = "run" /\ hand[v] = t
        BY <4>1 DEF PoolInv
      <4> QED
        BY <1>1, <3>1, <4>2
    <3> QED
      BY <3>2, <3>3
  <2>2. ASSUME NEW end \in EndStates, EndRun(w, end)
        PROVE  \E v \in Slots : wpc'[v] = "run" /\ hand'[v] = t
    <3>1. t # hand[w] /\ state[t] = "STARTED"
      BY <1>4, <2>2 DEF EndRun, TypeOK
    <3>2. PICK v \in Slots : wpc[v] = "run" /\ hand[v] = t
      BY <3>1 DEF PoolInv
    <3> QED
      BY <1>1, <3>1, <3>2
  <2>3. CASE TestStop(w) \/ PopTask(w) \/ CheckState(w) \/ LogFinished(w)
    <3>1. state[t] = "STARTED" /\ wpc[w] # "run"
      BY <1>4, <2>3 DEF TestStop, PopTask, CheckState, LogFinished
    <3>2. PICK v \in Slots : wpc[v] = "run" /\ hand[v] = t
      BY <3>1 DEF PoolInv
    <3> QED
      BY <1>1, <3>1, <3>2
  <2> QED
    BY <2>1, <2>2, <2>3 DEF Worker
<1>5. \A v \in Slots : IF wpc'[v] \in {"call", "begin", "run", "log"}
                        THEN hand'[v] \in Tasks ELSE hand'[v] = NoTask
  BY <1>1, <1>3 DEF PoolInv
<1> QED
  BY <1>1, <1>2, <1>4, <1>5 DEF PoolInv, ClosingDown, Submitting

LEMMA InitPool == Init => TypeOK /\ PoolInv
<1> SUFFICES ASSUME Init PROVE TypeOK /\ PoolInv
  OBVIOUS
<1>1. TypeOK
  <2>1. poolSize \in 0..(NThreads * MaxStarts) /\ next \in 0..InvalidSize
    BY SlotFacts DEF Init, InvalidSize
  <2>2. batch \in Seq(Tasks \cup {NoTask}) /\ queue \in [Slots -> Seq(Tasks)]
    BY EmptySeq DEF Init
  <2>3. wpc \in [Slots -> WPC] /\ hand \in [Slots -> Tasks \cup {NoTask}]
    BY DEF Init, WPC
  <2>4. state \in [Tasks -> TaskState] /\ runs \in [Tasks -> Nat]
    BY DEF Init, TaskState
  <2>5. stop \in [Slots -> BOOLEAN] /\ started \in [Slots -> BOOLEAN]
    BY DEF Init
  <2>6. pc \in PC /\ cursor \in Nat /\ outcome \in Outcome /\ starts \in 0..MaxStarts
    BY DEF Init, PC, Outcome
  <2>7. isStarted \in BOOLEAN /\ isClosed \in BOOLEAN
    BY DEF Init
  <2> QED
    BY <2>1, <2>2, <2>3, <2>4, <2>5, <2>6, <2>7 DEF TypeOK
<1>2. OptionThreads * 0 = 0
  BY SlotFacts
<1> QED
  BY <1>1, <1>2 DEF Init, PoolInv, NoThread, ClosingDown, Submitting

LEMMA NextPool == TypeOK /\ PoolInv /\ [Next]_vars => PoolInv'
<1> SUFFICES ASSUME TypeOK, PoolInv, [Next]_vars PROVE PoolInv'
  OBVIOUS
<1>1. CASE UNCHANGED vars
  BY <1>1 DEF vars, callVars, poolVars, threadVars, workVars, taskVars, PoolInv, NoThread,
              ClosingDown, Submitting
<1> QED
  BY <1>1, OwnerCallKeepsPool, OwnerStepKeepsPool, WorkerKeepsPool DEF Next

\* Type correctness, for any number of threads and starts: pool_ is never
\* indexed past its end by the round robin, and no worker pops an empty queue.
THEOREM TypeCorrect == Spec => [](TypeOK /\ PoolInv)
BY InitPool, NextTypes, NextPool, PTL DEF Spec

\* close() leaves no thread and no half-run task behind, however many workers
\* the pool has and however often it was started and closed.
THEOREM CloseQuiesces == Spec => []ClosedIsQuiet
<1>1. TypeOK /\ PoolInv => ClosedIsQuiet
  BY DEF PoolInv, ClosedIsQuiet, NoThread
<1> QED
  BY <1>1, TypeCorrect, PTL

-----------------------------------------------------------------------------
(* TaskInv.  First what the two operations on queues do to the places of    *)
(* the tasks; the rest of the argument no longer looks inside a sequence.   *)

LEMMA EnqueuePlaces ==
    ASSUME TypeOK, QueuedOnce, NEW t \in Tasks, ~InQueue(t), Enqueue(t)
    PROVE  /\ QueuedOnce'
           /\ \A u \in Tasks : InQueue(u)' <=> InQueue(u) \/ u = t
<1> DEFINE n == Len(queue[Picked]) + 1
<1>1. Picked \in Slots /\ queue[Picked] \in Seq(Tasks) /\ n \in Nat \ {0}
  BY PickedSlot, LenProperties DEF TypeOK
<1>2. queue' = [queue EXCEPT ![Picked] = Append(queue[Picked], t)]
  BY DEF Enqueue, Picked
<1>3. /\ DOMAIN queue'[Picked] = (DOMAIN queue[Picked]) \cup {n}
      /\ DOMAIN queue[Picked] = 1..(n - 1)
      /\ queue'[Picked][n] = t
      /\ \A i \in DOMAIN queue[Picked] : queue'[Picked][i] = queue[Picked][i]
  <2>1. queue'[Picked] = Append(queue[Picked], t)
    BY <1>1, <1>2 DEF TypeOK
  <2>2. Append(queue[Picked], t) \in Seq(Tasks) /\ Len(Append(queue[Picked], t)) = n
    BY <1>1, AppendProperties
  <2>3. DOMAIN queue'[Picked] = 1..n /\ DOMAIN queue[Picked] = 1..(n - 1)
    BY <1>1, <2>1, <2>2, LenProperties
  <2> QED
    BY <1>1, <2>1, <2>3, AppendProperties
<1>4. \A w \in Slots : w # Picked => queue'[w] = queue[w]
  BY <1>1, <1>2 DEF TypeOK
<1>5. \A w \in Slots : \A i \in DOMAIN queue[w] : queue[w][i] # t
  BY DEF InQueue
<1>6. QueuedOnce'
  BY <1>1, <1>3, <1>4, <1>5 DEF QueuedOnce
<1>7. ASSUME NEW u \in Tasks PROVE InQueue(u)' <=> InQueue(u) \/ u = t
  BY <1>1, <1>3, <1>4 DEF InQueue
<1> QED
  BY <1>6, <1>7

LEMMA PopPlaces ==
    ASSUME TypeOK, QueuedOnce, NEW w \in Slots, queue[w] # <<>>,
           queue' = [queue EXCEPT ![w] = Tail(queue[w])]
    PROVE  /\ QueuedOnce'
           /\ Head(queue[w]) \in Tasks
           /\ InQueue(Head(queue[w]))
           /\ \A u \in Tasks : InQueue(u)' <=> InQueue(u) /\ u # Head(queue[w])
<1> DEFINE n == Len(queue[w])
<1>1. /\ queue[w] \in Seq(Tasks) /\ n \in Nat \ {0}
      /\ Head(queue[w]) \in Tasks /\ Head(queue[w]) = queue[w][1]
      /\ DOMAIN queue[w] = 1..n
  BY HeadTailProperties, EmptySeq, LenProperties DEF TypeOK
<1>2. /\ DOMAIN queue'[w] = 1..(n - 1)
      /\ \A i \in 1..(n - 1) : queue'[w][i] = queue[w][i + 1]
  <2>1. queue'[w] = Tail(queue[w])
    BY DEF TypeOK
  <2>2. Tail(queue[w]) \in Seq(Tasks) /\ Len(Tail(queue[w])) = n - 1
    BY <1>1, HeadTailProperties
  <2>3. DOMAIN Tail(queue[w]) = 1..(n - 1)
    BY <2>2, LenProperties
  <2> QED
    BY <1>1, <2>1, <2>2, <2>3, HeadTailProperties
<1>3. \A v \in Slots : v # w => queue'[v] = queue[v]
  BY DEF TypeOK
<1>4. QueuedOnce'
  BY <1>1, <1>2, <1>3 DEF QueuedOnce
<1>5. InQueue(Head(queue[w]))
  BY <1>1 DEF InQueue
<1>6. ASSUME NEW u \in Tasks PROVE InQueue(u)' <=> InQueue(u) /\ u # Head(queue[w])
  <2>1. ASSUME InQueue(u)' PROVE InQueue(u) /\ u # Head(queue[w])
    <3>0. PICK v \in Slots : \E i \in DOMAIN queue'[v] : queue'[v][i] = u
      BY <2>1 DEF InQueue
    <3>1. PICK i \in DOMAIN queue'[v] : queue'[v][i] = u
      BY <3>0
    <3>2. CASE v = w
      <4>1. i + 1 \in DOMAIN queue[w] /\ queue[w][i + 1] = u /\ 1 \in DOMAIN queue[w] /\ i + 1 # 1
        BY <1>1, <1>2, <3>1, <3>2
      <4> QED
        BY <1>1, <4>1 DEF InQueue, QueuedOnce
    <3>3. CASE v # w
      BY <1>1, <1>3, <3>1, <3>3 DEF InQueue, QueuedOnce
    <3> QED
      BY <3>2, <3>3
  <2>2. ASSUME InQueue(u), u # Head(queue[w]) PROVE InQueue(u)'
    <3>0. PICK v \in Slots : \E i \in DOMAIN queue[v] : queue[v][i] = u
      BY <2>2 DEF InQueue
    <3>1. PICK i \in DOMAIN queue[v] : queue[v][i] = u
      BY <3>0
    <3>2. CASE v = w
      <4>1. i - 1 \in 1..(n - 1) /\ queue'[w][i - 1] = u
        BY <1>1, <1>2, <2>2, <3>1, <3>2
      <4> QED
        BY <1>2, <4>1 DEF InQueue
    <3>3. CASE v # w
      BY <1>3, <3>1, <3>3 DEF InQueue
    <3> QED
      BY <3>2, <3>3
  <2> QED
    BY <2>1, <2>2
<1> QED
  BY <1>1, <1>4, <1>5, <1>6

\* Steps that leave the queues, the tasks and every holding worker alone.
LEMMA UntouchedTasks ==
    ASSUME TypeOK, TaskInv, UNCHANGED <<queue, state, runs>>,
           \A w \in Slots : \/ wpc'[w] = wpc[w] /\ hand'[w] = hand[w]
                            \/ ~Holding(w) /\ ~Holding(w)',
           pc' \in {"adding", "executing"} => UNCHANGED <<pc, cursor, batch>>
    PROVE  TaskInv'
<1>1. \A w \in Slots : /\ Holding(w)' <=> Holding(w)
                       /\ Holding(w) => wpc'[w] = wpc[w] /\ hand'[w] = hand[w]
  BY DEF Holding
<1>2. \A t \in Tasks : /\ InQueue(t)' <=> InQueue(t)
                       /\ Held(t)' <=> Held(t)
                       /\ Fresh(t)' <=> Fresh(t)
  BY <1>1 DEF InQueue, Held, Fresh
<1>3. QueuedOnce' /\ QueuedState' /\ RunsState'
  BY <1>2 DEF TaskInv, QueuedOnce, QueuedState, RunsState
<1>4. HeldOnce' /\ HeldState'
  BY <1>1 DEF TaskInv, HeldOnce, HeldState, Holding
<1>5. BatchFresh'
  <2> SUFFICES ASSUME pc' \in {"adding", "executing"} PROVE BatchFresh'
    BY DEF BatchFresh, Submitting
  <2>1. \A i \in DOMAIN batch : batch[i] # NoTask => batch[i] \in Tasks
    BY LenProperties, ElementOfSeq DEF TypeOK
  <2> QED
    BY <1>2, <2>1 DEF TaskInv, BatchFresh, Submitting
<1> QED
  BY <1>3, <1>4, <1>5 DEF TaskInv

\* Handing over a fresh task; a call that does so in a loop has fresh tasks
\* left, because the tasks of a vector are distinct.
LEMMA EnqueueKeepsTasks ==
    ASSUME TypeOK, TaskInv, NEW t \in Tasks, Fresh(t), Enqueue(t),
           pc' \in {"adding", "executing"} =>
               /\ UNCHANGED <<pc, batch>>
               /\ cursor \in DOMAIN batch
               /\ batch[cursor] = t
               /\ cursor' = cursor + 1
    PROVE  TaskInv'
<1> USE DEF Enqueue, threadVars, taskVars
<1>1. /\ QueuedOnce'
      /\ \A u \in Tasks : InQueue(u)' <=> InQueue(u) \/ u = t
  BY EnqueuePlaces DEF TaskInv, Fresh
<1>2. \A u \in Tasks : Held(u)' <=> Held(u)
  BY DEF Held, Holding
<1>3. QueuedState' /\ HeldOnce' /\ HeldState' /\ RunsState'
  BY <1>1, <1>2 DEF TaskInv, QueuedState, HeldOnce, HeldState, RunsState, Holding, Fresh
<1>4. BatchFresh'
  <2> SUFFICES ASSUME pc' \in {"adding", "executing"} PROVE BatchFresh'
    BY DEF BatchFresh, Submitting
  <2>1. \A i \in DOMAIN batch : batch[i] # NoTask => batch[i] \in Tasks
    BY LenProperties, ElementOfSeq DEF TypeOK
  <2>2. \A i, j \in DOMAIN batch : batch[i] = batch[j] /\ batch[i] # NoTask => i = j
    BY DEF TaskInv, BatchFresh, Submitting
  <2>3. ASSUME NEW i \in DOMAIN batch, i >= cursor + 1, batch[i] # NoTask
        PROVE  Fresh(batch[i])'
    <3>1. i \in Nat /\ cursor \in Nat
      BY LenProperties DEF TypeOK
    <3>2. batch[i] # t /\ Fresh(batch[i]) /\ batch[i] \in Tasks
      BY <2>1, <2>2, <2>3, <3>1 DEF TaskInv, BatchFresh, Submitting
    <3> QED
      BY <1>1, <1>2, <3>2 DEF Fresh
  <2> QED
    BY <2>2, <2>3 DEF BatchFresh, Submitting
<1> QED
  BY <1>1, <1>3, <1>4 DEF TaskInv

LEMMA OwnerKeepsTasks ==
    ASSUME Disciplined, TypeOK, PoolInv, TaskInv, OwnerCalls \/ OwnerSteps
    PROVE  TaskInv'
<1> USE DEF poolVars, threadVars, workVars, taskVars, callVars
<1>r. ASSUME NEW how, Refuse(how) PROVE TaskInv'
  BY <1>r, UntouchedTasks DEF Refuse, Return
<1>1. CASE StartRefused \/ CloseIgnored \/ AddTasksReturn \/ ExecuteReturn
  BY <1>1, <1>r DEF StartRefused, CloseIgnored, AddTasksReturn, ExecuteReturn
<1>2. CASE Start \/ Close \/ StartDone \/ CloseDone \/ StopThread
  BY <1>2, UntouchedTasks DEF Start, Close, StartDone, CloseDone, StopThread, Return
<1>3. CASE SpawnThread
  <2>1. started[cursor] \/ wpc[cursor] = "none" \/ cursor \notin Slots
    BY <1>3 DEF SpawnThread, PoolInv, NoThread
  <2>2. \A w \in Slots : \/ wpc'[w] = wpc[w] /\ hand'[w] = hand[w]
                         \/ ~Holding(w) /\ ~Holding(w)'
    <3> SUFFICES ASSUME NEW w \in Slots, wpc'[w] # wpc[w]
                 PROVE  ~Holding(w) /\ ~Holding(w)'
      BY <1>3 DEF SpawnThread, Holding
    <3>1. w = cursor /\ ~started[cursor] /\ wpc'[w] = "loop"
      BY <1>3 DEF SpawnThread, TypeOK
    <3> QED
      BY <2>1, <3>1 DEF Holding
  <2> QED
    BY <1>3, <2>2, UntouchedTasks DEF SpawnThread
<1>4. CASE JoinThread
  <2>1. \A w \in Slots : \/ wpc'[w] = wpc[w] /\ hand'[w] = hand[w]
                         \/ ~Holding(w) /\ ~Holding(w)'
    <3> SUFFICES ASSUME NEW w \in Slots, wpc'[w] # wpc[w]
                 PROVE  ~Holding(w) /\ ~Holding(w)'
      BY <1>4 DEF JoinThread, Holding
    <3>1. w = cursor /\ wpc[w] \in {"none", "exited"} /\ wpc'[w] = "none"
      BY <1>4 DEF JoinThread, TypeOK
    <3> QED
      BY <3>1 DEF Holding
  <2> QED
    BY <1>4, <2>1, UntouchedTasks DEF JoinThread
<1>5. ASSUME NEW t \in Tasks, AddTask(t) PROVE TaskInv'
  <2>1. Fresh(t)
    BY <1>5 DEF AddTask, MaySubmit
  <2>2. CASE Enqueue(t) /\ Return("ok")
    BY <2>1, <2>2, EnqueueKeepsTasks DEF Return
  <2> QED
    BY <1>5, <1>r, <2>2 DEF AddTask
<1>6. ASSUME NEW t \in Tasks, Reschedule(t) PROVE TaskInv'
  <2>1. Finished(t) /\ ~InQueue(t) /\ ~Held(t)
    BY <1>6 DEF Reschedule, Finished, TaskInv, QueuedState, HeldState, Held, Holding
  <2>2. \A u \in Tasks : (InQueue(u)' <=> InQueue(u)) /\ (Held(u)' <=> Held(u))
    BY <1>6 DEF Reschedule, InQueue, Held, Holding
  <2>3. \A u \in Tasks : u # t => state'[u] = state[u] /\ runs'[u] = runs[u]
    BY <1>6 DEF Reschedule, TypeOK
  <2>4. state'[t] = "PENDING" /\ runs'[t] = 0
    BY <1>6 DEF Reschedule, TypeOK
  <2>5. QueuedOnce' /\ HeldOnce'
    BY <1>6 DEF Reschedule, TaskInv, QueuedOnce, HeldOnce, Holding
  <2>6. QueuedState' /\ RunsState'
    BY <2>1, <2>2, <2>3, <2>4 DEF TaskInv, QueuedState, RunsState
  <2>7. HeldState'
    <3> SUFFICES ASSUME NEW w \in Slots, Holding(w)
                 PROVE  state'[hand[w]] = state[hand[w]]
      BY <1>6 DEF HeldState, TaskInv, Reschedule, Holding
    <3>1. hand[w] \in Tasks /\ hand[w] # t
      BY <2>1 DEF Held, Holding, PoolInv
    <3> QED
      BY <2>3, <3>1
  <2>8. BatchFresh'
    BY <1>6 DEF Reschedule, BatchFresh, Submitting
  <2> QED
    BY <2>5, <2>6, <2>7, <2>8 DEF TaskInv
<1>7. ASSUME NEW b \in Batches, AddTasks(b) \/ Execute(b) PROVE TaskInv'
  <2>1. CASE Enter("adding", b) \/ Enter("executing", b)
    <3>1. \A i \in DOMAIN b : b[i] # NoTask => b[i] \in Tasks /\ Fresh(b[i])
      <4>1. \A i \in DOMAIN b : b[i] # NoTask => b[i] \in Tasks
        BY DEF Batches
      <4> QED
        BY <1>7, <4>1 DEF AddTasks, Execute, MaySubmitAll, MaySubmit
    <3>2. \A i, j \in DOMAIN b : b[i] = b[j] /\ b[i] # NoTask => i = j
      BY DEF Batches
    <3>3. \A t \in Tasks : Fresh(t)' <=> Fresh(t)
      BY <2>1 DEF Enter, Fresh, InQueue, Held, Holding
    <3>4. BatchFresh'
      BY <2>1, <3>1, <3>2, <3>3 DEF Enter, BatchFresh, Submitting
    <3> QED
      BY <2>1, <3>4 DEF Enter, TaskInv, QueuedOnce, HeldOnce, QueuedState, HeldState, RunsState,
                        InQueue, Held, Holding
  <2> QED
    BY <1>7, <1>r, <2>1 DEF AddTasks, Execute
<1>8. CASE SubmitNext
  <2>1. CASE /\ batch[cursor] # NoTask
             /\ Enqueue(batch[cursor])
             /\ cursor' = cursor + 1
             /\ UNCHANGED <<pc, batch, outcome>>
    <3>1. cursor \in DOMAIN batch
      BY <1>8, LenProperties DEF SubmitNext, TypeOK, PoolInv, Submitting
    <3>2. batch[cursor] \in Tasks /\ Fresh(batch[cursor])
      BY <1>8, <2>1, <3>1, LenProperties, ElementOfSeq
      DEF SubmitNext, TypeOK, TaskInv, BatchFresh, Submitting
    <3> QED
      BY <2>1, <3>1, <3>2, EnqueueKeepsTasks
  <2> QED
    BY <1>8, <1>r, <2>1 DEF SubmitNext
<1> QED
  BY <1>1, <1>2, <1>3, <1>4, <1>5, <1>6, <1>7, <1>8 DEF OwnerCalls, OwnerSteps

\* A popped task moves from a queue to one hand.
LEMMA PopKeepsTasks ==
    ASSUME TypeOK, PoolInv, TaskInv, NEW w \in Slots, PopTask(w), queue[w] # <<>>
    PROVE  TaskInv'
<1> USE DEF PopTask, callVars, poolVars, threadVars, taskVars
<1> DEFINE h == Head(queue[w])
<1>1. /\ QueuedOnce'
      /\ h \in Tasks
      /\ InQueue(h)
      /\ \A u \in Tasks : InQueue(u)' <=> InQueue(u) /\ u # h
  BY PopPlaces DEF TaskInv
<1>2. state[h] = "PENDING" /\ ~Held(h)
  BY <1>1 DEF TaskInv, QueuedState
<1>3. /\ ~Holding(w)
      /\ wpc'[w] = "call" /\ hand'[w] = h
      /\ \A v \in Slots : v # w => wpc'[v] = wpc[v] /\ hand'[v] = hand[v]
  BY DEF Holding, TypeOK
<1>4. \A u \in Tasks : Held(u)' <=> Held(u) \/ u = h
  BY <1>3 DEF Held, Holding
<1>5. HeldOnce'
  BY <1>2, <1>3 DEF TaskInv, HeldOnce, Held, Holding
<1>6. QueuedState' /\ RunsState'
  BY <1>1, <1>4 DEF TaskInv, QueuedState, RunsState
<1>7. HeldState'
  BY <1>2, <1>3 DEF TaskInv, HeldState
<1>8. \A u \in Tasks : Fresh(u) => Fresh(u)'
  BY <1>1, <1>4 DEF Fresh
<1>9. BatchFresh'
  <2>1. \A i \in DOMAIN batch : batch[i] # NoTask => batch[i] \in Tasks
    BY LenProperties, ElementOfSeq DEF TypeOK
  <2> QED
    BY <1>8, <2>1 DEF TaskInv, BatchFresh, Submitting
<1> QED
  BY <1>1, <1>5, <1>6, <1>7, <1>9 DEF TaskInv

\* A worker that begins or ends a run changes the state of the task in its
\* own hand, which is in no other place.
LEMMA RunKeepsTasks ==
    ASSUME TypeOK, PoolInv, TaskInv, NEW w \in Slots,
           BeginRun(w) \/ \E end \in EndStates : EndRun(w, end)
    PROVE  TaskInv'
<1> USE DEF callVars, poolVars, threadVars
<1> DEFINE h == hand[w]
<1>1. h \in Tasks /\ Holding(w) /\ Held(h) /\ ~InQueue(h)
  BY DEF BeginRun, EndRun, PoolInv, TaskInv, QueuedState, Held, Holding
<1>2. /\ \A v \in Slots : v # w => wpc'[v] = wpc[v] /\ hand'[v] = hand[v]
      /\ \A u \in Tasks : u # h => state'[u] = state[u] /\ runs'[u] = runs[u]
      /\ UNCHANGED <<queue, pc, cursor, batch>>
  BY <1>1 DEF BeginRun, EndRun, TypeOK
<1>3. \/ wpc'[w] = "run" /\ hand'[w] = h /\ state'[h] = "STARTED" /\ runs'[h] = 1
      \/ wpc'[w] \in {"loop", "log"} /\ state'[h] \in EndStates /\ runs'[h] = 1
  <2>1. CASE BeginRun(w)
    BY <1>1, <2>1 DEF BeginRun, TypeOK, TaskInv, RunsState, HeldState
  <2>2. ASSUME NEW end \in EndStates, EndRun(w, end)
        PROVE  wpc'[w] \in {"loop", "log"} /\ state'[h] \in EndStates /\ runs'[h] = 1
    BY <1>1, <2>2 DEF EndRun, TypeOK, TaskInv, RunsState, HeldState
  <2> QED
    BY <2>1, <2>2
<1>4. state'[h] # "PENDING"
  BY <1>3
<1>5. \A v \in Slots : v # w /\ Holding(v) => hand[v] # h
  BY <1>1 DEF TaskInv, HeldOnce
<1>6. \A u \in Tasks : (InQueue(u)' <=> InQueue(u)) /\ (Held(u)' => Held(u))
  <2>1. \A u \in Tasks : InQueue(u)' <=> InQueue(u)
    BY <1>2 DEF InQueue
  <2>2. ASSUME NEW u \in Tasks, Held(u)' PROVE Held(u)
    <3>1. PICK v \in Slots : Holding(v)' /\ hand'[v] = u
      BY <2>2 DEF Held
    <3>2. CASE v = w
      BY <1>1, <1>3, <3>1, <3>2 DEF Holding
    <3>3. CASE v # w
      BY <1>2, <3>1, <3>3 DEF Held, Holding
    <3> QED
      BY <3>2, <3>3
  <2> QED
    BY <2>1, <2>2
<1>7. QueuedOnce'
  BY <1>2 DEF TaskInv, QueuedOnce
<1>8. QueuedState' /\ RunsState'
  BY <1>1, <1>2, <1>3, <1>4, <1>6 DEF TaskInv, QueuedState, RunsState
<1>9. HeldOnce'
  BY <1>2, <1>3, <1>5 DEF TaskInv, HeldOnce, Holding
<1>10. HeldState'
  <2> SUFFICES ASSUME NEW v \in Slots
               PROVE  /\ wpc'[v] \in {"call", "begin"} => state'[hand'[v]] = "PENDING"
                      /\ wpc'[v] = "run" => state'[hand'[v]] = "STARTED"
    BY DEF HeldState
  <2>1. CASE v = w
    BY <1>3, <2>1
  <2>2. CASE v # w
    <3>1. Holding(v) => hand[v] \in Tasks /\ hand[v] # h
      BY <1>5, <2>2 DEF PoolInv, Holding
    <3> QED
      BY <1>2, <2>2, <3>1 DEF TaskInv, HeldState, Holding
  <2> QED
    BY <2>1, <2>2
<1>11. \A u \in Tasks : Fresh(u) => Fresh(u)'
  BY <1>1, <1>2, <1>6 DEF Fresh
<1>12. BatchFresh'
  <2>1. \A i \in DOMAIN batch : batch[i] # NoTask => batch[i] \in Tasks
    BY LenProperties, ElementOfSeq DEF TypeOK
  <2> QED
    BY <1>2, <1>11, <2>1 DEF TaskInv, BatchFresh, Submitting
<1> QED
  BY <1>7, <1>8, <1>9, <1>10, <1>12 DEF TaskInv

LEMMA WorkerKeepsTasks ==
    ASSUME TypeOK, PoolInv, TaskInv, NEW w \in Slots, Worker(w)
    PROVE  TaskInv'
<1> USE DEF callVars, poolVars, threadVars, taskVars
<1>1. CASE TestStop(w) \/ LogFinished(w) \/ (PopTask(w) /\ queue[w] = <<>>)
  <2>1. \A v \in Slots : \/ wpc'[v] = wpc[v] /\ hand'[v] = hand[v]
                         \/ ~Holding(v) /\ ~Holding(v)'
    <3> SUFFICES ASSUME NEW v \in Slots, wpc'[v] # wpc[v] \/ hand'[v] # hand[v]
                 PROVE  ~Holding(v) /\ ~Holding(v)'
      BY DEF Holding
    <3>1. v = w /\ wpc[w] \in {"loop", "log", "pop"} /\ wpc'[w] \in {"loop", "pop", "exited"}
      BY <1>1 DEF TestStop, LogFinished, PopTask, TypeOK
    <3> QED
      BY <3>1 DEF Holding
  <2> QED
    BY <1>1, <2>1, UntouchedTasks DEF TestStop, LogFinished, PopTask
<1>2. CASE PopTask(w) /\ queue[w] # <<>>
  BY <1>2, PopKeepsTasks
<1>3. CASE CheckState(w)
  <2>1. state[hand[w]] = "PENDING"
    BY <1>3 DEF CheckState, TaskInv, HeldState
  <2>2. /\ wpc[w] = "call" /\ wpc'[w] = "begin" /\ UNCHANGED <<hand, queue, taskVars, callVars>>
        /\ \A v \in Slots : v # w => wpc'[v] = wpc[v]
    BY <1>3, <2>1 DEF CheckState, TypeOK
  <2>3. \A v \in Slots : Holding(v)' <=> Holding(v)
    BY <2>2 DEF Holding
  <2>4. \A u \in Tasks : /\ InQueue(u)' <=> InQueue(u)
                         /\ Held(u)' <=> Held(u)
                         /\ Fresh(u)' <=> Fresh(u)
    BY <2>2, <2>3 DEF InQueue, Held, Fresh
  <2>5. QueuedOnce' /\ QueuedState' /\ RunsState' /\ HeldOnce'
    BY <2>2, <2>3, <2>4 DEF TaskInv, QueuedOnce, QueuedState, RunsState, HeldOnce
  <2>6. HeldState'
    BY <2>1, <2>2 DEF TaskInv, HeldState
  <2>7. BatchFresh'
    <3>1. \A i \in DOMAIN batch : batch[i] # NoTask => batch[i] \in Tasks
      BY LenProperties, ElementOfSeq DEF TypeOK
    <3> QED
      BY <2>2, <2>4, <3>1 DEF TaskInv, BatchFresh, Submitting
  <2> QED
    BY <2>5, <2>6, <2>7 DEF TaskInv
<1>4. CASE BeginRun(w) \/ \E end \in EndStates : EndRun(w, end)
  BY <1>4, RunKeepsTasks
<1> QED
  BY <1>1, <1>2, <1>3, <1>4 DEF Worker

LEMMA NextTasks == Disciplined /\ TypeOK /\ PoolInv /\ TaskInv /\ [Next]_vars => TaskInv'
<1> SUFFICES ASSUME Disciplined, TypeOK, PoolInv, TaskInv, [Next]_vars PROVE TaskInv'
  OBVIOUS
<1>1. CASE UNCHANGED vars
  BY <1>1, UntouchedTasks DEF vars, callVars, poolVars, threadVars, workVars, taskVars
<1> QED
  BY <1>1, OwnerKeepsTasks, WorkerKeepsTasks DEF Next

LEMMA InitTasks == Init => TaskInv
BY EmptySeq DEF Init, TaskInv, QueuedOnce, HeldOnce, QueuedState, HeldState, RunsState, BatchFresh,
                Submitting, InQueue, Held, Holding

\* The places of the tasks, for an owner that keeps track of its submissions.
LEMMA TasksInPlace ==
    ASSUME Disciplined
    PROVE  Spec => [](TypeOK /\ PoolInv /\ TaskInv)
<1>1. TaskInv /\ TypeOK /\ PoolInv /\ [Next]_vars => TaskInv'
  BY NextTasks
<1> QED
  BY <1>1, InitTasks, TypeCorrect, PTL DEF Spec

NoLogging == \A w \in Slots : wpc[w] # "log"

\* Once the owner sees a task finished no worker holds it or will pop it, for
\* any number of workers: without USE_LOG it is safe to destroy or reschedule.
THEOREM FinishedIsLetGo ==
    ASSUME Disciplined, ~UseLog
    PROVE  Spec => []LetGo
<1>1. Init => NoLogging
  BY DEF Init, NoLogging
<1>2. TypeOK /\ NoLogging /\ [Next]_vars => NoLogging'
  <2> SUFFICES ASSUME TypeOK, NoLogging, [Next]_vars,
                      NEW w \in Slots, wpc'[w] = "log", wpc[w] # "log"
               PROVE  FALSE
    BY DEF NoLogging
  <2> USE DEF vars, callVars, poolVars, threadVars, workVars, taskVars
  <2>1. CASE OwnerCalls
    BY <2>1 DEF OwnerCalls, StartRefused, Start, CloseIgnored, Close, AddTask, Reschedule,
                AddTasks, Execute, Enter, Refuse, Return, Enqueue
  <2>2. CASE OwnerSteps
    BY <2>2 DEF OwnerSteps, SpawnThread, StartDone, SubmitNext, AddTasksReturn, ExecuteReturn,
                StopThread, JoinThread, CloseDone, Refuse, Return, Enqueue, TypeOK
  <2>3. ASSUME NEW v \in Slots, Worker(v) PROVE FALSE
    BY <2>3 DEF Worker, TestStop, PopTask, CheckState, BeginRun, EndRun, LogFinished, TypeOK
  <2>4. CASE UNCHANGED vars
    BY <2>4
  <2> QED
    BY <2>1, <2>2, <2>3, <2>4 DEF Next
<1>3. TypeOK /\ PoolInv /\ TaskInv /\ NoLogging => LetGo
  <2> SUFFICES ASSUME PoolInv, TaskInv, NoLogging,
                      NEW t \in Tasks, Finished(t)
               PROVE  ~InQueue(t) /\ \A w \in Slots : hand[w] # t
    BY DEF LetGo
  <2>1. ~InQueue(t)
    BY DEF TaskInv, QueuedState, Finished
  <2>2. ASSUME NEW w \in Slots, hand[w] = t PROVE FALSE
    BY <2>2 DEF PoolInv, TaskInv, HeldState, Finished, NoLogging
  <2> QED
    BY <2>1, <2>2
<1> QED
  BY <1>1, <1>2, <1>3, TasksInPlace, PTL DEF Spec

\* run() is called at most once each time a task is made pending, for any
\* number of workers.
THEOREM TasksRunOnce ==
    ASSUME Disciplined
    PROVE  Spec => []RunsOnce
<1>1. TaskInv => RunsOnce
  BY DEF TaskInv, RunsState, RunsOnce
<1> QED
  BY <1>1, TasksInPlace, PTL

-----------------------------------------------------------------------------
(* The pool implements ForkJoin.                                            *)

\* What a call has already submitted are tasks, not null pointers.
NonNullSoFar == Submitting => \A i \in DOMAIN batch : i < cursor => batch[i] \in Tasks

LEMMA NonNullKept == TypeOK /\ PoolInv /\ NonNullSoFar /\ [Next]_vars => NonNullSoFar'
<1> SUFFICES ASSUME TypeOK, PoolInv, NonNullSoFar, [Next]_vars,
                    pc' \in {"adding", "executing"}
             PROVE  \A i \in DOMAIN batch' : i < cursor' => batch'[i] \in Tasks
  BY DEF NonNullSoFar, Submitting
<1> USE DEF vars, callVars
<1>1. CASE UNCHANGED callVars
  BY <1>1 DEF NonNullSoFar, Submitting
<1>2. ASSUME NEW b \in Batches, AddTasks(b) \/ Execute(b)
      PROVE  \A i \in DOMAIN batch' : i < cursor' => batch'[i] \in Tasks
  <2>1. cursor' = 1 /\ batch' = b
    BY <1>2 DEF AddTasks, Execute, Enter, Refuse, Return
  <2>2. \A i \in DOMAIN b : i \in Nat /\ i >= 1
    BY LenProperties DEF Batches
  <2> QED
    BY <2>1, <2>2
<1>3. CASE SubmitNext
  <2>1. /\ batch[cursor] # NoTask /\ cursor' = cursor + 1
        /\ UNCHANGED <<pc, batch>> /\ cursor <= Len(batch)
    BY <1>3 DEF SubmitNext, Refuse, Return
  <2>2. cursor \in DOMAIN batch /\ DOMAIN batch = 1..Len(batch)
    BY <2>1, LenProperties DEF TypeOK, PoolInv, Submitting
  <2>3. batch[cursor] \in Tasks
    BY <2>1, <2>2, ElementOfSeq DEF TypeOK
  <2> QED
    BY <2>1, <2>2, <2>3, LenProperties DEF NonNullSoFar, Submitting, TypeOK
<1>4. CASE OwnerCalls /\ ~UNCHANGED callVars
  BY <1>2, <1>4 DEF OwnerCalls, StartRefused, Start, CloseIgnored, Close, AddTask, Reschedule,
                    Refuse, Return
<1>5. CASE OwnerSteps /\ ~SubmitNext
  BY <1>5 DEF OwnerSteps, SpawnThread, StartDone, AddTasksReturn, ExecuteReturn, StopThread,
              JoinThread, CloseDone, Refuse, Return
<1>6. ASSUME NEW w \in Slots, Worker(w) PROVE UNCHANGED callVars
  BY <1>6 DEF Worker, TestStop, PopTask, CheckState, BeginRun, EndRun, LogFinished
<1> QED
  BY <1>1, <1>3, <1>4, <1>5, <1>6 DEF Next

\* Outside the spinning loop of execute() the caller waits for nothing.
LEMMA WaitsForNothing == (pc # "executing" \/ ~(cursor > Len(batch))) => Submitted = {}
BY DEF Submitted

LEMMA StepRefinesForkJoin ==
    ASSUME Disciplined, TypeOK, PoolInv, TaskInv, NonNullSoFar, [Next]_vars
    PROVE  [Abstract!Next]_(Abstract!vars)
<1> USE DEF vars, callVars, poolVars, threadVars, workVars, taskVars
<1>s. ASSUME UNCHANGED <<state, pc, cursor, batch>> PROVE UNCHANGED Abstract!vars
  BY <1>s DEF Abstract!vars, Submitted
<1>n. ASSUME UNCHANGED state, Submitted = {}, Submitted' = {} PROVE UNCHANGED Abstract!vars
  BY <1>n DEF Abstract!vars
<1>o. ASSUME pc # "executing", pc' # "executing", UNCHANGED state PROVE UNCHANGED Abstract!vars
  BY <1>o, <1>n DEF Submitted
<1>1. CASE \/ StartRefused \/ Start \/ CloseIgnored \/ Close \/ SpawnThread \/ StartDone
           \/ AddTasksReturn \/ StopThread \/ JoinThread \/ CloseDone
  BY <1>1, <1>o DEF StartRefused, Start, CloseIgnored, Close, SpawnThread, StartDone,
                    AddTasksReturn, StopThread, JoinThread, CloseDone, Refuse, Return
<1>2. ASSUME NEW t \in Tasks, AddTask(t) PROVE UNCHANGED Abstract!vars
  BY <1>2, <1>o DEF AddTask, Refuse, Return, Enqueue
<1>3. ASSUME NEW t \in Tasks, Reschedule(t) PROVE Abstract!Next
  <2>1. Submitted = {} /\ Submitted' = {}
    BY <1>3 DEF Reschedule, Submitted
  <2>2. state[t] \in TaskState \ {"PENDING", "STARTED"}
    BY <1>3 DEF Reschedule, Finished, TypeOK
  <2>3. Abstract!Reschedule(t)
    BY <1>3, <2>1, <2>2 DEF Reschedule, Abstract!Reschedule, Abstract!Ended
  <2> QED
    BY <2>3 DEF Abstract!Next
<1>4. ASSUME NEW b \in Batches, AddTasks(b) \/ Execute(b) PROVE UNCHANGED Abstract!vars
  <2>1. CASE Refuse("ok") \/ Refuse("logic_error") \/ Enter("adding", b)
    BY <1>4, <2>1, <1>o DEF AddTasks, Execute, Refuse, Return, Enter
  <2>2. CASE b # <<>> /\ Enter("executing", b)
    <3>1. Len(b) \in Nat \ {0}
      BY <2>2, BatchesAreSeqs, EmptySeq
    <3> QED
      BY <1>4, <1>n, <2>2, <3>1 DEF AddTasks, Execute, Enter, Submitted
  <2> QED
    BY <1>4, <2>1, <2>2 DEF AddTasks, Execute
<1>5. CASE SubmitNext
  <2>1. Submitted = {} /\ UNCHANGED state
    BY <1>5 DEF SubmitNext, Submitted, TypeOK, Refuse, Enqueue
  <2>2. Submitted' \subseteq Tasks
    <3>1. ASSUME pc' = "executing", cursor' > Len(batch')
          PROVE  \A i \in DOMAIN batch' : batch'[i] \in Tasks
      <4>1. NonNullSoFar' /\ DOMAIN batch' = 1..Len(batch') /\ Len(batch') \in Nat /\ cursor' \in Nat
        <5>1. TypeOK'
          BY NextTypes
        <5> QED
          BY <5>1, NonNullKept, LenProperties DEF TypeOK
      <4> QED
        BY <3>1, <4>1 DEF NonNullSoFar, Submitting
    <3> QED
      BY <3>1 DEF Submitted
  <2>3. Abstract!Wait(Submitted')
    BY <2>1 DEF Abstract!Wait
  <2> QED
    BY <2>2, <2>3 DEF Abstract!Next
<1>6. CASE ExecuteReturn
  <2>1. Submitted' = {} /\ UNCHANGED state
    BY <1>6 DEF ExecuteReturn, Refuse, Return, Submitted
  <2>2. \A t \in Submitted : Abstract!Ended(t)
    <3>1. \A i \in DOMAIN batch : batch[i] \in Tasks
      BY <1>6, LenProperties DEF ExecuteReturn, NonNullSoFar, Submitting, TypeOK
    <3> QED
      BY <1>6, <3>1 DEF ExecuteReturn, Submitted, TasksFinished, Finished, Abstract!Ended, TypeOK
  <2> QED
    BY <2>1, <2>2 DEF Abstract!Return, Abstract!Next
<1>7. ASSUME NEW w \in Slots, Worker(w) PROVE [Abstract!Next]_(Abstract!vars)
  <2>0. UNCHANGED <<pc, cursor, batch>>
    BY <1>7 DEF Worker, TestStop, PopTask, CheckState, BeginRun, EndRun, LogFinished
  <2>1. Submitted' = Submitted
    BY <2>0 DEF Submitted
  <2>2. CASE TestStop(w) \/ PopTask(w) \/ CheckState(w) \/ LogFinished(w)
    BY <2>1, <2>2 DEF TestStop, PopTask, CheckState, LogFinished, Abstract!vars
  <2>3. CASE BeginRun(w)
    <3>1. hand[w] \in Tasks /\ state[hand[w]] = "PENDING"
      BY <2>3 DEF BeginRun, PoolInv, TaskInv, HeldState
    <3> QED
      BY <2>1, <2>3, <3>1 DEF BeginRun, Abstract!Begin, Abstract!Next
  <2>4. ASSUME NEW end \in EndStates, EndRun(w, end) PROVE Abstract!Next
    <3>1. hand[w] \in Tasks /\ state[hand[w]] = "STARTED"
      BY <2>4 DEF EndRun, PoolInv, TaskInv, HeldState
    <3>2. end \in TaskState \ {"PENDING", "STARTED"}
      BY DEF TaskState
    <3>3. Abstract!End(hand[w])
      BY <2>1, <2>4, <3>1, <3>2 DEF EndRun, Abstract!End
    <3> QED
      BY <3>1, <3>3 DEF Abstract!Next
  <2> QED
    BY <1>7, <2>2, <2>3, <2>4 DEF Worker
<1>8. CASE UNCHANGED vars
  BY <1>8, <1>s
<1> QED
  BY <1>1, <1>2, <1>3, <1>4, <1>5, <1>6, <1>7, <1>8 DEF Next, OwnerCalls, OwnerSteps

\* The pool is a fork-join executor for every number of workers: execute()
\* returns only when the whole vector has ended, and tasks only ever go from
\* pending to started to an end state.
THEOREM PoolRefinesForkJoin ==
    ASSUME Disciplined
    PROVE  Spec => ImplementsForkJoin
<1>1. Init => Abstract!Init /\ NonNullSoFar
  BY DEF Init, Abstract!Init, Submitted, NonNullSoFar, Submitting
<1>2. TypeOK /\ PoolInv /\ TaskInv /\ NonNullSoFar /\ [Next]_vars
          => [Abstract!Next]_(Abstract!vars)
  BY StepRefinesForkJoin
<1> QED
  BY <1>1, <1>2, NonNullKept, TasksInPlace, PTL DEF Spec, ImplementsForkJoin, Abstract!Spec

-----------------------------------------------------------------------------
(* A pool that is started once.                                             *)

LEMMA WorkerKeepsOpen ==
    ASSUME TypeOK, PoolInv, OpenInv, NEW w \in Slots, Worker(w)
    PROVE  OpenInv'
<1> USE DEF callVars, poolVars, threadVars, taskVars
<1>1. /\ UNCHANGED <<callVars, poolVars, threadVars>>
      /\ \A v \in Slots : v # w => wpc'[v] = wpc[v] /\ queue'[v] = queue[v]
      /\ wpc'[w] # "none" /\ (wpc'[w] = "exited" => stop[w])
  BY DEF Worker, TestStop, PopTask, CheckState, BeginRun, EndRun, LogFinished, TypeOK
<1>2. queue[w] = <<>> => queue'[w] = <<>>
  BY DEF Worker, TestStop, PopTask, CheckState, BeginRun, EndRun, LogFinished, TypeOK
<1>3. \A v \in Slots : queue'[v] # <<>> => queue[v] # <<>>
  BY <1>1, <1>2
<1>4. \A v \in Slots : ~stop[v] /\ Serving(v) => Serving(v)'
  BY <1>1 DEF Serving
<1> QED
  BY <1>1, <1>3, <1>4 DEF OpenInv, ClosingDown

LEMMA OwnerKeepsOpen ==
    ASSUME MaxStarts = 1, TypeOK, PoolInv, OpenInv, OwnerCalls \/ OwnerSteps
    PROVE  OpenInv'
<1> USE DEF poolVars, threadVars, workVars, taskVars, callVars
\* Calls and steps that leave pool_ and its threads alone.
<1>k. ASSUME UNCHANGED <<poolSize, isStarted, starts, stop, started, queue, wpc>>,
             pc # "starting", pc' # "starting", ClosingDown => ClosingDown'
      PROVE  OpenInv'
  BY <1>k DEF OpenInv, ClosingDown, Serving
<1>r. ASSUME NEW how, Refuse(how), pc # "starting", ~ClosingDown PROVE OpenInv'
  BY <1>r, <1>k DEF Refuse, Return
<1>e. ASSUME NEW t, Enqueue(t), isStarted, ~ClosingDown, ~ClosingDown',
             pc # "starting", pc' # "starting"
      PROVE  OpenInv'
  <2>1. /\ starts > 0 /\ poolSize = OptionThreads * starts
        /\ Picked \in Slots /\ starts = 1
    BY <1>e, PickedSlot DEF PoolInv, TypeOK
  <2>2. Picked < poolSize
    BY <2>1, SlotFacts DEF Picked, TypeOK
  <2>3. \A w \in Slots : w # Picked => queue'[w] = queue[w]
    BY <1>e, <2>1 DEF Enqueue, Picked, TypeOK
  <2> QED
    BY <1>e, <2>1, <2>2, <2>3 DEF OpenInv, Enqueue, Serving
<1>1. CASE StartRefused \/ CloseIgnored \/ AddTasksReturn \/ ExecuteReturn
  BY <1>1, <1>r DEF StartRefused, CloseIgnored, AddTasksReturn, ExecuteReturn, ClosingDown
<1>2. CASE Start
  <2>1. starts = 0 /\ starts' = 1 /\ cursor' = 0 /\ pc' = "starting" /\ ~isStarted'
    BY <1>2 DEF Start, TypeOK
  <2>2. \A w \in Slots : ~(w < cursor')
    BY <2>1, SlotFacts
  <2> QED
    BY <1>2, <2>1, <2>2 DEF Start, OpenInv
<1>3. CASE Close \/ StopThread \/ JoinThread \/ CloseDone
  BY <1>3 DEF Close, StopThread, JoinThread, CloseDone, Return, OpenInv, PoolInv, ClosingDown, TypeOK
<1>4. CASE SpawnThread
  <2>1. /\ starts = 1 /\ ~isStarted /\ cursor \in Nat /\ cursor < OptionThreads
        /\ pc' = "starting" /\ ~isStarted' /\ starts' = 1 /\ cursor' = cursor + 1
    BY <1>4 DEF SpawnThread, PoolInv, OpenInv, TypeOK
  <2>2. cursor \in Slots
    BY <2>1, SlotFacts
  <2>3. ~started[cursor]
    BY <1>4, <2>1, <2>2 DEF SpawnThread, OpenInv
  <2>4. /\ wpc'[cursor] = "loop"
        /\ \A w \in Slots : w # cursor => wpc'[w] = wpc[w] /\ started'[w] = started[w]
    BY <1>4, <2>2, <2>3 DEF SpawnThread, TypeOK
  <2>5. \A w \in Slots : IF w < cursor' THEN Serving(w)' ELSE ~started'[w]
    <3> SUFFICES ASSUME NEW w \in Slots
                 PROVE  IF w < cursor' THEN Serving(w)' ELSE ~started'[w]
      OBVIOUS
    <3>1. w \in Nat
      BY SlotFacts
    <3> QED
      BY <1>4, <2>1, <2>4, <3>1 DEF SpawnThread, OpenInv, Serving
  <2> QED
    BY <1>4, <2>1, <2>5 DEF SpawnThread, OpenInv
<1>5. CASE StartDone
  <2>1. poolSize = OptionThreads * (starts - 1) + cursor /\ starts = 1 /\ cursor \in Nat
    BY <1>5 DEF StartDone, PoolInv, OpenInv, TypeOK
  <2>2. poolSize = cursor
    BY <2>1, SlotFacts
  <2> QED
    BY <1>5, <2>1, <2>2 DEF StartDone, Return, OpenInv, Serving
<1>6. ASSUME NEW t \in Tasks, AddTask(t) PROVE OpenInv'
  BY <1>6, <1>r, <1>e DEF AddTask, Return, ClosingDown
<1>7. ASSUME NEW t \in Tasks, Reschedule(t) PROVE OpenInv'
  BY <1>7, <1>k DEF Reschedule, ClosingDown
<1>8. ASSUME NEW b \in Batches, AddTasks(b) \/ Execute(b) PROVE OpenInv'
  BY <1>8, <1>r, <1>k DEF AddTasks, Execute, Enter, ClosingDown
<1>9. CASE SubmitNext
  BY <1>9, <1>r, <1>e DEF SubmitNext, ClosingDown
<1> QED
  BY <1>1, <1>2, <1>3, <1>4, <1>5, <1>6, <1>7, <1>8, <1>9 DEF OwnerCalls, OwnerSteps

\* In a pool that is started once, with any number of threads, every queue
\* that holds a task has a worker that was not told to stop: no task of an
\* open pool is stranded.
THEOREM OpenPoolServes ==
    ASSUME MaxStarts = 1
    PROVE  Spec => []NoStrandedTask
<1>1. Init => OpenInv
  BY DEF Init, OpenInv
<1>2. TypeOK /\ PoolInv /\ OpenInv /\ [Next]_vars => OpenInv'
  <2> SUFFICES ASSUME TypeOK, PoolInv, OpenInv, [Next]_vars PROVE OpenInv'
    OBVIOUS
  <2>1. CASE UNCHANGED vars
    BY <2>1 DEF vars, callVars, poolVars, threadVars, workVars, OpenInv, Serving, ClosingDown
  <2> QED
    BY <2>1, OwnerKeepsOpen, WorkerKeepsOpen DEF Next
<1>3. OpenInv => NoStrandedTask
  BY DEF OpenInv, NoStrandedTask, ClosingDown, Serving
<1> QED
  BY <1>1, <1>2, <1>3, TypeCorrect, PTL DEF Spec

\* The variables of a pool that is started once keep their types and every
\* queued task has a worker, for any number of threads and any owner.
THEOREM PoolServes ==
    ASSUME MaxStarts = 1
    PROVE  Spec => []Inv
<1>1. TypeOK /\ NoStrandedTask => Inv
  BY DEF Inv
<1> QED BY <1>1, TypeCorrect, OpenPoolServes, PTL
=============================================================================

----------------------------- MODULE ThreadPool -----------------------------
(***************************************************************************)
(* kernel::ThreadPool, the detail::kernel_threads it owns and the tasks it *)
(* runs, driven by the one thread that constructed it (the owner).         *)
(*                                                                         *)
(* The owner's calls (start, add_task, add_tasks, execute, close) and the  *)
(* do_work_ loop of every worker are interleaved step by step: each access *)
(* to something the two sides share (a task queue, stop_, a task's state_) *)
(* is a step of its own.  A step on a queue stands for the whole locked    *)
(* section of TaskQueue (see LockableQueue); stop_ and state_ are plain    *)
(* fields, each read and written at once.                                  *)
(***************************************************************************)
EXTENDS Naturals, Sequences, FiniteSets

CONSTANTS Tasks,        \* the TaskBase objects of the owner
          NoTask,       \* the null task pointer
          NThreads,     \* how many threads the owner asks for
          ByCount,      \* it does so with ThreadPool(n), not ThreadPool(options)
          MaxStarts,    \* bound: successful calls of start()
          MaxBatch,     \* bound: the longest vector given to add_tasks, execute
          MaxQueued,    \* bound: an undisciplined owner adds to at most so many tasks
          EndStates,    \* the ways run() ends in this instance
          UseLog,       \* USE_LOG: TaskBase::operator() logs once it has finished
          Disciplined   \* the owner submits a task only when it is pending and not
                        \* already submitted, and reschedules only finished tasks

ASSUME NThreadsAssumption == NThreads \in Nat \ {0}
ASSUME BoundsAssumption ==
    MaxStarts \in Nat \ {0} /\ MaxBatch \in Nat /\ MaxQueued \in Nat
ASSUME NoTaskAssumption == NoTask \notin Tasks
ASSUME EndStatesAssumption ==
    EndStates \subseteq {"FINISHED", "INTERRUPTED", "INTERRUPTED_BY_EXCEPTION"}
ASSUME FlagsAssumption ==
    ByCount \in BOOLEAN /\ UseLog \in BOOLEAN /\ Disciplined \in BOOLEAN

VARIABLES
    pc,         \* which ThreadPool call the owner is in
    cursor,     \* t, the index of that call's loop
    batch,      \* the vector of tasks given to add_tasks or execute
    outcome,    \* how the owner's last call returned
    poolSize,   \* pool_.size()
    isStarted,  \* is_started_
    isClosed,   \* is_closed_
    next,       \* next_thread_available_
    starts,     \* how many calls of start() went ahead
    stop,       \* stop[w]: stop_ of pool_[w]
    started,    \* started[w]: started_ of pool_[w]
    queue,      \* queue[w]: tasks_ of pool_[w]
    wpc,        \* wpc[w]: where the std::thread of pool_[w] is
    hand,       \* hand[w]: the task that thread has popped
    state,      \* state[t]: state_ of task t
    runs        \* history: how many times run() began since t was last made pending

poolVars == <<poolSize, isStarted, isClosed, next, starts>>
threadVars == <<stop, started>>
callVars == <<pc, cursor, batch, outcome>>
taskVars == <<state, runs>>
workVars == <<queue, wpc, hand>>
vars == <<callVars, poolVars, threadVars, workVars, taskVars>>

\* options_.n_threads, what start() reads: ThreadPool(n) stores n in n_threads_
\* and leaves options_ at its default of one thread.
OptionThreads == IF ByCount THEN 1 ELSE NThreads

\* pool_ grows by OptionThreads at each start(); slot w of the functions above
\* stands for pool_[w] once w < poolSize.
Slots == 0 .. NThreads * MaxStarts - 1
InvalidSize == NThreads * MaxStarts   \* KernelConsts::invalid_size_type(): above any size

PC == {"idle", "starting", "adding", "executing", "closing", "joining"}
Outcome == {"none", "ok", "logic_error", "invalid_argument"}
TaskState == {"PENDING", "STARTED", "FINISHED", "INTERRUPTED", "INTERRUPTED_BY_EXCEPTION"}

\* "none": there is no such std::thread; "loop": about to read stop_; "pop":
\* about to pop; "call": in operator() before the state test; "begin": past
\* it; "run": in run(); "log": state_ is FINISHED and the message is being
\* built from the task's name; "exited": do_work_ has returned, not joined.
WPC == {"none", "loop", "pop", "call", "begin", "run", "log", "exited"}

\* Vectors of distinct tasks in which an entry may be a null pointer.
Batches == {b \in UNION {[1..n -> Tasks \cup {NoTask}] : n \in 0..MaxBatch} :
              \A i, j \in DOMAIN b : b[i] = b[j] /\ b[i] # NoTask => i = j}

Finished(t) == state[t] \notin {"PENDING", "STARTED"}
InQueue(t) == \E w \in Slots : \E i \in DOMAIN queue[w] : queue[w][i] = t
Holding(w) == wpc[w] \in {"call", "begin", "run"}
Held(t) == \E w \in Slots : Holding(w) /\ hand[w] = t

\* The owner's own knowledge of a task, when it is disciplined.
Fresh(t) == state[t] = "PENDING" /\ ~InQueue(t) /\ ~Held(t)
Stored == {p \in Slots \X (1 .. MaxQueued) : p[2] \in DOMAIN queue[p[1]]}
MaySubmit(t) == IF Disciplined THEN Fresh(t) ELSE Cardinality(Stored) < MaxQueued

TypeOK == /\ pc \in PC
          /\ cursor \in Nat
          /\ batch \in Seq(Tasks \cup {NoTask})
          /\ outcome \in Outcome
          /\ poolSize \in 0 .. NThreads * MaxStarts
          /\ isStarted \in BOOLEAN
          /\ isClosed \in BOOLEAN
          /\ next \in 0 .. InvalidSize
          /\ starts \in 0 .. MaxStarts
          /\ stop \in [Slots -> BOOLEAN]
          /\ started \in [Slots -> BOOLEAN]
          /\ queue \in [Slots -> Seq(Tasks)]
          /\ wpc \in [Slots -> WPC]
          /\ hand \in [Slots -> Tasks \cup {NoTask}]
          /\ state \in [Tasks -> TaskState]
          /\ runs \in [Tasks -> Nat]

-----------------------------------------------------------------------------
Init == /\ pc = "idle"
        /\ cursor = 0
        /\ batch = <<>>
        /\ outcome = "none"
        /\ poolSize = 0
        /\ isStarted = FALSE
        /\ isClosed = TRUE
        /\ next = InvalidSize
        /\ starts = 0
        /\ stop = [w \in Slots |-> FALSE]
        /\ started = [w \in Slots |-> FALSE]
        /\ queue = [w \in Slots |-> <<>>]
        /\ wpc = [w \in Slots |-> "none"]
        /\ hand = [w \in Slots |-> NoTask]
        /\ state = [t \in Tasks |-> "PENDING"]
        /\ runs = [t \in Tasks |-> 0]

\* The owner's call ends: it returns, or throws.
Return(how) == /\ pc' = "idle"
               /\ outcome' = how
               /\ UNCHANGED <<cursor, batch>>

Refuse(how) == Return(how) /\ UNCHANGED <<poolVars, threadVars, workVars, taskVars>>

-----------------------------------------------------------------------------
\* start(): refuse a running pool, then append and start one thread per turn.
StartRefused == pc = "idle" /\ isStarted /\ Refuse("logic_error")

Start == /\ pc = "idle"
         /\ ~isStarted
         /\ starts < MaxStarts
         /\ pc' = "starting"
         /\ cursor' = 0
         /\ starts' = starts + 1
         /\ UNCHANGED <<batch, outcome, poolSize, isStarted, isClosed, next,
                        threadVars, workVars, taskVars>>

\* Mutant: the loop leaves the last thread of the pool unstarted.
SpawnThreadButLast ==
    /\ pc = "starting"
    /\ cursor < OptionThreads
    /\ poolSize' = poolSize + 1
    /\ IF started[cursor] \/ cursor = OptionThreads - 1
       THEN UNCHANGED <<started, wpc>>
       ELSE /\ started' = [started EXCEPT ![cursor] = TRUE]
            /\ wpc' = [wpc EXCEPT ![cursor] = "loop"]
    /\ cursor' = cursor + 1
    /\ UNCHANGED <<pc, batch, outcome, isStarted, isClosed, next, starts, stop,
                   queue, hand, taskVars>>

\* pool_.push_back(new thread); pool_[t]->start().  kernel_thread::start does
\* nothing when started_ is set.
SpawnThread ==
    /\ pc = "starting"
    /\ cursor < OptionThreads
    /\ poolSize' = poolSize + 1
    /\ IF started[cursor]
       THEN UNCHANGED <<started, wpc>>
       ELSE /\ started' = [started EXCEPT ![cursor] = TRUE]
            /\ wpc' = [wpc EXCEPT ![cursor] = "loop"]
    /\ cursor' = cursor + 1
    /\ UNCHANGED <<pc, batch, outcome, isStarted, isClosed, next, starts, stop,
                   queue, hand, taskVars>>

StartDone == /\ pc = "starting"
             /\ cursor = OptionThreads
             /\ isStarted' = TRUE
             /\ isClosed' = FALSE
             /\ Return("ok")
             /\ UNCHANGED <<poolSize, next, starts, threadVars, workVars, taskVars>>

-----------------------------------------------------------------------------
\* add_task on a started pool: round robin over pool_.
Enqueue(t) ==
    LET w == IF next >= poolSize THEN 0 ELSE next
    IN  /\ queue' = [queue EXCEPT ![w] = Append(@, t)]
        /\ next' = w + 1
        /\ UNCHANGED <<poolSize, isStarted, isClosed, starts, threadVars, wpc,
                       hand, taskVars>>

AddTask(t) == /\ pc = "idle"
              /\ MaySubmit(t)
              /\ \/ ~isStarted /\ Refuse("logic_error")
                 \/ isStarted /\ Enqueue(t) /\ Return("ok")

\* The owner may give these vectors to add_tasks or execute.
MaySubmitAll(b) == \A i \in DOMAIN b : b[i] # NoTask => MaySubmit(b[i])

Enter(call, b) == /\ pc' = call
                  /\ batch' = b
                  /\ cursor' = 1
                  /\ UNCHANGED <<outcome, poolVars, threadVars, workVars, taskVars>>

AddTasks(b) == /\ pc = "idle"
               /\ MaySubmitAll(b)
               /\ \/ ~isStarted /\ Refuse("logic_error")
                  \/ isStarted /\ Enter("adding", b)

Execute(b) == /\ pc = "idle"
              /\ MaySubmitAll(b)
              /\ \/ b = <<>> /\ Refuse("ok")
                 \/ b # <<>> /\ Enter("executing", b)

\* One turn of the submission loop; a null pointer, or a pool that is not
\* started, ends the call with an exception and leaves the earlier tasks in.
SubmitNext ==
    /\ pc \in {"adding", "executing"}
    /\ cursor <= Len(batch)
    /\ \/ batch[cursor] = NoTask /\ Refuse("invalid_argument")
       \/ batch[cursor] # NoTask /\ ~isStarted /\ Refuse("logic_error")
       \/ /\ batch[cursor] # NoTask
          /\ isStarted
          /\ Enqueue(batch[cursor])
          /\ cursor' = cursor + 1
          /\ UNCHANGED <<pc, batch, outcome>>

AddTasksReturn == pc = "adding" /\ cursor > Len(batch) /\ Refuse("ok")

\* Mutant: only the last task of the vector is asked.
LastFinished == batch # <<>> => Finished(batch[Len(batch)])

\* execute() spins on taskutils::tasks_finished.  Ended states are stable
\* while the owner is here, so its scan of the vector is one step.
TasksFinished == \A i \in DOMAIN batch : Finished(batch[i])
ExecuteReturn == /\ pc = "executing"
                 /\ cursor > Len(batch)
                 /\ TasksFinished
                 /\ Refuse("ok")

Reschedule(t) == /\ pc = "idle"
                 /\ Disciplined => Finished(t)
                 /\ state[t] # "PENDING"
                 /\ state' = [state EXCEPT ![t] = "PENDING"]
                 /\ runs' = [runs EXCEPT ![t] = 0]
                 /\ UNCHANGED <<callVars, poolVars, threadVars, workVars>>

-----------------------------------------------------------------------------
\* close(): one thread after the other is told to stop and joined.
CloseIgnored == pc = "idle" /\ (~isStarted \/ isClosed) /\ Refuse("ok")

Close == /\ pc = "idle"
         /\ isStarted
         /\ ~isClosed
         /\ pc' = "closing"
         /\ cursor' = 0
         /\ UNCHANGED <<batch, outcome, poolVars, threadVars, workVars, taskVars>>

\* kernel_thread::stop returns at once when stop_ is already set, and then
\* leaves started_ alone.
StopThread == /\ pc = "closing"
              /\ cursor < poolSize
              /\ stop' = [stop EXCEPT ![cursor] = TRUE]
              /\ started' = [started EXCEPT ![cursor] = @ /\ stop[cursor]]
              /\ pc' = "joining"
              /\ UNCHANGED <<cursor, batch, outcome, poolVars, workVars, taskVars>>

\* Mutant: the thread is told to stop and not waited for.
ForgetThread == /\ pc = "joining"
                /\ pc' = "closing"
                /\ cursor' = cursor + 1
                /\ UNCHANGED <<batch, outcome, poolVars, threadVars, workVars, taskVars>>

\* join(): waits for a joinable thread to return from do_work_.
JoinThread == /\ pc = "joining"
              /\ wpc[cursor] \in {"none", "exited"}
              /\ wpc' = [wpc EXCEPT ![cursor] = "none"]
              /\ pc' = "closing"
              /\ cursor' = cursor + 1
              /\ UNCHANGED <<batch, outcome, poolVars, threadVars, queue, hand, taskVars>>

\* Mutant: the flags of the pool are not reset.
CloseDoneStillOpen == /\ pc = "closing"
                      /\ cursor = poolSize
                      /\ Return("ok")
                      /\ UNCHANGED <<poolVars, threadVars, workVars, taskVars>>

CloseDone == /\ pc = "closing"
             /\ cursor = poolSize
             /\ isStarted' = FALSE
             /\ isClosed' = TRUE
             /\ Return("ok")
             /\ UNCHANGED <<poolSize, next, starts, threadVars, workVars, taskVars>>

-----------------------------------------------------------------------------
\* The worker of slot w, in do_work_.
TestStop(w) == /\ wpc[w] = "loop"
               /\ wpc' = [wpc EXCEPT ![w] = IF stop[w] THEN "exited" ELSE "pop"]
               /\ UNCHANGED <<callVars, poolVars, threadVars, queue, hand, taskVars>>

\* Mutant: front() without the pop() that follows it.
PeekTask(w) ==
    /\ wpc[w] = "pop"
    /\ IF queue[w] = <<>>
       THEN /\ wpc' = [wpc EXCEPT ![w] = "loop"]
            /\ UNCHANGED <<queue, hand>>
       ELSE /\ wpc' = [wpc EXCEPT ![w] = "call"]
            /\ hand' = [hand EXCEPT ![w] = Head(queue[w])]
            /\ UNCHANGED queue
    /\ UNCHANGED <<callVars, poolVars, threadVars, taskVars>>

\* tasks_.pop(task): the front task, or false and a yield.
PopTask(w) ==
    /\ wpc[w] = "pop"
    /\ IF queue[w] = <<>>
       THEN /\ wpc' = [wpc EXCEPT ![w] = "loop"]
            /\ UNCHANGED <<queue, hand>>
       ELSE /\ wpc' = [wpc EXCEPT ![w] = "call"]
            /\ hand' = [hand EXCEPT ![w] = Head(queue[w])]
            /\ queue' = [queue EXCEPT ![w] = Tail(@)]
    /\ UNCHANGED <<callVars, poolVars, threadVars, taskVars>>

\* Mutant: operator() runs whatever it is called on.
CallAnyState(w) ==
    /\ wpc[w] = "call"
    /\ wpc' = [wpc EXCEPT ![w] = "begin"]
    /\ UNCHANGED <<callVars, poolVars, threadVars, queue, hand, taskVars>>

\* operator(): a task that is not PENDING is left alone.
CheckState(w) ==
    /\ wpc[w] = "call"
    /\ IF state[hand[w]] = "PENDING"
       THEN /\ wpc' = [wpc EXCEPT ![w] = "begin"]
            /\ UNCHANGED hand
       ELSE /\ wpc' = [wpc EXCEPT ![w] = "loop"]
            /\ hand' = [hand EXCEPT ![w] = NoTask]
    /\ UNCHANGED <<callVars, poolVars, threadVars, queue, taskVars>>

BeginRun(w) == /\ wpc[w] = "begin"
               /\ state' = [state EXCEPT ![hand[w]] = "STARTED"]
               /\ runs' = [runs EXCEPT ![hand[w]] = @ + 1]
               /\ wpc' = [wpc EXCEPT ![w] = "run"]
               /\ UNCHANGED <<callVars, poolVars, threadVars, queue, hand>>

\* Mutant: the exception handlers forget to set the state.
EndRunUnmarked(w, end) ==
    /\ wpc[w] = "run"
    /\ IF end = "FINISHED"
       THEN state' = [state EXCEPT ![hand[w]] = end]
       ELSE UNCHANGED state
    /\ wpc' = [wpc EXCEPT ![w] = "loop"]
    /\ hand' = [hand EXCEPT ![w] = NoTask]
    /\ UNCHANGED <<callVars, poolVars, threadVars, queue, runs>>

\* run() returns or throws.  The messages about an exception are logged
\* before the state is set; the one about success afterwards.
EndRun(w, end) ==
    /\ wpc[w] = "run"
    /\ state' = [state EXCEPT ![hand[w]] = end]
    /\ IF UseLog /\ end = "FINISHED"
       THEN /\ wpc' = [wpc EXCEPT ![w] = "log"]
            /\ UNCHANGED hand
       ELSE /\ wpc' = [wpc EXCEPT ![w] = "loop"]
            /\ hand' = [hand EXCEPT ![w] = NoTask]
    /\ UNCHANGED <<callVars, poolVars, threadVars, queue, runs>>

LogFinished(w) == /\ wpc[w] = "log"
                  /\ wpc' = [wpc EXCEPT ![w] = "loop"]
                  /\ hand' = [hand EXCEPT ![w] = NoTask]
                  /\ UNCHANGED <<callVars, poolVars, threadVars, queue, taskVars>>

-----------------------------------------------------------------------------
\* What the owner chooses to call...
OwnerCalls == \/ StartRefused \/ Start \/ CloseIgnored \/ Close
              \/ \E t \in Tasks : AddTask(t) \/ Reschedule(t)
              \/ \E b \in Batches : AddTasks(b) \/ Execute(b)

\* ...and the steps of a call once it has begun.
OwnerSteps == \/ SpawnThread \/ StartDone
              \/ SubmitNext \/ AddTasksReturn \/ ExecuteReturn
              \/ StopThread \/ JoinThread \/ CloseDone

Worker(w) == \/ TestStop(w) \/ PopTask(w) \/ CheckState(w) \/ BeginRun(w)
             \/ \E end \in EndStates : EndRun(w, end)
             \/ LogFinished(w)

Next == OwnerCalls \/ OwnerSteps \/ \E w \in Slots : Worker(w)

Spec == Init /\ [][Next]_vars

\* Every std::thread is scheduled, and run() comes to an end; the owner's
\* thread too goes on with a call it is in, but need not make one.
Fairness == WF_vars(OwnerSteps) /\ \A w \in Slots : WF_vars(Worker(w))
FairSpec == Spec /\ Fairness

-----------------------------------------------------------------------------
\* A task the owner sees finished is out of the pool's reach: no worker holds
\* it and none will pop it, so the owner may destroy or reschedule it.
LetGo == \A t \in Tasks : Finished(t) => ~InQueue(t) /\ \A w \in Slots : hand[w] # t

\* run() is called at most once each time a task is made pending, however the
\* submissions, the workers and the state test in operator() interleave.
RunsOnce == \A t \in Tasks : runs[t] <= 1

\* While the pool is open, a worker that has not been told to stop serves
\* every queue that holds a task.
NoStrandedTask ==
    (isStarted /\ pc \notin {"closing", "joining"}) =>
        \A w \in Slots : queue[w] # <<>> => ~stop[w] /\ wpc[w] \notin {"none", "exited"}

\* The variables keep their types and no task of an open pool is stranded.
Inv == TypeOK /\ NoStrandedTask

\* After close() has returned no thread of the pool is left and no task is
\* half run ("For every thread stop() and join() is called").
ClosedIsQuiet ==
    (pc = "idle" /\ ~isStarted) =>
        /\ \A w \in Slots : wpc[w] = "none"
        /\ \A t \in Tasks : state[t] # "STARTED"

\* execute() comes back to its caller when every task has ended, and close()
\* whatever is still queued.
CallsReturn == /\ pc = "executing" ~> pc = "idle"
               /\ pc = "closing" ~> pc = "idle"

\* A task in a pool that stays open is run, with no help from the owner.
QueuedTasksRun ==
    \A t \in Tasks : (InQueue(t) /\ isStarted) ~> (Finished(t) \/ ~isStarted)

\* The pool is an implementation of the abstract fork-join executor: the
\* caller waits once the whole vector is submitted.
Submitted == IF pc = "executing" /\ cursor > Len(batch)
             THEN {batch[i] : i \in DOMAIN batch} ELSE {}
Abstract == INSTANCE ForkJoin
                WITH Pending <- "PENDING", Started <- "STARTED",
                     EndStates <- TaskState \ {"PENDING", "STARTED"},
                     waitingFor <- Submitted
ImplementsForkJoin == Abstract!Spec
=============================================================================

------------------------------ MODULE ForkJoin ------------------------------
(***************************************************************************)
(* What the executors of kernel/parallel promise to the code that hands    *)
(* them tasks (ThreadPool::execute, OMPExecutor::execute), with threads,   *)
(* queues and scheduling abstracted away.  A task goes from pending to     *)
(* started to an end state and no other way; the caller that waits for a   *)
(* set of tasks gets control back only when all of them have ended, and    *)
(* only the owner of an ended task, while it waits for nothing, makes it   *)
(* pending again.                                                          *)
(***************************************************************************)
CONSTANTS Tasks,
          EndStates,    \* the states of a task that has completed
          Pending,
          Started

VARIABLES state,        \* state[t]: TaskBase::state_ of task t
          waitingFor    \* the tasks the caller is waiting for

vars == <<state, waitingFor>>

Ended(t) == state[t] \in EndStates

Init == /\ state = [t \in Tasks |-> Pending]
        /\ waitingFor = {}

Wait(S) == /\ waitingFor = {}
           /\ waitingFor' = S
           /\ UNCHANGED state

Begin(t) == /\ state[t] = Pending
            /\ state' = [state EXCEPT ![t] = Started]
            /\ UNCHANGED waitingFor

End(t) == /\ state[t] = Started
          /\ \E end \in EndStates : state' = [state EXCEPT ![t] = end]
          /\ UNCHANGED waitingFor

Return == /\ \A t \in waitingFor : Ended(t)
          /\ waitingFor' = {}
          /\ UNCHANGED state

Reschedule(t) == /\ waitingFor = {}
                 /\ Ended(t)
                 /\ state' = [state EXCEPT ![t] = Pending]
                 /\ UNCHANGED waitingFor

Next == \/ \E S \in SUBSET Tasks : Wait(S)
        \/ \E t \in Tasks : Begin(t) \/ End(t) \/ Reschedule(t)
        \/ Return

Spec == Init /\ [][Next]_vars
=============================================================================

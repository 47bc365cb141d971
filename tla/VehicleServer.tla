---------------------------- MODULE VehicleServer ----------------------------
(***************************************************************************)
(* The vehicle server (kernel/rigid_body_dynamics/examples/example_17):    *)
(* four StoppableTasks on a ThreadPool of four threads.  The client reads  *)
(* lines and puts them in a queue of requests, the request task turns      *)
(* them into commands and responses, the server hands the newest command   *)
(* to the vehicle, and the simulator integrates it.  Every task has its    *)
(* own copy of the stop condition; the server ends when it sees all the    *)
(* others stopped.  main submits the server and closes the pool.           *)
(*                                                                         *)
(* A line is its number and its kind: a command, PRINT, EXIT, EXIT_REST    *)
(* (EXIT; and anything after it, which the client does not take for EXIT   *)
(* and the request task does), or another text, that of the end of the     *)
(* input among them.                                                       *)
(*                                                                         *)
(* The state of the vehicle is a few numbers, which an integration writes  *)
(* and a reader reads one at a time, in any order: the vehicle's class is  *)
(* not in the repository.  A number is the parity of the integrations that *)
(* have written it.  What save_solution writes to a file is left out.      *)
(***************************************************************************)
EXTENDS Naturals, Sequences, FiniteSets, SequencesExt

CONSTANTS Kinds,        \* the kinds of lines that are entered
          Numbers,      \* those of the state: x, y, theta, velocity
          MaxLines      \* bound: how many lines are entered

ASSUME KindsAssumption == Kinds \subseteq {"CMD", "PRINT", "EXIT", "EXIT_REST", "other"}
ASSUME LinesAssumption == MaxLines \in Nat

VARIABLES
    main,       \* where main() is
    told,       \* the threads pool.close() has told to stop
    exited,     \* the threads that have left do_work_
    at,         \* at[t]: where task t, or the thread for it, is
    stop,       \* stop[t]: stop_cond_ of task t
    lines,      \* how many lines were entered
    exits,      \* history: the words for an end that were among them
    requests,   \* requests_
    responses,  \* responses_
    cmds,       \* cmds_
    popped,     \* the command the server has popped and not set yet
    cmd,        \* cmd_ of the vehicle wrapper
    vehicle,    \* the numbers of the vehicle
    written,    \* those that an integration has written so far
    request,    \* the line the request task serves with the state
    copy        \* the numbers it has read so far to serve it

entered == <<lines, exits>>
queues == <<requests, responses, cmds>>
poolVars == <<main, told, exited>>
stateVars == <<vehicle, written, request, copy>>
vars == <<poolVars, at, stop, entered, queues, popped, cmd, stateVars>>

\* The server is on the first thread; it submits the others to the next ones.
Tasks == {"server", "simulator", "request", "client"}
Helpers == Tasks \ {"server"}
Order == <<"server", "simulator", "request", "client">>

Line == [n : 0..MaxLines, kind : {"INVALID_CMD", "CMD", "PRINT", "EXIT", "EXIT_REST", "other"}]
NoCmd == [n |-> 0, kind |-> "INVALID_CMD"]

Parity == {0, 1}
State == [Numbers -> Parity]
NotRead == 2
PartOfState == [Numbers -> Parity \cup {NotRead}]
NothingRead == [f \in Numbers |-> NotRead]

TypeOK ==
    /\ main \in {"start", "closing", "end"}
    /\ told \subseteq Tasks /\ exited \subseteq Tasks
    /\ at \in [Tasks -> {"none", "queued", "test", "begin", "loop", "set", "integrate", "inner",
                         "lock", "locked", "copy", "read", "drain", "done"}]
    /\ stop \in [Tasks -> BOOLEAN]
    /\ lines \in 0..MaxLines /\ exits \subseteq {"EXIT", "EXIT_REST"}
    /\ requests \in Seq(Line) /\ cmds \in Seq(Line)
    /\ responses \in Seq(State)
    /\ popped \in Line /\ cmd \in Line /\ request \in Line
    /\ vehicle \in State /\ written \subseteq Numbers
    /\ copy \in PartOfState

Init == /\ main = "start" /\ told = {} /\ exited = {}
        /\ at = [t \in Tasks |-> "none"]
        /\ stop = [t \in Tasks |-> FALSE]
        /\ lines = 0 /\ exits = {}
        /\ requests = <<>> /\ responses = <<>> /\ cmds = <<>>
        /\ popped = NoCmd /\ cmd = NoCmd /\ request = NoCmd
        /\ vehicle = [f \in Numbers |-> 0] /\ written = {} /\ copy = NothingRead

-----------------------------------------------------------------------------
\* pool.add_task(server).
AddServer == /\ main = "start"
             /\ main' = "closing"
             /\ at' = [at EXCEPT !["server"] = "queued"]
             /\ UNCHANGED <<told, exited, stop, entered, queues, popped, cmd, stateVars>>

\* Mutant: the threads are told and not joined.
CloseWithoutJoin == /\ main = "closing"
                    /\ told' = told \cup {Order[Cardinality(told) + 1]}
                    /\ main' = IF told' = Tasks THEN "end" ELSE main
                    /\ UNCHANGED <<exited, at, stop, entered, queues, popped, cmd, stateVars>>

\* pool.close(): each thread is told to stop and joined before the next one.
Close == /\ main = "closing"
         /\ told \subseteq exited
         /\ IF told = Tasks THEN main' = "end" /\ UNCHANGED told
            ELSE told' = told \cup {Order[Cardinality(told) + 1]} /\ UNCHANGED main
         /\ UNCHANGED <<exited, at, stop, entered, queues, popped, cmd, stateVars>>

\* do_work_: a thread told to stop leaves, whatever is in its queue.
ThreadStops(t) == /\ t \in told \ exited
                  /\ at[t] \in {"none", "queued", "done"}
                  /\ exited' = exited \cup {t}
                  /\ UNCHANGED <<main, told, at, stop, entered, queues, popped, cmd, stateVars>>

ThreadRuns(t) == /\ at[t] = "queued" /\ t \notin exited \cup told
                 /\ at' = [at EXCEPT ![t] = IF t = "server" THEN "begin" ELSE "test"]
                 /\ UNCHANGED <<poolVars, stop, entered, queues, popped, cmd, stateVars>>

\* A step of task t that goes on at label to.
Go(t, to) == at' = [at EXCEPT ![t] = to]

\* while(!should_stop()), and the message after it.
Test(t, body) == /\ at[t] = "test"
                 /\ Go(t, IF stop[t] THEN "done" ELSE body)
                 /\ UNCHANGED <<poolVars, stop, entered, queues, popped, cmd, stateVars>>

-----------------------------------------------------------------------------
\* ServerThread::run.
Begin == /\ at["server"] = "begin"
         /\ at' = [t \in Tasks |-> IF t = "server" THEN "test" ELSE "queued"]
         /\ UNCHANGED <<poolVars, stop, entered, queues, popped, cmd, stateVars>>

\* Mutant: the newest command overtakes the others.
PopNewest == /\ at["server"] = "loop" /\ cmds # <<>>
             /\ popped' = Last(cmds)
             /\ cmds' = Front(cmds)
             /\ Go("server", "set")
             /\ UNCHANGED <<poolVars, stop, entered, requests, responses, cmd, stateVars>>

PopCmd == /\ at["server"] = "loop" /\ cmds # <<>>
          /\ popped' = Head(cmds)
          /\ cmds' = Tail(cmds)
          /\ Go("server", "set")
          /\ UNCHANGED <<poolVars, stop, entered, requests, responses, cmd, stateVars>>

\* Mutant: the simulator has the mutex for its loop, and waits for it inside.
MutexInLoop == at["simulator"] \notin {"test", "loop", "integrate"} /\ at["request"] # "locked"

\* integrate_mutex_, which an integration has, and get_state_as_string.
MutexFree == at["simulator"] # "integrate" /\ at["request"] # "locked"

SetCmd == /\ at["server"] = "set"
          /\ MutexFree
          /\ cmd' = popped
          /\ Go("server", "loop")
          /\ UNCHANGED <<poolVars, stop, entered, queues, popped, stateVars>>

\* tasks_stopped(); no condition is ever reset, so one look at all of them.
AllStopped == \A t \in Helpers : stop[t]

TasksStopped == /\ at["server"] = "loop" /\ cmds = <<>>
                /\ stop' = [stop EXCEPT !["server"] = AllStopped]
                /\ Go("server", "test")
                /\ UNCHANGED <<poolVars, entered, queues, popped, cmd, stateVars>>

\* SimulatorTask::run: integrate() under the mutex, a number after the other,
\* and the command it returns.
IntegrateBegins == /\ at["simulator"] = "loop"
                   /\ MutexFree
                   /\ Go("simulator", "integrate")
                   /\ UNCHANGED <<poolVars, stop, entered, queues, popped, cmd, stateVars>>

WriteNumber == /\ at["simulator"] = "integrate"
               /\ \E f \in Numbers \ written :
                    /\ vehicle' = [vehicle EXCEPT ![f] = 1 - @]
                    /\ written' = written \cup {f}
               /\ UNCHANGED <<poolVars, at, stop, entered, queues, popped, cmd, request, copy>>

IntegrateEnds == /\ at["simulator"] = "integrate" /\ written = Numbers
                 /\ written' = {}
                 /\ stop' = [stop EXCEPT !["simulator"] = @ \/ cmd.kind = "EXIT"]
                 /\ Go("simulator", "test")
                 /\ UNCHANGED <<poolVars, entered, queues, popped, cmd, vehicle, request, copy>>

-----------------------------------------------------------------------------
\* Mutant: get_state_as_string without the mutex, as get_state is.
NeverLocked(kind) == FALSE

\* A line is served with the state of the vehicle: PRINT by get_state_as_string,
\* which locks the mutex, a command by get_state, which does not.
Locked(kind) == kind = "PRINT"

\* RequestTask: the rest of the loop body serves what is queued, also after EXIT.
ServeNext ==
    /\ at["request"] = "inner" /\ requests # <<>>
    /\ requests' = Tail(requests)
    /\ LET r == Head(requests)
       IN \/ /\ r.kind \in {"PRINT", "CMD"}
             /\ request' = r
             /\ Go("request", IF Locked(r.kind) THEN "lock" ELSE "copy")
             /\ UNCHANGED <<cmds, stop>>
          \/ /\ r.kind \in {"EXIT", "EXIT_REST"}
             /\ cmds' = Append(cmds, [r EXCEPT !.kind = "EXIT"])
             /\ stop' = [stop EXCEPT !["request"] = TRUE]
             /\ UNCHANGED <<request, at>>
          \/ /\ r.kind = "other"
             /\ UNCHANGED <<request, cmds, stop, at>>
    /\ UNCHANGED <<poolVars, entered, responses, popped, cmd, vehicle, written, copy>>

LockVehicle == /\ at["request"] = "lock"
               /\ MutexFree
               /\ Go("request", "locked")
               /\ UNCHANGED <<poolVars, stop, entered, queues, popped, cmd, stateVars>>

\* get_state_as_string and get_state.
ReadNumber == /\ at["request"] \in {"locked", "copy"}
              /\ \E f \in Numbers : /\ copy[f] = NotRead
                                    /\ copy' = [copy EXCEPT ![f] = vehicle[f]]
              /\ UNCHANGED <<poolVars, at, stop, entered, queues, popped, cmd, vehicle, written,
                             request>>

\* What was read is printed, or completes a command with one of the numbers.
Serve == /\ at["request"] \in {"locked", "copy"}
         /\ \A f \in Numbers : copy[f] # NotRead
         /\ \/ /\ request.kind = "PRINT"
               /\ responses' = Append(responses, copy) /\ UNCHANGED cmds
            \/ /\ request.kind = "CMD"
               /\ cmds' = Append(cmds, request) /\ UNCHANGED responses
         /\ copy' = NothingRead /\ request' = NoCmd
         /\ Go("request", "inner")
         /\ UNCHANGED <<poolVars, stop, entered, requests, popped, cmd, vehicle, written>>

ServedAll == /\ at["request"] = "inner" /\ requests = <<>>
             /\ Go("request", "test")
             /\ UNCHANGED <<poolVars, stop, entered, queues, popped, cmd, stateVars>>

\* ClientTask::run: a line, if one is entered.
ReadLine == /\ at["client"] = "read"
            /\ lines < MaxLines
            /\ lines' = lines + 1
            /\ \E k \in Kinds :
                 /\ requests' = Append(requests, [n |-> lines', kind |-> k])
                 /\ exits' = exits \cup ({k} \cap {"EXIT", "EXIT_REST"})
                 /\ stop' = [stop EXCEPT !["client"] = k = "EXIT"]
                 /\ Go("client", IF k = "EXIT" THEN "done" ELSE "drain")
            /\ UNCHANGED <<poolVars, responses, cmds, popped, cmd, stateVars>>

DrainResponses == /\ at["client"] = "drain"
                  /\ IF responses = <<>> THEN Go("client", "test") /\ UNCHANGED responses
                     ELSE responses' = Tail(responses) /\ UNCHANGED at
                  /\ UNCHANGED <<poolVars, stop, entered, requests, cmds, popped, cmd, stateVars>>

Thread(t) == ThreadStops(t) \/ ThreadRuns(t)
Server == Thread("server") \/ Begin \/ Test("server", "loop") \/ PopCmd \/ SetCmd \/ TasksStopped
Simulator == \/ Thread("simulator") \/ Test("simulator", "loop")
             \/ IntegrateBegins \/ WriteNumber \/ IntegrateEnds
Request == \/ Thread("request") \/ Test("request", "inner")
           \/ ServeNext \/ LockVehicle \/ ReadNumber \/ Serve \/ ServedAll
Client == Thread("client") \/ Test("client", "read") \/ DrainResponses

Next == AddServer \/ Close \/ Server \/ Simulator \/ Request \/ Client \/ ReadLine

Spec == Init /\ [][Next]_vars

\* Every thread is scheduled, and the mutex, free after every integration, is
\* got by one of those who wait for it.  Nobody has to enter a line.
Fairness == /\ WF_vars(AddServer \/ Close) /\ WF_vars(Server) /\ WF_vars(Simulator)
            /\ WF_vars(Request) /\ WF_vars(Client)
            /\ SF_vars(SetCmd \/ LockVehicle)
FairSpec == Spec /\ Fairness

-----------------------------------------------------------------------------
\* When main ends, and with it the queues and the vehicle the tasks refer to,
\* no thread of the pool is in a task.
NothingLeftRunning == main = "end" => /\ exited = Tasks
                                      /\ \A t \in Tasks : at[t] \in {"none", "queued", "done"}

\* The server is not done while a task it owns still has to be told: close()
\* would wait for that task for ever.
ServerIsLast == at["server"] = "done" => \A t \in Helpers : stop[t]

Inv == TypeOK /\ NothingLeftRunning /\ ServerIsLast

\* Commands go through two queues and three threads: the vehicle never gets
\* an older one than it has.
NeverAnOlderCommand == [][cmd'.n >= cmd.n]_cmd

\* A printed state is one that the vehicle had: its numbers are all of the same
\* integration, although they are written and read one at a time.
Whole(s) == \A f, g \in Numbers : s[f] = s[g]
PrintedStateIsWhole == \A i \in DOMAIN responses : Whole(responses[i])

\* EXIT ends the program.  (After EXIT; the client goes on, and a command of
\* his that is served in the same turn replaces the EXIT the simulator has
\* not yet seen, for ever.)
ExitEndsProgram == exits = {"EXIT"} ~> main = "end"
=============================================================================

------------------------- MODULE VehicleServerProofs -------------------------
(***************************************************************************)
(* Theorems about VehicleServer for any kinds and any number of lines, and *)
(* any numbers that make up the state of the vehicle.                      *)
(*                                                                         *)
(* ThreadInv: a thread that has left do_work_ is in no task, and close()   *)
(* has waited for all of them.  StopInv: the other tasks are submitted     *)
(* once, by the server, and no stop condition is ever taken back, which is *)
(* why one look at all of them is enough for the server.                   *)
(* OrderInv: along the way of a command, from the lines to the vehicle,    *)
(* the numbers never fall.  StateInv: the mutex keeps an integration and a *)
(* print from each other, so that what is read for a print is the vehicle's*)
(* state still when the last number has been read; and outside integrations*)
(* the numbers of the vehicle are all of the same one.                     *)
(***************************************************************************)
EXTENDS VehicleServer, FiniteSetTheorems, SequenceTheorems, TLAPS

Outside == {"none", "queued", "done"}

ThreadInv == /\ \A t \in exited : at[t] \in Outside
             /\ main = "end" => exited = Tasks

StopInv == /\ main = "start" => at["server"] = "none"
           /\ at["server"] \in {"none", "queued", "begin"} => \A t \in Helpers : at[t] = "none"
           /\ stop["client"] <=> at["client"] = "done"
           /\ stop["server"] => AllStopped
           /\ at["server"] = "done" => stop["server"]

ServedInOrder ==
    request # NoCmd => /\ popped.n <= request.n /\ request.n <= lines
                       /\ \A i \in DOMAIN cmds : cmds[i].n <= request.n
                       /\ \A i \in DOMAIN requests : request.n <= requests[i].n

OrderInv ==
    /\ cmd.n <= popped.n /\ popped.n <= lines
    /\ \A i \in DOMAIN cmds : popped.n <= cmds[i].n /\ cmds[i].n <= lines
    /\ \A i, j \in DOMAIN cmds : i < j => cmds[i].n <= cmds[j].n
    /\ \A i \in DOMAIN requests : popped.n <= requests[i].n /\ requests[i].n <= lines
    /\ \A i, j \in DOMAIN requests : i < j => requests[i].n <= requests[j].n
    /\ \A i \in DOMAIN cmds, j \in DOMAIN requests : cmds[i].n <= requests[j].n
    /\ ServedInOrder

ReadSoFar == \A f \in Numbers : copy[f] \in {NotRead, vehicle[f]}

StateInv ==
    /\ at["simulator"] # "integrate" => written = {}
    /\ \A f, g \in Numbers : vehicle[f] = vehicle[g] <=> (f \in written <=> g \in written)
    /\ at["request"] = "locked" => at["simulator"] # "integrate" /\ ReadSoFar
    /\ at["request"] \notin {"locked", "copy"} => copy = NothingRead
    /\ at["request"] = "copy" => request.kind = "CMD"
    /\ at["request"] \notin {"lock", "locked", "copy"} => request = NoCmd

\* close() has a thread left to tell until it has told all four.
LEMMA NextThread == ASSUME told \subseteq Tasks, told # Tasks
                    PROVE  Order[Cardinality(told) + 1] \in Tasks
<1>1. IsFiniteSet({"server", "simulator"}) /\ Cardinality({"server", "simulator"}) = 2
  <2>1. {"server", "simulator"} = {"server"} \cup {"simulator"}
    OBVIOUS
  <2>2. IsFiniteSet({"server"}) /\ Cardinality({"server"}) = 1
    BY FS_Singleton
  <2>3. "simulator" \notin {"server"}
    OBVIOUS
  <2> HIDE DEF Tasks
  <2> QED BY <2>1, <2>2, <2>3, FS_AddElement
<1>2. IsFiniteSet(Tasks) /\ Cardinality(Tasks) = 4
  <2>1. Tasks = ({"server", "simulator"} \cup {"request"}) \cup {"client"}
    BY DEF Tasks
  <2>2. /\ IsFiniteSet({"server", "simulator"} \cup {"request"})
        /\ Cardinality({"server", "simulator"} \cup {"request"}) = 3
    BY <1>1, FS_AddElement
  <2> QED BY <2>1, <2>2, FS_AddElement
<1>3. Cardinality(told) \in Nat /\ Cardinality(told) < 4
  BY <1>2, FS_Subset, FS_CardinalityType
<1>4. Cardinality(told) + 1 \in 1..4
  BY <1>3
<1> QED BY <1>4 DEF Order, Tasks

LEMMA InitInv == Init => TypeOK /\ ThreadInv /\ StopInv /\ OrderInv /\ StateInv
<1> SUFFICES ASSUME Init PROVE TypeOK /\ ThreadInv /\ StopInv /\ OrderInv /\ StateInv
  OBVIOUS
<1>1. NoCmd \in Line
  BY LinesAssumption DEF NoCmd, Line
<1>2. TypeOK
  BY <1>1, LinesAssumption DEF Init, TypeOK, State, PartOfState, Parity, NothingRead
<1>3. ThreadInv /\ StopInv
  BY DEF Init, ThreadInv, StopInv, Helpers, Tasks
<1>4. OrderInv
  BY DEF Init, OrderInv, ServedInOrder, NoCmd
<1>5. StateInv
  BY DEF Init, StateInv, Tasks
<1> QED BY <1>2, <1>3, <1>4, <1>5

-----------------------------------------------------------------------------
(* Types.                                                                   *)

LEMMA AppendTyped == ASSUME NEW S, NEW s \in Seq(S), NEW e \in S PROVE Append(s, e) \in Seq(S)
  BY AppendProperties

LEMMA TailTyped == ASSUME NEW S, NEW s \in Seq(S), s # <<>> PROVE Tail(s) \in Seq(S)
  BY HeadTailProperties

LEMMA NextTypes == ASSUME TypeOK, [Next]_vars PROVE TypeOK'
<1> USE DEF TypeOK
<1> USE DEF poolVars, queues, entered, stateVars
<1>1. CASE AddServer
  BY <1>1 DEF AddServer, Tasks
<1>2. CASE Close
  BY <1>2, NextThread DEF Close
<1>3. ASSUME NEW t \in Tasks, Thread(t) PROVE TypeOK'
  BY <1>3 DEF Thread, ThreadStops, ThreadRuns
<1>4. CASE Begin
  BY <1>4 DEF Begin
<1>5. ASSUME NEW t \in Tasks, NEW body \in {"loop", "inner", "read"}, Test(t, body)
      PROVE  TypeOK'
  BY <1>5 DEF Test, Go
<1>6. CASE PopCmd
  <2>1. Head(cmds) \in Line /\ Tail(cmds) \in Seq(Line)
    BY <1>6, HeadTailProperties DEF PopCmd
  <2> QED BY <1>6, <2>1 DEF PopCmd, Go
<1>7. CASE SetCmd \/ TasksStopped
  BY <1>7 DEF SetCmd, TasksStopped, AllStopped, Go
<1>a. CASE IntegrateBegins
  BY <1>a DEF IntegrateBegins, Go
<1>w. CASE WriteNumber
  <2>1. vehicle' \in State
    BY <1>w DEF WriteNumber, State, Parity
  <2> QED BY <1>w, <2>1 DEF WriteNumber
<1>b. CASE IntegrateEnds
  BY <1>b DEF IntegrateEnds, Go
<1>8. CASE ServeNext
  <2> DEFINE r == Head(requests)
  <2>1. r \in Line /\ Tail(requests) \in Seq(Line)
    BY <1>8, HeadTailProperties DEF ServeNext
  <2>2. [r EXCEPT !.kind = "EXIT"] \in Line
    BY <2>1 DEF Line
  <2>3. /\ cmds' \in {cmds, Append(cmds, [r EXCEPT !.kind = "EXIT"])}
        /\ request' \in {request, r}
    BY <1>8 DEF ServeNext
  <2>4. stop' \in [Tasks -> BOOLEAN] /\ (at' = at \/ at' = [at EXCEPT !["request"] = "lock"]
                                           \/ at' = [at EXCEPT !["request"] = "copy"])
    BY <1>8 DEF ServeNext, Go, Tasks
  <2> HIDE DEF r
  <2>5. cmds' \in Seq(Line)
    <3>1. Append(cmds, [r EXCEPT !.kind = "EXIT"]) \in Seq(Line)
      BY <2>2, AppendTyped
    <3> QED BY <2>3, <3>1
  <2> QED BY <1>8, <2>1, <2>3, <2>4, <2>5 DEF ServeNext
<1>l. CASE LockVehicle
  BY <1>l DEF LockVehicle, Go
<1>r. CASE ReadNumber
  <2>1. copy' \in PartOfState
    BY <1>r DEF ReadNumber, State, PartOfState
  <2> QED BY <1>r, <2>1 DEF ReadNumber
<1>s. CASE Serve
  <2>1. (\A f \in Numbers : copy[f] # NotRead) => copy \in State
    BY DEF State, PartOfState
  <2>2. responses' \in Seq(State)
    <3>1. copy \in State => Append(responses, copy) \in Seq(State)
      BY AppendTyped
    <3> QED BY <1>s, <2>1, <3>1 DEF Serve
  <2>3. cmds' \in Seq(Line)
    <3>1. Append(cmds, request) \in Seq(Line)
      BY AppendTyped
    <3> QED BY <1>s, <3>1 DEF Serve
  <2>4. NoCmd \in Line /\ NothingRead \in PartOfState
    BY LinesAssumption DEF NoCmd, Line, NothingRead, PartOfState
  <2> QED BY <1>s, <2>2, <2>3, <2>4 DEF Serve, Go
<1>9. CASE ServedAll
  BY <1>9 DEF ServedAll, Go
<1>c. CASE DrainResponses
  <2>1. responses # <<>> => Tail(responses) \in Seq(State)
    BY TailTyped
  <2>2. responses' \in Seq(State)
    BY <1>c, <2>1 DEF DrainResponses
  <2> QED BY <1>c, <2>2 DEF DrainResponses, Go, Tasks
<1>10. CASE ReadLine
  <2> PICK k \in Kinds :
        /\ requests' = Append(requests, [n |-> lines', kind |-> k])
        /\ exits' = exits \cup ({k} \cap {"EXIT", "EXIT_REST"})
        /\ stop' = [stop EXCEPT !["client"] = k = "EXIT"]
        /\ Go("client", IF k = "EXIT" THEN "done" ELSE "drain")
    BY <1>10 DEF ReadLine
  <2>1. lines' \in 0..MaxLines
    BY <1>10, LinesAssumption DEF ReadLine
  <2>2. [n |-> lines', kind |-> k] \in Line
    BY <2>1, KindsAssumption DEF Line
  <2>3. requests' \in Seq(Line)
    BY <2>2, AppendProperties
  <2>4. stop' \in [Tasks -> BOOLEAN] /\ (at' = [at EXCEPT !["client"] = "done"]
                                           \/ at' = [at EXCEPT !["client"] = "drain"])
    BY DEF Go, Tasks
  <2> QED BY <1>10, <2>1, <2>3, <2>4 DEF ReadLine
<1>11. CASE UNCHANGED vars
  BY <1>11 DEF vars
<1> QED
  BY <1>1, <1>2, <1>3, <1>4, <1>5, <1>6, <1>7, <1>a, <1>w, <1>b, <1>8, <1>l, <1>r, <1>s, <1>9,
     <1>c, <1>10, <1>11
  DEF Next, Server, Simulator, Request, Client, Tasks

-----------------------------------------------------------------------------
(* Threads and stop conditions.                                             *)

\* A task that has begun and is not done: its thread has not left.
LEMMA InsideRuns == ASSUME ThreadInv, NEW t \in Tasks, at[t] \notin Outside
                    PROVE  t \notin exited
  BY DEF ThreadInv

\* A task moves on only while its thread is there.
LEMMA GoKeepsThreads ==
    ASSUME TypeOK, ThreadInv, NEW t \in Tasks, NEW to, at[t] \notin Outside, Go(t, to),
           UNCHANGED <<main, exited>>
    PROVE  ThreadInv'
<1>1. t \notin exited
  BY InsideRuns
<1> QED BY <1>1 DEF TypeOK, ThreadInv, Go

LEMMA NextThreadInv == ASSUME TypeOK, ThreadInv, [Next]_vars PROVE ThreadInv'
<1>1. CASE AddServer
  BY <1>1 DEF AddServer, ThreadInv, TypeOK, Outside
<1>2. CASE Close
  BY <1>2 DEF Close, ThreadInv, TypeOK
<1>3. ASSUME NEW t \in Tasks, Thread(t) PROVE ThreadInv'
  BY <1>3 DEF Thread, ThreadStops, ThreadRuns, ThreadInv, TypeOK, Outside, poolVars
<1>4. CASE Begin
  <2>1. "server" \notin exited
    BY <1>4, InsideRuns DEF Begin, Tasks, Outside
  <2> QED BY <1>4, <2>1 DEF Begin, ThreadInv, TypeOK, Outside, poolVars
<1>5. ASSUME NEW t \in Tasks, NEW body \in {"loop", "inner", "read"}, Test(t, body)
      PROVE  ThreadInv'
  BY <1>5, GoKeepsThreads DEF Test, Outside, poolVars
<1>6. CASE PopCmd \/ SetCmd \/ TasksStopped
  BY <1>6, GoKeepsThreads DEF PopCmd, SetCmd, TasksStopped, Outside, Tasks, poolVars
<1>7. CASE IntegrateBegins \/ IntegrateEnds
  BY <1>7, GoKeepsThreads DEF IntegrateBegins, IntegrateEnds, Outside, Tasks, poolVars
<1>8. CASE LockVehicle \/ Serve \/ ServedAll \/ ReadLine
  BY <1>8, GoKeepsThreads DEF LockVehicle, Serve, ServedAll, ReadLine, Outside, Tasks, poolVars
<1>s. CASE ServeNext
  <2>1. CASE at' = at
    BY <1>s, <2>1 DEF ServeNext, ThreadInv, poolVars
  <2>2. CASE at' # at
    BY <1>s, <2>2, GoKeepsThreads DEF ServeNext, Outside, Tasks, poolVars
  <2> QED BY <2>1, <2>2
<1>9. CASE WriteNumber \/ ReadNumber \/ UNCHANGED vars
  BY <1>9 DEF WriteNumber, ReadNumber, vars, ThreadInv, poolVars
<1>10. CASE DrainResponses
  <2>1. CASE responses = <<>>
    BY <1>10, <2>1, GoKeepsThreads DEF DrainResponses, Outside, Tasks, poolVars
  <2>2. CASE responses # <<>>
    BY <1>10, <2>2 DEF DrainResponses, ThreadInv, poolVars
  <2> QED BY <2>1, <2>2
<1> QED
  BY <1>1, <1>2, <1>3, <1>4, <1>5, <1>6, <1>7, <1>8, <1>s, <1>9, <1>10
  DEF Next, Server, Simulator, Request, Client, Tasks

LEMMA NextStopInv == ASSUME TypeOK, StopInv, [Next]_vars PROVE StopInv'
<1> USE DEF StopInv, AllStopped, Helpers, Tasks
<1>1. CASE AddServer
  BY <1>1 DEF AddServer, TypeOK
<1>2. CASE Close \/ UNCHANGED vars
  BY <1>2 DEF Close, vars, poolVars
<1>3. ASSUME NEW t \in Tasks, Thread(t) PROVE StopInv'
  BY <1>3 DEF Thread, ThreadStops, ThreadRuns, TypeOK, poolVars
<1>4. CASE Begin
  BY <1>4 DEF Begin, TypeOK, poolVars
<1>5. ASSUME NEW t \in Tasks, NEW body \in {"loop", "inner", "read"}, Test(t, body)
      PROVE  StopInv'
  BY <1>5 DEF Test, Go, TypeOK, poolVars
<1>6. CASE PopCmd \/ SetCmd
  BY <1>6 DEF PopCmd, SetCmd, Go, TypeOK, poolVars
<1>7. CASE TasksStopped
  BY <1>7 DEF TasksStopped, Go, TypeOK, poolVars
<1>8. CASE IntegrateBegins \/ IntegrateEnds
  BY <1>8 DEF IntegrateBegins, IntegrateEnds, Go, TypeOK, poolVars
<1>s. CASE LockVehicle \/ Serve
  BY <1>s DEF LockVehicle, Serve, Go, TypeOK, poolVars
<1>r. CASE WriteNumber \/ ReadNumber
  BY <1>r DEF WriteNumber, ReadNumber, poolVars
<1>9. CASE ServeNext
  BY <1>9 DEF ServeNext, Go, TypeOK, poolVars
<1>10. CASE ServedAll \/ DrainResponses
  BY <1>10 DEF ServedAll, DrainResponses, Go, TypeOK, poolVars
<1>11. CASE ReadLine
  BY <1>11 DEF ReadLine, Go, TypeOK, poolVars
<1> QED
  BY <1>1, <1>2, <1>3, <1>4, <1>5, <1>6, <1>7, <1>8, <1>s, <1>r, <1>9, <1>10, <1>11
  DEF Next, Server, Simulator, Request, Client

-----------------------------------------------------------------------------
(* The order of the commands.                                               *)

orderVars == <<lines, requests, cmds, popped, cmd, request>>

NumbersAreNaturals ==
    /\ cmd.n \in Nat /\ popped.n \in Nat /\ request.n \in Nat /\ lines \in Nat
    /\ \A i \in DOMAIN cmds : cmds[i].n \in Nat
    /\ \A i \in DOMAIN requests : requests[i].n \in Nat

LEMMA LinesNumbered == ASSUME TypeOK PROVE NumbersAreNaturals
<1>1. \A l \in Line : l.n \in Nat
  <2>1. \A l \in Line : l.n \in 0..MaxLines
    BY DEF Line
  <2> QED BY <2>1, LinesAssumption
<1>2. cmd \in Line /\ popped \in Line /\ request \in Line /\ lines \in Nat
  BY LinesAssumption DEF TypeOK
<1>3. (\A i \in DOMAIN cmds : cmds[i] \in Line) /\ (\A i \in DOMAIN requests : requests[i] \in Line)
  BY DEF TypeOK
<1> QED BY <1>1, <1>2, <1>3 DEF NumbersAreNaturals

LEMMA PopInOrder == ASSUME TypeOK, OrderInv, PopCmd PROVE OrderInv'
<1>1. /\ cmds \in Seq(Line) /\ Len(cmds) \in Nat /\ Len(cmds) > 0
      /\ popped' = cmds[1] /\ cmds' = Tail(cmds)
      /\ UNCHANGED <<lines, requests, cmd, request>>
  BY DEF PopCmd, TypeOK, entered, stateVars
<1>2. /\ DOMAIN cmds' = 1 .. Len(cmds) - 1
      /\ \A i \in DOMAIN cmds' : cmds'[i] = cmds[i + 1] /\ i + 1 \in DOMAIN cmds
  BY <1>1
<1>3. 1 \in DOMAIN cmds /\ DOMAIN cmds = 1 .. Len(cmds)
  BY <1>1
<1>4. NumbersAreNaturals
  BY LinesNumbered
<1>5. /\ cmd'.n <= popped'.n /\ popped'.n <= lines'
      /\ \A m \in DOMAIN requests' : /\ popped'.n <= requests'[m].n
                                     /\ requests'[m].n <= lines'
  BY <1>1, <1>3, <1>4 DEF OrderInv, NumbersAreNaturals
<1>6. ASSUME NEW m \in DOMAIN cmds'
      PROVE  popped'.n <= cmds'[m].n /\ cmds'[m].n <= lines'
  <2>1. 1 < m + 1 /\ m + 1 \in DOMAIN cmds /\ cmds'[m] = cmds[m + 1]
    BY <1>2, <1>1
  <2> QED BY <2>1, <1>1, <1>3 DEF OrderInv
<1>7. ASSUME NEW m \in DOMAIN cmds', NEW o \in DOMAIN cmds', m < o
      PROVE  cmds'[m].n <= cmds'[o].n
  <2>1. m + 1 < o + 1
    BY <1>2, <1>1, <1>7
  <2> QED BY <2>1, <1>2 DEF OrderInv
<1>8. \A m \in DOMAIN requests', o \in DOMAIN requests' : m < o => requests'[m].n <= requests'[o].n
  BY <1>1 DEF OrderInv
<1>9. \A m \in DOMAIN cmds', o \in DOMAIN requests' : cmds'[m].n <= requests'[o].n
  BY <1>1, <1>2 DEF OrderInv
<1>10. ServedInOrder'
  BY <1>1, <1>2, <1>3 DEF OrderInv, ServedInOrder
<1> QED BY <1>5, <1>6, <1>7, <1>8, <1>9, <1>10 DEF OrderInv

\* A line is put behind the commands, and is no older than those.
LEMMA AppendInOrder ==
    ASSUME TypeOK, OrderInv, NEW x \in Line, cmds' = Append(cmds, x), request' = NoCmd,
           UNCHANGED <<lines, popped, cmd>>,
           popped.n <= x.n, x.n <= lines,
           \A m \in DOMAIN cmds : cmds[m].n <= x.n,
           requests' \in Seq(Line),
           \A m, o \in DOMAIN requests' : m < o => requests'[m].n <= requests'[o].n,
           \A m \in DOMAIN requests' : x.n <= requests'[m].n /\ requests'[m].n <= lines
    PROVE  OrderInv'
<1>1. /\ DOMAIN cmds = 1 .. Len(cmds) /\ DOMAIN cmds' = 1 .. Len(cmds) + 1
      /\ Len(cmds) \in Nat /\ cmds'[Len(cmds) + 1] = x
      /\ \A m \in DOMAIN cmds : cmds'[m] = cmds[m]
  BY DEF TypeOK
<1>2. NumbersAreNaturals
  BY LinesNumbered
<1>3. x.n \in Nat /\ \A m \in DOMAIN requests' : requests'[m].n \in Nat
  <2>1. \A l \in Line : l.n \in 0..MaxLines
    BY DEF Line
  <2>2. \A l \in Line : l.n \in Nat
    BY <2>1, LinesAssumption
  <2>3. \A m \in DOMAIN requests' : requests'[m] \in Line
    OBVIOUS
  <2> QED BY <2>2, <2>3
<1>4. \A m \in DOMAIN cmds' :
          /\ m \in DOMAIN cmds \/ (m = Len(cmds) + 1 /\ cmds'[m] = x)
          /\ popped'.n <= cmds'[m].n /\ cmds'[m].n <= lines' /\ cmds'[m].n <= x.n
          /\ cmds'[m].n \in Nat
  BY <1>1, <1>2, <1>3 DEF OrderInv, NumbersAreNaturals
<1>5. ASSUME NEW m \in DOMAIN cmds', NEW o \in DOMAIN cmds', m < o
      PROVE  cmds'[m].n <= cmds'[o].n
  BY <1>1, <1>4, <1>5 DEF OrderInv
<1>6. \A m \in DOMAIN cmds', o \in DOMAIN requests' : cmds'[m].n <= requests'[o].n
  BY <1>3, <1>4
<1>7. /\ cmd'.n <= popped'.n /\ popped'.n <= lines'
      /\ \A m \in DOMAIN requests' : popped'.n <= requests'[m].n /\ requests'[m].n <= lines'
  BY <1>2, <1>3 DEF OrderInv, NumbersAreNaturals
<1>8. ServedInOrder'
  BY DEF ServedInOrder, NoCmd
<1> QED BY <1>4, <1>5, <1>6, <1>7, <1>8 DEF OrderInv

LEMMA TakeInOrder == ASSUME TypeOK, OrderInv, StateInv, ServeNext PROVE OrderInv'
<1> DEFINE r == Head(requests)
<1>1. /\ requests \in Seq(Line) /\ Len(requests) \in Nat /\ Len(requests) > 0
      /\ r = requests[1] /\ r \in Line /\ requests' = Tail(requests) /\ requests' \in Seq(Line)
      /\ UNCHANGED <<lines, popped, cmd>>
  <2>1. requests # <<>> /\ requests' = Tail(requests) /\ UNCHANGED <<lines, popped, cmd>>
    BY DEF ServeNext, entered
  <2>2. requests \in Seq(Line)
    BY DEF TypeOK
  <2> QED BY <2>1, <2>2, HeadTailProperties
<1>2. /\ DOMAIN requests = 1 .. Len(requests) /\ DOMAIN requests' = 1 .. Len(requests) - 1
      /\ \A i \in DOMAIN requests' : requests'[i] = requests[i + 1] /\ i + 1 \in DOMAIN requests
  BY <1>1
<1>3. NumbersAreNaturals
  BY LinesNumbered
<1>4. /\ \A m \in DOMAIN requests' : /\ popped'.n <= requests'[m].n
                                     /\ requests'[m].n <= lines'
                                     /\ requests[1].n <= requests'[m].n
      /\ \A m, o \in DOMAIN requests' : m < o => requests'[m].n <= requests'[o].n
      /\ \A m \in DOMAIN cmds, o \in DOMAIN requests' : cmds[m].n <= requests'[o].n
      /\ cmd'.n <= popped'.n /\ popped'.n <= lines'
      /\ popped.n <= requests[1].n /\ requests[1].n <= lines
      /\ \A m \in DOMAIN cmds : cmds[m].n <= requests[1].n
  <2>1. 1 \in DOMAIN requests /\ \A m \in DOMAIN requests' : 1 < m + 1
    BY <1>1, <1>2
  <2>2. \A m, o \in DOMAIN requests' : m < o => m + 1 < o + 1
    BY <1>1, <1>2
  <2> HIDE DEF r
  <2> QED BY <1>1, <1>2, <1>3, <2>1, <2>2 DEF OrderInv, NumbersAreNaturals
<1>5. request = NoCmd
  BY DEF StateInv, ServeNext
<1>6. [r EXCEPT !.kind = "EXIT"] \in Line /\ [r EXCEPT !.kind = "EXIT"].n = r.n
  BY <1>1 DEF Line
<1>7. \/ UNCHANGED cmds /\ request' \in {NoCmd, r}
      \/ cmds' = Append(cmds, [r EXCEPT !.kind = "EXIT"]) /\ request' = NoCmd
  BY <1>5 DEF ServeNext
<1> HIDE DEF r
<1>8. CASE UNCHANGED cmds /\ request' \in {NoCmd, r}
  BY <1>1, <1>4, <1>8 DEF OrderInv, ServedInOrder
<1>9. ASSUME NEW x \in Line, x.n = r.n, cmds' = Append(cmds, x), request' = NoCmd
      PROVE  OrderInv'
  BY <1>1, <1>4, <1>9, AppendInOrder
<1> QED BY <1>6, <1>7, <1>8, <1>9

LEMMA ServeInOrder == ASSUME TypeOK, OrderInv, Serve PROVE OrderInv'
<1>1. /\ UNCHANGED <<lines, requests, popped, cmd>> /\ request' = NoCmd
      /\ UNCHANGED cmds \/ (request.kind = "CMD" /\ cmds' = Append(cmds, request))
  BY DEF Serve, entered
<1>2. CASE UNCHANGED cmds
  BY <1>1, <1>2 DEF OrderInv, ServedInOrder
<1>3. CASE request.kind = "CMD" /\ cmds' = Append(cmds, request)
  <2>1. request # NoCmd /\ request \in Line /\ requests \in Seq(Line)
    BY <1>3 DEF NoCmd, TypeOK
  <2>2. /\ popped.n <= request.n /\ request.n <= lines
        /\ \A m \in DOMAIN cmds : cmds[m].n <= request.n
        /\ \A m, o \in DOMAIN requests : m < o => requests[m].n <= requests[o].n
        /\ \A m \in DOMAIN requests : request.n <= requests[m].n /\ requests[m].n <= lines
    BY <2>1 DEF OrderInv, ServedInOrder
  <2> QED BY <1>1, <1>3, <2>1, <2>2, AppendInOrder
<1> QED BY <1>1, <1>2, <1>3

LEMMA ReadInOrder == ASSUME TypeOK, OrderInv, ReadLine PROVE OrderInv'
<1> PICK k \in Kinds : requests' = Append(requests, [n |-> lines', kind |-> k])
  BY DEF ReadLine
<1>1. /\ lines \in Nat /\ lines' = lines + 1
      /\ UNCHANGED <<cmds, popped, cmd, request>>
  BY LinesAssumption DEF ReadLine, TypeOK, stateVars
<1>2. /\ Len(requests) \in Nat
      /\ DOMAIN requests = 1 .. Len(requests) /\ DOMAIN requests' = 1 .. Len(requests) + 1
      /\ requests'[Len(requests) + 1].n = lines + 1
      /\ \A i \in DOMAIN requests : requests'[i] = requests[i]
  BY <1>1 DEF TypeOK
<1>3. NumbersAreNaturals
  BY LinesNumbered
<1> QED BY <1>1, <1>2, <1>3 DEF OrderInv, ServedInOrder, NumbersAreNaturals

LEMMA NextOrderInv == ASSUME TypeOK, OrderInv, StateInv, [Next]_vars PROVE OrderInv'
<1> USE DEF entered, queues, stateVars, orderVars
<1>1. CASE PopCmd \/ ServeNext \/ Serve \/ ReadLine
  BY <1>1, PopInOrder, TakeInOrder, ServeInOrder, ReadInOrder
<1>2. CASE SetCmd
  <2>1. popped.n <= popped.n
    BY LinesNumbered DEF NumbersAreNaturals
  <2> QED BY <1>2, <2>1 DEF SetCmd, OrderInv, ServedInOrder
<1>3. ASSUME UNCHANGED orderVars PROVE OrderInv'
  BY <1>3 DEF OrderInv, ServedInOrder
<1>4. CASE AddServer \/ Close \/ Begin \/ TasksStopped \/ IntegrateBegins \/ WriteNumber
           \/ IntegrateEnds
  BY <1>3, <1>4 DEF AddServer, Close, Begin, TasksStopped, IntegrateBegins, WriteNumber,
                    IntegrateEnds
<1>5. CASE LockVehicle \/ ReadNumber \/ ServedAll \/ DrainResponses \/ UNCHANGED vars
  BY <1>3, <1>5 DEF LockVehicle, ReadNumber, ServedAll, DrainResponses, vars
<1>6. ASSUME NEW t \in Tasks, Thread(t) PROVE OrderInv'
  BY <1>3, <1>6 DEF Thread, ThreadStops, ThreadRuns
<1>7. ASSUME NEW t \in Tasks, NEW body \in {"loop", "inner", "read"}, Test(t, body)
      PROVE  OrderInv'
  BY <1>3, <1>7 DEF Test
<1> QED
  BY <1>1, <1>2, <1>4, <1>5, <1>6, <1>7 DEF Next, Server, Simulator, Request, Client, Tasks

-----------------------------------------------------------------------------
(* The state of the vehicle and what the request task reads of it.          *)

stateInvVars == <<stateVars, at["simulator"], at["request"]>>

LEMMA StateKept == ASSUME StateInv, UNCHANGED stateInvVars PROVE StateInv'
  BY DEF StateInv, ReadSoFar, stateInvVars, stateVars

LEMMA NextStateInv == ASSUME TypeOK, StopInv, StateInv, [Next]_vars PROVE StateInv'
<1> USE DEF stateVars, stateInvVars
<1>1. CASE AddServer \/ Close \/ PopCmd \/ SetCmd \/ TasksStopped \/ UNCHANGED vars
  BY <1>1, StateKept DEF AddServer, Close, PopCmd, SetCmd, TasksStopped, vars, Go, TypeOK, Tasks
<1>2. CASE ReadLine \/ DrainResponses
  BY <1>2, StateKept DEF ReadLine, DrainResponses, Go, TypeOK, Tasks
<1>3. ASSUME NEW t \in Tasks, Thread(t) PROVE StateInv'
  <2>1. UNCHANGED stateVars /\ (UNCHANGED at \/ (at[t] = "queued" /\ at' = [at EXCEPT
                                      ![t] = IF t = "server" THEN "begin" ELSE "test"]))
    BY <1>3 DEF Thread, ThreadStops, ThreadRuns
  <2> QED BY <2>1 DEF StateInv, ReadSoFar, TypeOK, Tasks
<1>4. CASE Begin
  <2>1. UNCHANGED stateVars
        /\ at' = [t \in Tasks |-> IF t = "server" THEN "test" ELSE "queued"]
    BY <1>4 DEF Begin
  <2>2. at["simulator"] = "none" /\ at["request"] = "none"
    BY <1>4 DEF Begin, StopInv, Helpers, Tasks
  <2> QED BY <2>1, <2>2 DEF StateInv, ReadSoFar, Tasks
<1>5. ASSUME NEW t \in Tasks, NEW body \in {"loop", "inner", "read"}, Test(t, body)
      PROVE  StateInv'
  <2>1. UNCHANGED stateVars /\ at[t] = "test" /\ (at' = [at EXCEPT ![t] = "done"]
                                                   \/ at' = [at EXCEPT ![t] = body])
    BY <1>5 DEF Test, Go
  <2> QED BY <2>1 DEF StateInv, ReadSoFar, TypeOK, Tasks
<1>6. CASE IntegrateBegins
  <2>1. /\ UNCHANGED stateVars /\ at' = [at EXCEPT !["simulator"] = "integrate"]
        /\ at["request"] # "locked"
    BY <1>6 DEF IntegrateBegins, Go, MutexFree
  <2> QED BY <2>1 DEF StateInv, ReadSoFar, TypeOK, Tasks
<1>7. CASE WriteNumber
  <2>1. UNCHANGED <<at, request, copy>> /\ at["simulator"] = "integrate"
    BY <1>7 DEF WriteNumber
  <2>2. PICK n \in Numbers \ written : /\ vehicle' = [vehicle EXCEPT ![n] = 1 - @]
                                       /\ written' = written \cup {n}
    BY <1>7 DEF WriteNumber
  <2>3. ASSUME NEW f \in Numbers, NEW g \in Numbers
        PROVE  vehicle'[f] = vehicle'[g] <=> (f \in written' <=> g \in written')
    <3>1. vehicle[f] = vehicle[g] <=> (f \in written <=> g \in written)
      BY DEF StateInv
    <3>2. vehicle[f] \in {0, 1} /\ vehicle[g] \in {0, 1} /\ vehicle[n] \in {0, 1}
      BY DEF TypeOK, State, Parity
    <3>3. \A x \in Numbers : vehicle'[x] = IF x = n THEN 1 - vehicle[n] ELSE vehicle[x]
      BY <2>2 DEF TypeOK, State
    <3> QED BY <2>2, <3>1, <3>2, <3>3
  <2> QED BY <2>1, <2>3 DEF StateInv
<1>8. CASE IntegrateEnds
  <2>1. /\ UNCHANGED <<vehicle, request, copy>> /\ written = Numbers /\ written' = {}
        /\ at["simulator"] = "integrate" /\ at' = [at EXCEPT !["simulator"] = "test"]
    BY <1>8 DEF IntegrateEnds, Go
  <2>2. \A f, g \in Numbers : vehicle'[f] = vehicle'[g]
    BY <2>1 DEF StateInv
  <2> QED BY <2>1, <2>2 DEF StateInv, TypeOK, Tasks
<1>9. CASE ServeNext
  <2>1. /\ UNCHANGED <<vehicle, written, copy>> /\ at["request"] = "inner"
        /\ \/ UNCHANGED <<at, request>>
           \/ at' = [at EXCEPT !["request"] = "lock"]
           \/ at' = [at EXCEPT !["request"] = "copy"] /\ request'.kind = "CMD"
    BY <1>9 DEF ServeNext, Locked, Go
  <2> QED BY <2>1 DEF StateInv, TypeOK, Tasks
<1>a. CASE LockVehicle
  <2>1. /\ UNCHANGED stateVars /\ at' = [at EXCEPT !["request"] = "locked"]
        /\ at["request"] = "lock" /\ at["simulator"] # "integrate"
    BY <1>a DEF LockVehicle, Go, MutexFree
  <2>2. ReadSoFar'
    BY <2>1 DEF StateInv, ReadSoFar, NothingRead
  <2> QED BY <2>1, <2>2 DEF StateInv, TypeOK, Tasks
<1>b. CASE ReadNumber
  <2>1. /\ UNCHANGED <<at, vehicle, written, request>> /\ at["request"] \in {"locked", "copy"}
        /\ \E f \in Numbers : copy' = [copy EXCEPT ![f] = vehicle[f]]
    BY <1>b DEF ReadNumber
  <2>2. ReadSoFar => ReadSoFar'
    BY <2>1 DEF ReadSoFar, TypeOK, PartOfState
  <2> QED BY <2>1, <2>2 DEF StateInv
<1>c. CASE Serve
  <2>1. /\ UNCHANGED <<vehicle, written>> /\ copy' = NothingRead /\ request' = NoCmd
        /\ at' = [at EXCEPT !["request"] = "inner"]
    BY <1>c DEF Serve, Go
  <2>2. NothingRead' = NothingRead
    BY DEF NothingRead
  <2> QED BY <2>1, <2>2 DEF StateInv, TypeOK, Tasks
<1>d. CASE ServedAll
  <2>1. UNCHANGED stateVars /\ at["request"] = "inner"
        /\ at' = [at EXCEPT !["request"] = "test"]
    BY <1>d DEF ServedAll, Go
  <2> QED BY <2>1 DEF StateInv, TypeOK, Tasks
<1> QED
  BY <1>1, <1>2, <1>3, <1>4, <1>5, <1>6, <1>7, <1>8, <1>9, <1>a, <1>b, <1>c, <1>d
  DEF Next, Server, Simulator, Request, Client, Tasks

LEMMA Invariance == Spec => [](TypeOK /\ ThreadInv /\ StopInv /\ OrderInv /\ StateInv)
<1>1. TypeOK /\ ThreadInv /\ StopInv /\ OrderInv /\ StateInv /\ [Next]_vars
          => (TypeOK /\ ThreadInv /\ StopInv /\ OrderInv /\ StateInv)'
  BY NextTypes, NextThreadInv, NextStopInv, NextOrderInv, NextStateInv
<1> QED BY <1>1, InitInv, PTL DEF Spec

-----------------------------------------------------------------------------
\* When main ends no thread is in a task, and the server, which owns the other
\* tasks, is done only when all of them have been told: for any input.
THEOREM ServerEndsLast == Spec => []Inv
<1>1. TypeOK /\ ThreadInv /\ StopInv => Inv
  BY DEF ThreadInv, StopInv, Inv, NothingLeftRunning, ServerIsLast, AllStopped, Outside, Tasks
<1> QED BY <1>1, Invariance, PTL

\* However the four threads interleave, the vehicle never gets a command that
\* was entered before the one it has.
THEOREM CommandsInOrder == Spec => NeverAnOlderCommand
<1>1. TypeOK /\ OrderInv /\ [Next]_vars => [cmd'.n >= cmd.n]_cmd
  <2> SUFFICES ASSUME TypeOK, OrderInv, [Next]_vars, cmd' # cmd PROVE cmd'.n >= cmd.n
    OBVIOUS
  <2>1. SetCmd
    BY DEF Next, Server, Simulator, Request, Client, Thread, AddServer, Close, ThreadStops,
           ThreadRuns, Test, Begin, PopCmd, TasksStopped, IntegrateBegins, WriteNumber,
           IntegrateEnds, ServeNext, LockVehicle, ReadNumber, Serve, ServedAll, ReadLine,
           DrainResponses, vars, queues
  <2> QED BY <2>1, LinesAssumption DEF SetCmd, OrderInv, TypeOK, Line
<1> QED BY <1>1, Invariance, PTL DEF Spec, NeverAnOlderCommand

\* The numbers read under the mutex are the vehicle's, and those are of one
\* integration while none is under way.
LEMMA CopyIsWhole == ASSUME StateInv, Serve, request.kind = "PRINT" PROVE Whole(copy)
<1>1. at["request"] = "locked" /\ \A f \in Numbers : copy[f] # NotRead
  BY DEF Serve, StateInv
<1>2. written = {} /\ ReadSoFar
  BY <1>1 DEF StateInv
<1>3. \A f \in Numbers : copy[f] = vehicle[f]
  BY <1>1, <1>2 DEF ReadSoFar
<1>4. \A f, g \in Numbers : vehicle[f] = vehicle[g]
  BY <1>2 DEF StateInv
<1> QED BY <1>3, <1>4 DEF Whole

LEMMA NextWhole == ASSUME TypeOK, StateInv, PrintedStateIsWhole, [Next]_vars
                   PROVE  PrintedStateIsWhole'
<1>1. CASE UNCHANGED responses
  BY <1>1 DEF PrintedStateIsWhole, Whole
<1>2. CASE Serve /\ responses' # responses
  <2>1. /\ responses' = Append(responses, copy) /\ responses \in Seq(State)
        /\ request.kind = "PRINT"
    BY <1>2 DEF Serve, TypeOK
  <2>2. /\ DOMAIN responses' = 1 .. Len(responses) + 1 /\ Len(responses) \in Nat
        /\ responses'[Len(responses) + 1] = copy
        /\ \A i \in 1 .. Len(responses) : responses'[i] = responses[i]
        /\ DOMAIN responses = 1 .. Len(responses)
    BY <2>1
  <2>3. Whole(copy)
    BY <1>2, <2>1, CopyIsWhole
  <2>4. ASSUME NEW m \in DOMAIN responses' PROVE Whole(responses'[m])
    <3>1. m \in DOMAIN responses \/ m = Len(responses) + 1
      BY <2>2
    <3> QED BY <2>2, <2>3, <3>1 DEF PrintedStateIsWhole
  <2> QED BY <2>4 DEF PrintedStateIsWhole, Whole
<1>3. CASE DrainResponses /\ responses' # responses
  <2>1. /\ responses' = Tail(responses) /\ responses \in Seq(State)
        /\ responses # <<>>
    BY <1>3 DEF DrainResponses, TypeOK
  <2>2. /\ DOMAIN responses' = 1 .. Len(responses) - 1 /\ Len(responses) \in Nat
        /\ DOMAIN responses = 1 .. Len(responses)
        /\ \A i \in 1 .. Len(responses) - 1 : responses'[i] = responses[i + 1]
    BY <2>1
  <2>3. \A i \in 1 .. Len(responses) - 1 : i + 1 \in 1 .. Len(responses)
    BY <2>2
  <2>4. \A m \in DOMAIN responses' : Whole(responses'[m])
    BY <2>2, <2>3 DEF PrintedStateIsWhole
  <2> QED BY <2>4 DEF PrintedStateIsWhole, Whole
<1>4. responses' = responses \/ Serve \/ DrainResponses
  BY DEF Next, Server, Simulator, Request, Client, Thread, AddServer, Close, ThreadStops,
         ThreadRuns, Test, Begin, PopCmd, SetCmd, TasksStopped, IntegrateBegins, WriteNumber,
         IntegrateEnds, ServeNext, LockVehicle, ReadNumber, ServedAll, ReadLine, vars, queues
<1> QED BY <1>1, <1>2, <1>3, <1>4

\* However integrations and prints interleave, number by number, all numbers of
\* a printed state are of the same integration.
THEOREM StateIsPrintedWhole == Spec => []PrintedStateIsWhole
<1>1. Init => PrintedStateIsWhole
  BY DEF Init, PrintedStateIsWhole
<1>2. TypeOK /\ StateInv /\ PrintedStateIsWhole /\ [Next]_vars => PrintedStateIsWhole'
  BY NextWhole
<1> QED BY <1>1, <1>2, Invariance, PTL DEF Spec
=============================================================================

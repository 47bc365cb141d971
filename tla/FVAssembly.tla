----------------------------- MODULE FVAssembly -----------------------------
(***************************************************************************)
(* A Laplace system over a mesh (kernel/numerics/pdes/ScalarFVSystem with  *)
(* FVLaplaceAssemblyPolicyThreaded): the mesh is built as in QuadMesh,     *)
(* linear_mesh_partition gives every element a task, FVDoFManager gives it *)
(* a row, and the tasks fill the rows of the matrix and of the right hand  *)
(* side in parallel, on an executor that keeps the promise of ForkJoin.    *)
(*                                                                         *)
(* The flux of a face is a number that no other face has.  The boundary    *)
(* function is the set of boundaries with a Dirichlet condition, with the  *)
(* value one as the right hand side has it; the others bring nothing.      *)
(***************************************************************************)
EXTENDS QuadMesh, Integers, FiniteSetsExt

CONSTANTS MaxThreads,       \* bound: the largest number of processing elements
          BCs,              \* the boundary functions of the client
          MaxAssemblies     \* bound: how often the system is assembled

ASSUME ThreadsAssumption == MaxThreads \in Nat \ {0} /\ MaxAssemblies \in Nat
ASSUME BCsAssumption == BCs \subseteq SUBSET (0 .. 3) /\ BCs # {}

VARIABLES
    threads,        \* n_processing_elements() of the executor
    call,           \* where the client is: "idle" or "assembling"
    pid,            \* element -> the task that it belongs to
    inserted,       \* the elements that have a DoF object for the variable
    dof,            \* element -> id of its DoF
    n_dofs,
    bc,             \* boundary_func_ of the policy
    captured,       \* boundary_func_ of the tasks, Null before there are any
    state,          \* task -> TaskBase::state_
    waitingFor,     \* the tasks that executor_->execute waits for
    at,             \* task -> the element its iterator has come to
    matrix, rhs,
    filled,         \* fill_completed() has been called
    assemblies      \* history: calls of assemble_system

client == <<call, pid, inserted, dof, n_dofs, bc, captured, filled, assemblies>>
vars == <<mesh, threads, client, state, waitingFor, at, matrix, rhs>>

Tasks == 0 .. MaxThreads - 1
tasks_ == 0 .. threads - 1
Executor == INSTANCE ForkJoin WITH EndStates <- {"FINISHED", "INTERRUPTED"},
                                   Pending <- "PENDING", Started <- "STARTED"

Zero == [r \in Elements |-> [c \in Elements |-> 0]]

FVInit == /\ Init
          /\ threads \in 1 .. MaxThreads
          /\ call = "idle"
          /\ pid = [e \in Elements |-> 0]
          /\ inserted = {} /\ dof = [e \in Elements |-> Null] /\ n_dofs = 0
          /\ bc \in BCs /\ captured = Null
          /\ Executor!Init
          /\ at = [t \in Tasks |-> 0]
          /\ matrix = Zero /\ rhs = [r \in Elements |-> 0]
          /\ filled = FALSE /\ assemblies = 0

BuildMesh == Build /\ UNCHANGED <<threads, client, state, waitingFor, at, matrix, rhs>>

-----------------------------------------------------------------------------
Ready == pc = "built" /\ call = "idle"

\* Mutant: the last part gets no more than the others.
LoadOnly(parts) ==
    LET load == Cardinality(Elements) \div parts
    IN [e \in Elements |-> IF load = 0 THEN 0 ELSE e \div load]

\* After every load elements comes the next part, and the last one takes what
\* is left; a load of zero is never reached.
linear_mesh_partition(parts) ==
    LET load == Cardinality(Elements) \div parts
    IN [e \in Elements |-> IF load = 0 THEN 0
                           ELSE IF e \div load < parts THEN e \div load ELSE parts - 1]

Partition == /\ Ready
             /\ pid' = linear_mesh_partition(threads)
             /\ UNCHANGED <<mesh, threads, call, inserted, dof, n_dofs, bc, captured, filled,
                            assemblies, state, waitingFor, at, matrix, rhs>>

\* insert_dof throws if the element has the variable already.
has_variable == inserted # {}

invalidate_dofs == dof' = [e \in Elements |-> Null] /\ n_dofs' = 0

do_distribute_dofs == /\ dof' = [e \in Elements |-> e]
                      /\ n_dofs' = Cardinality(Elements)

\* The second time insert_dof throws at the first element, with the ids of
\* all of them made invalid; otherwise the linear algebra objects follow.
DistributeDofs ==
    /\ Ready
    /\ IF has_variable THEN invalidate_dofs /\ UNCHANGED inserted
       ELSE do_distribute_dofs /\ inserted' = Elements
    /\ UNCHANGED <<mesh, threads, call, pid, bc, captured, filled, assemblies, state, waitingFor,
                   at, matrix, rhs>>

SetBoundaryFunction(b) ==
    /\ Ready
    /\ bc' = b
    /\ UNCHANGED <<mesh, threads, call, pid, inserted, dof, n_dofs, captured, filled, assemblies,
                   state, waitingFor, at, matrix, rhs>>

\* The first call creates the tasks, the later ones reschedule them; without
\* distributed dofs there is no matrix and zero() throws.
Assemble == /\ Ready /\ inserted # {} /\ assemblies < MaxAssemblies
            /\ call' = "assembling"
            /\ matrix' = Zero /\ rhs' = [r \in Elements |-> 0]
            /\ captured' = IF captured = Null THEN bc ELSE captured
            /\ state' = [t \in Tasks |-> IF t \in tasks_ THEN "PENDING" ELSE state[t]]
            /\ waitingFor' = tasks_
            /\ assemblies' = assemblies + 1
            /\ UNCHANGED <<mesh, threads, pid, inserted, dof, n_dofs, bc, filled, at>>

\* Mutant: execute() does not wait.
ReturnAtOnce == /\ call = "assembling"
                /\ call' = "idle" /\ filled' = TRUE /\ waitingFor' = {}
                /\ UNCHANGED <<mesh, threads, pid, inserted, dof, n_dofs, bc, captured, assemblies,
                               at, state, matrix, rhs>>

\* execute() has come back, and fill_completed follows.
Return == /\ call = "assembling"
          /\ Executor!Return
          /\ call' = "idle"
          /\ filled' = TRUE
          /\ UNCHANGED <<mesh, threads, pid, inserted, dof, n_dofs, bc, captured, assemblies, at,
                         matrix, rhs>>

-----------------------------------------------------------------------------
Flux(k) == k + 1        \* face.volume() / face.owner_neighbor_distance()

BoundarySides(e) == {s \in Sides : faces[face[e][s]].boundary # Null}
Inner(e) == Sides \ BoundarySides(e)
NeighborSides(e) == {s \in Sides : neighbor[e][s] # Null}
Rank(S, s) == Cardinality({r \in S : r < s})

\* row_entries and row_dofs: the fluxes of the inner faces in their order, and
\* the dofs of the neighbors in theirs, with dummy_idx to go with both.
Entry(e, s) ==
    LET q == CHOOSE q \in Inner(e) : Rank(Inner(e), q) = Rank(NeighborSides(e), s)
    IN -Flux(face[e][q])

FluxOf(e, sides) == MapThenSumSet(LAMBDA s : Flux(face[e][s]), sides)

\* Mutant: the flux of every boundary face goes to the diagonal.
AllSides(e) == BoundarySides(e)

\* apply_boundary_conditions.
DirichletSides(e) == {s \in BoundarySides(e) : faces[face[e][s]].boundary \in captured}

\* add_entry: a filled matrix shows no global indices and takes no insertion,
\* and that the insertion fails goes unseen.
Added(e) == IF filled THEN 0 ELSE FluxOf(e, DirichletSides(e))

\* set_entry replaces in a filled matrix, and inserts (adds) before that.
set_entry(i, j, x) == IF filled THEN x ELSE matrix[i][j] + x

Row(e) == [c \in Elements |->
              LET sides == {s \in NeighborSides(e) : dof[neighbor[e][s]] = c}
              IN IF c = dof[e] THEN set_entry(c, c, FluxOf(e, Inner(e)) + Added(e))
                 ELSE IF sides = {} THEN matrix[dof[e]][c]
                 ELSE set_entry(dof[e], c, Entry(e, CHOOSE s \in sides : TRUE))]

\* initialize_dofs: "Invalid DoF index" of the cell or of a neighbor.
HasDofs(e) == /\ dof[e] # Null
              /\ \A s \in NeighborSides(e) : dof[neighbor[e][s]] # Null

\* The elements of a task that are still before its iterator.
Left(t) == {e \in Elements : pid[e] = t /\ e >= at[t]}

Begin(t) == /\ call = "assembling" /\ t \in tasks_
            /\ Executor!Begin(t)
            /\ at' = [at EXCEPT ![t] = 0]
            /\ UNCHANGED <<mesh, threads, client, matrix, rhs>>

add(i, x) == [rhs EXCEPT ![i] = @ + x]

AssembleElement(t) ==
    /\ state[t] = "STARTED" /\ Left(t) # {}
    /\ LET e == Least(Left(t))
       IN /\ HasDofs(e)
          /\ matrix' = [matrix EXCEPT ![dof[e]] = Row(e)]
          /\ rhs' = add(dof[e], 1 + FluxOf(e, DirichletSides(e)))
          /\ at' = [at EXCEPT ![t] = e + 1]
    /\ UNCHANGED <<mesh, threads, client, state, waitingFor>>

\* Mutant: a task that has thrown does not end.
EndsWithoutCatch(t) == /\ state[t] = "STARTED" /\ Left(t) = {}
                       /\ state' = [state EXCEPT ![t] = "FINISHED"]
                       /\ UNCHANGED <<mesh, threads, client, waitingFor, at, matrix, rhs>>

\* SimpleTaskBase::operator() takes every exception for an interruption.
Ends(t) == /\ state[t] = "STARTED"
           /\ ~(Left(t) # {} /\ HasDofs(Least(Left(t))))
           /\ state' = [state EXCEPT ![t] = IF Left(t) = {} THEN "FINISHED" ELSE "INTERRUPTED"]
           /\ UNCHANGED <<mesh, threads, client, waitingFor, at, matrix, rhs>>

Task(t) == Begin(t) \/ AssembleElement(t) \/ Ends(t)

FVNext == \/ BuildMesh \/ Partition \/ DistributeDofs \/ Assemble \/ Return
          \/ \E b \in BCs : SetBoundaryFunction(b)
          \/ \E t \in Tasks : Task(t)

\* The client may stop calling; what it has started goes on.
FVSpec == /\ FVInit /\ [][FVNext]_vars
          /\ WF_vars(Return) /\ \A t \in Tasks : WF_vars(Task(t))

-----------------------------------------------------------------------------
FVTypeOK == /\ call \in {"idle", "assembling"}
            /\ pid \in [Elements -> tasks_] /\ at \in [Tasks -> 0 .. Cardinality(Elements)]
            /\ dof \in [Elements -> Ids(Elements)] /\ n_dofs \in {0, Cardinality(Elements)}
            /\ captured \in BCs \union {Null}
            /\ matrix \in [Elements -> [Elements -> Int]] /\ rhs \in [Elements -> Nat]

\* Nobody writes into the matrix when assemble() has returned.
QuietWhenIdle == call = "idle" => \A t \in Tasks : state[t] # "STARTED"

FVInv == Inv /\ FVTypeOK /\ QuietWhenIdle

\* The matrix of a mesh, face by face: an inner face couples the elements on
\* its two sides, and a face of a Dirichlet boundary is on the diagonal only.
Total(K) == MapThenSumSet(Flux, K)
Inside(k) == faces[k].neighbor # Null
Of(k) == {faces[k].owner, faces[k].neighbor} \ {Null}
Laplace(b) ==
    [r \in Elements |-> [c \in Elements |->
        IF r = c THEN Total({k \in DOMAIN faces : r \in Of(k) /\ (Inside(k) \/ faces[k].boundary \in b)})
                 ELSE -Total({k \in DOMAIN faces : Of(k) = {r, c}})]]
Load(b) ==
    [r \in Elements |-> 1 + Total({k \in DOMAIN faces : Of(k) = {r} /\ faces[k].boundary \in b})]

\* What the tasks leave behind, however they have run beside each other, is the
\* system of the mesh, or nothing where the dofs are invalid; it is never part
\* of it, although execute() tells nobody of a task that was interrupted.  The
\* later assemblies leave the boundary out of the matrix, but never anything else.
WholeOrNothing ==
    call = "idle" /\ filled =>
        IF \E t \in tasks_ : state[t] = "INTERRUPTED"
        THEN matrix = Zero /\ \A r \in Elements : rhs[r] = 0
        ELSE /\ matrix = Laplace(IF assemblies = 1 THEN captured ELSE {})
             /\ rhs = Load(captured)

\* Every element has a task that will come to it, and no task has nothing to
\* do when there are elements enough.
LoadsAreShared ==
    [][Partition => /\ \A e \in Elements : pid'[e] \in tasks_
                    /\ threads <= Cardinality(Elements) =>
                         \A t \in tasks_ : \E e \in Elements : pid'[e] = t]_vars

\* assemble() returns even if tasks are interrupted.
AssembleReturns == call = "assembling" ~> call = "idle"
=============================================================================

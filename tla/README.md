# Models and proofs of qubic_engine

qubic_engine is a C++ library: `kernel` (base types, threading, meshes,
numerics, dynamics) and `cubic_engine` on top of it (machine and reinforcement
learning, estimation, control, planning), with applications that put the parts
together.  Much of it is sequential real arithmetic.  This directory models the
parts with control worth a model: the threading core, two threaded
applications, path planning, the threaded assembly of a finite-volume system,
dynamic programming and k-means.  TLC checks small instances of every module,
and TLAPS proves safety properties of every one of them for every value of the
constants.

Below, `P/` is `src/kernel/kernel/parallel/src/kernel/parallel/`.

## 1. Inventory

| Component | State | Operations | Uses |
|---|---|---|---|
| `LockableQueue`, `TaskQueue` (`P/data_structs`) | a `std::queue`, a mutex, a condition variable | `push_item`, `push_items`, `pop`, `pop_wait` | - |
| `TaskBase`, `SimpleTaskBase`, `StoppableTask` (`P/threading`) | `state_`, result, a copy of a stop condition | `operator()`, `set_state`, `reschedule` | `ResultHolder` |
| `kernel_thread`, `ThreadPool` | a `TaskQueue`, `stop_`, a `std::thread` for each of `pool_`; `next_thread_available_` | `start`, `add_task`, `add_tasks`, `execute`, `close`; `do_work_` | queue, tasks |
| `RWLock` | `num_reads_`, `num_writes_`, a mutex, a condition variable | `read_lock`, `read_unlock`, `write_lock` | - |
| `DotProduct`, `MatVecProduct`, `VectorUpdater` | `tasks_`, `result_`, operands | `execute`, `reexecute`, `set_vectors`, `get_or_wait` | an executor |
| `IterativeAlgorithmController` | iteration index, residual, limits | `continue_iterations`, `update_residual`, `reset` | - |
| Observers (`kernel/patterns`) | a resource, a flag, a mutex | `update`, `read` | - |
| `build_quad_mesh`, dof manager | nodes, elements, faces; degrees of freedom | one turn per element and side; `distribute_dofs` | - |
| `ScalarFVSystem`, threaded Laplace assembly | tasks, matrix, vector, boundary function | `distribute_dofs`, `set_boundary_function`, `assemble_system` | partitioner, mesh, executor, Trilinos |
| Graph, priority queue, A*, tree, `WaypointPath` | costs kept in the vertices, open and explored sets, way points | `RRT::build`, `astar_search`, `reconstruct_a_star_path`, `build` | each other |
| `exe19`: path following | three observers, flags, a message mutex | main thread, path constructor, path follower | planning, pool |
| `example_17`: vehicle server | three queues, the vehicle with its mutex, four stop conditions | server, simulator, request, client, main | pool |
| Dynamic programming (`rl/algorithms/dp`) | value tables, one policy object that several classes share | `train` | controller |
| `KMeans`, `BisectionKMeans` | clusters, control | `cluster` | controller |
| Partitioners, `parallel_for`, `OMPExecutor`, k-nearest neighbours, optimizers, solvers, filters, controllers, torch wrappers, gym communication | see section 7 | | |

`PROJECT.json` lists every component with what of it is modelled, and under
`hazards` each place where the code is hard to test.

How they interact.  The owner of a `ThreadPool` (one thread: the pool has no
lock of its own) pushes tasks into the `TaskQueue` of one `kernel_thread` after
the other; each thread loops in `do_work_`.  `execute()` spins until every
`state_` shows an end.  The parallel algorithms and the assembly create or
reschedule one task per thread, call `execute()` and use what the tasks have
written.  The applications leave tasks in a pool that run until their copy of a
stop condition says otherwise, and that talk through locked queues
(`example_17`) or observers (`exe19`).  Planning, dynamic programming and
k-means are single threads, whose difficulty is in the state that one call
leaves for the next: costs in a map, null pointers in a path, values in a
table, an index in a controller.

What is hard, and what makes each part correct:

* *Queues.*  A notification can be lost, or two threads be after one element.
  Elements leave once, in order; nobody sleeps for long beside one.
* *Pool and tasks.*  Owner and workers interleave at every access of a flag.
  A task runs once per submission; `execute()` returns after all its tasks;
  a task that has ended is in nobody's hands; after `close()` nothing runs.
* *Read-write lock.*  Exact counts; readers do not join a writer.
* *Parallel algorithms.*  A valid result is complete and of one call, whichever
  tasks fail and however often the object is used.
* *Applications.*  Nobody sleeps through what he waits for; the program ends
  when it should, and only then; `close()` finds no task that waits for it.
* *Planning.*  Costs agree with links whatever earlier searches left; a failed
  search means there is no way; links have no cycle.
* *Assembly.*  However the tasks run beside each other, the system is that of
  the mesh or nothing.
* *Learning.*  What is called converged is a solution, in the first and in
  later calls.

## 2. Modules

| Module | Content |
|---|---|
| `BlockingQueueSpec` | abstract: a FIFO channel |
| `LockableQueue` | the locked queue with its sleepers; implements `BlockingQueueSpec` |
| `ForkJoin` | abstract: what an executor promises |
| `ThreadPool` | owner, workers and tasks; implements `ForkJoin` |
| `RWLock` | the read-write lock |
| `TaskAlgorithm` | the linear-algebra objects over an executor |
| `Planning` | mesh map or random tree, A*, way points |
| `PathFollowing` | the application `exe19` |
| `VehicleServer` | the application `example_17` |
| `QuadMesh`, `FVAssembly` | the mesh; the threaded assembly over it, on a `ForkJoin` executor |
| `DynamicProgramming` | evaluation, improvement, policy and value iteration |
| `KMeans` | `KMeans` and `BisectionKMeans` |
| `MC...` | the values TLC gives the constants |
| `...Proofs` | theorems and proofs |

How they compose: `ThreadPool` uses the queue that `LockableQueue` justifies,
and its run and proof show that it implements `ForkJoin`.  `FVAssembly` takes
that `ForkJoin` as its executor by INSTANCE; `TaskAlgorithm` assumes no more
than the same promise (plus, for liveness, `CallsReturn` of the pool).
`FVAssembly` extends `QuadMesh`.  `PathFollowing` takes from `Planning` the
three ways in which building a path may end.

**LockableQueue.**  A locked section is one action, because the mutex makes it
one: `PushItem`, `PushItems`, `Pop`, and `PopWait`, which takes an element or
goes to sleep.  A sleeper that was notified must still get the mutex (`Wake`)
and tests the predicate again; before that anybody may take the element.
`SpuriousWakeup` is what the standard allows.  Any thread may push at any time.
`unannounced` counts the elements of ranges beyond each first one, because
`push_items` notifies once for a range; wake-ups are promised up to that count.

**ThreadPool.**  One action for every access to something shared: for a worker
`TestStop`, `PopTask`, `CheckState`, `BeginRun`, `EndRun`, `LogFinished`; for
the owner one per call that begins and one per turn of its loop.  `stop_` and
`state_` are neither atomic nor locked; the model reads and writes them in one
step each, in program order.  The loops that poll them take a mutex or yield at
every turn, so that a build does not hoist the load.  `ByCount` (which
constructor), `UseLog`, and `Disciplined` (the owner submits a task only if it
is pending and not handed over) are switches.  Every client in the repository
is disciplined.  `ThreadPool(n)` stores `n` in `n_threads_`, but `start()` reads
`options_.n_threads`, which stays 1; `ByCount` keeps that.

**RWLock.**  `ReadLock`, `ReadUnlock`, `WriteLock` are the three functions;
there is no `write_unlock`, so a writer never leaves.

**TaskAlgorithm.**  The three classes are one program up to where a task puts
its sum, so `algo` is chosen initially.  Values are abstracted to their origin:
the result of a partition is the set of pairs (call, operands) it contains, and
a correct one holds one pair per partition.  This tells complete from stale and
from counted twice without arithmetic.  `rerun` says whether a task was run a
second time, which only a `VectorUpdater` survives.

**Planning.**  `Grow` is an iteration of `RRT::build` with any random state;
`AskTree` and `AskMap` are the queries of `exe29` and `exe19`; `Expand` is an
iteration of the A* loop, `Finish` its end, `Follow` a turn of the
reconstruction, `Build` the way-point builder.  The open queue holds copies of
vertices, as in the code; costs stay in the map between queries; distances are
whole numbers.  The start is a node of its own in `exe19` and the map's vertex
in `exe29`, which `SearchFrom`, `AskTree` and `AskMap` keep apart.

**PathFollowing.**  One action for each locked section and for each access made
outside one.  A state is its two coordinates.  `StateObserver::update` writes
them one at a time under its mutex (`Writes`); `StateObserver::read` waits under
that mutex (`ReadsNews`), then copies them one at a time and clears the flag
without it (`CopiesNews`), so a copy may be of two estimates.  `msgMutex` is
held over the sleep of the estimator and over the question to the user, as in
the code.

**VehicleServer.**  Four tasks on the four threads of a pool that `main` closes
at once.  A line is its number and its kind.  The state of the vehicle is a few
numbers.  An integration writes them one at a time under the vehicle's mutex
(`IntegrateBegins`, `WriteNumber`, `IntegrateEnds`); the request task reads them
one at a time (`ReadNumber`), for a PRINT under the mutex (`LockVehicle`) and for
a command without it.  The vehicle's class
(`kernel/vehicles/differential_drive_vehicle.h`) is not in the repository, so the
order of writes and reads is free.  The stop conditions are copies, one per task.

**QuadMesh, FVAssembly.**  One step per element and side, in the order of the
loops; coordinates are counted in steps, and whether the last one equals the
coordinate of the upper point (`n * (w / n)` is rounded) is a choice.  A task
assembles an element per step.  The flux of a face is a number no other face
has, so that a wrong, missing or doubled one shows.  `dof`, `filled` and
`captured` keep what the first assembly leaves for the second.

**DynamicProgramming.**  `Train` begins a training; a turn of each algorithm is
an action; `Evaluate` is a sweep of the evaluation inside a policy iteration.
Values are integers, `Unit` of them the reward one, and quotients are rounded
down; `Exact`, part of the invariant `Solved`, says that in the run no division
leaves a remainder, so that comparisons there are exact.  `gamma_` is a fraction
(`Gammas`), of which `Discounts` gives each algorithm some.  An action has one
outcome.  A pass over the states is the function `Tables`, from how many states
are done to the values so far.

**KMeans.**  `Improve`, `Restart`, `Break`, `Continue` are what a turn of the
loop does, by whether a cluster is empty and what the configuration says.
`Select` and `Split` are the loop of the bisection, with a KMeans of its own.
Points are row numbers, as in the code, so that rows of a subset can be told
from rows of the data set.  Rows are integers in so small a unit that their
means are integers too (`ExactAssumption`).  Loops are functions of how far they
have come (`Total`, `Among`), which the proofs can take apart.

## 3. Runs

| Run | What it asks | Bounds |
|---|---|---|
| `queue` | elements leave in order; wake-ups are not lost; without ranges no sleeper stays beside elements; the queue is a FIFO | 3 consumers, 4 elements, ranges of up to 2 |
| `pool` | no stranded task, ended tasks let go, `ForkJoin` implemented; `execute()` and `close()` return, queued tasks run | 2 workers, 2 tasks, 1 start, vectors of up to 2 with null entries |
| `pool_careless` | one worker protects even a careless owner from a double run; a pool started again still closes to quiet | `ThreadPool(2)`, so 1 worker per start; 2 starts, 2 queued, with logging |
| `rwlock` | exact counts; no reader joins a writer; readers sleep only behind a writer | 4 threads |
| `task_algorithm` | any calls on any of the classes, failing tasks, a watching thread: the flag tells the truth, a valid result is complete, calls return | 2 tasks, 2 operands, 3 calls |
| `planning` | costs add up along links; a path is a walk; a first search fails only when cut off; segments join way points; queries are answered | 6 cells, a position between and one outside, 5 maps, trees of up to 4 vertices, 2 queries |
| `path_following` | no path is missed; the end comes after the goal; the numbers that count as the goal were estimated, in one estimate unless another was published during the copy; the goal is announced; `close()` returns | 2 goals, 4 positions of which 1 is near, every outcome of planning |
| `vehicle_server` | nothing runs when main ends; the server is last; no older command; no printed state is mixed of two integrations; EXIT ends the program | 3 lines of 5 kinds, a state of 2 numbers |
| `fv_assembly` | the mesh's neighbours and faces agree; numbers tell sides; the assembled system is whole or nothing; every task has a part; `assemble` returns | up to 3 by 3 elements, 1 or 2 tasks, 2 boundary functions, 2 assemblies |
| `dynamic_programming` | converged means that the equations hold and that the problem is solved; no value falls | every world of 2 states and a terminal one, 2 actions, rewards 0 and 1; discounts 1 and 1/2 for value iteration and its older form, 1 where means are taken too; 4 iterations, 3 evaluation steps, 2 trainings |
| `kmeans` | clusters partition the rows; converged is a fixed point; the cost falls; `cluster()` returns | every data set of 4 rows over 3 values, up to 3 clusters, 4 iterations, 2 calls |
| `bisection_points` (violation) | the points of the bisected clusters are rows of the data set | as `kmeans`, 1 call |

Why the bounds are enough.  Two sleepers and a range of two make a lost wake-up;
three consumers let one be passed over twice.  Two workers give every race of
two threads for one task, two tasks every order of submission, and a null in a
vector of two is before or after a task.  One start is all a pool supports, and
two let the old threads be seen again.  Four threads give two readers beside two
that write.  Three calls allow a complete one, an interrupted one and a repair.
Six cells have detours, dead ends, ties and a short cut through a blocked cell,
and the second query meets every cost that the first can leave.  Two goals show
what `goal_reached`, never reset, does to the second, and one near position
among four lies between two far ones, so that a copy of both may be near.  Two
numbers of a vehicle are enough: a mix shows in two that differ.  Three lines
are two commands that could overtake each other and an EXIT before, between or
after them.  A mesh of three by three has an element without a boundary, and two
assemblies meet the filled matrix.  Two states before the terminal one let
values travel, cycle and wait for a third sweep; four iterations reach
convergence in every such world and cut others short.  Four rows over three
values have duplicates, empty clusters, and a half that is split again.  All
bounds are constants (`MaxItems`, `MaxStarts`, `MaxBatch`, `MaxQueued`,
`MaxCalls`, `MaxQueries`, `NItrs`, `MaxRounds`, `MaxLines`, `MaxNx`, `MaxNy`,
`MaxThreads`, `MaxAssemblies`, `MaxItrs`, `MaxEval`, `MaxTrains`, `MaxK`); the
proofs hold for every value of theirs.  A policy iteration with a discount below
one is left to the proofs: the mean over actions leaves remainders there, and
what TLC compares would not be exact.

`CHECK_DEADLOCK FALSE` where the system may rightly stop; each configuration
says why.

Fairness.  A running `std::thread` is scheduled, hence weak fairness of each
worker, task and main thread inside a call.  Strong fairness is assumed only
where a mutex is free again and again and a thread waits for it: the messages of
`exe19` (`TakeMessages`, `Goodbye`, `Leaves`), its state observer (`ReadsNews`),
and the vehicle in `example_17` (`SetCmd`, `LockVehicle`).  In `exe19` the
question is answered.  Nobody is obliged to make a call, enter a line, push or
submit.  The `run()` of a task in the pool is assumed to end; the applications,
whose tasks need not, have models of their own.

Every property of a passing run has a mutant: a plausible bug in a mapped
definition with which TLC finds the property violated in the same run.  It
stands beside the definition it changes, commented "Mutant".

## 4. Finding

`bisection_points`: `cluster.h:50-51` calls `points` the ids of the points
clustered in a cluster, but `sub_cluster_` (`bisection_k_means.h:287`) stores
the row numbers of the subset that the inner KMeans worked on.  From the third
cluster on, some rows are in two clusters and others in none.

## 5. Disagreements met

Where the code does something else than a comment or a name says, the models
follow the code, and the properties are stated so that they hold of it.

Threading:

* `lockable_queue.h:238`: `push_items` notifies one consumer for a whole range.
* `thread_pool.cpp:67`: a pool started after `close()` keeps its stopped threads
  in front, and an `execute()` waits for ever.
* `task_base.cpp:40`: with `USE_LOG` a task is read after its end is published.
* `read_write_lock.cpp:41`: a writer is let in beside another one, although the
  comment says that it waits "until the num_writes becomes zero".
* `dot_product.h:283`: the comment says that old tasks are deleted and new ones
  created; the null pointers stay in front and a second `execute()` fails.
* `dot_product.h:233`, `matrix_vector_product.h:256`: re-executed tasks add to
  their old sums; the conjugate gradient of `numerics/examples/example_2` does it.
* `dot_product.h:200`: the result is flagged valid before it is gathered, so
  `get_or_wait()` in another thread may deliver a part of it.

Planning and applications:

* `rapidly_exploring_random_tree.h:352`: the input of an edge is set on a copy.
* `a_star_search.h:146`: a second search meets the costs of the first and may
  fail although there is a way, hence `queries = 1` in `FailsOnlyWhenCutOff`.
* `exe19/exe.cpp:31`: the state is copied without the mutex, so it may have X of
  one estimate and Y of another, and be near the goal when both were far; the
  comment at `exe.cpp:399` says that "the goal has been reached".
  `ReachedIsEstimated` says what does hold.
* `exe19/exe.cpp:186`: `goal_reached` is not reset, so a second goal ends at once
  and its tasks wait for ever; `CloseReturns` is about the first.
* `example_17.cpp:135`: a command takes the state without the vehicle's mutex and
  may get numbers of two integrations.  It uses a single one of them, and only
  what a PRINT reads is promised to be whole.
* `example_17.cpp:535`: the comment says "this should block", but `close()` may
  stop the first thread before it has taken the server, and the program ends.
* A line `EXIT;` stops the request task and not the client; a command served in
  the same turn replaces the EXIT the simulator has not seen, and the program
  never ends; hence the premise of `ExitEndsProgram`.

Assembly:

* `fv_laplace_assemble_policy_threaded.cpp:43`: the tasks capture the boundary
  function of the first assembly; a later `set_boundary_function` is not seen.
* `trilinos_epetra_matrix.cpp:306`: on a filled matrix `add_entry` inserts instead
  of adding and the failure is not looked at, so later assemblies have no
  boundary in the matrix.
* `dof_object.cpp:21`: a second `distribute_dofs()` invalidates all ids and throws.
* The constructor of `ScalarSystemBase` is declared and not defined, so examples 9
  and 10 do not link; the model is of what the classes say.
* `quad_mesh_generation.cpp:338`: a right or upper side whose coordinate is not
  met exactly keeps the number 0 of the bottom (`NumbersTellSides`).

Learning:

* `dp_algo_base.h:130`: `resize(n, 0.0)` keeps the values of the last training.
* `synchronous_value_function_learning.h:195`: the controller is never reset.
* `policy_iteration.h:109`: the policy counts as converged when it is what it was,
  also if the evaluation before was cut short.
* `serial_kmeans.h:190`: a second `cluster()` makes no turn and reports the first
  convergence with empty clusters; `BisectionKMeans` then throws.
* `serial_kmeans.h:229`: with `continue_on_empty_cluster` the mean of an empty
  cluster is asked for, which throws.

## 6. Proofs

TLAPS proves, for every value of the constants within their named assumptions:

* `WaitingProofs`, of the queue: `QueueSafe` (`Inv`), from `TypeCorrect`,
  `OrderedDelivery`, `WakeupsNotLost`; and `RefinesFIFO`.  `OrderedDelivery`
  needs that elements are numbered as they were pushed and that each consumer
  has what it was delivered.  `WakeupsNotLost` counts: while somebody sleeps, at
  least as many threads are notified as elements are stored, less the
  unannounced; a push of k adds k on one side and 1 + (k - 1) on the other.
* `WaitingProofs`, of the lock: `LockSafe` (`RWInv`) and `ReadersOnlyLeave`
  (`NoReaderJoinsWriter`).  The counts are the cardinalities of the sets of
  threads inside, for any finite set of threads.
* `ThreadPoolProofs`: `PoolServes` (`Inv`), `CloseQuiesces`, `FinishedIsLetGo`,
  `TasksRunOnce`, `PoolRefinesForkJoin`, `OpenPoolServes`.  `PoolInv` ties the
  owner's loop index to the threads that exist; `TaskInv` says where a task can
  be (pending: in at most one queue position or hand; started: in one hand;
  ended: nowhere); `OpenInv` gives every open slot its worker.
* `TaskAlgorithmProofs`: `AnswersSafe` (`Safe`) and `ResultIsComplete`.
  `Shape` says what `tasks_` can look like, `FlagSoFar` is the loop invariant of
  the gathering loop, `Progress` says what every task has contributed.
  `KeepsResult` once lost is lost for ever, so a step need only keep
  completeness when it holds after the step.
* `PlanningProofs`, for any metric, maps, trees and number of queries:
  `CostsAlwaysAddUp` (`CostsAddUp`), `PlannedPathIsWalk` (`Inv`),
  `FirstSearchIsComplete` (`FailsOnlyWhenCutOff`) and `SegmentsStayJoined`
  (`SegmentsJoinWayPoints`).  Costs alone are not inductive: `Links` adds that
  the copies in the queue agree with the map and that a vertex a link comes from
  has been explored, so that its cost does not change again.  That the links end
  at the start rests on `NoCycle`, a numbering of the vertices that every step
  extends; that a first search misses nothing on `First`, with the bound on
  distances in `InfAssumption`: no cost that a search can add up reaches the
  "infinity" the vertices start with.
* `PathFollowingProofs`: `PathHandedOver` (`Inv`) and `GoalMet` (`GoalIsMet`), for
  any number of goals, any coordinates and any positions that are near.
  `RoundInv` bounds what is queued, `PathInv` says when there is a path.
  `GoalInv`: `goal_reached` is never reset, and once it is set a follower that
  begins again leaves its loop at once, so nothing is copied any more.
  `ObserverInv`: once its flag is set, the observer has numbers of estimates only,
  and one estimate whole while main is not writing.  `CopyInv`: so has a copy,
  unless main wrote meanwhile, which is what `overlapped` records.
* `VehicleServerProofs`: `ServerEndsLast` (`Inv`), `CommandsInOrder`
  (`NeverAnOlderCommand`) and `StateIsPrintedWhole` (`PrintedStateIsWhole`), for
  any lines and any numbers that make up a state.  `ThreadInv`: who has left
  `do_work_` is in no task; `StopInv`: no stop condition is taken back, so one
  look at all of them is enough; `OrderInv`: from the lines to the vehicle,
  numbers never fall, within a queue and from one to the next; `StateInv`:
  between integrations the numbers are of the same one, and what has been read
  for a PRINT is what the vehicle still has, because the mutex keeps the two
  apart.
* `FVAssemblyProofs`, for meshes of any size, any number of tasks and assemblies
  and any boundary functions: `FacesShared` (`FacesAreShared`), `NumbersTell`
  (`NumbersTellSides`), `AssemblyIsSafe` (`FVInv`), `LoadsGoRound`
  (`LoadsAreShared`) and `SystemIsWhole` (`WholeOrNothing`).
  - The mesh (`MeshInv`): an element is its column and its level, so which
    elements meet at a side, which corners they share and which sides are on the
    border is arithmetic of division.  Faces are told apart by the element and
    side that created them (`Creates`): the lower of the two elements of an inner
    side, or the only one of a border side.  `CountIsCreators` shows that what
    `CountFaces` reserves is their number, in step with `FacesMade` and `OneEach`
    while the faces are created.
  - Sums: `MapThenSumSet` is a recursive function over the subsets of a set.
    `SumIsCount` shows that the cardinality of the "tower" of the summands (pairs
    of a member and a number below its summand) solves its recursion; the rest
    (`FluxOfParts`, `TotalIsCount`, `DiagonalOfMesh`) are facts about finite sets.
  - The rows: `RowIsLaplace` says that what a task writes into a row that is zero
    is the row of `Laplace`.  `WholeOrNothing` speaks of the end only; `RowsInv`
    is what makes it inductive: during an assembly the rows that some task has
    come past are those of the mesh, and all others are zero.  A step of one task
    touches one row, so the interleaving does not matter; that an interrupted task
    means an empty system holds because dofs are valid for all elements or none.

* `KMeansProofs`, for any data, number of clusters, first centroids, limits and
  calls, of both classes: `PointsNeverLost` (`Inv`), `ConvergedStays`
  (`ConvergedIsStable`) and `TurnsLowerTheCost` (`CostFalls`), from `ClustersSafe`.
  - `KInv` has the phases of a call, the partition (`EachInOneCluster`), what a
    zero residual says (`SettledWhenStill`), and that a first bisection splits all
    the rows and goes on only while no cluster is empty (`FirstCall`).  `AssignedIs` is
    the heart of the first two: a turn puts every row where it is nearest, once.
  - The cost: an assignment is not dearer row by row.  As rows change clusters
    and places, sums are compared as cardinalities (`StacksSize`), and of two
    finite sets one of which contains the other.  `SquaresDiffer` and `MeanIsBest`
    show that the mean, being exact, has the least sum of squares and no other
    number has.
* `PlanningProofs`, of the learners, for any world whose actions have one outcome
  and whose rewards are natural numbers, any discount for each of the algorithms
  that is a fraction not above one, any tolerance and limits, with quotients
  rounded down: `PoliciesOnlyImprove` (`ValuesNeverFall`), `ConvergedSolvesEquations`
  (`ConvergedIsFixed`, a part of `Solved`) and `LearnersTyped`.
  - `Rising`: no value is above what the next turn computes for it.  One new
    value keeps that (`OneStateRises`), whatever states come next, because sums,
    means, maxima and rounded quotients grow with the values; an improvement
    keeps it because no policy brings more than the best action (`BestBeatsMean`,
    `ImprovedIs`).  Hence no value ever falls, although evaluations are cut short
    and trainings start from old values.  This needs that rewards are not
    negative, as `WorldsAssumption` says, and nothing of the discount but that it
    is not negative.
  - `Computed`: every new value was computed from values between the old and the
    new table.  If these differ by at most the tolerance, so do the new value
    and what the next turn would compute (`NewNear`, `ComputedSettles`).  That a
    discount is not above one (`DiscountsAssumption`) is used here.
    `SettledInv` is what a small residual says of each algorithm; in a policy
    iteration it says only that the policy stayed the same, and the residual of
    the evaluation is what says more.

Assumptions are named in the module that declares the constants: finite sets of
threads and tasks, bounds that are natural numbers, a symmetric metric with
distances far below its infinity, maps whose edges join two vertices, boundary
numbers from 0 to 3, a start that is not near the goal, rewards that are natural
numbers, discounts that are fractions not above one, a tolerance that is above
zero and below the residual of a fresh controller, data whose means are exact.

Only model-checked: everything under fairness (`SinglesWake`, `CallsReturn`,
`QueuedTasksRun`, `CallReturns`, `QueryAnswered`, `GoalIsAnnounced`,
`CloseReturns`, `ExitEndsProgram`, `AssembleReturns`, `ClusterReturns`), since
liveness and `ENABLED` are beyond the installed provers; `RunsOnce` for the
careless owner of one worker; and `Exact` and `ConvergedIsSolved` in `Solved` of
`DynamicProgramming`.  These two are true of the instance only: that quotients
leave no remainder depends on `Unit`, and that values which satisfy the
equations up to the tolerance are exactly those of the best plans of as many
moves as there are states depends on the worlds, the tolerance and the limits.
What holds of every
world is `ConvergedIsFixed`.

## 7. Not modelled

* Real arithmetic: distributions, filters, controllers, regressors, optimizers,
  solvers, dynamics, quadrature, torch tensors.  It has no control to model.
* Data-set loaders, writers, loggers, meshes from files: formatting and I/O.
* `partition_range`, `parallel_for`, `OMPExecutor`, `ThreadedKnn`: the same
  sequence of fresh or kept tasks as `TaskAlgorithm`; `parallel_reduce` has an
  empty body.
* The gym communication: nothing in the repository constructs a
  `Communicator`, so there is no order of requests to model, and a step request
  carries a field the server does not read.
* The temporal-difference learners do not compile (`td_algo_base.h:238`);
  Monte-Carlo control weighs sampled episodes, arithmetic whose class only a test
  constructs, and `deep_q_learning.h` is empty.
* `cput_c11_kmeans.h` includes headers that are not in the repository, and
  nothing includes it.
* `synchronous_value_function_learning.h:11`, the header of `SyncValueFuncItr`,
  includes `cubic_engine/rl/worlds/grid_world_action_space.h`, which is not in the
  repository, so that the class does not compile as it is, nor do `exe25`,
  `example_4` and the test that use it.  It is modelled as written all the same,
  as the fourth learner (`"sync"`) of `DynamicProgramming`.
* `Drives` of `PathFollowing` has no step for the exception of
  `carrot_chasing.h:225-228`, thrown when no segment is the closest one: on a
  path that was published some segment is, unless a coordinate of the state is
  not a number.
* The branch of a `NEUMANN` boundary in the assembly
  (`fv_laplace_assemble_policy_threaded.h:358-364`), which adds to the vector
  only: in the model a boundary is a Dirichlet or a zero-Neumann one.
* What `save_solution` of `example_17` writes to a file.
* In the modelled parts: unlocked `size()` and `empty()` of a queue;
  `read_unlock` without a lock held; executors with no threads or with another
  number of partitions than threads for the linear-algebra objects; memory
  orders weaker than sequential consistency; actions with several outcomes;
  several kinds of boundary values.

## 8. What could follow

1. How far from the solution the values of a converged learner are, which is the
   tolerance times what the discount adds up to.
2. That a search finds a shortest path when the heuristic is consistent; it is
   neither stated nor checked so far.
3. `partition_range` with more parts than elements, under `TaskAlgorithm`.
4. Line meshes and finite-element degrees of freedom beside `QuadMesh`.

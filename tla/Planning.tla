------------------------------ MODULE Planning ------------------------------
(***************************************************************************)
(* Planning a way through a map: the graph of the map                      *)
(* (kernel/data_structs/boost_serial_graph.h), which is either built from  *)
(* a mesh or grown as a rapidly-exploring random tree, A* over it          *)
(* (a_star_search.h), and the way points made of the result                *)
(* (waypath_builder.h, waypoint_path.h).                                   *)
(*                                                                         *)
(* The applications (exe19, exe29) call them in this order.  The map keeps *)
(* the costs that a search writes into its vertices, and the path object   *)
(* what a build left in it, so the module lets a second query follow the   *)
(* first one.  The vertices are numbered from 1.  Distances are whole      *)
(* numbers, an A* loop iteration is one step, and the order in which the   *)
(* neighbours of a vertex are looked at does not matter: what is decided   *)
(* about one of them depends on nothing that is done to another.           *)
(***************************************************************************)
EXTENDS Integers, Sequences, FiniteSets, SequencesExt, FiniteSetsExt

CONSTANTS Points,       \* the positions: of vertices, robots and goals
          Dist,         \* the metric, Dist[p][q]
          Maps,         \* the maps built from a mesh: [pos, edges, blocked]
          Radius,       \* goal_radius, and how near find_vertex looks for a vertex
          Inputs,       \* what the dynamics may return for an edge
          NoInput,      \* the data of an edge nobody has set
          Inf,          \* numeric_limits<real_t>::max()
          Null,         \* a null pointer in waypoints_ and segments_
          NItrs,        \* nitrs, the iterations of RRT::build
          MaxQueries    \* bound: queries on one map

ASSUME DistAssumption ==
    /\ Dist \in [Points -> [Points -> Nat]]
    /\ \A p, q \in Points : Dist[p][q] = Dist[q][p] /\ (Dist[p][q] = 0 <=> p = q)
ASSUME MapsAssumption ==
    \A m \in Maps : /\ m.pos \in Seq(Points) /\ m.pos # <<>>
                    /\ m.blocked \subseteq DOMAIN m.pos
                    /\ \A e \in m.edges : e \subseteq DOMAIN m.pos /\ Cardinality(e) = 2
ASSUME InfAssumption ==
    /\ Inf \in Nat
    /\ \A m \in Maps, p, q \in Points : Dist[p][q] * Len(m.pos) < Inf
    /\ \A p, q \in Points : Dist[p][q] * (NItrs + 1) < Inf
ASSUME BoundsAssumption ==
    Radius \in Nat \ {0} /\ NItrs \in Nat /\ MaxQueries \in Nat \ {0}
ASSUME InputsAssumption == NoInput \notin Inputs /\ Null \notin Points \cup (Nat \X Nat)

VARIABLES
    phase,      \* where the application is
    tree,       \* the map is an RRT; never changes
    target,     \* the goal handed to RRT::build (of no use to a mesh); never changes
    pos,        \* the positions of the vertices
    edges,      \* the edges: [pair of vertices -> data]
    blocked,    \* the vertices that cannot be moved to
    gcost,      \* data.gcost of every vertex
    query,      \* the query: its start and end, positions and vertices
    queries,    \* how many queries there have been
    open,       \* the open queue: copies of vertices
    explored,   \* the explored set
    cameFrom,   \* came_from
    path,       \* the reconstruction, from the end backwards
    waypoints,  \* waypoints_
    segments    \* segments_

mapVars == <<tree, target, pos, edges, blocked>>
searchVars == <<query, queries, open, explored, cameFrom>>
pathVars == <<path, waypoints, segments>>
vars == <<phase, mapVars, gcost, searchVars, pathVars>>

Vertices == DOMAIN pos

TypeOK ==
    /\ phase \in {"growing", "ready", "searching", "following", "building",
                 "no_goal", "no_vertex", "no_path"}
    /\ tree \in BOOLEAN /\ target \in Points
    /\ pos \in Seq(Points) /\ blocked \subseteq Vertices
    /\ \A e \in DOMAIN edges : /\ e \subseteq Vertices /\ Cardinality(e) = 2
                              /\ edges[e] \in Inputs \cup {NoInput}
    /\ gcost \in [Vertices -> 0..Inf]
    /\ queries \in 0..MaxQueries
    /\ open \subseteq [id : Vertices, at : Points, g : Nat, f : Nat]
    /\ explored \subseteq Vertices
    /\ DOMAIN cameFrom \subseteq Vertices /\ \A v \in DOMAIN cameFrom : cameFrom[v] \in Vertices
    /\ path \in Seq(Vertices)
    /\ waypoints \in Seq(Points \cup {Null}) /\ segments \in Seq({Null} \cup (Nat \X Nat))

-----------------------------------------------------------------------------
Neighbours(v) == {w \in Vertices : {v, w} \in DOMAIN edges}
NoQuery == [start |-> 0, end |-> 0]

\* RRT::build(nitrs, xinit, goal, ...) clears the tree; when the goal is near
\* it returns (true, 0, 0) and leaves the tree empty, or plants the root.
Plant == /\ tree
         /\ target \in Points
         /\ blocked = {} /\ edges = <<>>
         /\ \E xinit \in Points :
              IF Dist[xinit][target] < Radius
              THEN pos = <<>> /\ phase = "ready"
              ELSE pos = <<xinit>> /\ phase = "growing"

Init == /\ tree \in BOOLEAN
        /\ \/ Plant
           \/ /\ ~tree
              /\ phase = "ready"
              /\ \E m \in Maps : /\ pos = m.pos /\ target = m.pos[1]
                                 /\ blocked = m.blocked
                                 /\ edges = [e \in m.edges |-> NoInput]
        /\ gcost = [v \in Vertices |-> Inf]
        /\ query = NoQuery
        /\ queries = 0
        /\ open = {} /\ explored = {}
        /\ cameFrom = <<>> /\ path = <<>> /\ waypoints = <<>> /\ segments = <<>>

\* find_nearest_neighbor: the first vertex at the smallest distance.
Nearest(x) == CHOOSE v \in Vertices :
                 /\ \A w \in Vertices : Dist[pos[v]][x] <= Dist[pos[w]][x]
                 /\ \A w \in 1..v-1 : Dist[pos[w]][x] > Dist[pos[v]][x]

AddVertex(x) == Append(pos, x)

\* An edge that is new has no data.
AddEdge(e) == [d \in DOMAIN edges \cup {e} |-> IF d \in DOMAIN edges THEN edges[d] ELSE NoInput]

\* One iteration of RRT::build: any random state, and any state and input
\* that the dynamics make of it.  add_edge returns a reference of which new_e
\* is a copy: set_data(u) does not reach the tree.
Grow == /\ phase = "growing"
        /\ Len(pos) <= NItrs
        /\ \E xrand, xnew \in Points, u \in Inputs :
             /\ pos' = AddVertex(xnew)
             /\ edges' = AddEdge({Nearest(xrand), Len(pos) + 1})
             /\ phase' = IF Dist[xnew][target] < Radius THEN "ready" ELSE phase
        /\ gcost' = Append(gcost, Inf)
        /\ UNCHANGED <<tree, target, blocked, searchVars, pathVars>>

\* The iterations are used up: "Goal was not found".
GoalNotFound == /\ phase = "growing"
                /\ Len(pos) > NItrs
                /\ phase' = "no_goal"
                /\ UNCHANGED <<mapVars, gcost, searchVars, pathVars>>

-----------------------------------------------------------------------------
\* find_vertex with a predicate of nearness: the first vertex near p, or none.
Found(p) == LET near == {v \in Vertices : Dist[pos[v]][p] < Radius}
            IN IF near = {} THEN 0 ELSE Min(near)

\* astar_search up to its loop.  The start is pushed with the cost zero: in
\* exe29 it is the vertex of the map, in exe19 a node of its own which has
\* the robot's position and the vertex's id.
SearchFrom(q) == open' = {[id |-> q.start, at |-> q.from, g |-> 0, f |-> Dist[q.from][q.to]]}

Search(q) == /\ query' = q
             /\ queries' = queries + 1
             /\ explored' = {} /\ path' = <<>>
             /\ IF q.start = q.end
                THEN /\ phase' = "following" /\ open' = {}
                     /\ cameFrom' = [v \in {q.start} |-> q.start]
                ELSE /\ phase' = "searching"
                     /\ SearchFrom(q)
                     /\ cameFrom' = <<>>
             /\ UNCHANGED <<mapVars, waypoints, segments>>

\* exe29: from the vertex that reached the goal to the root, once.  Of a tree
\* left empty get_vertex(0) has no vertex to give and throws.
AskTree == /\ phase = "ready" /\ tree /\ queries = 0
           /\ IF pos = <<>>
              THEN phase' = "no_vertex" /\ UNCHANGED <<mapVars, gcost, searchVars, pathVars>>
              ELSE /\ Search([start |-> Len(pos), end |-> 1, from |-> Last(pos), to |-> pos[1]])
                   /\ gcost' = [gcost EXCEPT ![Len(pos)] = 0]

\* PathConstructorThread::run of exe19, and exe9.
AskMap == /\ phase = "ready" /\ ~tree /\ queries < MaxQueries
          /\ \E from, to \in Points :
               IF Found(from) = 0 \/ Found(to) = 0
               THEN phase' = "no_vertex" /\ UNCHANGED <<mapVars, gcost, searchVars, pathVars>>
               ELSE /\ Search([start |-> Found(from), end |-> Found(to),
                               from |-> from, to |-> to])
                    /\ UNCHANGED gcost

OpenIds == {n.id : n \in open}

\* Mutant: a blocked neighbour is moved to.
CanMoveAnywhere(v) == TRUE

\* can_move, the occupancy.
CanMove(v) == v \notin blocked

\* Mutant: the explored set is not searched.
BetterThoughExplored(cv, nv) == /\ nv \notin OpenIds /\ CanMove(nv)
                                /\ cv.g + Dist[cv.at][pos[nv]] < gcost[nv]

\* Mutant: a neighbour that cannot be moved to ends the loop.
BetterUntilBlocked(cv, nv) == /\ nv \notin OpenIds \cup explored
                              /\ \A w \in Neighbours(cv.id) : CanMove(w)
                              /\ cv.g + Dist[cv.at][pos[nv]] < gcost[nv]

\* The tests a neighbour passes to be recorded.
Better(cv, nv) == /\ nv \notin OpenIds \cup explored
                  /\ CanMove(nv)
                  /\ cv.g + Dist[cv.at][pos[nv]] < gcost[nv]

\* Mutant: the cost of the link is forgotten.
CostOfParent(cv, nv) == cv.g

\* tg_cost.
CostThrough(cv, nv) == cv.g + Dist[cv.at][pos[nv]]

\* The heuristic uses the position of the end node of the query.
Node(cv, nv) == [id |-> nv, at |-> pos[nv], g |-> CostThrough(cv, nv),
                 f |-> CostThrough(cv, nv) + Dist[pos[nv]][query.to]]

\* add_or_update_map, for each of keys.
AddOrUpdate(f, keys, x) ==
    [v \in DOMAIN f \cup keys |-> IF v \in keys THEN x ELSE f[v]]

\* An iteration of the loop whose vertex is not the end.
Expand == /\ phase = "searching"
          /\ \E cv \in open :
               /\ \A n \in open : cv.f <= n.f
               /\ cv.id # query.end
               /\ LET better == {nv \in Neighbours(cv.id) : Better(cv, nv)}
                  IN /\ open' = (open \ {cv}) \cup {Node(cv, nv) : nv \in better}
                     /\ gcost' = [v \in Vertices |-> IF v \in better THEN CostThrough(cv, v)
                                                     ELSE gcost[v]]
                     /\ cameFrom' = AddOrUpdate(cameFrom, better, cv.id)
               /\ explored' = explored \cup {cv.id}
                              \cup {nv \in Neighbours(cv.id) \ OpenIds : ~CanMove(nv)}
          /\ UNCHANGED <<phase, mapVars, query, queries, pathVars>>

\* The loop ends at the end vertex or with an empty queue.  exe9 and exe19
\* throw when nothing was recorded, reconstruct_a_star_path returns an empty
\* path; it begins with its argument, the end, and throws when that has no entry.
Finish == /\ phase = "searching"
          /\ \/ open = {}
             \/ \E cv \in open : cv.id = query.end /\ \A n \in open : cv.f <= n.f
          /\ IF query.end \in DOMAIN cameFrom
             THEN phase' = "following" /\ path' = <<query.end>>
             ELSE phase' = "no_path" /\ path' = path
          /\ UNCHANGED <<mapVars, gcost, searchVars, waypoints, segments>>

-----------------------------------------------------------------------------
\* reconstruct_a_star_path: one entry more.  Of the entry start -> start it
\* never sees the end, and the path that grows is cut at one entry per vertex and one.
Follow == /\ phase = "following"
          /\ LET last == IF path = <<>> THEN query.end ELSE Last(path)
             IN IF last \in DOMAIN cameFrom
                THEN /\ path' = IF Len(path) > Len(pos) THEN path
                                ELSE Append(path, cameFrom[last])
                     /\ phase' = phase
                ELSE phase' = (IF tree THEN "ready" ELSE "building") /\ path' = Reverse(path)
          /\ UNCHANGED <<mapVars, gcost, searchVars, waypoints, segments>>

\* Mutant: only the way points are cleared.
ClearPoints(s) == IF s = segments THEN s ELSE [i \in DOMAIN s |-> Null]

\* WaypointPath::clear deletes what the entries point to and keeps the entries.
Clear(s) == [i \in DOMAIN s |-> Null]

\* add_node and add_element put their object behind what is there.
AddNodes(points) == Clear(waypoints) \o points
AddElements(n) == Clear(segments) \o
                     [i \in 1 .. n |-> <<Len(waypoints) + i, Len(waypoints) + i + 1>>]

\* grids::build: the way points of the path, and a segment between any two.
Build == /\ phase = "building"
         /\ phase' = "ready"
         /\ waypoints' = AddNodes([i \in DOMAIN path |-> pos[path[i]]])
         /\ segments' = AddElements(Len(path) - 1)
         /\ UNCHANGED <<mapVars, gcost, searchVars, path>>

Next == Grow \/ GoalNotFound \/ AskTree \/ AskMap \/ Expand \/ Finish \/ Follow \/ Build

Spec == Init /\ [][Next]_vars

\* The planner is a single thread.
FairSpec == Spec /\ WF_vars(Grow \/ GoalNotFound \/ Expand \/ Finish \/ Follow \/ Build)

-----------------------------------------------------------------------------

\* The cost in a vertex is what the recorded links to it add up to, from the
\* start on, at every step of the search and whatever earlier searches left.
CostsAddUp ==
    query.start # query.end =>
        \A v \in DOMAIN cameFrom :
            gcost[v] = IF cameFrom[v] = query.start THEN Dist[query.from][pos[v]]
                       ELSE gcost[cameFrom[v]] + Dist[pos[cameFrom[v]]][pos[v]]

\* What is handed to the path builder is a walk along edges of the map from
\* the robot's vertex to that of the goal, through vertices that can be moved
\* to and none of them twice.
PathIsWalk ==
    phase = "building" =>
        /\ path[1] = query.start /\ Last(path) = query.end
        /\ \A i \in 1 .. Len(path) - 1 : /\ {path[i], path[i + 1]} \in DOMAIN edges
                                        /\ path[i + 1] \notin blocked
        /\ Cardinality(Range(path)) = Len(path)

Inv == TypeOK /\ PathIsWalk

\* The vertices that block the way keep start and end apart.
CutOff == \E side \in SUBSET Vertices :
             /\ query.start \in side /\ query.end \notin side
             /\ \A v \in side : Neighbours(v) \subseteq side \cup blocked

\* The first search on a map fails only when there is no way: skipping the
\* open and the dearer neighbours loses no vertex.  (Later searches do: the
\* costs of the first are still in the map.)  In a tree, that of exe29, A* always
\* finds the root from the vertex that reached the goal.
FailsOnlyWhenCutOff == phase = "no_path" => ~tree /\ (queries = 1 => CutOff)

\* A segment left in the path object joins two way points that are left too
\* and lie on neighbouring vertices, also after the path has been rebuilt.
SegmentsJoinWayPoints ==
    \A i \in DOMAIN segments :
        segments[i] # Null =>
            LET ends == {segments[i][1], segments[i][2]}
            IN /\ ends \subseteq DOMAIN waypoints
               /\ \E e \in DOMAIN edges : {waypoints[k] : k \in ends} = {pos[v] : v \in e}

\* A search between different vertices comes to an end, and so does the
\* reconstruction of what it found: the links have no cycle.
QueryAnswered == phase = "searching" ~> phase \in {"building", "ready", "no_path"}
=============================================================================

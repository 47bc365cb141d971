---------------------------- MODULE PlanningProofs ----------------------------
(***************************************************************************)
(* Theorems about Planning for any positions, metric, maps, number of      *)
(* iterations and number of queries, and, in the second half, about the    *)
(* learners of DynamicProgramming for any worlds whose actions have one    *)
(* outcome and rewards that are natural numbers, any discount that is a    *)
(* fraction not above one (Gammas), any tolerance and limits, and values   *)
(* whose quotients are rounded down.                                       *)
(*                                                                         *)
(* The costs are kept in the map, the queue holds copies of its vertices,  *)
(* and earlier searches leave their costs behind.  That the cost of a      *)
(* vertex is nevertheless what the links recorded by this search add up to *)
(* rests on Links: the copies agree with the map, and a vertex that a link *)
(* comes from has been explored, so that its cost does not change again.   *)
(*                                                                         *)
(* That the links have no cycle, and so that the path made of them ends at *)
(* the start and goes through no vertex twice, rests on NoCycle, whose     *)
(* numbering of the vertices grows by the vertices that a step records.    *)
(* That a first search misses nothing rests on First: the costs it makes   *)
(* stay below Inf, so that no vertex is passed over for its cost, and the  *)
(* neighbours of what has been explored are reached or blocked.            *)
(*                                                                         *)
(* The learners start from zero, and no value is ever above what the next  *)
(* turn computes for it (Rising).  Turns keep that, whether they change    *)
(* one state after the other or all at once, since sums, means, maxima and *)
(* rounded quotients all grow with the values; an improved policy keeps it *)
(* since the mean of best actions is the maximum.  So values only rise.    *)
(* Each value was computed from values between the old and the new ones    *)
(* (Computed).  If these differ by no more than the tolerance, then so do  *)
(* what was computed and what the next turn computes (ComputedSettles).    *)
(***************************************************************************)
EXTENDS Planning, DynamicProgramming, FiniteSetTheorems, SequenceTheorems, WellFoundedInduction, TLAPS

-----------------------------------------------------------------------------
(* Least elements, and the vertices that are looked up by them.             *)

Smaller == {p \in Nat \X Nat : p[1] < p[2]}

LEMMA LeastExists == ASSUME NEW S, S \subseteq Nat, S # {}
                     PROVE  \E x \in S : \A y \in S : x <= y
<1>1. IsWellFoundedOn(Smaller, Nat)
  <2>1. OpToRel(<, Nat) = Smaller
    BY DEF OpToRel, Smaller
  <2> QED BY <2>1, NatLessThanWellFounded
<1>2. PICK x \in S : \A y \in S : ~(<<y, x>> \in Smaller)
  BY <1>1, WFMin
<1>3. \A y \in S : x \in Nat /\ y \in Nat /\ ~(y < x)
  BY <1>2 DEF Smaller
<1>4. \A y \in S : x <= y
  BY <1>3
<1> QED BY <1>4

LEMMA DistNat == \A p, q \in Points : Dist[p][q] \in Nat
  BY DistAssumption

LEMMA NearestIsVertex ==
    ASSUME pos \in Seq(Points), pos # <<>>, NEW x \in Points
    PROVE  Nearest(x) \in Vertices
<1>1. Vertices = 1 .. Len(pos) /\ 1 \in Vertices /\ \A v \in Vertices : pos[v] \in Points
  BY DEF Vertices
<1> DEFINE far == {Dist[pos[v]][x] : v \in Vertices}
<1>2. PICK d \in far : \A e \in far : d <= e
  <2>1. far \subseteq Nat /\ far # {}
    BY <1>1, DistNat
  <2> HIDE DEF far
  <2> QED BY <2>1, LeastExists
<1> DEFINE near == {v \in Vertices : Dist[pos[v]][x] = d}
<1>3. PICK v \in near : \A w \in near : v <= w
  <2>1. near \subseteq Nat /\ near # {}
    BY <1>1, <1>2
  <2> HIDE DEF near
  <2> QED BY <2>1, LeastExists
<1>4. \A w \in Vertices : Dist[pos[v]][x] <= Dist[pos[w]][x]
  BY <1>2, <1>3
<1>5. ASSUME NEW w \in 1 .. v - 1 PROVE Dist[pos[w]][x] > Dist[pos[v]][x]
  <2>1. w \in Vertices /\ w \notin near
    BY <1>1, <1>3, <1>5
  <2>2. Dist[pos[w]][x] \in Nat /\ Dist[pos[v]][x] \in Nat
    BY <1>1, <1>3, <2>1, DistNat
  <2> QED BY <1>3, <1>4, <2>1, <2>2
<1> QED BY <1>3, <1>4, <1>5 DEF Nearest

LEMMA FoundIsVertex ==
    ASSUME pos \in Seq(Points), NEW p, Found(p) # 0
    PROVE  Found(p) \in Vertices
<1> DEFINE near == {v \in Vertices : Dist[pos[v]][p] < Radius}
<1>1. near \subseteq Nat /\ near # {} /\ Found(p) = Min(near)
  BY DEF Found, Vertices
<1>2. \E v \in near : \A w \in near : v <= w
  <2> HIDE DEF near
  <2> QED BY <1>1, LeastExists
<1> QED BY <1>1, <1>2 DEF Min

LEMMA PairHasTwo == ASSUME NEW x, NEW y, x # y PROVE Cardinality({x, y}) = 2
<1>1. IsFiniteSet({x}) /\ Cardinality({x}) = 1
  BY FS_Singleton
<1>2. {x, y} = {x} \cup {y}
  OBVIOUS
<1> QED BY <1>1, <1>2, FS_AddElement

-----------------------------------------------------------------------------
(* The costs.                                                               *)

Typed == /\ pos \in Seq(Points) /\ gcost \in Seq(Nat) /\ Len(gcost) = Len(pos)
         /\ \A n \in open : n.at \in Points /\ n.g \in Nat

\* The cost that the link to v gives it.
LinkCost(v) == IF cameFrom[v] = query.start THEN Dist[query.from][pos[v]]
               ELSE gcost[cameFrom[v]] + Dist[pos[cameFrom[v]]][pos[v]]

\* A copy in the queue is the start, or a vertex with its position and cost.
IsCopy(n) == IF n.id = query.start THEN n.at = query.from /\ n.g = 0
             ELSE n.id \in DOMAIN cameFrom /\ n.at = pos[n.id] /\ n.g = gcost[n.id]

Links ==
    query.start # query.end =>
        /\ \A n \in open : IsCopy(n)
        /\ query.start \in OpenIds \cup explored
        /\ query.start \notin DOMAIN cameFrom
        /\ DOMAIN cameFrom \subseteq Vertices
        /\ \A v \in DOMAIN cameFrom :
             /\ cameFrom[v] \in explored
             /\ cameFrom[v] # query.start => cameFrom[v] \in DOMAIN cameFrom
             /\ gcost[v] = LinkCost(v)

\* A tree grows before it is asked.
GrowsFirst == phase = "growing" => query = NoQuery

LInv == Typed /\ Links /\ GrowsFirst

LEMMA InitInv == Init => LInv
<1> SUFFICES ASSUME Init PROVE LInv
  OBVIOUS
<1>1. pos \in Seq(Points)
  <2>1. CASE Plant
    <3>1. pos = <<>> \/ \E x \in Points : pos = <<x>>
      BY <2>1 DEF Plant
    <3>2. \A x \in Points : <<x>> \in Seq(Points)
      OBVIOUS
    <3>3. <<>> \in Seq(Points)
      OBVIOUS
    <3> QED BY <3>1, <3>2, <3>3
  <2>2. CASE \E m \in Maps : pos = m.pos
    BY <2>2, MapsAssumption
  <2> QED BY <2>1, <2>2 DEF Init
<1>2. gcost = [v \in Vertices |-> Inf] /\ Inf \in Nat /\ Vertices = 1 .. Len(pos)
  BY <1>1, InfAssumption DEF Init, Vertices
<1>3. gcost \in Seq(Nat) /\ Len(gcost) = Len(pos)
  BY <1>1, <1>2
<1> QED BY <1>1, <1>3 DEF Init, LInv, Typed, Links, GrowsFirst, NoQuery

LEMMA GrowInv == ASSUME LInv, Grow PROVE LInv'
<1>1. PICK xnew \in Points : pos' = Append(pos, xnew)
  BY DEF Grow, AddVertex
<1>2. gcost' = Append(gcost, Inf) /\ UNCHANGED searchVars /\ query = NoQuery
  BY DEF Grow, LInv, GrowsFirst
<1> QED BY <1>1, <1>2, InfAssumption DEF LInv, Typed, Links, GrowsFirst, searchVars, NoQuery

\* A search begins with the start as the only copy and without links.
LEMMA SearchInv ==
    ASSUME LInv, NEW q, Search(q), q.from \in Points, q.to \in Points, phase = "ready",
           gcost' \in Seq(Nat), Len(gcost') = Len(gcost)
    PROVE  LInv'
<1>1. /\ UNCHANGED pos /\ query' = q /\ phase' # "growing"
      /\ IF q.start = q.end THEN open' = {} ELSE cameFrom' = <<>> /\ SearchFrom(q)
  BY DEF Search, mapVars
<1>2. CASE q.start = q.end
  BY <1>1, <1>2 DEF LInv, Typed, Links, GrowsFirst
<1>3. CASE q.start # q.end
  <2>1. DOMAIN cameFrom' = {}
    BY <1>1, <1>3
  <2>2. \A n \in open' : n.id = q.start /\ n.at = q.from /\ n.g = 0
    BY <1>1, <1>3 DEF SearchFrom
  <2>3. q.start \in OpenIds'
    BY <1>1, <1>3 DEF SearchFrom, OpenIds
  <2> QED BY <1>1, <2>1, <2>2, <2>3 DEF LInv, Typed, Links, IsCopy, GrowsFirst
<1> QED BY <1>2, <1>3

LEMMA AskInv == ASSUME LInv, AskTree \/ AskMap PROVE LInv'
<1>1. CASE phase' = "no_vertex"
  BY <1>1 DEF AskTree, AskMap, Search, LInv, Typed, Links, LinkCost, IsCopy, OpenIds,
              GrowsFirst, mapVars, searchVars, Vertices
<1>2. CASE AskTree /\ pos # <<>>
  <2>1. Last(pos) \in Points /\ pos[1] \in Points
    BY <1>2 DEF LInv, Typed, Last
  <2>2. gcost' \in Seq(Nat) /\ Len(gcost') = Len(gcost)
    BY <1>2 DEF AskTree, LInv, Typed
  <2> QED BY <1>2, <2>1, <2>2, SearchInv DEF AskTree
<1>3. CASE AskMap /\ phase' # "no_vertex"
  BY <1>3, SearchInv DEF AskMap, LInv, Typed
<1> QED BY <1>1, <1>2, <1>3 DEF AskTree

-----------------------------------------------------------------------------
LEMMA ExpandInv == ASSUME LInv, Expand PROVE LInv'
<1> PICK cv \in open :
      LET better == {nv \in Neighbours(cv.id) : Better(cv, nv)}
      IN  /\ open' = (open \ {cv}) \cup {Node(cv, nv) : nv \in better}
          /\ gcost' = [v \in Vertices |-> IF v \in better THEN CostThrough(cv, v) ELSE gcost[v]]
          /\ cameFrom' = [v \in DOMAIN cameFrom \cup better |->
                            IF v \in better THEN cv.id ELSE cameFrom[v]]
          /\ explored' = explored \cup {cv.id}
                         \cup {nv \in Neighbours(cv.id) \ OpenIds : ~CanMove(nv)}
  BY DEF Expand, AddOrUpdate
<1> DEFINE better == {nv \in Neighbours(cv.id) : Better(cv, nv)}
<1>1. /\ open' = (open \ {cv}) \cup {Node(cv, nv) : nv \in better}
      /\ gcost' = [v \in Vertices |-> IF v \in better THEN CostThrough(cv, v) ELSE gcost[v]]
      /\ cameFrom' = [v \in DOMAIN cameFrom \cup better |->
                        IF v \in better THEN cv.id ELSE cameFrom[v]]
      /\ explored \cup {cv.id} \subseteq explored'
      /\ UNCHANGED <<pos, query, phase>>
  BY DEF Expand, AddOrUpdate, mapVars
<1>2. /\ better \subseteq Vertices
      /\ \A nv \in better : nv \notin OpenIds /\ nv \notin explored
  BY DEF Better, Neighbours
<1> HIDE DEF better
<1>3. /\ Vertices = 1 .. Len(pos) /\ Len(pos) \in Nat /\ DOMAIN gcost = Vertices
      /\ \A v \in Vertices : pos[v] \in Points /\ gcost[v] \in Nat
  BY DEF LInv, Typed, Vertices
<1>4. cv.at \in Points /\ cv.g \in Nat
  BY DEF LInv, Typed
<1>5. \A nv \in better : /\ CostThrough(cv, nv) = cv.g + Dist[cv.at][pos[nv]]
                         /\ CostThrough(cv, nv) \in Nat
                         /\ Node(cv, nv).id = nv /\ Node(cv, nv).at = pos[nv]
                         /\ Node(cv, nv).g = CostThrough(cv, nv)
  BY <1>2, <1>3, <1>4, DistNat DEF CostThrough, Node
<1>6. Typed'
  <2>1. \A v \in 1 .. Len(pos) : gcost'[v] \in Nat
    BY <1>1, <1>3, <1>5
  <2>2. gcost' \in Seq(Nat) /\ Len(gcost') = Len(pos)
    BY <1>1, <1>3, <2>1
  <2> QED BY <1>1, <1>2, <1>3, <1>5, <2>2 DEF LInv, Typed
<1>7. ASSUME query.start # query.end PROVE Links'
  <2>1. /\ \A n \in open : IsCopy(n)
        /\ query.start \in OpenIds \cup explored
        /\ query.start \notin DOMAIN cameFrom
        /\ DOMAIN cameFrom \subseteq Vertices
        /\ \A v \in DOMAIN cameFrom :
             /\ cameFrom[v] \in explored
             /\ cameFrom[v] # query.start => cameFrom[v] \in DOMAIN cameFrom
             /\ gcost[v] = LinkCost(v)
    BY <1>7 DEF LInv, Links
  <2>2. /\ DOMAIN cameFrom' = DOMAIN cameFrom \cup better
        /\ \A v \in better : cameFrom'[v] = cv.id /\ gcost'[v] = CostThrough(cv, v)
        /\ \A v \in DOMAIN cameFrom \ better : cameFrom'[v] = cameFrom[v]
        /\ \A v \in Vertices \ better : gcost'[v] = gcost[v]
    BY <1>1, <1>2
  <2>3. query.start \notin better /\ cv.id \notin better /\ explored \cap better = {}
    BY <1>2, <2>1 DEF OpenIds
  <2>4. cv.id # query.start => cv.id \in DOMAIN cameFrom \ better
    BY <2>1, <2>3 DEF IsCopy
  <2>5. ASSUME NEW n \in open' PROVE IsCopy(n)'
    <3>1. CASE n \in open
      <4>1. IsCopy(n) /\ n.id \notin better
        BY <1>2, <2>1, <3>1 DEF OpenIds
      <4> QED BY <1>1, <2>1, <2>2, <4>1 DEF IsCopy
    <3>2. ASSUME NEW nv \in better, n = Node(cv, nv) PROVE IsCopy(n)'
      <4>1. n.id = nv /\ n.at = pos[nv] /\ n.g = gcost'[nv]
        BY <1>5, <2>2, <3>2
      <4>2. nv # query.start /\ nv \in DOMAIN cameFrom'
        BY <2>2, <2>3
      <4> QED BY <1>1, <4>1, <4>2 DEF IsCopy
    <3> QED BY <1>1, <3>1, <3>2
  <2>6. query.start \in OpenIds' \cup explored'
    BY <1>1, <2>1 DEF OpenIds
  <2>7. ASSUME NEW v \in DOMAIN cameFrom'
        PROVE  /\ cameFrom'[v] \in explored'
               /\ cameFrom'[v] # query.start => cameFrom'[v] \in DOMAIN cameFrom'
               /\ gcost'[v] = LinkCost(v)'
    <3>1. CASE v \in better
      <4>1. cv.id = query.start => cv.at = query.from /\ cv.g = 0
        BY <2>1 DEF IsCopy
      <4>2. cv.id # query.start => /\ cv.at = pos[cv.id] /\ cv.g = gcost[cv.id]
                                   /\ gcost'[cv.id] = gcost[cv.id]
        BY <2>1, <2>2, <2>4 DEF IsCopy
      <4>3. CASE cv.id = query.start
        <5>1. gcost'[v] = 0 + Dist[query.from][pos[v]]
          BY <1>5, <2>2, <3>1, <4>1, <4>3
        <5>2. Dist[query.from][pos[v]] \in Nat
          BY <1>2, <1>3, <1>4, <3>1, <4>1, <4>3, DistNat
        <5>3. gcost'[v] = Dist[query.from][pos[v]]
          BY <5>1, <5>2
        <5> QED BY <1>1, <2>2, <3>1, <4>3, <5>3 DEF LinkCost
      <4>4. CASE cv.id # query.start
        BY <1>1, <1>5, <2>2, <2>4, <3>1, <4>2, <4>4 DEF LinkCost
      <4> QED BY <4>3, <4>4
    <3>2. CASE v \in DOMAIN cameFrom \ better
      <4>1. cameFrom'[v] = cameFrom[v] /\ gcost'[v] = gcost[v] /\ cameFrom[v] \notin better
        BY <2>1, <2>2, <2>3, <3>2
      <4>2. cameFrom[v] # query.start => gcost'[cameFrom[v]] = gcost[cameFrom[v]]
        BY <2>1, <2>2, <4>1, <3>2
      <4> QED BY <1>1, <2>1, <2>2, <3>2, <4>1, <4>2 DEF LinkCost
    <3> QED BY <2>2, <3>1, <3>2
  <2> QED
    BY <1>1, <1>2, <2>1, <2>2, <2>3, <2>5, <2>6, <2>7 DEF Links, Vertices
<1>8. Links'
  BY <1>1, <1>7 DEF Links
<1> QED BY <1>1, <1>6, <1>8 DEF LInv, GrowsFirst

LEMMA NextInv == ASSUME LInv, [Next]_vars PROVE LInv'
<1>1. CASE GoalNotFound \/ Finish \/ Follow \/ Build \/ UNCHANGED vars
  BY <1>1 DEF GoalNotFound, Finish, Follow, Build, vars, mapVars, searchVars, pathVars,
              LInv, Typed, Links, LinkCost, IsCopy, OpenIds, GrowsFirst, Vertices
<1> QED BY <1>1, GrowInv, AskInv, ExpandInv DEF Next

-----------------------------------------------------------------------------
(* Types, and what is known of a query and of the two kinds of maps.        *)

Asked == phase \in {"searching", "following", "building", "no_path"} =>
             /\ query.start \in Vertices /\ query.end \in Vertices
             /\ query.from \in Points /\ query.to \in Points

Shape ==
    /\ phase = "growing" => tree /\ pos # <<>>
    /\ tree => /\ blocked = {} /\ queries <= 1 /\ Len(pos) <= NItrs + 1
               /\ \A v \in Vertices \ {1} : \E w \in Vertices : w < v /\ {w, v} \in DOMAIN edges
               /\ queries = 1 => query.end = 1
    /\ ~tree => \E m \in Maps : pos = m.pos

TInv == TypeOK /\ Asked /\ Shape

LEMMA InitTypes == Init => TInv
<1> SUFFICES ASSUME Init PROVE TInv
  OBVIOUS
<1>1. /\ pos \in Seq(Points) /\ blocked \subseteq Vertices /\ target \in Points
      /\ \A e \in DOMAIN edges : e \subseteq Vertices /\ Cardinality(e) = 2 /\ edges[e] = NoInput
      /\ phase \in {"growing", "ready"}
  <2>1. CASE Plant
    <3>1. pos = <<>> \/ \E x \in Points : pos = <<x>>
      BY <2>1 DEF Plant
    <3>2. (\A x \in Points : <<x>> \in Seq(Points)) /\ <<>> \in Seq(Points)
      OBVIOUS
    <3>3. DOMAIN edges = {}
      BY <2>1 DEF Plant
    <3> QED BY <2>1, <3>1, <3>2, <3>3 DEF Plant
  <2>2. ASSUME NEW m \in Maps, pos = m.pos, target = m.pos[1], blocked = m.blocked,
               edges = [e \in m.edges |-> NoInput], phase = "ready"
        PROVE  <1>1!:
    <3>1. m.pos \in Seq(Points) /\ m.pos # <<>> /\ m.pos[1] \in Points
      BY MapsAssumption
    <3> QED BY <2>2, <3>1, MapsAssumption DEF Vertices
  <2> QED BY <2>1, <2>2 DEF Init
<1>2. Vertices = 1 .. Len(pos) /\ Len(pos) \in Nat
  BY <1>1 DEF Vertices
<1>3. TypeOK
  <2>1. gcost \in [Vertices -> 0 .. Inf]
    BY InfAssumption DEF Init
  <2>2. 0 \in 0 .. MaxQueries
    BY BoundsAssumption
  <2>3. DOMAIN cameFrom = {} /\ open = {} /\ explored = {}
    BY DEF Init
  <2>4. /\ path \in Seq(Vertices) /\ waypoints \in Seq(Points \cup {Null})
        /\ segments \in Seq({Null} \cup (Nat \X Nat))
    BY DEF Init
  <2> QED BY <1>1, <2>1, <2>2, <2>3, <2>4 DEF TypeOK, Init
<1>4. Asked
  BY <1>1 DEF Asked
<1>5. Shape
  <2>1. ASSUME Plant PROVE Shape
    <3>1. (pos = <<>> /\ phase = "ready") \/ \E x \in Points : pos = <<x>>
      BY <2>1 DEF Plant
    <3>2. Len(pos) <= 1
      <4>1. CASE pos = <<>>
        BY <4>1
      <4>2. ASSUME NEW x \in Points, pos = <<x>> PROVE Len(pos) <= 1
        BY <4>2
      <4> QED BY <3>1, <4>1, <4>2
    <3>3. Vertices \subseteq {1}
      BY <1>2, <3>2
    <3>4. phase = "growing" => pos # <<>>
      BY <3>1
    <3>5. queries = 0 /\ tree /\ blocked = {}
      BY <2>1 DEF Plant, Init
    <3> QED BY <1>2, <3>2, <3>3, <3>4, <3>5, BoundsAssumption DEF Shape
  <2> QED BY <2>1 DEF Init, Shape
<1> QED BY <1>3, <1>4, <1>5 DEF TInv

LEMMA GrowTypes == ASSUME TInv, Grow PROVE TInv'
<1> PICK xrand \in Points, xnew \in Points, u \in Inputs :
      /\ pos' = Append(pos, xnew)
      /\ edges' = AddEdge({Nearest(xrand), Len(pos) + 1})
      /\ phase' \in {"ready", phase}
  BY DEF Grow, AddVertex
<1> DEFINE near == Nearest(xrand)   new == Len(pos) + 1
<1>1. /\ phase = "growing" /\ Len(pos) <= NItrs /\ gcost' = Append(gcost, Inf)
      /\ UNCHANGED <<tree, target, blocked, searchVars, pathVars>>
  BY DEF Grow
<1>2. /\ pos \in Seq(Points) /\ Len(pos) \in Nat /\ Vertices = 1 .. Len(pos) /\ tree
      /\ pos # <<>>
  BY <1>1 DEF TInv, TypeOK, Shape, Vertices
<1>3. near \in Vertices
  BY <1>2, NearestIsVertex
<1>4. /\ pos' \in Seq(Points) /\ Len(pos') = new /\ Vertices' = 1 .. new
      /\ Vertices \subseteq Vertices' /\ new \in Vertices'
  BY <1>2 DEF Vertices
<1>5. /\ DOMAIN edges' = DOMAIN edges \cup {{near, new}}
      /\ \A e \in DOMAIN edges' : edges'[e] = IF e \in DOMAIN edges THEN edges[e] ELSE NoInput
  BY DEF AddEdge
<1> HIDE DEF near
<1>6. Cardinality({near, new}) = 2 /\ near < new
  <2>1. near < new
    BY <1>2, <1>3
  <2>2. near # new
    BY <1>2, <1>3
  <2> QED BY <2>1, <2>2, PairHasTwo
<1>7. TypeOK'
  <2>1. \A e \in DOMAIN edges' : /\ e \subseteq Vertices' /\ Cardinality(e) = 2
                                /\ edges'[e] \in Inputs \cup {NoInput}
    <3>1. \A e \in DOMAIN edges : /\ e \subseteq Vertices /\ Cardinality(e) = 2
                                 /\ edges[e] \in Inputs \cup {NoInput}
      BY DEF TInv, TypeOK
    <3>2. SUFFICES ASSUME NEW e \in DOMAIN edges'
                   PROVE  /\ e \subseteq Vertices' /\ Cardinality(e) = 2
                          /\ edges'[e] \in Inputs \cup {NoInput}
      OBVIOUS
    <3>3. edges'[e] = IF e \in DOMAIN edges THEN edges[e] ELSE NoInput
      BY <1>5
    <3>4. CASE e \in DOMAIN edges
      <4>1. e \subseteq Vertices /\ Cardinality(e) = 2 /\ edges[e] \in Inputs \cup {NoInput}
        BY <3>1, <3>4
      <4>2. e \subseteq Vertices'
        BY <1>4, <4>1
      <4> QED BY <3>3, <3>4, <4>1, <4>2
    <3>5. CASE e \notin DOMAIN edges
      <4>1. e = {near, new}
        BY <1>5, <3>5
      <4>2. e \subseteq Vertices'
        BY <1>3, <1>4, <4>1
      <4> QED BY <1>6, <3>3, <3>5, <4>1, <4>2
    <3> QED BY <3>4, <3>5
  <2>2. gcost' \in [Vertices' -> 0 .. Inf]
    <3>1. gcost \in Seq(0 .. Inf) /\ Len(gcost) = Len(pos) /\ Inf \in 0 .. Inf
      <4>1. gcost \in [1 .. Len(pos) -> 0 .. Inf]
        BY <1>2 DEF TInv, TypeOK
      <4> QED BY <1>2, <4>1, InfAssumption
    <3>2. Append(gcost, Inf) \in [1 .. Len(pos) + 1 -> 0 .. Inf]
      <4>1. /\ Append(gcost, Inf) \in Seq(0 .. Inf)
            /\ Len(Append(gcost, Inf)) = Len(pos) + 1
        BY <3>1, InfAssumption, AppendProperties
      <4> QED BY <4>1, LenProperties
    <3> QED BY <1>1, <1>4, <3>2
  <2>3. open' \subseteq [id : Vertices', at : Points, g : Nat, f : Nat]
    BY <1>1, <1>4 DEF TInv, TypeOK, searchVars
  <2>4. path' \in Seq(Vertices')
    BY <1>1, <1>4, SeqMonotonic DEF TInv, TypeOK, pathVars
  <2> QED BY <1>1, <1>4, <2>1, <2>2, <2>3, <2>4 DEF TInv, TypeOK, searchVars, pathVars
<1>8. Shape'
  <2>1. ASSUME NEW v \in Vertices' \ {1}
        PROVE  \E w \in Vertices' : w < v /\ {w, v} \in DOMAIN edges'
    <3>1. CASE v = new
      BY <1>3, <1>4, <1>5, <1>6, <3>1
    <3>2. CASE v # new
      <4>1. v \in Vertices \ {1}
        BY <1>2, <1>4, <3>2
      <4> QED BY <1>2, <1>4, <1>5, <4>1 DEF TInv, Shape
    <3> QED BY <3>1, <3>2
  <2>2. Len(pos') <= NItrs + 1 /\ pos' # <<>>
    BY <1>1, <1>2, <1>4, BoundsAssumption
  <2> QED BY <1>1, <1>2, <2>1, <2>2 DEF TInv, Shape, searchVars
<1> QED BY <1>1, <1>7, <1>8 DEF TInv, Asked

LEMMA SearchTypes ==
    ASSUME TInv, NEW q, Search(q), q.start \in Vertices, q.end \in Vertices,
           q.from \in Points, q.to \in Points, queries + 1 <= MaxQueries,
           tree => queries = 0 /\ q.end = 1, gcost' \in [Vertices -> 0 .. Inf]
    PROVE  TInv'
<1>1. /\ UNCHANGED <<tree, target, pos, edges, blocked, waypoints, segments>>
      /\ query' = q /\ queries' = queries + 1 /\ explored' = {} /\ path' = <<>>
      /\ phase' \in {"following", "searching"}
      /\ IF q.start = q.end THEN open' = {} /\ cameFrom' = [v \in {q.start} |-> q.start]
         ELSE cameFrom' = <<>> /\ SearchFrom(q)
  BY DEF Search, mapVars
<1>2. open' \subseteq [id : Vertices, at : Points, g : Nat, f : Nat]
  BY <1>1, DistNat DEF SearchFrom
<1>3. DOMAIN cameFrom' \subseteq Vertices /\ \A v \in DOMAIN cameFrom' : cameFrom'[v] \in Vertices
  BY <1>1
<1>4. TypeOK'
  BY <1>1, <1>2, <1>3 DEF TInv, TypeOK, Vertices
<1>5. Asked'
  BY <1>1 DEF Asked, Vertices
<1>6. Shape'
  <2>1. tree => queries' = 1 /\ query'.end = 1
    BY <1>1
  <2>2. /\ Vertices' = Vertices /\ phase' # "growing"
        /\ UNCHANGED <<tree, pos, edges, blocked>>
    BY <1>1 DEF Vertices
  <2>3. Shape
    BY DEF TInv
  <2>4. ASSUME tree
        PROVE  /\ blocked' = {} /\ queries' <= 1 /\ Len(pos') <= NItrs + 1
               /\ \A v \in Vertices' \ {1} : \E w \in Vertices' : w < v /\ {w, v} \in DOMAIN edges'
               /\ queries' = 1 => query'.end = 1
    <3>1. queries' <= 1 /\ query'.end = 1
      BY <2>1, <2>4
    <3>2. blocked' = {} /\ Len(pos') <= NItrs + 1
      BY <2>2, <2>3, <2>4 DEF Shape
    <3>3. \A v \in Vertices' \ {1} : \E w \in Vertices' : w < v /\ {w, v} \in DOMAIN edges'
      BY <2>2, <2>3, <2>4 DEF Shape
    <3> QED BY <3>1, <3>2, <3>3
  <2>5. ASSUME ~tree PROVE \E m \in Maps : pos' = m.pos
    BY <2>2, <2>3, <2>5 DEF Shape
  <2> QED BY <2>2, <2>4, <2>5 DEF Shape
<1> QED BY <1>4, <1>5, <1>6 DEF TInv

LEMMA AskTypes == ASSUME TInv, AskTree \/ AskMap PROVE TInv'
<1>1. CASE phase' = "no_vertex"
  BY <1>1 DEF AskTree, AskMap, Search, TInv, TypeOK, Asked, Shape, mapVars, searchVars, pathVars,
              Vertices
<1>2. CASE AskTree /\ pos # <<>>
  <2>1. /\ pos \in Seq(Points) /\ Len(pos) \in Nat /\ Len(pos) > 0 /\ Vertices = 1 .. Len(pos)
        /\ Last(pos) \in Points /\ pos[1] \in Points
    BY <1>2 DEF TInv, TypeOK, Last, Vertices
  <2>2. gcost' \in [Vertices -> 0 .. Inf]
    BY <1>2, InfAssumption DEF AskTree, TInv, TypeOK
  <2>3. queries = 0 /\ queries + 1 <= MaxQueries
    BY <1>2, BoundsAssumption DEF AskTree
  <2> QED BY <1>2, <2>1, <2>2, <2>3, SearchTypes DEF AskTree
<1>3. CASE AskMap /\ phase' # "no_vertex"
  <2>1. PICK from \in Points, to \in Points :
          /\ Found(from) # 0 /\ Found(to) # 0
          /\ Search([start |-> Found(from), end |-> Found(to), from |-> from, to |-> to])
    BY <1>3 DEF AskMap
  <2>2. Found(from) \in Vertices /\ Found(to) \in Vertices
    BY <2>1, FoundIsVertex DEF TInv, TypeOK
  <2>3. ~tree /\ queries + 1 <= MaxQueries /\ UNCHANGED gcost
    BY <1>3, BoundsAssumption DEF AskMap, TInv, TypeOK
  <2> QED BY <2>1, <2>2, <2>3, SearchTypes DEF TInv, TypeOK
<1> QED BY <1>1, <1>2, <1>3 DEF AskTree

LEMMA ExpandTypes == ASSUME TInv, phase = "searching", Expand PROVE TInv'
<1> PICK cv \in open :
      LET better == {nv \in Neighbours(cv.id) : Better(cv, nv)}
      IN  /\ open' = (open \ {cv}) \cup {Node(cv, nv) : nv \in better}
          /\ gcost' = [v \in Vertices |-> IF v \in better THEN CostThrough(cv, v) ELSE gcost[v]]
          /\ cameFrom' = AddOrUpdate(cameFrom, better, cv.id)
          /\ explored' = explored \cup {cv.id}
                         \cup {nv \in Neighbours(cv.id) \ OpenIds : ~CanMove(nv)}
  BY DEF Expand
<1> DEFINE better == {nv \in Neighbours(cv.id) : Better(cv, nv)}
<1>1. /\ open' = (open \ {cv}) \cup {Node(cv, nv) : nv \in better}
      /\ gcost' = [v \in Vertices |-> IF v \in better THEN CostThrough(cv, v) ELSE gcost[v]]
      /\ cameFrom' = AddOrUpdate(cameFrom, better, cv.id)
      /\ UNCHANGED <<phase, tree, target, pos, edges, blocked, query, queries, path, waypoints,
                     segments>>
  BY DEF Expand, mapVars, pathVars
<1>2. /\ better \subseteq Vertices /\ explored' \subseteq Vertices
      /\ \A nv \in better : CostThrough(cv, nv) < gcost[nv]
  BY DEF Better, Neighbours, CostThrough, TInv, TypeOK
<1> HIDE DEF better
<1>3. /\ cv.id \in Vertices /\ cv.at \in Points /\ cv.g \in Nat
      /\ \A v \in Vertices : pos[v] \in Points /\ gcost[v] \in 0 .. Inf
      /\ query.to \in Points
  BY DEF TInv, TypeOK, Asked, Vertices
<1>4. \A nv \in better : /\ CostThrough(cv, nv) \in 0 .. Inf
                         /\ Dist[pos[nv]][query.to] \in Nat
  <2>1. \A nv \in better : CostThrough(cv, nv) \in Nat /\ Dist[pos[nv]][query.to] \in Nat
    BY <1>2, <1>3, DistNat DEF CostThrough
  <2> QED BY <1>2, <1>3, <2>1, InfAssumption
<1>5. \A nv \in better : Node(cv, nv) \in [id : Vertices, at : Points, g : Nat, f : Nat]
  BY <1>2, <1>3, <1>4, InfAssumption DEF Node
<1>6. DOMAIN cameFrom' \subseteq Vertices /\ \A v \in DOMAIN cameFrom' : cameFrom'[v] \in Vertices
  BY <1>1, <1>2, <1>3 DEF AddOrUpdate, TInv, TypeOK
<1>7. gcost' \in [Vertices -> 0 .. Inf]
  BY <1>1, <1>3, <1>4
<1>8. TypeOK'
  <2>1. open' \subseteq [id : Vertices, at : Points, g : Nat, f : Nat]
    <3>1. open \subseteq [id : Vertices, at : Points, g : Nat, f : Nat]
      BY DEF TInv, TypeOK
    <3> QED BY <1>1, <1>5, <3>1
  <2>2. Vertices' = Vertices
    BY <1>1 DEF Vertices
  <2>3. TypeOK
    BY DEF TInv
  <2> QED BY <1>1, <1>2, <1>6, <1>7, <2>1, <2>2, <2>3 DEF TypeOK
<1>9. Asked' /\ Shape'
  BY <1>1 DEF TInv, Asked, Shape, Vertices
<1> QED BY <1>8, <1>9 DEF TInv

LEMMA FinishTypes == ASSUME TInv, Finish PROVE TInv'
<1>1. /\ UNCHANGED <<tree, target, pos, edges, blocked, gcost, query, queries, open, explored,
                     cameFrom, waypoints, segments>>
      /\ phase = "searching" /\ phase' \in {"following", "no_path"}
      /\ path' \in {<<query.end>>, path}
  BY DEF Finish, mapVars, searchVars
<1>2. path' \in Seq(Vertices)
  <2>1. query.end \in Vertices /\ path \in Seq(Vertices)
    BY <1>1 DEF TInv, TypeOK, Asked
  <2>2. \A v \in Vertices : <<v>> \in Seq(Vertices)
    OBVIOUS
  <2> QED BY <1>1, <2>1, <2>2
<1> QED BY <1>1, <1>2 DEF TInv, TypeOK, Asked, Shape, Vertices

LEMMA ReverseType == ASSUME NEW S, NEW s \in Seq(S) PROVE Reverse(s) \in Seq(S)
<1>1. Len(s) \in Nat /\ \A i \in 1 .. Len(s) : s[i] \in S /\ Len(s) - i + 1 \in 1 .. Len(s)
  OBVIOUS
<1> QED BY <1>1 DEF Reverse

LEMMA FollowTypes == ASSUME TInv, Follow PROVE TInv'
<1>1. /\ UNCHANGED <<tree, target, pos, edges, blocked, gcost, query, queries, open, explored,
                     cameFrom, waypoints, segments>>
      /\ phase = "following" /\ phase' \in {"following", "ready", "building"}
      /\ path' \in {path, Reverse(path)} \cup {Append(path, cameFrom[v]) : v \in DOMAIN cameFrom}
  BY DEF Follow, mapVars, searchVars
<1>2. path' \in Seq(Vertices)
  <2>1. path \in Seq(Vertices) /\ \A v \in DOMAIN cameFrom : cameFrom[v] \in Vertices
    BY DEF TInv, TypeOK
  <2> QED BY <1>1, <2>1, ReverseType, AppendProperties
<1> QED BY <1>1, <1>2 DEF TInv, TypeOK, Asked, Shape, Vertices

-----------------------------------------------------------------------------
(* The search: what has been reached, and by which vertex.                  *)

Other == query.start # query.end
Reached == {query.start} \cup DOMAIN cameFrom

\* What is reached waits in the queue or has been explored, and not both; a
\* link is an edge, to a vertex that can be moved to.
Frontier ==
    Other => /\ explored \subseteq Reached \cup blocked
             /\ Reached \subseteq OpenIds \cup explored
             /\ OpenIds \cap explored = {}
             /\ \A m, n \in open : m.id = n.id => m = n
             /\ \A v \in DOMAIN cameFrom : {cameFrom[v], v} \in DOMAIN edges /\ v \notin blocked

\* The links have no cycle: the vertices can be numbered so that every link
\* goes to a smaller number; and the path follows the links.
Numbering(rank) ==
    /\ rank \in [Vertices -> Nat]
    /\ \A v \in DOMAIN cameFrom : rank[cameFrom[v]] < rank[v]
    /\ phase = "following" =>
         \A i, j \in DOMAIN path : i < j => rank[path[j]] < rank[path[i]]
    /\ phase = "building" =>
         \A i, j \in DOMAIN path : i < j => rank[path[i]] < rank[path[j]]
NoCycle == Other => \E rank : Numbering(rank)

Walk ==
    /\ phase = "searching" => Other /\ path = <<>>
    /\ phase = "no_path" => Other /\ open = {} /\ query.end \notin DOMAIN cameFrom
    /\ phase = "following" /\ Other =>
         /\ path # <<>> /\ path[1] = query.end /\ query.end \in DOMAIN cameFrom
         /\ \A i \in 1 .. Len(path) - 1 : /\ path[i] \in DOMAIN cameFrom
                                         /\ path[i + 1] = cameFrom[path[i]]
    /\ phase = "following" /\ ~Other =>
         /\ cameFrom = [v \in {query.start} |-> query.start]
         /\ path \in Seq({query.start})
    /\ phase = "building" =>
         /\ Other /\ path # <<>> /\ path[1] = query.start /\ path[Len(path)] = query.end
         /\ \A i \in 1 .. Len(path) - 1 : /\ path[i + 1] \in DOMAIN cameFrom
                                         /\ path[i] = cameFrom[path[i + 1]]

SInv == Frontier /\ NoCycle /\ Walk

LEMMA InitSearch == Init => SInv
<1> SUFFICES ASSUME Init PROVE SInv
  OBVIOUS
<1>1. ~Other
  BY DEF Init, Other, NoQuery
<1>2. phase \in {"growing", "ready"}
  BY DEF Init, Plant
<1> QED BY <1>1, <1>2 DEF SInv, Frontier, NoCycle, Walk

\* Before a search, and after it.
LEMMA GrowSearch == ASSUME LInv, SInv, Grow PROVE SInv'
<1>1. ~Other /\ ~Other' /\ phase' \in {"growing", "ready"}
  BY DEF Grow, LInv, GrowsFirst, NoQuery, Other, searchVars
<1> QED BY <1>1 DEF SInv, Frontier, NoCycle, Walk

LEMMA BeginSearch ==
    ASSUME TInv, SInv, NEW q, Search(q)
    PROVE  SInv'
<1>1. /\ UNCHANGED pos /\ query' = q /\ path' = <<>> /\ explored' = {}
      /\ IF q.start = q.end
         THEN phase' = "following" /\ cameFrom' = [v \in {q.start} |-> q.start]
         ELSE phase' = "searching" /\ cameFrom' = <<>> /\ SearchFrom(q)
  BY DEF Search, mapVars
<1>2. CASE q.start = q.end
  <2>1. ~Other' /\ phase' = "following"
    BY <1>1, <1>2 DEF Other
  <2>2. path' \in Seq({q.start})
    BY <1>1
  <2> QED BY <1>1, <1>2, <2>1, <2>2 DEF SInv, Frontier, NoCycle, Walk
<1>3. CASE q.start # q.end
  <2>1. /\ DOMAIN cameFrom' = {} /\ OpenIds' = {q.start} /\ phase' = "searching"
        /\ \A m, n \in open' : m = n
    <3>1. open' = {[id |-> q.start, at |-> q.from, g |-> 0, f |-> Dist[q.from][q.to]]}
      BY <1>1, <1>3 DEF SearchFrom
    <3>2. OpenIds' = {q.start}
      BY <3>1 DEF OpenIds
    <3> QED BY <1>1, <1>3, <3>1, <3>2
  <2>2. Frontier'
    BY <1>1, <2>1 DEF Frontier, Reached
  <2>3. Numbering([v \in Vertices |-> 0])'
    BY <2>1 DEF Numbering
  <2>4. Walk'
    BY <1>1, <1>3, <2>1 DEF Walk, Other
  <2> QED BY <2>2, <2>3, <2>4 DEF SInv, NoCycle
<1> QED BY <1>2, <1>3

LEMMA AskSearch == ASSUME TInv, SInv, AskTree \/ AskMap PROVE SInv'
<1>1. CASE \E q : Search(q)
  BY <1>1, BeginSearch
<1>2. CASE phase' = "no_vertex" /\ UNCHANGED <<mapVars, searchVars, pathVars>>
  BY <1>2 DEF SInv, Frontier, NoCycle, Numbering, Walk, Other, Reached, OpenIds, Vertices,
              mapVars, searchVars, pathVars
<1> QED BY <1>1, <1>2 DEF AskTree, AskMap

\* What Expand does with the vertex it takes and the neighbours it records.
Expands(cv, better) ==
    /\ cv \in open /\ cv.id # query.end
    /\ better = {nv \in Neighbours(cv.id) : Better(cv, nv)}
    /\ open' = (open \ {cv}) \cup {Node(cv, nv) : nv \in better}
    /\ gcost' = [v \in Vertices |-> IF v \in better THEN CostThrough(cv, v) ELSE gcost[v]]
    /\ cameFrom' = AddOrUpdate(cameFrom, better, cv.id)
    /\ explored' = explored \cup {cv.id} \cup {nv \in Neighbours(cv.id) \ OpenIds : nv \in blocked}
    /\ UNCHANGED <<phase, tree, target, pos, edges, blocked, query, queries, path, waypoints,
                   segments>>

LEMMA ExpandStep == ASSUME Expand PROVE \E cv, better : Expands(cv, better)
<1> PICK cv \in open :
      /\ cv.id # query.end
      /\ LET better == {nv \in Neighbours(cv.id) : Better(cv, nv)}
         IN  /\ open' = (open \ {cv}) \cup {Node(cv, nv) : nv \in better}
             /\ gcost' = [v \in Vertices |-> IF v \in better THEN CostThrough(cv, v) ELSE gcost[v]]
             /\ cameFrom' = AddOrUpdate(cameFrom, better, cv.id)
             /\ explored' = explored \cup {cv.id}
                            \cup {nv \in Neighbours(cv.id) \ OpenIds : ~CanMove(nv)}
  BY DEF Expand
<1>1. Expands(cv, {nv \in Neighbours(cv.id) : Better(cv, nv)})
  BY DEF Expand, Expands, CanMove, mapVars, pathVars
<1> QED BY <1>1

\* The neighbours that are recorded have not been reached before.
LEMMA RecordedAreNew ==
    ASSUME Other, Frontier, NEW cv, NEW better, Expands(cv, better)
    PROVE  /\ better \subseteq Vertices /\ better \cap (Reached \cup explored \cup OpenIds) = {}
           /\ better \cap blocked = {}
           /\ \A nv \in better : {cv.id, nv} \in DOMAIN edges
           /\ DOMAIN cameFrom' = DOMAIN cameFrom \cup better
           /\ \A v \in better : cameFrom'[v] = cv.id
           /\ \A v \in DOMAIN cameFrom : cameFrom'[v] = cameFrom[v]
           /\ Reached' = Reached \cup better
           /\ cv.id \in Reached => OpenIds' = (OpenIds \ {cv.id}) \cup better
<1>1. /\ better \subseteq Vertices /\ better \cap (explored \cup OpenIds) = {}
      /\ better \cap blocked = {} /\ \A nv \in better : {cv.id, nv} \in DOMAIN edges
  BY DEF Expands, Better, CanMove, Neighbours
<1>2. better \cap Reached = {}
  BY <1>1 DEF Frontier
<1>3. /\ DOMAIN cameFrom' = DOMAIN cameFrom \cup better
      /\ \A v \in better : cameFrom'[v] = cv.id
      /\ \A v \in DOMAIN cameFrom : cameFrom'[v] = cameFrom[v]
  BY <1>2 DEF Expands, AddOrUpdate, Reached
<1>4. Reached' = Reached \cup better
  BY <1>3 DEF Expands, Reached
<1>5. OpenIds' = (OpenIds \ {cv.id}) \cup better
  <2>1. \A nv \in better : Node(cv, nv).id = nv
    BY DEF Node
  <2>2. \A n \in open \ {cv} : n.id # cv.id
    BY DEF Frontier, Expands
  <2>3. /\ cv \in open /\ cv.id \notin better
        /\ open' = (open \ {cv}) \cup {Node(cv, nv) : nv \in better}
    BY <1>1 DEF Expands, OpenIds
  <2> HIDE DEF Expands
  <2> QED BY <2>1, <2>2, <2>3 DEF OpenIds
<1> QED BY <1>1, <1>2, <1>3, <1>4, <1>5

LEMMA QueueIsReached == ASSUME LInv, Other, NEW n \in open PROVE n.id \in Reached
  BY DEF LInv, Links, IsCopy, Other, Reached

LEMMA ExpandSearch == ASSUME LInv, TInv, SInv, phase = "searching", Expand PROVE SInv'
<1> PICK cv, better : Expands(cv, better)
  BY ExpandStep
<1>1. /\ Other /\ Other' /\ Frontier /\ cv \in open /\ cv.id \in Reached /\ phase' = "searching"
      /\ path' = <<>>
      /\ UNCHANGED <<pos, edges, blocked, query>> /\ Vertices' = Vertices
  BY QueueIsReached DEF SInv, Walk, Expands, Other, Vertices
<1>2. /\ better \subseteq Vertices /\ better \cap (Reached \cup explored \cup OpenIds) = {}
      /\ better \cap blocked = {}
      /\ \A nv \in better : {cv.id, nv} \in DOMAIN edges
      /\ DOMAIN cameFrom' = DOMAIN cameFrom \cup better
      /\ \A v \in better : cameFrom'[v] = cv.id
      /\ \A v \in DOMAIN cameFrom : cameFrom'[v] = cameFrom[v]
      /\ Reached' = Reached \cup better
      /\ OpenIds' = (OpenIds \ {cv.id}) \cup better
  BY <1>1, RecordedAreNew
<1>3. explored' = explored \cup {cv.id} \cup {nv \in Neighbours(cv.id) \ OpenIds : nv \in blocked}
  BY DEF Expands
<1>4. Frontier'
  <2>1. explored' \subseteq Reached' \cup blocked'
    BY <1>1, <1>2, <1>3 DEF Frontier
  <2>2. Reached' \subseteq OpenIds' \cup explored'
    BY <1>1, <1>2, <1>3 DEF Frontier
  <2>3. OpenIds' \cap explored' = {}
    BY <1>1, <1>2, <1>3 DEF Frontier
  <2>4. ASSUME NEW m \in open', NEW n \in open', m.id = n.id PROVE m = n
    <3>1. \A nv \in better : Node(cv, nv).id = nv
      BY DEF Node
    <3>2. \A o \in open : o.id \in OpenIds
      BY DEF OpenIds
    <3>3. open' = (open \ {cv}) \cup {Node(cv, nv) : nv \in better}
      BY DEF Expands
    <3>4. \A o, p \in open : o.id = p.id => o = p
      BY <1>1 DEF Frontier
    <3> QED BY <1>2, <2>4, <3>1, <3>2, <3>3, <3>4
  <2>5. \A v \in DOMAIN cameFrom' : {cameFrom'[v], v} \in DOMAIN edges' /\ v \notin blocked'
    BY <1>1, <1>2 DEF Frontier
  <2> QED BY <2>1, <2>2, <2>3, <2>4, <2>5 DEF Frontier
<1>5. NoCycle'
  <2>1. PICK rank : Numbering(rank)
    BY <1>1 DEF SInv, NoCycle
  <2> PICK next : next = [v \in Vertices |-> IF v \in better THEN rank[cv.id] + 1 ELSE rank[v]]
    OBVIOUS
  <2>2. /\ rank \in [Vertices -> Nat] /\ cv.id \in Vertices
        /\ \A v \in DOMAIN cameFrom : /\ rank[cameFrom[v]] < rank[v]
                                     /\ v \in Vertices /\ cameFrom[v] \in Vertices
    BY <1>1, <2>1 DEF Numbering, TInv, TypeOK
  <2>3. next \in [Vertices -> Nat]
    BY <2>2
  <2>4. ASSUME NEW v \in DOMAIN cameFrom' PROVE next[cameFrom'[v]] < next[v]
    <3>1. CASE v \in better
      <4>1. cameFrom'[v] = cv.id /\ cv.id \notin better
        BY <1>1, <1>2, <3>1
      <4>2. next[cv.id] = rank[cv.id] /\ next[v] = rank[cv.id] + 1 /\ rank[cv.id] \in Nat
        BY <1>2, <2>2, <3>1, <4>1
      <4> QED BY <4>1, <4>2
    <3>2. CASE v \notin better
      <4>1. /\ v \in DOMAIN cameFrom /\ cameFrom'[v] = cameFrom[v]
            /\ cameFrom[v] \notin better
        BY <1>1, <1>2, <3>2 DEF LInv, Links, Other
      <4> QED BY <2>2, <3>2, <4>1
    <3> QED BY <3>1, <3>2
  <2>5. Numbering(next)'
    BY <1>1, <2>3, <2>4 DEF Numbering
  <2> QED BY <2>5 DEF NoCycle
<1>6. Walk'
  BY <1>1 DEF Walk, Other
<1> QED BY <1>4, <1>5, <1>6 DEF SInv

LEMMA FinishSearch == ASSUME LInv, SInv, Finish PROVE SInv'
<1>1. /\ Other /\ phase = "searching" /\ path = <<>>
      /\ IF query.end \in DOMAIN cameFrom THEN phase' = "following" /\ path' = <<query.end>>
         ELSE phase' = "no_path" /\ path' = path
      /\ UNCHANGED <<pos, edges, blocked, query, open, explored, cameFrom>>
      /\ open = {} \/ \E cv \in open : cv.id = query.end
  BY DEF Finish, SInv, Walk, mapVars, searchVars
<1>2. Frontier'
  BY <1>1 DEF SInv, Frontier, Other, Reached, OpenIds
<1>3. NoCycle'
  <2>1. PICK rank : Numbering(rank)
    BY <1>1 DEF SInv, NoCycle
  <2>2. \A i, j \in DOMAIN <<query.end>> : ~(i < j)
    OBVIOUS
  <2>3. Numbering(rank)'
    BY <1>1, <2>1, <2>2 DEF Numbering, Vertices
  <2> QED BY <2>3 DEF NoCycle
<1>4. Walk'
  <2>1. CASE query.end \in DOMAIN cameFrom
    <3>1. path' = <<query.end>> /\ phase' = "following" /\ Other'
      BY <1>1, <2>1 DEF Other
    <3>2. Len(path') = 1 /\ path' # <<>> /\ path'[1] = query'.end
      BY <1>1, <3>1
    <3>3. 1 .. Len(path') - 1 = {}
      BY <3>2
    <3>4. query'.end \in DOMAIN cameFrom'
      BY <1>1, <2>1
    <3> QED BY <3>1, <3>2, <3>3, <3>4 DEF Walk
  <2>2. CASE query.end \notin DOMAIN cameFrom
    <3>1. \A cv \in open : cv.id # query.end
      BY <1>1, <2>2, QueueIsReached DEF Other, Reached
    <3> QED BY <1>1, <2>2, <3>1 DEF Walk, Other
  <2> QED BY <2>1, <2>2
<1> QED BY <1>2, <1>3, <1>4 DEF SInv

\* The path grows by the vertex that its last one was reached from; where
\* there is no such vertex, it has come to the start.
LEMMA FollowSearch == ASSUME LInv, TInv, SInv, Follow PROVE SInv'
<1> DEFINE last == IF path = <<>> THEN query.end ELSE Last(path)
<1>1. /\ phase = "following"
      /\ UNCHANGED <<tree, pos, edges, blocked, query, open, explored, cameFrom>>
      /\ Vertices' = Vertices
      /\ IF last \in DOMAIN cameFrom
         THEN /\ phase' = phase
              /\ path' \in {path, Append(path, cameFrom[last])}
         ELSE phase' \in {"ready", "building"} /\ path' = Reverse(path)
  BY DEF Follow, mapVars, searchVars, Vertices
<1>2. Frontier'
  BY <1>1 DEF SInv, Frontier, Other, Reached, OpenIds
<1>3. path \in Seq(Vertices) /\ Len(path) \in Nat /\ DOMAIN path = 1 .. Len(path)
  BY DEF TInv, TypeOK
<1>4. CASE ~Other
  <2>1. cameFrom = [v \in {query.start} |-> query.start] /\ path \in Seq({query.start})
    BY <1>1, <1>4 DEF SInv, Walk
  <2>2. last = query.start
    BY <1>4, <2>1 DEF Other, Last
  <2>3. path' \in Seq({query.start}) /\ phase' = "following"
    BY <1>1, <2>1, <2>2
  <2> HIDE DEF last
  <2> QED BY <1>1, <1>2, <1>4, <2>1, <2>3 DEF SInv, NoCycle, Walk, Other
<1>5. CASE Other
  <2>1. /\ path # <<>> /\ path[1] = query.end /\ query.end \in DOMAIN cameFrom
        /\ last = path[Len(path)]
        /\ \A i \in 1 .. Len(path) - 1 : /\ path[i] \in DOMAIN cameFrom
                                        /\ path[i + 1] = cameFrom[path[i]]
    BY <1>1, <1>5 DEF SInv, Walk, Last
  <2>2. PICK rank : Numbering(rank)
    BY <1>5 DEF SInv, NoCycle
  <2>3. /\ rank \in [Vertices -> Nat]
        /\ \A v \in DOMAIN cameFrom : rank[cameFrom[v]] < rank[v]
        /\ \A i, j \in DOMAIN path : i < j => rank[path[j]] < rank[path[i]]
        /\ \A i \in DOMAIN path : path[i] \in Vertices /\ rank[path[i]] \in Nat
    BY <1>1, <1>3, <2>2 DEF Numbering
  <2> HIDE DEF last
  <2>4. CASE path' = path /\ phase' = phase
    BY <1>1, <1>2, <2>4 DEF SInv, NoCycle, Numbering, Walk, Other
  <2>5. CASE last \in DOMAIN cameFrom /\ path' = Append(path, cameFrom[last]) /\ phase' = phase
    <3>1. /\ Len(path') = Len(path) + 1 /\ DOMAIN path' = 1 .. Len(path) + 1
          /\ path'[Len(path) + 1] = cameFrom[last]
          /\ \A i \in 1 .. Len(path) : path'[i] = path[i]
      BY <1>3, <2>5
    <3>0. Len(path) >= 1 /\ Len(path) \in 1 .. Len(path)
      BY <1>3, <2>1
    <3>2. rank[cameFrom[last]] \in Nat
      BY <2>3, <2>5 DEF TInv, TypeOK
    <3>3. \A i \in DOMAIN path : rank[cameFrom[last]] < rank[path[i]]
      <4>1. \A i \in DOMAIN path : rank[last] <= rank[path[i]] /\ rank[last] \in Nat
        <5> TAKE i \in DOMAIN path
        <5>1. CASE i = Len(path)
          <6>1. rank[last] \in Nat /\ last = path[i]
            BY <1>3, <2>1, <2>3, <3>0, <5>1
          <6> QED BY <6>1
        <5>2. CASE i # Len(path)
          <6>1. i < Len(path) /\ Len(path) \in DOMAIN path /\ last = path[Len(path)]
            BY <1>3, <2>1, <3>0, <5>2
          <6>2. rank[last] < rank[path[i]] /\ rank[last] \in Nat /\ rank[path[i]] \in Nat
            BY <2>3, <6>1
          <6> QED BY <6>2
        <5> QED BY <5>1, <5>2
      <4> QED BY <2>3, <2>5, <3>2, <4>1
    <3>4. \A i, j \in DOMAIN path' : i < j => rank[path'[j]] < rank[path'[i]]
      <4> SUFFICES ASSUME NEW i \in DOMAIN path', NEW j \in DOMAIN path', i < j
                   PROVE  rank[path'[j]] < rank[path'[i]]
        OBVIOUS
      <4>1. i \in DOMAIN path /\ (j \in DOMAIN path \/ j = Len(path) + 1)
        BY <1>3, <3>1
      <4> QED BY <1>3, <2>3, <3>1, <3>3, <4>1
    <3>5. Numbering(rank)'
      BY <1>1, <2>3, <2>5, <3>4 DEF Numbering
    <3>6. Walk'
      <4>1. \A i \in 1 .. Len(path') - 1 : /\ path'[i] \in DOMAIN cameFrom
                                          /\ path'[i + 1] = cameFrom[path'[i]]
        <5> SUFFICES ASSUME NEW i \in 1 .. Len(path)
                     PROVE  path'[i] \in DOMAIN cameFrom /\ path'[i + 1] = cameFrom[path'[i]]
          BY <1>3, <3>1
        <5>0. Len(path) \in Nat
          BY <1>3
        <5>1. CASE i = Len(path)
          BY <2>1, <2>5, <3>0, <3>1, <5>1
        <5>2. CASE i # Len(path)
          <6>0. i >= 1 /\ i < Len(path) /\ i \in Int
            BY <5>0, <5>2
          <6>1. i \in 1 .. Len(path) - 1 /\ i + 1 \in 1 .. Len(path)
            BY <5>0, <6>0
          <6> QED BY <2>1, <3>1, <6>1
        <5> QED BY <5>1, <5>2
      <4>2. path' # <<>> /\ path'[1] = query'.end /\ Other' /\ phase' = "following"
        BY <1>1, <1>3, <1>5, <2>1, <2>5, <3>1, <3>0 DEF Other
      <4>3. query'.end \in DOMAIN cameFrom' /\ cameFrom' = cameFrom
        BY <1>1, <2>1
      <4> QED BY <4>1, <4>2, <4>3 DEF Walk
    <3> QED BY <1>2, <3>5, <3>6 DEF SInv, NoCycle
  <2>6. CASE last \notin DOMAIN cameFrom
    <3> DEFINE n == Len(path)
    <3>1. /\ Len(path') = n /\ DOMAIN path' = 1 .. n /\ n >= 1
          /\ \A i \in 1 .. n : path'[i] = path[n - i + 1] /\ n - i + 1 \in 1 .. n
      BY <1>1, <1>3, <2>1, <2>6 DEF Reverse
    <3>2. last = query.start
      <4>1. CASE n = 1
        BY <2>1, <2>6, <4>1
      <4>2. CASE n > 1
        <5>1. n - 1 \in 1 .. n - 1 /\ (n - 1) + 1 = n
          BY <1>3, <4>2
        <5>2. path[n - 1] \in DOMAIN cameFrom /\ last = cameFrom[path[n - 1]]
          BY <2>1, <5>1
        <5> QED BY <1>5, <2>6, <5>2 DEF LInv, Links, Other
      <4> QED BY <1>3, <3>1, <4>1, <4>2
    <3>3. \A i \in 1 .. n - 1 : path'[i + 1] \in DOMAIN cameFrom /\ path'[i] = cameFrom[path'[i + 1]]
      <4> SUFFICES ASSUME NEW i \in 1 .. n - 1
                   PROVE  path'[i + 1] \in DOMAIN cameFrom /\ path'[i] = cameFrom[path'[i + 1]]
        OBVIOUS
      <4>1. /\ i \in 1 .. n /\ i + 1 \in 1 .. n /\ n - i \in 1 .. n - 1
            /\ n - (i + 1) + 1 = n - i /\ n - i + 1 = (n - i) + 1
        BY <1>3
      <4>2. path'[i] = path[(n - i) + 1] /\ path'[i + 1] = path[n - i]
        BY <3>1, <4>1
      <4> QED BY <2>1, <4>1, <4>2
    <3>4. path' # <<>> /\ path'[1] = query.start /\ path'[Len(path')] = query.end
      <4>1. 1 \in 1 .. n /\ n \in 1 .. n /\ n - 1 + 1 = n /\ n - n + 1 = 1
        BY <1>3, <3>1
      <4>2. path'[1] = path[n] /\ path'[n] = path[1]
        BY <3>1, <4>1
      <4>3. path' # <<>>
        BY <3>1, <4>1
      <4> QED BY <2>1, <3>1, <3>2, <4>2, <4>3
    <3>5. \A i, j \in DOMAIN path' : i < j => rank[path'[i]] < rank[path'[j]]
      <4> SUFFICES ASSUME NEW i \in DOMAIN path', NEW j \in DOMAIN path', i < j
                   PROVE  rank[path'[i]] < rank[path'[j]]
        OBVIOUS
      <4>1. n - i + 1 \in DOMAIN path /\ n - j + 1 \in DOMAIN path /\ n - j + 1 < n - i + 1
        BY <1>3, <3>1
      <4> QED BY <2>3, <3>1, <4>1
    <3>6. phase' \in {"ready", "building"}
      BY <1>1, <2>6
    <3> HIDE DEF n
    <3>7. Numbering(rank)'
      BY <1>1, <2>3, <3>5, <3>6 DEF Numbering
    <3>8. Walk'
      BY <1>1, <1>5, <3>1, <3>3, <3>4, <3>6 DEF Walk, Other
    <3> QED BY <1>2, <3>7, <3>8 DEF SInv, NoCycle
  <2> QED BY <1>1, <2>4, <2>5, <2>6
<1> QED BY <1>4, <1>5

-----------------------------------------------------------------------------
(* The way points of a path.                                                *)

\* Consecutive vertices of a finished path are joined by an edge.
LEMMA PathAlongEdges ==
    ASSUME SInv, phase = "building", NEW i \in 1 .. Len(path) - 1
    PROVE  {path[i], path[i + 1]} \in DOMAIN edges /\ path[i + 1] \notin blocked
<1>1. path[i + 1] \in DOMAIN cameFrom /\ path[i] = cameFrom[path[i + 1]] /\ Other
  BY DEF SInv, Walk
<1> QED BY <1>1 DEF SInv, Frontier

\* What is there is overwritten with Null, and the new objects come behind it.
LEMMA ClearedAndAppended ==
    ASSUME NEW S, Null \in S, NEW s \in Seq(S), NEW t \in Seq(S)
    PROVE  /\ Clear(s) \o t \in Seq(S)
           /\ Len(Clear(s) \o t) = Len(s) + Len(t)
           /\ \A i \in 1 .. Len(s) + Len(t) :
                (Clear(s) \o t)[i] = IF i <= Len(s) THEN Null ELSE t[i - Len(s)]
<1> DEFINE c == Clear(s)
<1>1. c \in Seq(S) /\ Len(c) = Len(s) /\ \A i \in 1 .. Len(s) : c[i] = Null
  BY DEF Clear
<1>2. Len(s) \in Nat /\ Len(t) \in Nat
  OBVIOUS
<1> HIDE DEF c
<1>3. c \o t \in Seq(S) /\ Len(c \o t) = Len(s) + Len(t)
  BY <1>1
<1>4. ASSUME NEW i \in 1 .. Len(s) + Len(t)
      PROVE  (c \o t)[i] = IF i <= Len(s) THEN Null ELSE t[i - Len(s)]
  <2>1. (c \o t)[i] = IF i <= Len(c) THEN c[i] ELSE t[i - Len(c)]
    BY <1>1, <1>2
  <2>2. i <= Len(s) => i \in 1 .. Len(s)
    BY <1>2
  <2> QED BY <1>1, <2>1, <2>2
<1> QED BY <1>3, <1>4 DEF c

LEMMA BuildKeeps == ASSUME TInv, SInv, Build PROVE TInv' /\ SInv' /\ SegmentsJoinWayPoints'
<1> DEFINE n == Len(path)   W == Len(waypoints)   G == Len(segments)
           new == [i \in DOMAIN path |-> pos[path[i]]]
           elements == [i \in 1 .. n - 1 |-> <<W + i, W + i + 1>>]
<1>1. /\ phase = "building" /\ phase' = "ready"
      /\ waypoints' = Clear(waypoints) \o new /\ segments' = Clear(segments) \o elements
      /\ UNCHANGED <<tree, target, pos, edges, blocked, gcost, query, queries, open, explored,
                     cameFrom, path>>
  BY DEF Build, AddNodes, AddElements, mapVars, searchVars
<1>2. /\ path \in Seq(Vertices) /\ n \in Nat /\ DOMAIN path = 1 .. n /\ n >= 1
      /\ W \in Nat /\ G \in Nat
      /\ waypoints \in Seq(Points \cup {Null}) /\ segments \in Seq({Null} \cup (Nat \X Nat))
      /\ \A v \in Vertices : pos[v] \in Points
  BY <1>1 DEF TInv, TypeOK, SInv, Walk, Vertices
<1>3. new \in Seq(Points \cup {Null}) /\ Len(new) = n /\ \A i \in 1 .. n : new[i] = pos[path[i]]
  BY <1>2
<1>4. /\ elements \in Seq({Null} \cup (Nat \X Nat)) /\ Len(elements) = n - 1
      /\ \A i \in 1 .. n - 1 : elements[i] = <<W + i, W + i + 1>>
  <2>1. n - 1 \in Nat /\ \A i \in 1 .. n - 1 : <<W + i, W + i + 1>> \in Nat \X Nat
    BY <1>2
  <2> QED BY <2>1
<1> HIDE DEF new, elements
<1>5. /\ waypoints' \in Seq(Points \cup {Null}) /\ Len(waypoints') = W + n
      /\ \A i \in 1 .. W + n : waypoints'[i] = IF i <= W THEN Null ELSE new[i - W]
  <2> DEFINE S == Points \cup {Null}
  <2>1. Null \in S /\ waypoints \in Seq(S) /\ new \in Seq(S)
    BY <1>2, <1>3
  <2> HIDE DEF S
  <2>2. /\ Clear(waypoints) \o new \in Seq(S)
        /\ Len(Clear(waypoints) \o new) = Len(waypoints) + Len(new)
        /\ \A i \in 1 .. Len(waypoints) + Len(new) :
             (Clear(waypoints) \o new)[i] = IF i <= Len(waypoints) THEN Null
                                            ELSE new[i - Len(waypoints)]
    BY <2>1, ClearedAndAppended
  <2> QED BY <1>1, <1>3, <2>2 DEF S
<1>6. /\ segments' \in Seq({Null} \cup (Nat \X Nat)) /\ Len(segments') = G + (n - 1)
      /\ \A i \in 1 .. G + (n - 1) : segments'[i] = IF i <= G THEN Null ELSE elements[i - G]
  <2> DEFINE S == {Null} \cup (Nat \X Nat)
  <2>1. Null \in S /\ segments \in Seq(S) /\ elements \in Seq(S)
    BY <1>2, <1>4
  <2> HIDE DEF S
  <2>2. /\ Clear(segments) \o elements \in Seq(S)
        /\ Len(Clear(segments) \o elements) = Len(segments) + Len(elements)
        /\ \A i \in 1 .. Len(segments) + Len(elements) :
             (Clear(segments) \o elements)[i] = IF i <= Len(segments) THEN Null
                                                ELSE elements[i - Len(segments)]
    BY <2>1, ClearedAndAppended
  <2> QED BY <1>1, <1>4, <2>2 DEF S
<1>7. TInv'
  BY <1>1, <1>5, <1>6 DEF TInv, TypeOK, Asked, Shape, Vertices
<1>8. SInv'
  BY <1>1 DEF SInv, Frontier, NoCycle, Numbering, Walk, Other, Reached, OpenIds, Vertices
<1>9. SegmentsJoinWayPoints'
  <2>0. pos' = pos /\ edges' = edges
    BY <1>1
  <2> SUFFICES ASSUME NEW i \in DOMAIN segments', segments'[i] # Null
               PROVE  LET ends == {segments'[i][1], segments'[i][2]}
                      IN  /\ ends \subseteq DOMAIN waypoints'
                          /\ \E e \in DOMAIN edges' : {waypoints'[k] : k \in ends}
                                                        = {pos'[v] : v \in e}
    BY Zenon DEF SegmentsJoinWayPoints
  <2> DEFINE j == i - G
  <2>1. i \in 1 .. G + (n - 1) /\ i > G
    BY <1>2, <1>6
  <2>2. j \in 1 .. n - 1 /\ j \in 1 .. n /\ j + 1 \in 1 .. n
    BY <1>2, <2>1
  <2>3. segments'[i] = <<W + j, W + j + 1>>
    BY <1>2, <1>4, <1>6, <2>1, <2>2
  <2> HIDE DEF j
  <2>4. /\ W + j \in 1 .. W + n /\ W + j + 1 \in 1 .. W + n
        /\ ~(W + j <= W) /\ ~(W + j + 1 <= W) /\ (W + j) - W = j /\ (W + j + 1) - W = j + 1
    BY <1>2, <2>2
  <2>5. waypoints'[W + j] = pos[path[j]] /\ waypoints'[W + j + 1] = pos[path[j + 1]]
    BY <1>3, <1>5, <2>2, <2>4
  <2>6. {path[j], path[j + 1]} \in DOMAIN edges
    BY <1>1, <2>2, PathAlongEdges
  <2>7. DOMAIN waypoints' = 1 .. W + n
    BY <1>5
  <2>8. segments'[i][1] = W + j /\ segments'[i][2] = W + j + 1
    BY <2>3
  <2>9. {waypoints'[k] : k \in {W + j, W + j + 1}} = {pos[v] : v \in {path[j], path[j + 1]}}
    BY <2>5
  <2> HIDE DEF W, G, n
  <2> QED BY <2>0, <2>4, <2>6, <2>7, <2>8, <2>9
<1> QED BY <1>7, <1>8, <1>9

LEMMA NextTypes == ASSUME LInv, TInv, SInv, [Next]_vars PROVE TInv' /\ SInv'
<1>1. CASE GoalNotFound \/ UNCHANGED vars
  <2>1. /\ UNCHANGED <<tree, target, pos, edges, blocked, gcost, query, queries, open, explored,
                       cameFrom, path, waypoints, segments>>
        /\ phase' = phase \/ phase' = "no_goal"
    BY <1>1 DEF GoalNotFound, vars, mapVars, searchVars, pathVars
  <2>2. /\ Vertices' = Vertices /\ Other' = Other /\ Reached' = Reached /\ OpenIds' = OpenIds
    BY <2>1 DEF Vertices, Other, Reached, OpenIds
  <2>3. TypeOK'
    BY <2>1, <2>2 DEF TInv, TypeOK
  <2>4. Asked' /\ Shape'
    BY <2>1, <2>2 DEF TInv, Asked, Shape
  <2>5. Frontier'
    BY <2>1, <2>2 DEF SInv, Frontier
  <2>6. NoCycle'
    <3>1. ASSUME NEW rank, Numbering(rank) PROVE Numbering(rank)'
      BY <2>1, <2>2, <3>1 DEF Numbering
    <3> QED BY <2>2, <3>1 DEF SInv, NoCycle
  <2>7. Walk'
    BY <2>1, <2>2 DEF SInv, Walk
  <2> QED BY <2>3, <2>4, <2>5, <2>6, <2>7 DEF TInv, SInv
<1>2. CASE Expand
  BY <1>2, ExpandTypes, ExpandSearch DEF Expand
<1> QED BY <1>1, <1>2, GrowTypes, GrowSearch, AskTypes, AskSearch, FinishTypes, FinishSearch,
           FollowTypes, FollowSearch, BuildKeeps DEF Next

LEMMA NextSegments ==
    ASSUME TInv, SInv, SegmentsJoinWayPoints, [Next]_vars PROVE SegmentsJoinWayPoints'
<1>1. CASE Build
  BY <1>1, BuildKeeps
<1>2. CASE Grow
  <2>1. PICK x : pos' = Append(pos, x) /\ UNCHANGED <<waypoints, segments>>
    BY <1>2 DEF Grow, AddVertex, pathVars
  <2>2. DOMAIN edges \subseteq DOMAIN edges'
    BY <1>2 DEF Grow, AddEdge
  <2>3. \A e \in DOMAIN edges : \A v \in e : pos'[v] = pos[v]
    BY <2>1 DEF TInv, TypeOK, Vertices
  <2>4. ASSUME NEW i \in DOMAIN segments', segments'[i] # Null
        PROVE  LET ends == {segments'[i][1], segments'[i][2]}
               IN  /\ ends \subseteq DOMAIN waypoints'
                   /\ \E e \in DOMAIN edges' : {waypoints'[k] : k \in ends} = {pos'[v] : v \in e}
    <3> DEFINE ends == {segments[i][1], segments[i][2]}
    <3>1. ends \subseteq DOMAIN waypoints
          /\ \E e \in DOMAIN edges : {waypoints[k] : k \in ends} = {pos[v] : v \in e}
      BY <2>1, <2>4 DEF SegmentsJoinWayPoints
    <3> HIDE DEF ends
    <3>2. PICK e \in DOMAIN edges : {waypoints[k] : k \in ends} = {pos[v] : v \in e}
      BY <3>1
    <3>3. {pos[v] : v \in e} = {pos'[v] : v \in e}
      BY <2>3
    <3>4. {waypoints[k] : k \in ends} = {pos'[v] : v \in e} /\ e \in DOMAIN edges'
      BY <2>2, <3>2, <3>3
    <3>5. waypoints' = waypoints /\ segments' = segments
      BY <2>1
    <3> QED BY <3>1, <3>4, <3>5 DEF ends
  <2> QED BY <2>4, Zenon DEF SegmentsJoinWayPoints
<1>3. CASE UNCHANGED <<pos, edges, waypoints, segments>>
  BY <1>3 DEF SegmentsJoinWayPoints
<1>4. CASE GoalNotFound \/ AskTree \/ AskMap \/ Expand \/ Finish \/ Follow \/ UNCHANGED vars
  BY <1>3, <1>4 DEF GoalNotFound, AskTree, AskMap, Search, Expand, Finish, Follow, vars, mapVars,
                    searchVars, pathVars
<1> QED BY <1>1, <1>2, <1>4 DEF Next

-----------------------------------------------------------------------------
(* The first search reaches whatever can be reached.  Its costs stay below  *)
(* Inf, the cost of a vertex that has not been reached: a link costs at     *)
(* most Step, and a vertex that is recorded is at most as many links away   *)
(* from the start as vertices have been explored.                           *)

Step == (Inf - 1) \div Len(pos)

First ==
    /\ queries = 0 => /\ \A v \in Vertices : gcost[v] = Inf
                      /\ phase \in {"growing", "ready", "no_goal", "no_vertex"}
    /\ queries = 1 /\ Other =>
         /\ \A v \in Vertices \ Reached : gcost[v] = Inf
         /\ \A n \in open : n.g <= Step * Cardinality(explored)
         /\ \A v \in Reached \ OpenIds : Neighbours(v) \subseteq Reached \cup blocked

LEMMA MulMono == ASSUME NEW a \in Nat, NEW b \in Nat, NEW c \in Nat, a <= b
                 PROVE  a * c <= b * c /\ c * a <= c * b
  OBVIOUS

LEMMA DivBound == ASSUME NEW a \in Nat, NEW n \in Nat, n >= 1
                  PROVE  /\ a \div n \in Nat /\ (a \div n) * n <= a
                         /\ \A d \in Nat : d * n <= a => d <= a \div n
<1>1. a \div n \in Int /\ a % n \in Int /\ a = n * (a \div n) + (a % n) /\ 0 <= a % n /\ a % n < n
  OBVIOUS
<1>2. a \div n \in Nat
  OBVIOUS
<1> DEFINE q == a \div n
<1>3. ASSUME NEW d \in Nat, d * n <= a PROVE d <= q
  <2> SUFFICES ASSUME d >= q + 1 PROVE FALSE
    BY <1>1
  <2>1. d * n >= (q + 1) * n
    BY MulMono, <1>2
  <2> QED BY <1>1, <1>3, <2>1
<1> QED BY <1>1, <1>2, <1>3

LEMMA StepBound ==
    ASSUME TInv, pos # <<>>, NEW p \in Points, NEW q \in Points
    PROVE  Step \in Nat /\ Dist[p][q] <= Step /\ Step * Len(pos) < Inf
<1>1. /\ Len(pos) \in Nat /\ Len(pos) >= 1 /\ Dist[p][q] \in Nat /\ Inf \in Nat /\ NItrs \in Nat
      /\ Dist[p][q] * Len(pos) \in Nat
  BY DistNat, InfAssumption, BoundsAssumption DEF TInv, TypeOK
<1>2. Dist[p][q] * Len(pos) < Inf
  <2>1. CASE tree
    <3>1. Len(pos) <= NItrs + 1 /\ NItrs + 1 \in Nat
      BY <1>1, <2>1 DEF TInv, Shape
    <3>2. Dist[p][q] * Len(pos) <= Dist[p][q] * (NItrs + 1)
      BY <1>1, <3>1, MulMono
    <3>3. Dist[p][q] * (NItrs + 1) < Inf
      BY InfAssumption
    <3>4. Dist[p][q] * (NItrs + 1) \in Nat
      BY <1>1, <3>1
    <3> QED BY <1>1, <3>2, <3>3, <3>4
  <2>2. CASE ~tree
    BY <2>2, InfAssumption DEF TInv, Shape
  <2> QED BY <2>1, <2>2
<1>3. Inf - 1 \in Nat /\ Dist[p][q] * Len(pos) <= Inf - 1
  BY <1>1, <1>2
<1>4. Step \in Nat /\ Step * Len(pos) <= Inf - 1 /\ Dist[p][q] <= Step
  BY <1>1, <1>3, DivBound DEF Step
<1>5. Step * Len(pos) \in Nat
  BY <1>1, <1>4
<1> QED BY <1>1, <1>4, <1>5

LEMMA InitFirst == Init => First
  BY DEF Init, Plant, First, Other, NoQuery

LEMMA GrowFirst == ASSUME LInv, TInv, First, Grow PROVE First'
<1>1. /\ query' = query /\ queries' = queries /\ phase = "growing" /\ query = NoQuery
      /\ gcost' = Append(gcost, Inf) /\ phase' \in {"growing", "ready"}
  BY DEF Grow, LInv, GrowsFirst, searchVars
<1>2. \E x \in Points : pos' = Append(pos, x)
  BY DEF Grow, AddVertex
<1>3. pos \in Seq(Points) /\ gcost \in Seq(Nat) /\ Len(gcost) = Len(pos)
  BY DEF LInv, Typed
<1>4. ASSUME queries = 0, NEW v \in Vertices' PROVE gcost'[v] = Inf
  <2>1. v \in 1 .. Len(pos) + 1
    BY <1>2, <1>3, <1>4 DEF Vertices
  <2>2. CASE v \in 1 .. Len(pos)
    <3>1. gcost[v] = Inf
      BY <1>3, <1>4, <2>2 DEF First, Vertices
    <3> QED BY <1>1, <1>3, <2>2, <3>1
  <2>3. CASE v = Len(pos) + 1
    BY <1>1, <1>3, <2>3
  <2> QED BY <1>3, <2>1, <2>2, <2>3
<1>5. ~Other'
  BY <1>1 DEF Other, NoQuery
<1> QED BY <1>1, <1>4, <1>5 DEF First

\* A first search finds all the costs at Inf.
LEMMA BeginFirst ==
    ASSUME TInv, First, NEW q, Search(q), q.start \in Vertices,
           \A v \in Vertices : gcost'[v] # gcost[v] => v = q.start
    PROVE  First'
<1>1. /\ UNCHANGED <<pos, edges, blocked>> /\ query' = q /\ queries' = queries + 1
      /\ queries \in Nat /\ Vertices' = Vertices
  BY DEF Search, mapVars, TInv, TypeOK, Vertices
<1>2. queries' # 0
  BY <1>1
<1>3. ASSUME queries' = 1, q.start # q.end
      PROVE  /\ \A v \in Vertices \ Reached' : gcost'[v] = Inf
             /\ \A n \in open' : n.g <= Step * Cardinality(explored')
             /\ \A v \in Reached' \ OpenIds' : Neighbours(v) \subseteq Reached' \cup blocked
  <2>1. queries = 0
    BY <1>1, <1>3
  <2>3. /\ open' = {[id |-> q.start, at |-> q.from, g |-> 0, f |-> Dist[q.from][q.to]]}
        /\ explored' = {} /\ cameFrom' = <<>>
    BY <1>3 DEF Search, SearchFrom
  <2>4. Reached' = {q.start} /\ OpenIds' = {q.start}
    BY <1>1, <2>3 DEF Reached, OpenIds
  <2>5. Cardinality(explored') = 0 /\ \A n \in open' : n.g = 0
    BY <2>3, FS_EmptySet
  <2>6. Step \in Nat
    <3>1. pos # <<>> /\ Inf - 1 \in Int /\ Len(pos) \in Nat /\ Len(pos) >= 1
      BY <1>1, InfAssumption DEF Step, TInv, TypeOK, Vertices
    <3>2. Inf \in Nat /\ Inf # 0
      <4>1. PICK p \in Points : TRUE
        BY <3>1 DEF TInv, TypeOK
      <4>2. Step \in Nat /\ Step * Len(pos) < Inf
        BY <3>1, <4>1, StepBound
      <4>3. Step * Len(pos) >= 0 /\ Step * Len(pos) \in Int
        BY <3>1, <4>2
      <4> QED BY <4>2, <4>3, InfAssumption
    <3> QED BY <3>1, <3>2, DivBound DEF Step
  <2>7. \A v \in Vertices \ {q.start} : gcost'[v] = Inf
    BY <2>1 DEF First
  <2>8. ASSUME NEW v \in Reached' \ OpenIds' PROVE FALSE
    BY <2>4, <2>8
  <2> QED BY <1>1, <2>4, <2>5, <2>6, <2>7, <2>8
<1>4. /\ Other' <=> q.start # q.end
      /\ Vertices' = Vertices /\ Step' = Step /\ \A v : Neighbours(v)' = Neighbours(v)
      /\ blocked' = blocked
  BY <1>1 DEF Other, Step, Neighbours
<1> QED BY <1>2, <1>3, <1>4, Zenon DEF First

LEMMA AskFirst == ASSUME TInv, First, AskTree \/ AskMap PROVE First'
<1>1. CASE phase' = "no_vertex" /\ UNCHANGED <<mapVars, gcost, searchVars, pathVars>>
  <2>1. UNCHANGED <<pos, edges, blocked, gcost, query, queries, open, explored, cameFrom>>
    BY <1>1 DEF mapVars, searchVars
  <2>2. /\ Vertices' = Vertices /\ Other' = Other /\ Reached' = Reached /\ OpenIds' = OpenIds
        /\ Step' = Step
    BY <2>1 DEF Vertices, Other, Reached, OpenIds, Step
  <2>3. \A v : Neighbours(v)' = Neighbours(v)
    BY <2>1 DEF Neighbours, Vertices
  <2> QED BY <1>1, <2>1, <2>2, <2>3 DEF First
<1>2. CASE AskTree /\ pos # <<>>
  <2>1. Len(pos) \in Vertices
    BY <1>2 DEF TInv, TypeOK, Vertices
  <2>2. /\ Search([start |-> Len(pos), end |-> 1, from |-> Last(pos), to |-> pos[1]])
        /\ \A v \in Vertices : gcost'[v] # gcost[v] => v = Len(pos)
    BY <1>2 DEF AskTree, TInv, TypeOK
  <2> QED BY <2>1, <2>2, BeginFirst
<1>3. CASE AskMap /\ ~(phase' = "no_vertex" /\ UNCHANGED <<mapVars, gcost, searchVars, pathVars>>)
  <2>1. PICK from \in Points, to \in Points :
          /\ Found(from) # 0 /\ UNCHANGED gcost
          /\ Search([start |-> Found(from), end |-> Found(to), from |-> from, to |-> to])
    BY <1>3 DEF AskMap
  <2>2. Found(from) \in Vertices
    BY <2>1, FoundIsVertex DEF TInv, TypeOK
  <2> QED BY <2>1, <2>2, BeginFirst
<1> QED BY <1>1, <1>2, <1>3 DEF AskTree

\* The neighbours of the vertex that is explored are all reached, or blocked:
\* none is passed over for its cost.
LEMMA ExpandFirst ==
    ASSUME LInv, TInv, SInv, First, phase = "searching", Expand
    PROVE  First'
<1> PICK cv, better : Expands(cv, better)
  BY ExpandStep
<1>1. /\ Other /\ Other' /\ Frontier /\ cv \in open /\ cv.id \in Reached /\ cv.id \in OpenIds
      /\ queries # 0 /\ queries' = queries
      /\ UNCHANGED <<pos, edges, blocked, query>>
      /\ Vertices' = Vertices /\ Step' = Step /\ \A v : Neighbours(v)' = Neighbours(v)
  BY QueueIsReached DEF SInv, Walk, Expands, Other, Vertices, First, OpenIds, Step, Neighbours
<1>2. /\ better \subseteq Vertices /\ better \cap (Reached \cup explored \cup OpenIds) = {}
      /\ Reached' = Reached \cup better
      /\ OpenIds' = (OpenIds \ {cv.id}) \cup better
  BY <1>1, RecordedAreNew
<1>3. /\ better = {nv \in Neighbours(cv.id) : Better(cv, nv)}
      /\ open' = (open \ {cv}) \cup {Node(cv, nv) : nv \in better}
      /\ gcost' = [v \in Vertices |-> IF v \in better THEN CostThrough(cv, v) ELSE gcost[v]]
      /\ explored' = explored \cup {cv.id} \cup {nv \in Neighbours(cv.id) \ OpenIds : nv \in blocked}
  BY DEF Expands
<1>4. SUFFICES ASSUME queries = 1
               PROVE  /\ \A v \in Vertices \ Reached' : gcost'[v] = Inf
                      /\ \A n \in open' : n.g <= Step * Cardinality(explored')
                      /\ \A v \in Reached' \ OpenIds' : Neighbours(v) \subseteq Reached' \cup blocked
  BY <1>1, Zenon DEF First
<1>5. /\ \A v \in Vertices \ Reached : gcost[v] = Inf
      /\ \A n \in open : n.g <= Step * Cardinality(explored)
      /\ \A v \in Reached \ OpenIds : Neighbours(v) \subseteq Reached \cup blocked
  BY <1>1, <1>4 DEF First
<1>6. \A v \in Vertices \ Reached' : gcost'[v] = Inf
  BY <1>2, <1>3, <1>5
<1>7. /\ pos \in Seq(Points) /\ Len(pos) \in Nat /\ Vertices = 1 .. Len(pos)
      /\ explored \subseteq Vertices /\ explored' \subseteq Vertices
      /\ cv.id \in Vertices /\ cv.id \notin explored /\ cv.at \in Points /\ cv.g \in Nat
      /\ pos # <<>>
  <2>1. /\ pos \in Seq(Points) /\ Len(pos) \in Nat /\ Vertices = 1 .. Len(pos)
        /\ explored \subseteq Vertices
        /\ cv.id \in Vertices /\ cv.at \in Points /\ cv.g \in Nat
    BY <1>1 DEF TInv, TypeOK, Vertices
  <2>2. explored' \subseteq Vertices /\ cv.id \notin explored
    BY <1>1, <1>3, <2>1 DEF Frontier, Neighbours
  <2> QED BY <2>1, <2>2
<1> DEFINE k == Cardinality(explored)
<1>8. k \in Nat /\ Cardinality(explored') \in Nat /\ k + 1 <= Cardinality(explored')
      /\ k + 1 <= Len(pos)
  <2>1. IsFiniteSet(Vertices) /\ Cardinality(Vertices) = Len(pos)
    BY <1>7, FS_Interval
  <2>2. IsFiniteSet(explored) /\ IsFiniteSet(explored')
    BY <1>7, <2>1, FS_Subset
  <2>3. IsFiniteSet(explored \cup {cv.id}) /\ Cardinality(explored \cup {cv.id}) = k + 1
    BY <1>7, <2>2, FS_AddElement
  <2>4. Cardinality(explored \cup {cv.id}) <= Cardinality(explored')
    BY <1>3, <2>2, FS_Subset
  <2>5. Cardinality(explored \cup {cv.id}) <= Cardinality(Vertices)
    BY <1>7, <2>1, FS_Subset
  <2> QED BY <2>1, <2>2, <2>3, <2>4, <2>5, FS_CardinalityType
<1> HIDE DEF k
<1>9. Step \in Nat /\ Step * Len(pos) < Inf /\ Inf \in Nat
  BY <1>7, StepBound, InfAssumption
<1>10. ASSUME NEW nv \in Vertices
       PROVE  /\ CostThrough(cv, nv) \in Nat /\ CostThrough(cv, nv) <= Step * (k + 1)
              /\ CostThrough(cv, nv) < Inf
  <2>1. pos[nv] \in Points
    BY <1>7, <1>10
  <2>2. Dist[cv.at][pos[nv]] \in Nat /\ Dist[cv.at][pos[nv]] <= Step
    BY <1>7, <2>1, StepBound, DistNat
  <2>3. cv.g <= Step * k
    BY <1>1, <1>5 DEF k
  <2>4. Step * (k + 1) = Step * k + Step /\ Step * k \in Nat
    BY <1>8, <1>9
  <2>5. CostThrough(cv, nv) \in Nat /\ CostThrough(cv, nv) <= Step * (k + 1)
    BY <1>7, <1>9, <2>2, <2>3, <2>4 DEF CostThrough
  <2>6. Step * (k + 1) <= Step * Len(pos)
    BY <1>7, <1>8, <1>9, MulMono
  <2>7. Step * (k + 1) \in Nat /\ Step * Len(pos) \in Nat
    BY <1>7, <1>8, <1>9
  <2> QED BY <1>9, <2>5, <2>6, <2>7
<1>11. ASSUME NEW n \in open' PROVE n.g <= Step * Cardinality(explored')
  <2>1. Step * (k + 1) <= Step * Cardinality(explored')
    BY <1>8, <1>9, MulMono
  <2>2. Step * k <= Step * (k + 1)
    BY <1>8, <1>9, MulMono
  <2>3. Step * k \in Nat /\ Step * (k + 1) \in Nat /\ Step * Cardinality(explored') \in Nat
    BY <1>8, <1>9
  <2>4. CASE n \in open
    <3>1. n.g <= Step * k /\ n.g \in Nat
      BY <1>5, <2>4 DEF k, TInv, TypeOK
    <3> QED BY <2>1, <2>2, <2>3, <3>1
  <2>5. ASSUME NEW nv \in better, n = Node(cv, nv) PROVE n.g <= Step * Cardinality(explored')
    <3>1. n.g = CostThrough(cv, nv)
      BY <2>5 DEF Node
    <3>2. CostThrough(cv, nv) \in Nat /\ CostThrough(cv, nv) <= Step * (k + 1)
      BY <1>2, <1>10
    <3> QED BY <2>1, <2>3, <3>1, <3>2
  <2> QED BY <1>3, <2>4, <2>5
<1>12. Neighbours(cv.id) \subseteq Reached' \cup blocked
  <2> SUFFICES ASSUME NEW nv \in Neighbours(cv.id), nv \notin Reached, nv \notin blocked
               PROVE  nv \in better
    BY <1>2
  <2>1. nv \in Vertices /\ gcost[nv] = Inf
    BY <1>5 DEF Neighbours
  <2>2. nv \notin OpenIds \cup explored
    BY <1>1, QueueIsReached DEF Frontier, OpenIds
  <2>3. CostThrough(cv, nv) < gcost[nv]
    BY <1>10, <2>1
  <2> QED BY <1>3, <2>2, <2>3 DEF Better, CanMove, CostThrough
<1>13. ASSUME NEW v \in Reached' \ OpenIds' PROVE Neighbours(v) \subseteq Reached' \cup blocked
  <2>1. v = cv.id \/ v \in Reached \ OpenIds
    BY <1>2
  <2> QED BY <1>2, <1>5, <1>12, <2>1
<1> QED BY <1>6, <1>11, <1>13

LEMMA NextFirst == ASSUME LInv, TInv, SInv, First, [Next]_vars PROVE First'
<1>1. CASE Expand
  BY <1>1, ExpandFirst DEF Expand
<1>2. CASE GoalNotFound \/ Finish \/ Follow \/ Build \/ UNCHANGED vars
  <2>1. UNCHANGED <<pos, edges, blocked, gcost, query, queries, open, explored, cameFrom>>
    BY <1>2 DEF GoalNotFound, Finish, Follow, Build, vars, mapVars, searchVars, pathVars
  <2>2. /\ Vertices' = Vertices /\ Other' = Other /\ Reached' = Reached /\ OpenIds' = OpenIds
        /\ Step' = Step
    BY <2>1 DEF Vertices, Other, Reached, OpenIds, Step
  <2>3. \A v : Neighbours(v)' = Neighbours(v)
    BY <2>1 DEF Neighbours, Vertices
  <2>4. queries = 0 => phase' \in {"growing", "ready", "no_goal", "no_vertex"}
    BY <1>2 DEF GoalNotFound, Finish, Follow, Build, vars, First
  <2> QED BY <2>1, <2>2, <2>3, <2>4, Zenon DEF First
<1> QED BY <1>1, <1>2, GrowFirst, AskFirst DEF Next

-----------------------------------------------------------------------------
(* What the runs check.                                                     *)

LEMMA WalkOfPath == ASSUME TInv, SInv PROVE PathIsWalk
<1> SUFFICES ASSUME phase = "building" PROVE PathIsWalk
  BY DEF PathIsWalk
<1>1. /\ Other /\ path # <<>> /\ path[1] = query.start /\ path[Len(path)] = query.end
      /\ path \in Seq(Vertices)
  BY DEF SInv, Walk, TInv, TypeOK
<1>2. Len(path) \in Nat /\ DOMAIN path = 1 .. Len(path)
  BY <1>1
<1>3. PICK rank : Numbering(rank)
  BY <1>1 DEF SInv, NoCycle
<1>4. ASSUME NEW i \in 1 .. Len(path), NEW j \in 1 .. Len(path), path[i] = path[j] PROVE i = j
  <2>1. \A a, b \in 1 .. Len(path) : a < b => rank[path[a]] < rank[path[b]]
    BY <1>2, <1>3 DEF Numbering
  <2>2. rank[path[i]] \in Nat
    BY <1>1, <1>3 DEF Numbering
  <2> QED BY <1>2, <1>4, <2>1, <2>2
<1>5. Cardinality(Range(path)) = Len(path)
  <2>1. IsFiniteSet(1 .. Len(path)) /\ Cardinality(1 .. Len(path)) = Len(path)
    <3>1. PICK n \in Nat : n = Len(path)
      BY <1>2
    <3>2. 1 \in Int /\ n \in Int
      BY <3>1
    <3>3. IsFiniteSet(1 .. n) /\ Cardinality(1 .. n) = IF 1 > n THEN 0 ELSE n - 1 + 1
      BY <3>2, FS_Interval
    <3>4. Cardinality(1 .. n) = n
      BY <3>1, <3>3
    <3> QED BY <3>1, <3>3, <3>4
  <2>2. Range(path) = {path[i] : i \in 1 .. Len(path)}
    BY <1>2 DEF Range
  <2> DEFINE f == [i \in 1 .. Len(path) |-> path[i]]
  <2>3. f \in Bijection(1 .. Len(path), Range(path))
    <3>1. f \in [1 .. Len(path) -> Range(path)]
      BY <2>2
    <3>2. \A i, j \in 1 .. Len(path) : f[i] = f[j] => i = j
      BY <1>4
    <3>3. \A y \in Range(path) : \E i \in 1 .. Len(path) : f[i] = y
      BY <2>2
    <3> HIDE DEF f
    <3> QED BY <3>1, <3>2, <3>3 DEF Bijection, Injection, IsInjective, Surjection
  <2>4. Cardinality(1 .. Len(path)) = Cardinality(Range(path))
    BY <2>1, <2>3, FS_Bijection DEF ExistsBijection
  <2> QED BY <2>1, <2>4
<1>6. \A i \in 1 .. Len(path) - 1 : {path[i], path[i + 1]} \in DOMAIN edges /\ path[i + 1] \notin blocked
  BY PathAlongEdges
<1> QED BY <1>1, <1>5, <1>6 DEF PathIsWalk, Last

\* When the search gives up, what it has reached is closed up by vertices that
\* block the way; in a tree, whose vertices all have a way to the root, that is
\* not possible.
LEMMA GivesUpWithoutAWay == ASSUME LInv, TInv, SInv, First PROVE FailsOnlyWhenCutOff
<1> SUFFICES ASSUME phase = "no_path" PROVE ~tree /\ (queries = 1 => CutOff)
  BY DEF FailsOnlyWhenCutOff
<1>1. /\ Other /\ open = {} /\ OpenIds = {} /\ query.end \notin Reached /\ queries # 0
      /\ query.start \in Vertices /\ DOMAIN cameFrom \subseteq Vertices
  BY DEF SInv, Walk, OpenIds, Other, Reached, First, TInv, TypeOK, Asked
<1>2. Reached \subseteq Vertices /\ query.start \in Reached
  BY <1>1 DEF Reached
<1>3. ASSUME queries = 1 PROVE \A v \in Reached : Neighbours(v) \subseteq Reached \cup blocked
  BY <1>1, <1>3 DEF First
<1>4. ASSUME tree PROVE FALSE
  <2>1. /\ queries = 1 /\ query.end = 1 /\ blocked = {}
        /\ \A v \in Vertices \ {1} : \E w \in Vertices : w < v /\ {w, v} \in DOMAIN edges
    <3>1. /\ blocked = {} /\ queries <= 1
          /\ queries = 1 => query.end = 1
          /\ \A v \in Vertices \ {1} : \E w \in Vertices : w < v /\ {w, v} \in DOMAIN edges
      BY <1>4 DEF TInv, Shape
    <3>2. queries \in Nat
      BY BoundsAssumption DEF TInv, TypeOK
    <3>3. queries = 1
      BY <1>1, <3>1, <3>2
    <3> QED BY <3>1, <3>3
  <2>2. Vertices \subseteq Nat
    BY DEF TInv, TypeOK, Vertices
  <2>3. PICK r \in Reached : \A v \in Reached : r <= v
    BY <1>2, <2>2, LeastExists
  <2>4. r # 1 /\ r \in Vertices
    BY <1>1, <1>2, <2>1
  <2>5. PICK w \in Vertices : w < r /\ {w, r} \in DOMAIN edges
    BY <2>1, <2>4
  <2>6. {r, w} = {w, r}
    OBVIOUS
  <2>7. w \in Neighbours(r)
    BY <2>5, <2>6 DEF Neighbours
  <2>8. w \in Reached
    BY <1>3, <2>1, <2>7
  <2> QED BY <2>2, <2>3, <2>4, <2>5, <2>8
<1> QED BY <1>1, <1>2, <1>3, <1>4 DEF CutOff

AllInv == LInv /\ TInv /\ SInv /\ First

LEMMA InitAll == Init => AllInv
  BY InitInv, InitTypes, InitSearch, InitFirst DEF AllInv

LEMMA NextAll == AllInv /\ [Next]_vars => AllInv'
  BY NextInv, NextTypes, NextFirst DEF AllInv

\* Whatever the map and the query, what is handed to the path builder leads
\* from the robot's vertex to that of the goal along edges of the map, through
\* vertices that can be moved to and none of them twice.
THEOREM PlannedPathIsWalk == Spec => []Inv
<1>1. AllInv => Inv
  BY WalkOfPath DEF AllInv, TInv, Inv
<1> QED BY <1>1, InitAll, NextAll, PTL DEF Spec

\* Whatever the map, the first search on it gives up only when vertices that
\* cannot be moved to keep the goal apart, and never in a tree.
THEOREM FirstSearchIsComplete == Spec => []FailsOnlyWhenCutOff
<1>1. AllInv => FailsOnlyWhenCutOff
  BY GivesUpWithoutAWay DEF AllInv
<1> QED BY <1>1, InitAll, NextAll, PTL DEF Spec

\* However often a path object is built again, a segment that is left in it
\* joins two way points that are left too and lie on neighbouring vertices.
THEOREM SegmentsStayJoined == Spec => []SegmentsJoinWayPoints
<1>1. Init => SegmentsJoinWayPoints
  BY DEF Init, SegmentsJoinWayPoints
<1>2. AllInv /\ SegmentsJoinWayPoints /\ [Next]_vars => SegmentsJoinWayPoints'
  BY NextSegments DEF AllInv
<1> QED BY <1>1, <1>2, InitAll, NextAll, PTL DEF Spec

\* At every step of every search the cost kept in a vertex is the length of
\* the way that the recorded links make of it, whatever earlier searches left
\* in the map, for any metric, map and heuristic.
THEOREM CostsAlwaysAddUp == Spec => []CostsAddUp
<1>1. LInv => CostsAddUp
  BY DEF LInv, Links, LinkCost, CostsAddUp
<1>2. LInv /\ [Next]_vars => LInv'
  BY NextInv
<1> QED BY <1>1, <1>2, InitInv, PTL DEF Spec

-----------------------------------------------------------------------------
(* What loops over the actions and over the states compute.                 *)

\* What is good at first and is kept by every turn is good throughout.
LEMMA EveryTurn ==
    ASSUME NEW n \in Nat, NEW good, 0 \in good, \A i \in 1 .. n : i - 1 \in good => i \in good
    PROVE  \A i \in 0 .. n : i \in good
<1> DEFINE bad == {i \in 0 .. n : i \notin good}
<1>1. SUFFICES ASSUME bad # {} PROVE FALSE
  OBVIOUS
<1>2. bad \subseteq Nat
  OBVIOUS
<1>3. PICK b \in bad : \A y \in bad : b <= y
  <2> HIDE DEF bad
  <2> QED BY <1>1, <1>2, LeastExists
<1>4. b \in 1 .. n /\ b - 1 \in 0 .. n /\ ~(b <= b - 1)
  BY <1>3
<1>5. b - 1 \in good
  BY <1>3, <1>4
<1> QED BY <1>3, <1>4, <1>5

\* One of finitely many numbers is the greatest.
LEMMA GreatestExists ==
    ASSUME NEW n \in Nat \ {0}, NEW q, \A a \in 1 .. n : q[a] \in Nat
    PROVE  \E a \in 1 .. n : \A b \in 1 .. n : q[b] <= q[a]
<1> DEFINE good == {i \in 0 .. n :
                       i = 0 \/ \E a \in 1 .. i : \A b \in 1 .. i : q[b] <= q[a]}
<1>1. 0 \in good
  OBVIOUS
<1>2. ASSUME NEW i \in 1 .. n, i - 1 \in good PROVE i \in good
  <2>1. i \in 0 .. n /\ i \in 1 .. i /\ q[i] \in Nat
    OBVIOUS
  <2>2. \A b \in 1 .. i : b = i \/ b \in 1 .. (i - 1)
    OBVIOUS
  <2>3. CASE i = 1
    <3>1. \A b \in 1 .. i : q[b] <= q[i]
      BY <2>1, <2>2, <2>3
    <3> QED BY <2>1, <3>1
  <2>4. CASE i # 1
    <3>1. i - 1 # 0
      BY <2>4
    <3>2. PICK a \in 1 .. (i - 1) : \A b \in 1 .. (i - 1) : q[b] <= q[a]
      BY <1>2, <3>1
    <3>3. a \in 1 .. i /\ q[a] \in Nat /\ \A b \in 1 .. (i - 1) : q[b] \in Nat
      OBVIOUS
    <3>4. CASE q[i] <= q[a]
      <4>1. \A b \in 1 .. i : q[b] <= q[a]
        BY <2>2, <3>2, <3>4
      <4> QED BY <2>1, <3>3, <4>1
    <3>5. CASE q[a] <= q[i]
      <4>1. \A b \in 1 .. i : q[b] <= q[i]
        BY <2>1, <2>2, <3>2, <3>3, <3>5
      <4> QED BY <2>1, <4>1
    <3> QED BY <2>1, <3>3, <3>4, <3>5
  <2> QED BY <2>3, <2>4
<1>3. n \in good
  <2> HIDE DEF good
  <2>1. \A i \in 0 .. n : i \in good
    BY <1>1, <1>2, EveryTurn
  <2> QED BY <2>1
<1> QED BY <1>3

\* The function of which Total is the last value.
Sums(x) == CHOOSE sum : sum = [i \in 0 .. NActions |-> IF i = 0 THEN 0 ELSE sum[i - 1] + x[i]]

LEMMA SumsAre ==
    ASSUME NEW x
    PROVE  /\ Sums(x)[0] = 0
           /\ \A i \in Actions : Sums(x)[i] = Sums(x)[i - 1] + x[i]
           /\ Total(x) = Sums(x)[NActions]
<1>0. NActions \in Nat /\ Actions = 1 .. NActions
  BY SizesAssumption DEF Actions
<1> DEFINE law(sum, m) == sum = [i \in 0 .. m |-> IF i = 0 THEN 0 ELSE sum[i - 1] + x[i]]
           good == {m \in 0 .. NActions : \E sum : law(sum, m)}
<1>1. 0 \in good
  <2>1. PICK h : h = [i \in 0 .. 0 |-> 0]
    OBVIOUS
  <2>2. law(h, 0)
    BY <2>1
  <2> HIDE DEF law
  <2>3. 0 \in 0 .. NActions
    BY <1>0
  <2> QED BY <2>2, <2>3
<1>2. ASSUME NEW m \in 1 .. NActions, m - 1 \in good PROVE m \in good
  <2>1. PICK g : law(g, m - 1)
    BY <1>2
  <2>2. PICK h : h = [i \in 0 .. m |-> IF i = m THEN g[m - 1] + x[m] ELSE g[i]]
    OBVIOUS
  <2>3. \A i \in 0 .. m : h[i] = IF i = 0 THEN 0 ELSE h[i - 1] + x[i]
    <3> SUFFICES ASSUME NEW i \in 0 .. m PROVE h[i] = IF i = 0 THEN 0 ELSE h[i - 1] + x[i]
      OBVIOUS
    <3>1. CASE i = m
      BY <1>0, <2>2, <3>1
    <3>2. CASE i # m
      <4>1. i \in 0 .. m - 1 /\ h[i] = g[i] /\ (i # 0 => i - 1 \in 0 .. m /\ i - 1 # m)
        BY <1>0, <2>2, <3>2
      <4>2. i # 0 => h[i - 1] = g[i - 1]
        BY <2>2, <4>1
      <4>3. g[i] = IF i = 0 THEN 0 ELSE g[i - 1] + x[i]
        BY <2>1, <4>1
      <4> QED BY <4>1, <4>2, <4>3
    <3> QED BY <3>1, <3>2
  <2>4. law(h, m)
    BY <2>2, <2>3
  <2>5. m \in 0 .. NActions
    BY <1>0
  <2> HIDE DEF law
  <2> QED BY <2>4, <2>5
<1>3. NActions \in good
  <2> HIDE DEF good
  <2>1. \A i \in 1 .. NActions : i - 1 \in good => i \in good
    BY <1>2
  <2>2. \A i \in 0 .. NActions : i \in good
    BY <1>0, <1>1, <2>1, EveryTurn
  <2> QED BY <1>0, <2>2
<1>4. \E sum : law(sum, NActions)
  BY <1>3
<1>5. Sums(x) = [i \in 0 .. NActions |-> IF i = 0 THEN 0 ELSE Sums(x)[i - 1] + x[i]]
  BY <1>4 DEF Sums
<1>6. Total(x) = Sums(x)[NActions]
  BY DEF Total, Sums
<1>7. 0 \in 0 .. NActions /\ \A i \in 1 .. NActions : i \in 0 .. NActions /\ i # 0
  BY <1>0
<1>8. Sums(x)[0] = 0
  BY <1>5, <1>7
<1>9. \A i \in 1 .. NActions : Sums(x)[i] = Sums(x)[i - 1] + x[i]
  BY <1>5, <1>7
<1> QED BY <1>0, <1>6, <1>8, <1>9

\* What is added up of smaller summands is no larger.
LEMMA TotalGrows ==
    ASSUME NEW x, NEW y, \A a \in Actions : x[a] \in Nat /\ y[a] \in Nat /\ x[a] <= y[a]
    PROVE  Total(x) \in Nat /\ Total(y) \in Nat /\ Total(x) <= Total(y)
<1>0. NActions \in Nat /\ Actions = 1 .. NActions
  BY SizesAssumption DEF Actions
<1>1. PICK f : f = Sums(x)
  OBVIOUS
<1>2. PICK g : g = Sums(y)
  OBVIOUS
<1>3. f[0] = 0 /\ Total(x) = f[NActions] /\ \A i \in 1 .. NActions : f[i] = f[i - 1] + x[i]
  BY <1>0, <1>1, SumsAre
<1>4. g[0] = 0 /\ Total(y) = g[NActions] /\ \A i \in 1 .. NActions : g[i] = g[i - 1] + y[i]
  BY <1>0, <1>2, SumsAre
<1> DEFINE good == {i \in 0 .. NActions : f[i] \in Nat /\ g[i] \in Nat /\ f[i] <= g[i]}
<1>5. 0 \in good
  BY <1>0, <1>3, <1>4
<1>6. ASSUME NEW i \in 1 .. NActions, i - 1 \in good PROVE i \in good
  <2>1. PICK b \in Nat, c \in Nat : b = f[i - 1] /\ c = g[i - 1] /\ b <= c
    BY <1>6
  <2>2. PICK d \in Nat, e \in Nat : d = x[i] /\ e = y[i] /\ d <= e
    BY <1>0
  <2>3. f[i] = b + d /\ g[i] = c + e
    BY <1>3, <1>4, <2>1, <2>2
  <2>4. b \in Nat /\ c \in Nat /\ d \in Nat /\ e \in Nat /\ b <= c /\ d <= e
    BY <2>1, <2>2
  <2>5. b + d \in Nat /\ c + e \in Nat /\ b + d <= c + e
    BY <2>4
  <2>6. i \in 0 .. NActions
    BY <1>0
  <2> QED BY <2>3, <2>5, <2>6
<1>7. NActions \in good
  <2> HIDE DEF good
  <2>1. \A i \in 0 .. NActions : i \in good
    BY <1>0, <1>5, <1>6, EveryTurn
  <2> QED BY <1>0, <2>1
<1> QED BY <1>3, <1>4, <1>7

\* The same number for each of a set of actions.
LEMMA TotalOfSame ==
    ASSUME NEW S, S \subseteq Actions, NEW c \in Nat
    PROVE  /\ IsFiniteSet(S) /\ Cardinality(S) \in Nat
           /\ Total([a \in Actions |-> IF a \in S THEN c ELSE 0]) = c * Cardinality(S)
<1>0. NActions \in Nat /\ Actions = 1 .. NActions
  BY SizesAssumption DEF Actions
<1>1. PICK x : x = [a \in Actions |-> IF a \in S THEN c ELSE 0]
  OBVIOUS
<1>2. PICK f : f = Sums(x)
  OBVIOUS
<1>3. f[0] = 0 /\ Total(x) = f[NActions] /\ \A i \in 1 .. NActions : f[i] = f[i - 1] + x[i]
  BY <1>0, <1>2, SumsAre
<1> DEFINE T(i) == S \cap (1 .. i)
           good == {i \in 0 .. NActions : IsFiniteSet(T(i)) /\ f[i] = c * Cardinality(T(i))}
<1>4. 0 \in good
  <2>1. T(0) = {} /\ 0 \in 0 .. NActions
    BY <1>0
  <2>2. Cardinality({}) = 0 /\ IsFiniteSet({}) /\ c * 0 = 0
    BY FS_EmptySet
  <2> HIDE DEF T
  <2>3. IsFiniteSet(T(0)) /\ f[0] = c * Cardinality(T(0))
    BY <1>3, <2>1, <2>2
  <2> QED BY <2>1, <2>3
<1>5. ASSUME NEW i \in 1 .. NActions, i - 1 \in good PROVE i \in good
  <2>1. i \in 0 .. NActions /\ i \in Actions /\ IsFiniteSet(T(i - 1)) /\ f[i - 1] = c * Cardinality(T(i - 1))
    BY <1>0, <1>5
  <2>2. CASE i \in S
    <3>1. T(i) = T(i - 1) \cup {i} /\ i \notin T(i - 1)
      BY <1>0, <2>2
    <3> HIDE DEF T
    <3>2. PICK A : A = T(i - 1)
      OBVIOUS
    <3>3. PICK k \in Nat : k = Cardinality(A)
      BY <2>1, <3>2, FS_CardinalityType
    <3>4. IsFiniteSet(T(i)) /\ Cardinality(T(i)) = k + 1
      BY <2>1, <3>1, <3>2, <3>3, FS_AddElement
    <3>5. f[i] = c * k + c
      BY <1>1, <1>3, <2>1, <2>2, <3>2, <3>3
    <3>6. c * k + c = c * (k + 1)
      OBVIOUS
    <3>7. f[i] = c * Cardinality(T(i))
      BY <3>4, <3>5, <3>6
    <3> QED BY <2>1, <3>4, <3>7
  <2>3. CASE i \notin S
    <3>1. T(i) = T(i - 1)
      BY <1>0, <2>3
    <3> HIDE DEF T
    <3>2. PICK k \in Nat : k = Cardinality(T(i - 1))
      BY <2>1, FS_CardinalityType
    <3>3. c * k \in Nat
      OBVIOUS
    <3>4. f[i] = c * k + 0
      BY <1>1, <1>3, <2>1, <2>3, <3>2
    <3>5. f[i] = c * Cardinality(T(i))
      BY <3>1, <3>2, <3>3, <3>4
    <3> QED BY <2>1, <3>1, <3>5
  <2> QED BY <2>2, <2>3
<1>6. NActions \in good
  <2> HIDE DEF good
  <2>1. \A i \in 0 .. NActions : i \in good
    BY <1>0, <1>4, <1>5, EveryTurn
  <2> QED BY <1>0, <2>1
<1>7. S = T(NActions)
  BY <1>0
<1>8. IsFiniteSet(S) /\ Cardinality(S) \in Nat
  BY <1>6, <1>7, FS_CardinalityType
<1> QED BY <1>1, <1>3, <1>6, <1>7, <1>8

-----------------------------------------------------------------------------
(* What an action, a policy and the best action are worth, of any world and *)
(* under any policy.                                                        *)

Dynamics == [States -> [Actions -> [next : States, reward : Nat]]]
Table == [States -> Nat]
Policy == [States -> (SUBSET Actions) \ {{}}]

\* What a discount leaves of a value: Discounted, for any discount.
Share(d, x) == (x * d.num) \div d.den
QOf(dyn, d, u, s, a) == dyn[s][a].reward * Unit + Share(d, u[dyn[s][a].next])
SumOf(dyn, d, p, u, s) == Total([a \in Actions |-> IF a \in p[s] THEN QOf(dyn, d, u, s, a) ELSE 0])
MeanOf(dyn, d, p, u, s) == SumOf(dyn, d, p, u, s) \div Cardinality(p[s])
BestOf(dyn, d, u, s) == Max({QOf(dyn, d, u, s, a) : a \in Actions})

\* The values are below one another in every state.
Below(u, w) == \A s \in States : u[s] <= w[s]

LEMMA DivGrows ==
    ASSUME NEW x \in Nat, NEW y \in Nat, NEW d \in Nat \ {0}, x <= y
    PROVE  x \div d \in Nat /\ y \div d \in Nat /\ x \div d <= y \div d
<1>1. PICK p \in Nat, q \in Nat : p = x \div d /\ q = y \div d
  OBVIOUS
<1>2. d * p <= x /\ y < d * q + d
  BY <1>1
<1>3. CASE p <= q
  BY <1>1, <1>3
<1>4. CASE p > q
  <2>1. PICK e \in Nat : p = q + 1 + e
    <3>1. p - q - 1 \in Nat /\ p = q + 1 + (p - q - 1)
      BY <1>4
    <3> QED BY <3>1
  <2>2. d * p = d * q + d + d * e /\ d * e \in Nat /\ d * q \in Nat
    BY <2>1
  <2> QED BY <1>2, <2>2
<1> QED BY <1>3, <1>4

LEMMA DiscountIs ==
    ASSUME NEW d \in Gammas
    PROVE  \E n \in Nat, m \in Nat \ {0} : d.num = n /\ d.den = m /\ n <= m
  BY DEF Gammas

LEMMA ShareGrows ==
    ASSUME NEW x \in Nat, NEW y \in Nat, NEW d \in Gammas, x <= y
    PROVE  Share(d, x) \in Nat /\ Share(d, y) \in Nat /\ Share(d, x) <= Share(d, y)
<1>1. PICK n \in Nat, m \in Nat \ {0} : d.num = n /\ d.den = m
  BY DiscountIs
<1>2. PICK e \in Nat : y = x + e
  <2>1. y - x \in Nat /\ y = x + (y - x)
    OBVIOUS
  <2> QED BY <2>1
<1>3. x * n \in Nat /\ e * n \in Nat /\ y * n = x * n + e * n
  BY <1>2
<1>4. PICK p \in Nat, q \in Nat : p = x * n /\ q = y * n /\ p <= q
  BY <1>3
<1>5. p \div m \in Nat /\ q \div m \in Nat /\ p \div m <= q \div m
  BY <1>4, DivGrows
<1> QED BY <1>1, <1>4, <1>5 DEF Share

LEMMA QGrows ==
    ASSUME NEW dyn \in Dynamics, NEW d \in Gammas, NEW u \in Table, NEW w \in Table,
           Below(u, w), NEW s \in States, NEW a \in Actions
    PROVE  /\ QOf(dyn, d, u, s, a) \in Nat /\ QOf(dyn, d, w, s, a) \in Nat
           /\ QOf(dyn, d, u, s, a) <= QOf(dyn, d, w, s, a)
<1>1. dyn[s][a].next \in States /\ dyn[s][a].reward \in Nat
  BY DEF Dynamics
<1>2. PICK x \in Nat, y \in Nat : x = u[dyn[s][a].next] /\ y = w[dyn[s][a].next] /\ x <= y
  BY <1>1 DEF Table, Below
<1>3. PICK r \in Nat : r = dyn[s][a].reward * Unit
  BY <1>1, LimitsAssumption
<1>4. PICK p \in Nat, q \in Nat : p = Share(d, x) /\ q = Share(d, y) /\ p <= q
  BY <1>2, ShareGrows
<1> QED BY <1>2, <1>3, <1>4 DEF QOf

LEMMA QIsNat ==
    ASSUME NEW dyn \in Dynamics, NEW d \in Gammas, NEW u \in Table, NEW s \in States
    PROVE  \A a \in Actions : QOf(dyn, d, u, s, a) \in Nat
<1>1. Below(u, u)
  BY DEF Below, Table
<1> QED BY <1>1, QGrows

\* There is a best action.
LEMMA BestIs ==
    ASSUME NEW dyn \in Dynamics, NEW d \in Gammas, NEW u \in Table, NEW s \in States
    PROVE  /\ BestOf(dyn, d, u, s) \in Nat
           /\ \A a \in Actions : QOf(dyn, d, u, s, a) <= BestOf(dyn, d, u, s)
           /\ \E a \in Actions : QOf(dyn, d, u, s, a) = BestOf(dyn, d, u, s)
<1>0. NActions \in Nat \ {0} /\ Actions = 1 .. NActions
  BY SizesAssumption DEF Actions
<1>1. PICK q : q = [a \in Actions |-> QOf(dyn, d, u, s, a)]
  OBVIOUS
<1>2. \A a \in 1 .. NActions : q[a] \in Nat /\ q[a] = QOf(dyn, d, u, s, a)
  BY <1>0, <1>1, QIsNat
<1>6. PICK a \in 1 .. NActions : \A b \in 1 .. NActions : q[b] <= q[a]
  BY <1>0, <1>2, GreatestExists
<1> DEFINE qs == {QOf(dyn, d, u, s, b) : b \in Actions}
<1>7. q[a] \in qs /\ \A x \in qs : q[a] >= x
  BY <1>0, <1>2, <1>6
<1>8. BestOf(dyn, d, u, s) \in qs /\ \A x \in qs : BestOf(dyn, d, u, s) >= x
  <2>1. BestOf(dyn, d, u, s) = Max(qs)
    BY DEF BestOf
  <2> HIDE DEF qs
  <2> QED BY <1>7, <2>1 DEF Max
<1> QED BY <1>0, <1>2, <1>8

LEMMA BestGrows ==
    ASSUME NEW dyn \in Dynamics, NEW d \in Gammas, NEW u \in Table, NEW w \in Table,
           Below(u, w), NEW s \in States
    PROVE  BestOf(dyn, d, u, s) <= BestOf(dyn, d, w, s)
<1>1. PICK a \in Actions : QOf(dyn, d, u, s, a) = BestOf(dyn, d, u, s)
  BY BestIs
<1>2. /\ QOf(dyn, d, u, s, a) \in Nat /\ QOf(dyn, d, w, s, a) \in Nat
      /\ QOf(dyn, d, u, s, a) <= QOf(dyn, d, w, s, a)
  BY QGrows
<1>3. QOf(dyn, d, w, s, a) <= BestOf(dyn, d, w, s) /\ BestOf(dyn, d, w, s) \in Nat
  BY BestIs
<1> QED BY <1>1, <1>2, <1>3

\* A policy has an action in every state.
LEMMA PolicyCounts ==
    ASSUME NEW p \in Policy, NEW s \in States
    PROVE  /\ p[s] \subseteq Actions /\ p[s] # {}
           /\ IsFiniteSet(p[s]) /\ Cardinality(p[s]) \in Nat \ {0}
<1>1. p[s] \subseteq Actions /\ p[s] # {}
  BY DEF Policy
<1>2. 0 \in Nat /\ IsFiniteSet(p[s]) /\ Cardinality(p[s]) \in Nat
  BY <1>1, TotalOfSame
<1> QED BY <1>1, <1>2, FS_EmptySet

LEMMA MeanGrows ==
    ASSUME NEW dyn \in Dynamics, NEW d \in Gammas, NEW p \in Policy,
           NEW u \in Table, NEW w \in Table, Below(u, w), NEW s \in States
    PROVE  /\ MeanOf(dyn, d, p, u, s) \in Nat /\ MeanOf(dyn, d, p, w, s) \in Nat
           /\ MeanOf(dyn, d, p, u, s) <= MeanOf(dyn, d, p, w, s)
<1>1. PICK x : x = [a \in Actions |-> IF a \in p[s] THEN QOf(dyn, d, u, s, a) ELSE 0]
  OBVIOUS
<1>2. PICK y : y = [a \in Actions |-> IF a \in p[s] THEN QOf(dyn, d, w, s, a) ELSE 0]
  OBVIOUS
<1>3. \A a \in Actions : x[a] \in Nat /\ y[a] \in Nat /\ x[a] <= y[a]
  BY <1>1, <1>2, QGrows
<1>4. Total(x) \in Nat /\ Total(y) \in Nat /\ Total(x) <= Total(y)
  BY <1>3, TotalGrows
<1>5. Cardinality(p[s]) \in Nat \ {0}
  BY PolicyCounts
<1>6. /\ Total(x) \div Cardinality(p[s]) \in Nat /\ Total(y) \div Cardinality(p[s]) \in Nat
      /\ Total(x) \div Cardinality(p[s]) <= Total(y) \div Cardinality(p[s])
  BY <1>4, <1>5, DivGrows
<1> QED BY <1>1, <1>2, <1>6 DEF MeanOf, SumOf

\* What a policy brings is not more than what the best action does, and as
\* much if it has best actions only.
LEMMA BestBeatsMean ==
    ASSUME NEW dyn \in Dynamics, NEW d \in Gammas, NEW p \in Policy,
           NEW u \in Table, NEW s \in States
    PROVE  /\ MeanOf(dyn, d, p, u, s) <= BestOf(dyn, d, u, s)
           /\ (\A a \in p[s] : QOf(dyn, d, u, s, a) = BestOf(dyn, d, u, s)) =>
                 MeanOf(dyn, d, p, u, s) = BestOf(dyn, d, u, s)
<1>1. PICK n \in Nat \ {0} : n = Cardinality(p[s])
  BY PolicyCounts
<1>2. PICK b \in Nat : b = BestOf(dyn, d, u, s)
  BY BestIs
<1>3. PICK x : x = [a \in Actions |-> IF a \in p[s] THEN QOf(dyn, d, u, s, a) ELSE 0]
  OBVIOUS
<1>4. PICK y : y = [a \in Actions |-> IF a \in p[s] THEN b ELSE 0]
  OBVIOUS
<1>5. \A a \in Actions : x[a] \in Nat /\ y[a] \in Nat /\ x[a] <= y[a]
  BY <1>2, <1>3, <1>4, BestIs, QIsNat
<1>6. Total(x) \in Nat /\ Total(y) \in Nat /\ Total(x) <= Total(y)
  BY <1>5, TotalGrows
<1>7. Total(y) = b * n
  BY <1>1, <1>4, PolicyCounts, TotalOfSame
<1>8. (b * n) \div n = b
  OBVIOUS
<1>9. MeanOf(dyn, d, p, u, s) = Total(x) \div n
  BY <1>1, <1>3 DEF MeanOf, SumOf
<1>10. Total(x) \div n <= Total(y) \div n
  BY <1>6, DivGrows
<1>11. MeanOf(dyn, d, p, u, s) <= b
  BY <1>7, <1>8, <1>9, <1>10
<1>12. ASSUME \A a \in p[s] : QOf(dyn, d, u, s, a) = b PROVE MeanOf(dyn, d, p, u, s) = b
  <2>1. x = y
    BY <1>3, <1>4, <1>12
  <2> QED BY <1>7, <1>8, <1>9, <2>1
<1> QED BY <1>2, <1>11, <1>12

-----------------------------------------------------------------------------
(* The value of a state that a turn computes, and a pass over the states.   *)

NewOf(al, dyn, d, p, u, s) ==
    IF al \in {"evaluation", "policy"} THEN MeanOf(dyn, d, p, u, s) ELSE BestOf(dyn, d, u, s)

\* No state has a value above that which the next turn computes for it.
Rising(al, dyn, d, p, u) == \A s \in States : u[s] <= NewOf(al, dyn, d, p, u, s)

LEMMA OfTheWorld ==
    /\ \A u, s, a : StateAction(u, s, a) = QOf(world, discount, u, s, a)
    /\ \A u, s : PolicyValue(u, s) = MeanOf(world, discount, policy, u, s)
    /\ \A u, s : MaxValue(u, s) = BestOf(world, discount, u, s)
    /\ \A u, s : NewValue(u, s) = NewOf(algo, world, discount, policy, u, s)
<1>1. \A u, s, a : StateAction(u, s, a) = QOf(world, discount, u, s, a)
  BY DEF StateAction, Discounted, QOf, Share
<1>2. \A u, s : PolicyValue(u, s) = MeanOf(world, discount, policy, u, s)
  BY DEF PolicyValue, PolicySum, StateAction, Discounted, MeanOf, SumOf, QOf, Share
<1>3. \A u, s : MaxValue(u, s) = BestOf(world, discount, u, s)
  BY DEF MaxValue, StateAction, Discounted, BestOf, QOf, Share
<1> QED BY <1>1, <1>2, <1>3 DEF NewValue, NewOf

LEMMA NewGrows ==
    ASSUME NEW al, NEW dyn \in Dynamics, NEW d \in Gammas, NEW p \in Policy,
           NEW u \in Table, NEW w \in Table, Below(u, w), NEW s \in States
    PROVE  /\ NewOf(al, dyn, d, p, u, s) \in Nat /\ NewOf(al, dyn, d, p, w, s) \in Nat
           /\ NewOf(al, dyn, d, p, u, s) <= NewOf(al, dyn, d, p, w, s)
<1>1. CASE al \in {"evaluation", "policy"}
  BY <1>1, MeanGrows DEF NewOf
<1>2. CASE al \notin {"evaluation", "policy"}
  <2>1. BestOf(dyn, d, u, s) \in Nat /\ BestOf(dyn, d, w, s) \in Nat
    BY BestIs
  <2>2. BestOf(dyn, d, u, s) <= BestOf(dyn, d, w, s)
    BY BestGrows
  <2> QED BY <1>2, <2>1, <2>2 DEF NewOf
<1> QED BY <1>1, <1>2

\* To give one state its new value leaves no value above the next.
LEMMA OneStateRises ==
    ASSUME NEW al, NEW dyn \in Dynamics, NEW d \in Gammas, NEW p \in Policy,
           NEW u \in Table, Rising(al, dyn, d, p, u), NEW s \in States,
           NEW w, w = [u EXCEPT ![s] = NewOf(al, dyn, d, p, u, s)]
    PROVE  w \in Table /\ Below(u, w) /\ Rising(al, dyn, d, p, w)
<1>1. PICK x \in Nat : x = NewOf(al, dyn, d, p, u, s)
  <2>1. Below(u, u)
    BY DEF Below, Table
  <2> QED BY <2>1, NewGrows
<1>2. u[s] <= x
  BY <1>1 DEF Rising
<1>3. w \in Table /\ \A t \in States : w[t] = IF t = s THEN x ELSE u[t]
  BY <1>1 DEF Table
<1>4. Below(u, w)
  <2>1. \A t \in States : u[t] <= u[t]
    BY DEF Table
  <2> QED BY <1>2, <1>3, <2>1 DEF Below
<1>5. ASSUME NEW t \in States PROVE w[t] <= NewOf(al, dyn, d, p, w, t)
  <2>1. PICK y \in Nat, z \in Nat :
           y = NewOf(al, dyn, d, p, u, t) /\ z = NewOf(al, dyn, d, p, w, t) /\ y <= z
    BY <1>3, <1>4, NewGrows
  <2>2. w[t] \in Nat /\ w[t] <= y
    <3>1. CASE t = s
      BY <1>1, <1>3, <2>1, <3>1
    <3>2. CASE t # s
      <4>1. w[t] = u[t] /\ u[t] \in Nat
        BY <1>3, <3>2 DEF Table
      <4>2. u[t] <= y
        BY <2>1 DEF Rising
      <4> QED BY <4>1, <4>2
    <3> QED BY <3>1, <3>2
  <2> QED BY <2>1, <2>2
<1> QED BY <1>3, <1>4, <1>5 DEF Rising

\* The function that Tables is.
LEMMA TablesAre ==
    ASSUME NEW u
    PROVE  /\ Tables(u)[0] = u
           /\ \A i \in States : Tables(u)[i] =
                 [Tables(u)[i - 1] EXCEPT
                     ![i] = NewOf(algo, world, discount, policy, Tables(u)[i - 1], i)]
<1>0. NStates \in Nat /\ States = 1 .. NStates
  BY SizesAssumption DEF States
<1> DEFINE next(w, i) == [w EXCEPT ![i] = NewValue(w, i)]
           law(w, m) == w = [i \in 0 .. m |-> IF i = 0 THEN u ELSE next(w[i - 1], i)]
           good == {m \in 0 .. NStates : \E w : law(w, m)}
<1> HIDE DEF next
<1>1. 0 \in good
  <2>1. PICK h : h = [i \in 0 .. 0 |-> u]
    OBVIOUS
  <2>2. law(h, 0)
    BY <2>1
  <2> HIDE DEF law
  <2>3. 0 \in 0 .. NStates
    BY <1>0
  <2> QED BY <2>2, <2>3
<1>2. ASSUME NEW m \in 1 .. NStates, m - 1 \in good PROVE m \in good
  <2>1. PICK g : law(g, m - 1)
    BY <1>2
  <2>2. PICK h : h = [i \in 0 .. m |-> IF i = m THEN next(g[m - 1], m) ELSE g[i]]
    OBVIOUS
  <2>3. \A i \in 0 .. m : h[i] = IF i = 0 THEN u ELSE next(h[i - 1], i)
    <3> SUFFICES ASSUME NEW i \in 0 .. m PROVE h[i] = IF i = 0 THEN u ELSE next(h[i - 1], i)
      OBVIOUS
    <3>1. CASE i = m
      BY <1>0, <2>2, <3>1
    <3>2. CASE i # m
      <4>1. i \in 0 .. m - 1 /\ h[i] = g[i] /\ (i # 0 => i - 1 \in 0 .. m /\ i - 1 # m)
        BY <1>0, <2>2, <3>2
      <4>2. i # 0 => h[i - 1] = g[i - 1]
        BY <2>2, <4>1
      <4>3. g[i] = IF i = 0 THEN u ELSE next(g[i - 1], i)
        BY <2>1, <4>1
      <4> QED BY <4>1, <4>2, <4>3
    <3> QED BY <3>1, <3>2
  <2>4. law(h, m)
    BY <2>2, <2>3
  <2>5. m \in 0 .. NStates
    BY <1>0
  <2> HIDE DEF law
  <2> QED BY <2>4, <2>5
<1>3. NStates \in good
  <2> HIDE DEF good
  <2>1. \A i \in 1 .. NStates : i - 1 \in good => i \in good
    BY <1>2
  <2>2. \A i \in 0 .. NStates : i \in good
    BY <1>0, <1>1, <2>1, EveryTurn
  <2> QED BY <1>0, <2>2
<1>4. \E w : law(w, NStates)
  BY <1>3
<1>5. Tables(u) = CHOOSE w : law(w, NStates)
  BY DEF Tables, next
<1>6. law(Tables(u), NStates)
  <2> HIDE DEF law
  <2> QED BY <1>4, <1>5
<1>7. 0 \in 0 .. NStates /\ \A i \in 1 .. NStates : i \in 0 .. NStates /\ i # 0
  BY <1>0
<1>8. Tables(u)[0] = u
  BY <1>6, <1>7
<1>9. \A i \in 1 .. NStates : Tables(u)[i] = next(Tables(u)[i - 1], i)
  BY <1>6, <1>7
<1>10. \A w, i : next(w, i) = [w EXCEPT ![i] = NewOf(algo, world, discount, policy, w, i)]
  BY OfTheWorld DEF next
<1> QED BY <1>0, <1>8, <1>9, <1>10

Known == algo \in {"evaluation", "value", "policy", "sync"}
         /\ world \in Dynamics /\ discount \in Gammas

\* These values were computed from tables between the old one and the new one.
Computed(u, w, done) ==
    \A s \in done : \E x \in Table : /\ Below(u, x) /\ Below(x, w)
                                   /\ w[s] = NewOf(algo, world, discount, policy, x, s)

LEMMA BelowAgain ==
    ASSUME NEW u \in Table, NEW x \in Table, NEW w \in Table, Below(u, x), Below(x, w)
    PROVE  Below(u, w)
<1>1. \A s \in States : u[s] \in Nat /\ x[s] \in Nat /\ w[s] \in Nat /\ u[s] <= x[s] /\ x[s] <= w[s]
  BY DEF Below, Table
<1> QED BY <1>1 DEF Below

\* A pass in place lets no value fall, and leaves none above the next.
LEMMA SweepRises ==
    ASSUME Known, policy \in Policy, NEW u \in Table, Rising(algo, world, discount, policy, u)
    PROVE  /\ Sweep(u) \in Table /\ Below(u, Sweep(u))
           /\ Rising(algo, world, discount, policy, Sweep(u))
           /\ Computed(u, Sweep(u), States)
<1>0. /\ NStates \in Nat /\ States = 1 .. NStates
      /\ world \in Dynamics /\ discount \in Gammas
  BY SizesAssumption DEF States, Known
<1>1. PICK w : w = Tables(u)
  OBVIOUS
<1>2. /\ w[0] = u /\ Sweep(u) = w[NStates]
      /\ \A i \in 1 .. NStates :
            w[i] = [w[i - 1] EXCEPT ![i] = NewOf(algo, world, discount, policy, w[i - 1], i)]
  BY <1>0, <1>1, TablesAre DEF Sweep
<1> DEFINE good == {i \in 0 .. NStates : /\ w[i] \in Table /\ Below(u, w[i])
                                         /\ Rising(algo, world, discount, policy, w[i])
                                         /\ Computed(u, w[i], 1 .. i)}
<1>3. 0 \in good
  <2>1. Below(u, u)
    BY DEF Below, Table
  <2>2. Computed(u, u, 1 .. 0)
    BY DEF Computed
  <2> QED BY <1>0, <1>2, <2>1, <2>2
<1>4. ASSUME NEW i \in 1 .. NStates, i - 1 \in good PROVE i \in good
  <2>1. PICK x : x = w[i - 1]
    OBVIOUS
  <2>2. PICK y : y = w[i]
    OBVIOUS
  <2>3. /\ x \in Table /\ Below(u, x) /\ Rising(algo, world, discount, policy, x)
        /\ Computed(u, x, 1 .. (i - 1))
    BY <1>4, <2>1
  <2>4. y = [x EXCEPT ![i] = NewOf(algo, world, discount, policy, x, i)] /\ i \in States
    BY <1>0, <1>2, <2>1, <2>2
  <2>5. y \in Table /\ Below(x, y) /\ Rising(algo, world, discount, policy, y)
    BY <1>0, <2>3, <2>4, OneStateRises
  <2>6. Below(u, y)
    BY <2>3, <2>5, BelowAgain
  <2>7. Computed(u, y, 1 .. i)
    <3>1. DOMAIN x = States /\ y[i] = NewOf(algo, world, discount, policy, x, i)
      BY <2>3, <2>4 DEF Table
    <3>2. ASSUME NEW s \in 1 .. (i - 1)
          PROVE  \E z \in Table : /\ Below(u, z) /\ Below(z, y)
                                 /\ y[s] = NewOf(algo, world, discount, policy, z, s)
      <4>1. PICK z \in Table : /\ Below(u, z) /\ Below(z, x)
                              /\ x[s] = NewOf(algo, world, discount, policy, z, s)
        BY <2>3 DEF Computed
      <4>2. s # i /\ s \in States
        BY <1>0
      <4>3. y[s] = x[s]
        BY <2>4, <3>1, <4>2
      <4>4. Below(z, y)
        BY <2>3, <2>5, <4>1, BelowAgain
      <4> QED BY <4>1, <4>3, <4>4
    <3>3. \A s \in 1 .. i : s = i \/ s \in 1 .. (i - 1)
      OBVIOUS
    <3> QED BY <2>3, <2>5, <3>1, <3>2, <3>3 DEF Computed
  <2>8. i \in 0 .. NStates
    BY <1>0
  <2> QED BY <2>2, <2>5, <2>6, <2>7, <2>8
<1>5. NStates \in good
  <2> HIDE DEF good
  <2>1. \A i \in 0 .. NStates : i \in good
    BY <1>0, <1>3, <1>4, EveryTurn
  <2> QED BY <1>0, <2>1
<1> QED BY <1>0, <1>2, <1>5

\* So does a pass from one vector to the other.
LEMMA SyncRises ==
    ASSUME Known, policy \in Policy, algo = "sync", NEW u \in Table,
           Rising(algo, world, discount, policy, u)
    PROVE  /\ SyncSweep(u) \in Table /\ Below(u, SyncSweep(u))
           /\ Rising(algo, world, discount, policy, SyncSweep(u))
           /\ Computed(u, SyncSweep(u), States)
<1>1. PICK w : w = SyncSweep(u)
  OBVIOUS
<1>2. w = [s \in States |-> NewOf(algo, world, discount, policy, u, s)]
  BY <1>1, OfTheWorld DEF SyncSweep, NewOf
<1>3. world \in Dynamics /\ discount \in Gammas
  BY DEF Known
<1>4. \A s \in States : NewOf(algo, world, discount, policy, u, s) \in Nat
  <2>1. Below(u, u)
    BY DEF Below, Table
  <2> QED BY <1>3, <2>1, NewGrows
<1>5. w \in Table /\ Below(u, w)
  BY <1>2, <1>4 DEF Table, Below, Rising
<1>6. Rising(algo, world, discount, policy, w)
  <2>1. \A s \in States : NewOf(algo, world, discount, policy, u, s)
                             <= NewOf(algo, world, discount, policy, w, s)
    BY <1>3, <1>5, NewGrows
  <2> QED BY <1>2, <2>1 DEF Rising
<1>7. Computed(u, w, States)
  <2>1. Below(u, u)
    BY DEF Below, Table
  <2> QED BY <1>2, <1>5, <2>1 DEF Computed
<1> QED BY <1>1, <1>5, <1>6, <1>7

-----------------------------------------------------------------------------
(* The invariant of the learners.                                           *)

Control(c, max) == c = [itr |-> c.itr, res |-> c.res] /\ c.itr \in 0 .. max

\* A PolicyIteration has its values in the evaluation and hands them on.
Rises == /\ algo # "policy" => Rising(algo, world, discount, policy, values)
         /\ algo = "policy" => /\ Rising(algo, world, discount, policy, ev)
                               /\ Below(values, ev)

LearnersInv == /\ Known
               /\ pc \in {"idle", "loop", "evaluate"}
               /\ pc = "evaluate" => algo = "policy"
               /\ Control(main, MaxItrs) /\ Control(eval, MaxEval)
               /\ values \in Table /\ ev \in Table /\ policy \in Policy
               /\ Rises

LEMMA BelowItself == ASSUME NEW u \in Table PROVE Below(u, u)
  BY DEF Below, Table

LEMMA FreshIs == Control(Fresh, MaxItrs) /\ Control(Fresh, MaxEval)
  BY LimitsAssumption DEF Control, Fresh

LEMMA CountedIs ==
    ASSUME NEW c, NEW max \in Nat, Control(c, max)
    PROVE  /\ Control(Counted(c, max), max)
           /\ \A x : Control([Counted(c, max) EXCEPT !.res = x], max)
           /\ \A x : Control([c EXCEPT !.res = x], max)
<1>1. PICK i, r : i \in 0 .. max /\ c = [itr |-> i, res |-> r]
  BY DEF Control
<1>2. PICK j : j = IF i < max THEN i + 1 ELSE i
  OBVIOUS
<1>3. j \in 0 .. max
  <2>1. i \in 0 .. max
    BY <1>1
  <2>2. CASE i < max
    BY <1>2, <2>1, <2>2
  <2>3. CASE ~(i < max)
    BY <1>2, <2>1, <2>3
  <2> QED BY <2>2, <2>3
<1>4. Counted(c, max) = [itr |-> j, res |-> r]
  BY <1>1, <1>2 DEF Counted
<1>5. \A n, x, y : [[itr |-> n, res |-> y] EXCEPT !.res = x] = [itr |-> n, res |-> x]
  OBVIOUS
<1>6. \A n, x : n \in 0 .. max => Control([itr |-> n, res |-> x], max)
  BY DEF Control
<1> QED BY <1>1, <1>3, <1>4, <1>5, <1>6

LEMMA LearnersInit == DPInit => LearnersInv
<1> SUFFICES ASSUME DPInit PROVE LearnersInv
  OBVIOUS
<1>1. /\ algo \in {"evaluation", "value", "policy", "sync"} /\ world \in Worlds
      /\ discount \in Discounts[algo] /\ pc = "idle" /\ main = Fresh /\ eval = Fresh
      /\ values = [s \in States |-> 0] /\ ev = [s \in States |-> 0]
      /\ policy = [s \in States |-> Actions]
  BY DEF DPInit, Algorithms, UniformPolicy
<1>2. Known
  BY <1>1, WorldsAssumption, DiscountsAssumption DEF Known, Dynamics, Algorithms
<1>3. values \in Table /\ ev \in Table /\ values = ev
  BY <1>1 DEF Table
<1>4. policy \in Policy
  <2>1. 1 \in Actions
    BY SizesAssumption DEF Actions
  <2> QED BY <1>1, <2>1 DEF Policy
<1>5. Rising(algo, world, discount, policy, values)
  <2>1. \A s \in States : NewOf(algo, world, discount, policy, values, s) \in Nat
    BY <1>2, <1>3, <1>4, BelowItself, NewGrows DEF Known
  <2> QED BY <1>1, <2>1 DEF Rising
<1>6. Below(values, ev)
  BY <1>3, BelowItself
<1>7. Control(main, MaxItrs) /\ Control(eval, MaxEval)
  BY <1>1, FreshIs
<1> QED BY <1>1, <1>2, <1>3, <1>4, <1>5, <1>6, <1>7 DEF LearnersInv, Rises

\* What every step has to show.
Good == LearnersInv' /\ Below(values, values') /\ Below(ev, ev')

\* A turn of an algorithm of one vector.
LEMMA TurnGood ==
    ASSUME LearnersInv, algo # "policy", NEW w \in Table, Update(w), Below(values, w),
           Rising(algo, world, discount, policy, w)
    PROVE  Good
<1>1. /\ values' = w /\ UNCHANGED <<algo, world, discount, pc, eval, ev, policy>>
      /\ main' = [Counted(main, MaxItrs) EXCEPT !.res = Distance(values, w)]
  BY DEF Update, given
<1>2. Control(main', MaxItrs)
  <2>1. Control(main, MaxItrs) /\ MaxItrs \in Nat
    BY LimitsAssumption DEF LearnersInv
  <2> QED BY <1>1, <2>1, CountedIs
<1>3. Known' /\ Control(eval', MaxEval)
  BY <1>1 DEF LearnersInv, Known
<1>4. Rises'
  BY <1>1 DEF Rises
<1>5. Below(ev, ev')
  BY <1>1, BelowItself DEF LearnersInv
<1> QED BY <1>1, <1>2, <1>3, <1>4, <1>5 DEF Good, LearnersInv

LEMMA SweepGood ==
    ASSUME LearnersInv, EvaluationStep \/ ValueStep \/ SyncStep PROVE Good
<1>1. algo # "policy" => /\ Known /\ policy \in Policy /\ values \in Table
                         /\ Rising(algo, world, discount, policy, values)
  BY DEF LearnersInv, Rises
<1>2. CASE EvaluationStep \/ ValueStep
  <2>1. algo # "policy" /\ Update(Sweep(values))
    BY <1>2 DEF EvaluationStep, ValueStep
  <2>2. /\ Sweep(values) \in Table /\ Below(values, Sweep(values))
        /\ Rising(algo, world, discount, policy, Sweep(values))
    BY <1>1, <2>1, SweepRises
  <2> QED BY <2>1, <2>2, TurnGood
<1>3. CASE SyncStep
  <2>1. algo = "sync" /\ algo # "policy" /\ Update(SyncSweep(values))
    BY <1>3 DEF SyncStep
  <2>2. /\ SyncSweep(values) \in Table /\ Below(values, SyncSweep(values))
        /\ Rising(algo, world, discount, policy, SyncSweep(values))
    BY <1>1, <2>1, SyncRises
  <2> QED BY <2>1, <2>2, TurnGood
<1> QED BY <1>2, <1>3

\* Steps that touch no value and no policy.
LEMMA BeginGood == ASSUME LearnersInv, Train \/ PolicyStep PROVE Good
<1>1. /\ UNCHANGED <<algo, world, discount, values, ev, policy>>
      /\ pc' \in {"loop", "evaluate"} /\ (pc' = "evaluate" => algo = "policy")
      /\ main' \in {main, Fresh, Counted(main, MaxItrs)} /\ eval' = Fresh
  BY DEF Train, PolicyStep, given
<1>2. Control(main', MaxItrs)
  <2>1. Control(main, MaxItrs) /\ MaxItrs \in Nat
    BY LimitsAssumption DEF LearnersInv
  <2>2. Control(Counted(main, MaxItrs), MaxItrs)
    BY <2>1, CountedIs
  <2> QED BY <1>1, <2>1, <2>2, FreshIs
<1>3. Known' /\ Control(eval', MaxEval)
  BY <1>1, FreshIs DEF LearnersInv, Known
<1>4. Rises'
  BY <1>1 DEF LearnersInv, Rises
<1>5. Below(values, values') /\ Below(ev, ev')
  BY <1>1, BelowItself DEF LearnersInv
<1> QED BY <1>1, <1>2, <1>3, <1>4, <1>5 DEF Good, LearnersInv

LEMMA EvaluateGood == ASSUME LearnersInv, Evaluate PROVE Good
<1>1. /\ pc = "evaluate" /\ ev' = Sweep(ev)
      /\ eval' = [Counted(eval, MaxEval) EXCEPT !.res = Distance(ev, ev')]
      /\ UNCHANGED <<algo, world, discount, pc, main, values, policy>>
  BY DEF Evaluate, given
<1>2. /\ Known /\ policy \in Policy /\ ev \in Table /\ values \in Table /\ Below(values, ev)
      /\ algo = "policy" /\ Rising(algo, world, discount, policy, ev)
  BY <1>1 DEF LearnersInv, Rises
<1>3. PICK w : w = Sweep(ev)
  OBVIOUS
<1>4. w \in Table /\ Below(ev, w) /\ Rising(algo, world, discount, policy, w)
  BY <1>2, <1>3, SweepRises
<1>5. Below(values, w)
  BY <1>2, <1>4, BelowAgain
<1>6. Control(eval', MaxEval)
  <2>1. Control(eval, MaxEval) /\ MaxEval \in Nat
    BY LimitsAssumption DEF LearnersInv
  <2> QED BY <1>1, <2>1, CountedIs
<1>7. Known' /\ Control(main', MaxItrs)
  BY <1>1 DEF LearnersInv, Known
<1>8. Rises'
  BY <1>1, <1>2, <1>3, <1>4, <1>5 DEF Rises
<1>9. Below(values, values') /\ Below(ev, ev')
  BY <1>1, <1>2, <1>3, <1>4, BelowItself
<1> QED BY <1>1, <1>2, <1>3, <1>4, <1>6, <1>7, <1>8, <1>9 DEF Good, LearnersInv

\* The best actions of all states are a policy, and no policy brings more.
LEMMA ImprovedIs ==
    ASSUME Known, policy \in Policy, NEW u \in Table, NEW al,
           al = "policy" => Rising(al, world, discount, policy, u)
    PROVE  /\ Improved(u) \in Policy
           /\ al = "policy" => Rising(al, world, discount, Improved(u), u)
<1>1. world \in Dynamics /\ discount \in Gammas
  BY DEF Known
<1>2. PICK p : p = Improved(u)
  OBVIOUS
<1>3. /\ DOMAIN p = States /\ p = [s \in States |-> p[s]]
      /\ \A s \in States :
            p[s] = {a \in Actions : QOf(world, discount, u, s, a) = BestOf(world, discount, u, s)}
  BY <1>2, OfTheWorld DEF Improved, BestActions
<1>4. p \in Policy
  <2>1. ASSUME NEW s \in States PROVE p[s] \in (SUBSET Actions) \ {{}}
    <3>1. \E a \in Actions : QOf(world, discount, u, s, a) = BestOf(world, discount, u, s)
      BY <1>1, BestIs
    <3> QED BY <1>3, <3>1
  <2> QED BY <1>3, <2>1 DEF Policy
<1>5. ASSUME al = "policy" PROVE Rising(al, world, discount, p, u)
  <2> SUFFICES ASSUME NEW s \in States PROVE u[s] <= NewOf(al, world, discount, p, u, s)
    BY DEF Rising
  <2>1. PICK b \in Nat : b = BestOf(world, discount, u, s)
    BY <1>1, BestIs
  <2>2. PICK m \in Nat : m = MeanOf(world, discount, policy, u, s)
    BY <1>1, BelowItself, MeanGrows
  <2>3. m <= b
    BY <1>1, <2>1, <2>2, BestBeatsMean
  <2>4. \A a \in p[s] : QOf(world, discount, u, s, a) = BestOf(world, discount, u, s)
    BY <1>3
  <2>5. MeanOf(world, discount, p, u, s) = b
    BY <1>1, <1>4, <2>1, <2>4, BestBeatsMean
  <2>6. u[s] \in Nat /\ u[s] <= m
    BY <1>5, <2>2 DEF Rising, NewOf, Table
  <2>7. NewOf(al, world, discount, p, u, s) = b
    BY <1>5, <2>5 DEF NewOf
  <2> QED BY <2>3, <2>6, <2>7
<1> QED BY <1>2, <1>4, <1>5

LEMMA ImproveGood == ASSUME LearnersInv, Improve PROVE Good
<1>1. /\ pc = "evaluate" /\ pc' = "loop" /\ policy' = Improved(ev)
      /\ \/ main' = [main EXCEPT !.res = 0] /\ eval' = Counted(eval, MaxEval)
         \/ main' = main /\ eval' = Fresh
      /\ UNCHANGED <<algo, world, discount, values, ev>>
  BY DEF Improve, given
<1>2. /\ Known /\ policy \in Policy /\ ev \in Table /\ values \in Table /\ Below(values, ev)
      /\ algo = "policy" /\ Rising(algo, world, discount, policy, ev)
  BY <1>1 DEF LearnersInv, Rises
<1>3. PICK p : p = Improved(ev)
  OBVIOUS
<1>4. p \in Policy /\ Rising(algo, world, discount, p, ev)
  BY <1>2, <1>3, ImprovedIs
<1>5. Control(main', MaxItrs) /\ Control(eval', MaxEval)
  <2>1. Control(main, MaxItrs) /\ MaxItrs \in Nat /\ Control(eval, MaxEval) /\ MaxEval \in Nat
    BY LimitsAssumption DEF LearnersInv
  <2>2. Control([main EXCEPT !.res = 0], MaxItrs) /\ Control(Counted(eval, MaxEval), MaxEval)
    BY <2>1, CountedIs
  <2> QED BY <1>1, <2>1, <2>2, FreshIs
<1>6. Known'
  BY <1>1, <1>2 DEF Known
<1>7. Rises'
  BY <1>1, <1>2, <1>3, <1>4 DEF Rises
<1>8. Below(values, values') /\ Below(ev, ev')
  BY <1>1, <1>2, BelowItself
<1> QED BY <1>1, <1>2, <1>3, <1>4, <1>5, <1>6, <1>7, <1>8 DEF Good, LearnersInv

LEMMA FinishGood == ASSUME LearnersInv, FinishTraining PROVE Good
<1>1. /\ pc = "loop" /\ pc' = "idle" /\ main' = Counted(main, MaxItrs)
      /\ policy' = IF algo = "value" THEN Improved(values) ELSE policy
      /\ values' = IF algo = "policy" THEN ev ELSE values
      /\ UNCHANGED <<algo, world, discount, eval, ev>>
  BY DEF FinishTraining, given
<1>2. Known /\ policy \in Policy /\ values \in Table /\ ev \in Table
  BY DEF LearnersInv
<1>3. policy' \in Policy
  <2>1. Improved(values) \in Policy
    <3>1. "value" = "policy" => Rising("value", world, discount, policy, values)
      OBVIOUS
    <3> QED BY <1>2, <3>1, ImprovedIs
  <2> QED BY <1>1, <1>2, <2>1
<1>4. values' \in Table /\ Below(values, values') /\ Below(ev, ev')
  BY <1>1, <1>2, BelowItself DEF LearnersInv, Rises
<1>5. Rises'
  <2>1. CASE algo = "policy"
    <3>1. Rising(algo, world, discount, policy, ev) /\ Below(ev, ev)
      BY <1>2, <2>1, BelowItself DEF LearnersInv, Rises
    <3> QED BY <1>1, <2>1, <3>1 DEF Rises
  <2>2. CASE algo = "value"
    <3>1. Rising(algo, world, discount, policy, values)
      BY <2>2 DEF LearnersInv, Rises
    <3>2. \A p : Rising(algo, world, discount, p, values)
      BY <2>2, <3>1 DEF Rising, NewOf
    <3> QED BY <1>1, <2>2, <3>2 DEF Rises
  <2>3. CASE algo # "policy" /\ algo # "value"
    <3>1. Rising(algo, world, discount, policy, values)
      BY <2>3 DEF LearnersInv, Rises
    <3> QED BY <1>1, <2>3, <3>1 DEF Rises
  <2> QED BY <2>1, <2>2, <2>3
<1>6. Control(main', MaxItrs) /\ Control(eval', MaxEval)
  <2>1. Control(main, MaxItrs) /\ MaxItrs \in Nat /\ Control(eval, MaxEval)
    BY LimitsAssumption DEF LearnersInv
  <2> QED BY <1>1, <2>1, CountedIs
<1>7. Known'
  BY <1>1, <1>2 DEF Known
<1> QED BY <1>1, <1>2, <1>3, <1>4, <1>5, <1>6, <1>7 DEF Good, LearnersInv

LEMMA LearnersNext == LearnersInv /\ [DPNext]_dpVars => Good
<1> SUFFICES ASSUME LearnersInv, [DPNext]_dpVars PROVE Good
  OBVIOUS
<1>1. CASE UNCHANGED dpVars
  <2>1. UNCHANGED <<algo, world, discount, pc, main, eval, values, ev, policy>>
    BY <1>1 DEF dpVars, given
  <2>2. LearnersInv'
    BY <2>1 DEF LearnersInv, Known, Rises
  <2>3. Below(values, values') /\ Below(ev, ev')
    BY <2>1, BelowItself DEF LearnersInv
  <2> QED BY <2>2, <2>3 DEF Good
<1> QED BY <1>1, SweepGood, BeginGood, EvaluateGood, ImproveGood, FinishGood DEF DPNext

-----------------------------------------------------------------------------
(* What converged means: a small change leaves little to change.            *)

\* The distance of two tables bounds every one of their changes.
LEMMA DistanceBounds ==
    ASSUME NEW u \in Table, NEW w \in Table
    PROVE  Distance(u, w) \in Nat /\ \A s \in States : w[s] <= u[s] + Distance(u, w)
<1>0. NStates \in Nat \ {0} /\ States = 1 .. NStates
  BY SizesAssumption DEF States
<1> DEFINE gap(s) == IF u[s] < w[s] THEN w[s] - u[s] ELSE u[s] - w[s]
           gaps == {gap(s) : s \in States}
<1>1. \A s \in States : gap(s) \in Nat /\ w[s] <= u[s] + gap(s)
  <2> SUFFICES ASSUME NEW s \in States PROVE gap(s) \in Nat /\ w[s] <= u[s] + gap(s)
    OBVIOUS
  <2>1. PICK x \in Nat, y \in Nat : x = u[s] /\ y = w[s]
    BY DEF Table
  <2> QED BY <2>1
<1>2. PICK q : q = [s \in States |-> gap(s)]
  OBVIOUS
<1>3. Distance(u, w) = Max(gaps)
  BY DEF Distance
<1> HIDE DEF gap
<1>4. \A s \in 1 .. NStates : q[s] = gap(s) /\ q[s] \in Nat
  BY <1>0, <1>1, <1>2
<1>5. PICK a \in 1 .. NStates : \A b \in 1 .. NStates : q[b] <= q[a]
  BY <1>0, <1>4, GreatestExists
<1>6. q[a] \in gaps /\ \A x \in gaps : q[a] >= x
  BY <1>0, <1>4, <1>5
<1>7. Max(gaps) \in gaps /\ \A x \in gaps : Max(gaps) >= x
  <2> HIDE DEF gaps
  <2> QED BY <1>6 DEF Max
<1>8. PICK m \in Nat : m = Distance(u, w) /\ \A s \in States : m >= gap(s)
  BY <1>1, <1>3, <1>7
<1>9. ASSUME NEW s \in States PROVE w[s] <= u[s] + m
  <2>1. PICK x \in Nat, y \in Nat, g \in Nat : x = u[s] /\ y = w[s] /\ g = gap(s)
    BY <1>1 DEF Table
  <2>2. y <= x + g /\ m >= g
    BY <1>1, <1>8, <2>1
  <2>3. y <= x + m
    BY <2>2
  <2> QED BY <2>1, <2>3
<1> QED BY <1>8, <1>9

LEMMA DivIs ==
    ASSUME NEW x \in Nat, NEW d \in Nat \ {0}
    PROVE  x \div d \in Nat /\ d * (x \div d) <= x /\ x < d * (x \div d) + d
  OBVIOUS

LEMMA DivNear ==
    ASSUME NEW x \in Nat, NEW y \in Nat, NEW t \in Nat, NEW d \in Nat \ {0}, y <= x + t * d
    PROVE  y \div d <= x \div d + t
<1>1. PICK p \in Nat, q \in Nat : p = x \div d /\ q = y \div d
  BY DivIs
<1>2. d * q <= y /\ x < d * p + d
  BY <1>1, DivIs
<1>3. CASE q <= p + t
  BY <1>1, <1>3
<1>4. CASE q > p + t
  <2>1. PICK e \in Nat : q = p + t + 1 + e
    <3>1. q - p - t - 1 \in Nat /\ q = p + t + 1 + (q - p - t - 1)
      BY <1>4
    <3> QED BY <3>1
  <2>2. d * q = d * p + t * d + d + d * e
    <3>1. d * (p + t + 1 + e) = d * p + d * t + d + d * e
      OBVIOUS
    <3>2. d * t = t * d
      OBVIOUS
    <3> QED BY <2>1, <3>1, <3>2
  <2>3. d * e \in Nat /\ d * p \in Nat /\ t * d \in Nat /\ d * q \in Nat
    OBVIOUS
  <2> QED BY <1>2, <2>2, <2>3
<1> QED BY <1>3, <1>4

\* A loop adds up what its summands have more.
LEMMA TotalNear ==
    ASSUME NEW x, NEW y, NEW z,
           \A a \in Actions : x[a] \in Nat /\ y[a] \in Nat /\ z[a] \in Nat /\ y[a] <= x[a] + z[a]
    PROVE  /\ Total(x) \in Nat /\ Total(y) \in Nat /\ Total(z) \in Nat
           /\ Total(y) <= Total(x) + Total(z)
<1>0. NActions \in Nat /\ Actions = 1 .. NActions
  BY SizesAssumption DEF Actions
<1>1. PICK f, g, h : f = Sums(x) /\ g = Sums(y) /\ h = Sums(z)
  OBVIOUS
<1>2. f[0] = 0 /\ Total(x) = f[NActions] /\ \A i \in 1 .. NActions : f[i] = f[i - 1] + x[i]
  BY <1>0, <1>1, SumsAre
<1>3. g[0] = 0 /\ Total(y) = g[NActions] /\ \A i \in 1 .. NActions : g[i] = g[i - 1] + y[i]
  BY <1>0, <1>1, SumsAre
<1>4. h[0] = 0 /\ Total(z) = h[NActions] /\ \A i \in 1 .. NActions : h[i] = h[i - 1] + z[i]
  BY <1>0, <1>1, SumsAre
<1> DEFINE good == {i \in 0 .. NActions : /\ f[i] \in Nat /\ g[i] \in Nat /\ h[i] \in Nat
                                          /\ g[i] <= f[i] + h[i]}
<1>5. 0 \in good
  BY <1>0, <1>2, <1>3, <1>4
<1>6. ASSUME NEW i \in 1 .. NActions, i - 1 \in good PROVE i \in good
  <2>1. PICK b \in Nat, c \in Nat, d \in Nat :
           b = f[i - 1] /\ c = g[i - 1] /\ d = h[i - 1] /\ c <= b + d
    BY <1>6
  <2>2. PICK l \in Nat, m \in Nat, n \in Nat : l = x[i] /\ m = y[i] /\ n = z[i] /\ m <= l + n
    BY <1>0
  <2>3. f[i] = b + l /\ g[i] = c + m /\ h[i] = d + n
    BY <1>2, <1>3, <1>4, <2>1, <2>2
  <2>4. c <= b + d /\ m <= l + n
    BY <2>1, <2>2
  <2>5. b + l \in Nat /\ c + m \in Nat /\ d + n \in Nat /\ c + m <= (b + l) + (d + n)
    BY <2>4
  <2>6. i \in 0 .. NActions
    BY <1>0
  <2> QED BY <2>3, <2>5, <2>6
<1>7. NActions \in good
  <2> HIDE DEF good
  <2>1. \A i \in 0 .. NActions : i \in good
    BY <1>0, <1>5, <1>6, EveryTurn
  <2> QED BY <1>0, <2>1
<1> QED BY <1>2, <1>3, <1>4, <1>7

\* No value of w is more than t above that of u.
Within(u, w, t) == \A s \in States : w[s] <= u[s] + t

LEMMA ShareNear ==
    ASSUME NEW x \in Nat, NEW y \in Nat, NEW t \in Nat, NEW d \in Gammas, y <= x + t
    PROVE  Share(d, y) <= Share(d, x) + t
<1>1. PICK n \in Nat, m \in Nat \ {0} : d.num = n /\ d.den = m /\ n <= m
  BY DiscountIs
<1>2. PICK e \in Nat : x + t = y + e
  <2>1. x + t - y \in Nat /\ x + t = y + (x + t - y)
    OBVIOUS
  <2> QED BY <2>1
<1>3. PICK f \in Nat : m = n + f
  <2>1. m - n \in Nat /\ m = n + (m - n)
    BY <1>1
  <2> QED BY <2>1
<1>4. /\ x * n \in Nat /\ y * n \in Nat /\ e * n \in Nat /\ t * n \in Nat /\ t * f \in Nat
      /\ x * n + t * n = y * n + e * n /\ t * m = t * n + t * f
  <2>1. (x + t) * n = x * n + t * n /\ (y + e) * n = y * n + e * n
        /\ t * (n + f) = t * n + t * f
    OBVIOUS
  <2>2. x * n + t * n = y * n + e * n
    BY <1>2, <2>1
  <2>3. t * m = t * n + t * f
    BY <1>3, <2>1
  <2>4. /\ x * n \in Nat /\ y * n \in Nat /\ e * n \in Nat
        /\ t * n \in Nat /\ t * f \in Nat
    OBVIOUS
  <2> QED BY <2>2, <2>3, <2>4
<1>5. PICK p \in Nat, q \in Nat : p = x * n /\ q = y * n
  BY <1>4
<1>6. q <= p + t * m
  BY <1>4, <1>5
<1>7. q \div m <= p \div m + t
  BY <1>6, DivNear
<1> QED BY <1>1, <1>5, <1>7 DEF Share

LEMMA QNear ==
    ASSUME NEW dyn \in Dynamics, NEW d \in Gammas, NEW u \in Table, NEW w \in Table,
           NEW t \in Nat, Within(u, w, t), NEW s \in States, NEW a \in Actions
    PROVE  QOf(dyn, d, w, s, a) <= QOf(dyn, d, u, s, a) + t
<1>1. dyn[s][a].next \in States /\ dyn[s][a].reward \in Nat
  BY DEF Dynamics
<1>2. PICK x \in Nat, y \in Nat : x = u[dyn[s][a].next] /\ y = w[dyn[s][a].next]
  BY <1>1 DEF Table
<1>3. y <= x + t
  BY <1>1, <1>2 DEF Within
<1>4. PICK r \in Nat : r = dyn[s][a].reward * Unit
  BY <1>1, LimitsAssumption
<1>5. Share(d, y) <= Share(d, x) + t
  BY <1>2, <1>3, ShareNear
<1>6. Share(d, x) \in Nat /\ Share(d, y) \in Nat
  <2>1. x <= x /\ y <= y
    BY <1>2
  <2> QED BY <1>2, <2>1, ShareGrows
<1>7. PICK p \in Nat, q \in Nat : p = Share(d, x) /\ q = Share(d, y) /\ q <= p + t
  BY <1>5, <1>6
<1>8. QOf(dyn, d, u, s, a) = r + p /\ QOf(dyn, d, w, s, a) = r + q
  BY <1>2, <1>4, <1>7 DEF QOf
<1> QED BY <1>7, <1>8

LEMMA BestNear ==
    ASSUME NEW dyn \in Dynamics, NEW d \in Gammas, NEW u \in Table, NEW w \in Table,
           NEW t \in Nat, Within(u, w, t), NEW s \in States
    PROVE  BestOf(dyn, d, w, s) <= BestOf(dyn, d, u, s) + t
<1>1. PICK a \in Actions : QOf(dyn, d, w, s, a) = BestOf(dyn, d, w, s)
  BY BestIs
<1>2. PICK x \in Nat, y \in Nat : x = QOf(dyn, d, u, s, a) /\ y = QOf(dyn, d, w, s, a)
  BY QIsNat
<1>3. y <= x + t
  BY <1>2, QNear
<1>4. PICK b \in Nat : b = BestOf(dyn, d, u, s) /\ x <= b
  BY <1>2, BestIs
<1>5. y <= b + t
  BY <1>3, <1>4
<1> QED BY <1>1, <1>2, <1>4, <1>5

LEMMA MeanNear ==
    ASSUME NEW dyn \in Dynamics, NEW d \in Gammas, NEW p \in Policy,
           NEW u \in Table, NEW w \in Table, NEW t \in Nat, Within(u, w, t), NEW s \in States
    PROVE  MeanOf(dyn, d, p, w, s) <= MeanOf(dyn, d, p, u, s) + t
<1>1. PICK x : x = [a \in Actions |-> IF a \in p[s] THEN QOf(dyn, d, u, s, a) ELSE 0]
  OBVIOUS
<1>2. PICK y : y = [a \in Actions |-> IF a \in p[s] THEN QOf(dyn, d, w, s, a) ELSE 0]
  OBVIOUS
<1>3. PICK z : z = [a \in Actions |-> IF a \in p[s] THEN t ELSE 0]
  OBVIOUS
<1>4. \A a \in Actions : x[a] \in Nat /\ y[a] \in Nat /\ z[a] \in Nat /\ y[a] <= x[a] + z[a]
  <2> SUFFICES ASSUME NEW a \in Actions
               PROVE  x[a] \in Nat /\ y[a] \in Nat /\ z[a] \in Nat /\ y[a] <= x[a] + z[a]
    OBVIOUS
  <2>1. CASE a \in p[s]
    <3>1. x[a] = QOf(dyn, d, u, s, a) /\ y[a] = QOf(dyn, d, w, s, a) /\ z[a] = t
      BY <1>1, <1>2, <1>3, <2>1
    <3>2. x[a] \in Nat /\ y[a] \in Nat
      BY <3>1, QIsNat
    <3>3. y[a] <= x[a] + t
      BY <3>1, QNear
    <3> QED BY <3>1, <3>2, <3>3
  <2>2. CASE a \notin p[s]
    <3>1. x[a] = 0 /\ y[a] = 0 /\ z[a] = 0
      BY <1>1, <1>2, <1>3, <2>2
    <3> QED BY <3>1
  <2> QED BY <2>1, <2>2
<1>5. PICK n \in Nat \ {0} : n = Cardinality(p[s])
  BY PolicyCounts
<1>6. PICK X \in Nat, Y \in Nat : X = Total(x) /\ Y = Total(y) /\ Y <= X + Total(z)
  BY <1>4, TotalNear
<1>7. Total(z) = t * n
  BY <1>3, <1>5, PolicyCounts, TotalOfSame
<1>8. Y <= X + t * n
  BY <1>6, <1>7
<1>9. Y \div n <= X \div n + t
  BY <1>8, DivNear
<1>10. MeanOf(dyn, d, p, w, s) = Y \div n /\ MeanOf(dyn, d, p, u, s) = X \div n
  BY <1>1, <1>2, <1>5, <1>6 DEF MeanOf, SumOf
<1> QED BY <1>9, <1>10

LEMMA NewNear ==
    ASSUME NEW al, NEW dyn \in Dynamics, NEW d \in Gammas, NEW p \in Policy,
           NEW u \in Table, NEW w \in Table, NEW t \in Nat, Within(u, w, t), NEW s \in States
    PROVE  NewOf(al, dyn, d, p, w, s) <= NewOf(al, dyn, d, p, u, s) + t
<1>1. CASE al \in {"evaluation", "policy"}
  BY <1>1, MeanNear DEF NewOf
<1>2. CASE al \notin {"evaluation", "policy"}
  BY <1>2, BestNear DEF NewOf
<1> QED BY <1>1, <1>2

\* The next turn changes no value by more than the tolerance.
Settled(al, dyn, d, p, u) == \A s \in States : NewOf(al, dyn, d, p, u, s) <= u[s] + Tolerance

LEMMA ComputedSettles ==
    ASSUME Known, policy \in Policy, NEW u \in Table, NEW w \in Table, Below(u, w),
           Computed(u, w, States), Distance(u, w) <= Tolerance
    PROVE  Settled(algo, world, discount, policy, w)
<1> SUFFICES ASSUME NEW s \in States
             PROVE  NewOf(algo, world, discount, policy, w, s) <= w[s] + Tolerance
  BY DEF Settled
<1>1. world \in Dynamics /\ discount \in Gammas /\ Tolerance \in Nat
  BY LimitsAssumption DEF Known
<1>2. PICK x \in Table : /\ Below(u, x) /\ Below(x, w)
                         /\ w[s] = NewOf(algo, world, discount, policy, x, s)
  BY DEF Computed
<1>3. Within(x, w, Tolerance)
  <2> SUFFICES ASSUME NEW r \in States PROVE w[r] <= x[r] + Tolerance
    BY DEF Within
  <2>1. PICK b \in Nat, c \in Nat, e \in Nat : b = u[r] /\ c = x[r] /\ e = w[r]
    BY DEF Table
  <2>2. PICK g \in Nat : g = Distance(u, w) /\ e <= b + g
    BY <2>1, DistanceBounds
  <2>3. b <= c /\ g <= Tolerance
    BY <1>2, <2>1, <2>2 DEF Below
  <2>4. e <= c + Tolerance
    BY <1>1, <2>2, <2>3
  <2> QED BY <2>1, <2>4
<1>4. NewOf(algo, world, discount, policy, w, s)
         <= NewOf(algo, world, discount, policy, x, s) + Tolerance
  BY <1>1, <1>3, NewNear
<1> QED BY <1>2, <1>4

-----------------------------------------------------------------------------
(* The invariant about residuals and what they say.                         *)

BestPolicy(dyn, d, u) ==
    [s \in States |-> {a \in Actions : QOf(dyn, d, u, s, a) = BestOf(dyn, d, u, s)}]

LEMMA ImprovedOf == \A u : Improved(u) = BestPolicy(world, discount, u)
  BY OfTheWorld DEF Improved, BestActions, BestPolicy

\* The residual of a PolicyIteration only says that the policy stayed the same.
PolicyKept ==
    /\ main.res \in {0, MaxReal}
    /\ pc = "evaluate" => /\ main.res = MaxReal /\ old = policy
                          /\ eval.res < Tolerance => Settled(algo, world, discount, policy, ev)
    /\ main.res = 0 => /\ policy = BestPolicy(world, discount, ev)
                       /\ eval.res < Tolerance => Settled(algo, world, discount, policy, ev)
    /\ pc = "idle" /\ trains > 0 => values = ev

SettledInv ==
    /\ algo # "policy" /\ main.res <= Tolerance => Settled(algo, world, discount, policy, values)
    /\ algo = "value" /\ pc = "idle" /\ trains > 0 => policy = BestPolicy(world, discount, values)
    /\ algo = "policy" => PolicyKept

LEMMA ResidualIs ==
    ASSUME NEW c, NEW max, Control(c, max)
    PROVE  /\ Counted(c, max).res = c.res
           /\ \A x : /\ [c EXCEPT !.res = x].res = x
                     /\ [Counted(c, max) EXCEPT !.res = x].res = x
<1>1. PICK i, r : c = [itr |-> i, res |-> r]
  BY DEF Control
<1>2. Counted(c, max) = [itr |-> IF i < max THEN i + 1 ELSE i, res |-> r]
  BY <1>1 DEF Counted
<1> QED BY <1>1, <1>2

LEMMA RealIs == MaxReal # 0 /\ ~(MaxReal < Tolerance) /\ ~(MaxReal <= Tolerance)
               /\ 0 < Tolerance /\ Tolerance \in Nat
<1>1. MaxReal \in Nat
  BY SMT DEF MaxReal
<1>2. \A m \in Nat : \A t \in 1 .. m - 1 :
         m # 0 /\ ~(m < t) /\ ~(m <= t) /\ 0 < t /\ t \in Nat
  OBVIOUS
<1> QED BY <1>1, <1>2, LimitsAssumption

LEMMA TooLarge == ~(Fresh.res < Tolerance) /\ ~(Fresh.res <= Tolerance) /\ Fresh.res = MaxReal
  BY RealIs DEF Fresh

LEMMA SettledInit == DPInit => SettledInv
<1> SUFFICES ASSUME DPInit PROVE SettledInv
  OBVIOUS
<1>1. main = Fresh /\ pc = "idle" /\ ~(trains > 0) /\ ~(main.res = 0)
  BY RealIs DEF DPInit, Fresh
<1> QED BY <1>1, TooLarge DEF SettledInv, PolicyKept

LEMMA SettledTurn ==
    ASSUME LearnersInv, algo # "policy", NEW w \in Table, Update(w), Below(values, w),
           Computed(values, w, States)
    PROVE  SettledInv'
<1>1. /\ values' = w /\ UNCHANGED <<algo, world, discount, pc, policy>> /\ pc = "loop"
      /\ main' = [Counted(main, MaxItrs) EXCEPT !.res = Distance(values, w)]
  BY DEF Update, given
<1>2. main'.res = Distance(values, w)
  BY <1>1, ResidualIs DEF LearnersInv
<1>3. Distance(values, w) <= Tolerance => Settled(algo, world, discount, policy, w)
  BY ComputedSettles DEF LearnersInv
<1> QED BY <1>1, <1>2, <1>3 DEF SettledInv

LEMMA SettledSweep ==
    ASSUME LearnersInv, EvaluationStep \/ ValueStep \/ SyncStep PROVE SettledInv'
<1>1. algo # "policy" => /\ Known /\ policy \in Policy /\ values \in Table
                         /\ Rising(algo, world, discount, policy, values)
  BY DEF LearnersInv, Rises
<1>2. CASE EvaluationStep \/ ValueStep
  <2>1. algo # "policy" /\ Update(Sweep(values))
    BY <1>2 DEF EvaluationStep, ValueStep
  <2>2. /\ Sweep(values) \in Table /\ Below(values, Sweep(values))
        /\ Computed(values, Sweep(values), States)
    BY <1>1, <2>1, SweepRises
  <2> QED BY <2>1, <2>2, SettledTurn
<1>3. CASE SyncStep
  <2>1. algo = "sync" /\ algo # "policy" /\ Update(SyncSweep(values))
    BY <1>3 DEF SyncStep
  <2>2. /\ SyncSweep(values) \in Table /\ Below(values, SyncSweep(values))
        /\ Computed(values, SyncSweep(values), States)
    BY <1>1, <2>1, SyncRises
  <2> QED BY <2>1, <2>2, SettledTurn
<1> QED BY <1>2, <1>3

LEMMA SettledTrain == ASSUME SettledInv, Train PROVE SettledInv'
<1>1. /\ UNCHANGED <<algo, world, discount, values, ev, policy>> /\ pc' = "loop"
      /\ main' = IF algo = "sync" THEN main ELSE Fresh
  BY DEF Train, given
<1>2. CASE algo = "sync"
  BY <1>1, <1>2 DEF SettledInv
<1>3. CASE algo # "sync"
  <2>1. main'.res = MaxReal /\ ~(main'.res <= Tolerance) /\ MaxReal # 0
    BY <1>1, <1>3, TooLarge, RealIs
  <2> QED BY <1>1, <2>1 DEF SettledInv, PolicyKept
<1> QED BY <1>2, <1>3

LEMMA SettledPolicyStep == ASSUME LearnersInv, SettledInv, PolicyStep PROVE SettledInv'
<1>1. /\ UNCHANGED <<algo, world, discount, values, ev, policy>> /\ pc' = "evaluate"
      /\ algo = "policy" /\ main' = Counted(main, MaxItrs) /\ eval' = Fresh /\ old' = policy
      /\ ~(main.res < Tolerance)
  BY DEF PolicyStep, Goes, given
<1>2. main.res \in {0, MaxReal}
  BY <1>1 DEF SettledInv, PolicyKept
<1>3. main.res = MaxReal /\ MaxReal # 0
  BY <1>1, <1>2, RealIs
<1>4. main'.res = MaxReal
  BY <1>1, <1>3, ResidualIs DEF LearnersInv
<1>5. ~(eval'.res < Tolerance)
  BY <1>1, TooLarge
<1> QED BY <1>1, <1>3, <1>4, <1>5 DEF SettledInv, PolicyKept

LEMMA SettledEvaluate == ASSUME LearnersInv, SettledInv, Evaluate PROVE SettledInv'
<1>1. /\ pc = "evaluate" /\ ev' = Sweep(ev)
      /\ eval' = [Counted(eval, MaxEval) EXCEPT !.res = Distance(ev, ev')]
      /\ UNCHANGED <<algo, world, discount, pc, main, values, policy, old>>
  BY DEF Evaluate, given
<1>2. /\ Known /\ policy \in Policy /\ ev \in Table /\ algo = "policy"
      /\ Rising(algo, world, discount, policy, ev)
  BY <1>1 DEF LearnersInv, Rises
<1>3. PICK w : w = Sweep(ev)
  OBVIOUS
<1>4. w \in Table /\ Below(ev, w) /\ Computed(ev, w, States)
  BY <1>2, <1>3, SweepRises
<1>5. eval'.res = Distance(ev, w)
  BY <1>1, <1>3, ResidualIs DEF LearnersInv
<1>6. Distance(ev, w) < Tolerance => Settled(algo, world, discount, policy, w)
  <2>1. PICK g \in Nat : g = Distance(ev, w)
    BY <1>2, <1>4, DistanceBounds
  <2>2. g < Tolerance => g <= Tolerance
    BY LimitsAssumption
  <2> QED BY <1>2, <1>4, <2>1, <2>2, ComputedSettles
<1>7. main.res = MaxReal /\ MaxReal # 0 /\ old = policy
  BY <1>1, <1>2, RealIs DEF SettledInv, PolicyKept
<1> QED BY <1>1, <1>2, <1>3, <1>5, <1>6, <1>7 DEF SettledInv, PolicyKept

LEMMA SettledImprove == ASSUME LearnersInv, SettledInv, Improve PROVE SettledInv'
<1>1. /\ pc = "evaluate" /\ pc' = "loop" /\ policy' = BestPolicy(world, discount, ev)
      /\ UNCHANGED <<algo, world, discount, values, ev, old>>
  BY ImprovedOf DEF Improve, given
<1>2. /\ algo = "policy" /\ main.res = MaxReal /\ old = policy /\ MaxReal # 0
      /\ eval.res < Tolerance => Settled(algo, world, discount, policy, ev)
  BY <1>1, RealIs DEF LearnersInv, SettledInv, PolicyKept
<1>3. CASE Unchanged(policy')
  <2>1. main' = [main EXCEPT !.res = 0] /\ eval' = Counted(eval, MaxEval)
    BY <1>3 DEF Improve
  <2>2. main'.res = 0 /\ eval'.res = eval.res
    BY <2>1, ResidualIs DEF LearnersInv
  <2>3. policy' = policy
    BY <1>2, <1>3 DEF Unchanged
  <2> QED BY <1>1, <1>2, <2>2, <2>3 DEF SettledInv, PolicyKept
<1>4. CASE ~Unchanged(policy')
  <2>1. main' = main
    BY <1>4 DEF Improve
  <2> QED BY <1>1, <1>2, <2>1 DEF SettledInv, PolicyKept
<1> QED BY <1>3, <1>4

LEMMA SettledFinish == ASSUME LearnersInv, SettledInv, FinishTraining PROVE SettledInv'
<1>1. /\ pc' = "idle" /\ main' = Counted(main, MaxItrs)
      /\ policy' = IF algo = "value" THEN BestPolicy(world, discount, values) ELSE policy
      /\ values' = IF algo = "policy" THEN ev ELSE values
      /\ UNCHANGED <<algo, world, discount, eval, ev>>
  BY ImprovedOf DEF FinishTraining, given
<1>2. main'.res = main.res
  BY <1>1, ResidualIs DEF LearnersInv
<1>3. CASE algo = "policy"
  BY <1>1, <1>2, <1>3 DEF SettledInv, PolicyKept
<1>4. CASE algo = "value"
  <2>1. \A p : Settled(algo, world, discount, policy, values)
                  => Settled(algo, world, discount, p, values)
    BY <1>4 DEF Settled, NewOf
  <2> QED BY <1>1, <1>2, <1>4, <2>1 DEF SettledInv
<1>5. CASE algo # "policy" /\ algo # "value"
  BY <1>1, <1>2, <1>5 DEF SettledInv
<1> QED BY <1>3, <1>4, <1>5

LEMMA SettledNext == LearnersInv /\ SettledInv /\ [DPNext]_dpVars => SettledInv'
<1> SUFFICES ASSUME LearnersInv, SettledInv, [DPNext]_dpVars PROVE SettledInv'
  OBVIOUS
<1>1. CASE UNCHANGED dpVars
  <2>1. UNCHANGED <<algo, world, discount, pc, main, eval, values, ev, policy, old, trains>>
    BY <1>1 DEF dpVars, given
  <2> QED BY <2>1 DEF SettledInv, PolicyKept
<1> QED BY <1>1, SettledSweep, SettledTrain, SettledPolicyStep, SettledEvaluate, SettledImprove,
           SettledFinish DEF DPNext

LEMMA SettledIsFixed == LearnersInv /\ SettledInv => ConvergedIsFixed
<1> SUFFICES ASSUME LearnersInv, SettledInv, Converged,
                    algo = "policy" => eval.res < Tolerance
             PROVE  /\ \A s \in States : NewValue(values, s) \in values[s] .. values[s] + Tolerance
                    /\ algo \in {"value", "policy"} => policy = Improved(values)
  BY DEF ConvergedIsFixed
<1>1. pc = "idle" /\ trains > 0 /\ main.res <= Tolerance
  BY DEF Converged
<1>2. /\ Rising(algo, world, discount, policy, values)
      /\ Settled(algo, world, discount, policy, values)
      /\ algo \in {"value", "policy"} => policy = BestPolicy(world, discount, values)
  <2>1. CASE algo = "policy"
    <3>1. values = ev /\ main.res \in {0, MaxReal}
      BY <1>1, <2>1 DEF SettledInv, PolicyKept
    <3>2. main.res = 0
      BY <1>1, <3>1, RealIs
    <3> QED BY <2>1, <3>1, <3>2 DEF LearnersInv, Rises, SettledInv, PolicyKept
  <2>2. CASE algo # "policy"
    BY <1>1, <2>2 DEF LearnersInv, Rises, SettledInv
  <2> QED BY <2>1, <2>2
<1>3. ASSUME NEW s \in States
      PROVE  NewValue(values, s) \in values[s] .. values[s] + Tolerance
  <2>1. PICK x \in Nat, y \in Nat :
           x = values[s] /\ y = NewOf(algo, world, discount, policy, values, s)
    BY BelowItself, NewGrows DEF LearnersInv, Known, Table
  <2>2. x <= y /\ y <= x + Tolerance
    BY <1>2, <2>1 DEF Rising, Settled
  <2>3. y \in x .. x + Tolerance
    BY <2>2, LimitsAssumption
  <2> QED BY <2>1, <2>3, OfTheWorld
<1> QED BY <1>2, <1>3, ImprovedOf

-----------------------------------------------------------------------------
(* Theorems about the learners.                                             *)

\* Every policy has an action for every state, values are not negative and no
\* control counts beyond its limit, whatever the world, the discount and the
\* tolerance are.
THEOREM LearnersTyped == DPSpec => []DPTypeOK
<1>1. LearnersInv => DPTypeOK
  BY DEF LearnersInv, DPTypeOK, Control, Table, Policy
<1>2. LearnersInv /\ [DPNext]_dpVars => LearnersInv'
  BY LearnersNext DEF Good
<1> QED BY <1>1, <1>2, LearnersInit, PTL DEF DPSpec

\* No value falls, in any of the learners, for any discount in Gammas and
\* rewards that are natural numbers, over any number of trainings: every
\* improved policy is at least as good as the one before although its
\* evaluation was cut short, and a training that starts from the values of the
\* last one does not lose them.
THEOREM PoliciesOnlyImprove == DPSpec => ValuesNeverFall
<1>1. LearnersInv /\ [DPNext]_dpVars => LearnersInv'
  BY LearnersNext DEF Good
<1>2. LearnersInv /\ [DPNext]_dpVars =>
         [\A s \in States : values'[s] >= values[s] /\ ev'[s] >= ev[s]]_<<values, ev>>
  <2> SUFFICES ASSUME LearnersInv, [DPNext]_dpVars
               PROVE  \A s \in States : values'[s] >= values[s] /\ ev'[s] >= ev[s]
    OBVIOUS
  <2>1. Below(values, values') /\ Below(ev, ev')
    BY LearnersNext DEF Good
  <2> QED BY <2>1 DEF Below
<1> QED BY <1>1, <1>2, LearnersInit, PTL DEF DPSpec, ValuesNeverFall

\* What a learner calls converged satisfies the equations of its problem up to
\* the tolerance, whatever the world and the discount, and also when it was
\* trained before and had values from then; the policy it hands out has all the
\* best actions of these values.
THEOREM ConvergedSolvesEquations == DPSpec => []ConvergedIsFixed
<1>1. LearnersInv /\ SettledInv /\ [DPNext]_dpVars => LearnersInv' /\ SettledInv'
  BY LearnersNext, SettledNext DEF Good
<1> QED BY <1>1, LearnersInit, SettledInit, SettledIsFixed, PTL DEF DPSpec

=============================================================================

------------------------------ MODULE QuadMesh ------------------------------
(***************************************************************************)
(* build_quad_mesh (kernel/discretization/quad_mesh_generation.cpp) over   *)
(* the elements, faces and connectivity lists it fills: elements from left *)
(* to right and from bottom to top, then their neighbors, then the faces,  *)
(* created by the element with the smaller id and handed to the other one, *)
(* and last the numbers of the four boundaries.                            *)
(*                                                                         *)
(* Coordinates are counted in steps of dx and dy from the lower point, the *)
(* centroid of a face in half steps.  The last step, lower + n * dx, may   *)
(* or may not be equal to the coordinate of the upper point: n * (w / n)   *)
(* is rounded.                                                             *)
(***************************************************************************)
EXTENDS Naturals, FiniteSets

CONSTANTS MaxNx, MaxNy,     \* bound: the largest mesh
          Null              \* a null pointer, KernelConsts::invalid_size_type()

ASSUME SizesAssumption == MaxNx \in Nat \ {0} /\ MaxNy \in Nat \ {0} /\ Null \notin Nat

VARIABLES
    nx, ny,
    meets,          \* the directions in which the last node meets the upper point
    pc,
    elem,           \* the element (or the face) whose turn it is
    side,           \* the side whose turn it is
    node,           \* element -> its nodes, counterclockwise
    connections,    \* node -> vertices_connections, the elements at it
    neighbor,       \* element -> its neighbors
    face,           \* element -> its faces
    faces,          \* the faces of the mesh, by their ids
    reserved        \* reserve_n_faces

mesh == <<nx, ny, meets, pc, elem, side, node, connections, neighbor, face, faces, reserved>>

Sides == 0 .. 3             \* bottom, right, top, left
Opposite(s) == (s + 2) % 4
Elements == 0 .. nx * ny - 1
Nodes == 0 .. (nx + 1) * (ny + 1) - 1

idx(i, j) == i + j * (nx + 1)
X(n) == n % (nx + 1)
Y(n) == n \div (nx + 1)

Least(S) == CHOOSE x \in S : \A y \in S : x <= y

Init == /\ nx \in 1 .. MaxNx /\ ny \in 1 .. MaxNy
        /\ meets \in SUBSET {"x", "y"}
        /\ pc = "elements" /\ elem = 0 /\ side = 0
        /\ node = [e \in Elements |-> [s \in Sides |-> Null]]
        /\ connections = [n \in Nodes |-> {}]
        /\ neighbor = node /\ face = node
        /\ faces = [k \in {} |-> 0]
        /\ reserved = 0

\* The next turn of a loop over the elements, or the loop that follows it.
Turn(next) == IF elem + 1 < nx * ny THEN elem' = elem + 1 /\ UNCHANGED pc
                                    ELSE elem' = 0 /\ pc' = next

-----------------------------------------------------------------------------
Corners(i, j) == [s \in Sides |-> idx(IF s \in {1, 2} THEN i + 1 ELSE i,
                                      IF s \in {2, 3} THEN j + 1 ELSE j)]

BuildElement ==
    /\ pc = "elements"
    /\ node' = [node EXCEPT ![elem] = Corners(elem % nx, elem \div nx)]
    /\ connections' = [n \in Nodes |-> IF \E s \in Sides : node'[elem][s] = n
                                       THEN connections[n] \union {elem} ELSE connections[n]]
    /\ Turn("neighbors")
    /\ UNCHANGED <<nx, ny, meets, side, neighbor, face, faces, reserved>>

\* By way of the face, if there is one, in the order of its owner.
face_vertices(e, s) == IF face[e][s] = Null THEN <<node[e][s], node[e][(s + 1) % 4]>>
                                            ELSE faces[face[e][s]].nodes

find_neighbor_id(e, s) ==
    LET ends == face_vertices(e, s)
        common == (connections[ends[1]] \cap connections[ends[2]]) \ {e}
    IN IF common = {} THEN Null ELSE Least(common)

\* set_neighbor for every side.
SetNeighbors(e) == [neighbor EXCEPT ![e] = [s \in Sides |-> find_neighbor_id(e, s)]]

Connect ==
    /\ pc = "neighbors"
    /\ neighbor' = SetNeighbors(elem)
    /\ Turn("count")
    /\ UNCHANGED <<nx, ny, meets, side, node, connections, face, faces, reserved>>

\* A boundary face is counted once, an internal one from both sides.
CountFaces ==
    /\ pc = "count"
    /\ LET ends(null) == {t \in Elements \X Sides : (neighbor[t[1]][t[2]] = Null) = null}
       IN reserved' = Cardinality(ends(TRUE)) + Cardinality(ends(FALSE)) \div 2
    /\ pc' = "faces"
    /\ UNCHANGED <<nx, ny, meets, elem, side, node, connections, neighbor, face, faces>>

which_neighbor_am_i(n, e) == LET at == {s \in Sides : neighbor[n][s] = e}
                             IN IF at = {} THEN Null ELSE Least(at)

\* Mutant: both elements create a face.
IsAnyones(n) == n # Null

\* An internal face is created by the element with the smaller id.
IsMine(n) == n # Null /\ elem < n

NewFace(n) == [owner |-> elem, neighbor |-> n, nodes |-> face_vertices(elem, side),
               boundary |-> IF n = Null THEN 0 ELSE Null]

\* The next side: of this element, or the first one of the next element.
NextSide == /\ side' = (side + 1) % 4
            /\ IF side = 3 THEN Turn("numbers") ELSE UNCHANGED <<elem, pc>>

\* add_entity: the next place, which the id is the number of.
AddFace(f) == LET k == Cardinality(DOMAIN faces)
              IN [i \in 0 .. k |-> IF i = k THEN f ELSE faces[i]]

set_face(e, s, k) == [face EXCEPT ![e][s] = k]

VisitSide ==
    /\ pc = "faces"
    /\ LET n == neighbor[elem][side]
           k == Cardinality(DOMAIN faces)
           at == which_neighbor_am_i(n, elem)
       IN IF n = Null \/ IsMine(n)
          THEN /\ faces' = AddFace(NewFace(n))
               /\ IF n = Null
                  THEN face' = set_face(elem, side, k) /\ NextSide
                  ELSE IF at = Null             \* "Invalid neighbor index"
                  THEN /\ face' = set_face(elem, side, k)
                       /\ pc' = "failed" /\ UNCHANGED <<elem, side>>
                  ELSE face' = [set_face(elem, side, k) EXCEPT ![n][at] = k] /\ NextSide
          ELSE UNCHANGED <<face, faces>> /\ NextSide
    /\ UNCHANGED <<nx, ny, meets, node, connections, neighbor, reserved>>

\* What the comparisons with the corner points make of twice a centroid.
SideAt(x, y, default) == IF y = 0 THEN 0
                         ELSE IF x = 2 * nx /\ "x" \in meets THEN 1
                         ELSE IF y = 2 * ny /\ "y" \in meets THEN 2
                         ELSE IF x = 0 THEN 3
                         ELSE default

\* Mutant: the first node of a face stands for its centroid.
NumberAtNode(k) == LET n == faces[k].nodes[1] IN SideAt(2 * X(n), 2 * Y(n), faces[k].boundary)

Number(k) == LET ends == faces[k].nodes
             IN SideAt(X(ends[1]) + X(ends[2]), Y(ends[1]) + Y(ends[2]), faces[k].boundary)

\* elem counts the faces here; the filter passes over those that are internal.
NumberFace ==
    /\ pc = "numbers"
    /\ faces' = IF faces[elem].boundary = Null THEN faces
                ELSE [faces EXCEPT ![elem].boundary = Number(elem)]
    /\ IF elem + 1 \in DOMAIN faces THEN elem' = elem + 1 /\ UNCHANGED pc
                                    ELSE elem' = 0 /\ pc' = "built"
    /\ UNCHANGED <<nx, ny, meets, side, node, connections, neighbor, face, reserved>>

Build == BuildElement \/ Connect \/ CountFaces \/ VisitSide \/ NumberFace

-----------------------------------------------------------------------------
Ids(S) == S \union {Null}

TypeOK == /\ pc \in {"elements", "neighbors", "count", "faces", "numbers", "built", "failed"}
          /\ elem \in Nat /\ side \in Sides /\ reserved \in Nat
          /\ node \in [Elements -> [Sides -> Ids(Nodes)]]
          /\ connections \in [Nodes -> SUBSET Elements]
          /\ neighbor \in [Elements -> [Sides -> Ids(Elements)]]
          /\ face \in [Elements -> [Sides -> Ids(DOMAIN faces)]]

\* The element beyond a side, by its place in the rectangle.
Across(e, s) ==
    LET i == e % nx  j == e \div nx
    IN CASE s = 0 -> IF j = 0 THEN Null ELSE e - nx
         [] s = 1 -> IF i = nx - 1 THEN Null ELSE e + 1
         [] s = 2 -> IF j = ny - 1 THEN Null ELSE e + nx
         [] s = 3 -> IF i = 0 THEN Null ELSE e - 1

\* What the node lists make of the neighbors is what the rectangle says, and
\* so the relation is symmetric: no face is left without its second element.
NeighborsAcross ==
    pc \in {"count", "faces", "numbers", "built"} =>
        /\ \A e \in Elements, s \in Sides : neighbor[e][s] = Across(e, s)
        /\ \A e \in Elements, s \in Sides :
              neighbor[e][s] # Null => neighbor[neighbor[e][s]][Opposite(s)] = e

\* While the faces are created, an element has a face on a side exactly if it
\* or a neighbor with a smaller id has already been there.
Visited(e, s) == e < elem \/ (e = elem /\ s < side)
FacesSoFar ==
    pc = "faces" =>
        \A e \in Elements, s \in Sides :
            (face[e][s] # Null) <=> \/ Visited(e, s)
                                    \/ LET n == Across(e, s)
                                       IN n # Null /\ n < e /\ Visited(n, Opposite(s))

\* No side is left without a face, and a face has the elements that it names as
\* its owner and neighbor, and no other; the places reserved for faces are all
\* taken, and the boundary filter finds the faces without a second element.
FacesAreShared ==
    pc \in {"numbers", "built"} =>
        /\ \A e \in Elements, s \in Sides : face[e][s] # Null
        /\ DOMAIN faces = 0 .. reserved - 1
        /\ \A k \in DOMAIN faces :
              LET f == faces[k]
                  uses == {t \in Elements \X Sides : face[t[1]][t[2]] = k}
              IN /\ {t[1] : t \in uses} = {f.owner, f.neighbor} \ {Null}
                 /\ \A t \in uses : {node[t[1]][t[2]], node[t[1]][(t[2] + 1) % 4]} =
                                        {f.nodes[1], f.nodes[2]}
                 /\ (f.neighbor = Null) <=> (f.boundary # Null)

\* Boundary conditions are given by number: the four sides of the rectangle
\* have four numbers, except that a right or upper side whose coordinate is not
\* met keeps the number of the bottom.
NumbersTellSides ==
    pc = "built" =>
        \A e \in Elements, s \in Sides :
            Across(e, s) = Null =>
                faces[face[e][s]].boundary = IF s = 1 /\ "x" \notin meets THEN 0
                                             ELSE IF s = 2 /\ "y" \notin meets THEN 0
                                             ELSE s

Inv == TypeOK /\ NeighborsAcross /\ FacesSoFar /\ pc # "failed"

=============================================================================

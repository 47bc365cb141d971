-------------------------- MODULE FVAssemblyProofs --------------------------
(***************************************************************************)
(* Theorems about QuadMesh and FVAssembly for meshes of any size, any      *)
(* number of tasks and any order in which they run.                        *)
(*                                                                         *)
(* MeshInv, the mesh: an element is a column and a level of the rectangle, *)
(* so that the element across a side, the shared corners and the border    *)
(* follow by arithmetic; every face has the one element and side that      *)
(* created it, and is recorded at the side across from there.              *)
(*                                                                         *)
(* AssemblyInv, the assembly: a row that a task has come past is the row   *)
(* of the mesh, every other one is zero, whatever the tasks of the other   *)
(* rows do; without dofs no task gets past its first element.              *)
(*                                                                         *)
(* A sum over a set is the cardinality of its tower, the pairs of a member *)
(* and a number below its summand: what holds of cardinalities then holds  *)
(* of the sums that the rows and the matrix of the mesh are made of.       *)
(***************************************************************************)
EXTENDS FVAssembly, FiniteSetTheorems, TLAPS

-----------------------------------------------------------------------------
(* The rectangle: an element is its column and its level.                   *)

LEMMA MulMono == ASSUME NEW a \in Nat, NEW b \in Nat, NEW c \in Nat, a <= b
                 PROVE  a * c <= b * c /\ c * a <= c * b
  OBVIOUS

LEMMA Division == ASSUME NEW a \in Nat, NEW w \in Nat \ {0}
                  PROVE  a % w \in 0 .. w - 1 /\ a \div w \in Nat /\ a = (a % w) + (a \div w) * w
<1>1. a \div w \in Int /\ a % w \in Int /\ a = w * (a \div w) + (a % w) /\ 0 <= a % w /\ a % w < w
  OBVIOUS
<1>2. a \div w \in Nat
  OBVIOUS
<1> QED BY <1>1, <1>2

LEMMA DivisionUnique ==
    ASSUME NEW w \in Nat \ {0}, NEW i \in 0 .. w - 1, NEW j \in Nat
    PROVE  (i + j * w) % w = i /\ (i + j * w) \div w = j
<1> DEFINE a == i + j * w   q == a \div w   r == a % w
<1>1. a \in Nat /\ j * w \in Nat
  OBVIOUS
<1>2. r \in 0 .. w - 1 /\ q \in Nat /\ a = r + q * w
  BY <1>1, Division
<1> HIDE DEF q, r
<1>3. q * w \in Nat /\ (q + 1) * w = q * w + w /\ (j + 1) * w = j * w + w
  BY <1>2
<1>4. ~(q < j)
  <2> SUFFICES ASSUME q + 1 <= j PROVE FALSE
    BY <1>2
  <2>1. (q + 1) * w <= j * w
    BY <1>2, MulMono
  <2> QED BY <1>1, <1>2, <1>3, <2>1
<1>5. ~(j < q)
  <2> SUFFICES ASSUME j + 1 <= q PROVE FALSE
    BY <1>2
  <2>1. (j + 1) * w <= q * w
    BY <1>2, MulMono
  <2> QED BY <1>1, <1>2, <1>3, <2>1
<1>6. q = j
  BY <1>2, <1>4, <1>5
<1>7. r = i
  BY <1>1, <1>2, <1>6
<1> QED BY <1>6, <1>7 DEF q, r

Sizes == nx \in Nat \ {0} /\ ny \in Nat \ {0}

Column(e) == e % nx
Level(e) == e \div nx
Cell(i, j) == i + j * nx

LEMMA CellPlace == ASSUME Sizes, NEW e \in Elements
                   PROVE  /\ Column(e) \in 0 .. nx - 1 /\ Level(e) \in 0 .. ny - 1
                          /\ e = Cell(Column(e), Level(e))
<1>1. nx * ny \in Nat /\ e \in Nat /\ e < nx * ny
  BY DEF Sizes, Elements
<1>2. e % nx \in 0 .. nx - 1 /\ e \div nx \in Nat /\ e = (e % nx) + (e \div nx) * nx
  BY <1>1, Division DEF Sizes
<1> DEFINE q == e \div nx
<1>3. ~(ny <= q)
  <2> SUFFICES ASSUME ny <= q PROVE FALSE
    OBVIOUS
  <2> HIDE DEF q
  <2>1. nx \in Nat /\ ny \in Nat /\ q \in Nat
    BY <1>2 DEF Sizes, q
  <2>2. ny * nx <= q * nx /\ ny * nx = nx * ny /\ q * nx \in Nat
    BY <2>1, MulMono
  <2> QED BY <1>1, <1>2, <2>2 DEF q
<1> QED BY <1>2, <1>3 DEF Column, Level, Cell, Sizes

LEMMA PlaceCell == ASSUME Sizes, NEW i \in 0 .. nx - 1, NEW j \in 0 .. ny - 1
                   PROVE  Cell(i, j) \in Elements /\ Column(Cell(i, j)) = i /\ Level(Cell(i, j)) = j
<1>1. nx \in Nat \ {0} /\ ny \in Nat \ {0} /\ j \in Nat /\ j <= ny - 1 /\ ny - 1 \in Nat
  BY DEF Sizes
<1>2. j * nx <= (ny - 1) * nx /\ j * nx \in Nat /\ (ny - 1) * nx = nx * ny - nx /\ nx * ny \in Nat
  BY <1>1, MulMono
<1>3. i + j * nx \in Nat /\ i + j * nx <= nx * ny - 1
  BY <1>1, <1>2
<1>4. (i + j * nx) % nx = i /\ (i + j * nx) \div nx = j
  BY <1>1, DivisionUnique
<1> QED BY <1>1, <1>2, <1>3, <1>4 DEF Cell, Column, Level, Elements

\* The corners of an element, in columns and levels of nodes.
CornerX(e, s) == Column(e) + (IF s \in {1, 2} THEN 1 ELSE 0)
CornerY(e, s) == Level(e) + (IF s \in {2, 3} THEN 1 ELSE 0)
CornersOf(e) == Corners(Column(e), Level(e))

LEMMA CornerPlace == ASSUME Sizes, NEW e \in Elements, NEW s \in Sides
                     PROVE  /\ CornerX(e, s) \in 0 .. nx /\ CornerY(e, s) \in 0 .. ny
                            /\ CornersOf(e)[s] = idx(CornerX(e, s), CornerY(e, s))
<1>1. Column(e) \in 0 .. nx - 1 /\ Level(e) \in 0 .. ny - 1 /\ nx \in Nat /\ ny \in Nat
  BY CellPlace DEF Sizes
<1>2. CornerX(e, s) \in 0 .. nx /\ CornerY(e, s) \in 0 .. ny
  BY <1>1 DEF CornerX, CornerY
<1>3. CornersOf(e)[s] = idx(CornerX(e, s), CornerY(e, s))
  BY <1>1 DEF CornersOf, Corners, CornerX, CornerY
<1> QED BY <1>2, <1>3

LEMMA NodePlace == ASSUME Sizes, NEW i \in 0 .. nx, NEW j \in 0 .. ny
                   PROVE  idx(i, j) \in Nodes /\ X(idx(i, j)) = i /\ Y(idx(i, j)) = j
<1>1. nx + 1 \in Nat \ {0} /\ j \in Nat /\ ny \in Nat /\ nx \in Nat /\ i \in 0 .. (nx + 1) - 1
  BY DEF Sizes
<1>2. (i + j * (nx + 1)) % (nx + 1) = i /\ (i + j * (nx + 1)) \div (nx + 1) = j
  BY <1>1, DivisionUnique
<1>3. j * (nx + 1) <= ny * (nx + 1) /\ j * (nx + 1) \in Nat /\ ny * (nx + 1) \in Nat
      /\ (nx + 1) * (ny + 1) = ny * (nx + 1) + (nx + 1)
  BY <1>1, MulMono
<1>4. i + j * (nx + 1) \in Nat /\ i + j * (nx + 1) <= (nx + 1) * (ny + 1) - 1
  BY <1>1, <1>3
<1> QED BY <1>1, <1>2, <1>3, <1>4 DEF idx, X, Y, Nodes

\* An element has a node as a corner if it is at most one step away from it.
LEMMA AtCorner ==
    ASSUME Sizes, NEW e \in Elements, NEW i \in 0 .. nx, NEW j \in 0 .. ny
    PROVE  (\E s \in Sides : CornersOf(e)[s] = idx(i, j))
             <=> Column(e) \in {i - 1, i} /\ Level(e) \in {j - 1, j}
<1>1. \A s \in Sides : CornersOf(e)[s] = idx(i, j) <=> CornerX(e, s) = i /\ CornerY(e, s) = j
  <2> TAKE s \in Sides
  <2>1. /\ CornerX(e, s) \in 0 .. nx /\ CornerY(e, s) \in 0 .. ny
        /\ CornersOf(e)[s] = idx(CornerX(e, s), CornerY(e, s))
    BY CornerPlace
  <2>2. /\ X(idx(i, j)) = i /\ Y(idx(i, j)) = j
        /\ X(idx(CornerX(e, s), CornerY(e, s))) = CornerX(e, s)
        /\ Y(idx(CornerX(e, s), CornerY(e, s))) = CornerY(e, s)
    BY <2>1, NodePlace
  <2> QED BY <2>1, <2>2
<1>2. Column(e) \in Int /\ Level(e) \in Int /\ i \in Int /\ j \in Int
  BY CellPlace DEF Sizes
<1>3. Sides = {0, 1, 2, 3}
  BY DEF Sides
<1>4. (\E s \in Sides : CornerX(e, s) = i /\ CornerY(e, s) = j)
        <=> Column(e) \in {i - 1, i} /\ Level(e) \in {j - 1, j}
  BY <1>2, <1>3 DEF CornerX, CornerY
<1> QED BY <1>1, <1>4

\* The element across a side lies in the next column or on the next level, and
\* the one beyond its opposite side is the one it was reached from.
Beside(d, e, s) ==
    /\ Column(d) = Column(e) + (IF s = 1 THEN 1 ELSE IF s = 3 THEN -1 ELSE 0)
    /\ Level(d) = Level(e) + (IF s = 2 THEN 1 ELSE IF s = 0 THEN -1 ELSE 0)

Border(e, s) == \/ s = 0 /\ Level(e) = 0
                \/ s = 1 /\ Column(e) = nx - 1
                \/ s = 2 /\ Level(e) = ny - 1
                \/ s = 3 /\ Column(e) = 0

LEMMA CellUnique == ASSUME Sizes, NEW d \in Elements, NEW e \in Elements,
                           Column(d) = Column(e), Level(d) = Level(e)
                    PROVE  d = e
  BY CellPlace

LEMMA AcrossPlace ==
    ASSUME Sizes, NEW e \in Elements, NEW s \in Sides
    PROVE  IF Border(e, s) THEN Across(e, s) = Null
           ELSE /\ Across(e, s) \in Elements /\ Beside(Across(e, s), e, s)
                /\ Across(e, s) < e <=> s \in {0, 3}
<1> DEFINE i == Column(e)   j == Level(e)
<1>1. i \in 0 .. nx - 1 /\ j \in 0 .. ny - 1 /\ e = Cell(i, j) /\ nx \in Nat \ {0} /\ ny \in Nat \ {0}
  BY CellPlace DEF Sizes
<1>2. Across(e, s) = CASE s = 0 -> IF j = 0 THEN Null ELSE e - nx
                       [] s = 1 -> IF i = nx - 1 THEN Null ELSE e + 1
                       [] s = 2 -> IF j = ny - 1 THEN Null ELSE e + nx
                       [] s = 3 -> IF i = 0 THEN Null ELSE e - 1
  BY DEF Across, Column, Level
<1>3. Border(e, s) <=> \/ s = 0 /\ j = 0
                       \/ s = 1 /\ i = nx - 1
                       \/ s = 2 /\ j = ny - 1
                       \/ s = 3 /\ i = 0
  BY DEF Border
<1> HIDE DEF i, j
<1>4. ASSUME NEW a \in 0 .. nx - 1, NEW b \in 0 .. ny - 1, Across(e, s) = Cell(a, b),
             a = i + (IF s = 1 THEN 1 ELSE IF s = 3 THEN -1 ELSE 0),
             b = j + (IF s = 2 THEN 1 ELSE IF s = 0 THEN -1 ELSE 0)
      PROVE  Across(e, s) \in Elements /\ Beside(Across(e, s), e, s)
  BY <1>4, PlaceCell DEF Beside, i, j
<1>5. Sides = {0, 1, 2, 3}
  BY DEF Sides
<1>6. CASE s = 0
  <2>1. j # 0 => j - 1 \in 0 .. ny - 1 /\ e - nx = Cell(i, j - 1)
    BY <1>1 DEF Cell
  <2>2. e \in Int /\ e - nx < e
    BY <1>1 DEF Elements
  <2> QED BY <1>1, <1>2, <1>3, <1>4, <1>6, <2>1, <2>2
<1>7. CASE s = 1
  <2>1. i # nx - 1 => i + 1 \in 0 .. nx - 1 /\ e + 1 = Cell(i + 1, j)
    BY <1>1 DEF Cell
  <2>2. e \in Int /\ ~(e + 1 < e)
    BY <1>1 DEF Elements
  <2> QED BY <1>1, <1>2, <1>3, <1>4, <1>7, <2>1, <2>2
<1>8. CASE s = 2
  <2>1. j # ny - 1 => j + 1 \in 0 .. ny - 1 /\ e + nx = Cell(i, j + 1)
    BY <1>1 DEF Cell
  <2>2. e \in Int /\ ~(e + nx < e)
    BY <1>1 DEF Elements
  <2> QED BY <1>1, <1>2, <1>3, <1>4, <1>8, <2>1, <2>2
<1>9. CASE s = 3
  <2>1. i # 0 => i - 1 \in 0 .. nx - 1 /\ e - 1 = Cell(i - 1, j)
    BY <1>1 DEF Cell
  <2>2. e \in Int /\ e - 1 < e
    BY <1>1 DEF Elements
  <2> QED BY <1>1, <1>2, <1>3, <1>4, <1>9, <2>1, <2>2
<1> QED BY <1>5, <1>6, <1>7, <1>8, <1>9

LEMMA OppositeSides == /\ Opposite(0) = 2 /\ Opposite(1) = 3 /\ Opposite(2) = 0 /\ Opposite(3) = 1
                       /\ \A s \in Sides : Opposite(s) \in Sides /\ Opposite(Opposite(s)) = s
  BY DEF Opposite, Sides

LEMMA AcrossBack ==
    ASSUME Sizes, NEW e \in Elements, NEW s \in Sides, Across(e, s) # Null
    PROVE  /\ Across(e, s) \in Elements
           /\ Across(Across(e, s), Opposite(s)) = e
           /\ \A r \in Sides : Across(Across(e, s), r) = e => r = Opposite(s)
<1> DEFINE n == Across(e, s)
<1>1. ~Border(e, s) /\ n \in Elements /\ Beside(n, e, s)
  BY AcrossPlace
<1> HIDE DEF n
<1>2. /\ Column(e) \in 0 .. nx - 1 /\ Level(e) \in 0 .. ny - 1
      /\ Column(n) \in 0 .. nx - 1 /\ Level(n) \in 0 .. ny - 1
      /\ nx \in Nat /\ ny \in Nat
  BY <1>1, CellPlace DEF Sizes
<1>3. Sides = {0, 1, 2, 3}
  BY DEF Sides
<1>4. ~Border(n, Opposite(s))
  BY <1>1, <1>2, <1>3, OppositeSides DEF Border, Beside
<1>5. Opposite(s) \in Sides
  BY OppositeSides
<1> DEFINE m == Across(n, Opposite(s))
<1>6. m \in Elements /\ Beside(m, n, Opposite(s))
  BY <1>1, <1>4, <1>5, AcrossPlace
<1> HIDE DEF m
<1>7. Column(m) = Column(e) /\ Level(m) = Level(e)
  BY <1>1, <1>2, <1>3, <1>6, OppositeSides DEF Beside
<1>8. m = e
  BY <1>6, <1>7, CellUnique
<1>9. ASSUME NEW r \in Sides, Across(n, r) = e PROVE r = Opposite(s)
  <2>1. Beside(e, n, r)
    <3>1. e # Null
      BY SizesAssumption DEF Elements, Sizes
    <3> QED BY <1>1, <1>9, <3>1, AcrossPlace
  <2> QED BY <1>1, <1>2, <1>3, <2>1, OppositeSides DEF Beside
<1> QED BY <1>1, <1>8, <1>9 DEF n, m

\* Which elements the two ends of a side have in common.
Meets(d, i, j) == Column(d) \in {i - 1, i} /\ Level(d) \in {j - 1, j}

LEMMA SideEnds == ASSUME NEW s \in Sides
                  PROVE  (s + 1) % 4 \in Sides /\ (s + 1) % 4 = IF s = 3 THEN 0 ELSE s + 1
  BY DEF Sides

LEMMA CommonIsBeside ==
    ASSUME Sizes, NEW e \in Elements, NEW s \in Sides, NEW d \in Elements
    PROVE  (/\ d # e
            /\ Meets(d, CornerX(e, s), CornerY(e, s))
            /\ Meets(d, CornerX(e, (s + 1) % 4), CornerY(e, (s + 1) % 4)))
           <=> Beside(d, e, s)
<1>1. /\ Column(e) \in Int /\ Level(e) \in Int /\ Column(d) \in Int /\ Level(d) \in Int
  BY CellPlace DEF Sizes
<1>2. d = e <=> Column(d) = Column(e) /\ Level(d) = Level(e)
  BY CellUnique
<1>3. s \in {0, 1, 2, 3} /\ (s + 1) % 4 = IF s = 3 THEN 0 ELSE s + 1
  BY SideEnds DEF Sides
<1>4. CASE s = 0
  BY <1>1, <1>2, <1>3, <1>4 DEF Meets, CornerX, CornerY, Beside
<1>5. CASE s = 1
  BY <1>1, <1>2, <1>3, <1>5 DEF Meets, CornerX, CornerY, Beside
<1>6. CASE s = 2
  BY <1>1, <1>2, <1>3, <1>6 DEF Meets, CornerX, CornerY, Beside
<1>7. CASE s = 3
  BY <1>1, <1>2, <1>3, <1>7 DEF Meets, CornerX, CornerY, Beside
<1> QED BY <1>3, <1>4, <1>5, <1>6, <1>7

AllNodes == node = [e \in Elements |-> CornersOf(e)]
AllConnected ==
    connections = [n \in Nodes |-> {d \in Elements : \E s \in Sides : CornersOf(d)[s] = n}]

LEMMA LeastOfOne == ASSUME NEW a \in Nat PROVE Least({a}) = a
  BY DEF Least

\* The node lists tell the element across a side.
LEMMA FindNeighbor ==
    ASSUME Sizes, AllNodes, AllConnected, NEW e \in Elements, NEW s \in Sides, face[e][s] = Null
    PROVE  find_neighbor_id(e, s) = Across(e, s)
<1> DEFINE t == (s + 1) % 4
           common == (connections[node[e][s]] \cap connections[node[e][t]]) \ {e}
<1>1. t \in Sides
  BY SideEnds
<1>2. find_neighbor_id(e, s) = IF common = {} THEN Null ELSE Least(common)
  BY DEF find_neighbor_id, face_vertices
<1> HIDE DEF t
<1>3. \A r \in Sides : /\ CornerX(e, r) \in 0 .. nx /\ CornerY(e, r) \in 0 .. ny
                       /\ node[e][r] = idx(CornerX(e, r), CornerY(e, r))
                       /\ node[e][r] \in Nodes
  BY CornerPlace, NodePlace DEF AllNodes
<1>4. \A r \in Sides : connections[node[e][r]]
                         = {d \in Elements : Meets(d, CornerX(e, r), CornerY(e, r))}
  BY <1>3, AtCorner DEF AllConnected, Meets
<1>5. common = {d \in Elements : Beside(d, e, s)}
  BY <1>1, <1>4, CommonIsBeside DEF t
<1> HIDE DEF common
<1>6. CASE Border(e, s)
  <2>1. ASSUME NEW d \in Elements, Beside(d, e, s) PROVE FALSE
    <3>1. /\ Column(d) \in 0 .. nx - 1 /\ Level(d) \in 0 .. ny - 1 /\ nx \in Nat /\ ny \in Nat
      BY CellPlace DEF Sizes
    <3> QED BY <1>6, <2>1, <3>1 DEF Border, Beside
  <2> QED BY <1>2, <1>5, <1>6, <2>1, AcrossPlace
<1>7. CASE ~Border(e, s)
  <2>1. Across(e, s) \in Elements /\ Beside(Across(e, s), e, s)
    BY <1>7, AcrossPlace
  <2>2. ASSUME NEW d \in Elements, Beside(d, e, s) PROVE d = Across(e, s)
    BY <2>1, <2>2, CellUnique DEF Beside
  <2>3. common = {Across(e, s)}
    BY <1>5, <2>1, <2>2
  <2>4. Across(e, s) \in Nat
    BY <2>1 DEF Elements
  <2> QED BY <1>2, <2>3, <2>4, LeastOfOne
<1> QED BY <1>6, <1>7

-----------------------------------------------------------------------------
(* The steps of the construction, as far as the neighbors.                  *)

SizesInv == nx \in 1 .. MaxNx /\ ny \in 1 .. MaxNy

PlaceInv == /\ pc \in {"elements", "neighbors", "count", "faces", "numbers", "built"}
            /\ pc \in {"elements", "neighbors", "faces"} => elem \in Elements
            /\ pc \in {"count", "built"} => elem = 0
            /\ pc = "numbers" => elem \in DOMAIN faces
            /\ side \in Sides
            /\ pc # "faces" => side = 0

NodesInv ==
    /\ pc = "elements" =>
         /\ node = [e \in Elements |-> IF e < elem THEN CornersOf(e) ELSE [s \in Sides |-> Null]]
         /\ connections = [n \in Nodes |-> {d \in Elements : /\ d < elem
                                                             /\ \E s \in Sides : CornersOf(d)[s] = n}]
    /\ pc # "elements" => AllNodes /\ AllConnected

NoNeighbors == [s \in Sides |-> Null]
NeighborsOf(e) == [s \in Sides |-> Across(e, s)]
NeighborInv ==
    neighbor = [e \in Elements |-> IF pc = "elements" \/ (pc = "neighbors" /\ e >= elem)
                                   THEN NoNeighbors ELSE NeighborsOf(e)]

EmptyInv == pc \in {"elements", "neighbors", "count"} =>
                DOMAIN faces = {} /\ face = [e \in Elements |-> [s \in Sides |-> Null]]

GridInv == SizesInv /\ PlaceInv /\ NodesInv /\ NeighborInv /\ EmptyInv

LEMMA SizesGiven == ASSUME SizesInv
                    PROVE  /\ Sizes /\ nx * ny \in Nat /\ 0 \in Elements
                           /\ \A e \in Elements : e \in Nat /\ (e + 1 < nx * ny <=> e + 1 \in Elements)
<1>1. nx \in Nat \ {0} /\ ny \in Nat \ {0}
  BY SizesAssumption DEF SizesInv
<1>2. nx * ny \in Nat \ {0}
  BY <1>1
<1> QED BY <1>1, <1>2 DEF Sizes, Elements

\* Nobody changes the size of the rectangle.
LEMMA SameRectangle ==
    ASSUME UNCHANGED <<nx, ny>>
    PROVE  /\ Elements' = Elements /\ Nodes' = Nodes
           /\ \A e : /\ CornersOf(e)' = CornersOf(e) /\ NeighborsOf(e)' = NeighborsOf(e)
           /\ \A e, s : Across(e, s)' = Across(e, s)
  BY DEF Elements, Nodes, CornersOf, Corners, Column, Level, idx, NeighborsOf, Across

LEMMA BuildElementKeeps == ASSUME GridInv, BuildElement PROVE GridInv'
<1>1. /\ pc = "elements" /\ elem \in Elements /\ side = 0 /\ SizesInv /\ Sizes
      /\ UNCHANGED <<nx, ny, meets, side, neighbor, face, faces, reserved>>
      /\ node' = [node EXCEPT ![elem] = CornersOf(elem)]
      /\ connections' = [n \in Nodes |-> IF \E s \in Sides : node'[elem][s] = n
                                         THEN connections[n] \union {elem} ELSE connections[n]]
      /\ IF elem + 1 < nx * ny THEN elem' = elem + 1 /\ pc' = pc ELSE elem' = 0 /\ pc' = "neighbors"
  BY SizesGiven DEF BuildElement, GridInv, PlaceInv, Turn, CornersOf, Column, Level
<1>2. /\ Elements' = Elements /\ Nodes' = Nodes
      /\ \A e : CornersOf(e)' = CornersOf(e) /\ NeighborsOf(e)' = NeighborsOf(e)
  BY <1>1, SameRectangle
<1>3. /\ nx * ny \in Nat /\ 0 \in Elements /\ elem \in Nat
      /\ elem + 1 < nx * ny <=> elem + 1 \in Elements
      /\ \A e \in Elements : e \in Nat /\ e < nx * ny
  BY <1>1, SizesGiven DEF Elements
<1>4. SizesInv' /\ PlaceInv' /\ EmptyInv'
  BY <1>1, <1>2, <1>3 DEF GridInv, SizesInv, PlaceInv, EmptyInv
<1>5. node' = [e \in Elements |-> IF e < elem + 1 THEN CornersOf(e) ELSE [s \in Sides |-> Null]]
  <2>1. node = [e \in Elements |-> IF e < elem THEN CornersOf(e) ELSE [s \in Sides |-> Null]]
    BY <1>1 DEF GridInv, NodesInv
  <2>2. \A e \in Elements : e < elem + 1 <=> e < elem \/ e = elem
    BY <1>3
  <2>3. ~(elem < elem)
    BY <1>3
  <2> QED BY <1>1, <2>1, <2>2, <2>3
<1>6. connections' = [n \in Nodes |-> {d \in Elements : /\ d < elem + 1
                                                        /\ \E s \in Sides : CornersOf(d)[s] = n}]
  <2>1. connections = [n \in Nodes |-> {d \in Elements : /\ d < elem
                                                         /\ \E s \in Sides : CornersOf(d)[s] = n}]
    BY <1>1 DEF GridInv, NodesInv
  <2>2. \A e \in Elements : e < elem + 1 <=> e < elem \/ e = elem
    BY <1>3
  <2>3. node'[elem] = CornersOf(elem)
    BY <1>1, <1>3, <1>5
  <2> QED BY <1>1, <2>1, <2>2, <2>3
<1>7. CASE elem + 1 < nx * ny
  <2>1. NodesInv'
    <3>1. pc' = "elements" /\ elem' = elem + 1
      BY <1>1, <1>7
    <3>2. node' = [e \in Elements' |-> IF e < elem' THEN CornersOf(e)' ELSE [s \in Sides |-> Null]]
      BY <1>2, <1>5, <3>1
    <3>3. connections' = [n \in Nodes' |-> {d \in Elements' : /\ d < elem'
                                              /\ \E s \in Sides : CornersOf(d)'[s] = n}]
      BY <1>2, <1>6, <3>1
    <3> QED BY <3>1, <3>2, <3>3 DEF NodesInv
  <2>2. NeighborInv'
    BY <1>1, <1>2, <1>7 DEF GridInv, NeighborInv, NoNeighbors
  <2> QED BY <1>4, <2>1, <2>2 DEF GridInv
<1>8. CASE ~(elem + 1 < nx * ny)
  <2>1. \A e \in Elements : e < elem + 1
    BY <1>3, <1>8
  <2>2. NodesInv'
    <3>1. pc' = "neighbors"
      BY <1>1, <1>8
    <3>2. node' = [e \in Elements' |-> CornersOf(e)']
      BY <1>2, <1>5, <2>1
    <3>3. connections' = [n \in Nodes' |-> {d \in Elements' : \E s \in Sides : CornersOf(d)'[s] = n}]
      BY <1>2, <1>6, <2>1
    <3> QED BY <3>1, <3>2, <3>3 DEF NodesInv, AllNodes, AllConnected
  <2>3. \A e \in Elements : e >= 0
    BY <1>3
  <2>4. NeighborInv'
    BY <1>1, <1>2, <1>8, <2>3 DEF GridInv, NeighborInv, NoNeighbors
  <2> QED BY <1>4, <2>2, <2>4 DEF GridInv
<1> QED BY <1>7, <1>8

LEMMA ConnectKeeps == ASSUME GridInv, Connect PROVE GridInv'
<1>1. /\ pc = "neighbors" /\ elem \in Elements /\ side = 0 /\ SizesInv /\ Sizes
      /\ UNCHANGED <<nx, ny, meets, side, node, connections, face, faces, reserved>>
      /\ neighbor' = [neighbor EXCEPT ![elem] = [s \in Sides |-> find_neighbor_id(elem, s)]]
      /\ IF elem + 1 < nx * ny THEN elem' = elem + 1 /\ pc' = pc ELSE elem' = 0 /\ pc' = "count"
      /\ AllNodes /\ AllConnected
  BY SizesGiven DEF Connect, GridInv, PlaceInv, NodesInv, Turn, SetNeighbors
<1>2. /\ Elements' = Elements /\ Nodes' = Nodes
      /\ \A e : CornersOf(e)' = CornersOf(e) /\ NeighborsOf(e)' = NeighborsOf(e)
  BY <1>1, SameRectangle
<1>3. /\ nx * ny \in Nat /\ 0 \in Elements /\ elem \in Nat
      /\ elem + 1 < nx * ny <=> elem + 1 \in Elements
      /\ \A e \in Elements : e \in Nat /\ e < nx * ny
  BY <1>1, SizesGiven DEF Elements
<1>4. SizesInv' /\ PlaceInv' /\ EmptyInv'
  BY <1>1, <1>2, <1>3 DEF GridInv, SizesInv, PlaceInv, EmptyInv
<1>5. NodesInv'
  BY <1>1, <1>2 DEF NodesInv, AllNodes, AllConnected
<1>6. [s \in Sides |-> find_neighbor_id(elem, s)] = NeighborsOf(elem)
  <2>1. \A s \in Sides : face[elem][s] = Null
    BY <1>1 DEF GridInv, EmptyInv
  <2> QED BY <1>1, <2>1, FindNeighbor DEF NeighborsOf
<1>7. neighbor' = [e \in Elements |-> IF e >= elem + 1 THEN NoNeighbors ELSE NeighborsOf(e)]
  <2>1. neighbor = [e \in Elements |-> IF e >= elem THEN NoNeighbors ELSE NeighborsOf(e)]
    BY <1>1 DEF GridInv, NeighborInv
  <2>2. \A e \in Elements : e >= elem <=> e >= elem + 1 \/ e = elem
    BY <1>3
  <2>3. ~(elem >= elem + 1)
    BY <1>3
  <2> QED BY <1>1, <1>6, <2>1, <2>2, <2>3
<1>8. NeighborInv'
  <2>1. CASE elem + 1 < nx * ny
    BY <1>1, <1>2, <1>7, <2>1 DEF NeighborInv, NoNeighbors
  <2>2. CASE ~(elem + 1 < nx * ny)
    <3>1. \A e \in Elements : ~(e >= elem + 1)
      BY <1>3, <2>2
    <3> QED BY <1>1, <1>2, <1>7, <2>2, <3>1 DEF NeighborInv, NoNeighbors
  <2> QED BY <2>1, <2>2
<1> QED BY <1>4, <1>5, <1>8 DEF GridInv

-----------------------------------------------------------------------------
(* The faces: who creates one, and how many there are.                      *)

Creates(e, s) == Across(e, s) = Null \/ e < Across(e, s)
Creators == {t \in Elements \X Sides : Creates(t[1], t[2])}

LEMMA Partner ==
    ASSUME Sizes, NEW e \in Elements, NEW s \in Sides, Across(e, s) # Null
    PROVE  /\ Across(e, s) \in Elements /\ Opposite(s) \in Sides
           /\ Across(Across(e, s), Opposite(s)) = e /\ e # Null /\ Opposite(Opposite(s)) = s
           /\ Creates(e, s) <=> ~Creates(Across(e, s), Opposite(s))
           /\ ~Creates(e, s) => Across(e, s) < e
<1> DEFINE n == Across(e, s)
<1>1. n \in Elements /\ Across(n, Opposite(s)) = e
  BY AcrossBack
<1>2. ~Border(e, s) /\ Beside(n, e, s)
  BY AcrossPlace
<1>3. n # e
  <2>1. Column(e) \in Int /\ Level(e) \in Int
    BY CellPlace DEF Sizes
  <2>2. s \in {0, 1, 2, 3}
    BY DEF Sides
  <2> HIDE DEF n
  <2> QED BY <1>2, <2>1, <2>2 DEF Beside
<1>4. e \in Nat /\ n \in Nat /\ e # Null
  BY <1>1, SizesAssumption DEF Elements, Sizes
<1>5. Creates(e, s) <=> e < n
  BY DEF Creates
<1>6. Creates(n, Opposite(s)) <=> n < e
  BY <1>1, <1>4 DEF Creates
<1> HIDE DEF n
<1>7. (e < n <=> ~(n < e)) /\ (~(e < n) => n < e)
  BY <1>3, <1>4
<1> QED BY <1>1, <1>4, <1>5, <1>6, <1>7, OppositeSides DEF n

LEMMA PairsFinite == ASSUME Sizes PROVE IsFiniteSet(Elements \X Sides)
<1>1. nx * ny \in Nat
  BY DEF Sizes
<1>2. IsFiniteSet(Elements) /\ IsFiniteSet(Sides)
  <2>1. nx * ny - 1 \in Int /\ 0 \in Int /\ 3 \in Int
    BY <1>1
  <2>2. IsFiniteSet(0 .. nx * ny - 1)
    BY <2>1, FS_Interval
  <2>3. IsFiniteSet(0 .. 3)
    BY <2>1, FS_Interval
  <2> QED BY <2>2, <2>3 DEF Elements, Sides
<1> QED BY <1>2, FS_Product

\* An internal side is counted twice and halved, and every other side once:
\* what is reserved is the number of the faces that will be created.
LEMMA CountIsCreators ==
    ASSUME Sizes
    PROVE  Cardinality({t \in Elements \X Sides : Across(t[1], t[2]) = Null})
             + Cardinality({t \in Elements \X Sides : Across(t[1], t[2]) # Null}) \div 2
           = Cardinality(Creators)
<1> DEFINE P == Elements \X Sides
           B == {t \in P : Across(t[1], t[2]) = Null}
           N == {t \in P : Across(t[1], t[2]) # Null}
           I == {t \in N : Creates(t[1], t[2])}
           J == {t \in N : ~Creates(t[1], t[2])}
           f == [t \in I |-> <<Across(t[1], t[2]), Opposite(t[2])>>]
<1>1. IsFiniteSet(P)
  BY PairsFinite
<1>2. /\ IsFiniteSet(B) /\ IsFiniteSet(N) /\ IsFiniteSet(I) /\ IsFiniteSet(J)
      /\ Cardinality(B) \in Nat /\ Cardinality(N) \in Nat /\ Cardinality(I) \in Nat
      /\ Cardinality(J) \in Nat
  <2>1. B \subseteq P /\ N \subseteq P /\ I \subseteq P /\ J \subseteq P
    OBVIOUS
  <2> HIDE DEF B, N, I, J
  <2> QED BY <1>1, <2>1, FS_Subset, FS_CardinalityType
<1>3. f \in Bijection(I, J)
  <2>1. ASSUME NEW t \in I
        PROVE  /\ <<Across(t[1], t[2]), Opposite(t[2])>> \in J
               /\ t = <<Across(f[t][1], f[t][2]), Opposite(f[t][2])>>
    <3>1. t[1] \in Elements /\ t[2] \in Sides /\ Across(t[1], t[2]) # Null /\ Creates(t[1], t[2])
          /\ t = <<t[1], t[2]>>
      OBVIOUS
    <3>2. /\ Across(t[1], t[2]) \in Elements /\ Opposite(t[2]) \in Sides
          /\ Across(Across(t[1], t[2]), Opposite(t[2])) = t[1] /\ t[1] # Null
          /\ Opposite(Opposite(t[2])) = t[2]
          /\ ~Creates(Across(t[1], t[2]), Opposite(t[2]))
      BY <3>1, Partner
    <3> QED BY <3>1, <3>2
  <2>2. ASSUME NEW u \in J
        PROVE  \E t \in I : <<Across(t[1], t[2]), Opposite(t[2])>> = u
    <3>1. u[1] \in Elements /\ u[2] \in Sides /\ Across(u[1], u[2]) # Null /\ ~Creates(u[1], u[2])
          /\ u = <<u[1], u[2]>>
      OBVIOUS
    <3>2. /\ Across(u[1], u[2]) \in Elements /\ Opposite(u[2]) \in Sides
          /\ Across(Across(u[1], u[2]), Opposite(u[2])) = u[1] /\ u[1] # Null
          /\ Opposite(Opposite(u[2])) = u[2]
          /\ Creates(Across(u[1], u[2]), Opposite(u[2]))
      BY <3>1, Partner
    <3>3. <<Across(u[1], u[2]), Opposite(u[2])>> \in I
      BY <3>1, <3>2
    <3> QED BY <3>1, <3>2, <3>3
  <2>3. f \in [I -> J]
    BY <2>1
  <2>4. \A t, u \in I : f[t] = f[u] => t = u
    BY <2>1
  <2>5. \A u \in J : \E t \in I : f[t] = u
    BY <2>2
  <2> HIDE DEF f, I, J
  <2> QED BY <2>3, <2>4, <2>5 DEF Bijection, Injection, IsInjective, Surjection
<1>4. Cardinality(I) = Cardinality(J)
  <2> HIDE DEF f, I, J
  <2> QED BY <1>2, <1>3, FS_Bijection DEF ExistsBijection
<1>5. Cardinality(N) = Cardinality(I) + Cardinality(J)
  <2>1. N = I \cup J /\ I \cap J = {}
    OBVIOUS
  <2> HIDE DEF N, I, J
  <2>2. Cardinality(I \cup J) = Cardinality(I) + Cardinality(J) - Cardinality(I \cap J)
    BY <1>2, FS_Union
  <2>3. Cardinality(I \cap J) = 0
    BY <2>1, FS_EmptySet
  <2> QED BY <1>2, <2>1, <2>2, <2>3
<1>6. Cardinality(Creators) = Cardinality(B) + Cardinality(I)
  <2>1. Creators = B \cup I /\ B \cap I = {}
    BY DEF Creators, Creates
  <2> HIDE DEF B, I
  <2>2. Cardinality(B \cup I) = Cardinality(B) + Cardinality(I) - Cardinality(B \cap I)
    BY <1>2, FS_Union
  <2>3. Cardinality(B \cap I) = 0
    BY <2>1, FS_EmptySet
  <2> QED BY <1>2, <2>1, <2>2, <2>3
<1>7. Cardinality(N) \div 2 = Cardinality(I)
  <2> HIDE DEF N, I, J
  <2> QED BY <1>2, <1>4, <1>5
<1> HIDE DEF B, N, I, J, P
<1>8. Cardinality(B) + Cardinality(N) \div 2 = Cardinality(Creators)
  BY <1>6, <1>7
<1> QED BY <1>8 DEF B, N, P

-----------------------------------------------------------------------------
(* The creation of the faces, and their numbers.                            *)

Done(e, s) == pc # "faces" \/ Visited(e, s)
Numbered(k) == pc = "built" \/ (pc = "numbers" /\ k < elem)

\* The number of a side of the rectangle.
NumberOf(s) == IF s = 1 /\ "x" \notin meets THEN 0
               ELSE IF s = 2 /\ "y" \notin meets THEN 0
               ELSE s

BoundaryOf(e, s, k) == IF Across(e, s) # Null THEN Null ELSE IF Numbered(k) THEN NumberOf(s) ELSE 0

SideFace(e, s, b) == [owner |-> e, neighbor |-> Across(e, s),
                      nodes |-> <<CornersOf(e)[s], CornersOf(e)[(s + 1) % 4]>>, boundary |-> b]

\* A face that has been created, as both elements have it, and one that has not.
Created(e, s) ==
    LET k == face[e][s]
    IN  /\ k \in DOMAIN faces
        /\ faces[k] = SideFace(e, s, BoundaryOf(e, s, k))
        /\ Across(e, s) # Null => face[Across(e, s)][Opposite(s)] = k
Uncreated(e, s) == /\ face[e][s] = Null
                   /\ Across(e, s) # Null => face[Across(e, s)][Opposite(s)] = Null

Counted == \E k \in Nat : DOMAIN faces = 0 .. k - 1
FaceTypes == face \in [Elements -> [Sides -> Ids(DOMAIN faces)]]
FacesMade == \A e \in Elements, s \in Sides :
                 Creates(e, s) => IF Done(e, s) THEN Created(e, s) ELSE Uncreated(e, s)
OneEach == \A e, d \in Elements, s, r \in Sides :
               /\ Creates(e, s) /\ Creates(d, r) /\ Done(e, s) /\ Done(d, r)
               /\ face[e][s] = face[d][r]
               => e = d /\ s = r
EachFrom == \A k \in DOMAIN faces :
                \E e \in Elements, s \in Sides : Creates(e, s) /\ Done(e, s) /\ face[e][s] = k

FacesInv == pc \in {"faces", "numbers", "built"} =>
                /\ Counted /\ FaceTypes /\ FacesMade /\ OneEach /\ EachFrom
                /\ reserved = Cardinality(Creators)

MeshInv == GridInv /\ FacesInv /\ reserved \in Nat

LEMMA InitMesh == Init => MeshInv
<1> SUFFICES ASSUME Init PROVE MeshInv
  OBVIOUS
<1>1. SizesInv /\ pc = "elements" /\ elem = 0 /\ side = 0 /\ DOMAIN faces = {} /\ reserved = 0
  BY DEF Init, SizesInv
<1>2. 0 \in Elements /\ \A e \in Elements : ~(e < 0)
  <2>1. \A e \in Elements : e \in Nat
    BY <1>1, SizesGiven
  <2> QED BY <1>1, <2>1, SizesGiven
<1>3. /\ node = [e \in Elements |-> [s \in Sides |-> Null]]
      /\ connections = [n \in Nodes |-> {}]
      /\ neighbor = node /\ face = node
  BY DEF Init
<1>4. NodesInv /\ NeighborInv /\ EmptyInv
  BY <1>1, <1>2, <1>3 DEF NodesInv, NeighborInv, NoNeighbors, EmptyInv
<1>5. PlaceInv
  BY <1>1, <1>2 DEF PlaceInv, Sides
<1> QED BY <1>1, <1>4, <1>5 DEF MeshInv, GridInv, FacesInv

LEMMA BeforeFaces == ASSUME MeshInv, BuildElement \/ Connect PROVE MeshInv'
<1>1. GridInv'
  BY BuildElementKeeps, ConnectKeeps DEF MeshInv
<1>2. pc' \notin {"faces", "numbers", "built"} /\ reserved' = reserved
  BY DEF BuildElement, Connect, Turn
<1> QED BY <1>1, <1>2 DEF MeshInv, FacesInv

LEMMA CountFacesKeeps == ASSUME MeshInv, CountFaces PROVE MeshInv'
<1>1. /\ pc = "count" /\ pc' = "faces" /\ elem = 0 /\ side = 0 /\ SizesInv /\ Sizes
      /\ UNCHANGED <<nx, ny, meets, elem, side, node, connections, neighbor, face, faces>>
      /\ AllNodes /\ AllConnected
      /\ DOMAIN faces = {} /\ face = [e \in Elements |-> [s \in Sides |-> Null]]
      /\ neighbor = [e \in Elements |-> NeighborsOf(e)]
  BY SizesGiven DEF CountFaces, MeshInv, GridInv, PlaceInv, NodesInv, NeighborInv, EmptyInv
<1>2. /\ Elements' = Elements /\ Nodes' = Nodes
      /\ \A e : CornersOf(e)' = CornersOf(e) /\ NeighborsOf(e)' = NeighborsOf(e)
      /\ \A e, s : Across(e, s)' = Across(e, s)
  BY <1>1, SameRectangle
<1>3. GridInv'
  <2>1. 0 \in Elements
    BY <1>1, SizesGiven
  <2>2. SizesInv' /\ PlaceInv' /\ EmptyInv'
    BY <1>1, <1>2, <2>1 DEF MeshInv, GridInv, SizesInv, PlaceInv, EmptyInv
  <2>3. NodesInv'
    BY <1>1, <1>2 DEF NodesInv, AllNodes, AllConnected
  <2>4. NeighborInv'
    BY <1>1, <1>2 DEF NeighborInv
  <2> QED BY <2>2, <2>3, <2>4 DEF GridInv
<1>4. reserved' = Cardinality(Creators)
  <2>1. \A t \in Elements \X Sides : neighbor[t[1]][t[2]] = Across(t[1], t[2])
    BY <1>1 DEF NeighborsOf
  <2>2. /\ {t \in Elements \X Sides : (neighbor[t[1]][t[2]] = Null) = TRUE}
             = {t \in Elements \X Sides : Across(t[1], t[2]) = Null}
        /\ {t \in Elements \X Sides : (neighbor[t[1]][t[2]] = Null) = FALSE}
             = {t \in Elements \X Sides : Across(t[1], t[2]) # Null}
    BY <2>1
  <2>3. reserved' = Cardinality({t \in Elements \X Sides : (neighbor[t[1]][t[2]] = Null) = TRUE})
           + Cardinality({t \in Elements \X Sides : (neighbor[t[1]][t[2]] = Null) = FALSE}) \div 2
    BY DEF CountFaces
  <2> QED BY <1>1, <2>2, <2>3, CountIsCreators
<1>5. Creators' = Creators /\ \A e, s : Creates(e, s)' = Creates(e, s)
  BY <1>2 DEF Creators, Creates
<1>6. FacesInv'
  <2>1. \A e \in Elements, s \in Sides : ~Done(e, s)'
    <3>1. \A e \in Elements : ~(e < 0)
      <4>1. \A e \in Elements : e \in Nat
        BY <1>1, SizesGiven
      <4> QED BY <4>1
    <3> QED BY <1>1, <3>1 DEF Done, Visited, Sides
  <2>2. Counted'
    <3>1. DOMAIN faces' = 0 .. 0 - 1
      BY <1>1
    <3> QED BY <3>1 DEF Counted
  <2>3. FaceTypes'
    BY <1>1, <1>2 DEF FaceTypes, Ids
  <2>4. FacesMade'
    <3>1. ASSUME NEW e \in Elements, NEW s \in Sides PROVE Uncreated(e, s)'
      <4>1. Across(e, s) # Null => Across(e, s) \in Elements /\ Opposite(s) \in Sides
        BY <1>1, Partner
      <4> QED BY <1>1, <1>2, <4>1 DEF Uncreated, Opposite
    <3> QED BY <1>2, <2>1, <3>1 DEF FacesMade
  <2>5. OneEach' /\ EachFrom'
    BY <1>1, <1>2, <2>1 DEF OneEach, EachFrom
  <2> QED BY <1>4, <1>5, <2>2, <2>3, <2>4, <2>5 DEF FacesInv
<1>7. reserved' \in Nat
  <2>1. IsFiniteSet(Creators)
    BY <1>1, PairsFinite, FS_Subset DEF Creators
  <2> QED BY <1>4, <2>1, FS_CardinalityType
<1> QED BY <1>3, <1>6, <1>7 DEF MeshInv

\* A turn of the loop makes one side done, and all of them when it is the last.
LEMMA NextSideDone ==
    ASSUME SizesInv, pc = "faces", elem \in Elements, side \in Sides, NextSide
    PROVE  /\ \A e \in Elements, s \in Sides :
                 Done(e, s)' <=> Done(e, s) \/ (e = elem /\ s = side)
           /\ ~Done(elem, side) /\ side' \in Sides
           /\ \/ pc' = "faces" /\ elem' \in Elements
              \/ pc' = "numbers" /\ elem' = 0 /\ side' = 0
           /\ \A k \in Nat : ~Numbered(k) /\ ~Numbered(k)'
<1>1. /\ \A e \in Elements : e \in Nat /\ (e + 1 < nx * ny <=> e + 1 \in Elements)
      /\ Sides = {0, 1, 2, 3}
      /\ nx * ny \in Nat /\ elem \in Nat
      /\ \A e \in Elements : e < nx * ny
  BY SizesGiven DEF Sides, Elements
<1>2. side' = IF side = 3 THEN 0 ELSE side + 1
  BY SideEnds DEF NextSide
<1>3. ~Done(elem, side) /\ side' \in Sides
  BY <1>1, <1>2 DEF Done, Visited
<1>4. CASE side # 3
  <2>1. elem' = elem /\ pc' = pc /\ side' = side + 1
    BY <1>2, <1>4 DEF NextSide
  <2>2. \A e \in Elements, s \in Sides : Done(e, s)' <=> Done(e, s) \/ (e = elem /\ s = side)
    BY <1>1, <2>1 DEF Done, Visited
  <2> QED BY <1>1, <1>3, <2>1, <2>2 DEF Numbered
<1>5. CASE side = 3 /\ elem + 1 < nx * ny
  <2>1. elem' = elem + 1 /\ pc' = pc /\ side' = 0
    BY <1>2, <1>5 DEF NextSide, Turn
  <2>2. \A e \in Elements, s \in Sides : Done(e, s)' <=> Done(e, s) \/ (e = elem /\ s = side)
    BY <1>1, <1>5, <2>1 DEF Done, Visited
  <2> QED BY <1>1, <1>3, <1>5, <2>1, <2>2 DEF Numbered
<1>6. CASE side = 3 /\ ~(elem + 1 < nx * ny)
  <2>1. elem' = 0 /\ pc' = "numbers" /\ side' = 0
    BY <1>2, <1>6 DEF NextSide, Turn
  <2>2. \A e \in Elements, s \in Sides : Done(e, s)' <=> Done(e, s) \/ (e = elem /\ s = side)
    BY <1>1, <1>6, <2>1 DEF Done, Visited
  <2> QED BY <1>1, <1>3, <1>6, <2>1, <2>2 DEF Numbered
<1> QED BY <1>4, <1>5, <1>6

\* What a step that creates a face for this side does to the invariant.
FaceMade == Counted /\ FaceTypes /\ FacesMade /\ OneEach /\ EachFrom

LEMMA CreateKeeps ==
    ASSUME MeshInv, pc = "faces", UNCHANGED <<nx, ny, meets>>, NextSide,
           Creates(elem, side), NEW k \in Nat, DOMAIN faces = 0 .. k - 1,
           DOMAIN faces' = 0 .. k,
           \A i \in DOMAIN faces : faces'[i] = faces[i],
           faces'[k] = SideFace(elem, side, IF Across(elem, side) = Null THEN 0 ELSE Null),
           face' \in [Elements -> [Sides -> Ids(DOMAIN faces')]],
           \A e \in Elements, s \in Sides :
               face'[e][s] = IF \/ e = elem /\ s = side
                                \/ /\ Across(elem, side) # Null
                                   /\ e = Across(elem, side) /\ s = Opposite(side)
                             THEN k ELSE face[e][s]
    PROVE  FaceMade'
<1>1. /\ SizesInv /\ Sizes /\ elem \in Elements /\ side \in Sides
      /\ FaceTypes /\ FacesMade /\ OneEach /\ EachFrom
  BY SizesGiven DEF MeshInv, GridInv, PlaceInv, FacesInv
<1>2. /\ Elements' = Elements
      /\ \A e : CornersOf(e)' = CornersOf(e)
      /\ \A e, s : Across(e, s)' = Across(e, s)
  BY SameRectangle
<1>3. /\ \A e \in Elements, s \in Sides : Done(e, s)' <=> Done(e, s) \/ (e = elem /\ s = side)
      /\ ~Done(elem, side)
      /\ \A i \in Nat : ~Numbered(i) /\ ~Numbered(i)'
  BY <1>1, NextSideDone
<1>4. \A e, s : Creates(e, s)' = Creates(e, s)
  BY <1>2 DEF Creates
<1>5. k \notin DOMAIN faces /\ k \in DOMAIN faces' /\ \A i \in DOMAIN faces' : i \in Nat
  OBVIOUS
<1>6. \A e, s, b : SideFace(e, s, b)' = SideFace(e, s, b')
  BY <1>2 DEF SideFace
<1>7. \A e, s : \A i \in Nat : /\ BoundaryOf(e, s, i)' = BoundaryOf(e, s, i)
                              /\ BoundaryOf(e, s, i) = IF Across(e, s) = Null THEN 0 ELSE Null
  BY <1>2, <1>3 DEF BoundaryOf
<1>8. ASSUME NEW e \in Elements, NEW s \in Sides, Creates(e, s), ~(e = elem /\ s = side)
      PROVE  /\ face'[e][s] = face[e][s]
             /\ Across(e, s) # Null =>
                  /\ Across(e, s) \in Elements /\ Opposite(s) \in Sides
                  /\ face'[Across(e, s)][Opposite(s)] = face[Across(e, s)][Opposite(s)]
  <2>1. Across(elem, side) # Null =>
          /\ ~Creates(Across(elem, side), Opposite(side))
          /\ Across(Across(elem, side), Opposite(side)) = elem /\ Opposite(Opposite(side)) = side
    BY <1>1, Partner
  <2>2. Across(e, s) # Null =>
          /\ ~Creates(Across(e, s), Opposite(s))
          /\ Across(e, s) \in Elements /\ Opposite(s) \in Sides
          /\ Across(Across(e, s), Opposite(s)) = e /\ Opposite(Opposite(s)) = s
    BY <1>1, <1>8, Partner
  <2>3. face'[e][s] = face[e][s]
    BY <1>8, <2>1
  <2>4. ASSUME Across(e, s) # Null
        PROVE  face'[Across(e, s)][Opposite(s)] = face[Across(e, s)][Opposite(s)]
    BY <1>8, <2>1, <2>2, <2>4
  <2> QED BY <2>2, <2>3, <2>4
<1>9. face'[elem][side] = k
  BY <1>1
<1>10. FacesMade'
  <2>1. ASSUME NEW e \in Elements, NEW s \in Sides, Creates(e, s), ~(e = elem /\ s = side)
        PROVE  IF Done(e, s) THEN Created(e, s)' ELSE Uncreated(e, s)'
    <3>1. IF Done(e, s) THEN Created(e, s) ELSE Uncreated(e, s)
      BY <1>1, <2>1 DEF FacesMade
    <3>2. CASE Done(e, s)
      <4>1. /\ face[e][s] \in DOMAIN faces
            /\ faces[face[e][s]] = SideFace(e, s, BoundaryOf(e, s, face[e][s]))
            /\ Across(e, s) # Null => face[Across(e, s)][Opposite(s)] = face[e][s]
        BY <3>1, <3>2 DEF Created
      <4>2. face'[e][s] = face[e][s] /\ face[e][s] \in DOMAIN faces' /\ face[e][s] \in Nat
        BY <1>8, <2>1, <4>1
      <4>3. faces'[face'[e][s]] = SideFace(e, s, IF Across(e, s) = Null THEN 0 ELSE Null)
        BY <1>7, <4>1, <4>2
      <4>4. faces'[face'[e][s]] = SideFace(e, s, BoundaryOf(e, s, face[e][s]))'
        <5>1. BoundaryOf(e, s, face[e][s])' = IF Across(e, s) = Null THEN 0 ELSE Null
          <6>1. ~Numbered(face[e][s])'
            <7>1. \A i \in Nat : ~Numbered(i)'
              BY <1>3
            <7> QED BY <4>2, <7>1 DEF Numbered
          <6> QED BY <1>2, <6>1 DEF BoundaryOf
        <5> QED BY <1>2, <4>3, <5>1 DEF SideFace
      <4>5. ASSUME Across(e, s) # Null PROVE face'[Across(e, s)][Opposite(s)] = face'[e][s]
        <5>1. face'[Across(e, s)][Opposite(s)] = face[Across(e, s)][Opposite(s)]
          BY <1>8, <2>1, <4>5
        <5>2. face[Across(e, s)][Opposite(s)] = face[e][s]
          BY <4>1, <4>5
        <5> QED BY <4>2, <5>1, <5>2
      <4> QED BY <1>2, <3>2, <4>2, <4>4, <4>5 DEF Created, Opposite
    <3>3. CASE ~Done(e, s)
      BY <1>2, <1>8, <2>1, <3>1, <3>3 DEF Uncreated, Opposite
    <3> QED BY <3>2, <3>3
  <2>2. ASSUME NEW e \in Elements, NEW s \in Sides, e = elem, s = side PROVE Created(e, s)'
    <3>1. face'[e][s] = k /\ faces'[k] = SideFace(e, s, IF Across(e, s) = Null THEN 0 ELSE Null)
      BY <1>9, <2>2
    <3>2. BoundaryOf(e, s, face[e][s])' = IF Across(e, s) = Null THEN 0 ELSE Null
      <4>1. ~Numbered(face[e][s])'
        <5>1. \A i \in Nat : ~Numbered(i)'
          BY <1>3
        <5> QED BY <3>1, <5>1 DEF Numbered
      <4> QED BY <1>2, <4>1 DEF BoundaryOf
    <3>3. faces'[face'[e][s]] = SideFace(e, s, BoundaryOf(e, s, face[e][s]))'
      BY <1>2, <3>1, <3>2 DEF SideFace
    <3>4. ASSUME Across(e, s) # Null PROVE face'[Across(e, s)][Opposite(s)] = face'[e][s]
      <4>1. Across(e, s) \in Elements /\ Opposite(s) \in Sides
        BY <1>1, <3>4, Partner
      <4> QED BY <2>2, <3>1, <3>4, <4>1
    <3> QED BY <1>2, <1>5, <3>1, <3>3, <3>4 DEF Created, Opposite
  <2>3. ASSUME NEW e \in Elements, NEW s \in Sides, Creates(e, s)
        PROVE  IF Done(e, s)' THEN Created(e, s)' ELSE Uncreated(e, s)'
    <3>1. CASE e = elem /\ s = side
      BY <1>3, <2>2, <3>1
    <3>2. CASE ~(e = elem /\ s = side)
      <4>1. Done(e, s)' <=> Done(e, s)
        BY <1>3, <3>2
      <4> QED BY <2>1, <2>3, <3>2, <4>1
    <3> QED BY <3>1, <3>2
  <2>4. \A e \in Elements', s \in Sides :
            Creates(e, s)' => IF Done(e, s)' THEN Created(e, s)' ELSE Uncreated(e, s)'
    BY <1>2, <1>4, <2>3
  <2> QED BY <2>4 DEF FacesMade, Sides
<1>11. Counted'
  <2>1. DOMAIN faces' = 0 .. (k + 1) - 1 /\ k + 1 \in Nat
    OBVIOUS
  <2> QED BY <2>1 DEF Counted
<1>12. FaceTypes'
  BY <1>2 DEF FaceTypes, Ids, Sides
<1>13. OneEach'
  <2>1. ASSUME NEW e \in Elements, NEW s \in Sides, Creates(e, s), Done(e, s)',
               ~(e = elem /\ s = side)
        PROVE  Done(e, s) /\ face'[e][s] = face[e][s] /\ face'[e][s] # k
    <3>1. Done(e, s) /\ face'[e][s] = face[e][s]
      BY <1>3, <1>8, <2>1
    <3>2. face[e][s] \in DOMAIN faces
      BY <1>1, <2>1, <3>1 DEF FacesMade, Created
    <3> QED BY <1>5, <3>1, <3>2
  <2>2. ASSUME NEW e \in Elements, NEW d \in Elements, NEW s \in Sides, NEW r \in Sides,
               Creates(e, s), Creates(d, r), Done(e, s)', Done(d, r)', face'[e][s] = face'[d][r]
        PROVE  e = d /\ s = r
    <3>1. CASE (e = elem /\ s = side) /\ (d = elem /\ r = side)
      BY <3>1
    <3>2. CASE ~(e = elem /\ s = side) /\ (d = elem /\ r = side)
      BY <1>9, <2>1, <2>2, <3>2
    <3>3. CASE (e = elem /\ s = side) /\ ~(d = elem /\ r = side)
      BY <1>9, <2>1, <2>2, <3>3
    <3>4. CASE ~(e = elem /\ s = side) /\ ~(d = elem /\ r = side)
      <4>1. Done(e, s) /\ Done(d, r) /\ face[e][s] = face[d][r]
        BY <2>1, <2>2, <3>4
      <4> QED BY <1>1, <2>2, <4>1 DEF OneEach
    <3> QED BY <3>1, <3>2, <3>3, <3>4
  <2>3. \A e, d \in Elements', s, r \in Sides :
            /\ Creates(e, s)' /\ Creates(d, r)' /\ Done(e, s)' /\ Done(d, r)'
            /\ face'[e][s] = face'[d][r]
            => e = d /\ s = r
    BY <1>2, <1>4, <2>2
  <2> QED BY <2>3 DEF OneEach, Sides
<1>14. EachFrom'
  <2>1. ASSUME NEW i \in DOMAIN faces'
        PROVE  \E e \in Elements, s \in Sides : Creates(e, s) /\ Done(e, s)' /\ face'[e][s] = i
    <3>1. CASE i = k
      BY <1>1, <1>3, <1>9, <3>1
    <3>2. CASE i # k
      <4>1. i \in DOMAIN faces
        BY <1>5, <3>2
      <4>2. PICK e \in Elements, s \in Sides : Creates(e, s) /\ Done(e, s) /\ face[e][s] = i
        BY <1>1, <4>1 DEF EachFrom
      <4>3. ~(e = elem /\ s = side)
        BY <1>3, <4>2
      <4>4. face'[e][s] = face[e][s]
        BY <1>8, <4>2, <4>3
      <4> QED BY <1>3, <4>2, <4>4
    <3> QED BY <3>1, <3>2
  <2>2. \A i \in DOMAIN faces' : \E e \in Elements', s \in Sides :
            Creates(e, s)' /\ Done(e, s)' /\ face'[e][s] = i
    BY <1>2, <1>4, <2>1
  <2> QED BY <2>2 DEF EachFrom, Sides
<1> QED BY <1>10, <1>11, <1>12, <1>13, <1>14 DEF FaceMade

\* The first side of the first element is on the border.
LEMMA FirstCreates == ASSUME Sizes PROVE 0 \in Elements /\ 0 \in Sides /\ Creates(0, 0)
<1>1. 0 \in Elements /\ 0 \in Sides
  <2>1. nx * ny \in Nat \ {0}
    BY DEF Sizes
  <2> QED BY <2>1 DEF Elements, Sides
<1>2. Level(0) = 0
  <2>1. nx \in Nat \ {0} /\ 0 \in 0 .. nx - 1 /\ 0 \in Nat /\ 0 + 0 * nx = 0
    BY DEF Sizes
  <2>2. (0 + 0 * nx) \div nx = 0
    BY <2>1, DivisionUnique
  <2> QED BY <2>1, <2>2 DEF Level
<1>3. Across(0, 0) = Null
  BY <1>1, <1>2, AcrossPlace DEF Border
<1> QED BY <1>1, <1>3 DEF Creates

LEMMA FromFaces ==
    ASSUME MeshInv, pc = "faces", NextSide, FaceMade',
           UNCHANGED <<nx, ny, meets, node, connections, neighbor, reserved>>
    PROVE  MeshInv'
<1>1. /\ SizesInv /\ Sizes /\ elem \in Elements /\ side \in Sides /\ reserved \in Nat
      /\ AllNodes /\ AllConnected /\ neighbor = [e \in Elements |-> NeighborsOf(e)]
      /\ reserved = Cardinality(Creators)
  BY SizesGiven DEF MeshInv, GridInv, PlaceInv, NodesInv, NeighborInv, FacesInv
<1>2. /\ Elements' = Elements /\ Nodes' = Nodes
      /\ \A e : CornersOf(e)' = CornersOf(e) /\ NeighborsOf(e)' = NeighborsOf(e)
      /\ \A e, s : Across(e, s)' = Across(e, s)
  BY SameRectangle
<1>3. /\ side' \in Sides
      /\ \/ pc' = "faces" /\ elem' \in Elements
         \/ pc' = "numbers" /\ elem' = 0 /\ side' = 0
  BY <1>1, NextSideDone
<1>4. Creators' = Creators
  BY <1>2 DEF Creators, Creates, Sides
<1>5. FacesInv'
  BY <1>1, <1>4 DEF FacesInv, FaceMade
<1>6. SizesInv' /\ NodesInv' /\ NeighborInv' /\ EmptyInv'
  <2>1. SizesInv' /\ EmptyInv'
    BY <1>1, <1>3 DEF SizesInv, EmptyInv
  <2>2. NodesInv'
    BY <1>1, <1>2, <1>3 DEF NodesInv, AllNodes, AllConnected
  <2>3. NeighborInv'
    BY <1>1, <1>2, <1>3 DEF NeighborInv
  <2> QED BY <2>1, <2>2, <2>3
<1>7. pc' = "numbers" => 0 \in DOMAIN faces'
  <2> SUFFICES ASSUME pc' = "numbers" PROVE 0 \in DOMAIN faces'
    OBVIOUS
  <2>1. 0 \in Elements' /\ 0 \in Sides /\ Creates(0, 0)'
    BY <1>1, <1>2, FirstCreates DEF Creates
  <2>2. Done(0, 0)'
    BY DEF Done
  <2>3. face'[0][0] \in DOMAIN faces'
    BY <2>1, <2>2 DEF FaceMade, FacesMade, Created, Sides
  <2>4. PICK k \in Nat : DOMAIN faces' = 0 .. k - 1
    BY DEF FaceMade, Counted
  <2> QED BY <2>3, <2>4
<1>8. PlaceInv'
  <2>1. 0 \in Sides
    BY DEF Sides
  <2> QED BY <1>2, <1>3, <1>7, <2>1 DEF PlaceInv, Sides
<1> QED BY <1>1, <1>5, <1>6, <1>8 DEF MeshInv, GridInv

\* A side whose face was created from the other side, or will be.
LEMMA SkipKeeps ==
    ASSUME MeshInv, pc = "faces", UNCHANGED <<nx, ny, meets, face, faces>>, NextSide,
           ~Creates(elem, side)
    PROVE  FaceMade'
<1>1. /\ SizesInv /\ Sizes /\ elem \in Elements /\ side \in Sides
      /\ Counted /\ FaceTypes /\ FacesMade /\ OneEach /\ EachFrom
  BY SizesGiven DEF MeshInv, GridInv, PlaceInv, FacesInv
<1>2. /\ Elements' = Elements
      /\ \A e : CornersOf(e)' = CornersOf(e)
      /\ \A e, s : Across(e, s)' = Across(e, s)
  BY SameRectangle
<1>3. /\ \A e \in Elements, s \in Sides : Creates(e, s) => (Done(e, s)' <=> Done(e, s))
      /\ \A i \in Nat : ~Numbered(i) /\ ~Numbered(i)'
  BY <1>1, NextSideDone
<1>4. \A e, s : Creates(e, s)' = Creates(e, s)
  BY <1>2 DEF Creates
<1>5. Counted' /\ FaceTypes' /\ OneEach' /\ EachFrom'
  <2>1. Counted' /\ FaceTypes'
    BY <1>1, <1>2 DEF Counted, FaceTypes, Ids, Sides
  <2>2. OneEach'
    BY <1>1, <1>2, <1>3, <1>4 DEF OneEach, Sides
  <2>3. EachFrom'
    BY <1>1, <1>2, <1>3, <1>4 DEF EachFrom, Sides
  <2> QED BY <2>1, <2>2, <2>3
<1>6. FacesMade'
  <2>1. ASSUME NEW e \in Elements, NEW s \in Sides, Creates(e, s)
        PROVE  IF Done(e, s)' THEN Created(e, s)' ELSE Uncreated(e, s)'
    <3>1. IF Done(e, s) THEN Created(e, s) ELSE Uncreated(e, s)
      BY <1>1, <2>1 DEF FacesMade
    <3>2. Done(e, s)' <=> Done(e, s)
      BY <1>3, <2>1
    <3>3. CASE Done(e, s)
      <4>1. face[e][s] \in Nat
        <5>1. PICK k \in Nat : DOMAIN faces = 0 .. k - 1
          BY <1>1 DEF Counted
        <5> QED BY <3>1, <3>3, <5>1 DEF Created
      <4>2. ~Numbered(face[e][s]) /\ ~(Numbered(face[e][s])')
        <5>1. /\ \A i \in Nat : ~Numbered(i)
              /\ \A i \in Nat : ~(pc' = "built" \/ (pc' = "numbers" /\ i < elem'))
          BY <1>3 DEF Numbered
        <5> QED BY <4>1, <5>1 DEF Numbered
      <4>3. BoundaryOf(e, s, face[e][s])' = BoundaryOf(e, s, face[e][s])
        BY <1>2, <4>2 DEF BoundaryOf
      <4>4. SideFace(e, s, BoundaryOf(e, s, face[e][s]))' = SideFace(e, s, BoundaryOf(e, s, face[e][s]))
        BY <1>2, <4>3 DEF SideFace
      <4> QED BY <1>2, <3>1, <3>2, <3>3, <4>4 DEF Created, Opposite
    <3>4. CASE ~Done(e, s)
      BY <1>2, <3>1, <3>2, <3>4 DEF Uncreated, Opposite
    <3> QED BY <3>3, <3>4
  <2>2. \A e \in Elements', s \in Sides :
            Creates(e, s)' => IF Done(e, s)' THEN Created(e, s)' ELSE Uncreated(e, s)'
    BY <1>2, <1>4, <2>1
  <2> QED BY <2>2 DEF FacesMade, Sides
<1> QED BY <1>5, <1>6 DEF FaceMade

\* An element finds itself among the neighbors of its neighbor.
LEMMA FoundAmongNeighbors ==
    ASSUME Sizes, NEW e \in Elements, NEW s \in Sides, Across(e, s) # Null,
           neighbor = [d \in Elements |-> NeighborsOf(d)]
    PROVE  which_neighbor_am_i(Across(e, s), e) = Opposite(s)
<1>1. /\ Across(e, s) \in Elements /\ Across(Across(e, s), Opposite(s)) = e
      /\ \A r \in Sides : Across(Across(e, s), r) = e => r = Opposite(s)
      /\ Opposite(s) \in Sides
  BY AcrossBack, OppositeSides
<1>2. {r \in Sides : neighbor[Across(e, s)][r] = e} = {Opposite(s)}
  BY <1>1 DEF NeighborsOf
<1>3. Opposite(s) \in Nat
  BY <1>1 DEF Sides
<1> QED BY <1>2, <1>3, LeastOfOne DEF which_neighbor_am_i

LEMMA VisitSideKeeps == ASSUME MeshInv, VisitSide PROVE MeshInv'
<1>1. /\ SizesInv /\ Sizes /\ elem \in Elements /\ side \in Sides
      /\ AllNodes /\ neighbor = [e \in Elements |-> NeighborsOf(e)]
      /\ Counted /\ FaceTypes /\ FacesMade
      /\ pc = "faces" /\ UNCHANGED <<nx, ny, meets, node, connections, neighbor, reserved>>
  BY SizesGiven DEF MeshInv, GridInv, PlaceInv, NodesInv, NeighborInv, FacesInv, VisitSide
<1> DEFINE n == Across(elem, side)   K == Cardinality(DOMAIN faces)
<1>2. neighbor[elem][side] = n
  BY <1>1 DEF NeighborsOf
<1>3. n = Null \/ IsMine(n) <=> Creates(elem, side)
  BY DEF IsMine, Creates
<1>4. n # Null => which_neighbor_am_i(n, elem) = Opposite(side) /\ Opposite(side) # Null
                  /\ n \in Elements /\ Opposite(side) \in Sides
  BY <1>1, FoundAmongNeighbors, Partner, SizesAssumption DEF Sides
<1>5. CASE ~Creates(elem, side)
  <2>1. UNCHANGED <<face, faces>> /\ NextSide
    BY <1>2, <1>3, <1>5 DEF VisitSide
  <2>2. FaceMade'
    BY <1>1, <1>5, <2>1, SkipKeeps
  <2> QED BY <1>1, <2>1, <2>2, FromFaces
<1>6. CASE Creates(elem, side)
  <2>1. /\ faces' = AddFace(NewFace(n)) /\ NextSide
        /\ face' = IF n = Null THEN set_face(elem, side, K)
                   ELSE [set_face(elem, side, K) EXCEPT ![n][Opposite(side)] = K]
    BY <1>2, <1>3, <1>4, <1>6 DEF VisitSide
  <2>2. PICK k \in Nat : DOMAIN faces = 0 .. k - 1
    BY <1>1 DEF Counted
  <2>3. K = k
    <3>1. k - 1 \in Int /\ 0 \in Int
      BY <2>2
    <3>2. Cardinality(0 .. k - 1) = IF 0 > k - 1 THEN 0 ELSE (k - 1) - 0 + 1
      BY <3>1, FS_Interval
    <3> QED BY <2>2, <3>2
  <2>4. face[elem][side] = Null
    <3>1. ~Done(elem, side)
      BY <1>1, <2>1, NextSideDone
    <3> QED BY <1>1, <1>6, <3>1 DEF FacesMade, Uncreated
  <2>5. NewFace(n) = SideFace(elem, side, IF n = Null THEN 0 ELSE Null)
    <3>1. face_vertices(elem, side) = <<CornersOf(elem)[side], CornersOf(elem)[(side + 1) % 4]>>
      BY <1>1, <2>4 DEF face_vertices, AllNodes
    <3> QED BY <3>1 DEF NewFace, SideFace
  <2>6. /\ DOMAIN faces' = 0 .. k
        /\ \A i \in DOMAIN faces : faces'[i] = faces[i]
        /\ faces'[k] = SideFace(elem, side, IF n = Null THEN 0 ELSE Null)
    <3>1. faces' = [i \in 0 .. k |-> IF i = k THEN NewFace(n) ELSE faces[i]]
      BY <2>1, <2>3 DEF AddFace
    <3> HIDE DEF n, K
    <3> QED BY <2>2, <2>5, <3>1
  <2>7. face' \in [Elements -> [Sides -> Ids(DOMAIN faces')]]
    <3>1. face \in [Elements -> [Sides -> Ids(DOMAIN faces')]] /\ K \in Ids(DOMAIN faces')
      BY <1>1, <2>2, <2>3, <2>6 DEF FaceTypes, Ids
    <3> HIDE DEF K, n
    <3> QED BY <1>1, <1>4, <2>1, <3>1 DEF set_face
  <2>8. \A e \in Elements, s \in Sides :
            face'[e][s] = IF \/ e = elem /\ s = side
                             \/ n # Null /\ e = n /\ s = Opposite(side)
                          THEN k ELSE face[e][s]
    <3>1. face \in [Elements -> [Sides -> Ids(DOMAIN faces)]]
      BY <1>1 DEF FaceTypes
    <3>2. CASE n = Null
      <4>1. face' = [face EXCEPT ![elem][side] = k]
        BY <2>1, <2>3, <3>2 DEF set_face
      <4> HIDE DEF n, K
      <4> QED BY <1>1, <3>1, <3>2, <4>1
    <3>3. CASE n # Null
      <4>1. face' = [[face EXCEPT ![elem][side] = k] EXCEPT ![n][Opposite(side)] = k]
        BY <2>1, <2>3, <3>3 DEF set_face
      <4>2. [face EXCEPT ![elem][side] = k] \in [Elements -> [Sides -> Ids(DOMAIN faces) \union {k}]]
        BY <1>1, <3>1
      <4> HIDE DEF n, K
      <4> QED BY <1>1, <1>4, <3>1, <3>3, <4>1, <4>2
    <3> QED BY <3>2, <3>3
  <2>9. FaceMade'
    BY <1>1, <1>6, <2>1, <2>2, <2>6, <2>7, <2>8, CreateKeeps
  <2> QED BY <1>1, <2>1, <2>9, FromFaces
<1> QED BY <1>5, <1>6

\* A side of the rectangle is told by the middle of its faces.
LEMMA BorderNumber ==
    ASSUME Sizes, NEW e \in Elements, NEW s \in Sides, Across(e, s) = Null, NEW k,
           faces[k].nodes = <<CornersOf(e)[s], CornersOf(e)[(s + 1) % 4]>>, faces[k].boundary = 0
    PROVE  Number(k) = NumberOf(s) /\ NumberOf(s) \in Sides
<1> DEFINE t == (s + 1) % 4
           x == CornerX(e, s) + CornerX(e, t)
           y == CornerY(e, s) + CornerY(e, t)
<1>1. t \in Sides /\ t = (IF s = 3 THEN 0 ELSE s + 1) /\ s \in {0, 1, 2, 3}
  BY SideEnds DEF Sides
<1>2. Border(e, s)
  <2>1. Null \notin Elements
    BY SizesAssumption DEF Elements, Sizes
  <2> QED BY <2>1, AcrossPlace
<1>3. /\ Column(e) \in 0 .. nx - 1 /\ Level(e) \in 0 .. ny - 1
      /\ nx \in Nat \ {0} /\ ny \in Nat \ {0}
  BY CellPlace DEF Sizes
<1>4. \A r \in Sides : X(CornersOf(e)[r]) = CornerX(e, r) /\ Y(CornersOf(e)[r]) = CornerY(e, r)
  BY CornerPlace, NodePlace
<1>5. Number(k) = SideAt(x, y, 0)
  <2>1. Number(k) = SideAt(X(CornersOf(e)[s]) + X(CornersOf(e)[t]),
                           Y(CornersOf(e)[s]) + Y(CornersOf(e)[t]), 0)
    BY DEF Number
  <2> HIDE DEF t
  <2> QED BY <1>1, <1>4, <2>1
<1>6. /\ x = 2 * Column(e) + (IF s = 1 THEN 2 ELSE IF s = 3 THEN 0 ELSE 1)
      /\ y = 2 * Level(e) + (IF s = 2 THEN 2 ELSE IF s = 0 THEN 0 ELSE 1)
  <2> HIDE DEF t
  <2> QED BY <1>1, <1>3 DEF CornerX, CornerY
<1> HIDE DEF t, x, y
<1>7. SideAt(x, y, 0) = NumberOf(s)
  <2>1. CASE s = 0
    BY <1>2, <1>3, <1>6, <2>1 DEF Border, SideAt, NumberOf
  <2>2. CASE s = 1
    BY <1>2, <1>3, <1>6, <2>2 DEF Border, SideAt, NumberOf
  <2>3. CASE s = 2
    BY <1>2, <1>3, <1>6, <2>3 DEF Border, SideAt, NumberOf
  <2>4. CASE s = 3
    BY <1>2, <1>3, <1>6, <2>4 DEF Border, SideAt, NumberOf
  <2> QED BY <1>1, <2>1, <2>2, <2>3, <2>4
<1> QED BY <1>1, <1>5, <1>7 DEF NumberOf, Sides

LEMMA NumberFaceKeeps == ASSUME MeshInv, NumberFace PROVE MeshInv'
<1>1. /\ SizesInv /\ Sizes /\ elem \in DOMAIN faces /\ side = 0 /\ reserved \in Nat
      /\ AllNodes /\ AllConnected /\ neighbor = [e \in Elements |-> NeighborsOf(e)]
      /\ Counted /\ FaceTypes /\ FacesMade /\ OneEach /\ EachFrom
      /\ reserved = Cardinality(Creators)
      /\ pc = "numbers"
      /\ UNCHANGED <<nx, ny, meets, side, node, connections, neighbor, face, reserved>>
      /\ faces' = IF faces[elem].boundary = Null THEN faces
                  ELSE [faces EXCEPT ![elem].boundary = Number(elem)]
      /\ IF elem + 1 \in DOMAIN faces THEN elem' = elem + 1 /\ pc' = pc
                                      ELSE elem' = 0 /\ pc' = "built"
  BY SizesGiven DEF MeshInv, GridInv, PlaceInv, NodesInv, NeighborInv, FacesInv, NumberFace
<1>2. /\ Elements' = Elements /\ Nodes' = Nodes
      /\ \A e : CornersOf(e)' = CornersOf(e) /\ NeighborsOf(e)' = NeighborsOf(e)
      /\ \A e, s : Across(e, s)' = Across(e, s)
  BY <1>1, SameRectangle
<1>3. PICK m \in Nat : DOMAIN faces = 0 .. m - 1
  BY <1>1 DEF Counted
<1>4. DOMAIN faces' = DOMAIN faces
  BY <1>1
<1>5. \A k \in DOMAIN faces : Numbered(k)' <=> Numbered(k) \/ k = elem
  BY <1>1, <1>3 DEF Numbered
<1>6. ~Numbered(elem)
  BY <1>1, <1>3 DEF Numbered
<1>7. /\ \A e, s : Done(e, s) /\ Done(e, s)'
      /\ \A e, s : Creates(e, s)' = Creates(e, s)
      /\ Creators' = Creators
  BY <1>1, <1>2 DEF Done, Creates, Creators, Sides
<1>8. SizesInv' /\ PlaceInv' /\ NodesInv' /\ NeighborInv' /\ EmptyInv'
  <2>1. SizesInv' /\ PlaceInv' /\ EmptyInv'
    BY <1>1, <1>4 DEF SizesInv, PlaceInv, EmptyInv, Sides
  <2>2. NodesInv'
    BY <1>1, <1>2 DEF NodesInv, AllNodes, AllConnected
  <2>3. NeighborInv'
    BY <1>1, <1>2 DEF NeighborInv
  <2> QED BY <2>1, <2>2, <2>3
<1>9. FacesMade'
  <2>1. ASSUME NEW e \in Elements, NEW s \in Sides, Creates(e, s) PROVE Created(e, s)'
    <3>1. Created(e, s)
      BY <1>1, <1>7, <2>1 DEF FacesMade
    <3> DEFINE k == face[e][s]
    <3>2. k \in DOMAIN faces /\ faces[k] = SideFace(e, s, BoundaryOf(e, s, k))
      BY <3>1 DEF Created
    <3>3. faces'[k] = SideFace(e, s, BoundaryOf(e, s, k)')
      <4>1. CASE k # elem
        <5>1. faces'[k] = faces[k]
          BY <1>1, <3>2, <4>1
        <5>2. BoundaryOf(e, s, k)' = BoundaryOf(e, s, k)
          <6>1. Numbered(k)' <=> Numbered(k)
            BY <1>1, <1>5, <3>2, <4>1 DEF Numbered
          <6> QED BY <1>1, <1>2, <6>1 DEF BoundaryOf, NumberOf
        <5> QED BY <3>2, <5>1, <5>2
      <4>2. CASE k = elem /\ Across(e, s) # Null
        <5>1. BoundaryOf(e, s, k) = Null /\ BoundaryOf(e, s, k)' = Null
          BY <1>2, <4>2 DEF BoundaryOf
        <5>2. faces[elem].boundary = Null
          BY <3>2, <4>2, <5>1 DEF SideFace
        <5> QED BY <1>1, <3>2, <5>1, <5>2
      <4>3. CASE k = elem /\ Across(e, s) = Null
        <5>1. BoundaryOf(e, s, k) = 0
          BY <1>6, <4>3 DEF BoundaryOf
        <5>2. BoundaryOf(e, s, k)' = NumberOf(s)
          <6>1. (Numbered(k))'
            BY <1>1, <1>5, <3>2, <4>3 DEF Numbered
          <6> QED BY <1>1, <1>2, <4>3, <6>1 DEF BoundaryOf, NumberOf
        <5>3. /\ faces[k].boundary = 0 /\ 0 # Null
              /\ faces[k].nodes = <<CornersOf(e)[s], CornersOf(e)[(s + 1) % 4]>>
          BY <3>2, <5>1, SizesAssumption DEF SideFace
        <5>4. Number(elem) = NumberOf(s)
          <6> HIDE DEF k
          <6> QED BY <1>1, <4>3, <5>3, BorderNumber
        <5>5. faces'[k] = [faces[k] EXCEPT !.boundary = NumberOf(s)]
          BY <1>1, <3>2, <4>3, <5>3, <5>4
        <5> QED BY <3>2, <5>2, <5>5 DEF SideFace
      <4> QED BY <4>1, <4>2, <4>3
    <3>4. faces'[k] = SideFace(e, s, BoundaryOf(e, s, face[e][s]))'
      BY <1>2, <3>3 DEF SideFace
    <3> QED BY <1>1, <1>2, <1>4, <3>1, <3>4 DEF Created, Opposite
  <2>2. \A e \in Elements', s \in Sides : Creates(e, s)' => Created(e, s)'
    BY <1>2, <1>7, <2>1
  <2> QED BY <1>7, <2>2 DEF FacesMade, Sides
<1>10. Counted' /\ FaceTypes' /\ OneEach' /\ EachFrom'
  <2>1. Counted' /\ FaceTypes'
    BY <1>1, <1>2, <1>4 DEF Counted, FaceTypes, Ids, Sides
  <2>2. OneEach'
    BY <1>1, <1>2, <1>7 DEF OneEach, Sides
  <2>3. EachFrom'
    BY <1>1, <1>2, <1>4, <1>7 DEF EachFrom, Sides
  <2> QED BY <2>1, <2>2, <2>3
<1>11. FacesInv'
  BY <1>1, <1>7, <1>9, <1>10 DEF FacesInv
<1> QED BY <1>1, <1>8, <1>11 DEF MeshInv, GridInv

LEMMA BuildKeeps == ASSUME MeshInv, Build PROVE MeshInv'
  BY BeforeFaces, CountFacesKeeps, VisitSideKeeps, NumberFaceKeeps DEF Build

LEMMA MeshStays == ASSUME MeshInv, UNCHANGED mesh PROVE MeshInv'
<1>1. UNCHANGED <<nx, ny, meets, pc, elem, side, node, connections, neighbor, face, faces, reserved>>
  BY DEF mesh
<1>2. /\ Elements' = Elements /\ Nodes' = Nodes
      /\ \A e : CornersOf(e)' = CornersOf(e) /\ NeighborsOf(e)' = NeighborsOf(e)
      /\ \A e, s : Across(e, s)' = Across(e, s)
  BY <1>1, SameRectangle
<1>3. GridInv'
  <2>1. SizesInv' /\ PlaceInv' /\ EmptyInv' /\ NeighborInv'
    BY <1>1, <1>2 DEF MeshInv, GridInv, SizesInv, PlaceInv, EmptyInv, Sides, NeighborInv, NoNeighbors
  <2>2. NodesInv'
    BY <1>1, <1>2 DEF MeshInv, GridInv, NodesInv, AllNodes, AllConnected, Sides
  <2> QED BY <2>1, <2>2 DEF GridInv
<1>4. /\ \A e, s : Creates(e, s)' = Creates(e, s)
      /\ \A e, s : Done(e, s)' = Done(e, s)
      /\ Creators' = Creators
  BY <1>1, <1>2 DEF Creates, Creators, Done, Visited, Sides
<1>5. /\ \A e, s : Uncreated(e, s)' = Uncreated(e, s)
      /\ \A e, s : Created(e, s)' = Created(e, s)
  <2>1. \A e, s : Uncreated(e, s)' = Uncreated(e, s)
    BY <1>1, <1>2 DEF Uncreated, Opposite
  <2>2. \A e, s, k : BoundaryOf(e, s, k)' = BoundaryOf(e, s, k)
    BY <1>1, <1>2 DEF BoundaryOf, Numbered, NumberOf
  <2>3. ASSUME NEW e, NEW s PROVE Created(e, s)' = Created(e, s)
    <3>1. SideFace(e, s, BoundaryOf(e, s, face[e][s]))' = SideFace(e, s, BoundaryOf(e, s, face[e][s]))
      BY <1>1, <1>2 DEF SideFace, BoundaryOf, Numbered, NumberOf
    <3> QED BY <1>1, <1>2, <3>1 DEF Created, Opposite
  <2> QED BY <2>1, <2>3
<1>6. FacesInv'
  <2>1. ASSUME pc \in {"faces", "numbers", "built"}
        PROVE  Counted' /\ FaceTypes' /\ FacesMade' /\ OneEach' /\ EachFrom'
    <3>1. Counted /\ FaceTypes /\ FacesMade /\ OneEach /\ EachFrom
      BY <2>1 DEF MeshInv, FacesInv
    <3>2. Counted' /\ FaceTypes' /\ OneEach' /\ EachFrom'
      BY <1>1, <1>2, <1>4, <3>1 DEF Counted, FaceTypes, Ids, Sides, OneEach, EachFrom
    <3>3. FacesMade'
      BY <1>2, <1>4, <1>5, <3>1 DEF FacesMade, Sides
    <3> QED BY <3>2, <3>3
  <2> QED BY <1>1, <1>4, <2>1 DEF MeshInv, FacesInv
<1> QED BY <1>1, <1>3, <1>6 DEF MeshInv

\* The client and the tasks of FVAssembly leave the mesh alone.
LEMMA OthersLeaveMesh == ASSUME FVNext, ~BuildMesh PROVE UNCHANGED mesh
  BY DEF FVNext, Partition, DistributeDofs, Assemble, Return, SetBoundaryFunction, Task, Begin,
         AssembleElement, Ends

LEMMA MeshNext == ASSUME MeshInv, [FVNext]_vars PROVE MeshInv'
<1>1. CASE BuildMesh
  BY <1>1, BuildKeeps DEF BuildMesh
<1>2. CASE FVNext /\ ~BuildMesh
  BY <1>2, OthersLeaveMesh, MeshStays
<1>3. CASE UNCHANGED vars
  <2>1. UNCHANGED mesh
    BY <1>3 DEF vars
  <2> QED BY <2>1, MeshStays
<1> QED BY <1>1, <1>2, <1>3

LEMMA MeshAlways == FVSpec => []MeshInv
<1>1. FVInit => MeshInv
  BY InitMesh DEF FVInit
<1> QED BY <1>1, MeshNext, PTL DEF FVSpec

-----------------------------------------------------------------------------
(* What the construction leaves: the properties of QuadMesh.                *)

\* A side has the face of the element that creates it, which is this one or the
\* one across.
LEMMA FaceOfSide ==
    ASSUME MeshInv, pc \in {"faces", "numbers", "built"}, NEW e \in Elements, NEW s \in Sides
    PROVE  \E d \in Elements, r \in Sides :
              /\ \/ d = e /\ r = s
                 \/ d = Across(e, s) /\ r = Opposite(s) /\ d < e /\ Across(d, r) = e /\ Opposite(r) = s
              /\ Creates(d, r)
              /\ IF Done(d, r) THEN Created(d, r) /\ face[e][s] = face[d][r] /\ face[e][s] # Null
                 ELSE face[e][s] = Null
<1>1. Sizes /\ Counted /\ FacesMade
  BY SizesGiven DEF MeshInv, GridInv, FacesInv
<1>2. \A k \in DOMAIN faces : k # Null
  BY <1>1, SizesAssumption DEF Counted
<1>3. CASE Creates(e, s)
  BY <1>1, <1>2, <1>3 DEF FacesMade, Created, Uncreated
<1>4. CASE ~Creates(e, s)
  <2>1. Across(e, s) # Null
    BY <1>4 DEF Creates
  <2> DEFINE d == Across(e, s)   r == Opposite(s)
  <2>2. /\ d \in Elements /\ r \in Sides /\ Across(d, r) = e /\ e # Null /\ Opposite(r) = s
        /\ Creates(d, r) /\ d < e
    BY <1>1, <1>4, <2>1, Partner
  <2>3. IF Done(d, r) THEN Created(d, r) ELSE Uncreated(d, r)
    BY <1>1, <2>2 DEF FacesMade
  <2> HIDE DEF d, r
  <2>4. IF Done(d, r) THEN Created(d, r) /\ face[e][s] = face[d][r] /\ face[e][s] # Null
        ELSE face[e][s] = Null
    BY <1>2, <2>2, <2>3 DEF Created, Uncreated
  <2> QED BY <2>2, <2>4 DEF d, r
<1> QED BY <1>3, <1>4

LEMMA MeshTypes == MeshInv => TypeOK
<1> SUFFICES ASSUME MeshInv PROVE TypeOK
  OBVIOUS
<1>1. Sizes /\ GridInv /\ SizesInv /\ PlaceInv /\ NodesInv /\ NeighborInv /\ EmptyInv /\ FacesInv
      /\ reserved \in Nat
  BY SizesGiven DEF MeshInv, GridInv
<1>2. \A e \in Elements : CornersOf(e) \in [Sides -> Nodes] /\ NeighborsOf(e) \in [Sides -> Ids(Elements)]
  <2> TAKE e \in Elements
  <2>1. \A s \in Sides : CornersOf(e)[s] \in Nodes
    BY <1>1, CornerPlace, NodePlace
  <2>2. \A s \in Sides : Across(e, s) \in Ids(Elements)
    BY <1>1, AcrossPlace DEF Ids
  <2> QED BY <2>1, <2>2 DEF CornersOf, Corners, NeighborsOf
<1>3. node \in [Elements -> [Sides -> Ids(Nodes)]] /\ connections \in [Nodes -> SUBSET Elements]
  <2>1. CASE pc = "elements"
    BY <1>1, <1>2, <2>1 DEF NodesInv, Ids
  <2>2. CASE pc # "elements"
    BY <1>1, <1>2, <2>2 DEF NodesInv, AllNodes, AllConnected, Ids
  <2> QED BY <2>1, <2>2
<1>4. neighbor \in [Elements -> [Sides -> Ids(Elements)]]
  BY <1>1, <1>2 DEF NeighborInv, NoNeighbors, Ids
<1>5. face \in [Elements -> [Sides -> Ids(DOMAIN faces)]]
  <2>1. CASE pc \in {"elements", "neighbors", "count"}
    BY <1>1, <2>1 DEF EmptyInv, Ids
  <2>2. CASE pc \in {"faces", "numbers", "built"}
    BY <1>1, <2>2 DEF FacesInv, FaceTypes
  <2> QED BY <1>1, <2>1, <2>2 DEF PlaceInv
<1>6. elem \in Nat
  <2>1. CASE pc = "numbers"
    BY <1>1, <2>1 DEF PlaceInv, FacesInv, Counted
  <2>2. CASE pc # "numbers"
    BY <1>1, <2>2, SizesGiven DEF PlaceInv
  <2> QED BY <2>1, <2>2
<1> QED BY <1>1, <1>3, <1>4, <1>5, <1>6 DEF TypeOK, PlaceInv

LEMMA MeshNeighbors == MeshInv => NeighborsAcross
<1> SUFFICES ASSUME MeshInv, pc \in {"count", "faces", "numbers", "built"}, NEW e \in Elements, NEW s \in Sides
    PROVE  /\ neighbor[e][s] = Across(e, s)
           /\ neighbor[e][s] # Null => neighbor[neighbor[e][s]][Opposite(s)] = e
  BY DEF NeighborsAcross
<1>1. Sizes /\ neighbor = [d \in Elements |-> NeighborsOf(d)]
  BY SizesGiven DEF MeshInv, GridInv, NeighborInv
<1>2. Across(e, s) # Null =>
        /\ Across(e, s) \in Elements /\ Opposite(s) \in Sides
        /\ Across(Across(e, s), Opposite(s)) = e
  BY <1>1, Partner
<1> QED BY <1>1, <1>2 DEF NeighborsOf

LEMMA MeshFacesSoFar == MeshInv => FacesSoFar
<1> SUFFICES ASSUME MeshInv, pc = "faces", NEW e \in Elements, NEW s \in Sides
    PROVE  (face[e][s] # Null) <=> \/ Visited(e, s)
                                   \/ LET n == Across(e, s)
                                      IN n # Null /\ n < e /\ Visited(n, Opposite(s))
  BY DEF FacesSoFar
<1>1. Sizes /\ elem \in Elements /\ \A d \in Elements : d \in Nat /\ d # Null
  <2>1. SizesInv /\ elem \in Elements
    BY DEF MeshInv, GridInv, PlaceInv
  <2> QED BY <2>1, SizesGiven, SizesAssumption
<1>2. \A d, r : Done(d, r) <=> Visited(d, r)
  BY DEF Done
<1>3. PICK d \in Elements, r \in Sides :
        /\ \/ d = e /\ r = s
           \/ d = Across(e, s) /\ r = Opposite(s) /\ d < e /\ Across(d, r) = e /\ Opposite(r) = s
        /\ Creates(d, r)
        /\ IF Done(d, r) THEN Created(d, r) /\ face[e][s] = face[d][r] /\ face[e][s] # Null
           ELSE face[e][s] = Null
  BY FaceOfSide
<1>4. face[e][s] # Null <=> Visited(d, r)
  BY <1>2, <1>3
<1>5. CASE d = e /\ r = s
  <2>1. Across(e, s) # Null => Across(e, s) \in Elements /\ ~(Across(e, s) < e)
    <3> SUFFICES ASSUME Across(e, s) # Null PROVE Across(e, s) \in Elements /\ ~(Across(e, s) < e)
      OBVIOUS
    <3>1. Across(e, s) \in Elements
      BY <1>1, Partner
    <3>2. e < Across(e, s)
      BY <1>3, <1>5 DEF Creates
    <3> QED BY <1>1, <3>1, <3>2
  <2> QED BY <1>4, <1>5, <2>1
<1>6. CASE d = Across(e, s) /\ r = Opposite(s) /\ d < e
  <2>1. Visited(e, s) => Visited(d, r)
    BY <1>1, <1>6 DEF Visited
  <2> QED BY <1>1, <1>4, <1>6, <2>1
<1> QED BY <1>3, <1>5, <1>6

LEMMA MeshIsRight == MeshInv => Inv
<1>1. MeshInv => pc # "failed"
  BY DEF MeshInv, GridInv, PlaceInv
<1> QED BY <1>1, MeshTypes, MeshNeighbors, MeshFacesSoFar DEF Inv

\* The two ends of a side are those of the side across, the other way round.
LEMMA SameEnds ==
    ASSUME Sizes, NEW e \in Elements, NEW s \in Sides, Across(e, s) # Null
    PROVE  LET d == Across(e, s)  r == Opposite(s)
           IN  /\ CornersOf(d)[r] = CornersOf(e)[(s + 1) % 4]
               /\ CornersOf(d)[(r + 1) % 4] = CornersOf(e)[s]
<1> DEFINE d == Across(e, s)  r == Opposite(s)  t == (s + 1) % 4  u == (r + 1) % 4
<1>1. d \in Elements /\ r \in Sides /\ Beside(d, e, s)
  BY AcrossPlace, OppositeSides
<1>2. /\ t \in Sides /\ t = (IF s = 3 THEN 0 ELSE s + 1) /\ s \in {0, 1, 2, 3}
      /\ u \in Sides /\ u = (IF r = 3 THEN 0 ELSE r + 1)
  BY <1>1, SideEnds DEF Sides
<1>3. r = IF s = 0 THEN 2 ELSE IF s = 1 THEN 3 ELSE IF s = 2 THEN 0 ELSE 1
  BY <1>2, OppositeSides
<1> HIDE DEF d, r, t, u
<1>4. /\ Column(e) \in Int /\ Level(e) \in Int
      /\ Column(d) = Column(e) + (IF s = 1 THEN 1 ELSE IF s = 3 THEN -1 ELSE 0)
      /\ Level(d) = Level(e) + (IF s = 2 THEN 1 ELSE IF s = 0 THEN -1 ELSE 0)
  BY <1>1, CellPlace DEF Beside, Sizes
<1>5. /\ CornerX(d, r) = CornerX(e, t) /\ CornerY(d, r) = CornerY(e, t)
      /\ CornerX(d, u) = CornerX(e, s) /\ CornerY(d, u) = CornerY(e, s)
  <2>1. CASE s = 0
    BY <1>2, <1>3, <1>4, <2>1 DEF CornerX, CornerY
  <2>2. CASE s = 1
    BY <1>2, <1>3, <1>4, <2>2 DEF CornerX, CornerY
  <2>3. CASE s = 2
    BY <1>2, <1>3, <1>4, <2>3 DEF CornerX, CornerY
  <2>4. CASE s = 3
    BY <1>2, <1>3, <1>4, <2>4 DEF CornerX, CornerY
  <2> QED BY <1>2, <2>1, <2>2, <2>3, <2>4
<1>6. CornersOf(d)[r] = CornersOf(e)[t] /\ CornersOf(d)[u] = CornersOf(e)[s]
  BY <1>1, <1>2, <1>5, CornerPlace
<1> QED BY <1>6 DEF d, r, t, u

\* Every place that was reserved is taken: the faces are as many as their creators.
LEMMA PlacesTaken == ASSUME MeshInv, pc \in {"numbers", "built"}
                     PROVE  DOMAIN faces = 0 .. reserved - 1
<1>1. /\ Sizes /\ Counted /\ FacesMade /\ OneEach /\ EachFrom /\ reserved = Cardinality(Creators)
      /\ \A e, s : Done(e, s)
  BY SizesGiven DEF MeshInv, GridInv, FacesInv, Done
<1>2. PICK m \in Nat : DOMAIN faces = 0 .. m - 1
  BY <1>1 DEF Counted
<1>3. IsFiniteSet(Creators)
  BY <1>1, PairsFinite, FS_Subset DEF Creators
<1> DEFINE g == [t \in Creators |-> face[t[1]][t[2]]]
<1>4. g \in Bijection(Creators, DOMAIN faces)
  <2>1. g \in [Creators -> DOMAIN faces]
    BY <1>1 DEF Creators, FacesMade, Created
  <2>2. \A t, u \in Creators : g[t] = g[u] => t = u
    <3> SUFFICES ASSUME NEW t \in Creators, NEW u \in Creators, g[t] = g[u] PROVE t = u
      OBVIOUS
    <3>1. t[1] = u[1] /\ t[2] = u[2]
      BY <1>1 DEF Creators, OneEach
    <3>2. t = <<t[1], t[2]>> /\ u = <<u[1], u[2]>>
      BY DEF Creators
    <3> QED BY <3>1, <3>2
  <2>3. \A k \in DOMAIN faces : \E t \in Creators : g[t] = k
    <3> SUFFICES ASSUME NEW k \in DOMAIN faces PROVE \E t \in Creators : g[t] = k
      OBVIOUS
    <3>1. PICK e \in Elements, s \in Sides : Creates(e, s) /\ face[e][s] = k
      BY <1>1 DEF EachFrom
    <3>2. <<e, s>> \in Creators /\ g[<<e, s>>] = k
      BY <3>1 DEF Creators
    <3> QED BY <3>2
  <2> HIDE DEF g
  <2> QED BY <2>1, <2>2, <2>3 DEF Bijection, Injection, IsInjective, Surjection
<1>5. Cardinality(DOMAIN faces) = Cardinality(Creators)
  BY <1>3, <1>4, FS_Bijection DEF ExistsBijection
<1>6. Cardinality(DOMAIN faces) = m
  <2>1. m - 1 \in Int /\ 0 \in Int
    BY <1>2
  <2>2. Cardinality(0 .. m - 1) = IF 0 > m - 1 THEN 0 ELSE (m - 1) - 0 + 1
    BY <2>1, FS_Interval
  <2> QED BY <1>2, <2>2
<1> QED BY <1>1, <1>2, <1>5, <1>6

\* The sides at which a face is used.
LEMMA UsesOfFace ==
    ASSUME MeshInv, pc \in {"numbers", "built"}, NEW e \in Elements, NEW s \in Sides, Creates(e, s)
    PROVE  {t \in Elements \X Sides : face[t[1]][t[2]] = face[e][s]}
             = {<<e, s>>} \union (IF Across(e, s) = Null THEN {} ELSE {<<Across(e, s), Opposite(s)>>})
<1> DEFINE k == face[e][s]
           uses == {t \in Elements \X Sides : face[t[1]][t[2]] = k}
<1>1. /\ Sizes /\ FacesMade /\ OneEach /\ \A d, r : Done(d, r)
      /\ \A d \in Elements : d # Null
  <2>1. SizesInv /\ Sizes
    BY SizesGiven DEF MeshInv, GridInv
  <2>2. \A d \in Elements : d # Null
    BY <2>1, SizesGiven, SizesAssumption
  <2> QED BY <2>1, <2>2 DEF MeshInv, FacesInv, Done
<1>2. ASSUME Across(e, s) # Null
      PROVE  <<Across(e, s), Opposite(s)>> \in uses
  <2>1. Across(e, s) \in Elements /\ Opposite(s) \in Sides
    BY <1>1, <1>2, Partner
  <2>2. face[Across(e, s)][Opposite(s)] = k
    BY <1>1, <1>2 DEF FacesMade, Created
  <2> QED BY <2>1, <2>2
<1>3. <<e, s>> \in uses
  OBVIOUS
<1>4. ASSUME NEW d \in Elements, NEW r \in Sides, face[d][r] = k
      PROVE  \/ d = e /\ r = s
             \/ Across(e, s) # Null /\ d = Across(e, s) /\ r = Opposite(s)
  <2>1. PICK c \in Elements, q \in Sides :
          /\ \/ c = d /\ q = r
             \/ c = Across(d, r) /\ q = Opposite(r) /\ c < d /\ Across(c, q) = d /\ Opposite(q) = r
          /\ Creates(c, q)
          /\ IF Done(c, q) THEN Created(c, q) /\ face[d][r] = face[c][q] /\ face[d][r] # Null
             ELSE face[d][r] = Null
    BY FaceOfSide
  <2>2. face[c][q] = face[e][s]
    BY <1>1, <1>4, <2>1
  <2>3. c = e /\ q = s
    BY <1>1, <2>1, <2>2 DEF OneEach
  <2> QED BY <1>1, <2>1, <2>3
<1>5. uses = {<<e, s>>} \union (IF Across(e, s) = Null THEN {} ELSE {<<Across(e, s), Opposite(s)>>})
  <2>1. \A t \in uses : t \in {<<e, s>>} \union (IF Across(e, s) = Null THEN {} ELSE {<<Across(e, s), Opposite(s)>>})
    <3> TAKE t \in uses
    <3>1. t[1] \in Elements /\ t[2] \in Sides /\ face[t[1]][t[2]] = k /\ t = <<t[1], t[2]>>
      OBVIOUS
    <3> QED BY <1>4, <3>1
  <2> QED BY <1>2, <1>3, <2>1
<1> QED BY <1>5

LEMMA MeshFacesShared == MeshInv => FacesAreShared
<1> SUFFICES ASSUME MeshInv, pc \in {"numbers", "built"} PROVE FacesAreShared
  BY DEF FacesAreShared
<1>1. /\ Sizes /\ AllNodes /\ FacesMade /\ OneEach /\ EachFrom /\ \A d, r : Done(d, r)
      /\ \A d \in Elements : d # Null
  <2>1. SizesInv /\ Sizes
    BY SizesGiven DEF MeshInv, GridInv
  <2>2. \A d \in Elements : d # Null
    BY <2>1, SizesGiven, SizesAssumption
  <2> QED BY <2>1, <2>2 DEF MeshInv, GridInv, NodesInv, FacesInv, Done
<1>2. ASSUME NEW e \in Elements, NEW s \in Sides PROVE face[e][s] # Null
  BY <1>1, FaceOfSide
<1>3. ASSUME NEW k \in DOMAIN faces
      PROVE  LET f == faces[k]
                 uses == {t \in Elements \X Sides : face[t[1]][t[2]] = k}
             IN /\ {t[1] : t \in uses} = {f.owner, f.neighbor} \ {Null}
                /\ \A t \in uses : {node[t[1]][t[2]], node[t[1]][(t[2] + 1) % 4]} =
                                       {f.nodes[1], f.nodes[2]}
                /\ (f.neighbor = Null) <=> (f.boundary # Null)
  <2>1. PICK e \in Elements, s \in Sides : Creates(e, s) /\ face[e][s] = k
    BY <1>1 DEF EachFrom
  <2> DEFINE f == faces[k]
             uses == {t \in Elements \X Sides : face[t[1]][t[2]] = k}
  <2>2. f = SideFace(e, s, BoundaryOf(e, s, k))
    BY <1>1, <2>1 DEF FacesMade, Created
  <2>3. uses = {<<e, s>>} \union (IF Across(e, s) = Null THEN {} ELSE {<<Across(e, s), Opposite(s)>>})
    BY <2>1, UsesOfFace
  <2>4. /\ f.owner = e /\ f.neighbor = Across(e, s) /\ f.boundary = BoundaryOf(e, s, k)
        /\ f.nodes[1] = CornersOf(e)[s] /\ f.nodes[2] = CornersOf(e)[(s + 1) % 4]
    BY <2>2 DEF SideFace
  <2> HIDE DEF f, uses
  <2>5. {t[1] : t \in uses} = {f.owner, f.neighbor} \ {Null}
    <3>1. CASE Across(e, s) = Null
      BY <1>1, <2>3, <2>4, <3>1
    <3>2. CASE Across(e, s) # Null
      BY <1>1, <2>3, <2>4, <3>2
    <3> QED BY <3>1, <3>2
  <2>6. {node[e][s], node[e][(s + 1) % 4]} = {f.nodes[1], f.nodes[2]}
    BY <1>1, <2>4 DEF AllNodes
  <2>7. ASSUME Across(e, s) # Null
        PROVE  {node[Across(e, s)][Opposite(s)], node[Across(e, s)][(Opposite(s) + 1) % 4]} =
                   {f.nodes[1], f.nodes[2]}
    <3>1. Across(e, s) \in Elements
      BY <1>1, <2>7, Partner
    <3>2. /\ CornersOf(Across(e, s))[Opposite(s)] = CornersOf(e)[(s + 1) % 4]
          /\ CornersOf(Across(e, s))[(Opposite(s) + 1) % 4] = CornersOf(e)[s]
      BY <1>1, <2>7, SameEnds
    <3>3. node[Across(e, s)] = CornersOf(Across(e, s))
      BY <1>1, <3>1 DEF AllNodes
    <3> QED BY <2>4, <3>2, <3>3
  <2>8. \A t \in uses : {node[t[1]][t[2]], node[t[1]][(t[2] + 1) % 4]} = {f.nodes[1], f.nodes[2]}
    <3> TAKE t \in uses
    <3>1. CASE t = <<e, s>>
      BY <2>6, <3>1
    <3>2. CASE Across(e, s) # Null /\ t = <<Across(e, s), Opposite(s)>>
      BY <2>7, <3>2
    <3> QED BY <2>3, <3>1, <3>2
  <2>9. (f.neighbor = Null) <=> (f.boundary # Null)
    <3>1. NumberOf(s) \in Sides /\ 0 \in Sides /\ Null \notin Sides
      BY SizesAssumption DEF NumberOf, Sides
    <3> QED BY <2>4, <3>1 DEF BoundaryOf
  <2> QED BY <2>5, <2>8, <2>9 DEF f, uses
<1> QED BY <1>2, <1>3, PlacesTaken DEF FacesAreShared

LEMMA MeshNumbers == MeshInv => NumbersTellSides
<1> SUFFICES ASSUME MeshInv, pc = "built", NEW e \in Elements, NEW s \in Sides, Across(e, s) = Null
    PROVE  faces[face[e][s]].boundary = NumberOf(s)
  BY DEF NumbersTellSides, NumberOf
<1>1. FacesMade /\ Done(e, s) /\ Creates(e, s)
  BY DEF MeshInv, FacesInv, Done, Creates
<1>2. faces[face[e][s]] = SideFace(e, s, BoundaryOf(e, s, face[e][s]))
  BY <1>1 DEF FacesMade, Created
<1> QED BY <1>2 DEF SideFace, BoundaryOf, Numbered

\* build_quad_mesh gives every side of every element one face, and every face the
\* elements on its sides, for a mesh of any size.
THEOREM FacesShared == FVSpec => []FacesAreShared
  BY MeshAlways, MeshFacesShared, PTL

\* The boundary numbers that the mesh generator sets tell the sides of the rectangle.
THEOREM NumbersTell == FVSpec => []NumbersTellSides
  BY MeshAlways, MeshNumbers, PTL

-----------------------------------------------------------------------------
(* Sums: a sum of natural numbers over a finite set is the size of a set,  *)
(* with as many elements above each one as its number says.                *)

Tower(g, T) == {p \in T \X Nat : p[2] < g[p[1]]}
Count(g, T) == Cardinality(Tower(g, T))

LEMMA TowerOfOne ==
    ASSUME NEW g, NEW x, g[x] \in Nat
    PROVE  IsFiniteSet(Tower(g, {x})) /\ Count(g, {x}) = g[x]
<1>1. g[x] - 1 \in Int /\ 0 \in Int
  OBVIOUS
<1>2. IsFiniteSet(0 .. g[x] - 1) /\ Cardinality(0 .. g[x] - 1) = g[x]
  <2>1. /\ IsFiniteSet(0 .. g[x] - 1)
        /\ Cardinality(0 .. g[x] - 1) = IF 0 > g[x] - 1 THEN 0 ELSE (g[x] - 1) - 0 + 1
    BY <1>1, FS_Interval
  <2> QED BY <2>1
<1>3. Tower(g, {x}) = {x} \X (0 .. g[x] - 1)
  BY DEF Tower
<1>4. IsFiniteSet({x}) /\ Cardinality({x}) = 1
  BY FS_Singleton
<1>5. IsFiniteSet({x} \X (0 .. g[x] - 1)) /\ Cardinality({x} \X (0 .. g[x] - 1)) = 1 * g[x]
  BY <1>2, <1>4, FS_Product
<1> QED BY <1>3, <1>5 DEF Count

LEMMA TowerFinite ==
    ASSUME NEW S, IsFiniteSet(S), NEW g, \A x \in S : g[x] \in Nat
    PROVE  IsFiniteSet(Tower(g, S)) /\ Count(g, S) \in Nat
<1> DEFINE f == [x \in S |-> Tower(g, {x})]
           T == {f[x] : x \in S}
<1>1. IsFiniteSet(T)
  <2>1. f \in Surjection(S, T)
    BY DEF Surjection
  <2> HIDE DEF f, T
  <2> QED BY <2>1, FS_Surjection
<1>2. \A U \in T : IsFiniteSet(U)
  BY TowerOfOne
<1>3. IsFiniteSet(UNION T)
  <2> HIDE DEF T
  <2> QED BY <1>1, <1>2, FS_UNION
<1>4. UNION T = Tower(g, S)
  BY DEF Tower
<1> QED BY <1>3, <1>4, FS_CardinalityType DEF Count

LEMMA CountOfParts ==
    ASSUME NEW S, IsFiniteSet(S), NEW g, \A x \in S : g[x] \in Nat,
           NEW A, NEW B, A \subseteq S, B \subseteq S, A \cap B = {}
    PROVE  Count(g, A \union B) = Count(g, A) + Count(g, B)
<1>1. IsFiniteSet(A) /\ IsFiniteSet(B)
  BY FS_Subset
<1>2. /\ IsFiniteSet(Tower(g, A)) /\ IsFiniteSet(Tower(g, B))
      /\ Count(g, A) \in Nat /\ Count(g, B) \in Nat
  BY <1>1, TowerFinite
<1>3. Tower(g, A \union B) = Tower(g, A) \union Tower(g, B) /\ Tower(g, A) \cap Tower(g, B) = {}
  BY DEF Tower
<1>4. Cardinality(Tower(g, A) \cup Tower(g, B))
        = Cardinality(Tower(g, A)) + Cardinality(Tower(g, B)) - Cardinality(Tower(g, A) \cap Tower(g, B))
  BY <1>2, FS_Union
<1>5. Cardinality(Tower(g, A) \cap Tower(g, B)) = 0
  BY <1>3, FS_EmptySet
<1>6. Count(g, A \union B) = Cardinality(Tower(g, A) \union Tower(g, B))
  BY <1>3 DEF Count
<1>7. Count(g, A) = Cardinality(Tower(g, A)) /\ Count(g, B) = Cardinality(Tower(g, B))
  BY DEF Count
<1> QED BY <1>2, <1>4, <1>5, <1>6, <1>7

LEMMA CountOfNone == ASSUME NEW g PROVE Count(g, {}) = 0
<1>1. Tower(g, {}) = {}
  BY DEF Tower
<1> QED BY <1>1, FS_EmptySet DEF Count

LEMMA CountStep ==
    ASSUME NEW S, IsFiniteSet(S), NEW g, \A x \in S : g[x] \in Nat, NEW T, T \subseteq S, NEW x \in T
    PROVE  Count(g, T) = g[x] + Count(g, T \ {x})
<1>1. Count(g, {x} \union (T \ {x})) = Count(g, {x}) + Count(g, T \ {x})
  BY CountOfParts
<1>2. {x} \union (T \ {x}) = T /\ Count(g, {x}) = g[x]
  BY TowerOfOne
<1> QED BY <1>1, <1>2

\* The values of the one are those of the other in some order.
LEMMA CountRenamed ==
    ASSUME NEW A, NEW B, IsFiniteSet(A), NEW g, NEW h, NEW f \in [A -> B],
           \A x \in A : h[f[x]] = g[x] /\ g[x] \in Nat,
           \A x, y \in A : f[x] = f[y] => x = y,
           \A z \in B : \E x \in A : f[x] = z
    PROVE  Count(h, B) = Count(g, A)
<1> DEFINE b == [p \in Tower(g, A) |-> <<f[p[1]], p[2]>>]
<1>1. \A p \in Tower(g, A) : /\ p = <<p[1], p[2]>> /\ p[1] \in A /\ p[2] \in Nat
                             /\ p[2] < g[p[1]] /\ f[p[1]] \in B
  BY DEF Tower
<1>2. b \in [Tower(g, A) -> Tower(h, B)]
  BY <1>1 DEF Tower
<1>3. \A p, q \in Tower(g, A) : b[p] = b[q] => p = q
  <2> SUFFICES ASSUME NEW p \in Tower(g, A), NEW q \in Tower(g, A), b[p] = b[q] PROVE p = q
    OBVIOUS
  <2>1. f[p[1]] = f[q[1]] /\ p[2] = q[2]
    OBVIOUS
  <2>2. p[1] = q[1]
    BY <1>1, <2>1
  <2> QED BY <1>1, <2>1, <2>2
<1>4. \A q \in Tower(h, B) : \E p \in Tower(g, A) : b[p] = q
  <2> SUFFICES ASSUME NEW q \in Tower(h, B) PROVE \E p \in Tower(g, A) : b[p] = q
    OBVIOUS
  <2>1. q = <<q[1], q[2]>> /\ q[1] \in B /\ q[2] \in Nat /\ q[2] < h[q[1]]
    BY DEF Tower
  <2>2. PICK x \in A : f[x] = q[1]
    BY <2>1
  <2>3. <<x, q[2]>> \in Tower(g, A)
    BY <2>1, <2>2 DEF Tower
  <2> QED BY <2>1, <2>2, <2>3
<1>5. IsFiniteSet(Tower(g, A))
  BY TowerFinite
<1> HIDE DEF b
<1>6. b \in Bijection(Tower(g, A), Tower(h, B))
  BY <1>2, <1>3, <1>4 DEF Bijection, Injection, IsInjective, Surjection
<1> QED BY <1>5, <1>6, FS_Bijection DEF ExistsBijection, Count

First(T) == CHOOSE x \in T : TRUE

LEMMA FirstIsIn == ASSUME NEW T, T # {} PROVE First(T) \in T
  BY DEF First

\* However the elements are picked one after the other, the sum is the same.
LEMMA SumIsCount ==
    ASSUME NEW S, IsFiniteSet(S), NEW g, \A x \in S : g[x] \in Nat, NEW iter,
           \A T \in SUBSET S :
               iter[T] = IF T = {} THEN 0
                         ELSE g[First(T)] + iter[T \ {First(T)}]
    PROVE  iter[S] = Count(g, S)
<1> DEFINE wrong == {T \in SUBSET S : iter[T] # Count(g, T)}
<1>1. IsWellFoundedOn(StrictSubsetOrdering(S), SUBSET S)
  BY FS_StrictSubsetOrderingWellFounded, FS_FiniteSubsetsOfFinite
<1>2. wrong = {}
  <2> SUFFICES ASSUME wrong # {} PROVE FALSE
    OBVIOUS
  <2>1. PICK T \in wrong : \A U \in wrong : ~(<<U, T>> \in StrictSubsetOrdering(S))
    <3>1. wrong \subseteq SUBSET S
      OBVIOUS
    <3> HIDE DEF wrong
    <3> QED BY <1>1, <3>1, WFMin
  <2>2. T # {}
    BY <2>1, CountOfNone
  <2> DEFINE x == First(T)
  <2>3. x \in T
    BY <2>2 DEF First
  <2> HIDE DEF x
  <2>4. iter[T] = g[x] + iter[T \ {x}]
    BY <2>1, <2>2 DEF x
  <2>5. iter[T \ {x}] = Count(g, T \ {x})
    <3> DEFINE U == T \ {x}
    <3>1. U \in SUBSET S /\ T \in SUBSET S /\ U \subseteq T /\ U # T
      BY <2>1, <2>3
    <3> HIDE DEF U
    <3>2. <<U, T>> \in StrictSubsetOrdering(S)
      BY <3>1 DEF StrictSubsetOrdering
    <3>3. U \notin wrong
      BY <2>1, <3>2
    <3> QED BY <3>1, <3>3 DEF U
  <2>6. Count(g, T) = g[x] + Count(g, T \ {x})
    BY <2>1, <2>3, CountStep
  <2> QED BY <2>1, <2>4, <2>5, <2>6
<1> QED BY <1>2

LEMMA CountPicks ==
    ASSUME NEW S, IsFiniteSet(S), NEW g, \A x \in S : g[x] \in Nat
    PROVE  \A T \in SUBSET S :
               Count(g, T) = IF T = {} THEN 0
                             ELSE g[First(T)] + Count(g, T \ {First(T)})
<1>1. ASSUME NEW T \in SUBSET S, T # {}, NEW x, x = First(T)
      PROVE  Count(g, T) = g[x] + Count(g, T \ {x})
  <2>1. x \in T
    BY <1>1 DEF First
  <2> QED BY <2>1, CountStep
<1>2. Count(g, {}) = 0
  BY CountOfNone
<1> QED BY <1>1, <1>2

LEMMA TotalIsCount ==
    ASSUME NEW K, IsFiniteSet(K), K \subseteq Nat
    PROVE  Total(K) = Count([k \in K |-> Flux(k)], K)
<1> DEFINE good(i) == i = [T \in SUBSET K |-> IF T = {} THEN 0
                             ELSE Flux(First(T)) + i[T \ {First(T)}]]
           iter == CHOOSE i : good(i)
<1>1. Total(K) = iter[K]
  BY DEF Total, MapThenSumSet, MapThenFoldSet, First
<1>2. PICK g : g = [k \in K |-> Flux(k)]
  OBVIOUS
<1>3. \A k \in K : g[k] \in Nat
  BY <1>2 DEF Flux
<1>4. \A T \in SUBSET K : T # {} => g[First(T)] = Flux(First(T))
  <2>1. \A T \in SUBSET K : T # {} => First(T) \in K
    BY FirstIsIn
  <2> QED BY <1>2, <2>1
<1>5. \E i : good(i)
  <2>1. \A T \in SUBSET K :
            Count(g, T) = IF T = {} THEN 0
                          ELSE g[First(T)] + Count(g, T \ {First(T)})
    BY <1>3, CountPicks
  <2>2. \A T \in SUBSET K : T \ {First(T)} \in SUBSET K
    OBVIOUS
  <2>3. good([T \in SUBSET K |-> Count(g, T)])
    BY <1>4, <2>1, <2>2
  <2> QED BY <2>3
<1>6. good(iter)
  BY <1>5
<1>7. \A T \in SUBSET K :
         iter[T] = IF T = {} THEN 0
                   ELSE g[First(T)] + iter[T \ {First(T)}]
  <2> HIDE DEF iter
  <2> QED BY <1>4, <1>6
<1> HIDE DEF iter
<1>8. iter[K] = Count(g, K)
  BY <1>3, <1>7, SumIsCount
<1> QED BY <1>1, <1>2, <1>8

LEMMA FluxOfIsCount ==
    ASSUME NEW e, NEW S, IsFiniteSet(S), \A s \in S : face[e][s] \in Nat
    PROVE  FluxOf(e, S) = Count([s \in S |-> Flux(face[e][s])], S)
<1> DEFINE good(i) == i = [T \in SUBSET S |-> IF T = {} THEN 0
                             ELSE Flux(face[e][First(T)]) + i[T \ {First(T)}]]
           iter == CHOOSE i : good(i)
<1>1. FluxOf(e, S) = iter[S]
  BY DEF FluxOf, MapThenSumSet, MapThenFoldSet, First
<1>2. PICK g : g = [s \in S |-> Flux(face[e][s])]
  OBVIOUS
<1>3. \A s \in S : g[s] \in Nat
  BY <1>2 DEF Flux
<1>4. \A T \in SUBSET S : T # {} => g[First(T)] = Flux(face[e][First(T)])
  <2>1. \A T \in SUBSET S : T # {} => First(T) \in S
    BY FirstIsIn
  <2> QED BY <1>2, <2>1
<1>5. \E i : good(i)
  <2>1. \A T \in SUBSET S :
            Count(g, T) = IF T = {} THEN 0
                          ELSE g[First(T)] + Count(g, T \ {First(T)})
    BY <1>3, CountPicks
  <2>2. \A T \in SUBSET S : T \ {First(T)} \in SUBSET S
    OBVIOUS
  <2>3. good([T \in SUBSET S |-> Count(g, T)])
    BY <1>4, <2>1, <2>2
  <2> QED BY <2>3
<1>6. good(iter)
  BY <1>5
<1>7. \A T \in SUBSET S :
         iter[T] = IF T = {} THEN 0
                   ELSE g[First(T)] + iter[T \ {First(T)}]
  <2> HIDE DEF iter
  <2> QED BY <1>4, <1>6
<1> HIDE DEF iter
<1>8. iter[S] = Count(g, S)
  BY <1>3, <1>7, SumIsCount
<1> QED BY <1>1, <1>2, <1>8

\* Only the numbers of the elements matter.
LEMMA CountSame == ASSUME NEW g, NEW h, NEW T, \A x \in T : g[x] = h[x]
                   PROVE  Count(g, T) = Count(h, T)
<1>1. Tower(g, T) = Tower(h, T)
  BY DEF Tower
<1> QED BY <1>1 DEF Count

-----------------------------------------------------------------------------
(* The assembly.                                                            *)

DofsInvalid == dof = [e \in Elements |-> Null]
DofsValid == dof = [e \in Elements |-> e]

ClientInv == /\ threads \in 1 .. MaxThreads
             /\ call \in {"idle", "assembling"}
             /\ pid \in [Elements -> tasks_] /\ at \in [Tasks -> 0 .. nx * ny]
             /\ DofsInvalid \/ DofsValid
             /\ n_dofs \in {0, nx * ny}
             /\ bc \in BCs /\ captured \in BCs \union {Null}
             /\ matrix \in [Elements -> [Elements -> Int]] /\ rhs \in [Elements -> Nat]

\* The calls of assemble_system: filled says that there has been one that returned.
CallsInv == /\ assemblies \in Nat /\ filled \in BOOLEAN
            /\ assemblies = 0 => call = "idle" /\ ~filled /\ captured = Null /\ matrix = Zero
                                 /\ rhs = [r \in Elements |-> 0]
            /\ assemblies # 0 => pc = "built" /\ captured \in BCs
            /\ assemblies = 1 => (filled <=> call = "idle")
            /\ assemblies > 1 => filled

TasksInv == /\ state \in [Tasks -> {"PENDING", "STARTED", "FINISHED", "INTERRUPTED"}]
            /\ waitingFor = IF call = "assembling" THEN tasks_ ELSE {}
            /\ \A t \in Tasks : state[t] = "STARTED" => call = "assembling" /\ t \in tasks_

\* What the assembly that goes on has done so far.
Assembled(e) == state[pid[e]] \in {"STARTED", "FINISHED"} /\ e < at[pid[e]]
ThisLaplace == Laplace(IF assemblies = 1 THEN captured ELSE {})
RowsInv == \A e \in Elements : IF Assembled(e)
                               THEN matrix[e] = ThisLaplace[e] /\ rhs[e] = Load(captured)[e]
                               ELSE matrix[e] = Zero[e] /\ rhs[e] = 0
NothingInv == /\ matrix = Zero /\ rhs = [r \in Elements |-> 0]
              /\ \A t \in tasks_ : state[t] # "PENDING" => at[t] = 0
WorkInv == call = "assembling" =>
             /\ \A t \in tasks_ : state[t] = "FINISHED" => Left(t) = {}
             /\ DofsValid => RowsInv /\ \A t \in tasks_ : state[t] # "INTERRUPTED"
             /\ DofsInvalid => NothingInv

AssemblyInv == MeshInv /\ ClientInv /\ CallsInv /\ TasksInv /\ WorkInv /\ WholeOrNothing


\* The faces of an element of a finished mesh.
LEMMA BuiltFaces ==
    ASSUME MeshInv, pc = "built", NEW e \in Elements, NEW s \in Sides
    PROVE  /\ face[e][s] \in DOMAIN faces /\ face[e][s] \in Nat /\ neighbor[e][s] = Across(e, s)
           /\ faces[face[e][s]].boundary # Null <=> Across(e, s) = Null
           /\ Inside(face[e][s]) <=> Across(e, s) # Null
           /\ Of(face[e][s]) = {e, Across(e, s)} \ {Null}
           /\ \A r \in Sides : face[e][s] = face[e][r] => s = r
<1>1. /\ Sizes /\ FacesMade /\ OneEach /\ Counted /\ \A d, r : Done(d, r)
      /\ neighbor = [d \in Elements |-> NeighborsOf(d)] /\ e # Null
  <2>1. SizesInv /\ Sizes
    BY SizesGiven DEF MeshInv, GridInv
  <2>2. e # Null
    BY <2>1, SizesGiven, SizesAssumption
  <2> QED BY <2>1, <2>2 DEF MeshInv, GridInv, NeighborInv, FacesInv, Done
<1>2. PICK d \in Elements, q \in Sides :
        /\ \/ d = e /\ q = s
           \/ d = Across(e, s) /\ q = Opposite(s) /\ d < e /\ Across(d, q) = e /\ Opposite(q) = s
        /\ Creates(d, q)
        /\ IF Done(d, q) THEN Created(d, q) /\ face[e][s] = face[d][q] /\ face[e][s] # Null
           ELSE face[e][s] = Null
  BY FaceOfSide
<1>3. Created(d, q) /\ face[e][s] = face[d][q]
  BY <1>1, <1>2
<1>4. face[e][s] \in DOMAIN faces /\ face[e][s] \in Nat
  BY <1>1, <1>3 DEF Created, Counted
<1>5. faces[face[e][s]] = SideFace(d, q, BoundaryOf(d, q, face[d][q]))
  BY <1>3 DEF Created
<1>6. d # Null
  <2>1. \A c \in Elements : c # Null
    BY <1>1, SizesAssumption DEF Elements, Sizes
  <2> QED BY <2>1
<1>7. Across(d, q) # Null <=> Across(e, s) # Null
  BY <1>1, <1>2, <1>6
<1>8. BoundaryOf(d, q, face[d][q]) # Null <=> Across(d, q) = Null
  <2>1. NumberOf(q) \in Sides /\ 0 \in Sides /\ Null \notin Sides
    BY SizesAssumption DEF NumberOf, Sides
  <2> QED BY <2>1 DEF BoundaryOf
<1>9. Of(face[e][s]) = {d, Across(d, q)} \ {Null}
  BY <1>5 DEF Of, SideFace
<1>10. \A r \in Sides : face[e][s] = face[e][r] => s = r
  <2> SUFFICES ASSUME NEW r \in Sides, face[e][s] = face[e][r] PROVE s = r
    OBVIOUS
  <2>1. <<e, s>> \in {t \in Elements \X Sides : face[t[1]][t[2]] = face[d][q]}
    BY <1>3
  <2>2. <<e, r>> \in {t \in Elements \X Sides : face[t[1]][t[2]] = face[d][q]}
    BY <1>3
  <2>3. {t \in Elements \X Sides : face[t[1]][t[2]] = face[d][q]}
          = {<<d, q>>} \union (IF Across(d, q) = Null THEN {} ELSE {<<Across(d, q), Opposite(q)>>})
    BY <1>2, UsesOfFace
  <2>4. Across(d, q) # Null => Across(d, q) # d
    <3> SUFFICES ASSUME Across(d, q) # Null PROVE Across(d, q) # d
      OBVIOUS
    <3>1. d < Across(d, q)
      BY <1>2 DEF Creates
    <3>2. d \in Nat
      BY <1>1 DEF Elements, Sizes
    <3> QED BY <3>1, <3>2
  <2>5. /\ <<e, s>> = <<d, q>> \/ (Across(d, q) # Null /\ <<e, s>> = <<Across(d, q), Opposite(q)>>)
        /\ <<e, r>> = <<d, q>> \/ (Across(d, q) # Null /\ <<e, r>> = <<Across(d, q), Opposite(q)>>)
    BY <2>1, <2>2, <2>3
  <2> QED BY <2>4, <2>5
<1>11. neighbor[e][s] = Across(e, s)
  BY <1>1 DEF NeighborsOf
<1>12. /\ faces[face[e][s]].boundary # Null <=> Across(e, s) = Null
       /\ Inside(face[e][s]) <=> Across(e, s) # Null
  BY <1>5, <1>7, <1>8 DEF SideFace, Inside
<1>13. Of(face[e][s]) = {e, Across(e, s)} \ {Null}
  BY <1>1, <1>2, <1>9
<1> QED BY <1>4, <1>10, <1>11, <1>12, <1>13

LEMMA FacesOfElement ==
    ASSUME MeshInv, pc = "built", NEW e \in Elements, NEW k \in DOMAIN faces, e \in Of(k)
    PROVE  \E s \in Sides : face[e][s] = k
<1>1. PICK d \in Elements, q \in Sides : Creates(d, q) /\ face[d][q] = k
  BY DEF MeshInv, FacesInv, EachFrom
<1>2. Sizes
  BY SizesGiven DEF MeshInv, GridInv
<1>3. Of(k) = {d, Across(d, q)} \ {Null}
  BY <1>1, BuiltFaces
<1>4. CASE e = d
  BY <1>1, <1>4
<1>5. CASE e = Across(d, q) /\ e # Null
  <2>1. face[Across(d, q)][Opposite(q)] = k /\ Opposite(q) \in Sides
    BY <1>1, <1>5, OppositeSides DEF MeshInv, FacesInv, FacesMade, Created, Done
  <2> QED BY <1>5, <2>1
<1> QED BY <1>3, <1>4, <1>5

LEMMA AcrossUnique ==
    ASSUME Sizes, NEW e \in Elements, NEW s \in Sides, NEW r \in Sides, Across(e, s) # Null,
           Across(e, s) = Across(e, r)
    PROVE  s = r
<1>1. Across(e, s) \in Elements /\ Opposite(s) \in Sides /\ Across(Across(e, s), Opposite(s)) = e
      /\ e # Null /\ Opposite(Opposite(s)) = s
  BY Partner
<1>2. \A q \in Sides : Across(e, q) = Across(e, s) => q = Opposite(Opposite(s))
  BY <1>1, AcrossBack
<1> QED BY <1>1, <1>2

LEMMA SidesFinite == IsFiniteSet(Sides)
<1>1. 0 \in Int /\ 3 \in Int
  OBVIOUS
<1>2. IsFiniteSet(0 .. 3)
  BY <1>1, FS_Interval
<1> QED BY <1>2 DEF Sides

\* The fluxes of sides are those of their faces, which are all different.
LEMMA FluxOfSides ==
    ASSUME MeshInv, pc = "built", NEW e \in Elements, NEW A \in SUBSET Sides
    PROVE  /\ FluxOf(e, A) \in Nat
           /\ FluxOf(e, A) = Count([s \in Sides |-> Flux(face[e][s])], A)
           /\ Total({face[e][s] : s \in A}) = FluxOf(e, A)
<1>1. PICK g : g = [s \in Sides |-> Flux(face[e][s])]
  OBVIOUS
<1>2. \A s \in Sides : face[e][s] \in Nat /\ g[s] = Flux(face[e][s]) /\ g[s] \in Nat
  BY <1>1, BuiltFaces DEF Flux
<1>3. IsFiniteSet(A)
  BY SidesFinite, FS_Subset
<1>4. FluxOf(e, A) = Count(g, A)
  <2>1. PICK h : h = [s \in A |-> Flux(face[e][s])]
    OBVIOUS
  <2>2. FluxOf(e, A) = Count(h, A)
    BY <1>2, <1>3, <2>1, FluxOfIsCount
  <2>3. \A s \in A : h[s] = g[s]
    BY <1>2, <2>1
  <2> QED BY <2>2, <2>3, CountSame
<1>5. FluxOf(e, A) \in Nat
  <2>1. \A s \in A : g[s] \in Nat
    BY <1>2
  <2> QED BY <1>3, <1>4, <2>1, TowerFinite
<1> DEFINE K == {face[e][s] : s \in A}
<1>6. IsFiniteSet(K) /\ K \subseteq Nat
  <2> DEFINE f == [s \in A |-> face[e][s]]
  <2>1. f \in Surjection(A, K)
    BY DEF Surjection
  <2>2. K \subseteq Nat
    BY <1>2
  <2> HIDE DEF f, K
  <2> QED BY <1>3, <2>1, <2>2, FS_Surjection
<1>7. PICK h : h = [k \in K |-> Flux(k)]
  OBVIOUS
<1>8. Total(K) = Count(h, K)
  <2> HIDE DEF K
  <2> QED BY <1>6, <1>7, TotalIsCount
<1>9. PICK f : f = [s \in A |-> face[e][s]]
  OBVIOUS
<1>10. f \in [A -> K] /\ \A z \in K : \E s \in A : f[s] = z
  BY <1>9
<1>11. \A s, r \in A : f[s] = f[r] => s = r
  BY <1>9, BuiltFaces
<1>12. \A s \in A : h[f[s]] = g[s] /\ g[s] \in Nat
  BY <1>2, <1>7, <1>9
<1> HIDE DEF K
<1>13. Count(h, K) = Count(g, A)
  BY <1>3, <1>10, <1>11, <1>12, CountRenamed
<1> QED BY <1>1, <1>4, <1>5, <1>8, <1>13 DEF K

LEMMA FluxOfParts ==
    ASSUME MeshInv, pc = "built", NEW e \in Elements,
           NEW A \in SUBSET Sides, NEW B \in SUBSET Sides, A \cap B = {}
    PROVE  FluxOf(e, A \union B) = FluxOf(e, A) + FluxOf(e, B)
<1>1. PICK g : g = [s \in Sides |-> Flux(face[e][s])]
  OBVIOUS
<1>2. \A s \in Sides : g[s] \in Nat
  BY <1>1, BuiltFaces DEF Flux
<1>3. Count(g, A \union B) = Count(g, A) + Count(g, B)
  BY <1>2, SidesFinite, CountOfParts
<1>4. A \union B \in SUBSET Sides
  OBVIOUS
<1> QED BY <1>1, <1>3, <1>4, FluxOfSides

LEMMA FluxOfFew == /\ \A e : FluxOf(e, {}) = 0
                   /\ Total({}) = 0
                   /\ \A k \in Nat : Total({k}) = Flux(k)
<1>1. \A e : FluxOf(e, {}) = 0
  BY FluxOfIsCount, CountOfNone, FS_EmptySet
<1>2. Total({}) = 0
  BY TotalIsCount, CountOfNone, FS_EmptySet
<1>3. ASSUME NEW k \in Nat PROVE Total({k}) = Flux(k)
  <2>1. PICK h : h = [i \in {k} |-> Flux(i)]
    OBVIOUS
  <2>2. h[k] = Flux(k) /\ h[k] \in Nat
    BY <2>1 DEF Flux
  <2>3. IsFiniteSet({k}) /\ {k} \subseteq Nat
    BY FS_Singleton
  <2>4. Total({k}) = Count(h, {k})
    BY <2>1, <2>3, TotalIsCount
  <2>5. Count(h, {k}) = h[k]
    BY <2>2, TowerOfOne
  <2> QED BY <2>2, <2>4, <2>5
<1> QED BY <1>1, <1>2, <1>3

\* Two sides that have the same rank in a set of sides are the same side.
LEMMA RankTells ==
    ASSUME NEW S \in SUBSET Sides, NEW s \in S, NEW r \in S, Rank(S, s) = Rank(S, r)
    PROVE  s = r
<1>1. ASSUME NEW a \in S, NEW b \in S, a < b PROVE Rank(S, a) < Rank(S, b)
  <2> DEFINE A == {q \in S : q < a}   B == {q \in S : q < b}
  <2>1. \A q \in S : q \in Nat
    BY DEF Sides
  <2>2. A \subseteq B /\ a \in B /\ a \notin A /\ B \subseteq Sides
    BY <1>1, <2>1
  <2> HIDE DEF A, B
  <2>3. IsFiniteSet(B)
    BY <2>2, SidesFinite, FS_Subset
  <2>4. Cardinality(A) <= Cardinality(B) /\ (Cardinality(B) = Cardinality(A) => B = A)
        /\ IsFiniteSet(A)
    BY <2>2, <2>3, FS_Subset
  <2>5. Cardinality(A) \in Nat /\ Cardinality(B) \in Nat
    BY <2>3, <2>4, FS_CardinalityType
  <2>6. Cardinality(A) # Cardinality(B)
    BY <2>2, <2>4
  <2>7. Cardinality(A) < Cardinality(B)
    BY <2>4, <2>5, <2>6
  <2> QED BY <2>7 DEF Rank, A, B
<1>2. ASSUME NEW a \in S PROVE Rank(S, a) \in Nat
  <2> DEFINE A == {q \in S : q < a}
  <2>1. A \subseteq Sides
    OBVIOUS
  <2> HIDE DEF A
  <2>2. Cardinality(A) \in Nat
    BY <2>1, SidesFinite, FS_Subset, FS_CardinalityType
  <2> QED BY <2>2 DEF Rank, A
<1>3. s \in Nat /\ r \in Nat
  BY DEF Sides
<1>4. ~(s < r) /\ ~(r < s)
  <2>1. Rank(S, s) \in Nat /\ Rank(S, r) \in Nat
    BY <1>2
  <2>2. s < r => Rank(S, s) < Rank(S, r)
    BY <1>1
  <2>3. r < s => Rank(S, r) < Rank(S, s)
    BY <1>1
  <2> QED BY <2>1, <2>2, <2>3
<1> QED BY <1>3, <1>4

LEMMA InnerSides ==
    ASSUME MeshInv, pc = "built", NEW e \in Elements
    PROVE  /\ Inner(e) = NeighborSides(e) /\ Inner(e) \subseteq Sides /\ BoundarySides(e) \subseteq Sides
           /\ Inner(e) \cap BoundarySides(e) = {}
           /\ Inner(e) = {s \in Sides : Across(e, s) # Null}
           /\ BoundarySides(e) = {s \in Sides : Across(e, s) = Null}
<1>1. BoundarySides(e) = {s \in Sides : Across(e, s) = Null}
  BY BuiltFaces DEF BoundarySides
<1>2. NeighborSides(e) = {s \in Sides : Across(e, s) # Null}
  BY BuiltFaces DEF NeighborSides
<1> QED BY <1>1, <1>2 DEF Inner

\* The dof of a neighbor goes with the flux of the face between.
LEMMA EntryOfSide ==
    ASSUME MeshInv, pc = "built", NEW e \in Elements, NEW s \in NeighborSides(e)
    PROVE  Entry(e, s) = -Flux(face[e][s])
<1>1. Inner(e) = NeighborSides(e) /\ Inner(e) \in SUBSET Sides
  BY InnerSides
<1> DEFINE q == CHOOSE q \in Inner(e) : Rank(Inner(e), q) = Rank(NeighborSides(e), s)
<1>2. q \in Inner(e) /\ Rank(Inner(e), q) = Rank(Inner(e), s)
  BY <1>1
<1>3. Entry(e, s) = -Flux(face[e][q])
  BY DEF Entry
<1> HIDE DEF q
<1>4. q = s
  BY <1>1, <1>2, RankTells
<1> QED BY <1>3, <1>4

\* The diagonal of the system of the mesh.
LEMMA DiagonalOfMesh ==
    ASSUME MeshInv, pc = "built", NEW e \in Elements, NEW b \in SUBSET (0 .. 3)
    PROVE  LET D == {s \in BoundarySides(e) : faces[face[e][s]].boundary \in b}
           IN  /\ Laplace(b)[e][e] = FluxOf(e, Inner(e)) + FluxOf(e, D)
               /\ Load(b)[e] = 1 + FluxOf(e, D)
<1> DEFINE D == {s \in BoundarySides(e) : faces[face[e][s]].boundary \in b}
           K == {k \in DOMAIN faces : e \in Of(k) /\ (Inside(k) \/ faces[k].boundary \in b)}
           L == {k \in DOMAIN faces : Of(k) = {e} /\ faces[k].boundary \in b}
<1>1. Sizes /\ e # Null /\ Null \notin b
  <2>1. SizesInv /\ Sizes
    BY SizesGiven DEF MeshInv, GridInv
  <2>2. e # Null
    BY <2>1, SizesGiven, SizesAssumption
  <2>3. \A x \in b : x \in Nat
    OBVIOUS
  <2>4. Null \notin b
    BY <2>3, SizesAssumption
  <2> QED BY <2>1, <2>2, <2>4
<1>2. /\ Inner(e) = {s \in Sides : Across(e, s) # Null}
      /\ BoundarySides(e) = {s \in Sides : Across(e, s) = Null}
  BY InnerSides
<1>3. \A s \in Sides : /\ face[e][s] \in DOMAIN faces
                       /\ faces[face[e][s]].boundary # Null <=> Across(e, s) = Null
                       /\ Inside(face[e][s]) <=> Across(e, s) # Null
                       /\ Of(face[e][s]) = {e, Across(e, s)} \ {Null}
  BY BuiltFaces
<1>4. \A k \in DOMAIN faces : e \in Of(k) => \E s \in Sides : face[e][s] = k
  BY FacesOfElement
<1>5. K = {face[e][s] : s \in Inner(e) \union D}
  <2>1. \A s \in Inner(e) \union D : face[e][s] \in K
    BY <1>1, <1>2, <1>3
  <2>2. ASSUME NEW k \in K PROVE \E s \in Inner(e) \union D : face[e][s] = k
    <3>1. PICK s \in Sides : face[e][s] = k
      BY <1>4
    <3>2. s \in Inner(e) \union D
      BY <1>1, <1>2, <1>3, <3>1
    <3> QED BY <3>1, <3>2
  <2>3. K \subseteq {face[e][s] : s \in Inner(e) \union D}
    BY <2>2
  <2>4. {face[e][s] : s \in Inner(e) \union D} \subseteq K
    BY <2>1
  <2> HIDE DEF K, D
  <2> QED BY <2>3, <2>4
<1>6. L = {face[e][s] : s \in D}
  <2>1. \A s \in D : face[e][s] \in L
    BY <1>1, <1>2, <1>3
  <2>2. ASSUME NEW k \in L PROVE \E s \in D : face[e][s] = k
    <3>1. PICK s \in Sides : face[e][s] = k
      BY <1>4
    <3>2. faces[face[e][s]].boundary \in b
      BY <3>1
    <3>3. Across(e, s) = Null
      BY <1>1, <1>3, <3>2
    <3>4. s \in D
      BY <1>2, <3>2, <3>3
    <3> QED BY <3>1, <3>4
  <2>3. L \subseteq {face[e][s] : s \in D}
    BY <2>2
  <2>4. {face[e][s] : s \in D} \subseteq L
    BY <2>1
  <2> HIDE DEF L, D
  <2> QED BY <2>3, <2>4
<1>7. /\ Inner(e) \in SUBSET Sides /\ D \in SUBSET Sides /\ Inner(e) \union D \in SUBSET Sides
      /\ Inner(e) \cap D = {}
  BY <1>2
<1>8. Laplace(b)[e][e] = Total(K) /\ Load(b)[e] = 1 + Total(L)
  BY DEF Laplace, Load
<1> HIDE DEF K, L, D
<1>9. Total(K) = FluxOf(e, Inner(e)) + FluxOf(e, D)
  BY <1>5, <1>7, FluxOfSides, FluxOfParts
<1>10. Total(L) = FluxOf(e, D)
  BY <1>6, <1>7, FluxOfSides
<1> QED BY <1>8, <1>9, <1>10 DEF D

\* And the rest of a row.
LEMMA OthersOfMesh ==
    ASSUME MeshInv, pc = "built", NEW e \in Elements, NEW c \in Elements, c # e, NEW b
    PROVE  /\ \A s \in Sides : Across(e, s) = c => Laplace(b)[e][c] = -Flux(face[e][s])
           /\ (\A s \in Sides : Across(e, s) # c) => Laplace(b)[e][c] = 0
<1> DEFINE K == {k \in DOMAIN faces : Of(k) = {e, c}}
<1>1. Sizes /\ e # Null /\ c # Null
  <2>1. SizesInv /\ Sizes
    BY SizesGiven DEF MeshInv, GridInv
  <2>2. e # Null /\ c # Null
    BY <2>1, SizesGiven, SizesAssumption
  <2> QED BY <2>1, <2>2
<1>2. \A s \in Sides : /\ face[e][s] \in DOMAIN faces /\ face[e][s] \in Nat
                       /\ Of(face[e][s]) = {e, Across(e, s)} \ {Null}
  BY BuiltFaces
<1>3. ASSUME NEW k \in K PROVE \E s \in Sides : face[e][s] = k /\ Across(e, s) = c
  <2>1. e \in Of(k)
    OBVIOUS
  <2>2. PICK s \in Sides : face[e][s] = k
    BY <2>1, FacesOfElement
  <2>3. {e, c} = {e, Across(e, s)} \ {Null}
    BY <1>2, <2>2
  <2>4. Across(e, s) = c
    BY <1>1, <2>3
  <2> QED BY <2>2, <2>4
<1>4. Laplace(b)[e][c] = -Total(K)
  BY DEF Laplace
<1>5. ASSUME NEW s \in Sides, Across(e, s) = c PROVE Laplace(b)[e][c] = -Flux(face[e][s])
  <2>1. face[e][s] \in K
    BY <1>1, <1>2, <1>5
  <2>2. \A k \in K : k = face[e][s]
    <3> SUFFICES ASSUME NEW k \in K PROVE k = face[e][s]
      OBVIOUS
    <3>1. PICK r \in Sides : face[e][r] = k /\ Across(e, r) = c
      BY <1>3
    <3>2. r = s
      BY <1>1, <1>5, <3>1, AcrossUnique
    <3> QED BY <3>1, <3>2
  <2>3. K = {face[e][s]}
    BY <2>1, <2>2
  <2> HIDE DEF K
  <2> QED BY <1>2, <1>4, <2>3, FluxOfFew
<1>6. ASSUME \A s \in Sides : Across(e, s) # c PROVE Laplace(b)[e][c] = 0
  <2>1. K = {}
    BY <1>3, <1>6
  <2> HIDE DEF K
  <2> QED BY <1>4, <2>1, FluxOfFew
<1> QED BY <1>5, <1>6

LEMMA LaplaceTypes ==
    ASSUME MeshInv, pc = "built", NEW b \in SUBSET (0 .. 3)
    PROVE  Laplace(b) \in [Elements -> [Elements -> Int]] /\ Load(b) \in [Elements -> Nat]
<1>1. ASSUME NEW e \in Elements, NEW c \in Elements PROVE Laplace(b)[e][c] \in Int /\ Load(b)[e] \in Nat
  <2> DEFINE D == {s \in BoundarySides(e) : faces[face[e][s]].boundary \in b}
  <2>1. Inner(e) \in SUBSET Sides /\ D \in SUBSET Sides
    BY InnerSides
  <2>2. FluxOf(e, Inner(e)) \in Nat /\ FluxOf(e, D) \in Nat
    <3> HIDE DEF D
    <3> QED BY <2>1, FluxOfSides
  <2>3. Laplace(b)[e][e] \in Int /\ Load(b)[e] \in Nat
    <3>1. Laplace(b)[e][e] = FluxOf(e, Inner(e)) + FluxOf(e, D) /\ Load(b)[e] = 1 + FluxOf(e, D)
      BY DiagonalOfMesh
    <3> HIDE DEF D
    <3> QED BY <2>2, <3>1
  <2>4. c # e => Laplace(b)[e][c] \in Int
    <3> SUFFICES ASSUME c # e PROVE Laplace(b)[e][c] \in Int
      OBVIOUS
    <3>1. CASE \E s \in Sides : Across(e, s) = c
      <4>1. PICK s \in Sides : Across(e, s) = c
        BY <3>1
      <4>2. face[e][s] \in Nat /\ Laplace(b)[e][c] = -Flux(face[e][s])
        BY <4>1, OthersOfMesh, BuiltFaces
      <4> QED BY <4>2 DEF Flux
    <3>2. CASE \A s \in Sides : Across(e, s) # c
      BY <3>2, OthersOfMesh
    <3> QED BY <3>1, <3>2
  <2> QED BY <2>3, <2>4
<1>2. /\ Laplace(b) = [r \in Elements |-> Laplace(b)[r]]
      /\ \A r \in Elements : Laplace(b)[r] = [c \in Elements |-> Laplace(b)[r][c]]
      /\ Load(b) = [r \in Elements |-> Load(b)[r]]
  BY DEF Laplace, Load
<1> QED BY <1>1, <1>2

\* What a task writes for an element is the row of the system of the mesh.
LEMMA RowIsLaplace ==
    ASSUME MeshInv, pc = "built", DofsValid, NEW e \in Elements, matrix[e] = Zero[e],
           captured \in SUBSET (0 .. 3), filled \in BOOLEAN, filled <=> assemblies # 1
    PROVE  /\ Row(e) = ThisLaplace[e] /\ Row(e) \in [Elements -> Int]
           /\ 1 + FluxOf(e, DirichletSides(e)) = Load(captured)[e]
           /\ Load(captured)[e] \in Nat
           /\ HasDofs(e)
<1> DEFINE b == IF assemblies = 1 THEN captured ELSE {}
           D == {s \in BoundarySides(e) : faces[face[e][s]].boundary \in b}
<1>1. Sizes /\ \A d \in Elements : d # Null /\ dof[d] = d
  <2>1. SizesInv /\ Sizes
    BY SizesGiven DEF MeshInv, GridInv
  <2>2. \A d \in Elements : d # Null
    BY <2>1, SizesGiven, SizesAssumption
  <2> QED BY <2>1, <2>2 DEF DofsValid
<1>2. b \in SUBSET (0 .. 3) /\ ThisLaplace = Laplace(b)
  BY DEF ThisLaplace
<1>3. \A s \in Sides : neighbor[e][s] = Across(e, s) /\ face[e][s] \in Nat
  BY BuiltFaces
<1>4. \A s \in Sides : Across(e, s) # Null => Across(e, s) \in Elements
  BY <1>1, Partner
<1>5. NeighborSides(e) = {s \in Sides : Across(e, s) # Null}
  BY InnerSides
<1>6. HasDofs(e)
  BY <1>1, <1>3, <1>4, <1>5 DEF HasDofs
<1>7. Load(captured)[e] = 1 + FluxOf(e, DirichletSides(e))
  BY DiagonalOfMesh DEF DirichletSides
<1>8. Load(captured)[e] \in Nat
  BY LaplaceTypes
<1>9. Laplace(b)[e][e] = FluxOf(e, Inner(e)) + Added(e)
  <2>1. Laplace(b)[e][e] = FluxOf(e, Inner(e)) + FluxOf(e, D)
    BY <1>2, DiagonalOfMesh
  <2>2. FluxOf(e, D) = Added(e)
    <3>1. CASE filled
      BY <3>1, FluxOfFew DEF Added
    <3>2. CASE ~filled
      BY <3>2 DEF Added, DirichletSides
    <3> QED BY <3>1, <3>2
  <2> QED BY <2>1, <2>2
<1>10. Laplace(b) \in [Elements -> [Elements -> Int]]
  BY <1>2, LaplaceTypes
<1> HIDE DEF b, D
<1>11. \A c \in Elements : matrix[e][c] = 0
  BY DEF Zero
<1>12. ASSUME NEW c \in Elements
       PROVE  LET sides == {s \in NeighborSides(e) : dof[neighbor[e][s]] = c}
              IN  Laplace(b)[e][c] = IF c = dof[e] THEN set_entry(c, c, FluxOf(e, Inner(e)) + Added(e))
                                     ELSE IF sides = {} THEN matrix[dof[e]][c]
                                     ELSE set_entry(dof[e], c, Entry(e, CHOOSE s \in sides : TRUE))
  <2> DEFINE sides == {s \in NeighborSides(e) : dof[neighbor[e][s]] = c}
  <2>1. Laplace(b)[e][c] \in Int
    BY <1>10
  <2>2. CASE c = e
    <3>1. set_entry(c, c, Laplace(b)[e][c]) = Laplace(b)[e][c]
      BY <1>11, <2>1, <2>2 DEF set_entry
    <3> QED BY <1>1, <1>9, <2>2, <3>1
  <2>3. CASE c # e /\ sides = {}
    <3>1. \A s \in Sides : Across(e, s) # c
      BY <1>1, <1>3, <1>4, <1>5, <2>3
    <3>2. Laplace(b)[e][c] = 0
      BY <2>3, <3>1, OthersOfMesh
    <3> QED BY <1>1, <1>11, <2>3, <3>2
  <2>4. CASE c # e /\ sides # {}
    <3> DEFINE s == CHOOSE s \in sides : TRUE
    <3>1. s \in sides
      BY <2>4
    <3> HIDE DEF s
    <3>2. s \in NeighborSides(e) /\ s \in Sides /\ Across(e, s) = c
      BY <1>1, <1>3, <1>4, <1>5, <3>1
    <3>3. Laplace(b)[e][c] = Entry(e, s)
      <4>1. Entry(e, s) = -Flux(face[e][s])
        BY <3>2, EntryOfSide
      <4>2. Laplace(b)[e][c] = -Flux(face[e][s])
        BY <2>4, <3>2, OthersOfMesh
      <4> QED BY <4>1, <4>2
    <3>4. set_entry(e, c, Laplace(b)[e][c]) = Laplace(b)[e][c]
      BY <1>11, <2>1 DEF set_entry
    <3> QED BY <1>1, <2>4, <3>3, <3>4 DEF s
  <2> QED BY <2>2, <2>3, <2>4
<1>13. Row(e) = [c \in Elements |-> Laplace(b)[e][c]]
  BY <1>12 DEF Row
<1>14. Row(e) = Laplace(b)[e] /\ Row(e) \in [Elements -> Int]
  BY <1>10, <1>13
<1> QED BY <1>2, <1>6, <1>7, <1>8, <1>14

-----------------------------------------------------------------------------
(* The steps of the client and of the tasks.                                *)

LEMMA ElementsGiven ==
    ASSUME MeshInv
    PROVE  /\ Cardinality(Elements) = nx * ny /\ nx * ny \in Nat \ {0} /\ 0 \in Elements
           /\ \A e \in Elements : e \in Nat /\ e < nx * ny /\ e + 1 \in 0 .. nx * ny /\ e # Null
<1>1. nx \in Nat \ {0} /\ ny \in Nat \ {0} /\ 0 \in Elements
  BY SizesGiven DEF MeshInv, GridInv, Sizes
<1>2. nx * ny \in Nat \ {0}
  BY <1>1
<1>3. nx * ny - 1 \in Int /\ 0 \in Int
  BY <1>2
<1>4. Cardinality(0 .. nx * ny - 1) = IF 0 > nx * ny - 1 THEN 0 ELSE (nx * ny - 1) - 0 + 1
  BY <1>3, FS_Interval
<1>5. Cardinality(Elements) = nx * ny
  BY <1>2, <1>4 DEF Elements
<1>6. \A e \in Elements : e \in Nat /\ e < nx * ny /\ e + 1 \in 0 .. nx * ny
  BY <1>2 DEF Elements
<1> QED BY <1>1, <1>2, <1>5, <1>6, SizesAssumption

LEMMA TasksGiven == ASSUME threads \in 1 .. MaxThreads
                    PROVE  tasks_ \subseteq Tasks /\ 0 \in tasks_ /\ \A t \in Tasks : t \in Nat
  BY ThreadsAssumption DEF tasks_, Tasks

\* The system of the mesh stays as long as the mesh does.
LEMMA SameSystem ==
    ASSUME UNCHANGED mesh, UNCHANGED <<assemblies, captured>>
    PROVE  ThisLaplace' = ThisLaplace /\ Load(captured)' = Load(captured)
<1>1. UNCHANGED <<nx, ny, faces, assemblies, captured>> /\ Elements' = Elements
  BY SameRectangle DEF mesh
<1>2. \A k : Of(k)' = Of(k) /\ Inside(k)' = Inside(k)
  BY <1>1 DEF Of, Inside
<1> DEFINE b == IF assemblies = 1 THEN captured ELSE {}
           P(r) == Total({k \in DOMAIN faces : r \in Of(k) /\ (Inside(k) \/ faces[k].boundary \in b)})
           Q(r, c) == Total({k \in DOMAIN faces : Of(k) = {r, c}})
           R(r) == Total({k \in DOMAIN faces : Of(k) = {r} /\ faces[k].boundary \in captured})
<1>3. /\ ThisLaplace = [r \in Elements |-> [c \in Elements |-> IF r = c THEN P(r) ELSE -Q(r, c)]]
      /\ Load(captured) = [r \in Elements |-> 1 + R(r)]
  BY DEF ThisLaplace, Laplace, Load
<1>4. /\ ThisLaplace' = [r \in Elements' |-> [c \in Elements' |-> IF r = c THEN P(r)' ELSE -(Q(r, c)')]]
      /\ Load(captured)' = [r \in Elements' |-> 1 + R(r)']
  BY DEF ThisLaplace, Laplace, Load
<1>5. b' = b
  BY <1>1
<1>6. ASSUME NEW r, NEW c PROVE P(r)' = P(r) /\ Q(r, c)' = Q(r, c) /\ R(r)' = R(r)
  <2> HIDE DEF b
  <2>1. {k \in DOMAIN faces' : r \in Of(k)' /\ (Inside(k)' \/ faces'[k].boundary \in b')}
          = {k \in DOMAIN faces : r \in Of(k) /\ (Inside(k) \/ faces[k].boundary \in b)}
    BY <1>1, <1>2, <1>5
  <2>2. {k \in DOMAIN faces' : Of(k)' = {r, c}} = {k \in DOMAIN faces : Of(k) = {r, c}}
    BY <1>1, <1>2
  <2>3. {k \in DOMAIN faces' : Of(k)' = {r} /\ faces'[k].boundary \in captured'}
          = {k \in DOMAIN faces : Of(k) = {r} /\ faces[k].boundary \in captured}
    BY <1>1, <1>2
  <2>4. P(r)' = Total({k \in DOMAIN faces' : r \in Of(k)' /\ (Inside(k)' \/ faces'[k].boundary \in b')})
    BY DEF Total
  <2>5. /\ Q(r, c)' = Total({k \in DOMAIN faces' : Of(k)' = {r, c}})
        /\ R(r)' = Total({k \in DOMAIN faces' : Of(k)' = {r} /\ faces'[k].boundary \in captured'})
    BY DEF Total
  <2> QED BY <2>1, <2>2, <2>3, <2>4, <2>5
<1> HIDE DEF b, P, Q, R
<1> QED BY <1>1, <1>3, <1>4, <1>6


LEMMA InitAssembly == FVInit => AssemblyInv
<1> SUFFICES ASSUME FVInit PROVE AssemblyInv
  OBVIOUS
<1>1. MeshInv
  BY InitMesh DEF FVInit
<1>2. /\ threads \in 1 .. MaxThreads /\ call = "idle" /\ pid = [e \in Elements |-> 0]
      /\ DofsInvalid /\ n_dofs = 0 /\ bc \in BCs /\ captured = Null
      /\ state = [t \in Tasks |-> "PENDING"] /\ waitingFor = {}
      /\ at = [t \in Tasks |-> 0] /\ matrix = Zero /\ rhs = [r \in Elements |-> 0]
      /\ filled = FALSE /\ assemblies = 0
  BY DEF FVInit, Executor!Init, DofsInvalid
<1>3. ClientInv
  <2>1. 0 \in tasks_ /\ 0 \in 0 .. nx * ny
    BY <1>1, <1>2, TasksGiven, ElementsGiven
  <2> QED BY <1>2, <2>1 DEF ClientInv, Zero
<1>4. CallsInv
  <2>1. assemblies \in Nat /\ assemblies # 1 /\ ~(assemblies > 1) /\ assemblies = 0
    BY <1>2
  <2>2. ~filled /\ filled \in BOOLEAN
    BY <1>2
  <2> QED BY <1>2, <2>1, <2>2, Zenon DEF CallsInv
<1>5. TasksInv
  BY <1>2 DEF TasksInv
<1>6. WorkInv /\ WholeOrNothing
  BY <1>2 DEF WorkInv, WholeOrNothing
<1> QED BY <1>1, <1>3, <1>4, <1>5, <1>6 DEF AssemblyInv

LEMMA BuildMeshKeeps == ASSUME AssemblyInv, BuildMesh PROVE AssemblyInv'
<1>1. MeshInv'
  BY BuildKeeps DEF AssemblyInv, BuildMesh
<1>2. UNCHANGED <<nx, ny>> /\ pc # "built"
  BY DEF BuildMesh, Build, BuildElement, Connect, CountFaces, VisitSide, NumberFace
<1>3. /\ UNCHANGED <<threads, call, pid, inserted, dof, n_dofs, bc, captured, filled, assemblies>>
      /\ UNCHANGED <<state, waitingFor, at, matrix, rhs>>
      /\ Elements' = Elements /\ Zero' = Zero /\ tasks_' = tasks_
  BY <1>2, SameRectangle DEF BuildMesh, client, Zero, tasks_
<1>4. ClientInv /\ CallsInv /\ TasksInv
  BY DEF AssemblyInv
<1>5. assemblies = 0 /\ call = "idle" /\ ~filled
  BY <1>2, <1>4 DEF CallsInv
<1>6. ClientInv'
  BY <1>2, <1>3, <1>4 DEF ClientInv, DofsInvalid, DofsValid, Tasks
<1>7. CallsInv' /\ TasksInv'
  BY <1>3, <1>4, <1>5 DEF CallsInv, TasksInv, Tasks
<1>8. WorkInv' /\ WholeOrNothing'
  BY <1>3, <1>5 DEF WorkInv, WholeOrNothing
<1> QED BY <1>1, <1>6, <1>7, <1>8 DEF AssemblyInv

\* A step of the client between two assemblies leaves the system as it is.
LEMMA SystemStays ==
    ASSUME AssemblyInv, UNCHANGED mesh, call = "idle",
           UNCHANGED <<threads, call, captured, filled, assemblies, state, waitingFor, at, matrix, rhs>>
    PROVE  CallsInv' /\ TasksInv' /\ WorkInv' /\ WholeOrNothing'
<1>1. UNCHANGED <<nx, ny, pc>> /\ Elements' = Elements /\ Zero' = Zero /\ tasks_' = tasks_
  BY SameRectangle DEF mesh, Zero, tasks_
<1>2. CallsInv /\ TasksInv /\ WholeOrNothing
  BY DEF AssemblyInv
<1>3. CallsInv' /\ TasksInv'
  BY <1>1, <1>2 DEF CallsInv, TasksInv, Tasks
<1>4. WorkInv'
  BY DEF WorkInv
<1>5. ThisLaplace' = ThisLaplace /\ Load(captured)' = Load(captured)
  BY SameSystem
<1>6. WholeOrNothing <=>
        (filled => IF \E t \in tasks_ : state[t] = "INTERRUPTED"
                   THEN matrix = Zero /\ \A r \in Elements : rhs[r] = 0
                   ELSE matrix = ThisLaplace /\ rhs = Load(captured))
  BY DEF WholeOrNothing, ThisLaplace
<1>7. WholeOrNothing' <=>
        (filled' => IF \E t \in tasks_' : state'[t] = "INTERRUPTED"
                    THEN matrix' = Zero' /\ \A r \in Elements' : rhs'[r] = 0
                    ELSE matrix' = ThisLaplace' /\ rhs' = Load(captured)')
  BY DEF WholeOrNothing, ThisLaplace
<1>8. WholeOrNothing'
  BY <1>1, <1>2, <1>5, <1>6, <1>7
<1> QED BY <1>3, <1>4, <1>8

\* Every element goes to a task, and every task has one when there are enough.
LEMMA PartitionIsFair ==
    ASSUME MeshInv, threads \in 1 .. MaxThreads
    PROVE  /\ linear_mesh_partition(threads) \in [Elements -> tasks_]
           /\ threads <= Cardinality(Elements) =>
                \A t \in tasks_ : \E e \in Elements : linear_mesh_partition(threads)[e] = t
<1> DEFINE N == nx * ny   load == N \div threads
<1>1. threads \in Nat \ {0}
  BY ThreadsAssumption
<1>2. N \in Nat \ {0} /\ Cardinality(Elements) = N /\ \A e \in Elements : e \in Nat
  BY ElementsGiven
<1> HIDE DEF N
<1>3. load \in Nat /\ N = (N % threads) + load * threads /\ N % threads \in 0 .. threads - 1
  BY <1>1, <1>2, Division
<1>4. linear_mesh_partition(threads) =
        [e \in Elements |-> IF load = 0 THEN 0
                            ELSE IF e \div load < threads THEN e \div load ELSE threads - 1]
  BY <1>2 DEF linear_mesh_partition
<1> HIDE DEF load
<1>5. linear_mesh_partition(threads) \in [Elements -> tasks_]
  <2>1. ASSUME NEW e \in Elements, load # 0 PROVE e \div load \in Nat
    BY <1>2, <1>3, <2>1, Division
  <2> QED BY <1>1, <1>4, <2>1 DEF tasks_
<1>6. ASSUME threads <= N, NEW t \in tasks_
      PROVE  \E e \in Elements : linear_mesh_partition(threads)[e] = t
  <2>1. t \in Nat /\ t < threads /\ t + 1 <= threads
    BY <1>1 DEF tasks_
  <2>2. load # 0
    <3> SUFFICES ASSUME load = 0 PROVE FALSE
      OBVIOUS
    <3>1. N = N % threads /\ N % threads < threads
      BY <1>1, <1>2, <1>3
    <3> QED BY <1>1, <1>2, <1>6, <3>1
  <2>3. (t + 1) * load <= threads * load /\ threads * load = load * threads
    BY <1>1, <1>3, <2>1, MulMono
  <2>4. (t + 1) * load = t * load + load /\ t * load \in Nat /\ load * threads \in Nat
    BY <1>1, <1>3, <2>1
  <2>5. t * load < N
    BY <1>1, <1>2, <1>3, <2>2, <2>3, <2>4
  <2>6. 0 + t * load \in Elements
    BY <1>2, <2>4, <2>5 DEF Elements, N
  <2>7. (0 + t * load) \div load = t
    BY <1>3, <2>1, <2>2, DivisionUnique
  <2> QED BY <1>4, <2>1, <2>2, <2>6, <2>7
<1> QED BY <1>2, <1>5, <1>6

LEMMA PartitionKeeps == ASSUME AssemblyInv, Partition PROVE AssemblyInv'
<1>1. /\ MeshInv /\ ClientInv /\ call = "idle" /\ UNCHANGED mesh
      /\ pid' = linear_mesh_partition(threads)
      /\ UNCHANGED <<threads, call, inserted, dof, n_dofs, bc, captured, filled, assemblies,
                     state, waitingFor, at, matrix, rhs>>
  BY DEF AssemblyInv, Partition, Ready
<1>2. UNCHANGED <<nx, ny>> /\ Elements' = Elements /\ tasks_' = tasks_
  BY <1>1, SameRectangle DEF mesh, tasks_
<1>3. linear_mesh_partition(threads) \in [Elements -> tasks_]
  BY <1>1, PartitionIsFair DEF ClientInv
<1>4. ClientInv'
  BY <1>1, <1>2, <1>3 DEF ClientInv, DofsInvalid, DofsValid, Tasks
<1>5. MeshInv'
  BY <1>1, MeshStays
<1> QED BY <1>1, <1>4, <1>5, SystemStays DEF AssemblyInv

LEMMA DistributeDofsKeeps == ASSUME AssemblyInv, DistributeDofs PROVE AssemblyInv'
<1>1. /\ MeshInv /\ ClientInv /\ call = "idle" /\ UNCHANGED mesh
      /\ UNCHANGED <<threads, call, pid, bc, captured, filled, assemblies, state, waitingFor,
                     at, matrix, rhs>>
  BY DEF AssemblyInv, DistributeDofs, Ready
<1>2. UNCHANGED <<nx, ny>> /\ Elements' = Elements /\ tasks_' = tasks_
  BY <1>1, SameRectangle DEF mesh, tasks_
<1>3. /\ dof' = [e \in Elements |-> Null] \/ dof' = [e \in Elements |-> e]
      /\ n_dofs' \in {0, nx * ny}
  BY <1>1, ElementsGiven DEF DistributeDofs, invalidate_dofs, do_distribute_dofs
<1>4. DofsInvalid' \/ DofsValid'
  BY <1>2, <1>3 DEF DofsInvalid, DofsValid
<1>5. ClientInv'
  BY <1>1, <1>2, <1>3, <1>4 DEF ClientInv, Tasks
<1>6. MeshInv'
  BY <1>1, MeshStays
<1> QED BY <1>1, <1>5, <1>6, SystemStays DEF AssemblyInv

LEMMA SetBoundaryFunctionKeeps ==
    ASSUME AssemblyInv, NEW b \in BCs, SetBoundaryFunction(b) PROVE AssemblyInv'
<1>1. /\ MeshInv /\ ClientInv /\ call = "idle" /\ UNCHANGED mesh /\ bc' = b
      /\ UNCHANGED <<threads, call, pid, inserted, dof, n_dofs, captured, filled, assemblies, state,
                     waitingFor, at, matrix, rhs>>
  BY DEF AssemblyInv, SetBoundaryFunction, Ready
<1>2. UNCHANGED <<nx, ny>> /\ Elements' = Elements /\ tasks_' = tasks_
  BY <1>1, SameRectangle DEF mesh, tasks_
<1>3. ClientInv'
  BY <1>1, <1>2 DEF ClientInv, DofsInvalid, DofsValid, Tasks
<1>4. MeshInv'
  BY <1>1, MeshStays
<1> QED BY <1>1, <1>3, <1>4, SystemStays DEF AssemblyInv

LEMMA AssembleKeeps == ASSUME AssemblyInv, Assemble PROVE AssemblyInv'
<1>1. /\ MeshInv /\ ClientInv /\ CallsInv /\ TasksInv /\ UNCHANGED mesh
      /\ pc = "built" /\ call = "idle" /\ call' = "assembling"
      /\ matrix' = Zero /\ rhs' = [r \in Elements |-> 0]
      /\ captured' = IF captured = Null THEN bc ELSE captured
      /\ state' = [t \in Tasks |-> IF t \in tasks_ THEN "PENDING" ELSE state[t]]
      /\ waitingFor' = tasks_ /\ assemblies' = assemblies + 1
      /\ UNCHANGED <<threads, pid, inserted, dof, n_dofs, bc, filled, at>>
  BY DEF AssemblyInv, Assemble, Ready
<1>2. UNCHANGED <<nx, ny, pc>> /\ Elements' = Elements /\ tasks_' = tasks_ /\ Zero' = Zero
  BY <1>1, SameRectangle DEF mesh, tasks_, Zero
<1>3. captured' \in BCs
  BY <1>1 DEF ClientInv
<1>4. ClientInv'
  <2>1. Zero \in [Elements -> [Elements -> Int]] /\ [r \in Elements |-> 0] \in [Elements -> Nat]
    BY DEF Zero
  <2> QED BY <1>1, <1>2, <1>3, <2>1 DEF ClientInv, DofsInvalid, DofsValid, Tasks
<1>5. CallsInv'
  <2>1. assemblies \in Nat /\ assemblies' = assemblies + 1 /\ filled' = filled /\ filled \in BOOLEAN
    BY <1>1 DEF CallsInv
  <2>2. assemblies = 0 => ~filled
    BY <1>1 DEF CallsInv
  <2>3. assemblies # 0 => filled
    BY <1>1, <2>1 DEF CallsInv
  <2> QED BY <1>1, <1>2, <1>3, <2>1, <2>2, <2>3 DEF CallsInv
<1>6. TasksInv'
  BY <1>1, <1>2 DEF TasksInv, Tasks
<1>7. tasks_ \subseteq Tasks
  BY <1>1, TasksGiven DEF ClientInv
<1>8. \A t \in tasks_ : state'[t] = "PENDING"
  BY <1>1, <1>7
<1>9. WorkInv'
  <2>1. \A e \in Elements : ~(Assembled(e)')
    <3> SUFFICES ASSUME NEW e \in Elements PROVE ~(Assembled(e)')
      OBVIOUS
    <3>1. pid'[e] \in tasks_
      BY <1>1 DEF ClientInv
    <3>2. state'[pid'[e]] = "PENDING"
      BY <1>8, <3>1
    <3> QED BY <3>2 DEF Assembled
  <2>2. RowsInv'
    <3>1. \A e \in Elements : matrix'[e] = Zero'[e] /\ rhs'[e] = 0
      BY <1>1, <1>2
    <3> QED BY <1>2, <2>1, <3>1 DEF RowsInv
  <2>3. NothingInv'
    BY <1>1, <1>2, <1>8 DEF NothingInv
  <2> QED BY <1>2, <1>8, <2>2, <2>3 DEF WorkInv
<1>10. MeshInv' /\ WholeOrNothing'
  BY <1>1, MeshStays DEF WholeOrNothing
<1> QED BY <1>4, <1>5, <1>6, <1>9, <1>10 DEF AssemblyInv

\* When the last task has ended, every element has its row, or none has.
LEMMA ReturnKeeps == ASSUME AssemblyInv, Return PROVE AssemblyInv'
<1>1. /\ MeshInv /\ ClientInv /\ CallsInv /\ TasksInv /\ WorkInv /\ UNCHANGED mesh
      /\ call = "assembling" /\ call' = "idle" /\ filled' = TRUE /\ waitingFor' = {}
      /\ \A t \in waitingFor : state[t] \in {"FINISHED", "INTERRUPTED"}
      /\ UNCHANGED <<threads, pid, inserted, dof, n_dofs, bc, captured, assemblies, at, state,
                     matrix, rhs>>
  BY DEF AssemblyInv, Return, Executor!Return, Executor!Ended
<1>2. /\ UNCHANGED <<nx, ny, pc>> /\ Elements' = Elements /\ tasks_' = tasks_ /\ Zero' = Zero
      /\ \A t \in tasks_ : state[t] \in {"FINISHED", "INTERRUPTED"}
  BY <1>1, SameRectangle DEF mesh, tasks_, Zero, TasksInv
<1>3. ClientInv'
  BY <1>1, <1>2 DEF ClientInv, DofsInvalid, DofsValid, Tasks
<1>4. CallsInv'
  BY <1>1, <1>2 DEF CallsInv
<1>5. TasksInv'
  BY <1>1, <1>2 DEF TasksInv, Tasks
<1>6. WorkInv'
  BY <1>1 DEF WorkInv
<1>7. ThisLaplace' = ThisLaplace /\ Load(captured)' = Load(captured)
  BY <1>1, SameSystem
<1>8. IF \E t \in tasks_ : state[t] = "INTERRUPTED"
      THEN matrix = Zero /\ \A r \in Elements : rhs[r] = 0
      ELSE matrix = ThisLaplace /\ rhs = Load(captured)
  <2>1. CASE DofsInvalid
    <3>1. NothingInv /\ \A t \in tasks_ : state[t] = "FINISHED" => Left(t) = {}
      BY <1>1, <2>1 DEF WorkInv
    <3>2. 0 \in Elements /\ pid[0] \in tasks_
      BY <1>1, ElementsGiven DEF ClientInv
    <3>3. at[pid[0]] = 0
      BY <1>2, <3>1, <3>2 DEF NothingInv
    <3>4. 0 \in Left(pid[0])
      BY <3>2, <3>3 DEF Left
    <3>5. state[pid[0]] = "INTERRUPTED"
      BY <1>2, <3>1, <3>2, <3>4
    <3> QED BY <3>1, <3>2, <3>5 DEF NothingInv
  <2>2. CASE DofsValid
    <3>1. /\ RowsInv /\ \A t \in tasks_ : state[t] # "INTERRUPTED"
          /\ \A t \in tasks_ : state[t] = "FINISHED" => Left(t) = {}
      BY <1>1, <2>2 DEF WorkInv
    <3>2. ASSUME NEW e \in Elements PROVE Assembled(e)
      <4>1. pid[e] \in tasks_ /\ pid[e] \in Tasks /\ at[pid[e]] \in Nat /\ e \in Nat
        BY <1>1, TasksGiven, ElementsGiven DEF ClientInv
      <4>2. state[pid[e]] = "FINISHED" /\ Left(pid[e]) = {}
        BY <1>2, <3>1, <4>1
      <4>3. ~(e >= at[pid[e]])
        BY <4>2 DEF Left
      <4> QED BY <4>1, <4>2, <4>3 DEF Assembled
    <3>3. \A e \in Elements : matrix[e] = ThisLaplace[e] /\ rhs[e] = Load(captured)[e]
      BY <3>1, <3>2 DEF RowsInv
    <3>4. matrix = [e \in Elements |-> matrix[e]] /\ rhs = [e \in Elements |-> rhs[e]]
      BY <1>1 DEF ClientInv
    <3>5. /\ ThisLaplace = [e \in Elements |-> ThisLaplace[e]]
          /\ Load(captured) = [e \in Elements |-> Load(captured)[e]]
      BY DEF ThisLaplace, Laplace, Load
    <3> QED BY <3>1, <3>3, <3>4, <3>5
  <2> QED BY <1>1, <2>1, <2>2 DEF ClientInv
<1>9. WholeOrNothing' <=>
        IF \E t \in tasks_' : state'[t] = "INTERRUPTED"
        THEN matrix' = Zero' /\ \A r \in Elements' : rhs'[r] = 0
        ELSE matrix' = ThisLaplace' /\ rhs' = Load(captured)'
  BY <1>1 DEF WholeOrNothing, ThisLaplace
<1>10. MeshInv' /\ WholeOrNothing'
  BY <1>1, <1>2, <1>7, <1>8, <1>9, MeshStays
<1> QED BY <1>3, <1>4, <1>5, <1>6, <1>10 DEF AssemblyInv

\* A task leaves the client, its counts and the other tasks alone.
LEMMA TaskLeaves ==
    ASSUME AssemblyInv, NEW t \in Tasks, state[t] = "STARTED" \/ (call = "assembling" /\ t \in tasks_),
           UNCHANGED <<mesh, threads, client, waitingFor>>
    PROVE  /\ MeshInv /\ MeshInv' /\ ClientInv /\ CallsInv /\ TasksInv /\ WorkInv
           /\ pc = "built" /\ call = "assembling" /\ t \in tasks_
           /\ captured \in SUBSET (0 .. 3) /\ filled \in BOOLEAN /\ (filled <=> assemblies # 1)
           /\ UNCHANGED <<nx, ny, pc, threads, call, pid, inserted, dof, n_dofs, bc, captured, filled,
                          assemblies, waitingFor>>
           /\ Elements' = Elements /\ tasks_' = tasks_ /\ Zero' = Zero
           /\ ThisLaplace' = ThisLaplace /\ Load(captured)' = Load(captured)
           /\ CallsInv' /\ WholeOrNothing'
           /\ DofsValid' = DofsValid /\ DofsInvalid' = DofsInvalid
<1>1. /\ UNCHANGED <<nx, ny, pc, threads, call, pid, inserted, dof, n_dofs, bc, captured, filled,
                     assemblies, waitingFor>>
      /\ Elements' = Elements /\ tasks_' = tasks_ /\ Zero' = Zero
  BY SameRectangle DEF mesh, client, tasks_, Zero
<1>2. MeshInv /\ ClientInv /\ CallsInv /\ TasksInv /\ WorkInv
  BY DEF AssemblyInv
<1>3. call = "assembling" /\ t \in tasks_
  BY <1>2 DEF TasksInv
<1>4. assemblies # 0 /\ assemblies \in Nat /\ filled \in BOOLEAN
  BY <1>2, <1>3 DEF CallsInv
<1>5. pc = "built" /\ captured \in BCs
  BY <1>2, <1>4 DEF CallsInv
<1>6. filled <=> assemblies # 1
  <2>1. assemblies = 1 => ~filled
    BY <1>2, <1>3 DEF CallsInv
  <2>2. assemblies # 1 => filled
    BY <1>2, <1>4 DEF CallsInv
  <2> QED BY <1>4, <2>1, <2>2
<1>7. captured \in SUBSET (0 .. 3)
  BY <1>5, BCsAssumption
<1>8. CallsInv'
  BY <1>1, <1>2, <1>4 DEF CallsInv
<1>9. WholeOrNothing'
  BY <1>1, <1>3 DEF WholeOrNothing
<1>10. ThisLaplace' = ThisLaplace /\ Load(captured)' = Load(captured)
  BY <1>1, SameSystem
<1>11. DofsValid' = DofsValid /\ DofsInvalid' = DofsInvalid
  BY <1>1 DEF DofsValid, DofsInvalid
<1>12. MeshInv'
  BY <1>2, MeshStays
<1> QED BY <1>1, <1>2, <1>3, <1>4, <1>5, <1>6, <1>7, <1>8, <1>9, <1>10, <1>11, <1>12

LEMMA BeginKeeps == ASSUME AssemblyInv, NEW t \in Tasks, Begin(t) PROVE AssemblyInv'
<1>1. /\ call = "assembling" /\ t \in tasks_ /\ state[t] = "PENDING"
      /\ state' = [state EXCEPT ![t] = "STARTED"] /\ at' = [at EXCEPT ![t] = 0]
      /\ UNCHANGED <<mesh, threads, client, waitingFor>> /\ UNCHANGED <<matrix, rhs>>
  BY DEF Begin, Executor!Begin
<1>2. /\ MeshInv /\ MeshInv' /\ ClientInv /\ TasksInv /\ WorkInv
      /\ UNCHANGED <<nx, ny, pc, threads, call, pid, inserted, dof, n_dofs, bc, captured, filled,
                     assemblies, waitingFor>>
      /\ Elements' = Elements /\ tasks_' = tasks_ /\ Zero' = Zero
      /\ ThisLaplace' = ThisLaplace /\ Load(captured)' = Load(captured)
      /\ CallsInv' /\ WholeOrNothing'
      /\ DofsValid' = DofsValid /\ DofsInvalid' = DofsInvalid
  BY <1>1, TaskLeaves
<1>3. /\ state \in [Tasks -> {"PENDING", "STARTED", "FINISHED", "INTERRUPTED"}]
      /\ at \in [Tasks -> 0 .. nx * ny] /\ pid \in [Elements -> tasks_]
      /\ nx * ny \in Nat /\ tasks_ \subseteq Tasks /\ \A e \in Elements : e \in Nat
  BY <1>2, ElementsGiven, TasksGiven DEF TasksInv, ClientInv
<1>4. ClientInv'
  <2>1. at' \in [Tasks -> 0 .. nx * ny]
    BY <1>1, <1>3
  <2> QED BY <1>1, <1>2, <2>1 DEF ClientInv, Tasks
<1>5. TasksInv'
  BY <1>1, <1>2, <1>3 DEF TasksInv, Tasks
<1>6. /\ state'[t] = "STARTED" /\ at'[t] = 0
      /\ \A u \in Tasks : u # t => state'[u] = state[u] /\ at'[u] = at[u]
  BY <1>1, <1>3
<1>7. \A u \in tasks_ : state'[u] = "FINISHED" => Left(u)' = {}
  <2> SUFFICES ASSUME NEW u \in tasks_, state'[u] = "FINISHED" PROVE Left(u)' = {}
    OBVIOUS
  <2>1. u # t /\ u \in Tasks
    BY <1>3, <1>6
  <2>2. Left(u) = {}
    BY <1>1, <1>2, <1>6, <2>1 DEF WorkInv
  <2>3. Left(u)' = {e \in Elements : pid[e] = u /\ e >= at'[u]}
    BY <1>2 DEF Left
  <2> QED BY <1>6, <2>1, <2>2, <2>3 DEF Left
<1>8. DofsValid => RowsInv' /\ \A u \in tasks_ : state'[u] # "INTERRUPTED"
  <2> SUFFICES ASSUME DofsValid PROVE RowsInv' /\ \A u \in tasks_ : state'[u] # "INTERRUPTED"
    OBVIOUS
  <2>1. RowsInv /\ \A u \in tasks_ : state[u] # "INTERRUPTED"
    BY <1>1, <1>2 DEF WorkInv
  <2>2. \A e \in Elements : Assembled(e)' <=> Assembled(e)
    <3> SUFFICES ASSUME NEW e \in Elements PROVE Assembled(e)' <=> Assembled(e)
      OBVIOUS
    <3>1. Assembled(e)' <=> state'[pid[e]] \in {"STARTED", "FINISHED"} /\ e < at'[pid[e]]
      BY <1>2 DEF Assembled
    <3>2. CASE pid[e] = t
      BY <1>1, <1>3, <1>6, <3>1, <3>2 DEF Assembled
    <3>3. CASE pid[e] # t
      BY <1>3, <1>6, <3>1, <3>3 DEF Assembled
    <3> QED BY <3>2, <3>3
  <2>3. RowsInv'
    BY <1>1, <1>2, <2>1, <2>2 DEF RowsInv
  <2>4. \A u \in tasks_ : state'[u] # "INTERRUPTED"
    BY <1>3, <1>6, <2>1
  <2> QED BY <2>3, <2>4
<1>9. DofsInvalid => NothingInv'
  <2> SUFFICES ASSUME DofsInvalid PROVE NothingInv'
    OBVIOUS
  <2>1. NothingInv
    BY <1>1, <1>2 DEF WorkInv
  <2>2. \A u \in tasks_ : state'[u] # "PENDING" => at'[u] = 0
    BY <1>3, <1>6, <2>1 DEF NothingInv
  <2> QED BY <1>1, <1>2, <2>1, <2>2 DEF NothingInv
<1>10. WorkInv'
  BY <1>2, <1>7, <1>8, <1>9 DEF WorkInv
<1> QED BY <1>2, <1>4, <1>5, <1>10 DEF AssemblyInv

Smaller == {p \in Nat \X Nat : p[1] < p[2]}

LEMMA LeastIsIn == ASSUME NEW S \in SUBSET Nat, S # {}
                   PROVE  Least(S) \in S /\ \A y \in S : Least(S) <= y
<1>1. IsWellFoundedOn(Smaller, Nat)
  <2>1. OpToRel(<, Nat) = Smaller
    BY DEF OpToRel, Smaller
  <2> QED BY <2>1, NatLessThanWellFounded
<1>2. PICK x \in S : \A y \in S : ~(<<y, x>> \in Smaller)
  BY <1>1, WFMin
<1>3. \A y \in S : x \in Nat /\ y \in Nat /\ ~(y < x)
  BY <1>2 DEF Smaller
<1>4. \A y \in S : x <= y
  BY <1>3
<1> QED BY <1>4 DEF Least

LEMMA EndsKeeps == ASSUME AssemblyInv, NEW t \in Tasks, Ends(t) PROVE AssemblyInv'
<1>1. /\ state[t] = "STARTED" /\ ~(Left(t) # {} /\ HasDofs(Least(Left(t))))
      /\ state' = [state EXCEPT ![t] = IF Left(t) = {} THEN "FINISHED" ELSE "INTERRUPTED"]
      /\ UNCHANGED <<mesh, threads, client, waitingFor>> /\ UNCHANGED <<at, matrix, rhs>>
  BY DEF Ends
<1>2. /\ MeshInv /\ MeshInv' /\ ClientInv /\ TasksInv /\ WorkInv
      /\ pc = "built" /\ call = "assembling" /\ t \in tasks_
      /\ UNCHANGED <<nx, ny, pc, threads, call, pid, inserted, dof, n_dofs, bc, captured, filled,
                     assemblies, waitingFor>>
      /\ Elements' = Elements /\ tasks_' = tasks_ /\ Zero' = Zero
      /\ ThisLaplace' = ThisLaplace /\ Load(captured)' = Load(captured)
      /\ CallsInv' /\ WholeOrNothing'
      /\ DofsValid' = DofsValid /\ DofsInvalid' = DofsInvalid
  BY <1>1, TaskLeaves
<1>3. /\ state \in [Tasks -> {"PENDING", "STARTED", "FINISHED", "INTERRUPTED"}]
      /\ pid \in [Elements -> tasks_] /\ tasks_ \subseteq Tasks
      /\ \A e \in Elements : e \in Nat /\ e # Null
  BY <1>2, ElementsGiven, TasksGiven DEF TasksInv, ClientInv
<1>4. ClientInv'
  BY <1>1, <1>2 DEF ClientInv, Tasks
<1>5. /\ state'[t] = IF Left(t) = {} THEN "FINISHED" ELSE "INTERRUPTED"
      /\ \A u \in Tasks : u # t => state'[u] = state[u]
  BY <1>1, <1>3
<1>6. TasksInv'
  BY <1>1, <1>2, <1>3, <1>5 DEF TasksInv, Tasks
<1>7. \A u : Left(u)' = Left(u)
  BY <1>1, <1>2 DEF Left
<1>8. \A u \in tasks_ : state'[u] = "FINISHED" => Left(u)' = {}
  <2> SUFFICES ASSUME NEW u \in tasks_, state'[u] = "FINISHED" PROVE Left(u) = {}
    BY <1>7
  <2>1. CASE u = t
    BY <1>5, <2>1
  <2>2. CASE u # t
    BY <1>2, <1>3, <1>5, <2>2 DEF WorkInv
  <2> QED BY <2>1, <2>2
<1>9. DofsValid => RowsInv' /\ \A u \in tasks_ : state'[u] # "INTERRUPTED"
  <2> SUFFICES ASSUME DofsValid PROVE RowsInv' /\ \A u \in tasks_ : state'[u] # "INTERRUPTED"
    OBVIOUS
  <2>1. RowsInv /\ \A u \in tasks_ : state[u] # "INTERRUPTED"
    BY <1>2 DEF WorkInv
  <2>2. \A e \in Elements : HasDofs(e)
    <3> SUFFICES ASSUME NEW e \in Elements PROVE HasDofs(e)
      OBVIOUS
    <3>1. \A s \in NeighborSides(e) : neighbor[e][s] \in Elements
      <4>1. Sizes
        BY <1>2, SizesGiven DEF MeshInv, GridInv
      <4>2. NeighborSides(e) = {s \in Sides : Across(e, s) # Null}
        BY <1>2, InnerSides
      <4>3. \A s \in NeighborSides(e) : Across(e, s) \in Elements
        BY <4>1, <4>2, Partner
      <4>4. \A s \in NeighborSides(e) : neighbor[e][s] = Across(e, s)
        BY <1>2, <4>2, BuiltFaces
      <4> QED BY <4>3, <4>4
    <3> QED BY <1>3, <3>1 DEF HasDofs, DofsValid
  <2>3. Left(t) = {}
    <3> SUFFICES ASSUME Left(t) # {} PROVE FALSE
      OBVIOUS
    <3>1. Left(t) \in SUBSET Nat /\ Left(t) \subseteq Elements
      BY <1>3 DEF Left
    <3>2. Least(Left(t)) \in Elements
      BY <3>1, LeastIsIn
    <3> QED BY <1>1, <2>2, <3>2
  <2>4. state'[t] = "FINISHED"
    BY <1>5, <2>3
  <2>5. \A e \in Elements : Assembled(e)' <=> Assembled(e)
    <3> SUFFICES ASSUME NEW e \in Elements PROVE Assembled(e)' <=> Assembled(e)
      OBVIOUS
    <3>1. Assembled(e)' <=> state'[pid[e]] \in {"STARTED", "FINISHED"} /\ e < at[pid[e]]
      BY <1>1, <1>2 DEF Assembled
    <3>2. state'[pid[e]] \in {"STARTED", "FINISHED"} <=> state[pid[e]] \in {"STARTED", "FINISHED"}
      BY <1>1, <1>3, <1>5, <2>4
    <3> QED BY <3>1, <3>2 DEF Assembled
  <2>6. RowsInv'
    BY <1>1, <1>2, <2>1, <2>5 DEF RowsInv
  <2>7. \A u \in tasks_ : state'[u] # "INTERRUPTED"
    BY <1>3, <1>5, <2>1, <2>4
  <2> QED BY <2>6, <2>7
<1>10. DofsInvalid => NothingInv'
  <2> SUFFICES ASSUME DofsInvalid PROVE NothingInv'
    OBVIOUS
  <2>1. NothingInv
    BY <1>2 DEF WorkInv
  <2>2. \A u \in tasks_ : state'[u] # "PENDING" => at[u] = 0
    BY <1>1, <1>3, <1>5, <2>1 DEF NothingInv
  <2> QED BY <1>1, <1>2, <2>1, <2>2 DEF NothingInv
<1>11. WorkInv'
  BY <1>2, <1>8, <1>9, <1>10 DEF WorkInv
<1> QED BY <1>2, <1>4, <1>6, <1>11 DEF AssemblyInv

\* The element at the iterator gets its row and its load, from zero.
LEMMA AssembleElementKeeps ==
    ASSUME AssemblyInv, NEW t \in Tasks, AssembleElement(t) PROVE AssemblyInv'
<1>1. PICK e : e = Least(Left(t))
  OBVIOUS
<1>2. /\ state[t] = "STARTED" /\ Left(t) # {} /\ HasDofs(e)
      /\ matrix' = [matrix EXCEPT ![dof[e]] = Row(e)]
      /\ rhs' = [rhs EXCEPT ![dof[e]] = @ + (1 + FluxOf(e, DirichletSides(e)))]
      /\ at' = [at EXCEPT ![t] = e + 1]
      /\ UNCHANGED <<mesh, threads, client, state, waitingFor>>
      /\ UNCHANGED <<mesh, threads, client, waitingFor>> /\ state' = state
  BY <1>1 DEF AssembleElement, add
<1>3. /\ MeshInv /\ MeshInv' /\ ClientInv /\ TasksInv /\ WorkInv
      /\ pc = "built" /\ call = "assembling" /\ t \in tasks_
      /\ captured \in SUBSET (0 .. 3) /\ filled \in BOOLEAN /\ (filled <=> assemblies # 1)
      /\ UNCHANGED <<nx, ny, pc, threads, call, pid, inserted, dof, n_dofs, bc, captured, filled,
                     assemblies, waitingFor>>
      /\ Elements' = Elements /\ tasks_' = tasks_ /\ Zero' = Zero
      /\ ThisLaplace' = ThisLaplace /\ Load(captured)' = Load(captured)
      /\ CallsInv' /\ WholeOrNothing'
      /\ DofsValid' = DofsValid /\ DofsInvalid' = DofsInvalid
  BY <1>2, TaskLeaves
<1>4. /\ state \in [Tasks -> {"PENDING", "STARTED", "FINISHED", "INTERRUPTED"}]
      /\ at \in [Tasks -> 0 .. nx * ny] /\ pid \in [Elements -> tasks_]
      /\ matrix \in [Elements -> [Elements -> Int]] /\ rhs \in [Elements -> Nat]
      /\ tasks_ \subseteq Tasks /\ (DofsInvalid \/ DofsValid)
      /\ \A d \in Elements : d \in Nat /\ d # Null /\ d + 1 \in 0 .. nx * ny
  BY <1>3, ElementsGiven, TasksGiven DEF TasksInv, ClientInv
<1>5. /\ e \in Elements /\ pid[e] = t /\ e >= at[t]
      /\ \A d \in Elements : pid[d] = t /\ d >= at[t] => e <= d
  <2>1. Left(t) \in SUBSET Nat
    BY <1>4 DEF Left
  <2>2. e \in Left(t) /\ \A d \in Left(t) : e <= d
    BY <1>1, <1>2, <2>1, LeastIsIn
  <2> QED BY <2>2 DEF Left
<1>6. DofsValid /\ ~DofsInvalid /\ dof[e] = e
  BY <1>2, <1>4, <1>5 DEF HasDofs, DofsValid, DofsInvalid
<1>7. RowsInv /\ \A u \in tasks_ : state[u] # "INTERRUPTED"
  BY <1>3, <1>6 DEF WorkInv
<1>8. ~Assembled(e)
  <2>1. at[t] \in Nat /\ e \in Nat
    BY <1>4, <1>5
  <2> QED BY <1>5, <2>1 DEF Assembled
<1>9. matrix[e] = Zero[e] /\ rhs[e] = 0
  BY <1>5, <1>7, <1>8 DEF RowsInv
<1>10. /\ Row(e) = ThisLaplace[e] /\ Row(e) \in [Elements -> Int]
       /\ 1 + FluxOf(e, DirichletSides(e)) = Load(captured)[e]
       /\ Load(captured)[e] \in Nat
  BY <1>3, <1>5, <1>6, <1>9, RowIsLaplace
<1>11. /\ matrix'[e] = ThisLaplace[e] /\ matrix' \in [Elements -> [Elements -> Int]]
       /\ \A d \in Elements : d # e => matrix'[d] = matrix[d]
  BY <1>2, <1>4, <1>5, <1>6, <1>10
<1>12. rhs' = [rhs EXCEPT ![e] = @ + Load(captured)[e]]
  BY <1>2, <1>6, <1>10
<1>13. /\ rhs'[e] = Load(captured)[e] /\ rhs' \in [Elements -> Nat]
       /\ \A d \in Elements : d # e => rhs'[d] = rhs[d]
  <2>1. rhs'[e] = 0 + Load(captured)[e]
    BY <1>4, <1>5, <1>9, <1>12
  <2>2. rhs'[e] = Load(captured)[e]
    BY <1>10, <2>1
  <2>3. PICK x \in Nat : x = Load(captured)[e]
    BY <1>10
  <2>4. rhs' = [rhs EXCEPT ![e] = @ + x]
    BY <1>12, <2>3
  <2>5. rhs' \in [Elements -> Nat] /\ \A d \in Elements : d # e => rhs'[d] = rhs[d]
    BY <1>4, <1>5, <2>4
  <2> QED BY <2>2, <2>5
<1>14. /\ at'[t] = e + 1 /\ at' \in [Tasks -> 0 .. nx * ny]
       /\ \A u \in Tasks : u # t => at'[u] = at[u]
  <2>1. e + 1 \in 0 .. nx * ny
    BY <1>4, <1>5
  <2> QED BY <1>2, <1>4, <2>1
<1>15. ClientInv'
  <2>1. /\ threads' \in 1 .. MaxThreads /\ call' \in {"idle", "assembling"} /\ pid' \in [Elements' -> tasks_']
        /\ (DofsInvalid' \/ DofsValid') /\ n_dofs' \in {0, nx' * ny'}
        /\ bc' \in BCs /\ captured' \in BCs \union {Null}
    BY <1>3 DEF ClientInv
  <2>2. at' \in [Tasks' -> 0 .. nx' * ny']
    BY <1>3, <1>14 DEF Tasks
  <2>3. matrix' \in [Elements' -> [Elements' -> Int]] /\ rhs' \in [Elements' -> Nat]
    BY <1>3, <1>11, <1>13
  <2>4. DofsInvalid' \/ DofsValid'
    BY <1>3, <1>4
  <2>5. n_dofs' \in {0, nx' * ny'}
    BY <1>3 DEF ClientInv
  <2> QED BY <2>1, <2>2, <2>3, <2>4, <2>5 DEF ClientInv
<1>16. TasksInv'
  BY <1>2, <1>3 DEF TasksInv, Tasks
<1>17. \A u \in tasks_ : state'[u] = "FINISHED" => Left(u)' = {}
  <2> SUFFICES ASSUME NEW u \in tasks_, state'[u] = "FINISHED" PROVE Left(u)' = {}
    OBVIOUS
  <2>1. u \in Tasks /\ state[u] = "FINISHED"
    BY <1>2, <1>4
  <2>3. u # t /\ Left(u) = {}
    BY <1>2, <1>3, <2>1 DEF WorkInv
  <2>2. Left(u)' = {d \in Elements : pid[d] = u /\ d >= at'[u]}
    BY <1>3 DEF Left
  <2> QED BY <1>14, <2>1, <2>2, <2>3 DEF Left
<1>18. \A d \in Elements : Assembled(d)' <=> Assembled(d) \/ d = e
  <2> SUFFICES ASSUME NEW d \in Elements PROVE Assembled(d)' <=> Assembled(d) \/ d = e
    OBVIOUS
  <2>1. Assembled(d)' <=> state[pid[d]] \in {"STARTED", "FINISHED"} /\ d < at'[pid[d]]
    BY <1>2, <1>3 DEF Assembled
  <2>2. CASE pid[d] = t
    <3>1. d \in Nat /\ e \in Nat /\ at[t] \in Nat
      BY <1>4, <1>5
    <3>2. d < e + 1 <=> d < at[t] \/ d = e
      BY <1>5, <2>2, <3>1
    <3> QED BY <1>2, <1>14, <2>1, <2>2, <3>2 DEF Assembled
  <2>3. CASE pid[d] # t
    <3>1. pid[d] \in Tasks
      BY <1>4
    <3>2. d # e
      BY <1>5, <2>3
    <3> QED BY <1>14, <2>1, <2>3, <3>1, <3>2 DEF Assembled
  <2> QED BY <2>2, <2>3
<1>19. RowsInv'
  <2>1. ASSUME NEW d \in Elements
        PROVE  IF Assembled(d)' THEN matrix'[d] = ThisLaplace[d] /\ rhs'[d] = Load(captured)[d]
               ELSE matrix'[d] = Zero[d] /\ rhs'[d] = 0
    <3>1. CASE d = e
      BY <1>11, <1>13, <1>18, <3>1
    <3>2. CASE d # e
      BY <1>7, <1>11, <1>13, <1>18, <3>2 DEF RowsInv
    <3> QED BY <3>1, <3>2
  <2> QED BY <1>3, <2>1 DEF RowsInv
<1>20. WorkInv'
  <2>1. \A u \in tasks_ : state'[u] # "INTERRUPTED"
    BY <1>2, <1>7
  <2> QED BY <1>3, <1>6, <1>17, <1>19, <2>1 DEF WorkInv
<1> QED BY <1>3, <1>15, <1>16, <1>20 DEF AssemblyInv

LEMMA NothingMoves == ASSUME AssemblyInv, UNCHANGED vars PROVE AssemblyInv'
<1>1. /\ UNCHANGED <<mesh, threads, client, waitingFor>>
      /\ UNCHANGED <<call, pid, inserted, dof, n_dofs, bc, captured, filled, assemblies>>
      /\ UNCHANGED <<state, at, matrix, rhs>>
  BY DEF vars, client
<1>2. UNCHANGED <<nx, ny, pc>> /\ Elements' = Elements /\ tasks_' = tasks_ /\ Zero' = Zero
  BY <1>1, SameRectangle DEF mesh, tasks_, Zero
<1>3. ThisLaplace' = ThisLaplace /\ Load(captured)' = Load(captured)
  BY <1>1, SameSystem
<1>4. MeshInv /\ ClientInv /\ CallsInv /\ TasksInv /\ WorkInv /\ WholeOrNothing
  BY DEF AssemblyInv
<1>5. MeshInv' /\ CallsInv' /\ TasksInv'
  BY <1>1, <1>2, <1>4, MeshStays DEF CallsInv, TasksInv, Tasks
<1>6. DofsValid' = DofsValid /\ DofsInvalid' = DofsInvalid
  BY <1>1, <1>2 DEF DofsValid, DofsInvalid
<1>7. ClientInv'
  BY <1>1, <1>2, <1>4, <1>6 DEF ClientInv, Tasks
<1>8. (\A u : Left(u)' = Left(u)) /\ (\A e : Assembled(e)' = Assembled(e))
  BY <1>1, <1>2 DEF Left, Assembled
<1>9. RowsInv' = RowsInv /\ NothingInv' = NothingInv
  BY <1>1, <1>2, <1>3, <1>8 DEF RowsInv, NothingInv
<1>10. WorkInv'
  BY <1>1, <1>2, <1>4, <1>6, <1>8, <1>9 DEF WorkInv
<1>11. WholeOrNothing'
  BY <1>1, <1>2, <1>3, <1>4 DEF WholeOrNothing, ThisLaplace
<1> QED BY <1>5, <1>7, <1>10, <1>11 DEF AssemblyInv

LEMMA AssemblyNext == ASSUME AssemblyInv, [FVNext]_vars PROVE AssemblyInv'
<1>1. CASE BuildMesh
  BY <1>1, BuildMeshKeeps
<1>2. CASE Partition
  BY <1>2, PartitionKeeps
<1>3. CASE DistributeDofs
  BY <1>3, DistributeDofsKeeps
<1>4. CASE Assemble
  BY <1>4, AssembleKeeps
<1>5. CASE Return
  BY <1>5, ReturnKeeps
<1>6. ASSUME NEW b \in BCs, SetBoundaryFunction(b) PROVE AssemblyInv'
  BY <1>6, SetBoundaryFunctionKeeps
<1>7. ASSUME NEW t \in Tasks, Task(t) PROVE AssemblyInv'
  <2>1. CASE Begin(t)
    BY <2>1, BeginKeeps
  <2>2. CASE AssembleElement(t)
    BY <2>2, AssembleElementKeeps
  <2>3. CASE Ends(t)
    BY <2>3, EndsKeeps
  <2> QED BY <1>7, <2>1, <2>2, <2>3 DEF Task
<1>8. CASE UNCHANGED vars
  BY <1>8, NothingMoves
<1> QED BY <1>1, <1>2, <1>3, <1>4, <1>5, <1>6, <1>7, <1>8 DEF FVNext

LEMMA AssemblyAlways == FVSpec => []AssemblyInv
  BY InitAssembly, AssemblyNext, PTL DEF FVSpec

\* The mesh is right while it is built and after, the state of the assembly
\* has its types, and nobody writes into the matrix or the right hand side
\* once assemble_system has returned.
THEOREM AssemblyIsSafe == FVSpec => []FVInv
<1>1. AssemblyInv => FVInv
  <2> SUFFICES ASSUME AssemblyInv PROVE FVInv
    OBVIOUS
  <2>1. MeshInv /\ ClientInv /\ TasksInv
    BY DEF AssemblyInv
  <2>2. Inv
    BY <2>1, MeshIsRight
  <2>3. Cardinality(Elements) = nx * ny
    BY <2>1, ElementsGiven
  <2>4. dof \in [Elements -> Ids(Elements)]
    <3>1. CASE DofsInvalid
      BY <3>1 DEF DofsInvalid, Ids
    <3>2. CASE DofsValid
      BY <3>2 DEF DofsValid, Ids
    <3> QED BY <2>1, <3>1, <3>2 DEF ClientInv
  <2>5. FVTypeOK
    BY <2>1, <2>3, <2>4 DEF FVTypeOK, ClientInv
  <2>6. QuietWhenIdle
    BY <2>1 DEF QuietWhenIdle, TasksInv
  <2> QED BY <2>2, <2>5, <2>6 DEF FVInv
<1> QED BY <1>1, AssemblyAlways, PTL

\* Whatever the order in which the tasks have run, what assemble_system leaves
\* is the whole system of the mesh, or nothing where the dofs were invalid.
THEOREM SystemIsWhole == FVSpec => []WholeOrNothing
<1>1. AssemblyInv => WholeOrNothing
  BY DEF AssemblyInv
<1> QED BY <1>1, AssemblyAlways, PTL

\* linear_mesh_partition gives every element to a task of the executor, and
\* leaves no task without an element when there are as many.
THEOREM LoadsGoRound == FVSpec => LoadsAreShared
<1>1. ASSUME AssemblyInv, [FVNext]_vars
      PROVE  [Partition => /\ \A e \in Elements : pid'[e] \in tasks_
                           /\ threads <= Cardinality(Elements) =>
                                \A t \in tasks_ : \E e \in Elements : pid'[e] = t]_vars
  <2>1. ASSUME Partition
        PROVE  /\ \A e \in Elements : pid'[e] \in tasks_
               /\ threads <= Cardinality(Elements) =>
                    \A t \in tasks_ : \E e \in Elements : pid'[e] = t
    <3>1. MeshInv /\ threads \in 1 .. MaxThreads
      BY <1>1 DEF AssemblyInv, ClientInv
    <3>2. pid' = linear_mesh_partition(threads)
      BY <2>1 DEF Partition
    <3> QED BY <3>1, <3>2, PartitionIsFair
  <2> QED BY <2>1
<1> QED BY <1>1, AssemblyAlways, PTL DEF FVSpec, LoadsAreShared

=============================================================================

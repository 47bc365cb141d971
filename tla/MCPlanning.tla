----------------------------- MODULE MCPlanning -----------------------------
(* Instances of Planning for TLC: six cells of side 10, a position between   *)
(* two of them and one outside, with the distances rounded down.             *)
EXTENDS Planning, TLC

Cells == <<"c00", "c10", "c20", "c01", "c11", "c21">>
Place == [c00 |-> <<0, 0>>, c10 |-> <<10, 0>>, c20 |-> <<20, 0>>, c01 |-> <<0, 10>>,
          c11 |-> <<10, 10>>, c21 |-> <<20, 10>>, between |-> <<5, 0>>, outside |-> <<0, 90>>]
Root == 0 :> 0 @@ 25 :> 5 @@ 100 :> 10 @@ 125 :> 11 @@ 200 :> 14 @@ 225 :> 15
        @@ 325 :> 18 @@ 400 :> 20 @@ 500 :> 22
Apart(p, q) == IF p = q THEN 0
               ELSE IF "outside" \in {p, q} THEN 90
               ELSE Root[(Place[p][1] - Place[q][1]) * (Place[p][1] - Place[q][1])
                         + (Place[p][2] - Place[q][2]) * (Place[p][2] - Place[q][2])]
Euclid == [p \in DOMAIN Place |-> [q \in DOMAIN Place |-> Apart(p, q)]]

Grid == {{1, 2}, {2, 3}, {4, 5}, {5, 6}, {1, 4}, {2, 5}, {3, 6}}
GridMaps == {[pos |-> Cells, edges |-> Grid, blocked |-> b] :
               b \in {{}, {2}, {2, 5}, {2, 6}}}
AllMaps == GridMaps \cup
    {[pos |-> Cells, edges |-> Grid \cup {{1, 5}, {1, 6}, {3, 5}}, blocked |-> {2}]}
AllPoints == DOMAIN Place
=============================================================================

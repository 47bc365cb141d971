------------------------------ MODULE MCKMeans ------------------------------
(* Instances of KMeans for TLC.                                              *)
EXTENDS KMeans

\* Every data set of four rows, at whole steps from each other, with a unit that
\* two, three and four divide, and again for the halves of a cluster.
FourRows == [1 .. 4 -> {12 * i : i \in {0, 1, 3}}]
=============================================================================

--------------------------- MODULE MCPathFollowing ---------------------------
(* Instances of PathFollowing for TLC: how building a path may end, and four *)
(* positions, two of them far from the goal with a near one between them.    *)
EXTENDS PathFollowing

AllOutcomes == {"path", "throws", "endless"}

Corners == {0, 1}
NearGoal == {[f \in Fields |-> 1]}
AtStart == [f \in Fields |-> 0]
=============================================================================

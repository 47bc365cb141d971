--------------------------- MODULE MCTaskAlgorithm ---------------------------
(* Instances of TaskAlgorithm for TLC: the classes, how tasks end and what   *)
(* is called.                                                                *)
EXTENDS TaskAlgorithm

AllAlgos == {"DotProduct", "MatVecProduct", "VectorUpdater"}
BothEnds == {"FINISHED", "INTERRUPTED"}
AllCalls == {"execute", "reexecute", "set_vectors", "get_or_wait"}
=============================================================================

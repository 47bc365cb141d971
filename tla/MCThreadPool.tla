---------------------------- MODULE MCThreadPool ----------------------------
(* Instances of ThreadPool for TLC: the ways a task's run() can end.  The    *)
(* two interrupted states differ in nothing but their name.                  *)
EXTENDS ThreadPool

TwoEnds == {"FINISHED", "INTERRUPTED_BY_EXCEPTION"}
OneEnd == {"FINISHED"}
=============================================================================

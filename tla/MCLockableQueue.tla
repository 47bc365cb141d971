-------------------------- MODULE MCLockableQueue --------------------------
(* Instances of LockableQueue for TLC: empty ranges, which push_items        *)
(* ignores, ranges of one element and ranges of two.                         *)
EXTENDS LockableQueue

Ranges == {0, 1, 2}
=============================================================================

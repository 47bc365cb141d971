--------------------------- MODULE MCVehicleServer ---------------------------
(* Instances of VehicleServer for TLC: the lines that are entered, and two   *)
(* of the four numbers of the state, which show every mix.                  *)
EXTENDS VehicleServer

AllKinds == {"CMD", "PRINT", "EXIT", "EXIT_REST", "other"}
TwoNumbers == {"theta", "velocity"}
=============================================================================

---------------------------- MODULE MCFVAssembly ----------------------------
(* Instances of FVAssembly for TLC.                                          *)
EXTENDS FVAssembly

\* ScalarDirichletBCFunc, and a function with two sides of no flux.
TwoBCs == {0 .. 3, {0, 3}}
=============================================================================

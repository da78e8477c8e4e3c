------------------------------ MODULE MCMemory ------------------------------
(***************************************************************************)
(* An instance of Memory for TLC.  Keys are interchangeable, contents are  *)
(* not: they differ in size.                                               *)
(***************************************************************************)
EXTENDS Memory, TLC

Symmetry == Permutations(Key)
=============================================================================

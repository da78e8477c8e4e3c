------------------------------ MODULE MCDBase ------------------------------
(***************************************************************************)
(* Instances of DBase for TLC.  Keys and contents are interchangeable.     *)
(***************************************************************************)
EXTENDS DBase, TLC

Symmetry == Permutations(Key) \cup Permutations(Val)
=============================================================================

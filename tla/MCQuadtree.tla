----------------------------- MODULE MCQuadtree -----------------------------
(***************************************************************************)
(* Instances of Quadtree for TLC: places at the corners of the globe, on   *)
(* both sides of the antimeridian, on the edges where nodes meet, and one  *)
(* out of range.                                                           *)
(***************************************************************************)
EXTENDS Quadtree, TLC

At(lon, lat) == [lon |-> lon, lat |-> lat]

MCPosition  == {At(0, 3), At(2, 1), At(4, 4), At(5, 1)}
MCTwoPlaces == {At(0, 0), At(2, 2)}
MCCenters   == {At(0, 0), At(3, 4), At(2, 2), At(-1, 3)}

Symmetry == Permutations(Member)
=============================================================================

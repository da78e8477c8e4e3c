----------------------------- MODULE GeoObject -----------------------------
(***************************************************************************)
(* A geo object (core/types/Geo.h): the map from members to coordinates    *)
(* and, beside it, a spatial index of (name, coordinates) entries that     *)
(* GEOSEARCH answers from.  The index is told only coordinates when an     *)
(* entry has to go, so with two members in one place it may drop the entry *)
(* of the other.  How the index stores its entries is Quadtree's business: *)
(* here index[<<m, p>>] is how many entries it has for m at p.             *)
(***************************************************************************)
EXTENDS Integers

CONSTANTS
  Member,     \* names
  Position,   \* coordinates, some of them perhaps out of range
  InRange,    \* those in [-180, 180] x [-90, 90]: the others are not indexed
  NoPos       \* points[m] when m is not a member

VARIABLES
  points,  \* member -> coordinates
  index,   \* spatial_index_: how many entries there are for a name at a place
  shared,  \* history: two members were in one place, and it was indexed
  missed   \* history: members whose entry there was no memory for

vars == <<points, index, shared, missed>>

(* What is asked of the constants. *)
GeoAssumption ==
  /\ InRange \subseteq Position
  /\ NoPos \notin Position

Init == /\ points = [m \in Member |-> NoPos]
        /\ index = [e \in Member \X Position |-> 0]
        /\ shared = FALSE
        /\ missed = {}

(* What the index may be after some entry at p was taken out. *)
Removals(p) ==
  LET found == {e \in Member \X Position : e[2] = p /\ index[e] > 0}
  IN IF found = {} THEN {index} ELSE {[index EXCEPT ![e] = index[e] - 1] : e \in found}

Inserted(idx, m, p) ==
  IF p \in InRange THEN [idx EXCEPT ![<<m, p>>] = idx[<<m, p>>] + 1] ELSE idx

Free(m, p) == \A o \in Member \ {m} : points[o] # p

(* A member is put at p, and its old entry taken out. *)
Put(m, p) ==
  /\ points' = [points EXCEPT ![m] = p]
  /\ shared' = (shared \/ (p \in InRange /\ ~Free(m, p)))

Remaining(m) == IF points[m] = NoPos THEN {index} ELSE Removals(points[m])

(* GEOADD of one member: a member that is there is moved. *)
Add(m, p) ==
  /\ Put(m, p)
  /\ \E idx \in Remaining(m) : index' = Inserted(idx, m, p)
  /\ missed' = missed \ {m}

(* There is no memory for the new entry; the rest has been done by then. *)
AddFails(m, p) ==
  /\ p \in InRange
  /\ Put(m, p)
  /\ index' \in Remaining(m)
  /\ missed' = missed \cup {m}

(***************************************************************************)
(* GEOSEARCHSTORE onto itself: some members are put into a new object, one *)
(* after the other and perhaps twice.  Those with a place of their own are *)
(* indexed there once; of those that share one an entry may stand for      *)
(* another.                                                                *)
(***************************************************************************)
There(S, p) == {m \in S : points[m] = p}

Store(S) ==
  /\ points' = [m \in Member |-> IF m \in S THEN points[m] ELSE NoPos]
  /\ index' \in [Member \X Position -> Nat]
  /\ \A m \in Member, p \in Position :
       /\ index'[<<m, p>>] > 0 => p \in InRange /\ m \in There(S, p)
       /\ p \in InRange /\ There(S, p) = {m} => index'[<<m, p>>] = 1
  /\ shared' = \E m, o \in Member : m # o /\ points'[m] \in InRange /\ points'[m] = points'[o]
  /\ missed' = {}

Next == \/ \E m \in Member, p \in Position : Add(m, p) \/ AddFails(m, p)
        \/ \E S \in SUBSET Member : (\A m \in S : points[m] # NoPos) /\ Store(S)

Spec == Init /\ [][Next]_vars

-----------------------------------------------------------------------------
(* Types: counts of entries. *)
TypeOK == /\ points \in [Member -> Position \cup {NoPos}]
          /\ index \in [Member \X Position -> Nat]
          /\ shared \in BOOLEAN
          /\ missed \subseteq Member

(***************************************************************************)
(* As long as no two members were in one place, the index has one entry    *)
(* for each member, at its coordinates, and no other: what GEOSEARCH finds *)
(* is what GEOPOS knows.  Geo.h:46-59 keeps the two in step by hand, and   *)
(* takes the old entry out by its coordinates.  If there is no memory for  *)
(* an entry it is that member alone that is not found, and only until it   *)
(* is added again.                                                         *)
(***************************************************************************)
Indexed(m, p) == points[m] = p /\ p \in InRange /\ m \notin missed

IndexMatchesPoints ==
  \A m \in Member, p \in Position : index[<<m, p>>] = IF Indexed(m, p) THEN 1 ELSE 0

IndexIsExact == ~shared => IndexMatchesPoints

(* What makes it inductive: the old place of a member is its own. *)
Apart == \A m, o \in Member : m # o /\ points[m] \in InRange => points[o] # points[m]

IInv == TypeOK /\ (~shared => IndexMatchesPoints /\ Apart)
=============================================================================

-------------------------- MODULE GeoObjectProofs --------------------------
(***************************************************************************)
(* Theorems about GeoObject for every set of members and places of which   *)
(* GeoAssumption holds.                                                    *)
(***************************************************************************)
EXTENDS GeoObject, TLAPS

-----------------------------------------------------------------------------
(* An exact index has at most one entry at a member's place: its own. *)
LEMMA OwnEntryOnly ==
  ASSUME IInv, ~shared, NEW m \in Member, points[m] \in InRange,
         NEW e \in Member \X Position, e[2] = points[m], index[e] > 0
  PROVE  e = <<m, points[m]>>
<1>1. PICK o \in Member, p \in Position : e = <<o, p>>
  OBVIOUS
<1>2. p = points[m] /\ index[<<o, p>>] > 0
  BY <1>1
<1>3. points[o] = p
  BY <1>2 DEF IInv, IndexMatchesPoints, Indexed
<1>4. o = m
  BY <1>2, <1>3 DEF IInv, Apart
<1> QED BY <1>1, <1>2, <1>4

(* Taking out an entry at a member's place takes out the member's entry, or
   nothing if it has none. *)
LEMMA RemovalIsExact ==
  ASSUME IInv, ~shared, NEW m \in Member, points[m] # NoPos,
         NEW idx \in Removals(points[m])
  PROVE  /\ idx \in [Member \X Position -> Nat]
         /\ \A o \in Member, p \in Position :
              idx[<<o, p>>] = IF o # m /\ Indexed(o, p) THEN 1 ELSE 0
<1> DEFINE old   == points[m]
           found == {e \in Member \X Position : e[2] = old /\ index[e] > 0}
<1>0. old \in Position /\ index \in [Member \X Position -> Nat]
  BY DEF IInv, TypeOK
<1>1. CASE Indexed(m, old)
  <2>0. old \in InRange
    BY <1>1 DEF Indexed
  <2>1. index[<<m, old>>] = 1
    BY <1>0, <1>1 DEF IInv, IndexMatchesPoints
  <2>2. found = {<<m, old>>}
    BY <1>0, <2>0, <2>1, OwnEntryOnly
  <2>3. idx = [index EXCEPT ![<<m, old>>] = 0]
    BY <2>1, <2>2 DEF Removals
  <2>4. ASSUME NEW o \in Member, NEW p \in Position
        PROVE  idx[<<o, p>>] = IF o # m /\ Indexed(o, p) THEN 1 ELSE 0
    <3>1. CASE o = m /\ p = old
      BY <1>0, <2>3, <3>1
    <3>2. CASE o = m /\ p # old
      BY <1>0, <2>3, <3>2 DEF IInv, IndexMatchesPoints, Indexed
    <3>3. CASE o # m
      BY <1>0, <2>3, <3>3 DEF IInv, IndexMatchesPoints
    <3> QED BY <3>1, <3>2, <3>3
  <2> QED BY <1>0, <2>3, <2>4
<1>2. CASE ~Indexed(m, old)
  <2>1. ASSUME NEW e \in found PROVE FALSE
    <3>1. PICK o \in Member : e = <<o, old>> /\ index[<<o, old>>] > 0
      BY <1>0
    <3>2. Indexed(o, old)
      BY <1>0, <3>1 DEF IInv, IndexMatchesPoints
    <3>3. old \in InRange
      BY <3>2 DEF Indexed
    <3>4. o = m
      BY <3>1, <3>3, OwnEntryOnly
    <3> QED BY <1>2, <3>2, <3>4
  <2>2. found = {}
    BY <2>1
  <2>3. idx = index
    BY <2>2 DEF Removals
  <2>4. \A p \in Position : ~Indexed(m, p)
    BY <1>2 DEF Indexed
  <2> QED BY <1>0, <2>3, <2>4 DEF IInv, IndexMatchesPoints
<1> QED BY <1>1, <1>2

LEMMA RemovalType ==
  ASSUME TypeOK, NEW p, NEW idx \in Removals(p)
  PROVE  idx \in [Member \X Position -> Nat]
<1> DEFINE found == {e \in Member \X Position : e[2] = p /\ index[e] > 0}
<1>1. CASE found = {}
  BY <1>1 DEF Removals, TypeOK
<1>2. CASE found # {}
  <2>1. PICK e \in found : idx = [index EXCEPT ![e] = index[e] - 1]
    BY <1>2 DEF Removals
  <2>2. index[e] - 1 \in Nat
    BY DEF TypeOK
  <2> QED BY <2>1, <2>2 DEF TypeOK
<1> QED BY <1>1, <1>2

(* What remains when a member is to be moved: the entries of the others. *)
LEMMA RemainingIsExact ==
  ASSUME GeoAssumption, IInv, ~shared, NEW m \in Member, NEW idx \in Remaining(m)
  PROVE  \A o \in Member, p \in Position :
           idx[<<o, p>>] = IF o # m /\ Indexed(o, p) THEN 1 ELSE 0
<1>1. CASE points[m] = NoPos
  BY <1>1, ZenonT(60) DEF Remaining, GeoAssumption, IInv, IndexMatchesPoints, Indexed
<1>2. CASE points[m] # NoPos
  BY <1>2, RemovalIsExact DEF Remaining
<1> QED BY <1>1, <1>2

LEMMA RemainingType ==
  ASSUME TypeOK, NEW m, NEW idx \in Remaining(m)
  PROVE  idx \in [Member \X Position -> Nat]
BY RemovalType DEF Remaining, TypeOK

(* Where the members are, after one has been put somewhere. *)
LEMMA PutStep ==
  ASSUME TypeOK, NEW m \in Member, NEW p \in Position, Put(m, p)
  PROVE  /\ points' \in [Member -> Position \cup {NoPos}]
         /\ points'[m] = p
         /\ \A o \in Member \ {m} : points'[o] = points[o]
         /\ shared' \in BOOLEAN
         /\ ~shared' => ~shared /\ (p \in InRange => Free(m, p))
BY DEF Put, TypeOK

LEMMA PutKeepsApart ==
  ASSUME IInv, NEW m \in Member, NEW p \in Position, Put(m, p), ~shared'
  PROVE  Apart'
<1>1. TypeOK /\ Apart
  BY PutStep DEF IInv
<1> QED BY <1>1, PutStep DEF Apart, Free

LEMMA AddStep ==
  ASSUME GeoAssumption, IInv, NEW m \in Member, NEW p \in Position, Add(m, p)
  PROVE  IInv'
<1>1. PICK idx \in Remaining(m) : index' = Inserted(idx, m, p)
  BY DEF Add
<1>2. Put(m, p) /\ missed' = missed \ {m}
  BY DEF Add
<1>3. TypeOK /\ idx \in [Member \X Position -> Nat]
  BY <1>1, RemainingType DEF IInv
<1>4. TypeOK'
  <2>1. index' \in [Member \X Position -> Nat]
    <3>1. idx[<<m, p>>] + 1 \in Nat
      BY <1>3
    <3> QED BY <1>1, <1>3, <3>1 DEF Inserted
  <2>2. missed' \subseteq Member
    BY <1>2, <1>3 DEF TypeOK
  <2> QED BY <1>2, <1>3, <2>1, <2>2, PutStep DEF TypeOK
<1>5. ASSUME ~shared', NEW o \in Member, NEW r \in Position
      PROVE  index'[<<o, r>>] = IF Indexed(o, r)' THEN 1 ELSE 0
  <2>1. idx[<<o, r>>] = IF o # m /\ Indexed(o, r) THEN 1 ELSE 0
    BY <1>1, <1>2, <1>3, <1>5, PutStep, RemainingIsExact
  <2>2. CASE o # m
    <3>1. index'[<<o, r>>] = idx[<<o, r>>]
      BY <1>1, <1>3, <2>2 DEF Inserted
    <3>2. Indexed(o, r)' <=> Indexed(o, r)
      BY <1>2, <1>3, <2>2, PutStep DEF Indexed
    <3> QED BY <2>1, <2>2, <3>1, <3>2
  <2>3. CASE o = m /\ r = p /\ p \in InRange
    <3>1. index'[<<o, r>>] = 1
      BY <1>1, <1>3, <2>1, <2>3 DEF Inserted
    <3>2. Indexed(o, r)'
      BY <1>2, <1>3, <2>3, PutStep DEF Indexed
    <3> QED BY <3>1, <3>2
  <2>4. CASE o = m /\ ~(r = p /\ p \in InRange)
    <3>1. index'[<<o, r>>] = 0
      BY <1>1, <1>3, <2>1, <2>4 DEF Inserted
    <3>2. ~Indexed(o, r)'
      BY <1>2, <1>3, <2>4, PutStep DEF Indexed
    <3> QED BY <3>1, <3>2
  <2> QED BY <2>2, <2>3, <2>4
<1> QED BY <1>2, <1>4, <1>5, PutKeepsApart DEF IInv, IndexMatchesPoints

(* A failed insertion costs the entry of the member itself. *)
LEMMA AddFailsStep ==
  ASSUME GeoAssumption, IInv, NEW m \in Member, NEW p \in Position, AddFails(m, p)
  PROVE  IInv'
<1>1. Put(m, p) /\ index' \in Remaining(m) /\ missed' = missed \cup {m}
  BY DEF AddFails
<1>2. TypeOK /\ index' \in [Member \X Position -> Nat]
  BY <1>1, RemainingType DEF IInv
<1>3. TypeOK'
  <2>1. missed' \subseteq Member
    BY <1>1, <1>2 DEF TypeOK
  <2> QED BY <1>1, <1>2, <2>1, PutStep DEF TypeOK
<1>4. ASSUME ~shared', NEW o \in Member, NEW r \in Position
      PROVE  index'[<<o, r>>] = IF Indexed(o, r)' THEN 1 ELSE 0
  <2>1. index'[<<o, r>>] = IF o # m /\ Indexed(o, r) THEN 1 ELSE 0
    BY <1>1, <1>2, <1>4, PutStep, RemainingIsExact
  <2>2. Indexed(o, r)' <=> o # m /\ Indexed(o, r)
    BY <1>1, <1>2, PutStep DEF Indexed
  <2> QED BY <2>1, <2>2
<1> QED BY <1>1, <1>3, <1>4, PutKeepsApart DEF IInv, IndexMatchesPoints

(* A stored object is exact, if each of its members has its own place. *)
LEMMA StoreStep ==
  ASSUME GeoAssumption, NEW S \in SUBSET Member, \A m \in S : points[m] # NoPos,
         TypeOK, Store(S)
  PROVE  IInv'
<1>1. /\ points' = [m \in Member |-> IF m \in S THEN points[m] ELSE NoPos]
      /\ index' \in [Member \X Position -> Nat]
      /\ shared' = \E m, o \in Member :
                     m # o /\ points'[m] \in InRange /\ points'[m] = points'[o]
      /\ missed' = {}
  BY DEF Store
<1>2. TypeOK'
  BY <1>1 DEF TypeOK
<1>3. ASSUME ~shared' PROVE Apart'
  BY <1>1, <1>3 DEF Apart
<1>4. ASSUME ~shared', NEW m \in Member, NEW p \in Position
      PROVE  index'[<<m, p>>] = IF Indexed(m, p)' THEN 1 ELSE 0
  <2>1. /\ index'[<<m, p>>] > 0 => p \in InRange /\ m \in There(S, p)
        /\ p \in InRange /\ There(S, p) = {m} => index'[<<m, p>>] = 1
    BY DEF Store
  <2>2. /\ points'[m] = p <=> m \in There(S, p)
        /\ Indexed(m, p)' <=> points'[m] = p /\ p \in InRange
    BY <1>1 DEF There, GeoAssumption, Indexed
  <2>3. index'[<<m, p>>] \in Nat
    BY <1>1
  <2>4. CASE points'[m] = p /\ p \in InRange
    <3>1. ASSUME NEW o \in There(S, p) PROVE o = m
      <4>1. o \in Member /\ points'[o] = p
        BY <1>1 DEF There
      <4> QED BY <1>1, <1>4, <2>4, <4>1
    <3>2. There(S, p) = {m}
      BY <2>2, <2>4, <3>1
    <3> QED BY <2>1, <2>2, <2>4, <3>2
  <2>5. CASE ~(points'[m] = p /\ p \in InRange)
    BY <2>1, <2>2, <2>3, <2>5
  <2> QED BY <2>4, <2>5
<1> QED BY <1>2, <1>3, <1>4 DEF IInv, IndexMatchesPoints

(***************************************************************************)
(* As long as no two members were in one place, the index is exactly the   *)
(* map of members, but for those whose last insertion failed: removal by   *)
(* coordinates then removes the right entry, or none.                      *)
(***************************************************************************)
THEOREM ExactUnlessShared == ASSUME GeoAssumption PROVE Spec => []IndexIsExact
<1>1. Init => IInv
  <2> SUFFICES ASSUME Init PROVE IInv
    OBVIOUS
  <2>1. TypeOK
    BY DEF Init, TypeOK
  <2>2. ASSUME NEW m \in Member, NEW p \in Position
        PROVE  index[<<m, p>>] = 0 /\ points[m] # p
    BY DEF Init, GeoAssumption
  <2>3. IndexMatchesPoints
    BY <2>2 DEF IndexMatchesPoints, Indexed
  <2>4. Apart
    BY <2>2 DEF Apart, GeoAssumption
  <2> QED BY <2>1, <2>3, <2>4 DEF IInv
<1>2. IInv /\ [Next]_vars => IInv'
  <2>1. ASSUME IInv, UNCHANGED vars PROVE IInv'
    BY <2>1 DEF vars, IInv, TypeOK, IndexMatchesPoints, Indexed, Apart
  <2>2. ASSUME IInv, NEW m \in Member, NEW p \in Position, Add(m, p) PROVE IInv'
    BY <2>2, AddStep
  <2>3. ASSUME IInv, NEW m \in Member, NEW p \in Position, AddFails(m, p) PROVE IInv'
    BY <2>3, AddFailsStep
  <2>4. ASSUME IInv, NEW S \in SUBSET Member, \A m \in S : points[m] # NoPos, Store(S)
        PROVE  IInv'
    BY <2>4, StoreStep DEF IInv
  <2> QED BY <2>1, <2>2, <2>3, <2>4 DEF Next
<1>3. IInv => IndexIsExact
  BY DEF IInv, IndexIsExact
<1> QED BY <1>1, <1>2, <1>3, PTL DEF Spec
=============================================================================

------------------------------ MODULE Quadtree ------------------------------
(***************************************************************************)
(* The spatial index of a geo object (core/types/details/quadtree.h) with  *)
(* the object's own map: a tree of nodes in a vector, a node's four        *)
(* children side by side.  Leaves are split when full, never merged.       *)
(*                                                                         *)
(* The globe is a cylinder of integer coordinates: longitudes 0 .. Side    *)
(* with 0 and Side the same meridian, latitudes 0 .. Side, and plane       *)
(* distance in place of the Haversine formula (the cosine that widens the  *)
(* box is 1).  The smallest node (500 m) is given by its depth.            *)
(*                                                                         *)
(* GEOSEARCH and GEOSEARCHSTORE are here too: what they make of the        *)
(* entries the index finds.  Of objects in other keys the module knows     *)
(* nothing; a destination is the source itself.                            *)
(***************************************************************************)
EXTENDS Integers, Sequences, FiniteSets, SequencesExt

CONSTANTS
  Member, Position, NoPos,  \* of GeoObject; a position is [lon, lat]
  Side,       \* the side of the root node
  MaxPoints,  \* max_points_in_node_
  MaxDepth,   \* the depth at which nodes are too small to split
  Centers,    \* centers of searches, any longitude (runs only)
  Radii,      \* their radii,
  Counts,     \* and how many results they ask for, with 0 for any number
  MaxFailures \* bound of allocations that fail (runs only)

VARIABLES
  points,
  nodes_,  \* the tree; nodes_[1] is the root
  shared, missed,  \* history, as in GeoObject
  failures         \* and how many allocations have failed

vars == <<points, nodes_, shared, missed, failures>>

ASSUME QuadtreeAssumption ==
  /\ Side \in Nat \ {0} /\ MaxPoints \in Nat \ {0} /\ MaxDepth \in Nat
  /\ Side % 2 ^ MaxDepth = 0
  /\ Position \cup Centers \subseteq [lon : Int, lat : Int] /\ NoPos \notin Position
  /\ Radii \subseteq Nat /\ Counts \subseteq Nat

InRange == {p \in Position : p.lon \in 0 .. Side /\ p.lat \in 0 .. Side}

-----------------------------------------------------------------------------
Node(minLat, maxLat, minLon, maxLon, depth) ==
  [minLat |-> minLat, maxLat |-> maxLat, minLon |-> minLon, maxLon |-> maxLon,
   points |-> <<>>, first_child |-> 0, depth |-> depth]

(* Nodes are half open, but for the far edges of the root. *)
ContainsNode(n, p) ==
  /\ n.minLat <= p.lat /\ p.lat <= n.maxLat /\ (p.lat = n.maxLat => n.maxLat = Side)
  /\ n.minLon <= p.lon /\ p.lon <= n.maxLon /\ (p.lon = n.maxLon => n.maxLon = Side)

Children(ns, i) == ns[i].first_child .. ns[i].first_child + 3

(* The child to go on with: the first that contains p, or the first of all. *)
ChildFor(ns, i, p) ==
  LET here == {c \in Children(ns, i) : ContainsNode(ns[c], p)}
  IN IF here = {} THEN ns[i].first_child ELSE Min(here)

(* The four children of a node. *)
Quarters(n) ==
  LET midLat == (n.minLat + n.maxLat) \div 2
      midLon == (n.minLon + n.maxLon) \div 2
  IN << Node(n.minLat, midLat, n.minLon, midLon, n.depth + 1),
        Node(n.minLat, midLat, midLon, n.maxLon, n.depth + 1),
        Node(midLat, n.maxLat, n.minLon, midLon, n.depth + 1),
        Node(midLat, n.maxLat, midLon, n.maxLon, n.depth + 1) >>

(* Slips: the split node keeps its points, or they are lost. *)
SubdivideKeeps(ns, i) == [ns EXCEPT ![i].first_child = Len(ns) + 1] \o Quarters(ns[i])

SubdivideLoses(ns, i) ==
  [ns EXCEPT ![i].points = <<>>, ![i].first_child = Len(ns) + 1] \o Quarters(ns[i])

Holding(ns, i, s) == [ns EXCEPT ![i].points = s]

PushBack(ns, i, e) == Holding(ns, i, Append(ns[i].points, e))

(* The node's points go one by one to the children that contain them. *)
Subdivide(ns, i) ==
  FoldLeft(LAMBDA t, e : PushBack(t, ChildFor(t, i, e.pos), e),
           [ns EXCEPT ![i].points = <<>>, ![i].first_child = Len(ns) + 1] \o Quarters(ns[i]),
           ns[i].points)

(***************************************************************************)
(* InsertInternal calls itself for a child, and again for a node that it   *)
(* has split: it walks down to a leaf, splits it as long as it is full and *)
(* not the smallest, each time going on one level further down, and leaves *)
(* the entry there.                                                        *)
(***************************************************************************)
Leaf(ns, p) ==
  LET walk[i \in 1 .. Len(ns)] ==
        IF ns[i].first_child = 0 THEN i ELSE walk[ChildFor(ns, i, p)]
  IN walk[1]

Splits(n) == n.depth < MaxDepth /\ Len(n.points) >= MaxPoints

Split(ns, p) ==
  LET after[level \in 0 .. MaxDepth] ==
        IF level = 0 THEN ns
        ELSE LET t    == after[level - 1]
                 leaf == Leaf(t, p)
             IN IF Splits(t[leaf]) THEN Subdivide(t, leaf) ELSE t
  IN after[MaxDepth]

InsertInternal(ns, e) == LET t == Split(ns, e.pos) IN PushBack(t, Leaf(t, e.pos), e)

(* Slip: the far edges of the globe are taken for out of range. *)
InsertWithinEdges(ns, e) ==
  IF e.pos \in InRange /\ e.pos.lon < Side /\ e.pos.lat < Side THEN InsertInternal(ns, e) ELSE ns

Insert(ns, e) == IF e.pos \in InRange THEN InsertInternal(ns, e) ELSE ns

Hits(n, p) == {j \in DOMAIN n.points : n.points[j].pos = p}

(* The first entry at p, whatever its name.  (No child contains p only when
   p is out of range; then no entry is at p and the code's search of all the
   children finds none.) *)
RemoveByPosition(ns, p) ==
  LET holder[i \in 1 .. Len(ns)] ==
        IF Hits(ns[i], p) # {} THEN i
        ELSE IF ns[i].first_child # 0 /\ \E c \in Children(ns, i) : ContainsNode(ns[c], p)
          THEN holder[ChildFor(ns, i, p)]
        ELSE 0
      i == holder[1]
  IN IF i = 0 THEN ns ELSE Holding(ns, i, RemoveAt(ns[i].points, Min(Hits(ns[i], p))))

-----------------------------------------------------------------------------
Abs(n) == IF n < 0 THEN -n ELSE n
Smaller(a, b) == IF a < b THEN a ELSE b

(* Squared distance on the cylinder. *)
Distance2(q, p) ==
  LET across == Abs(q.lon - p.lon) % Side
      dlon   == Smaller(across, Side - across)
      dlat   == Abs(q.lat - p.lat)
  IN dlon * dlon + dlat * dlat

(***************************************************************************)
(* The box a search prunes by is a little narrower than its circle: it     *)
(* takes 111319.9 m to the degree, the distance 111226.8 m.  In half units *)
(* that is one less than the diameter.                                     *)
(***************************************************************************)
HalfWidth(radius) == IF radius = 0 THEN 0 ELSE 2 * radius - 1

Normalized(lon) == IF lon \in 0 .. Side THEN lon ELSE lon % Side

(* Slip: a box that crosses the antimeridian is cut off there. *)
LonIntervalsUnsplit(lon, delta) ==
  LET norm == 2 * Normalized(lon)
  IN {<<norm - delta, norm + delta>>}

(* The longitudes (in half units) a search looks at: one interval, or two
   where the box crosses the antimeridian. *)
LonIntervals(lon, delta) ==
  LET norm == 2 * Normalized(lon)
      lo   == norm - delta
      hi   == norm + delta
      far  == 2 * Side
  IN IF delta >= far THEN {<<0, far>>}
     ELSE IF lo < 0   THEN {<<lo + far, far>>, <<0, hi>>}
     ELSE IF hi > far THEN {<<lo, far>>, <<0, hi - far>>}
     ELSE {<<lo, hi>>}

Meets(n, q, radius) ==
  LET delta == HalfWidth(radius)
  IN /\ 2 * n.maxLat >= 2 * q.lat - delta /\ 2 * n.minLat <= 2 * q.lat + delta
     /\ \E iv \in LonIntervals(q.lon, delta) : 2 * n.maxLon >= iv[1] /\ 2 * n.minLon <= iv[2]

(* The elements of a sequence that are in a set, in their order. *)
Chosen(s, S) == FoldLeft(LAMBDA found, e : IF e \in S THEN Append(found, e) ELSE found, <<>>, s)

Within(entries, q, radius) == {e \in entries : Distance2(q, e.pos) <= radius * radius}

RadiusSearchInternal(ns, q, radius) ==
  LET found[i \in 1 .. Len(ns)] ==
        LET own == Chosen(ns[i].points, Within(ToSet(ns[i].points), q, radius))
            c   == ns[i].first_child
        IN IF ~Meets(ns[i], q, radius) THEN <<>>
           ELSE IF c = 0 THEN own
           ELSE own \o found[c] \o found[c + 1] \o found[c + 2] \o found[c + 3]
  IN found[1]

RadiusSearch(q, radius) == RadiusSearchInternal(nodes_, q, radius)

-----------------------------------------------------------------------------
(* Slip: the results are cut off before they are sorted. *)
OrderedCutFirst(hits, q, asc, count) ==
  LET n == IF count > 0 /\ Len(hits) > count THEN count ELSE Len(hits)
      d == [i \in 1 .. n |-> Distance2(q, hits[i].pos)]
  IN {[i \in 1 .. n |-> hits[o[i]]] :
        o \in {s \in SetToSeqs(1 .. n) : \A i, j \in 1 .. n : i < j =>
                 IF asc THEN d[s[i]] <= d[s[j]] ELSE d[s[i]] >= d[s[j]]}}

(***************************************************************************)
(* Sorted by distance, the first count of them.  The sort is not stable,   *)
(* so equals come in any order, and any of them may be cut off.            *)
(***************************************************************************)
Ordered(hits, q, asc, count) ==
  LET n == IF count > 0 /\ Len(hits) > count THEN count ELSE Len(hits)
      d == [i \in DOMAIN hits |-> Distance2(q, hits[i].pos)]
  IN {[i \in 1 .. n |-> hits[o[i]]] :
        o \in {s \in SetToSeqs(DOMAIN hits) : \A i, j \in DOMAIN hits : i < j =>
                 IF asc THEN d[s[i]] <= d[s[j]] ELSE d[s[i]] >= d[s[j]]}}

(* The possible answers of GEOSEARCH: entries, as the index has them. *)
Search(q, radius, asc, count) == Ordered(RadiusSearch(q, radius), q, asc, count)

(* Slip: coordinates are taken from the index. *)
SearchPointsIndexed(q, radius, asc, count) == Ordered(RadiusSearch(q, radius), q, asc, count)

(* GEOSEARCHSTORE takes only names from the index and looks their
   coordinates up. *)
SearchPoints(q, radius, asc, count) ==
  LET found      == RadiusSearch(q, radius)
      candidates == Chosen(found, {e \in ToSet(found) : points[e.name] # NoPos})
      current    == [i \in DOMAIN candidates |->
                       [name |-> candidates[i].name, pos |-> points[candidates[i].name]]]
  IN Ordered(Chosen(current, Within(ToSet(current), q, radius)), q, asc, count)

-----------------------------------------------------------------------------
(* An object is its map of members and its tree. *)
NewObject == [points |-> [m \in Member |-> NoPos], nodes_ |-> << Node(0, Side, 0, Side, 0) >>]

(* Slip: the old entry of a member that moves is not taken out. *)
MovedKeepsOld(o, e) == [points |-> [o.points EXCEPT ![e.name] = e.pos], nodes_ |-> o.nodes_]

(* A member that is there loses its entry and gets new coordinates. *)
Moved(o, e) ==
  [points |-> [o.points EXCEPT ![e.name] = e.pos],
   nodes_ |-> IF o.points[e.name] = NoPos THEN o.nodes_
              ELSE RemoveByPosition(o.nodes_, o.points[e.name])]

Added(o, e) == LET moved == Moved(o, e) IN [moved EXCEPT !.nodes_ = Insert(moved.nodes_, e)]

Built(entries) == FoldLeft(Added, NewObject, entries)

Becomes(o) == points' = o.points /\ nodes_' = o.nodes_

CurrentObject == [points |-> points, nodes_ |-> nodes_]

Init == /\ points = NewObject.points
        /\ nodes_ = NewObject.nodes_
        /\ shared = FALSE
        /\ missed = {}
        /\ failures = 0

Free(m, p) == \A o \in Member \ {m} : points[o] # p

Add(m, p) ==
  /\ Becomes(Added(CurrentObject, [name |-> m, pos |-> p]))
  /\ shared' = (shared \/ (p \in InRange /\ ~Free(m, p)))
  /\ missed' = missed \ {m}
  /\ UNCHANGED failures

(***************************************************************************)
(* The name that goes into the new entry is a copy; if there is no memory  *)
(* for it std::bad_alloc reaches the client, which goes on, when the old   *)
(* entry has already been taken out.  (A node that fails to split is worse *)
(* and not modelled: first_child is set before the children are there.)    *)
(***************************************************************************)
AddFails(m, p) ==
  /\ p \in InRange
  /\ failures < MaxFailures
  /\ Becomes(Moved(CurrentObject, [name |-> m, pos |-> p]))
  /\ shared' = (shared \/ ~Free(m, p))
  /\ missed' = missed \cup {m}
  /\ failures' = failures + 1

(* GEOSEARCHSTORE: a new object takes the place of the old. *)
Store(q, radius, asc, count) ==
  /\ \E found \in SearchPoints(q, radius, asc, count) : Becomes(Built(found))
  /\ shared' = \E m, o \in Member : m # o /\ points'[m] \in InRange /\ points'[m] = points'[o]
  /\ missed' = {}
  /\ UNCHANGED failures

Next == \/ \E m \in Member, p \in Position : Add(m, p) \/ AddFails(m, p)
        \/ \E q \in Centers, r \in Radii, asc \in BOOLEAN, n \in Counts : Store(q, r, asc, n)

Spec == Init /\ [][Next]_vars

-----------------------------------------------------------------------------
Entry == [name : Member, pos : InRange]

(***************************************************************************)
(* The shape of the tree: only leaves hold points, each within its box,    *)
(* and a leaf that could still be split is not over-full.                  *)
(***************************************************************************)
TreeOK ==
  /\ points \in [Member -> Position \cup {NoPos}]
  /\ \A i \in 1 .. Len(nodes_) :
       LET n == nodes_[i]
       IN /\ n.points \in Seq(Entry)
          /\ \A e \in ToSet(n.points) : ContainsNode(n, e.pos)
          /\ n.first_child # 0 => n.points = <<>> /\ n.first_child + 3 <= Len(nodes_)
          /\ Len(n.points) > MaxPoints => n.depth = MaxDepth

(* The entries of a tree, each by its place in it, and how many are in S. *)
Slots(ns) == UNION {{i} \X DOMAIN ns[i].points : i \in DOMAIN ns}

EntryAt(ns, slot) == ns[slot[1]].points[slot[2]]

Count(ns, S) == Cardinality({slot \in Slots(ns) : EntryAt(ns, slot) \in S})

(***************************************************************************)
(* A search returns entries within its radius only, and pruning by         *)
(* latitude band and by longitude interval, split at the antimeridian,     *)
(* hides none but those on the rim the narrow box cuts off.                *)
(***************************************************************************)
SearchMissesOnlyTheRim ==
  \A q \in Centers, r \in Radii :
    LET found   == ToSet(RadiusSearch(q, r))
        entries == {EntryAt(nodes_, slot) : slot \in Slots(nodes_)}
        near    == {e \in entries : Distance2(q, e.pos) < r * r}
    IN near \subseteq found /\ found \subseteq Within(entries, q, r)

(***************************************************************************)
(* As long as no two members were in one place, GEOSEARCH answers as if    *)
(* there were no tree: each member once, where it is; no member that lies  *)
(* within the circle is missing, unless COUNT results have been found and  *)
(* it is no nearer than any of them (no farther, for DESC), or unless its  *)
(* own entry failed.                                                       *)
(***************************************************************************)
SearchIsNearest ==
  ~shared => \A q \in Centers, r \in Radii, asc \in BOOLEAN, n \in Counts :
    LET inside == {m \in Member \ missed :
                     points[m] \in InRange /\ Distance2(q, points[m]) < r * r}
        D(m)   == Distance2(q, points[m])
    IN \A found \in Search(q, r, asc, n) :
         LET names == [i \in DOMAIN found |-> found[i].name]
         IN /\ IsInjective(names)
            /\ \A i \in DOMAIN found : found[i].pos = points[names[i]]
            /\ n > 0 => Len(found) <= n
            /\ \A m \in inside \ ToSet(names) :
                 /\ n > 0 /\ Len(found) = n
                 /\ \A o \in ToSet(names) : IF asc THEN D(o) <= D(m) ELSE D(o) >= D(m)

(***************************************************************************)
(* Whatever the index has wrong, GEOSEARCHSTORE never stores a member      *)
(* where it is not, nor one outside the circle (Geo.h:135-143), though     *)
(* the same name may have been found twice.                                *)
(***************************************************************************)
StoredAreCurrent ==
  \A q \in Centers, r \in Radii, n \in Counts :
    \A found \in SearchPoints(q, r, TRUE, n) : \A m \in Member :
      LET p == Built(found).points[m]
      IN p # NoPos => p = points[m] /\ Distance2(q, p) <= r * r

(***************************************************************************)
(* Every place that is in range has as many entries as it has members,     *)
(* though perhaps under the wrong names: moving a member takes one entry   *)
(* from its old place and puts one in the new.  Failures may cost some of  *)
(* them; a place never has too many.                                       *)
(***************************************************************************)
EveryPlaceIsIndexed ==
  \A p \in InRange :
    LET at   == Count(nodes_, [name : Member, pos : {p}])
        here == Cardinality({m \in Member : points[m] = p})
    IN at <= here /\ (failures = 0 => at = here)

(* The tree is one way to keep the index of GeoObject. *)
Counted ==
  [e \in Member \X Position |-> Count(nodes_, {[name |-> e[1], pos |-> e[2]]})]

Object == INSTANCE GeoObject WITH index <- Counted
ImplementsGeoObject == Object!Spec

(* As long as no two members were in one place, the tree has each member
   once, where it is, and nothing else. *)
IndexIsExact == Object!IndexIsExact

(***************************************************************************)
(* README.md:65: GEOSEARCH finds the points within the radius.  So every   *)
(* member whose coordinates are in range is found there, under its name.   *)
(***************************************************************************)
SearchFindsMembers ==
  \A m \in Member : points[m] \in InRange =>
    [name |-> m, pos |-> points[m]] \in ToSet(RadiusSearch(points[m], 0))
=============================================================================

--------------------------- MODULE QuadtreeProofs ---------------------------
(***************************************************************************)
(* Theorems about Quadtree for every set of members and positions, every   *)
(* side, capacity and depth.  They rest on two facts about a tree that is  *)
(* well formed: a place in range is in the box of exactly one leaf, which  *)
(* is where every walk down the tree ends; and an insertion or a removal   *)
(* changes the number of entries of any kind by at most that one entry,    *)
(* however often it splits the leaf on the way.                            *)
(***************************************************************************)
EXTENDS Quadtree, FoldFacts, SequenceTheorems

-----------------------------------------------------------------------------
(* What a well-formed tree is.  Where its nodes are: *)
NodeSet ==
  [minLat : 0 .. Side, maxLat : 0 .. Side, minLon : 0 .. Side, maxLon : 0 .. Side,
   points : Seq(Entry), first_child : Nat, depth : 0 .. MaxDepth]

SameBox(n, m) ==
  /\ n.minLat = m.minLat /\ n.maxLat = m.maxLat
  /\ n.minLon = m.minLon /\ n.maxLon = m.maxLon
  /\ n.depth = m.depth

Proper(n) == /\ n.minLat <= n.maxLat /\ n.minLat < Side
             /\ n.minLon <= n.maxLon /\ n.minLon < Side

Parted(ns, i) ==
  LET c == ns[i].first_child
  IN /\ c > i /\ c + 3 <= Len(ns)
     /\ \A k \in 1 .. 4 : SameBox(ns[c + k - 1], Quarters(ns[i])[k])

Framed(ns) ==
  /\ ns \in Seq(NodeSet)
  /\ Len(ns) >= 1 /\ SameBox(ns[1], Node(0, Side, 0, Side, 0))
  /\ \A i \in 1 .. Len(ns) : Proper(ns[i])
  /\ \A i \in 1 .. Len(ns) : ns[i].first_child # 0 => Parted(ns, i)
  /\ \A k \in 2 .. Len(ns) : \E i \in 1 .. k - 1 : ns[i].first_child # 0 /\ k \in Children(ns, i)

(* where its entries are: *)
Kept(n) == /\ n.first_child # 0 => n.points = <<>>
           /\ \A j \in 1 .. Len(n.points) : ContainsNode(n, n.points[j].pos)

Shape(ns) == Framed(ns) /\ \A i \in 1 .. Len(ns) : Kept(ns[i])

(* and how many there may be. *)
Roomy(ns) == \A i \in 1 .. Len(ns) : Len(ns[i].points) > MaxPoints => ns[i].depth = MaxDepth

Well(ns) == Shape(ns) /\ Roomy(ns)

SameFrame(t, ns) ==
  /\ Len(t) = Len(ns)
  /\ \A i \in 1 .. Len(ns) : t[i].first_child = ns[i].first_child /\ SameBox(t[i], ns[i])

-----------------------------------------------------------------------------
(* Boxes. *)
LEMMA SidesType == Side \in Nat \ {0} /\ MaxPoints \in Nat \ {0} /\ MaxDepth \in Nat
  BY QuadtreeAssumption

LEMMA PlaceType ==
  ASSUME NEW p \in InRange
  PROVE  p.lon \in 0 .. Side /\ p.lat \in 0 .. Side /\ p \in Position
  BY DEF InRange

(* The middle of a side is below the far edge of the globe. *)
LEMMA Middle ==
  ASSUME NEW lo \in 0 .. Side, NEW hi \in 0 .. Side, lo <= hi, lo < Side
  PROVE  /\ (lo + hi) \div 2 \in 0 .. Side
         /\ lo <= (lo + hi) \div 2 /\ (lo + hi) \div 2 <= hi /\ (lo + hi) \div 2 < Side
  BY SidesType

LEMMA QuartersAre ==
  ASSUME NEW n \in NodeSet, Proper(n), n.depth < MaxDepth
  PROVE  /\ Quarters(n) \in Seq(NodeSet) /\ Len(Quarters(n)) = 4
         /\ \A k \in 1 .. 4 :
              /\ Quarters(n)[k] \in NodeSet /\ Proper(Quarters(n)[k])
              /\ Quarters(n)[k].points = <<>> /\ Quarters(n)[k].first_child = 0
              /\ Quarters(n)[k].depth = n.depth + 1
<1> DEFINE midLat == (n.minLat + n.maxLat) \div 2
           midLon == (n.minLon + n.maxLon) \div 2
<1>1. /\ n.minLat \in 0 .. Side /\ n.maxLat \in 0 .. Side
      /\ n.minLon \in 0 .. Side /\ n.maxLon \in 0 .. Side
      /\ n.depth + 1 \in 0 .. MaxDepth
  BY SidesType DEF NodeSet
<1>2. /\ midLat \in 0 .. Side /\ n.minLat <= midLat /\ midLat <= n.maxLat /\ midLat < Side
      /\ midLon \in 0 .. Side /\ n.minLon <= midLon /\ midLon <= n.maxLon /\ midLon < Side
  BY <1>1, Middle DEF Proper
<1> HIDE DEF midLat, midLon
<1>3. Quarters(n) = << Node(n.minLat, midLat, n.minLon, midLon, n.depth + 1),
                       Node(n.minLat, midLat, midLon, n.maxLon, n.depth + 1),
                       Node(midLat, n.maxLat, n.minLon, midLon, n.depth + 1),
                       Node(midLat, n.maxLat, midLon, n.maxLon, n.depth + 1) >>
  BY DEF Quarters, midLat, midLon
<1> DEFINE Good(m) == /\ m \in NodeSet /\ Proper(m)
                      /\ m.points = <<>> /\ m.first_child = 0 /\ m.depth = n.depth + 1
<1>4. ASSUME NEW a \in 0 .. Side, NEW b \in 0 .. Side, NEW c \in 0 .. Side, NEW d \in 0 .. Side,
             a <= b, a < Side, c <= d, c < Side
      PROVE  Good(Node(a, b, c, d, n.depth + 1))
  BY <1>1, <1>4 DEF Node, NodeSet, Proper
<1>4a. n.minLat <= n.maxLat /\ n.minLat < Side /\ n.minLon <= n.maxLon /\ n.minLon < Side
  BY DEF Proper
<1> HIDE DEF Good
<1>5. Len(Quarters(n)) = 4 /\ \A k \in 1 .. 4 : Good(Quarters(n)[k])
  <2>1. /\ Good(Node(n.minLat, midLat, n.minLon, midLon, n.depth + 1))
        /\ Good(Node(n.minLat, midLat, midLon, n.maxLon, n.depth + 1))
        /\ Good(Node(midLat, n.maxLat, n.minLon, midLon, n.depth + 1))
        /\ Good(Node(midLat, n.maxLat, midLon, n.maxLon, n.depth + 1))
    BY <1>1, <1>2, <1>4, <1>4a
  <2>2. \A k \in 1 .. 4 : k = 1 \/ k = 2 \/ k = 3 \/ k = 4
    OBVIOUS
  <2> QED BY <1>3, <2>1, <2>2
<1>6. Quarters(n) \in Seq(NodeSet)
  BY <1>3, <1>5 DEF Good
<1> QED BY <1>5, <1>6 DEF Good

(* Where a box matters is its sides. *)
LEMMA SameBoxContains ==
  ASSUME NEW n, NEW m, SameBox(n, m), NEW p
  PROVE  ContainsNode(n, p) <=> ContainsNode(m, p)
  BY DEF SameBox, ContainsNode

(* The four quarters part a box: each place in it is in one of them. *)
LEMMA QuartersPart ==
  ASSUME NEW n \in NodeSet, Proper(n), NEW p \in InRange
  PROVE  /\ \A k \in 1 .. 4 : ContainsNode(Quarters(n)[k], p) => ContainsNode(n, p)
         /\ ContainsNode(n, p) => \E k \in 1 .. 4 : ContainsNode(Quarters(n)[k], p)
         /\ \A k, l \in 1 .. 4 :
              ContainsNode(Quarters(n)[k], p) /\ ContainsNode(Quarters(n)[l], p) => k = l
<1> DEFINE midLat == (n.minLat + n.maxLat) \div 2
           midLon == (n.minLon + n.maxLon) \div 2
           In(lo, hi, x) == lo <= x /\ x <= hi /\ (x = hi => hi = Side)
<1>1. /\ n.minLat \in 0 .. Side /\ n.maxLat \in 0 .. Side
      /\ n.minLon \in 0 .. Side /\ n.maxLon \in 0 .. Side
  BY DEF NodeSet
<1>2. /\ midLat \in 0 .. Side /\ n.minLat <= midLat /\ midLat <= n.maxLat /\ midLat < Side
      /\ midLon \in 0 .. Side /\ n.minLon <= midLon /\ midLon <= n.maxLon /\ midLon < Side
  BY <1>1, Middle DEF Proper
<1>3. p.lon \in 0 .. Side /\ p.lat \in 0 .. Side
  BY PlaceType
<1> HIDE DEF midLat, midLon
<1>4. /\ ContainsNode(Quarters(n)[1], p) <=> In(n.minLat, midLat, p.lat) /\ In(n.minLon, midLon, p.lon)
      /\ ContainsNode(Quarters(n)[2], p) <=> In(n.minLat, midLat, p.lat) /\ In(midLon, n.maxLon, p.lon)
      /\ ContainsNode(Quarters(n)[3], p) <=> In(midLat, n.maxLat, p.lat) /\ In(n.minLon, midLon, p.lon)
      /\ ContainsNode(Quarters(n)[4], p) <=> In(midLat, n.maxLat, p.lat) /\ In(midLon, n.maxLon, p.lon)
  BY DEF Quarters, Node, ContainsNode, midLat, midLon
<1>5. ContainsNode(n, p) <=> In(n.minLat, n.maxLat, p.lat) /\ In(n.minLon, n.maxLon, p.lon)
  BY DEF ContainsNode
<1>6. /\ In(n.minLat, n.maxLat, p.lat) <=> In(n.minLat, midLat, p.lat) \/ In(midLat, n.maxLat, p.lat)
      /\ ~(In(n.minLat, midLat, p.lat) /\ In(midLat, n.maxLat, p.lat))
      /\ In(n.minLon, n.maxLon, p.lon) <=> In(n.minLon, midLon, p.lon) \/ In(midLon, n.maxLon, p.lon)
      /\ ~(In(n.minLon, midLon, p.lon) /\ In(midLon, n.maxLon, p.lon))
  BY <1>1, <1>2, <1>3, SidesType
<1> HIDE DEF In
<1>7. \A k \in 1 .. 4 : k = 1 \/ k = 2 \/ k = 3 \/ k = 4
  OBVIOUS
<1> QED BY <1>4, <1>5, <1>6, <1>7

-----------------------------------------------------------------------------
(* The way down the tree. *)
LEMMA NodeType ==
  ASSUME NEW ns, Framed(ns), NEW i \in 1 .. Len(ns)
  PROVE  ns[i] \in NodeSet /\ Proper(ns[i])
  BY DEF Framed

LEMMA NodeFields ==
  ASSUME NEW n \in NodeSet
  PROVE  /\ n.minLat \in 0 .. Side /\ n.maxLat \in 0 .. Side
         /\ n.minLon \in 0 .. Side /\ n.maxLon \in 0 .. Side
         /\ n.points \in Seq(Entry) /\ n.first_child \in Nat /\ n.depth \in 0 .. MaxDepth
  BY DEF NodeSet

LEMMA ChildrenAre ==
  ASSUME NEW ns, Framed(ns), NEW i \in 1 .. Len(ns), ns[i].first_child # 0
  PROVE  /\ ns[i].first_child \in Nat /\ ns[i].first_child > i /\ ns[i].first_child + 3 <= Len(ns)
         /\ Children(ns, i) \subseteq i + 1 .. Len(ns)
         /\ \A c \in Children(ns, i) : \E k \in 1 .. 4 :
              c = ns[i].first_child + k - 1 /\ SameBox(ns[c], Quarters(ns[i])[k])
<1>1. Parted(ns, i) /\ ns[i].first_child \in Nat /\ ns \in Seq(NodeSet)
  BY NodeType, NodeFields DEF Framed
<1>2. ns[i].first_child > i /\ ns[i].first_child + 3 <= Len(ns)
  BY <1>1 DEF Parted
<1>3. Children(ns, i) \subseteq i + 1 .. Len(ns)
  BY <1>1, <1>2 DEF Children
<1>4. ASSUME NEW c \in Children(ns, i)
      PROVE  \E k \in 1 .. 4 : c = ns[i].first_child + k - 1 /\ SameBox(ns[c], Quarters(ns[i])[k])
  <2> DEFINE first == ns[i].first_child
  <2>0. first \in Nat /\ c \in first .. first + 3
    BY <1>1 DEF Children
  <2> HIDE DEF first
  <2>1. c - first + 1 \in 1 .. 4 /\ c = first + (c - first + 1) - 1
    BY <2>0
  <2> USE DEF first
  <2> QED BY <1>1, <2>1 DEF Parted
<1> QED BY <1>1, <1>2, <1>3, <1>4

(* Of the children of a node that contains p exactly one does. *)
LEMMA ChildrenPart ==
  ASSUME NEW ns, Framed(ns), NEW i \in 1 .. Len(ns), ns[i].first_child # 0, NEW p \in InRange
  PROVE  /\ \A c \in Children(ns, i) : ContainsNode(ns[c], p) => ContainsNode(ns[i], p)
         /\ ContainsNode(ns[i], p) => \E c \in Children(ns, i) : ContainsNode(ns[c], p)
         /\ \A c, d \in Children(ns, i) :
              ContainsNode(ns[c], p) /\ ContainsNode(ns[d], p) => c = d
<1> DEFINE first == ns[i].first_child
           Q(k) == ContainsNode(Quarters(ns[i])[k], p)
<1>1. first \in Nat
  BY ChildrenAre
<1>2. \A c \in Children(ns, i) : \E k \in 1 .. 4 :
        c = first + k - 1 /\ (ContainsNode(ns[c], p) <=> Q(k))
  BY ChildrenAre, SameBoxContains
<1>3. /\ \A k \in 1 .. 4 : Q(k) => ContainsNode(ns[i], p)
      /\ ContainsNode(ns[i], p) => \E k \in 1 .. 4 : Q(k)
      /\ \A k, l \in 1 .. 4 : Q(k) /\ Q(l) => k = l
  BY NodeType, QuartersPart
<1>4. \A k \in 1 .. 4 : first + k - 1 \in Children(ns, i)
  BY <1>1 DEF Children
<1> HIDE DEF first, Q
<1>5. ASSUME NEW k \in 1 .. 4, Q(k) PROVE ContainsNode(ns[first + k - 1], p)
  <2>1. PICK l \in 1 .. 4 : first + k - 1 = first + l - 1
                           /\ (ContainsNode(ns[first + k - 1], p) <=> Q(l))
    BY <1>2, <1>4
  <2>2. k = l
    BY <1>1, <2>1
  <2> QED BY <1>5, <2>1, <2>2
<1>6. ContainsNode(ns[i], p) => \E c \in Children(ns, i) : ContainsNode(ns[c], p)
  BY <1>3, <1>4, <1>5
<1>7. \A c \in Children(ns, i) : ContainsNode(ns[c], p) => ContainsNode(ns[i], p)
  BY <1>2, <1>3
<1>8. ASSUME NEW c \in Children(ns, i), NEW d \in Children(ns, i),
             ContainsNode(ns[c], p), ContainsNode(ns[d], p)
      PROVE  c = d
  BY <1>2, <1>3, <1>8
<1> QED BY <1>6, <1>7, <1>8

LEMMA ChildForIs ==
  ASSUME NEW ns, Framed(ns), NEW i \in 1 .. Len(ns), ns[i].first_child # 0, NEW p
  PROVE  /\ ChildFor(ns, i, p) \in Children(ns, i)
         /\ ChildFor(ns, i, p) \in i + 1 .. Len(ns)
         /\ p \in InRange /\ ContainsNode(ns[i], p) => ContainsNode(ns[ChildFor(ns, i, p)], p)
<1> DEFINE here == {c \in Children(ns, i) : ContainsNode(ns[c], p)}
<1>1. Children(ns, i) \subseteq i + 1 .. Len(ns) /\ ns[i].first_child \in Children(ns, i)
  BY ChildrenAre DEF Children
<1>2. here # {} => Min(here) \in here
  <2>1. here \in SUBSET Nat
    BY <1>1
  <2> HIDE DEF here
  <2> QED BY <2>1, MinIsMember
<1>3. ChildFor(ns, i, p) = IF here = {} THEN ns[i].first_child ELSE Min(here)
  BY DEF ChildFor
<1>4. p \in InRange /\ ContainsNode(ns[i], p) => here # {}
  BY ChildrenPart
<1> HIDE DEF here
<1>5. ChildFor(ns, i, p) \in Children(ns, i)
  BY <1>1, <1>2, <1>3 DEF here
<1>6. p \in InRange /\ ContainsNode(ns[i], p) => ContainsNode(ns[ChildFor(ns, i, p)], p)
  BY <1>2, <1>3, <1>4 DEF here
<1> QED BY <1>1, <1>5, <1>6

(* Where the walk to p goes on to, and where it ends, from each node. *)
Walked(ns, p, w, i) == IF ns[i].first_child = 0 THEN i ELSE w[ChildFor(ns, i, p)]

Walk(ns, p) == CHOOSE w : w = [i \in 1 .. Len(ns) |-> Walked(ns, p, w, i)]

LEMMA LeafOfWalk ==
  ASSUME NEW ns, NEW p
  PROVE  Leaf(ns, p) = Walk(ns, p)[1]
  BY DEF Leaf, Walk, Walked

LEMMA WalkExists ==
  ASSUME NEW ns, Framed(ns), NEW p
  PROVE  Walk(ns, p) = [i \in 1 .. Len(ns) |-> Walked(ns, p, Walk(ns, p), i)]
<1> DEFINE N == Len(ns) - 1
           D == 1 .. N + 1
           F == [w \in [D -> D] |-> [i \in D |-> Walked(ns, p, w, i)]]
<1>0. N \in Nat /\ Len(ns) = N + 1
  BY DEF Framed
<1>1. \A i \in D : ns[i].first_child # 0 => ChildFor(ns, i, p) \in i + 1 .. N + 1
  BY <1>0, ChildForIs
<1> HIDE DEF N
<1>2. ASSUME NEW w \in [D -> D], NEW i \in D PROVE Walked(ns, p, w, i) \in D
  BY <1>0, <1>1 DEF Walked
<1>3. F \in [[D -> D] -> [D -> D]]
  BY <1>2
<1>4. ASSUME NEW f \in [D -> D], NEW g \in [D -> D], NEW q \in D,
             \A r \in q + 1 .. N + 1 : f[r] = g[r]
      PROVE  F[f][q] = F[g][q]
  <2>1. Walked(ns, p, f, q) = Walked(ns, p, g, q)
    BY <1>1, <1>4 DEF Walked
  <2> QED BY <2>1
<1>5. PICK w \in [D -> D] : F[w] = w
  <2> HIDE DEF F
  <2>1. LooksAhead(F, N, D)
    BY <1>3, <1>4 DEF LooksAhead
  <2>2. D # {}
    BY <1>0
  <2> QED BY <1>0, <2>1, <2>2, LookingAhead
<1>6. w = [i \in D |-> Walked(ns, p, w, i)]
  BY <1>5
<1> QED BY <1>0, <1>6 DEF Walk

IsLeafOf(ns, k, p) ==
  k \in 1 .. Len(ns) /\ ns[k].first_child = 0 /\ ContainsNode(ns[k], p)

(* From a node that contains p the walk ends at a leaf that does; from each
   of them at the same. *)
LEMMA WalkEnds ==
  ASSUME NEW ns, Framed(ns), NEW p \in InRange
  PROVE  \A i \in 1 .. Len(ns) : ContainsNode(ns[i], p) => IsLeafOf(ns, Walk(ns, p)[i], p)
<1> DEFINE N == Len(ns) - 1
           w == Walk(ns, p)
           G == {i \in 1 .. Len(ns) : ContainsNode(ns[i], p) => IsLeafOf(ns, w[i], p)}
<1>0. N \in Nat /\ Len(ns) = N + 1
  BY DEF Framed
<1>1. \A i \in 1 .. Len(ns) : w[i] = Walked(ns, p, w, i)
  <2>1. w = [i \in 1 .. Len(ns) |-> Walked(ns, p, w, i)]
    BY WalkExists
  <2> HIDE DEF w
  <2> QED BY <2>1
<1> HIDE DEF w
<1>2. ASSUME NEW q \in 1 .. N + 1, \A r \in q + 1 .. N + 1 : r \in G PROVE q \in G
  <2> SUFFICES ASSUME ContainsNode(ns[q], p) PROVE IsLeafOf(ns, w[q], p)
    BY <1>0
  <2>0. q \in 1 .. Len(ns)
    BY <1>0
  <2>1. CASE ns[q].first_child = 0
    BY <1>1, <2>0, <2>1 DEF Walked, IsLeafOf
  <2>2. CASE ns[q].first_child # 0
    <3>1. ChildFor(ns, q, p) \in q + 1 .. Len(ns) /\ ContainsNode(ns[ChildFor(ns, q, p)], p)
      BY <2>0, <2>2, ChildForIs
    <3>2. w[q] = w[ChildFor(ns, q, p)]
      BY <1>1, <2>0, <2>2 DEF Walked
    <3> QED BY <1>0, <1>2, <3>1, <3>2
  <2> QED BY <2>1, <2>2
<1> HIDE DEF G, N
<1>3. \A i \in 1 .. N + 1 : i \in G
  BY <1>0, <1>2, Backwards
<1> QED BY <1>0, <1>3 DEF G, w

LEMMA WalksMeet ==
  ASSUME NEW ns, Framed(ns), NEW p \in InRange
  PROVE  \A i \in 1 .. Len(ns) : ContainsNode(ns[i], p) => Walk(ns, p)[i] = Walk(ns, p)[1]
<1> DEFINE w == Walk(ns, p)
           H == {n \in Nat : \A i \in 1 .. Len(ns) :
                                i <= n /\ ContainsNode(ns[i], p) => w[i] = w[1]}
<1>0. Len(ns) \in Nat /\ Len(ns) >= 1
  BY DEF Framed
<1>1. \A i \in 1 .. Len(ns) : w[i] = Walked(ns, p, w, i)
  <2>1. w = [i \in 1 .. Len(ns) |-> Walked(ns, p, w, i)]
    BY WalkExists
  <2> HIDE DEF w
  <2> QED BY <2>1
<1> HIDE DEF w
<1>2. 0 \in H
  OBVIOUS
<1>3. ASSUME NEW n \in Nat, n \in H PROVE n + 1 \in H
  <2> SUFFICES ASSUME NEW k \in 1 .. Len(ns), k <= n + 1, ContainsNode(ns[k], p)
               PROVE  w[k] = w[1]
    OBVIOUS
  <2>1. CASE k = 1
    BY <2>1
  <2>2. CASE k # 1
    <3>1. PICK i \in 1 .. k - 1 : ns[i].first_child # 0 /\ k \in Children(ns, i)
      <4>1. k \in 2 .. Len(ns)
        BY <2>2
      <4> QED BY <4>1 DEF Framed
    <3>2. i \in 1 .. Len(ns) /\ i <= n
      OBVIOUS
    <3>3. ContainsNode(ns[i], p)
      BY <3>1, <3>2, ChildrenPart
    <3>4. ChildFor(ns, i, p) = k
      BY <3>1, <3>2, <3>3, ChildForIs, ChildrenPart
    <3>5. w[i] = w[k]
      BY <1>1, <3>1, <3>2, <3>4 DEF Walked
    <3> QED BY <1>3, <3>2, <3>3, <3>5
  <2> QED BY <2>1, <2>2
<1> HIDE DEF H
<1>4. Len(ns) \in H
  BY <1>0, <1>2, <1>3, NaturalsBySuccessor
<1> QED BY <1>0, <1>4 DEF H, w

(* The root contains all that is in range. *)
LEMMA RootContains ==
  ASSUME NEW ns, Framed(ns), NEW p \in InRange
  PROVE  1 \in 1 .. Len(ns) /\ ContainsNode(ns[1], p)
<1>1. 1 \in 1 .. Len(ns) /\ SameBox(ns[1], Node(0, Side, 0, Side, 0))
  BY DEF Framed
<1>2. ContainsNode(Node(0, Side, 0, Side, 0), p)
  BY PlaceType, SidesType DEF ContainsNode, Node
<1> QED BY <1>1, <1>2, SameBoxContains

(* A place in range is in one leaf, and the walk from the root finds it. *)
LEMMA LeafIs ==
  ASSUME NEW ns, Framed(ns), NEW p \in InRange
  PROVE  /\ IsLeafOf(ns, Leaf(ns, p), p)
         /\ \A k : IsLeafOf(ns, k, p) => k = Leaf(ns, p)
<1>1. IsLeafOf(ns, Leaf(ns, p), p)
  BY RootContains, WalkEnds, LeafOfWalk
<1>2. ASSUME NEW k, IsLeafOf(ns, k, p) PROVE k = Leaf(ns, p)
  <2>1. Walk(ns, p)[k] = Walk(ns, p)[1]
    BY <1>2, WalksMeet DEF IsLeafOf
  <2>2. Walk(ns, p)[k] = k
    <3> DEFINE w == Walk(ns, p)
    <3>1. w = [i \in 1 .. Len(ns) |-> Walked(ns, p, w, i)]
      BY WalkExists
    <3> HIDE DEF w
    <3>2. w[k] = k
      BY <1>2, <3>1 DEF IsLeafOf, Walked
    <3> QED BY <3>2 DEF w
  <2> QED BY <2>1, <2>2, LeafOfWalk
<1> QED BY <1>1, <1>2

-----------------------------------------------------------------------------
(* Entries are in the leaf of their place. *)
LEMMA EntriesInRange ==
  ASSUME NEW ns, Shape(ns), NEW i \in 1 .. Len(ns), NEW j \in 1 .. Len(ns[i].points)
  PROVE  /\ ns[i].points[j] \in Entry /\ ns[i].points[j].pos \in InRange
         /\ ns[i].points[j].name \in Member
         /\ IsLeafOf(ns, i, ns[i].points[j].pos)
<1>1. ns[i].points \in Seq(Entry) /\ Kept(ns[i])
  BY NodeType, NodeFields DEF Shape
<1>2. ns[i].points[j] \in Entry
  BY <1>1
<1>3. ns[i].points[j].pos \in InRange /\ ns[i].points[j].name \in Member
  BY <1>2 DEF Entry
<1>4. ns[i].points # <<>>
  BY <1>1
<1> QED BY <1>1, <1>2, <1>3, <1>4 DEF Kept, IsLeafOf

LEMMA EntriesInLeaf ==
  ASSUME NEW ns, Shape(ns), NEW i \in 1 .. Len(ns), NEW j \in 1 .. Len(ns[i].points)
  PROVE  i = Leaf(ns, ns[i].points[j].pos)
  BY EntriesInRange, LeafIs DEF Shape

(* The node that RemoveByPosition takes an entry from, or 0, for each node
   that it starts at. *)
Held(ns, p, h, i) ==
  IF Hits(ns[i], p) # {} THEN i
  ELSE IF ns[i].first_child # 0 /\ \E c \in Children(ns, i) : ContainsNode(ns[c], p)
    THEN h[ChildFor(ns, i, p)]
  ELSE 0

Holder(ns, p) == CHOOSE h : h = [i \in 1 .. Len(ns) |-> Held(ns, p, h, i)]

LEMMA RemovalUnfolds ==
  ASSUME NEW ns, NEW p
  PROVE  RemoveByPosition(ns, p) =
           IF Holder(ns, p)[1] = 0 THEN ns
           ELSE Holding(ns, Holder(ns, p)[1],
                        RemoveAt(ns[Holder(ns, p)[1]].points, Min(Hits(ns[Holder(ns, p)[1]], p))))
  BY DEF RemoveByPosition, Holder, Held

LEMMA HolderExists ==
  ASSUME NEW ns, Framed(ns), NEW p
  PROVE  Holder(ns, p) = [i \in 1 .. Len(ns) |-> Held(ns, p, Holder(ns, p), i)]
<1> DEFINE N == Len(ns) - 1
           D == 1 .. N + 1
           V == 0 .. N + 1
           F == [h \in [D -> V] |-> [i \in D |-> Held(ns, p, h, i)]]
<1>0. N \in Nat /\ Len(ns) = N + 1
  BY DEF Framed
<1>1. \A i \in D : ns[i].first_child # 0 => ChildFor(ns, i, p) \in i + 1 .. N + 1
  BY <1>0, ChildForIs
<1> HIDE DEF N
<1>2. ASSUME NEW h \in [D -> V], NEW i \in D PROVE Held(ns, p, h, i) \in V
  BY <1>0, <1>1 DEF Held
<1>3. F \in [[D -> V] -> [D -> V]]
  BY <1>2
<1>4. ASSUME NEW f \in [D -> V], NEW g \in [D -> V], NEW q \in D,
             \A r \in q + 1 .. N + 1 : f[r] = g[r]
      PROVE  F[f][q] = F[g][q]
  <2>1. Held(ns, p, f, q) = Held(ns, p, g, q)
    BY <1>1, <1>4 DEF Held
  <2> QED BY <2>1
<1>5. PICK h \in [D -> V] : F[h] = h
  <2> HIDE DEF F
  <2>1. V # {}
    <3>1. 0 \in V
      BY <1>0
    <3> QED BY <3>1
  <2> HIDE DEF V
  <2>2. LooksAhead(F, N, V)
    BY <1>3, <1>4 DEF LooksAhead
  <2> QED BY <1>0, <2>1, <2>2, LookingAhead
<1>6. h = [i \in D |-> Held(ns, p, h, i)]
  BY <1>5
<1> QED BY <1>0, <1>6 DEF Holder

(* That node has an entry at p; without one there is none in p's leaf. *)
LEMMA HolderIs ==
  ASSUME NEW ns, Framed(ns), NEW p
  PROVE  \A i \in 1 .. Len(ns) :
           /\ Holder(ns, p)[i] = 0
                \/ (Holder(ns, p)[i] \in 1 .. Len(ns) /\ Hits(ns[Holder(ns, p)[i]], p) # {})
           /\ p \in InRange /\ ContainsNode(ns[i], p) /\ Holder(ns, p)[i] = 0
                => Hits(ns[Walk(ns, p)[i]], p) = {}
<1> DEFINE N == Len(ns) - 1
           h == Holder(ns, p)
           w == Walk(ns, p)
           Right(i) == /\ h[i] = 0 \/ (h[i] \in 1 .. Len(ns) /\ Hits(ns[h[i]], p) # {})
                       /\ p \in InRange /\ ContainsNode(ns[i], p) /\ h[i] = 0
                            => Hits(ns[w[i]], p) = {}
           G == {i \in 1 .. Len(ns) : Right(i)}
<1>0. N \in Nat /\ Len(ns) = N + 1
  BY DEF Framed
<1>1. \A i \in 1 .. Len(ns) : h[i] = Held(ns, p, h, i) /\ w[i] = Walked(ns, p, w, i)
  <2>1. h = [i \in 1 .. Len(ns) |-> Held(ns, p, h, i)]
    BY HolderExists
  <2>2. w = [i \in 1 .. Len(ns) |-> Walked(ns, p, w, i)]
    BY WalkExists
  <2> HIDE DEF h, w
  <2> QED BY <2>1, <2>2
<1> HIDE DEF h, w
<1>2. ASSUME NEW q \in 1 .. N + 1, \A r \in q + 1 .. N + 1 : r \in G PROVE q \in G
  <2>0. q \in 1 .. Len(ns)
    BY <1>0
  <2> SUFFICES Right(q)
    BY <2>0
  <2>a. h[q] = Held(ns, p, h, q) /\ w[q] = Walked(ns, p, w, q)
    BY <1>1, <2>0
  <2>1. CASE Hits(ns[q], p) # {}
    BY <2>0, <2>a, <2>1 DEF Held
  <2>2. CASE Hits(ns[q], p) = {} /\ ns[q].first_child = 0
    <3>1. h[q] = 0 /\ w[q] = q
      BY <2>a, <2>2 DEF Held, Walked
    <3>2. Hits(ns[w[q]], p) = {}
      BY <2>2, <3>1
    <3> QED BY <3>1, <3>2
  <2>3. CASE Hits(ns[q], p) = {} /\ ns[q].first_child # 0
    <3> DEFINE c == ChildFor(ns, q, p)
    <3>1. c \in q + 1 .. Len(ns) /\ c \in Children(ns, q)
          /\ (p \in InRange /\ ContainsNode(ns[q], p) => ContainsNode(ns[c], p))
      BY <2>0, <2>3, ChildForIs
    <3>2. Right(c)
      BY <1>0, <1>2, <3>1
    <3>3. w[q] = w[c]
      BY <2>a, <2>3 DEF Walked
    <3>4. CASE \E d \in Children(ns, q) : ContainsNode(ns[d], p)
      <4>1. h[q] = h[c]
        BY <2>a, <2>3, <3>4 DEF Held
      <4> HIDE DEF c
      <4> QED BY <3>1, <3>2, <3>3, <4>1
    <3>5. CASE ~(\E d \in Children(ns, q) : ContainsNode(ns[d], p))
      <4>1. h[q] = 0
        BY <2>a, <2>3, <3>5 DEF Held
      <4>2. ~(p \in InRange /\ ContainsNode(ns[q], p))
        BY <3>1, <3>5
      <4> QED BY <4>1, <4>2
    <3> QED BY <3>4, <3>5
  <2> QED BY <2>1, <2>2, <2>3
<1> HIDE DEF G, N
<1>3. \A i \in 1 .. N + 1 : i \in G
  BY <1>0, <1>2, Backwards
<1> QED BY <1>0, <1>3 DEF G, h, w

(* It takes out one entry at p, if there is any. *)
LEMMA RemovalIs ==
  ASSUME NEW ns, Shape(ns), NEW p
  PROVE  \/ /\ RemoveByPosition(ns, p) = ns
            /\ \A i \in 1 .. Len(ns) : \A j \in 1 .. Len(ns[i].points) : ns[i].points[j].pos # p
         \/ \E i \in 1 .. Len(ns) : \E j \in 1 .. Len(ns[i].points) :
              /\ ns[i].points[j].pos = p
              /\ RemoveByPosition(ns, p) = Holding(ns, i, RemoveAt(ns[i].points, j))
<1> DEFINE k == Holder(ns, p)[1]
<1>0. Framed(ns) /\ 1 \in 1 .. Len(ns)
  BY DEF Shape, Framed
<1>1. k = 0 \/ (k \in 1 .. Len(ns) /\ Hits(ns[k], p) # {})
  BY <1>0, HolderIs
<1>2. CASE k = 0
  <2>1. RemoveByPosition(ns, p) = ns
    BY <1>2, RemovalUnfolds
  <2>2. ASSUME NEW i \in 1 .. Len(ns), NEW j \in 1 .. Len(ns[i].points), ns[i].points[j].pos = p
        PROVE  FALSE
    <3>1. p \in InRange /\ i = Leaf(ns, p)
      BY <2>2, EntriesInRange, EntriesInLeaf
    <3>2. Hits(ns[i], p) = {}
      BY <1>0, <1>2, <3>1, HolderIs, RootContains, LeafOfWalk
    <3>3. ns[i].points \in Seq(Entry)
      BY <1>0, NodeType, NodeFields
    <3> QED BY <2>2, <3>2, <3>3 DEF Hits
  <2> QED BY <2>1, <2>2
<1>3. CASE k \in 1 .. Len(ns) /\ Hits(ns[k], p) # {}
  <2> DEFINE j == Min(Hits(ns[k], p))
  <2>1. ns[k].points \in Seq(Entry)
    BY <1>0, <1>3, NodeType, NodeFields
  <2>2. j \in Hits(ns[k], p)
    <3>1. Hits(ns[k], p) \in SUBSET Nat
      BY <2>1 DEF Hits
    <3> QED BY <1>3, <3>1, MinIsMember
  <2>3. j \in 1 .. Len(ns[k].points) /\ ns[k].points[j].pos = p
    <3>1. j \in DOMAIN ns[k].points /\ ns[k].points[j].pos = p
      BY <2>2 DEF Hits
    <3> HIDE DEF j, k
    <3> QED BY <2>1, <3>1
  <2>4. RemoveByPosition(ns, p) = Holding(ns, k, RemoveAt(ns[k].points, j))
    BY <1>3, RemovalUnfolds
  <2> HIDE DEF j, k
  <2> QED BY <1>3, <2>3, <2>4
<1> QED BY <1>1, <1>2, <1>3

-----------------------------------------------------------------------------
(* How many elements of a sequence are in S. *)
Places(s, S) == {j \in 1 .. Len(s) : s[j] \in S}
Among(s, S)  == Cardinality(Places(s, S))

One(e, S) == IF e \in S THEN 1 ELSE 0

LEMMA AmongType ==
  ASSUME NEW E, NEW s \in Seq(E), NEW S
  PROVE  IsFiniteSet(Places(s, S)) /\ Among(s, S) \in 0 .. Len(s)
<1>0. Len(s) \in Nat
  OBVIOUS
<1>1. IsFiniteSet(1 .. Len(s)) /\ Cardinality(1 .. Len(s)) = Len(s)
  BY <1>0, FS_Interval, SMTT(30)
<1>2. Places(s, S) \in SUBSET (1 .. Len(s))
  BY DEF Places
<1>3. IsFiniteSet(Places(s, S)) /\ Among(s, S) <= Cardinality(1 .. Len(s))
  BY <1>1, <1>2, FS_Subset DEF Among
<1>4. Among(s, S) \in Nat
  BY <1>3, FS_CardinalityType DEF Among
<1> QED BY <1>0, <1>1, <1>3, <1>4

LEMMA AmongEmpty ==
  ASSUME NEW S
  PROVE  Among(<<>>, S) = 0
<1>1. Places(<<>>, S) = {}
  BY DEF Places
<1> QED BY <1>1, FS_EmptySet DEF Among

LEMMA AmongNone ==
  ASSUME NEW s, NEW S
  PROVE  (\A j \in 1 .. Len(s) : s[j] \notin S) => Among(s, S) = 0
<1> SUFFICES ASSUME \A j \in 1 .. Len(s) : s[j] \notin S PROVE Among(s, S) = 0
  OBVIOUS
<1>1. Places(s, S) = {}
  BY DEF Places
<1> QED BY <1>1, FS_EmptySet DEF Among

LEMMA AmongSome ==
  ASSUME NEW E, NEW s \in Seq(E), NEW S
  PROVE  Among(s, S) > 0 <=> \E j \in 1 .. Len(s) : s[j] \in S
<1>1. IsFiniteSet(Places(s, S)) /\ Among(s, S) \in Nat
  BY AmongType
<1>2. Among(s, S) = 0 <=> Places(s, S) = {}
  BY <1>1, FS_EmptySet DEF Among
<1>3. Places(s, S) # {} <=> \E j \in 1 .. Len(s) : s[j] \in S
  BY DEF Places
<1> QED BY <1>1, <1>2, <1>3

LEMMA AmongSameAs ==
  ASSUME NEW s, NEW S, NEW T, \A j \in 1 .. Len(s) : s[j] \in S <=> s[j] \in T
  PROVE  Among(s, S) = Among(s, T)
  BY DEF Among, Places

LEMMA AmongAppend ==
  ASSUME NEW E, NEW s \in Seq(E), NEW e \in E, NEW S
  PROVE  Among(Append(s, e), S) = Among(s, S) + One(e, S)
<1> DEFINE n == Len(s) + 1
           t == Append(s, e)
           P == Places(s, S)
<1>1. /\ Len(t) = n /\ t[n] = e /\ Len(s) \in Nat
      /\ \A j \in 1 .. Len(s) : t[j] = s[j]
  OBVIOUS
<1>2. IsFiniteSet(P) /\ n \notin P /\ Cardinality(P) \in Nat
  <2>1. IsFiniteSet(P)
    BY AmongType
  <2>2. n \notin P
    BY <1>1 DEF Places
  <2> QED BY <2>1, <2>2, FS_CardinalityType
<1> HIDE DEF t
<1>3. CASE e \in S
  <2>1. Places(t, S) = P \cup {n}
    BY <1>1, <1>3 DEF Places
  <2>2. Cardinality(P \cup {n}) = Cardinality(P) + 1
    <3> HIDE DEF P
    <3> QED BY <1>2, FS_AddElement
  <2> QED BY <1>2, <1>3, <2>1, <2>2 DEF Among, One, t
<1>4. CASE e \notin S
  <2>1. Places(t, S) = P
    BY <1>1, <1>4 DEF Places
  <2> QED BY <1>2, <1>4, <2>1 DEF Among, One, t
<1> QED BY <1>3, <1>4

(* As the two parts of a sequence. *)
LEMMA AmongConcat ==
  ASSUME NEW E, NEW s \in Seq(E), NEW t \in Seq(E), NEW S
  PROVE  Among(s \o t, S) = Among(s, S) + Among(t, S)
<1> DEFINE n == Len(s)
           u == s \o t
           P == Places(s, S)
           Q == Places(t, S)
           R == {n + j : j \in Q}
           f == [j \in Q |-> n + j]
<1>1. /\ n \in Nat /\ Len(t) \in Nat /\ Len(u) = n + Len(t)
      /\ \A j \in 1 .. n : u[j] = s[j]
      /\ \A j \in 1 .. Len(t) : u[n + j] = t[j]
  OBVIOUS
<1>2. IsFiniteSet(P) /\ IsFiniteSet(Q)
  BY AmongType
<1>3. Q \subseteq 1 .. Len(t) /\ P \subseteq 1 .. n
  BY DEF Places
<1>4. Places(u, S) = P \cup R
  <2> HIDE DEF u
  <2>1. ASSUME NEW j \in Places(u, S) PROVE j \in P \cup R
    <3>1. j \in 1 .. n + Len(t) /\ u[j] \in S
      BY <1>1, <2>1 DEF Places
    <3>2. CASE j <= n
      BY <1>1, <3>1, <3>2 DEF Places
    <3>3. CASE j > n
      <4>1. j - n \in 1 .. Len(t) /\ j = n + (j - n)
        BY <1>1, <3>1, <3>3
      <4>2. j - n \in Q
        BY <1>1, <3>1, <4>1 DEF Places
      <4> QED BY <4>1, <4>2
    <3>4. j <= n \/ j > n
      BY <1>1, <3>1
    <3> HIDE DEF n, P, Q
    <3> QED BY <3>2, <3>3, <3>4
  <2>2. ASSUME NEW j \in P PROVE j \in Places(u, S)
    BY <1>1, <2>2 DEF Places
  <2>3. ASSUME NEW j \in Q PROVE n + j \in Places(u, S)
    BY <1>1, <2>3 DEF Places
  <2> QED BY <2>1, <2>2, <2>3
<1> HIDE DEF P, Q, n
<1>5. IsFiniteSet(R) /\ Cardinality(R) = Cardinality(Q)
  <2>1. f \in Bijection(Q, R)
    <3>1. \A a, b \in Q : f[a] = f[b] => a = b
      BY <1>1, <1>3
    <3>2. f \in Surjection(Q, R)
      BY <1>1, <1>3 DEF Surjection
    <3>3. f \in Injection(Q, R)
      BY <3>1 DEF Injection, IsInjective
    <3> QED BY <3>2, <3>3 DEF Bijection
  <2> HIDE DEF f, R
  <2>2. ExistsBijection(Q, R)
    BY <2>1 DEF ExistsBijection
  <2> QED BY <1>2, <2>2, FS_Bijection
<1>6. P \cap R = {}
  BY <1>1, <1>3
<1>7. Cardinality(P \cup R) = Cardinality(P) + Cardinality(R)
  <2> HIDE DEF R
  <2>1. Cardinality(P \cup R) = Cardinality(P) + Cardinality(R) - Cardinality(P \cap R)
    BY <1>2, <1>5, FS_Union
  <2>2. Cardinality(P \cap R) = 0 /\ Cardinality(P) \in Nat /\ Cardinality(R) \in Nat
    BY <1>2, <1>5, <1>6, FS_EmptySet, FS_CardinalityType
  <2> QED BY <2>1, <2>2
<1> QED BY <1>4, <1>5, <1>7 DEF Among, P, Q

(* A sequence is what is before j, its element at j and what is after. *)
AroundAt(s, j, a, b) ==
  /\ Len(a) = j - 1 /\ \A i \in 1 .. j - 1 : a[i] = s[i]
  /\ Len(b) = Len(s) - j /\ \A i \in 1 .. Len(s) - j : b[i] = s[j + i]
  /\ s = Append(a, s[j]) \o b /\ RemoveAt(s, j) = a \o b

LEMMA PartedAt ==
  ASSUME NEW E, NEW s \in Seq(E), NEW j \in 1 .. Len(s)
  PROVE  \E a, b \in Seq(E) : AroundAt(s, j, a, b)
<1> DEFINE a == SubSeq(s, 1, j - 1)
           b == SubSeq(s, j + 1, Len(s))
<1>0. Len(s) \in Nat /\ s[j] \in E
  OBVIOUS
<1>1. a \in Seq(E) /\ Len(a) = j - 1 /\ \A i \in 1 .. j - 1 : a[i] = s[i]
  BY <1>0
<1>2. b \in Seq(E) /\ Len(b) = Len(s) - j /\ \A i \in 1 .. Len(s) - j : b[i] = s[j + i]
  BY <1>0
<1> DEFINE c == Append(a, s[j])
           t == c \o b
<1>3. /\ c \in Seq(E) /\ Len(c) = j /\ c[j] = s[j]
      /\ \A i \in 1 .. j - 1 : c[i] = a[i]
  BY <1>0, <1>1
<1> HIDE DEF c
<1>5a. RemoveAt(s, j) = a \o b
  BY DEF RemoveAt
<1> HIDE DEF a, b
<1>4. /\ t \in Seq(E) /\ Len(t) = j + (Len(s) - j)
      /\ \A i \in 1 .. j + (Len(s) - j) : t[i] = IF i <= j THEN c[i] ELSE b[i - j]
  <2>1. /\ t \in Seq(E) /\ Len(t) = Len(c) + Len(b)
        /\ \A i \in 1 .. Len(c) + Len(b) : t[i] = IF i <= Len(c) THEN c[i] ELSE b[i - Len(c)]
    BY <1>2, <1>3, ConcatProperties
  <2> HIDE DEF t
  <2> QED BY <1>2, <1>3, <2>1
<1> HIDE DEF t
<1>5. ASSUME NEW i \in 1 .. Len(s) PROVE s[i] = t[i]
  <2>0. i \in 1 .. j + (Len(s) - j)
    BY <1>0
  <2>1. CASE i < j
    BY <1>1, <1>3, <1>4, <2>0, <2>1
  <2>2. CASE i = j
    BY <1>3, <1>4, <2>0, <2>2
  <2>3. CASE i > j
    <3>1. i - j \in 1 .. Len(s) - j /\ j + (i - j) = i
      BY <1>0, <2>3
    <3> QED BY <1>2, <1>4, <2>0, <2>3, <3>1
  <2> QED BY <2>1, <2>2, <2>3
<1>6. s = t
  <2>1. Len(s) = Len(t)
    BY <1>0, <1>4
  <2> QED BY <1>4, <1>5, <2>1, SeqEqual
<1> QED BY <1>0, <1>1, <1>2, <1>5a, <1>6 DEF c, t, AroundAt

LEMMA WithoutIs ==
  ASSUME NEW E, NEW s \in Seq(E), NEW j \in 1 .. Len(s)
  PROVE  /\ RemoveAt(s, j) \in Seq(E) /\ Len(RemoveAt(s, j)) = Len(s) - 1
         /\ \A i \in 1 .. Len(RemoveAt(s, j)) : \E k \in 1 .. Len(s) : RemoveAt(s, j)[i] = s[k]
<1> DEFINE t == RemoveAt(s, j)
<1>0. Len(s) \in Nat
  OBVIOUS
<1>1b. PICK a \in Seq(E), b \in Seq(E) : AroundAt(s, j, a, b)
  BY PartedAt
<1>1. /\ Len(a) = j - 1 /\ \A i \in 1 .. j - 1 : a[i] = s[i]
      /\ Len(b) = Len(s) - j /\ \A i \in 1 .. Len(s) - j : b[i] = s[j + i]
  BY <1>1b DEF AroundAt
<1>1a. t = a \o b
  BY <1>1b DEF AroundAt
<1> HIDE DEF t
<1>2. /\ t \in Seq(E) /\ Len(t) = (j - 1) + (Len(s) - j)
      /\ \A i \in 1 .. (j - 1) + (Len(s) - j) : t[i] = IF i <= j - 1 THEN a[i] ELSE b[i - (j - 1)]
  <2>1. /\ t \in Seq(E) /\ Len(t) = Len(a) + Len(b)
        /\ \A i \in 1 .. Len(a) + Len(b) : t[i] = IF i <= Len(a) THEN a[i] ELSE b[i - Len(a)]
    BY <1>1a, ConcatProperties
  <2> QED BY <1>1, <2>1
<1>3. ASSUME NEW i \in 1 .. Len(t) PROVE \E k \in 1 .. Len(s) : t[i] = s[k]
  <2>0. i \in 1 .. (j - 1) + (Len(s) - j)
    BY <1>2
  <2>1. CASE i <= j - 1
    <3>1. i \in 1 .. j - 1 /\ i \in 1 .. Len(s)
      BY <1>0, <2>0, <2>1
    <3> QED BY <1>1, <1>2, <2>0, <2>1, <3>1
  <2>2. CASE i > j - 1
    <3>1. i - (j - 1) \in 1 .. Len(s) - j /\ j + (i - (j - 1)) = i + 1 /\ i + 1 \in 1 .. Len(s)
      BY <1>0, <2>0, <2>2
    <3>2. t[i] = s[i + 1]
      BY <1>1, <1>2, <2>0, <2>2, <3>1
    <3> QED BY <3>1, <3>2
  <2> QED BY <2>0, <2>1, <2>2
<1> QED BY <1>0, <1>2, <1>3 DEF t

LEMMA AmongWithout ==
  ASSUME NEW E, NEW s \in Seq(E), NEW j \in 1 .. Len(s), NEW S
  PROVE  Among(s, S) = Among(RemoveAt(s, j), S) + One(s[j], S)
<1>0. PICK a \in Seq(E), b \in Seq(E) : AroundAt(s, j, a, b)
  BY PartedAt
<1>1a. s[j] \in E
  OBVIOUS
<1>1b. s = Append(a, s[j]) \o b /\ RemoveAt(s, j) = a \o b
  BY <1>0, Zenon DEF AroundAt
<1>1. s[j] \in E /\ s = Append(a, s[j]) \o b /\ RemoveAt(s, j) = a \o b
  BY <1>1a, <1>1b, Zenon
<1>2. Append(a, s[j]) \in Seq(E)
  BY <1>1
<1>3. Among(Append(a, s[j]) \o b, S) = Among(Append(a, s[j]), S) + Among(b, S)
  BY <1>1, <1>2, AmongConcat
<1>4. Among(Append(a, s[j]), S) = Among(a, S) + One(s[j], S)
  BY <1>1, AmongAppend
<1>5. Among(a \o b, S) = Among(a, S) + Among(b, S)
  BY <1>1, AmongConcat
<1>6. Among(a, S) \in Nat /\ Among(b, S) \in Nat /\ One(s[j], S) \in Nat
  BY <1>1, AmongType DEF One
<1>7. Among(s, S) = Among(Append(a, s[j]) \o b, S)
  BY <1>1
<1> QED BY <1>1, <1>3, <1>4, <1>5, <1>6, <1>7

-----------------------------------------------------------------------------
(* The entries of a tree. *)
Found(ns, S) == {slot \in Slots(ns) : EntryAt(ns, slot) \in S}

InNode(ns, i, S) == {i} \X Places(ns[i].points, S)

LEMMA SlotsAre ==
  ASSUME NEW ns \in Seq(NodeSet), NEW S
  PROVE  /\ \A i \in 1 .. Len(ns) : ns[i].points \in Seq(Entry)
         /\ Found(ns, S) = UNION {InNode(ns, i, S) : i \in 1 .. Len(ns)}
         /\ Count(ns, S) = Cardinality(Found(ns, S))
<1>1. \A i \in 1 .. Len(ns) : ns[i].points \in Seq(Entry)
  BY NodeFields
<1>2. \A i \in 1 .. Len(ns) : DOMAIN ns[i].points = 1 .. Len(ns[i].points)
  BY <1>1
<1>3. DOMAIN ns = 1 .. Len(ns)
  OBVIOUS
<1>4. ASSUME NEW slot \in Found(ns, S)
      PROVE  \E i \in 1 .. Len(ns) : slot \in InNode(ns, i, S)
  <2>1. PICK i \in 1 .. Len(ns) : slot \in {i} \X DOMAIN ns[i].points
    BY <1>3, <1>4 DEF Found, Slots
  <2>2. slot[1] = i /\ slot[2] \in 1 .. Len(ns[i].points) /\ slot = <<i, slot[2]>>
    BY <1>2, <2>1
  <2>3. ns[i].points[slot[2]] \in S
    BY <1>4, <2>2 DEF Found, EntryAt
  <2> QED BY <2>2, <2>3 DEF InNode, Places
<1>5. ASSUME NEW i \in 1 .. Len(ns), NEW slot \in InNode(ns, i, S)
      PROVE  slot \in Found(ns, S)
  <2>1. slot[1] = i /\ slot[2] \in Places(ns[i].points, S) /\ slot = <<i, slot[2]>>
    BY <1>5 DEF InNode
  <2>2. slot[2] \in 1 .. Len(ns[i].points) /\ ns[i].points[slot[2]] \in S
    BY <2>1 DEF Places
  <2>3. slot \in {i} \X DOMAIN ns[i].points
    BY <1>2, <2>1, <2>2
  <2>4. slot \in Slots(ns)
    BY <1>3, <2>3 DEF Slots
  <2>5. EntryAt(ns, slot) \in S
    BY <2>1, <2>2 DEF EntryAt
  <2> QED BY <2>4, <2>5 DEF Found
<1>6. Found(ns, S) = UNION {InNode(ns, i, S) : i \in 1 .. Len(ns)}
  BY <1>4, <1>5
<1> QED BY <1>1, <1>6 DEF Count, Found

LEMMA InNodeIs ==
  ASSUME NEW ns \in Seq(NodeSet), NEW i \in 1 .. Len(ns), NEW S
  PROVE  /\ IsFiniteSet(InNode(ns, i, S))
         /\ Cardinality(InNode(ns, i, S)) = Among(ns[i].points, S)
<1> DEFINE P == Places(ns[i].points, S)
           f == [j \in P |-> <<i, j>>]
           R == {i} \X P
<1>1. ns[i].points \in Seq(Entry)
  BY SlotsAre
<1>2. IsFiniteSet(P)
  BY <1>1, AmongType
<1> HIDE DEF P
<1>3. f \in Bijection(P, R)
  <2>1. f \in [P -> R] /\ \A a, b \in P : f[a] = f[b] => a = b
    OBVIOUS
  <2>2. \A r \in R : \E j \in P : f[j] = r
    OBVIOUS
  <2>3. f \in Injection(P, R)
    BY <2>1 DEF Injection, IsInjective
  <2>4. f \in Surjection(P, R)
    BY <2>1, <2>2 DEF Surjection
  <2> QED BY <2>3, <2>4 DEF Bijection
<1> HIDE DEF f, R
<1>4. ExistsBijection(P, R)
  BY <1>3 DEF ExistsBijection
<1>5. IsFiniteSet(R) /\ Cardinality(R) = Cardinality(P)
  BY <1>2, <1>4, FS_Bijection
<1> QED BY <1>5 DEF InNode, Among, P, R

LEMMA FoundIsFinite ==
  ASSUME NEW ns \in Seq(NodeSet), NEW S
  PROVE  IsFiniteSet(Found(ns, S)) /\ Count(ns, S) \in Nat
<1> DEFINE D == 1 .. Len(ns)
           U == {InNode(ns, i, S) : i \in D}
           f == [i \in D |-> InNode(ns, i, S)]
<1>1. IsFiniteSet(D)
  <2>1. Len(ns) \in Nat
    OBVIOUS
  <2> QED BY <2>1, FS_Interval
<1>2. f \in Surjection(D, U)
  BY DEF Surjection
<1>3. \A T \in U : IsFiniteSet(T)
  BY InNodeIs
<1>4. IsFiniteSet(U)
  <2> HIDE DEF U, f, D
  <2> QED BY <1>1, <1>2, FS_Surjection
<1>5. IsFiniteSet(UNION U)
  <2> HIDE DEF U
  <2> QED BY <1>3, <1>4, FS_UNION
<1> QED BY <1>5, SlotsAre, FS_CardinalityType, ZenonT(60)

(* They are counted node by node: two trees differ by what one node holds. *)
LEMMA CountDiffers ==
  ASSUME NEW ns \in Seq(NodeSet), NEW t \in Seq(NodeSet), Len(t) = Len(ns),
         NEW i \in 1 .. Len(ns), \A k \in 1 .. Len(ns) : k # i => t[k].points = ns[k].points,
         NEW S
  PROVE  Count(t, S) + Among(ns[i].points, S) = Count(ns, S) + Among(t[i].points, S)
<1> DEFINE Rest(u) == UNION {InNode(u, k, S) : k \in (1 .. Len(ns)) \ {i}}
<1>1. Rest(t) = Rest(ns)
  BY DEF InNode
<1>2. ASSUME NEW u \in Seq(NodeSet), Len(u) = Len(ns)
      PROVE  /\ IsFiniteSet(Rest(u)) /\ Cardinality(Rest(u)) \in Nat
             /\ Count(u, S) = Cardinality(Rest(u)) + Among(u[i].points, S)
  <2> DEFINE R == Rest(u)
             N == InNode(u, i, S)
  <2>1. Found(u, S) = R \cup N
    BY <1>2, SlotsAre
  <2>2. R \cap N = {}
    BY DEF InNode
  <2>3. IsFiniteSet(N) /\ Cardinality(N) = Among(u[i].points, S)
    BY <1>2, InNodeIs
  <2>4. IsFiniteSet(R)
    <3>1. R \subseteq Found(u, S)
      BY <2>1
    <3> HIDE DEF R
    <3> QED BY <3>1, FoundIsFinite, FS_Subset
  <2> HIDE DEF R, N
  <2>5. Cardinality(R \cup N) = Cardinality(R) + Cardinality(N) - Cardinality(R \cap N)
    BY <2>3, <2>4, FS_Union
  <2>6. Cardinality(R \cap N) = 0 /\ Cardinality(R) \in Nat /\ Cardinality(N) \in Nat
    BY <2>2, <2>3, <2>4, FS_EmptySet, FS_CardinalityType
  <2>7. Count(u, S) = Cardinality(R) + Among(u[i].points, S)
    <3>1. Count(u, S) = Cardinality(Found(u, S))
      BY <1>2, SlotsAre
    <3>2. Count(u, S) = Cardinality(R \cup N)
      BY <2>1, <3>1
    <3> QED BY <2>3, <2>5, <2>6, <3>2
  <2> QED BY <2>4, <2>6, <2>7 DEF R
<1>3. \A k \in 1 .. Len(ns) : ns[k].points \in Seq(Entry) /\ t[k].points \in Seq(Entry)
  BY SlotsAre
<1>4. Among(ns[i].points, S) \in Nat /\ Among(t[i].points, S) \in Nat
  BY <1>3, AmongType
<1>5. /\ Count(ns, S) = Cardinality(Rest(ns)) + Among(ns[i].points, S)
      /\ Count(t, S) = Cardinality(Rest(ns)) + Among(t[i].points, S)
      /\ Cardinality(Rest(ns)) \in Nat
  <2> HIDE DEF Rest
  <2> QED BY <1>1, <1>2
<1> HIDE DEF Rest
<1> QED BY <1>4, <1>5

(* Whether there are any, and where those of one place are. *)
LEMMA CountSome ==
  ASSUME NEW ns \in Seq(NodeSet), NEW S
  PROVE  Count(ns, S) > 0
           <=> \E i \in 1 .. Len(ns) : \E j \in 1 .. Len(ns[i].points) : ns[i].points[j] \in S
<1>1. Count(ns, S) = 0 <=> Found(ns, S) = {}
  BY FoundIsFinite, SlotsAre, FS_EmptySet
<1>2. Found(ns, S) = UNION {InNode(ns, i, S) : i \in 1 .. Len(ns)}
  BY SlotsAre
<1>3. ASSUME NEW i \in 1 .. Len(ns)
      PROVE  InNode(ns, i, S) # {} <=> \E j \in 1 .. Len(ns[i].points) : ns[i].points[j] \in S
  <2>1. \A j \in Places(ns[i].points, S) : <<i, j>> \in InNode(ns, i, S)
    BY DEF InNode
  <2>2. \A x \in InNode(ns, i, S) : x[2] \in Places(ns[i].points, S)
    BY DEF InNode
  <2>3. InNode(ns, i, S) # {} <=> Places(ns[i].points, S) # {}
    BY <2>1, <2>2
  <2>4. Places(ns[i].points, S) # {} <=> \E j \in 1 .. Len(ns[i].points) : ns[i].points[j] \in S
    BY DEF Places
  <2> QED BY <2>3, <2>4
<1>4. Found(ns, S) # {} <=> \E i \in 1 .. Len(ns) : InNode(ns, i, S) # {}
  BY <1>2
<1>5. Count(ns, S) \in Nat
  BY FoundIsFinite
<1>6. Count(ns, S) > 0 <=> Found(ns, S) # {}
  BY <1>1, <1>5
<1> QED BY <1>3, <1>4, <1>6

LEMMA CountAt ==
  ASSUME NEW ns, Shape(ns), NEW p \in InRange, NEW S, \A e \in S : e.pos = p
  PROVE  Count(ns, S) = Among(ns[Leaf(ns, p)].points, S)
<1> DEFINE k == Leaf(ns, p)
<1>1. ns \in Seq(NodeSet) /\ k \in 1 .. Len(ns)
  BY LeafIs DEF Shape, Framed, IsLeafOf
<1>2. \A i \in 1 .. Len(ns) : i # k => InNode(ns, i, S) = {}
  <2> SUFFICES ASSUME NEW i \in 1 .. Len(ns), i # k, NEW j \in Places(ns[i].points, S)
               PROVE  FALSE
    BY DEF InNode
  <2>1. j \in 1 .. Len(ns[i].points) /\ ns[i].points[j] \in S
    BY DEF Places
  <2>2. ns[i].points[j].pos = p
    BY <2>1
  <2> QED BY <2>1, <2>2, EntriesInLeaf
<1> HIDE DEF k
<1>3. Found(ns, S) = InNode(ns, k, S)
  <2>1. Found(ns, S) = UNION {InNode(ns, i, S) : i \in 1 .. Len(ns)}
    BY <1>1, SlotsAre
  <2>2. UNION {InNode(ns, i, S) : i \in 1 .. Len(ns)} = InNode(ns, k, S)
    BY <1>1, <1>2
  <2> QED BY <2>1, <2>2
<1>4. Count(ns, S) = Among(ns[k].points, S)
  BY <1>1, <1>3, SlotsAre, InNodeIs
<1> QED BY <1>4 DEF k

(* Only entries of the tree's type count. *)
LEMMA CountSameAs ==
  ASSUME NEW ns, Shape(ns), NEW S, NEW T, \A e \in Entry : e \in S <=> e \in T
  PROVE  Count(ns, S) = Count(ns, T)
<1>1. ns \in Seq(NodeSet)
  BY DEF Shape, Framed
<1>2. \A i \in 1 .. Len(ns) : InNode(ns, i, S) = InNode(ns, i, T)
  BY EntriesInRange DEF InNode, Places
<1>3. Found(ns, S) = Found(ns, T)
  <2>1. /\ Found(ns, S) = UNION {InNode(ns, i, S) : i \in 1 .. Len(ns)}
        /\ Found(ns, T) = UNION {InNode(ns, i, T) : i \in 1 .. Len(ns)}
    BY <1>1, SlotsAre
  <2>2. {InNode(ns, i, S) : i \in 1 .. Len(ns)} = {InNode(ns, i, T) : i \in 1 .. Len(ns)}
    BY <1>2
  <2> QED BY <2>1, <2>2
<1> QED BY <1>1, <1>3, SlotsAre

-----------------------------------------------------------------------------
(* What a node is given. *)
LEMMA HoldingIs ==
  ASSUME NEW ns \in Seq(NodeSet), NEW i \in 1 .. Len(ns), NEW s \in Seq(Entry)
  PROVE  /\ Holding(ns, i, s) \in Seq(NodeSet) /\ SameFrame(Holding(ns, i, s), ns)
         /\ Holding(ns, i, s)[i].points = s
         /\ \A k \in 1 .. Len(ns) : k # i => Holding(ns, i, s)[k] = ns[k]
<1> DEFINE t == Holding(ns, i, s)
<1>1. ns[i] \in NodeSet
  OBVIOUS
<1>2. t = [ns EXCEPT ![i] = [ns[i] EXCEPT !.points = s]]
  BY DEF Holding
<1>3. [ns[i] EXCEPT !.points = s] \in NodeSet
  BY <1>1 DEF NodeSet
<1>4. t \in Seq(NodeSet) /\ Len(t) = Len(ns)
  <2> DEFINE m == [ns[i] EXCEPT !.points = s]
  <2> HIDE DEF m, t
  <2> QED BY <1>2, <1>3 DEF m
<1>5. \A k \in 1 .. Len(ns) : k # i => t[k] = ns[k]
  BY <1>2
<1>6. t[i] = [ns[i] EXCEPT !.points = s]
  BY <1>2
<1>7. t[i].points = s /\ t[i].first_child = ns[i].first_child /\ SameBox(t[i], ns[i])
  BY <1>1, <1>6 DEF NodeSet, SameBox
<1> HIDE DEF t
<1>8. \A k \in 1 .. Len(ns) : t[k].first_child = ns[k].first_child /\ SameBox(t[k], ns[k])
  BY <1>5, <1>7 DEF SameBox
<1> QED BY <1>4, <1>5, <1>7, <1>8 DEF t, SameFrame

LEMMA FrameKept ==
  ASSUME NEW ns, Framed(ns), NEW t \in Seq(NodeSet), SameFrame(t, ns)
  PROVE  Framed(t)
<1>1. /\ Len(t) = Len(ns)
      /\ \A i \in 1 .. Len(ns) : t[i].first_child = ns[i].first_child /\ SameBox(t[i], ns[i])
  BY DEF SameFrame
<1>2. Len(t) >= 1 /\ SameBox(t[1], Node(0, Side, 0, Side, 0))
  BY <1>1 DEF Framed, SameBox
<1>3. \A i \in 1 .. Len(t) : Proper(t[i])
  BY <1>1 DEF Framed, SameBox, Proper
<1>4. ASSUME NEW i \in 1 .. Len(t), t[i].first_child # 0 PROVE Parted(t, i)
  <2> DEFINE c == ns[i].first_child
  <2>1. c > i /\ c + 3 <= Len(ns) /\ c \in Nat /\ t[i].first_child = c
    BY <1>1, <1>4, ChildrenAre
  <2>2. ASSUME NEW k \in 1 .. 4 PROVE SameBox(t[c + k - 1], Quarters(t[i])[k])
    <3>1. c + k - 1 \in 1 .. Len(ns)
      BY <2>1
    <3>2. SameBox(ns[c + k - 1], Quarters(ns[i])[k])
      BY <1>1, <1>4 DEF Framed, Parted
    <3>3. Quarters(t[i]) = Quarters(ns[i])
      <4>1. SameBox(t[i], ns[i])
        BY <1>1
      <4> QED BY <4>1 DEF SameBox, Quarters
    <3>4. SameBox(t[c + k - 1], ns[c + k - 1])
      BY <1>1, <3>1
    <3> QED BY <3>2, <3>3, <3>4 DEF SameBox
  <2> HIDE DEF c
  <2> QED BY <1>1, <2>1, <2>2 DEF Parted
<1>5. ASSUME NEW k \in 2 .. Len(t)
      PROVE  \E i \in 1 .. k - 1 : t[i].first_child # 0 /\ k \in Children(t, i)
  <2>1. PICK i \in 1 .. k - 1 : ns[i].first_child # 0 /\ k \in Children(ns, i)
    BY <1>1 DEF Framed
  <2>2. t[i].first_child = ns[i].first_child
    BY <1>1
  <2> QED BY <2>1, <2>2 DEF Children
<1> QED BY <1>2, <1>3, <1>4, <1>5 DEF Framed

(* Another content of a leaf: each entry in its box, and not too many. *)
LEMMA HoldingShape ==
  ASSUME NEW ns, Shape(ns), NEW i \in 1 .. Len(ns), ns[i].first_child = 0,
         NEW s \in Seq(Entry), \A j \in 1 .. Len(s) : ContainsNode(ns[i], s[j].pos)
  PROVE  /\ Shape(Holding(ns, i, s)) /\ SameFrame(Holding(ns, i, s), ns)
         /\ \A S : Count(Holding(ns, i, s), S) + Among(ns[i].points, S) = Count(ns, S) + Among(s, S)
<1> DEFINE t == Holding(ns, i, s)
<1>0. Framed(ns) /\ ns \in Seq(NodeSet)
  BY DEF Shape, Framed
<1>1. /\ t \in Seq(NodeSet) /\ SameFrame(t, ns) /\ t[i].points = s
      /\ \A k \in 1 .. Len(ns) : k # i => t[k] = ns[k]
  BY <1>0, HoldingIs
<1> HIDE DEF t
<1>2. Len(t) = Len(ns) /\ t[i].first_child = 0 /\ SameBox(t[i], ns[i])
  BY <1>1 DEF SameFrame
<1>3. Framed(t)
  BY <1>0, <1>1, FrameKept
<1>4. \A k \in 1 .. Len(t) : Kept(t[k])
  <2>1. Kept(t[i])
    BY <1>1, <1>2, SameBoxContains DEF Kept
  <2> QED BY <1>1, <1>2, <2>1 DEF Shape
<1>5. \A S : Count(t, S) + Among(ns[i].points, S) = Count(ns, S) + Among(s, S)
  BY <1>0, <1>1, <1>2, CountDiffers
<1> QED BY <1>1, <1>3, <1>4, <1>5 DEF Shape, t

(* A new entry at the end of its leaf. *)
LEMMA PushBackIs ==
  ASSUME NEW ns, Shape(ns), NEW e \in Entry, NEW i, IsLeafOf(ns, i, e.pos)
  PROVE  /\ Shape(PushBack(ns, i, e)) /\ SameFrame(PushBack(ns, i, e), ns)
         /\ Len(PushBack(ns, i, e)[i].points) = Len(ns[i].points) + 1
         /\ \A k \in 1 .. Len(ns) : k # i => PushBack(ns, i, e)[k] = ns[k]
         /\ \A S : Count(PushBack(ns, i, e), S) = Count(ns, S) + One(e, S)
<1> DEFINE s == Append(ns[i].points, e)
           t == Holding(ns, i, s)
<1>0. /\ i \in 1 .. Len(ns) /\ ns[i].first_child = 0 /\ ContainsNode(ns[i], e.pos)
      /\ ns \in Seq(NodeSet)
  BY DEF IsLeafOf, Shape, Framed
<1>1. ns[i].points \in Seq(Entry)
  BY <1>0, SlotsAre
<1>2. s \in Seq(Entry) /\ Len(s) = Len(ns[i].points) + 1
  BY <1>1
<1>3. ASSUME NEW j \in 1 .. Len(s) PROVE ContainsNode(ns[i], s[j].pos)
  <2>1. CASE j = Len(s)
    <3>1. s[j] = e
      BY <1>1, <1>2, <2>1
    <3> QED BY <1>0, <3>1
  <2>2. CASE j # Len(s)
    <3>1. j \in 1 .. Len(ns[i].points) /\ s[j] = ns[i].points[j]
      BY <1>1, <1>2, <2>2
    <3> QED BY <1>0, <3>1, EntriesInRange DEF IsLeafOf
  <2> QED BY <2>1, <2>2
<1>4. \A S : Among(s, S) = Among(ns[i].points, S) + One(e, S)
  BY <1>1, AmongAppend
<1>5. t = PushBack(ns, i, e)
  BY DEF PushBack
<1> HIDE DEF t, s
<1>6. /\ Shape(t) /\ SameFrame(t, ns)
      /\ \A S : Count(t, S) + Among(ns[i].points, S) = Count(ns, S) + Among(s, S)
  BY <1>0, <1>2, <1>3, HoldingShape DEF t
<1>7. t[i].points = s /\ \A k \in 1 .. Len(ns) : k # i => t[k] = ns[k]
  BY <1>0, <1>2, HoldingIs DEF t
<1>8. ASSUME NEW S PROVE Count(t, S) = Count(ns, S) + One(e, S)
  <2>1. t \in Seq(NodeSet)
    BY <1>6 DEF Shape, Framed
  <2>2. /\ Count(t, S) \in Nat /\ Count(ns, S) \in Nat /\ One(e, S) \in Nat
        /\ Among(ns[i].points, S) \in Nat
    BY <1>0, <1>1, <2>1, FoundIsFinite, AmongType DEF One
  <2> QED BY <1>4, <1>6, <2>2
<1> QED BY <1>2, <1>5, <1>6, <1>7, <1>8

(* An entry less. *)
LEMMA DropIs ==
  ASSUME NEW ns, Well(ns), NEW i \in 1 .. Len(ns), NEW j \in 1 .. Len(ns[i].points)
  PROVE  /\ Well(Holding(ns, i, RemoveAt(ns[i].points, j)))
         /\ \A S : Count(ns, S) = Count(Holding(ns, i, RemoveAt(ns[i].points, j)), S)
                                      + One(ns[i].points[j], S)
<1> DEFINE p == ns[i].points
           s == RemoveAt(p, j)
           t == Holding(ns, i, s)
<1>0. Shape(ns) /\ ns \in Seq(NodeSet) /\ IsLeafOf(ns, i, p[j].pos) /\ ns[i].first_child = 0
  BY EntriesInRange DEF Well, Shape, Framed, IsLeafOf
<1>1. p \in Seq(Entry)
  BY <1>0, SlotsAre
<1>2. \A k \in 1 .. Len(p) : ContainsNode(ns[i], p[k].pos)
  BY <1>0, EntriesInRange DEF IsLeafOf
<1> HIDE DEF p
<1>3. /\ s \in Seq(Entry) /\ Len(s) = Len(p) - 1
      /\ \A k \in 1 .. Len(s) : \E l \in 1 .. Len(p) : s[k] = p[l]
  BY <1>1, WithoutIs DEF p
<1>4. \A S : Among(p, S) = Among(s, S) + One(p[j], S)
  BY <1>1, AmongWithout DEF p
<1>5. Len(p) \in Nat
  BY <1>1
<1> HIDE DEF s
<1>6. \A k \in 1 .. Len(s) : ContainsNode(ns[i], s[k].pos)
  BY <1>2, <1>3
<1> HIDE DEF t
<1>7. /\ Shape(t) /\ SameFrame(t, ns)
      /\ \A S : Count(t, S) + Among(p, S) = Count(ns, S) + Among(s, S)
  BY <1>0, <1>3, <1>6, HoldingShape DEF t, p
<1>8. t[i].points = s /\ \A k \in 1 .. Len(ns) : k # i => t[k] = ns[k]
  BY <1>0, <1>3, HoldingIs, ZenonT(60) DEF t
<1>9. ASSUME NEW S PROVE Count(ns, S) = Count(t, S) + One(p[j], S)
  <2>1. t \in Seq(NodeSet)
    BY <1>7 DEF Shape, Framed
  <2>2. /\ Count(t, S) \in Nat /\ Count(ns, S) \in Nat /\ One(p[j], S) \in Nat
        /\ Among(s, S) \in Nat
    BY <1>0, <1>3, <2>1, FoundIsFinite, AmongType DEF One
  <2> QED BY <1>4, <1>7, <2>2, SMTT(30)
<1>10. Roomy(t)
  <2> SUFFICES ASSUME NEW k \in 1 .. Len(ns), Len(t[k].points) > MaxPoints
               PROVE  t[k].depth = MaxDepth
    BY <1>7 DEF Roomy, SameFrame
  <2>1. t[k].depth = ns[k].depth
    BY <1>7 DEF SameFrame, SameBox
  <2>2. Len(ns[k].points) > MaxPoints
    <3>1. CASE k = i
      BY <1>3, <1>5, <1>8, <3>1, SidesType DEF p
    <3>2. CASE k # i
      BY <1>8, <3>2
    <3> QED BY <3>1, <3>2
  <2> QED BY <2>1, <2>2 DEF Well, Roomy
<1> QED BY <1>7, <1>9, <1>10 DEF Well, t, s, p

-----------------------------------------------------------------------------
(* A leaf that becomes the parent of four empty leaves. *)
Opened(ns, i) ==
  [ns EXCEPT ![i].points = <<>>, ![i].first_child = Len(ns) + 1] \o Quarters(ns[i])

CanOpen(ns, i) == Shape(ns) /\ i \in 1 .. Len(ns) /\ ns[i].first_child = 0 /\ ns[i].depth < MaxDepth

LEMMA OpenedIs ==
  ASSUME NEW ns, NEW i, CanOpen(ns, i)
  PROVE  /\ Opened(ns, i) \in Seq(NodeSet) /\ Len(Opened(ns, i)) = Len(ns) + 4
         /\ \A k \in 1 .. Len(ns) : k # i => Opened(ns, i)[k] = ns[k]
         /\ SameBox(Opened(ns, i)[i], ns[i])
         /\ Opened(ns, i)[i].points = <<>> /\ Opened(ns, i)[i].first_child = Len(ns) + 1
         /\ \A k \in 1 .. 4 : Opened(ns, i)[Len(ns) + k] = Quarters(ns[i])[k]
<1> DEFINE m == [ns[i] EXCEPT !.points = <<>>, !.first_child = Len(ns) + 1]
           a == [ns EXCEPT ![i] = m]
           b == Quarters(ns[i])
<1>1. /\ ns \in Seq(NodeSet) /\ i \in 1 .. Len(ns) /\ Len(ns) \in Nat
      /\ ns[i] \in NodeSet /\ Proper(ns[i]) /\ ns[i].depth < MaxDepth
  BY NodeType DEF CanOpen, Shape, Framed
<1>2. b \in Seq(NodeSet) /\ Len(b) = 4
  BY <1>1, QuartersAre
<1>3. m \in NodeSet
  <2>1. Len(ns) + 1 \in Nat /\ <<>> \in Seq(Entry)
    BY <1>1
  <2>2. \A x \in NodeSet, s \in Seq(Entry), c \in Nat :
          [x EXCEPT !.points = s, !.first_child = c] \in NodeSet
    BY DEF NodeSet
  <2> QED BY <1>1, <2>1, <2>2
<1>4. SameBox(m, ns[i]) /\ m.points = <<>> /\ m.first_child = Len(ns) + 1
  BY <1>1 DEF NodeSet, SameBox
<1>5. Opened(ns, i) = a \o b
  BY <1>1 DEF Opened
<1> HIDE DEF m, b
<1>6. /\ a \in Seq(NodeSet) /\ Len(a) = Len(ns) /\ a[i] = m
      /\ \A k \in 1 .. Len(ns) : k # i => a[k] = ns[k]
  BY <1>1, <1>3
<1> HIDE DEF a
<1>7. /\ a \o b \in Seq(NodeSet) /\ Len(a \o b) = Len(ns) + 4
      /\ \A k \in 1 .. Len(ns) + 4 : (a \o b)[k] = IF k <= Len(ns) THEN a[k] ELSE b[k - Len(ns)]
  <2>0. a \in Seq(NodeSet) /\ b \in Seq(NodeSet)
    BY <1>2, <1>6
  <2>1. /\ a \o b \in Seq(NodeSet) /\ Len(a \o b) = Len(a) + Len(b)
        /\ \A k \in 1 .. Len(a) + Len(b) : (a \o b)[k] = IF k <= Len(a) THEN a[k] ELSE b[k - Len(a)]
    BY <2>0, ConcatProperties
  <2> QED BY <1>2, <1>6, <2>1
<1>8. \A k \in 1 .. Len(ns) : (a \o b)[k] = a[k]
  BY <1>1, <1>7
<1>9. ASSUME NEW k \in 1 .. 4 PROVE (a \o b)[Len(ns) + k] = b[k]
  <2>1. /\ Len(ns) + k \in 1 .. Len(ns) + 4 /\ ~(Len(ns) + k <= Len(ns))
        /\ Len(ns) + k - Len(ns) = k
    BY <1>1
  <2> QED BY <1>7, <2>1
<1> QED BY <1>1, <1>4, <1>5, <1>6, <1>7, <1>8, <1>9 DEF b

LEMMA OpenedShape ==
  ASSUME NEW ns, NEW i, CanOpen(ns, i)
  PROVE  /\ Shape(Opened(ns, i))
         /\ \A S : Count(Opened(ns, i), S) + Among(ns[i].points, S) = Count(ns, S)
<1> DEFINE t == Opened(ns, i)
           n == Len(ns)
           Q(k) == Quarters(ns[i])[k]
<1>0. /\ Framed(ns) /\ ns \in Seq(NodeSet) /\ i \in 1 .. n /\ n \in Nat /\ n >= 1
      /\ ns[i].first_child = 0 /\ \A k \in 1 .. n : Kept(ns[k])
  BY DEF CanOpen, Shape, Framed
<1>1. /\ t \in Seq(NodeSet) /\ Len(t) = n + 4
      /\ \A k \in 1 .. n : k # i => t[k] = ns[k]
      /\ SameBox(t[i], ns[i]) /\ t[i].points = <<>> /\ t[i].first_child = n + 1
      /\ \A k \in 1 .. 4 : t[n + k] = Q(k)
  BY OpenedIs
<1>2. \A k \in 1 .. 4 : Proper(Q(k)) /\ Q(k).points = <<>> /\ Q(k).first_child = 0
  BY <1>0, NodeType, QuartersAre DEF CanOpen
<1>3. \A k \in 1 .. n + 4 : k \in 1 .. n \/ \E l \in 1 .. 4 : k = n + l
  <2>1. ASSUME NEW k \in 1 .. n + 4, k \notin 1 .. n PROVE k - n \in 1 .. 4 /\ k = n + (k - n)
    BY <1>0, <2>1
  <2> QED BY <2>1
<1> HIDE DEF t, n, Q
<1>4. ASSUME NEW k \in 1 .. n PROVE SameBox(t[k], ns[k])
  BY <1>1 DEF SameBox
<1>5. \A k \in 1 .. Len(t) : Proper(t[k])
  <2>1. \A k \in 1 .. n : Proper(t[k])
    <3>1. \A k \in 1 .. n : Proper(ns[k])
      BY <1>0 DEF Framed, n
    <3> QED BY <1>4, <3>1 DEF SameBox, Proper
  <2> QED BY <1>1, <1>2, <1>3, <2>1
<1>6. SameBox(t[1], Node(0, Side, 0, Side, 0))
  <2>1. SameBox(ns[1], Node(0, Side, 0, Side, 0)) /\ SameBox(t[1], ns[1])
    BY <1>0, <1>4 DEF Framed
  <2> QED BY <2>1 DEF SameBox
<1>7. ASSUME NEW k \in 1 .. Len(t), t[k].first_child # 0 PROVE Parted(t, k)
  <2>1. k \in 1 .. n
    BY <1>1, <1>2, <1>3, <1>7
  <2>2. Quarters(t[k]) = Quarters(ns[k])
    <3>1. SameBox(t[k], ns[k])
      BY <1>4, <2>1
    <3> QED BY <3>1 DEF SameBox, Quarters
  <2>3. CASE k = i
    <3>1. \A l \in 1 .. 4 : t[n + 1 + l - 1] = Quarters(t[k])[l]
      <4>1. \A l \in 1 .. 4 : n + 1 + l - 1 = n + l
        BY <1>0
      <4> QED BY <1>1, <2>2, <2>3, <4>1 DEF Q
    <3>2. \A x : SameBox(x, x)
      BY DEF SameBox
    <3>3. n + 1 > i /\ n + 1 + 3 <= Len(t)
      BY <1>0, <1>1
    <3> QED BY <1>1, <2>3, <3>1, <3>2, <3>3 DEF Parted
  <2>4. CASE k # i
    <3> DEFINE c == ns[k].first_child
    <3>1. t[k].first_child = c /\ c # 0
      BY <1>1, <1>7, <2>1, <2>4
    <3>2. /\ c \in Nat /\ c > k /\ c + 3 <= n
      BY <1>0, <2>1, <3>1, ChildrenAre DEF n
    <3>3. \A l \in 1 .. 4 : SameBox(ns[c + l - 1], Quarters(ns[k])[l])
      BY <1>0, <2>1, <3>1 DEF Framed, Parted, n
    <3> HIDE DEF c
    <3>4. ASSUME NEW l \in 1 .. 4 PROVE SameBox(t[c + l - 1], Quarters(t[k])[l])
      <4>1. c + l - 1 \in 1 .. n
        BY <1>0, <2>1, <3>2
      <4>2. SameBox(t[c + l - 1], ns[c + l - 1])
        BY <1>4, <4>1
      <4> QED BY <2>2, <3>3, <4>2 DEF SameBox
    <3>5. c + 3 <= Len(t)
      BY <1>0, <1>1, <3>2
    <3> QED BY <3>1, <3>2, <3>4, <3>5 DEF Parted
  <2> QED BY <2>3, <2>4
<1>8. ASSUME NEW k \in 2 .. Len(t)
      PROVE  \E j \in 1 .. k - 1 : t[j].first_child # 0 /\ k \in Children(t, j)
  <2>1. CASE k \in 1 .. n
    <3>1. PICK j \in 1 .. k - 1 : ns[j].first_child # 0 /\ k \in Children(ns, j)
      BY <1>0, <2>1 DEF Framed, n
    <3>2. j \in 1 .. n /\ j # i
      BY <1>0, <2>1, <3>1
    <3>3. t[j].first_child = ns[j].first_child
      BY <1>1, <3>2
    <3> QED BY <3>1, <3>3 DEF Children
  <2>2. CASE k \notin 1 .. n
    <3>1. i \in 1 .. k - 1 /\ k \in n + 1 .. n + 1 + 3
      BY <1>0, <1>1, <2>2
    <3>2. t[i].first_child # 0 /\ k \in Children(t, i)
      BY <1>0, <1>1, <3>1 DEF Children
    <3> QED BY <3>1, <3>2
  <2> QED BY <2>1, <2>2
<1>9. Framed(t)
  <2>1. Len(t) >= 1
    BY <1>0, <1>1
  <2> QED BY <1>1, <1>5, <1>6, <1>7, <1>8, <2>1 DEF Framed
<1>10. \A k \in 1 .. Len(t) : Kept(t[k])
  <2>1. \A x : x.points = <<>> => Kept(x)
    BY DEF Kept
  <2>2. \A k \in 1 .. 4 : Kept(t[n + k])
    BY <1>1, <1>2, <2>1
  <2>3. \A k \in 1 .. n : Kept(t[k])
    BY <1>0, <1>1, <2>1
  <2> QED BY <1>1, <1>3, <2>2, <2>3
<1>11. ASSUME NEW S PROVE Count(t, S) + Among(ns[i].points, S) = Count(ns, S)
  <2> DEFINE u == Holding(ns, i, <<>>)
  <2>1. <<>> \in Seq(Entry)
    OBVIOUS
  <2>2. /\ u \in Seq(NodeSet) /\ Len(u) = n /\ u[i].points = <<>>
        /\ \A k \in 1 .. n : k # i => u[k] = ns[k]
    BY <1>0, <2>1, HoldingIs, ZenonT(60) DEF SameFrame, n
  <2> HIDE DEF u
  <2>3. Count(u, S) + Among(ns[i].points, S) = Count(ns, S) + Among(u[i].points, S)
    BY <1>0, <2>2, CountDiffers DEF n
  <2>4. Among(u[i].points, S) = 0
    BY <2>2, AmongEmpty
  <2>5. Count(u, S) = Count(t, S)
    <3>1. \A k \in 1 .. n : t[k].points = u[k].points
      BY <1>1, <2>2
    <3>2. \A k \in 1 .. n : InNode(t, k, S) = InNode(u, k, S)
      BY <3>1 DEF InNode
    <3>3. \A k \in 1 .. n + 4 : k \notin 1 .. n => InNode(t, k, S) = {}
      <4>1. \A k \in 1 .. n + 4 : k \notin 1 .. n => t[k].points = <<>>
        BY <1>1, <1>2, <1>3
      <4>2. Places(<<>>, S) = {}
        BY DEF Places
      <4> QED BY <4>1, <4>2 DEF InNode
    <3>4. 1 .. n \subseteq 1 .. n + 4
      BY <1>0
    <3>5. UNION {InNode(t, k, S) : k \in 1 .. n + 4} = UNION {InNode(u, k, S) : k \in 1 .. n}
      BY <3>2, <3>3, <3>4
    <3>6. Found(t, S) = Found(u, S)
      <4>1. Found(t, S) = UNION {InNode(t, k, S) : k \in 1 .. n + 4}
        BY <1>1, SlotsAre
      <4>2. Found(u, S) = UNION {InNode(u, k, S) : k \in 1 .. n}
        BY <2>2, SlotsAre
      <4> QED BY <3>5, <4>1, <4>2
    <3> QED BY <1>1, <2>2, <3>6, SlotsAre
  <2>6. Count(ns, S) \in Nat
    BY <1>0, FoundIsFinite
  <2> QED BY <2>3, <2>4, <2>5, <2>6
<1> QED BY <1>9, <1>10, <1>11 DEF Shape, t

(* One of its entries goes to the child that contains it. *)
Scatter(t, i, e) == PushBack(t, ChildFor(t, i, e.pos), e)

OpenedLike(t, ns, i) == Shape(t) /\ SameFrame(t, Opened(ns, i))

(* A place in the leaf is in a leaf among the children. *)
LEMMA OpenedChild ==
  ASSUME NEW ns, NEW i, CanOpen(ns, i), NEW t, OpenedLike(t, ns, i),
         NEW p \in InRange, ContainsNode(ns[i], p)
  PROVE  /\ IsLeafOf(t, ChildFor(t, i, p), p)
         /\ ChildFor(t, i, p) \in Len(ns) + 1 .. Len(ns) + 4
         /\ t[ChildFor(t, i, p)].depth = ns[i].depth + 1
<1> DEFINE b == Opened(ns, i)
           c == ChildFor(t, i, p)
<1>0. i \in 1 .. Len(ns) /\ Len(ns) \in Nat /\ Framed(t)
  BY DEF CanOpen, Shape, Framed, OpenedLike
<1>1. /\ Len(b) = Len(ns) + 4 /\ SameBox(b[i], ns[i]) /\ b[i].first_child = Len(ns) + 1
      /\ \A k \in 1 .. 4 : b[Len(ns) + k].first_child = 0 /\ b[Len(ns) + k].depth = ns[i].depth + 1
  <2>1. ns[i] \in NodeSet /\ Proper(ns[i]) /\ ns[i].depth < MaxDepth
    BY NodeType DEF CanOpen, Shape
  <2> QED BY <2>1, OpenedIs, QuartersAre, SMTT(30)
<1> HIDE DEF b
<1>2. /\ Len(t) = Len(b)
      /\ \A k \in 1 .. Len(b) : t[k].first_child = b[k].first_child /\ SameBox(t[k], b[k])
  BY DEF OpenedLike, SameFrame, b
<1>3. i \in 1 .. Len(t) /\ t[i].first_child = Len(ns) + 1 /\ t[i].first_child # 0
  BY <1>0, <1>1, <1>2
<1>4. ContainsNode(t[i], p)
  <2>1. SameBox(t[i], b[i])
    BY <1>2, <1>3
  <2>2. SameBox(t[i], ns[i])
    BY <1>1, <2>1 DEF SameBox
  <2> QED BY <2>2, SameBoxContains
<1>5. c \in Children(t, i) /\ ContainsNode(t[c], p)
  BY <1>0, <1>3, <1>4, ChildForIs
<1> HIDE DEF c
<1>6. c \in Len(ns) + 1 .. Len(ns) + 4
  BY <1>0, <1>3, <1>5 DEF Children
<1>7. c \in 1 .. Len(t) /\ t[c].first_child = 0 /\ t[c].depth = ns[i].depth + 1
  <2> DEFINE n == Len(ns)
  <2>1. n \in Nat /\ c \in n + 1 .. n + 4 /\ Len(b) = n + 4
    BY <1>0, <1>1, <1>6
  <2> HIDE DEF n
  <2>2. c - n \in 1 .. 4 /\ c = n + (c - n) /\ c \in 1 .. Len(b)
    BY <2>1
  <2>3. b[n + (c - n)].first_child = 0 /\ b[n + (c - n)].depth = ns[i].depth + 1
    BY <1>1, <2>2 DEF n
  <2> QED BY <1>2, <2>2, <2>3 DEF SameBox
<1> QED BY <1>5, <1>6, <1>7 DEF IsLeafOf, c

LEMMA ScatterIs ==
  ASSUME NEW ns, NEW i, CanOpen(ns, i), NEW t, OpenedLike(t, ns, i),
         NEW e \in Entry, ContainsNode(ns[i], e.pos)
  PROVE  /\ OpenedLike(Scatter(t, i, e), ns, i)
         /\ \E c \in Len(ns) + 1 .. Len(ns) + 4 :
              /\ Len(Scatter(t, i, e)[c].points) = Len(t[c].points) + 1
              /\ \A k \in 1 .. Len(t) : k # c => Scatter(t, i, e)[k] = t[k]
         /\ \A S : Count(Scatter(t, i, e), S) = Count(t, S) + One(e, S)
<1> DEFINE c == ChildFor(t, i, e.pos)
           u == Scatter(t, i, e)
<1>1. IsLeafOf(t, c, e.pos) /\ c \in Len(ns) + 1 .. Len(ns) + 4
  <2>1. e.pos \in InRange
    BY DEF Entry
  <2> QED BY <2>1, OpenedChild
<1>2. u = PushBack(t, c, e)
  BY DEF Scatter
<1> HIDE DEF c, u
<1>3. /\ Shape(u) /\ SameFrame(u, t)
      /\ Len(u[c].points) = Len(t[c].points) + 1
      /\ \A k \in 1 .. Len(t) : k # c => u[k] = t[k]
      /\ \A S : Count(u, S) = Count(t, S) + One(e, S)
  BY <1>1, <1>2, PushBackIs DEF OpenedLike
<1>4. SameFrame(u, Opened(ns, i))
  BY <1>3 DEF OpenedLike, SameFrame, SameBox
<1> QED BY <1>1, <1>3, <1>4 DEF OpenedLike, u

Scattered(ns, i, g, T) ==
  IF T = {} THEN Opened(ns, i) ELSE Scatter(g[T \ {Max(T)}], i, ns[i].points[Max(T)])

ScatterOf(ns, i) ==
  CHOOSE g : g = [T \in SUBSET DOMAIN ns[i].points |-> Scattered(ns, i, g, T)]

LEMMA SubdivideIsFold ==
  ASSUME NEW ns, NEW i
  PROVE  Subdivide(ns, i) = ScatterOf(ns, i)[DOMAIN ns[i].points]
  BY DEF Subdivide, FoldLeft, MapThenFoldSet, ScatterOf, Scattered, Scatter, Opened

LEMMA ScatterExists ==
  ASSUME NEW ns, NEW i, CanOpen(ns, i)
  PROVE  ScatterOf(ns, i)
           = [T \in SUBSET DOMAIN ns[i].points |-> Scattered(ns, i, ScatterOf(ns, i), T)]
<1> DEFINE pts == ns[i].points
           E == {e \in Entry : ContainsNode(ns[i], e.pos)}
           V == {t \in Seq(NodeSet) : OpenedLike(t, ns, i)}
           step == [t \in V |-> [e \in E |-> Scatter(t, i, e)]]
           D == SUBSET DOMAIN pts
<1>1. pts \in Seq(E)
  <2>1. ns \in Seq(NodeSet) /\ i \in 1 .. Len(ns) /\ Shape(ns)
    BY DEF CanOpen, Shape, Framed
  <2>2. pts \in Seq(Entry)
    BY <2>1, SlotsAre
  <2>3. \A j \in 1 .. Len(pts) : pts[j] \in E
    BY <2>1, EntriesInRange DEF IsLeafOf
  <2> HIDE DEF pts, E
  <2> QED BY <2>2, <2>3
<1>2. Opened(ns, i) \in V
  <2>1. Opened(ns, i) \in Seq(NodeSet)
    BY OpenedIs
  <2>2. SameFrame(Opened(ns, i), Opened(ns, i))
    BY DEF SameFrame, SameBox
  <2> QED BY <2>1, <2>2, OpenedShape DEF OpenedLike
<1>3. ASSUME NEW t \in V, NEW e \in E PROVE Scatter(t, i, e) \in V
  <2>1. OpenedLike(Scatter(t, i, e), ns, i)
    BY ScatterIs
  <2> QED BY <2>1 DEF OpenedLike, Shape, Framed
<1>4. step \in [V -> [E -> V]]
  <2> HIDE DEF V, E
  <2> QED BY <1>3
<1>5. ASSUME NEW T \in D, T # {}
      PROVE  pts[Max(T)] \in E /\ T \ {Max(T)} \in D
  <2> HIDE DEF E, pts
  <2>1. DOMAIN pts = 1 .. Len(pts) /\ Len(pts) \in Nat
    BY <1>1
  <2>2. Max(T) \in 1 .. Len(pts)
    BY <1>5, <2>1, MaxIsMember
  <2> QED BY <1>1, <2>2
<1>6. PICK g : IsFold(g, V, Opened(ns, i), pts, step)
  <2> HIDE DEF step, V, E, pts
  <2> QED BY <1>1, <1>2, <1>4, FoldExists
<1>7. ASSUME NEW T \in D PROVE g[T] = Scattered(ns, i, g, T)
  <2>1. CASE T = {}
    BY <1>6, <2>1 DEF IsFold, Scattered
  <2>2. CASE T # {}
    <3>1. g[T \ {Max(T)}] \in V /\ pts[Max(T)] \in E
      BY <1>5, <1>6, <2>2 DEF IsFold
    <3>2. g[T] = step[g[T \ {Max(T)}]][pts[Max(T)]]
      BY <1>6, <2>2 DEF IsFold
    <3>3. \A t \in V, e \in E : step[t][e] = Scatter(t, i, e)
      OBVIOUS
    <3> HIDE DEF step, V, E
    <3> QED BY <2>2, <3>1, <3>2, <3>3 DEF Scattered
  <2> QED BY <2>1, <2>2
<1>8. g = [T \in D |-> g[T]]
  BY <1>6 DEF IsFold
<1>9. g = [T \in D |-> Scattered(ns, i, g, T)]
  <2> HIDE DEF D
  <2> QED BY <1>7, <1>8
<1> QED BY <1>9 DEF ScatterOf

(* The first k elements of a sequence. *)
LEMMA PrefixGrows ==
  ASSUME NEW E, NEW s \in Seq(E)
  PROVE  /\ SubSeq(s, 1, 0) = <<>> /\ SubSeq(s, 1, Len(s)) = s
         /\ \A k \in 0 .. Len(s) : SubSeq(s, 1, k) \in Seq(E) /\ Len(SubSeq(s, 1, k)) = k
         /\ \A k \in 0 .. Len(s) - 1 :
              s[k + 1] \in E /\ SubSeq(s, 1, k + 1) = Append(SubSeq(s, 1, k), s[k + 1])
<1>0. Len(s) \in Nat
  OBVIOUS
<1>1. SubSeq(s, 1, 0) = <<>> /\ SubSeq(s, 1, Len(s)) = s
  BY SubSeqEmpty, SubSeqFull
<1>2. ASSUME NEW k \in 0 .. Len(s)
      PROVE  /\ SubSeq(s, 1, k) \in Seq(E) /\ Len(SubSeq(s, 1, k)) = k
             /\ \A j \in 1 .. k : SubSeq(s, 1, k)[j] = s[j]
  BY <1>0
<1>3. ASSUME NEW k \in 0 .. Len(s) - 1
      PROVE  s[k + 1] \in E /\ SubSeq(s, 1, k + 1) = Append(SubSeq(s, 1, k), s[k + 1])
  <2> DEFINE a == SubSeq(s, 1, k)
             b == SubSeq(s, 1, k + 1)
             c == Append(a, s[k + 1])
  <2>0. k \in 0 .. Len(s) /\ k + 1 \in 0 .. Len(s) /\ k + 1 \in 1 .. Len(s)
    BY <1>0
  <2>1. s[k + 1] \in E
    BY <2>0
  <2>2. a \in Seq(E) /\ Len(a) = k /\ \A j \in 1 .. k : a[j] = s[j]
    BY <1>2, <2>0
  <2>3. b \in Seq(E) /\ Len(b) = k + 1 /\ \A j \in 1 .. k + 1 : b[j] = s[j]
    BY <1>2, <2>0
  <2> HIDE DEF a, b
  <2>4. /\ c \in Seq(E) /\ Len(c) = k + 1 /\ c[k + 1] = s[k + 1]
        /\ \A j \in 1 .. k : c[j] = a[j]
    BY <2>1, <2>2
  <2> HIDE DEF c
  <2>5. \A j \in 1 .. k + 1 : b[j] = c[j]
    BY <2>2, <2>3, <2>4
  <2>6. b = c
    BY <2>3, <2>4, <2>5, SeqEqual
  <2> QED BY <2>1, <2>6 DEF a, b, c
<1> QED BY <1>1, <1>2, <1>3

(* Splitting a full leaf loses nothing, and leaves room. *)
LEMMA SubdivideIs ==
  ASSUME NEW ns, Well(ns), NEW i \in 1 .. Len(ns), ns[i].first_child = 0, Splits(ns[i])
  PROVE  /\ Well(Subdivide(ns, i)) /\ SameFrame(Subdivide(ns, i), Opened(ns, i))
         /\ \A S : Count(Subdivide(ns, i), S) = Count(ns, S)
<1> DEFINE pts == ns[i].points
           b == Opened(ns, i)
           g == ScatterOf(ns, i)
           n == Len(ns)
           Held0(t, k) ==
             /\ \A j \in 1 .. n : t[j] = b[j]
             /\ \A j \in n + 1 .. n + 4 : Len(t[j].points) <= k
           G == {k \in Nat : k <= Len(pts) =>
                   /\ OpenedLike(g[1 .. k], ns, i) /\ Held0(g[1 .. k], k)
                   /\ \A S : Count(g[1 .. k], S) = Count(b, S) + Among(SubSeq(pts, 1, k), S)}
<1>0. /\ CanOpen(ns, i) /\ ns \in Seq(NodeSet) /\ Shape(ns) /\ Roomy(ns) /\ n \in Nat
      /\ pts \in Seq(Entry) /\ Len(pts) \in Nat /\ DOMAIN pts = 1 .. Len(pts)
      /\ Len(pts) >= MaxPoints
  <2>1. ns \in Seq(NodeSet) /\ Shape(ns) /\ Roomy(ns)
    BY DEF Well, Shape, Framed
  <2>2. pts \in Seq(Entry)
    BY <2>1, SlotsAre
  <2>3. Len(pts) >= MaxPoints /\ ns[i].depth < MaxDepth
    BY DEF Splits
  <2> QED BY <2>1, <2>2, <2>3 DEF CanOpen
<1>1. Len(pts) = MaxPoints
  <2>1. ns[i].depth < MaxDepth
    BY <1>0 DEF CanOpen
  <2>2. ns[i].depth \in 0 .. MaxDepth
    BY <1>0, NodeFields
  <2>3. ~(Len(pts) > MaxPoints)
    BY <1>0, <2>1, <2>2, SidesType DEF Roomy
  <2> QED BY <1>0, <2>3, SidesType
<1>2. /\ b \in Seq(NodeSet) /\ Len(b) = n + 4 /\ Shape(b)
      /\ \A j \in n + 1 .. n + 4 : b[j].points = <<>>
      /\ \A S : Count(b, S) + Among(pts, S) = Count(ns, S)
  <2>1. \A k \in 1 .. 4 : b[n + k].points = <<>>
    <3>1. ns[i] \in NodeSet /\ Proper(ns[i]) /\ ns[i].depth < MaxDepth
      BY <1>0, NodeType DEF CanOpen, Shape
    <3>2. \A k \in 1 .. 4 : Opened(ns, i)[Len(ns) + k] = Quarters(ns[i])[k]
      <4>1. CanOpen(ns, i)
        BY <1>0
      <4> HIDE DEF G
      <4> QED BY <4>1, OpenedIs, SMTT(30)
    <3>3. \A k \in 1 .. 4 : Quarters(ns[i])[k].points = <<>>
      BY <3>1, QuartersAre
    <3> QED BY <3>2, <3>3
  <2>2. ASSUME NEW j \in n + 1 .. n + 4 PROVE b[j].points = <<>>
    <3>1. j - n \in 1 .. 4 /\ j = n + (j - n)
      <4>1. n \in Nat
        BY <1>0
      <4> HIDE DEF n
      <4> QED BY <4>1
    <3> HIDE DEF n, b
    <3> QED BY <2>1, <3>1
  <2> QED BY <1>0, <2>2, OpenedIs, OpenedShape
<1>3. \A T \in SUBSET (1 .. Len(pts)) : g[T] = Scattered(ns, i, g, T)
  <2>1. g = [T \in SUBSET DOMAIN pts |-> Scattered(ns, i, g, T)]
    BY <1>0, ScatterExists
  <2> HIDE DEF g, pts
  <2> QED BY <1>0, <2>1
<1>4. Subdivide(ns, i) = g[1 .. Len(pts)]
  BY <1>0, SubdivideIsFold
<1> HIDE DEF g, b
<1>5. 0 \in G
  <2>1. 1 .. 0 = {} /\ {} \in SUBSET (1 .. Len(pts))
    OBVIOUS
  <2>2. g[1 .. 0] = b
    BY <1>3, <2>1 DEF Scattered, b
  <2>3. OpenedLike(b, ns, i)
    BY <1>2 DEF OpenedLike, b, SameFrame, SameBox
  <2>4. Held0(b, 0)
    <3>1. Len(<<>>) = 0
      OBVIOUS
    <3> QED BY <1>2, <3>1
  <2>5. ASSUME NEW S PROVE Count(b, S) = Count(b, S) + Among(SubSeq(pts, 1, 0), S)
    <3>1. SubSeq(pts, 1, 0) = <<>>
      BY <1>0, PrefixGrows
    <3>2. Among(SubSeq(pts, 1, 0), S) = 0
      BY <3>1, AmongEmpty
    <3>3. Count(b, S) \in Nat
      BY <1>2, FoundIsFinite
    <3> QED BY <3>2, <3>3
  <2> HIDE DEF Held0
  <2> QED BY <2>2, <2>3, <2>4, <2>5
<1>6. ASSUME NEW k \in Nat, k \in G PROVE k + 1 \in G
  <2> DEFINE t == g[1 .. k]
             u == g[1 .. k + 1]
             e == pts[k + 1]
  <2> SUFFICES ASSUME k + 1 <= Len(pts)
               PROVE  /\ OpenedLike(u, ns, i) /\ Held0(u, k + 1)
                      /\ \A S : Count(u, S) = Count(b, S) + Among(SubSeq(pts, 1, k + 1), S)
    OBVIOUS
  <2>0. k <= Len(pts) /\ k + 1 \in 1 .. Len(pts)
    BY <1>0
  <2>1. /\ OpenedLike(t, ns, i) /\ Held0(t, k)
        /\ \A S : Count(t, S) = Count(b, S) + Among(SubSeq(pts, 1, k), S)
    BY <1>6, <2>0
  <2>2. e \in Entry /\ ContainsNode(ns[i], e.pos)
    BY <1>0, <2>0, EntriesInRange DEF IsLeafOf
  <2>3. u = Scatter(t, i, e)
    <3>1. 1 .. k + 1 \in SUBSET (1 .. Len(pts))
      BY <1>0
    <3>2. u = Scattered(ns, i, g, 1 .. k + 1)
      BY <1>3, <3>1
    <3> QED BY <3>2, MaxOfFirst DEF Scattered
  <2> HIDE DEF t, u, e, pts
  <2>4. /\ OpenedLike(u, ns, i)
        /\ \E c \in n + 1 .. n + 4 :
             /\ Len(u[c].points) = Len(t[c].points) + 1
             /\ \A j \in 1 .. Len(t) : j # c => u[j] = t[j]
        /\ \A S : Count(u, S) = Count(t, S) + One(e, S)
    <3>1. CanOpen(ns, i)
      BY <1>0
    <3>2. /\ OpenedLike(Scatter(t, i, e), ns, i)
          /\ \E c \in Len(ns) + 1 .. Len(ns) + 4 :
               /\ Len(Scatter(t, i, e)[c].points) = Len(t[c].points) + 1
               /\ \A j \in 1 .. Len(t) : j # c => Scatter(t, i, e)[j] = t[j]
          /\ \A S : Count(Scatter(t, i, e), S) = Count(t, S) + One(e, S)
      <4>1. OpenedLike(t, ns, i)
        BY <2>1
      <4> HIDE DEF G
      <4> QED BY <3>1, <4>1, <2>2, ScatterIs
    <3> QED BY <2>3, <3>2
  <2>5. Len(t) = n + 4 /\ t \in Seq(NodeSet)
    BY <1>2, <2>1 DEF OpenedLike, SameFrame, b, Shape, Framed
  <2>6. Held0(u, k + 1)
    <3>1. PICK c \in n + 1 .. n + 4 :
             /\ Len(u[c].points) = Len(t[c].points) + 1
             /\ \A j \in 1 .. Len(t) : j # c => u[j] = t[j]
      BY <2>4
    <3> HIDE DEF n
    <3>2. \A j \in 1 .. n : j \in 1 .. Len(t) /\ j # c
      BY <1>0, <2>5
    <3>3. \A j \in n + 1 .. n + 4 : j \in 1 .. Len(t)
      BY <1>0, <2>5
    <3>4. \A j \in n + 1 .. n + 4 : Len(t[j].points) \in Nat
      <4>1. \A j \in 1 .. Len(t) : t[j].points \in Seq(Entry)
        BY <2>5, SlotsAre
      <4> QED BY <3>3, <4>1
    <3>5. ASSUME NEW j \in n + 1 .. n + 4 PROVE Len(u[j].points) <= k + 1
      <4>1. Len(t[j].points) <= k /\ Len(t[j].points) \in Nat
        BY <2>1, <3>4
      <4>2. CASE j = c
        BY <3>1, <4>1, <4>2
      <4>3. CASE j # c
        <5>1. u[j] = t[j]
          BY <3>1, <3>3, <4>3
        <5> QED BY <4>1, <5>1
      <4> QED BY <4>2, <4>3
    <3> QED BY <2>1, <3>1, <3>2, <3>5
  <2>7. ASSUME NEW S PROVE Count(u, S) = Count(b, S) + Among(SubSeq(pts, 1, k + 1), S)
    <3> DEFINE a == SubSeq(pts, 1, k)
    <3>1. SubSeq(pts, 1, k + 1) = Append(a, e) /\ a \in Seq(Entry)
      <4>1. k \in 0 .. Len(pts) /\ k \in 0 .. Len(pts) - 1
        BY <1>0, <2>0
      <4> QED BY <1>0, <4>1, PrefixGrows DEF e
    <3> HIDE DEF a
    <3>2. Among(Append(a, e), S) = Among(a, S) + One(e, S)
      BY <2>2, <3>1, AmongAppend
    <3>3. Count(b, S) \in Nat /\ Among(a, S) \in Nat /\ One(e, S) \in Nat
      BY <1>2, <3>1, FoundIsFinite, AmongType DEF One
    <3>4. Count(u, S) = Count(t, S) + One(e, S) /\ Count(t, S) = Count(b, S) + Among(a, S)
      BY <2>1, <2>4 DEF a
    <3>5. Among(SubSeq(pts, 1, k + 1), S) = Among(Append(a, e), S)
      BY <3>1
    <3> QED BY <3>2, <3>3, <3>4, <3>5
  <2> HIDE DEF Held0
  <2> QED BY <2>4, <2>6, <2>7
<1> HIDE DEF G
<1>7. Len(pts) \in G
  BY <1>0, <1>5, <1>6, NaturalsBySuccessor
<1> DEFINE t == g[1 .. Len(pts)]
<1>8. /\ OpenedLike(t, ns, i) /\ Held0(t, Len(pts))
      /\ \A S : Count(t, S) = Count(b, S) + Among(SubSeq(pts, 1, Len(pts)), S)
  BY <1>0, <1>7 DEF G
<1> HIDE DEF t, pts
<1>9. ASSUME NEW S PROVE Count(t, S) = Count(ns, S)
  <2>1. SubSeq(pts, 1, Len(pts)) = pts
    BY <1>0, PrefixGrows
  <2>2. Count(t, S) = Count(b, S) + Among(pts, S)
    BY <1>8, <2>1
  <2>3. Count(b, S) + Among(pts, S) = Count(ns, S)
    BY <1>2
  <2> QED BY <2>2, <2>3
<1>10. Roomy(t)
  <2>1. Len(t) = n + 4 /\ SameFrame(t, b)
    BY <1>2, <1>8 DEF OpenedLike, SameFrame, b
  <2> SUFFICES ASSUME NEW j \in 1 .. Len(t), Len(t[j].points) > MaxPoints
               PROVE  t[j].depth = MaxDepth
    BY DEF Roomy
  <2>2. CASE j \in 1 .. n
    <3>1. t[j] = b[j]
      BY <1>8, <2>2
    <3>2. CASE j = i
      <4>1. b[i].points = <<>>
        BY <1>0, OpenedIs DEF b
      <4>2. Len(<<>>) = 0
        OBVIOUS
      <4> QED BY <3>1, <3>2, <4>1, <4>2, SidesType
    <3>3. CASE j # i
      <4>1. b[j] = ns[j]
        BY <1>0, <2>2, <3>3, OpenedIs DEF b
      <4> QED BY <1>0, <2>2, <3>1, <4>1 DEF Roomy
    <3> QED BY <3>2, <3>3
  <2>3. CASE j \in n + 1 .. n + 4
    <3>1. Len(t[j].points) <= MaxPoints
      BY <1>1, <1>8, <2>3
    <3>2. Len(t[j].points) \in Nat
      <4>1. t \in Seq(NodeSet)
        BY <1>8 DEF OpenedLike, Shape, Framed
      <4>2. t[j].points \in Seq(Entry)
        BY <4>1, SlotsAre
      <4> QED BY <4>2
    <3> QED BY <3>1, <3>2, SidesType
  <2>4. j \in 1 .. n \/ j \in n + 1 .. n + 4
    BY <1>0, <2>1
  <2> QED BY <2>2, <2>3, <2>4
<1> QED BY <1>4, <1>8, <1>9, <1>10 DEF t, b, OpenedLike, Well

-----------------------------------------------------------------------------
(* One round of splitting. *)
Round(t, p) == IF Splits(t[Leaf(t, p)]) THEN Subdivide(t, Leaf(t, p)) ELSE t

DeepBy(t, p, k) == Splits(t[Leaf(t, p)]) => t[Leaf(t, p)].depth >= k

LEMMA RoundIs ==
  ASSUME NEW ns, Well(ns), NEW p \in InRange
  PROVE  /\ Well(Round(ns, p))
         /\ \A S : Count(Round(ns, p), S) = Count(ns, S)
         /\ \A k \in Nat : DeepBy(ns, p, k) => DeepBy(Round(ns, p), p, k + 1)
<1> DEFINE i == Leaf(ns, p)
           t == Subdivide(ns, i)
<1>0. Shape(ns) /\ IsLeafOf(ns, i, p)
  BY LeafIs DEF Well, Shape
<1>1. CASE ~Splits(ns[i])
  <2>1. Round(ns, p) = ns
    BY <1>1 DEF Round
  <2> QED BY <1>1, <2>1 DEF DeepBy
<1>2. CASE Splits(ns[i])
  <2>1. Round(ns, p) = t
    BY <1>2 DEF Round
  <2>2. i \in 1 .. Len(ns) /\ ns[i].first_child = 0 /\ ContainsNode(ns[i], p)
    BY <1>0 DEF IsLeafOf
  <2> HIDE DEF i
  <2>3. Well(t) /\ SameFrame(t, Opened(ns, i)) /\ \A S : Count(t, S) = Count(ns, S)
    BY <1>2, <2>2, SubdivideIs
  <2> HIDE DEF t
  <2>4. CanOpen(ns, i)
    BY <1>0, <1>2, <2>2 DEF CanOpen, Splits
  <2>5. OpenedLike(t, ns, i)
    BY <2>3 DEF OpenedLike, Well
  <2>6. IsLeafOf(t, ChildFor(t, i, p), p) /\ t[ChildFor(t, i, p)].depth = ns[i].depth + 1
    BY <2>2, <2>4, <2>5, OpenedChild
  <2>7. Leaf(t, p) = ChildFor(t, i, p)
    BY <2>3, <2>6, LeafIs DEF Well, Shape
  <2>8. ns[i].depth \in Nat
    BY <1>0, <2>2, NodeType, NodeFields DEF Shape
  <2>9. ASSUME NEW k \in Nat, DeepBy(ns, p, k) PROVE DeepBy(t, p, k + 1)
    <3>1. ns[i].depth >= k
      BY <1>2, <2>9 DEF DeepBy, i
    <3>2. t[Leaf(t, p)].depth >= k + 1
      BY <2>6, <2>7, <2>8, <3>1
    <3> QED BY <3>2 DEF DeepBy
  <2> QED BY <2>1, <2>3, <2>9
<1> QED BY <1>1, <1>2

Rounds(ns, p, a, level) == IF level = 0 THEN ns ELSE Round(a[level - 1], p)

After(ns, p) == CHOOSE a : a = [level \in 0 .. MaxDepth |-> Rounds(ns, p, a, level)]

LEMMA SplitIsRounds ==
  ASSUME NEW ns, NEW p
  PROVE  Split(ns, p) = After(ns, p)[MaxDepth]
  BY DEF Split, After, Rounds, Round

LEMMA AfterExists ==
  ASSUME NEW ns, Well(ns), NEW p \in InRange
  PROVE  After(ns, p) = [level \in 0 .. MaxDepth |-> Rounds(ns, p, After(ns, p), level)]
<1> DEFINE V == {t \in Seq(NodeSet) : Well(t)}
           step == [t \in V |-> Round(t, p)]
           D == 0 .. MaxDepth
<1>1. ns \in V
  BY DEF Well, Shape, Framed
<1>2. ASSUME NEW t \in V PROVE Round(t, p) \in V
  <2>1. Well(Round(t, p))
    BY RoundIs
  <2> QED BY <2>1 DEF Well, Shape, Framed
<1>3. step \in [V -> V] /\ \A t \in V : step[t] = Round(t, p)
  <2> HIDE DEF V
  <2> QED BY <1>2
<1> HIDE DEF step, V
<1>4. PICK a \in [D -> V] : \A n \in D : a[n] = IF n = 0 THEN ns ELSE step[a[n - 1]]
  <2>1. step \in [V -> V] /\ MaxDepth \in Nat
    BY <1>3, SidesType
  <2> QED BY <1>1, <2>1, RoundsExist
<1>5. \A n \in D : a[n] = Rounds(ns, p, a, n)
  <2> SUFFICES ASSUME NEW n \in D PROVE a[n] = Rounds(ns, p, a, n)
    OBVIOUS
  <2>1. CASE n = 0
    BY <1>4, <2>1 DEF Rounds
  <2>2. CASE n # 0
    <3>1. n - 1 \in D
      BY <2>2, SidesType
    <3> QED BY <1>3, <1>4, <2>2, <3>1 DEF Rounds
  <2> QED BY <2>1, <2>2
<1>6. a = [n \in D |-> Rounds(ns, p, a, n)]
  <2> HIDE DEF D
  <2> QED BY <1>4, <1>5
<1> QED BY <1>6 DEF After

(* After as many rounds as there are levels the leaf of p has room, or is
   one of the smallest. *)
LEMMA SplitIs ==
  ASSUME NEW ns, Well(ns), NEW p \in InRange
  PROVE  /\ Well(Split(ns, p))
         /\ \A S : Count(Split(ns, p), S) = Count(ns, S)
         /\ ~Splits(Split(ns, p)[Leaf(Split(ns, p), p)])
<1> DEFINE a == After(ns, p)
           G == {k \in Nat : k <= MaxDepth =>
                   /\ Well(a[k]) /\ DeepBy(a[k], p, k)
                   /\ \A S : Count(a[k], S) = Count(ns, S)}
<1>1. \A k \in 0 .. MaxDepth : a[k] = Rounds(ns, p, a, k)
  <2>1. a = [k \in 0 .. MaxDepth |-> Rounds(ns, p, a, k)]
    BY AfterExists
  <2> HIDE DEF a
  <2> QED BY <2>1
<1> HIDE DEF a
<1>2. 0 \in G
  <2>1. a[0] = ns
    BY <1>1, SidesType DEF Rounds
  <2>2. Framed(ns) /\ IsLeafOf(ns, Leaf(ns, p), p)
    BY LeafIs DEF Well, Shape
  <2>3. ns[Leaf(ns, p)].depth \in Nat
    BY <2>2, NodeType, NodeFields DEF IsLeafOf
  <2>4. DeepBy(ns, p, 0)
    BY <2>3 DEF DeepBy
  <2> QED BY <2>1, <2>4
<1>3. ASSUME NEW k \in Nat, k \in G PROVE k + 1 \in G
  <2> SUFFICES ASSUME k + 1 <= MaxDepth
               PROVE  /\ Well(a[k + 1]) /\ DeepBy(a[k + 1], p, k + 1)
                      /\ \A S : Count(a[k + 1], S) = Count(ns, S)
    OBVIOUS
  <2>1. a[k + 1] = Round(a[k], p)
    <3>1. k + 1 \in 0 .. MaxDepth /\ k + 1 # 0 /\ k + 1 - 1 = k
      BY SidesType
    <3> QED BY <1>1, <3>1 DEF Rounds
  <2>2. /\ Well(a[k]) /\ DeepBy(a[k], p, k)
        /\ \A S : Count(a[k], S) = Count(ns, S)
    BY <1>3, SidesType
  <2> HIDE DEF G
  <2>3. /\ Well(Round(a[k], p)) /\ DeepBy(Round(a[k], p), p, k + 1)
        /\ \A S : Count(Round(a[k], p), S) = Count(a[k], S)
    BY <2>2, RoundIs
  <2> QED BY <2>1, <2>2, <2>3
<1> HIDE DEF G
<1>4. MaxDepth \in G
  BY <1>2, <1>3, SidesType, NaturalsBySuccessor
<1> DEFINE t == Split(ns, p)
<1>5. Well(t) /\ DeepBy(t, p, MaxDepth) /\ \A S : Count(t, S) = Count(ns, S)
  BY <1>4, SplitIsRounds, SidesType DEF G, a
<1> HIDE DEF t
<1>6. t[Leaf(t, p)].depth \in 0 .. MaxDepth
  <2>1. Framed(t) /\ IsLeafOf(t, Leaf(t, p), p)
    BY <1>5, LeafIs DEF Well, Shape
  <2> QED BY <2>1, NodeType, NodeFields DEF IsLeafOf
<1>7. ~Splits(t[Leaf(t, p)])
  BY <1>5, <1>6, SidesType DEF DeepBy, Splits
<1> QED BY <1>5, <1>7 DEF t

(* An insertion adds its entry, a removal takes one away. *)
LEMMA InsertIs ==
  ASSUME NEW ns, Well(ns), NEW e \in Entry
  PROVE  /\ Well(InsertInternal(ns, e))
         /\ \A S : Count(InsertInternal(ns, e), S) = Count(ns, S) + One(e, S)
<1> DEFINE t == Split(ns, e.pos)
           i == Leaf(t, e.pos)
           u == PushBack(t, i, e)
<1>0. e.pos \in InRange
  BY DEF Entry
<1>1. Well(t) /\ (\A S : Count(t, S) = Count(ns, S)) /\ ~Splits(t[i])
  BY <1>0, SplitIs
<1> HIDE DEF t
<1>2. Shape(t) /\ Roomy(t) /\ Framed(t) /\ IsLeafOf(t, i, e.pos) /\ i \in 1 .. Len(t)
  BY <1>0, <1>1, LeafIs DEF Well, Shape, IsLeafOf
<1> HIDE DEF i
<1>3. /\ Shape(u) /\ SameFrame(u, t) /\ Len(u[i].points) = Len(t[i].points) + 1
      /\ \A k \in 1 .. Len(t) : k # i => u[k] = t[k]
      /\ \A S : Count(u, S) = Count(t, S) + One(e, S)
  BY <1>2, PushBackIs
<1>4. Roomy(u)
  <2> SUFFICES ASSUME NEW k \in 1 .. Len(u), Len(u[k].points) > MaxPoints
               PROVE  u[k].depth = MaxDepth
    BY DEF Roomy
  <2> HIDE DEF u
  <2>1. k \in 1 .. Len(t) /\ u[k].depth = t[k].depth
    BY <1>3 DEF SameFrame, SameBox
  <2>2. CASE k # i
    BY <1>2, <1>3, <2>1, <2>2 DEF Roomy
  <2>3. CASE k = i
    <3>1. t[i].depth \in 0 .. MaxDepth /\ t[i].points \in Seq(Entry)
      BY <1>2, NodeType, NodeFields
    <3>2. Len(t[i].points) \in Nat
      BY <3>1
    <3>3. Len(t[i].points) >= MaxPoints
      BY <1>3, <2>3, <3>2, SidesType
    <3>4. ~(t[i].depth < MaxDepth)
      BY <1>1, <3>3 DEF Splits
    <3> QED BY <2>1, <2>3, <3>1, <3>4, SidesType
  <2> QED BY <2>2, <2>3
<1>5. InsertInternal(ns, e) = u
  BY DEF InsertInternal, u, i, t
<1> HIDE DEF u
<1>6. ASSUME NEW S PROVE Count(u, S) = Count(ns, S) + One(e, S)
  BY <1>1, <1>3
<1> QED BY <1>3, <1>4, <1>5, <1>6 DEF Well

LEMMA RemoveIs ==
  ASSUME NEW ns, Well(ns), NEW p
  PROVE  /\ Well(RemoveByPosition(ns, p))
         /\ \/ /\ RemoveByPosition(ns, p) = ns
               /\ \A S : (\A e \in S : e.pos = p) => Count(ns, S) = 0
            \/ \E e \in Entry :
                 /\ e.pos = p
                 /\ \A S : Count(ns, S) = Count(RemoveByPosition(ns, p), S) + One(e, S)
<1> DEFINE t == RemoveByPosition(ns, p)
<1>0. Shape(ns) /\ ns \in Seq(NodeSet)
  BY DEF Well, Shape, Framed
<1>1. CASE /\ t = ns
           /\ \A i \in 1 .. Len(ns) : \A j \in 1 .. Len(ns[i].points) : ns[i].points[j].pos # p
  <2>1. ASSUME NEW S, \A e \in S : e.pos = p PROVE Count(ns, S) = 0
    <3>1. ~(Count(ns, S) > 0)
      BY <1>0, <1>1, <2>1, CountSome
    <3>2. Count(ns, S) \in Nat
      BY <1>0, FoundIsFinite
    <3> QED BY <3>1, <3>2
  <2> QED BY <1>1, <2>1
<1>2. CASE \E i \in 1 .. Len(ns) : \E j \in 1 .. Len(ns[i].points) :
             ns[i].points[j].pos = p /\ t = Holding(ns, i, RemoveAt(ns[i].points, j))
  <2>1. PICK i \in 1 .. Len(ns) : \E j \in 1 .. Len(ns[i].points) :
             ns[i].points[j].pos = p /\ t = Holding(ns, i, RemoveAt(ns[i].points, j))
    BY <1>2
  <2>2. PICK j \in 1 .. Len(ns[i].points) :
             ns[i].points[j].pos = p /\ t = Holding(ns, i, RemoveAt(ns[i].points, j))
    BY <2>1
  <2>3. ns[i].points[j] \in Entry
    BY <1>0, EntriesInRange
  <2> HIDE DEF t
  <2>4. Well(t) /\ \A S : Count(ns, S) = Count(t, S) + One(ns[i].points[j], S)
    BY <2>2, DropIs
  <2> QED BY <2>2, <2>3, <2>4 DEF t
<1>3. \/ /\ t = ns
         /\ \A i \in 1 .. Len(ns) : \A j \in 1 .. Len(ns[i].points) : ns[i].points[j].pos # p
      \/ \E i \in 1 .. Len(ns) : \E j \in 1 .. Len(ns[i].points) :
           ns[i].points[j].pos = p /\ t = Holding(ns, i, RemoveAt(ns[i].points, j))
  BY <1>0, RemovalIs
<1> QED BY <1>1, <1>2, <1>3

-----------------------------------------------------------------------------
(* An object: its tree is well formed, it has finitely many members (of
   perhaps infinitely many names), and no place has more entries than it has
   members; the same number, if none was lost. *)
Coordinates == [Member -> Position \cup {NoPos}]

Here(o, p) == {m \in Member : o.points[m] = p}
AllAt(p)   == [name : Member, pos : {p}]

Stored(o) == {m \in Member : o.points[m] # NoPos}

GoodObject(o) ==
  o.points \in Coordinates /\ Well(o.nodes_) /\ IsFiniteSet(Stored(o))

AtMost(o) == \A p \in InRange : Count(o.nodes_, AllAt(p)) <= Cardinality(Here(o, p))
Exact(o)  == \A p \in InRange : Count(o.nodes_, AllAt(p)) = Cardinality(Here(o, p))

IInv ==
  /\ GoodObject(CurrentObject) /\ AtMost(CurrentObject)
  /\ failures \in Nat
  /\ failures = 0 => Exact(CurrentObject)

LEMMA HereIsFinite ==
  ASSUME NEW o, GoodObject(o), NEW p \in InRange
  PROVE  IsFiniteSet(Here(o, p)) /\ Cardinality(Here(o, p)) \in Nat
<1>1. p # NoPos
  BY PlaceType, QuadtreeAssumption
<1>2. Here(o, p) \in SUBSET Stored(o)
  BY <1>1 DEF Here, Stored
<1>3. IsFiniteSet(Stored(o))
  BY DEF GoodObject
<1>4. IsFiniteSet(Here(o, p))
  BY <1>2, <1>3, FS_Subset
<1> QED BY <1>4, FS_CardinalityType

IsAt(p, q) == IF p = q THEN 1 ELSE 0

LEMMA OneAt ==
  ASSUME NEW e \in Entry, NEW p
  PROVE  One(e, AllAt(p)) = IsAt(e.pos, p)
<1>1. e \in AllAt(p) <=> e.pos = p
  BY DEF Entry, AllAt
<1> QED BY <1>1 DEF One, IsAt

(* A member that moves is no longer here, unless it moves here. *)
LEMMA HereMoves ==
  ASSUME NEW o, GoodObject(o), NEW m \in Member, NEW q \in Position, NEW t,
         t.points = [o.points EXCEPT ![m] = q], NEW p \in InRange
  PROVE  Cardinality(Here(t, p)) = Cardinality(Here(o, p)) - IsAt(o.points[m], p) + IsAt(q, p)
<1> DEFINE R == Here(o, p) \ {m}
<1>0. o.points \in Coordinates
  BY DEF GoodObject
<1>1. IsFiniteSet(Here(o, p)) /\ Cardinality(Here(o, p)) \in Nat
  BY HereIsFinite
<1>2. m \in Here(o, p) <=> o.points[m] = p
  BY DEF Here
<1>3. IsFiniteSet(R) /\ Cardinality(R) = Cardinality(Here(o, p)) - IsAt(o.points[m], p)
  <2>1. IsFiniteSet(R) /\ Cardinality(R) = IF m \in Here(o, p) THEN Cardinality(Here(o, p)) - 1
                                           ELSE Cardinality(Here(o, p))
    BY <1>1, FS_RemoveElement
  <2> QED BY <1>1, <1>2, <2>1 DEF IsAt
<1>4. /\ q = p  => Here(t, p) = R \cup {m}
      /\ q # p  => Here(t, p) = R
  BY <1>0 DEF Here, Coordinates
<1>5. Cardinality(R) \in Nat
  BY <1>3, FS_CardinalityType
<1>6. Cardinality(R \cup {m}) = Cardinality(R) + 1
  <2>1. m \notin R
    OBVIOUS
  <2> HIDE DEF R
  <2> QED BY <1>3, <2>1, FS_AddElement
<1> HIDE DEF R
<1> QED BY <1>3, <1>4, <1>5, <1>6 DEF IsAt

NewEntry == [name : Member, pos : Position]

LEMMA MovedIs ==
  ASSUME NEW o, GoodObject(o), NEW e \in NewEntry
  PROVE  /\ GoodObject(Moved(o, e))
         /\ Moved(o, e).points = [o.points EXCEPT ![e.name] = e.pos]
         /\ AtMost(o) => \A p \in InRange :
              Count(Moved(o, e).nodes_, AllAt(p)) + IsAt(e.pos, p)
                <= Cardinality(Here(Moved(o, e), p))
         /\ Exact(o) => \A p \in InRange :
              Count(Moved(o, e).nodes_, AllAt(p)) + IsAt(e.pos, p)
                = Cardinality(Here(Moved(o, e), p))
<1> DEFINE m == e.name
           q == e.pos
           old == o.points[m]
           ns == o.nodes_
           rem == RemoveByPosition(ns, old)
           t == Moved(o, e)
<1>1. m \in Member /\ q \in Position
  BY DEF NewEntry
<1>2. o.points \in Coordinates /\ Well(ns) /\ IsFiniteSet(Stored(o))
  BY DEF GoodObject
<1>3. /\ t.points = [o.points EXCEPT ![m] = q]
      /\ t.nodes_ = IF old = NoPos THEN ns ELSE rem
  BY DEF Moved
<1>4. /\ Well(rem)
      /\ \/ rem = ns /\ \A S : (\A x \in S : x.pos = old) => Count(ns, S) = 0
         \/ \E x \in Entry : x.pos = old /\ \A S : Count(ns, S) = Count(rem, S) + One(x, S)
  BY <1>2, RemoveIs
<1> HIDE DEF t, rem
<1>5. GoodObject(t)
  <2>1. t.points \in Coordinates /\ Well(t.nodes_)
    BY <1>1, <1>2, <1>3, <1>4 DEF Coordinates
  <2>2. Stored(t) \in SUBSET (Stored(o) \cup {m})
    BY <1>1, <1>2, <1>3 DEF Stored, Coordinates
  <2>3. IsFiniteSet(Stored(o) \cup {m})
    BY <1>2, FS_AddElement
  <2>4. IsFiniteSet(Stored(t))
    BY <2>2, <2>3, FS_Subset
  <2> QED BY <2>1, <2>4 DEF GoodObject
<1>6. ASSUME NEW p \in InRange
      PROVE  /\ Count(ns, AllAt(p)) \in Nat /\ Count(t.nodes_, AllAt(p)) \in Nat
             /\ Cardinality(Here(o, p)) \in Nat /\ Cardinality(Here(t, p)) \in Nat
             /\ Cardinality(Here(t, p)) = Cardinality(Here(o, p)) - IsAt(old, p) + IsAt(q, p)
             /\ old = p => Cardinality(Here(o, p)) > 0
             /\ \/ Count(t.nodes_, AllAt(p)) = Count(ns, AllAt(p)) - IsAt(old, p)
                \/ old = p /\ Count(t.nodes_, AllAt(p)) = 0 /\ Count(ns, AllAt(p)) = 0
  <2>1. ns \in Seq(NodeSet) /\ t.nodes_ \in Seq(NodeSet)
    BY <1>2, <1>5 DEF GoodObject, Well, Shape, Framed
  <2>2. Count(ns, AllAt(p)) \in Nat /\ Count(t.nodes_, AllAt(p)) \in Nat
    BY <2>1, FoundIsFinite
  <2>3. /\ Cardinality(Here(o, p)) \in Nat /\ Cardinality(Here(t, p)) \in Nat
        /\ IsFiniteSet(Here(o, p))
    BY <1>5, HereIsFinite
  <2>4. Cardinality(Here(t, p)) = Cardinality(Here(o, p)) - IsAt(old, p) + IsAt(q, p)
    BY <1>1, <1>3, HereMoves
  <2>5. ASSUME old = p PROVE Cardinality(Here(o, p)) > 0
    <3>1. Here(o, p) # {}
      BY <1>1, <2>5 DEF Here
    <3> QED BY <2>3, <3>1, FS_EmptySet
  <2>6. \/ Count(t.nodes_, AllAt(p)) = Count(ns, AllAt(p)) - IsAt(old, p)
        \/ old = p /\ Count(t.nodes_, AllAt(p)) = 0 /\ Count(ns, AllAt(p)) = 0
    <3>1. CASE old = NoPos
      <4>1. p # old
        BY <3>1, PlaceType, QuadtreeAssumption
      <4> QED BY <1>3, <2>2, <3>1, <4>1 DEF IsAt
    <3>2. CASE old # NoPos /\ rem = ns /\ \A S : (\A x \in S : x.pos = old) => Count(ns, S) = 0
      <4>0. t.nodes_ = ns
        BY <1>3, <3>2
      <4>1. CASE old = p
        <5>1. \A x \in AllAt(p) : x.pos = old
          BY <4>1 DEF AllAt
        <5> QED BY <3>2, <4>0, <4>1, <5>1
      <4>2. CASE old # p
        BY <2>2, <4>0, <4>2 DEF IsAt
      <4> QED BY <4>1, <4>2
    <3>3. CASE old # NoPos /\ \E x \in Entry :
                 x.pos = old /\ \A S : Count(ns, S) = Count(rem, S) + One(x, S)
      <4>1. PICK x \in Entry : x.pos = old /\ \A S : Count(ns, S) = Count(rem, S) + One(x, S)
        BY <3>3
      <4>2. One(x, AllAt(p)) = IsAt(old, p)
        BY <4>1, OneAt
      <4>3. Count(ns, AllAt(p)) = Count(t.nodes_, AllAt(p)) + IsAt(old, p)
        BY <1>3, <3>3, <4>1, <4>2
      <4> QED BY <2>2, <4>3 DEF IsAt
    <3> QED BY <1>4, <3>1, <3>2, <3>3
  <2> QED BY <2>2, <2>3, <2>4, <2>5, <2>6
<1> HIDE DEF q, m, old, ns
<1>7. ASSUME AtMost(o), NEW p \in InRange
      PROVE  Count(t.nodes_, AllAt(p)) + IsAt(q, p) <= Cardinality(Here(t, p))
  <2>1. Count(ns, AllAt(p)) <= Cardinality(Here(o, p))
    BY <1>7 DEF AtMost, ns
  <2> QED BY <1>6, <2>1 DEF IsAt
<1>8. ASSUME Exact(o), NEW p \in InRange
      PROVE  Count(t.nodes_, AllAt(p)) + IsAt(q, p) = Cardinality(Here(t, p))
  <2>1. Count(ns, AllAt(p)) = Cardinality(Here(o, p))
    BY <1>8 DEF Exact, ns
  <2> QED BY <1>6, <2>1 DEF IsAt
<1> QED BY <1>3, <1>5, <1>7, <1>8 DEF t, q, m

LEMMA AddedIs ==
  ASSUME NEW o, GoodObject(o), NEW e \in NewEntry
  PROVE  /\ GoodObject(Added(o, e))
         /\ Added(o, e).points = [o.points EXCEPT ![e.name] = e.pos]
         /\ e.pos \notin InRange => Added(o, e).nodes_ = Moved(o, e).nodes_
         /\ e.pos \in InRange => \A S :
              Count(Added(o, e).nodes_, S) = Count(Moved(o, e).nodes_, S) + One(e, S)
         /\ AtMost(o) => AtMost(Added(o, e))
         /\ Exact(o) => Exact(Added(o, e))
<1> DEFINE t == Moved(o, e)
           u == Added(o, e)
<1>1. /\ GoodObject(t) /\ t.points = [o.points EXCEPT ![e.name] = e.pos]
      /\ AtMost(o) => \A p \in InRange :
              Count(t.nodes_, AllAt(p)) + IsAt(e.pos, p) <= Cardinality(Here(t, p))
      /\ Exact(o) => \A p \in InRange :
              Count(t.nodes_, AllAt(p)) + IsAt(e.pos, p) = Cardinality(Here(t, p))
  BY MovedIs
<1>2. u.points = t.points /\ u.nodes_ = Insert(t.nodes_, e)
  BY DEF Added, Moved
<1>3. \A p : Here(u, p) = Here(t, p)
  BY <1>2 DEF Here
<1> HIDE DEF t, u
<1>4. Well(t.nodes_)
  BY <1>1 DEF GoodObject
<1>5. CASE e.pos \in InRange
  <2>1. e \in Entry
    BY <1>5 DEF Entry, NewEntry
  <2>2. u.nodes_ = InsertInternal(t.nodes_, e)
    BY <1>2, <1>5 DEF Insert
  <2>3. Well(u.nodes_) /\ \A S : Count(u.nodes_, S) = Count(t.nodes_, S) + One(e, S)
    BY <1>4, <2>1, <2>2, InsertIs
  <2>4. GoodObject(u)
    BY <1>1, <1>2, <2>3 DEF GoodObject, Stored
  <2>5. \A p \in InRange : Count(u.nodes_, AllAt(p)) = Count(t.nodes_, AllAt(p)) + IsAt(e.pos, p)
    BY <2>1, <2>3, OneAt
  <2>6. AtMost(o) => AtMost(u)
    BY <1>1, <1>3, <2>5 DEF AtMost
  <2>7. Exact(o) => Exact(u)
    BY <1>1, <1>3, <2>5 DEF Exact
  <2> QED BY <1>1, <1>2, <1>5, <2>3, <2>4, <2>6, <2>7 DEF t, u
<1>6. CASE e.pos \notin InRange
  <2>1. u.nodes_ = t.nodes_
    BY <1>2, <1>6 DEF Insert
  <2>2. GoodObject(u)
    BY <1>1, <1>2, <2>1 DEF GoodObject, Stored
  <2>3. ASSUME NEW p \in InRange
        PROVE  IsAt(e.pos, p) = 0 /\ Count(t.nodes_, AllAt(p)) \in Nat
    <3>1. t.nodes_ \in Seq(NodeSet)
      BY <1>4 DEF Well, Shape, Framed
    <3> QED BY <1>6, <3>1, FoundIsFinite DEF IsAt
  <2>4. AtMost(o) => AtMost(u)
    BY <1>1, <1>3, <2>1, <2>3 DEF AtMost
  <2>5. Exact(o) => Exact(u)
    BY <1>1, <1>3, <2>1, <2>3 DEF Exact
  <2> QED BY <1>1, <1>2, <1>6, <2>1, <2>2, <2>4, <2>5 DEF t, u
<1> QED BY <1>5, <1>6

-----------------------------------------------------------------------------
(* The elements of a sequence that are in T are those, and as many of each. *)
Choosing(s, T, g, R) ==
  IF R = {} THEN <<>>
  ELSE IF s[Max(R)] \in T THEN Append(g[R \ {Max(R)}], s[Max(R)]) ELSE g[R \ {Max(R)}]

ChoiceOf(s, T) == CHOOSE g : g = [R \in SUBSET DOMAIN s |-> Choosing(s, T, g, R)]

LEMMA ChosenIsFold ==
  ASSUME NEW s, NEW T
  PROVE  Chosen(s, T) = ChoiceOf(s, T)[DOMAIN s]
  BY DEF Chosen, FoldLeft, MapThenFoldSet, ChoiceOf, Choosing

LEMMA ChoiceExists ==
  ASSUME NEW E, NEW s \in Seq(E), NEW T
  PROVE  ChoiceOf(s, T) = [R \in SUBSET DOMAIN s |-> Choosing(s, T, ChoiceOf(s, T), R)]
<1> DEFINE V == Seq(E)
           step == [t \in V |-> [e \in E |-> IF e \in T THEN Append(t, e) ELSE t]]
           D == SUBSET DOMAIN s
<1>1. <<>> \in V
  OBVIOUS
<1>2. step \in [V -> [E -> V]] /\ \A t \in V, e \in E : step[t][e] = IF e \in T THEN Append(t, e) ELSE t
  OBVIOUS
<1>3. ASSUME NEW R \in D, R # {}
      PROVE  s[Max(R)] \in E /\ R \ {Max(R)} \in D
  <2>1. DOMAIN s = 1 .. Len(s) /\ Len(s) \in Nat
    OBVIOUS
  <2>2. Max(R) \in 1 .. Len(s)
    BY <1>3, <2>1, MaxIsMember
  <2> QED BY <2>2
<1>4. PICK g : IsFold(g, V, <<>>, s, step)
  <2> HIDE DEF step, V
  <2> QED BY <1>1, <1>2, FoldExists
<1> HIDE DEF step, V
<1>5. ASSUME NEW R \in D PROVE g[R] = Choosing(s, T, g, R)
  <2>1. CASE R = {}
    BY <1>4, <2>1 DEF IsFold, Choosing
  <2>2. CASE R # {}
    <3>1. g[R \ {Max(R)}] \in V /\ s[Max(R)] \in E
      BY <1>3, <1>4, <2>2 DEF IsFold
    <3>2. g[R] = step[g[R \ {Max(R)}]][s[Max(R)]]
      BY <1>4, <2>2 DEF IsFold
    <3> QED BY <1>2, <2>2, <3>1, <3>2 DEF Choosing
  <2> QED BY <2>1, <2>2
<1>6. g = [R \in D |-> g[R]]
  BY <1>4 DEF IsFold
<1>7. g = [R \in D |-> Choosing(s, T, g, R)]
  <2> HIDE DEF D
  <2> QED BY <1>5, <1>6
<1> QED BY <1>7 DEF ChoiceOf

LEMMA ChosenIs ==
  ASSUME NEW E, NEW s \in Seq(E), NEW T
  PROVE  /\ Chosen(s, T) \in Seq(E)
         /\ \A S : Among(Chosen(s, T), S) = Among(s, S \cap T)
<1> DEFINE g == ChoiceOf(s, T)
           G == {k \in Nat : k <= Len(s) =>
                   /\ g[1 .. k] \in Seq(E)
                   /\ \A S : Among(g[1 .. k], S) = Among(SubSeq(s, 1, k), S \cap T)}
<1>0. Len(s) \in Nat /\ DOMAIN s = 1 .. Len(s)
  OBVIOUS
<1>1. \A R \in SUBSET (1 .. Len(s)) : g[R] = Choosing(s, T, g, R)
  <2>1. g = [R \in SUBSET DOMAIN s |-> Choosing(s, T, g, R)]
    BY ChoiceExists
  <2> HIDE DEF g
  <2> QED BY <1>0, <2>1
<1> HIDE DEF g
<1>2. 0 \in G
  <2>1. 1 .. 0 = {} /\ {} \in SUBSET (1 .. Len(s))
    OBVIOUS
  <2>2. g[1 .. 0] = <<>>
    BY <1>1, <2>1 DEF Choosing
  <2>3. SubSeq(s, 1, 0) = <<>>
    BY PrefixGrows
  <2>4. g[1 .. 0] \in Seq(E)
    BY <2>2
  <2>5. \A S : Among(g[1 .. 0], S) = 0 /\ Among(SubSeq(s, 1, 0), S \cap T) = 0
    BY <2>2, <2>3, AmongEmpty
  <2> QED BY <2>4, <2>5
<1>3. ASSUME NEW k \in Nat, k \in G PROVE k + 1 \in G
  <2> DEFINE t == g[1 .. k]
             u == g[1 .. k + 1]
             e == s[k + 1]
             a == SubSeq(s, 1, k)
  <2> SUFFICES ASSUME k + 1 <= Len(s)
               PROVE  /\ u \in Seq(E)
                      /\ \A S : Among(u, S) = Among(SubSeq(s, 1, k + 1), S \cap T)
    OBVIOUS
  <2>0. k <= Len(s) /\ k \in 0 .. Len(s) /\ k \in 0 .. Len(s) - 1
    BY <1>0
  <2>1. t \in Seq(E) /\ \A S : Among(t, S) = Among(a, S \cap T)
    BY <1>3, <2>0
  <2>2. a \in Seq(E) /\ e \in E /\ SubSeq(s, 1, k + 1) = Append(a, e)
    BY <2>0, PrefixGrows
  <2>3. u = IF e \in T THEN Append(t, e) ELSE t
    <3>1. 1 .. k + 1 \in SUBSET (1 .. Len(s))
      BY <1>0
    <3>2. u = Choosing(s, T, g, 1 .. k + 1)
      BY <1>1, <3>1
    <3> QED BY <3>2, MaxOfFirst DEF Choosing
  <2> HIDE DEF t, u, e, a, G
  <2>4. u \in Seq(E)
    BY <2>1, <2>2, <2>3
  <2>5. ASSUME NEW S PROVE Among(u, S) = Among(SubSeq(s, 1, k + 1), S \cap T)
    <3>1. Among(SubSeq(s, 1, k + 1), S \cap T) = Among(a, S \cap T) + One(e, S \cap T)
      BY <2>2, AmongAppend, ZenonT(60)
    <3>2. Among(Append(t, e), S) = Among(t, S) + One(e, S)
      BY <2>1, <2>2, AmongAppend
    <3>3. Among(a, S \cap T) \in Nat
      BY <2>2, AmongType
    <3>4. CASE e \in T
      BY <2>1, <2>3, <3>1, <3>2, <3>4 DEF One
    <3>5. CASE e \notin T
      BY <2>1, <2>3, <3>1, <3>3, <3>5 DEF One
    <3> QED BY <3>4, <3>5
  <2> QED BY <2>4, <2>5
<1> HIDE DEF G
<1>4. Len(s) \in G
  BY <1>0, <1>2, <1>3, NaturalsBySuccessor
<1>5. /\ g[1 .. Len(s)] \in Seq(E)
      /\ \A S : Among(g[1 .. Len(s)], S) = Among(SubSeq(s, 1, Len(s)), S \cap T)
  BY <1>0, <1>4 DEF G
<1>6. SubSeq(s, 1, Len(s)) = s
  BY PrefixGrows
<1>7. Chosen(s, T) = g[1 .. Len(s)]
  BY <1>0, ChosenIsFold DEF g
<1> QED BY <1>5, <1>6, <1>7

LEMMA ChosenElements ==
  ASSUME NEW E, NEW s \in Seq(E), NEW T
  PROVE  \A x : (\E j \in 1 .. Len(Chosen(s, T)) : Chosen(s, T)[j] = x)
                  <=> x \in T /\ \E j \in 1 .. Len(s) : s[j] = x
<1> DEFINE t == Chosen(s, T)
<1>1. t \in Seq(E) /\ \A S : Among(t, S) = Among(s, S \cap T)
  BY ChosenIs
<1> HIDE DEF t
<1> SUFFICES ASSUME NEW x
             PROVE  (\E j \in 1 .. Len(t) : t[j] = x) <=> x \in T /\ \E j \in 1 .. Len(s) : s[j] = x
  BY DEF t
<1>2. Among(t, {x}) > 0 <=> \E j \in 1 .. Len(t) : t[j] \in {x}
  BY <1>1, AmongSome
<1>3. Among(s, {x} \cap T) > 0 <=> \E j \in 1 .. Len(s) : s[j] \in {x} \cap T
  BY AmongSome
<1>4. Among(t, {x}) = Among(s, {x} \cap T)
  BY <1>1
<1> QED BY <1>2, <1>3, <1>4

-----------------------------------------------------------------------------
(* The box of a search contains all of its circle but the rim. *)
LEMMA Nearer ==
  ASSUME NEW a \in Nat, NEW b \in Nat, NEW r \in Nat, a * a + b * b < r * r
  PROVE  r >= 1 /\ a <= r - 1 /\ b <= r - 1
<1>1. ASSUME NEW x \in Nat, x >= r PROVE x * x >= r * r
  <2>1. PICK d \in Nat : x = r + d
    <3>1. x - r \in Nat /\ x = r + (x - r)
      BY <1>1
    <3> QED BY <3>1
  <2>2. x * x = r * r + d * r + r * d + d * d
    BY <2>1
  <2>3. d * r >= 0 /\ r * d >= 0 /\ d * d >= 0 /\ r * r >= 0
    OBVIOUS
  <2> QED BY <2>2, <2>3
<1>2. a * a >= 0 /\ b * b >= 0 /\ r * r >= 0
  OBVIOUS
<1>3. ~(a >= r)
  BY <1>1, <1>2
<1>4. ~(b >= r)
  BY <1>1, <1>2
<1> QED BY <1>3, <1>4

CenterSet == [lon : Int, lat : Int]

(* How far apart two places are, one way round or the other. *)
LEMMA RoundTheGlobe ==
  ASSUME NEW q \in CenterSet, NEW p \in InRange, NEW r \in Nat, Distance2(q, p) < r * r
  PROVE  /\ r >= 1
         /\ q.lat - p.lat <= r - 1 /\ p.lat - q.lat <= r - 1
         /\ Normalized(q.lon) \in 0 .. Side
         /\ \E k \in {-1, 0, 1}, d \in -(r - 1) .. r - 1 : Normalized(q.lon) - p.lon = k * Side + d
<1> DEFINE a == Abs(q.lon - p.lon)
           across == a % Side
           dlon == Smaller(across, Side - across)
           dlat == Abs(q.lat - p.lat)
           Q == Normalized(q.lon)
<1>0. /\ q.lon \in Int /\ q.lat \in Int /\ p.lon \in 0 .. Side /\ p.lat \in 0 .. Side
      /\ Side \in Nat \ {0}
  BY PlaceType, SidesType DEF CenterSet
<1>1. a \in Nat /\ (a = q.lon - p.lon \/ a = -(q.lon - p.lon))
  BY <1>0 DEF Abs
<1>2. dlat \in Nat /\ (dlat = q.lat - p.lat \/ dlat = -(q.lat - p.lat))
  BY <1>0 DEF Abs
<1>3. Distance2(q, p) = dlon * dlon + dlat * dlat
  BY DEF Distance2
<1> HIDE DEF a, dlat
<1>4. PICK c \in Int, x \in 0 .. Side - 1 : x = across /\ a = Side * c + x
  <2>1. a \in Int /\ Side \in Nat \ {0}
    BY <1>0, <1>1
  <2> HIDE DEF dlon
  <2> QED BY <2>1, Divide
<1> HIDE DEF across
<1>5. dlon \in Nat /\ dlon <= Side - dlon /\ (dlon = x \/ dlon = Side - x)
  BY <1>0, <1>4 DEF Smaller
<1> HIDE DEF dlon
<1>6. r >= 1 /\ dlon <= r - 1 /\ dlat <= r - 1
  BY <1>2, <1>3, <1>5, Nearer
<1>7. PICK k \in Int, d \in -dlon .. dlon : q.lon - p.lon = k * Side + d
  <2>1. CASE a = q.lon - p.lon /\ dlon = x
    <3>1. q.lon - p.lon = c * Side + dlon
      BY <1>0, <1>4, <2>1
    <3>2. dlon \in -dlon .. dlon
      BY <1>5
    <3> QED BY <1>4, <3>1, <3>2
  <2>2. CASE a = q.lon - p.lon /\ dlon = Side - x
    <3>1. q.lon - p.lon = (c + 1) * Side + (-dlon)
      BY <1>0, <1>4, <2>2
    <3>2. -dlon \in -dlon .. dlon /\ c + 1 \in Int
      BY <1>4, <1>5
    <3> QED BY <3>1, <3>2
  <2>3. CASE a = -(q.lon - p.lon) /\ dlon = x
    <3>1. q.lon - p.lon = (-c) * Side + (-dlon)
      BY <1>0, <1>4, <2>3
    <3>2. -dlon \in -dlon .. dlon /\ -c \in Int
      BY <1>4, <1>5
    <3> QED BY <3>1, <3>2
  <2>4. CASE a = -(q.lon - p.lon) /\ dlon = Side - x
    <3>1. q.lon - p.lon = (-c - 1) * Side + dlon
      BY <1>0, <1>4, <2>4
    <3>2. dlon \in -dlon .. dlon /\ -c - 1 \in Int
      BY <1>4, <1>5
    <3> QED BY <3>1, <3>2
  <2> QED BY <1>1, <1>5, <2>1, <2>2, <2>3, <2>4
<1>8. PICK j \in Int : Q \in 0 .. Side /\ q.lon = Q + j * Side
  <2>1. CASE q.lon \in 0 .. Side
    <3>1. Q = q.lon /\ q.lon = Q + 0 * Side /\ 0 \in Int
      BY <1>0, <2>1 DEF Normalized
    <3> QED BY <2>1, <3>1
  <2>2. CASE q.lon \notin 0 .. Side
    <3>1. PICK b \in Int, y \in 0 .. Side - 1 : y = q.lon % Side /\ q.lon = Side * b + y
      BY <1>0, Divide
    <3>2. Q = y /\ q.lon = Q + b * Side /\ Q \in 0 .. Side
      BY <1>0, <2>2, <3>1 DEF Normalized
    <3> QED BY <3>2
  <2> QED BY <2>1, <2>2
<1> HIDE DEF Q
<1>9. Q - p.lon = (k - j) * Side + d
  BY <1>0, <1>7, <1>8
<1> DEFINE l == k - j
<1>10. l \in Int
  BY <1>7, <1>8
<1>11. Q - p.lon = l * Side + d
  BY <1>9
<1> HIDE DEF l
<1>12. l \in {-1, 0, 1}
  <2> DEFINE w == l * Side
  <2>1. w \in Int /\ w <= Side + Side - 1 /\ w >= -(Side + Side) + 1
    <3>1. w \in Int
      BY <1>0, <1>10
    <3>2. Q - p.lon = w + d
      BY <1>11
    <3> HIDE DEF w
    <3> QED BY <1>0, <1>5, <1>7, <1>8, <3>1, <3>2
  <2>2. CASE l >= 2
    <3>1. Side * (l - 1) >= Side /\ w = Side * (l - 1) + Side
      <4>1. l - 1 \in Int /\ l - 1 >= 1 /\ Side \in Nat
        BY <1>0, <1>10, <2>2
      <4>2. Side * (l - 1) >= Side
        BY <4>1, AtLeast
      <4>3. w = Side * (l - 1) + Side
        BY <1>0, <1>10
      <4> QED BY <4>2, <4>3
    <3> DEFINE v == Side * (l - 1)
    <3>2. v \in Int
      BY <1>0, <1>10
    <3> HIDE DEF v, w
    <3> QED BY <1>0, <2>1, <3>1, <3>2 DEF v
  <2>3. CASE l <= -2
    <3>1. Side * (-l - 1) >= Side /\ w = -(Side * (-l - 1)) - Side
      <4>1. -l - 1 \in Int /\ -l - 1 >= 1 /\ Side \in Nat
        BY <1>0, <1>10, <2>3
      <4>2. Side * (-l - 1) >= Side
        BY <4>1, AtLeast
      <4>3. w = -(Side * (-l - 1)) - Side
        BY <1>0, <1>10
      <4> QED BY <4>2, <4>3
    <3> DEFINE v == Side * (-l - 1)
    <3>2. v \in Int
      BY <1>0, <1>10
    <3> HIDE DEF v, w
    <3> QED BY <1>0, <2>1, <3>1, <3>2 DEF v
  <2> QED BY <1>10, <2>2, <2>3
<1>13. d \in -(r - 1) .. r - 1
  BY <1>5, <1>6, <1>7
<1>14. q.lat - p.lat <= r - 1 /\ p.lat - q.lat <= r - 1
  BY <1>0, <1>2, <1>6
<1>15. \E h \in {-1, 0, 1}, z \in -(r - 1) .. r - 1 : Q - p.lon = h * Side + z
  BY <1>11, <1>12, <1>13
<1> QED BY <1>6, <1>8, <1>14, <1>15 DEF Q

Intervals(norm, delta, far) ==
  IF delta >= far THEN {<<0, far>>}
  ELSE IF norm - delta < 0   THEN {<<norm - delta + far, far>>, <<0, norm + delta>>}
  ELSE IF norm + delta > far THEN {<<norm - delta, far>>, <<0, norm + delta - far>>}
  ELSE {<<norm - delta, norm + delta>>}

LEMMA IntervalsAre ==
  ASSUME NEW lon \in Int, NEW delta \in Int, Normalized(lon) \in Int
  PROVE  LonIntervals(lon, delta) = Intervals(2 * Normalized(lon), delta, 2 * Side)
<1> DEFINE norm == 2 * Normalized(lon)
<1>0. Side \in Int
  BY SidesType
<1>1. CASE delta >= 2 * Side
  BY <1>0, <1>1 DEF LonIntervals, Intervals
<1>2. CASE ~(delta >= 2 * Side) /\ norm - delta < 0
  BY <1>0, <1>2 DEF LonIntervals, Intervals
<1>3. CASE ~(delta >= 2 * Side) /\ ~(norm - delta < 0) /\ norm + delta > 2 * Side
  BY <1>0, <1>3 DEF LonIntervals, Intervals
<1>4. CASE ~(delta >= 2 * Side) /\ ~(norm - delta < 0) /\ ~(norm + delta > 2 * Side)
  BY <1>0, <1>4 DEF LonIntervals, Intervals
<1> QED BY <1>1, <1>2, <1>3, <1>4

LEMMA BoxMeets ==
  ASSUME NEW n \in NodeSet, NEW p \in InRange, ContainsNode(n, p),
         NEW q \in CenterSet, NEW r \in Nat, Distance2(q, p) < r * r
  PROVE  Meets(n, q, r)
<1> DEFINE Q == Normalized(q.lon)
           delta == 2 * r - 1
           norm == 2 * Q
           far == 2 * Side
<1>1. /\ r >= 1 /\ q.lat - p.lat <= r - 1 /\ p.lat - q.lat <= r - 1 /\ Q \in 0 .. Side
      /\ \E k \in {-1, 0, 1}, d \in -(r - 1) .. r - 1 : Q - p.lon = k * Side + d
  BY RoundTheGlobe
<1>2. PICK k \in {-1, 0, 1}, d \in -(r - 1) .. r - 1 : Q - p.lon = k * Side + d
  BY <1>1
<1> HIDE DEF Q
<1>3. /\ n.minLat <= p.lat /\ p.lat <= n.maxLat /\ n.minLon <= p.lon /\ p.lon <= n.maxLon
      /\ n.minLat \in 0 .. Side /\ n.maxLat \in 0 .. Side
      /\ n.minLon \in 0 .. Side /\ n.maxLon \in 0 .. Side
  BY NodeFields DEF ContainsNode
<1>4. /\ q.lat \in Int /\ p.lon \in 0 .. Side /\ p.lat \in 0 .. Side /\ Side \in Nat \ {0}
  BY PlaceType, SidesType DEF CenterSet
<1>5. HalfWidth(r) = delta /\ delta \in Nat
  BY <1>1 DEF HalfWidth
<1>6. 2 * n.maxLat >= 2 * q.lat - delta /\ 2 * n.minLat <= 2 * q.lat + delta
  BY <1>1, <1>3, <1>4
<1>7. LonIntervals(q.lon, delta) = Intervals(norm, delta, far)
  <2>1. q.lon \in Int /\ Normalized(q.lon) \in Int /\ delta \in Int
    BY <1>1, <1>5 DEF Q, CenterSet
  <2> HIDE DEF delta
  <2> QED BY <2>1, IntervalsAre DEF Q
<1> DEFINE Hit(a, b) == 2 * n.maxLon >= a /\ 2 * n.minLon <= b
<1>8. \E iv \in LonIntervals(q.lon, delta) : Hit(iv[1], iv[2])
  <2>0. k = -1 \/ k = 0 \/ k = 1
    OBVIOUS
  <2>1. CASE delta >= far
    <3>1. Hit(0, far)
      BY <1>3, <1>4
    <3>2. <<0, far>> \in LonIntervals(q.lon, delta)
      BY <1>7, <2>1 DEF Intervals
    <3> QED BY <3>1, <3>2
  <2>2. CASE ~(delta >= far) /\ norm - delta < 0
    <3>1. Hit(norm - delta + far, far) \/ Hit(0, norm + delta)
      <4>1. CASE k = 0
        BY <1>1, <1>2, <1>3, <1>4, <4>1
      <4>2. CASE k = 1
        BY <1>1, <1>2, <1>3, <1>4, <4>2
      <4>3. CASE k = -1
        BY <1>1, <1>2, <1>3, <1>4, <4>3
      <4> QED BY <2>0, <4>1, <4>2, <4>3
    <3>2. <<norm - delta + far, far>> \in LonIntervals(q.lon, delta)
          /\ <<0, norm + delta>> \in LonIntervals(q.lon, delta)
      BY <1>7, <2>2 DEF Intervals
    <3> HIDE DEF Hit
    <3> QED BY <3>1, <3>2
  <2>3. CASE ~(delta >= far) /\ ~(norm - delta < 0) /\ norm + delta > far
    <3>1. Hit(norm - delta, far) \/ Hit(0, norm + delta - far)
      <4>1. CASE k = 0
        BY <1>1, <1>2, <1>3, <1>4, <4>1
      <4>2. CASE k = 1
        BY <1>1, <1>2, <1>3, <1>4, <4>2
      <4>3. CASE k = -1
        BY <1>1, <1>2, <1>3, <1>4, <4>3
      <4> QED BY <2>0, <4>1, <4>2, <4>3
    <3>2. <<norm - delta, far>> \in LonIntervals(q.lon, delta)
          /\ <<0, norm + delta - far>> \in LonIntervals(q.lon, delta)
      BY <1>7, <2>3 DEF Intervals
    <3> HIDE DEF Hit
    <3> QED BY <3>1, <3>2
  <2>4. CASE ~(delta >= far) /\ ~(norm - delta < 0) /\ ~(norm + delta > far)
    <3>1. Hit(norm - delta, norm + delta)
      <4>1. CASE k = 0
        BY <1>1, <1>2, <1>3, <1>4, <4>1
      <4>2. CASE k = 1
        BY <1>1, <1>2, <1>3, <1>4, <2>4, <4>2
      <4>3. CASE k = -1
        BY <1>1, <1>2, <1>3, <1>4, <2>4, <4>3
      <4> QED BY <2>0, <4>1, <4>2, <4>3
    <3>2. <<norm - delta, norm + delta>> \in LonIntervals(q.lon, delta)
      BY <1>7, <2>4 DEF Intervals
    <3> HIDE DEF Hit
    <3> QED BY <3>1, <3>2
  <2> QED BY <2>1, <2>2, <2>3, <2>4
<1> QED BY <1>5, <1>6, <1>8 DEF Meets

-----------------------------------------------------------------------------
(* What a search finds of each entry: at most as many as there are, none
   beyond the circle, and all of those inside. *)
LEMMA DistanceType ==
  ASSUME NEW q \in CenterSet, NEW p \in InRange
  PROVE  Distance2(q, p) \in Int
<1> DEFINE a == Abs(q.lon - p.lon) % Side
           b == Abs(q.lat - p.lat)
           c == Smaller(a, Side - a)
<1>1. a \in Int /\ b \in Int
  <2>1. Abs(q.lon - p.lon) \in Int /\ b \in Int
    BY PlaceType, SidesType DEF CenterSet, Abs
  <2> HIDE DEF b
  <2> QED BY <2>1, SidesType
<1>2. c \in Int
  <2> HIDE DEF a
  <2> QED BY <1>1, SidesType DEF Smaller
<1>3. Distance2(q, p) = c * c + b * b
  BY DEF Distance2
<1> HIDE DEF a, b, c
<1> QED BY <1>1, <1>2, <1>3

Own(ns, q, r, i) == Chosen(ns[i].points, Within(ToSet(ns[i].points), q, r))

LEMMA OwnIs ==
  ASSUME NEW ns \in Seq(NodeSet), NEW i \in 1 .. Len(ns), NEW q \in CenterSet, NEW r \in Nat
  PROVE  /\ Own(ns, q, r, i) \in Seq(Entry)
         /\ \A e \in Entry :
              /\ Distance2(q, e.pos) <= r * r
                   => Among(Own(ns, q, r, i), {e}) = Among(ns[i].points, {e})
              /\ ~(Distance2(q, e.pos) <= r * r) => Among(Own(ns, q, r, i), {e}) = 0
<1> DEFINE s == ns[i].points
           W == Within(ToSet(s), q, r)
<1>1. s \in Seq(Entry)
  BY SlotsAre
<1>2. \A x : x \in W <=> Distance2(q, x.pos) <= r * r /\ \E j \in 1 .. Len(s) : s[j] = x
  BY <1>1 DEF Within, ToSet
<1> HIDE DEF s, W
<1>3. Chosen(s, W) \in Seq(Entry) /\ \A S : Among(Chosen(s, W), S) = Among(s, S \cap W)
  BY <1>1, ChosenIs
<1>4. ASSUME NEW e \in Entry, Distance2(q, e.pos) <= r * r
      PROVE  Among(Chosen(s, W), {e}) = Among(s, {e})
  <2>1. \A j \in 1 .. Len(s) : s[j] \in {e} \cap W <=> s[j] \in {e}
    BY <1>2, <1>4
  <2>2. Among(s, {e} \cap W) = Among(s, {e})
    BY <2>1, AmongSameAs
  <2> QED BY <1>3, <2>2
<1>5. ASSUME NEW e \in Entry, ~(Distance2(q, e.pos) <= r * r)
      PROVE  Among(Chosen(s, W), {e}) = 0
  <2>1. \A j \in 1 .. Len(s) : s[j] \notin {e} \cap W
    BY <1>2, <1>5
  <2>2. Among(s, {e} \cap W) = 0
    BY <2>1, AmongNone
  <2> QED BY <1>3, <2>2
<1> QED BY <1>3, <1>4, <1>5 DEF Own, s, W

Seen(ns, q, r, f, i) ==
  IF ~Meets(ns[i], q, r) THEN <<>>
  ELSE IF ns[i].first_child = 0 THEN Own(ns, q, r, i)
  ELSE Own(ns, q, r, i) \o f[ns[i].first_child] \o f[ns[i].first_child + 1]
         \o f[ns[i].first_child + 2] \o f[ns[i].first_child + 3]

Sight(ns, q, r) == CHOOSE f : f = [i \in 1 .. Len(ns) |-> Seen(ns, q, r, f, i)]

LEMMA SearchUnfolds ==
  ASSUME NEW ns, NEW q, NEW r
  PROVE  RadiusSearchInternal(ns, q, r) = Sight(ns, q, r)[1]
  BY DEF RadiusSearchInternal, Sight, Seen, Own

LEMMA SightExists ==
  ASSUME NEW ns, Framed(ns), NEW q \in CenterSet, NEW r \in Nat
  PROVE  Sight(ns, q, r) = [i \in 1 .. Len(ns) |-> Seen(ns, q, r, Sight(ns, q, r), i)]
<1> DEFINE N == Len(ns) - 1
           D == 1 .. N + 1
           V == Seq(Entry)
           F == [h \in [D -> V] |-> [i \in D |-> Seen(ns, q, r, h, i)]]
<1>0. N \in Nat /\ Len(ns) = N + 1 /\ ns \in Seq(NodeSet)
  BY DEF Framed
<1>1. ASSUME NEW i \in D, ns[i].first_child # 0, NEW k \in 0 .. 3
      PROVE  ns[i].first_child + k \in i + 1 .. N + 1
  <2>1. /\ ns[i].first_child \in Nat /\ ns[i].first_child > i
        /\ ns[i].first_child + 3 <= Len(ns)
    BY <1>0, <1>1, ChildrenAre
  <2> QED BY <1>0, <2>1
<1>1a. \A i \in D : ns[i].first_child # 0 =>
         /\ ns[i].first_child \in i + 1 .. N + 1 /\ ns[i].first_child + 1 \in i + 1 .. N + 1
         /\ ns[i].first_child + 2 \in i + 1 .. N + 1 /\ ns[i].first_child + 3 \in i + 1 .. N + 1
  <2> SUFFICES ASSUME NEW i \in D, ns[i].first_child # 0
               PROVE  /\ ns[i].first_child \in i + 1 .. N + 1
                      /\ ns[i].first_child + 1 \in i + 1 .. N + 1
                      /\ ns[i].first_child + 2 \in i + 1 .. N + 1
                      /\ ns[i].first_child + 3 \in i + 1 .. N + 1
    OBVIOUS
  <2>1. ns[i].first_child \in Nat
    BY <1>0, NodeFields
  <2>2. ns[i].first_child = ns[i].first_child + 0
    BY <2>1
  <2> QED BY <1>1, <2>2
<1> HIDE DEF N
<1>2. ASSUME NEW h \in [D -> V], NEW i \in D PROVE Seen(ns, q, r, h, i) \in V
  <2>1. Own(ns, q, r, i) \in V
    BY <1>0, OwnIs
  <2>2. ASSUME ns[i].first_child # 0
        PROVE  /\ h[ns[i].first_child] \in V /\ h[ns[i].first_child + 1] \in V
               /\ h[ns[i].first_child + 2] \in V /\ h[ns[i].first_child + 3] \in V
    <3>1. i + 1 .. N + 1 \subseteq D
      BY <1>0
    <3> QED BY <1>1a, <2>2, <3>1
  <2>3. \A a, b \in V : a \o b \in V
    OBVIOUS
  <2>4. <<>> \in V
    OBVIOUS
  <2> HIDE DEF V
  <2> QED BY <2>1, <2>2, <2>3, <2>4 DEF Seen
<1>3. F \in [[D -> V] -> [D -> V]]
  <2> HIDE DEF V
  <2> QED BY <1>2
<1>4. ASSUME NEW f \in [D -> V], NEW g \in [D -> V], NEW k \in D,
             \A j \in k + 1 .. N + 1 : f[j] = g[j]
      PROVE  F[f][k] = F[g][k]
  <2>1. Seen(ns, q, r, f, k) = Seen(ns, q, r, g, k)
    BY <1>1a, <1>4 DEF Seen
  <2> QED BY <2>1
<1>5. PICK h \in [D -> V] : F[h] = h
  <2> HIDE DEF F
  <2>1. V # {}
    <3>1. <<>> \in V
      OBVIOUS
    <3> QED BY <3>1
  <2> HIDE DEF V
  <2>2. LooksAhead(F, N, V)
    BY <1>3, <1>4 DEF LooksAhead
  <2> QED BY <1>0, <2>1, <2>2, LookingAhead
<1>6. h = [i \in D |-> Seen(ns, q, r, h, i)]
  BY <1>5
<1> QED BY <1>0, <1>6 DEF Sight

(* The four children of a node, by their places. *)
LEMMA FourChildren ==
  ASSUME NEW ns, Framed(ns), NEW i \in 1 .. Len(ns), ns[i].first_child # 0
  PROVE  /\ \A k \in {0, 1, 2, 3} : /\ ns[i].first_child + k \in Children(ns, i)
                                    /\ ns[i].first_child + k \in i + 1 .. Len(ns)
                                    /\ ns[i].first_child + k \in 1 .. Len(ns)
         /\ \A c \in Children(ns, i) : \E k \in {0, 1, 2, 3} : c = ns[i].first_child + k
         /\ \A k, l \in {0, 1, 2, 3} :
              ns[i].first_child + k = ns[i].first_child + l => k = l
<1> DEFINE c == ns[i].first_child
<1>1. /\ c \in Nat /\ c > i /\ c + 3 <= Len(ns) /\ Children(ns, i) = c .. c + 3
      /\ Len(ns) \in Nat
  BY ChildrenAre DEF Children, Framed
<1> HIDE DEF c
<1>2. ASSUME NEW x \in c .. c + 3 PROVE \E k \in {0, 1, 2, 3} : x = c + k
  <2>1. x - c \in {0, 1, 2, 3} /\ x = c + (x - c)
    BY <1>1
  <2> QED BY <2>1
<1>3. \A k \in {0, 1, 2, 3} : c + k \in c .. c + 3 /\ c + k \in i + 1 .. Len(ns)
                             /\ c + k \in 1 .. Len(ns)
  BY <1>1
<1>4. \A k, l \in {0, 1, 2, 3} : c + k = c + l => k = l
  BY <1>1
<1> QED BY <1>1, <1>2, <1>3, <1>4 DEF c

LEMMA AmongFive ==
  ASSUME NEW E, NEW s \in Seq(E), NEW a \in Seq(E), NEW b \in Seq(E), NEW c \in Seq(E),
         NEW d \in Seq(E), NEW S
  PROVE  /\ s \o a \o b \o c \o d \in Seq(E)
         /\ Among(s \o a \o b \o c \o d, S)
              = Among(s, S) + Among(a, S) + Among(b, S) + Among(c, S) + Among(d, S)
<1>1. /\ s \o a \in Seq(E) /\ s \o a \o b \in Seq(E) /\ s \o a \o b \o c \in Seq(E)
      /\ s \o a \o b \o c \o d \in Seq(E)
  <2>1. \A x, y \in Seq(E) : x \o y \in Seq(E)
    OBVIOUS
  <2> QED BY Zenon, <2>1
<1>2. \A x, y \in Seq(E) : Among(x \o y, S) = Among(x, S) + Among(y, S)
  BY AmongConcat
<1>3. Among(s \o a, S) = Among(s, S) + Among(a, S)
  BY Zenon, <1>2
<1>4. Among(s \o a \o b, S) = Among(s \o a, S) + Among(b, S)
  BY Zenon, <1>1, <1>2
<1>5. Among(s \o a \o b \o c, S) = Among(s \o a \o b, S) + Among(c, S)
  BY Zenon, <1>1, <1>2
<1>6. Among(s \o a \o b \o c \o d, S) = Among(s \o a \o b \o c, S) + Among(d, S)
  BY Zenon, <1>1, <1>2
<1> QED BY Zenon, <1>1, <1>3, <1>4, <1>5, <1>6

(* What the search finds from a node that does not, or does, contain e. *)
Blind(t, e) == Among(t, {e}) = 0

Sees(ns, t, q, r, e) ==
  /\ Among(t, {e}) <= Count(ns, {e})
  /\ Distance2(q, e.pos) < r * r => Among(t, {e}) = Count(ns, {e})
  /\ ~(Distance2(q, e.pos) <= r * r) => Among(t, {e}) = 0

LEMMA SightIs ==
  ASSUME NEW ns, Shape(ns), NEW q \in CenterSet, NEW r \in Nat
  PROVE  \A i \in 1 .. Len(ns) :
           /\ Sight(ns, q, r)[i] \in Seq(Entry)
           /\ \A e \in Entry :
                /\ ~ContainsNode(ns[i], e.pos) => Blind(Sight(ns, q, r)[i], e)
                /\ ContainsNode(ns[i], e.pos) => Sees(ns, Sight(ns, q, r)[i], q, r, e)
<1> DEFINE N == Len(ns) - 1
           w == Sight(ns, q, r)
           Right(i) == /\ w[i] \in Seq(Entry)
                       /\ \A e \in Entry :
                            /\ ~ContainsNode(ns[i], e.pos) => Blind(w[i], e)
                            /\ ContainsNode(ns[i], e.pos) => Sees(ns, w[i], q, r, e)
           G == {i \in 1 .. Len(ns) : Right(i)}
<1>0. N \in Nat /\ Len(ns) = N + 1 /\ Framed(ns) /\ ns \in Seq(NodeSet)
  BY DEF Shape, Framed
<1>1. \A i \in 1 .. Len(ns) : w[i] = Seen(ns, q, r, w, i)
  <2>1. w = [i \in 1 .. Len(ns) |-> Seen(ns, q, r, w, i)]
    BY <1>0, SightExists
  <2> HIDE DEF w
  <2> QED BY <2>1
<1> HIDE DEF w
<1>2. ASSUME NEW k \in 1 .. N + 1, \A j \in k + 1 .. N + 1 : j \in G PROVE k \in G
  <2>0. k \in 1 .. Len(ns)
    BY <1>0
  <2> SUFFICES Right(k)
    BY <2>0
  <2>a. w[k] = Seen(ns, q, r, w, k)
    BY <1>1, <2>0
  <2>b. /\ Own(ns, q, r, k) \in Seq(Entry)
        /\ \A e \in Entry :
             /\ Distance2(q, e.pos) <= r * r
                  => Among(Own(ns, q, r, k), {e}) = Among(ns[k].points, {e})
             /\ ~(Distance2(q, e.pos) <= r * r) => Among(Own(ns, q, r, k), {e}) = 0
    BY <1>0, <2>0, OwnIs, ZenonT(60)
  <2>c. \A e \in Entry : e.pos \in InRange /\ Distance2(q, e.pos) \in Int
                         /\ Count(ns, {e}) \in Nat
    BY <1>0, DistanceType, FoundIsFinite DEF Entry
  <2>d. r * r \in Int
    OBVIOUS
  <2>1. CASE ~Meets(ns[k], q, r)
    <3>1. w[k] = <<>>
      BY <2>a, <2>1 DEF Seen
    <3>2. ASSUME NEW e \in Entry PROVE Among(w[k], {e}) = 0
      BY <3>1, AmongEmpty
    <3>3. ASSUME NEW e \in Entry, ContainsNode(ns[k], e.pos)
          PROVE  ~(Distance2(q, e.pos) < r * r)
      <4>1. ns[k] \in NodeSet
        BY <1>0, <2>0
      <4> QED BY <2>1, <2>c, <3>3, <4>1, BoxMeets
    <3>4. w[k] \in Seq(Entry)
      BY <3>1
    <3> QED BY <2>c, <3>2, <3>3, <3>4 DEF Blind, Sees
  <2>2. CASE Meets(ns[k], q, r) /\ ns[k].first_child = 0
    <3>1. w[k] = Own(ns, q, r, k)
      BY <2>a, <2>2 DEF Seen
    <3>2. ASSUME NEW e \in Entry, ~ContainsNode(ns[k], e.pos) PROVE Blind(w[k], e)
      <4>1. \A j \in 1 .. Len(ns[k].points) : ns[k].points[j] \notin {e}
        BY <2>0, <3>2, EntriesInRange DEF IsLeafOf
      <4>2. Among(ns[k].points, {e}) = 0
        BY <4>1, AmongNone
      <4> QED BY <2>b, <3>1, <4>2 DEF Blind
    <3>3. ASSUME NEW e \in Entry, ContainsNode(ns[k], e.pos) PROVE Sees(ns, w[k], q, r, e)
      <4>1. k = Leaf(ns, e.pos)
        BY <1>0, <2>0, <2>2, <2>c, <3>3, LeafIs DEF IsLeafOf
      <4>2. Count(ns, {e}) = Among(ns[k].points, {e})
        BY <2>c, <4>1, CountAt
      <4>3. Distance2(q, e.pos) < r * r => Distance2(q, e.pos) <= r * r
        <5> DEFINE d == Distance2(q, e.pos)
                   f == r * r
        <5>1. d \in Int /\ f \in Int
          BY <2>c, <2>d
        <5> HIDE DEF d, f
        <5>2. d < f => d <= f
          BY <5>1
        <5> QED BY <5>2 DEF d, f
      <4>4. Count(ns, {e}) \in Nat
        BY <2>c
      <4>5. CASE Distance2(q, e.pos) <= r * r
        <5>1. Among(w[k], {e}) = Count(ns, {e})
          BY <2>b, <3>1, <4>2, <4>5
        <5> QED BY <4>4, <4>5, <5>1 DEF Sees
      <4>6. CASE ~(Distance2(q, e.pos) <= r * r)
        <5>1. Among(w[k], {e}) = 0
          BY <2>b, <3>1, <4>6
        <5> QED BY <4>3, <4>4, <4>6, <5>1 DEF Sees
      <4> QED BY <4>5, <4>6
    <3> QED BY <2>b, <3>1, <3>2, <3>3
  <2>3. CASE Meets(ns[k], q, r) /\ ns[k].first_child # 0
    <3> DEFINE c == ns[k].first_child
               own == Own(ns, q, r, k)
               K == {0, 1, 2, 3}
    <3>1. w[k] = own \o w[c] \o w[c + 1] \o w[c + 2] \o w[c + 3]
      BY <2>a, <2>3 DEF Seen
    <3>2. /\ \A l \in K : /\ c + l \in Children(ns, k) /\ c + l \in k + 1 .. Len(ns)
                           /\ c + l \in 1 .. Len(ns)
          /\ \A d \in Children(ns, k) : \E l \in K : d = c + l
          /\ \A l, m \in K : c + l = c + m => l = m
      BY <1>0, <2>0, <2>3, FourChildren
    <3>3. \A l \in K : Right(c + l)
      BY <1>0, <1>2, <3>2
    <3>3a. c + 0 = c
      BY <1>0, <2>0, NodeFields
    <3>4. ASSUME NEW e \in Entry PROVE Among(own, {e}) = 0
      <4>1. ns[k].points = <<>>
        BY <2>0, <2>3 DEF Shape, Kept
      <4>2. Among(ns[k].points, {e}) = 0
        BY <4>1, AmongEmpty
      <4> QED BY <2>b, <4>2
    <3> HIDE DEF own, c, G, Right
    <3>5. /\ w[c] \in Seq(Entry) /\ w[c + 1] \in Seq(Entry)
          /\ w[c + 2] \in Seq(Entry) /\ w[c + 3] \in Seq(Entry) /\ own \in Seq(Entry)
      BY <2>b, <3>3, <3>3a DEF Right, own
    <3>6. /\ w[k] \in Seq(Entry)
          /\ \A e \in Entry : Among(w[k], {e}) = Among(own, {e}) + Among(w[c], {e})
                + Among(w[c + 1], {e}) + Among(w[c + 2], {e}) + Among(w[c + 3], {e})
      BY <3>1, <3>5, AmongFive, SMTT(30)
    <3>7. ASSUME NEW e \in Entry
          PROVE  \A l \in K : /\ ~ContainsNode(ns[c + l], e.pos) => Among(w[c + l], {e}) = 0
                              /\ ContainsNode(ns[c + l], e.pos) => Sees(ns, w[c + l], q, r, e)
                              /\ Among(w[c + l], {e}) \in Nat
      <4>1. ASSUME NEW l \in K PROVE Among(w[c + l], {e}) \in Nat
        <5>1. w[c + l] \in Seq(Entry)
          BY <3>3 DEF Right
        <5> QED BY <5>1, AmongType
      <4> QED BY <3>3, <4>1 DEF Right, Blind
    <3>7a. ASSUME NEW e \in Entry
           PROVE  /\ \A d \in Children(ns, k) :
                       ContainsNode(ns[d], e.pos) => ContainsNode(ns[k], e.pos)
                  /\ ContainsNode(ns[k], e.pos)
                       => \E d \in Children(ns, k) : ContainsNode(ns[d], e.pos)
                  /\ \A d, f \in Children(ns, k) :
                       ContainsNode(ns[d], e.pos) /\ ContainsNode(ns[f], e.pos) => d = f
      <4>1. e.pos \in InRange
        BY <2>c
      <4> QED BY <1>0, <2>0, <2>3, <4>1, ChildrenPart
    <3>7b. ASSUME NEW e \in Entry
           PROVE  /\ Among(w[k], {e}) = Among(w[c + 0], {e})
                        + Among(w[c + 1], {e}) + Among(w[c + 2], {e}) + Among(w[c + 3], {e})
                  /\ Among(w[c + 0], {e}) \in Nat /\ Among(w[c + 1], {e}) \in Nat
                  /\ Among(w[c + 2], {e}) \in Nat /\ Among(w[c + 3], {e}) \in Nat
      <4>1. /\ Among(w[c + 0], {e}) \in Nat /\ Among(w[c + 1], {e}) \in Nat
            /\ Among(w[c + 2], {e}) \in Nat /\ Among(w[c + 3], {e}) \in Nat
        BY <3>7
      <4>2. Among(w[k], {e}) = 0 + Among(w[c + 0], {e})
                + Among(w[c + 1], {e}) + Among(w[c + 2], {e}) + Among(w[c + 3], {e})
        BY Zenon, <3>3a, <3>4, <3>6
      <4> QED BY <4>1, <4>2
    <3>8. ASSUME NEW e \in Entry, ~ContainsNode(ns[k], e.pos) PROVE Blind(w[k], e)
      <4>1. \A l \in K : ~ContainsNode(ns[c + l], e.pos)
        BY <3>2, <3>7a, <3>8
      <4>2. \A l \in K : Among(w[c + l], {e}) = 0
        BY <3>7, <4>1
      <4>3. /\ Among(w[c + 0], {e}) = 0 /\ Among(w[c + 1], {e}) = 0
            /\ Among(w[c + 2], {e}) = 0 /\ Among(w[c + 3], {e}) = 0
        BY <4>2
      <4>4. Among(w[k], {e}) = 0 + 0 + 0 + 0
        BY <3>7b, <4>3
      <4> QED BY <4>4 DEF Blind
    <3>9. ASSUME NEW e \in Entry, ContainsNode(ns[k], e.pos) PROVE Sees(ns, w[k], q, r, e)
      <4>1. PICK l \in K : ContainsNode(ns[c + l], e.pos)
        BY <3>2, <3>7a, <3>9
      <4>2. \A m \in K : m # l => ~ContainsNode(ns[c + m], e.pos)
        BY <3>2, <3>7a, <4>1
      <4>3. \A m \in K : m # l => Among(w[c + m], {e}) = 0
        BY <3>7, <4>2
      <4>4. Sees(ns, w[c + l], q, r, e) /\ Among(w[c + l], {e}) \in Nat
        BY <3>7, <4>1
      <4>5. Among(w[k], {e}) = Among(w[c + 0], {e})
              + Among(w[c + 1], {e}) + Among(w[c + 2], {e}) + Among(w[c + 3], {e})
        BY <3>7b
      <4>6. Among(w[k], {e}) = Among(w[c + l], {e})
        BY <4>3, <4>4, <4>5
      <4> QED BY <4>4, <4>6 DEF Sees
    <3> QED BY <3>6, <3>8, <3>9 DEF Right
  <2> QED BY <2>1, <2>2, <2>3
<1> HIDE DEF G, N
<1>3. \A i \in 1 .. N + 1 : i \in G
  BY <1>0, <1>2, Backwards
<1> QED BY <1>0, <1>3 DEF G, w

LEMMA SearchIs ==
  ASSUME NEW ns, Shape(ns), NEW q \in CenterSet, NEW r \in Nat
  PROVE  /\ RadiusSearchInternal(ns, q, r) \in Seq(Entry)
         /\ \A e \in Entry : Sees(ns, RadiusSearchInternal(ns, q, r), q, r, e)
<1>0. Framed(ns) /\ 1 \in 1 .. Len(ns)
  BY DEF Shape, Framed
<1>1. ASSUME NEW e \in Entry PROVE ContainsNode(ns[1], e.pos)
  <2>1. e.pos \in InRange
    BY DEF Entry
  <2> QED BY <1>0, <2>1, RootContains
<1> QED BY <1>0, <1>1, SightIs, SearchUnfolds

-----------------------------------------------------------------------------
(* The answers to a search: the hits in some order, cut off after count. *)
Cut(hits, count) == IF count > 0 /\ Len(hits) > count THEN count ELSE Len(hits)

Before(q, asc, a, b) ==
  IF asc THEN Distance2(q, a.pos) <= Distance2(q, b.pos)
         ELSE Distance2(q, a.pos) >= Distance2(q, b.pos)

(* A way of putting the hits in order. *)
Sorting(hits, q, asc, o) ==
  /\ o \in [1 .. Len(hits) -> 1 .. Len(hits)]
  /\ \A i, j \in 1 .. Len(hits) : o[i] = o[j] => i = j
  /\ \A k \in 1 .. Len(hits) : \E i \in 1 .. Len(hits) : o[i] = k
  /\ \A i, j \in 1 .. Len(hits) : i < j => Before(q, asc, hits[o[i]], hits[o[j]])

LEMMA OrderedIs ==
  ASSUME NEW E, NEW hits \in Seq(E), NEW q, NEW asc, NEW count \in Nat,
         NEW found \in Ordered(hits, q, asc, count)
  PROVE  /\ Cut(hits, count) \in 0 .. Len(hits) /\ Len(found) = Cut(hits, count)
         /\ found \in Seq(E)
         /\ \E o : /\ Sorting(hits, q, asc, o)
                   /\ \A i \in 1 .. Cut(hits, count) : found[i] = hits[o[i]]
<1> DEFINE D == 1 .. Len(hits)
           n == Cut(hits, count)
           d == [i \in D |-> Distance2(q, hits[i].pos)]
<1>0. Len(hits) \in Nat /\ DOMAIN hits = D /\ \A i \in D : hits[i] \in E
  OBVIOUS
<1>1. n \in 0 .. Len(hits)
  BY <1>0 DEF Cut
<1>2. IsFiniteSet(D) /\ Cardinality(D) = Len(hits)
  <2> DEFINE k == Len(hits)
  <2>1. k \in Nat
    BY <1>0
  <2> HIDE DEF k, n, d
  <2>2. IsFiniteSet(1 .. k) /\ Cardinality(1 .. k) = k
    BY <2>1, FS_Interval
  <2> QED BY <2>2 DEF k
<1>3. PICK o \in SetToSeqs(DOMAIN hits) :
        /\ \A i, j \in DOMAIN hits : i < j =>
             IF asc THEN d[o[i]] <= d[o[j]] ELSE d[o[i]] >= d[o[j]]
        /\ found = [i \in 1 .. n |-> hits[o[i]]]
  BY <1>0 DEF Ordered, Cut
<1>4. o \in [D -> D] /\ \A i, j \in D : o[i] = o[j] => i = j
  <2>1. o \in SetToSeqs(D)
    BY <1>0, <1>3
  <2> HIDE DEF D
  <2>2. o \in [1 .. Cardinality(D) -> D] /\ \A i, j \in 1 .. Cardinality(D) : i # j => o[i] # o[j]
    BY <2>1 DEF SetToSeqs
  <2> QED BY <1>2, <2>2 DEF D
<1> HIDE DEF n
<1>5. \A k \in D : \E i \in D : o[i] = k
  <2> HIDE DEF D
  <2>1. o \in Injection(D, D)
    BY <1>4 DEF Injection, IsInjective
  <2>2. o \in Surjection(D, D)
    BY <1>2, <2>1, FS_Injection
  <2> QED BY <2>2 DEF Surjection
<1>6. ASSUME NEW i \in D, NEW j \in D, i < j PROVE Before(q, asc, hits[o[i]], hits[o[j]])
  <2>1. IF asc THEN d[o[i]] <= d[o[j]] ELSE d[o[i]] >= d[o[j]]
    BY <1>0, <1>3, <1>6
  <2>2. /\ d[o[i]] = Distance2(q, hits[o[i]].pos)
        /\ d[o[j]] = Distance2(q, hits[o[j]].pos)
    BY <1>4
  <2> QED BY <2>1, <2>2 DEF Before
<1>7. Sorting(hits, q, asc, o)
  BY <1>4, <1>5, <1>6 DEF Sorting
<1>8. \A i \in 1 .. n : i \in D /\ o[i] \in D /\ hits[o[i]] \in E
  <2>1. \A i \in 1 .. n : i \in D
    BY <1>0, <1>1
  <2> HIDE DEF D
  <2> QED BY <1>0, <1>4, <2>1
<1>9. found \in Seq(E) /\ Len(found) = n /\ \A i \in 1 .. n : found[i] = hits[o[i]]
  <2>1. n \in Nat
    BY <1>0, <1>1
  <2> QED BY <1>3, <1>8, <2>1
<1> QED BY <1>1, <1>7, <1>9 DEF n

LEMMA OrderedElements ==
  ASSUME NEW E, NEW hits \in Seq(E), NEW q, NEW asc, NEW count \in Nat,
         NEW found \in Ordered(hits, q, asc, count)
  PROVE  found \in Seq(E) /\ \A i \in 1 .. Len(found) : \E j \in 1 .. Len(hits) : found[i] = hits[j]
<1>1. /\ Cut(hits, count) \in 0 .. Len(hits) /\ Len(found) = Cut(hits, count)
      /\ found \in Seq(E) /\ Len(hits) \in Nat
  BY OrderedIs
<1>2. PICK o : /\ Sorting(hits, q, asc, o)
               /\ \A i \in 1 .. Cut(hits, count) : found[i] = hits[o[i]]
  BY OrderedIs
<1>3. ASSUME NEW i \in 1 .. Len(found)
      PROVE  o[i] \in 1 .. Len(hits) /\ found[i] = hits[o[i]]
  <2>1. i \in 1 .. Len(hits) /\ i \in 1 .. Cut(hits, count)
    BY <1>1
  <2> QED BY <1>2, <2>1 DEF Sorting
<1> QED BY <1>1, <1>3

(* What GEOSEARCHSTORE puts into the new object: members, where they are,
   in the circle. *)
LEMMA SearchPointsAre ==
  ASSUME GoodObject(CurrentObject), NEW q \in CenterSet, NEW r \in Nat, NEW asc, NEW count \in Nat,
         NEW found \in SearchPoints(q, r, asc, count)
  PROVE  /\ found \in Seq(NewEntry)
         /\ \A i \in 1 .. Len(found) : /\ found[i].name \in Member /\ found[i].pos \in Position
                                       /\ found[i].pos = points[found[i].name]
                                       /\ Distance2(q, found[i].pos) <= r * r
<1> DEFINE hits == RadiusSearch(q, r)
           P == {e \in ToSet(hits) : points[e.name] # NoPos}
           cands == Chosen(hits, P)
           current == [i \in DOMAIN cands |-> [name |-> cands[i].name, pos |-> points[cands[i].name]]]
           W == Within(ToSet(current), q, r)
           inside == Chosen(current, W)
<1>0. Shape(nodes_) /\ points \in Coordinates
  BY DEF GoodObject, CurrentObject, Well
<1>1. hits \in Seq(Entry)
  BY <1>0, SearchIs DEF RadiusSearch
<1>2. found \in Ordered(inside, q, asc, count)
  BY DEF SearchPoints
<1>3. ToSet(hits) = {hits[i] : i \in DOMAIN hits}
  BY DEF ToSet
<1> HIDE DEF hits
<1>4. \A x : x \in P => points[x.name] # NoPos
  OBVIOUS
<1> HIDE DEF P
<1>5. /\ cands \in Seq(Entry)
      /\ \A i \in 1 .. Len(cands) : cands[i] \in P
  <2>1. cands \in Seq(Entry)
    BY <1>1, ChosenIs
  <2>2. \A x : (\E j \in 1 .. Len(cands) : cands[j] = x) => x \in P
    BY <1>1, ChosenElements
  <2> QED BY <2>1, <2>2
<1> HIDE DEF cands
<1>6. /\ current \in Seq(NewEntry)
      /\ \A i \in 1 .. Len(current) : current[i].pos = points[current[i].name]
  <2>1. DOMAIN cands = 1 .. Len(cands) /\ Len(cands) \in Nat
    BY <1>5
  <2>2. ASSUME NEW i \in 1 .. Len(cands)
        PROVE  cands[i].name \in Member /\ points[cands[i].name] \in Position
    <3>1. cands[i] \in Entry
      BY <1>5
    <3>2. cands[i].name \in Member
      BY <3>1 DEF Entry
    <3>3. points[cands[i].name] # NoPos
      BY <1>4, <1>5
    <3> QED BY <1>0, <3>2, <3>3 DEF Coordinates
  <2>3. \A i \in 1 .. Len(cands) :
          [name |-> cands[i].name, pos |-> points[cands[i].name]] \in NewEntry
    BY <2>2 DEF NewEntry
  <2>4. current \in Seq(NewEntry) /\ Len(current) = Len(cands)
    BY <2>1, <2>3
  <2> QED BY <2>1, <2>4
<1>7. \A x : x \in W => Distance2(q, x.pos) <= r * r
  BY DEF Within
<1> HIDE DEF current, W
<1>8. /\ inside \in Seq(NewEntry)
      /\ \A i \in 1 .. Len(inside) :
           inside[i] \in W /\ \E j \in 1 .. Len(current) : current[j] = inside[i]
  <2>1. inside \in Seq(NewEntry)
    BY <1>6, ChosenIs
  <2>2. \A x : (\E j \in 1 .. Len(inside) : inside[j] = x) =>
                  x \in W /\ \E j \in 1 .. Len(current) : current[j] = x
    <3>1. current \in Seq(NewEntry)
      BY <1>6
    <3>2. \A x : (\E j \in 1 .. Len(Chosen(current, W)) : Chosen(current, W)[j] = x)
                   <=> x \in W /\ \E j \in 1 .. Len(current) : current[j] = x
      BY <3>1, ChosenElements, SMTT(30)
    <3> QED BY <3>2
  <2> QED BY <2>1, <2>2
<1> HIDE DEF inside
<1>9. /\ found \in Seq(NewEntry)
      /\ \A i \in 1 .. Len(found) : \E j \in 1 .. Len(inside) : found[i] = inside[j]
  BY <1>2, <1>8, OrderedElements
<1>10. ASSUME NEW i \in 1 .. Len(found)
       PROVE  /\ found[i].name \in Member /\ found[i].pos \in Position
              /\ found[i].pos = points[found[i].name]
              /\ Distance2(q, found[i].pos) <= r * r
  <2>1. found[i] \in NewEntry
    BY <1>9
  <2>2. found[i].name \in Member /\ found[i].pos \in Position
    BY <2>1 DEF NewEntry
  <2>3. PICK j \in 1 .. Len(inside) : found[i] = inside[j]
    BY <1>9
  <2>4. found[i] \in W /\ \E k \in 1 .. Len(current) : current[k] = found[i]
    BY <1>8, <2>3
  <2> QED BY <1>6, <1>7, <2>2, <2>4
<1> QED BY <1>9, <1>10

-----------------------------------------------------------------------------
(* An object that is built of such entries: its members are where the entries
   say, and so is each entry of its tree. *)
Settled(o, at) ==
  /\ GoodObject(o) /\ Exact(o)
  /\ \A m \in Member : o.points[m] = NoPos \/ o.points[m] = at[m]
  /\ \A e \in Entry : Count(o.nodes_, {e}) > 0 => o.points[e.name] = e.pos

(* A new entry for a member, at its place. *)
Placed(e, at) == e \in NewEntry /\ e.pos = at[e.name]

LEMMA AddedSettles ==
  ASSUME NEW at, NEW o, Settled(o, at), NEW e, Placed(e, at)
  PROVE  Settled(Added(o, e), at)
<1> DEFINE t == Moved(o, e)
           u == Added(o, e)
           m == e.name
<1>0. e \in NewEntry /\ m \in Member /\ e.pos \in Position /\ e.pos = at[m]
  BY DEF Placed, NewEntry
<1>1. GoodObject(o) /\ Exact(o) /\ o.points \in Coordinates /\ o.nodes_ \in Seq(NodeSet)
  BY DEF Settled, GoodObject, Well, Shape, Framed
<1>2. /\ GoodObject(u) /\ Exact(u) /\ u.points = [o.points EXCEPT ![m] = e.pos]
      /\ e.pos \notin InRange => u.nodes_ = t.nodes_
      /\ e.pos \in InRange => \A S : Count(u.nodes_, S) = Count(t.nodes_, S) + One(e, S)
  BY <1>0, <1>1, AddedIs
<1>3. t.nodes_ = IF o.points[m] = NoPos THEN o.nodes_ ELSE RemoveByPosition(o.nodes_, o.points[m])
  BY DEF Moved
<1>4. ASSUME NEW S PROVE Count(t.nodes_, S) <= Count(o.nodes_, S) /\ Count(t.nodes_, S) \in Nat
  <2>1. Count(o.nodes_, S) \in Nat
    BY <1>1, FoundIsFinite
  <2>2. CASE o.points[m] = NoPos
    BY <1>3, <2>1, <2>2
  <2>3. CASE o.points[m] # NoPos
    <3> DEFINE rem == RemoveByPosition(o.nodes_, o.points[m])
    <3>1. Well(o.nodes_)
      BY <1>1 DEF GoodObject
    <3>2. /\ Well(rem)
          /\ \/ rem = o.nodes_
             \/ \E x \in Entry : \A R : Count(o.nodes_, R) = Count(rem, R) + One(x, R)
      BY <3>1, RemoveIs
    <3> HIDE DEF rem
    <3>3. Count(rem, S) \in Nat
      BY <3>2, FoundIsFinite DEF Well, Shape, Framed
    <3>4. Count(rem, S) <= Count(o.nodes_, S)
      BY <2>1, <3>2, <3>3 DEF One
    <3> QED BY <1>3, <2>3, <3>3, <3>4 DEF rem
  <2> QED BY <2>2, <2>3
<1> HIDE DEF t, u, m
<1>5. ASSUME NEW n \in Member PROVE u.points[n] = NoPos \/ u.points[n] = at[n]
  <2>1. o.points[n] = NoPos \/ o.points[n] = at[n]
    BY DEF Settled
  <2>2. u.points[n] = IF n = m THEN e.pos ELSE o.points[n]
    BY <1>1, <1>2 DEF Coordinates
  <2> QED BY <1>0, <2>1, <2>2
<1>6. ASSUME NEW x \in Entry, Count(u.nodes_, {x}) > 0 PROVE u.points[x.name] = x.pos
  <2>0. x.name \in Member /\ x.pos \in InRange /\ x.pos # NoPos
    BY PlaceType, QuadtreeAssumption DEF Entry
  <2>1. u.points[x.name] = IF x.name = m THEN e.pos ELSE o.points[x.name]
    BY <1>1, <1>2, <2>0 DEF Coordinates
  <2>2. CASE Count(t.nodes_, {x}) > 0
    <3>1. Count(o.nodes_, {x}) \in Nat /\ Count(o.nodes_, {x}) > 0
      BY <1>1, <1>4, <2>2, FoundIsFinite
    <3>2. o.points[x.name] = x.pos
      BY <3>1 DEF Settled
    <3>3. x.pos = at[x.name]
      BY <2>0, <3>2 DEF Settled
    <3> QED BY <1>0, <2>1, <3>2, <3>3
  <2>3. CASE ~(Count(t.nodes_, {x}) > 0)
    <3>1. Count(t.nodes_, {x}) = 0
      BY <1>4, <2>3
    <3>2. e.pos \in InRange /\ One(e, {x}) > 0
      <4>1. CASE e.pos \notin InRange
        BY <1>2, <1>6, <2>3, <4>1
      <4>2. CASE e.pos \in InRange
        <5>1. Count(u.nodes_, {x}) = Count(t.nodes_, {x}) + One(e, {x})
          BY <1>2, <4>2
        <5>2. One(e, {x}) \in Nat
          BY DEF One
        <5> QED BY <1>6, <3>1, <4>2, <5>1, <5>2
      <4> QED BY <4>1, <4>2
    <3>3. e = x
      BY <3>2 DEF One
    <3> QED BY <2>1, <3>3 DEF m
  <2> QED BY <2>2, <2>3
<1>7. Settled(u, at)
  BY <1>2, <1>5, <1>6 DEF Settled
<1> QED BY <1>7 DEF u

(* An object starts without members. *)
LEMMA NewIsSettled ==
  ASSUME NEW at
  PROVE  Settled(NewObject, at) /\ Stored(NewObject) = {}
<1> DEFINE root == Node(0, Side, 0, Side, 0)
           ns == << root >>
           o == NewObject
<1>1. root \in NodeSet /\ Proper(root) /\ Kept(root) /\ root.first_child = 0 /\ root.points = <<>>
  <2>1. root \in NodeSet
    BY SidesType DEF Node, NodeSet
  <2>2. root.first_child = 0 /\ root.points = <<>> /\ Proper(root)
    BY SidesType DEF Node, Proper
  <2>3. Kept(root)
    BY <2>2 DEF Kept
  <2> QED BY <2>1, <2>2, <2>3
<1>2. SameBox(root, Node(0, Side, 0, Side, 0))
  BY DEF SameBox
<1> HIDE DEF root
<1>3. ns \in Seq(NodeSet) /\ Len(ns) = 1 /\ ns[1] = root
  BY <1>1
<1> HIDE DEF ns
<1>4. Framed(ns)
  BY <1>1, <1>2, <1>3 DEF Framed
<1>5. Well(ns)
  <2>1. Shape(ns)
    BY <1>1, <1>3, <1>4 DEF Shape
  <2>2. Len(<<>>) = 0
    OBVIOUS
  <2>3. Roomy(ns)
    BY <1>1, <1>3, <2>2, SidesType DEF Roomy
  <2> QED BY <2>1, <2>3 DEF Well
<1>6. o.points = [m \in Member |-> NoPos] /\ o.nodes_ = ns
  BY DEF NewObject, ns, root
<1> HIDE DEF o
<1>7. o.points \in Coordinates /\ Stored(o) = {}
  BY <1>6 DEF Coordinates, Stored
<1>8. ASSUME NEW S PROVE Count(ns, S) = 0
  <2>1. ~(\E i \in 1 .. Len(ns) : \E j \in 1 .. Len(ns[i].points) : ns[i].points[j] \in S)
    BY <1>1, <1>3
  <2>2. Count(ns, S) \in Nat
    BY <1>3, FoundIsFinite
  <2>3. ~(Count(ns, S) > 0)
    BY <1>3, <2>1, CountSome
  <2> QED BY <2>2, <2>3
<1>9. Exact(o)
  <2> SUFFICES ASSUME NEW p \in InRange PROVE Count(o.nodes_, AllAt(p)) = Cardinality(Here(o, p))
    BY DEF Exact
  <2>1. Here(o, p) = {}
    BY <1>6, PlaceType, QuadtreeAssumption DEF Here
  <2> QED BY <1>6, <1>8, <2>1, FS_EmptySet
<1>10. GoodObject(o)
  BY <1>5, <1>6, <1>7, FS_EmptySet DEF GoodObject
<1>11. Settled(o, at)
  <2>1. \A e \in Entry : ~(Count(o.nodes_, {e}) > 0)
    BY <1>6, <1>8
  <2>2. \A m \in Member : o.points[m] = NoPos
    BY <1>6
  <2> QED BY <1>9, <1>10, <2>1, <2>2 DEF Settled
<1> QED BY <1>7, <1>11 DEF o

Building(s, g, T) == IF T = {} THEN NewObject ELSE Added(g[T \ {Max(T)}], s[Max(T)])

Buildings(s) == CHOOSE g : g = [T \in SUBSET DOMAIN s |-> Building(s, g, T)]

LEMMA BuiltIsFold ==
  ASSUME NEW s
  PROVE  Built(s) = Buildings(s)[DOMAIN s]
  BY DEF Built, FoldLeft, MapThenFoldSet, Buildings, Building

LEMMA BuildingsExist ==
  ASSUME NEW s \in Seq(NewEntry), NEW at, \A i \in 1 .. Len(s) : s[i].pos = at[s[i].name]
  PROVE  Buildings(s) = [T \in SUBSET DOMAIN s |-> Building(s, Buildings(s), T)]
<1> DEFINE E == {e \in NewEntry : e.pos = at[e.name]}
           V == {o \in [points : Coordinates, nodes_ : Seq(NodeSet)] : Settled(o, at)}
           step == [o \in V |-> [e \in E |-> Added(o, e)]]
           D == SUBSET DOMAIN s
<1>0. DOMAIN s = 1 .. Len(s) /\ Len(s) \in Nat
  OBVIOUS
<1>1. s \in Seq(E)
  <2>1. \A i \in 1 .. Len(s) : s[i] \in E
    OBVIOUS
  <2> HIDE DEF E
  <2> QED BY <2>1
<1>2. ASSUME NEW o, Settled(o, at), NEW P, NEW ns, o = [points |-> P, nodes_ |-> ns]
      PROVE  o \in V
  <2>1. o.points = P /\ o.nodes_ = ns
    BY <1>2
  <2>2. P \in Coordinates /\ ns \in Seq(NodeSet)
    BY <1>2, <2>1 DEF Settled, GoodObject, Well, Shape, Framed
  <2> QED BY <1>2, <2>2
<1>3. NewObject \in V
  BY <1>2, NewIsSettled DEF NewObject
<1>4. ASSUME NEW o \in V, NEW e \in E PROVE Added(o, e) \in V
  <2>1. Settled(Added(o, e), at)
    BY AddedSettles DEF Placed
  <2>2. Added(o, e) = [points |-> Moved(o, e).points, nodes_ |-> Insert(Moved(o, e).nodes_, e)]
    BY DEF Added, Moved
  <2> QED BY <1>2, <2>1, <2>2
<1>5. step \in [V -> [E -> V]] /\ \A o \in V, e \in E : step[o][e] = Added(o, e)
  <2> HIDE DEF V, E
  <2> QED BY <1>4
<1> HIDE DEF step, V, E
<1>6. ASSUME NEW T \in D, T # {}
      PROVE  s[Max(T)] \in E /\ T \ {Max(T)} \in D
  <2>1. Max(T) \in 1 .. Len(s)
    BY <1>0, <1>6, MaxIsMember
  <2> QED BY <1>1, <2>1
<1>7. PICK g : IsFold(g, V, NewObject, s, step)
  BY <1>1, <1>3, <1>5, FoldExists
<1>8. ASSUME NEW T \in D PROVE g[T] = Building(s, g, T)
  <2>1. CASE T = {}
    BY <1>7, <2>1 DEF IsFold, Building
  <2>2. CASE T # {}
    <3>1. g[T \ {Max(T)}] \in V /\ s[Max(T)] \in E
      BY <1>6, <1>7, <2>2 DEF IsFold
    <3>2. g[T] = step[g[T \ {Max(T)}]][s[Max(T)]]
      BY <1>7, <2>2 DEF IsFold
    <3> QED BY <1>5, <2>2, <3>1, <3>2 DEF Building
  <2> QED BY <2>1, <2>2
<1>9. g = [T \in D |-> g[T]]
  BY <1>7 DEF IsFold
<1>10. g = [T \in D |-> Building(s, g, T)]
  <2> HIDE DEF D
  <2> QED BY <1>8, <1>9
<1> QED BY <1>10 DEF Buildings

LEMMA BuiltIs ==
  ASSUME NEW s \in Seq(NewEntry), NEW at, \A i \in 1 .. Len(s) : s[i].pos = at[s[i].name]
  PROVE  /\ Settled(Built(s), at)
         /\ \A m \in Stored(Built(s)) : \E i \in 1 .. Len(s) : s[i].name = m
<1> DEFINE g == Buildings(s)
           G == {k \in Nat : k <= Len(s) =>
                   /\ Settled(g[1 .. k], at)
                   /\ \A m \in Stored(g[1 .. k]) : \E i \in 1 .. Len(s) : s[i].name = m}
<1>0. Len(s) \in Nat /\ DOMAIN s = 1 .. Len(s)
  OBVIOUS
<1>1. \A T \in SUBSET (1 .. Len(s)) : g[T] = Building(s, g, T)
  <2>1. g = [T \in SUBSET DOMAIN s |-> Building(s, g, T)]
    BY BuildingsExist
  <2> HIDE DEF g
  <2> QED BY <1>0, <2>1
<1> HIDE DEF g
<1>2. 0 \in G
  <2>1. 1 .. 0 = {} /\ {} \in SUBSET (1 .. Len(s))
    OBVIOUS
  <2>2. g[1 .. 0] = NewObject
    BY <1>1, <2>1 DEF Building
  <2>3. Settled(g[1 .. 0], at) /\ Stored(g[1 .. 0]) = {}
    BY <2>2, NewIsSettled
  <2> QED BY <2>3
<1>3. ASSUME NEW k \in Nat, k \in G PROVE k + 1 \in G
  <2> DEFINE o == g[1 .. k]
             u == g[1 .. k + 1]
             e == s[k + 1]
  <2> SUFFICES ASSUME k + 1 <= Len(s)
               PROVE  /\ Settled(u, at)
                      /\ \A m \in Stored(u) : \E i \in 1 .. Len(s) : s[i].name = m
    OBVIOUS
  <2>0. k <= Len(s) /\ k + 1 \in 1 .. Len(s)
    BY <1>0
  <2>1. Settled(o, at) /\ \A m \in Stored(o) : \E i \in 1 .. Len(s) : s[i].name = m
    BY <1>3, <2>0
  <2>2. e \in NewEntry /\ e.pos = at[e.name]
    BY <2>0
  <2>3. u = Added(o, e)
    <3>1. 1 .. k + 1 \in SUBSET (1 .. Len(s))
      BY <1>0
    <3>2. u = Building(s, g, 1 .. k + 1)
      BY <1>1, <3>1
    <3> QED BY <3>2, MaxOfFirst DEF Building
  <2> HIDE DEF o, u, e, G
  <2>4. Settled(u, at)
    <3>1. Placed(e, at)
      BY <2>2 DEF Placed
    <3> QED BY <2>1, <2>3, <3>1, AddedSettles
  <2>5. ASSUME NEW m \in Stored(u) PROVE \E i \in 1 .. Len(s) : s[i].name = m
    <3>1. u.points = [o.points EXCEPT ![e.name] = e.pos] /\ o.points \in Coordinates
      BY <2>1, <2>2, <2>3, AddedIs DEF Settled, GoodObject
    <3>2. m = e.name \/ m \in Stored(o)
      BY <3>1 DEF Stored, Coordinates
    <3> QED BY <2>0, <2>1, <3>2 DEF e
  <2> QED BY <2>4, <2>5
<1> HIDE DEF G
<1>4. Len(s) \in G
  BY <1>0, <1>2, <1>3, NaturalsBySuccessor
<1>5. Built(s) = g[1 .. Len(s)]
  BY <1>0, BuiltIsFold DEF g
<1> QED BY <1>0, <1>4, <1>5 DEF G

-----------------------------------------------------------------------------
(* The steps of the object. *)
LEMMA BecomesIs ==
  ASSUME NEW o, Becomes(o)
  PROVE  /\ GoodObject(o) => GoodObject(CurrentObject)'
         /\ AtMost(o) => AtMost(CurrentObject)'
         /\ Exact(o) => Exact(CurrentObject)'
<1>1. points' = o.points /\ nodes_' = o.nodes_
  BY DEF Becomes
<1>2. GoodObject(o) => GoodObject(CurrentObject)'
  BY <1>1 DEF GoodObject, Stored, CurrentObject
<1>3. \A p : Here(CurrentObject, p)' = Here(o, p)
  BY <1>1 DEF Here, CurrentObject
<1>4. AtMost(o) => AtMost(CurrentObject)'
  BY <1>1, <1>3 DEF AtMost, CurrentObject
<1>5. Exact(o) => Exact(CurrentObject)'
  BY <1>1, <1>3 DEF Exact, CurrentObject
<1> QED BY <1>2, <1>4, <1>5

LEMMA ExactIsAtMost ==
  ASSUME NEW o, GoodObject(o), Exact(o)
  PROVE  AtMost(o)
<1> SUFFICES ASSUME NEW p \in InRange
             PROVE  Count(o.nodes_, AllAt(p)) <= Cardinality(Here(o, p))
  BY DEF AtMost
<1>1. Cardinality(Here(o, p)) \in Nat
  BY HereIsFinite
<1> QED BY <1>1 DEF Exact

LEMMA SearchArguments ==
  /\ \A q \in Centers : q \in CenterSet
  /\ \A r \in Radii : r \in Nat
  /\ \A n \in Counts : n \in Nat
  BY QuadtreeAssumption DEF CenterSet

LEMMA InitIsGood == Init => IInv
<1> SUFFICES ASSUME Init PROVE IInv
  OBVIOUS
<1>1. CurrentObject = NewObject
  BY DEF Init, CurrentObject, NewObject
<1>2. GoodObject(NewObject) /\ Exact(NewObject)
  BY NewIsSettled DEF Settled
<1>3. failures = 0
  BY DEF Init
<1> QED BY <1>1, <1>2, <1>3, ExactIsAtMost DEF IInv

LEMMA AddIsGood ==
  ASSUME IInv, NEW m \in Member, NEW p \in Position, Add(m, p)
  PROVE  IInv'
<1> DEFINE e == [name |-> m, pos |-> p]
           o == Added(CurrentObject, e)
<1>1. e \in NewEntry
  BY DEF NewEntry
<1>2. GoodObject(CurrentObject) /\ AtMost(CurrentObject) /\ (failures = 0 => Exact(CurrentObject))
  BY DEF IInv
<1>3. Becomes(o) /\ failures' = failures /\ failures' \in Nat
  BY DEF Add, IInv
<1> HIDE DEF e
<1>4. /\ GoodObject(o) /\ AtMost(o)
      /\ Exact(CurrentObject) => Exact(o)
  BY <1>1, <1>2, AddedIs
<1> HIDE DEF o
<1>5. /\ GoodObject(CurrentObject)' /\ AtMost(CurrentObject)'
      /\ Exact(o) => Exact(CurrentObject)'
  BY <1>3, <1>4, BecomesIs
<1> QED BY <1>2, <1>3, <1>4, <1>5 DEF IInv

LEMMA AddFailsIsGood ==
  ASSUME IInv, NEW m \in Member, NEW p \in Position, AddFails(m, p)
  PROVE  IInv'
<1> DEFINE e == [name |-> m, pos |-> p]
           o == Moved(CurrentObject, e)
<1>1. e \in NewEntry
  BY DEF NewEntry
<1>2. GoodObject(CurrentObject) /\ AtMost(CurrentObject)
  BY DEF IInv
<1>3. Becomes(o) /\ failures' \in Nat /\ failures' # 0
  BY DEF AddFails, IInv
<1> HIDE DEF e
<1>4. /\ GoodObject(o)
      /\ \A x \in InRange : Count(o.nodes_, AllAt(x)) + IsAt(e.pos, x) <= Cardinality(Here(o, x))
  BY <1>1, <1>2, MovedIs
<1> HIDE DEF o
<1>5. AtMost(o)
  <2> SUFFICES ASSUME NEW x \in InRange
               PROVE  Count(o.nodes_, AllAt(x)) <= Cardinality(Here(o, x))
    BY DEF AtMost
  <2>1. Count(o.nodes_, AllAt(x)) \in Nat
    BY <1>4, FoundIsFinite DEF GoodObject, Well, Shape, Framed
  <2>2. Cardinality(Here(o, x)) \in Nat
    BY <1>4, HereIsFinite
  <2> QED BY <1>4, <2>1, <2>2 DEF IsAt
<1>6. GoodObject(CurrentObject)' /\ AtMost(CurrentObject)'
  BY <1>3, <1>4, <1>5, BecomesIs
<1> QED BY <1>3, <1>6 DEF IInv

LEMMA StoreBuilds ==
  ASSUME GoodObject(CurrentObject), NEW q \in Centers, NEW r \in Radii, NEW asc, NEW n \in Counts,
         NEW found \in SearchPoints(q, r, asc, n)
  PROVE  /\ Settled(Built(found), points)
         /\ \A m \in Stored(Built(found)) : Distance2(q, points[m]) <= r * r
<1>1. q \in CenterSet /\ r \in Nat /\ n \in Nat
  BY SearchArguments
<1>2. /\ found \in Seq(NewEntry)
      /\ \A i \in 1 .. Len(found) : /\ found[i].pos = points[found[i].name]
                                    /\ Distance2(q, found[i].pos) <= r * r
  BY <1>1, SearchPointsAre
<1>3. /\ Settled(Built(found), points)
      /\ \A m \in Stored(Built(found)) : \E i \in 1 .. Len(found) : found[i].name = m
  BY <1>2, BuiltIs
<1> QED BY <1>2, <1>3

LEMMA StoreIsGood ==
  ASSUME IInv, NEW q \in Centers, NEW r \in Radii, NEW asc, NEW n \in Counts, Store(q, r, asc, n)
  PROVE  IInv'
<1>1. PICK found \in SearchPoints(q, r, asc, n) : Becomes(Built(found))
  BY DEF Store
<1>2. GoodObject(CurrentObject)
  BY DEF IInv
<1>3. Settled(Built(found), points)
  BY <1>2, StoreBuilds
<1> DEFINE o == Built(found)
<1> HIDE DEF o
<1>4. GoodObject(o) /\ Exact(o) /\ Becomes(o)
  BY <1>1, <1>3 DEF Settled, o
<1>5. GoodObject(CurrentObject)' /\ AtMost(CurrentObject)' /\ Exact(CurrentObject)'
  BY <1>4, ExactIsAtMost, BecomesIs
<1>6. failures' \in Nat
  BY DEF Store, IInv
<1> QED BY <1>5, <1>6 DEF IInv

LEMMA NextIsGood == IInv /\ [Next]_vars => IInv'
<1> SUFFICES ASSUME IInv, [Next]_vars PROVE IInv'
  OBVIOUS
<1>1. ASSUME NEW m \in Member, NEW p \in Position, Add(m, p) PROVE IInv'
  BY <1>1, AddIsGood
<1>2. ASSUME NEW m \in Member, NEW p \in Position, AddFails(m, p) PROVE IInv'
  BY <1>2, AddFailsIsGood
<1>3. ASSUME NEW q \in Centers, NEW r \in Radii, NEW asc \in BOOLEAN, NEW n \in Counts,
             Store(q, r, asc, n)
      PROVE  IInv'
  BY <1>3, StoreIsGood
<1>4. ASSUME UNCHANGED vars PROVE IInv'
  <2>1. CurrentObject' = CurrentObject /\ failures' = failures
    BY <1>4 DEF vars, CurrentObject
  <2>2. \A p : Here(CurrentObject, p)' = Here(CurrentObject, p)
    BY <2>1 DEF Here
  <2>3. /\ GoodObject(CurrentObject)' = GoodObject(CurrentObject)
        /\ AtMost(CurrentObject)' = AtMost(CurrentObject)
        /\ Exact(CurrentObject)' = Exact(CurrentObject)
    BY <2>1, <2>2 DEF GoodObject, Stored, AtMost, Exact
  <2> QED BY <2>1, <2>3 DEF IInv
<1> QED BY <1>1, <1>2, <1>3, <1>4 DEF Next

LEMMA AlwaysGood == Spec => []IInv
  BY InitIsGood, NextIsGood, PTL DEF Spec

-----------------------------------------------------------------------------
LEMMA TreeIsOK == IInv => TreeOK
<1> SUFFICES ASSUME IInv PROVE TreeOK
  OBVIOUS
<1>1. points \in Coordinates /\ Shape(nodes_) /\ Roomy(nodes_)
  BY DEF IInv, GoodObject, CurrentObject, Well
<1>2. ASSUME NEW i \in 1 .. Len(nodes_)
      PROVE  /\ nodes_[i].points \in Seq(Entry)
             /\ \A e \in ToSet(nodes_[i].points) : ContainsNode(nodes_[i], e.pos)
             /\ nodes_[i].first_child # 0 =>
                  nodes_[i].points = <<>> /\ nodes_[i].first_child + 3 <= Len(nodes_)
             /\ Len(nodes_[i].points) > MaxPoints => nodes_[i].depth = MaxDepth
  <2>1. nodes_[i].points \in Seq(Entry)
    BY <1>1, SlotsAre DEF Shape, Framed
  <2>2. ASSUME NEW e \in ToSet(nodes_[i].points) PROVE ContainsNode(nodes_[i], e.pos)
    <3>1. \E j \in 1 .. Len(nodes_[i].points) : nodes_[i].points[j] = e
      BY <2>1 DEF ToSet
    <3> QED BY <1>1, <3>1 DEF Shape, Kept
  <2>3. nodes_[i].first_child # 0 =>
          nodes_[i].points = <<>> /\ nodes_[i].first_child + 3 <= Len(nodes_)
    BY <1>1, ChildrenAre DEF Shape, Kept
  <2> QED BY <1>1, <2>1, <2>2, <2>3 DEF Roomy
<1> QED BY <1>1, <1>2 DEF TreeOK, Coordinates

(***************************************************************************)
(* The tree keeps its shape (quadtree.h:149-215): whatever is added, moved *)
(* or stored, and whatever allocation fails, points are in leaves only, in *)
(* the leaf whose box contains them, and only the smallest is over-full.   *)
(***************************************************************************)
THEOREM TreeStaysOK == Spec => []TreeOK
  BY AlwaysGood, TreeIsOK, PTL

LEMMA PlacesAreIndexed == IInv => EveryPlaceIsIndexed
<1> SUFFICES ASSUME IInv, NEW p \in InRange
             PROVE  /\ Count(nodes_, AllAt(p)) <= Cardinality({m \in Member : points[m] = p})
                    /\ failures = 0 =>
                         Count(nodes_, AllAt(p)) = Cardinality({m \in Member : points[m] = p})
  BY DEF EveryPlaceIsIndexed, AllAt
<1>1. Here(CurrentObject, p) = {m \in Member : points[m] = p} /\ CurrentObject.nodes_ = nodes_
  BY DEF Here, CurrentObject
<1> QED BY <1>1 DEF IInv, AtMost, Exact

(***************************************************************************)
(* Every place in range has as many entries as it has members, though the  *)
(* old entry of a member that moves is taken out by its coordinates alone  *)
(* (Geo.h:46-59, quadtree.h:121-147); failed allocations cost entries, but *)
(* a place never has too many.                                             *)
(***************************************************************************)
THEOREM PlacesStayIndexed == Spec => []EveryPlaceIsIndexed
  BY AlwaysGood, PlacesAreIndexed, PTL

LEMMA OnlyTheRim == IInv => SearchMissesOnlyTheRim
<1> SUFFICES ASSUME IInv, NEW q \in Centers, NEW r \in Radii
             PROVE  LET found   == ToSet(RadiusSearch(q, r))
                        entries == {EntryAt(nodes_, slot) : slot \in Slots(nodes_)}
                        near    == {e \in entries : Distance2(q, e.pos) < r * r}
                    IN near \subseteq found /\ found \subseteq Within(entries, q, r)
  BY DEF SearchMissesOnlyTheRim
<1> DEFINE hits == RadiusSearch(q, r)
           entries == {EntryAt(nodes_, slot) : slot \in Slots(nodes_)}
<1>1. Shape(nodes_) /\ nodes_ \in Seq(NodeSet)
  BY DEF IInv, GoodObject, CurrentObject, Well, Shape, Framed
<1>2. q \in CenterSet /\ r \in Nat
  BY SearchArguments
<1>3. hits \in Seq(Entry) /\ \A e \in Entry : Sees(nodes_, hits, q, r, e)
  BY <1>1, <1>2, SearchIs DEF RadiusSearch
<1> HIDE DEF hits
<1>4. \A e : e \in ToSet(hits) <=> \E j \in 1 .. Len(hits) : hits[j] = e
  BY <1>3 DEF ToSet
<1>5. ASSUME NEW e
      PROVE  e \in entries <=> \E i \in 1 .. Len(nodes_) : \E j \in 1 .. Len(nodes_[i].points) :
                                  nodes_[i].points[j] = e
  <2>1. DOMAIN nodes_ = 1 .. Len(nodes_)
    BY <1>1
  <2>2. \A i \in 1 .. Len(nodes_) : DOMAIN nodes_[i].points = 1 .. Len(nodes_[i].points)
    <3>1. \A i \in 1 .. Len(nodes_) : nodes_[i].points \in Seq(Entry)
      BY <1>1, SlotsAre
    <3> QED BY <3>1
  <2>3. ASSUME NEW i \in 1 .. Len(nodes_), NEW j \in 1 .. Len(nodes_[i].points)
        PROVE  nodes_[i].points[j] \in entries
    <3>1. <<i, j>> \in Slots(nodes_)
      BY <2>1, <2>2 DEF Slots
    <3> QED BY <3>1 DEF EntryAt
  <2>4. ASSUME NEW x \in entries
        PROVE  \E i \in 1 .. Len(nodes_) : \E j \in 1 .. Len(nodes_[i].points) :
                 nodes_[i].points[j] = x
    <3>1. PICK slot \in Slots(nodes_) : x = nodes_[slot[1]].points[slot[2]]
      BY DEF EntryAt
    <3>2. PICK i \in DOMAIN nodes_ : slot \in {i} \X DOMAIN nodes_[i].points
      BY DEF Slots
    <3>3. slot[1] = i /\ slot[2] \in DOMAIN nodes_[i].points
      BY <3>2
    <3> QED BY <2>1, <2>2, <3>1, <3>2, <3>3
  <2> HIDE DEF entries
  <2> QED BY <2>3, <2>4
<1>6. ASSUME NEW e \in Entry
      PROVE  /\ e \in entries <=> Count(nodes_, {e}) > 0
             /\ e \in ToSet(hits) <=> Among(hits, {e}) > 0
             /\ Count(nodes_, {e}) \in Nat /\ Among(hits, {e}) \in Nat
             /\ Distance2(q, e.pos) \in Int
  <2>1. Count(nodes_, {e}) > 0
          <=> \E i \in 1 .. Len(nodes_) : \E j \in 1 .. Len(nodes_[i].points) :
                nodes_[i].points[j] \in {e}
    BY <1>1, CountSome
  <2>2. Among(hits, {e}) > 0 <=> \E j \in 1 .. Len(hits) : hits[j] \in {e}
    BY <1>3, AmongSome
  <2>3. Count(nodes_, {e}) \in Nat
    BY <1>1, FoundIsFinite
  <2>4. Among(hits, {e}) \in Nat
    BY <1>3, AmongType
  <2>5. Distance2(q, e.pos) \in Int
    BY <1>2, DistanceType DEF Entry
  <2> HIDE DEF entries, hits
  <2>6. e \in entries <=> Count(nodes_, {e}) > 0
    <3>1. \A x : x \in {e} <=> x = e
      OBVIOUS
    <3> QED BY <1>5, <2>1, <3>1
  <2>7. e \in ToSet(hits) <=> Among(hits, {e}) > 0
    <3>1. \A x : x \in {e} <=> x = e
      OBVIOUS
    <3> QED BY <1>4, <2>2, <3>1
  <2> QED BY <2>3, <2>4, <2>5, <2>6, <2>7
<1>7. \A e \in entries : e \in Entry
  BY <1>1, <1>5, EntriesInRange
<1>8. \A e \in ToSet(hits) : e \in Entry
  BY <1>3, <1>4
<1> HIDE DEF entries
<1>9. ASSUME NEW e \in entries, Distance2(q, e.pos) < r * r PROVE e \in ToSet(hits)
  <2>1. Among(hits, {e}) = Count(nodes_, {e})
    BY <1>3, <1>7, <1>9 DEF Sees
  <2> QED BY <1>6, <1>7, <2>1
<1>10. ASSUME NEW e \in ToSet(hits) PROVE e \in Within(entries, q, r)
  <2>1. /\ Among(hits, {e}) > 0 /\ Among(hits, {e}) <= Count(nodes_, {e})
        /\ ~(Distance2(q, e.pos) <= r * r) => Among(hits, {e}) = 0
    BY <1>3, <1>6, <1>8 DEF Sees
  <2>2. e \in entries
    BY <1>6, <1>8, <2>1
  <2>3. Distance2(q, e.pos) <= r * r
    BY <2>1
  <2> QED BY <2>2, <2>3 DEF Within
<1> QED BY <1>9, <1>10 DEF hits, entries

(***************************************************************************)
(* A search finds only what is within its radius, and all that is inside:  *)
(* pruning by latitude band and by longitude interval, split at the        *)
(* antimeridian (quadtree.h:51-94, 217-252), costs the rim at most.        *)
(***************************************************************************)
THEOREM SearchesMissOnlyTheRim == Spec => []SearchMissesOnlyTheRim
  BY AlwaysGood, OnlyTheRim, PTL

LEMMA StoredHere == IInv => StoredAreCurrent
<1> SUFFICES ASSUME IInv, NEW q \in Centers, NEW r \in Radii, NEW n \in Counts,
                    NEW found \in SearchPoints(q, r, TRUE, n), NEW m \in Member
             PROVE  Built(found).points[m] # NoPos =>
                      /\ Built(found).points[m] = points[m]
                      /\ Distance2(q, Built(found).points[m]) <= r * r
  BY DEF StoredAreCurrent
<1>1. GoodObject(CurrentObject)
  BY DEF IInv
<1>2. /\ Settled(Built(found), points)
      /\ \A x \in Stored(Built(found)) : Distance2(q, points[x]) <= r * r
  BY <1>1, StoreBuilds
<1> QED BY <1>2 DEF Settled, Stored

(***************************************************************************)
(* GEOSEARCHSTORE looks coordinates up again and checks the distance again *)
(* (Geo.h:120-160), so that it stores members where they are and inside    *)
(* the circle, whatever is wrong with the index.                           *)
(***************************************************************************)
THEOREM StoredStayCurrent == Spec => []StoredAreCurrent
  BY AlwaysGood, StoredHere, PTL

-----------------------------------------------------------------------------
(* The tree implements the index of GeoObject.  As many entries as there are
   of each kind: *)
Index(ns) == [e \in Member \X Position |-> Count(ns, {[name |-> e[1], pos |-> e[2]]})]

RemovalsFrom(idx, p) ==
  LET found == {e \in Member \X Position : e[2] = p /\ idx[e] > 0}
  IN IF found = {} THEN {idx} ELSE {[idx EXCEPT ![e] = idx[e] - 1] : e \in found}

LEMMA IndexIs ==
  ASSUME NEW ns, Well(ns)
  PROVE  /\ Index(ns) \in [Member \X Position -> Nat]
         /\ \A m \in Member, p \in Position :
              Index(ns)[<<m, p>>] = Count(ns, {[name |-> m, pos |-> p]})
<1>1. ns \in Seq(NodeSet)
  BY DEF Well, Shape, Framed
<1>2. \A S : Count(ns, S) \in Nat
  BY <1>1, FoundIsFinite
<1> QED BY <1>2 DEF Index

(* Nothing out of range is indexed. *)
LEMMA OutOfRange ==
  ASSUME NEW ns, Well(ns), NEW m, NEW p, p \notin InRange
  PROVE  Count(ns, {[name |-> m, pos |-> p]}) = 0
<1> DEFINE S == {[name |-> m, pos |-> p]}
<1>1. Shape(ns) /\ ns \in Seq(NodeSet)
  BY DEF Well, Shape, Framed
<1>2. \A e \in Entry : e \notin S
  BY DEF Entry
<1> HIDE DEF S
<1>3. ~(Count(ns, S) > 0)
  BY <1>1, <1>2, CountSome, EntriesInRange
<1>4. Count(ns, S) \in Nat
  BY <1>1, FoundIsFinite
<1> QED BY <1>3, <1>4 DEF S

LEMMA OneOfKind ==
  ASSUME NEW x \in Entry, NEW m, NEW p
  PROVE  One(x, {[name |-> m, pos |-> p]}) = IF x.name = m /\ x.pos = p THEN 1 ELSE 0
<1>1. x = [name |-> m, pos |-> p] <=> x.name = m /\ x.pos = p
  BY DEF Entry
<1> QED BY <1>1 DEF One

LEMMA IndexRemoves ==
  ASSUME NEW ns, Well(ns), NEW p \in Position
  PROVE  Index(RemoveByPosition(ns, p)) \in RemovalsFrom(Index(ns), p)
<1> DEFINE rem == RemoveByPosition(ns, p)
           idx == Index(ns)
           left == Index(rem)
           found == {e \in Member \X Position : e[2] = p /\ idx[e] > 0}
<1>1. /\ Well(rem)
      /\ \/ rem = ns /\ \A S : (\A e \in S : e.pos = p) => Count(ns, S) = 0
         \/ \E e \in Entry :
              e.pos = p /\ \A S : Count(ns, S) = Count(rem, S) + One(e, S)
  BY RemoveIs
<1> HIDE DEF rem
<1>2. /\ idx \in [Member \X Position -> Nat] /\ left \in [Member \X Position -> Nat]
      /\ \A m \in Member, q \in Position :
           /\ idx[<<m, q>>] = Count(ns, {[name |-> m, pos |-> q]})
           /\ left[<<m, q>>] = Count(rem, {[name |-> m, pos |-> q]})
  BY <1>1, IndexIs
<1> HIDE DEF idx, left
<1>3. CASE rem = ns /\ \A S : (\A e \in S : e.pos = p) => Count(ns, S) = 0
  <2>1. ASSUME NEW m \in Member PROVE idx[<<m, p>>] = 0
    <3>1. \A e \in {[name |-> m, pos |-> p]} : e.pos = p
      OBVIOUS
    <3>2. Count(ns, {[name |-> m, pos |-> p]}) = 0
      BY <1>3, <3>1
    <3> QED BY <1>2, <3>2
  <2>2. found = {}
    BY <2>1
  <2>3. left = idx
    BY <1>3 DEF left, idx
  <2> QED BY <2>2, <2>3 DEF RemovalsFrom, left, idx, rem
<1>4. CASE \E e \in Entry : e.pos = p /\ \A S : Count(ns, S) = Count(rem, S) + One(e, S)
  <2>1. PICK x \in Entry : x.pos = p /\ \A S : Count(ns, S) = Count(rem, S) + One(x, S)
    BY <1>4
  <2>2. x.name \in Member
    BY DEF Entry
  <2> DEFINE gone == <<x.name, p>>
  <2>3. gone \in Member \X Position
    BY <2>2
  <2>4. ASSUME NEW m \in Member, NEW q \in Position
        PROVE  left[<<m, q>>] = IF <<m, q>> = gone THEN idx[<<m, q>>] - 1 ELSE idx[<<m, q>>]
    <3>1. Count(ns, {[name |-> m, pos |-> q]})
            = Count(rem, {[name |-> m, pos |-> q]}) + One(x, {[name |-> m, pos |-> q]})
      BY <2>1
    <3>2. One(x, {[name |-> m, pos |-> q]}) = IF x.name = m /\ x.pos = q THEN 1 ELSE 0
      BY OneOfKind
    <3>3. idx[<<m, q>>] = left[<<m, q>>] + One(x, {[name |-> m, pos |-> q]})
      BY <1>2, <3>1
    <3>4. idx[<<m, q>>] \in Nat /\ left[<<m, q>>] \in Nat
      BY <1>2
    <3>5. <<m, q>> = gone <=> x.name = m /\ x.pos = q
      BY <2>1
    <3> HIDE DEF gone
    <3> QED BY <3>2, <3>3, <3>4, <3>5
  <2>5. idx[gone] > 0
    <3>1. left[gone] = idx[gone] - 1
      BY <2>2, <2>4
    <3>2. left[gone] \in Nat /\ idx[gone] \in Nat
      BY <1>2, <2>3
    <3> HIDE DEF gone
    <3> QED BY <3>1, <3>2
  <2>6. gone \in found
    BY <2>3, <2>5
  <2> HIDE DEF gone
  <2>7. \A e \in Member \X Position : left[e] = IF e = gone THEN idx[e] - 1 ELSE idx[e]
    BY <2>4
  <2>8. left = [idx EXCEPT ![gone] = idx[gone] - 1]
    BY <1>2, <2>7
  <2> QED BY <2>6, <2>8 DEF RemovalsFrom, left, idx, rem
<1> QED BY <1>1, <1>3, <1>4

LEMMA IndexInserts ==
  ASSUME NEW t, NEW u, Well(t), Well(u), NEW e \in Entry,
         \A S : Count(u, S) = Count(t, S) + One(e, S)
  PROVE  Index(u) = [Index(t) EXCEPT ![<<e.name, e.pos>>] = Index(t)[<<e.name, e.pos>>] + 1]
<1> DEFINE before == Index(t)
           after == Index(u)
           new == <<e.name, e.pos>>
<1>1. /\ before \in [Member \X Position -> Nat] /\ after \in [Member \X Position -> Nat]
      /\ \A m \in Member, q \in Position :
           /\ before[<<m, q>>] = Count(t, {[name |-> m, pos |-> q]})
           /\ after[<<m, q>>] = Count(u, {[name |-> m, pos |-> q]})
  BY IndexIs
<1> HIDE DEF before, after
<1>2. ASSUME NEW m \in Member, NEW q \in Position
      PROVE  after[<<m, q>>] = IF <<m, q>> = new THEN before[<<m, q>>] + 1 ELSE before[<<m, q>>]
  <2>1. One(e, {[name |-> m, pos |-> q]}) = IF e.name = m /\ e.pos = q THEN 1 ELSE 0
    BY OneOfKind
  <2>2. after[<<m, q>>] = before[<<m, q>>] + One(e, {[name |-> m, pos |-> q]})
    BY <1>1
  <2>3. before[<<m, q>>] \in Nat
    BY <1>1
  <2>4. <<m, q>> = new <=> e.name = m /\ e.pos = q
    OBVIOUS
  <2> HIDE DEF new
  <2> QED BY <2>1, <2>2, <2>3, <2>4
<1> HIDE DEF new
<1>3. \A x \in Member \X Position : after[x] = IF x = new THEN before[x] + 1 ELSE before[x]
  BY <1>2
<1>4. after = [before EXCEPT ![new] = before[new] + 1]
  BY <1>1, <1>3
<1> QED BY <1>4 DEF before, after, new

(* The steps of GeoObject, written out. *)
LEMMA CountedIs ==
  /\ Counted = Index(nodes_)
  /\ Counted' = Index(nodes_')
  /\ \A p : Object!Removals(p) = RemovalsFrom(Counted, p)
  /\ \A m, p : Object!Free(m, p) <=> Free(m, p)
<1>1. Counted = Index(nodes_) /\ Counted' = Index(nodes_')
  BY DEF Counted, Index
<1>2. \A p : Object!Removals(p) = RemovalsFrom(Counted, p)
  BY DEF Object!Removals, RemovalsFrom
<1>3. \A m, p : Object!Free(m, p) <=> Free(m, p)
  BY DEF Object!Free, Free
<1> QED BY <1>1, <1>2, <1>3

LEMMA MovedRemains ==
  ASSUME GoodObject(CurrentObject), NEW m \in Member, NEW p
  PROVE  /\ Index(Moved(CurrentObject, [name |-> m, pos |-> p]).nodes_) \in Object!Remaining(m)
         /\ Moved(CurrentObject, [name |-> m, pos |-> p]).points = [points EXCEPT ![m] = p]
<1> DEFINE t == Moved(CurrentObject, [name |-> m, pos |-> p])
<1>1. Well(nodes_) /\ points[m] \in Position \cup {NoPos}
  BY DEF GoodObject, CurrentObject, Coordinates
<1>2. /\ t.points = [points EXCEPT ![m] = p]
      /\ t.nodes_ = IF points[m] = NoPos THEN nodes_ ELSE RemoveByPosition(nodes_, points[m])
  BY DEF Moved, CurrentObject
<1> HIDE DEF t
<1>3. CASE points[m] = NoPos
  <2>1. Index(t.nodes_) = Counted
    BY <1>2, <1>3, CountedIs
  <2> QED BY <1>2, <1>3, <2>1 DEF Object!Remaining, t
<1>4. CASE points[m] # NoPos
  <2>1. Index(RemoveByPosition(nodes_, points[m])) \in RemovalsFrom(Index(nodes_), points[m])
    BY <1>1, <1>4, IndexRemoves
  <2>2. Object!Removals(points[m]) = RemovalsFrom(Index(nodes_), points[m])
    BY CountedIs
  <2> QED BY <1>2, <1>4, <2>1, <2>2 DEF Object!Remaining, t
<1> QED BY <1>3, <1>4

LEMMA AddImplements ==
  ASSUME IInv, NEW m \in Member, NEW p \in Position, Add(m, p)
  PROVE  Object!Add(m, p)
<1> DEFINE e == [name |-> m, pos |-> p]
           t == Moved(CurrentObject, e)
           o == Added(CurrentObject, e)
<1>1. GoodObject(CurrentObject) /\ e \in NewEntry /\ e.name = m /\ e.pos = p
  BY DEF IInv, NewEntry
<1>2. /\ Becomes(o) /\ missed' = missed \ {m}
      /\ shared' = (shared \/ (p \in InRange /\ ~Free(m, p)))
  BY DEF Add
<1>3. Index(t.nodes_) \in Object!Remaining(m) /\ t.points = [points EXCEPT ![m] = p]
  BY <1>1, MovedRemains
<1> HIDE DEF e
<1>4. GoodObject(t)
  BY <1>1, MovedIs
<1>5. /\ GoodObject(o) /\ o.points = [points EXCEPT ![m] = p]
      /\ p \notin InRange => o.nodes_ = t.nodes_
      /\ p \in InRange => \A S : Count(o.nodes_, S) = Count(t.nodes_, S) + One(e, S)
  <2>1. CurrentObject.points = points
    BY DEF CurrentObject
  <2> QED BY <1>1, <2>1, AddedIs
<1> HIDE DEF t, o
<1>6. points' = o.points /\ nodes_' = o.nodes_
  BY <1>2 DEF Becomes
<1>7. Counted' = Object!Inserted(Index(t.nodes_), m, p)
  <2>1. Counted' = Index(o.nodes_)
    BY <1>6, CountedIs
  <2>2. CASE p \in InRange
    <3>1. e \in Entry
      BY <1>1, <2>2 DEF Entry, NewEntry
    <3>2. Well(t.nodes_) /\ Well(o.nodes_)
      BY <1>4, <1>5 DEF GoodObject
    <3>3. Index(o.nodes_)
            = [Index(t.nodes_) EXCEPT ![<<e.name, e.pos>>] = Index(t.nodes_)[<<e.name, e.pos>>] + 1]
      BY <1>5, <2>2, <3>1, <3>2, IndexInserts
    <3> QED BY <1>1, <2>1, <2>2, <3>3 DEF Object!Inserted
  <2>3. CASE p \notin InRange
    BY <1>5, <2>1, <2>3 DEF Object!Inserted
  <2> QED BY <2>2, <2>3
<1>8. Object!Put(m, p)
  BY <1>2, <1>5, <1>6, CountedIs DEF Object!Put
<1> QED BY <1>2, <1>3, <1>7, <1>8 DEF Object!Add

LEMMA AddFailsImplements ==
  ASSUME IInv, NEW m \in Member, NEW p \in Position, AddFails(m, p)
  PROVE  Object!AddFails(m, p)
<1> DEFINE t == Moved(CurrentObject, [name |-> m, pos |-> p])
<1>1. GoodObject(CurrentObject)
  BY DEF IInv
<1>2. /\ p \in InRange /\ Becomes(t) /\ missed' = missed \cup {m}
      /\ shared' = (shared \/ ~Free(m, p))
  BY DEF AddFails
<1>3. Index(t.nodes_) \in Object!Remaining(m) /\ t.points = [points EXCEPT ![m] = p]
  BY <1>1, MovedRemains
<1> HIDE DEF t
<1>4. points' = t.points /\ nodes_' = t.nodes_
  BY <1>2 DEF Becomes
<1>5. Counted' \in Object!Remaining(m)
  BY <1>3, <1>4, CountedIs
<1>6. Object!Put(m, p)
  BY <1>2, <1>3, <1>4, CountedIs DEF Object!Put
<1> QED BY <1>2, <1>5, <1>6 DEF Object!AddFails

(* Of an object that is built every entry is where its member is, and a place
   that one member has for itself has one entry: that member's. *)
LEMMA SettledIndex ==
  ASSUME NEW o, NEW at, Settled(o, at), NEW m \in Member, NEW p \in Position
  PROVE  /\ Index(o.nodes_)[<<m, p>>] \in Nat
         /\ Index(o.nodes_)[<<m, p>>] > 0 => p \in InRange /\ o.points[m] = p
         /\ p \in InRange /\ Here(o, p) = {m} => Index(o.nodes_)[<<m, p>>] = 1
<1> DEFINE ns == o.nodes_
           kind == {[name |-> m, pos |-> p]}
<1>1. Well(ns) /\ Shape(ns)
  BY DEF Settled, GoodObject, Well
<1>2. Index(ns)[<<m, p>>] = Count(ns, kind) /\ Count(ns, kind) \in Nat
  BY <1>1, IndexIs, FoundIsFinite DEF Shape, Framed
<1>3. ASSUME Count(ns, kind) > 0 PROVE p \in InRange /\ o.points[m] = p
  <2>1. p \in InRange
    BY <1>1, <1>3, OutOfRange
  <2>2. [name |-> m, pos |-> p] \in Entry
    BY <2>1 DEF Entry
  <2>3. o.points[[name |-> m, pos |-> p].name] = [name |-> m, pos |-> p].pos
    BY <1>3, <2>2 DEF Settled
  <2> QED BY <2>1, <2>3
<1>4. ASSUME p \in InRange, Here(o, p) = {m} PROVE Count(ns, kind) = 1
  <2>1. Count(ns, AllAt(p)) = 1
    <3>1. Cardinality({m}) = 1
      BY FS_Singleton
    <3> QED BY <1>4, <3>1 DEF Settled, Exact
  <2>2. Count(ns, AllAt(p)) > 0
    BY <2>1
  <2>3. ns \in Seq(NodeSet)
    BY <1>1 DEF Shape, Framed
  <2>4. ASSUME NEW x \in Entry, Count(ns, {x}) > 0, x.pos = p PROVE x.name = m
    <3>1. o.points[x.name] = p /\ x.name \in Member
      BY <2>4 DEF Settled, Entry
    <3> QED BY <1>4, <3>1 DEF Here
  <2>5. ASSUME NEW i \in 1 .. Len(ns), NEW j \in 1 .. Len(ns[i].points)
        PROVE  ns[i].points[j] \in AllAt(p) <=> ns[i].points[j] \in kind
    <3>1. ns[i].points[j] \in Entry
      BY <1>1, EntriesInRange
    <3>2. Count(ns, {ns[i].points[j]}) > 0
      BY <2>3, CountSome
    <3>3. ns[i].points[j].pos = p => ns[i].points[j].name = m
      BY <2>4, <3>1, <3>2
    <3> QED BY <3>1, <3>3 DEF AllAt, Entry
  <2>6. Count(ns, AllAt(p)) = Count(ns, kind)
    <3> HIDE DEF ns, kind
    <3>1. \A i \in 1 .. Len(ns) : InNode(ns, i, AllAt(p)) = InNode(ns, i, kind)
      BY <2>5 DEF InNode, Places
    <3>2. {InNode(ns, i, AllAt(p)) : i \in 1 .. Len(ns)} = {InNode(ns, i, kind) : i \in 1 .. Len(ns)}
      BY <3>1
    <3>3. /\ Found(ns, AllAt(p)) = UNION {InNode(ns, i, AllAt(p)) : i \in 1 .. Len(ns)}
          /\ Found(ns, kind) = UNION {InNode(ns, i, kind) : i \in 1 .. Len(ns)}
          /\ Count(ns, AllAt(p)) = Cardinality(Found(ns, AllAt(p)))
          /\ Count(ns, kind) = Cardinality(Found(ns, kind))
      BY <2>3, SlotsAre
    <3> QED BY <3>2, <3>3
  <2> QED BY <2>1, <2>6
<1> HIDE DEF kind, ns
<1> QED BY <1>2, <1>3, <1>4 DEF ns

LEMMA StoreImplements ==
  ASSUME IInv, NEW q \in Centers, NEW r \in Radii, NEW asc, NEW n \in Counts, Store(q, r, asc, n)
  PROVE  \E S \in SUBSET Member : (\A m \in S : points[m] # NoPos) /\ Object!Store(S)
<1>1. PICK found \in SearchPoints(q, r, asc, n) : Becomes(Built(found))
  BY DEF Store
<1>2. GoodObject(CurrentObject)
  BY DEF IInv
<1> DEFINE o == Built(found)
           S == Stored(o)
<1>3. Settled(o, points) /\ points' = o.points /\ nodes_' = o.nodes_
  BY <1>1, <1>2, StoreBuilds DEF Becomes
<1> HIDE DEF o
<1>4. /\ shared' = \E m, k \in Member : m # k /\ points'[m] \in InRange /\ points'[m] = points'[k]
      /\ missed' = {}
  BY DEF Store
<1>5. S \in SUBSET Member /\ \A m \in S : points[m] # NoPos /\ o.points[m] = points[m]
  BY <1>3 DEF Stored, Settled
<1>6. \A m \in Member \ S : o.points[m] = NoPos
  BY DEF Stored
<1>7. o.points \in Coordinates
  BY <1>3 DEF Settled, GoodObject
<1>8. points' = [m \in Member |-> IF m \in S THEN points[m] ELSE NoPos]
  BY <1>3, <1>5, <1>6, <1>7 DEF Coordinates
<1>9. Counted' = Index(o.nodes_)
  BY <1>3, CountedIs
<1>10. Counted' \in [Member \X Position -> Nat]
  BY <1>3, <1>9, IndexIs DEF Settled, GoodObject
<1>11. ASSUME NEW m \in Member, NEW p \in Position
       PROVE  /\ Counted'[<<m, p>>] > 0 => p \in InRange /\ m \in Object!There(S, p)
              /\ p \in InRange /\ Object!There(S, p) = {m} => Counted'[<<m, p>>] = 1
  <2>1. /\ Index(o.nodes_)[<<m, p>>] > 0 => p \in InRange /\ o.points[m] = p
        /\ p \in InRange /\ Here(o, p) = {m} => Index(o.nodes_)[<<m, p>>] = 1
    BY <1>3, SettledIndex
  <2>2. p # NoPos
    BY QuadtreeAssumption
  <2>3. Object!There(S, p) = Here(o, p)
    BY <1>5, <1>6, <2>2 DEF Object!There, Here
  <2>4. m \in Here(o, p) <=> o.points[m] = p
    BY DEF Here
  <2> QED BY <1>9, <2>1, <2>3, <2>4
<1> HIDE DEF S
<1>12. Object!Store(S)
  BY <1>4, <1>8, <1>10, <1>11 DEF Object!Store
<1> QED BY <1>5, <1>12

LEMMA InitImplements == Init => Object!Init
<1> SUFFICES ASSUME Init PROVE Object!Init
  OBVIOUS
<1>1. /\ points = NewObject.points /\ nodes_ = NewObject.nodes_
      /\ shared = FALSE /\ missed = {}
  BY DEF Init
<1>2. points = [m \in Member |-> NoPos]
  BY <1>1 DEF NewObject
<1>3. Settled(NewObject, points)
  BY NewIsSettled
<1>4. ASSUME NEW m \in Member, NEW p \in Position PROVE Index(nodes_)[<<m, p>>] = 0
  <2>1. /\ Index(nodes_)[<<m, p>>] \in Nat
        /\ Index(nodes_)[<<m, p>>] > 0 => NewObject.points[m] = p
    BY <1>1, <1>3, SettledIndex
  <2>2. p # NoPos
    BY QuadtreeAssumption
  <2> QED BY <1>1, <1>2, <2>1, <2>2
<1>5. Index(nodes_) \in [Member \X Position -> Nat]
  BY <1>1, <1>3, IndexIs DEF Settled, GoodObject
<1>6. Counted = [e \in Member \X Position |-> 0]
  BY <1>4, <1>5, CountedIs
<1> QED BY <1>1, <1>2, <1>6 DEF Object!Init

LEMMA StepImplements == IInv /\ [Next]_vars => [Object!Next]_(Object!vars)
<1> SUFFICES ASSUME IInv, [Next]_vars PROVE [Object!Next]_(Object!vars)
  OBVIOUS
<1>1. ASSUME NEW m \in Member, NEW p \in Position, Add(m, p) PROVE Object!Next
  BY <1>1, AddImplements DEF Object!Next
<1>2. ASSUME NEW m \in Member, NEW p \in Position, AddFails(m, p) PROVE Object!Next
  BY <1>2, AddFailsImplements DEF Object!Next
<1>3. ASSUME NEW q \in Centers, NEW r \in Radii, NEW asc \in BOOLEAN, NEW n \in Counts,
             Store(q, r, asc, n)
      PROVE  Object!Next
  <2>1. \E S \in SUBSET Member : (\A m \in S : points[m] # NoPos) /\ Object!Store(S)
    BY <1>3, StoreImplements
  <2> QED BY <2>1 DEF Object!Next
<1>4. ASSUME UNCHANGED vars PROVE UNCHANGED Object!vars
  BY <1>4, CountedIs DEF vars, Object!vars
<1> QED BY <1>1, <1>2, <1>3, <1>4 DEF Next

(***************************************************************************)
(* The tree implements the index GeoObject promises: whichever leaf an     *)
(* entry was put into or found in (quadtree.h:121-215), every GEOADD and   *)
(* GEOSEARCHSTORE (Geo.h:46-59, 120-160) changes the number of entries of  *)
(* each member at each place as it may there.                              *)
(***************************************************************************)
THEOREM TreeImplementsObject == Spec => ImplementsGeoObject
<1>1. Spec => Object!Spec
  BY InitImplements, StepImplements, AlwaysGood, PTL DEF Spec, Object!Spec
<1> QED BY <1>1 DEF ImplementsGeoObject

-----------------------------------------------------------------------------
(* What GeoObject promises, the tree keeps. *)
ObjectProofs == INSTANCE GeoObjectProofs WITH index <- Counted

LEMMA SameObject ==
  /\ ObjectProofs!GeoAssumption
  /\ Object!Init => ObjectProofs!Init
  /\ [Object!Next]_(Object!vars) => [ObjectProofs!Next]_(ObjectProofs!vars)
  /\ ObjectProofs!IInv => Object!IInv
<1>1. ObjectProofs!GeoAssumption
  BY PlaceType, QuadtreeAssumption DEF ObjectProofs!GeoAssumption
<1>2. Object!Init => ObjectProofs!Init
  BY DEF Object!Init, ObjectProofs!Init
<1>3. [Object!Next]_(Object!vars) => [ObjectProofs!Next]_(ObjectProofs!vars)
  BY DEF Object!Next, ObjectProofs!Next, Object!vars, ObjectProofs!vars,
         Object!Add, ObjectProofs!Add, Object!AddFails, ObjectProofs!AddFails,
         Object!Store, ObjectProofs!Store, Object!Put, ObjectProofs!Put,
         Object!Free, ObjectProofs!Free, Object!Remaining, ObjectProofs!Remaining,
         Object!Removals, ObjectProofs!Removals, Object!Inserted, ObjectProofs!Inserted,
         Object!There, ObjectProofs!There
<1>4. ObjectProofs!IInv => Object!IInv
  BY DEF Object!IInv, ObjectProofs!IInv, Object!TypeOK, ObjectProofs!TypeOK,
         Object!IndexMatchesPoints, ObjectProofs!IndexMatchesPoints,
         Object!Indexed, ObjectProofs!Indexed, Object!Apart, ObjectProofs!Apart
<1> QED BY <1>1, <1>2, <1>3, <1>4

LEMMA SameExact == ObjectProofs!IndexIsExact <=> IndexIsExact
  BY DEF IndexIsExact, Object!IndexIsExact, ObjectProofs!IndexIsExact,
         Object!IndexMatchesPoints, ObjectProofs!IndexMatchesPoints,
         Object!Indexed, ObjectProofs!Indexed

(***************************************************************************)
(* As long as no two members were in one place, GEOSEARCH's index has each *)
(* member once, where GEOPOS says it is, and nothing else (Geo.h:46-59):   *)
(* the theorem about GeoObject, of the tree that implements it.            *)
(***************************************************************************)
THEOREM TreeIsExactUnlessShared == Spec => []IndexIsExact
<1>1. ObjectProofs!Spec => []ObjectProofs!IndexIsExact
  BY SameObject, ObjectProofs!ExactUnlessShared
<1>2. Spec => ObjectProofs!Spec
  BY InitImplements, StepImplements, AlwaysGood, SameObject, PTL DEF Spec, ObjectProofs!Spec
<1> QED BY <1>1, <1>2, SameExact, PTL

-----------------------------------------------------------------------------
(* An exact index holds a member once, at its place. *)
LEMMA ExactEntries ==
  ASSUME IInv, IndexIsExact, ~shared, NEW e \in Entry
  PROVE  Count(nodes_, {e}) = IF points[e.name] = e.pos /\ e.name \notin missed THEN 1 ELSE 0
<1>1. e.name \in Member /\ e.pos \in InRange /\ e.pos \in Position
  BY PlaceType DEF Entry
<1>2. Counted[<<e.name, e.pos>>]
        = IF points[e.name] = e.pos /\ e.pos \in InRange /\ e.name \notin missed THEN 1 ELSE 0
  BY <1>1 DEF IndexIsExact, Object!IndexIsExact, Object!IndexMatchesPoints, Object!Indexed
<1>3. Counted[<<e.name, e.pos>>] = Count(nodes_, {[name |-> e.name, pos |-> e.pos]})
  BY <1>1 DEF Counted
<1>4. [name |-> e.name, pos |-> e.pos] = e
  BY DEF Entry
<1> QED BY <1>1, <1>2, <1>3, <1>4

LEMMA PairHasTwo ==
  ASSUME NEW x, NEW y, x # y
  PROVE  Cardinality({x, y}) = 2
<1> DEFINE T == {x} \cup {y}
           c == Cardinality({x})
<1>1. IsFiniteSet({x}) /\ c = 1
  BY FS_Singleton
<1>2. y \notin {x}
  OBVIOUS
<1>3. Cardinality(T) = c + 1
  BY <1>1, <1>2, FS_AddElement
<1>4. T = {x, y}
  OBVIOUS
<1> HIDE DEF T, c
<1>5. Cardinality(T) = 2
  BY <1>1, <1>3
<1> QED BY <1>4, <1>5

(* Two elements of a kind are two. *)
LEMMA AmongTwo ==
  ASSUME NEW E, NEW s \in Seq(E), NEW S, NEW i \in 1 .. Len(s), NEW j \in 1 .. Len(s),
         s[i] \in S, s[j] \in S, Among(s, S) <= 1
  PROVE  i = j
<1> SUFFICES ASSUME i # j PROVE FALSE
  OBVIOUS
<1>1. IsFiniteSet(Places(s, S)) /\ Among(s, S) \in Nat
  BY AmongType
<1>2. {i, j} \in SUBSET Places(s, S)
  BY DEF Places
<1>3. Cardinality({i, j}) <= Cardinality(Places(s, S))
  BY <1>1, <1>2, FS_Subset
<1>4. Cardinality({i, j}) = 2
  BY PairHasTwo
<1> QED BY <1>1, <1>3, <1>4 DEF Among

(* What a search finds in an exact index: members, where they are, each once,
   and all that are inside the circle. *)
LEMMA HitsAreExact ==
  ASSUME IInv, IndexIsExact, ~shared, NEW q \in Centers, NEW r \in Radii
  PROVE  LET hits == RadiusSearch(q, r)
         IN /\ hits \in Seq(Entry)
            /\ \A i \in 1 .. Len(hits) : hits[i].pos = points[hits[i].name]
            /\ \A i, j \in 1 .. Len(hits) : hits[i].name = hits[j].name => i = j
            /\ \A m \in Member \ missed :
                 points[m] \in InRange /\ Distance2(q, points[m]) < r * r
                   => \E i \in 1 .. Len(hits) : hits[i] = [name |-> m, pos |-> points[m]]
<1> DEFINE hits == RadiusSearch(q, r)
<1>0. Shape(nodes_) /\ q \in CenterSet /\ r \in Nat /\ nodes_ \in Seq(NodeSet)
  BY SearchArguments DEF IInv, GoodObject, CurrentObject, Well, Shape, Framed
<1>1. hits \in Seq(Entry) /\ \A e \in Entry : Sees(nodes_, hits, q, r, e)
  BY <1>0, SearchIs DEF RadiusSearch
<1> HIDE DEF hits
<1>2. ASSUME NEW e \in Entry
      PROVE  /\ Among(hits, {e}) \in Nat /\ Count(nodes_, {e}) \in {0, 1}
             /\ Among(hits, {e}) <= Count(nodes_, {e})
             /\ Count(nodes_, {e}) = 1 <=> points[e.name] = e.pos /\ e.name \notin missed
             /\ Distance2(q, e.pos) < r * r => Among(hits, {e}) = Count(nodes_, {e})
  <2>1. Count(nodes_, {e}) = IF points[e.name] = e.pos /\ e.name \notin missed THEN 1 ELSE 0
    BY ExactEntries
  <2>2. Among(hits, {e}) \in Nat
    BY <1>1, AmongType
  <2> QED BY <1>1, <2>1, <2>2 DEF Sees
<1>3. ASSUME NEW i \in 1 .. Len(hits)
      PROVE  hits[i] \in Entry /\ Among(hits, {hits[i]}) = 1 /\ hits[i].pos = points[hits[i].name]
  <2>1. hits[i] \in Entry
    BY <1>1
  <2>2. Among(hits, {hits[i]}) > 0
    BY <1>1, AmongSome
  <2>3. ASSUME NEW e \in Entry, Among(hits, {e}) > 0
        PROVE  Among(hits, {e}) = 1 /\ e.pos = points[e.name]
    <3>1. /\ Among(hits, {e}) \in Nat /\ Count(nodes_, {e}) \in {0, 1}
          /\ Among(hits, {e}) <= Count(nodes_, {e})
          /\ Count(nodes_, {e}) = 1 <=> points[e.name] = e.pos /\ e.name \notin missed
      BY <1>2
    <3> QED BY <2>3, <3>1
  <2> QED BY <2>1, <2>2, <2>3
<1>4. ASSUME NEW i \in 1 .. Len(hits), NEW j \in 1 .. Len(hits), hits[i].name = hits[j].name
      PROVE  i = j
  <2>1. hits[i] = hits[j]
    <3>1. hits[i] \in Entry /\ hits[j] \in Entry /\ hits[i].pos = hits[j].pos
      BY <1>3, <1>4
    <3>2. \A x, y \in Entry : x.name = y.name /\ x.pos = y.pos => x = y
      BY DEF Entry
    <3> QED BY <1>4, <3>1, <3>2
  <2>2. hits[i] \in {hits[i]} /\ hits[j] \in {hits[i]} /\ Among(hits, {hits[i]}) <= 1
    BY <1>3, <2>1
  <2> QED BY <1>1, <2>2, AmongTwo
<1>5. ASSUME NEW m \in Member \ missed, points[m] \in InRange, Distance2(q, points[m]) < r * r
      PROVE  \E i \in 1 .. Len(hits) : hits[i] = [name |-> m, pos |-> points[m]]
  <2> DEFINE e == [name |-> m, pos |-> points[m]]
  <2>1. e \in Entry /\ e.name = m /\ e.pos = points[m]
    BY <1>5 DEF Entry
  <2> HIDE DEF e
  <2>2. Among(hits, {e}) > 0
    BY <1>2, <1>5, <2>1
  <2>3. \E i \in 1 .. Len(hits) : hits[i] \in {e}
    BY <1>1, <2>2, AmongSome
  <2> QED BY <2>3 DEF e
<1> QED BY <1>1, <1>3, <1>4, <1>5 DEF hits

(* The answer to one search. *)
Nearest(q, r, asc, n, found) ==
  LET inside == {m \in Member \ missed :
                   points[m] \in InRange /\ Distance2(q, points[m]) < r * r}
      D(m)   == Distance2(q, points[m])
      names  == [i \in DOMAIN found |-> found[i].name]
  IN /\ IsInjective(names)
     /\ \A i \in DOMAIN found : found[i].pos = points[names[i]]
     /\ n > 0 => Len(found) <= n
     /\ \A m \in inside \ ToSet(names) :
          /\ n > 0 /\ Len(found) = n
          /\ \A o \in ToSet(names) : IF asc THEN D(o) <= D(m) ELSE D(o) >= D(m)

LEMMA AnswerIsNearest ==
  ASSUME IInv, IndexIsExact, ~shared, NEW q \in Centers, NEW r \in Radii, NEW asc \in BOOLEAN,
         NEW n \in Counts, NEW found \in Search(q, r, asc, n)
  PROVE  Nearest(q, r, asc, n, found)
<1> DEFINE hits == RadiusSearch(q, r)
           c == Cut(hits, n)
           inside == {m \in Member \ missed :
                        points[m] \in InRange /\ Distance2(q, points[m]) < r * r}
           names == [i \in DOMAIN found |-> found[i].name]
<1>1. /\ hits \in Seq(Entry)
      /\ \A i \in 1 .. Len(hits) : hits[i].pos = points[hits[i].name]
      /\ \A i, j \in 1 .. Len(hits) : hits[i].name = hits[j].name => i = j
      /\ \A m \in Member \ missed :
           points[m] \in InRange /\ Distance2(q, points[m]) < r * r
             => \E i \in 1 .. Len(hits) : hits[i] = [name |-> m, pos |-> points[m]]
  BY HitsAreExact
<1>2. n \in Nat /\ found \in Ordered(hits, q, asc, n)
  BY SearchArguments DEF Search
<1>3. \A m \in inside : \E i \in 1 .. Len(hits) : hits[i] = [name |-> m, pos |-> points[m]]
  BY <1>1
<1> HIDE DEF hits, inside
<1>4. Len(hits) \in Nat
  BY <1>1
<1>5. c \in 0 .. Len(hits) /\ Len(found) = c /\ found \in Seq(Entry)
  BY <1>1, <1>2, OrderedIs
<1>6. PICK o : Sorting(hits, q, asc, o) /\ \A i \in 1 .. c : found[i] = hits[o[i]]
  BY <1>1, <1>2, OrderedIs
<1>7. c = IF n > 0 /\ Len(hits) > n THEN n ELSE Len(hits)
  BY DEF Cut
<1> HIDE DEF c
<1>8. DOMAIN found = 1 .. c
  BY <1>5
<1>9. ASSUME NEW i \in 1 .. c
      PROVE  i \in 1 .. Len(hits) /\ o[i] \in 1 .. Len(hits) /\ names[i] = hits[o[i]].name
  <2>1. i \in 1 .. Len(hits)
    BY <1>4, <1>5
  <2>2. o[i] \in 1 .. Len(hits)
    BY <1>6, <2>1 DEF Sorting
  <2> QED BY <1>6, <1>8, <2>1, <2>2
<1>10. DOMAIN names = 1 .. c
  BY <1>8
<1> HIDE DEF names
<1>11. IsInjective(names)
  <2> SUFFICES ASSUME NEW i \in 1 .. c, NEW j \in 1 .. c, names[i] = names[j] PROVE i = j
    BY <1>10 DEF IsInjective
  <2>1. o[i] = o[j]
    BY <1>1, <1>9
  <2> QED BY <1>6, <1>9, <2>1 DEF Sorting
<1>12. \A i \in DOMAIN found : found[i].pos = points[names[i]]
  <2> SUFFICES ASSUME NEW i \in 1 .. c PROVE found[i].pos = points[names[i]]
    BY <1>8
  <2> QED BY <1>1, <1>6, <1>9
<1>13. n > 0 => Len(found) <= n
  BY <1>2, <1>4, <1>5, <1>7
<1>14. ASSUME NEW m \in inside, m \notin ToSet(names)
       PROVE  /\ n > 0 /\ Len(found) = n
              /\ \A x \in ToSet(names) :
                   IF asc THEN Distance2(q, points[x]) <= Distance2(q, points[m])
                   ELSE Distance2(q, points[x]) >= Distance2(q, points[m])
  <2>1. PICK k \in 1 .. Len(hits) : hits[k] = [name |-> m, pos |-> points[m]]
    BY <1>3
  <2>2. PICK i \in 1 .. Len(hits) : o[i] = k
    BY <1>6 DEF Sorting
  <2>3. \A x : x \in ToSet(names) <=> \E j \in 1 .. c : names[j] = x
    BY <1>10 DEF ToSet
  <2>4. i \notin 1 .. c
    BY <1>9, <1>14, <2>1, <2>2, <2>3
  <2>5. n > 0 /\ Len(found) = n
    BY <1>2, <1>4, <1>5, <1>7, <2>4
  <2>6. ASSUME NEW x \in ToSet(names)
        PROVE  IF asc THEN Distance2(q, points[x]) <= Distance2(q, points[m])
               ELSE Distance2(q, points[x]) >= Distance2(q, points[m])
    <3>1. PICK j \in 1 .. c : names[j] = x
      BY <2>3
    <3>2. j \in 1 .. Len(hits) /\ o[j] \in 1 .. Len(hits) /\ hits[o[j]].name = x
      BY <1>9, <3>1
    <3>3. j < i
      BY <1>4, <1>5, <2>4
    <3>4. Before(q, asc, hits[o[j]], hits[o[i]])
      BY <1>6, <3>2, <3>3 DEF Sorting
    <3>5. hits[o[j]].pos = points[x] /\ hits[o[i]].pos = points[m]
      BY <1>1, <2>1, <2>2, <3>2
    <3> QED BY <3>4, <3>5 DEF Before
  <2> QED BY <2>5, <2>6
<1> QED BY <1>11, <1>12, <1>13, <1>14 DEF Nearest, names, inside

LEMMA NearestFollows == IInv /\ IndexIsExact => SearchIsNearest
<1> SUFFICES ASSUME IInv, IndexIsExact, ~shared PROVE SearchIsNearest
  BY DEF SearchIsNearest
<1>1. \A q \in Centers, r \in Radii, asc \in BOOLEAN, n \in Counts :
        \A found \in Search(q, r, asc, n) : Nearest(q, r, asc, n, found)
  BY AnswerIsNearest
<1> QED BY <1>1 DEF SearchIsNearest, Nearest

(***************************************************************************)
(* As long as no two members were in one place, GEOSEARCH (Geo.h:81-120)   *)
(* answers as if there were no tree: each member once, where it is, and of *)
(* those inside the circle none is missing but the farthest, cut off by    *)
(* COUNT after the sort (the nearest, for DESC), and those whose own       *)
(* insertion failed.                                                       *)
(***************************************************************************)
THEOREM SearchStaysNearest == Spec => []SearchIsNearest
  BY AlwaysGood, TreeIsExactUnlessShared, NearestFollows, PTL
=============================================================================

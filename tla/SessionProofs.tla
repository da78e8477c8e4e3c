--------------------------- MODULE SessionProofs ---------------------------
(***************************************************************************)
(* Theorems about Session and the values it works on, for all keys, values *)
(* and lines.  The pushes, the set combinations and the tokenizer are      *)
(* folds, whose recursive function is on the subsets of the indices; that  *)
(* it exists follows from a lemma on functions that look at smaller        *)
(* subsets only.                                                           *)
(***************************************************************************)
EXTENDS Session, FoldFacts, SequenceTheorems

-----------------------------------------------------------------------------
(* The recursive functions of the two pushes. *)
PushedLeft(s, vals, g, T) ==
  IF T = {} THEN s ELSE <<vals[Max(T)]>> \o g[T \ {Max(T)}]

PushedRight(s, vals, g, T) ==
  IF T = {} THEN s ELSE Append(g[T \ {Max(T)}], vals[Max(T)])

LeftFold(s, vals)  == CHOOSE g : g = [T \in SUBSET DOMAIN vals |-> PushedLeft(s, vals, g, T)]
RightFold(s, vals) == CHOOSE g : g = [T \in SUBSET DOMAIN vals |-> PushedRight(s, vals, g, T)]

LEMMA PushesAreFolds ==
  ASSUME NEW s, NEW vals
  PROVE  /\ PushLeft(s, vals) = LeftFold(s, vals)[DOMAIN vals]
         /\ PushRight(s, vals) = RightFold(s, vals)[DOMAIN vals]
<1>1. PushLeft(s, vals) = LeftFold(s, vals)[DOMAIN vals]
  BY DEF PushLeft, FoldLeft, MapThenFoldSet, LeftFold, PushedLeft
<1>2. PushRight(s, vals) = RightFold(s, vals)[DOMAIN vals]
  BY DEF PushRight, FoldLeft, MapThenFoldSet, RightFold, PushedRight
<1> QED BY <1>1, <1>2

IsLeftFold(g, s, vals)  == g = [T \in SUBSET DOMAIN vals |-> PushedLeft(s, vals, g, T)]
IsRightFold(g, s, vals) == g = [T \in SUBSET DOMAIN vals |-> PushedRight(s, vals, g, T)]

LEMMA FoldsExist ==
  ASSUME NEW E, NEW s \in Seq(E), NEW vals \in Seq(E)
  PROVE  IsLeftFold(LeftFold(s, vals), s, vals) /\ IsRightFold(RightFold(s, vals), s, vals)
<1> DEFINE V == Seq(E)
           L == [q \in V |-> [v \in E |-> <<v>> \o q]]
           R == [q \in V |-> [v \in E |-> Append(q, v)]]
<1>1. L \in [V -> [E -> V]] /\ R \in [V -> [E -> V]]
  OBVIOUS
<1>2. ASSUME NEW T \in SUBSET DOMAIN vals, T # {}
      PROVE  vals[Max(T)] \in E /\ T \ {Max(T)} \in SUBSET DOMAIN vals
  <2>1. DOMAIN vals = 1 .. Len(vals) /\ Len(vals) \in Nat
    OBVIOUS
  <2>2. Max(T) \in 1 .. Len(vals)
    BY <1>2, <2>1, MaxIsMember
  <2> QED BY <2>2
<1>3. \E g : g = [T \in SUBSET DOMAIN vals |-> PushedLeft(s, vals, g, T)]
  <2>1. PICK g : IsFold(g, V, s, vals, L)
    <3> HIDE DEF L
    <3> QED BY <1>1, FoldExists
  <2>2. ASSUME NEW T \in SUBSET DOMAIN vals PROVE g[T] = PushedLeft(s, vals, g, T)
    BY <1>2, <2>1 DEF IsFold, PushedLeft
  <2>3. g = [T \in SUBSET DOMAIN vals |-> g[T]]
    BY <2>1 DEF IsFold
  <2> QED BY <2>2, <2>3
<1>4. \E g : g = [T \in SUBSET DOMAIN vals |-> PushedRight(s, vals, g, T)]
  <2>1. PICK g : IsFold(g, V, s, vals, R)
    <3> HIDE DEF R
    <3> QED BY <1>1, FoldExists
  <2>2. ASSUME NEW T \in SUBSET DOMAIN vals PROVE g[T] = PushedRight(s, vals, g, T)
    BY <1>2, <2>1 DEF IsFold, PushedRight
  <2>3. g = [T \in SUBSET DOMAIN vals |-> g[T]]
    BY <2>1 DEF IsFold
  <2> QED BY <2>2, <2>3
<1> QED BY <1>3, <1>4 DEF LeftFold, RightFold, IsLeftFold, IsRightFold

(***************************************************************************)
(* LPUSH puts its values at the front in reverse order, one by one as it   *)
(* does, and RPUSH at the end in their order.                              *)
(***************************************************************************)
LEMMA PushLeftIs ==
  ASSUME NEW s \in Seq(Elem), NEW vals \in Seq(Elem)
  PROVE  /\ PushLeft(s, vals) \in Seq(Elem)
         /\ Len(PushLeft(s, vals)) = Len(vals) + Len(s)
         /\ \A i \in 1 .. Len(vals) : PushLeft(s, vals)[i] = vals[Len(vals) + 1 - i]
         /\ \A i \in 1 .. Len(s) : PushLeft(s, vals)[Len(vals) + i] = s[i]
<1> DEFINE n == Len(vals)
           g == LeftFold(s, vals)
           G == {k \in Nat : k <= n =>
                   /\ g[1 .. k] \in Seq(Elem)
                   /\ Len(g[1 .. k]) = k + Len(s)
                   /\ \A i \in 1 .. k : g[1 .. k][i] = vals[k + 1 - i]
                   /\ \A i \in 1 .. Len(s) : g[1 .. k][k + i] = s[i]}
<1>0. n \in Nat /\ DOMAIN vals = 1 .. n /\ Len(s) \in Nat
  OBVIOUS
<1>a. IsLeftFold(g, s, vals)
  BY FoldsExist
<1>1. \A T \in SUBSET (1 .. n) : g[T] = PushedLeft(s, vals, g, T)
  <2> HIDE DEF g
  <2> QED BY <1>0, <1>a DEF IsLeftFold
<1> HIDE DEF g
<1>2. 0 \in G
  <2>1. 1 .. 0 = {}
    OBVIOUS
  <2>2. g[1 .. 0] = s
    BY <1>1, <2>1 DEF PushedLeft
  <2> QED BY <1>0, <2>2
<1>3. ASSUME NEW k \in Nat, k \in G PROVE k + 1 \in G
  <2> SUFFICES ASSUME k + 1 <= n
               PROVE  /\ g[1 .. k + 1] \in Seq(Elem)
                      /\ Len(g[1 .. k + 1]) = k + 1 + Len(s)
                      /\ \A i \in 1 .. k + 1 : g[1 .. k + 1][i] = vals[k + 1 + 1 - i]
                      /\ \A i \in 1 .. Len(s) : g[1 .. k + 1][k + 1 + i] = s[i]
    BY SMTT(30)
  <2> DEFINE v == vals[k + 1]
             q == g[1 .. k]
             r == g[1 .. k + 1]
  <2>1. r = <<v>> \o q
    <3>1. 1 .. k + 1 \in SUBSET (1 .. n)
      BY <1>0
    <3>2. r = PushedLeft(s, vals, g, 1 .. k + 1)
      BY <1>1, <3>1
    <3> QED BY <3>2, MaxOfFirst DEF PushedLeft
  <2>2. /\ q \in Seq(Elem) /\ Len(q) = k + Len(s)
        /\ \A i \in 1 .. k : q[i] = vals[k + 1 - i]
        /\ \A i \in 1 .. Len(s) : q[k + i] = s[i]
    BY <1>0, <1>3
  <2>3. v \in Elem
    BY <1>0
  <2> HIDE DEF v, q, r
  <2>4. /\ r \in Seq(Elem) /\ Len(r) = k + 1 + Len(s)
        /\ r[1] = v /\ \A j \in 1 .. k + Len(s) : r[1 + j] = q[j]
    BY <1>0, <2>1, <2>2, <2>3
  <2>5. ASSUME NEW i \in 1 .. k + 1 PROVE r[i] = vals[k + 1 + 1 - i]
    <3>1. CASE i = 1
      BY <2>4, <3>1 DEF v
    <3>2. CASE i # 1
      <4>1. i - 1 \in 1 .. k /\ 1 + (i - 1) = i /\ k + 1 - (i - 1) = k + 1 + 1 - i
        BY <3>2
      <4> QED BY <1>0, <2>2, <2>4, <4>1, SMTT(30)
    <3> QED BY <3>1, <3>2
  <2>6. ASSUME NEW i \in 1 .. Len(s) PROVE r[k + 1 + i] = s[i]
    <3>1. k + i \in 1 .. k + Len(s) /\ 1 + (k + i) = k + 1 + i
      BY <1>0
    <3> QED BY <2>2, <2>4, <3>1
  <2> QED BY <2>4, <2>5, <2>6 DEF r
<1> HIDE DEF G
<1>4. n \in G
  BY <1>0, <1>2, <1>3, NaturalsBySuccessor
<1>5. PushLeft(s, vals) = g[1 .. n]
  BY <1>0, PushesAreFolds DEF g
<1> QED BY <1>0, <1>4, <1>5 DEF G

LEMMA PushRightIs ==
  ASSUME NEW s \in Seq(Elem), NEW vals \in Seq(Elem)
  PROVE  /\ PushRight(s, vals) \in Seq(Elem)
         /\ Len(PushRight(s, vals)) = Len(s) + Len(vals)
         /\ \A i \in 1 .. Len(s) : PushRight(s, vals)[i] = s[i]
         /\ \A i \in 1 .. Len(vals) : PushRight(s, vals)[Len(s) + i] = vals[i]
<1> DEFINE n == Len(vals)
           g == RightFold(s, vals)
           G == {k \in Nat : k <= n =>
                   /\ g[1 .. k] \in Seq(Elem)
                   /\ Len(g[1 .. k]) = Len(s) + k
                   /\ \A i \in 1 .. Len(s) : g[1 .. k][i] = s[i]
                   /\ \A i \in 1 .. k : g[1 .. k][Len(s) + i] = vals[i]}
<1>0. n \in Nat /\ DOMAIN vals = 1 .. n /\ Len(s) \in Nat
  OBVIOUS
<1>a. IsRightFold(g, s, vals)
  BY FoldsExist
<1>1. \A T \in SUBSET (1 .. n) : g[T] = PushedRight(s, vals, g, T)
  <2> HIDE DEF g
  <2> QED BY <1>0, <1>a DEF IsRightFold
<1> HIDE DEF g
<1>2. 0 \in G
  <2>1. 1 .. 0 = {}
    OBVIOUS
  <2>2. g[1 .. 0] = s
    BY <1>1, <2>1 DEF PushedRight
  <2> QED BY <1>0, <2>2
<1>3. ASSUME NEW k \in Nat, k \in G PROVE k + 1 \in G
  <2> SUFFICES ASSUME k + 1 <= n
               PROVE  /\ g[1 .. k + 1] \in Seq(Elem)
                      /\ Len(g[1 .. k + 1]) = Len(s) + (k + 1)
                      /\ \A i \in 1 .. Len(s) : g[1 .. k + 1][i] = s[i]
                      /\ \A i \in 1 .. k + 1 : g[1 .. k + 1][Len(s) + i] = vals[i]
    OBVIOUS
  <2> DEFINE v == vals[k + 1]
             q == g[1 .. k]
             r == g[1 .. k + 1]
  <2>1. r = Append(q, v)
    <3>1. 1 .. k + 1 \in SUBSET (1 .. n)
      BY <1>0
    <3>2. r = PushedRight(s, vals, g, 1 .. k + 1)
      BY <1>1, <3>1
    <3> QED BY <3>2, MaxOfFirst DEF PushedRight
  <2>2. /\ q \in Seq(Elem) /\ Len(q) = Len(s) + k
        /\ \A i \in 1 .. Len(s) : q[i] = s[i]
        /\ \A i \in 1 .. k : q[Len(s) + i] = vals[i]
    BY <1>0, <1>3
  <2>3. v \in Elem
    BY <1>0
  <2> HIDE DEF v, q, r
  <2>4. /\ r \in Seq(Elem) /\ Len(r) = Len(s) + (k + 1)
        /\ r[Len(s) + (k + 1)] = v /\ \A j \in 1 .. Len(s) + k : r[j] = q[j]
    BY <1>0, <2>1, <2>2, <2>3
  <2>5. ASSUME NEW i \in 1 .. k + 1 PROVE r[Len(s) + i] = vals[i]
    <3>1. CASE i = k + 1
      BY <2>4, <3>1 DEF v
    <3>2. CASE i # k + 1
      <4>1. i \in 1 .. k /\ Len(s) + i \in 1 .. Len(s) + k
        BY <1>0, <3>2
      <4> QED BY <2>2, <2>4, <4>1
    <3> QED BY <3>1, <3>2
  <2>6. ASSUME NEW i \in 1 .. Len(s) PROVE r[i] = s[i]
    <3>1. i \in 1 .. Len(s) + k
      BY <1>0
    <3> QED BY <2>2, <2>4, <3>1
  <2> QED BY <2>4, <2>5, <2>6 DEF r
<1> HIDE DEF G
<1>4. n \in G
  BY <1>0, <1>2, <1>3, NaturalsBySuccessor
<1>5. PushRight(s, vals) = g[1 .. n]
  BY <1>0, PushesAreFolds DEF g
<1> QED BY <1>0, <1>4, <1>5 DEF G

-----------------------------------------------------------------------------
(* What is stored. *)
LEMMA BoundedSeqs ==
  ASSUME NEW E, NEW n \in Nat, NEW s
  PROVE  s \in BoundedSeq(E, n) <=> s \in Seq(E) /\ Len(s) <= n
<1>1. ASSUME s \in BoundedSeq(E, n) PROVE s \in Seq(E) /\ Len(s) <= n
  <2>1. PICK m \in 0 .. n : s \in [1 .. m -> E]
    BY <1>1 DEF BoundedSeq, SeqOf
  <2> QED BY <2>1
<1>2. ASSUME s \in Seq(E), Len(s) <= n PROVE s \in BoundedSeq(E, n)
  <2>1. Len(s) \in 0 .. n /\ s \in [1 .. Len(s) -> E]
    BY <1>2
  <2> QED BY <2>1 DEF BoundedSeq, SeqOf
<1> QED BY <1>1, <1>2

(* Objects of each type; folded, they are what the commands are about. *)
IsString(o) == \E s \in Seq(Elem) : o = String(s) /\ Len(s) <= MaxLen - 1
IsList(o)   == \E s \in Seq(Elem) : o = List(s) /\ Len(s) <= MaxLen
IsSet(o)    == \E S \in SUBSET Elem : o = Set(S)

LEMMA Objects ==
  ASSUME NEW o
  PROVE  o \in Object <=> IsString(o) \/ IsList(o) \/ IsSet(o)
<1>1. MaxLen \in Nat /\ MaxLen - 1 \in Nat
  BY ValuesAssumption
<1>2. \A s : s \in BoundedSeq(Elem, MaxLen) <=> s \in Seq(Elem) /\ Len(s) <= MaxLen
  BY <1>1, BoundedSeqs
<1>3. \A s : s \in BoundedSeq(Elem, MaxLen - 1) <=> s \in Seq(Elem) /\ Len(s) <= MaxLen - 1
  BY <1>1, BoundedSeqs
<1>4. o \in {String(s) : s \in BoundedSeq(Elem, MaxLen - 1)} <=> IsString(o)
  BY <1>3 DEF IsString
<1>5. o \in {List(s) : s \in BoundedSeq(Elem, MaxLen)} <=> IsList(o)
  BY <1>2 DEF IsList
<1>6. o \in {Set(S) : S \in SUBSET Elem} <=> IsSet(o)
  BY DEF IsSet
<1> QED BY <1>4, <1>5, <1>6 DEF Object

(* What a key is seen to have. *)
LEMMA Shapes ==
  ASSUME TypeOK, NEW k \in Key
  PROVE  /\ db[k] = Absent \/ Is(k, "string") \/ Is(k, "list") \/ Is(k, "set")
         /\ Is(k, "string") => /\ db[k].chars \in Seq(Elem) /\ Len(db[k].chars) <= MaxLen - 1
                               /\ db[k] = String(db[k].chars)
         /\ Is(k, "list") => /\ db[k].values \in Seq(Elem) /\ Len(db[k].values) <= MaxLen
                             /\ db[k] = List(db[k].values)
         /\ Is(k, "set") => /\ db[k].members \in SUBSET Elem
                            /\ db[k] = Set(db[k].members)
<1>1. CASE db[k] = Absent
  BY <1>1 DEF Is
<1>2. CASE db[k] # Absent
  <2>1. IsString(db[k]) \/ IsList(db[k]) \/ IsSet(db[k])
    BY <1>2, Objects DEF TypeOK
  <2>2. CASE IsString(db[k])
    BY <1>2, <2>2 DEF Is, IsString, String
  <2>3. CASE IsList(db[k])
    BY <1>2, <2>3 DEF Is, IsList, List
  <2>4. CASE IsSet(db[k])
    BY <1>2, <2>4 DEF Is, IsSet, Set
  <2> QED BY <2>1, <2>2, <2>3, <2>4
<1> QED BY <1>1, <1>2

(* What a command may store. *)
LEMMA Storable ==
  /\ \A s \in Seq(Elem) : Len(s) <= MaxLen - 1 => String(s) \in Object
  /\ \A s \in Seq(Elem) : Len(s) <= MaxLen => List(s) \in Object
  /\ \A S \in SUBSET Elem : Set(S) \in Object
  BY Objects DEF IsString, IsList, IsSet

LEMMA PutKeeps ==
  ASSUME TypeOK, NEW k \in Key, NEW o \in Object \cup {Absent}, Put(k, o)
  PROVE  TypeOK'
  BY DEF TypeOK, Put

-----------------------------------------------------------------------------
(* Every command leaves objects of the types, within their bounds. *)
LEMMA StringsKeep ==
  ASSUME TypeOK, NEW k \in Key, NEW v \in Elem, SetString(k, v) \/ AppendString(k, v)
  PROVE  TypeOK'
<1>1. MaxLen \in Nat /\ MaxLen >= 2
  BY ValuesAssumption
<1>2. CASE UNCHANGED db
  BY <1>2 DEF TypeOK
<1>3. CASE Put(k, String(<<v>>))
  <2>1. <<v>> \in Seq(Elem) /\ Len(<<v>>) <= MaxLen - 1
    BY <1>1
  <2>2. String(<<v>>) \in Object
    BY <2>1, Storable
  <2> QED BY <1>3, <2>2, PutKeeps
<1>4. CASE \E s \in Seq(Elem) : Len(s) < MaxLen /\ Put(k, String(s))
  <2>1. PICK s \in Seq(Elem) : Len(s) < MaxLen /\ Put(k, String(s))
    BY <1>4
  <2>2. Len(s) <= MaxLen - 1
    BY <1>1, <2>1
  <2>3. String(s) \in Object
    BY <2>2, Storable
  <2> QED BY <2>1, <2>3, PutKeeps
<1>5. ASSUME db[k] = Absent \/ Is(k, "string")
      PROVE  Append(OrNew(k, String(<<>>)).chars, v) \in Seq(Elem)
  <2> DEFINE s == OrNew(k, String(<<>>)).chars
  <2>1. s \in Seq(Elem)
    <3>1. CASE db[k] = Absent
      BY <3>1 DEF OrNew, String
    <3>2. CASE db[k] # Absent /\ Is(k, "string")
      BY <3>2, Shapes DEF OrNew
    <3> QED BY <1>5, <3>1, <3>2
  <2>2. \A t \in Seq(Elem) : Append(t, v) \in Seq(Elem)
    OBVIOUS
  <2> QED BY <2>1, <2>2
<1>6. SetString(k, v) => UNCHANGED db \/ Put(k, String(<<v>>))
  BY DEF SetString, OfOtherType
<1>7. AppendString(k, v) =>
        \/ UNCHANGED db
        \/ \E s \in Seq(Elem) : Len(s) < MaxLen /\ Put(k, String(s))
  BY <1>5 DEF AppendString, OfOtherType
<1> QED BY <1>2, <1>3, <1>4, <1>6, <1>7

(* The list of a key, or a new one. *)
LEMMA ListOrNew ==
  ASSUME TypeOK, NEW k \in Key, db[k] = Absent \/ Is(k, "list")
  PROVE  OrNew(k, List(<<>>)).values \in Seq(Elem)
<1>1. CASE db[k] = Absent
  BY <1>1 DEF OrNew, List
<1>2. CASE db[k] # Absent /\ Is(k, "list")
  BY <1>2, Shapes DEF OrNew
<1> QED BY <1>1, <1>2

LEMMA PushesKeep ==
  ASSUME TypeOK, NEW k \in Key, NEW vals \in Seq(Elem), Lpush(k, vals) \/ Rpush(k, vals)
  PROVE  TypeOK'
<1> DEFINE s == OrNew(k, List(<<>>)).values
<1>1. CASE UNCHANGED db
  BY <1>1 DEF TypeOK
<1>2. ASSUME NEW t, t \in Seq(Elem), Len(t) <= MaxLen, Put(k, List(t)) PROVE TypeOK'
  BY <1>2, Storable, PutKeeps
<1>3. ASSUME db[k] = Absent \/ Is(k, "list")
      PROVE  PushLeft(s, vals) \in Seq(Elem) /\ PushRight(s, vals) \in Seq(Elem)
  <2>1. s \in Seq(Elem)
    BY <1>3, ListOrNew
  <2> HIDE DEF s
  <2>2. PushLeft(s, vals) \in Seq(Elem)
    BY <2>1, PushLeftIs
  <2>3. PushRight(s, vals) \in Seq(Elem)
    BY <2>1, PushRightIs
  <2> QED BY <2>2, <2>3
<1>4. CASE Push(k, PushLeft(s, vals))
  <2> HIDE DEF s
  <2> QED BY <1>2, <1>3, <1>4 DEF Push
<1>5. CASE Push(k, PushRight(s, vals))
  <2> HIDE DEF s
  <2> QED BY <1>2, <1>3, <1>5 DEF Push
<1> QED BY <1>1, <1>4, <1>5 DEF Lpush, Rpush, OfOtherType

LEMMA TakenIs ==
  ASSUME NEW s \in Seq(Elem), NEW count \in Int
  PROVE  Taken(s, count) \in 0 .. Len(s)
<1>1. SizeRange \in Nat \ {0}
  BY ValuesAssumption
<1>2. count % SizeRange \in Nat
  BY <1>1
<1> QED BY <1>2 DEF Taken

(* A pop gives so many from its end, and what is left is in its order. *)
LEMMA PopLeftIs ==
  ASSUME NEW s \in Seq(Elem), NEW count \in Int
  PROVE  LET n      == Taken(s, count)
             popped == PopLeft(s, count)
         IN /\ popped.res \in Seq(Elem) /\ Len(popped.res) = n
            /\ popped.rest \in Seq(Elem) /\ Len(popped.rest) = Len(s) - n
            /\ \A i \in 1 .. n : popped.res[i] = s[i]
            /\ \A i \in 1 .. Len(s) - n : popped.rest[i] = s[n + i]
<1> DEFINE n == Taken(s, count)
<1>1. n \in 0 .. Len(s)
  BY TakenIs
<1>2. PopLeft(s, count) = [res |-> SubSeq(s, 1, n), rest |-> SubSeq(s, n + 1, Len(s))]
  BY DEF PopLeft
<1> HIDE DEF n
<1>3. /\ SubSeq(s, 1, n) \in Seq(Elem) /\ Len(SubSeq(s, 1, n)) = n
      /\ \A i \in 1 .. n : SubSeq(s, 1, n)[i] = s[i]
  BY <1>1
<1>4. /\ SubSeq(s, n + 1, Len(s)) \in Seq(Elem) /\ Len(SubSeq(s, n + 1, Len(s))) = Len(s) - n
      /\ \A i \in 1 .. Len(s) - n : SubSeq(s, n + 1, Len(s))[i] = s[n + i]
  BY <1>1
<1> QED BY <1>2, <1>3, <1>4 DEF n

LEMMA PopRightIs ==
  ASSUME NEW s \in Seq(Elem), NEW count \in Int
  PROVE  LET n      == Taken(s, count)
             popped == PopRight(s, count)
         IN /\ popped.res \in Seq(Elem) /\ Len(popped.res) = n
            /\ popped.rest \in Seq(Elem) /\ Len(popped.rest) = Len(s) - n
            /\ \A i \in 1 .. n : popped.res[i] = s[Len(s) + 1 - i]
            /\ \A i \in 1 .. Len(s) - n : popped.rest[i] = s[i]
<1> DEFINE n == Taken(s, count)
           back == SubSeq(s, Len(s) - n + 1, Len(s))
<1>1. n \in 0 .. Len(s)
  BY TakenIs
<1>2. PopRight(s, count) = [res |-> Reverse(back), rest |-> SubSeq(s, 1, Len(s) - n)]
  BY DEF PopRight
<1> HIDE DEF n
<1>3. /\ SubSeq(s, 1, Len(s) - n) \in Seq(Elem) /\ Len(SubSeq(s, 1, Len(s) - n)) = Len(s) - n
      /\ \A i \in 1 .. Len(s) - n : SubSeq(s, 1, Len(s) - n)[i] = s[i]
  BY <1>1
<1>4. /\ back \in Seq(Elem) /\ Len(back) = n
      /\ \A i \in 1 .. n : back[i] = s[Len(s) - n + i]
  BY <1>1
<1> HIDE DEF back
<1>5. /\ Reverse(back) \in Seq(Elem) /\ Len(Reverse(back)) = n
      /\ \A i \in 1 .. n : Reverse(back)[i] = s[Len(s) + 1 - i]
  <2>1. Reverse(back) = [i \in 1 .. n |-> back[(n - i) + 1]]
    BY <1>4 DEF Reverse
  <2>2. \A i \in 1 .. n : (n - i) + 1 \in 1 .. n /\ Len(s) - n + ((n - i) + 1) = Len(s) + 1 - i
    BY <1>1
  <2>3. \A i \in 1 .. n : back[(n - i) + 1] = s[Len(s) + 1 - i] /\ back[(n - i) + 1] \in Elem
    <3> TAKE i \in 1 .. n
    <3> DEFINE j == (n - i) + 1
    <3>1. j \in 1 .. n /\ Len(s) - n + j = Len(s) + 1 - i
      BY <2>2
    <3> HIDE DEF j
    <3>2. back[j] = s[Len(s) - n + j]
      BY <1>4, <3>1
    <3>3. back[j] \in Elem
      BY <1>4, <3>1
    <3> QED BY <3>1, <3>2, <3>3 DEF j
  <2>4. n \in Nat
    BY <1>1
  <2> QED BY <2>1, <2>3, <2>4
<1> QED BY <1>2, <1>3, <1>5 DEF n

LEMMA PopsKeep ==
  ASSUME TypeOK, NEW k \in Key, NEW count \in Int, Lpop(k, count) \/ Rpop(k, count)
  PROVE  TypeOK'
<1>1. CASE UNCHANGED db
  BY <1>1 DEF TypeOK
<1>2. ASSUME Is(k, "list"),
             NEW popped, popped.rest \in Seq(Elem), Len(popped.rest) <= Len(db[k].values),
             Popped(k, popped)
      PROVE  TypeOK'
  <2>1. MaxLen \in Nat /\ Len(db[k].values) \in Nat /\ Len(db[k].values) <= MaxLen
    BY <1>2, Shapes, ValuesAssumption
  <2>2. Len(popped.rest) <= MaxLen
    BY <1>2, <2>1
  <2>3. List(popped.rest) \in Object
    BY <1>2, <2>2, Storable
  <2> QED BY <1>2, <2>3, PutKeeps DEF Popped
<1>3. CASE Is(k, "list") /\ Popped(k, PopLeft(db[k].values, count))
  <2> DEFINE s == db[k].values
             popped == PopLeft(s, count)
  <2>1. s \in Seq(Elem)
    BY <1>3, Shapes
  <2>2. popped.rest \in Seq(Elem) /\ Len(popped.rest) <= Len(s)
    <3> HIDE DEF s
    <3>1. Taken(s, count) \in 0 .. Len(s)
      BY <2>1, TakenIs
    <3> QED BY <2>1, <3>1, PopLeftIs
  <2> HIDE DEF popped
  <2> QED BY <1>2, <1>3, <2>2 DEF popped
<1>4. CASE Is(k, "list") /\ Popped(k, PopRight(db[k].values, count))
  <2> DEFINE s == db[k].values
             popped == PopRight(s, count)
  <2>1. s \in Seq(Elem)
    BY <1>4, Shapes
  <2>2. popped.rest \in Seq(Elem) /\ Len(popped.rest) <= Len(s)
    <3> HIDE DEF s
    <3>1. Taken(s, count) \in 0 .. Len(s)
      BY <2>1, TakenIs
    <3> QED BY <2>1, <3>1, PopRightIs
  <2> HIDE DEF popped
  <2> QED BY <1>2, <1>4, <2>2 DEF popped
<1> QED BY <1>1, <1>3, <1>4 DEF Lpop, Rpop, OfOtherType, NotStored

LEMMA SetAtIs ==
  ASSUME NEW s \in Seq(Elem), NEW i \in Int, NEW v \in Elem
  PROVE  SetAt(s, i, v) \in Seq(Elem) /\ Len(SetAt(s, i, v)) = Len(s)
<1>1. CASE i < 0 \/ i >= Len(s)
  BY <1>1 DEF SetAt
<1>2. CASE i >= 0 /\ i < Len(s)
  <2>1. i + 1 \in 1 .. Len(s)
    BY <1>2
  <2>2. [s EXCEPT ![i + 1] = v] \in Seq(Elem) /\ Len([s EXCEPT ![i + 1] = v]) = Len(s)
    BY <2>1, ExceptSeq
  <2> QED BY <1>2, <2>2 DEF SetAt
<1> QED BY <1>1, <1>2

LEMMA LsetKeeps ==
  ASSUME TypeOK, NEW k \in Key, NEW i \in Int, NEW v \in Elem, Lset(k, i, v)
  PROVE  TypeOK'
<1>1. CASE UNCHANGED db
  BY <1>1 DEF TypeOK
<1>2. CASE Is(k, "list") /\ Put(k, List(SetAt(db[k].values, i, v)))
  <2>1. db[k].values \in Seq(Elem) /\ Len(db[k].values) <= MaxLen
    BY <1>2, Shapes
  <2>2. List(SetAt(db[k].values, i, v)) \in Object
    BY <2>1, SetAtIs, Storable
  <2> QED BY <1>2, <2>2, PutKeeps
<1> QED BY <1>1, <1>2 DEF Lset, OfOtherType, NotStored

(* The index of the first value equal to the pivot. *)
First(s, pivot) == Min({i \in 1 .. Len(s) : s[i] = pivot})

LEMMA FirstIs ==
  ASSUME NEW s \in Seq(Elem), NEW pivot, ~\A i \in DOMAIN s : s[i] # pivot
  PROVE  First(s, pivot) \in 1 .. Len(s)
<1> DEFINE I == {i \in 1 .. Len(s) : s[i] = pivot}
<1>1. I \in SUBSET Nat /\ I # {}
  OBVIOUS
<1>2. \E x \in I : \A y \in I : x <= y
  <2> HIDE DEF I
  <2>1. PICK n \in I : TRUE
    BY <1>1
  <2> DEFINE G == {m \in Nat : \A x \in I : x <= m => \E y \in I : \A z \in I : y <= z}
  <2>2. 0 \in G
    BY <1>1
  <2>3. ASSUME NEW m \in Nat, m \in G PROVE m + 1 \in G
    <3> SUFFICES ASSUME NEW x \in I, x <= m + 1 PROVE \E y \in I : \A z \in I : y <= z
      OBVIOUS
    <3>1. CASE \E z \in I : z <= m
      BY <2>3, <3>1
    <3>2. CASE \A z \in I : ~(z <= m)
      <4>1. \A z \in I : x <= z
        BY <1>1, <3>2
      <4> QED BY <4>1
    <3> QED BY <3>1, <3>2
  <2> HIDE DEF G
  <2>4. \A m \in Nat : m \in G
    BY <2>2, <2>3, NaturalsBySuccessor
  <2>5. n \in G /\ n <= n
    BY <1>1, <2>1, <2>4
  <2> QED BY <2>1, <2>5 DEF G
<1>3. Min(I) \in I
  <2> HIDE DEF I
  <2> QED BY <1>2 DEF Min
<1> QED BY <1>3 DEF First

(* A value is put beside the pivot, or there is none. *)
LEMMA InsertIs ==
  ASSUME NEW s \in Seq(Elem), NEW before, NEW pivot, NEW v \in Elem
  PROVE  /\ Insert(s, before, pivot, v) \in Seq(Elem)
         /\ Insert(s, before, pivot, v) = s \/ Len(Insert(s, before, pivot, v)) = Len(s) + 1
<1>1. CASE \A i \in DOMAIN s : s[i] # pivot
  BY <1>1 DEF Insert
<1>2. CASE ~\A i \in DOMAIN s : s[i] # pivot
  <2> DEFINE i == First(s, pivot)
             j == IF before THEN i ELSE i + 1
  <2>1. i \in 1 .. Len(s)
    BY <1>2, FirstIs
  <2>2. j \in 1 .. Len(s) + 1
    <3> HIDE DEF i
    <3> QED BY <2>1
  <2>3. Insert(s, before, pivot, v) = InsertAt(s, j, v)
    <3>1. {n \in 1 .. Len(s) : s[n] = pivot} # {}
      BY <1>2
    <3> QED BY <1>2, <3>1 DEF Insert, SelectInSeq, First
  <2> HIDE DEF i, j
  <2>4. SubSeq(s, 1, j - 1) \in Seq(Elem) /\ Len(SubSeq(s, 1, j - 1)) = j - 1
    BY <2>2
  <2>5. SubSeq(s, j, Len(s)) \in Seq(Elem) /\ Len(SubSeq(s, j, Len(s))) = Len(s) - j + 1
    BY <2>2
  <2> DEFINE front == SubSeq(s, 1, j - 1)
             back  == SubSeq(s, j, Len(s))
  <2>6. InsertAt(s, j, v) = front \o <<v>> \o back
    BY DEF InsertAt
  <2>7. Len(s) \in Nat
    OBVIOUS
  <2> HIDE DEF front, back
  <2>8. front \in Seq(Elem) /\ back \in Seq(Elem) /\ Len(front) + Len(back) = Len(s)
    BY <2>2, <2>4, <2>5, <2>7 DEF front, back
  <2>9. front \o <<v>> \o back \in Seq(Elem) /\ Len(front \o <<v>> \o back) = Len(s) + 1
    BY <2>7, <2>8
  <2> QED BY <2>3, <2>6, <2>9
<1> QED BY <1>1, <1>2

LEMMA LinsertKeeps ==
  ASSUME TypeOK, NEW k \in Key, NEW before, NEW pivot, NEW v \in Elem,
         Linsert(k, before, pivot, v)
  PROVE  TypeOK'
<1>1. CASE UNCHANGED db
  BY <1>1 DEF TypeOK
<1>2. ASSUME Is(k, "list"),
             Len(Insert(db[k].values, before, pivot, v)) <= MaxLen,
             Put(k, List(Insert(db[k].values, before, pivot, v)))
      PROVE  TypeOK'
  <2>1. db[k].values \in Seq(Elem)
    BY <1>2, Shapes
  <2>2. List(Insert(db[k].values, before, pivot, v)) \in Object
    BY <1>2, <2>1, InsertIs, Storable
  <2> QED BY <1>2, <2>2, PutKeeps
<1> QED BY <1>1, <1>2 DEF Linsert, OfOtherType, NotStored

LEMMA MembersKeep ==
  ASSUME TypeOK, NEW k \in Key, NEW elements \in Seq(Elem), Sadd(k, elements) \/ Srem(k, elements)
  PROVE  TypeOK'
<1>1. CASE UNCHANGED db
  BY <1>1 DEF TypeOK
<1>2. ASSUME NEW S \in SUBSET Elem, Put(k, Set(S)) PROVE TypeOK'
  BY <1>2, Storable, PutKeeps
<1>3. ToSet(elements) \in SUBSET Elem
  BY DEF ToSet
<1>4. ASSUME db[k] = Absent \/ Is(k, "set")
      PROVE  OrNew(k, Set({})).members \in SUBSET Elem
  <2>1. CASE db[k] = Absent
    BY <2>1 DEF OrNew, Set
  <2>2. CASE db[k] # Absent /\ Is(k, "set")
    BY <2>2, Shapes DEF OrNew
  <2> QED BY <1>4, <2>1, <2>2
<1>5. ASSUME db[k] = Absent \/ Is(k, "set"),
             Put(k, Set(OrNew(k, Set({})).members \cup ToSet(elements)))
      PROVE  TypeOK'
  <2>1. OrNew(k, Set({})).members \cup ToSet(elements) \in SUBSET Elem
    BY <1>3, <1>4, <1>5
  <2> QED BY <1>2, <1>5, <2>1
<1>6. ASSUME Is(k, "set"), Put(k, Set(db[k].members \ ToSet(elements)))
      PROVE  TypeOK'
  <2>1. db[k].members \ ToSet(elements) \in SUBSET Elem
    BY <1>6, Shapes
  <2> QED BY <1>2, <1>6, <2>1
<1> QED BY <1>1, <1>5, <1>6 DEF Sadd, Srem, OfOtherType, NotStored

(* What SMOVE makes of its two sets. *)
LEMMA SmoveIs ==
  ASSUME TypeOK, NEW src \in Key, NEW dst \in Key, NEW e \in Elem, Smove(src, dst, e)
  PROVE  \/ UNCHANGED db /\ (Is(src, "set") /\ Is(dst, "set") => e \notin db[src].members)
         \/ /\ Is(src, "set") /\ Is(dst, "set") /\ e \in db[src].members
            /\ db' = [k \in Key |->
                 IF k = src
                   THEN Set((IF src = dst THEN db[src].members \cup {e} ELSE db[src].members) \ {e})
                 ELSE IF k = dst THEN Set(db[dst].members \cup {e}) ELSE db[k]]
<1>2. ASSUME Is(src, "set"), Is(dst, "set"), e \in db[src].members,
             db' = [[db EXCEPT ![dst].members = @ \cup {e}] EXCEPT ![src].members = @ \ {e}]
      PROVE  db' = [k \in Key |->
                 IF k = src
                   THEN Set((IF src = dst THEN db[src].members \cup {e} ELSE db[src].members) \ {e})
                 ELSE IF k = dst THEN Set(db[dst].members \cup {e}) ELSE db[k]]
  <2> DEFINE A == db[src].members
             B == db[dst].members
  <2>1. db = [k \in Key |-> db[k]]
    BY DEF TypeOK
  <2>2. db[src] = Set(A) /\ db[dst] = Set(B)
    BY <1>2, Shapes
  <2> DEFINE put == [db EXCEPT ![dst].members = @ \cup {e}]
  <2>3. put = [k \in Key |-> IF k = dst THEN Set(B \cup {e}) ELSE db[k]]
    <3>1. [db[dst] EXCEPT !.members = @ \cup {e}] = Set(B \cup {e})
      BY <2>2 DEF Set
    <3> QED BY <2>1, <3>1
  <2>4. [put[src] EXCEPT !.members = @ \ {e}]
          = Set((IF src = dst THEN A \cup {e} ELSE A) \ {e})
    <3>1. put[src] = Set(IF src = dst THEN A \cup {e} ELSE A)
      BY <2>2, <2>3
    <3> HIDE DEF put
    <3> QED BY <3>1 DEF Set
  <2>5. db' = [k \in Key |-> IF k = src THEN [put[src] EXCEPT !.members = @ \ {e}] ELSE put[k]]
    <3>1. db' = [put EXCEPT ![src].members = @ \ {e}] /\ put = [k \in Key |-> put[k]]
      BY <1>2, <2>3
    <3> HIDE DEF put
    <3> QED BY <3>1
  <2> QED BY <2>3, <2>4, <2>5
<1> QED BY <1>2 DEF Smove, Is

LEMMA SmoveKeeps ==
  ASSUME TypeOK, NEW src \in Key, NEW dst \in Key, NEW e \in Elem, Smove(src, dst, e)
  PROVE  TypeOK'
<1>1. CASE UNCHANGED db
  BY <1>1 DEF TypeOK
<1>2. CASE ~UNCHANGED db
  <2> DEFINE A == (IF src = dst THEN db[src].members \cup {e} ELSE db[src].members) \ {e}
             B == db[dst].members \cup {e}
  <2>1. /\ Is(src, "set") /\ Is(dst, "set")
        /\ db' = [k \in Key |-> IF k = src THEN Set(A) ELSE IF k = dst THEN Set(B) ELSE db[k]]
    BY <1>2, SmoveIs
  <2>2. A \in SUBSET Elem /\ B \in SUBSET Elem
    BY <2>1, Shapes
  <2>3. Set(A) \in Object /\ Set(B) \in Object
    BY <2>2, Storable
  <2> HIDE DEF A, B
  <2> QED BY <2>1, <2>3 DEF TypeOK
<1> QED BY <1>1, <1>2

LEMMA RemovalsKeep ==
  ASSUME TypeOK, (\E keys : Del(keys)) \/ Flushdb
  PROVE  TypeOK'
  BY DEF TypeOK, Del, Flushdb

LEMMA ReadsKeep ==
  ASSUME TypeOK, (\E k, type : Read(k, type)) \/ (\E answer : Combine(answer))
  PROVE  TypeOK'
  BY DEF TypeOK, Read, Combine, OfOtherType, NotStored

(* What a command's arguments are, by its pattern. *)
LEMMA ArgumentsFit ==
  ASSUME NEW c, Fits(c)
  PROVE  LET a == c.args
         IN /\ c.name \in {"SET", "APPEND"} => a[1] \in Key /\ a[2] \in Elem
            /\ c.name \in {"LPUSH", "RPUSH", "SADD", "SREM"} => a[1] \in Key /\ a[2] \in Seq(Elem)
            /\ c.name \in {"LPOP", "RPOP"} => a[1] \in Key /\ a[2] \in Int
            /\ c.name = "LSET" => a[1] \in Key /\ a[2] \in Int /\ a[3] \in Elem
            /\ c.name = "LINSERT" => a[1] \in Key /\ a[3] \in Elem /\ a[4] \in Elem
            /\ c.name = "SMOVE" => a[1] \in Key /\ a[2] \in Key /\ a[3] \in Elem
<1> DEFINE a == c.args
           P == Pattern[c.name]
<1>1. /\ \A i \in DOMAIN P : P[i] = "Key" => a[i] \in Key
      /\ \A i \in DOMAIN P : P[i] = "Value" => a[i] \in Elem
      /\ \A i \in DOMAIN P : P[i] = "VarArgs" /\ c.name \notin OfKeys => a[i] \in Seq(Elem)
      /\ \A i \in DOMAIN P : P[i] \in {"Int64", "OptionalInt64"} => a[i] \in Int
  BY DEF Fits
<1>2. CASE c.name \in {"SET", "APPEND"}
  <2>1. P = <<"Key", "Value">>
    BY <1>2, SMTT(30) DEF Pattern
  <2> HIDE DEF P
  <2> QED BY <1>1, <1>2, <2>1
<1>3. CASE c.name \in {"LPUSH", "RPUSH", "SADD", "SREM"}
  <2>1. P = <<"Key", "VarArgs">>
    BY <1>3, SMTT(30) DEF Pattern
  <2> HIDE DEF P
  <2> QED BY <1>1, <1>3, <2>1 DEF OfKeys
<1>4. CASE c.name \in {"LPOP", "RPOP"}
  <2>1. P = <<"Key", "OptionalInt64">>
    BY <1>4, SMTT(30) DEF Pattern
  <2> HIDE DEF P
  <2> QED BY <1>1, <1>4, <2>1
<1>5. CASE c.name = "LSET"
  <2>1. P = <<"Key", "Int64", "Value">>
    BY <1>5, SMTT(30) DEF Pattern
  <2> HIDE DEF P
  <2> QED BY <1>1, <1>5, <2>1
<1>6. CASE c.name = "LINSERT"
  <2>1. P = <<"Key", "BeforeAfter", "Value", "Value">>
    BY <1>6, SMTT(30) DEF Pattern
  <2> HIDE DEF P
  <2> QED BY <1>1, <1>6, <2>1
<1>7. CASE c.name = "SMOVE"
  <2>1. P = <<"Key", "Key", "Value">>
    BY <1>7, SMTT(30) DEF Pattern
  <2> HIDE DEF P
  <2> QED BY <1>1, <1>7, <2>1
<1> QED BY <1>2, <1>3, <1>4, <1>5, <1>6, <1>7

LEMMA HandleKeeps ==
  ASSUME TypeOK, NEW c, c = Unknown \/ Fits(c), Handle(c)
  PROVE  TypeOK'
<1> DEFINE a == c.args
<1>1. CASE UNCHANGED db
  BY <1>1 DEF TypeOK
<1>2. ASSUME c.name # "unknown" PROVE Fits(c)
  BY <1>2 DEF Unknown
<1>3. CASE c.name = "SET" /\ SetString(a[1], a[2])
  BY <1>2, <1>3, ArgumentsFit, StringsKeep
<1>4. CASE c.name = "APPEND" /\ AppendString(a[1], a[2])
  BY <1>2, <1>4, ArgumentsFit, StringsKeep
<1>5. CASE c.name = "LPUSH" /\ Lpush(a[1], a[2])
  BY <1>2, <1>5, ArgumentsFit, PushesKeep
<1>6. CASE c.name = "RPUSH" /\ Rpush(a[1], a[2])
  BY <1>2, <1>6, ArgumentsFit, PushesKeep
<1>7. CASE c.name = "LPOP" /\ Lpop(a[1], a[2])
  BY <1>2, <1>7, ArgumentsFit, PopsKeep
<1>8. CASE c.name = "RPOP" /\ Rpop(a[1], a[2])
  BY <1>2, <1>8, ArgumentsFit, PopsKeep
<1>9. CASE c.name = "LSET" /\ Lset(a[1], a[2], a[3])
  BY <1>2, <1>9, ArgumentsFit, LsetKeeps
<1>10. CASE c.name = "LINSERT" /\ Linsert(a[1], a[2], a[3], a[4])
  BY <1>2, <1>10, ArgumentsFit, LinsertKeeps
<1>11. CASE c.name = "SADD" /\ Sadd(a[1], a[2])
  BY <1>2, <1>11, ArgumentsFit, MembersKeep
<1>12. CASE c.name = "SREM" /\ Srem(a[1], a[2])
  BY <1>2, <1>12, ArgumentsFit, MembersKeep
<1>13. CASE c.name = "SMOVE" /\ Smove(a[1], a[2], a[3])
  BY <1>2, <1>13, ArgumentsFit, SmoveKeeps
<1>14. CASE Del(a[1]) \/ Flushdb
  BY <1>14, RemovalsKeep
<1>15. CASE \/ Combine(Sunion(a[1])) \/ Combine(Sinter(a[1])) \/ Combine(Sdiff(a[1]))
            \/ Read(a[1], "string") \/ Read(a[1], "list") \/ Read(a[1], "set")
  BY <1>15, ReadsKeep
<1> QED BY <1>1, <1>3, <1>4, <1>5, <1>6, <1>7, <1>8, <1>9, <1>10, <1>11, <1>12, <1>13,
           <1>14, <1>15 DEF Handle

-----------------------------------------------------------------------------
(* The tokenizer makes sequences of commands. *)
Scanning(W) == [commands : Seq(Seq(Seq(W))), command : Seq(Seq(W)), token : Seq(W),
                inside_token : BOOLEAN, in_quotes : BOOLEAN]

LEMMA EndTokenType ==
  ASSUME NEW W, NEW s \in Scanning(W)
  PROVE  EndToken(s) \in Scanning(W)
<1>1. (IF s.inside_token THEN Append(s.command, s.token) ELSE s.command) \in Seq(Seq(W))
  <2>1. s.command \in Seq(Seq(W)) /\ s.token \in Seq(W)
    BY DEF Scanning
  <2>2. \A q \in Seq(Seq(W)), t \in Seq(W) : Append(q, t) \in Seq(Seq(W))
    OBVIOUS
  <2> QED BY <2>1, <2>2
<1> DEFINE c == IF s.inside_token THEN Append(s.command, s.token) ELSE s.command
<1>2. EndToken(s) = [s EXCEPT !.command = c, !.inside_token = FALSE]
  BY DEF EndToken
<1> HIDE DEF c
<1> QED BY <1>1, <1>2 DEF Scanning, c

LEMMA EndCommandType ==
  ASSUME NEW W, NEW s \in Scanning(W)
  PROVE  EndCommand(s) \in Scanning(W)
<1> DEFINE c == IF s.command = <<>> THEN s.commands ELSE Append(s.commands, s.command)
<1>1. c \in Seq(Seq(Seq(W)))
  <2>1. s.commands \in Seq(Seq(Seq(W))) /\ s.command \in Seq(Seq(W))
    BY DEF Scanning
  <2>2. \A q \in Seq(Seq(Seq(W))), t \in Seq(Seq(W)) : Append(q, t) \in Seq(Seq(Seq(W)))
    OBVIOUS
  <2> QED BY <2>1, <2>2
<1>2. EndCommand(s) = [s EXCEPT !.commands = c, !.command = <<>>]
  BY DEF EndCommand
<1>3. <<>> \in Seq(Seq(W))
  OBVIOUS
<1> HIDE DEF c
<1>4. [s EXCEPT !.commands = c, !.command = <<>>] \in Scanning(W)
  BY <1>1, <1>3 DEF Scanning
<1> QED BY <1>2, <1>4

LEMMA SymbolType ==
  ASSUME NEW W, NEW s \in Scanning(W), NEW c \in W
  PROVE  Symbol(s, c) \in Scanning(W)
<1> DEFINE Closed == [EndToken(s) EXCEPT !.in_quotes = FALSE]
           Opened == [EndToken(s) EXCEPT !.token = <<>>, !.inside_token = TRUE, !.in_quotes = TRUE]
           t      == IF s.inside_token THEN Append(s.token, c) ELSE <<c>>
           Added   == [s EXCEPT !.token = t, !.inside_token = TRUE]
<1>1. EndToken(s) \in Scanning(W) /\ EndCommand(EndToken(s)) \in Scanning(W)
  BY EndTokenType, EndCommandType
<1>2. Closed \in Scanning(W)
  BY <1>1 DEF Scanning
<1>3. Opened \in Scanning(W)
  <2>1. <<>> \in Seq(W)
    OBVIOUS
  <2> DEFINE u == EndToken(s)
             none == <<>>
  <2> HIDE DEF u, none
  <2>2. u \in Scanning(W) /\ none \in Seq(W)
    BY <1>1, <2>1 DEF u, none
  <2>3. [u EXCEPT !.token = none, !.inside_token = TRUE, !.in_quotes = TRUE] \in Scanning(W)
    BY <2>2 DEF Scanning
  <2> QED BY <2>3 DEF u, none
<1>4. Added \in Scanning(W)
  <2>1. t \in Seq(W)
    <3>1. s.token \in Seq(W)
      BY DEF Scanning
    <3>2. \A q \in Seq(W) : Append(q, c) \in Seq(W)
      OBVIOUS
    <3>3. <<c>> \in Seq(W)
      OBVIOUS
    <3> QED BY <3>1, <3>2, <3>3
  <2> HIDE DEF t
  <2> QED BY <2>1 DEF Scanning
<1>5. Symbol(s, c) \in {EndToken(s), EndCommand(EndToken(s)), Closed, Opened, Added}
  <2>1. CloseQuote(s) = Closed /\ OpenQuote(s) = Opened
    BY DEF CloseQuote, OpenQuote
  <2> DEFINE R == [s EXCEPT !.token = IF s.inside_token THEN Append(@, c) ELSE <<c>>,
                            !.inside_token = TRUE]
  <2>2. R = Added
    OBVIOUS
  <2> HIDE DEF Closed, Opened, Added
  <2>3. Symbol(s, c) \in {EndToken(s), EndCommand(EndToken(s)), CloseQuote(s), OpenQuote(s), R}
    <3>1. CASE ~s.in_quotes /\ c = Space
      BY <3>1 DEF Symbol
    <3>2. CASE ~s.in_quotes /\ c # Space /\ c \in {Semicolon, Nul}
      BY <3>2 DEF Symbol
    <3>3. CASE c = Quote /\ s.in_quotes
      BY <3>3 DEF Symbol, Space, Semicolon, Nul, Quote
    <3>4. CASE c = Quote /\ ~s.in_quotes
      BY <3>4 DEF Symbol, Space, Semicolon, Nul, Quote
    <3>5. CASE c # Quote /\ (s.in_quotes \/ (c # Space /\ c \notin {Semicolon, Nul}))
      BY <3>5 DEF Symbol
    <3> QED BY <3>1, <3>2, <3>3, <3>4, <3>5
  <2> HIDE DEF R
  <2> QED BY <2>1, <2>2, <2>3
<1> HIDE DEF Closed, Opened, Added
<1> QED BY <1>1, <1>2, <1>3, <1>4, <1>5

Scanned(line, g, T) == IF T = {} THEN Start ELSE Symbol(g[T \ {Max(T)}], line[Max(T)])

ScanOf(line) == CHOOSE g : g = [T \in SUBSET DOMAIN line |-> Scanned(line, g, T)]

LEMMA ScanIsFold ==
  ASSUME NEW line
  PROVE  FoldLeft(Symbol, Start, line) = ScanOf(line)[DOMAIN line]
  BY DEF FoldLeft, MapThenFoldSet, ScanOf, Scanned

LEMMA ScanOfIs ==
  ASSUME NEW W, NEW line \in Seq(W)
  PROVE  ScanOf(line) = [T \in SUBSET DOMAIN line |-> Scanned(line, ScanOf(line), T)]
<1> DEFINE V == Scanning(W)
           step == [s \in V |-> [c \in W |-> Symbol(s, c)]]
           D == SUBSET DOMAIN line
<1>1. step \in [V -> [W -> V]]
  BY SymbolType
<1>2. Start \in V
  BY DEF Scanning, Start
<1>3. ASSUME NEW T \in D, T # {}
      PROVE  line[Max(T)] \in W /\ T \ {Max(T)} \in D /\ Max(T) \in T
  <2>1. DOMAIN line = 1 .. Len(line) /\ Len(line) \in Nat
    OBVIOUS
  <2>2. Max(T) \in T
    BY <1>3, <2>1, MaxIsMember
  <2> QED BY <2>1, <2>2
<1>4. PICK g : IsFold(g, V, Start, line, step)
  <2> HIDE DEF step, V
  <2> QED BY <1>1, <1>2, FoldExists
<1>5. g = [T \in D |-> Scanned(line, g, T)]
  <2>1. ASSUME NEW T \in D PROVE g[T] = Scanned(line, g, T)
    <3>1. CASE T = {}
      BY <1>4, <3>1 DEF IsFold, Scanned
    <3>2. CASE T # {}
      <4>1. g[T \ {Max(T)}] \in V /\ line[Max(T)] \in W
        BY <1>3, <1>4, <3>2 DEF IsFold
      <4>2. g[T] = step[g[T \ {Max(T)}]][line[Max(T)]]
        BY <1>4, <3>2 DEF IsFold
      <4>3. \A s \in V, c \in W : step[s][c] = Symbol(s, c)
        OBVIOUS
      <4> HIDE DEF step, V
      <4> QED BY <3>2, <4>1, <4>2, <4>3 DEF Scanned
    <3> QED BY <3>1, <3>2
  <2>2. g = [T \in D |-> g[T]]
    BY <1>4 DEF IsFold
  <2> HIDE DEF D
  <2> QED BY <2>1, <2>2
<1>6. ScanOf(line) = [T \in D |-> Scanned(line, ScanOf(line), T)]
  BY <1>5 DEF ScanOf
<1> QED BY <1>6

(* The state after each of the symbols. *)
After(line, k) == ScanOf(line)[1 .. k]

LEMMA ScanSteps ==
  ASSUME NEW W, NEW line \in Seq(W)
  PROVE  /\ After(line, 0) = Start
         /\ \A k \in 0 .. Len(line) : After(line, k) \in Scanning(W)
         /\ \A k \in 0 .. Len(line) - 1 :
              After(line, k + 1) = Symbol(After(line, k), line[k + 1])
         /\ FoldLeft(Symbol, Start, line) = After(line, Len(line))
<1> DEFINE n == Len(line)
           V == Scanning(W)
           G == {k \in Nat : k <= n => After(line, k) \in V}
<1>0. n \in Nat /\ DOMAIN line = 1 .. n /\ \A k \in 1 .. n : line[k] \in W
  OBVIOUS
<1> HIDE DEF n
<1>1. After(line, 0) = Start
  <2>1. 1 .. 0 = {} /\ {} \in SUBSET (1 .. n)
    OBVIOUS
  <2> QED BY <1>0, <2>1, ScanOfIs DEF After, Scanned
<1>2. ASSUME NEW k \in Nat, k + 1 <= n
      PROVE  After(line, k + 1) = Symbol(After(line, k), line[k + 1])
  <2>1. 1 .. k + 1 \in SUBSET (1 .. n)
    BY <1>0, <1>2
  <2>2. ScanOf(line)[1 .. k + 1] = Scanned(line, ScanOf(line), 1 .. k + 1)
    BY <1>0, <2>1, ScanOfIs
  <2> QED BY <2>2, MaxOfFirst DEF After, Scanned
<1>3. 0 \in G
  <2>1. Start \in V
    BY DEF Start, Scanning
  <2> QED BY <1>1, <2>1
<1>4. ASSUME NEW k \in Nat, k \in G PROVE k + 1 \in G
  <2> SUFFICES ASSUME k + 1 <= n PROVE After(line, k + 1) \in V
    OBVIOUS
  <2>1. After(line, k) \in V /\ line[k + 1] \in W
    BY <1>0, <1>4
  <2>2. After(line, k + 1) = Symbol(After(line, k), line[k + 1])
    BY <1>2
  <2> HIDE DEF G
  <2> QED BY <2>1, <2>2, SymbolType
<1> HIDE DEF G
<1>5. \A k \in Nat : k \in G
  BY <1>3, <1>4, NaturalsBySuccessor
<1>6. \A k \in 0 .. n : After(line, k) \in V
  BY <1>0, <1>5 DEF G
<1>7. \A k \in 0 .. n - 1 : After(line, k + 1) = Symbol(After(line, k), line[k + 1])
  BY <1>0, <1>2
<1>8. FoldLeft(Symbol, Start, line) = After(line, n)
  BY <1>0, ScanIsFold DEF After
<1> QED BY <1>1, <1>6, <1>7, <1>8 DEF n

LEMMA ScanType ==
  ASSUME NEW W, NEW line \in Seq(W)
  PROVE  FoldLeft(Symbol, Start, line) \in Scanning(W)
<1>1. Len(line) \in 0 .. Len(line)
  OBVIOUS
<1> QED BY <1>1, ScanSteps

(* What is made of a line is a sequence of commands that fit. *)
Wanted == {c \in UNION {ToSet(Understood[l].commands) : l \in Lines} : c = Unknown \/ Fits(c)}

LEMMA UnderstoodType ==
  ASSUME NEW l \in Lines
  PROVE  Understood[l].commands \in Seq(Wanted)
<1> DEFINE cut == GetTokens(l)
           cs  == Understood[l].commands
           W   == ToSet(l) \cup {Nul}
<1>1. Append(l, Nul) \in Seq(W)
  <2>1. l \in Seq(ToSet(l))
    BY SessionAssumption
  <2>2. l \in Seq(W)
    <3> HIDE DEF W
    <3>1. ToSet(l) \subseteq W
      BY DEF W
    <3> QED BY <2>1, <3>1
  <2>3. Nul \in W
    OBVIOUS
  <2> HIDE DEF W
  <2> QED BY <2>2, <2>3
<1>2. cut.commands \in Seq(Seq(Seq(W)))
  <2> DEFINE end == FoldLeft(Symbol, Start, Append(l, Nul))
  <2>1. end \in Scanning(W)
    BY <1>1, ScanType
  <2>2. end.commands \in Seq(Seq(Seq(W)))
    BY <2>1 DEF Scanning
  <2>3. cut.commands = IF end.in_quotes THEN <<>> ELSE end.commands
    BY DEF GetTokens
  <2>4. <<>> \in Seq(Seq(Seq(W)))
    OBVIOUS
  <2> HIDE DEF end
  <2> QED BY <2>2, <2>3, <2>4
<1>3. cs = [i \in DOMAIN cut.commands |-> Dispatch(cut.commands[i])]
  BY DEF Understood
<1>4. DOMAIN cs = 1 .. Len(cut.commands) /\ Len(cut.commands) \in Nat
  <2> HIDE DEF cut
  <2> QED BY <1>2, <1>3
<1>5. \A i \in DOMAIN cs : cs[i] \in Wanted
  <2>1. \A i \in DOMAIN cs : cs[i] = Unknown \/ Fits(cs[i])
    BY SessionAssumption
  <2>2. \A i \in DOMAIN cs : cs[i] \in ToSet(cs)
    BY DEF ToSet
  <2> HIDE DEF cs
  <2> QED BY <2>1, <2>2 DEF Wanted, cs
<1> DEFINE n == Len(cut.commands)
<1>6. n \in Nat /\ cs = [i \in 1 .. n |-> cs[i]]
  <2> HIDE DEF cut
  <2> QED BY <1>3, <1>4
<1> HIDE DEF cut, cs, n
<1>7. \A i \in 1 .. n : cs[i] \in Wanted
  BY <1>5, <1>6
<1>8. cs \in Seq(Wanted)
  BY <1>6, <1>7
<1> QED BY <1>8 DEF cs

(* The commands that are still to run are some that were understood. *)
Waiting == batch \in Seq(Wanted)

IInv == TypeOK /\ Waiting

LEMMA StartIsFine ==
  SInit => IInv
<1> SUFFICES ASSUME SInit PROVE IInv
  OBVIOUS
<1>1. TypeOK
  BY DEF SInit, Init, TypeOK
<1>2. Waiting
  BY DEF SInit, Waiting
<1> QED BY <1>1, <1>2 DEF IInv

LEMMA StepsKeep ==
  IInv /\ [SNext]_svars => IInv'
<1> SUFFICES ASSUME IInv, [SNext]_svars PROVE IInv'
  OBVIOUS
<1> USE DEF IInv
<1>1. CASE UNCHANGED svars
  BY <1>1 DEF svars, TypeOK, Waiting
<1>2. CASE Continue
  <2>1. batch \in Seq(Wanted) /\ batch # <<>>
    BY <1>2 DEF Continue, Waiting
  <2>2. Head(batch) \in Wanted /\ Tail(batch) \in Seq(Wanted)
    BY <2>1
  <2>3. TypeOK'
    BY <1>2, <2>2, HandleKeeps DEF Continue, Wanted
  <2>4. Waiting'
    BY <1>2, <2>2 DEF Continue, Waiting
  <2> QED BY <2>3, <2>4
<1>3. ASSUME NEW l \in Lines, Refuse(l) PROVE IInv'
  BY <1>3 DEF Refuse, TypeOK, Waiting
<1>4. ASSUME NEW l \in Lines, Execute(l) PROVE IInv'
  <2> DEFINE cs == Understood[l].commands
  <2>1. cs \in Seq(Wanted) /\ cs # <<>>
    BY <1>4, UnderstoodType DEF Execute
  <2>2. Handle(Head(cs)) /\ batch' = Tail(cs)
    BY <1>4 DEF Execute
  <2> HIDE DEF cs
  <2>3. Head(cs) \in Wanted /\ Tail(cs) \in Seq(Wanted)
    BY <2>1
  <2>4. TypeOK'
    BY <2>2, <2>3, HandleKeeps DEF Wanted
  <2>5. Waiting'
    BY <2>2, <2>3 DEF Waiting
  <2> QED BY <2>4, <2>5
<1> QED BY <1>1, <1>2, <1>3, <1>4 DEF SNext

(***************************************************************************)
(* Whatever lines a client sends, in whatever order, every key holds a     *)
(* string, a list or a set, of values that were sent: no handler leaves an *)
(* object of another shape.                                                *)
(***************************************************************************)
THEOREM Typing == SSpec => []TypeOK
<1>1. SSpec => []IInv
  BY StartIsFine, StepsKeep, PTL DEF SSpec
<1>2. IInv => TypeOK
  BY DEF IInv
<1> QED BY <1>1, <1>2, PTL

-----------------------------------------------------------------------------
(* Pops give back what was pushed. *)
LEMMA TakenAll ==
  ASSUME NEW s \in Seq(Elem), NEW n \in 0 .. Len(s), n < SizeRange
  PROVE  Taken(s, n) = n
<1>1. SizeRange \in Nat \ {0}
  BY ValuesAssumption
<1>2. n % SizeRange = n
  BY <1>1, ModuloOfSmall
<1> QED BY <1>2 DEF Taken

LEMMA ReverseIs ==
  ASSUME NEW s \in Seq(Elem)
  PROVE  /\ Reverse(s) \in Seq(Elem) /\ Len(Reverse(s)) = Len(s)
         /\ \A i \in 1 .. Len(s) : Reverse(s)[i] = s[Len(s) + 1 - i]
<1>1. \A i \in 1 .. Len(s) : (Len(s) - i) + 1 \in 1 .. Len(s) /\ (Len(s) - i) + 1 = Len(s) + 1 - i
  OBVIOUS
<1> QED BY <1>1 DEF Reverse

(* Kept folded where sequences are only passed on. *)
PushedOnLeft(l, s, vals) ==
  /\ l \in Seq(Elem) /\ Len(l) = Len(vals) + Len(s)
  /\ \A i \in 1 .. Len(vals) : l[i] = vals[Len(vals) + 1 - i]
  /\ \A i \in 1 .. Len(s) : l[Len(vals) + i] = s[i]

PushedOnRight(r, s, vals) ==
  /\ r \in Seq(Elem) /\ Len(r) = Len(s) + Len(vals)
  /\ \A i \in 1 .. Len(s) : r[i] = s[i]
  /\ \A i \in 1 .. Len(vals) : r[Len(s) + i] = vals[i]

PoppedOnLeft(res, rest, l, n) ==
  /\ res \in Seq(Elem) /\ Len(res) = n
  /\ rest \in Seq(Elem) /\ Len(rest) = Len(l) - n
  /\ \A i \in 1 .. n : res[i] = l[i]
  /\ \A i \in 1 .. Len(l) - n : rest[i] = l[n + i]

PoppedOnRight(res, rest, r, n) ==
  /\ res \in Seq(Elem) /\ Len(res) = n
  /\ rest \in Seq(Elem) /\ Len(rest) = Len(r) - n
  /\ \A i \in 1 .. n : res[i] = r[Len(r) + 1 - i]
  /\ \A i \in 1 .. Len(r) - n : rest[i] = r[i]

LEMMA PopsOfSome ==
  ASSUME NEW s \in Seq(Elem), NEW n \in 0 .. Len(s), n < SizeRange
  PROVE  /\ PoppedOnLeft(PopLeft(s, n).res, PopLeft(s, n).rest, s, n)
         /\ PoppedOnRight(PopRight(s, n).res, PopRight(s, n).rest, s, n)
<1>1. Taken(s, n) = n /\ n \in Int
  BY TakenAll
<1>2. PoppedOnLeft(PopLeft(s, n).res, PopLeft(s, n).rest, s, n)
  BY <1>1, PopLeftIs DEF PoppedOnLeft
<1>3. PoppedOnRight(PopRight(s, n).res, PopRight(s, n).rest, s, n)
  BY <1>1, PopRightIs DEF PoppedOnRight
<1> QED BY <1>2, <1>3

LEMMA PushesAre ==
  ASSUME NEW s \in Seq(Elem), NEW vals \in Seq(Elem)
  PROVE  /\ PushedOnLeft(PushLeft(s, vals), s, vals)
         /\ PushedOnRight(PushRight(s, vals), s, vals)
<1>1. PushedOnLeft(PushLeft(s, vals), s, vals)
  BY PushLeftIs DEF PushedOnLeft
<1>2. PushedOnRight(PushRight(s, vals), s, vals)
  BY PushRightIs DEF PushedOnRight
<1> QED BY <1>1, <1>2

LEMMA LeftGivesBack ==
  ASSUME NEW s \in Seq(Elem), NEW vals \in Seq(Elem), NEW l, PushedOnLeft(l, s, vals),
         NEW res, NEW rest, PoppedOnLeft(res, rest, l, Len(vals))
  PROVE  res = Reverse(vals) /\ rest = s
<1> USE DEF PushedOnLeft, PoppedOnLeft
<1>1. res = Reverse(vals)
  <2>1. /\ Reverse(vals) \in Seq(Elem) /\ Len(Reverse(vals)) = Len(vals)
        /\ \A i \in 1 .. Len(vals) : Reverse(vals)[i] = vals[Len(vals) + 1 - i]
    BY ReverseIs
  <2>2. \A i \in 1 .. Len(res) : res[i] = Reverse(vals)[i]
    BY <2>1
  <2> QED BY <2>1, <2>2, SeqEqual
<1>2. rest = s
  <2>1. Len(rest) = Len(s) /\ \A i \in 1 .. Len(rest) : rest[i] = s[i]
    OBVIOUS
  <2> QED BY <2>1, SeqEqual
<1> QED BY <1>1, <1>2

LEMMA RightGivesBack ==
  ASSUME NEW s \in Seq(Elem), NEW vals \in Seq(Elem), NEW r, PushedOnRight(r, s, vals),
         NEW res, NEW rest, PoppedOnRight(res, rest, r, Len(vals))
  PROVE  res = Reverse(vals) /\ rest = s
<1> USE DEF PushedOnRight, PoppedOnRight
<1>1. res = Reverse(vals)
  <2>1. /\ Reverse(vals) \in Seq(Elem) /\ Len(Reverse(vals)) = Len(vals)
        /\ \A i \in 1 .. Len(vals) : Reverse(vals)[i] = vals[Len(vals) + 1 - i]
    BY ReverseIs
  <2>2. ASSUME NEW i \in 1 .. Len(res) PROVE res[i] = Reverse(vals)[i]
    <3>1. /\ Len(vals) + 1 - i \in 1 .. Len(vals)
          /\ Len(r) + 1 - i = Len(s) + (Len(vals) + 1 - i)
      OBVIOUS
    <3>2. r[Len(r) + 1 - i] = vals[Len(vals) + 1 - i]
      BY <3>1
    <3> QED BY <2>1, <3>2
  <2> QED BY <2>1, <2>2, SeqEqual
<1>2. rest = s
  <2>1. Len(rest) = Len(s) /\ \A i \in 1 .. Len(rest) : rest[i] = s[i]
    OBVIOUS
  <2> QED BY <2>1, SeqEqual
<1> QED BY <1>1, <1>2

LEMMA AllInOrder ==
  ASSUME NEW s \in Seq(Elem), NEW vals \in Seq(Elem), NEW r, PushedOnRight(r, s, vals),
         NEW res, NEW rest, PoppedOnLeft(res, rest, r, Len(s) + Len(vals))
  PROVE  res = s \o vals
<1> USE DEF PushedOnRight, PoppedOnLeft
<1>1. /\ s \o vals \in Seq(Elem) /\ Len(s \o vals) = Len(s) + Len(vals)
      /\ \A i \in 1 .. Len(s) + Len(vals) :
           (s \o vals)[i] = IF i <= Len(s) THEN s[i] ELSE vals[i - Len(s)]
  BY ConcatProperties
<1>2. ASSUME NEW i \in 1 .. Len(res) PROVE res[i] = (s \o vals)[i]
  <2>1. res[i] = r[i]
    OBVIOUS
  <2>2. CASE i <= Len(s)
    BY <1>1, <2>1, <2>2
  <2>3. CASE ~(i <= Len(s))
    <3>1. i - Len(s) \in 1 .. Len(vals) /\ Len(s) + (i - Len(s)) = i
      BY <2>3
    <3>2. r[i] = vals[i - Len(s)]
      BY <3>1
    <3> QED BY <1>1, <2>1, <2>3, <3>2
  <2> QED BY <2>2, <2>3
<1> QED BY <1>1, <1>2, SeqEqual

LEMMA Mirror ==
  ASSUME NEW s \in Seq(Elem), NEW vals \in Seq(Elem), Len(s) + Len(vals) < SizeRange
  PROVE  /\ PopLeft(PushLeft(s, vals), Len(vals))   = [res |-> Reverse(vals), rest |-> s]
         /\ PopRight(PushRight(s, vals), Len(vals)) = [res |-> Reverse(vals), rest |-> s]
         /\ PopLeft(PushRight(s, vals), Len(s) + Len(vals)).res = s \o vals
<1>1. ASSUME NEW l, PushedOnLeft(l, s, vals)
      PROVE  PopLeft(l, Len(vals)) = [res |-> Reverse(vals), rest |-> s]
  <2>1. l \in Seq(Elem) /\ Len(vals) \in 0 .. Len(l) /\ Len(vals) < SizeRange
    BY <1>1, ValuesAssumption DEF PushedOnLeft
  <2>2. PoppedOnLeft(PopLeft(l, Len(vals)).res, PopLeft(l, Len(vals)).rest, l, Len(vals))
    BY <2>1, PopsOfSome
  <2>3. PopLeft(l, Len(vals)).res = Reverse(vals) /\ PopLeft(l, Len(vals)).rest = s
    BY <1>1, <2>2, LeftGivesBack
  <2> QED BY <2>3 DEF PopLeft
<1>2. ASSUME NEW r, PushedOnRight(r, s, vals)
      PROVE  /\ PopRight(r, Len(vals)) = [res |-> Reverse(vals), rest |-> s]
             /\ PopLeft(r, Len(s) + Len(vals)).res = s \o vals
  <2>1. /\ r \in Seq(Elem) /\ Len(vals) \in 0 .. Len(r) /\ Len(vals) < SizeRange
        /\ Len(s) + Len(vals) \in 0 .. Len(r)
    BY <1>2, ValuesAssumption DEF PushedOnRight
  <2>2. PoppedOnRight(PopRight(r, Len(vals)).res, PopRight(r, Len(vals)).rest, r, Len(vals))
    BY <2>1, PopsOfSome
  <2>3. PopRight(r, Len(vals)).res = Reverse(vals) /\ PopRight(r, Len(vals)).rest = s
    BY <1>2, <2>2, RightGivesBack
  <2> DEFINE n == Len(s) + Len(vals)
  <2>4. PoppedOnLeft(PopLeft(r, n).res, PopLeft(r, n).rest, r, n)
    BY <2>1, PopsOfSome
  <2>5. PopLeft(r, n).res = s \o vals
    BY <1>2, <2>4, AllInOrder
  <2> QED BY <2>3, <2>5 DEF PopRight
<1> QED BY <1>1, <1>2, PushesAre

LEMMA ListsAre ==
  ASSUME TypeOK, NEW s \in Lists
  PROVE  s \in Seq(Elem) /\ Len(s) <= MaxLen
<1>1. MaxLen \in Nat
  BY ValuesAssumption
<1>2. CASE s = <<>>
  BY <1>1, <1>2
<1>3. CASE s # <<>>
  <2>1. PICK k \in Key : Is(k, "list") /\ s = db[k].values
    BY <1>3 DEF Lists
  <2> QED BY <2>1, Shapes
<1> QED BY <1>2, <1>3

(***************************************************************************)
(* In every state that a client's lines lead to, every list gives back     *)
(* what is pushed on either side (List.h: LeftPush, RightPush, LeftPop,    *)
(* RightPop), whatever the list and the values are.                        *)
(***************************************************************************)
THEOREM StacksAndQueues == SSpec => []PushesAndPopsMirror
<1>1. SSpec => []TypeOK
  BY Typing
<1>2. TypeOK => PushesAndPopsMirror
  <2> SUFFICES ASSUME TypeOK, NEW s \in Lists, NEW vals \in Args
               PROVE  /\ PopLeft(PushLeft(s, vals), Len(vals))   = [res |-> Reverse(vals), rest |-> s]
                      /\ PopRight(PushRight(s, vals), Len(vals)) = [res |-> Reverse(vals), rest |-> s]
                      /\ PopLeft(PushRight(s, vals), Len(s) + Len(vals)).res = s \o vals
    BY DEF PushesAndPopsMirror
  <2>1. s \in Seq(Elem) /\ vals \in Seq(Elem)
    BY ListsAre, ValuesAssumption
  <2>2. Len(s) + Len(vals) < SizeRange
    <3>1. Len(s) <= MaxLen /\ MaxLen < SizeRange \div 2 /\ Len(vals) < SizeRange \div 2
      BY ListsAre, ValuesAssumption
    <3>2. SizeRange \in Nat /\ MaxLen \in Nat /\ Len(s) \in Nat /\ Len(vals) \in Nat
      BY <2>1, ValuesAssumption
    <3>3. SizeRange \div 2 + SizeRange \div 2 <= SizeRange
      BY <3>2
    <3> QED BY <3>1, <3>2, <3>3
  <2> QED BY <2>1, <2>2, Mirror
<1> QED BY <1>1, <1>2, PTL

-----------------------------------------------------------------------------
(* Ranges of a list. *)
AtIndex(s, i) == IF i < 0 THEN i + Len(s) ELSE i

LEMMA RangeIs ==
  ASSUME NEW s \in Seq(Elem), NEW start \in Int, NEW stop \in Int
  PROVE  \E lo \in Nat, hi \in Int :
           /\ hi < Len(s)
           /\ \A i \in 0 .. Len(s) - 1 :
                AtIndex(s, start) <= i /\ i <= AtIndex(s, stop) <=> lo <= i /\ i <= hi
           /\ GetRange(s, start, stop) = IF lo <= hi THEN SubSeq(s, lo + 1, hi + 1) ELSE <<>>
<1> DEFINE size == Len(s)
           from == IF start < 0 THEN size + start ELSE start
           to   == IF stop < 0 THEN size + stop ELSE stop
           lo   == IF from < 0 THEN 0 ELSE from
           hi   == IF to >= size THEN size - 1 ELSE to
<1>1. size \in Nat /\ from \in Int /\ to \in Int
  OBVIOUS
<1>2. AtIndex(s, start) = from /\ AtIndex(s, stop) = to
  BY DEF AtIndex
<1>3. GetRange(s, start, stop) =
        IF size = 0 \/ lo > hi \/ lo >= size THEN <<>> ELSE SubSeq(s, lo + 1, hi + 1)
  BY DEF GetRange
<1> HIDE DEF size, from, to
<1>4. lo \in Nat /\ hi \in Int /\ hi < size
  BY <1>1
<1>5. \A i \in 0 .. size - 1 : from <= i /\ i <= to <=> lo <= i /\ i <= hi
  BY <1>1
<1>6. size = 0 \/ lo > hi \/ lo >= size <=> ~(lo <= hi)
  BY <1>1, <1>4
<1> HIDE DEF lo, hi
<1>7. GetRange(s, start, stop) = IF lo <= hi THEN SubSeq(s, lo + 1, hi + 1) ELSE <<>>
  BY <1>3, <1>6
<1> QED BY <1>2, <1>4, <1>5, <1>7 DEF size

LEMMA CountInterval ==
  ASSUME NEW lo \in Int, NEW hi \in Int
  PROVE  Cardinality(lo .. hi) = IF lo <= hi THEN hi - lo + 1 ELSE 0
  BY FS_Interval

IsSlice(range, s, wanted) ==
  /\ Len(range) = Cardinality(wanted)
  /\ \A i \in wanted : range[Cardinality({h \in wanted : h <= i})] = s[i + 1]

LEMMA SliceOf ==
  ASSUME NEW s \in Seq(Elem), NEW start \in Int, NEW stop \in Int, NEW wanted,
         wanted = {i \in 0 .. Len(s) - 1 :
                                 AtIndex(s, start) <= i /\ i <= AtIndex(s, stop)}
  PROVE  IsSlice(GetRange(s, start, stop), s, wanted)
<1> USE DEF IsSlice
<1>1. PICK lo \in Nat, hi \in Int :
        /\ hi < Len(s)
        /\ \A i \in 0 .. Len(s) - 1 :
             AtIndex(s, start) <= i /\ i <= AtIndex(s, stop) <=> lo <= i /\ i <= hi
        /\ GetRange(s, start, stop) = IF lo <= hi THEN SubSeq(s, lo + 1, hi + 1) ELSE <<>>
  BY RangeIs
<1>2. wanted = lo .. hi
  BY <1>1
<1>3. CASE ~(lo <= hi)
  <2>1. wanted = {} /\ GetRange(s, start, stop) = <<>>
    BY <1>1, <1>2, <1>3
  <2>2. Cardinality({}) = 0
    BY FS_EmptySet
  <2> QED BY <2>1, <2>2
<1>4. CASE lo <= hi
  <2>1. \A j \in lo + 1 .. hi + 1 : s[j] \in Elem
    BY <1>1
  <2>2. /\ Len(SubSeq(s, lo + 1, hi + 1)) = hi - lo + 1
        /\ \A j \in 1 .. hi - lo + 1 : SubSeq(s, lo + 1, hi + 1)[j] = s[lo + j]
    <3>1. lo + 1 \in Int /\ hi + 1 \in Int
      OBVIOUS
    <3> QED BY <1>4, <2>1, <3>1, SubSeqProperties
  <2>3. ASSUME NEW i \in wanted
        PROVE  SubSeq(s, lo + 1, hi + 1)[Cardinality({h \in wanted : h <= i})] = s[i + 1]
    <3>1. i \in Int /\ lo <= i /\ i <= hi
      BY <1>2
    <3>2. {h \in wanted : h <= i} = lo .. i
      BY <1>2, <3>1
    <3>3. Cardinality(lo .. i) = i - lo + 1
      BY <3>1, CountInterval
    <3>4. i - lo + 1 \in 1 .. hi - lo + 1 /\ lo + (i - lo + 1) = i + 1
      BY <3>1
    <3> QED BY <2>2, <3>2, <3>3, <3>4
  <2>4. Cardinality(wanted) = hi - lo + 1
    <3>1. Cardinality(lo .. hi) = hi - lo + 1
      BY <1>4, CountInterval
    <3> QED BY <1>2, <3>1
  <2> QED BY <1>1, <1>4, <2>2, <2>3, <2>4
<1> QED BY <1>3, <1>4

LEMMA IndexIsRange ==
  ASSUME NEW s \in Seq(Elem), NEW i \in Int
  PROVE  GetByIndex(s, i) = GetRange(s, i, i)
<1> DEFINE at == AtIndex(s, i)
<1>0. at \in Int /\ Len(s) \in Nat
  BY DEF AtIndex
<1>1. GetByIndex(s, i) = IF at < 0 \/ at >= Len(s) THEN <<>> ELSE <<s[at + 1]>>
  BY DEF GetByIndex, AtIndex
<1>2. PICK lo \in Nat, hi \in Int :
        /\ hi < Len(s)
        /\ \A j \in 0 .. Len(s) - 1 : at <= j /\ j <= at <=> lo <= j /\ j <= hi
        /\ GetRange(s, i, i) = IF lo <= hi THEN SubSeq(s, lo + 1, hi + 1) ELSE <<>>
  BY RangeIs
<1> HIDE DEF at
<1>3. CASE at < 0 \/ at >= Len(s)
  <2>1. ~(lo <= hi)
    <3>1. lo <= hi => lo \in 0 .. Len(s) - 1
      BY <1>0, <1>2
    <3> QED BY <1>0, <1>2, <1>3, <3>1
  <2> QED BY <1>1, <1>2, <1>3, <2>1
<1>4. CASE ~(at < 0 \/ at >= Len(s))
  <2>1. at \in 0 .. Len(s) - 1
    BY <1>0, <1>4
  <2>2. lo <= at /\ at <= hi
    BY <1>0, <1>2, <2>1
  <2>3. lo \in 0 .. Len(s) - 1 /\ hi \in 0 .. Len(s) - 1
    BY <1>0, <1>2, <2>1, <2>2
  <2>4. lo = at /\ hi = at
    BY <1>0, <1>2, <2>2, <2>3
  <2>5. SubSeq(s, at + 1, at + 1) = <<s[at + 1]>>
    <3>1. /\ SubSeq(s, at + 1, at + 1) \in Seq(Elem)
          /\ Len(SubSeq(s, at + 1, at + 1)) = 1
          /\ SubSeq(s, at + 1, at + 1)[1] = s[at + 1]
      <4>1. at + 1 \in Int /\ at + 1 - (at + 1) + 1 = 1 /\ at + 1 + 1 - 1 = at + 1
        BY <2>1
      <4>2. \A j \in at + 1 .. at + 1 : s[j] \in Elem
        BY <2>1
      <4> QED BY <4>1, <4>2, SubSeqProperties
    <3>2. \A q \in Seq(Elem) : Len(q) = 1 => q = <<q[1]>>
      OBVIOUS
    <3> QED BY <3>1, <3>2
  <2> QED BY <1>0, <1>1, <1>2, <1>4, <2>4, <2>5
<1> QED BY <1>3, <1>4

(***************************************************************************)
(* In every state, LRANGE and LINDEX answer for every list and every pair  *)
(* of indices with just the elements between (List.h: GetRange,            *)
(* GetByIndex), however far out of range the indices are.                  *)
(***************************************************************************)
THEOREM RangesAreSlices == SSpec => []RangeIsSlice
<1>1. SSpec => []TypeOK
  BY Typing
<1>2. TypeOK => RangeIsSlice
  <2> SUFFICES ASSUME TypeOK, NEW s \in Lists, NEW start \in Indices, NEW stop \in Indices
               PROVE  LET wanted == {i \in 0 .. Len(s) - 1 :
                                       AtIndex(s, start) <= i /\ i <= AtIndex(s, stop)}
                          range  == GetRange(s, start, stop)
                      IN /\ Len(range) = Cardinality(wanted)
                         /\ \A i \in wanted :
                              range[Cardinality({h \in wanted : h <= i})] = s[i + 1]
                         /\ GetByIndex(s, start) = GetRange(s, start, start)
    BY DEF RangeIsSlice, AtIndex
  <2>1. s \in Seq(Elem) /\ start \in Int /\ stop \in Int
    BY ListsAre, ValuesAssumption
  <2>2. GetByIndex(s, start) = GetRange(s, start, start)
    BY <2>1, IndexIsRange
  <2> DEFINE wanted == {i \in 0 .. Len(s) - 1 :
                          AtIndex(s, start) <= i /\ i <= AtIndex(s, stop)}
  <2>3. IsSlice(GetRange(s, start, stop), s, wanted)
    BY <2>1, SliceOf
  <2> QED BY <2>2, <2>3 DEF IsSlice
<1> QED BY <1>1, <1>2, PTL

-----------------------------------------------------------------------------
(***************************************************************************)
(* Whatever is stored, a SMOVE between two sets leaves the member in the   *)
(* destination alone and every other member where it was                   *)
(* (DaikonDB_Set.cpp: Smove, Set.h: MoveMember).                           *)
(***************************************************************************)
THEOREM MovesLoseNothing == SSpec => MovesKeepMembers
<1> DEFINE Kept(src, dst, e) ==
             /\ Members(src)' \cup Members(dst)' = Members(src) \cup Members(dst)
             /\ Members(src)' \cap Members(dst)' = (Members(src) \cap Members(dst)) \ {e}
           Moves == \A src, dst \in Key, e \in Elem :
                      src # dst /\ Is(src, "set") /\ Is(dst, "set") /\ Smove(src, dst, e)
                        => Kept(src, dst, e)
<1>1. SSpec => []TypeOK
  BY Typing
<1>2. TypeOK /\ [SNext]_svars => [Moves]_vars
  <2> SUFFICES ASSUME TypeOK, NEW src \in Key, NEW dst \in Key, NEW e \in Elem,
                      src # dst, Is(src, "set"), Is(dst, "set"), Smove(src, dst, e)
               PROVE  Kept(src, dst, e)
    BY DEF vars
  <2> DEFINE A == db[src].members
             B == db[dst].members
  <2>0. \/ UNCHANGED db /\ e \notin A
        \/ e \in A /\ db'[src] = Set(A \ {e}) /\ db'[dst] = Set(B \cup {e})
    BY SmoveIs
  <2>1. A = Members(src) /\ B = Members(dst)
    BY DEF Members
  <2>2. CASE UNCHANGED db
    <3>1. Members(src)' = A /\ Members(dst)' = B
      BY <2>2 DEF Members, Is
    <3>2. e \notin A
      <4>1. ASSUME db'[src] = Set(A \ {e}) PROVE e \notin A
        <5>1. db[src] = Set(A) /\ Set(A) = Set(A \ {e})
          BY <2>2, <4>1, Shapes
        <5>2. A = A \ {e}
          BY <5>1 DEF Set
        <5> QED BY <5>2
      <4> QED BY <2>0, <4>1
    <3> QED BY <2>1, <3>1, <3>2
  <2>3. CASE ~UNCHANGED db
    <3>1. e \in A /\ db'[src] = Set(A \ {e}) /\ db'[dst] = Set(B \cup {e})
      BY <2>0, <2>3
    <3>2. Set(A \ {e}) # Absent /\ Set(B \cup {e}) # Absent
      <4>1. A \in SUBSET Elem /\ B \in SUBSET Elem
        BY Shapes
      <4>2. Set(A \ {e}) \in Object /\ Set(B \cup {e}) \in Object
        <5>1. A \ {e} \in SUBSET Elem /\ B \cup {e} \in SUBSET Elem
          BY <4>1
        <5> QED BY <5>1, Storable
      <4> QED BY <4>2, ValuesAssumption
    <3>3. Members(src)' = A \ {e} /\ Members(dst)' = B \cup {e}
      BY <3>1, <3>2 DEF Members, Is, Set
    <3> HIDE DEF A, B
    <3> QED BY <2>1, <3>1, <3>3
  <2> QED BY <2>2, <2>3
<1> QED BY <1>1, <1>2, PTL DEF SSpec, MovesKeepMembers

(* A command that did not end well. *)
LEMMA FailuresKeep ==
  ASSUME TypeOK, NEW c, c = Unknown \/ Fits(c), Handle(c), reply' # "ok"
  PROVE  UNCHANGED db
<1> DEFINE a == c.args
<1>1. CASE UNCHANGED db
  BY <1>1
<1>2. ASSUME NEW k, NEW type, Read(k, type) PROVE UNCHANGED db
  BY <1>2 DEF Read, OfOtherType, NotStored
<1>3. ASSUME NEW k, NEW v, SetString(k, v) \/ AppendString(k, v) PROVE UNCHANGED db
  BY <1>3 DEF SetString, AppendString, OfOtherType
<1>4. ASSUME NEW k, NEW vals, Lpush(k, vals) \/ Rpush(k, vals) PROVE UNCHANGED db
  BY <1>4 DEF Lpush, Rpush, Push, OfOtherType
<1>5. ASSUME NEW k, NEW count, Lpop(k, count) \/ Rpop(k, count) PROVE UNCHANGED db
  BY <1>5 DEF Lpop, Rpop, Popped, OfOtherType, NotStored
<1>6. ASSUME NEW k, NEW i, NEW v, Lset(k, i, v) PROVE UNCHANGED db
  BY <1>6 DEF Lset, OfOtherType, NotStored
<1>7. ASSUME NEW k \in Key, NEW before, NEW pivot, NEW v, Linsert(k, before, pivot, v)
      PROVE  UNCHANGED db
  <2>1. ASSUME Is(k, "list"), Put(k, List(db[k].values)) PROVE UNCHANGED db
    <3>1. db[k] = List(db[k].values) /\ db = [j \in Key |-> db[j]]
      BY <2>1, Shapes DEF TypeOK
    <3> QED BY <2>1, <3>1 DEF Put
  <2> QED BY <1>7, <2>1 DEF Linsert, OfOtherType, NotStored
<1>8. ASSUME NEW k, NEW elements, Sadd(k, elements) \/ Srem(k, elements) PROVE UNCHANGED db
  BY <1>8 DEF Sadd, Srem, OfOtherType, NotStored
<1>9. ASSUME NEW src, NEW dst, NEW e, Smove(src, dst, e) PROVE UNCHANGED db
  BY <1>9 DEF Smove
<1>10. ASSUME NEW keys, Del(keys) PROVE UNCHANGED db
  BY <1>10 DEF Del
<1>11. ASSUME Flushdb PROVE UNCHANGED db
  BY <1>11 DEF Flushdb
<1>12. ASSUME NEW answer, Combine(answer) PROVE UNCHANGED db
  BY <1>12 DEF Combine
<1>13. ASSUME c.name = "LINSERT" PROVE a[1] \in Key
  BY <1>13, ArgumentsFit DEF Unknown
<1> HIDE DEF a
<1> QED BY <1>1, <1>2, <1>3, <1>4, <1>5, <1>6, <1>7, <1>8, <1>9, <1>10, <1>11, <1>12, <1>13
        DEF Handle, a

(***************************************************************************)
(* Whatever is sent and stored, a command that answers with an error or    *)
(* nil has left the database as it was: no handler stops half-way          *)
(* (DaikonDB_String.cpp, _List.cpp, _Set.cpp, _Common.cpp).                *)
(***************************************************************************)
THEOREM FailuresAreWhole == SSpec => ErrorsChangeNothing
<1>1. SSpec => []IInv
  BY StartIsFine, StepsKeep, PTL DEF SSpec
<1>2. IInv /\ [SNext]_svars => [reply' # "ok" => UNCHANGED db]_svars
  <2> SUFFICES ASSUME IInv, SNext, reply' # "ok" PROVE UNCHANGED db
    BY DEF svars
  <2>1. CASE Continue
    <3>1. batch \in Seq(Wanted) /\ batch # <<>>
      BY <2>1 DEF Continue, IInv, Waiting
    <3>2. Head(batch) \in Wanted
      BY <3>1
    <3> QED BY <2>1, <3>2, FailuresKeep DEF Continue, Wanted, IInv
  <2>2. ASSUME NEW l \in Lines, Refuse(l) PROVE UNCHANGED db
    BY <2>2 DEF Refuse
  <2>3. ASSUME NEW l \in Lines, Execute(l) PROVE UNCHANGED db
    <3> DEFINE cs == Understood[l].commands
    <3>1. cs \in Seq(Wanted) /\ cs # <<>> /\ Handle(Head(cs))
      BY <2>3, UnderstoodType DEF Execute
    <3> HIDE DEF cs
    <3>2. Head(cs) \in Wanted
      BY <3>1
    <3> QED BY <3>1, <3>2, FailuresKeep DEF Wanted, IInv
  <2> QED BY <2>1, <2>2, <2>3 DEF SNext
<1> QED BY <1>1, <1>2, PTL DEF SSpec, ErrorsChangeNothing

-----------------------------------------------------------------------------
(* The sequence of a finite set has each of its elements once. *)
Each(s, S) == ToSet(s) = S /\ IsInjective(s)

LEMMA SetToSeqIs ==
  ASSUME NEW S, IsFiniteSet(S)
  PROVE  SetToSeq(S) \in Seq(S) /\ Each(SetToSeq(S), S)
<1> DEFINE n == Cardinality(S)
           s == SetToSeq(S)
<1>1. n \in Nat /\ ExistsBijection(1 .. n, S)
  BY FS_CardinalityType
<1>2. IsFiniteSet(1 .. n) /\ Cardinality(1 .. n) = n
  BY <1>1, FS_Interval
<1>3. \E f \in [1 .. n -> S] : IsInjective(f)
  BY <1>1 DEF ExistsBijection, Bijection, Injection
<1>4. s \in [1 .. n -> S] /\ IsInjective(s)
  BY <1>3 DEF SetToSeq
<1> HIDE DEF s
<1>5. s \in Surjection(1 .. n, S)
  <2>1. s \in Injection(1 .. n, S)
    BY <1>4 DEF Injection
  <2> QED BY <1>2, <2>1, FS_Injection
<1> HIDE DEF n
<1>6. ToSet(s) = S
  BY <1>4, <1>5 DEF ToSet, Surjection
<1>7. s \in Seq(S)
  BY <1>1, <1>4
<1> QED BY <1>4, <1>6, <1>7 DEF Each, s

LEMMA EachConcat ==
  ASSUME NEW E, NEW s \in Seq(E), NEW t \in Seq(E), NEW S, NEW T, Each(s, S), Each(t, T),
         S \cap T = {}
  PROVE  Each(s \o t, S \cup T)
<1> DEFINE u == s \o t
           m == Len(s)
           n == Len(t)
<1>1. /\ m \in Nat /\ n \in Nat /\ u \in Seq(E) /\ Len(u) = m + n
      /\ \A i \in 1 .. m : u[i] = s[i]
      /\ \A i \in m + 1 .. m + n : u[i] = t[i - m]
  OBVIOUS
<1>2. /\ DOMAIN s = 1 .. m /\ DOMAIN t = 1 .. n /\ DOMAIN u = 1 .. m + n
  BY <1>1
<1> HIDE DEF u, m, n
<1>3. ASSUME NEW i \in 1 .. m + n
      PROVE  i \in 1 .. m \/ (i \in m + 1 .. m + n /\ i - m \in 1 .. n)
  BY <1>1
<1>4. ASSUME NEW i \in 1 .. m PROVE u[i] \in S /\ i \in 1 .. m + n
  BY <1>1, <1>2 DEF Each, ToSet
<1>5. ASSUME NEW i \in 1 .. n PROVE t[i] \in T /\ i + m \in m + 1 .. m + n /\ (i + m) - m = i
  <2>1. t[i] \in T
    BY <1>2 DEF Each, ToSet
  <2>2. i + m \in m + 1 .. m + n /\ (i + m) - m = i
    BY <1>1
  <2> QED BY <2>1, <2>2
<1>6. ToSet(u) = S \cup T
  <2>1. ASSUME NEW x \in S PROVE \E i \in 1 .. m + n : u[i] = x
    <3>1. PICK i \in 1 .. m : s[i] = x
      BY <1>2 DEF Each, ToSet
    <3> QED BY <1>1, <1>4, <3>1
  <2>2. ASSUME NEW x \in T PROVE \E i \in 1 .. m + n : u[i] = x
    <3>1. PICK i \in 1 .. n : t[i] = x
      BY <1>2 DEF Each, ToSet
    <3>2. i + m \in m + 1 .. m + n /\ (i + m) - m = i
      BY <1>5
    <3>3. u[i + m] = x
      BY <1>1, <3>1, <3>2
    <3>4. i + m \in 1 .. m + n
      BY <1>1, <3>2
    <3> QED BY <3>3, <3>4
  <2>3. ASSUME NEW i \in 1 .. m + n PROVE u[i] \in S \cup T
    <3>1. CASE i \in 1 .. m
      BY <1>4, <3>1
    <3>2. CASE i \in m + 1 .. m + n /\ i - m \in 1 .. n
      BY <1>1, <1>5, <3>2
    <3> QED BY <1>3, <3>1, <3>2
  <2> QED BY <1>2, <2>1, <2>2, <2>3 DEF ToSet
<1>7. ASSUME NEW i \in 1 .. m + n, NEW j \in 1 .. m + n, u[i] = u[j] PROVE i = j
  <2>1. CASE i \in 1 .. m /\ j \in 1 .. m
    BY <1>1, <1>2, <1>7, <2>1 DEF Each, IsInjective
  <2>2. CASE i \in m + 1 .. m + n /\ j \in m + 1 .. m + n
    <3>1. i - m \in 1 .. n /\ j - m \in 1 .. n
      BY <1>1, <2>2
    <3>2. t[i - m] = t[j - m]
      BY <1>1, <1>7, <2>2
    <3>3. i - m = j - m
      BY <1>2, <3>1, <3>2 DEF Each, IsInjective
    <3> QED BY <1>1, <3>3
  <2>3. ASSUME NEW x \in 1 .. m, NEW y \in m + 1 .. m + n PROVE u[x] # u[y]
    <3>1. y - m \in 1 .. n
      BY <1>1
    <3>2. u[x] \in S /\ u[y] \in T
      BY <1>1, <1>4, <1>5, <3>1
    <3> QED BY <3>2
  <2> QED BY <1>3, <1>7, <2>1, <2>2, <2>3
<1> QED BY <1>2, <1>6, <1>7 DEF Each, IsInjective, u

(* SUNION walks the sets one after the other. *)
FiniteSubsets == {S \in SUBSET Elem : IsFiniteSet(S)}

Joined(sets, g, T) ==
  IF T = {} THEN <<>>
  ELSE g[T \ {Max(T)}] \o SetToSeq(sets[Max(T)] \ ToSet(g[T \ {Max(T)}]))

JoinOf(sets) == CHOOSE g : g = [T \in SUBSET DOMAIN sets |-> Joined(sets, g, T)]

LEMMA UnionIsFold ==
  ASSUME NEW sets
  PROVE  UnionSets(sets) = JoinOf(sets)[DOMAIN sets]
  BY DEF UnionSets, FoldLeft, MapThenFoldSet, JoinOf, Joined

LEMMA RestOfSet ==
  ASSUME NEW S \in FiniteSubsets, NEW R
  PROVE  IsFiniteSet(S \ R) /\ SetToSeq(S \ R) \in Seq(Elem) /\ Each(SetToSeq(S \ R), S \ R)
<1>1. IsFiniteSet(S) /\ S \ R \in SUBSET S
  BY DEF FiniteSubsets
<1>2. IsFiniteSet(S \ R)
  BY <1>1, FS_Subset
<1>3. SetToSeq(S \ R) \in Seq(S \ R) /\ Each(SetToSeq(S \ R), S \ R)
  BY <1>2, SetToSeqIs
<1>4. S \ R \subseteq Elem
  BY DEF FiniteSubsets
<1> DEFINE u == SetToSeq(S \ R)
<1> HIDE DEF u
<1>5. u \in Seq(S \ R) => u \in Seq(Elem)
  BY <1>4
<1> QED BY <1>2, <1>3, <1>5 DEF u

LEMMA JoinExists ==
  ASSUME NEW sets \in Seq(FiniteSubsets)
  PROVE  JoinOf(sets) = [T \in SUBSET DOMAIN sets |-> Joined(sets, JoinOf(sets), T)]
<1> DEFINE V == Seq(Elem)
           step == [t \in V |-> [S \in FiniteSubsets |-> t \o SetToSeq(S \ ToSet(t))]]
           D == SUBSET DOMAIN sets
<1>1. <<>> \in V
  OBVIOUS
<1>2. \A t \in V, S \in FiniteSubsets : step[t][S] = t \o SetToSeq(S \ ToSet(t))
  OBVIOUS
<1>3. step \in [V -> [FiniteSubsets -> V]]
  <2>1. ASSUME NEW t \in V, NEW S \in FiniteSubsets PROVE t \o SetToSeq(S \ ToSet(t)) \in V
    <3>1. SetToSeq(S \ ToSet(t)) \in V
      BY RestOfSet
    <3> DEFINE u == SetToSeq(S \ ToSet(t))
    <3> HIDE DEF u
    <3>2. u \in V => t \o u \in V
      OBVIOUS
    <3> QED BY <3>1, <3>2 DEF u
  <2> HIDE DEF V
  <2> QED BY <2>1
<1>4. ASSUME NEW T \in D, T # {}
      PROVE  sets[Max(T)] \in FiniteSubsets /\ T \ {Max(T)} \in D
  <2>1. DOMAIN sets = 1 .. Len(sets) /\ Len(sets) \in Nat
    OBVIOUS
  <2>2. Max(T) \in 1 .. Len(sets)
    BY <1>4, <2>1, MaxIsMember
  <2> QED BY <2>2
<1> HIDE DEF step, V
<1>5. PICK g : IsFold(g, V, <<>>, sets, step)
  BY <1>1, <1>3, FoldExists
<1>6. ASSUME NEW T \in D PROVE g[T] = Joined(sets, g, T)
  <2>1. CASE T = {}
    BY <1>5, <2>1 DEF IsFold, Joined
  <2>2. CASE T # {}
    <3>1. g[T \ {Max(T)}] \in V /\ sets[Max(T)] \in FiniteSubsets
      BY <1>4, <1>5, <2>2 DEF IsFold
    <3>2. g[T] = step[g[T \ {Max(T)}]][sets[Max(T)]]
      BY <1>5, <2>2 DEF IsFold
    <3> QED BY <1>2, <2>2, <3>1, <3>2 DEF Joined
  <2> QED BY <2>1, <2>2
<1>7. g = [T \in D |-> g[T]]
  BY <1>5 DEF IsFold
<1>8. g = [T \in D |-> Joined(sets, g, T)]
  <2> HIDE DEF D
  <2> QED BY <1>6, <1>7
<1> QED BY <1>8 DEF JoinOf

(* What is found of the first sets. *)
Among(sets, k) == UNION {sets[j] : j \in 1 .. k}

LEMMA UnionIs ==
  ASSUME NEW sets \in Seq(FiniteSubsets)
  PROVE  Each(UnionSets(sets), Among(sets, Len(sets)))
<1> DEFINE g == JoinOf(sets)
           n == Len(sets)
           G == {k \in Nat : k <= n => g[1 .. k] \in Seq(Elem) /\ Each(g[1 .. k], Among(sets, k))}
<1>0. n \in Nat /\ DOMAIN sets = 1 .. n /\ \A i \in 1 .. n : sets[i] \in FiniteSubsets
  OBVIOUS
<1>1. \A T \in SUBSET (1 .. n) : g[T] = Joined(sets, g, T)
  <2>1. g = [T \in SUBSET DOMAIN sets |-> Joined(sets, g, T)]
    BY JoinExists
  <2> HIDE DEF g, n
  <2> QED BY <1>0, <2>1
<1> HIDE DEF g, n
<1>2. 0 \in G
  <2>1. 1 .. 0 = {} /\ {} \in SUBSET (1 .. n)
    OBVIOUS
  <2>2. g[1 .. 0] = <<>>
    BY <1>1, <2>1 DEF Joined
  <2>3. Among(sets, 0) = {}
    BY <2>1 DEF Among
  <2>4. Each(<<>>, {})
    BY DEF Each, ToSet, IsInjective
  <2>5. <<>> \in Seq(Elem)
    OBVIOUS
  <2>6. g[1 .. 0] \in Seq(Elem) /\ Each(g[1 .. 0], Among(sets, 0))
    BY <2>2, <2>3, <2>4, <2>5, Zenon
  <2> QED BY <2>6
<1>3. ASSUME NEW k \in Nat, k \in G PROVE k + 1 \in G
  <2> SUFFICES ASSUME k + 1 <= n
               PROVE  g[1 .. k + 1] \in Seq(Elem) /\ Each(g[1 .. k + 1], Among(sets, k + 1))
    OBVIOUS
  <2> DEFINE t == g[1 .. k]
             S == sets[k + 1]
             u == SetToSeq(S \ ToSet(t))
  <2>0. k <= n /\ k + 1 \in 1 .. n /\ 1 .. k + 1 \in SUBSET (1 .. n)
    BY <1>0
  <2>1. t \in Seq(Elem) /\ Each(t, Among(sets, k))
    BY <1>3, <2>0
  <2>2. g[1 .. k + 1] = t \o u
    <3>1. g[1 .. k + 1] = Joined(sets, g, 1 .. k + 1)
      BY <1>1, <2>0
    <3> QED BY <3>1, MaxOfFirst DEF Joined
  <2>3. u \in Seq(Elem) /\ Each(u, S \ ToSet(t))
    BY <1>0, <2>0, RestOfSet
  <2>4. ToSet(t) = Among(sets, k)
    BY <2>1 DEF Each
  <2> HIDE DEF t, u, G
  <2>5. Each(t \o u, Among(sets, k) \cup (S \ ToSet(t)))
    <3>1. Among(sets, k) \cap (S \ ToSet(t)) = {}
      BY <2>4
    <3> QED BY <2>1, <2>3, <3>1, EachConcat
  <2>6. Among(sets, k) \cup (S \ ToSet(t)) = Among(sets, k + 1)
    <3>1. 1 .. k + 1 = (1 .. k) \cup {k + 1}
      OBVIOUS
    <3>2. Among(sets, k + 1) = Among(sets, k) \cup S
      BY <3>1 DEF Among
    <3> QED BY <2>4, <3>2
  <2>7. t \o u \in Seq(Elem)
    BY <2>1, <2>3
  <2> QED BY <2>2, <2>5, <2>6, <2>7
<1> HIDE DEF G
<1>4. n \in G
  BY <1>0, <1>2, <1>3, NaturalsBySuccessor
<1>5. UnionSets(sets) = g[1 .. n]
  BY <1>0, UnionIsFold DEF g
<1> QED BY <1>0, <1>4, <1>5 DEF G, n

(* The sets under the keys, in the order of the keys; those after the first
   key come after its set, if it has one. *)
Gathered(keys, g, T) ==
  IF T = {} THEN <<>>
  ELSE IF Is(keys[Max(T)], "set") THEN Append(g[T \ {Max(T)}], db[keys[Max(T)]].members)
  ELSE g[T \ {Max(T)}]

GatheringOf(keys) == CHOOSE g : g = [T \in SUBSET DOMAIN keys |-> Gathered(keys, g, T)]

FiniteMembers == \A k \in Key : Is(k, "set") => db[k].members \in FiniteSubsets

Gathers(sets, keys, k) ==
  /\ sets \in Seq(FiniteSubsets)
  /\ \A i \in 1 .. k : Is(keys[i], "set") =>
       \E j \in 1 .. Len(sets) : /\ sets[j] = db[keys[i]].members
                                 /\ i > 1 /\ Is(keys[1], "set") => j > 1
  /\ \A j \in 1 .. Len(sets) :
       \E i \in 1 .. k : Is(keys[i], "set") /\ sets[j] = db[keys[i]].members /\ (j > 1 => i > 1)
  /\ k >= 1 /\ Is(keys[1], "set") => Len(sets) >= 1 /\ sets[1] = db[keys[1]].members

LEMMA SetsOfIsFold ==
  ASSUME NEW keys
  PROVE  SetsOf(keys) = GatheringOf(keys)[DOMAIN keys]
  BY DEF SetsOf, FoldLeft, MapThenFoldSet, GatheringOf, Gathered

LEMMA GatheringExists ==
  ASSUME FiniteMembers, NEW keys \in Seq(Key)
  PROVE  GatheringOf(keys) = [T \in SUBSET DOMAIN keys |-> Gathered(keys, GatheringOf(keys), T)]
<1> DEFINE V == Seq(FiniteSubsets)
           step == [t \in V |-> [k \in Key |-> IF Is(k, "set") THEN Append(t, db[k].members) ELSE t]]
           D == SUBSET DOMAIN keys
<1>1. <<>> \in V
  OBVIOUS
<1>2. \A t \in V, k \in Key :
        step[t][k] = IF Is(k, "set") THEN Append(t, db[k].members) ELSE t
  OBVIOUS
<1>3. step \in [V -> [Key -> V]]
  <2>1. ASSUME NEW t \in V, NEW k \in Key
        PROVE  (IF Is(k, "set") THEN Append(t, db[k].members) ELSE t) \in V
    <3>1. Is(k, "set") => db[k].members \in FiniteSubsets
      BY DEF FiniteMembers
    <3>2. \A S \in FiniteSubsets : Append(t, S) \in V
      OBVIOUS
    <3> QED BY <3>1, <3>2
  <2> HIDE DEF V
  <2> QED BY <2>1
<1>4. ASSUME NEW T \in D, T # {}
      PROVE  keys[Max(T)] \in Key /\ T \ {Max(T)} \in D
  <2>1. DOMAIN keys = 1 .. Len(keys) /\ Len(keys) \in Nat
    OBVIOUS
  <2>2. Max(T) \in 1 .. Len(keys)
    BY <1>4, <2>1, MaxIsMember
  <2> QED BY <2>2
<1> HIDE DEF step, V
<1>5. PICK g : IsFold(g, V, <<>>, keys, step)
  BY <1>1, <1>3, FoldExists
<1>6. ASSUME NEW T \in D PROVE g[T] = Gathered(keys, g, T)
  <2>1. CASE T = {}
    BY <1>5, <2>1 DEF IsFold, Gathered
  <2>2. CASE T # {}
    <3>1. g[T \ {Max(T)}] \in V /\ keys[Max(T)] \in Key
      BY <1>4, <1>5, <2>2 DEF IsFold
    <3>2. g[T] = step[g[T \ {Max(T)}]][keys[Max(T)]]
      BY <1>5, <2>2 DEF IsFold
    <3> QED BY <1>2, <2>2, <3>1, <3>2 DEF Gathered
  <2> QED BY <2>1, <2>2
<1>7. g = [T \in D |-> g[T]]
  BY <1>5 DEF IsFold
<1>8. g = [T \in D |-> Gathered(keys, g, T)]
  <2> HIDE DEF D
  <2> QED BY <1>6, <1>7
<1> QED BY <1>8 DEF GatheringOf

LEMMA GathersNext ==
  ASSUME FiniteMembers, NEW keys \in Seq(Key), NEW k \in Nat, k + 1 <= Len(keys),
         NEW t, Gathers(t, keys, k)
  PROVE  Gathers(IF Is(keys[k + 1], "set") THEN Append(t, db[keys[k + 1]].members) ELSE t,
                 keys, k + 1)
<1>0. keys[k + 1] \in Key /\ Len(keys) \in Nat
  OBVIOUS
<1>1. t \in Seq(FiniteSubsets) /\ Len(t) \in Nat
  BY DEF Gathers
<1>2. \A i \in 1 .. k + 1 : i \in 1 .. k \/ i = k + 1
  OBVIOUS
<1>3. \A i \in 1 .. k : i \in 1 .. k + 1
  OBVIOUS
<1>4. CASE ~Is(keys[k + 1], "set")
  <2>1. \A i \in 1 .. k + 1 : Is(keys[i], "set") => i \in 1 .. k
    BY <1>2, <1>4
  <2>2. Is(keys[1], "set") => k >= 1
    <3>1. k = 0 \/ k >= 1
      OBVIOUS
    <3> QED BY <1>4, <3>1
  <2>3. Gathers(t, keys, k + 1)
    BY <1>3, <2>1, <2>2 DEF Gathers
  <2> QED BY <1>4, <2>3
<1>5. CASE Is(keys[k + 1], "set")
  <2> DEFINE S == db[keys[k + 1]].members
             u == Append(t, S)
             n == Len(t)
  <2>1. S \in FiniteSubsets
    BY <1>0, <1>5 DEF FiniteMembers
  <2>2. /\ u \in Seq(FiniteSubsets) /\ Len(u) = n + 1 /\ u[n + 1] = S
        /\ \A j \in 1 .. n : u[j] = t[j]
    BY <1>1, <2>1
  <2>3. n \in Nat
    BY <1>1
  <2>4. n >= 1 => k >= 1
    <3>1. n >= 1 => 1 \in 1 .. n
      BY <2>3
    <3> QED BY <3>1 DEF Gathers
  <2>5. k >= 1 /\ Is(keys[1], "set") => n >= 1 /\ t[1] = db[keys[1]].members
    BY DEF Gathers
  <2> HIDE DEF u, n
  <2>6. ASSUME NEW i \in 1 .. k + 1, Is(keys[i], "set")
        PROVE  \E j \in 1 .. n + 1 : /\ u[j] = db[keys[i]].members
                                     /\ i > 1 /\ Is(keys[1], "set") => j > 1
    <3>1. CASE i \in 1 .. k
      <4>1. PICK j \in 1 .. n : /\ t[j] = db[keys[i]].members
                                /\ i > 1 /\ Is(keys[1], "set") => j > 1
        BY <2>6, <3>1 DEF Gathers, n
      <4>2. j \in 1 .. n + 1
        BY <2>3
      <4> QED BY <2>2, <4>1, <4>2
    <3>2. CASE i = k + 1
      <4>1. n + 1 \in 1 .. n + 1
        BY <2>3
      <4>2. i > 1 /\ Is(keys[1], "set") => n + 1 > 1
        BY <2>3, <2>5, <3>2
      <4> QED BY <2>2, <3>2, <4>1, <4>2
    <3> QED BY <1>2, <3>1, <3>2
  <2>7. ASSUME NEW j \in 1 .. n + 1
        PROVE  \E i \in 1 .. k + 1 : /\ Is(keys[i], "set") /\ u[j] = db[keys[i]].members
                                     /\ j > 1 => i > 1
    <3>1. CASE j \in 1 .. n
      <4>1. PICK i \in 1 .. k : /\ Is(keys[i], "set") /\ t[j] = db[keys[i]].members
                                /\ j > 1 => i > 1
        BY <3>1 DEF Gathers, n
      <4> QED BY <1>3, <2>2, <3>1, <4>1
    <3>2. CASE j = n + 1
      <4>1. k + 1 \in 1 .. k + 1
        OBVIOUS
      <4>2. j > 1 => k + 1 > 1
        BY <2>3, <2>4, <3>2
      <4> QED BY <1>5, <2>2, <3>2, <4>1, <4>2
    <3> QED BY <2>3, <3>1, <3>2
  <2>8. Is(keys[1], "set") => n + 1 >= 1 /\ u[1] = db[keys[1]].members
    <3> SUFFICES ASSUME Is(keys[1], "set") PROVE n + 1 >= 1 /\ u[1] = db[keys[1]].members
      OBVIOUS
    <3>1. CASE k >= 1
      BY <2>2, <2>3, <2>5, <3>1
    <3>2. CASE k = 0
      <4>1. n = 0
        BY <2>3, <2>4, <3>2
      <4> QED BY <2>2, <3>2, <4>1
    <3> QED BY <3>1, <3>2
  <2>9. Gathers(u, keys, k + 1)
    BY <2>2, <2>6, <2>7, <2>8 DEF Gathers
  <2> QED BY <1>5, <2>9 DEF u
<1> QED BY <1>4, <1>5

LEMMA SetsOfIs ==
  ASSUME FiniteMembers, NEW keys \in Seq(Key)
  PROVE  Gathers(SetsOf(keys), keys, Len(keys))
<1> DEFINE g == GatheringOf(keys)
           n == Len(keys)
           G == {k \in Nat : k <= n => Gathers(g[1 .. k], keys, k)}
<1>0. n \in Nat /\ DOMAIN keys = 1 .. n
  OBVIOUS
<1>1. \A T \in SUBSET (1 .. n) : g[T] = Gathered(keys, g, T)
  <2>1. g = [T \in SUBSET DOMAIN keys |-> Gathered(keys, g, T)]
    BY GatheringExists
  <2> HIDE DEF g, n
  <2> QED BY <1>0, <2>1
<1> HIDE DEF g
<1>2. 0 \in G
  <2>1. 1 .. 0 = {} /\ {} \in SUBSET (1 .. n)
    OBVIOUS
  <2>2. g[1 .. 0] = <<>>
    BY <1>1, <2>1 DEF Gathered
  <2>3. Gathers(<<>>, keys, 0)
    BY DEF Gathers
  <2>4. Gathers(g[1 .. 0], keys, 0)
    BY <2>2, <2>3
  <2> QED BY <2>4
<1>3. ASSUME NEW k \in Nat, k \in G PROVE k + 1 \in G
  <2> SUFFICES ASSUME k + 1 <= n PROVE Gathers(g[1 .. k + 1], keys, k + 1)
    OBVIOUS
  <2>0. k <= n /\ 1 .. k + 1 \in SUBSET (1 .. n)
    BY <1>0
  <2>1. Gathers(g[1 .. k], keys, k)
    BY <1>3, <2>0
  <2>2. g[1 .. k + 1] = IF Is(keys[k + 1], "set") THEN Append(g[1 .. k], db[keys[k + 1]].members)
                        ELSE g[1 .. k]
    <3>1. g[1 .. k + 1] = Gathered(keys, g, 1 .. k + 1)
      BY <1>1, <2>0
    <3> QED BY <3>1, MaxOfFirst DEF Gathered
  <2> HIDE DEF G
  <2> QED BY <2>1, <2>2, GathersNext
<1> HIDE DEF G, n
<1>4. n \in G
  BY <1>0, <1>2, <1>3, NaturalsBySuccessor
<1>5. SetsOf(keys) = g[1 .. n]
  BY <1>0, SetsOfIsFold DEF g
<1> QED BY <1>0, <1>4, <1>5 DEF G, n

(* The first key that is missing, or has no set. *)
LEMMA FirstsAre ==
  ASSUME NEW keys \in Seq(Key)
  PROVE  /\ FirstWrong(keys) # 0
              <=> \E i \in 1 .. Len(keys) : db[keys[i]] # Absent /\ ~Is(keys[i], "set")
         /\ FirstMissing(keys) # 0 <=> \E i \in 1 .. Len(keys) : db[keys[i]] = Absent
         /\ FirstMissing(keys) = 1 <=> keys # <<>> /\ db[keys[1]] = Absent
<1> DEFINE W == {i \in 1 .. Len(keys) : db[keys[i]] # Absent /\ ~Is(keys[i], "set")}
           M == {i \in 1 .. Len(keys) : db[keys[i]] = Absent}
<1>1. /\ FirstWrong(keys) = IF W # {} THEN Min(W) ELSE 0
      /\ FirstMissing(keys) = IF M # {} THEN Min(M) ELSE 0
  BY DEF FirstWrong, FirstMissing, SelectInSeq
<1>2. Len(keys) \in Nat
  OBVIOUS
<1>3. W # {} => Min(W) \in W /\ Min(W) # 0
  <2>1. W \in SUBSET Nat /\ 0 \notin W
    BY <1>2
  <2> HIDE DEF W
  <2> QED BY <2>1, MinIsMember
<1>4. M # {} => Min(M) \in M /\ Min(M) # 0 /\ \A i \in M : Min(M) <= i
  <2>1. M \in SUBSET Nat /\ 0 \notin M
    BY <1>2
  <2> HIDE DEF M
  <2> QED BY <2>1, MinIsMember
<1>5. FirstWrong(keys) # 0 <=> W # {}
  BY <1>1, <1>3
<1>6. FirstMissing(keys) # 0 <=> M # {}
  BY <1>1, <1>4
<1>7. FirstMissing(keys) = 1 <=> 1 \in M
  <2>1. 1 \in M => FirstMissing(keys) = 1
    <3> SUFFICES ASSUME 1 \in M PROVE FirstMissing(keys) = 1
      OBVIOUS
    <3>1. Min(M) \in M /\ Min(M) <= 1
      BY <1>4
    <3>2. Min(M) \in 1 .. Len(keys)
      BY <3>1
    <3>3. FirstMissing(keys) = Min(M)
      BY <1>1
    <3> HIDE DEF M
    <3> QED BY <1>2, <3>1, <3>2, <3>3
  <2>2. FirstMissing(keys) = 1 => 1 \in M
    <3> HIDE DEF M
    <3> QED BY <1>1, <1>4
  <2> QED BY <2>1, <2>2
<1>8. 1 \in 1 .. Len(keys) <=> keys # <<>>
  OBVIOUS
<1> QED BY <1>5, <1>6, <1>7, <1>8

LEMMA MembersIs ==
  ASSUME NEW k
  PROVE  /\ Is(k, "set") => Members(k) = db[k].members
         /\ ~Is(k, "set") => Members(k) = {}
         /\ db[k] = Absent => ~Is(k, "set")
  BY DEF Members, Is

(* Keys that have sets, or nothing. *)
LEMMA UnionOfKeys ==
  ASSUME FiniteMembers, NEW keys \in Seq(Key)
  PROVE  Each(UnionSets(SetsOf(keys)), UNION {Members(k) : k \in ToSet(keys)})
<1> DEFINE sets == SetsOf(keys)
           n == Len(keys)
<1>1. Gathers(sets, keys, n) /\ DOMAIN keys = 1 .. n
  BY SetsOfIs
<1> HIDE DEF sets, n
<1>2. sets \in Seq(FiniteSubsets)
  BY <1>1 DEF Gathers
<1>3. Among(sets, Len(sets)) = UNION {Members(k) : k \in ToSet(keys)}
  <2>1. ASSUME NEW j \in 1 .. Len(sets) PROVE \E k \in ToSet(keys) : sets[j] = Members(k)
    <3>1. PICK i \in 1 .. n : Is(keys[i], "set") /\ sets[j] = db[keys[i]].members
      BY <1>1 DEF Gathers
    <3>2. keys[i] \in ToSet(keys) /\ sets[j] = Members(keys[i])
      BY <1>1, <3>1, MembersIs DEF ToSet
    <3> QED BY <3>2
  <2>2. ASSUME NEW k \in ToSet(keys), NEW x \in Members(k)
        PROVE  \E j \in 1 .. Len(sets) : x \in sets[j]
    <3>1. PICK i \in 1 .. n : keys[i] = k
      BY <1>1 DEF ToSet
    <3>2. Is(keys[i], "set") /\ x \in db[keys[i]].members
      BY <3>1, MembersIs
    <3> QED BY <1>1, <3>2 DEF Gathers
  <2> QED BY <2>1, <2>2 DEF Among
<1>4. Each(UnionSets(sets), Among(sets, Len(sets)))
  BY <1>2, UnionIs
<1> QED BY <1>3, <1>4 DEF sets

(* The first key has a set; the others may be missing. *)
LEMMA OthersOfKeys ==
  ASSUME FiniteMembers, NEW keys \in Seq(Key), keys # <<>>, Is(keys[1], "set")
  PROVE  LET sets == SetsOf(keys)
         IN /\ Len(sets) >= 1 /\ sets \in Seq(FiniteSubsets) /\ sets[1] = Members(keys[1])
            /\ \A x : (\A j \in 2 .. Len(sets) : x \notin sets[j])
                        <=> \A i \in 2 .. Len(keys) : x \notin Members(keys[i])
            /\ (\A i \in 1 .. Len(keys) : Is(keys[i], "set")) =>
                 \A x : (\A j \in 2 .. Len(sets) : x \in sets[j])
                          <=> \A i \in 2 .. Len(keys) : x \in Members(keys[i])
<1> DEFINE sets == SetsOf(keys)
           n == Len(keys)
<1>0. n \in Nat /\ n >= 1
  OBVIOUS
<1>1. Gathers(sets, keys, n)
  BY SetsOfIs
<1> HIDE DEF sets, n
<1>2. /\ sets \in Seq(FiniteSubsets) /\ Len(sets) >= 1 /\ sets[1] = Members(keys[1])
      /\ Len(sets) \in Nat
  <2>1. sets \in Seq(FiniteSubsets)
    BY <1>1 DEF Gathers
  <2>2. Len(sets) >= 1 /\ sets[1] = db[keys[1]].members
    BY <1>0, <1>1 DEF Gathers
  <2> QED BY <2>1, <2>2, MembersIs
<1>3. ASSUME NEW j \in 2 .. Len(sets)
      PROVE  \E i \in 2 .. n : Is(keys[i], "set") /\ sets[j] = Members(keys[i])
  <2>1. j \in 1 .. Len(sets) /\ j > 1
    BY <1>2
  <2>2. PICK i \in 1 .. n : Is(keys[i], "set") /\ sets[j] = db[keys[i]].members /\ i > 1
    BY <1>1, <2>1 DEF Gathers
  <2>3. i \in 2 .. n
    BY <1>0, <2>2
  <2> QED BY <2>2, <2>3, MembersIs
<1>4. ASSUME NEW i \in 2 .. n, Is(keys[i], "set")
      PROVE  \E j \in 2 .. Len(sets) : sets[j] = Members(keys[i])
  <2>1. i \in 1 .. n /\ i > 1
    BY <1>0
  <2>2. PICK j \in 1 .. Len(sets) : sets[j] = db[keys[i]].members /\ j > 1
    BY <1>1, <1>4, <2>1 DEF Gathers
  <2>3. j \in 2 .. Len(sets)
    BY <1>2, <2>2
  <2> QED BY <1>4, <2>2, <2>3, MembersIs
<1>5. ASSUME NEW i \in 2 .. n, ~Is(keys[i], "set") PROVE Members(keys[i]) = {}
  BY <1>5, MembersIs
<1>6. ASSUME NEW x
      PROVE  (\A j \in 2 .. Len(sets) : x \notin sets[j])
               <=> \A i \in 2 .. n : x \notin Members(keys[i])
  BY <1>3, <1>4, <1>5
<1>7. ASSUME \A i \in 1 .. n : Is(keys[i], "set"), NEW x
      PROVE  (\A j \in 2 .. Len(sets) : x \in sets[j])
               <=> \A i \in 2 .. n : x \in Members(keys[i])
  <2>1. \A i \in 2 .. n : Is(keys[i], "set")
    BY <1>0, <1>7
  <2> QED BY <1>3, <1>4, <2>1
<1> QED BY <1>2, <1>6, <1>7 DEF sets, n

(* What an answer has to be, with S as the set it is about. *)
Answered(answer, keys, S) ==
  IF answer.status = WrongType THEN FirstWrong(keys) # 0 ELSE Each(answer.values, S)

LEMMA AnswersAre ==
  ASSUME NEW keys, NEW S
  PROVE  /\ FirstWrong(keys) # 0 => Answered(TypeError, keys, S)
         /\ \A s : Each(s, S) => Answered(Elements(s), keys, S)
         /\ S = {} => Answered(Elements(<<>>), keys, S)
<1>1. S = {} => Each(<<>>, S)
  BY DEF Each, ToSet, IsInjective
<1> QED BY <1>1 DEF Answered, TypeError, Elements, WrongType

LEMMA UnionAnswers ==
  ASSUME FiniteMembers, NEW keys \in Seq(Key)
  PROVE  Answered(Sunion(keys), keys, UNION {Members(k) : k \in ToSet(keys)})
<1>1. CASE FirstWrong(keys) # 0
  BY <1>1, AnswersAre DEF Sunion
<1>2. CASE FirstWrong(keys) = 0
  <2>1. Sunion(keys) = Elements(UnionSets(SetsOf(keys)))
    BY <1>2 DEF Sunion
  <2> QED BY <2>1, UnionOfKeys, AnswersAre
<1> QED BY <1>1, <1>2

(* A key that has nothing leaves nothing in common. *)
LEMMA InterAnswers ==
  ASSUME FiniteMembers, NEW keys \in Seq(Key), keys # <<>>
  PROVE  LET all == UNION {Members(k) : k \in ToSet(keys)}
         IN Answered(Sinter(keys), keys, {e \in all : \A k \in ToSet(keys) : e \in Members(k)})
<1> DEFINE all == UNION {Members(k) : k \in ToSet(keys)}
           S == {e \in all : \A k \in ToSet(keys) : e \in Members(k)}
           sets == SetsOf(keys)
           n == Len(keys)
<1>0. n \in Nat /\ n >= 1 /\ DOMAIN keys = 1 .. n
  OBVIOUS
<1>1. ToSet(keys) = {keys[i] : i \in 1 .. n}
  BY <1>0 DEF ToSet
<1>2. S = {e \in Members(keys[1]) : \A i \in 2 .. n : e \in Members(keys[i])}
  <2>1. 1 \in 1 .. n /\ \A i \in 1 .. n : i = 1 \/ i \in 2 .. n
    BY <1>0
  <2>2. 2 .. n \subseteq 1 .. n
    BY <1>0
  <2> HIDE DEF n
  <2> QED BY <1>1, <2>1, <2>2
<1>3. CASE FirstWrong(keys) # 0 /\ Sinter(keys) = TypeError
  BY <1>3, AnswersAre
<1>4. CASE FirstMissing(keys) # 0 /\ Sinter(keys) = Elements(<<>>)
  <2>1. PICK i \in 1 .. n : db[keys[i]] = Absent
    BY <1>4, FirstsAre
  <2>2. keys[i] \in ToSet(keys) /\ Members(keys[i]) = {}
    BY <1>1, <2>1, MembersIs
  <2>3. S = {}
    BY <2>2
  <2> HIDE DEF S
  <2>4. Answered(Sinter(keys), keys, S)
    BY <1>4, <2>3, AnswersAre
  <2> QED BY <2>4 DEF S
<1>5. CASE FirstMissing(keys) = 0 /\ FirstWrong(keys) = 0 /\ Sinter(keys) = Elements(InterSets(sets))
  <2>1. \A i \in 1 .. n : Is(keys[i], "set")
    BY <1>5, FirstsAre
  <2>2. Is(keys[1], "set")
    BY <1>0, <2>1
  <2>3. /\ Len(sets) >= 1 /\ sets \in Seq(FiniteSubsets) /\ sets[1] = Members(keys[1])
        /\ \A x : (\A j \in 2 .. Len(sets) : x \in sets[j])
                     <=> \A i \in 2 .. n : x \in Members(keys[i])
    BY <2>1, <2>2, OthersOfKeys
  <2> HIDE DEF sets, n
  <2>4. S = {e \in sets[1] : \A j \in 2 .. Len(sets) : e \in sets[j]}
    BY <1>2, <2>3
  <2>5. IsFiniteSet(S)
    <3>1. sets[1] \in FiniteSubsets
      BY <2>3
    <3>2. S \subseteq sets[1] /\ IsFiniteSet(sets[1])
      BY <2>4, <3>1 DEF FiniteSubsets
    <3> HIDE DEF S
    <3> QED BY <3>2, FS_Subset
  <2>6. InterSets(sets) = SetToSeq(S)
    BY <2>4 DEF InterSets
  <2> HIDE DEF S
  <2>7. Each(InterSets(sets), S)
    BY <2>5, <2>6, SetToSeqIs
  <2>8. Answered(Sinter(keys), keys, S)
    BY <1>5, <2>7, AnswersAre
  <2> QED BY <2>8 DEF S
<1>6. \/ FirstWrong(keys) # 0 /\ Sinter(keys) = TypeError
      \/ FirstMissing(keys) # 0 /\ Sinter(keys) = Elements(<<>>)
      \/ FirstMissing(keys) = 0 /\ FirstWrong(keys) = 0 /\ Sinter(keys) = Elements(InterSets(sets))
  BY Zenon DEF Sinter
<1> QED BY <1>3, <1>4, <1>5, <1>6

(* The first key alone decides whether there is a difference at all. *)
LEMMA DiffAnswers ==
  ASSUME FiniteMembers, NEW keys \in Seq(Key), keys # <<>>
  PROVE  Answered(Sdiff(keys), keys,
                  Members(keys[1]) \ UNION {Members(k) : k \in ToSet(Tail(keys))})
<1> DEFINE S == Members(keys[1]) \ UNION {Members(k) : k \in ToSet(Tail(keys))}
           sets == SetsOf(keys)
           n == Len(keys)
<1>0. n \in Nat /\ n >= 1
  OBVIOUS
<1>1. ToSet(Tail(keys)) = {keys[i] : i \in 2 .. n}
  <2>1. Len(Tail(keys)) = n - 1 /\ DOMAIN Tail(keys) = 1 .. n - 1
    OBVIOUS
  <2>2. \A i \in 1 .. n - 1 : Tail(keys)[i] = keys[i + 1]
    OBVIOUS
  <2>3. \A i \in 1 .. n - 1 : i + 1 \in 2 .. n
    BY <1>0
  <2>4. \A i \in 2 .. n : i - 1 \in 1 .. n - 1 /\ (i - 1) + 1 = i
    BY <1>0
  <2>5. \A i \in 2 .. n : Tail(keys)[i - 1] = keys[i]
    <3>1. ASSUME NEW i \in 2 .. n PROVE Tail(keys)[i - 1] = keys[(i - 1) + 1]
      BY <2>2, <2>4
    <3> QED BY <2>4, <3>1
  <2> HIDE DEF n
  <2> QED BY <2>1, <2>2, <2>3, <2>4, <2>5, SMTT(30) DEF ToSet
<1>2. S = {e \in Members(keys[1]) : \A i \in 2 .. n : e \notin Members(keys[i])}
  <2> HIDE DEF n
  <2> QED BY <1>1
<1>3. CASE FirstWrong(keys) # 0 /\ Sdiff(keys) = TypeError
  BY <1>3, AnswersAre
<1>4. CASE FirstMissing(keys) = 1 /\ Sdiff(keys) = Elements(<<>>)
  <2>1. db[keys[1]] = Absent
    BY <1>4, FirstsAre
  <2>2. Members(keys[1]) = {}
    BY <2>1, MembersIs
  <2>3. S = {}
    BY <2>2
  <2> HIDE DEF S
  <2>4. Answered(Sdiff(keys), keys, S)
    BY <1>4, <2>3, AnswersAre
  <2> QED BY <2>4 DEF S
<1>5. CASE FirstMissing(keys) # 1 /\ FirstWrong(keys) = 0 /\ Sdiff(keys) = Elements(DiffSets(sets))
  <2>1. 1 \in 1 .. n
    BY <1>0
  <2>2. Is(keys[1], "set")
    BY <1>5, <2>1, FirstsAre
  <2>3. /\ Len(sets) >= 1 /\ sets \in Seq(FiniteSubsets) /\ sets[1] = Members(keys[1])
        /\ \A x : (\A j \in 2 .. Len(sets) : x \notin sets[j])
                     <=> \A i \in 2 .. n : x \notin Members(keys[i])
    BY <2>2, OthersOfKeys
  <2> HIDE DEF sets, n
  <2>4. S = {e \in sets[1] : \A j \in 2 .. Len(sets) : e \notin sets[j]}
    BY <1>2, <2>3
  <2>5. IsFiniteSet(S)
    <3>1. sets[1] \in FiniteSubsets
      BY <2>3
    <3>2. S \subseteq sets[1] /\ IsFiniteSet(sets[1])
      BY <2>4, <3>1 DEF FiniteSubsets
    <3> HIDE DEF S
    <3> QED BY <3>2, FS_Subset
  <2>6. DiffSets(sets) = SetToSeq(S)
    BY <2>4 DEF DiffSets
  <2> HIDE DEF S
  <2>7. Each(DiffSets(sets), S)
    BY <2>5, <2>6, SetToSeqIs
  <2>8. Answered(Sdiff(keys), keys, S)
    BY <1>5, <2>7, AnswersAre
  <2> QED BY <2>8 DEF S
<1>6. \/ FirstWrong(keys) # 0 /\ Sdiff(keys) = TypeError
      \/ FirstMissing(keys) = 1 /\ Sdiff(keys) = Elements(<<>>)
      \/ FirstMissing(keys) # 1 /\ FirstWrong(keys) = 0 /\ Sdiff(keys) = Elements(DiffSets(sets))
  BY Zenon DEF Sdiff
<1> QED BY <1>3, <1>4, <1>5, <1>6

(* Every command leaves finite sets: they grow by what one command names. *)
LEMMA ListedIsFinite ==
  ASSUME NEW s \in Seq(Elem)
  PROVE  ToSet(s) \in FiniteSubsets
<1>1. DOMAIN s = 1 .. Len(s) /\ Len(s) \in Nat
  OBVIOUS
<1>2. IsFiniteSet(1 .. Len(s))
  BY <1>1, FS_Interval
<1>3. ToSet(s) = {s[i] : i \in 1 .. Len(s)}
  BY <1>1 DEF ToSet
<1>4. IsFiniteSet({s[i] : i \in 1 .. Len(s)})
  <2> DEFINE T == {s[i] : i \in 1 .. Len(s)}
  <2>1. s \in Surjection(1 .. Len(s), T)
    BY <1>1 DEF Surjection
  <2> HIDE DEF T
  <2>2. IsFiniteSet(T)
    BY <1>2, <2>1, FS_Surjection
  <2> QED BY <2>2 DEF T
<1>5. ToSet(s) \in SUBSET Elem
  BY <1>3
<1> QED BY <1>3, <1>4, <1>5 DEF FiniteSubsets

LEMMA PutKeepsFinite ==
  ASSUME TypeOK, FiniteMembers, NEW k \in Key, NEW o, Put(k, o),
         o = Absent \/ o.type # "set" \/ o.members \in FiniteSubsets
  PROVE  FiniteMembers'
<1>1. db' = [j \in Key |-> IF j = k THEN o ELSE db[j]]
  BY DEF Put, TypeOK
<1> QED BY <1>1 DEF FiniteMembers, Is

LEMMA FiniteSubsetsAre ==
  /\ {} \in FiniteSubsets
  /\ \A S, T \in FiniteSubsets : S \cup T \in FiniteSubsets
  /\ \A S \in FiniteSubsets : \A T : S \ T \in FiniteSubsets
  /\ \A e \in Elem : {e} \in FiniteSubsets
<1>1. {} \in FiniteSubsets
  BY FS_EmptySet DEF FiniteSubsets
<1>2. ASSUME NEW S \in FiniteSubsets, NEW T \in FiniteSubsets
      PROVE  S \cup T \in FiniteSubsets
  BY FS_Union DEF FiniteSubsets
<1>3. ASSUME NEW S \in FiniteSubsets, NEW T PROVE S \ T \in FiniteSubsets
  <2>1. S \ T \subseteq S /\ IsFiniteSet(S) /\ S \in SUBSET Elem
    BY DEF FiniteSubsets
  <2>2. IsFiniteSet(S \ T)
    BY <2>1, FS_Subset
  <2> QED BY <2>1, <2>2 DEF FiniteSubsets
<1>4. ASSUME NEW e \in Elem PROVE {e} \in FiniteSubsets
  BY FS_Singleton DEF FiniteSubsets
<1> QED BY <1>1, <1>2, <1>3, <1>4

LEMMA MembersStayFinite ==
  ASSUME TypeOK, FiniteMembers, NEW k \in Key, NEW elements \in Seq(Elem),
         Sadd(k, elements) \/ Srem(k, elements)
  PROVE  FiniteMembers'
<1>1. CASE UNCHANGED db
  BY <1>1 DEF FiniteMembers, Is
<1>2. ASSUME NEW S \in FiniteSubsets, Put(k, Set(S)) PROVE FiniteMembers'
  <2>1. Set(S).members \in FiniteSubsets
    BY DEF Set
  <2> QED BY <1>2, <2>1, PutKeepsFinite
<1>3. ToSet(elements) \in FiniteSubsets
  BY ListedIsFinite
<1>4. ASSUME db[k] = Absent \/ Is(k, "set")
      PROVE  OrNew(k, Set({})).members \in FiniteSubsets
  <2>1. CASE db[k] = Absent
    BY <2>1, FiniteSubsetsAre DEF OrNew, Set
  <2>2. CASE db[k] # Absent /\ Is(k, "set")
    BY <2>2 DEF OrNew, FiniteMembers
  <2> QED BY <1>4, <2>1, <2>2
<1>5. ASSUME db[k] = Absent \/ Is(k, "set"),
             Put(k, Set(OrNew(k, Set({})).members \cup ToSet(elements)))
      PROVE  FiniteMembers'
  <2>1. OrNew(k, Set({})).members \cup ToSet(elements) \in FiniteSubsets
    BY <1>3, <1>4, <1>5, FiniteSubsetsAre
  <2> QED BY <1>2, <1>5, <2>1
<1>6. ASSUME Is(k, "set"), Put(k, Set(db[k].members \ ToSet(elements)))
      PROVE  FiniteMembers'
  <2>1. db[k].members \ ToSet(elements) \in FiniteSubsets
    BY <1>6, FiniteSubsetsAre DEF FiniteMembers
  <2> QED BY <1>2, <1>6, <2>1
<1> QED BY <1>1, <1>5, <1>6 DEF Sadd, Srem, OfOtherType, NotStored

LEMMA SmoveStaysFinite ==
  ASSUME TypeOK, FiniteMembers, NEW src \in Key, NEW dst \in Key, NEW e \in Elem,
         Smove(src, dst, e)
  PROVE  FiniteMembers'
<1>1. CASE UNCHANGED db
  BY <1>1 DEF FiniteMembers, Is
<1>2. CASE ~UNCHANGED db
  <2> DEFINE A == (IF src = dst THEN db[src].members \cup {e} ELSE db[src].members) \ {e}
             B == db[dst].members \cup {e}
  <2>1. /\ Is(src, "set") /\ Is(dst, "set")
        /\ db' = [k \in Key |-> IF k = src THEN Set(A) ELSE IF k = dst THEN Set(B) ELSE db[k]]
    BY <1>2, SmoveIs
  <2>2. db[src].members \in FiniteSubsets /\ db[dst].members \in FiniteSubsets
    BY <2>1 DEF FiniteMembers
  <2>3. A \in FiniteSubsets /\ B \in FiniteSubsets
    BY <2>2, FiniteSubsetsAre
  <2> HIDE DEF A, B
  <2> QED BY <2>1, <2>3 DEF FiniteMembers, Is, Set
<1> QED BY <1>1, <1>2

(* The commands that leave sets alone, or empty the database. *)
LEMMA OthersStayFinite ==
  ASSUME TypeOK, FiniteMembers, NEW k \in Key,
         \/ \E v : SetString(k, v) \/ AppendString(k, v)
         \/ \E vals : Lpush(k, vals) \/ Rpush(k, vals)
         \/ \E count : Lpop(k, count) \/ Rpop(k, count)
         \/ \E i, v : Lset(k, i, v)
         \/ \E before, pivot, v : Linsert(k, before, pivot, v)
  PROVE  FiniteMembers'
<1>1. CASE UNCHANGED db
  BY <1>1 DEF FiniteMembers, Is
<1>2. CASE \E s : Put(k, String(s)) \/ Put(k, List(s))
  <2>1. PICK s : Put(k, String(s)) \/ Put(k, List(s))
    BY <1>2
  <2>2. String(s).type # "set" /\ List(s).type # "set"
    BY DEF String, List
  <2> QED BY <2>1, <2>2, PutKeepsFinite
<1>3. CASE Put(k, Absent)
  BY <1>3, PutKeepsFinite
<1>4. \/ UNCHANGED db \/ Put(k, Absent)
      \/ \E s : Put(k, String(s)) \/ Put(k, List(s))
  BY DEF SetString, AppendString, Lpush, Rpush, Push, Lpop, Rpop, Popped, Lset, Linsert,
         OfOtherType, NotStored
<1> QED BY <1>1, <1>2, <1>3, <1>4

LEMMA HandleStaysFinite ==
  ASSUME TypeOK, FiniteMembers, NEW c, c = Unknown \/ Fits(c), Handle(c)
  PROVE  FiniteMembers'
<1> DEFINE a == c.args
<1>1. CASE UNCHANGED db
  BY <1>1 DEF FiniteMembers, Is
<1>2. ASSUME c.name # "unknown" PROVE Fits(c)
  BY <1>2 DEF Unknown
<1>3. CASE \/ c.name = "SET"     /\ SetString(a[1], a[2])
           \/ c.name = "APPEND"  /\ AppendString(a[1], a[2])
           \/ c.name = "LPUSH"   /\ Lpush(a[1], a[2])
           \/ c.name = "RPUSH"   /\ Rpush(a[1], a[2])
  <2>1. a[1] \in Key
    BY <1>2, <1>3, ArgumentsFit
  <2> QED BY <1>3, <2>1, OthersStayFinite
<1>4. CASE \/ c.name = "LPOP"    /\ Lpop(a[1], a[2])
           \/ c.name = "RPOP"    /\ Rpop(a[1], a[2])
           \/ c.name = "LSET"    /\ Lset(a[1], a[2], a[3])
           \/ c.name = "LINSERT" /\ Linsert(a[1], a[2], a[3], a[4])
  <2>1. a[1] \in Key
    BY <1>2, <1>4, ArgumentsFit
  <2> QED BY <1>4, <2>1, OthersStayFinite
<1>5. CASE c.name = "SADD" /\ Sadd(a[1], a[2])
  BY <1>2, <1>5, ArgumentsFit, MembersStayFinite
<1>6. CASE c.name = "SREM" /\ Srem(a[1], a[2])
  BY <1>2, <1>6, ArgumentsFit, MembersStayFinite
<1>7. CASE c.name = "SMOVE" /\ Smove(a[1], a[2], a[3])
  BY <1>2, <1>7, ArgumentsFit, SmoveStaysFinite
<1>8. CASE Del(a[1]) \/ Flushdb
  <2>1. \A k \in Key : db'[k] = Absent \/ db'[k] = db[k]
    BY <1>8 DEF Del, Flushdb
  <2> QED BY <2>1 DEF FiniteMembers, Is
<1>9. CASE \/ Combine(Sunion(a[1])) \/ Combine(Sinter(a[1])) \/ Combine(Sdiff(a[1]))
           \/ Read(a[1], "string") \/ Read(a[1], "list") \/ Read(a[1], "set")
  <2>1. UNCHANGED db
    BY <1>9 DEF Combine, Read, OfOtherType, NotStored
  <2> QED BY <1>1, <2>1
<1> QED BY <1>1, <1>3, <1>4, <1>5, <1>6, <1>7, <1>8, <1>9 DEF Handle

LEMMA StepsStayFinite ==
  IInv /\ FiniteMembers /\ [SNext]_svars => FiniteMembers'
<1> SUFFICES ASSUME IInv, FiniteMembers, [SNext]_svars PROVE FiniteMembers'
  OBVIOUS
<1>1. CASE UNCHANGED db
  BY <1>1 DEF FiniteMembers, Is
<1>2. CASE Continue
  <2>1. batch \in Seq(Wanted) /\ batch # <<>>
    BY <1>2 DEF Continue, Waiting, IInv
  <2>2. Head(batch) \in Wanted
    BY <2>1
  <2> QED BY <1>2, <2>2, HandleStaysFinite DEF Continue, Wanted, IInv
<1>3. ASSUME NEW l \in Lines, Execute(l) PROVE FiniteMembers'
  <2> DEFINE cs == Understood[l].commands
  <2>1. cs \in Seq(Wanted) /\ cs # <<>> /\ Handle(Head(cs))
    BY <1>3, UnderstoodType DEF Execute
  <2> HIDE DEF cs
  <2>2. Head(cs) \in Wanted
    BY <2>1
  <2> QED BY <2>1, <2>2, HandleStaysFinite DEF Wanted, IInv
<1>4. ASSUME NEW l \in Lines, Refuse(l) PROVE UNCHANGED db
  BY <1>4 DEF Refuse
<1> QED BY <1>1, <1>2, <1>3, <1>4 DEF SNext, svars

(***************************************************************************)
(* Whatever sets clients have built, however large, and whichever keys are *)
(* named, SUNION, SINTER and SDIFF give the union, intersection or         *)
(* difference with each element once, a missing key counting as the empty  *)
(* set, and fail only if a key has something else than a set               *)
(* (DaikonDB_Set.cpp:73-115, Set.h:58-104).                                *)
(***************************************************************************)
THEOREM CombinationsAreRight == SSpec => []CombinesLikeSets
<1>1. SSpec => []IInv
  BY StartIsFine, StepsKeep, PTL DEF SSpec
<1>2. SInit => FiniteMembers
  BY DEF SInit, Init, FiniteMembers, Is
<1>3. SSpec => []FiniteMembers
  BY <1>1, <1>2, StepsStayFinite, PTL DEF SSpec
<1>4. FiniteMembers => CombinesLikeSets
  <2> SUFFICES ASSUME FiniteMembers PROVE CombinesLikeSets
    OBVIOUS
  <2>1. ASSUME NEW keys \in SeqOf(Key, 3) \ {<<>>}
        PROVE  LET all   == UNION {Members(k) : k \in ToSet(keys)}
                   inAll == {e \in all : \A k \in ToSet(keys) : e \in Members(k)}
                   inOne == Members(keys[1]) \ UNION {Members(k) : k \in ToSet(Tail(keys))}
               IN /\ Answered(Sunion(keys), keys, all)
                  /\ Answered(Sinter(keys), keys, inAll)
                  /\ Answered(Sdiff(keys), keys, inOne)
    <3>1. keys \in Seq(Key) /\ keys # <<>>
      <4>1. keys \in BoundedSeq(Key, 3)
        BY DEF BoundedSeq
      <4> QED BY <4>1, BoundedSeqs
    <3>2. Answered(Sunion(keys), keys, UNION {Members(k) : k \in ToSet(keys)})
      BY <3>1, UnionAnswers
    <3>3. Answered(Sinter(keys), keys,
                   {e \in UNION {Members(k) : k \in ToSet(keys)} :
                      \A k \in ToSet(keys) : e \in Members(k)})
      BY <3>1, InterAnswers
    <3>4. Answered(Sdiff(keys), keys,
                   Members(keys[1]) \ UNION {Members(k) : k \in ToSet(Tail(keys))})
      BY <3>1, DiffAnswers
    <3> QED BY <3>2, <3>3, <3>4
  <2> QED BY <2>1 DEF CombinesLikeSets, Answered, Each
<1> QED BY <1>3, <1>4, PTL

-----------------------------------------------------------------------------
(* The tokenizer finds what is written.  What it has found so far are the
   tokens D; those after which e commands have ended are in the command that
   is being read, the others in commands before. *)
Numbers(w, D)  == {EndedAt(w, q) : q \in D}
Before(w, D, e) == {q \in D : EndedAt(w, q) < e}
With(w, D, e)   == {q \in D : EndedAt(w, q) = e}

Place(w, D, r) == Cardinality(Numbers(w, UpTo(D, r)))
Rank(w, D, r)  == Cardinality(UpTo(With(w, D, EndedAt(w, r)), r))

Filed(w, D, e, commands, command) ==
  /\ Len(commands) = Cardinality(Numbers(w, Before(w, D, e)))
  /\ Len(command) = Cardinality(With(w, D, e))
  /\ \A r \in With(w, D, e) : command[Rank(w, D, r)] = SubSeq(w, r[1], r[2])
  /\ \A r \in Before(w, D, e) :
       /\ Len(commands[Place(w, D, r)]) = Cardinality(With(w, D, EndedAt(w, r)))
       /\ commands[Place(w, D, r)][Rank(w, D, r)] = SubSeq(w, r[1], r[2])

Orderly(w, D, e) ==
  /\ IsFiniteSet(D) /\ e \in Nat
  /\ \A r \in D : r[2] \in Int /\ EndedAt(w, r) \in 0 .. e
  /\ \A q, r \in D : q[2] <= r[2] => EndedAt(w, q) <= EndedAt(w, r)

LEMMA RankWithin ==
  ASSUME NEW S, IsFiniteSet(S), NEW T \in SUBSET S, T # {}
  PROVE  IsFiniteSet(T) /\ Cardinality(S) \in Nat /\ Cardinality(T) \in 1 .. Cardinality(S)
<1>1. IsFiniteSet(T) /\ Cardinality(T) <= Cardinality(S)
  BY FS_Subset
<1>2. Cardinality(S) \in Nat /\ Cardinality(T) \in Nat
  BY <1>1, FS_CardinalityType
<1>3. Cardinality(T) # 0
  BY <1>1, FS_EmptySet
<1> QED BY <1>1, <1>2, <1>3

(* Ranks are within their commands, and places before the one being read. *)
LEMMA RanksFit ==
  ASSUME NEW w, NEW D, NEW e, Orderly(w, D, e), NEW r \in D
  PROVE  /\ Rank(w, D, r) \in 1 .. Cardinality(With(w, D, EndedAt(w, r)))
         /\ EndedAt(w, r) < e => Place(w, D, r) \in 1 .. Cardinality(Numbers(w, Before(w, D, e)))
<1>1. IsFiniteSet(With(w, D, EndedAt(w, r))) /\ IsFiniteSet(Before(w, D, e))
  <2>1. With(w, D, EndedAt(w, r)) \subseteq D /\ Before(w, D, e) \subseteq D /\ IsFiniteSet(D)
    BY DEF With, Before, Orderly
  <2> QED BY <2>1, FS_Subset
<1>2. /\ UpTo(With(w, D, EndedAt(w, r)), r) \in SUBSET With(w, D, EndedAt(w, r))
      /\ r \in UpTo(With(w, D, EndedAt(w, r)), r)
  BY DEF UpTo, With, Orderly
<1>3. Rank(w, D, r) \in 1 .. Cardinality(With(w, D, EndedAt(w, r)))
  <2> DEFINE S == With(w, D, EndedAt(w, r))
             T == UpTo(S, r)
  <2>1. IsFiniteSet(S) /\ T \in SUBSET S /\ T # {}
    BY <1>1, <1>2
  <2> HIDE DEF S, T
  <2>2. Cardinality(T) \in 1 .. Cardinality(S)
    BY <2>1, RankWithin
  <2> QED BY <2>2 DEF S, T, Rank
<1>4. ASSUME EndedAt(w, r) < e
      PROVE  Place(w, D, r) \in 1 .. Cardinality(Numbers(w, Before(w, D, e)))
  <2> DEFINE S == Numbers(w, Before(w, D, e))
             T == Numbers(w, UpTo(D, r))
  <2>1. IsFiniteSet(S)
    <3> DEFINE B == Before(w, D, e)
               f == [q \in B |-> EndedAt(w, q)]
    <3>1. f \in Surjection(B, S)
      BY DEF Surjection, Numbers
    <3> HIDE DEF B, S, f
    <3> QED BY <1>1, <3>1, FS_Surjection DEF B
  <2>2. \A q \in UpTo(D, r) : q \in D /\ EndedAt(w, q) < e
    <3>1. \A q \in UpTo(D, r) : q \in D /\ EndedAt(w, q) <= EndedAt(w, r)
      BY DEF UpTo, Orderly
    <3>2. \A q \in D : EndedAt(w, q) \in Int
      BY DEF Orderly
    <3> QED BY <1>4, <3>1, <3>2 DEF Orderly
  <2>3. T \in SUBSET S
    BY <2>2 DEF Numbers, Before
  <2>4. r \in UpTo(D, r)
    BY DEF UpTo, Orderly
  <2>5. T # {}
    BY <2>4 DEF Numbers
  <2> HIDE DEF S, T
  <2>6. Cardinality(T) \in 1 .. Cardinality(S)
    BY <2>1, <2>3, <2>5, RankWithin
  <2> QED BY <2>6 DEF S, T, Place
<1> QED BY <1>3, <1>4

(* A token more, after all the others. *)
LEMMA TokenFiled ==
  ASSUME NEW W, NEW w, NEW D, NEW e, Orderly(w, D, e),
         NEW commands, NEW command \in Seq(Seq(W)), Filed(w, D, e, commands, command),
         NEW t, t \notin D, EndedAt(w, t) = e, t[2] \in Int, \A q \in D : q[2] < t[2],
         SubSeq(w, t[1], t[2]) \in Seq(W)
  PROVE  Filed(w, D \cup {t}, e, commands, Append(command, SubSeq(w, t[1], t[2])))
<1> DEFINE more == Append(command, SubSeq(w, t[1], t[2]))
           n == Len(command)
           F == D \cup {t}
<1>0. e \in Nat /\ \A r \in D : EndedAt(w, r) \in Int /\ r[2] \in Int /\ EndedAt(w, r) <= e
  BY DEF Orderly
<1>1. /\ Len(more) = n + 1 /\ n \in Nat
      /\ \A i \in 1 .. n : more[i] = command[i]
      /\ more[n + 1] = SubSeq(w, t[1], t[2])
  <2> DEFINE text == SubSeq(w, t[1], t[2])
  <2> HIDE DEF text
  <2>1. text \in Seq(W)
    BY DEF text
  <2>2. LET q == Append(command, text)
        IN /\ Len(q) = n + 1 /\ n \in Nat
           /\ \A i \in 1 .. n : q[i] = command[i]
           /\ q[n + 1] = text
    BY <2>1
  <2> QED BY <2>2 DEF text
<1>2. n = Cardinality(With(w, D, e)) /\ IsFiniteSet(With(w, D, e))
  <2>1. With(w, D, e) \subseteq D /\ IsFiniteSet(D)
    BY DEF With, Orderly
  <2>2. IsFiniteSet(With(w, D, e))
    BY <2>1, FS_Subset
  <2> QED BY <2>2 DEF Filed
<1> HIDE DEF more, n, F
<1>3. Before(w, F, e) = Before(w, D, e)
  BY <1>0 DEF Before, F
<1>4. With(w, F, e) = With(w, D, e) \cup {t} /\ t \notin With(w, D, e)
  BY DEF With, F
<1>5. Cardinality(With(w, F, e)) = n + 1
  <2> DEFINE S == With(w, D, e)
  <2> HIDE DEF S
  <2>1. Cardinality(S \cup {t}) = Cardinality(S) + 1
    BY <1>2, <1>4, FS_AddElement DEF S
  <2> QED BY <1>2, <1>4, <2>1 DEF S
<1>6. ASSUME NEW r \in D
      PROVE  /\ UpTo(F, r) = UpTo(D, r)
             /\ UpTo(With(w, F, EndedAt(w, r)), r) = UpTo(With(w, D, EndedAt(w, r)), r)
             /\ EndedAt(w, r) < e => With(w, F, EndedAt(w, r)) = With(w, D, EndedAt(w, r))
  BY <1>0 DEF UpTo, With, F
<1>7. ASSUME NEW r \in With(w, F, e) PROVE more[Rank(w, F, r)] = SubSeq(w, r[1], r[2])
  <2>1. CASE r = t
    <3>1. UpTo(With(w, F, e), t) = With(w, F, e)
      BY <1>0, <1>4, SMTT(30) DEF UpTo, With
    <3>2. Rank(w, F, t) = n + 1
      BY <1>5, <3>1 DEF Rank
    <3> QED BY <1>1, <2>1, <3>2
  <2>2. CASE r # t
    <3>1. r \in With(w, D, e) /\ r \in D /\ EndedAt(w, r) = e
      BY <1>4, <2>2 DEF With
    <3>2. Rank(w, F, r) = Rank(w, D, r) /\ Rank(w, D, r) \in 1 .. n
      BY <1>2, <1>6, <3>1, RanksFit DEF Rank
    <3>3. command[Rank(w, D, r)] = SubSeq(w, r[1], r[2])
      BY <3>1 DEF Filed
    <3> QED BY <1>1, <3>2, <3>3
  <2> QED BY <2>1, <2>2
<1>8. ASSUME NEW r \in Before(w, D, e)
      PROVE  /\ Len(commands[Place(w, F, r)]) = Cardinality(With(w, F, EndedAt(w, r)))
             /\ commands[Place(w, F, r)][Rank(w, F, r)] = SubSeq(w, r[1], r[2])
  <2>1. r \in D /\ EndedAt(w, r) < e
    BY DEF Before
  <2>2. Place(w, F, r) = Place(w, D, r) /\ Rank(w, F, r) = Rank(w, D, r)
    BY <1>6, <2>1 DEF Place, Rank
  <2>3. With(w, F, EndedAt(w, r)) = With(w, D, EndedAt(w, r))
    BY <1>6, <2>1
  <2> QED BY <2>2, <2>3 DEF Filed
<1>9. Filed(w, F, e, commands, more)
  <2>1. Len(commands) = Cardinality(Numbers(w, Before(w, F, e)))
    BY <1>3 DEF Filed
  <2>2. Len(more) = Cardinality(With(w, F, e))
    BY <1>1, <1>5
  <2> QED BY <1>3, <1>7, <1>8, <2>1, <2>2 DEF Filed
<1> QED BY <1>9 DEF F, more

(* The end of a command, which is kept if it has tokens. *)
LEMMA CommandFiled ==
  ASSUME NEW W, NEW w, NEW D, NEW e, Orderly(w, D, e),
         NEW commands \in Seq(Seq(Seq(W))), NEW command \in Seq(Seq(W)),
         Filed(w, D, e, commands, command)
  PROVE  Filed(w, D, e + 1, IF command = <<>> THEN commands ELSE Append(commands, command), <<>>)
<1> DEFINE more == IF command = <<>> THEN commands ELSE Append(commands, command)
           n == Len(commands)
           B == Before(w, D, e)
           C == With(w, D, e)
<1>0. /\ e \in Nat /\ IsFiniteSet(D)
      /\ \A r \in D : EndedAt(w, r) \in Int /\ r[2] \in Int /\ EndedAt(w, r) <= e
      /\ \A q, r \in D : q[2] <= r[2] => EndedAt(w, q) <= EndedAt(w, r)
  BY DEF Orderly
<1>1. n \in Nat /\ n = Cardinality(Numbers(w, B)) /\ Len(command) = Cardinality(C)
  BY DEF Filed
<1>2. IsFiniteSet(B) /\ IsFiniteSet(C) /\ IsFiniteSet(Numbers(w, B))
  <2>1. B \subseteq D /\ C \subseteq D
    BY DEF Before, With
  <2>2. IsFiniteSet(B) /\ IsFiniteSet(C)
    BY <1>0, <2>1, FS_Subset
  <2> DEFINE S == Numbers(w, B)
             f == [q \in B |-> EndedAt(w, q)]
  <2>3. f \in Surjection(B, S)
    BY DEF Surjection, Numbers
  <2> HIDE DEF B, S, f
  <2>4. IsFiniteSet(S)
    BY <2>2, <2>3, FS_Surjection
  <2> QED BY <2>2, <2>4 DEF S
<1>3. Before(w, D, e + 1) = D /\ With(w, D, e + 1) = {} /\ D = B \cup C
  BY <1>0 DEF Before, With
<1>4. Len(<<>>) = Cardinality(With(w, D, e + 1))
  <2>1. Cardinality({}) = 0
    BY FS_EmptySet
  <2> QED BY <1>3, <2>1
<1>5. \A r \in With(w, D, e + 1) : <<>>[Rank(w, D, r)] = SubSeq(w, r[1], r[2])
  BY <1>3
<1>6. command = <<>> <=> C = {}
  <2>1. Cardinality(C) = 0 <=> C = {}
    BY <1>2, FS_EmptySet
  <2>2. command = <<>> <=> Len(command) = 0
    OBVIOUS
  <2> HIDE DEF C
  <2> QED BY <1>1, <2>1, <2>2
<1>7. \A r \in B : /\ r \in D /\ EndedAt(w, r) < e /\ Place(w, D, r) \in 1 .. n
                   /\ Len(commands[Place(w, D, r)]) = Cardinality(With(w, D, EndedAt(w, r)))
                   /\ commands[Place(w, D, r)][Rank(w, D, r)] = SubSeq(w, r[1], r[2])
  <2>1. ASSUME NEW r \in B PROVE r \in D /\ EndedAt(w, r) < e
    BY DEF Before
  <2>2. ASSUME NEW r \in B PROVE Place(w, D, r) \in 1 .. n
    BY <1>1, <2>1, RanksFit
  <2> QED BY <2>1, <2>2 DEF Filed
<1>8. CASE command = <<>>
  <2>1. more = commands /\ B = D
    BY <1>3, <1>6, <1>8
  <2> HIDE DEF more, B, C
  <2>2. Filed(w, D, e + 1, more, <<>>)
    BY <1>1, <1>3, <1>4, <1>5, <1>7, <2>1 DEF Filed
  <2> QED BY <2>2 DEF more
<1>9. CASE command # <<>>
  <2>1. /\ Len(more) = n + 1 /\ more[n + 1] = command
        /\ \A i \in 1 .. n : more[i] = commands[i]
    BY <1>9
  <2>2. Numbers(w, D) = Numbers(w, B) \cup {e} /\ e \notin Numbers(w, B)
    <3>1. PICK t \in C : TRUE
      BY <1>6, <1>9
    <3>2. t \in D /\ EndedAt(w, t) = e /\ \A r \in C : EndedAt(w, r) = e
      BY <3>1 DEF With
    <3>3. \A r \in B : EndedAt(w, r) < e /\ EndedAt(w, r) \in Int
      BY <1>0, <1>7
    <3> HIDE DEF B, C
    <3> QED BY <1>0, <1>3, <3>2, <3>3 DEF Numbers
  <2>3. Cardinality(Numbers(w, D)) = n + 1
    <3> DEFINE S == Numbers(w, B)
    <3>1. Cardinality(S \cup {e}) = Cardinality(S) + 1
      <4> HIDE DEF S
      <4>1. IsFiniteSet(S) /\ e \notin S
        BY <1>2, <2>2 DEF S
      <4> QED BY <4>1, FS_AddElement
    <3> QED BY <1>1, <2>2, <3>1
  <2>4. ASSUME NEW r \in C PROVE Place(w, D, r) = n + 1 /\ EndedAt(w, r) = e /\ r \in D
    <3>1. r \in D /\ EndedAt(w, r) = e
      BY DEF With
    <3>2. ASSUME NEW q \in B PROVE q \in UpTo(D, r)
      <4>1. q \in D /\ EndedAt(w, q) < e /\ q[2] \in Int /\ r[2] \in Int
        BY <1>0, <1>7, <3>1
      <4>2. r[2] <= q[2] => EndedAt(w, r) <= EndedAt(w, q)
        BY <1>0, <3>1, <4>1
      <4>3. EndedAt(w, q) \in Int
        BY <1>0, <4>1
      <4>4. q[2] <= r[2]
        BY <1>0, <3>1, <4>1, <4>2, <4>3
      <4> QED BY <4>1, <4>4 DEF UpTo
    <3>3. r \in UpTo(D, r) /\ UpTo(D, r) \subseteq D
      BY <1>0, <3>1 DEF UpTo
    <3>4. Numbers(w, UpTo(D, r)) = Numbers(w, D)
      <4>1. Numbers(w, UpTo(D, r)) \subseteq Numbers(w, D)
        BY <3>3 DEF Numbers
      <4>2. Numbers(w, B) \subseteq Numbers(w, UpTo(D, r))
        BY <3>2 DEF Numbers
      <4>3. e \in Numbers(w, UpTo(D, r))
        BY <3>1, <3>3 DEF Numbers
      <4> QED BY <2>2, <4>1, <4>2, <4>3
    <3> QED BY <2>3, <3>1, <3>4 DEF Place
  <2> HIDE DEF more, B, n
  <2>5. ASSUME NEW r \in D
        PROVE  /\ Len(more[Place(w, D, r)]) = Cardinality(With(w, D, EndedAt(w, r)))
               /\ more[Place(w, D, r)][Rank(w, D, r)] = SubSeq(w, r[1], r[2])
    <3>1. CASE r \in B
      BY <1>7, <2>1, <3>1
    <3>2. CASE r \in C
      <4>1. Place(w, D, r) = n + 1 /\ EndedAt(w, r) = e
        BY <2>4, <3>2
      <4>2. Len(command) = Cardinality(With(w, D, e))
        BY <1>1
      <4>3. command[Rank(w, D, r)] = SubSeq(w, r[1], r[2])
        BY <3>2 DEF Filed
      <4> QED BY <2>1, <4>1, <4>2, <4>3
    <3> HIDE DEF C
    <3> QED BY <1>3, <3>1, <3>2
  <2>6. Filed(w, D, e + 1, more, <<>>)
    BY <1>3, <1>4, <1>5, <2>1, <2>3, <2>5 DEF Filed
  <2> QED BY <2>6 DEF more
<1> QED BY <1>8, <1>9

-----------------------------------------------------------------------------
(* Counting quotes and ends of commands. *)
LEMMA CountsGrow ==
  ASSUME NEW P, NEW k \in Nat
  PROVE  LET To(i) == Cardinality({j \in 1 .. i : j \in P})
         IN /\ To(0) = 0 /\ To(k) \in Nat
            /\ To(k + 1) = To(k) + (IF k + 1 \in P THEN 1 ELSE 0)
<1> DEFINE S == {j \in 1 .. k : j \in P}
           R == {j \in 1 .. k + 1 : j \in P}
<1>1. {j \in 1 .. 0 : j \in P} = {}
  OBVIOUS
<1>2. Cardinality({}) = 0
  BY FS_EmptySet
<1>3. IsFiniteSet(S)
  <2>1. IsFiniteSet(1 .. k) /\ S \subseteq 1 .. k
    BY FS_Interval
  <2> HIDE DEF S
  <2> QED BY <2>1, FS_Subset
<1>4. Cardinality(S) \in Nat
  <2> HIDE DEF S
  <2> QED BY <1>3, FS_CardinalityType
<1>5. CASE k + 1 \in P
  <2>1. R = S \cup {k + 1} /\ k + 1 \notin S
    BY <1>5
  <2> HIDE DEF S, R
  <2>2. Cardinality(R) = Cardinality(S) + 1
    BY <1>3, <2>1, FS_AddElement
  <2> QED BY <1>1, <1>2, <1>4, <1>5, <2>2 DEF S, R
<1>6. CASE k + 1 \notin P
  <2>1. R = S
    BY <1>6
  <2> QED BY <1>1, <1>2, <1>4, <1>6, <2>1
<1> QED BY <1>5, <1>6

LEMMA QuotesGrow ==
  ASSUME NEW w, NEW k \in Nat
  PROVE  /\ QuotesTo(w, 0) = 0 /\ QuotesTo(w, k) \in Nat
         /\ QuotesTo(w, k + 1) = QuotesTo(w, k) + (IF w[k + 1] = Quote THEN 1 ELSE 0)
<1> DEFINE P == {j \in Nat : w[j] = Quote}
           To(i) == Cardinality({j \in 1 .. i : j \in P})
<1>1. To(0) = 0 /\ To(k) \in Nat /\ To(k + 1) = To(k) + (IF k + 1 \in P THEN 1 ELSE 0)
  <2> HIDE DEF P
  <2> QED BY CountsGrow
<1>2. \A i \in Nat : {j \in 1 .. i : j \in P} = {j \in 1 .. i : w[j] = Quote}
  OBVIOUS
<1>3. \A i \in Nat : To(i) = QuotesTo(w, i)
  BY <1>2 DEF QuotesTo
<1>4. k + 1 \in P <=> w[k + 1] = Quote
  OBVIOUS
<1> HIDE DEF P, To
<1> QED BY <1>1, <1>3, <1>4

LEMMA EndsGrow ==
  ASSUME NEW w, NEW k \in Nat
  PROVE  /\ EndsTo(w, 0) = 0 /\ EndsTo(w, k) \in Nat
         /\ EndsTo(w, k + 1) = EndsTo(w, k) + (IF EndsAt(w, k + 1) THEN 1 ELSE 0)
<1> DEFINE P == {j \in Nat : EndsAt(w, j)}
           To(i) == Cardinality({j \in 1 .. i : j \in P})
<1>1. To(0) = 0 /\ To(k) \in Nat /\ To(k + 1) = To(k) + (IF k + 1 \in P THEN 1 ELSE 0)
  <2> HIDE DEF P
  <2> QED BY CountsGrow
<1>2. \A i \in Nat : {j \in 1 .. i : j \in P} = {j \in 1 .. i : EndsAt(w, j)}
  OBVIOUS
<1>3. \A i \in Nat : To(i) = EndsTo(w, i)
  BY <1>2 DEF EndsTo
<1>4. k + 1 \in P <=> EndsAt(w, k + 1)
  OBVIOUS
<1> HIDE DEF P, To
<1> QED BY <1>1, <1>3, <1>4

LEMMA EndsRise ==
  ASSUME NEW w, NEW k \in Nat, NEW i \in 0 .. k
  PROVE  EndsTo(w, i) <= EndsTo(w, k) /\ EndsTo(w, i) \in Nat /\ EndsTo(w, k) \in Nat
<1> DEFINE S == {j \in 1 .. k : EndsAt(w, j)}
           R == {j \in 1 .. i : EndsAt(w, j)}
<1>1. R \subseteq S /\ S \subseteq 1 .. k
  OBVIOUS
<1>2. IsFiniteSet(1 .. k)
  BY FS_Interval
<1>3. Cardinality(R) <= Cardinality(S)
  <2> HIDE DEF S, R
  <2>1. IsFiniteSet(S)
    BY <1>1, <1>2, FS_Subset
  <2> QED BY <1>1, <2>1, FS_Subset
<1>4. EndsTo(w, i) \in Nat /\ EndsTo(w, k) \in Nat
  BY EndsGrow
<1> QED BY <1>3, <1>4 DEF EndsTo

LEMMA InsideNext ==
  ASSUME NEW w, NEW k \in Nat
  PROVE  /\ Inside(w, 1) = FALSE
         /\ Inside(w, k + 1) <=> QuotesTo(w, k) % 2 = 1
         /\ Inside(w, k + 2) <=> IF w[k + 1] = Quote THEN ~Inside(w, k + 1) ELSE Inside(w, k + 1)
<1>1. (k + 1) - 1 = k /\ (k + 2) - 1 = k + 1 /\ 1 - 1 = 0
  OBVIOUS
<1>2. Inside(w, k + 1) <=> QuotesTo(w, k) % 2 = 1
  BY <1>1 DEF Inside
<1>3. Inside(w, k + 2) <=> QuotesTo(w, k + 1) % 2 = 1
  BY <1>1 DEF Inside
<1>4. Inside(w, 1) = FALSE
  <2>1. QuotesTo(w, 0) = 0
    BY QuotesGrow
  <2> QED BY <1>1, <2>1 DEF Inside
<1>5. \A n \in Nat : (n + 1) % 2 = 1 <=> ~(n % 2 = 1)
  OBVIOUS
<1> QED BY <1>2, <1>3, <1>4, <1>5, QuotesGrow

(* Between quotes nothing changes. *)
LEMMA InsideSame ==
  ASSUME NEW w, NEW k \in Nat, NEW i \in 1 .. k + 1, \A j \in i .. k : w[j] # Quote
  PROVE  Inside(w, k + 1) <=> Inside(w, i)
<1>1. {j \in 1 .. k : w[j] = Quote} = {j \in 1 .. i - 1 : w[j] = Quote}
  OBVIOUS
<1>2. QuotesTo(w, k) = QuotesTo(w, i - 1) /\ (k + 1) - 1 = k
  BY <1>1 DEF QuotesTo
<1> QED BY <1>2 DEF Inside

(* Where the token that is being read began. *)
Opens(w, a, k) ==
  \/ /\ Inside(w, k + 1) /\ a \in 2 .. k + 1 /\ \A i \in a .. k : w[i] # Quote
     /\ w[a - 1] = Quote /\ ~Inside(w, a - 1)
  \/ /\ InWord(w, k) /\ a \in 1 .. k /\ \A i \in a .. k : InWord(w, i)
     /\ ~InWord(w, a - 1)

(* The tokens that end with the k-th symbol, and those that have ended. *)
Ending(w, k) == {r \in Tokens(w) : r[2] = k}
Done(w, k)   == {r \in Tokens(w) : r[2] < k}

LEMMA WordsAreOutside ==
  ASSUME NEW W, NEW w \in Seq(W), NEW k \in Nat, InWord(w, k)
  PROVE  k >= 1 /\ ~Inside(w, k) /\ ~Inside(w, k + 1) /\ w[k] # Quote
<1>1. CASE k = 0
  <2>1. 0 \notin DOMAIN w
    OBVIOUS
  <2> QED BY <1>1, <2>1 DEF InWord
<1>2. CASE k # 0
  <2>1. ~Inside(w, k) /\ w[k] # Quote
    BY DEF InWord
  <2>2. k - 1 \in Nat /\ (k - 1) + 1 = k /\ (k - 1) + 2 = k + 1
    BY <1>2
  <2>3. Inside(w, (k - 1) + 2) <=> Inside(w, (k - 1) + 1)
    BY <2>1, <2>2, InsideNext
  <2> QED BY <2>1, <2>2, <2>3
<1> QED BY <1>1, <1>2

LEMMA TokensEnd ==
  ASSUME NEW W, NEW w \in Seq(W), NEW k \in 0 .. Len(w) - 1, NEW a, Opens(w, a, k),
         \/ Inside(w, k + 1) /\ w[k + 1] = Quote
         \/ InWord(w, k) /\ ~InWord(w, k + 1)
  PROVE  Ending(w, k) = {<<a, k>>}
<1>0. k \in Nat /\ Len(w) \in Nat /\ k + 1 <= Len(w) /\ DOMAIN w = 1 .. Len(w)
  OBVIOUS
<1>1. ASSUME NEW r \in Tokens(w), r[2] = k
      PROVE  r = <<r[1], k>> /\ r[1] \in Int
  <2>1. r \in (1 .. Len(w)) \X (1 .. Len(w)) \/ r \in (2 .. Len(w)) \X (1 .. Len(w) - 1)
    BY DEF Tokens, Runs, Quoted
  <2> QED BY <1>0, <1>1, <2>1
<1>2. CASE Inside(w, k + 1) /\ w[k + 1] = Quote
  <2>0. ~InWord(w, k)
    BY <1>0, <1>2, WordsAreOutside
  <2>1. /\ a \in 2 .. k + 1 /\ \A i \in a .. k : w[i] # Quote
        /\ w[a - 1] = Quote /\ ~Inside(w, a - 1)
    BY <2>0 DEF Opens
  <2>2. <<a, k>> \in Tokens(w)
    <3>1. k # 0
      <4>1. ~Inside(w, 1)
        BY <1>0, InsideNext
      <4> QED BY <1>2, <4>1
    <3>2. <<a, k>> \in (2 .. Len(w)) \X (1 .. Len(w) - 1)
      BY <1>0, <2>1, <3>1
    <3>3. <<a, k>>[1] = a /\ <<a, k>>[2] = k /\ a <= k + 1
      BY <2>1
    <3> QED BY <1>2, <2>1, <3>2, <3>3 DEF Tokens, Quoted
  <2>3. ASSUME NEW r \in Tokens(w), r[2] = k PROVE r[1] = a
    <3>1. r \in Quoted(w)
      <4>1. r \in Runs(w) => InWord(w, k)
        BY <1>0, <2>3 DEF Runs
      <4> QED BY <2>0, <4>1 DEF Tokens
    <3>2. /\ r[1] \in 2 .. k + 1 /\ \A i \in r[1] .. k : w[i] # Quote
          /\ w[r[1] - 1] = Quote
      BY <1>0, <2>3, <3>1 DEF Quoted
    <3>3. ~(r[1] < a)
      <4>1. r[1] < a => a - 1 \in r[1] .. k
        BY <1>0, <2>1, <3>2
      <4> QED BY <2>1, <3>2, <4>1
    <3>4. ~(a < r[1])
      <4>1. a < r[1] => r[1] - 1 \in a .. k
        BY <1>0, <2>1, <3>2
      <4> QED BY <2>1, <3>2, <4>1
    <3> QED BY <2>1, <3>2, <3>3, <3>4
  <2>4. \A r \in Ending(w, k) : r = <<a, k>>
    BY <1>1, <2>3 DEF Ending
  <2>5. <<a, k>> \in Ending(w, k)
    BY <2>2 DEF Ending
  <2> QED BY <2>4, <2>5
<1>3. CASE InWord(w, k) /\ ~InWord(w, k + 1)
  <2>0. ~Inside(w, k + 1)
    BY <1>0, <1>3, WordsAreOutside
  <2>1. a \in 1 .. k /\ (\A i \in a .. k : InWord(w, i)) /\ ~InWord(w, a - 1)
    BY <2>0 DEF Opens
  <2>2. <<a, k>> \in Tokens(w)
    <3>1. <<a, k>> \in (1 .. Len(w)) \X (1 .. Len(w))
      BY <1>0, <2>1
    <3>2. <<a, k>>[1] = a /\ <<a, k>>[2] = k /\ a <= k
      BY <2>1
    <3> QED BY <1>3, <2>1, <3>1, <3>2 DEF Tokens, Runs
  <2>3. ASSUME NEW r \in Tokens(w), r[2] = k PROVE r[1] = a
    <3>1. r \notin Quoted(w)
      <4> SUFFICES ASSUME r \in Quoted(w) PROVE FALSE
        OBVIOUS
      <4>1. /\ r[1] \in 2 .. k + 1 /\ \A i \in r[1] .. k : w[i] # Quote
            /\ w[r[1] - 1] = Quote /\ ~Inside(w, r[1] - 1)
        BY <1>0, <2>3 DEF Quoted
      <4>2. r[1] - 2 \in Nat /\ (r[1] - 2) + 1 = r[1] - 1 /\ (r[1] - 2) + 2 = r[1]
        BY <4>1
      <4>3. Inside(w, (r[1] - 2) + 2)
        BY <4>1, <4>2, InsideNext
      <4>4. r[1] \in 1 .. k + 1 /\ Inside(w, r[1])
        BY <4>1, <4>2, <4>3
      <4>5. Inside(w, k + 1) <=> Inside(w, r[1])
        BY <1>0, <4>1, <4>4, InsideSame
      <4> QED BY <2>0, <4>4, <4>5
    <3>2. r[1] \in 1 .. k /\ (\A i \in r[1] .. k : InWord(w, i)) /\ ~InWord(w, r[1] - 1)
      BY <1>0, <2>3, <3>1 DEF Tokens, Runs
    <3>3. ~(r[1] < a)
      <4>1. r[1] < a => a - 1 \in r[1] .. k
        BY <1>0, <2>1, <3>2
      <4> QED BY <2>1, <3>2, <4>1
    <3>4. ~(a < r[1])
      <4>1. a < r[1] => r[1] - 1 \in a .. k
        BY <1>0, <2>1, <3>2
      <4> QED BY <2>1, <3>2, <4>1
    <3> QED BY <2>1, <3>2, <3>3, <3>4
  <2>4. \A r \in Ending(w, k) : r = <<a, k>>
    BY <1>1, <2>3 DEF Ending
  <2>5. <<a, k>> \in Ending(w, k)
    BY <2>2 DEF Ending
  <2> QED BY <2>4, <2>5
<1> QED BY <1>2, <1>3

LEMMA TokensGoOn ==
  ASSUME NEW W, NEW w \in Seq(W), NEW k \in 0 .. Len(w),
         ~(Inside(w, k + 1) /\ k + 1 \in DOMAIN w /\ w[k + 1] = Quote),
         ~(InWord(w, k) /\ ~InWord(w, k + 1))
  PROVE  Ending(w, k) = {}
<1>0. k \in Nat /\ Len(w) \in Nat /\ DOMAIN w = 1 .. Len(w)
  OBVIOUS
<1> SUFFICES ASSUME NEW r \in Tokens(w), r[2] = k PROVE FALSE
  BY DEF Ending
<1>1. CASE r \in Runs(w)
  <2>1. InWord(w, k) /\ ~InWord(w, k + 1)
    BY <1>0, <1>1 DEF Runs
  <2> QED BY <2>1
<1>2. CASE r \in Quoted(w)
  <2>1. /\ r[1] \in 2 .. k + 1 /\ \A i \in r[1] .. k : w[i] # Quote
        /\ w[r[1] - 1] = Quote /\ ~Inside(w, r[1] - 1)
        /\ w[k + 1] = Quote /\ k + 1 \in DOMAIN w
    BY <1>0, <1>2 DEF Quoted
  <2>2. r[1] - 2 \in Nat /\ (r[1] - 2) + 1 = r[1] - 1 /\ (r[1] - 2) + 2 = r[1]
    BY <2>1
  <2>3. Inside(w, (r[1] - 2) + 2)
    BY <2>1, <2>2, InsideNext
  <2>4. r[1] \in 1 .. k + 1 /\ Inside(w, r[1])
    BY <2>1, <2>2, <2>3
  <2>5. Inside(w, k + 1) <=> Inside(w, r[1])
    BY <1>0, <2>1, <2>4, InsideSame
  <2> QED BY <2>1, <2>4, <2>5
<1> QED BY <1>1, <1>2 DEF Tokens

LEMMA DoneGrows ==
  ASSUME NEW W, NEW w \in Seq(W), NEW k \in 0 .. Len(w)
  PROVE  /\ Done(w, k + 1) = Done(w, k) \cup Ending(w, k)
         /\ Orderly(w, Done(w, k), EndsTo(w, k))
         /\ Orderly(w, Done(w, k + 1), EndsTo(w, k))
<1>0. k \in Nat /\ Len(w) \in Nat
  OBVIOUS
<1>1. \A r \in Tokens(w) : r[2] \in 1 .. Len(w) /\ r \in (1 .. Len(w)) \X (1 .. Len(w))
  <2>1. \A r \in Runs(w) : r[2] \in 1 .. Len(w) /\ r \in (1 .. Len(w)) \X (1 .. Len(w))
    BY DEF Runs
  <2>2. \A r \in Quoted(w) : r[2] \in 1 .. Len(w) /\ r \in (1 .. Len(w)) \X (1 .. Len(w))
    BY <1>0 DEF Quoted
  <2> QED BY <2>1, <2>2 DEF Tokens
<1>2. Done(w, k + 1) = Done(w, k) \cup Ending(w, k)
  BY <1>0, <1>1 DEF Done, Ending
<1>3. IsFiniteSet(Tokens(w))
  <2> DEFINE S == 1 .. Len(w)
             P == S \X S
  <2>1. IsFiniteSet(S)
    BY <1>0, FS_Interval
  <2>2. IsFiniteSet(P)
    <3> HIDE DEF S
    <3> QED BY <2>1, FS_Product
  <2>3. Tokens(w) \subseteq P
    BY <1>1
  <2> HIDE DEF P
  <2> QED BY <2>2, <2>3, FS_Subset
<1>4. IsFiniteSet(Done(w, k)) /\ IsFiniteSet(Done(w, k + 1))
  <2>1. Done(w, k) \subseteq Tokens(w) /\ Done(w, k + 1) \subseteq Tokens(w)
    BY DEF Done
  <2> QED BY <1>3, <2>1, FS_Subset
<1>5. EndsTo(w, k) \in Nat
  BY <1>0, EndsGrow
<1>6. \A r \in Done(w, k + 1) : r[2] \in 0 .. k /\ EndedAt(w, r) \in 0 .. EndsTo(w, k)
  <2>1. ASSUME NEW r \in Done(w, k + 1) PROVE r[2] \in 0 .. k
    BY <1>0, <1>1 DEF Done
  <2>2. ASSUME NEW r \in Done(w, k + 1) PROVE EndedAt(w, r) \in 0 .. EndsTo(w, k)
    <3>1. r[2] \in 0 .. k
      BY <2>1
    <3>2. EndsTo(w, r[2]) <= EndsTo(w, k) /\ EndsTo(w, r[2]) \in Nat
      BY <1>0, <3>1, EndsRise
    <3> QED BY <1>5, <3>2 DEF EndedAt
  <2> QED BY <2>1, <2>2
<1>7. \A q, r \in Done(w, k + 1) : q[2] <= r[2] => EndedAt(w, q) <= EndedAt(w, r)
  <2> SUFFICES ASSUME NEW q \in Done(w, k + 1), NEW r \in Done(w, k + 1), q[2] <= r[2]
               PROVE  EndedAt(w, q) <= EndedAt(w, r)
    OBVIOUS
  <2>1. r[2] \in Nat /\ q[2] \in 0 .. r[2]
    BY <1>0, <1>6
  <2>2. EndsTo(w, q[2]) <= EndsTo(w, r[2])
    BY <2>1, EndsRise
  <2> QED BY <2>2 DEF EndedAt
<1>8. Orderly(w, Done(w, k + 1), EndsTo(w, k))
  BY <1>0, <1>4, <1>5, <1>6, <1>7 DEF Orderly
<1>9. Orderly(w, Done(w, k), EndsTo(w, k))
  <2>1. Done(w, k) \subseteq Done(w, k + 1)
    BY <1>2
  <2> QED BY <1>0, <1>4, <1>5, <1>6, <1>7, <2>1 DEF Orderly
<1> QED BY <1>2, <1>8, <1>9

(* A part of one element. *)
LEMMA SubSeqOfOne ==
  ASSUME NEW S, NEW s, NEW m \in Int, s[m] \in S
  PROVE  LET q == SubSeq(s, m, m) IN q \in Seq(S) /\ Len(q) = 1 /\ q[1] = s[m]
<1> DEFINE q == SubSeq(s, m, m)
           n == m - m + 1
<1>1. \A i \in m .. m : s[i] \in S
  OBVIOUS
<1>2. /\ q \in Seq(S) /\ Len(q) = IF m <= m THEN n ELSE 0
      /\ \A i \in 1 .. n : q[i] = s[m + i - 1]
  BY <1>1, SubSeqProperties
<1>3. n = 1 /\ m <= m /\ m + 1 - 1 = m /\ 1 \in 1 .. 1
  OBVIOUS
<1> HIDE DEF q, n
<1>4. \A i \in 1 .. 1 : q[i] = s[m + i - 1]
  BY <1>2, <1>3
<1>5. q[1] = s[m + 1 - 1]
  BY <1>3, <1>4
<1> QED BY <1>2, <1>3, <1>5 DEF q

LEMMA SubSeqGrows ==
  ASSUME NEW W, NEW w \in Seq(W), NEW k \in 0 .. Len(w) - 1, NEW a \in 1 .. k + 1
  PROVE  /\ SubSeq(w, k + 2, k + 1) = <<>>
         /\ SubSeq(w, k + 1, k + 1) = <<w[k + 1]>>
         /\ SubSeq(w, a, k + 1) = Append(SubSeq(w, a, k), w[k + 1])
<1>1. k \in Nat /\ Len(w) \in Nat /\ k + 1 <= Len(w)
  OBVIOUS
<1>2. SubSeq(w, k + 2, k + 1) = <<>>
  BY <1>1
<1>3. SubSeq(w, k + 1, k + 1) = <<w[k + 1]>>
  <2> DEFINE x == w[k + 1]
             q == SubSeq(w, k + 1, k + 1)
  <2>1. q \in Seq(W) /\ Len(q) = 1 /\ q[1] = x
    BY <1>1, SubSeqOfOne
  <2> HIDE DEF q, x
  <2>2. q = <<x>>
    BY <2>1
  <2> QED BY <2>2 DEF q, x
<1>4. SubSeq(w, a, k + 1) = Append(SubSeq(w, a, k), w[k + 1])
  BY <1>1
<1> QED BY <1>2, <1>3, <1>4

(***************************************************************************)
(* What the tokenizer knows after k symbols.                               *)
(***************************************************************************)
Reads(w, k, s) ==
  /\ s.in_quotes <=> Inside(w, k + 1)
  /\ s.inside_token <=> Inside(w, k + 1) \/ InWord(w, k)
  /\ s.inside_token => \E a : Opens(w, a, k) /\ s.token = SubSeq(w, a, k)
  /\ Filed(w, Done(w, k), EndsTo(w, k), s.commands, s.command)

(* What a token's end leaves, and the rest with it. *)
More(s) == IF s.inside_token THEN Append(s.command, s.token) ELSE s.command

TokenEnded(s) ==
  LET t == EndToken(s)
      u == EndCommand(t)
  IN /\ t.commands = s.commands /\ t.command = More(s) /\ t.in_quotes = s.in_quotes
     /\ t.inside_token = FALSE
     /\ u.commands = IF More(s) = <<>> THEN s.commands ELSE Append(s.commands, More(s))
     /\ u.command = <<>> /\ u.in_quotes = s.in_quotes /\ u.inside_token = FALSE
     /\ CloseQuote(s).commands = s.commands /\ CloseQuote(s).command = More(s)
     /\ CloseQuote(s).in_quotes = FALSE /\ CloseQuote(s).inside_token = FALSE
     /\ OpenQuote(s).commands = s.commands /\ OpenQuote(s).command = More(s)
     /\ OpenQuote(s).in_quotes = TRUE /\ OpenQuote(s).inside_token = TRUE
     /\ OpenQuote(s).token = <<>>

LEMMA FieldsAre ==
  ASSUME NEW W, NEW s \in Scanning(W), NEW c
  PROVE  /\ TokenEnded(s)
         /\ LET o == [s EXCEPT !.token = IF s.inside_token THEN Append(@, c) ELSE <<c>>,
                               !.inside_token = TRUE]
            IN /\ o.commands = s.commands /\ o.command = s.command /\ o.in_quotes = s.in_quotes
               /\ o.inside_token = TRUE
               /\ o.token = IF s.inside_token THEN Append(s.token, c) ELSE <<c>>
<1>1. s = [commands |-> s.commands, command |-> s.command, token |-> s.token,
           inside_token |-> s.inside_token, in_quotes |-> s.in_quotes]
  BY DEF Scanning
<1> DEFINE more == More(s)
           t == EndToken(s)
<1>2. t = [commands |-> s.commands, command |-> more, token |-> s.token,
           inside_token |-> FALSE, in_quotes |-> s.in_quotes]
  <2>1. t = [s EXCEPT !.command = more, !.inside_token = FALSE]
    BY DEF EndToken, More
  <2> HIDE DEF more
  <2> QED BY <1>1, <2>1
<1> HIDE DEF more, t
<1>3. EndCommand(t) = [t EXCEPT !.commands = IF more = <<>> THEN s.commands
                                             ELSE Append(s.commands, more),
                                !.command = <<>>]
  BY <1>2 DEF EndCommand
<1>4. CloseQuote(s) = [t EXCEPT !.in_quotes = FALSE]
  BY DEF CloseQuote, t
<1>5. OpenQuote(s) = [t EXCEPT !.token = <<>>, !.inside_token = TRUE, !.in_quotes = TRUE]
  BY DEF OpenQuote, t
<1>6. LET o == [s EXCEPT !.token = IF s.inside_token THEN Append(@, c) ELSE <<c>>,
                         !.inside_token = TRUE]
      IN /\ o.commands = s.commands /\ o.command = s.command /\ o.in_quotes = s.in_quotes
         /\ o.inside_token = TRUE
         /\ o.token = IF s.inside_token THEN Append(s.token, c) ELSE <<c>>
  BY <1>1
<1>7. /\ EndCommand(t).commands = IF more = <<>> THEN s.commands ELSE Append(s.commands, more)
      /\ EndCommand(t).command = <<>> /\ EndCommand(t).in_quotes = s.in_quotes
      /\ EndCommand(t).inside_token = FALSE
  <2> DEFINE kept == IF more = <<>> THEN s.commands ELSE Append(s.commands, more)
             none == <<>>
  <2>1. EndCommand(t) = [t EXCEPT !.commands = kept, !.command = none]
    BY <1>3
  <2> HIDE DEF kept, none
  <2>2. /\ EndCommand(t).commands = kept /\ EndCommand(t).command = none
        /\ EndCommand(t).in_quotes = s.in_quotes /\ EndCommand(t).inside_token = FALSE
    BY <1>2, <2>1
  <2> QED BY <2>2 DEF kept, none
<1>8. /\ OpenQuote(s).commands = s.commands /\ OpenQuote(s).command = more
      /\ OpenQuote(s).in_quotes = TRUE /\ OpenQuote(s).inside_token = TRUE
      /\ OpenQuote(s).token = <<>>
  <2> DEFINE none == <<>>
  <2>1. OpenQuote(s) = [t EXCEPT !.token = none, !.inside_token = TRUE, !.in_quotes = TRUE]
    BY <1>5
  <2> HIDE DEF none
  <2>2. /\ OpenQuote(s).commands = s.commands /\ OpenQuote(s).command = more
        /\ OpenQuote(s).in_quotes = TRUE /\ OpenQuote(s).inside_token = TRUE
        /\ OpenQuote(s).token = none
    BY <1>2, <2>1
  <2> QED BY <2>2 DEF none
<1>9. /\ t.commands = s.commands /\ t.command = more /\ t.in_quotes = s.in_quotes
      /\ t.inside_token = FALSE
      /\ CloseQuote(s).commands = s.commands /\ CloseQuote(s).command = more
      /\ CloseQuote(s).in_quotes = FALSE /\ CloseQuote(s).inside_token = FALSE
  BY <1>2, <1>4
<1>10. TokenEnded(s)
  BY <1>7, <1>8, <1>9 DEF t, more, TokenEnded
<1> QED BY <1>6, <1>10

(* What ends a token files it. *)
LEMMA TokenEnds ==
  ASSUME NEW W, NEW w \in Seq(W), NEW k \in 0 .. Len(w) - 1, NEW s \in Scanning(W),
         Reads(w, k, s),
         \/ Inside(w, k + 1) /\ w[k + 1] = Quote
         \/ ~Inside(w, k + 1) /\ ~InWord(w, k + 1)
  PROVE  Filed(w, Done(w, k + 1), EndsTo(w, k), s.commands,
               More(s))
<1>0. k \in Nat /\ k \in 0 .. Len(w)
  OBVIOUS
<1>1. Filed(w, Done(w, k), EndsTo(w, k), s.commands, s.command)
  BY DEF Reads
<1>2. /\ Orderly(w, Done(w, k), EndsTo(w, k))
      /\ Done(w, k + 1) = Done(w, k) \cup Ending(w, k)
  BY <1>0, DoneGrows
<1>3. CASE s.inside_token
  <2>1. PICK a : Opens(w, a, k) /\ s.token = SubSeq(w, a, k)
    BY <1>3 DEF Reads
  <2> DEFINE t == <<a, k>>
  <2>2. Ending(w, k) = {t}
    <3>1. \/ Inside(w, k + 1) /\ w[k + 1] = Quote
          \/ InWord(w, k) /\ ~InWord(w, k + 1)
      BY <1>3 DEF Reads
    <3> QED BY <2>1, <3>1, TokensEnd
  <2>3. t[1] = a /\ t[2] = k
    OBVIOUS
  <2> HIDE DEF t
  <2>4. t \notin Done(w, k) /\ \A q \in Done(w, k) : q[2] < t[2]
    BY <1>0, <2>3 DEF Done
  <2>5. EndedAt(w, t) = EndsTo(w, k) /\ t[2] \in Int /\ s.token = SubSeq(w, t[1], t[2])
    BY <1>0, <2>1, <2>3 DEF EndedAt
  <2>6. s.command \in Seq(Seq(W)) /\ s.token \in Seq(W)
    BY DEF Scanning
  <2>7. Filed(w, Done(w, k) \cup {t}, EndsTo(w, k), s.commands,
              Append(s.command, SubSeq(w, t[1], t[2])))
    <3> DEFINE D == Done(w, k)
               e == EndsTo(w, k)
    <3>1. /\ Orderly(w, D, e) /\ Filed(w, D, e, s.commands, s.command)
          /\ t \notin D /\ EndedAt(w, t) = e /\ \A q \in D : q[2] < t[2]
      BY <1>1, <1>2, <2>4, <2>5
    <3>2. SubSeq(w, t[1], t[2]) \in Seq(W)
      BY <2>5, <2>6, Zenon
    <3> HIDE DEF D, e
    <3>3. Filed(w, D \cup {t}, e, s.commands, Append(s.command, SubSeq(w, t[1], t[2])))
      BY <2>5, <2>6, <3>1, <3>2, TokenFiled
    <3> QED BY <3>3 DEF D, e
  <2>8. Filed(w, Done(w, k + 1), EndsTo(w, k), s.commands, Append(s.command, s.token))
    BY <1>2, <2>2, <2>5, <2>7, Zenon
  <2> QED BY <1>3, <2>8 DEF More
<1>4. CASE ~s.inside_token
  <2>1. ~Inside(w, k + 1) /\ ~InWord(w, k)
    BY <1>4 DEF Reads
  <2>2. Ending(w, k) = {}
    BY <1>0, <2>1, TokensGoOn
  <2>3. Done(w, k + 1) = Done(w, k)
    BY <1>2, <2>2
  <2> QED BY <1>1, <1>4, <2>3 DEF More
<1> QED BY <1>3, <1>4

LEMMA SymbolReads ==
  ASSUME NEW W, NEW w \in Seq(W), NEW k \in 0 .. Len(w) - 1, NEW s \in Scanning(W),
         Reads(w, k, s)
  PROVE  Reads(w, k + 1, Symbol(s, w[k + 1]))
<1> DEFINE c == w[k + 1]
           s1 == Symbol(s, c)
           e == EndsTo(w, k)
           more == More(s)
<1>0. k \in Nat /\ k + 1 \in DOMAIN w /\ k \in 0 .. Len(w) /\ k + 1 \in 0 .. Len(w)
      /\ (k + 1) + 1 = k + 2
  OBVIOUS
<1>1. InWord(w, k + 1) <=> ~Inside(w, k + 1) /\ c \notin {Space, Quote, Semicolon, Nul}
  BY <1>0 DEF InWord
<1>2. Inside(w, k + 2) <=> IF c = Quote THEN ~Inside(w, k + 1) ELSE Inside(w, k + 1)
  BY <1>0, InsideNext
<1>3. EndsTo(w, k + 1) = e + (IF ~Inside(w, k + 1) /\ c \in {Semicolon, Nul} THEN 1 ELSE 0)
      /\ e \in Nat
  BY <1>0, EndsGrow DEF EndsAt
<1>4. s.in_quotes <=> Inside(w, k + 1)
  BY DEF Reads
<1>5. /\ s.in_quotes \in BOOLEAN /\ s.inside_token \in BOOLEAN
      /\ s.commands \in Seq(Seq(Seq(W))) /\ more \in Seq(Seq(W))
  <2>1. s.command \in Seq(Seq(W)) /\ s.token \in Seq(W)
    BY DEF Scanning
  <2>2. more \in Seq(Seq(W))
    BY <2>1 DEF More
  <2> QED BY <2>2 DEF Scanning
<1>6. Quote # Space /\ Quote # Semicolon /\ Quote # Nul /\ Space # Semicolon /\ Space # Nul
  BY DEF Quote, Space, Semicolon, Nul
<1>7. \/ Inside(w, k + 1) /\ c = Quote
      \/ ~Inside(w, k + 1) /\ ~InWord(w, k + 1)
      => Filed(w, Done(w, k + 1), e, s.commands, more)
  BY TokenEnds
<1>13. TokenEnded(s)
  BY FieldsAre
<1> HIDE DEF c, e, more
(* Between tokens. *)
<1>8. CASE ~Inside(w, k + 1) /\ c = Space
  <2>1. s1 = EndToken(s)
    BY <1>4, <1>6, <1>8 DEF Symbol
  <2>2. /\ s1.commands = s.commands /\ s1.command = more /\ s1.in_quotes = s.in_quotes
        /\ s1.inside_token = FALSE
    BY <1>13, <2>1, Zenon DEF TokenEnded, more
  <2>3. ~Inside(w, k + 2) /\ ~InWord(w, k + 1) /\ EndsTo(w, k + 1) = e
    BY <1>1, <1>2, <1>3, <1>6, <1>8
  <2> HIDE DEF s1
  <2>4. Reads(w, k + 1, s1)
    BY <1>0, <1>4, <1>7, <1>8, <2>2, <2>3 DEF Reads
  <2> QED BY <2>4 DEF s1, c
(* At the end of a command. *)
<1>9. CASE ~Inside(w, k + 1) /\ c \in {Semicolon, Nul}
  <2>1. s1 = EndCommand(EndToken(s))
    BY <1>4, <1>6, <1>9 DEF Symbol
  <2>2. /\ s1.commands = IF more = <<>> THEN s.commands ELSE Append(s.commands, more)
        /\ s1.command = <<>> /\ s1.in_quotes = s.in_quotes /\ s1.inside_token = FALSE
    BY <1>13, <2>1, Zenon DEF TokenEnded, more
  <2>3. ~Inside(w, k + 2) /\ ~InWord(w, k + 1) /\ EndsTo(w, k + 1) = e + 1
    BY <1>1, <1>2, <1>3, <1>6, <1>9
  <2>4. Filed(w, Done(w, k + 1), e + 1,
              IF more = <<>> THEN s.commands ELSE Append(s.commands, more), <<>>)
    <3>1. Orderly(w, Done(w, k + 1), e) /\ Filed(w, Done(w, k + 1), e, s.commands, more)
      BY <1>0, <1>7, <1>9, <2>3, DoneGrows DEF e
    <3> DEFINE D == Done(w, k + 1)
    <3> HIDE DEF D
    <3>2. Filed(w, D, e + 1, IF more = <<>> THEN s.commands ELSE Append(s.commands, more), <<>>)
      BY <1>5, <3>1, CommandFiled DEF D
    <3> QED BY <3>2 DEF D
  <2> HIDE DEF s1
  <2>5. Filed(w, Done(w, k + 1), EndsTo(w, k + 1), s1.commands, s1.command)
    BY <2>2, <2>3, <2>4, Zenon
  <2>6. Reads(w, k + 1, s1)
    BY <1>0, <1>4, <1>9, <2>2, <2>3, <2>5 DEF Reads
  <2> QED BY <2>6 DEF s1, c
(* At a quote. *)
<1>10. CASE Inside(w, k + 1) /\ c = Quote
  <2>1. s1 = CloseQuote(s)
    BY <1>4, <1>6, <1>10 DEF Symbol
  <2>2. /\ s1.commands = s.commands /\ s1.command = more /\ s1.in_quotes = FALSE
        /\ s1.inside_token = FALSE
    BY <1>13, <2>1, Zenon DEF TokenEnded, more
  <2>3. ~Inside(w, k + 2) /\ ~InWord(w, k + 1) /\ EndsTo(w, k + 1) = e
    BY <1>1, <1>2, <1>3, <1>10
  <2> HIDE DEF s1
  <2>4. Reads(w, k + 1, s1)
    BY <1>0, <1>7, <1>10, <2>2, <2>3 DEF Reads
  <2> QED BY <2>4 DEF s1, c
<1>11. CASE ~Inside(w, k + 1) /\ c = Quote
  <2>1. s1 = OpenQuote(s)
    BY <1>4, <1>6, <1>11 DEF Symbol
  <2>2. /\ s1.commands = s.commands /\ s1.command = more /\ s1.in_quotes = TRUE
        /\ s1.inside_token = TRUE /\ s1.token = <<>>
    BY <1>13, <2>1, Zenon DEF TokenEnded, more
  <2>3. Inside(w, k + 2) /\ ~InWord(w, k + 1) /\ EndsTo(w, k + 1) = e
    BY <1>1, <1>2, <1>3, <1>6, <1>11
  <2>4. Opens(w, k + 2, k + 1) /\ SubSeq(w, k + 2, k + 1) = <<>>
    <3>1. (k + 2) - 1 = k + 1 /\ k + 2 \in 2 .. (k + 1) + 1 /\ k + 2 .. k + 1 = {}
      BY <1>0
    <3>2. Opens(w, k + 2, k + 1)
      BY <1>0, <1>11, <2>3, <3>1 DEF Opens, c
    <3>3. k + 1 \in 1 .. k + 1
      BY <1>0
    <3> QED BY <3>2, <3>3, SubSeqGrows
  <2> HIDE DEF s1
  <2>5. \E a : Opens(w, a, k + 1) /\ s1.token = SubSeq(w, a, k + 1)
    BY <2>2, <2>4, Zenon
  <2>6. Reads(w, k + 1, s1)
    BY <1>0, <1>7, <1>11, <2>2, <2>3, <2>5 DEF Reads
  <2> QED BY <2>6 DEF s1, c
(* Within a token, or at its start. *)
<1>12. CASE c # Quote /\ (Inside(w, k + 1) \/ c \notin {Space, Semicolon, Nul})
  <2>1. s1 = [s EXCEPT !.token = IF s.inside_token THEN Append(@, c) ELSE <<c>>,
                       !.inside_token = TRUE]
    BY <1>4, <1>12 DEF Symbol
  <2>2. /\ s1.commands = s.commands /\ s1.command = s.command /\ s1.in_quotes = s.in_quotes
        /\ s1.inside_token = TRUE
        /\ s1.token = IF s.inside_token THEN Append(s.token, c) ELSE <<c>>
    BY <2>1, FieldsAre
  <2>3. /\ Inside(w, k + 2) <=> Inside(w, k + 1)
        /\ Inside(w, k + 1) \/ InWord(w, k + 1)
        /\ EndsTo(w, k + 1) = e
    BY <1>1, <1>2, <1>3, <1>12
  <2>4. Done(w, k + 1) = Done(w, k)
    <3>1. Ending(w, k) = {}
      <4>1. InWord(w, k) => ~Inside(w, k + 1)
        BY <1>0, WordsAreOutside
      <4> QED BY <1>0, <1>12, <2>3, <4>1, TokensGoOn DEF c
    <3> QED BY <1>0, <3>1, DoneGrows
  <2>5. \E a : Opens(w, a, k + 1) /\ s1.token = SubSeq(w, a, k + 1)
    <3>1. CASE s.inside_token
      <4>1. PICK a : Opens(w, a, k) /\ s.token = SubSeq(w, a, k)
        BY <3>1 DEF Reads
      <4>2. a \in 1 .. k + 1
        BY <1>0, <4>1 DEF Opens
      <4>3. Opens(w, a, k + 1)
        <5>1. CASE Inside(w, k + 1)
          <6>1. ~InWord(w, k)
            BY <1>0, <5>1, WordsAreOutside
          <6>2. /\ a \in 2 .. k + 1 /\ \A i \in a .. k : w[i] # Quote
                /\ w[a - 1] = Quote /\ ~Inside(w, a - 1)
            BY <4>1, <6>1 DEF Opens
          <6>3. a \in 2 .. (k + 1) + 1 /\ \A i \in a .. k + 1 : w[i] # Quote
            BY <1>0, <1>12, <6>2 DEF c
          <6> QED BY <1>0, <2>3, <5>1, <6>2, <6>3 DEF Opens
        <5>2. CASE ~Inside(w, k + 1)
          <6>1. a \in 1 .. k /\ (\A i \in a .. k : InWord(w, i)) /\ ~InWord(w, a - 1)
            BY <4>1, <5>2 DEF Opens
          <6>2. a \in 1 .. k + 1 /\ \A i \in a .. k + 1 : InWord(w, i)
            BY <1>0, <2>3, <5>2, <6>1
          <6> QED BY <2>3, <5>2, <6>1, <6>2 DEF Opens
        <5> QED BY <5>1, <5>2
      <4>4. SubSeq(w, a, k + 1) = Append(SubSeq(w, a, k), c)
        BY <4>2, SubSeqGrows DEF c
      <4>5. s1.token = Append(s.token, c)
        BY <2>2, <3>1
      <4>6. s1.token = SubSeq(w, a, k + 1)
        BY <4>1, <4>4, <4>5, Zenon
      <4> QED BY <4>3, <4>6
    <3>2. CASE ~s.inside_token
      <4>1. ~Inside(w, k + 1) /\ ~InWord(w, k) /\ InWord(w, k + 1)
        BY <2>3, <3>2 DEF Reads
      <4>2. Opens(w, k + 1, k + 1)
        <5>1. (k + 1) - 1 = k /\ k + 1 \in 1 .. k + 1 /\ k + 1 .. k + 1 = {k + 1}
          BY <1>0
        <5> QED BY <4>1, <5>1 DEF Opens
      <4>3. k + 1 \in 1 .. k + 1
        BY <1>0
      <4>4. SubSeq(w, k + 1, k + 1) = <<c>>
        BY <4>3, SubSeqGrows DEF c
      <4>5. s1.token = <<c>>
        BY <2>2, <3>2
      <4>6. s1.token = SubSeq(w, k + 1, k + 1)
        BY <4>4, <4>5, Zenon
      <4> QED BY <4>2, <4>6
    <3> QED BY <3>1, <3>2
  <2>6. Filed(w, Done(w, k + 1), EndsTo(w, k + 1), s1.commands, s1.command)
    <3>1. Filed(w, Done(w, k), e, s.commands, s.command)
      BY DEF Reads, e
    <3> QED BY <2>2, <2>3, <2>4, <3>1
  <2> HIDE DEF s1
  <2>7. Reads(w, k + 1, s1)
    BY <1>0, <1>4, <2>2, <2>3, <2>5, <2>6 DEF Reads
  <2> QED BY <2>7 DEF s1, c
<1> QED BY <1>8, <1>9, <1>10, <1>11, <1>12

LEMMA NothingRead ==
  ASSUME NEW W, NEW w \in Seq(W)
  PROVE  Reads(w, 0, Start)
<1>1. ~Inside(w, 0 + 1) /\ ~InWord(w, 0)
  <2>1. ~Inside(w, 1)
    BY InsideNext
  <2>2. 0 \notin DOMAIN w /\ 0 + 1 = 1
    OBVIOUS
  <2> QED BY <2>1, <2>2 DEF InWord
<1>2. Done(w, 0) = {}
  <2>1. \A r \in Tokens(w) : ~(r[2] < 0)
    BY DEF Tokens, Runs, Quoted
  <2> QED BY <2>1 DEF Done
<1>3. Filed(w, {}, EndsTo(w, 0), <<>>, <<>>)
  <2>1. /\ Before(w, {}, EndsTo(w, 0)) = {} /\ With(w, {}, EndsTo(w, 0)) = {}
        /\ Numbers(w, {}) = {}
    BY DEF Before, With, Numbers
  <2>2. Len(<<>>) = Cardinality({})
    BY FS_EmptySet
  <2> QED BY <2>1, <2>2, Zenon DEF Filed
<1>4. /\ Start.commands = <<>> /\ Start.command = <<>> /\ Start.inside_token = FALSE
      /\ Start.in_quotes = FALSE
  BY DEF Start
<1>5. Filed(w, Done(w, 0), EndsTo(w, 0), Start.commands, Start.command)
  BY <1>2, <1>3, <1>4, Zenon
<1> QED BY <1>1, <1>4, <1>5 DEF Reads

LEMMA AllRead ==
  ASSUME NEW W, NEW w \in Seq(W)
  PROVE  LET end == FoldLeft(Symbol, Start, w)
         IN end \in Scanning(W) /\ Reads(w, Len(w), end)
<1> DEFINE n == Len(w)
           G == {k \in Nat : k <= n => Reads(w, k, After(w, k))}
<1>0. n \in Nat /\ n \in 0 .. n
  OBVIOUS
<1>1. 0 \in G
  BY NothingRead, ScanSteps
<1>2. ASSUME NEW k \in Nat, k \in G PROVE k + 1 \in G
  <2> SUFFICES ASSUME k + 1 <= n PROVE Reads(w, k + 1, After(w, k + 1))
    OBVIOUS
  <2>1. k \in 0 .. n - 1 /\ k \in 0 .. n /\ Reads(w, k, After(w, k))
    BY <1>0, <1>2
  <2>2. After(w, k) \in Scanning(W) /\ After(w, k + 1) = Symbol(After(w, k), w[k + 1])
    BY <2>1, ScanSteps
  <2> HIDE DEF G
  <2> QED BY <2>1, <2>2, SymbolReads
<1> HIDE DEF G
<1>3. n \in G
  BY <1>0, <1>1, <1>2, NaturalsBySuccessor
<1>4. Reads(w, n, After(w, n))
  BY <1>0, <1>3 DEF G
<1> QED BY <1>0, <1>4, ScanSteps

(* All is read once the end of the line is. *)
LEMMA ReadToTheEnd ==
  ASSUME NEW W, NEW line \in Seq(W)
  PROVE  AsWritten(Append(line, Nul), GetTokens(line))
<1> DEFINE w   == Append(line, Nul)
           n   == Len(w)
           V   == W \cup {Nul}
           end == FoldLeft(Symbol, Start, w)
           cut == GetTokens(line)
           T   == Tokens(w)
           e   == EndsTo(w, n)
<1>1. w \in Seq(V) /\ n \in Nat /\ n >= 1 /\ w[n] = Nul /\ n \in 0 .. n
  <2>1. line \in Seq(V) /\ Nul \in V
    OBVIOUS
  <2> HIDE DEF V
  <2> QED BY <2>1
<1>2. cut = [closed |-> ~end.in_quotes,
             commands |-> IF end.in_quotes THEN <<>> ELSE end.commands]
  BY DEF GetTokens
<1> HIDE DEF w, n, V, cut
<1>3. end \in Scanning(V) /\ Reads(w, n, end)
  BY <1>1, AllRead DEF n
<1> HIDE DEF end
<1>4. /\ cut.closed <=> ~end.in_quotes
      /\ ~cut.closed => cut.commands = <<>>
      /\ cut.closed => cut.commands = end.commands
  BY <1>2
<1>5. end.in_quotes <=> Inside(w, n + 1)
  BY <1>3 DEF Reads
<1>6. cut.closed <=> QuotesTo(w, n) % 2 = 0
  <2>1. Inside(w, n + 1) <=> QuotesTo(w, n) % 2 = 1
    BY <1>1, InsideNext
  <2>2. QuotesTo(w, n) \in Nat
    BY <1>1, QuotesGrow
  <2>3. \A m \in Nat : m % 2 = 0 <=> ~(m % 2 = 1)
    OBVIOUS
  <2> QED BY <1>4, <1>5, <2>1, <2>2, <2>3
<1>7. ASSUME cut.closed
      PROVE  /\ Len(cut.commands) = Cardinality(Numbers(w, T))
             /\ \A r \in T :
                  /\ Len(cut.commands[Place(w, T, r)]) = Cardinality(With(w, T, EndedAt(w, r)))
                  /\ cut.commands[Place(w, T, r)][Rank(w, T, r)] = SubSeq(w, r[1], r[2])
  <2>0. n - 1 \in Nat /\ n - 1 \in 0 .. n /\ (n - 1) + 1 = n /\ (n - 1) + 2 = n + 1
    BY <1>1
  <2>1. Quote # Nul
    BY DEF Quote, Nul
  <2>2. ~Inside(w, n + 1) /\ ~Inside(w, n)
    BY <1>1, <1>4, <1>5, <1>7, <2>0, <2>1, InsideNext
  <2>3. EndsTo(w, n) = EndsTo(w, n - 1) + 1 /\ EndsTo(w, n - 1) \in Nat
    <3>1. EndsAt(w, n)
      BY <1>1, <2>2 DEF EndsAt
    <3> QED BY <2>0, <3>1, EndsGrow
  <2>4. T = Done(w, n)
    <3>1. ~InWord(w, n)
      BY <1>1 DEF InWord
    <3>2. Ending(w, n) = {}
      BY <1>1, <2>2, <3>1, TokensGoOn DEF n
    <3>3. \A r \in T : r[2] \in Int /\ r[2] <= n
      BY <1>1 DEF Tokens, Runs, Quoted, n
    <3> QED BY <1>1, <3>2, <3>3 DEF Done, Ending
  <2>5. Before(w, T, e) = T
    <3>1. Orderly(w, T, EndsTo(w, n - 1))
      BY <1>1, <2>0, <2>4, DoneGrows DEF n
    <3> HIDE DEF T
    <3>2. \A r \in T : EndedAt(w, r) < e
      BY <2>3, <3>1 DEF Orderly
    <3> QED BY <3>2 DEF Before
  <2>6. Filed(w, T, e, cut.commands, end.command)
    BY <1>3, <1>4, <1>7, <2>4 DEF Reads
  <2> HIDE DEF T, e
  <2> QED BY <2>5, <2>6 DEF Filed
<1>8. ASSUME NEW r \in T
      PROVE  /\ Cardinality({EndedAt(w, q) : q \in UpTo(T, r)}) = Place(w, T, r)
             /\ {q \in T : EndedAt(w, q) = EndedAt(w, r)} = With(w, T, EndedAt(w, r))
             /\ Cardinality(UpTo({q \in T : EndedAt(w, q) = EndedAt(w, r)}, r)) = Rank(w, T, r)
  BY DEF Place, Numbers, With, Rank
<1>9. AsWritten(w, cut)
  <2>1. AsWritten(w, cut) <=>
          /\ cut.closed <=> QuotesTo(w, n) % 2 = 0
          /\ ~cut.closed => cut.commands = <<>>
          /\ cut.closed =>
               /\ Len(cut.commands) = Cardinality({EndedAt(w, q) : q \in T})
               /\ \A r \in T :
                    LET among   == {q \in T : EndedAt(w, q) = EndedAt(w, r)}
                        command == cut.commands[Cardinality({EndedAt(w, q) : q \in UpTo(T, r)})]
                    IN /\ Len(command) = Cardinality(among)
                       /\ command[Cardinality(UpTo(among, r))] = SubSeq(w, r[1], r[2])
    BY Zenon DEF AsWritten, n
  <2> HIDE DEF T
  <2>2. Numbers(w, T) = {EndedAt(w, q) : q \in T}
    BY DEF Numbers
  <2> QED BY <1>4, <1>6, <1>7, <1>8, <2>1, <2>2
<1> QED BY <1>9 DEF w, cut

(***************************************************************************)
(* For every line, of any length and any symbols, the one pass of the      *)
(* tokenizer (Tokenizer.cpp:24-71) finds the tokens that are written, each *)
(* once and in order, in the commands that semicolons outside quotes keep  *)
(* apart, and refuses just the lines with a quote too many.                *)
(***************************************************************************)
THEOREM LinesAreRead == SSpec => []TokensAreAsWritten
<1>1. TokensAreAsWritten
  <2> SUFFICES ASSUME NEW line \in SeqOf(Symbols, MaxLine)
               PROVE  AsWritten(Append(line, Nul), GetTokens(line))
    BY DEF TokensAreAsWritten
  <2>1. MaxLine \in Nat
    BY SessionAssumption
  <2>2. line \in BoundedSeq(Symbols, MaxLine)
    BY DEF BoundedSeq
  <2>3. line \in Seq(Symbols)
    BY <2>1, <2>2, BoundedSeqs
  <2> QED BY <2>3, ReadToTheEnd
<1> QED BY <1>1, PTL
=============================================================================

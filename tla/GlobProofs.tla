----------------------------- MODULE GlobProofs -----------------------------
(***************************************************************************)
(* Theorems about Glob for every pattern and every text: forgetting all    *)
(* stars but the last loses no match, so the loop returns what trying      *)
(* everything would.  CanMatch and the scan of a class are recursive       *)
(* functions; that they exist follows from one lemma on functions that     *)
(* look only ahead.                                                        *)
(***************************************************************************)
EXTENDS Glob, FoldFacts

(* The scan of a class for the character c, and what it does at i. *)
ScanAt(s, c, i) ==
  IF i > Len(pattern) \/ pattern[i] = Close
    THEN [end |-> i, has |-> FALSE]
  ELSE IF i + 2 <= Len(pattern) /\ pattern[i + 1] = Dash
    THEN [end |-> s[i + 3].end,
          has |-> c \in pattern[i] .. pattern[i + 2] \/ s[i + 3].has]
  ELSE [end |-> s[i + 1].end, has |-> c = pattern[i] \/ s[i + 1].has]

Scan(c) == CHOOSE s : s = [i \in 1 .. Len(pattern) + 1 |-> ScanAt(s, c, i)]

LEMMA ScanExists ==
  ASSUME pattern \in Seq(Int), NEW c
  PROVE  Scan(c) = [i \in 1 .. Len(pattern) + 1 |-> ScanAt(Scan(c), c, i)]
<1> DEFINE N == Len(pattern)
           D == 1 .. N + 1
           V == [end : D, has : BOOLEAN]
           F == [s \in [D -> V] |-> [i \in D |-> ScanAt(s, c, i)]]
<1>0. N \in Nat
  OBVIOUS
<1>1. ASSUME NEW s \in [D -> V], NEW i \in D PROVE ScanAt(s, c, i) \in V
  <2>1. CASE i > N \/ pattern[i] = Close
    BY <2>1 DEF ScanAt
  <2>2. CASE ~(i > N \/ pattern[i] = Close) /\ i + 2 <= N /\ pattern[i + 1] = Dash
    <3>1. i + 3 \in D
      BY <2>2
    <3>2. s[i + 3].end \in D
      BY <3>1
    <3> QED BY <2>2, <3>2 DEF ScanAt
  <2>3. CASE ~(i > N \/ pattern[i] = Close) /\ ~(i + 2 <= N /\ pattern[i + 1] = Dash)
    <3>1. i + 1 \in D
      BY <2>3
    <3>2. s[i + 1].end \in D
      BY <3>1
    <3> QED BY <2>3, <3>2 DEF ScanAt
  <2> QED BY <2>1, <2>2, <2>3
<1>2. F \in [[D -> V] -> [D -> V]]
  BY <1>1
<1>3. ASSUME NEW f \in [D -> V], NEW g \in [D -> V], NEW q \in D,
             \A r \in q + 1 .. N + 1 : f[r] = g[r]
      PROVE  F[f][q] = F[g][q]
  <2>1. ~(q > N) => f[q + 1] = g[q + 1]
    BY <1>3
  <2>2. q + 2 <= N => f[q + 3] = g[q + 3]
    BY <1>3
  <2>3. ScanAt(f, c, q) = ScanAt(g, c, q)
    BY <2>1, <2>2 DEF ScanAt
  <2> QED BY <2>3
<1>4. V # {}
  <2>1. [end |-> 1, has |-> FALSE] \in V
    BY <1>0
  <2> QED BY <2>1
<1> HIDE DEF V
<1>5. PICK s \in [D -> V] : F[s] = s
  <2> HIDE DEF F, N
  <2>1. \A f, g \in [D -> V] : \A q \in D :
          (\A r \in q + 1 .. N + 1 : f[r] = g[r]) => F[f][q] = F[g][q]
    BY <1>3
  <2>2. LooksAhead(F, N, V)
    BY <1>2, <2>1 DEF LooksAhead
  <2> QED BY <1>0, <1>4, <2>2, LookingAhead
<1>6. s = [i \in D |-> ScanAt(s, c, i)]
  BY <1>5
<1> QED BY <1>6 DEF Scan

(* Where a class ends does not depend on the character looked for. *)
LEMMA ScanEnds ==
  ASSUME pattern \in Seq(Int), NEW c
  PROVE  \A i \in 1 .. Len(pattern) + 1 :
           Scan(c)[i].end = Scan(0)[i].end /\ Scan(c)[i].end \in i .. Len(pattern) + 1
<1> DEFINE N == Len(pattern)
           s == Scan(c)
           z == Scan(0)
           G == {i \in 1 .. N + 1 : s[i].end = z[i].end /\ s[i].end \in i .. N + 1}
<1>0. N \in Nat
  OBVIOUS
<1>1. \A i \in 1 .. N + 1 : s[i] = ScanAt(s, c, i) /\ z[i] = ScanAt(z, 0, i)
  BY ScanExists
<1> HIDE DEF s, z
<1>2. ASSUME NEW q \in 1 .. N + 1, \A r \in q + 1 .. N + 1 : r \in G PROVE q \in G
  <2>0. s[q] = ScanAt(s, c, q) /\ z[q] = ScanAt(z, 0, q)
    BY <1>1
  <2>1. CASE q > N \/ pattern[q] = Close
    <3>1. s[q].end = q /\ z[q].end = q
      BY <2>0, <2>1 DEF ScanAt
    <3> QED BY <1>0, <3>1
  <2>2. CASE ~(q > N \/ pattern[q] = Close) /\ q + 2 <= N /\ pattern[q + 1] = Dash
    <3>1. q + 3 \in G
      <4>1. q + 3 \in q + 1 .. N + 1
        BY <1>0, <2>2
      <4> HIDE DEF G
      <4> QED BY <1>2, <4>1
    <3>2. s[q].end = s[q + 3].end /\ z[q].end = z[q + 3].end
      BY <2>0, <2>2 DEF ScanAt
    <3> QED BY <3>1, <3>2
  <2>3. CASE ~(q > N \/ pattern[q] = Close) /\ ~(q + 2 <= N /\ pattern[q + 1] = Dash)
    <3>1. q + 1 \in G
      <4>1. q + 1 \in q + 1 .. N + 1
        BY <1>0, <2>3
      <4> HIDE DEF G
      <4> QED BY <1>2, <4>1
    <3>2. s[q].end = s[q + 1].end /\ z[q].end = z[q + 1].end
      BY <2>0, <2>3 DEF ScanAt
    <3> QED BY <3>1, <3>2
  <2> QED BY <2>1, <2>2, <2>3
<1>3. \A q \in 1 .. N + 1 : q \in G
  <2> HIDE DEF G
  <2> QED BY <1>0, <1>2, Backwards
<1> QED BY <1>3 DEF s, z

(* What stands for one character ends within the pattern. *)
LEMMA OneCharacter ==
  ASSUME pattern \in Seq(Int), NEW q \in 1 .. Len(pattern), NEW c, Accepts(q, c)
  PROVE  After(q) \in q + 1 .. Len(pattern) + 1
<1>1. CASE pattern[q] = Escape
  BY <1>1 DEF Accepts, After, Escape, AnyOne, Open
<1>2. CASE pattern[q] = Open
  <2> DEFINE first == IF Negated(q) THEN q + 2 ELSE q + 1
  <2>1. Class(q, c) = Scan(c)[first] /\ Class(q, 0) = Scan(0)[first]
    BY DEF Class, Scan, ScanAt
  <2>2. first \in q + 1 .. Len(pattern) + 1
    BY DEF Negated
  <2>3. Class(q, c).end <= Len(pattern)
    BY <1>2 DEF Accepts, Escape, AnyOne, Open
  <2>4. After(q) = Class(q, 0).end + 1
    BY <1>2 DEF After, Escape, Open
  <2> HIDE DEF first
  <2>5. Scan(c)[first].end = Scan(0)[first].end /\ Scan(c)[first].end \in first .. Len(pattern) + 1
    BY <2>2, ScanEnds
  <2> QED BY <2>1, <2>2, <2>3, <2>4, <2>5
<1>3. CASE pattern[q] # Escape /\ pattern[q] # Open
  BY <1>3 DEF After
<1> QED BY <1>1, <1>2, <1>3

-----------------------------------------------------------------------------
(* What CanMatch is at q and u, for a function that gives the answers later
   in the pattern. *)
MatchAt(m, q, u) ==
  IF q > Len(pattern) THEN u > Len(text)
  ELSE IF pattern[q] = Star THEN \E v \in u .. Len(text) + 1 : m[q + 1][v]
  ELSE u <= Len(text) /\ Accepts(q, text[u]) /\ m[After(q)][u + 1]

LEMMA CanMatchExists ==
  ASSUME pattern \in Seq(Int), text \in Seq(Int)
  PROVE  CanMatch = [q \in 1 .. Len(pattern) + 1 |->
                       [u \in 1 .. Len(text) + 1 |-> MatchAt(CanMatch, q, u)]]
<1> DEFINE N == Len(pattern)
           U == 1 .. Len(text) + 1
           D == 1 .. N + 1
           V == [U -> BOOLEAN]
           F == [m \in [D -> V] |-> [q \in D |-> [u \in U |-> MatchAt(m, q, u)]]]
<1>0. N \in Nat
  OBVIOUS
<1>1. ASSUME NEW m \in [D -> V], NEW q \in D, NEW u \in U PROVE MatchAt(m, q, u) \in BOOLEAN
  <2>1. CASE q > N
    BY <2>1 DEF MatchAt
  <2>2. CASE ~(q > N) /\ pattern[q] = Star
    BY <2>2, Zenon DEF MatchAt
  <2>3. CASE q <= N /\ pattern[q] # Star /\ u <= Len(text) /\ Accepts(q, text[u])
    <3>1. After(q) \in D /\ u + 1 \in U
      BY <2>3, OneCharacter
    <3>2. m[After(q)][u + 1] \in BOOLEAN
      BY <3>1
    <3> QED BY <2>3, <3>2 DEF MatchAt
  <2>4. CASE ~(q > N) /\ pattern[q] # Star /\ ~(u <= Len(text) /\ Accepts(q, text[u]))
    BY <2>4, Zenon DEF MatchAt
  <2> QED BY <1>0, <2>1, <2>2, <2>3, <2>4
<1>2. F \in [[D -> V] -> [D -> V]]
  BY <1>1
<1>3. ASSUME NEW f \in [D -> V], NEW g \in [D -> V], NEW q \in D,
             \A r \in q + 1 .. N + 1 : f[r] = g[r]
      PROVE  F[f][q] = F[g][q]
  <2>1. q <= N => f[q + 1] = g[q + 1]
    BY <1>3
  <2>2. ASSUME NEW u \in U, q <= N, Accepts(q, text[u]) PROVE f[After(q)] = g[After(q)]
    <3>1. After(q) \in q + 1 .. N + 1
      BY <2>2, OneCharacter
    <3> QED BY <1>3, <3>1
  <2>3. \A u \in U : MatchAt(f, q, u) = MatchAt(g, q, u)
    <3> TAKE u \in U
    <3>1. CASE q > N
      BY <3>1 DEF MatchAt
    <3>2. CASE q <= N /\ pattern[q] = Star
      BY <2>1, <3>2 DEF MatchAt
    <3>3. CASE q <= N /\ pattern[q] # Star
      BY <2>2, <3>3 DEF MatchAt
    <3> QED BY <1>0, <3>1, <3>2, <3>3
  <2> QED BY <2>3
<1>4. V # {}
  <2>1. [u \in U |-> TRUE] \in V
    OBVIOUS
  <2> QED BY <2>1
<1>5. PICK m \in [D -> V] : F[m] = m
  <2> HIDE DEF F, N, V
  <2>1. \A f, g \in [D -> V] : \A q \in D :
          (\A r \in q + 1 .. N + 1 : f[r] = g[r]) => F[f][q] = F[g][q]
    BY <1>3
  <2>2. LooksAhead(F, N, V)
    BY <1>2, <2>1 DEF LooksAhead
  <2> QED BY <1>0, <1>4, <2>2, LookingAhead
<1>6. m = [q \in D |-> [u \in U |-> MatchAt(m, q, u)]]
  BY <1>5
<1> QED BY <1>6 DEF CanMatch, MatchAt

(* The definition, case by case. *)
LEMMA NothingLeft ==
  ASSUME pattern \in Seq(Int), text \in Seq(Int), NEW u \in 1 .. Len(text) + 1
  PROVE  CanMatch[Len(pattern) + 1][u] <=> u = Len(text) + 1
<1>1. CanMatch[Len(pattern) + 1][u] = MatchAt(CanMatch, Len(pattern) + 1, u)
  BY CanMatchExists
<1>2. Len(pattern) + 1 > Len(pattern) /\ (u > Len(text) <=> u = Len(text) + 1)
  OBVIOUS
<1> QED BY <1>1, <1>2, Zenon DEF MatchAt

LEMMA StarTakesAny ==
  ASSUME pattern \in Seq(Int), text \in Seq(Int), NEW u \in 1 .. Len(text) + 1,
         NEW q \in 1 .. Len(pattern), pattern[q] = Star
  PROVE  CanMatch[q][u] <=> \E v \in u .. Len(text) + 1 : CanMatch[q + 1][v]
<1>1. CanMatch[q][u] = MatchAt(CanMatch, q, u)
  BY CanMatchExists
<1> QED BY <1>1 DEF MatchAt

LEMMA OthersTakeOne ==
  ASSUME pattern \in Seq(Int), text \in Seq(Int), NEW u \in 1 .. Len(text) + 1,
         NEW q \in 1 .. Len(pattern), pattern[q] # Star
  PROVE  CanMatch[q][u] <=> u <= Len(text) /\ Accepts(q, text[u]) /\ CanMatch[After(q)][u + 1]
<1>1. CanMatch[q][u] = MatchAt(CanMatch, q, u)
  BY CanMatchExists
<1>2. ~(q > Len(pattern))
  OBVIOUS
<1> QED BY <1>1, <1>2, Zenon DEF MatchAt

(* Nothing is left of the text: only stars can take that. *)
LEMMA OnlyStarsTakeNothing ==
  ASSUME pattern \in Seq(Int), text \in Seq(Int)
  PROVE  \A q \in 1 .. Len(pattern) + 1 :
           CanMatch[q][Len(text) + 1] <=> \A i \in q .. Len(pattern) : pattern[i] = Star
<1> DEFINE N == Len(pattern)
           M == Len(text)
           Stars(q) == \A i \in q .. N : pattern[i] = Star
           G == {q \in 1 .. N + 1 : CanMatch[q][M + 1] <=> Stars(q)}
<1>0. N \in Nat /\ M \in Nat /\ M + 1 \in 1 .. M + 1
  OBVIOUS
<1>1. ASSUME NEW q \in 1 .. N + 1, \A r \in q + 1 .. N + 1 : r \in G PROVE q \in G
  <2>1. CASE q = N + 1
    BY <1>0, <2>1, NothingLeft
  <2>2. CASE q <= N /\ pattern[q] = Star
    <3>1. q + 1 \in G /\ q \in 1 .. N
      BY <1>0, <1>1, <2>2, SMTT(30)
    <3>2. CanMatch[q][M + 1] <=> \E v \in M + 1 .. M + 1 : CanMatch[q + 1][v]
      BY <1>0, <2>2, <3>1, StarTakesAny, ZenonT(60)
    <3>3. CanMatch[q][M + 1] <=> CanMatch[q + 1][M + 1]
      <4>1. M + 1 .. M + 1 = {M + 1}
        BY <1>0
      <4> QED BY <3>2, <4>1, Zenon
    <3>4. Stars(q) <=> Stars(q + 1)
      BY <1>0, <2>2
    <3> QED BY <3>1, <3>3, <3>4
  <2>3. CASE q <= N /\ pattern[q] # Star
    <3>1. q \in 1 .. N
      BY <1>0, <2>3
    <3>2. ~CanMatch[q][M + 1]
      <4>1. ~(M + 1 <= M)
        BY <1>0
      <4> QED BY <1>0, <2>3, <3>1, <4>1, OthersTakeOne, Zenon
    <3>3. ~Stars(q)
      BY <2>3, <3>1
    <3> QED BY <3>2, <3>3
  <2> QED BY <1>0, <2>1, <2>2, <2>3
<1>2. \A q \in 1 .. N + 1 : q \in G
  <2> HIDE DEF G
  <2> QED BY <1>0, <1>1, Backwards
<1> QED BY <1>2

(* What can match is a matter of the arguments alone. *)
LEMMA SameArguments ==
  ASSUME UNCHANGED <<pattern, text>>
  PROVE  /\ CanMatch' = CanMatch /\ Len(pattern)' = Len(pattern) /\ Len(text)' = Len(text)
         /\ \A q : After(q)' = After(q)
  BY DEF CanMatch, Accepts, After, Class, Negated

-----------------------------------------------------------------------------
Typed == pattern \in Seq(Int) /\ text \in Seq(Int) /\ result \in {"running", "match", "no match"}

Cursors ==
  /\ p \in 1 .. Len(pattern) + 1 /\ t \in 1 .. Len(text) + 1
  /\ p_star \in 0 .. p - 1 /\ t_star \in 0 .. t

(***************************************************************************)
(* What the pattern has between the last star and the cursor takes one     *)
(* character each, t - t_star in all: a match in which that star takes     *)
(* more goes through the cursor p, further on in the text.                 *)
(***************************************************************************)
GoesThrough ==
  p_star # 0 =>
    \A u \in t_star + 1 .. Len(text) + 1 :
      CanMatch[p_star + 1][u] =>
        u + (t - t_star) <= Len(text) + 1 /\ CanMatch[p][u + (t - t_star)]

IInv == Typed /\ NothingLost /\ GoesThrough /\ AnswerIsRight

(* The two ways a match can still come about. *)
Onwards  == CanMatch[p][t]
LastStar == p_star # 0 /\ \E u \in t_star + 1 .. Len(text) + 1 : CanMatch[p_star + 1][u]

LEMMA Parts == NothingLost <=> Cursors /\ (Running => (CanMatch[1][1] <=> Onwards \/ LastStar))
  BY Zenon DEF NothingLost, Cursors, Onwards, LastStar

LEMMA Bounds ==
  IInv => /\ pattern \in Seq(Int) /\ text \in Seq(Int)
          /\ Len(text) \in Nat /\ Len(pattern) \in Nat
          /\ Cursors
<1>1. IInv => Cursors
  BY Parts DEF IInv
<1>2. IInv => pattern \in Seq(Int) /\ text \in Seq(Int)
  BY DEF IInv, Typed
<1> QED BY <1>1, <1>2

(***************************************************************************)
(* At a new star all that the last one could still do is within what the   *)
(* new one can: it comes by this star, and further on in the text.         *)
(***************************************************************************)
LEMMA StarStep ==
  ASSUME IInv, TakeStar
  PROVE  Cursors' /\ (Onwards \/ LastStar <=> (Onwards \/ LastStar)') /\ GoesThrough'
<1> DEFINE M == Len(text)
<1>0. /\ pattern \in Seq(Int) /\ text \in Seq(Int) /\ M \in Nat /\ Len(pattern) \in Nat
      /\ UNCHANGED <<pattern, text>>
      /\ p \in 1 .. Len(pattern) /\ pattern[p] = Star /\ t \in 1 .. M
      /\ p_star \in 0 .. p - 1 /\ t_star \in 0 .. t
      /\ p' = p + 1 /\ t' = t /\ p_star' = p /\ t_star' = t
  BY Bounds DEF Cursors, TakeStar, Matching, AtStar
<1>1. CanMatch' = CanMatch /\ Len(pattern)' = Len(pattern) /\ Len(text)' = Len(text)
  BY <1>0, SameArguments
<1>2. Onwards <=> \E v \in t .. M + 1 : CanMatch[p + 1][v]
  <2>1. t \in 1 .. M + 1
    BY <1>0
  <2> QED BY <1>0, <2>1, StarTakesAny, Zenon DEF Onwards
<1>3. Onwards' <=> CanMatch[p + 1][t]
  BY <1>0, <1>1 DEF Onwards
<1>4. LastStar' <=> \E v \in t + 1 .. M + 1 : CanMatch[p + 1][v]
  BY <1>0, <1>1, SMTT(30) DEF LastStar
<1>5. LastStar => Onwards
  <2> SUFFICES ASSUME LastStar PROVE Onwards
    OBVIOUS
  <2>1. PICK u \in t_star + 1 .. M + 1 : CanMatch[p_star + 1][u]
    BY DEF LastStar
  <2> DEFINE w == u + (t - t_star)
  <2>2. w <= M + 1 /\ CanMatch[p][w]
    BY <2>1 DEF LastStar, IInv, GoesThrough
  <2>3. w \in 1 .. M + 1 /\ w > t
    BY <1>0, <2>2
  <2>4. PICK v \in w .. M + 1 : CanMatch[p + 1][v]
    <3> HIDE DEF w
    <3> QED BY <1>0, <2>2, <2>3, StarTakesAny, Zenon
  <2>5. v \in t .. M + 1
    BY <1>0, <2>3
  <2> QED BY <1>2, <2>4, <2>5
<1>6. t .. M + 1 = {t} \cup (t + 1 .. M + 1)
  BY <1>0
<1>7. Onwards <=> Onwards' \/ LastStar'
  BY <1>2, <1>3, <1>4, <1>6, Zenon
<1>8. Cursors'
  BY <1>0, <1>1 DEF Cursors
<1>9. GoesThrough'
  BY <1>0, <1>1 DEF GoesThrough
<1> QED BY <1>5, <1>7, <1>8, <1>9

LEMMA AdvanceStep ==
  ASSUME IInv, Advance
  PROVE  Cursors' /\ (Onwards \/ LastStar <=> (Onwards \/ LastStar)') /\ GoesThrough'
<1> DEFINE M == Len(text)
<1>0. /\ pattern \in Seq(Int) /\ text \in Seq(Int) /\ M \in Nat /\ Len(pattern) \in Nat
      /\ UNCHANGED <<pattern, text, p_star, t_star>>
      /\ p \in 1 .. Len(pattern) /\ pattern[p] # Star /\ t \in 1 .. M
      /\ Accepts(p, text[t])
      /\ p_star \in 0 .. p - 1 /\ t_star \in 0 .. t
      /\ p' = After(p) /\ t' = t + 1
  <2>1. /\ pattern \in Seq(Int) /\ text \in Seq(Int) /\ Cursors
        /\ M \in Nat /\ Len(pattern) \in Nat
    BY Bounds
  <2>2. /\ ~AtStar /\ p <= Len(pattern) /\ t <= M /\ Accepts(p, text[t])
        /\ UNCHANGED <<pattern, text, p_star, t_star>> /\ p' = After(p) /\ t' = t + 1
    BY DEF Advance, Matching, Fits
  <2>3. p \in 1 .. Len(pattern) /\ t \in 1 .. M
    BY <2>1, <2>2 DEF Cursors
  <2>4. pattern[p] # Star
    BY <2>2 DEF AtStar
  <2>5. p_star \in 0 .. p - 1 /\ t_star \in 0 .. t
    BY <2>1 DEF Cursors
  <2> QED BY <2>1, <2>2, <2>3, <2>4, <2>5
<1>1. CanMatch' = CanMatch /\ Len(pattern)' = Len(pattern) /\ Len(text)' = Len(text)
  BY <1>0, SameArguments
<1>2. After(p) \in p + 1 .. Len(pattern) + 1
  BY <1>0, OneCharacter
<1>3. Cursors'
  BY <1>0, <1>1, <1>2, SMTT(30) DEF Cursors
<1>4. LastStar' <=> LastStar
  BY <1>0, <1>1 DEF LastStar
<1>5. Onwards <=> Onwards'
  <2>1. t \in 1 .. M + 1 /\ t <= M
    BY <1>0
  <2>2. CanMatch[p][t] <=> CanMatch[After(p)][t + 1]
    BY <1>0, <2>1, OthersTakeOne, Zenon
  <2> QED BY <1>0, <1>1, <2>2 DEF Onwards
<1>6. GoesThrough'
  <2> SUFFICES ASSUME p_star # 0, NEW u \in t_star + 1 .. M + 1, CanMatch[p_star + 1][u]
               PROVE  u + (t + 1 - t_star) <= M + 1 /\ CanMatch[After(p)][u + (t + 1 - t_star)]
    BY <1>0, <1>1, SMTT(30) DEF GoesThrough
  <2> DEFINE w == u + (t - t_star)
  <2>1. w <= M + 1 /\ CanMatch[p][w]
    BY DEF IInv, GoesThrough
  <2>2. w \in 1 .. M + 1
    BY <1>0, <2>1
  <2>3. w <= M /\ CanMatch[After(p)][w + 1]
    <3> HIDE DEF w
    <3> QED BY <1>0, <2>1, <2>2, OthersTakeOne, Zenon
  <2>4. w + 1 = u + (t + 1 - t_star)
    BY <1>0
  <2> QED BY <2>2, <2>3, <2>4
<1> QED BY <1>3, <1>4, <1>5, <1>6

(* A mismatch rules the cursor out; a turn back is the last star's next
   choice. *)
LEMMA Mismatch ==
  ASSUME IInv, Matching, ~AtStar, ~Fits
  PROVE  ~Onwards
<1> DEFINE M == Len(text)
<1>0. /\ pattern \in Seq(Int) /\ text \in Seq(Int) /\ M \in Nat /\ Len(pattern) \in Nat
      /\ p \in 1 .. Len(pattern) + 1 /\ t \in 1 .. M + 1 /\ t # M + 1
  BY Bounds DEF Cursors, Matching
<1>1. CASE p = Len(pattern) + 1
  BY <1>0, <1>1, NothingLeft DEF Onwards
<1>2. CASE p \in 1 .. Len(pattern)
  <2>1. pattern[p] # Star /\ ~Accepts(p, text[t])
    BY <1>2 DEF AtStar, Fits
  <2> QED BY <1>0, <1>2, <2>1, OthersTakeOne, Zenon DEF Onwards
<1>3. p = Len(pattern) + 1 \/ p \in 1 .. Len(pattern)
  BY <1>0
<1> QED BY <1>1, <1>2, <1>3, Zenon

LEMMA BacktrackStep ==
  ASSUME IInv, Backtrack
  PROVE  Cursors' /\ (Onwards \/ LastStar <=> (Onwards \/ LastStar)') /\ GoesThrough'
<1> DEFINE M == Len(text)
<1>0. /\ M \in Nat /\ Len(pattern) \in Nat
      /\ UNCHANGED <<pattern, text, p_star>>
      /\ p \in 1 .. Len(pattern) + 1 /\ t \in 1 .. M
      /\ p_star \in 1 .. p - 1 /\ t_star \in 0 .. t
      /\ p' = p_star + 1 /\ t' = t_star + 1 /\ t_star' = t_star + 1
  BY Bounds DEF Cursors, Backtrack, Matching
<1>1. CanMatch' = CanMatch /\ Len(pattern)' = Len(pattern) /\ Len(text)' = Len(text)
  BY <1>0, SameArguments
<1>2. ~Onwards
  BY Mismatch DEF Backtrack
<1>3. Cursors'
  BY <1>0, <1>1 DEF Cursors
<1>4. Onwards' <=> CanMatch[p_star + 1][t_star + 1]
  BY <1>0, <1>1 DEF Onwards
<1>5. LastStar' <=> \E u \in t_star + 1 + 1 .. M + 1 : CanMatch[p_star + 1][u]
  BY <1>0, <1>1 DEF LastStar
<1>6. LastStar <=> \E u \in t_star + 1 .. M + 1 : CanMatch[p_star + 1][u]
  BY <1>0 DEF LastStar
<1>7. t_star + 1 .. M + 1 = {t_star + 1} \cup (t_star + 1 + 1 .. M + 1)
  BY <1>0
<1>8. LastStar <=> Onwards' \/ LastStar'
  BY <1>4, <1>5, <1>6, <1>7, Zenon
<1>9. GoesThrough'
  <2> SUFFICES ASSUME NEW u \in t_star + 1 + 1 .. M + 1, CanMatch[p_star + 1][u]
               PROVE  u + (t_star + 1 - (t_star + 1)) <= M + 1
                      /\ CanMatch[p_star + 1][u + (t_star + 1 - (t_star + 1))]
    BY <1>0, <1>1 DEF GoesThrough
  <2>1. u + (t_star + 1 - (t_star + 1)) = u
    BY <1>0
  <2> QED BY <1>0, <2>1
<1> QED BY <1>2, <1>3, <1>8, <1>9

(* The text is used up: the last star can take no more, and what is left of
   the pattern has to take nothing. *)
LEMMA EndStep ==
  ASSUME IInv, End
  PROVE  result' = "match" <=> CanMatch[1][1]
<1> DEFINE M == Len(text)
<1>0. /\ pattern \in Seq(Int) /\ text \in Seq(Int) /\ M \in Nat
      /\ p \in 1 .. Len(pattern) + 1 /\ t \in 1 .. M + 1 /\ t > M /\ t_star \in 0 .. t
  BY Bounds DEF Cursors, End
<1>a. t = M + 1
  BY <1>0
<1>1. ~LastStar
  <2> SUFFICES ASSUME LastStar PROVE FALSE
    OBVIOUS
  <2>1. PICK u \in t_star + 1 .. M + 1 : CanMatch[p_star + 1][u]
    BY DEF LastStar
  <2>2. u + (t - t_star) <= M + 1
    BY <2>1 DEF LastStar, IInv, GoesThrough
  <2> QED BY <1>0, <1>a, <2>2
<1>2. CanMatch[1][1] <=> Onwards
  BY <1>1, Parts, Zenon DEF IInv, End
<1>3. Onwards <=> \A i \in p .. Len(pattern) : pattern[i] = Star
  BY <1>0, <1>a, OnlyStarsTakeNothing, Zenon DEF Onwards
<1>4. result' = "match" <=> \A i \in p .. Len(pattern) : pattern[i] = Star
  BY DEF End
<1> QED BY <1>2, <1>3, <1>4, Zenon

-----------------------------------------------------------------------------
LEMMA InvariantStart == Init => IInv
<1> SUFFICES ASSUME Init PROVE IInv
  OBVIOUS
<1>0. pattern \in Seq(Int) /\ text \in Seq(Int)
  BY GlobAssumption DEF Init
<1>1. Typed /\ Running
  BY <1>0 DEF Init, Typed, Running
<1>2. p = 1 /\ t = 1 /\ p_star = 0 /\ t_star = 0
  BY DEF Init
<1>3. Cursors
  <2>1. Len(pattern) \in Nat /\ Len(text) \in Nat
    BY <1>0
  <2> QED BY <1>2, <2>1 DEF Cursors
<1>4. CanMatch[1][1] <=> Onwards \/ LastStar
  BY <1>2, Zenon DEF Onwards, LastStar
<1>5. GoesThrough /\ AnswerIsRight
  BY <1>1, <1>2 DEF GoesThrough, AnswerIsRight
<1> QED BY <1>1, <1>3, <1>4, <1>5, Parts DEF IInv

LEMMA InvariantStep == IInv /\ [Next]_vars => IInv'
<1> SUFFICES ASSUME IInv, [Next]_vars PROVE IInv'
  OBVIOUS
<1>0. /\ Typed /\ Cursors /\ (Running => (CanMatch[1][1] <=> Onwards \/ LastStar))
      /\ GoesThrough /\ AnswerIsRight
  BY Parts DEF IInv
<1>1. ASSUME UNCHANGED <<pattern, text, result>>, Running,
             Cursors', Onwards \/ LastStar <=> (Onwards \/ LastStar)', GoesThrough'
      PROVE  IInv'
  <2>1. Typed' /\ Running'
    BY <1>0, <1>1 DEF Typed, Running
  <2>2. CanMatch' = CanMatch
    BY <1>1, SameArguments
  <2>3. (CanMatch[1][1] <=> Onwards \/ LastStar)'
    BY <1>0, <1>1, <2>2, Zenon
  <2>4. NothingLost'
    BY <1>1, <2>3, Parts, PTL
  <2>5. AnswerIsRight'
    BY <2>1 DEF AnswerIsRight
  <2> QED BY <1>1, <2>1, <2>4, <2>5 DEF IInv
<1>2. CASE TakeStar
  <2>1. UNCHANGED <<pattern, text, result>> /\ Running
    BY <1>2 DEF TakeStar, Matching
  <2> QED BY <1>1, <1>2, <2>1, StarStep
<1>3. CASE Advance
  <2>1. UNCHANGED <<pattern, text, result>> /\ Running
    BY <1>3 DEF Advance, Matching
  <2> QED BY <1>1, <1>3, <2>1, AdvanceStep
<1>4. CASE Backtrack
  <2>1. UNCHANGED <<pattern, text, result>> /\ Running
    BY <1>4 DEF Backtrack, Matching
  <2> QED BY <1>1, <1>4, <2>1, BacktrackStep
<1>5. ASSUME UNCHANGED <<pattern, text, p, t, p_star, t_star>>,
             result' \in {"match", "no match"}, result' = "match" <=> CanMatch[1][1]
      PROVE  IInv'
  <2>1. Typed' /\ ~Running'
    BY <1>0, <1>5 DEF Typed, Running
  <2>2. CanMatch' = CanMatch
    BY <1>5, SameArguments
  <2>3. Cursors' /\ GoesThrough'
    BY <1>0, <1>5, <2>2 DEF Cursors, GoesThrough
  <2>4. NothingLost'
    BY <2>1, <2>3, Parts, PTL
  <2>5. AnswerIsRight'
    BY <1>5, <2>2, Zenon DEF AnswerIsRight
  <2> QED BY <2>1, <2>3, <2>4, <2>5 DEF IInv
<1>6. CASE Fail
  <2>1. ~LastStar /\ ~Onwards /\ Running
    BY <1>6, Mismatch DEF Fail, LastStar, Matching
  <2>2. ~CanMatch[1][1]
    BY <1>0, <2>1, Zenon
  <2> QED BY <1>5, <1>6, <2>2 DEF Fail
<1>7. CASE End
  <2>1. result' \in {"match", "no match"} /\ UNCHANGED <<pattern, text, p, t, p_star, t_star>>
    BY <1>7 DEF End
  <2> QED BY <1>5, <1>7, <2>1, EndStep
<1>8. CASE UNCHANGED vars
  <2>1. UNCHANGED <<pattern, text, p, t, p_star, t_star, result>>
    BY <1>8 DEF vars
  <2>2. CanMatch' = CanMatch
    BY <2>1, SameArguments
  <2> QED BY <2>1, <2>2 DEF IInv, Typed, NothingLost, GoesThrough, AnswerIsRight, Running
<1> QED BY <1>2, <1>3, <1>4, <1>6, <1>7, <1>8 DEF Next

(***************************************************************************)
(* At every turn of the loop, with the cursor somewhere in the pattern and *)
(* the last star only to go back to, nothing that could match is lost.     *)
(***************************************************************************)
THEOREM NothingIsLost == Spec => []NothingLost
<1>1. IInv => NothingLost
  BY DEF IInv
<1> QED BY <1>1, InvariantStart, InvariantStep, PTL DEF Spec

(***************************************************************************)
(* What the loop returns is what trying every number of characters for     *)
(* every star would: for all patterns, well formed or not, and all texts.  *)
(***************************************************************************)
THEOREM AnswersAreRight == Spec => []AnswerIsRight
<1>1. IInv => AnswerIsRight
  BY DEF IInv
<1> QED BY <1>1, InvariantStart, InvariantStep, PTL DEF Spec

(***************************************************************************)
(* Why the loop ends, although it goes back: each turn moves the last star *)
(* on, or what it has taken, or else the cursor in the text, and none of   *)
(* them ever leaves the pattern or the text (NothingLost).                 *)
(***************************************************************************)
TurnsRise ==
  [][\/ ~Running'
     \/ p_star' > p_star
     \/ p_star' = p_star /\ t_star' > t_star
     \/ p_star' = p_star /\ t_star' = t_star /\ t' > t]_vars

THEOREM EveryTurnRises == Spec => TurnsRise
<1>1. ASSUME IInv, [Next]_vars
      PROVE  [\/ ~Running'
              \/ p_star' > p_star
              \/ p_star' = p_star /\ t_star' > t_star
              \/ p_star' = p_star /\ t_star' = t_star /\ t' > t]_vars
  <2>0. Cursors
    BY <1>1, Bounds
  <2>1. CASE TakeStar
    BY <2>0, <2>1 DEF TakeStar, Cursors
  <2>2. CASE Advance
    BY <2>0, <2>2 DEF Advance, Cursors
  <2>3. CASE Backtrack
    BY <2>0, <2>3 DEF Backtrack, Cursors
  <2>4. CASE Fail \/ End
    BY <2>4 DEF Fail, End, Running
  <2> QED BY <1>1, <2>1, <2>2, <2>3, <2>4 DEF Next
<1> QED BY <1>1, InvariantStart, InvariantStep, PTL DEF Spec, TurnsRise
=============================================================================

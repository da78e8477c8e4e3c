-------------------------------- MODULE Glob --------------------------------
(***************************************************************************)
(* The matcher behind KEYS (MatchGlobPattern, DaikonDB_Common.cpp): one    *)
(* pass over the text with a cursor in the pattern, which on a mismatch    *)
(* goes back to the last star only and lets that star take one character   *)
(* more.  Each turn of the loop is a step here, and what it returns is     *)
(* compared with a definition of matching that tries everything.           *)
(*                                                                         *)
(* Characters are their codes; indices count from 1, and a p_star of 0 is  *)
(* npos.                                                                   *)
(***************************************************************************)
EXTENDS Integers, Sequences, FiniteSets

CONSTANTS Patterns, Texts   \* what it is called with (a bound)

ASSUME GlobAssumption == Patterns \subseteq Seq(Int) /\ Texts \subseteq Seq(Int)

VARIABLES
  pattern, text,   \* the arguments
  p, t,            \* the cursors
  p_star, t_star,  \* the last star, and the first character it has not taken
  result           \* "running", or the value returned

vars == <<pattern, text, p, t, p_star, t_star, result>>

(* '*', '?' and the other characters with a meaning of their own. *)
Star   == 42
Dash   == 45
AnyOne == 63
Open   == 91
Escape == 92
Close  == 93
Caret  == 94

Running == result = "running"

Init == /\ pattern \in Patterns /\ text \in Texts
        /\ p = 1 /\ t = 1
        /\ p_star = 0 /\ t_star = 0
        /\ result = "running"

-----------------------------------------------------------------------------
(***************************************************************************)
(* The class that opens at q: where its bracket closes (past the pattern   *)
(* if it does not) and whether it has c.  Any character may end a range,   *)
(* the closing bracket too.                                                *)
(***************************************************************************)
Negated(q) == q < Len(pattern) /\ pattern[q + 1] = Caret

Class(q, c) ==
  LET scan[i \in 1 .. Len(pattern) + 1] ==
        IF i > Len(pattern) \/ pattern[i] = Close
          THEN [end |-> i, has |-> FALSE]
        ELSE IF i + 2 <= Len(pattern) /\ pattern[i + 1] = Dash
          THEN [end |-> scan[i + 3].end,
                has |-> c \in pattern[i] .. pattern[i + 2] \/ scan[i + 3].has]
        ELSE [end |-> scan[i + 1].end, has |-> c = pattern[i] \/ scan[i + 1].has]
  IN scan[IF Negated(q) THEN q + 2 ELSE q + 1]

(* What stands at q in the pattern (not a star) takes the character c ... *)
Accepts(q, c) ==
  CASE pattern[q] = Escape -> q < Len(pattern) /\ pattern[q + 1] = c
    [] pattern[q] = AnyOne    -> TRUE
    [] pattern[q] = Open   -> /\ Class(q, c).end <= Len(pattern)
                              /\ Class(q, c).has # Negated(q)
    [] OTHER               -> pattern[q] = c

(* ... and what follows it stands here. *)
After(q) == CASE pattern[q] = Escape -> q + 2
              [] pattern[q] = Open   -> Class(q, 0).end + 1
              [] OTHER               -> q + 1

-----------------------------------------------------------------------------
Matching == Running /\ t <= Len(text)
AtStar   == p <= Len(pattern) /\ pattern[p] = Star
Fits     == p <= Len(pattern) /\ Accepts(p, text[t])

TakeStar ==
  /\ Matching /\ AtStar
  /\ p_star' = p /\ p' = p + 1 /\ t_star' = t
  /\ UNCHANGED <<pattern, text, t, result>>

Advance ==
  /\ Matching /\ ~AtStar /\ Fits
  /\ p' = After(p) /\ t' = t + 1
  /\ UNCHANGED <<pattern, text, p_star, t_star, result>>

(* Slips: the text is not taken back, or the star takes nothing more. *)
BacktrackPatternOnly ==
  /\ Matching /\ ~AtStar /\ ~Fits /\ p_star # 0
  /\ p' = p_star + 1 /\ t_star' = t + 1 /\ t' = t + 1
  /\ UNCHANGED <<pattern, text, p_star, result>>

BacktrackForEver ==
  /\ Matching /\ ~AtStar /\ ~Fits /\ p_star # 0
  /\ p' = p_star + 1 /\ t' = t_star
  /\ UNCHANGED <<pattern, text, p_star, t_star, result>>

Backtrack ==
  /\ Matching /\ ~AtStar /\ ~Fits /\ p_star # 0
  /\ p' = p_star + 1 /\ t_star' = t_star + 1 /\ t' = t_star + 1
  /\ UNCHANGED <<pattern, text, p_star, result>>

Fail ==
  /\ Matching /\ ~AtStar /\ ~Fits /\ p_star = 0
  /\ result' = "no match"
  /\ UNCHANGED <<pattern, text, p, t, p_star, t_star>>

(* Slip: stars left in the pattern count as characters. *)
EndStrictly ==
  /\ Running /\ t > Len(text)
  /\ result' = IF p > Len(pattern) THEN "match" ELSE "no match"
  /\ UNCHANGED <<pattern, text, p, t, p_star, t_star>>

(* The text is used up: only stars may be left in the pattern. *)
End ==
  /\ Running /\ t > Len(text)
  /\ result' = IF \A i \in p .. Len(pattern) : pattern[i] = Star THEN "match" ELSE "no match"
  /\ UNCHANGED <<pattern, text, p, t, p_star, t_star>>

Next == TakeStar \/ Advance \/ Backtrack \/ Fail \/ End

(* A loop goes on until it ends. *)
Spec == Init /\ [][Next]_vars /\ WF_vars(Next)

-----------------------------------------------------------------------------
(***************************************************************************)
(* Matching, by trying everything: the pattern from q on can take the text *)
(* from u on, each star any number of characters.                          *)
(***************************************************************************)
CanMatch[q \in 1 .. Len(pattern) + 1] ==
  [u \in 1 .. Len(text) + 1 |->
     IF q > Len(pattern) THEN u > Len(text)
     ELSE IF pattern[q] = Star THEN \E v \in u .. Len(text) + 1 : CanMatch[q + 1][v]
     ELSE u <= Len(text) /\ Accepts(q, text[u]) /\ CanMatch[After(q)][u + 1]]

(* The loop returns what the definition says (README.md:77). *)
AnswerIsRight == ~Running => (result = "match" <=> CanMatch[1][1])

(***************************************************************************)
(* Why forgetting all stars but the last is sound: at every turn the text  *)
(* matches if and only if it can from the cursors, or with the last star   *)
(* taking more.  The cursors never leave the pattern and the text.         *)
(***************************************************************************)
NothingLost ==
  /\ p \in 1 .. Len(pattern) + 1 /\ t \in 1 .. Len(text) + 1
  /\ p_star \in 0 .. p - 1 /\ t_star \in 0 .. t
  /\ Running =>
       (CanMatch[1][1] <=>
          \/ CanMatch[p][t]
          \/ p_star # 0 /\ \E u \in t_star + 1 .. Len(text) + 1 : CanMatch[p_star + 1][u])

(* The loop ends, although it goes back: no step of it repeats a state. *)
Terminates == <>~Running
=============================================================================

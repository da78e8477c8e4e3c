------------------------------- MODULE MCGlob -------------------------------
(***************************************************************************)
(* Instances of Glob for TLC: every pattern of up to three characters of   *)
(* an alphabet with all the special ones, and every sequence of up to four *)
(* of the pieces patterns are made of, on every text of up to four.        *)
(***************************************************************************)
EXTENDS Glob, SequencesExt

a == 97
b == 98

Pieces == { <<Star>>, <<a>>, <<b>>, <<Open, a, Dash, b, Close>>, <<Open, Caret, a, Close>>,
            <<Escape, Star>>, <<AnyOne>> }

Alphabet == {Star, AnyOne, Open, Close, Caret, Dash, Escape, a, b}

MCPatterns == SeqOf(Alphabet, 3) \cup {FlattenSeq(ss) : ss \in SeqOf(Pieces, 4)}
MCTexts    == SeqOf({a, b}, 4) \cup {<<Star>>, <<a, Star>>, <<Dash>>}
=============================================================================

----------------------------- MODULE MCConsole -----------------------------
(* Console for TLC: a page of three rows of three columns, a line that wraps *)
(* over more than one of them, texts that end at, before and after the end   *)
(* of a row, and numbers of one and two digits.                              *)
EXTENDS Console
CONSTANTS a, d, e, sp, gt, nl
MCTyped   == {a}
MCDigits  == {d, e}
MCTexts   == {<< >>, <<a, a>>, <<a, nl, a, a>>}
MCNumbers == {<< >>, <<d>>, <<d, e>>}
=============================================================================

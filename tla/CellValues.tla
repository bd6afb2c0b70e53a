----------------------------- MODULE CellValues -----------------------------
(***************************************************************************)
(* What a column of a source may hold, as the inference engines of         *)
(* src/app/modules/ai read it.  A cell is Null or                          *)
(*   [text |-> atoms]   a text or a number; an atom [w, f, n] is a word (or*)
(*                      a punctuation mark, form "mark"), its form, and the*)
(*                      number written after it, or NoNumber; a number is a*)
(*                      single atom without a word;                        *)
(*   [m, d, t, z]       months since January 2000, day, hour, and zone (or *)
(*                      "naive").                                          *)
(***************************************************************************)
EXTENDS Integers, Sequences, FiniteSets, SequencesExt, FiniteSetsExt

CONSTANTS Null, NoNumber

Word(w, f, n) == [w |-> w, f |-> f, n |-> n]

Mark(w) == Word(w, "mark", NoNumber)

Numeral(n) == [text |-> <<Word("", "none", n)>>]
=============================================================================

------------------------- MODULE MCBoardReplacement -------------------------
(***************************************************************************)
(* BoardReplacement with two addresses: two replacements of a board of one *)
(* runtime that may overlap, or one of a board of two beside a save.       *)
(***************************************************************************)
EXTENDS BoardReplacement, TLC

CONSTANTS a, b, p, q, j1, j2, v1, c1, l0

\* Replacements are alike until they begin.
Symmetry == Permutations(Jobs)
=============================================================================

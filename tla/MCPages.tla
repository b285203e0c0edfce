------------------------------ MODULE MCPages ------------------------------
(***************************************************************************)
(* The pages, for TLC: two of most things.  One page is mounted in a       *)
(* behaviour, so what the pages are about may share its names: x for the   *)
(* rows of a list, y for rooms, dormitories and the like.                  *)
(***************************************************************************)
EXTENDS Pages
CONSTANTS x1, x2, x3, y1, y2
Symmetry == Permutations({x1, x2}) \cup Permutations({y1, y2})
=============================================================================

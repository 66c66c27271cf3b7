--------------------------- MODULE MCLineBinding ---------------------------
(***************************************************************************)
(* LineBinding for TLC.  Platforms and groups are interchangeable; the     *)
(* policies are not, one of them is the default.                           *)
(***************************************************************************)
EXTENDS LineBinding, TLC

Symmetry == Permutations(Platforms) \cup Permutations(Groups)
=============================================================================

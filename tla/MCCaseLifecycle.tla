-------------------------- MODULE MCCaseLifecycle --------------------------
(***************************************************************************)
(* CaseLifecycle for TLC.  Workers are interchangeable, so the safety runs *)
(* use them up to permutation; the liveness runs do not.                   *)
(***************************************************************************)
EXTENDS CaseLifecycle, TLC

WorkerSymmetry == Permutations(Workers)
=============================================================================

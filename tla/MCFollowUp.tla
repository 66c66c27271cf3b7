---------------------------- MODULE MCFollowUp ----------------------------
(* FollowUp for TLC: two reports of two people.  The workers are           *)
(* interchangeable.                                                         *)
EXTENDS FollowUp, TLC

CONSTANTS r1, r2, ann, bob

TwoPeople == [r \in { r1, r2 } |-> IF r = r1 THEN ann ELSE bob]

Symmetry == Permutations(Workers)
=============================================================================

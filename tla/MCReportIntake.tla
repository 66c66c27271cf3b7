--------------------------- MODULE MCReportIntake ---------------------------
(***************************************************************************)
(* ReportIntake for TLC: two reports of one person, one of another, and    *)
(* one that is anonymous.                                                  *)
(***************************************************************************)
EXTENDS ReportIntake, TLC

CONSTANTS a1, a2, b, n, A, B

Sender == (a1 :> A) @@ (a2 :> A) @@ (b :> B) @@ (n :> Null)

MCKeyOf == [r \in Reports |-> Sender[r]]

\* The workers are interchangeable.
Symmetry == Permutations(Workers)
=============================================================================

--------------------------- MODULE MCReviewClose ---------------------------
(***************************************************************************)
(* Instances of ReviewClose for TLC.  The requests of one kind are         *)
(* interchangeable: nothing but the row timestamps orders them.            *)
(***************************************************************************)
EXTENDS ReviewClose, TLC

RequestSymmetry == Permutations(Reviews) \cup Permutations(Assessments)
ReviewSymmetry == Permutations(Reviews) \cup Permutations(Evaluations)
=============================================================================

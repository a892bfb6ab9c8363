---------------------------- MODULE MCSourceSync ----------------------------
(***************************************************************************)
(* Instances of SourceSync for TLC.  Runs differ in nothing but their      *)
(* names.                                                                  *)
(***************************************************************************)
EXTENDS SourceSync, TLC

RunSymmetry == Permutations(Runs)
=============================================================================

---------------------------- MODULE MCDlqCapture ----------------------------
(***************************************************************************)
(* Instances of DlqCapture for TLC.  Runs are interchangeable.             *)
(***************************************************************************)
EXTENDS DlqCapture, TLC

Symmetry == Permutations(Runs)
=============================================================================

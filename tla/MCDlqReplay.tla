---------------------------- MODULE MCDlqReplay ----------------------------
(***************************************************************************)
(* Instances of DlqReplay for TLC.  Runs are interchangeable.              *)
(***************************************************************************)
EXTENDS DlqReplay, TLC

Symmetry == Permutations(Runs)
=============================================================================

---------------------------- MODULE MCEvaluation ----------------------------
(***************************************************************************)
(* Evaluation on the scripts of MCRollerball.                              *)
(***************************************************************************)
EXTENDS Evaluation, MCRollerball
=============================================================================

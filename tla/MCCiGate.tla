------------------------------ MODULE MCCiGate ------------------------------
(***************************************************************************)
(* Small instance of CiGate for TLC.                                       *)
(***************************************************************************)
EXTENDS CiGate, TLC

CONSTANT w1
=============================================================================

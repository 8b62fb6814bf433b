---------------------------- MODULE MCBootCheck -----------------------------
(* Instances of BootCheck for TLC.                                         *)
EXTENDS BootCheck
=============================================================================

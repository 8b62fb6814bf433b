------------------------------ MODULE MCStorm -------------------------------
(* Bounds for the reconnection storm.                                      *)
EXTENDS Storm
=============================================================================

----------------------------- MODULE MCRestart ------------------------------
(* Bounds for the restarts of a server.                                    *)
EXTENDS Restart
=============================================================================

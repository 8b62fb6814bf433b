----------------------------- MODULE MCFleetRun ------------------------------
(* Instance of FleetRun for TLC: a demo fleet started as two generators, the *)
(* second of them twice.                                                     *)
EXTENDS FleetRun

MCGenerators == {"demo", "demo_legacy"}
MCFleet == [g \in MCGenerators |-> IF g = "demo" THEN {1, 2} ELSE {3}]
MCGen == [r \in 1..3 |-> IF r = 1 THEN "demo" ELSE "demo_legacy"]
MCName == [g \in MCGenerators |-> IF g = "demo" THEN <<"demo">> ELSE <<"demo", "legacy">>]
=============================================================================

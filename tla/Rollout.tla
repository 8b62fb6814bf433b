------------------------------ MODULE Rollout -------------------------------
(***************************************************************************)
(* What a rollout of station-made keys promises, whatever the waves, the   *)
(* chargers and the operator do: the identity the server holds for a       *)
(* station changes only once the station's wave has been opened in the     *)
(* current run; a key becomes the station's identity only by being tried   *)
(* first and proven afterwards, or by being replaced by a proven one; and  *)
(* nothing is tried outside a run.                                         *)
(***************************************************************************)
EXTENDS FiniteSets

CONSTANT Stations

VARIABLES
  active,  \* a run is going on
  open,    \* stations whose wave has been opened in the last run
  held     \* [Stations -> {"none", "tried", "proven"}] the server's key

rolloutVars == <<active, open, held>>

Init ==
  /\ active = FALSE
  /\ open = {}
  /\ held = [s \in Stations |-> "none"]

Start ==
  /\ ~active
  /\ active' = TRUE
  /\ open' = {}
  /\ UNCHANGED held

Open ==
  /\ active
  /\ \E more \in SUBSET Stations : open' = open \cup more
  /\ UNCHANGED <<active, held>>

Try(s) ==
  /\ active /\ s \in open
  /\ held' = [held EXCEPT ![s] = "tried"]
  /\ UNCHANGED <<active, open>>

Prove(s) ==
  /\ active /\ s \in open /\ held[s] = "tried"
  /\ held' = [held EXCEPT ![s] = "proven"]
  /\ UNCHANGED <<active, open>>

\* Opened stations lose the key, in a run or after it; a run may end with it.
Revert ==
  /\ \E gone \in SUBSET open :
       held' = [s \in Stations |-> IF s \in gone THEN "none" ELSE held[s]]
  /\ \/ UNCHANGED active
     \/ active' = FALSE /\ \A s \in Stations : held'[s] # "tried"
  /\ UNCHANGED open

\* A run ends with nothing half done.
End ==
  /\ active /\ \A s \in Stations : held[s] # "tried"
  /\ active' = FALSE
  /\ UNCHANGED <<open, held>>

Next == Start \/ Open \/ Revert \/ End \/ \E s \in Stations : Try(s) \/ Prove(s)

Spec == Init /\ [][Next]_rolloutVars
=============================================================================

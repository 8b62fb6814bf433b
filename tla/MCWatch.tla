------------------------------ MODULE MCWatch ------------------------------
EXTENDS Watch

\* Bound: in one behaviour either the page is opened, and the charger stays as it
\* was, without a key, or the charger changes.  The page does not read the charger
\* and the view does not read the log, so no property needs both at once.
PageOrChanges == openedAt = NotOpen \/ (changed = 0 /\ charger.key = None)

MCSpec == Init /\ [][Next /\ PageOrChanges']_watchVars /\ WF_watchVars(PollStatus)
=============================================================================

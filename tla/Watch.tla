-------------------------------- MODULE Watch --------------------------------
(***************************************************************************)
(* The console view of a migration (harness/watch_migration.py) next to    *)
(* the page that follows the event log, both reading one server.           *)
(*                                                                         *)
(* The server shows one run at a time, the last one started in this        *)
(* process.  The view polls it and decides which run it is watching        *)
(* (Tracker.update), lists the changes of the chargers since the poll      *)
(* before, and stops with a summary once the watched run is over.  Of the  *)
(* chargers one is kept, with its state and its key; a change has a number *)
(* and stands in the list by it.  Phases before the end are one phase,     *)
(* "running"; that the list shows its newest eight lines only is left out. *)
(***************************************************************************)
EXTENDS Feed

CONSTANTS
  ChargerStates,  \* values of migration_state
  KeyIds,         \* values of pq_key_id
  MaxRuns,        \* bound: runs started
  MaxChanges      \* bound: changes of the charger

None == "none"  \* a charger without a key, a state that is not remembered

ASSUME WatchAssumption ==
  /\ MaxRuns \in Nat /\ MaxChanges \in Nat
  /\ None \notin ChargerStates \cup KeyIds

Fields   == {"state", "key"}
Chargers == [state : ChargerStates, key : KeyIds \cup {None}]

NoRun  == 0
TERMINAL == {"completed", "rolled_back", "failed"}

VARIABLES
  started,     \* runs started
  run, phase,  \* /api/migration: the run of this process, its phase
  charger,     \* /api/fleet: state and key of the charger
  previous,    \* the charger before its last change, if that may not be on disk yet
  changed,     \* changes of the charger so far
  changedBy,   \* the run that made change c, NoRun if a restart lost the last one
  newest,      \* the last change of the state, of the key
  firstPollDone, ignored, watching, finished,  \* Tracker
  seen,        \* Tracker.states, Tracker.keys: the charger at the previous poll
  listed,      \* Tracker.changes: a field and the number of its change
  summarised,  \* the run the summary is about
  overBefore,  \* history: runs begun before the first poll that was answered
  looked,      \* history: changes made before the previous poll
  since        \* history: changes of a field that the watch cannot have seen

runVars     == <<started, run, phase>>
chargerVars == <<charger, previous, changed, changedBy, newest>>
trackerVars == <<firstPollDone, ignored, watching, finished, seen, listed, summarised>>
lookVars    == <<overBefore, looked, since>>
viewVars    == <<trackerVars, lookVars>>
watchVars   == <<feedVars, runVars, chargerVars, viewVars>>

Init ==
  /\ FeedInit
  /\ started = 0 /\ run = NoRun /\ phase = "idle"
  /\ charger \in Chargers /\ previous = charger
  /\ changed = 0 /\ changedBy = [c \in 1..MaxChanges |-> NoRun]
  /\ newest = [f \in Fields |-> 0]
  /\ firstPollDone = FALSE /\ ignored = NoRun /\ watching = NoRun /\ finished = FALSE
  /\ seen = [f \in Fields |-> None] /\ listed = {} /\ summarised = NoRun
  /\ overBefore = 0 /\ looked = 0 /\ since = [f \in Fields |-> 0]

-----------------------------------------------------------------------------
(* The server.                                                             *)

\* start_migration, start_rotation: a new id, an event.
StartRun ==
  /\ phase # "running" /\ started < MaxRuns
  /\ Emit
  /\ started' = started + 1 /\ run' = started + 1 /\ phase' = "running"
  /\ UNCHANGED <<chargerVars, viewVars>>

\* One change, by a run or (NoRun) by what a restart has lost.
Alter(new, by) ==
  /\ changed < MaxChanges /\ new # charger
  /\ charger' = new /\ changed' = changed + 1
  /\ changedBy' = [changedBy EXCEPT ![changed + 1] = by]
  /\ newest' = [f \in Fields |-> IF new[f] # charger[f] THEN changed + 1 ELSE newest[f]]

\* A step of the run, or a rollback by hand while it is on.
Change ==
  /\ phase = "running"
  /\ \E new \in Chargers : Alter(new, run)
  /\ previous' = charger
  /\ UNCHANGED <<feedVars, runVars, viewVars>>

\* rollback of a wave of a run that is over: the key the run gave is taken away
\* again, or in a rotation the old one is put back and the state stays.  The
\* phase stays.
Rollback ==
  /\ phase \in TERMINAL /\ charger.key # None
  /\ newest["key"] # 0 /\ changedBy[newest["key"]] = run
  /\ \E new \in Chargers :
       /\ new.key # charger.key /\ (new.key # None => new.state = charger.state)
       /\ Alter(new, run)
  /\ previous' = charger
  /\ UNCHANGED <<feedVars, runVars, viewVars>>

EndRun ==
  /\ phase = "running"
  /\ \E p \in TERMINAL : phase' = p
  /\ Emit
  /\ UNCHANGED <<started, run, chargerVars, viewVars>>

\* The status of a run does not survive the process, and the last change of the
\* charger only if it had been written.
Restart ==
  /\ RestartServer
  /\ run' = NoRun /\ phase' = "idle"
  /\ \/ UNCHANGED <<charger, changed, changedBy, newest>>
     \/ Alter(previous, NoRun)
  /\ previous' = charger'
  /\ UNCHANGED <<started, viewVars>>

OtherEvent == Emit /\ UNCHANGED <<runVars, chargerVars, viewVars>>

-----------------------------------------------------------------------------
(* The view.                                                               *)

\* A run that was over at the first poll is not the one to watch.
Ignored == IF ~firstPollDone /\ phase \in TERMINAL THEN run ELSE ignored

\* Mutant of Watched: only a run seen running is watched.
WatchedRunning ==
  IF watching = NoRun /\ phase = "running" /\ run # Ignored THEN run ELSE watching

Watched == IF watching = NoRun /\ phase # "idle" /\ run # Ignored THEN run ELSE watching

WatchStarts == watching = NoRun /\ Watched # NoRun

\* Mutant of Remembered: a watch starts with the states of the poll before.
RememberedAll == seen

\* What the charger is compared with: a watch starts with no states, but with
\* the keys of the poll before.
Remembered ==
  [f \in Fields |-> IF WatchStarts /\ f = "state" THEN None ELSE seen[f]]

\* A field moved when both its values are known and differ: a first state is no
\* change, and neither is a first key or a key taken away.
Moved == {f \in Fields : /\ Remembered[f] # None /\ charger[f] # None
                         /\ Remembered[f] # charger[f]}

\* fetch, Tracker.update, and the summary when the tracker has finished.  The
\* list is cleared before the charger is compared.
PollStatus ==
  /\ ~finished
  /\ firstPollDone' = TRUE /\ ignored' = Ignored /\ watching' = Watched
  /\ listed' = IF Watched = NoRun THEN listed
               ELSE (IF WatchStarts THEN {} ELSE listed)
                    \cup {[field |-> f, change |-> newest[f]] : f \in Moved}
  /\ seen' = charger
  /\ finished' = (Watched # NoRun /\ phase \in TERMINAL)
  /\ summarised' = IF finished' THEN run ELSE NoRun
  /\ overBefore' = IF firstPollDone THEN overBefore
                   ELSE IF phase = "running" THEN started - 1 ELSE started
  /\ looked' = changed
  /\ since' = IF WatchStarts THEN [f \in Fields |-> IF f = "state" THEN changed ELSE looked]
              ELSE since
  /\ UNCHANGED <<feedVars, runVars, chargerVars>>

\* A poll that fails keeps the last picture and changes nothing else, so it is
\* no step here.

PageReads == PageStep /\ UNCHANGED <<runVars, chargerVars, viewVars>>

Next ==
  \/ StartRun \/ Change \/ Rollback \/ EndRun \/ Restart \/ OtherEvent
  \/ PollStatus \/ PageReads

Spec == Init /\ [][Next]_watchVars

\* The view polls every half a second until it has finished, and a poll gets
\* through again and again (the server answers, or is started again).
FairSpec == Spec /\ WF_watchVars(PollStatus)

-----------------------------------------------------------------------------
(* Properties.                                                             *)

\* What the list calls a change happened under the eyes of the view: a state
\* changed after the first poll of the watch, and by no run before the watched
\* one; a key changed after the poll before that, which may be before the watched
\* run (watch_migration.py Tracker.update: a watch resets states and not keys).
ListedSinceLook ==
  \A l \in listed :
    /\ l.change > since[l.field]
    /\ l.field = "state" => changedBy[l.change] = NoRun \/ changedBy[l.change] >= watching

\* Nobody takes the past for news: the page alerts of nothing from before it was
\* loaded, and the view never takes a run that was over when it started for the
\* one it was asked to watch (watch_migration.py Tracker.update,
\* ignore_migration_id), and lists nothing it could not have seen change.
OnlyNews ==
  /\ OldStaysQuiet
  /\ finished => summarised > overBefore /\ summarised >= watching
  /\ ListedSinceLook

\* A run that ends after the view had its first answer is reported, even if it
\* starts and ends between two polls, unless the server forgets it in a restart.
EndIsReported ==
  <>[](phase \in TERMINAL /\ run > overBefore) => <>finished
=============================================================================

------------------------------ MODULE Restart -------------------------------
(***************************************************************************)
(* Migration on a server that may die at any moment.                       *)
(*                                                                         *)
(*   - csms/persistence.py SqliteStore: writes are buffered, one per       *)
(*     station and table, and flush() applies all of them in one           *)
(*     transaction; a flush that fails drops them.                         *)
(*   - csms/migration.py PersistentPQAuthenticator: enrol and unenrol also *)
(*     queue a write; restore() reads the keys back at startup.            *)
(*   - csms/registry.py set_identity and load.                             *)
(*                                                                         *)
(* The run itself, staged keys, nonces and sockets are in memory only.     *)
(* The chargers and their keys outlive the server.                         *)
(***************************************************************************)
EXTENDS Migration

CONSTANTS
  MaxKills,  \* bound: times the server dies
  MaxFails   \* bound: flushes that fail

ASSUME RestartAssumption == MaxKills \in Nat /\ MaxFails \in Nat

\* A row of pq_enrolment and one of station_identity.
Row == [key : KeyOrNone, state : MigrationState, algorithm : {"classical", "ML-DSA"}]
NewRow == [key |-> NoKey, state |-> "pending", algorithm |-> "classical"]

VARIABLES
  disk,        \* [Stations -> Row] what is committed
  dirtyKeys,   \* stations in _enrolment_writes (the value is that in memory)
  dirtyRecords,\* stations in _dirty_identities
  kills,       \* times the server died (bound)
  fails,       \* flushes that failed (bound)
  saved,       \* history: [Stations -> Row] memory when a flush last ran
  lostKeys,    \* history: stations whose key a failed flush dropped, ...
  lostRecords, \* ... whose record it dropped, until they are written again
  interrupted  \* history: stations a kill caught in progress

diskVars    == <<disk, dirtyKeys, dirtyRecords>>
lossVars    == <<lostKeys, lostRecords>>
historyVars == <<kills, fails, saved, lossVars, interrupted>>
restartVars == <<vars, diskVars, historyVars>>

RestartTypeOK ==
  /\ TypeOK
  /\ disk \in [Stations -> Row] /\ saved \in [Stations -> Row]
  /\ dirtyKeys \subseteq Stations /\ dirtyRecords \subseteq Stations
  /\ kills \in 0..MaxKills /\ fails \in 0..MaxFails
  /\ lostKeys \subseteq Stations /\ lostRecords \subseteq Stations
  /\ interrupted \subseteq Stations

RestartInit ==
  /\ Init
  /\ disk = [s \in Stations |-> NewRow]
  /\ dirtyKeys = {} /\ dirtyRecords = {}
  /\ kills = 0 /\ fails = 0
  /\ saved = [s \in Stations |-> NewRow]
  /\ lostKeys = {} /\ lostRecords = {}
  /\ interrupted = {}

-----------------------------------------------------------------------------
\* save_enrolment or delete_enrolment for `keys`, save_identity for `records`.
Queue(keys, records) ==
  /\ dirtyKeys' = dirtyKeys \cup keys
  /\ dirtyRecords' = dirtyRecords \cup records

InMemory(s) == [key |-> enrolled[s], state |-> mstate[s], algorithm |-> algorithm[s]]

\* Mutant of Written: the keys are left for a later flush.
WrittenWithoutKeys(s) ==
  [key |-> disk[s].key,
   state |-> IF s \in dirtyRecords THEN mstate[s] ELSE disk[s].state,
   algorithm |-> IF s \in dirtyRecords THEN algorithm[s] ELSE disk[s].algorithm]

\* The rows of a station once its queued writes are applied.
Written(s) ==
  [key |-> IF s \in dirtyKeys THEN enrolled[s] ELSE disk[s].key,
   state |-> IF s \in dirtyRecords THEN mstate[s] ELSE disk[s].state,
   algorithm |-> IF s \in dirtyRecords THEN algorithm[s] ELSE disk[s].algorithm]

\* The steps of a station's coroutine with what they queue.
StationSaves(s) ==
  \/ EnrolKey(s) /\ Queue({s}, {}) /\ UNCHANGED <<disk, historyVars>>
  \/ FailStation(s) /\ Queue({s}, {s}) /\ UNCHANGED <<disk, historyVars>>
  \/ CommitKey(s) /\ Queue({s}, {s}) /\ UNCHANGED <<disk, historyVars>>
  \/ /\ Skip(s) \/ MarkMigrated(s)
     /\ Queue({}, {s})
     /\ interrupted' = interrupted \ {s}
     /\ UNCHANGED <<disk, kills, fails, saved, lossVars>>
  \/ /\ AskForKey(s)
     /\ Queue({}, IF kind = "migration" THEN {s} ELSE {})
     /\ interrupted' = IF kind = "migration" THEN interrupted \ {s} ELSE interrupted
     /\ UNCHANGED <<disk, kills, fails, saved, lossVars>>
  \/ (Defer(s) \/ StageKey(s) \/ RotationFails(s)) /\ UNCHANGED <<diskVars, historyVars>>

\* Mutant of Undone: un-enrolled keys are not deleted from the disk.
UndoneButKept(w) == Queue(ToRestore(w), ToUnenrol(w))

\* _rollback_wave: the old keys are enrolled again, the new ones un-enrolled.
Undone(w) == Queue(ToUnenrol(w) \cup ToRestore(w), ToUnenrol(w))

WaveSaves ==
  \/ (BeginRun \/ NextWave \/ RunCompletes) /\ UNCHANGED <<diskVars, historyVars>>
  \/ WaveFails /\ Undone(wave) /\ UNCHANGED <<disk, historyVars>>

OperatorSaves ==
  \/ \E ws \in WaveSizes, cc \in CanaryCounts :
       /\ StartMigration(ws, cc) \/ StartRotation(ws, cc)
       /\ UNCHANGED <<diskVars, historyVars>>
  \/ \E w \in WaveIds : Rollback(w) /\ Undone(w) /\ UNCHANGED <<disk, historyVars>>

\* flush(): everything queued, in one transaction.
Flush ==
  /\ dirtyKeys \cup dirtyRecords # {}
  /\ disk' = [s \in Stations |-> Written(s)]
  /\ saved' = [s \in Stations |-> InMemory(s)]
  /\ lostKeys' = lostKeys \ dirtyKeys
  /\ lostRecords' = lostRecords \ dirtyRecords
  /\ dirtyKeys' = {} /\ dirtyRecords' = {}
  /\ UNCHANGED <<vars, kills, fails, interrupted>>

\* flush() fails: rolled back, and the buffers are cleared all the same.
FlushFails ==
  /\ fails < MaxFails
  /\ dirtyKeys \cup dirtyRecords # {}
  /\ lostKeys' = lostKeys \cup dirtyKeys
  /\ lostRecords' = lostRecords \cup dirtyRecords
  /\ dirtyKeys' = {} /\ dirtyRecords' = {}
  /\ fails' = fails + 1
  /\ UNCHANGED <<vars, disk, kills, saved, interrupted>>

\* Mutant of Restored: stations known to be migrated stay so, keys are not
\* read back.
RestoredWithoutKeys ==
  /\ enrolled' = [s \in Stations |-> NoKey]
  /\ mstate' = [s \in Stations |-> disk[s].state]
  /\ algorithm' = [s \in Stations |-> disk[s].algorithm]

\* registry.load() and authenticator.restore().
Restored ==
  /\ enrolled' = [s \in Stations |-> disk[s].key]
  /\ mstate' = [s \in Stations |-> disk[s].state]
  /\ algorithm' = [s \in Stations |-> disk[s].algorithm]

\* build_migration: a new orchestrator and a new register, filled from the disk.
NewController ==
  /\ Restored
  /\ staged' = [s \in Stations |-> NoKey]
  /\ nonce' = [s \in Stations |-> {}]
  /\ phase' = "idle" /\ kind' = "migration" /\ candidates' = {}
  /\ size' = 1 /\ canary' = 0 /\ wave' = -1
  /\ wavePhase' = [w \in WaveIds |-> "none"]
  /\ enrolledIn' = [w \in WaveIds |-> {}]
  /\ rotatedIn' = [w \in WaveIds |-> NoneRotated]
  /\ task' = [s \in Stations |-> "none"]
  /\ oldKey' = [s \in Stations |-> NoKey]
  /\ count' = [total |-> 0, pending |-> 0, migrated |-> 0, rolled_back |-> 0,
               incompatible |-> 0]
  /\ before' = [s \in Stations |-> [key |-> NoKey, state |-> "pending"]]

\* A new registry and dispatcher: no session, no call.
NoSockets ==
  /\ live' = [s \in Stations |-> {}]
  /\ session' = [s \in Stations |-> 0]
  /\ call' = [s \in Stations |-> [c \in Callers |-> Idle]]
  /\ late' = [s \in Stations |-> 0]

\* The server is killed and started again (a clean stop is a Flush before it):
\* what was not committed is forgotten, with the run and every socket.
Restart ==
  /\ kills < MaxKills
  /\ kills' = kills + 1
  /\ NewController /\ NoSockets
  /\ dirtyKeys' = {} /\ dirtyRecords' = {}
  /\ saved' = disk
  /\ lostKeys' = {} /\ lostRecords' = {}
  /\ interrupted' = {s \in Stations : disk[s].state = "in_progress"}
  /\ UNCHANGED <<opened, keyVars, runs, proved, disk, fails>>

RestartNext ==
  \/ OperatorSaves
  \/ WaveSaves
  \/ \E s \in Stations : StationSaves(s)
  \/ \E s \in Stations : Environment(s) /\ UNCHANGED <<migrationVars, diskVars, historyVars>>
  \/ Flush
  \/ FlushFails
  \/ Restart

RestartSpec == RestartInit /\ [][RestartNext]_restartVars

-----------------------------------------------------------------------------
(* Properties.                                                             *)

\* The disk is a picture of the server at one moment: the keys and the migration
\* states of all stations are those of the last flush, so a kill only sets the
\* clock back -- and a flush that fails costs the rows that were in it and no
\* others, until these are written again (csms/persistence.py, write-behind).
DiskIsOneMoment ==
  \A s \in Stations :
    /\ s \notin lostKeys => disk[s].key = saved[s].key
    /\ s \notin lostRecords => /\ disk[s].state = saved[s].state
                              /\ disk[s].algorithm = saved[s].algorithm

\* Unless a flush failed, a station that is migrated after a restart has a key it has proven:
\* the "orphans" build_migration warns of cannot come from a kill.
MigratedSurvives ==
  fails = 0 => \A s \in Stations :
    /\ disk[s].state = "migrated" => disk[s].key \in proved[s]
    /\ mstate[s] = "migrated" => enrolled[s] \in proved[s]

\* Only a kill leaves a station in progress that nobody works on, and only
\* until a migration reaches it; and no restart brings a key back to a station
\* that is not (being) migrated.
HalfMigratedByKillOnly ==
  fails = 0 => \A s \in Stations :
    /\ mstate[s] = "in_progress" => task[s] \in {"enrolling", "checking"} \/ s \in interrupted
    /\ mstate[s] \in {"pending", "rolled_back", "incompatible"} => enrolled[s] = NoKey
=============================================================================

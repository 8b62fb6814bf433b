----------------------------- MODULE Migration ------------------------------
(***************************************************************************)
(* idmanager/orchestrator.py MigrationOrchestrator with the key register   *)
(* of crypto/pq_auth.py PQAuthenticator: migration runs (the station makes *)
(* a key, the server enrols it, the station proves it holds the private    *)
(* half) and rotation runs (a new key is staged next to the old one and    *)
(* replaces it once proven), in a canary and waves, with the rollback of a *)
(* wave that fails and the manual rollback of any wave that was started.   *)
(*                                                                         *)
(* asyncio runs one coroutine until it awaits, so every action is the code *)
(* between two awaits.  The coroutines of a wave run interleaved with each *)
(* other, with the chargers and with the HTTP API.                         *)
(***************************************************************************)
EXTENDS Dispatch

CONSTANTS
  Capable,       \* stations whose supported_algorithms hold the target
  WaveSizes,     \* wave_size arguments an operator gives
  CanaryCounts,  \* canary_count arguments an operator gives
  ThresholdPct,  \* failure_threshold, in percent
  Manual,        \* whether the operator uses /api/migration/rollback
  MaxRuns        \* bound: runs started

ASSUME MigrationAssumption ==
  /\ Capable \subseteq Stations
  /\ WaveSizes \subseteq Nat \ {0}
  /\ CanaryCounts \subseteq Nat
  /\ ThresholdPct \in 0..100
  /\ Manual \in BOOLEAN
  /\ MaxRuns \in Nat

MigrationState == {"pending", "in_progress", "migrated", "rolled_back", "incompatible"}
MigrationPhase == {"idle", "canary", "running", "completed", "rolled_back", "failed"}
Active   == {"canary", "running"}
\* A run over n stations has at most n waves after the canary.
WaveIds  == 0..Cardinality(Stations)

VARIABLES
  enrolled,   \* [Stations -> KeyOrNone] PQAuthenticator._enrolled
  staged,     \* [Stations -> KeyOrNone] PQAuthenticator._staged
  nonce,      \* [Stations -> SUBSET Callers] the callers whose running check
              \* still has its nonce in _outstanding
  mstate,     \* [Stations -> MigrationState] StationIdentity.migration_state
  algorithm,  \* [Stations -> {"classical", "ML-DSA"}] .current_algorithm
  phase,      \* status.phase
  kind,       \* status.kind: "migration" or "rotation"
  candidates, \* the stations of the run
  size,       \* wave_size of the run
  canary,     \* canary_count of the run
  wave,       \* last wave started, -1 before the first
  wavePhase,  \* [WaveIds -> {"none","running","completed","rolled_back"}]
  enrolledIn, \* [WaveIds -> SUBSET Stations] _enrolled_this_run
  rotatedIn,  \* [WaveIds -> [Stations -> KeyOrNone]] _rotated_this_run: the
              \* OLD key, NoKey for a station not in the list
  task,       \* [Stations -> task state] the station's coroutine in the wave
  oldKey,     \* [Stations -> KeyOrNone] its local old_key
  count,      \* status counters
  runs,       \* runs started so far (bound)
  proved,     \* history: [Stations -> SUBSET Keys] keys the station has
              \* proven it holds
  before      \* history: [Stations -> [key, state]] at the start of the run

authVars   == <<enrolled, staged, nonce>>
recordVars == <<mstate, algorithm>>
runVars    == <<phase, kind, candidates, size, canary, runs, before>>
waveVars   == <<wave, wavePhase, enrolledIn, rotatedIn>>
taskVars   == <<task, oldKey>>
migrationVars == <<authVars, recordVars, runVars, waveVars, taskVars, count, proved>>
vars == <<dispatchVars, migrationVars>>

Outcomes == {"migrated", "rolled_back", "incompatible", "pending"}
TaskStates == {"none", "ready", "enrolling", "checking"} \cup Outcomes
Counters == [total : Nat, pending : Int, migrated : Nat, rolled_back : Nat,
             incompatible : Nat]

TypeOK ==
  /\ DispatchTypeOK
  /\ enrolled \in [Stations -> KeyOrNone]
  /\ staged \in [Stations -> KeyOrNone]
  /\ nonce \in [Stations -> SUBSET Callers]
  /\ mstate \in [Stations -> MigrationState]
  /\ algorithm \in [Stations -> {"classical", "ML-DSA"}]
  /\ phase \in MigrationPhase
  /\ kind \in {"migration", "rotation"}
  /\ candidates \subseteq Stations
  /\ size \in Nat \ {0}
  /\ canary \in Nat
  /\ wave \in {-1} \cup WaveIds
  /\ wavePhase \in [WaveIds -> {"none", "running", "completed", "rolled_back"}]
  /\ enrolledIn \in [WaveIds -> SUBSET Stations]
  /\ rotatedIn \in [WaveIds -> [Stations -> KeyOrNone]]
  /\ task \in [Stations -> TaskStates]
  /\ oldKey \in [Stations -> KeyOrNone]
  /\ count \in Counters
  /\ runs \in 0..MaxRuns
  /\ proved \in [Stations -> SUBSET Keys]
  /\ before \in [Stations -> [key : KeyOrNone, state : MigrationState]]

NoneRotated == [s \in Stations |-> NoKey]

Init ==
  /\ DispatchInit
  /\ enrolled = [s \in Stations |-> NoKey]
  /\ staged = [s \in Stations |-> NoKey]
  /\ nonce = [s \in Stations |-> {}]
  /\ mstate = [s \in Stations |-> "pending"]
  /\ algorithm = [s \in Stations |-> "classical"]
  /\ phase = "idle"
  /\ kind = "migration"
  /\ candidates = {}
  /\ size = 1
  /\ canary = 0
  /\ wave = -1
  /\ wavePhase = [w \in WaveIds |-> "none"]
  /\ enrolledIn = [w \in WaveIds |-> {}]
  /\ rotatedIn = [w \in WaveIds |-> NoneRotated]
  /\ task = [s \in Stations |-> "none"]
  /\ oldKey = [s \in Stations |-> NoKey]
  /\ count = [total |-> 0, pending |-> 0, migrated |-> 0, rolled_back |-> 0,
              incompatible |-> 0]
  /\ runs = 0
  /\ proved = [s \in Stations |-> {}]
  /\ before = [s \in Stations |-> [key |-> NoKey, state |-> "pending"]]

-----------------------------------------------------------------------------
(* Waves: candidates[:canary], then slices of wave_size.                   *)

Rank(s) == Cardinality({x \in candidates : x < s})
First(w) == IF w = 0 THEN 0 ELSE canary + (w - 1) * size

\* Mutant of Wave: the upper end of the slice is taken in.
WaveOneMore(w) == {s \in candidates : Rank(s) >= First(w) /\ Rank(s) <= First(w + 1)}

Wave(w) == {s \in candidates : Rank(s) >= First(w) /\ Rank(s) < First(w + 1)}
MoreAfter(w) == \E s \in candidates : Rank(s) >= First(w + 1)

\* The head of _do_wave: the wave is recorded and its coroutines are created.
BeginWave(w) ==
  /\ wave' = w
  /\ enrolledIn' = [enrolledIn EXCEPT ![w] = {}]
  /\ rotatedIn' = [rotatedIn EXCEPT ![w] = NoneRotated]
  /\ task' = [s \in Stations |-> IF s \in Wave(w) THEN "ready" ELSE "none"]
  /\ oldKey' = [s \in Stations |-> NoKey]

StartRun(k, who, ws, cc) ==
  /\ phase \notin Active
  /\ runs < MaxRuns
  /\ runs' = runs + 1
  /\ phase' = "canary"
  /\ kind' = k
  /\ candidates' = who
  /\ size' = ws
  /\ canary' = cc
  /\ wave' = -1
  /\ wavePhase' = [w \in WaveIds |-> "none"]
  /\ enrolledIn' = [w \in WaveIds |-> {}]
  /\ rotatedIn' = [w \in WaveIds |-> NoneRotated]
  /\ count' = [total |-> Cardinality(who), pending |-> Cardinality(who),
               migrated |-> 0, rolled_back |-> 0, incompatible |-> 0]
  /\ before' = [s \in Stations |-> [key |-> enrolled[s], state |-> mstate[s]]]
  /\ UNCHANGED <<dispatchVars, authVars, recordVars, taskVars, proved>>

\* start_migration: every station the CSMS knows, whatever its state.
StartMigration(ws, cc) == StartRun("migration", Stations, ws, cc)

\* start_rotation: the stations that are enrolled now.
StartRotation(ws, cc) ==
  StartRun("rotation", {s \in Stations : enrolled[s] # NoKey}, ws, cc)

\* The background task starts: the canary wave.
BeginRun ==
  /\ phase \in Active /\ wave = -1
  /\ BeginWave(0)
  /\ wavePhase' = [wavePhase EXCEPT ![0] = "running"]
  /\ UNCHANGED <<dispatchVars, authVars, recordVars, runVars, count, proved>>

-----------------------------------------------------------------------------
(* One station's coroutine, from await to await.                           *)

Connectable(s) == kind = "rotation" \/ s \in Capable

Ends(s, outcome) == task' = [task EXCEPT ![s] = outcome]

\* The capability gate of a migration.
Skip(s) ==
  /\ task[s] = "ready" /\ ~Connectable(s)
  /\ mstate' = [mstate EXCEPT ![s] = "incompatible"]
  /\ Ends(s, "incompatible")
  /\ UNCHANGED <<dispatchVars, authVars, algorithm, runVars, waveVars, oldKey, count, proved>>

\* skip_offline: a station that is not connected is left pending.
Defer(s) ==
  /\ task[s] = "ready" /\ Connectable(s) /\ ~Connected(s)
  /\ Ends(s, "pending")
  /\ UNCHANGED <<dispatchVars, authVars, recordVars, runVars, waveVars, oldKey, count, proved>>

\* RequestPQEnrolment goes out.  A migration marks the station first; a
\* rotation leaves its state alone and remembers the key it has, or fails the
\* station if there is none.
AskForKey(s) ==
  /\ task[s] = "ready" /\ Connectable(s) /\ Connected(s)
  /\ LET keyless == kind = "rotation" /\ enrolled[s] = NoKey IN
     /\ task' = [task EXCEPT ![s] = IF keyless THEN "rolled_back" ELSE "enrolling"]
     /\ SetCall(s, Orch, IF keyless THEN Idle ELSE NewCall(s, Orch, "enrol", NoKey))
  /\ mstate' = [mstate EXCEPT ![s] = IF kind = "migration" THEN "in_progress" ELSE @]
  /\ oldKey' = [oldKey EXCEPT ![s] = IF kind = "rotation" THEN enrolled[s] ELSE NoKey]
  /\ UNCHANGED <<linkVars, keyVars, late, authVars, algorithm, runVars, waveVars, count, proved>>

\* Mutant of Verifies: any accepted answer verifies, outstanding or not.
VerifiesAnyAnswer(s, c, key) == Accepted(s, c)

\* PQAuthenticator.verify_response for caller c: the station is enrolled, the
\* challenge is still outstanding, and the signature was made with `key`.
Verifies(s, c, key) ==
  /\ Accepted(s, c)
  /\ enrolled[s] # NoKey
  /\ c \in nonce[s]
  /\ key # NoKey /\ call[s][c].key = key

\* Mutant of Challenge: one nonce per station, the newest.
ChallengeReplaces(s) ==
  /\ nonce' = [nonce EXCEPT ![s] = {Orch}]
  /\ SendCall(s, Orch, "challenge", call[s][Orch].key)
  /\ Ends(s, "checking")

\* The key arrived, is taken into the register, and the challenge naming it
\* goes out on the connection that is current now.
Challenge(s) ==
  /\ nonce' = [nonce EXCEPT ![s] = @ \cup {Orch}]
  /\ SendCall(s, Orch, "challenge", call[s][Orch].key)
  /\ Ends(s, "checking")

EnrolKey(s) ==
  /\ task[s] = "enrolling" /\ kind = "migration"
  /\ Accepted(s, Orch) /\ Connected(s)
  /\ enrolled' = [enrolled EXCEPT ![s] = call[s][Orch].key]
  /\ enrolledIn' = [enrolledIn EXCEPT ![wave] = @ \cup {s}]
  /\ Challenge(s)
  /\ UNCHANGED <<linkVars, keyVars, late, staged, recordVars, runVars, wave, wavePhase, rotatedIn, oldKey, count, proved>>

\* _mark_migrated: the challenge was answered with the enrolled key.
MarkMigrated(s) ==
  /\ task[s] = "checking" /\ kind = "migration"
  /\ Verifies(s, Orch, enrolled[s])
  /\ nonce' = [nonce EXCEPT ![s] = @ \ {Orch}]
  /\ mstate' = [mstate EXCEPT ![s] = "migrated"]
  /\ algorithm' = [algorithm EXCEPT ![s] = "ML-DSA"]
  /\ proved' = [proved EXCEPT ![s] = @ \cup {enrolled[s]}]
  /\ TakeResult(s, Orch)
  /\ Ends(s, "migrated")
  /\ UNCHANGED <<linkVars, keyVars, late, enrolled, staged, runVars, waveVars, oldKey, count>>

\* Mutant of Unenrol: only what the run enrolled is removed.
UnenrolOnceEnrolled(s) ==
  IF task[s] = "checking"
  THEN /\ enrolled' = [enrolled EXCEPT ![s] = NoKey]
       /\ staged' = [staged EXCEPT ![s] = NoKey]
       /\ nonce' = [nonce EXCEPT ![s] = {}]
  ELSE UNCHANGED authVars

\* PQAuthenticator.unenrol: the key, the staged key and the nonces go.
Unenrol(s) ==
  /\ enrolled' = [enrolled EXCEPT ![s] = NoKey]
  /\ staged' = [staged EXCEPT ![s] = NoKey]
  /\ nonce' = [nonce EXCEPT ![s] = {}]

\* _fail_station: no key, an unsendable challenge, or one not verified.  The
\* station is un-enrolled whatever key it had before the run.
FailStation(s) ==
  /\ kind = "migration" /\ Returned(s, Orch)
  /\ \/ task[s] = "enrolling" /\ ~(Accepted(s, Orch) /\ Connected(s))
     \/ task[s] = "checking" /\ ~Verifies(s, Orch, enrolled[s])
  /\ Unenrol(s)
  /\ enrolledIn' = [enrolledIn EXCEPT ![wave] = @ \ {s}]
  /\ mstate' = [mstate EXCEPT ![s] = "rolled_back"]
  /\ TakeResult(s, Orch)
  /\ Ends(s, "rolled_back")
  /\ UNCHANGED <<linkVars, keyVars, late, algorithm, runVars, wave, wavePhase, rotatedIn, oldKey, count, proved>>

\* The overlap window opens: stage_key, which raises for a station that is
\* not enrolled -- the exception ends the whole run.
StageKey(s) ==
  /\ task[s] = "enrolling" /\ kind = "rotation"
  /\ Accepted(s, Orch) /\ Connected(s)
  /\ IF enrolled[s] = NoKey
     THEN /\ phase' = "failed"
          /\ Ends(s, "none")
          /\ TakeResult(s, Orch)
          /\ UNCHANGED <<staged, nonce>>
     ELSE /\ staged' = [staged EXCEPT ![s] = call[s][Orch].key]
          /\ Challenge(s)
          /\ UNCHANGED phase
  /\ UNCHANGED <<linkVars, keyVars, late, enrolled, recordVars, kind, candidates, size, canary, runs, before, waveVars, oldKey, count, proved>>

\* commit_staged: the new key is proven and replaces the old one.
CommitKey(s) ==
  /\ task[s] = "checking" /\ kind = "rotation"
  /\ Verifies(s, Orch, staged[s])
  /\ enrolled' = [enrolled EXCEPT ![s] = staged[s]]
  /\ staged' = [staged EXCEPT ![s] = NoKey]
  /\ nonce' = [nonce EXCEPT ![s] = @ \ {Orch}]
  /\ rotatedIn' = [rotatedIn EXCEPT ![wave][s] = oldKey[s]]
  /\ algorithm' = [algorithm EXCEPT ![s] = "ML-DSA"]
  /\ proved' = [proved EXCEPT ![s] = @ \cup {staged[s]}]
  /\ TakeResult(s, Orch)
  /\ Ends(s, "migrated")
  /\ UNCHANGED <<linkVars, keyVars, late, mstate, runVars, wave, wavePhase, enrolledIn, oldKey, count>>

\* Mutant of Discard: the staged key is left behind.
DiscardNothing(s) == UNCHANGED staged

\* PQAuthenticator.discard_staged.
Discard(s) == staged' = [staged EXCEPT ![s] = NoKey]

\* discard_staged and _rotation_failed: the old key stays.
RotationFails(s) ==
  /\ kind = "rotation" /\ Returned(s, Orch)
  /\ \/ task[s] = "enrolling" /\ ~(Accepted(s, Orch) /\ Connected(s))
     \/ task[s] = "checking" /\ ~Verifies(s, Orch, staged[s])
  /\ Discard(s)
  /\ nonce' = [nonce EXCEPT ![s] = @ \ {Orch}]
  /\ TakeResult(s, Orch)
  /\ Ends(s, "rolled_back")
  /\ UNCHANGED <<linkVars, keyVars, late, enrolled, recordVars, runVars, waveVars, oldKey, count, proved>>

StationStep(s) ==
  \/ Skip(s) \/ Defer(s) \/ AskForKey(s)
  \/ EnrolKey(s) \/ MarkMigrated(s) \/ FailStation(s)
  \/ StageKey(s) \/ CommitKey(s) \/ RotationFails(s)

-----------------------------------------------------------------------------
(* The end of a wave, of a run, and rollback.                              *)

\* _rollback_wave: stations rotated in the wave get their old key back,
\* stations enrolled in it lose the key.

\* Mutants: old keys are not put back; the whole wave is un-enrolled.
ToRestoreNobody(w) == {}
ToUnenrolWave(w) == Wave(w)

ToRestore(w) == {s \in Stations : rotatedIn[w][s] # NoKey}
ToUnenrol(w) == enrolledIn[w]

Undo(w) ==
  LET gone == ToUnenrol(w)
      back == ToRestore(w) IN
  /\ enrolled' = [s \in Stations |-> IF s \in gone THEN NoKey
                                     ELSE IF s \in back THEN rotatedIn[w][s]
                                     ELSE enrolled[s]]
  /\ staged' = [s \in Stations |-> IF s \in gone THEN NoKey ELSE staged[s]]
  /\ nonce' = [s \in Stations |-> IF s \in gone THEN {} ELSE nonce[s]]
  /\ mstate' = [s \in Stations |-> IF s \in gone THEN "rolled_back" ELSE mstate[s]]
  /\ enrolledIn' = [enrolledIn EXCEPT ![w] = {}]
  /\ rotatedIn' = [rotatedIn EXCEPT ![w] = NoneRotated]

\* What a rollback does to the counters: `migrated` never goes below zero.
TakenBack(c, w) ==
  LET n == Cardinality(ToUnenrol(w)) + Cardinality(ToRestore(w)) IN
  [c EXCEPT !.rolled_back = @ + n, !.migrated = IF @ > n THEN @ - n ELSE 0]

\* gather() has every outcome of the wave.
WaveDone ==
  /\ phase \in Active /\ wave >= 0
  /\ wavePhase[wave] = "running"
  /\ \A s \in Wave(wave) : task[s] \in Outcomes

With(outcome) == Cardinality({s \in Wave(wave) : task[s] = outcome})
Eligible == Cardinality(Wave(wave)) - With("incompatible") - With("pending")
OverThreshold == Eligible > 0 /\ 100 * With("rolled_back") > ThresholdPct * Eligible

\* Mutant of Counted: deferred stations leave `pending` too.
CountedDeferred ==
  [count EXCEPT !.migrated = @ + With("migrated"),
                !.rolled_back = @ + With("rolled_back"),
                !.incompatible = @ + With("incompatible"),
                !.pending = @ - Cardinality(Wave(wave))]

\* Every station that reached a terminal state leaves `pending`.
Counted ==
  [count EXCEPT !.migrated = @ + With("migrated"),
                !.rolled_back = @ + With("rolled_back"),
                !.incompatible = @ + With("incompatible"),
                !.pending = @ - (Cardinality(Wave(wave)) - With("pending"))]

\* The wave is within the threshold and the next one starts at once.
NextWave ==
  /\ WaveDone /\ ~OverThreshold /\ MoreAfter(wave)
  /\ count' = Counted
  /\ phase' = "running"
  /\ wavePhase' = [wavePhase EXCEPT ![wave] = "completed", ![wave + 1] = "running"]
  /\ BeginWave(wave + 1)
  /\ UNCHANGED <<dispatchVars, authVars, recordVars, kind, candidates, size, canary, runs, before, proved>>

\* The last wave is within the threshold.
RunCompletes ==
  /\ WaveDone /\ ~OverThreshold /\ ~MoreAfter(wave)
  /\ count' = Counted
  /\ phase' = "completed"
  /\ wavePhase' = [wavePhase EXCEPT ![wave] = "completed"]
  /\ UNCHANGED <<dispatchVars, authVars, recordVars, kind, candidates, size, canary, runs, before,
                 wave, enrolledIn, rotatedIn, taskVars, proved>>

\* Too many failures: the wave is rolled back and the run halts.
WaveFails ==
  /\ WaveDone /\ OverThreshold
  /\ count' = TakenBack(Counted, wave)
  /\ phase' = "rolled_back"
  /\ wavePhase' = [wavePhase EXCEPT ![wave] = "rolled_back"]
  /\ Undo(wave)
  /\ UNCHANGED <<dispatchVars, algorithm, kind, candidates, size, canary, runs, before, wave,
                 taskVars, proved>>

\* The operator rolls back a wave that was started in this run -- between two
\* awaits of its coroutines, or long after the run.
Rollback(w) ==
  /\ Manual /\ phase # "idle" /\ w <= wave
  /\ count' = TakenBack(count, w)
  /\ Undo(w)
  /\ UNCHANGED <<dispatchVars, algorithm, runVars, wave, wavePhase, taskVars, proved>>

-----------------------------------------------------------------------------
Operator ==
  \/ \E ws \in WaveSizes, cc \in CanaryCounts :
       StartMigration(ws, cc) \/ StartRotation(ws, cc)
  \/ \E w \in WaveIds : Rollback(w)

Run == BeginRun \/ NextWave \/ RunCompletes \/ WaveFails

Next ==
  \/ Operator
  \/ Run
  \/ \E s \in Stations : StationStep(s)
  \/ \E s \in Stations : Environment(s) /\ UNCHANGED migrationVars

Spec == Init /\ [][Next]_vars

-----------------------------------------------------------------------------
(* Migration implements Rollout.                                           *)

Opened == {s \in candidates : wave >= 0 /\ Rank(s) < First(wave + 1)}
KeyStatus(s) ==
  IF enrolled[s] = NoKey THEN "none"
  ELSE IF enrolled[s] \in proved[s] THEN "proven" ELSE "tried"

R == INSTANCE Rollout WITH
       active <- phase \in Active,
       open   <- Opened,
       held   <- [s \in Stations |-> KeyStatus(s)]

\* Every step of the orchestrator, the chargers and the operator is a step of
\* the abstract rollout, or leaves it alone.
ImplementsRollout == R!Spec

-----------------------------------------------------------------------------
(* Properties.                                                             *)

\* MIGRATED means AUTHENTICATED (csms/migration.py): the key the server holds
\* for a migrated station is one the station has proven it holds the private
\* half of -- through rotations, their rollbacks and failed re-migrations.
MigratedIsProven ==
  \A s \in Stations : mstate[s] = "migrated" =>
    enrolled[s] # NoKey /\ enrolled[s] \in proved[s]

\* A station that is not (being) migrated has no key on the server, so it is
\* never challenged; and none is left "in progress" by a run that has ended.
NeverHalfMigrated ==
  \A s \in Stations :
    /\ mstate[s] \in {"pending", "rolled_back", "incompatible"} =>
         enrolled[s] = NoKey /\ staged[s] = NoKey /\ nonce[s] \cap {Orch} = {}
    /\ mstate[s] = "in_progress" => phase \in Active /\ task[s] \in {"enrolling", "checking"}

\* No run crashes: stage_key is never reached for a station un-enrolled
\* behind a rotation's back, whatever is rolled back by hand meanwhile.
NeverFailed == phase # "failed"

\* A staged key exists only inside the overlap window of a running rotation.
StagedOnlyInWindow ==
  \A s \in Stations : staged[s] # NoKey =>
    phase \in Active /\ kind = "rotation" /\ task[s] = "checking"

\* A rotation never leaves a station without a key (start_rotation: it never
\* loses its identity).
RotationKeepsIdentity ==
  [][kind = "rotation" /\ kind' = "rotation" =>
       \A s \in Stations : enrolled[s] # NoKey => enrolled'[s] # NoKey]_vars

\* Containment: a station whose wave has not started is as it was before the
\* run, so a failed canary touches nobody else.
Containment ==
  phase # "idle" => \A s \in Stations :
    (s \notin candidates \/ Rank(s) >= First(wave + 1)) =>
      enrolled[s] = before[s].key /\ mstate[s] = before[s].state

\* A rolled back wave is undone: none of its rotated stations keeps the new
\* key; in a migration nobody it reached is left enrolled.
FailedWaveUndone ==
  (phase = "rolled_back" /\ wave >= 0) => \A s \in Wave(wave) :
    IF kind = "rotation" THEN enrolled[s] = before[s].key
    ELSE enrolled[s] = NoKey \/ (task[s] = "pending" /\ enrolled[s] = before[s].key)

\* A rotation's wave rolled back by hand, during the run or after it, is back on
\* the keys it had before the run.
RotationRollbackRestores ==
  [][\A w \in WaveIds : kind = "rotation" /\ Rollback(w) =>
       \A s \in Wave(w) : enrolled'[s] = before[s].key]_vars

\* The counters add up to the number of candidates (idmanager/api.py:105).
CountersAddUp ==
  count.pending + count.migrated + count.rolled_back + count.incompatible = count.total

\* The charger still holds the private half of the key the server challenges
\* it with at its next boot.
IdentityHeld ==
  \A s \in Stations : mstate[s] = "migrated" => Holds(s, enrolled[s])

\* The overlap window: a station that was migrated survives one further run --
\* a rotation that fails at any point, is rolled back, or is obeyed by the
\* charger only after the server gave up on it.
OneRotationSurvived == runs <= 2 => IdentityHeld

\* Every run ends, given the dispatcher's timer and a fair event loop.
RunEnds == phase \in Active ~> phase \notin Active
=============================================================================

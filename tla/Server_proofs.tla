---------------------------- MODULE Server_proofs ----------------------------
(***************************************************************************)
(* Theorems about the server's migrations for any stations, waves,         *)
(* thresholds and bounds.  A migration by itself (Migration):              *)
(*                                                                         *)
(*   1. types, and the invariant the others rest on (IInv);                *)
(*   2. Migration implements Rollout, and a run touches no station before  *)
(*      its wave;                                                          *)
(*   3. a wave that is rolled back, because it failed or by hand, is       *)
(*      undone, and the counters of a run nobody rolls back by hand add up;*)
(*   4. a charger holds the key the server has for it through one further  *)
(*      run after its migration.                                           *)
(*                                                                         *)
(* Inside the server:                                                      *)
(*                                                                         *)
(*   5. on a server that may die at any moment, with any number of failed  *)
(*      flushes (Restart);                                                 *)
(*   6. next to the key check after every boot (BootCheck).                *)
(***************************************************************************)
EXTENDS Restart, BootCheck, FiniteSetTheorems, TLAPS

-----------------------------------------------------------------------------
(* The inductive invariant.                                                *)

Working == {"ready", "enrolling", "checking"}

\* Coroutines at work belong to the current wave of a running run.
BusyInWave ==
  \A s \in Stations : task[s] \in Working =>
    phase \in Active /\ wave >= 0 /\ s \in Wave(wave)

\* What can still be undone was done in a wave that has been opened, and only
\* the current wave can undo what its own coroutines did.
Undoable(w, s) == s \in enrolledIn[w] \/ rotatedIn[w][s] # NoKey

UndoInWave ==
  \A w \in WaveIds, s \in Stations : Undoable(w, s) =>
    /\ wave >= 0 /\ s \in candidates /\ Rank(s) < First(wave + 1)
    /\ w # wave => s \notin Wave(wave)
    /\ task[s] \notin {"ready", "enrolling"}

\* A run either enrols or rotates; what it can put back was proven, unless the
\* station was in progress before the rotation.
UndoKinds ==
  \A w \in WaveIds, s \in Stations :
    /\ s \in enrolledIn[w] => kind = "migration"
    /\ rotatedIn[w][s] # NoKey =>
         kind = "rotation" /\ (mstate[s] # "in_progress" => rotatedIn[w][s] \in proved[s])

\* A station can be enrolled only if it is capable, and a rotation's
\* candidates stay enrolled.
EnrolledCapable == \A s \in Stations : enrolled[s] # NoKey => s \in Capable
RotationKeyed ==
  kind = "rotation" => \A s \in candidates : enrolled[s] # NoKey

\* What the coroutine of a station knows of its record.
TaskKnows ==
  \A s \in Stations :
    /\ Orch \in nonce[s] => task[s] = "checking"
    /\ kind = "migration" /\ wave >= 0 => oldKey[s] = NoKey
    /\ oldKey[s] # NoKey /\ mstate[s] # "in_progress" => oldKey[s] \in proved[s]
    /\ kind = "migration" /\ task[s] = "enrolling" =>
         mstate[s] = "in_progress" /\ s \in Capable
    /\ kind = "migration" /\ task[s] = "checking" =>
         /\ s \in Capable
         /\ \/ mstate[s] = "in_progress"
            \/ mstate[s] = "rolled_back" /\ enrolled[s] = NoKey /\ Orch \notin nonce[s]

\* A station that is not (being) migrated has no key and no challenge.
KeysByState ==
  \A s \in Stations : mstate[s] \in {"pending", "rolled_back", "incompatible"} =>
    enrolled[s] = NoKey /\ staged[s] = NoKey /\ Orch \notin nonce[s]

\* What every step of Migration keeps, also on a server that was started again
\* with stations in progress on its disk (Restart).
Sound ==
  /\ BusyInWave /\ UndoInWave /\ UndoKinds
  /\ EnrolledCapable /\ RotationKeyed /\ TaskKnows
  /\ MigratedIsProven /\ KeysByState /\ NeverFailed /\ StagedOnlyInWindow

\* A station in progress has a coroutine of a migration that works on it.
InHand(s) ==
  mstate[s] = "in_progress" =>
    phase \in Active /\ kind = "migration" /\ task[s] \in {"enrolling", "checking"}
AllInHand == \A s \in Stations : InHand(s)

\* What Sound and AllInHand say together, in the words the other proofs use.
UndoByKind ==
  \A w \in WaveIds, s \in Stations :
    /\ s \in enrolledIn[w] => kind = "migration"
    /\ rotatedIn[w][s] # NoKey => kind = "rotation" /\ rotatedIn[w][s] \in proved[s]

RotationEnrolled ==
  kind = "rotation" => \A s \in Stations :
    /\ s \in candidates => enrolled[s] # NoKey
    /\ mstate[s] # "in_progress"

TaskAgrees ==
  \A s \in Stations :
    /\ Orch \in nonce[s] => task[s] = "checking"
    /\ oldKey[s] # NoKey => oldKey[s] \in proved[s]
    /\ kind = "migration" /\ task[s] = "enrolling" =>
         mstate[s] = "in_progress" /\ s \in Capable
    /\ kind = "migration" /\ task[s] = "checking" =>
         /\ s \in Capable
         /\ \/ mstate[s] = "in_progress"
            \/ mstate[s] = "rolled_back" /\ enrolled[s] = NoKey /\ Orch \notin nonce[s]

IInv ==
  /\ BusyInWave /\ UndoInWave /\ UndoByKind
  /\ EnrolledCapable /\ RotationEnrolled /\ TaskAgrees
  /\ MigratedIsProven /\ NeverHalfMigrated /\ NeverFailed /\ StagedOnlyInWindow

-----------------------------------------------------------------------------
(* Facts about the operators.                                              *)

LEMMA SetCallType ==
  ASSUME call \in [Stations -> [Callers -> Call]],
         NEW s \in Stations, NEW c \in Callers, NEW new \in Call, SetCall(s, c, new)
  PROVE  call' \in [Stations -> [Callers -> Call]]
BY DEF SetCall

LEMMA NewCallType ==
  ASSUME session \in [Stations -> {0} \cup Conns],
         NEW s \in Stations, NEW c, NEW req \in Requests, NEW key \in KeyOrNone
  PROVE  NewCall(s, c, req, key) \in Call
BY DEF NewCall, Call, CallStates

\* What the steps of a call make of its record.
LEMMA RecordType ==
  ASSUME NEW r \in Call, NEW ok \in BOOLEAN, NEW key \in KeyOrNone
  PROVE  /\ [r EXCEPT !.st = "failed", !.ok = FALSE] \in Call
         /\ [r EXCEPT !.st = "failed"] \in Call
         /\ [r EXCEPT !.st = "sent"] \in Call
         /\ [r EXCEPT !.st = "answered", !.ok = ok, !.key = key] \in Call
BY DEF Call, CallStates

LEMMA IdleType == Idle \in Call
BY DEF Idle, Call, CallStates, Requests, KeyOrNone

\* Finitely many stations: every set of them has a natural cardinality, no
\* more than there are stations.
LEMMA Count ==
  ASSUME NEW S, S \subseteq Stations
  PROVE  IsFiniteSet(S) /\ Cardinality(S) \in Nat /\ Cardinality(S) <= Cardinality(Stations)
BY DispatchAssumption, FS_Subset, FS_CardinalityType DEF DispatchAssumption

LEMMA RankType ==
  ASSUME candidates \subseteq Stations, NEW s \in Stations
  PROVE  Rank(s) \in Nat
BY Count DEF Rank

\* The rank of a candidate is below the number of stations.
LEMMA RankBelow ==
  ASSUME candidates \subseteq Stations, NEW s \in candidates
  PROVE  Rank(s) < Cardinality(Stations)
<1> DEFINE below == {x \in candidates : x < s}
<1>1. below \subseteq candidates \ {s}
  BY DispatchAssumption DEF DispatchAssumption
<1>2. IsFiniteSet(candidates) /\ IsFiniteSet(candidates \ {s})
  BY Count
<1>3. Cardinality(candidates \ {s}) = Cardinality(candidates) - 1
  BY <1>2, FS_RemoveElement
<1>4. Cardinality(below) <= Cardinality(candidates \ {s})
  BY <1>1, <1>2, FS_Subset
<1> QED BY <1>3, <1>4, Count DEF Rank

\* A wave that has a successor is not the last wave number.
LEMMA WaveAfter ==
  ASSUME candidates \subseteq Stations, size \in Nat \ {0}, canary \in Nat,
         wave \in WaveIds, MoreAfter(wave)
  PROVE  wave + 1 \in WaveIds
<1>1. PICK s \in candidates : Rank(s) >= First(wave + 1)
  BY DEF MoreAfter
<1>2. Cardinality(Stations) \in Nat /\ Rank(s) \in Nat /\ Rank(s) < Cardinality(Stations)
  BY Count, RankType, RankBelow
<1>3. wave \in Nat /\ wave * size >= wave
  <2>1. wave \in Nat BY <1>2 DEF WaveIds
  <2>2. \A a \in Nat, b \in Nat \ {0} : a * b >= a
    OBVIOUS
  <2> QED BY <2>1, <2>2
<1>4. First(wave + 1) = canary + wave * size
  BY <1>3 DEF First
<1> QED BY <1>1, <1>2, <1>3, <1>4 DEF WaveIds

-----------------------------------------------------------------------------
(* Type correctness.                                                       *)

LEMMA EnvironmentType ==
  ASSUME DispatchTypeOK, NEW s \in Stations, Environment(s)
  PROVE  DispatchTypeOK'
<1> USE DispatchAssumption DEF DispatchAssumption
<1>0. \A c \in Callers : call[s][c] \in Call /\ call[s][c].key \in KeyOrNone
  <2>1. \A r \in Call : r.key \in KeyOrNone
    BY DEF Call
  <2> QED BY <2>1 DEF DispatchTypeOK
<1>1. ASSUME NEW c \in Callers, GiveUp(s, c)
      PROVE  DispatchTypeOK'
  <2>1. [call[s][c] EXCEPT !.st = "failed", !.ok = FALSE] \in Call
    BY <1>0, RecordType
  <2>2. call' \in [Stations -> [Callers -> Call]]
    BY <1>1, <2>1, SetCallType DEF GiveUp, DispatchTypeOK
  <2>3. late' \in [Stations -> Nat]
    BY <1>1 DEF GiveUp, DispatchTypeOK
  <2>4. UNCHANGED <<opened, live, session, current, previous, made>>
    BY <1>1 DEF GiveUp, linkVars, keyVars
  <2> QED BY <2>2, <2>3, <2>4 DEF DispatchTypeOK
<1>2. ASSUME NEW c \in Callers, ChargerEnrols(s, c)
      PROVE  DispatchTypeOK'
  <2>1. made[s] + 1 \in KeyOrNone /\ made[s] + 1 \in 0..MaxKeys
    BY <1>2 DEF ChargerEnrols, MakeKey, DispatchTypeOK, KeyOrNone, Keys
  <2>2. [call[s][c] EXCEPT !.st = "answered", !.ok = TRUE, !.key = made[s] + 1] \in Call
    BY <1>0, <2>1, RecordType
  <2>3. call' \in [Stations -> [Callers -> Call]]
    BY <1>2, <2>2 DEF ChargerEnrols, Answer, DispatchTypeOK
  <2> QED BY <1>2, <2>1, <2>3 DEF ChargerEnrols, MakeKey, DispatchTypeOK, linkVars
<1>3. ASSUME NEW c \in Callers, ChargerRefuses(s, c)
      PROVE  DispatchTypeOK'
  <2>1. [call[s][c] EXCEPT !.st = "answered", !.ok = FALSE, !.key = NoKey] \in Call
    BY <1>0, RecordType DEF KeyOrNone
  <2>2. call' \in [Stations -> [Callers -> Call]]
    BY <1>3, <2>1 DEF ChargerRefuses, Answer, DispatchTypeOK
  <2> QED BY <1>3, <2>2 DEF ChargerRefuses, DispatchTypeOK, linkVars, keyVars
<1>4. ASSUME NEW c \in Callers, ChargerSigns(s, c)
      PROVE  DispatchTypeOK'
  <2>1. Holds(s, call[s][c].key) \in BOOLEAN
    BY DEF Holds
  <2>2. [call[s][c] EXCEPT !.st = "answered", !.ok = Holds(s, call[s][c].key),
                           !.key = call[s][c].key] \in Call
    BY <1>0, <2>1, RecordType
  <2>3. call' \in [Stations -> [Callers -> Call]]
    BY <1>4, <2>2 DEF ChargerSigns, Answer, DispatchTypeOK
  <2> QED BY <1>4, <2>3 DEF ChargerSigns, DispatchTypeOK, linkVars, keyVars
<1>5. ASSUME NEW n \in Conns, CloseSocket(s, n)
      PROVE  DispatchTypeOK'
  <2> DEFINE Rec(c) == IF call[s][c].st \in {"queued", "sent"} /\ call[s][c].conn = n
                       THEN [call[s][c] EXCEPT !.st = "failed"] ELSE call[s][c]
  <2>1. \A c \in Callers : Rec(c) \in Call
    BY <1>0, RecordType
  <2>2. call' = [call EXCEPT ![s] = [c \in Callers |-> Rec(c)]]
    BY <1>5 DEF CloseSocket
  <2> HIDE DEF Rec
  <2>3. call' \in [Stations -> [Callers -> Call]]
    BY <2>1, <2>2 DEF DispatchTypeOK
  <2> QED BY <1>5, <2>3 DEF CloseSocket, DispatchTypeOK, keyVars
<1>6. ASSUME Dial(s) PROVE DispatchTypeOK'
  BY <1>6 DEF Dial, DispatchTypeOK, keyVars, Conns
<1>7. ASSUME ChargerEnrolsLate(s) PROVE DispatchTypeOK'
  <2>1. made[s] + 1 \in KeyOrNone /\ made[s] + 1 \in 0..MaxKeys
    BY <1>7 DEF ChargerEnrolsLate, MakeKey, DispatchTypeOK, KeyOrNone, Keys
  <2> QED BY <1>7, <2>1 DEF ChargerEnrolsLate, MakeKey, DispatchTypeOK, linkVars
<1>8. ASSUME ChargerRefusesLate(s) PROVE DispatchTypeOK'
  BY <1>8 DEF ChargerRefusesLate, DispatchTypeOK, linkVars, keyVars
<1>9. ASSUME NEW c \in Callers, Acquire(s, c)
      PROVE  DispatchTypeOK'
  <2>1. call' \in [Stations -> [Callers -> Call]]
    BY <1>0, <1>9, RecordType, SetCallType DEF Acquire, DispatchTypeOK
  <2> QED BY <1>9, <2>1 DEF Acquire, DispatchTypeOK, linkVars, keyVars
<1> QED BY <1>1, <1>2, <1>3, <1>4, <1>5, <1>6, <1>7, <1>8, <1>9 DEF Environment

\* Every step of a station's coroutine.
LEMMA StationType ==
  ASSUME TypeOK, NEW s \in Stations, StationStep(s)
  PROVE  TypeOK'
<1> USE DEF authVars, recordVars, runVars, waveVars, linkVars, keyVars, callVars, dispatchVars
<1>0. Orch \in Callers /\ call[s][Orch] \in Call /\ call[s][Orch].key \in KeyOrNone
  <2>1. \A r \in Call : r.key \in KeyOrNone
    BY DEF Call
  <2> QED BY <2>1 DEF TypeOK, DispatchTypeOK, Callers
<1>1. ASSUME NEW new \in Call, SetCall(s, Orch, new)
      PROVE  call' \in [Stations -> [Callers -> Call]]
  BY <1>0, <1>1, SetCallType DEF TypeOK, DispatchTypeOK
<1>2. TakeResult(s, Orch) => call' \in [Stations -> [Callers -> Call]]
  BY <1>1, IdleType DEF TakeResult
<1>3. Challenge(s) =>
        /\ call' \in [Stations -> [Callers -> Call]]
        /\ nonce' \in [Stations -> SUBSET Callers]
        /\ task' \in [Stations -> TaskStates]
  <2>1. NewCall(s, Orch, "challenge", call[s][Orch].key) \in Call
    BY <1>0, NewCallType DEF TypeOK, DispatchTypeOK, Requests
  <2>2. Challenge(s) => call' \in [Stations -> [Callers -> Call]]
    BY <1>1, <2>1 DEF Challenge, SendCall
  <2>3. Challenge(s) => /\ nonce' \in [Stations -> SUBSET Callers]
                        /\ task' \in [Stations -> TaskStates]
    BY <1>0 DEF Challenge, Ends, TaskStates, TypeOK
  <2> QED BY <2>2, <2>3
<1>4. CASE Skip(s)
  BY <1>4 DEF Skip, Ends, TypeOK, DispatchTypeOK, TaskStates, Outcomes, MigrationState
<1>5. CASE Defer(s)
  BY <1>5 DEF Defer, Ends, TypeOK, DispatchTypeOK, TaskStates, Outcomes
<1>6. CASE AskForKey(s)
  <2>1. NewCall(s, Orch, "enrol", NoKey) \in Call /\ Idle \in Call
    BY NewCallType, IdleType DEF TypeOK, DispatchTypeOK, Requests, KeyOrNone
  <2>2. call' \in [Stations -> [Callers -> Call]]
    BY <1>1, <1>6, <2>1 DEF AskForKey
  <2>3. /\ task' \in [Stations -> TaskStates]
        /\ mstate' \in [Stations -> MigrationState]
        /\ oldKey' \in [Stations -> KeyOrNone]
    BY <1>6 DEF AskForKey, TypeOK, TaskStates, Outcomes, MigrationState, KeyOrNone
  <2> QED BY <1>6, <2>2, <2>3 DEF AskForKey, TypeOK, DispatchTypeOK
<1>7. CASE EnrolKey(s)
  <2>1. /\ enrolled' \in [Stations -> KeyOrNone]
        /\ enrolledIn' \in [WaveIds -> SUBSET Stations]
    BY <1>0, <1>7 DEF EnrolKey, TypeOK
  <2> QED BY <1>3, <1>7, <2>1 DEF EnrolKey, TypeOK, DispatchTypeOK
<1>8. CASE MarkMigrated(s)
  <2>1. proved' \in [Stations -> SUBSET Keys]
    BY <1>8 DEF MarkMigrated, Verifies, TypeOK, KeyOrNone
  <2>2. /\ nonce' \in [Stations -> SUBSET Callers]
        /\ mstate' \in [Stations -> MigrationState]
        /\ algorithm' \in [Stations -> {"classical", "ML-DSA"}]
        /\ task' \in [Stations -> TaskStates]
    BY <1>8 DEF MarkMigrated, Ends, TypeOK, TaskStates, Outcomes, MigrationState
  <2> QED BY <1>2, <1>8, <2>1, <2>2 DEF MarkMigrated, TypeOK, DispatchTypeOK
<1>9. CASE FailStation(s)
  <2>1. /\ enrolled' \in [Stations -> KeyOrNone]
        /\ staged' \in [Stations -> KeyOrNone]
        /\ nonce' \in [Stations -> SUBSET Callers]
        /\ enrolledIn' \in [WaveIds -> SUBSET Stations]
        /\ mstate' \in [Stations -> MigrationState]
        /\ task' \in [Stations -> TaskStates]
    BY <1>9 DEF FailStation, Unenrol, Ends, TypeOK, TaskStates, Outcomes, MigrationState, KeyOrNone
  <2> QED BY <1>2, <1>9, <2>1 DEF FailStation, Unenrol, TypeOK, DispatchTypeOK
<1>10. CASE StageKey(s)
  <2>1. CASE enrolled[s] = NoKey
    BY <1>2, <1>10, <2>1
       DEF StageKey, Ends, TypeOK, DispatchTypeOK, TaskStates, MigrationPhase
  <2>2. CASE enrolled[s] # NoKey
    <3>1. staged' \in [Stations -> KeyOrNone] /\ Challenge(s) /\ phase' = phase
      BY <1>0, <1>10, <2>2 DEF StageKey, TypeOK
    <3> QED BY <1>3, <1>10, <3>1 DEF StageKey, TypeOK, DispatchTypeOK
  <2> QED BY <2>1, <2>2
<1>11. CASE CommitKey(s)
  <2>1. proved' \in [Stations -> SUBSET Keys]
    BY <1>11 DEF CommitKey, Verifies, TypeOK, KeyOrNone
  <2>2. rotatedIn' \in [WaveIds -> [Stations -> KeyOrNone]]
    BY <1>11 DEF CommitKey, TypeOK
  <2>3. /\ enrolled' \in [Stations -> KeyOrNone]
        /\ staged' \in [Stations -> KeyOrNone]
        /\ nonce' \in [Stations -> SUBSET Callers]
        /\ algorithm' \in [Stations -> {"classical", "ML-DSA"}]
        /\ task' \in [Stations -> TaskStates]
    BY <1>11 DEF CommitKey, Ends, TypeOK, TaskStates, Outcomes, KeyOrNone
  <2> QED BY <1>2, <1>11, <2>1, <2>2, <2>3 DEF CommitKey, TypeOK, DispatchTypeOK
<1>12. CASE RotationFails(s)
  <2>1. /\ staged' \in [Stations -> KeyOrNone]
        /\ nonce' \in [Stations -> SUBSET Callers]
        /\ task' \in [Stations -> TaskStates]
    BY <1>12 DEF RotationFails, Discard, Ends, TypeOK, TaskStates, Outcomes, KeyOrNone
  <2> QED BY <1>2, <1>12, <2>1 DEF RotationFails, TypeOK, DispatchTypeOK
<1> QED BY <1>4, <1>5, <1>6, <1>7, <1>8, <1>9, <1>10, <1>11, <1>12 DEF StationStep

\* The counters stay counters: rollback has a floor, With counts stations.
LEMMA CounterType ==
  ASSUME TypeOK, NEW w \in WaveIds,
         NEW c \in Counters
  PROVE  TakenBack(c, w) \in Counters
<1>1. Cardinality(ToUnenrol(w)) \in Nat
  BY Count DEF ToUnenrol, TypeOK
<1>2. Cardinality(ToRestore(w)) \in Nat
  <2>1. ToRestore(w) \subseteq Stations
    BY DEF ToRestore
  <2> QED BY <2>1, Count
<1> DEFINE n == Cardinality(ToUnenrol(w)) + Cardinality(ToRestore(w))
<1>3. n \in Nat
  BY <1>1, <1>2
<1>4. TakenBack(c, w) = [c EXCEPT !.rolled_back = @ + n,
                                  !.migrated = IF @ > n THEN @ - n ELSE 0]
  BY DEF TakenBack
<1>5. c.rolled_back \in Nat /\ c.migrated \in Nat
  BY DEF Counters
<1> HIDE DEF n
<1>6. c.rolled_back + n \in Nat /\ (IF c.migrated > n THEN c.migrated - n ELSE 0) \in Nat
  BY <1>3, <1>5
<1> QED BY <1>4, <1>6 DEF Counters

LEMMA CountedType ==
  ASSUME TypeOK
  PROVE  Counted \in Counters
<1>1. Wave(wave) \subseteq Stations
  BY DEF Wave, TypeOK
<1>2. Cardinality(Wave(wave)) \in Nat
  BY <1>1, Count
<1>3. \A o : {s \in Wave(wave) : task[s] = o} \subseteq Stations
  BY <1>1
<1>4. \A o : With(o) \in Nat
  BY <1>3, Count DEF With
<1>5. /\ With("migrated") \in Nat /\ With("rolled_back") \in Nat
      /\ With("incompatible") \in Nat /\ With("pending") \in Nat
  BY <1>4
<1>6. /\ count.pending \in Int /\ count.migrated \in Nat /\ count.rolled_back \in Nat
      /\ count.incompatible \in Nat
  BY DEF TypeOK, Counters
<1>7. /\ count.migrated + With("migrated") \in Nat
      /\ count.rolled_back + With("rolled_back") \in Nat
      /\ count.incompatible + With("incompatible") \in Nat
      /\ count.pending - (Cardinality(Wave(wave)) - With("pending")) \in Int
  BY <1>2, <1>5, <1>6
<1> QED BY <1>7 DEF Counted, TypeOK, Counters

\* What a rollback leaves.
LEMMA UndoType ==
  ASSUME TypeOK, NEW w \in WaveIds, Undo(w)
  PROVE  /\ enrolled' \in [Stations -> KeyOrNone]
         /\ staged' \in [Stations -> KeyOrNone]
         /\ nonce' \in [Stations -> SUBSET Callers]
         /\ mstate' \in [Stations -> MigrationState]
         /\ enrolledIn' \in [WaveIds -> SUBSET Stations]
         /\ rotatedIn' \in [WaveIds -> [Stations -> KeyOrNone]]
<1>1. NoneRotated \in [Stations -> KeyOrNone]
  BY DEF NoneRotated, KeyOrNone
<1>2. /\ enrolledIn' \in [WaveIds -> SUBSET Stations]
      /\ rotatedIn' \in [WaveIds -> [Stations -> KeyOrNone]]
  BY <1>1 DEF Undo, TypeOK
<1>3. /\ enrolled' \in [Stations -> KeyOrNone]
      /\ staged' \in [Stations -> KeyOrNone]
      /\ nonce' \in [Stations -> SUBSET Callers]
      /\ mstate' \in [Stations -> MigrationState]
  BY DEF Undo, TypeOK, KeyOrNone, MigrationState
<1> QED BY <1>2, <1>3

LEMMA BeginWaveType ==
  ASSUME TypeOK, NEW w \in WaveIds, BeginWave(w)
  PROVE  /\ wave' \in {-1} \cup WaveIds
         /\ enrolledIn' \in [WaveIds -> SUBSET Stations]
         /\ rotatedIn' \in [WaveIds -> [Stations -> KeyOrNone]]
         /\ task' \in [Stations -> TaskStates]
         /\ oldKey' \in [Stations -> KeyOrNone]
BY DEF BeginWave, TypeOK, NoneRotated, KeyOrNone, TaskStates

LEMMA ActiveWave == ASSUME TypeOK, wave >= 0 PROVE wave \in WaveIds
BY DEF TypeOK

\* Every step of the run and of the operator.
LEMMA RunType ==
  ASSUME TypeOK, Run \/ Operator
  PROVE  TypeOK'
<1> USE DEF authVars, recordVars, runVars, waveVars, taskVars, linkVars, keyVars, callVars, dispatchVars
<1>0. 0 \in WaveIds
  BY Count DEF WaveIds
<1>1. CASE BeginRun
  BY <1>0, <1>1, BeginWaveType DEF BeginRun, TypeOK, DispatchTypeOK
<1>2. CASE NextWave
  <2>1. wave \in WaveIds /\ wave + 1 \in WaveIds
    BY <1>2, ActiveWave, WaveAfter DEF NextWave, WaveDone, TypeOK
  <2>2. wavePhase' \in [WaveIds -> {"none", "running", "completed", "rolled_back"}]
    BY <1>2 DEF NextWave, TypeOK
  <2> QED BY <1>2, <2>1, <2>2, BeginWaveType, CountedType
          DEF NextWave, TypeOK, DispatchTypeOK, MigrationPhase
<1>3. CASE RunCompletes
  BY <1>3, CountedType DEF RunCompletes, TypeOK, DispatchTypeOK, MigrationPhase
<1>4. CASE WaveFails
  <2>1. wave \in WaveIds
    BY <1>4, ActiveWave DEF WaveFails, WaveDone
  <2>2. count' \in Counters
    BY <1>4, <2>1, CountedType, CounterType DEF WaveFails
  <2>3. wavePhase' \in [WaveIds -> {"none", "running", "completed", "rolled_back"}]
    BY <1>4 DEF WaveFails, TypeOK
  <2> QED BY <1>4, <2>1, <2>2, <2>3, UndoType DEF WaveFails, TypeOK, DispatchTypeOK, MigrationPhase
<1>5. ASSUME NEW w \in WaveIds, Rollback(w)
      PROVE  TypeOK'
  <2>1. count' \in Counters
    BY <1>5, CounterType DEF Rollback, TypeOK
  <2> QED BY <1>5, <2>1, UndoType DEF Rollback, TypeOK, DispatchTypeOK
<1>6. ASSUME NEW k \in {"migration", "rotation"}, NEW who \in SUBSET Stations,
             NEW ws \in WaveSizes, NEW cc \in CanaryCounts, StartRun(k, who, ws, cc)
      PROVE  TypeOK'
  <2>1. ws \in Nat \ {0} /\ cc \in Nat /\ runs + 1 \in 0..MaxRuns
    BY <1>6, MigrationAssumption DEF MigrationAssumption, StartRun, TypeOK
  <2>2. Cardinality(who) \in Nat
    BY Count
  <2>3. count' \in Counters
    BY <1>6, <2>2 DEF StartRun, Counters
  <2>4. /\ wavePhase' \in [WaveIds -> {"none", "running", "completed", "rolled_back"}]
        /\ enrolledIn' \in [WaveIds -> SUBSET Stations]
        /\ rotatedIn' \in [WaveIds -> [Stations -> KeyOrNone]]
        /\ before' \in [Stations -> [key : KeyOrNone, state : MigrationState]]
    BY <1>6 DEF StartRun, NoneRotated, KeyOrNone, TypeOK
  <2> QED BY <1>6, <2>1, <2>3, <2>4 DEF StartRun, TypeOK, DispatchTypeOK, MigrationPhase
<1>7. CASE Operator
  <2>1. ASSUME NEW ws \in WaveSizes, NEW cc \in CanaryCounts,
               StartMigration(ws, cc) \/ StartRotation(ws, cc)
        PROVE  TypeOK'
    BY <1>6, <2>1 DEF StartMigration, StartRotation
  <2> QED BY <1>5, <1>7, <2>1 DEF Operator
<1> QED BY <1>1, <1>2, <1>3, <1>4, <1>7 DEF Run

LEMMA InitType == Init => TypeOK
<1> SUFFICES ASSUME Init PROVE TypeOK
  OBVIOUS
<1>1. [s \in Stations |-> [c \in Callers |-> Idle]] \in [Stations -> [Callers -> Call]]
  BY IdleType
<1>2. DispatchTypeOK
  BY <1>1, DispatchAssumption
     DEF Init, DispatchInit, DispatchTypeOK, DispatchAssumption, KeyOrNone
<1>3. 0 \in 0..MaxRuns
  BY MigrationAssumption DEF MigrationAssumption
<1> QED BY <1>2, <1>3 DEF Init, TypeOK, Counters, KeyOrNone, MigrationState, MigrationPhase,
        TaskStates, NoneRotated

LEMMA NextType == TypeOK /\ [Next]_vars => TypeOK'
<1> SUFFICES ASSUME TypeOK, [Next]_vars PROVE TypeOK'
  OBVIOUS
<1>1. ASSUME NEW s \in Stations, Environment(s), UNCHANGED migrationVars
      PROVE  TypeOK'
  <2>1. DispatchTypeOK'
    BY <1>1, EnvironmentType DEF TypeOK
  <2> QED BY <1>1, <2>1
          DEF TypeOK, migrationVars, authVars, recordVars, runVars, waveVars, taskVars
<1>2. CASE UNCHANGED vars
  BY <1>2 DEF TypeOK, DispatchTypeOK, vars, dispatchVars, linkVars, callVars, keyVars,
     migrationVars, authVars, recordVars, runVars, waveVars, taskVars
<1> QED BY <1>1, <1>2, RunType, StationType DEF Next

\* Every variable has its type in every reachable state, for any fleet, any
\* wave arguments and any bounds (MigrationOrchestrator, PQAuthenticator,
\* CommandDispatcher).
THEOREM TypeCorrect == Spec => []TypeOK
BY InitType, NextType, PTL DEF Spec

-----------------------------------------------------------------------------
(* The inductive invariant holds at first and every step keeps it.         *)

LEMMA InitSound == Init => Sound
BY DEF Init, Sound, BusyInWave, UndoInWave, UndoKinds, Undoable, EnrolledCapable,
   RotationKeyed, TaskKnows, MigratedIsProven, KeysByState, NeverFailed,
   StagedOnlyInWindow, Working, NoneRotated

\* The waves of a run are cut once.
LEMMA SameWaves ==
  ASSUME UNCHANGED <<candidates, size, canary>>
  PROVE  /\ \A x : Rank(x)' = Rank(x)
         /\ \A w : First(w)' = First(w)
         /\ \A w : Wave(w)' = Wave(w)
BY DEF Rank, First, Wave

\* A step that touches no variable of the invariant keeps it.
LEMMA StutterSound ==
  ASSUME Sound,
         UNCHANGED <<authVars, mstate, phase, kind, candidates, size, canary,
                     wave, enrolledIn, rotatedIn, taskVars, proved>>
  PROVE  Sound'
<1>1. wave' = wave /\ (wave + 1)' = wave + 1
  BY DEF waveVars
<1>2. /\ \A x : Rank(x)' = Rank(x)
      /\ First(wave + 1)' = First(wave + 1)
      /\ Wave(wave)' = Wave(wave)
  BY SameWaves, <1>1 DEF First, Wave, Rank
<1> QED BY <1>1, <1>2
  DEF Sound, BusyInWave, UndoInWave, UndoKinds, Undoable, EnrolledCapable,
   RotationKeyed, TaskKnows, MigratedIsProven, KeysByState, NeverFailed,
   StagedOnlyInWindow, Working, authVars, taskVars

\* Every step of a station's coroutine keeps the invariant.
LEMMA StationSound ==
  ASSUME TypeOK, Sound, NEW s \in Stations, StationStep(s)
  PROVE  Sound'
<1> USE DEF authVars, recordVars, runVars, waveVars, Ends, TypeOK, Sound
<1>0. UNCHANGED <<candidates, size, canary, wave, kind>>
  BY DEF StationStep, Skip, Defer, AskForKey, EnrolKey, MarkMigrated, FailStation,
         StageKey, CommitKey, RotationFails
<1>1. /\ \A x : Rank(x)' = Rank(x)
      /\ First(wave + 1)' = First(wave + 1)
      /\ Wave(wave)' = Wave(wave)
  BY SameWaves, <1>0 DEF First, Wave, Rank
<1>2. task[s] \in Working
  BY DEF StationStep, Skip, Defer, AskForKey, EnrolKey, MarkMigrated, FailStation,
         StageKey, CommitKey, RotationFails, Working
<1>3. /\ phase \in Active /\ wave \in WaveIds /\ wave >= 0
      /\ s \in Wave(wave) /\ s \in candidates /\ Rank(s) < First(wave + 1)
  BY <1>2, ActiveWave DEF BusyInWave, Wave
<1>4. CASE Skip(s)
  BY <1>0, <1>1, <1>3, <1>4
  DEF Skip, BusyInWave, UndoInWave, UndoKinds, Undoable, EnrolledCapable,
   RotationKeyed, TaskKnows, MigratedIsProven, KeysByState, NeverFailed,
   StagedOnlyInWindow, Working, Connectable
<1>5. CASE Defer(s)
  BY <1>0, <1>1, <1>3, <1>5
  DEF Defer, BusyInWave, UndoInWave, UndoKinds, Undoable, EnrolledCapable,
   RotationKeyed, TaskKnows, MigratedIsProven, KeysByState, NeverFailed,
   StagedOnlyInWindow, Working, Connectable
<1>6. CASE AskForKey(s)
  <2>1. kind = "rotation" => /\ enrolled[s] # NoKey
                             /\ mstate[s] # "in_progress" => enrolled[s] \in proved[s]
    BY <1>3 DEF RotationKeyed, KeysByState, MigratedIsProven, MigrationState
  <2>2. /\ task[s] = "ready"
        /\ kind # "rotation" => s \in Capable
        /\ task' = [task EXCEPT ![s] = "enrolling"]
        /\ mstate' = [mstate EXCEPT ![s] = IF kind = "migration" THEN "in_progress" ELSE @]
        /\ oldKey' = [oldKey EXCEPT ![s] = IF kind = "rotation" THEN enrolled[s] ELSE NoKey]
        /\ UNCHANGED <<authVars, runVars, waveVars, proved>>
    BY <1>6, <2>1 DEF AskForKey, Connectable
  <2> QED BY <1>0, <1>1, <1>3, <2>1, <2>2
  DEF BusyInWave, UndoInWave, UndoKinds, Undoable, EnrolledCapable,
   RotationKeyed, TaskKnows, MigratedIsProven, KeysByState, NeverFailed,
   StagedOnlyInWindow, Working, Connectable
<1>7. CASE EnrolKey(s)
  BY <1>0, <1>1, <1>3, <1>7
  DEF EnrolKey, Challenge, BusyInWave, UndoInWave, UndoKinds, Undoable, EnrolledCapable,
   RotationKeyed, TaskKnows, MigratedIsProven, KeysByState, NeverFailed,
   StagedOnlyInWindow, Working
<1>8. CASE MarkMigrated(s)
  BY <1>0, <1>1, <1>3, <1>8
  DEF MarkMigrated, Verifies, BusyInWave, UndoInWave, UndoKinds, Undoable, EnrolledCapable,
   RotationKeyed, TaskKnows, MigratedIsProven, KeysByState, NeverFailed,
   StagedOnlyInWindow, Working
<1>9. CASE FailStation(s)
  BY <1>0, <1>1, <1>3, <1>9
  DEF FailStation, Unenrol, BusyInWave, UndoInWave, UndoKinds, Undoable, EnrolledCapable,
   RotationKeyed, TaskKnows, MigratedIsProven, KeysByState, NeverFailed,
   StagedOnlyInWindow, Working
<1>10. CASE StageKey(s)
  <2>1. kind = "rotation" /\ enrolled[s] # NoKey
    BY <1>3, <1>10 DEF RotationKeyed, StageKey
  <2>2. /\ staged' = [staged EXCEPT ![s] = call[s][Orch].key]
        /\ nonce' = [nonce EXCEPT ![s] = @ \cup {Orch}]
        /\ task' = [task EXCEPT ![s] = "checking"]
        /\ UNCHANGED <<enrolled, mstate, runVars, waveVars, oldKey, proved>>
    BY <1>10, <2>1 DEF StageKey, Challenge
  <2> QED BY <1>0, <1>1, <1>3, <2>1, <2>2
  DEF BusyInWave, UndoInWave, UndoKinds, Undoable, EnrolledCapable,
   RotationKeyed, TaskKnows, MigratedIsProven, KeysByState, NeverFailed,
   StagedOnlyInWindow, Working
<1>11. CASE CommitKey(s)
  BY <1>0, <1>1, <1>3, <1>11
  DEF CommitKey, Verifies, BusyInWave, UndoInWave, UndoKinds, Undoable, EnrolledCapable,
   RotationKeyed, TaskKnows, MigratedIsProven, KeysByState, NeverFailed,
   StagedOnlyInWindow, Working
<1>12. CASE RotationFails(s)
  BY <1>0, <1>1, <1>3, <1>12
  DEF RotationFails, Discard, BusyInWave, UndoInWave, UndoKinds, Undoable, EnrolledCapable,
   RotationKeyed, TaskKnows, MigratedIsProven, KeysByState, NeverFailed,
   StagedOnlyInWindow, Working
<1> QED BY <1>4, <1>5, <1>6, <1>7, <1>8, <1>9, <1>10, <1>11, <1>12 DEF StationStep

\* A wave is undone: in a running run, at its end, or after it.
LEMMA UndoSound ==
  ASSUME TypeOK, Sound, NEW w \in WaveIds, Undo(w),
         UNCHANGED <<candidates, size, canary, wave, kind, task, oldKey, proved>>,
         \/ phase' = phase
         \/ phase' # "failed" /\ \A s \in Stations : task[s] \notin Working
  PROVE  Sound'
<1> USE DEF TypeOK, Sound
<1>1. /\ \A x : Rank(x)' = Rank(x)
      /\ First(wave + 1)' = First(wave + 1)
      /\ Wave(wave)' = Wave(wave)
  BY SameWaves DEF First, Wave, Rank
<1>2. \A s \in Stations :
        /\ s \in ToUnenrol(w) <=> s \in enrolledIn[w]
        /\ s \in ToRestore(w) <=> rotatedIn[w][s] # NoKey
  BY DEF ToUnenrol, ToRestore
<1>3. \A s \in Stations :
        /\ enrolled'[s] = IF s \in enrolledIn[w] THEN NoKey
                          ELSE IF rotatedIn[w][s] # NoKey THEN rotatedIn[w][s]
                          ELSE enrolled[s]
        /\ staged'[s] = IF s \in enrolledIn[w] THEN NoKey ELSE staged[s]
        /\ nonce'[s] = IF s \in enrolledIn[w] THEN {} ELSE nonce[s]
        /\ mstate'[s] = IF s \in enrolledIn[w] THEN "rolled_back" ELSE mstate[s]
  BY <1>2 DEF Undo
<1>4. \A v \in WaveIds, s \in Stations :
        /\ s \in enrolledIn'[v] => s \in enrolledIn[v]
        /\ rotatedIn'[v][s] # NoKey => rotatedIn'[v][s] = rotatedIn[v][s]
  BY DEF Undo, NoneRotated
<1>5. \A s \in Stations : s \in enrolledIn[w] => kind = "migration" /\ rotatedIn[w][s] = NoKey
  BY DEF UndoKinds
<1>6. UndoInWave'
  BY <1>1, <1>4 DEF UndoInWave, Undoable
<1>7. UndoKinds'
  BY <1>3, <1>4, <1>5 DEF UndoKinds
<1>8. BusyInWave'
  BY <1>1 DEF BusyInWave, Working
<1>9. \A s \in Stations : rotatedIn[w][s] # NoKey =>
        /\ kind = "rotation" /\ s \in candidates /\ enrolled[s] # NoKey
        /\ mstate[s] # "in_progress" => rotatedIn[w][s] \in proved[s]
  BY DEF UndoKinds, UndoInWave, Undoable, RotationKeyed
<1>10. EnrolledCapable' /\ RotationKeyed'
  BY <1>3, <1>5, <1>9 DEF EnrolledCapable, RotationKeyed, NoKey
<1>11. \A s \in Stations : s \in enrolledIn[w] => task[s] # "enrolling" /\ wave >= 0
  BY DEF UndoInWave, Undoable
<1>12. TaskKnows'
  BY <1>3, <1>5, <1>9, <1>11 DEF TaskKnows
<1>13. \A s \in Stations : rotatedIn[w][s] # NoKey =>
         mstate[s] \notin {"pending", "rolled_back", "incompatible"}
  BY <1>9 DEF KeysByState
<1>14. \A s \in Stations : staged[s] # NoKey => kind = "rotation" /\ task[s] \in Working
  BY DEF StagedOnlyInWindow, Working
<1>15. MigratedIsProven'
  BY <1>3, <1>5, <1>9 DEF MigratedIsProven
<1>16. KeysByState'
  BY <1>3, <1>5, <1>13, <1>14 DEF KeysByState, Working
<1>17. StagedOnlyInWindow'
  BY <1>3, <1>14 DEF StagedOnlyInWindow, Working
<1>18. NeverFailed'
  BY DEF NeverFailed
<1> QED BY <1>6, <1>7, <1>8, <1>10, <1>12, <1>15, <1>16, <1>17, <1>18

\* A wave begins when no coroutine is at work and nothing that can be undone
\* concerns its stations.
LEMMA BeginSound ==
  ASSUME TypeOK, Sound, NEW w \in WaveIds, w = wave + 1, phase' \in Active, BeginWave(w),
         UNCHANGED <<candidates, size, canary, kind, authVars, mstate, proved>>,
         \A s \in Stations : task[s] \notin Working
  PROVE  Sound'
<1> USE DEF TypeOK, Sound, authVars
<1>1. /\ \A x : Rank(x)' = Rank(x)
      /\ First(wave + 1)' = First(w + 1)
      /\ Wave(wave)' = Wave(w)
  BY DEF First, Wave, Rank, BeginWave
<1>2. First(w + 1) >= First(w) /\ wave' = w /\ w >= 0
  <2>1. w \in Nat /\ size \in Nat /\ canary \in Nat
    BY Count DEF WaveIds
  <2>2. w = 0 => First(w) = 0 /\ First(w + 1) = canary
    BY <2>1 DEF First
  <2>3. w # 0 => First(w) = canary + (w - 1) * size /\ First(w + 1) = canary + w * size
    BY <2>1 DEF First
  <2>4. \A a, b \in Nat : a * b >= (a - 1) * b
    OBVIOUS
  <2>5. First(w + 1) >= First(w)
    BY <2>1, <2>2, <2>3, <2>4
  <2> QED BY <2>1, <2>5 DEF BeginWave
<1>3. \A s \in Stations : task'[s] = IF s \in Wave(w) THEN "ready" ELSE "none"
  BY DEF BeginWave
<1>4. \A v \in WaveIds, s \in Stations :
        Undoable(v, s)' => v # w /\ Undoable(v, s)
  BY DEF BeginWave, Undoable, NoneRotated
<1>5. \A v \in WaveIds, s \in Stations : Undoable(v, s) =>
        /\ s \in candidates /\ Rank(s) < First(w) /\ Rank(s) < First(w + 1)
        /\ s \notin Wave(w)
  <2>1. First(w) \in Int /\ First(w + 1) \in Int
    BY Count DEF First, WaveIds
  <2> QED BY <1>2, <2>1, RankType DEF UndoInWave, Wave
<1>6. UndoInWave'
  BY <1>1, <1>2, <1>3, <1>4, <1>5 DEF UndoInWave
<1>7. UndoKinds'
  BY <1>4 DEF UndoKinds, BeginWave, Undoable, NoneRotated
<1>8. BusyInWave'
  BY <1>1, <1>2, <1>3 DEF BusyInWave, Working
<1>9. EnrolledCapable' /\ RotationKeyed'
  BY DEF EnrolledCapable, RotationKeyed
<1>10. \A s \in Stations : Orch \notin nonce[s] /\ staged[s] = NoKey
  BY DEF TaskKnows, StagedOnlyInWindow, Working
<1>12. TaskKnows'
  BY <1>3, <1>10 DEF TaskKnows, BeginWave
<1>13. MigratedIsProven' /\ KeysByState' /\ StagedOnlyInWindow' /\ NeverFailed'
  BY <1>10 DEF MigratedIsProven, KeysByState, StagedOnlyInWindow, NeverFailed, Active
<1> QED BY <1>6, <1>7, <1>8, <1>9, <1>12, <1>13

\* A run starts: nothing is at work, nothing can be undone, and what a
\* rotation takes in is enrolled.
LEMMA StartSound ==
  ASSUME TypeOK, Sound, NEW k \in {"migration", "rotation"}, NEW who \in SUBSET Stations,
         NEW ws, NEW cc, StartRun(k, who, ws, cc),
         k = "rotation" => \A s \in who : enrolled[s] # NoKey
  PROVE  Sound'
<1> USE DEF TypeOK, Sound, StartRun, authVars, recordVars, taskVars
<1>1. \A s \in Stations :
        /\ task[s] \notin Working /\ Orch \notin nonce[s] /\ staged[s] = NoKey
  BY DEF BusyInWave, TaskKnows, StagedOnlyInWindow, Working
<1>2. \A w \in WaveIds, s \in Stations : ~Undoable(w, s)'
  BY DEF Undoable, NoneRotated
<1>3. UndoInWave' /\ UndoKinds'
  BY <1>2 DEF UndoInWave, UndoKinds, Undoable
<1>4. BusyInWave' /\ TaskKnows'
  BY <1>1 DEF BusyInWave, TaskKnows, Working
<1>5. EnrolledCapable' /\ RotationKeyed'
  BY <1>1 DEF EnrolledCapable, RotationKeyed
<1>6. MigratedIsProven' /\ KeysByState' /\ StagedOnlyInWindow' /\ NeverFailed'
  BY <1>1 DEF MigratedIsProven, KeysByState, StagedOnlyInWindow, NeverFailed
<1> QED BY <1>3, <1>4, <1>5, <1>6

\* When a wave has every outcome no coroutine is at work.
LEMMA DoneIdle ==
  ASSUME TypeOK, Sound, WaveDone
  PROVE  \A s \in Stations : task[s] \notin Working
BY DEF Sound, BusyInWave, WaveDone, Outcomes, Working

LEMMA OperatorSound ==
  ASSUME TypeOK, Sound, Operator
  PROVE  Sound'
<1>1. ASSUME NEW ws \in WaveSizes, NEW cc \in CanaryCounts, StartMigration(ws, cc)
      PROVE  Sound'
  BY <1>1, StartSound DEF StartMigration
<1>2. ASSUME NEW ws \in WaveSizes, NEW cc \in CanaryCounts, StartRotation(ws, cc)
      PROVE  Sound'
  BY <1>2, StartSound DEF StartRotation
<1>3. ASSUME NEW w \in WaveIds, Rollback(w)
      PROVE  Sound'
  BY <1>3, UndoSound DEF Rollback, runVars, taskVars
<1> QED BY <1>1, <1>2, <1>3 DEF Operator

LEMMA RunSound ==
  ASSUME TypeOK, Sound, Run
  PROVE  Sound'
<1> USE DEF authVars, recordVars, runVars, waveVars, taskVars
<1>1. CASE BeginRun
  <2>1. 0 \in WaveIds /\ phase' \in Active
    BY <1>1, Count DEF BeginRun, WaveIds
  <2>2. \A s \in Stations : task[s] \notin Working
    BY <1>1 DEF BeginRun, Sound, BusyInWave
  <2> QED BY <1>1, <2>1, <2>2, BeginSound DEF BeginRun
<1>2. CASE NextWave
  <2>1. wave + 1 \in WaveIds /\ phase' \in Active
    BY <1>2, ActiveWave, WaveAfter DEF NextWave, WaveDone, TypeOK, Active
  <2>2. \A s \in Stations : task[s] \notin Working
    BY <1>2, DoneIdle DEF NextWave
  <2> QED BY <1>2, <2>1, <2>2, BeginSound DEF NextWave
<1>3. CASE RunCompletes
  <2>1. \A s \in Stations : task[s] \notin Working
    BY <1>3, DoneIdle DEF RunCompletes
  <2>2. \A s \in Stations : staged[s] = NoKey
    BY <2>1 DEF Sound, StagedOnlyInWindow, Working
  <2>3. /\ \A x : Rank(x)' = Rank(x)
        /\ First(wave + 1)' = First(wave + 1)
        /\ Wave(wave)' = Wave(wave)
    BY <1>3 DEF First, Wave, Rank, RunCompletes
  <2> QED BY <1>3, <2>1, <2>2, <2>3 DEF RunCompletes, Sound, BusyInWave, UndoInWave, UndoKinds,
      Undoable, EnrolledCapable, RotationKeyed, TaskKnows, MigratedIsProven,
      KeysByState, NeverFailed, StagedOnlyInWindow
<1>4. CASE WaveFails
  <2>1. \A s \in Stations : task[s] \notin Working
    BY <1>4, DoneIdle DEF WaveFails
  <2>2. wave \in WaveIds
    BY <1>4, ActiveWave DEF WaveFails, WaveDone
  <2> QED BY <1>4, <2>1, <2>2, UndoSound DEF WaveFails
<1> QED BY <1>1, <1>2, <1>3, <1>4 DEF Run

LEMMA NextSound == TypeOK /\ Sound /\ [Next]_vars => Sound'
<1> SUFFICES ASSUME TypeOK, Sound, [Next]_vars PROVE Sound'
  OBVIOUS
<1>1. CASE UNCHANGED vars \/ \E s \in Stations : Environment(s) /\ UNCHANGED migrationVars
  BY <1>1, StutterSound DEF vars, migrationVars, recordVars, runVars, waveVars
<1> QED BY <1>1, OperatorSound, RunSound, StationSound DEF Next

-----------------------------------------------------------------------------
(* Stations in progress are in hand.                                       *)

\* A coroutine leaves no station in progress that it does not work on, and takes
\* in hand one that a migration asks for a key, whatever was in progress before.
LEMMA StationInHand ==
  ASSUME TypeOK, Sound, NEW s \in Stations, StationStep(s), NEW t \in Stations
  PROVE  /\ InHand(t) => InHand(t)'
         /\ t = s /\ (Skip(s) \/ MarkMigrated(s) \/ (AskForKey(s) /\ kind = "migration")) => InHand(t)'
<1> USE DEF InHand, TypeOK, runVars, recordVars, Ends
<1>1. task[s] \in Working => phase \in Active
  BY DEF Sound, BusyInWave
<1>2. CASE Skip(s) \/ Defer(s)
  BY <1>2 DEF Skip, Defer, MarkMigrated, AskForKey
<1>3. CASE AskForKey(s)
  <2>1. kind = "migration" => task' = [task EXCEPT ![s] = "enrolling"] /\ phase \in Active
    BY <1>1, <1>3 DEF AskForKey, Working
  <2>2. kind # "migration" => mstate' = mstate
    BY <1>3 DEF AskForKey
  <2> QED BY <1>3, <2>1, <2>2 DEF AskForKey, Skip, MarkMigrated
<1>4. CASE EnrolKey(s) \/ StageKey(s) \/ CommitKey(s) \/ RotationFails(s)
  BY <1>4 DEF EnrolKey, StageKey, CommitKey, RotationFails, Challenge,
              Skip, MarkMigrated, AskForKey
<1>5. CASE MarkMigrated(s)
  BY <1>5 DEF MarkMigrated
<1>6. CASE FailStation(s)
  <2>1. /\ mstate' = [mstate EXCEPT ![s] = "rolled_back"]
        /\ task' = [task EXCEPT ![s] = "rolled_back"]
        /\ UNCHANGED <<phase, kind>>
    BY <1>6 DEF FailStation
  <2> QED BY <2>1
<1> QED BY <1>2, <1>3, <1>4, <1>5, <1>6 DEF StationStep

\* Waves begin and end, and the operator acts, between coroutines or next to
\* those of a run that goes on.
LEMMA RunInHand ==
  ASSUME TypeOK, Sound, Run \/ Operator, NEW t \in Stations, InHand(t)
  PROVE  InHand(t)'
<1> USE DEF InHand, TypeOK, runVars, recordVars, taskVars
<1>1. ASSUME NEW w \in WaveIds, Undo(w), UNCHANGED <<kind, task>>,
             phase' = phase \/ mstate[t] # "in_progress"
      PROVE  InHand(t)'
  BY <1>1 DEF Undo
<1>2. (BeginRun \/ NextWave \/ RunCompletes \/ WaveFails) => mstate[t] # "in_progress"
  <2>1. BeginRun => task[t] \notin Working
    BY DEF BeginRun, Sound, BusyInWave
  <2>2. WaveDone => task[t] \notin Working
    BY DoneIdle
  <2> QED BY <2>1, <2>2 DEF NextWave, RunCompletes, WaveFails, Working
<1>3. CASE BeginRun \/ NextWave \/ RunCompletes
  BY <1>2, <1>3 DEF BeginRun, NextWave, RunCompletes
<1>4. CASE WaveFails
  BY <1>1, <1>2, <1>4, ActiveWave DEF WaveFails, WaveDone
<1>5. CASE Operator
  BY <1>1, <1>5 DEF Operator, StartMigration, StartRotation, StartRun, Rollback
<1> QED BY <1>3, <1>4, <1>5 DEF Run

LEMMA NextInHand == TypeOK /\ Sound /\ AllInHand /\ [Next]_vars => AllInHand'
<1> SUFFICES ASSUME TypeOK, Sound, AllInHand, [Next]_vars, NEW t \in Stations PROVE InHand(t)'
  BY DEF AllInHand
<1>0. InHand(t)
  BY DEF AllInHand
<1>1. CASE UNCHANGED vars \/ \E s \in Stations : Environment(s) /\ UNCHANGED migrationVars
  BY <1>0, <1>1 DEF InHand, vars, migrationVars, recordVars, runVars, taskVars
<1> QED BY <1>0, <1>1, RunInHand, StationInHand DEF Next

LEMMA SoundInHand ==
  ASSUME TypeOK, Sound, AllInHand
  PROVE  IInv
<1>1. \A s \in Stations : mstate[s] = "in_progress" =>
        /\ phase \in Active /\ kind = "migration" /\ task[s] \in {"enrolling", "checking"}
        /\ wave >= 0 /\ oldKey[s] = NoKey
  BY DEF AllInHand, InHand, Sound, BusyInWave, TaskKnows, Working
<1>2. UndoByKind /\ RotationEnrolled /\ TaskAgrees
  BY <1>1 DEF Sound, UndoKinds, UndoByKind, RotationKeyed, RotationEnrolled, TaskKnows,
              TaskAgrees, TypeOK
<1>3. NeverHalfMigrated
  BY <1>1 DEF Sound, KeysByState, NeverHalfMigrated
<1> QED BY <1>2, <1>3 DEF Sound, IInv

\* Every station in progress is in hand, and what its record, its coroutine and
\* the register say of it agrees (_migrate_station, _rotate_station).
THEOREM SoundAlways == Spec => [](Sound /\ AllInHand)
<1>1. Init => AllInHand
  BY DEF Init, AllInHand, InHand
<1> QED BY <1>1, InitType, NextType, InitSound, NextSound, NextInHand, PTL DEF Spec

\* IInv is an invariant of every migration and rotation.
THEOREM Inductive == Spec => []IInv
BY SoundInHand, SoundAlways, TypeCorrect, PTL

\* The register never holds for a migrated station a key it has not proven
\* (PQAuthenticator and MigrationOrchestrator, through rollbacks).
THEOREM MigratedProven == Spec => []MigratedIsProven
<1>1. IInv => MigratedIsProven
  BY DEF IInv
<1> QED BY <1>1, Inductive, PTL

\* A station that is not migrated is not half enrolled, and no run leaves one
\* in progress (_fail_station, _rollback_wave).
THEOREM NotHalfMigrated == Spec => []NeverHalfMigrated
<1>1. IInv => NeverHalfMigrated
  BY DEF IInv
<1> QED BY <1>1, Inductive, PTL

\* No run ends "failed": stage_key and commit_staged find the station enrolled.
THEOREM RunsDoNotFail == Spec => []NeverFailed
<1>1. IInv => NeverFailed
  BY DEF IInv
<1> QED BY <1>1, Inductive, PTL

\* The overlap window of a rotation closes with the station's coroutine.
THEOREM WindowCloses == Spec => []StagedOnlyInWindow
<1>1. IInv => StagedOnlyInWindow
  BY DEF IInv
<1> QED BY <1>1, Inductive, PTL

\* No step within a rotation, or after it, takes the last key from a station.
KeysKept ==
  kind = "rotation" /\ kind' = "rotation" =>
    \A s \in Stations : enrolled[s] # NoKey => enrolled'[s] # NoKey

LEMMA NextKeepsKeys == TypeOK /\ IInv /\ [Next]_vars => [KeysKept]_vars
<1> SUFFICES ASSUME TypeOK, IInv, [Next]_vars PROVE [KeysKept]_vars
  OBVIOUS
<1> USE DEF authVars, migrationVars, IInv, KeysKept
<1>1. ASSUME NEW w \in WaveIds, Undo(w) PROVE KeysKept
  BY <1>1 DEF Undo, ToUnenrol, ToRestore, UndoByKind, TypeOK
<1>2. CASE Operator
  BY <1>1, <1>2 DEF Operator, StartMigration, StartRotation, StartRun, Rollback
<1>3. CASE Run
  <2>1. WaveFails => wave \in WaveIds
    BY ActiveWave DEF WaveFails, WaveDone
  <2> QED BY <1>1, <1>3, <2>1 DEF Run, BeginRun, NextWave, RunCompletes, WaveFails
<1>4. ASSUME NEW s \in Stations, StationStep(s) PROVE KeysKept
  BY <1>4 DEF StationStep, Skip, Defer, AskForKey, EnrolKey, MarkMigrated, FailStation, Unenrol,
     StageKey, CommitKey, RotationFails, Verifies, TypeOK
<1> QED BY <1>2, <1>3, <1>4 DEF Next

\* While a rotation runs, and when it is rolled back later, no station is left
\* without a key (start_rotation, commit_staged, _rollback_wave).
THEOREM RotationSafe == Spec => RotationKeepsIdentity
BY NextKeepsKeys, TypeCorrect, Inductive, PTL DEF Spec, RotationKeepsIdentity, KeysKept

-----------------------------------------------------------------------------
(* Keys are new.  A station's identity becomes "tried" when it is enrolled;*)
(* that needs more than IInv: the key in an enrolment's answer is none the *)
(* station has proven before.                                              *)

KeysMade ==
  \A s \in Stations :
    /\ \A k \in proved[s] : k <= made[s]
    /\ enrolled[s] <= made[s] /\ staged[s] <= made[s]
    /\ call[s][Orch].key <= made[s]

AskedKeyIsNew ==
  \A s \in Stations : task[s] = "enrolling" =>
    /\ call[s][Orch].req = "enrol"
    /\ Accepted(s, Orch) => call[s][Orch].key \in Keys \ proved[s]

FreshKeys == KeysMade /\ AskedKeyIsNew

LEMMA InitFresh == Init => FreshKeys
BY DEF Init, DispatchInit, FreshKeys, KeysMade, AskedKeyIsNew, Orch, Callers, Idle, NoKey

\* What a step of the chargers or the network makes of the orchestrator's call:
\* the same request, and as its key a new one, none, or the one it had.
AnswerIsNew(s) ==
  LET r == call[s][Orch]
      n == call'[s][Orch] IN
  /\ n.req = r.req
  /\ \/ n.key = r.key /\ (n.st = "answered" /\ n.ok => r.req = "challenge" \/ (r.st = "answered" /\ r.ok))
     \/ n.key = NoKey /\ ~n.ok
     \/ n.key = made[s] + 1 /\ made'[s] = made[s] + 1 /\ made[s] + 1 \in Keys

\* The fields of a record a step of a call leaves alone.
LEMMA RecordFields ==
  ASSUME NEW r \in Call, NEW st, NEW ok, NEW key
  PROVE  /\ [r EXCEPT !.st = st].st = st /\ [r EXCEPT !.st = st].ok = r.ok
         /\ [r EXCEPT !.st = st].req = r.req /\ [r EXCEPT !.st = st].key = r.key
         /\ [r EXCEPT !.st = st, !.ok = ok].st = st /\ [r EXCEPT !.st = st, !.ok = ok].ok = ok
         /\ [r EXCEPT !.st = st, !.ok = ok].req = r.req /\ [r EXCEPT !.st = st, !.ok = ok].key = r.key
         /\ [r EXCEPT !.st = st, !.ok = ok, !.key = key].ok = ok
         /\ [r EXCEPT !.st = st, !.ok = ok, !.key = key].req = r.req
         /\ [r EXCEPT !.st = st, !.ok = ok, !.key = key].key = key
BY DEF Call

LEMMA EnvironmentAnswers ==
  ASSUME DispatchTypeOK, NEW s \in Stations, Environment(s)
  PROVE  /\ AnswerIsNew(s)
         /\ \A t \in Stations \ {s} : call'[t][Orch] = call[t][Orch] /\ made'[t] = made[t]
         /\ made'[s] >= made[s]
<1> DEFINE Good == /\ AnswerIsNew(s)
                   /\ \A t \in Stations \ {s} : call'[t][Orch] = call[t][Orch] /\ made'[t] = made[t]
                   /\ made'[s] >= made[s]
<1>0. /\ Orch \in Callers
      /\ \A c \in Callers : call[s][c] \in Call /\ call[s][c].key \in KeyOrNone
      /\ call \in [Stations -> [Callers -> Call]]
      /\ made[s] \in Nat /\ made \in [Stations -> 0..MaxKeys]
  <2>1. Orch \in Callers
    BY DEF Callers
  <2>2. call \in [Stations -> [Callers -> Call]] /\ made \in [Stations -> 0..MaxKeys]
    BY DEF DispatchTypeOK
  <2>3. \A k \in Call : k.key \in KeyOrNone
    BY DEF Call
  <2> QED BY <2>1, <2>2, <2>3, DispatchAssumption DEF DispatchAssumption
<1>1. ASSUME NEW c \in Callers, NEW new \in Call, call' = [call EXCEPT ![s][c] = new]
      PROVE  /\ \A t \in Stations \ {s} : call'[t][Orch] = call[t][Orch]
             /\ c = Orch => call'[s][Orch] = new
             /\ c # Orch => call'[s][Orch] = call[s][Orch]
  BY <1>0, <1>1
<1>2. call'[s][Orch] = call[s][Orch] => AnswerIsNew(s)
  BY DEF AnswerIsNew
<1>3. MakeKey(s) => /\ made'[s] = made[s] + 1 /\ made[s] + 1 \in Keys
                    /\ \A t \in Stations \ {s} : made'[t] = made[t]
  BY <1>0, DispatchAssumption DEF MakeKey, Keys, DispatchAssumption
<1>4. ASSUME NEW c \in Callers, Acquire(s, c)
      PROVE  Good
  <2> DEFINE new == [call[s][c] EXCEPT !.st = "sent"]
  <2>1. call' = [call EXCEPT ![s][c] = new] /\ made' = made
    BY <1>4 DEF Acquire, SetCall, keyVars
  <2>3. new \in Call
    BY <1>0, RecordType
  <2>2. new.st = "sent" /\ new.req = call[s][c].req /\ new.key = call[s][c].key
    BY <1>0, RecordFields
  <2> HIDE DEF new
  <2> QED BY <1>0, <1>1, <1>2, <2>1, <2>2, <2>3 DEF AnswerIsNew
<1>5. ASSUME NEW c \in Callers, GiveUp(s, c)
      PROVE  Good
  <2> DEFINE new == [call[s][c] EXCEPT !.st = "failed", !.ok = FALSE]
  <2>1. call' = [call EXCEPT ![s][c] = new] /\ made' = made
    BY <1>5 DEF GiveUp, SetCall, keyVars
  <2>3. new \in Call
    BY <1>0, RecordType
  <2>2. new.st = "failed" /\ new.req = call[s][c].req /\ new.key = call[s][c].key
    BY <1>0, RecordFields
  <2> HIDE DEF new
  <2> QED BY <1>0, <1>1, <1>2, <2>1, <2>2, <2>3 DEF AnswerIsNew
<1>6. ASSUME NEW c \in Callers, ChargerEnrols(s, c)
      PROVE  Good
  <2> DEFINE new == [call[s][c] EXCEPT !.st = "answered", !.ok = TRUE, !.key = made[s] + 1]
  <2>1. MakeKey(s) /\ call' = [call EXCEPT ![s][c] = new]
    BY <1>6 DEF ChargerEnrols, Answer
  <2>2. new \in Call
    BY <1>0, <1>3, <2>1, RecordType DEF KeyOrNone
  <2>3. new.req = call[s][c].req /\ new.key = made[s] + 1
    BY <1>0, RecordFields
  <2> HIDE DEF new
  <2> QED BY <1>0, <1>1, <1>2, <1>3, <2>1, <2>2, <2>3 DEF AnswerIsNew
<1>7. ASSUME NEW c \in Callers, ChargerRefuses(s, c)
      PROVE  Good
  <2> DEFINE new == [call[s][c] EXCEPT !.st = "answered", !.ok = FALSE, !.key = NoKey]
  <2>1. call' = [call EXCEPT ![s][c] = new] /\ new \in Call /\ made' = made
    BY <1>0, <1>7, RecordType DEF ChargerRefuses, Answer, keyVars, KeyOrNone
  <2>2. new.ok = FALSE /\ new.req = call[s][c].req /\ new.key = NoKey
    BY <1>0, RecordFields
  <2> HIDE DEF new
  <2> QED BY <1>0, <1>1, <1>2, <2>1, <2>2 DEF AnswerIsNew
<1>8. ASSUME NEW c \in Callers, ChargerSigns(s, c)
      PROVE  Good
  <2> DEFINE held == Holds(s, call[s][c].key)
             new == [call[s][c] EXCEPT !.st = "answered", !.ok = held, !.key = call[s][c].key]
  <2>1. call[s][c].key \in KeyOrNone /\ held \in BOOLEAN
    BY <1>0 DEF Call, Holds
  <2>2. call' = [call EXCEPT ![s][c] = new] /\ made' = made /\ call[s][c].req = "challenge"
    BY <1>8 DEF ChargerSigns, Answer, keyVars
  <2> HIDE DEF held
  <2>3. new \in Call
    BY <1>0, <2>1, RecordType
  <2>4. new.req = call[s][c].req /\ new.key = call[s][c].key
    BY <1>0, RecordFields
  <2> HIDE DEF new
  <2>5. /\ c = Orch => call'[s][Orch] = new
        /\ c # Orch => call'[s][Orch] = call[s][Orch]
        /\ \A t \in Stations \ {s} : call'[t][Orch] = call[t][Orch]
    BY <1>1, <2>2, <2>3
  <2>6. AnswerIsNew(s)
    <3>1. CASE c = Orch
      <4>1. call'[s][Orch] = new
        BY <2>5, <3>1
      <4>2. call'[s][Orch].req = call[s][Orch].req /\ call'[s][Orch].key = call[s][Orch].key
        BY <2>4, <3>1, <4>1
      <4> QED BY <2>2, <3>1, <4>2 DEF AnswerIsNew
    <3> QED BY <1>2, <2>5, <3>1
  <2> QED BY <1>0, <2>2, <2>5, <2>6
<1>9. ASSUME NEW n \in Conns, CloseSocket(s, n)
      PROVE  Good
  <2> DEFINE Rec(c) == IF call[s][c].st \in {"queued", "sent"} /\ call[s][c].conn = n
                       THEN [call[s][c] EXCEPT !.st = "failed"] ELSE call[s][c]
  <2>1. call' = [call EXCEPT ![s] = [c \in Callers |-> Rec(c)]] /\ made' = made
    BY <1>9 DEF CloseSocket, keyVars
  <2>2. /\ Rec(Orch).req = call[s][Orch].req /\ Rec(Orch).key = call[s][Orch].key
        /\ Rec(Orch).st = "answered" => Rec(Orch) = call[s][Orch]
    BY <1>0, RecordFields
  <2> HIDE DEF Rec
  <2>3. /\ call'[s][Orch] = Rec(Orch)
        /\ \A t \in Stations \ {s} : call'[t][Orch] = call[t][Orch]
    BY <1>0, <2>1
  <2> QED BY <1>0, <2>1, <2>2, <2>3 DEF AnswerIsNew
<1>10. CASE Dial(s) \/ ChargerEnrolsLate(s) \/ ChargerRefusesLate(s)
  <2>1. call' = call /\ (MakeKey(s) \/ made' = made)
    BY <1>10 DEF Dial, ChargerEnrolsLate, ChargerRefusesLate, keyVars
  <2> QED BY <1>0, <1>2, <1>3, <2>1
<1> QED BY <1>4, <1>5, <1>6, <1>7, <1>8, <1>9, <1>10 DEF Environment

\* Chargers and network: only a new key makes an answer to an enrolment.
LEMMA EnvironmentFresh ==
  ASSUME TypeOK, FreshKeys, NEW s \in Stations, Environment(s), UNCHANGED migrationVars
  PROVE  FreshKeys'
<1>1. UNCHANGED <<proved, enrolled, staged, task>>
  BY DEF migrationVars, authVars, taskVars
<1>2. \A t \in Stations : /\ made[t] \in Nat /\ made'[t] \in Nat
                          /\ made'[t] >= made[t]
                          /\ enrolled[t] \in Nat /\ staged[t] \in Nat /\ call[t][Orch].key \in Nat
                          /\ proved[t] \subseteq Nat
  <2>1. \A r \in Call : r.key \in Nat
    BY DispatchAssumption DEF Call, KeyOrNone, Keys, NoKey, DispatchAssumption
  <2>2. DispatchTypeOK /\ DispatchTypeOK'
    BY EnvironmentType DEF TypeOK
  <2>3. made \in [Stations -> 0..MaxKeys] /\ made' \in [Stations -> 0..MaxKeys]
    BY <2>2 DEF DispatchTypeOK
  <2>4. \A t \in Stations : made[t] \in Nat /\ made'[t] \in Nat /\ made'[t] >= made[t]
    <3>1. made'[s] >= made[s] /\ \A t \in Stations \ {s} : made'[t] = made[t]
      BY EnvironmentAnswers DEF TypeOK
    <3>2. \A t \in Stations : made[t] \in Nat /\ made'[t] \in Nat
      BY <2>3, DispatchAssumption DEF DispatchAssumption
    <3> QED BY <3>1, <3>2
  <2>5. \A t \in Stations : call[t][Orch].key \in Nat
    BY <2>1, <2>2 DEF DispatchTypeOK, Callers
  <2> QED BY <2>4, <2>5, DispatchAssumption DEF TypeOK, KeyOrNone, Keys, NoKey, DispatchAssumption
<1>3. /\ AnswerIsNew(s)
      /\ \A t \in Stations \ {s} : call'[t][Orch] = call[t][Orch] /\ made'[t] = made[t]
  BY EnvironmentAnswers DEF TypeOK
<1>4. KeysMade'
  BY <1>1, <1>2, <1>3 DEF FreshKeys, KeysMade, AnswerIsNew, NoKey
<1>5. AskedKeyIsNew'
  <2> SUFFICES ASSUME NEW t \in Stations, task[t] = "enrolling"
               PROVE  /\ call'[t][Orch].req = "enrol"
                      /\ Accepted(t, Orch)' => call'[t][Orch].key \in Keys \ proved[t]
    BY <1>1 DEF AskedKeyIsNew
  <2>1. call[t][Orch].req = "enrol" /\ (Accepted(t, Orch) => call[t][Orch].key \in Keys \ proved[t])
    BY DEF FreshKeys, AskedKeyIsNew
  <2>2. CASE t # s
    BY <1>3, <2>1, <2>2 DEF Accepted
  <2>3. CASE t = s
    <3>1. made[s] + 1 \notin proved[s]
      BY <1>2 DEF FreshKeys, KeysMade
    <3> QED BY <1>3, <2>1, <2>3, <3>1 DEF Accepted, AnswerIsNew
  <2> QED BY <2>2, <2>3
<1> QED BY <1>4, <1>5 DEF FreshKeys

\* Coroutines: a key is proven only after the answer to its enrolment is used.
LEMMA StationFresh ==
  ASSUME TypeOK, IInv, FreshKeys, NEW s \in Stations, StationStep(s)
  PROVE  FreshKeys'
<1> USE DEF FreshKeys, KeysMade, AskedKeyIsNew, TypeOK, DispatchTypeOK, authVars,
      Accepted, KeyOrNone, Keys, NoKey, keyVars, Ends
<1>0. Orch \in Callers
  BY DEF Orch, Callers
<1>1. \A t \in Stations : call[t][Orch] \in Call /\ call[t][Orch].key \in KeyOrNone
  BY <1>0 DEF Call
<1> DEFINE OnlyAt == /\ UNCHANGED made
                     /\ \A t \in Stations \ {s} :
                          /\ proved'[t] = proved[t] /\ enrolled'[t] = enrolled[t]
                          /\ staged'[t] = staged[t] /\ task'[t] = task[t]
                          /\ call'[t][Orch] = call[t][Orch]
           KeysAt == /\ \A k \in proved'[s] : k <= made[s]
                     /\ enrolled'[s] <= made[s] /\ staged'[s] <= made[s]
                     /\ call'[s][Orch].key <= made[s]
\* One station's keys change, and it asks for none.
<1>10. ASSUME OnlyAt, KeysAt, task'[s] # "enrolling" PROVE FreshKeys'
  <2>1. KeysMade'
    <3> SUFFICES ASSUME NEW t \in Stations
                 PROVE  /\ \A k \in proved'[t] : k <= made'[t]
                        /\ enrolled'[t] <= made'[t] /\ staged'[t] <= made'[t]
                        /\ call'[t][Orch].key <= made'[t]
      BY DEF KeysMade
    <3>1. KeysMade /\ made' = made
      BY <1>10
    <3>2. CASE t = s
      BY <1>10, <3>1, <3>2, Zenon
    <3>3. CASE t # s
      BY <1>10, <3>1, <3>3, Zenon DEF KeysMade
    <3> QED BY <3>2, <3>3
  <2>2. AskedKeyIsNew'
    <3> SUFFICES ASSUME NEW t \in Stations, task'[t] = "enrolling"
                 PROVE  /\ call'[t][Orch].req = "enrol"
                        /\ Accepted(t, Orch)' => call'[t][Orch].key \in Keys \ proved'[t]
      BY DEF AskedKeyIsNew
    <3>1. t # s
      BY <1>10, Zenon
    <3>2. /\ task[t] = "enrolling" /\ proved'[t] = proved[t]
          /\ call'[t][Orch] = call[t][Orch]
      BY <1>10, <3>1, Zenon
    <3>3. /\ call[t][Orch].req = "enrol"
          /\ Accepted(t, Orch) => call[t][Orch].key \in Keys \ proved[t]
      BY <3>2 DEF AskedKeyIsNew
    <3> QED BY <3>2, <3>3, Zenon DEF Accepted
  <2> QED BY <2>1, <2>2 DEF FreshKeys
<1>11. made[s] \in Nat
  BY DispatchAssumption DEF DispatchAssumption
<1>2. CASE Skip(s) \/ Defer(s)
  BY <1>0, <1>1, <1>2 DEF Skip, Defer, dispatchVars, callVars
<1>3. CASE AskForKey(s)
  BY <1>0, <1>1, <1>3 DEF AskForKey, SetCall, NewCall, Idle
<1>4. CASE EnrolKey(s)
  <2>1. /\ UNCHANGED <<made, staged, proved>>
        /\ task' = [task EXCEPT ![s] = "checking"]
        /\ enrolled' = [enrolled EXCEPT ![s] = call[s][Orch].key]
        /\ call' = [call EXCEPT ![s][Orch] = NewCall(s, Orch, "challenge", call[s][Orch].key)]
    BY <1>4 DEF EnrolKey, Challenge, SendCall, SetCall
  <2>2. call'[s][Orch] = NewCall(s, Orch, "challenge", call[s][Orch].key)
    BY <1>0, <2>1, Zenon
  <2>3. OnlyAt /\ task'[s] # "enrolling"
    BY <1>0, <2>1
  <2>4. call'[s][Orch].key <= made[s]
    BY <1>1, <1>11, <2>2 DEF NewCall
  <2>5. KeysAt
    BY <1>1, <1>11, <2>1, <2>4
  <2> QED BY <1>10, <2>3, <2>5
<1>5. CASE MarkMigrated(s)
  <2>1. /\ UNCHANGED <<made, enrolled, staged>>
        /\ task' = [task EXCEPT ![s] = "migrated"]
        /\ proved' = [proved EXCEPT ![s] = @ \cup {enrolled[s]}]
        /\ call' = [call EXCEPT ![s][Orch] = Idle]
    BY <1>5 DEF MarkMigrated, TakeResult, SetCall
  <2>2. call'[s][Orch] = Idle
    BY <1>0, <2>1, Zenon
  <2>3. OnlyAt /\ task'[s] # "enrolling"
    BY <1>0, <2>1
  <2>4. call'[s][Orch].key <= made[s]
    BY <1>1, <1>11, <2>2 DEF Idle
  <2>5. KeysAt
    BY <1>1, <1>11, <2>1, <2>4
  <2> QED BY <1>10, <2>3, <2>5
<1>6. CASE FailStation(s)
  <2>1. /\ UNCHANGED <<made, proved>>
        /\ task' = [task EXCEPT ![s] = "rolled_back"]
        /\ enrolled' = [enrolled EXCEPT ![s] = NoKey]
        /\ staged' = [staged EXCEPT ![s] = NoKey]
        /\ call' = [call EXCEPT ![s][Orch] = Idle]
    BY <1>6 DEF FailStation, Unenrol, TakeResult, SetCall
  <2>2. call'[s][Orch] = Idle
    BY <1>0, <2>1, Zenon
  <2>3. OnlyAt /\ task'[s] # "enrolling"
    BY <1>0, <2>1
  <2>4. call'[s][Orch].key <= made[s]
    BY <1>1, <1>11, <2>2 DEF Idle
  <2>5. KeysAt
    BY <1>1, <1>11, <2>1, <2>4
  <2> QED BY <1>10, <2>3, <2>5
<1>7. CASE StageKey(s)
  <2>1. enrolled[s] # NoKey
    BY <1>7 DEF IInv, RotationEnrolled, BusyInWave, Working, StageKey, Wave
  <2>2. /\ Accepted(s, Orch) /\ task[s] = "enrolling" /\ Challenge(s)
        /\ staged' = [staged EXCEPT ![s] = call[s][Orch].key]
        /\ UNCHANGED <<enrolled, proved, made>>
    BY <1>7, <2>1 DEF StageKey
  <2>3. /\ task' = [task EXCEPT ![s] = "checking"]
        /\ call' = [call EXCEPT ![s][Orch] = NewCall(s, Orch, "challenge", call[s][Orch].key)]
    BY <2>2 DEF Challenge, SendCall, SetCall
  <2>4. NewCall(s, Orch, "challenge", call[s][Orch].key).key = call[s][Orch].key
    BY DEF NewCall
  <2>5. call'[s][Orch] = NewCall(s, Orch, "challenge", call[s][Orch].key)
    BY <1>0, <2>3
  <2>6. OnlyAt /\ task'[s] = "checking" /\ staged'[s] = call[s][Orch].key
    BY <1>0, <2>2, <2>3
  <2>7. call'[s][Orch].key = call[s][Orch].key
    BY <2>4, <2>5, Zenon
  <2>8. KeysAt
    BY <2>2, <2>6, <2>7
  <2> QED BY <1>10, <2>6, <2>8
<1>8. CASE CommitKey(s)
  <2>1. /\ UNCHANGED made /\ task' = [task EXCEPT ![s] = "migrated"]
        /\ enrolled' = [enrolled EXCEPT ![s] = staged[s]] /\ staged' = [staged EXCEPT ![s] = NoKey]
        /\ proved' = [proved EXCEPT ![s] = @ \cup {staged[s]}]
        /\ call' = [call EXCEPT ![s][Orch] = Idle]
    BY <1>8 DEF CommitKey, TakeResult, SetCall
  <2>2. call'[s][Orch] = Idle
    BY <1>0, <2>1
  <2>3. OnlyAt /\ task'[s] = "migrated"
    BY <1>0, <2>1
  <2>5. KeysAt
    <3>1. enrolled'[s] = staged[s] /\ staged'[s] = NoKey /\ proved'[s] = proved[s] \cup {staged[s]}
      BY <2>1
    <3>2. call'[s][Orch].key = NoKey
      BY <2>2 DEF Idle
    <3> QED BY <1>11, <3>1, <3>2
  <2> QED BY <1>10, <2>3, <2>5
<1>9. CASE RotationFails(s)
  <2>1. /\ UNCHANGED <<made, enrolled, proved>>
        /\ task' = [task EXCEPT ![s] = "rolled_back"]
        /\ staged' = [staged EXCEPT ![s] = NoKey]
        /\ call' = [call EXCEPT ![s][Orch] = Idle]
    BY <1>9 DEF RotationFails, Discard, TakeResult, SetCall
  <2>2. call'[s][Orch] = Idle
    BY <1>0, <2>1, Zenon
  <2>3. OnlyAt /\ task'[s] # "enrolling"
    BY <1>0, <2>1
  <2>4. call'[s][Orch].key <= made[s]
    BY <1>1, <1>11, <2>2 DEF Idle
  <2>5. KeysAt
    BY <1>1, <1>11, <2>1, <2>4
  <2> QED BY <1>10, <2>3, <2>5
<1> QED BY <1>2, <1>3, <1>4, <1>5, <1>6, <1>7, <1>8, <1>9 DEF StationStep

\* A rollback puts back proven keys only.
LEMMA UndoFresh ==
  ASSUME TypeOK, IInv, FreshKeys, NEW w \in WaveIds, Undo(w),
         UNCHANGED <<dispatchVars, task, proved>>
  PROVE  FreshKeys'
BY DEF FreshKeys, KeysMade, AskedKeyIsNew, TypeOK, Undo, ToRestore, ToUnenrol, IInv, UndoByKind,
       dispatchVars, callVars, keyVars, Accepted, DispatchTypeOK, KeyOrNone, Keys, NoKey

LEMMA NextFresh == TypeOK /\ IInv /\ FreshKeys /\ [Next]_vars => FreshKeys'
<1> SUFFICES ASSUME TypeOK, IInv, FreshKeys, [Next]_vars PROVE FreshKeys'
  OBVIOUS
<1> USE DEF FreshKeys, KeysMade, AskedKeyIsNew, Accepted, dispatchVars, callVars, keyVars, authVars,
            taskVars
<1>1. CASE UNCHANGED vars
  BY <1>1 DEF vars, migrationVars
<1>2. CASE Operator
  BY <1>2, UndoFresh
  DEF Operator, StartMigration, StartRotation, StartRun, Rollback
<1>3. CASE BeginRun \/ NextWave
  <2>1. UNCHANGED <<enrolled, staged, proved, call, made>>
    BY <1>3 DEF BeginRun, NextWave
  <2>2. \A s \in Stations : task'[s] # "enrolling"
    BY <1>3 DEF BeginRun, NextWave, BeginWave
  <2> QED BY <2>1, <2>2
<1>4. CASE RunCompletes
  BY <1>4 DEF RunCompletes
<1>5. CASE WaveFails
  BY <1>5, UndoFresh, ActiveWave DEF WaveFails, WaveDone
<1> QED BY <1>1, <1>2, <1>3, <1>4, <1>5, EnvironmentFresh, StationFresh DEF Next, Run

\* A key that comes back for a RequestPQEnrolment (PQIdentity.enrol) is never one
\* the station has proven before, and no key is used that the charger did not
\* make -- late answers, lost answers and rollbacks included.
THEOREM KeysAreNew == Spec => []FreshKeys
BY TypeCorrect, Inductive, InitFresh, NextFresh, PTL DEF Spec

-----------------------------------------------------------------------------
(* The refinement.                                                         *)

\* A key that is enrolled and not proven belongs to a station in progress.
LEMMA TriedInProgress ==
  ASSUME TypeOK, IInv, NEW s \in Stations, KeyStatus(s) = "tried"
  PROVE  mstate[s] = "in_progress"
BY DEF KeyStatus, TypeOK, MigrationState, IInv, NeverHalfMigrated, MigratedIsProven

\* A station whose coroutine is at work is opened, and so is one with
\* something to undo.
LEMMA AtWorkOpened ==
  ASSUME TypeOK, IInv, NEW s \in Stations, task[s] \in Working
  PROVE  phase \in Active /\ s \in Opened
BY DEF IInv, BusyInWave, Wave, Opened

LEMMA UndoableOpened ==
  ASSUME IInv, NEW w \in WaveIds, NEW s \in Stations, Undoable(w, s)
  PROVE  s \in Opened
BY DEF IInv, UndoInWave, Opened

LEMMA SameOpened ==
  UNCHANGED <<candidates, size, canary, wave>> => Opened' = Opened
BY DEF Opened, Rank, First

\* The first rank after the last wave started.
LEMMA FirstType ==
  ASSUME TypeOK, wave >= 0
  PROVE  First(wave + 1) = canary + wave * size /\ First(wave + 1) \in Int
<1>1. wave \in Int /\ size \in Nat /\ canary \in Nat
  BY Count DEF TypeOK, WaveIds
<1>2. wave + 1 # 0 /\ (wave + 1) - 1 = wave
  BY <1>1
<1>3. \A a \in Int, b \in Nat : a * b \in Int
  OBVIOUS
<1> QED BY <1>1, <1>2, <1>3 DEF First

\* No station is closed again by the next wave.
LEMMA OpenedGrows ==
  ASSUME TypeOK, IInv, NextWave
  PROVE  Opened \subseteq Opened'
<1>1. /\ wave >= 0 /\ wave' = wave + 1
      /\ UNCHANGED <<candidates, size, canary>>
  BY DEF NextWave, WaveDone, BeginWave
<1>2. wave \in Int /\ size \in Nat /\ canary \in Nat
  BY Count DEF TypeOK, WaveIds
<1>3. First(wave + 1)' = First(wave + 1) + size /\ First(wave + 1) \in Int
  <2>1. First(wave + 1) = canary + wave * size /\ First(wave + 1) \in Int
    BY <1>1, FirstType
  <2>2. First(wave + 1)' = canary + (wave + 1) * size
    <3>1. wave' + 1 # 0 /\ (wave' + 1) - 1 = wave + 1
      BY <1>1, <1>2
    <3> QED BY <1>1, <3>1 DEF First
  <2>3. \A a \in Int, b \in Nat : (a + 1) * b = a * b + b /\ a * b \in Int
    OBVIOUS
  <2> QED BY <1>2, <2>1, <2>2, <2>3
<1>4. \A s \in candidates : Rank(s)' = Rank(s) /\ Rank(s) \in Nat
  BY <1>1, RankType DEF Rank, TypeOK
<1>5. \A s \in candidates : Rank(s) < First(wave + 1) => Rank(s)' < First(wave + 1)'
  BY <1>2, <1>3, <1>4
<1>6. wave' >= 0
  BY <1>1, <1>2
<1> QED BY <1>1, <1>5, <1>6 DEF Opened

\* Undoing a wave takes keys from opened stations; a station put back on its
\* old key had a proven one and has a proven one.
LEMMA UndoReverts ==
  ASSUME TypeOK, IInv, NEW w \in WaveIds, Undo(w), UNCHANGED proved
  PROVE  \E gone \in SUBSET Opened :
           [s \in Stations |-> KeyStatus(s)]' =
           [s \in Stations |-> IF s \in gone THEN "none" ELSE KeyStatus(s)]
<1> DEFINE gone == ToUnenrol(w)
<1>1. gone \in SUBSET Opened
  BY UndoableOpened DEF ToUnenrol, Undoable, TypeOK
<1>2. ASSUME NEW s \in Stations
      PROVE  KeyStatus(s)' = IF s \in gone THEN "none" ELSE KeyStatus(s)
  <2>1. CASE s \in gone
    BY <2>1 DEF Undo, KeyStatus
  <2>2. CASE s \notin gone /\ s \in ToRestore(w)
    <3>1. /\ enrolled'[s] = rotatedIn[w][s] /\ rotatedIn[w][s] # NoKey
          /\ rotatedIn[w][s] \in proved[s] /\ kind = "rotation"
      BY <2>2 DEF Undo, ToRestore, IInv, UndoByKind
    <3>2. KeyStatus(s) = "proven"
      <4>1. enrolled[s] # NoKey /\ mstate[s] # "in_progress"
        BY <3>1 DEF IInv, RotationEnrolled, UndoInWave, Undoable
      <4>2. KeyStatus(s) # "tried"
        BY <4>1, TriedInProgress
      <4> QED BY <4>1, <4>2 DEF KeyStatus
    <3> QED BY <2>2, <3>1, <3>2 DEF KeyStatus
  <2>3. CASE s \notin gone /\ s \notin ToRestore(w)
    BY <2>3 DEF Undo, KeyStatus
  <2> QED BY <2>1, <2>2, <2>3
<1> HIDE DEF gone
<1> QED BY <1>1, <1>2

\* Starting, going on and ending.
LEMMA RunRefines ==
  ASSUME TypeOK, IInv, IInv', TypeOK', Operator \/ Run
  PROVE  R!Next
<1>1. ASSUME phase \notin Active, phase' = "canary", wave' = -1, UNCHANGED <<enrolled, proved>>
      PROVE  R!Start
  BY <1>1 DEF R!Start, Opened, KeyStatus, Active
<1>2. CASE Operator
  <2>1. ASSUME NEW w \in WaveIds, Rollback(w)
        PROVE  R!Revert
    <3>1. UNCHANGED <<candidates, size, canary, wave, phase, proved>>
      BY <2>1 DEF Rollback, runVars
    <3> QED BY <2>1, <3>1, SameOpened, UndoReverts DEF R!Revert, Rollback
  <2> QED BY <1>1, <1>2, <2>1 DEF Operator, StartMigration, StartRotation, StartRun, authVars, R!Next
<1>3. CASE BeginRun
  <2>1. phase \in Active /\ UNCHANGED <<phase, enrolled, proved>> /\ Opened = {}
    BY <1>3 DEF BeginRun, runVars, authVars, Opened
  <2>2. Opened' \in SUBSET Stations
    BY DEF Opened, TypeOK
  <2> QED BY <2>1, <2>2 DEF R!Next, R!Open, KeyStatus
<1>4. CASE NextWave
  <2>1. /\ phase \in Active /\ phase' \in Active /\ wave >= 0 /\ wave' = wave + 1
        /\ UNCHANGED <<enrolled, proved, candidates, size, canary>>
    BY <1>4 DEF NextWave, WaveDone, BeginWave, authVars, Active
  <2>2. Opened' \in SUBSET Stations
    BY DEF Opened, TypeOK
  <2>3. Opened \subseteq Opened'
    BY <1>4, OpenedGrows
  <2> QED BY <2>1, <2>2, <2>3 DEF R!Next, R!Open, KeyStatus
<1>5. phase' \notin Active => \A s \in Stations : KeyStatus(s)' # "tried"
  <2> SUFFICES ASSUME phase' \notin Active, NEW s \in Stations, KeyStatus(s)' = "tried"
               PROVE  FALSE
    OBVIOUS
  <2>1. mstate'[s] = "in_progress"
    BY DEF KeyStatus, TypeOK, MigrationState, IInv, NeverHalfMigrated, MigratedIsProven
  <2> QED BY <2>1 DEF IInv, NeverHalfMigrated
<1>6. CASE RunCompletes
  <2>1. /\ phase \in Active /\ phase' \notin Active
        /\ UNCHANGED <<candidates, size, canary, wave, enrolled, proved>>
    BY <1>6 DEF RunCompletes, WaveDone, authVars, Active
  <2>2. \A s \in Stations : KeyStatus(s)' = KeyStatus(s)
    BY <2>1 DEF KeyStatus
  <2> QED BY <1>5, <2>1, <2>2, SameOpened DEF R!Next, R!End
<1>7. CASE WaveFails
  <2>1. /\ phase' \notin Active /\ wave \in WaveIds /\ Undo(wave)
        /\ UNCHANGED <<candidates, size, canary, wave, proved>>
    BY <1>7, ActiveWave DEF WaveFails, WaveDone, Active
  <2> QED BY <1>5, <2>1, SameOpened, UndoReverts DEF R!Next, R!Revert
<1> QED BY <1>2, <1>3, <1>4, <1>6, <1>7 DEF Run

\* One station's coroutine.
LEMMA StationRefines ==
  ASSUME TypeOK, IInv, IInv', FreshKeys, NEW s \in Stations, StationStep(s)
  PROVE  R!Next \/ UNCHANGED R!rolloutVars
<1>1. phase \in Active /\ s \in Opened
  <2>1. task[s] \in Working
    BY DEF StationStep, Skip, Defer, AskForKey, EnrolKey, MarkMigrated, FailStation, StageKey,
           CommitKey, RotationFails, Working
  <2> QED BY <2>1, AtWorkOpened
<1>2. UNCHANGED <<phase, candidates, size, canary, wave>>
  <2>1. StageKey(s) => phase' = phase
    BY <1>1 DEF StageKey, IInv, NeverFailed
  <2> QED BY <2>1 DEF StationStep, Skip, Defer, AskForKey, EnrolKey, MarkMigrated, FailStation,
                 StageKey, CommitKey, RotationFails, runVars, waveVars
<1>3. Opened' = Opened
  BY <1>2, SameOpened
<1>4. ASSUME \A t \in Stations : KeyStatus(t)' = KeyStatus(t)
      PROVE  UNCHANGED R!rolloutVars
  BY <1>2, <1>3, <1>4 DEF R!rolloutVars
<1>5. CASE Skip(s) \/ Defer(s) \/ AskForKey(s) \/ StageKey(s) \/ RotationFails(s)
  <2>1. UNCHANGED <<enrolled, proved>>
    BY <1>5 DEF Skip, Defer, AskForKey, StageKey, RotationFails, authVars
  <2> QED BY <1>4, <2>1 DEF KeyStatus
<1>6. ASSUME NEW st, KeyStatus(s)' = st, \A t \in Stations \ {s} : KeyStatus(t)' = KeyStatus(t)
      PROVE  [t \in Stations |-> KeyStatus(t)]' = [[t \in Stations |-> KeyStatus(t)] EXCEPT ![s] = st]
  BY <1>6
<1>7. CASE EnrolKey(s)
  <2>1. enrolled'[s] # NoKey /\ enrolled'[s] \notin proved[s] /\ proved' = proved
    BY <1>7 DEF EnrolKey, FreshKeys, AskedKeyIsNew, Keys, NoKey, TypeOK
  <2>2. KeyStatus(s)' = "tried" /\ \A t \in Stations \ {s} : KeyStatus(t)' = KeyStatus(t)
    BY <1>7, <2>1 DEF EnrolKey, KeyStatus, TypeOK
  <2>3. R!Try(s)
    BY <1>1, <1>2, <1>3, <1>6, <2>2 DEF R!Try
  <2> QED BY <2>3 DEF R!Next
<1>8. CASE MarkMigrated(s)
  <2>1. /\ enrolled' = enrolled /\ enrolled[s] # NoKey
        /\ proved' = [proved EXCEPT ![s] = @ \cup {enrolled[s]}]
    BY <1>8 DEF MarkMigrated, Verifies
  <2>2. KeyStatus(s)' = "proven" /\ \A t \in Stations \ {s} : KeyStatus(t)' = KeyStatus(t)
    BY <2>1 DEF KeyStatus, TypeOK
  <2>3. CASE KeyStatus(s) = "tried"
    <3>1. R!Prove(s)
      BY <1>1, <1>2, <1>3, <1>6, <2>2, <2>3 DEF R!Prove
    <3> QED BY <3>1 DEF R!Next
  <2>4. CASE KeyStatus(s) = "proven"
    BY <1>4, <2>2, <2>4
  <2> QED BY <2>1, <2>3, <2>4 DEF KeyStatus
<1>9. CASE CommitKey(s)
  <2>1. /\ enrolled' = [enrolled EXCEPT ![s] = staged[s]] /\ staged[s] # NoKey
        /\ proved' = [proved EXCEPT ![s] = @ \cup {staged[s]}] /\ kind = "rotation"
    BY <1>9 DEF CommitKey, Verifies
  <2>2. KeyStatus(s)' = "proven" /\ \A t \in Stations \ {s} : KeyStatus(t)' = KeyStatus(t)
    BY <2>1 DEF KeyStatus, TypeOK
  <2>3. KeyStatus(s) = "proven"
    <3>1. enrolled[s] # NoKey /\ mstate[s] # "in_progress"
      BY <1>1, <2>1 DEF IInv, RotationEnrolled, Opened
    <3> QED BY <3>1, TriedInProgress DEF KeyStatus
  <2> QED BY <1>4, <2>2, <2>3
<1>10. CASE FailStation(s)
  <2>1. enrolled' = [enrolled EXCEPT ![s] = NoKey] /\ proved' = proved
    BY <1>10 DEF FailStation, Unenrol
  <2>2. \A t \in Stations : KeyStatus(t)' = IF t \in {s} THEN "none" ELSE KeyStatus(t)
    BY <2>1 DEF KeyStatus, TypeOK
  <2>3. [t \in Stations |-> KeyStatus(t)]' =
        [t \in Stations |-> IF t \in {s} THEN "none" ELSE KeyStatus(t)]
    BY <2>2
  <2>4. R!Revert
    BY <1>1, <1>2, <1>3, <2>3 DEF R!Revert
  <2> QED BY <2>4 DEF R!Next
<1> QED BY <1>5, <1>7, <1>8, <1>9, <1>10 DEF StationStep

LEMMA InitRefines == Init => R!Init
BY DEF Init, R!Init, Opened, KeyStatus, Active

LEMMA NextRefines ==
  TypeOK /\ TypeOK' /\ IInv /\ IInv' /\ FreshKeys /\ [Next]_vars => [R!Next]_(R!rolloutVars)
<1> SUFFICES ASSUME TypeOK, TypeOK', IInv, IInv', FreshKeys, [Next]_vars
             PROVE  R!Next \/ UNCHANGED R!rolloutVars
  OBVIOUS
<1>1. CASE UNCHANGED vars \/ \E s \in Stations : Environment(s) /\ UNCHANGED migrationVars
  <2>1. UNCHANGED <<phase, candidates, size, canary, wave, enrolled, proved>>
    BY <1>1 DEF vars, migrationVars, authVars, runVars, waveVars
  <2> QED BY <2>1, SameOpened DEF R!rolloutVars, KeyStatus
<1> QED BY <1>1, RunRefines, StationRefines DEF Next

\* Every step of the orchestrator, of the chargers, of the network and of the
\* operator is a step of the abstract rollout or leaves it alone: a station's
\* identity changes only once its wave has been opened, a key is tried before it
\* is an identity, and a run ends with nothing half done
\* (MigrationOrchestrator._do_wave, _fail_station, _rollback_wave).
THEOREM RolloutImplemented == Spec => ImplementsRollout
BY InitRefines, NextRefines, TypeCorrect, Inductive, KeysAreNew, PTL DEF Spec, R!Spec, ImplementsRollout

-----------------------------------------------------------------------------
(* Containment.                                                            *)

\* Containment in terms of Opened.
Contained ==
  phase # "idle" => \A s \in Stations \ Opened :
    enrolled[s] = before[s].key /\ mstate[s] = before[s].state

\* A station not opened is as an operation on opened stations found it.
LEMMA LeftAlone ==
  ASSUME Contained, phase # "idle", UNCHANGED before, Opened \subseteq Opened',
         \A s \in Stations \ Opened : enrolled'[s] = enrolled[s] /\ mstate'[s] = mstate[s]
  PROVE  Contained'
BY DEF Contained

LEMMA UndoContained ==
  ASSUME TypeOK, IInv, Contained, phase # "idle", NEW w \in WaveIds, Undo(w),
         UNCHANGED <<before, candidates, size, canary, wave>>
  PROVE  Contained'
<1>1. \A s \in Stations \ Opened : s \notin ToUnenrol(w) /\ s \notin ToRestore(w)
  BY UndoableOpened DEF ToUnenrol, ToRestore, Undoable
<1>2. \A s \in Stations \ Opened : enrolled'[s] = enrolled[s] /\ mstate'[s] = mstate[s]
  BY <1>1 DEF Undo
<1> QED BY <1>2, SameOpened, LeftAlone

LEMMA RunContained ==
  ASSUME TypeOK, IInv, Contained, Operator \/ Run
  PROVE  Contained'
<1>1. ASSUME UNCHANGED <<enrolled, mstate>>,
             before' = [s \in Stations |-> [key |-> enrolled[s], state |-> mstate[s]]]
      PROVE  Contained'
  BY <1>1 DEF Contained
<1>2. CASE Operator
  <2>1. ASSUME NEW w \in WaveIds, Rollback(w)
        PROVE  Contained'
    BY <2>1, UndoContained DEF Rollback, runVars
  <2> QED BY <1>1, <1>2, <2>1
          DEF Operator, StartMigration, StartRotation, StartRun, authVars, recordVars
<1>3. CASE BeginRun
  <2>1. phase # "idle" /\ UNCHANGED <<before, enrolled, mstate>> /\ Opened = {}
    BY <1>3 DEF BeginRun, runVars, authVars, recordVars, Opened, Active
  <2> QED BY <2>1, LeftAlone
<1>4. CASE NextWave
  <2>1. phase # "idle" /\ UNCHANGED <<before, enrolled, mstate>>
    BY <1>4 DEF NextWave, WaveDone, authVars, recordVars, Active
  <2> QED BY <1>4, <2>1, OpenedGrows, LeftAlone
<1>5. CASE RunCompletes
  <2>1. phase # "idle" /\ UNCHANGED <<before, enrolled, mstate, candidates, size, canary, wave>>
    BY <1>5 DEF RunCompletes, WaveDone, authVars, recordVars, Active
  <2> QED BY <2>1, SameOpened, LeftAlone
<1>6. CASE WaveFails
  <2>1. /\ phase # "idle" /\ wave \in WaveIds /\ Undo(wave)
        /\ UNCHANGED <<before, candidates, size, canary, wave>>
    BY <1>6, ActiveWave DEF WaveFails, WaveDone, Active
  <2> QED BY <2>1, UndoContained
<1> QED BY <1>2, <1>3, <1>4, <1>5, <1>6 DEF Run

LEMMA StationContained ==
  ASSUME TypeOK, IInv, Contained, NEW s \in Stations, StationStep(s)
  PROVE  Contained'
<1>1. phase \in Active /\ s \in Opened
  <2>1. task[s] \in Working
    BY DEF StationStep, Skip, Defer, AskForKey, EnrolKey, MarkMigrated, FailStation, StageKey,
           CommitKey, RotationFails, Working
  <2> QED BY <2>1, AtWorkOpened
<1>2. UNCHANGED <<before, candidates, size, canary, wave>>
  BY DEF StationStep, Skip, Defer, AskForKey, EnrolKey, MarkMigrated, FailStation,
         StageKey, CommitKey, RotationFails, runVars, waveVars
<1>3. \A t \in Stations \ {s} : enrolled'[t] = enrolled[t] /\ mstate'[t] = mstate[t]
  BY DEF StationStep, Skip, Defer, AskForKey, EnrolKey, MarkMigrated, FailStation, Unenrol,
         StageKey, CommitKey, RotationFails, authVars, recordVars, TypeOK
<1> QED BY <1>1, <1>2, <1>3, SameOpened, LeftAlone DEF Active

LEMMA InitContained == Init => Contained
BY DEF Init, Contained

LEMMA NextContained == TypeOK /\ IInv /\ Contained /\ [Next]_vars => Contained'
<1> SUFFICES ASSUME TypeOK, IInv, Contained, [Next]_vars PROVE Contained'
  OBVIOUS
<1>1. CASE UNCHANGED vars \/ \E s \in Stations : Environment(s) /\ UNCHANGED migrationVars
  <2>1. UNCHANGED <<phase, before, candidates, size, canary, wave, enrolled, mstate>>
    BY <1>1 DEF vars, migrationVars, authVars, recordVars, runVars, waveVars
  <2> QED BY <2>1, SameOpened DEF Contained
<1> QED BY <1>1, RunContained, StationContained DEF Next

\* Containment in terms of Opened is an invariant (_do_wave, _rollback_wave).
THEOREM ContainedAlways == Spec => []Contained
BY InitContained, NextContained, TypeCorrect, Inductive, PTL DEF Spec

LEMMA ContainedSays == TypeOK /\ Contained => Containment
<1> SUFFICES ASSUME TypeOK, Contained, phase # "idle", NEW s \in Stations,
                    s \notin candidates \/ Rank(s) >= First(wave + 1)
             PROVE  s \notin Opened
  BY DEF Contained, Containment
<1>1. CASE wave >= 0
  BY <1>1, FirstType, RankType DEF Opened, TypeOK
<1>2. CASE ~(wave >= 0)
  BY <1>2 DEF Opened
<1> QED BY <1>1, <1>2

\* A station whose wave has not started is as it was before the run, whatever the
\* waves before it did and however they were rolled back (_do_wave, _rollback_wave).
THEOREM WavesContained == Spec => []Containment
BY ContainedSays, TypeCorrect, ContainedAlways, PTL

-----------------------------------------------------------------------------
(* The inductive invariant, on top of IInv and Contained.                  *)

\* What can be undone is in the wave that lists it, a rotated station is
\* listed with the key it had before the run, and what the current wave lists
\* its coroutines have reached.
DoneInWave ==
  \A v \in WaveIds, s \in Stations : Undoable(v, s) =>
    /\ s \in Wave(v)
    /\ rotatedIn[v][s] # NoKey => rotatedIn[v][s] = before[s].key
    /\ v = wave => task[s] \in {"checking", "migrated"}
    /\ v = wave /\ rotatedIn[v][s] # NoKey => task[s] = "migrated"

\* A rotation's station is on the key it had, or is listed as rotated.
OldKeyKept ==
  kind = "rotation" /\ phase # "idle" => \A s \in Stations :
    /\ s \in candidates => before[s].key # NoKey
    /\ enrolled[s] = before[s].key \/ \E v \in WaveIds : rotatedIn[v][s] # NoKey
    /\ task[s] \in {"enrolling", "checking"} => oldKey[s] = before[s].key

\* The wave a run failed in lists nothing any more, and nobody is at work.
NothingListed ==
  phase = "rolled_back" =>
    /\ wave >= 0 /\ enrolledIn[wave] = {} /\ rotatedIn[wave] = NoneRotated
    /\ \A s \in Wave(wave) : task[s] \in Outcomes

\* How far a migration's coroutine came, and the key the server holds.
Reached ==
  kind = "migration" /\ wave >= 0 => \A s \in Wave(wave) :
    /\ task[s] # "none"
    /\ task[s] \in {"ready", "pending"} => enrolled[s] = before[s].key
    /\ task[s] \in {"checking", "migrated"} => enrolled[s] = NoKey \/ s \in enrolledIn[wave]
    /\ task[s] = "rolled_back" => enrolled[s] = NoKey
    /\ task[s] = "incompatible" => s \notin Capable

UInv == DoneInWave /\ OldKeyKept /\ NothingListed /\ Reached

-----------------------------------------------------------------------------
(* Waves.                                                                  *)

\* A wave begins where the ones before it have ended.
LEMMA WavesInOrder ==
  ASSUME TypeOK, NEW v \in WaveIds, NEW w \in WaveIds, v < w
  PROVE  First(v + 1) <= First(w) /\ First(v + 1) \in Int /\ First(w) \in Int
<1>1. v \in Nat /\ w \in Nat /\ v <= w - 1 /\ w - 1 \in Nat
  BY Count DEF WaveIds
<1>2. size \in Nat /\ canary \in Nat
  BY DEF TypeOK
<1>3. First(v + 1) = canary + v * size
  <2>1. v + 1 # 0 /\ (v + 1) - 1 = v
    BY <1>1
  <2> QED BY <2>1 DEF First
<1>4. First(w) = canary + (w - 1) * size
  BY <1>1 DEF First
<1>5. \A a, b, c \in Nat : a <= b => a * c <= b * c /\ a * c \in Nat /\ b * c \in Nat
  OBVIOUS
<1>6. v * size <= (w - 1) * size /\ v * size \in Nat /\ (w - 1) * size \in Nat
  BY <1>1, <1>2, <1>5
<1> QED BY <1>2, <1>3, <1>4, <1>6

\* A station is in one wave.
LEMMA OneWave ==
  ASSUME TypeOK, NEW v \in WaveIds, NEW w \in WaveIds, NEW s \in Stations,
         s \in Wave(v), s \in Wave(w)
  PROVE  v = w
<1>1. ASSUME NEW a \in WaveIds, NEW b \in WaveIds, s \in Wave(a), s \in Wave(b), a < b
      PROVE  FALSE
  <2>1. Rank(s) \in Nat /\ Rank(s) < First(a + 1) /\ Rank(s) >= First(b)
    BY <1>1, RankType DEF Wave, TypeOK
  <2> QED BY <1>1, <2>1, WavesInOrder
<1>2. v < w \/ w < v \/ v = w
  BY Count DEF WaveIds
<1> QED BY <1>1, <1>2

\* A station of a wave that has not begun is not opened.
LEMMA NotOpened ==
  ASSUME TypeOK, NEW w \in WaveIds, w = wave + 1, NEW s \in Wave(w)
  PROVE  s \notin Opened
<1>1. Rank(s) \in Nat /\ Rank(s) >= First(w)
  BY RankType DEF Wave, TypeOK
<1>2. wave >= 0 => First(wave + 1) \in Int
  BY FirstType
<1> QED BY <1>1, <1>2 DEF Opened

\* A step that touches no variable of the invariant keeps it.
LEMMA StutterUndo ==
  ASSUME UInv,
         UNCHANGED <<enrolled, phase, kind, candidates, size, canary, before, wave,
                     enrolledIn, rotatedIn, taskVars>>
  PROVE  UInv'
<1>1. \A w : Wave(w)' = Wave(w)
  BY SameWaves
<1>2. wave' = wave /\ Wave(wave)' = Wave(wave)
  BY DEF Wave, First, Rank
<1> QED BY <1>1, <1>2 DEF UInv, DoneInWave, OldKeyKept, NothingListed, Reached, Undoable, taskVars

-----------------------------------------------------------------------------
(* Every step keeps the invariant.                                         *)

LEMMA StationUndo ==
  ASSUME TypeOK, IInv, UInv, NEW s \in Stations, StationStep(s)
  PROVE  UInv'
<1> USE DEF authVars, recordVars, runVars, waveVars, Ends, TypeOK, UInv
<1>0. UNCHANGED <<candidates, size, canary, wave, kind, before>>
  BY DEF StationStep, Skip, Defer, AskForKey, EnrolKey, MarkMigrated, FailStation,
         StageKey, CommitKey, RotationFails
<1>1. (\A w : Wave(w)' = Wave(w)) /\ Wave(wave)' = Wave(wave)
  BY <1>0, SameWaves DEF First, Wave, Rank
<1>2. task[s] \in Working
  BY DEF StationStep, Skip, Defer, AskForKey, EnrolKey, MarkMigrated, FailStation,
         StageKey, CommitKey, RotationFails, Working
<1>3. phase \in Active /\ wave \in WaveIds /\ wave >= 0 /\ s \in Wave(wave)
  BY <1>2, ActiveWave DEF IInv, BusyInWave
<1>4. phase' \in Active
  <2>1. StageKey(s) => phase' = phase
    BY <1>2, <1>3 DEF StageKey, IInv, RotationEnrolled, Wave
  <2> QED BY <1>3, <2>1 DEF StationStep, Skip, Defer, AskForKey, EnrolKey, MarkMigrated,
                 FailStation, StageKey, CommitKey, RotationFails
<1>5. NothingListed'
  BY <1>4 DEF NothingListed, Active
<1>6. CASE Skip(s) \/ Defer(s)
  <2>1. /\ task[s] = "ready" /\ UNCHANGED <<enrolled, phase, enrolledIn, rotatedIn, oldKey>>
        /\ \/ task' = [task EXCEPT ![s] = "pending"]
           \/ task' = [task EXCEPT ![s] = "incompatible"] /\ (kind = "migration" => s \notin Capable)
    BY <1>6 DEF Skip, Defer, Connectable
  <2>2. \A v \in WaveIds : ~Undoable(v, s)
    BY <2>1 DEF IInv, UndoInWave
  <2>3. DoneInWave' BY <1>0, <1>1, <2>1, <2>2 DEF DoneInWave, Undoable
  <2>4. OldKeyKept' BY <1>0, <2>1 DEF OldKeyKept
  <2>5. Reached' BY <1>0, <1>1, <1>3, <2>1 DEF Reached, Wave
  <2> QED BY <1>5, <2>3, <2>4, <2>5
<1>7. CASE AskForKey(s)
  <2>1. kind = "rotation" => enrolled[s] # NoKey /\ enrolled[s] = before[s].key
    BY <1>3, <1>7 DEF AskForKey, OldKeyKept, IInv, UndoInWave, Undoable, RotationEnrolled, Wave, Active
  <2>2. /\ task[s] = "ready" /\ task' = [task EXCEPT ![s] = "enrolling"]
        /\ oldKey' = [oldKey EXCEPT ![s] = IF kind = "rotation" THEN enrolled[s] ELSE NoKey]
        /\ UNCHANGED <<enrolled, phase, enrolledIn, rotatedIn>>
    BY <1>7, <2>1 DEF AskForKey
  <2> QED BY <1>0, <1>1, <1>3, <1>5, <2>1, <2>2 DEF DoneInWave, OldKeyKept, Reached, Undoable,
             IInv, UndoInWave
<1>8. CASE EnrolKey(s)
  BY <1>0, <1>1, <1>3, <1>5, <1>8 DEF EnrolKey, Challenge, DoneInWave, OldKeyKept, Reached,
     Undoable, IInv, UndoInWave
<1>9. CASE MarkMigrated(s)
  BY <1>0, <1>1, <1>3, <1>5, <1>9 DEF MarkMigrated, DoneInWave, OldKeyKept, Reached, Undoable
<1>10. CASE FailStation(s)
  BY <1>0, <1>1, <1>3, <1>5, <1>10 DEF FailStation, Unenrol, DoneInWave, OldKeyKept, Reached,
     Undoable, IInv, UndoByKind
<1>11. CASE StageKey(s)
  <2>1. /\ task[s] = "enrolling" /\ kind = "rotation" /\ task' = [task EXCEPT ![s] = "checking"]
        /\ UNCHANGED <<enrolled, enrolledIn, rotatedIn, oldKey>>
    BY <1>4, <1>11 DEF StageKey, Challenge, Active
  <2> QED BY <1>0, <1>1, <1>3, <1>5, <2>1 DEF DoneInWave, OldKeyKept, Reached, Undoable,
             IInv, UndoInWave, Active
<1>12. CASE CommitKey(s)
  <2>1. /\ task[s] = "checking" /\ kind = "rotation" /\ task' = [task EXCEPT ![s] = "migrated"]
        /\ rotatedIn' = [rotatedIn EXCEPT ![wave][s] = oldKey[s]]
        /\ enrolled' = [enrolled EXCEPT ![s] = staged[s]]
        /\ UNCHANGED <<enrolledIn, oldKey, phase>>
    BY <1>12 DEF CommitKey
  <2>2. oldKey[s] = before[s].key /\ before[s].key # NoKey
    BY <1>3, <2>1 DEF OldKeyKept, Wave, Active
  <2>3. /\ rotatedIn'[wave][s] = before[s].key
        /\ \A v \in WaveIds, t \in Stations : v # wave \/ t # s => rotatedIn'[v][t] = rotatedIn[v][t]
    BY <1>3, <2>1, <2>2
  <2>4. DoneInWave' BY <1>0, <1>1, <1>3, <2>1, <2>2, <2>3 DEF DoneInWave, Undoable
  <2>5. OldKeyKept' BY <1>0, <1>3, <2>1, <2>2, <2>3 DEF OldKeyKept, Active
  <2>6. Reached' BY <1>0, <2>1 DEF Reached
  <2> QED BY <1>5, <2>4, <2>5, <2>6
<1>13. CASE RotationFails(s)
  BY <1>0, <1>1, <1>3, <1>5, <1>13 DEF RotationFails, DoneInWave, OldKeyKept, Reached, Undoable,
     IInv, UndoByKind
<1> QED BY <1>6, <1>7, <1>8, <1>9, <1>10, <1>11, <1>12, <1>13 DEF StationStep

\* A wave is undone.  Its lists say who is concerned, and its stations are in
\* no other wave.
LEMMA UndoUndo ==
  ASSUME TypeOK, IInv, UInv, NEW w \in WaveIds, Undo(w), phase # "idle",
         UNCHANGED <<kind, candidates, size, canary, before, wave, taskVars>>,
         \/ phase' = phase
         \/ w = wave /\ wave >= 0 /\ \A s \in Wave(wave) : task[s] \in Outcomes
  PROVE  UInv'
<1> USE DEF TypeOK, UInv, taskVars
<1>1. (\A v : Wave(v)' = Wave(v)) /\ Wave(wave)' = Wave(wave)
  BY SameWaves DEF First, Wave, Rank
<1>2. \A s \in Stations :
        enrolled'[s] = IF s \in enrolledIn[w] THEN NoKey
                       ELSE IF rotatedIn[w][s] # NoKey THEN rotatedIn[w][s] ELSE enrolled[s]
  BY DEF Undo, ToUnenrol, ToRestore
<1>3. \A v \in WaveIds :
        /\ enrolledIn'[v] = IF v = w THEN {} ELSE enrolledIn[v]
        /\ rotatedIn'[v] = IF v = w THEN NoneRotated ELSE rotatedIn[v]
  BY DEF Undo
<1>4. DoneInWave'
  <2>1. \A v \in WaveIds, s \in Stations : Undoable(v, s)' =>
          Undoable(v, s) /\ v # w /\ rotatedIn'[v] = rotatedIn[v]
    BY <1>3 DEF Undoable, NoneRotated
  <2> QED BY <1>1, <2>1 DEF DoneInWave
<1>5. OldKeyKept'
  <2> SUFFICES ASSUME kind = "rotation", NEW s \in Stations
               PROVE  enrolled'[s] = before[s].key \/ \E v \in WaveIds : rotatedIn'[v][s] # NoKey
    BY DEF OldKeyKept
  <2>1. s \notin enrolledIn[w]
    BY DEF IInv, UndoByKind
  <2>2. CASE rotatedIn[w][s] # NoKey
    <3>1. enrolled'[s] = rotatedIn[w][s]
      BY <1>2, <2>1, <2>2, Zenon
    <3>2. DoneInWave /\ Undoable(w, s)
      BY <2>2 DEF Undoable
    <3>3. rotatedIn[w][s] = before[s].key
      BY <2>2, <3>2, Zenon DEF DoneInWave
    <3> QED BY <3>1, <3>3, Zenon
  <2>3. CASE rotatedIn[w][s] = NoKey
    <3>1. enrolled'[s] = enrolled[s]
      BY <1>2, <2>1, <2>3, Zenon
    <3>2. OldKeyKept
      OBVIOUS
    <3>3. CASE enrolled[s] = before[s].key
      BY <3>1, <3>3, Zenon
    <3>4. ASSUME NEW v \in WaveIds, rotatedIn[v][s] # NoKey
          PROVE  rotatedIn'[v][s] # NoKey
      <4>1. v # w BY <2>3, <3>4, Zenon
      <4>2. rotatedIn'[v] = rotatedIn[v] BY <1>3, <4>1, Zenon
      <4> QED BY <3>4, <4>2, Zenon
    <3> QED BY <3>2, <3>3, <3>4, Zenon DEF OldKeyKept
  <2> QED BY <2>2, <2>3
<1>6. NothingListed'
  BY <1>1, <1>3, ActiveWave DEF NothingListed
<1>7. Reached'
  <2> SUFFICES ASSUME kind = "migration", wave >= 0, NEW s \in Wave(wave)
               PROVE  /\ task[s] # "none"
                      /\ task[s] \in {"ready", "pending"} => enrolled'[s] = before[s].key
                      /\ task[s] \in {"checking", "migrated"} =>
                           enrolled'[s] = NoKey \/ s \in enrolledIn'[wave]
                      /\ task[s] = "rolled_back" => enrolled'[s] = NoKey
                      /\ task[s] = "incompatible" => s \notin Capable
    BY <1>1 DEF Reached
  <2>1. s \in Stations /\ wave \in WaveIds /\ rotatedIn[w][s] = NoKey
    BY ActiveWave DEF IInv, UndoByKind, Wave
  <2>2. s \in enrolledIn[w] => w = wave /\ task[s] \in {"checking", "migrated"}
    BY <2>1 DEF IInv, UndoInWave, Undoable, DoneInWave
  <2> QED BY <1>2, <1>3, <2>1, <2>2 DEF Reached
<1> QED BY <1>4, <1>5, <1>6, <1>7

\* A wave begins: its stations are as they were before the run.
LEMMA BeginUndo ==
  ASSUME TypeOK, IInv, UInv, Contained, NEW w \in WaveIds, w = wave + 1, BeginWave(w),
         phase \in Active, phase' \in Active,
         UNCHANGED <<kind, candidates, size, canary, before, enrolled>>
  PROVE  UInv'
<1> USE DEF TypeOK, UInv
<1>1. (\A v : Wave(v)' = Wave(v)) /\ Wave(wave)' = Wave(w) /\ wave' = w
  BY SameWaves DEF BeginWave, First, Wave, Rank
<1>2. \A s \in Stations : task'[s] = IF s \in Wave(w) THEN "ready" ELSE "none"
  BY DEF BeginWave
<1>3. /\ enrolledIn'[w] = {} /\ rotatedIn'[w] = NoneRotated
      /\ \A v \in WaveIds \ {w} : enrolledIn'[v] = enrolledIn[v] /\ rotatedIn'[v] = rotatedIn[v]
  BY DEF BeginWave
<1>4. \A s \in Stations : ~Undoable(w, s)
  <2> SUFFICES ASSUME NEW s \in Stations, Undoable(w, s) PROVE FALSE
    OBVIOUS
  <2>1. s \in Wave(w) /\ s \in Opened
    BY UndoableOpened DEF DoneInWave
  <2> QED BY <2>1, NotOpened
<1>5. DoneInWave'
  BY <1>1, <1>3 DEF DoneInWave, Undoable, NoneRotated
<1>6. OldKeyKept'
  <2>1. \A v \in WaveIds, s \in Stations : rotatedIn[v][s] # NoKey => rotatedIn'[v][s] # NoKey
    BY <1>3, <1>4 DEF Undoable
  <2> QED BY <1>2, <2>1 DEF OldKeyKept, Active
<1>7. Reached'
  <2> SUFFICES ASSUME NEW s \in Wave(w) PROVE task'[s] = "ready" /\ enrolled[s] = before[s].key
    BY <1>1 DEF Reached
  <2>1. s \in Stations
    BY DEF Wave
  <2> QED BY <1>2, <2>1, NotOpened DEF Contained, Active
<1>8. NothingListed'
  BY DEF NothingListed, Active
<1> QED BY <1>5, <1>6, <1>7, <1>8

LEMMA StartUndo ==
  ASSUME TypeOK, IInv, UInv, NEW k \in {"migration", "rotation"}, NEW who \in SUBSET Stations,
         NEW ws, NEW cc, StartRun(k, who, ws, cc),
         k = "rotation" => \A s \in who : enrolled[s] # NoKey
  PROVE  UInv'
<1> USE DEF TypeOK, IInv, UInv, StartRun, authVars, taskVars
<1>1. \A s \in Stations : task[s] \notin Working
  BY DEF BusyInWave
<1>2. \A v \in WaveIds, s \in Stations : ~Undoable(v, s)'
  BY DEF Undoable, NoneRotated
<1>3. DoneInWave' /\ NothingListed' /\ Reached'
  BY <1>2 DEF DoneInWave, NothingListed, Reached
<1>4. OldKeyKept'
  BY <1>1 DEF OldKeyKept, Working
<1> QED BY <1>3, <1>4

LEMMA RunUndo ==
  ASSUME TypeOK, IInv, UInv, Contained, Operator \/ Run
  PROVE  UInv'
<1>1. ASSUME NEW ws \in WaveSizes, NEW cc \in CanaryCounts,
             StartMigration(ws, cc) \/ StartRotation(ws, cc)
      PROVE  UInv'
  BY <1>1, StartUndo DEF StartMigration, StartRotation
<1>2. ASSUME NEW w \in WaveIds, Rollback(w)
      PROVE  UInv'
  BY <1>2, UndoUndo DEF Rollback, runVars
<1>3. CASE BeginRun
  <2>1. 0 \in WaveIds /\ phase' \in Active /\ phase \in Active
    BY <1>3, Count DEF BeginRun, WaveIds, runVars
  <2> QED BY <1>3, <2>1, BeginUndo DEF BeginRun, runVars, authVars
<1>4. CASE NextWave
  <2>1. wave + 1 \in WaveIds /\ phase' \in Active /\ phase \in Active
    BY <1>4, ActiveWave, WaveAfter DEF NextWave, WaveDone, TypeOK, Active
  <2> QED BY <1>4, <2>1, BeginUndo DEF NextWave, authVars
<1>5. CASE RunCompletes
  <2>1. /\ phase \in Active /\ phase' = "completed"
        /\ UNCHANGED <<enrolled, kind, candidates, size, canary, before, wave, enrolledIn,
                       rotatedIn, taskVars>>
    BY <1>5 DEF RunCompletes, WaveDone, authVars
  <2>2. (\A v : Wave(v)' = Wave(v)) /\ Wave(wave)' = Wave(wave)
    BY <2>1, SameWaves DEF First, Wave, Rank
  <2> QED BY <2>1, <2>2 DEF UInv, DoneInWave, OldKeyKept, NothingListed, Reached, Undoable,
             taskVars, Active
<1>6. CASE WaveFails
  <2>1. wave \in WaveIds
    BY <1>6, ActiveWave DEF WaveFails, WaveDone
  <2> QED BY <1>6, <2>1, UndoUndo DEF WaveFails, WaveDone, Active
<1> QED BY <1>1, <1>2, <1>3, <1>4, <1>5, <1>6 DEF Operator, Run

LEMMA NextUndo == TypeOK /\ IInv /\ UInv /\ Contained /\ [Next]_vars => UInv'
<1> SUFFICES ASSUME TypeOK, IInv, UInv, Contained, [Next]_vars PROVE UInv'
  OBVIOUS
<1>1. CASE UNCHANGED vars \/ \E s \in Stations : Environment(s) /\ UNCHANGED migrationVars
  <2>1. UNCHANGED <<enrolled, phase, kind, candidates, size, canary, before, wave,
                    enrolledIn, rotatedIn, taskVars>>
    BY <1>1 DEF vars, migrationVars, authVars, runVars, waveVars
  <2> QED BY <2>1, StutterUndo
<1> QED BY <1>1, RunUndo, StationUndo DEF Next

LEMMA InitUndo == Init => UInv
BY DEF Init, UInv, DoneInWave, OldKeyKept, NothingListed, Reached, Undoable, NoneRotated

\* UInv is an invariant of every migration and rotation.
THEOREM WavesUndoable == Spec => []UInv
BY InitUndo, NextUndo, TypeCorrect, Inductive, ContainedAlways, PTL DEF Spec

-----------------------------------------------------------------------------
(* What a rollback leaves.                                                 *)

LEMMA UndoSays == TypeOK /\ IInv /\ UInv => FailedWaveUndone
<1> SUFFICES ASSUME TypeOK, IInv, UInv, phase = "rolled_back", wave >= 0, NEW s \in Wave(wave)
             PROVE  IF kind = "rotation" THEN enrolled[s] = before[s].key
                    ELSE enrolled[s] = NoKey \/ (task[s] = "pending" /\ enrolled[s] = before[s].key)
  BY DEF FailedWaveUndone
<1>1. /\ s \in Stations /\ wave \in WaveIds /\ task[s] \in Outcomes
      /\ enrolledIn[wave] = {} /\ rotatedIn[wave][s] = NoKey
  BY ActiveWave DEF UInv, NothingListed, NoneRotated, Wave, TypeOK
<1>2. CASE kind = "rotation"
  <2>1. ASSUME NEW v \in WaveIds, rotatedIn[v][s] # NoKey PROVE FALSE
    <3>1. s \in Wave(v) BY <1>1, <2>1 DEF UInv, DoneInWave, Undoable
    <3> QED BY <1>1, <2>1, <3>1, OneWave
  <2> QED BY <1>1, <1>2, <2>1 DEF UInv, OldKeyKept
<1>3. CASE kind = "migration"
  BY <1>1, <1>3 DEF UInv, Reached, Outcomes, IInv, EnrolledCapable
<1> QED BY <1>2, <1>3 DEF TypeOK

\* Whoever the wave reached has lost what the run gave it when a run is rolled
\* back: a rotation's stations are on their old keys, a migration's without one
\* (_do_wave, _rollback_wave).
THEOREM FailedWaveIsUndone == Spec => []FailedWaveUndone
BY UndoSays, TypeCorrect, Inductive, WavesUndoable, PTL

\* A rotation's wave rolled back by hand is on the keys from before the run.
KeysRestored ==
  \A w \in WaveIds : kind = "rotation" /\ Rollback(w) =>
    \A s \in Wave(w) : enrolled'[s] = before[s].key

LEMMA RollbackSays == TypeOK /\ IInv /\ UInv => KeysRestored
<1> SUFFICES ASSUME TypeOK, IInv, UInv, NEW w \in WaveIds, kind = "rotation", Rollback(w),
                    NEW s \in Wave(w)
             PROVE  enrolled'[s] = before[s].key
  BY DEF KeysRestored
<1>1. s \in Stations /\ phase # "idle" /\ s \notin enrolledIn[w]
  BY DEF Wave, TypeOK, Rollback, IInv, UndoByKind
<1>2. enrolled'[s] = IF rotatedIn[w][s] # NoKey THEN rotatedIn[w][s] ELSE enrolled[s]
  BY <1>1 DEF Rollback, Undo, ToUnenrol, ToRestore
<1>3. CASE rotatedIn[w][s] # NoKey
  BY <1>1, <1>2, <1>3 DEF UInv, DoneInWave, Undoable
<1>4. CASE rotatedIn[w][s] = NoKey
  <2>1. ASSUME NEW v \in WaveIds, rotatedIn[v][s] # NoKey PROVE FALSE
    <3>1. s \in Wave(v) BY <1>1, <2>1 DEF UInv, DoneInWave, Undoable
    <3> QED BY <1>1, <1>4, <2>1, <3>1, OneWave
  <2> QED BY <1>1, <1>2, <1>4, <2>1 DEF UInv, OldKeyKept
<1> QED BY <1>3, <1>4

\* Rolling back a rotation's wave by hand, whenever and how often, puts each of
\* its stations back on the key it had before the run (rollback, _rollback_wave).
THEOREM RollbackRestores == Spec => RotationRollbackRestores
BY RollbackSays, TypeCorrect, Inductive, WavesUndoable, PTL DEF RotationRollbackRestores, KeysRestored

-----------------------------------------------------------------------------
(* The counters.                                                           *)

LEMMA DisjointCount ==
  ASSUME NEW S, NEW T, IsFiniteSet(S), IsFiniteSet(T), S \cap T = {}
  PROVE  /\ IsFiniteSet(S \cup T)
         /\ Cardinality(S \cup T) = Cardinality(S) + Cardinality(T)
<1>1. Cardinality(S \cap T) = 0
  BY FS_EmptySet
<1>2. Cardinality(S) \in Nat /\ Cardinality(T) \in Nat
  BY FS_CardinalityType
<1>3. /\ IsFiniteSet(S \cup T)
      /\ Cardinality(S \cup T) = Cardinality(S) + Cardinality(T) - Cardinality(S \cap T)
  BY FS_Union
<1> QED BY <1>1, <1>2, <1>3

\* When a wave has every outcome, its stations are counted once each.
LEMMA OutcomesCounted ==
  ASSUME TypeOK, WaveDone
  PROVE  /\ With("migrated") \in Nat /\ With("rolled_back") \in Nat
         /\ With("incompatible") \in Nat /\ With("pending") \in Nat
         /\ Cardinality(Wave(wave)) =
              With("migrated") + With("rolled_back") + With("incompatible") + With("pending")
<1> DEFINE In(o) == {s \in Wave(wave) : task[s] = o}
           a == In("migrated")
           b == In("rolled_back")
           c == In("incompatible")
           d == In("pending")
<1>1. /\ a \subseteq Stations /\ b \subseteq Stations /\ c \subseteq Stations /\ d \subseteq Stations
      /\ a \cap b = {} /\ (a \cup b) \cap c = {} /\ ((a \cup b) \cup c) \cap d = {}
      /\ Wave(wave) = ((a \cup b) \cup c) \cup d
  BY DEF Wave, TypeOK, WaveDone, Outcomes
<1>2. /\ With("migrated") = Cardinality(a) /\ With("rolled_back") = Cardinality(b)
      /\ With("incompatible") = Cardinality(c) /\ With("pending") = Cardinality(d)
  BY DEF With
<1> HIDE DEF a, b, c, d
<1>3. /\ IsFiniteSet(a) /\ Cardinality(a) \in Nat /\ IsFiniteSet(b) /\ Cardinality(b) \in Nat
      /\ IsFiniteSet(c) /\ Cardinality(c) \in Nat /\ IsFiniteSet(d) /\ Cardinality(d) \in Nat
  BY <1>1, Count
<1>4. IsFiniteSet(a \cup b) /\ Cardinality(a \cup b) = Cardinality(a) + Cardinality(b)
  BY <1>1, <1>3, DisjointCount
<1>5. /\ IsFiniteSet((a \cup b) \cup c)
      /\ Cardinality((a \cup b) \cup c) = Cardinality(a \cup b) + Cardinality(c)
  BY <1>1, <1>3, <1>4, DisjointCount
<1>6. Cardinality(Wave(wave)) = Cardinality((a \cup b) \cup c) + Cardinality(d)
  BY <1>1, <1>3, <1>5, DisjointCount
<1> QED BY <1>2, <1>3, <1>4, <1>5, <1>6

\* The sum of a run's counters.
Sum(c) == c.pending + c.migrated + c.rolled_back + c.incompatible

LEMMA CountedSum ==
  ASSUME TypeOK, WaveDone
  PROVE  /\ Sum(Counted) = Sum(count) /\ Counted.total = count.total
         /\ Counted.migrated \in Nat /\ Counted.migrated >= With("migrated")
<1>1. /\ count.pending \in Int /\ count.migrated \in Nat /\ count.rolled_back \in Nat
      /\ count.incompatible \in Nat /\ count \in Counters
  BY DEF TypeOK, Counters
<1>2. /\ Counted.pending = count.pending - (Cardinality(Wave(wave)) - With("pending"))
      /\ Counted.migrated = count.migrated + With("migrated")
      /\ Counted.rolled_back = count.rolled_back + With("rolled_back")
      /\ Counted.incompatible = count.incompatible + With("incompatible")
      /\ Counted.total = count.total
  BY <1>1 DEF Counted, Counters
<1> QED BY <1>1, <1>2, OutcomesCounted DEF Sum

\* What the failed wave lists are stations it has counted as migrated.
LEMMA TakenFromMigrated ==
  ASSUME TypeOK, IInv, UInv, WaveDone
  PROVE  LET n == Cardinality(ToUnenrol(wave)) + Cardinality(ToRestore(wave))
         IN  n \in Nat /\ n <= With("migrated")
<1> DEFINE m == {s \in Wave(wave) : task[s] = "migrated"}
<1>1. wave \in WaveIds
  BY ActiveWave DEF WaveDone
<1>2. ToUnenrol(wave) \subseteq m /\ ToRestore(wave) \subseteq m
  <2>1. ASSUME NEW s \in Stations, Undoable(wave, s) PROVE s \in m
    BY <1>1, <2>1 DEF UInv, DoneInWave, WaveDone, Outcomes
  <2> QED BY <1>1, <2>1 DEF ToUnenrol, ToRestore, Undoable, TypeOK
<1>3. ToUnenrol(wave) = {} \/ ToRestore(wave) = {}
  BY <1>1 DEF ToUnenrol, ToRestore, IInv, UndoByKind, TypeOK
<1>4. m \subseteq Stations /\ With("migrated") = Cardinality(m)
  BY DEF Wave, TypeOK, With
<1> HIDE DEF m
<1>5. IsFiniteSet(m) /\ Cardinality(m) \in Nat
  BY <1>4, Count
<1>6. \A S \in SUBSET m : Cardinality(S) \in Nat /\ Cardinality(S) <= Cardinality(m)
  BY <1>5, FS_Subset, FS_CardinalityType
<1> QED BY <1>2, <1>3, <1>4, <1>6, FS_EmptySet

LEMMA FailedSum ==
  ASSUME TypeOK, IInv, UInv, WaveDone
  PROVE  LET c == TakenBack(Counted, wave) IN Sum(c) = Sum(count) /\ c.total = count.total
<1> DEFINE n == Cardinality(ToUnenrol(wave)) + Cardinality(ToRestore(wave))
<1>1. n \in Nat /\ n <= With("migrated")
  BY TakenFromMigrated
<1>2. TakenBack(Counted, wave) = [Counted EXCEPT !.rolled_back = @ + n,
                                                 !.migrated = IF @ > n THEN @ - n ELSE 0]
  BY DEF TakenBack
<1> HIDE DEF n
<1>3. /\ Counted \in Counters /\ Counted.pending \in Int /\ Counted.migrated \in Nat
      /\ Counted.rolled_back \in Nat /\ Counted.incompatible \in Nat
  BY CountedType DEF Counters
<1>4. Counted.migrated >= n
  BY <1>1, <1>3, CountedSum, OutcomesCounted
<1>5. /\ TakenBack(Counted, wave).pending = Counted.pending
      /\ TakenBack(Counted, wave).incompatible = Counted.incompatible
      /\ TakenBack(Counted, wave).total = Counted.total
      /\ TakenBack(Counted, wave).rolled_back = Counted.rolled_back + n
      /\ TakenBack(Counted, wave).migrated = Counted.migrated - n
  BY <1>1, <1>2, <1>3, <1>4 DEF Counters
<1> QED BY <1>1, <1>3, <1>5, CountedSum DEF Sum

LEMMA InitCounts == Init => CountersAddUp
BY DEF Init, CountersAddUp

LEMMA NextCounts ==
  ASSUME Manual = FALSE, TypeOK, IInv, UInv, CountersAddUp, [Next]_vars
  PROVE  CountersAddUp'
<1>1. Sum(count) = count.total
  BY DEF CountersAddUp, Sum
<1>2. CASE Sum(count') = Sum(count) /\ count'.total = count.total
  BY <1>1, <1>2 DEF CountersAddUp, Sum
<1>3. CASE UNCHANGED vars \/ \E s \in Stations : Environment(s) /\ UNCHANGED migrationVars
  BY <1>2, <1>3 DEF vars, migrationVars
<1>4. CASE \E s \in Stations : StationStep(s)
  BY <1>2, <1>4 DEF StationStep, Skip, Defer, AskForKey, EnrolKey, MarkMigrated, FailStation,
     StageKey, CommitKey, RotationFails
<1>5. CASE Run
  <2>1. CASE BeginRun BY <1>2, <2>1 DEF BeginRun
  <2>2. CASE NextWave \/ RunCompletes
    BY <1>2, <2>2, CountedSum DEF NextWave, RunCompletes
  <2>3. CASE WaveFails BY <1>2, <2>3, FailedSum DEF WaveFails
  <2> QED BY <1>5, <2>1, <2>2, <2>3 DEF Run
<1>6. CASE Operator
  <2>1. ASSUME NEW k, NEW who \in SUBSET Stations, NEW ws, NEW cc, StartRun(k, who, ws, cc)
        PROVE  CountersAddUp'
    <3>1. Cardinality(who) \in Nat BY Count
    <3> QED BY <2>1, <3>1 DEF StartRun, CountersAddUp
  <2> QED BY <1>6, <2>1 DEF Operator, StartMigration, StartRotation, Rollback
<1> QED BY <1>3, <1>4, <1>5, <1>6 DEF Next

\* Without a rollback by hand the counters of a run add up to its stations,
\* through deferred stations and the rollback of the failed wave (_do_wave,
\* _rollback_wave).
THEOREM CountersSum == Manual = FALSE => (Spec => []CountersAddUp)
<1> SUFFICES ASSUME Manual = FALSE PROVE Spec => []CountersAddUp
  OBVIOUS
<1>1. TypeOK /\ IInv /\ UInv /\ CountersAddUp /\ [Next]_vars => CountersAddUp'
  BY NextCounts
<1> QED BY <1>1, InitCounts, TypeCorrect, Inductive, WavesUndoable, PTL DEF Spec

-----------------------------------------------------------------------------
(* The overlap window survives a second run.                               *)

\* Only the orchestrator asks for keys; Dispatch's other callers are the boot
\* checks, which send challenges (BootCheck).
Asks(r) == r.req = "enrol" /\ r.st \in {"queued", "sent"}
OnlyOrchAsks == \A s \in Stations, c \in Conns : ~Asks(call[s][c])

\* The charger holds the last two keys it made.
LastTwoHeld ==
  \A s \in Stations :
    /\ current[s] = made[s]
    /\ previous[s] = IF made[s] = 0 THEN NoKey ELSE made[s] - 1

\* A run asks a station for a key once: what was made, what the charger will
\* still read and make, what is being asked and what this run may still ask
\* add up to no more than the runs.
One(b) == IF b THEN 1 ELSE 0
Asking(s) == Asks(call[s][Orch])
Owed(s) == made[s] + late[s] + One(Asking(s))
YetToAsk(s) ==
  /\ phase \in Active
  /\ \/ task[s] = "ready"
     \/ s \in candidates /\ (wave = -1 \/ Rank(s) >= First(wave + 1))
OneKeyPerRun == \A s \in Stations : Owed(s) + One(YetToAsk(s)) <= runs

SInv == OnlyOrchAsks /\ LastTwoHeld /\ OneKeyPerRun

LEMMA OwedType ==
  ASSUME DispatchTypeOK, NEW s \in Stations
  PROVE  /\ made[s] \in Nat /\ late[s] \in Nat /\ Owed(s) \in Nat
         /\ Asking(s) \in BOOLEAN /\ made[s] <= Owed(s)
<1>1. made[s] \in Nat /\ late[s] \in Nat
  BY DispatchAssumption DEF DispatchTypeOK, DispatchAssumption
<1> QED BY <1>1 DEF Owed, One, Asking, Asks

\* A request that is given up is still owed, one that is answered is not, and
\* a closed connection takes its requests with it.
LEMMA EnvironmentOwed ==
  ASSUME DispatchTypeOK, OnlyOrchAsks, LastTwoHeld, NEW s \in Stations, Environment(s)
  PROVE  /\ OnlyOrchAsks' /\ LastTwoHeld'
         /\ \A t \in Stations : Owed(t)' <= Owed(t)
<1> DEFINE Good == /\ OnlyOrchAsks' /\ LastTwoHeld'
                   /\ \A t \in Stations : Owed(t)' <= Owed(t)
<1>0. /\ Orch \in Callers /\ Orch \notin Conns /\ Conns \subseteq Callers
      /\ Callers = {Orch} \cup Conns
      /\ \A t \in Stations, c \in Callers : call[t][c] \in Call
      /\ call \in [Stations -> [Callers -> Call]]
      /\ made \in [Stations -> Nat] /\ late \in [Stations -> Nat]
      /\ current \in [Stations -> KeyOrNone] /\ previous \in [Stations -> KeyOrNone]
  <2>1. Orch \in Callers /\ Orch \notin Conns /\ Conns \subseteq Callers
    BY DispatchAssumption DEF DispatchAssumption, Callers, Conns, Orch
  <2>2. Callers = {Orch} \cup Conns
    BY DispatchAssumption DEF DispatchAssumption, Callers, Conns, Orch
  <2>3. late \in [Stations -> Nat] /\ made \in [Stations -> Nat]
    BY DispatchAssumption DEF DispatchTypeOK, DispatchAssumption
  <2>4. /\ call \in [Stations -> [Callers -> Call]]
        /\ current \in [Stations -> KeyOrNone] /\ previous \in [Stations -> KeyOrNone]
    BY DEF DispatchTypeOK
  <2>5. \A t \in Stations, c \in Callers : call[t][c] \in Call
    BY <2>4
  <2> QED BY <2>1, <2>2, <2>3, <2>4, <2>5, Zenon
<1>1. ASSUME NEW c \in Callers, NEW new \in Call, call' = [call EXCEPT ![s][c] = new],
             Asks(new) => Asks(call[s][c])
      PROVE  /\ OnlyOrchAsks' /\ call'[s][c] = new
             /\ Asking(s)' => Asking(s)
             /\ \A t \in Stations \ {s} : call'[t][Orch] = call[t][Orch]
  <2>1. /\ call'[s][c] = new
        /\ \A t \in Stations, d \in Callers : t # s \/ d # c => call'[t][d] = call[t][d]
    BY <1>0, <1>1
  <2> QED BY <1>0, <1>1, <2>1 DEF OnlyOrchAsks, Asking
<1>2. UNCHANGED keyVars => LastTwoHeld'
  BY DEF keyVars, LastTwoHeld
<1>3. MakeKey(s) => /\ LastTwoHeld' /\ made'[s] = made[s] + 1
                    /\ \A t \in Stations \ {s} : made'[t] = made[t]
  BY <1>0 DEF MakeKey, LastTwoHeld, NoKey
<1>4. ASSUME NEW c \in Callers, OnTheWire(s, c), call[s][c].req = "enrol"
      PROVE  c = Orch /\ Asking(s)
  BY <1>0, <1>4 DEF OnTheWire, OnlyOrchAsks, Asks, Asking
<1>5. ASSUME OnlyOrchAsks', LastTwoHeld',
             made'[s] + late'[s] + One(Asking(s)') <= made[s] + late[s] + One(Asking(s)),
             \A t \in Stations \ {s} : /\ made'[t] = made[t] /\ late'[t] = late[t]
                                       /\ call'[t][Orch] = call[t][Orch]
      PROVE  Good
  <2>1. \A t \in Stations \ {s} : Owed(t)' = Owed(t)
    BY <1>5 DEF Owed, Asking
  <2>2. \A t \in Stations : Owed(t) \in Int
    BY <1>0 DEF Owed, One
  <2>3. Owed(s)' <= Owed(s)
    BY <1>5 DEF Owed
  <2> QED BY <1>5, <2>1, <2>2, <2>3
<1>6. ASSUME NEW c \in Callers, Acquire(s, c)
      PROVE  Good
  <2> DEFINE new == [call[s][c] EXCEPT !.st = "sent"]
  <2>1. /\ call' = [call EXCEPT ![s][c] = new] /\ call[s][c].st = "queued"
        /\ UNCHANGED <<made, late, keyVars>>
    BY <1>6 DEF Acquire, SetCall, keyVars
  <2>2. new \in Call
    BY <1>0, RecordType
  <2>5. new.st = "sent" /\ new.req = call[s][c].req
    BY <1>0, RecordFields
  <2> HIDE DEF new
  <2>3. /\ OnlyOrchAsks' /\ (Asking(s)' => Asking(s))
        /\ \A t \in Stations \ {s} : call'[t][Orch] = call[t][Orch]
    BY <1>1, <2>1, <2>2, <2>5 DEF Asks
  <2>4. made'[s] + late'[s] + One(Asking(s)') <= made[s] + late[s] + One(Asking(s))
    BY <1>0, <2>1, <2>3 DEF One
  <2> QED BY <1>2, <1>5, <2>1, <2>3, <2>4
<1>7. ASSUME NEW c \in Callers, GiveUp(s, c)
      PROVE  Good
  <2> DEFINE new == [call[s][c] EXCEPT !.st = "failed", !.ok = FALSE]
  <2>1. /\ call' = [call EXCEPT ![s][c] = new] /\ UNCHANGED keyVars /\ made' = made
        /\ late' = [late EXCEPT ![s] = IF OnTheWire(s, c) /\ call[s][c].req = "enrol"
                                       THEN @ + 1 ELSE @]
    BY <1>7 DEF GiveUp, SetCall, keyVars
  <2>2. new \in Call
    BY <1>0, RecordType
  <2>6. new.st = "failed"
    BY <1>0, RecordFields
  <2> HIDE DEF new
  <2>3. /\ OnlyOrchAsks' /\ call'[s][c] = new /\ (Asking(s)' => Asking(s))
        /\ \A t \in Stations \ {s} : call'[t][Orch] = call[t][Orch]
    BY <1>1, <2>1, <2>2, <2>6 DEF Asks
  <2>4. late'[s] = late[s] \/ (late'[s] = late[s] + 1 /\ Asking(s) /\ ~Asking(s)')
    <3>1. CASE OnTheWire(s, c) /\ call[s][c].req = "enrol"
      <4>1. c = Orch /\ Asking(s)
        BY <1>4, <3>1
      <4>2. ~Asking(s)'
        BY <2>3, <2>6, <4>1 DEF Asking, Asks
      <4> QED BY <1>0, <2>1, <3>1, <4>1, <4>2
    <3> QED BY <1>0, <2>1, <3>1
  <2>5. made'[s] + late'[s] + One(Asking(s)') <= made[s] + late[s] + One(Asking(s))
    BY <1>0, <2>1, <2>3, <2>4 DEF One
  <2>7. \A t \in Stations \ {s} : late'[t] = late[t]
    BY <1>0, <2>1
  <2> QED BY <1>2, <1>5, <2>1, <2>3, <2>5, <2>7
<1>8. ASSUME NEW c \in Callers, ChargerEnrols(s, c)
      PROVE  Good
  <2> DEFINE new == [call[s][c] EXCEPT !.st = "answered", !.ok = TRUE, !.key = made[s] + 1]
  <2>1. /\ call' = [call EXCEPT ![s][c] = new] /\ MakeKey(s) /\ late' = late
        /\ c = Orch /\ Asking(s)
    BY <1>4, <1>8 DEF ChargerEnrols, Answer
  <2>2. new.st = "answered"
    BY <1>0, RecordFields
  <2>3. made[s] + 1 \in KeyOrNone
    BY <1>0, <2>1, DispatchAssumption DEF MakeKey, KeyOrNone, Keys, DispatchAssumption
  <2>4. new \in Call
    BY <1>0, <2>3, RecordType
  <2> HIDE DEF new
  <2>5. /\ OnlyOrchAsks' /\ ~Asking(s)'
        /\ \A t \in Stations \ {s} : call'[t][Orch] = call[t][Orch]
    BY <1>1, <2>1, <2>2, <2>4 DEF Asking, Asks
  <2>6. made'[s] + late'[s] + One(Asking(s)') <= made[s] + late[s] + One(Asking(s))
    BY <1>0, <1>3, <2>1, <2>5 DEF One
  <2> QED BY <1>3, <1>5, <2>1, <2>5, <2>6
<1>9. ASSUME NEW c \in Callers, ChargerRefuses(s, c) \/ ChargerSigns(s, c)
      PROVE  Good
  <2>1. PICK ok \in BOOLEAN, key \in KeyOrNone :
          call' = [call EXCEPT ![s][c] = [call[s][c] EXCEPT !.st = "answered", !.ok = ok, !.key = key]]
    <3>1. call[s][c].key \in KeyOrNone /\ Holds(s, call[s][c].key) \in BOOLEAN
      BY <1>0 DEF Call, Holds
    <3> QED BY <1>9, <3>1 DEF ChargerRefuses, ChargerSigns, Answer, KeyOrNone
  <2> DEFINE new == [call[s][c] EXCEPT !.st = "answered", !.ok = ok, !.key = key]
  <2>2. UNCHANGED <<keyVars, made, late>>
    BY <1>9 DEF ChargerRefuses, ChargerSigns, keyVars
  <2>3. new \in Call
    BY <1>0, RecordType
  <2>7. new.st = "answered"
    BY <1>0, RecordFields
  <2>4. call' = [call EXCEPT ![s][c] = new]
    BY <2>1
  <2> HIDE DEF new
  <2>5. /\ OnlyOrchAsks' /\ (Asking(s)' => Asking(s))
        /\ \A t \in Stations \ {s} : call'[t][Orch] = call[t][Orch]
    BY <1>1, <2>3, <2>4, <2>7 DEF Asks
  <2>6. made'[s] + late'[s] + One(Asking(s)') <= made[s] + late[s] + One(Asking(s))
    BY <1>0, <2>2, <2>5 DEF One
  <2> QED BY <1>2, <1>5, <2>2, <2>5, <2>6
<1>10. ASSUME NEW n \in Conns, CloseSocket(s, n)
      PROVE  Good
  <2> DEFINE Rec(c) == IF call[s][c].st \in {"queued", "sent"} /\ call[s][c].conn = n
                       THEN [call[s][c] EXCEPT !.st = "failed"] ELSE call[s][c]
  <2>1. /\ call' = [call EXCEPT ![s] = [c \in Callers |-> Rec(c)]] /\ UNCHANGED <<keyVars, made>>
        /\ late' = [late EXCEPT ![s] = IF n = opened[s] THEN 0 ELSE @]
    BY <1>10 DEF CloseSocket, keyVars
  <2>2. \A c \in Callers : Rec(c) = call[s][c] \/ Rec(c).st = "failed"
    BY <1>0, RecordFields
  <2> HIDE DEF Rec
  <2>3. /\ OnlyOrchAsks' /\ call'[s][Orch] = Rec(Orch)
        /\ \A t \in Stations \ {s} : call'[t][Orch] = call[t][Orch]
    BY <1>0, <2>1, <2>2 DEF OnlyOrchAsks, Asks
  <2>4. Asking(s)' => Asking(s)
    BY <1>0, <2>2, <2>3 DEF Asking, Asks
  <2>5. made'[s] + late'[s] + One(Asking(s)') <= made[s] + late[s] + One(Asking(s))
    BY <1>0, <2>1, <2>4 DEF One
  <2> QED BY <1>0, <1>2, <1>5, <2>1, <2>3, <2>5
<1>11. CASE Dial(s) \/ ChargerEnrolsLate(s) \/ ChargerRefusesLate(s)
  <2>1. /\ call' = call /\ OnlyOrchAsks' /\ Asking(s)' = Asking(s)
        /\ MakeKey(s) \/ UNCHANGED <<keyVars, made>>
        /\ \A t \in Stations \ {s} : late'[t] = late[t]
    BY <1>0, <1>11 DEF Dial, ChargerEnrolsLate, ChargerRefusesLate, keyVars, OnlyOrchAsks, Asking
  <2>2. /\ MakeKey(s) => late'[s] = late[s] - 1
        /\ late'[s] <= late[s]
    <3>1. CASE Dial(s)
      BY <1>0, <3>1 DEF Dial, MakeKey, keyVars
    <3>2. CASE ChargerEnrolsLate(s) \/ ChargerRefusesLate(s)
      BY <1>0, <3>2 DEF ChargerEnrolsLate, ChargerRefusesLate
    <3> QED BY <1>11, <3>1, <3>2
  <2>3. /\ LastTwoHeld' /\ \A t \in Stations \ {s} : made'[t] = made[t]
        /\ MakeKey(s) => made'[s] = made[s] + 1
    BY <1>2, <1>3, <2>1
  <2>4. made'[s] + late'[s] <= made[s] + late[s]
    <3>1. CASE MakeKey(s)
      BY <1>0, <2>2, <2>3, <3>1
    <3>2. CASE made' = made
      <4>1. made[s] \in Int /\ late[s] \in Int /\ late'[s] \in Int
        BY <1>0, <1>11 DEF Dial, ChargerEnrolsLate, ChargerRefusesLate
      <4> QED BY <2>2, <3>2, <4>1
    <3> QED BY <2>1, <3>1, <3>2
  <2>5. made'[s] + late'[s] + One(Asking(s)') <= made[s] + late[s] + One(Asking(s))
    <3>1. made'[s] \in Int /\ late'[s] \in Int /\ made[s] \in Int /\ late[s] \in Int
      BY <1>0, <1>11 DEF Dial, ChargerEnrolsLate, ChargerRefusesLate, MakeKey, keyVars
    <3> QED BY <2>1, <2>4, <3>1 DEF One
  <2> QED BY <1>5, <2>1, <2>3, <2>5
<1> QED BY <1>6, <1>7, <1>8, <1>9, <1>10, <1>11 DEF Environment

\* What a step that does not reach the chargers keeps.
LEMMA OthersUntouched ==
  ASSUME UNCHANGED <<made, late, current, previous, call>>, OnlyOrchAsks, LastTwoHeld
  PROVE  OnlyOrchAsks' /\ LastTwoHeld' /\ \A s \in Stations : Owed(s)' = Owed(s)
BY DEF OnlyOrchAsks, LastTwoHeld, Owed, Asking

LEMMA EnvironmentSurvives ==
  ASSUME TypeOK, TypeOK', SInv, NEW s \in Stations, Environment(s), UNCHANGED migrationVars
  PROVE  SInv'
<1>1. DispatchTypeOK /\ DispatchTypeOK' /\ runs \in Nat /\ runs' = runs
  BY MigrationAssumption DEF TypeOK, MigrationAssumption, migrationVars, runVars
<1>2. OnlyOrchAsks' /\ LastTwoHeld' /\ \A t \in Stations : Owed(t)' <= Owed(t)
  BY <1>1, EnvironmentOwed DEF SInv
<1>3. \A t \in Stations : YetToAsk(t)' = YetToAsk(t)
  BY DEF YetToAsk, Rank, First, migrationVars, runVars, waveVars, taskVars
<1>4. \A t \in Stations : Owed(t) \in Nat /\ Owed(t)' \in Nat
  <2>1. \A t \in Stations : Owed(t) \in Nat
    BY <1>1, OwedType
  <2>2. \A t \in Stations : made'[t] \in Nat /\ late'[t] \in Nat
    BY <1>1, DispatchAssumption DEF DispatchTypeOK, DispatchAssumption
  <2> QED BY <2>1, <2>2 DEF Owed, One
<1>5. OneKeyPerRun'
  <2> SUFFICES ASSUME NEW t \in Stations
               PROVE  Owed(t)' + One(YetToAsk(t)') <= runs
    BY <1>1 DEF OneKeyPerRun
  <2>1. Owed(t) + One(YetToAsk(t)) <= runs
    BY DEF SInv, OneKeyPerRun
  <2>2. One(YetToAsk(t)) \in Int
    BY DEF One
  <2> QED BY <1>1, <1>2, <1>3, <1>4, <2>1, <2>2
<1> QED BY <1>2, <1>5 DEF SInv

\* A coroutine asks once, and only in a wave that has been opened: what it was
\* yet to ask it is asking now.
LEMMA StationSurvives ==
  ASSUME TypeOK, IInv, SInv, NEW s \in Stations, StationStep(s)
  PROVE  SInv'
<1>0. /\ Orch \in Callers /\ Orch \notin Conns
      /\ call \in [Stations -> [Callers -> Call]] /\ task \in [Stations -> TaskStates]
      /\ runs \in Nat
  <2>1. runs \in Nat
    BY MigrationAssumption DEF TypeOK, MigrationAssumption
  <2>2. call \in [Stations -> [Callers -> Call]] /\ task \in [Stations -> TaskStates]
    BY DEF TypeOK, DispatchTypeOK
  <2> QED BY <2>1, <2>2, DispatchAssumption DEF Callers, Conns, Orch, DispatchAssumption
<1>1. UNCHANGED <<made, late, current, previous, runs, candidates, size, canary, wave>>
  BY DEF StationStep, Skip, Defer, AskForKey, EnrolKey, MarkMigrated, FailStation, StageKey,
         CommitKey, RotationFails, runVars, waveVars, keyVars, dispatchVars, callVars
<1>2. ASSUME NEW new, call' = [call EXCEPT ![s][Orch] = new]
      PROVE  /\ OnlyOrchAsks' /\ call'[s][Orch] = new
             /\ \A t \in Stations \ {s} : call'[t][Orch] = call[t][Orch]
  BY <1>0, <1>2 DEF OnlyOrchAsks, Callers, SInv
<1>3. call' = call \/ \E new : call' = [call EXCEPT ![s][Orch] = new]
  BY DEF StationStep, Skip, Defer, AskForKey, EnrolKey, MarkMigrated, FailStation, StageKey,
         CommitKey, RotationFails, dispatchVars, callVars, SetCall, SendCall, TakeResult, Challenge
<1>4. OnlyOrchAsks' /\ \A t \in Stations \ {s} : call'[t][Orch] = call[t][Orch]
  BY <1>2, <1>3 DEF OnlyOrchAsks, SInv
<1>5. LastTwoHeld'
  BY <1>1 DEF SInv, LastTwoHeld
<1>6. Asking(s)' => Asking(s) \/ AskForKey(s)
  <2>1. Skip(s) \/ Defer(s) => call' = call
    BY DEF Skip, Defer, dispatchVars, callVars
  <2>2. ASSUME EnrolKey(s) \/ MarkMigrated(s) \/ FailStation(s) \/ StageKey(s) \/ CommitKey(s) \/ RotationFails(s)
        PROVE  ~Asking(s)'
    <3>1. Challenge(s) \/ TakeResult(s, Orch)
      BY <2>2 DEF EnrolKey, MarkMigrated, FailStation, StageKey, CommitKey, RotationFails
    <3>2. CASE Challenge(s)
      <4>1. PICK new : call' = [call EXCEPT ![s][Orch] = new] /\ new.req = "challenge"
        <5>1. call' = [call EXCEPT ![s][Orch] = NewCall(s, Orch, "challenge", call[s][Orch].key)]
          BY <3>2 DEF Challenge, SendCall, SetCall
        <5>2. NewCall(s, Orch, "challenge", call[s][Orch].key).req = "challenge"
          BY DEF NewCall
        <5> QED BY <5>1, <5>2, Zenon
      <4>2. call'[s][Orch] = new
        BY <1>2, <4>1, Zenon
      <4>3. call'[s][Orch].req = "challenge"
        BY <4>1, <4>2, Zenon
      <4> QED BY <4>3 DEF Asking, Asks
    <3>3. CASE TakeResult(s, Orch)
      <4>1. call'[s][Orch].st = "idle"
        BY <1>2, <3>3 DEF TakeResult, SetCall, Idle
      <4> QED BY <4>1 DEF Asking, Asks
    <3> QED BY <3>1, <3>2, <3>3
  <2> QED BY <2>1, <2>2 DEF StationStep, Asking
<1>7. /\ task'[s] # "ready" /\ \A t \in Stations \ {s} : task'[t] = task[t]
      /\ phase' \in Active => phase \in Active
  BY <1>0 DEF StationStep, Skip, Defer, AskForKey, EnrolKey, MarkMigrated, FailStation, StageKey,
              CommitKey, RotationFails, Ends, Challenge, runVars, Active
<1>8. /\ YetToAsk(s)' => YetToAsk(s)
      /\ \A t \in Stations \ {s} : YetToAsk(t)' => YetToAsk(t)
  BY <1>1, <1>7 DEF YetToAsk, Rank, First
<1>9. AskForKey(s) => YetToAsk(s) /\ ~YetToAsk(s)'
  <2> SUFFICES ASSUME AskForKey(s) PROVE YetToAsk(s) /\ ~YetToAsk(s)'
    OBVIOUS
  <2>1. phase \in Active /\ wave >= 0 /\ s \in Wave(wave) /\ task[s] = "ready"
    BY DEF AskForKey, IInv, BusyInWave, Working
  <2>2. wave' # -1 /\ Rank(s)' = Rank(s) /\ First(wave + 1)' = First(wave + 1)
    BY <1>1, <2>1 DEF Rank, First
  <2>3. ~(Rank(s) >= First(wave + 1))
    BY <2>1, FirstType, RankType DEF Wave, TypeOK
  <2> QED BY <1>7, <2>1, <2>2, <2>3 DEF YetToAsk
<1>10. \A t \in Stations : made[t] \in Nat /\ late[t] \in Nat
  BY OwedType DEF TypeOK
<1>11. ASSUME NEW t \in Stations
       PROVE  Owed(t)' + One(YetToAsk(t)') <= runs
  <2>1. made[t] + late[t] + One(Asking(t)) + One(YetToAsk(t)) <= runs
    BY DEF SInv, OneKeyPerRun, Owed
  <2>2. made'[t] = made[t] /\ late'[t] = late[t]
    BY <1>1
  <2>3. CASE t # s
    <3>1. Asking(t)' = Asking(t) /\ (YetToAsk(t)' => YetToAsk(t))
      BY <1>4, <1>8, <2>3 DEF Asking
    <3> QED BY <1>0, <1>10, <2>1, <2>2, <3>1 DEF Owed, One
  <2>4. CASE t = s /\ AskForKey(s)
    <3>1. YetToAsk(t) /\ ~YetToAsk(t)'
      BY <1>9, <2>4
    <3> QED BY <1>0, <1>10, <2>1, <2>2, <3>1 DEF Owed, One
  <2>5. CASE t = s /\ ~AskForKey(s)
    <3>1. (Asking(t)' => Asking(t)) /\ (YetToAsk(t)' => YetToAsk(t))
      BY <1>6, <1>8, <2>5
    <3> QED BY <1>0, <1>10, <2>1, <2>2, <3>1 DEF Owed, One
  <2> QED BY <2>3, <2>4, <2>5
<1> QED BY <1>1, <1>4, <1>5, <1>11 DEF SInv, OneKeyPerRun

\* A run that starts may ask everybody once more; a wave that starts was yet to
\* be asked.
LEMMA RunSurvives ==
  ASSUME TypeOK, TypeOK', IInv, SInv, Operator \/ Run
  PROVE  SInv'
<1>0. runs \in Nat /\ \A s \in Stations : Owed(s) \in Nat
  BY OwedType, MigrationAssumption DEF TypeOK, MigrationAssumption
<1>1. UNCHANGED <<made, late, current, previous, call>>
  BY DEF Operator, StartMigration, StartRotation, StartRun, Rollback, Run, BeginRun, NextWave,
         RunCompletes, WaveFails, dispatchVars, callVars, keyVars
<1>2. OnlyOrchAsks' /\ LastTwoHeld' /\ \A s \in Stations : Owed(s)' = Owed(s)
  BY <1>1, OthersUntouched DEF SInv
<1>3. ASSUME runs' = runs, \A s \in Stations : YetToAsk(s)' => YetToAsk(s)
      PROVE  SInv'
  <2> SUFFICES ASSUME NEW s \in Stations
               PROVE  Owed(s)' + One(YetToAsk(s)') <= runs
    BY <1>2, <1>3 DEF SInv, OneKeyPerRun
  <2>1. Owed(s) + One(YetToAsk(s)) <= runs
    BY DEF SInv, OneKeyPerRun
  <2> QED BY <1>0, <1>2, <1>3, <2>1 DEF One
<1>4. ASSUME runs' = runs + 1, phase \notin Active
      PROVE  SInv'
  <2> SUFFICES ASSUME NEW s \in Stations
               PROVE  Owed(s)' + One(YetToAsk(s)') <= runs + 1
    BY <1>2, <1>4 DEF SInv, OneKeyPerRun
  <2>1. Owed(s) + One(YetToAsk(s)) <= runs
    BY DEF SInv, OneKeyPerRun
  <2> QED BY <1>0, <1>2, <2>1 DEF One
<1>5. CASE Operator
  <2>1. ASSUME NEW w \in WaveIds, Rollback(w)
        PROVE  SInv'
    <3>1. UNCHANGED <<runs, phase, task, candidates, size, canary, wave>>
      BY <2>1 DEF Rollback, runVars, taskVars
    <3> QED BY <1>3, <3>1 DEF YetToAsk, Rank, First
  <2> QED BY <1>4, <1>5, <2>1 DEF Operator, StartMigration, StartRotation, StartRun
<1>6. CASE BeginRun
  <2>1. /\ UNCHANGED <<runs, phase, candidates, size, canary>> /\ wave = -1 /\ phase \in Active
        /\ \A s \in Stations : task'[s] = "ready" => s \in candidates
    BY <1>6 DEF BeginRun, BeginWave, runVars, Wave
  <2> QED BY <1>3, <2>1 DEF YetToAsk
<1>7. CASE NextWave
  <2>1. /\ UNCHANGED <<runs, candidates, size, canary>> /\ phase \in Active /\ wave >= 0
        /\ wave' = wave + 1
        /\ \A s \in Stations : task'[s] = "ready" => s \in Wave(wave + 1)
    BY <1>7 DEF NextWave, WaveDone, BeginWave
  <2>2. ASSUME NEW s \in Stations, YetToAsk(s)'
        PROVE  YetToAsk(s)
    <3>1. CASE task'[s] = "ready"
      BY <2>1, <3>1 DEF Wave, YetToAsk
    <3>2. CASE task'[s] # "ready"
      <4>1. s \in candidates /\ Rank(s)' = Rank(s) /\ Rank(s) \in Nat
        BY <2>1, <2>2, <3>2, RankType DEF YetToAsk, Rank, TypeOK
      <4>2. Rank(s)' >= First(wave + 1)' /\ s \notin Opened'
        <5>1. wave' # -1
          BY <2>1 DEF TypeOK, WaveIds
        <5>2. Rank(s)' >= First(wave + 1)'
          BY <2>2, <3>2, <5>1 DEF YetToAsk
        <5>3. First(wave + 1)' \in Int
          <6>1. wave' >= 0 /\ wave' \in Int /\ size' \in Int /\ canary' \in Int
            BY <2>1, Count DEF TypeOK, WaveIds
          <6>2. First(wave + 1)' = canary' + wave' * size'
            <7>1. \A a \in Int : a >= 0 => a + 1 # 0 /\ (a + 1) - 1 = a
              OBVIOUS
            <7>2. wave' + 1 # 0 /\ (wave' + 1) - 1 = wave'
              BY <6>1, <7>1
            <7> QED BY <7>2 DEF First
          <6>3. \A a, b, c \in Int : a + b * c \in Int
            OBVIOUS
          <6> QED BY <6>1, <6>2, <6>3
        <5> QED BY <4>1, <5>2, <5>3 DEF Opened
      <4>3. s \notin Opened
        BY <1>7, <4>2, OpenedGrows
      <4>4. Rank(s) >= First(wave + 1)
        BY <2>1, <4>1, <4>3, FirstType DEF Opened
      <4> QED BY <2>1, <4>1, <4>4 DEF YetToAsk
    <3> QED BY <3>1, <3>2
  <2> QED BY <1>3, <2>1, <2>2
<1>8. CASE RunCompletes \/ WaveFails
  <2>1. runs' = runs /\ phase' \notin Active
    BY <1>8 DEF RunCompletes, WaveFails, Active
  <2> QED BY <1>3, <2>1 DEF YetToAsk
<1> QED BY <1>5, <1>6, <1>7, <1>8 DEF Run

LEMMA InitSurvives == Init => SInv
<1> SUFFICES ASSUME Init PROVE SInv
  OBVIOUS
<1>1. /\ OnlyOrchAsks /\ LastTwoHeld /\ runs = 0 /\ phase = "idle"
      /\ \A s \in Stations : made[s] = 0 /\ late[s] = 0 /\ call[s][Orch].st = "idle"
  BY DEF Init, DispatchInit, OnlyOrchAsks, Asks, LastTwoHeld, Idle, Callers, Conns, NoKey
<1>2. \A s \in Stations : ~Asking(s) /\ ~YetToAsk(s)
  BY <1>1 DEF Asking, Asks, YetToAsk, Active
<1> QED BY <1>1, <1>2 DEF SInv, OneKeyPerRun, Owed, One

LEMMA NextSurvives == TypeOK /\ TypeOK' /\ IInv /\ SInv /\ [Next]_vars => SInv'
<1> SUFFICES ASSUME TypeOK, TypeOK', IInv, SInv, [Next]_vars PROVE SInv'
  OBVIOUS
<1>1. CASE UNCHANGED vars
  BY <1>1 DEF vars, dispatchVars, callVars, keyVars, migrationVars, runVars, waveVars, taskVars,
              SInv, OnlyOrchAsks, LastTwoHeld, OneKeyPerRun, Owed, Asking, YetToAsk, Rank, First
<1> QED BY <1>1, EnvironmentSurvives, StationSurvives, RunSurvives DEF Next

\* No run makes a charger throw away a key the server may still challenge:
\* SInv holds throughout (PQIdentity.enrol, MigrationOrchestrator._do_wave,
\* CommandDispatcher.send).
THEOREM KeysCounted == Spec => []SInv
BY InitSurvives, NextSurvives, TypeCorrect, Inductive, PTL DEF Spec

\* After two runs the server's key is one of the last two the charger made.
LEMMA SurvivesSays == TypeOK /\ MigratedIsProven /\ FreshKeys /\ SInv => OneRotationSurvived
<1> SUFFICES ASSUME TypeOK, MigratedIsProven, FreshKeys, SInv, runs <= 2,
                    NEW s \in Stations, mstate[s] = "migrated"
             PROVE  Holds(s, enrolled[s])
  BY DEF OneRotationSurvived, IdentityHeld
<1>1. enrolled[s] # NoKey /\ enrolled[s] \in Nat /\ enrolled[s] <= made[s]
  BY DispatchAssumption
     DEF MigratedIsProven, FreshKeys, KeysMade, TypeOK, KeyOrNone, Keys, NoKey, DispatchAssumption
<1>2. made[s] \in Nat /\ made[s] <= Owed(s) /\ Owed(s) \in Nat
  BY OwedType DEF TypeOK
<1>3. Owed(s) + One(YetToAsk(s)) <= 2
  <2>1. Owed(s) + One(YetToAsk(s)) <= runs /\ runs \in Nat
    BY MigrationAssumption DEF SInv, OneKeyPerRun, TypeOK, MigrationAssumption
  <2> QED BY <1>2, <2>1 DEF One
<1>4. made[s] <= 2
  BY <1>2, <1>3 DEF One
<1>5. enrolled[s] = made[s] \/ (enrolled[s] = made[s] - 1 /\ made[s] # 0)
  BY <1>1, <1>2, <1>4 DEF NoKey
<1>6. current[s] = made[s] /\ (made[s] # 0 => previous[s] = made[s] - 1)
  BY DEF SInv, LastTwoHeld
<1> QED BY <1>1, <1>5, <1>6 DEF Holds

\* The overlap window: a charger keeps two key pairs, and through a station's
\* migration and one further run -- failed, rolled back, or obeyed after the
\* server gave up -- the key the server holds is one of the two
\* (agent/pq_identity.py, PQAuthenticator.commit_staged, _rollback_wave).
THEOREM RotationSurvived == Spec => []OneRotationSurvived
BY SurvivesSays, TypeCorrect, MigratedProven, KeysAreNew, KeysCounted, PTL

-----------------------------------------------------------------------------
(* A server that dies.  The inductive invariant.                           *)

\* What is neither queued nor lost is on the disk as it is in memory.
DiskFollows ==
  \A s \in Stations :
    /\ s \notin dirtyKeys \cup lostKeys => disk[s].key = enrolled[s]
    /\ s \notin dirtyRecords \cup lostRecords => /\ disk[s].state = mstate[s]
                                                /\ disk[s].algorithm = algorithm[s]

\* Unless a flush failed, the rows of a station are ones it had together.
DiskSound ==
  \A s \in Stations :
    /\ disk[s].key # NoKey => s \in Capable
    /\ disk[s].state = "migrated" => disk[s].key \in proved[s]
    /\ disk[s].state \in {"pending", "rolled_back", "incompatible"} => disk[s].key = NoKey

NothingLost == lostKeys = {} /\ lostRecords = {}

\* A station in progress is in hand, or a kill caught it in progress.
InHandOrInterrupted == \A s \in Stations : s \in interrupted \/ InHand(s)

RInv ==
  /\ DiskFollows /\ DiskIsOneMoment
  /\ fails = 0 => NothingLost /\ DiskSound /\ Sound /\ InHandOrInterrupted

-----------------------------------------------------------------------------
(* The steps of a migration, and what they queue.                          *)

\* Every step but a flush and a restart is one of Migration.
LEMMA StepsOfMigration ==
  /\ OperatorSaves => Operator
  /\ WaveSaves => Run
  /\ \A s \in Stations : StationSaves(s) => StationStep(s)
<1>1. OperatorSaves => Operator
  BY DEF OperatorSaves, Operator
<1>2. WaveSaves => Run
  BY DEF WaveSaves, Run
<1>3. \A s \in Stations : StationSaves(s) => StationStep(s)
  BY DEF StationSaves, StationStep
<1> QED BY <1>1, <1>2, <1>3

\* A step that changes a key or a record of a station queues it, and touches
\* nothing that is stored.
Queued ==
  /\ dirtyKeys \subseteq dirtyKeys' /\ dirtyRecords \subseteq dirtyRecords'
  /\ dirtyKeys' \subseteq Stations /\ dirtyRecords' \subseteq Stations
  /\ \A t \in Stations \ dirtyKeys' : enrolled'[t] = enrolled[t]
  /\ \A t \in Stations \ dirtyRecords' : mstate'[t] = mstate[t] /\ algorithm'[t] = algorithm[t]
  /\ interrupted' \subseteq interrupted
  /\ UNCHANGED <<disk, kills, fails, saved, lostKeys, lostRecords>>

\* A rollback queues the stations it un-enrols and those it gives an old key.
LEMMA UndoQueued ==
  ASSUME RestartTypeOK, NEW w \in WaveIds, Undo(w), Undone(w), UNCHANGED <<algorithm, disk, historyVars>>
  PROVE  Queued
<1>1. ToUnenrol(w) \subseteq Stations /\ ToRestore(w) \subseteq Stations
  BY DEF ToUnenrol, ToRestore, RestartTypeOK, TypeOK
<1>2. /\ dirtyKeys' = dirtyKeys \cup (ToUnenrol(w) \cup ToRestore(w))
      /\ dirtyRecords' = dirtyRecords \cup ToUnenrol(w)
  BY DEF Undone, Queue
<1>3. \A t \in Stations : /\ t \notin ToUnenrol(w) \cup ToRestore(w) => enrolled'[t] = enrolled[t]
                          /\ t \notin ToUnenrol(w) => mstate'[t] = mstate[t]
  BY DEF Undo
<1> QED BY <1>1, <1>2, <1>3 DEF Queued, historyVars, lossVars, RestartTypeOK

LEMMA WavesQueued ==
  ASSUME RestartTypeOK, OperatorSaves \/ WaveSaves
  PROVE  Queued
<1>1. ASSUME UNCHANGED <<enrolled, mstate, algorithm, diskVars, historyVars>>
      PROVE  Queued
  BY <1>1 DEF Queued, diskVars, historyVars, lossVars, RestartTypeOK
<1>2. CASE OperatorSaves
  <2>1. ASSUME NEW ws \in WaveSizes, NEW cc \in CanaryCounts,
               StartMigration(ws, cc) \/ StartRotation(ws, cc)
        PROVE  UNCHANGED <<enrolled, mstate, algorithm>>
    BY <2>1 DEF StartMigration, StartRotation, StartRun, authVars, recordVars
  <2>2. ASSUME NEW w \in WaveIds, Rollback(w)
        PROVE  Undo(w) /\ UNCHANGED algorithm
    BY <2>2 DEF Rollback
  <2> QED BY <1>1, <1>2, <2>1, <2>2, UndoQueued DEF OperatorSaves
<1>3. CASE WaveSaves
  <2>1. BeginRun \/ NextWave \/ RunCompletes => UNCHANGED <<enrolled, mstate, algorithm>>
    BY DEF BeginRun, NextWave, RunCompletes, authVars, recordVars
  <2>2. WaveFails => Undo(wave) /\ wave \in WaveIds /\ UNCHANGED algorithm
    BY ActiveWave DEF WaveFails, WaveDone, RestartTypeOK
  <2> QED BY <1>1, <1>3, <2>1, <2>2, UndoQueued DEF WaveSaves
<1> QED BY <1>2, <1>3

LEMMA StationQueued ==
  ASSUME RestartTypeOK, NEW s \in Stations, StationSaves(s)
  PROVE  Queued
<1> USE DEF historyVars, lossVars, diskVars, authVars, recordVars, Queue
<1>1. dirtyKeys \subseteq Stations /\ dirtyRecords \subseteq Stations
  BY DEF RestartTypeOK
<1>2. enrolled \in [Stations -> KeyOrNone] /\ mstate \in [Stations -> MigrationState]
      /\ algorithm \in [Stations -> {"classical", "ML-DSA"}]
  BY DEF RestartTypeOK, TypeOK
<1>3. CASE EnrolKey(s) /\ Queue({s}, {}) /\ UNCHANGED <<disk, historyVars>>
  BY <1>1, <1>2, <1>3 DEF EnrolKey, Queued
<1>4. CASE FailStation(s) /\ Queue({s}, {s}) /\ UNCHANGED <<disk, historyVars>>
  BY <1>1, <1>2, <1>4 DEF FailStation, Unenrol, Queued
<1>5. CASE CommitKey(s) /\ Queue({s}, {s}) /\ UNCHANGED <<disk, historyVars>>
  BY <1>1, <1>2, <1>5 DEF CommitKey, Queued
<1>6. CASE /\ Skip(s) \/ MarkMigrated(s)
           /\ Queue({}, {s})
           /\ interrupted' = interrupted \ {s}
           /\ UNCHANGED <<disk, kills, fails, saved, lossVars>>
  BY <1>1, <1>2, <1>6 DEF Skip, MarkMigrated, Queued
<1>7. CASE /\ AskForKey(s)
           /\ Queue({}, IF kind = "migration" THEN {s} ELSE {})
           /\ interrupted' = IF kind = "migration" THEN interrupted \ {s} ELSE interrupted
           /\ UNCHANGED <<disk, kills, fails, saved, lossVars>>
  <2>1. kind # "migration" => mstate' = mstate
    BY <1>2, <1>7 DEF AskForKey
  <2> QED BY <1>1, <1>2, <1>7, <2>1 DEF AskForKey, Queued
<1>8. CASE (Defer(s) \/ StageKey(s) \/ RotationFails(s)) /\ UNCHANGED <<diskVars, historyVars>>
  BY <1>1, <1>8 DEF Defer, StageKey, RotationFails, Queued
<1> QED BY <1>3, <1>4, <1>5, <1>6, <1>7, <1>8 DEF StationSaves

-----------------------------------------------------------------------------
(* Type correctness.                                                       *)

\* What a step that only queues leaves of the types.
LEMMA QueuedType == RestartTypeOK /\ Queued /\ TypeOK' => RestartTypeOK'
BY DEF RestartTypeOK, Queued

LEMMA RowType ==
  ASSUME RestartTypeOK, NEW s \in Stations
  PROVE  InMemory(s) \in Row /\ Written(s) \in Row
<1>1. disk[s] \in Row /\ enrolled[s] \in KeyOrNone /\ mstate[s] \in MigrationState
      /\ algorithm[s] \in {"classical", "ML-DSA"}
  BY DEF RestartTypeOK, TypeOK
<1>2. disk[s].key \in KeyOrNone /\ disk[s].state \in MigrationState
      /\ disk[s].algorithm \in {"classical", "ML-DSA"}
  BY <1>1 DEF Row
<1> QED BY <1>1, <1>2 DEF InMemory, Written, Row

LEMMA NewControllerType ==
  ASSUME RestartTypeOK, Restart
  PROVE  TypeOK'
<1>1. \A s \in Stations : /\ disk[s].key \in KeyOrNone /\ disk[s].state \in MigrationState
                          /\ disk[s].algorithm \in {"classical", "ML-DSA"}
  <2>1. \A r \in Row : /\ r.key \in KeyOrNone /\ r.state \in MigrationState
                       /\ r.algorithm \in {"classical", "ML-DSA"}
    BY DEF Row
  <2> QED BY <2>1 DEF RestartTypeOK
<1>2. [s \in Stations |-> [c \in Callers |-> Idle]] \in [Stations -> [Callers -> Call]]
  BY IdleType
<1>3. DispatchTypeOK'
  BY <1>2 DEF Restart, NoSockets, RestartTypeOK, TypeOK, DispatchTypeOK, keyVars
<1>4. /\ enrolled' \in [Stations -> KeyOrNone]
      /\ mstate' \in [Stations -> MigrationState]
      /\ algorithm' \in [Stations -> {"classical", "ML-DSA"}]
  BY <1>1 DEF Restart, NewController, Restored
<1>5. /\ before' \in [Stations -> [key : KeyOrNone, state : MigrationState]]
      /\ count' \in Counters
      /\ rotatedIn' \in [WaveIds -> [Stations -> KeyOrNone]]
  BY DEF Restart, NewController, KeyOrNone, MigrationState, Counters, NoneRotated
<1> QED BY <1>3, <1>4, <1>5 DEF Restart, NewController, RestartTypeOK, TypeOK, KeyOrNone,
        MigrationPhase, TaskStates

LEMMA RestartInitType == RestartInit => RestartTypeOK
<1> SUFFICES ASSUME RestartInit PROVE RestartTypeOK
  OBVIOUS
<1>1. NewRow \in Row
  BY DEF NewRow, Row, KeyOrNone, MigrationState
<1>2. TypeOK
  BY InitType DEF RestartInit
<1> QED BY <1>1, <1>2, RestartAssumption DEF RestartInit, RestartTypeOK, RestartAssumption

LEMMA RestartNextType == RestartTypeOK /\ [RestartNext]_restartVars => RestartTypeOK'
<1> SUFFICES ASSUME RestartTypeOK, [RestartNext]_restartVars PROVE RestartTypeOK'
  OBVIOUS
<1>0. TypeOK
  BY DEF RestartTypeOK
<1>1. CASE OperatorSaves \/ WaveSaves
  BY <1>0, <1>1, StepsOfMigration, WavesQueued, RunType, QueuedType
<1>2. ASSUME NEW s \in Stations, StationSaves(s)
      PROVE  RestartTypeOK'
  BY <1>0, <1>2, StepsOfMigration, StationQueued, StationType, QueuedType
<1>3. ASSUME NEW s \in Stations, Environment(s), UNCHANGED <<migrationVars, diskVars, historyVars>>
      PROVE  RestartTypeOK'
  <2>1. [Next]_vars
    BY <1>3 DEF Next
  <2>2. TypeOK'
    BY <1>0, <2>1, NextType
  <2> QED BY <1>3, <2>2 DEF RestartTypeOK, diskVars, historyVars, lossVars
<1>4. CASE Flush
  <2>1. TypeOK'
    BY <1>0, <1>4, NextType DEF Flush
  <2>2. disk' \in [Stations -> Row] /\ saved' \in [Stations -> Row]
    BY <1>4, RowType DEF Flush
  <2> QED BY <1>4, <2>1, <2>2 DEF Flush, RestartTypeOK
<1>5. CASE FlushFails
  <2>1. TypeOK'
    BY <1>0, <1>5, NextType DEF FlushFails
  <2>2. fails' \in 0..MaxFails
    BY <1>5, RestartAssumption DEF FlushFails, RestartTypeOK, RestartAssumption
  <2> QED BY <1>5, <2>1, <2>2 DEF FlushFails, RestartTypeOK
<1>6. CASE Restart
  <2>1. kills' \in 0..MaxKills
    BY <1>6, RestartAssumption DEF Restart, RestartTypeOK, RestartAssumption
  <2> QED BY <1>6, <2>1, NewControllerType DEF Restart, RestartTypeOK
<1>7. CASE UNCHANGED restartVars
  <2>1. TypeOK'
    BY <1>0, <1>7, NextType DEF restartVars
  <2> QED BY <1>7, <2>1 DEF restartVars, diskVars, historyVars, lossVars, RestartTypeOK
<1> QED BY <1>1, <1>2, <1>3, <1>4, <1>5, <1>6, <1>7 DEF RestartNext

\* Every variable has its type, whatever is killed and whichever flush fails.
THEOREM RestartTypeCorrect == RestartSpec => []RestartTypeOK
BY RestartInitType, RestartNextType, PTL DEF RestartSpec

-----------------------------------------------------------------------------
(* The invariant holds at first and every step keeps it.                   *)

LEMMA RestartInitInv == RestartInit => RInv
<1> SUFFICES ASSUME RestartInit PROVE RInv
  OBVIOUS
<1>1. Sound
  BY InitSound DEF RestartInit
<1>2. \A s \in Stations : mstate[s] = "pending" /\ enrolled[s] = NoKey /\ algorithm[s] = "classical"
  BY DEF RestartInit, Init
<1>3. DiskFollows /\ DiskIsOneMoment /\ NothingLost /\ DiskSound /\ InHandOrInterrupted
  BY <1>2 DEF RestartInit, NewRow, DiskFollows, DiskIsOneMoment, NothingLost, DiskSound,
     InHandOrInterrupted, InHand
<1> QED BY <1>1, <1>3 DEF RInv

\* A step that only queues leaves the disk behind by what it queued.
LEMMA QueuedDisk ==
  ASSUME Queued
  PROVE  /\ DiskFollows => DiskFollows'
         /\ DiskIsOneMoment => DiskIsOneMoment'
         /\ NothingLost => NothingLost'
         /\ fails' = fails
BY DEF Queued, DiskFollows, DiskIsOneMoment, NothingLost

\* What is proven stays so.
LEMMA QueuedSound ==
  ASSUME Queued, DiskSound, \A s \in Stations : proved[s] \subseteq proved'[s]
  PROVE  DiskSound'
BY DEF Queued, DiskSound

LEMMA ProvedGrows ==
  ASSUME TypeOK, (\E s \in Stations : StationStep(s)) \/ Run \/ Operator
  PROVE  \A t \in Stations : proved[t] \subseteq proved'[t]
<1>1. ASSUME NEW s \in Stations, StationStep(s), NEW t \in Stations
      PROVE  proved[t] \subseteq proved'[t]
  <2>1. proved \in [Stations -> SUBSET Keys] => \A x :
          proved' = [proved EXCEPT ![s] = @ \cup x] => proved[t] \subseteq proved'[t]
    OBVIOUS
  <2>2. CASE MarkMigrated(s) \/ CommitKey(s)
    BY <2>1, <2>2 DEF MarkMigrated, CommitKey, TypeOK
  <2>3. CASE ~(MarkMigrated(s) \/ CommitKey(s))
    <3>1. proved' = proved
      BY <1>1, <2>3 DEF StationStep, Skip, Defer, AskForKey, EnrolKey, FailStation, StageKey,
         RotationFails
    <3> QED BY <3>1
  <2> QED BY <2>2, <2>3
<1>2. Run \/ Operator => proved' = proved
  BY DEF Run, BeginRun, NextWave, RunCompletes, WaveFails, Operator, StartMigration,
     StartRotation, StartRun, Rollback
<1> QED BY <1>1, <1>2

\* A server that was started again works on nothing; what it holds is sound
\* because the disk is.
LEMMA RestartSound ==
  ASSUME RestartTypeOK, DiskSound, Restart
  PROVE  Sound' /\ InHandOrInterrupted'
<1> USE DEF Restart, NewController
<1>1. \A s \in Stations : /\ enrolled'[s] = disk[s].key /\ mstate'[s] = disk[s].state
                          /\ staged'[s] = NoKey /\ nonce'[s] = {} /\ oldKey'[s] = NoKey
                          /\ task'[s] = "none" /\ disk[s].state \in MigrationState
                          /\ proved'[s] = proved[s] /\ proved[s] \subseteq Keys
  <2>1. \A r \in Row : r.state \in MigrationState
    BY DEF Row
  <2> QED BY <2>1 DEF Restored, RestartTypeOK, TypeOK
<1>2. /\ \A w \in WaveIds, s \in Stations : s \notin enrolledIn'[w] /\ rotatedIn'[w][s] = NoKey
      /\ kind' = "migration" /\ phase' = "idle" /\ wave' = -1
  BY DEF NoneRotated
<1>3. BusyInWave' /\ UndoInWave' /\ UndoKinds' /\ RotationKeyed' /\ StagedOnlyInWindow' /\ NeverFailed'
  BY <1>1, <1>2 DEF BusyInWave, Working, UndoInWave, Undoable, UndoKinds, RotationKeyed,
     StagedOnlyInWindow, NeverFailed
<1>4. TaskKnows' /\ EnrolledCapable' /\ MigratedIsProven' /\ KeysByState'
  <2>1. TaskKnows'
    BY <1>1, <1>2 DEF TaskKnows
  <2>2. EnrolledCapable' /\ KeysByState'
    BY <1>1 DEF DiskSound, EnrolledCapable, KeysByState
  <2>3. MigratedIsProven'
    BY <1>1, DispatchAssumption
       DEF DiskSound, MigratedIsProven, Keys, NoKey, DispatchAssumption
  <2> QED BY <2>1, <2>2, <2>3
<1>5. InHandOrInterrupted'
  BY <1>1 DEF InHandOrInterrupted, InHand
<1> QED BY <1>3, <1>4, <1>5 DEF Sound

\* The rows a flush writes are those in memory, when none was lost before.
LEMMA FlushSound ==
  ASSUME RestartTypeOK, DiskFollows, NothingLost, Sound, Flush
  PROVE  DiskSound' /\ NothingLost'
<1>1. \A s \in Stations : disk'[s].key = enrolled[s] /\ disk'[s].state = mstate[s]
  BY DEF DiskFollows, NothingLost, Flush, Written
<1>2. UNCHANGED proved
  BY DEF Flush, vars, migrationVars
<1> QED BY <1>1, <1>2 DEF DiskSound, NothingLost, Flush, Sound, EnrolledCapable,
           MigratedIsProven, KeysByState

LEMMA FlushDisk ==
  ASSUME RestartTypeOK, DiskFollows, DiskIsOneMoment, Flush \/ FlushFails
  PROVE  DiskFollows' /\ DiskIsOneMoment'
<1>1. UNCHANGED <<enrolled, mstate, algorithm>>
  BY DEF Flush, FlushFails, vars, migrationVars, authVars, recordVars
<1>2. CASE Flush
  <2>1. \A s \in Stations :
          /\ disk'[s].key = IF s \in dirtyKeys THEN enrolled[s] ELSE disk[s].key
          /\ disk'[s].state = IF s \in dirtyRecords THEN mstate[s] ELSE disk[s].state
          /\ disk'[s].algorithm = IF s \in dirtyRecords THEN algorithm[s] ELSE disk[s].algorithm
          /\ saved'[s].key = enrolled[s] /\ saved'[s].state = mstate[s]
          /\ saved'[s].algorithm = algorithm[s]
    BY <1>2 DEF Flush, Written, InMemory
  <2>2. dirtyKeys' = {} /\ dirtyRecords' = {}
        /\ lostKeys' = lostKeys \ dirtyKeys /\ lostRecords' = lostRecords \ dirtyRecords
    BY <1>2 DEF Flush
  <2> QED BY <1>1, <2>1, <2>2 DEF DiskFollows, DiskIsOneMoment
<1>3. CASE FlushFails
  BY <1>1, <1>3 DEF FlushFails, DiskFollows, DiskIsOneMoment
<1> QED BY <1>2, <1>3

LEMMA RestartDisk ==
  ASSUME RestartTypeOK, Restart
  PROVE  DiskFollows' /\ DiskIsOneMoment' /\ NothingLost' /\ UNCHANGED <<disk, fails, proved>>
BY DEF Restart, NewController, Restored, DiskFollows, DiskIsOneMoment, NothingLost

LEMMA RestartNextInv == RestartTypeOK /\ RInv /\ [RestartNext]_restartVars => RInv'
<1> SUFFICES ASSUME RestartTypeOK, RInv, [RestartNext]_restartVars PROVE RInv'
  OBVIOUS
<1>0. TypeOK /\ DiskFollows /\ DiskIsOneMoment
  BY DEF RestartTypeOK, RInv
<1>1. CASE OperatorSaves \/ WaveSaves
  <2>1. Queued /\ (Run \/ Operator)
    BY <1>1, WavesQueued, StepsOfMigration
  <2>2. interrupted' = interrupted
    BY <1>1 DEF OperatorSaves, WaveSaves, historyVars
  <2>3. fails = 0 => Sound' /\ DiskSound'
    BY <1>0, <2>1, OperatorSound, RunSound, ProvedGrows, QueuedSound DEF RInv
  <2>4. fails = 0 => InHandOrInterrupted'
    BY <1>0, <2>1, <2>2, RunInHand DEF RInv, InHandOrInterrupted
  <2> QED BY <1>0, <2>1, <2>3, <2>4, QueuedDisk DEF RInv
<1>2. ASSUME NEW s \in Stations, StationSaves(s)
      PROVE  RInv'
  <2>1. Queued /\ StationStep(s)
    BY <1>2, StationQueued, StepsOfMigration
  <2>2. fails = 0 => Sound' /\ DiskSound'
    BY <1>0, <2>1, StationSound, ProvedGrows, QueuedSound DEF RInv
  <2>3. ASSUME fails = 0, NEW t \in Stations, t \notin interrupted'
        PROVE  InHand(t)'
    <3>1. CASE t \notin interrupted
      BY <1>0, <2>1, <2>3, <3>1, StationInHand DEF RInv, InHandOrInterrupted
    <3>2. CASE t \in interrupted
      <4>1. t = s /\ (Skip(s) \/ MarkMigrated(s) \/ (AskForKey(s) /\ kind = "migration"))
        BY <1>2, <2>3, <3>2 DEF StationSaves, historyVars
      <4> QED BY <1>0, <2>1, <2>3, <4>1, StationInHand DEF RInv
    <3> QED BY <3>1, <3>2
  <2> QED BY <1>0, <2>1, <2>2, <2>3, QueuedDisk DEF RInv, InHandOrInterrupted
<1>3. CASE \/ UNCHANGED restartVars
           \/ \E s \in Stations : Environment(s) /\ UNCHANGED <<migrationVars, diskVars, historyVars>>
  <2>1. UNCHANGED <<migrationVars, diskVars, historyVars>>
    BY <1>3 DEF restartVars, vars
  <2>2. UNCHANGED <<enrolled, mstate, algorithm, proved, disk, dirtyKeys, dirtyRecords,
                    fails, saved, lostKeys, lostRecords, interrupted>>
    BY <2>1 DEF migrationVars, authVars, recordVars, diskVars, historyVars, lossVars
  <2>3. Sound => Sound'
    BY <2>1, StutterSound DEF migrationVars, recordVars, runVars, waveVars
  <2>4. InHandOrInterrupted => InHandOrInterrupted'
    BY <2>1, <2>2 DEF InHandOrInterrupted, InHand, migrationVars, runVars, taskVars
  <2>5. /\ DiskFollows' /\ DiskIsOneMoment'
        /\ NothingLost => NothingLost'
        /\ DiskSound => DiskSound'
    BY <1>0, <2>2 DEF DiskFollows, DiskIsOneMoment, NothingLost, DiskSound
  <2> QED BY <2>2, <2>3, <2>4, <2>5 DEF RInv
<1>4. CASE Flush
  <2>1. UNCHANGED <<vars, fails, interrupted>>
    BY <1>4 DEF Flush
  <2>2. Sound => Sound'
    BY <2>1, StutterSound DEF vars, migrationVars, recordVars, runVars, waveVars
  <2>3. InHandOrInterrupted => InHandOrInterrupted'
    BY <2>1 DEF InHandOrInterrupted, InHand, vars, migrationVars, recordVars, runVars, taskVars
  <2> QED BY <1>0, <1>4, <2>1, <2>2, <2>3, FlushDisk, FlushSound DEF RInv
<1>5. CASE FlushFails
  <2>1. fails' # 0
    BY <1>5, RestartAssumption DEF FlushFails, RestartTypeOK, RestartAssumption
  <2> QED BY <1>0, <1>5, <2>1, FlushDisk DEF RInv
<1>6. CASE Restart
  <2>1. /\ DiskFollows' /\ DiskIsOneMoment' /\ NothingLost'
        /\ UNCHANGED <<disk, fails, proved>>
    BY <1>6, RestartDisk
  <2>2. fails = 0 => DiskSound' /\ Sound' /\ InHandOrInterrupted'
    BY <1>6, <2>1, RestartSound DEF RInv, DiskSound
  <2> QED BY <2>1, <2>2 DEF RInv
<1> QED BY <1>1, <1>2, <1>3, <1>4, <1>5, <1>6 DEF RestartNext

\* RInv is an invariant of the restarted server.
THEOREM RestartInductive == RestartSpec => []RInv
BY RestartInitInv, RestartNextInv, RestartTypeCorrect, PTL DEF RestartSpec

-----------------------------------------------------------------------------
(* The theorems.                                                           *)

\* The disk shows every station as it was when the last flush ran, but for the
\* rows a failed flush took with it (SqliteStore.flush, write-behind).
THEOREM DiskOneMoment == RestartSpec => []DiskIsOneMoment
<1>1. RInv => DiskIsOneMoment
  BY DEF RInv
<1> QED BY <1>1, RestartInductive, PTL

\* As long as no flush fails no kill orphans a migrated station: in memory and on
\* the disk it has a key it has proven (PersistentPQAuthenticator.restore,
\* build_migration's orphans).
THEOREM MigratedSurvivesKills == RestartSpec => []MigratedSurvives
<1>1. RestartTypeOK /\ RInv => MigratedSurvives
  BY DEF RInv, MigratedSurvives, DiskSound, Sound, MigratedIsProven
<1> QED BY <1>1, RestartTypeCorrect, RestartInductive, PTL

\* As long as no flush fails, a station in progress that nobody works on was left
\* so by a kill, and none that is not (being) migrated has a key (restore, load).
THEOREM HalfMigratedByKill == RestartSpec => []HalfMigratedByKillOnly
<1>1. RInv => HalfMigratedByKillOnly
  BY DEF RInv, HalfMigratedByKillOnly, InHandOrInterrupted, InHand, Sound, KeysByState
<1> QED BY <1>1, RestartInductive, PTL

-----------------------------------------------------------------------------
(* The key check after a boot.                                             *)

\* A key that can never be the station's key on the server again.
Dead(s, k) ==
  /\ k \notin {enrolled[s], staged[s], oldKey[s]}
  /\ \A w \in WaveIds : k # rotatedIn[w][s]
  /\ task[s] = "enrolling" => k # call[s][Orch].key

\* What a running check remembers: the key it named is one the station made, and
\* its nonce is gone only if that key is.
BootKeysOnce ==
  \A s \in Stations, n \in Conns : boot[s][n] = "checking" =>
    /\ call[s][n].req = "challenge"
    /\ call[s][n].key # NoKey /\ call[s][n].key <= made[s]
    /\ n \notin nonce[s] => Dead(s, call[s][n].key)

\* The migration's own invariants, and the check's.
BInv == Sound /\ AllInHand /\ FreshKeys /\ BootKeysOnce

LEMMA CallerSets ==
  /\ Orch \in Callers /\ Orch \notin Conns /\ Conns \subseteq Callers
  /\ \A n \in Conns : n # Orch
BY DispatchAssumption DEF DispatchAssumption, Callers, Conns, Orch

\* A step of the boot, or the check, of connection n.
CheckStep(s, n) ==
  \/ ReadBoot(s, n) \/ AnnounceBoot(s, n)
  \/ PassUnenrolled(s, n) \/ ChallengeBoot(s, n) \/ ChallengeNobody(s, n)
  \/ CheckPasses(s, n) \/ CheckFails(s, n)

\* A step is one of the migration, which leaves the boots alone or marks a
\* connection, or one of a check.
LEMMA BootOrMigration ==
  ASSUME BootTypeOK, [BootNext]_allVars
  PROVE  \/ [Next]_vars /\ boot' = boot
         \/ \E s \in Stations, n \in Conns : CheckStep(s, n)
<1>1. CASE UNCHANGED allVars
  BY <1>1 DEF allVars, bootVars
<1>2. CASE (Operator \/ Run) /\ UNCHANGED bootVars
  BY <1>2 DEF bootVars, Next
<1>3. ASSUME NEW s \in Stations, MigrationPasses(s) \/ MigrationGoesOn(s)
      PROVE  [Next]_vars /\ boot' = boot
  <2>1. StationStep(s)
    BY <1>3 DEF MigrationPasses, MigrationGoesOn, StationStep
  <2> QED BY <1>3, <2>1 DEF MigrationPasses, MigrationGoesOn, bootVars, Next
<1>4. ASSUME NEW s \in Stations, CloseBoot(s) \/ (Environment(s) /\ UNCHANGED <<migrationVars, bootVars>>)
      PROVE  [Next]_vars /\ boot' = boot
  <2>1. closing[s] \subseteq Conns
    BY DEF BootTypeOK
  <2>2. Environment(s) /\ UNCHANGED migrationVars /\ UNCHANGED bootVars
    BY <1>4, <2>1 DEF CloseBoot, Environment
  <2> QED BY <2>2 DEF bootVars, Next
<1>5. ASSUME NEW s \in Stations, BootStep(s)
      PROVE  \E n \in Conns : CheckStep(s, n)
  BY <1>5 DEF BootStep, CheckStep
<1> QED BY <1>1, <1>2, <1>3, <1>4, <1>5 DEF BootNext

\* What connection n's check may touch: its own call and its own nonce.
Aside(s, n) ==
  /\ UNCHANGED <<linkVars, keyVars, late, enrolled, staged, recordVars, runVars, waveVars,
                 taskVars, count, proved>>
  /\ nonce' \in [Stations -> SUBSET Callers] /\ call' \in [Stations -> [Callers -> Call]]
  /\ \A t \in Stations, c \in Callers : t # s \/ c # n =>
       (c \in nonce'[t] <=> c \in nonce[t]) /\ call'[t][c] = call[t][c]

\* The boots of the other connections go on as they were.
OneBoot(s, n) ==
  /\ boot' \in [Stations -> [Conns -> BootState]]
  /\ \A t \in Stations, m \in Conns : t # s \/ m # n => boot'[t][m] = boot[t][m]

LEMMA BootStepAside ==
  ASSUME BootTypeOK, NEW s \in Stations, NEW n \in Conns,
         CheckStep(s, n)
  PROVE  Aside(s, n) /\ OneBoot(s, n)
<1>0. /\ boot \in [Stations -> [Conns -> BootState]]
      /\ nonce \in [Stations -> SUBSET Callers] /\ call \in [Stations -> [Callers -> Call]]
      /\ n \in Callers
  BY CallerSets DEF BootTypeOK, TypeOK, DispatchTypeOK
<1>1. ASSUME NEW st \in BootState, BootBecomes(s, n, st)
      PROVE  OneBoot(s, n)
  BY <1>0, <1>1 DEF BootBecomes, OneBoot
<1>2. OneBoot(s, n)
  BY <1>1 DEF CheckStep, ReadBoot, AnnounceBoot, PassUnenrolled, ChallengeBoot, ChallengeNobody,
              CheckPasses, CheckFails, CheckOver, BootState
<1>3. ASSUME NEW new \in Call, SetCall(s, n, new)
      PROVE  /\ call' \in [Stations -> [Callers -> Call]]
             /\ \A t \in Stations, c \in Callers : t # s \/ c # n => call'[t][c] = call[t][c]
  BY <1>0, <1>3 DEF SetCall
<1>4. CASE UNCHANGED vars
  BY <1>0, <1>2, <1>4 DEF Aside, vars, dispatchVars, callVars, migrationVars, authVars
<1>5. CASE ChallengeBoot(s, n)
  <2> DEFINE new == NewCall(s, n, "challenge", enrolled[s])
  <2>1. new \in Call
    BY NewCallType DEF Requests, BootTypeOK, TypeOK, DispatchTypeOK
  <2>2. SetCall(s, n, new) /\ nonce' = [nonce EXCEPT ![s] = @ \cup {n}]
    BY <1>5 DEF ChallengeBoot, SendCall
  <2> HIDE DEF new
  <2>3. nonce' \in [Stations -> SUBSET Callers]
        /\ \A t \in Stations, c \in Callers : t # s \/ c # n => (c \in nonce'[t] <=> c \in nonce[t])
    BY <1>0, <2>2
  <2> QED BY <1>2, <1>3, <1>5, <2>1, <2>2, <2>3 DEF Aside, ChallengeBoot
<1>6. CASE CheckOver(s, n)
  <2>1. SetCall(s, n, Idle) /\ nonce' = [nonce EXCEPT ![s] = @ \ {n}]
    BY <1>6 DEF CheckOver, TakeResult
  <2>3. nonce' \in [Stations -> SUBSET Callers]
        /\ \A t \in Stations, c \in Callers : t # s \/ c # n => (c \in nonce'[t] <=> c \in nonce[t])
    BY <1>0, <2>1
  <2> QED BY <1>2, <1>3, <1>6, <2>1, <2>3, IdleType DEF Aside, CheckOver
<1> QED BY <1>4, <1>5, <1>6
       DEF CheckStep, ReadBoot, AnnounceBoot, PassUnenrolled, ChallengeNobody, CheckPasses, CheckFails

-----------------------------------------------------------------------------
(* Types of the boot check.                                                *)

LEMMA BootInitType == BootInit => BootTypeOK
BY InitType DEF BootInit, BootTypeOK, BootState

LEMMA AsideType ==
  ASSUME TypeOK, NEW s \in Stations, NEW n \in Conns, Aside(s, n)
  PROVE  TypeOK'
BY DEF Aside, TypeOK, DispatchTypeOK, linkVars, keyVars, recordVars, runVars, waveVars, taskVars

\* Only connections are marked.
Marks == [Stations -> SUBSET Conns]

LEMMA MarksAdded ==
  ASSUME NEW f \in Marks, NEW s \in Stations, NEW x \in SUBSET Conns
  PROVE  [f EXCEPT ![s] = @ \cup x] \in Marks
BY DEF Marks

LEMMA MarksType ==
  ASSUME BootTypeOK, [BootNext]_allVars
  PROVE  accepted' \in Marks /\ verified' \in Marks /\ closing' \in Marks
<1>1. accepted \in Marks /\ verified \in Marks /\ closing \in Marks
  BY DEF BootTypeOK, Marks
<1>2. ASSUME NEW s \in Stations, NEW n \in Conns
      PROVE  Current(s) \in SUBSET Conns /\ Current(s) \cap {n} \in SUBSET Conns
  BY DEF BootTypeOK, TypeOK, DispatchTypeOK, Current
<1>3. \/ UNCHANGED bootVars
      \/ \E s \in Stations : MigrationPasses(s) \/ \E n \in Conns : CheckStep(s, n)
  BY DEF BootNext, allVars, MigrationGoesOn, CloseBoot, BootStep, CheckStep, bootVars
<1>4. CASE UNCHANGED bootVars
  BY <1>1, <1>4 DEF bootVars
<1>5. ASSUME NEW s \in Stations, MigrationPasses(s)
      PROVE  accepted' \in Marks /\ verified' \in Marks /\ closing' \in Marks
  <2>1. 1 \in Conns
    BY DispatchAssumption DEF DispatchAssumption, Conns
  <2>2. Current(s) \in SUBSET Conns
    BY <1>2, <2>1
  <2> QED BY <1>1, <1>5, <2>2, MarksAdded DEF MigrationPasses, MarkCurrent
<1>6. ASSUME NEW s \in Stations, NEW n \in Conns, CheckStep(s, n)
      PROVE  accepted' \in Marks /\ verified' \in Marks /\ closing' \in Marks
  <2>1. CASE ReadBoot(s, n)
    BY <1>1, <1>2, <2>1, MarksAdded DEF ReadBoot
  <2>2. CASE PassUnenrolled(s, n) \/ CheckPasses(s, n)
    <3>1. MarkVerified(s, n) /\ accepted' = accepted /\ closing' = closing
      <4>1. CASE PassUnenrolled(s, n) BY <4>1 DEF PassUnenrolled
      <4>2. CASE CheckPasses(s, n) BY <4>2 DEF CheckPasses, CheckOver
      <4> QED BY <2>2, <4>1, <4>2
    <3>2. PICK x \in SUBSET Conns : x = Current(s) \cap {n}
      BY <1>2, Zenon
    <3>3. verified' = [verified EXCEPT ![s] = @ \cup x]
      BY <3>1, <3>2 DEF MarkVerified
    <3>4. verified' \in Marks
      BY <1>1, <3>3, MarksAdded, Zenon
    <3> QED BY <1>1, <3>1, <3>4, Zenon
  <2>3. CASE CheckFails(s, n)
    BY <1>1, <1>2, <2>3, MarksAdded DEF CheckFails, CheckOver
  <2>4. CASE AnnounceBoot(s, n) \/ ChallengeBoot(s, n) \/ ChallengeNobody(s, n)
    BY <1>1, <2>4 DEF AnnounceBoot, ChallengeBoot, ChallengeNobody
  <2> QED BY <1>6, <2>1, <2>2, <2>3, <2>4 DEF CheckStep
<1> QED BY <1>3, <1>4, <1>5, <1>6

LEMMA BootNextType == BootTypeOK /\ [BootNext]_allVars => BootTypeOK'
<1> SUFFICES ASSUME BootTypeOK, [BootNext]_allVars PROVE BootTypeOK'
  OBVIOUS
<1>0. TypeOK /\ boot \in [Stations -> [Conns -> BootState]]
  BY DEF BootTypeOK
<1>1. CASE [Next]_vars /\ boot' = boot
  BY <1>0, <1>1, NextType, MarksType DEF BootTypeOK, Marks
<1>2. ASSUME NEW s \in Stations, NEW n \in Conns, Aside(s, n), OneBoot(s, n)
      PROVE  BootTypeOK'
  BY <1>0, <1>2, AsideType, MarksType DEF BootTypeOK, OneBoot, Marks
<1> QED BY <1>1, <1>2, BootOrMigration, BootStepAside

\* Every variable of the boot check has the type its declaration gives.
THEOREM BootTypeCorrect == BootSpec => []BootTypeOK
BY BootInitType, BootNextType, PTL DEF BootSpec

-----------------------------------------------------------------------------
(* What a check remembers.                                                 *)

\* Whatever becomes of a challenge, it names the key it named.
LEMMA ChallengeKept ==
  ASSUME DispatchTypeOK, NEW s \in Stations, Environment(s),
         NEW t \in Stations, NEW m \in Callers, call[t][m].req = "challenge"
  PROVE  call'[t][m].req = "challenge" /\ call'[t][m].key = call[t][m].key
<1> DEFINE Good == call'[t][m].req = "challenge" /\ call'[t][m].key = call[t][m].key
<1>0. /\ \A c \in Callers : call[s][c] \in Call
      /\ call \in [Stations -> [Callers -> Call]]
  BY DEF DispatchTypeOK
<1>1. ASSUME NEW c \in Callers, NEW new, call' = [call EXCEPT ![s][c] = new],
             new.req = call[s][c].req /\ (c = m /\ s = t => new.key = call[s][c].key)
      PROVE  Good
  BY <1>0, <1>1
<1>2. ASSUME NEW c \in Callers, Acquire(s, c)
      PROVE  Good
  <2> DEFINE new == [call[s][c] EXCEPT !.st = "sent"]
  <2>1. call' = [call EXCEPT ![s][c] = new]
    BY <1>2 DEF Acquire, SetCall
  <2>2. new.req = call[s][c].req /\ new.key = call[s][c].key
    BY <1>0, RecordFields
  <2> HIDE DEF new
  <2> QED BY <1>1, <2>1, <2>2
<1>3. ASSUME NEW c \in Callers, GiveUp(s, c)
      PROVE  Good
  <2> DEFINE new == [call[s][c] EXCEPT !.st = "failed", !.ok = FALSE]
  <2>1. call' = [call EXCEPT ![s][c] = new]
    BY <1>3 DEF GiveUp, SetCall
  <2>2. new.req = call[s][c].req /\ new.key = call[s][c].key
    BY <1>0, RecordFields
  <2> HIDE DEF new
  <2> QED BY <1>1, <2>1, <2>2
<1>4. ASSUME NEW c \in Callers, NEW ok, NEW key, Answer(s, c, ok, key),
             call[s][c].req = "enrol" \/ key = call[s][c].key
      PROVE  Good
  <2> DEFINE new == [call[s][c] EXCEPT !.st = "answered", !.ok = ok, !.key = key]
  <2>1. call' = [call EXCEPT ![s][c] = new]
    BY <1>4 DEF Answer
  <2>2. new.req = call[s][c].req /\ new.key = key
    BY <1>0, RecordFields
  <2> HIDE DEF new
  <2> QED BY <1>1, <1>4, <2>1, <2>2
<1>5. ASSUME NEW c \in Callers,
             ChargerEnrols(s, c) \/ ChargerRefuses(s, c) \/ ChargerSigns(s, c)
      PROVE  Good
  BY <1>4, <1>5 DEF ChargerEnrols, ChargerRefuses, ChargerSigns
<1>6. ASSUME NEW n \in Conns, CloseSocket(s, n)
      PROVE  Good
  <2> DEFINE Rec(c) == IF call[s][c].st \in {"queued", "sent"} /\ call[s][c].conn = n
                       THEN [call[s][c] EXCEPT !.st = "failed"] ELSE call[s][c]
  <2>1. call' = [call EXCEPT ![s] = [c \in Callers |-> Rec(c)]]
    BY <1>6 DEF CloseSocket
  <2>2. Rec(m).req = call[s][m].req /\ Rec(m).key = call[s][m].key
    BY <1>0, RecordFields
  <2> HIDE DEF Rec
  <2>3. /\ call'[s][m] = Rec(m)
        /\ t # s => call'[t][m] = call[t][m]
    BY <1>0, <2>1
  <2> QED BY <2>2, <2>3
<1>7. CASE Dial(s) \/ ChargerEnrolsLate(s) \/ ChargerRefusesLate(s)
  BY <1>7 DEF Dial, ChargerEnrolsLate, ChargerRefusesLate
<1> QED BY <1>2, <1>3, <1>5, <1>6, <1>7 DEF Environment

\* A key is dead when it was un-enrolled with everything that could bring it back.
LEMMA UndoBuries ==
  ASSUME TypeOK, Sound, NEW w \in WaveIds, Undo(w), UNCHANGED <<taskVars, dispatchVars>>,
         NEW t \in Stations, NEW k \in Keys
  PROVE  /\ Dead(t, k) => Dead(t, k)'
         /\ t \in ToUnenrol(w) => Dead(t, k)'
         /\ t \notin ToUnenrol(w) => nonce'[t] = nonce[t]
<1>0. /\ k # NoKey
      /\ UNCHANGED <<task, oldKey, call>>
      /\ \A v \in WaveIds : rotatedIn'[v][t] \in {rotatedIn[v][t], NoKey}
  BY DEF TypeOK, Keys, NoKey, taskVars, dispatchVars, callVars, Undo, NoneRotated
<1>1. /\ staged'[t] \in {staged[t], NoKey}
      /\ enrolled'[t] \in {enrolled[t], NoKey} \cup {rotatedIn[w][t]}
  BY DEF Undo
<1>2. ASSUME t \in ToUnenrol(w)
      PROVE  Dead(t, k)'
  <2>1. kind = "migration" /\ wave >= 0 /\ task[t] # "enrolling"
    BY <1>2 DEF ToUnenrol, Sound, UndoKinds, UndoInWave, Undoable
  <2>2. oldKey[t] = NoKey /\ \A v \in WaveIds : rotatedIn[v][t] = NoKey
    BY <2>1 DEF Sound, UndoKinds, TaskKnows
  <2>3. enrolled'[t] = NoKey /\ staged'[t] = NoKey
    BY <1>2 DEF Undo
  <2> QED BY <1>0, <2>1, <2>2, <2>3 DEF Dead
<1>3. Dead(t, k) => Dead(t, k)'
  BY <1>0, <1>1 DEF Dead
<1>4. t \notin ToUnenrol(w) => nonce'[t] = nonce[t]
  BY DEF Undo
<1> QED BY <1>2, <1>3, <1>4

\* A coroutine uses no dead key, and removes no nonce but its own unless it
\* buries the key.
LEMMA StationBuries ==
  ASSUME TypeOK, Sound, NEW s \in Stations, StationStep(s),
         NEW t \in Stations, NEW k \in Keys
  PROVE  /\ Dead(t, k) => Dead(t, k)'
         /\ \A n \in Conns : n \in nonce[t] /\ n \notin nonce'[t] => Dead(t, k)'
<1>0. /\ k # NoKey /\ Orch \in Callers
      /\ call \in [Stations -> [Callers -> Call]]
      /\ \A n \in Conns : n # Orch
  BY CallerSets DEF Keys, NoKey, TypeOK, DispatchTypeOK
<1> USE <1>0 DEF TypeOK, Dead, authVars, callVars, taskVars, waveVars, dispatchVars, Ends
<1>1. CASE Skip(s) \/ Defer(s)
  BY <1>1 DEF Skip, Defer
<1>2. CASE AskForKey(s)
  BY <1>2 DEF AskForKey, SetCall, NewCall, Idle
<1>3. CASE EnrolKey(s)
  BY <1>3 DEF EnrolKey, Challenge, SendCall, SetCall
<1>4. CASE MarkMigrated(s)
  BY <1>4 DEF MarkMigrated, TakeResult, SetCall
<1>5. CASE FailStation(s)
  <2>1. wave >= 0 /\ kind = "migration"
    BY <1>5 DEF FailStation, Sound, BusyInWave, Working
  <2>2. oldKey[s] = NoKey /\ \A v \in WaveIds : rotatedIn[v][s] = NoKey
    BY <2>1 DEF Sound, UndoKinds, TaskKnows
  <2> QED BY <1>5, <2>2 DEF FailStation, Unenrol, TakeResult, SetCall
<1>6. CASE StageKey(s)
  BY <1>6 DEF StageKey, Challenge, SendCall, TakeResult, SetCall
<1>7. CASE CommitKey(s)
  BY <1>7 DEF CommitKey, TakeResult, SetCall
<1>8. CASE RotationFails(s)
  BY <1>8 DEF RotationFails, Discard, TakeResult, SetCall
<1> QED BY <1>1, <1>2, <1>3, <1>4, <1>5, <1>6, <1>7, <1>8 DEF StationStep

\* A step of the migration leaves the calls of the checks alone, but for what the
\* chargers and the network make of them.
LEMMA MigrationBuries ==
  ASSUME TypeOK, Sound, FreshKeys, [Next]_vars,
         NEW t \in Stations, NEW n \in Conns, NEW k \in Keys,
         call[t][n].req = "challenge", call[t][n].key = k, k <= made[t]
  PROVE  /\ call'[t][n].req = "challenge" /\ call'[t][n].key = k
         /\ made[t] <= made'[t]
         /\ Dead(t, k) => Dead(t, k)'
         /\ n \in nonce[t] /\ n \notin nonce'[t] => Dead(t, k)'
<1> DEFINE Good == /\ call'[t][n].req = "challenge" /\ call'[t][n].key = k
                   /\ made[t] <= made'[t]
                   /\ Dead(t, k) => Dead(t, k)'
                   /\ n \in nonce[t] /\ n \notin nonce'[t] => Dead(t, k)'
<1>0. /\ n \in Callers /\ n # Orch /\ Orch \in Callers
      /\ call \in [Stations -> [Callers -> Call]] /\ DispatchTypeOK
      /\ made[t] \in Nat
  BY CallerSets, DispatchAssumption DEF TypeOK, DispatchTypeOK, DispatchAssumption
<1>2. ASSUME call'[t][n] = call[t][n], made' = made,
             Dead(t, k) => Dead(t, k)',
             n \in nonce[t] /\ n \notin nonce'[t] => Dead(t, k)'
      PROVE  Good
  BY <1>0, <1>2
<1>3. ASSUME UNCHANGED <<call, made, nonce, enrolled, staged>>,
             \A w \in WaveIds : rotatedIn'[w][t] \in {rotatedIn[w][t], NoKey},
             oldKey'[t] \in {oldKey[t], NoKey},
             task'[t] = task[t] \/ task'[t] # "enrolling"
      PROVE  Good
  <2>1. Dead(t, k) => Dead(t, k)'
    BY <1>3 DEF Dead, Keys, NoKey
  <2> QED BY <1>2, <1>3, <2>1
<1>4. ASSUME NEW w \in WaveIds, Undo(w), UNCHANGED <<taskVars, dispatchVars>>
      PROVE  Good
  <2>1. UNCHANGED <<call, made>>
    BY <1>4 DEF dispatchVars, callVars, keyVars
  <2>2. /\ Dead(t, k) => Dead(t, k)'
        /\ t \in ToUnenrol(w) => Dead(t, k)'
        /\ t \notin ToUnenrol(w) => nonce'[t] = nonce[t]
    BY <1>4, UndoBuries
  <2> QED BY <1>2, <2>1, <2>2
<1>5. CASE UNCHANGED vars
  BY <1>3, <1>5 DEF vars, dispatchVars, callVars, keyVars, migrationVars, authVars, waveVars, taskVars
<1>6. CASE Operator
  <2>1. ASSUME NEW kd, NEW who, NEW ws, NEW cc, StartRun(kd, who, ws, cc)
        PROVE  Good
    BY <1>3, <2>1 DEF StartRun, NoneRotated, dispatchVars, callVars, keyVars, authVars, taskVars
  <2>2. ASSUME NEW w \in WaveIds, Rollback(w)
        PROVE  Good
    BY <1>4, <2>2 DEF Rollback
  <2> QED BY <1>6, <2>1, <2>2 DEF Operator, StartMigration, StartRotation
<1>7. CASE BeginRun \/ NextWave
  <2>1. UNCHANGED <<call, made, nonce, enrolled, staged>>
    BY <1>7 DEF BeginRun, NextWave, dispatchVars, callVars, keyVars, authVars
  <2>2. /\ \A w \in WaveIds : rotatedIn'[w][t] \in {rotatedIn[w][t], NoKey}
        /\ oldKey'[t] \in {oldKey[t], NoKey} /\ task'[t] # "enrolling"
    <3>1. PICK v : BeginWave(v)
      <4>1. BeginRun => BeginWave(0) BY DEF BeginRun
      <4>2. NextWave => BeginWave(wave + 1) BY DEF NextWave
      <4> QED BY <1>7, <4>1, <4>2, Zenon
    <3>2. \A w \in WaveIds : rotatedIn'[w][t] \in {rotatedIn[w][t], NoKey}
      BY <3>1 DEF BeginWave, NoneRotated, TypeOK
    <3>3. oldKey'[t] = NoKey /\ task'[t] # "enrolling"
      BY <3>1 DEF BeginWave
    <3> QED BY <3>2, <3>3
  <2> QED BY <1>3, <2>1, <2>2
<1>8. CASE RunCompletes
  BY <1>3, <1>8 DEF RunCompletes, dispatchVars, callVars, keyVars, authVars, taskVars
<1>9. CASE WaveFails
  <2>1. wave \in WaveIds
    BY <1>9, ActiveWave DEF WaveFails, WaveDone
  <2> QED BY <1>4, <1>9, <2>1 DEF WaveFails
<1>10. ASSUME NEW s \in Stations, StationStep(s)
       PROVE  Good
  <2>1. made' = made
    BY <1>10 DEF StationStep, Skip, Defer, AskForKey, EnrolKey, MarkMigrated, FailStation, StageKey,
                 CommitKey, RotationFails, dispatchVars, keyVars
  <2>2. call' = call \/ \E new : SetCall(s, Orch, new)
    BY <1>10 DEF StationStep, Skip, Defer, AskForKey, EnrolKey, MarkMigrated, FailStation, StageKey,
                 CommitKey, RotationFails, Challenge, SendCall, TakeResult, dispatchVars, callVars
  <2>3. call'[t][n] = call[t][n]
    BY <1>0, <2>2 DEF SetCall
  <2>4. /\ Dead(t, k) => Dead(t, k)'
        /\ n \in nonce[t] /\ n \notin nonce'[t] => Dead(t, k)'
    BY <1>10, StationBuries
  <2> QED BY <1>2, <2>1, <2>3, <2>4
<1>11. ASSUME NEW s \in Stations, Environment(s), UNCHANGED migrationVars
       PROVE  Good
  <2>1. UNCHANGED <<nonce, enrolled, staged, rotatedIn, oldKey, task>>
    BY <1>11 DEF migrationVars, authVars, waveVars, taskVars
  <2>2. call'[t][n].req = "challenge" /\ call'[t][n].key = k
    BY <1>0, <1>11, ChallengeKept
  <2>3. /\ AnswerIsNew(s)
        /\ \A u \in Stations \ {s} : call'[u][Orch] = call[u][Orch] /\ made'[u] = made[u]
        /\ made'[s] >= made[s]
    BY <1>0, <1>11, EnvironmentAnswers
  <2>4. made[t] <= made'[t]
    BY <1>0, <2>3
  <2>5. call'[t][Orch].key \in {call[t][Orch].key, NoKey} \/ call'[t][Orch].key = made[t] + 1
    BY <2>3 DEF AnswerIsNew
  <2>6. k # NoKey /\ k # made[t] + 1
    BY <1>0, DispatchAssumption DEF Keys, NoKey, DispatchAssumption
  <2>7. Dead(t, k) => Dead(t, k)'
    BY <2>1, <2>5, <2>6 DEF Dead
  <2> QED BY <2>1, <2>2, <2>4, <2>7
<1> QED BY <1>5, <1>6, <1>7, <1>8, <1>9, <1>10, <1>11 DEF Next, Run

\* What the migration knows is not disturbed by a check.
LEMMA AsideSound ==
  ASSUME TypeOK, Sound, AllInHand, FreshKeys, NEW s \in Stations, NEW n \in Conns, Aside(s, n)
  PROVE  Sound' /\ AllInHand' /\ FreshKeys'
<1>0. /\ \A t \in Stations : /\ (Orch \in nonce'[t]) <=> (Orch \in nonce[t])
                             /\ call'[t][Orch] = call[t][Orch]
      /\ UNCHANGED <<made, enrolled, staged, mstate, phase, kind, candidates, size, canary, wave,
                     enrolledIn, rotatedIn, task, oldKey, proved>>
  BY CallerSets DEF Aside, keyVars, recordVars, runVars, waveVars, taskVars
<1>1. (BusyInWave /\ UndoInWave /\ UndoKinds)'
  BY <1>0 DEF Sound, BusyInWave, UndoInWave, UndoKinds, Undoable, Wave, Rank, First
<1>2. (EnrolledCapable /\ RotationKeyed /\ MigratedIsProven /\ NeverFailed /\ StagedOnlyInWindow)'
  BY <1>0 DEF Sound, EnrolledCapable, RotationKeyed, MigratedIsProven, NeverFailed, StagedOnlyInWindow
<1>3. TaskKnows' /\ KeysByState'
  BY <1>0 DEF Sound, TaskKnows, KeysByState
<1>4. AllInHand'
  BY <1>0 DEF AllInHand, InHand
<1>5. FreshKeys'
  BY <1>0 DEF FreshKeys, KeysMade, AskedKeyIsNew, Accepted
<1> QED BY <1>1, <1>2, <1>3, <1>4, <1>5 DEF Sound

\* A check remembers the key it names, and its nonce until it is over.
LEMMA CheckRemembers ==
  ASSUME BootTypeOK, BInv, NEW s \in Stations, NEW n \in Conns, CheckStep(s, n)
  PROVE  BootKeysOnce'
<1>0. /\ TypeOK /\ boot \in [Stations -> [Conns -> BootState]]
      /\ nonce \in [Stations -> SUBSET Callers] /\ call \in [Stations -> [Callers -> Call]]
      /\ n \in Callers
  BY CallerSets DEF BootTypeOK, TypeOK, DispatchTypeOK
<1>1. Aside(s, n) /\ OneBoot(s, n)
  BY BootStepAside DEF CheckStep
<1>2. \A t \in Stations : call'[t][Orch] = call[t][Orch]
  BY <1>1, CallerSets DEF Aside
<1>3. ASSUME NEW t \in Stations, NEW k, Dead(t, k)
      PROVE  Dead(t, k)'
  BY <1>1, <1>2, <1>3 DEF Aside, Dead, waveVars, taskVars
<1>4. ASSUME NEW t \in Stations, NEW m \in Conns, t # s \/ m # n, boot'[t][m] = "checking"
      PROVE  /\ call'[t][m].req = "challenge"
             /\ call'[t][m].key # NoKey /\ call'[t][m].key <= made'[t]
             /\ m \notin nonce'[t] => Dead(t, call[t][m].key)'
  <2>1. /\ boot[t][m] = "checking" /\ call'[t][m] = call[t][m] /\ made' = made
        /\ m \in nonce'[t] <=> m \in nonce[t]
    BY <1>1, <1>4, CallerSets DEF Aside, OneBoot, keyVars
  <2>2. PICK k : k = call[t][m].key
    OBVIOUS
  <2>3. m \notin nonce[t] => Dead(t, k)
    BY <2>1, <2>2 DEF BInv, BootKeysOnce
  <2>4. m \notin nonce[t] => Dead(t, k)'
    BY <1>3, <2>3
  <2>5. m \notin nonce'[t] => Dead(t, call[t][m].key)'
    BY <2>1, <2>2, <2>4 DEF Dead
  <2> QED BY <2>1, <2>5 DEF BInv, BootKeysOnce
<1>5. ASSUME boot'[s][n] = "checking"
      PROVE  /\ call'[s][n].req = "challenge"
             /\ call'[s][n].key # NoKey /\ call'[s][n].key <= made'[s]
             /\ n \in nonce'[s]
  <2>1. ChallengeBoot(s, n)
    BY <1>0, <1>5 DEF CheckStep, ReadBoot, AnnounceBoot, PassUnenrolled, ChallengeNobody,
                      CheckPasses, CheckFails, CheckOver, BootBecomes
  <2>2. call' = [call EXCEPT ![s][n] = NewCall(s, n, "challenge", enrolled[s])]
        /\ nonce' = [nonce EXCEPT ![s] = @ \cup {n}] /\ made' = made /\ enrolled[s] # NoKey
    BY <2>1 DEF ChallengeBoot, SendCall, SetCall, keyVars
  <2>3. call'[s][n] = NewCall(s, n, "challenge", enrolled[s]) /\ n \in nonce'[s]
    BY <1>0, <2>2
  <2>4. enrolled[s] <= made[s]
    BY DEF BInv, FreshKeys, KeysMade
  <2> QED BY <2>2, <2>3, <2>4 DEF NewCall
<1> QED BY <1>4, <1>5 DEF BootKeysOnce

\* A migration next to the check leaves it what it remembers, or buries the key.
LEMMA MigrationRemembers ==
  ASSUME BootTypeOK, BInv, [Next]_vars, boot' = boot
  PROVE  BootKeysOnce'
<1> SUFFICES ASSUME NEW t \in Stations, NEW m \in Conns, boot[t][m] = "checking"
             PROVE  /\ call'[t][m].req = "challenge"
                    /\ call'[t][m].key # NoKey /\ call'[t][m].key <= made'[t]
                    /\ m \notin nonce'[t] => Dead(t, call[t][m].key)'
  BY DEF BootKeysOnce
<1>1. PICK k \in Keys : k = call[t][m].key
  <2>1. call[t][m] \in Call /\ call[t][m].key # NoKey
    BY CallerSets DEF BInv, BootKeysOnce, BootTypeOK, TypeOK, DispatchTypeOK
  <2> QED BY <2>1 DEF Call, KeyOrNone
<1>2. /\ call[t][m].req = "challenge" /\ k <= made[t] /\ k # NoKey
      /\ m \notin nonce[t] => Dead(t, k)
  BY <1>1 DEF BInv, BootKeysOnce
<1>3. /\ call'[t][m].req = "challenge" /\ call'[t][m].key = k
      /\ made[t] <= made'[t]
      /\ Dead(t, k) => Dead(t, k)'
      /\ m \in nonce[t] /\ m \notin nonce'[t] => Dead(t, k)'
  BY <1>1, <1>2, MigrationBuries DEF BootTypeOK, BInv
<1>4. k \in Nat /\ made[t] \in Nat /\ made'[t] \in Nat
  BY NextType, DispatchAssumption DEF BootTypeOK, TypeOK, DispatchTypeOK, Keys, DispatchAssumption
<1>5. m \notin nonce'[t] => Dead(t, k)'
  BY <1>2, <1>3
<1>6. m \notin nonce'[t] => Dead(t, call[t][m].key)'
  BY <1>3, <1>5 DEF Dead
<1> QED BY <1>2, <1>3, <1>4, <1>6

LEMMA BootInitInv == BootInit => BInv
<1> SUFFICES ASSUME BootInit PROVE BInv
  OBVIOUS
<1>1. Init /\ BootKeysOnce
  BY DEF BootInit, BootKeysOnce
<1> QED BY <1>1, InitSound, InitFresh DEF Init, AllInHand, InHand, BInv

LEMMA BootNextInv == BootTypeOK /\ BInv /\ [BootNext]_allVars => BInv'
<1> SUFFICES ASSUME BootTypeOK, BInv, [BootNext]_allVars PROVE BInv'
  OBVIOUS
<1>1. TypeOK /\ Sound /\ AllInHand /\ FreshKeys
  BY DEF BootTypeOK, BInv
<1>2. CASE [Next]_vars /\ boot' = boot
  <2>1. Sound' /\ AllInHand' /\ FreshKeys'
    BY <1>1, <1>2, NextSound, NextInHand, NextFresh, SoundInHand
  <2> QED BY <1>2, <2>1, MigrationRemembers DEF BInv
<1>3. ASSUME NEW s \in Stations, NEW n \in Conns, CheckStep(s, n)
      PROVE  BInv'
  <2>1. Aside(s, n)
    BY <1>3, BootStepAside
  <2>2. Sound' /\ AllInHand' /\ FreshKeys'
    BY <1>1, <2>1, AsideSound
  <2> QED BY <1>3, <2>2, CheckRemembers DEF BInv
<1> QED BY <1>2, <1>3, BootOrMigration

\* The checks disturb no migration, and a check's nonce outlives all but its key.
THEOREM BootInductive == BootSpec => []BInv
BY BootInitInv, BootNextInv, BootTypeCorrect, PTL DEF BootSpec

-----------------------------------------------------------------------------
(* What a check does to connections.                                       *)

\* A connection is closed for its signature only when the key that signed is no
\* longer enrolled: no other check took its nonce (check_after_boot,
\* PQAuthenticator.verify_response, unenrol).
THEOREM ChecksCloseForCause == BootSpec => ClosedForCause
<1> DEFINE ForCause == \A s \in Stations : \A n \in NewlyClosing(s) :
                         Accepted(s, n) => call[s][n].key # enrolled[s]
<1>1. ASSUME BootTypeOK, BInv, [BootNext]_allVars
      PROVE  [ForCause]_allVars
  <2> SUFFICES ASSUME ~UNCHANGED allVars, NEW s \in Stations, NEW n \in NewlyClosing(s), Accepted(s, n)
               PROVE  call[s][n].key # enrolled[s]
    OBVIOUS
  <2>1. CheckFails(s, n) /\ n \in Conns
    BY <1>1 DEF BootNext, MigrationPasses, MigrationGoesOn, BootStep, CloseBoot, bootVars, NewlyClosing,
                ReadBoot, AnnounceBoot, PassUnenrolled, ChallengeBoot, ChallengeNobody, CheckPasses,
                CheckFails, CheckOver, Current, BootTypeOK
  <2>2. /\ call[s][n].key # NoKey
        /\ n \notin nonce[s] => Dead(s, call[s][n].key)
    BY <1>1, <2>1 DEF CheckFails, CheckOver, BInv, BootKeysOnce
  <2>3. ~Verifies(s, n, enrolled[s])
    BY <2>1 DEF CheckFails
  <2> QED BY <2>2, <2>3 DEF Verifies, Dead
<1>2. BootTypeOK /\ BInv /\ [BootNext]_allVars => [ForCause]_allVars
  BY <1>1
<1> QED BY <1>2, BootTypeCorrect, BootInductive, PTL DEF BootSpec, ClosedForCause

\* The check of a connection marks no other connection, verified or to be closed,
\* however late its verdict comes (mark_pq_verified, mark_closing).
THEOREM ChecksStay == BootSpec => CheckStaysWithItsConnection
<1> DEFINE Stays == \A s \in Stations, n \in Conns :
                      (boot[s][n] # "over" /\ boot'[s][n] = "over") =>
                        /\ verified'[s] \ verified[s] \subseteq {n}
                        /\ NewlyClosing(s) \subseteq {n}
<1>1. ASSUME BootTypeOK, [BootNext]_allVars
      PROVE  [Stays]_allVars
  <2> SUFFICES ASSUME NEW s \in Stations, NEW n \in Conns, boot[s][n] # "over", boot'[s][n] = "over"
               PROVE  /\ verified'[s] \ verified[s] \subseteq {n}
                      /\ NewlyClosing(s) \subseteq {n}
    OBVIOUS
  <2>1. CheckStep(s, n)
    <3>1. boot' # boot
      OBVIOUS
    <3>2. PICK t \in Stations, m \in Conns : CheckStep(t, m)
      BY <1>1, <3>1, BootOrMigration
    <3>3. OneBoot(t, m)
      BY <1>1, <3>2, BootStepAside
    <3> QED BY <3>2, <3>3 DEF OneBoot
  <2>2. verified \in [Stations -> SUBSET Conns] /\ closing \in [Stations -> SUBSET Conns]
    BY <1>1 DEF BootTypeOK
  <2> QED BY <2>1, <2>2 DEF CheckStep, ReadBoot, AnnounceBoot, PassUnenrolled, ChallengeBoot,
                ChallengeNobody, CheckPasses, CheckFails, CheckOver, MarkVerified, NewlyClosing
<1>2. BootTypeOK /\ [BootNext]_allVars => [Stays]_allVars
  BY <1>1
<1> QED BY <1>2, BootTypeCorrect, PTL DEF BootSpec, CheckStaysWithItsConnection

-----------------------------------------------------------------------------
(* Migration next to the checks keeps what it promises alone.              *)

MInv == SInv /\ Contained /\ UInv

\* A check asks for no key and touches nothing a wave or its rollback reads.
LEMMA AsideMInv ==
  ASSUME BootTypeOK, BInv, MInv, NEW s \in Stations, NEW n \in Conns, CheckStep(s, n)
  PROVE  MInv'
<1>0. n \in Callers /\ call \in [Stations -> [Callers -> Call]] /\ TypeOK
  BY CallerSets DEF BootTypeOK, TypeOK, DispatchTypeOK
<1>1. Aside(s, n)
  BY BootStepAside
<1>2. /\ \A t \in Stations, c \in Callers : t # s \/ c # n => call'[t][c] = call[t][c]
      /\ UNCHANGED <<made, late, current, previous, enrolled, mstate, phase, kind, candidates,
                     size, canary, runs, before, wave, wavePhase, enrolledIn, rotatedIn, task,
                     oldKey>>
  BY <1>1 DEF Aside, keyVars, recordVars, runVars, waveVars, taskVars
<1>3. ~Asks(call'[s][n])
  <2>1. CASE call' = call
    BY <2>1 DEF MInv, SInv, OnlyOrchAsks
  <2>2. CASE ChallengeBoot(s, n)
    <3>1. call' = [call EXCEPT ![s][n] = NewCall(s, n, "challenge", enrolled[s])]
      BY <2>2 DEF ChallengeBoot, SendCall, SetCall
    <3>2. call'[s][n] = NewCall(s, n, "challenge", enrolled[s])
      BY <1>0, <3>1
    <3> QED BY <3>2 DEF NewCall, Asks
  <2>3. CASE CheckOver(s, n)
    <3>1. call' = [call EXCEPT ![s][n] = Idle]
      BY <2>3 DEF CheckOver, TakeResult, SetCall
    <3>2. call'[s][n] = Idle
      BY <1>0, <3>1
    <3> QED BY <3>2 DEF Idle, Asks
  <2> QED BY <2>1, <2>2, <2>3 DEF CheckStep, ReadBoot, AnnounceBoot, PassUnenrolled,
                ChallengeNobody, CheckPasses, CheckFails, vars, dispatchVars, callVars
<1>4. OnlyOrchAsks'
  BY <1>2, <1>3, CallerSets DEF MInv, SInv, OnlyOrchAsks
<1>5. \A t \in Stations : call'[t][Orch] = call[t][Orch]
  BY <1>2, CallerSets
<1>6. LastTwoHeld' /\ OneKeyPerRun'
  BY <1>2, <1>5 DEF MInv, SInv, LastTwoHeld, OneKeyPerRun, Owed, Asking, YetToAsk, Rank, First
<1>7. Contained'
  BY <1>2, SameOpened DEF MInv, Contained
<1>8. UInv'
  BY <1>0, <1>2, StutterUndo DEF MInv, taskVars
<1> QED BY <1>4, <1>6, <1>7, <1>8 DEF MInv, SInv

LEMMA BesideMInv ==
  BootTypeOK /\ BootTypeOK' /\ BInv /\ MInv /\ [BootNext]_allVars => MInv'
<1> SUFFICES ASSUME BootTypeOK, BootTypeOK', BInv, MInv, [BootNext]_allVars PROVE MInv'
  OBVIOUS
<1>1. TypeOK /\ TypeOK' /\ IInv
  BY SoundInHand DEF BootTypeOK, BInv
<1>2. CASE [Next]_vars
  BY <1>1, <1>2, NextSurvives, NextContained, NextUndo DEF MInv
<1> QED BY <1>2, AsideMInv, BootOrMigration

\* Whatever checks, reconnections and closings go on beside it, no charger loses
\* the key the server challenges it with, and no wave touches a station it should
\* not, or leaves one half undone.
THEOREM BesideInductive == BootSpec => []MInv
<1>1. BootInit => MInv
  BY InitSurvives, InitContained, InitUndo DEF BootInit, MInv
<1> QED BY <1>1, BesideMInv, BootTypeCorrect, BootInductive, PTL DEF BootSpec

\* The overlap window is wide enough for the boot checks too: the key a boot check
\* names for a migrated station is one the charger still holds, through one further
\* run (verify_on_boot, PQIdentity.enrol).
THEOREM RotationSurvivesChecks == BootSpec => []OneRotationSurvived
<1>1. BootTypeOK /\ BInv /\ MInv => OneRotationSurvived
  BY SurvivesSays DEF BootTypeOK, BInv, Sound, MInv
<1> QED BY <1>1, BootTypeCorrect, BootInductive, BesideInductive, PTL

\* Next to the checks, too, migrated means authenticated, no station is left half
\* migrated, and a failed wave is undone and the waves not reached untouched.
THEOREM MigrationBesideChecks ==
  BootSpec => [](MigratedIsProven /\ NeverHalfMigrated /\ Containment /\ FailedWaveUndone)
<1>1. BootTypeOK /\ BInv /\ MInv =>
        MigratedIsProven /\ NeverHalfMigrated /\ Containment /\ FailedWaveUndone
  BY SoundInHand, ContainedSays, UndoSays DEF BootTypeOK, BInv, MInv, IInv
<1> QED BY <1>1, BootTypeCorrect, BootInductive, BesideInductive, PTL

\* Nor does a check, or a connection it closes, take a rotation's safety away: no
\* station is left without a key, and a wave rolled back by hand is on the keys it had
\* (check_after_boot beside commit_staged and rollback).
THEOREM RotationBesideChecks ==
  BootSpec => RotationKeepsIdentity /\ RotationRollbackRestores
<1>1. BootTypeOK /\ BInv /\ [BootNext]_allVars => [KeysKept]_vars
  <2> SUFFICES ASSUME BootTypeOK, BInv, [BootNext]_allVars PROVE [KeysKept]_vars
    OBVIOUS
  <2>1. CASE [Next]_vars
    BY <2>1, SoundInHand, NextKeepsKeys DEF BootTypeOK, BInv
  <2>2. ASSUME NEW s \in Stations, NEW n \in Conns, CheckStep(s, n) PROVE enrolled' = enrolled
    BY <2>2, BootStepAside DEF Aside
  <2> QED BY <2>1, <2>2, BootOrMigration DEF KeysKept
<1>2. BootTypeOK /\ BInv /\ MInv => KeysRestored
  BY SoundInHand, RollbackSays DEF BootTypeOK, BInv, MInv
<1> QED BY <1>1, <1>2, BootTypeCorrect, BootInductive, BesideInductive, PTL
        DEF BootSpec, RotationKeepsIdentity, KeysKept, RotationRollbackRestores, KeysRestored

\* Checks count nothing: without a rollback by hand the counters of a run add up
\* beside them (check_after_boot, _do_wave).
THEOREM CountersBesideChecks == Manual = FALSE => (BootSpec => []CountersAddUp)
<1> SUFFICES ASSUME Manual = FALSE PROVE BootSpec => []CountersAddUp
  OBVIOUS
<1>1. BootTypeOK /\ BInv /\ MInv /\ CountersAddUp /\ [BootNext]_allVars => CountersAddUp'
  <2> SUFFICES ASSUME BootTypeOK, BInv, MInv, CountersAddUp, [BootNext]_allVars
               PROVE  CountersAddUp'
    OBVIOUS
  <2>1. CASE [Next]_vars
    BY <2>1, SoundInHand, NextCounts DEF BootTypeOK, BInv, MInv
  <2>2. ASSUME NEW s \in Stations, NEW n \in Conns, CheckStep(s, n) PROVE count' = count
    BY <2>2, BootStepAside DEF Aside
  <2> QED BY <2>1, <2>2, BootOrMigration DEF CountersAddUp
<1>2. BootInit => CountersAddUp
  BY InitCounts DEF BootInit
<1> QED BY <1>1, <1>2, BootTypeCorrect, BootInductive, BesideInductive, PTL DEF BootSpec

\* Migration with its boot checks implements Rollout: a check gives no station a
\* key and proves none (check_after_boot).
THEOREM RolloutBesideChecks == BootSpec => ImplementsRollout
<1>1. BootTypeOK /\ BootTypeOK' /\ BInv /\ IInv /\ IInv' /\ [BootNext]_allVars =>
        [R!Next]_(R!rolloutVars)
  <2> SUFFICES ASSUME BootTypeOK, BootTypeOK', BInv, IInv, IInv', [BootNext]_allVars
               PROVE  [R!Next]_(R!rolloutVars)
    OBVIOUS
  <2>1. CASE [Next]_vars
    BY <2>1, NextRefines DEF BootTypeOK, BInv
  <2>2. ASSUME NEW s \in Stations, NEW n \in Conns, CheckStep(s, n)
        PROVE  [R!Next]_(R!rolloutVars)
    <3>1. UNCHANGED <<phase, candidates, size, canary, wave, enrolled, proved>>
      BY <2>2, BootStepAside DEF Aside, runVars, waveVars
    <3> QED BY <3>1, SameOpened DEF R!rolloutVars, KeyStatus
  <2> QED BY <2>1, <2>2, BootOrMigration
<1>2. BootTypeOK /\ BInv => IInv
  BY SoundInHand DEF BootTypeOK, BInv
<1>3. BootInit => R!Init
  BY InitRefines DEF BootInit
<1> QED BY <1>1, <1>2, <1>3, BootTypeCorrect, BootInductive, PTL DEF BootSpec, R!Spec, ImplementsRollout
=============================================================================

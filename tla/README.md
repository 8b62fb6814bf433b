# PQCharge in TLA+

PQCharge is a charging-station management system (CSMS) and a simulated fleet of
OCPP 2.0.1 chargers. It is built to migrate chargers from classical to
post-quantum identities while they work, and to measure what that costs. This
directory holds models of its control logic, the TLC runs that check them, and
proofs of the most important results.

- [Parts of the system](#parts-of-the-system)
- [Modules](#modules)
- [From code to model](#from-code-to-model)
- [Runs, bounds, fairness](#runs-bounds-fairness)
- [Theorems](#theorems)
- [Where code and documentation disagree](#where-code-and-documentation-disagree)
- [Only model-checked, and not modelled](#only-model-checked-and-not-modelled)
- [What is left](#what-is-left)

Paths are relative to `src/`. In this directory `tlc -config X.cfg M` checks a run
of the table below (its module and configuration are in `PROJECT.json`) and
`tlapm M_proofs.tla` checks a module of proofs.

## Parts of the system

| Part | Source | State it keeps | Operations | Correct when |
|---|---|---|---|---|
| Migration orchestrator | `idmanager/orchestrator.py`, `pq_check.py`, `fleet_adapter.py` | status (phase, counters, waves), what each wave enrolled and rotated | start migration or rotation, canary, waves, rollback | no station is left half migrated; a failed wave is undone and nobody behind it is touched |
| Key register | `crypto/pq_auth.py` | enrolled key, staged key, outstanding nonces per station | enrol, unenrol, stage, commit, discard, challenge, verify | a due answer counts, whatever other checks run |
| Charger's key pair | `agent/pq_identity.py`, `pq_keystore.py`, `pqc_messages.py` | current and previous pair, key file | make, save, install, sign, load | the charger always still has the key the server will challenge |
| Dispatcher | `csms/dispatch.py` (and the `ocpp` library's call lock) | nothing of its own | send, broadcast, wait for answer, timeout or close | every send returns once; "accepted" means in force |
| Curtailment | `csms/server.py`, `csms/dispatch.py`, `agent/charging_profile.py`, `agent/station.py` | the charger's limit and stop flag | limit, clear, stop, for one or for the fleet | a cap is lifted by nothing but a command that says so |
| Boot check | `idmanager/boot_verifier.py`, `csms/migration.py` | marks on the session | after each accepted boot: challenge, then verify or close with 1008 | nobody is closed without cause; verdicts stay with their connection |
| Session registry, live state | `csms/registry.py`, `handlers.py`, `server.py`, `metering.py` | session per station; per station last reading, sequence position, transaction | register, deregister, boot, transaction events | the live connection is the session; old readings never become the present |
| Persistence | `csms/persistence.py` | buffers, SQLite tables | save, flush, load, restore | the disk is the server at one moment; rows tell what happened |
| Charger | `agent/station.py`, `client.py`, `state_machine.py`, `offline_queue.py` | connection, transaction, contactor, limit, offline queue | the session coroutine; answering commands | power is safe; kept readings go out once and in order; it ends |
| Storm harness and measure | `harness/load_generator.py`, `analysis/measures/e2_storm.py` | logs | kill and restart the server, poll the fleet, compute recovery | the measure agrees with the fleet view |
| Load generator and its diary | `harness/load_generator.py`, `harness/timing_log.py`, `analysis/collect.py` | one task per charger, a buffered file | stagger, connect, retry, end, interrupt; read back, cut and join runs | what counts as a complete run is one, nobody counts twice |
| Observers | `csms/events.py`, `dashboard/serve.py`, `dashboard/static/app.js`, `harness/watch_migration.py` | ring of events, the page's cursor, the watched run | emit, page, poll; tell old from new | nothing is missed or repeated without a cause; the end of a run is seen |
| Certificates, TLS, providers | `crypto/`, `csms/transport.py`, `agent/tls.py` | files | issue, verify | (libraries) |
| Analysis, experiments, evidence | `analysis/`, `experiments/`, `evidence/` | recorded logs | compute | (pure functions) |

How they interact. A charger opens one WebSocket; the server's `on_connect`
coroutine registers it and reads its messages one at a time. The server's own
commands (`dispatcher.send`) go out on whatever connection is the session at
that moment and queue behind the connection's call lock. A migration run is a
background task; each station of a wave has a coroutine of its own that awaits
two sends. A boot check is a task started after the reply to a BootNotification
and awaits one send. The operator's HTTP calls run between any two awaits, and
what the operator sees comes by polling. Nothing runs in parallel inside the
server: an action of a model is the code between two awaits, and all
interleavings of these pieces are explored. The load generators, the watcher,
the browser and the analysis are processes of their own and share only sockets
and files with the server.

What makes it hard: the connection behind a station id can be a newer one after
every await; the answer to a send can come too late, with the charger having
acted on it; two checks of one station overlap; a rollback changes what a
waiting coroutine believes; an event may be handled although its reply is lost;
the server, a charger or a generator may die between a change and its write;
polls overlap and page over a log that is cut, and renumbered by a restart.
`PROJECT.json` lists these hazards one by one with the property that covers each.

## Modules

```
Dispatch            sending commands, connections, the charger's keys
  Migration         the orchestrator and the key register   -- implements Rollout
    BootCheck       boot checks next to migrations
    Restart         persistence of keys and records, kill and start
      Server_proofs about Migration, Restart and BootCheck
Rollout             what a rollout promises (abstract)
StationAgent        the charger's session
  Reporting         ... and what the server learns of it
    Reporting_proofs  about both
KeyRegister         keys and nonces of one station
  ChargerKeys       ... and the charger's pair, its file, its kills
    ChargerKeys_proofs
ChargingProfile     what a profile means (operators)
  Curtailment       operator's commands, from endpoint to charger
    Curtailment_proofs
Metering            what meter values mean (operators)
  Rows              sessions, transactions and readings in the database
    Rows_proofs     about both
Feed                event log, its pages, the browser
  Watch             ... and the console view of a migration
    Watch_proofs    about both
TimingLog           a diary being written
  Diary             ... and read back (operators)
    FleetRun        the generators that write it
      FleetRun_proofs about all three
Storm               outage, reconnection, watcher, and the measure of recovery
  Storm_proofs
```

`MC*` modules extend the module they are named for; where an instance needs more
than numbers (fleets, payloads) they define it.

**Dispatch.** One record per caller and station is one await on `send()`:
`queued` (call lock), `sent`, `answered`, `failed`. `GiveUp` is the dispatcher's
timer, `CloseSocket` the connection's end with every call on it, `Dial` a new
connection that becomes the session at once. A RequestPQEnrolment the server no
longer waits for is still read by the charger (`late`) and still makes a key.
The charger's pair of keys is `current` and `previous`; a key is the number of the
request that made it.

**Migration.** The orchestrator's `_run`, `_do_wave`, `_transition_station`,
`_enrol_by_public_key`, `_rotate_station` and `_rollback_wave`. `task[s]` is the
await at which the coroutine of station `s` stands. `enrolled`, `staged` and
`nonce` are the key register; a challenge is identified by the caller whose
check issued it, because no caller has two at a time. `Wave(w)` is the
slicing of the sorted station list. Exceptions of `stage_key` end the run in
`failed`, as in the code.

**Rollout** is the abstract specification: a station's identity changes only
when its wave has been opened, a key is tried before it is proven, nothing is
tried outside a run. `Migration` implements it with the three-valued view
`KeyStatus` of the register (property `ImplementsRollout`).

**BootCheck** adds, per connection, the state of its BootNotification and of the
check it starts, and the session marks `accepted`, `verified`, `closing`. The
check is one more caller of Dispatch, so it competes for the call lock and may
see its challenge go out on a connection newer than its own.

**Restart** adds the write buffers and the tables of keys and records. A step of
Migration is conjoined with what it queues; `Flush` writes everything at once;
`Restart` restores from disk and forgets the run, the staged keys, the nonces and
the sockets. The chargers and their keys live on.

**StationAgent** is `station.py` from await to await: `pc` names the await,
`wire` the one request in flight. Commands of the server (profiles, stop
requests) arrive between any two steps. Times are reduced to their effect: the
charging deadline passes at some moment, a reading is taken at some moment.

**Reporting** puts a server next to it that handles transaction events, and
connections that die with a request on them: handled, lost, or handled later
than events of the next connection.

**KeyRegister** is `PQAuthenticator` for one station, method by method: `pending`
are the nonces of `_outstanding`, numbered in the order of issue, `issuedAt` their
times, `Kept` what `issue_challenge` leaves of them (expired ones go, then the
oldest at the cap). **ChargerKeys** adds the charger -- `pair` in memory, `file` on
disk, `enrolling` between the steps of `save` (temporary file, replace) and the
reply -- and the callers: a run that asks for a key, stages or enrols it, checks,
commits or undoes, and boot checks next to it. `Crash` may hit between any two
steps. Migration keeps one challenge per caller; here each nonce has its own life,
so cap and lifetime matter.

**ChargingProfile** is `parse_charging_profile` over abstract JSON: each field is
absent, a number, a boolean, infinite or something else; lists may be bare objects.
**Curtailment** sends such payloads: endpoints, broadcast to `connected_ids`, one
await per target, a charger that obeys or refuses and answers, connections that
drop with commands unread, transactions that begin and end meanwhile.

**Metering** is `parse_meter_values` with units and multipliers, its two loops as
recursive functions over the entries read so far. **Rows** uses it
and keeps what the store keeps: five buffers, the order in which `flush` writes
them, `INSERT OR IGNORE` and `UPDATE` of rows that may not be there, a flush that
fails, `Kill` and the clean `Stop`. `Admits` is the certificate name check before a
session exists.

**Feed** is the ring of `EventLog`, a page of it, the proxy and the browser's
timer, which does not wait for the poll before: two polls may be out. Events are
numbered over all processes, and `base` translates to the numbers a process gives,
which start again after a restart. **Watch** adds a run that comes and goes and
`Tracker.update`, which decides which run the console view is about and lists what
changed since the poll before: the state and the key of one charger, altered by the
run, by a rollback by hand while it is on (`Change`) or over (`Rollback`), and by a
restart that loses the last change. `Remembered` is what a poll compares with: the
states are forgotten when a watch begins, the keys are not. Two approximations allow
more than the code: a `Rollback` may follow a rollback by the run itself, and the list
keeps all its lines, not the newest eight.

**TimingLog** is a file written through a buffer, flushed now and then, torn by a
kill so that the next run's first line is glued to half a line. **Diary** is
`collect.py`: cutting files into runs and joining the runs of one experiment by
names, time and chargers; the greedy search of `join_split_runs` is a recursive
function over the runs that are in no group yet. **FleetRun** is the generator: staggered tasks, dials and
retries, the totals row, Ctrl-C (tasks cancelled, no totals), and a kill.

**Storm** takes the boot check as one step with a verdict, and adds the outage,
`ServerSupervisor`, `FleetWatcher` and the logs. Its last part is `e2_storm.py`
as a function of the log. The handshakes of one charger are assumed to complete
in the order in which it dialled.

## From code to model

`PROJECT.json` maps every definition to the lines it stands for. Conventions:

- Names are the code's where TLA+ allows; comments name the function otherwise.
- Data is reduced to what decides: a reading is `(transaction, sequence number,
  power)`; a signature is the key it was made with; power is 0 or full; a file is
  the set or sequence of records it holds.
- Handlers that only log or count are left out. Logging is modelled where it is
  the subject (Storm, Feed, TimingLog).
- Variables marked "history" are read by properties only, and by no guard.
- A definition marked "Mutant of X" is a plausible mistake in X. It is not used
  by the specification; replacing X by it breaks the property the list in
  `PROJECT.json` names, which shows the property depends on that piece of code.

## Runs, bounds, fairness

Every `CHECK_DEADLOCK FALSE` is due to the bounds and to work that ends: a
system whose runs, connections, commands and readings are used up stops.

| Run | Configuration | Shows |
|---|---|---|
| `migration_keys` | 3 chargers, 1 not capable; canary 1, waves of 1; 2 runs; 2 connections and 2 keys each; manual rollback | `MigratedIsProven`, `NeverHalfMigrated`, `StagedOnlyInWindow`, `Containment`, `OneRotationSurvived`, `RotationKeepsIdentity`, `RotationRollbackRestores`, `ImplementsRollout` |
| `migration_waves` | 3 chargers in one wave, threshold 50 %, 2 runs | `CountersAddUp`, `FailedWaveUndone` |
| `boot_checks` | 1 charger, 2 connections, 3 keys, 2 runs, manual rollback | `ClosedForCause`, `CheckStaysWithItsConnection`, `BootSettled`, `RunEnds` |
| `restart` | 1 charger, 3 connections, 3 keys, 3 runs, 2 kills, 1 failing flush | `DiskIsOneMoment`, `MigratedSurvives`, `HalfMigratedByKillOnly` |
| `session_reported` | 1 charger, 3 connections, 3 readings, queue of 1 | `CurrentOnlyInTransaction`, `SuspendedIffCurtailed`, `QueueIsOfThisTransaction`, `NoGhost`, `LossesLogged`, `PowerIsNewest`, `NoDuplicate`, `RunsOut` |
| `charger_keys` | 3 keys, 4 checks, cap 2, lifetime 1 tick of 2, 3 requests for a key, 1 kill, 1 failed save | `KeysOutliveCrash`, `AnswersCount` |
| `curtailment` | 1 charger of 10 W, 3 commands at once, 2 connections, 2 transactions; limits 0 and 15, amperes on two phases, a boolean, a wrong EVSE | `AcceptedInForce`, `StopHitsNamed`, `NoLift` |
| `rows` | 3 connections, 2 transactions, 4 events, 1 stop or kill, 1 failing flush | `SessionRowsTrue`, `TransactionRowsTrue` |
| `observers` | ring of 3, pages of 2, 4 events, 2 polls, 1 restart, 2 runs; 2 states, 2 keys or none, 3 changes | `MissedForCause`, `OnlyNews`, `EndIsReported` |
| `fleet_run` | `demo` with 2 chargers beside `demo_legacy` with 1, the latter started twice; 2 dials, 1 fault | `CompleteIsWhole`, `NobodyCountedTwice` |
| `recovery` | 2 chargers, 1 enrolled, 3 connections each, 1 kill, 1 loss, 1 poll | `RecoveryCounted`, `LiveSessionKept`, `ComesBack` |
| `second_session` | 2 connections, 4 readings | violates `OneSession`, [below](#where-code-and-documentation-disagree) |

Why these bounds.

- Migration. Rollback and containment need a wave that has run, one that runs and
  one that has not: three chargers in waves of one. The threshold needs a wave
  with both a success and a failure below and above it: three chargers in one wave
  at 50 %. A second run is needed for everything that concerns a station that
  already has a key; a third key for the loss of the previous one. Chargers
  interact only through the wave, so the boot and restart runs, which concern one
  station's key, have one charger. Two kills let a restart meet the remains of
  another.
- Sessions. Two connections give an old and a new one; three let a second loss hit
  the resync after the first. A queue of one with three readings is full, drops,
  and is replayed in part.
- Keys. Three keys are current, previous and pushed out. Four checks against a cap
  of two push nonces out twice while an answer is under way; a lifetime of one
  tick out of two lets one expire and another live.
- Curtailment. Of three commands one is executed, one is on the wire and one waits
  for the lock; the third connection would repeat the second. Stations share
  nothing but the moment of a broadcast, which is the choice of who is connected.
- Rows. A superseded session, its successor and the one after the restart are three
  connections; four events are Started, Updated, Ended and the next Started.
- Observers. Four events overrun a ring of three and a page of two; two polls
  overlap. Three changes of the charger are one by the first run, one after its end and
  one in the second run. The page does not read the charger and the view does not read the
  log, so a behaviour has either an open page or changes (`PageOrChanges` of MCWatch, a
  bound; the theorems do not have it).
- Fleet runs. A generator started twice beside another one is the case
  `collect.py:74` tells of; one fault is one run that is stopped, killed or has a
  hole in it.

`OneRotationSurvived` is `IdentityHeld` for the first two runs, as its guard says: it
holds for a migration and one more run of any outcome, with or without boot checks
beside them (`RotationSurvived`, `RotationSurvivesChecks`); a third run breaks
it ([below](#where-code-and-documentation-disagree)).

Fairness, and why the code justifies it:

- `BootFairness`: asyncio runs every task that is ready; the dispatcher cancels a
  call after `DEFAULT_DISPATCH_TIMEOUT_S`; a close started by the server ends by
  the close handshake or its timeout. Nothing is assumed of charger and network.
- `ReportingFairness`: the charger's coroutine runs, its clock advances, a request
  without an answer ends by `response_timeout`, and attempts to connect are
  bounded (`max_attempts`). Nothing is assumed of the server.
- `FairStormSpec`: chargers retry for ever (`max_attempts` 0), the server is
  started again, its event loop serves every connection, and every check gets a
  verdict (BootCheck shows that it does). Losses are bounded, never required.
- `FairSpec` of Watch (`MCSpec` with the bound of MCWatch): the view polls until it has finished, and a poll gets
  through again and again. Nothing is assumed of the run it watches.

## Theorems

All theorems hold for every value of the constants the `...Assumption` of the
module allows: any fleet, sizes, caps, bounds, payloads (in FleetRun, one
generator starts finitely many chargers). Eight modules of proofs;
`PROJECT.json` lists the results, lemmas are named in the modules.

**Server_proofs**, part 1: a migration by itself -- `TypeCorrect`, `MigratedProven`, `NotHalfMigrated`,
`RunsDoNotFail`, `WindowCloses`, and the action property `RotationSafe`. The only part of
the types that is not routine is that waves stay within `WaveIds`: `WaveAfter`
derives it from the rank of the candidate that starts the next wave. None of the
others is inductive. What makes them so is `Sound` together with `AllInHand`:

- `BusyInWave`: coroutines at work belong to the current wave of an active run;
- `UndoInWave`: what a rollback could still undo belongs to a wave already
  opened, and to no other wave's coroutines -- without it a rollback of an old
  wave could take the key of a station that is being checked;
- `UndoKinds`: a run either enrols or rotates, and a key a rollback puts back
  was proven -- this is why a rolled-back rotation leaves `MigratedIsProven` true;
- `EnrolledCapable`, `RotationKeyed`: only capable stations have keys, and the
  candidates of a rotation keep theirs, so `stage_key` never raises and no
  rotation takes an identity away;
- `TaskKnows`: what a waiting coroutine believes about its station's record. Its
  last disjunct is the manual rollback in mid-check: the station is rolled back,
  has no key and no nonce, so the coming answer cannot verify;
- `AllInHand`: a station in progress has a coroutine of a migration that works on it.

The two are apart because a server that was killed keeps `Sound` and not
`AllInHand`: it finds stations in progress on its disk that nobody works on. `Sound`
therefore claims the rest of them only. Together they say `IInv` (`SoundInHand`), which
the parts below use. The proof goes action by action (`StationSound`, `UndoSound`,
`BeginSound`, `StartSound`, `RunSound`; `StationInHand`, `RunInHand`), `NextSound` and
`NextInHand` collect them, and the temporal theorems follow by PTL.

What else holds of it, each from the results before it and each as two lemmas about
single steps (`Init...`, `Next...`) that the next two parts take up again:

- `KeysAreNew`: `Spec => []FreshKeys`. The key in the answer to an enrolment is one
  the charger has just made, so never one it has proven before. `EnvironmentAnswers`
  says what each step of chargers and network can make of a call's record.
- `RolloutImplemented`: `Spec => ImplementsRollout`. Each step is mapped: a run's
  start to `Start`, a wave's to `Open`, `EnrolKey` to `Try` (it needs `FreshKeys`:
  a key proven before would be "proven" at once), `MarkMigrated` to `Prove`,
  `FailStation` and every rollback to `Revert`, the end to `End`; all others leave
  the abstract state alone. That nothing is "tried" after the end follows from `IInv`
  in the new state (`TriedInProgress`); that a rotated station put back stays
  "proven" is `UndoReverts`.
- `WavesContained`: `Spec => []Containment`. Only opened stations have coroutines at
  work (`AtWorkOpened`) or something to undo (`UndoableOpened`), and the next wave
  opens more (`OpenedGrows`).
- `FailedWaveIsUndone`, `RollbackRestores` and, with the hypothesis `Manual = FALSE`,
  `CountersSum`: what a rollback leaves. The invariant `UInv` relates the
  rollback lists to the history variable `before`: what a list names is in its wave, with
  the key it had before the run (`DoneInWave`); a rotation's station is on that key or is
  listed (`OldKeyKept`); a failed wave lists nothing more (`NothingListed`); how far a
  migration's coroutine came says which key is held (`Reached`, which needs `Contained` when
  a wave begins). That a station is in one wave only (`OneWave`) makes the list that names it
  the list that is rolled back. The counters follow from the outcomes of a wave being a
  partition of it (`OutcomesCounted`) and from the failed wave listing only stations it has
  counted as migrated (`TakenFromMigrated`) -- just what a manual rollback in mid-wave breaks.
- `RotationSurvived`: `Spec => []OneRotationSurvived`. The invariant `SInv` counts: the
  charger holds the last two keys it made (`LastTwoHeld`), and a run asks a station at most
  once, so that keys made, requests still unread, the request on its way and the one this
  run may yet send are together no more than the runs (`OneKeyPerRun`). After two runs there
  are at most two keys, and the one the server has is one of them. A request that timed out
  counts too: it is `late`, not gone.

Part 2: the server that may die (Restart), with any number of kills and
failed flushes -- `RestartTypeCorrect`, `DiskOneMoment`, `MigratedSurvivesKills`,
`HalfMigratedByKill`. The invariant `RInv` says that what is neither queued nor lost is on
the disk as it is in memory (`DiskFollows`), and, as long as no flush failed, that
the rows of a station are ones it had together (`DiskSound`), that `Sound` holds and that
a station in progress is in hand or was caught by a kill (`InHandOrInterrupted`). A step of
Migration queues what it changes (`Queued`), a restart reads rows that are sound
(`RestartSound`).

Part 3: migration next to the boot checks (BootCheck). A step is one of Migration or
touches one check's own call and nonce (`BootOrMigration`, `Aside`); so

- `MigrationBesideChecks`, `RotationBesideChecks`, `RotationSurvivesChecks`,
  `RolloutBesideChecks` and, without manual rollback, `CountersBesideChecks`: what
  Migration promises alone -- `MigratedIsProven`, `NeverHalfMigrated`, `Containment`,
  `FailedWaveUndone`, `RotationKeepsIdentity`, `RotationRollbackRestores`,
  `OneRotationSurvived`, `ImplementsRollout`, `CountersAddUp` -- it promises with
  any number of checks, reconnections and closings beside it;
- `ChecksCloseForCause`: `BootSpec => ClosedForCause`, by `BootKeysOnce`: the nonce of a
  running check is gone only if the key the check named is `Dead` -- neither
  enrolled, staged nor on any list or in any coroutine's hands that could put it back. A
  `Dead` key stays so, because every key a run asks for is new (`UndoBuries`,
  `StationBuries`, `MigrationBuries`);
- `ChecksStay`: `BootSpec => CheckStaysWithItsConnection`.

**Reporting_proofs**, part 1: the charger alone -- `AgentTypes`, `CurrentIsSafe`, `SuspensionIsTheLimit`,
`TransitionsInTable` (`IllegalTransition` is never raised) and `QueueOfOneTransaction`.
The first ones need to know which `pc` goes with which state of the machine and which
request is on the wire; the queue needs that sequence numbers in it are increasing,
below the next one, and that kept = waiting + dropped + handed over.

Part 2: charger and server -- `ReportingIsAgent` (the composition's charger is that of
StationAgent, so its theorems hold there), `ReportingTypes`, `EventsOnce`,
`NoGhostSessions`, `NewestPower`, `LossesAreLogged`. The charger's side of the invariant is
`SendInv` (numbers are given out in order, each once; what is still to be replayed comes
after what is on the wire); the steps that matter to it have six shapes (`Quiet`, `Keeps`, `Silent`,
`Begins`, `Reports`, `Replays`), so the server's side is proved once per shape. `OnceInv`:
nothing the charger may still send is known to the server. `LiveInv`: a transaction is
over for the server before the charger forgets it, and what is late is known to be late.
`LossInv`: the losses logged for the open transaction are the numbers missing below its
newest event, counted as a set (`Missing`).

**Rows_proofs** -- `SessionRowsAreTrue` and `TransactionRowsAreTrue`, for any order of
events, reconnections, flushes, failed flushes, kills and stops.

- Sessions. `ConnectionsInv`: connections are numbered as they
  come, and only a handler that has ended asks for its row to be closed. `RowsInv`: every
  row is as it should be, or what puts it right is in the buffers, or the history says why
  nothing will.
- Transactions. `TxInv`: the charger has one transaction acknowledged as ended before it
  begins the next (`ChargerOrder`); the live state shows a transaction from its
  first event handled to its end, and its row lags behind by what is buffered
  (`LiveTx`); so what waits to be written, and what is written, is of the transaction it
  names (`TableInv`). The energy is what `parse_meter_values` reads (`MeterRead`).
- Metering. `LaterMeterValuesWin`: for any sequence of meter values with any samples,
  power and energy are those of the last sample that says them and can be read, and the
  time is the latest. The functions of Metering exist because they go on one entry at
  a time (`Steps`), and what holds after each entry (`LastOf`, `LastOfAll`,
  `LatestTime`) holds at the end (`UpTo`).

**ChargerKeys_proofs**:

- `CrashKeepsKeys`: `Spec => []KeysOutliveCrash`. Invariant `KeysInv`, for a charger
  with a key directory: keys are saved in the order in which they were made
  (`SavedInOrder`), the file holds the newest saved one and the one before
  (`FileHasNewest`), and whatever the server has or is about to get was saved
  (`ServerHasSaved`). A key the server still uses is therefore one of the two in the
  file or has been followed by two others -- the case in which it is lost.
- `DueAnswersAccepted`: `Spec => []AnswersCount`. The heart of `AnswersInv` is `NoncesInv`:
  the nonce of an open check is outstanding, or too old, or pushed out by `Cap` younger
  ones, or was issued for a key the server has let go of for good -- and "for good" holds
  because every key a run asks for is new (`KeysSeen`). `RunInv` and `ChecksInv` say
  what a run's step and a check's state imply about the keys.

**Curtailment_proofs** -- `AcceptedMeansInForce`, `StopsHitTheNamed`, `NoAccidentalLift`
and `WattsMeant`, for arbitrary payloads. `CurtInv` is the types and four parts per
station: `BoxOf` (what waits unread at the charger was sent on its connection, each
command once, the newest last), `SendsOf` (no await is on a connection newer than the charger's), `LimitOf` (a reply
to the newest command written, on its way or taken, says that its limit is in force),
`StopOf` (a stop request in force was read from a command that names the transaction that
runs). `WattsMeant` shows that what the parser returns is at most what the first period
says, in watts or in amperes on at most three phases.

**Storm_proofs** -- `LiveSession`: `StormSpec => []LiveSessionKept`, and `Recovered`:
`StormSpec => []RecoveryCounted`, the measure as a function of the log against the state
of the server. `StormInv`: the phases of the storm (`Phases`); the supervisor's stamp and the
line of the restarted server are in the log once each, in this order
(`Stamped`, `StampedFirst`), so the log alone determines which restart is measured;
only enrolled chargers are checked (`OnlyEnrolledChecked`); and what the restarted
server knows of a charger it has logged after its own first line (`MarksAreLogged`). Lines are
only appended, so each step is a question of what its last line adds (`OneLine`).

**Watch_proofs** -- `NoEventMissed` (Feed): an event the page does not get was
dropped by the ring, cut from the page or belongs to an earlier process. `FInv`: the
numbers the page, its polls and the answers hold are numbers of events that exist
(`NumbersInLog`), all events of earlier processes are accounted for (`PastAccounted`),
and of this process all those up to a number the page has, has sent or is about to be
given (`ReadAccounted`). With one poll at a time answers also come in turn (`InTurn`), which
is half of `PastIsNotNews` (`Spec => []OnlyNews`). The other half is the console view: a run
that was over when the view started is the one it ignores (`PastIgnored`, in `RInv`).
Its list (`ListedSinceLook`, a part of `OnlyNews`) needs `LInv`: a field that is not what
was last seen has changed since (`MovedSinceLook`), and every change since the first
poll of the watch is of the watched run or a later one, or is a loss in a restart
(`ChangesOfWatch`). The steps of the server that alter the charger share one lemma
(`AlterKeeps`).

**FleetRun_proofs** -- what `collect.py` makes of diaries, for any generators, fleets,
retries, and runs started, interrupted and killed beside each other.

- `JoinedBelongTogether`: `join_split_runs` puts each run of the diaries into exactly
  one joined run, and any two parts of it belong together. That is about two recursions,
  one that grows a group and one that takes groups away, over a set of runs of any
  size. `Recursion` shows that a function exists whose calls are all of a smaller rank
  (`SubsetRecursion`: of a larger, or a smaller, subset of a finite set), and
  `NoSubset` that what fails for no smallest set fails for none. The earliest run and
  the closest candidate exist, and are one, because the orders are total (`Lexical`).
- `FleetAlways`: `Spec => []FleetInv`. `Course` holds of every run: where its chargers may
  be in each phase, and that a totals line is written only when all have ended, with
  their number. `Story` holds of a run whose diary is `Intact` and is about its lines
  in the file followed by those in the buffer (`Lines`): a charger's lines come after
  the one that announces it, its outcome is there once exactly if it has one, with
  all its connections, and no connection is there that it did not have. A flush moves lines
  and changes nothing that `Lines` says; every other step adds one line (`EmitIs`) or
  none, and one lemma per action says which. A kill cuts the lines at some point, so of a killed run
  only what is true of every prefix is claimed (`SpawnedFirst`).
- `NobodyTwice`: `Spec => []NobodyCountedTwice`. Parts of a joined run announce different
  chargers, and an intact diary mentions only chargers it announces.
- `CompleteRunsAreWhole`: `Spec => []CompleteIsWhole`. A totals line says that the run
  finished, so nothing is left in its buffer and `Story` speaks of the file itself.

## Where code and documentation disagree

Shown by a run:

- `second_session`. A connection lost between the acknowledged end of a
  transaction and the acknowledged status makes the charger charge again
  (`agent/station.py:1220` against `378-381`).

Seen while modelling. Present in the modules unless marked *outside*; each is why the
property named, if one is, carries the exception it does.

Keys and migration:

- Every RequestPQEnrolment pushes the key before the current one out, also when the
  rotation then fails (`agent/pq_identity.py:221-227`, against its docstring at 307);
  after two unsuccessful rotations the server challenges a key the charger no
  longer has, and the next boot check closes it. `OneRotationSurvived` says up to where
  it goes well, `KeysOutliveCrash` excepts it ("two newer ones").
- A migration takes in stations that are migrated already; one that does not answer
  RequestPQEnrolment is un-enrolled and loses a working key
  (`orchestrator.py:517`, `700`, against `502-504`).
- Rolling back a second migration un-enrols stations instead of giving them
  back the key of the first (`orchestrator.py:722`; `api.py:193`).
- A rotation that commits while a boot check waits makes it compare the right
  signature with the new key and close the charger (`boot_verifier.py:134`,
  against `pq_auth.py:143-144`). `ClosedForCause` excepts it.
- A boot check that fails because its station was un-enrolled meanwhile closes a
  charger that is classical again (`csms/migration.py:663`).
- A passed migration check marks the connection that is current then, which may
  be newer than the one that answered (`csms/migration.py:522`); likewise a late
  BootNotification marks the newer session as booted (`handlers.py:329`).
- A rollback in the middle of a wave is counted again when the wave ends
  (`orchestrator.py:357`), so the counters exceed the total (`api.py:105` says
  they sum to it); `migration_waves` therefore excludes manual rollback. A station
  of that wave that still waits for its key is enrolled and migrated afterwards.
- Rolled-back stations take part in the next migration (`identity.py:49-51` calls
  the state terminal), and `current_algorithm` keeps its value after a rollback
  (`identity.py:73`).
- *Outside:* a charger killed in a save leaves a temporary file with a private key;
  the directory is not synced; a key file that cannot be read makes the charger
  start without a key.

Charger and server:

- A profile that arrives while a meter event awaits its reply is reported as a
  periodic reading, because `_limit_changed` is cleared afterwards
  (`station.py:1288` against `station.py:257`).
- A loss in transit is logged as the offline queue's when the next event the server
  sees is a replayed one (`handlers.py:546-554`).
- An event handled after a newer one lowers `last_seq_no`, can log a loss that was
  none and can revive an ended transaction (`registry.py:914`). `NoGhost`,
  `LossesLogged` and `PowerIsNewest` name this exception.
- The retry counter is never reset by a successful connection (`station.py:1605`),
  while `backoff.py:192` says that a station carries no stale multiplier; a charger
  whose attempts are used up logs that the CSMS "never became reachable" even if it
  had been connected. FleetRun counts the attempts that way.
- A fleet limit is not sent to chargers that connect later (`dispatch.py:549`);
  `AcceptedInForce` says what such a charger's limit is.
- *Outside:* an integer too large for a float, or an infinite `evseId`, leaves the
  profile parser as `OverflowError`, while its docstring promises `ProfileRejected`
  "and nothing else" (`charging_profile.py:322`).

Database:

- A flush that fails forgets an enrolment until the key is next changed
  (`persistence.py:612` against `616-618`). `DiskIsOneMoment` excepts its rows.
- The row of a superseded session is never closed (`registry.py:429`; the docstring
  says "the old one is reported closed"). A transaction replaced without an Ended is
  never ended. After a lost write of an end, the next Ended closes the old row with its
  own energy. A transaction of which only the Ended was handled has no row. The
  first reading of a transaction is stored under the one before, or under none.
- The raw value of a reading with an unknown unit is applied (`metering.py:153`), while
  the warning says the field "will stay empty" (`handlers.py:592`).

Observers and generators:

- A reader of `/api/events` further behind than a page skips lines, because
  `last_seq` is the newest number and not that of the page (`events.py:264`). After a
  restart the numbers start again, and a reader skips those up to its own.
- Two polls of the page may be out at once (`app.js:1115`); then events are repeated
  and old ones may raise alerts, against `app.js:206`. `OnlyNews` excepts overlaps.
- When a watch begins, `Tracker.update` clears the list, "start the change
  list fresh" (`watch_migration.py:218`), and resets `states`, but not `keys`. In that
  same poll lines 239-242 list a key replaced since the poll before: by an earlier run
  that the view never saw, or by a rollback of the finished run it ignores
  (`orchestrator.py:348`). Poll, a rotation that starts and ends, a second run, poll: the
  second run is watched and the key change of the first is listed. `ListedSinceLook`, in
  `OnlyNews`, says what does hold: no such line is older than the poll before the watch,
  and states are not concerned.
- A run that ends between the start of the watcher and its first poll that works is
  ignored; a watcher that waits for one run may summarise a later one; the letter of a
  rotation says that the last check passed even if the wave was rolled back.
- Without the supervisor, one slow poll after the restart is taken for the kill, and
  earlier recoveries are not counted (`e2_storm.py:61`, `load_generator.py:467-470`).
  `recovery` is the supervised storm.
- A killed generator's half line is glued to the first line of the next run in that
  file, whose `run_started` is lost and counted as unreadable; `CompleteIsWhole` and
  `NobodyCountedTwice` except diaries with such holes.

## Only model-checked, and not modelled

Only model-checked:

- all liveness -- `RunEnds`, `BootSettled`, `RunsOut`, `ComesBack`, `EndIsReported` -- because
  the prover does not do fairness or `ENABLED`.

Every other property of a passing run is a theorem. Induction theorems that take a
predicate as a parameter cannot be instantiated; where the models compute with
recursive functions the proofs go by a least counterexample instead, with sets and
functions as parameters (`Least`, `NoneLeast`, `UpTo`).
`CountersAddUp` is checked and proved without manual rollback only, for the reason above.

Not modelled, with the reason:

- certificates, TLS, the cryptographic libraries and file formats: keys are symbols and a
  signature verifies exactly for the key it was made with;
- delays, rates and jitter: a sleep ends at any later moment (order of the stagger
  is kept), so nothing is said about how long anything takes;
- the authorization policy, a stateless lookup whose answer is a choice in
  StationAgent; settings and command lines; the GPIO backend;
- TriggerMessage, heartbeats and status handlers: they change nothing the
  properties tell apart;
- in FleetRun: a flush of the diary that fails, a line torn by anything but a kill, a
  second Ctrl-C;
- the drawing of dashboard and console, and `dashboard/mock.py`, which invents data;
- the measures E1 and E3 to E6, statistics and reports: pure functions of recorded
  logs with no state of their own;
- experiments and evidence: one-off programs and recorded data.

`PROJECT.json` gives the status of each part.

## What is left

1. Restart and BootCheck together: a server that is killed while checks are open. Each is
   proved about beside Migration, from the same lemmas.
2. The delays of `Backoff` as a function of the attempt: monotone, bounded.
3. The measures' matching of the two logs (`analysis/match.py`) for all of E1 to E4;
   Storm has the part that E2 uses.
4. Rows with events that overtake each other, as Reporting has them.

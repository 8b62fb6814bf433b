------------------------------ MODULE FleetRun --------------------------------
(***************************************************************************)
(* Load generators and what the analysis reads of them.                    *)
(*                                                                         *)
(*   - harness/load_generator.py main, main_async, FleetRunner: a process  *)
(*     that starts its chargers one after another, waits for all of them   *)
(*     and writes its totals; it may be stopped with Ctrl-C or killed;     *)
(*   - agent/station.py ChargingStation.run: dial, serve, wait, retry;     *)
(*   - agent/backoff.py should_retry, and TimingLog;                        *)
(*   - Diary, the reading side (analysis/collect.py).                      *)
(*                                                                         *)
(* Several generators may run at once, and one may be started again while  *)
(* its first run is still going. The server is a dial that succeeds or not *)
(* and a session that is lost or completes; Storm models it.               *)
(***************************************************************************)
EXTENDS Diary

CONSTANTS
  MaxAttempts \* max_attempts, 0: for ever

ASSUME FleetAssumption == MaxAttempts \in Nat

VARIABLES
  phase, \* [Runs -> "off", "running", "cancelled", "finished", "interrupted", "killed"]
  life   \* [Runs -> [Stations -> Life]] the charger's coroutine

vars == <<now, logVars, phase, life>>

\* Where a charger's coroutine is, ChargingStation.run's attempt, and how many
\* connections it had.
Life(at, attempt, connects) == [at |-> at, attempt |-> attempt, connects |-> connects]

Absent == Life("absent", 0, 0)
Over == {"ok", "failed", "crashed", "dropped"}

Init ==
  /\ LogInit
  /\ phase = [r \in Runs |-> "off"]
  /\ life = [r \in Runs |-> [s \in Stations |-> Absent]]

Of(r) == Fleet[Gen[r]]
Log(r, what, s, n, ok, fault) ==
  UNCHANGED now /\ Emit(r, Gen[r], Entry(what, s, n, ok), fault)

\* main_async up to the first await: RUN_STARTED, synced, and one task for
\* every charger. Runs are numbered as they are started.
Launch(r) ==
  /\ phase[r] = "off" /\ \A q \in Runs : q < r => phase[q] # "off"
  /\ now' = now + 1
  /\ phase' = [phase EXCEPT ![r] = "running"]
  /\ EmitAndSync(r, Gen[r], Entry("run_started", 0, 0, TRUE))
  /\ life' = [life EXCEPT ![r] = [s \in Stations |->
       IF s \in Of(r) THEN Life("staggered", 0, 0) ELSE Absent]]

\* _delay_for and delay_for are sleeps: a charger goes on at any later moment.
At(r, s, places) == phase[r] = "running" /\ life[r][s].at \in places
Goes(r, s, to) == life' = [life EXCEPT ![r][s] = to]

\* _delay_for: with the default stagger_jitter of one half no charger overtakes
\* the one before it.
Turn(r, s) == \A x \in Of(r) : x < s => life[r][x].at # "staggered"

\* _run_station, after the stagger.
Spawn(r, s) ==
  /\ At(r, s, {"staggered"}) /\ Turn(r, s)
  /\ Goes(r, s, Life("offline", 1, 0))
  /\ Log(r, "station_spawned", s, 0, TRUE, 0)
  /\ UNCHANGED <<now, phase>>

\* run_once opens a connection; _connected_hook writes it down at once.
Connect(r, s) ==
  /\ At(r, s, {"offline"})
  /\ LET l == life[r][s] IN
     /\ Goes(r, s, Life("connected", l.attempt, l.connects + 1))
     /\ Log(r, "station_connected", s, l.connects + 1, TRUE, 0)
  /\ UNCHANGED <<now, phase>>

\* The finally of _run_station: the outcome is copied and written.
Ends(r, s, how, fault) ==
  /\ Goes(r, s, [life[r][s] EXCEPT !.at = how])
  /\ Log(r, IF how = "crashed" THEN "station_crashed" ELSE "station_finished",
         s, life[r][s].connects, how = "ok", fault)
  /\ UNCHANGED <<now, phase>>

\* should_retry, of the attempt about to be made.
ShouldRetry(attempt) == MaxAttempts = 0 \/ attempt <= MaxAttempts

\* The dial fails or the connection is lost: another attempt after the delay,
\* counted on from all earlier ones, or none.
Retry(r, s) ==
  /\ At(r, s, {"offline", "connected"})
  /\ LET l == life[r][s] IN
     IF ShouldRetry(l.attempt + 1)
     THEN /\ Goes(r, s, Life("offline", l.attempt + 1, l.connects))
          /\ Fault(1)
          /\ UNCHANGED <<now, buffer, file, first, last, torn, unreadable, lost, phase>>
     ELSE Ends(r, s, "failed", 1)

\* The session completes, or the server answers with an error (CallFailed
\* without a timeout): run returns _session_ok.
Complete(r, s) ==
  /\ At(r, s, {"connected"})
  /\ Ends(r, s, "ok", 0) \/ Ends(r, s, "failed", 1)

\* Anything else that is raised is the harness's "crashed".
Crash(r, s) ==
  /\ At(r, s, {"offline", "connected"})
  /\ Ends(r, s, "crashed", 1)

-----------------------------------------------------------------------------
(* The end of a run.                                                       *)

AllOver(r) == \A s \in Of(r) : life[r][s].at \in Over
With(r, how) == {s \in Of(r) : life[r][s].at = how}

\* gather has returned: the totals, and the with-block closes the log.
Finish(r) ==
  /\ phase[r] = "running" /\ AllOver(r)
  /\ phase' = [phase EXCEPT ![r] = "finished"]
  /\ UNCHANGED <<now, life>>
  /\ EmitAndSync(r, Gen[r], Entry("run_finished", 0, Cardinality(With(r, "ok")),
                                  With(r, "crashed") = {}))

\* Ctrl-C: gather is cancelled, and with it every task that is not done.
Interrupt(r) ==
  /\ phase[r] = "running" /\ ~AllOver(r)
  /\ phase' = [phase EXCEPT ![r] = "cancelled"]
  /\ Fault(1)
  /\ UNCHANGED <<now, buffer, file, first, last, torn, unreadable, lost, life>>

\* A cancelled task: in its stagger it leaves no line, later its outcome.
Cancel(r, s) ==
  /\ phase[r] = "cancelled" /\ s \in Of(r) /\ life[r][s].at \notin Over
  /\ IF life[r][s].at = "staggered"
     THEN /\ Goes(r, s, [life[r][s] EXCEPT !.at = "dropped"])
          /\ UNCHANGED <<now, logVars, phase>>
     ELSE Ends(r, s, "failed", 0)

\* Mutant of Quit: the totals are written on every way out.
QuitWithTotals(r) ==
  /\ phase[r] = "cancelled" /\ AllOver(r)
  /\ phase' = [phase EXCEPT ![r] = "interrupted"]
  /\ UNCHANGED <<now, life>>
  /\ EmitAndSync(r, Gen[r], Entry("run_finished", 0, Cardinality(With(r, "ok")), TRUE))

\* The CancelledError passes main_async: no totals, but the log is closed.
Quit(r) ==
  /\ phase[r] = "cancelled" /\ AllOver(r)
  /\ phase' = [phase EXCEPT ![r] = "interrupted"]
  /\ Close(r, Gen[r])
  /\ UNCHANGED <<now, life>>

Kill(r) ==
  /\ phase[r] \in {"running", "cancelled"}
  /\ phase' = [phase EXCEPT ![r] = "killed"]
  /\ UNCHANGED <<now, life>>
  /\ Die(r, Gen[r])

\* 0 only after a whole run in which somebody succeeded and nobody crashed.
ExitStatus(r) ==
  IF phase[r] = "interrupted" THEN 130
  ELSE IF With(r, "crashed") = {} /\ With(r, "ok") # {} THEN 0 ELSE 1

Next ==
  \E r \in Runs :
       \/ Launch(r)
       \/ \E s \in Stations :
            Spawn(r, s) \/ Connect(r, s) \/ Retry(r, s) \/ Complete(r, s)
            \/ Crash(r, s) \/ Cancel(r, s)
       \/ Finish(r) \/ Interrupt(r) \/ Quit(r) \/ Kill(r)

Spec == Init /\ [][Next]_vars

-----------------------------------------------------------------------------
(* Properties.                                                             *)

\* analyse_at_end: the diaries are read whenever a generator ends by itself or
\* with Ctrl-C.
Analysed == \E r \in Runs : phase[r] \in {"finished", "interrupted"}

\* Nothing got lost on the way to the file, and nothing in it is unreadable.
Intact(r) == lost[r] = 0 /\ unreadable[Gen[r]] = 0

\* The chargers a run's diary has lines of.
Mentioned(r) == {file[r][i].station : i \in 1..Len(file[r])} \ {0}

\* The chargers whose outcome in the diary is "ok".
Succeeded(r) == {s \in Of(r) : \E j \in Outcomes(r, s) : file[r][j].ok}

\* A run the analysis takes for complete is whole: unless its diary has lines
\* that could not be written or read, every charger of every part has exactly
\* one outcome, with every connection it ever had, and the totals are those of
\* the outcomes, as is the exit status. A run stopped or killed never is: it "is then marked
\* incomplete" (load_generator.py:1061, collect.py completed, connect_times).
CompleteIsWhole ==
  Analysed => \A parts \in JoinedRuns : Completed(parts) =>
    \A r \in parts : Intact(r) =>
      /\ phase[r] = "finished"
      /\ \A s \in Of(r) : Cardinality(Outcomes(r, s)) = 1
      /\ \A s \in Of(r) : ConnectTimes(r, s) = life[r][s].connects
      /\ \A i \in OfType(r, "run_finished") :
           file[r][i].n = Cardinality(Succeeded(r))
      /\ ExitStatus(r) = 0 <=> Succeeded(r) # {} /\ OfType(r, "station_crashed") = {}

\* No charger counts twice in one run, however often a generator was started
\* again beside another: no two parts of a run have lines of the same charger
\* ("each copy matched CP0001-CP0020, so both were chained into one run of 70
\* chargers", collect.py:74).
NobodyCountedTwice ==
  Analysed => \A parts \in JoinedRuns : \A a, b \in parts :
    (a # b /\ Intact(a) /\ Intact(b)) => Mentioned(a) \cap Mentioned(b) = {}
=============================================================================

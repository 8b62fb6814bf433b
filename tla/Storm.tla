-------------------------------- MODULE Storm ---------------------------------
(***************************************************************************)
(* The reconnection storm: the server is killed and started again, every   *)
(* charger dials in again, boots and is key-checked, while a watcher polls *)
(* the fleet and the analysis measures the recovery from the logs.         *)
(*                                                                         *)
(*   - csms/server.py on_connect, csms/registry.py register and            *)
(*     deregister, csms/handlers.py boot handlers, csms/migration.py       *)
(*     check_after_boot, csms/fleet.py is_recovered;                       *)
(*   - harness/load_generator.py ServerSupervisor and FleetWatcher;        *)
(*   - analysis/measures/e2_storm.py, a function of the two logs.          *)
(*                                                                         *)
(* What one boot check does in detail is BootCheck's subject; here it has  *)
(* a verdict, and the set of enrolled chargers is fixed.                   *)
(***************************************************************************)
EXTENDS Naturals, Sequences, FiniteSets

CONSTANTS
  Stations,
  Enrolled,   \* chargers the server holds a key of (restored at each start)
  Keyed,      \* chargers that can sign with that key
  MaxLosses,  \* bound: connections lost and checks timed out otherwise
  MaxConn,    \* bound: connections of one charger
  MaxPolls    \* bound: polls of the watcher

ASSUME StormAssumption ==
  /\ Enrolled \subseteq Stations /\ Keyed \subseteq Stations
  /\ MaxLosses \in Nat /\ MaxPolls \in Nat
  /\ MaxConn \in Nat \ {0}

Conns == 1..MaxConn
Runs == 1..2   \* before and after the kill

\* A line of a log: what, and of which charger (0: of the server).
Line(what, s) == [what |-> what, station |-> s]
Kinds == {"booted", "check_ok", "check_failed", "server_started",
          "supervisor_kill", "poll_kill", "supervisor_restart", "poll_restart"}

VARIABLES
  up,        \* the server process runs
  run,       \* run_id, counted from 1
  storm,     \* ServerSupervisor.storm: "before", "killing", "down", "over"
  opened,    \* [Stations -> 0..MaxConn] connections dialled so far
  link,      \* [Stations -> 0..MaxConn] the charger's connection, 0 if none
  session,   \* [Stations -> 0..MaxConn] the registry's session, 0 if none
  handlers,  \* [Stations -> SUBSET Conns] on_connect calls that still run
  boot,      \* [Stations -> [Conns -> BootState]]
  booted,    \* [Stations -> SUBSET Conns] StationSession.boot_accepted
  verified,  \* [Stations -> SUBSET Conns] StationSession.pq_verified
  losses,    \* connections lost and checks timed out (bound)
  poll,      \* <<>>, or <<r>> while run r was asked, <<0>> while no server was
  polls,     \* polls so far (bound)
  reachable, \* FleetWatcher._was_reachable
  lastRun,   \* FleetWatcher.last_run_id, 0 before the first answer
  log        \* the server's and the harness's lines, in order of time

serverVars  == <<up, run, storm>>
chargerVars == <<opened, link>>
checkVars   == <<session, handlers, boot, booted, verified>>
pollVars    == <<poll, polls, reachable, lastRun>>
vars == <<serverVars, chargerVars, checkVars, losses, pollVars, log>>

\* BootNotification. "none": not sent yet; "sent"; "answered"; "checking"; "over".
BootState == {"none", "sent", "answered", "checking", "over"}

\* Types; and a session belongs to a connection that is still being served:
\* "a registry that leaks sessions reports a fleet larger than the one that
\* exists" (csms/server.py on_connect).
StormTypeOK ==
  /\ up \in BOOLEAN /\ run \in Runs
  /\ storm \in {"before", "killing", "down", "over"}
  /\ opened \in [Stations -> 0..MaxConn]
  /\ link \in [Stations -> 0..MaxConn]
  /\ session \in [Stations -> 0..MaxConn]
  /\ handlers \in [Stations -> SUBSET Conns]
  /\ \A s \in Stations : session[s] \in handlers[s] \cup {0}
  /\ boot \in [Stations -> [Conns -> BootState]]
  /\ booted \in [Stations -> SUBSET Conns]
  /\ verified \in [Stations -> SUBSET Conns]
  /\ losses \in 0..MaxLosses
  /\ poll \in {<<>>} \cup {<<r>> : r \in Runs \cup {0}}
  /\ polls \in 0..MaxPolls
  /\ reachable \in BOOLEAN
  /\ lastRun \in Runs \cup {0}
  /\ \A i \in 1..Len(log) : log[i] \in [what : Kinds, station : Stations \cup {0}]

\* The harness starts with the server up and nobody connected.
StormInit ==
  /\ up = TRUE /\ run = 1 /\ storm = "before"
  /\ opened = [s \in Stations |-> 0]
  /\ link = [s \in Stations |-> 0]
  /\ session = [s \in Stations |-> 0]
  /\ handlers = [s \in Stations |-> {}]
  /\ boot = [s \in Stations |-> [n \in Conns |-> "none"]]
  /\ booted = [s \in Stations |-> {}]
  /\ verified = [s \in Stations |-> {}]
  /\ losses = 0
  /\ poll = <<>> /\ polls = 0 /\ reachable = TRUE /\ lastRun = 0
  /\ log = <<>>

Logged(what, s) == log' = Append(log, Line(what, s))
Becomes(s, n, st) == boot' = [boot EXCEPT ![s][n] = st]

-----------------------------------------------------------------------------
(* Connections.                                                            *)

\* The charger dials and register() replaces a session that was left behind.
Dial(s) ==
  /\ up /\ link[s] = 0 /\ opened[s] < MaxConn
  /\ opened' = [opened EXCEPT ![s] = @ + 1]
  /\ link' = [link EXCEPT ![s] = opened'[s]]
  /\ session' = [session EXCEPT ![s] = opened'[s]]
  /\ handlers' = [handlers EXCEPT ![s] = @ \cup {opened'[s]}]
  /\ UNCHANGED <<serverVars, boot, booted, verified, losses, pollVars, log>>

\* The network fails: the charger notices, the server not yet.
LoseLink(s) ==
  /\ link[s] # 0 /\ losses < MaxLosses
  /\ losses' = losses + 1
  /\ link' = [link EXCEPT ![s] = 0]
  /\ UNCHANGED <<serverVars, opened, checkVars, pollVars, log>>

\* Mutant of StillCurrent: whichever session there is.
AnySession(s, n) == session[s] # 0

\* deregister removes a session only for the connection that has it.
StillCurrent(s, n) == session[s] = n

\* The handler of a dead connection unwinds: on_connect's finally.
Unwind(s, n) ==
  /\ n \in handlers[s] /\ link[s] # n
  /\ handlers' = [handlers EXCEPT ![s] = @ \ {n}]
  /\ session' = [session EXCEPT ![s] = IF StillCurrent(s, n) THEN 0 ELSE @]
  /\ UNCHANGED <<serverVars, chargerVars, boot, booted, verified, losses, pollVars, log>>

-----------------------------------------------------------------------------
(* Boot and key check.                                                     *)

SendBoot(s) ==
  /\ link[s] # 0 /\ boot[s][link[s]] = "none"
  /\ Becomes(s, link[s], "sent")
  /\ UNCHANGED <<serverVars, chargerVars, session, handlers, booted, verified,
                 losses, pollVars, log>>

\* on_boot_notification: marks the current session, logs "booted".
ReadBoot(s, n) ==
  /\ n \in handlers[s] /\ boot[s][n] = "sent"
  /\ Becomes(s, n, "answered")
  /\ booted' = [booted EXCEPT ![s] = @ \cup ({session[s]} \ {0})]
  /\ Logged("booted", s)
  /\ UNCHANGED <<serverVars, chargerVars, session, handlers, verified, losses, pollVars>>

\* notify_boot, after the reply: a boot of the current connection is checked.
AnnounceBoot(s, n) ==
  /\ n \in handlers[s] /\ boot[s][n] = "answered"
  /\ Becomes(s, n, IF session[s] = n /\ n \in booted[s] /\ s \in Enrolled
                   THEN "checking" ELSE "over")
  /\ UNCHANGED <<serverVars, chargerVars, session, handlers, booted, verified,
                 losses, pollVars, log>>

\* The challenge goes to the station's current connection.
Reaches(s) == session[s] # 0 /\ link[s] = session[s]

\* mark_pq_verified: nothing when the session is no longer the one checked.
MarkVerified(s, n) == verified' = [verified EXCEPT ![s] = @ \cup ({n} \cap {session[s]})]

CheckPasses(s, n) ==
  /\ up /\ boot[s][n] = "checking"
  /\ Reaches(s) /\ s \in Keyed
  /\ Becomes(s, n, "over")
  /\ Logged("check_ok", s)
  /\ MarkVerified(s, n)
  /\ UNCHANGED <<serverVars, chargerVars, session, handlers, booted, losses, pollVars>>

\* Mutant of LinkAfterFailure: the connection stays open.
LinkStays(s, n) == link[s]

\* A failed check closes the connection (1008) if it is still the current one.
LinkAfterFailure(s, n) == IF session[s] = n /\ link[s] = n THEN 0 ELSE link[s]

CheckFails(s, n) ==
  /\ up /\ boot[s][n] = "checking"
  /\ Becomes(s, n, "over")
  /\ IF Reaches(s) /\ s \in Keyed
     THEN losses < MaxLosses /\ losses' = losses + 1  \* the answer is late
     ELSE UNCHANGED losses
  /\ Logged("check_failed", s)
  /\ link' = [link EXCEPT ![s] = LinkAfterFailure(s, n)]
  /\ UNCHANGED <<serverVars, opened, session, handlers, booted, verified, pollVars>>

\* _pq_check_required in hybrid mode.
PqCheckRequired(s) == s \in Enrolled

\* _build_view: what the fleet view says of s, its session's fields if it has one.
View(s) ==
  [connected         |-> session[s] # 0,
   boot_accepted     |-> session[s] \in booted[s],
   pq_verified       |-> session[s] \in verified[s],
   pq_check_required |-> PqCheckRequired(s)]

\* Mutant of IsRecovered: the handshake is taken for the boot.
RecoveredOnConnect(s) ==
  View(s).connected /\ (View(s).pq_check_required => View(s).pq_verified)

\* StationView.is_recovered.
IsRecovered(s) ==
  /\ View(s).connected
  /\ View(s).boot_accepted
  /\ View(s).pq_check_required => View(s).pq_verified

-----------------------------------------------------------------------------
(* The outage.                                                             *)

\* The supervisor stamps the kill, then terminates the process.
Stamp ==
  /\ storm = "before"
  /\ storm' = "killing"
  /\ Logged("supervisor_kill", 0)
  /\ UNCHANGED <<up, run, chargerVars, checkVars, losses, pollVars>>

\* Everything in memory is gone, and every socket with it.
Kill ==
  /\ up /\ storm = "killing"
  /\ up' = FALSE /\ storm' = "down"
  /\ link' = [s \in Stations |-> 0]
  /\ session' = [s \in Stations |-> 0]
  /\ handlers' = [s \in Stations |-> {}]
  /\ boot' = [s \in Stations |-> [n \in Conns |-> "none"]]
  /\ booted' = [s \in Stations |-> {}]
  /\ verified' = [s \in Stations |-> {}]
  /\ UNCHANGED <<run, opened, losses, pollVars, log>>

\* The server logs server_started; the supervisor goes on to its second stamp.
Start ==
  /\ ~up
  /\ up' = TRUE /\ run' = run + 1
  /\ storm' = "over"
  /\ log' = log \o <<Line("server_started", 0), Line("supervisor_restart", 0)>>
  /\ UNCHANGED <<chargerVars, checkVars, losses, pollVars>>

-----------------------------------------------------------------------------
(* FleetWatcher.run.                                                       *)

Ask ==
  /\ poll = <<>> /\ polls < MaxPolls
  /\ polls' = polls + 1
  /\ poll' = IF up THEN <<run>> ELSE <<0>>
  /\ UNCHANGED <<serverVars, chargerVars, checkVars, losses, reachable, lastRun, log>>

\* One line for "reachable again", one for another run_id: a restart whose
\* outage was noticed is marked twice.
RestartLines ==
  (IF reachable THEN <<>> ELSE <<Line("poll_restart", 0)>>) \o
  (IF lastRun \in {0, run} THEN <<>> ELSE <<Line("poll_restart", 0)>>)

PollAnswered ==
  /\ up /\ poll = <<run>>
  /\ log' = log \o RestartLines
  /\ reachable' = TRUE
  /\ lastRun' = run
  /\ poll' = <<>>
  /\ UNCHANGED <<serverVars, chargerVars, checkVars, losses, polls>>

\* Refused, reset, or no answer within timeout_s: the server need not be down.
PollFails ==
  /\ poll # <<>>
  /\ log' = log \o IF reachable THEN <<Line("poll_kill", 0)>> ELSE <<>>
  /\ reachable' = FALSE
  /\ poll' = <<>>
  /\ UNCHANGED <<serverVars, chargerVars, checkVars, losses, polls, lastRun>>

-----------------------------------------------------------------------------
StormNext ==
  \/ \E s \in Stations :
       \/ Dial(s) \/ LoseLink(s) \/ SendBoot(s)
       \/ \E n \in Conns :
            \/ Unwind(s, n) \/ ReadBoot(s, n) \/ AnnounceBoot(s, n)
            \/ CheckPasses(s, n) \/ CheckFails(s, n)
  \/ Stamp \/ Kill \/ Start
  \/ Ask \/ PollAnswered \/ PollFails

StormSpec == StormInit /\ [][StormNext]_vars

\* Chargers retry for ever (BackoffPolicy, max_attempts 0), the server's event
\* loop serves every connection, and a killed server is started again. Nothing
\* obliges the network to fail or the server to notice a dead connection.
FairStormSpec ==
  /\ StormSpec
  /\ WF_vars(Start)
  /\ \A s \in Stations :
       /\ WF_vars(Dial(s)) /\ WF_vars(SendBoot(s))
       /\ \A n \in Conns :
            /\ WF_vars(ReadBoot(s, n)) /\ WF_vars(AnnounceBoot(s, n))
            /\ WF_vars(CheckPasses(s, n) \/ CheckFails(s, n))

-----------------------------------------------------------------------------
(* e2_storm.measure: what the analysis makes of the logs.                  *)

At(what) == {i \in 1..Len(log) : log[i].what = what}
Of(what, s) == {i \in At(what) : log[i].station = s}
First(I) == IF I = {} THEN 0 ELSE CHOOSE i \in I : \A j \in I : i <= j
After(I, t) == {i \in I : i >= t}

KillTime ==
  IF At("supervisor_kill") # {} THEN First(At("supervisor_kill"))
                                ELSE First(At("poll_kill"))

\* The first server_started from the kill on, else the harness's own mark.
RestartTime ==
  LET started == After(At("server_started"), KillTime)
      marked  == After(At("supervisor_restart") \cup At("poll_restart"), KillTime)
  IN  IF started # {} THEN First(started)
      ELSE IF KillTime # 0 THEN First(marked) ELSE 0

Cutoff == IF KillTime # 0 THEN KillTime ELSE RestartTime

\* Who had to recover, and who is counted as recovered.
Population == {s \in Stations : \E i \in Of("booted", s) : i < Cutoff}

KeyChecked(s) == Of("check_ok", s) \cup Of("check_failed", s) # {}

Counted ==
  {s \in Population :
     /\ After(Of("booted", s), RestartTime) # {}
     /\ KeyChecked(s) => After(Of("check_ok", s), RestartTime) # {}}

-----------------------------------------------------------------------------
(* Properties.                                                             *)

\* No recovery is missed: once the server has been started again, a charger
\* of the population that the fleet view shows recovered is counted by the
\* analysis ("the same rule as Track A's is_recovered", e2_storm.py:28).
RecoveryCounted ==
  (run > 1 /\ up /\ RestartTime # 0) =>
    \A s \in Population : IsRecovered(s) => s \in Counted

\* A charger that holds an open connection is the registry's session, however
\* late the handlers of its older connections unwind (registry.py deregister).
LiveSessionKept ==
  \A s \in Stations : link[s] # 0 => session[s] = link[s]

\* Every charger that can pass its check (or needs none) is recovered in the
\* end and stays so, whatever happened before.
ComesBack ==
  \A s \in Stations :
    (s \in Keyed \/ s \notin Enrolled) => <>[](up /\ IsRecovered(s))
=============================================================================

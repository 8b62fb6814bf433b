---------------------------- MODULE StationAgent ----------------------------
(***************************************************************************)
(* One charger (agent/station.py ChargingStation) over all its connections:*)
(* the charging session, the physical state and the power it draws, the    *)
(* readings kept while the server is away (agent/offline_queue.py) and     *)
(* replayed after it is back, and the commands that arrive between any two *)
(* of its steps.                                                           *)
(*                                                                         *)
(* The session coroutine sends one request at a time and awaits its reply; *)
(* `pc` names the await.  Commands are handled synchronously in the        *)
(* receive loop while the coroutine waits.  The server is left open here:  *)
(* it answers or it does not (Reporting adds what it does).                *)
(***************************************************************************)
EXTENDS Integers, Sequences

CONSTANTS
  MaxConn,      \* bound: connections the charger opens (max_attempts)
  MaxReadings,  \* bound: events a transaction numbers before its time is up
  QueueCap,     \* OfflineQueue.max_events
  MaxPower      \* max_power_w; limits are 0..MaxPower

ASSUME AgentAssumption ==
  /\ MaxConn \in Nat \ {0}
  /\ MaxReadings \in Nat \ {0}
  /\ QueueCap \in Nat \ {0}
  /\ MaxPower \in Nat \ {0}

Limits  == 0..MaxPower
TxIds   == 1..MaxConn        \* a connection starts at most one transaction
NoTx    == 0
\* After the last reading counted by MaxReadings each connection can still carry
\* the reading taken when time is up, and an Ended.
SeqNos  == 0..(MaxReadings + 2 * MaxConn)

\* StationState; station.py never enters suspended_ev and never calls fault().
StationState == {"available", "occupied", "charging", "suspended_evse"}
InTransaction == {"charging", "suspended_evse"}

\* _ALLOWED (a self-transition is a no-op; reset() to available always works).
Allowed ==
  {<<"available", "occupied">>}
    \cup ({"occupied"} \X {"charging", "suspended_evse", "available"})
    \cup ({"charging"} \X {"suspended_evse", "occupied", "available"})
    \cup ({"suspended_evse"} \X {"charging", "occupied", "available"})

\* charging_state of a transaction event, Idle outside a transaction state.
ChargingStates == {"none", "Charging", "SuspendedEVSE", "Idle"}
ChargingState(s) ==
  CASE s = "charging" -> "Charging" [] s = "suspended_evse" -> "SuspendedEVSE" [] OTHER -> "Idle"

EventTypes == {"Started", "Updated", "Ended"}
Requests   == {"none", "boot", "status", "authorize"} \cup EventTypes
Triggers   == {"none", "Authorized", "StopAuthorized", "MeterValuePeriodic",
               "ChargingStateChanged", "ChargingRateChanged"}

\* A request; the fields after `req` are those of a transaction event (a
\* reading is taken when its number is, so <<tx, seq>> also orders timestamps).
Request == [req : Requests, tx : {NoTx} \cup TxIds, seq : SeqNos, power : Limits,
            state : ChargingStates, trigger : Triggers, offline : BOOLEAN]
Plain(r) == [req |-> r, tx |-> NoTx, seq |-> 0, power |-> 0, state |-> "none",
             trigger |-> "none", offline |-> FALSE]

\* The requests without a transaction: boot, connector status, card.
BootRequest      == Plain("boot")
StatusRequest    == Plain("status")
AuthorizeRequest == Plain("authorize")

\* What the session coroutine awaits: nothing ("down": backing off, "asleep":
\* between two readings, "done") or the reply to a request.
Awaits == {"down", "boot", "arriving", "authorizing", "refused", "plugging", "starting",
           "asleep", "metering", "resyncing", "replaying", "ending", "leaving", "done"}

VARIABLES
  pc, conn,     \* the await; connections opened so far
  wire,         \* the request awaited on the current connection
  answered,     \* its reply has been sent
  st,           \* StationStateMachine.state
  contactor,    \* power.is_closed()
  backend,      \* power.get_power_limit()
  limit,        \* _limit_w, the operator's limit
  limitChanged, \* _limit_changed
  lastSent,     \* _last_charging_state_sent
  tx, txs,      \* transaction_id; transactions begun so far
  seq,          \* seq_no
  stop,         \* _stop_requested
  timeUp,       \* _charge_deadline has passed
  queue,        \* OfflineQueue._events
  queued, dropped, replayed,  \* its counters
  replaying,    \* the drained events not sent yet
  ok            \* _session_ok

sessionVars == <<pc, conn, wire, answered>>
powerVars   == <<st, contactor, backend, limit, limitChanged>>
txVars      == <<tx, txs, seq, stop, timeUp, lastSent>>
queueVars   == <<queue, queued, dropped, replayed, replaying>>
agentVars   == <<sessionVars, powerVars, txVars, queueVars, ok>>

AgentTypeOK ==
  /\ pc \in Awaits /\ conn \in 0..MaxConn
  /\ wire \in Request /\ answered \in BOOLEAN
  /\ st \in StationState /\ contactor \in BOOLEAN
  /\ backend \in Limits /\ limit \in Limits /\ limitChanged \in BOOLEAN
  /\ lastSent \in ChargingStates
  /\ tx \in {NoTx} \cup TxIds /\ txs \in {NoTx} \cup TxIds
  /\ seq \in SeqNos
  /\ stop \in BOOLEAN /\ timeUp \in BOOLEAN
  /\ queue \in Seq(Request) /\ Len(queue) <= QueueCap
  /\ queued \in Nat /\ dropped \in Nat /\ replayed \in Nat
  /\ replaying \in Seq(Request)
  /\ ok \in BOOLEAN

SessionInit ==
  /\ pc = "down" /\ conn = 0 /\ wire = Plain("none") /\ answered = FALSE
  /\ timeUp = FALSE /\ ok = FALSE

PowerInit ==
  /\ st = "available" /\ contactor = FALSE
  /\ backend = MaxPower /\ limit = MaxPower /\ limitChanged = FALSE

TxInit == tx = NoTx /\ txs = 0 /\ seq = 0 /\ stop = FALSE /\ lastSent = "none"

QueueInit == queue = <<>> /\ queued = 0 /\ dropped = 0 /\ replayed = 0 /\ replaying = <<>>

AgentInit == SessionInit /\ PowerInit /\ TxInit /\ QueueInit

-----------------------------------------------------------------------------
(* Building blocks.                                                        *)

Connected == pc \notin {"down", "done"}

\* The reply awaited at p has arrived; the coroutine runs on.
Replied(p) == pc = p /\ answered

\* The coroutine goes on to await p, having sent r.
Await(p, r) == pc' = p /\ wire' = r /\ answered' = FALSE /\ UNCHANGED conn

\* The state machine's one write, and the car driving off from any state.
Becomes(s) == st' = s
Reset == Becomes("available")

\* draws_power of state s.
DrawsPower(s) == s = "charging"

\* _apply_power_for_state after the state became s and the limit l.
ApplyPower(s, l) ==
  /\ Becomes(s) /\ limit' = l
  /\ contactor' = (s \in InTransaction)
  /\ backend' = IF DrawsPower(s) THEN l ELSE 0

\* The transaction event put together now, in state s.
Event(type, s, trigger, number) ==
  [req |-> type, tx |-> tx', seq |-> number,
   power |-> IF contactor' THEN backend' ELSE 0,
   state |-> ChargingState(s), trigger |-> trigger, offline |-> FALSE]

\* Mutants of EndTransaction: current keeps flowing until the report is out;
\* the id is dropped before the server has heard of the end.
EndTransactionLive(sent, changed) ==
  /\ st' = "occupied"
  /\ lastSent' = sent /\ limitChanged' = changed
  /\ UNCHANGED <<contactor, backend, limit, tx, txs, stop, timeUp>>
  /\ Await("ending", Event("Ended", "occupied", "StopAuthorized", seq))
  /\ seq' = seq + 1

EndTransactionEarly(sent, changed) ==
  /\ ApplyPower("occupied", limit)
  /\ lastSent' = sent /\ limitChanged' = changed
  /\ tx' = NoTx
  /\ Await("ending", [Event("Ended", "occupied", "StopAuthorized", seq) EXCEPT !.tx = tx])
  /\ seq' = seq + 1
  /\ UNCHANGED <<txs, stop, timeUp>>

\* _end_transaction up to the await: current off, then report.  `sent` and
\* `changed` are what the event just acknowledged left in _last_charging_state_sent
\* and _limit_changed.
EndTransaction(sent, changed) ==
  /\ ApplyPower("occupied", limit)
  /\ lastSent' = sent /\ limitChanged' = changed
  /\ UNCHANGED <<tx, txs, stop, timeUp>>
  /\ Await("ending", Event("Ended", "occupied", "StopAuthorized", seq))
  /\ seq' = seq + 1

\* The top of the metering loop, _charge_until_deadline.
LoopTop(sent, changed) ==
  IF timeUp
  THEN EndTransaction(sent, changed)
  ELSE /\ Await("asleep", Plain("none"))
       /\ lastSent' = sent /\ limitChanged' = changed
       /\ UNCHANGED <<st, contactor, backend, limit, tx, txs, seq, stop, timeUp>>

\* The charger is finished: run()'s finally opens the contactor.
Finish(success) ==
  /\ pc' = "done" /\ ok' = success
  /\ wire' = Plain("none") /\ answered' = FALSE
  /\ contactor' = FALSE
  /\ replaying' = <<>>
  /\ UNCHANGED <<conn, st, backend, limit, limitChanged, txVars,
                 queue, queued, dropped, replayed>>

-----------------------------------------------------------------------------
(* Connecting: run, run_once, _connected_lifecycle.                        *)

\* An attempt succeeds; BootNotification goes out.
Dial ==
  /\ pc = "down" /\ conn < MaxConn
  /\ conn' = conn + 1
  /\ pc' = "boot" /\ wire' = BootRequest /\ answered' = FALSE
  /\ UNCHANGED <<powerVars, txVars, queueVars, ok>>

\* The attempts are used up.
GiveUpDialling == pc = "down" /\ Finish(FALSE)

\* Accepted: the connector status goes out, a new connection has seen none.
\* With a transaction open the session is resumed.
Booted ==
  /\ Replied("boot")
  /\ Await(IF tx = NoTx THEN "arriving" ELSE "resyncing", StatusRequest)
  /\ UNCHANGED <<powerVars, txVars, queueVars, ok>>

\* Rejected, or still Pending after MAX_BOOT_ATTEMPTS.
BootRefused == Replied("boot") /\ Finish(FALSE)

\* Mutant of LoseConnection: a dead socket is only noticed between requests.
LoseIdleConnection ==
  /\ pc = "asleep"
  /\ pc' = "down" /\ wire' = Plain("none") /\ answered' = FALSE
  /\ UNCHANGED <<conn, powerVars, txVars, queueVars, ok>>

\* _open_contactor_if_session_over: the contactor stays closed while a
\* transaction is open -- "the car is still charging".
ContactorAfterLoss == contactor /\ tx # NoTx

\* The socket dies or the reply takes longer than response_timeout.  What was
\* drained and not sent is gone.
LoseConnection ==
  /\ Connected
  /\ pc' = "down" /\ wire' = Plain("none") /\ answered' = FALSE
  /\ contactor' = ContactorAfterLoss
  /\ replaying' = <<>>
  /\ UNCHANGED <<conn, st, backend, limit, limitChanged, txVars,
                 queue, queued, dropped, replayed, ok>>

\* The server answers with a CALLError: not retried.
CallError == wire.req # "none" /\ ~answered /\ Finish(FALSE)

\* Ctrl-C, or the harness.
Cancel == pc # "done" /\ Finish(FALSE)

-----------------------------------------------------------------------------
(* A fresh session: _charging_session.                                     *)

Arrived ==
  /\ Replied("arriving")
  /\ Await("authorizing", AuthorizeRequest)
  /\ UNCHANGED <<powerVars, txVars, queueVars, ok>>

\* A refused card is an answer, not a failure: the session ends after a pause.
CardRefused ==
  /\ Replied("authorizing")
  /\ Await("refused", Plain("none"))
  /\ UNCHANGED <<powerVars, txVars, queueVars, ok>>

RefusalOver == pc = "refused" /\ Finish(TRUE)

NewTransactionId == txs + 1

\* clear(): what an earlier transaction left is never replayed into this one.
ClearQueue == queue' = <<>>

\* transaction_id onwards: a new transaction, begun suspended when a 0 W limit
\* is already in force.
StartTransaction ==
  /\ txs < MaxConn
  /\ txs' = txs + 1 /\ tx' = NewTransactionId
  /\ stop' = FALSE /\ timeUp' = FALSE /\ lastSent' = "none"
  /\ ClearQueue
  /\ LET s == IF limit = 0 THEN "suspended_evse" ELSE "charging" IN
     /\ ApplyPower(s, limit)
     /\ Await("starting", Event("Started", s, "Authorized", 0))
  /\ seq' = 1
  /\ UNCHANGED <<limitChanged, queued, dropped, replayed, replaying, ok>>

\* The vehicle is plugged in; the status is sent unless this connection has
\* already been told Occupied.
PlugIn ==
  /\ Replied("authorizing") /\ st = "available"
  /\ Becomes("occupied")
  /\ Await("plugging", StatusRequest)
  /\ UNCHANGED <<contactor, backend, limit, limitChanged, txVars, queueVars, ok>>

StartCharging ==
  /\ Replied("plugging") \/ (Replied("authorizing") /\ st = "occupied")
  /\ StartTransaction

\* Started is acknowledged: what is remembered as sent is the state NOW.
Started ==
  /\ Replied("starting")
  /\ LoopTop(IF st \in InTransaction THEN ChargingState(st) ELSE "none", FALSE)
  /\ UNCHANGED <<queueVars, ok>>

-----------------------------------------------------------------------------
(* Metering.                                                               *)

\* _next_trigger_reason.
NextTrigger ==
  IF ChargingState(st) # lastSent THEN "ChargingStateChanged"
  ELSE IF limitChanged THEN "ChargingRateChanged"
  ELSE "MeterValuePeriodic"

\* The sleep ends -- the interval, the deadline or a command -- without a stop
\* request: one reading is sent.
Meter ==
  /\ pc = "asleep" /\ ~stop
  /\ seq < MaxReadings \/ timeUp
  /\ UNCHANGED <<powerVars, tx, txs, stop, timeUp, lastSent, queueVars, ok>>
  /\ Await("metering", Event("Updated", st, NextTrigger, seq))
  /\ seq' = seq + 1

\* The operator pressed stop.
StopCharging ==
  /\ pc = "asleep" /\ stop
  /\ EndTransaction(lastSent, limitChanged)
  /\ UNCHANGED <<queueVars, ok>>

\* The reading is acknowledged.
Metered ==
  /\ Replied("metering")
  /\ LoopTop(wire.state, FALSE)
  /\ UNCHANGED <<queueVars, ok>>

\* Ended is acknowledged; _finish_session: the car leaves.
Ended ==
  /\ Replied("ending")
  /\ tx' = NoTx /\ lastSent' = "none"
  /\ Reset
  /\ Await("leaving", StatusRequest)
  /\ UNCHANGED <<contactor, backend, limit, limitChanged, txs, seq, stop, timeUp,
                 queueVars, ok>>

\* Available is acknowledged: _session_complete.
Left == Replied("leaving") /\ Finish(TRUE)

-----------------------------------------------------------------------------
(* The outage: _wait_offline, _resume_transaction, offline_queue.py.       *)

\* A QueuedEvent: what the charger knew when the reading was taken.
QueuedEvent(number, power, state) ==
  [req |-> "Updated", tx |-> tx, seq |-> number, power |-> power,
   state |-> state, trigger |-> "MeterValuePeriodic", offline |-> TRUE]

\* A reading taken while nobody is listening.
OfflineReading == QueuedEvent(seq, IF contactor THEN backend ELSE 0, ChargingState(st))

\* OfflineQueue.append finds the queue at max_events: it drops its oldest.
Full == Len(queue) = QueueCap

MeterOffline ==
  /\ pc = "down" /\ tx # NoTx /\ ~timeUp
  /\ seq < MaxReadings
  /\ seq' = seq + 1
  /\ queued' = queued + 1
  /\ queue' = Append(IF Full THEN Tail(queue) ELSE queue, OfflineReading)
  /\ dropped' = dropped + (IF Full THEN 1 ELSE 0)
  /\ UNCHANGED <<sessionVars, powerVars, tx, txs, stop, timeUp, lastSent, replayed,
                 replaying, ok>>

\* Mutant of Drain: events leave the queue only when the session is over.
DrainLater(rest) ==
  /\ replaying' = rest
  /\ replayed' = replayed + Len(queue)
  /\ UNCHANGED <<queue, queued, dropped>>

\* drain() empties the queue before anything is sent.
Drain(rest) ==
  /\ replaying' = rest
  /\ replayed' = replayed + Len(queue)
  /\ queue' = <<>>
  /\ UNCHANGED <<queued, dropped>>

\* The status is acknowledged: the queue is drained and the replay begins, or
\* there is nothing to replay.
Resynced ==
  /\ Replied("resyncing")
  /\ IF queue = <<>>
     THEN LoopTop(lastSent, limitChanged) /\ UNCHANGED queueVars
     ELSE /\ Await("replaying", Head(queue))
          /\ Drain(Tail(queue))
          /\ UNCHANGED <<powerVars, txVars>>
  /\ UNCHANGED ok

ReplayedOne ==
  /\ Replied("replaying")
  /\ IF replaying = <<>>
     THEN LoopTop(lastSent, limitChanged) /\ UNCHANGED replaying
     ELSE /\ Await("replaying", Head(replaying))
          /\ replaying' = Tail(replaying)
          /\ UNCHANGED <<powerVars, txVars>>
  /\ UNCHANGED <<queue, queued, dropped, replayed, ok>>

\* _charge_deadline passes, connected or not.
TimePasses ==
  /\ tx # NoTx /\ ~timeUp /\ pc # "done"
  /\ timeUp' = TRUE
  /\ UNCHANGED <<sessionVars, powerVars, tx, txs, seq, stop, lastSent, queueVars, ok>>

-----------------------------------------------------------------------------
(* Commands, handled in the receive loop of the connection.                *)

\* Mutant of NewState: a raised limit does not lift a suspension.
NewStateStays(l) == IF st = "charging" /\ l = 0 THEN "suspended_evse" ELSE st

\* What a limit of l does to the state.
NewState(l) ==
  IF st = "charging" /\ l = 0 THEN "suspended_evse"
  ELSE IF st = "suspended_evse" /\ l > 0 THEN "charging"
  ELSE st

\* handle_set_charging_profile with a well-formed profile of l.
SetProfile(l) ==
  /\ Connected
  /\ ApplyPower(NewState(l), l)
  /\ limitChanged' = TRUE
  /\ UNCHANGED <<sessionVars, txVars, queueVars, ok>>

\* handle_clear_charging_profile: Unknown when no limit is installed.
ClearProfile ==
  /\ Connected /\ limit < MaxPower
  /\ ApplyPower(NewState(MaxPower), MaxPower)
  /\ limitChanged' = TRUE
  /\ UNCHANGED <<sessionVars, txVars, queueVars, ok>>

\* handle_request_stop: refused without a transaction.
RequestStop ==
  /\ Connected /\ tx # NoTx
  /\ stop' = TRUE
  /\ UNCHANGED <<sessionVars, powerVars, tx, txs, seq, timeUp, lastSent, queueVars, ok>>

Command == (\E l \in Limits : SetProfile(l)) \/ ClearProfile \/ RequestStop

-----------------------------------------------------------------------------
Session ==
  \/ Booted \/ BootRefused \/ Arrived \/ CardRefused \/ RefusalOver \/ PlugIn \/ StartCharging \/ Started
  \/ Meter \/ StopCharging \/ Metered \/ Ended \/ Left \/ Resynced \/ ReplayedOne

\* Everything the charger does but losing its connection.
AgentStep ==
  \/ Session \/ Command \/ Dial \/ GiveUpDialling \/ CallError \/ Cancel
  \/ MeterOffline \/ TimePasses

\* The server's reply reaches the charger.
Answer ==
  /\ wire.req # "none" /\ ~answered
  /\ answered' = TRUE
  /\ UNCHANGED <<pc, conn, wire, powerVars, txVars, queueVars, ok>>

AgentNext == AgentStep \/ LoseConnection \/ Answer
AgentSpec == AgentInit /\ [][AgentNext]_agentVars

-----------------------------------------------------------------------------
(* Properties.                                                             *)

\* Current flows only inside a transaction of a running charger, and never
\* above the operator's limit, whenever a profile arrives
\* (_apply_power_for_state, safety rule 1).
CurrentOnlyInTransaction ==
  contactor => /\ tx # NoTx /\ pc # "done" /\ st \in InTransaction
               /\ backend = IF st = "charging" THEN limit ELSE 0

\* A suspension is the zero limit and nothing else: lifting the limit, or
\* reconnecting under it, never leaves a charger suspended at a positive one.
SuspendedIffCurtailed == st \in InTransaction => (st = "suspended_evse" <=> limit = 0)

\* Kept readings belong to the transaction that is open, in order, and each
\* offline reading is waiting, dropped or handed to the client
\* (offline_queue.py: "all three possible fates").
QueueIsOfThisTransaction ==
  /\ queued = dropped + replayed + Len(queue)
  /\ \A i \in 1..Len(queue) : queue[i].tx = tx /\ queue[i].seq < seq
  /\ \A i, j \in 1..Len(queue) : i < j => queue[i].seq < queue[j].seq

\* The state machine never raises IllegalTransition: whatever arrives whenever,
\* the session only takes transitions of the table.
TransitionsAllowed == [][st' # st => <<st, st'>> \in Allowed]_agentVars

\* One charging session per run: a charger that has finished does not
\* "immediately reconnect to charge again" (_session_complete).
OneSession == txs <= 1

\* Whatever the server and the network do, the run of a charger ends.
RunsOut == <>(pc = "done")
=============================================================================

----------------------------- MODULE Curtailment -----------------------------
(***************************************************************************)
(* The operator's power limits and stop commands, from the HTTP endpoint   *)
(* to the charger and back:                                                *)
(*                                                                         *)
(*   - csms/server.py _station_limit, _station_clear, _station_stop,       *)
(*     _fleet_limit, _fleet_clear: an error, or a command sent to one      *)
(*     station or to all that are connected at this moment;                *)
(*   - csms/dispatch.py send, broadcast and _outcome_for: one await per    *)
(*     target, ended by the answer, the timer or the closing socket;       *)
(*   - agent/client.py and agent/station.py: reading a command, applying   *)
(*     it, answering; sessions begin and end at any moment.                *)
(*                                                                         *)
(* The session coroutine is StationAgent's; here a charger is reduced to   *)
(* its limit and its transaction.                                          *)
(***************************************************************************)
EXTENDS ChargingProfile, FiniteSets

CONSTANTS
  Stations,     \* the fleet
  Rating,       \* [Stations -> Nat] max_power_w of each charger
  WattsAsked,   \* ?watts= values that _parse_watts lets through
  Profiles,     \* further payloads handed to the generic send()
  MaxCommands,  \* bound: commands the operator gives
  MaxConn,      \* bound: connections of a charger
  MaxTx         \* bound: transactions of a charger

ASSUME CurtailmentAssumption ==
  /\ Rating \in [Stations -> Nat]
  /\ WattsAsked \subseteq Nat
  /\ Profiles \subseteq Payload
  /\ MaxCommands \in Nat \ {0}
  /\ MaxConn \in Nat \ {0}
  /\ MaxTx \in Nat \ {0}

Commands == 1..MaxCommands
Conns    == 1..MaxConn
NoTx     == 0

\* A command as the dispatcher puts it on the wire.
Profile(p)    == [action |-> "SetChargingProfile", profile |-> p, tx |-> NoTx]
Clear         == [action |-> "ClearChargingProfile", profile |-> PlainProfile(0), tx |-> NoTx]
StopTx(t)     == [action |-> "RequestStopTransaction", profile |-> PlainProfile(0), tx |-> t]

\* One target of one command: "queued" behind the connection's call lock,
\* "sent", "accepted"/"refused" (the reply is on its way), then the outcome.
Waiting == {"queued", "sent"}
Replied == {"accepted", "refused"}
Done    == {"success", "rejected", "failure", "timeout"}
NoSend  == [st |-> "none", conn |-> 0]

VARIABLES
  opened,   \* [Stations -> 0..MaxConn] the connection the charger reads
  live,     \* [Stations -> SUBSET Conns] sockets the server has not closed
  session,  \* [Stations -> 0..MaxConn] registry._sessions
  given,    \* commands given so far
  command,  \* [Commands -> the command on the wire]
  send,     \* [Commands -> [Stations -> [st, conn]]] the awaits of the endpoint
  inbox,    \* [Stations -> Seq(Commands)] written to the socket, not yet read
  last,     \* [Stations -> 0..MaxCommands] history: the last one written to it
  limit,    \* [Stations -> Nat] _limit_w
  st,       \* [Stations -> state of StationStateMachine]
  tx, txs,  \* [Stations -> 0..MaxTx] transaction_id; transactions begun
  stop      \* [Stations -> BOOLEAN] _stop_requested

linkVars    == <<opened, live, session>>
serverVars  == <<given, command>>
callVars    == <<send, inbox, last>>
chargerVars == <<limit, st, tx, txs, stop>>
vars == <<linkVars, serverVars, callVars, chargerVars>>

Init ==
  /\ opened = [s \in Stations |-> 0]
  /\ live = [s \in Stations |-> {}]
  /\ session = [s \in Stations |-> 0]
  /\ given = 0
  /\ command = [c \in Commands |-> Clear]
  /\ send = [c \in Commands |-> [s \in Stations |-> NoSend]]
  /\ inbox = [s \in Stations |-> <<>>]
  /\ last = [s \in Stations |-> 0]
  /\ limit = Rating
  /\ st = [s \in Stations |-> "available"]
  /\ tx = [s \in Stations |-> NoTx]
  /\ txs = [s \in Stations |-> 0]
  /\ stop = [s \in Stations |-> FALSE]

-----------------------------------------------------------------------------
(* The endpoints.                                                          *)

Connected == {s \in Stations : session[s] # 0}

\* The call lock of connection n of station s is held or waited for.
Busy(s, n) == \E c \in Commands : send[c][s].conn = n /\ send[c][s].st \in Waiting \cup Replied

\* send() looks the session up: no session is a failure at once, a free lock
\* means the request is written, else it queues.
NewSend(s) ==
  IF session[s] = 0 THEN [st |-> "failure", conn |-> 0]
  ELSE IF Busy(s, session[s]) THEN [st |-> "queued", conn |-> session[s]]
  ELSE [st |-> "sent", conn |-> session[s]]

\* The request of command c is written to connection n of s; only the newest
\* connection has a reader.
Written(box, s, c, n) == IF n = opened[s] THEN Append(box, c) ELSE box
Latest(d, s, c, n)    == IF n = opened[s] THEN c ELSE d

\* Command m goes out to the stations in T, one await each (gather).
Give(m, T) ==
  LET c == given + 1 IN
  /\ given < MaxCommands
  /\ given' = c
  /\ command' = [command EXCEPT ![c] = m]
  /\ send' = [send EXCEPT ![c] = [s \in Stations |-> IF s \in T THEN NewSend(s) ELSE NoSend]]
  /\ LET Now == {s \in T : NewSend(s).st = "sent"} IN
     /\ inbox' = [s \in Stations |-> IF s \in Now THEN Written(inbox[s], s, c, session[s])
                                     ELSE inbox[s]]
     /\ last' = [s \in Stations |-> IF s \in Now THEN Latest(last[s], s, c, session[s])
                                    ELSE last[s]]
  /\ UNCHANGED <<linkVars, chargerVars>>

\* /api/stations/{id}/limit; anything but a finite number >= 0 is answered 400
\* and nothing is sent.
StationLimit(s) == \E w \in WattsAsked : Give(Profile(PlainProfile(w)), {s})

\* /api/stations/{id}/clear-limit.
StationClear(s) == Give(Clear, {s})

\* /api/stations/{id}/stop: the transaction the operator names, or the one the
\* server believes to be open -- any the charger has had.  None is answered 409.
StationStop(s) == \E t \in 1..txs[s] : Give(StopTx(t), {s})

\* /api/fleet/limit and /api/fleet/clear-limit: broadcast() to registry.connected_ids.
FleetLimit == \E w \in WattsAsked : Give(Profile(PlainProfile(w)), Connected)
FleetClear == Give(Clear, Connected)

\* Another payload through dispatcher.send().
SendProfile(s) == \E p \in Profiles : Give(Profile(p), {s})

Operator ==
  \/ \E s \in Stations : StationLimit(s) \/ StationClear(s) \/ StationStop(s) \/ SendProfile(s)
  \/ FleetLimit
  \/ FleetClear

-----------------------------------------------------------------------------
(* The dispatcher's awaits.                                                *)

\* The lock is free and c, given first of those that wait, takes it.
Acquire(c, s) ==
  LET n == send[c][s].conn IN
  /\ send[c][s].st = "queued"
  /\ \A d \in Commands : send[d][s].conn = n =>
       /\ send[d][s].st \notin {"sent"} \cup Replied
       /\ send[d][s].st = "queued" => c <= d
  /\ send' = [send EXCEPT ![c][s].st = "sent"]
  /\ inbox' = [inbox EXCEPT ![s] = Written(@, s, c, n)]
  /\ last' = [last EXCEPT ![s] = Latest(@, s, c, n)]
  /\ UNCHANGED <<linkVars, serverVars, chargerVars>>

\* Mutant of Outcome: any answer at all is a success.
OutcomeAny(c, reply) == "success"

\* _outcome_for: a refused ClearChargingProfile ("Unknown") is a success.
Outcome(c, reply) ==
  IF reply = "accepted" \/ command[c].action = "ClearChargingProfile"
  THEN "success" ELSE "rejected"

\* The call task returns with the reply.
Return(c, s) ==
  /\ send[c][s].st \in Replied
  /\ send' = [send EXCEPT ![c][s].st = Outcome(c, send[c][s].st)]
  /\ UNCHANGED <<linkVars, serverVars, inbox, last, chargerVars>>

\* The dispatcher's timer: what was written stays written.
GiveUp(c, s) ==
  /\ send[c][s].st \in Waiting \cup Replied
  /\ send' = [send EXCEPT ![c][s].st = "timeout"]
  /\ UNCHANGED <<linkVars, serverVars, inbox, last, chargerVars>>

\* The server sees socket n close: its waiting calls fail, the session goes if
\* it is this one, and what the charger has not read is lost.
CloseSocket(s, n) ==
  /\ n \in live[s]
  /\ live' = [live EXCEPT ![s] = @ \ {n}]
  /\ session' = [session EXCEPT ![s] = IF @ = n THEN 0 ELSE @]
  /\ send' = [c \in Commands |->
                IF send[c][s].conn = n /\ send[c][s].st \in Waiting
                THEN [send[c] EXCEPT ![s].st = "failure"] ELSE send[c]]
  /\ inbox' = [inbox EXCEPT ![s] = IF n = opened[s] THEN <<>> ELSE @]
  /\ UNCHANGED <<opened, serverVars, last, chargerVars>>

\* The charger connects anew; it keeps its limit and its transaction.
Dial(s) ==
  /\ opened[s] < MaxConn
  /\ opened' = [opened EXCEPT ![s] = @ + 1]
  /\ live' = [live EXCEPT ![s] = @ \cup {opened[s] + 1}]
  /\ session' = [session EXCEPT ![s] = opened[s] + 1]
  /\ inbox' = [inbox EXCEPT ![s] = <<>>]
  /\ UNCHANGED <<serverVars, send, last, chargerVars>>

-----------------------------------------------------------------------------
(* The charger.                                                            *)

\* The state after the limit has become w.
NewState(s, w) ==
  IF st[s] = "charging" /\ w = 0 THEN "suspended_evse"
  ELSE IF st[s] = "suspended_evse" /\ w > 0 THEN "charging"
  ELSE st[s]

Limited(s, w) ==
  /\ limit' = [limit EXCEPT ![s] = w]
  /\ st' = [st EXCEPT ![s] = NewState(s, w)]

\* A profile is obeyed if it parses, a clear if a limit is installed, a stop if
\* this is the transaction it names.
ClearObeyed(s)   == limit[s] < Rating[s]
StopObeyed(s, t) == tx[s] # NoTx /\ t = tx[s]

Obeyed(s, m) ==
  CASE m.action = "SetChargingProfile"   -> Valid(m.profile)
    [] m.action = "ClearChargingProfile" -> ClearObeyed(s)
    [] OTHER                             -> StopObeyed(s, m.tx)

\* What obeying does.
SetProfile(s, p) == Limited(s, Watts(p, Rating[s])) /\ UNCHANGED <<tx, txs, stop>>
ClearProfile(s)  == Limited(s, Rating[s]) /\ UNCHANGED <<tx, txs, stop>>
RequestStop(s)   == stop' = [stop EXCEPT ![s] = TRUE] /\ UNCHANGED <<limit, st, tx, txs>>

Obey(s, m) ==
  CASE m.action = "SetChargingProfile"   -> SetProfile(s, m.profile)
    [] m.action = "ClearChargingProfile" -> ClearProfile(s)
    [] OTHER                             -> RequestStop(s)

\* The receive loop takes the next command, decides, acts and answers; an
\* answer nobody waits for is dropped.
Read(s) ==
  LET c == Head(inbox[s]) IN
  /\ inbox[s] # <<>> /\ opened[s] \in live[s]
  /\ inbox' = [inbox EXCEPT ![s] = Tail(@)]
  /\ IF Obeyed(s, command[c]) THEN Obey(s, command[c]) ELSE UNCHANGED chargerVars
  /\ send' = IF send[c][s] = [st |-> "sent", conn |-> opened[s]]
             THEN [send EXCEPT ![c][s].st =
                     IF Obeyed(s, command[c]) THEN "accepted" ELSE "refused"]
             ELSE send
  /\ UNCHANGED <<linkVars, serverVars, last>>

\* Mutant of StartTransaction: an old stop request is still there.
StartTransactionStopped(s) ==
  /\ tx[s] = NoTx /\ txs[s] < MaxTx /\ opened[s] \in live[s]
  /\ txs' = [txs EXCEPT ![s] = @ + 1]
  /\ tx' = [tx EXCEPT ![s] = txs[s] + 1]
  /\ st' = [st EXCEPT ![s] = IF limit[s] = 0 THEN "suspended_evse" ELSE "charging"]
  /\ UNCHANGED <<linkVars, serverVars, callVars, limit, stop>>

\* _charging_session: suspended from the start under a limit of zero.
StartTransaction(s) ==
  /\ tx[s] = NoTx /\ txs[s] < MaxTx /\ opened[s] \in live[s]
  /\ txs' = [txs EXCEPT ![s] = @ + 1]
  /\ tx' = [tx EXCEPT ![s] = txs[s] + 1]
  /\ st' = [st EXCEPT ![s] = IF limit[s] = 0 THEN "suspended_evse" ELSE "charging"]
  /\ stop' = [stop EXCEPT ![s] = FALSE]
  /\ UNCHANGED <<linkVars, serverVars, callVars, limit>>

\* _end_transaction, by the deadline or the stop request ...
EndTransaction(s) ==
  /\ st[s] \in {"charging", "suspended_evse"} /\ opened[s] \in live[s]
  /\ st' = [st EXCEPT ![s] = "occupied"]
  /\ UNCHANGED <<linkVars, serverVars, callVars, limit, tx, txs, stop>>

\* ... and the Ended event is acknowledged.
FinishSession(s) ==
  /\ st[s] = "occupied" /\ opened[s] \in live[s]
  /\ st' = [st EXCEPT ![s] = "available"]
  /\ tx' = [tx EXCEPT ![s] = NoTx]
  /\ UNCHANGED <<linkVars, serverVars, callVars, limit, txs, stop>>

Charger(s) ==
  Read(s) \/ StartTransaction(s) \/ EndTransaction(s) \/ FinishSession(s) \/ Dial(s)

Server(s) ==
  \/ \E c \in Commands : Acquire(c, s) \/ Return(c, s) \/ GiveUp(c, s)
  \/ \E n \in Conns : CloseSocket(s, n)

Next == Operator \/ \E s \in Stations : Charger(s) \/ Server(s)

Spec == Init /\ [][Next]_vars

-----------------------------------------------------------------------------
(* Properties.                                                             *)

\* The watts command c asks of station s.
Cap(c, s) ==
  IF command[c].action = "ClearChargingProfile" THEN Rating[s]
  ELSE Watts(command[c].profile, Rating[s])

\* A limit the operator was told is in force is in force: as long as nothing was
\* written to the charger after a command that returned success, its limit is
\* what that command asked, whatever timed out, queued or reconnected meanwhile;
\* and a charger no command ever reached -- one that was away when the fleet was
\* capped -- has its own rating (broadcast goes to connected_ids).
AcceptedInForce ==
  \A s \in Stations :
    /\ \A c \in Commands :
         /\ send[c][s].st = "success" /\ last[s] = c
         /\ command[c].action # "RequestStopTransaction"
         => limit[s] = Cap(c, s)
    /\ last[s] = 0 => limit[s] = Rating[s]

\* A cap is never lifted by accident: a limit only rises, and only up to the
\* rating, when the charger reads a clear, or a profile whose first period holds
\* a number that means at least as much.
Means(p, w) ==
  LET schedule == First(p.schedules)
      limitOf  == First(schedule.periods).limit
  IN /\ limitOf.kind = "number"
     /\ IF schedule.unit = "A" THEN limitOf.n * Volts * 3 >= w ELSE limitOf.n >= w

NoLift ==
  [][\A s \in Stations : limit'[s] > limit[s] =>
       LET m == command[Head(inbox[s])] IN
       /\ inbox[s] # <<>> /\ limit'[s] <= Rating[s]
       /\ \/ m.action = "ClearChargingProfile"
          \/ m.action = "SetChargingProfile" /\ Means(m.profile, limit'[s])]_vars

\* A transaction is stopped only by a command that names it: a stop that arrives
\* when its transaction is over does not end the next one (handle_request_stop,
\* _charging_session).
StopHitsNamed ==
  \A s \in Stations : tx[s] # NoTx /\ stop[s] =>
    \E c \in 1..given : /\ command[c] = StopTx(tx[s])
                        /\ send[c][s].st \notin {"none", "queued", "failure"}
=============================================================================

------------------------------ MODULE Reporting ------------------------------
(***************************************************************************)
(* What the server learns of a charging session: StationAgent together     *)
(* with csms/handlers.py on_transaction_event and the live state of a      *)
(* station in csms/registry.py (record_sequence, record_meter,             *)
(* record_transaction, reset_sequence).                                    *)
(*                                                                         *)
(* The live state is kept per STATION, across connections.  A connection   *)
(* that dies has at most one transaction event on it: the server may have  *)
(* handled it (the reply is lost), it may be lost, or it is still in the   *)
(* old connection's buffer and is handled later, even after events of the  *)
(* new one.                                                                *)
(***************************************************************************)
EXTENDS StationAgent, FiniteSets

VARIABLES
  late,     \* events in the buffers of dead connections
  active,   \* active_transaction_id
  lastSeq,  \* last_seq_no, None before the first
  lastAt,   \* last_meter_at: <<tx, seq>> of the reading, or None
  shown,    \* power_w
  arrived,  \* history: <<tx, seq>> of the events handled
  ended,    \* history: transactions whose Ended was handled
  inTransit, inQueue,  \* history: missing_events logged, by loss_site
  overtaken \* history: event types of which one was handled after a newer event

None == -1
liveVars   == <<active, lastSeq, lastAt, shown>>
logVars    == <<arrived, ended, inTransit, inQueue, overtaken>>
serverVars == <<late, liveVars, logVars>>
reportingVars == <<agentVars, serverVars>>

Stamp == TxIds \X SeqNos
NoStamp == <<NoTx, 0>>

ReportingTypeOK ==
  /\ AgentTypeOK
  /\ late \subseteq Request
  /\ active \in {NoTx} \cup TxIds
  /\ lastSeq \in {None} \cup SeqNos
  /\ lastAt \in {NoStamp} \cup Stamp
  /\ shown \in Limits
  /\ arrived \subseteq Stamp
  /\ ended \subseteq TxIds
  /\ inTransit \in [TxIds -> Nat] /\ inQueue \in [TxIds -> Nat]
  /\ overtaken \subseteq EventTypes

ReportingInit ==
  /\ AgentInit
  /\ late = {}
  /\ active = NoTx /\ lastSeq = None /\ lastAt = NoStamp /\ shown = 0
  /\ arrived = {} /\ ended = {}
  /\ inTransit = [t \in TxIds |-> 0] /\ inQueue = [t \in TxIds |-> 0]
  /\ overtaken = {}

-----------------------------------------------------------------------------
StampOf(m) == <<m.tx, m.seq>>
Before(a, b) == a[1] < b[1] \/ (a[1] = b[1] /\ a[2] < b[2])

\* Mutant of Gap: off by one.
GapOffByOne(m) ==
  IF m.req = "Started" \/ lastSeq = None \/ m.seq <= lastSeq THEN 0 ELSE m.seq - lastSeq - 2

\* record_sequence (after reset_sequence for a Started): events missing before m.
Gap(m) ==
  IF m.req = "Started" \/ lastSeq = None \/ m.seq <= lastSeq THEN 0 ELSE m.seq - lastSeq - 1

\* Mutant of IsStale: replayed readings are taken for the present.
NeverStale(m) == FALSE

\* record_meter: the reading is older than the last one applied.
IsStale(m) == m.req # "Started" /\ lastAt # NoStamp /\ Before(StampOf(m), lastAt)

\* Live power and the time of its reading, after record_meter and
\* record_transaction.
Applied(m) ==
  /\ shown' = IF m.req = "Ended" THEN 0 ELSE IF IsStale(m) THEN shown ELSE m.power
  /\ lastAt' = IF m.req = "Ended" THEN NoStamp ELSE IF IsStale(m) THEN lastAt ELSE StampOf(m)

\* on_transaction_event.
HandleEvent(m) ==
  /\ active' = IF m.req = "Ended" THEN NoTx ELSE m.tx
  /\ lastSeq' = IF m.req = "Ended" THEN None ELSE m.seq
  /\ Applied(m)
  /\ IF m.offline
     THEN inQueue' = [inQueue EXCEPT ![m.tx] = @ + Gap(m)] /\ UNCHANGED inTransit
     ELSE inTransit' = [inTransit EXCEPT ![m.tx] = @ + Gap(m)] /\ UNCHANGED inQueue
  /\ arrived' = arrived \cup {StampOf(m)}
  /\ overtaken' = overtaken \cup {e \in {m.req} : \E a \in arrived : Before(StampOf(m), a)}
  /\ ended' = IF m.req = "Ended" THEN ended \cup {m.tx} ELSE ended

\* The server handles the request of the current connection and answers it.
ServerHandles ==
  /\ Answer
  /\ IF wire.req \in EventTypes
     THEN HandleEvent(wire) /\ UNCHANGED late
     ELSE UNCHANGED serverVars

\* The server reads what a dead connection left in its buffer.
ServerHandlesLate ==
  \E m \in late : /\ late' = late \ {m}
                  /\ HandleEvent(m)
                  /\ UNCHANGED agentVars

\* The connection is lost, with its last request or without.
Lose ==
  /\ LoseConnection
  /\ late' \in {late} \cup (IF wire.req \in EventTypes /\ ~answered
                            THEN {late \cup {wire}} ELSE {})
  /\ UNCHANGED <<liveVars, logVars>>

Charger == AgentStep /\ UNCHANGED serverVars

ReportingNext == Charger \/ Lose \/ ServerHandles \/ ServerHandlesLate
ReportingSpec == ReportingInit /\ [][ReportingNext]_reportingVars

\* The charger's coroutine runs, its clock advances, a request that is not
\* answered times out, and attempts to connect succeed or run out.  Nothing is
\* assumed of the server.
ReportingFairness ==
  /\ WF_reportingVars((Session \/ Dial \/ GiveUpDialling) /\ UNCHANGED serverVars)
  /\ WF_reportingVars(TimePasses /\ UNCHANGED serverVars)
  /\ WF_reportingVars(Lose /\ wire.req # "none" /\ ~answered)

FairReportingSpec == ReportingSpec /\ ReportingFairness

-----------------------------------------------------------------------------
(* Properties.                                                             *)

\* No event reaches the server twice: "a hole is honest, a duplicate is a lie"
\* (offline_queue.py drain).
NoDuplicate ==
  [][\A t \in TxIds, n \in SeqNos :
       (<<t, n>> \in arrived /\ answered' /\ ~answered /\ wire.req \in EventTypes)
         => StampOf(wire) # <<t, n>>]_reportingVars

\* Unless an event overtook another: the server shows no transaction the
\* charger does not have, and no power for a station without a transaction; a
\* replay, or an Ended sent twice, never revives an ended session.
NoGhost ==
  /\ overtaken = {} /\ late = {} /\ tx = NoTx => active = NoTx
  /\ active = NoTx => shown = 0

\* Unless an event overtook another: every loss between the first event of a
\* transaction the server has seen and its first Ended is logged, once.
Missing(t) ==
  {n \in SeqNos : /\ <<t, n>> \notin arrived
                  /\ \E a \in arrived : a[1] = t /\ a[2] < n
                  /\ \E a \in arrived : a[1] = t /\ a[2] > n}
LossesLogged ==
  overtaken = {} => \A t \in TxIds \ ended : inTransit[t] + inQueue[t] = Cardinality(Missing(t))

\* Until a transaction ends, live power is that of its newest reading, even if
\* older ones are handled later (record_meter) -- unless the late one is the
\* Started, which clears the time of the last reading.
PowerIsNewest ==
  (active \in TxIds \ ended /\ overtaken \subseteq {"Updated"}) =>
    \A a \in arrived : a[1] = active => ~Before(lastAt, a)
=============================================================================

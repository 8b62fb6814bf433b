-------------------------- MODULE Reporting_proofs --------------------------
(***************************************************************************)
(* Theorems about a charger, for any number of connections and readings,   *)
(* any queue cap and any maximum power; and about what the server learns   *)
(* of its charging sessions, for any number of losses.                     *)
(***************************************************************************)
EXTENDS Reporting, FiniteSetTheorems, TLAPS

-----------------------------------------------------------------------------
(* The inductive invariant.                                                *)

\* The last number a connection may reach, and the room its readings need.
Ceiling(n) == MaxReadings + 2 * n

\* A reading past MaxReadings is only sent when time is up, and the next event
\* is then Ended: a connection adds at most two of them.
NumbersBounded ==
  /\ pc \notin {"down", "done"} => conn >= 1
  /\ seq <= Ceiling(conn)
  /\ pc \notin {"down", "done", "ending", "leaving"} => seq < Ceiling(conn)
  /\ pc \notin {"down", "done", "ending", "leaving", "metering"} => seq <= Ceiling(conn - 1)
  /\ pc = "metering" /\ ~timeUp => seq <= Ceiling(conn - 1)

TypeInv == AgentTypeOK /\ NumbersBounded

\* The physical state agrees with the transaction and with the await.
PowerInv ==
  /\ st \in InTransaction => tx # NoTx
  /\ pc = "ending" => st \notin InTransaction
  /\ pc = "plugging" => st = "occupied"
  /\ CurrentOnlyInTransaction /\ SuspendedIffCurtailed

\* Readings are kept only during an outage and until the replay begins.
QueueInv ==
  /\ queue # <<>> => tx # NoTx /\ pc \in {"down", "boot", "resyncing", "done"}
  /\ QueueIsOfThisTransaction

-----------------------------------------------------------------------------
(* The building blocks keep the types.                                     *)

LEMMA PlainType == ASSUME NEW r \in Requests PROVE Plain(r) \in Request
BY AgentAssumption DEF AgentAssumption, Plain, Request, SeqNos, Limits, ChargingStates, Triggers

LEMMA NewStateType ==
  ASSUME st \in StationState, NEW l PROVE NewState(l) \in StationState
BY DEF NewState, StationState

LEMMA ApplyPowerType ==
  ASSUME NEW s \in StationState, NEW l \in Limits, ApplyPower(s, l)
  PROVE  st' \in StationState /\ limit' \in Limits /\ contactor' \in BOOLEAN /\ backend' \in Limits
BY AgentAssumption DEF AgentAssumption, ApplyPower, Becomes, DrawsPower, Limits, InTransaction

LEMMA EventType ==
  ASSUME tx' \in {NoTx} \cup TxIds, backend' \in Limits,
         NEW type \in EventTypes, NEW s \in StationState,
         NEW trigger \in Triggers, NEW n \in SeqNos
  PROVE  Event(type, s, trigger, n) \in Request
BY AgentAssumption DEF AgentAssumption, Event, Request, EventTypes, Requests, Limits,
   ChargingState, ChargingStates, StationState

LEMMA EndTransactionKeeps ==
  ASSUME TypeInv, NEW sent \in ChargingStates, NEW changed \in BOOLEAN,
         EndTransaction(sent, changed), UNCHANGED <<queueVars, ok>>,
         seq < Ceiling(conn), conn >= 1
  PROVE  TypeInv'
<1>1. "occupied" \in StationState /\ limit \in Limits
  BY DEF TypeInv, AgentTypeOK, StationState
<1>2. st' \in StationState /\ limit' \in Limits /\ contactor' \in BOOLEAN /\ backend' \in Limits
  BY <1>1, ApplyPowerType DEF EndTransaction
<1>3. seq + 1 \in SeqNos /\ seq \in SeqNos /\ seq + 1 <= Ceiling(conn)
  BY AgentAssumption DEF AgentAssumption, TypeInv, AgentTypeOK, SeqNos, Ceiling
<1>4. wire' \in Request
  <2>1. tx' \in {NoTx} \cup TxIds BY DEF EndTransaction, TypeInv, AgentTypeOK
  <2>2. Event("Ended", "occupied", "StopAuthorized", seq) \in Request
    BY <1>1, <1>2, <1>3, <2>1, EventType DEF EventTypes, Triggers
  <2> QED BY <2>2 DEF EndTransaction, Await
<1>5. AgentTypeOK'
  BY <1>2, <1>3, <1>4 DEF TypeInv, AgentTypeOK, EndTransaction, Await, Awaits, queueVars
<1>6. NumbersBounded'
  BY <1>3 DEF NumbersBounded, EndTransaction, Await, Ceiling
<1> QED BY <1>5, <1>6 DEF TypeInv

LEMMA LoopTopKeeps ==
  ASSUME TypeInv, NEW sent \in ChargingStates, NEW changed \in BOOLEAN,
         LoopTop(sent, changed), UNCHANGED <<queue, queued, dropped, replayed, ok>>,
         replaying' = replaying,
         seq < Ceiling(conn), conn >= 1, ~timeUp => seq <= Ceiling(conn - 1)
  PROVE  TypeInv'
<1>1. CASE timeUp
  BY <1>1, EndTransactionKeeps DEF LoopTop, queueVars
<1>2. CASE ~timeUp
  <2>1. Plain("none") \in Request BY PlainType DEF Requests
  <2>2. AgentTypeOK'
    BY <1>2, <2>1 DEF LoopTop, TypeInv, AgentTypeOK, Await, Awaits
  <2>3. NumbersBounded'
    BY <1>2 DEF LoopTop, TypeInv, NumbersBounded, Await, Ceiling
  <2> QED BY <2>2, <2>3 DEF TypeInv
<1> QED BY <1>1, <1>2

LEMMA FinishKeeps == ASSUME TypeInv, NEW b \in BOOLEAN, Finish(b) PROVE TypeInv'
<1>1. Plain("none") \in Request BY PlainType DEF Requests
<1>2. <<>> \in Seq(Request)
  OBVIOUS
<1>3. AgentTypeOK'
  BY <1>1, <1>2 DEF Finish, TypeInv, AgentTypeOK, Awaits, txVars
<1>4. NumbersBounded'
  BY DEF Finish, TypeInv, NumbersBounded, Ceiling, txVars
<1> QED BY <1>3, <1>4 DEF TypeInv

\* The coroutine goes on to await the reply to a plain request.
LEMMA AwaitKeeps ==
  ASSUME TypeInv, NEW p \in Awaits, NEW r \in Requests, Await(p, Plain(r)),
         UNCHANGED <<contactor, backend, limit, limitChanged, txVars, queueVars, ok>>,
         st' \in StationState, conn >= 1, p # "metering",
         p \notin {"ending", "leaving"} => seq <= Ceiling(conn - 1)
  PROVE  TypeInv'
<1>1. Plain(r) \in Request BY PlainType
<1>2. AgentTypeOK'
  BY <1>1 DEF Await, TypeInv, AgentTypeOK, txVars, queueVars
<1>3. seq \in Int /\ conn \in Int /\ MaxReadings \in Int
  BY AgentAssumption DEF AgentAssumption, TypeInv, AgentTypeOK, SeqNos
<1>4. pc' = p /\ conn' = conn /\ seq' = seq /\ timeUp' = timeUp
  BY DEF Await, txVars
<1>5. NumbersBounded'
  BY <1>3, <1>4 DEF TypeInv, NumbersBounded, Ceiling
<1> QED BY <1>2, <1>5 DEF TypeInv

-----------------------------------------------------------------------------
(* Types.                                                                  *)

LEMMA EmptyQueue == <<>> \in Seq(Request) /\ Len(<<>>) <= QueueCap
<1>1. <<>> \in Seq(Request) /\ Len(<<>>) = 0 OBVIOUS
<1> QED BY <1>1, AgentAssumption DEF AgentAssumption

LEMMA TypeInit == AgentInit => TypeInv
<1> SUFFICES ASSUME AgentInit PROVE TypeInv
  OBVIOUS
<1> USE AgentAssumption DEF AgentAssumption, AgentInit, SessionInit, PowerInit, TxInit, QueueInit
<1>1. Plain("none") \in Request BY PlainType DEF Requests
<1>2. AgentTypeOK
  <2>1. 0 \in 0..MaxConn /\ MaxPower \in Limits /\ 0 \in SeqNos
    BY DEF Limits, SeqNos
  <2>2. queue \in Seq(Request) /\ Len(queue) <= QueueCap /\ replaying \in Seq(Request)
    BY EmptyQueue
  <2> QED BY <1>1, <2>1, <2>2 DEF AgentTypeOK, Awaits, StationState, ChargingStates, NoTx
<1>3. NumbersBounded BY DEF NumbersBounded, Ceiling
<1> QED BY <1>2, <1>3 DEF TypeInv

\* Numbers as integers, and the requests that are sent.
LEMMA TypeFacts ==
  ASSUME TypeInv
  PROVE  /\ seq \in Int /\ seq >= 0 /\ conn \in Int /\ conn >= 0 /\ MaxReadings \in Int /\ MaxReadings > 0
         /\ MaxPower \in Int /\ MaxPower > 0 /\ QueueCap \in Int /\ QueueCap > 0
         /\ Plain("none") \in Request /\ BootRequest \in Request
         /\ StatusRequest \in Request /\ AuthorizeRequest \in Request
BY AgentAssumption, PlainType
   DEF AgentAssumption, TypeInv, AgentTypeOK, SeqNos, BootRequest, StatusRequest,
       AuthorizeRequest, Requests

LEMMA SessionKeepsTypes == ASSUME TypeInv, Session PROVE TypeInv'
<1> USE TypeFacts
<1>1. CASE Booted
  <2>1. PICK p \in {"arriving", "resyncing"} : Await(p, Plain("status"))
    BY <1>1 DEF Booted, StatusRequest
  <2> QED BY <1>1, <2>1, AwaitKeeps
      DEF Booted, Replied, Awaits, Requests, powerVars, TypeInv, AgentTypeOK, NumbersBounded
<1>2. CASE BootRefused \/ RefusalOver \/ Left
  BY <1>2, FinishKeeps DEF BootRefused, RefusalOver, Left
<1>3. CASE Arrived
  BY <1>3, AwaitKeeps DEF Arrived, AuthorizeRequest, Replied, Awaits, Requests, powerVars,
     TypeInv, AgentTypeOK, NumbersBounded
<1>4. CASE CardRefused
  BY <1>4, AwaitKeeps DEF CardRefused, Replied, Awaits, Requests, powerVars,
     TypeInv, AgentTypeOK, NumbersBounded
<1>5. CASE PlugIn
  BY <1>5, AwaitKeeps DEF PlugIn, StatusRequest, Replied, Awaits, Requests, Becomes, StationState,
     TypeInv, AgentTypeOK, NumbersBounded
<1>6. CASE StartCharging
  <2>1. PICK s \in {"charging", "suspended_evse"} :
          /\ ApplyPower(s, limit)
          /\ Await("starting", Event("Started", s, "Authorized", 0))
    BY <1>6 DEF StartCharging, StartTransaction
  <2>2. s \in StationState /\ limit \in Limits
    BY <2>1 DEF StationState, TypeInv, AgentTypeOK
  <2>3. st' \in StationState /\ limit' \in Limits /\ contactor' \in BOOLEAN /\ backend' \in Limits
    BY <2>1, <2>2, ApplyPowerType
  <2>4. tx' \in {NoTx} \cup TxIds /\ txs' \in {NoTx} \cup TxIds
    BY <1>6, AgentAssumption
       DEF AgentAssumption, StartCharging, StartTransaction, NewTransactionId, TypeInv,
           AgentTypeOK, TxIds, NoTx
  <2>5. 0 \in SeqNos /\ 1 \in SeqNos
    BY AgentAssumption DEF AgentAssumption, SeqNos
  <2>6. wire' \in Request
    BY <2>1, <2>2, <2>3, <2>4, <2>5, EventType DEF Await, EventTypes, Triggers
  <2>7. AgentTypeOK'
    <3>1. queue' \in Seq(Request) /\ Len(queue') <= QueueCap
      BY <1>6, EmptyQueue DEF StartCharging, StartTransaction, ClearQueue
    <3>2. seq' \in SeqNos /\ lastSent' \in ChargingStates /\ stop' \in BOOLEAN /\ timeUp' \in BOOLEAN
      BY <1>6, <2>5 DEF StartCharging, StartTransaction, ChargingStates
    <3>3. pc' \in Awaits /\ conn' = conn /\ answered' \in BOOLEAN
      BY <2>1 DEF Await, Awaits
    <3>4. UNCHANGED <<limitChanged, queued, dropped, replayed, replaying, ok>>
      BY <1>6 DEF StartCharging, StartTransaction
    <3> QED BY <2>3, <2>4, <2>6, <3>1, <3>2, <3>3, <3>4 DEF TypeInv, AgentTypeOK
  <2>8. conn >= 1 BY <1>6 DEF StartCharging, Replied, TypeInv, NumbersBounded
  <2>9. NumbersBounded'
    BY <1>6, <2>1, <2>8 DEF StartCharging, StartTransaction, Await, NumbersBounded, Ceiling
  <2> QED BY <2>7, <2>9 DEF TypeInv
<1>7. CASE Started
  <2>1. PICK sent \in ChargingStates : LoopTop(sent, FALSE)
    BY <1>7 DEF Started, ChargingState, ChargingStates
  <2> QED BY <1>7, <2>1, LoopTopKeeps
      DEF Started, Replied, queueVars, TypeInv, NumbersBounded, Ceiling
<1>8. CASE Meter
  <2>1. NextTrigger \in Triggers BY DEF NextTrigger, Triggers
  <2>2. /\ tx' \in {NoTx} \cup TxIds /\ backend' \in Limits /\ st \in StationState
        /\ seq \in SeqNos /\ seq + 1 \in SeqNos /\ conn >= 1 /\ seq <= Ceiling(conn - 1)
    BY <1>8, AgentAssumption
       DEF AgentAssumption, Meter, powerVars, TypeInv, AgentTypeOK, NumbersBounded, SeqNos, Ceiling
  <2>3. wire' \in Request
    BY <1>8, <2>1, <2>2, EventType DEF Meter, Await, EventTypes
  <2>4. AgentTypeOK'
    BY <1>8, <2>2, <2>3
       DEF Meter, Await, Awaits, powerVars, queueVars, TypeInv, AgentTypeOK
  <2>5. NumbersBounded'
    BY <1>8, <2>2 DEF Meter, Await, NumbersBounded, Ceiling
  <2> QED BY <2>4, <2>5 DEF TypeInv
<1>9. CASE StopCharging
  BY <1>9, EndTransactionKeeps
     DEF StopCharging, TypeInv, AgentTypeOK, NumbersBounded
<1>10. CASE Metered
  <2>1. wire.state \in ChargingStates BY DEF TypeInv, AgentTypeOK, Request
  <2> QED BY <1>10, <2>1, LoopTopKeeps
      DEF Metered, Replied, queueVars, TypeInv, NumbersBounded
<1>11. CASE Ended
  <2>1. AgentTypeOK'
    BY <1>11 DEF Ended, Await, Awaits, Reset, Becomes, StationState, ChargingStates, queueVars,
       TypeInv, AgentTypeOK
  <2>2. NumbersBounded'
    BY <1>11 DEF Ended, Replied, Await, TypeInv, NumbersBounded, Ceiling
  <2> QED BY <2>1, <2>2 DEF TypeInv
<1>12. CASE Resynced
  <2>1. conn >= 1 /\ seq <= Ceiling(conn - 1) /\ seq < Ceiling(conn)
    BY <1>12 DEF Resynced, Replied, TypeInv, NumbersBounded
  <2>2. CASE queue = <<>>
    BY <1>12, <2>1, <2>2, LoopTopKeeps DEF Resynced, queueVars, TypeInv, AgentTypeOK
  <2>3. CASE queue # <<>>
    <3>1. Await("replaying", Head(queue)) /\ Drain(Tail(queue)) /\ UNCHANGED <<powerVars, txVars, ok>>
      BY <1>12, <2>3 DEF Resynced
    <3>2. Head(queue) \in Request /\ Tail(queue) \in Seq(Request) /\ Len(queue) \in Nat
      BY <2>3 DEF TypeInv, AgentTypeOK
    <3>3. queue' \in Seq(Request) /\ Len(queue') <= QueueCap /\ replayed' \in Nat
      BY <3>1, <3>2, EmptyQueue DEF Drain, TypeInv, AgentTypeOK
    <3>4. AgentTypeOK'
      BY <3>1, <3>2, <3>3 DEF Await, Awaits, Drain, powerVars, txVars, TypeInv, AgentTypeOK
    <3>5. NumbersBounded'
      BY <2>1, <3>1 DEF Await, txVars, NumbersBounded, Ceiling
    <3> QED BY <3>4, <3>5 DEF TypeInv
  <2> QED BY <2>2, <2>3
<1>13. CASE ReplayedOne
  <2>1. conn >= 1 /\ seq <= Ceiling(conn - 1) /\ seq < Ceiling(conn)
    BY <1>13 DEF ReplayedOne, Replied, TypeInv, NumbersBounded
  <2>2. CASE replaying = <<>>
    BY <1>13, <2>1, <2>2, LoopTopKeeps DEF ReplayedOne, TypeInv, AgentTypeOK
  <2>3. CASE replaying # <<>>
    <3>1. /\ Await("replaying", Head(replaying)) /\ replaying' = Tail(replaying)
          /\ UNCHANGED <<powerVars, txVars, ok, queue, queued, dropped, replayed>>
      BY <1>13, <2>3 DEF ReplayedOne
    <3>2. Head(replaying) \in Request /\ Tail(replaying) \in Seq(Request)
      BY <2>3 DEF TypeInv, AgentTypeOK
    <3>4. AgentTypeOK'
      BY <3>1, <3>2 DEF Await, Awaits, powerVars, txVars, TypeInv, AgentTypeOK
    <3>5. NumbersBounded'
      BY <2>1, <3>1 DEF Await, txVars, NumbersBounded, Ceiling
    <3> QED BY <3>4, <3>5 DEF TypeInv
  <2> QED BY <2>2, <2>3
<1> QED
  BY <1>1, <1>2, <1>3, <1>4, <1>5, <1>6, <1>7, <1>8, <1>9, <1>10, <1>11, <1>12, <1>13 DEF Session

LEMMA CommandKeepsTypes == ASSUME TypeInv, Command PROVE TypeInv'
<1>1. CASE \E l \in Limits : ApplyPower(NewState(l), l) /\ limitChanged' = TRUE
                           /\ UNCHANGED <<sessionVars, txVars, queueVars, ok>>
  <2>1. PICK l \in Limits : /\ ApplyPower(NewState(l), l) /\ limitChanged' = TRUE
                           /\ UNCHANGED <<sessionVars, txVars, queueVars, ok>>
    BY <1>1
  <2>2. NewState(l) \in StationState BY NewStateType DEF TypeInv, AgentTypeOK
  <2>3. st' \in StationState /\ limit' \in Limits /\ contactor' \in BOOLEAN /\ backend' \in Limits
    BY <2>1, <2>2, ApplyPowerType
  <2>4. AgentTypeOK'
    BY <2>1, <2>3 DEF sessionVars, txVars, queueVars, TypeInv, AgentTypeOK
  <2>5. NumbersBounded'
    BY <2>1 DEF sessionVars, txVars, TypeInv, NumbersBounded, Ceiling
  <2> QED BY <2>4, <2>5 DEF TypeInv
<1>2. CASE RequestStop
  <2>1. AgentTypeOK'
    BY <1>2 DEF RequestStop, sessionVars, powerVars, queueVars, TypeInv, AgentTypeOK
  <2>2. NumbersBounded'
    BY <1>2 DEF RequestStop, sessionVars, TypeInv, NumbersBounded, Ceiling
  <2> QED BY <2>1, <2>2 DEF TypeInv
<1>3. MaxPower \in Limits BY AgentAssumption DEF AgentAssumption, Limits
<1> QED BY <1>1, <1>2, <1>3 DEF Command, SetProfile, ClearProfile

LEMMA AgentKeepsTypes == ASSUME TypeInv, AgentNext PROVE TypeInv'
<1> USE TypeFacts
<1>1. CASE Session BY <1>1, SessionKeepsTypes
<1>2. CASE Command BY <1>2, CommandKeepsTypes
<1>3. CASE Dial
  <2>0. conn' \in 0..MaxConn /\ wire' \in Request
    BY <1>3, AgentAssumption DEF AgentAssumption, Dial, TypeInv, AgentTypeOK
  <2>1. AgentTypeOK'
    BY <1>3, <2>0 DEF Dial, powerVars, txVars, queueVars, Awaits, TypeInv, AgentTypeOK
  <2>2. NumbersBounded'
    BY <1>3 DEF Dial, txVars, TypeInv, NumbersBounded, Ceiling
  <2> QED BY <2>1, <2>2 DEF TypeInv
<1>4. CASE GiveUpDialling \/ CallError \/ Cancel
  BY <1>4, FinishKeeps DEF GiveUpDialling, CallError, Cancel
<1>5. CASE MeterOffline
  <2>1. seq \in SeqNos /\ seq' \in SeqNos /\ seq' = seq + 1 /\ seq < MaxReadings
    BY <1>5, AgentAssumption DEF AgentAssumption, MeterOffline, TypeInv, AgentTypeOK, SeqNos
  <2>2. OfflineReading \in Request
    <3>1. tx \in {NoTx} \cup TxIds /\ backend \in Limits /\ 0 \in Limits
      BY AgentAssumption DEF AgentAssumption, TypeInv, AgentTypeOK, Limits
    <3>2. PICK p \in Limits : p = IF contactor THEN backend ELSE 0
      BY <3>1, Zenon
    <3>3. PICK state \in ChargingStates : state = ChargingState(st)
      BY DEF ChargingState, ChargingStates
    <3>4. "Updated" \in Requests /\ "MeterValuePeriodic" \in Triggers
      BY DEF Requests, EventTypes, Triggers
    <3>5. QueuedEvent(seq, p, state) \in Request
      BY <2>1, <3>1, <3>4 DEF QueuedEvent, Request
    <3> QED BY <3>2, <3>3, <3>5, Zenon DEF OfflineReading
  <2>3. queue' \in Seq(Request) /\ Len(queue') <= QueueCap
    <3>1. CASE Full
      <4>1. queue \in Seq(Request) /\ queue # <<>> /\ Len(queue) = QueueCap
        BY <3>1 DEF Full, TypeInv, AgentTypeOK
      <4>2. Tail(queue) \in Seq(Request) /\ Len(Tail(queue)) = QueueCap - 1
        BY <4>1
      <4> QED BY <1>5, <3>1, <2>2, <4>2 DEF MeterOffline
    <3>2. CASE ~Full
      <4>1. queue \in Seq(Request) /\ Len(queue) < QueueCap /\ Len(queue) \in Nat
        BY <3>2 DEF Full, TypeInv, AgentTypeOK
      <4> QED BY <1>5, <3>2, <2>2, <4>1 DEF MeterOffline
    <3> QED BY <3>1, <3>2
  <2>4. queued' \in Nat /\ dropped' \in Nat
    BY <1>5 DEF MeterOffline, TypeInv, AgentTypeOK
  <2>5. AgentTypeOK'
    BY <1>5, <2>1, <2>3, <2>4 DEF MeterOffline, sessionVars, powerVars, TypeInv, AgentTypeOK
  <2>6. NumbersBounded'
    BY <1>5, <2>1 DEF MeterOffline, sessionVars, TypeInv, NumbersBounded, Ceiling
  <2> QED BY <2>5, <2>6 DEF TypeInv
<1>6. CASE TimePasses
  <2>1. AgentTypeOK'
    BY <1>6 DEF TimePasses, sessionVars, powerVars, queueVars, TypeInv, AgentTypeOK
  <2>2. NumbersBounded'
    BY <1>6 DEF TimePasses, sessionVars, TypeInv, NumbersBounded, Ceiling
  <2> QED BY <2>1, <2>2 DEF TypeInv
<1>7. CASE LoseConnection
  <2>1. contactor' \in BOOLEAN
    BY <1>7 DEF LoseConnection, ContactorAfterLoss, TypeInv, AgentTypeOK
  <2>2. AgentTypeOK'
    BY <1>7, <2>1, EmptyQueue DEF LoseConnection, Awaits, txVars, TypeInv, AgentTypeOK
  <2>3. NumbersBounded'
    BY <1>7 DEF LoseConnection, txVars, TypeInv, NumbersBounded, Ceiling
  <2> QED BY <2>2, <2>3 DEF TypeInv
<1>8. CASE Answer
  <2>1. AgentTypeOK'
    BY <1>8 DEF Answer, powerVars, txVars, queueVars, TypeInv, AgentTypeOK
  <2>2. NumbersBounded'
    BY <1>8 DEF Answer, txVars, TypeInv, NumbersBounded, Ceiling
  <2> QED BY <2>1, <2>2 DEF TypeInv
<1> QED BY <1>1, <1>2, <1>3, <1>4, <1>5, <1>6, <1>7, <1>8 DEF AgentNext, AgentStep

LEMMA TypeStutters == ASSUME TypeInv, UNCHANGED agentVars PROVE TypeInv'
BY DEF agentVars, sessionVars, powerVars, txVars, queueVars, TypeInv, AgentTypeOK,
   NumbersBounded, Ceiling

LEMMA TypesHold == AgentSpec => []TypeInv
<1>1. TypeInv /\ [AgentNext]_agentVars => TypeInv'
  BY AgentKeepsTypes, TypeStutters
<1> QED BY <1>1, TypeInit, PTL DEF AgentSpec

\* Every variable of a charger keeps its type; the numbers of a transaction
\* stay below the bound of SeqNos however often the connection is lost, and the
\* offline queue never exceeds its cap (agent/station.py, agent/offline_queue.py).
THEOREM AgentTypes == AgentSpec => []AgentTypeOK
BY TypesHold, PTL DEF TypeInv

-----------------------------------------------------------------------------
(* Power and the transaction.                                              *)

LEMMA EndTransactionPower ==
  ASSUME TypeInv, PowerInv, NEW sent, NEW changed, EndTransaction(sent, changed)
  PROVE  PowerInv'
BY DEF EndTransaction, ApplyPower, Becomes, DrawsPower, Await, InTransaction,
   PowerInv, CurrentOnlyInTransaction, SuspendedIffCurtailed

LEMMA LoopTopPower ==
  ASSUME TypeInv, PowerInv, NEW sent, NEW changed, LoopTop(sent, changed)
  PROVE  PowerInv'
<1>1. CASE timeUp BY <1>1, EndTransactionPower DEF LoopTop
<1>2. CASE ~timeUp
  BY <1>2 DEF LoopTop, Await, PowerInv, CurrentOnlyInTransaction, SuspendedIffCurtailed
<1> QED BY <1>1, <1>2

LEMMA FinishPower == ASSUME PowerInv, NEW b, Finish(b) PROVE PowerInv'
BY DEF Finish, txVars, PowerInv, CurrentOnlyInTransaction, SuspendedIffCurtailed

\* The session goes on without touching the power or the transaction.
LEMMA AwaitPower ==
  ASSUME PowerInv, NEW p, NEW r, Await(p, r), UNCHANGED <<powerVars, tx>>,
         p \notin {"ending", "plugging", "done"}
  PROVE  PowerInv'
BY DEF Await, powerVars, PowerInv, CurrentOnlyInTransaction, SuspendedIffCurtailed

LEMMA SessionKeepsPower == ASSUME TypeInv, PowerInv, Session PROVE PowerInv'
<1>1. CASE Booted \/ Arrived \/ CardRefused \/ Meter
  BY <1>1, AwaitPower DEF Booted, Arrived, CardRefused, Meter, txVars
<1>2. CASE BootRefused \/ RefusalOver \/ Left
  BY <1>2, FinishPower DEF BootRefused, RefusalOver, Left
<1>3. CASE PlugIn
  BY <1>3 DEF PlugIn, Becomes, Await, txVars, InTransaction,
     PowerInv, CurrentOnlyInTransaction, SuspendedIffCurtailed
<1>4. CASE StartCharging
  <2>1. tx' # NoTx /\ limit \in Int /\ limit >= 0
    BY <1>4, AgentAssumption
       DEF AgentAssumption, StartCharging, StartTransaction, NewTransactionId, TypeInv,
           AgentTypeOK, TxIds, NoTx, Limits
  <2> QED BY <1>4, <2>1
      DEF StartCharging, StartTransaction, ApplyPower, Becomes, DrawsPower, Await, InTransaction,
          PowerInv, CurrentOnlyInTransaction, SuspendedIffCurtailed
<1>5. CASE Started \/ Metered
  BY <1>5, LoopTopPower DEF Started, Metered
<1>6. CASE StopCharging
  BY <1>6, EndTransactionPower DEF StopCharging
<1>7. CASE Ended
  BY <1>7 DEF Ended, Replied, Reset, Becomes, Await, InTransaction,
     PowerInv, CurrentOnlyInTransaction, SuspendedIffCurtailed
<1>8. CASE Resynced
  BY <1>8, LoopTopPower, AwaitPower DEF Resynced, txVars
<1>9. CASE ReplayedOne
  BY <1>9, LoopTopPower, AwaitPower DEF ReplayedOne, txVars
<1> QED BY <1>1, <1>2, <1>3, <1>4, <1>5, <1>6, <1>7, <1>8, <1>9 DEF Session

\* A limit of l suspends or resumes a transaction and does nothing else.
LEMMA NewLimitPower ==
  ASSUME TypeInv, PowerInv, Connected, NEW l \in Limits, ApplyPower(NewState(l), l),
         UNCHANGED <<sessionVars, txVars>>
  PROVE  PowerInv'
<1>1. l \in Int /\ l >= 0
  BY AgentAssumption DEF AgentAssumption, Limits
<1>2. NewState(l) \in InTransaction <=> st \in InTransaction
  BY DEF NewState, InTransaction
<1>3. NewState(l) \in InTransaction => (NewState(l) = "suspended_evse" <=> l = 0)
  BY <1>1 DEF NewState, InTransaction
<1>4. st = "occupied" => NewState(l) = "occupied"
  BY DEF NewState
<1>5. /\ st' = NewState(l) /\ limit' = l /\ pc' = pc /\ tx' = tx /\ pc # "done"
      /\ contactor' = (NewState(l) \in InTransaction)
      /\ backend' = IF NewState(l) = "charging" THEN l ELSE 0
  BY DEF ApplyPower, Becomes, DrawsPower, Connected, sessionVars, txVars
<1> QED BY <1>2, <1>3, <1>4, <1>5
    DEF PowerInv, CurrentOnlyInTransaction, SuspendedIffCurtailed

LEMMA AgentKeepsPower == ASSUME TypeInv, PowerInv, AgentNext PROVE PowerInv'
<1>1. CASE Session BY <1>1, SessionKeepsPower
<1>2. CASE Command
  <2>1. MaxPower \in Limits BY AgentAssumption DEF AgentAssumption, Limits
  <2>2. CASE RequestStop
    BY <2>2 DEF RequestStop, sessionVars, powerVars, PowerInv, CurrentOnlyInTransaction,
       SuspendedIffCurtailed
  <2> QED BY <1>2, <2>1, <2>2, NewLimitPower DEF Command, SetProfile, ClearProfile
<1>3. CASE GiveUpDialling \/ CallError \/ Cancel
  BY <1>3, FinishPower DEF GiveUpDialling, CallError, Cancel
<1>4. CASE Dial \/ MeterOffline \/ TimePasses \/ Answer
  BY <1>4 DEF Dial, MeterOffline, TimePasses, Answer, sessionVars, powerVars, txVars,
     PowerInv, CurrentOnlyInTransaction, SuspendedIffCurtailed
<1>5. CASE LoseConnection
  BY <1>5 DEF LoseConnection, ContactorAfterLoss, txVars,
     PowerInv, CurrentOnlyInTransaction, SuspendedIffCurtailed
<1> QED BY <1>1, <1>2, <1>3, <1>4, <1>5 DEF AgentNext, AgentStep

LEMMA PowerStutters == ASSUME PowerInv, UNCHANGED agentVars PROVE PowerInv'
BY DEF agentVars, sessionVars, powerVars, txVars, PowerInv, CurrentOnlyInTransaction,
   SuspendedIffCurtailed

LEMMA PowerHolds == AgentSpec => []PowerInv
<1>1. AgentInit => PowerInv
  BY DEF AgentInit, SessionInit, PowerInit, TxInit, PowerInv, InTransaction,
     CurrentOnlyInTransaction, SuspendedIffCurtailed
<1>2. TypeInv /\ PowerInv /\ [AgentNext]_agentVars => PowerInv'
  BY AgentKeepsPower, PowerStutters
<1> QED BY <1>1, <1>2, TypesHold, PTL DEF AgentSpec

\* Safety rule 1 of the charger, for any interleaving of commands, losses of
\* the connection and steps of the session (station.py _apply_power_for_state).
THEOREM CurrentIsSafe == AgentSpec => []CurrentOnlyInTransaction
BY PowerHolds, PTL DEF PowerInv

\* A transaction is suspended exactly while the limit is zero
\* (station.py handle_set_charging_profile, _start_transaction).
THEOREM SuspensionIsTheLimit == AgentSpec => []SuspendedIffCurtailed
BY PowerHolds, PTL DEF PowerInv

\* The table of transitions is never violated (state_machine.py transition).
THEOREM TransitionsInTable == AgentSpec => TransitionsAllowed
<1>1. ASSUME TypeInv, PowerInv, [AgentNext]_agentVars, st' # st
      PROVE  <<st, st'>> \in Allowed
  <2>1. AgentNext BY <1>1 DEF agentVars, powerVars
  <2>2. st \in StationState BY <1>1 DEF TypeInv, AgentTypeOK
  <2>3. CASE \E sent, changed : EndTransaction(sent, changed)
    BY <1>1, <2>2, <2>3 DEF EndTransaction, ApplyPower, Becomes, StationState, Allowed
  <2>4. CASE PlugIn BY <2>4 DEF PlugIn, Becomes, Allowed
  <2>5. CASE StartCharging
    BY <1>1, <2>5
       DEF StartCharging, Replied, StartTransaction, ApplyPower, Becomes, PowerInv, Allowed
  <2>6. CASE Ended BY <1>1, <2>2, <2>6 DEF Ended, Reset, Becomes, StationState, Allowed
  <2>7. CASE \E l \in Limits : ApplyPower(NewState(l), l)
    BY <1>1, <2>7 DEF ApplyPower, Becomes, NewState, Allowed
  <2>8. MaxPower \in Limits BY AgentAssumption DEF AgentAssumption, Limits
  <2> QED BY <1>1, <2>1, <2>3, <2>4, <2>5, <2>6, <2>7, <2>8
      DEF AgentNext, AgentStep, Session, Booted, BootRefused, Arrived, CardRefused, RefusalOver,
          Started, LoopTop, Meter, StopCharging, Metered, Left, Resynced, ReplayedOne, Command,
          SetProfile, ClearProfile, RequestStop, Dial, GiveUpDialling, CallError, Cancel, Finish,
          MeterOffline, TimePasses, LoseConnection, Answer, powerVars
<1>2. TypeInv /\ PowerInv /\ [AgentNext]_agentVars => [st' # st => <<st, st'>> \in Allowed]_agentVars
  BY <1>1
<1> QED BY <1>2, TypesHold, PowerHolds, PTL DEF AgentSpec, TransitionsAllowed

-----------------------------------------------------------------------------
(* The offline queue.                                                      *)

LEMMA EmptyQueueInv ==
  ASSUME queue' = <<>>, queued' = dropped' + replayed' + 0,
         queued' \in Nat, dropped' \in Nat, replayed' \in Nat
  PROVE  QueueInv'
BY DEF QueueInv, QueueIsOfThisTransaction

LEMMA QueueNumbers == ASSUME TypeInv PROVE \A i \in 1..Len(queue) : queue[i].seq \in Int
<1>1. \A i \in 1..Len(queue) : queue[i] \in Request
  BY DEF TypeInv, AgentTypeOK
<1>2. \A r \in Request : r.seq \in SeqNos
  BY DEF Request
<1>3. \A n \in SeqNos : n \in Int
  BY AgentAssumption DEF AgentAssumption, SeqNos
<1> QED BY <1>1, <1>2, <1>3

\* A step that leaves the queue and the open transaction alone, only counts
\* further, and leaves the outage only with an empty queue.
LEMMA QueueKept ==
  ASSUME TypeInv, QueueInv, UNCHANGED <<queue, queued, dropped, replayed, tx>>,
         seq' \in Int, seq' >= seq,
         queue # <<>> => pc' \in {"down", "boot", "resyncing", "done"}
  PROVE  QueueInv'
<1>1. seq \in Int /\ \A i \in 1..Len(queue) : queue[i].seq \in Int
  BY TypeFacts, QueueNumbers
<1> QED BY <1>1 DEF QueueInv, QueueIsOfThisTransaction

LEMMA EndTransactionQueue ==
  ASSUME TypeInv, QueueInv, queue = <<>>, NEW sent, NEW changed,
         EndTransaction(sent, changed), UNCHANGED <<queue, queued, dropped, replayed>>
  PROVE  QueueInv'
BY QueueKept, TypeFacts DEF EndTransaction

LEMMA LoopTopQueue ==
  ASSUME TypeInv, QueueInv, queue = <<>>, NEW sent, NEW changed,
         LoopTop(sent, changed), UNCHANGED <<queue, queued, dropped, replayed>>
  PROVE  QueueInv'
BY QueueKept, EndTransactionQueue, TypeFacts DEF LoopTop

LEMMA FinishQueue == ASSUME TypeInv, QueueInv, NEW b, Finish(b) PROVE QueueInv'
BY QueueKept, TypeFacts DEF Finish, txVars

LEMMA SessionKeepsQueue == ASSUME TypeInv, QueueInv, Session PROVE QueueInv'
<1> USE TypeFacts
<1>1. CASE Booted
  BY <1>1, QueueKept DEF Booted, Await, QueueInv, txVars, queueVars
<1>2. CASE BootRefused \/ RefusalOver \/ Left
  BY <1>2, FinishQueue DEF BootRefused, RefusalOver, Left
<1>3. CASE Arrived \/ CardRefused \/ PlugIn
  BY <1>3, QueueKept DEF Arrived, CardRefused, PlugIn, Replied, QueueInv, txVars, queueVars
<1>4. CASE StartCharging
  <2>1. queue = <<>> BY <1>4 DEF StartCharging, Replied, QueueInv
  <2>2. queued = dropped + replayed + 0
    BY <2>1 DEF QueueInv, QueueIsOfThisTransaction
  <2> QED BY <1>4, <2>2, EmptyQueueInv
      DEF StartCharging, StartTransaction, ClearQueue, TypeInv, AgentTypeOK
<1>5. CASE Started \/ Metered
  BY <1>5, LoopTopQueue DEF Started, Metered, Replied, QueueInv, queueVars
<1>6. CASE Meter
  BY <1>6, QueueKept DEF Meter, QueueInv, queueVars
<1>7. CASE StopCharging
  BY <1>7, EndTransactionQueue DEF StopCharging, QueueInv, queueVars
<1>8. CASE Ended
  <2>1. queue = <<>> BY <1>8 DEF Ended, Replied, QueueInv
  <2>2. queued = dropped + replayed + 0
    BY <2>1 DEF QueueInv, QueueIsOfThisTransaction
  <2> QED BY <1>8, <2>1, <2>2, EmptyQueueInv DEF Ended, queueVars, TypeInv, AgentTypeOK
<1>9. CASE Resynced
  <2>1. CASE queue = <<>>
    BY <1>9, <2>1, LoopTopQueue DEF Resynced, queueVars
  <2>2. CASE queue # <<>>
    <3>1. Drain(Tail(queue)) BY <1>9, <2>2 DEF Resynced
    <3>2. Len(queue) \in Nat /\ queued \in Nat /\ dropped \in Nat /\ replayed \in Nat
      BY DEF TypeInv, AgentTypeOK
    <3>3. queued = dropped + replayed + Len(queue)
      BY DEF QueueInv, QueueIsOfThisTransaction
    <3> QED BY <3>1, <3>2, <3>3, EmptyQueueInv DEF Drain
  <2> QED BY <2>1, <2>2
<1>10. CASE ReplayedOne
  <2>1. queue = <<>> BY <1>10 DEF ReplayedOne, Replied, QueueInv
  <2>2. CASE replaying = <<>>
    BY <1>10, <2>1, <2>2, LoopTopQueue DEF ReplayedOne
  <2>3. CASE replaying # <<>>
    BY <1>10, <2>1, <2>3, QueueKept DEF ReplayedOne, txVars
  <2> QED BY <2>2, <2>3
<1> QED BY <1>1, <1>2, <1>3, <1>4, <1>5, <1>6, <1>7, <1>8, <1>9, <1>10 DEF Session

\* A reading taken during the outage joins at the end; a full queue gives up
\* its oldest.
LEMMA OfflineKeepsQueue == ASSUME TypeInv, QueueInv, MeterOffline PROVE QueueInv'
<1> DEFINE kept == IF Full THEN Tail(queue) ELSE queue
<1>1. /\ queue \in Seq(Request) /\ Len(queue) <= QueueCap /\ QueueCap \in Int /\ QueueCap > 0
      /\ seq \in Int /\ \A i \in 1..Len(queue) : queue[i].seq \in Int
      /\ queued \in Int /\ dropped \in Int /\ replayed \in Int
  BY TypeFacts, QueueNumbers DEF TypeInv, AgentTypeOK
<1>2. /\ queued = dropped + replayed + Len(queue)
      /\ \A i \in 1..Len(queue) : queue[i].tx = tx /\ queue[i].seq < seq
      /\ \A i, j \in 1..Len(queue) : i < j => queue[i].seq < queue[j].seq
  BY DEF QueueInv, QueueIsOfThisTransaction
<1>3. /\ kept \in Seq(Request)
      /\ Len(kept) = Len(queue) - (IF Full THEN 1 ELSE 0)
      /\ \A i \in 1..Len(kept) : kept[i] = queue[i + (IF Full THEN 1 ELSE 0)]
  BY <1>1 DEF Full
<1>4. /\ \A i \in 1..Len(kept) : kept[i].tx = tx /\ kept[i].seq < seq /\ kept[i].seq \in Int
      /\ \A i, j \in 1..Len(kept) : i < j => kept[i].seq < kept[j].seq
  BY <1>1, <1>2, <1>3
<1>5. OfflineReading.tx = tx /\ OfflineReading.seq = seq
  BY DEF OfflineReading, QueuedEvent
<1>6. /\ queue' = Append(kept, OfflineReading) /\ tx' = tx /\ seq' = seq + 1 /\ tx # NoTx /\ pc' = "down"
      /\ queued' = queued + 1 /\ dropped' = dropped + (IF Full THEN 1 ELSE 0) /\ replayed' = replayed
  BY DEF MeterOffline, sessionVars
<1> HIDE DEF kept
<1>7. /\ Len(queue') = Len(kept) + 1 /\ Len(kept) \in Nat
      /\ \A i \in 1..Len(kept) : queue'[i] = kept[i]
      /\ queue'[Len(kept) + 1] = OfflineReading
  BY <1>3, <1>6
<1>8. queued' = dropped' + replayed' + Len(queue')
  <2>1. CASE Full BY <1>1, <1>2, <1>3, <1>6, <1>7, <2>1
  <2>2. CASE ~Full BY <1>1, <1>2, <1>3, <1>6, <1>7, <2>2
  <2> QED BY <2>1, <2>2
<1>9. \A i \in 1..Len(queue') : queue'[i].tx = tx' /\ queue'[i].seq < seq'
  <2> TAKE i \in 1..Len(queue')
  <2>1. CASE i \in 1..Len(kept) BY <1>1, <1>4, <1>6, <1>7, <2>1
  <2>2. CASE i = Len(kept) + 1 BY <1>1, <1>5, <1>6, <1>7, <2>2
  <2> QED BY <1>7, <2>1, <2>2
<1>10. \A i, j \in 1..Len(queue') : i < j => queue'[i].seq < queue'[j].seq
  <2> TAKE i, j \in 1..Len(queue')
  <2> HAVE i < j
  <2>1. i \in 1..Len(kept) /\ queue'[i] = kept[i] BY <1>7
  <2>2. CASE j \in 1..Len(kept) BY <1>4, <1>7, <2>1, <2>2
  <2>3. CASE j = Len(kept) + 1 BY <1>4, <1>5, <1>7, <2>1, <2>3
  <2> QED BY <1>7, <2>2, <2>3
<1> QED BY <1>6, <1>8, <1>9, <1>10 DEF QueueInv, QueueIsOfThisTransaction

LEMMA AgentKeepsQueue == ASSUME TypeInv, QueueInv, AgentNext PROVE QueueInv'
<1> USE TypeFacts
<1>1. CASE Session BY <1>1, SessionKeepsQueue
<1>2. CASE Command
  <2>1. UNCHANGED <<queue, queued, dropped, replayed, tx, seq, pc>>
    BY <1>2 DEF Command, SetProfile, ClearProfile, RequestStop, sessionVars, txVars, queueVars
  <2> QED BY <2>1, QueueKept DEF QueueInv
<1>3. CASE GiveUpDialling \/ CallError \/ Cancel
  BY <1>3, FinishQueue DEF GiveUpDialling, CallError, Cancel
<1>4. CASE MeterOffline BY <1>4, OfflineKeepsQueue
<1>5. CASE Dial \/ TimePasses \/ Answer \/ LoseConnection
  <2>1. UNCHANGED <<queue, queued, dropped, replayed, tx, seq>> /\ pc' \in {pc, "down", "boot"}
    BY <1>5 DEF Dial, TimePasses, Answer, LoseConnection, sessionVars, txVars, queueVars
  <2> QED BY <2>1, QueueKept DEF QueueInv
<1> QED BY <1>1, <1>2, <1>3, <1>4, <1>5 DEF AgentNext, AgentStep

LEMMA QueueStutters == ASSUME QueueInv, UNCHANGED agentVars PROVE QueueInv'
BY DEF agentVars, sessionVars, txVars, queueVars, QueueInv, QueueIsOfThisTransaction

LEMMA QueueHolds == AgentSpec => []QueueInv
<1>1. AgentInit => QueueInv
  BY DEF AgentInit, QueueInit, QueueInv, QueueIsOfThisTransaction
<1>2. TypeInv /\ QueueInv /\ [AgentNext]_agentVars => QueueInv'
  BY AgentKeepsQueue, QueueStutters
<1> QED BY <1>1, <1>2, TypesHold, PTL DEF AgentSpec

\* What waits to be replayed belongs to the open transaction, in order, and no
\* reading is unaccounted for, for any cap and any number of outages
\* (offline_queue.py append, drain, clear).
THEOREM QueueOfOneTransaction == AgentSpec => []QueueIsOfThisTransaction
BY QueueHolds, PTL DEF QueueInv

-----------------------------------------------------------------------------
(* The charger inside the composition is the charger of StationAgent.      *)

LEMMA StepOfAgent ==
  ASSUME [ReportingNext]_reportingVars PROVE [AgentNext]_agentVars
BY DEF ReportingNext, reportingVars, Charger, Lose, ServerHandles, ServerHandlesLate, AgentNext

\* Whatever the server does with the requests, the charger behaves as
\* StationAgent says: every theorem about AgentSpec holds of the composition.
THEOREM ReportingIsAgent == ReportingSpec => AgentSpec
<1>1. ReportingInit => AgentInit BY DEF ReportingInit
<1>2. [ReportingNext]_reportingVars => [AgentNext]_agentVars BY StepOfAgent
<1> QED BY <1>1, <1>2, PTL DEF ReportingSpec, AgentSpec

-----------------------------------------------------------------------------
(* What is on its way.                                                     *)

\* The awaits of a session with a transaction, and those of one without.
Within  == {"resyncing", "starting", "asleep", "metering", "replaying", "ending"}
Without == {"arriving", "authorizing", "refused", "plugging", "leaving"}

\* Numbers are given out in order, each once: the newest transaction is the
\* open one, an event on the wire is older than the next number, and what is
\* still to be replayed comes after what is being replayed.
SendInv ==
  /\ tx # NoTx => tx = txs
  /\ pc \in Within => tx # NoTx
  /\ pc \in Without => tx = NoTx
  /\ wire.req \in EventTypes => tx # NoTx /\ wire.tx = tx /\ wire.seq < seq
  /\ pc \in {"down", "boot", "resyncing", "done"} => wire.req \notin EventTypes
  /\ pc = "ending" => wire.req = "Ended" /\ wire.seq = seq - 1
  /\ replaying # <<>> => pc = "replaying"
  /\ \A i \in 1..Len(replaying) :
       replaying[i].tx = tx /\ wire.seq < replaying[i].seq /\ replaying[i].seq < seq
  /\ \A i, j \in 1..Len(replaying) : i < j => replaying[i].seq < replaying[j].seq

\* The shapes of a step of the charger, as far as events go.
\* Nothing is sent.
Quiet == UNCHANGED <<pc, wire, answered, tx, txs, seq, queue, replaying>>

\* A reading is kept for later.
Keeps ==
  /\ pc = "down" /\ tx # NoTx
  /\ UNCHANGED <<pc, wire, answered, tx, txs, replaying>>
  /\ seq' = seq + 1
  /\ queue' = Append(IF Full THEN Tail(queue) ELSE queue, OfflineReading)

\* A request that is no event, or none.
Silent ==
  /\ wire'.req \notin EventTypes /\ ~answered'
  /\ UNCHANGED <<txs, seq, queue>> /\ replaying' = <<>>
  /\ \/ pc' \notin Within /\ pc' \notin Without /\ UNCHANGED tx
     \/ pc' \in {"resyncing", "asleep"} /\ tx # NoTx /\ UNCHANGED tx
     \/ pc' \in Without /\ tx = NoTx /\ UNCHANGED tx
     \/ pc' \in Without /\ pc = "ending" /\ answered /\ tx' = NoTx

\* A new transaction begins.
Begins ==
  /\ pc \in Without
  /\ wire'.req = "Started" /\ wire'.tx = tx' /\ wire'.seq = 0 /\ ~answered'
  /\ pc' = "starting" /\ tx' = txs + 1 /\ txs' = txs + 1 /\ tx' # NoTx /\ seq' = 1
  /\ queue' = <<>> /\ replaying' = <<>>

\* An event of the open transaction is made and sent.
Reports ==
  /\ wire'.req \in {"Updated", "Ended"} /\ wire'.tx = tx /\ wire'.seq = seq /\ ~answered'
  /\ pc' = IF wire'.req = "Ended" THEN "ending" ELSE "metering"
  /\ UNCHANGED <<tx, txs, queue>> /\ tx # NoTx /\ seq' = seq + 1
  /\ queue = <<>> /\ replaying' = <<>>

\* The next kept reading is sent.
Replays(kept) ==
  /\ kept # <<>> /\ tx # NoTx
  /\ wire' = Head(kept) /\ replaying' = Tail(kept) /\ queue' = <<>>
  /\ ~answered' /\ pc' = "replaying" /\ UNCHANGED <<tx, txs, seq>>

LEMMA FinishIsSilent ==
  ASSUME NEW b, Finish(b) PROVE Silent
BY DEF Finish, Silent, Plain, EventTypes, Within, Without, txVars

LEMMA EndIsReported ==
  ASSUME NEW sent, NEW changed, EndTransaction(sent, changed), tx # NoTx, queue = <<>>,
         UNCHANGED queue, replaying' = <<>>
  PROVE  Reports
BY DEF EndTransaction, Await, Event, Reports

LEMMA LoopTopSends ==
  ASSUME NEW sent, NEW changed, LoopTop(sent, changed), tx # NoTx, queue = <<>>,
         UNCHANGED queue, replaying' = <<>>
  PROVE  Silent \/ Reports
<1>1. CASE timeUp BY <1>1, EndIsReported DEF LoopTop
<1>2. CASE ~timeUp
  BY <1>2 DEF LoopTop, Await, Plain, Silent, EventTypes
<1> QED BY <1>1, <1>2

LEMMA SessionShape ==
  ASSUME TypeInv, QueueInv, SendInv, Session
  PROVE  Silent \/ Begins \/ Reports \/ Replays(queue) \/ Replays(replaying)
<1> USE DEF Replied
<1>1. CASE Booted \/ Arrived \/ CardRefused \/ PlugIn
  BY <1>1 DEF Booted, Arrived, CardRefused, PlugIn, Await, BootRequest, StatusRequest, AuthorizeRequest,
     Plain, SendInv, Silent, Within, Without, EventTypes, txVars, queueVars
<1>2. CASE BootRefused \/ RefusalOver \/ Left
  BY <1>2, FinishIsSilent DEF BootRefused, RefusalOver, Left
<1>3. CASE StartCharging
  <2>1. tx' = txs + 1 /\ tx' # NoTx
    BY <1>3 DEF StartCharging, StartTransaction, NewTransactionId, TypeInv, AgentTypeOK, TxIds, NoTx
  <2> QED BY <1>3, <2>1
      DEF StartCharging, StartTransaction, ClearQueue, Await, Event, Begins, SendInv, Without
<1>4. CASE Started \/ Metered
  <2>1. pc \in {"starting", "metering"} /\ UNCHANGED queueVars
    BY <1>4 DEF Started, Metered
  <2>2. tx # NoTx /\ queue = <<>> /\ UNCHANGED queue /\ replaying' = <<>>
    BY <2>1 DEF SendInv, QueueInv, Within, queueVars
  <2> QED BY <1>4, <2>2, LoopTopSends DEF Started, Metered
<1>5. CASE Meter
  BY <1>5 DEF Meter, Await, Event, SendInv, QueueInv, Within, Reports, queueVars
<1>6. CASE StopCharging
  BY <1>6, EndIsReported DEF StopCharging, SendInv, QueueInv, Within, queueVars
<1>7. CASE Ended
  BY <1>7 DEF Ended, Await, StatusRequest, Plain, SendInv, Silent, Within, Without, EventTypes, queueVars
<1>8. CASE Resynced
  <2>1. tx # NoTx /\ replaying = <<>> BY <1>8 DEF Resynced, SendInv, Within
  <2>2. CASE queue = <<>>
    BY <1>8, <2>1, <2>2, LoopTopSends DEF Resynced, queueVars
  <2>3. CASE queue # <<>>
    BY <1>8, <2>1, <2>3 DEF Resynced, Await, Drain, Replays, txVars
  <2> QED BY <2>2, <2>3
<1>9. CASE ReplayedOne
  <2>1. tx # NoTx /\ queue = <<>> BY <1>9 DEF ReplayedOne, SendInv, QueueInv, Within
  <2>2. CASE replaying = <<>>
    BY <1>9, <2>1, <2>2, LoopTopSends DEF ReplayedOne
  <2>3. CASE replaying # <<>>
    BY <1>9, <2>1, <2>3 DEF ReplayedOne, Await, Replays, txVars
  <2> QED BY <2>2, <2>3
<1> QED BY <1>1, <1>2, <1>3, <1>4, <1>5, <1>6, <1>7, <1>8, <1>9 DEF Session

LEMMA Shape ==
  ASSUME TypeInv, QueueInv, SendInv, AgentStep \/ LoseConnection
  PROVE  \/ Quiet \/ Keeps \/ Silent \/ Begins \/ Reports
         \/ Replays(queue) \/ Replays(replaying)
<1>1. CASE Session BY <1>1, SessionShape
<1>2. CASE Command \/ TimePasses
  BY <1>2 DEF Command, SetProfile, ClearProfile, RequestStop, TimePasses, sessionVars, txVars, queueVars, Quiet
<1>3. CASE Dial
  BY <1>3 DEF Dial, BootRequest, Plain, SendInv, Silent, Within, Without, EventTypes, txVars, queueVars
<1>4. CASE GiveUpDialling \/ CallError \/ Cancel
  BY <1>4, FinishIsSilent DEF GiveUpDialling, CallError, Cancel
<1>5. CASE MeterOffline
  BY <1>5 DEF MeterOffline, sessionVars, Keeps
<1>6. CASE LoseConnection
  BY <1>6 DEF LoseConnection, Plain, Silent, Within, Without, EventTypes, txVars
<1> QED BY <1>1, <1>2, <1>3, <1>4, <1>5, <1>6 DEF AgentStep

-----------------------------------------------------------------------------
(* Sending keeps the order.                                                *)

\* What a drained queue and a shortened replay look like.
LEMMA OrderOfRest ==
  ASSUME TypeInv, QueueInv, SendInv, NEW kept \in {queue, replaying}, kept # <<>>
  PROVE  /\ Head(kept).tx = tx /\ Head(kept).seq \in Int /\ Head(kept).seq < seq
         /\ Tail(kept) \in Seq(Request)
         /\ \A i \in 1..Len(Tail(kept)) :
              /\ Tail(kept)[i].tx = tx /\ Tail(kept)[i].seq < seq
              /\ Head(kept).seq < Tail(kept)[i].seq
         /\ \A i, j \in 1..Len(Tail(kept)) : i < j => Tail(kept)[i].seq < Tail(kept)[j].seq
<1>1. kept \in Seq(Request) BY DEF TypeInv, AgentTypeOK
<1>2. /\ \A i \in 1..Len(kept) : kept[i].tx = tx /\ kept[i].seq < seq
      /\ \A i, j \in 1..Len(kept) : i < j => kept[i].seq < kept[j].seq
  BY DEF QueueInv, QueueIsOfThisTransaction, SendInv
<1>3. /\ Tail(kept) \in Seq(Request) /\ Len(Tail(kept)) = Len(kept) - 1 /\ Len(kept) \in Nat /\ Len(kept) > 0
      /\ Head(kept) = kept[1] /\ 1 \in 1..Len(kept)
      /\ \A i \in 1..Len(Tail(kept)) : Tail(kept)[i] = kept[i + 1] /\ i + 1 \in 1..Len(kept)
  BY <1>1
<1>4. Head(kept).seq \in Int
  <2>1. kept[1] \in Request BY <1>1, <1>3
  <2>2. kept[1].seq \in SeqNos BY <2>1 DEF Request
  <2> QED BY <1>3, <2>2, AgentAssumption DEF AgentAssumption, SeqNos
<1>5. \A i \in 1..Len(Tail(kept)) : 1 < i + 1
  BY <1>3
<1>6. \A i, j \in 1..Len(Tail(kept)) : i < j => i + 1 < j + 1
  BY <1>3
<1> QED BY <1>2, <1>3, <1>4, <1>5, <1>6

LEMMA ReplayKeepsOrder ==
  ASSUME TypeInv, QueueInv, SendInv, NEW kept \in {queue, replaying}, Replays(kept)
  PROVE  SendInv'
<1>1. kept # <<>> /\ wire' = Head(kept) /\ replaying' = Tail(kept) /\ tx # NoTx /\ pc' = "replaying"
  BY DEF Replays
<1>2. UNCHANGED <<tx, txs, seq>> BY DEF Replays
<1> QED BY <1>1, <1>2, OrderOfRest DEF SendInv, Within, Without

LEMMA StepKeepsOrder ==
  ASSUME TypeInv, QueueInv, SendInv, AgentStep \/ LoseConnection
  PROVE  SendInv'
<1>1. seq \in Int /\ seq >= 0 BY TypeFacts
<1>2. CASE Quiet
  BY <1>2 DEF Quiet, SendInv
<1>3. CASE Keeps
  <2>1. \A i \in 1..Len(replaying) : replaying[i].seq \in Int
    BY <1>3 DEF Keeps, SendInv
  <2> QED BY <1>1, <1>3, <2>1 DEF Keeps, SendInv, Within, Without
<1>4. CASE Silent
  BY <1>4 DEF Silent, SendInv, Within, Without
<1>5. CASE Begins
  BY <1>5 DEF Begins, SendInv, Within, Without
<1>6. CASE Reports
  BY <1>1, <1>6 DEF Reports, SendInv, Within, Without
<1>7. CASE Replays(queue) \/ Replays(replaying)
  BY <1>7, ReplayKeepsOrder
<1> QED BY <1>2, <1>3, <1>4, <1>5, <1>6, <1>7, Shape

-----------------------------------------------------------------------------
(* No event twice.                                                         *)

\* The events the server has or may still get from a dead connection.
Known == arrived \cup {StampOf(m) : m \in late}

\* A stamp given out already.
Used(a) == a[1] \in TxIds /\ a[2] \in Int /\ (a[1] < txs \/ (a[1] = txs /\ a[2] < seq))

\* Nothing the charger may still send is known to the server.
OnceInv ==
  /\ \A a \in Known : Used(a)
  /\ \A m \in late : m \in Request /\ m.req \in EventTypes /\ StampOf(m) \notin arrived
  /\ \A m, n \in late : StampOf(m) = StampOf(n) => m = n
  /\ wire.req \in EventTypes /\ ~answered => StampOf(wire) \notin Known
  /\ \A i \in 1..Len(queue) : StampOf(queue[i]) \notin Known
  /\ \A i \in 1..Len(replaying) : StampOf(replaying[i]) \notin Known

LEMMA UsedStays ==
  ASSUME TypeInv, TypeInv', NEW a, Used(a),
         \/ UNCHANGED txs /\ seq' >= seq
         \/ txs' = txs + 1
  PROVE  Used(a)'
<1>1. txs \in Int /\ seq \in Int /\ txs' \in Int /\ seq' \in Int
  BY AgentAssumption DEF AgentAssumption, TypeInv, AgentTypeOK, TxIds, NoTx, SeqNos
<1>2. a[1] \in Int /\ a[1] \in TxIds /\ a[2] \in Int
  BY AgentAssumption DEF AgentAssumption, Used, TxIds
<1> QED BY <1>1, <1>2 DEF Used

\* The next stamp and the first of a new transaction are not used.
LEMMA NextIsUnused ==
  ASSUME TypeInv, OnceInv, NEW a \in Known
  PROVE  a # <<txs, seq>> /\ a # <<txs + 1, 0>>
BY TypeFacts DEF OnceInv, Used, TypeInv, AgentTypeOK, TxIds, NoTx

\* A step of the charger that leaves the server and the dead connections alone.
LEMMA StepKeepsOnce ==
  ASSUME TypeInv, TypeInv', QueueInv, SendInv, OnceInv,
         AgentStep \/ LoseConnection, UNCHANGED serverVars
  PROVE  OnceInv'
<1>1. UNCHANGED <<late, arrived>> /\ Known' = Known
  BY DEF serverVars, logVars, Known
<1>2. ASSUME (UNCHANGED txs /\ seq' >= seq) \/ txs' = txs + 1
      PROVE  \A a \in Known' : Used(a)'
  BY <1>1, <1>2, UsedStays DEF OnceInv
<1>3. seq \in Int /\ seq + 1 >= seq /\ seq >= seq BY TypeFacts
<1>4. CASE Quiet
  BY <1>1, <1>2, <1>3, <1>4 DEF Quiet, OnceInv, StampOf
<1>5. CASE Keeps
  <2>1. StampOf(OfflineReading) \notin Known
    BY <1>5, NextIsUnused DEF Keeps, SendInv, OfflineReading, QueuedEvent, StampOf
  <2>2. queue \in Seq(Request) BY DEF TypeInv, AgentTypeOK
  <2>3. Full => queue # <<>> BY TypeFacts DEF Full
  <2> DEFINE kept == IF Full THEN Tail(queue) ELSE queue
  <2>4. kept \in Seq(Request) /\ Len(kept) \in Nat
    BY <2>2, <2>3
  <2>5. \A i \in 1..Len(kept) : StampOf(kept[i]) \notin Known
    BY <2>2, <2>3 DEF OnceInv
  <2>6. queue' = Append(kept, OfflineReading) BY <1>5 DEF Keeps
  <2> HIDE DEF kept
  <2>7. \A i \in 1..Len(queue') : queue'[i] = OfflineReading \/ (\E j \in 1..Len(kept) : queue'[i] = kept[j])
    <3>1. /\ Len(queue') = Len(kept) + 1
          /\ \A i \in 1..Len(kept) : queue'[i] = kept[i]
          /\ queue'[Len(kept) + 1] = OfflineReading
      BY <2>4, <2>6
    <3> TAKE i \in 1..Len(queue')
    <3>2. CASE i \in 1..Len(kept) BY <3>1, <3>2
    <3>3. CASE i = Len(kept) + 1 BY <3>1, <3>3
    <3> QED BY <2>4, <3>1, <3>2, <3>3
  <2>8. \A i \in 1..Len(queue') : StampOf(queue'[i]) \notin Known
    BY <2>1, <2>5, <2>7
  <2> QED BY <1>1, <1>2, <1>3, <1>5, <2>8 DEF Keeps, OnceInv, StampOf
<1>6. CASE Silent
  BY <1>1, <1>2, <1>3, <1>6 DEF Silent, OnceInv, StampOf
<1>7. CASE Begins
  BY <1>1, <1>2, <1>7, NextIsUnused DEF Begins, OnceInv, StampOf
<1>8. CASE Reports
  BY <1>1, <1>2, <1>3, <1>8, NextIsUnused DEF Reports, SendInv, OnceInv, StampOf
<1>9. CASE \E kept \in {queue, replaying} : Replays(kept)
  <2>1. PICK kept \in {queue, replaying} : Replays(kept) BY <1>9
  <2>2. kept \in Seq(Request) /\ kept # <<>> BY <2>1 DEF Replays, TypeInv, AgentTypeOK
  <2>3. /\ Head(kept) = kept[1] /\ 1 \in 1..Len(kept)
        /\ \A i \in 1..Len(Tail(kept)) : Tail(kept)[i] = kept[i + 1] /\ i + 1 \in 1..Len(kept)
    BY <2>2
  <2>4. \A i \in 1..Len(kept) : StampOf(kept[i]) \notin Known
    BY DEF OnceInv
  <2> QED BY <1>1, <1>2, <1>3, <2>1, <2>3, <2>4 DEF Replays, OnceInv, StampOf
<1> QED BY <1>4, <1>5, <1>6, <1>7, <1>8, <1>9, Shape

\* Losing the connection may leave its event behind.
LEMMA LoseKeepsOnce ==
  ASSUME TypeInv, TypeInv', QueueInv, SendInv, OnceInv, Lose
  PROVE  OnceInv'
<1>1. CASE late' = late
  BY <1>1, StepKeepsOnce DEF Lose, serverVars
<1>2. CASE late' = late \cup {wire} /\ wire.req \in EventTypes /\ ~answered
  <2>1. /\ wire'.req \notin EventTypes /\ replaying' = <<>> /\ UNCHANGED <<queue, txs, seq, arrived>>
    BY DEF Lose, LoseConnection, Plain, EventTypes, txVars, logVars
  <2>2. queue = <<>> BY <1>2 DEF SendInv, QueueInv
  <2>3. wire \in Request /\ wire.tx = txs /\ wire.seq < seq /\ txs \in TxIds /\ wire.seq \in Int
    <3>1. wire \in Request BY DEF TypeInv, AgentTypeOK
    <3>2. wire.seq \in Int BY <3>1, AgentAssumption DEF AgentAssumption, Request, SeqNos
    <3>3. wire.tx = txs /\ wire.seq < seq /\ txs \in TxIds
      BY <1>2 DEF SendInv, TypeInv, AgentTypeOK
    <3> QED BY <3>1, <3>2, <3>3
  <2>4. Known' = Known \cup {StampOf(wire)}
    BY <1>2, <2>1 DEF Known, StampOf
  <2>5. Used(StampOf(wire)) /\ StampOf(wire) \notin Known
    BY <1>2, <2>3 DEF Used, StampOf, OnceInv
  <2>6. \A a \in Known' : Used(a)'
    BY <2>1, <2>4, <2>5 DEF Used, OnceInv
  <2>7. \A m \in late : StampOf(m) # StampOf(wire) BY <2>5 DEF Known
  <2>8. /\ \A m \in late' : m \in Request /\ m.req \in EventTypes /\ StampOf(m) \notin arrived'
        /\ \A m, n \in late' : StampOf(m) = StampOf(n) => m = n
    BY <1>2, <2>1, <2>3, <2>5, <2>7 DEF OnceInv, Known
  <2> QED BY <2>1, <2>2, <2>6, <2>8 DEF OnceInv, StampOf
<1> QED BY <1>1, <1>2 DEF Lose

\* Handling an event that is on the wire, or late, makes it arrive.
LEMMA HandlingKeepsOnce ==
  ASSUME TypeInv, QueueInv, SendInv, OnceInv, ServerHandles \/ ServerHandlesLate
  PROVE  OnceInv'
<1>1. CASE ServerHandles
  <2>1. /\ answered' /\ ~answered /\ UNCHANGED <<late, wire, txs, seq, queue, replaying>>
    BY <1>1 DEF ServerHandles, Answer, txVars, queueVars, serverVars
  <2>2. CASE wire.req \in EventTypes
    <3>1. arrived' = arrived \cup {StampOf(wire)}
      BY <1>1, <2>2 DEF ServerHandles, HandleEvent
    <3>2. wire.tx = txs /\ wire.seq < seq /\ txs \in TxIds /\ wire.seq \in Int
      <4>1. wire.seq \in Int
        <5>1. wire.seq \in SeqNos BY DEF TypeInv, AgentTypeOK, Request
        <5> QED BY <5>1, AgentAssumption DEF AgentAssumption, SeqNos
      <4> QED BY <2>2, <4>1 DEF SendInv, TypeInv, AgentTypeOK
    <3>3. Known' = Known \cup {StampOf(wire)} BY <2>1, <3>1 DEF Known, StampOf
    <3>4. Used(StampOf(wire)) BY <3>2 DEF Used, StampOf
    <3>5. \A a \in Known' : Used(a)' BY <2>1, <3>3, <3>4 DEF Used, OnceInv
    <3>6. queue = <<>> BY <2>2 DEF SendInv, QueueInv
    <3>7. StampOf(wire) \notin Known BY <2>1, <2>2 DEF OnceInv
    <3>8. \A i \in 1..Len(replaying) : StampOf(replaying[i]) # StampOf(wire)
      BY <3>2 DEF SendInv, StampOf
    <3>9. \A m \in late : StampOf(m) # StampOf(wire) BY <3>7 DEF Known
    <3> QED BY <2>1, <3>1, <3>3, <3>5, <3>6, <3>8, <3>9 DEF OnceInv, StampOf
  <2>3. CASE wire.req \notin EventTypes
    BY <1>1, <2>1, <2>3 DEF ServerHandles, serverVars, logVars, OnceInv, Used, Known, StampOf
  <2> QED BY <2>2, <2>3
<1>2. CASE ServerHandlesLate
  <2>1. PICK m \in late : late' = late \ {m} /\ HandleEvent(m) /\ UNCHANGED agentVars
    BY <1>2 DEF ServerHandlesLate
  <2>2. arrived' = arrived \cup {StampOf(m)} /\ UNCHANGED <<wire, answered, txs, seq, queue, replaying>>
    BY <2>1 DEF HandleEvent, agentVars, sessionVars, txVars, queueVars
  <2>3. Known' = Known BY <2>1, <2>2 DEF Known, StampOf
  <2>4. \A n \in late' : StampOf(n) \notin arrived'
    BY <2>1, <2>2 DEF OnceInv
  <2> QED BY <2>1, <2>2, <2>3, <2>4 DEF OnceInv, Used, StampOf
<1> QED BY <1>1, <1>2

\* What the theorems about events rest on.
ReportInv == TypeInv /\ QueueInv /\ SendInv /\ OnceInv

LEMMA AnswerKeepsOrder ==
  ASSUME SendInv, Answer \/ UNCHANGED agentVars PROVE SendInv'
BY DEF Answer, agentVars, sessionVars, txVars, queueVars, SendInv

LEMMA StepKeepsReport ==
  ASSUME ReportInv, [ReportingNext]_reportingVars PROVE ReportInv'
<1>1. TypeInv' /\ QueueInv'
  BY StepOfAgent, AgentKeepsTypes, TypeStutters, AgentKeepsQueue, QueueStutters DEF ReportInv
<1>2. SendInv'
  BY StepKeepsOrder, AnswerKeepsOrder
     DEF ReportInv, ReportingNext, reportingVars, Charger, Lose, ServerHandles, ServerHandlesLate
<1>3. OnceInv'
  <2>1. CASE Charger BY <1>1, <2>1, StepKeepsOnce DEF ReportInv, Charger
  <2>2. CASE Lose BY <1>1, <2>2, LoseKeepsOnce DEF ReportInv
  <2>3. CASE ServerHandles \/ ServerHandlesLate BY <2>3, HandlingKeepsOnce DEF ReportInv
  <2>4. CASE UNCHANGED reportingVars
    BY <2>4 DEF reportingVars, agentVars, sessionVars, txVars, queueVars, serverVars, logVars,
       ReportInv, OnceInv, Used, Known, StampOf
  <2> QED BY <2>1, <2>2, <2>3, <2>4 DEF ReportingNext
<1> QED BY <1>1, <1>2, <1>3 DEF ReportInv

LEMMA ReportHolds == ReportingSpec => []ReportInv
<1>1. ReportingInit => ReportInv
  <2> SUFFICES ASSUME ReportingInit PROVE ReportInv
    OBVIOUS
  <2>1. TypeInv BY TypeInit DEF ReportingInit
  <2>2. QueueInv BY DEF ReportingInit, AgentInit, QueueInit, QueueInv, QueueIsOfThisTransaction
  <2>3. SendInv
    BY DEF ReportingInit, AgentInit, SessionInit, TxInit, QueueInit, SendInv, Plain, EventTypes,
       Within, Without
  <2>4. OnceInv
    BY DEF ReportingInit, AgentInit, SessionInit, QueueInit, OnceInv, Known, Plain, EventTypes
  <2> QED BY <2>1, <2>2, <2>3, <2>4 DEF ReportInv
<1> QED BY <1>1, StepKeepsReport, PTL DEF ReportingSpec

\* No transaction event is handled twice, whatever is lost, delayed, kept
\* during an outage and replayed after it (offline_queue.py drain, station.py
\* _replay_queued_events).
THEOREM EventsOnce == ReportingSpec => NoDuplicate
<1>1. ASSUME ReportInv, answered', ~answered, wire.req \in EventTypes
      PROVE  \A t \in TxIds, n \in SeqNos : <<t, n>> \in arrived => StampOf(wire) # <<t, n>>
  BY <1>1 DEF ReportInv, OnceInv, Known
<1>2. ReportInv => [\A t \in TxIds, n \in SeqNos :
          (<<t, n>> \in arrived /\ answered' /\ ~answered /\ wire.req \in EventTypes)
            => StampOf(wire) # <<t, n>>]_reportingVars
  BY <1>1
<1> QED BY <1>2, ReportHolds, PTL DEF NoDuplicate

-----------------------------------------------------------------------------
(* The live state of the station.                                          *)

\* A transaction is over for the server before the charger forgets it.
EndedFirst ==
  /\ \A t \in 1..txs : t \in ended \/ t = tx
  /\ pc = "ending" /\ answered => tx \in ended
  /\ active \in {NoTx} \cup 1..txs
  /\ lastAt # NoStamp => Used(lastAt)

\* Without a transaction nothing is shown, and what is late is known to be late.
GhostInv ==
  /\ active = NoTx => shown = 0
  /\ overtaken = {} /\ (tx = NoTx \/ (pc = "ending" /\ answered)) =>
       /\ active = NoTx
       /\ \A m \in late : \E a \in arrived : Before(StampOf(m), a)

\* The reading shown is the newest of the open transaction.
NewestInv ==
  overtaken \subseteq {"Updated"} /\ tx # NoTx /\ tx \notin ended =>
    \A a \in arrived : a[1] = tx => lastAt # NoStamp /\ ~Before(lastAt, a)

LiveInv == EndedFirst /\ GhostInv /\ NewestInv

LEMMA Numbers ==
  ASSUME TypeInv, TypeInv', SendInv
  PROVE  /\ txs \in Int /\ txs >= 0 /\ seq \in Int /\ txs' \in Int /\ tx \in {NoTx, txs}
         /\ \A a : Used(a) => a[1] \in Int /\ a[1] <= txs /\ a[1] >= 1
<1>1. txs \in Int /\ txs >= 0 /\ txs' \in Int
  BY AgentAssumption DEF AgentAssumption, TypeInv, AgentTypeOK, TxIds, NoTx
<1>2. seq \in Int BY TypeFacts
<1>3. tx \in {NoTx, txs} BY DEF SendInv
<1>4. \A t \in TxIds : t \in Int /\ t >= 1 BY AgentAssumption DEF AgentAssumption, TxIds
<1> QED BY <1>1, <1>2, <1>3, <1>4 DEF Used

\* The charger's own steps leave the server where it is: a transaction that
\* begins has no events, and one that is forgotten was answered.
LEMMA StepKeepsLive ==
  ASSUME ReportInv, LiveInv, ReportInv', AgentStep \/ LoseConnection,
         UNCHANGED <<liveVars, logVars>>,
         late' = late \/ (wire.req \in EventTypes /\ tx' = tx /\ pc' = "down")
  PROVE  LiveInv'
<1> USE DEF ReportInv
<1>1. UNCHANGED <<active, lastAt, shown, arrived, ended, overtaken>>
  BY DEF liveVars, logVars
<1>2. /\ txs \in Int /\ txs >= 0 /\ seq \in Int /\ txs' \in Int
      /\ tx \in {NoTx, txs} /\ \A a : Used(a) => a[1] \in Int /\ a[1] <= txs /\ a[1] >= 1
  BY Numbers
<1>3. \/ UNCHANGED <<tx, txs>> /\ (pc' = "ending" /\ answered' => pc = "ending" /\ answered)
      \/ txs' = txs + 1 /\ tx' = txs + 1 /\ tx = NoTx /\ pc' = "starting"
      \/ UNCHANGED txs /\ tx' = NoTx /\ pc = "ending" /\ answered /\ pc' # "ending"
  BY Shape DEF Quiet, Keeps, Silent, Begins, Reports, Replays, SendInv, Within, Without
<1>4. EndedFirst'
  <2>1. \A t \in 1..txs' : t \in ended' \/ t = tx'
    <3> TAKE t \in 1..txs'
    <3>1. CASE t \in 1..txs
      BY <1>1, <1>2, <1>3, <3>1 DEF LiveInv, EndedFirst, NoTx
    <3>2. CASE t = txs + 1 BY <1>2, <1>3, <3>2
    <3> QED BY <1>2, <1>3, <3>1, <3>2
  <2>2. pc' = "ending" /\ answered' => tx' \in ended'
    BY <1>1, <1>3 DEF LiveInv, EndedFirst
  <2>3. active' \in {NoTx} \cup 1..txs'
    BY <1>1, <1>2, <1>3 DEF LiveInv, EndedFirst
  <2>4. lastAt' # NoStamp => Used(lastAt)'
    <3>1. (UNCHANGED txs /\ seq' >= seq) \/ txs' = txs + 1
      BY <1>2, Shape DEF Quiet, Keeps, Silent, Begins, Reports, Replays
    <3> QED BY <1>1, <3>1, UsedStays DEF LiveInv, EndedFirst, Used
  <2> QED BY <2>1, <2>2, <2>3, <2>4 DEF EndedFirst
<1>5. GhostInv'
  <2>1. tx' = NoTx \/ (pc' = "ending" /\ answered') => tx = NoTx \/ (pc = "ending" /\ answered)
    BY <1>2, <1>3 DEF NoTx
  <2>2. tx' = NoTx \/ (pc' = "ending" /\ answered') => late' = late
    BY <1>3 DEF SendInv
  <2> QED BY <1>1, <2>1, <2>2 DEF LiveInv, GhostInv, StampOf
<1>6. NewestInv'
  <2>1. CASE tx' = tx BY <1>1, <2>1 DEF LiveInv, NewestInv, Before
  <2>2. CASE tx' = txs + 1
    <3>1. \A a \in arrived : a[1] # tx' BY <1>2, <2>2 DEF OnceInv, Known
    <3> QED BY <1>1, <3>1 DEF NewestInv
  <2>3. CASE tx' = NoTx BY <2>3 DEF NewestInv
  <2> QED BY <1>3, <2>1, <2>2, <2>3
<1> QED BY <1>4, <1>5, <1>6 DEF LiveInv

LEMMA NoStampUnused == ~Used(NoStamp)
BY AgentAssumption DEF AgentAssumption, Used, NoStamp, NoTx, TxIds

\* The server handles m: the last request of the connection, or a late event.
LEMMA HandlingKeepsLive ==
  ASSUME ReportInv, ReportInv', LiveInv, NEW m, m.req \in EventTypes, HandleEvent(m),
         Used(StampOf(m)), StampOf(m) \notin arrived,
         UNCHANGED <<pc, tx, txs, seq, wire>>, late' \subseteq late,
         \/ m \in late /\ UNCHANGED answered
         \/ m = wire /\ StampOf(m) \notin Known /\ answered'
  PROVE  LiveInv'
<1> USE DEF ReportInv
<1> DEFINE s == StampOf(m)
<1>1. /\ txs \in Int /\ txs >= 0 /\ seq \in Int /\ tx \in {NoTx, txs}
      /\ \A a : Used(a) => a[1] \in Int /\ a[1] <= txs /\ a[1] >= 1
  BY Numbers
<1>2. /\ s[1] = m.tx /\ s[2] = m.seq /\ s = <<m.tx, m.seq>>
      /\ m.tx \in 1..txs /\ m.seq \in Int /\ m.tx # NoTx /\ s # NoStamp
  BY <1>1, NoStampUnused DEF StampOf, Used, NoTx
<1>3. m = wire => /\ m.tx = tx /\ tx = txs
                  /\ pc = "ending" => m.req = "Ended" /\ m.seq = seq - 1
  BY <1>2 DEF SendInv
<1>4. arrived' = arrived \cup {s} /\ ended \subseteq ended' /\ overtaken \subseteq overtaken'
  BY DEF HandleEvent
<1>5. EndedFirst'
  <2>1. \A t \in 1..txs' : t \in ended' \/ t = tx' BY <1>4 DEF LiveInv, EndedFirst
  <2>2. pc' = "ending" /\ answered' => tx' \in ended'
    BY <1>3, <1>4 DEF LiveInv, EndedFirst, HandleEvent
  <2>3. active' \in {NoTx} \cup 1..txs' BY <1>2 DEF HandleEvent
  <2>4. lastAt' # NoStamp => Used(lastAt)' BY DEF HandleEvent, Applied, LiveInv, EndedFirst, Used
  <2> QED BY <2>1, <2>2, <2>3, <2>4 DEF EndedFirst
<1>6. GhostInv'
  <2>1. active' = NoTx => shown' = 0 BY <1>2 DEF HandleEvent, Applied
  <2>2. ASSUME overtaken' = {}, tx = NoTx \/ (pc = "ending" /\ answered')
        PROVE  active' = NoTx /\ \A n \in late' : \E a \in arrived' : Before(StampOf(n), a)
    <3>1. overtaken = {} /\ \A a \in arrived : ~Before(s, a)
      BY <2>2, <1>4 DEF HandleEvent
    <3>2. ~(m \in late /\ UNCHANGED answered)
      BY <2>2, <3>1 DEF LiveInv, GhostInv
    <3>3. m = wire /\ s \notin Known /\ pc = "ending" /\ m.req = "Ended" /\ m.tx = txs /\ m.seq = seq - 1
      BY <2>2, <3>2, <1>2, <1>3
    <3>4. active' = NoTx BY <3>3 DEF HandleEvent
    <3>5. \A n \in late : Used(StampOf(n)) /\ StampOf(n) # s
      BY <3>3 DEF OnceInv, Known
    <3>6. \A n \in late : Before(StampOf(n), s)
      BY <3>3, <3>5, <1>1, <1>2 DEF Used, Before, StampOf
    <3> QED BY <3>4, <3>6, <1>4
  <2> QED BY <2>1, <2>2 DEF GhostInv, StampOf
<1>7. NewestInv'
  <2> SUFFICES ASSUME overtaken' \subseteq {"Updated"}, tx # NoTx, tx \notin ended',
                      NEW a \in arrived', a[1] = tx
               PROVE  lastAt' # NoStamp /\ ~Before(lastAt', a)
    BY DEF NewestInv, Before
  <2>1. overtaken \subseteq {"Updated"} /\ tx \notin ended /\ tx = txs
    BY <1>1, <1>4
  <2>2. \A b \in arrived : Before(s, b) => m.req = "Updated"
    BY DEF HandleEvent
  <2>3. \A b \in arrived : b[1] = tx => lastAt # NoStamp /\ ~Before(lastAt, b)
    BY <2>1 DEF LiveInv, NewestInv
  <2>4. Used(s) /\ Used(a) /\ (lastAt # NoStamp => Used(lastAt))
    <3>1. Used(a) BY <1>4 DEF OnceInv, Known
    <3> QED BY <3>1 DEF LiveInv, EndedFirst
  <2>5. \A b : Used(b) => b[1] \in Int /\ b[2] \in Int BY <1>1 DEF Used
  <2>6. m.tx < tx \/ m.tx = tx BY <1>1, <1>2, <2>1
  <2>7. m.req # "Ended"
    <3>1. CASE m.tx = tx BY <3>1 DEF HandleEvent
    <3>2. CASE m.tx < tx
      <4>1. a \in arrived BY <1>2, <1>4, <3>2
      <4>2. Before(s, a) BY <1>2, <3>2 DEF Before
      <4> QED BY <2>2, <4>1, <4>2
    <3> QED BY <2>6, <3>1, <3>2
  <2>8. lastAt' = IF IsStale(m) THEN lastAt ELSE s
    BY <2>7 DEF HandleEvent, Applied
  <2>9. CASE IsStale(m)
    <3>1. lastAt # NoStamp /\ Before(s, lastAt) BY <2>9 DEF IsStale
    <3>2. CASE a \in arrived BY <2>3, <2>8, <2>9, <3>1, <3>2
    <3>3. CASE a = s
      <4>1. ~Before(lastAt, s) BY <2>4, <2>5, <3>1 DEF Before
      <4> QED BY <2>8, <2>9, <3>1, <3>3, <4>1
    <3> QED BY <1>4, <3>2, <3>3
  <2>10. CASE ~IsStale(m)
    <3>1. CASE a = s BY <1>2, <2>4, <2>5, <2>8, <2>10, <3>1 DEF Before
    <3>2. CASE a \in arrived
      <4>1. lastAt # NoStamp /\ ~Before(lastAt, a) BY <2>3, <3>2
      <4>2. CASE m.req = "Started" BY <1>2, <2>2, <2>8, <2>10, <3>2, <4>2
      <4>3. CASE m.req # "Started"
        <5>1. ~Before(s, lastAt) BY <2>10, <4>1, <4>3 DEF IsStale
        <5>2. ~Before(s, a) BY <2>4, <2>5, <4>1, <5>1 DEF Before
        <5> QED BY <1>2, <2>8, <2>10, <5>2
      <4> QED BY <4>2, <4>3
    <3> QED BY <1>4, <3>1, <3>2
  <2> QED BY <2>9, <2>10
<1> QED BY <1>5, <1>6, <1>7 DEF LiveInv

LEMMA StepKeepsLiveState ==
  ASSUME ReportInv, LiveInv, ReportInv', [ReportingNext]_reportingVars
  PROVE  LiveInv'
<1> USE DEF ReportInv
<1>1. CASE Charger
  BY <1>1, StepKeepsLive DEF Charger, serverVars
<1>2. CASE Lose
  <2>1. /\ LoseConnection /\ UNCHANGED <<liveVars, logVars>> /\ tx' = tx /\ pc' = "down"
        /\ late' = late \/ wire.req \in EventTypes
    BY <1>2 DEF Lose, LoseConnection, txVars
  <2> QED BY <2>1, StepKeepsLive
<1>3. CASE ServerHandles /\ wire.req \in EventTypes
  <2>1. /\ HandleEvent(wire) /\ UNCHANGED late /\ answered' /\ ~answered
        /\ UNCHANGED <<pc, tx, txs, seq, wire>>
    BY <1>3 DEF ServerHandles, Answer, txVars
  <2>2. StampOf(wire) \notin Known BY <1>3, <2>1 DEF OnceInv
  <2>3. Used(StampOf(wire)) /\ StampOf(wire) \notin arrived
    <3>1. StampOf(wire) \in arrived' BY <2>1 DEF HandleEvent
    <3> QED BY <2>1, <2>2, <3>1 DEF OnceInv, Known, Used
  <2> QED BY <1>3, <2>1, <2>2, <2>3, HandlingKeepsLive
<1>4. CASE ServerHandlesLate
  <2>1. PICK m \in late : late' = late \ {m} /\ HandleEvent(m) /\ UNCHANGED agentVars
    BY <1>4 DEF ServerHandlesLate
  <2>2. UNCHANGED <<pc, tx, txs, seq, wire, answered>>
    BY <2>1 DEF agentVars, sessionVars, txVars
  <2>3. m.req \in EventTypes /\ Used(StampOf(m)) /\ StampOf(m) \notin arrived
    BY DEF OnceInv, Known
  <2> QED BY <2>1, <2>2, <2>3, HandlingKeepsLive
<1>5. CASE UNCHANGED reportingVars \/ (ServerHandles /\ wire.req \notin EventTypes)
  <2>1. /\ UNCHANGED <<pc, tx, txs, seq, late, active, lastAt, shown, arrived, ended, overtaken>>
        /\ UNCHANGED answered \/ wire.req \notin EventTypes
    BY <1>5 DEF ServerHandles, Answer, reportingVars, agentVars, sessionVars, txVars, serverVars,
       liveVars, logVars
  <2>2. pc' = "ending" /\ answered' => pc = "ending" /\ answered
    BY <2>1 DEF SendInv, EventTypes
  <2>3. EndedFirst' BY <2>1, <2>2 DEF LiveInv, EndedFirst, Used
  <2>4. GhostInv' BY <2>1, <2>2 DEF LiveInv, GhostInv, StampOf, Before
  <2>5. NewestInv' BY <2>1 DEF LiveInv, NewestInv, Before
  <2> QED BY <2>3, <2>4, <2>5 DEF LiveInv
<1> QED BY <1>1, <1>2, <1>3, <1>4, <1>5 DEF ReportingNext

LEMMA LiveHolds == ReportingSpec => []LiveInv
<1>1. ReportingInit => LiveInv
  BY DEF ReportingInit, AgentInit, SessionInit, TxInit, LiveInv, EndedFirst, GhostInv, NewestInv, NoTx
<1>2. ReportInv /\ ReportInv' /\ LiveInv /\ [ReportingNext]_reportingVars => LiveInv'
  BY StepKeepsLiveState
<1> QED BY <1>1, <1>2, ReportHolds, PTL DEF ReportingSpec

\* The server shows no transaction and no power of a session that is over
\* (handlers.py on_transaction_event, registry.py record_transaction).
THEOREM NoGhostSessions == ReportingSpec => []NoGhost
<1>1. LiveInv => NoGhost BY DEF LiveInv, GhostInv, NoGhost
<1> QED BY <1>1, LiveHolds, PTL

\* Live power is that of the newest reading of the open transaction
\* (registry.py record_meter).
THEOREM NewestPower == ReportingSpec => []PowerIsNewest
<1>1. ReportInv /\ LiveInv => PowerIsNewest
  <2> SUFFICES ASSUME ReportInv, LiveInv, active \in TxIds \ ended, overtaken \subseteq {"Updated"},
                      NEW a \in arrived, a[1] = active
               PROVE  ~Before(lastAt, a)
    BY DEF PowerIsNewest
  <2>1. active # NoTx BY AgentAssumption DEF AgentAssumption, TxIds, NoTx
  <2>2. active = tx BY <2>1 DEF LiveInv, EndedFirst
  <2> QED BY <2>1, <2>2 DEF LiveInv, NewestInv
<1> QED BY <1>1, LiveHolds, ReportHolds, PTL

-----------------------------------------------------------------------------
(* The losses that are logged.                                             *)

LEMMA HandlingKeepsTypes ==
  ASSUME ReportingTypeOK, NEW m \in Request, m.req \in EventTypes, m.tx \in TxIds, HandleEvent(m)
  PROVE  /\ active' \in {NoTx} \cup TxIds /\ lastSeq' \in {None} \cup SeqNos
         /\ lastAt' \in {NoStamp} \cup Stamp /\ shown' \in Limits
         /\ arrived' \subseteq Stamp /\ ended' \subseteq TxIds /\ overtaken' \subseteq EventTypes
         /\ inTransit' \in [TxIds -> Nat] /\ inQueue' \in [TxIds -> Nat]
<1>1. m.seq \in SeqNos /\ m.power \in Limits BY DEF Request
<1>2. StampOf(m) \in Stamp BY <1>1 DEF StampOf, Stamp
<1>3. 0 \in Limits BY AgentAssumption DEF AgentAssumption, Limits
<1>4. Gap(m) \in Nat
  <2>1. m.seq \in Int BY <1>1, AgentAssumption DEF AgentAssumption, SeqNos
  <2>2. lastSeq = None \/ lastSeq \in Int
    BY AgentAssumption DEF AgentAssumption, ReportingTypeOK, SeqNos
  <2> QED BY <2>1, <2>2 DEF Gap
<1>5. inTransit' \in [TxIds -> Nat] /\ inQueue' \in [TxIds -> Nat]
  <2>1. /\ inTransit \in [TxIds -> Nat] /\ inQueue \in [TxIds -> Nat]
        /\ inTransit[m.tx] + Gap(m) \in Nat /\ inQueue[m.tx] + Gap(m) \in Nat
    BY <1>4 DEF ReportingTypeOK
  <2> QED BY <2>1 DEF HandleEvent
<1>6. shown' \in Limits /\ lastAt' \in {NoStamp} \cup Stamp
  BY <1>1, <1>2, <1>3 DEF HandleEvent, Applied, ReportingTypeOK
<1>7. active' \in {NoTx} \cup TxIds /\ lastSeq' \in {None} \cup SeqNos /\ ended' \subseteq TxIds
  BY <1>1 DEF HandleEvent, ReportingTypeOK
<1>8. arrived' \subseteq Stamp /\ overtaken' \subseteq EventTypes
  BY <1>2 DEF HandleEvent, ReportingTypeOK
<1> QED BY <1>5, <1>6, <1>7, <1>8

LEMMA StepKeepsReportingTypes ==
  ASSUME ReportInv, ReportInv', ReportingTypeOK, [ReportingNext]_reportingVars
  PROVE  ReportingTypeOK'
<1> USE DEF ReportInv
<1>1. AgentTypeOK' BY DEF TypeInv
<1>2. CASE (ServerHandles /\ wire.req \in EventTypes) \/ ServerHandlesLate
  <2>1. PICK m : m \in {wire} \cup late /\ m.req \in EventTypes /\ HandleEvent(m) /\ late' \subseteq late
    BY <1>2 DEF ServerHandles, ServerHandlesLate, OnceInv
  <2>2. m \in Request BY <2>1 DEF TypeInv, AgentTypeOK, OnceInv
  <2>3. m.tx \in TxIds
    <3>1. CASE m = wire BY <2>1, <3>1 DEF SendInv, TypeInv, AgentTypeOK
    <3>2. CASE m \in late
      <4>1. Used(StampOf(m)) BY <3>2 DEF OnceInv, Known
      <4> QED BY <4>1 DEF Used, StampOf
    <3> QED BY <2>1, <3>1, <3>2
  <2> QED BY <1>1, <2>1, <2>2, <2>3, HandlingKeepsTypes DEF ReportingTypeOK
<1>3. CASE Lose
  BY <1>1, <1>3 DEF Lose, liveVars, logVars, ReportingTypeOK, TypeInv, AgentTypeOK
<1>4. CASE UNCHANGED serverVars
  BY <1>1, <1>4 DEF serverVars, liveVars, logVars, ReportingTypeOK
<1> QED BY <1>2, <1>3, <1>4 DEF ReportingNext, Charger, ServerHandles, reportingVars

\* Every variable of the server's side keeps its type too
\* (handlers.py on_transaction_event, registry.py record_sequence).
THEOREM ReportingTypes == ReportingSpec => []ReportingTypeOK
<1>1. ReportingInit => ReportingTypeOK
  <2> SUFFICES ASSUME ReportingInit PROVE ReportingTypeOK
    OBVIOUS
  <2>1. AgentTypeOK BY TypeInit DEF ReportingInit, TypeInv
  <2>2. 0 \in Limits BY AgentAssumption DEF AgentAssumption, Limits
  <2> QED BY <2>1, <2>2 DEF ReportingInit, ReportingTypeOK
<1>2. ReportInv /\ ReportInv' /\ ReportingTypeOK /\ [ReportingNext]_reportingVars => ReportingTypeOK'
  BY StepKeepsReportingTypes
<1> QED BY <1>1, <1>2, ReportHolds, PTL DEF ReportingSpec

\* A transaction starts with number 0, and readings are kept and replayed.
StartedIsZero ==
  /\ wire.req = "Started" => wire.seq = 0
  /\ \A m \in late : m.req = "Started" => m.seq = 0
  /\ \A i \in 1..Len(queue) : queue[i].req = "Updated"
  /\ \A i \in 1..Len(replaying) : replaying[i].req = "Updated"

\* Nothing overtaken: the losses logged for the open transaction are those
\* below the newest event of it, and an event that is late for an earlier
\* transaction will be seen to be.
LossInv ==
  /\ active = NoTx => lastSeq = None
  /\ \A t \in TxIds : t > txs => inTransit[t] = 0 /\ inQueue[t] = 0
  /\ overtaken = {} =>
       \A m \in late : m.tx # tx => \E a \in arrived : Before(StampOf(m), a)
  /\ overtaken = {} /\ tx # NoTx /\ tx \notin ended =>
       \/ /\ \A a \in arrived : a[1] # tx
          /\ lastSeq = None /\ inTransit[tx] + inQueue[tx] = 0
       \/ /\ <<tx, lastSeq>> \in arrived
          /\ \A a \in arrived : a[1] = tx => a[2] <= lastSeq
          /\ inTransit[tx] + inQueue[tx] = Cardinality(Missing(tx))

LEMMA MissingFinite ==
  ASSUME NEW t PROVE IsFiniteSet(Missing(t))
<1>1. IsFiniteSet(SeqNos) BY FS_Interval, AgentAssumption DEF AgentAssumption, SeqNos
<1> QED BY <1>1, FS_Subset DEF Missing

\* A newer event adds the numbers it skipped to what is missing.
LEMMA MissingGrows ==
  ASSUME NEW t, NEW n \in SeqNos, NEW last \in SeqNos, last < n, <<t, last>> \in arrived,
         \A a \in arrived : a[2] \in Int,
         \A a \in arrived : a[1] = t => a = <<t, a[2]>> /\ a[2] <= last,
         arrived' = arrived \cup {<<t, n>>}
  PROVE  Cardinality(Missing(t)') = Cardinality(Missing(t)) + (n - last - 1)
<1>1. last \in Int /\ n \in Int /\ last >= 0 /\ \A k \in SeqNos : k \in Int
      /\ \A i \in Int : i >= 0 /\ i <= n => i \in SeqNos
  BY AgentAssumption DEF AgentAssumption, SeqNos
<1>2. Missing(t)' = Missing(t) \cup ((last + 1)..(n - 1))
  <2>1. ASSUME NEW k \in Missing(t)' PROVE k \in Missing(t) \cup ((last + 1)..(n - 1))
    <3>1. k \in SeqNos /\ <<t, k>> \notin arrived' BY <2>1 DEF Missing
    <3>2. PICK a \in arrived' : a[1] = t /\ a[2] < k BY <2>1 DEF Missing
    <3>3. PICK b \in arrived' : b[1] = t /\ b[2] > k BY <2>1 DEF Missing
    <3>4. k # last BY <3>1
    <3>5. CASE k < last
      <4>1. a \in arrived BY <1>1, <3>1, <3>2, <3>5
      <4> QED BY <3>1, <3>2, <3>5, <4>1, <1>1 DEF Missing
    <3>6. CASE k > last
      <4>1. b = <<t, n>> BY <1>1, <3>1, <3>3, <3>6
      <4> QED BY <1>1, <3>1, <3>3, <3>6, <4>1
    <3> QED BY <1>1, <3>1, <3>4, <3>5, <3>6
  <2>2. ASSUME NEW k \in Missing(t) PROVE k \in Missing(t)'
    <3>1. PICK b \in arrived : b[1] = t /\ b[2] > k BY <2>2 DEF Missing
    <3>2. k \in SeqNos /\ <<t, k>> \notin arrived /\ k # n
      BY <1>1, <2>2, <3>1 DEF Missing
    <3> QED BY <2>2, <3>1, <3>2 DEF Missing
  <2>3. ASSUME NEW k \in (last + 1)..(n - 1) PROVE k \in Missing(t)'
    <3>1. k \in SeqNos /\ last < k /\ k < n BY <1>1, <2>3
    <3>2. <<t, k>> \notin arrived' BY <1>1, <3>1
    <3>3. <<t, last>> \in arrived' /\ <<t, n>> \in arrived' OBVIOUS
    <3> QED BY <3>1, <3>2, <3>3 DEF Missing
  <2> QED BY <2>1, <2>2, <2>3
<1>3. Missing(t) \cap ((last + 1)..(n - 1)) = {}
  <2>1. ASSUME NEW k \in Missing(t) PROVE k < last
    <3>1. PICK b \in arrived : b[1] = t /\ b[2] > k BY <2>1 DEF Missing
    <3> QED BY <1>1, <2>1, <3>1 DEF Missing
  <2> QED BY <1>1, <2>1
<1>4. /\ IsFiniteSet((last + 1)..(n - 1))
      /\ Cardinality((last + 1)..(n - 1)) = n - last - 1
  <2> DEFINE lo == last + 1
             hi == n - 1
  <2>1. lo \in Int /\ hi \in Int /\ lo <= hi + 1 BY <1>1
  <2> HIDE DEF lo, hi
  <2>2. IsFiniteSet(lo..hi) /\ Cardinality(lo..hi) = IF lo > hi THEN 0 ELSE hi - lo + 1
    BY <2>1, FS_Interval
  <2>3. Cardinality(lo..hi) = hi - lo + 1 BY <2>1, <2>2
  <2>4. hi - lo + 1 = n - last - 1 BY <1>1 DEF lo, hi
  <2> QED BY <2>2, <2>3, <2>4 DEF lo, hi
<1>5. IsFiniteSet(Missing(t)) BY MissingFinite
<1>6. Cardinality(Missing(t)) \in Nat BY <1>5, FS_CardinalityType
<1>7. Cardinality(Missing(t) \cup ((last + 1)..(n - 1))) = Cardinality(Missing(t)) + (n - last - 1) - 0
  <2> DEFINE old == Missing(t)
             new == (last + 1)..(n - 1)
  <2>1. IsFiniteSet(old) /\ IsFiniteSet(new) /\ old \cap new = {} BY <1>3, <1>4, <1>5
  <2> HIDE DEF old, new
  <2>2. Cardinality(old \cup new) = Cardinality(old) + Cardinality(new) - Cardinality(old \cap new)
    BY <2>1, FS_Union
  <2>3. Cardinality(old \cap new) = 0 BY <2>1, FS_EmptySet
  <2> QED BY <1>4, <2>2, <2>3 DEF old, new
<1> QED BY <1>1, <1>2, <1>6, <1>7

\* The server handles m, seen in order: it is of the open transaction.
LEMMA HandlingKeepsLosses ==
  ASSUME ReportInv, ReportInv', LiveInv, ReportingTypeOK, LossInv, StartedIsZero,
         NEW m \in Request, m.req \in EventTypes, HandleEvent(m),
         Used(StampOf(m)), StampOf(m) \notin arrived, m \in {wire} \cup late,
         UNCHANGED <<tx, txs>>, late' \subseteq late
  PROVE  LossInv'
<1> USE DEF ReportInv
<1>1. /\ txs \in Int /\ tx \in {NoTx, txs}
      /\ \A a : Used(a) => a[1] \in TxIds /\ a[1] \in Int /\ a[2] \in Int /\ a[1] <= txs /\ a[1] >= 1
  BY Numbers DEF Used
<1>2. m.tx \in TxIds /\ m.tx <= txs /\ m.seq \in SeqNos /\ StampOf(m) = <<m.tx, m.seq>> /\ m.tx # NoTx
  BY <1>1 DEF Request, StampOf, NoTx
<1>3. arrived' = arrived \cup {StampOf(m)} BY DEF HandleEvent
<1>4. active' = NoTx => lastSeq' = None BY <1>2 DEF HandleEvent
<1>5. \A t \in TxIds : t > txs' => inTransit'[t] = 0 /\ inQueue'[t] = 0
  <2> TAKE t \in TxIds
  <2> HAVE t > txs'
  <2>1. t # m.tx BY <1>1, <1>2
  <2>2. inTransit'[t] = inTransit[t] /\ inQueue'[t] = inQueue[t]
    BY <1>2, <2>1 DEF HandleEvent, ReportingTypeOK
  <2> QED BY <2>2 DEF LossInv
<1>6. ASSUME overtaken' = {}
      PROVE  overtaken = {} /\ m.tx = tx /\ \A a \in arrived : ~Before(StampOf(m), a)
  <2>1. overtaken = {} /\ \A a \in arrived : ~Before(StampOf(m), a)
    BY <1>6 DEF HandleEvent
  <2>2. CASE m = wire BY <2>1, <2>2 DEF SendInv
  <2>3. CASE m \in late BY <2>1, <2>3 DEF LossInv
  <2> QED BY <2>1, <2>2, <2>3
<1>7. overtaken' = {} =>
        \A n \in late' : n.tx # tx' => \E a \in arrived' : Before(StampOf(n), a)
  BY <1>3, <1>6 DEF LossInv
<1>8. ASSUME overtaken' = {}, tx # NoTx, tx \notin ended'
      PROVE  /\ <<tx, lastSeq'>> \in arrived'
             /\ \A a \in arrived' : a[1] = tx => a[2] <= lastSeq'
             /\ inTransit'[tx] + inQueue'[tx] = Cardinality(Missing(tx)')
  <2>1. m.tx = tx /\ overtaken = {} /\ \A a \in arrived : ~Before(StampOf(m), a)
    BY <1>6, <1>8
  <2>2. m.req # "Ended" /\ tx \notin ended /\ lastSeq' = m.seq
    BY <1>8, <2>1 DEF HandleEvent
  <2>3. inTransit'[tx] + inQueue'[tx] = inTransit[tx] + inQueue[tx] + Gap(m)
    <3>1. /\ inTransit \in [TxIds -> Nat] /\ inQueue \in [TxIds -> Nat] /\ tx \in TxIds
      BY <1>2, <2>1 DEF ReportingTypeOK
    <3>2. inTransit[tx] \in Nat /\ inQueue[tx] \in Nat BY <3>1
    <3>3. Gap(m) \in Int
      <4>1. m.seq \in Int BY <1>2, AgentAssumption DEF AgentAssumption, SeqNos
      <4>2. lastSeq = None \/ lastSeq \in Int
        BY AgentAssumption DEF AgentAssumption, ReportingTypeOK, SeqNos
      <4> QED BY <4>1, <4>2 DEF Gap
    <3>4. \/ inTransit'[tx] = inTransit[tx] + Gap(m) /\ inQueue'[tx] = inQueue[tx]
          \/ inTransit'[tx] = inTransit[tx] /\ inQueue'[tx] = inQueue[tx] + Gap(m)
      BY <2>1, <3>1 DEF HandleEvent
    <3> QED BY <3>2, <3>3, <3>4
  <2>4. m.seq \in Int /\ m.seq >= 0 BY <1>2, AgentAssumption DEF AgentAssumption, SeqNos
  <2>5. CASE \A a \in arrived : a[1] # tx
    <3>1. lastSeq = None /\ inTransit[tx] + inQueue[tx] = 0
      BY <1>8, <2>1, <2>2, <2>5 DEF LossInv
    <3>2. Gap(m) = 0 BY <3>1 DEF Gap
    <3>3. \A a \in arrived' : a[1] = tx => a = <<tx, m.seq>>
      BY <1>2, <1>3, <2>1, <2>5
    <3>4. Missing(tx)' = {}
      BY <2>4, <3>3, AgentAssumption DEF AgentAssumption, Missing, SeqNos
    <3>5. Cardinality(Missing(tx)') = 0 BY <3>4, FS_EmptySet
    <3> QED BY <1>2, <1>3, <2>1, <2>2, <2>3, <2>4, <3>1, <3>2, <3>3, <3>5
  <2>6. CASE \E a \in arrived : a[1] = tx
    <3>1. /\ <<tx, lastSeq>> \in arrived
          /\ \A a \in arrived : a[1] = tx => a[2] <= lastSeq
          /\ inTransit[tx] + inQueue[tx] = Cardinality(Missing(tx))
      BY <1>8, <2>1, <2>2, <2>6 DEF LossInv
    <3>2. lastSeq \in SeqNos /\ lastSeq \in Int /\ lastSeq >= 0 /\ lastSeq # None
      <4>1. Used(<<tx, lastSeq>>) BY <3>1 DEF OnceInv, Known
      <4>2. <<tx, lastSeq>> \in Stamp BY <3>1 DEF ReportingTypeOK
      <4>3. lastSeq \in SeqNos BY <4>2 DEF Stamp
      <4> QED BY <4>3, AgentAssumption DEF AgentAssumption, SeqNos, None
    <3>3. lastSeq < m.seq
      <4>1. ~(m.seq < lastSeq) BY <1>2, <2>1, <3>1 DEF Before
      <4>2. m.seq # lastSeq BY <1>2, <2>1, <3>1
      <4> QED BY <2>4, <3>2, <4>1, <4>2
    <3>4. m.req # "Started"
      BY <2>4, <3>2, <3>3 DEF StartedIsZero
    <3>5. Gap(m) = m.seq - lastSeq - 1
      BY <2>4, <3>2, <3>3, <3>4 DEF Gap
    <3>6. \A a \in arrived : a[2] \in Int /\ (a[1] = tx => a = <<tx, a[2]>>)
      <4>1. \A a \in arrived : a \in Stamp BY DEF ReportingTypeOK
      <4>2. \A a \in arrived : a = <<a[1], a[2]>> BY <4>1 DEF Stamp
      <4>3. \A a \in arrived : a[2] \in Int BY <1>1 DEF OnceInv, Known
      <4> QED BY <4>2, <4>3
    <3>7. Cardinality(Missing(tx)') = Cardinality(Missing(tx)) + (m.seq - lastSeq - 1)
      BY <1>2, <1>3, <2>1, <3>1, <3>2, <3>3, <3>6, MissingGrows
    <3>8. \A a \in arrived' : a[1] = tx => a[2] <= m.seq
      BY <1>2, <1>3, <2>1, <2>4, <3>1, <3>2, <3>3, <3>6
    <3> QED BY <1>2, <1>3, <2>1, <2>2, <2>3, <3>1, <3>5, <3>7, <3>8
  <2> QED BY <2>5, <2>6
<1>9. UNCHANGED <<tx, txs>> OBVIOUS
<1> QED BY <1>4, <1>5, <1>7, <1>8, <1>9 DEF LossInv, StampOf, Before, Missing

LEMMA StepKeepsZero ==
  ASSUME ReportInv, StartedIsZero, [ReportingNext]_reportingVars
  PROVE  StartedIsZero'
<1> USE DEF ReportInv
<1>1. CASE AgentStep \/ LoseConnection
  <2>0. \A m \in late' : m.req = "Started" => m.seq = 0
    BY <1>1 DEF ReportingNext, reportingVars, Charger, Lose, ServerHandles, ServerHandlesLate,
       serverVars, StartedIsZero
  <2>1. CASE Quiet BY <2>0, <2>1 DEF Quiet, StartedIsZero
  <2>2. CASE Keeps
    <3>1. OfflineReading.req = "Updated" BY DEF OfflineReading, QueuedEvent
    <3>2. queue \in Seq(Request) /\ (Full => queue # <<>>)
      BY TypeFacts DEF Full, TypeInv, AgentTypeOK
    <3> DEFINE kept == IF Full THEN Tail(queue) ELSE queue
    <3>3. kept \in Seq(Request) /\ Len(kept) \in Nat /\ \A i \in 1..Len(kept) : kept[i].req = "Updated"
      BY <3>2 DEF StartedIsZero
    <3>4. queue' = Append(kept, OfflineReading) BY <2>2 DEF Keeps
    <3> HIDE DEF kept
    <3>5. /\ Len(queue') = Len(kept) + 1
          /\ \A i \in 1..Len(kept) : queue'[i] = kept[i]
          /\ queue'[Len(kept) + 1] = OfflineReading
      BY <3>3, <3>4
    <3>6. \A i \in 1..Len(queue') : queue'[i].req = "Updated"
      <4> TAKE i \in 1..Len(queue')
      <4>1. CASE i \in 1..Len(kept) BY <3>3, <3>5, <4>1
      <4>2. CASE i = Len(kept) + 1 BY <3>1, <3>5, <4>2
      <4> QED BY <3>3, <3>5, <4>1, <4>2
    <3> QED BY <2>0, <2>2, <3>6 DEF Keeps, StartedIsZero
  <2>3. CASE Silent BY <2>0, <2>3 DEF Silent, StartedIsZero, EventTypes
  <2>4. CASE Begins \/ Reports BY <2>0, <2>4 DEF Begins, Reports, StartedIsZero
  <2>5. CASE \E kept \in {queue, replaying} : Replays(kept)
    <3>1. PICK kept \in {queue, replaying} : Replays(kept) BY <2>5
    <3>2. kept \in Seq(Request) /\ kept # <<>> BY <3>1 DEF Replays, TypeInv, AgentTypeOK
    <3>3. /\ Head(kept) = kept[1] /\ 1 \in 1..Len(kept)
          /\ \A i \in 1..Len(Tail(kept)) : Tail(kept)[i] = kept[i + 1] /\ i + 1 \in 1..Len(kept)
      BY <3>2
    <3>4. \A i \in 1..Len(kept) : kept[i].req = "Updated" BY DEF StartedIsZero
    <3> QED BY <2>0, <3>1, <3>3, <3>4 DEF Replays, StartedIsZero
  <2> QED BY <1>1, <2>1, <2>2, <2>3, <2>4, <2>5, Shape
<1>2. CASE ServerHandles \/ ServerHandlesLate \/ UNCHANGED reportingVars
  <2>1. late' \subseteq late /\ UNCHANGED <<wire, queue, replaying>>
    BY <1>2 DEF ServerHandles, Answer, ServerHandlesLate, reportingVars, agentVars, sessionVars,
       queueVars, serverVars
  <2> QED BY <2>1 DEF StartedIsZero
<1> QED BY <1>1, <1>2 DEF ReportingNext, Charger, Lose

LEMMA StepKeepsLosses ==
  ASSUME ReportInv, ReportInv', LiveInv, ReportingTypeOK, LossInv, StartedIsZero,
         [ReportingNext]_reportingVars
  PROVE  LossInv'
<1> USE DEF ReportInv
<1>1. CASE (ServerHandles /\ wire.req \in EventTypes) \/ ServerHandlesLate
  <2>1. PICK m : /\ m \in {wire} \cup late /\ m.req \in EventTypes /\ HandleEvent(m)
                 /\ late' \subseteq late /\ UNCHANGED <<tx, txs, seq>>
                 /\ StampOf(m) \notin arrived
    BY <1>1 DEF ServerHandles, Answer, ServerHandlesLate, OnceInv, Known, agentVars, txVars
  <2>2. m \in Request BY <2>1 DEF TypeInv, AgentTypeOK, OnceInv
  <2>3. Used(StampOf(m))
    <3>1. StampOf(m) \in arrived' BY <2>1 DEF HandleEvent
    <3> QED BY <2>1, <3>1 DEF OnceInv, Known, Used
  <2> QED BY <2>1, <2>2, <2>3, HandlingKeepsLosses
<1>2. CASE Charger \/ Lose
  <2>1. UNCHANGED <<active, lastSeq, inTransit, inQueue, arrived, ended, overtaken>>
    BY <1>2 DEF Charger, Lose, serverVars, liveVars, logVars
  <2>2. late' = late \/ (late' = late \cup {wire} /\ wire.tx = tx /\ tx' = tx)
    BY <1>2 DEF Charger, Lose, LoseConnection, serverVars, SendInv, txVars
  <2>3. \/ UNCHANGED <<tx, txs>>
        \/ txs' = txs + 1 /\ tx' = txs + 1 /\ tx = NoTx
        \/ UNCHANGED txs /\ tx' = NoTx /\ pc = "ending" /\ answered
    BY <1>2, Shape DEF Charger, Lose, Quiet, Keeps, Silent, Begins, Reports, Replays, SendInv
  <2>4. txs \in Int /\ \A a \in arrived : a[1] \in Int /\ a[1] <= txs
    BY Numbers DEF OnceInv, Known
  <2>5. \A t \in TxIds : t > txs' => inTransit'[t] = 0 /\ inQueue'[t] = 0
    <3>1. \A t \in TxIds : t \in Int BY AgentAssumption DEF AgentAssumption, TxIds
    <3> QED BY <2>1, <2>3, <2>4, <3>1 DEF LossInv
  <2>6. overtaken' = {} =>
          \A m \in late' : m.tx # tx' => \E a \in arrived' : Before(StampOf(m), a)
    BY <2>1, <2>2, <2>3 DEF LossInv, LiveInv, GhostInv, StampOf
  <2>7. ASSUME overtaken' = {}, tx' # NoTx, tx' \notin ended'
        PROVE  \/ /\ \A a \in arrived' : a[1] # tx'
                  /\ lastSeq' = None /\ inTransit'[tx'] + inQueue'[tx'] = 0
               \/ /\ <<tx', lastSeq'>> \in arrived'
                  /\ \A a \in arrived' : a[1] = tx' => a[2] <= lastSeq'
                  /\ inTransit'[tx'] + inQueue'[tx'] = Cardinality(Missing(tx)')
    <3>1. CASE tx' = tx
      <4>1. Missing(tx)' = Missing(tx) BY <2>1, <3>1 DEF Missing
      <4> QED BY <2>1, <2>7, <3>1, <4>1 DEF LossInv
    <3>2. CASE tx' = txs + 1 /\ txs' = txs + 1 /\ tx = NoTx
      <4>1. \A a \in arrived : a[1] # tx' BY <2>4, <3>2
      <4>2. lastSeq = None BY <2>1, <2>7, <3>2 DEF LiveInv, GhostInv, LossInv
      <4>3. tx' \in TxIds /\ tx' > txs
        BY <2>4, <2>7, <3>2 DEF TypeInv, AgentTypeOK
      <4>4. inTransit[tx'] = 0 /\ inQueue[tx'] = 0 BY <4>3 DEF LossInv
      <4> QED BY <2>1, <4>1, <4>2, <4>4
    <3> QED BY <2>3, <2>7, <3>1, <3>2
  <2> QED BY <2>1, <2>5, <2>6, <2>7 DEF LossInv
<1>3. CASE UNCHANGED reportingVars \/ (ServerHandles /\ wire.req \notin EventTypes)
  <2>1. UNCHANGED <<active, lastSeq, inTransit, inQueue, arrived, ended, overtaken, late, tx, txs>>
    BY <1>3 DEF ServerHandles, Answer, reportingVars, agentVars, txVars, serverVars, liveVars, logVars
  <2> QED BY <2>1 DEF LossInv, Missing, StampOf, Before
<1> QED BY <1>1, <1>2, <1>3 DEF ReportingNext

LEMMA LossesHold == ReportingSpec => [](LossInv /\ StartedIsZero)
<1>1. ReportingInit => LossInv /\ StartedIsZero
  BY DEF ReportingInit, AgentInit, SessionInit, TxInit, QueueInit, LossInv, StartedIsZero, Plain
<1>2. /\ ReportInv /\ ReportInv' /\ LiveInv /\ ReportingTypeOK /\ LossInv /\ StartedIsZero
      /\ [ReportingNext]_reportingVars
      => LossInv' /\ StartedIsZero'
  BY StepKeepsLosses, StepKeepsZero
<1> QED BY <1>1, <1>2, ReportHolds, LiveHolds, ReportingTypes, PTL DEF ReportingSpec

\* Unless an event overtook another, every loss of an open transaction between
\* two events the server has is logged exactly once, whichever connection or
\* replay it fell into (registry.py record_sequence, handlers.py missing_events).
THEOREM LossesAreLogged == ReportingSpec => []LossesLogged
<1>1. ReportInv /\ LiveInv /\ ReportingTypeOK /\ LossInv => LossesLogged
  <2> SUFFICES ASSUME ReportInv, LiveInv, ReportingTypeOK, LossInv, overtaken = {},
                      NEW t \in TxIds \ ended
               PROVE  inTransit[t] + inQueue[t] = Cardinality(Missing(t))
    BY DEF LossesLogged
  <2>1. t \in Int /\ t >= 1 /\ t # NoTx BY AgentAssumption DEF AgentAssumption, TxIds, NoTx
  <2>2. txs \in Int BY AgentAssumption DEF AgentAssumption, ReportInv, TypeInv, AgentTypeOK, TxIds, NoTx
  <2>3. \A a \in arrived : a[1] \in Int /\ a[1] <= txs
    BY <2>2, AgentAssumption DEF AgentAssumption, ReportInv, OnceInv, Known, Used, TxIds
  <2>4. ASSUME \A a \in arrived : a[1] # t PROVE Cardinality(Missing(t)) = 0
    <3>1. Missing(t) = {} BY <2>4 DEF Missing
    <3> QED BY <3>1, FS_EmptySet
  <2>5. CASE t > txs
    <3>1. \A a \in arrived : a[1] # t BY <2>1, <2>2, <2>3, <2>5
    <3> QED BY <2>4, <2>5, <3>1 DEF LossInv
  <2>6. CASE t <= txs
    <3>1. t = tx BY <2>1, <2>2, <2>6 DEF LiveInv, EndedFirst
    <3> QED BY <2>1, <2>4, <3>1 DEF LossInv
  <2> QED BY <2>1, <2>2, <2>5, <2>6
<1> QED BY <1>1, ReportHolds, LiveHolds, ReportingTypes, LossesHold, PTL
=============================================================================

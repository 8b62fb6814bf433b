-------------------------------- MODULE Rows --------------------------------
(***************************************************************************)
(* The rows of sessions, transactions and readings in the database against *)
(* what happened: one charger, its connections, and a server that may be   *)
(* stopped or killed.                                                      *)
(*                                                                         *)
(*   - csms/server.py on_connect (with the certificate check of            *)
(*     csms/transport.py) and csms/registry.py register, deregister;       *)
(*   - csms/handlers.py on_transaction_event, registry.record_meter and    *)
(*     record_transaction, which queue the rows;                           *)
(*   - csms/persistence.py flush: state, opened and closed sessions, begun *)
(*     and ended transactions, readings, in this order, in one database    *)
(*     transaction; load() at the start.                                   *)
(*                                                                         *)
(* The charger is reduced to the order in which it sends: Started, some    *)
(* Updated, Ended until one is acknowledged, then the next transaction.    *)
(* Lost and late events are Reporting's; here an event is handled, or lost *)
(* with its connection.                                                    *)
(***************************************************************************)
EXTENDS Metering, FiniteSets

CONSTANTS
  MaxConn,    \* bound: connections
  MaxTx,      \* bound: transactions
  MaxEvents,  \* bound: events sent
  MaxKills,   \* bound: stops and kills of the server
  MaxFails,   \* bound: flushes that fail
  Names,      \* common names a connection's certificate may carry; "own" is
              \* the station's id
  Check       \* --identity-check: "off", "warn" or "enforce"

ASSUME RowsAssumption ==
  /\ MaxConn \in Nat \ {0} /\ MaxTx \in Nat \ {0} /\ MaxEvents \in Nat
  /\ MaxKills \in Nat /\ MaxFails \in Nat
  /\ Check \in {"off", "warn", "enforce"}

Conns == 1..MaxConn
TxIds == 1..MaxTx
NoTx  == 0

\* A row of `transactions`; `row` says whether it is there.
TxRow   == [row : BOOLEAN, ended : BOOLEAN, energy : Int]
NoTxRow == [row |-> FALSE, ended |-> FALSE, energy |-> NoNumber]

\* The live state as far as it matters here (registry.StationState).
NewState == [active |-> NoTx, energy |-> NoNumber, at |-> NoTime]

VARIABLES
  opened,   \* connections accepted so far; the charger uses the newest
  session,  \* the connection that is the session, 0 without one
  stale,    \* connections the server has not seen close, but no session
  tx,       \* the charger's transaction
  ending,   \* the charger awaits the reply to an Ended
  sent,     \* events sent so far; also the time and energy of a reading
  state,    \* the live state in memory
  opens, closes,        \* _session_opens, _session_closes
  starts, ends,         \* _tx_starts, _tx_ends
  readings,             \* _meter_rows
  dirty,                \* the station is in _dirty_states
  dSessions, dTx, dReadings, dState,  \* the tables
  kills, fails,         \* bounds
  over,       \* history: connections whose handler has ended
  superseded, \* history: sessions replaced by a newer connection
  orphaned,   \* history: connections open when the server was killed
  lost,       \* history: rows dropped by a failed flush or a kill
  handled     \* history: [type, tx, at] of the events handled

chargerVars == <<opened, tx, ending, sent>>
memoryVars  == <<session, stale, state>>
bufferVars  == <<opens, closes, starts, ends, readings, dirty>>
diskVars    == <<dSessions, dTx, dReadings, dState>>
boundVars   == <<kills, fails>>
historyVars == <<over, superseded, orphaned, lost, handled>>
rowsVars == <<chargerVars, memoryVars, bufferVars, diskVars, boundVars, historyVars>>

NothingLost == [opens |-> {}, closes |-> {}, starts |-> {}, ends |-> {}, readings |-> {}]

Init ==
  /\ opened = 0 /\ session = 0 /\ stale = {}
  /\ tx = NoTx /\ ending = FALSE /\ sent = 0
  /\ state = NewState
  /\ opens = {} /\ closes = {} /\ starts = {} /\ ends = {} /\ readings = {} /\ dirty = FALSE
  /\ dSessions = [n \in Conns |-> "none"]
  /\ dTx = [t \in TxIds |-> NoTxRow]
  /\ dReadings = {}
  /\ dState = NewState
  /\ kills = 0 /\ fails = 0
  /\ over = {} /\ superseded = {} /\ orphaned = {} /\ lost = NothingLost /\ handled = {}

-----------------------------------------------------------------------------
(* Connections.                                                            *)

\* check_identity and on_connect: whether a certificate of this name may open a
\* session ("unreadable" never equals the station's id).
Admits(name) == name = "own" \/ Check # "enforce"

\* The store's buffers: a session opened, closed, a state to be written.
OpenSession(n)  == opens' = opens \cup {n}
CloseSession(n) == closes' = closes \cup {n}
SaveState       == dirty' = TRUE

\* on_connect, register: an older session is replaced, and its row is not
\* touched; a refused connection leaves no trace.
Register ==
  /\ opened < MaxConn
  /\ \E name \in Names : Admits(name)
  /\ opened' = opened + 1
  /\ session' = opened + 1
  /\ stale' = IF session = 0 THEN stale ELSE stale \cup {session}
  /\ superseded' = IF session = 0 THEN superseded ELSE superseded \cup {session}
  /\ OpenSession(opened + 1)
  /\ SaveState
  /\ UNCHANGED <<tx, ending, sent, state, closes, starts, ends, readings, diskVars, boundVars,
                 over, orphaned, lost, handled>>

\* Mutant of Deregister: whichever session the station has now is removed.
DeregisterAny(n) ==
  /\ n = session \/ n \in stale
  /\ session' = 0
  /\ stale' = stale \ {n}
  /\ CloseSession(session) /\ SaveState
  /\ over' = over \cup {n}
  /\ UNCHANGED <<chargerVars, state, opens, starts, ends, readings, diskVars, boundVars,
                 superseded, orphaned, lost, handled>>

\* on_connect's finally, deregister: the handler of connection n ends; only the
\* session's own connection closes the row.
Deregister(n) ==
  /\ n = session \/ n \in stale
  /\ session' = IF n = session THEN 0 ELSE session
  /\ stale' = stale \ {n}
  /\ IF n = session THEN CloseSession(n) /\ SaveState ELSE UNCHANGED <<closes, dirty>>
  /\ over' = over \cup {n}
  /\ UNCHANGED <<chargerVars, state, opens, starts, ends, readings, diskVars, boundVars,
                 superseded, orphaned, lost, handled>>

-----------------------------------------------------------------------------
(* Transaction events.                                                     *)

\* What the charger sends with its event number `at`: power and the energy
\* register, in whatever units it likes.
MeterOf(at) ==
  <<MeterValue(at, <<Sample("Power.Active.Import", 1, "kw", 0),
                     Sample("Energy.Active.Import.Register", at, "wh", 1)>>)>>

\* add_meter_value: every reading has a row, under the transaction active now.
AddReading(t, at) == readings' = readings \cup {[under |-> state.active, tx |-> t, at |-> at]}

\* record_meter and then record_transaction for an event of type `type` and
\* transaction t.
HandleEvent(type, t, reading) ==
  LET energy == IF reading.energy # NoNumber THEN reading.energy ELSE state.energy
      next   == IF type = "Ended" THEN NoTx ELSE t
  IN
  /\ state' = [active |-> next, energy |-> energy,
               at |-> IF type = "Ended" THEN NoTime ELSE reading.at]
  /\ AddReading(t, reading.at)
  /\ starts' = IF next # NoTx /\ next # state.active THEN starts \cup {next} ELSE starts
  /\ ends' = IF next = NoTx /\ state.active # NoTx
             THEN ends \cup {[tx |-> state.active, energy |-> energy]} ELSE ends
  /\ SaveState
  /\ handled' = handled \cup {[type |-> type, tx |-> t, at |-> reading.at]}

\* The charger sends an event on its connection; the server handles it, or it is
\* lost with that connection.
Send(type, t, wasHandled) ==
  /\ session = opened /\ session # 0
  /\ sent < MaxEvents
  /\ sent' = sent + 1
  /\ IF wasHandled
     THEN HandleEvent(type, t, ParseMeterValues(MeterOf(sent')))
     ELSE UNCHANGED <<state, readings, starts, ends, dirty, handled>>
  /\ UNCHANGED <<opened, session, stale, opens, closes, diskVars, boundVars,
                 over, superseded, orphaned, lost>>

Start ==
  /\ tx = NoTx
  /\ \E t \in TxIds : /\ \A e \in handled : e.tx < t
                      /\ tx' = t
                      /\ \E h \in BOOLEAN : Send("Started", t, h)
  /\ UNCHANGED ending

Update ==
  /\ tx # NoTx /\ ~ending
  /\ \E h \in BOOLEAN : Send("Updated", tx, h)
  /\ UNCHANGED <<tx, ending>>

\* An Ended that was not acknowledged is sent again after the reconnection.
End ==
  /\ tx # NoTx
  /\ \E h \in BOOLEAN : Send("Ended", tx, h)
  /\ \E acknowledged \in BOOLEAN :
       /\ acknowledged => handled' # handled
       /\ tx' = IF acknowledged THEN NoTx ELSE tx
       /\ ending' = ~acknowledged

-----------------------------------------------------------------------------
(* The store.                                                              *)

Pending == opens \cup closes \cup starts # {} \/ ends # {} \/ readings # {} \/ dirty

\* Mutant of EndedRows: ended transactions are written before the begun ones.
EndedRowsFirst(table) ==
  [t \in TxIds |->
     LET mine == {e \in ends : e.tx = t} IN
     IF mine # {} /\ dTx[t].row
     THEN [table[t] EXCEPT !.ended = TRUE, !.energy = (CHOOSE e \in mine : TRUE).energy]
     ELSE table[t]]

\* UPDATE transactions ... WHERE transaction_id: no row, no effect.
EndedRows(table) ==
  [t \in TxIds |->
     LET mine == {e \in ends : e.tx = t} IN
     IF mine # {} /\ table[t].row
     THEN [table[t] EXCEPT !.ended = TRUE, !.energy = (CHOOSE e \in mine : TRUE).energy]
     ELSE table[t]]

\* INSERT OR IGNORE INTO transactions.
StartedRows(table) == [t \in TxIds |-> [table[t] EXCEPT !.row = @ \/ t \in starts]]

\* INSERT INTO sessions, then UPDATE.
SessionRows ==
  [n \in Conns |-> CASE n \in closes /\ (n \in opens \/ dSessions[n] # "none") -> "closed"
                     [] n \in opens \ closes -> "open"
                     [] OTHER -> dSessions[n]]

Written ==
  /\ dSessions' = SessionRows
  /\ dTx' = EndedRows(StartedRows(dTx))
  /\ dReadings' = dReadings \cup readings
  /\ dState' = IF dirty THEN state ELSE dState

BuffersCleared ==
  /\ opens' = {} /\ closes' = {} /\ starts' = {} /\ ends' = {} /\ readings' = {}
  /\ dirty' = FALSE

Dropped ==
  lost' = [opens |-> lost.opens \cup opens, closes |-> lost.closes \cup closes,
           starts |-> lost.starts \cup starts,
           ends |-> lost.ends \cup {e.tx : e \in ends},
           readings |-> lost.readings \cup readings]

\* flush(), every db_flush_interval_s.
Flush ==
  /\ Pending
  /\ Written /\ BuffersCleared
  /\ UNCHANGED <<chargerVars, memoryVars, boundVars, historyVars>>

\* flush() fails: rolled back, the buffers are cleared all the same.
FlushFails ==
  /\ Pending /\ fails < MaxFails
  /\ BuffersCleared /\ Dropped
  /\ fails' = fails + 1
  /\ UNCHANGED <<chargerVars, memoryVars, diskVars, kills, over, superseded, orphaned, handled>>

\* The process dies and is started again, load() reads the state.
Kill ==
  /\ kills < MaxKills
  /\ kills' = kills + 1
  /\ session' = 0 /\ stale' = {}
  /\ state' = dState
  /\ BuffersCleared /\ Dropped
  /\ orphaned' = orphaned \cup ({session} \ {0})
  /\ UNCHANGED <<chargerVars, diskVars, fails, over, superseded, handled>>

\* SIGTERM: serve()'s exit closes every connection, close() flushes.  (The
\* connections are closed by Deregister steps.)
Stop ==
  /\ kills < MaxKills
  /\ session = 0 /\ stale = {}
  /\ kills' = kills + 1
  /\ Written /\ BuffersCleared
  /\ state' = dState'
  /\ UNCHANGED <<chargerVars, session, stale, fails, historyVars>>

Next ==
  \/ Register \/ \E n \in Conns : Deregister(n)
  \/ Start \/ Update \/ End
  \/ Flush \/ FlushFails \/ Kill \/ Stop

Spec == Init /\ [][Next]_rowsVars

-----------------------------------------------------------------------------
(* Properties.                                                             *)

\* Nothing of connection n or transaction t waits for a flush.
SessionSettled(n) == n \notin opens \cup closes
TxSettled(t) == t \notin starts /\ \A e \in ends : e.tx # t

\* The sessions table tells who is connected, whatever flush, reconnection or
\* stop came between: a row is closed only when the handler of its own
\* connection ended, and stays open after that only when a newer connection
\* replaced the session, the server was killed, or a flush lost the closing
\* (registry.register, deregister).
SessionRowsTrue ==
  \A n \in Conns :
    /\ dSessions[n] = "closed" => n \in over
    /\ dSessions[n] = "open" /\ SessionSettled(n) /\ n # session =>
         n \in superseded \cup orphaned \cup lost.closes
    /\ n = session /\ SessionSettled(n) /\ n \notin lost.opens => dSessions[n] = "open"

\* The transactions table tells which transactions are over, unless a failed
\* flush or a kill dropped a write of the transaction: an ended row was ended by
\* its own Ended and holds the energy of the newest reading handled, and an
\* Ended that was handled after another event of its transaction ends the row.
\* (Once the write of an end is dropped, the Ended of the next transaction can
\* close the row, with that transaction's energy: registry.record_transaction.)
TransactionRowsTrue ==
  \A t \in TxIds \ (lost.starts \cup lost.ends) :
    LET mine == {e \in handled : e.tx = t} IN
    /\ dTx[t].ended =>
         \E e \in mine : /\ e.type = "Ended"
                         /\ dTx[t].energy = 10 * e.at
                         /\ \A o \in mine : o.type # "Ended" => o.at <= e.at
    /\ /\ \E e \in mine : e.type = "Ended"
       /\ \E e \in mine : e.type # "Ended"
       /\ TxSettled(t)
       => dTx[t].row /\ dTx[t].ended
=============================================================================

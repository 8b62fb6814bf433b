---------------------------- MODULE Rows_proofs -----------------------------
(***************************************************************************)
(* The theorems about Rows, for any number of connections, transactions,   *)
(* kills and failed flushes:                                               *)
(*                                                                         *)
(*   1. the rows of sessions;                                              *)
(*   2. what is read from meter values, however many there are (Metering); *)
(*   3. the rows of transactions.                                          *)
(***************************************************************************)
EXTENDS Rows, NaturalsInduction, WellFoundedInduction, TLAPS

-----------------------------------------------------------------------------
(* The inductive invariant.                                                *)

Opened == 1..opened

\* Connections are numbered as they come; only a handler that has ended asks
\* for its row to be closed, and the session's handler has not.
ConnectionsInv ==
  /\ opened \in 0..MaxConn
  /\ session \in {0} \cup Opened /\ stale \subseteq Opened /\ over \subseteq Opened
  /\ session \notin stale /\ session \notin over
  /\ opens \subseteq Opened /\ closes \subseteq over

\* Every row is as it should be, or what will put it right is in the buffers,
\* or the history says why nothing will.
RowsInv ==
  /\ dSessions \in [Conns -> {"none", "open", "closed"}]
  /\ \A n \in Conns : dSessions[n] # "none" => n \in Opened
  /\ \A n \in Conns : dSessions[n] = "closed" => n \in over
  /\ \A n \in Opened : n # session =>
       \/ n \in closes \cup superseded \cup orphaned \cup lost.closes
       \/ dSessions[n] # "open" /\ n \notin opens
  /\ \A n \in Opened : n = session => n \in opens \cup lost.opens \/ dSessions[n] = "open"

SessionInv == ConnectionsInv /\ RowsInv

-----------------------------------------------------------------------------
LEMMA OpenedConns == ASSUME ConnectionsInv PROVE Opened \subseteq Conns
BY RowsAssumption DEF RowsAssumption, ConnectionsInv, Opened, Conns

\* Writing the buffers keeps what the rows say.
LEMMA WritingKeeps ==
  ASSUME SessionInv, Written, BuffersCleared,
         UNCHANGED <<opened, session, stale, over, superseded, orphaned, lost>>
  PROVE  SessionInv'
<1>1. Opened \subseteq Conns BY OpenedConns DEF SessionInv
<1>2. dSessions' = SessionRows BY DEF Written
<1>3. opens' = {} /\ closes' = {} BY DEF BuffersCleared
<1>4. \A n \in Conns :
        dSessions'[n] = CASE n \in closes /\ (n \in opens \/ dSessions[n] # "none") -> "closed"
                          [] n \in opens \ closes -> "open"
                          [] OTHER -> dSessions[n]
  BY <1>2 DEF SessionRows
<1>5. dSessions' \in [Conns -> {"none", "open", "closed"}]
  BY <1>2 DEF SessionRows, SessionInv, RowsInv
<1>6. \A n \in Conns : dSessions'[n] # "none" => n \in Opened'
  BY <1>4 DEF SessionInv, RowsInv, ConnectionsInv, Opened
<1>7. \A n \in Conns : dSessions'[n] = "closed" => n \in over'
  BY <1>4 DEF SessionInv, RowsInv, ConnectionsInv
<1>8. ASSUME NEW n \in Opened', n # session'
      PROVE  \/ n \in closes' \cup superseded' \cup orphaned' \cup (lost').closes
             \/ dSessions'[n] # "open" /\ n \notin opens'
  BY <1>1, <1>3, <1>4, <1>8 DEF SessionInv, RowsInv, Opened
<1>9. ASSUME NEW n \in Opened', n = session'
      PROVE  n \in opens' \cup (lost').opens \/ dSessions'[n] = "open"
  BY <1>1, <1>4, <1>9 DEF SessionInv, RowsInv, ConnectionsInv, Opened
<1>10. ConnectionsInv' BY <1>3 DEF SessionInv, ConnectionsInv, Opened
<1> QED BY <1>5, <1>6, <1>7, <1>8, <1>9, <1>10 DEF SessionInv, RowsInv

\* Dropping the buffers is remembered; the session may be gone with them.
LEMMA DroppingKeeps ==
  ASSUME SessionInv, BuffersCleared, Dropped,
         UNCHANGED <<opened, over, superseded, dSessions>>,
         \/ UNCHANGED <<session, stale, orphaned>>
         \/ session' = 0 /\ stale' = {} /\ orphaned' = orphaned \cup ({session} \ {0})
  PROVE  SessionInv'
<1>1. opens' = {} /\ closes' = {} BY DEF BuffersCleared
<1>2. (lost').opens = lost.opens \cup opens /\ (lost').closes = lost.closes \cup closes
  BY DEF Dropped
<1>3. ConnectionsInv'
  <2>1. 0 \notin Opened /\ Opened' = Opened
    BY RowsAssumption DEF RowsAssumption, SessionInv, ConnectionsInv, Opened
  <2>2. CASE UNCHANGED <<session, stale>> BY <1>1, <2>1, <2>2 DEF SessionInv, ConnectionsInv
  <2>3. CASE session' = 0 /\ stale' = {} BY <1>1, <2>1, <2>3 DEF SessionInv, ConnectionsInv
  <2> QED BY <2>2, <2>3
<1>4. ASSUME NEW n \in Opened', n # session'
      PROVE  \/ n \in closes' \cup superseded' \cup orphaned' \cup (lost').closes
             \/ dSessions'[n] # "open" /\ n \notin opens'
  <2>1. n \in Opened /\ n # 0
    BY RowsAssumption DEF RowsAssumption, SessionInv, ConnectionsInv, Opened
  <2> QED BY <1>1, <1>2, <1>4, <2>1 DEF SessionInv, RowsInv
<1>5. ASSUME NEW n \in Opened', n = session'
      PROVE  n \in opens' \cup (lost').opens \/ dSessions'[n] = "open"
  <2>1. n \in Opened /\ n # 0
    BY RowsAssumption DEF RowsAssumption, SessionInv, ConnectionsInv, Opened
  <2> QED BY <1>1, <1>2, <1>5, <2>1 DEF SessionInv, RowsInv
<1> QED BY <1>3, <1>4, <1>5 DEF SessionInv, RowsInv, Opened

\* A newer connection takes over; the row of the old one is left as it is.
LEMMA RegisterKeeps == ASSUME SessionInv, Register PROVE SessionInv'
<1>1. /\ opened' = opened + 1 /\ session' = opened + 1 /\ opens' = opens \cup {opened + 1}
      /\ UNCHANGED <<closes, dSessions, over, orphaned, lost>>
  BY DEF Register, OpenSession, diskVars
<1>2. opened \in Int /\ opened >= 0 /\ opened < MaxConn /\ MaxConn \in Int
  BY RowsAssumption DEF RowsAssumption, SessionInv, ConnectionsInv, Register
<1>3. Opened' = Opened \cup {opened + 1} /\ opened + 1 \notin Opened
  BY <1>1, <1>2 DEF Opened
<1>4. stale' \subseteq Opened /\ (session # 0 => session \in superseded') /\ superseded \subseteq superseded'
  BY DEF Register, SessionInv, ConnectionsInv
<1>5. ConnectionsInv'
  BY <1>1, <1>2, <1>3, <1>4 DEF SessionInv, ConnectionsInv
<1>6. ASSUME NEW n \in Opened', n # session'
      PROVE  \/ n \in closes' \cup superseded' \cup orphaned' \cup (lost').closes
             \/ dSessions'[n] # "open" /\ n \notin opens'
  <2>1. n \in Opened /\ n # opened + 1 BY <1>1, <1>3, <1>6
  <2>2. CASE n = session
    <3>1. session # 0 BY <2>1, <2>2, <1>2 DEF Opened
    <3> QED BY <1>4, <2>2, <3>1
  <2>3. CASE n # session BY <1>1, <1>4, <2>1, <2>3 DEF SessionInv, RowsInv
  <2> QED BY <2>2, <2>3
<1> QED BY <1>1, <1>3, <1>5, <1>6 DEF SessionInv, RowsInv

\* The handler of a connection ends: the session's asks for its row to be
\* closed, any other asks for nothing.
LEMMA DeregisterKeeps == ASSUME SessionInv, NEW n \in Conns, Deregister(n) PROVE SessionInv'
<1>1. /\ over' = over \cup {n} /\ stale' = stale \ {n}
      /\ UNCHANGED <<opened, opens, dSessions, superseded, orphaned, lost>>
      /\ session' = IF n = session THEN 0 ELSE session
      /\ closes' = IF n = session THEN closes \cup {n} ELSE closes
  BY DEF Deregister, CloseSession, chargerVars, diskVars
<1>2. n \in Opened /\ 0 \notin Opened
  BY RowsAssumption DEF RowsAssumption, SessionInv, ConnectionsInv, Opened, Conns, Deregister
<1>3. ConnectionsInv'
  BY <1>1, <1>2 DEF Deregister, SessionInv, ConnectionsInv, Opened
<1> QED BY <1>1, <1>2, <1>3 DEF Deregister, SessionInv, RowsInv, Opened

LEMMA StepKeepsRows == ASSUME SessionInv, [Next]_rowsVars PROVE SessionInv'
<1>1. CASE Register BY <1>1, RegisterKeeps
<1>2. CASE \E n \in Conns : Deregister(n) BY <1>2, DeregisterKeeps
<1>3. CASE Flush
  BY <1>3, WritingKeeps DEF Flush, chargerVars, memoryVars, historyVars
<1>4. CASE Stop
  BY <1>4, WritingKeeps DEF Stop, chargerVars, historyVars
<1>5. CASE FlushFails \/ Kill
  BY <1>5, DroppingKeeps DEF FlushFails, Kill, chargerVars, memoryVars, diskVars
<1>6. CASE Start \/ Update \/ End \/ UNCHANGED rowsVars
  <2>1. UNCHANGED <<opened, session, stale, opens, closes, dSessions, over, superseded, orphaned, lost>>
    BY <1>6 DEF Start, Update, End, Send, rowsVars, chargerVars, memoryVars, bufferVars, diskVars,
       historyVars
  <2> QED BY <2>1 DEF SessionInv, ConnectionsInv, RowsInv, Opened
<1> QED BY <1>1, <1>2, <1>3, <1>4, <1>5, <1>6 DEF Next

\* The table of sessions tells who is connected, for any interleaving of
\* reconnections, late closes, flushes, failed flushes, kills and stops
\* (registry.py register, deregister, persistence.py flush).
THEOREM SessionRowsAreTrue == Spec => []SessionRowsTrue
<1>1. Init => SessionInv
  BY RowsAssumption
     DEF RowsAssumption, Init, SessionInv, ConnectionsInv, RowsInv, Opened
<1>2. SessionInv => SessionRowsTrue
  <2> SUFFICES ASSUME SessionInv, NEW n \in Conns
               PROVE  /\ dSessions[n] = "closed" => n \in over
                      /\ dSessions[n] = "open" /\ SessionSettled(n) /\ n # session =>
                           n \in superseded \cup orphaned \cup lost.closes
                      /\ n = session /\ SessionSettled(n) /\ n \notin lost.opens => dSessions[n] = "open"
    BY DEF SessionRowsTrue
  <2>1. n = session => n \in Opened
    BY RowsAssumption DEF RowsAssumption, SessionInv, ConnectionsInv, Conns
  <2> QED BY <2>1 DEF SessionInv, RowsInv, SessionSettled
<1> QED BY <1>1, <1>2, StepKeepsRows, PTL DEF Spec

-----------------------------------------------------------------------------
(* Transactions: the inductive invariant.                                  *)

Kept(t)        == t \notin lost.starts \cup lost.ends
EndHandled(t)  == \E e \in handled : e.tx = t /\ e.type = "Ended"
OpenHandled(t) == \E e \in handled : e.tx = t /\ e.type # "Ended"
EndedAt(t, energy) == \E e \in handled : e.tx = t /\ e.type = "Ended" /\ energy = 10 * e.at
Waiting(t)     == \E r \in ends : r.tx = t

\* The charger ends a transaction, and has that acknowledged, before it begins
\* the next, and sends nothing else of it after the first Ended.
ChargerOrder ==
  /\ tx \in TxIds \cup {NoTx} /\ sent \in Nat
  /\ \A e \in handled : e.tx \in TxIds /\ e.at \in 1..sent
  /\ \A e \in handled, o \in handled :
       e.tx = o.tx /\ e.type = "Ended" /\ o.type # "Ended" => o.at <= e.at
  /\ tx # NoTx /\ ~ending => ~EndHandled(tx)
  /\ \A e \in handled : e.tx # tx => EndHandled(e.tx)

\* The live state shows a transaction of which nothing was dropped from its first
\* event handled to its end, and the row of the state lags behind it only by what
\* the buffers hold.
LiveTx ==
  /\ state.active # NoTx => OpenHandled(state.active)
  /\ dState.active # NoTx => OpenHandled(dState.active)
  /\ \A t \in TxIds : Kept(t) =>
       /\ state.active = t => ~EndHandled(t)
       /\ OpenHandled(t) /\ ~EndHandled(t) => state.active = t
       /\ dState.active = t /\ ~Waiting(t) => state.active = t
       /\ state.active = t /\ t \notin starts => dState.active = t
       /\ ~dirty => (state.active = t <=> dState.active = t)

\* So what waits, and what is in the table, is of the transaction it names.
TableInv ==
  /\ starts \subseteq TxIds
  /\ ends \subseteq [tx : TxIds, energy : Int]
  /\ dTx \in [TxIds -> TxRow]
  /\ \A t \in TxIds : Kept(t) =>
       /\ OpenHandled(t) => t \in starts \/ dTx[t].row
       /\ \A r \in ends : r.tx = t => EndedAt(t, r.energy)
       /\ dTx[t].ended => EndedAt(t, dTx[t].energy)
       /\ EndHandled(t) /\ OpenHandled(t) => Waiting(t) \/ dTx[t].ended

TxInv == ChargerOrder /\ LiveTx /\ TableInv

LEMMA NoTxIsNone == NoTx \notin TxIds /\ TxIds \subseteq Nat
BY RowsAssumption DEF NoTx, TxIds, RowsAssumption

-----------------------------------------------------------------------------
(* What the server reads from a charger's meter values (metering.py).      *)

\* A non-empty set of numbers has a least one.
LEMMA Least ==
  ASSUME NEW T \in SUBSET Nat, T # {}
  PROVE  \E k \in T : \A j \in T : k <= j
<1>1. \E x \in T : \A y \in T : ~ (<<y, x>> \in OpToRel(<, Nat))
  BY WFMin, NatLessThanWellFounded, Zenon
<1>2. PICK x \in T : \A y \in T : ~ (<<y, x>> \in OpToRel(<, Nat))
  BY <1>1
<1>3. ASSUME NEW y \in T PROVE x <= y
  <2>1. ~(y < x)
    BY <1>2 DEF OpToRel
  <2> QED BY <2>1
<1> QED BY <1>3

\* A set with 0 in which every number up to n follows the one before.
LEMMA UpTo ==
  ASSUME NEW n \in Nat, NEW T, 0 \in T, \A k \in 1..n : k - 1 \in T => k \in T
  PROVE  0..n \subseteq T
<1> DEFINE Rest == (0..n) \ T
<1> SUFFICES ASSUME Rest # {} PROVE FALSE
  OBVIOUS
<1>1. Rest \in SUBSET Nat
  OBVIOUS
<1>2. PICK k \in Rest : \A j \in Rest : k <= j
  <2> HIDE DEF Rest
  <2> QED BY <1>1, Least
<1>3. k \in 1..n /\ k - 1 \in 0..n /\ ~(k <= k - 1)
  BY <1>2
<1>4. k - 1 \notin Rest
  BY <1>2, <1>3
<1> QED BY <1>2, <1>3, <1>4

\* A function that goes on from `base` by one step at a time exists.
Walk(V, base, n, step) ==
  \E f \in [0..n -> V] : f[0] = base /\ \A k \in 1..n : f[k] = step[k][f[k - 1]]

LEMMA Steps ==
  ASSUME NEW V, NEW base \in V, NEW n \in Nat, NEW step \in [1..n -> [V -> V]]
  PROVE  Walk(V, base, n, step)
<1> DEFINE Has(k) == \E f \in [0..k -> V] :
                       f[0] = base /\ \A j \in 1..k : f[j] = step[j][f[j - 1]]
           T == {k \in Nat : Has(k)}
<1>1. 0 \in T
  <2> DEFINE f == [j \in 0..0 |-> base]
  <2>1. f \in [0..0 -> V] /\ f[0] = base /\ 1..0 = {}
    OBVIOUS
  <2> HIDE DEF f
  <2>2. Has(0)
    BY <2>1
  <2> QED BY <2>2
<1>2. ASSUME NEW k \in 1..n, k - 1 \in T PROVE k \in T
  <2>1. PICK g \in [0..(k - 1) -> V] :
          g[0] = base /\ \A j \in 1..(k - 1) : g[j] = step[j][g[j - 1]]
    BY <1>2
  <2>2. step[k][g[k - 1]] \in V
    <3>1. step[k] \in [V -> V] /\ g[k - 1] \in V
      OBVIOUS
    <3> QED BY <3>1
  <2> DEFINE f == [j \in 0..k |-> IF j = k THEN step[k][g[k - 1]] ELSE g[j]]
  <2>3. f \in [0..k -> V]
    BY <2>2
  <2>4. (\A j \in 0..(k - 1) : f[j] = g[j]) /\ f[k] = step[k][g[k - 1]]
    OBVIOUS
  <2> HIDE DEF f
  <2>5. f[0] = base
    BY <2>1, <2>4
  <2>6. ASSUME NEW j \in 1..k PROVE f[j] = step[j][f[j - 1]]
    <3>1. CASE j = k
      BY <2>4, <3>1
    <3>2. CASE j \in 1..(k - 1)
      BY <2>1, <2>4, <3>2
    <3> QED BY <3>1, <3>2
  <2>7. Has(k)
    BY <2>3, <2>5, <2>6
  <2> HIDE DEF Has
  <2> QED BY <2>7
<1>3. Has(n)
  <2> HIDE DEF Has
  <2>1. 0..n \subseteq T
    <3> HIDE DEF T
    <3> QED BY <1>1, <1>2, UpTo
  <2> QED BY <2>1
<1> QED BY <1>3 DEF Walk

\* Readings with numbers of P and times of T, and samples that add such numbers.
Readings(P, T) == [power : P, energy : P, at : T]
Fit(P, samples) == \A j \in 1..Len(samples) : Counts(samples[j]) => Scaled(samples[j]) \in P

\* What AddSamples is after each sample.
LEMMA SamplesTaken ==
  ASSUME NEW P, NEW T, NEW r \in Readings(P, T), NEW samples, Len(samples) \in Nat,
         Fit(P, samples)
  PROVE  \E f \in [0..Len(samples) -> Readings(P, T)] :
           /\ f[0] = r
           /\ \A k \in 1..Len(samples) : f[k] = AddSample(f[k - 1], samples[k])
           /\ AddSamples(r, samples) = f[Len(samples)]
<1> DEFINE n == Len(samples)
           V == Readings(P, T)
           step == [k \in 1..n |-> [v \in V |-> AddSample(v, samples[k])]]
           after(g) == [k \in 0..n |-> IF k = 0 THEN r ELSE AddSample(g[k - 1], samples[k])]
           G == CHOOSE g : g = after(g)
<1>1. ASSUME NEW k \in 1..n, NEW v \in V PROVE AddSample(v, samples[k]) \in V
  BY DEF Fit, AddSample, Readings
<1> HIDE DEF n, V
<1>2. n \in Nat /\ r \in V
  BY DEF n, V
<1>3. step \in [1..n -> [V -> V]]
  BY <1>1
<1>4. PICK f \in [0..n -> V] : f[0] = r /\ \A k \in 1..n : f[k] = step[k][f[k - 1]]
  <2> HIDE DEF step
  <2>1. Walk(V, r, n, step)
    BY <1>2, <1>3, Steps
  <2> QED BY <2>1 DEF Walk
<1>5. ASSUME NEW k \in 1..n PROVE f[k] = AddSample(f[k - 1], samples[k])
  <2>1. k - 1 \in 0..n /\ f[k - 1] \in V
    BY <1>2, <1>4
  <2>2. \A v \in V : step[k][v] = AddSample(v, samples[k])
    OBVIOUS
  <2>3. f[k] = step[k][f[k - 1]]
    BY <1>4
  <2> HIDE DEF step
  <2> QED BY <2>1, <2>2, <2>3
<1>6. f = after(f)
  <2>1. \A k \in 0..n : f[k] = after(f)[k]
    BY <1>2, <1>4, <1>5
  <2> QED BY <2>1
<1>7. G = after(G)
  <2> HIDE DEF after
  <2> QED BY <1>6
<1> HIDE DEF G
<1>8. G[0] = r /\ \A k \in 1..n : G[k] = AddSample(G[k - 1], samples[k])
  BY <1>2, <1>7
<1>9. G \in [0..n -> V]
  <2> DEFINE In == {k \in 0..n : G[k] \in V}
  <2>1. 0 \in In
    BY <1>2, <1>8
  <2>2. ASSUME NEW k \in 1..n, k - 1 \in In PROVE k \in In
    BY <1>1, <1>2, <1>8, <2>2
  <2>3. 0..n \subseteq In
    <3> HIDE DEF In
    <3> QED BY <1>2, <2>1, <2>2, UpTo
  <2>4. \A k \in 0..n : G[k] \in V
    BY <2>3
  <2> QED BY <1>7, <2>4
<1>10. AddSamples(r, samples) = G[n]
  BY DEF AddSamples, G, n
<1> QED BY <1>8, <1>9, <1>10 DEF n, V

\* The time of a meter value, if it has one and it is not older.
TimedBy(r, meterValue) ==
  IF meterValue.at # NoTime /\ meterValue.at >= r.at
  THEN [r EXCEPT !.at = meterValue.at] ELSE r

MeterValuesFit(P, T, meterValues) ==
  \A k \in 1..Len(meterValues) :
    /\ meterValues[k].at \in T
    /\ Len(meterValues[k].samples) \in Nat /\ Fit(P, meterValues[k].samples)

LEMMA TimedByIs ==
  ASSUME NEW P, NEW T, NEW r \in Readings(P, T), NEW m, m.at \in T
  PROVE  /\ AddMeterValue(r, m) = AddSamples(TimedBy(r, m), m.samples)
         /\ TimedBy(r, m) \in Readings(P, T)
         /\ TimedBy(r, m).power = r.power /\ TimedBy(r, m).energy = r.energy
         /\ TimedBy(r, m).at = IF m.at # NoTime /\ m.at >= r.at THEN m.at ELSE r.at
<1>1. AddMeterValue(r, m) = AddSamples(TimedBy(r, m), m.samples)
  BY DEF AddMeterValue, TimedBy
<1> QED BY <1>1 DEF TimedBy, Readings

\* What ParseMeterValues is after each meter value.
Taken(P, T, meterValues) ==
  \E f \in [0..Len(meterValues) -> Readings(P, T)] :
    /\ f[0] = Nothing
    /\ \A k \in 1..Len(meterValues) : f[k] = AddMeterValue(f[k - 1], meterValues[k])
    /\ ParseMeterValues(meterValues) = f[Len(meterValues)]

LEMMA MeterValuesTaken ==
  ASSUME NEW P, NEW T, NoNumber \in P, NoTime \in T, NEW meterValues,
         Len(meterValues) \in Nat, MeterValuesFit(P, T, meterValues)
  PROVE  Taken(P, T, meterValues)
<1> DEFINE n == Len(meterValues)
           V == Readings(P, T)
           step == [k \in 1..n |-> [v \in V |-> AddMeterValue(v, meterValues[k])]]
           after(g) ==
             [k \in 0..n |-> IF k = 0 THEN Nothing ELSE AddMeterValue(g[k - 1], meterValues[k])]
           G == CHOOSE g : g = after(g)
<1>1. ASSUME NEW k \in 1..n, NEW v \in V PROVE AddMeterValue(v, meterValues[k]) \in V
  <2> DEFINE m == meterValues[k]
             N == Len(m.samples)
             t == TimedBy(v, m)
  <2>1. m.at \in T /\ N \in Nat /\ Fit(P, m.samples)
    BY DEF MeterValuesFit
  <2>2. AddMeterValue(v, m) = AddSamples(t, m.samples) /\ t \in Readings(P, T)
    <3> HIDE DEF m, t
    <3> QED BY <2>1, TimedByIs DEF t
  <2> HIDE DEF t, m
  <2>3. PICK f \in [0..N -> Readings(P, T)] : AddSamples(t, m.samples) = f[N]
    BY <2>1, <2>2, SamplesTaken
  <2>4. f[N] \in Readings(P, T)
    <3>1. N \in 0..N
      BY <2>1
    <3> QED BY <3>1
  <2> QED BY <2>2, <2>3, <2>4 DEF m
<1>2. n \in Nat /\ Nothing \in V
  BY DEF Nothing, Readings
<1> HIDE DEF n, V
<1>3. step \in [1..n -> [V -> V]]
  BY <1>1
<1>4. PICK f \in [0..n -> V] : f[0] = Nothing /\ \A k \in 1..n : f[k] = step[k][f[k - 1]]
  <2> HIDE DEF step
  <2>1. Walk(V, Nothing, n, step)
    BY <1>2, <1>3, Steps
  <2> QED BY <2>1 DEF Walk
<1>5. ASSUME NEW k \in 1..n PROVE f[k] = AddMeterValue(f[k - 1], meterValues[k])
  <2>1. k - 1 \in 0..n /\ f[k - 1] \in V
    BY <1>2, <1>4
  <2>2. \A v \in V : step[k][v] = AddMeterValue(v, meterValues[k])
    OBVIOUS
  <2>3. f[k] = step[k][f[k - 1]]
    BY <1>4
  <2> HIDE DEF step
  <2> QED BY <2>1, <2>2, <2>3
<1>6. f = after(f)
  <2>1. \A k \in 0..n : f[k] = after(f)[k]
    BY <1>2, <1>4, <1>5
  <2> QED BY <2>1
<1>7. G = after(G)
  <2> HIDE DEF after
  <2> QED BY <1>6
<1> HIDE DEF G
<1>8. G[0] = Nothing /\ \A k \in 1..n : G[k] = AddMeterValue(G[k - 1], meterValues[k])
  BY <1>2, <1>7
<1>9. G \in [0..n -> V]
  <2> DEFINE In == {k \in 0..n : G[k] \in V}
  <2>1. 0 \in In
    BY <1>2, <1>8
  <2>2. ASSUME NEW k \in 1..n, k - 1 \in In PROVE k \in In
    BY <1>1, <1>2, <1>8, <2>2
  <2>3. 0..n \subseteq In
    <3> HIDE DEF In
    <3> QED BY <1>2, <2>1, <2>2, UpTo
  <2>4. \A k \in 0..n : G[k] \in V
    BY <2>3
  <2> QED BY <1>7, <2>4
<1>10. ParseMeterValues(meterValues) = G[n]
  BY DEF ParseMeterValues, G, n
<1> QED BY <1>8, <1>9, <1>10 DEF n, V, Taken

\* A sample that is read as one of `measurands`.
Reads(sample, measurands) == Counts(sample) /\ sample.measurand \in measurands
Power == {"Power.Active.Import"}
Energy == {"Energy.Active.Import.Register", "absent"}

\* `new` is what the last of the first n samples says, or `old` if none does.
LastOf(samples, n, measurands, old, new) ==
  \/ new = old /\ \A j \in 1..n : ~Reads(samples[j], measurands)
  \/ \E j \in 1..n : /\ Reads(samples[j], measurands) /\ new = Scaled(samples[j])
                     /\ \A l \in 1..n : Reads(samples[l], measurands) => l <= j

\* The same for the first n meter values.
LastOfAll(meterValues, n, measurands, new) ==
  \/ /\ new = NoNumber
     /\ \A i \in 1..n : \A j \in 1..Len(meterValues[i].samples) :
          ~Reads(meterValues[i].samples[j], measurands)
  \/ \E i \in 1..n : \E j \in 1..Len(meterValues[i].samples) :
       /\ Reads(meterValues[i].samples[j], measurands)
       /\ new = Scaled(meterValues[i].samples[j])
       /\ \A k \in 1..n : \A l \in 1..Len(meterValues[k].samples) :
            Reads(meterValues[k].samples[l], measurands) => k < i \/ (k = i /\ l <= j)

\* The latest time of the first n meter values, or none.
LatestTime(meterValues, n, at) ==
  /\ at = NoTime \/ \E i \in 1..n : at = meterValues[i].at
  /\ \A i \in 1..n : meterValues[i].at <= at

LEMMA OneSample ==
  ASSUME NEW P, NEW T, NEW r \in Readings(P, T), NEW s
  PROVE  /\ AddSample(r, s).power = IF Reads(s, Power) THEN Scaled(s) ELSE r.power
         /\ AddSample(r, s).energy = IF Reads(s, Energy) THEN Scaled(s) ELSE r.energy
         /\ AddSample(r, s).at = r.at
BY DEF AddSample, Readings, Reads, Power, Energy

LEMMA OneMore ==
  ASSUME NEW samples, NEW n \in Nat \ {0}, NEW measurands, NEW old, NEW new, NEW next,
         LastOf(samples, n - 1, measurands, old, new),
         next = IF Reads(samples[n], measurands) THEN Scaled(samples[n]) ELSE new
  PROVE  LastOf(samples, n, measurands, old, next)
<1>1. \A j \in 1..n : j = n \/ j \in 1..(n - 1)
  OBVIOUS
<1>2. n \in 1..n /\ \A j \in 1..(n - 1) : j \in 1..n /\ j <= n
  OBVIOUS
<1>3. CASE Reads(samples[n], measurands)
  <2>1. \A l \in 1..n : l <= n
    OBVIOUS
  <2> QED BY <1>2, <1>3, <2>1 DEF LastOf
<1>4. CASE ~Reads(samples[n], measurands) /\ new = old /\ \A j \in 1..(n - 1) : ~Reads(samples[j], measurands)
  BY <1>1, <1>4 DEF LastOf
<1>5. CASE ~Reads(samples[n], measurands) /\
           \E j \in 1..(n - 1) : /\ Reads(samples[j], measurands) /\ new = Scaled(samples[j])
                                 /\ \A l \in 1..(n - 1) : Reads(samples[l], measurands) => l <= j
  <2>1. PICK j \in 1..(n - 1) : /\ Reads(samples[j], measurands) /\ new = Scaled(samples[j])
                                /\ \A l \in 1..(n - 1) : Reads(samples[l], measurands) => l <= j
    BY <1>5
  <2>2. \A l \in 1..n : Reads(samples[l], measurands) => l <= j
    BY <1>1, <1>5, <2>1
  <2> QED BY <1>2, <1>5, <2>1, <2>2 DEF LastOf
<1> QED BY <1>3, <1>4, <1>5 DEF LastOf

\* The samples of one meter value: the last one of a kind wins, the time stays.
LEMMA LastSampleWins ==
  ASSUME NEW P, NEW T, NEW r \in Readings(P, T), NEW samples, Len(samples) \in Nat,
         Fit(P, samples)
  PROVE  LET new == AddSamples(r, samples)
         IN  /\ LastOf(samples, Len(samples), Power, r.power, new.power)
             /\ LastOf(samples, Len(samples), Energy, r.energy, new.energy)
             /\ new.at = r.at
<1> DEFINE n == Len(samples)
<1>1. PICK f \in [0..n -> Readings(P, T)] :
        /\ f[0] = r
        /\ \A k \in 1..n : f[k] = AddSample(f[k - 1], samples[k])
        /\ AddSamples(r, samples) = f[n]
  BY SamplesTaken
<1> DEFINE Good == {k \in 0..n : /\ LastOf(samples, k, Power, r.power, f[k].power)
                                 /\ LastOf(samples, k, Energy, r.energy, f[k].energy)
                                 /\ f[k].at = r.at}
<1> HIDE DEF n
<1>2. n \in Nat
  BY DEF n
<1>3. 0 \in Good
  BY <1>1, <1>2 DEF LastOf
<1>4. ASSUME NEW k \in 1..n, k - 1 \in Good PROVE k \in Good
  <2>1. f[k - 1] \in Readings(P, T) /\ f[k] = AddSample(f[k - 1], samples[k])
    BY <1>1, <1>2
  <2>2. /\ f[k].power = IF Reads(samples[k], Power) THEN Scaled(samples[k]) ELSE f[k - 1].power
        /\ f[k].energy = IF Reads(samples[k], Energy) THEN Scaled(samples[k]) ELSE f[k - 1].energy
        /\ f[k].at = f[k - 1].at
    BY <2>1, OneSample
  <2>3. k \in Nat \ {0} /\ k \in 0..n
    BY <1>2
  <2>4. /\ LastOf(samples, k, Power, r.power, f[k].power)
        /\ LastOf(samples, k, Energy, r.energy, f[k].energy)
    BY <1>4, <2>2, <2>3, OneMore
  <2> QED BY <1>4, <2>2, <2>3, <2>4
<1>5. 0..n \subseteq Good
  <2> HIDE DEF Good
  <2> QED BY <1>2, <1>3, <1>4, UpTo
<1>6. n \in Good
  BY <1>2, <1>5
<1> QED BY <1>1, <1>6 DEF n

LEMMA OneMoreValue ==
  ASSUME NEW meterValues, NEW n \in Nat \ {0}, NEW measurands, NEW old, NEW new,
         LastOfAll(meterValues, n - 1, measurands, old),
         Len(meterValues[n].samples) \in Nat,
         LastOf(meterValues[n].samples, Len(meterValues[n].samples), measurands, old, new)
  PROVE  LastOfAll(meterValues, n, measurands, new)
<1> DEFINE N(i) == Len(meterValues[i].samples)
           R(i, j) == Reads(meterValues[i].samples[j], measurands)
<1>1. /\ \A i \in 1..n : i = n \/ i \in 1..(n - 1)
      /\ n \in 1..n /\ \A i \in 1..(n - 1) : i \in 1..n /\ i < n
  OBVIOUS
<1>2. CASE \E j \in 1..N(n) : /\ R(n, j) /\ new = Scaled(meterValues[n].samples[j])
                              /\ \A l \in 1..N(n) : R(n, l) => l <= j
  <2>1. PICK j \in 1..N(n) : /\ R(n, j) /\ new = Scaled(meterValues[n].samples[j])
                             /\ \A l \in 1..N(n) : R(n, l) => l <= j
    BY <1>2
  <2>2. \A k \in 1..n : \A l \in 1..N(k) : R(k, l) => k < n \/ (k = n /\ l <= j)
    BY <1>1, <2>1
  <2> QED BY <1>1, <2>1, <2>2 DEF LastOfAll
<1>3. CASE new = old /\ \A j \in 1..N(n) : ~R(n, j)
  <2>1. CASE /\ old = NoNumber
             /\ \A i \in 1..(n - 1) : \A j \in 1..N(i) : ~R(i, j)
    BY <1>1, <1>3, <2>1 DEF LastOfAll
  <2>2. CASE \E i \in 1..(n - 1) : \E j \in 1..N(i) :
               /\ R(i, j) /\ old = Scaled(meterValues[i].samples[j])
               /\ \A k \in 1..(n - 1) : \A l \in 1..N(k) :
                    R(k, l) => k < i \/ (k = i /\ l <= j)
    <3>0. PICK i \in 1..(n - 1) : \E j \in 1..N(i) :
               /\ R(i, j) /\ old = Scaled(meterValues[i].samples[j])
               /\ \A k \in 1..(n - 1) : \A l \in 1..N(k) :
                    R(k, l) => k < i \/ (k = i /\ l <= j)
      BY <2>2
    <3>1. PICK j \in 1..N(i) :
               /\ R(i, j) /\ old = Scaled(meterValues[i].samples[j])
               /\ \A k \in 1..(n - 1) : \A l \in 1..N(k) :
                    R(k, l) => k < i \/ (k = i /\ l <= j)
      BY <3>0
    <3>2. \A k \in 1..n : \A l \in 1..N(k) : R(k, l) => k < i \/ (k = i /\ l <= j)
      BY <1>1, <1>3, <3>1
    <3> QED BY <1>1, <1>3, <3>1, <3>2 DEF LastOfAll
  <2> QED BY <2>1, <2>2 DEF LastOfAll
<1> QED BY <1>2, <1>3 DEF LastOf

\* parse_meter_values, for any number of meter values and samples in any order:
\* power and energy are those of the last sample that says them and can be read
\* ("Later meter values win", metering.py), the time is the latest.
THEOREM LaterMeterValuesWin ==
  ASSUME NEW S, NEW meterValues \in Seq([at : Nat, samples : Seq(S)])
  PROVE  LET n == Len(meterValues)
             reading == ParseMeterValues(meterValues)
         IN  /\ LastOfAll(meterValues, n, Power, reading.power)
             /\ LastOfAll(meterValues, n, Energy, reading.energy)
             /\ LatestTime(meterValues, n, reading.at)
<1> DEFINE n == Len(meterValues)
           said(i) == {Scaled(meterValues[i].samples[j]) : j \in 1..Len(meterValues[i].samples)}
           P == {NoNumber} \cup UNION {said(i) : i \in 1..n}
<1>1. n \in Nat
  OBVIOUS
<1>2. ASSUME NEW i \in 1..n
      PROVE  /\ meterValues[i].at \in Nat /\ Len(meterValues[i].samples) \in Nat
             /\ Fit(P, meterValues[i].samples)
  <2>1. meterValues[i] \in [at : Nat, samples : Seq(S)]
    <3> DEFINE M == [at : Nat, samples : Seq(S)]
    <3>1. meterValues \in Seq(M) /\ i \in 1..Len(meterValues)
      OBVIOUS
    <3> HIDE DEF M
    <3>2. meterValues[i] \in M
      BY <3>1
    <3> QED BY <3>2 DEF M
  <2>2. meterValues[i].at \in Nat /\ meterValues[i].samples \in Seq(S)
    BY <2>1
  <2>3. Len(meterValues[i].samples) \in Nat
    BY <2>2
  <2>4. Fit(P, meterValues[i].samples)
    BY DEF Fit
  <2> QED BY <2>2, <2>3, <2>4
<1>3. NoNumber \in P /\ NoTime \in Nat
  BY DEF NoTime
<1> HIDE DEF n, P
<1>4. MeterValuesFit(P, Nat, meterValues)
  BY <1>2 DEF MeterValuesFit, n
<1>5. PICK f \in [0..n -> Readings(P, Nat)] :
        /\ f[0] = Nothing
        /\ \A k \in 1..n : f[k] = AddMeterValue(f[k - 1], meterValues[k])
        /\ ParseMeterValues(meterValues) = f[n]
  <2>1. Taken(P, Nat, meterValues)
    BY <1>1, <1>3, <1>4, MeterValuesTaken DEF n
  <2> QED BY <2>1 DEF Taken, n
<1> DEFINE Good == {k \in 0..n : /\ LastOfAll(meterValues, k, Power, f[k].power)
                                 /\ LastOfAll(meterValues, k, Energy, f[k].energy)
                                 /\ LatestTime(meterValues, k, f[k].at)}
<1>6. 0 \in Good
  <2>1. 0 \in 0..n /\ 1..0 = {}
    BY <1>1
  <2>2. f[0].power = NoNumber /\ f[0].energy = NoNumber /\ f[0].at = NoTime
    BY <1>5 DEF Nothing
  <2> QED BY <2>1, <2>2 DEF LastOfAll, LatestTime
<1>7. ASSUME NEW k \in 1..n, k - 1 \in Good PROVE k \in Good
  <2> DEFINE m == meterValues[k]
             r == f[k - 1]
             t == TimedBy(r, m)
  <2>1. r \in Readings(P, Nat) /\ f[k] = AddMeterValue(r, m) /\ k \in 0..n /\ k \in Nat \ {0}
    BY <1>1, <1>5
  <2>2. m.at \in Nat /\ Len(m.samples) \in Nat /\ Fit(P, m.samples)
    BY <1>2
  <2>3. /\ LastOfAll(meterValues, k - 1, Power, r.power)
        /\ LastOfAll(meterValues, k - 1, Energy, r.energy)
        /\ LatestTime(meterValues, k - 1, r.at)
    BY <1>7
  <2> HIDE DEF m, r, t, Good
  <2>4. /\ f[k] = AddSamples(t, m.samples) /\ t \in Readings(P, Nat)
        /\ t.power = r.power /\ t.energy = r.energy
        /\ t.at = IF m.at # NoTime /\ m.at >= r.at THEN m.at ELSE r.at
    <3>1. /\ AddMeterValue(r, m) = AddSamples(TimedBy(r, m), m.samples)
          /\ TimedBy(r, m) \in Readings(P, Nat)
          /\ TimedBy(r, m).power = r.power /\ TimedBy(r, m).energy = r.energy
          /\ TimedBy(r, m).at = IF m.at # NoTime /\ m.at >= r.at THEN m.at ELSE r.at
      BY <2>1, <2>2, TimedByIs
    <3> QED BY <2>1, <3>1 DEF t
  <2>5. /\ LastOf(m.samples, Len(m.samples), Power, t.power, f[k].power)
        /\ LastOf(m.samples, Len(m.samples), Energy, t.energy, f[k].energy)
        /\ f[k].at = t.at
    <3>1. /\ LastOf(m.samples, Len(m.samples), Power, t.power, AddSamples(t, m.samples).power)
          /\ LastOf(m.samples, Len(m.samples), Energy, t.energy, AddSamples(t, m.samples).energy)
          /\ AddSamples(t, m.samples).at = t.at
      BY <2>2, <2>4, LastSampleWins
    <3> QED BY <2>4, <3>1
  <2>6. LastOfAll(meterValues, k, Power, f[k].power)
    BY <2>1, <2>2, <2>3, <2>4, <2>5, OneMoreValue DEF m
  <2>7. LastOfAll(meterValues, k, Energy, f[k].energy)
    BY <2>1, <2>2, <2>3, <2>4, <2>5, OneMoreValue DEF m
  <2>8. LatestTime(meterValues, k, f[k].at)
    <3>1. /\ \A i \in 1..k : i = k \/ i \in 1..(k - 1)
          /\ k \in 1..k /\ \A i \in 1..(k - 1) : i \in 1..k
      BY <2>1
    <3>2. r.at \in Nat /\ f[k].at = IF m.at # NoTime /\ m.at >= r.at THEN m.at ELSE r.at
      BY <2>1, <2>4, <2>5 DEF Readings
    <3>3. \A i \in 1..(k - 1) : meterValues[i].at \in Nat
      BY <1>1, <1>2
    <3>4. f[k].at = NoTime \/ \E i \in 1..k : f[k].at = meterValues[i].at
      BY <2>3, <3>1, <3>2 DEF LatestTime, m
    <3>5. m.at <= f[k].at /\ r.at <= f[k].at /\ f[k].at \in Nat
      BY <2>2, <3>2 DEF NoTime
    <3>6. \A i \in 1..k : meterValues[i].at <= f[k].at
      <4>1. ASSUME NEW i \in 1..(k - 1) PROVE meterValues[i].at <= f[k].at
        <5>1. meterValues[i].at <= r.at
          BY <2>3 DEF LatestTime
        <5> QED BY <3>2, <3>3, <3>5, <5>1
      <4> QED BY <3>1, <3>5, <4>1 DEF m
    <3> QED BY <3>4, <3>6 DEF LatestTime
  <2> QED BY <2>1, <2>6, <2>7, <2>8 DEF Good
<1>8. n \in Good
  <2> HIDE DEF Good
  <2>1. 0..n \subseteq Good
    BY <1>1, <1>6, <1>7, UpTo
  <2> QED BY <1>1, <2>1
<1> QED BY <1>5, <1>8 DEF n

\* The register is read in Wh and the time is the charger's.
LEMMA MeterRead ==
  ASSUME NEW at \in Nat \ {0}
  PROVE  /\ ParseMeterValues(MeterOf(at)).energy = 10 * at
         /\ ParseMeterValues(MeterOf(at)).at = at
<1> DEFINE power  == Sample("Power.Active.Import", 1, "kw", 0)
           energy == Sample("Energy.Active.Import.Register", at, "wh", 1)
           samples == <<power, energy>>
           m == MeterValue(at, samples)
           P == {NoNumber, Scaled(power), Scaled(energy)}
           T == {NoTime, at}
<1>1. /\ MeterOf(at) = <<m>> /\ m.at = at /\ m.samples = samples
      /\ Len(samples) = 2 /\ samples[1] = power /\ samples[2] = energy
  BY DEF MeterOf, MeterValue
<1>2. ~Reads(power, Energy) /\ Reads(energy, Energy)
  BY DEF Reads, Power, Energy, Counts, Sample, NoNumber
<1>3. Scaled(energy) = 10 * at
  <2>1. energy.value = at /\ energy.multiplier = 1 /\ Scale(energy.unit) = 1
    BY DEF Sample, Scale
  <2>2. 10^1 = 10
    OBVIOUS
  <2>3. Scaled(energy) = at * 10^1 * 1
    <3> HIDE DEF energy
    <3> QED BY <2>1, Zenon DEF Scaled
  <2> QED BY <2>2, <2>3
<1> HIDE DEF power, energy, m, samples
<1>4. Fit(P, samples)
  BY <1>1 DEF Fit
<1>5. Len(<<m>>) = 1 /\ <<m>>[1] = m /\ MeterValuesFit(P, T, <<m>>)
  BY <1>1, <1>4 DEF MeterValuesFit
<1> HIDE DEF P, T
<1>6. PICK f \in [0..1 -> Readings(P, T)] :
        f[0] = Nothing /\ f[1] = AddMeterValue(f[0], m) /\ ParseMeterValues(<<m>>) = f[1]
  <2>1. NoNumber \in P /\ NoTime \in T
    BY DEF P, T
  <2> DEFINE l == <<m>>
  <2>2. Len(l) = 1 /\ l[1] = m /\ MeterValuesFit(P, T, l)
    BY <1>5
  <2> HIDE DEF l
  <2>3. PICK f \in [0..Len(l) -> Readings(P, T)] :
          /\ f[0] = Nothing
          /\ \A k \in 1..Len(l) : f[k] = AddMeterValue(f[k - 1], l[k])
          /\ ParseMeterValues(l) = f[Len(l)]
    <3>1. Len(l) \in Nat
      BY <2>2
    <3>2. Taken(P, T, l)
      BY <2>1, <2>2, <3>1, MeterValuesTaken
    <3> QED BY <3>2 DEF Taken
  <2> QED BY <2>2, <2>3 DEF l
<1>7. f[0] \in Readings(P, T) /\ m.at \in T
  BY <1>1 DEF T
<1> DEFINE t == TimedBy(f[0], m)
<1>8. f[1] = AddSamples(t, samples) /\ t \in Readings(P, T) /\ t.at = at
  <2>1. at # NoTime /\ at >= f[0].at
    BY <1>6 DEF NoTime, Nothing
  <2> QED BY <1>1, <1>6, <1>7, <2>1, TimedByIs
<1> HIDE DEF t
<1>9. f[1].at = at /\ LastOf(samples, 2, Energy, t.energy, f[1].energy)
  <2>1. Len(samples) \in Nat
    BY <1>1
  <2>2. /\ LastOf(samples, Len(samples), Energy, t.energy, AddSamples(t, samples).energy)
        /\ AddSamples(t, samples).at = t.at
    BY <1>4, <1>8, <2>1, LastSampleWins
  <2> QED BY <1>1, <1>8, <2>2
<1>10. f[1].energy = Scaled(energy)
  <2>1. 1 \in 1..2 /\ 2 \in 1..2 /\ \A j \in 1..2 : j = 1 \/ j = 2
    OBVIOUS
  <2>2. Reads(samples[2], Energy) /\ ~Reads(samples[1], Energy)
    BY <1>1, <1>2
  <2> QED BY <1>1, <1>9, <2>1, <2>2 DEF LastOf
<1> QED BY <1>1, <1>3, <1>6, <1>9, <1>10

-----------------------------------------------------------------------------
(* An event is handled.                                                    *)

\* What HandleEvent does with the charger's event number sent + 1.
HandledAs(type, t) ==
  /\ handled' = handled \cup {[type |-> type, tx |-> t, at |-> sent + 1]}
  /\ state'.active = IF type = "Ended" THEN NoTx ELSE t
  /\ starts' = IF type # "Ended" /\ t # state.active THEN starts \cup {t} ELSE starts
  /\ ends' = IF type = "Ended" /\ state.active # NoTx
             THEN ends \cup {[tx |-> state.active, energy |-> 10 * (sent + 1)]} ELSE ends
  /\ dirty' = TRUE

LEMMA EventHandled ==
  ASSUME sent \in Nat, sent' = sent + 1, NEW type, NEW t \in TxIds,
         HandleEvent(type, t, ParseMeterValues(MeterOf(sent')))
  PROVE  HandledAs(type, t)
<1> DEFINE reading == ParseMeterValues(MeterOf(sent'))
<1>1. reading.energy = 10 * (sent + 1) /\ reading.at = sent + 1
  BY MeterRead
<1>2. reading.energy # NoNumber /\ t # NoTx
  BY <1>1, NoTxIsNone DEF NoNumber
<1> HIDE DEF reading
<1>3. HandleEvent(type, t, reading)
  BY DEF reading
<1> DEFINE energy == IF reading.energy # NoNumber THEN reading.energy ELSE state.energy
           next   == IF type = "Ended" THEN NoTx ELSE t
<1>4. energy = 10 * (sent + 1) /\ (next = NoTx <=> type = "Ended") /\ (next # NoTx => next = t)
  BY <1>1, <1>2
<1>5. /\ state' = [active |-> next, energy |-> energy,
                  at |-> IF type = "Ended" THEN NoTime ELSE reading.at]
      /\ starts' = IF next # NoTx /\ next # state.active THEN starts \cup {next} ELSE starts
      /\ ends' = IF next = NoTx /\ state.active # NoTx
                 THEN ends \cup {[tx |-> state.active, energy |-> energy]} ELSE ends
      /\ dirty' = TRUE
      /\ handled' = handled \cup {[type |-> type, tx |-> t, at |-> reading.at]}
  BY <1>3 DEF HandleEvent, SaveState
<1>6. state'.active = next
  BY <1>5
<1>7. starts' = IF type # "Ended" /\ t # state.active THEN starts \cup {t} ELSE starts
  <2> HIDE DEF next
  <2>1. CASE type = "Ended"
    BY <1>4, <1>5, <2>1
  <2>2. CASE type # "Ended"
    BY <1>4, <1>5, <2>2
  <2> QED BY <2>1, <2>2
<1>8. ends' = IF type = "Ended" /\ state.active # NoTx
              THEN ends \cup {[tx |-> state.active, energy |-> 10 * (sent + 1)]} ELSE ends
  <2> HIDE DEF next, energy
  <2> QED BY <1>4, <1>5
<1> QED BY <1>1, <1>5, <1>6, <1>7, <1>8 DEF HandledAs

\* What becomes true of which transaction.
LEMMA HandledOf ==
  ASSUME NEW type, NEW t, HandledAs(type, t)
  PROVE  /\ \A u : EndHandled(u)' <=> EndHandled(u) \/ (u = t /\ type = "Ended")
         /\ \A u : OpenHandled(u)' <=> OpenHandled(u) \/ (u = t /\ type # "Ended")
         /\ \A u, v : EndedAt(u, v) => EndedAt(u, v)'
         /\ \A v : type = "Ended" /\ v = 10 * (sent + 1) => EndedAt(t, v)'
<1> DEFINE new == [type |-> type, tx |-> t, at |-> sent + 1]
<1>1. new.type = type /\ new.tx = t /\ new.at = sent + 1 /\ handled' = handled \cup {new}
  BY DEF HandledAs
<1> HIDE DEF new
<1>2. \A e : e \in handled' <=> e \in handled \/ e = new
  BY <1>1
<1>3. \A u : EndHandled(u)' <=> EndHandled(u) \/ (u = t /\ type = "Ended")
  BY <1>1, <1>2 DEF EndHandled
<1>4. \A u : OpenHandled(u)' <=> OpenHandled(u) \/ (u = t /\ type # "Ended")
  BY <1>1, <1>2 DEF OpenHandled
<1>5. \A u, v : EndedAt(u, v) => EndedAt(u, v)'
  BY <1>2 DEF EndedAt
<1>6. \A v : type = "Ended" /\ v = 10 * (sent + 1) => EndedAt(t, v)'
  BY <1>1, <1>2 DEF EndedAt
<1> QED BY <1>3, <1>4, <1>5, <1>6

\* A Started or an Updated of a transaction that has not ended.
LEMMA OpenEvent ==
  ASSUME TxInv, sent' = sent + 1, NEW type \in {"Started", "Updated"}, NEW t \in TxIds,
         HandledAs(type, t), ~EndHandled(t), tx' = t, UNCHANGED <<ending, dTx, dState, lost>>,
         \A e \in handled : e.tx # t => EndHandled(e.tx)
  PROVE  TxInv'
<1>1. /\ \A u : EndHandled(u)' <=> EndHandled(u)
      /\ \A u : OpenHandled(u)' <=> OpenHandled(u) \/ u = t
      /\ \A u, v : EndedAt(u, v) => EndedAt(u, v)'
  BY HandledOf
<1>2. \A u : Kept(u)' <=> Kept(u)
  BY DEF Kept
<1>3. /\ state'.active = t /\ dirty' = TRUE /\ ends' = ends
      /\ starts' = IF t # state.active THEN starts \cup {t} ELSE starts
  BY DEF HandledAs
<1>4. \A u : Waiting(u)' <=> Waiting(u)
  BY <1>3 DEF Waiting
<1>5. \A u \in TxIds : OpenHandled(u) /\ ~EndHandled(u) => u = t
  BY DEF OpenHandled
<1>6. t # NoTx /\ t \in Nat
  BY NoTxIsNone
<1>7. ChargerOrder'
  <2> DEFINE new == [type |-> type, tx |-> t, at |-> sent + 1]
  <2>1. new.type = type /\ new.tx = t /\ new.at = sent + 1 /\ handled' = handled \cup {new}
    BY DEF HandledAs
  <2> HIDE DEF new
  <2>2. \A e \in handled' : e.tx \in TxIds /\ e.at \in 1..sent'
    BY <2>1 DEF TxInv, ChargerOrder
  <2>3. \A e \in handled', o \in handled' :
          e.tx = o.tx /\ e.type = "Ended" /\ o.type # "Ended" => o.at <= e.at
    BY <2>1 DEF TxInv, ChargerOrder, EndHandled
  <2>4. \A e \in handled' : e.tx # tx' => EndHandled(e.tx)'
    BY <1>1, <2>1
  <2> QED BY <1>1, <2>2, <2>3, <2>4 DEF TxInv, ChargerOrder
<1>8. LiveTx'
  <2>1. state'.active # NoTx => OpenHandled(state.active)'
    BY <1>1, <1>3
  <2>2. dState'.active # NoTx => OpenHandled(dState.active)'
    BY <1>1 DEF TxInv, LiveTx
  <2>3. ASSUME NEW u \in TxIds, Kept(u)
        PROVE  /\ state'.active = u => ~EndHandled(u)
               /\ OpenHandled(u)' /\ ~EndHandled(u) => state'.active = u
               /\ dState'.active = u /\ ~Waiting(u) => state'.active = u
               /\ state'.active = u /\ u \notin starts' => dState'.active = u
    <3>1. OpenHandled(u)' /\ ~EndHandled(u) => u = t
      BY <1>1, <1>5
    <3>2. dState.active = u /\ ~Waiting(u) => u = t
      <4>1. dState.active = u /\ ~Waiting(u) => state.active = u /\ u # NoTx
        BY <2>3, NoTxIsNone DEF TxInv, LiveTx
      <4>2. state.active = u /\ u # NoTx => OpenHandled(u) /\ ~EndHandled(u)
        BY <2>3 DEF TxInv, LiveTx
      <4> QED BY <1>5, <4>1, <4>2
    <3>3. u = t /\ u \notin starts' => dState.active = u
      BY <1>3, <2>3 DEF TxInv, LiveTx
    <3> QED BY <1>3, <3>1, <3>2, <3>3
  <2> QED BY <1>1, <1>2, <1>3, <1>4, <2>1, <2>2, <2>3 DEF LiveTx
<1>9. TableInv'
  <2>1. starts' \subseteq TxIds /\ starts \subseteq starts'
    BY <1>3 DEF TxInv, TableInv
  <2>2. ASSUME NEW u \in TxIds, Kept(u)
        PROVE  /\ OpenHandled(u)' => u \in starts' \/ dTx'[u].row
               /\ \A r \in ends' : r.tx = u => EndedAt(u, r.energy)'
               /\ dTx'[u].ended => EndedAt(u, dTx[u].energy)'
               /\ EndHandled(u)' /\ OpenHandled(u)' => Waiting(u)' \/ dTx'[u].ended
    <3>1. OpenHandled(u)' => u \in starts' \/ dTx'[u].row
      <4>1. CASE OpenHandled(u)
        BY <2>1, <2>2, <4>1 DEF TxInv, TableInv
      <4>2. CASE u = t /\ state.active = t
        BY <1>6, <2>1, <2>2, <4>2 DEF TxInv, LiveTx, TableInv
      <4>3. CASE u = t /\ state.active # t
        BY <1>3, <4>3
      <4> QED BY <1>1, <4>1, <4>2, <4>3
    <3>2. (\A r \in ends' : r.tx = u => EndedAt(u, r.energy)')
          /\ (dTx'[u].ended => EndedAt(u, dTx[u].energy)')
      BY <1>1, <1>3, <2>2 DEF TxInv, TableInv
    <3>3. EndHandled(u)' /\ OpenHandled(u)' => Waiting(u)' \/ dTx'[u].ended
      BY <1>1, <1>4, <2>2 DEF TxInv, TableInv
    <3> QED BY <3>1, <3>2, <3>3
  <2> QED BY <1>2, <1>3, <2>1, <2>2 DEF TxInv, TableInv
<1> QED BY <1>7, <1>8, <1>9 DEF TxInv

\* The Ended of the charger's transaction.
LEMMA EndEvent ==
  ASSUME TxInv, sent' = sent + 1, tx \in TxIds, HandledAs("Ended", tx),
         (tx' = tx /\ ending' = TRUE) \/ tx' = NoTx, UNCHANGED <<dTx, dState, lost>>
  PROVE  TxInv'
<1>1. /\ \A u : EndHandled(u)' <=> EndHandled(u) \/ u = tx
      /\ \A u : OpenHandled(u)' <=> OpenHandled(u)
      /\ \A u, v : EndedAt(u, v) => EndedAt(u, v)'
      /\ \A u, v : u = tx /\ v = 10 * (sent + 1) => EndedAt(u, v)'
  BY HandledOf
<1>2. \A u : Kept(u)' <=> Kept(u)
  BY DEF Kept
<1>3. /\ state'.active = NoTx /\ dirty' = TRUE /\ starts' = starts
      /\ ends' = IF state.active # NoTx
                 THEN ends \cup {[tx |-> state.active, energy |-> 10 * (sent + 1)]} ELSE ends
  BY DEF HandledAs
<1>4. \A u \in TxIds : Waiting(u)' <=> Waiting(u) \/ u = state.active
  <2> TAKE u \in TxIds
  <2> DEFINE new == [tx |-> state.active, energy |-> 10 * (sent + 1)]
  <2>1. u # NoTx /\ new.tx = state.active
    BY NoTxIsNone
  <2> HIDE DEF new
  <2>2. ends' = IF state.active # NoTx THEN ends \cup {new} ELSE ends
    BY <1>3 DEF new
  <2>3. CASE state.active # NoTx
    BY <2>1, <2>2, <2>3 DEF Waiting
  <2>4. CASE state.active = NoTx
    BY <2>1, <2>2, <2>4 DEF Waiting
  <2> QED BY <2>3, <2>4
<1>5. \A u \in TxIds : OpenHandled(u) /\ ~EndHandled(u) => u = tx
  BY DEF OpenHandled, TxInv, ChargerOrder
<1>6. ChargerOrder'
  <2> DEFINE new == [type |-> "Ended", tx |-> tx, at |-> sent + 1]
  <2>1. new.type = "Ended" /\ new.tx = tx /\ new.at = sent + 1 /\ handled' = handled \cup {new}
    BY DEF HandledAs
  <2> HIDE DEF new
  <2>2. \A e \in handled' : e.tx \in TxIds /\ e.at \in 1..sent'
    BY <2>1 DEF TxInv, ChargerOrder
  <2>3. \A e \in handled', o \in handled' :
          e.tx = o.tx /\ e.type = "Ended" /\ o.type # "Ended" => o.at <= e.at
    BY <2>1 DEF TxInv, ChargerOrder
  <2>4. \A e \in handled' : e.tx # tx' => EndHandled(e.tx)'
    BY <1>1, <2>1 DEF TxInv, ChargerOrder
  <2> QED BY <2>2, <2>3, <2>4 DEF TxInv, ChargerOrder
<1>7. LiveTx'
  <2>1. dState'.active # NoTx => OpenHandled(dState.active)'
    BY <1>1 DEF TxInv, LiveTx
  <2>2. ASSUME NEW u \in TxIds, Kept(u)
        PROVE  /\ state'.active # u
               /\ ~(OpenHandled(u)' /\ ~EndHandled(u)')
               /\ ~(dState'.active = u /\ ~Waiting(u)')
    <3>1. state'.active # u
      BY <1>3, NoTxIsNone
    <3>2. ~(OpenHandled(u)' /\ ~EndHandled(u)')
      BY <1>1, <1>5
    <3>3. ~(dState'.active = u /\ ~Waiting(u)')
      BY <1>4, <2>2 DEF TxInv, LiveTx
    <3> QED BY <3>1, <3>2, <3>3
  <2> QED BY <1>2, <1>3, <2>1, <2>2 DEF LiveTx
<1>8. TableInv'
  <2>1. ends' \subseteq [tx : TxIds, energy : Int]
    <3>1. 10 * (sent + 1) \in Int
      BY DEF TxInv, ChargerOrder
    <3>2. state.active # NoTx => state.active \in TxIds
      BY DEF TxInv, LiveTx, ChargerOrder, OpenHandled
    <3> QED BY <1>3, <3>1, <3>2 DEF TxInv, TableInv
  <2>2. ASSUME NEW u \in TxIds, Kept(u)
        PROVE  /\ OpenHandled(u)' => u \in starts' \/ dTx'[u].row
               /\ \A r \in ends' : r.tx = u => EndedAt(u, r.energy)'
               /\ dTx'[u].ended => EndedAt(u, dTx[u].energy)'
               /\ EndHandled(u)' /\ OpenHandled(u)' => Waiting(u)' \/ dTx'[u].ended
    <3>1. OpenHandled(u)' => u \in starts' \/ dTx'[u].row
      BY <1>1, <1>3, <2>2 DEF TxInv, TableInv
    <3>2. ASSUME NEW r \in ends', r.tx = u PROVE EndedAt(u, r.energy)'
      <4>1. CASE r \in ends
        BY <1>1, <2>2, <3>2, <4>1 DEF TxInv, TableInv
      <4>2. CASE r \notin ends
        <5>1. r.energy = 10 * (sent + 1) /\ u = state.active /\ state.active # NoTx
          BY <1>3, <3>2, <4>2
        <5>2. u = tx
          BY <1>5, <2>2, <5>1 DEF TxInv, LiveTx
        <5> QED BY <1>1, <5>1, <5>2
      <4> QED BY <4>1, <4>2
    <3>3. dTx'[u].ended => EndedAt(u, dTx[u].energy)'
      BY <1>1, <2>2 DEF TxInv, TableInv
    <3>4. EndHandled(u)' /\ OpenHandled(u)' => Waiting(u)' \/ dTx'[u].ended
      <4>1. CASE EndHandled(u)
        BY <1>1, <1>4, <2>2, <4>1 DEF TxInv, TableInv
      <4>2. CASE ~EndHandled(u)
        BY <1>1, <1>4, <2>2, <4>2 DEF TxInv, LiveTx
      <4> QED BY <4>1, <4>2
    <3> QED BY <3>1, <3>2, <3>3, <3>4
  <2> QED BY <1>2, <1>3, <2>1, <2>2 DEF TxInv, TableInv
<1> QED BY <1>6, <1>7, <1>8 DEF TxInv

-----------------------------------------------------------------------------
(* The other steps.                                                        *)

\* Events do not change what the history and the charger say of transactions.
LEMMA SameHistory ==
  ASSUME UNCHANGED handled
  PROVE  /\ \A u : (EndHandled(u)' <=> EndHandled(u)) /\ (OpenHandled(u)' <=> OpenHandled(u))
         /\ \A u, v : EndedAt(u, v)' <=> EndedAt(u, v)
BY DEF EndHandled, OpenHandled, EndedAt

LEMMA SameCharger ==
  ASSUME TxInv, UNCHANGED <<tx, ending, sent, handled>>
  PROVE  ChargerOrder'
BY SameHistory DEF TxInv, ChargerOrder

\* What one flush makes of the row of transaction t.
LEMMA RowWritten ==
  ASSUME TxInv, Written, NEW t \in TxIds
  PROVE  /\ dTx'[t] \in TxRow
         /\ dTx'[t].row <=> dTx[t].row \/ t \in starts
         /\ Waiting(t) /\ (dTx[t].row \/ t \in starts) => dTx'[t].ended
         /\ \/ dTx'[t].ended = dTx[t].ended /\ dTx'[t].energy = dTx[t].energy
            \/ \E r \in ends : r.tx = t /\ dTx'[t].energy = r.energy
<1> DEFINE begun == StartedRows(dTx)
           mine  == {e \in ends : e.tx = t}
           last  == CHOOSE e \in mine : TRUE
<1>1. dTx[t] \in TxRow /\ ends \subseteq [tx : TxIds, energy : Int]
  BY DEF TxInv, TableInv
<1>2. begun[t] = [dTx[t] EXCEPT !.row = @ \/ t \in starts]
  BY DEF StartedRows
<1>3. /\ begun[t] \in TxRow /\ (begun[t].row <=> dTx[t].row \/ t \in starts)
      /\ begun[t].ended = dTx[t].ended /\ begun[t].energy = dTx[t].energy
  <2> HIDE DEF begun
  <2> QED BY <1>1, <1>2 DEF TxRow
<1> HIDE DEF begun
<1>4. dTx'[t] = IF mine # {} /\ begun[t].row
                THEN [begun[t] EXCEPT !.ended = TRUE, !.energy = last.energy] ELSE begun[t]
  BY DEF Written, EndedRows, begun
<1>5. Waiting(t) <=> mine # {}
  BY DEF Waiting
<1>6. CASE mine # {} /\ begun[t].row
  <2>1. last \in ends /\ last.tx = t /\ last.energy \in Int
    BY <1>1, <1>6
  <2> HIDE DEF last, mine
  <2>2. dTx'[t] = [begun[t] EXCEPT !.ended = TRUE, !.energy = last.energy]
    BY <1>4, <1>6
  <2>3. /\ dTx'[t] \in TxRow /\ dTx'[t].row = begun[t].row
        /\ dTx'[t].ended = TRUE /\ dTx'[t].energy = last.energy
    BY <1>3, <2>1, <2>2 DEF TxRow
  <2> QED BY <1>3, <2>1, <2>3
<1>7. CASE ~(mine # {} /\ begun[t].row)
  <2> HIDE DEF last, mine
  <2>1. dTx'[t] = begun[t]
    BY <1>4, <1>7
  <2> QED BY <1>3, <1>5, <1>7, <2>1
<1> QED BY <1>6, <1>7

\* A flush writes both what the state shows and what the tables lack.
LEMMA TxWritten ==
  ASSUME TxInv, Written, BuffersCleared, UNCHANGED <<tx, ending, sent, handled, lost>>,
         state' = state \/ state' = dState'
  PROVE  TxInv'
<1>1. starts' = {} /\ ends' = {} /\ dirty' = FALSE
  BY DEF BuffersCleared
<1>2. /\ \A u : (EndHandled(u)' <=> EndHandled(u)) /\ (OpenHandled(u)' <=> OpenHandled(u))
      /\ \A u, v : EndedAt(u, v)' <=> EndedAt(u, v)
      /\ \A u : Kept(u)' <=> Kept(u)
  BY SameHistory DEF Kept
<1>3. dState' = IF dirty THEN state ELSE dState
  BY DEF Written
<1>4. \A u : ~Waiting(u)'
  BY <1>1 DEF Waiting
<1>5. LiveTx'
  <2>1. /\ state'.active # NoTx => OpenHandled(state.active)'
        /\ dState'.active # NoTx => OpenHandled(dState.active)'
    BY <1>2, <1>3 DEF TxInv, LiveTx
  <2>2. ASSUME NEW u \in TxIds, Kept(u)
        PROVE  (state'.active = u <=> state.active = u) /\ (dState'.active = u <=> state.active = u)
    BY <1>3, <2>2 DEF TxInv, LiveTx
  <2> QED BY <1>2, <2>1, <2>2 DEF TxInv, LiveTx
<1>6. TableInv'
  <2>1. dTx' \in [TxIds -> TxRow]
    <3>1. dTx' = [t \in TxIds |-> dTx'[t]]
      BY DEF Written, EndedRows
    <3>2. \A t \in TxIds : dTx'[t] \in TxRow
      BY RowWritten
    <3> QED BY <3>1, <3>2
  <2>2. ASSUME NEW u \in TxIds, Kept(u)
        PROVE  /\ OpenHandled(u) => dTx'[u].row
               /\ dTx'[u].ended => EndedAt(u, dTx[u].energy)'
               /\ EndHandled(u) /\ OpenHandled(u) => dTx'[u].ended
    <3>1. OpenHandled(u) => dTx'[u].row
      BY <2>2, RowWritten DEF TxInv, TableInv
    <3>2. dTx'[u].ended => EndedAt(u, dTx[u].energy)'
      <4>1. CASE dTx'[u].ended = dTx[u].ended /\ dTx'[u].energy = dTx[u].energy
        <5>1. dTx[u].ended => EndedAt(u, dTx[u].energy)
          BY <2>2 DEF TxInv, TableInv
        <5> QED BY <4>1, <5>1 DEF EndedAt
      <4>2. CASE \E r \in ends : r.tx = u /\ dTx'[u].energy = r.energy
        BY <1>2, <2>2, <4>2 DEF TxInv, TableInv, EndedAt
      <4> QED BY <4>1, <4>2, RowWritten
    <3>3. EndHandled(u) /\ OpenHandled(u) => dTx'[u].ended
      <4>1. CASE Waiting(u)
        BY <2>2, <4>1, RowWritten DEF TxInv, TableInv
      <4>2. CASE ~Waiting(u) /\ EndHandled(u) /\ OpenHandled(u)
        <5>1. dTx[u].ended /\ ~\E r \in ends : r.tx = u
          BY <2>2, <4>2 DEF TxInv, TableInv, Waiting
        <5> QED BY <5>1, RowWritten
      <4> QED BY <4>1, <4>2
    <3> QED BY <3>1, <3>2, <3>3
  <2> QED BY <1>1, <1>2, <2>1, <2>2 DEF TableInv
<1> QED BY <1>5, <1>6, SameCharger DEF TxInv

\* What a flush or a kill drops is remembered.
LEMMA TxDropped ==
  ASSUME TxInv, BuffersCleared, Dropped, UNCHANGED <<tx, ending, sent, handled, dTx, dState>>,
         state' = state \/ state' = dState
  PROVE  TxInv'
<1>1. starts' = {} /\ ends' = {} /\ dirty' = FALSE
  BY DEF BuffersCleared
<1>2. /\ \A u : (EndHandled(u)' <=> EndHandled(u)) /\ (OpenHandled(u)' <=> OpenHandled(u))
      /\ \A u, v : EndedAt(u, v)' <=> EndedAt(u, v)
  BY SameHistory
<1>3. \A u : Kept(u)' => Kept(u) /\ u \notin starts /\ ~Waiting(u)
  <2>1. /\ (lost').starts = lost.starts \cup starts
        /\ (lost').ends = lost.ends \cup {e.tx : e \in ends}
    BY DEF Dropped
  <2> QED BY <2>1 DEF Kept, Waiting
<1>4. LiveTx'
  <2>1. /\ state'.active # NoTx => OpenHandled(state.active)'
        /\ dState'.active # NoTx => OpenHandled(dState.active)'
    BY <1>2 DEF TxInv, LiveTx
  <2>2. ASSUME NEW u \in TxIds, Kept(u)'
        PROVE  (state'.active = u <=> state.active = u) /\ (dState'.active = u <=> state.active = u)
    BY <1>3, <2>2 DEF TxInv, LiveTx
  <2> QED BY <1>2, <1>3, <2>1, <2>2 DEF TxInv, LiveTx
<1>5. TableInv'
  BY <1>1, <1>2, <1>3 DEF TxInv, TableInv
<1> QED BY <1>4, <1>5, SameCharger DEF TxInv

\* A step that touches neither events nor their rows.
LEMMA TxUntouched ==
  ASSUME TxInv, ChargerOrder', UNCHANGED <<handled, lost, starts, ends, dTx, dState, state>>,
         dirty => dirty'
  PROVE  TxInv'
<1>1. /\ \A u : (EndHandled(u)' <=> EndHandled(u)) /\ (OpenHandled(u)' <=> OpenHandled(u))
      /\ \A u, v : EndedAt(u, v)' <=> EndedAt(u, v)
  BY SameHistory
<1>2. \A u : (Kept(u)' <=> Kept(u)) /\ (Waiting(u)' <=> Waiting(u))
  BY DEF Kept, Waiting
<1>3. LiveTx'
  BY <1>1, <1>2 DEF TxInv, LiveTx
<1>4. TableInv'
  BY <1>1, <1>2 DEF TxInv, TableInv
<1> QED BY <1>3, <1>4 DEF TxInv

\* The charger's next transaction has a number nothing was sent for yet.
LEMMA StartKeeps == ASSUME TxInv, Start PROVE TxInv'
<1>1. PICK t \in TxIds, h \in BOOLEAN :
        (\A e \in handled : e.tx < t) /\ tx' = t /\ Send("Started", t, h)
  BY DEF Start
<1>2. /\ ~EndHandled(t) /\ \A e \in handled : e.tx # t => EndHandled(e.tx)
  BY <1>1, NoTxIsNone DEF Start, TxInv, ChargerOrder, EndHandled
<1>3. sent' = sent + 1 /\ sent \in Nat
      /\ UNCHANGED <<ending, dTx, dState, lost>>
  BY <1>1 DEF Start, Send, diskVars, TxInv, ChargerOrder
<1>4. CASE h
  BY <1>1, <1>2, <1>3, <1>4, EventHandled, OpenEvent DEF Send
<1>5. CASE ~h
  <2>1. UNCHANGED <<state, starts, ends, dirty, handled>>
    BY <1>1, <1>5 DEF Send
  <2>2. ChargerOrder'
    BY <1>1, <1>2, <1>3, <2>1, SameHistory DEF TxInv, ChargerOrder
  <2> QED BY <1>3, <2>1, <2>2, TxUntouched
<1> QED BY <1>4, <1>5

LEMMA UpdateKeeps == ASSUME TxInv, Update PROVE TxInv'
<1>1. PICK h \in BOOLEAN : Send("Updated", tx, h)
  BY DEF Update
<1>2. /\ tx \in TxIds /\ ~EndHandled(tx) /\ UNCHANGED <<tx, ending>>
      /\ \A e \in handled : e.tx # tx => EndHandled(e.tx)
  BY DEF Update, TxInv, ChargerOrder
<1>3. sent' = sent + 1 /\ sent \in Nat /\ UNCHANGED <<dTx, dState, lost>>
  BY <1>1 DEF Send, diskVars, TxInv, ChargerOrder
<1>4. CASE h
  BY <1>1, <1>2, <1>3, <1>4, EventHandled, OpenEvent DEF Send
<1>5. CASE ~h
  <2>1. UNCHANGED <<state, starts, ends, dirty, handled>>
    BY <1>1, <1>5 DEF Send
  <2>2. ChargerOrder'
    BY <1>2, <1>3, <2>1, SameHistory DEF TxInv, ChargerOrder
  <2> QED BY <1>3, <2>1, <2>2, TxUntouched
<1> QED BY <1>4, <1>5

LEMMA EndKeeps == ASSUME TxInv, End PROVE TxInv'
<1>1. PICK h \in BOOLEAN : Send("Ended", tx, h)
  BY DEF End
<1>2. PICK acknowledged \in BOOLEAN :
        /\ acknowledged => handled' # handled
        /\ tx' = IF acknowledged THEN NoTx ELSE tx
        /\ ending' = ~acknowledged
  BY DEF End
<1>3. tx \in TxIds /\ sent' = sent + 1 /\ sent \in Nat /\ UNCHANGED <<dTx, dState, lost>>
  BY <1>1 DEF End, Send, diskVars, TxInv, ChargerOrder
<1>4. CASE h
  <2>1. HandledAs("Ended", tx)
    BY <1>1, <1>3, <1>4, EventHandled DEF Send
  <2> QED BY <1>2, <1>3, <2>1, EndEvent
<1>5. CASE ~h
  <2>1. UNCHANGED <<state, starts, ends, dirty, handled>>
    BY <1>1, <1>5 DEF Send
  <2>2. tx' = tx /\ ending' = TRUE
    BY <1>2, <2>1
  <2>3. ChargerOrder'
    BY <1>3, <2>1, <2>2, SameHistory DEF TxInv, ChargerOrder
  <2> QED BY <1>3, <2>1, <2>3, TxUntouched
<1> QED BY <1>4, <1>5

LEMMA StepKeepsTx == ASSUME TxInv, [Next]_rowsVars PROVE TxInv'
<1>1. CASE Register \/ (\E n \in Conns : Deregister(n)) \/ UNCHANGED rowsVars
  <2>1. UNCHANGED <<tx, ending, sent, handled, lost, starts, ends, dTx, dState, state>> /\ (dirty => dirty')
    BY <1>1 DEF Register, Deregister, SaveState, rowsVars, chargerVars, memoryVars, bufferVars,
       diskVars, historyVars
  <2> QED BY <2>1, SameCharger, TxUntouched
<1>2. CASE Start \/ Update \/ End
  BY <1>2, StartKeeps, UpdateKeeps, EndKeeps
<1>3. CASE Flush
  BY <1>3, TxWritten DEF Flush, chargerVars, memoryVars, historyVars
<1>4. CASE Stop
  BY <1>4, TxWritten DEF Stop, chargerVars, historyVars
<1>5. CASE FlushFails \/ Kill
  BY <1>5, TxDropped DEF FlushFails, Kill, chargerVars, memoryVars, diskVars
<1> QED BY <1>1, <1>2, <1>3, <1>4, <1>5 DEF Next

\* The table of transactions tells which are over and with which energy, for any
\* interleaving of events, losses, flushes, failed flushes, kills and stops
\* (handlers.py on_transaction_event, registry.py record_transaction,
\* persistence.py flush).
THEOREM TransactionRowsAreTrue == Spec => []TransactionRowsTrue
<1>1. Init => TxInv
  <2> SUFFICES ASSUME Init PROVE TxInv
    OBVIOUS
  <2>1. handled = {} /\ starts = {} /\ ends = {} /\ tx = NoTx /\ sent = 0
        /\ state.active = NoTx /\ dState.active = NoTx
        /\ \A t \in TxIds : dTx[t] = NoTxRow
    BY DEF Init, NewState
  <2>2. dTx \in [TxIds -> TxRow] /\ ~NoTxRow.ended
    BY DEF Init, NoTxRow, TxRow, NoNumber
  <2>3. \A u : ~EndHandled(u) /\ ~OpenHandled(u) /\ ~Waiting(u)
    BY <2>1 DEF EndHandled, OpenHandled, Waiting
  <2>4. ChargerOrder
    BY <2>1 DEF ChargerOrder
  <2>5. LiveTx
    BY <2>1, <2>3, NoTxIsNone DEF LiveTx
  <2>6. TableInv
    BY <2>1, <2>2, <2>3 DEF TableInv
  <2> QED BY <2>4, <2>5, <2>6 DEF TxInv
<1>2. TxInv => TransactionRowsTrue
  <2> SUFFICES ASSUME TxInv, NEW t \in TxIds, Kept(t)
               PROVE  LET mine == {e \in handled : e.tx = t} IN
                      /\ dTx[t].ended =>
                           \E e \in mine : /\ e.type = "Ended"
                                           /\ dTx[t].energy = 10 * e.at
                                           /\ \A o \in mine : o.type # "Ended" => o.at <= e.at
                      /\ /\ \E e \in mine : e.type = "Ended"
                         /\ \E e \in mine : e.type # "Ended"
                         /\ TxSettled(t)
                         => dTx[t].row /\ dTx[t].ended
    BY DEF TransactionRowsTrue, Kept
  <2> DEFINE mine == {e \in handled : e.tx = t}
  <2>1. ASSUME dTx[t].ended
        PROVE  \E e \in mine : /\ e.type = "Ended"
                               /\ dTx[t].energy = 10 * e.at
                               /\ \A o \in mine : o.type # "Ended" => o.at <= e.at
    <3>1. PICK e \in handled : e.tx = t /\ e.type = "Ended" /\ dTx[t].energy = 10 * e.at
      BY <2>1 DEF TxInv, TableInv, EndedAt
    <3>2. \A o \in mine : o.type # "Ended" => o.at <= e.at
      BY <3>1 DEF TxInv, ChargerOrder
    <3> QED BY <3>1, <3>2
  <2>2. ASSUME EndHandled(t), OpenHandled(t), TxSettled(t)
        PROVE  dTx[t].row /\ dTx[t].ended
    BY <2>2 DEF TxInv, TableInv, TxSettled, Waiting
  <2> QED BY <2>1, <2>2 DEF EndHandled, OpenHandled
<1> QED BY <1>1, <1>2, StepKeepsTx, PTL DEF Spec
=============================================================================

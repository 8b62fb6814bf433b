------------------------- MODULE Curtailment_proofs -------------------------
(***************************************************************************)
(* Theorems about curtailment, for any fleet, ratings, payloads, commands, *)
(* connections and transactions.                                           *)
(***************************************************************************)
EXTENDS Curtailment, TLAPS

-----------------------------------------------------------------------------
(* What a payload means.                                                   *)

LEMMA FirstType ==
  ASSUME NEW S, NEW list \in Lists(S), HasFirst(list)
  PROVE  First(list) \in S
BY DEF Lists, HasFirst, First

\* parse_charging_profile: what a valid payload asks for is a number of watts
\* from 0 to the rating, and no more than its first period says, in watts or in
\* amperes.
THEOREM WattsMeant ==
  ASSUME NEW p \in Payload, Valid(p), NEW rating \in Nat
  PROVE  /\ Watts(p, rating) \in Nat /\ Watts(p, rating) <= rating
         /\ Means(p, Watts(p, rating))
<1> DEFINE schedule == First(p.schedules)
           period   == First(schedule.periods)
           n        == period.limit.n
           phases   == ToInt(Phases(schedule))
<1>1. schedule \in Schedule /\ ScheduleValid(schedule)
  BY FirstType DEF Payload, Valid
<1>2. period \in Period /\ schedule.periods \in Lists(Period)
  BY <1>1, FirstType DEF Schedule, ScheduleValid
<1>3. n \in Nat /\ period.limit.kind = "number"
  BY <1>1, <1>2 DEF ScheduleValid, Limit, Period, Value
<1>4. phases \in 1..3 BY <1>1 DEF ScheduleValid
<1>5. n * Volts \in Nat BY <1>3, VoltsAssumption DEF VoltsAssumption
<1> HIDE DEF n, phases
<1>6. \A a \in Nat, b \in 1..3 : a * b \in Nat /\ a * b <= a * 3
  <2>1. SUFFICES ASSUME NEW a \in Nat, NEW b \in 1..3 PROVE a * b \in Nat /\ a * b <= a * 3 OBVIOUS
  <2>2. b = 1 \/ b = 2 \/ b = 3 OBVIOUS
  <2> QED BY <2>2
<1>7. n * Volts * phases \in Nat /\ n * Volts * phases <= n * Volts * 3 BY <1>4, <1>5, <1>6
<1>8. Asked(p) = IF schedule.unit = "A" THEN n * Volts * phases ELSE n BY DEF Asked, n, phases
<1>9. Asked(p) \in Nat BY <1>3, <1>7, <1>8
<1>10. Watts(p, rating) \in Nat /\ Watts(p, rating) <= rating /\ Watts(p, rating) <= Asked(p)
  BY <1>9 DEF Watts
<1>11. Means(p, Watts(p, rating))
  <2>1. CASE schedule.unit = "A"
    <3>1. n * Volts * 3 \in Nat BY <1>5
    <3>2. n * Volts * 3 >= Watts(p, rating) BY <1>7, <1>8, <1>9, <1>10, <2>1, <3>1
    <3> QED BY <1>3, <2>1, <3>2 DEF Means, n
  <2>2. CASE schedule.unit # "A"
    <3>1. n >= Watts(p, rating) BY <1>3, <1>8, <1>10, <2>2
    <3> QED BY <1>3, <2>2, <3>1 DEF Means, n
  <2> QED BY <2>1, <2>2
<1> QED BY <1>10, <1>11

LEMMA PlainType == ASSUME NEW w \in Nat PROVE PlainProfile(w) \in Payload
<1> DEFINE period == [limit |-> Number(w), phases |-> NotNumber("absent")]
           schedule == [unit |-> "W", phases |-> NotNumber("absent"), periods |-> Items(<<period>>)]
<1>1. Number(w) \in Value /\ Number(0) \in Value /\ NotNumber("absent") \in Value
  BY DEF Number, NotNumber, Value, Kinds
<1>2. Items(<<period>>) \in Lists(Period) BY <1>1 DEF Items, Lists, Period
<1>3. schedule \in Schedule BY <1>1, <1>2 DEF Schedule, Units
<1>4. Items(<<schedule>>) \in Lists(Schedule) BY <1>3 DEF Items, Lists
<1> QED BY <1>1, <1>4 DEF PlainProfile, Payload, Purposes

-----------------------------------------------------------------------------
(* The inductive invariant.                                                *)

Actions   == {"SetChargingProfile", "ClearChargingProfile", "RequestStopTransaction"}
SendState == {"none"} \cup Waiting \cup Replied \cup Done

\* A command is a profile, the clear, or the stop of a transaction.
IsCommand(m) ==
  \/ m.profile \in Payload /\ m = Profile(m.profile)
  \/ m = Clear
  \/ m.tx \in Nat /\ m = StopTx(m.tx)

TypeOK ==
  /\ given \in 0..MaxCommands
  /\ \A c \in Commands : IsCommand(command[c])
  /\ DOMAIN command = Commands
  /\ opened \in [Stations -> 0..MaxConn]
  /\ session \in [Stations -> 0..MaxConn]
  /\ send \in [Commands -> [Stations -> [st : SendState, conn : 0..MaxConn]]]
  /\ inbox \in [Stations -> Seq(Commands)]
  /\ last \in [Stations -> 0..MaxCommands]
  /\ limit \in [Stations -> Nat]
  /\ \A s \in Stations : limit[s] <= Rating[s]
  /\ tx \in [Stations -> Nat] /\ txs \in [Stations -> Nat]
  /\ stop \in [Stations -> BOOLEAN]

\* What is waiting to be read was written to this connection, is not answered,
\* and stands there once; the last of it is the last that was written.
BoxOf(s) ==
  /\ \A i \in 1..Len(inbox[s]) :
       /\ inbox[s][i] <= given
       /\ send[inbox[s][i]][s].st \in {"sent", "timeout"}
       /\ send[inbox[s][i]][s].conn = opened[s]
  /\ \A i, j \in 1..Len(inbox[s]) : inbox[s][i] = inbox[s][j] => i = j
  /\ inbox[s] # <<>> => inbox[s][Len(inbox[s])] = last[s]

\* Commands not given are nobody's, and what was given is on no newer connection.
SendsOf(s) ==
  /\ session[s] <= opened[s]
  /\ \A c \in Commands : (c > given => send[c][s] = NoSend) /\ send[c][s].conn <= opened[s]

\* A reply, on its way or taken, says that a limit is in force.
Confirms(c, s) ==
  /\ command[c].action # "RequestStopTransaction"
  /\ \/ send[c][s].st \in {"accepted", "success"}
     \/ send[c][s].st = "refused" /\ command[c].action = "ClearChargingProfile"

LimitOf(s) ==
  /\ \A c \in Commands : last[s] = c /\ Confirms(c, s) => limit[s] = Cap(c, s)
  /\ last[s] = 0 => limit[s] = Rating[s]

\* A stop request in force was read from a command that names the transaction.
StopOf(s) ==
  tx[s] # NoTx /\ stop[s] =>
    \E c \in 1..given : /\ command[c] = StopTx(tx[s])
                        /\ send[c][s].st \in {"accepted", "success", "rejected", "timeout"}

PartsOf(s) == BoxOf(s) /\ SendsOf(s) /\ LimitOf(s) /\ StopOf(s)
CurtInv == TypeOK /\ \A s \in Stations : PartsOf(s)

LEMMA CurtInit == Init => CurtInv
<1> SUFFICES ASSUME Init PROVE CurtInv OBVIOUS
<1> USE CurtailmentAssumption DEF CurtailmentAssumption, Init
<1>1. TypeOK
  <2>1. IsCommand(Clear) BY DEF IsCommand
  <2> QED BY <2>1 DEF TypeOK, SendState, NoSend, NoTx
<1>2. ASSUME NEW s \in Stations PROVE PartsOf(s)
  BY <1>2 DEF PartsOf, BoxOf, SendsOf, LimitOf, StopOf, Confirms, NoSend, Clear, NoTx, Commands, Conns
<1> QED BY <1>1, <1>2 DEF CurtInv

-----------------------------------------------------------------------------
(* How the parts are kept, station by station.                             *)

LEMMA BoxKept ==
  ASSUME TypeOK, NEW s \in Stations, BoxOf(s), inbox'[s] = inbox[s], last'[s] = last[s],
         opened'[s] = opened[s], given' \in Nat, given' >= given,
         \A c \in Commands : c <= given /\ send[c][s].st \in {"sent", "timeout"}
                             /\ send[c][s].conn = opened[s] =>
           send'[c][s].st \in {"sent", "timeout"} /\ send'[c][s].conn = send[c][s].conn
  PROVE  BoxOf(s)'
<1>1. inbox[s] \in Seq(Commands) /\ given \in Int /\ \A c \in Commands : c \in Int
  BY CurtailmentAssumption DEF CurtailmentAssumption, TypeOK, Commands
<1>2. \A i \in 1..Len(inbox[s]) : inbox[s][i] \in Commands BY <1>1
<1> QED BY <1>1, <1>2 DEF BoxOf

LEMMA BoxGrows ==
  ASSUME TypeOK, NEW s \in Stations, BoxOf(s), NEW c \in Commands,
         inbox'[s] = Append(inbox[s], c), last'[s] = c, opened'[s] = opened[s],
         given' \in Nat, given' >= given, c <= given', c > given \/ send[c][s].st = "queued",
         send'[c][s].st = "sent", send'[c][s].conn = opened[s],
         \A d \in Commands : d # c => send'[d][s] = send[d][s]
  PROVE  BoxOf(s)'
<1>1. /\ inbox[s] \in Seq(Commands) /\ given \in Int /\ \A d \in Commands : d \in Int
      /\ Len(inbox[s]) \in Nat
  BY CurtailmentAssumption DEF CurtailmentAssumption, TypeOK, Commands
<1>2. \A i \in 1..Len(inbox[s]) : inbox[s][i] \in Commands /\ inbox[s][i] # c
  <2> TAKE i \in 1..Len(inbox[s])
  <2>1. inbox[s][i] \in Commands
    <3>1. PICK q \in Seq(Commands) : q = inbox[s] BY <1>1, Zenon
    <3>2. q[i] \in Commands BY <3>1
    <3> QED BY <3>1, <3>2, Zenon
  <2>2. inbox[s][i] <= given /\ send[inbox[s][i]][s].st \in {"sent", "timeout"} BY DEF BoxOf
  <2>3. CASE send[c][s].st = "queued"
    <3>1. inbox[s][i] = c => send[c][s].st \in {"sent", "timeout"} BY <2>2, Zenon
    <3>2. "queued" \notin {"sent", "timeout"} OBVIOUS
    <3> QED BY <2>1, <2>3, <3>1, <3>2, Zenon
  <2>4. CASE c > given
    <3>1. PICK d \in Commands : d = inbox[s][i] BY <2>1, Zenon
    <3>2. d \in Int /\ c \in Int /\ d <= given BY <1>1, <2>2, <3>1, Zenon
    <3>3. d # c BY <1>1, <2>4, <3>2
    <3> QED BY <2>1, <3>1, <3>3, Zenon
  <2> QED BY <2>1, <2>3, <2>4
<1>3. /\ Len(inbox'[s]) = Len(inbox[s]) + 1 /\ inbox'[s][Len(inbox[s]) + 1] = c
      /\ \A i \in 1..Len(inbox[s]) : inbox'[s][i] = inbox[s][i]
  BY <1>1
<1>4. \A i \in 1..Len(inbox'[s]) : i \in 1..Len(inbox[s]) \/ i = Len(inbox[s]) + 1
  BY <1>1, <1>3
<1>5. ASSUME NEW i \in 1..Len(inbox'[s])
      PROVE  /\ inbox'[s][i] <= given'
             /\ send'[inbox'[s][i]][s].st \in {"sent", "timeout"}
             /\ send'[inbox'[s][i]][s].conn = opened'[s]
  <2>1. CASE i \in 1..Len(inbox[s])
    <3>1. inbox'[s][i] \in Commands /\ inbox'[s][i] # c /\ inbox'[s][i] = inbox[s][i]
      BY <1>2, <1>3, <2>1
    <3>2. /\ inbox[s][i] <= given /\ send[inbox[s][i]][s].st \in {"sent", "timeout"}
          /\ send[inbox[s][i]][s].conn = opened[s]
      BY <2>1 DEF BoxOf
    <3>3. send'[inbox'[s][i]][s] = send[inbox[s][i]][s] BY <3>1
    <3>4. inbox[s][i] \in Int BY <1>1, <3>1
    <3> QED BY <1>1, <3>1, <3>2, <3>3, <3>4
  <2>2. CASE i = Len(inbox[s]) + 1 BY <1>3, <2>2
  <2> QED BY <1>4, <2>1, <2>2
<1>6. \A i, j \in 1..Len(inbox'[s]) : inbox'[s][i] = inbox'[s][j] => i = j
  <2> DEFINE old == 1..Len(inbox[s])
             new == Len(inbox[s]) + 1
  <2>1. \A i, j \in old : inbox[s][i] = inbox[s][j] => i = j BY DEF BoxOf
  <2>2. /\ \A i \in old : inbox'[s][i] = inbox[s][i] /\ inbox[s][i] # c
        /\ inbox'[s][new] = c
    BY <1>2, <1>3
  <2>3. \A i \in 1..Len(inbox'[s]) : i \in old \/ i = new BY <1>4
  <2> HIDE DEF old, new
  <2>4. ASSUME NEW i \in 1..Len(inbox'[s]), NEW j \in 1..Len(inbox'[s]),
               inbox'[s][i] = inbox'[s][j]
        PROVE  i = j
    <3>1. CASE i \in old /\ j \in old BY <2>1, <2>2, <2>4, <3>1, Zenon
    <3>2. CASE i \in old /\ j = new BY <2>2, <2>4, <3>2, Zenon
    <3>3. CASE i = new /\ j \in old BY <2>2, <2>4, <3>3, Zenon
    <3>4. CASE i = new /\ j = new BY <3>4, Zenon
    <3> QED BY <2>3, <3>1, <3>2, <3>3, <3>4, Zenon
  <2> QED BY <2>4, Zenon
<1> QED BY <1>3, <1>5, <1>6 DEF BoxOf

LEMMA LimitKept ==
  ASSUME NEW s \in Stations, LimitOf(s), limit'[s] = limit[s], last'[s] = last[s],
         \A c \in Commands :
           Confirms(c, s)' => Confirms(c, s) /\ command'[c] = command[c]
  PROVE  LimitOf(s)'
BY DEF LimitOf, Cap

LEMMA StopKept ==
  ASSUME NEW s \in Stations, StopOf(s), tx'[s] = tx[s], stop'[s] = stop[s],
         given \in Nat, given' \in Nat, given' >= given,
         \A c \in 1..given :
           /\ command'[c] = command[c]
           /\ send[c][s].st \in {"accepted", "success", "rejected", "timeout"} =>
                send'[c][s].st \in {"accepted", "success", "rejected", "timeout"}
  PROVE  StopOf(s)'
<1>1. \A c \in 1..given : c \in 1..given' OBVIOUS
<1> QED BY <1>1 DEF StopOf

-----------------------------------------------------------------------------
(* The operator gives a command.                                           *)

LEMMA GiveKeeps ==
  ASSUME CurtInv, NEW m, IsCommand(m), NEW T \in SUBSET Stations, Give(m, T)
  PROVE  CurtInv'
<1> DEFINE c == given + 1
<1> USE DEF CurtInv
<1>1. /\ given \in Nat /\ c \in Commands /\ given' = c /\ given' \in 0..MaxCommands
      /\ \A d \in Commands : d \in Nat /\ (d <= given => d # c)
  BY CurtailmentAssumption DEF CurtailmentAssumption, Give, TypeOK, Commands
<1>2. /\ DOMAIN command' = Commands /\ command'[c] = m
      /\ \A d \in Commands : d # c => command'[d] = command[d]
  BY <1>1 DEF Give, TypeOK
<1>3. \A s \in Stations :
        /\ NewSend(s) \in [st : {"failure", "queued", "sent"}, conn : 0..MaxConn]
        /\ NewSend(s).conn = session[s]
  BY CurtailmentAssumption DEF CurtailmentAssumption, NewSend, TypeOK
<1>4. /\ DOMAIN send' = Commands
      /\ send'[c] = [s \in Stations |-> IF s \in T THEN NewSend(s) ELSE NoSend]
      /\ \A d \in Commands : d # c => send'[d] = send[d]
  BY <1>1 DEF Give, TypeOK
<1>5. \A s \in Stations :
        \/ inbox'[s] = inbox[s] /\ last'[s] = last[s]
        \/ /\ inbox'[s] = Append(inbox[s], c) /\ last'[s] = c
           /\ send'[c][s].st = "sent" /\ send'[c][s].conn = opened[s]
  BY <1>3, <1>4 DEF Give, Written, Latest
<1>6. UNCHANGED <<opened, session, limit, tx, txs, stop>>
  BY DEF Give, linkVars, chargerVars
<1>7. TypeOK'
  <2>1. \A d \in Commands : IsCommand(command'[d]) BY <1>2 DEF TypeOK
  <2>2. send' \in [Commands -> [Stations -> [st : SendState, conn : 0..MaxConn]]]
    <3>1. NoSend \in [st : SendState, conn : 0..MaxConn]
      BY CurtailmentAssumption DEF CurtailmentAssumption, NoSend, SendState
    <3>2. \A s \in Stations : NewSend(s) \in [st : SendState, conn : 0..MaxConn]
      BY <1>3 DEF SendState, Waiting, Done
    <3>3. send'[c] \in [Stations -> [st : SendState, conn : 0..MaxConn]] BY <1>4, <3>1, <3>2
    <3>4. \A d \in Commands : send'[d] \in [Stations -> [st : SendState, conn : 0..MaxConn]]
      BY <1>4, <3>3 DEF TypeOK
    <3>5. send' = [d \in Commands |-> send'[d]] BY <1>4 DEF Give
    <3> QED BY <3>4, <3>5
  <2>3. inbox' \in [Stations -> Seq(Commands)] /\ last' \in [Stations -> 0..MaxCommands]
    <3>1. ASSUME NEW s \in Stations
          PROVE  inbox'[s] \in Seq(Commands) /\ last'[s] \in 0..MaxCommands
      <4>1. inbox[s] \in Seq(Commands) /\ last[s] \in 0..MaxCommands /\ c \in 0..MaxCommands
        BY <1>1 DEF TypeOK
      <4>2. Append(inbox[s], c) \in Seq(Commands) BY <1>1, <4>1
      <4> QED BY <1>5, <4>1, <4>2
    <3>2. inbox' = [s \in Stations |-> inbox'[s]] /\ last' = [s \in Stations |-> last'[s]]
      BY DEF Give
    <3> QED BY <3>1, <3>2
  <2> QED BY <1>1, <1>2, <1>6, <2>1, <2>2, <2>3 DEF TypeOK
<1>8. ASSUME NEW s \in Stations PROVE PartsOf(s)'
  <2> USE DEF PartsOf
  <2>1. send'[c][s].st \in {"none", "failure", "queued", "sent"} /\ send[c][s] = NoSend
    BY <1>1, <1>3, <1>4 DEF NoSend, SendsOf
  <2>2. BoxOf(s)'
    <3>1. CASE inbox'[s] = inbox[s] /\ last'[s] = last[s]
      BY <1>1, <1>4, <1>6, <3>1, BoxKept
    <3>2. CASE /\ inbox'[s] = Append(inbox[s], c) /\ last'[s] = c
               /\ send'[c][s].st = "sent" /\ send'[c][s].conn = opened[s]
      BY <1>1, <1>4, <1>6, <3>2, BoxGrows
    <3> QED BY <1>5, <3>1, <3>2
  <2>3. SendsOf(s)'
    <3>1. send'[c][s].conn <= opened[s]
      <4>1. session[s] <= opened[s] /\ 0 <= opened[s] BY DEF SendsOf, TypeOK
      <4> QED BY <1>3, <1>4, <4>1 DEF NoSend
    <3>2. \A d \in Commands : d > c => d > given /\ d # c BY <1>1
    <3> QED BY <1>1, <1>4, <1>6, <3>1, <3>2 DEF SendsOf
  <2>4. \A d \in Commands : Confirms(d, s)' => d # c /\ Confirms(d, s) /\ command'[d] = command[d]
    BY <1>2, <1>4, <2>1 DEF Confirms
  <2>5. LimitOf(s)'
    <3>1. CASE last'[s] = last[s] BY <1>6, <2>4, <3>1, LimitKept
    <3>2. CASE last'[s] = c BY <1>1, <2>4, <3>2 DEF LimitOf
    <3> QED BY <1>5, <3>1, <3>2
  <2>6. StopOf(s)'
    <3>1. \A d \in 1..given : d \in Commands /\ d # c
      BY <1>1, CurtailmentAssumption DEF CurtailmentAssumption, Commands
    <3> QED BY <1>1, <1>2, <1>4, <1>6, <3>1, StopKept
  <2> QED BY <2>2, <2>3, <2>5, <2>6
<1> QED BY <1>7, <1>8

-----------------------------------------------------------------------------
(* The awaits and the connections.                                         *)

SendType == [Commands -> [Stations -> [st : SendState, conn : 0..MaxConn]]]

\* One await alone changes, to v, and what that says of send'.
Marks(c, s, v)  == send' = [send EXCEPT ![c][s].st = v]
Marked(c, s, v) ==
  /\ send' \in SendType
  /\ send'[c][s].st = v /\ send'[c][s].conn = send[c][s].conn
  /\ \A d \in Commands, t \in Stations : d # c \/ t # s => send'[d][t] = send[d][t]

LEMMA SendChanges ==
  ASSUME TypeOK, NEW c \in Commands, NEW s \in Stations, NEW v \in SendState, Marks(c, s, v)
  PROVE  Marked(c, s, v)
<1>1. /\ send \in SendType /\ send[c] \in [Stations -> [st : SendState, conn : 0..MaxConn]]
      /\ send[c][s] \in [st : SendState, conn : 0..MaxConn]
  BY DEF TypeOK, SendType
<1> DEFINE new  == [send[c][s] EXCEPT !.st = v]
           line == [send[c] EXCEPT ![s] = new]
<1>2. /\ new \in [st : SendState, conn : 0..MaxConn] /\ new.st = v /\ new.conn = send[c][s].conn
  BY <1>1
<1>3. /\ line \in [Stations -> [st : SendState, conn : 0..MaxConn]]
      /\ line[s] = new /\ \A t \in Stations : t # s => line[t] = send[c][t]
  BY <1>1, <1>2
<1>4. send' = [send EXCEPT ![c] = line] BY DEF Marks
<1> HIDE DEF line
<1>5. send' \in SendType BY <1>1, <1>3, <1>4 DEF SendType
<1>6. send'[c] = line /\ \A d \in Commands : d # c => send'[d] = send[d]
  BY <1>1, <1>4 DEF SendType
<1> QED BY <1>2, <1>3, <1>5, <1>6 DEF Marked

\* Commands are numbers, and those given are commands.
LEMMA Numbers ==
  ASSUME TypeOK
  PROVE  /\ given \in Nat /\ given >= given /\ \A c \in Commands : c \in Nat
         /\ \A c \in 1..given : c \in Commands
BY CurtailmentAssumption DEF CurtailmentAssumption, Commands, TypeOK

\* A step that leaves station t alone.
LEMMA Elsewhere ==
  ASSUME TypeOK, NEW t \in Stations, PartsOf(t), UNCHANGED <<given, command>>,
         opened'[t] = opened[t], session'[t] = session[t], inbox'[t] = inbox[t],
         last'[t] = last[t], limit'[t] = limit[t], tx'[t] = tx[t], stop'[t] = stop[t],
         \A c \in Commands : send'[c][t] = send[c][t]
  PROVE  PartsOf(t)'
<1>1. given \in Nat /\ given >= given /\ \A c \in 1..given : c \in Commands BY Numbers
<1>2. BoxOf(t)' BY <1>1, BoxKept DEF PartsOf
<1>3. SendsOf(t)' BY DEF PartsOf, SendsOf
<1>4. LimitOf(t)' BY LimitKept DEF PartsOf, Confirms
<1>5. StopOf(t)' BY <1>1, StopKept DEF PartsOf
<1> QED BY <1>2, <1>3, <1>4, <1>5 DEF PartsOf

LEMMA AcquireKeeps ==
  ASSUME CurtInv, NEW c \in Commands, NEW s \in Stations, Acquire(c, s)
  PROVE  CurtInv'
<1> USE DEF CurtInv, PartsOf
<1>1. /\ send[c][s].st = "queued" /\ send' = [send EXCEPT ![c][s].st = "sent"]
      /\ UNCHANGED <<opened, session, given, command, limit, tx, txs, stop>>
      /\ inbox' = [inbox EXCEPT ![s] = Written(@, s, c, send[c][s].conn)]
      /\ last' = [last EXCEPT ![s] = Latest(@, s, c, send[c][s].conn)]
  BY DEF Acquire, linkVars, serverVars, chargerVars
<1>2. /\ send' \in SendType
      /\ send'[c][s].st = "sent" /\ send'[c][s].conn = send[c][s].conn
      /\ \A d \in Commands, t \in Stations : d # c \/ t # s => send'[d][t] = send[d][t]
  <2>1. "sent" \in SendState BY DEF SendState, Waiting
  <2>2. TypeOK /\ Marks(c, s, "sent") BY <1>1 DEF Marks
  <2>3. Marked(c, s, "sent") BY <2>1, <2>2, SendChanges
  <2> QED BY <2>3 DEF Marked
<1>3. \/ inbox'[s] = inbox[s] /\ last'[s] = last[s]
      \/ inbox'[s] = Append(inbox[s], c) /\ last'[s] = c /\ send[c][s].conn = opened[s]
  BY <1>1 DEF Written, Latest, TypeOK
<1>4. c <= given
  <2>1. send[c][s] # NoSend BY <1>1 DEF NoSend
  <2> QED BY <2>1, Numbers DEF SendsOf
<1>5. TypeOK'
  <2>1. Append(inbox[s], c) \in Seq(Commands) /\ c \in 0..MaxCommands /\ last[s] \in 0..MaxCommands
    BY CurtailmentAssumption DEF CurtailmentAssumption, Commands, TypeOK
  <2>2. Written(inbox[s], s, c, send[c][s].conn) \in Seq(Commands)
        /\ Latest(last[s], s, c, send[c][s].conn) \in 0..MaxCommands
    BY <2>1 DEF Written, Latest, TypeOK
  <2>3. inbox' \in [Stations -> Seq(Commands)] /\ last' \in [Stations -> 0..MaxCommands]
    BY <1>1, <2>2 DEF TypeOK
  <2> QED BY <1>1, <1>2, <2>3 DEF TypeOK, SendType
<1>6. BoxOf(s)'
  <2>1. CASE inbox'[s] = inbox[s] /\ last'[s] = last[s]
    <3>1. \A d \in Commands : send[d][s].st \in {"sent", "timeout"} => send'[d][s] = send[d][s]
      BY <1>1, <1>2
    <3> QED BY <1>1, <2>1, <3>1, Numbers, BoxKept
  <2>2. CASE inbox'[s] = Append(inbox[s], c) /\ last'[s] = c /\ send[c][s].conn = opened[s]
    BY <1>1, <1>2, <1>4, <2>2, Numbers, BoxGrows
  <2> QED BY <1>3, <2>1, <2>2
<1>7. SendsOf(s)' BY <1>1, <1>2, <1>4 DEF SendsOf, Commands, TypeOK
<1>8. LimitOf(s)'
  <2>1. \A d \in Commands : Confirms(d, s)' => d # c /\ Confirms(d, s) BY <1>1, <1>2 DEF Confirms
  <2>2. CASE last'[s] = last[s] BY <1>1, <2>1, <2>2, LimitKept
  <2>3. CASE last'[s] = c BY <2>1, <2>3, CurtailmentAssumption DEF LimitOf, Commands
  <2> QED BY <1>3, <2>2, <2>3
<1>9. StopOf(s)'
  <2>1. \A d \in 1..given :
          send[d][s].st \in {"accepted", "success", "rejected", "timeout"} => send'[d][s] = send[d][s]
    BY <1>1, <1>2, Numbers
  <2> QED BY <1>1, <2>1, Numbers, StopKept
<1>10. \A t \in Stations \ {s} : PartsOf(t)' BY <1>1, <1>2, Elsewhere DEF TypeOK
<1> QED BY <1>5, <1>6, <1>7, <1>8, <1>9, <1>10

\* An await ends: by its reply, or by the timer.
LEMMA EndsKeep ==
  ASSUME CurtInv, NEW c \in Commands, NEW s \in Stations, Return(c, s) \/ GiveUp(c, s)
  PROVE  CurtInv'
<1> USE DEF CurtInv, PartsOf
<1>1. PICK verdict \in {"success", "rejected", "timeout"} :
        /\ send' = [send EXCEPT ![c][s].st = verdict] /\ send[c][s].st \notin {"none", "timeout"}
        /\ send[c][s].st \in Waiting \cup Replied
        /\ verdict # "timeout" => verdict = Outcome(c, send[c][s].st) /\ send[c][s].st \in Replied
  BY DEF Return, GiveUp, Outcome, Waiting, Replied
<1>2. UNCHANGED <<opened, session, given, command, inbox, last, limit, tx, txs, stop>>
  BY DEF Return, GiveUp, linkVars, serverVars, chargerVars
<1>3. /\ send' \in SendType
      /\ send'[c][s].st = verdict /\ send'[c][s].conn = send[c][s].conn
      /\ \A d \in Commands, t \in Stations : d # c \/ t # s => send'[d][t] = send[d][t]
  <2>1. verdict \in SendState BY DEF SendState, Done
  <2>2. TypeOK /\ Marks(c, s, verdict) BY <1>1 DEF Marks
  <2>3. Marked(c, s, verdict) BY <2>1, <2>2, SendChanges
  <2> QED BY <2>3 DEF Marked
<1>4. TypeOK' BY <1>2, <1>3 DEF TypeOK, SendType
<1>5. BoxOf(s)'
  <2>1. \A d \in Commands :
          send[d][s].st \in {"sent", "timeout"} =>
            /\ send'[d][s].st \in {"sent", "timeout"}
            /\ send'[d][s].conn = send[d][s].conn
    BY <1>1, <1>3 DEF Replied, Waiting
  <2> QED BY <1>2, <2>1, Numbers, BoxKept
<1>6. SendsOf(s)' BY <1>1, <1>2, <1>3 DEF SendsOf, NoSend, Waiting, Replied
<1>7. LimitOf(s)'
  <2>1. Confirms(c, s)' => Confirms(c, s) BY <1>1, <1>2, <1>3 DEF Confirms, Outcome, Replied
  <2>2. \A d \in Commands : Confirms(d, s)' => Confirms(d, s)
    BY <1>2, <1>3, <2>1 DEF Confirms
  <2> QED BY <1>2, <2>2, LimitKept
<1>8. StopOf(s)'
  <2>1. \A d \in 1..given :
          send[d][s].st \in {"accepted", "success", "rejected", "timeout"} =>
            send'[d][s].st \in {"accepted", "success", "rejected", "timeout"}
    BY <1>3, Numbers
  <2> QED BY <1>2, <2>1, Numbers, StopKept
<1>9. \A t \in Stations \ {s} : PartsOf(t)' BY <1>2, <1>3, Elsewhere
<1> QED BY <1>4, <1>5, <1>6, <1>7, <1>8, <1>9

LEMMA CloseKeeps ==
  ASSUME CurtInv, NEW s \in Stations, NEW n \in Conns, CloseSocket(s, n)
  PROVE  CurtInv'
<1> USE DEF CurtInv, PartsOf
<1>1. /\ UNCHANGED <<opened, given, command, last, limit, tx, txs, stop>>
      /\ session' = [session EXCEPT ![s] = IF @ = n THEN 0 ELSE @]
      /\ inbox' = [inbox EXCEPT ![s] = IF n = opened[s] THEN <<>> ELSE @]
      /\ send' = [c \in Commands |-> IF send[c][s].conn = n /\ send[c][s].st \in Waiting
                                     THEN [send[c] EXCEPT ![s].st = "failure"] ELSE send[c]]
  BY DEF CloseSocket, serverVars, chargerVars
<1>2. /\ send' \in SendType
      /\ \A c \in Commands, t \in Stations \ {s} : send'[c][t] = send[c][t]
      /\ \A c \in Commands :
           \/ send'[c][s] = send[c][s]
           \/ /\ send[c][s].conn = n /\ send[c][s].st \in Waiting
              /\ send'[c][s].st = "failure" /\ send'[c][s].conn = n
  <2>1. ASSUME NEW c \in Commands
        PROVE  /\ send'[c] \in [Stations -> [st : SendState, conn : 0..MaxConn]]
               /\ \A t \in Stations \ {s} : send'[c][t] = send[c][t]
               /\ \/ send'[c][s] = send[c][s]
                  \/ /\ send[c][s].conn = n /\ send[c][s].st \in Waiting
                     /\ send'[c][s].st = "failure" /\ send'[c][s].conn = n
    <3>1. /\ send[c] \in [Stations -> [st : SendState, conn : 0..MaxConn]]
          /\ send[c][s] \in [st : SendState, conn : 0..MaxConn]
      BY DEF TypeOK
    <3>2. CASE send[c][s].conn = n /\ send[c][s].st \in Waiting
      <4> DEFINE new == [send[c][s] EXCEPT !.st = "failure"]
      <4>1. new \in [st : SendState, conn : 0..MaxConn] /\ new.st = "failure" /\ new.conn = n
        BY <3>1, <3>2 DEF SendState, Done
      <4>2. send'[c] = [send[c] EXCEPT ![s] = new] BY <1>1, <3>2
      <4> HIDE DEF new
      <4> QED BY <3>1, <3>2, <4>1, <4>2
    <3>3. CASE ~(send[c][s].conn = n /\ send[c][s].st \in Waiting)
      <4>1. send'[c] = send[c] BY <1>1, <3>3
      <4> QED BY <3>1, <4>1
    <3> QED BY <3>2, <3>3
  <2>2. send' = [c \in Commands |-> send'[c]] BY <1>1
  <2> QED BY <2>1, <2>2 DEF SendType
<1>3. /\ session'[s] \in {0, session[s]}
      /\ \A t \in Stations \ {s} : session'[t] = session[t]
      /\ session' \in [Stations -> 0..MaxConn]
  BY <1>1, CurtailmentAssumption DEF CurtailmentAssumption, TypeOK
<1>4. /\ inbox' \in [Stations -> Seq(Commands)]
      /\ \A t \in Stations \ {s} : inbox'[t] = inbox[t]
      /\ n = opened[s] => inbox'[s] = <<>>
      /\ n # opened[s] => inbox'[s] = inbox[s]
  BY <1>1 DEF TypeOK
<1>5. TypeOK' BY <1>1, <1>2, <1>3, <1>4 DEF TypeOK, SendType
<1>6. BoxOf(s)'
  <2>1. CASE n = opened[s]
    <3>1. inbox'[s] = <<>> BY <1>4, <2>1
    <3> QED BY <3>1 DEF BoxOf
  <2>2. CASE n # opened[s]
    <3>1. inbox'[s] = inbox[s] BY <1>4, <2>2
    <3>2. \A c \in Commands : send[c][s].conn = opened[s] => send'[c][s] = send[c][s]
      BY <1>2, <2>2
    <3>3. given \in Nat /\ given' \in Nat /\ given' >= given BY <1>1 DEF TypeOK
    <3> QED BY <1>1, <3>1, <3>2, <3>3, BoxKept
  <2> QED BY <2>1, <2>2
<1>7. SendsOf(s)'
  BY <1>1, <1>2, <1>3 DEF SendsOf, NoSend, Waiting, TypeOK
<1>8. LimitOf(s)'
  <2>1. \A c \in Commands : Confirms(c, s)' => Confirms(c, s) BY <1>1, <1>2 DEF Confirms
  <2> QED BY <1>1, <2>1, LimitKept
<1>9. StopOf(s)'
  <2>1. \A c \in 1..given :
          send[c][s].st \in {"accepted", "success", "rejected", "timeout"} => send'[c][s] = send[c][s]
    BY <1>2, Numbers DEF Waiting
  <2> QED BY <1>1, <2>1, Numbers, StopKept
<1>10. \A t \in Stations \ {s} : PartsOf(t)' BY <1>1, <1>2, <1>3, <1>4, Elsewhere
<1> QED BY <1>5, <1>6, <1>7, <1>8, <1>9, <1>10

LEMMA DialKeeps == ASSUME CurtInv, NEW s \in Stations, Dial(s) PROVE CurtInv'
<1> USE DEF CurtInv, PartsOf
<1>1. /\ UNCHANGED <<given, command, send, last, limit, tx, txs, stop>>
      /\ opened[s] < MaxConn /\ opened' = [opened EXCEPT ![s] = opened[s] + 1]
      /\ session' = [session EXCEPT ![s] = opened[s] + 1]
      /\ inbox' = [inbox EXCEPT ![s] = <<>>]
  BY DEF Dial, serverVars, chargerVars
<1>2. /\ opened[s] + 1 \in 0..MaxConn /\ opened'[s] = opened[s] + 1 /\ session'[s] = opened[s] + 1
      /\ inbox'[s] = <<>>
      /\ \A t \in Stations \ {s} : opened'[t] = opened[t] /\ session'[t] = session[t]
                                   /\ inbox'[t] = inbox[t]
  BY <1>1, CurtailmentAssumption DEF CurtailmentAssumption, TypeOK
<1>3. TypeOK'
  <2>1. TypeOK OBVIOUS
  <2>2. opened' \in [Stations -> 0..MaxConn] /\ session' \in [Stations -> 0..MaxConn]
    BY <1>1, <1>2 DEF TypeOK
  <2>3. inbox' \in [Stations -> Seq(Commands)]
    <3>1. <<>> \in Seq(Commands) OBVIOUS
    <3> QED BY <1>1, <2>1, <3>1, Zenon DEF TypeOK
  <2> QED BY <1>1, <2>1, <2>2, <2>3 DEF TypeOK
<1>4. BoxOf(s)'
  <2>1. Len(inbox'[s]) = 0 BY <1>2
  <2>2. 1..Len(inbox'[s]) = {} BY <2>1
  <2> QED BY <1>2, <2>2, Zenon DEF BoxOf
<1>5. SendsOf(s)'
  <2>1. \A c \in Commands : send[c][s].conn \in Int BY DEF TypeOK
  <2> QED BY <1>1, <1>2, <2>1 DEF SendsOf, TypeOK
<1>6. LimitOf(s)' BY <1>1, LimitKept DEF Confirms
<1>7. StopOf(s)' BY <1>1, StopKept DEF TypeOK
<1>8. \A t \in Stations \ {s} : PartsOf(t)' BY <1>1, <1>2, Elsewhere
<1> QED BY <1>3, <1>4, <1>5, <1>6, <1>7, <1>8

-----------------------------------------------------------------------------
(* The charger.                                                            *)

\* A session begins or goes on.
LEMMA SessionKeeps ==
  ASSUME CurtInv, NEW s \in Stations,
         StartTransaction(s) \/ EndTransaction(s) \/ FinishSession(s)
  PROVE  CurtInv'
<1> USE DEF CurtInv, PartsOf
<1>1. UNCHANGED <<opened, session, given, command, send, inbox, last, limit>>
  BY DEF StartTransaction, EndTransaction, FinishSession, linkVars, serverVars, callVars
<1>2. /\ tx' \in [Stations -> Nat] /\ txs' \in [Stations -> Nat] /\ stop' \in [Stations -> BOOLEAN]
      /\ \/ tx'[s] = tx[s] /\ stop'[s] = stop[s]
         \/ tx'[s] = NoTx \/ stop'[s] = FALSE
      /\ \A t \in Stations \ {s} : tx'[t] = tx[t] /\ stop'[t] = stop[t]
  <2>1. CASE StartTransaction(s) BY <2>1 DEF StartTransaction, TypeOK
  <2>2. CASE EndTransaction(s) BY <2>2 DEF EndTransaction, TypeOK
  <2>3. CASE FinishSession(s) BY <2>3 DEF FinishSession, TypeOK, NoTx
  <2> QED BY <2>1, <2>2, <2>3
<1>3. TypeOK' BY <1>1, <1>2 DEF TypeOK
<1>4. BoxOf(s)' BY <1>1, Numbers, BoxKept
<1>5. SendsOf(s)' BY <1>1 DEF SendsOf
<1>6. LimitOf(s)' BY <1>1, LimitKept DEF Confirms
<1>7. StopOf(s)'
  <2>1. CASE tx'[s] = tx[s] /\ stop'[s] = stop[s] BY <1>1, <2>1, Numbers, StopKept
  <2>2. CASE tx'[s] = NoTx \/ stop'[s] = FALSE BY <2>2 DEF StopOf
  <2> QED BY <1>2, <2>1, <2>2
<1>8. \A t \in Stations \ {s} : PartsOf(t)' BY <1>1, <1>2, Elsewhere
<1> QED BY <1>3, <1>4, <1>5, <1>6, <1>7, <1>8

\* What a command that is obeyed does to the limit, and one that is refused not.
LEMMA ReadLimit ==
  ASSUME TypeOK, NEW s \in Stations, NEW c \in Commands,
         IF Obeyed(s, command[c]) THEN Obey(s, command[c]) ELSE UNCHANGED chargerVars
  PROVE  /\ limit' \in [Stations -> Nat] /\ limit'[s] <= Rating[s]
         /\ \A t \in Stations \ {s} : limit'[t] = limit[t]
         /\ UNCHANGED tx /\ UNCHANGED txs
         /\ stop' \in [Stations -> BOOLEAN] /\ \A t \in Stations \ {s} : stop'[t] = stop[t]
         /\ \/ stop'[s] = stop[s]
            \/ command[c] = StopTx(tx[s])
         /\ command[c].action # "RequestStopTransaction" /\ Obeyed(s, command[c]) =>
              limit'[s] = Cap(c, s)
         /\ command[c].action = "ClearChargingProfile" => limit'[s] = Cap(c, s)
         /\ limit'[s] > limit[s] =>
              \/ command[c].action = "ClearChargingProfile"
              \/ /\ command[c].action = "SetChargingProfile"
                 /\ Means(command[c].profile, limit'[s])
<1>1. /\ limit \in [Stations -> Nat] /\ limit[s] \in Nat /\ Rating[s] \in Nat /\ limit[s] <= Rating[s]
      /\ stop \in [Stations -> BOOLEAN]
  BY CurtailmentAssumption DEF CurtailmentAssumption, TypeOK
<1>2. IsCommand(command[c]) BY DEF TypeOK
<1>3. CASE command[c].profile \in Payload /\ command[c] = Profile(command[c].profile)
  <2>1. command[c].action = "SetChargingProfile" BY <1>3 DEF Profile
  <2>2. CASE Valid(command[c].profile)
    <3> DEFINE w == Watts(command[c].profile, Rating[s])
    <3>1. w \in Nat /\ w <= Rating[s] /\ Means(command[c].profile, w)
      BY <1>1, <1>3, <2>2, WattsMeant
    <3>2. limit' = [limit EXCEPT ![s] = w] /\ UNCHANGED <<tx, txs, stop>> /\ Cap(c, s) = w
      BY <2>1, <2>2 DEF Obeyed, Obey, SetProfile, Limited, Cap
    <3> HIDE DEF w
    <3> QED BY <1>1, <2>1, <3>1, <3>2
  <2>3. CASE ~Valid(command[c].profile)
    <3>1. UNCHANGED <<limit, tx, txs, stop>> /\ ~Obeyed(s, command[c])
      BY <2>1, <2>3 DEF Obeyed, chargerVars
    <3> QED BY <1>1, <2>1, <3>1
  <2> QED BY <2>2, <2>3
<1>4. CASE command[c] = Clear
  <2>1. command[c].action = "ClearChargingProfile" BY <1>4 DEF Clear
  <2>2. Cap(c, s) = Rating[s] BY <2>1 DEF Cap
  <2>3. CASE limit[s] < Rating[s]
    <3>1. limit' = [limit EXCEPT ![s] = Rating[s]] /\ UNCHANGED <<tx, txs, stop>>
      BY <2>1, <2>3 DEF Obeyed, ClearObeyed, Obey, ClearProfile, Limited
    <3> QED BY <1>1, <2>1, <2>2, <3>1
  <2>4. CASE ~(limit[s] < Rating[s])
    <3>1. UNCHANGED <<limit, tx, txs, stop>> BY <2>1, <2>4 DEF Obeyed, ClearObeyed, chargerVars
    <3> QED BY <1>1, <2>1, <2>2, <2>4, <3>1
  <2> QED BY <2>3, <2>4
<1>5. CASE command[c].tx \in Nat /\ command[c] = StopTx(command[c].tx)
  <2>1. command[c].action = "RequestStopTransaction" BY <1>5 DEF StopTx
  <2>2. CASE StopObeyed(s, command[c].tx)
    <3>1. command[c] = StopTx(tx[s]) BY <1>5, <2>2 DEF StopObeyed
    <3>2. stop' = [stop EXCEPT ![s] = TRUE] /\ UNCHANGED <<limit, tx, txs>>
      BY <2>1, <2>2 DEF Obeyed, Obey, RequestStop
    <3> QED BY <1>1, <2>1, <3>1, <3>2
  <2>3. CASE ~StopObeyed(s, command[c].tx)
    <3>1. UNCHANGED <<limit, tx, txs, stop>> BY <2>1, <2>3 DEF Obeyed, chargerVars
    <3> QED BY <1>1, <2>1, <3>1
  <2> QED BY <2>2, <2>3
<1> QED BY <1>2, <1>3, <1>4, <1>5 DEF IsCommand

\* The charger reads the next command, and answers if its request is waited for.
LEMMA ReadKeeps == ASSUME CurtInv, NEW s \in Stations, Read(s) PROVE CurtInv'
<1> USE DEF CurtInv, PartsOf
<1> DEFINE c == inbox[s][1]
<1>1. /\ UNCHANGED <<opened, session, given, command, last>>
      /\ inbox[s] # <<>> /\ inbox' = [inbox EXCEPT ![s] = Tail(inbox[s])]
      /\ IF Obeyed(s, command[c]) THEN Obey(s, command[c]) ELSE UNCHANGED chargerVars
  BY DEF Read, linkVars, serverVars
<1>2. /\ inbox[s] \in Seq(Commands) /\ Len(inbox[s]) \in Nat /\ 1 \in 1..Len(inbox[s])
      /\ c \in Commands /\ Tail(inbox[s]) \in Seq(Commands)
  BY <1>1 DEF TypeOK
<1>3. /\ c <= given /\ send[c][s].st \in {"sent", "timeout"} /\ send[c][s].conn = opened[s]
      /\ send[c][s] \in [st : SendState, conn : 0..MaxConn]
  BY <1>2 DEF BoxOf, TypeOK
<1>4. /\ inbox' \in [Stations -> Seq(Commands)] /\ inbox'[s] = Tail(inbox[s])
      /\ \A t \in Stations \ {s} : inbox'[t] = inbox[t]
      /\ Len(inbox'[s]) = Len(inbox[s]) - 1
      /\ \A i \in 1..Len(inbox'[s]) : inbox'[s][i] = inbox[s][i + 1] /\ i + 1 \in 1..Len(inbox[s])
  BY <1>1, <1>2 DEF TypeOK
<1> DEFINE answer == IF Obeyed(s, command[c]) THEN "accepted" ELSE "refused"
<1>5. /\ send' \in SendType
      /\ \A d \in Commands, t \in Stations : d # c \/ t # s => send'[d][t] = send[d][t]
      /\ send'[c][s] = IF send[c][s].st = "sent"
                       THEN [st |-> answer, conn |-> opened[s]] ELSE send[c][s]
  <2>1. CASE send[c][s].st = "sent"
    <3>1. send[c][s] = [st |-> "sent", conn |-> opened[s]] BY <1>3, <2>1
    <3>2. Head(inbox[s]) = c BY <1>1, <1>2
    <3>. HIDE DEF c
    <3>3. TypeOK /\ Marks(c, s, answer) BY <3>1, <3>2 DEF Read, Marks
    <3>4. answer \in SendState BY DEF SendState, Replied
    <3> HIDE DEF answer
    <3>5. Marked(c, s, answer) BY <1>2, <3>3, <3>4, SendChanges
    <3>6. send'[c][s] \in [st : SendState, conn : 0..MaxConn]
      BY <1>2, <3>5 DEF Marked, SendType
    <3> QED BY <1>3, <2>1, <3>1, <3>5, <3>6 DEF Marked
  <2>2. CASE send[c][s].st # "sent"
    <3>1. send' = send BY <2>2 DEF Read
    <3> QED BY <2>2, <3>1 DEF TypeOK, SendType
  <2> QED BY <2>1, <2>2
<1>6. /\ limit' \in [Stations -> Nat] /\ limit'[s] <= Rating[s]
      /\ \A t \in Stations \ {s} : limit'[t] = limit[t]
      /\ UNCHANGED tx /\ UNCHANGED txs
      /\ stop' \in [Stations -> BOOLEAN]
      /\ \A t \in Stations \ {s} : stop'[t] = stop[t]
      /\ stop'[s] = stop[s] \/ command[c] = StopTx(tx[s])
      /\ command[c].action # "RequestStopTransaction" /\ Obeyed(s, command[c]) =>
           limit'[s] = Cap(c, s)
      /\ command[c].action = "ClearChargingProfile" => limit'[s] = Cap(c, s)
  BY <1>1, <1>2, ReadLimit
<1> HIDE DEF c
<1>7. TypeOK'
  <2>1. \A t \in Stations : limit'[t] <= Rating[t] BY <1>6 DEF TypeOK
  <2> QED BY <1>1, <1>4, <1>5, <1>6, <2>1 DEF TypeOK, SendType
<1>8. \A i \in 1..Len(inbox'[s]) : inbox'[s][i] \in Commands /\ inbox'[s][i] # c
  <2>1. \A i \in 1..Len(inbox'[s]) : i + 1 # 1 BY <1>2, <1>4
  <2>2. c = inbox[s][1] BY DEF c
  <2> QED BY <1>2, <1>4, <2>1, <2>2 DEF BoxOf
<1>9. BoxOf(s)'
  <2>1. \A i \in 1..Len(inbox'[s]) : send'[inbox'[s][i]][s] = send[inbox'[s][i]][s]
    BY <1>5, <1>8
  <2>2. \A i, j \in 1..Len(inbox'[s]) : inbox'[s][i] = inbox'[s][j] => i = j
    <3>1. SUFFICES ASSUME NEW i \in 1..Len(inbox'[s]), NEW j \in 1..Len(inbox'[s]),
                          inbox'[s][i] = inbox'[s][j]
                   PROVE  i = j
      OBVIOUS
    <3>2. i + 1 = j + 1 BY <1>4, <3>1 DEF BoxOf
    <3> QED BY <1>2, <1>4, <3>2
  <2>3. inbox'[s] # <<>> => inbox'[s][Len(inbox'[s])] = last[s]
    <3>1. SUFFICES ASSUME inbox'[s] # <<>> PROVE inbox'[s][Len(inbox'[s])] = last[s] OBVIOUS
    <3>2. Len(inbox'[s]) \in 1..Len(inbox'[s]) BY <1>2, <1>4, <3>1
    <3>3. Len(inbox'[s]) + 1 = Len(inbox[s]) BY <1>2, <1>4
    <3> QED BY <1>1, <1>4, <3>2, <3>3 DEF BoxOf
  <2> QED BY <1>1, <1>4, <2>1, <2>2, <2>3 DEF BoxOf
<1>10. SendsOf(s)'
  <2>1. \A d \in Commands : d > given => d # c BY <1>2, <1>3, Numbers
  <2>2. send'[c][s].conn = send[c][s].conn
    <3>1. CASE send[c][s].st = "sent" BY <1>3, <1>5, <3>1
    <3>2. CASE send[c][s].st # "sent" BY <1>5, <3>2
    <3> QED BY <3>1, <3>2
  <2>3. ASSUME NEW d \in Commands
        PROVE  (d > given => send'[d][s] = NoSend) /\ send'[d][s].conn = send[d][s].conn
    <3>1. CASE d = c BY <2>1, <2>2, <3>1
    <3>2. CASE d # c
      <4>1. send'[d][s] = send[d][s] BY <1>5, <3>2
      <4> QED BY <4>1 DEF SendsOf
    <3> QED BY <3>1, <3>2
  <2> QED BY <1>1, <2>3 DEF SendsOf
\* As long as anything is left to read, the last command is not answered.
<1>11. LimitOf(s)'
  <2>1. last[s] # 0
    <3>1. inbox[s][Len(inbox[s])] = last[s] /\ Len(inbox[s]) \in 1..Len(inbox[s])
      BY <1>1, <1>2 DEF BoxOf
    <3>2. last[s] \in Commands BY <1>2, <3>1
    <3> QED BY <3>2, CurtailmentAssumption DEF CurtailmentAssumption, Commands
  <2>2. ASSUME NEW d \in Commands, last[s] = d, Confirms(d, s)' PROVE limit'[s] = Cap(d, s)'
    <3>1. send'[d][s].st \notin {"sent", "timeout"} BY <2>2 DEF Confirms
    <3>2. d = c
      <4>1. PICK i \in 1..Len(inbox[s]) : inbox[s][i] = d
        BY <1>1, <1>2, <2>2 DEF BoxOf
      <4>2. send[d][s].st \in {"sent", "timeout"} BY <4>1 DEF BoxOf
      <4> QED BY <1>5, <2>2, <3>1, <4>2
    <3>3. send'[c][s].st = IF Obeyed(s, command[c]) THEN "accepted" ELSE "refused"
      BY <1>3, <1>5, <3>1, <3>2
    <3> QED BY <1>1, <1>6, <2>2, <3>2, <3>3 DEF Confirms, Cap
  <2> QED BY <1>1, <2>1, <2>2 DEF LimitOf
<1>12. StopOf(s)'
  <2>1. ASSUME NEW d \in 1..given, send[d][s].st \in {"accepted", "success", "rejected", "timeout"}
        PROVE  send'[d][s].st \in {"accepted", "success", "rejected", "timeout"}
    BY <1>3, <1>5, <2>1, Numbers
  <2>2. CASE stop'[s] = stop[s] BY <1>1, <1>6, <2>1, <2>2, Numbers, StopKept
  <2>3. CASE command[c] = StopTx(tx[s]) /\ Obeyed(s, command[c])
    <3>1. send'[c][s].st \in {"accepted", "timeout"} BY <1>3, <1>5, <2>3
    <3>2. c \in 1..given BY <1>2, <1>3, CurtailmentAssumption, Numbers DEF Commands
    <3> QED BY <1>1, <1>6, <2>3, <3>1, <3>2 DEF StopOf
  <2>4. Obeyed(s, command[c]) \/ stop' = stop BY <1>1 DEF chargerVars
  <2> QED BY <1>6, <2>2, <2>3, <2>4
<1>13. \A t \in Stations \ {s} : PartsOf(t)' BY <1>1, <1>4, <1>5, <1>6, Elsewhere
<1> QED BY <1>7, <1>9, <1>10, <1>11, <1>12, <1>13

-----------------------------------------------------------------------------
(* The theorems.                                                           *)

LEMMA OperatorKeeps == ASSUME CurtInv, Operator PROVE CurtInv'
<1>1. \A w \in WattsAsked : IsCommand(Profile(PlainProfile(w)))
  BY PlainType, CurtailmentAssumption DEF CurtailmentAssumption, IsCommand, Profile
<1>2. \A p \in Profiles : IsCommand(Profile(p))
  BY CurtailmentAssumption DEF CurtailmentAssumption, IsCommand, Profile
<1>3. IsCommand(Clear) BY DEF IsCommand
<1>4. \A s \in Stations : \A t \in 1..txs[s] : IsCommand(StopTx(t))
  BY DEF IsCommand, StopTx, CurtInv, TypeOK
<1>5. Connected \in SUBSET Stations BY DEF Connected
<1>6. ASSUME NEW s \in Stations,
             StationLimit(s) \/ StationClear(s) \/ StationStop(s) \/ SendProfile(s)
      PROVE  CurtInv'
  <2>1. {s} \in SUBSET Stations OBVIOUS
  <2>2. CASE StationLimit(s) BY <1>1, <2>1, <2>2, GiveKeeps DEF StationLimit
  <2>3. CASE StationClear(s) BY <1>3, <2>1, <2>3, GiveKeeps DEF StationClear
  <2>4. CASE StationStop(s) BY <1>4, <2>1, <2>4, GiveKeeps DEF StationStop
  <2>5. CASE SendProfile(s) BY <1>2, <2>1, <2>5, GiveKeeps DEF SendProfile
  <2> QED BY <1>6, <2>2, <2>3, <2>4, <2>5
<1>7. CASE FleetLimit BY <1>1, <1>5, <1>7, GiveKeeps DEF FleetLimit
<1>8. CASE FleetClear BY <1>3, <1>5, <1>8, GiveKeeps DEF FleetClear
<1> QED BY <1>6, <1>7, <1>8 DEF Operator

LEMMA CurtNext == ASSUME CurtInv, [Next]_vars PROVE CurtInv'
<1>1. CASE Operator BY <1>1, OperatorKeeps
<1>2. ASSUME NEW s \in Stations, Charger(s) PROVE CurtInv'
  BY <1>2, ReadKeeps, SessionKeeps, DialKeeps DEF Charger
<1>3. ASSUME NEW s \in Stations, Server(s) PROVE CurtInv'
  BY <1>3, AcquireKeeps, EndsKeep, CloseKeeps DEF Server
<1>4. CASE UNCHANGED vars
  <2>1. /\ UNCHANGED <<opened, session, given, command, send, inbox, last, limit, tx, txs, stop>>
    BY <1>4 DEF vars, linkVars, serverVars, callVars, chargerVars
  <2>2. TypeOK' BY <2>1 DEF CurtInv, TypeOK
  <2>3. \A s \in Stations : PartsOf(s)' BY <2>1, Elsewhere DEF CurtInv
  <2> QED BY <2>2, <2>3 DEF CurtInv
<1> QED BY <1>1, <1>2, <1>3, <1>4 DEF Next

LEMMA CurtAlways == Spec => []CurtInv
BY CurtInit, CurtNext, PTL DEF Spec

\* Whatever times out, queues, is refused or reconnects, and in whatever order: a
\* limit the operator was told is in force is the charger's limit
\* (csms/dispatch.py _outcome_for, agent/station.py handle_set_charging_profile).
THEOREM AcceptedMeansInForce == Spec => []AcceptedInForce
<1>1. CurtInv => AcceptedInForce
  BY DEF CurtInv, PartsOf, LimitOf, Confirms, AcceptedInForce
<1> QED BY <1>1, CurtAlways, PTL

\* A stop request the charger acts on was read from a command that names the
\* transaction it runs (agent/station.py handle_request_stop, _charging_session).
THEOREM StopsHitTheNamed == Spec => []StopHitsNamed
<1>1. CurtInv => StopHitsNamed
  BY DEF CurtInv, PartsOf, StopOf, StopHitsNamed
<1> QED BY <1>1, CurtAlways, PTL

\* A limit rises only by a command read at that moment that allows it, whatever
\* the payloads are (agent/charging_profile.py parse_charging_profile).
THEOREM NoAccidentalLift == Spec => NoLift
<1>1. ASSUME CurtInv, [Next]_vars, NEW s \in Stations, limit'[s] > limit[s]
      PROVE  LET m == command[Head(inbox[s])] IN
             /\ inbox[s] # <<>> /\ limit'[s] <= Rating[s]
             /\ \/ m.action = "ClearChargingProfile"
                \/ m.action = "SetChargingProfile" /\ Means(m.profile, limit'[s])
  <2>1. limit \in [Stations -> Nat] BY <1>1 DEF CurtInv, TypeOK
  <2>2. limit' # limit BY <1>1, <2>1
  <2>3. PICK t \in Stations : Read(t)
    <3>1. ~UNCHANGED chargerVars BY <2>2 DEF chargerVars
    <3>2. ~Operator
      BY <3>1 DEF Operator, StationLimit, StationClear, StationStop, SendProfile, FleetLimit,
         FleetClear, Give
    <3>3. ASSUME NEW t \in Stations PROVE ~Server(t)
      BY <3>1 DEF Server, Acquire, Return, GiveUp, CloseSocket
    <3>4. ASSUME NEW t \in Stations, Charger(t) PROVE Read(t)
      <4>1. ~StartTransaction(t) BY <2>2 DEF StartTransaction
      <4>2. ~EndTransaction(t) BY <2>2 DEF EndTransaction
      <4>3. ~FinishSession(t) BY <2>2 DEF FinishSession
      <4>4. ~Dial(t) BY <3>1 DEF Dial
      <4> QED BY <3>4, <4>1, <4>2, <4>3, <4>4, Zenon DEF Charger
    <3>5. ~UNCHANGED vars BY <3>1 DEF vars
    <3>6. Next BY <1>1, <3>5
    <3> QED BY <3>2, <3>3, <3>4, <3>6, Zenon DEF Next
  <2> DEFINE c == Head(inbox[t])
  <2>4. /\ inbox[t] # <<>> /\ c \in Commands /\ TypeOK
        /\ IF Obeyed(t, command[c]) THEN Obey(t, command[c]) ELSE UNCHANGED chargerVars
    <3>1. inbox[t] \in Seq(Commands) /\ inbox[t] # <<>> /\ TypeOK
      BY <1>1, <2>3 DEF Read, CurtInv, TypeOK
    <3>2. c \in Commands BY <3>1
    <3> QED BY <2>3, <3>1, <3>2 DEF Read
  <2> HIDE DEF c
  <2>5. /\ limit'[t] <= Rating[t] /\ \A u \in Stations \ {t} : limit'[u] = limit[u]
        /\ limit'[t] > limit[t] =>
             \/ command[c].action = "ClearChargingProfile"
             \/ /\ command[c].action = "SetChargingProfile"
                /\ Means(command[c].profile, limit'[t])
    BY <2>4, ReadLimit
  <2>6. s = t BY <1>1, <2>1, <2>5
  <2> QED BY <1>1, <2>4, <2>5, <2>6 DEF c
<1>2. CurtInv /\ [Next]_vars =>
        [\A s \in Stations : limit'[s] > limit[s] =>
           LET m == command[Head(inbox[s])] IN
           /\ inbox[s] # <<>> /\ limit'[s] <= Rating[s]
           /\ \/ m.action = "ClearChargingProfile"
              \/ m.action = "SetChargingProfile" /\ Means(m.profile, limit'[s])]_vars
  BY <1>1
<1> QED BY <1>2, CurtAlways, PTL DEF Spec, NoLift
=============================================================================

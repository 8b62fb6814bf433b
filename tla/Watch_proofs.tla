---------------------------- MODULE Watch_proofs ----------------------------
(***************************************************************************)
(* Theorems about the two readers of a server, the page that follows the   *)
(* event log and the console view of a migration, for any ring and page,   *)
(* and any number of events, polls, restarts, runs and changes.            *)
(***************************************************************************)
EXTENDS Watch, FiniteSetTheorems, TLAPS

-----------------------------------------------------------------------------
(* The page: the inductive invariant.                                      *)

Answers == [events : SUBSET Nat, last : Nat, base : Nat]
Polls   == [state : {"idle", "asked", "answered"}, after : Int, base : Nat, answer : Answers]

FeedTypeOK ==
  /\ base \in Nat /\ emitted \in Nat /\ seqBase \in Nat
  /\ openedAt \in Nat \cup {NotOpen} /\ lastSeq \in Nat \cup {-1}
  /\ poll \in [Slots -> Polls]
  /\ shown \subseteq Nat /\ passedOver \subseteq Nat
  /\ repeated \in BOOLEAN /\ oldAlert \in BOOLEAN /\ overlapped \in BOOLEAN

\* Number n of the process that began after b events is the number of an event
\* that was emitted, by this process or before it.
InLog(b, n) == b <= base /\ b + n <= emitted /\ (b # base => b + n <= base)

NumbersInLog ==
  /\ base <= emitted /\ openedAt <= emitted /\ InLog(seqBase, lastSeq)
  /\ \A p \in Slots : /\ InLog(poll[p].base, poll[p].after)
                      /\ InLog(poll[p].answer.base, poll[p].answer.last)

\* The page has taken the event in, or it is known not to get it.
Accounted(e) == e \in shown \cup passedOver

\* Nothing of an earlier process is open, and of this one nothing up to a
\* number the page has, has sent, or is about to be given.
PastAccounted == \A e \in 1..base : Accounted(e)

ReadAccounted ==
  /\ seqBase = base =>
       \A e \in OfThisProcess : e - base <= lastSeq => Accounted(e)
  /\ \A p \in Slots : poll[p].state = "asked" /\ poll[p].base = base =>
       \A e \in OfThisProcess : e - base <= poll[p].after => Accounted(e)
  /\ \A p \in Slots : poll[p].state = "answered" /\ poll[p].answer.base = base =>
       \A e \in OfThisProcess : e - base <= poll[p].answer.last =>
         Accounted(e) \/ e \in poll[p].answer.events

\* With one poll out at a time: what the page has taken in lies below its
\* number, the poll carries that number, and the answer only holds what lies
\* above it.
Horizon == IF seqBase = base /\ lastSeq > 0 THEN base + lastSeq ELSE base

AnswerAhead(p) ==
  LET a == poll[p].answer IN
  /\ \A e \in a.events : e \notin shown /\ e <= a.base + a.last
  /\ lastSeq # 0 => \A e \in a.events : e > openedAt
  /\ openedAt <= a.base + a.last
  /\ seqBase <= a.base
  /\ a.base = base => Horizon <= base + a.last

InTurn ==
  /\ ~repeated /\ ~oldAlert
  /\ \A p, q \in Out : p = q
  /\ openedAt = NotOpen => Out = {} /\ lastSeq = 0
  /\ lastSeq = 0 => shown = {}
  /\ lastSeq # 0 => openedAt <= Horizon
  /\ \A e \in shown : e <= Horizon
  /\ \A p \in Slots : poll[p].state = "asked" => poll[p].after = lastSeq /\ poll[p].base = seqBase
  /\ \A p \in Slots : poll[p].state = "answered" => AnswerAhead(p)

FInv == FeedTypeOK /\ NumbersInLog /\ PastAccounted /\ ReadAccounted /\ (~overlapped => InTurn)

-----------------------------------------------------------------------------
(* What events_after answers.                                              *)

\* Of the events above `from`, the oldest n are the next n.
LEMMA OldestAbove ==
  ASSUME NEW lo \in Int, NEW hi \in Int, NEW n \in Nat, NEW e \in (lo + 1)..hi, e <= lo + n
  PROVE  e \in Oldest(n, (lo + 1)..hi)
<1> DEFINE S == (lo + 1)..hi
           older == {d \in S : d < e}
<1>1. \A d : d \in older <=> d \in (lo + 1)..(e - 1)
  <2>1. e \in Int /\ e <= hi
    OBVIOUS
  <2>2. \A d : d \in S => d \in Int
    OBVIOUS
  <2>3. \A d \in Int : d \in older <=> d \in (lo + 1)..(e - 1)
    BY <2>1
  <2>4. \A d : d \in (lo + 1)..(e - 1) => d \in Int
    OBVIOUS
  <2> QED BY <2>2, <2>3, <2>4
<1>2. older = (lo + 1)..(e - 1)
  BY <1>1
<1>3. Cardinality((lo + 1)..(e - 1)) = IF lo + 1 > e - 1 THEN 0 ELSE (e - 1) - (lo + 1) + 1
  BY FS_Interval
<1>4. Cardinality(older) < n
  <2>1. (IF lo + 1 > e - 1 THEN 0 ELSE (e - 1) - (lo + 1) + 1) < n
    OBVIOUS
  <2> HIDE DEF older
  <2> QED BY <1>2, <1>3, <2>1
<1> QED BY <1>4 DEF Oldest

\* An answer and what it leaves out are together all events of the process
\* above the number that was sent.
LEMMA AnswerComplete ==
  ASSUME FeedTypeOK, base <= emitted, NEW after \in Int, NEW of,
         NEW e \in OfThisProcess, e - base > after
  PROVE  e \in EventsAfter(after, Page).events \cup LeftOut(after, of)
<1> DEFINE gone == IF emitted - base > Ring THEN emitted - base - Ring ELSE 0
           from == IF after > gone THEN after ELSE gone
           n == IF Page < 1 THEN 1 ELSE IF Page > Ring THEN Ring ELSE Page
           S == {d \in Recent : d - base > after}
<1>0. /\ base \in Nat /\ emitted \in Nat /\ Ring \in Nat \ {0} /\ Page \in Int
      /\ e \in Int /\ e >= base + 1 /\ e <= emitted
  BY FeedAssumption DEF FeedAssumption, FeedTypeOK, OfThisProcess
<1>1. gone \in Nat /\ from \in Nat /\ n \in Nat
  BY <1>0
<1>2. \A d : d \in S <=> d \in (base + from + 1)..emitted
  <2> SUFFICES ASSUME NEW d \in Int
               PROVE  d \in S <=> d \in (base + from + 1)..emitted
    BY <1>0, <1>1 DEF Recent, OfThisProcess
  <2>1. d \in S <=> d >= base + 1 /\ d <= emitted /\ d > emitted - Ring /\ d - base > after
    BY <1>0 DEF Recent, OfThisProcess
  <2>2. d > base + from <=> d > base + gone /\ d > base + after
    BY <1>0, <1>1
  <2>3. d > base + gone <=> d > base /\ d > emitted - Ring
    BY <1>0
  <2> QED BY <1>0, <1>1, <2>1, <2>2, <2>3
<1>3. S = (base + from + 1)..emitted
  BY <1>2
<1>4. EventsAfter(after, Page).events = Oldest(n, S)
  BY DEF EventsAfter
<1>5. CASE e - base <= gone \/ e - base > from + Page
  BY <1>5 DEF LeftOut
<1>6. CASE ~(e - base <= gone) /\ ~(e - base > from + Page)
  <2>1. e > base + from /\ e <= base + from + Page
    BY <1>0, <1>1, <1>6
  <2>2. e <= base + from + n
    <3>1. emitted <= base + from + Ring
      BY <1>0
    <3> QED BY <1>0, <1>1, <2>1, <3>1
  <2>3. e \in Oldest(n, (base + from + 1)..emitted)
    <3>1. base + from \in Int /\ e \in ((base + from) + 1)..emitted
      BY <1>0, <1>1, <2>1
    <3> DEFINE lo == base + from
    <3>2. lo \in Int /\ n \in Nat /\ emitted \in Int /\ e \in (lo + 1)..emitted /\ e <= lo + n
      BY <1>0, <1>1, <2>2, <3>1
    <3> HIDE DEF from, n, gone, lo
    <3>3. e \in Oldest(n, (lo + 1)..emitted)
      BY <3>2, OldestAbove
    <3> QED BY <3>3 DEF lo
  <2> QED BY <1>3, <1>4, <2>3
<1> QED BY <1>5, <1>6

\* Every event of an answer is kept, and newer than the number that was sent.
LEMMA AnswerNewer ==
  ASSUME FeedTypeOK, base <= emitted, NEW after \in Int
  PROVE  /\ EventsAfter(after, Page) \in Answers
         /\ EventsAfter(after, Page).last = emitted - base
         /\ EventsAfter(after, Page).base = base
         /\ \A e \in EventsAfter(after, Page).events :
              e \in Nat /\ base < e /\ e <= emitted /\ e - base > after
<1>1. \A e \in EventsAfter(after, Page).events :
        e \in Nat /\ base < e /\ e <= emitted /\ e - base > after
  BY DEF EventsAfter, Oldest, Recent, OfThisProcess, FeedTypeOK
<1>2. EventsAfter(after, Page).last = emitted - base /\ EventsAfter(after, Page).base = base
  BY DEF EventsAfter
<1>3. EventsAfter(after, Page) =
        [events |-> EventsAfter(after, Page).events, last |-> emitted - base, base |-> base]
  BY DEF EventsAfter
<1>4. emitted - base \in Nat /\ base \in Nat /\ EventsAfter(after, Page).events \in SUBSET Nat
  BY <1>1 DEF FeedTypeOK
<1> QED BY <1>1, <1>2, <1>3, <1>4 DEF Answers

-----------------------------------------------------------------------------
(* Every step of the log and of the page keeps the invariant.              *)

USE DEF NotOpen

LEMMA PollTypes ==
  ASSUME FeedTypeOK, NEW p \in Slots
  PROVE  /\ poll[p] \in Polls /\ poll[p].state \in {"idle", "asked", "answered"}
         /\ poll[p].after \in Int /\ poll[p].base \in Nat
         /\ poll[p].answer \in Answers /\ poll[p].answer.events \subseteq Nat
         /\ poll[p].answer.last \in Nat /\ poll[p].answer.base \in Nat
<1>1. poll[p] \in Polls
  BY DEF FeedTypeOK
<1>2. poll[p].answer \in Answers
  BY <1>1 DEF Polls
<1> QED BY <1>1, <1>2 DEF Polls, Answers

LEMMA HorizonType ==
  ASSUME FeedTypeOK, NumbersInLog
  PROVE  Horizon \in Nat /\ base <= Horizon /\ Horizon <= emitted
BY DEF FeedTypeOK, NumbersInLog, Horizon, InLog

LEMMA UnsentFields ==
  /\ Unsent \in Polls /\ Unsent.state = "idle" /\ Unsent.after = 0 /\ Unsent.base = 0
  /\ Unsent.answer.last = 0 /\ Unsent.answer.base = 0 /\ Unsent.answer.events = {}
BY DEF Unsent, NoAnswer, Polls, Answers

\* A new event has a number nobody has seen.
LEMMA EmitKeeps == FInv /\ Emit => FInv'
<1> SUFFICES ASSUME FInv, Emit PROVE FInv'
  OBVIOUS
<1>0. /\ base \in Nat /\ emitted \in Nat /\ emitted' = emitted + 1 /\ base' = base
      /\ seqBase \in Nat /\ lastSeq \in Int /\ openedAt \in Int
      /\ UNCHANGED <<openedAt, lastSeq, poll, shown, seqBase, repeated, oldAlert, overlapped, passedOver>>
  BY DEF FInv, FeedTypeOK, Emit, pageVars, seenVars
<1>1. FeedTypeOK'
  BY <1>0 DEF FInv, FeedTypeOK
<1>2. ASSUME NEW b \in Nat, NEW n \in Int, InLog(b, n)
      PROVE  InLog(b, n)' /\ (b = base => \A e \in OfThisProcess' : e - base <= n => e \in OfThisProcess)
  BY <1>0, <1>2 DEF InLog, OfThisProcess
<1>3. /\ InLog(seqBase, lastSeq)
      /\ \A p \in Slots : /\ InLog(poll[p].base, poll[p].after)
                          /\ InLog(poll[p].answer.base, poll[p].answer.last)
  BY DEF FInv, NumbersInLog
<1>4. \A p \in Slots : /\ poll[p].after \in Int /\ poll[p].base \in Nat
                       /\ poll[p].answer.last \in Int /\ poll[p].answer.base \in Nat
  BY PollTypes DEF FInv
<1>5. NumbersInLog'
  <2>1. InLog(seqBase, lastSeq)'
    BY <1>0, <1>2, <1>3
  <2>2. \A p \in Slots : InLog(poll[p].base, poll[p].after)' /\ InLog(poll[p].answer.base, poll[p].answer.last)'
    BY <1>0, <1>2, <1>3, <1>4
  <2> QED BY <1>0, <2>1, <2>2 DEF FInv, NumbersInLog
<1>6. PastAccounted'
  BY <1>0 DEF FInv, PastAccounted, Accounted
<1>7. ReadAccounted'
  <2>1. (seqBase = base => \A e \in OfThisProcess : e - base <= lastSeq => Accounted(e))'
    BY <1>0, <1>2, <1>3 DEF FInv, ReadAccounted, Accounted
  <2>2. ASSUME NEW p \in Slots
        PROVE  (poll[p].state = "asked" /\ poll[p].base = base =>
                  \A e \in OfThisProcess : e - base <= poll[p].after => Accounted(e))'
    BY <1>0, <1>2, <1>3, <1>4 DEF FInv, ReadAccounted, Accounted
  <2>3. ASSUME NEW p \in Slots
        PROVE  (poll[p].state = "answered" /\ poll[p].answer.base = base =>
                  \A e \in OfThisProcess : e - base <= poll[p].answer.last =>
                    Accounted(e) \/ e \in poll[p].answer.events)'
    BY <1>0, <1>2, <1>3, <1>4 DEF FInv, ReadAccounted, Accounted
  <2> QED BY <2>1, <2>2, <2>3 DEF ReadAccounted
<1>8. ~overlapped' => InTurn'
  BY <1>0 DEF FInv, InTurn, Horizon, AnswerAhead, Out
<1> QED BY <1>1, <1>5, <1>6, <1>7, <1>8 DEF FInv

\* A restart: everything so far is of the past, and what the page had not read
\* of it is passed over.
LEMMA RestartKeeps == FInv /\ RestartServer => FInv'
<1> SUFFICES ASSUME FInv, RestartServer PROVE FInv'
  OBVIOUS
<1>0. /\ base \in Nat /\ emitted \in Nat /\ base' = emitted /\ emitted' = emitted
      /\ seqBase \in Nat /\ lastSeq \in Int /\ openedAt \in Int
      /\ UNCHANGED <<openedAt, lastSeq, shown, seqBase, repeated, oldAlert, overlapped>>
      /\ passedOver' = passedOver \cup {e \in OfThisProcess : seqBase # base \/ e - base > lastSeq}
      /\ base <= emitted /\ openedAt <= emitted /\ InLog(seqBase, lastSeq)
  BY DEF FInv, FeedTypeOK, RestartServer, NumbersInLog
<1>1. \A p \in Slots : \/ poll[p].state # "asked" /\ poll'[p] = poll[p]
                       \/ poll'[p] = Unsent
  BY DEF RestartServer
<1>2. FeedTypeOK'
  <2>1. poll' \in [Slots -> Polls]
    BY UnsentFields DEF RestartServer, FInv, FeedTypeOK
  <2>2. passedOver' \subseteq Nat
    <3>1. passedOver \subseteq Nat
      BY DEF FInv, FeedTypeOK
    <3>2. \A e \in OfThisProcess : e \in Nat
      BY <1>0 DEF OfThisProcess
    <3>3. passedOver' \subseteq passedOver \cup OfThisProcess
      BY <1>0
    <3> QED BY <3>1, <3>2, <3>3
  <2> QED BY <1>0, <2>1, <2>2 DEF FInv, FeedTypeOK
<1>3. ASSUME NEW b \in Nat, NEW n \in Int, InLog(b, n)
      PROVE  InLog(b, n)'
  BY <1>0, <1>3 DEF InLog
<1>4. NumbersInLog'
  <2>1. ASSUME NEW p \in Slots
        PROVE  InLog(poll[p].base, poll[p].after)' /\ InLog(poll[p].answer.base, poll[p].answer.last)'
    <3>1. InLog(0, 0)
      BY <1>0 DEF InLog
    <3>2. InLog(poll[p].base, poll[p].after) /\ InLog(poll[p].answer.base, poll[p].answer.last)
      BY DEF FInv, NumbersInLog
    <3>3. InLog(0, 0)'
      BY <1>3, <3>1
    <3>4. /\ \A b \in Nat, n \in Int : b = poll[p].base /\ n = poll[p].after => InLog(b, n)'
          /\ \A b \in Nat, n \in Int : b = poll[p].answer.base /\ n = poll[p].answer.last => InLog(b, n)'
      BY <1>3, <3>2
    <3>5. poll'[p] = Unsent \/ poll'[p] = poll[p]
      BY <1>1
    <3> QED BY <3>3, <3>4, <3>5, UnsentFields, PollTypes DEF FInv, InLog
  <2>2. InLog(seqBase, lastSeq)'
    BY <1>0, <1>3 DEF InLog
  <2> QED BY <1>0, <2>1, <2>2 DEF NumbersInLog
<1>5. PastAccounted'
  <2> SUFFICES ASSUME NEW e \in 1..emitted PROVE Accounted(e)'
    BY <1>0 DEF PastAccounted
  <2>1. CASE e <= base
    BY <1>0, <2>1 DEF FInv, PastAccounted, Accounted
  <2>2. CASE e > base
    <3>1. e \in OfThisProcess
      BY <1>0, <2>2 DEF OfThisProcess
    <3>2. CASE seqBase # base \/ e - base > lastSeq
      BY <1>0, <3>1, <3>2 DEF Accounted
    <3>3. CASE seqBase = base /\ ~(e - base > lastSeq)
      <4>1. e - base <= lastSeq
        BY <1>0, <3>3
      <4> QED BY <1>0, <3>1, <3>3, <4>1 DEF FInv, ReadAccounted, Accounted
    <3> QED BY <3>2, <3>3
  <2> QED BY <1>0, <2>1, <2>2
<1>6. ReadAccounted'
  <2>1. \A e : e \notin OfThisProcess'
    BY <1>0 DEF OfThisProcess
  <2> QED BY <2>1 DEF ReadAccounted
<1>7. ASSUME ~overlapped' PROVE InTurn'
  <2>1. InTurn
    BY <1>0, <1>7 DEF FInv
  <2>2. Out' \subseteq Out /\ \A p \in Slots : poll'[p].state # "asked"
    BY <1>1, UnsentFields DEF Out
  <2>3. Horizon <= Horizon' /\ Horizon' = emitted /\ Horizon \in Nat
    BY <1>0, HorizonType DEF Horizon, InLog, FInv
  <2>4. ASSUME NEW p \in Slots, poll'[p].state = "answered"
        PROVE  AnswerAhead(p)'
    <3>1. poll'[p] = poll[p]
      BY <1>1, <2>4, UnsentFields
    <3>2. AnswerAhead(p)
      BY <2>1, <2>4, <3>1 DEF InTurn
    <3>3. /\ poll[p].answer.base \in Nat /\ poll[p].answer.last \in Nat
          /\ InLog(poll[p].answer.base, poll[p].answer.last)
      BY PollTypes DEF FInv, NumbersInLog
    <3>4. poll[p].answer.base = base' => Horizon' <= base' + poll[p].answer.last
      BY <1>0, <2>3, <3>3
    <3> QED BY <1>0, <3>1, <3>2, <3>4 DEF AnswerAhead
  <2>5. \A e \in shown : e <= Horizon'
    <3>1. \A e \in shown : e \in Nat /\ e <= Horizon
      BY <2>1 DEF InTurn, FInv, FeedTypeOK
    <3> QED BY <1>0, <2>3, <3>1
  <2>6. openedAt <= Horizon'
    BY <1>0, <2>3
  <2> QED BY <1>0, <2>1, <2>2, <2>4, <2>5, <2>6 DEF InTurn
<1> QED BY <1>2, <1>4, <1>5, <1>6, <1>7 DEF FInv

LEMMA OpenKeeps == FInv /\ OpenPage => FInv'
<1> SUFFICES ASSUME FInv, OpenPage PROVE FInv'
  OBVIOUS
<1>0. /\ openedAt = NotOpen /\ openedAt' = emitted /\ emitted \in Nat /\ base <= emitted
      /\ UNCHANGED <<base, emitted, lastSeq, poll, shown, seqBase, repeated, oldAlert, overlapped, passedOver>>
  BY DEF FInv, FeedTypeOK, NumbersInLog, OpenPage, logVars, seenVars
<1>1. FeedTypeOK'
  BY <1>0 DEF FInv, FeedTypeOK
<1>2. NumbersInLog'
  BY <1>0 DEF FInv, NumbersInLog, InLog
<1>3. PastAccounted' /\ ReadAccounted'
  BY <1>0 DEF FInv, PastAccounted, ReadAccounted, Accounted, OfThisProcess
<1>4. ASSUME ~overlapped' PROVE InTurn'
  <2>1. InTurn /\ Out = {} /\ lastSeq = 0
    BY <1>0, <1>4 DEF FInv, InTurn
  <2>2. \A p \in Slots : poll'[p].state \notin {"asked", "answered"}
    BY <1>0, <2>1 DEF Out
  <2>3. Out' = {}
    BY <2>2 DEF Out
  <2> QED BY <1>0, <2>1, <2>2, <2>3 DEF InTurn, Horizon, FInv, FeedTypeOK
<1> QED BY <1>1, <1>2, <1>3, <1>4 DEF FInv

\* A poll carries the page's number.
LEMMA PollKeeps == ASSUME NEW p \in Slots PROVE FInv /\ Poll(p) => FInv'
<1> SUFFICES ASSUME FInv, Poll(p) PROVE FInv'
  OBVIOUS
<1> DEFINE new == [Unsent EXCEPT !.state = "asked", !.after = lastSeq, !.base = seqBase]
<1>0. /\ openedAt # NotOpen /\ poll' = [poll EXCEPT ![p] = new]
      /\ overlapped' = (overlapped \/ Out # {})
      /\ UNCHANGED <<base, emitted, openedAt, lastSeq, shown, seqBase, repeated, oldAlert, passedOver>>
      /\ base \in Nat /\ emitted \in Nat /\ seqBase \in Nat /\ lastSeq \in Int
  BY DEF FInv, FeedTypeOK, Poll, logVars
<1>1. /\ new \in Polls /\ new.state = "asked" /\ new.after = lastSeq /\ new.base = seqBase
      /\ new.answer.base = 0 /\ new.answer.last = 0
  BY <1>0, UnsentFields DEF Unsent, NoAnswer, Polls, Answers
<1> HIDE DEF new
<1>2. poll'[p] = new /\ \A q \in Slots : q # p => poll'[q] = poll[q]
  BY <1>0 DEF FInv, FeedTypeOK
<1>3. FeedTypeOK'
  BY <1>0, <1>1 DEF FInv, FeedTypeOK
<1>4. NumbersInLog'
  <2>1. InLog(0, 0) /\ InLog(seqBase, lastSeq)
    BY <1>0 DEF FInv, NumbersInLog, InLog
  <2>2. \A q \in Slots : InLog(poll[q].base, poll[q].after) /\ InLog(poll[q].answer.base, poll[q].answer.last)
    BY DEF FInv, NumbersInLog
  <2>3. ASSUME NEW q \in Slots
        PROVE  InLog(poll[q].base, poll[q].after)' /\ InLog(poll[q].answer.base, poll[q].answer.last)'
    <3>1. CASE q = p
      BY <1>0, <1>1, <1>2, <2>1, <3>1 DEF InLog
    <3>2. CASE q # p
      BY <1>0, <1>2, <2>2, <3>2 DEF InLog
    <3> QED BY <3>1, <3>2
  <2> QED BY <1>0, <2>1, <2>3 DEF FInv, NumbersInLog, InLog
<1>5. PastAccounted'
  BY <1>0 DEF FInv, PastAccounted, Accounted
<1>6. ReadAccounted'
  <2>1. \A q \in Slots : /\ poll'[q].state = "asked" =>
                              poll'[q] = poll[q] \/ (poll'[q].base = seqBase /\ poll'[q].after = lastSeq)
                         /\ poll'[q].state = "answered" => poll'[q] = poll[q]
    BY <1>1, <1>2
  <2> QED BY <1>0, <2>1 DEF FInv, ReadAccounted, Accounted, OfThisProcess
<1>7. ASSUME ~overlapped' PROVE InTurn'
  <2>1. InTurn /\ Out = {}
    BY <1>0, <1>7 DEF FInv
  <2>2. \A q \in Slots : q # p => poll'[q].state \notin {"asked", "answered"}
    BY <1>2, <2>1 DEF Out
  <2>3. \A q, r \in Out' : q = r
    BY <2>2 DEF Out
  <2> QED BY <1>0, <1>1, <1>2, <2>1, <2>2, <2>3 DEF InTurn, Horizon
<1> QED BY <1>3, <1>4, <1>5, <1>6, <1>7 DEF FInv

\* What the page has not taken in of the answer's events and those before them
\* is in the answer or passed over.
LEMMA ServeKeeps == ASSUME NEW p \in Slots PROVE FInv /\ Serve(p) => FInv'
<1> SUFFICES ASSUME FInv, Serve(p) PROVE FInv'
  OBVIOUS
<1> DEFINE after == poll[p].after
           a == EventsAfter(after, Page)
<1>0. /\ poll[p].state = "asked"
      /\ passedOver' = passedOver \cup LeftOut(after, poll[p].base)
      /\ UNCHANGED <<base, emitted, openedAt, lastSeq, shown, seqBase, repeated, oldAlert, overlapped>>
      /\ base \in Nat /\ emitted \in Nat /\ seqBase \in Nat /\ lastSeq \in Int /\ base <= emitted
      /\ openedAt \in Int /\ openedAt <= emitted
      /\ FeedTypeOK
  BY DEF FInv, FeedTypeOK, Serve, logVars, NumbersInLog
<1>1. /\ a \in Answers /\ a.last = emitted - base /\ a.base = base
      /\ \A e \in a.events : e \in Nat /\ base < e /\ e <= emitted /\ e - base > after
  BY <1>0, AnswerNewer, PollTypes
<1>2. \A e \in OfThisProcess : e - base > after => e \in a.events \cup LeftOut(after, poll[p].base)
  BY <1>0, AnswerComplete, PollTypes
<1>3. /\ poll' \in [Slots -> Polls]
      /\ poll'[p].state = "answered" /\ poll'[p].answer = a
      /\ poll'[p].after = after /\ poll'[p].base = poll[p].base
      /\ \A q \in Slots : q # p => poll'[q] = poll[q]
  <2> DEFINE new == [poll[p] EXCEPT !.state = "answered", !.answer = a]
  <2>1. poll' = [poll EXCEPT ![p] = new]
    BY DEF Serve, FInv, FeedTypeOK
  <2>2. new \in Polls /\ new.state = "answered" /\ new.answer = a /\ new.after = after /\ new.base = poll[p].base
    <3> HIDE DEF a
    <3> QED BY <1>0, <1>1, PollTypes DEF Polls
  <2> HIDE DEF new
  <2> QED BY <1>0, <2>1, <2>2 DEF FeedTypeOK
<1> HIDE DEF a
<1>4. FeedTypeOK'
  <2>1. passedOver' \subseteq Nat
    <3>1. LeftOut(after, poll[p].base) \subseteq OfThisProcess
      BY DEF LeftOut
    <3>2. \A e \in OfThisProcess : e \in Nat
      BY <1>0 DEF OfThisProcess
    <3>3. passedOver \subseteq Nat
      BY <1>0 DEF FeedTypeOK
    <3> QED BY <1>0, <3>1, <3>2, <3>3
  <2> QED BY <1>0, <1>3, <2>1 DEF FeedTypeOK
<1>5. NumbersInLog'
  <2>1. ASSUME NEW q \in Slots
        PROVE  InLog(poll[q].base, poll[q].after)' /\ InLog(poll[q].answer.base, poll[q].answer.last)'
    <3>1. InLog(poll[q].base, poll[q].after) /\ InLog(poll[q].answer.base, poll[q].answer.last)
      BY DEF FInv, NumbersInLog
    <3>2. CASE q = p
      BY <1>0, <1>1, <1>3, <3>1, <3>2 DEF InLog
    <3>3. CASE q # p
      BY <1>0, <1>3, <3>1, <3>3 DEF InLog
    <3> QED BY <3>2, <3>3
  <2> QED BY <1>0, <2>1 DEF FInv, NumbersInLog, InLog
<1>6. PastAccounted'
  BY <1>0 DEF FInv, PastAccounted, Accounted
<1>7. ReadAccounted'
  <2>1. ASSUME NEW e \in OfThisProcess
        PROVE  Accounted(e)' \/ e \in a.events
    <3>1. e - base \in Int /\ after \in Int
      BY <1>0, PollTypes DEF OfThisProcess
    <3>2. CASE e - base > after
      BY <1>0, <1>2, <3>2 DEF Accounted
    <3>3. CASE e - base <= after /\ poll[p].base # base
      <4>1. e \in LeftOut(after, poll[p].base)
        BY <3>3 DEF LeftOut
      <4> QED BY <1>0, <4>1 DEF Accounted
    <3>4. CASE e - base <= after /\ poll[p].base = base
      BY <1>0, <3>4 DEF FInv, ReadAccounted, Accounted
    <3> QED BY <3>1, <3>2, <3>3, <3>4
  <2>2. ASSUME NEW q \in Slots
        PROVE  /\ (poll[q].state = "asked" /\ poll[q].base = base =>
                    \A e \in OfThisProcess : e - base <= poll[q].after => Accounted(e))'
               /\ (poll[q].state = "answered" /\ poll[q].answer.base = base =>
                    \A e \in OfThisProcess : e - base <= poll[q].answer.last =>
                      Accounted(e) \/ e \in poll[q].answer.events)'
    <3>1. CASE q = p
      BY <1>0, <1>3, <2>1, <3>1 DEF OfThisProcess
    <3>2. CASE q # p
      BY <1>0, <1>3, <3>2 DEF FInv, ReadAccounted, Accounted, OfThisProcess
    <3> QED BY <3>1, <3>2
  <2> QED BY <1>0, <2>2 DEF FInv, ReadAccounted, Accounted, OfThisProcess
<1>8. ASSUME ~overlapped' PROVE InTurn'
  <2>1. InTurn /\ after = lastSeq /\ poll[p].base = seqBase /\ p \in Out
    BY <1>0, <1>8 DEF FInv, InTurn, Out
  <2>2. Out' = Out
    BY <1>0, <1>3 DEF Out
  <2>3. \A q \in Slots : q # p => poll'[q].state \notin {"asked", "answered"}
    BY <1>3, <2>1 DEF Out, InTurn
  <2>4. Horizon \in Nat /\ Horizon <= emitted /\ InLog(seqBase, lastSeq) /\ \A e \in shown : e \in Nat /\ e <= Horizon
    BY <2>1, HorizonType DEF FInv, NumbersInLog, InTurn, FeedTypeOK
  <2>5. \A e \in a.events : e > Horizon
    BY <1>0, <1>1, <2>1, <2>4 DEF Horizon, FeedTypeOK
  <2>6. AnswerAhead(p)'
    <3>1. /\ \A e \in a.events : e \notin shown /\ e <= a.base + a.last
          /\ openedAt <= a.base + a.last /\ seqBase <= a.base
          /\ a.base = base => Horizon <= base + a.last
      BY <1>0, <1>1, <2>4, <2>5 DEF InLog
    <3>2. lastSeq # 0 => \A e \in a.events : e > openedAt
      BY <1>0, <1>1, <2>1, <2>4, <2>5 DEF InTurn
    <3>3. poll'[p].answer = a /\ Horizon' = Horizon
      BY <1>0, <1>3 DEF Horizon
    <3> QED BY <1>0, <3>1, <3>2, <3>3 DEF AnswerAhead
  <2> QED BY <1>0, <1>3, <2>1, <2>2, <2>3, <2>6 DEF InTurn, Horizon
<1> QED BY <1>4, <1>5, <1>6, <1>7, <1>8 DEF FInv

\* A poll that comes back, with an answer or without, is no longer out.
LEMMA PollDone ==
  ASSUME FInv, NEW p \in Slots, poll' = [poll EXCEPT ![p] = Unsent],
         UNCHANGED <<base, emitted>>
  PROVE  /\ poll' \in [Slots -> Polls]
         /\ \A q \in Slots : \/ q = p /\ poll'[q].state = "idle"
                             \/ q # p /\ poll'[q] = poll[q]
         /\ \A q \in Slots : /\ InLog(poll[q].base, poll[q].after)'
                             /\ InLog(poll[q].answer.base, poll[q].answer.last)'
         /\ Out' \subseteq Out \ {p}
<1>1. poll' \in [Slots -> Polls] /\ poll'[p] = Unsent /\ \A q \in Slots : q # p => poll'[q] = poll[q]
  BY UnsentFields DEF FInv, FeedTypeOK
<1>2. InLog(0, 0)
  BY DEF FInv, FeedTypeOK, NumbersInLog, InLog
<1>3. \A q \in Slots : InLog(poll[q].base, poll[q].after) /\ InLog(poll[q].answer.base, poll[q].answer.last)
  BY DEF FInv, NumbersInLog
<1>4. ASSUME NEW q \in Slots
      PROVE  InLog(poll[q].base, poll[q].after)' /\ InLog(poll[q].answer.base, poll[q].answer.last)'
  <2>1. CASE q = p
    BY <1>1, <1>2, <2>1, UnsentFields DEF InLog
  <2>2. CASE q # p
    BY <1>1, <1>3, <2>2 DEF InLog
  <2> QED BY <2>1, <2>2
<1>5. Out' \subseteq Out \ {p}
  BY <1>1, UnsentFields DEF Out
<1> QED BY <1>1, <1>4, <1>5, UnsentFields

LEMMA FailKeeps == ASSUME NEW p \in Slots PROVE FInv /\ Fail(p) => FInv'
<1> SUFFICES ASSUME FInv, Fail(p) PROVE FInv'
  OBVIOUS
<1>0. /\ poll' = [poll EXCEPT ![p] = Unsent]
      /\ UNCHANGED <<base, emitted, openedAt, lastSeq, shown, seqBase, repeated, oldAlert, overlapped, passedOver>>
  BY DEF Fail, logVars, seenVars
<1>1. /\ poll' \in [Slots -> Polls]
      /\ \A q \in Slots : poll'[q].state = "idle" \/ poll'[q] = poll[q]
      /\ \A q \in Slots : /\ InLog(poll[q].base, poll[q].after)'
                          /\ InLog(poll[q].answer.base, poll[q].answer.last)'
      /\ Out' \subseteq Out
  BY <1>0, PollDone
<1>2. FeedTypeOK'
  BY <1>0, <1>1 DEF FInv, FeedTypeOK
<1>3. NumbersInLog'
  BY <1>0, <1>1 DEF FInv, NumbersInLog, InLog
<1>4. PastAccounted' /\ ReadAccounted'
  BY <1>0, <1>1 DEF FInv, PastAccounted, ReadAccounted, Accounted, OfThisProcess
<1>5. ~overlapped' => InTurn'
  BY <1>0, <1>1 DEF FInv, InTurn, Horizon, AnswerAhead
<1> QED BY <1>2, <1>3, <1>4, <1>5 DEF FInv

\* The page moves on to the number of the answer, with what was up to it.
LEMMA TakeInKeeps == ASSUME NEW p \in Slots PROVE FInv /\ TakeIn(p) => FInv'
<1> SUFFICES ASSUME FInv, TakeIn(p) PROVE FInv'
  OBVIOUS
<1> DEFINE a == poll[p].answer
<1>0. /\ poll[p].state = "answered" /\ poll' = [poll EXCEPT ![p] = Unsent]
      /\ shown' = shown \cup a.events
      /\ repeated' = (repeated \/ shown \cap a.events # {})
      /\ oldAlert' = (oldAlert \/ \E e \in Alerting(a.events) : e <= openedAt)
      /\ lastSeq' = (IF a.last = 0 THEN -1 ELSE a.last)
      /\ seqBase' = a.base
      /\ UNCHANGED <<base, emitted, openedAt, overlapped, passedOver>>
      /\ base \in Nat /\ emitted \in Nat /\ seqBase \in Nat /\ lastSeq \in Int /\ base <= emitted
      /\ openedAt \in Int /\ openedAt <= emitted
  BY DEF FInv, FeedTypeOK, TakeIn, logVars, NumbersInLog
<1>1. /\ a.events \subseteq Nat /\ a.last \in Nat /\ a.base \in Nat /\ InLog(a.base, a.last)
  BY PollTypes DEF FInv, NumbersInLog
<1>2. /\ poll' \in [Slots -> Polls]
      /\ \A q \in Slots : \/ q = p /\ poll'[q].state = "idle"
                          \/ q # p /\ poll'[q] = poll[q]
      /\ \A q \in Slots : /\ InLog(poll[q].base, poll[q].after)'
                          /\ InLog(poll[q].answer.base, poll[q].answer.last)'
      /\ Out' \subseteq Out \ {p}
  BY <1>0, PollDone
<1>3. FeedTypeOK'
  <2>1. shown' \subseteq Nat
    BY <1>0, <1>1 DEF FInv, FeedTypeOK
  <2>2. lastSeq' \in Nat \cup {-1} /\ seqBase' \in Nat
    BY <1>0, <1>1
  <2>3. /\ repeated' \in BOOLEAN /\ oldAlert' \in BOOLEAN /\ overlapped' \in BOOLEAN
        /\ passedOver' \subseteq Nat /\ openedAt' \in Nat \cup {NotOpen}
    BY <1>0 DEF FInv, FeedTypeOK
  <2> QED BY <1>0, <1>2, <2>1, <2>2, <2>3 DEF FeedTypeOK
<1>4. InLog(seqBase, lastSeq)'
  BY <1>0, <1>1 DEF InLog
<1>5. NumbersInLog'
  BY <1>0, <1>2, <1>4 DEF NumbersInLog
<1>6. \A e : Accounted(e) => Accounted(e)'
  BY <1>0 DEF Accounted
<1>7. PastAccounted'
  BY <1>0, <1>6 DEF FInv, PastAccounted
<1>8. ReadAccounted'
  <2>1. ASSUME a.base = base, NEW e \in OfThisProcess, e - base <= lastSeq'
        PROVE  Accounted(e)'
    <3>1. e - base <= a.last
      BY <1>0, <1>1, <2>1 DEF OfThisProcess
    <3>2. Accounted(e) \/ e \in a.events
      BY <1>0, <2>1, <3>1 DEF FInv, ReadAccounted
    <3> QED BY <1>0, <1>6, <3>2 DEF Accounted
  <2>2. OfThisProcess' = OfThisProcess /\ base' = base
    BY <1>0 DEF OfThisProcess
  <2>3. (seqBase = base => \A e \in OfThisProcess : e - base <= lastSeq => Accounted(e))'
    BY <1>0, <2>1, <2>2
  <2>4. \A q \in Slots : poll'[q].state # "idle" => poll'[q] = poll[q]
    BY <1>2
  <2> QED BY <1>6, <2>2, <2>3, <2>4 DEF FInv, ReadAccounted
<1>9. ASSUME ~overlapped' PROVE InTurn'
  <2>1. InTurn /\ AnswerAhead(p) /\ p \in Out
    BY <1>0, <1>9 DEF FInv, InTurn, Out
  <2>2. Out' = {} /\ \A q \in Slots : poll'[q].state \notin {"asked", "answered"}
    <3>1. Out' = {}
      BY <1>2, <2>1 DEF InTurn
    <3> QED BY <3>1 DEF Out
  <2>3. /\ \A e \in a.events : e \notin shown /\ e <= a.base + a.last
        /\ lastSeq # 0 => \A e \in a.events : e > openedAt
        /\ openedAt <= a.base + a.last /\ seqBase <= a.base
        /\ a.base = base => Horizon <= base + a.last
    BY <2>1 DEF AnswerAhead
  <2>4. ~repeated'
    BY <1>0, <2>1, <2>3 DEF InTurn
  <2>5. ~oldAlert'
    <3>1. ~\E e \in Alerting(a.events) : e <= openedAt
      BY <1>0, <1>1, <2>3 DEF Alerting
    <3> QED BY <1>0, <2>1, <3>1 DEF InTurn
  <2>6. lastSeq' # 0
    BY <1>0, <1>1
  <2>7. Horizon' \in Nat /\ a.base + a.last <= Horizon' /\ Horizon <= Horizon' /\ Horizon \in Nat
    <3>1. Horizon \in Nat
      BY HorizonType DEF FInv
    <3>2. CASE a.base = base
      <4>1. Horizon' = base + a.last
        BY <1>0, <1>1, <3>2 DEF Horizon
      <4> QED BY <1>0, <1>1, <2>3, <3>1, <3>2, <4>1
    <3>3. CASE a.base # base
      <4>1. Horizon' = base /\ Horizon = base
        BY <1>0, <1>1, <2>3, <3>3 DEF Horizon, InLog
      <4> QED BY <1>0, <1>1, <3>3, <4>1 DEF InLog
    <3> QED BY <3>2, <3>3
  <2>8. openedAt' <= Horizon'
    BY <1>0, <1>1, <2>3, <2>7
  <2>9. \A e \in shown' : e <= Horizon'
    <3>1. \A e \in shown : e \in Nat /\ e <= Horizon
      BY <2>1 DEF InTurn, FInv, FeedTypeOK
    <3>2. \A e \in a.events : e \in Nat /\ e <= a.base + a.last
      BY <1>1, <2>3
    <3> QED BY <1>0, <1>1, <2>7, <3>1, <3>2
  <2>10. openedAt' # NotOpen
    BY <1>0, <2>1 DEF InTurn
  <2> QED BY <2>2, <2>4, <2>5, <2>6, <2>8, <2>9, <2>10 DEF InTurn
<1> QED BY <1>3, <1>5, <1>7, <1>8, <1>9 DEF FInv

-----------------------------------------------------------------------------
(* The steps of the composition, as the page sees them.                    *)

LEMMA FeedSteps ==
  [Next]_watchVars => \/ Emit \/ RestartServer \/ OpenPage \/ UNCHANGED feedVars
                      \/ \E p \in Slots : Poll(p) \/ Serve(p) \/ Fail(p) \/ TakeIn(p)
BY DEF Next, StartRun, Change, Rollback, EndRun, Restart, OtherEvent, PollStatus, PageReads, PageStep, watchVars

LEMMA StutterKeeps == FInv /\ UNCHANGED feedVars => FInv'
<1> SUFFICES ASSUME FInv, UNCHANGED feedVars PROVE FInv'
  OBVIOUS
<1>1. UNCHANGED <<base, emitted, openedAt, lastSeq, poll, shown, seqBase, repeated, oldAlert, overlapped, passedOver>>
  BY DEF feedVars, logVars, pageVars, seenVars
<1> QED BY <1>1 DEF FInv, FeedTypeOK, NumbersInLog, InLog, PastAccounted, ReadAccounted, Accounted,
                    OfThisProcess, InTurn, Horizon, AnswerAhead, Out

\* The page and the log keep FInv whatever the runs and the view do (app.js
\* pollEvents, EventLog.events_after).
THEOREM FeedInductive == Spec => []FInv
<1>1. Init => FInv
  <2> SUFFICES ASSUME Init PROVE FInv
    OBVIOUS
  <2>0. /\ base = 0 /\ emitted = 0 /\ openedAt = NotOpen /\ lastSeq = 0 /\ shown = {} /\ seqBase = 0
        /\ repeated = FALSE /\ oldAlert = FALSE /\ overlapped = FALSE /\ passedOver = {}
        /\ poll = [p \in Slots |-> Unsent]
    BY DEF Init, FeedInit
  <2>1. FeedTypeOK
    BY <2>0, UnsentFields DEF FeedTypeOK
  <2>2. NumbersInLog
    BY <2>0, UnsentFields DEF NumbersInLog, InLog
  <2>3. \A e : e \notin OfThisProcess
    BY <2>0 DEF OfThisProcess
  <2>4. \A p \in Slots : poll[p].state = "idle"
    BY <2>0, UnsentFields
  <2>5. Out = {}
    BY <2>4 DEF Out
  <2> QED BY <2>0, <2>1, <2>2, <2>3, <2>4, <2>5 DEF FInv, PastAccounted, ReadAccounted, InTurn
<1>2. FInv /\ [Next]_watchVars => FInv'
  BY FeedSteps, EmitKeeps, RestartKeeps, OpenKeeps, PollKeeps, ServeKeeps, FailKeeps, TakeInKeeps,
     StutterKeeps
<1> QED BY <1>1, <1>2, PTL DEF Spec

\* A page at the numbers of the server's process has every event up to its own
\* but those past the end of a full page, out of the ring or before a restart,
\* however its polls overlap (EventLog.events_after, app.js pollEvents).
THEOREM NoEventMissed == Spec => []MissedForCause
<1>1. FInv => MissedForCause
  <2> SUFFICES ASSUME FInv, seqBase = base, NEW e \in 1..emitted, e <= base \/ e - base <= lastSeq
               PROVE  e \in shown \cup passedOver
    BY DEF MissedForCause
  <2>1. base \in Nat /\ emitted \in Nat
    BY DEF FInv, FeedTypeOK
  <2>2. CASE e <= base
    BY <2>1, <2>2 DEF FInv, PastAccounted, Accounted
  <2>3. CASE e > base /\ e - base <= lastSeq
    BY <2>1, <2>3 DEF FInv, ReadAccounted, Accounted, OfThisProcess
  <2> QED BY <2>1, <2>2, <2>3
<1> QED BY <1>1, FeedInductive, PTL

-----------------------------------------------------------------------------
(* The console view: the inductive invariant.                              *)

RunTypeOK ==
  /\ started \in Nat /\ run \in Nat
  /\ phase \in {"idle", "running"} \cup TERMINAL
  /\ ignored \in Nat /\ watching \in Nat /\ summarised \in Nat /\ overBefore \in Nat
  /\ firstPollDone \in BOOLEAN /\ finished \in BOOLEAN

ListTypeOK ==
  /\ changed \in 0..MaxChanges /\ changedBy \in [1..MaxChanges -> Nat]
  /\ looked \in 0..changed
  /\ \A f \in Fields : newest[f] \in 0..changed /\ since[f] \in 0..looked
  /\ \A l \in listed : l.field \in Fields /\ l.change \in 1..changed

\* The server shows the last run that was started, or none.
LastRunShown ==
  /\ run \in {NoRun, started} /\ (run = NoRun <=> phase = "idle")
  /\ overBefore <= started /\ watching <= started

\* A run that was over at the first answer and is still shown is the one the
\* view ignores, so that what it watches was started after it.
PastIgnored ==
  /\ ~firstPollDone => watching = NoRun /\ overBefore = 0
  /\ firstPollDone /\ watching = NoRun /\ run # NoRun /\ run <= overBefore => run = ignored
  /\ watching # NoRun => watching > overBefore
  /\ finished => watching # NoRun /\ summarised > overBefore /\ summarised >= watching

\* A field that is not what the view last saw has changed since.
MovedSinceLook ==
  \A f \in Fields : seen[f] # None /\ charger[f] # seen[f] => newest[f] > looked

\* No run before the watched one made the change, for all a run knows.
OfWatch(c) == changedBy[c] = NoRun \/ changedBy[c] >= watching

\* Every change since the first poll of the watch is of the watched run or of a
\* later one, and what is listed is newer than the look it was compared with.
ChangesOfWatch ==
  /\ watching = NoRun => listed = {}
  /\ \A c \in 1..changed : watching # NoRun /\ c > since["state"] => OfWatch(c)
  /\ \A l \in listed : l.change > since[l.field] /\ (l.field = "state" => OfWatch(l.change))

RInv == RunTypeOK /\ LastRunShown /\ PastIgnored
LInv == ListTypeOK /\ MovedSinceLook /\ ChangesOfWatch
VInv == RInv /\ LInv

LEMMA ServerRunKeeps ==
  ASSUME RInv, StartRun \/ EndRun \/ Restart
  PROVE  RInv'
<1>1. /\ UNCHANGED <<firstPollDone, ignored, watching, finished, summarised, overBefore>>
      /\ \/ started' = started + 1 /\ run' = started + 1 /\ phase' = "running"
         \/ started' = started /\ run' = run /\ phase' \in TERMINAL /\ phase = "running"
         \/ started' = started /\ run' = NoRun /\ phase' = "idle"
  BY DEF StartRun, EndRun, Restart, viewVars, trackerVars, lookVars
<1>2. RunTypeOK'
  BY <1>1 DEF RInv, RunTypeOK, NoRun
<1>3. LastRunShown'
  BY <1>1 DEF RInv, RunTypeOK, LastRunShown, NoRun, TERMINAL
<1>4. PastIgnored'
  BY <1>1 DEF RInv, RunTypeOK, LastRunShown, PastIgnored, NoRun
<1> QED BY <1>2, <1>3, <1>4 DEF RInv

\* A change by a run that is shown, or by a restart, is newer than every look.
LEMMA AlterKeeps ==
  ASSUME LInv, NEW new, NEW by \in Nat, by = NoRun \/ by >= watching, watching \in Nat,
         Alter(new, by), UNCHANGED viewVars
  PROVE  LInv'
<1>0. /\ changed < MaxChanges /\ charger' = new /\ changed' = changed + 1
      /\ changedBy' = [changedBy EXCEPT ![changed + 1] = by]
      /\ newest' = [f \in Fields |-> IF new[f] # charger[f] THEN changed + 1 ELSE newest[f]]
      /\ UNCHANGED <<watching, seen, listed, looked, since>>
  BY DEF Alter, viewVars, trackerVars, lookVars
<1>1. /\ changed \in Nat /\ changed + 1 \in 1..MaxChanges /\ looked \in 0..changed
      /\ changed' \in 0..MaxChanges
      /\ \A c \in 1..changed : c \in 1..changed' /\ c \in 1..MaxChanges /\ c # changed + 1
      /\ \A c \in 1..changed' : c \in 1..changed \/ c = changed + 1
  BY <1>0, WatchAssumption DEF LInv, ListTypeOK, WatchAssumption
<1>2. /\ changedBy \in [1..MaxChanges -> Nat] /\ changedBy' \in [1..MaxChanges -> Nat]
      /\ changedBy'[changed + 1] = by /\ \A c \in 1..changed : changedBy'[c] = changedBy[c]
  BY <1>0, <1>1 DEF LInv, ListTypeOK
<1>3. \A f \in Fields : newest[f] \in 0..changed /\ since[f] \in 0..looked
  BY DEF LInv, ListTypeOK
<1>4. \A f \in Fields : \/ newest'[f] = changed + 1
                        \/ newest'[f] = newest[f] /\ charger'[f] = charger[f]
  BY <1>0
<1>5. ListTypeOK'
  <2>1. \A f \in Fields : newest'[f] \in 0..changed' /\ since'[f] \in 0..looked'
    BY <1>0, <1>1, <1>3, <1>4
  <2>2. \A l \in listed' : l.field \in Fields /\ l.change \in 1..changed'
    BY <1>0, <1>1 DEF LInv, ListTypeOK
  <2>3. looked' \in 0..changed'
    BY <1>0, <1>1
  <2> QED BY <1>1, <1>2, <2>1, <2>2, <2>3 DEF ListTypeOK
<1>6. MovedSinceLook'
  <2> SUFFICES ASSUME NEW f \in Fields, seen[f] # None, charger'[f] # seen[f]
               PROVE  newest'[f] > looked
    BY <1>0 DEF MovedSinceLook
  <2>1. CASE newest'[f] = changed + 1
    BY <1>1, <2>1
  <2>2. CASE newest'[f] = newest[f] /\ charger'[f] = charger[f]
    BY <2>2 DEF LInv, MovedSinceLook
  <2> QED BY <1>4, <2>1, <2>2
<1>7. ChangesOfWatch'
  <2>1. \A c \in 1..changed : OfWatch(c) => OfWatch(c)'
    BY <1>0, <1>2 DEF OfWatch
  <2>2. \A c : c = changed + 1 => OfWatch(c)'
    BY <1>0, <1>2 DEF OfWatch
  <2>3. \A c \in 1..changed' : watching # NoRun /\ c > since["state"] => OfWatch(c)'
    BY <1>1, <2>1, <2>2 DEF LInv, ChangesOfWatch
  <2>4. \A l \in listed : l.change > since[l.field] /\ (l.field = "state" => OfWatch(l.change)')
    BY <2>1 DEF LInv, ListTypeOK, ChangesOfWatch
  <2> QED BY <1>0, <2>3, <2>4 DEF LInv, ChangesOfWatch
<1> QED BY <1>5, <1>6, <1>7 DEF LInv

LEMMA LookKept ==
  ASSUME LInv, UNCHANGED <<charger, changed, changedBy, newest>>, UNCHANGED viewVars
  PROVE  LInv'
BY DEF viewVars, trackerVars, lookVars, LInv, ListTypeOK, MovedSinceLook, ChangesOfWatch, OfWatch

\* The steps of the server: a run is shown when it changes the charger, and a
\* run that is shown is the last one.
LEMMA ServerKeeps ==
  ASSUME VInv, StartRun \/ EndRun \/ Restart \/ Change \/ Rollback
  PROVE  VInv'
<1>0. /\ RInv /\ LInv /\ watching \in Nat /\ run \in Nat /\ NoRun \in Nat
      /\ phase # "idle" => run >= watching
  BY DEF VInv, RInv, RunTypeOK, LastRunShown, NoRun
<1>1. RInv'
  <2>1. CASE Change \/ Rollback
    <3>1. UNCHANGED <<started, run, phase, firstPollDone, ignored, watching, finished, summarised,
                      overBefore>>
      BY <2>1 DEF Change, Rollback, runVars, viewVars, trackerVars, lookVars
    <3> QED BY <1>0, <3>1 DEF RInv, RunTypeOK, LastRunShown, PastIgnored
  <2> QED BY <1>0, <2>1, ServerRunKeeps
<1>2. LInv'
  <2>1. CASE StartRun \/ EndRun
    <3>1. UNCHANGED <<charger, changed, changedBy, newest>> /\ UNCHANGED viewVars
      BY <2>1 DEF StartRun, EndRun, chargerVars
    <3> QED BY <1>0, <3>1, LookKept
  <2>2. CASE Restart
    <3>1. UNCHANGED viewVars /\ (UNCHANGED <<charger, changed, changedBy, newest>> \/ Alter(previous, NoRun))
      BY <2>2 DEF Restart
    <3> QED BY <1>0, <3>1, LookKept, AlterKeeps
  <2>3. CASE Change
    <3>1. UNCHANGED viewVars /\ phase # "idle" /\ \E new \in Chargers : Alter(new, run)
      BY <2>3 DEF Change
    <3> QED BY <1>0, <3>1, AlterKeeps
  <2>4. CASE Rollback
    <3>1. UNCHANGED viewVars /\ phase # "idle" /\ \E new \in Chargers : Alter(new, run)
      BY <2>4 DEF Rollback, TERMINAL
    <3> QED BY <1>0, <3>1, AlterKeeps
  <2> QED BY <2>1, <2>2, <2>3, <2>4
<1> QED BY <1>1, <1>2 DEF VInv

\* What a poll lists has changed since the poll before, and is no state that
\* changed before the watch.
LEMMA PollStatusLists ==
  ASSUME LInv, watching \in Nat, PollStatus
  PROVE  LInv'
<1> DEFINE kept == IF WatchStarts THEN {} ELSE listed
           added == {[field |-> f, change |-> newest[f]] : f \in Moved}
<1>0. /\ watching' = Watched /\ seen' = charger /\ looked' = changed
      /\ listed' = (IF Watched = NoRun THEN listed ELSE kept \cup added)
      /\ since' = (IF WatchStarts THEN [f \in Fields |-> IF f = "state" THEN changed ELSE looked]
                   ELSE since)
      /\ UNCHANGED <<charger, changed, changedBy, newest>>
  BY DEF PollStatus, chargerVars
<1>1. /\ changed \in Nat /\ changed \in 0..MaxChanges /\ looked \in 0..changed
      /\ changedBy \in [1..MaxChanges -> Nat]
      /\ \A f \in Fields : newest[f] \in 0..changed /\ since[f] \in 0..looked
      /\ \A l \in listed : l.field \in Fields /\ l.change \in 1..changed
  BY WatchAssumption DEF LInv, ListTypeOK, WatchAssumption
<1>2. Fields = {"state", "key"}
  BY DEF Fields
<1>3. /\ WatchStarts <=> watching = NoRun /\ Watched # NoRun
      /\ watching # NoRun => Watched = watching
      /\ Watched = NoRun => watching = NoRun
  BY DEF WatchStarts, Watched
<1>4. \A f \in Fields : since'[f] \in 0..changed
  BY <1>0, <1>1
<1>5. \A f \in Moved : /\ f \in Fields /\ newest[f] \in 1..changed /\ newest[f] > looked
                       /\ WatchStarts => f # "state"
  <2> SUFFICES ASSUME NEW f \in Fields, Remembered[f] # None, Remembered[f] # charger[f]
               PROVE  newest[f] \in 1..changed /\ newest[f] > looked /\ (WatchStarts => f # "state")
    BY DEF Moved
  <2>1. Remembered[f] = seen[f] /\ (WatchStarts => f # "state")
    BY DEF Remembered
  <2>2. newest[f] > looked
    BY <2>1 DEF LInv, MovedSinceLook
  <2> QED BY <1>1, <2>1, <2>2
<1>6. \A f \in Moved : newest[f] > since'[f]
  <2> SUFFICES ASSUME NEW f \in Moved PROVE newest[f] > since'[f]
    OBVIOUS
  <2>1. f \in Fields /\ newest[f] \in Nat /\ newest[f] > looked /\ since[f] \in 0..looked
    BY <1>1, <1>5
  <2>2. CASE WatchStarts
    <3>1. since'[f] = looked
      BY <1>0, <1>5, <2>1, <2>2
    <3> QED BY <2>1, <3>1
  <2>3. CASE ~WatchStarts
    BY <1>0, <1>1, <2>1, <2>3
  <2> QED BY <2>2, <2>3
<1>7. ASSUME NEW l \in listed'
      PROVE  l \in kept \/ Watched = NoRun \/ \E f \in Moved : l = [field |-> f, change |-> newest[f]]
  BY <1>0
<1>8. Watched = NoRun => listed' = {}
  BY <1>0, <1>3 DEF LInv, ChangesOfWatch
<1>9. ListTypeOK'
  <2>1. ASSUME NEW l \in listed' PROVE l.field \in Fields /\ l.change \in 1..changed
    <3>1. CASE l \in kept
      BY <1>1, <3>1
    <3>2. CASE \E f \in Moved : l = [field |-> f, change |-> newest[f]]
      BY <1>5, <3>2
    <3> QED BY <1>7, <1>8, <3>1, <3>2
  <2>2. looked' \in 0..changed'
    BY <1>0, <1>1
  <2>3. \A f \in Fields : newest'[f] \in 0..changed' /\ since'[f] \in 0..looked'
    BY <1>0, <1>1, <1>4
  <2>4. \A l \in listed' : l.field \in Fields /\ l.change \in 1..changed'
    BY <1>0, <2>1
  <2> QED BY <1>0, <1>1, <2>2, <2>3, <2>4 DEF ListTypeOK
<1>10. MovedSinceLook'
  BY <1>0 DEF MovedSinceLook
<1>11. ChangesOfWatch'
  <2>1. ASSUME NEW c \in 1..changed, Watched # NoRun, c > since'["state"] PROVE OfWatch(c)'
    <3>1. CASE WatchStarts
      <4>1. since'["state"] = changed
        BY <1>0, <1>2, <3>1
      <4> QED BY <1>1, <2>1, <4>1
    <3>2. CASE ~WatchStarts
      <4>1. watching # NoRun /\ watching' = watching /\ since' = since
        BY <1>0, <1>3, <2>1, <3>2
      <4>2. OfWatch(c)
        BY <2>1, <4>1 DEF LInv, ChangesOfWatch
      <4> QED BY <1>0, <4>1, <4>2 DEF OfWatch
    <3> QED BY <3>1, <3>2
  <2>2. ASSUME NEW l \in listed'
        PROVE  l.change > since'[l.field] /\ (l.field = "state" => OfWatch(l.change)')
    <3>0. Watched # NoRun
      BY <1>8
    <3>1. CASE l \in kept
      <4>1. ~WatchStarts /\ l \in listed
        BY <3>1
      <4>2. watching' = watching /\ since' = since
        BY <1>0, <1>3, <3>0, <4>1
      <4>3. l.change > since[l.field] /\ (l.field = "state" => OfWatch(l.change))
        BY <4>1 DEF LInv, ChangesOfWatch
      <4> QED BY <1>0, <4>2, <4>3 DEF OfWatch
    <3>2. CASE \E f \in Moved : l = [field |-> f, change |-> newest[f]]
      <4> PICK f \in Moved : l = [field |-> f, change |-> newest[f]]
        BY <3>2
      <4>1. l.field = f /\ l.change = newest[f]
        OBVIOUS
      <4>2. newest[f] > since'[f] /\ newest[f] \in 1..changed
        BY <1>5, <1>6
      <4>3. f = "state" => \A c \in 1..changed : c = newest[f] => OfWatch(c)'
        BY <2>1, <3>0, <4>2
      <4>4. l.field = "state" => OfWatch(l.change)'
        BY <4>1, <4>2, <4>3
      <4>5. l.change > since'[l.field]
        BY <4>1, <4>2
      <4> QED BY <4>4, <4>5
    <3> QED BY <1>7, <3>0, <3>1, <3>2
  <2> QED BY <1>0, <1>8, <2>1, <2>2 DEF ChangesOfWatch
<1> QED BY <1>9, <1>10, <1>11 DEF LInv

LEMMA PollStatusKeeps == ASSUME VInv, PollStatus PROVE VInv'
<1>0. /\ ~finished /\ firstPollDone' = TRUE /\ ignored' = Ignored /\ watching' = Watched
      /\ finished' = (Watched # NoRun /\ phase \in TERMINAL)
      /\ summarised' = (IF finished' THEN run ELSE NoRun)
      /\ overBefore' = (IF firstPollDone THEN overBefore
                        ELSE IF phase = "running" THEN started - 1 ELSE started)
      /\ UNCHANGED <<started, run, phase, charger, changed, changedBy, newest>>
  BY DEF PollStatus, runVars, chargerVars
<1>1. /\ started \in Nat /\ run \in Nat /\ watching \in Nat /\ ignored \in Nat
      /\ overBefore \in Nat /\ NoRun = 0
      /\ run \in {NoRun, started} /\ (run = NoRun <=> phase = "idle")
      /\ overBefore <= started /\ watching <= started
      /\ phase \in {"idle", "running"} \cup TERMINAL
      /\ phase = "idle" => phase \notin TERMINAL
      /\ phase = "running" => phase \notin TERMINAL
      /\ firstPollDone \in BOOLEAN
  BY DEF VInv, RInv, RunTypeOK, LastRunShown, NoRun, TERMINAL
<1>3. Watched \in Nat /\ Ignored \in Nat /\ Watched <= started
  BY <1>1 DEF Watched, Ignored
<1>4. RunTypeOK'
  <2>1. overBefore' \in Nat
    BY <1>0, <1>1
  <2>2. summarised' \in Nat /\ finished' \in BOOLEAN
    BY <1>0, <1>1
  <2> QED BY <1>0, <1>3, <2>1, <2>2 DEF VInv, RInv, RunTypeOK
<1>5. LastRunShown'
  BY <1>0, <1>1, <1>3 DEF LastRunShown
<1>6. Watched # NoRun => Watched > overBefore'
  <2>1. CASE watching # NoRun
    BY <1>0, <1>1, <2>1 DEF Watched, VInv, RInv, PastIgnored
  <2>2. CASE watching = NoRun /\ ~firstPollDone
    BY <1>0, <1>1, <2>2 DEF Watched, Ignored
  <2>3. CASE watching = NoRun /\ firstPollDone
    BY <1>0, <1>1, <2>3 DEF Watched, Ignored, VInv, RInv, PastIgnored
  <2> QED BY <1>1, <2>1, <2>2, <2>3
<1>7. PastIgnored'
  <2>1. watching' = NoRun /\ run' # NoRun /\ run' <= overBefore' => run' = ignored'
    BY <1>0, <1>1 DEF Watched, Ignored, VInv, RInv, PastIgnored
  <2>2. finished' => watching' # NoRun /\ summarised' > overBefore' /\ summarised' >= watching'
    <3>1. finished' => summarised' = run /\ run = started
      BY <1>0, <1>1
    <3>2. overBefore' \in Nat
      BY <1>4 DEF RunTypeOK
    <3>3. finished' => Watched # NoRun /\ Watched > overBefore'
      BY <1>0, <1>6
    <3>4. finished' => summarised' > overBefore' /\ summarised' >= Watched
      BY <1>1, <1>3, <3>1, <3>2, <3>3
    <3> QED BY <1>0, <3>3, <3>4
  <2> QED BY <1>0, <1>6, <2>1, <2>2 DEF PastIgnored
<1>8. RInv'
  BY <1>4, <1>5, <1>7 DEF RInv
<1>9. LInv'
  <2>0. LInv /\ watching \in Nat
    BY DEF VInv, RInv, RunTypeOK
  <2> QED BY <2>0, PollStatusLists
<1> QED BY <1>8, <1>9 DEF VInv

\* What the view watches and lists is VInv's (watch_migration.py Tracker.update).
THEOREM ViewInductive == Spec => []VInv
<1>1. Init => VInv
  <2> SUFFICES ASSUME Init PROVE VInv
    OBVIOUS
  <2>1. RInv
    <3>1. RunTypeOK
      BY DEF Init, RunTypeOK, NoRun
    <3>2. LastRunShown /\ PastIgnored
      BY DEF Init, LastRunShown, PastIgnored, NoRun
    <3> QED BY <3>1, <3>2 DEF RInv
  <2>2. /\ changed = 0 /\ looked = 0 /\ listed = {} /\ watching = NoRun
        /\ changedBy = [c \in 1..MaxChanges |-> NoRun]
        /\ \A f \in Fields : newest[f] = 0 /\ since[f] = 0 /\ seen[f] = None
    BY DEF Init
  <2>3. ListTypeOK
    <3>1. changed \in 0..MaxChanges /\ looked \in 0..changed
      BY <2>2, WatchAssumption DEF WatchAssumption
    <3>2. changedBy \in [1..MaxChanges -> Nat]
      BY <2>2 DEF NoRun
    <3> QED BY <2>2, <3>1, <3>2 DEF ListTypeOK
  <2>4. MovedSinceLook /\ ChangesOfWatch
    BY <2>2 DEF MovedSinceLook, ChangesOfWatch
  <2> QED BY <2>1, <2>3, <2>4 DEF VInv, LInv
<1>2. VInv /\ [Next]_watchVars => VInv'
  <2> SUFFICES ASSUME VInv, [Next]_watchVars PROVE VInv'
    OBVIOUS
  <2>1. CASE OtherEvent \/ PageReads \/ UNCHANGED watchVars
    <3>1. UNCHANGED <<runVars, chargerVars, viewVars>>
      BY <2>1 DEF OtherEvent, PageReads, watchVars
    <3>2. RInv'
      BY <3>1 DEF runVars, viewVars, trackerVars, lookVars, VInv, RInv, RunTypeOK, LastRunShown,
                  PastIgnored
    <3>3. LInv'
      BY <3>1, LookKept DEF VInv, chargerVars
    <3> QED BY <3>2, <3>3 DEF VInv
  <2> QED BY <2>1, ServerKeeps, PollStatusKeeps DEF Next
<1> QED BY <1>1, <1>2, PTL DEF Spec

\* Nobody takes the past for news: with one poll at a time the page takes an
\* event in once and alerts of nothing from before it was opened, and the view
\* reports no run that was over when it started (app.js onEvent,
\* watch_migration.py Tracker.update).  A change it lists was made after the look
\* it is measured from, of a state the first poll of the watch and of a key, which
\* a watch does not forget, the poll before that; and a listed state was changed
\* by no run before the watched one.
THEOREM PastIsNotNews == Spec => []OnlyNews
<1>1. FInv => OldStaysQuiet
  BY DEF FInv, FeedTypeOK, InTurn, OldStaysQuiet
<1>2. VInv => (finished => summarised > overBefore /\ summarised >= watching)
  BY DEF VInv, RInv, PastIgnored
<1>3. VInv => ListedSinceLook
  BY DEF VInv, LInv, ChangesOfWatch, OfWatch, ListedSinceLook
<1> QED BY <1>1, <1>2, <1>3, FeedInductive, ViewInductive, PTL DEF OnlyNews
=============================================================================

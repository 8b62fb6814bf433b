-------------------------------- MODULE Feed --------------------------------
(***************************************************************************)
(* The event log of the server and a page that follows it.                 *)
(*                                                                         *)
(*   - csms/events.py EventLog: emit numbers the events of one process and *)
(*     keeps the newest RECENT_EVENTS of them; events_after answers a      *)
(*     reader with one page of what is newer than its number and with the  *)
(*     newest number of all; a restarted server numbers from one again;    *)
(*   - csms/server.py GET /api/events, directly or through                 *)
(*     dashboard/serve.py, which answers 502 while the server is down;     *)
(*   - dashboard/static/app.js pollEvents, on a timer of half a second     *)
(*     that does not wait for the answer to the poll before.               *)
(*                                                                         *)
(* Events are numbered here over all processes, 1, 2, ...: event e of the  *)
(* process that began after `base` events carries the number e - base.     *)
(***************************************************************************)
EXTENDS Integers, FiniteSets

CONSTANTS
  Ring,        \* RECENT_EVENTS
  Page,        \* the page's `limit`
  MaxEvents,   \* bound: events
  MaxPolls,    \* bound: polls of the page
  MaxRestarts  \* bound: restarts of the server

ASSUME FeedAssumption ==
  /\ Ring \in Nat \ {0} /\ Page \in Int
  /\ MaxEvents \in Nat /\ MaxPolls \in Nat /\ MaxRestarts \in Nat

Slots  == 1..2  \* polls that may be out at the same time
NotOpen == -1

VARIABLES
  base, emitted,  \* events before this process, events in all
  restarts,       \* bound
  openedAt,       \* events emitted when the page was opened, NotOpen before
  lastSeq,        \* S.lastSeq
  poll,           \* the polls: state, number sent, answer
  asked,          \* bound: polls sent
  shown,          \* events the page has taken in
  seqBase,        \* history: `base` of the process that gave lastSeq
  repeated,       \* history: an event was taken in a second time
  oldAlert,       \* history: an event from before the page opened was shown as
                  \* one that may raise an alert (mode 0 of onEvent)
  overlapped,     \* history: two polls were out at the same time
  passedOver      \* history: events a reader is known not to get

logVars  == <<base, emitted, restarts>>
pageVars == <<openedAt, lastSeq, poll, asked, shown>>
seenVars == <<seqBase, repeated, oldAlert, overlapped, passedOver>>
feedVars == <<logVars, pageVars, seenVars>>

NoAnswer == [events |-> {}, last |-> 0, base |-> 0]
Unsent   == [state |-> "idle", after |-> 0, base |-> 0, answer |-> NoAnswer]

Out == {p \in Slots : poll[p].state \in {"asked", "answered"}}

FeedInit ==
  /\ base = 0 /\ emitted = 0 /\ restarts = 0
  /\ openedAt = NotOpen /\ lastSeq = 0
  /\ poll = [p \in Slots |-> Unsent]
  /\ asked = 0 /\ shown = {}
  /\ seqBase = 0 /\ repeated = FALSE /\ oldAlert = FALSE /\ overlapped = FALSE /\ passedOver = {}

-----------------------------------------------------------------------------
(* The log.                                                                *)

OfThisProcess == (base + 1)..emitted
Recent == {e \in OfThisProcess : e > emitted - Ring}

\* emit: on disk, then numbered and kept.
Emit ==
  /\ emitted < MaxEvents
  /\ emitted' = emitted + 1
  /\ UNCHANGED <<base, restarts, pageVars, seenVars>>

\* The oldest n members of a set of events.
Oldest(n, S) == {e \in S : Cardinality({d \in S : d < e}) < n}

\* Mutant of EventsAfter: the number sent is taken for the next one wanted, so
\* that an event is passed over when the page is full.
EventsAfterNext(after, limit) ==
  LET n == IF limit < 1 THEN 1 ELSE IF limit > Ring THEN Ring ELSE limit IN
  [events |-> Oldest(n, {e \in Recent : e - base > after + 1}),
   last |-> emitted - base, base |-> base]

\* events_after(after, limit).
EventsAfter(after, limit) ==
  LET n == IF limit < 1 THEN 1 ELSE IF limit > Ring THEN Ring ELSE limit IN
  [events |-> Oldest(n, {e \in Recent : e - base > after}),
   last |-> emitted - base, base |-> base]

\* What an answer to `after` leaves out for good: numbers taken for those of an
\* earlier process, events no longer kept, events past the end of the page.
LeftOut(after, of) ==
  LET gone == IF emitted - base > Ring THEN emitted - base - Ring ELSE 0
      from == IF after > gone THEN after ELSE gone
  IN {e \in OfThisProcess : \/ of # base /\ e - base <= after
                            \/ e - base > after /\ e - base <= gone
                            \/ e - base > from + Page}

\* A restart: polls that were not answered fail, what the page has not taken in
\* from this process stays unread.
RestartServer ==
  /\ restarts < MaxRestarts
  /\ restarts' = restarts + 1
  /\ base' = emitted
  /\ poll' = [p \in Slots |-> IF poll[p].state = "asked"
                              THEN Unsent ELSE poll[p]]
  /\ passedOver' = passedOver \cup {e \in OfThisProcess : seqBase # base \/ e - base > lastSeq}
  /\ UNCHANGED <<emitted, openedAt, lastSeq, asked, shown, seqBase, repeated, oldAlert, overlapped>>

-----------------------------------------------------------------------------
(* The page.                                                               *)

OpenPage ==
  /\ openedAt = NotOpen
  /\ openedAt' = emitted
  /\ UNCHANGED <<logVars, lastSeq, poll, asked, shown, seenVars>>

\* pollEvents, every half a second.
Poll(p) ==
  /\ openedAt # NotOpen /\ poll[p].state = "idle"
  /\ asked < MaxPolls /\ asked' = asked + 1
  /\ poll' = [poll EXCEPT ![p] =
                [Unsent EXCEPT !.state = "asked", !.after = lastSeq, !.base = seqBase]]
  /\ overlapped' = (overlapped \/ Out # {})
  /\ UNCHANGED <<logVars, openedAt, lastSeq, shown, seqBase, repeated, oldAlert, passedOver>>

\* GET /api/events at the server.
Serve(p) ==
  /\ poll[p].state = "asked"
  /\ poll' = [poll EXCEPT ![p].state = "answered",
                          ![p].answer = EventsAfter(poll[p].after, Page)]
  /\ passedOver' = passedOver \cup LeftOut(poll[p].after, poll[p].base)
  /\ UNCHANGED <<logVars, openedAt, lastSeq, asked, shown, seqBase, repeated, oldAlert, overlapped>>

\* The answer does not arrive, or is an error.
Fail(p) ==
  /\ p \in Out
  /\ poll' = [poll EXCEPT ![p] = Unsent]
  /\ UNCHANGED <<logVars, openedAt, lastSeq, asked, shown, seenVars>>

\* Mutant of Alerting: the first look raises alerts as well.
AlertingAtOnce(events) == events

\* Which events of an answer are shown in mode 0: none of the first look's.
Alerting(events) == IF lastSeq = 0 THEN {} ELSE events

\* The answer is taken in; -1 stands for "looked once" at an empty log.
TakeIn(p) ==
  LET answer == poll[p].answer IN
  /\ poll[p].state = "answered"
  /\ poll' = [poll EXCEPT ![p] = Unsent]
  /\ shown' = shown \cup answer.events
  /\ repeated' = (repeated \/ shown \cap answer.events # {})
  /\ oldAlert' = (oldAlert \/ \E e \in Alerting(answer.events) : e <= openedAt)
  /\ lastSeq' = IF answer.last = 0 THEN -1 ELSE answer.last
  /\ seqBase' = answer.base
  /\ UNCHANGED <<logVars, openedAt, asked, overlapped, passedOver>>

PageStep == OpenPage \/ \E p \in Slots : Poll(p) \/ Serve(p) \/ Fail(p) \/ TakeIn(p)

-----------------------------------------------------------------------------
(* Properties.                                                             *)

\* A page that follows the numbers of the server's process has taken in every
\* event up to its own number but those that were past the end of a full page
\* (events.py events_after: last_seq is the newest number, not the page's), had
\* left the ring, or fell to a restart, whichever order the answers came in and
\* whatever is still out.
MissedForCause ==
  seqBase = base =>
    \A e \in 1..emitted : e <= base \/ e - base <= lastSeq => e \in shown \cup passedOver

\* An event is taken in once, and nothing from before the page was opened can
\* raise an alert (app.js:206), as long as a poll is answered before the timer
\* sends the next one; when two are out at the same time neither holds.
OldStaysQuiet == repeated \/ oldAlert => overlapped
=============================================================================

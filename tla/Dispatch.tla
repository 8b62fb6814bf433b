------------------------------ MODULE Dispatch ------------------------------
(***************************************************************************)
(* Sending commands to a charger, and the charger's own key pair.          *)
(*                                                                         *)
(*   - csms/dispatch.py CommandDispatcher.send: use the session that is    *)
(*     current NOW; wait for the answer, the timeout or the closing of the *)
(*     socket, whichever comes first; every failure is a result.           *)
(*   - the ocpp library's call lock: one call at a time on a connection,   *)
(*     the others queue behind it (external code, seen from dispatch.py).  *)
(*   - csms/registry.py: which connection is the station's session.        *)
(*   - agent/pq_identity.py and station.py: making a key, signing.         *)
(*                                                                         *)
(* A caller of `send` is the orchestrator's coroutine for the station      *)
(* (Orch) or the boot check of one of its connections (the connection's    *)
(* number).  A key is the number of the RequestPQEnrolment that made it;   *)
(* 0 stands for no key.                                                    *)
(***************************************************************************)
EXTENDS Integers, FiniteSets

CONSTANTS
  Stations,  \* the provisioned chargers; numbers, because waves are cut from
             \* the list sorted by station id
  MaxConn,   \* bound: connections a charger opens
  MaxKeys    \* bound: keys a charger makes

ASSUME DispatchAssumption ==
  /\ Stations \subseteq Nat
  /\ IsFiniteSet(Stations)
  /\ MaxConn \in Nat \ {0}
  /\ MaxKeys \in Nat \ {0}

Conns   == 1..MaxConn
Orch    == 0
Callers == {Orch} \cup Conns
NoKey   == 0
Keys    == 1..MaxKeys
KeyOrNone == {NoKey} \cup Keys

\* One await on CommandDispatcher.send.  "queued": waiting for the connection's
\* call lock; "sent": on the wire; "answered": the charger's reply is on its
\* way or in the task; "failed": timed out, or the socket closed.  `ok` and
\* `key` are what the reply says: the public key just made, or the key whose
\* private half signed.
CallStates == {"idle", "queued", "sent", "answered", "failed"}
Requests   == {"enrol", "challenge"}
Call == [st : CallStates, conn : {0} \cup Conns, req : Requests,
         key : KeyOrNone, ok : BOOLEAN]
Idle == [st |-> "idle", conn |-> 0, req |-> "enrol", key |-> NoKey, ok |-> FALSE]

VARIABLES
  opened,    \* [Stations -> Nat] connections dialled; the newest is the only
             \* one the charger itself still reads
  live,      \* [Stations -> SUBSET Conns] sockets the server has not closed
  session,   \* [Stations -> connection] registry._sessions; 0 = not connected
  call,      \* [Stations -> [Callers -> Call]]
  late,      \* [Stations -> Nat] RequestPQEnrolments the server gave up on
             \* that the charger has yet to read from its socket
  current,   \* [Stations -> KeyOrNone] PQIdentity._current
  previous,  \* [Stations -> KeyOrNone] PQIdentity._previous
  made       \* [Stations -> Nat] PQIdentity.installs

linkVars == <<opened, live, session>>
callVars == <<call, late>>
keyVars  == <<current, previous, made>>
dispatchVars == <<linkVars, callVars, keyVars>>

DispatchTypeOK ==
  /\ opened \in [Stations -> {0} \cup Conns]
  /\ live \in [Stations -> SUBSET Conns]
  /\ session \in [Stations -> {0} \cup Conns]
  /\ call \in [Stations -> [Callers -> Call]]
  /\ late \in [Stations -> Nat]
  /\ current \in [Stations -> KeyOrNone]
  /\ previous \in [Stations -> KeyOrNone]
  /\ made \in [Stations -> 0..MaxKeys]

DispatchInit ==
  /\ opened = [s \in Stations |-> 0]
  /\ live = [s \in Stations |-> {}]
  /\ session = [s \in Stations |-> 0]
  /\ call = [s \in Stations |-> [c \in Callers |-> Idle]]
  /\ late = [s \in Stations |-> 0]
  /\ current = [s \in Stations |-> NoKey]
  /\ previous = [s \in Stations |-> NoKey]
  /\ made = [s \in Stations |-> 0]

-----------------------------------------------------------------------------
(* The server's end: what a coroutine does when it awaits send().          *)

Connected(s) == session[s] # 0

\* The call lock of connection n is taken, or somebody is ahead of c in line.
Busy(s, c, n) ==
  \E d \in Callers \ {c} : /\ call[s][d].conn = n
                           /\ call[s][d].st \in {"queued", "sent", "answered"}

NewCall(s, c, req, key) ==
  [st |-> IF Busy(s, c, session[s]) THEN "queued" ELSE "sent",
   conn |-> session[s], req |-> req, key |-> key, ok |-> FALSE]

SetCall(s, c, new) == call' = [call EXCEPT ![s][c] = new]

\* The coroutine of caller c awaits send() on the current session ...
SendCall(s, c, req, key) == SetCall(s, c, NewCall(s, c, req, key))

\* ... and takes the result, awaiting nothing further.
TakeResult(s, c) == SetCall(s, c, Idle)

\* The await is over; the caller's coroutine runs on.
Returned(s, c) == call[s][c].st \in {"answered", "failed"}
Accepted(s, c) == call[s][c].st = "answered" /\ call[s][c].ok

\* The lock of the connection is free and c is next in line (which of several
\* waiting callers is first is left open).
Acquire(s, c) ==
  /\ call[s][c].st = "queued"
  /\ \A d \in Callers \ {c} : call[s][d].conn = call[s][c].conn =>
                              call[s][d].st \notin {"sent", "answered"}
  /\ SetCall(s, c, [call[s][c] EXCEPT !.st = "sent"])
  /\ UNCHANGED <<linkVars, keyVars, late>>

\* The request is on the wire of the connection the charger reads.
OnTheWire(s, c) ==
  /\ call[s][c].st = "sent"
  /\ call[s][c].conn = opened[s]
  /\ opened[s] \in live[s]

\* Mutant of GiveUp: a dispatcher without a timer.
GiveUpNever(s, c) == FALSE

\* DEFAULT_DISPATCH_TIMEOUT_S passes: call_task is cancelled, the lock is
\* freed, and a reply still on its way will find nobody waiting.  A request
\* already written is still read by the charger later.
GiveUp(s, c) ==
  /\ call[s][c].st \in {"queued", "sent", "answered"}
  /\ late' = [late EXCEPT ![s] = IF OnTheWire(s, c) /\ call[s][c].req = "enrol"
                                 THEN @ + 1 ELSE @]
  /\ SetCall(s, c, [call[s][c] EXCEPT !.st = "failed", !.ok = FALSE])
  /\ UNCHANGED <<linkVars, keyVars>>

-----------------------------------------------------------------------------
(* Connections.                                                            *)

\* The server sees socket n close: every call waiting on it fails, the
\* session goes only if n is still the station's session (deregister).
CloseSocket(s, n) ==
  /\ n \in live[s]
  /\ live' = [live EXCEPT ![s] = @ \ {n}]
  /\ session' = [session EXCEPT ![s] = IF @ = n THEN 0 ELSE @]
  /\ call' = [call EXCEPT ![s] =
                [c \in Callers |-> IF @[c].st \in {"queued", "sent"} /\ @[c].conn = n
                                   THEN [@[c] EXCEPT !.st = "failed"] ELSE @[c]]]
  /\ late' = [late EXCEPT ![s] = IF n = opened[s] THEN 0 ELSE @]
  /\ UNCHANGED <<opened, keyVars>>

\* The charger dials again and passes the handshake: register() makes the new
\* connection the session, whatever became of the old one.
Dial(s) ==
  /\ opened[s] < MaxConn
  /\ opened' = [opened EXCEPT ![s] = @ + 1]
  /\ live' = [live EXCEPT ![s] = @ \cup {opened[s] + 1}]
  /\ session' = [session EXCEPT ![s] = opened[s] + 1]
  /\ late' = [late EXCEPT ![s] = 0]
  /\ UNCHANGED <<call, keyVars>>

-----------------------------------------------------------------------------
(* The charger's end.                                                      *)

\* Mutant of MakeKey: the key before the new one is thrown away.
MakeOnlyKey(s) ==
  /\ made[s] < MaxKeys
  /\ made' = [made EXCEPT ![s] = @ + 1]
  /\ current' = [current EXCEPT ![s] = made[s] + 1]
  /\ previous' = [previous EXCEPT ![s] = NoKey]

\* PQIdentity.enrol: the new pair is on disk before it is in memory; the key
\* before it is kept as the previous one, anything older is gone.
MakeKey(s) ==
  /\ made[s] < MaxKeys
  /\ made' = [made EXCEPT ![s] = @ + 1]
  /\ current' = [current EXCEPT ![s] = made[s] + 1]
  /\ previous' = [previous EXCEPT ![s] = current[s]]

Holds(s, k) == k # NoKey /\ k \in {current[s], previous[s]}

Answer(s, c, ok, key) ==
  call' = [call EXCEPT ![s][c] = [@ EXCEPT !.st = "answered", !.ok = ok, !.key = key]]

\* RequestPQEnrolment is read: a new key pair is made and its public half
\* answered ...
ChargerEnrols(s, c) ==
  /\ OnTheWire(s, c) /\ late[s] = 0 /\ call[s][c].req = "enrol"
  /\ MakeKey(s)
  /\ Answer(s, c, TRUE, made[s] + 1)
  /\ UNCHANGED <<linkVars, late>>

\* ... or refused, when the key cannot be made or saved: nothing changes.
ChargerRefuses(s, c) ==
  /\ OnTheWire(s, c) /\ late[s] = 0 /\ call[s][c].req = "enrol"
  /\ Answer(s, c, FALSE, NoKey)
  /\ UNCHANGED <<linkVars, keyVars, late>>

\* PQAuthChallenge is read: signed with the named key if it is the current or
\* the previous one, Rejected otherwise.
ChargerSigns(s, c) ==
  /\ OnTheWire(s, c) /\ late[s] = 0 /\ call[s][c].req = "challenge"
  /\ Answer(s, c, Holds(s, call[s][c].key), call[s][c].key)
  /\ UNCHANGED <<linkVars, keyVars, late>>

\* A RequestPQEnrolment nobody waits for any more is read and obeyed.
ChargerEnrolsLate(s) ==
  /\ late[s] > 0
  /\ MakeKey(s)
  /\ late' = [late EXCEPT ![s] = @ - 1]
  /\ UNCHANGED <<linkVars, call>>

\* ... or refused.
ChargerRefusesLate(s) ==
  /\ late[s] > 0
  /\ late' = [late EXCEPT ![s] = @ - 1]
  /\ UNCHANGED <<linkVars, keyVars, call>>

Environment(s) ==
  \/ \E c \in Callers :
       \/ Acquire(s, c)
       \/ GiveUp(s, c)
       \/ ChargerEnrols(s, c)
       \/ ChargerRefuses(s, c)
       \/ ChargerSigns(s, c)
  \/ \E n \in Conns : CloseSocket(s, n)
  \/ Dial(s)
  \/ ChargerEnrolsLate(s)
  \/ ChargerRefusesLate(s)
=============================================================================

---------------------------- MODULE ChargerKeys ----------------------------
(***************************************************************************)
(* A charger makes its own keys, keeps them in a file, and proves them to  *)
(* the server; both sides, for one charger.                                *)
(*                                                                         *)
(*   - agent/pq_identity.py enrol, load, answer_challenge: the new key is  *)
(*     saved before it is used, the one before it is kept;                 *)
(*   - agent/pq_keystore.py save, load: temporary file, then os.replace;   *)
(*   - agent/client.py and agent/station.py: RequestPQEnrolment and        *)
(*     PQAuthChallenge, with the payloads of agent/pqc_messages.py;        *)
(*   - idmanager/pq_check.py challenge_and_verify, for a boot check and    *)
(*     for a migration or rotation, on the register of module KeyRegister. *)
(*                                                                         *)
(* The charger may be killed between any two steps and is started again;   *)
(* requests and answers may be lost; a request that was given up on may    *)
(* still be carried out.  The file system keeps a finished rename.         *)
(***************************************************************************)
EXTENDS KeyRegister

CONSTANTS
  KeyDir,       \* --key-dir is given; without it keys are in memory only
  MaxAsks,      \* bound: keys asked for
  MaxCrashes,   \* bound: kills of the charger
  MaxFailures   \* bound: key files that could not be written

ASSUME ChargerAssumption == 
  KeyDir \in BOOLEAN /\ MaxAsks \in Nat /\ MaxCrashes \in Nat /\ MaxFailures \in Nat

NoPair == [current |-> NoKey, previous |-> NoKey]

VARIABLES
  up,        \* the charger's process runs
  made,      \* keys made; key k is the k-th
  pair,      \* PQIdentity._current, _previous
  file,      \* the key file
  enrolling, \* where enrol() is: "no", "made", "temp", "replaced"
  serving,   \* the enrolment request being carried out
  requests,  \* enrolment requests the charger has not read
  asks,      \* keys asked for so far
  run,       \* the orchestrator's run: kind, step, its challenge
  replaced,  \* the key the last rotation replaced, while its wave can be undone
  reply,     \* the key in the answer to RequestPQEnrolment, NoKey without one
  check,     \* the challenges: state, the key named, the key it was signed with
  crashes, failures,  \* bounds
  saves,     \* history: keys saved, in order
  honoured,  \* history: challenges that had to be accepted
  verified   \* history: challenges that were

chargerVars == <<up, made, pair, file, enrolling, serving, crashes, failures, saves>>
exchangeVars == <<requests, asks, run, replaced, reply, check>>
keysVars == <<registerVars, chargerVars, exchangeVars, honoured, verified>>

NoRun   == [kind |-> "none", step |-> "none", check |-> 0]
NoCheck == [state |-> "none", key |-> NoKey, signed |-> NoKey]

Init ==
  /\ RegisterInit
  /\ up = TRUE /\ made = 0 /\ pair = NoPair /\ file = NoPair /\ enrolling = "no"
  /\ serving = 0
  /\ requests = <<>> /\ asks = 0 /\ run = NoRun /\ replaced = NoKey /\ reply = NoKey
  /\ check = [n \in Checks |-> NoCheck]
  /\ crashes = 0 /\ failures = 0 /\ saves = <<>>
  /\ honoured = {} /\ verified = {}

-----------------------------------------------------------------------------
(* The charger.                                                            *)

Elsewhere == <<registerVars, asks, run, replaced, check, honoured, verified>>

\* handle_pq_enrolment, enrol: a key pair is made.
MakeKey ==
  /\ up /\ enrolling = "no" /\ requests # <<>> /\ made < MaxKeys
  /\ serving' = Head(requests)
  /\ requests' = Tail(requests)
  /\ made' = made + 1
  /\ enrolling' = "made"
  /\ UNCHANGED <<Elsewhere, up, pair, file, crashes, failures, saves, reply>>

\* save(): the temporary file is written; a fault removes it and the request is
\* rejected.
WriteTemp ==
  /\ enrolling = "made" /\ KeyDir
  /\ enrolling' = "temp"
  /\ UNCHANGED <<Elsewhere, up, made, pair, file, serving, crashes, failures, saves, requests, reply>>

SaveFails ==
  /\ enrolling \in {"made", "temp"} /\ KeyDir /\ failures < MaxFailures
  /\ failures' = failures + 1
  /\ enrolling' = "no"
  /\ UNCHANGED <<Elsewhere, up, made, pair, file, serving, crashes, saves, requests, reply>>

\* Mutant of NewPair: only the new key is kept.
NewPairAlone == [current |-> made, previous |-> NoKey]

NewPair == [current |-> made, previous |-> pair.current]

Replace ==
  /\ enrolling = "temp"
  /\ file' = NewPair
  /\ enrolling' = "replaced"
  /\ saves' = Append(saves, made)
  /\ UNCHANGED <<Elsewhere, up, made, pair, serving, crashes, failures, requests, reply>>

\* The rest of enrol: the key is used from here on and the public half is
\* answered; the answer counts only while the server waits for this one.
Install ==
  /\ enrolling = IF KeyDir THEN "replaced" ELSE "made"
  /\ pair' = NewPair
  /\ enrolling' = "no"
  /\ \E arrives \in BOOLEAN :
       reply' = IF arrives /\ run.step = "asking" /\ serving = asks THEN made ELSE reply
  /\ UNCHANGED <<Elsewhere, up, made, file, serving, crashes, failures, saves, requests>>

\* handle_pq_challenge, answer_challenge: signed with the key that is named, if
\* the charger holds it.
Sign(n) ==
  /\ up /\ enrolling = "no" /\ check[n].state = "sent"
  /\ check' = [check EXCEPT
                 ![n].state = "answered",
                 ![n].signed = IF check[n].key \in {pair.current, pair.previous}
                               THEN check[n].key ELSE NoKey]
  /\ UNCHANGED <<registerVars, chargerVars, requests, asks, run, replaced, reply, honoured, verified>>

\* The process dies; what was on its way to it is lost.
Crash ==
  /\ up /\ crashes < MaxCrashes
  /\ crashes' = crashes + 1
  /\ up' = FALSE /\ pair' = NoPair /\ enrolling' = "no" /\ requests' = <<>>
  /\ check' = [n \in Checks |-> IF check[n].state = "sent"
                                THEN [check[n] EXCEPT !.state = "lost"] ELSE check[n]]
  /\ UNCHANGED <<registerVars, made, file, serving, failures, saves, asks, run, replaced, reply,
                 honoured, verified>>

\* Started again: load().
Restart ==
  /\ ~up
  /\ up' = TRUE
  /\ pair' = IF KeyDir THEN file ELSE NoPair
  /\ UNCHANGED <<Elsewhere, made, file, enrolling, serving, crashes, failures, saves, requests, reply>>

Charger == MakeKey \/ WriteTemp \/ SaveFails \/ Replace \/ Install \/ Crash \/ Restart
           \/ \E n \in Checks : Sign(n)

-----------------------------------------------------------------------------
(* The server.                                                             *)

\* A run asks for a key: a migration of a station without one, a rotation else.
\* The request may be lost.
AskForKey ==
  /\ run = NoRun /\ asks < MaxAsks
  /\ asks' = asks + 1
  /\ run' = [kind |-> IF enrolled = NoKey THEN "migration" ELSE "rotation",
             step |-> "asking", check |-> 0]
  /\ replaced' = NoKey /\ reply' = NoKey
  /\ requests' \in {requests} \cup (IF up THEN {Append(requests, asks')} ELSE {})
  /\ UNCHANGED <<registerVars, chargerVars, check, honoured, verified>>

\* challenge_and_verify: a nonce is issued, the challenge sent, or lost.
SendChallenge(key) ==
  /\ IssueChallenge
  /\ \E state \in {"lost"} \cup (IF up THEN {"sent"} ELSE {}) :
       check' = [check EXCEPT ![issued + 1] =
                   [state |-> state, key |-> key, signed |-> NoKey]]

\* The key arrived: it is enrolled, or staged, and challenged.
ChallengeKey ==
  /\ run.step = "asking" /\ reply # NoKey
  /\ run' = [run EXCEPT !.step = "checking", !.check = issued + 1]
  /\ IF run.kind = "migration" THEN enrolled' = reply /\ UNCHANGED staged ELSE StageKey(reply)
  /\ SendChallenge(reply)
  /\ UNCHANGED <<chargerVars, now, requests, asks, replaced, reply, honoured, verified>>

\* What a run that failed leaves: nothing enrolled, or the key before.
Undone == IF run.kind = "migration" THEN Unenrol ELSE DiscardStaged /\ UNCHANGED pending

\* No answer to the request in time, or none at all.
GiveUp ==
  /\ run.step = "asking" /\ reply = NoKey
  /\ Undone
  /\ run' = NoRun
  /\ UNCHANGED <<chargerVars, issuedAt, now, issued, requests, asks, replaced, reply, check,
                 honoured, verified>>

\* verify_on_boot: the key that is enrolled now is challenged.
BootCheck ==
  /\ enrolled # NoKey
  /\ SendChallenge(enrolled)
  /\ UNCHANGED <<chargerVars, enrolled, staged, now, requests, asks, run, replaced, reply,
                 honoured, verified>>

\* The end of check n: its signature is verified, against the staged key in a
\* rotation, or there is none (no answer, or the charger does not hold the key).
Mine(n) == run.step = "checking" /\ run.check = n
KeyFor(n) == IF Mine(n) /\ run.kind = "rotation" THEN staged ELSE enrolled
Signed(n) == check[n].state = "answered" /\ check[n].signed # NoKey

\* A signature that has to be accepted: it came in time, was made with the right
\* key, and fewer than Cap challenges were issued after its own.
Due(n) == /\ Signed(n) /\ check[n].signed = KeyFor(n)
          /\ now - issuedAt[n] <= Ttl /\ issued - n < Cap

EndCheck(n) ==
  LET good == Signed(n) /\ Verifies(n, check[n].signed, KeyFor(n)) IN
  /\ check[n].state \in {"answered", "lost"}
  /\ check' = [check EXCEPT ![n].state = "over"]
  /\ verified' = IF good THEN verified \cup {n} ELSE verified
  /\ honoured' = IF Due(n) THEN honoured \cup {n} ELSE honoured
  /\ IF Mine(n) /\ run.kind = "migration" /\ ~good
     THEN Unenrol
     ELSE /\ pending' = IF Signed(n) THEN Consumed(n) ELSE pending
          /\ IF Mine(n) /\ run.kind = "rotation"
             THEN IF good THEN CommitStaged ELSE DiscardStaged
             ELSE UNCHANGED <<enrolled, staged>>
  /\ replaced' = IF Mine(n) /\ run.kind = "rotation" /\ good THEN enrolled ELSE replaced
  /\ run' = IF Mine(n) THEN NoRun ELSE run
  /\ UNCHANGED <<chargerVars, issuedAt, now, issued, requests, asks, reply>>

\* _rollback_wave: a rotation of this station is undone.
PutBack ==
  /\ replaced # NoKey
  /\ Enrol(replaced)
  /\ replaced' = NoKey
  /\ UNCHANGED <<chargerVars, issuedAt, now, issued, requests, asks, run, reply, check,
                 honoured, verified>>

Time == Tick /\ UNCHANGED <<chargerVars, exchangeVars, honoured, verified>>

Next ==
  \/ Charger
  \/ AskForKey \/ ChallengeKey \/ GiveUp \/ BootCheck \/ PutBack
  \/ \E n \in Checks : EndCheck(n)
  \/ Time

Spec == Init /\ [][Next]_keysVars

-----------------------------------------------------------------------------
(* Properties.                                                             *)

\* How many keys were saved after key k.
SavedAfter(k) == Cardinality({i \in DOMAIN saves : saves[i] > k})

\* Every key the server has, or is about to take, is in the charger's file, or
\* two newer ones were saved since; and what a running charger signs with is
\* what it would sign with after a kill (agent/pq_identity.py enrol: saved
\* before used, one key before kept; station.py:719 "a station must not hand out
\* a public key whose private half is not stored").
KeysOutliveCrash ==
  KeyDir =>
    /\ \A k \in {enrolled, staged, reply, replaced} \ {NoKey} :
         k \in {file.current, file.previous} \/ SavedAfter(k) >= 2
    /\ up /\ enrolling # "replaced" => pair = file

\* A signature that came in time, made with the right key, is accepted, however
\* many checks run next to each other (crypto/pq_auth.py: they do not cancel
\* each other), as long as fewer than Cap are younger than it.
AnswersCount == honoured \subseteq verified
=============================================================================

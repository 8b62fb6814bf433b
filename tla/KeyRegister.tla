---------------------------- MODULE KeyRegister ----------------------------
(***************************************************************************)
(* The keys and open challenges the server keeps for one station:          *)
(* crypto/pq_auth.py PQAuthenticator.                                      *)
(*                                                                         *)
(* A key is enrolled, a second one may be staged during a rotation, and up *)
(* to MAX_OUTSTANDING_PER_STATION nonces are outstanding, each with the    *)
(* time it was issued.  A nonce is the number of the check it was issued   *)
(* for, so the oldest is the smallest.  The clock is time.monotonic, with  *)
(* Ttl ticks to the lifetime of a challenge.                               *)
(***************************************************************************)
EXTENDS Integers, Sequences, FiniteSets

CONSTANTS
  MaxKeys,    \* bound: keys made by the charger
  MaxChecks,  \* bound: challenges issued
  Cap,        \* MAX_OUTSTANDING_PER_STATION
  Ttl,        \* challenge_ttl_s, in ticks
  MaxTime     \* bound: ticks

ASSUME RegisterAssumption ==
  /\ MaxKeys \in Nat \ {0} /\ MaxChecks \in Nat /\ Cap \in Nat \ {0}
  /\ Ttl \in Nat /\ MaxTime \in Nat

Keys   == 1..MaxKeys
NoKey  == 0
Checks == 1..MaxChecks

VARIABLES
  enrolled, staged,  \* _enrolled, _staged
  pending,           \* the nonces in _outstanding
  issuedAt,          \* Challenge.issued_at of every check
  now,               \* time.monotonic()
  issued             \* challenges issued so far

registerVars == <<enrolled, staged, pending, issuedAt, now, issued>>

RegisterInit ==
  /\ enrolled = NoKey /\ staged = NoKey
  /\ pending = {} /\ issuedAt = [n \in Checks |-> 0]
  /\ now = 0 /\ issued = 0

Expired(n) == now - issuedAt[n] > Ttl

-----------------------------------------------------------------------------
(* The keys.                                                               *)

\* enrol(): the staged key and the nonces stay.
Enrol(key) == enrolled' = key /\ UNCHANGED <<staged, pending>>

\* unenrol().
Unenrol == enrolled' = NoKey /\ staged' = NoKey /\ pending' = {}

\* stage_key() of an enrolled station.
StageKey(key) == enrolled # NoKey /\ staged' = key /\ UNCHANGED enrolled

\* commit_staged().
CommitStaged == enrolled' = staged /\ staged' = NoKey

\* discard_staged().
DiscardStaged == staged' = NoKey /\ UNCHANGED enrolled

-----------------------------------------------------------------------------
(* The challenges.                                                         *)

\* issue_challenge(): expired nonces go, then the oldest while the cap is met.
Kept ==
  LET fresh == {n \in pending : ~Expired(n)}
  IN  {n \in fresh : Cardinality({m \in fresh : m > n}) < Cap - 1}

IssueChallenge ==
  /\ issued < MaxChecks
  /\ issued' = issued + 1
  /\ pending' = Kept \cup {issued + 1}
  /\ issuedAt' = [issuedAt EXCEPT ![issued + 1] = now]

\* Mutant of Consumed: as verify_response without a nonce, all of them go.
ConsumedAll(n) == {}

\* verify_response(nonce): the nonce is taken out, whatever comes of it.
Consumed(n) == pending \ {n}

\* Whether a response to challenge n made with `signedWith` is accepted against
\* `key`: known station, outstanding, not expired, right key.
Verifies(n, signedWith, key) ==
  /\ enrolled # NoKey /\ key # NoKey
  /\ n \in pending /\ ~Expired(n)
  /\ signedWith = key

Tick ==
  /\ now < MaxTime
  /\ now' = now + 1
  /\ UNCHANGED <<enrolled, staged, pending, issuedAt, issued>>
=============================================================================

----------------------------- MODULE BootCheck ------------------------------
(***************************************************************************)
(* The key check after every accepted boot (--mode hybrid), running next   *)
(* to a migration or rotation of the same station.                         *)
(*                                                                         *)
(*   - csms/handlers.py on_/after_boot_notification, csms/registry.py      *)
(*     mark_boot_accepted, notify_boot, mark_pq_verified, mark_closing;    *)
(*   - csms/migration.py check_after_boot (install_boot_check) and the     *)
(*     emitter that marks a station verified when the orchestrator's own   *)
(*     check passes (L34);                                                 *)
(*   - idmanager/boot_verifier.py verify_on_boot.                          *)
(*                                                                         *)
(* The boot check of connection n is caller n of Dispatch: it challenges   *)
(* whatever connection is current when it sends, and remembers n.          *)
(***************************************************************************)
EXTENDS Migration

VARIABLES
  boot,      \* [Stations -> [Conns -> BootState]] the BootNotification of a
             \* connection, then the listener task it started
  accepted,  \* [Stations -> SUBSET Conns] StationSession.boot_accepted
  verified,  \* [Stations -> SUBSET Conns] StationSession.pq_verified
  closing    \* [Stations -> SUBSET Conns] close_reason is "pq_auth_failed"

bootVars == <<boot, accepted, verified, closing>>
allVars  == <<vars, bootVars>>

\* "unread": sent by the charger, the first message of every connection;
\* "read": accepted, the reply being sent; "announced": the listener's task
\* exists; "checking": it awaits the challenge; "over".
BootState == {"unread", "read", "announced", "checking", "over"}

BootTypeOK ==
  /\ TypeOK
  /\ boot \in [Stations -> [Conns -> BootState]]
  /\ accepted \in [Stations -> SUBSET Conns]
  /\ verified \in [Stations -> SUBSET Conns]
  /\ closing \in [Stations -> SUBSET Conns]

BootInit ==
  /\ Init
  /\ boot = [s \in Stations |-> [n \in Conns |-> "unread"]]
  /\ accepted = [s \in Stations |-> {}]
  /\ verified = [s \in Stations |-> {}]
  /\ closing = [s \in Stations |-> {}]

Current(s) == {session[s]} \ {0}
BootBecomes(s, n, st) == boot' = [boot EXCEPT ![s][n] = st]

\* on_boot_notification: always accepted; the mark goes to the station's
\* CURRENT session, whichever connection the message came in on.
ReadBoot(s, n) ==
  /\ n \in live[s] /\ boot[s][n] = "unread"
  /\ BootBecomes(s, n, "read")
  /\ accepted' = [accepted EXCEPT ![s] = @ \cup Current(s)]
  /\ UNCHANGED <<vars, verified, closing>>

\* after_boot_notification and notify_boot, once the reply has been sent: only
\* a connection that is still current and booted is announced.
AnnounceBoot(s, n) ==
  /\ n \in live[s] /\ boot[s][n] = "read"
  /\ BootBecomes(s, n, IF session[s] = n /\ n \in accepted[s] THEN "announced" ELSE "over")
  /\ UNCHANGED <<vars, accepted, verified, closing>>

\* Mutant of MarkVerified: whatever connection is current is marked.
MarkVerifiedAny(s, n) == verified' = [verified EXCEPT ![s] = @ \cup Current(s)]

\* mark_pq_verified with the session the check began on ...
MarkVerified(s, n) == verified' = [verified EXCEPT ![s] = @ \cup (Current(s) \cap {n})]

\* ... and without it, as the orchestrator's emitter calls it.
MarkCurrent(s) == verified' = [verified EXCEPT ![s] = @ \cup Current(s)]

\* The station is not enrolled: it passes without a check.
PassUnenrolled(s, n) ==
  /\ boot[s][n] = "announced" /\ enrolled[s] = NoKey
  /\ BootBecomes(s, n, "over")
  /\ MarkVerified(s, n)
  /\ UNCHANGED <<vars, accepted, closing>>

\* The station is enrolled: a challenge naming the key the server holds now.
ChallengeBoot(s, n) ==
  /\ boot[s][n] = "announced" /\ enrolled[s] # NoKey /\ Connected(s)
  /\ BootBecomes(s, n, "checking")
  /\ nonce' = [nonce EXCEPT ![s] = @ \cup {n}]
  /\ SendCall(s, n, "challenge", enrolled[s])
  /\ UNCHANGED <<linkVars, keyVars, late, enrolled, staged, recordVars, runVars, waveVars,
                 taskVars, count, proved, accepted, verified, closing>>

\* It has no session any more: the check fails, and closes nothing.
ChallengeNobody(s, n) ==
  /\ boot[s][n] = "announced" /\ enrolled[s] # NoKey /\ ~Connected(s)
  /\ BootBecomes(s, n, "over")
  /\ UNCHANGED <<vars, accepted, verified, closing>>

\* What follows the await of challenge_and_verify, whichever way it went.
CheckOver(s, n) ==
  /\ boot[s][n] = "checking" /\ Returned(s, n)
  /\ BootBecomes(s, n, "over")
  /\ nonce' = [nonce EXCEPT ![s] = @ \ {n}]
  /\ TakeResult(s, n)
  /\ UNCHANGED <<linkVars, keyVars, late, enrolled, staged, recordVars, runVars, waveVars,
                 taskVars, count, proved, accepted>>

\* The answer verifies against the key enrolled NOW.
CheckPasses(s, n) ==
  /\ CheckOver(s, n) /\ Verifies(s, n, enrolled[s])
  /\ MarkVerified(s, n)
  /\ UNCHANGED closing

\* Mutant of CheckFails: the connection is left open.
CheckFailsQuietly(s, n) ==
  /\ CheckOver(s, n) /\ ~Verifies(s, n, enrolled[s])
  /\ UNCHANGED <<verified, closing>>

\* It does not, or there is none: mark_closing, if n is still the session.
CheckFails(s, n) ==
  /\ CheckOver(s, n) /\ ~Verifies(s, n, enrolled[s])
  /\ closing' = [closing EXCEPT ![s] = @ \cup (Current(s) \cap {n})]
  /\ UNCHANGED verified

BootStep(s) ==
  \E n \in Conns :
    \/ ReadBoot(s, n) \/ AnnounceBoot(s, n)
    \/ PassUnenrolled(s, n) \/ ChallengeBoot(s, n) \/ ChallengeNobody(s, n)
    \/ CheckPasses(s, n) \/ CheckFails(s, n)

\* websocket.close(1008) and what it leads to: the connection is gone.
CloseBoot(s) ==
  /\ \E n \in closing[s] : CloseSocket(s, n)
  /\ UNCHANGED <<migrationVars, bootVars>>

\* The orchestrator's own check of a station passes: L34.
MigrationPasses(s) ==
  /\ MarkMigrated(s) \/ CommitKey(s)
  /\ MarkCurrent(s)
  /\ UNCHANGED <<boot, accepted, closing>>

MigrationGoesOn(s) ==
  /\ StationStep(s) /\ ~MarkMigrated(s) /\ ~CommitKey(s)
  /\ UNCHANGED bootVars

BootNext ==
  \/ (Operator \/ Run) /\ UNCHANGED bootVars
  \/ \E s \in Stations :
       \/ MigrationPasses(s)
       \/ MigrationGoesOn(s)
       \/ BootStep(s)
       \/ CloseBoot(s)
       \/ Environment(s) /\ UNCHANGED <<migrationVars, bootVars>>

BootSpec == BootInit /\ [][BootNext]_allVars

\* The event loop runs every task that can go on, the dispatcher's timer fires
\* for a call that is not answered, and a connection the server closes is
\* closed when the close handshake ends or times out.
BootFairness ==
  /\ WF_allVars(Run /\ UNCHANGED bootVars)
  /\ \A s \in Stations :
       /\ WF_allVars(MigrationPasses(s) \/ MigrationGoesOn(s))
       /\ WF_allVars(CloseBoot(s))
       /\ \A n \in Conns :
            /\ WF_allVars(PassUnenrolled(s, n) \/ ChallengeBoot(s, n) \/ ChallengeNobody(s, n))
            /\ WF_allVars(CheckPasses(s, n) \/ CheckFails(s, n))
       /\ \A c \in Callers :
            WF_allVars(GiveUp(s, c) /\ UNCHANGED <<migrationVars, bootVars>>)

FairBootSpec == BootSpec /\ BootFairness

-----------------------------------------------------------------------------
(* Properties.                                                             *)

NewlyClosing(s) == closing'[s] \ closing[s]

\* A charger is thrown out for a signature only if that signature was made with
\* a key that is no longer the one enrolled: overlapping checks of one station
\* (boot and migration, or two boots) do not eat each other's nonces.
ClosedForCause ==
  [][\A s \in Stations : \A n \in NewlyClosing(s) :
       Accepted(s, n) => call[s][n].key # enrolled[s]]_allVars

\* The verdict of a boot check that outlives its connection leaves the newer
\* connection alone: neither verified nor closed by it (L36).
CheckStaysWithItsConnection ==
  [][\A s \in Stations, n \in Conns :
       (boot[s][n] # "over" /\ boot'[s][n] = "over") =>
         /\ verified'[s] \ verified[s] \subseteq {n}
         /\ NewlyClosing(s) \subseteq {n}]_allVars

\* Every announced boot is settled: the connection is verified, or it is no
\* longer the station's session.
BootSettled ==
  \A s \in Stations, n \in Conns :
    boot[s][n] = "announced" ~> n \in verified[s] \/ session[s] # n
=============================================================================

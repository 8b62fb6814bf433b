---------------------------- MODULE Storm_proofs ------------------------------
(***************************************************************************)
(* The reconnection storm, for any chargers, any of them enrolled or able  *)
(* to sign, and any bounds on connections, losses and polls.               *)
(***************************************************************************)
EXTENDS Storm, SequenceTheorems, TLAPS

-----------------------------------------------------------------------------
(* The inductive invariant.                                                *)

LogLine == [what : Kinds, station : Stations \cup {0}]

\* A server that is down serves nobody; it goes down once, for the supervisor.
Phases ==
  /\ ~up => /\ storm = "down"
            /\ \A s \in Stations : handlers[s] = {} /\ booted[s] = {} /\ verified[s] = {}
  /\ storm \in {"before", "killing", "down"} => run = 1
  /\ storm = "over" => run = 2

\* The supervisor's first stamp is in the log once, and the server's own line
\* after it once, as soon as they are written.
Stamped ==
  /\ storm = "before" => At("supervisor_kill") = {}
  /\ storm # "before" => \E k \in 1..Len(log) : At("supervisor_kill") = {k}
  /\ run = 1 => At("server_started") = {}
  /\ run = 2 => \E i \in 1..Len(log) : At("server_started") = {i}

\* The stamp is the older of the two.
StampedFirst ==
  \A k \in At("supervisor_kill"), i \in At("server_started") : k < i

\* Only enrolled chargers are checked.
OnlyEnrolledChecked ==
  \A s \in Stations :
    /\ KeyChecked(s) => s \in Enrolled
    /\ \A n \in Conns : boot[s][n] = "checking" => s \in Enrolled

\* What the restarted server knows of a charger it has written to the log.
MarksAreLogged ==
  \A s \in Stations, i \in At("server_started") :
    /\ booted[s] # {} => \E j \in Of("booted", s) : j > i
    /\ verified[s] # {} => \E j \in Of("check_ok", s) : j > i

StormInv ==
  /\ log \in Seq(LogLine)
  /\ LiveSessionKept
  /\ Phases /\ Stamped /\ StampedFirst /\ OnlyEnrolledChecked /\ MarksAreLogged

-----------------------------------------------------------------------------
(* Lines are added at the end of the log.                                  *)

\* The kinds of line the recovery is measured by.
Measured == {"booted", "check_ok", "check_failed", "server_started", "supervisor_kill"}

LEMMA LineType ==
  ASSUME NEW what \in Kinds, NEW s \in Stations \cup {0}
  PROVE  Line(what, s) \in LogLine /\ Line(what, s).what = what /\ Line(what, s).station = s
BY DEF Line, LogLine

\* No line of a measured kind is among the new ones.
LEMMA OtherLines ==
  ASSUME log \in Seq(LogLine), NEW new \in Seq(LogLine), log' = log \o new,
         NEW w, \A j \in 1..Len(new) : new[j].what # w
  PROVE  At(w)' = At(w) /\ \A s : Of(w, s)' = Of(w, s)
<1>1. /\ Len(log') = Len(log) + Len(new) /\ Len(log) \in Nat /\ Len(new) \in Nat
      /\ \A i \in 1..Len(log) + Len(new) : log'[i] = IF i <= Len(log) THEN log[i] ELSE new[i - Len(log)]
  BY ConcatProperties
<1>2. \A i : i \in At(w)' <=> i \in At(w)
  BY <1>1 DEF At
<1>3. \A i \in At(w) : log'[i] = log[i]
  BY <1>1 DEF At
<1> QED BY <1>2, <1>3 DEF Of

\* One line is added.
LEMMA OneLine ==
  ASSUME log \in Seq(LogLine), NEW what \in Kinds, NEW s \in Stations \cup {0}, Logged(what, s)
  PROVE  /\ log' \in Seq(LogLine) /\ Len(log') = Len(log) + 1 /\ Len(log) \in Nat
         /\ At(what)' = At(what) \cup {Len(log) + 1}
         /\ Of(what, s)' = Of(what, s) \cup {Len(log) + 1}
         /\ \A t : t # s => Of(what, t)' = Of(what, t)
         /\ \A w : w # what => At(w)' = At(w) /\ \A t : Of(w, t)' = Of(w, t)
<1> DEFINE new == Line(what, s)
<1>0. new \in LogLine /\ new.what = what /\ new.station = s /\ log' = Append(log, new)
  BY LineType DEF Logged
<1> HIDE DEF new
<1>1. /\ log' \in Seq(LogLine) /\ Len(log') = Len(log) + 1 /\ Len(log) \in Nat
      /\ \A i \in 1..Len(log) : log'[i] = log[i]
      /\ log'[Len(log) + 1] = new
  BY <1>0, AppendProperties
<1>2. \A w : At(w)' = IF w = what THEN At(w) \cup {Len(log) + 1} ELSE At(w)
  <2> TAKE w
  <2>1. \A i : i \in At(w)' <=> i \in 1..Len(log) + 1 /\ log'[i].what = w
    BY <1>1 DEF At
  <2>2. \A i : i \in At(w) <=> i \in 1..Len(log) /\ log[i].what = w
    BY DEF At
  <2>3. \A i : i \in At(w)' <=> i \in At(w) \/ (w = what /\ i = Len(log) + 1)
    BY <1>0, <1>1, <2>1, <2>2
  <2>4. CASE w = what
    <3>1. At(w)' = At(w) \cup {Len(log) + 1}
      BY <2>3, <2>4
    <3> QED BY <2>4, <3>1
  <2>5. CASE w # what
    <3>1. At(w)' = At(w)
      BY <2>3, <2>5
    <3> QED BY <2>5, <3>1
  <2> QED BY <2>4, <2>5
<1>3. \A w : \A i \in At(w) : log'[i] = log[i] /\ i # Len(log) + 1
  BY <1>1 DEF At
<1>4. \A w, t : Of(w, t)' = IF w = what /\ t = s THEN Of(w, t) \cup {Len(log) + 1} ELSE Of(w, t)
  <2> TAKE w, t
  <2>1. \A i : i \in Of(w, t)' <=> i \in At(w)' /\ log'[i].station = t
    BY DEF Of
  <2>2. \A i : i \in Of(w, t) <=> i \in At(w) /\ log[i].station = t
    BY DEF Of
  <2>3. \A i : i \in Of(w, t)' <=> i \in Of(w, t) \/ (w = what /\ t = s /\ i = Len(log) + 1)
    <3> DEFINE l == Len(log) + 1
    <3>1. /\ \A i : i \in At(w)' <=> i \in At(w) \/ (w = what /\ i = l)
          /\ log'[l].station = s /\ l \notin At(w)
          /\ \A i \in At(w) : log'[i].station = log[i].station
      BY <1>0, <1>1, <1>2, <1>3
    <3> HIDE DEF l
    <3>2. \A i : i \in Of(w, t)' <=> i \in Of(w, t) \/ (w = what /\ t = s /\ i = l)
      BY <2>1, <2>2, <3>1, Zenon
    <3> QED BY <3>2 DEF l
  <2>4. CASE w = what /\ t = s
    <3>1. Of(w, t)' = Of(w, t) \cup {Len(log) + 1}
      BY <2>3, <2>4
    <3> QED BY <2>4, <3>1
  <2>5. CASE ~(w = what /\ t = s)
    <3>1. Of(w, t)' = Of(w, t)
      BY <2>3, <2>5
    <3> QED BY <2>5, <3>1
  <2> QED BY <2>4, <2>5
<1> QED BY <1>1, <1>2, <1>4

\* The watcher's lines are none of the measured ones.
LEMMA PollLines ==
  ASSUME log \in Seq(LogLine), PollAnswered \/ PollFails
  PROVE  /\ log' \in Seq(LogLine) /\ Len(log') >= Len(log)
         /\ \A w \in Measured : At(w)' = At(w) /\ \A s : Of(w, s)' = Of(w, s)
<1> DEFINE kill == Line("poll_kill", 0)
           back == Line("poll_restart", 0)
<1>1. /\ kill \in LogLine /\ kill.what = "poll_kill"
      /\ back \in LogLine /\ back.what = "poll_restart"
  BY LineType DEF Kinds
<1>2. PICK new \in {<<>>, <<kill>>, <<back>>, <<back>> \o <<back>>} : log' = log \o new
  <2>1. CASE PollFails
    <3>1. log' = log \o <<kill>> \/ log' = log \o <<>> BY <2>1 DEF PollFails
    <3> QED BY <3>1, Zenon
  <2>2. CASE PollAnswered
    <3>1. /\ <<>> \o <<>> = <<>> /\ <<>> \o <<back>> = <<back>>
          /\ <<back>> \o <<>> = <<back>>
      OBVIOUS
    <3>2. log' = log \o RestartLines BY <2>2 DEF PollAnswered
    <3>3. \E x, y \in {<<>>, <<back>>} : RestartLines = x \o y BY DEF RestartLines
    <3>4. RestartLines \in {<<>>, <<back>>, <<back>> \o <<back>>}
      <4> HIDE DEF back
      <4> QED BY <3>1, <3>3, Zenon
    <3> QED BY <3>2, <3>4, Zenon
  <2> QED BY <2>1, <2>2
<1> HIDE DEF kill, back
<1>3. <<>> \in Seq({kill, back}) /\ <<kill>> \in Seq({kill, back}) /\ <<back>> \in Seq({kill, back})
  OBVIOUS
<1>4. new \in Seq(LogLine) /\ \A j \in 1..Len(new) : new[j] \in {kill, back}
  <2>1. new \in Seq({kill, back})
    BY <1>2, <1>3, ConcatProperties
  <2>2. {kill, back} \subseteq LogLine
    BY <1>1
  <2> QED BY <2>1, <2>2, SeqMonotonic, ElementOfSeq
<1>5. log' \in Seq(LogLine) /\ Len(log') >= Len(log)
  BY <1>2, <1>4, ConcatProperties
<1>6. \A w \in Measured : \A j \in 1..Len(new) : new[j].what # w
  BY <1>1, <1>4 DEF Measured
<1> QED BY <1>2, <1>4, <1>5, <1>6, OtherLines

\* The server's line and the supervisor's, after a restart.
LEMMA StartLines ==
  ASSUME log \in Seq(LogLine), Start
  PROVE  /\ log' \in Seq(LogLine) /\ Len(log) \in Nat /\ Len(log') = Len(log) + 2
         /\ At("server_started")' = At("server_started") \cup {Len(log) + 1}
         /\ \A w \in Measured \ {"server_started"} : At(w)' = At(w) /\ \A s : Of(w, s)' = Of(w, s)
<1> DEFINE new == <<Line("server_started", 0), Line("supervisor_restart", 0)>>
<1>1. /\ Line("server_started", 0) \in LogLine /\ Line("server_started", 0).what = "server_started"
      /\ Line("supervisor_restart", 0) \in LogLine
      /\ Line("supervisor_restart", 0).what = "supervisor_restart"
  BY LineType DEF Kinds
<1>2. /\ new \in Seq(LogLine) /\ Len(new) = 2
      /\ new[1].what = "server_started" /\ new[2].what = "supervisor_restart"
  BY <1>1
<1>3. log' = log \o new
  BY DEF Start
<1> HIDE DEF new
<1>4. /\ log' \in Seq(LogLine) /\ Len(log') = Len(log) + 2 /\ Len(log) \in Nat
      /\ \A i \in 1..(Len(log) + 2) : log'[i] = IF i <= Len(log) THEN log[i] ELSE new[i - Len(log)]
  <2>1. /\ log' \in Seq(LogLine) /\ Len(log') = Len(log) + Len(new) /\ Len(log) \in Nat
        /\ \A i \in 1..(Len(log) + Len(new)) :
             log'[i] = IF i <= Len(log) THEN log[i] ELSE new[i - Len(log)]
    <3>1. new \in Seq(LogLine)
      BY <1>2
    <3>2. /\ log \o new \in Seq(LogLine) /\ Len(log \o new) = Len(log) + Len(new)
          /\ \A i \in 1..(Len(log) + Len(new)) :
               (log \o new)[i] = IF i <= Len(log) THEN log[i] ELSE new[i - Len(log)]
      BY <3>1, ConcatProperties
    <3>3. Len(log) \in Nat
      OBVIOUS
    <3> QED BY <1>3, <3>2, <3>3
  <2> QED BY <1>2, <2>1
<1>5. log'[Len(log) + 1] = new[1] /\ log'[Len(log) + 2] = new[2]
  BY <1>4
<1>6. \A i : i \in At("server_started")' <=> i \in At("server_started") \/ i = Len(log) + 1
  <2>1. \A i : i \in At("server_started")' <=> i \in 1..Len(log) + 2 /\ log'[i].what = "server_started"
    BY <1>4 DEF At
  <2>2. \A i : i \in At("server_started") <=> i \in 1..Len(log) /\ log[i].what = "server_started"
    BY DEF At
  <2>3. \A i \in 1..Len(log) : log'[i] = log[i]
    BY <1>4
  <2>4. /\ log'[Len(log) + 1].what = "server_started"
        /\ log'[Len(log) + 2].what = "supervisor_restart"
    BY <1>2, <1>5
  <2>5. \A i : i \in 1..Len(log) + 2 <=> i \in 1..Len(log) \/ i = Len(log) + 1 \/ i = Len(log) + 2
    BY <1>4
  <2>6. Len(log) + 1 \notin 1..Len(log) /\ Len(log) + 2 \notin 1..Len(log) /\ "server_started" # "supervisor_restart"
    BY <1>4
  <2> QED BY <2>1, <2>2, <2>3, <2>4, <2>5, <2>6, Zenon
<1>7. \A w \in Measured \ {"server_started"} : \A j \in 1..Len(new) : new[j].what # w
  BY <1>2 DEF Measured
<1>8. At("server_started")' = At("server_started") \cup {Len(log) + 1}
  BY <1>6
<1>9. \A w \in Measured \ {"server_started"} : At(w)' = At(w) /\ \A s : Of(w, s)' = Of(w, s)
  BY <1>2, <1>3, <1>7, OtherLines
<1> QED BY <1>4, <1>8, <1>9

-----------------------------------------------------------------------------
(* Every step preserves the types and the invariant.                       *)

\* The measured lines are those they were.
SameMarks ==
  /\ log' \in Seq(LogLine) /\ Len(log') >= Len(log)
  /\ \A w \in Measured : At(w)' = At(w) /\ \A s : Of(w, s)' = Of(w, s)

LEMMA SameLog ==
  ASSUME log \in Seq(LogLine), log' = log
  PROVE  SameMarks
<1>1. \A w : At(w)' = At(w) /\ \A s : Of(w, s)' = Of(w, s)
  BY DEF At, Of
<1> QED BY <1>1 DEF SameMarks

\* What is said of the measured lines holds on while they and what the server
\* knows stay.
LEMMA MarksKept ==
  ASSUME StormInv, SameMarks, UNCHANGED <<run, storm, booted, verified>>
  PROVE  Stamped' /\ StampedFirst' /\ MarksAreLogged'
<1>1. /\ At("supervisor_kill")' = At("supervisor_kill")
      /\ At("server_started")' = At("server_started")
      /\ \A s : Of("booted", s)' = Of("booted", s) /\ Of("check_ok", s)' = Of("check_ok", s)
      /\ 1..Len(log) \subseteq 1..Len(log')
  BY DEF SameMarks, Measured, StormInv
<1>2. Stamped'
  BY <1>1 DEF StormInv, Stamped
<1>3. StampedFirst'
  BY <1>1 DEF StormInv, StampedFirst
<1>4. MarksAreLogged'
  BY <1>1 DEF StormInv, MarksAreLogged
<1> QED BY <1>2, <1>3, <1>4

\* Nor is anybody else key-checked.
LEMMA CheckedKept ==
  ASSUME StormInv, SameMarks,
         \A s \in Stations, n \in Conns :
           boot[s][n]' = "checking" => boot[s][n] = "checking" \/ s \in Enrolled
  PROVE  OnlyEnrolledChecked'
<1>1. \A s : Of("check_ok", s)' = Of("check_ok", s) /\ Of("check_failed", s)' = Of("check_failed", s)
  BY DEF SameMarks, Measured
<1> QED BY <1>1 DEF StormInv, OnlyEnrolledChecked, KeyChecked

LEMMA InitStorm == StormInit => StormTypeOK /\ StormInv
<1> SUFFICES ASSUME StormInit PROVE StormTypeOK /\ StormInv
  OBVIOUS
<1>1. log = <<>> /\ log \in Seq(LogLine) /\ 1..Len(log) = {}
  BY DEF StormInit
<1>2. \A w : At(w) = {} /\ \A s : Of(w, s) = {}
  BY <1>1 DEF At, Of
<1>3. StormTypeOK
  BY <1>1, StormAssumption DEF StormInit, StormTypeOK, Runs, BootState, Conns
<1>4. LiveSessionKept /\ Phases /\ OnlyEnrolledChecked
  BY <1>2 DEF StormInit, LiveSessionKept, Phases, OnlyEnrolledChecked, KeyChecked
<1>5. Stamped /\ StampedFirst /\ MarksAreLogged
  BY <1>2 DEF StormInit, Stamped, StampedFirst, MarksAreLogged
<1> QED BY <1>1, <1>3, <1>4, <1>5 DEF StormInv

LEMMA DialStorm ==
  ASSUME StormTypeOK, StormInv, NEW s \in Stations, Dial(s)
  PROVE  StormTypeOK' /\ StormInv'
<1> USE DEF Dial, serverVars, pollVars
<1>1. SameMarks /\ log \in Seq(LogLine)
  BY SameLog DEF StormInv
<1>2. opened[s] + 1 \in 0..MaxConn /\ opened[s] + 1 \in Conns /\ opened[s] + 1 # 0
  BY StormAssumption DEF StormTypeOK, Conns
<1>3. StormTypeOK'
  <2>1. handlers' \in [Stations -> SUBSET Conns]
    BY <1>2 DEF StormTypeOK
  <2>2. \A t \in Stations : session'[t] \in handlers'[t] \cup {0}
    BY <1>2 DEF StormTypeOK
  <2> QED BY <1>2, <2>1, <2>2 DEF StormTypeOK
<1>4. LiveSessionKept' /\ Phases'
  BY <1>2 DEF StormTypeOK, StormInv, LiveSessionKept, Phases
<1>5. OnlyEnrolledChecked'
  BY <1>1, CheckedKept
<1>6. Stamped' /\ StampedFirst' /\ MarksAreLogged'
  BY <1>1, MarksKept
<1> QED BY <1>1, <1>3, <1>4, <1>5, <1>6 DEF StormInv

LEMMA LoseLinkStorm ==
  ASSUME StormTypeOK, StormInv, NEW s \in Stations, LoseLink(s)
  PROVE  StormTypeOK' /\ StormInv'
<1> USE DEF LoseLink, serverVars, checkVars, pollVars
<1>1. SameMarks /\ log \in Seq(LogLine)
  BY SameLog DEF StormInv
<1>2. StormTypeOK'
  BY StormAssumption DEF StormTypeOK
<1>3. LiveSessionKept' /\ Phases'
  BY DEF StormTypeOK, StormInv, LiveSessionKept, Phases
<1>4. OnlyEnrolledChecked'
  BY <1>1, CheckedKept
<1>5. Stamped' /\ StampedFirst' /\ MarksAreLogged'
  BY <1>1, MarksKept
<1> QED BY <1>1, <1>2, <1>3, <1>4, <1>5 DEF StormInv

LEMMA UnwindStorm ==
  ASSUME StormTypeOK, StormInv, NEW s \in Stations, NEW n \in Conns, Unwind(s, n)
  PROVE  StormTypeOK' /\ StormInv'
<1> USE DEF Unwind, serverVars, chargerVars, pollVars
<1>1. SameMarks /\ log \in Seq(LogLine)
  BY SameLog DEF StormInv
<1>2. /\ handlers' \in [Stations -> SUBSET Conns]
      /\ \A t \in Stations : handlers'[t] = IF t = s THEN handlers[s] \ {n} ELSE handlers[t]
      /\ \A t \in Stations :
           session'[t] = IF t = s THEN IF session[s] = n THEN 0 ELSE session[s] ELSE session[t]
  BY DEF StormTypeOK, StillCurrent
<1>3. session' \in [Stations -> 0..MaxConn] /\ 0 \in 0..MaxConn
  BY StormAssumption DEF StormTypeOK
<1>4. \A t \in Stations : session'[t] \in handlers'[t] \cup {0}
  BY <1>2 DEF StormTypeOK
<1>5. StormTypeOK'
  BY <1>2, <1>3, <1>4 DEF StormTypeOK
<1>6. LiveSessionKept' /\ Phases'
  BY <1>2 DEF StormTypeOK, StormInv, LiveSessionKept, Phases
<1>7. OnlyEnrolledChecked'
  BY <1>1, CheckedKept
<1>8. Stamped' /\ StampedFirst' /\ MarksAreLogged'
  BY <1>1, MarksKept
<1> QED BY <1>1, <1>5, <1>6, <1>7, <1>8 DEF StormInv

\* A boot moves on within its own cell.
LEMMA BootCell ==
  ASSUME StormTypeOK, NEW s \in Stations, NEW n \in Conns, NEW st \in BootState, Becomes(s, n, st)
  PROVE  /\ boot' \in [Stations -> [Conns -> BootState]]
         /\ \A t \in Stations, m \in Conns :
              boot'[t][m] = IF t = s /\ m = n THEN st ELSE boot[t][m]
BY DEF StormTypeOK, Becomes

LEMMA SendBootStorm ==
  ASSUME StormTypeOK, StormInv, NEW s \in Stations, SendBoot(s)
  PROVE  StormTypeOK' /\ StormInv'
<1> USE DEF SendBoot, serverVars, chargerVars, pollVars
<1>1. SameMarks /\ log \in Seq(LogLine)
  BY SameLog DEF StormInv
<1>2. /\ boot' \in [Stations -> [Conns -> BootState]]
      /\ \A t \in Stations, m \in Conns :
           boot'[t][m] = IF t = s /\ m = link[s] THEN "sent" ELSE boot[t][m]
  <2>1. link[s] \in Conns /\ "sent" \in BootState
    BY DEF StormTypeOK, Conns, BootState
  <2> QED BY <2>1, BootCell
<1>3. StormTypeOK'
  BY <1>2 DEF StormTypeOK
<1>4. LiveSessionKept' /\ Phases'
  BY DEF StormInv, LiveSessionKept, Phases
<1>5. OnlyEnrolledChecked'
  <2>1. \A t \in Stations, m \in Conns : boot[t][m]' = "checking" => boot[t][m] = "checking"
    BY <1>2
  <2> QED BY <1>1, <2>1, CheckedKept
<1>6. Stamped' /\ StampedFirst' /\ MarksAreLogged'
  BY <1>1, MarksKept
<1> QED BY <1>1, <1>3, <1>4, <1>5, <1>6 DEF StormInv

LEMMA AnnounceBootStorm ==
  ASSUME StormTypeOK, StormInv, NEW s \in Stations, NEW n \in Conns, AnnounceBoot(s, n)
  PROVE  StormTypeOK' /\ StormInv'
<1> USE DEF AnnounceBoot, serverVars, chargerVars, pollVars
<1>1. SameMarks /\ log \in Seq(LogLine)
  BY SameLog DEF StormInv
<1>2. PICK st \in BootState : Becomes(s, n, st) /\ (st = "checking" => s \in Enrolled)
  BY DEF BootState
<1>3. /\ boot' \in [Stations -> [Conns -> BootState]]
      /\ \A t \in Stations, m \in Conns :
           boot'[t][m] = IF t = s /\ m = n THEN st ELSE boot[t][m]
  BY <1>2, BootCell
<1>4. StormTypeOK'
  BY <1>3 DEF StormTypeOK
<1>5. LiveSessionKept' /\ Phases'
  BY DEF StormInv, LiveSessionKept, Phases
<1>6. OnlyEnrolledChecked'
  <2>1. \A t \in Stations, m \in Conns :
          boot[t][m]' = "checking" => boot[t][m] = "checking" \/ t \in Enrolled
    BY <1>2, <1>3
  <2> QED BY <1>1, <2>1, CheckedKept
<1>7. Stamped' /\ StampedFirst' /\ MarksAreLogged'
  BY <1>1, MarksKept
<1> QED BY <1>1, <1>4, <1>5, <1>6, <1>7 DEF StormInv

\* What one line of a charger leaves of the stamps.
LEMMA StampsKept ==
  ASSUME StormInv, NEW w \in {"booted", "check_ok", "check_failed"}, NEW s \in Stations,
         Logged(w, s), UNCHANGED <<run, storm>>
  PROVE  /\ Stamped' /\ StampedFirst' /\ log' \in Seq(LogLine)
         /\ At("server_started")' = At("server_started")
         /\ \A i \in At("server_started") : i < Len(log) + 1
         /\ Of(w, s)' = Of(w, s) \cup {Len(log) + 1}
         /\ \A t : t # s => Of(w, t)' = Of(w, t)
         /\ \A v, t : v # w => Of(v, t)' = Of(v, t)
<1>1. /\ log' \in Seq(LogLine) /\ Len(log') = Len(log) + 1 /\ Len(log) \in Nat
      /\ Of(w, s)' = Of(w, s) \cup {Len(log) + 1}
      /\ \A t : t # s => Of(w, t)' = Of(w, t)
      /\ \A v : v # w => At(v)' = At(v) /\ \A t : Of(v, t)' = Of(v, t)
  <2>1. w \in Kinds /\ log \in Seq(LogLine)
    BY DEF Kinds, StormInv
  <2> QED BY <2>1, OneLine
<1>2. /\ At("supervisor_kill")' = At("supervisor_kill")
      /\ At("server_started")' = At("server_started")
      /\ 1..Len(log) \subseteq 1..Len(log')
  BY <1>1
<1>3. Stamped' /\ StampedFirst'
  BY <1>2 DEF StormInv, Stamped, StampedFirst
<1>4. \A i \in At("server_started") : i < Len(log) + 1
  BY <1>1 DEF At
<1> QED BY <1>1, <1>2, <1>3, <1>4

LEMMA ReadBootStorm ==
  ASSUME StormTypeOK, StormInv, NEW s \in Stations, NEW n \in Conns, ReadBoot(s, n)
  PROVE  StormTypeOK' /\ StormInv'
<1> USE DEF ReadBoot, serverVars, chargerVars, pollVars
<1> DEFINE l == Len(log) + 1
<1>1. /\ Stamped' /\ StampedFirst' /\ log' \in Seq(LogLine)
      /\ At("server_started")' = At("server_started")
      /\ \A i \in At("server_started") : i < l
      /\ Of("booted", s)' = Of("booted", s) \cup {l}
      /\ \A t : t # s => Of("booted", t)' = Of("booted", t)
      /\ \A v, t : v # "booted" => Of(v, t)' = Of(v, t)
  BY StampsKept
<1>2. /\ boot' \in [Stations -> [Conns -> BootState]]
      /\ \A t \in Stations, m \in Conns :
           boot'[t][m] = IF t = s /\ m = n THEN "answered" ELSE boot[t][m]
  BY BootCell DEF BootState
<1>3. /\ booted' \in [Stations -> SUBSET Conns]
      /\ \A t \in Stations : t # s => booted'[t] = booted[t]
  <2>1. session[s] \in 0..MaxConn
    BY DEF StormTypeOK
  <2>2. {session[s]} \ {0} \subseteq Conns
    BY <2>1 DEF Conns
  <2> QED BY <2>2 DEF StormTypeOK
<1>4. \A i \in 1..Len(log') : log'[i] \in [what : Kinds, station : Stations \cup {0}]
  BY <1>1, ElementOfSeq DEF LogLine
<1>5. StormTypeOK'
  BY <1>2, <1>3, <1>4 DEF StormTypeOK
<1>6. LiveSessionKept' /\ Phases'
  BY <1>3 DEF StormInv, LiveSessionKept, Phases
<1>7. OnlyEnrolledChecked'
  <2> SUFFICES ASSUME NEW t \in Stations
               PROVE  /\ KeyChecked(t)' => t \in Enrolled
                      /\ \A m \in Conns : boot'[t][m] = "checking" => t \in Enrolled
    BY DEF OnlyEnrolledChecked
  <2>1. KeyChecked(t)' <=> KeyChecked(t)
    <3>1. /\ Of("check_ok", t)' = Of("check_ok", t)
          /\ Of("check_failed", t)' = Of("check_failed", t)
      BY <1>1
    <3> QED BY <3>1, Zenon DEF KeyChecked
  <2>2. ASSUME NEW m \in Conns, boot'[t][m] = "checking" PROVE boot[t][m] = "checking"
    BY <1>2, <2>2
  <2> QED BY <2>1, <2>2, Zenon DEF StormInv, OnlyEnrolledChecked
<1>8. MarksAreLogged'
  <2> SUFFICES ASSUME NEW t \in Stations, NEW i \in At("server_started")
               PROVE  /\ booted'[t] # {} => \E j \in Of("booted", t)' : j > i
                      /\ verified'[t] # {} => \E j \in Of("check_ok", t)' : j > i
    BY <1>1 DEF MarksAreLogged
  <2>1. verified'[t] # {} => \E j \in Of("check_ok", t)' : j > i
    BY <1>1 DEF StormInv, MarksAreLogged
  <2>2. CASE t = s
    <3>1. l \in Of("booted", t)' /\ l > i
      BY <1>1, <2>2 DEF At
    <3> QED BY <2>1, <3>1
  <2>3. CASE t # s
    <3>1. booted'[t] = booted[t] /\ Of("booted", t)' = Of("booted", t)
      BY <1>1, <1>3, <2>3
    <3> QED BY <2>1, <3>1 DEF StormInv, MarksAreLogged
  <2> QED BY <2>2, <2>3
<1> QED BY <1>1, <1>5, <1>6, <1>7, <1>8 DEF StormInv

LEMMA CheckPassesStorm ==
  ASSUME StormTypeOK, StormInv, NEW s \in Stations, NEW n \in Conns, CheckPasses(s, n)
  PROVE  StormTypeOK' /\ StormInv'
<1> USE DEF CheckPasses, MarkVerified, serverVars, chargerVars, pollVars
<1> DEFINE l == Len(log) + 1
<1>1. /\ Stamped' /\ StampedFirst' /\ log' \in Seq(LogLine)
      /\ At("server_started")' = At("server_started")
      /\ \A i \in At("server_started") : i < l
      /\ Of("check_ok", s)' = Of("check_ok", s) \cup {l}
      /\ \A t : t # s => Of("check_ok", t)' = Of("check_ok", t)
      /\ \A v, t : v # "check_ok" => Of(v, t)' = Of(v, t)
  BY StampsKept
<1>2. /\ boot' \in [Stations -> [Conns -> BootState]]
      /\ \A t \in Stations, m \in Conns :
           boot'[t][m] = IF t = s /\ m = n THEN "over" ELSE boot[t][m]
  BY BootCell DEF BootState
<1>3. /\ verified' \in [Stations -> SUBSET Conns]
      /\ \A t \in Stations : t # s => verified'[t] = verified[t]
  BY DEF StormTypeOK
<1>4. \A i \in 1..Len(log') : log'[i] \in [what : Kinds, station : Stations \cup {0}]
  BY <1>1, ElementOfSeq DEF LogLine
<1>5. StormTypeOK'
  BY <1>2, <1>3, <1>4 DEF StormTypeOK
<1>6. LiveSessionKept' /\ Phases'
  BY <1>3 DEF StormInv, LiveSessionKept, Phases
<1>7. OnlyEnrolledChecked'
  BY <1>1, <1>2 DEF StormInv, OnlyEnrolledChecked, KeyChecked
<1>8. MarksAreLogged'
  <2> SUFFICES ASSUME NEW t \in Stations, NEW i \in At("server_started")
               PROVE  /\ booted'[t] # {} => \E j \in Of("booted", t)' : j > i
                      /\ verified'[t] # {} => \E j \in Of("check_ok", t)' : j > i
    BY <1>1 DEF MarksAreLogged
  <2>1. booted'[t] # {} => \E j \in Of("booted", t)' : j > i
    BY <1>1 DEF StormInv, MarksAreLogged
  <2>2. CASE t = s
    <3>1. l \in Of("check_ok", t)' /\ l > i
      BY <1>1, <2>2 DEF At
    <3> QED BY <2>1, <3>1
  <2>3. CASE t # s
    <3>1. verified'[t] = verified[t] /\ Of("check_ok", t)' = Of("check_ok", t)
      BY <1>1, <1>3, <2>3
    <3> QED BY <2>1, <3>1 DEF StormInv, MarksAreLogged
  <2> QED BY <2>2, <2>3
<1> QED BY <1>1, <1>5, <1>6, <1>7, <1>8 DEF StormInv

LEMMA CheckFailsStorm ==
  ASSUME StormTypeOK, StormInv, NEW s \in Stations, NEW n \in Conns, CheckFails(s, n)
  PROVE  StormTypeOK' /\ StormInv'
<1> USE DEF CheckFails, LinkAfterFailure, serverVars, pollVars
<1>1. /\ Stamped' /\ StampedFirst' /\ log' \in Seq(LogLine)
      /\ At("server_started")' = At("server_started")
      /\ \A t : t # s => Of("check_failed", t)' = Of("check_failed", t)
      /\ \A v, t : v # "check_failed" => Of(v, t)' = Of(v, t)
  BY StampsKept
<1>2. /\ boot' \in [Stations -> [Conns -> BootState]]
      /\ \A t \in Stations, m \in Conns :
           boot'[t][m] = IF t = s /\ m = n THEN "over" ELSE boot[t][m]
  BY BootCell DEF BootState
<1>3. /\ link' \in [Stations -> 0..MaxConn]
      /\ \A t \in Stations : link'[t] # 0 => link'[t] = link[t]
  BY StormAssumption DEF StormTypeOK
<1>4. losses' \in 0..MaxLosses
  BY StormAssumption DEF StormTypeOK
<1>5. \A i \in 1..Len(log') : log'[i] \in [what : Kinds, station : Stations \cup {0}]
  BY <1>1, ElementOfSeq DEF LogLine
<1>6. StormTypeOK'
  BY <1>2, <1>3, <1>4, <1>5 DEF StormTypeOK
<1>7. LiveSessionKept' /\ Phases'
  BY <1>3 DEF StormInv, LiveSessionKept, Phases
<1>8. OnlyEnrolledChecked'
  BY <1>1, <1>2 DEF StormInv, OnlyEnrolledChecked, KeyChecked
<1>9. MarksAreLogged'
  BY <1>1 DEF StormInv, MarksAreLogged
<1> QED BY <1>1, <1>6, <1>7, <1>8, <1>9 DEF StormInv

LEMMA StampStorm ==
  ASSUME StormTypeOK, StormInv, Stamp
  PROVE  StormTypeOK' /\ StormInv'
<1> USE DEF Stamp, chargerVars, checkVars, pollVars
<1>1. /\ log' \in Seq(LogLine) /\ Len(log') = Len(log) + 1 /\ Len(log) \in Nat
      /\ At("supervisor_kill")' = At("supervisor_kill") \cup {Len(log) + 1}
      /\ \A w : w # "supervisor_kill" => At(w)' = At(w) /\ \A t : Of(w, t)' = Of(w, t)
  <2>1. "supervisor_kill" \in Kinds /\ 0 \in Stations \cup {0} /\ log \in Seq(LogLine)
    BY DEF Kinds, StormInv
  <2> QED BY <2>1, OneLine
<1>2. \A i \in 1..Len(log') : log'[i] \in [what : Kinds, station : Stations \cup {0}]
  BY <1>1, ElementOfSeq DEF LogLine
<1>3. StormTypeOK'
  BY <1>2 DEF StormTypeOK
<1>4. run = 1 /\ up
  BY DEF StormInv, Phases
<1>5. LiveSessionKept' /\ Phases'
  BY <1>4 DEF StormInv, LiveSessionKept, Phases
<1>6. /\ At("supervisor_kill")' = {Len(log) + 1} /\ Len(log) + 1 \in 1..Len(log')
      /\ At("server_started")' = {} /\ At("server_started") = {}
  BY <1>1, <1>4 DEF StormInv, Stamped
<1>7. Stamped' /\ StampedFirst' /\ MarksAreLogged'
  BY <1>4, <1>6 DEF Stamped, StampedFirst, MarksAreLogged
<1>8. OnlyEnrolledChecked'
  BY <1>1 DEF StormInv, OnlyEnrolledChecked, KeyChecked
<1> QED BY <1>1, <1>3, <1>5, <1>7, <1>8 DEF StormInv

LEMMA KillStorm ==
  ASSUME StormTypeOK, StormInv, Kill
  PROVE  StormTypeOK' /\ StormInv'
<1> USE DEF Kill, pollVars
<1>1. SameMarks /\ log \in Seq(LogLine)
  BY SameLog DEF StormInv
<1>2. StormTypeOK'
  <2>1. boot' \in [Stations -> [Conns -> BootState]]
    BY DEF BootState
  <2>2. link' \in [Stations -> 0..MaxConn] /\ session' \in [Stations -> 0..MaxConn]
    BY StormAssumption
  <2>3. /\ handlers' \in [Stations -> SUBSET Conns] /\ booted' \in [Stations -> SUBSET Conns]
        /\ verified' \in [Stations -> SUBSET Conns]
        /\ \A s \in Stations : session'[s] \in handlers'[s] \cup {0}
    OBVIOUS
  <2>4. up' \in BOOLEAN /\ storm' \in {"before", "killing", "down", "over"}
    OBVIOUS
  <2> QED BY <2>1, <2>2, <2>3, <2>4 DEF StormTypeOK
<1>3. LiveSessionKept' /\ Phases'
  BY DEF StormInv, LiveSessionKept, Phases
<1>4. run = 1 /\ At("server_started") = {} /\ At("server_started")' = {}
      /\ At("supervisor_kill")' = At("supervisor_kill") /\ 1..Len(log') = 1..Len(log)
  BY <1>1 DEF SameMarks, Measured, StormInv, Phases, Stamped
<1>5. Stamped' /\ StampedFirst' /\ MarksAreLogged'
  BY <1>4 DEF StormInv, Stamped, StampedFirst, MarksAreLogged
<1>6. OnlyEnrolledChecked'
  <2>1. \A t \in Stations, m \in Conns : boot[t][m]' = "checking" => boot[t][m] = "checking"
    OBVIOUS
  <2> QED BY <1>1, <2>1, CheckedKept
<1> QED BY <1>1, <1>2, <1>3, <1>5, <1>6 DEF StormInv

LEMMA StartStorm ==
  ASSUME StormTypeOK, StormInv, Start
  PROVE  StormTypeOK' /\ StormInv'
<1>1. /\ log' \in Seq(LogLine) /\ Len(log) \in Nat /\ Len(log') = Len(log) + 2
      /\ At("server_started")' = At("server_started") \cup {Len(log) + 1}
      /\ \A w \in Measured \ {"server_started"} : At(w)' = At(w) /\ \A s : Of(w, s)' = Of(w, s)
  BY StartLines DEF StormInv
<1>2. /\ run = 1 /\ run' = 2 /\ up' = TRUE /\ storm = "down" /\ storm' = "over"
      /\ UNCHANGED <<opened, link, session, handlers, boot, booted, verified, losses, poll, polls,
                     reachable, lastRun>>
      /\ \A s \in Stations : booted[s] = {} /\ verified[s] = {}
  BY DEF Start, StormInv, Phases, chargerVars, checkVars, pollVars
<1>3. \A i \in 1..Len(log') : log'[i] \in [what : Kinds, station : Stations \cup {0}]
  BY <1>1, ElementOfSeq DEF LogLine
<1>4. StormTypeOK'
  BY <1>2, <1>3 DEF StormTypeOK, Runs
<1>5. LiveSessionKept' /\ Phases'
  BY <1>2 DEF StormInv, LiveSessionKept, Phases
<1>6. /\ At("server_started") = {} /\ At("server_started")' = {Len(log) + 1}
      /\ At("supervisor_kill")' = At("supervisor_kill")
      /\ 1..Len(log) \subseteq 1..Len(log') /\ Len(log) + 1 \in 1..Len(log')
      /\ \A s : Of("check_ok", s)' = Of("check_ok", s) /\ Of("check_failed", s)' = Of("check_failed", s)
  BY <1>1, <1>2 DEF StormInv, Stamped, Measured
<1>7. Stamped'
  BY <1>2, <1>6 DEF StormInv, Stamped
<1>8. StampedFirst'
  BY <1>1, <1>6 DEF StampedFirst, At
<1>9. MarksAreLogged' /\ OnlyEnrolledChecked'
  BY <1>2, <1>6 DEF StormInv, MarksAreLogged, OnlyEnrolledChecked, KeyChecked
<1> QED BY <1>1, <1>4, <1>5, <1>7, <1>8, <1>9 DEF StormInv

LEMMA PollStorm ==
  ASSUME StormTypeOK, StormInv, Ask \/ PollAnswered \/ PollFails
  PROVE  StormTypeOK' /\ StormInv'
<1>1. SameMarks
  <2>1. CASE Ask
    BY <2>1, SameLog DEF Ask, StormInv
  <2>2. CASE PollAnswered \/ PollFails
    BY <2>2, PollLines DEF SameMarks, StormInv
  <2> QED BY <2>1, <2>2
<1>2. UNCHANGED <<up, run, storm, opened, link, session, handlers, boot, booted, verified, losses>>
  BY DEF Ask, PollAnswered, PollFails, serverVars, chargerVars, checkVars
<1>3. /\ poll' \in {<<>>} \cup {<<r>> : r \in Runs \cup {0}} /\ polls' \in 0..MaxPolls
      /\ reachable' \in BOOLEAN /\ lastRun' \in Runs \cup {0}
  <2>1. CASE Ask
    <3>1. poll' = <<run>> \/ poll' = <<0>>
      BY <2>1 DEF Ask
    <3>2. polls' \in 0..MaxPolls /\ UNCHANGED <<reachable, lastRun>>
      BY <2>1, StormAssumption DEF Ask, StormTypeOK
    <3>3. \E r \in Runs \cup {0} : poll' = <<r>>
      BY <3>1 DEF StormTypeOK
    <3> QED BY <3>2, <3>3 DEF StormTypeOK
  <2>2. CASE PollAnswered \/ PollFails
    BY <2>2 DEF PollAnswered, PollFails, StormTypeOK
  <2> QED BY <2>1, <2>2
<1>4. \A i \in 1..Len(log') : log'[i] \in [what : Kinds, station : Stations \cup {0}]
  BY <1>1, ElementOfSeq DEF SameMarks, LogLine
<1>5. StormTypeOK'
  BY <1>2, <1>3, <1>4 DEF StormTypeOK
<1>6. LiveSessionKept' /\ Phases'
  BY <1>2 DEF StormInv, LiveSessionKept, Phases
<1>7. OnlyEnrolledChecked'
  BY <1>1, <1>2, CheckedKept
<1>8. Stamped' /\ StampedFirst' /\ MarksAreLogged'
  BY <1>1, <1>2, MarksKept
<1> QED BY <1>1, <1>5, <1>6, <1>7, <1>8 DEF SameMarks, StormInv

LEMMA StutterStorm ==
  ASSUME StormTypeOK, StormInv, UNCHANGED vars
  PROVE  StormTypeOK' /\ StormInv'
<1> USE DEF vars, serverVars, chargerVars, checkVars, pollVars
<1>1. SameMarks /\ log \in Seq(LogLine)
  BY SameLog DEF StormInv
<1>2. StormTypeOK'
  BY DEF StormTypeOK
<1>3. LiveSessionKept' /\ Phases'
  BY DEF StormInv, LiveSessionKept, Phases
<1>4. OnlyEnrolledChecked'
  BY <1>1, CheckedKept
<1>5. Stamped' /\ StampedFirst' /\ MarksAreLogged'
  BY <1>1, MarksKept
<1> QED BY <1>1, <1>2, <1>3, <1>4, <1>5 DEF StormInv

-----------------------------------------------------------------------------
(* The theorems.                                                           *)

\* Every reachable state is typed and satisfies the inductive invariant.
THEOREM StormInductive == StormSpec => [](StormTypeOK /\ StormInv)
<1>1. StormInit => StormTypeOK /\ StormInv
  BY InitStorm
<1>2. StormTypeOK /\ StormInv /\ [StormNext]_vars => (StormTypeOK /\ StormInv)'
  <2> SUFFICES ASSUME StormTypeOK, StormInv, [StormNext]_vars
               PROVE  (StormTypeOK /\ StormInv)'
    OBVIOUS
  <2>1. ASSUME NEW s \in Stations, Dial(s) \/ LoseLink(s) \/ SendBoot(s)
        PROVE  StormTypeOK' /\ StormInv'
    BY <2>1, DialStorm, LoseLinkStorm, SendBootStorm
  <2>2. ASSUME NEW s \in Stations, NEW n \in Conns,
               Unwind(s, n) \/ ReadBoot(s, n) \/ AnnounceBoot(s, n)
        PROVE  StormTypeOK' /\ StormInv'
    BY <2>2, UnwindStorm, ReadBootStorm, AnnounceBootStorm
  <2>3. ASSUME NEW s \in Stations, NEW n \in Conns, CheckPasses(s, n) \/ CheckFails(s, n)
        PROVE  StormTypeOK' /\ StormInv'
    BY <2>3, CheckPassesStorm, CheckFailsStorm
  <2>4. CASE Stamp \/ Kill \/ Start
    BY <2>4, StampStorm, KillStorm, StartStorm
  <2>5. CASE Ask \/ PollAnswered \/ PollFails
    BY <2>5, PollStorm
  <2>6. CASE UNCHANGED vars
    BY <2>6, StutterStorm
  <2> QED BY <2>1, <2>2, <2>3, <2>4, <2>5, <2>6 DEF StormNext
<1> QED BY <1>1, <1>2, PTL DEF StormSpec

\* The registry leaks no session: a session is that of a connection still
\* served, whatever was lost, killed and dialled again (csms/server.py on_connect).
THEOREM StormTypeCorrect == StormSpec => []StormTypeOK
BY StormInductive, PTL

\* However late the handlers of older connections unwind, a charger with an
\* open connection is the registry's session (csms/registry.py deregister).
THEOREM LiveSession == StormSpec => []LiveSessionKept
<1>1. StormTypeOK /\ StormInv => LiveSessionKept
  BY DEF StormInv
<1> QED BY <1>1, StormInductive, PTL

\* The measure's two stamps, once the server is up again.
LEMMA RestartStamp ==
  ASSUME StormTypeOK, StormInv, run > 1, up
  PROVE  At("server_started") = {RestartTime}
<1>1. run = 2 /\ storm # "before"
  BY DEF StormTypeOK, StormInv, Phases, Runs
<1>2. PICK k \in 1..Len(log) : At("supervisor_kill") = {k}
  BY <1>1 DEF StormInv, Stamped
<1>3. PICK i \in 1..Len(log) : At("server_started") = {i}
  BY <1>1 DEF StormInv, Stamped
<1>4. k < i
  BY <1>2, <1>3 DEF StormInv, StampedFirst
<1>5. \A j \in Nat : First({j}) = j
  BY DEF First
<1>6. KillTime = k
  <2>1. At("supervisor_kill") # {} /\ First(At("supervisor_kill")) = k
    BY <1>2, <1>5
  <2> QED BY <2>1 DEF KillTime
<1>7. After(At("server_started"), KillTime) = {i}
  BY <1>3, <1>4, <1>6 DEF After
<1>8. RestartTime = i
  <2>1. After(At("server_started"), KillTime) # {} /\ First(After(At("server_started"), KillTime)) = i
    BY <1>5, <1>7
  <2> QED BY <2>1 DEF RestartTime
<1> QED BY <1>3, <1>8

\* The analysis misses no recovery: what the fleet view shows recovered after
\* the restart, the logs' measure counts (analysis/measures/e2_storm.py).
THEOREM Recovered == StormSpec => []RecoveryCounted
<1>1. StormTypeOK /\ StormInv => RecoveryCounted
  <2> SUFFICES ASSUME StormTypeOK, StormInv, run > 1, up,
                      NEW s \in Population, IsRecovered(s)
               PROVE  s \in Counted
    BY DEF RecoveryCounted
  <2>1. s \in Stations
    BY DEF Population
  <2>2. RestartTime \in At("server_started")
    BY RestartStamp
  <2>3. \E j \in Of("booted", s) : j > RestartTime
    BY <2>1, <2>2 DEF IsRecovered, View, StormInv, MarksAreLogged
  <2>4. After(Of("booted", s), RestartTime) # {}
    BY <2>2, <2>3 DEF After, Of, At
  <2>5. ASSUME KeyChecked(s)
        PROVE  After(Of("check_ok", s), RestartTime) # {}
    <3>1. s \in Enrolled
      BY <2>1, <2>5 DEF StormInv, OnlyEnrolledChecked
    <3>2. \E j \in Of("check_ok", s) : j > RestartTime
      BY <2>1, <2>2, <3>1 DEF IsRecovered, View, PqCheckRequired, StormInv, MarksAreLogged
    <3> QED BY <2>2, <3>2 DEF After, Of, At
  <2> QED BY <2>4, <2>5 DEF Counted
<1> QED BY <1>1, StormInductive, PTL
=============================================================================

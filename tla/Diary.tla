-------------------------------- MODULE Diary ---------------------------------
(***************************************************************************)
(* analysis/collect.py: the load generators' diaries, read back. A diary   *)
(* is cut into runs by run id; runs that are parts of one experiment,      *)
(* started as several generators at once, are joined.                      *)
(***************************************************************************)
EXTENDS TimingLog, FiniteSets, SequencesExt

CONSTANTS
  Stations,   \* chargers, numbered
  Generators, \* ways to start a load generator (command lines)
  Fleet,      \* [Generators -> SUBSET Stations]
  Gen,        \* [Runs -> Generators] which one a run is of
  Name        \* [Generators -> Seq(word)] the experiment's name, cut at "_"

ASSUME DiaryAssumption ==
  /\ Stations \subseteq Nat \ {0} /\ Files = Generators
  /\ Fleet \in [Generators -> SUBSET Stations]
  /\ \A g \in Generators : IsFiniteSet(Fleet[g])
  /\ Runs \subseteq Nat /\ Gen \in [Runs -> Generators]

-----------------------------------------------------------------------------
(* HarnessRun.                                                             *)

\* read_harness_file: a run exists if one of its lines can be read.
InDiary == {r \in Runs : file[r] # <<>>}

\* of_type.
OfType(r, what) == {i \in 1..Len(file[r]) : file[r][i].what = what}
About(r, s, what) == {i \in OfType(r, what) : file[r][i].station = s}

\* started_at: of the run_started line, or of the first line there is.
StartedAt(r) == first[r]

\* completed: the totals row was written.
Finished(r) == OfType(r, "run_finished") # {}

\* finished_at or last_seen_at: the totals row is the last line.
EndAt(r) == last[r]

\* station_ids.
StationIds(r) == {file[r][i].station : i \in OfType(r, "station_spawned")}

Outcomes(r, s) == About(r, s, "station_finished") \cup About(r, s, "station_crashed")

\* connect_times, of one charger: the lines written as the connections opened,
\* or the list in the charger's outcome if that is not shorter.
ConnectTimes(r, s) ==
  LET live  == Cardinality(About(r, s, "station_connected"))
      final == IF Outcomes(r, s) = {} THEN 0 ELSE file[r][Max(Outcomes(r, s))].n
  IN  IF final >= live THEN final ELSE live

-----------------------------------------------------------------------------
(* join_split_runs.                                                        *)

\* _names_match: the same, or one is the other plus "_<suffix>".
NamesMatch(a, b) == IsPrefix(a, b) \/ IsPrefix(b, a)

\* The time both were running (_window, overlap).
Overlap(a, b) ==
  Min({EndAt(a), EndAt(b)}) - Max({StartedAt(a), StartedAt(b)})

\* _are_parts_of_one_run. The mode and the TLS setting are the same here.
PartsOfOneRun(a, b) ==
  /\ NamesMatch(Name[Gen[a]], Name[Gen[b]])
  /\ Max({StartedAt(a), StartedAt(b)}) <= Min({EndAt(a), EndAt(b)})
  /\ StationIds(a) # {} /\ StationIds(b) # {}
  /\ StationIds(a) \cap StationIds(b) = {}

\* By start, then by run.
Before(a, b) ==
  StartedAt(a) < StartedAt(b) \/ (StartedAt(a) = StartedAt(b) /\ a < b)

Earliest(S) == CHOOSE r \in S : \A q \in S \ {r} : Before(r, q)

\* The candidate that ran longest alongside the seed.
Closer(seed, a, b) ==
  \/ Overlap(seed, a) > Overlap(seed, b)
  \/ Overlap(seed, a) = Overlap(seed, b) /\ Before(a, b)

Closest(seed, S) == CHOOSE r \in S : \A q \in S \ {r} : Closer(seed, r, q)

\* Mutant of Joins: one member that fits is enough.
JoinsAny(members, r) == \E m \in members : PartsOfOneRun(m, r)

\* A part joins a group only if it pairs with every member.
Joins(members, r) == \A m \in members : PartsOfOneRun(m, r)

\* The candidates that still fit: one that was passed over never fits again.
Candidates(rest, members) == {r \in rest \ members : Joins(members, r)}

Group(seed, rest) ==
  LET Grown[members \in SUBSET InDiary] ==
        IF Candidates(rest, members) = {} THEN members
        ELSE Grown[members \cup {Closest(seed, Candidates(rest, members))}]
  IN  Grown[{seed}]

\* The runs the analysis works on, as sets of parts: the earliest run that is
\* in no group is the seed of the next one.
JoinedRuns ==
  LET Groups[rest \in SUBSET InDiary] ==
        IF rest = {} THEN {}
        ELSE LET group == Group(Earliest(rest), rest)
             IN  {group} \cup Groups[rest \ group]
  IN  Groups[InDiary]

\* finished_at of a joined run: every part finished.
Completed(parts) == \A r \in parts : Finished(r)
=============================================================================

--------------------------- MODULE ChargingProfile ---------------------------
(***************************************************************************)
(* What a SetChargingProfile payload means to a charger:                   *)
(* agent/charging_profile.py parse_charging_profile, as an operator.  A    *)
(* payload is reduced to the fields the parser reads; a field that is      *)
(* there with the wrong type is "other".                                   *)
(***************************************************************************)
EXTENDS Integers, Sequences

CONSTANT Volts   \* NOMINAL_VOLTAGE_V

ASSUME VoltsAssumption == Volts \in Nat \ {0}

\* A JSON value where a number is expected: `n` counts when it is one.
Kinds     == {"absent", "number", "bool", "infinite", "other"}
Number(n) == [kind |-> "number", n |-> n]
NotNumber(k) == [kind |-> k, n |-> 0]
Value     == [kind : Kinds, n : Int]

\* A JSON value where a list is expected: a bare object is taken as its only
\* element, anything else is "missing".
Items(list) == [shape |-> "list", items |-> list]
Bare(x)     == [shape |-> "object", items |-> <<x>>]
Missing     == [shape |-> "missing", items |-> <<>>]

Lists(S)    == [shape : {"list", "object", "missing"}, items : Seq(S)]

Purposes == {"TxProfile", "TxDefaultProfile", "ChargingStationMaxProfile"}
Units    == {"W", "A"}

\* The payloads there are, well formed or not.
Period   == [limit : Value, phases : Value]
Schedule == [unit : Units \cup {"absent", "other"}, phases : Value, periods : Lists(Period)]
Payload  == [evse : Value, purpose : Purposes \cup {"absent", "other"},
             schedules : Lists(Schedule)]

EvseId   == 1

\* What CommandDispatcher sends: one schedule in watts, one period, whole station.
PlainProfile(w) ==
  [evse |-> Number(0), purpose |-> "ChargingStationMaxProfile",
   schedules |-> Items(<<[unit |-> "W", phases |-> NotNumber("absent"),
                          periods |-> Items(<<[limit |-> Number(w),
                                               phases |-> NotNumber("absent")]>>)]>>)]

\* _first_of_list raises for a missing or an empty list and ignores all but the
\* first entry.
HasFirst(list) == list.shape # "missing" /\ list.items # <<>>
First(list)    == list.items[1]

\* int(x): bool is a number to Python, infinity is none.
IsInt(v) == v.kind \in {"number", "bool"}
ToInt(v) == IF v.kind = "bool" THEN 1 ELSE v.n

\* Mutant of Limit: a stray boolean is taken for the number 1.
LimitOrBool(v) == v.kind \in {"number", "bool"} /\ v.n >= 0

\* _as_float: a number, not a boolean, finite, not negative.
Limit(v) == v.kind = "number" /\ v.n >= 0

\* evseId: None is no address; 0 is the whole station.
ForThisStation(evse) ==
  evse.kind = "absent" \/ (IsInt(evse) /\ ToInt(evse) \in {0, EvseId})

\* numberPhases of the period, else of the schedule, else 1.
Phases(schedule) ==
  CASE First(schedule.periods).phases.kind # "absent" -> First(schedule.periods).phases
    [] schedule.phases.kind # "absent"                -> schedule.phases
    [] OTHER                                          -> Number(1)

\* The schedule says something: every check of the parser below the purpose.
ScheduleValid(schedule) ==
  /\ schedule.unit \in Units \cup {"absent"}
  /\ HasFirst(schedule.periods)
  /\ Limit(First(schedule.periods).limit)
  /\ IsInt(Phases(schedule)) /\ ToInt(Phases(schedule)) \in 1..3

\* parse_charging_profile returns; otherwise it raises ProfileRejected.
Valid(p) ==
  /\ ForThisStation(p.evse)
  /\ p.purpose = "absent" \/ p.purpose \in Purposes
  /\ HasFirst(p.schedules)
  /\ ScheduleValid(First(p.schedules))

\* The limit in watts before clamping.
Asked(p) ==
  LET schedule == First(p.schedules)
      limit    == First(schedule.periods).limit.n
  IN IF schedule.unit = "A" THEN limit * Volts * ToInt(Phases(schedule)) ELSE limit

\* ProfileLimit.watts: a request above the hardware maximum is clamped to it.
Watts(p, rating) == IF Asked(p) > rating THEN rating ELSE Asked(p)
=============================================================================

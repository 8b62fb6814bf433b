---------------------------- MODULE MCCurtailment ----------------------------
(* Curtailment of chargers rated 10 W, with payloads other than the           *)
(* dispatcher's own; two "volts" keep amperes, phases and watts apart.        *)
EXTENDS Curtailment

MCRating == [s \in Stations |-> 10]

OneOf(unit, amount, phases) ==
  [PlainProfile(0) EXCEPT
     !.schedules = Items(<<[unit |-> unit, phases |-> NotNumber("absent"),
                            periods |-> Bare([limit |-> amount, phases |-> phases])]>>)]

\* One ampere on two phases; a boolean; the wrong EVSE.
MCProfiles ==
  {OneOf("A", Number(1), Number(2)),
   OneOf("W", [kind |-> "bool", n |-> 1], NotNumber("absent")),
   [PlainProfile(15) EXCEPT !.evse = Number(2)]}
=============================================================================

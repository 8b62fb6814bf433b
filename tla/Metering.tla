------------------------------ MODULE Metering ------------------------------
(***************************************************************************)
(* csms/metering.py parse_meter_values: what the server makes of the meter *)
(* values of a TransactionEvent.  A meter value is a time and a sequence   *)
(* of samples; numbers that cannot be read are NoNumber, times NoTime.     *)
(***************************************************************************)
EXTENDS Integers, Sequences

NoNumber == -1
NoTime   == 0
Nothing  == [power |-> NoNumber, energy |-> NoNumber, at |-> NoTime]

Sample(measurand, value, unit, multiplier) ==
  [measurand |-> measurand, value |-> value, unit |-> unit, multiplier |-> multiplier]
MeterValue(at, samples) == [at |-> at, samples |-> samples]

\* _UNIT_SCALE_TO_BASE; a unit that is not in it scales by one, too.
Scale(unit) == IF unit \in {"kw", "kwh"} THEN 1000 ELSE 1

\* _scaled_value: `multiplier` is a power of ten (>= 0 here).
Scaled(sample) == sample.value * 10^sample.multiplier * Scale(sample.unit)

Counts(sample) == sample.value # NoNumber

\* One sample; no measurand means energy, an unknown one is only reported.
AddSample(reading, sample) ==
  IF ~Counts(sample) THEN reading
  ELSE CASE sample.measurand = "Power.Active.Import" ->
              [reading EXCEPT !.power = Scaled(sample)]
         [] sample.measurand \in {"Energy.Active.Import.Register", "absent"} ->
              [reading EXCEPT !.energy = Scaled(sample)]
         [] OTHER -> reading

\* The samples of a meter value, one after another.
AddSamples(reading, samples) ==
  LET After[k \in 0..Len(samples)] ==
        IF k = 0 THEN reading ELSE AddSample(After[k - 1], samples[k])
  IN  After[Len(samples)]

\* One meter value; the time kept is the latest.
AddMeterValue(reading, meterValue) ==
  LET timed == IF meterValue.at # NoTime /\ meterValue.at >= reading.at
               THEN [reading EXCEPT !.at = meterValue.at] ELSE reading
  IN  AddSamples(timed, meterValue.samples)

\* parse_meter_values: the meter values, one after another.
ParseMeterValues(meterValues) ==
  LET After[k \in 0..Len(meterValues)] ==
        IF k = 0 THEN Nothing ELSE AddMeterValue(After[k - 1], meterValues[k])
  IN  After[Len(meterValues)]
=============================================================================

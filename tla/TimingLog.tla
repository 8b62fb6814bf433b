------------------------------ MODULE TimingLog -------------------------------
(***************************************************************************)
(* harness/timing_log.py: the diary a load generator writes. A line goes   *)
(* to a buffer first and reaches the file with the next flush; a killed    *)
(* process loses its buffer and may leave half a line behind, to which the *)
(* next line of that file is glued. Runs of the same experiment append to  *)
(* one file; every line names its run, so the file is kept here per run.   *)
(***************************************************************************)
EXTENDS Naturals, Sequences

CONSTANTS
  Runs,       \* run ids
  Files,      \* diary files: one per experiment, fleet size and mode
  FlushEvery, \* flush_every: lines after which the buffer is flushed
  MaxFaults   \* bound: lines not written, dials, sessions and processes that fail

ASSUME LogAssumption ==
  FlushEvery \in Nat \ {0} /\ MaxFaults \in Nat

VARIABLES
  now,        \* the wall clock: how many runs have been launched (Launch moves it)
  buffer,     \* [Runs -> Seq([t, line])] lines of the run not yet in the file
  file,       \* [Runs -> Seq(Line)] readable lines of the run in its file
  first,      \* [Runs -> Nat] when the first of them was written, 0 if none
  last,       \* [Runs -> Nat] when the last of them was written, 0 if none
  torn,       \* [Files -> BOOLEAN] the file ends in half a line
  unreadable, \* [Files -> Nat] lines of the file that cannot be parsed
  lost,       \* [Runs -> Nat] write_errors
  faults      \* what has gone wrong so far (bound)

logVars == <<buffer, file, first, last, torn, unreadable, lost, faults>>

\* A line: what, of which charger (0: of the run), and a number and a flag the
\* kind of line gives a meaning. Its time is kept while it is in the buffer; of
\* a file the reader wants the first and the last time only.
Entry(what, s, n, ok) == [what |-> what, station |-> s, n |-> n, ok |-> ok]

Stamped(line) == [t |-> now', line |-> line]

LogInit ==
  /\ now = 0
  /\ buffer = [r \in Runs |-> <<>>]
  /\ file = [r \in Runs |-> <<>>]
  /\ first = [r \in Runs |-> 0] /\ last = [r \in Runs |-> 0]
  /\ torn = [f \in Files |-> FALSE]
  /\ unreadable = [f \in Files |-> 0]
  /\ lost = [r \in Runs |-> 0]
  /\ faults = 0

\* Lines are appended to file f: the first one is lost to the half line before.
Written(r, f, lines) ==
  LET new == IF torn[f] /\ lines # <<>> THEN Tail(lines) ELSE lines IN
  /\ file' = [file EXCEPT ![r] = @ \o [i \in 1..Len(new) |-> new[i].line]]
  /\ first' = [first EXCEPT ![r] = IF @ = 0 /\ new # <<>> THEN new[1].t ELSE @]
  /\ last' = [last EXCEPT ![r] = IF new # <<>> THEN new[Len(new)].t ELSE @]

\* flush: what is in the buffer and the new lines reach the file.
Flushed(r, f, lines) ==
  /\ buffer' = [buffer EXCEPT ![r] = <<>>]
  /\ Written(r, f, buffer[r] \o lines)
  /\ torn' = [torn EXCEPT ![f] = @ /\ buffer[r] \o lines = <<>>]

\* n things go wrong in this step.
Fault(n) == faults' = faults + n /\ faults' <= MaxFaults

\* emit: a line is written, or dropped and counted (n: what
\* else goes wrong in the same step); the 50th line since the
\* last flush flushes, and so does flush_interval_s or a full block (a choice).
Emit(r, f, line, n) ==
  /\ UNCHANGED unreadable
  /\ \/ /\ Len(buffer[r]) + 1 < FlushEvery
        /\ buffer' = [buffer EXCEPT ![r] = Append(@, Stamped(line))]
        /\ Fault(n) /\ UNCHANGED <<file, first, last, torn, lost>>
     \/ Flushed(r, f, <<Stamped(line)>>) /\ Fault(n) /\ UNCHANGED lost
     \/ /\ lost' = [lost EXCEPT ![r] = @ + 1]
        /\ Fault(n + 1) /\ UNCHANGED <<buffer, file, first, last, torn>>

\* emit and sync; close is sync after the last line.
EmitAndSync(r, f, line) ==
  /\ UNCHANGED unreadable
  /\ \/ Flushed(r, f, <<Stamped(line)>>) /\ UNCHANGED <<lost, faults>>
     \/ /\ lost' = [lost EXCEPT ![r] = @ + 1]
        /\ Flushed(r, f, <<>>) /\ Fault(1)

Close(r, f) == Flushed(r, f, <<>>) /\ UNCHANGED <<unreadable, lost, faults>>

\* The process is killed: only the first lines of the buffer got out, the last
\* of them perhaps in half.
Die(r, f) ==
  \E k \in 0..Len(buffer[r]), half \in BOOLEAN :
    /\ half => k < Len(buffer[r])
    /\ LET out == SubSeq(buffer[r], 1, k) IN
       /\ Written(r, f, out)
       /\ torn' = [torn EXCEPT ![f] = half \/ (@ /\ out = <<>>)]
       /\ unreadable' = [unreadable EXCEPT
            ![f] = @ + IF half /\ ~(torn[f] /\ out = <<>>) THEN 1 ELSE 0]
    /\ buffer' = [buffer EXCEPT ![r] = <<>>]
    /\ Fault(1) /\ UNCHANGED lost
=============================================================================

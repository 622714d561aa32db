------------------------------ MODULE Timestamp ------------------------------
(***************************************************************************)
(* The time stamp work() of packet_deframer puts into a PDU.  Time is      *)
(* counted in microseconds, and a stamp in steps of 1/Divisor seconds, the *)
(* smallest that tv_usec / Divisor makes.                                  *)
(***************************************************************************)
EXTENDS Integers

CONSTANTS
  Divisor,  \* what the code divides tv_usec by: 100000
  MaxTime   \* bound: the last microsecond considered

VARIABLES
  now,  \* the clock, in microseconds
  ts    \* the last time stamp, -1 second if the clock could not be read

vars == <<now, ts>>

\* gettimeofday(): a second has 1000000 microseconds, ten times 100000.
UsecPerSec == 10 * Divisor
tv_sec == now \div UsecPerSec
tv_usec == now % UsecPerSec

\* tv_sec + tv_usec / Divisor seconds.
Stamp == tv_sec * Divisor + tv_usec
NoClock == -Divisor

Init == now = 0 /\ ts = NoClock

Tick == now < MaxTime /\ now' = now + 1 /\ UNCHANGED ts

\* A packet is published, gettimeofday() succeeding or failing.
Publish == ts' \in {Stamp, NoClock} /\ UNCHANGED now

Next == Tick \/ Publish

Spec == Init /\ [][Next]_vars

\* README: 'ts' is a "Unix timestamp (with subsecond resolution)": a stamp is
\* not behind an earlier one, unless the clock could not be read.
StampsGrow == [][ts' = NoClock \/ ts' >= ts]_vars
=============================================================================

----------------------------- MODULE StampClock -----------------------------
(***************************************************************************)
(* The timestamps of STAMP packets (libs/stamp/timestamp.go) and what the  *)
(* stamp processor makes of the delays computed from them (buildStamp,     *)
(* computeStats, percentile).                                              *)
(*                                                                         *)
(* A time is a number of nanoseconds since the NTP epoch.  The widths are  *)
(* constants: the code has Nano = 10^9 and Fraction = Seconds = 2^32,      *)
(* which TLC's integers cannot hold.                                       *)
(***************************************************************************)
EXTENDS Integers, FiniteSets, Subsequences

CONSTANTS Nano,      \* time.Time's units in a second
          Fraction,  \* values of Timestamp.Fraction
          Seconds    \* values of Timestamp.Seconds

ASSUME ClockAssumption ==
  /\ Nano \in Nat \ {0} /\ Fraction \in Nat \ {0} /\ Seconds \in Nat \ {0}
  /\ Nano <= Fraction

Timestamp == [seconds : 0..Seconds - 1, fraction : 0..Fraction - 1]

\* The seconds wrap round with the field, the fraction is rounded down.
generateNtpTimestamp(t) ==
  [seconds |-> (t \div Nano) % Seconds,
   fraction |-> ((t % Nano) * Fraction) \div Nano]

\* Rounded down once more; the era of the seconds is taken to be the first.
wireNTPTimestampToTime(w) ==
  w.seconds * Nano + (w.fraction * Nano) \div Fraction

-----------------------------------------------------------------------------
(* What the processor computes *)

\* A conversion to an integer drops the fraction, towards zero.
Truncated(a, b) == IF a >= 0 THEN a \div b ELSE -((-a) \div b)

\* order takes the values from the smallest to the largest.
Sorts(order, values) ==
  /\ order \in [DOMAIN values -> DOMAIN values]
  /\ \A i, j \in DOMAIN values :
       i < j => order[i] # order[j] /\ values[order[i]] <= values[order[j]]

\* sort.Slice.
Sorted(values) ==
  LET order == CHOOSE o \in [DOMAIN values -> DOMAIN values] : Sorts(o, values)
  IN  [i \in DOMAIN values |-> values[order[i]]]

\* percentile(sorted, 0.95), interpolated between the two nearest ranks.
P95(values) ==
  LET sorted == Sorted(values)
      n == Len(values)
      rank == 19 * (n - 1)
      lo == rank \div 20
      frac == rank % 20
  IN CASE n = 0 -> 0
       [] n = 1 -> sorted[1]
       [] n > 1 -> Truncated(sorted[lo + 1] * (20 - frac) + sorted[lo + 2] * frac, 20)

\* Mutant of buildStamp: a lost probe counts with the zeroes it was recorded with.
buildStampOfAll(probes) ==
  [sent |-> Len(probes),
   received |-> Cardinality({i \in DOMAIN probes : ~probes[i].isLost}),
   rttP95 |-> P95([i \in DOMAIN probes |-> probes[i].rtt]),
   fwdP95 |-> P95([i \in DOMAIN probes |-> probes[i].fwd]),
   bwdP95 |-> P95([i \in DOMAIN probes |-> probes[i].bwd])]

\* The metrics argus is sent: the statistics are those of the probes received.
buildStamp(probes) ==
  LET received == ElementsAt(probes, {i \in DOMAIN probes : ~probes[i].isLost})
  IN [sent |-> Len(probes),
      received |-> Len(received),
      rttP95 |-> P95([i \in DOMAIN received |-> received[i].rtt]),
      fwdP95 |-> P95([i \in DOMAIN received |-> received[i].fwd]),
      bwdP95 |-> P95([i \in DOMAIN received |-> received[i].bwd])]

=============================================================================

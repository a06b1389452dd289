---------------------------- MODULE LeakyBucket ----------------------------
(***************************************************************************)
(* The leaky bucket of services/argus/leaky_bucket.go.  Scores are         *)
(* integers, and a duration is a number of ticks, so DecayPerTick stands   *)
(* for cfg.DecayPerSecond times the seconds of a tick.  The code only ever *)
(* subtracts instants, so an update takes the elapsed time itself.         *)
(***************************************************************************)
EXTENDS Integers

CONSTANTS OpenThreshold,   \* cfg.OpenThreshold
          CloseThreshold,  \* cfg.CloseThreshold
          DecayPerTick     \* cfg.DecayPerSecond

ASSUME BucketAssumption ==
  /\ OpenThreshold \in Nat
  /\ CloseThreshold \in Nat
  /\ DecayPerTick \in Nat
  /\ CloseThreshold <= OpenThreshold

\* Mutant of Decayed: no lower clamp.
DecayedUnclamped(score, elapsed) == score - DecayPerTick * elapsed

\* math.Max(0, state.Score - rate * elapsed).  elapsed is negative when the
\* new timestamp lies before ScoreUpdatedAt, and then the score grows.
Decayed(score, elapsed) ==
  LET left == score - DecayPerTick * elapsed
  IN  IF left > 0 THEN left ELSE 0

Contribution(value) == IF value < 0 THEN -value ELSE value

\* A finding of the given severity arrives.
Add(score, elapsed, value) ==
  LET decayed == Decayed(score, elapsed)
      new == decayed + Contribution(value)
  IN  [score |-> new,
       crossedOpen |-> decayed < OpenThreshold /\ new >= OpenThreshold,
       crossedClose |-> decayed >= CloseThreshold /\ new < CloseThreshold]

\* Only time passes (Sweep).
Decay(score, elapsed) ==
  LET decayed == Decayed(score, elapsed)
  IN  [score |-> decayed,
       crossedOpen |-> FALSE,
       crossedClose |-> score >= CloseThreshold /\ decayed < CloseThreshold]

=============================================================================

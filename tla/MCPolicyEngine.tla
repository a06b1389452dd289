--------------------------- MODULE MCPolicyEngine ---------------------------
(***************************************************************************)
(* Instances of PolicyEngine for TLC.  A tick is a minute, so runner.go's  *)
(* configuration reads: decay 6 per tick, confirm window 1, quiet period   *)
(* 2; Sweep may run any number of times within a tick.                     *)
(***************************************************************************)
EXTENDS PolicyEngine, FiniteSetsExt, TLC

LagsNow == {0}
LagsLate == {0, 2}
LagsEarly == {0, -2}
LagsAny == {-2, 0, 2}

NoFaults == {}
DatabaseFaults == {"get", "tx", "attach", "close", "save"}

Symmetry == Permutations(Finding)

\* The caps lose nothing: a bucket idle for AgeCap is empty, for Sweep and for
\* a finding of any lag, and every window has passed.  A bucket never exceeds
\* the severities of its findings by more than leaks in MaxLag: applying a
\* finding late adds back what has leaked since its timestamp.
ASSUME CapsAreExact ==
  LET n == Cardinality(Finding)
  IN  /\ AgeCap > QuietPeriod
      /\ AgeCap > ConfirmWindow
      /\ \A lag \in Lags : lag <= MaxLag
      /\ DecayPerTick * (AgeCap - MaxLag) >= n * Max(Severities)
      /\ DecayPerTick * (AgeCap - 2 * MaxLag) >= (n - 1) * Max(Severities)
=============================================================================

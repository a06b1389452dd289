----------------------------- MODULE Detectors -----------------------------
(***************************************************************************)
(* The two detectors of services/argus: ewma.go, which watches a delay,    *)
(* and betab.go, which watches losses.  A state is the counters the code   *)
(* persists.  The mean, the variance and the z score of ewma.go are        *)
(* floating point and left open; the probability betab.go computes through *)
(* log-gamma functions is rational, because its prior is 1/2, and exact    *)
(* here.                                                                   *)
(***************************************************************************)
EXTENDS Integers, FiniteSetsExt, Combinatorics

CONSTANTS EwmaWarmup,   \* EwmaConfig.Warmup, in samples
          LossWarmup,   \* BetaBinomialConfig.Warmup, in packets
          Rarity        \* 1 / BetaBinomialConfig.Threshold

ASSUME DetectorAssumption ==
  /\ EwmaWarmup \in Nat
  /\ LossWarmup \in Nat
  /\ Rarity \in Nat \ {0}

\* A detector that has seen nothing: state is empty JSON.
NoState == [n |-> 0, lost |-> 0, received |-> 0]

\* Ewma.step: the first sample only sets the mean, and until Warmup samples
\* are in the state no z score counts.
EwmaStep(st) ==
  [state : {[st EXCEPT !.n = @ + 1]},
   found : IF st.n > 0 /\ st.n >= EwmaWarmup THEN BOOLEAN ELSE {FALSE}]

\* x (x + 1) ... (x + n - 1), for twice the half-integer x: what remains of the
\* gamma functions in the quotient of two betas.
Rising(twice, n) == ProductSet({twice + 2 * j : j \in 0..(n - 1)})

\* Mutant of betaBinomialUpperTail: P(X > k).
TailAbove(k, n, lost, received) ==
  [num |-> MapThenSumSet(LAMBDA i : choose(n, i) * Rising(2 * lost + 1, i)
                                      * Rising(2 * received + 1, n - i), (k + 1)..n),
   den |-> Rising(2 * (lost + received) + 2, n)]

\* P(X >= k) for X ~ BetaBinomial(n, 1/2 + lost, 1/2 + received).
betaBinomialUpperTail(k, n, lost, received) ==
  IF k <= 0 THEN [num |-> 1, den |-> 1]
  ELSE IF k > n THEN [num |-> 0, den |-> 1]
  ELSE [num |-> MapThenSumSet(LAMBDA i : choose(n, i) * Rising(2 * lost + 1, i)
                                           * Rising(2 * received + 1, n - i), k..n),
        den |-> Rising(2 * (lost + received) + 2, n)]

Lost(sample) == IF sample.sent > sample.received THEN sample.sent - sample.received ELSE 0

\* Mutant of BetaBinomialStep: the packets count towards their own warm-up.
BetaBinomialStepCounted(st, sample) ==
  LET tail == betaBinomialUpperTail(Lost(sample), sample.sent, st.lost, st.received)
  IN  [state : {[n |-> st.n + 1, lost |-> st.lost + Lost(sample),
                 received |-> st.received + sample.received]},
       found : {/\ st.lost + st.received + sample.sent >= LossWarmup
                /\ Lost(sample) > 0
                /\ tail.num * Rarity <= tail.den}]

\* BetaBinomial.step: the loss is judged by the state without this sample.
BetaBinomialStep(st, sample) ==
  LET tail == betaBinomialUpperTail(Lost(sample), sample.sent, st.lost, st.received)
  IN  [state : {[n |-> st.n + 1, lost |-> st.lost + Lost(sample),
                 received |-> st.received + sample.received]},
       found : {/\ sample.sent > 0
                /\ st.lost + st.received >= LossWarmup
                /\ Lost(sample) > 0
                /\ tail.num * Rarity <= tail.den}]

\* What a detector may make of a sample: the registry gives "loss" to
\* BetaBinomial, any other metric of the model to Ewma.
Step(metric, st, sample) ==
  IF metric = "loss" THEN BetaBinomialStep(st, sample) ELSE EwmaStep(st)

-----------------------------------------------------------------------------
(* The reference for the tail: an urn with twice the odds of a loss and of *)
(* an answer; a packet is drawn and two of its kind are added.  The ways to *)
(* draw at least k losses in n packets.                                    *)

LossWays(k, n, loss, answer) ==
  LET ways[i \in 0..n, l \in 0..n] ==   \* i packets to draw, l lost so far
        IF i = 0 THEN IF l >= k THEN 1 ELSE 0
        ELSE (loss + 2 * l) * ways[i - 1, l + 1]
               + (answer + 2 * (n - i - l)) * ways[i - 1, l]
  IN  ways[n, 0]
=============================================================================

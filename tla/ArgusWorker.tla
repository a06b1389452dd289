---------------------------- MODULE ArgusWorker ----------------------------
(***************************************************************************)
(* The ingestion side of argus: router.go fetches measurement events from  *)
(* the durable JetStream consumer and hands each to the inbox of its       *)
(* series; worker.go runs one goroutine per series, which folds the        *)
(* samples into the baselines of the series' monitors, reports findings to *)
(* the policy engine, saves the baselines and acknowledges the messages.   *)
(*                                                                         *)
(* A baseline holds the detector's counters (module Detectors) and, as a   *)
(* ghost, how often each message was folded into them.  Timestamps count   *)
(* units of which UnitsPerTick make one microsecond, the resolution of a   *)
(* timestamptz column.                                                     *)
(***************************************************************************)
EXTENDS Detectors, Subsequences, FiniteSets

CONSTANTS Msg,           \* measurement events
          Bad,           \* those that do not decode
          SeriesOf,      \* [Msg -> Series], routing by seriesFromEvent
          TimeOf,        \* [Msg -> Nat], event.Timestamp
          SampleOf,      \* [Msg -> [sent, received]], event.Metrics
          Series,
          Monitors,      \* the registry's monitors of a series, in order
          UnitsPerTick,
          FetchMax,      \* consumer.Fetch(10, ...)
          InboxCap,      \* make(chan inboxItem, 64)
          Faults         \* subset of FaultNames

FaultNames == {"get", "save", "ack", "insert", "apply", "crash"}

ASSUME WorkerAssumption ==
  /\ Bad \subseteq Msg
  /\ SeriesOf \in [Msg -> Series]
  /\ TimeOf \in [Msg -> Nat \ {0}]
  /\ SampleOf \in [Msg -> [sent : Nat, received : Nat]]
  /\ Monitors \in Seq(STRING)
  /\ UnitsPerTick \in Nat \ {0}
  /\ FetchMax \in Nat \ {0}
  /\ InboxCap \in Nat \ {0}
  /\ Faults \subseteq FaultNames

VARIABLES stream,    \* per message, as the consumer sees it
          fetched,   \* messages of the current Fetch not dispatched yet
          inbox,     \* per series, the channel
          worker,    \* per series, the goroutine
          baseline,  \* argus_baselines, by series and monitor
          findings,  \* argus_findings: keys <<monitor, series, ts>>
          applied    \* how often ApplyFinding ran for a monitor and message

vars == <<stream, fetched, inbox, worker, baseline, findings, applied>>

Monitor == Range(Monitors)

\* A baseline: where to resume, the detector's state and what went into it.
Empty == [cursor |-> 0, state |-> NoState, seen |-> [x \in Msg |-> 0]]

\* phase: "none" until the router starts the goroutine, then "plan", "idle",
\* "fold" (monitor number mon, sample number pos) and "ack".
NoWorker == [phase |-> "none", batch |-> <<>>, plan |-> <<>>, mon |-> 1, pos |-> 1,
             start |-> 0, state |-> [m \in Monitor |-> Empty]]

Init ==
  /\ stream = [x \in Msg |-> "unpublished"]
  /\ fetched = <<>>
  /\ inbox = [s \in Series |-> <<>>]
  /\ worker = [s \in Series |-> NoWorker]
  /\ baseline = [s \in Series |-> [m \in Monitor |-> Empty]]
  /\ findings = {}
  /\ applied = [m \in Monitor |-> [x \in Msg |-> 0]]

-----------------------------------------------------------------------------
(* JetStream: explicit acknowledgement, redelivery after AckWait *)

Publish(x) ==
  /\ stream[x] = "unpublished"
  /\ stream' = [stream EXCEPT ![x] = "pending"]
  /\ UNCHANGED <<fetched, inbox, worker, baseline, findings, applied>>

\* AckWait passes without an acknowledgement; the copy the process holds stays
\* where it is.
Redeliver(x) ==
  /\ stream[x] = "delivered"
  /\ stream' = [stream EXCEPT ![x] = "pending"]
  /\ UNCHANGED <<fetched, inbox, worker, baseline, findings, applied>>

-----------------------------------------------------------------------------
(* Router *)

Fetch ==
  /\ fetched = <<>>
  /\ \E some \in SUBSET {x \in Msg : stream[x] = "pending"} :
       /\ Cardinality(some) \in 1..FetchMax
       /\ fetched' \in Bijection(1..Cardinality(some), some)
       /\ stream' = [x \in Msg |-> IF x \in some THEN "delivered" ELSE stream[x]]
  /\ UNCHANGED <<inbox, worker, baseline, findings, applied>>

\* Mutant of Dispatch: the inbox is not bounded.
DispatchUnbounded ==
  /\ fetched # <<>>
  /\ Head(fetched) \notin Bad
  /\ inbox' = [inbox EXCEPT ![SeriesOf[Head(fetched)]] = Append(@, Head(fetched))]
  /\ worker' = [worker EXCEPT ![SeriesOf[Head(fetched)]].phase = IF @ = "none" THEN "plan" ELSE @]
  /\ fetched' = Tail(fetched)
  /\ UNCHANGED <<stream, baseline, findings, applied>>

\* Mutant of Dispatch: a message that does not decode is dropped, not terminated.
DispatchNoTerm ==
  /\ fetched # <<>>
  /\ IF Head(fetched) \in Bad
     THEN UNCHANGED <<inbox, worker>>
     ELSE /\ Len(inbox[SeriesOf[Head(fetched)]]) < InboxCap
          /\ inbox' = [inbox EXCEPT ![SeriesOf[Head(fetched)]] = Append(@, Head(fetched))]
          /\ worker' = [worker EXCEPT
                          ![SeriesOf[Head(fetched)]].phase = IF @ = "none" THEN "plan" ELSE @]
  /\ fetched' = Tail(fetched)
  /\ UNCHANGED <<stream, baseline, findings, applied>>

\* A message that does not decode is terminated; any other goes to its inbox,
\* and the router waits while that is full.
Dispatch ==
  /\ fetched # <<>>
  /\ LET x == Head(fetched)
         s == SeriesOf[x]
     IN  IF x \in Bad
         THEN /\ stream' = [stream EXCEPT ![x] = "done"]
              /\ UNCHANGED <<inbox, worker>>
         ELSE /\ Len(inbox[s]) < InboxCap
              /\ inbox' = [inbox EXCEPT ![s] = Append(@, x)]
              /\ worker' = IF worker[s].phase = "none"
                           THEN [worker EXCEPT ![s].phase = "plan"] ELSE worker
              /\ UNCHANGED stream
  /\ fetched' = Tail(fetched)
  /\ UNCHANGED <<baseline, findings, applied>>

-----------------------------------------------------------------------------
(* Worker *)

\* plan: one monitor per baseline that could be read, for the whole lifetime
\* of the goroutine.
Plan(s) ==
  /\ worker[s].phase = "plan"
  /\ \E unread \in SUBSET Monitor :
       /\ unread # {} => "get" \in Faults
       /\ worker' = [worker EXCEPT ![s].phase = "idle",
                                   ![s].plan = Without(Monitors, unread),
                                   ![s].state = baseline[s]]
  /\ UNCHANGED <<stream, fetched, inbox, baseline, findings, applied>>

\* The first sample plus everything queued behind it (drainInbox).
TakeBatch(s) ==
  /\ worker[s].phase = "idle"
  /\ inbox[s] # <<>>
  /\ worker' = [worker EXCEPT
                  ![s].phase = IF worker[s].plan = <<>> THEN "ack" ELSE "fold",
                  ![s].batch = inbox[s], ![s].mon = 1, ![s].pos = 1,
                  ![s].start = IF worker[s].plan = <<>> THEN 0
                               ELSE worker[s].state[worker[s].plan[1]].cursor]
  /\ inbox' = [inbox EXCEPT ![s] = <<>>]
  /\ UNCHANGED <<stream, fetched, baseline, findings, applied>>

\* A timestamptz column drops what is below a microsecond.
Stored(t) == t - (t % UnitsPerTick)

\* Mutant of Report: a plain INSERT into a table without the unique key.
ReportAgain(m, s, x) ==
  /\ findings' = findings \cup {<<m, s, Stored(TimeOf[x])>>}
  /\ applied' = [applied EXCEPT ![m][x] = @ + 1]

\* report: InsertFinding, whose unique key swallows a finding already in the
\* table, then ApplyFinding.  Either may fail.
Report(m, s, x) ==
  LET row == <<m, s, Stored(TimeOf[x])>> IN
  \/ row \in findings /\ UNCHANGED <<findings, applied>>
  \/ "insert" \in Faults /\ UNCHANGED <<findings, applied>>
  \/ /\ row \notin findings
     /\ findings' = findings \cup {row}
     /\ \/ applied' = [applied EXCEPT ![m][x] = @ + 1]
        \/ "apply" \in Faults /\ UNCHANGED applied

\* Mutant of FoldSample: only what is older than the cursor is skipped.
FoldSampleSame(s) ==
  LET w == worker[s]
      m == w.plan[w.mon]
      x == w.batch[w.pos]
  IN  /\ w.phase = "fold"
      /\ w.pos <= Len(w.batch)
      /\ TimeOf[x] >= w.state[m].cursor
      /\ worker' = [worker EXCEPT ![s].pos = @ + 1,
                                  ![s].state[m].cursor = TimeOf[x],
                                  ![s].state[m].seen[x] = @ + 1]
      /\ UNCHANGED <<findings, applied, stream, fetched, inbox, baseline>>

\* One turn of fold's loop: a sample that is not newer than the cursor is
\* skipped, any other goes through the detector.
FoldSample(s) ==
  LET w == worker[s]
      m == w.plan[w.mon]
      x == w.batch[w.pos]
  IN  /\ w.phase = "fold"
      /\ w.pos <= Len(w.batch)
      /\ IF TimeOf[x] <= w.state[m].cursor
         THEN /\ worker' = [worker EXCEPT ![s].pos = @ + 1]
              /\ UNCHANGED <<findings, applied>>
         ELSE \E next \in Step(m, w.state[m].state, SampleOf[x]) :
                /\ worker' = [worker EXCEPT ![s].pos = @ + 1,
                                            ![s].state[m] = [cursor |-> TimeOf[x], state |-> next.state,
                                                             seen |-> [w.state[m].seen EXCEPT ![x] = @ + 1]]]
                /\ IF next.found THEN Report(m, s, x) ELSE UNCHANGED <<findings, applied>>
      /\ UNCHANGED <<stream, fetched, inbox, baseline>>

\* Mutant of SaveBaseline: start is taken once per batch, not once per monitor.
SaveBaselineOneStart(s) ==
  LET w == worker[s]
      m == w.plan[w.mon]
  IN  /\ w.phase = "fold"
      /\ w.pos > Len(w.batch)
      /\ baseline' = IF w.state[m].cursor > w.start
                     THEN [baseline EXCEPT ![s][m] = [w.state[m] EXCEPT !.cursor = Stored(@)]]
                     ELSE baseline
      /\ worker' = IF w.mon < Len(w.plan)
                   THEN [worker EXCEPT ![s].mon = @ + 1, ![s].pos = 1]
                   ELSE [worker EXCEPT ![s].phase = "ack"]
      /\ UNCHANGED <<stream, fetched, inbox, findings, applied>>

\* saveBaseline and the end of fold; a failed save is only logged.
SaveBaseline(s) ==
  LET w == worker[s]
      m == w.plan[w.mon]
  IN  /\ w.phase = "fold"
      /\ w.pos > Len(w.batch)
      /\ \/ /\ w.state[m].cursor > w.start
            /\ baseline' = [baseline EXCEPT ![s][m] =
                              [w.state[m] EXCEPT !.cursor = Stored(@)]]
         \/ /\ w.state[m].cursor > w.start => "save" \in Faults
            /\ UNCHANGED baseline
      /\ worker' = IF w.mon < Len(w.plan)
                   THEN [worker EXCEPT ![s].mon = @ + 1, ![s].pos = 1,
                                       ![s].start = w.state[w.plan[w.mon + 1]].cursor]
                   ELSE [worker EXCEPT ![s].phase = "ack"]
      /\ UNCHANGED <<stream, fetched, inbox, findings, applied>>

\* One Ack; an error is only logged.  After the last the goroutine waits again.
Ack(s, x, acked) ==
  /\ worker[s].phase = "ack"
  /\ x = Head(worker[s].batch)
  /\ acked \/ "ack" \in Faults
  /\ stream' = IF acked THEN [stream EXCEPT ![x] = "done"] ELSE stream
  /\ worker' = [worker EXCEPT ![s].batch = Tail(@),
                              ![s].phase = IF Len(worker[s].batch) = 1 THEN "idle" ELSE "ack"]
  /\ UNCHANGED <<fetched, inbox, baseline, findings, applied>>

\* The process dies and starts again; the consumer is durable, so what was not
\* acknowledged comes back after AckWait.
Restart ==
  /\ "crash" \in Faults
  /\ fetched' = <<>>
  /\ inbox' = [s \in Series |-> <<>>]
  /\ worker' = [s \in Series |-> NoWorker]
  /\ UNCHANGED <<stream, baseline, findings, applied>>

Next ==
  \/ \E x \in Msg : Publish(x) \/ Redeliver(x)
  \/ Fetch
  \/ Dispatch
  \/ \E s \in Series : Plan(s) \/ TakeBatch(s) \/ FoldSample(s) \/ SaveBaseline(s)
  \/ \E s \in Series, x \in Msg, acked \in BOOLEAN : Ack(s, x, acked)
  \/ Restart

Spec == Init /\ [][Next]_vars

\* The goroutines are scheduled, AckWait passes, and an acknowledgement that is
\* sent again and again arrives in the end.
Fairness ==
  /\ \A x \in Msg : WF_vars(Redeliver(x))
  /\ WF_vars(Fetch)
  /\ WF_vars(Dispatch)
  /\ \A s \in Series : WF_vars(Plan(s) \/ TakeBatch(s) \/ FoldSample(s) \/ SaveBaseline(s)
                               \/ \E x \in Msg, acked \in BOOLEAN : Ack(s, x, acked))
  /\ \A s \in Series, x \in Msg : SF_vars(Ack(s, x, TRUE))

FairSpec == Spec /\ Fairness

-----------------------------------------------------------------------------
(* Properties *)

TypeOK ==
  /\ stream \in [Msg -> {"unpublished", "pending", "delivered", "done"}]
  /\ fetched \in Seq(Msg)
  /\ inbox \in [Series -> Seq(Msg)]
  /\ \A s \in Series :
       /\ worker[s].phase \in {"none", "plan", "idle", "fold", "ack"}
       /\ worker[s].batch \in Seq(Msg)
       /\ Len(inbox[s]) <= InboxCap
  /\ findings \subseteq Monitor \X Series \X Nat
  /\ applied \in [Monitor -> [Msg -> Nat]]

\* The processors and the agents publish again when an answer is lost, so one
\* measurement may be in the stream several times.
Copies(x, y) == SeriesOf[x] = SeriesOf[y] /\ TimeOf[x] = TimeOf[y]

\* Each measurement is counted at most once, in all its copies together.
AtMostOnce(count) ==
  \A x, y \in Msg :
    count[x] > 0 /\ count[y] > 0 /\ Copies(x, y) => x = y /\ count[x] = 1

\* fold skips what is "already folded into this monitor's baseline": no second
\* publication, redelivery, lost acknowledgement or restart makes a measurement
\* count twice in a detector's state, because the cursor and the state are
\* saved in one row and read back together.
FoldedOnce ==
  \A s \in Series, m \in Monitor :
    AtMostOnce(worker[s].state[m].seen) /\ AtMostOnce(baseline[s][m].seen)

\* A measurement's finding reaches ApplyFinding at most once, although a restart
\* may fold its sample again and from another copy: the unique key of
\* argus_findings stops the second report.
AppliedOnce ==
  \A m \in Monitor : AtMostOnce(applied[m])

\* The measurements among some messages, copies taken together, and the packets
\* they tell of.
Measurements(some) == {TimeOf[y] : y \in some}

Packets(some) ==
  UNION {{TimeOf[y]} \X (1..(SampleOf[y].received + Lost(SampleOf[y]))) : y \in some}

\* A detector speaks only after its warm-up, and the warm-up is made of other,
\* earlier measurements of the series: no second publication, redelivery or
\* restart lets the same sample fill it twice, and none is judged by a state
\* that already contains it.
WarmedUp ==
  \A row \in findings :
    LET earlier == {y \in Msg \ Bad : /\ stream[y] # "unpublished"
                                      /\ SeriesOf[y] = row[2]
                                      /\ Stored(TimeOf[y]) < row[3]}
    IN  IF row[1] = "loss"
        THEN Cardinality(Packets(earlier)) >= LossWarmup
        ELSE /\ Cardinality(Measurements(earlier)) >= 1
             /\ Cardinality(Measurements(earlier)) >= EwmaWarmup

\* The probability BetaBinomial goes by is that of losing as many packets again
\* under the losses seen so far: drawing from the urn gives the same fraction,
\* from no loss at all to more losses than packets.
TailIsUrn ==
  \A s \in Series, n \in {SampleOf[x].sent : x \in Msg} :
    LET st == baseline[s]["loss"].state
    IN  \A k \in 0..n + 1 :
          LET tail == betaBinomialUpperTail(k, n, st.lost, st.received)
          IN  tail.num * Rising(2 * (st.lost + st.received) + 2, n)
                = tail.den * LossWays(k, n, 2 * st.lost + 1, 2 * st.received + 1)

\* A message is acknowledged only when every monitor's saved baseline has
\* reached its timestamp: what a restart resumes from has no gap.
AckedIsSaved ==
  \A x \in Msg \ Bad :
    stream[x] = "done" =>
      \A m \in Monitor : baseline[SeriesOf[x]][m].cursor >= Stored(TimeOf[x])

\* Every measurement is answered in the end: no inbox that is full, no router
\* that waits for it and no worker that waits for the router holds one back.
AllAnswered ==
  \A x \in Msg : stream[x] = "pending" ~> stream[x] = "done"

=============================================================================

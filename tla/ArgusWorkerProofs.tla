-------------------------- MODULE ArgusWorkerProofs --------------------------
(***************************************************************************)
(* Proofs about ArgusWorker, for any events, series and monitors, any      *)
(* sizes of the fetch and the inbox, and any faults unless a theorem says  *)
(* otherwise.                                                              *)
(*                                                                         *)
(* A sample counts once because the cursor of a baseline is never behind a *)
(* sample that went into it, in the goroutine's copy and in the row alike. *)
(* A finding is applied once because its row is there before ApplyFinding  *)
(* runs, and copies of a measurement have one row.  An acknowledged sample *)
(* is saved because the fold goes through the whole batch for one monitor  *)
(* after the other, and the row is never behind what the fold had read     *)
(* when it began.                                                          *)
(*                                                                         *)
(* A finding is warmed up because the counters of a state are the numbers  *)
(* of measurements and packets folded into it, and those are older than    *)
(* the sample it judges.                                                   *)
(***************************************************************************)
EXTENDS ArgusWorker, SubsequencesProofs, FiniteSetTheorems

StateRec == [n : Nat, lost : Nat, received : Nat]
BaselineRec == [cursor : Nat, state : StateRec, seen : [Msg -> Nat]]
WorkerRec ==
  [phase : {"none", "plan", "idle", "fold", "ack"}, batch : Seq(Msg), plan : Seq(Monitor),
   mon : Nat, pos : Nat, start : Nat, state : [Monitor -> BaselineRec]]

\* Where the goroutine of series s is in its loops.
Position(s) ==
  /\ worker[s].phase = "fold" => /\ worker[s].mon \in 1..Len(worker[s].plan)
                                 /\ worker[s].pos \in 1..Len(worker[s].batch) + 1
  /\ worker[s].phase \in {"fold", "ack"} => Len(worker[s].batch) > 0

Types ==
  /\ TypeOK
  /\ worker \in [Series -> WorkerRec]
  /\ baseline \in [Series -> [Monitor -> BaselineRec]]
  /\ \A s \in Series : Position(s)

\* A message waits in the inbox of its own series.
RoutedOf(s) ==
  /\ \A k \in DOMAIN inbox[s] : SeriesOf[inbox[s][k]] = s
  /\ \A k \in DOMAIN worker[s].batch : SeriesOf[worker[s].batch[k]] = s

\* The row of a measurement's finding.
Row(m, x) == <<m, SeriesOf[x], Stored(TimeOf[x])>>

\* What was applied has its row.
Reported == \A m \in Monitor, x \in Msg : applied[m][x] > 0 => Row(m, x) \in findings

\* Timestamps are whole microseconds, as the column keeps them.
WholeTicks == \A x \in Msg : Stored(TimeOf[x]) = TimeOf[x]

\* The cursor of a baseline is the last thing that went into it.
Folded(b) ==
  /\ Stored(b.cursor) = b.cursor
  /\ \A x \in Msg : b.seen[x] > 0 => TimeOf[x] <= b.cursor
  /\ AtMostOnce(b.seen)

FoldedOf(s) == \A m \in Monitor : Folded(worker[s].state[m]) /\ Folded(baseline[s][m])

\* Baselines are read and saved.
Reliable == {"get", "save"} \cap Faults = {}

\* The goroutine of series s is at monitor m.
Current(s, m) == worker[s].phase = "fold" /\ m = worker[s].plan[worker[s].mon]

\* The row of monitor m has what the goroutine had when it last saved or read.
Kept(s, m) ==
  /\ Current(s, m) => /\ baseline[s][m].cursor = Stored(worker[s].start)
                      /\ worker[s].start <= worker[s].state[m].cursor
  /\ ~Current(s, m) => baseline[s][m].cursor = Stored(worker[s].state[m].cursor)

\* The cursor of monitor m has passed the first n samples of the batch.
Passed(s, m, n) == \A k \in 1..n : TimeOf[worker[s].batch[k]] <= worker[s].state[m].cursor

\* What the goroutine of series s has folded of its batch.
CaughtUp(s) ==
  /\ worker[s].phase = "fold" =>
       /\ \A i \in 1..worker[s].mon - 1 : Passed(s, worker[s].plan[i], Len(worker[s].batch))
       /\ Passed(s, worker[s].plan[worker[s].mon], worker[s].pos - 1)
  /\ worker[s].phase = "ack" => \A m \in Monitor : Passed(s, m, Len(worker[s].batch))

SavedOf(s) ==
  /\ \A m \in Monitor : Stored(baseline[s][m].cursor) = baseline[s][m].cursor
  /\ worker[s].phase \in {"idle", "fold", "ack"} =>
       worker[s].plan = Monitors /\ \A m \in Monitor : Kept(s, m)
  /\ CaughtUp(s)

\* The inductive invariant.
IInv ==
  /\ Types /\ Reported /\ AppliedOnce
  /\ \A s \in Series : RoutedOf(s)
  /\ WholeTicks => \A s \in Series : FoldedOf(s)
  /\ Reliable => AckedIsSaved /\ \A s \in Series : SavedOf(s)

-----------------------------------------------------------------------------
(* Timestamps, monitors and detectors *)

LEMMA StoredFacts ==
  /\ \A t \in Nat : Stored(t) \in Nat /\ Stored(Stored(t)) = Stored(t)
  /\ \A t, u \in Nat : t <= u => Stored(t) <= Stored(u)
  /\ Stored(0) = 0
<1>0. UnitsPerTick \in Nat \ {0}
  BY WorkerAssumption
<1>1. ASSUME NEW t \in Nat PROVE Stored(t) \in Nat /\ Stored(Stored(t)) = Stored(t)
  <2>1. t % UnitsPerTick \in Nat /\ t % UnitsPerTick <= t
    BY <1>0
  <2>2. Stored(t) \in Nat
    BY <2>1 DEF Stored
  <2>3. Stored(Stored(t)) = Stored(t)
    BY <1>0 DEF Stored
  <2> QED BY <2>2, <2>3
<1>2. ASSUME NEW t \in Nat, NEW u \in Nat, t <= u PROVE Stored(t) <= Stored(u)
  BY <1>0, <1>2 DEF Stored
<1>3. Stored(0) = 0
  BY <1>0 DEF Stored
<1> QED BY <1>1, <1>2, <1>3

LEMMA MonitorFacts ==
  /\ Monitors \in Seq(Monitor)
  /\ \A m \in Monitor : \E i \in DOMAIN Monitors : m = Monitors[i]
BY WorkerAssumption DEF Monitor, Range

\* What a detector makes of its state is a state.
LEMMA StepType ==
  ASSUME NEW m \in Monitor, NEW st \in StateRec, NEW x \in Msg, NEW next \in Step(m, st, SampleOf[x])
  PROVE  next.state \in StateRec
<1>1. SampleOf[x] \in [sent : Nat, received : Nat]
  BY WorkerAssumption
<1>2. CASE m = "loss"
  <2>1. next.state = [n |-> st.n + 1, lost |-> st.lost + Lost(SampleOf[x]),
                      received |-> st.received + SampleOf[x].received]
    BY <1>2 DEF Step, BetaBinomialStep
  <2>2. Lost(SampleOf[x]) \in Nat
    BY <1>1 DEF Lost
  <2> QED BY <1>1, <2>1, <2>2 DEF StateRec
<1>3. CASE m # "loss"
  <2>1. next.state = [st EXCEPT !.n = @ + 1]
    BY <1>3 DEF Step, EwmaStep
  <2> QED BY <2>1 DEF StateRec
<1> QED BY <1>2, <1>3

\* A newer sample counts once.
LEMMA FoldedNewer ==
  ASSUME WholeTicks, NEW b \in BaselineRec, NEW c \in BaselineRec, NEW x \in Msg, Folded(b),
         TimeOf[x] > b.cursor, c.cursor = TimeOf[x], c.seen = [b.seen EXCEPT ![x] = @ + 1]
  PROVE  Folded(c)
<1> USE DEF BaselineRec
<1>1. TimeOf \in [Msg -> Nat]
  BY WorkerAssumption
<1>2. b.seen[x] = 0
  BY <1>1 DEF Folded
<1>3. c.seen[x] = 1 /\ \A y \in Msg : y # x => c.seen[y] = b.seen[y]
  BY <1>2
<1>4. Stored(c.cursor) = c.cursor
  BY DEF WholeTicks
<1>5. \A y \in Msg : c.seen[y] > 0 => TimeOf[y] <= c.cursor
  BY <1>1, <1>3 DEF Folded
<1>6. ASSUME NEW y \in Msg, NEW z \in Msg, c.seen[y] > 0, c.seen[z] > 0, Copies(y, z)
      PROVE  y = z /\ c.seen[y] = 1
  <2>1. y = x <=> z = x
    BY <1>1, <1>3, <1>6 DEF Folded, Copies
  <2>2. CASE y = x
    BY <1>3, <2>1, <2>2
  <2>3. CASE y # x
    BY <1>3, <1>6, <2>1, <2>3 DEF Folded, AtMostOnce
  <2> QED BY <2>2, <2>3
<1> QED BY <1>4, <1>5, <1>6 DEF Folded, AtMostOnce

-----------------------------------------------------------------------------
(* Steps of one series *)

LEMMA OneSeriesSteps ==
  ASSUME IInv, NEW s \in Series,
         TypeOK', worker' \in [Series -> WorkerRec], baseline' \in [Series -> [Monitor -> BaselineRec]],
         \A r \in Series : r # s => worker'[r] = worker[r] /\ baseline'[r] = baseline[r] /\ inbox'[r] = inbox[r],
         Position(s)', RoutedOf(s)', Reported', AppliedOnce',
         WholeTicks => FoldedOf(s)',
         Reliable => AckedIsSaved' /\ SavedOf(s)'
  PROVE  IInv'
<1>1. ASSUME NEW r \in Series PROVE Position(r)'
  BY DEF IInv, Types, Position
<1>2. ASSUME NEW r \in Series PROVE RoutedOf(r)'
  BY DEF IInv, RoutedOf
<1>3. ASSUME WholeTicks, NEW r \in Series PROVE FoldedOf(r)'
  BY <1>3 DEF IInv, FoldedOf
<1>4. ASSUME Reliable, NEW r \in Series PROVE SavedOf(r)'
  <2>1. CASE r # s
    <3>1. SavedOf(r)
      BY <1>4 DEF IInv
    <3>2. worker'[r] = worker[r] /\ baseline'[r] = baseline[r]
      BY <2>1
    <3> QED BY <3>1, <3>2 DEF SavedOf, Kept, Current, CaughtUp, Passed
  <2> QED BY <1>4, <2>1, ZenonT(60)
<1> QED BY <1>1, <1>2, <1>3, <1>4 DEF IInv, Types

\* The stream alone takes a step.
LEMMA StreamSteps ==
  ASSUME IInv, stream' \in [Msg -> {"unpublished", "pending", "delivered", "done"}], fetched' \in Seq(Msg),
         \A x \in Msg \ Bad : stream'[x] = "done" => stream[x] = "done",
         UNCHANGED <<inbox, worker, baseline, findings, applied>>
  PROVE  IInv'
<1>1. TypeOK'
  BY DEF IInv, Types, TypeOK
<1>2. Types' /\ Reported' /\ AppliedOnce'
  BY <1>1, ZenonT(60) DEF IInv, Types, Position, Reported, AppliedOnce, AtMostOnce
<1>3. \A s \in Series : RoutedOf(s)' /\ (FoldedOf(s) => FoldedOf(s)') /\ (SavedOf(s) => SavedOf(s)')
  BY ZenonT(60) DEF IInv, RoutedOf, FoldedOf, SavedOf, Kept, Current, CaughtUp, Passed
<1>4. AckedIsSaved => AckedIsSaved'
  BY DEF AckedIsSaved
<1> QED BY <1>2, <1>3, <1>4 DEF IInv

LEMMA FetchPreserves == ASSUME IInv, Fetch PROVE IInv'
<1>1. PICK some \in SUBSET Msg :
        /\ Cardinality(some) \in 1..FetchMax
        /\ fetched' \in Bijection(1..Cardinality(some), some)
        /\ stream' = [x \in Msg |-> IF x \in some THEN "delivered" ELSE stream[x]]
        /\ UNCHANGED <<inbox, worker, baseline, findings, applied>>
  BY DEF Fetch
<1>2. fetched' \in Seq(Msg)
  <2>1. PICK n \in Nat : n = Cardinality(some)
    BY <1>1
  <2>2. fetched' \in [1..n -> some]
    BY <1>1, <2>1 DEF Bijection, Injection
  <2> QED BY <2>2
<1>3. /\ stream' \in [Msg -> {"unpublished", "pending", "delivered", "done"}]
      /\ \A x \in Msg \ Bad : stream'[x] = "done" => stream[x] = "done"
  BY <1>1 DEF IInv, Types, TypeOK
<1> QED BY <1>1, <1>2, <1>3, StreamSteps

LEMMA DispatchPreserves == ASSUME IInv, Dispatch PROVE IInv'
<1>1. PICK x, s : x = Head(fetched) /\ s = SeriesOf[x]
  OBVIOUS
<1>2. x \in Msg /\ s \in Series /\ fetched' = Tail(fetched) /\ fetched' \in Seq(Msg)
  BY <1>1, WorkerAssumption DEF Dispatch, IInv, Types, TypeOK
<1>3. CASE x \in Bad
  <2>1. /\ stream' = [stream EXCEPT ![x] = "done"]
        /\ UNCHANGED <<inbox, worker, baseline, findings, applied>>
    BY <1>1, <1>3 DEF Dispatch
  <2>2. /\ stream' \in [Msg -> {"unpublished", "pending", "delivered", "done"}]
        /\ \A y \in Msg \ Bad : stream'[y] = "done" => stream[y] = "done"
    BY <1>3, <2>1, Zenon DEF IInv, Types, TypeOK
  <2> QED BY <1>2, <2>1, <2>2, StreamSteps
<1>4. CASE x \notin Bad
  <2>1. /\ Len(inbox[s]) < InboxCap
        /\ inbox' = [inbox EXCEPT ![s] = Append(@, x)]
        /\ worker' = IF worker[s].phase = "none" THEN [worker EXCEPT ![s].phase = "plan"] ELSE worker
        /\ UNCHANGED <<stream, baseline, findings, applied>>
    BY <1>1, <1>4 DEF Dispatch
  <2>2. PICK longer : longer = Append(inbox[s], x)
    BY Zenon
  <2>3. inbox[s] \in Seq(Msg) /\ \A k \in DOMAIN inbox[s] : SeriesOf[inbox[s][k]] = s
    BY <1>2 DEF IInv, Types, TypeOK, RoutedOf
  <2>4. /\ longer \in Seq(Msg) /\ Len(longer) <= InboxCap
        /\ \A k \in DOMAIN longer : SeriesOf[longer[k]] = s
    <3>1. InboxCap \in Nat
      BY WorkerAssumption
    <3>2. longer \in Seq(Msg) /\ Len(longer) = Len(inbox[s]) + 1
      BY <1>2, <2>2, <2>3
    <3>3. ASSUME NEW k \in DOMAIN longer PROVE SeriesOf[longer[k]] = s
      BY <1>1, <1>2, <2>2, <2>3
    <3> QED BY <2>1, <2>3, <3>1, <3>2, <3>3
  <2>5. inbox' = [inbox EXCEPT ![s] = longer]
    BY <2>1, <2>2
  <2>6. inbox' \in [Series -> Seq(Msg)] /\ inbox'[s] = longer /\ \A r \in Series : r # s => inbox'[r] = inbox[r]
    BY <1>2, <2>4, <2>5 DEF IInv, Types, TypeOK
  <2>7. /\ worker' \in [Series -> WorkerRec] /\ \A r \in Series : r # s => worker'[r] = worker[r]
        /\ worker'[s] = [worker[s] EXCEPT !.phase = IF @ = "none" THEN "plan" ELSE @]
    BY <1>2, <2>1, Zenon DEF IInv, Types, WorkerRec
  <2>8. /\ worker'[s].phase = worker[s].phase \/ (worker[s].phase = "none" /\ worker'[s].phase = "plan")
        /\ worker'[s].batch = worker[s].batch /\ worker'[s].plan = worker[s].plan /\ worker'[s].mon = worker[s].mon
        /\ worker'[s].pos = worker[s].pos /\ worker'[s].start = worker[s].start /\ worker'[s].state = worker[s].state
    BY <1>2, <2>7 DEF IInv, Types, WorkerRec
  <2>9. TypeOK'
    BY <1>2, <2>1, <2>4, <2>6, <2>7, Zenon DEF IInv, Types, TypeOK, WorkerRec
  <2>10. Position(s)'
    BY <1>2, <2>8 DEF IInv, Types, Position
  <2>11. RoutedOf(s)'
    BY <1>2, <2>4, <2>6, <2>8 DEF IInv, RoutedOf
  <2>12. Reported' /\ AppliedOnce' /\ (AckedIsSaved => AckedIsSaved')
    BY <2>1 DEF IInv, Reported, AppliedOnce, AckedIsSaved
  <2>13. FoldedOf(s) => FoldedOf(s)'
    BY <2>1, <2>8, SMTT(30) DEF FoldedOf
  <2>14. SavedOf(s) => SavedOf(s)'
    BY <2>1, <2>8 DEF SavedOf, Kept, Current, CaughtUp, Passed
  <2> QED BY <1>2, <2>1, <2>6, <2>7, <2>9, <2>10, <2>11, <2>12, <2>13, <2>14, OneSeriesSteps, Zenon DEF IInv, Types
<1> QED BY <1>3, <1>4

\* The goroutine of s takes a step and nothing else changes but the inbox of s.
LEMMA WorkerSteps ==
  ASSUME IInv, NEW s \in Series, NEW w \in WorkerRec, worker' = [worker EXCEPT ![s] = w],
         inbox' \in [Series -> Seq(Msg)], Len(inbox'[s]) <= InboxCap,
         \A r \in Series : r # s => inbox'[r] = inbox[r],
         UNCHANGED <<stream, fetched, baseline, findings, applied>>,
         Position(s)', RoutedOf(s)', WholeTicks => FoldedOf(s)', Reliable => SavedOf(s)'
  PROVE  IInv'
<1>1. worker' \in [Series -> WorkerRec] /\ worker'[s] = w /\ \A r \in Series : r # s => worker'[r] = worker[r]
  BY DEF IInv, Types
<1>2. TypeOK'
  BY <1>1, Zenon DEF IInv, Types, TypeOK, WorkerRec
<1>3. Reported' /\ AppliedOnce' /\ (AckedIsSaved => AckedIsSaved')
  BY DEF IInv, Reported, AppliedOnce, AckedIsSaved
<1> QED BY <1>1, <1>2, <1>3, OneSeriesSteps, Zenon DEF IInv, Types

LEMMA PlanPreserves == ASSUME IInv, NEW s \in Series, Plan(s) PROVE IInv'
<1>1. PICK unread \in SUBSET Monitor :
        /\ unread # {} => "get" \in Faults
        /\ worker' = [worker EXCEPT ![s].phase = "idle", ![s].plan = Without(Monitors, unread),
                                    ![s].state = baseline[s]]
        /\ UNCHANGED <<stream, fetched, inbox, baseline, findings, applied>>
  BY Zenon DEF Plan
<1>2. PICK plan : plan = Without(Monitors, unread)
  OBVIOUS
<1>3. plan \in Seq(Monitor)
  BY <1>2, MonitorFacts, WithoutElements
<1>4. Reliable => plan = Monitors
  <2>1. Reliable => unread = {}
    BY <1>1 DEF Reliable
  <2>2. Without(Monitors, {}) = Monitors
    BY MonitorFacts, WithoutNothing
  <2> QED BY <1>2, <2>1, <2>2
<1>5. PICK w : w = [worker[s] EXCEPT !.phase = "idle", !.plan = plan, !.state = baseline[s]]
  OBVIOUS
<1>6. /\ w \in WorkerRec /\ w.phase = "idle" /\ w.plan = plan /\ w.state = baseline[s] /\ w.batch = worker[s].batch
      /\ worker' = [worker EXCEPT ![s] = w]
  BY <1>1, <1>2, <1>3, <1>5, Zenon DEF IInv, Types, WorkerRec
<1>7. worker'[s] = w
  BY <1>6 DEF IInv, Types
<1>8. Position(s)' /\ RoutedOf(s)'
  BY <1>1, <1>6, <1>7, ZenonT(60) DEF IInv, Position, RoutedOf
<1>9. WholeTicks => FoldedOf(s)'
  BY <1>1, <1>6, <1>7 DEF IInv, FoldedOf
<1>10. Reliable => SavedOf(s)'
  <2> SUFFICES ASSUME Reliable PROVE SavedOf(s)'
    OBVIOUS
  <2>1. \A m \in Monitor : Stored(baseline[s][m].cursor) = baseline[s][m].cursor
    BY DEF IInv, SavedOf
  <2>2. \A m \in Monitor : Kept(s, m)'
    BY <1>1, <1>6, <1>7, <2>1 DEF Kept, Current
  <2>3. CaughtUp(s)'
    BY <1>6, <1>7 DEF CaughtUp
  <2> QED BY <1>1, <1>4, <1>6, <1>7, <2>1, <2>2, <2>3, Zenon DEF SavedOf
<1> QED BY <1>1, <1>6, <1>8, <1>9, <1>10, WorkerSteps, Zenon DEF IInv, Types, TypeOK

LEMMA TakeBatchPreserves == ASSUME IInv, NEW s \in Series, TakeBatch(s) PROVE IInv'
<1>1. PICK w : w = [worker[s] EXCEPT
                      !.phase = IF worker[s].plan = <<>> THEN "ack" ELSE "fold",
                      !.batch = inbox[s], !.mon = 1, !.pos = 1,
                      !.start = IF worker[s].plan = <<>> THEN 0
                                ELSE worker[s].state[worker[s].plan[1]].cursor]
  OBVIOUS
<1>2. /\ worker[s].phase = "idle" /\ inbox[s] # <<>> /\ inbox' = [inbox EXCEPT ![s] = <<>>]
      /\ worker' = [worker EXCEPT ![s] = w]
      /\ UNCHANGED <<stream, fetched, baseline, findings, applied>>
  BY <1>1, Zenon DEF TakeBatch, IInv, Types, WorkerRec
<1>3. inbox[s] \in Seq(Msg) /\ Len(inbox[s]) > 0 /\ worker[s] \in WorkerRec
  BY <1>2 DEF IInv, Types, TypeOK
<1>4. PICK empty : empty = <<>>
  OBVIOUS
<1>5. empty \in Seq(Msg) /\ DOMAIN empty = {} /\ Len(empty) = 0
  BY <1>4
<1>6. inbox' \in [Series -> Seq(Msg)] /\ inbox'[s] = empty /\ \A r \in Series : r # s => inbox'[r] = inbox[r]
  BY <1>2, <1>4, <1>5 DEF IInv, Types, TypeOK
<1>7. worker[s].plan # <<>> => worker[s].plan[1] \in Monitor /\ Len(worker[s].plan) >= 1
  BY <1>3 DEF WorkerRec
<1>8. /\ w \in WorkerRec /\ w.batch = inbox[s] /\ w.mon = 1 /\ w.pos = 1 /\ w.plan = worker[s].plan
      /\ w.state = worker[s].state /\ w.phase = (IF worker[s].plan = <<>> THEN "ack" ELSE "fold")
      /\ w.start = (IF worker[s].plan = <<>> THEN 0 ELSE worker[s].state[worker[s].plan[1]].cursor)
  BY <1>1, <1>3, <1>7, Zenon DEF WorkerRec, BaselineRec
<1>9. worker'[s] = w
  BY <1>2 DEF IInv, Types
<1>10. Position(s)'
  BY <1>3, <1>7, <1>8, <1>9 DEF Position
<1>11. RoutedOf(s)'
  BY <1>5, <1>6, <1>8, <1>9 DEF IInv, RoutedOf
<1>12. WholeTicks => FoldedOf(s)'
  BY <1>2, <1>8, <1>9 DEF IInv, FoldedOf
<1>13. ASSUME Reliable PROVE SavedOf(s)'
  <2>1. SavedOf(s) /\ worker[s].plan = Monitors
    BY <1>2, <1>13 DEF IInv, SavedOf
  <2>2. \A m \in Monitor : /\ baseline[s][m].cursor = Stored(worker[s].state[m].cursor)
                            /\ worker[s].state[m].cursor \in Nat
    BY <1>2, <1>3, <2>1 DEF SavedOf, Kept, Current, WorkerRec, BaselineRec
  <2>3. CASE worker[s].plan = <<>>
    <3>1. Monitor = {}
      BY <2>1, <2>3, MonitorFacts, SMTT(30)
    <3> QED BY <1>2, <1>8, <1>9, <2>1, <2>3, <3>1 DEF SavedOf, CaughtUp
  <2>4. CASE worker[s].plan # <<>>
    <3>1. \A m \in Monitor : Kept(s, m)'
      BY <1>2, <1>8, <1>9, <2>2, <2>4, SMTT(30) DEF Kept, Current
    <3>2. CaughtUp(s)'
      BY <1>8, <1>9, <2>4 DEF CaughtUp, Passed
    <3> QED BY <1>2, <1>8, <1>9, <2>1, <3>1, <3>2, ZenonT(60) DEF SavedOf
  <2> QED BY <2>3, <2>4
<1>14. Len(inbox'[s]) <= InboxCap
  BY <1>5, <1>6, WorkerAssumption
<1> QED BY <1>2, <1>6, <1>8, <1>10, <1>11, <1>12, <1>13, <1>14, WorkerSteps, Zenon

LEMMA AckPreserves ==
  ASSUME IInv, NEW s \in Series, NEW x \in Msg, NEW acked \in BOOLEAN, Ack(s, x, acked)
  PROVE  IInv'
<1>1. PICK old, rest : old = worker[s].batch /\ rest = Tail(old)
  BY Zenon
<1>2. /\ worker[s].phase = "ack" /\ worker[s] \in WorkerRec /\ old \in Seq(Msg) /\ Len(old) > 0
      /\ x = Head(old)
      /\ \A k \in DOMAIN old : SeriesOf[old[k]] = s
  BY <1>1 DEF Ack, IInv, Types, Position, RoutedOf, WorkerRec
<1>3. /\ rest \in Seq(Msg) /\ Len(rest) = Len(old) - 1 /\ x = old[1] /\ SeriesOf[x] = s
      /\ \A k \in DOMAIN rest : k + 1 \in DOMAIN old /\ rest[k] = old[k + 1]
  BY <1>1, <1>2
<1>4. PICK w : w = [worker[s] EXCEPT !.batch = rest, !.phase = IF Len(old) = 1 THEN "idle" ELSE "ack"]
  OBVIOUS
<1>5. /\ worker' = [worker EXCEPT ![s] = w]
      /\ stream' = IF acked THEN [stream EXCEPT ![x] = "done"] ELSE stream
      /\ UNCHANGED <<fetched, inbox, baseline, findings, applied>>
  BY <1>1, <1>4, Zenon DEF Ack, IInv, Types, WorkerRec
<1>6. /\ w \in WorkerRec /\ w.batch = rest /\ w.phase = (IF Len(old) = 1 THEN "idle" ELSE "ack")
      /\ w.plan = worker[s].plan /\ w.state = worker[s].state
  BY <1>2, <1>3, <1>4, Zenon DEF WorkerRec
<1>7. worker' \in [Series -> WorkerRec] /\ worker'[s] = w /\ \A r \in Series : r # s => worker'[r] = worker[r]
  BY <1>5, <1>6 DEF IInv, Types
<1>8. stream' \in [Msg -> {"unpublished", "pending", "delivered", "done"}]
  BY <1>5 DEF IInv, Types, TypeOK
<1>9. TypeOK'
  BY <1>5, <1>7, <1>8, Zenon DEF IInv, Types, TypeOK, WorkerRec
<1>10. Position(s)'
  BY <1>2, <1>3, <1>6, <1>7, SMTT(30) DEF Position
<1>11. RoutedOf(s)'
  BY <1>2, <1>3, <1>5, <1>6, <1>7, SMTT(30) DEF IInv, RoutedOf
<1>12. Reported' /\ AppliedOnce'
  BY <1>5 DEF IInv, Reported, AppliedOnce
<1>13. WholeTicks => FoldedOf(s)'
  BY <1>5, <1>6, <1>7, Zenon DEF IInv, FoldedOf
<1>14. ASSUME Reliable PROVE AckedIsSaved' /\ SavedOf(s)'
  <2>1. SavedOf(s) /\ AckedIsSaved
    BY <1>14 DEF IInv
  <2>2. ASSUME NEW m \in Monitor, NEW k \in DOMAIN old
        PROVE  TimeOf[old[k]] <= worker[s].state[m].cursor
    BY <1>1, <1>2, <2>1, SMTT(30) DEF SavedOf, CaughtUp, Passed
  <2>3. ASSUME NEW m \in Monitor
        PROVE  baseline[s][m].cursor = Stored(worker[s].state[m].cursor) /\ worker[s].state[m].cursor \in Nat
    BY <1>2, <2>1 DEF SavedOf, Kept, Current, WorkerRec, BaselineRec
  <2>4. AckedIsSaved'
    <3>1. ASSUME NEW m \in Monitor PROVE baseline[s][m].cursor >= Stored(TimeOf[x])
      <4>1. 1 \in DOMAIN old /\ TimeOf[x] \in Nat
        BY <1>2, WorkerAssumption
      <4>2. TimeOf[x] <= worker[s].state[m].cursor
        BY <1>3, <2>2, <4>1
      <4>3. Stored(TimeOf[x]) <= Stored(worker[s].state[m].cursor)
        BY <2>3, <4>1, <4>2, StoredFacts
      <4> QED BY <2>3, <4>1, <4>3, StoredFacts
    <3>2. \A y \in Msg : stream'[y] = "done" => stream[y] = "done" \/ y = x
      BY <1>5 DEF IInv, Types, TypeOK
    <3> QED BY <1>3, <1>5, <2>1, <3>1, <3>2 DEF AckedIsSaved
  <2>5. CaughtUp(s)'
    <3>1. ASSUME NEW m \in Monitor, NEW k \in 1..Len(rest) PROVE TimeOf[rest[k]] <= worker[s].state[m].cursor
      <4>1. k \in DOMAIN rest
        BY <1>3
      <4> QED BY <1>3, <2>2, <4>1
    <3> QED BY <1>6, <1>7, <3>1 DEF CaughtUp, Passed
  <2>6. \A m \in Monitor : Kept(s, m)'
    BY <1>5, <1>6, <1>7, <2>3 DEF Kept, Current
  <2> QED BY <1>2, <1>5, <1>6, <1>7, <2>1, <2>4, <2>5, <2>6 DEF SavedOf
<1> QED BY <1>5, <1>7, <1>9, <1>10, <1>11, <1>12, <1>13, <1>14, OneSeriesSteps DEF IInv, Types

-----------------------------------------------------------------------------
(* The fold *)

\* A finding is applied when its row is new, so none of its copies was before.
LEMMA ReportOnce ==
  ASSUME IInv, NEW m \in Monitor, NEW x \in Msg, Report(m, SeriesOf[x], x)
  PROVE  /\ findings' \subseteq Monitor \X Series \X Nat /\ applied' \in [Monitor -> [Msg -> Nat]]
         /\ Reported' /\ AppliedOnce'
<1>1. /\ findings \subseteq Monitor \X Series \X Nat /\ applied \in [Monitor -> [Msg -> Nat]]
      /\ Reported /\ AppliedOnce
  BY DEF IInv, Types, TypeOK
<1>2. Row(m, x) \in Monitor \X Series \X Nat
  BY StoredFacts, WorkerAssumption DEF Row
<1>3. CASE UNCHANGED <<findings, applied>>
  BY <1>1, <1>3 DEF Reported, AppliedOnce
<1>4. CASE findings' = findings \cup {Row(m, x)} /\ UNCHANGED applied
  BY <1>1, <1>2, <1>4 DEF Reported, AppliedOnce
<1>5. CASE /\ Row(m, x) \notin findings
           /\ findings' = findings \cup {Row(m, x)} /\ applied' = [applied EXCEPT ![m][x] = @ + 1]
  <2>1. applied[m][x] = 0
    BY <1>1, <1>5 DEF Reported
  <2>2. /\ applied' \in [Monitor -> [Msg -> Nat]] /\ applied'[m][x] = 1
        /\ \A n \in Monitor, y \in Msg : n # m \/ y # x => applied'[n][y] = applied[n][y]
    BY <1>1, <1>5, <2>1
  <2>3. Reported'
    BY <1>1, <1>5, <2>2 DEF Reported
  <2>4. ASSUME NEW n \in Monitor, NEW y \in Msg, NEW z \in Msg,
               applied'[n][y] > 0, applied'[n][z] > 0, Copies(y, z)
        PROVE  y = z /\ applied'[n][y] = 1
    <3>1. CASE n # m
      BY <1>1, <2>2, <2>4, <3>1 DEF AppliedOnce, AtMostOnce
    <3>2. CASE n = m
      <4>1. Row(m, y) = Row(m, z)
        BY <2>4 DEF Row, Copies
      <4>2. y = x <=> z = x
        BY <1>1, <1>5, <2>2, <2>4, <3>2, <4>1 DEF Reported
      <4>3. CASE y = x
        BY <2>2, <3>2, <4>2, <4>3
      <4>4. CASE y # x
        BY <1>1, <2>2, <2>4, <3>2, <4>2, <4>4 DEF AppliedOnce, AtMostOnce
      <4> QED BY <4>3, <4>4
    <3> QED BY <3>1, <3>2
  <2>5. AppliedOnce'
    BY <2>4, Zenon DEF AppliedOnce, AtMostOnce
  <2> QED BY <1>1, <1>2, <1>5, <2>2, <2>3, <2>5
<1> QED BY <1>3, <1>4, <1>5 DEF Report, Row

LEMMA FoldSamplePreserves == ASSUME IInv, NEW s \in Series, FoldSample(s) PROVE IInv'
<1>1. PICK w, m, x : w = worker[s] /\ m = w.plan[w.mon] /\ x = w.batch[w.pos]
  BY Zenon
<1>2. /\ w \in WorkerRec /\ w.phase = "fold" /\ w.pos <= Len(w.batch)
      /\ w.mon \in 1..Len(w.plan) /\ w.pos \in 1..Len(w.batch) /\ w.pos \in DOMAIN w.batch
      /\ UNCHANGED <<stream, fetched, inbox, baseline>>
  <2>1. w \in WorkerRec /\ w.phase = "fold" /\ w.pos <= Len(w.batch) /\ UNCHANGED <<stream, fetched, inbox, baseline>>
    BY <1>1, Zenon DEF FoldSample, IInv, Types
  <2>2. w.mon \in 1..Len(w.plan) /\ w.pos \in 1..Len(w.batch) + 1
    BY <1>1, <2>1 DEF IInv, Types, Position
  <2> QED BY <2>1, <2>2 DEF WorkerRec
<1>3. m \in Monitor /\ x \in Msg /\ SeriesOf[x] = s /\ TimeOf[x] \in Nat
  <2>1. m \in Monitor /\ x \in Msg
    BY <1>1, <1>2 DEF WorkerRec
  <2>2. SeriesOf[x] = s
    BY <1>1, <1>2 DEF IInv, RoutedOf
  <2> QED BY <2>1, <2>2, WorkerAssumption
<1>4. \A n \in Monitor : w.state[n] \in BaselineRec
  BY <1>2 DEF WorkerRec
<1>p. PICK p \in Nat : p = w.pos + 1
  BY <1>2
<1>r. w \in WorkerRec
  BY <1>2, Zenon
\* What both outcomes have in common.
<1>5. \E v \in WorkerRec :
        /\ worker' = [worker EXCEPT ![s] = v]
        /\ v.phase = w.phase /\ v.batch = w.batch /\ v.plan = w.plan /\ v.mon = w.mon /\ v.start = w.start
        /\ v.pos = p
        /\ \A n \in Monitor : n # m => v.state[n] = w.state[n]
        /\ w.state[m].cursor <= v.state[m].cursor /\ TimeOf[x] <= v.state[m].cursor
        /\ WholeTicks /\ Folded(w.state[m]) => Folded(v.state[m])
        /\ findings' \subseteq Monitor \X Series \X Nat /\ applied' \in [Monitor -> [Msg -> Nat]]
        /\ Reported' /\ AppliedOnce'
  <2>1. CASE TimeOf[x] <= w.state[m].cursor
    <3>1. worker' = [worker EXCEPT ![s].pos = @ + 1] /\ UNCHANGED <<findings, applied>>
      BY <1>1, <2>1, Zenon DEF FoldSample
    <3>2. PICK v : v = [w EXCEPT !.pos = p]
      BY Zenon
    <3>3. worker' = [worker EXCEPT ![s] = v]
      <4>1. worker' = [worker EXCEPT ![s].pos = p]
        BY <1>1, <1>p, <3>1
      <4> QED BY <1>1, <3>2, <4>1 DEF IInv, Types, WorkerRec
    <3>4. /\ v \in WorkerRec
          /\ v.phase = w.phase /\ v.batch = w.batch /\ v.plan = w.plan /\ v.mon = w.mon /\ v.start = w.start
          /\ v.pos = p /\ v.state = w.state
      BY <1>r, <3>2, Zenon DEF WorkerRec
    <3>5. Reported' /\ AppliedOnce' /\ findings' \subseteq Monitor \X Series \X Nat /\ applied' \in [Monitor -> [Msg -> Nat]]
      BY <3>1 DEF IInv, Types, TypeOK, Reported, AppliedOnce
    <3>6. w.state[m].cursor <= v.state[m].cursor
      BY <1>3, <1>4, <3>4 DEF BaselineRec
    <3> QED BY <2>1, <3>3, <3>4, <3>5, <3>6, Zenon
  <2>2. CASE ~(TimeOf[x] <= w.state[m].cursor)
    <3>1. PICK next \in Step(m, w.state[m].state, SampleOf[x]) :
            /\ worker' = [worker EXCEPT ![s].pos = @ + 1,
                                        ![s].state[m] = [cursor |-> TimeOf[x], state |-> next.state,
                                                         seen |-> [w.state[m].seen EXCEPT ![x] = @ + 1]]]
            /\ IF next.found THEN Report(m, s, x) ELSE UNCHANGED <<findings, applied>>
      BY <1>1, <2>2, Zenon DEF FoldSample
    <3>2. w.state[m] \in BaselineRec /\ w.state[m].state \in StateRec
      BY <1>3, <1>4 DEF BaselineRec
    <3>3. PICK st \in StateRec : st = next.state
      BY <1>3, <3>2, StepType
    <3>4. PICK seen, b : /\ seen = [w.state[m].seen EXCEPT ![x] = @ + 1]
                         /\ b = [cursor |-> TimeOf[x], state |-> st, seen |-> seen]
      BY Zenon
    <3>5. b \in BaselineRec /\ b.cursor = TimeOf[x] /\ b.seen = seen
      <4>1. seen \in [Msg -> Nat]
        BY <1>3, <3>2, <3>4 DEF BaselineRec
      <4> QED BY <1>3, <3>4, <4>1, Zenon DEF BaselineRec
    <3>6. PICK states, v : states = [w.state EXCEPT ![m] = b] /\ v = [w EXCEPT !.pos = p, !.state = states]
      BY Zenon
    <3>7. /\ states \in [Monitor -> BaselineRec] /\ states[m] = b
          /\ \A n \in Monitor : n # m => states[n] = w.state[n]
      BY <1>2, <1>3, <3>5, <3>6 DEF WorkerRec
    <3>8. /\ v \in WorkerRec /\ v.phase = w.phase /\ v.batch = w.batch /\ v.plan = w.plan /\ v.mon = w.mon
          /\ v.start = w.start /\ v.pos = p /\ v.state = states
      BY <1>r, <3>6, <3>7, Zenon DEF WorkerRec
    <3>9. worker' = [worker EXCEPT ![s] = v]
      <4>1. b = [cursor |-> TimeOf[x], state |-> next.state, seen |-> [w.state[m].seen EXCEPT ![x] = @ + 1]]
        BY <3>3, <3>4
      <4>2. worker' = [worker EXCEPT ![s].pos = p, ![s].state[m] = b]
        BY <1>1, <1>p, <3>1, <4>1, ZenonT(60)
      <4> QED BY <1>1, <3>6, <4>2, Zenon DEF IInv, Types, WorkerRec
    <3>10. WholeTicks /\ Folded(w.state[m]) => Folded(b)
      <4>1. TimeOf[x] > w.state[m].cursor
        BY <1>3, <2>2, <3>2 DEF BaselineRec
      <4> QED BY <1>3, <3>2, <3>4, <3>5, <4>1, FoldedNewer, Zenon
    <3>11. w.state[m].cursor <= b.cursor /\ TimeOf[x] <= b.cursor
      BY <1>3, <2>2, <3>2, <3>5 DEF BaselineRec
    <3>12. Reported' /\ AppliedOnce' /\ findings' \subseteq Monitor \X Series \X Nat /\ applied' \in [Monitor -> [Msg -> Nat]]
      <4>1. CASE Report(m, s, x)
        BY <1>3, <4>1, ReportOnce
      <4>2. CASE UNCHANGED <<findings, applied>>
        BY <4>2 DEF IInv, Types, TypeOK, Reported, AppliedOnce
      <4> QED BY <3>1, <4>1, <4>2, Zenon
    <3> QED BY <3>7, <3>8, <3>9, <3>10, <3>11, <3>12, Zenon
  <2> QED BY <2>1, <2>2
<1>6. PICK v \in WorkerRec :
        /\ worker' = [worker EXCEPT ![s] = v]
        /\ v.phase = w.phase /\ v.batch = w.batch /\ v.plan = w.plan /\ v.mon = w.mon /\ v.start = w.start
        /\ v.pos = p
        /\ \A n \in Monitor : n # m => v.state[n] = w.state[n]
        /\ w.state[m].cursor <= v.state[m].cursor /\ TimeOf[x] <= v.state[m].cursor
        /\ WholeTicks /\ Folded(w.state[m]) => Folded(v.state[m])
  BY <1>5, Zenon
<1>7. worker' \in [Series -> WorkerRec] /\ worker'[s] = v /\ \A r \in Series : r # s => worker'[r] = worker[r]
  BY <1>6 DEF IInv, Types
<1>8. TypeOK'
  BY <1>2, <1>5, <1>7, ZenonT(60) DEF IInv, Types, TypeOK, WorkerRec
<1>9. Position(s)'
  BY <1>2, <1>p, <1>6, <1>7 DEF Position, WorkerRec
<1>10. RoutedOf(s)'
  <2>1. RoutedOf(s) /\ worker'[s].batch = worker[s].batch /\ inbox' = inbox
    BY <1>1, <1>2, <1>6, <1>7, Zenon DEF IInv
  <2> QED BY <2>1, Zenon DEF RoutedOf
<1>11. WholeTicks => FoldedOf(s)'
  BY <1>1, <1>2, <1>3, <1>6, <1>7, Zenon DEF IInv, FoldedOf
<1>12. ASSUME Reliable PROVE AckedIsSaved' /\ SavedOf(s)'
  <2>1. AckedIsSaved /\ SavedOf(s)
    BY <1>12 DEF IInv
  <2>2. AckedIsSaved'
    BY <1>2, <2>1 DEF AckedIsSaved
  <2>3. \A n \in Monitor : v.state[n].cursor \in Nat /\ w.state[n].cursor \in Nat
    BY <1>2, Zenon DEF WorkerRec, BaselineRec
  <2>4. \A n \in Monitor : w.state[n].cursor <= v.state[n].cursor
    BY <1>6, <2>3
  <2>5. TimeOf \in [Msg -> Nat] /\ w.batch \in Seq(Msg) /\ w.plan \in Seq(Monitor) /\ w.start \in Nat
    BY <1>2, WorkerAssumption DEF WorkerRec
  <2>6. ASSUME NEW n \in Monitor PROVE Kept(s, n)'
    <3>1. Kept(s, n)
      BY <1>1, <1>2, <2>1, ZenonT(60) DEF SavedOf
    <3>2. Current(s, n)' <=> n = m
      BY <1>1, <1>2, <1>6, <1>7 DEF Current
    <3>3. Current(s, n) <=> n = m
      BY <1>1, <1>2, Zenon DEF Current
    <3>4. CASE n = m
      <4>1. baseline[s][m].cursor = Stored(w.start) /\ w.start <= w.state[m].cursor
        BY <1>1, <3>1, <3>3, <3>4, Zenon DEF Kept
      <4>2. w.start <= v.state[m].cursor
        BY <1>3, <1>6, <2>3, <2>5, <4>1, SMTT(30)
      <4> QED BY <1>2, <1>6, <1>7, <3>2, <3>4, <4>1, <4>2, Zenon DEF Kept
    <3>5. CASE n # m
      BY <1>1, <1>2, <1>6, <1>7, <3>1, <3>2, <3>3, <3>5, Zenon DEF Kept
    <3> QED BY <3>4, <3>5
  <2>7. ASSUME NEW i \in 1..w.mon - 1, NEW k \in 1..Len(w.batch)
        PROVE  TimeOf[w.batch[k]] <= v.state[w.plan[i]].cursor
    <3>1. w.plan[i] \in Monitor /\ TimeOf[w.batch[k]] \in Nat
      BY <1>2, <2>5, SMTT(30)
    <3>2. TimeOf[w.batch[k]] <= w.state[w.plan[i]].cursor
      BY <1>1, <1>2, <2>1 DEF SavedOf, CaughtUp, Passed
    <3> QED BY <2>3, <2>4, <3>1, <3>2, SMTT(30)
  <2>8. ASSUME NEW k \in 1..w.pos PROVE TimeOf[w.batch[k]] <= v.state[m].cursor
    <3>1. CASE k = w.pos
      BY <1>1, <1>6, <3>1, Zenon
    <3>2. CASE k # w.pos
      <4>1. k \in 1..w.pos - 1 /\ TimeOf[w.batch[k]] \in Nat
        BY <1>2, <2>5, <3>2, SMTT(30)
      <4>2. TimeOf[w.batch[k]] <= w.state[m].cursor
        BY <1>1, <1>2, <2>1, <4>1 DEF SavedOf, CaughtUp, Passed
      <4> QED BY <1>3, <2>3, <2>4, <4>1, <4>2, SMTT(30)
    <3> QED BY <3>1, <3>2
  <2>9. CaughtUp(s)'
    <3>1. v.pos - 1 = w.pos
      BY <1>2, <1>p, <1>6
    <3> QED BY <1>1, <1>2, <1>6, <1>7, <2>7, <2>8, <3>1, ZenonT(60) DEF CaughtUp, Passed
  <2> QED BY <1>1, <1>2, <1>6, <1>7, <2>1, <2>2, <2>6, <2>9, Zenon DEF SavedOf
<1> QED BY <1>2, <1>5, <1>7, <1>8, <1>9, <1>10, <1>11, <1>12, OneSeriesSteps DEF IInv, Types

LEMMA SaveBaselinePreserves == ASSUME IInv, NEW s \in Series, SaveBaseline(s) PROVE IInv'
<1>1. PICK w, m : w = worker[s] /\ m = w.plan[w.mon]
  OBVIOUS
<1>2. PICK b : b = [w.state[m] EXCEPT !.cursor = Stored(@)]
  BY Zenon
<1>3. PICK v : v = IF w.mon < Len(w.plan)
                   THEN [w EXCEPT !.mon = @ + 1, !.pos = 1, !.start = w.state[w.plan[w.mon + 1]].cursor]
                   ELSE [w EXCEPT !.phase = "ack"]
  BY ZenonT(60)
<1>4. /\ w \in WorkerRec /\ w.phase = "fold" /\ w.mon \in 1..Len(w.plan) /\ w.pos = Len(w.batch) + 1
      /\ Len(w.batch) \in Nat /\ UNCHANGED <<stream, fetched, inbox, findings, applied>>
  <2>1. w \in WorkerRec /\ w.phase = "fold" /\ w.pos > Len(w.batch) /\ UNCHANGED <<stream, fetched, inbox, findings, applied>>
    BY <1>1, Zenon DEF SaveBaseline, IInv, Types
  <2>2. w.mon \in 1..Len(w.plan) /\ w.pos \in 1..Len(w.batch) + 1
    BY <1>1, <2>1, Zenon DEF IInv, Types, Position
  <2>3. PICK n \in Nat : n = Len(w.batch)
    <3>1. w.batch \in Seq(Msg)
      BY <2>1, Zenon DEF WorkerRec
    <3> QED BY <3>1
  <2>4. PICK k : k = w.pos
    OBVIOUS
  <2>5. k = n + 1
    <3>1. k \in 1..(n + 1) /\ k > n
      BY <2>1, <2>2, <2>3, <2>4, Zenon
    <3> QED BY ONLY <3>1, n \in Nat
  <2> QED BY <2>1, <2>2, <2>3, <2>4, <2>5, Zenon
<1>5. m \in Monitor /\ (w.mon < Len(w.plan) => w.plan[w.mon + 1] \in Monitor)
  BY <1>1, <1>4 DEF WorkerRec
<1>6. \A n \in Monitor : w.state[n] \in BaselineRec /\ w.state[n].cursor \in Nat
  BY <1>4 DEF WorkerRec, BaselineRec
<1>7. b \in BaselineRec /\ b.cursor = Stored(w.state[m].cursor) /\ b.seen = w.state[m].seen
  BY <1>2, <1>5, <1>6, StoredFacts DEF BaselineRec
<1>8. worker' = [worker EXCEPT ![s] = v]
  <2>1. CASE w.mon < Len(w.plan)
    BY <1>1, <1>3, <2>1, Zenon DEF SaveBaseline, IInv, Types, WorkerRec
  <2>2. CASE ~(w.mon < Len(w.plan))
    BY <1>1, <1>3, <2>2, Zenon DEF SaveBaseline, IInv, Types, WorkerRec
  <2> QED BY <2>1, <2>2
<1>9. /\ v \in WorkerRec /\ v.batch = w.batch /\ v.plan = w.plan /\ v.state = w.state
      /\ w.mon < Len(w.plan) => /\ v.phase = "fold" /\ v.mon = w.mon + 1 /\ v.pos = 1
                                /\ v.start = w.state[w.plan[w.mon + 1]].cursor
      /\ ~(w.mon < Len(w.plan)) => v.phase = "ack"
  <2>1. w \in WorkerRec /\ w.mon \in Nat /\ w.phase = "fold"
    BY <1>4
  <2>2. CASE w.mon < Len(w.plan)
    <3>1. PICK next, start \in Nat : next = w.mon + 1 /\ start = w.state[w.plan[w.mon + 1]].cursor
      BY <1>5, <1>6, <2>1, <2>2
    <3>2. v = [w EXCEPT !.mon = next, !.pos = 1, !.start = start]
      BY <1>3, <2>2, <3>1
    <3> QED BY <2>1, <2>2, <3>1, <3>2, Zenon DEF WorkerRec
  <2>3. CASE ~(w.mon < Len(w.plan))
    BY <1>3, <2>1, <2>3, Zenon DEF WorkerRec
  <2> QED BY <2>2, <2>3
<1>10. /\ worker' \in [Series -> WorkerRec] /\ worker'[s] = v
       /\ \A r \in Series : r # s => worker'[r] = worker[r]
  BY <1>8, <1>9 DEF IInv, Types
<1>11. \/ w.state[m].cursor > w.start /\ baseline' = [baseline EXCEPT ![s][m] = b]
       \/ (w.state[m].cursor > w.start => "save" \in Faults) /\ UNCHANGED baseline
  BY <1>1, <1>2, ZenonT(60) DEF SaveBaseline
<1>12. /\ baseline' \in [Series -> [Monitor -> BaselineRec]]
       /\ \A r \in Series : r # s => baseline'[r] = baseline[r]
       /\ \A n \in Monitor : n # m => baseline'[s][n] = baseline[s][n]
       /\ baseline'[s][m] \in {baseline[s][m], b}
  BY <1>5, <1>7, <1>11 DEF IInv, Types
<1>13. TypeOK'
  BY <1>4, <1>10, Zenon DEF IInv, Types, TypeOK, WorkerRec
<1>14. Position(s)'
  <2>1. Len(w.plan) \in Nat
    BY <1>4 DEF WorkerRec
  <2>2. Len(w.batch) > 0
    BY <1>1, <1>4, Zenon DEF IInv, Types, Position
  <2>3. CASE w.mon < Len(w.plan)
    BY <1>4, <1>9, <1>10, <2>1, <2>2, <2>3, SMTT(30) DEF Position
  <2>4. CASE ~(w.mon < Len(w.plan))
    BY <1>9, <1>10, <2>2, <2>4, Zenon DEF Position
  <2> QED BY <2>3, <2>4
<1>15. RoutedOf(s)'
  <2>1. RoutedOf(s) /\ worker'[s].batch = worker[s].batch /\ inbox' = inbox
    BY <1>1, <1>4, <1>9, <1>10, Zenon DEF IInv
  <2> QED BY <2>1, Zenon DEF RoutedOf
<1>16. Reported' /\ AppliedOnce'
  BY <1>4, Zenon DEF IInv, Reported, AppliedOnce
<1>17. ASSUME WholeTicks PROVE FoldedOf(s)'
  <2>1. \A n \in Monitor : Folded(w.state[n]) /\ Folded(baseline[s][n])
    BY <1>1, <1>17, Zenon DEF IInv, FoldedOf
  <2>2. Folded(b)
    BY <1>5, <1>7, <2>1, Zenon DEF Folded
  <2> QED BY <1>9, <1>10, <1>12, <2>1, <2>2, Zenon DEF FoldedOf
<1>18. ASSUME Reliable PROVE AckedIsSaved' /\ SavedOf(s)'
  <2>1. AckedIsSaved /\ SavedOf(s) /\ w.plan = Monitors
    BY <1>1, <1>4, <1>18, Zenon DEF IInv, SavedOf
  <2>2. w.start \in Nat /\ \A n \in Monitor : baseline[s][n].cursor \in Nat
    BY <1>4, SMTT(30) DEF IInv, Types, WorkerRec, BaselineRec
  <2>3. baseline[s][m].cursor = Stored(w.start) /\ w.start <= w.state[m].cursor
    BY <1>1, <1>4, <1>5, <2>1, Zenon DEF SavedOf, Kept, Current
  <2>4. \A n \in Monitor : n # m => baseline[s][n].cursor = Stored(w.state[n].cursor)
    BY <1>1, <1>4, <2>1 DEF SavedOf, Kept, Current
  \* The row has what the fold has come to, saved now or already there.
  <2>5. baseline'[s][m].cursor = Stored(w.state[m].cursor)
    <3>1. CASE baseline'[s][m] = b
      BY <1>7, <3>1
    <3>2. CASE ~(w.state[m].cursor > w.start) /\ UNCHANGED baseline
      <4>1. w.state[m].cursor = w.start
        BY <1>5, <1>6, <2>2, <2>3, <3>2
      <4> QED BY <2>3, <3>2, <4>1, Zenon
    <3>3. "save" \notin Faults
      BY <1>18, Zenon DEF Reliable
    <3>4. baseline' = [baseline EXCEPT ![s][m] = b] => baseline'[s][m] = b
      BY <1>5, Zenon DEF IInv, Types
    <3> QED BY <1>11, <3>1, <3>2, <3>3, <3>4, Zenon
  <2>6. \A n \in Monitor : baseline'[s][n].cursor = Stored(w.state[n].cursor)
    BY <1>12, <2>4, <2>5, Zenon
  <2>7. \A n \in Monitor : baseline[s][n].cursor <= baseline'[s][n].cursor
    <3>1. Stored(w.start) <= Stored(w.state[m].cursor)
      BY <1>5, <1>6, <2>2, <2>3, StoredFacts, Zenon
    <3> QED BY <1>12, <2>2, <2>3, <2>5, <3>1, SMTT(30)
  <2>8. AckedIsSaved'
    <3>1. ASSUME NEW x \in Msg \ Bad, stream'[x] = "done", NEW n \in Monitor
          PROVE  baseline'[SeriesOf[x]][n].cursor >= Stored(TimeOf[x])
      <4>1. /\ baseline[SeriesOf[x]][n].cursor >= Stored(TimeOf[x]) /\ SeriesOf[x] \in Series
            /\ Stored(TimeOf[x]) \in Nat
        BY <1>4, <2>1, <3>1, StoredFacts, WorkerAssumption, Zenon DEF AckedIsSaved
      <4>2. CASE SeriesOf[x] # s
        BY <1>12, <4>1, <4>2, Zenon
      <4>3. CASE SeriesOf[x] = s
        <5>1. baseline'[s][n].cursor \in Nat
          BY <1>6, <2>6, StoredFacts, Zenon
        <5> QED BY <2>2, <2>7, <4>1, <4>3, <5>1, SMTT(30)
      <4> QED BY <4>2, <4>3, Zenon
    <3> QED BY <3>1 DEF AckedIsSaved
  <2>9. \A n \in Monitor : Stored(baseline'[s][n].cursor) = baseline'[s][n].cursor
    BY <1>6, <2>6, StoredFacts
  <2>10. ASSUME NEW n \in Monitor PROVE Kept(s, n)'
    <3>1. CASE Current(s, n)'
      <4>1. w.mon < Len(w.plan) /\ n = w.plan[w.mon + 1]
        BY <1>9, <1>10, <3>1, Zenon DEF Current
      <4> QED BY <1>6, <1>9, <1>10, <2>6, <3>1, <4>1, SMTT(30) DEF Kept
    <3>2. CASE ~Current(s, n)'
      BY <1>9, <1>10, <2>6, <3>2, Zenon DEF Kept
    <3> QED BY <3>1, <3>2, Zenon
  <2>11. ASSUME NEW i \in 1..w.mon, NEW k \in 1..Len(w.batch)
         PROVE  TimeOf[w.batch[k]] <= w.state[w.plan[i]].cursor
    <3>1. CASE i = w.mon
      <4>1. k \in 1..w.pos - 1
        BY <1>4, SMTT(30)
      <4> QED BY <1>1, <1>4, <2>1, <3>1, <4>1, Zenon DEF SavedOf, CaughtUp, Passed
    <3>2. CASE i # w.mon
      <4>1. i \in 1..w.mon - 1
        BY <1>4, <3>2, SMTT(30)
      <4> QED BY <1>1, <1>4, <2>1, <4>1, SMTT(30) DEF SavedOf, CaughtUp, Passed
    <3> QED BY <3>1, <3>2
  <2>12. CaughtUp(s)'
    <3>1. CASE w.mon < Len(w.plan)
      <4>1. v.mon - 1 = w.mon /\ v.pos - 1 = 0
        BY <1>4, <1>9, <3>1
      <4> QED BY <1>9, <1>10, <2>11, <3>1, <4>1, SMTT(30) DEF CaughtUp, Passed
    <3>2. CASE ~(w.mon < Len(w.plan))
      <4>1. ASSUME NEW n \in Monitor PROVE \E i \in 1..w.mon : n = w.plan[i]
        <5>1. PICK i \in DOMAIN Monitors : n = Monitors[i]
          BY MonitorFacts
        <5>2. Monitors \in Seq(Monitor) /\ i \in 1..Len(w.plan)
          BY <2>1, MonitorFacts, SMTT(30)
        <5> QED BY <1>4, <2>1, <3>2, <5>1, <5>2
      <4> QED BY <1>9, <1>10, <2>11, <3>2, <4>1, ZenonT(60) DEF CaughtUp, Passed
    <3> QED BY <3>1, <3>2
  <2> QED BY <1>1, <1>4, <1>9, <1>10, <2>1, <2>8, <2>9, <2>10, <2>12, Zenon DEF SavedOf
<1> QED BY <1>4, <1>10, <1>12, <1>13, <1>14, <1>15, <1>16, <1>17, <1>18, OneSeriesSteps, Zenon DEF IInv, Types

-----------------------------------------------------------------------------
(* Starting *)

LEMMA EmptyFacts ==
  /\ NoWorker \in WorkerRec /\ NoWorker.phase = "none" /\ DOMAIN NoWorker.batch = {}
  /\ \A m \in Monitor : NoWorker.state[m] = Empty
  /\ Empty \in BaselineRec /\ Empty.cursor = 0 /\ Folded(Empty)
<1>1. Empty \in BaselineRec /\ Empty.cursor = 0 /\ \A x \in Msg : Empty.seen[x] = 0
  BY DEF Empty, NoState, BaselineRec, StateRec
<1>2. Folded(Empty)
  BY <1>1, StoredFacts DEF Folded, AtMostOnce
<1>3. PICK empty : empty = <<>>
  OBVIOUS
<1>4. empty \in Seq(Msg) /\ empty \in Seq(Monitor) /\ DOMAIN empty = {}
  BY <1>3
<1>5. PICK states : states = [m \in Monitor |-> Empty]
  BY Zenon
<1>6. NoWorker = [phase |-> "none", batch |-> empty, plan |-> empty, mon |-> 1, pos |-> 1, start |-> 0, state |-> states]
  BY <1>3, <1>5 DEF NoWorker
<1>7. states \in [Monitor -> BaselineRec]
  BY <1>1, <1>5
<1> QED BY <1>1, <1>2, <1>4, <1>5, <1>6, <1>7, Zenon DEF WorkerRec

\* Every goroutine is gone, and what is saved stays.
LEMMA RestartPreserves == ASSUME IInv, Restart PROVE IInv'
<1>1. PICK empty : empty = <<>>
  OBVIOUS
<1>2. empty \in Seq(Msg) /\ DOMAIN empty = {} /\ Len(empty) = 0 /\ InboxCap \in Nat
  BY <1>1, WorkerAssumption
<1>3. /\ fetched' = empty /\ inbox' = [s \in Series |-> empty] /\ worker' = [s \in Series |-> NoWorker]
      /\ UNCHANGED <<stream, baseline, findings, applied>>
  BY <1>1 DEF Restart
<1>4. worker' \in [Series -> WorkerRec] /\ \A s \in Series : worker'[s] = NoWorker /\ inbox'[s] = empty
  BY <1>3, EmptyFacts, Zenon
<1>5. Types'
  <2>1. TypeOK'
    BY <1>2, <1>3, <1>4 DEF IInv, Types, TypeOK, WorkerRec
  <2> QED BY <1>3, <1>4, <2>1, EmptyFacts, Zenon DEF IInv, Types, Position
<1>6. Reported' /\ AppliedOnce' /\ (AckedIsSaved => AckedIsSaved')
  BY <1>3, ZenonT(60) DEF IInv, Reported, AppliedOnce, AckedIsSaved
<1>7. ASSUME NEW s \in Series PROVE RoutedOf(s)'
  BY <1>2, <1>4, EmptyFacts, Zenon DEF RoutedOf
<1>8. ASSUME NEW s \in Series, FoldedOf(s) PROVE FoldedOf(s)'
  BY <1>3, <1>4, <1>8, EmptyFacts, Zenon DEF FoldedOf
<1>9. ASSUME NEW s \in Series, SavedOf(s) PROVE SavedOf(s)'
  <2>1. worker'[s].phase = "none"
    BY <1>4, EmptyFacts
  <2> QED BY <1>3, <1>9, <2>1, ZenonT(60) DEF SavedOf, CaughtUp
<1> QED BY <1>5, <1>6, <1>7, <1>8, <1>9 DEF IInv

LEMMA InitIInv == Init => IInv
<1> SUFFICES ASSUME Init PROVE IInv
  OBVIOUS
<1>1. PICK empty : empty = <<>>
  OBVIOUS
<1>2. empty \in Seq(Msg) /\ DOMAIN empty = {} /\ Len(empty) = 0 /\ InboxCap \in Nat
  BY <1>1, WorkerAssumption
<1>3. /\ fetched = empty /\ inbox = [s \in Series |-> empty] /\ worker = [s \in Series |-> NoWorker]
      /\ baseline = [s \in Series |-> [m \in Monitor |-> Empty]] /\ findings = {}
      /\ stream = [x \in Msg |-> "unpublished"] /\ applied = [m \in Monitor |-> [x \in Msg |-> 0]]
  BY <1>1, Zenon DEF Init
<1>4. /\ worker \in [Series -> WorkerRec] /\ \A s \in Series : worker[s] = NoWorker /\ inbox[s] = empty
      /\ \A s \in Series, m \in Monitor : baseline[s][m] = Empty
  BY <1>3, EmptyFacts, Zenon
<1>5. Types
  <2>1. TypeOK
    BY <1>2, <1>3, <1>4, SMTT(30) DEF TypeOK, WorkerRec
  <2>2. baseline \in [Series -> [Monitor -> BaselineRec]]
    BY <1>3, EmptyFacts, Zenon
  <2> QED BY <1>4, <2>1, <2>2, EmptyFacts, Zenon DEF Types, Position
<1>6. Reported /\ AppliedOnce /\ AckedIsSaved
  BY <1>3, SMTT(30) DEF Reported, AppliedOnce, AtMostOnce, AckedIsSaved
<1>7. ASSUME NEW s \in Series PROVE RoutedOf(s) /\ FoldedOf(s)
  BY <1>2, <1>4, EmptyFacts, Zenon DEF RoutedOf, FoldedOf
<1>8. ASSUME NEW s \in Series PROVE SavedOf(s)
  <2>1. worker[s].phase = "none"
    BY <1>4, EmptyFacts, Zenon
  <2>2. \A m \in Monitor : Stored(baseline[s][m].cursor) = baseline[s][m].cursor
    BY <1>4, EmptyFacts, StoredFacts
  <2> QED BY <2>1, <2>2, Zenon DEF SavedOf, CaughtUp
<1> QED BY <1>5, <1>6, <1>7, <1>8 DEF IInv

LEMMA NextPreserves == IInv /\ [Next]_vars => IInv'
<1> SUFFICES ASSUME IInv, [Next]_vars PROVE IInv'
  OBVIOUS
<1>1. ASSUME UNCHANGED vars PROVE IInv'
  <2>1. /\ stream' \in [Msg -> {"unpublished", "pending", "delivered", "done"}] /\ fetched' \in Seq(Msg)
        /\ stream' = stream
    BY <1>1 DEF vars, IInv, Types, TypeOK
  <2> QED BY <1>1, <2>1, StreamSteps DEF vars
<1>2. ASSUME NEW x \in Msg, Publish(x) \/ Redeliver(x) PROVE IInv'
  <2>1. /\ stream' = [stream EXCEPT ![x] = "pending"]
        /\ UNCHANGED <<fetched, inbox, worker, baseline, findings, applied>>
    BY <1>2 DEF Publish, Redeliver
  <2>2. /\ stream' \in [Msg -> {"unpublished", "pending", "delivered", "done"}] /\ fetched' \in Seq(Msg)
        /\ \A y \in Msg \ Bad : stream'[y] = "done" => stream[y] = "done"
    BY <2>1 DEF IInv, Types, TypeOK
  <2> QED BY <2>1, <2>2, StreamSteps
<1>3. CASE Fetch
  BY <1>3, FetchPreserves
<1>4. CASE Dispatch
  BY <1>4, DispatchPreserves
<1>5. ASSUME NEW s \in Series, Plan(s) \/ TakeBatch(s) \/ FoldSample(s) \/ SaveBaseline(s) PROVE IInv'
  BY <1>5, PlanPreserves, TakeBatchPreserves, FoldSamplePreserves, SaveBaselinePreserves
<1>6. ASSUME NEW s \in Series, NEW x \in Msg, NEW acked \in BOOLEAN, Ack(s, x, acked) PROVE IInv'
  BY <1>6, AckPreserves
<1>7. CASE Restart
  BY <1>7, RestartPreserves
<1> QED BY <1>1, <1>2, <1>3, <1>4, <1>5, <1>6, <1>7 DEF Next

-----------------------------------------------------------------------------
(* The theorems *)

\* What the router, the goroutines, the baselines and the tables have of every
\* event stays consistent in every reachable state.
THEOREM Invariance == Spec => []IInv
BY InitIInv, NextPreserves, PTL DEF Spec

\* The variables have their types, and no inbox holds more than its channel.
THEOREM TypeCorrect == Spec => []TypeOK
<1>1. IInv => TypeOK
  BY DEF IInv, Types
<1> QED BY <1>1, Invariance, PTL

\* With any faults, the engine hears of a measurement at most once per monitor:
\* InsertFinding's unique key stands before ApplyFinding.
THEOREM FindingsAppliedOnce == Spec => []AppliedOnce
<1>1. IInv => AppliedOnce
  BY DEF IInv
<1> QED BY <1>1, Invariance, PTL

\* With any faults, a measurement counts at most once in a baseline, provided
\* that the column of the cursor keeps the timestamps as they are.
THEOREM SamplesFoldedOnce == ASSUME WholeTicks PROVE Spec => []FoldedOnce
<1>1. IInv => FoldedOnce
  BY DEF IInv, FoldedOf, Folded, FoldedOnce
<1> QED BY <1>1, Invariance, PTL

\* What is acknowledged is in every monitor's saved baseline, with crashes,
\* lost acknowledgements and timestamps of any resolution, provided that no
\* baseline fails to be read or saved: those errors the code only logs.
THEOREM AcknowledgedIsSaved == ASSUME Reliable PROVE Spec => []AckedIsSaved
<1>1. IInv => AckedIsSaved
  BY DEF IInv
<1> QED BY <1>1, Invariance, PTL

-----------------------------------------------------------------------------
(* The warm-up *)

\* The events that were published and decode.
Good == {x \in Msg \ Bad : stream[x] # "unpublished"}

\* What was folded into a baseline.
FoldedIn(b) == {x \in Msg : b.seen[x] > 0}

\* The packets an event tells of.
PacketsIn(y) == SampleOf[y].received + Lost(SampleOf[y])

\* The measurements and packets of P can be counted.
Sizes(P) == IsFiniteSet(Measurements(P)) /\ IsFiniteSet(Packets(P))

\* The counters of a baseline of series s and monitor m are those of what was folded into it.
Counted(b, s, m, P) ==
  /\ FoldedIn(b) \subseteq {x \in P : SeriesOf[x] = s}
  /\ b.state.n = Cardinality(Measurements(FoldedIn(b)))
  /\ m = "loss" => b.state.lost + b.state.received = Cardinality(Packets(FoldedIn(b)))

\* The events of P that are earlier than a finding of the series.
EarlierIn(row, P) == {y \in P : SeriesOf[y] = row[2] /\ Stored(TimeOf[y]) < row[3]}

\* P holds the warm-up of a finding.
Warm(row, P) ==
  IF row[1] = "loss"
  THEN Cardinality(Packets(EarlierIn(row, P))) >= LossWarmup
  ELSE /\ Cardinality(Measurements(EarlierIn(row, P))) >= 1
       /\ Cardinality(Measurements(EarlierIn(row, P))) >= EwmaWarmup

\* What the goroutine of series s has to fold was published.
ArrivedOf(s) ==
  /\ \A k \in DOMAIN inbox[s] : inbox[s][k] \in Good
  /\ \A k \in DOMAIN worker[s].batch : worker[s].batch[k] \in Good

CountedOf(s) ==
  \A m \in Monitor : Counted(worker[s].state[m], s, m, Good) /\ Counted(baseline[s][m], s, m, Good)

\* The invariant behind WarmedUp, beside IInv.
WarmInv ==
  /\ Sizes(Good)
  /\ \A k \in DOMAIN fetched : stream[fetched[k]] # "unpublished"
  /\ \A s \in Series : ArrivedOf(s) /\ CountedOf(s)
  /\ WarmedUp

\* A packet belongs to an event.
LEMMA PacketFacts ==
  ASSUME NEW A
  PROVE  \A z : z \in Packets(A) <=> \E y \in A : z \in {TimeOf[y]} \X (1..PacketsIn(y))
BY Zenon DEF Packets, PacketsIn

\* Fewer events are fewer measurements and packets.
LEMMA SmallerSizes ==
  ASSUME NEW B, NEW A, A \subseteq B, Sizes(B)
  PROVE  /\ Sizes(A)
         /\ Cardinality(Measurements(A)) \in Nat /\ Cardinality(Measurements(B)) \in Nat
         /\ Cardinality(Packets(A)) \in Nat /\ Cardinality(Packets(B)) \in Nat
         /\ Cardinality(Measurements(A)) <= Cardinality(Measurements(B))
         /\ Cardinality(Packets(A)) <= Cardinality(Packets(B))
<1>1. Measurements(A) \subseteq Measurements(B) /\ Packets(A) \subseteq Packets(B)
  BY Zenon DEF Measurements, Packets
<1>2. IsFiniteSet(Measurements(A)) /\ Cardinality(Measurements(A)) <= Cardinality(Measurements(B))
  BY <1>1, FS_Subset, Zenon DEF Sizes
<1>3. IsFiniteSet(Packets(A)) /\ Cardinality(Packets(A)) <= Cardinality(Packets(B))
  BY <1>1, FS_Subset, Zenon DEF Sizes
<1> QED BY <1>2, <1>3, FS_CardinalityType, Zenon DEF Sizes

LEMMA PacketsInType == \A y \in Msg : PacketsIn(y) \in Nat
<1> SUFFICES ASSUME NEW y \in Msg PROVE PacketsIn(y) \in Nat
  OBVIOUS
<1>1. SampleOf[y] \in [sent : Nat, received : Nat]
  BY WorkerAssumption
<1> QED BY <1>1 DEF PacketsIn, Lost

\* Another measurement, and its packets.
LEMMA OneMore ==
  ASSUME NEW A, Sizes(A), NEW x \in Msg
  PROVE  /\ Sizes(A \cup {x})
         /\ (\A y \in A : TimeOf[y] # TimeOf[x]) =>
              /\ Cardinality(Measurements(A \cup {x})) = Cardinality(Measurements(A)) + 1
              /\ Cardinality(Packets(A \cup {x})) = Cardinality(Packets(A)) + PacketsIn(x)
<1> DEFINE t == TimeOf[x]
           n == PacketsIn(x)
           own == {t} \X (1..n)
<1>1. Measurements(A \cup {x}) = Measurements(A) \cup {t}
  BY DEF Measurements
<1>2. Packets(A \cup {x}) = Packets(A) \cup own
  <2>1. \A z : z \in Packets(A \cup {x}) <=> z \in Packets(A) \/ z \in own
    <3>1. ASSUME NEW z
          PROVE  z \in Packets(A \cup {x}) <=>
                   \E y \in A \cup {x} : z \in {TimeOf[y]} \X (1..PacketsIn(y))
      BY PacketFacts, Zenon
    <3>2. ASSUME NEW z
          PROVE  z \in Packets(A) <=> \E y \in A : z \in {TimeOf[y]} \X (1..PacketsIn(y))
      BY PacketFacts, Zenon
    <3> QED BY <3>1, <3>2, Zenon
  <2> QED BY <2>1, Zenon
<1>3. n \in Nat
  BY PacketsInType
<1> HIDE DEF n, t
<1>4. IsFiniteSet(1..n) /\ Cardinality(1..n) = n
  <2>1. 1 \in Int /\ n \in Int
    BY <1>3
  <2>2. IsFiniteSet(1..n) /\ Cardinality(1..n) = IF 1 > n THEN 0 ELSE n - 1 + 1
    BY <2>1, FS_Interval, Zenon
  <2> QED BY <2>2, <1>3
<1>5. IsFiniteSet({t}) /\ Cardinality({t}) = 1
  BY FS_Singleton, Zenon
<1>6. IsFiniteSet(own) /\ Cardinality(own) = n
  <2>1. IsFiniteSet(own) /\ Cardinality(own) = Cardinality({t}) * Cardinality(1..n)
    BY <1>4, <1>5, FS_Product, Zenon
  <2> QED BY <2>1, <1>3, <1>4, <1>5
<1> HIDE DEF own
<1>7. IsFiniteSet(Measurements(A)) /\ IsFiniteSet(Packets(A))
  BY DEF Sizes
<1>8. /\ IsFiniteSet(Measurements(A) \cup {t})
      /\ t \notin Measurements(A) => Cardinality(Measurements(A) \cup {t}) = Cardinality(Measurements(A)) + 1
  BY <1>7, FS_AddElement
<1>9. /\ IsFiniteSet(Packets(A) \cup own)
      /\ Cardinality(Packets(A) \cup own) = Cardinality(Packets(A)) + Cardinality(own) - Cardinality(Packets(A) \cap own)
  BY <1>6, <1>7, FS_Union, Zenon
<1>10. Sizes(A \cup {x})
  BY <1>1, <1>2, <1>8, <1>9, Zenon DEF Sizes
<1>11. ASSUME \A y \in A : TimeOf[y] # TimeOf[x]
       PROVE  t \notin Measurements(A) /\ Packets(A) \cap own = {}
  <2>1. t \notin Measurements(A)
    BY <1>11, Zenon DEF Measurements, t
  <2>2. ASSUME NEW z, z \in Packets(A), z \in own PROVE FALSE
    <3>1. PICK y \in A : z \in {TimeOf[y]} \X (1..PacketsIn(y))
      BY <2>2, PacketFacts, Zenon
    <3>2. z[1] = TimeOf[y] /\ z[1] = t
      BY <3>1, <2>2 DEF own
    <3> QED BY <3>2, <1>11, Zenon DEF t
  <2> QED BY <2>1, <2>2, Zenon
<1>12. Cardinality({}) = 0 /\ Cardinality(Packets(A)) \in Nat
  BY <1>7, FS_EmptySet, FS_CardinalityType, Zenon
<1>13. ASSUME \A y \in A : TimeOf[y] # TimeOf[x]
       PROVE  /\ Cardinality(Measurements(A \cup {x})) = Cardinality(Measurements(A)) + 1
              /\ Cardinality(Packets(A \cup {x})) = Cardinality(Packets(A)) + PacketsIn(x)
  <2>1. t \notin Measurements(A) /\ Packets(A) \cap own = {}
    BY <1>11, <1>13, Zenon
  <2>2. Cardinality(Measurements(A \cup {x})) = Cardinality(Measurements(A)) + 1
    BY <2>1, <1>1, <1>8, Zenon
  <2>3. Cardinality(Packets(A \cup {x})) = Cardinality(Packets(A)) + n - 0
    BY <2>1, <1>2, <1>6, <1>9, <1>12, Zenon
  <2>4. Cardinality(Packets(A \cup {x})) = Cardinality(Packets(A)) + n
    BY <2>3, <1>3, <1>12
  <2> QED BY <2>2, <2>4 DEF n
<1> QED BY <1>10, <1>13, Zenon

\* A finding is warmed up by more events if it is by some.
LEMMA WarmMore ==
  ASSUME NEW row, NEW P, NEW Q, P \subseteq Q, Sizes(Q), Warm(row, P)
  PROVE  Warm(row, Q)
<1>1. EarlierIn(row, P) \subseteq EarlierIn(row, Q) /\ EarlierIn(row, Q) \subseteq Q
  BY DEF EarlierIn
<1> DEFINE a == EarlierIn(row, P)
           b == EarlierIn(row, Q)
<1>2. Sizes(b)
  BY <1>1, SmallerSizes, Zenon
<1>3. /\ Cardinality(Measurements(a)) \in Nat /\ Cardinality(Measurements(b)) \in Nat
      /\ Cardinality(Packets(a)) \in Nat /\ Cardinality(Packets(b)) \in Nat
      /\ Cardinality(Measurements(a)) <= Cardinality(Measurements(b))
      /\ Cardinality(Packets(a)) <= Cardinality(Packets(b))
  BY <1>1, <1>2, SmallerSizes, Zenon
<1>4. EwmaWarmup \in Nat /\ LossWarmup \in Nat
  BY DetectorAssumption
<1> HIDE DEF a, b
<1>5. IF row[1] = "loss" THEN Cardinality(Packets(a)) >= LossWarmup
      ELSE Cardinality(Measurements(a)) >= 1 /\ Cardinality(Measurements(a)) >= EwmaWarmup
  BY DEF Warm, a
<1>6. IF row[1] = "loss" THEN Cardinality(Packets(b)) >= LossWarmup
      ELSE Cardinality(Measurements(b)) >= 1 /\ Cardinality(Measurements(b)) >= EwmaWarmup
  BY <1>3, <1>4, <1>5
<1> QED BY <1>6 DEF Warm, b

\* The property in terms of the events published, in a state and in the next.
LEMMA WarmedUpIs == WarmedUp <=> \A row \in findings : Warm(row, Good)
<1>1. ASSUME NEW row
      PROVE  EarlierIn(row, Good) = {y \in Msg \ Bad : /\ stream[y] # "unpublished"
                                                       /\ SeriesOf[y] = row[2]
                                                       /\ Stored(TimeOf[y]) < row[3]}
  BY DEF EarlierIn, Good
<1> QED BY <1>1, Zenon DEF WarmedUp, Warm

LEMMA WarmedUpNext == WarmedUp' <=> \A row \in findings' : Warm(row, Good')
<1>1. ASSUME NEW row
      PROVE  EarlierIn(row, Good') = {y \in Msg \ Bad : /\ stream'[y] # "unpublished"
                                                        /\ SeriesOf[y] = row[2]
                                                        /\ Stored(TimeOf[y]) < row[3]}
  BY DEF EarlierIn, Good
<1> QED BY <1>1, Zenon DEF WarmedUp, Warm


\* What a baseline counts does not depend on its cursor.
LEMMA CountedSame ==
  ASSUME NEW b, NEW c, NEW s, NEW m, NEW P, NEW Q, Counted(b, s, m, P), P \subseteq Q,
         c.seen = b.seen, c.state = b.state
  PROVE  Counted(c, s, m, Q)
<1>1. FoldedIn(c) = FoldedIn(b)
  BY Zenon DEF FoldedIn
<1> QED BY <1>1, Zenon DEF Counted

\* A detector that has seen nothing.
LEMMA NothingCounted == ASSUME NEW s, NEW m, NEW P PROVE Counted(Empty, s, m, P)
<1>1. FoldedIn(Empty) = {}
  BY DEF FoldedIn, Empty
<1>2. Measurements({}) = {} /\ Packets({}) = {}
  BY Zenon DEF Measurements, Packets
<1>3. Empty.state.n = 0 /\ Empty.state.lost + Empty.state.received = 0
  BY SMTT(30) DEF Empty, NoState
<1> QED BY <1>1, <1>2, <1>3, FS_EmptySet, Zenon DEF Counted

\* A newer sample is counted, and if the detector speaks of it the warm-up is in the state.
LEMMA FoldCounts ==
  ASSUME WholeTicks, NEW m \in Monitor, NEW s, NEW P, P \subseteq Msg, Sizes(P),
         NEW b \in BaselineRec, NEW c, NEW x \in P, SeriesOf[x] = s,
         Folded(b), TimeOf[x] > b.cursor, Counted(b, s, m, P),
         NEW next \in Step(m, b.state, SampleOf[x]),
         c.state = next.state, c.seen = [b.seen EXCEPT ![x] = @ + 1]
  PROVE  /\ Counted(c, s, m, P)
         /\ next.found => Warm(<<m, s, Stored(TimeOf[x])>>, P)
<1> DEFINE A == FoldedIn(b)
<1>0. /\ x \in Msg /\ TimeOf \in [Msg -> Nat] /\ b.cursor \in Nat /\ b.seen \in [Msg -> Nat]
      /\ b.state \in StateRec /\ SampleOf[x] \in [sent : Nat, received : Nat]
  BY WorkerAssumption DEF BaselineRec
<1>1. FoldedIn(c) = A \cup {x}
  <2>1. c.seen[x] = b.seen[x] + 1 /\ \A y \in Msg : y # x => c.seen[y] = b.seen[y]
    BY <1>0
  <2>2. c.seen[x] > 0
    BY <2>1, <1>0, SMTT(30)
  <2>3. \A y \in Msg : y \in FoldedIn(c) <=> y \in A \/ y = x
    BY <2>1, <2>2 DEF FoldedIn
  <2>4. FoldedIn(c) \subseteq Msg /\ A \subseteq Msg
    BY DEF FoldedIn
  <2> HIDE DEF A
  <2> QED BY <2>3, <2>4, <1>0, Zenon
<1>2. A \subseteq {y \in P : SeriesOf[y] = s} /\ A \subseteq P
  BY Zenon DEF Counted
<1>3. \A y \in A : y \in Msg /\ TimeOf[y] <= b.cursor
  BY DEF FoldedIn, Folded
<1>4. Sizes(A)
  BY <1>2, SmallerSizes, Zenon
<1>5. /\ b.state.n = Cardinality(Measurements(A))
      /\ m = "loss" => b.state.lost + b.state.received = Cardinality(Packets(A))
  BY Zenon DEF Counted
<1> HIDE DEF A
<1>6. \A y \in A : TimeOf[y] # TimeOf[x] /\ TimeOf[y] < TimeOf[x]
  BY <1>0, <1>3
<1>7. /\ Cardinality(Measurements(A \cup {x})) = Cardinality(Measurements(A)) + 1
      /\ Cardinality(Packets(A \cup {x})) = Cardinality(Packets(A)) + PacketsIn(x)
  BY <1>0, <1>4, <1>6, OneMore, Zenon
<1>8. A \cup {x} \subseteq {y \in P : SeriesOf[y] = s}
  BY <1>2, Zenon
<1>9. next.state.n = b.state.n + 1
  <2>1. CASE m = "loss"
    BY <2>1 DEF Step, BetaBinomialStep
  <2>2. CASE m # "loss"
    BY <2>2, <1>0, SMTT(30) DEF Step, EwmaStep, StateRec
  <2> QED BY <2>1, <2>2, SMTT(30)
<1>10. ASSUME m = "loss"
       PROVE  next.state.lost + next.state.received = b.state.lost + b.state.received + PacketsIn(x)
  <2>1. /\ next.state.lost = b.state.lost + Lost(SampleOf[x])
        /\ next.state.received = b.state.received + SampleOf[x].received
    BY <1>10, SMTT(30) DEF Step, BetaBinomialStep
  <2>2. /\ b.state.lost \in Nat /\ b.state.received \in Nat
        /\ Lost(SampleOf[x]) \in Nat /\ SampleOf[x].received \in Nat
    BY <1>0 DEF StateRec, Lost
  <2> QED BY <2>1, <2>2, SMTT(30) DEF PacketsIn
<1>11. Counted(c, s, m, P)
  BY <1>1, <1>5, <1>7, <1>8, <1>9, <1>10, Zenon DEF Counted
<1>12. ASSUME next.found PROVE Warm(<<m, s, Stored(TimeOf[x])>>, P)
  <2> DEFINE row == <<m, s, Stored(TimeOf[x])>>
             E == EarlierIn(row, P)
  <2>1. row[1] = m /\ row[2] = s /\ row[3] = TimeOf[x]
    BY <1>0 DEF WholeTicks
  <2> HIDE DEF row
  <2>2. A \subseteq E /\ E \subseteq P
    <3>1. ASSUME NEW y \in A PROVE y \in E
      <4>1. y \in P /\ SeriesOf[y] = s /\ Stored(TimeOf[y]) = TimeOf[y]
        BY <1>2, <1>3, SMTT(30) DEF WholeTicks
      <4>2. Stored(TimeOf[y]) < row[3]
        BY <4>1, <2>1, <1>6
      <4> QED BY <4>1, <4>2, <2>1, SMTT(30) DEF EarlierIn
    <3> QED BY <3>1 DEF EarlierIn
  <2> HIDE DEF E
  <2>3. Sizes(E)
    BY <2>2, SmallerSizes, Zenon
  <2>4. /\ Cardinality(Measurements(A)) \in Nat /\ Cardinality(Measurements(E)) \in Nat
        /\ Cardinality(Packets(A)) \in Nat /\ Cardinality(Packets(E)) \in Nat
        /\ Cardinality(Measurements(A)) <= Cardinality(Measurements(E))
        /\ Cardinality(Packets(A)) <= Cardinality(Packets(E))
    BY <2>2, <2>3, SmallerSizes, Zenon
  <2>5. LossWarmup \in Nat /\ EwmaWarmup \in Nat
    BY DetectorAssumption
  <2>6. CASE m = "loss"
    <3>1. b.state.lost + b.state.received >= LossWarmup
      BY <1>12, <2>6, ZenonT(60) DEF Step, BetaBinomialStep
    <3>2. Cardinality(Packets(E)) >= LossWarmup
      BY <3>1, <2>4, <2>5, <2>6, <1>5
    <3> QED BY <3>2, <2>1, <2>6, ZenonT(60) DEF Warm, E, row
  <2>7. CASE m # "loss"
    <3>1. b.state.n > 0 /\ b.state.n >= EwmaWarmup
      BY <1>12, <2>7, ZenonT(60) DEF Step, EwmaStep
    <3>2. Cardinality(Measurements(E)) >= 1 /\ Cardinality(Measurements(E)) >= EwmaWarmup
      BY <3>1, <2>4, <2>5, <1>5
    <3> QED BY <3>2, <2>1, <2>7, Zenon DEF Warm, E, row
  <2> QED BY <2>6, <2>7, SMTT(30)
<1> QED BY <1>11, <1>12


\* A baseline that counts what one of the series did.
From(c, s, m) ==
  \E b \in {worker[s].state[m], baseline[s][m], Empty} : c.seen = b.seen /\ c.state = b.state

\* Steps that report nothing and fold nothing.
LEMMA WarmQuiet ==
  ASSUME WarmInv, Good \subseteq Good', Sizes(Good'), findings' = findings,
         \A k \in DOMAIN fetched' : stream'[fetched'[k]] # "unpublished",
         \A s \in Series : ArrivedOf(s)',
         \A s \in Series, m \in Monitor : From(worker'[s].state[m], s, m) /\ From(baseline'[s][m], s, m)
  PROVE  WarmInv'
<1>1. ASSUME NEW s \in Series, NEW m \in Monitor, NEW c, From(c, s, m) PROVE Counted(c, s, m, Good')
  <2>1. PICK b \in {worker[s].state[m], baseline[s][m], Empty} : c.seen = b.seen /\ c.state = b.state
    BY <1>1, Zenon DEF From
  <2>2. Counted(b, s, m, Good)
    BY <2>1, NothingCounted, Zenon DEF WarmInv, CountedOf
  <2> QED BY <2>1, <2>2, CountedSame, Zenon
<1>2. \A s \in Series : CountedOf(s)'
  BY <1>1, Zenon DEF CountedOf
<1>3. WarmedUp'
  <2>1. \A row \in findings : Warm(row, Good)
    BY WarmedUpIs DEF WarmInv
  <2>2. \A row \in findings' : Warm(row, Good')
    BY <2>1, WarmMore, Zenon
  <2>3. WarmedUp' <=> \A row \in findings' : Warm(row, Good')
    BY WarmedUpNext
  <2> QED BY <2>2, <2>3, ZenonT(60)
<1>4. Sizes(Good)'
  BY Zenon
<1> QED BY <1>2, <1>3, <1>4, Zenon DEF WarmInv

LEMMA WarmInitially == Init => WarmInv
<1> SUFFICES ASSUME Init PROVE WarmInv
  OBVIOUS
<1>1. Good = {}
  BY DEF Init, Good
<1>2. Sizes(Good)
  <2>1. Measurements({}) = {} /\ Packets({}) = {}
    BY Zenon DEF Measurements, Packets
  <2> QED BY <2>1, <1>1, FS_EmptySet, Zenon DEF Sizes
<1>3. \A k \in DOMAIN fetched : stream[fetched[k]] # "unpublished"
  <2>1. fetched = <<>>
    BY DEF Init
  <2> QED BY <2>1
<1>4. ASSUME NEW s \in Series PROVE ArrivedOf(s) /\ CountedOf(s)
  <2>1. worker[s] = NoWorker /\ inbox[s] = <<>> /\ \A m \in Monitor : baseline[s][m] = Empty
    BY Zenon DEF Init
  <2>2. DOMAIN NoWorker.batch = {} /\ \A m \in Monitor : NoWorker.state[m] = Empty
    BY EmptyFacts, Zenon
  <2>3. DOMAIN inbox[s] = {}
    BY <2>1
  <2>4. ArrivedOf(s)
    BY <2>1, <2>2, <2>3, Zenon DEF ArrivedOf
  <2>5. CountedOf(s)
    BY <2>1, <2>2, NothingCounted, Zenon DEF CountedOf
  <2> QED BY <2>4, <2>5
<1>5. WarmedUp
  BY DEF Init, WarmedUp
<1> QED BY <1>2, <1>3, <1>4, <1>5, Zenon DEF WarmInv

\* The events published stay published; Publish adds one.
LEMMA GoodGrows ==
  ASSUME IInv, IInv', WarmInv, [Next]_vars
  PROVE  Good \subseteq Good' /\ Sizes(Good')
         /\ \A x \in Msg : stream[x] # "unpublished" => stream'[x] # "unpublished"
<1>0. stream \in [Msg -> {"unpublished", "pending", "delivered", "done"}] /\ Sizes(Good)
  BY DEF IInv, Types, TypeOK, WarmInv
<1>1. ASSUME NEW x \in Msg, Publish(x)
      PROVE  /\ \A y \in Msg : stream[y] # "unpublished" => stream'[y] # "unpublished"
             /\ Good' = Good \/ Good' = Good \cup {x}
  BY <1>0, <1>1 DEF Publish, Good
<1>2. ASSUME \A y \in Msg : stream'[y] = "unpublished" <=> stream[y] = "unpublished"
      PROVE  Good' = Good
  BY <1>2 DEF Good
<1>3. \/ \E x \in Msg : Publish(x)
      \/ \A y \in Msg : stream'[y] = "unpublished" <=> stream[y] = "unpublished"
  <2>1. ASSUME NEW x \in Msg, Redeliver(x)
        PROVE  \A y \in Msg : stream'[y] = "unpublished" <=> stream[y] = "unpublished"
    BY <1>0, <2>1 DEF Redeliver
  <2>2. ASSUME Fetch
        PROVE  \A y \in Msg : stream'[y] = "unpublished" <=> stream[y] = "unpublished"
    <3>1. PICK some \in SUBSET {x \in Msg : stream[x] = "pending"} :
            stream' = [x \in Msg |-> IF x \in some THEN "delivered" ELSE stream[x]]
      BY <2>2, Zenon DEF Fetch
    <3> QED BY <1>0, <3>1
  <2>3. ASSUME Dispatch
        PROVE  \A y \in Msg : stream'[y] = "unpublished" <=> stream[y] = "unpublished"
    <3>1. \/ stream' = stream
          \/ fetched # <<>> /\ stream' = [stream EXCEPT ![Head(fetched)] = "done"]
      BY <2>3, Zenon DEF Dispatch
    <3>2. fetched # <<>> => stream[Head(fetched)] # "unpublished" /\ Head(fetched) \in Msg
      BY DEF WarmInv, IInv, Types, TypeOK
    <3> QED BY <1>0, <3>1, <3>2
  <2>4. ASSUME NEW s \in Series, Plan(s) \/ TakeBatch(s) \/ FoldSample(s) \/ SaveBaseline(s)
        PROVE  stream' = stream
    BY <2>4, Zenon DEF Plan, TakeBatch, FoldSample, SaveBaseline
  <2>5. ASSUME NEW s \in Series, NEW x \in Msg, NEW acked \in BOOLEAN, Ack(s, x, acked)
        PROVE  \A y \in Msg : stream'[y] = "unpublished" <=> stream[y] = "unpublished"
    <3>1. stream' = stream \/ stream' = [stream EXCEPT ![x] = "done"]
      BY <2>5, Zenon DEF Ack
    <3>2. stream[x] # "unpublished"
      <4>1. worker[s].batch \in Seq(Msg) /\ worker[s].phase = "ack" /\ x = Head(worker[s].batch)
        BY <2>5 DEF IInv, Types, TypeOK, Ack
      <4>2. Len(worker[s].batch) > 0
        BY <4>1 DEF IInv, Types, Position
      <4>3. 1 \in DOMAIN worker[s].batch /\ x = worker[s].batch[1]
        BY <4>1, <4>2
      <4>4. x \in Good
        BY <4>3, Zenon DEF WarmInv, ArrivedOf
      <4> QED BY <4>4 DEF Good
    <3> QED BY <1>0, <3>1, <3>2
  <2>6. ASSUME Restart \/ UNCHANGED vars PROVE stream' = stream
    BY <2>6 DEF Restart, vars
  <2> QED BY <2>1, <2>2, <2>3, <2>4, <2>5, <2>6, Zenon DEF Next
<1>4. CASE \E x \in Msg : Publish(x)
  <2>1. PICK x \in Msg : Publish(x)
    BY <1>4
  <2>2. /\ \A y \in Msg : stream[y] # "unpublished" => stream'[y] # "unpublished"
        /\ Good' = Good \/ Good' = Good \cup {x}
    BY <2>1, <1>1, Zenon
  <2>3. Sizes(Good \cup {x})
    BY <1>0, OneMore, Zenon
  <2> QED BY <2>2, <2>3, <1>0, Zenon
<1>5. CASE \A y \in Msg : stream'[y] = "unpublished" <=> stream[y] = "unpublished"
  <2>1. Good' = Good
    BY <1>5, <1>2, Zenon
  <2> QED BY <1>5, <2>1, <1>0, Zenon
<1> QED BY <1>3, <1>4, <1>5, Zenon


\* Steps that leave the states of the detectors alone.
LEMMA WarmMoves ==
  ASSUME IInv, IInv', WarmInv, [Next]_vars, UNCHANGED <<baseline, findings>>,
         \A k \in DOMAIN fetched' : stream[fetched'[k]] # "unpublished" /\ fetched'[k] \in Msg,
         \A s \in Series :
           /\ worker'[s].state = worker[s].state
           /\ \A k \in DOMAIN inbox'[s] : inbox'[s][k] \in Good
           /\ \A k \in DOMAIN worker'[s].batch : worker'[s].batch[k] \in Good
  PROVE  WarmInv'
<1>1. /\ Good \subseteq Good' /\ Sizes(Good')
      /\ \A x \in Msg : stream[x] # "unpublished" => stream'[x] # "unpublished"
  BY GoodGrows, Zenon
<1>2. \A s \in Series : ArrivedOf(s)'
  BY <1>1, Zenon DEF ArrivedOf
<1>3. \A s \in Series, m \in Monitor : From(worker'[s].state[m], s, m) /\ From(baseline'[s][m], s, m)
  BY Zenon DEF From
<1>4. \A k \in DOMAIN fetched' : stream'[fetched'[k]] # "unpublished"
  BY <1>1, Zenon
<1>5. findings' = findings
  OBVIOUS
<1> QED BY <1>1, <1>2, <1>3, <1>4, <1>5, WarmQuiet, Zenon

\* Steps of the stream and the router.
LEMMA WarmRouter ==
  ASSUME IInv, IInv', WarmInv, Fetch \/ Dispatch \/ (\E x \in Msg : Publish(x) \/ Redeliver(x))
  PROVE  WarmInv'
<1>0. [Next]_vars
  BY Zenon DEF Next
<1>1. /\ \A s \in Series : ArrivedOf(s)
      /\ \A k \in DOMAIN fetched : stream[fetched[k]] # "unpublished" /\ fetched[k] \in Msg
      /\ fetched \in Seq(Msg)
  BY DEF WarmInv, IInv, Types, TypeOK
<1>2. CASE \E x \in Msg : Publish(x) \/ Redeliver(x)
  <2>1. UNCHANGED <<fetched, inbox, worker, baseline, findings>>
    BY <1>2, Zenon DEF Publish, Redeliver
  <2>2. /\ \A k \in DOMAIN fetched' : stream[fetched'[k]] # "unpublished" /\ fetched'[k] \in Msg
        /\ \A s \in Series :
             /\ worker'[s].state = worker[s].state
             /\ \A k \in DOMAIN inbox'[s] : inbox'[s][k] \in Good
             /\ \A k \in DOMAIN worker'[s].batch : worker'[s].batch[k] \in Good
    BY <1>1, <2>1, Zenon DEF ArrivedOf
  <2> QED BY <1>0, <2>1, <2>2, WarmMoves, Zenon
<1>3. CASE Fetch
  <2>1. UNCHANGED <<inbox, worker, baseline, findings>>
    BY <1>3, Zenon DEF Fetch
  <2>2. PICK some \in SUBSET {x \in Msg : stream[x] = "pending"} :
          fetched' \in Bijection(1..Cardinality(some), some)
    BY <1>3, Zenon DEF Fetch
  <2>3. \A k \in DOMAIN fetched' : fetched'[k] \in some
    BY <2>2 DEF Bijection, Injection, Surjection
  <2>4. \A k \in DOMAIN fetched' : stream[fetched'[k]] # "unpublished" /\ fetched'[k] \in Msg
    BY <2>3
  <2>5. \A s \in Series :
             /\ worker'[s].state = worker[s].state
             /\ \A k \in DOMAIN inbox'[s] : inbox'[s][k] \in Good
             /\ \A k \in DOMAIN worker'[s].batch : worker'[s].batch[k] \in Good
    BY <1>1, <2>1, Zenon DEF ArrivedOf
  <2> QED BY <1>0, <2>1, <2>4, <2>5, WarmMoves, Zenon
<1>4. CASE Dispatch
  <2>1. UNCHANGED <<baseline, findings>> /\ fetched # <<>> /\ fetched' = Tail(fetched)
    BY <1>4, Zenon DEF Dispatch
  <2>2. \A k \in DOMAIN fetched' : stream[fetched'[k]] # "unpublished" /\ fetched'[k] \in Msg
    <3>1. ASSUME NEW k \in DOMAIN fetched' PROVE k + 1 \in DOMAIN fetched /\ fetched'[k] = fetched[k + 1]
      BY <1>1, <2>1
    <3> QED BY <3>1, <1>1, Zenon
  <2>3. PICK x : x = Head(fetched)
    BY Zenon
  <2>4. x \in Msg /\ stream[x] # "unpublished"
    <3>1. 1 \in DOMAIN fetched /\ x = fetched[1]
      BY <1>1, <2>1, <2>3
    <3> QED BY <3>1, <1>1, Zenon
  <2>5. CASE x \in Bad
    <3>1. UNCHANGED <<inbox, worker>>
      BY <1>4, <2>3, <2>5, Zenon DEF Dispatch
    <3>2. \A s \in Series :
             /\ worker'[s].state = worker[s].state
             /\ \A k \in DOMAIN inbox'[s] : inbox'[s][k] \in Good
             /\ \A k \in DOMAIN worker'[s].batch : worker'[s].batch[k] \in Good
      BY <1>1, <3>1, Zenon DEF ArrivedOf
    <3> QED BY <1>0, <2>1, <2>2, <3>2, WarmMoves, Zenon
  <2>6. CASE x \notin Bad
    <3>1. PICK r : r = SeriesOf[x]
      BY Zenon
    <3>2. /\ inbox' = [inbox EXCEPT ![r] = Append(@, x)]
          /\ worker' = IF worker[r].phase = "none" THEN [worker EXCEPT ![r].phase = "plan"] ELSE worker
      BY <1>4, <2>3, <2>6, <3>1, Zenon DEF Dispatch
    <3>3. x \in Good /\ r \in Series
      BY <2>4, <2>6, <3>1, WorkerAssumption, SMTT(30) DEF Good
    <3>4. worker \in [Series -> WorkerRec] /\ inbox \in [Series -> Seq(Msg)]
      BY DEF IInv, Types, TypeOK
    <3>5. ASSUME NEW s \in Series
          PROVE  worker'[s].state = worker[s].state /\ worker'[s].batch = worker[s].batch
      BY <3>2, <3>3, <3>4 DEF WorkerRec
    <3>6. ASSUME NEW s \in Series, NEW k \in DOMAIN inbox'[s] PROVE inbox'[s][k] \in Good
      <4>1. CASE s # r
        <5>1. inbox'[s] = inbox[s]
          BY <4>1, <3>2, <3>3, <3>4
        <5> QED BY <5>1, <3>6, <1>1, Zenon DEF ArrivedOf
      <4>2. CASE s = r
        <5>1. inbox'[s] = Append(inbox[s], x) /\ inbox[s] \in Seq(Msg)
          BY <4>2, <3>2, <3>3, <3>4
        <5>2. (k \in DOMAIN inbox[s] /\ inbox'[s][k] = inbox[s][k]) \/ inbox'[s][k] = x
          BY <5>1, <3>6, <2>4
        <5> QED BY <5>2, <3>3, <1>1, Zenon DEF ArrivedOf
      <4> QED BY <4>1, <4>2
    <3>7. \A s \in Series :
             /\ worker'[s].state = worker[s].state
             /\ \A k \in DOMAIN inbox'[s] : inbox'[s][k] \in Good
             /\ \A k \in DOMAIN worker'[s].batch : worker'[s].batch[k] \in Good
      BY <1>1, <3>5, <3>6, ZenonT(60) DEF ArrivedOf
    <3> QED BY <1>0, <2>1, <2>2, <3>7, WarmMoves, Zenon
  <2> QED BY <2>5, <2>6
<1> QED BY <1>2, <1>3, <1>4


\* Steps of goroutines that neither fold nor report.
LEMMA WarmWorker ==
  ASSUME IInv, IInv', WarmInv, NEW s \in Series,
         TakeBatch(s) \/ Plan(s) \/ SaveBaseline(s)
           \/ (\E x \in Msg, acked \in BOOLEAN : Ack(s, x, acked))
  PROVE  WarmInv'
<1>0. [Next]_vars
  BY Zenon DEF Next
<1>1. /\ \A r \in Series : ArrivedOf(r)
      /\ \A k \in DOMAIN fetched : stream[fetched[k]] # "unpublished" /\ fetched[k] \in Msg
      /\ worker \in [Series -> WorkerRec] /\ inbox \in [Series -> Seq(Msg)]
      /\ baseline \in [Series -> [Monitor -> BaselineRec]]
  BY DEF WarmInv, IInv, Types, TypeOK
<1>2. fetched' = fetched /\ findings' = findings
  BY Zenon DEF TakeBatch, Plan, SaveBaseline, Ack
<1>3. /\ Good \subseteq Good' /\ Sizes(Good')
      /\ \A x \in Msg : stream[x] # "unpublished" => stream'[x] # "unpublished"
  BY <1>0, GoodGrows, Zenon
<1>4. \A k \in DOMAIN fetched' : stream'[fetched'[k]] # "unpublished"
  BY <1>1, <1>2, <1>3, Zenon
<1>5. SUFFICES /\ \A r \in Series :
                    /\ \A k \in DOMAIN inbox'[r] : inbox'[r][k] \in Good
                    /\ \A k \in DOMAIN worker'[r].batch : worker'[r].batch[k] \in Good
               /\ \A r \in Series, m \in Monitor :
                    From(worker'[r].state[m], r, m) /\ From(baseline'[r][m], r, m)
  <2>1. ASSUME \A r \in Series :
                    /\ \A k \in DOMAIN inbox'[r] : inbox'[r][k] \in Good
                    /\ \A k \in DOMAIN worker'[r].batch : worker'[r].batch[k] \in Good
        PROVE  \A r \in Series : ArrivedOf(r)'
    BY <2>1, <1>3, Zenon DEF ArrivedOf
  <2> QED BY <2>1, <1>2, <1>3, <1>4, WarmQuiet, Zenon
<1>6. ASSUME NEW r \in Series, NEW m \in Monitor
      PROVE  From(worker[r].state[m], r, m) /\ From(baseline[r][m], r, m)
  BY Zenon DEF From
<1>7. CASE TakeBatch(s)
  <2>1. baseline' = baseline /\ inbox' = [inbox EXCEPT ![s] = <<>>]
    BY <1>7, Zenon DEF TakeBatch
  <2>2. \A r \in Series : worker'[r].state = worker[r].state
    BY <1>1, <1>7 DEF TakeBatch, WorkerRec
  <2>3. worker'[s].batch = inbox[s] /\ \A r \in Series : r # s => worker'[r] = worker[r]
    BY <1>1, <1>7, SMTT(30) DEF TakeBatch, WorkerRec
  <2>4. inbox'[s] = <<>> /\ \A r \in Series : r # s => inbox'[r] = inbox[r]
    BY <1>1, <2>1
  <2>5. DOMAIN inbox'[s] = {}
    BY <2>4
  <2>6. ASSUME NEW r \in Series
        PROVE  /\ \A k \in DOMAIN inbox'[r] : inbox'[r][k] \in Good
               /\ \A k \in DOMAIN worker'[r].batch : worker'[r].batch[k] \in Good
    BY <1>1, <2>3, <2>4, <2>5, Zenon DEF ArrivedOf
  <2> QED BY <1>6, <2>1, <2>2, <2>6, Zenon
<1>8. CASE Plan(s)
  <2>1. PICK unread \in SUBSET Monitor :
          worker' = [worker EXCEPT ![s].phase = "idle",
                                   ![s].plan = Without(Monitors, unread),
                                   ![s].state = baseline[s]]
    BY <1>8, Zenon DEF Plan
  <2>2. inbox' = inbox /\ baseline' = baseline
    BY <1>8, Zenon DEF Plan
  <2>3. /\ worker'[s].state = baseline[s] /\ worker'[s].batch = worker[s].batch
        /\ \A r \in Series : r # s => worker'[r] = worker[r]
    <3>1. PICK plan : plan = Without(Monitors, unread)
      BY Zenon
    <3>2. worker' = [worker EXCEPT ![s].phase = "idle", ![s].plan = plan, ![s].state = baseline[s]]
      BY <2>1, <3>1, Zenon
    <3> QED BY <1>1, <3>2 DEF WorkerRec
  <2>4. \A r \in Series :
          /\ \A k \in DOMAIN inbox'[r] : inbox'[r][k] \in Good
          /\ \A k \in DOMAIN worker'[r].batch : worker'[r].batch[k] \in Good
    BY <1>1, <2>2, <2>3, Zenon DEF ArrivedOf
  <2>5. ASSUME NEW r \in Series, NEW m \in Monitor PROVE From(worker'[r].state[m], r, m)
    BY <1>6, <2>3, Zenon DEF From
  <2> QED BY <1>6, <2>2, <2>4, <2>5, Zenon
<1>9. CASE SaveBaseline(s)
  <2>1. PICK w, m : w = worker[s] /\ m = w.plan[w.mon]
    OBVIOUS
  <2>2. inbox' = inbox
    BY <1>9, Zenon DEF SaveBaseline
  <2>3. w \in WorkerRec /\ m \in Monitor /\ w.state[m] \in BaselineRec
    <3>1. w \in WorkerRec /\ w.phase = "fold"
      BY <1>1, <1>9, <2>1, ZenonT(60) DEF SaveBaseline
    <3>2. w.mon \in 1..Len(w.plan)
      BY <2>1, <3>1 DEF IInv, Types, Position
    <3> QED BY <2>1, <3>1, <3>2 DEF WorkerRec
  <2>4. \A r \in Series : worker'[r].state = worker[r].state /\ worker'[r].batch = worker[r].batch
    <3>1. \/ worker' = [worker EXCEPT ![s].mon = @ + 1, ![s].pos = 1,
                                      ![s].start = w.state[w.plan[w.mon + 1]].cursor]
          \/ worker' = [worker EXCEPT ![s].phase = "ack"]
      BY <1>9, <2>1, Zenon DEF SaveBaseline
    <3>2. PICK n, t : n = w.mon + 1 /\ t = w.state[w.plan[w.mon + 1]].cursor
      BY Zenon
    <3>3. CASE worker' = [worker EXCEPT ![s].mon = @ + 1, ![s].pos = 1,
                                        ![s].start = w.state[w.plan[w.mon + 1]].cursor]
      <4>1. worker' = [worker EXCEPT ![s].mon = n, ![s].pos = 1, ![s].start = t]
        BY <2>1, <3>2, <3>3, Zenon
      <4> QED BY <1>1, <4>1 DEF WorkerRec
    <3>4. CASE worker' = [worker EXCEPT ![s].phase = "ack"]
      BY <1>1, <3>4 DEF WorkerRec
    <3> QED BY <3>1, <3>3, <3>4
  <2>5. \/ baseline' = [baseline EXCEPT ![s][m] = [w.state[m] EXCEPT !.cursor = Stored(@)]]
        \/ baseline' = baseline
    BY <1>9, <2>1, Zenon DEF SaveBaseline
  <2>6. ASSUME NEW r \in Series, NEW n \in Monitor PROVE From(baseline'[r][n], r, n)
    <3>1. CASE baseline' = baseline
      BY <1>6, <3>1, Zenon
    <3>2. CASE baseline' = [baseline EXCEPT ![s][m] = [w.state[m] EXCEPT !.cursor = Stored(@)]]
      <4>1. PICK b : b = [w.state[m] EXCEPT !.cursor = Stored(@)]
        BY ZenonT(60)
      <4>2. b.seen = w.state[m].seen /\ b.state = w.state[m].state
        BY <2>3, <4>1 DEF BaselineRec
      <4>3. baseline' = [baseline EXCEPT ![s][m] = b]
        BY <3>2, <4>1, Zenon
      <4>4. CASE r = s /\ n = m
        <5>1. baseline'[r][n] = b
          BY <1>1, <2>3, <4>3, <4>4
        <5> QED BY <2>1, <4>2, <4>4, <5>1, Zenon DEF From
      <4>5. CASE ~(r = s /\ n = m)
        <5>1. baseline'[r][n] = baseline[r][n]
          BY <1>1, <2>3, <4>3, <4>5
        <5> QED BY <1>6, <5>1, Zenon
      <4> QED BY <4>4, <4>5
    <3> QED BY <2>5, <3>1, <3>2
  <2>7. \A r \in Series :
          /\ \A k \in DOMAIN inbox'[r] : inbox'[r][k] \in Good
          /\ \A k \in DOMAIN worker'[r].batch : worker'[r].batch[k] \in Good
    BY <1>1, <2>2, <2>4, Zenon DEF ArrivedOf
  <2> QED BY <1>6, <2>4, <2>6, <2>7, Zenon
<1>10. CASE \E x \in Msg, acked \in BOOLEAN : Ack(s, x, acked)
  <2>1. PICK x \in Msg, acked \in BOOLEAN : Ack(s, x, acked)
    BY <1>10, Zenon
  <2>2. /\ inbox' = inbox /\ baseline' = baseline /\ worker[s].phase = "ack"
        /\ worker' = [worker EXCEPT ![s].batch = Tail(@),
                                    ![s].phase = IF Len(worker[s].batch) = 1 THEN "idle" ELSE "ack"]
    BY <2>1, Zenon DEF Ack
  <2>3. PICK phase, batch : phase = (IF Len(worker[s].batch) = 1 THEN "idle" ELSE "ack") /\ batch = Tail(worker[s].batch)
    BY Zenon
  <2>4. worker' = [worker EXCEPT ![s].batch = batch, ![s].phase = phase]
    BY <2>2, <2>3, Zenon
  <2>5. /\ worker'[s].batch = batch /\ \A r \in Series : worker'[r].state = worker[r].state
        /\ \A r \in Series : r # s => worker'[r] = worker[r]
    BY <1>1, <2>4, SMTT(30) DEF WorkerRec
  <2>6. ASSUME NEW k \in DOMAIN batch PROVE batch[k] \in Good
    <3>1. worker[s].batch \in Seq(Msg) /\ Len(worker[s].batch) > 0
      BY <1>1, <2>2 DEF IInv, Types, Position, WorkerRec
    <3>2. k + 1 \in DOMAIN worker[s].batch /\ batch[k] = worker[s].batch[k + 1]
      BY <2>3, <2>6, <3>1
    <3> QED BY <1>1, <3>2, Zenon DEF ArrivedOf
  <2>7. \A r \in Series :
          /\ \A k \in DOMAIN inbox'[r] : inbox'[r][k] \in Good
          /\ \A k \in DOMAIN worker'[r].batch : worker'[r].batch[k] \in Good
    BY <1>1, <2>2, <2>5, <2>6, Zenon DEF ArrivedOf
  <2> QED BY <1>6, <2>2, <2>5, <2>7, Zenon
<1> QED BY <1>7, <1>8, <1>9, <1>10, ZenonT(60)

\* A restart loses the goroutines' states and keeps the rows.
LEMMA WarmRestart ==
  ASSUME IInv, IInv', WarmInv, Restart \/ UNCHANGED vars
  PROVE  WarmInv'
<1>0. [Next]_vars
  BY Zenon DEF Next
<1>1. /\ Good \subseteq Good' /\ Sizes(Good')
      /\ \A x \in Msg : stream[x] # "unpublished" => stream'[x] # "unpublished"
  BY <1>0, GoodGrows, Zenon
<1>2. /\ \A r \in Series : ArrivedOf(r)
      /\ \A k \in DOMAIN fetched : stream[fetched[k]] # "unpublished" /\ fetched[k] \in Msg
  BY DEF WarmInv, IInv, Types, TypeOK
<1>3. CASE Restart
  <2>1. PICK empty : empty = <<>>
    OBVIOUS
  <2>2. /\ fetched' = empty /\ inbox' = [s \in Series |-> empty] /\ worker' = [s \in Series |-> NoWorker]
        /\ UNCHANGED <<stream, baseline, findings>> /\ DOMAIN empty = {}
    BY <1>3, <2>1 DEF Restart
  <2>3. \A s \in Series : worker'[s] = NoWorker /\ DOMAIN inbox'[s] = {}
    BY <2>2, Zenon
  <2>4. \A s \in Series : ArrivedOf(s)'
    BY <2>3, EmptyFacts, Zenon DEF ArrivedOf
  <2>5. \A s \in Series, m \in Monitor : From(worker'[s].state[m], s, m) /\ From(baseline'[s][m], s, m)
    BY <2>2, <2>3, EmptyFacts, Zenon DEF From
  <2>6. \A k \in DOMAIN fetched' : stream'[fetched'[k]] # "unpublished"
    BY <2>2, Zenon
  <2>7. findings' = findings
    BY <2>2
  <2> QED BY <1>1, <2>4, <2>5, <2>6, <2>7, WarmQuiet, Zenon
<1>4. CASE UNCHANGED vars
  <2>1. UNCHANGED <<stream, fetched, inbox, worker, baseline, findings>>
    BY <1>4 DEF vars
  <2>2. \A s \in Series : ArrivedOf(s)'
    BY <1>1, <1>2, <2>1, Zenon DEF ArrivedOf
  <2>3. \A s \in Series, m \in Monitor : From(worker'[s].state[m], s, m) /\ From(baseline'[s][m], s, m)
    BY <2>1, Zenon DEF From
  <2>4. \A k \in DOMAIN fetched' : stream'[fetched'[k]] # "unpublished"
    BY <1>2, <2>1, Zenon
  <2> QED BY <1>1, <2>1, <2>2, <2>3, <2>4, WarmQuiet, Zenon
<1> QED BY <1>3, <1>4


\* A sample that is folded counts; one that is skipped changes nothing.
LEMMA WarmFold ==
  ASSUME WholeTicks, IInv, IInv', WarmInv, NEW s \in Series, FoldSample(s)
  PROVE  WarmInv'
<1>1. PICK w, m, x : w = worker[s] /\ m = w.plan[w.mon] /\ x = w.batch[w.pos]
  BY Zenon
<1>2. /\ w \in WorkerRec /\ w.phase = "fold"
      /\ w.mon \in 1..Len(w.plan) /\ w.pos \in DOMAIN w.batch
      /\ UNCHANGED <<stream, fetched, inbox, baseline>>
  <2>1. w \in WorkerRec /\ w.phase = "fold" /\ w.pos <= Len(w.batch) /\ UNCHANGED <<stream, fetched, inbox, baseline>>
    BY <1>1, ZenonT(60) DEF FoldSample, IInv, Types
  <2>2. w.mon \in 1..Len(w.plan) /\ w.pos \in 1..Len(w.batch) + 1
    BY <1>1, <2>1 DEF IInv, Types, Position
  <2> QED BY <2>1, <2>2 DEF WorkerRec
<1>3. m \in Monitor /\ x \in Good /\ x \in Msg /\ SeriesOf[x] = s /\ TimeOf[x] \in Nat
  <2>1. m \in Monitor /\ x \in Msg
    BY <1>1, <1>2 DEF WorkerRec
  <2>2. SeriesOf[x] = s /\ x \in Good
    BY <1>1, <1>2, Zenon DEF IInv, RoutedOf, WarmInv, ArrivedOf
  <2> QED BY <2>1, <2>2, WorkerAssumption, SMTT(30)
<1>4. Good' = Good /\ Good \subseteq Msg /\ Sizes(Good)
  BY <1>2, SMTT(30) DEF Good, WarmInv
<1>5. worker \in [Series -> WorkerRec] /\ \A r \in Series : ArrivedOf(r) /\ CountedOf(r)
  BY SMTT(30) DEF IInv, Types, WarmInv
<1>6. \A row \in findings : Warm(row, Good)
  BY WarmedUpIs DEF WarmInv
<1>7. \A k \in DOMAIN fetched' : stream'[fetched'[k]] # "unpublished"
  BY <1>2, Zenon DEF WarmInv
<1>p. PICK p \in Nat : p = w.pos + 1
  BY <1>2 DEF WorkerRec
<1>8. CASE TimeOf[x] <= w.state[m].cursor
  <2>1. worker' = [worker EXCEPT ![s].pos = @ + 1] /\ findings' = findings
    BY <1>1, <1>8, Zenon DEF FoldSample
  <2>2. worker' = [worker EXCEPT ![s].pos = p]
    BY <1>1, <1>p, <2>1, Zenon
  <2>3. \A r \in Series : worker'[r].state = worker[r].state /\ worker'[r].batch = worker[r].batch
    BY <1>5, <2>2 DEF WorkerRec
  <2>4. \A r \in Series : ArrivedOf(r)'
    BY <1>2, <1>4, <1>5, <2>3, Zenon DEF ArrivedOf
  <2>5. \A r \in Series, n \in Monitor : From(worker'[r].state[n], r, n) /\ From(baseline'[r][n], r, n)
    BY <1>2, <2>3, Zenon DEF From
  <2>6. Good \subseteq Good' /\ Sizes(Good')
    BY <1>4, Zenon
  <2> QED BY <1>7, <2>1, <2>4, <2>5, <2>6, WarmQuiet, Zenon
<1>9. CASE ~(TimeOf[x] <= w.state[m].cursor)
  <2>1. PICK next \in Step(m, w.state[m].state, SampleOf[x]) :
          /\ worker' = [worker EXCEPT ![s].pos = @ + 1,
                                      ![s].state[m] = [cursor |-> TimeOf[x], state |-> next.state,
                                                       seen |-> [w.state[m].seen EXCEPT ![x] = @ + 1]]]
          /\ IF next.found THEN Report(m, s, x) ELSE UNCHANGED <<findings, applied>>
    BY <1>1, <1>9, Zenon DEF FoldSample
  <2>2. PICK c : c = [cursor |-> TimeOf[x], state |-> next.state,
                      seen |-> [w.state[m].seen EXCEPT ![x] = @ + 1]]
    BY Zenon
  <2>3. c.state = next.state /\ c.seen = [w.state[m].seen EXCEPT ![x] = @ + 1]
    BY <2>2, Zenon
  <2>4. worker' = [worker EXCEPT ![s].pos = p, ![s].state[m] = c]
    BY <1>1, <1>p, <2>1, <2>2, ZenonT(60)
  <2>5. /\ worker'[s].batch = w.batch /\ worker'[s].state = [w.state EXCEPT ![m] = c]
        /\ \A r \in Series : r # s => worker'[r] = worker[r]
    BY <1>1, <1>5, <2>4, ZenonT(60) DEF WorkerRec
  <2>6. worker'[s].state[m] = c /\ \A n \in Monitor : n # m => worker'[s].state[n] = w.state[n]
    <3>1. w.state \in [Monitor -> BaselineRec]
      BY <1>2, ZenonT(60) DEF WorkerRec
    <3> QED BY <1>3, <2>5, <3>1
  <2>7. w.state[m] \in BaselineRec /\ w.state[m].cursor \in Nat
    BY <1>2, <1>3, ZenonT(60) DEF WorkerRec, BaselineRec
  <2>8. TimeOf[x] > w.state[m].cursor
    BY <1>3, <1>9, <2>7
  <2>9. Folded(w.state[m]) /\ Counted(w.state[m], s, m, Good)
    BY <1>1, <1>3, <1>5, Zenon DEF IInv, FoldedOf, CountedOf
  <2>10. Counted(c, s, m, Good) /\ (next.found => Warm(<<m, s, Stored(TimeOf[x])>>, Good))
    BY <1>3, <1>4, <2>3, <2>7, <2>8, <2>9, FoldCounts, ZenonT(60)
  <2>11. findings' = findings \/ (next.found /\ findings' = findings \cup {<<m, s, Stored(TimeOf[x])>>})
    <3>1. CASE next.found
      <4>1. Report(m, s, x)
        BY <2>1, <3>1, Zenon
      <4>2. findings' = findings \/ findings' = findings \cup {<<m, s, Stored(TimeOf[x])>>}
        BY <4>1 DEF Report
      <4> QED BY <3>1, <4>2, Zenon
    <3>2. CASE ~next.found
      <4>1. UNCHANGED <<findings, applied>>
        BY <2>1, <3>2, Zenon
      <4>2. findings' = findings
        BY <4>1
      <4> QED BY <4>2, Zenon
    <3> QED BY <3>1, <3>2
  <2>12. \A row \in findings' : Warm(row, Good)
    BY <1>6, <2>10, <2>11, Zenon
  <2>13. WarmedUp'
    BY <1>4, <2>12, WarmedUpNext, Zenon
  <2>14. ASSUME NEW r \in Series PROVE ArrivedOf(r)'
    <3>1. worker'[r].batch = worker[r].batch
      BY <1>1, <2>5, Zenon
    <3>2. ArrivedOf(r)
      BY <1>5, ZenonT(60)
    <3> QED BY <1>2, <1>4, <3>1, <3>2, Zenon DEF ArrivedOf
  <2>15. ASSUME NEW r \in Series, NEW n \in Monitor
         PROVE  Counted(worker'[r].state[n], r, n, Good') /\ Counted(baseline'[r][n], r, n, Good')
    <3>1. Counted(worker[r].state[n], r, n, Good) /\ Counted(baseline[r][n], r, n, Good)
      BY <1>5, Zenon DEF CountedOf
    <3>2. CASE r = s /\ n = m
      BY <1>2, <1>4, <2>6, <2>10, <3>1, <3>2, Zenon
    <3>3. CASE ~(r = s /\ n = m)
      <4>1. worker'[r].state[n] = worker[r].state[n]
        BY <1>1, <2>5, <2>6, <3>3, Zenon
      <4> QED BY <1>2, <1>4, <3>1, <4>1, Zenon
    <3> QED BY <3>2, <3>3
  <2>16. \A r \in Series : CountedOf(r)'
    BY <2>15, Zenon DEF CountedOf
  <2>17. Sizes(Good)'
    BY <1>4, Zenon
  <2> QED BY <1>7, <2>13, <2>14, <2>16, <2>17, Zenon DEF WarmInv
<1> QED BY <1>8, <1>9

\* With any faults, a detector's finding comes after a warm-up by other, earlier measurements
\* of the series, copies and repeated folds not counted, provided that the column of the
\* cursor keeps the timestamps as they are.
THEOREM FindingsAreWarmedUp == ASSUME WholeTicks PROVE Spec => []WarmedUp
<1>1. IInv /\ IInv' /\ WarmInv /\ [Next]_vars => WarmInv'
  <2> SUFFICES ASSUME IInv, IInv', WarmInv, [Next]_vars PROVE WarmInv'
    OBVIOUS
  <2>1. CASE Fetch \/ Dispatch \/ (\E x \in Msg : Publish(x) \/ Redeliver(x))
    BY <2>1, WarmRouter
  <2>2. ASSUME NEW s \in Series, TakeBatch(s) \/ Plan(s) \/ SaveBaseline(s)
                 \/ (\E x \in Msg, acked \in BOOLEAN : Ack(s, x, acked))
        PROVE  WarmInv'
    BY <2>2, WarmWorker
  <2>3. ASSUME NEW s \in Series, FoldSample(s) PROVE WarmInv'
    BY <2>3, WarmFold
  <2>4. CASE Restart \/ UNCHANGED vars
    BY <2>4, WarmRestart
  <2> QED BY <2>1, <2>2, <2>3, <2>4, Zenon DEF Next
<1>2. WarmInv => WarmedUp
  BY DEF WarmInv
<1> QED BY <1>1, <1>2, Invariance, WarmInitially, PTL DEF Spec

=============================================================================

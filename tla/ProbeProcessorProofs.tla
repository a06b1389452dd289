------------------------ MODULE ProbeProcessorProofs ------------------------
(***************************************************************************)
(* Proofs about ProbeProcessor, for any probes, any sizes of Fetch, of the *)
(* batch and of the channel, and any faults.                               *)
(*                                                                         *)
(* A probe passes offer, pending, batch and acks in this order.  The       *)
(* inductive invariant says what has happened to every probe in one of     *)
(* these places: its event was published, and in acks its rows are         *)
(* committed too.  A crash or a panic empties the places, and the counters *)
(* never go down.                                                          *)
(***************************************************************************)
EXTENDS ProbeProcessor, TLAPS

\* A batch that is full is being flushed.
BatchOK == ~flushing => Len(batch) < FlushSize

Published ==
  /\ \A i \in DOMAIN offer : events[offer[i]] > 0
  /\ \A i \in DOMAIN pending : events[pending[i]] > 0
  /\ \A i \in DOMAIN batch : events[batch[i]] > 0

Committing == \A i \in DOMAIN acks : rows[acks[i]] > 0

IInv ==
  /\ TypeOK /\ BatchOK
  /\ Published /\ Committing
  /\ AckedIsStored /\ StoredIsPublished

-----------------------------------------------------------------------------
(* Counters and sequences *)

\* A counter that is raised is positive, and none goes down.
LEMMA MoreCounts ==
  ASSUME NEW n \in 0..Many
  PROVE  More(n) \in 0..Many /\ More(n) > 0 /\ (n > 0 => More(n) > 0)
BY DEF More, Many

\* Raising one counter leaves all that were positive so.
LEMMA RaiseOne ==
  ASSUME NEW count \in [Msg -> 0..Many], NEW x \in Msg, NEW new,
         new = [count EXCEPT ![x] = More(@)]
  PROVE  new \in [Msg -> 0..Many] /\ new[x] > 0 /\ \A y \in Msg : count[y] > 0 => new[y] > 0
BY MoreCounts

\* An empty queue respects every bound.
LEMMA EmptyQueue ==
  ASSUME NEW q, q = <<>>
  PROVE  /\ q \in Seq(Msg)
         /\ Len(q) <= 1 /\ Len(q) <= FetchMax /\ Len(q) <= PendingCap
         /\ Len(q) <= FlushSize /\ Len(q) < FlushSize
BY ProcessorAssumption

LEMMA QueueOfOne ==
  ASSUME NEW q, NEW x \in Msg, q = <<x>>
  PROVE  q \in Seq(Msg) /\ Len(q) = 1 /\ \A i \in DOMAIN q : q[i] = x
OBVIOUS

\* What is left of a queue was in it.
LEMMA TailElements ==
  ASSUME NEW s \in Seq(Msg), s # <<>>
  PROVE  /\ Head(s) \in Msg /\ Head(s) = s[1] /\ 1 \in DOMAIN s
         /\ Tail(s) \in Seq(Msg) /\ Len(Tail(s)) = Len(s) - 1
         /\ \A i \in DOMAIN Tail(s) : i + 1 \in DOMAIN s /\ Tail(s)[i] = s[i + 1]
OBVIOUS

LEMMA AppendElements ==
  ASSUME NEW s \in Seq(Msg), NEW x \in Msg
  PROVE  /\ Append(s, x) \in Seq(Msg) /\ Len(Append(s, x)) = Len(s) + 1
         /\ \A i \in DOMAIN Append(s, x) : \/ i \in DOMAIN s /\ Append(s, x)[i] = s[i]
                                           \/ Append(s, x)[i] = x
OBVIOUS

\* A nak never acknowledges.
LEMMA NakedStream ==
  ASSUME TypeOK, NEW some
  PROVE  /\ Naked(some) \in [Msg -> {"unpublished", "waiting", "delivered", "acked", "missed"}]
         /\ \A x \in Msg : Naked(some)[x] = "acked" => stream[x] = "acked"
BY DEF TypeOK, Naked

-----------------------------------------------------------------------------
(* The actions *)

LEMMA InitIInv == Init => IInv
<1> SUFFICES ASSUME Init PROVE IInv
  OBVIOUS
<1>1. 0 \in 0..Many
  BY DEF Many
<1>3. fetched \in Seq(Msg) /\ Len(fetched) <= FetchMax /\ offer \in Seq(Msg) /\ Len(offer) <= 1
  BY EmptyQueue, Zenon DEF Init
<1>4. pending \in Seq(Msg) /\ Len(pending) <= PendingCap /\ acks \in Seq(Msg)
  BY EmptyQueue, Zenon DEF Init
<1>5. batch \in Seq(Msg) /\ Len(batch) <= FlushSize /\ Len(batch) < FlushSize
  BY EmptyQueue, Zenon DEF Init
<1>6. TypeOK /\ BatchOK
  BY <1>1, <1>3, <1>4, <1>5, Zenon DEF Init, TypeOK, BatchOK
<1>2. Published /\ Committing /\ AckedIsStored /\ StoredIsPublished
  BY DEF Init, Published, Committing, AckedIsStored, StoredIsPublished
<1> QED BY <1>2, <1>6 DEF IInv

\* The server delivers, delivers again and forgets; it acknowledges nothing.
LEMMA ServerPreserves ==
  ASSUME IInv, UNCHANGED <<process, events, rows>>, consumer' \in BOOLEAN,
         stream' \in [Msg -> {"unpublished", "waiting", "delivered", "acked", "missed"}],
         \A x \in Msg : stream'[x] = "acked" => stream[x] = "acked"
  PROVE  IInv'
<1> USE DEF IInv, process
<1>1. TypeOK' /\ BatchOK'
  BY DEF TypeOK, BatchOK
<1>2. Published' /\ Committing'
  BY DEF Published, Committing
<1>3. AckedIsStored' /\ StoredIsPublished'
  BY DEF AckedIsStored, StoredIsPublished
<1> QED BY <1>1, <1>2, <1>3

\* A process that stops loses its queues and nothing that was written.
LEMMA StoppedPreserves ==
  ASSUME IInv, Stopped, UNCHANGED <<server, events, rows>>
  PROVE  IInv'
<1> USE DEF IInv, Stopped, server
<1>1. /\ fetched' \in Seq(Msg) /\ Len(fetched') <= FetchMax
      /\ offer' \in Seq(Msg) /\ Len(offer') <= 1
  BY EmptyQueue, Zenon
<1>2. pending' \in Seq(Msg) /\ Len(pending') <= PendingCap /\ acks' \in Seq(Msg)
  BY EmptyQueue, Zenon
<1>3. batch' \in Seq(Msg) /\ Len(batch') <= FlushSize /\ Len(batch') < FlushSize
  BY EmptyQueue, Zenon
<1>4. alive' \in BOOLEAN /\ flushing' \in BOOLEAN
  BY Zenon
<1>5. TypeOK' /\ BatchOK'
  BY <1>1, <1>2, <1>3, <1>4, Zenon DEF TypeOK, BatchOK
<1>6. Published' /\ Committing'
  BY DEF Published, Committing
<1>7. AckedIsStored' /\ StoredIsPublished'
  BY DEF AckedIsStored, StoredIsPublished
<1> QED BY <1>5, <1>6, <1>7

LEMMA FetchPreserves ==
  ASSUME IInv, Fetch
  PROVE  IInv'
<1> USE DEF IInv
<1>1. PICK some \in SUBSET {x \in Msg : stream[x] = "waiting"} :
        /\ Cardinality(some) \in 1..FetchMax
        /\ fetched' \in SetToSeqs(some)
        /\ stream' = [x \in Msg |-> IF x \in some THEN "delivered" ELSE stream[x]]
  BY DEF Fetch
<1>2. UNCHANGED <<consumer, alive, offer, pending, batch, flushing, acks, events, rows>>
  BY DEF Fetch
<1>3. fetched' \in [1..Cardinality(some) -> some]
  BY <1>1 DEF SetToSeqs
<1>4. fetched' \in Seq(Msg) /\ Len(fetched') <= FetchMax
  BY <1>1, <1>3, ProcessorAssumption
<1>5. TypeOK' /\ BatchOK'
  BY <1>1, <1>2, <1>4 DEF TypeOK, BatchOK
<1>6. Published' /\ Committing'
  BY <1>2 DEF Published, Committing
<1>7. AckedIsStored' /\ StoredIsPublished'
  BY <1>1, <1>2 DEF AckedIsStored, StoredIsPublished
<1> QED BY <1>5, <1>6, <1>7

\* The loop queues a probe only once its event is published.
LEMMA HandlePreserves ==
  ASSUME IInv, Handle
  PROVE  IInv'
<1> USE DEF IInv
<1> DEFINE x == Head(fetched)
<1>1. fetched # <<>> /\ offer = <<>> /\ (Refuse(x) \/ Panic(x) \/ PublishMeasurement(x))
  BY DEF Handle
<1>2. /\ x \in Msg /\ Tail(fetched) \in Seq(Msg) /\ Len(Tail(fetched)) <= FetchMax
  BY <1>1, TailElements, ProcessorAssumption DEF TypeOK
<1> HIDE DEF x
<1>3. CASE Refuse(x)
  <2>1. /\ fetched' = Tail(fetched) /\ stream' = Naked({x})
        /\ UNCHANGED <<consumer, alive, offer, pending, batch, flushing, acks, events, rows>>
    BY <1>3 DEF Refuse
  <2>2. /\ stream' \in [Msg -> {"unpublished", "waiting", "delivered", "acked", "missed"}]
        /\ \A y \in Msg : stream'[y] = "acked" => stream[y] = "acked"
    BY <2>1, NakedStream
  <2>3. TypeOK' /\ BatchOK'
    BY <1>2, <2>1, <2>2, Zenon DEF TypeOK, BatchOK
  <2>4. Published' /\ Committing'
    BY <2>1 DEF Published, Committing
  <2>5. AckedIsStored' /\ StoredIsPublished'
    BY <2>1, <2>2, Zenon DEF AckedIsStored, StoredIsPublished
  <2> QED BY <2>3, <2>4, <2>5
<1>4. CASE Panic(x)
  BY <1>4, StoppedPreserves DEF Panic
<1>5. CASE PublishMeasurement(x)
  <2>1. /\ fetched' = Tail(fetched)
        /\ UNCHANGED <<consumer, alive, pending, batch, flushing, acks, rows>>
        /\ \/ events' = [events EXCEPT ![x] = More(@)]
           \/ events' = events /\ offer' = offer
        /\ \/ offer' = <<x>> /\ stream' = stream
           \/ offer' = offer /\ stream' = Naked({x})
    BY <1>5 DEF PublishMeasurement
  <2>2. /\ stream' \in [Msg -> {"unpublished", "waiting", "delivered", "acked", "missed"}]
        /\ \A y \in Msg : stream'[y] = "acked" => stream[y] = "acked"
    BY <2>1, NakedStream DEF TypeOK
  <2>3. /\ events' \in [Msg -> 0..Many]
        /\ \A y \in Msg : events[y] > 0 => events'[y] > 0
        /\ offer' = offer \/ events'[x] > 0
    BY <1>2, <2>1, RaiseOne, Zenon DEF TypeOK
  <2>4. offer' \in Seq(Msg) /\ Len(offer') <= 1
    <3>1. CASE offer' = <<x>>
      BY <1>2, <3>1, QueueOfOne
    <3>2. CASE offer' = offer
      BY <3>2 DEF TypeOK
    <3> QED BY <2>1, <3>1, <3>2, Zenon
  <2>5. TypeOK' /\ BatchOK'
    BY <1>2, <2>1, <2>2, <2>3, <2>4, Zenon DEF TypeOK, BatchOK
  <2>6. \A i \in DOMAIN offer' : events'[offer'[i]] > 0
    BY <1>1, <2>1, <2>3
  <2>7. Published'
    BY <2>1, <2>3, <2>6, SMTT(30) DEF Published, TypeOK
  <2>8. Committing' /\ AckedIsStored' /\ StoredIsPublished'
    BY <2>1, <2>2, <2>3 DEF Committing, AckedIsStored, StoredIsPublished
  <2> QED BY <2>5, <2>7, <2>8
<1> QED BY <1>1, <1>3, <1>4, <1>5

LEMMA EnqueuePreserves ==
  ASSUME IInv, Enqueue
  PROVE  IInv'
<1> USE DEF IInv
<1>1. /\ Len(pending) < PendingCap /\ pending' = pending \o offer /\ offer' = <<>>
      /\ UNCHANGED <<server, alive, fetched, batch, flushing, acks, events, rows>>
  BY DEF Enqueue
<1>2. offer' \in Seq(Msg) /\ Len(offer') <= 1
  BY <1>1, EmptyQueue
<1>3. /\ pending' \in Seq(Msg) /\ Len(pending') <= PendingCap
      /\ \A i \in DOMAIN pending' :
           \/ i \in DOMAIN pending /\ pending'[i] = pending[i]
           \/ i - Len(pending) \in DOMAIN offer /\ pending'[i] = offer[i - Len(pending)]
  BY <1>1, ProcessorAssumption, SMTT(30) DEF TypeOK
<1>4. TypeOK' /\ BatchOK'
  BY <1>1, <1>2, <1>3 DEF TypeOK, BatchOK, server
<1>5. Published'
  <2>1. \A i \in DOMAIN offer' : events'[offer'[i]] > 0
    BY <1>1
  <2>2. \A i \in DOMAIN pending' : events'[pending'[i]] > 0
    BY <1>1, <1>3 DEF Published
  <2> QED BY <1>1, <2>1, <2>2 DEF Published
<1>6. Committing' /\ AckedIsStored' /\ StoredIsPublished'
  BY <1>1 DEF Committing, AckedIsStored, StoredIsPublished, server
<1> QED BY <1>4, <1>5, <1>6

LEMMA CollectPreserves ==
  ASSUME IInv, Collect
  PROVE  IInv'
<1> USE DEF IInv
<1>1. /\ ~flushing /\ pending # <<>>
      /\ batch' = Append(batch, Head(pending)) /\ pending' = Tail(pending)
      /\ UNCHANGED <<server, alive, fetched, offer, acks, events, rows>>
  BY DEF Collect, Ready
<1>2. flushing' = (Len(batch) + 1 >= FlushSize)
  BY DEF Collect
<1>3. /\ Head(pending) \in Msg /\ Head(pending) = pending[1] /\ 1 \in DOMAIN pending
      /\ pending' \in Seq(Msg) /\ Len(pending') <= PendingCap
      /\ \A i \in DOMAIN pending' : i + 1 \in DOMAIN pending /\ pending'[i] = pending[i + 1]
  BY <1>1, TailElements, ProcessorAssumption DEF TypeOK
<1>4. Len(batch) < FlushSize
  BY <1>1 DEF BatchOK
<1>5. /\ batch' \in Seq(Msg) /\ Len(batch') = Len(batch) + 1
      /\ \A i \in DOMAIN batch' : \/ i \in DOMAIN batch /\ batch'[i] = batch[i]
                                  \/ batch'[i] = pending[1]
  BY <1>1, <1>3, AppendElements, Zenon DEF TypeOK
<1>6. flushing' \in BOOLEAN
  BY <1>2, <1>4, ProcessorAssumption DEF TypeOK
<1>7. Len(batch) + 1 >= FlushSize => flushing'
  BY <1>2, ProcessorAssumption, Zenon DEF TypeOK
<1>8. BatchOK'
  BY <1>5, <1>7, ProcessorAssumption DEF BatchOK, TypeOK
<1>9. Len(batch') <= FlushSize
  BY <1>4, <1>5, ProcessorAssumption DEF TypeOK
<1>10. TypeOK'
  BY <1>1, <1>3, <1>5, <1>6, <1>9 DEF TypeOK, server
<1>11. Published'
  BY <1>1, <1>3, <1>5 DEF Published
<1>12. Committing' /\ AckedIsStored' /\ StoredIsPublished'
  BY <1>1 DEF Committing, AckedIsStored, StoredIsPublished, server
<1> QED BY <1>8, <1>10, <1>11, <1>12

LEMMA FlushTickPreserves ==
  ASSUME IInv, FlushTick
  PROVE  IInv'
<1> USE DEF IInv, FlushTick
<1>1. TypeOK' /\ BatchOK'
  BY DEF TypeOK, BatchOK, server
<1>2. Published' /\ Committing' /\ AckedIsStored' /\ StoredIsPublished'
  BY DEF Published, Committing, AckedIsStored, StoredIsPublished, server
<1> QED BY <1>1, <1>2

\* A committed batch is stored, and only what was published is in a batch.
LEMMA CommittedRows ==
  ASSUME IInv, Committed
  PROVE  /\ rows' \in [Msg -> 0..Many]
         /\ \A x \in Msg : rows[x] > 0 => rows'[x] > 0
         /\ \A i \in DOMAIN batch : rows'[batch[i]] > 0
         /\ \A x \in Msg : rows'[x] > 0 => rows[x] > 0 \/ events[x] > 0
<1> USE DEF IInv
<1>1. /\ rows \in [Msg -> 0..Many]
      /\ rows' = [x \in Msg |-> IF x \in Range(batch) THEN More(rows[x]) ELSE rows[x]]
  BY DEF TypeOK, Committed
<1>2. \A x \in Msg : More(rows[x]) \in 0..Many /\ More(rows[x]) > 0
  BY <1>1, MoreCounts
<1>3. \A i \in DOMAIN batch : batch[i] \in Msg /\ batch[i] \in Range(batch)
  BY DEF TypeOK, Range
<1>4. \A x \in Range(batch) : events[x] > 0
  BY DEF Published, Range
<1> QED BY <1>1, <1>2, <1>3, <1>4

\* The batch is emptied, its rows are committed or not, and what is to be
\* acknowledged, if anything, is a batch whose rows are.
LEMMA FlushPreserves ==
  ASSUME IInv, Flush
  PROVE  IInv'
<1> USE DEF IInv
<1>1. /\ batch' = <<>> /\ flushing' = FALSE
      /\ UNCHANGED <<consumer, alive, fetched, offer, pending, events>>
  BY DEF Flush, FlushCommit, FlushFail, server
<1>2. /\ Committed \/ rows' = rows
      /\ \/ Committed /\ acks' = batch /\ stream' = stream
         \/ acks' = acks /\ stream' = Naked(Range(batch))
  BY DEF Flush, FlushCommit, FlushFail, server
<1>3. /\ rows' \in [Msg -> 0..Many]
      /\ \A x \in Msg : rows[x] > 0 => rows'[x] > 0
      /\ \A x \in Msg : rows'[x] > 0 => rows[x] > 0 \/ events[x] > 0
  BY <1>2, CommittedRows DEF TypeOK
<1>4. /\ stream' \in [Msg -> {"unpublished", "waiting", "delivered", "acked", "missed"}]
      /\ \A x \in Msg : stream'[x] = "acked" => stream[x] = "acked"
  BY <1>2, NakedStream DEF TypeOK
<1>5. acks' \in Seq(Msg) /\ Committing'
  <2>1. CASE acks' = acks
    BY <1>3, <2>1 DEF Committing, TypeOK
  <2>2. CASE Committed /\ acks' = batch
    BY <2>2, CommittedRows DEF Committing, TypeOK
  <2> QED BY <1>2, <2>1, <2>2
<1>6. batch' \in Seq(Msg) /\ Len(batch') <= FlushSize /\ Len(batch') < FlushSize
  BY <1>1, EmptyQueue
<1>7. TypeOK' /\ BatchOK'
  BY <1>1, <1>3, <1>4, <1>5, <1>6, Zenon DEF TypeOK, BatchOK
<1>8. \A i \in DOMAIN batch' : events'[batch'[i]] > 0
  BY <1>1
<1>9. Published'
  BY <1>1, <1>8 DEF Published
<1>10. AckedIsStored' /\ StoredIsPublished'
  BY <1>1, <1>3, <1>4 DEF AckedIsStored, StoredIsPublished
<1> QED BY <1>5, <1>7, <1>9, <1>10

\* Only a probe whose rows are committed is acknowledged.
LEMMA AckPreserves ==
  ASSUME IInv, NEW done \in BOOLEAN, Ack(done)
  PROVE  IInv'
<1> USE DEF IInv
<1>1. /\ acks # <<>> /\ acks' = Tail(acks)
      /\ stream' = IF done THEN Acked(Head(acks)) ELSE stream
      /\ UNCHANGED <<consumer, alive, fetched, offer, pending, batch, flushing, events, rows>>
  BY DEF Ack
<1>2. /\ Head(acks) \in Msg /\ Head(acks) = acks[1] /\ 1 \in DOMAIN acks
      /\ acks' \in Seq(Msg)
      /\ \A i \in DOMAIN acks' : i + 1 \in DOMAIN acks /\ acks'[i] = acks[i + 1]
  BY <1>1, TailElements DEF TypeOK
<1>3. /\ stream' \in [Msg -> {"unpublished", "waiting", "delivered", "acked", "missed"}]
      /\ \A x \in Msg : stream'[x] = "acked" => stream[x] = "acked" \/ x = acks[1]
  BY <1>1, <1>2 DEF TypeOK, Acked
<1>4. rows[acks[1]] > 0
  BY <1>2 DEF Committing
<1>5. TypeOK' /\ BatchOK'
  BY <1>1, <1>2, <1>3 DEF TypeOK, BatchOK
<1>6. Published' /\ Committing'
  BY <1>1, <1>2 DEF Published, Committing
<1>7. AckedIsStored' /\ StoredIsPublished'
  BY <1>1, <1>3, <1>4 DEF AckedIsStored, StoredIsPublished
<1> QED BY <1>5, <1>6, <1>7

-----------------------------------------------------------------------------
LEMMA NextPreserves == IInv /\ [Next]_vars => IInv'
<1> SUFFICES ASSUME IInv, [Next]_vars PROVE IInv'
  OBVIOUS
<1> USE DEF IInv
<1>1. ASSUME NEW x \in Msg, Report(x) \/ Redeliver(x)
      PROVE  IInv'
  <2>1. /\ UNCHANGED <<process, events, rows>> /\ consumer' = consumer
        /\ \/ stream' = [stream EXCEPT ![x] = "waiting"]
           \/ stream' = [stream EXCEPT ![x] = "missed"]
    BY <1>1 DEF Report, Redeliver
  <2>2. /\ stream' \in [Msg -> {"unpublished", "waiting", "delivered", "acked", "missed"}]
        /\ \A y \in Msg : stream'[y] = "acked" => stream[y] = "acked"
    BY <2>1, Zenon DEF TypeOK
  <2> QED BY <2>1, <2>2, ServerPreserves DEF TypeOK
<1>2. CASE Forget
  <2>1. /\ stream' \in [Msg -> {"unpublished", "waiting", "delivered", "acked", "missed"}]
        /\ \A y \in Msg : stream'[y] = "acked" => stream[y] = "acked"
        /\ consumer' \in BOOLEAN /\ UNCHANGED <<process, events, rows>>
    BY <1>2, Zenon DEF Forget, TypeOK
  <2> QED BY <2>1, ServerPreserves
<1>3. CASE Fetch
  BY <1>3, FetchPreserves
<1>4. CASE Handle
  BY <1>4, HandlePreserves
<1>5. CASE Enqueue
  BY <1>5, EnqueuePreserves
<1>6. CASE Collect
  BY <1>6, CollectPreserves
<1>7. CASE FlushTick
  BY <1>7, FlushTickPreserves
<1>8. CASE Flush
  BY <1>8, FlushPreserves
<1>9. CASE \E done \in BOOLEAN : Ack(done)
  BY <1>9, AckPreserves
<1>10. CASE Crash
  BY <1>10, StoppedPreserves DEF Crash
<1>11. CASE Start
  <2>1. TypeOK' /\ BatchOK'
    BY <1>11 DEF Start, TypeOK, BatchOK
  <2>2. Published' /\ Committing' /\ AckedIsStored' /\ StoredIsPublished'
    BY <1>11 DEF Start, Published, Committing, AckedIsStored, StoredIsPublished
  <2> QED BY <2>1, <2>2
<1>12. CASE UNCHANGED vars
  <2>1. TypeOK' /\ BatchOK'
    BY <1>12 DEF vars, TypeOK, BatchOK
  <2>2. Published' /\ Committing' /\ AckedIsStored' /\ StoredIsPublished'
    BY <1>12 DEF vars, Published, Committing, AckedIsStored, StoredIsPublished
  <2> QED BY <2>1, <2>2
<1> QED BY <1>1, <1>2, <1>3, <1>4, <1>5, <1>6, <1>7, <1>8, <1>9, <1>10, <1>11, <1>12, Zenon
        DEF Next

\* Where a probe is says what was done for it, whatever fails and whenever the
\* process dies.
THEOREM Invariance == Spec => []IInv
BY InitIInv, NextPreserves, PTL DEF Spec

\* The queues keep to their capacities and the server's view of a probe is one
\* of the five, for all sizes.
THEOREM TypeCorrect == Spec => []TypeOK
<1>1. IInv => TypeOK
  BY DEF IInv
<1> QED BY <1>1, Invariance, PTL

\* flush acknowledges after its commit: no probe is acknowledged without rows,
\* for any sizes of the batches and any faults.
THEOREM AcknowledgedAreStored == Spec => []AckedIsStored
<1>1. IInv => AckedIsStored
  BY DEF IInv
<1> QED BY <1>1, Invariance, PTL

\* publishMeasurement precedes the queue: argus was sent every probe that has
\* rows, for any sizes of the batches and any faults.
THEOREM StoredArePublished == Spec => []StoredIsPublished
<1>1. IInv => StoredIsPublished
  BY DEF IInv
<1> QED BY <1>1, Invariance, PTL
=============================================================================

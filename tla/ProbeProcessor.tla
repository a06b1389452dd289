--------------------------- MODULE ProbeProcessor ---------------------------
(***************************************************************************)
(* The ping and the stamp processor, which run the same two goroutines.    *)
(* The fetch loop decodes a probe, publishes its measurement event for     *)
(* argus and queues the probe; the flusher collects what is queued into a  *)
(* batch, writes the batch in one transaction and acknowledges it.         *)
(*                                                                         *)
(* The consumer has a name but no Durable: the server forgets it, and with *)
(* it what was not acknowledged, when the processor stays away.  The next  *)
(* one is created with DeliverNew.                                         *)
(***************************************************************************)
EXTENDS Integers, Sequences, SequencesExt, FiniteSets

CONSTANTS Msg,         \* probes the agents report
          Bad,         \* payloads that do not decode, or of another type
          Unparsed,    \* probes whose agent config id is not a UUID
          Rejected,    \* probes whose rows the database refuses
          FetchMax,    \* consumer.Fetch(10, ...)
          FlushSize,   \* flushSize
          PendingCap,  \* pendingBuffer
          Faults       \* subset of FaultNames

FaultNames == {"publish", "database", "commit", "ack", "crash"}

ASSUME ProcessorAssumption ==
  /\ Bad \subseteq Msg /\ Unparsed \subseteq Msg \ Bad /\ Rejected \subseteq Msg \ Bad
  /\ FetchMax \in Nat \ {0}
  /\ FlushSize \in Nat \ {0}
  /\ PendingCap \in Nat \ {0}
  /\ Faults \subseteq FaultNames

VARIABLES stream,    \* per probe, as the consumer sees it
          consumer,  \* does the server know the consumer?
          alive,     \* is the processor running?
          fetched,   \* messages of the current Fetch the loop has not handled
          offer,     \* the message, if any, the loop is sending to pending
          pending,   \* the channel
          batch,     \* the flusher's batch
          flushing,  \* has the flusher called flush?
          acks,      \* messages of a committed batch not acknowledged yet
          events,    \* how often a probe's event was stored in MEASUREMENTS
          rows       \* how often a probe's rows were committed

server == <<stream, consumer>>
process == <<alive, fetched, offer, pending, batch, flushing, acks>>
vars == <<stream, consumer, alive, fetched, offer, pending, batch, flushing, acks, events, rows>>

\* Counters stop at Many: none, one and several are told apart.
Many == 2
More(n) == IF n < Many THEN n + 1 ELSE n

Init ==
  /\ stream = [x \in Msg |-> "unpublished"]
  /\ consumer = TRUE
  /\ alive = TRUE
  /\ fetched = <<>> /\ offer = <<>> /\ pending = <<>> /\ batch = <<>> /\ acks = <<>>
  /\ flushing = FALSE
  /\ events = [x \in Msg |-> 0]
  /\ rows = [x \in Msg |-> 0]

-----------------------------------------------------------------------------
(* JetStream *)

\* An agent reports a probe; without a consumer nothing remembers that it is
\* still to be delivered.
Report(x) ==
  /\ stream[x] = "unpublished"
  /\ stream' = [stream EXCEPT ![x] = IF consumer THEN "waiting" ELSE "missed"]
  /\ UNCHANGED <<consumer, process, events, rows>>

\* AckWait passes.
Redeliver(x) ==
  /\ stream[x] = "delivered"
  /\ stream' = [stream EXCEPT ![x] = "waiting"]
  /\ UNCHANGED <<consumer, process, events, rows>>

\* InactiveThreshold passes with no one fetching.
Forget ==
  /\ consumer /\ ~alive
  /\ consumer' = FALSE
  /\ stream' = [x \in Msg |-> IF stream[x] \in {"waiting", "delivered"}
                              THEN "missed" ELSE stream[x]]
  /\ UNCHANGED <<process, events, rows>>

Acked(x) == [stream EXCEPT ![x] = IF @ = "missed" THEN @ ELSE "acked"]

\* Nak: the server sends the message again, unless it was acknowledged.
Naked(some) ==
  [x \in Msg |-> IF x \in some /\ stream[x] = "delivered" THEN "waiting" ELSE stream[x]]

-----------------------------------------------------------------------------
(* The fetch loop *)

Fetch ==
  /\ alive /\ fetched = <<>> /\ offer = <<>>
  /\ \E some \in SUBSET {x \in Msg : stream[x] = "waiting"} :
       /\ Cardinality(some) \in 1..FetchMax
       /\ fetched' \in SetToSeqs(some)
       /\ stream' = [x \in Msg |-> IF x \in some THEN "delivered" ELSE stream[x]]
  /\ UNCHANGED <<consumer, alive, offer, pending, batch, flushing, acks, events, rows>>

Stopped ==
  /\ alive' = FALSE
  /\ fetched' = <<>> /\ offer' = <<>> /\ pending' = <<>> /\ batch' = <<>> /\ acks' = <<>>
  /\ flushing' = FALSE

\* A payload that does not decode is naked.
Refuse(x) ==
  /\ x \in Bad
  /\ stream' = Naked({x})
  /\ fetched' = Tail(fetched)
  /\ UNCHANGED <<consumer, alive, offer, pending, batch, flushing, acks, events, rows>>

\* buildPing dereferences the nil that UUID returns with its error.
Panic(x) ==
  /\ x \in Unparsed
  /\ Stopped
  /\ UNCHANGED <<server, events, rows>>

\* Mutant of PublishMeasurement: the probe is queued whether or not its event
\* was stored.
PublishMeasurementIgnored(x) ==
  /\ x \notin Bad \cup Unparsed
  /\ fetched' = Tail(fetched)
  /\ offer' = <<x>>
  /\ \/ events' = [events EXCEPT ![x] = More(@)]
     \/ "publish" \in Faults /\ UNCHANGED events
  /\ UNCHANGED <<server, alive, pending, batch, flushing, acks, rows>>

\* publishMeasurement and what follows it: stored, the probe is queued; failed
\* three times, it is naked.  A publication whose answer is lost is stored all
\* the same.
PublishMeasurement(x) ==
  /\ x \notin Bad \cup Unparsed
  /\ fetched' = Tail(fetched)
  /\ \/ /\ events' = [events EXCEPT ![x] = More(@)]
        /\ offer' = <<x>>
        /\ UNCHANGED stream
     \/ /\ "publish" \in Faults
        /\ events' = events \/ events' = [events EXCEPT ![x] = More(@)]
        /\ stream' = Naked({x})
        /\ UNCHANGED offer
  /\ UNCHANGED <<consumer, alive, pending, batch, flushing, acks, rows>>

Handle ==
  /\ fetched # <<>> /\ offer = <<>>
  /\ LET x == Head(fetched) IN Refuse(x) \/ Panic(x) \/ PublishMeasurement(x)

\* Mutant of Enqueue: the loop does not wait for room.
EnqueueUnbounded ==
  /\ offer # <<>>
  /\ pending' = pending \o offer
  /\ offer' = <<>>
  /\ UNCHANGED <<server, alive, fetched, batch, flushing, acks, events, rows>>

Enqueue ==
  /\ offer # <<>>
  /\ Len(pending) < PendingCap
  /\ pending' = pending \o offer
  /\ offer' = <<>>
  /\ UNCHANGED <<server, alive, fetched, batch, flushing, acks, events, rows>>

-----------------------------------------------------------------------------
(* The flusher *)

Ready == alive /\ ~flushing /\ acks = <<>>

Collect ==
  /\ Ready /\ pending # <<>>
  /\ batch' = Append(batch, Head(pending))
  /\ pending' = Tail(pending)
  /\ flushing' = (Len(batch) + 1 >= FlushSize)
  /\ UNCHANGED <<server, alive, fetched, offer, acks, events, rows>>

\* flushInterval passes; an empty batch makes flush return at once.
FlushTick ==
  /\ Ready /\ batch # <<>>
  /\ flushing' = TRUE
  /\ UNCHANGED <<server, alive, fetched, offer, pending, batch, acks, events, rows>>

Committed ==
  rows' = [x \in Msg |-> IF x \in Range(batch) THEN More(rows[x]) ELSE rows[x]]

\* Every row of the batch is written, then each message is acknowledged.
FlushCommit ==
  /\ flushing
  /\ Range(batch) \cap Rejected = {}
  /\ Committed
  /\ acks' = batch
  /\ batch' = <<>>
  /\ flushing' = FALSE
  /\ UNCHANGED <<server, alive, fetched, offer, pending, events>>

\* Mutant of FlushFail: the batch is acknowledged all the same.
FlushFailAcks ==
  /\ flushing
  /\ Range(batch) \cap Rejected # {} \/ Faults \cap {"database", "commit"} # {}
  /\ acks' = batch
  /\ batch' = <<>>
  /\ flushing' = FALSE
  /\ UNCHANGED <<server, alive, fetched, offer, pending, events, rows>>

\* Begin, an insert or the commit fails: nakAll.  A commit whose answer is lost
\* has written the rows.
FlushFail ==
  /\ flushing
  /\ \/ /\ Range(batch) \cap Rejected # {} \/ "database" \in Faults
        /\ UNCHANGED rows
     \/ /\ Range(batch) \cap Rejected = {} /\ "commit" \in Faults
        /\ Committed
  /\ stream' = Naked(Range(batch))
  /\ batch' = <<>>
  /\ flushing' = FALSE
  /\ UNCHANGED <<consumer, alive, fetched, offer, pending, acks, events>>

\* One Ack; an error is only logged.
Ack(acked) ==
  /\ acks # <<>>
  /\ acked \/ "ack" \in Faults
  /\ stream' = IF acked THEN Acked(Head(acks)) ELSE stream
  /\ acks' = Tail(acks)
  /\ UNCHANGED <<consumer, alive, fetched, offer, pending, batch, flushing, events, rows>>

-----------------------------------------------------------------------------
Crash ==
  /\ "crash" \in Faults
  /\ alive
  /\ Stopped
  /\ UNCHANGED <<server, events, rows>>

\* Start: the consumer is found by its name, or created anew.
Start ==
  /\ ~alive
  /\ alive' = TRUE
  /\ consumer' = TRUE
  /\ UNCHANGED <<stream, fetched, offer, pending, batch, flushing, acks, events, rows>>

Flush == FlushCommit \/ FlushFail

Next ==
  \/ \E x \in Msg : Report(x) \/ Redeliver(x)
  \/ Forget
  \/ Fetch \/ Handle \/ Enqueue
  \/ Collect \/ FlushTick \/ Flush
  \/ \E acked \in BOOLEAN : Ack(acked)
  \/ Crash \/ Start

Spec == Init /\ [][Next]_vars

\* The goroutines are scheduled, AckWait passes, and publications, the database
\* and acknowledgements do not fail for ever.
Fairness ==
  /\ \A x \in Msg : WF_vars(Redeliver(x))
  /\ \A x \in Msg : SF_vars(Fetch /\ x \in Range(fetched'))
  /\ WF_vars(Handle) /\ WF_vars(Enqueue)
  /\ \A x \in Msg : SF_vars(Handle /\ offer' = <<x>>)
  /\ WF_vars(Collect) /\ WF_vars(FlushTick) /\ WF_vars(Flush)
  /\ \A x \in Msg : SF_vars(FlushCommit /\ x \in Range(batch))
  /\ WF_vars(\E acked \in BOOLEAN : Ack(acked))
  /\ \A x \in Msg : SF_vars(Ack(TRUE) /\ x = Head(acks))
  /\ WF_vars(Start)

FairSpec == Spec /\ Fairness

-----------------------------------------------------------------------------
(* Properties *)

TypeOK ==
  /\ stream \in [Msg -> {"unpublished", "waiting", "delivered", "acked", "missed"}]
  /\ consumer \in BOOLEAN /\ alive \in BOOLEAN /\ flushing \in BOOLEAN
  /\ fetched \in Seq(Msg) /\ Len(fetched) <= FetchMax
  /\ offer \in Seq(Msg) /\ Len(offer) <= 1
  /\ pending \in Seq(Msg) /\ Len(pending) <= PendingCap
  /\ batch \in Seq(Msg) /\ Len(batch) <= FlushSize
  /\ acks \in Seq(Msg)
  /\ events \in [Msg -> 0..Many] /\ rows \in [Msg -> 0..Many]

\* flush acknowledges only after its commit, and nakAll answers every other
\* outcome: a probe the consumer will not deliver again has its rows, whatever
\* copies of it are queued, whichever commit was lost and wherever the
\* processor died.
AckedIsStored ==
  \A x \in Msg : stream[x] = "acked" => rows[x] > 0

\* publishMeasurement precedes the queue, so rows in the tables always have
\* their event in MEASUREMENTS: argus misses no probe the dashboard shows.
StoredIsPublished ==
  \A x \in Msg : rows[x] > 0 => events[x] > 0

\* "It ingests the data, processes it, and writes it to the database": a probe
\* that decodes and that the database accepts gets its rows, however often the
\* database, an acknowledgement or a publication fails before.
ProbesAreStored ==
  \A x \in Msg \ (Bad \cup Unparsed \cup Rejected) :
    stream[x] = "waiting" ~> rows[x] > 0

=============================================================================

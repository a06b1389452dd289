--------------------------- MODULE TraceProcessor ---------------------------
(***************************************************************************)
(* The trace processor (services/trace-processor/processor.go): instances  *)
(* that share one JetStream consumer and one database.  Each handles a     *)
(* trace in one transaction: the measurement, the as_details rows of hop   *)
(* addresses not known yet, the event for Argus, the hops and the links.   *)
(*                                                                         *)
(* External: JetStream, the ASN service, and Postgres, of which the unique *)
(* key of as_details matters: inserting an address another transaction has *)
(* inserted waits for it, and fails if it commits.  The consumer is not    *)
(* durable: the server forgets it when no instance has fetched for a       *)
(* while, and the next one delivers only what comes after it (DeliverNew). *)
(***************************************************************************)
EXTENDS FiniteSets, Functions, Subsequences

CONSTANTS Worker,
          Trace,       \* messages
          Bad,         \* traces that cannot be parsed
          Lb,          \* traces of type tracelb
          Hops,        \* Hops[m]: the addresses of trace m's hops
          Asn,         \* Asn[ip], 0 for a private address
          EachAsked,   \* does the ASN service answer a repeated question twice?
          Faults,      \* what may fail: a subset of FaultNames
          MaxMishaps,  \* bound on the number of failures
          None

FaultNames == {"lookup", "publish", "commit", "unknown", "ack", "crash", "ackwait",
               "forget"}

Ip == DOMAIN Asn

ASSUME TraceAssumption ==
  /\ IsFiniteSet(Worker)
  /\ Bad \cup Lb \subseteq Trace /\ Bad \cap Lb = {}
  /\ DOMAIN Hops = Trace
  /\ \A m \in Trace : Hops[m] \in Seq(Ip)
  /\ EachAsked \in BOOLEAN
  /\ Faults \subseteq FaultNames
  /\ MaxMishaps \in Nat
  /\ None \notin Trace

VARIABLES coming,     \* traces the agents have still to report
          consumer,   \* does the server know the consumer?
          missed,     \* messages no consumer will deliver
          ready,      \* messages the consumer may deliver
          acked,      \* messages acknowledged
          mishaps,    \* failures so far
          pc,         \* per worker
          msg,        \* per worker, the message it handles
          todo,       \* per worker, addresses its COPY has still to insert
          tx,         \* per worker, addresses its open transaction has inserted
          path,       \* per worker, the AS path it computed
          details,    \* addresses with a committed as_details row
          published,  \* per message, the AS paths Argus was sent, in order
          rows        \* per message, the AS paths of its committed rows, in order

streamVars == <<coming, consumer, missed>>
consumerVars == <<ready, acked>>
workerVars == <<pc, msg, todo, tx, path>>
storeVars == <<details, published, rows>>
vars == <<streamVars, consumerVars, workerVars, storeVars, mishaps>>

Init ==
  /\ coming = Trace /\ consumer = TRUE /\ missed = {}
  /\ ready = {} /\ acked = {}
  /\ mishaps = 0
  /\ pc = [w \in Worker |-> "fetch"]
  /\ msg = [w \in Worker |-> None]
  /\ todo = [w \in Worker |-> <<>>]
  /\ tx = [w \in Worker |-> {}]
  /\ path = [w \in Worker |-> <<>>]
  /\ details = {}
  /\ published = [m \in Trace |-> <<>>]
  /\ rows = [m \in Trace |-> <<>>]

-----------------------------------------------------------------------------
(* JetStream *)

\* The consumer delivers again what was naked, or what no answer came for.
Again(m) == ready' = ready \cup ({m} \ acked)

Mishap(fault) ==
  /\ fault \in Faults /\ mishaps < MaxMishaps
  /\ mishaps' = mishaps + 1

AckWait ==
  /\ Mishap("ackwait")
  /\ \E w \in Worker : msg[w] \notin ready \cup acked \cup {None} /\ Again(msg[w])
  /\ UNCHANGED <<streamVars, acked, workerVars, storeVars>>

\* An agent reports a trace.
Report(m) ==
  /\ m \in coming
  /\ coming' = coming \ {m}
  /\ IF consumer THEN ready' = ready \cup {m} /\ UNCHANGED missed
                 ELSE missed' = missed \cup {m} /\ UNCHANGED ready
  /\ UNCHANGED <<consumer, acked, workerVars, storeVars, mishaps>>

\* InactiveThreshold passes with every instance down.
Forget ==
  /\ "forget" \in Faults
  /\ consumer /\ \A w \in Worker : pc[w] = "down"
  /\ consumer' = FALSE
  /\ missed' = missed \cup ready
  /\ ready' = {}
  /\ UNCHANGED <<coming, acked, workerVars, storeVars, mishaps>>

-----------------------------------------------------------------------------
(* A worker.  Messages of a fetched batch are handled one after the other. *)

To(w, label) == pc' = [pc EXCEPT ![w] = label]

\* The worker is done with its message: a transaction still open is rolled back.
Finish(w) ==
  /\ To(w, "fetch")
  /\ msg' = [msg EXCEPT ![w] = None]
  /\ todo' = [todo EXCEPT ![w] = <<>>]
  /\ tx' = [tx EXCEPT ![w] = {}]
  /\ path' = [path EXCEPT ![w] = <<>>]

Fetch(w) ==
  /\ pc[w] = "fetch"
  /\ \E m \in ready :
       /\ ready' = ready \ {m}
       /\ msg' = [msg EXCEPT ![w] = m]
  /\ To(w, "handle")
  /\ UNCHANGED <<acked, todo, tx, path, storeVars, mishaps>>

\* Mutant of Nak: the message is terminated.
NakTerm(w) ==
  /\ Finish(w)
  /\ UNCHANGED <<consumerVars, storeVars>>

\* processNormalTrace returned an error: its transaction is rolled back, the
\* message is naked.
Nak(w) ==
  /\ Finish(w)
  /\ Again(msg[w])
  /\ UNCHANGED <<acked, storeVars>>

Refuse(w) == pc[w] = "handle" /\ msg[w] \in Bad /\ Nak(w) /\ UNCHANGED mishaps

\* tracelb is acknowledged and left alone.
SkipLb(w) ==
  /\ pc[w] = "handle" /\ msg[w] \in Lb
  /\ To(w, "ack")
  /\ UNCHANGED <<consumerVars, msg, todo, tx, path, storeVars, mishaps>>

\* The measurement is inserted; the hop addresses without an as_details row are
\* looked for, repeated ones included.
FindMissing(w) ==
  /\ pc[w] = "handle" /\ msg[w] \notin Bad \cup Lb
  /\ todo' = [todo EXCEPT ![w] = Without(Hops[msg[w]], details)]
  /\ To(w, "lookup")
  /\ UNCHANGED <<consumerVars, msg, tx, path, storeVars, mishaps>>

\* What the service knows, without the private addresses.
Answered(ips) ==
  LET public == Without(ips, {ip \in Ip : Asn[ip] = 0})
  IN IF EachAsked THEN public ELSE Distinct(public)

\* Mutant of Lookup: a failed lookup is logged, and the trace goes on.
LookupOptional(w) ==
  /\ pc[w] = "lookup"
  /\ \/ todo' = [todo EXCEPT ![w] = Answered(@)] /\ UNCHANGED mishaps
     \/ Mishap("lookup") /\ todo' = [todo EXCEPT ![w] = <<>>]
  /\ To(w, "copy")
  /\ UNCHANGED <<consumerVars, msg, tx, path, storeVars>>

Lookup(w) ==
  /\ pc[w] = "lookup"
  /\ \/ /\ todo' = [todo EXCEPT ![w] = Answered(@)]
        /\ To(w, "copy")
        /\ UNCHANGED <<consumerVars, msg, tx, path, storeVars, mishaps>>
     \/ Mishap("lookup") /\ Nak(w)

\* Another transaction has inserted the address and is still open.
Blocks(v, w) == todo[w] # <<>> /\ Head(todo[w]) \in tx[v] /\ v # w

\* COPY inserts the next address.  The key is taken: the COPY fails.
CopyRow(w) ==
  /\ pc[w] = "copy" /\ todo[w] # <<>>
  /\ \A v \in Worker : ~Blocks(v, w)
  /\ IF Head(todo[w]) \in details \cup tx[w]
     THEN Nak(w) /\ UNCHANGED mishaps
     ELSE /\ tx' = [tx EXCEPT ![w] = @ \cup {Head(todo[w])}]
          /\ todo' = [todo EXCEPT ![w] = Tail(@)]
          /\ UNCHANGED <<consumerVars, pc, msg, path, storeVars, mishaps>>

\* Two COPYs wait for each other: Postgres ends one of them, and the other's
\* insert goes on at once.
Deadlock(w) ==
  /\ pc[w] = "copy"
  /\ \E v \in Worker :
       /\ pc[v] = "copy" /\ Blocks(v, w) /\ Blocks(w, v)
       /\ tx' = [tx EXCEPT ![w] = {}, ![v] = @ \cup {Head(todo[v])}]
       /\ todo' = [todo EXCEPT ![w] = <<>>, ![v] = Tail(@)]
  /\ To(w, "fetch")
  /\ msg' = [msg EXCEPT ![w] = None]
  /\ Again(msg[w])
  /\ UNCHANGED <<acked, path, storeVars, mishaps>>

\* The ASNs that are not 0, without repetitions in a row.
UniqueAsns(asns) ==
  LET some == Without(asns, {0})
  IN  ElementsAt(some, {k \in DOMAIN some : k = 1 \/ some[k] # some[k - 1]})

\* The AS path of the hops' addresses, of which those known have an ASN.
AsnPath(ips, known) ==
  UniqueAsns([n \in DOMAIN ips |-> IF ips[n] \in known THEN Asn[ips[n]] ELSE 0])

\* getIPToASNMap reads inside the transaction.
Fingerprint(w) ==
  /\ pc[w] = "copy" /\ todo[w] = <<>>
  /\ path' = [path EXCEPT ![w] = AsnPath(Hops[msg[w]], details \cup tx[w])]
  /\ To(w, "publish")
  /\ UNCHANGED <<consumerVars, msg, todo, tx, storeVars, mishaps>>

\* Mutant of Publish: a failed publication is logged, and the trace goes on.
PublishOptional(w) ==
  /\ pc[w] = "publish"
  /\ \/ published' = [published EXCEPT ![msg[w]] = Append(@, path[w])] /\ UNCHANGED mishaps
     \/ Mishap("publish") /\ UNCHANGED published
  /\ To(w, "commit")
  /\ UNCHANGED <<consumerVars, msg, todo, tx, path, details, rows>>

\* Three attempts count as one that succeeds or fails.
Publish(w) ==
  /\ pc[w] = "publish"
  /\ \/ /\ published' = [published EXCEPT ![msg[w]] = Append(@, path[w])]
        /\ To(w, "commit")
        /\ UNCHANGED <<consumerVars, msg, todo, tx, path, details, rows, mishaps>>
     \/ Mishap("publish") /\ Nak(w)

\* The fingerprint, the hops and the links are in the transaction as well.
Stored(w) ==
  /\ details' = details \cup tx[w]
  /\ rows' = [rows EXCEPT ![msg[w]] = Append(@, path[w])]
  /\ UNCHANGED published

Commit(w) ==
  /\ pc[w] = "commit"
  /\ Stored(w)
  /\ To(w, "ack")
  /\ tx' = [tx EXCEPT ![w] = {}]
  /\ UNCHANGED <<consumerVars, msg, todo, path, mishaps>>

\* Mutant of CommitFails: the error is logged, and the message acknowledged.
CommitFailsAcked(w) ==
  /\ pc[w] = "commit" /\ Mishap("commit")
  /\ To(w, "ack")
  /\ tx' = [tx EXCEPT ![w] = {}]
  /\ UNCHANGED <<consumerVars, msg, todo, path, storeVars>>

CommitFails(w) ==
  /\ pc[w] = "commit" /\ Mishap("commit")
  /\ Nak(w)

\* The commit took place and its answer is lost.
CommitUnknown(w) ==
  /\ pc[w] = "commit" /\ Mishap("unknown")
  /\ Stored(w)
  /\ Finish(w)
  /\ Again(msg[w])
  /\ UNCHANGED acked

Ack(w) ==
  /\ pc[w] = "ack"
  /\ \/ acked' = acked \cup {msg[w]} /\ ready' = ready \ {msg[w]} /\ UNCHANGED mishaps
     \/ Mishap("ack") /\ Again(msg[w]) /\ UNCHANGED acked
  /\ Finish(w)
  /\ UNCHANGED storeVars

\* The transaction is rolled back, and the message comes again after AckWait.
Crash(w) ==
  /\ Mishap("crash") /\ pc[w] # "down"
  /\ To(w, "down")
  /\ msg' = [msg EXCEPT ![w] = None]
  /\ todo' = [todo EXCEPT ![w] = <<>>]
  /\ tx' = [tx EXCEPT ![w] = {}]
  /\ path' = [path EXCEPT ![w] = <<>>]
  /\ ready' = ready \cup ({msg[w]} \ (acked \cup {None}))
  /\ UNCHANGED <<streamVars, acked, storeVars>>

\* Start finds the consumer by its name, or creates it anew.
Start(w) ==
  /\ pc[w] = "down"
  /\ To(w, "fetch")
  /\ consumer' = TRUE
  /\ UNCHANGED <<coming, missed, consumerVars, msg, todo, tx, path, storeVars, mishaps>>

Handle(w) ==
  \/ Fetch(w) \/ Refuse(w) \/ SkipLb(w)
  \/ FindMissing(w) \/ Lookup(w) \/ CopyRow(w) \/ Deadlock(w)
  \/ Fingerprint(w) \/ Publish(w) \/ Commit(w) \/ CommitFails(w) \/ CommitUnknown(w)
  \/ Ack(w)

Step(w) == Handle(w) /\ UNCHANGED streamVars

Next ==
  \/ AckWait \/ Forget
  \/ \E m \in Trace : Report(m)
  \/ \E w \in Worker : Step(w) \/ Crash(w) \/ Start(w)

Spec == Init /\ [][Next]_vars

\* An instance that can take a step does, and the consumer delivers each
\* message that waits in the end, however often others are naked.
FairSpec ==
  /\ Spec
  /\ \A w \in Worker : WF_vars(Step(w))
  /\ \A m \in Trace : SF_vars(\E w \in Worker : Fetch(w) /\ msg'[w] = m /\ UNCHANGED streamVars)

-----------------------------------------------------------------------------
(* Properties *)

TypeOK ==
  /\ ready \subseteq Trace /\ acked \subseteq Trace
  /\ mishaps \in 0..MaxMishaps
  /\ pc \in [Worker -> {"down", "fetch", "handle", "lookup", "copy", "publish", "commit", "ack"}]
  /\ msg \in [Worker -> Trace \cup {None}]
  /\ \A w \in Worker : (pc[w] \in {"down", "fetch"}) = (msg[w] = None)
  /\ todo \in [Worker -> Seq(Ip)]
  /\ tx \in [Worker -> SUBSET Ip]
  /\ details \subseteq Ip

\* A trace that is acknowledged, and so never delivered again, is in the
\* database; only tracelb is dropped.
AckedIsStored == \A m \in acked \ Lb : rows[m] # <<>>

\* Argus is told of every trace the database has: the event goes out inside the
\* transaction, before the commit.
StoredIsPublished == \A m \in Trace : Len(rows[m]) <= Len(published[m])

\* The AS path of each trace when every address that has an ASN has its row.
FullPath == [m \in Trace |-> AsnPath(Hops[m], Ip)]

\* The AS path that is published and stored depends on the trace alone, not on
\* which addresses were known, what other instances insert meanwhile, or which
\* delivery this is: Argus takes a different fingerprint for a route change.
OnePath ==
  \A m \in Trace :
    Range(published[m]) \cup Range(rows[m]) \subseteq {FullPath[m]}

\* Instances that enrich the same addresses at once do not starve each other,
\* and no failure of one delivery is the last word: a trace the consumer has is
\* stored in the end, unless every instance is gone or the consumer itself is
\* forgotten.
TracesAreStored ==
  <>[](\E w \in Worker : pc[w] # "down") =>
    \A m \in Trace \ (Bad \cup Lb) :
      (m \in ready) ~> (rows[m] # <<>> \/ m \in missed)

\* What the stream would promise to a durable consumer: a trace reported while
\* every instance was down is stored once one is up again.
ReportedTracesAreStored ==
  <>[](\E w \in Worker : pc[w] # "down") =>
    \A m \in Trace \ (Bad \cup Lb) :
      (m \in ready \cup missed) ~> (rows[m] # <<>>)

=============================================================================

------------------------ MODULE TraceProcessorProofs ------------------------
(***************************************************************************)
(* Proofs about TraceProcessor, for any number of instances, any traces    *)
(* and hops, any faults and any number of them (part 1), and about         *)
(* TraceLinks, for traces of any length (part 2).                          *)
(*                                                                         *)
(* A trace has one AS path because, when an instance computes it, every    *)
(* address of the trace that has an ASN has its row: committed, or         *)
(* inserted by the instance's own transaction.  The inductive invariant    *)
(* follows the addresses that have not got one yet from the lookup through *)
(* the COPY, while other instances commit rows of the same addresses.  The *)
(* event precedes the rows for each delivery, and several deliveries of    *)
(* one trace may be handled at once, so the events are counted against the *)
(* rows and the instances about to commit.                                 *)
(*                                                                         *)
(* The links of a trace are its pairs of neighbours because a probe's path *)
(* has one hop per TTL in the order of the TTLs, so that neighbours in the *)
(* path are neighbours in the trace, and because the probe is part of a    *)
(* link's key: no other probe's links make one of its own a repetition.    *)
(***************************************************************************)
EXTENDS TraceProcessor, TraceLinks, SubsequencesProofs, FiniteSetTheorems

\* The AS path of trace m.
PathOf(m) == AsnPath(Hops[m], Ip)

InSeq(x, s) == \E k \in DOMAIN s : s[k] = x

\* Each address of trace m that has an ASN is among known or among those still to do.
Covered(m, known, left) ==
  \A n \in DOMAIN Hops[m] :
    Asn[Hops[m][n]] # 0 => Hops[m][n] \in known \/ InSeq(Hops[m][n], left)

\* What instance w has done of its trace.
WorkingOf(w) ==
  /\ pc[w] = "lookup" => Covered(msg[w], details, todo[w])
  /\ pc[w] = "copy" => Covered(msg[w], details \cup tx[w], todo[w])
  /\ pc[w] \in {"publish", "commit"} => path[w] = PathOf(msg[w])
  /\ pc[w] = "ack" => msg[w] \in Lb \/ Len(rows[msg[w]]) > 0

Working == \A w \in Worker : WorkingOf(w)

\* Only the one AS path of a trace is published and stored.
AllPaths == {PathOf(m) : m \in Trace}

OnlyPaths(count) ==
  /\ count \in [Trace -> Seq(AllPaths)]
  /\ \A m \in Trace : \A k \in DOMAIN count[m] : count[m][k] = PathOf(m)

Paths == DOMAIN path = Worker /\ OnlyPaths(published) /\ OnlyPaths(rows)

\* The instances that have published trace m and not committed yet.
Committers(m) == {w \in Worker : pc[w] = "commit" /\ msg[w] = m}

Counted == \A m \in Trace : Len(rows[m]) + Cardinality(Committers(m)) <= Len(published[m])

\* AckedIsStored, with the length of the sequence.
AckedHaveRows == \A m \in acked \ Lb : Len(rows[m]) > 0

\* The inductive invariant.
IInv == TypeOK /\ Paths /\ Working /\ Counted /\ AckedHaveRows

-----------------------------------------------------------------------------
(* The addresses of a trace *)

LEMMA CoveredMore ==
  ASSUME NEW m \in Trace, NEW known, NEW more, NEW left, known \subseteq more, Covered(m, known, left)
  PROVE  Covered(m, more, left)
BY DEF Covered

\* The address a COPY inserts moves from those still to do to the known ones.
LEMMA CoveredCopy ==
  ASSUME NEW m \in Trace, NEW known, NEW left \in Seq(Ip), left # <<>>, Covered(m, known, left)
  PROVE  Covered(m, known \cup {Head(left)}, Tail(left))
<1>1. ASSUME NEW x, InSeq(x, left) PROVE x = Head(left) \/ InSeq(x, Tail(left))
  <2>1. PICK k \in DOMAIN left : left[k] = x
    BY <1>1 DEF InSeq
  <2>2. CASE k = 1
    BY <2>1, <2>2
  <2>3. CASE k # 1
    <3>1. k - 1 \in DOMAIN Tail(left) /\ Tail(left)[k - 1] = left[k]
      BY <2>1, <2>3
    <3> QED BY <2>1, <3>1 DEF InSeq
  <2> QED BY <2>2, <2>3
<1> QED BY <1>1 DEF Covered

\* Nothing left to do: every address with an ASN is known, and the path is the trace's.
LEMMA CoveredPath ==
  ASSUME NEW m \in Trace, NEW known \in SUBSET Ip, NEW left, left = <<>>, Covered(m, known, left)
  PROVE  AsnPath(Hops[m], known) = PathOf(m)
<1>1. Hops[m] \in Seq(Ip)
  BY TraceAssumption
<1>2. ASSUME NEW n \in DOMAIN Hops[m]
      PROVE  (IF Hops[m][n] \in known THEN Asn[Hops[m][n]] ELSE 0)
               = (IF Hops[m][n] \in Ip THEN Asn[Hops[m][n]] ELSE 0)
  <2>1. ~InSeq(Hops[m][n], left)
    BY DEF InSeq
  <2>2. Hops[m][n] \in Ip
    BY <1>1
  <2> QED BY <2>1, <2>2 DEF Covered
<1>3. [n \in DOMAIN Hops[m] |-> IF Hops[m][n] \in known THEN Asn[Hops[m][n]] ELSE 0]
        = [n \in DOMAIN Hops[m] |-> IF Hops[m][n] \in Ip THEN Asn[Hops[m][n]] ELSE 0]
  BY <1>2
<1> QED BY <1>3, Zenon DEF PathOf, AsnPath

\* What FindMissing leaves out has a row.
LEMMA CoveredMissing ==
  ASSUME NEW m \in Trace, NEW known
  PROVE  /\ Without(Hops[m], known) \in Seq(Ip)
         /\ Covered(m, known, Without(Hops[m], known))
<1>1. Hops[m] \in Seq(Ip)
  BY TraceAssumption
<1>2. PICK left : left = Without(Hops[m], known)
  OBVIOUS
<1>3. /\ left \in Seq(Ip)
      /\ \A n \in DOMAIN Hops[m] : Hops[m][n] \notin known => \E k \in DOMAIN left : left[k] = Hops[m][n]
  BY <1>1, <1>2, WithoutElements
<1> QED BY <1>2, <1>3 DEF Covered, InSeq

\* What the service leaves out has no ASN.
LEMMA AnsweredElements ==
  ASSUME NEW ips \in Seq(Ip)
  PROVE  /\ Answered(ips) \in Seq(Ip)
         /\ \A n \in DOMAIN ips : Asn[ips[n]] # 0 => InSeq(ips[n], Answered(ips))
<1>1. PICK private : private = {ip \in Ip : Asn[ip] = 0}
  BY Zenon
<1>2. PICK public : public = Without(ips, private)
  OBVIOUS
<1>3. /\ public \in Seq(Ip)
      /\ \A n \in DOMAIN ips : ips[n] \notin private => \E k \in DOMAIN public : public[k] = ips[n]
  BY <1>2, WithoutElements
<1>4. PICK once : once = Distinct(public)
  OBVIOUS
<1>5. once \in Seq(Ip) /\ \A n \in DOMAIN public : \E k \in DOMAIN once : once[k] = public[n]
  BY <1>3, <1>4, DistinctElements
<1>6. Answered(ips) = IF EachAsked THEN public ELSE once
  BY <1>1, <1>2, <1>4, Zenon DEF Answered
<1>7. ASSUME NEW n \in DOMAIN ips, Asn[ips[n]] # 0 PROVE InSeq(ips[n], Answered(ips))
  <2>1. ips[n] \notin private
    BY <1>1, <1>7
  <2>2. PICK k \in DOMAIN public : public[k] = ips[n]
    BY <1>3, <2>1
  <2>3. \E j \in DOMAIN once : once[j] = ips[n]
    BY <1>5, <2>2
  <2> QED BY <1>6, <2>2, <2>3 DEF InSeq
<1> QED BY <1>3, <1>5, <1>6, <1>7

LEMMA CoveredAnswered ==
  ASSUME NEW m \in Trace, NEW known, NEW ips \in Seq(Ip), Covered(m, known, ips)
  PROVE  Answered(ips) \in Seq(Ip) /\ Covered(m, known, Answered(ips))
<1>1. Answered(ips) \in Seq(Ip) /\ \A n \in DOMAIN ips : Asn[ips[n]] # 0 => InSeq(ips[n], Answered(ips))
  BY AnsweredElements
<1>2. ASSUME NEW n \in DOMAIN Hops[m], Asn[Hops[m][n]] # 0
      PROVE  Hops[m][n] \in known \/ InSeq(Hops[m][n], Answered(ips))
  <2>1. CASE Hops[m][n] \in known
    BY <2>1
  <2>2. CASE InSeq(Hops[m][n], ips)
    <3>1. PICK k \in DOMAIN ips : ips[k] = Hops[m][n]
      BY <2>2 DEF InSeq
    <3> QED BY <1>1, <1>2, <3>1
  <2> QED BY <1>2, <2>1, <2>2 DEF Covered
<1> QED BY <1>1, <1>2 DEF Covered

-----------------------------------------------------------------------------
(* Steps that neither publish, nor commit, nor acknowledge *)

\* Instance w is as it was.
Same(w) ==
  /\ pc'[w] = pc[w] /\ msg'[w] = msg[w] /\ todo'[w] = todo[w] /\ tx'[w] = tx[w] /\ path'[w] = path[w]

LEMMA CommittersFinite ==
  ASSUME NEW m
  PROVE  IsFiniteSet(Committers(m)) /\ Cardinality(Committers(m)) \in Nat
<1>1. Committers(m) \subseteq Worker
  BY DEF Committers
<1>2. IsFiniteSet(Committers(m))
  BY <1>1, FS_Subset, TraceAssumption
<1> QED BY <1>2, FS_CardinalityType

\* Instances that stop committing make the count no worse.
LEMMA FewerCommitters ==
  ASSUME \A w \in Worker : pc'[w] = "commit" => pc[w] = "commit" /\ msg'[w] = msg[w], NEW m
  PROVE  Cardinality(Committers(m)') <= Cardinality(Committers(m))
<1>1. Committers(m)' \subseteq Committers(m)
  BY DEF Committers
<1> QED BY <1>1, FS_Subset, CommittersFinite

LEMMA QuietPreserves ==
  ASSUME IInv, TypeOK', DOMAIN path' = Worker, UNCHANGED <<published, rows, details, acked>>,
         \A w \in Worker : Same(w) \/ (pc'[w] # "commit" /\ WorkingOf(w)')
  PROVE  IInv'
<1>1. Paths' /\ AckedHaveRows'
  BY DEF IInv, Paths, OnlyPaths, AckedHaveRows
<1>2. Working'
  <2>1. ASSUME NEW w \in Worker, Same(w) PROVE WorkingOf(w)'
    <3>1. WorkingOf(w)
      BY DEF IInv, Working
    <3> QED BY <2>1, <3>1 DEF WorkingOf, Same
  <2> QED BY <2>1 DEF Working
<1>3. Counted'
  <2>1. ASSUME NEW m \in Trace PROVE Len(rows'[m]) + Cardinality(Committers(m)') <= Len(published'[m])
    <3>1. Cardinality(Committers(m)') <= Cardinality(Committers(m))
      BY FewerCommitters DEF Same
    <3>2. Cardinality(Committers(m)') \in Nat /\ Cardinality(Committers(m)) \in Nat
      <4>1. Committers(m)' \subseteq Worker
        BY DEF Committers
      <4> QED BY <4>1, CommittersFinite, FS_Subset, FS_CardinalityType, TraceAssumption
    <3>3. Len(rows[m]) \in Nat /\ Len(published[m]) \in Nat
      BY DEF IInv, Paths, OnlyPaths
    <3> QED BY <3>1, <3>2, <3>3 DEF IInv, Counted
  <2> QED BY <2>1 DEF Counted
<1> QED BY <1>1, <1>2, <1>3 DEF IInv

\* The message goes back: its worker is idle or down.
LEMMA GoneBack ==
  ASSUME IInv, NEW w \in Worker, NEW label \in {"fetch", "down"},
         To(w, label), msg' = [msg EXCEPT ![w] = None], todo' = [todo EXCEPT ![w] = <<>>],
         tx' = [tx EXCEPT ![w] = {}], path' = [path EXCEPT ![w] = <<>>],
         ready' \subseteq Trace, acked' \subseteq Trace, mishaps' \in 0..MaxMishaps, details' \subseteq Ip
  PROVE  /\ TypeOK'
         /\ pc'[w] = label /\ msg'[w] = None /\ DOMAIN path' = Worker
         /\ \A v \in Worker : v # w => Same(v)
<1> USE DEF IInv, TypeOK, To
<1>1. /\ pc'[w] = label /\ msg'[w] = None /\ DOMAIN path' = Worker
      /\ \A v \in Worker : v # w => Same(v)
  BY DEF Paths, Same
<1>2. todo' \in [Worker -> Seq(Ip)]
  <2>1. PICK empty : empty = <<>>
    OBVIOUS
  <2>2. empty \in Seq(Ip)
    BY <2>1
  <2> QED BY <2>1, <2>2
<1>3. /\ pc' \in [Worker -> {"down", "fetch", "handle", "lookup", "copy", "publish", "commit", "ack"}]
      /\ msg' \in [Worker -> Trace \cup {None}] /\ tx' \in [Worker -> SUBSET Ip]
  OBVIOUS
<1>4. \A v \in Worker : (pc'[v] \in {"down", "fetch"}) = (msg'[v] = None)
  BY <1>1 DEF Same
<1> QED BY <1>1, <1>2, <1>3, <1>4

\* A worker that is idle or down has done nothing.
LEMMA IdleWorks ==
  ASSUME NEW w, pc[w] \in {"fetch", "down", "handle"}
  PROVE  WorkingOf(w)
BY DEF WorkingOf

LEMMA NakPreserves ==
  ASSUME IInv, NEW w \in Worker, msg[w] \in Trace, Nak(w), mishaps' \in 0..MaxMishaps
  PROVE  IInv'
<1>1. /\ TypeOK' /\ pc'[w] = "fetch" /\ DOMAIN path' = Worker
      /\ \A v \in Worker : v # w => Same(v)
  <2>1. ready' \subseteq Trace /\ acked' \subseteq Trace /\ details' \subseteq Ip
    BY DEF IInv, TypeOK, Nak, Again, storeVars
  <2> QED BY <2>1, GoneBack, Zenon DEF Nak, Finish
<1>2. pc'[w] # "commit" /\ WorkingOf(w)'
  BY <1>1 DEF WorkingOf
<1> QED BY <1>1, <1>2, QuietPreserves DEF Nak, storeVars

LEMMA FetchPreserves == ASSUME IInv, NEW w \in Worker, Fetch(w) PROVE IInv'
<1>1. PICK m \in ready : /\ ready' = ready \ {m} /\ msg' = [msg EXCEPT ![w] = m]
                         /\ pc' = [pc EXCEPT ![w] = "handle"]
                         /\ UNCHANGED <<acked, todo, tx, path, storeVars, mishaps>>
  BY Zenon DEF Fetch, To
<1>2. m \in Trace /\ m # None
  BY TraceAssumption DEF IInv, TypeOK
<1>3. TypeOK' /\ pc'[w] = "handle" /\ DOMAIN path' = Worker /\ \A v \in Worker : v # w => Same(v)
  BY <1>1, <1>2 DEF IInv, TypeOK, Paths, Same, storeVars
<1>4. pc'[w] # "commit" /\ WorkingOf(w)'
  BY <1>3 DEF WorkingOf
<1> QED BY <1>1, <1>3, <1>4, QuietPreserves DEF storeVars

\* A worker goes on with its trace without a new message.
LEMMA GoesOn ==
  ASSUME IInv, NEW w \in Worker, NEW label, pc[w] \notin {"down", "fetch"}, To(w, label),
         label \in {"handle", "lookup", "copy", "publish", "ack"}, msg' = msg,
         todo' \in [Worker -> Seq(Ip)], tx' \in [Worker -> SUBSET Ip], DOMAIN path' = Worker,
         \A v \in Worker : v # w => todo'[v] = todo[v] /\ tx'[v] = tx[v] /\ path'[v] = path[v],
         pc'[w] = label => WorkingOf(w)',
         UNCHANGED <<consumerVars, storeVars, mishaps>>
  PROVE  IInv'
<1>1. /\ pc'[w] = label /\ \A v \in Worker : v # w => pc'[v] = pc[v]
      /\ pc' \in [Worker -> {"down", "fetch", "handle", "lookup", "copy", "publish", "commit", "ack"}]
  BY DEF IInv, TypeOK, To
<1>2. TypeOK'
  <2>1. ASSUME NEW v \in Worker PROVE (pc'[v] \in {"down", "fetch"}) = (msg'[v] = None)
    <3>1. (pc[v] \in {"down", "fetch"}) = (msg[v] = None)
      BY DEF IInv, TypeOK
    <3>2. pc'[v] \in {"down", "fetch"} <=> pc[v] \in {"down", "fetch"}
      BY <1>1
    <3> QED BY <3>1, <3>2
  <2> QED BY <1>1, <2>1 DEF IInv, TypeOK, consumerVars, storeVars
<1>3. \A v \in Worker : Same(v) \/ (pc'[v] # "commit" /\ WorkingOf(v)')
  BY <1>1 DEF Same
<1> QED BY <1>2, <1>3, QuietPreserves DEF consumerVars, storeVars

\* A worker that handles a message has one.
LEMMA HasMessage ==
  ASSUME IInv, NEW w \in Worker, pc[w] \notin {"down", "fetch"}
  PROVE  msg[w] \in Trace
BY DEF IInv, TypeOK

\* A failure is counted within the bound.
LEMMA MishapCounted ==
  ASSUME IInv, NEW fault, Mishap(fault)
  PROVE  mishaps' \in 0..MaxMishaps
<1>1. mishaps \in 0..MaxMishaps /\ MaxMishaps \in Nat
  BY TraceAssumption DEF IInv, TypeOK
<1>2. mishaps < MaxMishaps /\ mishaps' = mishaps + 1
  BY DEF Mishap
<1> QED BY <1>1, <1>2

LEMMA SkipLbPreserves == ASSUME IInv, NEW w \in Worker, SkipLb(w) PROVE IInv'
<1>1. pc'[w] = "ack" => WorkingOf(w)'
  BY DEF SkipLb, WorkingOf
<1> QED BY <1>1, GoesOn, Zenon DEF SkipLb, IInv, TypeOK, Paths

LEMMA FindMissingPreserves == ASSUME IInv, NEW w \in Worker, FindMissing(w) PROVE IInv'
<1>1. PICK missing : missing = Without(Hops[msg[w]], details)
  OBVIOUS
<1>2. missing \in Seq(Ip) /\ Covered(msg[w], details, missing)
  BY <1>1, HasMessage, CoveredMissing DEF FindMissing
<1>3. /\ todo' = [todo EXCEPT ![w] = missing] /\ To(w, "lookup") /\ pc[w] = "handle"
      /\ UNCHANGED <<consumerVars, msg, tx, path, storeVars, mishaps>>
  BY <1>1 DEF FindMissing
<1>4. todo' \in [Worker -> Seq(Ip)] /\ todo'[w] = missing /\ \A v \in Worker : v # w => todo'[v] = todo[v]
  BY <1>2, <1>3 DEF IInv, TypeOK
<1>5. pc'[w] = "lookup" => WorkingOf(w)'
  BY <1>2, <1>3, <1>4 DEF WorkingOf, storeVars
<1> QED BY <1>3, <1>4, <1>5, GoesOn, Zenon DEF IInv, TypeOK, Paths

LEMMA LookupPreserves == ASSUME IInv, NEW w \in Worker, Lookup(w) PROVE IInv'
<1>1. CASE Mishap("lookup") /\ Nak(w)
  BY <1>1, HasMessage, NakPreserves, TraceAssumption DEF Lookup, Mishap, IInv, TypeOK
<1>2. CASE /\ todo' = [todo EXCEPT ![w] = Answered(@)] /\ To(w, "copy")
           /\ UNCHANGED <<consumerVars, msg, tx, path, storeVars, mishaps>>
  <2>1. PICK found : found = Answered(todo[w])
    OBVIOUS
  <2>2. pc[w] = "lookup" /\ msg[w] \in Trace /\ todo[w] \in Seq(Ip) /\ Covered(msg[w], details, todo[w])
    BY HasMessage, Zenon DEF Lookup, IInv, TypeOK, Working, WorkingOf
  <2>3. found \in Seq(Ip) /\ Covered(msg[w], details, found)
    BY <2>1, <2>2, CoveredAnswered
  <2>4. /\ todo' = [todo EXCEPT ![w] = found]
        /\ todo' \in [Worker -> Seq(Ip)] /\ todo'[w] = found /\ \A v \in Worker : v # w => todo'[v] = todo[v]
    BY <1>2, <2>1, <2>3 DEF IInv, TypeOK
  <2>5. Covered(msg[w], details \cup tx[w], found)
    BY <2>2, <2>3, CoveredMore
  <2>6. pc'[w] = "copy" => WorkingOf(w)'
    BY <1>2, <2>4, <2>5 DEF WorkingOf, storeVars
  <2> QED BY <1>2, <2>2, <2>4, <2>6, GoesOn, Zenon DEF IInv, TypeOK, Paths
<1> QED BY <1>1, <1>2 DEF Lookup

LEMMA CopyRowPreserves == ASSUME IInv, NEW w \in Worker, CopyRow(w) PROVE IInv'
<1>1. CASE Head(todo[w]) \in details \cup tx[w]
  BY <1>1, HasMessage, NakPreserves DEF CopyRow, IInv, TypeOK
<1>2. CASE Head(todo[w]) \notin details \cup tx[w]
  <2>1. /\ tx' = [tx EXCEPT ![w] = @ \cup {Head(todo[w])}]
        /\ todo' = [todo EXCEPT ![w] = Tail(@)] /\ pc[w] = "copy" /\ todo[w] # <<>>
        /\ UNCHANGED <<consumerVars, pc, msg, path, storeVars, mishaps>>
    BY <1>2 DEF CopyRow
  <2>2. todo[w] \in Seq(Ip) /\ Head(todo[w]) \in Ip /\ Tail(todo[w]) \in Seq(Ip) /\ msg[w] \in Trace
    <3>1. todo[w] \in Seq(Ip) /\ todo[w] # <<>>
      BY <2>1, Zenon DEF IInv, TypeOK
    <3>2. Head(todo[w]) \in Ip /\ Tail(todo[w]) \in Seq(Ip)
      BY <3>1
    <3>3. msg[w] \in Trace
      BY <2>1, HasMessage
    <3> QED BY <3>1, <3>2, <3>3, Zenon
  <2>3. Covered(msg[w], (details \cup tx[w]) \cup {Head(todo[w])}, Tail(todo[w]))
    BY <2>1, <2>2, CoveredCopy, Zenon DEF IInv, Working, WorkingOf
  <2>4. /\ todo' \in [Worker -> Seq(Ip)] /\ todo'[w] = Tail(todo[w])
        /\ tx' \in [Worker -> SUBSET Ip] /\ tx'[w] = tx[w] \cup {Head(todo[w])}
        /\ \A v \in Worker : v # w => todo'[v] = todo[v] /\ tx'[v] = tx[v]
    BY <2>1, <2>2 DEF IInv, TypeOK
  <2>5. details \cup tx'[w] = (details \cup tx[w]) \cup {Head(todo[w])}
    BY <2>4
  <2>6. pc'[w] = "copy" => WorkingOf(w)'
    BY <2>1, <2>3, <2>4, <2>5, Zenon DEF WorkingOf, storeVars
  <2>7. To(w, "copy")
    BY <2>1 DEF To, IInv, TypeOK
  <2> QED BY <2>1, <2>4, <2>6, <2>7, GoesOn, Zenon DEF IInv, TypeOK, Paths
<1> QED BY <1>1, <1>2

LEMMA DeadlockPreserves == ASSUME IInv, NEW w \in Worker, Deadlock(w) PROVE IInv'
<1>1. PICK v \in Worker :
        /\ pc[v] = "copy" /\ v # w /\ todo[v] # <<>>
        /\ tx' = [tx EXCEPT ![w] = {}, ![v] = @ \cup {Head(todo[v])}]
        /\ todo' = [todo EXCEPT ![w] = <<>>, ![v] = Tail(@)]
  BY Zenon DEF Deadlock, Blocks
<1>2. /\ pc[w] = "copy" /\ pc' = [pc EXCEPT ![w] = "fetch"] /\ msg' = [msg EXCEPT ![w] = None]
      /\ Again(msg[w]) /\ UNCHANGED <<acked, path, storeVars, mishaps>>
  BY DEF Deadlock, To
<1>3. /\ msg[w] \in Trace /\ msg[v] \in Trace
      /\ todo[v] \in Seq(Ip) /\ Head(todo[v]) \in Ip /\ Tail(todo[v]) \in Seq(Ip)
  <2>1. msg[w] \in Trace /\ msg[v] \in Trace
    BY <1>1, <1>2, HasMessage
  <2>2. todo[v] \in Seq(Ip)
    BY DEF IInv, TypeOK
  <2> QED BY <1>1, <2>1, <2>2
<1>4. PICK empty : empty = <<>>
  OBVIOUS
<1>5. empty \in Seq(Ip) /\ todo' = [todo EXCEPT ![w] = empty, ![v] = Tail(@)]
  BY <1>1, <1>4
<1>6. /\ todo' \in [Worker -> Seq(Ip)] /\ todo'[v] = Tail(todo[v])
      /\ tx' \in [Worker -> SUBSET Ip] /\ tx'[v] = tx[v] \cup {Head(todo[v])}
      /\ pc' \in [Worker -> {"down", "fetch", "handle", "lookup", "copy", "publish", "commit", "ack"}]
      /\ msg' \in [Worker -> Trace \cup {None}] /\ pc'[w] = "fetch" /\ msg'[w] = None
      /\ \A u \in Worker : u # w => pc'[u] = pc[u] /\ msg'[u] = msg[u]
      /\ \A u \in Worker : u # w /\ u # v => todo'[u] = todo[u] /\ tx'[u] = tx[u]
  BY <1>1, <1>2, <1>3, <1>5, ZenonT(60) DEF IInv, TypeOK
<1>7. TypeOK'
  <2>1. ASSUME NEW u \in Worker PROVE (pc'[u] \in {"down", "fetch"}) = (msg'[u] = None)
    <3>1. CASE u = w
      BY <1>6, <3>1
    <3>2. CASE u # w
      BY <1>6, <3>2 DEF IInv, TypeOK
    <3> QED BY <3>1, <3>2
  <2>2. ready' \subseteq Trace
    BY <1>2, <1>3 DEF IInv, TypeOK, Again
  <2> QED BY <1>2, <1>6, <2>1, <2>2 DEF IInv, TypeOK, storeVars
<1>8. WorkingOf(v)'
  <2>1. Covered(msg[v], (details \cup tx[v]) \cup {Head(todo[v])}, Tail(todo[v]))
    BY <1>1, <1>3, CoveredCopy, Zenon DEF IInv, Working, WorkingOf
  <2>2. details' \cup tx'[v] = (details \cup tx[v]) \cup {Head(todo[v])} /\ pc'[v] = "copy" /\ msg'[v] = msg[v]
    BY <1>1, <1>2, <1>6 DEF storeVars
  <2> QED BY <1>6, <2>1, <2>2, Zenon DEF WorkingOf
<1>9. WorkingOf(w)'
  BY <1>6 DEF WorkingOf
<1>10. \A u \in Worker : Same(u) \/ (pc'[u] # "commit" /\ WorkingOf(u)')
  BY <1>1, <1>2, <1>6, <1>8, <1>9 DEF Same
<1> QED BY <1>2, <1>7, <1>10, QuietPreserves DEF storeVars, IInv, Paths

LEMMA FingerprintPreserves == ASSUME IInv, NEW w \in Worker, Fingerprint(w) PROVE IInv'
<1>1. PICK p : p = AsnPath(Hops[msg[w]], details \cup tx[w])
  OBVIOUS
<1>2. /\ pc[w] = "copy" /\ todo[w] = <<>> /\ path' = [path EXCEPT ![w] = p] /\ To(w, "publish")
      /\ UNCHANGED <<consumerVars, msg, todo, tx, storeVars, mishaps>>
  BY <1>1 DEF Fingerprint
<1>3. msg[w] \in Trace /\ details \cup tx[w] \in SUBSET Ip /\ Covered(msg[w], details \cup tx[w], todo[w])
  BY <1>2, HasMessage, Zenon DEF IInv, TypeOK, Working, WorkingOf
<1>4. p = PathOf(msg[w])
  BY <1>1, <1>2, <1>3, CoveredPath
<1>5. DOMAIN path' = Worker /\ path'[w] = p /\ \A v \in Worker : v # w => path'[v] = path[v]
  BY <1>2 DEF IInv, Paths
<1>6. pc'[w] = "publish" => WorkingOf(w)'
  BY <1>2, <1>4, <1>5 DEF WorkingOf
<1> QED BY <1>2, <1>5, <1>6, GoesOn, Zenon DEF IInv, TypeOK

-----------------------------------------------------------------------------
(* Publishing, committing and acknowledging *)

\* Trace m's path is counted once more.
OnceMore(count, new, m) == new = [count EXCEPT ![m] = Append(@, PathOf(m))]

LEMMA CountedOnceMore ==
  ASSUME NEW m \in Trace, NEW count, NEW new, OnlyPaths(count), OnceMore(count, new, m)
  PROVE  /\ OnlyPaths(new)
         /\ Len(new[m]) = Len(count[m]) + 1 /\ Len(count[m]) \in Nat
         /\ \A x \in Trace : x # m => new[x] = count[x]
<1> USE DEF OnlyPaths
<1>1. PathOf(m) \in AllPaths
  BY DEF AllPaths
<1>2. PICK p \in AllPaths : p = PathOf(m)
  BY <1>1
<1>3. PICK longer : longer = Append(count[m], p)
  BY Zenon
<1>4. /\ longer \in Seq(AllPaths) /\ Len(longer) = Len(count[m]) + 1 /\ Len(count[m]) \in Nat
      /\ \A k \in DOMAIN longer : longer[k] = p
  <2>1. count[m] \in Seq(AllPaths) /\ \A k \in DOMAIN count[m] : count[m][k] = p
    BY <1>2
  <2> QED BY <1>3, <2>1
<1>5. new = [count EXCEPT ![m] = longer]
  BY <1>2, <1>3 DEF OnceMore
<1>6. new[m] = longer /\ \A x \in Trace : x # m => new[x] = count[x]
  BY <1>5
<1>7. new \in [Trace -> Seq(AllPaths)]
  BY <1>4, <1>5
<1>8. ASSUME NEW x \in Trace, NEW k \in DOMAIN new[x] PROVE new[x][k] = PathOf(x)
  <2>1. CASE x = m
    BY <1>2, <1>4, <1>6, <2>1, Zenon
  <2>2. CASE x # m
    BY <1>6, <2>2
  <2> QED BY <2>1, <2>2
<1> QED BY <1>4, <1>6, <1>7, <1>8

LEMMA PublishPreserves == ASSUME IInv, NEW w \in Worker, Publish(w) PROVE IInv'
<1>1. CASE Mishap("publish") /\ Nak(w)
  <2>1. pc[w] = "publish"
    BY DEF Publish
  <2>2. msg[w] \in Trace
    BY <2>1, HasMessage
  <2> QED BY <1>1, <2>2, MishapCounted, NakPreserves, Zenon
<1>2. CASE /\ published' = [published EXCEPT ![msg[w]] = Append(@, path[w])]
           /\ To(w, "commit")
           /\ UNCHANGED <<consumerVars, msg, todo, tx, path, details, rows, mishaps>>
  <2>1. PICK m : m = msg[w]
    OBVIOUS
  <2>2. pc[w] = "publish" /\ m \in Trace /\ path[w] = PathOf(m)
    BY <2>1, HasMessage, Zenon DEF Publish, IInv, Working, WorkingOf
  <2>3. OnceMore(published, published', m)
    BY <1>2, <2>1, <2>2, Zenon DEF OnceMore
  <2>4. /\ OnlyPaths(published')
        /\ Len(published'[m]) = Len(published[m]) + 1 /\ Len(published[m]) \in Nat
        /\ \A x \in Trace : x # m => published'[x] = published[x]
    BY <2>2, <2>3, CountedOnceMore DEF IInv, Paths
  <2>5. /\ pc'[w] = "commit" /\ \A v \in Worker : v # w => pc'[v] = pc[v]
        /\ pc' \in [Worker -> {"down", "fetch", "handle", "lookup", "copy", "publish", "commit", "ack"}]
    BY <1>2 DEF IInv, TypeOK, To
  <2>6. TypeOK'
    <3>1. ASSUME NEW v \in Worker PROVE (pc'[v] \in {"down", "fetch"}) = (msg'[v] = None)
      <4>1. (pc[v] \in {"down", "fetch"}) = (msg[v] = None)
        BY DEF IInv, TypeOK
      <4>2. pc'[v] \in {"down", "fetch"} <=> pc[v] \in {"down", "fetch"}
        BY <2>2, <2>5, Zenon
      <4>3. msg'[v] = msg[v]
        BY <1>2, Zenon
      <4> QED BY <4>1, <4>2, <4>3
    <3> QED BY <1>2, <2>5, <3>1, Zenon DEF IInv, TypeOK, consumerVars
  <2>7. Paths' /\ AckedHaveRows'
    BY <1>2, <2>4 DEF IInv, Paths, OnlyPaths, AckedHaveRows, consumerVars
  <2>8. Working'
    <3>1. ASSUME NEW v \in Worker PROVE WorkingOf(v)'
      <4>1. WorkingOf(v)
        BY Zenon DEF IInv, Working
      <4>2. CASE v = w
        BY <1>2, <2>1, <2>2, <2>5, <4>2, Zenon DEF WorkingOf
      <4>3. CASE v # w
        BY <1>2, <2>5, <4>1, <4>3 DEF WorkingOf
      <4> QED BY <4>2, <4>3
    <3> QED BY <3>1 DEF Working
  <2>9. Counted'
    <3>1. ASSUME NEW x \in Trace PROVE Len(rows'[x]) + Cardinality(Committers(x)') <= Len(published'[x])
      <4>0. /\ Len(rows[x]) \in Nat /\ rows' = rows /\ Cardinality(Committers(x)) \in Nat /\ IsFiniteSet(Committers(x))
            /\ Len(rows[x]) + Cardinality(Committers(x)) <= Len(published[x]) /\ Len(published[x]) \in Nat
        BY <1>2, CommittersFinite DEF IInv, Paths, OnlyPaths, Counted
      <4>1. CASE x = m
        <5>1. Committers(x)' = Committers(x) \cup {w} /\ w \notin Committers(x)
          BY <1>2, <2>1, <2>2, <2>5, <4>1 DEF Committers
        <5>2. Cardinality(Committers(x)') = Cardinality(Committers(x)) + 1
          BY <4>0, <5>1, FS_AddElement, Zenon
        <5> QED BY <2>4, <4>0, <4>1, <5>2, SMTT(30)
      <4>2. CASE x # m
        <5>1. Committers(x)' = Committers(x)
          BY <1>2, <2>1, <2>5, <4>2, Zenon DEF Committers
        <5> QED BY <2>4, <4>0, <4>2, <5>1, Zenon
      <4> QED BY <4>1, <4>2, Zenon
    <3> QED BY <3>1 DEF Counted
  <2> QED BY <2>6, <2>7, <2>8, <2>9 DEF IInv
<1> QED BY <1>1, <1>2, Zenon DEF Publish

\* The transaction takes place: the instance commits no more, and the trace has
\* a row more.
LEMMA StoredPreserves ==
  ASSUME IInv, NEW w \in Worker, pc[w] = "commit", Stored(w), TypeOK', acked' = acked,
         DOMAIN path' = Worker, \A v \in Worker : v # w => Same(v),
         pc'[w] = "fetch" \/ (pc'[w] = "ack" /\ msg'[w] = msg[w])
  PROVE  IInv'
<1>1. PICK m : m = msg[w]
  OBVIOUS
<1>2. m \in Trace /\ path[w] = PathOf(m)
  BY <1>1, HasMessage, Zenon DEF IInv, Working, WorkingOf
<1>3. OnceMore(rows, rows', m) /\ details \subseteq details' /\ published' = published
  BY <1>1, <1>2, Zenon DEF Stored, OnceMore
<1>4. /\ OnlyPaths(rows')
      /\ Len(rows'[m]) = Len(rows[m]) + 1 /\ Len(rows[m]) \in Nat
      /\ \A x \in Trace : x # m => rows'[x] = rows[x]
  BY <1>2, <1>3, CountedOnceMore, Zenon DEF IInv, Paths
<1>5. \A x \in Trace : Len(rows[x]) > 0 => Len(rows'[x]) > 0
  BY <1>4, SMTT(30)
<1>6. Paths'
  BY <1>3, <1>4, Zenon DEF IInv, Paths, OnlyPaths
<1>7. AckedHaveRows'
  BY <1>5 DEF IInv, TypeOK, AckedHaveRows
<1>8. Working'
  <2>1. ASSUME NEW v \in Worker, v # w PROVE WorkingOf(v)'
    <3>1. WorkingOf(v) /\ Same(v)
      BY <2>1, Zenon DEF IInv, Working
    <3>2. CASE pc[v] \in {"lookup", "copy"}
      <4>1. msg[v] \in Trace
        BY <3>2, HasMessage, Zenon
      <4>2. /\ pc[v] = "lookup" => Covered(msg[v], details', todo[v])
            /\ pc[v] = "copy" => Covered(msg[v], details' \cup tx[v], todo[v])
        BY <1>3, <3>1, <4>1, CoveredMore DEF WorkingOf
      <4> QED BY <3>1, <3>2, <4>2, Zenon DEF WorkingOf, Same
    <3>3. CASE pc[v] = "ack"
      <4>1. msg[v] \in Trace
        BY <3>3, HasMessage, Zenon
      <4> QED BY <1>5, <3>1, <3>3, <4>1, ZenonT(60) DEF WorkingOf, Same
    <3>4. CASE pc[v] \notin {"lookup", "copy", "ack"}
      BY <3>1, <3>4, Zenon DEF WorkingOf, Same
    <3> QED BY <3>2, <3>3, <3>4
  <2>2. WorkingOf(w)'
    BY <1>1, <1>4 DEF WorkingOf
  <2> QED BY <2>1, <2>2 DEF Working
<1>9. Counted'
  <2>1. ASSUME NEW x \in Trace PROVE Len(rows'[x]) + Cardinality(Committers(x)') <= Len(published'[x])
    <3>1. /\ Len(rows[x]) \in Nat /\ Cardinality(Committers(x)) \in Nat /\ IsFiniteSet(Committers(x))
          /\ Len(rows[x]) + Cardinality(Committers(x)) <= Len(published[x]) /\ Len(published[x]) \in Nat
      BY CommittersFinite DEF IInv, Paths, OnlyPaths, Counted
    <3>2. Committers(x)' = Committers(x) \ {w} /\ (w \in Committers(x) <=> x = m)
      BY <1>1, Zenon DEF Committers, Same
    <3>3. CASE x = m
      <4>1. Cardinality(Committers(x)') = Cardinality(Committers(x)) - 1
        BY <3>1, <3>2, <3>3, FS_RemoveElement, Zenon
      <4> QED BY <1>3, <1>4, <3>1, <3>3, <4>1
    <3>4. CASE x # m
      <4>1. Committers(x)' = Committers(x)
        BY <3>2, <3>4
      <4> QED BY <1>3, <1>4, <3>1, <3>4, <4>1, Zenon
    <3> QED BY <3>3, <3>4, Zenon
  <2> QED BY <2>1 DEF Counted
<1> QED BY <1>6, <1>7, <1>8, <1>9, Zenon DEF IInv

LEMMA CommitPreserves == ASSUME IInv, NEW w \in Worker, Commit(w) PROVE IInv'
<1>1. /\ pc[w] = "commit" /\ Stored(w) /\ pc' = [pc EXCEPT ![w] = "ack"] /\ tx' = [tx EXCEPT ![w] = {}]
      /\ UNCHANGED <<consumerVars, msg, todo, path, mishaps>>
  BY DEF Commit, To
<1>2. /\ pc'[w] = "ack" /\ \A v \in Worker : v # w => Same(v)
      /\ pc' \in [Worker -> {"down", "fetch", "handle", "lookup", "copy", "publish", "commit", "ack"}]
      /\ tx' \in [Worker -> SUBSET Ip] /\ DOMAIN path' = Worker
  BY <1>1 DEF IInv, TypeOK, Paths, Same
<1>3. details' \subseteq Ip
  BY <1>1 DEF IInv, TypeOK, Stored
<1>4. ASSUME NEW v \in Worker PROVE (pc'[v] \in {"down", "fetch"}) = (msg'[v] = None)
  <2>1. (pc[v] \in {"down", "fetch"}) = (msg[v] = None)
    BY DEF IInv, TypeOK
  <2>2. pc'[v] \in {"down", "fetch"} <=> pc[v] \in {"down", "fetch"}
    BY <1>1, <1>2, Zenon DEF Same
  <2> QED BY <1>1, <2>1, <2>2, SMTT(30)
<1>5. TypeOK'
  BY <1>1, <1>2, <1>3, <1>4, Zenon DEF IInv, TypeOK, consumerVars
<1> QED BY <1>1, <1>2, <1>5, StoredPreserves DEF consumerVars

LEMMA CommitUnknownPreserves == ASSUME IInv, NEW w \in Worker, CommitUnknown(w) PROVE IInv'
<1>1. ready' \subseteq Trace /\ acked' \subseteq Trace /\ mishaps' \in 0..MaxMishaps /\ details' \subseteq Ip
  <2>1. pc[w] = "commit" /\ Mishap("unknown") /\ Stored(w) /\ Again(msg[w]) /\ acked' = acked
    BY Zenon DEF CommitUnknown
  <2>2. msg[w] \in Trace
    BY <2>1, HasMessage
  <2>3. mishaps' \in 0..MaxMishaps
    BY <2>1, MishapCounted, Zenon
  <2>4. ready \subseteq Trace /\ acked \subseteq Trace /\ details \subseteq Ip /\ tx[w] \subseteq Ip
    BY Zenon DEF IInv, TypeOK
  <2>5. ready' \subseteq Trace /\ acked' \subseteq Trace
    BY <2>1, <2>2, <2>4, Zenon DEF Again
  <2>6. details' \subseteq Ip
    BY <2>1, <2>4, Zenon DEF Stored
  <2> QED BY <2>3, <2>5, <2>6
<1>2. TypeOK' /\ pc'[w] = "fetch" /\ DOMAIN path' = Worker /\ \A v \in Worker : v # w => Same(v)
  BY <1>1, GoneBack, Zenon DEF CommitUnknown, Finish
<1> QED BY <1>2, StoredPreserves, Zenon DEF CommitUnknown

LEMMA AckPreserves == ASSUME IInv, NEW w \in Worker, Ack(w) PROVE IInv'
<1>0. pc[w] = "ack" /\ Finish(w) /\ UNCHANGED storeVars /\ msg[w] \in Trace
  BY HasMessage, Zenon DEF Ack
<1>1. ready' \subseteq Trace /\ acked' \subseteq Trace /\ mishaps' \in 0..MaxMishaps /\ details' \subseteq Ip
  BY <1>0, TraceAssumption DEF Ack, Again, Mishap, storeVars, IInv, TypeOK
<1>2. TypeOK' /\ pc'[w] = "fetch" /\ DOMAIN path' = Worker /\ \A v \in Worker : v # w => Same(v)
  BY <1>0, <1>1, GoneBack, ZenonT(60) DEF Finish
<1>3. WorkingOf(w)' /\ pc'[w] # "commit"
  BY <1>2 DEF WorkingOf
<1>4. CASE acked' = acked
  BY <1>0, <1>2, <1>3, <1>4, QuietPreserves, Zenon DEF storeVars
<1>5. CASE acked' = acked \cup {msg[w]}
  <2>1. AckedHaveRows'
    BY <1>0, <1>5, ZenonT(60) DEF IInv, AckedHaveRows, Working, WorkingOf, storeVars
  <2>2. Paths'
    BY <1>0, <1>2 DEF IInv, Paths, OnlyPaths, storeVars
  <2>3. Working'
    <3>1. ASSUME NEW v \in Worker, v # w PROVE WorkingOf(v)'
      <4>1. WorkingOf(v) /\ Same(v)
        BY <1>2, <3>1 DEF IInv, Working
      <4> QED BY <1>0, <4>1, ZenonT(60) DEF WorkingOf, Same, storeVars
    <3> QED BY <1>3, <3>1, Zenon DEF Working
  <2>4. Counted'
    <3>1. \A m \in Trace : Committers(m)' = Committers(m)
      BY <1>0, <1>2, Zenon DEF Committers, Same
    <3> QED BY <1>0, <3>1, Zenon DEF IInv, Counted, storeVars
  <2> QED BY <1>2, <2>1, <2>2, <2>3, <2>4 DEF IInv
<1> QED BY <1>4, <1>5, Zenon DEF Ack

-----------------------------------------------------------------------------
(* The stream, crashes and starts *)

\* No instance does anything.
LEMMA StreamPreserves ==
  ASSUME IInv, ready' \subseteq Trace, mishaps' \in 0..MaxMishaps, UNCHANGED <<acked, workerVars, storeVars>>
  PROVE  IInv'
<1>1. UNCHANGED <<acked, pc, msg, todo, tx, path, details, published, rows>>
  BY DEF workerVars, storeVars
<1>2. TypeOK' /\ DOMAIN path' = Worker /\ \A w \in Worker : Same(w)
  BY <1>1 DEF IInv, TypeOK, Paths, Same
<1> QED BY <1>1, <1>2, QuietPreserves

LEMMA AckWaitPreserves == ASSUME IInv, AckWait PROVE IInv'
<1>1. ready' \subseteq Trace /\ mishaps' \in 0..MaxMishaps
  <2>1. mishaps' \in 0..MaxMishaps
    BY MishapCounted, Zenon DEF AckWait
  <2>2. PICK w \in Worker : msg[w] # None /\ Again(msg[w])
    BY Zenon DEF AckWait
  <2>3. msg[w] \in Trace /\ ready \subseteq Trace
    BY <2>2, Zenon DEF IInv, TypeOK
  <2> QED BY <2>1, <2>2, <2>3, Zenon DEF Again
<1> QED BY <1>1, StreamPreserves, Zenon DEF AckWait

LEMMA CrashPreserves == ASSUME IInv, NEW w \in Worker, Crash(w) PROVE IInv'
<1>1. ready' \subseteq Trace /\ acked' \subseteq Trace /\ mishaps' \in 0..MaxMishaps /\ details' \subseteq Ip
  BY TraceAssumption DEF Crash, Mishap, storeVars, IInv, TypeOK
<1>2. TypeOK' /\ pc'[w] = "down" /\ DOMAIN path' = Worker /\ \A v \in Worker : v # w => Same(v)
  BY <1>1, GoneBack, ZenonT(60) DEF Crash
<1>3. WorkingOf(w)' /\ pc'[w] # "commit"
  BY <1>2 DEF WorkingOf
<1> QED BY <1>2, <1>3, QuietPreserves, Zenon DEF Crash, storeVars

LEMMA StartPreserves == ASSUME IInv, NEW w \in Worker, Start(w) PROVE IInv'
<1>1. /\ pc[w] = "down" /\ pc' = [pc EXCEPT ![w] = "fetch"]
      /\ UNCHANGED <<ready, acked, msg, todo, tx, path, details, published, rows, mishaps>>
  BY Zenon DEF Start, To, consumerVars, storeVars
<1>2. /\ TypeOK' /\ pc'[w] = "fetch" /\ DOMAIN path' = Worker
      /\ \A v \in Worker : v # w => Same(v)
  BY <1>1, Zenon DEF IInv, TypeOK, Paths, Same
<1>3. WorkingOf(w)' /\ pc'[w] # "commit"
  BY <1>2 DEF WorkingOf
<1> QED BY <1>1, <1>2, <1>3, QuietPreserves, Zenon

LEMMA InitIInv == Init => IInv
<1> SUFFICES ASSUME Init PROVE IInv
  OBVIOUS
<1>1. PICK empty : empty = <<>>
  OBVIOUS
<1>2. empty \in Seq(Ip) /\ empty \in Seq(AllPaths) /\ DOMAIN empty = {} /\ Len(empty) = 0
  BY <1>1
<1>3. /\ todo = [w \in Worker |-> empty] /\ published = [m \in Trace |-> empty] /\ rows = [m \in Trace |-> empty]
      /\ DOMAIN path = Worker
  BY <1>1, Zenon DEF Init
<1>4. TypeOK
  BY <1>2, <1>3, TraceAssumption DEF Init, TypeOK
<1>5. Paths
  BY <1>2, <1>3 DEF Paths, OnlyPaths
<1>6. Working /\ AckedHaveRows
  BY DEF Init, Working, WorkingOf, AckedHaveRows
<1>7. Counted
  <2>1. ASSUME NEW m \in Trace PROVE Len(rows[m]) + Cardinality(Committers(m)) <= Len(published[m])
    <3>1. Committers(m) = {}
      BY DEF Init, Committers
    <3> QED BY <1>2, <1>3, <3>1, FS_EmptySet
  <2> QED BY <2>1 DEF Counted
<1> QED BY <1>4, <1>5, <1>6, <1>7 DEF IInv

LEMMA NextPreserves == IInv /\ [Next]_vars => IInv'
<1> SUFFICES ASSUME IInv, [Next]_vars PROVE IInv'
  OBVIOUS
<1>1. CASE UNCHANGED vars
  <2>1. ready' \subseteq Trace /\ mishaps' \in 0..MaxMishaps
    BY <1>1 DEF vars, consumerVars, IInv, TypeOK
  <2> QED BY <1>1, <2>1, StreamPreserves, Zenon DEF vars, consumerVars
<1>2. CASE AckWait
  BY <1>2, AckWaitPreserves
<1>3. CASE Forget
  <2>1. ready' \subseteq Trace /\ mishaps' \in 0..MaxMishaps
    BY <1>3 DEF Forget, IInv, TypeOK
  <2> QED BY <1>3, <2>1, StreamPreserves, Zenon DEF Forget
<1>4. ASSUME NEW m \in Trace, Report(m) PROVE IInv'
  <2>1. ready' \subseteq Trace /\ mishaps' \in 0..MaxMishaps
    BY <1>4 DEF Report, IInv, TypeOK
  <2> QED BY <1>4, <2>1, StreamPreserves, Zenon DEF Report
<1>5. ASSUME NEW w \in Worker, Step(w) PROVE IInv'
  <2>1. CASE Fetch(w)
    BY <2>1, FetchPreserves
  <2>2. CASE Refuse(w)
    <3>1. msg[w] \in Trace /\ mishaps' \in 0..MaxMishaps /\ Nak(w)
      BY <2>2, HasMessage, ZenonT(60) DEF Refuse, IInv, TypeOK
    <3> QED BY <3>1, NakPreserves
  <2>3. CASE SkipLb(w)
    BY <2>3, SkipLbPreserves
  <2>4. CASE FindMissing(w)
    BY <2>4, FindMissingPreserves
  <2>5. CASE Lookup(w)
    BY <2>5, LookupPreserves
  <2>6. CASE CopyRow(w)
    BY <2>6, CopyRowPreserves
  <2>7. CASE Deadlock(w)
    BY <2>7, DeadlockPreserves
  <2>8. CASE Fingerprint(w)
    BY <2>8, FingerprintPreserves
  <2>9. CASE Publish(w)
    BY <2>9, PublishPreserves
  <2>10. CASE Commit(w)
    BY <2>10, CommitPreserves
  <2>11. CASE CommitFails(w)
    <3>1. msg[w] \in Trace /\ mishaps' \in 0..MaxMishaps /\ Nak(w)
      <4>1. pc[w] = "commit" /\ Mishap("commit") /\ Nak(w)
        BY <2>11, Zenon DEF CommitFails
      <4>2. msg[w] \in Trace
        BY <4>1, HasMessage
      <4> QED BY <4>1, <4>2, MishapCounted, Zenon
    <3> QED BY <3>1, NakPreserves
  <2>12. CASE CommitUnknown(w)
    BY <2>12, CommitUnknownPreserves
  <2>13. CASE Ack(w)
    BY <2>13, AckPreserves
  <2> QED BY <1>5, <2>1, <2>2, <2>3, <2>4, <2>5, <2>6, <2>7, <2>8, <2>9, <2>10, <2>11, <2>12, <2>13, Zenon
        DEF Step, Handle
<1>6. ASSUME NEW w \in Worker, Crash(w) PROVE IInv'
  BY <1>6, CrashPreserves
<1>7. ASSUME NEW w \in Worker, Start(w) PROVE IInv'
  BY <1>7, StartPreserves
<1> QED BY <1>1, <1>2, <1>3, <1>4, <1>5, <1>6, <1>7 DEF Next

-----------------------------------------------------------------------------
(* The theorems *)

\* Where an instance is in processNormalTrace says which rows and events there
\* are of its trace, in every reachable state.
THEOREM Invariance == Spec => []IInv
BY InitIInv, NextPreserves, PTL DEF Spec

\* A trace that an instance acknowledged has its rows, whatever the faults and
\* however the transactions of the instances interleave; only tracelb has none.
THEOREM AcknowledgedAreStored == Spec => []AckedIsStored
<1>1. IInv => AckedIsStored
  <2>1. ASSUME IInv, NEW m \in acked \ Lb PROVE rows[m] # <<>>
    <3>1. PICK empty : empty = <<>>
      OBVIOUS
    <3>2. Len(empty) = 0
      BY <3>1
    <3>3. Len(rows[m]) > 0
      BY <2>1 DEF IInv, AckedHaveRows
    <3> QED BY <3>1, <3>2, <3>3
  <2> QED BY <2>1 DEF AckedIsStored
<1> QED BY <1>1, Invariance, PTL

\* No trace has more rows than events: each delivery that commits has published
\* before, also when several instances handle deliveries of the same trace.
THEOREM StoredArePublished == Spec => []StoredIsPublished
<1>1. IInv => StoredIsPublished
  <2>1. ASSUME IInv, NEW m \in Trace PROVE Len(rows[m]) <= Len(published[m])
    BY <2>1, CommittersFinite, SMTT(30) DEF IInv, Counted, Paths, OnlyPaths
  <2> QED BY <2>1, Zenon DEF StoredIsPublished
<1> QED BY <1>1, Invariance, PTL

\* The AS path of a trace, in every event and in every row, is that of its hops
\* with all of their ASNs: an instance computes it once its own inserts and the
\* committed ones together hold every address the lookup has an answer for.
THEOREM OnePathPerTrace == Spec => []OnePath
<1>1. IInv => OnePath
  <2>1. ASSUME IInv, NEW m \in Trace, NEW p \in Range(published[m]) \cup Range(rows[m])
        PROVE  p = FullPath[m]
    <3>1. \/ \E k \in DOMAIN published[m] : p = published[m][k]
          \/ \E k \in DOMAIN rows[m] : p = rows[m][k]
      BY <2>1 DEF Range
    <3> QED BY <2>1, <3>1 DEF IInv, Paths, OnlyPaths, PathOf, FullPath
  <2> QED BY <2>1 DEF OnePath
<1> QED BY <1>1, Invariance, PTL

-----------------------------------------------------------------------------
(* Part 2: the links of a trace *)

\* The path of probe p: the hops kept of it, in the order of their TTLs.
Follows(route, kept, p) ==
  /\ route \in Seq(kept)
  /\ \A i \in DOMAIN route : route[i].probe = p
  /\ \A i, j \in DOMAIN route : i < j => route[i].ttl < route[j].ttl
  /\ \A h \in kept : h.probe = p => \E i \in DOMAIN route : route[i] = h

\* The links of probe p join its neighbouring hops, each pair once.
Own(p) == {i \in DOMAIN links : links[i].probe = p}

Joined(kept, p) ==
  /\ {<<links[i].src, links[i].dst>> : i \in Own(p)} = Pairs(kept, p)
  /\ \A i, j \in Own(p) : links[i].src = links[j].src /\ links[i].dst = links[j].dst => i = j

\* A probe not visited yet has no links and no keys.
Untouched(p) == Own(p) = {} /\ \A key \in seen : key[1] # p

LinkSet == [probe : Probe, src : Addr \cup {Timeout}, dst : Addr \cup {Timeout}, gap : 1..MaxTtl]

\* The inductive invariant of the loop over groups.
LinksIInv ==
  /\ hops \subseteq Hop /\ DOMAIN groups \subseteq Probe
  /\ links \in Seq(LinkSet)
  /\ \E kept \in Picks(hops) :
       /\ \A p \in DOMAIN groups : Follows(groups[p], kept, p) /\ Untouched(p)
       /\ \A p \in Probe \ DOMAIN groups : Joined(kept, p)

\* One hop is kept for each TTL of a probe.
LEMMA PickFacts ==
  ASSUME hops \subseteq Hop, NEW kept \in Picks(hops)
  PROVE  /\ kept \subseteq hops /\ kept \subseteq Hop
         /\ \A h \in hops : \E k \in kept : k.probe = h.probe /\ k.ttl = h.ttl
         /\ \A g, h \in kept : g.probe = h.probe /\ g.ttl = h.ttl => g = h
<1>1. kept \subseteq hops
  BY Zenon DEF Picks
<1>2. \A h \in hops : \E k \in kept : {j \in kept : j.probe = h.probe /\ j.ttl = h.ttl} = {k}
  BY Zenon DEF Picks
<1>3. ASSUME NEW h \in hops
      PROVE  \E k \in kept : k.probe = h.probe /\ k.ttl = h.ttl
  <2>1. PICK k \in kept : {j \in kept : j.probe = h.probe /\ j.ttl = h.ttl} = {k}
    BY <1>2, Zenon
  <2>2. k \in {j \in kept : j.probe = h.probe /\ j.ttl = h.ttl}
    BY <2>1, Zenon
  <2> QED BY <2>2, Zenon
<1>4. ASSUME NEW g \in kept, NEW h \in kept, g.probe = h.probe, g.ttl = h.ttl
      PROVE  g = h
  <2>1. PICK k \in kept : {j \in kept : j.probe = h.probe /\ j.ttl = h.ttl} = {k}
    BY <1>1, <1>2, Zenon
  <2>2. /\ g \in {j \in kept : j.probe = h.probe /\ j.ttl = h.ttl}
        /\ h \in {j \in kept : j.probe = h.probe /\ j.ttl = h.ttl}
    BY <1>4, Zenon
  <2> QED BY <2>1, <2>2, Zenon
<1> QED BY <1>1, <1>3, <1>4, Zenon

\* ByTtl is the path of the probe.
LEMMA ByTtlFollows ==
  ASSUME hops \subseteq Hop, NEW kept \in Picks(hops), NEW p
  PROVE  Follows(ByTtl(kept, p), kept, p)
<1> DEFINE all == [t \in 1..MaxTtl |-> t]
           places == {h.ttl : h \in {k \in kept : k.probe = p}}
           ttls == ElementsAt(all, places)
           route == ByTtl(kept, p)
<1>1. all \in Seq(1..MaxTtl) /\ DOMAIN all = 1..MaxTtl /\ \A t \in 1..MaxTtl : all[t] = t
  BY LinksAssumption
<1> HIDE DEF all, places
<1>2. ttls \in Seq(1..MaxTtl) /\ \E g : Placed(g, ttls, all, places)
  BY <1>1, ElementsAtOrder
<1>3. PICK g : Placed(g, ttls, all, places)
  BY <1>2, Zenon
<1>4. /\ \A i \in DOMAIN ttls : ttls[i] \in places
      /\ \A i, j \in DOMAIN ttls : i < j => ttls[i] < ttls[j]
      /\ \A t \in 1..MaxTtl : t \in places => \E i \in DOMAIN ttls : ttls[i] = t
  <2>1. \A i \in DOMAIN ttls : ttls[i] = g[i] /\ g[i] \in places
    BY <1>1, <1>3, Zenon DEF Placed
  <2> QED BY <1>1, <1>3, <2>1, Zenon DEF Placed
<1>5. DOMAIN ttls = 1..Len(ttls) /\ Len(ttls) \in Nat
  BY <1>2
<1> HIDE DEF ttls
<1>6. route = [i \in DOMAIN ttls |-> CHOOSE h \in kept : h.probe = p /\ h.ttl = ttls[i]]
  BY Zenon DEF ByTtl, ttls, all, places
<1>7. ASSUME NEW i \in DOMAIN ttls
      PROVE  route[i] \in kept /\ route[i].probe = p /\ route[i].ttl = ttls[i]
  <2>1. \E h \in kept : h.probe = p /\ h.ttl = ttls[i]
    BY <1>4, Zenon DEF places
  <2>2. route[i] = CHOOSE h \in kept : h.probe = p /\ h.ttl = ttls[i]
    BY <1>6, Zenon
  <2> QED BY <2>1, <2>2, Zenon
<1>8. DOMAIN route = DOMAIN ttls
  BY <1>6, Zenon
<1> HIDE DEF route
<1>9. route \in Seq(kept)
  <2>1. route \in [1..Len(ttls) -> kept]
    BY <1>5, <1>6, <1>7
  <2> QED BY <1>5, <2>1
<1>10. \A i, j \in DOMAIN route : i < j => route[i].ttl < route[j].ttl
  BY <1>4, <1>7, <1>8
<1>11. ASSUME NEW h \in kept, h.probe = p
       PROVE  \E i \in DOMAIN route : route[i] = h
  <2>1. h.ttl \in 1..MaxTtl
    BY PickFacts DEF Hop
  <2>2. h.ttl \in places
    BY <1>11, Zenon DEF places
  <2>3. PICK i \in DOMAIN ttls : ttls[i] = h.ttl
    BY <1>4, <2>1, <2>2, Zenon
  <2>4. route[i] \in kept /\ route[i].probe = h.probe /\ route[i].ttl = h.ttl
    BY <1>7, <1>11, <2>3
  <2>5. route[i] = h
    BY <2>4, PickFacts
  <2> QED BY <1>8, <2>5
<1> QED BY <1>7, <1>8, <1>9, <1>10, <1>11, Zenon DEF Follows, route

\* Neighbours in the path of a probe are neighbours in the trace, and the other way round.
LEMMA PathIsAdjacent ==
  ASSUME hops \subseteq Hop, NEW kept \in Picks(hops), NEW p, NEW route, Follows(route, kept, p)
  PROVE  /\ \A i \in 1..(Len(route) - 1) : Adjacent(route[i], route[i + 1])
         /\ \A g, h \in kept : g.probe = p /\ Adjacent(g, h) =>
              \E i \in 1..(Len(route) - 1) : route[i] = g /\ route[i + 1] = h
<1>1. /\ route \in Seq(kept) /\ DOMAIN route = 1..Len(route) /\ Len(route) \in Nat
      /\ \A i \in DOMAIN route : route[i] \in kept /\ route[i].probe = p
  <2>1. route \in Seq(kept)
    BY Zenon DEF Follows
  <2>2. \A i \in DOMAIN route : route[i].probe = p
    BY Zenon DEF Follows
  <2> QED BY <2>1, <2>2
<1>2. \A i, j \in DOMAIN route : i < j => route[i].ttl < route[j].ttl
  BY Zenon DEF Follows
<1>3. \A h \in kept : h.probe = p => \E i \in DOMAIN route : route[i] = h
  BY Zenon DEF Follows
<1>4. \A h \in kept : h.ttl \in Int
  BY PickFacts DEF Hop
<1>5. ASSUME NEW i \in 1..(Len(route) - 1) PROVE Adjacent(route[i], route[i + 1])
  <2>1. i \in DOMAIN route /\ i + 1 \in DOMAIN route /\ i < i + 1
    BY <1>1
  <2>2. route[i].probe = p /\ route[i + 1].probe = p /\ route[i].ttl < route[i + 1].ttl
    BY <1>1, <1>2, <2>1, Zenon
  <2>3. ASSUME NEW m \in hops, m.probe = p, route[i].ttl < m.ttl, m.ttl < route[i + 1].ttl
        PROVE  FALSE
    <3>1. PICK k \in kept : k.probe = m.probe /\ k.ttl = m.ttl
      BY PickFacts
    <3>2. PICK n \in DOMAIN route : route[n] = k
      BY <1>3, <2>3, <3>1
    <3>3. route[n].ttl \in Int /\ route[i].ttl \in Int /\ route[i + 1].ttl \in Int
      BY <1>1, <1>4, <2>1, Zenon
    <3>4. route[i].ttl < route[n].ttl /\ route[n].ttl < route[i + 1].ttl
      BY <2>3, <3>1, <3>2, Zenon
    <3>5. n # i /\ n # i + 1 /\ ~(n < i) /\ ~(i + 1 < n)
      <4>1. n < i => route[n].ttl < route[i].ttl
        BY <1>2, <2>1, Zenon
      <4>2. i + 1 < n => route[i + 1].ttl < route[n].ttl
        BY <1>2, <2>1, Zenon
      <4> QED BY <3>3, <3>4, <4>1, <4>2
    <3> QED BY <1>1, <3>5
  <2> QED BY <2>2, <2>3, Zenon DEF Adjacent
<1>6. ASSUME NEW g \in kept, NEW h \in kept, g.probe = p, Adjacent(g, h)
      PROVE  \E i \in 1..(Len(route) - 1) : route[i] = g /\ route[i + 1] = h
  <2>1. /\ h.probe = p /\ g.ttl < h.ttl
        /\ \A m \in hops : ~(m.probe = p /\ g.ttl < m.ttl /\ m.ttl < h.ttl)
    BY <1>6, Zenon DEF Adjacent
  <2>2. PICK i \in DOMAIN route : route[i] = g
    BY <1>3, <1>6
  <2>3. PICK j \in DOMAIN route : route[j] = h
    BY <1>3, <2>1
  <2>4. g.ttl \in Int /\ h.ttl \in Int
    BY <1>4
  <2>5. i < j
    <3>1. i # j
      BY <2>1, <2>2, <2>3, <2>4
    <3>2. ~(j < i)
      <4>1. j < i => h.ttl < g.ttl
        BY <1>2, <2>2, <2>3
      <4> QED BY <2>1, <2>4, <4>1
    <3> QED BY <1>1, <3>1, <3>2
  <2>6. i + 1 = j
    <3> SUFFICES ASSUME i + 1 < j PROVE FALSE
      BY <1>1, <2>5
    <3>1. i + 1 \in DOMAIN route /\ i < i + 1
      BY <1>1
    <3>2. g.ttl < route[i + 1].ttl /\ route[i + 1].ttl < h.ttl
      BY <1>2, <2>2, <2>3, <3>1
    <3>3. route[i + 1] \in hops /\ route[i + 1].probe = p
      BY <1>1, <3>1, PickFacts
    <3> QED BY <2>1, <3>2, <3>3, Zenon
  <2> QED BY <1>1, <2>2, <2>3, <2>6
<1> QED BY <1>5, <1>6, Zenon

\* The chain of a probe's path has the pairs of its neighbours.
LEMMA ChainPairs ==
  ASSUME hops \subseteq Hop, NEW kept \in Picks(hops), NEW p \in Probe,
         NEW route, Follows(route, kept, p)
  PROVE  /\ Chain(route) \in Seq(LinkSet)
         /\ \A i \in DOMAIN Chain(route) : Chain(route)[i].probe = p
         /\ {<<Chain(route)[i].src, Chain(route)[i].dst>> : i \in DOMAIN Chain(route)}
              = Pairs(kept, p)
<1> DEFINE chain == Chain(route)
<1>1. DOMAIN chain = 1..(Len(route) - 1)
  BY DEF Chain
<1>2. ASSUME NEW i \in 1..(Len(route) - 1)
      PROVE  chain[i] = [probe |-> route[i].probe, src |-> route[i].addr,
                         dst |-> route[i + 1].addr, gap |-> route[i + 1].ttl - route[i].ttl]
  BY DEF Chain, Link
<1>3. route \in Seq(kept) /\ \A i \in DOMAIN route : route[i].probe = p
  BY Zenon DEF Follows
<1>4. ASSUME NEW i \in 1..(Len(route) - 1)
      PROVE  /\ route[i] \in kept /\ route[i + 1] \in kept /\ route[i].probe = p
             /\ route[i + 1].probe = p
  BY <1>3
<1>5. ASSUME NEW i \in 1..(Len(route) - 1) PROVE Adjacent(route[i], route[i + 1])
  BY PathIsAdjacent
<1>6. ASSUME NEW i \in 1..(Len(route) - 1) PROVE chain[i] \in LinkSet
  <2>1. route[i] \in Hop /\ route[i + 1] \in Hop /\ route[i].ttl < route[i + 1].ttl
    BY <1>4, <1>5, PickFacts DEF Adjacent
  <2>2. /\ route[i].addr \in Addr \cup {Timeout} /\ route[i + 1].addr \in Addr \cup {Timeout}
        /\ route[i].ttl \in 1..MaxTtl /\ route[i + 1].ttl \in 1..MaxTtl
    BY <2>1 DEF Hop
  <2>3. route[i + 1].ttl - route[i].ttl \in 1..MaxTtl
    BY <2>1, <2>2, LinksAssumption
  <2>4. chain[i] = [probe |-> p, src |-> route[i].addr, dst |-> route[i + 1].addr,
                    gap |-> route[i + 1].ttl - route[i].ttl]
    BY <1>2, <1>4, Zenon
  <2> HIDE DEF chain
  <2> QED BY <2>2, <2>3, <2>4 DEF LinkSet
<1>7. chain \in Seq(LinkSet)
  <2>1. Len(route) \in Nat
    BY <1>3
  <2>2. PICK n \in Nat : 1..(Len(route) - 1) = 1..n
    <3>1. CASE Len(route) = 0
      <4>1. 1..(Len(route) - 1) = 1..0
        BY <3>1
      <4> QED BY <4>1
    <3>2. CASE Len(route) # 0
      BY <2>1, <3>2
    <3> QED BY <3>1, <3>2
  <2>3. chain \in [1..n -> LinkSet]
    BY <1>1, <1>6, <2>2 DEF Chain
  <2> QED BY <2>2, <2>3
<1>8. \A i \in DOMAIN chain : /\ chain[i].probe = p /\ chain[i].src = route[i].addr
                              /\ chain[i].dst = route[i + 1].addr
  BY <1>1, <1>2, <1>4
<1> HIDE DEF chain
<1>9. ASSUME NEW i \in DOMAIN chain PROVE <<chain[i].src, chain[i].dst>> \in Pairs(kept, p)
  <2>1. <<route[i], route[i + 1]>> \in {gh \in kept \X kept : gh[1].probe = p /\ Adjacent(gh[1], gh[2])}
    BY <1>1, <1>4, <1>5
  <2> QED BY <1>8, <2>1 DEF Pairs
<1>10. ASSUME NEW pair \in Pairs(kept, p)
       PROVE  \E i \in DOMAIN chain : <<chain[i].src, chain[i].dst>> = pair
  <2>1. PICK gh \in kept \X kept : /\ gh[1].probe = p /\ Adjacent(gh[1], gh[2])
                                   /\ pair = <<gh[1].addr, gh[2].addr>>
    BY DEF Pairs
  <2>2. PICK i \in 1..(Len(route) - 1) : route[i] = gh[1] /\ route[i + 1] = gh[2]
    BY <2>1, PathIsAdjacent
  <2>3. i \in DOMAIN chain
    BY <1>1 DEF chain
  <2> QED BY <1>8, <2>1, <2>2, <2>3, Zenon
<1>11. {<<chain[i].src, chain[i].dst>> : i \in DOMAIN chain} = Pairs(kept, p)
  BY <1>9, <1>10, Zenon
<1> QED BY <1>7, <1>8, <1>11, Zenon DEF chain

\* new has the pairs of the chain of probe p, each once.
OncePerPair(new, chain, p) ==
  /\ new \in Seq(LinkSet)
  /\ \A k \in DOMAIN new : new[k].probe = p
  /\ {<<new[k].src, new[k].dst>> : k \in DOMAIN new}
       = {<<chain[i].src, chain[i].dst>> : i \in DOMAIN chain}
  /\ \A k, l \in DOMAIN new : new[k].src = new[l].src /\ new[k].dst = new[l].dst => k = l

\* Visiting a probe for the first time adds each pair of its chain, once.
LEMMA UnseenPairs ==
  ASSUME NEW p, NEW chain \in Seq(LinkSet), \A i \in DOMAIN chain : chain[i].probe = p,
         \A key \in seen : key[1] # p
  PROVE  OncePerPair(Unseen(chain), chain, p)
<1> DEFINE places == {i \in DOMAIN chain :
                        /\ Key(chain[i]) \notin seen
                        /\ \A j \in 1..(i - 1) : Key(chain[j]) # Key(chain[i])}
           new == Unseen(chain)
<1>1. new = ElementsAt(chain, places)
  BY Zenon DEF Unseen
<1>2. \A i \in DOMAIN chain : Key(chain[i]) = <<p, chain[i].src, chain[i].dst>>
  BY Zenon DEF Key
<1>3. \A i \in DOMAIN chain : Key(chain[i]) \notin seen
  BY <1>2
<1>4. \A i \in places : i \in DOMAIN chain /\ \A j \in 1..(i - 1) : Key(chain[j]) # Key(chain[i])
  BY Zenon
<1>5. DOMAIN chain = 1..Len(chain) /\ Len(chain) \in Nat
  OBVIOUS
<1>6. ASSUME NEW n \in DOMAIN chain
      PROVE  \E m \in DOMAIN chain : m \in places /\ Key(chain[m]) = Key(chain[n])
  <2> DEFINE T == {m \in DOMAIN chain : Key(chain[m]) = Key(chain[n])}
  <2>1. T \in SUBSET Nat /\ T # {}
    BY <1>5
  <2>2. PICK m \in T : \A k \in T : m <= k
    BY <2>1, LeastElement, Zenon
  <2>3. m \in DOMAIN chain /\ Key(chain[m]) = Key(chain[n])
    BY <2>2, Zenon
  <2>4. ASSUME NEW k \in 1..(m - 1) PROVE Key(chain[k]) # Key(chain[m])
    <3>1. k \in DOMAIN chain /\ ~(m <= k)
      BY <1>5, <2>3
    <3> QED BY <2>2, <2>3, <3>1, Zenon
  <2> QED BY <1>3, <2>3, <2>4, Zenon
<1> HIDE DEF places, new
<1>7. new \in Seq(LinkSet) /\ \E g : Placed(g, new, chain, places)
  BY <1>1, ElementsAtOrder
<1>8. PICK g : Placed(g, new, chain, places)
  BY <1>7, Zenon
<1>9. \A k \in DOMAIN new : g[k] \in DOMAIN chain /\ g[k] \in places /\ new[k] = chain[g[k]]
  BY <1>8, Zenon DEF Placed
<1>10. \A k \in DOMAIN new : new[k].probe = p
  BY <1>9, Zenon
<1>11. ASSUME NEW k \in DOMAIN new
       PROVE  \E i \in DOMAIN chain : <<chain[i].src, chain[i].dst>> = <<new[k].src, new[k].dst>>
  BY <1>9, Zenon
<1>12. ASSUME NEW i \in DOMAIN chain
       PROVE  \E k \in DOMAIN new : <<new[k].src, new[k].dst>> = <<chain[i].src, chain[i].dst>>
  <2>1. PICK m \in DOMAIN chain : m \in places /\ Key(chain[m]) = Key(chain[i])
    BY <1>6, Zenon
  <2>2. PICK k \in DOMAIN new : g[k] = m
    BY <1>8, <2>1, Zenon DEF Placed
  <2>3. chain[m].src = chain[i].src /\ chain[m].dst = chain[i].dst
    BY <1>2, <2>1
  <2> QED BY <1>9, <2>2, <2>3, Zenon
<1>13. ASSUME NEW k \in DOMAIN new, NEW l \in DOMAIN new,
              new[k].src = new[l].src, new[k].dst = new[l].dst
       PROVE  ~(k < l)
  <2> SUFFICES ASSUME k < l PROVE FALSE
    OBVIOUS
  <2>1. g[k] < g[l] /\ g[k] \in DOMAIN chain /\ g[l] \in DOMAIN chain /\ g[l] \in places
    BY <1>8, <1>9, Zenon DEF Placed
  <2>2. g[k] \in 1..(g[l] - 1)
    BY <1>5, <2>1
  <2>3. Key(chain[g[k]]) # Key(chain[g[l]])
    BY <1>4, <2>1, <2>2, Zenon
  <2>4. new[k] = chain[g[k]] /\ new[l] = chain[g[l]]
    BY <1>9, Zenon
  <2>5. /\ Key(chain[g[k]]) = <<p, new[k].src, new[k].dst>>
        /\ Key(chain[g[l]]) = <<p, new[l].src, new[l].dst>>
    BY <1>2, <2>1, <2>4, Zenon
  <2> QED BY <1>13, <2>3, <2>5, Zenon
<1>14. ASSUME NEW k \in DOMAIN new, NEW l \in DOMAIN new,
              new[k].src = new[l].src, new[k].dst = new[l].dst
       PROVE  k = l
  <2>1. ~(k < l) /\ ~(l < k)
    BY <1>13, <1>14
  <2>2. k \in Nat /\ l \in Nat
    BY <1>7
  <2> QED BY <2>1, <2>2
<1>15. {<<new[k].src, new[k].dst>> : k \in DOMAIN new}
         = {<<chain[i].src, chain[i].dst>> : i \in DOMAIN chain}
  <2> DEFINE A == {<<new[k].src, new[k].dst>> : k \in DOMAIN new}
             B == {<<chain[i].src, chain[i].dst>> : i \in DOMAIN chain}
  <2>1. ASSUME NEW x \in A PROVE x \in B
    <3>1. PICK k \in DOMAIN new : x = <<new[k].src, new[k].dst>>
      BY Zenon
    <3>2. PICK i \in DOMAIN chain : <<chain[i].src, chain[i].dst>> = <<new[k].src, new[k].dst>>
      BY <1>11, Zenon
    <3>3. x = <<chain[i].src, chain[i].dst>>
      BY <3>1, <3>2, Zenon
    <3> QED BY <3>3, Zenon
  <2>2. ASSUME NEW x \in B PROVE x \in A
    <3>1. PICK i \in DOMAIN chain : x = <<chain[i].src, chain[i].dst>>
      BY Zenon
    <3>2. PICK k \in DOMAIN new : <<new[k].src, new[k].dst>> = <<chain[i].src, chain[i].dst>>
      BY <1>12, Zenon
    <3>3. x = <<new[k].src, new[k].dst>>
      BY <3>1, <3>2, Zenon
    <3> QED BY <3>3, Zenon
  <2> HIDE DEF A, B
  <2>3. A = B
    BY <2>1, <2>2, Zenon
  <2> QED BY <2>3 DEF A, B
<1>16. OncePerPair(new, chain, p)
  BY <1>7, <1>10, <1>14, <1>15, Zenon DEF OncePerPair
<1> QED BY <1>16, Zenon DEF new

\* Grouping, sorting and deduplication establish the invariant.
LEMMA LinksInitially == LinksInit => LinksIInv
<1> SUFFICES ASSUME LinksInit PROVE LinksIInv
  OBVIOUS
<1>1. hops \subseteq Hop /\ links = <<>> /\ seen = {}
  BY Zenon DEF LinksInit, kSubset
<1>2. PICK kept \in Picks(hops) : groups = Grouped(kept)
  BY Zenon DEF LinksInit
<1>3. kept \subseteq Hop
  BY <1>1, PickFacts
<1>4. DOMAIN groups = {h.probe : h \in kept} /\ \A p \in DOMAIN groups : groups[p] = ByTtl(kept, p)
  BY <1>2, Zenon DEF Grouped
<1>5. DOMAIN groups \subseteq Probe
  BY <1>3, <1>4 DEF Hop
<1>6. ASSUME NEW p \in DOMAIN groups PROVE Follows(groups[p], kept, p) /\ Untouched(p)
  <2>1. Follows(ByTtl(kept, p), kept, p)
    BY <1>1, ByTtlFollows
  <2>2. Untouched(p)
    BY <1>1 DEF Untouched, Own
  <2> QED BY <1>4, <2>1, <2>2, Zenon
<1>7. ASSUME NEW p \in Probe \ DOMAIN groups PROVE Joined(kept, p)
  <2>1. Own(p) = {}
    BY <1>1 DEF Own
  <2>2. \A gh \in kept \X kept : gh[1].probe # p
    BY <1>4
  <2>3. Pairs(kept, p) = {}
    BY <2>2, Zenon DEF Pairs
  <2> QED BY <2>1, <2>3, Zenon DEF Joined
<1>8. links \in Seq(LinkSet)
  BY <1>1
<1> QED BY <1>1, <1>2, <1>5, <1>6, <1>7, <1>8, Zenon DEF LinksIInv

\* A round of the loop joins the hops of the probe it visits and leaves the others alone.
LEMMA VisitPreserves ==
  ASSUME LinksIInv, NEW p \in Probe, Visit(p)
  PROVE  LinksIInv'
<1>1. hops \subseteq Hop /\ DOMAIN groups \subseteq Probe /\ links \in Seq(LinkSet)
  BY Zenon DEF LinksIInv
<1>2. PICK kept \in Picks(hops) :
        /\ \A q \in DOMAIN groups : Follows(groups[q], kept, q) /\ Untouched(q)
        /\ \A q \in Probe \ DOMAIN groups : Joined(kept, q)
  BY Zenon DEF LinksIInv
<1>3. p \in DOMAIN groups /\ hops' = hops
  BY Zenon DEF Visit
<1> DEFINE chain == Chain(groups[p])
           new == Unseen(chain)
           n == Len(links)
<1>4. links' = links \o new /\ seen' = seen \cup {Key(chain[i]) : i \in DOMAIN chain}
  BY Zenon DEF Visit
<1>5. /\ DOMAIN groups' = DOMAIN groups \ {p}
      /\ \A q \in DOMAIN groups' : groups'[q] = groups[q]
  BY Zenon DEF Visit
<1>6. /\ chain \in Seq(LinkSet) /\ \A i \in DOMAIN chain : chain[i].probe = p
      /\ {<<chain[i].src, chain[i].dst>> : i \in DOMAIN chain} = Pairs(kept, p)
  BY <1>1, <1>2, <1>3, ChainPairs
<1>7. Untouched(p)
  BY <1>2, <1>3, Zenon
<1> HIDE DEF chain
<1>8. /\ new \in Seq(LinkSet) /\ \A k \in DOMAIN new : new[k].probe = p
      /\ {<<new[k].src, new[k].dst>> : k \in DOMAIN new} = Pairs(kept, p)
      /\ \A k, l \in DOMAIN new : new[k].src = new[l].src /\ new[k].dst = new[l].dst => k = l
  <2>1. \A key \in seen : key[1] # p
    BY <1>7, Zenon DEF Untouched
  <2>2. /\ new \in Seq(LinkSet) /\ \A k \in DOMAIN new : new[k].probe = p
        /\ {<<new[k].src, new[k].dst>> : k \in DOMAIN new}
             = {<<chain[i].src, chain[i].dst>> : i \in DOMAIN chain}
        /\ \A k, l \in DOMAIN new : new[k].src = new[l].src /\ new[k].dst = new[l].dst => k = l
    <3>1. OncePerPair(Unseen(chain), chain, p)
      BY <1>6, <2>1, UnseenPairs, Zenon
    <3> QED BY <3>1, Zenon DEF OncePerPair
  <2> QED BY <1>6, <2>2, Zenon
<1> HIDE DEF new
<1>9. /\ links' \in Seq(LinkSet) /\ n \in Nat /\ DOMAIN links = 1..n
      /\ DOMAIN new = 1..Len(new) /\ Len(new) \in Nat /\ DOMAIN links' = 1..(n + Len(new))
      /\ \A i \in DOMAIN links : links'[i] = links[i]
      /\ \A k \in DOMAIN new : links'[n + k] = new[k]
  BY <1>1, <1>4, <1>8
<1> HIDE DEF n
<1>10. \A i \in DOMAIN links' : i \in DOMAIN links \/ \E k \in DOMAIN new : i = n + k
  <2> SUFFICES ASSUME NEW i \in DOMAIN links', i \notin DOMAIN links
               PROVE  \E k \in DOMAIN new : i = n + k
    BY Zenon
  <2>1. i \in 1..(n + Len(new)) /\ i \notin 1..n
    BY <1>9, Zenon
  <2>2. i - n \in 1..Len(new) /\ i = n + (i - n)
    BY <1>9, <2>1
  <2> QED BY <1>9, <2>2, Zenon
<1>11. \A i \in DOMAIN links : i \in DOMAIN links'
  BY <1>9
<1>12. \A k \in DOMAIN new : n + k \in DOMAIN links' /\ n + k \notin DOMAIN links
  BY <1>9
<1>13. ASSUME NEW q, q # p
       PROVE  Own(q)' = Own(q) /\ \A i \in Own(q) : links'[i] = links[i]
  <2>1. ASSUME NEW i \in Own(q)' PROVE i \in Own(q)
    <3>1. i \in DOMAIN links' /\ links'[i].probe = q
      BY Zenon DEF Own
    <3>2. ASSUME NEW k \in DOMAIN new, i = n + k PROVE FALSE
      <4>1. links'[i] = new[k] /\ new[k].probe = p
        BY <1>8, <1>9, <3>2, Zenon
      <4> QED BY <1>13, <3>1, <4>1, Zenon
    <3> QED BY <1>9, <1>10, <3>1, <3>2, Zenon DEF Own
  <2>2. ASSUME NEW i \in Own(q) PROVE i \in Own(q)' /\ links'[i] = links[i]
    BY <1>9, <1>11, Zenon DEF Own
  <2> QED BY <2>1, <2>2, Zenon
<1>14. \A q \in Probe : Pairs(kept, q)' = Pairs(kept, q)
  BY <1>3, Zenon DEF Pairs, Adjacent
<1>15. ASSUME NEW q \in DOMAIN groups' PROVE Follows(groups[q], kept, q)' /\ Untouched(q)'
  <2>1. q \in DOMAIN groups /\ q # p /\ groups'[q] = groups[q]
    BY <1>5, Zenon
  <2>2. Follows(groups[q], kept, q) /\ Untouched(q)
    BY <1>2, <2>1, Zenon
  <2>3. Follows(groups[q], kept, q)'
    BY <2>1, <2>2, Zenon DEF Follows
  <2>4. Own(q)' = {}
    BY <1>13, <2>1, <2>2, Zenon DEF Untouched
  <2>5. \A key \in seen' : key[1] # q
    <3>1. \A key \in seen : key[1] # q
      BY <2>2, Zenon DEF Untouched
    <3>2. \A i \in DOMAIN chain : Key(chain[i])[1] = p
      <4>1. \A i \in DOMAIN chain : Key(chain[i]) = <<p, chain[i].src, chain[i].dst>>
        BY <1>6, Zenon DEF Key
      <4> QED BY <4>1
    <3> QED BY <1>4, <2>1, <3>1, <3>2, Zenon
  <2> QED BY <2>3, <2>4, <2>5, Zenon DEF Untouched
<1>16. ASSUME NEW q \in Probe \ DOMAIN groups' PROVE Joined(kept, q)'
  <2>1. CASE q # p
    <3>1. Joined(kept, q)
      BY <1>2, <1>5, <2>1, Zenon
    <3>2. Own(q)' = Own(q) /\ \A i \in Own(q) : links'[i] = links[i]
      BY <1>13, <2>1
    <3>3. {<<links[i].src, links[i].dst>> : i \in Own(q)}' = {<<links[i].src, links[i].dst>> : i \in Own(q)}
      BY <3>2
    <3>4. Pairs(kept, q)' = Pairs(kept, q)
      BY <1>14, Zenon
    <3> QED BY <3>1, <3>2, <3>3, <3>4 DEF Joined
  <2>2. CASE q = p
    <3>1. \A i \in Own(p)' : \E k \in DOMAIN new : i = n + k
      <4>1. Own(p) = {}
        BY <1>7, Zenon DEF Untouched
      <4> QED BY <1>9, <1>10, <4>1, Zenon DEF Own
    <3>2. \A k \in DOMAIN new : n + k \in Own(p)'
      BY <1>8, <1>9, <1>12, Zenon DEF Own
    <3>3. {<<links'[i].src, links'[i].dst>> : i \in Own(p)'} = {<<new[k].src, new[k].dst>> : k \in DOMAIN new}
      <4>1. ASSUME NEW i \in Own(p)'
            PROVE  <<links'[i].src, links'[i].dst>> \in {<<new[k].src, new[k].dst>> : k \in DOMAIN new}
        BY <1>9, <3>1, Zenon
      <4>2. ASSUME NEW k \in DOMAIN new
            PROVE  <<new[k].src, new[k].dst>> \in {<<links'[i].src, links'[i].dst>> : i \in Own(p)'}
        <5>1. n + k \in Own(p)' /\ links'[n + k] = new[k]
          BY <1>9, <3>2, Zenon
        <5> QED BY <5>1
      <4> QED BY <4>1, <4>2, Zenon
    <3>4. ASSUME NEW i \in Own(p)', NEW j \in Own(p)',
                 links'[i].src = links'[j].src, links'[i].dst = links'[j].dst
          PROVE  i = j
      <4>1. PICK k \in DOMAIN new : i = n + k
        BY <3>1, Zenon
      <4>2. PICK l \in DOMAIN new : j = n + l
        BY <3>1, Zenon
      <4>3. links'[i] = new[k] /\ links'[j] = new[l]
        BY <1>9, <4>1, <4>2, Zenon
      <4>4. k = l
        BY <1>8, <3>4, <4>3, Zenon
      <4> QED BY <4>1, <4>2, <4>4, Zenon
    <3>5. Pairs(kept, p)' = Pairs(kept, p)
      BY <1>14, Zenon
    <3> QED BY <1>8, <2>2, <3>3, <3>4, <3>5, Zenon DEF Joined
  <2> QED BY <2>1, <2>2
<1>17. DOMAIN groups' \subseteq Probe /\ hops' \subseteq Hop /\ kept \in Picks(hops)'
  <2>1. Picks(hops)' = Picks(hops)
    BY <1>3, Zenon
  <2> QED BY <1>1, <1>3, <1>5, <2>1, Zenon
<1> QED BY <1>9, <1>15, <1>16, <1>17, Zenon DEF LinksIInv

\* The invariant of extractLinks' loop holds in every round, whatever order the map's probes
\* come in.
THEOREM LinksInvariance == LinksSpec => []LinksIInv
<1>1. LinksIInv /\ [LinksNext]_linksVars => LinksIInv'
  <2> SUFFICES ASSUME LinksIInv, [LinksNext]_linksVars PROVE LinksIInv'
    OBVIOUS
  <2>1. CASE LinksNext
    BY <2>1, VisitPreserves, Zenon DEF LinksNext
  <2>2. CASE UNCHANGED linksVars
    <3>1. hops' = hops /\ groups' = groups /\ seen' = seen /\ links' = links
      BY <2>2 DEF linksVars
    <3>2. \A p : Own(p)' = Own(p)
      BY <3>1, Zenon DEF Own
    <3>3. \A p : Untouched(p)' <=> Untouched(p)
      BY <3>1, <3>2, Zenon DEF Untouched
    <3>4. \A kept, p : Pairs(kept, p)' = Pairs(kept, p)
      BY <3>1, Zenon DEF Pairs, Adjacent
    <3>5. \A kept, p : Joined(kept, p)' <=> Joined(kept, p)
      BY <3>1, <3>2, <3>4, Zenon DEF Joined
    <3> QED BY <3>1, <3>3, <3>5, Zenon DEF LinksIInv
  <2> QED BY <2>1, <2>2
<1> QED BY <1>1, LinksInitially, PTL DEF LinksSpec

\* What extractLinks returns are, for each probe, the pairs of neighbouring hops of the trace,
\* none missing and none twice.
THEOREM NeighboursAreJoined == LinksSpec => []LinksJoinNeighbours
<1>1. LinksIInv => LinksJoinNeighbours
  <2> SUFFICES ASSUME LinksIInv, Done PROVE LinksJoinNeighbours
    BY DEF LinksJoinNeighbours
  <2>1. PICK kept \in Picks(hops) : \A p \in Probe : Joined(kept, p)
    BY Zenon DEF LinksIInv, Done
  <2> QED BY <2>1, Zenon DEF LinksJoinNeighbours, Joined, Own
<1> QED BY <1>1, LinksInvariance, PTL

\* Finite sets between which there is a bijection have the same number of elements.
LEMMA SameCount ==
  ASSUME NEW S, NEW T, IsFiniteSet(S), NEW f \in [S -> T],
         \A x, y \in S : f[x] = f[y] => x = y, \A t \in T : \E x \in S : f[x] = t
  PROVE  IsFiniteSet(T) /\ Cardinality(T) = Cardinality(S)
<1>1. f \in Bijection(S, T)
  BY DEF Bijection, Injection, Surjection, IsInjective
<1>2. ExistsBijection(S, T)
  BY <1>1, Zenon DEF ExistsBijection
<1> QED BY <1>2, FS_Bijection

\* The pairs processNormalTrace hashes are those of the trace, each as often as there are probes
\* that saw it: a link is in links once, under the probe it was found for.
THEOREM FingerprintOfTheTrace == LinksSpec => []FingerprintIsTheTraces
<1>1. LinksIInv => FingerprintIsTheTraces
  <2> SUFFICES ASSUME LinksIInv, Done
               PROVE  \E kept \in Picks(hops) : \A pair \in Addr \X Addr :
                        LinkFingerprint[pair] = Cardinality({p \in Probe : pair \in Pairs(kept, p)})
    BY Zenon DEF FingerprintIsTheTraces
  <2>1. PICK kept \in Picks(hops) : \A p \in Probe : Joined(kept, p)
    BY Zenon DEF LinksIInv, Done
  <2>2. links \in Seq(LinkSet)
    BY Zenon DEF LinksIInv
  <2>3. ASSUME NEW pair \in Addr \X Addr
        PROVE  LinkFingerprint[pair] = Cardinality({p \in Probe : pair \in Pairs(kept, p)})
    <3> DEFINE A == {i \in DOMAIN links : <<links[i].src, links[i].dst>> = pair}
               B == {p \in Probe : pair \in Pairs(kept, p)}
               f == [i \in A |-> links[i].probe]
    <3>1. LinkFingerprint[pair] = Cardinality(A)
      BY Zenon DEF LinkFingerprint
    <3>2. IsFiniteSet(A)
      <4>1. DOMAIN links = 1..Len(links) /\ Len(links) \in Int
        BY <2>2
      <4>2. IsFiniteSet(DOMAIN links)
        BY <4>1, FS_Interval
      <4> QED BY <4>2, FS_Subset
    <3>3. ASSUME NEW i \in A
          PROVE  /\ links[i].probe \in Probe /\ i \in Own(links[i].probe)
                 /\ <<links[i].src, links[i].dst>> = pair
      <4>1. i \in DOMAIN links /\ <<links[i].src, links[i].dst>> = pair
        BY Zenon
      <4>2. links[i] \in LinkSet
        BY <2>2, <4>1
      <4>3. links[i].probe \in Probe
        BY <4>2 DEF LinkSet
      <4> QED BY <4>1, <4>3, Zenon DEF Own
    <3>4. f \in [A -> B]
      <4>1. ASSUME NEW i \in A PROVE pair \in Pairs(kept, links[i].probe)
        <5> DEFINE p == links[i].probe
        <5>1. p \in Probe /\ i \in Own(p) /\ <<links[i].src, links[i].dst>> = pair
          BY <3>3, Zenon
        <5> HIDE DEF p, A, B
        <5>2. {<<links[j].src, links[j].dst>> : j \in Own(p)} = Pairs(kept, p)
          BY <2>1, <5>1, Zenon DEF Joined
        <5>3. <<links[i].src, links[i].dst>> \in {<<links[j].src, links[j].dst>> : j \in Own(p)}
          BY <5>1, Zenon
        <5> QED BY <5>1, <5>2, <5>3, Zenon DEF p
      <4>2. \A i \in A : links[i].probe \in B
        BY <3>3, <4>1, Zenon
      <4> HIDE DEF A, B
      <4> QED BY <4>2, Zenon
    <3>5. ASSUME NEW i \in A, NEW j \in A, f[i] = f[j] PROVE i = j
      <4>1. links[i].probe = links[j].probe
        BY <3>5, Zenon
      <4>2. links[i].src = links[j].src /\ links[i].dst = links[j].dst
        BY <3>3
      <4>3. Joined(kept, links[i].probe)
        BY <2>1, <3>3, Zenon
      <4> QED BY <3>3, <4>1, <4>2, <4>3, Zenon DEF Joined
    <3>6. ASSUME NEW p \in B PROVE \E i \in A : f[i] = p
      <4>1. Joined(kept, p) /\ pair \in Pairs(kept, p)
        BY <2>1, Zenon
      <4>2. PICK i \in Own(p) : <<links[i].src, links[i].dst>> = pair
        BY <4>1, Zenon DEF Joined
      <4>3. i \in A /\ links[i].probe = p
        BY <4>2, Zenon DEF Own
      <4> QED BY <4>3, Zenon
    <3> HIDE DEF A, B, f
    <3>7. Cardinality(B) = Cardinality(A)
      BY <3>2, <3>4, <3>5, <3>6, SameCount, Zenon
    <3> QED BY <3>1, <3>7, Zenon DEF B
  <2> QED BY <2>1, <2>3, Zenon
<1> QED BY <1>1, LinksInvariance, PTL

=============================================================================

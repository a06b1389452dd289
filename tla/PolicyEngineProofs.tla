------------------------- MODULE PolicyEngineProofs -------------------------
(***************************************************************************)
(* Proofs about PolicyEngine, for any series, findings, thresholds,        *)
(* windows, lags and faults.                                               *)
(*                                                                         *)
(* The inductive invariant says of every alarm state, in memory and in the *)
(* table, that it is Good (its fields agree with each other) and Owned     *)
(* (the findings and the event it names exist and belong to its series).   *)
(* Sweep and ApplyFinding build a state from one that is Good, and the     *)
(* tables only grow, so every step preserves it.                           *)
(*                                                                         *)
(* The refinement follows: an action writes at most one thing EventLog     *)
(* shows, and the invariant gives the guards of the abstract action.  The  *)
(* last part is about the memory as long as it is there: the state under   *)
(* the worker's key knows the one open event of its series.                *)
(***************************************************************************)
EXTENDS PolicyEngine, FiniteSetTheorems, TLAPS

Good(st) ==
  /\ st \in PolicyState
  /\ st.status \in {"firing", "recovering"} <=> st.event # None
  /\ st.pending # {} => st.status = "watching"
  /\ st.status = "firing" => st.score >= CloseThreshold

Owned(s, st, fs, es) ==
  /\ \A f \in st.pending : fs[f].series = s
  /\ st.event # None => fs[st.event].series = s /\ es[st.event].status # "none"

Fine(s, st, fs, es) == Good(st) /\ Owned(s, st, fs, es)

\* The tables fs and es became fs2 and es2: no row lost its series or its event.
Grows(fs, es, fs2, es2) ==
  \A f \in Finding :
    /\ fs[f].series \in Series => fs2[f].series = fs[f].series
    /\ es[f].status # "none" => es2[f].status # "none"

EventRow == [status : {"none", "open", "closed"}, count : Nat]
FindingRow == [series : Series \cup {None}, event : Finding \cup {None}]

TablesOK ==
  /\ up \in BOOLEAN
  /\ events \in [Finding -> EventRow]
  /\ findings \in [Finding -> FindingRow]
  /\ \A e \in Finding : events[e].status # "none" => findings[e].series # None

StatesOK ==
  /\ mem \in [Key -> PolicyState]
  /\ rows \in [Series -> PolicyState]
  /\ \A k \in Key : Fine(k[1], mem[k], findings, events)
  /\ \A s \in Series : Fine(s, rows[s], findings, events)

\* A finding on its way to ApplyFinding is in the table and has no event yet.
Carried(s, r, fs, es) ==
  /\ r \in [finding : Finding, severity : Severities, lag : Int]
  /\ fs[r.finding].series = s
  /\ es[r.finding].status = "none"

ReportsOK ==
  /\ reports \in [Series -> [finding : Finding \cup {None}, severity : Nat, lag : Int]]
  /\ \A s \in Series : reports[s] = Idle \/ Carried(s, reports[s], findings, events)

IInv == TablesOK /\ StatesOK /\ ReportsOK

-----------------------------------------------------------------------------
(* The bucket *)

\* A score that has leaked is a natural number, whatever the elapsed time.
LEMMA DecayedNat ==
  ASSUME NEW score \in Nat, NEW elapsed \in Int
  PROVE  Decayed(score, elapsed) \in Nat
<1>1. DecayPerTick * elapsed \in Int
  BY BucketAssumption
<1> QED BY <1>1 DEF Decayed

\* A finding leaves the score at its severity or above, whatever the elapsed time.
LEMMA AddScore ==
  ASSUME NEW score \in Nat, NEW elapsed \in Int, NEW v \in Severities
  PROVE  /\ Add(score, elapsed, v).score \in Nat
         /\ Add(score, elapsed, v).score >= CloseThreshold
<1>1. Decayed(score, elapsed) \in Nat
  BY DecayedNat
<1>2. v \in Nat /\ v >= CloseThreshold
  BY EngineAssumption, SeverityFloor
<1>3. Contribution(v) = v
  BY <1>2 DEF Contribution
<1> QED BY <1>1, <1>2, <1>3, BucketAssumption DEF Add

\* Decay reports the falling edge whenever it takes a score below CloseThreshold.
LEMMA DecayScore ==
  ASSUME NEW score \in Nat, NEW elapsed \in Int
  PROVE  /\ Decay(score, elapsed).score \in Nat
         /\ score >= CloseThreshold /\ ~Decay(score, elapsed).crossedClose
              => Decay(score, elapsed).score >= CloseThreshold
<1>1. Decayed(score, elapsed) \in Nat
  BY DecayedNat
<1>2. Decay(score, elapsed).score = Decayed(score, elapsed)
  BY DEF Decay
<1>3. Decay(score, elapsed).crossedClose =
        (score >= CloseThreshold /\ Decayed(score, elapsed) < CloseThreshold)
  BY Zenon DEF Decay
<1>4. score >= CloseThreshold /\ ~Decay(score, elapsed).crossedClose
        => ~(Decayed(score, elapsed) < CloseThreshold)
  BY <1>3, Zenon
<1> QED BY <1>1, <1>2, <1>4, BucketAssumption

-----------------------------------------------------------------------------
(* Single states *)

\* The passing of time keeps a state Good and its event and findings as they are.
LEMMA AgedGood ==
  ASSUME NEW st, Good(st)
  PROVE  /\ Good(Aged(st))
         /\ Aged(st).event = st.event /\ Aged(st).pending = st.pending
<1>1. \A a \in Int : Older(a) \in Int
  BY EngineAssumption DEF Older
<1> QED BY <1>1, Zenon DEF Aged, Good, PolicyState

\* No state, and the state ApplyFinding creates, are Good and name nothing.
LEMMA AbsentGood ==
  /\ Good(Absent) /\ Good(Fresh)
  /\ Absent.event = None /\ Absent.pending = {}
  /\ Fresh.event = None /\ Fresh.pending = {}
BY EngineAssumption DEF Good, PolicyState, Absent, Fresh, Status

\* Sweep's update of the bucket changes the score and its time, nothing else.
LEMMA LeakedFields ==
  ASSUME NEW st \in PolicyState
  PROVE  /\ Leaked(st) \in PolicyState
         /\ Leaked(st).status = st.status
         /\ Leaked(st).score = Decay(st.score, st.scoreAge).score
         /\ Leaked(st).event = st.event
         /\ Leaked(st).pending = st.pending
<1>1. st.score \in Nat /\ st.scoreAge \in Int
  BY DEF PolicyState
<1>2. PICK n \in Nat : n = Decay(st.score, st.scoreAge).score
  BY <1>1, DecayScore
<1>3. Leaked(st) = [st EXCEPT !.score = n, !.scoreAge = 0]
  BY <1>2 DEF Leaked
<1>4. 0 \in Int
  OBVIOUS
<1>5. Leaked(st) \in PolicyState
  BY <1>3, <1>4, Zenon DEF PolicyState
<1> QED BY <1>2, <1>3, <1>5 DEF PolicyState

\* A Good state stays Good when its bucket leaks without the falling edge.
LEMMA LeakedGood ==
  ASSUME NEW st, Good(st), ~Cooled(st)
  PROVE  /\ Good(Leaked(st))
         /\ Leaked(st).event = st.event /\ Leaked(st).pending = st.pending
<1>1. st \in PolicyState
  BY DEF Good
<1>2. st.score \in Nat /\ st.scoreAge \in Int
  BY <1>1 DEF PolicyState
<1>3. st.status = "firing" => Decay(st.score, st.scoreAge).score >= CloseThreshold
  BY <1>2, DecayScore DEF Cooled, Good
<1> QED BY <1>1, <1>3, LeakedFields DEF Good

\* What Sweep makes of a Good state is Good, and names no new event or finding.
LEMMA SweptGood ==
  ASSUME NEW st, Good(st)
  PROVE  /\ Good(Swept(st))
         /\ Swept(st).event \in {st.event, None}
         /\ Swept(st).pending \subseteq st.pending
<1>1. st \in PolicyState
  BY DEF Good
<1>2. CASE Expired(st)
  <2>1. Swept(st) = [st EXCEPT !.status = "clean", !.statusAge = 0, !.pending = {},
                               !.score = 0, !.scoreAge = 0]
    BY <1>2 DEF Swept, Expired, Cooled, Closes
  <2>2. Swept(st) = [status |-> "clean", statusAge |-> 0, score |-> 0,
                     scoreAge |-> 0, event |-> st.event, pending |-> {}]
    BY <1>1, <2>1, Zenon DEF PolicyState
  <2> QED BY <1>1, <1>2, <2>2 DEF Good, PolicyState, Status, Expired
<1> DEFINE d == Decay(st.score, st.scoreAge)
<1>3. d.score \in Nat
  BY <1>1, DecayScore DEF PolicyState
<1> HIDE DEF d
<1>4. CASE Cooled(st)
  <2>1. Swept(st) = [Leaked(st) EXCEPT !.status = "recovering", !.statusAge = 0]
    BY <1>4 DEF Swept, Expired, Cooled, Closes
  <2>2. Swept(st) = [status |-> "recovering", statusAge |-> 0, score |-> d.score,
                     scoreAge |-> 0, event |-> st.event, pending |-> st.pending]
    BY <1>1, <2>1, Zenon DEF Leaked, PolicyState, d
  <2> QED BY <1>1, <1>3, <1>4, <2>2 DEF Good, PolicyState, Status, Cooled
<1>5. CASE Closes(st)
  <2>1. Swept(st) = [Leaked(st) EXCEPT !.status = "clean", !.statusAge = 0,
                                       !.event = None, !.pending = {}]
    BY <1>5 DEF Swept, Expired, Cooled, Closes
  <2>2. Swept(st) = [status |-> "clean", statusAge |-> 0, score |-> d.score,
                     scoreAge |-> 0, event |-> None, pending |-> {}]
    BY <1>1, <2>1, Zenon DEF Leaked, PolicyState, d
  <2> QED BY <1>1, <1>3, <1>5, <2>2 DEF Good, PolicyState, Status, Closes
<1>6. CASE ~Expired(st) /\ ~Cooled(st) /\ ~Closes(st)
  <2>1. Swept(st) = Leaked(st)
    BY <1>6 DEF Swept
  <2> QED BY <1>6, <2>1, LeakedGood
<1> QED BY <1>2, <1>4, <1>5, <1>6

\* A state that names fewer rows than an Owned one is Owned.
LEMMA OwnedLess ==
  ASSUME NEW s, NEW st, NEW t, NEW fs, NEW es, Owned(s, st, fs, es),
         t.event \in {st.event, None}, t.pending \subseteq st.pending
  PROVE  Owned(s, t, fs, es)
BY DEF Owned

\* A state stays Owned when the tables grow.
LEMMA OwnedGrows ==
  ASSUME NEW s \in Series, NEW st, Good(st), NEW fs, NEW es, NEW fs2, NEW es2,
         Owned(s, st, fs, es), Grows(fs, es, fs2, es2)
  PROVE  Owned(s, st, fs2, es2)
<1>1. st.event \in Finding \cup {None} /\ st.pending \subseteq Finding
  BY DEF Good, PolicyState
<1> QED BY <1>1 DEF Owned, Grows

\* A state stays Fine when the tables grow.
LEMMA FineGrows ==
  ASSUME NEW s \in Series, NEW st, NEW fs, NEW es, NEW fs2, NEW es2,
         Fine(s, st, fs, es), Grows(fs, es, fs2, es2)
  PROVE  Fine(s, st, fs2, es2)
BY OwnedGrows DEF Fine

\* No state, and a new one, are Fine for every series.
LEMMA AbsentFine ==
  ASSUME NEW s, NEW fs, NEW es
  PROVE  Fine(s, Absent, fs, es) /\ Fine(s, Fresh, fs, es)
BY AbsentGood DEF Fine, Owned

\* A key is a series with a kind.
LEMMA KeySeries == \A k \in Key : k[1] \in Series
BY DEF Key

\* Both keys of a series are keys, and the worker's key is one of them.
LEMMA KeyKinds ==
  ASSUME NEW s \in Series
  PROVE  /\ <<s, "typed">> \in Key /\ <<s, "typed">>[1] = s
         /\ <<s, "untyped">> \in Key /\ <<s, "untyped">>[1] = s
         /\ WorkerKey(s) \in Key /\ WorkerKey(s)[1] = s
BY DEF Key, WorkerKey

-----------------------------------------------------------------------------
(* Sweep *)

\* The states Sweep reads back from the table are Fine.
LEMMA HydratedFine ==
  ASSUME IInv, NEW k \in Key
  PROVE  Fine(k[1], Hydrated[k], findings, events)
<1>1. k[1] \in Series
  BY KeySeries
<1>2. Hydrated[k] = rows[k[1]] \/ Hydrated[k] = mem[k]
  BY DEF Hydrated
<1> QED BY <1>1, <1>2 DEF IInv, StatesOK

\* The states Sweep leaves in memory are Fine, also when CloseEvent failed.
LEMMA SweptMemFine ==
  ASSUME IInv, NEW done, NEW failed, NEW k \in Key,
         \A j \in failed : Closes(Hydrated[j])
  PROVE  Fine(k[1], SweptMem(done, failed)[k], findings, events)
<1> DEFINE st == Hydrated[k]
<1>1. Fine(k[1], st, findings, events)
  BY HydratedFine
<1>2. \/ SweptMem(done, failed)[k] = Swept(st)
      \/ k \in failed /\ SweptMem(done, failed)[k] = Leaked(st)
      \/ SweptMem(done, failed)[k] = st
  BY DEF SweptMem
<1>3. Fine(k[1], Swept(st), findings, events)
  BY <1>1, SweptGood, OwnedLess DEF Fine
<1>4. ASSUME k \in failed PROVE Fine(k[1], Leaked(st), findings, events)
  <2>1. ~Cooled(st)
    BY <1>4 DEF Closes, Cooled
  <2> QED BY <1>1, <2>1, LeakedGood, OwnedLess DEF Fine
<1> QED BY <1>1, <1>2, <1>3, <1>4

\* CloseEvent touches only events that exist.
LEMMA CloseEventsGrows ==
  ASSUME IInv, NEW keys \in SUBSET Key, CloseEvents(keys)
  PROVE  /\ events' \in [Finding -> EventRow]
         /\ \A e \in Finding : events'[e].status = "none" <=> events[e].status = "none"
<1>1. \A e \in Finding : events[e] \in EventRow
  BY DEF IInv, TablesOK
<1>2. ASSUME NEW e \in Finding
      PROVE  /\ events'[e] \in EventRow
             /\ events'[e].status = "none" <=> events[e].status = "none"
  <2>1. CASE \E k \in keys : Closes(Hydrated[k]) /\ Hydrated[k].event = e
    <3>1. PICK k \in keys : Closes(Hydrated[k]) /\ Hydrated[k].event = e
      BY <2>1
    <3>2. Owned(k[1], Hydrated[k], findings, events)
      BY HydratedFine DEF Fine
    <3>3. events[e].status # "none"
      BY <3>1, <3>2 DEF Owned, Closes
    <3>4. events'[e] = [events[e] EXCEPT !.status = "closed"]
      BY <2>1 DEF CloseEvents
    <3> QED BY <1>1, <3>3, <3>4 DEF EventRow
  <2>2. CASE ~\E k \in keys : Closes(Hydrated[k]) /\ Hydrated[k].event = e
    <3>1. events'[e] = events[e]
      BY <2>2 DEF CloseEvents
    <3> QED BY <1>1, <3>1
  <2> QED BY <2>1, <2>2
<1>3. events' = [e \in Finding |-> events'[e]]
  BY DEF CloseEvents
<1> QED BY <1>2, <1>3, Zenon

\* One Sweep, whole or cut short at CloseEvent, in a running or in a starting
\* process.
LEMMA SweepPreserves ==
  ASSUME IInv, NEW done \in SUBSET Key, NEW failed \in SUBSET Key,
         NEW closing \in SUBSET Key, NEW unsaved,
         \A j \in failed : Closes(Hydrated[j]),
         CloseEvents(closing),
         SaveSwept(done, unsaved, SweptMem(done, failed)),
         UNCHANGED <<findings, reports>>,
         up' \in BOOLEAN,
         mem' = SweptMem(done, failed) \/ UNCHANGED mem
  PROVE  IInv'
<1> DEFINE states == SweptMem(done, failed)
<1>1. /\ events' \in [Finding -> EventRow]
      /\ \A e \in Finding : events'[e].status = "none" <=> events[e].status = "none"
  BY CloseEventsGrows
<1>2. Grows(findings, events, findings', events')
  BY <1>1 DEF Grows
<1>3. TablesOK'
  BY <1>1 DEF IInv, TablesOK
<1>4. \A k \in Key : Fine(k[1], states[k], findings, events)
  BY SweptMemFine
<1>5. \A k \in Key : Fine(k[1], mem'[k], findings, events)
  BY <1>4 DEF IInv, StatesOK
<1>6. \A s \in Series : Fine(s, rows'[s], findings, events)
  <2> SUFFICES ASSUME NEW s \in Series PROVE Fine(s, rows'[s], findings, events)
    OBVIOUS
  <2>1. \/ rows'[s] = rows[s]
        \/ rows'[s] = states[<<s, "typed">>]
        \/ rows'[s] = states[<<s, "untyped">>]
    BY DEF SaveSwept
  <2>2. /\ Fine(s, states[<<s, "typed">>], findings, events)
        /\ Fine(s, states[<<s, "untyped">>], findings, events)
    BY <1>4, KeyKinds
  <2> QED BY <2>1, <2>2 DEF IInv, StatesOK
<1>7. mem' \in [Key -> PolicyState] /\ rows' \in [Series -> PolicyState]
  <2>1. mem' = [k \in Key |-> mem'[k]] /\ rows' = [s \in Series |-> rows'[s]]
    BY DEF SaveSwept, SweptMem, IInv, StatesOK
  <2>2. (\A k \in Key : mem'[k] \in PolicyState) /\ (\A s \in Series : rows'[s] \in PolicyState)
    BY <1>5, <1>6 DEF Fine, Good
  <2> QED BY <2>1, <2>2, Zenon
<1>8. StatesOK'
  BY <1>2, <1>5, <1>6, <1>7, FineGrows, KeySeries DEF StatesOK
<1>9. ReportsOK'
  BY <1>1 DEF IInv, ReportsOK, Carried
<1> QED BY <1>3, <1>8, <1>9 DEF IInv

-----------------------------------------------------------------------------
(* ApplyFinding *)

\* The state ApplyFinding loads, cached, from the row or new, is Fine.
LEMMA LoadedFine ==
  ASSUME IInv, NEW s \in Series
  PROVE  Fine(s, Loaded(s), findings, events)
<1>1. Fine(s, mem[WorkerKey(s)], findings, events)
  BY KeyKinds, Zenon DEF IInv, StatesOK
<1>2. Fine(s, rows[s], findings, events)
  BY DEF IInv, StatesOK
<1> QED BY <1>1, <1>2, AbsentFine DEF Loaded

\* LeakyBucket.Add changes the score and its time only, and lifts the score to
\* CloseThreshold or above.
LEMMA BumpedFields ==
  ASSUME IInv, NEW s \in Series, Carried(s, reports[s], findings, events)
  PROVE  /\ Bumped(s) \in PolicyState
         /\ Bumped(s).status = Loaded(s).status
         /\ Bumped(s).event = Loaded(s).event
         /\ Bumped(s).pending = Loaded(s).pending
         /\ Bumped(s).score >= CloseThreshold
<1>1. Loaded(s) \in PolicyState
  BY LoadedFine DEF Fine, Good
<1>2. /\ Loaded(s).score \in Nat
      /\ Loaded(s).scoreAge - reports[s].lag \in Int
      /\ reports[s].severity \in Severities
      /\ reports[s].lag \in Int
  BY <1>1 DEF PolicyState, Carried
<1>3. PICK n \in Nat : n = Update(s).score /\ n >= CloseThreshold
  BY <1>2, AddScore DEF Update
<1>4. PICK l \in Int : l = reports[s].lag
  BY <1>2
<1>5. Bumped(s) = [Loaded(s) EXCEPT !.score = n, !.scoreAge = l]
  BY <1>3, <1>4 DEF Bumped
<1>6. Bumped(s) \in PolicyState
  BY <1>1, <1>5, Zenon DEF PolicyState
<1> QED BY <1>1, <1>3, <1>5, <1>6 DEF PolicyState

\* A state with its bucket updated and otherwise as it was.
LEMMA BumpedFine ==
  ASSUME IInv, NEW s \in Series, Carried(s, reports[s], findings, events)
  PROVE  Fine(s, Bumped(s), findings, events)
BY BumpedFields, LoadedFine DEF Fine, Good, Owned

\* After clean -> watching, or one more pending finding, the state is watching,
\* has no event, and holds back findings of its own series.
LEMMA WatchedFields ==
  ASSUME IInv, NEW s \in Series, Carried(s, reports[s], findings, events),
         Loaded(s).status \in {"clean", "watching"}
  PROVE  /\ Watched(s) \in PolicyState
         /\ Watched(s).status = "watching"
         /\ Watched(s).event = None
         /\ Watched(s).score >= CloseThreshold
         /\ reports[s].finding \in Watched(s).pending
         /\ \A f \in Watched(s).pending : f \in Finding /\ findings[f].series = s
<1> DEFINE f == reports[s].finding
<1>1. f \in Finding /\ findings[f].series = s /\ reports[s].lag \in Int
  BY DEF Carried
<1>2. Bumped(s) \in PolicyState /\ Bumped(s).score >= CloseThreshold
  BY BumpedFields
<1>3. /\ Bumped(s).event = None
      /\ Bumped(s).status = Loaded(s).status
      /\ \A g \in Bumped(s).pending : g \in Finding /\ findings[g].series = s
  BY BumpedFields, LoadedFine DEF Fine, Good, Owned, PolicyState
<1>4. PICK l \in Int : l = reports[s].lag
  BY <1>1
<1> HIDE DEF f
<1>5. CASE Loaded(s).status = "clean"
  <2>1. Watched(s) = [Bumped(s) EXCEPT !.status = "watching", !.statusAge = l, !.pending = {f}]
    BY <1>4, <1>5 DEF Watched, f
  <2>2. {f} \in SUBSET Finding /\ "watching" \in Status \cup {"absent"}
    BY <1>1 DEF Status
  <2>3. Watched(s) \in PolicyState
    BY <1>2, <2>1, <2>2, Zenon DEF PolicyState
  <2>4. /\ Watched(s).status = "watching"
        /\ Watched(s).pending = {f}
        /\ Watched(s).event = Bumped(s).event
        /\ Watched(s).score = Bumped(s).score
    BY <1>2, <2>1 DEF PolicyState
  <2> QED BY <1>1, <1>2, <1>3, <2>3, <2>4 DEF f
<1>6. CASE Loaded(s).status = "watching"
  <2>1. Watched(s) = [Bumped(s) EXCEPT !.pending = Bumped(s).pending \cup {f}]
    BY <1>2, <1>6 DEF Watched, f, PolicyState
  <2>2. Bumped(s).pending \cup {f} \in SUBSET Finding
    BY <1>1, <1>2 DEF PolicyState
  <2>3. Watched(s) \in PolicyState
    BY <1>2, <2>1, <2>2, Zenon DEF PolicyState
  <2>4. /\ Watched(s).status = "watching"
        /\ Watched(s).pending = Bumped(s).pending \cup {f}
        /\ Watched(s).event = Bumped(s).event
        /\ Watched(s).score = Bumped(s).score
    BY <1>2, <1>3, <1>6, <2>1 DEF PolicyState
  <2> QED BY <1>1, <1>2, <1>3, <2>3, <2>4 DEF f
<1> QED BY <1>5, <1>6

\* The watching state ApplyFinding makes is Fine.
LEMMA WatchedFine ==
  ASSUME IInv, NEW s \in Series, Carried(s, reports[s], findings, events),
         Loaded(s).status \in {"clean", "watching"}
  PROVE  Fine(s, Watched(s), findings, events)
BY WatchedFields DEF Fine, Good, Owned

\* openEvent leaves a Good firing state that names the new event.
LEMMA OpenedFields ==
  ASSUME IInv, NEW s \in Series, Carried(s, reports[s], findings, events),
         Loaded(s).status \in {"clean", "watching"}
  PROVE  Good(Opened(s)) /\ Opened(s).event = reports[s].finding /\ Opened(s).pending = {}
<1>1. Watched(s) \in PolicyState /\ Watched(s).score >= CloseThreshold
  BY WatchedFields
<1>2. PICK f \in Finding : f = reports[s].finding
  BY DEF Carried
<1>3. PICK l \in Int : l = reports[s].lag
  BY DEF Carried
<1>4. Opened(s) = [Watched(s) EXCEPT !.status = "firing", !.event = f,
                                     !.pending = {}, !.statusAge = l]
  BY <1>2, <1>3 DEF Opened
<1>5. {} \in SUBSET Finding /\ "firing" \in Status \cup {"absent"}
  BY DEF Status
<1>6. Opened(s) \in PolicyState
  BY <1>1, <1>4, <1>5, Zenon DEF PolicyState
<1>7. /\ Opened(s).status = "firing" /\ Opened(s).event = f /\ Opened(s).pending = {}
      /\ Opened(s).score = Watched(s).score
  BY <1>1, <1>4 DEF PolicyState
<1> QED BY <1>1, <1>2, <1>6, <1>7, EngineAssumption DEF Good

\* A finding leaves an alarm that is up Fine, recovering -> firing included.
LEMMA RefiredFine ==
  ASSUME IInv, NEW s \in Series, Carried(s, reports[s], findings, events),
         Loaded(s).status \in {"firing", "recovering"}
  PROVE  Fine(s, Refired(s), findings, events)
<1>1. Fine(s, Bumped(s), findings, events) /\ Bumped(s).score >= CloseThreshold
  BY BumpedFine, BumpedFields
<1>2. Bumped(s) \in PolicyState /\ Bumped(s).status = Loaded(s).status
  BY BumpedFields
<1>3. CASE Loaded(s).status = "recovering"
  <2>1. PICK l \in Int : l = reports[s].lag
    BY DEF Carried
  <2>2. Refired(s) = [Bumped(s) EXCEPT !.status = "firing", !.statusAge = l]
    BY <1>3, <2>1 DEF Refired
  <2>3. "firing" \in Status \cup {"absent"}
    BY DEF Status
  <2>4. Refired(s) \in PolicyState
    BY <1>2, <2>2, <2>3, Zenon DEF PolicyState
  <2>5. /\ Refired(s).status = "firing" /\ Refired(s).event = Bumped(s).event
        /\ Refired(s).pending = Bumped(s).pending /\ Refired(s).score = Bumped(s).score
    BY <1>2, <2>2 DEF PolicyState
  <2> QED BY <1>1, <1>2, <1>3, <2>4, <2>5 DEF Fine, Good, Owned
<1>4. CASE Loaded(s).status = "firing"
  BY <1>1, <1>4 DEF Refired
<1> QED BY <1>3, <1>4

\* ApplyFinding returns: one state changed in memory, and perhaps its row.
LEMMA ReturnPreserves ==
  ASSUME IInv, NEW s \in Series, NEW st, Carried(s, reports[s], findings, events),
         Return(s, st), Fine(s, st, findings', events'),
         rows' = rows \/ rows' = [rows EXCEPT ![s] = st],
         events' \in [Finding -> EventRow],
         findings' \in [Finding -> FindingRow],
         \A f \in Finding : findings'[f].series = findings[f].series,
         \A e \in Finding : \/ events'[e].status = events[e].status
                            \/ e = reports[s].finding /\ events'[e].status # "none"
  PROVE  IInv'
<1> DEFINE r == reports[s].finding
<1>1. r \in Finding /\ findings[r].series = s /\ events[r].status = "none"
  BY DEF Carried
<1>2. s # None
  BY EngineAssumption
<1>3. Grows(findings, events, findings', events')
  BY DEF Grows
<1>4. TablesOK'
  BY <1>1, <1>2 DEF IInv, TablesOK, Return
<1>5. /\ mem \in [Key -> PolicyState] /\ rows \in [Series -> PolicyState]
      /\ st \in PolicyState /\ WorkerKey(s) \in Key /\ WorkerKey(s)[1] = s
  BY KeyKinds, Zenon DEF IInv, StatesOK, Fine, Good
<1>6. mem' \in [Key -> PolicyState] /\ rows' \in [Series -> PolicyState]
  BY <1>5 DEF Return
<1>7. \A k \in Key : Fine(k[1], mem'[k], findings', events')
  <2> SUFFICES ASSUME NEW k \in Key PROVE Fine(k[1], mem'[k], findings', events')
    OBVIOUS
  <2>1. CASE k = WorkerKey(s)
    BY <1>5, <2>1 DEF Return
  <2>2. CASE k # WorkerKey(s)
    <3>1. mem'[k] = mem[k]
      BY <1>5, <2>2 DEF Return
    <3> QED BY <1>3, <3>1, FineGrows, KeySeries DEF IInv, StatesOK
  <2> QED BY <2>1, <2>2
<1>8. \A t \in Series : Fine(t, rows'[t], findings', events')
  <2> SUFFICES ASSUME NEW t \in Series PROVE Fine(t, rows'[t], findings', events')
    OBVIOUS
  <2>1. rows'[t] = rows[t] \/ (t = s /\ rows'[t] = st)
    BY <1>5
  <2> QED BY <1>3, <2>1, FineGrows DEF IInv, StatesOK
<1>9. StatesOK'
  BY <1>6, <1>7, <1>8 DEF StatesOK
<1>10. ReportsOK'
  <2>1. reports' = [reports EXCEPT ![s] = Idle]
    BY DEF Return
  <2>2. reports' \in [Series -> [finding : Finding \cup {None}, severity : Nat, lag : Int]]
    BY <2>1 DEF IInv, ReportsOK, Idle
  <2>3. ASSUME NEW t \in Series, reports'[t] # Idle
        PROVE  Carried(t, reports'[t], findings', events')
    <3>1. t # s /\ reports'[t] = reports[t]
      BY <2>1, <2>3 DEF IInv, ReportsOK
    <3>2. Carried(t, reports[t], findings, events)
      BY <2>3, <3>1 DEF IInv, ReportsOK
    <3>3. reports[t].finding \in Finding /\ reports[t].finding # r
      BY <1>1, <3>1, <3>2 DEF Carried
    <3> QED BY <3>1, <3>2, <3>3 DEF Carried
  <2> QED BY <2>2, <2>3 DEF ReportsOK
<1> QED BY <1>4, <1>9, <1>10 DEF IInv

\* The transaction of openEvent keeps the rows typed, and creates one event.
LEMMA OpenEventTxTables ==
  ASSUME IInv, NEW s \in Series, Carried(s, reports[s], findings, events),
         Loaded(s).status \in {"clean", "watching"}, OpenEventTx(s)
  PROVE  /\ events' \in [Finding -> EventRow]
         /\ findings' \in [Finding -> FindingRow]
         /\ \A f \in Finding : findings'[f].series = findings[f].series
         /\ \A e \in Finding : e # reports[s].finding => events'[e] = events[e]
         /\ events'[reports[s].finding].status = "open"
<1> DEFINE pending == Watched(s).pending
<1>1. PICK r \in Finding : r = reports[s].finding
  BY DEF Carried
<1>2. Cardinality(pending) \in Nat
  <2>1. Watched(s) \in PolicyState
    BY WatchedFields
  <2>2. IsFiniteSet(pending)
    BY <2>1, FindingsFinite, FS_Subset DEF PolicyState
  <2> QED BY <2>2, FS_CardinalityType
<1>3. events' = [events EXCEPT ![r] = [status |-> "open", count |-> Cardinality(pending)]]
  BY <1>1 DEF OpenEventTx
<1>4. events \in [Finding -> EventRow] /\ findings \in [Finding -> FindingRow]
  BY DEF IInv, TablesOK
<1>5. [status |-> "open", count |-> Cardinality(pending)] \in EventRow
  BY <1>2 DEF EventRow
<1>6. events' \in [Finding -> EventRow]
  BY <1>3, <1>4, <1>5
<1>7. ASSUME NEW g \in Finding
      PROVE  findings'[g] \in FindingRow /\ findings'[g].series = findings[g].series
  <2>1. findings'[g] = findings[g] \/ findings'[g] = [findings[g] EXCEPT !.event = r]
    BY <1>1 DEF OpenEventTx
  <2> QED BY <1>4, <2>1 DEF FindingRow
<1>8. findings' = [g \in Finding |-> findings'[g]]
  BY DEF OpenEventTx
<1>9. findings' \in [Finding -> FindingRow]
  BY <1>7, <1>8, Zenon
<1> QED BY <1>1, <1>3, <1>4, <1>6, <1>7, <1>9

\* The death of the process preserves the invariant: the table stays Fine.
LEMMA DiePreserves ==
  ASSUME IInv, Die, UNCHANGED <<events, findings, rows>>
  PROVE  IInv'
<1>1. TablesOK'
  BY Zenon DEF IInv, TablesOK, Die
<1>2. StatesOK'
  BY AbsentFine DEF IInv, StatesOK, Die, NoStates, Fine, Good
<1>3. ReportsOK'
  BY DEF ReportsOK, Die, NoReports, Idle
<1> QED BY <1>1, <1>2, <1>3 DEF IInv

\* ApplyFinding preserves the invariant, whichever of its statements fails.
LEMMA ApplyFindingPreserves ==
  ASSUME IInv, NEW s \in Series, ApplyFinding(s)
  PROVE  IInv'
<1>1. Carried(s, reports[s], findings, events)
  BY DEF IInv, ReportsOK, ApplyFinding
<1>2. events \in [Finding -> EventRow] /\ findings \in [Finding -> FindingRow]
  BY DEF IInv, TablesOK
<1>3. ASSUME ApplyQuiet(s) PROVE IInv'
  <2>1. Loaded(s).status \in {"clean", "watching"}
    BY <1>3 DEF ApplyQuiet
  <2>2. Fine(s, Watched(s), findings, events)
    BY <1>1, <2>1, WatchedFine
  <2>3. CASE ~Update(s).crossedOpen
    BY <1>1, <1>2, <1>3, <2>2, <2>3, ReturnPreserves DEF ApplyQuiet, SavePolicyState
  <2>4. CASE OpenEventTx(s) /\ Return(s, Opened(s)) /\ SavePolicyState(s, Opened(s))
    <3>1. Fine(s, Opened(s), findings', events')
      <4>1. reports[s].finding \in Finding /\ findings[reports[s].finding].series = s
        BY <1>1 DEF Carried
      <4> QED BY <1>1, <2>1, <2>4, <4>1, OpenedFields, OpenEventTxTables DEF Fine, Owned
    <3> QED BY <1>1, <2>1, <2>4, <3>1, OpenEventTxTables, ReturnPreserves DEF SavePolicyState
  <2>5. CASE Return(s, Watched(s)) /\ UNCHANGED <<events, findings, rows>>
    BY <1>1, <1>2, <2>2, <2>5, ReturnPreserves
  <2>6. CASE OpenEventTx(s) /\ Return(s, Watched(s)) /\ UNCHANGED rows
    <3>1. Grows(findings, events, findings', events')
      BY <1>1, <2>1, <2>6, OpenEventTxTables DEF Grows
    <3>2. Fine(s, Watched(s), findings', events')
      BY <2>2, <3>1, FineGrows
    <3> QED BY <1>1, <2>1, <2>6, <3>2, OpenEventTxTables, ReturnPreserves
  <2>7. CASE Die /\ UNCHANGED <<events, findings, rows>>
    BY <2>7, DiePreserves
  <2> QED BY <1>3, <2>3, <2>4, <2>5, <2>6, <2>7 DEF ApplyQuiet, OpenEvent
<1>4. ASSUME ApplyAlarm(s) PROVE IInv'
  <2>1. Loaded(s).status \in {"firing", "recovering"} /\ UNCHANGED events
    BY <1>4 DEF ApplyAlarm
  <2>2. ASSUME Attach(s), Loaded(s).event # None
        PROVE  /\ findings' \in [Finding -> FindingRow]
               /\ \A f \in Finding : findings'[f].series = findings[f].series
    <3>1. PICK r \in Finding : r = reports[s].finding
      BY <1>1 DEF Carried
    <3>2. PICK e \in Finding : e = Loaded(s).event
      BY <2>2, LoadedFine DEF Fine, Good, PolicyState
    <3>3. findings' = [findings EXCEPT ![r] = [findings[r] EXCEPT !.event = e]]
      BY <1>2, <2>2, <3>1, <3>2 DEF Attach
    <3>4. /\ [findings[r] EXCEPT !.event = e] \in FindingRow
          /\ [findings[r] EXCEPT !.event = e].series = findings[r].series
      BY <1>2 DEF FindingRow
    <3> QED BY <1>2, <3>3, <3>4
  <2>3. ASSUME \A f \in Finding : findings'[f].series = findings[f].series, NEW st,
               Fine(s, st, findings, events)
        PROVE  Fine(s, st, findings', events')
    <3>1. Grows(findings, events, findings', events')
      BY <2>1, <2>3 DEF Grows
    <3> QED BY <2>3, <3>1, FineGrows
  <2>4. Fine(s, Bumped(s), findings, events) /\ Fine(s, Refired(s), findings, events)
    BY <1>1, <2>1, BumpedFine, RefiredFine
  <2>5. CASE Return(s, Bumped(s)) /\ UNCHANGED <<rows, findings>>
    BY <1>1, <1>2, <2>1, <2>4, <2>5, ReturnPreserves, Zenon
  <2>6. CASE /\ Loaded(s).event # None
             /\ Attach(s)
             /\ Return(s, Refired(s))
             /\ SavePolicyState(s, Refired(s))
    BY <1>1, <1>2, <2>1, <2>2, <2>3, <2>4, <2>6, ReturnPreserves, Zenon DEF SavePolicyState
  <2>7. CASE /\ Loaded(s).event # None
             /\ Attach(s)
             /\ Return(s, Bumped(s))
             /\ UNCHANGED rows
    BY <1>1, <1>2, <2>1, <2>2, <2>3, <2>4, <2>7, ReturnPreserves, Zenon
  <2> QED BY <1>4, <2>5, <2>6, <2>7 DEF ApplyAlarm
<1>5. ASSUME ApplyUnread(s) PROVE IInv'
  BY <1>1, <1>2, <1>5, AbsentFine, ReturnPreserves DEF ApplyUnread
<1> QED BY <1>3, <1>4, <1>5 DEF ApplyFinding

-----------------------------------------------------------------------------
(* The invariant *)

\* NewPolicyEngine starts in the invariant.
LEMMA InitIInv == Init => IInv
<1> SUFFICES ASSUME Init PROVE IInv
  OBVIOUS
<1>1. TablesOK
  BY DEF Init, TablesOK, EventRow, FindingRow
<1>2. StatesOK
  BY AbsentFine DEF Init, StatesOK, NoStates, Fine, Good
<1>3. ReportsOK
  BY DEF Init, ReportsOK, NoReports, Idle
<1> QED BY <1>1, <1>2, <1>3 DEF IInv

\* The passing of time preserves the invariant.
LEMMA TickPreserves ==
  ASSUME IInv, Tick
  PROVE  IInv'
<1>1. TablesOK'
  BY DEF IInv, TablesOK, Tick
<1>2. \A k \in Key : Fine(k[1], mem'[k], findings', events')
  BY AgedGood, OwnedLess DEF IInv, StatesOK, Tick, Fine
<1>3. \A s \in Series : Fine(s, rows'[s], findings', events')
  BY AgedGood, OwnedLess DEF IInv, StatesOK, Tick, Fine
<1>4. mem' \in [Key -> PolicyState] /\ rows' \in [Series -> PolicyState]
  <2>1. mem' = [k \in Key |-> mem'[k]] /\ rows' = [s \in Series |-> rows'[s]]
    BY DEF Tick
  <2>2. (\A k \in Key : mem'[k] \in PolicyState) /\ (\A s \in Series : rows'[s] \in PolicyState)
    BY <1>2, <1>3 DEF Fine, Good
  <2> QED BY <2>1, <2>2, Zenon
<1>5. ASSUME NEW s \in Series
      PROVE  /\ reports'[s] \in [finding : Finding \cup {None}, severity : Nat, lag : Int]
             /\ reports'[s] = Idle \/ Carried(s, reports'[s], findings', events')
  <2>1. \A a \in Int : Older(a) \in Int
    BY EngineAssumption DEF Older
  <2>2. /\ reports[s] \in [finding : Finding \cup {None}, severity : Nat, lag : Int]
        /\ reports[s] = Idle \/ Carried(s, reports[s], findings, events)
    BY DEF IInv, ReportsOK
  <2>3. \/ reports'[s] = reports[s]
        \/ reports[s] # Idle /\ reports'[s] = [reports[s] EXCEPT !.lag = Older(reports[s].lag)]
    BY <2>2 DEF Tick, Idle
  <2> QED BY <2>1, <2>2, <2>3 DEF Carried, Tick
<1>6. reports' = [s \in Series |-> reports'[s]]
  BY DEF Tick
<1>7. ReportsOK'
  BY <1>5, <1>6, Zenon DEF ReportsOK
<1> QED BY <1>1, <1>2, <1>3, <1>4, <1>7 DEF IInv, StatesOK

\* InsertFinding preserves the invariant.
LEMMA InsertPreserves ==
  ASSUME IInv, NEW s \in Series, NEW f \in Finding, InsertFinding(s, f)
  PROVE  IInv'
<1>1. findings \in [Finding -> FindingRow] /\ events \in [Finding -> EventRow]
  BY DEF IInv, TablesOK
<1>2. findings' = [findings EXCEPT ![f] = [findings[f] EXCEPT !.series = s]]
  BY <1>1 DEF InsertFinding
<1>3. /\ [findings[f] EXCEPT !.series = s] \in FindingRow
      /\ [findings[f] EXCEPT !.series = s].series = s
  BY <1>1 DEF FindingRow
<1>4. /\ findings' \in [Finding -> FindingRow]
      /\ findings'[f].series = s
      /\ \A g \in Finding : g # f => findings'[g] = findings[g]
  BY <1>1, <1>2, <1>3
<1>5. findings[f].series = None /\ s # None /\ UNCHANGED <<up, mem, rows, events>>
  BY EngineAssumption DEF InsertFinding
<1>6. events[f].status = "none"
  BY <1>5 DEF IInv, TablesOK
<1>7. Grows(findings, events, findings', events')
  BY <1>4, <1>5, EngineAssumption DEF Grows
<1>8. TablesOK'
  BY <1>4, <1>5 DEF IInv, TablesOK
<1>9. StatesOK'
  BY <1>5, <1>7, FineGrows, KeySeries DEF IInv, StatesOK
<1>10. PICK v \in Severities, l \in Lags :
         reports' = [reports EXCEPT ![s] = [finding |-> f, severity |-> v, lag |-> l]]
  BY Zenon DEF InsertFinding
<1>11. v \in Nat /\ l \in Int
  BY EngineAssumption
<1>12. reports' \in [Series -> [finding : Finding \cup {None}, severity : Nat, lag : Int]]
  BY <1>10, <1>11 DEF IInv, ReportsOK
<1>13. ASSUME NEW t \in Series, reports'[t] # Idle
       PROVE  Carried(t, reports'[t], findings', events')
  <2>1. CASE t = s
    BY <1>4, <1>5, <1>6, <1>10, <1>11, <2>1 DEF IInv, ReportsOK, Carried
  <2>2. CASE t # s
    <3>1. reports'[t] = reports[t] /\ Carried(t, reports[t], findings, events)
      BY <1>10, <1>13, <2>2 DEF IInv, ReportsOK
    <3>2. reports[t].finding \in Finding /\ reports[t].finding # f
      BY <1>5, <3>1, EngineAssumption DEF Carried
    <3> QED BY <1>4, <1>5, <3>1, <3>2, Zenon DEF Carried
  <2> QED BY <2>1, <2>2
<1>14. ReportsOK'
  BY <1>12, <1>13 DEF ReportsOK
<1> QED BY <1>8, <1>9, <1>14 DEF IInv

\* Every step preserves the invariant.
LEMMA NextPreserves == IInv /\ [Next]_vars => IInv'
<1> SUFFICES ASSUME IInv, [Next]_vars PROVE IInv'
  OBVIOUS
<1>1. Present \in SUBSET Key
  BY DEF Present
<1>2. CASE Tick
  BY <1>2, TickPreserves
<1>3. ASSUME NEW unsaved, SweepAll(unsaved), up' \in BOOLEAN, mem' = SweptMem(Present, {})
      PROVE  IInv'
  BY <1>1, <1>3, SweepPreserves DEF SweepAll
<1>4. ASSUME NEW k \in Present, NEW done \in SUBSET (Present \ {k}), SweepStops(done, k),
             up' \in BOOLEAN, mem' = SweptMem(done, {k}) \/ UNCHANGED mem
      PROVE  IInv'
  <2>1. done \in SUBSET Key /\ {k} \in SUBSET Key /\ done \cup {k} \in SUBSET Key
    BY <1>1
  <2>2. PICK unsaved : SaveSwept(done, unsaved, SweptMem(done, {k}))
    BY <1>4 DEF SweepStops
  <2>3. /\ \A j \in {k} : Closes(Hydrated[j])
        /\ CloseEvents(done) \/ CloseEvents(done \cup {k})
        /\ UNCHANGED <<findings, reports>>
    BY <1>4 DEF SweepStops
  <2> QED BY <1>4, <2>1, <2>2, <2>3, SweepPreserves
<1>5. up \in BOOLEAN
  BY DEF IInv, TablesOK
<1>6. CASE \E unsaved \in SUBSET Series : Sweep(unsaved)
  BY <1>3, <1>5, <1>6 DEF Sweep
<1>7. CASE SweepAborted
  BY <1>4, <1>5, <1>7 DEF SweepAborted
<1>8. CASE Start
  BY <1>3, <1>8 DEF Start
<1>9. CASE StartAborted
  BY <1>4, <1>5, <1>9 DEF StartAborted
<1>10. CASE \E s \in Series, f \in Finding : InsertFinding(s, f)
  BY <1>10, InsertPreserves
<1>11. CASE \E s \in Series : ApplyFinding(s)
  BY <1>11, ApplyFindingPreserves
<1>12. CASE Crash
  BY <1>12, DiePreserves DEF Crash
<1>13. CASE UNCHANGED vars
  BY <1>13 DEF vars, IInv, TablesOK, StatesOK, ReportsOK
<1> QED BY <1>2, <1>6, <1>7, <1>8, <1>9, <1>10, <1>11, <1>12, <1>13 DEF Next

\* The inductive invariant holds in every reachable state.
THEOREM Invariance == Spec => []IInv
BY InitIInv, NextPreserves, PTL DEF Spec

\* Every variable keeps its type.
THEOREM TypeCorrect == Spec => []TypeOK
<1>1. IInv => TypeOK
  BY DEF IInv, TablesOK, StatesOK, ReportsOK, TypeOK, EventRow, FindingRow
<1> QED BY <1>1, Invariance, PTL

\* ApplyFinding's "missing open id" errors are unreachable, for any mix of
\* failures, restarts and clock skews.
THEOREM AlarmsKnowTheirEvents == Spec => []AlarmKnowsItsEvent
<1>1. IInv => AlarmKnowsItsEvent
  BY DEF IInv, StatesOK, Fine, Good, Owned, AlarmKnowsItsEvent, States
<1> QED BY <1>1, Invariance, PTL

\* A firing alarm never misses the falling edge that ends it.
THEOREM FiringStaysAboveClose == Spec => []FiringAboveClose
<1>1. IInv => FiringAboveClose
  BY DEF IInv, StatesOK, Fine, Good, FiringAboveClose, States
<1> QED BY <1>1, Invariance, PTL
-----------------------------------------------------------------------------
(* The engine implements EventLog.  Every step writes at most one thing the  *)
(* log shows: Sweep closes events, InsertFinding inserts, openEvent opens,   *)
(* and attach attaches.  That the ids they use exist and belong to the       *)
(* series is the invariant.                                                  *)

\* CloseEvent, called for the keys that are due, is Close of their events.
LEMMA SweepRefines ==
  ASSUME IInv, NEW keys \in SUBSET Key, CloseEvents(keys), UNCHANGED findings
  PROVE  Log!Next
<1>0. PICK es \in SUBSET Finding :
        es = {e \in Finding : \E k \in keys : Closes(Hydrated[k]) /\ Hydrated[k].event = e}
  BY Zenon
<1>1. \A e \in es : events[e].status # "none"
  <2> SUFFICES ASSUME NEW e \in es PROVE events[e].status # "none"
    OBVIOUS
  <2>1. PICK k \in keys : Closes(Hydrated[k]) /\ Hydrated[k].event = e
    BY <1>0
  <2>2. Owned(k[1], Hydrated[k], findings, events)
    BY HydratedFine DEF Fine
  <2> QED BY <2>1, <2>2 DEF Owned, Closes
<1>2. ASSUME NEW e \in Finding
      PROVE  events'[e].status = IF e \in es THEN "closed" ELSE events[e].status
  <2>1. events[e] \in EventRow
    BY DEF IInv, TablesOK
  <2>2. events'[e] = IF e \in es THEN [events[e] EXCEPT !.status = "closed"] ELSE events[e]
    BY <1>0 DEF CloseEvents
  <2> QED BY <2>1, <2>2 DEF EventRow
<1>3. Log!Close(es)
  BY <1>1, <1>2 DEF Log!Close
<1> QED BY <1>3 DEF Log!Next

\* InsertFinding is Insert.
LEMMA InsertRefines ==
  ASSUME IInv, NEW s \in Series, NEW f \in Finding, InsertFinding(s, f)
  PROVE  Log!Next
<1>1. findings \in [Finding -> FindingRow]
  BY DEF IInv, TablesOK
<1>2. findings' = [findings EXCEPT ![f] = [findings[f] EXCEPT !.series = s]]
  BY <1>1 DEF InsertFinding
<1>3. /\ [findings[f] EXCEPT !.series = s].series = s
      /\ [findings[f] EXCEPT !.series = s].event = findings[f].event
  BY <1>1 DEF FindingRow
<1>4. \A g \in Finding : /\ findings'[g].event = findings[g].event
                         /\ findings'[g].series = IF g = f THEN s ELSE findings[g].series
  BY <1>1, <1>2, <1>3
<1>5. findings[f].series = None /\ UNCHANGED events
  BY DEF InsertFinding
<1>6. Log!Insert(f, s)
  BY <1>4, <1>5, Zenon DEF Log!Insert
<1> QED BY <1>6 DEF Log!Next

\* openEvent's transaction is Open of the event named by the finding.
LEMMA OpenRefines ==
  ASSUME IInv, NEW s \in Series, Carried(s, reports[s], findings, events),
         Loaded(s).status \in {"clean", "watching"}, OpenEventTx(s)
  PROVE  Log!Next
<1>0. PICK pending \in SUBSET Finding : pending = Watched(s).pending
  BY WatchedFields
<1>1. PICK r \in Finding : r = reports[s].finding
  BY DEF Carried
<1>2. findings[r].series = s /\ events[r].status = "none" /\ s # None
  BY <1>1, EngineAssumption DEF Carried
<1>3. r \in pending /\ \A f \in pending : findings[f].series = s
  BY <1>0, <1>1, WatchedFields
<1>4. \A f \in Finding : findings'[f].series = findings[f].series
  BY OpenEventTxTables
<1>5. \A f \in Finding : findings'[f].event = IF f \in pending THEN r ELSE findings[f].event
  <2>1. findings \in [Finding -> FindingRow]
    BY DEF IInv, TablesOK
  <2>2. \A f \in Finding : findings'[f] = IF f \in pending THEN [findings[f] EXCEPT !.event = r]
                                          ELSE findings[f]
    BY <1>0, <1>1 DEF OpenEventTx
  <2> QED BY <2>1, <2>2, Zenon DEF FindingRow
<1>6. \A e \in Finding : events'[e].status = IF e = r THEN "open" ELSE events[e].status
  BY <1>1, OpenEventTxTables
<1>7. Log!Open(r, pending)
  BY <1>2, <1>3, <1>4, <1>5, <1>6, Zenon DEF Log!Open
<1> QED BY <1>7 DEF Log!Next

\* attachFindingToEvent is Attach to the event the state names.
LEMMA AttachRefines ==
  ASSUME IInv, NEW s \in Series, Carried(s, reports[s], findings, events),
         Loaded(s).event # None, Attach(s), UNCHANGED events
  PROVE  Log!Next
<1>1. PICK r \in Finding : r = reports[s].finding /\ findings[r].series = s
  BY DEF Carried
<1>2. PICK e \in Finding : e = Loaded(s).event
  BY LoadedFine DEF Fine, Good, PolicyState
<1>3. findings[e].series = s /\ events[e].status # "none"
  BY <1>2, LoadedFine DEF Fine, Owned
<1>4. findings \in [Finding -> FindingRow]
  BY DEF IInv, TablesOK
<1>5. findings' = [findings EXCEPT ![r] = [findings[r] EXCEPT !.event = e]]
  BY <1>1, <1>2, <1>4 DEF Attach
<1>6. /\ [findings[r] EXCEPT !.event = e].event = e
      /\ [findings[r] EXCEPT !.event = e].series = findings[r].series
  BY <1>4 DEF FindingRow
<1>7. \A g \in Finding : /\ findings'[g].series = findings[g].series
                         /\ findings'[g].event = IF g = r THEN e ELSE findings[g].event
  BY <1>4, <1>5, <1>6
<1>8. Log!Attach(r, e)
  BY <1>1, <1>3, <1>7, Zenon DEF Log!Attach
<1> QED BY <1>8 DEF Log!Next

\* Every step of the engine is a step of the log or leaves the log as it is.
LEMMA StepRefines == IInv /\ [Next]_vars => [Log!Next]_(Log!logVars)
<1> SUFFICES ASSUME IInv, [Next]_vars PROVE Log!Next \/ UNCHANGED Log!logVars
  OBVIOUS
<1>1. ASSUME UNCHANGED <<events, findings>> PROVE UNCHANGED Log!logVars
  BY <1>1 DEF Log!logVars
<1>2. Present \in SUBSET Key
  BY DEF Present
<1>3. CASE Tick
  BY <1>1, <1>3 DEF Tick
<1>4. ASSUME NEW unsaved, SweepAll(unsaved) PROVE Log!Next
  BY <1>2, <1>4, SweepRefines DEF SweepAll
<1>5. ASSUME NEW k \in Present, NEW done \in SUBSET (Present \ {k}), SweepStops(done, k)
      PROVE  Log!Next
  <2>1. done \in SUBSET Key /\ done \cup {k} \in SUBSET Key
    BY <1>2
  <2> QED BY <1>5, <2>1, SweepRefines DEF SweepStops
<1>6. CASE (\E unsaved \in SUBSET Series : Sweep(unsaved)) \/ Start
  BY <1>4, <1>6 DEF Sweep, Start
<1>7. CASE SweepAborted \/ StartAborted
  BY <1>5, <1>7, Zenon DEF SweepAborted, StartAborted
<1>8. CASE \E s \in Series, f \in Finding : InsertFinding(s, f)
  BY <1>8, InsertRefines
<1>9. ASSUME NEW s \in Series, ApplyFinding(s) PROVE Log!Next \/ UNCHANGED Log!logVars
  <2>1. Carried(s, reports[s], findings, events)
    BY <1>9 DEF IInv, ReportsOK, ApplyFinding
  <2>2. CASE ApplyQuiet(s)
    BY <1>1, <2>1, <2>2, OpenRefines DEF ApplyQuiet, OpenEvent
  <2>3. CASE ApplyAlarm(s)
    BY <1>1, <2>1, <2>3, AttachRefines DEF ApplyAlarm
  <2>4. CASE ApplyUnread(s)
    BY <1>1, <2>4 DEF ApplyUnread
  <2> QED BY <1>9, <2>2, <2>3, <2>4 DEF ApplyFinding
<1>10. CASE Crash
  BY <1>1, <1>10 DEF Crash
<1>11. CASE UNCHANGED vars
  BY <1>1, <1>11 DEF vars
<1> QED BY <1>3, <1>6, <1>7, <1>8, <1>9, <1>10, <1>11 DEF Next

\* The tables argus_findings and argus_events keep EventLog's promise under any
\* mix of failed statements, lost replies, crashes and restarts.
THEOREM Refinement == Spec => KeepsEventLog
<1>1. Init => Log!Init
  BY DEF Init, Log!Init
<1> QED BY <1>1, StepRefines, Invariance, PTL DEF Spec, KeepsEventLog, Log!Spec

-----------------------------------------------------------------------------
(* What the memory guarantees as long as it is there.  The table may be      *)
(* stale, for a save may fail and the key without a type may overwrite it;   *)
(* the state under the worker's key is what knows the open event and the     *)
(* findings held back, and it is never read from the table again.            *)

\* The process is not lost, and openEvent learns of its commit.
NothingLost == Faults \cap {"begin", "commit", "crash"} = {}

RowsFollow(s) ==
  mem[WorkerKey(s)].status = "absent" =>
    rows[s].status = "absent" /\ mem[<<s, "untyped">>].status = "absent"

Remembers ==
  /\ up
  /\ \A s \in Series : RowsFollow(s)
  /\ \A e \in Finding : events[e].status = "open" => mem[WorkerKey(findings[e].series)].event = e
  /\ \A s \in Series : \A f \in mem[WorkerKey(s)].pending : findings[f].event = None
  /\ \A s \in Series : reports[s] # Idle => findings[reports[s].finding].event = None
  /\ \A f \in Finding : findings[f].series = None => findings[f].event = None

LEMMA WorkerKeys ==
  ASSUME NEW s \in Series
  PROVE  /\ WorkerKey(s) \in Key /\ <<s, "untyped">> \in Key
         /\ WorkerKey(s)[1] = s /\ WorkerKey(s)[2] = "typed"
         /\ \A t \in Series : /\ WorkerKey(s) = WorkerKey(t) => s = t
                              /\ WorkerKey(s) # <<t, "untyped">>
         /\ \A k \in Key : k[1] = s => k = WorkerKey(s) \/ k = <<s, "untyped">>
BY DEF WorkerKey, Key

\* A state that is absent or quiet names no event, and only one that watches
\* holds findings back.
LEMMA FineFields ==
  ASSUME IInv, NEW s \in Series
  PROVE  /\ Good(mem[WorkerKey(s)]) /\ Good(Loaded(s)) /\ Loaded(s).status # "absent"
         /\ mem[WorkerKey(s)].status = "absent" =>
              mem[WorkerKey(s)].event = None /\ mem[WorkerKey(s)].pending = {}
<1>1. Good(mem[WorkerKey(s)])
  BY WorkerKeys, Zenon DEF IInv, StatesOK, Fine
<1>2. Good(Loaded(s))
  BY LoadedFine DEF Fine
<1>3. Loaded(s).status # "absent"
  BY DEF Loaded, Fresh
<1> QED BY <1>1, <1>2, <1>3 DEF Good

\* ApplyFinding finds the event and the pending findings of the worker's state.
LEMMA LoadedRemembers ==
  ASSUME IInv, Remembers, NEW s \in Series
  PROVE  /\ Loaded(s).event = mem[WorkerKey(s)].event
         /\ Loaded(s).pending = mem[WorkerKey(s)].pending
<1>1. CASE mem[WorkerKey(s)].status # "absent"
  BY <1>1 DEF Loaded
<1>2. CASE mem[WorkerKey(s)].status = "absent"
  <2>1. Loaded(s) = Fresh
    BY <1>2, Zenon DEF Loaded, Remembers, RowsFollow
  <2> QED BY <1>2, <2>1, FineFields, AbsentGood
<1> QED BY <1>1, <1>2

\* Ageing changes no status, and a report keeps its finding.
LEMMA TickRemembers ==
  ASSUME IInv, Remembers, Tick
  PROVE  Remembers'
<1>1. /\ up' = up /\ events' = events /\ findings' = findings
      /\ mem' = [k \in Key |-> Aged(mem[k])]
      /\ rows' = [s \in Series |-> Aged(rows[s])]
      /\ reports' = [s \in Series |->
                       IF reports[s].finding = None THEN reports[s]
                       ELSE [reports[s] EXCEPT !.lag = Older(@)]]
  BY DEF Tick
<1>2. ASSUME NEW st, Good(st)
      PROVE  Aged(st).status = st.status /\ Aged(st).event = st.event /\ Aged(st).pending = st.pending
  BY <1>2 DEF Aged, Good, PolicyState
<1>3. \A k \in Key : /\ mem'[k].status = mem[k].status /\ mem'[k].event = mem[k].event
                     /\ mem'[k].pending = mem[k].pending
  BY <1>1, <1>2 DEF IInv, StatesOK, Fine
<1>4. \A s \in Series : rows'[s].status = rows[s].status
  BY <1>1, <1>2 DEF IInv, StatesOK, Fine
<1>5. \A s \in Series : RowsFollow(s)'
  BY <1>3, <1>4, WorkerKeys DEF Remembers, RowsFollow
<1>6. \A e \in Finding : events[e].status = "open" => findings[e].series \in Series
  BY DEF IInv, TablesOK, FindingRow
<1>7. \A e \in Finding : events[e].status = "open" => mem'[WorkerKey(findings[e].series)].event = e
  BY <1>3, <1>6, WorkerKeys, Zenon DEF Remembers
<1>8. \A s \in Series : \A f \in mem'[WorkerKey(s)].pending : findings[f].event = None
  BY <1>3, WorkerKeys, Zenon DEF Remembers
<1>9. ASSUME NEW s \in Series, reports'[s] # Idle
      PROVE  findings[reports'[s].finding].event = None
  <2>1. CASE reports[s] = Idle
    BY <1>1, <1>9, <2>1, SMTT(30) DEF Idle
  <2>2. CASE Carried(s, reports[s], findings, events)
    <3>1. reports'[s].finding = reports[s].finding
      BY <1>1, <2>2 DEF Carried
    <3>2. reports[s] # Idle
      BY <2>2, EngineAssumption, SMTT(30) DEF Carried, Idle
    <3> QED BY <3>1, <3>2 DEF Remembers
  <2> QED BY <2>1, <2>2 DEF IInv, ReportsOK
<1> QED BY <1>1, <1>5, <1>7, <1>8, <1>9 DEF Remembers

\* Sweep forgets an event only where it closes it.
LEMMA SweptForgets ==
  ASSUME NEW st, Good(st)
  PROVE  /\ Swept(st).event = st.event \/ Closes(st)
         /\ Leaked(st).event = st.event /\ Leaked(st).pending = st.pending
         /\ Swept(st).status = "absent" => st.status = "absent"
         /\ Leaked(st).status = st.status
<1>1. st \in PolicyState
  BY DEF Good
<1>2. /\ Leaked(st) \in PolicyState /\ Leaked(st).status = st.status
      /\ Leaked(st).event = st.event /\ Leaked(st).pending = st.pending
  BY <1>1, LeakedFields
<1>3. CASE Expired(st)
  <2>1. Swept(st) = [st EXCEPT !.status = "clean", !.statusAge = 0, !.pending = {},
                               !.score = 0, !.scoreAge = 0]
    BY <1>3 DEF Swept, Expired, Cooled, Closes
  <2>2. Swept(st).event = st.event /\ Swept(st).status = "clean"
    BY <1>1, <2>1 DEF PolicyState
  <2> QED BY <1>2, <2>2
<1>4. CASE ~Expired(st) /\ Cooled(st)
  <2>1. PICK t \in PolicyState : t = Leaked(st)
    BY <1>2
  <2>2. Swept(st) = [t EXCEPT !.status = "recovering", !.statusAge = 0]
    BY <1>4, <2>1 DEF Swept, Expired, Cooled, Closes
  <2>3. Swept(st).event = t.event /\ Swept(st).status = "recovering"
    BY <2>2 DEF PolicyState
  <2> QED BY <1>2, <2>1, <2>3
<1>5. CASE ~Expired(st) /\ ~Cooled(st) /\ Closes(st)
  <2>1. PICK t \in PolicyState : t = Leaked(st)
    BY <1>2
  <2>2. Swept(st) = [t EXCEPT !.status = "clean", !.statusAge = 0,
                              !.event = None, !.pending = {}]
    BY <1>5, <2>1 DEF Swept
  <2>3. Swept(st).status = "clean"
    BY <2>2 DEF PolicyState
  <2> QED BY <1>2, <1>5, <2>3
<1>6. CASE ~Expired(st) /\ ~Cooled(st) /\ ~Closes(st)
  <2>1. Swept(st) = Leaked(st)
    BY <1>6 DEF Swept
  <2> QED BY <1>2, <2>1, Zenon
<1> QED BY <1>3, <1>4, <1>5, <1>6

\* Sweep loses sight of no open event, and a series without a state stays
\* without one, in memory and in the table.
LEMMA SweepRemembers ==
  ASSUME IInv, Remembers, NEW done \in SUBSET Present, NEW failed \in SUBSET Present,
         NEW closing \in SUBSET Present, done \subseteq closing, NEW unsaved,
         CloseEvents(closing),
         SaveSwept(done, unsaved, SweptMem(done, failed)),
         mem' = SweptMem(done, failed),
         UNCHANGED <<findings, reports, up>>
  PROVE  Remembers'
<1>1. findings' = findings /\ reports' = reports /\ up' = up
  OBVIOUS
<1>2. ASSUME NEW s \in Series
      PROVE  LET k == WorkerKey(s) st == mem[WorkerKey(s)] IN
             /\ Hydrated[k] = st /\ k \in Key
             /\ mem'[k] = st \/ mem'[k] = Leaked(st) \/ (k \in done /\ mem'[k] = Swept(st))
  <2>1. WorkerKey(s) \in Key /\ WorkerKey(s)[2] = "typed"
    BY WorkerKeys, Zenon
  <2>2. Hydrated[WorkerKey(s)] = mem[WorkerKey(s)]
    BY <2>1 DEF Hydrated
  <2>3. SweptMem(done, failed)[WorkerKey(s)] =
          CASE WorkerKey(s) \in done -> Swept(Hydrated[WorkerKey(s)])
            [] WorkerKey(s) \in failed -> Leaked(Hydrated[WorkerKey(s)])
            [] OTHER -> Hydrated[WorkerKey(s)]
    BY <2>1, Zenon DEF SweptMem
  <2> QED BY <2>1, <2>2, <2>3
<1>3. ASSUME NEW s \in Series
      PROVE  /\ mem'[WorkerKey(s)].status = "absent" => mem[WorkerKey(s)].status = "absent"
             /\ mem'[WorkerKey(s)].pending \subseteq mem[WorkerKey(s)].pending
             /\ \/ mem'[WorkerKey(s)].event = mem[WorkerKey(s)].event
                \/ WorkerKey(s) \in done /\ Closes(mem[WorkerKey(s)])
  <2>1. PICK st : st = mem[WorkerKey(s)] /\ Good(st)
    BY FineFields, Zenon
  <2>2. \/ mem'[WorkerKey(s)] = st \/ mem'[WorkerKey(s)] = Leaked(st)
        \/ WorkerKey(s) \in done /\ mem'[WorkerKey(s)] = Swept(st)
    BY <1>2, <2>1, Zenon
  <2>3. /\ Swept(st).event = st.event \/ Closes(st)
        /\ Leaked(st).event = st.event /\ Leaked(st).pending = st.pending
        /\ Swept(st).status = "absent" => st.status = "absent"
        /\ Leaked(st).status = st.status
        /\ Swept(st).pending \subseteq st.pending
    BY <2>1, SweptForgets, SweptGood
  <2> QED BY <2>1, <2>2, <2>3, Zenon
<1>4. ASSUME NEW s \in Series PROVE RowsFollow(s)'
  <2> SUFFICES ASSUME mem'[WorkerKey(s)].status = "absent"
               PROVE  rows'[s].status = "absent" /\ mem'[<<s, "untyped">>].status = "absent"
    BY Zenon DEF RowsFollow
  <2>1. /\ mem[WorkerKey(s)].status = "absent" /\ rows[s].status = "absent"
        /\ mem[<<s, "untyped">>].status = "absent"
    BY <1>3, Zenon DEF Remembers, RowsFollow
  <2>2. <<s, "untyped">> \in Key /\ <<s, "untyped">>[1] = s
    BY WorkerKeys
  <2>3. Hydrated[<<s, "untyped">>] = mem[<<s, "untyped">>]
    BY <2>1, <2>2, Zenon DEF Hydrated, Status
  <2>4. WorkerKey(s) \notin Present /\ <<s, "untyped">> \notin Present
    BY <1>2, <2>1, <2>3 DEF Present
  <2>5. mem'[<<s, "untyped">>] = mem[<<s, "untyped">>]
    BY <2>2, <2>3, <2>4, Zenon DEF SweptMem
  <2>6. \A k \in done : k[1] # s
    BY <2>4, WorkerKeys DEF Present
  <2>7. rows'[s] = rows[s]
    BY <2>6 DEF SaveSwept
  <2> QED BY <2>1, <2>5, <2>7
<1>5. ASSUME NEW e \in Finding, events'[e].status = "open"
      PROVE  mem'[WorkerKey(findings[e].series)].event = e
  <2>1. events'[e] = IF \E k \in closing : Closes(Hydrated[k]) /\ Hydrated[k].event = e
                     THEN [events[e] EXCEPT !.status = "closed"] ELSE events[e]
    BY DEF CloseEvents
  <2>2. events[e] \in EventRow /\ findings[e] \in FindingRow
    BY DEF IInv, TablesOK
  <2>3. [events[e] EXCEPT !.status = "closed"].status = "closed"
    BY <2>2 DEF EventRow
  <2>4. /\ events[e].status = "open"
        /\ \A k \in closing : ~(Closes(Hydrated[k]) /\ Hydrated[k].event = e)
    BY <1>5, <2>1, <2>3
  <2>5. PICK s \in Series : s = findings[e].series
    BY <2>2, <2>4 DEF IInv, TablesOK, FindingRow
  <2>6. mem[WorkerKey(s)].event = e
    BY <2>4, <2>5, Zenon DEF Remembers
  <2>7. ~(WorkerKey(s) \in done /\ Closes(mem[WorkerKey(s)]))
    BY <1>2, <2>4, <2>6, Zenon
  <2> QED BY <1>3, <2>5, <2>6, <2>7
<1>6. \A s \in Series : \A f \in mem'[WorkerKey(s)].pending : findings[f].event = None
  BY <1>3 DEF Remembers
<1> QED BY <1>1, <1>4, <1>5, <1>6 DEF Remembers

\* A new finding has no event.
LEMMA InsertRemembers ==
  ASSUME IInv, Remembers, NEW s \in Series, NEW f \in Finding, InsertFinding(s, f)
  PROVE  Remembers' /\ \A g \in Finding : findings'[g].event = findings[g].event
<1>1. findings \in [Finding -> FindingRow]
  BY DEF IInv, TablesOK
<1>2. /\ findings' = [findings EXCEPT ![f] = [findings[f] EXCEPT !.series = s]]
      /\ findings[f].series = None
      /\ up' = up /\ mem' = mem /\ rows' = rows /\ events' = events
  BY <1>1 DEF InsertFinding
<1>3. /\ [findings[f] EXCEPT !.series = s].series = s
      /\ [findings[f] EXCEPT !.series = s].event = findings[f].event
  BY <1>1 DEF FindingRow
<1>4. \A g \in Finding : /\ findings'[g].event = findings[g].event
                         /\ findings'[g].series = IF g = f THEN s ELSE findings[g].series
  BY <1>1, <1>2, <1>3
<1>5. PICK r : r.finding = f /\ reports' = [reports EXCEPT ![s] = r]
  BY Zenon DEF InsertFinding
<1>6. \A t \in Series : reports'[t] = IF t = s THEN r ELSE reports[t]
  BY <1>5 DEF IInv, ReportsOK
<1>7. \A t \in Series : mem[WorkerKey(t)].pending \subseteq Finding
  BY FineFields DEF Good, PolicyState
<1>8. \A t \in Series : reports[t] # Idle => reports[t].finding \in Finding
  BY DEF IInv, ReportsOK, Carried
<1>9. \A t \in Series : reports'[t] # Idle => findings'[reports'[t].finding].event = None
  BY <1>2, <1>4, <1>5, <1>6, <1>8 DEF Remembers
<1>10. \A e \in Finding : events[e].status = "open" => e # f
  BY <1>2, Zenon DEF IInv, TablesOK
<1>11. \A e \in Finding : events[e].status = "open" => mem[WorkerKey(findings'[e].series)].event = e
  BY <1>4, <1>10 DEF Remembers
<1>12. \A t \in Series : RowsFollow(t)'
  BY <1>2 DEF Remembers, RowsFollow
<1>13. \A t \in Series : \A g \in mem[WorkerKey(t)].pending : findings'[g].event = None
  BY <1>4, <1>7 DEF Remembers
<1>14. \A g \in Finding : findings'[g].series = None => findings'[g].event = None
  BY <1>2, <1>4, Zenon DEF Remembers
<1> QED BY <1>2, <1>4, <1>9, <1>11, <1>12, <1>13, <1>14 DEF Remembers

\* ApplyFinding touches one series: the state it leaves has to know the open
\* event of that series and hold back findings without an event.
LEMMA ReturnRemembers ==
  ASSUME IInv, Remembers, NEW s \in Series, NEW st, Return(s, st),
         st.status = "absent" => mem[WorkerKey(s)].status = "absent" /\ rows' = rows,
         \A t \in Series : t # s => rows'[t] = rows[t],
         \A f \in Finding : findings'[f].series = findings[f].series,
         \A f \in Finding : findings[f].series # s => findings'[f].event = findings[f].event,
         \A e \in Finding : findings[e].series # s => events'[e] = events[e],
         \A e \in Finding : findings[e].series = s /\ events'[e].status = "open" => st.event = e,
         \A e \in Finding : events'[e].status = "open" => findings[e].series \in Series,
         \A f \in st.pending : findings'[f].event = None
  PROVE  Remembers'
<1>1. /\ mem' = [mem EXCEPT ![WorkerKey(s)] = st]
      /\ reports' = [reports EXCEPT ![s] = Idle] /\ up' = up
  BY Zenon DEF Return
<1>2. \A k \in Key : mem'[k] = IF k = WorkerKey(s) THEN st ELSE mem[k]
  BY <1>1, Zenon DEF IInv, StatesOK
<1>3. \A t \in Series : reports'[t] = IF t = s THEN Idle ELSE reports[t]
  BY <1>1 DEF IInv, ReportsOK
<1>4. /\ mem'[WorkerKey(s)] = st
      /\ \A t \in Series : t # s => mem'[WorkerKey(t)] = mem[WorkerKey(t)]
      /\ \A t \in Series : mem'[<<t, "untyped">>] = mem[<<t, "untyped">>]
  BY <1>2, WorkerKeys, ZenonT(60)
<1>5. \A t \in Series : RowsFollow(t)'
  BY <1>4 DEF Remembers, RowsFollow
<1>6. ASSUME NEW e \in Finding, events'[e].status = "open"
      PROVE  mem'[WorkerKey(findings'[e].series)].event = e
  <2>1. findings'[e].series = findings[e].series /\ findings[e].series \in Series
    BY <1>6, Zenon
  <2>2. CASE findings[e].series = s
    BY <1>4, <1>6, <2>1, <2>2, Zenon
  <2>3. CASE findings[e].series # s
    BY <1>4, <1>6, <2>1, <2>3, SMTT(30) DEF Remembers
  <2> QED BY <2>2, <2>3, Zenon
<1>7. ASSUME NEW t \in Series, NEW f \in mem'[WorkerKey(t)].pending
      PROVE  findings'[f].event = None
  <2>1. CASE t = s
    BY <1>4, <1>7, <2>1, Zenon
  <2>2. CASE t # s
    <3>0. WorkerKey(t) \in Key /\ WorkerKey(t)[1] = t
      BY WorkerKeys, Zenon
    <3>1. PICK own : own = mem[WorkerKey(t)] /\ Fine(t, own, findings, events)
      BY ONLY <3>0, IInv, Zenon DEF IInv, StatesOK
    <3>2. f \in own.pending
      BY <1>4, <1>7, <2>2, <3>1, Zenon
    <3>3. f \in Finding
      BY <3>1, <3>2, Zenon DEF Fine, Good, PolicyState
    <3>4. findings[f].series = t
      BY <3>1, <3>2, Zenon DEF Fine, Owned
    <3> QED BY <2>2, <3>1, <3>2, <3>3, <3>4 DEF Remembers
  <2> QED BY <2>1, <2>2
<1>8. ASSUME NEW t \in Series, reports'[t] # Idle
      PROVE  findings'[reports'[t].finding].event = None
  <2>1. t # s /\ reports'[t] = reports[t] /\ reports[t] # Idle
    BY <1>3, <1>8, Zenon
  <2>2. reports[t].finding \in Finding /\ findings[reports[t].finding].series = t
    BY <2>1 DEF IInv, ReportsOK, Carried
  <2> QED BY <2>1, <2>2, Zenon DEF Remembers
<1>9. \A f \in Finding : findings'[f].series = None => findings'[f].event = None
  <2>1. s # None
    BY EngineAssumption, Zenon
  <2> QED BY <2>1, Zenon DEF Remembers
<1> QED BY <1>1, <1>5, <1>6, <1>7, <1>8, <1>9, Zenon DEF Remembers

\* What an open event of the series implies about the state that is loaded.
LEMMA OpenIsLoaded ==
  ASSUME IInv, Remembers, NEW s \in Series
  PROVE  /\ \A e \in Finding : findings[e].series = s /\ events[e].status = "open"
                                 => Loaded(s).event = e
         /\ \A e \in Finding : events[e].status = "open" => findings[e].series \in Series
         /\ \A f \in Loaded(s).pending : findings[f].event = None
         /\ Loaded(s).status \in {"clean", "watching"} => Loaded(s).event = None
         /\ Loaded(s).status \in {"firing", "recovering"} =>
              Loaded(s).event # None /\ Loaded(s).pending = {}
<1>1. \A e \in Finding : events[e].status = "open" => findings[e].series \in Series
  BY DEF IInv, TablesOK, FindingRow
<1>2. Good(Loaded(s))
  BY FineFields
<1> QED BY <1>1, <1>2, LoadedRemembers DEF Remembers, Good

\* The findings that are watched have no event.
LEMMA WatchedUnattached ==
  ASSUME IInv, Remembers, NEW s \in Series, reports[s] # Idle,
         Loaded(s).status \in {"clean", "watching"}
  PROVE  \A f \in Watched(s).pending : findings[f].event = None
<1>1. Carried(s, reports[s], findings, events)
  BY DEF IInv, ReportsOK
<1>2. PICK r : r = reports[s].finding /\ findings[r].event = None
  BY DEF Remembers
<1>3. \A f \in Loaded(s).pending : findings[f].event = None
  BY OpenIsLoaded
<1>4. PICK b \in PolicyState : b = Bumped(s) /\ b.pending = Loaded(s).pending
  BY <1>1, BumpedFields
<1>5. \A f \in Watched(s).pending : f = r \/ f \in Loaded(s).pending
  <2>1. CASE Loaded(s).status = "clean"
    <3>1. PICK lag : lag = reports[s].lag
      OBVIOUS
    <3>2. Watched(s) = [b EXCEPT !.status = "watching", !.statusAge = lag, !.pending = {r}]
      BY <1>2, <1>4, <2>1, <3>1 DEF Watched
    <3> QED BY <3>2 DEF PolicyState
  <2>2. CASE Loaded(s).status # "clean"
    <3>1. Watched(s) = [b EXCEPT !.pending = b.pending \cup {r}]
      BY <1>2, <1>4, <2>2 DEF Watched
    <3> QED BY <1>4, <3>1 DEF PolicyState
  <2> QED BY <2>1, <2>2
<1> QED BY <1>2, <1>3, <1>5

Untouched == \A f \in Finding : findings[f].event # None => findings'[f].event = findings[f].event

\* openEvent's transaction attaches findings that had no event.
LEMMA OpenEventTxRemembers ==
  ASSUME IInv, Remembers, NEW s \in Series, reports[s] # Idle,
         Loaded(s).status \in {"clean", "watching"}, OpenEventTx(s),
         Return(s, Opened(s)), SavePolicyState(s, Opened(s))
  PROVE  Remembers' /\ Untouched
<1>1. Carried(s, reports[s], findings, events)
  BY DEF IInv, ReportsOK
<1>2. PICK r \in Finding : r = reports[s].finding /\ findings[r].series = s
  BY <1>1, Zenon DEF Carried
<1>3. PICK pending : /\ pending = Watched(s).pending
                     /\ \A f \in pending : f \in Finding /\ findings[f].series = s
                                           /\ findings[f].event = None
  BY <1>1, WatchedFields, WatchedUnattached, SMTT(30)
<1>4. /\ \A f \in Finding : findings'[f].series = findings[f].series
      /\ \A e \in Finding : e # r => events'[e] = events[e]
  BY <1>1, <1>2, OpenEventTxTables
<1>5. \A f \in Finding : f \notin pending => findings'[f] = findings[f]
  BY <1>3 DEF OpenEventTx
<1>6. Untouched
  BY <1>3, <1>5 DEF Untouched
<1>7. PICK st : st = Opened(s) /\ Good(st) /\ st.event = r /\ st.pending = {}
  BY <1>1, <1>2, OpenedFields
<1>8. st.status # "absent"
  BY <1>2, <1>7, EngineAssumption, Zenon DEF Good
<1>9. \A t \in Series : t # s => rows'[t] = rows[t]
  BY DEF SavePolicyState, IInv, StatesOK
<1>10. \A e \in Finding : findings[e].series = s /\ events'[e].status = "open" => st.event = e
  <2>1. None \notin Finding
    BY EngineAssumption, Zenon
  <2>2. \A e \in Finding : ~(findings[e].series = s /\ events[e].status = "open")
    BY <2>1, OpenIsLoaded, Zenon
  <2> QED BY <1>4, <1>7, <2>2
<1>11. \A e \in Finding : events'[e].status = "open" => findings[e].series \in Series
  BY <1>2, <1>4, OpenIsLoaded
<1>12. /\ \A f \in Finding : findings[f].series # s => findings'[f].event = findings[f].event
       /\ \A e \in Finding : findings[e].series # s => events'[e] = events[e]
  BY <1>2, <1>3, <1>4, <1>5
<1>13. Return(s, st)
  BY <1>7
<1>14. Remembers'
  BY <1>4, <1>7, <1>8, <1>9, <1>10, <1>11, <1>12, <1>13, ReturnRemembers, ZenonT(60)
<1> QED BY <1>6, <1>14

\* A finding that is only watched, because the bucket is below the threshold or
\* the transaction was rolled back, changes no table that readers see.
LEMMA WatchRemembers ==
  ASSUME IInv, Remembers, NEW s \in Series, reports[s] # Idle,
         Loaded(s).status \in {"clean", "watching"}, UNCHANGED <<events, findings>>,
         Return(s, Watched(s)), SavePolicyState(s, Watched(s)) \/ UNCHANGED rows
  PROVE  Remembers' /\ Untouched
<1>1. Carried(s, reports[s], findings, events)
  BY DEF IInv, ReportsOK
<1>2. events' = events /\ findings' = findings
  OBVIOUS
<1>3. PICK st : st = Watched(s) /\ st.status = "watching" /\ st.event = None
  BY <1>1, WatchedFields
<1>4. \A f \in st.pending : findings[f].event = None
  BY <1>3, WatchedUnattached
<1>5. \A t \in Series : t # s => rows'[t] = rows[t]
  BY DEF SavePolicyState, IInv, StatesOK
<1>6. /\ \A e \in Finding : findings[e].series = s /\ events[e].status = "open" => st.event = e
      /\ \A e \in Finding : events[e].status = "open" => findings[e].series \in Series
  BY <1>3, OpenIsLoaded
<1>7. Return(s, st)
  BY <1>3, Zenon
<1>8. Remembers'
  BY <1>2, <1>3, <1>4, <1>5, <1>6, <1>7, ReturnRemembers
<1> QED BY <1>2, <1>8 DEF Untouched

\* A finding that is attached had no event.
LEMMA AlarmRemembers ==
  ASSUME IInv, Remembers, NEW s \in Series, reports[s] # Idle, ApplyAlarm(s)
  PROVE  Remembers' /\ Untouched
<1>1. Carried(s, reports[s], findings, events)
  BY DEF IInv, ReportsOK
<1>2. PICK r \in Finding : r = reports[s].finding /\ findings[r].series = s
                           /\ findings[r].event = None
  BY <1>1, Zenon DEF Carried, Remembers
<1>3. /\ Loaded(s).status \in {"firing", "recovering"} /\ events' = events
      /\ Loaded(s).event # None /\ Loaded(s).pending = {}
  BY OpenIsLoaded DEF ApplyAlarm
<1>4. PICK e : e = Loaded(s).event
  OBVIOUS
<1>5. findings \in [Finding -> FindingRow]
  BY DEF IInv, TablesOK
<1>6. Attach(s) => \A f \in Finding : /\ f # r => findings'[f] = findings[f]
                                      /\ findings'[f].series = findings[f].series
  <2> SUFFICES ASSUME Attach(s) PROVE <1>6!2
    OBVIOUS
  <2>1. findings' = [findings EXCEPT ![r] = [findings[r] EXCEPT !.event = e]]
    BY <1>2, <1>4, <1>5 DEF Attach
  <2>2. [findings[r] EXCEPT !.event = e].series = findings[r].series
    BY <1>5 DEF FindingRow
  <2> QED BY <1>5, <2>1, <2>2
<1>7. /\ \A f \in Finding : f # r => findings'[f] = findings[f]
      /\ \A f \in Finding : findings'[f].series = findings[f].series
  BY <1>3, <1>6 DEF ApplyAlarm
<1>8. PICK st : /\ Return(s, st)
                /\ st = Bumped(s) \/ st = Refired(s)
                /\ rows' = rows \/ SavePolicyState(s, st)
  BY DEF ApplyAlarm
<1>9. st.event = Loaded(s).event /\ st.pending = {} /\ st.status # "absent"
  <2>1. PICK b \in PolicyState : /\ b = Bumped(s) /\ b.event = Loaded(s).event
                                 /\ b.pending = {} /\ b.status = Loaded(s).status
    BY <1>1, <1>3, BumpedFields
  <2>2. CASE st = b
    BY <1>3, <2>1, <2>2
  <2>3. CASE st # b
    <3>1. PICK lag : lag = reports[s].lag
      OBVIOUS
    <3>2. st = [b EXCEPT !.status = "firing", !.statusAge = lag]
      BY <1>8, <2>1, <2>3, <3>1, Zenon DEF Refired
    <3> QED BY <2>1, <3>2 DEF PolicyState
  <2> QED BY <2>2, <2>3, Zenon
<1>10. \A t \in Series : t # s => rows'[t] = rows[t]
  BY <1>8, Zenon DEF SavePolicyState, IInv, StatesOK
<1>11. Untouched
  BY <1>2, <1>7 DEF Untouched
<1>12. /\ \A f \in Finding : findings[f].series = s /\ events[f].status = "open" => st.event = f
       /\ \A f \in Finding : events[f].status = "open" => findings[f].series \in Series
  BY <1>9, OpenIsLoaded, Zenon
<1>13. Remembers'
  <2>1. \A f \in Finding : findings[f].series # s => findings'[f].event = findings[f].event
    BY <1>2, <1>7, Zenon
  <2>2. /\ \A f \in Finding : findings[f].series # s => events'[f] = events[f]
        /\ \A f \in Finding : findings[f].series = s /\ events'[f].status = "open" => st.event = f
        /\ \A f \in Finding : events'[f].status = "open" => findings[f].series \in Series
    BY <1>3, <1>12, Zenon
  <2>3. \A f \in st.pending : findings'[f].event = None
    BY <1>9, Zenon
  <2>4. Return(s, st)
    BY <1>8, Zenon
  <2>5. st.status = "absent" => mem[WorkerKey(s)].status = "absent" /\ rows' = rows
    BY <1>9, Zenon
  <2>6. \A f \in Finding : findings'[f].series = findings[f].series
    BY <1>7, Zenon
  <2> QED
    BY <1>10, <2>1, <2>2, <2>3, <2>4, <2>5, <2>6, ReturnRemembers, SMTT(30)
<1> QED BY <1>11, <1>13

LEMMA ApplyRemembers ==
  ASSUME NothingLost, IInv, Remembers, NEW s \in Series, ApplyFinding(s)
  PROVE  Remembers' /\ Untouched
<1>1. reports[s] # Idle
  BY DEF ApplyFinding
<1>2. CASE ApplyQuiet(s)
  <2>1. Loaded(s).status \in {"clean", "watching"}
    BY <1>2 DEF ApplyQuiet
  <2>2. ~("commit" \in Faults) /\ ~("begin" \in Faults)
    BY DEF NothingLost
  <2>3. \/ OpenEventTx(s) /\ Return(s, Opened(s)) /\ SavePolicyState(s, Opened(s))
        \/ /\ Return(s, Watched(s)) /\ UNCHANGED <<events, findings>>
           /\ SavePolicyState(s, Watched(s)) \/ UNCHANGED rows
    BY <1>2, <2>2 DEF ApplyQuiet, OpenEvent
  <2> QED BY <1>1, <2>1, <2>3, OpenEventTxRemembers, WatchRemembers
<1>3. CASE ApplyAlarm(s)
  BY <1>1, <1>3, AlarmRemembers
<1>4. CASE ApplyUnread(s)
  <2>1. /\ mem[WorkerKey(s)].status = "absent" /\ rows' = rows
        /\ events' = events /\ findings' = findings
    BY <1>4 DEF ApplyUnread
  <2>2. PICK st : Return(s, st) /\ st.event = None /\ st.pending = {}
    BY <1>4, AbsentGood DEF ApplyUnread
  <2>3. \A e \in Finding : ~(findings[e].series = s /\ events[e].status = "open")
    <3>1. mem[WorkerKey(s)].event = None /\ None \notin Finding
      BY <2>1, FineFields, EngineAssumption, Zenon
    <3> QED BY <3>1 DEF Remembers
  <2>4. \A e \in Finding : events[e].status = "open" => findings[e].series \in Series
    BY OpenIsLoaded, Zenon
  <2>5. Remembers'
    BY <2>1, <2>2, <2>3, <2>4, ReturnRemembers
  <2> QED BY <2>1, <2>5 DEF Untouched
<1> QED BY <1>2, <1>3, <1>4 DEF ApplyFinding

LEMMA NextRemembers ==
  ASSUME NothingLost, IInv, Remembers, [Next]_vars
  PROVE  Remembers' /\ Untouched
<1>1. CASE Tick
  BY <1>1, TickRemembers DEF Tick, Untouched
<1>2. ASSUME NEW unsaved, Sweep(unsaved)
      PROVE  Remembers' /\ Untouched
  <2>1. PICK done \in SUBSET Present, failed \in SUBSET Present : done = Present /\ failed = {}
    BY Zenon
  <2>2. /\ CloseEvents(done) /\ SaveSwept(done, unsaved, SweptMem(done, failed))
        /\ mem' = SweptMem(done, failed)
        /\ UNCHANGED <<findings, reports, up>>
    BY <1>2, <2>1 DEF Sweep, SweepAll
  <2> QED BY <2>2, SweepRemembers DEF Untouched
<1>3. CASE SweepAborted
  <2>0. PICK k \in Present : \E done \in SUBSET (Present \ {k}) :
          SweepStops(done, k) /\ mem' = SweptMem(done, {k}) /\ up' = up
    BY <1>3 DEF SweepAborted
  <2>1. PICK done \in SUBSET (Present \ {k}) :
          SweepStops(done, k) /\ mem' = SweptMem(done, {k}) /\ up' = up
    BY <2>0
  <2>2. PICK failed \in SUBSET Present : failed = {k}
    BY Zenon
  <2>3. PICK closing \in SUBSET Present : done \subseteq closing /\ CloseEvents(closing)
    <3>1. done \in SUBSET Present /\ done \cup {k} \in SUBSET Present
      OBVIOUS
    <3> QED BY <2>1, <3>1 DEF SweepStops
  <2>4. PICK unsaved : SaveSwept(done, unsaved, SweptMem(done, failed))
    BY <2>1, <2>2 DEF SweepStops
  <2>5. mem' = SweptMem(done, failed) /\ UNCHANGED <<findings, reports, up>>
    BY <2>1, <2>2 DEF SweepStops
  <2>6. done \in SUBSET Present
    OBVIOUS
  <2> QED BY <2>3, <2>4, <2>5, <2>6, SweepRemembers DEF Untouched
<1>4. ASSUME NEW s \in Series, NEW f \in Finding, InsertFinding(s, f)
      PROVE  Remembers' /\ Untouched
  BY <1>4, InsertRemembers DEF Untouched
<1>5. ASSUME NEW s \in Series, ApplyFinding(s)
      PROVE  Remembers' /\ Untouched
  BY <1>5, ApplyRemembers, Zenon
<1>6. ~Crash /\ ~Start /\ ~StartAborted
  BY DEF Crash, Start, StartAborted, Remembers, NothingLost
<1>7. CASE UNCHANGED vars
  BY <1>7 DEF vars, Remembers, RowsFollow, Untouched
<1> QED BY <1>1, <1>2, <1>3, <1>4, <1>5, <1>6, <1>7 DEF Next

LEMMA MemoryInvariance ==
  ASSUME NothingLost
  PROVE  Spec => []Remembers
<1>1. Init => Remembers
  <2> SUFFICES ASSUME Init PROVE Remembers
    OBVIOUS
  <2>1. \A k \in Key : mem[k] = Absent
    BY DEF Init, NoStates
  <2>2. \A s \in Series : rows[s] = Absent /\ reports[s] = Idle
    BY DEF Init, NoReports
  <2>3. Absent.status = "absent" /\ Absent.pending = {}
    BY DEF Absent
  <2>4. \A f \in Finding : events[f].status = "none" /\ findings[f].event = None
    BY DEF Init
  <2> QED BY <2>1, <2>2, <2>3, <2>4, WorkerKeys, Zenon DEF Init, Remembers, RowsFollow
<1>2. IInv /\ Remembers /\ [Next]_vars => Remembers'
  BY NextRemembers
<1> QED BY <1>1, <1>2, Invariance, PTL DEF Spec

\* A series has one open event at most, whatever statements fail and however
\* stale the table gets, while the process lives and openEvent learns of its
\* commit: the cached state under the worker's key knows the open event.
THEOREM OneEventPerSeries ==
  ASSUME NothingLost
  PROVE  Spec => []OneOpenEvent
<1>1. Remembers => OneOpenEvent
  BY DEF Remembers, OneOpenEvent
<1> QED BY <1>1, MemoryInvariance, PTL

\* attachFindingToEvent and openEvent take no finding away from its event, on
\* the same condition.
THEOREM FindingsStayAttached ==
  ASSUME NothingLost
  PROVE  Spec => AttachedForGood
<1>1. IInv /\ Remembers /\ [Next]_vars => [Untouched]_vars
  BY NextRemembers
<1>2. Spec => [][Untouched]_vars
  BY <1>1, Invariance, MemoryInvariance, PTL DEF Spec
<1> QED BY <1>2 DEF AttachedForGood, Untouched

=============================================================================

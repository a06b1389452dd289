---------------------------- MODULE PolicyEngine ----------------------------
(***************************************************************************)
(* The policy engine of services/argus/policy_engine.go: one process whose *)
(* per-series alarm states live in a map guarded by a mutex, are written   *)
(* through to the table argus_policy_state, and are read back from it.     *)
(*                                                                         *)
(* Time.  The code uses instants only in differences, so the model stores  *)
(* ages: how long ago an instant was, in ticks.  A finding's lag is the    *)
(* age of its timestamp; it is negative while the agent's clock is ahead.  *)
(* Ages stop growing at AgeCap, which also stands for the zero time.       *)
(*                                                                         *)
(* Sweep and ApplyFinding hold the mutex for their whole length, so each   *)
(* is one action.  What a failing statement leaves behind is a choice      *)
(* inside the action, governed by Faults; a crash between two statements   *)
(* is the failure of the second followed by Crash, because a crash loses   *)
(* the memory anyway.  A Sweep whose first query fails changes nothing.    *)
(***************************************************************************)
EXTENDS LeakyBucket, FiniteSets

CONSTANTS Series,         \* the primary keys of argus_policy_state
          Finding,        \* anomalies the detectors may report
          None,           \* a nil id
          Severities,     \* severities a detector can attach to a finding
          Lags,           \* lags a finding may have when it is inserted
          ConfirmWindow,
          QuietPeriod,
          AgeCap,         \* bound: the largest age told apart
          MaxLag,         \* bound: the largest lag a finding is applied with
          Faults          \* what may fail, a subset of FaultNames

FaultNames == {"get", "begin", "tx", "commit", "attach", "close", "save", "crash"}

ASSUME EngineAssumption ==
  /\ None \notin Finding /\ None \notin Series
  /\ Severities \subseteq Nat
  /\ Lags \subseteq Int
  /\ ConfirmWindow \in Nat
  /\ QuietPeriod \in Nat
  /\ AgeCap \in Nat
  /\ MaxLag \in Nat
  /\ Faults \subseteq FaultNames

\* Only finitely many findings are ever made.
ASSUME FindingsFinite == IsFiniteSet(Finding)

\* runner.go configures both detectors to report nothing milder than 4, and
\* CloseThreshold is 3.
ASSUME SeverityFloor == \A v \in Severities : v >= CloseThreshold

VARIABLES up,        \* the process is running
          mem,       \* PolicyEngine.states
          rows,      \* argus_policy_state
          events,    \* argus_events, each named by the finding that opened it
          findings,  \* argus_findings
          reports    \* per worker, the finding between InsertFinding and ApplyFinding

vars == <<up, mem, rows, events, findings, reports>>

Status == {"clean", "watching", "firing", "recovering"}

\* A SeriesKey is built in two places.  The workers set Type (worker.go);
\* Sweep builds its key from a row, which has no type, and leaves Type empty.
Key == Series \X {"typed", "untyped"}
WorkerKey(s) == <<s, "typed">>

PolicyState == [status : Status \cup {"absent"}, statusAge : Int,
                score : Nat, scoreAge : Int,
                event : Finding \cup {None}, pending : SUBSET Finding]

Absent == [status |-> "absent", statusAge |-> 0, score |-> 0, scoreAge |-> 0,
           event |-> None, pending |-> {}]

\* The state ApplyFinding creates for a series without a row.
Fresh == [status |-> "clean", statusAge |-> 0, score |-> 0, scoreAge |-> AgeCap,
          event |-> None, pending |-> {}]

Idle == [finding |-> None, severity |-> 0, lag |-> 0]
NoStates == [k \in Key |-> Absent]
NoReports == [s \in Series |-> Idle]

Init ==
  /\ up = TRUE
  /\ mem = NoStates
  /\ rows = [s \in Series |-> Absent]
  /\ events = [e \in Finding |-> [status |-> "none", count |-> 0]]
  /\ findings = [f \in Finding |-> [series |-> None, event |-> None]]
  /\ reports = NoReports

-----------------------------------------------------------------------------
(* Time *)

Older(age) == IF age < AgeCap THEN age + 1 ELSE age

Aged(st) ==
  IF st.status = "absent" THEN st
  ELSE [st EXCEPT !.statusAge = Older(@), !.scoreAge = Older(@)]

\* A worker applies a finding before the lag reaches MaxLag.
Tick ==
  /\ \A s \in Series : reports[s] # Idle => reports[s].lag < MaxLag
  /\ mem' = [k \in Key |-> Aged(mem[k])]
  /\ rows' = [s \in Series |-> Aged(rows[s])]
  /\ reports' = [s \in Series |->
                   IF reports[s].finding = None THEN reports[s]
                   ELSE [reports[s] EXCEPT !.lag = Older(@)]]
  /\ UNCHANGED <<up, events, findings>>

-----------------------------------------------------------------------------
(* Sweep *)

\* The loop over ListNonCleanPolicyStates: a row that is not clean becomes a
\* state under the key without a type, unless that key already has one.
Hydrated ==
  [k \in Key |->
     IF /\ k[2] = "untyped"
        /\ mem[k].status = "absent"
        /\ rows[k[1]].status \in Status \ {"clean"}
     THEN rows[k[1]]
     ELSE mem[k]]

Leaked(st) == [st EXCEPT !.score = Decay(st.score, st.scoreAge).score, !.scoreAge = 0]

\* Mutant of Expired: the confirm window also ends a recovery.
ExpiredRecovery(st) == st.status \in {"watching", "recovering"} /\ st.statusAge > ConfirmWindow

Expired(st) == st.status = "watching" /\ st.statusAge > ConfirmWindow

\* Mutant of Cooled: the falling edge counts only after a hold-down time.
CooledHeld(st) ==
  /\ st.status = "firing"
  /\ st.statusAge > ConfirmWindow
  /\ Decay(st.score, st.scoreAge).crossedClose

Cooled(st) == st.status = "firing" /\ Decay(st.score, st.scoreAge).crossedClose
Closes(st) == st.status = "recovering" /\ st.statusAge > QuietPeriod /\ st.event # None

\* What the body of the second loop makes of a state.
Swept(st) ==
  CASE Expired(st) -> [st EXCEPT !.status = "clean", !.statusAge = 0, !.pending = {},
                                 !.score = 0, !.scoreAge = 0]
    [] Cooled(st) -> [Leaked(st) EXCEPT !.status = "recovering", !.statusAge = 0]
    [] Closes(st) -> [Leaked(st) EXCEPT !.status = "clean", !.statusAge = 0,
                                        !.event = None, !.pending = {}]
    [] OTHER -> Leaked(st)

\* The memory when the keys in done went through the body and the one in
\* failed, if any, returned at CloseEvent with its bucket already updated.
SweptMem(done, failed) ==
  [k \in Key |-> CASE k \in done -> Swept(Hydrated[k])
                   [] k \in failed -> Leaked(Hydrated[k])
                   [] OTHER -> Hydrated[k]]

\* CloseEvent for the keys in done, and for those in lost, whose reply never came.
CloseEvents(keys) ==
  events' = [e \in Finding |->
               IF \E k \in keys : Closes(Hydrated[k]) /\ Hydrated[k].event = e
               THEN [events[e] EXCEPT !.status = "closed"]
               ELSE events[e]]

\* Mutant of SaveSwept: a clean state is not worth a write.
SaveSweptActive(done, unsaved, states) ==
  \E last \in [Series -> {"typed", "untyped"}] :
    /\ rows' = [s \in Series |->
                  IF \/ s \in unsaved
                     \/ \A k \in done : k[1] # s
                     \/ states[<<s, last[s]>>].status = "clean"
                  THEN rows[s] ELSE states[<<s, last[s]>>]]
    /\ \A k \in done : <<k[1], last[k[1]]>> \in done

\* savePolicyState runs for every key in done, in the order of a Go map
\* iteration; both keys of a series write the same row, so the last one stays.
\* An error is ignored: the rows of the series in unsaved keep their contents.
SaveSwept(done, unsaved, states) ==
  \E last \in [Series -> {"typed", "untyped"}] :
    /\ unsaved # {} => "save" \in Faults
    /\ rows' = [s \in Series |-> IF s \in unsaved \/ \A k \in done : k[1] # s
                                 THEN rows[s] ELSE states[<<s, last[s]>>]]
    /\ \A k \in done : <<k[1], last[k[1]]>> \in done

Present == {k \in Key : Hydrated[k].status # "absent"}

\* The whole loop.
SweepAll(unsaved) ==
  /\ CloseEvents(Present)
  /\ SaveSwept(Present, unsaved, SweptMem(Present, {}))
  /\ UNCHANGED <<findings, reports>>

\* CloseEvent fails for some key: Sweep returns, the keys after it wait for
\* the next Sweep.
SweepStops(done, k) ==
  /\ "close" \in Faults
  /\ Closes(Hydrated[k])
  /\ CloseEvents(done) \/ CloseEvents(done \cup {k})
  /\ \E unsaved \in SUBSET Series : SaveSwept(done, unsaved, SweptMem(done, {k}))
  /\ UNCHANGED <<findings, reports>>

Sweep(unsaved) ==
  /\ up
  /\ SweepAll(unsaved)
  /\ mem' = SweptMem(Present, {})
  /\ UNCHANGED up

SweepAborted ==
  /\ up
  /\ \E k \in Present : \E done \in SUBSET (Present \ {k}) :
       SweepStops(done, k) /\ mem' = SweptMem(done, {k})
  /\ UNCHANGED up

\* Argus.Start: the first Sweep must succeed before the workers run.
Start ==
  /\ ~up
  /\ \E unsaved \in SUBSET Series : SweepAll(unsaved)
  /\ mem' = SweptMem(Present, {})
  /\ up' = TRUE

StartAborted ==
  /\ ~up
  /\ \E k \in Present : \E done \in SUBSET (Present \ {k}) : SweepStops(done, k)
  /\ UNCHANGED <<up, mem>>

-----------------------------------------------------------------------------
(* report(): InsertFinding without the mutex, then ApplyFinding with it *)

\* INSERT ... ON CONFLICT DO NOTHING: a finding already in the table yields no
\* id, and the report ends there; so does one whose insert fails.
InsertFinding(s, f) ==
  /\ up
  /\ reports[s] = Idle
  /\ findings[f].series = None
  /\ findings' = [findings EXCEPT ![f].series = s]
  /\ \E v \in Severities, l \in Lags :
       reports' = [reports EXCEPT ![s] = [finding |-> f, severity |-> v, lag |-> l]]
  /\ UNCHANGED <<up, mem, rows, events>>

\* The state ApplyFinding works on: cached, else from the row, else new.
Loaded(s) ==
  IF mem[WorkerKey(s)].status # "absent" THEN mem[WorkerKey(s)]
  ELSE IF rows[s].status # "absent" THEN rows[s]
  ELSE Fresh

Update(s) == Add(Loaded(s).score, Loaded(s).scoreAge - reports[s].lag, reports[s].severity)

\* The state with its bucket updated, before the switch on its status.
Bumped(s) == [Loaded(s) EXCEPT !.score = Update(s).score, !.scoreAge = reports[s].lag]

\* ApplyFinding returns and leaves st in memory.
Return(s, st) ==
  /\ mem' = [mem EXCEPT ![WorkerKey(s)] = st]
  /\ reports' = [reports EXCEPT ![s] = Idle]
  /\ UNCHANGED up

SavePolicyState(s, st) ==
  \/ rows' = [rows EXCEPT ![s] = st]
  \/ "save" \in Faults /\ UNCHANGED rows

\* The process dies: everything in memory is gone.
Die ==
  /\ up' = FALSE
  /\ mem' = NoStates
  /\ reports' = NoReports

\* clean -> watching, or one more pending finding.
Watched(s) ==
  LET f == reports[s].finding IN
  IF Loaded(s).status = "clean"
  THEN [Bumped(s) EXCEPT !.status = "watching", !.statusAge = reports[s].lag, !.pending = {f}]
  ELSE [Bumped(s) EXCEPT !.pending = @ \cup {f}]

\* Mutant of OpenEventTx: the caller has not added the triggering finding yet.
OpenEventTxEarly(s) ==
  LET pending == Loaded(s).pending IN
  /\ events' = [events EXCEPT ![reports[s].finding] =
                  [status |-> "open", count |-> Cardinality(pending)]]
  /\ findings' = [g \in Finding |->
                    IF g \in pending THEN [findings[g] EXCEPT !.event = reports[s].finding]
                    ELSE findings[g]]

\* Mutant of OpenEventTx: every finding of the series is attached, not the pending ones.
OpenEventTxSeries(s) ==
  LET f == reports[s].finding IN
  /\ events' = [events EXCEPT ![f] = [status |-> "open", count |-> Cardinality(Watched(s).pending)]]
  /\ findings' = [g \in Finding |-> IF findings[g].series = s
                                    THEN [findings[g] EXCEPT !.event = f] ELSE findings[g]]

\* What openEvent's transaction writes when it commits.
OpenEventTx(s) ==
  LET f == reports[s].finding
      pending == Watched(s).pending
  IN  /\ events' = [events EXCEPT ![f] = [status |-> "open", count |-> Cardinality(pending)]]
      /\ findings' = [g \in Finding |-> IF g \in pending THEN [findings[g] EXCEPT !.event = f]
                                        ELSE findings[g]]

Opened(s) ==
  [Watched(s) EXCEPT !.status = "firing", !.event = reports[s].finding,
                     !.pending = {}, !.statusAge = reports[s].lag]

\* Mutant of OpenEvent: the state changes before the transaction commits.
OpenEventEager(s) ==
  \/ OpenEventTx(s) /\ Return(s, Opened(s)) /\ SavePolicyState(s, Opened(s))
  \/ "tx" \in Faults /\ Return(s, Opened(s)) /\ UNCHANGED <<events, findings, rows>>

\* openEvent with each of its outcomes: committed; rolled back; committed with
\* the reply lost; no transaction, and then Rollback is called on a nil Tx.
OpenEvent(s) ==
  \/ OpenEventTx(s) /\ Return(s, Opened(s)) /\ SavePolicyState(s, Opened(s))
  \/ "tx" \in Faults /\ Return(s, Watched(s)) /\ UNCHANGED <<events, findings, rows>>
  \/ "commit" \in Faults /\ OpenEventTx(s) /\ Return(s, Watched(s)) /\ UNCHANGED rows
  \/ "begin" \in Faults /\ Die /\ UNCHANGED <<events, findings, rows>>

\* ApplyFinding on a clean or watching state.
ApplyQuiet(s) ==
  /\ Loaded(s).status \in {"clean", "watching"}
  /\ IF Update(s).crossedOpen
     THEN OpenEvent(s)
     ELSE Return(s, Watched(s)) /\ SavePolicyState(s, Watched(s)) /\ UNCHANGED <<events, findings>>

Attach(s) ==
  findings' = [findings EXCEPT ![reports[s].finding].event = Loaded(s).event]

Refired(s) ==
  IF Loaded(s).status = "recovering"
  THEN [Bumped(s) EXCEPT !.status = "firing", !.statusAge = reports[s].lag]
  ELSE Bumped(s)

\* ApplyFinding on a firing or recovering state.
ApplyAlarm(s) ==
  /\ Loaded(s).status \in {"firing", "recovering"}
  /\ \/ /\ Loaded(s).event = None
        /\ Return(s, Bumped(s))
        /\ UNCHANGED <<rows, findings>>
     \/ /\ Loaded(s).event # None
        /\ Attach(s)
        /\ Return(s, Refired(s))
        /\ SavePolicyState(s, Refired(s))
     \/ /\ Loaded(s).event # None
        /\ "attach" \in Faults
        /\ Attach(s) \/ UNCHANGED findings
        /\ Return(s, Bumped(s))
        /\ UNCHANGED rows
  /\ UNCHANGED events

\* GetPolicyState fails.
ApplyUnread(s) ==
  /\ "get" \in Faults
  /\ mem[WorkerKey(s)].status = "absent"
  /\ Return(s, Absent)
  /\ UNCHANGED <<rows, events, findings>>

ApplyFinding(s) ==
  /\ up
  /\ reports[s] # Idle
  /\ ApplyQuiet(s) \/ ApplyAlarm(s) \/ ApplyUnread(s)

Crash ==
  /\ "crash" \in Faults
  /\ up
  /\ Die
  /\ UNCHANGED <<rows, events, findings>>

Next ==
  \/ Tick
  \/ \E unsaved \in SUBSET Series : Sweep(unsaved)
  \/ SweepAborted
  \/ Start
  \/ StartAborted
  \/ \E s \in Series, f \in Finding : InsertFinding(s, f)
  \/ \E s \in Series : ApplyFinding(s)
  \/ Crash

Spec == Init /\ [][Next]_vars

\* Time passes, the ticker keeps calling Sweep and some call meets a working
\* database, and a worker that inserted a finding goes on to apply it.
Fairness ==
  /\ WF_vars(Tick)
  /\ WF_vars(Sweep({}))
  /\ \A s \in Series : WF_vars(ApplyFinding(s))

FairSpec == Spec /\ Fairness

-----------------------------------------------------------------------------
(* Properties *)

TypeOK ==
  /\ up \in BOOLEAN
  /\ mem \in [Key -> PolicyState]
  /\ rows \in [Series -> PolicyState]
  /\ events \in [Finding -> [status : {"none", "open", "closed"}, count : Nat]]
  /\ findings \in [Finding -> [series : Series \cup {None}, event : Finding \cup {None}]]
  /\ reports \in [Series -> [finding : Finding \cup {None}, severity : Nat, lag : Int]]

States == {mem[k] : k \in Key} \cup {rows[s] : s \in Series}

\* An alarm that is up knows its event and one that is not up has none, and
\* only a watching state holds findings back, in memory and in the table, after
\* any failure or restart: the two "missing open id" errors of ApplyFinding are
\* unreachable.
AlarmKnowsItsEvent ==
  \A st \in States :
    /\ st.status \in {"firing", "recovering"} <=> st.event # None
    /\ st.pending # {} => st.status = "watching"
    /\ st.event # None => events[st.event].status # "none"

\* A firing state is still above CloseThreshold, so the falling edge that Sweep
\* waits for (CrossedClose) lies ahead of it: no ApplyFinding and no restart
\* can swallow the edge and leave the alarm on for ever.
FiringAboveClose ==
  \A st \in States : st.status = "firing" => st.score >= CloseThreshold

\* A watching state is below OpenThreshold: ApplyFinding's comment says that
\* otherwise "the score parks above the threshold and the edge can never fire
\* again".
WatchingBelowOpen ==
  \A st \in States : st.status = "watching" => st.score < OpenThreshold

\* A series has at most one open event.
OneOpenEvent ==
  \A e, f \in Finding :
    events[e].status = "open" /\ events[f].status = "open"
      /\ findings[e].series = findings[f].series => e = f

\* A finding stays with the event it was attached to.
AttachedForGood ==
  [][\A f \in Finding : findings[f].event # None => findings'[f].event = findings[f].event]_vars

\* leaky_bucket.go says a bucket "can't cross open by just decaying": a score
\* gets above OpenThreshold only in the step that applies a finding.
OpensOnlyByFinding ==
  [][\A k \in Key :
       /\ mem[k].status # "absent"
       /\ mem[k].score < OpenThreshold
       /\ mem'[k].score >= OpenThreshold
       => reports[k[1]] # Idle /\ reports'[k[1]] = Idle]_vars

\* QuietPeriod is the "wait time for recovering -> clean": Sweep closes an
\* event only when the alarm that owns it has been recovering that long.
QuietBeforeClose ==
  [][\A k \in Key :
       /\ mem[k].event # None
       /\ events[mem[k].event].status = "open"
       /\ events'[mem[k].event].status = "closed"
       => mem[k].status = "recovering" /\ mem[k].statusAge > QuietPeriod]_vars

\* finding_count is the number of findings of the event; the dashboard sums it
\* as "total findings".
CountsItsFindings ==
  \A e \in Finding :
    events[e].status # "none" =>
      events[e].count = Cardinality({f \in Finding : findings[f].event = e})

Log == INSTANCE EventLog
         WITH owner <- [f \in Finding |-> findings[f].series],
              status <- [e \in Finding |-> events[e].status],
              event <- [f \in Finding |-> findings[f].event]

\* The engine keeps the promise of EventLog to the readers of the tables after
\* any failure and restart: openEvent, attachFindingToEvent and CloseEvent,
\* called with ids cached in memory or read back from argus_policy_state, never
\* reopen an event, touch another series' event or lose a finding's event.
KeepsEventLog == Log!Spec

\* Once the detectors are silent, every alarm goes off: the events get closed
\* and the states, in memory and in the table, end clean.
AlarmsSettle ==
  <>[](/\ \A e \in Finding : events[e].status # "open"
       /\ \A st \in States : st.status \in {"absent", "clean"})

=============================================================================

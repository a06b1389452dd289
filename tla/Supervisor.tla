----------------------------- MODULE Supervisor -----------------------------
(***************************************************************************)
(* The agent: one goroutine pulls the configuration and reconciles the     *)
(* running task loops with it (agent.go, supervisor_reconciler.go), one    *)
(* goroutine per task runs its executor (supervisor_tasks.go), and the     *)
(* dispatcher publishes what the executors put into the probe data stream  *)
(* (data_stream.go, dispatcher.go).                                        *)
(*                                                                         *)
(* A task loop is a goroutine of its own: it is held in a slot, so that it *)
(* can outlive the entry of Supervisor.running that points to it.          *)
(***************************************************************************)
EXTENDS Naturals, Sequences, FiniteSets

CONSTANTS Id,         \* task ids
          Gen,        \* task generations
          Configs,    \* sets of tasks the control plane may answer with
          StreamCap,  \* NewProbeDataStream(100)
          Slot,       \* places for goroutines
          None

\* A broken task has no params or a negative interval, a "zero" task an
\* interval of zero; a "once" task has Schedule.Enabled = false, as the stamp
\* reflector has.
Task == [id : Id, gen : Gen, kind : {"interval", "once", "broken", "zero"}]

ASSUME SupervisorAssumption ==
  /\ Configs \subseteq SUBSET Task
  /\ StreamCap \in Nat \ {0}
  /\ None \notin Task \cup Slot

VARIABLES desired,  \* Supervisor.desired, by id
          running,  \* Supervisor.running: the slot of the id's RunningTask
          loops,    \* the goroutines
          pc,       \* where reconcile is; "boot" before the first pull
          todo,     \* ids the second loop of reconcile has not visited
          stream,   \* ProbeDataStream: the tasks whose results wait
          up        \* FALSE once the process has panicked

vars == <<desired, running, loops, pc, todo, stream, up>>

Nothing == [id \in Id |-> None]
NoLoop == [task |-> None, phase |-> "free", cancelled |-> FALSE]

Init ==
  /\ desired = Nothing
  /\ running = Nothing
  /\ loops = [l \in Slot |-> NoLoop]
  /\ pc = "boot"
  /\ todo = {}
  /\ stream = <<>>
  /\ up = TRUE

\* The goroutine has closed done.
Done(l) == loops[l].phase \in {"free", "returned", "failed"}

-----------------------------------------------------------------------------
(* reconcile *)

\* Where no reconciliation is under way.
Between == {"boot", "idle"}

Undesired == {id \in Id : running[id] # None /\ desired[id] = None}

\* A pull answers with config; of two tasks with one id the map keeps the one
\* that came last.
SetDesiredTasks(config) ==
  /\ up /\ pc \in Between
  /\ desired' \in [Id -> config \cup {None}]
  /\ \A id \in Id :
       IF \E t \in config : t.id = id THEN desired'[id] # None /\ desired'[id].id = id
                                      ELSE desired'[id] = None
  /\ pc' = "stop"
  /\ UNCHANGED <<running, loops, todo, stream, up>>

Cancelled(some) ==
  [l \in Slot |-> IF l \in some THEN [loops[l] EXCEPT !.cancelled = TRUE] ELSE loops[l]]

\* Mutant of StopUndesired: Stop waits without having cancelled.
StopUndesiredUncancelled ==
  /\ up /\ pc = "stop"
  /\ pc' = "wait"
  /\ UNCHANGED <<desired, running, loops, todo, stream, up>>

\* Every undesired task is stopped in a goroutine of its own.
StopUndesired ==
  /\ up /\ pc = "stop"
  /\ loops' = Cancelled({running[id] : id \in Undesired})
  /\ pc' = "wait"
  /\ UNCHANGED <<desired, running, todo, stream, up>>

AwaitUndesired ==
  /\ up /\ pc = "wait"
  /\ \A id \in Undesired : Done(running[id])
  /\ running' = [id \in Id |-> IF id \in Undesired THEN None ELSE running[id]]
  /\ todo' = {id \in Id : desired[id] # None}
  /\ pc' = "start"
  /\ UNCHANGED <<desired, loops, stream, up>>

StartTask(id) ==
  \E l \in Slot :
    /\ Done(l)
    /\ \A other \in Id : running[other] = l => other = id
    /\ loops' = [loops EXCEPT ![l] = [task |-> desired[id], phase |-> "begin",
                                      cancelled |-> FALSE]]
    /\ running' = [running EXCEPT ![id] = l]

\* Mutant of ReconcileTask: a task that runs is left alone.
ReconcileTaskBlind(id) ==
  /\ up /\ pc = "start" /\ id \in todo
  /\ IF running[id] = None THEN StartTask(id) ELSE UNCHANGED <<loops, running>>
  /\ todo' = todo \ {id}
  /\ UNCHANGED <<desired, pc, stream, up>>

\* One turn of the second loop, in the order of the map.
ReconcileTask(id) ==
  /\ up /\ pc = "start" /\ id \in todo
  /\ IF running[id] = None
     THEN /\ StartTask(id)
          /\ todo' = todo \ {id}
          /\ UNCHANGED pc
     ELSE IF loops[running[id]].task.gen = desired[id].gen
     THEN /\ todo' = todo \ {id}
          /\ UNCHANGED <<pc, loops, running>>
     ELSE /\ loops' = Cancelled({running[id]})
          /\ pc' = "restart"
          /\ UNCHANGED <<running, todo>>
  /\ UNCHANGED <<desired, stream, up>>

\* Mutant of RestartTask: Stop cancels and does not wait for done.
RestartTaskEarly(id) ==
  /\ up /\ pc = "restart" /\ id \in todo
  /\ running[id] # None
  /\ loops[running[id]].cancelled
  /\ StartTask(id)
  /\ todo' = todo \ {id}
  /\ pc' = "start"
  /\ UNCHANGED <<desired, stream, up>>

\* Stop has returned for the task whose generation changed.
RestartTask(id) ==
  /\ up /\ pc = "restart" /\ id \in todo
  /\ running[id] # None
  /\ loops[running[id]].cancelled
  /\ Done(running[id])
  /\ StartTask(id)
  /\ todo' = todo \ {id}
  /\ pc' = "start"
  /\ UNCHANGED <<desired, stream, up>>

Reconciled ==
  /\ up /\ pc = "start" /\ todo = {}
  /\ pc' = "idle"
  /\ UNCHANGED <<desired, running, loops, todo, stream, up>>

-----------------------------------------------------------------------------
(* A task loop *)

To(l, phase) == loops' = [loops EXCEPT ![l].phase = phase]
LoopOnly == UNCHANGED <<desired, running, pc, todo>>

Begin(l) ==
  /\ up /\ loops[l].phase = "begin"
  /\ To(l, CASE loops[l].task.kind = "broken" -> "returned"
             [] loops[l].task.kind = "once" -> "execute"
             [] OTHER -> "sleep")
  /\ LoopOnly /\ UNCHANGED <<stream, up>>

\* computeJitter and NewTicker panic on an interval of zero: the first before
\* the first run if there is a jitter, the second after it if there is none.
Panic(l) ==
  /\ up /\ loops[l].task # None /\ loops[l].task.kind = "zero"
  /\ loops[l].phase \in {"begin", "ticker"}
  /\ up' = FALSE
  /\ LoopOnly /\ UNCHANGED <<loops, stream>>

\* The jitter or the ticker; a select with both channels ready takes either.
Wake(l) ==
  /\ up /\ loops[l].phase = "sleep"
  /\ To(l, "execute")
  /\ LoopOnly /\ UNCHANGED <<stream, up>>

Leave(l) ==
  /\ up /\ loops[l].phase = "sleep" /\ loops[l].cancelled
  /\ To(l, "returned")
  /\ LoopOnly /\ UNCHANGED <<stream, up>>

After(l, failed) ==
  CASE loops[l].task.kind = "interval" -> "sleep"
    [] loops[l].task.kind = "zero" -> "ticker"
    [] OTHER -> IF failed THEN "failed" ELSE "returned"

\* Execute returns an error: the probe failed, or its context was cancelled.
ExecuteFails(l) ==
  /\ up /\ loops[l].phase = "execute"
  /\ To(l, After(l, ~loops[l].cancelled))
  /\ LoopOnly /\ UNCHANGED <<stream, up>>

\* Mutant of ExecuteSucceeds: Insert waits neither for room nor for ctx.
ExecuteSucceedsUnbounded(l) ==
  /\ up /\ loops[l].phase = "execute"
  /\ To(l, After(l, FALSE))
  /\ stream' = Append(stream, loops[l].task)
  /\ LoopOnly /\ UNCHANGED up

\* Execute returns a result and Insert takes it, gives up because of ctx, or
\* finds the stream full: then it logs through a logger that is nil.
ExecuteSucceeds(l) ==
  /\ up /\ loops[l].phase = "execute"
  /\ \/ /\ Len(stream) < StreamCap
        /\ stream' = Append(stream, loops[l].task)
        /\ To(l, After(l, FALSE)) /\ UNCHANGED up
     \/ /\ loops[l].cancelled
        /\ To(l, After(l, FALSE)) /\ UNCHANGED <<stream, up>>
     \/ /\ Len(stream) >= StreamCap /\ ~loops[l].cancelled
        /\ up' = FALSE
        /\ UNCHANGED <<loops, stream>>
  /\ LoopOnly

\* The dispatcher takes a result; after three failed attempts it is lost.
Dispatch ==
  /\ up /\ stream # <<>>
  /\ stream' = Tail(stream)
  /\ LoopOnly /\ UNCHANGED <<loops, up>>

\* The process is started again after a panic.
Reboot ==
  /\ ~up
  /\ desired' = Nothing /\ running' = Nothing
  /\ loops' = [l \in Slot |-> NoLoop]
  /\ pc' = "boot" /\ todo' = {} /\ stream' = <<>> /\ up' = TRUE

-----------------------------------------------------------------------------
Reconcile ==
  \/ StopUndesired \/ AwaitUndesired \/ Reconciled
  \/ \E id \in Id : ReconcileTask(id) \/ RestartTask(id)

Loop(l) == Begin(l) \/ Panic(l) \/ Wake(l) \/ Leave(l) \/ ExecuteFails(l) \/ ExecuteSucceeds(l)

\* Everything the agent does on its own.
AgentStep == Reconcile \/ (\E l \in Slot : Loop(l)) \/ Dispatch \/ Reboot

Next == (\E config \in Configs : SetDesiredTasks(config)) \/ AgentStep

Spec == Init /\ [][Next]_vars

\* A goroutine that can run does; select, offered a cancelled context again and
\* again, takes it in the end; an executor is only sure to return once its
\* context is cancelled.
AgentFairness ==
  /\ WF_vars(Reconcile) /\ WF_vars(Dispatch) /\ WF_vars(Reboot)
  /\ \A l \in Slot :
       /\ WF_vars(Begin(l) \/ Panic(l)) /\ WF_vars(Wake(l) \/ Leave(l)) /\ SF_vars(Leave(l))
       /\ WF_vars(loops[l].cancelled /\ (ExecuteFails(l) \/ ExecuteSucceeds(l)))

FairSpec == Spec /\ AgentFairness /\ WF_vars(\E config \in Configs : SetDesiredTasks(config))

-----------------------------------------------------------------------------
(* Properties *)

TypeOK ==
  /\ desired \in [Id -> Task \cup {None}]
  /\ running \in [Id -> Slot \cup {None}]
  /\ \A l \in Slot :
       /\ loops[l].task \in Task \cup {None}
       /\ loops[l].phase \in {"free", "begin", "sleep", "execute", "ticker", "returned", "failed"}
       /\ loops[l].cancelled \in BOOLEAN
  /\ pc \in Between \cup {"stop", "wait", "start", "restart"}
  /\ todo \subseteq Id
  /\ stream \in Seq(Task) /\ Len(stream) <= StreamCap
  /\ up \in BOOLEAN

\* reconcile waits for a goroutine before it forgets or replaces it: two loops
\* never probe for one task id, whatever generations follow each other and
\* however long an executor takes to notice its cancelled context.
OneLoopPerTask ==
  \A k, l \in Slot :
    ~Done(k) /\ ~Done(l) /\ loops[k].task.id = loops[l].task.id => k = l

\* Between two reconciliations exactly the last pulled tasks have a goroutine,
\* each in the generation that was pulled, and no other goroutine is left.
RunsWhatIsDesired ==
  pc = "idle" =>
    /\ \A l \in Slot : ~Done(l) => running[loops[l].task.id] = l
    /\ \A id \in Id :
         /\ running[id] = None <=> desired[id] = None
         /\ running[id] # None =>
              /\ loops[running[id]].task.id = id
              /\ loops[running[id]].task.gen = desired[id].gen
              /\ ~loops[running[id]].cancelled

\* The lock is released: a reconciliation that waits for goroutines to stop
\* comes to its end, so the configuration is pulled again.
ReconcileEnds == (pc \notin Between) ~> (pc \in Between)

\* agent.go: the agent "manages lifecycle of probes in goroutines, and restarts
\* them if they fail".
FailedTasksRestart ==
  \A id \in Id :
    (running[id] # None /\ loops[running[id]].phase = "failed")
      ~> (running[id] = None \/ loops[running[id]].phase # "failed")

\* A task loop that cannot run its task logs it and returns: the process and
\* the other tasks stay.
BadTasksReturn == up

\* data_stream.go: "probe buffer full, dropping result".
FullStreamDrops == up

=============================================================================

------------------------- MODULE TaskRolloutProofs -------------------------
(***************************************************************************)
(* Proofs about Supervisor and TaskRollout, for any rows, task ids,        *)
(* generations, configurations, slots, and any capacity of the stream.     *)
(*                                                                         *)
(* Part 1, the agent.  The inductive invariant has two parts.  Registered  *)
(* ties the goroutines to the map Supervisor.running in both directions,   *)
(* at every moment: OneLoopPerTask follows from it.  Progress says, for    *)
(* each place in reconcile, which tasks are running, cancelled and up to   *)
(* date already; at "idle" it is RunsWhatIsDesired.                        *)
(*                                                                         *)
(* Part 2, the rollout.  That no two saved rows share an id, and that a    *)
(* saved task is left alone by reconcile, hold while one editor is at      *)
(* work: the ids it has read are then all that are in use when its         *)
(* transaction inserts.  The argument follows a task from the table        *)
(* through the answer to the pull and the desired tasks to the goroutines: *)
(* what is saved is never deleted, so every later answer has what the      *)
(* agent already holds.                                                    *)
(***************************************************************************)
EXTENDS TaskRollout, SubsequencesProofs

-----------------------------------------------------------------------------
(* Part 1: the agent *)

Phase == {"free", "begin", "sleep", "execute", "ticker", "returned", "failed"}
Live == {"begin", "sleep", "execute", "ticker"}

LoopRecord == [task : Task \cup {None}, phase : Phase, cancelled : BOOLEAN]

Types ==
  /\ desired \in [Id -> Task \cup {None}]
  /\ \A id \in Id : desired[id] # None => desired[id].id = id
  /\ running \in [Id -> Slot \cup {None}]
  /\ loops \in [Slot -> LoopRecord]
  /\ pc \in Between \cup {"stop", "wait", "start", "restart"}
  /\ todo \in SUBSET Id
  /\ stream \in Seq(Task) /\ Len(stream) <= StreamCap
  /\ up \in BOOLEAN

\* What running points to is a goroutine of that id, and a goroutine that has
\* not closed done is pointed to.
Registered ==
  /\ \A l \in Slot : loops[l].phase # "free" => loops[l].task # None
  /\ \A id \in Id : running[id] # None => loops[running[id]].task # None
                                          /\ loops[running[id]].task.id = id
  /\ \A l \in Slot : loops[l].phase \in Live => running[loops[l].task.id] = l

\* The task of id runs in the desired generation.
Current(id) ==
  /\ running[id] # None
  /\ loops[running[id]].task.gen = desired[id].gen
  /\ ~loops[running[id]].cancelled

Stopping(id) == running[id] # None /\ loops[running[id]].cancelled

Progress ==
  /\ pc \in {"boot", "idle", "stop"} => \A id \in Id : ~Stopping(id)
  /\ pc = "wait" => \A id \in Id : Stopping(id) => desired[id] = None
  /\ pc = "boot" => \A id \in Id : running[id] = None
  /\ pc \in {"start", "restart", "idle"} =>
       /\ \A id \in Id : running[id] # None => desired[id] # None
       /\ \A id \in Id \ todo : desired[id] # None => Current(id)
       /\ \A id \in todo : desired[id] # None
  /\ pc = "start" => \A id \in Id : ~Stopping(id)
  /\ pc = "restart" => \A i, j \in Id : Stopping(i) /\ Stopping(j) => i = j
  /\ pc = "idle" => todo = {}

IInv == Types /\ Registered /\ Progress

-----------------------------------------------------------------------------
(* What the updates of loops do to the fields *)

LEMMA NoneDiffers == None \notin Task /\ None \notin Slot
BY SupervisorAssumption

\* A goroutine has closed done unless it is in one of the phases of Live.
LEMMA DoneOrLive ==
  ASSUME Types, NEW l \in Slot
  PROVE  ~Done(l) <=> loops[l].phase \in Live
BY DEF Types, LoopRecord, Phase, Live, Done

\* A goroutine that goes from one phase to another keeps task and context.
LEMMA ToFields ==
  ASSUME Types, NEW l \in Slot, NEW p \in Phase, To(l, p)
  PROVE  /\ loops' \in [Slot -> LoopRecord]
         /\ \A k \in Slot : /\ loops'[k].task = loops[k].task
                            /\ loops'[k].cancelled = loops[k].cancelled
                            /\ loops'[k].phase = IF k = l THEN p ELSE loops[k].phase
<1>1. loops \in [Slot -> LoopRecord]
  BY DEF Types
<1>2. loops' = [loops EXCEPT ![l] = [loops[l] EXCEPT !.phase = p]]
  BY DEF To
<1>3. loops[l] \in LoopRecord
  BY <1>1
<1>4. [loops[l] EXCEPT !.phase = p] \in LoopRecord
  BY <1>3 DEF LoopRecord
<1>5. loops' \in [Slot -> LoopRecord]
  BY <1>1, <1>2, <1>4
<1>6. \A k \in Slot : loops'[k] = IF k = l THEN [loops[l] EXCEPT !.phase = p] ELSE loops[k]
  BY <1>1, <1>2
<1>7. /\ [loops[l] EXCEPT !.phase = p].phase = p
      /\ [loops[l] EXCEPT !.phase = p].task = loops[l].task
      /\ [loops[l] EXCEPT !.phase = p].cancelled = loops[l].cancelled
  BY <1>3 DEF LoopRecord
<1> QED BY <1>5, <1>6, <1>7, Zenon

\* Cancelling goroutines changes nothing else about them.
LEMMA CancelledFields ==
  ASSUME Types, NEW some, loops' = Cancelled(some)
  PROVE  /\ loops' \in [Slot -> LoopRecord]
         /\ \A k \in Slot : /\ loops'[k].task = loops[k].task
                            /\ loops'[k].phase = loops[k].phase
                            /\ k \in some => loops'[k].cancelled
                            /\ k \notin some => loops'[k].cancelled = loops[k].cancelled
<1>1. \A k \in Slot : loops[k] \in LoopRecord
  BY DEF Types
<1>2. \A k \in Slot :
        /\ [loops[k] EXCEPT !.cancelled = TRUE] \in LoopRecord
        /\ [loops[k] EXCEPT !.cancelled = TRUE].task = loops[k].task
        /\ [loops[k] EXCEPT !.cancelled = TRUE].phase = loops[k].phase
        /\ [loops[k] EXCEPT !.cancelled = TRUE].cancelled
  BY <1>1, Zenon DEF LoopRecord
<1>3. loops' = [l \in Slot |-> IF l \in some THEN [loops[l] EXCEPT !.cancelled = TRUE]
                                             ELSE loops[l]]
  BY DEF Cancelled
<1>4. loops' \in [Slot -> LoopRecord]
  BY <1>1, <1>2, <1>3
<1> QED BY <1>2, <1>3, <1>4, Zenon

-----------------------------------------------------------------------------
(* A task loop *)

\* Whatever phase a goroutine goes to, as long as it was live, reconcile's
\* picture of it stays true.
LEMMA PhasePreserves ==
  ASSUME IInv, NEW l \in Slot, NEW p \in Phase, loops[l].phase \in Live, To(l, p),
         LoopOnly
  PROVE  loops' \in [Slot -> LoopRecord] /\ Registered' /\ Progress'
<1> USE DEF IInv
<1>1. /\ loops' \in [Slot -> LoopRecord]
      /\ \A k \in Slot : /\ loops'[k].task = loops[k].task
                         /\ loops'[k].cancelled = loops[k].cancelled
                         /\ loops'[k].phase = IF k = l THEN p ELSE loops[k].phase
  BY ToFields
<1>2. desired' = desired /\ running' = running /\ pc' = pc /\ todo' = todo
  BY DEF LoopOnly
<1>3. \A id \in Id : running[id] # None => running[id] \in Slot
  BY DEF Types
<1>4. Registered'
  BY <1>1, <1>2, <1>3 DEF Registered, Live
<1>5. \A id \in Id : Current(id)' <=> Current(id)
  BY <1>1, <1>2, <1>3 DEF Current
<1>6. \A id \in Id : Stopping(id)' <=> Stopping(id)
  BY <1>1, <1>2, <1>3 DEF Stopping
<1>7. todo \in SUBSET Id
  BY DEF Types
<1>8. Progress'
  BY <1>2, <1>5, <1>6, <1>7 DEF Progress
<1> QED BY <1>1, <1>4, <1>8

\* A goroutine's step keeps the invariant: it changes its own phase, appends to
\* the stream or ends the process.
LEMMA LoopPreserves ==
  ASSUME IInv, NEW l \in Slot, Loop(l)
  PROVE  IInv'
<1> USE DEF IInv
<1>0. LoopOnly /\ desired' = desired /\ running' = running /\ pc' = pc /\ todo' = todo
  BY Zenon DEF Loop, Begin, Panic, Wake, Leave, ExecuteFails, ExecuteSucceeds, LoopOnly
<1>1. CASE up' = FALSE /\ UNCHANGED <<loops, stream>>
  <2>1. Types'
    BY <1>0, <1>1, Zenon DEF Types
  <2>2. Registered' /\ Progress'
    BY <1>0, <1>1 DEF Registered, Progress, Current, Stopping
  <2> QED BY <2>1, <2>2
<1>2. CASE /\ \E p \in Phase : loops[l].phase \in Live /\ To(l, p)
           /\ up' = up
           /\ \/ stream' = stream
              \/ /\ Len(stream) < StreamCap /\ loops[l].phase = "execute"
                 /\ stream' = Append(stream, loops[l].task)
  <2>1. loops' \in [Slot -> LoopRecord] /\ Registered' /\ Progress'
    BY <1>0, <1>2, PhasePreserves
  <2>2. loops[l].task \in Task \/ stream' = stream
    BY <1>2 DEF Types, Registered, LoopRecord
  <2>3. stream' \in Seq(Task) /\ Len(stream') <= StreamCap
    BY <1>2, <2>2, SupervisorAssumption DEF Types
  <2>4. Types'
    BY <1>0, <1>2, <2>1, <2>3 DEF Types
  <2> QED BY <2>1, <2>4
<1>3. Begin(l) => <1>2!1
  BY DEF Begin, Live, Phase
<1>4. Wake(l) \/ Leave(l) => <1>2!1
  BY DEF Wake, Leave, Live, Phase
<1>5. \A failed \in BOOLEAN : After(l, failed) \in Phase
  BY DEF After, Phase
<1>6. loops[l].cancelled \in BOOLEAN
  BY DEF Types, LoopRecord
<1>7. ExecuteFails(l) => <1>2!1
  BY <1>5, <1>6, Zenon DEF ExecuteFails, Live
<1>8. ExecuteSucceeds(l) => <1>1!1 \/ <1>2!1
  BY <1>5, Zenon DEF ExecuteSucceeds, Live
<1>9. Panic(l) => <1>1!1
  BY DEF Panic
<1> QED BY <1>1, <1>2, <1>3, <1>4, <1>7, <1>8, <1>9, Zenon DEF Loop

-----------------------------------------------------------------------------
(* reconcile *)

\* Two ids never share a goroutine.
LEMMA OwnSlot ==
  ASSUME IInv, NEW i \in Id, NEW j \in Id, running[i] # None, running[i] = running[j]
  PROVE  i = j
BY DEF IInv, Registered

\* A configuration becomes desired between two reconciliations; it stops nothing.
LEMMA SetDesiredPreserves ==
  ASSUME IInv, NEW config \in SUBSET Task, SetDesiredTasks(config)
  PROVE  IInv'
<1> USE DEF IInv
<1>1. /\ desired' \in [Id -> config \cup {None}]
      /\ \A id \in Id : desired'[id] # None => desired'[id].id = id
      /\ pc \in {"boot", "idle"} /\ pc' = "stop"
      /\ running' = running /\ loops' = loops /\ todo' = todo /\ stream' = stream /\ up' = up
  BY DEF SetDesiredTasks, Between
<1>2. Types'
  BY <1>1 DEF Types
<1>3. Registered'
  BY <1>1 DEF Registered
<1>4. \A id \in Id : ~Stopping(id)
  BY <1>1 DEF Progress
<1>5. Progress'
  BY <1>1, <1>4 DEF Progress, Stopping
<1> QED BY <1>2, <1>3, <1>5

\* Cancelling goroutines keeps them registered.
LEMMA CancelRegistered ==
  ASSUME IInv, NEW some, loops' = Cancelled(some), running' = running
  PROVE  Registered'
<1>1. \A k \in Slot : loops'[k].task = loops[k].task /\ loops'[k].phase = loops[k].phase
  BY CancelledFields DEF IInv
<1>2. \A id \in Id : running[id] # None => running[id] \in Slot
  BY DEF IInv, Types
<1> QED BY <1>1, <1>2 DEF IInv, Registered

\* Only what is not desired is cancelled at first.
LEMMA StopPreserves ==
  ASSUME IInv, StopUndesired
  PROVE  IInv'
<1> USE DEF IInv
<1> DEFINE some == {running[id] : id \in Undesired}
<1>1. /\ pc = "stop" /\ pc' = "wait" /\ loops' = Cancelled(some)
      /\ desired' = desired /\ running' = running /\ todo' = todo
      /\ stream' = stream /\ up' = up
  BY DEF StopUndesired
<1> HIDE DEF some
<1>2. /\ loops' \in [Slot -> LoopRecord]
      /\ \A k \in Slot : k \notin some => loops'[k].cancelled = loops[k].cancelled
  BY <1>1, CancelledFields
<1>3. Types'
  BY <1>1, <1>2 DEF Types
<1>4. Registered'
  BY <1>1, CancelRegistered
<1>5. ASSUME NEW id \in Id, Stopping(id)', desired[id] # None
      PROVE  FALSE
  <2>1. running[id] # None /\ running[id] \in Slot
    BY <1>1, <1>5 DEF Stopping, Types
  <2>2. running[id] \notin some
    <3>1. SUFFICES ASSUME NEW j \in Undesired, running[j] = running[id]
                   PROVE  FALSE
      BY DEF some
    <3>2. j = id
      BY <2>1, <3>1, OwnSlot DEF Undesired
    <3> QED BY <1>5, <3>2 DEF Undesired
  <2>3. Stopping(id)
    BY <1>1, <1>2, <1>5, <2>1, <2>2 DEF Stopping
  <2> QED BY <1>1, <2>3 DEF Progress
<1>6. Progress'
  BY <1>1, <1>5 DEF Progress
<1> QED BY <1>3, <1>4, <1>6

\* Once they are done, the undesired tasks are forgotten.
LEMMA AwaitPreserves ==
  ASSUME IInv, AwaitUndesired
  PROVE  IInv'
<1> USE DEF IInv
<1>1. /\ pc = "wait" /\ pc' = "start" /\ desired' = desired /\ loops' = loops
      /\ \A id \in Undesired : Done(running[id])
      /\ running' = [id \in Id |-> IF id \in Undesired THEN None ELSE running[id]]
      /\ todo' = {id \in Id : desired[id] # None}
      /\ stream' = stream /\ up' = up
  BY DEF AwaitUndesired
<1>2. Types'
  BY <1>1 DEF Types
<1>3. \A l \in Slot : loops[l].phase \in Live => running'[loops[l].task.id] = l
  <2> SUFFICES ASSUME NEW l \in Slot, loops[l].phase \in Live
               PROVE  running'[loops[l].task.id] = l
    OBVIOUS
  <2>1. loops[l].task \in Task /\ loops[l].task.id \in Id
    BY DEF Types, Registered, LoopRecord, Live, Task
  <2>2. running[loops[l].task.id] = l
    BY DEF Registered
  <2>3. ~Done(l)
    BY DoneOrLive
  <2> QED BY <1>1, <2>1, <2>2, <2>3
<1>4. Registered'
  BY <1>1, <1>3 DEF Registered
<1>5. \A id \in Id : running'[id] # None => desired[id] # None /\ running'[id] = running[id]
  BY <1>1 DEF Undesired
<1>6. \A id \in Id : ~Stopping(id)'
  BY <1>1, <1>5 DEF Progress, Stopping
<1>7. Progress'
  BY <1>1, <1>5, <1>6 DEF Progress
<1> QED BY <1>2, <1>4, <1>7

\* A task whose goroutine is gone gets a new one: nobody else's goroutine is
\* touched, and the new one has the desired generation.
LEMMA StartTaskStarts ==
  ASSUME IInv, NEW id \in Id, desired[id] # None, desired' = desired,
         running[id] # None => Done(running[id]),
         StartTask(id)
  PROVE  /\ loops' \in [Slot -> LoopRecord]
         /\ running' \in [Id -> Slot \cup {None}]
         /\ Registered'
         /\ Current(id)' /\ ~Stopping(id)'
         /\ \A j \in Id \ {id} : /\ running'[j] = running[j]
                                 /\ Current(j)' <=> Current(j)
                                 /\ Stopping(j)' <=> Stopping(j)
<1> USE DEF IInv
<1> DEFINE new == [task |-> desired[id], phase |-> "begin", cancelled |-> FALSE]
<1>1. PICK l \in Slot : /\ Done(l)
                        /\ \A other \in Id : running[other] = l => other = id
                        /\ loops' = [loops EXCEPT ![l] = new]
                        /\ running' = [running EXCEPT ![id] = l]
  BY Zenon DEF StartTask
<1>2. desired[id] \in Task /\ desired[id].id = id
  BY DEF Types
<1>3. new \in LoopRecord
  BY <1>2 DEF LoopRecord, Phase
<1>4. new.task = desired[id] /\ new.phase = "begin" /\ ~new.cancelled
  OBVIOUS
<1> HIDE DEF new
<1>5. loops' \in [Slot -> LoopRecord] /\ running' \in [Id -> Slot \cup {None}]
  BY <1>1, <1>3 DEF Types
<1>6. \A k \in Slot : loops'[k] = IF k = l THEN new ELSE loops[k]
  BY <1>1 DEF Types
<1>7. \A j \in Id : running'[j] = IF j = id THEN l ELSE running[j]
  BY <1>1 DEF Types
<1>8. \A j \in Id \ {id} : running[j] # None => running[j] \in Slot /\ running[j] # l
  BY <1>1 DEF Types
<1>9. l # None /\ new.task # None
  BY <1>2, <1>4, NoneDiffers
<1>10. Registered'
  <2>1. \A k \in Slot : loops'[k].phase # "free" => loops'[k].task # None
    BY <1>6, <1>9 DEF Registered
  <2>2. \A j \in Id : running'[j] # None => loops'[running'[j]].task # None
                                            /\ loops'[running'[j]].task.id = j
    BY <1>2, <1>4, <1>6, <1>7, <1>8, <1>9 DEF Registered
  <2>3. ASSUME NEW k \in Slot, loops'[k].phase \in Live
        PROVE  running'[loops'[k].task.id] = k
    <3>1. CASE k = l
      BY <1>2, <1>4, <1>6, <1>7, <3>1
    <3>2. CASE k # l
      <4>1. loops[k].phase \in Live /\ loops'[k] = loops[k]
        BY <1>6, <2>3, <3>2
      <4>2. loops[k].task \in Task /\ loops[k].task.id \in Id
        BY <4>1 DEF Types, Registered, LoopRecord, Live, Task
      <4>3. running[loops[k].task.id] = k /\ ~Done(k)
        BY <4>1, DoneOrLive DEF Registered
      <4>4. loops[k].task.id # id
        BY <4>3, NoneDiffers
      <4> QED BY <1>7, <4>1, <4>2, <4>3, <4>4
    <3> QED BY <3>1, <3>2
  <2> QED BY <2>1, <2>2, <2>3 DEF Registered
<1>11. Current(id)' /\ ~Stopping(id)'
  BY <1>4, <1>6, <1>7, <1>9 DEF Current, Stopping
<1>12. \A j \in Id \ {id} : /\ running'[j] = running[j]
                            /\ Current(j)' <=> Current(j)
                            /\ Stopping(j)' <=> Stopping(j)
  BY <1>6, <1>7, <1>8 DEF Current, Stopping
<1> QED BY <1>5, <1>10, <1>11, <1>12

\* The second loop starts a task, leaves one that is up to date, or cancels one
\* whose generation changed.
LEMMA ReconcileTaskPreserves ==
  ASSUME IInv, NEW id \in Id, ReconcileTask(id)
  PROVE  IInv'
<1> USE DEF IInv
<1>1. /\ pc = "start" /\ id \in todo
      /\ desired' = desired /\ stream' = stream /\ up' = up
  BY DEF ReconcileTask
<1>2. /\ desired[id] # None /\ \A j \in Id : ~Stopping(j)
      /\ \A j \in Id : running[j] # None => desired[j] # None
      /\ \A j \in Id \ todo : desired[j] # None => Current(j)
      /\ \A j \in todo : desired[j] # None
  BY <1>1 DEF Progress
<1>3. CASE running[id] = None /\ StartTask(id) /\ todo' = todo \ {id} /\ pc' = pc
  <2>1. /\ loops' \in [Slot -> LoopRecord]
        /\ running' \in [Id -> Slot \cup {None}]
        /\ Registered'
        /\ Current(id)' /\ ~Stopping(id)'
        /\ \A j \in Id \ {id} : /\ running'[j] = running[j]
                                /\ Current(j)' <=> Current(j)
                                /\ Stopping(j)' <=> Stopping(j)
    BY <1>1, <1>2, <1>3, StartTaskStarts
  <2>2. Types'
    BY <1>1, <1>3, <2>1 DEF Types
  <2>3. Progress'
    BY <1>1, <1>2, <1>3, <2>1 DEF Progress, Types
  <2> QED BY <2>1, <2>2, <2>3
<1>4. CASE /\ running[id] # None /\ loops[running[id]].task.gen = desired[id].gen
           /\ todo' = todo \ {id} /\ UNCHANGED <<pc, loops, running>>
  <2>1. Types' /\ Registered'
    BY <1>1, <1>4 DEF Types, Registered
  <2>2. \A j \in Id : (Current(j)' <=> Current(j)) /\ (Stopping(j)' <=> Stopping(j))
    BY <1>1, <1>4 DEF Current, Stopping
  <2>3. Current(id)
    BY <1>2, <1>4 DEF Current, Stopping
  <2>4. Progress'
    BY <1>1, <1>2, <1>4, <2>2, <2>3 DEF Progress, Types
  <2> QED BY <2>1, <2>4
<1>5. CASE /\ running[id] # None /\ loops' = Cancelled({running[id]})
           /\ pc' = "restart" /\ UNCHANGED <<running, todo>>
  <2>1. /\ loops' \in [Slot -> LoopRecord]
        /\ \A k \in Slot : /\ loops'[k].task = loops[k].task
                           /\ k # running[id] => loops'[k].cancelled = loops[k].cancelled
    <3>1. PICK some : some = {running[id]} /\ loops' = Cancelled(some)
      BY <1>5
    <3>2. /\ loops' \in [Slot -> LoopRecord]
          /\ \A k \in Slot : /\ loops'[k].task = loops[k].task
                             /\ k \notin some => loops'[k].cancelled = loops[k].cancelled
      BY <3>1, CancelledFields, Zenon
    <3> QED BY <3>1, <3>2, Zenon
  <2>2. Types'
    BY <1>1, <1>5, <2>1, Zenon DEF Types
  <2>3. Registered'
    BY <1>5, CancelRegistered
  <2>4. \A j \in Id \ {id} : running[j] # None => running[j] # running[id] /\ running[j] \in Slot
    BY <1>5, OwnSlot DEF Types
  <2>5. \A j \in Id \ {id} : (Current(j)' <=> Current(j)) /\ ~Stopping(j)'
    BY <1>1, <1>2, <1>5, <2>1, <2>4, Zenon DEF Current, Stopping
  <2>6. Progress'
    BY <1>1, <1>2, <1>5, <2>5 DEF Progress, Types
  <2> QED BY <2>2, <2>3, <2>6
<1> QED BY <1>3, <1>4, <1>5 DEF ReconcileTask

\* Stop has returned: the one task that was being stopped is started again.
LEMMA RestartTaskPreserves ==
  ASSUME IInv, NEW id \in Id, RestartTask(id)
  PROVE  IInv'
<1> USE DEF IInv
<1>1. /\ pc = "restart" /\ pc' = "start" /\ id \in todo /\ todo' = todo \ {id}
      /\ Done(running[id]) /\ Stopping(id) /\ StartTask(id)
      /\ desired' = desired /\ stream' = stream /\ up' = up
  BY DEF RestartTask, Stopping
<1>2. /\ desired[id] # None
      /\ \A j \in Id \ {id} : ~Stopping(j)
      /\ \A j \in Id : running[j] # None => desired[j] # None
      /\ \A j \in Id \ todo : desired[j] # None => Current(j)
      /\ \A j \in todo : desired[j] # None
  BY <1>1 DEF Progress
<1>3. /\ loops' \in [Slot -> LoopRecord]
      /\ running' \in [Id -> Slot \cup {None}]
      /\ Registered'
      /\ Current(id)' /\ ~Stopping(id)'
      /\ \A j \in Id \ {id} : /\ running'[j] = running[j]
                              /\ Current(j)' <=> Current(j)
                              /\ Stopping(j)' <=> Stopping(j)
  BY <1>1, <1>2, StartTaskStarts
<1>4. Types'
  BY <1>1, <1>3 DEF Types
<1>5. Progress'
  BY <1>1, <1>2, <1>3 DEF Progress, Types
<1> QED BY <1>3, <1>4, <1>5

-----------------------------------------------------------------------------
LEMMA InitIInv == Init => IInv
<1> SUFFICES ASSUME Init PROVE IInv
  OBVIOUS
<1>1. NoLoop \in LoopRecord /\ NoLoop.phase = "free"
  BY DEF NoLoop, LoopRecord, Phase
<1>2. Types
  BY <1>1, SupervisorAssumption DEF Init, Types, Nothing, Between
<1>3. Registered
  BY <1>1 DEF Init, Registered, Nothing, Live
<1>4. Progress
  BY DEF Init, Progress, Stopping, Nothing
<1> QED BY <1>2, <1>3, <1>4 DEF IInv

\* Whatever the agent does on its own keeps the invariant.
LEMMA AgentStepPreserves ==
  ASSUME IInv, AgentStep
  PROVE  IInv'
<1>1. CASE StopUndesired
  BY <1>1, StopPreserves
<1>2. CASE AwaitUndesired
  BY <1>2, AwaitPreserves
<1>3. CASE Reconciled
  <2> USE DEF IInv
  <2>1. /\ pc = "start" /\ todo = {} /\ pc' = "idle" /\ desired' = desired
        /\ running' = running /\ loops' = loops /\ todo' = todo /\ stream' = stream /\ up' = up
    BY <1>3 DEF Reconciled
  <2>2. Types' /\ Registered'
    BY <2>1 DEF Types, Registered, Between
  <2>3. Progress'
    BY <2>1 DEF Progress, Current, Stopping
  <2> QED BY <2>2, <2>3
<1>4. CASE \E id \in Id : ReconcileTask(id) \/ RestartTask(id)
  BY <1>4, ReconcileTaskPreserves, RestartTaskPreserves
<1>5. CASE \E l \in Slot : Loop(l)
  BY <1>5, LoopPreserves
<1>6. CASE Dispatch
  <2> USE DEF IInv
  <2>1. /\ stream # <<>> /\ stream' = Tail(stream) /\ pc' = pc /\ desired' = desired
        /\ running' = running /\ loops' = loops /\ todo' = todo /\ up' = up
    BY <1>6 DEF Dispatch, LoopOnly
  <2>2. Types'
    BY <2>1, SupervisorAssumption, SMTT(30) DEF Types
  <2>3. Registered' /\ Progress'
    BY <2>1 DEF Registered, Progress, Current, Stopping
  <2> QED BY <2>2, <2>3
<1>7. CASE Reboot
  <2>1. Init'
    BY <1>7 DEF Reboot, Init
  <2> QED BY <2>1, InitIInv, PTL
<1> QED BY <1>1, <1>2, <1>3, <1>4, <1>5, <1>6, <1>7 DEF AgentStep, Reconcile

LEMMA NextPreserves == IInv /\ [Next]_vars => IInv'
<1> SUFFICES ASSUME IInv, [Next]_vars PROVE IInv'
  OBVIOUS
<1>1. CASE \E config \in Configs : SetDesiredTasks(config)
  <2>1. PICK config \in Configs : SetDesiredTasks(config)
    BY <1>1
  <2>2. config \in SUBSET Task
    BY SupervisorAssumption
  <2> QED BY <2>1, <2>2, SetDesiredPreserves
<1>2. CASE AgentStep
  BY <1>2, AgentStepPreserves, Zenon
<1>3. CASE UNCHANGED vars
  BY <1>3 DEF vars, IInv, Types, Registered, Progress, Current, Stopping
<1> QED BY <1>1, <1>2, <1>3 DEF Next

\* Supervisor.running and the goroutines agree at every moment, and reconcile
\* is where its place in the code says it is.
THEOREM Invariance == Spec => []IInv
BY InitIInv, NextPreserves, PTL DEF Spec

\* The agent's state stays well-typed: the probe data stream never holds more
\* than its capacity, and only tasks.
THEOREM TypeCorrect == Spec => []TypeOK
<1>1. IInv => TypeOK
  BY DEF IInv, Types, TypeOK, LoopRecord, Phase
<1> QED BY <1>1, Invariance, PTL

LEMMA IInvOneLoop == IInv => OneLoopPerTask
<1> SUFFICES ASSUME IInv, NEW k \in Slot, NEW l \in Slot,
                    ~Done(k), ~Done(l), loops[k].task.id = loops[l].task.id
             PROVE  k = l
  BY DEF OneLoopPerTask
<1>1. loops[k].phase \in Live /\ loops[l].phase \in Live
  BY DoneOrLive DEF IInv
<1> QED BY <1>1 DEF IInv, Registered

\* reconcile waits for a goroutine before it forgets or replaces it, so no two
\* loops probe for one task id, for any number of tasks and generations.
THEOREM OneLoop == Spec => []OneLoopPerTask
BY IInvOneLoop, Invariance, PTL

LEMMA IInvRunsDesired == IInv => RunsWhatIsDesired
<1> SUFFICES ASSUME IInv, pc = "idle" PROVE RunsWhatIsDesired
  BY DEF RunsWhatIsDesired
<1>1. \A l \in Slot : ~Done(l) => running[loops[l].task.id] = l
  BY DoneOrLive DEF IInv, Registered
<1>2. /\ \A id \in Id : running[id] # None => desired[id] # None
      /\ \A id \in Id : desired[id] # None => Current(id)
  BY DEF IInv, Progress
<1>3. \A id \in Id : running[id] # None => loops[running[id]].task.id = id
  BY DEF IInv, Registered
<1> QED BY <1>1, <1>2, <1>3 DEF RunsWhatIsDesired, Current

\* A reconciliation that has ended leaves exactly the pulled tasks running, in
\* the pulled generation, whatever the goroutines did meanwhile.
THEOREM DesiredRuns == Spec => []RunsWhatIsDesired
BY IInvRunsDesired, Invariance, PTL

-----------------------------------------------------------------------------
(* Part 2: the rollout *)

\* One browser session has the task editor open.
OneEditor == \A d, e \in Editor : d = e

\* The rows written by SQL do not take the ids the editor makes up.
OwnIds == \A row \in HandWritten, n \in DOMAIN Candidates : row.id # Candidates[n]

Saved == table \ HandWritten

Tables ==
  /\ table \subseteq Row
  /\ generation \in Gen
  /\ form \in [Editor -> Seq(BOOLEAN)]
  /\ DOMAIN used = Editor
  /\ \A r \in Saved : \E n \in DOMAIN Candidates : r.id = Candidates[n]

\* The ids an editor has read are the ids of what is saved.
IdsRead ==
  OneEditor =>
    /\ SavedIdsDiffer
    /\ \A e \in Editor : used[e] # None => \A r \in Saved : r.id \in used[e]

\* The agent has t in its maps or in a goroutine.
Held(t) == (\E id \in Id : desired[id] = t) \/ (\E l \in Slot : loops[l].task = t)

\* What the agent has came from the table, and an answer that is under way has
\* it too, if it was saved.
FromTable ==
  /\ \A t \in Task : Held(t) => t \in Saved \cup HandWritten
  /\ reply # None =>
       /\ reply \subseteq Task
       /\ reply \subseteq Saved \cup HandWritten
       /\ \A t \in Task : Held(t) /\ t \in Saved => t \in reply

\* A goroutine that probes for a saved task runs what is desired.
StillDesired ==
  OneEditor /\ OwnIds =>
    \A l \in Slot :
      ~Done(l) /\ ~loops[l].cancelled /\ loops[l].task \in Saved
        => desired[loops[l].task.id] = loops[l].task

RolloutIInv == IInv /\ Tables /\ IdsRead /\ FromTable /\ StillDesired

-----------------------------------------------------------------------------
(* What the agent does to its goroutines *)

Kept(l) ==
  /\ loops'[l].task = loops[l].task
  /\ loops'[l].cancelled = loops[l].cancelled
  /\ Done(l) => Done(l)'

\* Cancelled, because its id is not desired or in another generation.
Cut(l) ==
  /\ loops'[l].task = loops[l].task
  /\ loops'[l].cancelled
  /\ \E id \in Id : /\ running[id] = l
                    /\ desired[id] = None \/ desired[id].gen # loops[l].task.gen

Started(l) ==
  /\ Done(l)
  /\ \E id \in Id : desired[id] # None /\ loops'[l].task = desired[id]

LEMMA StartTaskLoops ==
  ASSUME IInv, NEW id \in Id, desired[id] # None, StartTask(id)
  PROVE  \A k \in Slot : Kept(k) \/ Started(k)
<1> DEFINE new == [task |-> desired[id], phase |-> "begin", cancelled |-> FALSE]
<1>1. PICK l \in Slot : Done(l) /\ loops' = [loops EXCEPT ![l] = new]
  BY Zenon DEF StartTask
<1>2. new.task = desired[id]
  OBVIOUS
<1> HIDE DEF new
<1>3. \A k \in Slot : loops'[k] = IF k = l THEN new ELSE loops[k]
  BY <1>1 DEF IInv, Types
<1>4. Started(l)
  BY <1>1, <1>2, <1>3 DEF Started
<1>5. \A k \in Slot : k # l => Kept(k)
  BY <1>3 DEF Kept, Done
<1> QED BY <1>4, <1>5

LEMMA LoopLoops ==
  ASSUME IInv, NEW l \in Slot, Loop(l)
  PROVE  \A k \in Slot : Kept(k)
<1>1. CASE loops' = loops
  BY <1>1 DEF Kept, Done
<1>2. CASE \E p \in Phase : ~Done(l) /\ To(l, p)
  <2>1. PICK p \in Phase : ~Done(l) /\ To(l, p)
    BY <1>2
  <2>2. \A k \in Slot : /\ loops'[k].task = loops[k].task
                        /\ loops'[k].cancelled = loops[k].cancelled
                        /\ loops'[k].phase = IF k = l THEN p ELSE loops[k].phase
    BY <2>1, ToFields DEF IInv
  <2> QED BY <2>1, <2>2 DEF Kept, Done
<1>3. Begin(l) \/ Wake(l) \/ Leave(l) => <1>2!1
  BY DEF Begin, Wake, Leave, Done, Phase
<1>4. \A failed \in BOOLEAN : After(l, failed) \in Phase
  BY DEF After, Phase
<1>5. loops[l].cancelled \in BOOLEAN
  BY DEF IInv, Types, LoopRecord
<1>6. ExecuteFails(l) => <1>2!1
  BY <1>4, <1>5, Zenon DEF ExecuteFails, Done
<1>7. ExecuteSucceeds(l) => <1>1!1 \/ <1>2!1
  BY <1>4, Zenon DEF ExecuteSucceeds, Done
<1>8. Panic(l) => <1>1!1
  BY DEF Panic
<1> QED BY <1>1, <1>2, <1>3, <1>6, <1>7, <1>8 DEF Loop

LEMMA CancelledLoops ==
  ASSUME IInv, NEW some, loops' = Cancelled(some),
         \A l \in some : \E id \in Id : /\ running[id] = l
                                        /\ \/ desired[id] = None
                                           \/ desired[id].gen # loops[l].task.gen
  PROVE  \A k \in Slot : Kept(k) \/ Cut(k)
<1>1. \A k \in Slot : /\ loops'[k].task = loops[k].task
                      /\ loops'[k].phase = loops[k].phase
                      /\ k \in some => loops'[k].cancelled
                      /\ k \notin some => loops'[k].cancelled = loops[k].cancelled
  BY CancelledFields DEF IInv
<1>2. ASSUME NEW k \in Slot, k \in some
      PROVE  Cut(k)
  <2>1. loops'[k].task = loops[k].task /\ loops'[k].cancelled
    BY <1>1, <1>2
  <2>2. \E id \in Id : /\ running[id] = k
                       /\ desired[id] = None \/ desired[id].gen # loops[k].task.gen
    BY <1>2
  <2> QED BY ONLY <2>1, <2>2 DEF Cut
<1>3. ASSUME NEW k \in Slot, k \notin some
      PROVE  Kept(k)
  <2>1. /\ loops'[k].task = loops[k].task
        /\ loops'[k].phase = loops[k].phase
        /\ loops'[k].cancelled = loops[k].cancelled
    BY <1>1, <1>3
  <2> QED BY ONLY <2>1 DEF Kept, Done
<1> QED BY <1>2, <1>3

\* The agent starts over, or what is desired stays and a goroutine is kept, cut
\* for a reason, or started in a slot that was free with a desired task.
LEMMA AgentStepLoops ==
  ASSUME IInv, AgentStep
  PROVE  \/ Init'
         \/ desired' = desired /\ \A l \in Slot : Kept(l) \/ Cut(l) \/ Started(l)
<1>1. CASE StopUndesired
  <2>1. PICK some : some = {running[id] : id \in Undesired}
    BY Zenon
  <2>2. desired' = desired /\ loops' = Cancelled(some)
    BY <1>1, <2>1 DEF StopUndesired
  <2>3. \A l \in some : \E id \in Id : running[id] = l /\ desired[id] = None
    BY <2>1 DEF Undesired
  <2> QED BY <2>2, <2>3, CancelledLoops
<1>2. CASE AwaitUndesired \/ Reconciled \/ Dispatch
  BY <1>2 DEF AwaitUndesired, Reconciled, Dispatch, LoopOnly, Kept, Done
<1>3. CASE \E id \in Id : ReconcileTask(id)
  <2>1. PICK id \in Id : ReconcileTask(id)
    BY <1>3
  <2>2. desired' = desired /\ desired[id] # None
    BY <2>1 DEF ReconcileTask, IInv, Progress
  <2>3. CASE StartTask(id)
    BY <2>2, <2>3, StartTaskLoops
  <2>4. CASE loops' = loops
    BY <2>2, <2>4 DEF Kept, Done
  <2>5. CASE /\ loops' = Cancelled({running[id]})
             /\ loops[running[id]].task.gen # desired[id].gen
    <3>1. PICK some : some = {running[id]}
      BY Zenon
    <3>2. loops' = Cancelled(some)
      BY <2>5, <3>1
    <3> QED BY <2>2, <2>5, <3>1, <3>2, CancelledLoops
  <2> QED BY <2>1, <2>3, <2>4, <2>5 DEF ReconcileTask
<1>4. CASE \E id \in Id : RestartTask(id)
  <2>1. PICK id \in Id : RestartTask(id)
    BY <1>4
  <2>2. desired' = desired /\ desired[id] # None /\ StartTask(id)
    BY <2>1 DEF RestartTask, IInv, Progress
  <2> QED BY <2>2, StartTaskLoops
<1>5. CASE \E l \in Slot : Loop(l)
  <2>1. PICK l \in Slot : Loop(l)
    BY <1>5
  <2>2. desired' = desired
    BY <2>1, Zenon DEF Loop, Begin, Panic, Wake, Leave, ExecuteFails, ExecuteSucceeds, LoopOnly
  <2> QED BY <2>1, <2>2, LoopLoops
<1>6. CASE Reboot
  BY <1>6 DEF Reboot, Init
<1> QED BY <1>1, <1>2, <1>3, <1>4, <1>5, <1>6 DEF AgentStep, Reconcile

-----------------------------------------------------------------------------
(* The agent's steps *)

LEMMA Holders ==
  ASSUME IInv
  PROVE  /\ \A l \in Slot : loops[l].task # None =>
              /\ loops[l].task \in Task /\ loops[l].task.id \in Id
              /\ Held(loops[l].task)
         /\ \A id \in Id : desired[id] # None =>
              /\ desired[id] \in Task /\ desired[id].id = id
              /\ Held(desired[id])
         /\ \A l \in Slot : ~Done(l) => loops[l].task # None /\ running[loops[l].task.id] = l
<1>1. \A l \in Slot : ~Done(l) <=> loops[l].phase \in Live
  BY DoneOrLive DEF IInv
<1>2. \A l \in Slot : loops[l].task \in Task \cup {None}
  BY DEF IInv, Types, LoopRecord
<1>3. \A t \in Task : t.id \in Id
  BY DEF Task
<1>4. \A id \in Id : desired[id] # None => desired[id] \in Task /\ desired[id].id = id
  BY DEF IInv, Types
<1>5. \A l \in Slot : ~Done(l) => loops[l].task # None /\ running[loops[l].task.id] = l
  BY <1>1 DEF IInv, Registered, Live
<1> QED BY <1>2, <1>3, <1>4, <1>5 DEF Held

\* Nothing comes to the agent but by a pull.
LEMMA AgentStepHolds ==
  ASSUME IInv, AgentStep, NEW t \in Task, Held(t)'
  PROVE  Held(t)
<1>1. t # None
  BY NoneDiffers
<1>2. CASE Init'
  <2>1. \A id \in Id : desired'[id] = None
    BY <1>2 DEF Init, Nothing
  <2>2. \A l \in Slot : loops'[l].task = None
    BY <1>2 DEF Init, NoLoop
  <2> QED BY <1>1, <2>1, <2>2 DEF Held
<1>3. CASE desired' = desired /\ \A l \in Slot : Kept(l) \/ Cut(l) \/ Started(l)
  <2>1. \A l \in Slot : \/ loops'[l].task = loops[l].task
                        \/ \E id \in Id : loops'[l].task = desired[id]
    BY <1>3 DEF Kept, Cut, Started
  <2> QED BY <1>3, <2>1, Zenon DEF Held
<1> QED BY <1>2, <1>3, AgentStepLoops

\* A goroutine that runs what is desired is not cancelled.
LEMMA DesiredStays ==
  ASSUME IInv, AgentStep, NEW l \in Slot, ~Done(l), ~loops[l].cancelled,
         desired[loops[l].task.id] = loops[l].task
  PROVE  ~loops'[l].cancelled
<1>1. loops[l].task # None /\ loops[l].task.id \in Id /\ running[loops[l].task.id] = l
  BY Holders
<1>2. CASE Init'
  BY <1>2 DEF Init, NoLoop
<1>3. CASE Kept(l)
  BY <1>3 DEF Kept
<1>4. CASE Cut(l)
  <2>1. PICK id \in Id : /\ running[id] = l
                         /\ desired[id] = None \/ desired[id].gen # loops[l].task.gen
    BY <1>4 DEF Cut
  <2>2. l # None
    BY NoneDiffers
  <2>3. id = loops[l].task.id
    BY <1>1, <2>1, <2>2, OwnSlot
  <2> QED BY <1>1, <2>1, <2>3
<1>5. ~Started(l)
  BY DEF Started
<1> QED BY <1>2, <1>3, <1>4, <1>5, AgentStepLoops

LEMMA AgentOnlyPreserves ==
  ASSUME RolloutIInv, AgentOnly
  PROVE  RolloutIInv'
<1> USE DEF RolloutIInv
<1>1. /\ AgentStep /\ table' = table /\ generation' = generation /\ form' = form
      /\ used' = used /\ reply' = reply /\ Saved' = Saved
  BY DEF AgentOnly, control, editors, Saved
<1>2. IInv'
  BY <1>1, AgentStepPreserves
<1>3. Tables' /\ IdsRead'
  BY <1>1 DEF Tables, IdsRead, SavedIdsDiffer
<1>4. FromTable'
  <2>1. \A t \in Task : Held(t)' => Held(t)
    BY <1>1, AgentStepHolds
  <2> QED BY <1>1, <2>1 DEF FromTable
<1>5. StillDesired'
  <2> SUFFICES ASSUME OneEditor, OwnIds, NEW l \in Slot,
                      ~Done(l)', ~loops'[l].cancelled, loops'[l].task \in Saved
               PROVE  desired'[loops'[l].task.id] = loops'[l].task
    BY <1>1 DEF StillDesired
  <2>1. CASE Init'
    BY <2>1 DEF Init, NoLoop, Done
  <2>2. CASE desired' = desired /\ Kept(l)
    BY <2>2 DEF Kept, StillDesired
  <2>3. CASE desired' = desired /\ Started(l)
    BY <2>3, Holders DEF Started
  <2>4. ~Cut(l)
    BY DEF Cut
  <2> QED BY <1>1, <2>1, <2>2, <2>3, <2>4, AgentStepLoops, Zenon
<1> QED BY <1>2, <1>3, <1>4, <1>5

-----------------------------------------------------------------------------
(* The pull *)

\* Every saved task the agent has is in the answer, and no other task of the
\* answer has its id: what ran goes on being desired.
LEMMA ApplyConfigPreserves ==
  ASSUME RolloutIInv, ApplyConfig
  PROVE  RolloutIInv'
<1> USE DEF RolloutIInv
<1>1. /\ reply # None /\ reply' = None /\ SetDesiredTasks(reply)
      /\ table' = table /\ generation' = generation /\ form' = form /\ used' = used
      /\ Saved' = Saved
  BY DEF ApplyConfig, editors, Saved
<1>2. reply \subseteq Task /\ reply \subseteq Saved \cup HandWritten
  BY <1>1 DEF FromTable
<1>3. IInv'
  BY <1>1, <1>2, SetDesiredPreserves
<1>4. Tables' /\ IdsRead'
  BY <1>1 DEF Tables, IdsRead, SavedIdsDiffer
<1>5. /\ loops' = loops
      /\ desired' \in [Id -> reply \cup {None}]
      /\ \A id \in Id : (\E t \in reply : t.id = id) => desired'[id] # None /\ desired'[id].id = id
  BY <1>1 DEF SetDesiredTasks
<1>6. FromTable'
  <2> SUFFICES ASSUME NEW t \in Task, Held(t)'
               PROVE  t \in Saved \cup HandWritten
    BY <1>1 DEF FromTable
  <2>1. CASE \E id \in Id : desired'[id] = t
    BY <1>2, <1>5, <2>1, NoneDiffers
  <2>2. CASE \E l \in Slot : loops[l].task = t
    BY <2>2 DEF FromTable, Held
  <2> QED BY <1>5, <2>1, <2>2 DEF Held
<1>7. StillDesired'
  <2> SUFFICES ASSUME OneEditor, OwnIds, NEW l \in Slot, NEW t,
                      ~Done(l), t = loops[l].task, t \in Saved
               PROVE  desired'[t.id] = t
    BY <1>1, <1>5 DEF StillDesired, Done
  <2>1. t \in Task /\ t.id \in Id /\ Held(t)
    BY Holders
  <2>2. t \in reply
    BY <1>1, <2>1 DEF FromTable
  <2>3. desired'[t.id] \in reply /\ desired'[t.id].id = t.id
    BY <1>5, <2>1, <2>2, Zenon
  <2>4. desired'[t.id] \notin HandWritten
    BY <2>3 DEF Tables, OwnIds
  <2>5. desired'[t.id] \in Saved
    BY <1>2, <2>3, <2>4
  <2> QED BY <2>3, <2>5 DEF IdsRead, SavedIdsDiffer, Saved
<1> QED BY <1>3, <1>4, <1>6, <1>7

\* Where the agent, the rows and the editors' ids stay, the answer may be taken
\* from the table or dropped.
LEMMA ReplyPreserves ==
  ASSUME RolloutIInv, UNCHANGED <<vars, table, generation, editors>>,
         reply' \in {None, reply} \/ (reply' = table /\ \A row \in table : Decodes(row))
  PROVE  RolloutIInv'
<1> USE DEF RolloutIInv
<1>1. /\ desired' = desired /\ running' = running /\ loops' = loops /\ pc' = pc
      /\ todo' = todo /\ stream' = stream /\ up' = up
      /\ table' = table /\ generation' = generation /\ form' = form /\ used' = used
      /\ Saved' = Saved
  BY Zenon DEF vars, editors, Saved
<1>2. IInv'
  BY <1>1 DEF IInv, Types, Registered, Progress, Current, Stopping
<1>3. Tables' /\ IdsRead' /\ StillDesired'
  BY <1>1, ZenonT(60) DEF Tables, IdsRead, SavedIdsDiffer, StillDesired, Done
<1>4. \A t \in Task : Held(t)' <=> Held(t)
  BY <1>1 DEF Held
<1>5. CASE reply' \in {None, reply}
  BY <1>1, <1>2, <1>3, <1>4, <1>5 DEF FromTable
<1>6. CASE reply' = table /\ \A row \in table : Decodes(row)
  <2>1. table \subseteq Task
    BY <1>6 DEF Tables, Row, Decodes
  <2>2. table \subseteq Saved \cup HandWritten /\ Saved \subseteq table
    BY DEF Saved
  <2> QED BY <1>1, <1>2, <1>3, <1>4, <1>6, <2>1, <2>2 DEF FromTable
<1> QED BY <1>5, <1>6

\* A pull that fails leaves the tasks as they are.
LEMMA PullFailsPreserves ==
  ASSUME RolloutIInv, PullFails
  PROVE  RolloutIInv'
<1> USE DEF RolloutIInv
<1>1. /\ desired' = desired /\ running' = running /\ loops' = loops /\ pc' = pc
      /\ todo' = todo /\ stream' = stream /\ up' \in BOOLEAN /\ reply' = None
      /\ table' = table /\ generation' = generation /\ form' = form /\ used' = used
      /\ Saved' = Saved
  BY Zenon DEF PullFails, editors, Saved
<1>2. IInv'
  BY <1>1 DEF IInv, Types, Registered, Progress, Current, Stopping
<1>3. Tables' /\ IdsRead' /\ StillDesired'
  BY <1>1, ZenonT(60) DEF Tables, IdsRead, SavedIdsDiffer, StillDesired, Done
<1>4. FromTable'
  BY <1>1 DEF FromTable, Held
<1> QED BY <1>2, <1>3, <1>4

-----------------------------------------------------------------------------
(* The rows and the editors *)

LEMMA EmptyForm == <<>> \in Seq(BOOLEAN)
<1>1. \A S : <<>> \in Seq(S)
  OBVIOUS
<1> QED BY <1>1, Zenon

\* The agent does not see a change of the table: if the saved rows stay or get
\* more, what it has is still theirs.
LEMMA AgentUnaware ==
  ASSUME RolloutIInv, UNCHANGED <<vars, reply>>, Saved \subseteq Saved',
         Saved' \cap HandWritten = {}
  PROVE  IInv' /\ FromTable' /\ StillDesired'
<1> USE DEF RolloutIInv
<1>1. /\ desired' = desired /\ running' = running /\ loops' = loops /\ pc' = pc
      /\ todo' = todo /\ stream' = stream /\ up' = up /\ reply' = reply
  BY Zenon DEF vars
<1>2. IInv'
  BY <1>1, Zenon DEF IInv, Types, Registered, Progress, Current, Stopping
<1>3. \A t \in Task : Held(t)' <=> Held(t)
  BY <1>1 DEF Held
<1>4. \A t \in Task : Held(t) /\ t \in Saved' => t \in Saved
  BY DEF FromTable
<1>5. FromTable'
  BY <1>1, <1>3, <1>4 DEF FromTable
<1>6. StillDesired'
  <2> SUFFICES ASSUME OneEditor, OwnIds, NEW l \in Slot,
                      ~Done(l), ~loops[l].cancelled, loops[l].task \in Saved'
               PROVE  desired[loops[l].task.id] = loops[l].task
    BY <1>1 DEF StillDesired, Done
  <2>1. loops[l].task \in Task /\ Held(loops[l].task)
    BY Holders
  <2> QED BY <1>4, <2>1 DEF StillDesired
<1> QED BY <1>2, <1>5, <1>6

LEMMA RowPreserves ==
  ASSUME RolloutIInv, NEW row \in HandWritten, WriteRow(row) \/ DeleteRow(row)
  PROVE  RolloutIInv'
<1> USE DEF RolloutIInv
<1>1. /\ UNCHANGED <<vars, reply>> /\ generation' = generation
      /\ form' = form /\ used' = used
      /\ table' = table \cup {row} \/ table' = table \ {row}
  BY DEF WriteRow, DeleteRow, editors
<1>2. Saved' = Saved
  BY <1>1 DEF Saved
<1>3. table' \subseteq Row
  BY <1>1, RolloutAssumption DEF Tables
<1>4. IInv' /\ FromTable' /\ StillDesired'
  BY <1>1, <1>2, AgentUnaware DEF Saved
<1>5. Tables'
  BY <1>1, <1>2, <1>3 DEF Tables
<1>6. IdsRead'
  BY <1>1, <1>2 DEF IdsRead, SavedIdsDiffer, Saved
<1> QED BY <1>4, <1>5, <1>6

\* Editing the rows of a form changes nothing else.
LEMMA EditPreserves ==
  ASSUME RolloutIInv, NEW e \in Editor, NEW rows \in Seq(BOOLEAN), Edit(e, rows)
  PROVE  RolloutIInv'
<1> USE DEF RolloutIInv
<1>1. /\ UNCHANGED <<vars, reply>> /\ table' = table /\ generation' = generation
      /\ form' = [form EXCEPT ![e] = rows] /\ used' = used
      /\ Saved' = Saved
  BY DEF Edit, Saved
<1>2. IInv' /\ FromTable' /\ StillDesired'
  BY <1>1, AgentUnaware, Zenon DEF Saved
<1>3. Tables' /\ IdsRead'
  BY <1>1 DEF Tables, IdsRead, SavedIdsDiffer
<1> QED BY <1>2, <1>3

LEMMA FormPreserves ==
  ASSUME RolloutIInv, NEW e \in Editor,
         AddTaskRow(e) \/ RemoveTaskRow(e) \/ TaskFormChange(e)
  PROVE  RolloutIInv'
<1>1. form[e] \in Seq(BOOLEAN)
  BY DEF RolloutIInv, Tables
<1>2. CASE AddTaskRow(e)
  <2>1. PICK valid \in BOOLEAN : Edit(e, Append(form[e], valid))
    BY <1>2 DEF AddTaskRow
  <2>2. Append(form[e], valid) \in Seq(BOOLEAN)
    BY <1>1
  <2> QED BY <2>1, <2>2, EditPreserves, Zenon
<1>3. CASE RemoveTaskRow(e)
  <2>1. PICK n \in DOMAIN form[e] : Edit(e, ElementsAt(form[e], DOMAIN form[e] \ {n}))
    BY <1>3 DEF RemoveTaskRow
  <2>2. PICK places : places = DOMAIN form[e] \ {n}
    BY Zenon
  <2>3. ElementsAt(form[e], places) \in Seq(BOOLEAN)
    BY <1>1, ElementsAtElements
  <2> QED BY <2>1, <2>2, <2>3, EditPreserves
<1>4. CASE TaskFormChange(e)
  <2>1. PICK n \in DOMAIN form[e], valid \in BOOLEAN : Edit(e, [form[e] EXCEPT ![n] = valid])
    BY <1>4 DEF TaskFormChange
  <2>2. [form[e] EXCEPT ![n] = valid] \in Seq(BOOLEAN)
    BY <1>1
  <2> QED BY <2>1, <2>2, EditPreserves
<1> QED BY <1>2, <1>3, <1>4

\* build_tasks reads the ids of all rows.
LEMMA BuildTasksPreserves ==
  ASSUME RolloutIInv, NEW e \in Editor, BuildTasks(e)
  PROVE  RolloutIInv'
<1> USE DEF RolloutIInv
<1>1. /\ UNCHANGED <<vars, reply>> /\ table' = table /\ generation' = generation
      /\ form' = form /\ used' = [used EXCEPT ![e] = {t.id : t \in table}]
      /\ Saved' = Saved
  BY DEF BuildTasks, Saved
<1>2. IInv' /\ FromTable' /\ StillDesired'
  BY <1>1, AgentUnaware DEF Saved
<1>3. Tables'
  BY <1>1 DEF Tables
<1>4. \A d \in Editor : used'[d] = IF d = e THEN {t.id : t \in table} ELSE used[d]
  BY <1>1 DEF Tables
<1>5. \A r \in Saved : r.id \in {t.id : t \in table}
  BY DEF Saved
<1>6. IdsRead'
  BY <1>1, <1>4, <1>5 DEF IdsRead, SavedIdsDiffer
<1> QED BY <1>2, <1>3, <1>6

\* The ids of a batch are candidates that were not in use.
LEMMA UniqueIdsUnused ==
  ASSUME NEW ids, NEW n \in Nat, n <= Len(Unused(ids)), NEW id \in UniqueIds(ids, n)
  PROVE  id \in Id /\ id \notin ids /\ \E m \in DOMAIN Candidates : id = Candidates[m]
<1>1. Candidates \in Seq(Id)
  BY RolloutAssumption
<1>2. PICK some : some = Unused(ids)
  OBVIOUS
<1>3. /\ some \in Seq(Id)
      /\ \A k \in DOMAIN some :
           \E m \in DOMAIN Candidates : Candidates[m] \notin ids /\ Candidates[m] = some[k]
  BY <1>1, <1>2, WithoutElements DEF Unused
<1>4. PICK k \in 1..n : id = some[k]
  BY <1>2 DEF UniqueIds
<1>5. k \in DOMAIN some
  BY <1>2, <1>3
<1> QED BY <1>1, <1>3, <1>4, <1>5

\* The rows of a batch have ids of their own, and with one editor none that is
\* saved already, for its ids are among those that were read.
LEMMA AddTasksPreserves ==
  ASSUME RolloutIInv, NEW e \in Editor, NEW saved \in BOOLEAN, AddTasks(e, saved)
  PROVE  RolloutIInv'
<1> USE DEF RolloutIInv
<1>1. /\ used[e] # None /\ UNCHANGED <<vars, reply>>
      /\ used' = [used EXCEPT ![e] = None]
      /\ form' = [form EXCEPT ![e] = IF saved THEN <<>> ELSE form[e]]
  BY DEF AddTasks
<1>2. form' \in [Editor -> Seq(BOOLEAN)] /\ DOMAIN used' = Editor
  <2>1. PICK rows : rows = IF saved THEN <<>> ELSE form[e]
    OBVIOUS
  <2>2. form[e] \in Seq(BOOLEAN)
    BY DEF Tables
  <2>3. rows \in Seq(BOOLEAN)
    BY <2>1, <2>2, EmptyForm, Zenon
  <2> QED BY <1>1, <2>1, <2>3 DEF Tables
<1>3. OneEditor => \A d \in Editor : used'[d] = None
  BY <1>1 DEF OneEditor, Tables
<1>4. CASE table' = table /\ generation' = generation
  <2>1. Saved' = Saved
    BY <1>4 DEF Saved
  <2>2. IInv' /\ FromTable' /\ StillDesired'
    BY <1>1, <2>1, AgentUnaware DEF Saved
  <2>3. Tables' /\ IdsRead'
    BY <1>2, <1>3, <1>4, <2>1 DEF Tables, IdsRead, SavedIdsDiffer
  <2> QED BY <2>2, <2>3
<1>5. CASE Inserted(e)
  <2>1. PICK new : new = UniqueIds(used[e], Len(form[e]))
    OBVIOUS
  <2>2. \A id \in new : /\ id \in Id /\ id \notin used[e]
                        /\ \E m \in DOMAIN Candidates : id = Candidates[m]
    <3>1. PICK ids, n : ids = used[e] /\ n = Len(form[e])
      BY Zenon
    <3>2. n \in Nat
      BY <3>1 DEF Tables
    <3> QED BY <1>5, <2>1, <3>1, <3>2, UniqueIdsUnused DEF Inserted
  <2>3. PICK gen : gen = generation'
    OBVIOUS
  <2>4. PICK rows : rows = {[id |-> id, gen |-> gen, kind |-> "interval"] : id \in new}
    BY Zenon
  <2>5. table' = table \cup rows
    BY <1>5, <2>1, <2>3, <2>4 DEF Inserted
  <2>6. gen \in Gen
    BY <1>5, <2>3, RolloutAssumption DEF Inserted, Tables
  <2>7. \A r \in rows : r \in Task /\ r.id \in new
    BY <2>2, <2>4, <2>6, SMTT(30) DEF Task
  <2>8. \A r, t \in rows : r.id = t.id => r = t
    BY <2>4
  <2>9. Saved' = Saved \cup (rows \ HandWritten)
    BY <2>5 DEF Saved
  <2>10. IInv' /\ FromTable' /\ StillDesired'
    BY <1>1, <2>9, AgentUnaware, Zenon DEF Saved
  <2>11. Tables'
    BY <1>2, <2>2, <2>3, <2>5, <2>6, <2>7, <2>9, Zenon DEF Tables, Row
  <2>12. ASSUME OneEditor
         PROVE  SavedIdsDiffer'
    <3>1. \A r \in Saved : r.id \in used[e]
      BY <1>1, <2>12 DEF IdsRead
    <3>2. \A r \in Saved, t \in rows : r.id # t.id
      BY <2>2, <2>7, <3>1
    <3>3. \A r, t \in Saved : r.id = t.id => r = t
      BY <2>12 DEF IdsRead, SavedIdsDiffer, Saved
    <3>4. \A r, t \in Saved' : r.id = t.id => r = t
      BY <2>8, <2>9, <3>2, <3>3
    <3> QED BY <3>4 DEF SavedIdsDiffer, Saved
  <2>13. IdsRead'
    BY <1>3, <2>12 DEF IdsRead
  <2> QED BY <2>10, <2>11, <2>13
<1> QED BY <1>4, <1>5 DEF AddTasks

-----------------------------------------------------------------------------
LEMMA InitRolloutIInv == RolloutInit => RolloutIInv
<1> SUFFICES ASSUME RolloutInit PROVE RolloutIInv
  OBVIOUS
<1>1. /\ table = {} /\ generation = 1 /\ reply = None /\ Init
      /\ form = [e \in Editor |-> <<>>] /\ used = [e \in Editor |-> None]
  BY DEF RolloutInit
<1>2. IInv
  BY <1>1, InitIInv
<1>3. Saved = {}
  BY <1>1 DEF Saved
<1>4. PICK empty : empty = <<>> /\ empty \in Seq(BOOLEAN)
  BY EmptyForm, Zenon
<1>5. form \in [Editor -> Seq(BOOLEAN)]
  BY <1>1, <1>4
<1>6. Tables
  BY <1>1, <1>3, <1>5, RolloutAssumption DEF Tables
<1>7. IdsRead
  BY <1>1, <1>3 DEF IdsRead, SavedIdsDiffer
<1>8. \A id \in Id : desired[id] = None
  BY <1>1 DEF Init, Nothing
<1>9. \A l \in Slot : loops[l].task = None /\ Done(l)
  BY <1>1 DEF Init, NoLoop, Done
<1>10. \A t \in Task : ~Held(t)
  BY <1>8, <1>9, NoneDiffers, Zenon DEF Held
<1>11. FromTable /\ StillDesired
  BY <1>1, <1>9, <1>10 DEF FromTable, StillDesired
<1> QED BY <1>2, <1>6, <1>7, <1>11 DEF RolloutIInv

LEMMA RolloutNextPreserves == RolloutIInv /\ [RolloutNext]_allVars => RolloutIInv'
<1> SUFFICES ASSUME RolloutIInv, [RolloutNext]_allVars PROVE RolloutIInv'
  OBVIOUS
<1>1. ASSUME NEW e \in Editor, AddTaskRow(e) \/ RemoveTaskRow(e) \/ TaskFormChange(e)
      PROVE  RolloutIInv'
  BY <1>1, FormPreserves
<1>2. ASSUME NEW e \in Editor, BuildTasks(e) PROVE RolloutIInv'
  BY <1>2, BuildTasksPreserves
<1>3. ASSUME NEW e \in Editor, NEW saved \in BOOLEAN, AddTasks(e, saved) PROVE RolloutIInv'
  BY <1>3, AddTasksPreserves
<1>4. ASSUME NEW row \in HandWritten, WriteRow(row) \/ DeleteRow(row) PROVE RolloutIInv'
  BY <1>4, RowPreserves
<1>5. CASE GetAgentConfig \/ DropReply
  BY <1>5, ReplyPreserves, Zenon DEF GetAgentConfig, DropReply
<1>6. CASE PullFails
  BY <1>6, PullFailsPreserves
<1>7. CASE ApplyConfig
  BY <1>7, ApplyConfigPreserves
<1>8. CASE AgentOnly
  BY <1>8, AgentOnlyPreserves
<1>9. CASE UNCHANGED allVars
  BY <1>9, ReplyPreserves DEF allVars, control
<1> QED BY <1>1, <1>2, <1>3, <1>4, <1>5, <1>6, <1>7, <1>8, <1>9 DEF RolloutNext

\* A task's way from the editor to its goroutine keeps the table, the answer to
\* the pull, the desired tasks and the goroutines consistent.
THEOREM RolloutInvariance == RolloutSpec => []RolloutIInv
BY InitRolloutIInv, RolloutNextPreserves, PTL DEF RolloutSpec

\* ensure_unique does what its name says while one editor is open: no two saved
\* rows share a task id, however many batches are saved, retried after an answer
\* was lost or mixed with rows written by hand.
THEOREM IdsDiffer ==
  ASSUME OneEditor
  PROVE  RolloutSpec => []SavedIdsDiffer
<1>1. RolloutIInv => SavedIdsDiffer
  BY DEF RolloutIInv, IdsRead
<1> QED BY <1>1, RolloutInvariance, PTL

\* reconcile leaves the loop of a saved task alone, whatever else is saved,
\* written by hand, pulled or lost, as long as one editor is open and the rows
\* written by hand keep to ids of their own.
THEOREM SavedGoOn ==
  ASSUME OneEditor, OwnIds
  PROVE  RolloutSpec => OthersUndisturbed
<1> DEFINE Undisturbed ==
      \A l \in Slot :
        /\ ~Done(l) /\ ~loops[l].cancelled
        /\ loops[l].task \in table \ HandWritten
        => ~loops'[l].cancelled
<1>1. RolloutIInv /\ [RolloutNext]_allVars => [Undisturbed]_allVars
  <2> SUFFICES ASSUME RolloutIInv, RolloutNext, NEW l \in Slot,
                      ~Done(l), ~loops[l].cancelled, loops[l].task \in Saved
               PROVE  ~loops'[l].cancelled
    BY DEF Saved
  <2>1. CASE AgentOnly
    <3>1. desired[loops[l].task.id] = loops[l].task
      BY DEF RolloutIInv, StillDesired
    <3> QED BY <2>1, <3>1, DesiredStays DEF AgentOnly, RolloutIInv
  <2>2. CASE loops' = loops
    BY <2>2
  <2>3. RolloutNext => AgentOnly \/ loops' = loops
    BY Zenon DEF RolloutNext, AddTaskRow, RemoveTaskRow, TaskFormChange, Edit, BuildTasks, AddTasks,
           WriteRow, DeleteRow, GetAgentConfig, PullFails, ApplyConfig, SetDesiredTasks,
           DropReply, vars
  <2> QED BY <2>1, <2>2, <2>3
<1>2. RolloutSpec => [][Undisturbed]_allVars
  BY <1>1, RolloutInvariance, PTL DEF RolloutSpec
<1> QED BY <1>2 DEF OthersUndisturbed

=============================================================================

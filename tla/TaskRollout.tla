---------------------------- MODULE TaskRollout ----------------------------
(***************************************************************************)
(* How a task gets from the dashboard to a running probe: the task editor  *)
(* of device_live.ex and Dashboard.add_tasks write agent_task rows, others *)
(* are written by hand (as db/init/04-seed.sql is); the control plane      *)
(* turns the rows into the answer to the agent's pull, the agent turns the *)
(* answer into tasks and reconciles (module Supervisor).                   *)
(***************************************************************************)
EXTENDS Supervisor, Subsequences

CONSTANTS Editor,       \* browser sessions with the task editor open
          RowCap,       \* bound on the rows of an editor
          HandWritten,  \* rows written and deleted by SQL
          Candidates    \* base, base-2, ...: the ids ensure_unique tries, in order

\* A row is a task, unless its type is unknown or its params do not fit it.
Row == Task \cup [id : Id, gen : Gen, kind : {"undecodable"}]
Decodes(row) == row.kind # "undecodable"

\* Generations are bounded: the editors add one batch fewer.
MaxGen == Cardinality(Gen)

ASSUME RolloutAssumption ==
  /\ MaxGen \in Nat \ {0} /\ Gen = 1..MaxGen
  /\ HandWritten \subseteq Row
  /\ RowCap \in Nat
  /\ Candidates \in Seq(Id)

VARIABLES table,       \* agent_task, the rows of one config
          generation,  \* agent_config.generation
          form,        \* per editor, its rows for one target: do they validate?
          used,        \* per editor, the task ids build_tasks has read
          reply        \* the answer to the pull under way

editors == <<form, used>>
control == <<table, generation, editors, reply>>
allVars == <<vars, control>>

RolloutInit ==
  /\ Init
  /\ table = {}
  /\ generation = 1
  /\ form = [e \in Editor |-> <<>>]
  /\ used = [e \in Editor |-> None]
  /\ reply = None

-----------------------------------------------------------------------------
(* The task editor: one process per session, which handles event after event *)

Edit(e, rows) ==
  /\ used[e] = None
  /\ form' = [form EXCEPT ![e] = rows]
  /\ UNCHANGED <<vars, table, generation, used, reply>>

\* A recommended row comes with its target, another without.
AddTaskRow(e) ==
  /\ Len(form[e]) < RowCap
  /\ \E valid \in BOOLEAN : Edit(e, Append(form[e], valid))

RemoveTaskRow(e) ==
  \E n \in DOMAIN form[e] : Edit(e, ElementsAt(form[e], DOMAIN form[e] \ {n}))

TaskFormChange(e) ==
  \E n \in DOMAIN form[e], valid \in BOOLEAN : Edit(e, [form[e] EXCEPT ![n] = valid])

\* build_tasks reads the ids in use, outside the transaction of add_tasks; no
\* rows or one that does not validate and nothing is saved.
BuildTasks(e) ==
  /\ used[e] = None
  /\ form[e] # <<>> /\ \A n \in DOMAIN form[e] : form[e][n]
  /\ used' = [used EXCEPT ![e] = {t.id : t \in table}]
  /\ UNCHANGED <<vars, table, generation, form, reply>>

Unused(ids) == Without(Candidates, ids)

\* Mutant of UniqueIds: the first n candidates, in use or not.
UniqueIdsNot(ids, n) == {Candidates[k] : k \in 1..n}

\* The first n candidates that are not in use: ensure_unique, row after row.
UniqueIds(ids, n) == {Unused(ids)[k] : k \in 1..n}

\* One transaction bumps the generation and inserts the rows.
Inserted(e) ==
  /\ generation < MaxGen
  /\ Len(form[e]) <= Len(Unused(used[e]))
  /\ generation' = generation + 1
  /\ table' = table \cup {[id |-> id, gen |-> generation', kind |-> "interval"] :
                            id \in UniqueIds(used[e], Len(form[e]))}

\* add_tasks; saved, the form is emptied.  After an error the rows stay in it,
\* even if the transaction was committed and only its answer was lost.
AddTasks(e, saved) ==
  /\ used[e] # None
  /\ \/ Inserted(e)
     \/ ~saved /\ UNCHANGED <<table, generation>>
  /\ form' = [form EXCEPT ![e] = IF saved THEN <<>> ELSE @]
  /\ used' = [used EXCEPT ![e] = None]
  /\ UNCHANGED <<vars, reply>>

-----------------------------------------------------------------------------
(* The rows and the pull *)

WriteRow(row) ==
  /\ row \notin table
  /\ table' = table \cup {row}
  /\ UNCHANGED <<vars, generation, editors, reply>>

DeleteRow(row) ==
  /\ row \in table
  /\ table' = table \ {row}
  /\ UNCHANGED <<vars, generation, editors, reply>>

Pulling == up /\ pc \in Between

\* The control plane answers the agent's request from one SELECT, with all the
\* rows, enabled or not.
GetAgentConfig ==
  /\ Pulling /\ reply = None
  /\ \A row \in table : Decodes(row)
  /\ reply' = table
  /\ UNCHANGED <<vars, table, generation, editors>>

\* Mutant of PullFails: the configuration that was not filled in is applied.
PullFailsEmpty ==
  /\ Pulling /\ reply = None
  /\ SetDesiredTasks({})
  /\ UNCHANGED control

\* The control plane cannot be reached, or it or the agent meets a row that
\* does not decode, which fails the whole configuration.  The agent goes on
\* with what it has; on its first pull, Run returns and the process ends.
PullFails ==
  /\ Pulling
  /\ reply' = None
  /\ up' = (pc # "boot")
  /\ UNCHANGED <<desired, running, loops, pc, todo, stream, table, generation, editors>>

\* Mutant of ApplyConfig: pullAgentConfiguration remembers the generation, and
\* its guard drops every later configuration.
ApplyConfigFirst ==
  /\ reply # None
  /\ running = Nothing
  /\ SetDesiredTasks(reply)
  /\ reply' = None
  /\ UNCHANGED <<table, generation, editors>>

\* The answer arrives; the SELECT has no ORDER BY.
ApplyConfig ==
  /\ reply # None
  /\ SetDesiredTasks(reply)
  /\ reply' = None
  /\ UNCHANGED <<table, generation, editors>>

\* The agent that asked has died.
DropReply ==
  /\ reply # None /\ ~up
  /\ reply' = None
  /\ UNCHANGED <<vars, table, generation, editors>>

AgentOnly == AgentStep /\ UNCHANGED control

RolloutNext ==
  \/ \E e \in Editor :
       \/ AddTaskRow(e) \/ RemoveTaskRow(e) \/ TaskFormChange(e)
       \/ BuildTasks(e) \/ \E saved \in BOOLEAN : AddTasks(e, saved)
  \/ \E row \in HandWritten : WriteRow(row) \/ DeleteRow(row)
  \/ GetAgentConfig \/ PullFails \/ ApplyConfig \/ DropReply
  \/ AgentOnly

RolloutSpec == RolloutInit /\ [][RolloutNext]_allVars

\* The agent keeps pulling, and a pull does not fail for ever.
RolloutFairness ==
  /\ WF_allVars(GetAgentConfig) /\ SF_allVars(ApplyConfig) /\ WF_allVars(DropReply)
  /\ WF_allVars(Reconcile /\ UNCHANGED control)
  /\ WF_allVars(Dispatch /\ UNCHANGED control) /\ WF_allVars(Reboot /\ UNCHANGED control)
  /\ \A l \in Slot :
       /\ WF_allVars((Begin(l) \/ Panic(l)) /\ UNCHANGED control)
       /\ SF_allVars(Leave(l) /\ UNCHANGED control)
       /\ WF_allVars(/\ loops[l].cancelled
                     /\ ExecuteFails(l) \/ ExecuteSucceeds(l)
                     /\ UNCHANGED control)

FairRollout == RolloutSpec /\ RolloutFairness

-----------------------------------------------------------------------------
(* Properties *)

\* No two saved rows share a task id, by which the agent keeps its tasks: the
\* ids a batch is given were read before its transaction, and the rows of a
\* save whose answer was lost are saved again.
SavedIdsDiffer ==
  \A r, t \in table \ HandWritten : r.id = t.id => r = t

\* The tasks the editors saved get their goroutines on the agent.
TasksRun ==
  \A n \in DOMAIN Candidates, gen \in Gen \ {1} :
    LET t == [id |-> Candidates[n], gen |-> gen, kind |-> "interval"]
    IN  t \in table ~> \E l \in Slot : ~Done(l) /\ loops[l].task = t

\* add_tasks "inserts new agent tasks for a config and bumps the config
\* generation (so the agent reconciles on its next pull)": every task that was
\* saved runs, once the agent stops panicking and the rows that fail the whole
\* configuration are gone, whatever became of it until then.
SavedTasksRun ==
  <>[](up /\ \A row \in table : Decodes(row)) => TasksRun

\* What one row that does not decode takes away: no task saved after it runs.
SavedTasksRunAnyway == <>[]up => TasksRun

\* Adding tasks leaves the others alone, and so does a pull that fails or a row
\* that does not decode: reconcile does not stop the loop of a task that was
\* saved and is still in the table, in the same generation.
OthersUndisturbed ==
  [][\A l \in Slot :
       /\ ~Done(l) /\ ~loops[l].cancelled
       /\ loops[l].task \in table \ HandWritten
       => ~loops'[l].cancelled]_allVars

=============================================================================

---------------------------- MODULE OperatorConsole ----------------------------
(***************************************************************************)
(* What operators change from the dashboard: the strategy catalogue         *)
(* (domain/services/strategy_management.py) and the operator workflow       *)
(* (domain/services/operator_workflow.py, operator_session.py), on request  *)
(* threads of the API process; and `traderos pilot dry-run` (interfaces/cli *)
(* /main.py), another process that walks the same stored workflow.          *)
(*                                                                          *)
(* Abstractions.  The workflow's steps are numbered in their order: START   *)
(* is 1, SESSION_REPORT is Last, 0 is "not started".  Of the transitions    *)
(* the steps that occur are kept.  Whether the check of a step passes is a  *)
(* choice.  A strategy row is its status, as nothing else of it changes; a  *)
(* clone is a create.  The session id is left out.  All repositories of the *)
(* process share one SQLite connection whose lock is held for a statement   *)
(* at a time, so that they share one transaction as well.                   *)
(***************************************************************************)
EXTENDS Naturals

CONSTANTS
  Requests,     \* request threads of the API process
  Strategies,   \* names
  Seeded,       \* the built-in templates
  Asked,        \* what the dashboard asks of the catalogue: a subset of Ops
  Last,         \* number of steps of the workflow; 0 leaves it out
  Promotion,    \* the step STRATEGY_PROMOTION
  Pilot,        \* the thread of `pilot dry-run`
  NoName        \* "no strategy"

Ops == {"create", "enable", "disable", "promote", "archive"}

ASSUME ConsoleAssumption ==
  /\ Asked \subseteq Ops
  /\ Last \in Nat /\ Promotion \in Nat
  /\ Seeded \subseteq Strategies /\ NoName \notin Strategies
  /\ Pilot \notin Requests

VARIABLES
  status,       \* the strategies table; absent: no row
  workflow,     \* OperatorWorkflow, in the memory of each process
  table,        \* the workflow tables, as the API's connection has them
  dirty,        \* that connection has a transaction open
  stored,       \* the workflow tables, as committed
  at,           \* where each thread is in its request
  job,          \* what the request is
  overlapped,   \* history: two changes of the catalogue were under way at once
  raced,        \* history: and both were promotions
  piloted,      \* history: the pilot has saved since the API process started
  collided,     \* history: a step was set while another was being saved, since then
  unsaved,      \* history: the API's last save of the workflow failed, since then
  torn          \* history: a commit came in the middle of somebody else's save, or a
                \* save broke off in its middle

catalogue == <<status, overlapped, raced>>
tables == <<table, dirty, stored, torn>>
flow == <<workflow, tables, piloted, collided, unsaved>>
threads == <<at, job>>
vars == <<catalogue, flow, threads>>

Threads == Requests \cup {Pilot}
Process(t) == IF t = Pilot THEN "cli" ELSE "api"
Statuses == {"absent", "draft", "active", "promoted", "disabled", "retired"}
Workflows == [step : 0..Last, completed : BOOLEAN, passed : SUBSET (1..Last)]
NotStarted == [step |-> 0, completed |-> FALSE, passed |-> {}]
Row(w) == [step |-> w.step, completed |-> w.completed]
Jobs == [op : Ops \cup {"none"}, name : Strategies \cup {NoName}, todo : SUBSET Strategies,
         step : 0..Last, row : [step : 0..Last, completed : BOOLEAN]]
Places == {"idle", "loop", "list", "demote", "write", "advance", "set", "save", "upsert", "delete",
           "insert", "commit"}
NoJob == [op |-> "none", name |-> NoName, todo |-> {}, step |-> 0, row |-> Row(NotStarted)]

TypeOK ==
  /\ status \in [Strategies -> Statuses]
  /\ workflow \in [{"api", "cli"} -> Workflows]
  /\ table \in Workflows /\ stored \in Workflows /\ dirty \in BOOLEAN
  /\ at \in [Threads -> Places]
  /\ job \in [Threads -> Jobs]
  /\ {overlapped, raced, piloted, collided, unsaved, torn} \subseteq BOOLEAN

(* build_orchestrator: ensure_seeded, and the workflow that was stored.     *)
Init ==
  /\ status = [s \in Strategies |-> IF s \in Seeded THEN "active" ELSE "absent"]
  /\ workflow = [p \in {"api", "cli"} |-> NotStarted]
  /\ table = NotStarted /\ stored = NotStarted /\ dirty = FALSE
  /\ at = [t \in Threads |-> "idle"] /\ job = [t \in Threads |-> NoJob]
  /\ overlapped = FALSE /\ raced = FALSE /\ piloted = FALSE /\ collided = FALSE
  /\ unsaved = FALSE /\ torn = FALSE

-----------------------------------------------------------------------------
(* Strategy catalogue.                                                      *)

(* The statuses in which an operation goes on to write; the status it       *)
(* writes is Target.                                                        *)
Admits(op) ==
  CASE op = "create"  -> {"absent"}
    [] op = "enable"  -> {"draft", "disabled"}
    [] op = "disable" -> {"draft", "active", "promoted"}
    [] op = "promote" -> {"active"}
    [] op = "archive" -> {"draft", "active", "disabled", "retired"}

Target(op) ==
  CASE op = "create"  -> "draft"
    [] op = "enable"  -> "active"
    [] op = "disable" -> "disabled"
    [] op = "promote" -> "promoted"
    [] op = "archive" -> "retired"

Changing == {t \in Threads : at[t] \in {"list", "demote", "write"}}

(* The row is read, and the request ends here or goes on to change it.      *)
BeginChange(t, o, s, k) ==
  /\ status[s] \in Admits(o)
  /\ at' = [at EXCEPT ![t] = IF o = "promote" THEN "list" ELSE "write"]
  /\ job' = [job EXCEPT ![t] = [NoJob EXCEPT !.op = o, !.name = s, !.step = k]]
  /\ overlapped' = (overlapped \/ Changing # {})
  /\ raced' = (raced \/ (o = "promote" /\ \E u \in Changing : job[u].op = "promote"))
  /\ UNCHANGED <<status, flow>>

Change(t, o, s) ==
  /\ at[t] = "idle"
  /\ BeginChange(t, o, s, 0)

(* Mutant: nothing is taken back.                                           *)
ListNothing(t) ==
  /\ at[t] = "list"
  /\ at' = [at EXCEPT ![t] = "demote"]
  /\ UNCHANGED <<catalogue, flow, job>>

(* promote: the table is read once for the strategies to take back.         *)
ListPromoted(t) ==
  /\ at[t] = "list"
  /\ at' = [at EXCEPT ![t] = "demote"]
  /\ job' = [job EXCEPT ![t].todo = {s \in Strategies \ {job[t].name} : status[s] = "promoted"}]
  /\ UNCHANGED <<catalogue, flow>>

Demote(t, s) ==
  /\ at[t] = "demote"
  /\ s \in job[t].todo
  /\ status' = [status EXCEPT ![s] = "active"]
  /\ job' = [job EXCEPT ![t].todo = @ \ {s}]
  /\ UNCHANGED <<overlapped, raced, flow, at>>

(* A request ends; a step of the workflow goes on to advance().             *)
Finish(t, k) ==
  /\ at' = [at EXCEPT ![t] = IF k > 0 THEN "advance" ELSE "idle"]
  /\ job' = [job EXCEPT ![t] = [NoJob EXCEPT !.step = k]]

(* The row is written, whatever it is by now.                               *)
Write(t) ==
  /\ at[t] = "write" \/ (at[t] = "demote" /\ job[t].todo = {})
  /\ job[t].op = "create" => status[job[t].name] = "absent"
  /\ status' = [status EXCEPT ![job[t].name] = Target(job[t].op)]
  /\ Finish(t, job[t].step)
  /\ UNCHANGED <<overlapped, raced, flow>>

(* A statement raises: a second request creates the name and meets the      *)
(* unique index, or the database is locked.  What was taken back stays so.  *)
ChangeFails(t) ==
  /\ at[t] \in {"demote", "write"}
  /\ Finish(t, 0)
  /\ UNCHANGED <<catalogue, flow>>

-----------------------------------------------------------------------------
(* Operator workflow.                                                       *)

(* perform(k): the check of the step comes first, whatever step the         *)
(* workflow is at.  A check that fails, or a promotion that is refused,     *)
(* ends the request and changes nothing.                                    *)
Gate(t, k) ==
  /\ at' = [at EXCEPT ![t] = "advance"]
  /\ job' = [job EXCEPT ![t] = [NoJob EXCEPT !.step = k]]
  /\ UNCHANGED <<catalogue, flow>>

Perform(t, k) ==
  /\ t \in Requests
  /\ at[t] = "idle"
  /\ \/ k # Promotion /\ Gate(t, k)
     \/ k = Promotion /\ \E s \in Strategies : BeginChange(t, "promote", s, k)

(* Mutant: any later step.                                                  *)
CanAdvanceFurther(w, k) == ~w.completed /\ k > w.step

(* can_advance_to: the next step, or the current one again.                 *)
CanAdvance(w, k) ==
  /\ ~w.completed
  /\ \/ k = w.step + 1
     \/ k = w.step /\ k \notin {1, Last}

(* advance() looks at the workflow ...                                      *)
Advance(t) ==
  /\ at[t] = "advance"
  /\ CanAdvance(workflow[Process(t)], job[t].step)
  /\ at' = [at EXCEPT ![t] = "set"]
  /\ UNCHANGED <<catalogue, flow, job>>

(* ... and raises WorkflowError, which ends the request or the pilot, ...   *)
OutOfOrder(t) ==
  /\ at[t] = "advance"
  /\ ~CanAdvance(workflow[Process(t)], job[t].step)
  /\ Finish(t, 0)
  /\ UNCHANGED <<catalogue, flow>>

(* ... or appends the transition and moves on.                              *)
Advanced(w, k) ==
  [step |-> k, completed |-> (w.completed \/ k = Last), passed |-> w.passed \cup {k}]

Saving == {t \in Requests : at[t] \in {"save", "upsert", "delete", "insert", "commit"}}

SetStep(t) ==
  /\ at[t] = "set"
  /\ workflow' = [workflow EXCEPT ![Process(t)] = Advanced(workflow[Process(t)], job[t].step)]
  /\ at' = [at EXCEPT ![t] = "save"]
  /\ collided' = (collided \/ (t # Pilot /\ Saving # {}))
  /\ UNCHANGED <<catalogue, tables, piloted, unsaved, job>>

(* save(): the values of the row are read, ...                              *)
ReadRow(t) ==
  /\ at[t] = "save"
  /\ job' = [job EXCEPT ![t].row = Row(workflow["api"])]
  /\ at' = [at EXCEPT ![t] = "upsert"]
  /\ UNCHANGED <<catalogue, flow>>

(* ... the row is written, the transitions are deleted, and those that the  *)
(* process has by now are inserted, ...                                     *)
Upsert(t) ==
  /\ at[t] = "upsert"
  /\ table' = [step |-> job[t].row.step, completed |-> job[t].row.completed, passed |-> table.passed]
  /\ dirty' = TRUE
  /\ at' = [at EXCEPT ![t] = "delete"]
  /\ UNCHANGED <<catalogue, workflow, stored, torn, piloted, collided, unsaved, job>>

DeleteTransitions(t) ==
  /\ at[t] = "delete"
  /\ table' = [table EXCEPT !.passed = {}]
  /\ dirty' = TRUE
  /\ at' = [at EXCEPT ![t] = "insert"]
  /\ UNCHANGED <<catalogue, workflow, stored, torn, piloted, collided, unsaved, job>>

InsertTransitions(t) ==
  /\ at[t] = "insert"
  /\ table' = [table EXCEPT !.passed = @ \cup workflow["api"].passed]
  /\ dirty' = TRUE
  /\ at' = [at EXCEPT ![t] = "commit"]
  /\ UNCHANGED <<catalogue, workflow, stored, torn, piloted, collided, unsaved, job>>

MidSave == {t \in Requests : at[t] \in {"delete", "insert"}}

(* A commit takes along whatever statements others have executed.           *)
CommitTables ==
  /\ stored' = table
  /\ dirty' = FALSE
  /\ torn' = (torn \/ MidSave # {})
  /\ UNCHANGED <<catalogue, workflow, table, piloted, collided>>

(* Mutant: the save is not committed.                                       *)
CommitNothing(t) ==
  /\ at[t] = "commit"
  /\ at' = [at EXCEPT ![t] = "idle"]
  /\ job' = [job EXCEPT ![t] = NoJob]
  /\ UNCHANGED <<catalogue, flow>>

(* ... and committed.                                                       *)
Commit(t) ==
  /\ at[t] = "commit"
  /\ CommitTables
  /\ unsaved' = FALSE
  /\ at' = [at EXCEPT ![t] = "idle"]
  /\ job' = [job EXCEPT ![t] = NoJob]

(* A statement of the save raises ('database is locked' is the likely one): *)
(* the request ends, memory keeps the step, and nothing rolls back.         *)
SaveFails(t) ==
  /\ at[t] \in {"upsert", "delete", "insert", "commit"}
  /\ unsaved' = TRUE
  /\ torn' = (torn \/ at[t] \in {"delete", "insert"})
  /\ at' = [at EXCEPT ![t] = "idle"]
  /\ job' = [job EXCEPT ![t] = NoJob]
  /\ UNCHANGED <<catalogue, workflow, table, dirty, stored, piloted, collided>>

(* Another repository of the process commits on the same connection.        *)
OtherCommit ==
  /\ dirty
  /\ CommitTables
  /\ UNCHANGED <<unsaved, threads>>

-----------------------------------------------------------------------------
(* pilot dry-run: the stored workflow is loaded and walked to its end; the  *)
(* promotion is advanced over without its check.                            *)

Launch ==
  /\ at[Pilot] = "idle"
  /\ workflow' = [workflow EXCEPT !["cli"] = stored]
  /\ at' = [at EXCEPT ![Pilot] = "loop"]
  /\ UNCHANGED <<catalogue, tables, piloted, collided, unsaved, job>>

(* Mutant: it does not see the end.                                         *)
PilotStepOn ==
  /\ at[Pilot] = "loop"
  /\ workflow["cli"].step <= Last
  /\ Gate(Pilot, workflow["cli"].step + 1)

PilotStep ==
  /\ at[Pilot] = "loop"
  /\ workflow["cli"].step < Last
  /\ Gate(Pilot, workflow["cli"].step + 1)

(* It has its own connection, and waits for the other's transaction.        *)
PilotSave ==
  /\ at[Pilot] = "save"
  /\ ~dirty
  /\ table' = workflow["cli"] /\ stored' = workflow["cli"]
  /\ piloted' = TRUE
  /\ at' = [at EXCEPT ![Pilot] = "loop"]
  /\ job' = [job EXCEPT ![Pilot] = NoJob]
  /\ UNCHANGED <<catalogue, workflow, dirty, torn, collided, unsaved>>

(* It is through, a check failed, the database was locked for too long, or  *)
(* it was interrupted.                                                      *)
PilotEnds ==
  /\ at[Pilot] # "idle"
  /\ at' = [at EXCEPT ![Pilot] = "idle"]
  /\ job' = [job EXCEPT ![Pilot] = NoJob]
  /\ UNCHANGED <<catalogue, flow>>

(* The API process dies and comes back with what is committed.              *)
Restart ==
  /\ at' = [t \in Threads |-> IF t = Pilot THEN at[t] ELSE "idle"]
  /\ job' = [t \in Threads |-> IF t = Pilot THEN job[t] ELSE NoJob]
  /\ workflow' = [workflow EXCEPT !["api"] = stored]
  /\ table' = stored /\ dirty' = FALSE
  /\ piloted' = FALSE /\ collided' = FALSE /\ unsaved' = FALSE
  /\ UNCHANGED <<catalogue, stored, torn>>

Next ==
  \/ \E t \in Requests, o \in Asked, s \in Strategies : Change(t, o, s)
  \/ \E t \in Requests, k \in 1..Last : Perform(t, k)
  \/ \E t \in Requests : ListPromoted(t) \/ Write(t) \/ ChangeFails(t)
  \/ \E t \in Requests, s \in Strategies : Demote(t, s)
  \/ \E t \in Threads : Advance(t) \/ OutOfOrder(t) \/ SetStep(t)
  \/ \E t \in Requests : ReadRow(t) \/ Upsert(t) \/ DeleteTransitions(t) \/ InsertTransitions(t)
       \/ Commit(t) \/ SaveFails(t)
  \/ OtherCommit
  \/ Launch \/ PilotStep \/ PilotSave \/ PilotEnds
  \/ Restart

Spec == Init /\ [][Next]_vars

-----------------------------------------------------------------------------
(* "Exactly one strategy is PROMOTED at a time" (strategy_management.py,    *)
(* promote): never two, whatever else goes on in the catalogue and wherever *)
(* the process dies, unless two promotions overlapped.                      *)
OnePromoted ==
  ~raced => \A s, u \in Strategies : status[s] = "promoted" /\ status[u] = "promoted" => s = u

(* Without overlapping requests a strategy keeps to its life cycle: a       *)
(* retired one stays retired, only an active one is promoted, the promoted  *)
(* one is not archived (strategy_management.py).                            *)
LifecycleKept ==
  [][~overlapped => \A s \in Strategies :
       /\ status[s] = "retired" => status'[s] = "retired"
       /\ status'[s] = "promoted" => status[s] \in {"active", "promoted"}
       /\ status[s] = "promoted" => status'[s] \in {"promoted", "active", "disabled"}]_vars

(* No step of the workflow is skipped: where the workflow is at a step, in  *)
(* memory or stored, all the earlier ones are among its transitions, also   *)
(* when requests overlap, when a save fails, when a process is restarted    *)
(* and when the pilot saves in between; unless a commit tore a save, or it  *)
(* broke off between its statements (operator_workflow.py, advance; sqlite  *)
(* /workflows.py, save).                                                    *)
NoStepSkipped ==
  ~torn => \A w \in {workflow["api"], workflow["cli"], stored} : 1..w.step \subseteq w.passed

(* What an operator has been told is stored: when no request of the         *)
(* workflow is under way the tables have what the API process has, unless   *)
(* the pilot wrote over them, saves overlapped, or the last save failed,    *)
(* which leaves memory ahead until another goes through                     *)
(* (operator_session.py, perform).                                          *)
StoredWhenQuiet ==
  (\A t \in Requests : job[t].step = 0) /\ ~piloted /\ ~collided /\ ~unsaved
    => stored = workflow["api"]

=============================================================================

------------------------- MODULE OperatorConsoleProofs -------------------------
(***************************************************************************)
(* Proofs about OperatorConsole for any number of request threads and       *)
(* strategies and any length of the workflow.  The catalogue's argument is  *)
(* about what a request has read: as long as nobody else was changing the   *)
(* catalogue (or promoting), it is still so when the request writes.  The   *)
(* workflow's argument is that transitions are only added: whoever is about *)
(* to set a step has seen the one before it, and the values of a row, read  *)
(* earlier, are behind the transitions that are inserted after it.          *)
(*                                                                          *)
(* And about Supervision, for any number of daemons and launches, and about *)
(* Paging, for any probes and transports.                                   *)
(***************************************************************************)
EXTENDS MCOperatorConsole, MCPaging, TLAPS

(* A thread in the catalogue has an operation, and promotions go their way. *)
JobsMatch ==
  \A t \in Threads :
    /\ at[t] \in {"list", "demote", "write"} => t \in Requests /\ job[t].name \in Strategies
    /\ at[t] \in {"list", "demote"} => job[t].op = "promote"
    /\ at[t] = "write" => job[t].op \in Ops \ {"promote"}
    /\ at[t] \in {"advance", "set", "save"} => job[t].step > 0
    /\ at[t] \in {"upsert", "delete", "insert", "commit"} => t \in Requests

Promoting == {t \in Threads : at[t] \in {"list", "demote"}}

(* Who has listed the promoted strategies still has them all to take back.  *)
PromotionInv ==
  ~raced =>
    /\ \A t, u \in Promoting : t = u
    /\ \A t \in Threads, s \in Strategies :
         at[t] = "demote" /\ s # job[t].name /\ status[s] = "promoted" => s \in job[t].todo

(* What an undisturbed request has read is still so.                        *)
ReadIsTrue ==
  ~overlapped =>
    /\ \A t, u \in Changing : t = u
    /\ \A t \in Changing : status[job[t].name] \in Admits(job[t].op)
    /\ \A t \in Changing : \A s \in job[t].todo : s # job[t].name /\ status[s] = "promoted"

(* The step that is about to be set comes after steps that have been set.   *)
DueIsNext ==
  ~torn => \A t \in Threads : at[t] = "set" => 1..(job[t].step - 1) \subseteq workflow[Process(t)].passed

(* Rows in hand are behind the process's transitions; so is the row of the  *)
(* table until the transitions are inserted.  Otherwise the table has them. *)
RowsBehind ==
  ~torn =>
    /\ \A t \in Threads : at[t] = "upsert" => 1..job[t].row.step \subseteq workflow["api"].passed
    /\ IF MidSave = {} THEN 1..table.step \subseteq table.passed
                       ELSE dirty /\ 1..table.step \subseteq workflow["api"].passed

CatalogueInv == JobsMatch /\ OnePromoted /\ PromotionInv /\ ReadIsTrue
FlowInv == NoStepSkipped /\ DueIsNext /\ RowsBehind
Inv == TypeOK /\ CatalogueInv /\ FlowInv

(* Where a thread is that has nothing to do with the catalogue.             *)
Outside == {"idle", "loop", "advance", "set", "save", "upsert", "delete", "insert", "commit"}

-----------------------------------------------------------------------------
(* Where no thread enters or leaves the catalogue and no row changes, what  *)
(* the catalogue's part of the invariant says stays as it is.               *)
LEMMA CatalogueStays ==
  ASSUME CatalogueInv, UNCHANGED catalogue, NEW gone \in SUBSET Threads,
         \A t \in Threads \ gone : at'[t] = at[t] /\ job'[t] = job[t],
         \A t \in gone : /\ at'[t] \in Outside
                         /\ at'[t] \in {"advance", "set", "save"} => job'[t].step > 0
                         /\ at'[t] \in {"upsert", "delete", "insert", "commit"} => t \in Requests
  PROVE  CatalogueInv'
<1> USE DEF catalogue, CatalogueInv, Outside
<1>1. Promoting' \subseteq Promoting /\ Changing' \subseteq Changing
  BY DEF Promoting, Changing
<1>2. \A t \in Changing' : t \notin gone /\ at'[t] = at[t] /\ job'[t] = job[t]
  BY DEF Changing
<1>3. JobsMatch'
  BY DEF JobsMatch
<1>4. OnePromoted' /\ PromotionInv'
  BY <1>1 DEF OnePromoted, PromotionInv
<1>5. ReadIsTrue'
  BY <1>1, <1>2 DEF ReadIsTrue
<1> QED BY <1>3, <1>4, <1>5

LEMMA OneLeaves ==
  ASSUME CatalogueInv, UNCHANGED catalogue, NEW t \in Threads,
         \A u \in Threads : u # t => at'[u] = at[u] /\ job'[u] = job[u],
         at'[t] \in Outside,
         at'[t] \in {"advance", "set", "save"} => job'[t].step > 0,
         at'[t] \in {"upsert", "delete", "insert", "commit"} => t \in Requests
  PROVE  CatalogueInv'
<1>1. {t} \in SUBSET Threads
  OBVIOUS
<1>2. \A u \in Threads \ {t} : at'[u] = at[u] /\ job'[u] = job[u]
  OBVIOUS
<1>3. \A u \in {t} : /\ at'[u] \in Outside
                     /\ at'[u] \in {"advance", "set", "save"} => job'[u].step > 0
                     /\ at'[u] \in {"upsert", "delete", "insert", "commit"} => u \in Requests
  OBVIOUS
<1> QED BY <1>1, <1>2, <1>3, CatalogueStays

(* Where a thread is not concerned with setting and saving a step, what the *)
(* workflow's part says stays as it is.                                     *)
LEMMA FlowStays ==
  ASSUME FlowInv, UNCHANGED flow, NEW t \in Threads,
         \A u \in Threads : u # t => at'[u] = at[u] /\ job'[u] = job[u],
         at[t] \notin {"delete", "insert"},
         at'[t] \notin {"set", "upsert", "delete", "insert"}
  PROVE  FlowInv'
<1> USE DEF flow, tables, FlowInv
<1>1. MidSave' = MidSave
  BY DEF MidSave, Threads
<1>2. NoStepSkipped' /\ DueIsNext'
  BY DEF NoStepSkipped, DueIsNext
<1>3. RowsBehind'
  BY <1>1 DEF RowsBehind
<1> QED BY <1>2, <1>3

LEMMA JobTypes ==
  ASSUME NEW k \in 0..Last
  PROVE  NoJob \in Jobs /\ [NoJob EXCEPT !.step = k] \in Jobs /\ [NoJob EXCEPT !.step = k].step = k
<1> DEFINE r == Row(NotStarted)
<1>1. r \in [step : 0..Last, completed : BOOLEAN]
  BY ConsoleAssumption DEF Row, NotStarted
<1>2. NoJob = [op |-> "none", name |-> NoName, todo |-> {}, step |-> 0, row |-> r]
  BY DEF NoJob
<1> HIDE DEF r
<1> QED BY <1>1, <1>2, ConsoleAssumption DEF Jobs

LEMMA BeginTypes ==
  ASSUME NEW k \in 0..Last, NEW o \in Ops, NEW s \in Strategies, NEW j,
         j = [NoJob EXCEPT !.op = o, !.name = s, !.step = k]
  PROVE  j \in Jobs /\ j.op = o /\ j.name = s /\ j.todo = {}
<1> DEFINE r == Row(NotStarted)
<1>1. r \in [step : 0..Last, completed : BOOLEAN]
  BY ConsoleAssumption DEF Row, NotStarted
<1>2. NoJob = [op |-> "none", name |-> NoName, todo |-> {}, step |-> 0, row |-> r]
  BY DEF NoJob
<1>3. j = [op |-> o, name |-> s, todo |-> {}, step |-> k, row |-> r]
  BY <1>2
<1> HIDE DEF r
<1>4. j.op = o /\ j.name = s /\ j.todo = {}
  BY DEF NoJob
<1>5. [op |-> o, name |-> s, todo |-> {}, step |-> k, row |-> r] \in Jobs
  BY <1>1 DEF Jobs
<1> QED BY <1>3, <1>4, <1>5

LEMMA InitInv == Init => Inv
<1> SUFFICES ASSUME Init
             PROVE  Inv
  OBVIOUS
<1> USE ConsoleAssumption DEF Init, Places
<1>1. TypeOK
  <2>1. NotStarted \in Workflows /\ NoJob \in Jobs
    BY DEF Workflows, NotStarted, Jobs, NoJob, Row
  <2> QED BY <2>1 DEF TypeOK, Statuses
<1>2. JobsMatch /\ DueIsNext
  BY DEF JobsMatch, DueIsNext
<1>3. OnePromoted /\ PromotionInv /\ ReadIsTrue
  BY DEF OnePromoted, PromotionInv, ReadIsTrue, Promoting, Changing
<1>4. NoStepSkipped /\ RowsBehind
  <2>1. MidSave = {}
    BY DEF MidSave, Threads
  <2>2. 1..NotStarted.step \subseteq NotStarted.passed
    BY DEF NotStarted
  <2> QED BY <2>1, <2>2 DEF NoStepSkipped, RowsBehind
<1> QED BY <1>1, <1>2, <1>3, <1>4 DEF Inv, CatalogueInv, FlowInv

-----------------------------------------------------------------------------
(* Catalogue (enable, disable, promote, archive, create).                   *)

LEMMA BeginChangeInv ==
  ASSUME Inv, NEW t \in Requests, NEW o \in Ops, NEW s \in Strategies, NEW k \in 0..Last,
         at[t] = "idle", BeginChange(t, o, s, k)
  PROVE  Inv'
<1> USE ConsoleAssumption DEF Inv, Places, CatalogueInv, BeginChange
<1>1. t \in Threads /\ t \notin Changing /\ t \notin Promoting
  BY DEF Threads, Changing, Promoting
<1> DEFINE j == [NoJob EXCEPT !.op = o, !.name = s, !.step = k]
<1>0. j \in Jobs /\ j.op = o /\ j.name = s /\ j.todo = {}
  BY BeginTypes
<1>9. job' = [job EXCEPT ![t] = j]
  OBVIOUS
<1> HIDE DEF j
<1>2. /\ \A u \in Threads : u # t => at'[u] = at[u] /\ job'[u] = job[u]
      /\ at'[t] = (IF o = "promote" THEN "list" ELSE "write")
      /\ job'[t].op = o /\ job'[t].name = s /\ job'[t].todo = {}
  BY <1>0, <1>1, <1>9 DEF TypeOK
<1>3. TypeOK'
  <2>1. at' \in [Threads -> Places]
        /\ job' \in [Threads -> Jobs]
    BY <1>0, <1>1, <1>9 DEF TypeOK, Places
  <2> QED BY <2>1 DEF TypeOK, flow, tables
<1>4. JobsMatch' /\ FlowInv'
  BY <1>1, <1>2, FlowStays DEF JobsMatch, Ops
<1>5. OnePromoted'
  BY DEF OnePromoted, TypeOK
<1>6. PromotionInv'
  <2> SUFFICES ASSUME ~raced'
               PROVE  /\ \A u, v \in Promoting' : u = v
                      /\ \A u \in Threads, r \in Strategies :
                           at'[u] = "demote" /\ r # job'[u].name /\ status'[r] = "promoted"
                             => r \in job'[u].todo
    BY DEF PromotionInv
  <2>1. ~raced
    BY DEF TypeOK
  <2>2. o = "promote" => Promoting = {}
    BY DEF Promoting, Changing, JobsMatch
  <2>3. \A u \in Promoting' : u \in Promoting \/ (u = t /\ o = "promote")
    BY <1>2 DEF Promoting
  <2> QED BY <1>2, <2>1, <2>2, <2>3 DEF PromotionInv
<1>7. ReadIsTrue'
  <2> SUFFICES ASSUME ~overlapped'
               PROVE  ReadIsTrue'
    BY DEF ReadIsTrue
  <2>1. Changing = {}
    BY DEF TypeOK
  <2>2. Changing' \subseteq {t}
    BY <1>2, <2>1 DEF Changing
  <2> QED BY <1>2, <2>2 DEF ReadIsTrue
<1> QED BY <1>3, <1>4, <1>5, <1>6, <1>7

LEMMA ListPromotedInv ==
  ASSUME Inv, NEW t \in Requests, ListPromoted(t)
  PROVE  Inv'
<1> USE DEF Inv, Places, CatalogueInv, ListPromoted, catalogue
<1>1. /\ t \in Threads /\ job[t].op = "promote" /\ t \in Changing /\ t \in Promoting
      /\ at'[t] = "demote"
      /\ job'[t] = [job[t] EXCEPT !.todo = {s \in Strategies \ {job[t].name} : status[s] = "promoted"}]
      /\ \A u \in Threads : u # t => at'[u] = at[u] /\ job'[u] = job[u]
  BY DEF Threads, TypeOK, JobsMatch, Changing, Promoting
<1>2. /\ job'[t].op = job[t].op /\ job'[t].name = job[t].name /\ job'[t].step = job[t].step
      /\ job'[t].todo = {s \in Strategies \ {job[t].name} : status[s] = "promoted"}
  BY <1>1 DEF TypeOK, Jobs, flow, tables
<1>3. TypeOK'
  <2> DEFINE S == {s \in Strategies \ {job[t].name} : status[s] = "promoted"}
  <2>1. S \in SUBSET Strategies /\ job[t] \in Jobs /\ TypeOK
    BY <1>1 DEF TypeOK
  <2>2. job' = [job EXCEPT ![t].todo = S] /\ at' \in [Threads -> Places]
    BY <1>1 DEF TypeOK
  <2>3. UNCHANGED <<catalogue, flow>>
    OBVIOUS
  <2> HIDE DEF S, ListPromoted, Inv, Places
  <2>4. [job[t] EXCEPT !.todo = S] \in Jobs
    BY <2>1 DEF Jobs
  <2>5. job' \in [Threads -> Jobs]
    BY <1>1, <2>1, <2>2, <2>4 DEF TypeOK
  <2> QED BY <2>1, <2>2, <2>3, <2>5 DEF TypeOK, flow, tables
<1>4. JobsMatch' /\ FlowInv'
  BY <1>1, <1>2, FlowStays DEF JobsMatch, catalogue, NoJob
<1>5. Changing' = Changing /\ Promoting' = Promoting
  BY <1>1 DEF Changing, Promoting
<1>6. OnePromoted' /\ PromotionInv'
  BY <1>1, <1>2, <1>5 DEF OnePromoted, PromotionInv
<1>7. ReadIsTrue'
  BY <1>1, <1>2, <1>5 DEF ReadIsTrue
<1> QED BY <1>3, <1>4, <1>6, <1>7

(* A promoted strategy is taken back to active.                             *)
LEMMA DemoteInv ==
  ASSUME Inv, NEW t \in Requests, NEW s \in Strategies, Demote(t, s)
  PROVE  Inv'
<1> USE DEF Inv, Places, CatalogueInv, Demote
<1>1. /\ t \in Threads /\ t \in Changing /\ t \in Promoting
      /\ at' = at
      /\ job'[t] = [job[t] EXCEPT !.todo = job[t].todo \ {s}]
      /\ \A u \in Threads : u # t => job'[u] = job[u]
  BY DEF Threads, TypeOK, JobsMatch, Changing, Promoting
<1>2. /\ job'[t].op = job[t].op /\ job'[t].name = job[t].name /\ job'[t].step = job[t].step
      /\ job'[t].todo = job[t].todo \ {s}
  BY <1>1 DEF TypeOK, Jobs, flow, tables
<1>3. /\ status'[s] = "active"
      /\ \A r \in Strategies : r # s => status'[r] = status[r]
  BY DEF TypeOK
<1>4. TypeOK'
  BY <1>1 DEF TypeOK, Jobs, Statuses, flow, tables
<1>5. JobsMatch' /\ FlowInv'
  BY <1>1, <1>2, FlowStays DEF JobsMatch, catalogue, NoJob
<1>6. Changing' = Changing /\ Promoting' = Promoting
  BY <1>1 DEF Changing, Promoting
<1>7. OnePromoted'
  BY <1>3 DEF OnePromoted
<1>8. PromotionInv'
  BY <1>1, <1>2, <1>3, <1>6 DEF PromotionInv
<1>9. ReadIsTrue'
  BY <1>1, <1>2, <1>3, <1>6 DEF ReadIsTrue
<1> QED BY <1>4, <1>5, <1>7, <1>8, <1>9

LEMMA WriteInv ==
  ASSUME Inv, NEW t \in Requests, Write(t)
  PROVE  Inv'
<1> USE ConsoleAssumption DEF Inv, Places, CatalogueInv, Write, Finish
<1> DEFINE n == job[t].name
           o == job[t].op
<1>1. /\ t \in Threads /\ t \in Changing /\ n \in Strategies /\ o \in Ops
      /\ (o = "promote" <=> at[t] = "demote")
      /\ job[t].step \in 0..Last
  BY DEF Threads, TypeOK, JobsMatch, Changing, Jobs, Ops
<1>2. /\ at'[t] = (IF job[t].step > 0 THEN "advance" ELSE "idle")
      /\ job'[t] = [NoJob EXCEPT !.step = job[t].step]
      /\ \A u \in Threads : u # t => at'[u] = at[u] /\ job'[u] = job[u]
  BY <1>1 DEF TypeOK
<1>3. /\ Target(o) \in Statuses /\ (Target(o) = "promoted" <=> o = "promote")
  BY <1>1 DEF Target, Statuses, Ops
<1>4. /\ status'[n] = Target(o)
      /\ \A r \in Strategies : r # n => status'[r] = status[r]
  BY <1>1 DEF TypeOK
<1>5. TypeOK'
  <2>1. /\ at' \in [Threads -> Places]
        /\ job' \in [Threads -> Jobs]
        /\ status' \in [Strategies -> Statuses]
    BY <1>1, <1>3, JobTypes DEF TypeOK
  <2> QED BY <2>1 DEF TypeOK, flow, tables
<1>6. JobsMatch' /\ FlowInv'
  BY <1>1, <1>2, FlowStays DEF JobsMatch, catalogue, NoJob
<1>7. Changing' \subseteq Changing \ {t} /\ Promoting' \subseteq Promoting \ {t}
  BY <1>2 DEF Changing, Promoting
<1>8. OnePromoted'
  <2> SUFFICES ASSUME ~raced, NEW r \in Strategies, NEW q \in Strategies,
                      status'[r] = "promoted", status'[q] = "promoted"
               PROVE  r = q
    BY DEF OnePromoted
  <2>1. CASE o = "promote"
    <3>1. \A x \in Strategies : x # n => status[x] # "promoted"
      BY <2>1, <1>1 DEF PromotionInv
    <3> QED BY <3>1, <1>4
  <2>2. CASE o # "promote"
    BY <2>2, <1>3, <1>4 DEF OnePromoted
  <2> QED BY <2>1, <2>2
<1>9. PromotionInv'
  <2> SUFFICES ASSUME ~raced
               PROVE  /\ \A u, v \in Promoting' : u = v
                      /\ \A u \in Threads, r \in Strategies :
                           at'[u] = "demote" /\ r # job'[u].name /\ status'[r] = "promoted"
                             => r \in job'[u].todo
    BY DEF PromotionInv
  <2>1. \A u, v \in Promoting' : u = v
    BY <1>7 DEF PromotionInv
  <2>2. ASSUME NEW u \in Threads, NEW r \in Strategies,
               at'[u] = "demote", r # job'[u].name, status'[r] = "promoted"
        PROVE  r \in job'[u].todo
    <3>1. u # t /\ at[u] = "demote" /\ job'[u] = job[u] /\ u \in Promoting
      BY <2>2, <1>2 DEF Promoting
    <3>2. o # "promote"
      BY <3>1, <1>1 DEF PromotionInv, Promoting
    <3> QED BY <2>2, <3>1, <3>2, <1>3, <1>4 DEF PromotionInv
  <2> QED BY <2>1, <2>2
<1>10. ReadIsTrue'
  BY <1>1, <1>7 DEF ReadIsTrue
<1> QED BY <1>5, <1>6, <1>8, <1>9, <1>10

-----------------------------------------------------------------------------
(* Workflow and pilot.                                                      *)

LEMMA GateInv ==
  ASSUME Inv, NEW t \in Threads, NEW k \in 1..Last, at[t] \in {"idle", "loop"}, Gate(t, k)
  PROVE  Inv'
<1> USE ConsoleAssumption DEF Inv, Places, Gate
<1>1. /\ at'[t] = "advance" /\ job'[t] = [NoJob EXCEPT !.step = k]
      /\ \A u \in Threads : u # t => at'[u] = at[u] /\ job'[u] = job[u]
  BY DEF TypeOK
<1>2. TypeOK'
  <2>0. [NoJob EXCEPT !.step = k] \in Jobs
    BY JobTypes
  <2>1. job' \in [Threads -> Jobs] /\ at' \in [Threads -> Places]
    BY <2>0 DEF TypeOK, Places
  <2> QED BY <2>1 DEF TypeOK, catalogue, flow, tables
<1>3. CatalogueInv'
  BY <1>1, OneLeaves DEF NoJob, Outside
<1>4. FlowInv'
  BY <1>1, FlowStays
<1> QED BY <1>2, <1>3, <1>4

LEMMA AdvanceInv ==
  ASSUME Inv, NEW t \in Threads, Advance(t) \/ OutOfOrder(t) \/ (t \in Requests /\ ChangeFails(t))
  PROVE  Inv'
<1> USE ConsoleAssumption DEF Inv, Places
<1>1. /\ UNCHANGED <<catalogue, flow>>
      /\ \A u \in Threads : u # t => at'[u] = at[u] /\ job'[u] = job[u]
  BY DEF Advance, OutOfOrder, ChangeFails, Finish, TypeOK
<1>2. \/ at'[t] = "idle" /\ at[t] \in {"advance", "demote", "write"}
      \/ at[t] = "advance" /\ at'[t] = "set" /\ job'[t] = job[t]
           /\ CanAdvance(workflow[Process(t)], job[t].step)
  BY DEF Advance, OutOfOrder, ChangeFails, Finish, TypeOK
<1>3. TypeOK'
  <2>1. [NoJob EXCEPT !.step = 0] \in Jobs
    BY JobTypes
  <2>2. at' \in [Threads -> Places]
        /\ job' \in [Threads -> Jobs]
    BY <2>1 DEF Advance, OutOfOrder, ChangeFails, Finish, TypeOK, Places
  <2> QED BY <1>1, <2>2 DEF TypeOK, catalogue, flow, tables
<1>4. CatalogueInv'
  BY <1>1, <1>2, OneLeaves DEF CatalogueInv, JobsMatch, Outside
<1>5. CASE at'[t] = "idle" /\ at[t] \in {"advance", "demote", "write"}
  BY <1>1, <1>3, <1>4, <1>5, FlowStays
<1>6. CASE at[t] = "advance" /\ at'[t] = "set" /\ job'[t] = job[t]
             /\ CanAdvance(workflow[Process(t)], job[t].step)
  <2> USE DEF FlowInv, flow, tables
  <2>1. MidSave' = MidSave
    BY <1>1, <1>6 DEF MidSave, Threads
  <2>2. NoStepSkipped' /\ RowsBehind'
    BY <1>1, <1>6, <2>1 DEF NoStepSkipped, RowsBehind
  <2>3. /\ Process(t) \in {"api", "cli"} /\ workflow[Process(t)].step \in 0..Last
        /\ job[t].step \in 0..Last
    BY DEF TypeOK, Process, Workflows, Jobs
  <2>4. ~torn => 1..workflow[Process(t)].step \subseteq workflow[Process(t)].passed
    BY <2>3 DEF NoStepSkipped
  <2>5. ~torn => 1..(job[t].step - 1) \subseteq workflow[Process(t)].passed
    BY <1>6, <2>3, <2>4 DEF CanAdvance
  <2>6. DueIsNext'
    BY <1>1, <1>6, <2>5 DEF DueIsNext
  <2> QED BY <1>3, <1>4, <2>2, <2>6
<1> QED BY <1>2, <1>5, <1>6

LEMMA AdvancedType ==
  ASSUME NEW w \in Workflows, NEW k \in 1..Last
  PROVE  /\ Advanced(w, k) \in Workflows
         /\ Advanced(w, k).step = k /\ Advanced(w, k).passed = w.passed \cup {k}
<1> DEFINE c == w.completed \/ k = Last
<1>1. Advanced(w, k) = [step |-> k, completed |-> c, passed |-> w.passed \cup {k}]
  BY Zenon DEF Advanced
<1>2. c \in BOOLEAN
  OBVIOUS
<1> HIDE DEF c
<1> QED BY <1>1, <1>2, ConsoleAssumption DEF Workflows

LEMMA SetStepInv ==
  ASSUME Inv, NEW t \in Threads, SetStep(t)
  PROVE  Inv'
<1> USE ConsoleAssumption DEF Inv, Places, SetStep
<1>1. /\ Process(t) \in {"api", "cli"} /\ job[t].step \in 1..Last /\ job' = job
      /\ at'[t] = "save" /\ \A u \in Threads : u # t => at'[u] = at[u]
  BY DEF TypeOK, Process, Jobs, CatalogueInv, JobsMatch
<1>2. /\ workflow'[Process(t)].step = job[t].step
      /\ workflow'[Process(t)].passed = workflow[Process(t)].passed \cup {job[t].step}
      /\ \A p \in {"api", "cli"} : p # Process(t) => workflow'[p] = workflow[p]
      /\ workflow' \in [{"api", "cli"} -> Workflows]
  <2>1. workflow[Process(t)] \in Workflows
    BY <1>1 DEF TypeOK
  <2>2. /\ Advanced(workflow[Process(t)], job[t].step) \in Workflows
        /\ Advanced(workflow[Process(t)], job[t].step).step = job[t].step
        /\ Advanced(workflow[Process(t)], job[t].step).passed
             = workflow[Process(t)].passed \cup {job[t].step}
    BY <1>1, <2>1, AdvancedType
  <2> QED BY <1>1, <2>2 DEF TypeOK
<1>3. TypeOK'
  BY <1>2 DEF TypeOK, catalogue, tables
<1>4. CatalogueInv'
  BY <1>1, OneLeaves DEF Outside
<1>5. FlowInv'
  <2> USE DEF FlowInv, tables
  <2>1. ~torn => 1..job[t].step \subseteq workflow[Process(t)].passed \cup {job[t].step}
    BY <1>1 DEF DueIsNext
  <2>2. NoStepSkipped'
    BY <1>1, <1>2, <2>1 DEF NoStepSkipped
  <2>3. DueIsNext'
    BY <1>1, <1>2 DEF DueIsNext, Process
  <2>4. MidSave' = MidSave
    BY <1>1 DEF MidSave, Threads
  <2>5. workflow["api"].passed \subseteq workflow'["api"].passed
    BY <1>1, <1>2
  <2>6. RowsBehind'
    BY <1>1, <2>4, <2>5 DEF RowsBehind
  <2> QED BY <2>2, <2>3, <2>6
<1> QED BY <1>3, <1>4, <1>5

(* save(), up to its commit.                                                *)
LEMMA SaveInv ==
  ASSUME Inv, NEW t \in Requests,
         ReadRow(t) \/ Upsert(t) \/ DeleteTransitions(t) \/ InsertTransitions(t)
  PROVE  Inv'
<1> USE ConsoleAssumption DEF Inv, Places
<1>1. /\ t \in Threads /\ Process(t) = "api"
      /\ workflow' = workflow /\ stored' = stored /\ torn' = torn
      /\ at'[t] \in {"upsert", "delete", "insert", "commit"}
      /\ \A u \in Threads : u # t => at'[u] = at[u] /\ job'[u] = job[u]
      /\ UNCHANGED catalogue
  BY DEF ReadRow, Upsert, DeleteTransitions, InsertTransitions, flow, tables, TypeOK, Threads, Process
<1>2. CatalogueInv'
  BY <1>1, OneLeaves DEF Outside
<1>3. NoStepSkipped' /\ DueIsNext'
  BY <1>1 DEF FlowInv, NoStepSkipped, DueIsNext
<1>4. CASE ReadRow(t)
  <2> USE <1>4 DEF ReadRow
  <2>1. /\ at[t] = "save" /\ at'[t] = "upsert" /\ table' = table
        /\ job'[t].row = Row(workflow["api"])
    BY <1>1 DEF TypeOK, Jobs, flow, tables
  <2>5. ~torn => 1..job'[t].row.step \subseteq workflow["api"].passed
    <3>1. job'[t].row.step = workflow["api"].step
      BY <2>1 DEF Row
    <3> QED BY <3>1 DEF FlowInv, NoStepSkipped
  <2>2. TypeOK'
    <3> DEFINE r == Row(workflow["api"])
    <3>1. r \in [step : 0..Last, completed : BOOLEAN]
      BY DEF TypeOK, Workflows, Row
    <3> HIDE DEF r
    <3>2. job[t] \in Jobs
      BY <1>1 DEF TypeOK
    <3>3. [job[t] EXCEPT !.row = r] \in Jobs
      BY <3>1, <3>2 DEF Jobs
    <3>4. job' \in [Threads -> Jobs]
      BY <1>1, <3>3 DEF TypeOK, r
    <3>5. at' \in [Threads -> Places]
      BY <1>1 DEF TypeOK
    <3> QED BY <3>4, <3>5 DEF TypeOK, catalogue, flow, tables
  <2>3. MidSave' = MidSave
    BY <1>1, <2>1 DEF MidSave, Threads
  <2>4. RowsBehind'
    BY <1>1, <2>1, <2>3, <2>5 DEF FlowInv, RowsBehind, flow, tables
  <2> QED BY <1>2, <1>3, <2>2, <2>4 DEF FlowInv
<1>5. CASE Upsert(t)
  <2> USE <1>5 DEF Upsert
  <2>1. /\ at[t] = "upsert" /\ at'[t] = "delete" /\ table'.step = job[t].row.step
    BY <1>1 DEF TypeOK
  <2>2. TypeOK'
    BY <1>1 DEF TypeOK, Jobs, Workflows, catalogue
  <2>3. t \in MidSave'
    BY <2>1 DEF MidSave
  <2>4. RowsBehind'
    BY <1>1, <2>1, <2>3 DEF FlowInv, RowsBehind
  <2> QED BY <1>2, <1>3, <2>2, <2>4 DEF FlowInv
<1>6. CASE DeleteTransitions(t)
  <2> USE <1>6 DEF DeleteTransitions
  <2>1. at[t] = "delete" /\ at'[t] = "insert" /\ table'.step = table.step
    BY <1>1 DEF TypeOK, Workflows
  <2>2. TypeOK'
    BY <1>1 DEF TypeOK, Workflows, catalogue
  <2>3. t \in MidSave /\ t \in MidSave'
    BY <2>1 DEF MidSave
  <2>4. RowsBehind'
    BY <1>1, <2>1, <2>3 DEF FlowInv, RowsBehind
  <2> QED BY <1>2, <1>3, <2>2, <2>4 DEF FlowInv
<1>7. CASE InsertTransitions(t)
  <2> USE <1>7 DEF InsertTransitions
  <2>1. /\ at[t] = "insert" /\ at'[t] = "commit" /\ table'.step = table.step
        /\ workflow["api"].passed \subseteq table'.passed
    BY <1>1 DEF TypeOK, Workflows
  <2>2. TypeOK'
    BY <1>1 DEF TypeOK, Workflows, catalogue
  <2>3. t \in MidSave
    BY <2>1 DEF MidSave
  <2>4. RowsBehind'
    BY <1>1, <2>1, <2>3 DEF FlowInv, RowsBehind
  <2> QED BY <1>2, <1>3, <2>2, <2>4 DEF FlowInv
<1> QED BY <1>4, <1>5, <1>6, <1>7

(* A commit, by whoever.                                                    *)
LEMMA CommitInv ==
  ASSUME Inv, OtherCommit \/ \E t \in Requests : Commit(t)
  PROVE  Inv'
<1> USE ConsoleAssumption DEF Inv, Places
<1>1. CommitTables
  BY DEF OtherCommit, Commit
<1>2. PICK t \in Threads :
        /\ \A u \in Threads : u # t => at'[u] = at[u] /\ job'[u] = job[u]
        /\ \/ at[t] = "commit" /\ at'[t] = "idle"
           \/ at'[t] = at[t] /\ job'[t] = job[t]
  <2>1. CASE OtherCommit
    BY <2>1 DEF OtherCommit, threads, Threads
  <2>2. CASE \E t \in Requests : Commit(t)
    BY <2>2 DEF Commit, TypeOK, Threads
  <2> QED BY <2>1, <2>2
<1>3. TypeOK'
  <2>1. NoJob \in Jobs
    BY DEF Jobs, NoJob, Row, NotStarted
  <2>2. at' \in [Threads -> Places]
        /\ job' \in [Threads -> Jobs]
    BY <2>1 DEF OtherCommit, Commit, threads, TypeOK
  <2>3. torn' \in BOOLEAN /\ unsaved' \in BOOLEAN
    BY <1>1 DEF CommitTables, OtherCommit, Commit, TypeOK
  <2> QED BY <1>1, <2>2, <2>3 DEF CommitTables, TypeOK, catalogue
<1>4. CatalogueInv'
  <2>1. UNCHANGED catalogue
    BY <1>1 DEF CommitTables
  <2>2. CASE at[t] = "commit" /\ at'[t] = "idle"
    BY <1>2, <2>1, <2>2, OneLeaves DEF Outside
  <2>3. CASE at'[t] = at[t] /\ job'[t] = job[t]
    <3>1. \A u \in Threads : at'[u] = at[u] /\ job'[u] = job[u]
      BY <1>2, <2>3
    <3> QED BY <3>1, <2>1 DEF CatalogueInv, catalogue, JobsMatch, OnePromoted, PromotionInv,
                              ReadIsTrue, Promoting, Changing
  <2> QED BY <1>2, <2>2, <2>3
<1>5. MidSave' = MidSave
  BY <1>2 DEF MidSave, Threads
<1>6. FlowInv'
  <2> SUFFICES ASSUME ~torn'
               PROVE  FlowInv'
    BY DEF FlowInv, NoStepSkipped, DueIsNext, RowsBehind
  <2>1. /\ ~torn /\ MidSave = {} /\ stored' = table /\ table' = table /\ workflow' = workflow
    BY <1>1 DEF CommitTables
  <2>2. NoStepSkipped'
    BY <2>1 DEF FlowInv, NoStepSkipped, RowsBehind
  <2>3. DueIsNext' /\ RowsBehind'
    BY <1>2, <1>5, <2>1 DEF FlowInv, DueIsNext, RowsBehind
  <2> QED BY <2>2, <2>3 DEF FlowInv
<1> QED BY <1>3, <1>4, <1>6

(* A save that breaks off, between its statements or before.                *)
LEMMA SaveFailsInv ==
  ASSUME Inv, NEW t \in Requests, SaveFails(t)
  PROVE  Inv'
<1> USE ConsoleAssumption DEF Inv, Places
<1>1. /\ t \in Threads /\ at[t] \in {"upsert", "delete", "insert", "commit"} /\ at'[t] = "idle"
      /\ \A u \in Threads : u # t => at'[u] = at[u] /\ job'[u] = job[u]
      /\ UNCHANGED catalogue /\ UNCHANGED <<workflow, table, dirty, stored, piloted, collided>>
  BY DEF SaveFails, TypeOK, Threads
<1>2. TypeOK'
  <2>1. NoJob \in Jobs
    BY DEF Jobs, NoJob, Row, NotStarted
  <2>2. at' \in [Threads -> Places] /\ job' \in [Threads -> Jobs]
    BY <2>1 DEF SaveFails, TypeOK
  <2>3. torn' \in BOOLEAN /\ unsaved' \in BOOLEAN
    BY DEF SaveFails, TypeOK
  <2> QED BY <1>1, <2>2, <2>3 DEF TypeOK, catalogue
<1>3. CatalogueInv'
  BY <1>1, OneLeaves DEF Outside
<1>4. FlowInv'
  <2> SUFFICES ASSUME ~torn'
               PROVE  FlowInv'
    BY DEF FlowInv, NoStepSkipped, DueIsNext, RowsBehind
  <2>1. ~torn /\ at[t] \notin {"delete", "insert"}
    BY DEF SaveFails, TypeOK
  <2>2. MidSave' = MidSave
    BY <1>1, <2>1 DEF MidSave, Threads
  <2>3. NoStepSkipped' /\ DueIsNext'
    BY <1>1, <2>1 DEF FlowInv, NoStepSkipped, DueIsNext
  <2>4. RowsBehind'
    BY <1>1, <2>1, <2>2 DEF FlowInv, RowsBehind
  <2> QED BY <2>3, <2>4 DEF FlowInv
<1> QED BY <1>2, <1>3, <1>4

LEMMA PilotInv ==
  ASSUME Inv, Launch \/ PilotSave \/ PilotEnds
  PROVE  Inv'
<1> USE ConsoleAssumption DEF Inv, Places
<1>1. /\ Pilot \in Threads /\ Pilot \notin Requests /\ at'[Pilot] \in {"idle", "loop"}
      /\ \A u \in Threads : u # Pilot => at'[u] = at[u] /\ job'[u] = job[u]
      /\ UNCHANGED catalogue /\ torn' = torn
  BY DEF Launch, PilotSave, PilotEnds, TypeOK, Threads, tables, flow
<1>2. CatalogueInv'
  BY <1>1, OneLeaves DEF Outside
<1>3. MidSave' = MidSave /\ at[Pilot] \notin {"delete", "insert"}
  BY <1>1 DEF MidSave, Threads, CatalogueInv, JobsMatch
<1>4. CASE Launch
  <2>1. /\ workflow'["cli"] = stored /\ workflow'["api"] = workflow["api"]
        /\ table' = table /\ stored' = stored
    BY <1>4 DEF Launch, TypeOK, tables
  <2>2. TypeOK'
    BY <1>4 DEF Launch, TypeOK, catalogue, tables
  <2>3. FlowInv'
    <3>1. NoStepSkipped'
      BY <1>1, <2>1 DEF FlowInv, NoStepSkipped
    <3>2. DueIsNext'
      BY <1>1, <2>1 DEF FlowInv, DueIsNext, Process
    <3>3. dirty' = dirty
      BY <1>4 DEF Launch, tables
    <3>4. RowsBehind'
      BY <1>1, <1>3, <2>1, <3>3 DEF FlowInv, RowsBehind
    <3> QED BY <3>1, <3>2, <3>4 DEF FlowInv
  <2> QED BY <1>2, <2>2, <2>3
<1>5. CASE PilotSave
  <2>1. NoJob \in Jobs
    BY DEF Jobs, NoJob, Row, NotStarted
  <2>2. TypeOK'
    BY <1>5, <2>1 DEF PilotSave, TypeOK, catalogue
  <2>3. NoStepSkipped' /\ DueIsNext'
    BY <1>1, <1>5 DEF PilotSave, FlowInv, NoStepSkipped, DueIsNext
  <2>4. RowsBehind'
    <3>1. ~torn => MidSave = {}
      BY <1>5 DEF PilotSave, FlowInv, RowsBehind
    <3> QED BY <1>1, <1>3, <1>5, <3>1 DEF PilotSave, FlowInv, NoStepSkipped, RowsBehind
  <2> QED BY <1>2, <2>2, <2>3, <2>4 DEF FlowInv
<1>6. CASE PilotEnds
  <2>1. NoJob \in Jobs
    BY DEF Jobs, NoJob, Row, NotStarted
  <2>2. TypeOK'
    BY <1>6, <2>1 DEF PilotEnds, TypeOK, catalogue, flow, tables
  <2>3. FlowInv'
    BY <1>1, <1>3, <1>6, FlowStays DEF PilotEnds
  <2> QED BY <1>2, <2>2, <2>3
<1> QED BY <1>4, <1>5, <1>6

(* The process comes back with what is committed and without requests.      *)
LEMMA RestartInv ==
  ASSUME Inv, Restart
  PROVE  Inv'
<1> USE ConsoleAssumption DEF Inv, Places, Restart
<1>1. /\ \A u \in Threads : u # Pilot => at'[u] = "idle"
      /\ Pilot \in Threads /\ at'[Pilot] = at[Pilot] /\ job'[Pilot] = job[Pilot]
      /\ UNCHANGED catalogue /\ torn' = torn
  BY DEF Threads
<1>2. /\ workflow'["api"] = stored /\ workflow'["cli"] = workflow["cli"]
      /\ table' = stored /\ stored' = stored
  BY DEF TypeOK
<1>3. TypeOK'
  <2>1. NoJob \in Jobs
    BY DEF Jobs, NoJob, Row, NotStarted
  <2>2. workflow' \in [{"api", "cli"} -> Workflows] /\ job' \in [Threads -> Jobs]
    BY <2>1 DEF TypeOK
  <2> QED BY <2>2 DEF TypeOK, catalogue
<1>4. CatalogueInv'
  <2>1. Threads \ {Pilot} \in SUBSET Threads
    OBVIOUS
  <2>2. \A u \in Threads \ (Threads \ {Pilot}) : at'[u] = at[u] /\ job'[u] = job[u]
    BY <1>1
  <2>3. \A u \in Threads \ {Pilot} :
          /\ at'[u] \in Outside
          /\ at'[u] \in {"advance", "set", "save"} => job'[u].step > 0
          /\ at'[u] \in {"upsert", "delete", "insert", "commit"} => u \in Requests
    BY <1>1 DEF Outside
  <2> QED BY <1>1, <2>1, <2>2, <2>3, CatalogueStays
<1>5. MidSave' = {}
  BY <1>1 DEF MidSave, Threads
<1>6. at[Pilot] # "upsert"
  BY <1>1 DEF CatalogueInv, JobsMatch
<1>7. FlowInv'
  BY <1>1, <1>2, <1>5, <1>6 DEF FlowInv, NoStepSkipped, DueIsNext, RowsBehind, Process
<1> QED BY <1>3, <1>4, <1>7

-----------------------------------------------------------------------------
LEMMA NextInv == Inv /\ [Next]_vars => Inv'
<1> SUFFICES ASSUME Inv, [Next]_vars
             PROVE  Inv'
  OBVIOUS
<1> USE ConsoleAssumption
<1>1. CASE UNCHANGED vars
  BY <1>1 DEF vars, catalogue, flow, tables, threads, Inv, CatalogueInv, FlowInv, TypeOK, JobsMatch,
              OnePromoted, PromotionInv, ReadIsTrue, NoStepSkipped, DueIsNext, RowsBehind,
              Promoting, Changing, MidSave
<1>2. CASE \E t \in Requests, o \in Asked, s \in Strategies : Change(t, o, s)
  BY <1>2, BeginChangeInv DEF Change
<1>3. CASE \E t \in Requests, k \in 1..Last : Perform(t, k)
  BY <1>3, BeginChangeInv, GateInv DEF Perform, Threads, Ops
<1>4. CASE \E t \in Requests : ListPromoted(t) \/ Write(t) \/ ChangeFails(t)
  BY <1>4, ListPromotedInv, WriteInv, AdvanceInv DEF Threads
<1>5. CASE \E t \in Requests, s \in Strategies : Demote(t, s)
  BY <1>5, DemoteInv
<1>6. CASE \E t \in Threads : Advance(t) \/ OutOfOrder(t) \/ SetStep(t)
  BY <1>6, AdvanceInv, SetStepInv
<1>7. CASE \E t \in Requests : ReadRow(t) \/ Upsert(t) \/ DeleteTransitions(t) \/ InsertTransitions(t)
  BY <1>7, SaveInv
<1>8. CASE OtherCommit \/ \E t \in Requests : Commit(t)
  BY <1>8, CommitInv
<1>12. CASE \E t \in Requests : SaveFails(t)
  BY <1>12, SaveFailsInv
<1>9. CASE Launch \/ PilotSave \/ PilotEnds
  BY <1>9, PilotInv
<1>10. CASE PilotStep
  <2>1. workflow["cli"].step + 1 \in 1..Last
    BY <1>10 DEF PilotStep, Inv, TypeOK, Workflows
  <2> QED BY <1>10, <2>1, GateInv DEF PilotStep, Threads
<1>11. CASE Restart
  BY <1>11, RestartInv
<1> QED BY <1>1, <1>2, <1>3, <1>4, <1>5, <1>6, <1>7, <1>8, <1>9, <1>10, <1>11, <1>12 DEF Next

THEOREM Invariance == Spec => []Inv
BY InitInv, NextInv, PTL DEF Spec

(* Whatever the requests do, two strategies are promoted only after two     *)
(* promotions have overlapped (StrategyCatalogService.promote).             *)
THEOREM AtMostOnePromoted == Spec => []OnePromoted
BY Invariance, PTL DEF Inv, CatalogueInv

(* No step is skipped, in memory or in the tables, whatever overlaps and    *)
(* whoever dies, unless a commit tore a save (OperatorWorkflow.advance, OperatorSessionService.perform). *)
THEOREM StepsInOrder == Spec => []NoStepSkipped
BY Invariance, PTL DEF Inv, FlowInv

(* A strategy that nobody else is changing keeps to its life cycle          *)
(* (StrategyCatalogService).                                                *)
THEOREM LifecycleHolds == Spec => LifecycleKept
<1> DEFINE Kept == ~overlapped => \A s \in Strategies :
                     /\ status[s] = "retired" => status'[s] = "retired"
                     /\ status'[s] = "promoted" => status[s] \in {"active", "promoted"}
                     /\ status[s] = "promoted" => status'[s] \in {"promoted", "active", "disabled"}
<1>1. Inv /\ [Next]_vars => [Kept]_vars
  <2> SUFFICES ASSUME Inv, Next, ~overlapped, NEW s \in Strategies
               PROVE  /\ status[s] = "retired" => status'[s] = "retired"
                      /\ status'[s] = "promoted" => status[s] \in {"active", "promoted"}
                      /\ status[s] = "promoted" => status'[s] \in {"promoted", "active", "disabled"}
    OBVIOUS
  <2>1. CASE \E t \in Requests : Write(t)
    <3> PICK t \in Requests : Write(t)
      BY <2>1
    <3>1. /\ t \in Threads /\ t \in Changing /\ job[t].op \in Ops /\ job[t].name \in Strategies
      BY DEF Inv, CatalogueInv, TypeOK, Jobs, Ops, JobsMatch, Write, Threads, Changing
    <3>2. status[job[t].name] \in Admits(job[t].op)
      BY <3>1 DEF Inv, CatalogueInv, ReadIsTrue
    <3>3. status' = [status EXCEPT ![job[t].name] = Target(job[t].op)]
      BY DEF Write
    <3>4. CASE s # job[t].name
      BY <3>3, <3>4 DEF Inv, TypeOK
    <3>5. CASE s = job[t].name
      <4>1. status'[s] = Target(job[t].op)
        BY <3>3, <3>5 DEF Inv, TypeOK
      <4> QED BY <4>1, <3>1, <3>2, <3>5 DEF Ops, Admits, Target
    <3> QED BY <3>4, <3>5
  <2>2. CASE \E t \in Requests, r \in Strategies : Demote(t, r)
    <3> PICK t \in Requests, r \in Strategies : Demote(t, r)
      BY <2>2
    <3>1. t \in Changing /\ status[r] = "promoted"
      BY DEF Inv, CatalogueInv, ReadIsTrue, Demote, Threads, Changing
    <3> QED BY <3>1 DEF Demote, Inv, TypeOK
  <2>3. CASE UNCHANGED status
    BY <2>3
  <2> QED BY <2>1, <2>2, <2>3 DEF Next, Change, Perform, BeginChange, Gate, ListPromoted, ChangeFails,
             Advance, OutOfOrder, SetStep, ReadRow, Upsert, DeleteTransitions, InsertTransitions,
             Commit, SaveFails, OtherCommit, CommitTables, Launch, PilotStep, PilotSave, PilotEnds, Restart, catalogue
<1> QED BY Invariance, <1>1, PTL DEF Spec, LifecycleKept

-----------------------------------------------------------------------------
(* What an operator has been told is stored.  A save that no other save and *)
(* no pilot disturbs: the row in hand is the row of memory, the tables take *)
(* it over statement by statement, and its commit leaves memory, tables and *)
(* store the same, also after one that failed.  Commits of other            *)
(* repositories may come in between.                                        *)
SaveInHand(t) ==
  /\ at[t] # "save" => job[t].row = Row(workflow["api"])
  /\ at[t] \in {"delete", "insert", "commit"} => Row(table) = Row(workflow["api"])
  /\ at[t] = "insert" => table.passed = {}
  /\ at[t] = "commit" => table.passed = workflow["api"].passed

QuietInv ==
  /\ \A t \in Saving : job[t].step > 0
  /\ ~piloted /\ ~collided =>
       /\ \A t, u \in Saving : t = u
       /\ \A t \in Saving : SaveInHand(t)
       /\ Saving = {} /\ ~unsaved => table = workflow["api"] /\ stored = table

SavePlaces == {"save", "upsert", "delete", "insert", "commit"}

(* Where nobody enters or leaves a save, and the tables stay as they are.   *)
LEMMA QuietStays ==
  ASSUME QuietInv,
         UNCHANGED <<table, stored, workflow["api"], piloted, collided, unsaved>>,
         \A t \in Requests : (at[t] \in SavePlaces \/ at'[t] \in SavePlaces)
                               => at'[t] = at[t] /\ job'[t] = job[t]
  PROVE  QuietInv'
<1>1. Saving' = Saving
  BY DEF Saving, SavePlaces
<1>2. \A t \in Saving : at'[t] = at[t] /\ job'[t] = job[t]
  BY DEF Saving, SavePlaces
<1>3. \A t \in Saving : SaveInHand(t)' <=> SaveInHand(t)
  BY <1>2 DEF SaveInHand, Row
<1> QED BY <1>1, <1>2, <1>3 DEF QuietInv

(* Every step of the catalogue, and of the workflow outside its save.       *)
LEMMA CatalogueQuiet ==
  ASSUME Inv, QuietInv, NEW t \in Threads,
         \/ \E o \in Asked, s \in Strategies : t \in Requests /\ Change(t, o, s)
         \/ \E k \in 1..Last : Perform(t, k)
         \/ t \in Requests /\ (ListPromoted(t) \/ Write(t) \/ ChangeFails(t))
         \/ \E s \in Strategies : t \in Requests /\ Demote(t, s)
         \/ Advance(t) \/ OutOfOrder(t)
         \/ t = Pilot /\ (PilotStep \/ PilotEnds \/ Launch)
  PROVE  QuietInv'
<1>1. /\ UNCHANGED <<table, stored, workflow["api"], piloted, collided, unsaved>>
      /\ \A u \in Threads : u # t => at'[u] = at[u] /\ job'[u] = job[u]
      /\ t \in Requests => at[t] \notin SavePlaces /\ at'[t] \notin SavePlaces
  <2>1. at \in [Threads -> Places] /\ job \in [Threads -> Jobs] /\ workflow \in [{"api", "cli"} -> Workflows]
    BY DEF Inv, TypeOK
  <2>2. CASE \/ \E o \in Asked, s \in Strategies : t \in Requests /\ Change(t, o, s)
             \/ \E k \in 1..Last : Perform(t, k)
    <3>1. /\ at[t] = "idle" /\ UNCHANGED flow
          /\ \E w \in {"list", "write", "advance"} : \E j : at' = [at EXCEPT ![t] = w] /\ job' = [job EXCEPT ![t] = j]
      BY <2>2 DEF Change, Perform, BeginChange, Gate
    <3> QED BY <2>1, <3>1 DEF flow, tables, SavePlaces
  <2>3. CASE t \in Requests /\ (ListPromoted(t) \/ Write(t) \/ ChangeFails(t))
    <3>1. /\ at[t] \in {"list", "write", "demote"} /\ UNCHANGED flow
          /\ \E w \in {"demote", "idle", "advance"} : \E j : at' = [at EXCEPT ![t] = w] /\ job' = [job EXCEPT ![t] = j]
      BY <2>3 DEF ListPromoted, Write, ChangeFails, Finish
    <3> QED BY <2>1, <3>1 DEF flow, tables, SavePlaces
  <2>4. CASE \E s \in Strategies : t \in Requests /\ Demote(t, s)
    <3>1. /\ at[t] = "demote" /\ UNCHANGED flow /\ at' = at
          /\ \E j : job' = [job EXCEPT ![t] = j]
      BY <2>4 DEF Demote
    <3> QED BY <2>1, <3>1 DEF flow, tables, SavePlaces
  <2>5. CASE Advance(t) \/ OutOfOrder(t)
    <3>1. /\ at[t] = "advance" /\ UNCHANGED flow
          /\ \E w \in {"set", "idle"} : at' = [at EXCEPT ![t] = w]
          /\ job' = job \/ \E j : job' = [job EXCEPT ![t] = j]
      BY <2>5 DEF Advance, OutOfOrder, Finish
    <3> QED BY <2>1, <3>1 DEF flow, tables, SavePlaces
  <2>6. CASE t = Pilot /\ (PilotStep \/ PilotEnds \/ Launch)
    <3>1. /\ UNCHANGED <<tables, piloted, collided, unsaved>> /\ workflow'["api"] = workflow["api"]
          /\ \E w : at' = [at EXCEPT ![Pilot] = w]
          /\ job' = job \/ \E j : job' = [job EXCEPT ![Pilot] = j]
      BY <2>1, <2>6 DEF PilotStep, PilotEnds, Launch, Gate, flow
    <3> QED BY <2>1, <2>6, <3>1, ConsoleAssumption DEF tables
  <2> QED BY <2>2, <2>3, <2>4, <2>5, <2>6
<1> HIDE DEF Change
<1> QED BY <1>1, QuietStays DEF Threads

(* A step is set: the save begins, alone or as one too many.                *)
LEMMA SetStepQuiet ==
  ASSUME Inv, QuietInv, NEW t \in Threads, SetStep(t)
  PROVE  QuietInv'
<1>1. /\ at[t] = "set" /\ at' = [at EXCEPT ![t] = "save"] /\ job' = job /\ job[t].step > 0
      /\ UNCHANGED <<table, stored, piloted, unsaved>>
      /\ at \in [Threads -> Places] /\ workflow \in [{"api", "cli"} -> Workflows]
  BY DEF Inv, TypeOK, CatalogueInv, JobsMatch, SetStep, tables
<1>2. CASE t = Pilot
  <2>1. workflow'["api"] = workflow["api"] /\ collided' = collided
    BY <1>1, <1>2 DEF SetStep, Process, Inv, TypeOK
  <2> QED BY <1>1, <1>2, <2>1, QuietStays, ConsoleAssumption DEF Threads
<1>3. CASE t # Pilot
  <2>1. t \in Requests /\ Saving' = Saving \cup {t}
    BY <1>1, <1>3 DEF Saving, Threads
  <2>2. ~collided' => Saving = {} /\ ~collided
    BY <1>3 DEF SetStep, Inv, TypeOK
  <2>3. at'[t] = "save"
    BY <1>1
  <2> QED BY <1>1, <2>1, <2>2, <2>3 DEF QuietInv, SaveInHand
<1> QED BY <1>2, <1>3

(* The statements of a save.                                                *)
LEMMA SaveQuiet ==
  ASSUME Inv, QuietInv, NEW t \in Requests,
         ReadRow(t) \/ Upsert(t) \/ DeleteTransitions(t) \/ InsertTransitions(t)
  PROVE  QuietInv'
<1>1. /\ t \in Threads /\ at \in [Threads -> Places] /\ job \in [Threads -> Jobs]
      /\ job[t] \in Jobs /\ table \in Workflows /\ workflow["api"] \in Workflows
  BY DEF Inv, TypeOK, Threads
<1>2. /\ UNCHANGED <<workflow, stored, piloted, collided, unsaved>>
      /\ at[t] \in SavePlaces /\ at'[t] \in SavePlaces
      /\ \A u \in Threads : u # t => at'[u] = at[u] /\ job'[u] = job[u]
      /\ job'[t].step = job[t].step
  <2>1. CASE ReadRow(t)
    <3>1. job'[t] = [job[t] EXCEPT !.row = Row(workflow["api"])]
      BY <1>1, <2>1 DEF ReadRow
    <3>2. job'[t].step = job[t].step
      BY <1>1, <3>1 DEF Jobs
    <3> QED BY <1>1, <2>1, <3>2 DEF ReadRow, SavePlaces, flow, tables
  <2>2. CASE Upsert(t) \/ DeleteTransitions(t) \/ InsertTransitions(t)
    BY <1>1, <2>2 DEF Upsert, DeleteTransitions, InsertTransitions, SavePlaces
  <2> QED BY <2>1, <2>2
<1>3. Saving' = Saving /\ t \in Saving
  BY <1>1, <1>2 DEF Saving, SavePlaces, Threads
<1>4. \A u \in Saving' : job'[u].step > 0
  BY <1>2, <1>3 DEF QuietInv, Saving, Threads
<1>5. ASSUME SaveInHand(t) PROVE SaveInHand(t)'
  <2>1. CASE ReadRow(t)
    <3>1. job'[t].row = Row(workflow["api"]) /\ at'[t] = "upsert"
      BY <1>1, <2>1 DEF ReadRow, Jobs
    <3> QED BY <1>2, <3>1 DEF SaveInHand, Row
  <2>2. CASE Upsert(t)
    <3>1. /\ at[t] = "upsert" /\ at'[t] = "delete" /\ job' = job
          /\ table'.step = job[t].row.step /\ table'.completed = job[t].row.completed
      BY <1>1, <2>2 DEF Upsert
    <3>2. /\ job[t].row = Row(workflow["api"])
          /\ job[t].row.step = workflow["api"].step
          /\ job[t].row.completed = workflow["api"].completed
      BY <1>5, <3>1 DEF SaveInHand, Row
    <3>3. Row(table') = Row(workflow["api"])
      BY <3>1, <3>2 DEF Row
    <3> QED BY <1>2, <3>1, <3>2, <3>3 DEF SaveInHand, Row
  <2>3. CASE DeleteTransitions(t)
    <3>1. /\ at[t] = "delete" /\ at'[t] = "insert" /\ job' = job
          /\ table'.step = table.step /\ table'.completed = table.completed /\ table'.passed = {}
      BY <1>1, <2>3 DEF DeleteTransitions, Workflows
    <3>2. Row(table') = Row(table)
      BY <3>1 DEF Row
    <3> QED BY <1>2, <1>5, <3>1, <3>2 DEF SaveInHand, Row
  <2>4. CASE InsertTransitions(t)
    <3>1. /\ at[t] = "insert" /\ at'[t] = "commit" /\ job' = job
          /\ table'.step = table.step /\ table'.completed = table.completed
          /\ table'.passed = table.passed \cup workflow["api"].passed
      BY <1>1, <2>4 DEF InsertTransitions, Workflows
    <3>2. Row(table') = Row(table) /\ table.passed = {}
      BY <1>5, <3>1 DEF Row, SaveInHand
    <3> QED BY <1>2, <1>5, <3>1, <3>2 DEF SaveInHand, Row
  <2> QED BY <2>1, <2>2, <2>3, <2>4
<1> QED BY <1>2, <1>3, <1>4, <1>5 DEF QuietInv

(* Two records of the workflow that agree are the same.                     *)
LEMMA SameWorkflow ==
  ASSUME NEW v \in Workflows, NEW w \in Workflows, Row(v) = Row(w), v.passed = w.passed
  PROVE  v = w
BY DEF Workflows, Row

LEMMA CommitQuiet ==
  ASSUME Inv, QuietInv, OtherCommit \/ \E t \in Requests : Commit(t)
  PROVE  QuietInv'
<1>1. UNCHANGED <<workflow, table, piloted, collided>> /\ stored' = table
  BY DEF OtherCommit, Commit, CommitTables
<1>2. CASE OtherCommit
  <2>1. Saving' = Saving /\ at' = at /\ job' = job /\ unsaved' = unsaved
    BY <1>2 DEF OtherCommit, threads, Saving
  <2> QED BY <1>1, <2>1 DEF QuietInv, SaveInHand, Row
<1>3. ASSUME NEW t \in Requests, Commit(t) PROVE QuietInv'
  <2>1. /\ t \in Threads /\ t \in Saving /\ at[t] = "commit" /\ at'[t] = "idle"
        /\ table \in Workflows /\ workflow["api"] \in Workflows
        /\ \A u \in Threads : u # t => at'[u] = at[u] /\ job'[u] = job[u]
    BY <1>3 DEF Commit, Saving, Threads, Inv, TypeOK
  <2>2. Saving' = Saving \ {t}
    BY <2>1 DEF Saving, Threads
  <2>3. \A u \in Saving' : job'[u].step > 0
    BY <2>1, <2>2 DEF QuietInv, Saving, Threads
  <2>4. ASSUME ~piloted, ~collided
        PROVE  Saving' = {} /\ table = workflow["api"]
    <3>1. Saving' = {} /\ SaveInHand(t)
      BY <2>1, <2>2, <2>4 DEF QuietInv
    <3>2. Row(table) = Row(workflow["api"]) /\ table.passed = workflow["api"].passed
      BY <2>1, <3>1 DEF SaveInHand
    <3> QED BY <2>1, <3>1, <3>2, SameWorkflow
  <2> QED BY <1>1, <2>3, <2>4 DEF QuietInv
<1> QED BY <1>2, <1>3

LEMMA QuietNext == Inv /\ QuietInv /\ [Next]_vars => QuietInv'
<1> SUFFICES ASSUME Inv, QuietInv, [Next]_vars
             PROVE  QuietInv'
  OBVIOUS
<1>1. CASE UNCHANGED vars
  BY <1>1, QuietStays DEF vars, flow, tables, threads
<1>2. CASE \/ \E t \in Requests, o \in Asked, s \in Strategies : Change(t, o, s)
           \/ \E t \in Requests, k \in 1..Last : Perform(t, k)
           \/ \E t \in Requests : ListPromoted(t) \/ Write(t) \/ ChangeFails(t)
           \/ \E t \in Requests, s \in Strategies : Demote(t, s)
           \/ \E t \in Threads : Advance(t) \/ OutOfOrder(t)
           \/ Launch \/ PilotStep \/ PilotEnds
  BY <1>2, CatalogueQuiet DEF Threads
<1>3. CASE \E t \in Threads : SetStep(t)
  BY <1>3, SetStepQuiet
<1>4. CASE \E t \in Requests : ReadRow(t) \/ Upsert(t) \/ DeleteTransitions(t) \/ InsertTransitions(t)
  BY <1>4, SaveQuiet
<1>5. CASE OtherCommit \/ \E t \in Requests : Commit(t)
  BY <1>5, CommitQuiet
<1>8. ASSUME NEW t \in Requests, SaveFails(t) PROVE QuietInv'
  <2>1. /\ t \in Threads /\ t \in Saving /\ at'[t] = "idle" /\ unsaved'
        /\ \A u \in Threads : u # t => at'[u] = at[u] /\ job'[u] = job[u]
        /\ UNCHANGED <<workflow, table, stored, piloted, collided>>
    BY <1>8 DEF SaveFails, Saving, Threads, Inv, TypeOK
  <2>2. Saving' = Saving \ {t}
    BY <2>1 DEF Saving, Threads
  <2>3. \A u \in Saving' : at'[u] = at[u] /\ job'[u] = job[u]
    BY <2>1, <2>2 DEF Saving, Threads
  <2>4. \A u \in Saving' : SaveInHand(u) => SaveInHand(u)'
    BY <2>1, <2>3 DEF SaveInHand, Row
  <2> QED BY <2>1, <2>2, <2>3, <2>4 DEF QuietInv
<1>6. CASE PilotSave
  <2>1. piloted' = TRUE /\ \A t \in Requests : at'[t] = at[t] /\ job'[t] = job[t]
    BY <1>6, ConsoleAssumption DEF PilotSave, Inv, TypeOK, Threads
  <2> QED BY <2>1 DEF QuietInv, Saving
<1>7. CASE Restart
  <2>1. /\ Saving' = {} /\ table' = stored /\ stored' = stored
        /\ workflow'["api"] = stored
    BY <1>7, ConsoleAssumption DEF Restart, Inv, TypeOK, Threads, Saving
  <2> QED BY <2>1 DEF QuietInv
<1> QED BY <1>1, <1>2, <1>3, <1>4, <1>5, <1>6, <1>7, <1>8 DEF Next

(* When no request of the workflow is under way the tables have what the    *)
(* API process has, unless the pilot wrote over them, saves overlapped, or  *)
(* the last one failed (OperatorSessionService.perform,                     *)
(* SqliteWorkflowRepository.save).                                          *)
THEOREM ToldIsStored == Spec => []StoredWhenQuiet
<1>1. Init => QuietInv
  BY DEF Init, QuietInv, Saving, Threads
<1>2. QuietInv => StoredWhenQuiet
  BY DEF QuietInv, StoredWhenQuiet, Saving
<1> QED BY Invariance, <1>1, <1>2, QuietNext, PTL DEF Spec

-----------------------------------------------------------------------------
(* Supervision.  A process that runs and was not told to stop goes on: it   *)
(* cannot leave without a signal.  So whoever wrote the last heartbeat and  *)
(* is gone was killed, or was told to stop before it wrote, or is an API    *)
(* process, which nothing obliges to say that it ends.                      *)

SupervisedType ==
  /\ pc \in [Supervised!Processes -> {"idle", "down", "installed", "startup", "checked", "top",
                                     "beat", "working"}]
  /\ running \in [Supervised!Processes -> BOOLEAN]
  /\ signalled \in [Supervised!Processes -> BOOLEAN]
  /\ launches \in [Supervised!Processes -> Nat]

OnlyToldLeave ==
  \A d \in Daemons :
    pc[d] \in {"checked", "top", "beat", "working"} /\ ~signalled[d] => running[d]

(* Only launched processes are killed, once for every launch.               *)
KilledOnce ==
  \A i \in killed :
    \E d \in Supervised!Processes, n \in Nat :
      i = <<d, n>> /\ n <= launches[d] /\ (n = launches[d] => pc[d] = "down")

(* A marker is followed up by no beat that counts: a daemon that wrote it   *)
(* was told to stop, an API process does not run its orchestrator, or is    *)
(* about to beat again.                                                     *)
Marked(p) == IF p = Api THEN pc[p] = "idle" => ~running[p] ELSE signalled[p]

(* Who wrote the last line, and what has become of it.                      *)
Written(l, p, n) ==
  /\ l.by = <<p, n>> /\ n <= launches[p] /\ l.action \in {"heartbeat", "shutdown"}
  /\ l.action = "heartbeat" =>
       \/ l.by \in killed \/ l.crossed \/ p = Api
       \/ pc[p] # "down" /\ n = launches[p] /\ ~signalled[p]
  /\ l.action = "shutdown" => l.by \notin killed /\ (n = launches[p] => Marked(p))

LastWriter ==
  \A l \in last : \E p \in Supervised!Processes, n \in Nat : Written(l, p, n)

OneLine == \A l, m \in last : l = m

SupervisedInv ==
  SupervisedType /\ OnlyToldLeave /\ KilledOnce /\ LastWriter /\ OneLine

LEMMA SupervisedInitially == Supervised!Init => SupervisedInv
<1> SUFFICES ASSUME Supervised!Init PROVE SupervisedInv
  OBVIOUS
<1> USE SupervisionAssumption DEF Supervised!Init, Supervised!None, Supervised!Processes
<1>1. SupervisedType
  BY DEF SupervisedType
<1>2. OnlyToldLeave /\ KilledOnce /\ LastWriter /\ OneLine
  BY DEF OnlyToldLeave, KilledOnce, LastWriter, OneLine
<1> QED BY <1>1, <1>2 DEF SupervisedInv

(* Steps of a process that runs and goes on running, and that writes        *)
(* nothing.                                                                 *)
LEMMA GoesOn ==
  ASSUME SupervisedInv, NEW p \in Supervised!Processes, pc[p] # "down",
         NEW step \in {"startup", "checked", "top", "beat", "working"},
         pc' = [pc EXCEPT ![p] = step],
         running' \in [Supervised!Processes -> BOOLEAN],
         p \in Daemons /\ step \in {"checked", "top", "beat", "working"} =>
           signalled[p] \/ running'[p],
         \A q \in Supervised!Processes \ {p} : running'[q] = running[q],
         UNCHANGED <<signalled, launches, last, killed>>
  PROVE  SupervisedInv'
<1> USE DEF SupervisedInv
<1>1. /\ pc'[p] = step /\ step \notin {"down", "idle"}
      /\ \A q \in Supervised!Processes \ {p} : pc'[q] = pc[q]
  BY DEF SupervisedType
<1>2. SupervisedType'
  BY DEF SupervisedType
<1>3. OnlyToldLeave'
  <2> SUFFICES ASSUME NEW d \in Daemons,
                      pc'[d] \in {"checked", "top", "beat", "working"}, ~signalled[d]
               PROVE  running'[d]
    BY DEF OnlyToldLeave
  <2>1. d \in Supervised!Processes
    BY DEF Supervised!Processes
  <2>2. CASE d = p
    BY <1>1, <2>2
  <2>3. CASE d # p
    BY <1>1, <2>1, <2>3 DEF OnlyToldLeave
  <2> QED BY <2>2, <2>3
<1>4. KilledOnce'
  <2>1. \A q \in Supervised!Processes : pc[q] = "down" => pc'[q] = "down"
    BY <1>1
  <2> QED BY <2>1 DEF KilledOnce
<1>5. LastWriter'
  <2>1. \A q \in Supervised!Processes :
          /\ pc[q] # "down" => pc'[q] # "down"
          /\ Marked(q) => Marked(q)'
    BY <1>1 DEF Marked
  <2>2. ASSUME NEW l \in last, NEW q \in Supervised!Processes, NEW n \in Nat, Written(l, q, n)
        PROVE  Written(l, q, n)'
    BY <2>1, <2>2 DEF Written
  <2> QED BY <2>2 DEF LastWriter
<1>6. OneLine'
  BY DEF OneLine
<1> QED BY <1>2, <1>3, <1>4, <1>5, <1>6

(* What a running process writes, and what becomes of the others' lines.    *)
LEMMA WritesLine ==
  ASSUME SupervisedInv, NEW p \in Supervised!Processes, pc[p] # "down", pc'[p] # "down",
         UNCHANGED <<launches, killed>>,
         NEW action \in {"heartbeat", "shutdown"}, Supervised!Append(p, action),
         action = "heartbeat" => signalled'[p] = signalled[p],
         action = "shutdown" => Marked(p)',
         signalled[p] \in BOOLEAN
  PROVE  LastWriter' /\ OneLine'
<1> USE DEF SupervisedInv
<1>0. OneLine'
  BY DEF OneLine, Supervised!Append, Supervised!None
<1>1. PICK n \in Nat : n = launches[p]
  BY DEF SupervisedType
<1>4. <<p, n>> \notin killed
  <2> SUFFICES ASSUME <<p, n>> \in killed PROVE FALSE
    OBVIOUS
  <2>1. PICK d \in Supervised!Processes, k \in Nat :
          <<p, n>> = <<d, k>> /\ (k = launches[d] => pc[d] = "down")
    BY DEF KilledOnce
  <2> QED BY <1>1, <2>1
<1> SUFFICES ASSUME NEW l \in last'
             PROVE  Written(l, p, n)'
  BY <1>0 DEF LastWriter
<1>2. l = [by |-> <<p, n>>, action |-> action, ts |-> now, crossed |-> signalled[p]]
  BY <1>1 DEF Supervised!Append, Supervised!None, Supervised!Instance
<1>3. l.by = <<p, n>> /\ l.action = action /\ l.crossed = signalled[p]
  BY <1>2
<1>5. action = "heartbeat" => l.crossed \/ ~signalled'[p]
  BY <1>3
<1> QED BY <1>1, <1>3, <1>4, <1>5 DEF Written

LEMMA SupervisedNext ==
  ASSUME SupervisedInv, Supervised!Next
  PROVE  SupervisedInv'
<1> USE SupervisionAssumption DEF SupervisedInv
<1>1. ASSUME NEW p \in Supervised!Processes, Supervised!Check(p)
      PROVE  SupervisedInv'
  <2>1. /\ pc[p] # "down" /\ pc' = [pc EXCEPT ![p] = "checked"]
        /\ running' = [running EXCEPT ![p] = TRUE]
        /\ UNCHANGED <<signalled, launches, last, killed>>
    BY <1>1 DEF Supervised!Check, Supervised!GoTo
  <2>2. /\ running' \in [Supervised!Processes -> BOOLEAN] /\ running'[p]
        /\ \A q \in Supervised!Processes \ {p} : running'[q] = running[q]
    BY <2>1 DEF SupervisedType
  <2> QED BY <2>1, <2>2, GoesOn
<1>2. ASSUME NEW d \in Daemons,
             Supervised!BeginStartup(d) \/ Supervised!GoOn(d) \/ Supervised!Work(d)
      PROVE  SupervisedInv'
  <2>1. d \in Supervised!Processes
    BY DEF Supervised!Processes
  <2>2. PICK step \in {"startup", "top", "beat"} :
          /\ pc[d] # "down" /\ pc' = [pc EXCEPT ![d] = step]
          /\ step = "top" => signalled[d] \/ pc[d] = "working"
          /\ step = "beat" => running[d]
    BY <1>2 DEF Supervised!BeginStartup, Supervised!GoOn, Supervised!Work, Supervised!GoTo
  <2>3. UNCHANGED <<running, signalled, launches, last, killed>>
    BY <1>2 DEF Supervised!BeginStartup, Supervised!GoOn, Supervised!Work
  <2>4. step \in {"checked", "top", "beat", "working"} => signalled[d] \/ running[d]
    BY <2>2 DEF OnlyToldLeave
  <2>5. running' \in [Supervised!Processes -> BOOLEAN]
    BY <2>3 DEF SupervisedType
  <2> QED BY <2>1, <2>2, <2>3, <2>4, <2>5, GoesOn
<1>3. ASSUME NEW p \in Supervised!Processes, Supervised!FirstBeat(p) \/ Supervised!Beat(p),
             Supervised!Beat(p) => p \in Daemons
      PROVE  SupervisedInv'
  <2>1. PICK step \in {"idle", "top", "working"} :
          /\ pc[p] \in {"checked", "beat"} /\ pc' = [pc EXCEPT ![p] = step]
          /\ Supervised!Append(p, "heartbeat")
          /\ p \in Daemons => step # "idle"
    BY <1>3 DEF Supervised!FirstBeat, Supervised!Beat, Supervised!GoTo
  <2>2. UNCHANGED <<running, signalled, launches, killed>>
    BY <1>3 DEF Supervised!FirstBeat, Supervised!Beat
  <2>3. LastWriter' /\ OneLine'
    <3>1. pc'[p] # "down" /\ signalled[p] \in BOOLEAN
      BY <2>1 DEF SupervisedType
    <3> QED BY <2>1, <2>2, <3>1, WritesLine
  <2>4. SupervisedType'
    BY <2>1, <2>2 DEF SupervisedType
  <2>5. \A q \in Supervised!Processes :
          /\ q # p => pc'[q] = pc[q]
          /\ q = p => pc'[q] = step
    BY <2>1 DEF SupervisedType
  <2>6. OnlyToldLeave'
    BY <2>1, <2>2, <2>5 DEF OnlyToldLeave, Supervised!Processes
  <2>7. KilledOnce'
    <3>1. \A d \in Supervised!Processes : pc[d] = "down" => pc'[d] = "down"
      BY <2>1, <2>5
    <3> QED BY <2>2, <3>1 DEF KilledOnce
  <2> QED BY <2>3, <2>4, <2>6, <2>7
<1>4. ASSUME NEW p \in Supervised!Processes, pc[p] # "down",
             Supervised!Stop(p), UNCHANGED <<pc, launches, killed>>,
             signalled' \in [Supervised!Processes -> BOOLEAN],
             p \in Daemons => signalled'[p],
             \A q \in Supervised!Processes \ {p} : signalled'[q] = signalled[q]
      PROVE  SupervisedInv'
  <2>1. running' = [running EXCEPT ![p] = FALSE] /\ Supervised!Append(p, "shutdown")
    BY <1>4 DEF Supervised!Stop
  <2>2. LastWriter' /\ OneLine'
    <3>1. signalled[p] \in BOOLEAN /\ ~running'[p]
      BY <2>1 DEF SupervisedType
    <3>2. Marked(p)'
      BY <1>4, <3>1 DEF Marked, Supervised!Processes
    <3> QED BY <1>4, <2>1, <3>1, <3>2, WritesLine
  <2>3. SupervisedType'
    BY <1>4, <2>1 DEF SupervisedType
  <2>4. OnlyToldLeave'
    <3>1. \A q \in Supervised!Processes \ {p} : running'[q] = running[q]
      BY <2>1 DEF SupervisedType
    <3> QED BY <1>4, <3>1 DEF OnlyToldLeave, Supervised!Processes
  <2>5. KilledOnce'
    BY <1>4 DEF KilledOnce
  <2> QED BY <2>2, <2>3, <2>4, <2>5
<1>5. ASSUME NEW d \in Daemons, Supervised!Signal(d)
      PROVE  SupervisedInv'
  <2>1. d \in Supervised!Processes
    BY DEF Supervised!Processes
  <2>2. /\ pc[d] # "down" /\ Supervised!Stop(d) /\ UNCHANGED <<pc, launches, killed>>
        /\ signalled' = [signalled EXCEPT ![d] = TRUE]
    BY <1>5 DEF Supervised!Signal
  <2>3. /\ signalled' \in [Supervised!Processes -> BOOLEAN] /\ signalled'[d]
        /\ \A q \in Supervised!Processes \ {d} : signalled'[q] = signalled[q]
    BY <2>1, <2>2 DEF SupervisedType
  <2> QED BY <1>4, <2>1, <2>2, <2>3
<1>6. CASE Supervised!ApiStop
  <2>1. /\ pc[Api] # "down" /\ Supervised!Stop(Api)
        /\ UNCHANGED <<pc, launches, killed, signalled>>
    BY <1>6 DEF Supervised!ApiStop
  <2>2. Api \in Supervised!Processes
    BY DEF Supervised!Processes
  <2>3. signalled' \in [Supervised!Processes -> BOOLEAN]
    BY <2>1 DEF SupervisedType
  <2> QED BY <1>4, <2>1, <2>2, <2>3
<1>7. ASSUME NEW p \in Supervised!Processes, NEW step \in {"idle", "installed"},
             Supervised!Launched(p, step)
      PROVE  SupervisedInv'
  <2>1. /\ pc[p] = "down" /\ pc' = [pc EXCEPT ![p] = step]
        /\ launches' = [launches EXCEPT ![p] = @ + 1]
        /\ running' = [running EXCEPT ![p] = FALSE]
        /\ signalled' = [signalled EXCEPT ![p] = FALSE]
        /\ UNCHANGED <<last, killed>>
    BY <1>7 DEF Supervised!Launched, Supervised!GoTo
  <2>2. /\ pc'[p] = step /\ launches'[p] = launches[p] + 1 /\ launches[p] \in Nat
        /\ \A q \in Supervised!Processes \ {p} :
             pc'[q] = pc[q] /\ launches'[q] = launches[q] /\ running'[q] = running[q]
             /\ signalled'[q] = signalled[q]
    BY <2>1 DEF SupervisedType
  <2>3. SupervisedType'
    BY <2>1 DEF SupervisedType
  <2>4. OnlyToldLeave'
    BY <2>2 DEF OnlyToldLeave, Supervised!Processes
  <2>5. KilledOnce'
    <3> SUFFICES ASSUME NEW i \in killed
                 PROVE  \E q \in Supervised!Processes, n \in Nat :
                          i = <<q, n>> /\ n <= launches'[q] /\ (n = launches'[q] => pc'[q] = "down")
      BY <2>1 DEF KilledOnce
    <3>1. PICK q \in Supervised!Processes, n \in Nat :
            i = <<q, n>> /\ n <= launches[q] /\ (n = launches[q] => pc[q] = "down")
      BY DEF KilledOnce
    <3>2. CASE q = p
      BY <2>2, <3>1, <3>2
    <3>3. CASE q # p
      BY <2>2, <3>1, <3>3
    <3> QED BY <3>2, <3>3
  <2>6. LastWriter'
    <3> SUFFICES ASSUME NEW l \in last, NEW q \in Supervised!Processes, NEW n \in Nat,
                        Written(l, q, n)
                 PROVE  Written(l, q, n)'
      BY <2>1 DEF LastWriter
    <3>1. CASE q = p
      <4>1. n < launches'[p]
        BY <2>2, <3>1 DEF Written
      <4> QED BY <2>1, <2>2, <3>1, <4>1 DEF Written
    <3>2. CASE q # p
      <4>1. Marked(q)' = Marked(q)
        BY <2>2, <3>2 DEF Marked
      <4> QED BY <2>1, <2>2, <3>2, <4>1 DEF Written
    <3> QED BY <3>1, <3>2
  <2>7. OneLine'
    BY <2>1 DEF OneLine
  <2> QED BY <2>3, <2>4, <2>5, <2>6, <2>7
<1>8. ASSUME NEW p \in Supervised!Processes, pc[p] # "down", pc' = [pc EXCEPT ![p] = "down"],
             UNCHANGED <<running, signalled, launches>>,
             \/ ~Supervised!CountedOn(p) /\ killed' = killed
             \/ p = Api /\ killed' = killed
             \/ Supervised!CountedOn(p) /\ killed' = killed \cup {<<p, launches[p]>>},
             last' = last \/ last' = {}
      PROVE  SupervisedInv'
  <2>1. pc'[p] = "down" /\ \A q \in Supervised!Processes \ {p} : pc'[q] = pc[q]
    BY <1>8 DEF SupervisedType
  <2>2. SupervisedType'
    BY <1>8 DEF SupervisedType
  <2>3. OnlyToldLeave'
    BY <1>8, <2>1 DEF OnlyToldLeave, Supervised!Processes
  <2>4. PICK k \in Nat : k = launches[p]
    BY DEF SupervisedType
  <2>5. KilledOnce'
    <3> SUFFICES ASSUME NEW i \in killed'
                 PROVE  \E q \in Supervised!Processes, n \in Nat :
                          i = <<q, n>> /\ n <= launches[q] /\ (n = launches[q] => pc'[q] = "down")
      BY <1>8 DEF KilledOnce
    <3>1. CASE i = <<p, k>>
      BY <2>1, <2>4, <3>1
    <3>2. CASE i \in killed
      <4>1. \A q \in Supervised!Processes : pc[q] = "down" => pc'[q] = "down"
        BY <2>1
      <4> QED BY <3>2, <4>1 DEF KilledOnce
    <3> QED BY <1>8, <2>4, <3>1, <3>2
  <2>6. LastWriter'
    <3> SUFFICES ASSUME NEW l \in last, NEW q \in Supervised!Processes, NEW n \in Nat,
                        Written(l, q, n)
                 PROVE  Written(l, q, n)'
      BY <1>8 DEF LastWriter
    <3>1. Marked(q) => Marked(q)'
      BY <1>8, <2>1 DEF Marked
    <3>2. CASE q # p
      <4>1. l.by \in killed' <=> l.by \in killed
        BY <1>8, <2>4, <3>2 DEF Written
      <4> QED BY <1>8, <2>1, <3>1, <3>2, <4>1 DEF Written
    <3>3. CASE q = p
      <4>1. l.action = "heartbeat" => l.by \in killed' \/ l.crossed \/ q = Api
        BY <1>8, <3>3 DEF Written, Supervised!CountedOn
      <4>2. l.action = "shutdown" => l.by \notin killed'
        <5> SUFFICES ASSUME l.action = "shutdown", l.by \in killed' PROVE FALSE
          OBVIOUS
        <5>1. l.by = <<p, k>> /\ Supervised!CountedOn(p)
          BY <1>8, <2>4, <3>3 DEF Written
        <5>2. Marked(p)
          BY <2>4, <3>3, <5>1 DEF Written
        <5> QED BY <5>1, <5>2 DEF Marked, Supervised!CountedOn
      <4> QED BY <1>8, <3>1, <3>3, <4>1, <4>2 DEF Written
    <3> QED BY <3>2, <3>3
  <2>7. OneLine'
    BY <1>8 DEF OneLine
  <2> QED BY <2>2, <2>3, <2>5, <2>6, <2>7
<1>9. ASSUME NEW p \in Supervised!Processes, Supervised!Die(p)
      PROVE  SupervisedInv'
  <2>1. /\ pc[p] # "down" /\ pc' = [pc EXCEPT ![p] = "down"]
        /\ UNCHANGED <<running, signalled, launches>>
        /\ killed' = IF Supervised!CountedOn(p) THEN killed \cup {<<p, launches[p]>>} ELSE killed
        /\ last' = last \/ last' = {}
    BY <1>9 DEF Supervised!Die, Supervised!GoTo, Supervised!Instance, Supervised!None
  <2> QED BY <1>8, <2>1
<1>10. ASSUME NEW d \in Daemons, Supervised!Leave(d)
       PROVE  SupervisedInv'
  <2>1. /\ pc[d] = "top" /\ pc' = [pc EXCEPT ![d] = "down"]
        /\ ~running[d] \/ signalled[d]
        /\ UNCHANGED <<running, signalled, launches, killed, last>>
    BY <1>10 DEF Supervised!Leave, Supervised!GoTo
  <2>2. signalled[d] /\ d \in Supervised!Processes /\ d # Api
    BY <2>1 DEF OnlyToldLeave, Supervised!Processes
  <2>3. ~Supervised!CountedOn(d)
    BY <2>2 DEF Supervised!CountedOn
  <2> QED BY <1>8, <2>1, <2>2, <2>3
<1>14. CASE Supervised!ApiEnds
  <2>1. /\ pc[Api] # "down" /\ pc' = [pc EXCEPT ![Api] = "down"]
        /\ UNCHANGED <<running, signalled, launches, killed, last>>
    BY <1>14 DEF Supervised!ApiEnds, Supervised!GoTo
  <2>2. Api \in Supervised!Processes
    BY DEF Supervised!Processes
  <2> QED BY <1>8, <2>1, <2>2
<1>15. CASE Supervised!Serve \/ \E d \in Daemons : Supervised!Launch(d)
  BY <1>7, <1>15 DEF Supervised!Serve, Supervised!Launch, Supervised!Processes
<1>11. CASE Supervised!Tick
  BY <1>11 DEF Supervised!Tick, SupervisedType, OnlyToldLeave, KilledOnce, LastWriter, OneLine,
           Written, Marked
<1>12. ASSUME NEW d \in Daemons, Supervised!Beat(d)
       PROVE  SupervisedInv'
  <2>1. d \in Supervised!Processes
    BY DEF Supervised!Processes
  <2> QED BY <1>3, <1>12, <2>1
<1>13. ASSUME NEW p \in Supervised!Processes, Supervised!FirstBeat(p)
       PROVE  SupervisedInv'
  <2>1. ~Supervised!Beat(p)
    BY <1>13 DEF Supervised!Beat, Supervised!FirstBeat
  <2> QED BY <1>3, <1>13, <2>1
<1> QED BY <1>1, <1>2, <1>5, <1>6, <1>9, <1>10, <1>11, <1>12, <1>13, <1>14, <1>15
        DEF Supervised!Next

(* The clock and the stamp of the last line are numbers.                    *)
Dated == now \in Nat /\ \A l \in last : l.ts \in Nat

LEMMA DatedNext ==
  ASSUME Dated, [Supervised!Next]_Supervised!vars
  PROVE  Dated'
<1> USE DEF Dated
<1>1. ASSUME NEW p, NEW action, Supervised!Append(p, action), UNCHANGED now
      PROVE  Dated'
  BY <1>1 DEF Supervised!Append, Supervised!None
<1>2. ASSUME NEW p \in Supervised!Processes, Supervised!Check(p) \/ Supervised!FirstBeat(p)
      PROVE  Dated'
  BY <1>1, <1>2 DEF Supervised!Check, Supervised!FirstBeat
<1>3. ASSUME NEW d \in Daemons,
             \/ Supervised!Launch(d) \/ Supervised!BeginStartup(d) \/ Supervised!Leave(d)
             \/ Supervised!GoOn(d) \/ Supervised!Work(d)
      PROVE  Dated'
  BY <1>3 DEF Supervised!Launch, Supervised!Launched, Supervised!BeginStartup, Supervised!Leave, Supervised!GoOn,
              Supervised!Work
<1>4. ASSUME NEW d \in Daemons, Supervised!Signal(d) \/ Supervised!Beat(d)
      PROVE  Dated'
  BY <1>1, <1>4 DEF Supervised!Signal, Supervised!Beat, Supervised!Stop
<1>5. ASSUME NEW p \in Supervised!Processes, Supervised!Die(p)
      PROVE  Dated'
  BY <1>5 DEF Supervised!Die, Supervised!None
<1>6. CASE Supervised!Serve \/ Supervised!ApiStop \/ Supervised!ApiEnds \/ Supervised!Tick
  BY <1>1, <1>6 DEF Supervised!Serve, Supervised!Launched, Supervised!ApiStop, Supervised!ApiEnds,
                    Supervised!Tick, Supervised!Stop
<1>7. CASE UNCHANGED Supervised!vars
  BY <1>7 DEF Supervised!vars
<1> QED BY <1>2, <1>3, <1>4, <1>5, <1>6, <1>7 DEF Supervised!Next

(* Whoever starts raises the alarm for the dead only, and does raise it for *)
(* them (check_unclean_shutdown), for any number of daemons, launches, any  *)
(* clock and threshold.                                                     *)
THEOREM AlarmIsTrue == Supervised!Spec => AlarmIsForTheDead
<1> DEFINE Judged ==
      IF Supervised!Stale
      THEN \A l \in last :
             l.by \in killed \/ Supervised!Alive(l.by) \/ l.crossed \/ l.by[1] = Api
      ELSE \A l \in last : \A i \in killed : i # l.by \/ now - l.ts <= StaleAfter
<1>1. SupervisedInv /\ Dated => Judged
  <2> SUFFICES ASSUME SupervisedInv, Dated PROVE Judged
    OBVIOUS
  <2>1. ASSUME NEW l \in last, l.action = "heartbeat"
        PROVE  l.by \in killed \/ Supervised!Alive(l.by) \/ l.crossed \/ l.by[1] = Api
    <3>1. PICK p \in Supervised!Processes, n \in Nat :
            /\ l.by = <<p, n>>
            /\ \/ l.by \in killed \/ l.crossed \/ p = Api
               \/ pc[p] # "down" /\ n = launches[p]
      BY <2>1 DEF SupervisedInv, LastWriter, Written
    <3>2. l.by[1] = p
      BY <3>1
    <3> QED BY <3>1, <3>2 DEF Supervised!Alive, Supervised!Instance
  <2>2. ASSUME NEW l \in last, l.action # "heartbeat" PROVE l.by \notin killed
    BY <2>2 DEF SupervisedInv, LastWriter, Written
  <2>3. CASE Supervised!Stale
    <3>1. PICK l \in last : l.action = "heartbeat"
      BY <2>3 DEF Supervised!Stale
    <3>2. \A m \in last : m = l
      BY DEF SupervisedInv, OneLine
    <3> QED BY <2>1, <2>3, <3>1, <3>2
  <2>4. CASE ~Supervised!Stale
    <3>1. \A l \in last : l.action = "heartbeat" => now - l.ts <= StaleAfter
      BY <2>4, SupervisionAssumption DEF Supervised!Stale, Dated
    <3> QED BY <2>2, <2>4, <3>1
  <2> QED BY <2>3, <2>4
<1>2. SupervisedInv /\ [Supervised!Next]_Supervised!vars => SupervisedInv'
  <2>1. SupervisedInv /\ UNCHANGED Supervised!vars => SupervisedInv'
    BY DEF Supervised!vars, SupervisedInv, SupervisedType, OnlyToldLeave, KilledOnce,
           LastWriter, OneLine, Written, Marked
  <2> QED BY <2>1, SupervisedNext
<1>3. SupervisedInv /\ Dated =>
        [\A p \in Supervised!Processes : pc[p] # "checked" /\ pc'[p] = "checked" => Judged]_Supervised!vars
  BY <1>1
<1>4. AlarmIsForTheDead <=>
        [][\A p \in Supervised!Processes :
             pc[p] # "checked" /\ pc'[p] = "checked" => Judged]_Supervised!vars
  BY DEF AlarmIsForTheDead, Supervised!AlarmIsForTheDead
<1>5. Supervised!Init => Dated
  BY DEF Supervised!Init, Supervised!None, Dated
<1>6. Dated /\ [Supervised!Next]_Supervised!vars => Dated'
  BY DatedNext
<1> QED BY <1>2, <1>3, <1>4, <1>5, <1>6, SupervisedInitially, PTL DEF Supervised!Spec

-----------------------------------------------------------------------------
(* Paging, for any probes and transports.  What the invariant has to        *)
(* survive is a page that is broken off between the result that caused it   *)
(* and its delivery, and a restart that forgets the results.                *)

(* A failure is counted only while it is the latest result.                 *)
CountedIsBad == \A p \in Probes : attempts[p] # 0 => latest[p] = "bad"

(* The page that some transport took says what the latest result is.        *)
TakenIsTold ==
  got["probes"] =>
    thread["probes"] = "route" /\ told[paged] = latest[paged] /\ paged \notin unheard

(* A new process is not told of failures it does not know of, but for the   *)
(* ones that are unheard.                                                   *)
ForgottenIsUnheard ==
  \A p \in Probes : latest[p] = "none" /\ p \notin unheard => told[p] # "bad"

(* What is paged is a result, good or bad.                                  *)
HandHasResult == paged # NoProbe => latest[paged] # "none"

PagerInv ==
  /\ Pager!TypeOK /\ Pager!PagesOncePerOutage /\ Pager!PagerKnows
  /\ CountedIsBad /\ TakenIsTold /\ ForgottenIsUnheard /\ HandHasResult

LEMMA PagerInitInv == Pager!Init => PagerInv
<1> SUFFICES ASSUME Pager!Init
             PROVE  PagerInv
  OBVIOUS
<1> USE DEF Pager!Init, Pager!Threads
<1>1. stopEvent \in [Pager!Threads -> BOOLEAN] /\ got \in [Pager!Threads -> BOOLEAN] /\ ~got["probes"]
  BY Zenon
<1>2. /\ thread \in [Pager!Threads -> {"off", "wait", "work", "audit", "route"}]
      /\ thread["probes"] = "off" /\ paged = NoProbe /\ todo = {} /\ wanted = FALSE
  OBVIOUS
<1>3. /\ left \in [Pager!Threads -> SUBSET Transports]
      /\ latest \in [Probes -> {"none", "ok", "bad"}] /\ attempts \in [Probes -> 0..2]
      /\ told \in [Probes -> {"none", "ok", "bad"}] /\ unheard \subseteq Probes
  OBVIOUS
<1>4. Pager!TypeOK
  BY <1>1, <1>2, <1>3 DEF Pager!TypeOK
<1>5. Pager!PagesOncePerOutage /\ Pager!PagerKnows /\ CountedIsBad /\ ForgottenIsUnheard /\ HandHasResult
  BY DEF Pager!PagesOncePerOutage, Pager!PagerKnows, CountedIsBad, ForgottenIsUnheard, HandHasResult
<1>6. TakenIsTold
  BY <1>1 DEF TakenIsTold
<1> QED BY <1>4, <1>5, <1>6 DEF PagerInv

(* start(), stop(), the timer, the end of a loop or a tick, the backup      *)
(* thread: nothing the pager or the results have a part in.                 *)
LEMMA ElsewhereInv ==
  ASSUME PagerInv,
         UNCHANGED <<latest, Pager!pager, paged>>, left' \in [Pager!Threads -> SUBSET Transports],
         got' \in [Pager!Threads -> BOOLEAN], got'["probes"] = got["probes"],
         stopEvent' \in [Pager!Threads -> BOOLEAN], wanted' \in BOOLEAN, todo' \subseteq Probes,
         thread' \in [Pager!Threads -> {"off", "wait", "work", "audit", "route"}],
         (thread["probes"] \in {"audit", "route"} \/ thread'["probes"] \in {"audit", "route"})
           => thread'["probes"] = thread["probes"]
  PROVE  PagerInv'
<1>1. Pager!TypeOK'
  BY DEF PagerInv, Pager!TypeOK, Pager!pager
<1>2. Pager!PagesOncePerOutage' /\ CountedIsBad' /\ ForgottenIsUnheard' /\ HandHasResult'
  BY DEF PagerInv, Pager!PagesOncePerOutage, CountedIsBad, ForgottenIsUnheard, HandHasResult, Pager!pager
<1>3. Pager!PagerKnows' /\ TakenIsTold'
  BY DEF PagerInv, Pager!PagerKnows, TakenIsTold, Pager!pager
<1> QED BY <1>1, <1>2, <1>3 DEF PagerInv

(* The backup thread, and the steps of the probe thread that do not page.   *)
LEMMA PagerQuietInv ==
  ASSUME PagerInv,
         \/ Pager!Start \/ Pager!Stop \/ Pager!BackupThread
         \/ Pager!EndLoop("probes") \/ Pager!Tick("probes") \/ Pager!EndTick
  PROVE  PagerInv'
<1> USE DEF PagerInv, Pager!TypeOK, Pager!Threads, Pager!GoTo, Pager!LeaveRoute, Pager!pager,
  Pager!probing, Pager!routing, Pager!sched
<1>1. CASE Pager!Start
  <2>1. stopEvent' \in [Pager!Threads -> BOOLEAN]
    BY <1>1, Zenon DEF Pager!Start
  <2>2. /\ thread' \in [Pager!Threads -> {"off", "wait", "work", "audit", "route"}]
        /\ thread["probes"] # "off" => thread'["probes"] = thread["probes"]
        /\ thread["probes"] = "off" => thread'["probes"] = "wait"
    BY <1>1 DEF Pager!Start
  <2>3. /\ UNCHANGED <<latest, told, unheard, attempts, paged, left, got>>
        /\ wanted' \in BOOLEAN /\ todo' \subseteq Probes
        /\ left' \in [Pager!Threads -> SUBSET Transports] /\ got' \in [Pager!Threads -> BOOLEAN]
    BY <1>1 DEF Pager!Start
  <2>4. thread["probes"] \in {"audit", "route"} \/ thread'["probes"] \in {"audit", "route"}
          => thread'["probes"] = thread["probes"]
    BY <2>2
  <2> HIDE DEF PagerInv, Pager!TypeOK, Pager!Threads
  <2> QED BY <2>1, <2>2, <2>3, <2>4, ElsewhereInv
<1>2. CASE Pager!Stop
  <2>1. stopEvent' \in [Pager!Threads -> BOOLEAN] /\ wanted' \in BOOLEAN
    BY <1>2, Zenon DEF Pager!Stop
  <2>2. /\ UNCHANGED <<thread, latest, told, unheard, attempts, paged, left, got, todo>>
        /\ thread' \in [Pager!Threads -> {"off", "wait", "work", "audit", "route"}]
        /\ left' \in [Pager!Threads -> SUBSET Transports] /\ got' \in [Pager!Threads -> BOOLEAN]
        /\ todo' \subseteq Probes
    BY <1>2 DEF Pager!Stop
  <2> HIDE DEF PagerInv, Pager!TypeOK, Pager!Threads
  <2> QED BY <2>1, <2>2, ElsewhereInv
<1>3. CASE Pager!EndLoop("probes") \/ Pager!Tick("probes") \/ Pager!EndTick
  <2>1. /\ thread' \in [Pager!Threads -> {"off", "wait", "work", "audit", "route"}]
        /\ thread["probes"] \in {"wait", "work"} /\ thread'["probes"] \in {"off", "work", "wait"}
    BY <1>3 DEF Pager!EndLoop, Pager!Tick, Pager!EndTick
  <2>2. /\ UNCHANGED <<latest, told, unheard, attempts, paged, stopEvent, wanted, left, got>>
        /\ todo' \subseteq Probes
    BY <1>3 DEF Pager!EndLoop, Pager!Tick, Pager!EndTick
  <2>3. /\ left' \in [Pager!Threads -> SUBSET Transports] /\ got' \in [Pager!Threads -> BOOLEAN]
        /\ stopEvent' \in [Pager!Threads -> BOOLEAN] /\ wanted' \in BOOLEAN
    BY <2>2
  <2> HIDE DEF PagerInv, Pager!TypeOK, Pager!Threads
  <2> QED BY <2>1, <2>2, <2>3, ElsewhereInv
<1>4. CASE Pager!EndLoop("backups") \/ Pager!Tick("backups") \/ Pager!BackUp \/ Pager!BackupFails
  <2> HIDE DEF PagerInv
  <2>0. Pager!TypeOK
    BY DEF PagerInv
  <2>1. /\ got' \in [Pager!Threads -> BOOLEAN] /\ got'["probes"] = got["probes"]
        /\ left' \in [Pager!Threads -> SUBSET Transports]
    <3>1. \E S \in SUBSET Transports, b \in BOOLEAN :
            /\ left' = left \/ left' = [left EXCEPT !["backups"] = S]
            /\ got' = got \/ got' = [got EXCEPT !["backups"] = b]
      BY <1>4, <2>0 DEF Pager!EndLoop, Pager!Tick, Pager!BackUp, Pager!BackupFails
    <3> QED BY <2>0, <3>1
  <2>2. /\ thread' \in [Pager!Threads -> {"off", "wait", "work", "audit", "route"}]
        /\ thread'["probes"] = thread["probes"]
    BY <1>4, <2>0 DEF Pager!EndLoop, Pager!Tick, Pager!BackUp, Pager!BackupFails
  <2>3. /\ UNCHANGED <<latest, told, unheard, attempts, paged, stopEvent, wanted>>
        /\ todo' = todo
    BY <1>4, <2>0 DEF Pager!EndLoop, Pager!Tick, Pager!BackUp, Pager!BackupFails
  <2>4. /\ stopEvent' \in [Pager!Threads -> BOOLEAN] /\ wanted' \in BOOLEAN
        /\ todo' \subseteq Probes
    BY <2>0, <2>3
  <2> HIDE DEF Pager!TypeOK, Pager!Threads
  <2> QED BY <2>1, <2>2, <2>3, <2>4, ElsewhereInv
<1>5. CASE \E t \in Transports : Pager!Acknowledged("backups", t) \/ Pager!NotAcknowledged("backups", t)
  <2> HIDE DEF PagerInv
  <2>0. Pager!TypeOK
    BY DEF PagerInv
  <2>1. /\ got' \in [Pager!Threads -> BOOLEAN] /\ got'["probes"] = got["probes"]
        /\ left' \in [Pager!Threads -> SUBSET Transports]
    <3>1. \E S \in SUBSET Transports, b \in BOOLEAN :
            /\ left' = left \/ left' = [left EXCEPT !["backups"] = S]
            /\ got' = got \/ got' = [got EXCEPT !["backups"] = b]
      BY <1>5, <2>0 DEF Pager!Acknowledged, Pager!NotAcknowledged
    <3> QED BY <2>0, <3>1
  <2>2. UNCHANGED <<thread, latest, told, unheard, attempts, paged, stopEvent, wanted, todo>>
    BY <1>5, <2>0 DEF Pager!Acknowledged, Pager!NotAcknowledged
  <2>3. /\ stopEvent' \in [Pager!Threads -> BOOLEAN] /\ wanted' \in BOOLEAN /\ todo' \subseteq Probes
        /\ thread' \in [Pager!Threads -> {"off", "wait", "work", "audit", "route"}]
    BY <2>0, <2>2
  <2> HIDE DEF Pager!TypeOK, Pager!Threads
  <2> QED BY <2>1, <2>2, <2>3, ElsewhereInv
<1>6. CASE Pager!BackupAlerted \/ Pager!BackupThreadDies
  <2> HIDE DEF PagerInv
  <2>0. Pager!TypeOK
    BY DEF PagerInv
  <2>1. /\ got' \in [Pager!Threads -> BOOLEAN] /\ got'["probes"] = got["probes"]
        /\ left' \in [Pager!Threads -> SUBSET Transports]
    <3>1. \E S \in SUBSET Transports, b \in BOOLEAN :
            /\ left' = left \/ left' = [left EXCEPT !["backups"] = S]
            /\ got' = got \/ got' = [got EXCEPT !["backups"] = b]
      BY <1>6, <2>0 DEF Pager!BackupAlerted, Pager!BackupThreadDies
    <3> QED BY <2>0, <3>1
  <2>2. /\ thread' \in [Pager!Threads -> {"off", "wait", "work", "audit", "route"}]
        /\ thread'["probes"] = thread["probes"]
    BY <1>6, <2>0 DEF Pager!BackupAlerted, Pager!BackupThreadDies
  <2>3. UNCHANGED <<latest, told, unheard, attempts, paged, stopEvent, wanted, todo>>
    BY <1>6, <2>0 DEF Pager!BackupAlerted, Pager!BackupThreadDies
  <2>4. /\ stopEvent' \in [Pager!Threads -> BOOLEAN] /\ wanted' \in BOOLEAN /\ todo' \subseteq Probes
    BY <2>0, <2>3
  <2> HIDE DEF Pager!TypeOK, Pager!Threads
  <2> QED BY <2>1, <2>2, <2>3, <2>4, ElsewhereInv
<1> QED BY <1>1, <1>2, <1>3, <1>4, <1>5, <1>6 DEF Pager!BackupThread

(* A probe runs: an edge puts the probe in hand, anything else leaves the   *)
(* pager's picture right (run_once).                                        *)
LEMMA RunProbeInv ==
  ASSUME PagerInv, NEW p \in Probes, NEW result \in Pager!Results, Pager!RunProbe(p, result)
  PROVE  PagerInv'
<1> USE DEF PagerInv, Pager!TypeOK, Pager!Threads, Pager!Results, Pager!RunProbe, Pager!Edge, Pager!GoTo,
  Pager!routing
<1>1. paged = NoProbe /\ ~got["probes"]
  BY DEF TakenIsTold
<1>2. Pager!TypeOK'
  BY PagingAssumption, <1>1
<1>3. Pager!PagesOncePerOutage' /\ CountedIsBad'
  BY DEF Pager!PagesOncePerOutage, CountedIsBad
<1>4. Pager!PagerKnows'
  <2> SUFFICES ASSUME NEW q \in Probes, q # paged', latest'[q] # "none", q \notin unheard
               PROVE  told[q] = "bad" <=> latest'[q] = "bad"
    BY DEF Pager!PagerKnows
  <2>1. CASE q # p
    BY <2>1, <1>1, PagingAssumption DEF Pager!PagerKnows
  <2>2. CASE q = p
    <3>1. ~Pager!Edge(p, result)
      BY <2>2
    <3>2. latest[p] = "none" => result = "ok" /\ told[p] # "bad"
      BY <2>2, <3>1 DEF ForgottenIsUnheard
    <3>3. latest[p] # "none" => latest[p] = result /\ (told[p] = "bad" <=> latest[p] = "bad")
      BY <2>2, <3>1, <1>1, PagingAssumption DEF Pager!PagerKnows
    <3> QED BY <2>2, <3>2, <3>3
  <2> QED BY <2>1, <2>2
<1>5. TakenIsTold' /\ ForgottenIsUnheard' /\ HandHasResult'
  BY <1>1 DEF TakenIsTold, ForgottenIsUnheard, HandHasResult
<1> QED BY <1>2, <1>3, <1>4, <1>5

(* A page, from the audit to the last transport (_page, route).             *)
LEMMA PageInv ==
  ASSUME PagerInv,
         \/ Pager!BeginPage \/ Pager!Paged \/ Pager!TickFails
         \/ \E t \in Transports : Pager!Acknowledged("probes", t) \/ Pager!NotAcknowledged("probes", t)
  PROVE  PagerInv'
<1> USE DEF PagerInv, Pager!TypeOK, Pager!Threads, Pager!GoTo, Pager!LeaveRoute, Pager!Heard,
  Pager!NotHeard, Pager!pager, Pager!probing, Pager!sched
<1>1. CASE Pager!BeginPage
  <2>1. ~got["probes"]
    BY <1>1 DEF Pager!BeginPage, TakenIsTold
  <2>2. Pager!TypeOK'
    BY <1>1 DEF Pager!BeginPage
  <2>3. Pager!PagesOncePerOutage' /\ Pager!PagerKnows' /\ CountedIsBad' /\ TakenIsTold'
          /\ ForgottenIsUnheard' /\ HandHasResult'
    BY <1>1 DEF Pager!BeginPage, Pager!PagesOncePerOutage, Pager!PagerKnows, CountedIsBad, TakenIsTold,
                ForgottenIsUnheard, HandHasResult
  <2> QED BY <2>2, <2>3
<1>2. CASE Pager!Paged \/ Pager!TickFails
  <2>1. paged \in Probes
    BY <1>2 DEF Pager!Paged, Pager!TickFails, Pager!PageRaises
  <2>2. Pager!TypeOK'
    <3>1. \E step \in {"work", "wait"} :
            /\ thread' = [thread EXCEPT !["probes"] = step] /\ paged' = NoProbe
            /\ left' = [left EXCEPT !["probes"] = {}] /\ got' = [got EXCEPT !["probes"] = FALSE]
      BY <1>2 DEF Pager!Paged, Pager!TickFails, Pager!PageRaises
    <3>4. /\ thread' \in [Pager!Threads -> {"off", "wait", "work", "audit", "route"}]
          /\ thread'["probes"] \in {"work", "wait"} /\ paged' = NoProbe
      BY <3>1
    <3>2. left' \in [Pager!Threads -> SUBSET Transports] /\ got' \in [Pager!Threads -> BOOLEAN]
      BY <3>1
    <3>3. /\ todo' \subseteq Probes /\ unheard' \subseteq Probes /\ told' = told
          /\ UNCHANGED <<stopEvent, latest, wanted, attempts>>
      <4>1. CASE Pager!Paged
        BY <4>1, <2>1 DEF Pager!Paged
      <4>2. CASE Pager!TickFails
        BY <4>2, <2>1 DEF Pager!TickFails, Pager!PageRaises
      <4> QED BY <1>2, <4>1, <4>2
    <3> HIDE DEF Pager!Threads
    <3> QED BY <3>2, <3>3, <3>4
  <2>3. Pager!PagesOncePerOutage' /\ CountedIsBad' /\ TakenIsTold' /\ HandHasResult'
    BY <1>2 DEF Pager!Paged, Pager!TickFails, Pager!PageRaises, Pager!PagesOncePerOutage, CountedIsBad,
      TakenIsTold,
                HandHasResult
  <2>4. Pager!PagerKnows' /\ ForgottenIsUnheard'
    BY <1>2, <2>1 DEF Pager!Paged, Pager!TickFails, Pager!PageRaises, Pager!PagerKnows, TakenIsTold,
      ForgottenIsUnheard
  <2> QED BY <2>2, <2>3, <2>4
<1>3. ASSUME NEW t \in Transports, Pager!Acknowledged("probes", t)
      PROVE  PagerInv'
  <2>1. paged \in Probes
    BY <1>3 DEF Pager!Acknowledged
  <2>2. Pager!TypeOK'
    BY <1>3, <2>1 DEF Pager!Acknowledged
  <2>3. Pager!PagesOncePerOutage' /\ CountedIsBad' /\ HandHasResult'
    BY <1>3 DEF Pager!Acknowledged, Pager!PagesOncePerOutage, CountedIsBad, HandHasResult
  <2>4. Pager!PagerKnows' /\ TakenIsTold' /\ ForgottenIsUnheard'
    BY <1>3, <2>1 DEF Pager!Acknowledged, Pager!PagerKnows, TakenIsTold, ForgottenIsUnheard, HandHasResult
  <2> QED BY <2>2, <2>3, <2>4
<1>4. ASSUME NEW t \in Transports, Pager!NotAcknowledged("probes", t)
      PROVE  PagerInv'
  BY <1>4, ElsewhereInv DEF Pager!NotAcknowledged
<1> QED BY <1>1, <1>2, <1>3, <1>4

(* The process forgets its results; a failure that was paged is unheard     *)
(* from now on, as its recovery may never be paged.                         *)
LEMMA PagerRestartInv ==
  ASSUME PagerInv, Pager!Restart
  PROVE  PagerInv'
<1> USE DEF PagerInv, Pager!Restart
<1>1. Pager!TypeOK'
  <2>1. stopEvent' \in [Pager!Threads -> BOOLEAN] /\ got' \in [Pager!Threads -> BOOLEAN]
    BY Zenon
  <2>2. /\ thread' \in [Pager!Threads -> {"off", "wait", "work", "audit", "route"}]
        /\ thread'["probes"] = "off" /\ paged' = NoProbe /\ todo' = {} /\ wanted' = FALSE
    BY DEF Pager!Threads
  <2>3. /\ left' \in [Pager!Threads -> SUBSET Transports]
        /\ latest' \in [Probes -> {"none", "ok", "bad"}] /\ attempts' \in [Probes -> 0..2]
        /\ told' = told /\ unheard' \subseteq Probes
    BY DEF Pager!TypeOK
  <2> QED BY <2>1, <2>2, <2>3 DEF Pager!TypeOK
<1>2. Pager!PagesOncePerOutage' /\ CountedIsBad' /\ TakenIsTold' /\ HandHasResult'
  BY PagingAssumption DEF Pager!TypeOK, Pager!Threads, Pager!PagesOncePerOutage, CountedIsBad, TakenIsTold,
    HandHasResult
<1>3. Pager!PagerKnows' /\ ForgottenIsUnheard'
  BY DEF Pager!PagerKnows, ForgottenIsUnheard
<1> QED BY <1>1, <1>2, <1>3

LEMMA PagerNextInv == PagerInv /\ [Pager!Next]_Pager!vars => PagerInv'
<1> SUFFICES ASSUME PagerInv, [Pager!Next]_Pager!vars
             PROVE  PagerInv'
  OBVIOUS
<1>1. CASE UNCHANGED Pager!vars
  BY <1>1 DEF Pager!vars, Pager!sched, Pager!routing, Pager!probing, Pager!pager, PagerInv, Pager!TypeOK,
    Pager!PagesOncePerOutage, Pager!PagerKnows,
              CountedIsBad, TakenIsTold, ForgottenIsUnheard, HandHasResult
<1>2. CASE Pager!Start \/ Pager!Stop \/ Pager!BackupThread
  BY <1>2, PagerQuietInv
<1>3. CASE Pager!ProbeThread
  BY <1>3, PagerQuietInv, RunProbeInv, PageInv DEF Pager!ProbeThread
<1>4. CASE Pager!Restart
  BY <1>4, PagerRestartInv
<1> QED BY <1>1, <1>2, <1>3, <1>4 DEF Pager!Next

LEMMA PagerInvariance == Pager!Spec => []PagerInv
BY PagerInitInv, PagerNextInv, PTL DEF Pager!Spec

(* For any probes and transports a failure is paged once until the next     *)
(* good result (run_once).                                                  *)
THEOREM OnePagePerOutage == Pager!Spec => []PagesOncePerOutage
<1>1. PagerInv => PagesOncePerOutage
  BY DEF PagerInv, PagesOncePerOutage
<1> QED BY <1>1, PagerInvariance, PTL

(* The pager's picture differs from the scheduler's only for what it could  *)
(* not hear (run_once, _page, OnCallRouter.route).                          *)
THEOREM PagerAgrees == Pager!Spec => []Pager!PagerKnows
<1>1. PagerInv => Pager!PagerKnows
  BY DEF PagerInv
<1> QED BY <1>1, PagerInvariance, PTL

=============================================================================

-------------------------------- MODULE Database -------------------------------
(***************************************************************************)
(* One SQLite database and the processes that migrate it: services that     *)
(* migrate on boot and then store rows (application/factory.py, _get_db;    *)
(* infrastructure/boot.py; database/migration_manager.py), and tools that   *)
(* take it down to a version: `db rollback`, and `backtest`, which asks for *)
(* version 7 (interfaces/cli/main.py).                                      *)
(*                                                                          *)
(* A statement of DDL is committed by itself; the first INSERT or DELETE    *)
(* opens a transaction that keeps other writers out until the commit, so    *)
(* that such a transaction is one step here, or none if the process dies.   *)
(* Abstractions.  Of the rows of a table one is followed, and whether what  *)
(* it refers to can be found by its key.  Waiting for the write lock is not *)
(* told apart from not having come to the statement yet.                    *)
(***************************************************************************)
EXTENDS Migrations

CONSTANTS
  Processes,     \* the daemon and the API process, or a command line
  Targets,       \* versions that a command line asks for
  StartVersions, \* versions the database may be found at; 0: no file yet
  MaxCrashes,    \* bound: crashes of processes
  MaxTools       \* bound: command lines

ASSUME DatabaseAssumption ==
  /\ Targets \subseteq Versions \cup {0} /\ StartVersions \subseteq Versions \cup {0}
  /\ MaxCrashes \in Nat /\ MaxTools \in Nat

VARIABLES
  exist,       \* the tables there are
  legacy,      \* those in the shape that a migration has to rebuild or alter
  aside,       \* tables whose old version is there under another name
  oldLegacy,   \* those of them of the legacy shape
  stored,      \* tables that hold their row
  kept,        \* tables set aside that hold their row
  dangling,    \* tables whose row refers to a key that is not there any more
  marks,       \* _schema_version
  at,          \* where each process is
  plan,        \* the migrations it has still to run: [op, version]
  index,       \* the table it has come to in a rebuild
  tool,        \* the processes that are a command line
  crashes,     \* crashes so far
  tools,       \* command lines so far
  ever,        \* history: tables that have held their row
  dropped,     \* history: tables whose row went with the table in a rollback
  reverted,    \* history: a process has run a down
  interrupted, \* history: tables that were set aside and not copied when the process ended
  raced        \* history: two processes had migrations to run at once

schema == <<exist, legacy, aside, oldLegacy, marks>>
rows == <<stored, kept, dangling, ever, dropped>>
procs == <<at, plan, index>>
notes == <<tool, crashes, tools, reverted, interrupted, raced>>
vars == <<schema, rows, procs, notes>>

Steps == {"down", "work", "drop", "check", "aside", "create", "copy", "mark", "serving"}
Jobs == [op : {"up", "repair", "down"}, version : Versions]

(* Types; a row is in a table that is there, under the one name or the other. *)
TypeOK ==
  /\ exist \subseteq Followed /\ legacy \subseteq exist /\ marks \subseteq Versions
  /\ aside \subseteq Followed /\ oldLegacy \subseteq aside
  /\ stored \subseteq exist /\ kept \subseteq aside
  /\ dangling \subseteq stored /\ ever \subseteq Followed /\ dropped \subseteq Followed
  /\ at \in [Processes -> Steps] /\ index \in [Processes -> Nat]
  /\ plan \in [Processes -> SUBSET Jobs] /\ tool \subseteq Processes
  /\ crashes \in 0..MaxCrashes /\ tools \in 0..MaxTools
  /\ reverted \in BOOLEAN /\ interrupted \subseteq Followed /\ raced \in BOOLEAN

(* A database as an earlier release has left it, or this one, with rows or  *)
(* without.                                                                 *)
Init ==
  /\ \E v \in StartVersions, old \in BOOLEAN :
       LET due == UNION {Migration[u].alters \cup {Migration[u].rebuilds[k] :
                           k \in DOMAIN Migration[u].rebuilds} : u \in {w \in Versions : w > v}}
       IN  /\ marks = {u \in Versions : u <= v}
           /\ exist = IF v = 0 THEN {}
                      ELSE TablesUpTo[v] \cup (Followed \cap (IF old THEN {"trades", "strategies"} ELSE {"trades"}))
           /\ legacy = IF old THEN exist \cap due ELSE {}
  /\ stored \in {{}, exist}
  /\ ever = stored /\ dropped = {} /\ dangling = {}
  /\ aside = {} /\ oldLegacy = {} /\ kept = {}
  /\ at = [p \in Processes |-> "down"]
  /\ plan = [p \in Processes |-> {}] /\ index = [p \in Processes |-> 1]
  /\ tool = {} /\ crashes = 0 /\ tools = 0 /\ reverted = FALSE /\ interrupted = {} /\ raced = FALSE

-----------------------------------------------------------------------------
(* migrate(): what is to be done, from the marker and the tables there are. *)

Current == IF marks = {} THEN 0 ELSE CHOOSE v \in marks : \A u \in marks : u <= v

(* Mutant: the marker is a proof.                                           *)
DriftedNever == {}

(* _drift_for: applied versions of which a table is missing.                *)
Drifted == {v \in Versions : v <= Current /\ ~(Migration[v].tables \subseteq exist)}

PlanFor(target) ==
  [op : {"repair"}, version : Drifted]
    \cup [op : {"up"}, version : {v \in Versions : Current < v /\ v <= target}]
    \cup [op : {"down"}, version : {v \in Versions : target < v /\ v <= Current}]

(* Repairs come first; they and ups go upwards, downs downwards.            *)
Turn(j) ==
  CASE j.op = "repair" -> j.version
    [] j.op = "up"     -> HeadVersion + j.version
    [] j.op = "down"   -> 4 * HeadVersion - j.version

Migrating == {p \in Processes : at[p] \notin {"down", "serving"}}

Begin(p, target) ==
  /\ at[p] = "down"
  /\ at' = [at EXCEPT ![p] = "work"]
  /\ plan' = [plan EXCEPT ![p] = PlanFor(target)]
  /\ raced' = (raced \/ Migrating # {})
  /\ UNCHANGED <<schema, rows, index, crashes, reverted, interrupted>>

(* A service is started, again after every end: it migrates to the head.    *)
Boot(p) == Begin(p, HeadVersion) /\ UNCHANGED <<tool, tools>>

(* migrate(conn, target_version=...) of a command line.                     *)
RunTool(p) ==
  /\ tools < MaxTools /\ tools' = tools + 1 /\ tool' = tool \cup {p}
  /\ \E v \in Targets : Begin(p, v)

Job(p) == CHOOSE j \in plan[p] : \A k \in plan[p] : Turn(j) <= Turn(k)
Doing(p, ops) == at[p] = "work" /\ plan[p] # {} /\ Job(p).op \in ops
This(p) == Migration[Job(p).version]
Table(p) == This(p).rebuilds[index[p]]

GoTo(p, step) == at' = [at EXCEPT ![p] = step] /\ UNCHANGED <<plan, index>>
EndJob(p) ==
  /\ at' = [at EXCEPT ![p] = "work"]
  /\ plan' = [plan EXCEPT ![p] = @ \ {Job(p)}] /\ index' = [index EXCEPT ![p] = 1]
NextTable(p) ==
  IF index[p] < Len(This(p).rebuilds)
    THEN at' = [at EXCEPT ![p] = "check"] /\ index' = [index EXCEPT ![p] = @ + 1] /\ UNCHANGED plan
    ELSE at' = [at EXCEPT ![p] = "mark"] /\ index' = [index EXCEPT ![p] = 1] /\ UNCHANGED plan

-----------------------------------------------------------------------------
(* up(), and the marker after it.                                           *)

(* CREATE TABLE IF NOT EXISTS for each table; those that are rebuilt are    *)
(* left to the rebuild.                                                     *)
CreateTables(p) ==
  /\ Doing(p, {"up", "repair"})
  /\ exist' = exist \cup (This(p).tables \ {"strategies"})
  /\ legacy' = legacy \ This(p).alters
  /\ GoTo(p, IF This(p).rebuilds = <<>> THEN "mark" ELSE "check")
  /\ UNCHANGED <<aside, oldLegacy, marks, rows, notes>>

(* Mutant: what an earlier attempt has left is taken for work to do.        *)
CheckTableOrLeftover(p) ==
  /\ at[p] = "check"
  /\ IF Table(p) \in legacy \cup aside
       THEN GoTo(p, "aside") /\ UNCHANGED exist
       ELSE /\ exist' = exist \cup ({Table(p)} \cap This(p).tables)
            /\ NextTable(p)
  /\ UNCHANGED <<legacy, aside, oldLegacy, marks, rows, notes>>

(* A table that is there in its legacy shape is to be rebuilt; strategies   *)
(* is created if it is missing.                                             *)
CheckTable(p) ==
  /\ at[p] = "check"
  /\ IF Table(p) \in legacy
       THEN GoTo(p, "aside") /\ UNCHANGED exist
       ELSE /\ exist' = exist \cup ({Table(p)} \cap This(p).tables)
            /\ NextTable(p)
  /\ UNCHANGED <<legacy, aside, oldLegacy, marks, rows, notes>>

(* ALTER TABLE ... RENAME TO.                                               *)
CanSetAside(p) == Table(p) \in exist \ aside
SetAside(p) ==
  /\ at[p] = "aside" /\ CanSetAside(p)
  /\ exist' = exist \ {Table(p)} /\ aside' = aside \cup {Table(p)}
  /\ legacy' = legacy \ {Table(p)} /\ oldLegacy' = oldLegacy \cup ({Table(p)} \cap legacy)
  /\ stored' = stored \ {Table(p)} /\ kept' = kept \cup ({Table(p)} \cap stored)
  /\ dangling' = dangling \ {Table(p)}
  /\ GoTo(p, "create")
  /\ UNCHANGED <<marks, ever, dropped, notes>>

(* CREATE TABLE under the old name, for strategies IF NOT EXISTS.           *)
CanCreate(p) == Table(p) \in exist => Table(p) \in This(p).tables
CreateAnew(p) ==
  /\ at[p] = "create" /\ CanCreate(p)
  /\ exist' = exist \cup {Table(p)}
  /\ GoTo(p, "copy")
  /\ UNCHANGED <<legacy, aside, oldLegacy, marks, rows, notes>>

(* strategies: INSERT ... SELECT of the legacy columns, DROP, commit.       *)
CanCopyStrategies(p) == Table(p) \in oldLegacy /\ Table(p) \in exist
CopyStrategies(p) ==
  /\ at[p] = "copy" /\ Table(p) = "strategies" /\ CanCopyStrategies(p)
  /\ stored' = stored \cup (kept \cap {Table(p)}) /\ kept' = kept \ {Table(p)}
  /\ aside' = aside \ {Table(p)} /\ oldLegacy' = oldLegacy \ {Table(p)}
  /\ NextTable(p)
  /\ UNCHANGED <<exist, legacy, marks, dangling, ever, dropped, notes>>

(* Mutant: the old table is dropped whether it has been copied or not.      *)
DropOld(p) ==
  /\ at[p] = "copy" /\ Table(p) \in ResearchTables \cap aside
  /\ aside' = aside \ {Table(p)} /\ oldLegacy' = oldLegacy \ {Table(p)}
  /\ kept' = kept \ {Table(p)}
  /\ NextTable(p)
  /\ UNCHANGED <<exist, legacy, marks, stored, dangling, ever, dropped, notes>>

(* A research table without rows: DROP of the old one.                      *)
DropEmpty(p) ==
  /\ at[p] = "copy" /\ Table(p) \in ResearchTables /\ Table(p) \in aside \ kept
  /\ aside' = aside \ {Table(p)} /\ oldLegacy' = oldLegacy \ {Table(p)}
  /\ NextTable(p)
  /\ UNCHANGED <<exist, legacy, marks, rows, notes>>

(* From the first row that is copied to the marker's commit it is one       *)
(* transaction: the tables after this one are rebuilt in it as well.  Every *)
(* copied row gets a new key, and its reference the new key of its parent,  *)
(* if this process has copied that too.                                     *)
Rest(p) == {Research[k] : k \in (index[p] + 1)..Len(Research)} \cap legacy
CanCopyResearch(p) ==
  /\ Table(p) \in exist /\ Rest(p) \cap aside = {} /\ Job(p).version \notin marks
Copied(p) == {Table(p)} \cup (Rest(p) \cap stored)
Referring(copied, parents) ==
  {t \in stored \cup copied : IF t \in copied THEN Parent(t) # "none" /\ Parent(t) \notin parents
                              ELSE t \in dangling \/ Parent(t) \in copied}
CopyResearch(p, copied, parents) ==
  /\ at[p] = "copy" /\ Table(p) \in ResearchTables \cap kept /\ CanCopyResearch(p)
  /\ stored' = stored \cup {Table(p)} /\ kept' = kept \ {Table(p)}
  /\ aside' = aside \ {Table(p)} /\ oldLegacy' = oldLegacy \ {Table(p)}
  /\ legacy' = legacy \ Rest(p)
  /\ dangling' = Referring(copied, parents)
  /\ marks' = marks \cup {Job(p).version}
  /\ EndJob(p)
  /\ UNCHANGED <<exist, ever, dropped, notes>>

(* Mutant: the references are copied as they are.                           *)
CopyWithoutMaps(p) == CopyResearch(p, Copied(p), {})
CopyRows(p) == CopyResearch(p, Copied(p), Copied(p))

(* INSERT of the marker and commit; a repair has none.                      *)
CanMark(p) == Job(p).op = "up" => Job(p).version \notin marks
Mark(p) ==
  /\ at[p] = "mark" /\ CanMark(p)
  /\ marks' = marks \cup (IF Job(p).op = "up" THEN {Job(p).version} ELSE {})
  /\ EndJob(p)
  /\ UNCHANGED <<exist, legacy, aside, oldLegacy, rows, notes>>

-----------------------------------------------------------------------------
(* The marker is removed before down() drops the tables.                    *)
Unmark(p) ==
  /\ Doing(p, {"down"})
  /\ marks' = marks \ {Job(p).version}
  /\ GoTo(p, "drop")
  /\ reverted' = TRUE
  /\ UNCHANGED <<exist, legacy, aside, oldLegacy, rows, tool, tools, crashes, interrupted, raced>>

(* DROP TABLE IF EXISTS; the column of trades is taken away.                *)
DropTables(p) ==
  /\ at[p] = "drop"
  /\ exist' = exist \ This(p).drops
  /\ legacy' = (legacy \ This(p).drops) \cup (This(p).alters \cap exist)
  /\ stored' = stored \ This(p).drops /\ dangling' = dangling \ This(p).drops
  /\ dropped' = dropped \cup (stored \cap This(p).drops)
  /\ EndJob(p)
  /\ UNCHANGED <<aside, oldLegacy, marks, kept, ever, notes>>

(* A service builds its repositories, which create their tables.            *)
Serve(p) ==
  /\ at[p] = "work" /\ plan[p] = {} /\ p \notin tool
  /\ exist' = exist \cup RepositoryTables
  /\ GoTo(p, "serving")
  /\ UNCHANGED <<legacy, aside, oldLegacy, marks, rows, notes>>

(* A command line is done.                                                  *)
EndTool(p) ==
  /\ at[p] = "work" /\ plan[p] = {} /\ p \in tool
  /\ tool' = tool \ {p}
  /\ GoTo(p, "down")
  /\ UNCHANGED <<schema, rows, tools, crashes, reverted, interrupted, raced>>

(* A repository of a service inserts a row.                                 *)
Store(p, t) ==
  /\ at[p] = "serving" /\ t \in exist \ (legacy \cup ever)
  /\ Parent(t) # "none" => Parent(t) \in stored
  /\ stored' = stored \cup {t} /\ ever' = ever \cup {t}
  /\ UNCHANGED <<schema, kept, dangling, dropped, procs, notes>>

(* The process ends, and its open transaction with it.                      *)
Ends(p) ==
  /\ at' = [at EXCEPT ![p] = "down"] /\ tool' = tool \ {p}
  /\ plan' = [plan EXCEPT ![p] = {}] /\ index' = [index EXCEPT ![p] = 1]
  /\ interrupted' = interrupted \cup (IF at[p] \in {"create", "copy"} THEN {Table(p)} ELSE {})
  /\ UNCHANGED <<aside, oldLegacy, marks, rows, tools, reverted, raced>>

(* A statement raises, migrate() with it, and the process refuses to serve. *)
Raises(p) ==
  \/ at[p] = "aside" /\ ~CanSetAside(p)
  \/ at[p] = "create" /\ ~CanCreate(p)
  \/ at[p] = "copy" /\ Table(p) = "strategies" /\ ~CanCopyStrategies(p)
  \/ at[p] = "copy" /\ Table(p) \in ResearchTables \cap kept /\ ~CanCopyResearch(p)
  \/ at[p] = "copy" /\ Table(p) \in ResearchTables \ aside
  \/ at[p] = "mark" /\ ~CanMark(p)
Refuse(p) == Raises(p) /\ Ends(p) /\ UNCHANGED <<exist, legacy, crashes>>

(* A crash; in the middle of creating tables some are there.                *)
Crash(p) ==
  /\ at[p] # "down" /\ crashes < MaxCrashes
  /\ crashes' = crashes + 1
  /\ \E made \in {{}} \cup (IF Doing(p, {"up", "repair"})
                             THEN SUBSET This(p).tables ELSE {}) :
       exist' = exist \cup (made \ {"strategies"})
  /\ Ends(p)
  /\ UNCHANGED legacy

Step(p) ==
  \/ Boot(p) \/ CreateTables(p) \/ CheckTable(p) \/ SetAside(p) \/ CreateAnew(p)
  \/ CopyStrategies(p) \/ DropEmpty(p) \/ CopyRows(p) \/ Mark(p)
  \/ Unmark(p) \/ DropTables(p) \/ Serve(p) \/ EndTool(p) \/ Refuse(p)

Next ==
  \/ \E p \in Processes : Step(p) \/ Crash(p) \/ RunTool(p)
  \/ \E p \in Processes, t \in Followed : Store(p, t)

(* A process that runs goes on, and a service that ended is started again.  *)
Spec == Init /\ [][Next]_vars
FairSpec == Spec /\ \A p \in Processes : WF_vars(Step(p))

-----------------------------------------------------------------------------
(* A row finds what it refers to under its key, also when its parent was    *)
(* rebuilt with new keys, unless the rebuild of the parent was interrupted  *)
(* or two processes migrated at once ("rewriting the child columns that     *)
(* referenced them", v012).                                                 *)
KeysMeet == raced \/ \A t \in dangling : Parent(t) \in interrupted

(* A stored row stays in its table, through every rebuild, crash and race,  *)
(* unless a rollback dropped the table; or it is in the old table that a    *)
(* rebuild has set aside, and stays there only where a process ended        *)
(* between setting it aside and the commit (migration_manager, migrate;     *)
(* v006, v012).  And it finds what it refers to (KeysMeet).                 *)
RowsSurvive ==
  /\ ever \subseteq stored \cup kept \cup dropped
  /\ \A t \in kept \ interrupted : \E p \in Processes :
       at[p] \in {"create", "copy"} /\ Table(p) = t
  /\ KeysMeet

(* A process that serves has every table that the migrations declare, in    *)
(* its new shape ("never serving against a stale or partially-migrated      *)
(* store", boot.py), unless a rollback or another migration ran meanwhile.  *)
NeverServesPartly ==
  (\E p \in Processes : at[p] = "serving") /\ ~raced /\ ~reverted =>
    HeadTables \subseteq exist \ legacy

(* However processes crash and get in each other's way, in the end every    *)
(* service serves: no half-done migration refuses every later boot.         *)
ServesInTheEnd == <>[](\A p \in Processes : at[p] = "serving")
=============================================================================

------------------------------ MODULE Backups ------------------------------
(***************************************************************************)
(* Backup and restore of the database (infrastructure/database/backup.py),  *)
(* by the command line (interfaces/cli/main.py, cmd_db) and by the timer    *)
(* inside a process of the program (infrastructure/backup_scheduler.py).    *)
(*                                                                         *)
(* The content of a database is the number of the last commit that wrote    *)
(* each of its parts: pages of the SQLite file, which is in WAL mode        *)
(* (connection.py:116), or tables in PostgreSQL.                            *)
(***************************************************************************)
EXTENDS Naturals, FiniteSets

CONSTANTS
  Parts,       \* number of pages, or of tables
  MaxBackups,  \* DB_MAX_BACKUPS
  MaxCommits, MaxJobs, MaxRestores   \* bounds

VARIABLES
  engine,      \* "sqlite" or "postgres"
  main,        \* the SQLite file, or PostgreSQL's database
  wal, filled, \* newest frame of a page in the -wal file; pages checkpointed since
  running,     \* a process of the program has the database open ...
  moved,       \* ... as the file that a restore has replaced
  files,       \* the compressed copies, or the dumps
  job,         \* the backup of the command line and that of the timer
  serial, commits, jobs, restores,
  newest,      \* history: the database when the newest finished backup began
  exact,       \* history: that backup had to get all of it, and was the last begun
  expected     \* history: what the last restore promised

database == <<main, wal, filled>>
bounds == <<commits, restores>>
ghosts == <<newest, exact, expected>>
vars == <<engine, database, running, moved, files, job, serial, jobs, bounds, ghosts>>

Pages == 1 .. Parts
Nothing == [p \in Pages |-> 0]
Content == [p \in Pages |-> IF wal[p] # 0 THEN wal[p] ELSE main[p]]
Workers == {"command", "timer"}
\* "reads" is the file that a copy has open: the one in place, the one that the
\* program works on after a restore has replaced it, or another replaced one.
NoJob == [step |-> "idle", name |-> 0, reads |-> "main", file |-> Nothing, copied |-> 0,
          content |-> Nothing, of |-> Nothing, exact |-> FALSE]
Sqlite == engine = "sqlite"

Init ==
  /\ engine \in {"sqlite", "postgres"}
  /\ main = Nothing /\ wal = Nothing /\ filled = {}
  /\ running = FALSE /\ moved = FALSE
  /\ files = {} /\ job = [w \in Workers |-> NoJob]
  /\ serial = 0 /\ jobs = 0 /\ commits = 0 /\ restores = 0
  /\ newest = Nothing /\ exact = FALSE /\ expected = {}

-----------------------------------------------------------------------------
(* The program at work, and what SQLite does for it.                        *)

Commit ==
  /\ running /\ commits < MaxCommits
  /\ commits' = commits + 1
  /\ \E written \in SUBSET Pages \ {{}} :
       LET new == [p \in Pages |-> IF p \in written THEN commits' ELSE 0]
           over(old) == [p \in Pages |-> IF new[p] # 0 THEN new[p] ELSE old[p]]
       IN IF Sqlite
          THEN wal' = over(wal) /\ filled' = filled \ written /\ UNCHANGED main
          ELSE main' = over(main) /\ UNCHANGED <<wal, filled>>
  /\ expected' = {}
  /\ UNCHANGED <<engine, running, moved, files, job, serial, jobs, restores, newest, exact>>

\* A checkpoint moves page after page.  The copy of a file that changes
\* under it has pages of different times.
Checkpoint(p) ==
  /\ running /\ wal[p] # 0 /\ p \notin filled
  /\ filled' = filled \cup {p}
  /\ main' = IF moved THEN main ELSE [main EXCEPT ![p] = wal[p]]
  /\ job' = [w \in Workers |->
       IF job[w].step # "copy" \/ job[w].reads # (IF moved THEN "old" ELSE "main") THEN job[w]
       ELSE [job[w] EXCEPT !.exact = FALSE, !.file = IF moved THEN [@ EXCEPT ![p] = wal[p]] ELSE @]]
  /\ UNCHANGED <<engine, wal, running, moved, files, serial, jobs, bounds, ghosts>>

Rewind ==
  /\ running /\ filled # {} /\ \A p \in Pages : wal[p] # 0 => p \in filled
  /\ wal' = Nothing /\ filled' = {}
  /\ UNCHANGED <<engine, main, running, moved, files, job, serial, jobs, bounds, ghosts>>

\* The last one to close the file checkpoints and removes the -wal file,
\* unless the file is no longer the one it has opened.
LastClose(stale) ==
  IF stale THEN UNCHANGED database ELSE main' = Content /\ wal' = Nothing /\ filled' = {}

Open ==
  /\ ~running
  /\ running' = TRUE /\ moved' = FALSE
  /\ UNCHANGED <<engine, database, files, job, serial, jobs, bounds, ghosts>>

\* The timer's thread is a daemon thread: it ends with the process.
Leave ==
  /\ running
  /\ running' = FALSE /\ job' = [job EXCEPT !["timer"] = NoJob]
  /\ UNCHANGED <<engine, moved, files, serial, jobs, bounds, ghosts>>
Close == Leave /\ LastClose(moved \/ job["command"].step # "idle")
Crash == Leave /\ UNCHANGED database

-----------------------------------------------------------------------------
(* A backup: the main file alone is copied, page by page, compressed and    *)
(* the copies rotated.  pg_dump reads one snapshot, and nothing rotates its *)
(* dumps.                                                                   *)

\* BackupScheduler._run_once, or `traderos db backup`.
BeginBackup(w) ==
  /\ job[w].step = "idle" /\ jobs < MaxJobs
  /\ w = "timer" => running
  /\ serial' = serial + 1 /\ jobs' = jobs + 1
  /\ job' = [job EXCEPT ![w] =
       [NoJob EXCEPT !.step = "copy", !.name = serial', !.of = Content, !.exact = (main = Content)]]
  /\ UNCHANGED <<engine, database, running, moved, files, bounds, ghosts>>

CopyPage(w) ==
  /\ job[w].step = "copy" /\ Sqlite
  /\ LET p == job[w].copied + 1
     IN job' = [job EXCEPT ![w].copied = p,
                           ![w].content[p] = IF job[w].reads = "main" THEN main[p] ELSE job[w].file[p],
                           ![w].step = IF p = Parts THEN "compress" ELSE "copy"]
  /\ UNCHANGED <<engine, database, running, moved, files, serial, jobs, bounds, ghosts>>

Dump(w) ==
  /\ job[w].step = "copy" /\ ~Sqlite
  /\ job' = [job EXCEPT ![w].content = job[w].of, ![w].step = "compress"]
  /\ UNCHANGED <<engine, database, running, moved, files, serial, jobs, bounds, ghosts>>

\* The file is there, with its name, before it is whole.
Compress(w) ==
  /\ job[w].step = "compress"
  /\ serial' = serial + 1
  /\ files' = files \cup {[name |-> job[w].name, mtime |-> serial', whole |-> FALSE, content |-> Nothing]}
  /\ job' = [job EXCEPT ![w].step = "write"]
  /\ UNCHANGED <<engine, database, running, moved, jobs, bounds, ghosts>>

\* The copy is complete, the raw one removed, and both rotated: the oldest by
\* name go, whole or not.
Kept(all) ==
  IF ~Sqlite THEN all
  ELSE {f \in all : Cardinality({g \in all : f.name < g.name}) < MaxBackups}

CommandCloses == IF ~running /\ Sqlite THEN LastClose(FALSE) ELSE UNCHANGED database
FinishBackup(w) ==
  /\ job[w].step = "write"
  /\ serial' = serial + 1
  /\ LET mine == [name |-> job[w].name, mtime |-> serial', whole |-> TRUE, content |-> job[w].content]
         others == {f \in files : f.name # mine.name}
         there == files # others \* nobody has rotated it away
     IN files' = Kept(IF there THEN others \cup {mine} ELSE others)
  /\ newest' = job[w].of
  /\ exact' = /\ job[w].exact \/ ~Sqlite
              /\ \A f \in files : f.name <= job[w].name
  /\ job' = [job EXCEPT ![w] = NoJob]
  /\ IF w = "command" THEN CommandCloses ELSE UNCHANGED database
  /\ UNCHANGED <<engine, running, moved, jobs, bounds, expected>>

\* The disk is full, pg_dump fails, or the command is killed: what there is of
\* the file stays.
BackupFails(w) ==
  /\ job[w].step # "idle"
  /\ job' = [job EXCEPT ![w] = NoJob]
  /\ UNCHANGED database \/ (w = "command" /\ CommandCloses)
  /\ UNCHANGED <<engine, running, moved, files, serial, jobs, bounds, ghosts>>

-----------------------------------------------------------------------------
(* `traderos db restore --latest`.                                          *)

\* Mutant: the list is not reversed.
FirstListed == CHOOSE f \in files : \A g \in files : f.mtime <= g.mtime

\* list_backups: the latest by the time it was written.
Latest == CHOOSE f \in files : \A g \in files : g.mtime <= f.mtime

\* The copy is unpacked beside the database and moved over it.  The -wal file
\* stays, and whoever has the old file open goes on with it, the program and a
\* copy that its timer has begun.
Replaced(j) ==
  IF j.step = "copy" /\ j.reads = "main"
  THEN [j EXCEPT !.reads = IF moved THEN "other" ELSE "old", !.file = main] ELSE j
RestoreSqlite ==
  /\ Sqlite /\ Latest.whole
  /\ main' = Latest.content
  /\ moved' = running
  /\ job' = [job EXCEPT !["timer"] = Replaced(@)]
  /\ expected' = IF exact /\ wal = Nothing /\ ~running THEN {newest} ELSE {}
  /\ UNCHANGED <<wal, filled>>

\* pg_restore leaves the tables that are there as they are, and says so.
RestorePostgres ==
  /\ ~Sqlite /\ Latest.whole
  /\ main' = [p \in Pages |-> IF main[p] = 0 THEN Latest.content[p] ELSE main[p]]
  /\ expected' = IF main = Nothing THEN {newest} ELSE {}
  /\ UNCHANGED <<wal, filled, moved, job>>

\* What is not whole cannot be unpacked: nothing is changed.
Restore ==
  /\ job["command"].step = "idle" /\ files # {} /\ restores < MaxRestores
  /\ restores' = restores + 1
  /\ \/ RestoreSqlite \/ RestorePostgres
     \/ ~Latest.whole /\ CommandCloses /\ UNCHANGED <<moved, job, expected>>
  /\ UNCHANGED <<engine, running, files, serial, jobs, commits, newest, exact>>

\* The operator begins with an empty database.
NewDatabase ==
  /\ ~running /\ job["command"].step = "idle"
  /\ main # Nothing \/ wal # Nothing
  /\ main' = Nothing /\ wal' = Nothing /\ filled' = {} /\ expected' = {}
  /\ UNCHANGED <<engine, running, moved, files, job, serial, jobs, bounds, newest, exact>>

Next ==
  \/ Commit \/ Rewind \/ Open \/ Close \/ Crash \/ Restore \/ NewDatabase
  \/ \E p \in Pages : Checkpoint(p)
  \/ \E w \in Workers :
       BeginBackup(w) \/ CopyPage(w) \/ Dump(w) \/ Compress(w) \/ FinishBackup(w) \/ BackupFails(w)

Spec == Init /\ [][Next]_vars

-----------------------------------------------------------------------------
\* The latest backup brings back what the database held when it was taken,
\* until the next commit and whoever opens and closes it in between: if all of
\* that was in the main file and no checkpoint wrote to it during the copy, if
\* no backup begun later was there first, and
\* if nobody had the database open, nor had left a -wal file, at the restore
\* (infrastructure/database/backup.py:54, :77); on PostgreSQL if the tables are
\* new.
LatestBringsBack == \A was \in expected : Content = was

=============================================================================

------------------------------ MODULE MCStores ------------------------------
(***************************************************************************)
(* SharedDatabase, Repositories and Backups for TLC.  They share at most the *)
(* backend: a behaviour is of one of them, its face, and the others keep     *)
(* still.                                                                   *)
(*                                                                         *)
(* Two threads of the application, which are alike, and one of the command  *)
(* line share the database.                                                 *)
(***************************************************************************)
EXTENDS SharedDatabase, TLC

CONSTANTS a, b, c, Kinds

VARIABLES
  face,
  kind, altered, mem, rows, misuse,
  engine, main, wal, filled, running, moved, files, copying, number, commits, jobs, restores,
  newest, exact, expected

tables == <<kind, altered, mem, rows, misuse>>
copies == <<engine, main, wal, filled, running, moved, files, copying, number, commits, jobs,
            restores, newest, exact, expected>>

MCThreads == {a, b, c}
MCHome == [t \in MCThreads |-> IF t = c THEN "cli" ELSE "app"]
Symmetry == Permutations({a, b})

Tables == INSTANCE Repositories WITH Ids <- {"e1", "e2"}, MaxDepth <- 3

Copies == INSTANCE Backups
  WITH Parts <- 2, MaxBackups <- 1, MaxCommits <- 2, MaxJobs <- 2, MaxRestores <- 2,
       job <- copying, serial <- number

MCInit ==
  /\ face \in {"connection", "tables", "copies"}
  /\ Init /\ Tables!Init /\ Copies!Init
  /\ engine = backend
  /\ face # "tables" => kind = "trades" /\ ~altered
  /\ face # "connection" => mix = {"get"} /\ stored.rows["row"] = 0

MCNext ==
  /\ UNCHANGED face
  /\ \/ face = "connection" /\ Next
     \/ face = "tables" /\ Tables!Next
     \/ face = "copies" /\ Copies!Next /\ UNCHANGED backend
  /\ face # "connection" =>
       UNCHANGED <<mix, stored, conn, job, calls, aged, serial, crashes>> /\ UNCHANGED ghosts
  /\ (face # "tables" => UNCHANGED tables) /\ (face # "copies" => UNCHANGED copies)

MCSpec == MCInit /\ [][MCNext]_<<face, vars, tables, copies>>

\* The properties of the other faces, each stated in the module of its face:
\* the repositories of three backends agree, and what was written is there again
\* when it is brought back from a backup.
StoresAndCopiesAgree == Tables!StoresAnswerAlike /\ Copies!LatestBringsBack

=============================================================================

--------------------------- MODULE LockFileElection ---------------------------
(***************************************************************************)
(* FileBasedLeaderElection (infrastructure/leader_election.py): processes   *)
(* of one machine lock one file.  The lock belongs to the open file, so it  *)
(* goes when that is closed, also when try_acquire opens the path anew and  *)
(* so drops the file it had; and stop() removes the path, whoever has a     *)
(* lock on the file that was there.                                         *)
(*                                                                         *)
(* Abstractions.  A file is its number.  A process elects in one thread.    *)
(* The callbacks are left out.                                              *)
(***************************************************************************)
EXTENDS Naturals

CONSTANTS
  Processes,
  NoProcess,  \* "nobody"
  MaxFiles    \* bound: files ever created at the path

VARIABLES
  path,     \* external: the file at _lock_path, or 0
  files,    \* external: how many there have been
  owner,    \* external: who has the lock on each file
  opened,   \* _lock_file, or 0
  leads,    \* _is_leader
  phase,    \* where a process is in try_acquire or stop
  removed   \* history: who removed each file

locking == <<path, files, owner, opened, leads, phase, removed>>

Files == 1..MaxFiles

Init ==
  /\ path = 0 /\ files = 0
  /\ owner = [f \in Files |-> NoProcess]
  /\ opened = [p \in Processes |-> 0]
  /\ leads = [p \in Processes |-> FALSE]
  /\ phase = [p \in Processes |-> "idle"]
  /\ removed = owner

(* The locks without those of a process.                                    *)
Dropped(p) == [f \in Files |-> IF owner[f] = p THEN NoProcess ELSE owner[f]]

GoTo(p, step) == phase' = [phase EXCEPT ![p] = step]

-----------------------------------------------------------------------------
(* open(path, "w"): the file it had is closed with it.                      *)
Open(p) ==
  /\ phase[p] = "idle"
  /\ IF path = 0
     THEN files < MaxFiles /\ files' = files + 1 /\ path' = files + 1
     ELSE UNCHANGED <<path, files>>
  /\ opened' = [opened EXCEPT ![p] = path']
  /\ owner' = Dropped(p)
  /\ GoTo(p, "open")
  /\ UNCHANGED <<leads, removed>>

(* An OSError: what it had, now or from before, is closed.                  *)
Depose(p) ==
  /\ leads' = [leads EXCEPT ![p] = FALSE]
  /\ opened' = [opened EXCEPT ![p] = 0]
  /\ owner' = Dropped(p)
  /\ GoTo(p, "idle")
  /\ UNCHANGED <<path, files, removed>>

CannotOpen(p) == phase[p] = "idle" /\ Depose(p)

(* flock, which does not wait.                                              *)
Lock(p) ==
  /\ phase[p] = "open"
  /\ owner[opened[p]] = NoProcess
  /\ owner' = [owner EXCEPT ![opened[p]] = p]
  /\ leads' = [leads EXCEPT ![p] = TRUE]
  /\ GoTo(p, "idle")
  /\ UNCHANGED <<path, files, opened, removed>>

CannotLock(p) ==
  /\ phase[p] = "open"
  /\ owner[opened[p]] # NoProcess
  /\ Depose(p)

(* release(), by itself or in stop(), which goes on to remove the path.     *)
Release(p) ==
  /\ phase[p] = "idle"
  /\ owner' = Dropped(p)
  /\ opened' = [opened EXCEPT ![p] = 0]
  /\ leads' = [leads EXCEPT ![p] = FALSE]
  /\ phase' \in {phase, [phase EXCEPT ![p] = "released"]}
  /\ UNCHANGED <<path, files, removed>>

Remove(p) ==
  /\ phase[p] = "released"
  /\ path' = 0
  /\ removed' = IF path = 0 THEN removed ELSE [removed EXCEPT ![path] = p]
  /\ GoTo(p, "idle")
  /\ UNCHANGED <<files, owner, opened, leads>>

(* The process dies; its files are closed.                                  *)
Die(p) == Depose(p)

Next ==
  \E p \in Processes :
    Open(p) \/ CannotOpen(p) \/ Lock(p) \/ CannotLock(p) \/ Release(p) \/ Remove(p) \/ Die(p)

Spec == Init /\ [][Next]_locking

-----------------------------------------------------------------------------
(* Two processes lead at once only while one of them is between opening the *)
(* path again and locking it, or after another one stopped and removed the  *)
(* file that it holds (FileBasedLeaderElection.stop).                       *)
OneLeaderPerFile ==
  \A p, q \in Processes :
    p # q /\ leads[p] /\ leads[q] =>
      \E x \in {p, q} :
        phase[x] = "open" \/ (opened[x] # 0 /\ removed[opened[x]] \notin {x, NoProcess})

=============================================================================

------------------------------- MODULE Failover -------------------------------
(***************************************************************************)
(* Several trading daemons on one lease file (infrastructure/               *)
(* ha_failover.py), each running the loop of application/                   *)
(* daemon_controller.py as far as leadership goes: the signal handler, the  *)
(* startup window, the leadership step at the top of the loop, the cycles,  *)
(* the drain.  The signal handler runs on the main thread between any two   *)
(* of its bytecodes, so Signal is enabled at every point of the loop, and    *)
(* also in the middle of the handler itself.                                *)
(*                                                                          *)
(* Abstractions.  Of the append-only lease file only the last line counts   *)
(* (LeaseStore.last).  Its age is counted in ticks and saturates one past   *)
(* StaleAfter.  The loop renews twice in a row (try_acquire_leadership and  *)
(* renew); a signal between the two has the effect of one after both, so    *)
(* they are one step.                                                       *)
(***************************************************************************)
EXTENDS Naturals, FiniteSets

CONSTANTS
  Nodes,       \* daemon processes sharing the data directory
  StaleAfter   \* stale_after_seconds, in ticks

VARIABLES
  lease,     \* the last lease record: its action and its age
  pc,        \* where each daemon's main thread is
  running,   \* _running
  leading,   \* _leading
  releasing, \* release() has appended its record and not yet cleared _leading
  shutdown,  \* _shutdown_graceful_done and _shutdown_at
  fresh,     \* history: the lease is as this daemon has read or released it
  raced,     \* history: an acquire, or the release of a second signal, was
             \* appended on a lease that had changed
  lapsed     \* history: the lease went stale under a daemon that has it

vars == <<lease, pc, running, leading, releasing, shutdown, fresh, raced, lapsed>>

Actions == {"none", "acquire", "renew", "release"}
Steps == {"down", "boot", "startup", "loop", "read", "append", "acquired", "renew", "lead", "trading"}

(* Types of the lease, the daemons and the history variables.               *)
TypeOK ==
  /\ lease \in [action : Actions, age : 0..(StaleAfter + 1)]
  /\ pc \in [Nodes -> Steps]
  /\ running \in [Nodes -> BOOLEAN]
  /\ leading \in [Nodes -> BOOLEAN]
  /\ releasing \in [Nodes -> BOOLEAN]
  /\ shutdown \in [Nodes -> {"no", "draining", "expired"}]
  /\ fresh \in [Nodes -> BOOLEAN]
  /\ raced \in BOOLEAN
  /\ lapsed \in BOOLEAN

Init ==
  /\ lease = [action |-> "none", age |-> 0]
  /\ pc = [n \in Nodes |-> "down"]
  /\ running = [n \in Nodes |-> FALSE]
  /\ leading = [n \in Nodes |-> FALSE]
  /\ releasing = [n \in Nodes |-> FALSE]
  /\ shutdown = [n \in Nodes |-> "no"]
  /\ fresh = [n \in Nodes |-> FALSE]
  /\ raced = FALSE
  /\ lapsed = FALSE

-----------------------------------------------------------------------------
GoTo(n, step) == pc' = [pc EXCEPT ![n] = step]

(* The main thread is about to go on there: it is not inside the handler.   *)
At(n, step) == pc[n] = step /\ ~releasing[n]

(* Mutants: the boundary tick taken as stale; a lease that never goes stale. *)
LeaseIsValidBefore ==
  lease.action \in {"acquire", "renew"} /\ lease.age < StaleAfter
LeaseIsValidForever == lease.action \in {"acquire", "renew"}

(* _lease_is_valid, of the last record.                                     *)
LeaseIsValid ==
  lease.action \in {"acquire", "renew"} /\ lease.age <= StaleAfter

(* LeaseStore.append: a new last line; what others have read is outdated.   *)
Append(action) ==
  /\ lease' = [action |-> action, age |-> 0]
  /\ fresh' = [n \in Nodes |-> FALSE]

-----------------------------------------------------------------------------
(* A daemon process starts, or restarts under a new owner name: run_forever *)
(* has installed its handlers.                                              *)
Start(n) ==
  /\ At(n, "down")
  /\ GoTo(n, "boot")
  /\ shutdown' = [shutdown EXCEPT ![n] = "no"]
  /\ UNCHANGED <<lease, running, leading, releasing, fresh, raced, lapsed>>

(* Recovery, local state and reconciliation begin, unless a signal came.    *)
Boot(n) ==
  /\ At(n, "boot")
  /\ GoTo(n, IF shutdown[n] = "no" THEN "startup" ELSE "loop")
  /\ UNCHANGED <<lease, running, leading, releasing, shutdown, fresh, raced, lapsed>>

(* start(): sets _running, whatever happened during the startup work.       *)
Started(n) ==
  /\ At(n, "startup")
  /\ running' = [running EXCEPT ![n] = TRUE]
  /\ GoTo(n, "loop")
  /\ UNCHANGED <<lease, leading, releasing, shutdown, fresh, raced, lapsed>>

(* handle_stop: stop() clears _running and, if the daemon leads, appends    *)
(* the release, whatever the main thread is in the middle of ...            *)
Signal(n) ==
  /\ pc[n] # "down"
  /\ shutdown[n] = "no"
  /\ running' = [running EXCEPT ![n] = FALSE]
  /\ releasing' = [releasing EXCEPT ![n] = leading[n]]
  /\ raced' = (raced \/ (releasing[n] /\ ~fresh[n]))
  /\ IF leading[n]
     THEN /\ lease' = [action |-> "release", age |-> 0]
          /\ fresh' = [m \in Nodes |-> m = n]
          /\ UNCHANGED shutdown
     ELSE /\ shutdown' = [shutdown EXCEPT ![n] = "draining"]
          /\ UNCHANGED <<lease, fresh>>
  /\ UNCHANGED <<pc, leading, lapsed>>

(* ... clears _leading, and lets the drain begin.  Before that the others   *)
(* see the release, and a second signal appends it once more.               *)
Released(n) ==
  /\ releasing[n]
  /\ leading' = [leading EXCEPT ![n] = FALSE]
  /\ releasing' = [releasing EXCEPT ![n] = FALSE]
  /\ shutdown' = [shutdown EXCEPT ![n] = "draining"]
  /\ UNCHANGED <<lease, pc, running, fresh, raced, lapsed>>

(* shutdown_timeout seconds after the signal.                               *)
Deadline(n) ==
  /\ shutdown[n] = "draining"
  /\ shutdown' = [shutdown EXCEPT ![n] = "expired"]
  /\ UNCHANGED <<lease, pc, running, leading, releasing, fresh, raced, lapsed>>

(* The process ends: what it held in memory is gone, the lease stays.       *)
Die(n) ==
  /\ GoTo(n, "down")
  /\ running' = [running EXCEPT ![n] = FALSE]
  /\ leading' = [leading EXCEPT ![n] = FALSE]
  /\ releasing' = [releasing EXCEPT ![n] = FALSE]
  /\ shutdown' = [shutdown EXCEPT ![n] = "no"]
  /\ UNCHANGED <<lease, fresh, raced, lapsed>>

(* Mutant: the forced shutdown is missing.                                  *)
ExitWhenDrained(n) == At(n, "loop") /\ ~running[n] /\ Die(n)

(* Loop top: the deadline has passed, or the daemon no longer runs.         *)
Exit(n) ==
  /\ At(n, "loop")
  /\ shutdown[n] = "expired" \/ ~running[n]
  /\ Die(n)

(* SIGKILL, OOM, host loss, or an exception nothing catches.                *)
Crash(n) == pc[n] # "down" /\ Die(n)

-----------------------------------------------------------------------------
(* Loop top, leadership: a leader goes on to renew, ...                     *)
LoopTop(n) ==
  /\ At(n, "loop")
  /\ running[n]
  /\ shutdown[n] # "expired"
  /\ GoTo(n, IF leading[n] THEN "renew" ELSE "read")
  /\ UNCHANGED <<lease, running, leading, releasing, shutdown, fresh, raced, lapsed>>

(* ... without looking at the lease: the check of _leading is behind it.    *)
Renew(n) ==
  /\ At(n, "renew")
  /\ Append("renew")
  /\ GoTo(n, "lead")
  /\ UNCHANGED <<running, leading, releasing, shutdown, raced, lapsed>>

(* try_acquire_leadership reads the last record: a live lease, of whatever  *)
(* owner, refuses, and the standby sleeps ...                               *)
Standby(n) ==
  /\ At(n, "read")
  /\ LeaseIsValid
  /\ GoTo(n, "loop")
  /\ UNCHANGED <<lease, running, leading, releasing, shutdown, fresh, raced, lapsed>>

(* ... and any other is for the taking.                                     *)
SeeFree(n) ==
  /\ At(n, "read")
  /\ ~LeaseIsValid
  /\ GoTo(n, "append")
  /\ fresh' = [fresh EXCEPT ![n] = TRUE]
  /\ UNCHANGED <<lease, running, leading, releasing, shutdown, raced, lapsed>>

(* The acquire is appended; nothing looks whether the lease is as it was.   *)
Acquire(n) ==
  /\ At(n, "append")
  /\ Append("acquire")
  /\ raced' = (raced \/ ~fresh[n])
  /\ GoTo(n, "acquired")
  /\ UNCHANGED <<running, leading, releasing, shutdown, lapsed>>

Acquired(n) ==
  /\ At(n, "acquired")
  /\ leading' = [leading EXCEPT ![n] = TRUE]
  /\ GoTo(n, "lead")
  /\ UNCHANGED <<lease, running, releasing, shutdown, fresh, raced, lapsed>>

(* The cycles of one iteration, a market each; _running is looked at before *)
(* each of them, the lease is not.                                          *)
BeginCycle(n) ==
  /\ At(n, "lead")
  /\ running[n]
  /\ GoTo(n, "trading")
  /\ UNCHANGED <<lease, running, leading, releasing, shutdown, fresh, raced, lapsed>>

EndCycle(n) ==
  /\ At(n, "trading")
  /\ GoTo(n, "lead")
  /\ UNCHANGED <<lease, running, leading, releasing, shutdown, fresh, raced, lapsed>>

(* No market is left, the gate is closed, or the loop broke off: sleep.     *)
NextIteration(n) ==
  /\ At(n, "lead")
  /\ GoTo(n, "loop")
  /\ UNCHANGED <<lease, running, leading, releasing, shutdown, fresh, raced, lapsed>>

(* The lease is this daemon's, as far as it knows.                          *)
Owns(n) == (leading[n] /\ ~releasing[n]) \/ pc[n] = "acquired"

(* Time passes, also while a leader sleeps, hangs in a broker call or waits *)
(* for the disk.                                                            *)
Tick ==
  /\ lease.age <= StaleAfter
  /\ lease' = [lease EXCEPT !.age = @ + 1]
  /\ lapsed' = (lapsed \/ (lease.age = StaleAfter /\ \E n \in Nodes : Owns(n)))
  /\ UNCHANGED <<pc, running, leading, releasing, shutdown, fresh, raced>>

-----------------------------------------------------------------------------
(* What the main thread does by itself.                                     *)
Thread(n) ==
  \/ Boot(n) \/ Started(n) \/ Exit(n) \/ LoopTop(n) \/ Renew(n)
  \/ Standby(n) \/ SeeFree(n) \/ Acquire(n) \/ Acquired(n) \/ EndCycle(n) \/ NextIteration(n)
  \/ Released(n)

Next ==
  \/ \E n \in Nodes : Thread(n) \/ BeginCycle(n)
  \/ \E n \in Nodes : Start(n) \/ Signal(n) \/ Deadline(n) \/ Crash(n)
  \/ Tick

Spec == Init /\ [][Next]_vars

(* A live process runs, its market loop is finite, and clocks go on.        *)
FairSpec ==
  /\ Spec
  /\ WF_vars(Tick)
  /\ \A n \in Nodes : /\ WF_vars(Thread(n))
                      /\ SF_vars(NextIteration(n))
                      /\ WF_vars(Deadline(n))

-----------------------------------------------------------------------------
(* Two daemons lead at once only after a leader's lease went stale under it *)
(* (an iteration longer than stale_after), after two acquisitions           *)
(* overlapped, or after a second signal in the middle of the release.  Not  *)
(* counted is the moment of a release in which the record is written and    *)
(* _leading still set (ha_failover.py:185-188): the daemon is in its signal *)
(* handler then, and stopped.  No restart and no late renewal does it.      *)
SplitBrainOnlyByLapseOrRace ==
  ~raced /\ ~lapsed => Cardinality({n \in Nodes : leading[n] /\ ~releasing[n]}) <= 1

(* Two daemons run cycles at once only for those reasons, or because one of *)
(* them is draining the cycle it was in when it was stopped.                *)
OverlapOnlyInDrain ==
  ~raced /\ ~lapsed =>
    \A n, m \in Nodes :
      (n # m /\ pc[n] = "trading" /\ pc[m] = "trading") => ~running[n] \/ ~running[m]

(* A standby that stays up when every other daemon is gone, crashed or      *)
(* stopped, takes over and keeps the lead.                                  *)
Alone(n) ==
  /\ pc[n] # "down" /\ shutdown[n] = "no"
  /\ \A m \in Nodes \ {n} : pc[m] = "down"
StandbyTakesOver == \A n \in Nodes : <>[]Alone(n) => <>[]leading[n]

(* A stop signal ends the process, also one that arrives during startup,    *)
(* where start() sets _running again afterwards.                            *)
SignalledStops == \A n \in Nodes : releasing[n] \/ shutdown[n] = "draining" ~> pc[n] = "down"

=============================================================================

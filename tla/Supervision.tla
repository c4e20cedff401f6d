----------------------------- MODULE Supervision ------------------------------
(***************************************************************************)
(* The heartbeat file (infrastructure/supervision.py): every process of the *)
(* installation appends to the one file in its data directory, a daemon on  *)
(* each turn of its loop, the API process when an operator starts or stops  *)
(* its orchestrator; who starts looks at the last line first, and tells the *)
(* trader when it is a heartbeat that nobody followed up.  The API process  *)
(* beats only as it starts its orchestrator, and ends without a marker.     *)
(*                                                                          *)
(* Abstractions.  Only the last line is ever read, so only it is kept.  A   *)
(* cycle takes any time.  That the alarm reaches somebody is in Paging.     *)
(***************************************************************************)
EXTENDS Integers, FiniteSets

CONSTANTS
  Daemons,     \* processes that run_forever
  Api,         \* the process that serves the API
  StaleAfter,  \* stale_after_seconds, in ticks of the clock
  MaxTime,     \* bound: the clock
  MaxLaunches  \* bound: how often a process is launched

VARIABLES
  now,
  pc,         \* where a process is; "down" when it does not run
  running,    \* DaemonController._running
  signalled,  \* _shutdown_graceful_done, and the signal that set it
  launches,   \* history: how often it was launched, the number of its instance
  last,       \* the last line, or none when it cannot be read
  torn,       \* the last line was cut off by a loss of power
  killed      \* history: the instances that died as they ran, not told to stop

vars == <<now, pc, running, signalled, launches, last, torn, killed>>

Processes == Daemons \cup {Api}
None == {}
Instance(p) == <<p, launches[p]>>

Init ==
  /\ now = 0
  /\ pc = [p \in Processes |-> "down"]
  /\ running = [p \in Processes |-> FALSE]
  /\ signalled = [p \in Processes |-> FALSE]
  /\ launches = [p \in Processes |-> 0]
  /\ last = None /\ torn = FALSE /\ killed = {}

GoTo(p, step) == pc' = [pc EXCEPT ![p] = step]

(* JsonlHeartbeatStore.append: what is appended to a line that was cut off  *)
(* makes one line with it, and cannot be read either.  crossed is history:  *)
(* the instance had been told to stop.                                      *)
Append(p, action) ==
  /\ last' = IF torn THEN None
             ELSE {[by |-> Instance(p), action |-> action, ts |-> now, crossed |-> signalled[p]]}
  /\ torn' = FALSE

(* check_unclean_shutdown: does it raise the alarm?                         *)
Stale == \E l \in last : l.action = "heartbeat" /\ now - l.ts > StaleAfter

-----------------------------------------------------------------------------
Launched(p, step) ==
  /\ pc[p] = "down" /\ launches[p] < MaxLaunches
  /\ GoTo(p, step)
  /\ launches' = [launches EXCEPT ![p] = @ + 1]
  /\ running' = [running EXCEPT ![p] = FALSE]
  /\ signalled' = [signalled EXCEPT ![p] = FALSE]
  /\ UNCHANGED <<now, last, torn, killed>>

(* run_forever: the signal handlers come first.                             *)
Launch(d) == Launched(d, "installed")

(* The API process serves, and does not look at the file before it is told  *)
(* to start the orchestrator ...                                            *)
Serve == Launched(Api, "idle")

(* ... and ends, when it is told to, without a word.                        *)
ApiEnds ==
  /\ pc[Api] = "idle"
  /\ GoTo(Api, "down")
  /\ UNCHANGED <<now, running, signalled, launches, last, torn, killed>>

(* A signal that came already leaves the startup out; one that comes during *)
(* the startup does not.                                                    *)
BeginStartup(d) ==
  /\ pc[d] = "installed"
  /\ GoTo(d, IF signalled[d] THEN "top" ELSE "startup")
  /\ UNCHANGED <<now, running, signalled, launches, last, torn, killed>>

(* DaemonController.start, in a daemon or by a request to the API process:  *)
(* the check, which only looks, and the first heartbeat.                    *)
Check(p) ==
  /\ pc[p] \in {"startup", "idle"}
  /\ running' = [running EXCEPT ![p] = TRUE]
  /\ GoTo(p, "checked")
  /\ UNCHANGED <<now, signalled, launches, last, torn, killed>>

FirstBeat(p) ==
  /\ pc[p] = "checked"
  /\ Append(p, "heartbeat")
  /\ GoTo(p, IF p = Api THEN "idle" ELSE "top")
  /\ UNCHANGED <<now, running, signalled, launches, killed>>

(* Mutant: the process stops without a word.                                *)
StopSilently(p) ==
  /\ running' = [running EXCEPT ![p] = FALSE]
  /\ UNCHANGED <<last, torn>>

(* DaemonController.stop, as far as it is about supervision.                *)
Stop(p) ==
  /\ running' = [running EXCEPT ![p] = FALSE]
  /\ Append(p, "shutdown")

(* handle_stop, between any two steps of the daemon.                        *)
Signal(d) ==
  /\ pc[d] # "down" /\ ~signalled[d]
  /\ signalled' = [signalled EXCEPT ![d] = TRUE]
  /\ Stop(d)
  /\ UNCHANGED <<now, pc, launches, killed>>

(* The operator stops the orchestrator of the API process, perhaps on       *)
(* another request thread than the one that starts it.                      *)
ApiStop ==
  /\ pc[Api] # "down"
  /\ Stop(Api)
  /\ UNCHANGED <<now, pc, signalled, launches, killed>>

(* The top of the loop: a daemon that is not running leaves it, and so does *)
(* one that was signalled during its startup, by force, when its time is up.*)
Leave(d) ==
  /\ pc[d] = "top"
  /\ ~running[d] \/ signalled[d]
  /\ GoTo(d, "down")
  /\ UNCHANGED <<now, running, signalled, launches, last, torn, killed>>

GoOn(d) ==
  /\ pc[d] = "top"
  /\ running[d]
  /\ GoTo(d, "beat")
  /\ UNCHANGED <<now, running, signalled, launches, last, torn, killed>>

Beat(d) ==
  /\ pc[d] = "beat"
  /\ Append(d, "heartbeat")
  /\ GoTo(d, "working")
  /\ UNCHANGED <<now, running, signalled, launches, killed>>

(* Lease, gate, cycles and the sleep.                                       *)
Work(d) ==
  /\ pc[d] = "working"
  /\ GoTo(d, "top")
  /\ UNCHANGED <<now, running, signalled, launches, last, torn, killed>>

(* Somebody counts on it: a daemon that was not told to stop, an API        *)
(* process whose orchestrator was started and not stopped.                  *)
CountedOn(p) == IF p = Api THEN pc[p] = "idle" /\ running[p] ELSE ~signalled[p]

(* A kill, an exception that leaves the loop, or a loss of power, which may *)
(* cut a line off.                                                          *)
Die(p) ==
  /\ pc[p] # "down"
  /\ GoTo(p, "down")
  /\ killed' = IF CountedOn(p) THEN killed \cup {Instance(p)} ELSE killed
  /\ \/ UNCHANGED <<last, torn>>
     \/ pc[p] \in {"checked", "beat"} /\ torn' = TRUE /\ last' = None
  /\ UNCHANGED <<now, running, signalled, launches>>

Tick ==
  /\ now < MaxTime
  /\ now' = now + 1
  /\ UNCHANGED <<pc, running, signalled, launches, last, torn, killed>>

Next ==
  \/ \E p \in Processes : Check(p) \/ FirstBeat(p) \/ Die(p)
  \/ \E d \in Daemons :
       Launch(d) \/ BeginStartup(d) \/ Signal(d) \/ Leave(d) \/ GoOn(d) \/ Beat(d) \/ Work(d)
  \/ Serve \/ ApiStop \/ ApiEnds
  \/ Tick

Spec == Init /\ [][Next]_vars

-----------------------------------------------------------------------------
Alive(instance) == pc[instance[1]] # "down" /\ Instance(instance[1]) = instance

(* "a stale heartbeat with no shutdown marker means the previous process    *)
(* was killed" (supervision.py): whoever starts raises the alarm only when  *)
(* the last writer was killed, unless that one is alive and slow, or its    *)
(* stop crossed its startup or its heartbeat, or it is an API process,      *)
(* whose beat nothing follows up when it ends; and it does raise it for an  *)
(* instance, of either kind, that was killed as it ran, some time ago, and  *)
(* was the last to write.                                                   *)
AlarmIsForTheDead ==
  [][\A p \in Processes : pc[p] # "checked" /\ pc'[p] = "checked" =>
       IF Stale
       THEN \A l \in last : l.by \in killed \/ Alive(l.by) \/ l.crossed \/ l.by[1] = Api
       ELSE \A l \in last : \A i \in killed :
              i # l.by \/ now - l.ts <= StaleAfter]_vars

=============================================================================

--------------------------- MODULE AdvisoryElection ---------------------------
(***************************************************************************)
(* LeaderElection (infrastructure/leader_election.py): each node asks, once *)
(* per heartbeat and on a connection of its own that is never renewed, for  *)
(* one advisory lock of PostgreSQL.  The lock belongs to the session, which *)
(* may hold it several times: every heartbeat of the leader takes it once   *)
(* more, and release() gives it back once.  A stop waits a while for the    *)
(* heartbeat thread, and not longer: a late one goes on beside it, and      *)
(* after a new start beside the new thread.                                 *)
(*                                                                         *)
(* Abstractions.  Heartbeats come at any time.  The callbacks are left out. *)
(***************************************************************************)
EXTENDS Naturals

CONSTANTS
  Nodes,
  Slots,    \* bound: heartbeat threads of a node at a time
  MaxHold   \* bound: how often a session takes the lock

VARIABLES
  held,      \* external: how often the session of a node holds the lock
  up,        \* external: the session of the node lives
  leader,    \* _is_leader
  stopping,  \* _stop_event
  beat,      \* the heartbeat threads: none, at the head of the loop, or with an answer
  main,      \* where the thread is that starts and stops
  heard,     \* history: the node has learnt that its session is gone
  late       \* history: an answer was applied after the lock had gone

elected == <<held, up, leader, stopping, beat, main, heard, late>>

Answers == {"yes", "no", "error"}

Init ==
  /\ held = [n \in Nodes |-> 0] /\ up = [n \in Nodes |-> TRUE]
  /\ leader = [n \in Nodes |-> FALSE]
  /\ stopping = [n \in Nodes |-> FALSE]
  /\ beat = [n \in Nodes |-> [s \in Slots |-> "none"]]
  /\ main = [n \in Nodes |-> "idle"]
  /\ heard = [n \in Nodes |-> FALSE] /\ late = [n \in Nodes |-> FALSE]

-----------------------------------------------------------------------------
(* start(): whether or not an earlier thread is still there.                *)
Start(n) ==
  /\ main[n] = "idle"
  /\ \E s \in Slots :
       /\ beat[n][s] = "none"
       /\ beat' = [beat EXCEPT ![n][s] = "head"]
  /\ stopping' = [stopping EXCEPT ![n] = FALSE]
  /\ UNCHANGED <<held, up, leader, main, heard, late>>

Free(n) == \A m \in Nodes \ {n} : held[m] = 0

(* pg_try_advisory_lock: the server grants it to the session that has it    *)
(* already; the answer may not arrive.                                      *)
Ask(n, s) ==
  /\ beat[n][s] = "head" /\ ~stopping[n]
  /\ \/ /\ up[n] /\ Free(n) /\ held[n] < MaxHold
        /\ held' = [held EXCEPT ![n] = @ + 1]
        /\ \E answer \in {"yes", "error"} : beat' = [beat EXCEPT ![n][s] = answer]
     \/ /\ UNCHANGED held
        /\ \/ up[n] /\ ~Free(n) /\ beat' = [beat EXCEPT ![n][s] = "no"]
           \/ beat' = [beat EXCEPT ![n][s] = "error"]
  /\ UNCHANGED <<up, leader, stopping, main, heard, late>>

(* Mutant: a connection error leaves the leadership as it is.               *)
VerdictKept(n, answer) == answer = "yes" \/ (answer = "error" /\ leader[n])

(* _is_leader after an answer, an exception among them.                     *)
Verdict(n, answer) == answer = "yes"

(* The answer is applied, in a step of its own.                             *)
Apply(n, s) ==
  /\ beat[n][s] \in Answers
  /\ leader' = [leader EXCEPT ![n] = Verdict(n, beat[n][s])]
  /\ heard' = [heard EXCEPT ![n] = @ \/ (beat[n][s] = "error" /\ ~up[n])]
  /\ late' = [late EXCEPT ![n] = CASE beat[n][s] = "yes" -> held[n] = 0 \/ late[n]
                                   [] OTHER -> FALSE]
  /\ beat' = [beat EXCEPT ![n][s] = "head"]
  /\ UNCHANGED <<held, up, stopping, main>>

(* The loop ends once it sees the event.                                    *)
EndBeat(n, s) ==
  /\ beat[n][s] = "head" /\ stopping[n]
  /\ beat' = [beat EXCEPT ![n][s] = "none"]
  /\ UNCHANGED <<held, up, leader, stopping, main, heard, late>>

(* stop(): the event is set; the join ends with the thread, or without it;  *)
(* release() unlocks once, whatever the server says, and lets go.           *)
BeginStop(n) ==
  /\ main[n] = "idle"
  /\ stopping' = [stopping EXCEPT ![n] = TRUE]
  /\ main' = [main EXCEPT ![n] = "joining"]
  /\ UNCHANGED <<held, up, leader, beat, heard, late>>

Unlock(n) ==
  /\ main[n] = "joining"
  /\ \/ held' = [held EXCEPT ![n] = IF @ > 0 THEN @ - 1 ELSE 0]
     \/ UNCHANGED held
  /\ main' = [main EXCEPT ![n] = "unlocked"]
  /\ UNCHANGED <<up, leader, stopping, beat, heard, late>>

LetGo(n) ==
  /\ main[n] = "unlocked"
  /\ leader' = [leader EXCEPT ![n] = FALSE]
  /\ main' = [main EXCEPT ![n] = "idle"]
  /\ late' = [late EXCEPT ![n] = FALSE]
  /\ UNCHANGED <<held, up, stopping, beat, heard>>

-----------------------------------------------------------------------------
(* The network or the server ends a session, and its locks with it.         *)
LoseSession(n) ==
  /\ up[n]
  /\ up' = [up EXCEPT ![n] = FALSE]
  /\ held' = [held EXCEPT ![n] = 0]
  /\ UNCHANGED <<leader, stopping, beat, main, heard, late>>

(* The process ends and is started again, with a new connection.            *)
Restart(n) ==
  /\ up' = [up EXCEPT ![n] = TRUE] /\ held' = [held EXCEPT ![n] = 0]
  /\ leader' = [leader EXCEPT ![n] = FALSE]
  /\ stopping' = [stopping EXCEPT ![n] = FALSE]
  /\ beat' = [beat EXCEPT ![n] = [s \in Slots |-> "none"]]
  /\ main' = [main EXCEPT ![n] = "idle"]
  /\ heard' = [heard EXCEPT ![n] = FALSE] /\ late' = [late EXCEPT ![n] = FALSE]

Next ==
  \E n \in Nodes :
    \/ Start(n) \/ BeginStop(n) \/ Unlock(n) \/ LetGo(n)
    \/ \E s \in Slots : Ask(n, s) \/ Apply(n, s) \/ EndBeat(n, s)
    \/ LoseSession(n) \/ Restart(n)

Spec == Init /\ [][Next]_elected

-----------------------------------------------------------------------------
(* A node that leads without the lock does so between the two steps of a    *)
(* release, until a heartbeat tells it that its session is gone, or because *)
(* an answer came to be applied after the lock had gone; so two nodes never *)
(* lead at once but for one of these (try_acquire, release).                *)
OneLeaderOrExcused ==
  \A m, n \in Nodes :
    m # n /\ leader[m] /\ leader[n] =>
      \E x \in {m, n} :
        held[x] = 0 /\ (main[x] = "unlocked" \/ late[x] \/ (~up[x] /\ ~heard[x]))

=============================================================================

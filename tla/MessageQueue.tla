----------------------------- MODULE MessageQueue -----------------------------
(***************************************************************************)
(* InMemoryMessageQueue (infrastructure/message_queue.py): publish puts a   *)
(* message on the buffer while the queue runs, and calls the handlers       *)
(* itself while it does not; a loop thread takes messages off and calls     *)
(* them.  A stop leaves the buffer as it is, and waits a while for the      *)
(* loop, and not longer, so that after the next start two may run.          *)
(*                                                                         *)
(* Abstractions.  One topic; what is subscribed to all is subscribed to it. *)
(* A handler subscribes once at a time, publishes nothing, and what it      *)
(* raises is logged.                                                        *)
(***************************************************************************)
EXTENDS Naturals, Sequences

CONSTANTS
  Publishers, Handlers,
  Loops,       \* bound: loop threads at a time
  MaxMessages  \* bound: messages of a publisher

VARIABLES
  running,      \* _running
  buffer,       \* _buffer; a message is its publisher and its number
  subscribers,  \* _subscribers
  thread,       \* the threads: where each is, its message, the handlers to call
  sent,         \* history: how many messages each publisher has published
  calls,        \* history: the messages that each handler was called with
  direct,       \* history: the messages that publish dispatched itself
  doubled       \* history: a loop was started beside another one

messaging == <<running, buffer, subscribers, thread, sent, calls, direct, doubled>>

Threads == Publishers \cup Loops
Idle == [at |-> "none", msg |-> <<>>, rest |-> {}]

Init ==
  /\ running = FALSE /\ buffer = <<>> /\ subscribers = {}
  /\ thread = [t \in Threads |-> Idle]
  /\ sent = [p \in Publishers |-> 0]
  /\ calls = [h \in Handlers |-> <<>>]
  /\ direct = {} /\ doubled = FALSE

Take(t, m) == thread' = [thread EXCEPT ![t] = [at |-> "taken", msg |-> m, rest |-> {}]]

-----------------------------------------------------------------------------
Publish(p) ==
  LET m == <<p, sent[p] + 1>>
  IN /\ thread[p] = Idle /\ sent[p] < MaxMessages
     /\ sent' = [sent EXCEPT ![p] = @ + 1]
     /\ IF running
        THEN buffer' = Append(buffer, m) /\ UNCHANGED <<thread, direct>>
        ELSE Take(p, m) /\ direct' = direct \cup {m} /\ UNCHANGED buffer
     /\ UNCHANGED <<running, subscribers, calls, doubled>>

(* subscribe, unsubscribe.                                                  *)
ChangeSubscription(h) ==
  /\ subscribers' = IF h \in subscribers THEN subscribers \ {h} ELSE subscribers \cup {h}
  /\ UNCHANGED <<running, buffer, thread, sent, calls, direct, doubled>>

(* start: a new loop thread, whatever became of the last one.               *)
Start ==
  /\ \E l \in Loops :
       /\ thread[l] = Idle
       /\ thread' = [thread EXCEPT ![l].at = "head"]
  /\ running' = TRUE
  /\ doubled' = (doubled \/ \E l \in Loops : thread[l] # Idle)
  /\ UNCHANGED <<buffer, subscribers, sent, calls, direct>>

Stop ==
  /\ running' = FALSE
  /\ UNCHANGED <<buffer, subscribers, thread, sent, calls, direct, doubled>>

-----------------------------------------------------------------------------
(* _dispatch_loop: while self._running ...                                  *)
LookAtRunning(l) ==
  /\ thread[l].at = "head"
  /\ thread' = [thread EXCEPT ![l].at = IF running THEN "looked" ELSE "none"]
  /\ UNCHANGED <<running, buffer, subscribers, sent, calls, direct, doubled>>

(* ... one message, or none and a sleep.                                    *)
Pop(l) ==
  /\ thread[l].at = "looked"
  /\ IF buffer = <<>>
     THEN thread' = [thread EXCEPT ![l] = [Idle EXCEPT !.at = "head"]] /\ UNCHANGED buffer
     ELSE Take(l, Head(buffer)) /\ buffer' = Tail(buffer)
  /\ UNCHANGED <<running, subscribers, sent, calls, direct, doubled>>

(* _dispatch, in a loop or in publish: who is subscribed now ...            *)
CopyHandlers(t) ==
  /\ thread[t].at = "taken"
  /\ thread' = [thread EXCEPT ![t].at = "calling", ![t].rest = subscribers]
  /\ UNCHANGED <<running, buffer, subscribers, sent, calls, direct, doubled>>

(* ... is called, one after the other.                                      *)
CallHandler(t, h) ==
  /\ thread[t].at = "calling" /\ h \in thread[t].rest
  /\ calls' = [calls EXCEPT ![h] = Append(@, thread[t].msg)]
  /\ thread' = [thread EXCEPT ![t].rest = @ \ {h}]
  /\ UNCHANGED <<running, buffer, subscribers, sent, direct, doubled>>

Done(t) ==
  /\ thread[t].at = "calling" /\ thread[t].rest = {}
  /\ thread' = [thread EXCEPT ![t] = IF t \in Loops THEN [Idle EXCEPT !.at = "head"] ELSE Idle]
  /\ UNCHANGED <<running, buffer, subscribers, sent, calls, direct, doubled>>

Next ==
  \/ \E p \in Publishers : Publish(p)
  \/ \E h \in Handlers : ChangeSubscription(h)
  \/ Start \/ Stop
  \/ \E l \in Loops : LookAtRunning(l) \/ Pop(l)
  \/ \E t \in Threads : CopyHandlers(t) \/ Done(t) \/ \E h \in Handlers : CallHandler(t, h)

Spec == Init /\ [][Next]_messaging

-----------------------------------------------------------------------------
(* No handler is called twice with a message, and with those of one         *)
(* publisher in their order, unless the later one was published while the   *)
(* queue was stopped and the earlier one still waited in the buffer or the  *)
(* loop, or two loops ran (publish, start, stop, _dispatch_loop).           *)
OncePerHandlerInOrder ==
  \A h \in Handlers : \A j \in 1..Len(calls[h]) : \A i \in 1..(j - 1) :
    LET first == calls[h][i]
        second == calls[h][j]
    IN /\ first # second
       /\ first[1] = second[1] /\ first[2] > second[2] =>
            second \notin direct /\ (first \in direct \/ doubled)

=============================================================================

------------------------------ MODULE LiveEvents ------------------------------
(***************************************************************************)
(* The live feed of the dashboard: the kill switch and the other endpoints  *)
(* that publish events (interfaces/api/operator.py, server.py), the broker  *)
(* with a bounded queue for each open page (interfaces/api/events.py), and *)
(* event_stream, which sends a page a snapshot and then the events.         *)
(*                                                                         *)
(* Of an event its kind is kept, and whether the switch is on.  Keepalive   *)
(* frames change nothing and are left out.                                  *)
(***************************************************************************)
EXTENDS Naturals, Sequences

CONSTANTS
  Requests,      \* request threads of the API process
  Tabs,          \* pages
  MaxLen,        \* maxlen of the broker
  MaxPublished   \* bound on the requests that publish

VARIABLES
  circuit,       \* KillSwitch.circuit_open, as an event puts it
  at, event,     \* where each request is, and what it has to tell
  targets,       \* subscribers that it has not told yet
  slow,          \* the subscriber whose queue it has found full
  subscribers,   \* _subscribers
  queue,         \* of each page
  stream,        \* event_stream of each page
  told,          \* what the page was last told of the switch
  published,
  doubt          \* history: nobody can know what the last event was to say

requests == <<at, event, targets, slow, published>>
pages == <<subscribers, queue, stream, told>>
vars == <<circuit, requests, pages, doubt>>

Switch == {"engaged", "clear"}
Commanding == {t \in Requests : at[t] # "idle" /\ event[t] \in Switch}
GoTo(t, place) == at' = [at EXCEPT ![t] = place]
AnySlow == CHOOSE s \in Tabs : TRUE

Init ==
  /\ circuit = "clear"
  /\ at = [t \in Requests |-> "idle"] /\ event = [t \in Requests |-> "other"]
  /\ targets = [t \in Requests |-> {}] /\ slow = [t \in Requests |-> AnySlow]
  /\ subscribers = {} /\ queue = [s \in Tabs |-> <<>>]
  /\ stream = [s \in Tabs |-> "new"] /\ told = [s \in Tabs |-> "nothing"]
  /\ published = 0 /\ doubt = FALSE

-----------------------------------------------------------------------------
(* The endpoints.                                                           *)

Begin(t, what) ==
  /\ at[t] = "idle" /\ published < MaxPublished
  /\ published' = published + 1
  /\ event' = [event EXCEPT ![t] = what]
  /\ GoTo(t, "publish")
  /\ UNCHANGED <<targets, slow, pages>>

\* engage_kill_switch and disengage_kill_switch change the switch first and
\* tell of it at last, after the audit row and the notification.
Command(t, on) ==
  /\ Begin(t, on)
  /\ circuit' = on
  /\ doubt' = (Commanding # {})

\* A step of the workflow, or the orchestrator's start or stop.
Announce(t) == Begin(t, "other") /\ UNCHANGED <<circuit, doubt>>

\* The audit row cannot be written, or the notification raises: the request
\* fails, the switch stays as it has been set.
Fails(t) ==
  /\ at[t] = "publish" /\ event[t] \in Switch
  /\ GoTo(t, "idle") /\ doubt' = TRUE
  /\ UNCHANGED <<circuit, event, targets, slow, published, pages>>

\* Rejected orders of retail users open the circuit too, and publish nothing.
Trip ==
  /\ circuit = "clear"
  /\ circuit' = "engaged" /\ doubt' = TRUE
  /\ UNCHANGED <<requests, pages>>

-----------------------------------------------------------------------------
(* publish(): the subscribers are listed under the lock and served without. *)

Publish(t) ==
  /\ at[t] = "publish"
  /\ targets' = [targets EXCEPT ![t] = subscribers]
  /\ GoTo(t, "offer")
  /\ UNCHANGED <<circuit, event, slow, published, pages, doubt>>

Put(t, s) ==
  /\ queue' = [queue EXCEPT ![s] = Append(@, event[t])]
  /\ UNCHANGED <<subscribers, stream, told>>
Served(t, s) == targets' = [targets EXCEPT ![t] = @ \ {s}]

\* Mutant: the queue keeps what it has.
OfferOrDrop(t, s) ==
  /\ at[t] = "offer" /\ s \in targets[t]
  /\ Served(t, s)
  /\ IF Len(queue[s]) < MaxLen THEN Put(t, s) ELSE UNCHANGED pages
  /\ UNCHANGED <<circuit, at, event, slow, published, doubt>>

Offer(t, s) ==
  /\ at[t] = "offer" /\ s \in targets[t]
  /\ IF Len(queue[s]) < MaxLen
     THEN Put(t, s) /\ Served(t, s) /\ UNCHANGED <<at, slow>>
     ELSE GoTo(t, "drop") /\ slow' = [slow EXCEPT ![t] = s] /\ UNCHANGED <<pages, targets>>
  /\ UNCHANGED <<circuit, event, published, doubt>>

\* The oldest event makes room, unless the page has taken all by now ...
Tells(q) == \E i \in DOMAIN q : q[i] \in Switch
DropOldest(t) ==
  /\ at[t] = "drop"
  /\ GoTo(t, "again")
  /\ IF queue[slow[t]] = <<>> THEN UNCHANGED <<queue, doubt>>
     ELSE LET rest == Tail(queue[slow[t]])
          IN /\ queue' = [queue EXCEPT ![slow[t]] = rest]
             /\ doubt' = (doubt \/ (Tells(queue[slow[t]]) /\ ~Tells(rest)))
  /\ UNCHANGED <<circuit, event, targets, slow, published, subscribers, stream, told>>

\* ... for the new one, which is lost if another thread took the room.
OfferAgain(t) ==
  /\ at[t] = "again"
  /\ Served(t, slow[t]) /\ GoTo(t, "offer")
  /\ IF Len(queue[slow[t]]) < MaxLen THEN Put(t, slow[t]) /\ UNCHANGED doubt
     ELSE doubt' = (doubt \/ event[t] \in Switch) /\ UNCHANGED pages
  /\ UNCHANGED <<circuit, event, slow, published>>

Respond(t) ==
  /\ at[t] = "offer" /\ targets[t] = {}
  /\ GoTo(t, "idle")
  /\ event' = [event EXCEPT ![t] = "other"] /\ slow' = [slow EXCEPT ![t] = AnySlow]
  /\ UNCHANGED <<circuit, targets, published, pages, doubt>>

-----------------------------------------------------------------------------
(* event_stream of a page.                                                  *)

Subscribe(s) ==
  /\ stream[s] = "new"
  /\ stream' = [stream EXCEPT ![s] = "subscribed"]
  /\ subscribers' = subscribers \cup {s}
  /\ UNCHANGED <<circuit, requests, queue, told, doubt>>

\* _live_snapshot, which says it is not ready whatever goes wrong in it.
Snapshot(s) ==
  /\ stream[s] = "subscribed"
  /\ stream' = [stream EXCEPT ![s] = "open"]
  /\ \E says \in {circuit, "unready"} : told' = [told EXCEPT ![s] = says]
  /\ UNCHANGED <<circuit, requests, subscribers, queue, doubt>>

Send(s) ==
  /\ stream[s] = "open" /\ queue[s] # <<>>
  /\ queue' = [queue EXCEPT ![s] = Tail(@)]
  /\ told' = IF Head(queue[s]) \in Switch THEN [told EXCEPT ![s] = Head(queue[s])] ELSE told
  /\ UNCHANGED <<circuit, requests, subscribers, stream, doubt>>

\* The page is gone, and may come back to a queue of its own.  What requests
\* that have listed it still put in the old one nobody will see.
Close(s) ==
  /\ stream[s] # "new"
  /\ stream' = [stream EXCEPT ![s] = "new"]
  /\ told' = [told EXCEPT ![s] = "nothing"]
  /\ queue' = [queue EXCEPT ![s] = <<>>]
  /\ subscribers' = subscribers \ {s}
  /\ targets' = [t \in Requests |-> targets[t] \ {s}]
  /\ at' = [t \in Requests |-> IF at[t] \in {"drop", "again"} /\ slow[t] = s THEN "offer" ELSE at[t]]
  /\ UNCHANGED <<circuit, event, slow, published, doubt>>

Next ==
  \/ Trip
  \/ \E t \in Requests :
       \/ \E on \in Switch : Command(t, on)
       \/ Announce(t) \/ Fails(t) \/ Publish(t) \/ DropOldest(t) \/ OfferAgain(t) \/ Respond(t)
       \/ \E s \in Tabs : Offer(t, s)
  \/ \E s \in Tabs : Subscribe(s) \/ Snapshot(s) \/ Send(s) \/ Close(s)

Spec == Init /\ [][Next]_vars

-----------------------------------------------------------------------------
\* A page that has been sent all there is knows whether trading is halted,
\* however slow it was and whenever it was opened; unless two commands
\* overlapped, one failed before it told of its change, the circuit opened by
\* itself, or its event was pushed out by later ones or found no room again
\* (interfaces/api/events.py:19, operator.py:155).
PagesKnowTheSwitch ==
  (\A t \in Requests : at[t] = "idle") /\ ~doubt =>
    \A s \in Tabs : stream[s] = "open" /\ queue[s] = <<>> => told[s] \in {circuit, "unready"}

=============================================================================

---------------------------- MODULE OnceOnlyOrders ----------------------------
(***************************************************************************)
(* What the order path promises, without saying how: an order is registered *)
(* durably before anything can happen to it; the broker opens at most one   *)
(* order for it; its outcome is settled at most once, and an outcome that   *)
(* says the broker has it is true; whoever is told an outcome is told that  *)
(* one.  (The promises of the docstrings of infrastructure/                 *)
(* journaled_broker.py and of _new_client_order_id in alpaca_broker.py.)    *)
(* OrderSubmission implements it: OrderSubmissionProofs.                    *)
(***************************************************************************)
CONSTANTS
  Orders,
  Copies,    \* what the broker may open for an order
  Outcomes,
  Placed     \* the outcomes that say the broker has the order

VARIABLES
  registered,  \* orders with a durable intent
  copies,      \* the orders the broker has opened for each of them
  outcome,     \* the settled outcome, as a set of at most one element
  answers      \* the outcomes callers were told

vars == <<registered, copies, outcome, answers>>

Init ==
  /\ registered = {}
  /\ copies = [o \in Orders |-> {}]
  /\ outcome = [o \in Orders |-> {}]
  /\ answers = [o \in Orders |-> {}]

Register(o) ==
  /\ o \notin registered
  /\ registered' = registered \cup {o}
  /\ UNCHANGED <<copies, outcome, answers>>

(* The broker may open the order at any time once it is registered, after   *)
(* it was settled as not placed included.                                   *)
Open(o, x) ==
  /\ o \in registered
  /\ copies[o] = {}
  /\ copies' = [copies EXCEPT ![o] = {x}]
  /\ UNCHANGED <<registered, outcome, answers>>

Settle(o, r) ==
  /\ o \in registered
  /\ outcome[o] = {}
  /\ r \in Placed => copies[o] # {}
  /\ outcome' = [outcome EXCEPT ![o] = {r}]
  /\ UNCHANGED <<registered, copies, answers>>

Tell(o) ==
  /\ outcome[o] # {}
  /\ answers' = [answers EXCEPT ![o] = @ \cup outcome[o]]
  /\ UNCHANGED <<registered, copies, outcome>>

Next ==
  \E o \in Orders :
    \/ Register(o)
    \/ \E x \in Copies : Open(o, x)
    \/ \E r \in Outcomes : Settle(o, r)
    \/ Tell(o)

Spec == Init /\ [][Next]_vars

=============================================================================

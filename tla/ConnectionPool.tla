---------------------------- MODULE ConnectionPool ----------------------------
(***************************************************************************)
(* The pools of PostgreSQL connections                                      *)
(* (infrastructure/database/connection.py): pooled_connection makes the     *)
(* pool of a database when there is none, and acquires from it; acquire     *)
(* looks at _closed before it takes the lock, hands the last connection     *)
(* that still answers out, and makes one when there is room; close_all      *)
(* closes also what is in use; release closes when the pool is closed.      *)
(*                                                                         *)
(* Abstractions.  One database.  What is done with a connection, and how    *)
(* that ends, is left out.                                                  *)
(***************************************************************************)
EXTENDS Naturals, Sequences, FiniteSets

CONSTANTS
  Users,           \* threads inside "with pooled_connection(dsn)"
  MinConnections, MaxConnections,
  MaxPools, MaxMade  \* bounds: pools, and connections, made in all

VARIABLES
  current,  \* _POOLS: the pool of the database, or 0
  pools,    \* history: how many have been made
  idle,     \* _pool of each
  inUse,    \* _in_use of each
  shut,     \* _closed of each
  made,     \* history: how many connections have been made
  open,     \* those that the client has not closed
  answers,  \* those whose session at the server lives
  user      \* each thread: where it is, its pool and its connection

pooling == <<current, pools, idle, inUse, shut, made, open, answers, user>>

Pools == 1..MaxPools
Outside == [at |-> "outside", pool |-> 0, conn |-> 0]

Init ==
  /\ current = 0 /\ pools = 0 /\ made = 0
  /\ idle = [p \in Pools |-> <<>>]
  /\ inUse = [p \in Pools |-> {}]
  /\ shut = [p \in Pools |-> FALSE]
  /\ open = {} /\ answers = {}
  /\ user = [t \in Users |-> Outside]

Move(t, place, p, c) == user' = [user EXCEPT ![t] = [at |-> place, pool |-> p, conn |-> c]]

-----------------------------------------------------------------------------
(* The pool is looked up, or made with its first connections.               *)
Enter(t) ==
  /\ user[t].at = "outside"
  /\ IF current # 0
     THEN Move(t, "entered", current, 0)
          /\ UNCHANGED <<current, pools, idle, made, open, answers>>
     ELSE /\ pools < MaxPools /\ made + MinConnections <= MaxMade
          /\ pools' = pools + 1 /\ current' = pools'
          /\ made' = made + MinConnections
          /\ idle' = [idle EXCEPT ![pools'] = [i \in 1..MinConnections |-> made + i]]
          /\ open' = open \cup (made + 1)..made' /\ answers' = answers \cup (made + 1)..made'
          /\ Move(t, "entered", pools', 0)
  /\ UNCHANGED <<inUse, shut>>

(* if self._closed, outside the lock.                                       *)
SeeClosed(t) ==
  /\ user[t].at = "entered"
  /\ IF shut[user[t].pool] THEN user' = [user EXCEPT ![t] = Outside]
     ELSE user' = [user EXCEPT ![t].at = "passed"]
  /\ UNCHANGED <<current, pools, idle, inUse, shut, made, open, answers>>

(* The connections that acquire takes off the end of the list: down to the  *)
(* last one that answers, if there is one.                                  *)
LastAnswering(s) ==
  CHOOSE i \in 0..Len(s) :
    /\ i > 0 => s[i] \in open \cap answers
    /\ \A j \in (i + 1)..Len(s) : s[j] \notin open \cap answers

From(s, i) == {s[j] : j \in i..Len(s)}

(* Does release() keep the connection?                                      *)
TakesBack(p, c) == ~shut[p] /\ c \in open \cap answers

(* acquire, under the lock: one is found ...                                *)
Reuse(t) ==
  LET p == user[t].pool
      i == LastAnswering(idle[p])
  IN /\ user[t].at = "passed"
     /\ i > 0
     /\ open' = open \ From(idle[p], i + 1)
     /\ idle' = [idle EXCEPT ![p] = SubSeq(@, 1, i - 1)]
     /\ inUse' = [inUse EXCEPT ![p] = @ \cup {idle[p][i]}]
     /\ Move(t, "inside", p, idle[p][i])
     /\ UNCHANGED <<current, pools, shut, made, answers>>

(* ... or none, and there is room for one, which may fail to be made, or    *)
(* there is no room.                                                        *)
Make(t) ==
  LET p == user[t].pool
  IN /\ user[t].at = "passed"
     /\ LastAnswering(idle[p]) = 0
     /\ idle' = [idle EXCEPT ![p] = <<>>]
     /\ \/ /\ Cardinality(inUse[p]) < MaxConnections /\ made < MaxMade
           /\ made' = made + 1
           /\ open' = (open \ From(idle[p], 1)) \cup {made'}
           /\ answers' = answers \cup {made'}
           /\ inUse' = [inUse EXCEPT ![p] = @ \cup {made'}]
           /\ Move(t, "inside", p, made')
        \/ /\ open' = open \ From(idle[p], 1)
           /\ user' = [user EXCEPT ![t] = Outside]
           /\ UNCHANGED <<made, answers, inUse>>
     /\ UNCHANGED <<current, pools, shut>>

(* finally: pool.release(conn).                                             *)
Release(t) ==
  LET p == user[t].pool
      c == user[t].conn
  IN /\ user[t].at = "inside"
     /\ inUse' = [inUse EXCEPT ![p] = @ \ {c}]
     /\ IF TakesBack(p, c)
        THEN idle' = [idle EXCEPT ![p] = Append(@, c)] /\ UNCHANGED open
        ELSE open' = open \ {c} /\ UNCHANGED idle
     /\ user' = [user EXCEPT ![t] = Outside]
     /\ UNCHANGED <<current, pools, shut, made, answers>>

(* close_all_pools.                                                         *)
CloseAll ==
  /\ current # 0
  /\ shut' = [shut EXCEPT ![current] = TRUE]
  /\ open' = open \ (From(idle[current], 1) \cup inUse[current])
  /\ idle' = [idle EXCEPT ![current] = <<>>]
  /\ inUse' = [inUse EXCEPT ![current] = {}]
  /\ current' = 0
  /\ UNCHANGED <<pools, made, answers, user>>

(* The server ends the session of a connection.                             *)
LoseConnection(c) ==
  /\ c \in open \cap answers
  /\ answers' = answers \ {c}
  /\ UNCHANGED <<current, pools, idle, inUse, shut, made, open, user>>

(* The process ends and is started again.                                   *)
Restart ==
  /\ current' = 0 /\ pools' = 0 /\ made' = 0
  /\ idle' = [p \in Pools |-> <<>>]
  /\ inUse' = [p \in Pools |-> {}]
  /\ shut' = [p \in Pools |-> FALSE]
  /\ open' = {} /\ answers' = {}
  /\ user' = [t \in Users |-> Outside]

Next ==
  \/ \E t \in Users : Enter(t) \/ SeeClosed(t) \/ Reuse(t) \/ Make(t) \/ Release(t)
  \/ CloseAll
  \/ \E c \in open : LoseConnection(c)
  \/ Restart

Spec == Init /\ [][Next]_pooling

-----------------------------------------------------------------------------
Idle(p) == From(idle[p], 1)
Held(p) == {user[t].conn : t \in {t \in Users : user[t].at = "inside" /\ user[t].pool = p}}

(* However users, dead sessions and close_all_pools interleave: no          *)
(* connection is in two hands, or in one and in a pool; no pool has more    *)
(* open than MaxConnections; and none is forgotten: what is open is in a    *)
(* hand or in a pool that is not closed, also when a user passed the check  *)
(* before the pool was closed (acquire, release, close_all).                *)
PoolKeepsCount ==
  /\ \A t, u \in Users :
       t # u /\ user[t].at = "inside" /\ user[u].at = "inside" => user[t].conn # user[u].conn
  /\ \A p \in Pools :
       /\ Held(p) \cap Idle(p) = {} /\ Cardinality(Idle(p)) = Len(idle[p])
       /\ Cardinality(open \cap (Held(p) \cup Idle(p))) <= MaxConnections
       /\ shut[p] => Idle(p) = {}
  /\ open \subseteq UNION {Held(p) \cup Idle(p) : p \in Pools}

=============================================================================

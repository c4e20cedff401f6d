---------------------------- MODULE MCOrderEvents ----------------------------
(***************************************************************************)
(* OrderEvents for TLC, and four parts that share nothing with it nor with  *)
(* each other: the message queue, the pool of connections and the two       *)
(* elections.  A behaviour is of one of the five, its face.  The elements   *)
(* of each set of constants are interchangeable: Init lets every event say  *)
(* everything.                                                              *)
(***************************************************************************)
EXTENDS OrderEvents, TLC

CONSTANTS
  Trio,     \* the users of the pool; the processes that lock a file
  Pair,     \* the loops of the queue; the heartbeat threads of a node
  Publishers, MaxMessages,                                     \* of the queue
  MinConnections, MaxConnections, MaxPools, MaxMade,           \* of the pool
  MaxHold, MaxFiles                                            \* of the elections

ASSUME PartsAssumption ==
  /\ Publishers \cap Pair = {} /\ NoEvent \notin Trio
  /\ {MaxMessages, MinConnections, MaxConnections, MaxPools, MaxMade, MaxHold, MaxFiles} \subseteq Nat
  /\ MinConnections <= MaxConnections

VARIABLES
  face,
  running, buffer, subscribers, thread, sent, calls, direct, doubled,
  current, pools, idle, inUse, shut, made, open, answers, user,
  held, up, leader, stopping, beat, main, heard, late,
  path, files, owner, opened, leads, phase, removed

messaging == <<running, buffer, subscribers, thread, sent, calls, direct, doubled>>
pooling == <<current, pools, idle, inUse, shut, made, open, answers, user>>
elected == <<held, up, leader, stopping, beat, main, heard, late>>
locking == <<path, files, owner, opened, leads, phase, removed>>

Symmetry == Permutations(Workers) \cup Permutations(Trades) \cup Permutations(Events)

Queue == INSTANCE MessageQueue
  WITH Handlers <- Workers, Loops <- Pair

Pool == INSTANCE ConnectionPool WITH Users <- Trio

Advisory == INSTANCE AdvisoryElection WITH Nodes <- Workers, Slots <- Pair

LockFile == INSTANCE LockFileElection WITH Processes <- Trio, NoProcess <- NoEvent

MCInit ==
  /\ face \in {"events", "queue", "pool", "advisory", "file"}
  /\ Init /\ Queue!Init /\ Pool!Init /\ Advisory!Init /\ LockFile!Init
  /\ face # "events" =>
       \A d, e \in Events : report[d] = report[e] /\ report[e].to = "filled" /\ report[e].sound

MCNext ==
  /\ UNCHANGED face
  /\ IF face = "events" THEN Next ELSE UNCHANGED vars
  /\ IF face = "queue" THEN Queue!Next ELSE UNCHANGED messaging
  /\ IF face = "pool" THEN Pool!Next ELSE UNCHANGED pooling
  /\ IF face = "advisory" THEN Advisory!Next ELSE UNCHANGED elected
  /\ IF face = "file" THEN LockFile!Next ELSE UNCHANGED locking

MCSpec == MCInit /\ [][MCNext]_<<vars, face, messaging, pooling, elected, locking>>

\* The properties of the other faces, each stated in its module: messages in
\* order, no connection in two hands, no two leaders, but for what is named
\* there.
SharedOneAtATime ==
  /\ Queue!OncePerHandlerInOrder
  /\ Pool!PoolKeepsCount
  /\ Advisory!OneLeaderOrExcused
  /\ LockFile!OneLeaderPerFile
=============================================================================

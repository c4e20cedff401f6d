--------------------------- MODULE MCOperatorConsole ---------------------------
(* OperatorConsole for TLC: request threads and daemons interchange.  All   *)
(* requests together are too many, so a behaviour is about one of the       *)
(* faces: three requests change the catalogue, two walk the workflow (one   *)
(* strategy can be promoted in it) beside the pilot, or the processes of    *)
(* the installation are stopped, die and are started again (Supervision).   *)
(* The workflow is not followed further when a save is torn and saves have  *)
(* overlapped or the pilot has saved: NoStepSkipped is excused for good.    *)
EXTENDS OperatorConsole, FiniteSets, TLC

CONSTANTS Daemons, Api, StaleAfter, MaxTime, MaxLaunches   \* of Supervision

VARIABLES face, now, pc, running, signalled, launches, last, cutOff, killed

supervised == <<now, pc, running, signalled, launches, last, cutOff, killed>>

Supervised == INSTANCE Supervision
  WITH torn <- cutOff

ASSUME SupervisionAssumption ==
  /\ Api \notin Daemons
  /\ StaleAfter \in Nat /\ MaxTime \in Nat /\ MaxLaunches \in Nat

OnCatalogue ==
  /\ at[Pilot] = "idle"
  /\ \A t \in Requests : job[t].step = 0
OnWorkflow ==
  /\ \A t \in Requests : job[t].op = "none" \/ (job[t].step > 0 /\ job[t].name \in Seeded)
  /\ Cardinality({t \in Requests : at[t] # "idle"}) < 3
  /\ torn => ~piloted /\ ~collided

MCInit ==
  /\ face \in {"catalogue", "workflow", "supervision"}
  /\ Init /\ Supervised!Init
AllEnded == \A p \in Supervised!Processes : pc[p] = "down" /\ launches[p] = MaxLaunches

MCNext ==
  /\ UNCHANGED face
  /\ \/ face = "supervision" /\ Supervised!Next /\ UNCHANGED vars
     \/ face = "supervision" /\ AllEnded /\ UNCHANGED <<vars, supervised>>
     \/ face # "supervision" /\ Next /\ UNCHANGED supervised
        /\ (IF face = "catalogue" THEN OnCatalogue ELSE OnWorkflow)'
MCSpec == MCInit /\ [][MCNext]_<<vars, face, supervised>>

\* The property of supervision, stated in the module of its face.
AlarmIsForTheDead == Supervised!AlarmIsForTheDead

Symmetry == Permutations(Requests) \cup Permutations(Daemons)
=============================================================================

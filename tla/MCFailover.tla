------------------------------ MODULE MCFailover ------------------------------
(***************************************************************************)
(* Failover for TLC, and for proofs beside those about the loop of one      *)
(* daemon, whose module has names of its own for where the thread is.       *)
(***************************************************************************)
EXTENDS Naturals

CONSTANTS Nodes, StaleAfter

ASSUME StaleAssumption == StaleAfter \in Nat

VARIABLES lease, thread, running, leading, releasing, shutdown, fresh, raced, lapsed

Ha == INSTANCE Failover WITH pc <- thread

HaSpec == Ha!FairSpec

\* The properties, stated in Failover.
SplitBrainOnlyByLapseOrRace == Ha!SplitBrainOnlyByLapseOrRace
StandbyTakesOver == Ha!StandbyTakesOver
SignalledStops == Ha!SignalledStops
=============================================================================

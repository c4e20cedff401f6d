------------------------------- MODULE MCPaging -------------------------------
(***************************************************************************)
(* Paging for TLC, and for proofs beside those about the operator console,  *)
(* whose module has names of its own for threads and what they hold.        *)
(***************************************************************************)
EXTENDS Naturals

CONSTANTS Probes, Transports, NoProbe

ASSUME PagingAssumption == Transports # {} /\ NoProbe \notin Probes

VARIABLES
  thread, stopEvent, left, got, todo, paged, latest, wanted, told, unheard, attempts

Pager == INSTANCE Paging WITH at <- thread, hand <- paged, last <- latest

PagerSpec == Pager!FairSpec

\* The properties, stated in Paging.
PagesOncePerOutage == Pager!PagesOncePerOutage
TimersGoOn == Pager!TimersGoOn
=============================================================================

------------------------------- MODULE MCGame -------------------------------
(***************************************************************************)
(* GameMain with a history variable: whether two children have been        *)
(* between the load and the store of `*shared_p += ...' at the same time.  *)
(***************************************************************************)
EXTENDS GameMain

VARIABLE overlapped

Adding == {p \in Children : upc[p] = "store"}

MCInit == GameInit /\ overlapped = FALSE

MCNext == GameNext /\ overlapped' = (overlapped \/ Cardinality(Adding') > 1)

MCSpec == MCInit /\ [][MCNext]_<<allvars, overlapped>> /\ GameFairness

(* The children add to one page, the father's, and the two that the        *)
(* semaphore lets in lose an addition (game/game.c:153) in one way only:   *)
(* one is preempted between its load and its store and another one is      *)
(* there as well.  No switch, fork or sharing of the page loses one.       *)
SumExact ==
  ~overlapped => page[0] = MapThenSumSet(LAMBDA p : p % 3, Added)

=============================================================================

---------------------------- MODULE MCHomeSlides ----------------------------
(***************************************************************************)
(* Two slides and ids for more, two requests at a time and MaxRequests in  *)
(* all, on a pool that two open transactions exhaust.                      *)
(***************************************************************************)
EXTENDS HomeSlides

CONSTANT MaxRequests   \* bounds how many requests are served

VARIABLE served

MCInit == SlidesInit /\ served = 0

MCNext ==
    /\ SlidesNext
    /\ served' = served + Cardinality({t \in Tx : request[t] = Idle /\ request'[t] # Idle})
    /\ served' <= MaxRequests

MCFairness == \A t \in Tx : WF_<<slideVars, served>>(Step(t) /\ UNCHANGED served)

MCSpec == MCInit /\ [][MCNext]_<<slideVars, served>> /\ MCFairness
=============================================================================

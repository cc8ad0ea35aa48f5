----------------------------- MODULE MCReviewDesk -----------------------------
(* Values for the constants of ReviewDesk that a .cfg cannot write. *)
EXTENDS ReviewDesk

Plain == [asks_human |-> FALSE, mandatory |-> FALSE, impact |-> "low",
          contradictory |-> FALSE, check_passed |-> TRUE, failing |-> FALSE,
          complete |-> TRUE, confident |-> TRUE, action |-> "approve"]

\* The case that is automated, and every case that differs from it in one
\* answer: each return of the router is taken by one of them.
Deviations ==
  {shape \in CaseShapes :
     Cardinality({f \in DOMAIN Plain : shape[f] # Plain[f]}) <= 1}
===============================================================================

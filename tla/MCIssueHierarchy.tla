--------------------------- MODULE MCIssueHierarchy ---------------------------
(* Values for the constants of IssueHierarchy that a .cfg cannot write. *)
EXTENDS IssueHierarchy, TLC

\* Processes and definitions are interchangeable.
MCSymmetry == Permutations(Processes) \cup Permutations(Definitions)
===============================================================================

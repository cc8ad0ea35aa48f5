---------------------------- MODULE MCEventStream ----------------------------
(* Small instances of EventStream for TLC. *)
EXTENDS EventStream, TLC

\* The first issue is alone in its partition when there are two.
MCPartitionOf ==
  [a \in Aggregates |-> IF a = "i1" THEN CHOOSE p \in Partitions : TRUE
                        ELSE CHOOSE p \in Partitions :
                               Cardinality(Partitions) > 1 =>
                                 p # CHOOSE q \in Partitions : TRUE]

MCSymmetry == Permutations(Dispatchers) \cup Permutations(Consumers)
=============================================================================

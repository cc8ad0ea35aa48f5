---------------------------- MODULE EventDelivery ----------------------------
(***************************************************************************)
(* What the event path promises end to end: an event that was committed    *)
(* with its issue is added to the counter of that issue at most once, and  *)
(* only after it was committed, and nothing else moves a counter, whatever *)
(* is retried, duplicated or redelivered on the way.                       *)
(***************************************************************************)
EXTENDS Naturals, Sequences, FiniteSets

CONSTANTS Aggregates, Kinds

VARIABLES
  committed,   \* the events in the order they were committed
  projected,   \* those the projection has counted, by position
  counts       \* what it shows of each issue

vars == <<committed, projected, counts>>

Init ==
  /\ committed = <<>>
  /\ projected = {}
  /\ counts = [a \in Aggregates |-> 0]

Emit(a, kind) ==
  /\ committed' = Append(committed, [aggregate |-> a, kind |-> kind])
  /\ UNCHANGED <<projected, counts>>

Project(e) ==
  /\ e \in (1..Len(committed)) \ projected
  /\ committed[e].kind = "issue"
  /\ projected' = projected \cup {e}
  /\ counts' = [counts EXCEPT ![committed[e].aggregate] = @ + 1]
  /\ UNCHANGED committed

Next ==
  \/ \E a \in Aggregates, kind \in Kinds : Emit(a, kind)
  \/ \E e \in 1..Len(committed) : Project(e)

Spec == Init /\ [][Next]_vars
=============================================================================

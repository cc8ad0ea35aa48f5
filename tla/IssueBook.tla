------------------------------- MODULE IssueBook ------------------------------
(***************************************************************************)
(* What the service desk promises about an issue: it opens once, moves     *)
(* only along the edges of its workflow, and every change of it takes the  *)
(* next version number.                                                    *)
(***************************************************************************)
EXTENDS Naturals

CONSTANTS Issues, Rules

VARIABLES status, version

vars == <<status, version>>

Init ==
  /\ status = [i \in Issues |-> "absent"]
  /\ version = [i \in Issues |-> 0]

Open(i) ==
  /\ status[i] = "absent"
  /\ status' = [status EXCEPT ![i] = "open"]
  /\ version' = [version EXCEPT ![i] = 1]

\* The rule is applied to the status the issue has now, not to one read before.
Move(i, rule) ==
  /\ status[i] = rule.source
  /\ status' = [status EXCEPT ![i] = rule.target]
  /\ version' = [version EXCEPT ![i] = @ + 1]

Reassign(i) ==
  /\ status[i] # "absent"
  /\ version' = [version EXCEPT ![i] = @ + 1]
  /\ UNCHANGED status

Next == \E i \in Issues : Open(i) \/ Reassign(i) \/ \E rule \in Rules : Move(i, rule)

Spec == Init /\ [][Next]_vars
=============================================================================

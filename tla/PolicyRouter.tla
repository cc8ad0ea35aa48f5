----------------------------- MODULE PolicyRouter -----------------------------
(***************************************************************************)
(* human_agent/policy.py: the route a case takes and the priority a        *)
(* reviewer sees.  A case is the answers to the router's questions: the    *)
(* comparisons of confidence, completeness and failures with the           *)
(* thresholds of PolicyConfig are the fields confident, complete and       *)
(* failing; the switches of the configuration are on, as by default.       *)
(***************************************************************************)
EXTENDS Integers, FiniteSets

Impacts == {"low", "medium", "high"}
Actions == {"approve", "reject", "request_information", "review"}

CaseShapes ==
  [asks_human : BOOLEAN, mandatory : BOOLEAN, impact : Impacts, contradictory : BOOLEAN,
   check_passed : BOOLEAN, failing : BOOLEAN, complete : BOOLEAN, confident : BOOLEAN,
   action : Actions]

\* The reasons collected before anything is compared with a threshold.
Reasons(case) ==
  {r \in {"high_impact_decision", "contradictory_evidence", "model_rule_disagreement",
          "repeated_automation_failure"} :
     \/ r = "high_impact_decision" /\ case.impact = "high"
     \/ r = "contradictory_evidence" /\ case.contradictory
     \/ r = "model_rule_disagreement" /\ ~case.check_passed
     \/ r = "repeated_automation_failure" /\ case.failing}

AtMost(limit, n) == IF n > limit THEN limit ELSE n

\* _priority
Weight(case, reasons) ==
  AtMost(100,
    40 + (CASE case.impact = "low" -> 0 [] case.impact = "medium" -> 15
            [] case.impact = "high" -> 30)
       + (IF "contradictory_evidence" \in reasons THEN 15 ELSE 0)
       + (IF "model_rule_disagreement" \in reasons THEN 10 ELSE 0)
       + (IF "repeated_automation_failure" \in reasons THEN 10 ELSE 0))

To(route, priority) == [route |-> route, priority |-> priority]

\* Mutation of Routed: confidence is looked at before the reasons for a human.
RoutedConfidenceFirst(case) ==
  CASE case.asks_human -> To("human_review", 100)
    [] ~case.asks_human /\ case.mandatory -> To("human_review", 95)
    [] ~case.asks_human /\ ~case.mandatory /\ case.confident /\ case.complete ->
         To("automate", 0)
    [] OTHER -> To("human_review", Weight(case, Reasons(case)))

\* PolicyRouter.route, in the order of its returns.
Routed(case) ==
  IF case.asks_human THEN To("human_review", 100)
  ELSE IF case.mandatory THEN To("human_review", 95)
  ELSE IF Reasons(case) # {} THEN To("human_review", Weight(case, Reasons(case)))
  ELSE IF ~case.complete THEN To("ask_customer", 0)
  ELSE IF ~case.confident THEN To("human_review", Weight(case, {}))
  ELSE IF case.action = "request_information" THEN To("ask_customer", 0)
  ELSE IF case.action \in {"approve", "reject"} THEN To("automate", 0)
  ELSE To("human_review", 80)
===============================================================================

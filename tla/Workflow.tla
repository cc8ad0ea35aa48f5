------------------------------- MODULE Workflow -------------------------------
(***************************************************************************)
(* The workflow definitions of service_desk/models.py: what a transition   *)
(* rule is, and the "service-request" workflow the service registers.  A   *)
(* registered version never changes (register_workflow), so the modules    *)
(* that use a workflow take its rules as a constant.                       *)
(***************************************************************************)
EXTENDS Naturals

Statuses == {"open", "triaged", "in_progress", "waiting_for_customer", "resolved", "closed"}
Roles == {"requester", "agent", "admin", "ai_worker"}

\* TransitionRule; a rule that requires a resolution is the only one to take it.
RuleShape(rules) ==
  \A r \in rules :
    /\ r.source \in Statuses
    /\ r.target \in Statuses
    /\ r.allowed_roles \subseteq Roles
    /\ r.requires_resolution \in BOOLEAN

\* WorkflowDefinition.__post_init__
NamesUnique(rules) ==
  \A r, s \in rules : r.source = s.source /\ r.name = s.name => r = s

AgentRoles  == {"agent", "admin"}
PeopleRoles == {"requester", "agent", "admin"}
WorkerRoles == {"agent", "admin", "ai_worker"}

Rule(name, source, target, roles) ==
  [name |-> name, source |-> source, target |-> target, allowed_roles |-> roles,
   requires_resolution |-> name = "resolve"]

\* default_workflow
DefaultRules ==
  {Rule("triage", "open", "triaged", WorkerRoles),
   Rule("start", "triaged", "in_progress", AgentRoles),
   Rule("request_information", "in_progress", "waiting_for_customer", AgentRoles),
   Rule("customer_replied", "waiting_for_customer", "in_progress", PeopleRoles),
   Rule("resolve", "in_progress", "resolved", AgentRoles),
   Rule("close", "resolved", "closed", PeopleRoles),
   Rule("reopen", "resolved", "in_progress", PeopleRoles)}
=============================================================================

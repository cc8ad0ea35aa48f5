---------------------------- MODULE IssueDeskProofs ---------------------------
(***************************************************************************)
(* Theorems about IssueDesk for every set of issues, callers, keys and     *)
(* rules.  TypeInv says that rows and requests have their types and that a *)
(* request names an issue that exists.  Fresh is what the version test     *)
(* buys: a request whose version is still current was submitted on the row *)
(* as it stands, so the rule and the clock it carries still fit.  It holds *)
(* of callers that send only versions they have seen.  VersionsTold and    *)
(* OnPath are about the log of an issue: LogStep says that a log stays or  *)
(* grows by the event that tells what happened to the row.                 *)
(***************************************************************************)
EXTENDS IssueDesk, LeastElements, SequenceTheorems

RequestsBound ==
  \A c \in Callers :
    request[c].op \in {"transition", "assign", "comment"} => Exists(request[c].issue)

TypeInv == TypeOK /\ RequestsBound

-----------------------------------------------------------------------------
(* What the row operators return. *)

LEMMA OpenedRowType ==
  ASSUME NEW p \in Projects, NEW n \in Nat, NEW at \in 0..Horizon
  PROVE  /\ OpenedRow(p, n, at) \in IssueRows
         /\ OpenedRow(p, n, at).status = "open"
         /\ OpenedRow(p, n, at).version = 1
         /\ OpenedRow(p, n, at).created_at = at
         /\ OpenedRow(p, n, at).updated_at = at
BY DEF OpenedRow, IssueRows, Statuses

LEMMA MovedRowType ==
  ASSUME NEW row \in IssueRows, NEW rule \in Rules, NEW at \in 0..Horizon
  PROVE  /\ MovedRow(row, rule, at) \in IssueRows
         /\ MovedRow(row, rule, at).status = rule.target
         /\ MovedRow(row, rule, at).status # "absent"
         /\ MovedRow(row, rule, at).version = row.version + 1
         /\ MovedRow(row, rule, at).created_at = row.created_at
         /\ MovedRow(row, rule, at).updated_at = at
BY RulesAssumption DEF MovedRow, IssueRows, Statuses, RuleShape

LEMMA AssignedRowType ==
  ASSUME NEW row \in IssueRows, NEW a \in Assignees, NEW at \in 0..Horizon
  PROVE  /\ AssignedRow(row, a, at) \in IssueRows
         /\ AssignedRow(row, a, at).status = row.status
         /\ AssignedRow(row, a, at).version = row.version + 1
         /\ AssignedRow(row, a, at).created_at = row.created_at
         /\ AssignedRow(row, a, at).updated_at = at
BY DEF AssignedRow, IssueRows

LEMMA OpenedSlaType ==
  ASSUME NEW p \in Policies, NEW at \in 0..Horizon
  PROVE  OpenedSla(p, at) \in SlaRows(Horizon)
<1>1. p.first_response \in Nat /\ p.resolution \in Nat
  BY PolicyAssumption
<1>2. at \in Nat
  BY BoundAssumption
<1>3. at + p.first_response \in Nat /\ at + p.resolution \in Nat
  BY <1>1, <1>2
<1> QED
  BY <1>3 DEF OpenedSla, SlaRows, OrNone, Instants

LEMMA MovedSlaType ==
  ASSUME NEW row \in SlaRows(Horizon), NEW source, NEW target, NEW at \in 0..Horizon
  PROVE  MovedSla(row, source, target, at) \in SlaRows(Horizon)
<1>1. PausedSla(row, at) \in SlaRows(Horizon)
  BY DEF PausedSla, SlaRows, OrNone, Instants
<1>2. ASSUME NEW r \in SlaRows(Horizon) PROVE ResolvedSla(r, at) \in SlaRows(Horizon)
  BY DEF ResolvedSla, Coalesce, SlaRows, OrNone, Instants
<1>3. ASSUME row.paused_at # None PROVE ResumedSla(row, at) \in SlaRows(Horizon)
  <2>1. Pause(row, at) \in Nat
    BY <1>3, BoundAssumption DEF Pause, SlaRows, OrNone, Instants
  <2> QED
    BY <2>1 DEF ResumedSla, SlaRows, OrNone, Instants
<1> QED
  BY <1>1, <1>2, <1>3 DEF MovedSla

LEMMA RespondedSlaType ==
  ASSUME NEW row \in SlaRows(Horizon), NEW at \in 0..Horizon
  PROVE  RespondedSla(row, at) \in SlaRows(Horizon)
BY DEF RespondedSla, Coalesce, SlaRows, OrNone, Instants

LEMMA SlaRowsNotNone == None \notin SlaRows(Horizon)
BY NullAssumption

LEMMA RequestKinds ==
  ASSUME NEW q \in Requests
  PROVE  /\ q.op = "create" =>
              /\ q.project \in Projects /\ q.key \in Keys
              /\ q.payload \in Payloads /\ q.at \in 0..Horizon
         /\ q.op = "transition" =>
              q.issue \in Issues /\ q.expected \in Nat /\ q.rule \in Rules /\ q.at \in 0..Horizon
         /\ q.op = "assign" =>
              /\ q.issue \in Issues /\ q.expected \in Nat
              /\ q.assignee \in Assignees /\ q.at \in 0..Horizon
         /\ q.op = "comment" => q.issue \in Issues /\ q.at \in 0..Horizon
BY DEF Requests, Idle

\* Each event has the type of its operation.
LEMMA EventTypes ==
  ASSUME NEW c \in Callers
  PROVE  /\ [type |-> "issue_created", actor |-> c] \in Events
         /\ [type |-> "comment_added", actor |-> c] \in Events
         /\ <<[type |-> "issue_created", actor |-> c]>> \in Seq(Events)
         /\ \A rule \in Rules, from, to \in Statuses, v \in Nat :
              [type |-> "issue_transitioned", actor |-> c, name |-> rule.name,
               from |-> from, to |-> to, version |-> v] \in Events
         /\ \A a \in Assignees, v \in Nat :
              [type |-> "issue_assigned", actor |-> c, assignee |-> a, version |-> v] \in Events
<1> DEFINE created == [type |-> "issue_created", actor |-> c]
<1>1. created \in Events
  BY DEF Events
<1>2. <<created>> \in Seq(Events)
  <2> HIDE DEF created
  <2> QED
    BY <1>1
<1> QED
  BY <1>1, <1>2 DEF Events

\* One more event is written at the end of the log of one issue.
LEMMA LogGrows ==
  ASSUME log \in [Issues -> Seq(Events)], NEW i \in Issues, NEW event \in Events,
         log' = [log EXCEPT ![i] = Append(log[i], event)]
  PROVE  log' \in [Issues -> Seq(Events)]
<1>1. Append(log[i], event) \in Seq(Events)
  BY AppendProperties
<1> QED
  BY <1>1

-----------------------------------------------------------------------------
(* Types *)

LEMMA TypeInit == Init => TypeInv
BY BoundAssumption
DEF Init, TypeInv, TypeOK, RequestsBound, Exists, NoIssue, Idle, IssueRows, Requests

\* What the actions that leave a request behind, or none, have to show.
LEMMA RequestStep ==
  ASSUME TypeInv,
         NEW c \in Callers, NEW q \in Requests,
         q.op \in {"transition", "assign", "comment"} => Exists(q.issue),
         request' = [request EXCEPT ![c] = q],
         UNCHANGED <<now, policy, next, keys, issues, sla, log>>,
         answers' \subseteq Answers
  PROVE  TypeInv'
<1>1. request' \in [Callers -> Requests]
  BY DEF TypeInv, TypeOK
<1>2. RequestsBound'
  BY DEF TypeInv, TypeOK, RequestsBound, Exists
<1> QED
  BY <1>1, <1>2 DEF TypeInv, TypeOK, Exists

LEMMA ExpectableType ==
  ASSUME TypeInv, NEW i \in Issues PROVE Expectable(i) \subseteq Nat
BY BoundAssumption DEF Expectable, TypeInv, TypeOK, IssueRows

LEMMA TypeNext == TypeInv /\ [Next]_vars => TypeInv'
<1> SUFFICES ASSUME TypeInv, [Next]_vars PROVE TypeInv'
  OBVIOUS
<1>a. Idle \in Requests
  BY DEF Requests
<1>b. Idle.op = "idle"
  BY DEF Idle
<1>c. now \in 0..Horizon /\ answers \subseteq Answers
  BY DEF TypeInv, TypeOK
<1>1. CASE Tick
  BY <1>1, BoundAssumption DEF Tick, TypeInv, TypeOK, RequestsBound, Exists
<1>2. ASSUME NEW c \in Callers, ConfigureSla(c) PROVE TypeInv'
  BY <1>2 DEF ConfigureSla, TypeInv, TypeOK, RequestsBound, Exists
<1>3. ASSUME NEW c \in Callers, SubmitCreate(c) PROVE TypeInv'
  <2>1. PICK p \in Projects, k \in Keys, h \in Payloads :
          request' = [request EXCEPT ![c] =
            [op |-> "create", project |-> p, key |-> k, payload |-> h, at |-> now]]
    BY <1>3 DEF SubmitCreate
  <2> DEFINE q == [op |-> "create", project |-> p, key |-> k, payload |-> h, at |-> now]
  <2>2. q \in Requests
    BY <1>c DEF Requests
  <2>3. q.op = "create"
    OBVIOUS
  <2> HIDE DEF q
  <2> QED
    BY <1>c, <1>3, <2>1, <2>2, <2>3, RequestStep DEF SubmitCreate, q
<1>4. ASSUME NEW c \in Callers, SubmitTransition(c) PROVE TypeInv'
  <2>1. PICK i \in Issues, rule \in Rules, e \in Nat :
          /\ Exists(i)
          /\ e \in Expectable(i)
          /\ request' = [request EXCEPT ![c] =
               [op |-> "transition", issue |-> i, expected |-> e, rule |-> rule, at |-> now]]
    BY <1>4, ExpectableType DEF SubmitTransition
  <2> DEFINE q == [op |-> "transition", issue |-> i, expected |-> e, rule |-> rule,
                   at |-> now]
  <2>3. q \in Requests
    BY <1>c DEF Requests
  <2>4. q.issue = i
    OBVIOUS
  <2> HIDE DEF q
  <2> QED
    BY <1>c, <1>4, <2>1, <2>3, <2>4, RequestStep DEF SubmitTransition, q
<1>5. ASSUME NEW c \in Callers, SubmitAssign(c) PROVE TypeInv'
  <2>1. PICK i \in Issues, a \in Assignees, e \in Nat :
          /\ Exists(i)
          /\ e \in Expectable(i)
          /\ request' = [request EXCEPT ![c] =
               [op |-> "assign", issue |-> i, expected |-> e, assignee |-> a, at |-> now]]
    BY <1>5, ExpectableType DEF SubmitAssign
  <2> DEFINE q == [op |-> "assign", issue |-> i, expected |-> e, assignee |-> a, at |-> now]
  <2>3. q \in Requests
    BY <1>c DEF Requests
  <2>4. q.issue = i
    OBVIOUS
  <2> HIDE DEF q
  <2> QED
    BY <1>c, <1>5, <2>1, <2>3, <2>4, RequestStep DEF SubmitAssign, q
<1>6. ASSUME NEW c \in Callers, SubmitComment(c) PROVE TypeInv'
  <2>1. PICK i \in Issues, internal \in BOOLEAN :
          /\ Exists(i)
          /\ request' = [request EXCEPT ![c] =
               [op |-> "comment", issue |-> i, internal |-> internal, at |-> now]]
    BY <1>6 DEF SubmitComment
  <2> DEFINE q == [op |-> "comment", issue |-> i, internal |-> internal, at |-> now]
  <2>2. q \in Requests
    BY <1>c DEF Requests
  <2>3. q.issue = i
    OBVIOUS
  <2> HIDE DEF q
  <2> QED
    BY <1>c, <1>6, <2>1, <2>2, <2>3, RequestStep DEF SubmitComment, q
<1>7. ASSUME NEW c \in Callers, CommitCreate(c) PROVE TypeInv'
  <2> DEFINE q == request[c]
  <2>1. /\ q.project \in Projects /\ q.key \in Keys
        /\ q.payload \in Payloads /\ q.at \in 0..Horizon
    BY <1>7, RequestKinds DEF CommitCreate, TypeInv, TypeOK
  <2>2. PICK i \in Issues :
          /\ ~Exists(i)
          /\ issues' = [issues EXCEPT ![i] = OpenedRow(q.project, next[q.project], q.at)]
          /\ sla' = [sla EXCEPT ![i] =
               IF policy[q.project] = None THEN None
               ELSE OpenedSla(policy[q.project], q.at)]
          /\ keys' = [keys EXCEPT ![q.project][q.key] =
               [payload |-> q.payload, issue |-> i]]
    BY <1>7 DEF CommitCreate
  <2>3. next[q.project] \in Nat /\ next' \in [Projects -> Nat \ {0}]
    BY <1>7, <2>1 DEF CommitCreate, TypeInv, TypeOK, SequenceAfter
  <2>4. /\ issues' \in [Issues -> IssueRows]
        /\ issues'[i].status = "open" /\ issues'[i].version = 1
        /\ \A j \in Issues \ {i} : issues'[j] = issues[j]
    BY <2>1, <2>2, <2>3, OpenedRowType DEF TypeInv, TypeOK
  <2>5. /\ sla' \in [Issues -> SlaRows(Horizon) \cup {None}]
        /\ \A j \in Issues \ {i} : sla'[j] = sla[j]
    <3>1. policy[q.project] \in Policies \cup {None}
      BY <2>1 DEF TypeInv, TypeOK
    <3> QED
      BY <2>1, <2>2, <3>1, OpenedSlaType DEF TypeInv, TypeOK
  <2>6. keys' \in [Projects -> [Keys -> KeyRows \cup {None}]]
    BY <2>1, <2>2 DEF TypeInv, TypeOK, KeyRows
  <2>7. request' \in [Callers -> Requests] /\ RequestsBound'
    BY <1>7, <1>a, <1>b, <2>4, RequestKinds
    DEF CommitCreate, TypeInv, TypeOK, RequestsBound, Exists
  <2>8. \A j \in Issues : /\ Exists(j)' <=> issues'[j].version > 0
                          /\ sla'[j] # None => Exists(j)'
    <3>1. \A j \in Issues : /\ Exists(j) <=> issues[j].version > 0
                            /\ sla[j] # None => Exists(j)
      BY DEF TypeInv, TypeOK
    <3> QED
      BY <2>4, <2>5, <3>1 DEF Exists
  <2>9. log' \in [Issues -> Seq(Events)] /\ answers' \subseteq Answers
    <3>1. PICK j \in Issues :
            /\ log' = [log EXCEPT ![j] = <<[type |-> "issue_created", actor |-> c]>>]
            /\ answers' = answers \cup {Answer(q, j)}
      BY <1>7 DEF CommitCreate
    <3>2. <<[type |-> "issue_created", actor |-> c]>> \in Seq(Events)
      BY EventTypes
    <3>3. Answer(q, j) \in Answers
      BY <2>1 DEF Answer, Answers
    <3> QED
      BY <1>c, <3>1, <3>2, <3>3 DEF TypeInv, TypeOK
  <2> QED
    BY <1>7, <2>3, <2>4, <2>5, <2>6, <2>7, <2>8, <2>9 DEF CommitCreate, TypeInv, TypeOK
<1>8. ASSUME NEW c \in Callers, ReplayCreate(c) PROVE TypeInv'
  <2> DEFINE q == request[c]
             stored == keys[q.project][q.key]
  <2>1. q.project \in Projects /\ q.key \in Keys /\ q.payload \in Payloads
    BY <1>8, RequestKinds DEF ReplayCreate, TypeInv, TypeOK
  <2>2. stored # None /\ stored \in KeyRows \cup {None}
    BY <1>8, <2>1 DEF ReplayCreate, TypeInv, TypeOK
  <2>3. Answer(q, stored.issue) \in Answers
    BY <2>1, <2>2 DEF Answer, Answers, KeyRows
  <2>4. answers' \subseteq Answers
    BY <1>8, <1>c, <2>3 DEF ReplayCreate
  <2> QED
    BY <1>8, <1>a, <1>b, <2>4, RequestStep DEF ReplayCreate
<1>9. ASSUME NEW c \in Callers, CommitTransition(c) PROVE TypeInv'
  <2> DEFINE q == request[c]
             i == q.issue
  <2>1. i \in Issues /\ q.rule \in Rules /\ q.at \in 0..Horizon
    BY <1>9, RequestKinds DEF CommitTransition, TypeInv, TypeOK
  <2>2. /\ issues' = [issues EXCEPT ![i] = MovedRow(issues[i], q.rule, q.at)]
        /\ issues[i].status # "absent"
        /\ sla' = [sla EXCEPT ![i] =
             IF sla[i] = None THEN None
             ELSE MovedSla(sla[i], issues[i].status, q.rule.target, q.at)]
    BY <1>9 DEF CommitTransition, IsCurrent
  <2>3. /\ issues' \in [Issues -> IssueRows]
        /\ issues'[i].status # "absent" /\ issues'[i].version = issues[i].version + 1
        /\ \A j \in Issues \ {i} : issues'[j] = issues[j]
    BY <2>1, <2>2, MovedRowType DEF TypeInv, TypeOK
  <2>4. /\ sla' \in [Issues -> SlaRows(Horizon) \cup {None}]
        /\ \A j \in Issues : sla[j] = None => sla'[j] = None
    BY <2>1, <2>2, MovedSlaType DEF TypeInv, TypeOK
  <2>5. request' \in [Callers -> Requests] /\ RequestsBound'
    BY <1>9, <1>a, <1>b, <2>3, RequestKinds
    DEF CommitTransition, TypeInv, TypeOK, RequestsBound, Exists
  <2>6. \A j \in Issues : /\ Exists(j)' <=> issues'[j].version > 0
                          /\ sla'[j] # None => Exists(j)'
    <3>1. issues[i].version \in Nat
      BY <2>1 DEF TypeInv, TypeOK, IssueRows
    <3> QED
      BY <2>1, <2>2, <2>3, <2>4, <3>1 DEF TypeInv, TypeOK, Exists
  <2>7. log' \in [Issues -> Seq(Events)]
    <3> DEFINE event == [type |-> "issue_transitioned", actor |-> c, name |-> q.rule.name,
                         from |-> issues[i].status, to |-> q.rule.target,
                         version |-> q.expected + 1]
    <3>1. issues[i].status \in Statuses /\ q.rule.target \in Statuses
      BY <2>1, <2>2, RulesAssumption DEF TypeInv, TypeOK, IssueRows, RuleShape
    <3>2. q.expected + 1 \in Nat
      BY <1>9, RequestKinds DEF CommitTransition, TypeInv, TypeOK
    <3>3. event \in Events
      BY <2>1, <3>1, <3>2, EventTypes
    <3>4. log' = [log EXCEPT ![i] = Append(log[i], event)]
      BY <1>9 DEF CommitTransition
    <3> HIDE DEF event
    <3> QED
      BY <2>1, <3>3, <3>4, LogGrows DEF TypeInv, TypeOK
  <2> QED
    BY <1>9, <1>c, <2>3, <2>4, <2>5, <2>6, <2>7 DEF CommitTransition, TypeInv, TypeOK
<1>10. ASSUME NEW c \in Callers, CommitAssign(c) PROVE TypeInv'
  <2> DEFINE q == request[c]
             i == q.issue
  <2>1. i \in Issues /\ q.assignee \in Assignees /\ q.at \in 0..Horizon
    BY <1>10, RequestKinds DEF CommitAssign, TypeInv, TypeOK
  <2>2. /\ issues' = [issues EXCEPT ![i] = AssignedRow(issues[i], q.assignee, q.at)]
        /\ issues[i].status # "absent"
    BY <1>10 DEF CommitAssign, IsCurrent
  <2>3. /\ issues' \in [Issues -> IssueRows]
        /\ issues'[i].status = issues[i].status
        /\ issues'[i].version = issues[i].version + 1
        /\ \A j \in Issues \ {i} : issues'[j] = issues[j]
    BY <2>1, <2>2, AssignedRowType DEF TypeInv, TypeOK
  <2>4. request' \in [Callers -> Requests] /\ RequestsBound'
    BY <1>10, <1>a, <1>b, <2>3, RequestKinds
    DEF CommitAssign, TypeInv, TypeOK, RequestsBound, Exists
  <2>5. \A j \in Issues : /\ Exists(j)' <=> issues'[j].version > 0
                          /\ sla'[j] # None => Exists(j)'
    <3>1. issues[i].version \in Nat
      BY <2>1 DEF TypeInv, TypeOK, IssueRows
    <3> QED
      BY <1>10, <2>1, <2>2, <2>3, <3>1 DEF CommitAssign, TypeInv, TypeOK, Exists
  <2>6. log' \in [Issues -> Seq(Events)]
    <3> DEFINE event == [type |-> "issue_assigned", actor |-> c, assignee |-> q.assignee,
                         version |-> q.expected + 1]
    <3>1. q.expected + 1 \in Nat
      BY <1>10, RequestKinds DEF CommitAssign, TypeInv, TypeOK
    <3>2. event \in Events
      BY <2>1, <3>1, EventTypes
    <3>3. log' = [log EXCEPT ![i] = Append(log[i], event)]
      BY <1>10 DEF CommitAssign
    <3> HIDE DEF event
    <3> QED
      BY <2>1, <3>2, <3>3, LogGrows DEF TypeInv, TypeOK
  <2> QED
    BY <1>10, <1>c, <2>3, <2>4, <2>5, <2>6 DEF CommitAssign, TypeInv, TypeOK
<1>11. ASSUME NEW c \in Callers, Conflict(c) PROVE TypeInv'
  BY <1>11, <1>a, <1>b, <1>c, RequestStep DEF Conflict
<1>12. ASSUME NEW c \in Callers, CommitComment(c) PROVE TypeInv'
  <2> DEFINE q == request[c]
             i == q.issue
  <2>1. i \in Issues /\ q.at \in 0..Horizon
    BY <1>12, RequestKinds DEF CommitComment, TypeInv, TypeOK
  <2>2. /\ sla' \in [Issues -> SlaRows(Horizon) \cup {None}]
        /\ \A j \in Issues : sla[j] = None => sla'[j] = None
    BY <1>12, <2>1, RespondedSlaType DEF CommitComment, TypeInv, TypeOK
  <2>3. request' \in [Callers -> Requests] /\ RequestsBound'
    BY <1>12, <1>a, <1>b, RequestKinds
    DEF CommitComment, TypeInv, TypeOK, RequestsBound, Exists
  <2>4. log' \in [Issues -> Seq(Events)]
    BY <1>12, <2>1, EventTypes, LogGrows DEF CommitComment, TypeInv, TypeOK
  <2> QED
    BY <1>12, <1>c, <2>2, <2>3, <2>4 DEF CommitComment, TypeInv, TypeOK, Exists
<1>13. ASSUME NEW c \in Callers, Drop(c) PROVE TypeInv'
  BY <1>13, <1>a, <1>b, <1>c, RequestStep DEF Drop
<1>14. CASE UNCHANGED vars
  BY <1>14 DEF vars, TypeInv, TypeOK, RequestsBound, Exists
<1> QED
  BY <1>1, <1>2, <1>3, <1>4, <1>5, <1>6, <1>7, <1>8, <1>9, <1>10, <1>11, <1>12, <1>13, <1>14
  DEF Next, Submit, Commit

\* Rows, requests and keys keep their types, an issue has a version exactly if
\* it exists, and an SLA belongs to an issue that does: the desk's tables stay
\* consistent for any number of handlers, issues and policies.
THEOREM TypeCorrect == Spec => []TypeOK
<1>1. TypeInv => TypeOK
  BY DEF TypeInv
<1> QED
  BY <1>1, TypeInit, TypeNext, PTL DEF Spec

-----------------------------------------------------------------------------
(* Requests whose version is current *)

Submitted ==
  \A c \in Callers : request[c].op # "idle" => request[c].at <= now

Compared ==
  \A c \in Callers :
    request[c].op \in {"transition", "assign"} =>
      /\ request[c].expected <= issues[request[c].issue].version
      /\ request[c].expected = issues[request[c].issue].version =>
           issues[request[c].issue].updated_at <= request[c].at

RulesFit ==
  \A c \in Callers :
    /\ request[c].op = "transition"
    /\ request[c].expected = issues[request[c].issue].version
    => request[c].rule.source = issues[request[c].issue].status

RowsDated ==
  \A i \in Issues :
    /\ issues[i].updated_at <= now
    /\ ~Exists(i) => issues[i].updated_at = 0

Fresh == Submitted /\ Compared /\ RulesFit /\ RowsDated

LEMMA FreshInit == Init => Fresh
BY BoundAssumption
DEF Init, Fresh, Submitted, Compared, RulesFit, RowsDated, Exists, NoIssue, Idle

\* A handler takes up or lays down a request, and no row changes.
LEMMA FreshRequest ==
  ASSUME TypeInv, Fresh, NEW c \in Callers, NEW q,
         request' = [request EXCEPT ![c] = q],
         UNCHANGED <<now, issues>>,
         q.op # "idle" => q.at <= now,
         q.op \in {"transition", "assign"} =>
           /\ q.expected <= issues[q.issue].version
           /\ issues[q.issue].updated_at <= q.at,
         q.op = "transition" => q.rule.source = issues[q.issue].status
  PROVE  Fresh'
<1>1. request'[c] = q /\ \A d \in Callers \ {c} : request'[d] = request[d]
  BY DEF TypeInv, TypeOK
<1>2. Submitted'
  BY <1>1 DEF Fresh, Submitted
<1>3. Compared'
  BY <1>1 DEF Fresh, Compared
<1>4. RulesFit'
  BY <1>1 DEF Fresh, RulesFit
<1>5. RowsDated'
  BY DEF Fresh, RowsDated, Exists
<1> QED
  BY <1>2, <1>3, <1>4, <1>5 DEF Fresh

\* A row takes its next version: what was compared with it before is stale.
LEMMA FreshChange ==
  ASSUME TypeInv, Fresh, NEW c \in Callers, NEW i \in Issues, NEW row \in IssueRows,
         row.version = issues[i].version + 1,
         row.updated_at <= now,
         row.status # "absent",
         issues' = [issues EXCEPT ![i] = row],
         request' = [request EXCEPT ![c] = Idle],
         UNCHANGED now
  PROVE  Fresh'
<1>1. request'[c] = Idle /\ \A d \in Callers \ {c} : request'[d] = request[d]
  BY DEF TypeInv, TypeOK
<1>2. Idle.op = "idle"
  BY DEF Idle
<1>3. issues'[i] = row /\ \A j \in Issues \ {i} : issues'[j] = issues[j]
  BY DEF TypeInv, TypeOK
<1>4. issues[i].version \in Nat
  BY DEF TypeInv, TypeOK, IssueRows
<1>5. \A d \in Callers :
        request[d].op \in {"transition", "assign"} =>
          request[d].issue \in Issues /\ request[d].expected \in Nat
  BY RequestKinds DEF TypeInv, TypeOK
<1>6. Submitted'
  BY <1>1, <1>2 DEF Fresh, Submitted
<1>7. Compared'
  BY <1>1, <1>2, <1>3, <1>4, <1>5 DEF Fresh, Compared
<1>8. RulesFit'
  BY <1>1, <1>2, <1>3, <1>4, <1>5 DEF Fresh, RulesFit, Compared
<1>9. RowsDated'
  BY <1>3 DEF Fresh, RowsDated, Exists
<1> QED
  BY <1>6, <1>7, <1>8, <1>9 DEF Fresh

LEMMA ExpectableSeen ==
  ASSUME Ahead = 0, TypeInv, NEW i \in Issues, NEW e \in Expectable(i)
  PROVE  e <= issues[i].version
BY DEF Expectable, TypeInv, TypeOK, IssueRows

LEMMA FreshNext == Ahead = 0 /\ TypeInv /\ Fresh /\ [Next]_vars => Fresh'
<1> SUFFICES ASSUME Ahead = 0, TypeInv, Fresh, [Next]_vars PROVE Fresh'
  OBVIOUS
<1>a. Idle.op = "idle"
  BY DEF Idle
<1>b. now \in Nat
  BY BoundAssumption DEF TypeInv, TypeOK
<1>1. CASE Tick
  <2>1. \A c \in Callers : request[c].op # "idle" => request[c].at \in Nat
    BY RequestKinds, BoundAssumption DEF TypeInv, TypeOK, Requests, Idle
  <2>2. \A i \in Issues : issues[i].updated_at \in Nat
    BY BoundAssumption DEF TypeInv, TypeOK, IssueRows
  <2> QED
    BY <1>1, <1>b, <2>1, <2>2
    DEF Tick, Fresh, Submitted, Compared, RulesFit, RowsDated, Exists
<1>2. ASSUME NEW c \in Callers, ConfigureSla(c) PROVE Fresh'
  BY <1>2 DEF ConfigureSla, Fresh, Submitted, Compared, RulesFit, RowsDated, Exists
<1>3. ASSUME NEW c \in Callers, SubmitCreate(c) PROVE Fresh'
  <2>1. PICK p \in Projects, k \in Keys, h \in Payloads :
          request' = [request EXCEPT ![c] =
            [op |-> "create", project |-> p, key |-> k, payload |-> h, at |-> now]]
    BY <1>3 DEF SubmitCreate
  <2> DEFINE q == [op |-> "create", project |-> p, key |-> k, payload |-> h, at |-> now]
  <2>2. q.op = "create" /\ q.at <= now
    BY <1>b
  <2> HIDE DEF q
  <2> QED
    BY <1>3, <2>1, <2>2, FreshRequest DEF SubmitCreate, q
<1>4. ASSUME NEW c \in Callers, SubmitTransition(c) PROVE Fresh'
  <2>1. PICK i \in Issues, rule \in Rules, e \in Nat :
          /\ MayExecute(rule, issues[i].status, RoleOf[c])
          /\ e <= issues[i].version
          /\ request' = [request EXCEPT ![c] =
               [op |-> "transition", issue |-> i, expected |-> e, rule |-> rule, at |-> now]]
    BY <1>4, ExpectableType, ExpectableSeen DEF SubmitTransition
  <2> DEFINE q == [op |-> "transition", issue |-> i, expected |-> e, rule |-> rule,
                   at |-> now]
  <2>2. /\ q.op = "transition" /\ q.at = now /\ q.issue = i
        /\ q.expected = e /\ q.rule = rule
    OBVIOUS
  <2>3. rule.source = issues[i].status /\ issues[i].updated_at <= now /\ now <= now
    BY <1>b, <2>1 DEF MayExecute, Fresh, RowsDated
  <2> HIDE DEF q
  <2> QED
    BY <1>4, <2>1, <2>2, <2>3, FreshRequest DEF SubmitTransition, q
<1>5. ASSUME NEW c \in Callers, SubmitAssign(c) PROVE Fresh'
  <2>1. PICK i \in Issues, a \in Assignees, e \in Nat :
          /\ e <= issues[i].version
          /\ request' = [request EXCEPT ![c] =
               [op |-> "assign", issue |-> i, expected |-> e, assignee |-> a, at |-> now]]
    BY <1>5, ExpectableType, ExpectableSeen DEF SubmitAssign
  <2> DEFINE q == [op |-> "assign", issue |-> i, expected |-> e, assignee |-> a, at |-> now]
  <2>2. q.op = "assign" /\ q.at = now /\ q.issue = i /\ q.expected = e
    OBVIOUS
  <2>3. issues[i].updated_at <= now /\ now <= now
    BY <1>b DEF Fresh, RowsDated
  <2> HIDE DEF q
  <2> QED
    BY <1>5, <2>1, <2>2, <2>3, FreshRequest DEF SubmitAssign, q
<1>6. ASSUME NEW c \in Callers, SubmitComment(c) PROVE Fresh'
  <2>1. PICK i \in Issues, internal \in BOOLEAN :
          request' = [request EXCEPT ![c] =
            [op |-> "comment", issue |-> i, internal |-> internal, at |-> now]]
    BY <1>6 DEF SubmitComment
  <2> DEFINE q == [op |-> "comment", issue |-> i, internal |-> internal, at |-> now]
  <2>2. q.op = "comment" /\ q.at <= now
    BY <1>b
  <2> HIDE DEF q
  <2> QED
    BY <1>6, <2>1, <2>2, FreshRequest DEF SubmitComment, q
<1>7. ASSUME NEW c \in Callers, CommitCreate(c) PROVE Fresh'
  <2> DEFINE q == request[c]
  <2>1. /\ q.project \in Projects /\ q.at \in 0..Horizon /\ q.at <= now
        /\ next[q.project] \in Nat
    BY <1>7, RequestKinds DEF CommitCreate, TypeInv, TypeOK, Fresh, Submitted
  <2>2. PICK i \in Issues :
          /\ ~Exists(i)
          /\ issues' = [issues EXCEPT ![i] = OpenedRow(q.project, next[q.project], q.at)]
    BY <1>7 DEF CommitCreate
  <2> DEFINE row == OpenedRow(q.project, next[q.project], q.at)
  <2>3. row \in IssueRows /\ row.version = 1 /\ row.updated_at = q.at /\ row.status = "open"
    BY <2>1, OpenedRowType
  <2>4. row.version = issues[i].version + 1
    BY <2>2, <2>3 DEF TypeInv, TypeOK, IssueRows
  <2>5. issues' = [issues EXCEPT ![i] = row]
    BY <2>2
  <2>6. row.updated_at <= now /\ row.status # "absent"
    BY <2>1, <2>3
  <2> HIDE DEF row
  <2> QED
    BY <1>7, <2>3, <2>4, <2>5, <2>6, FreshChange DEF CommitCreate
<1>8. ASSUME NEW c \in Callers, ReplayCreate(c) PROVE Fresh'
  BY <1>8, <1>a, FreshRequest DEF ReplayCreate
<1>9. ASSUME NEW c \in Callers, CommitTransition(c) PROVE Fresh'
  <2> DEFINE q == request[c]
             row == MovedRow(issues[q.issue], q.rule, q.at)
  <2>1. q.issue \in Issues /\ q.rule \in Rules /\ q.at \in 0..Horizon /\ q.at <= now
    BY <1>9, RequestKinds DEF CommitTransition, TypeInv, TypeOK, Fresh, Submitted
  <2>2. /\ row \in IssueRows /\ row.version = issues[q.issue].version + 1
        /\ row.updated_at = q.at /\ row.status # "absent"
    BY <2>1, MovedRowType DEF TypeInv, TypeOK
  <2>3. issues' = [issues EXCEPT ![q.issue] = row]
    BY <1>9 DEF CommitTransition
  <2> HIDE DEF row
  <2> QED
    BY <1>9, <2>1, <2>2, <2>3, FreshChange DEF CommitTransition
<1>10. ASSUME NEW c \in Callers, CommitAssign(c) PROVE Fresh'
  <2> DEFINE q == request[c]
             row == AssignedRow(issues[q.issue], q.assignee, q.at)
  <2>1. q.issue \in Issues /\ q.assignee \in Assignees /\ q.at \in 0..Horizon /\ q.at <= now
    BY <1>10, RequestKinds DEF CommitAssign, TypeInv, TypeOK, Fresh, Submitted
  <2>2. /\ row \in IssueRows /\ row.version = issues[q.issue].version + 1
        /\ row.updated_at = q.at /\ row.status # "absent"
    BY <1>10, <2>1, AssignedRowType DEF CommitAssign, IsCurrent, TypeInv, TypeOK
  <2>3. issues' = [issues EXCEPT ![q.issue] = row]
    BY <1>10 DEF CommitAssign
  <2> HIDE DEF row
  <2> QED
    BY <1>10, <2>1, <2>2, <2>3, FreshChange DEF CommitAssign
<1>11. ASSUME NEW c \in Callers, Conflict(c) PROVE Fresh'
  BY <1>11, <1>a, FreshRequest DEF Conflict
<1>12. ASSUME NEW c \in Callers, CommitComment(c) PROVE Fresh'
  BY <1>12, <1>a, FreshRequest DEF CommitComment
<1>13. ASSUME NEW c \in Callers, Drop(c) PROVE Fresh'
  BY <1>13, <1>a, FreshRequest DEF Drop
<1>14. CASE UNCHANGED vars
  BY <1>14 DEF vars, Fresh, Submitted, Compared, RulesFit, RowsDated, Exists
<1> QED
  BY <1>1, <1>2, <1>3, <1>4, <1>5, <1>6, <1>7, <1>8, <1>9, <1>10, <1>11, <1>12, <1>13, <1>14
  DEF Next, Submit, Commit

LEMMA FreshAlways == ASSUME Ahead = 0 PROVE Spec => [](TypeInv /\ Fresh)
<1>1. TypeInv /\ Fresh /\ [Next]_vars => (TypeInv /\ Fresh)'
  BY TypeNext, FreshNext
<1> QED
  BY <1>1, TypeInit, FreshInit, PTL DEF Spec
-----------------------------------------------------------------------------
(* What a current version is worth *)

\* A change takes the row it was submitted on: nothing came in between.
LEMMA ChangesFit ==
  ASSUME TypeInv, Fresh, NEW c \in Callers
  PROVE  /\ CommitTransition(c) =>
              /\ request[c].issue \in Issues /\ request[c].rule \in Rules
              /\ request[c].at \in 0..Horizon
              /\ request[c].rule.source = issues[request[c].issue].status
              /\ issues[request[c].issue].updated_at <= request[c].at
         /\ CommitAssign(c) =>
              /\ request[c].issue \in Issues /\ request[c].assignee \in Assignees
              /\ request[c].at \in 0..Horizon
              /\ issues[request[c].issue].status # "absent"
              /\ issues[request[c].issue].updated_at <= request[c].at
<1>1. request[c] \in Requests
  BY DEF TypeInv, TypeOK
<1>2. CommitTransition(c) \/ CommitAssign(c) =>
        /\ request[c].issue \in Issues
        /\ request[c].expected = issues[request[c].issue].version
        /\ issues[request[c].issue].status # "absent"
  BY <1>1, RequestKinds DEF CommitTransition, CommitAssign, IsCurrent
<1> QED
  BY <1>1, <1>2, RequestKinds
  DEF CommitTransition, CommitAssign, Fresh, Compared, RulesFit

\* One row changed, and was not dated back: a new one, a moved one, or a
\* reassigned one.
Written(i) ==
  /\ \A j \in Issues \ {i} : issues'[j] = issues[j]
  /\ issues'[i].updated_at >= issues[i].updated_at

Opened(i) ==
  issues[i].status = "absent" /\ issues'[i].status = "open" /\ issues'[i].version = 1

Moved(i, rule) ==
  /\ issues[i].status = rule.source
  /\ issues'[i].status = rule.target
  /\ issues'[i].version = issues[i].version + 1

Reassigned(i) ==
  /\ issues[i].status # "absent"
  /\ issues'[i].status = issues[i].status
  /\ issues'[i].version = issues[i].version + 1

LEMMA RowStep ==
  ASSUME TypeInv, Fresh, [Next]_vars
  PROVE  \/ issues' = issues
         \/ \E i \in Issues :
              Written(i) /\ (Opened(i) \/ Reassigned(i) \/ \E rule \in Rules : Moved(i, rule))
<1> DEFINE Goal ==
      \E i \in Issues :
        Written(i) /\ (Opened(i) \/ Reassigned(i) \/ \E rule \in Rules : Moved(i, rule))
<1>a. issues \in [Issues -> IssueRows] /\ \A c \in Callers : request[c] \in Requests
  BY DEF TypeInv, TypeOK
<1>b. \A t \in 0..Horizon : t \in Nat
  BY BoundAssumption
<1>1. ASSUME NEW c \in Callers, CommitCreate(c) PROVE Goal
  <2>1. /\ request[c].project \in Projects /\ request[c].at \in 0..Horizon
        /\ next[request[c].project] \in Nat
    BY <1>1, <1>a, RequestKinds DEF CommitCreate, TypeInv, TypeOK
  <2>2. PICK i \in Issues :
          /\ ~Exists(i)
          /\ issues' = [issues EXCEPT ![i] =
               OpenedRow(request[c].project, next[request[c].project], request[c].at)]
    BY <1>1 DEF CommitCreate
  <2>3. issues'[i] = OpenedRow(request[c].project, next[request[c].project], request[c].at)
    BY <1>a, <2>2
  <2>4. Written(i)
    BY <1>a, <1>b, <2>1, <2>2, <2>3, OpenedRowType DEF Written, Fresh, RowsDated
  <2>5. Opened(i)
    BY <2>1, <2>2, <2>3, OpenedRowType DEF Opened, Exists
  <2> QED
    BY <2>4, <2>5
<1>2. ASSUME NEW c \in Callers, CommitTransition(c) PROVE Goal
  <2>1. PICK i \in Issues, rule \in Rules, at \in 0..Horizon :
          /\ issues' = [issues EXCEPT ![i] = MovedRow(issues[i], rule, at)]
          /\ rule.source = issues[i].status
          /\ issues[i].updated_at <= at
    BY <1>2, ChangesFit DEF CommitTransition
  <2>2. issues[i] \in IssueRows /\ issues'[i] = MovedRow(issues[i], rule, at)
    BY <1>a, <2>1
  <2>3. Written(i)
    BY <1>a, <1>b, <2>1, <2>2, MovedRowType DEF Written, IssueRows
  <2>4. Moved(i, rule)
    BY <2>1, <2>2, MovedRowType DEF Moved
  <2> QED
    BY <2>3, <2>4
<1>3. ASSUME NEW c \in Callers, CommitAssign(c) PROVE Goal
  <2>1. PICK i \in Issues, a \in Assignees, at \in 0..Horizon :
          /\ issues' = [issues EXCEPT ![i] = AssignedRow(issues[i], a, at)]
          /\ issues[i].status # "absent"
          /\ issues[i].updated_at <= at
    BY <1>3, ChangesFit DEF CommitAssign
  <2>2. issues[i] \in IssueRows /\ issues'[i] = AssignedRow(issues[i], a, at)
    BY <1>a, <2>1
  <2>3. Written(i)
    BY <1>a, <1>b, <2>1, <2>2, AssignedRowType DEF Written, IssueRows
  <2>4. Reassigned(i)
    BY <2>1, <2>2, AssignedRowType DEF Reassigned
  <2> QED
    BY <2>3, <2>4
<1>4. \/ issues' = issues
      \/ \E c \in Callers : CommitCreate(c) \/ CommitTransition(c) \/ CommitAssign(c)
  BY DEF Next, Submit, Commit, Tick, ConfigureSla, SubmitCreate, SubmitTransition,
         SubmitAssign, SubmitComment, ReplayCreate, Conflict, CommitComment, Drop, vars
<1> QED
  BY <1>1, <1>2, <1>3, <1>4

\* A change never dates an issue back, although the clock is read before the
\* write lock is taken: the version that the update compares was read after
\* every earlier change, so its clock reading was taken after theirs.  It
\* needs callers that send only versions they have seen.
THEOREM UpdatedGrows == ASSUME Ahead = 0 PROVE Spec => UpdatedAtGrows
<1> DEFINE Grows == \A i \in Issues : issues'[i].updated_at >= issues[i].updated_at
<1>1. ASSUME TypeInv, Fresh, [Next]_vars PROVE Grows
  <2>1. \A i \in Issues : issues[i].updated_at \in Nat
    BY <1>1, BoundAssumption DEF TypeInv, TypeOK, IssueRows
  <2>2. \A i \in Issues : Written(i) => Grows
    BY <2>1 DEF Written
  <2>3. issues' = issues => Grows
    BY <2>1
  <2> QED
    BY <1>1, <2>2, <2>3, RowStep
<1>2. TypeInv /\ Fresh /\ [Next]_vars => [Grows]_vars
  BY <1>1
<1> QED
  BY <1>2, FreshAlways, PTL DEF Spec, UpdatedAtGrows

-----------------------------------------------------------------------------
(* Refinement *)

LEMMA BookInit == Init => Book!Init
BY DEF Init, Book!Init, NoIssue

LEMMA BookNext == TypeInv /\ Fresh /\ [Next]_vars => [Book!Next]_(Book!vars)
<1> SUFFICES ASSUME TypeInv, Fresh, [Next]_vars PROVE [Book!Next]_(Book!vars)
  OBVIOUS
<1> DEFINE Status == [i \in Issues |-> issues[i].status]
           Version == [i \in Issues |-> issues[i].version]
<1>1. CASE issues' = issues
  BY <1>1 DEF Book!vars
<1>2. ASSUME NEW i \in Issues, Written(i), Opened(i) PROVE Book!Next
  <2>1. Status' = [Status EXCEPT ![i] = "open"] /\ Version' = [Version EXCEPT ![i] = 1]
    BY <1>2 DEF Written, Opened
  <2> QED
    BY <1>2, <2>1 DEF Book!Next, Book!Open, Opened
<1>3. ASSUME NEW i \in Issues, NEW rule \in Rules, Written(i), Moved(i, rule)
      PROVE  Book!Next
  <2>1. /\ Status' = [Status EXCEPT ![i] = rule.target]
        /\ Version' = [Version EXCEPT ![i] = @ + 1]
    BY <1>3 DEF Written, Moved
  <2> QED
    BY <1>3, <2>1 DEF Book!Next, Book!Move, Moved
<1>4. ASSUME NEW i \in Issues, Written(i), Reassigned(i) PROVE Book!Next
  <2>1. Status' = Status /\ Version' = [Version EXCEPT ![i] = @ + 1]
    BY <1>4 DEF Written, Reassigned
  <2> QED
    BY <1>4, <2>1 DEF Book!Next, Book!Reassign, Reassigned
<1> QED
  BY <1>1, <1>2, <1>3, <1>4, RowStep

\* The desk keeps the book's promise: whatever handlers interleave, an issue
\* moves only by a rule whose source is the status it has at that moment, and
\* every change takes the next version.  The rule is looked up before the
\* transaction, so this needs callers that send only versions they have seen.
THEOREM BookImplemented == ASSUME Ahead = 0 PROVE Spec => ImplementsBook
BY BookInit, BookNext, FreshAlways, PTL DEF Spec, ImplementsBook, Book!Spec

-----------------------------------------------------------------------------
(* Idempotent creation *)

\* Every answer stands in the key table.
KeysHold ==
  \A a \in answers :
    /\ a.project \in Projects /\ a.key \in Keys
    /\ keys[a.project][a.key] # None
    /\ keys[a.project][a.key].payload = a.payload
    /\ keys[a.project][a.key].issue = a.issue

LEMMA KeysHoldNext == TypeInv /\ KeysHold /\ [Next]_vars => KeysHold'
<1> SUFFICES ASSUME TypeInv, KeysHold, [Next]_vars PROVE KeysHold'
  OBVIOUS
<1>b. \A c \in Callers : request[c] \in Requests
  BY DEF TypeInv, TypeOK
<1>1. CASE UNCHANGED <<keys, answers>>
  BY <1>1 DEF KeysHold
<1>2. ASSUME NEW c \in Callers, CommitCreate(c) PROVE KeysHold'
  <2> DEFINE q == request[c]
  <2>1. q.project \in Projects /\ q.key \in Keys /\ q.payload \in Payloads
    BY <1>b, <1>2, RequestKinds DEF CommitCreate
  <2>2. PICK i \in Issues :
          /\ keys' = [keys EXCEPT ![q.project][q.key] = [payload |-> q.payload, issue |-> i]]
          /\ answers' = answers \cup {Answer(q, i)}
    BY <1>2 DEF CommitCreate
  <2>3. keys[q.project][q.key] = None
    BY <1>2 DEF CommitCreate
  <2>4. keys'[q.project][q.key] = [payload |-> q.payload, issue |-> i]
    BY <2>1, <2>2 DEF TypeInv, TypeOK
  <2>5. [payload |-> q.payload, issue |-> i] # None
    BY <2>1, NullAssumption
  <2>6. \A p \in Projects, k \in Keys :
          p # q.project \/ k # q.key => keys'[p][k] = keys[p][k]
    BY <2>1, <2>2 DEF TypeInv, TypeOK
  <2>7. ASSUME NEW a \in answers
        PROVE  /\ a.project \in Projects /\ a.key \in Keys
               /\ keys'[a.project][a.key] = keys[a.project][a.key]
    BY <2>3, <2>6 DEF KeysHold
  <2>8. /\ Answer(q, i).project = q.project /\ Answer(q, i).key = q.key
        /\ Answer(q, i).payload = q.payload /\ Answer(q, i).issue = i
    BY DEF Answer
  <2> QED
    BY <2>1, <2>2, <2>4, <2>5, <2>7, <2>8 DEF KeysHold
<1>3. ASSUME NEW c \in Callers, ReplayCreate(c) PROVE KeysHold'
  <2> DEFINE q == request[c]
             stored == keys[q.project][q.key]
  <2>1. q.project \in Projects /\ q.key \in Keys
    BY <1>b, <1>3, RequestKinds DEF ReplayCreate
  <2>2. /\ stored # None /\ keys' = keys
        /\ answers' = IF SameRequest(stored, q.payload)
                        THEN answers \cup {Answer(q, stored.issue)} ELSE answers
    BY <1>3 DEF ReplayCreate
  <2>3. /\ Answer(q, stored.issue).project = q.project
        /\ Answer(q, stored.issue).key = q.key
        /\ Answer(q, stored.issue).payload = q.payload
        /\ Answer(q, stored.issue).issue = stored.issue
    BY DEF Answer
  <2> QED
    BY <2>1, <2>2, <2>3 DEF KeysHold, SameRequest
<1> QED
  BY <1>1, <1>2, <1>3
  DEF Next, Submit, Commit, Tick, ConfigureSla, SubmitCreate, SubmitTransition,
      SubmitAssign, SubmitComment, CommitTransition, CommitAssign, Conflict,
      CommitComment, Drop, vars

\* A retried create never makes a second issue, and a key never answers a
\* request it was not stored for, for any number of handlers retrying at once:
\* every answer stands in the key table, and a key that is set stays.
THEOREM CreateIsIdempotent == Spec => []IdempotentCreate
<1>1. Init => KeysHold
  BY DEF Init, KeysHold
<1>2. KeysHold => IdempotentCreate
  BY DEF KeysHold, IdempotentCreate
<1> QED
  BY <1>1, <1>2, TypeInit, TypeNext, KeysHoldNext, PTL DEF Spec

-----------------------------------------------------------------------------
(* Human keys *)

OfProject(p) == {i \in Issues : issues[i].project = p}
Numbers(p) == {issues[i].sequence : i \in OfProject(p)}

Numbered ==
  /\ \A i \in Issues : ~Exists(i) => issues[i].project = None
  /\ \A i, j \in Issues :
       /\ issues[i].project = issues[j].project
       /\ issues[i].sequence = issues[j].sequence
       /\ issues[i].project # None
       => i = j
  /\ \A p \in Projects :
       /\ IsFiniteSet(OfProject(p))
       /\ Cardinality(OfProject(p)) = next[p] - 1
       /\ Numbers(p) = 1..(next[p] - 1)

\* An issue gets its project and its number when it is created and keeps them.
LEMMA NumberStep ==
  ASSUME TypeInv, [Next]_vars
  PROVE  \/ /\ next' = next
            /\ \A i \in Issues :
                 /\ issues'[i].project = issues[i].project
                 /\ issues'[i].sequence = issues[i].sequence
                 /\ Exists(i)' <=> Exists(i)
         \/ \E i \in Issues, p \in Projects :
              /\ ~Exists(i) /\ Exists(i)'
              /\ next' = [next EXCEPT ![p] = next[p] + 1]
              /\ issues'[i].project = p /\ issues'[i].sequence = next[p]
              /\ \A j \in Issues \ {i} : issues'[j] = issues[j]
<1> DEFINE Goal ==
      \/ /\ next' = next
         /\ \A i \in Issues :
              /\ issues'[i].project = issues[i].project
              /\ issues'[i].sequence = issues[i].sequence
              /\ Exists(i)' <=> Exists(i)
      \/ \E i \in Issues, p \in Projects :
           /\ ~Exists(i) /\ Exists(i)'
           /\ next' = [next EXCEPT ![p] = next[p] + 1]
           /\ issues'[i].project = p /\ issues'[i].sequence = next[p]
           /\ \A j \in Issues \ {i} : issues'[j] = issues[j]
<1>a. issues \in [Issues -> IssueRows] /\ \A c \in Callers : request[c] \in Requests
  BY DEF TypeInv, TypeOK
<1>1. ASSUME NEW c \in Callers, CommitCreate(c) PROVE Goal
  <2> DEFINE p == request[c].project
  <2>1. p \in Projects /\ request[c].at \in 0..Horizon /\ next[p] \in Nat
    BY <1>1, <1>a, RequestKinds DEF CommitCreate, TypeInv, TypeOK
  <2>2. PICK i \in Issues :
          ~Exists(i) /\ issues' = [issues EXCEPT ![i] = OpenedRow(p, next[p], request[c].at)]
    BY <1>1 DEF CommitCreate
  <2>3. /\ issues'[i].project = p /\ issues'[i].sequence = next[p] /\ Exists(i)'
        /\ \A j \in Issues \ {i} : issues'[j] = issues[j]
    BY <1>a, <2>2 DEF OpenedRow, Exists
  <2>4. next' = [next EXCEPT ![p] = next[p] + 1]
    BY <1>1 DEF CommitCreate, SequenceAfter
  <2> QED
    BY <2>1, <2>2, <2>3, <2>4
<1>2. ASSUME NEW c \in Callers, CommitTransition(c) PROVE Goal
  <2> DEFINE i == request[c].issue
  <2>1. i \in Issues /\ request[c].rule \in Rules /\ issues[i].status # "absent"
    BY <1>2, <1>a, RequestKinds DEF CommitTransition, IsCurrent
  <2>2. /\ issues' = [issues EXCEPT ![i] = MovedRow(issues[i], request[c].rule, request[c].at)]
        /\ next' = next
    BY <1>2 DEF CommitTransition
  <2>3. request[c].rule.target # "absent"
    BY <2>1, RulesAssumption DEF RuleShape, Statuses
  <2> QED
    BY <1>a, <2>1, <2>2, <2>3 DEF MovedRow, Exists
<1>3. ASSUME NEW c \in Callers, CommitAssign(c) PROVE Goal
  <2> DEFINE i == request[c].issue
  <2>1. i \in Issues
    BY <1>3, <1>a, RequestKinds DEF CommitAssign
  <2>2. /\ issues' = [issues EXCEPT ![i] =
             AssignedRow(issues[i], request[c].assignee, request[c].at)]
        /\ next' = next
    BY <1>3 DEF CommitAssign
  <2> QED
    BY <1>a, <2>1, <2>2 DEF AssignedRow, Exists
<1>4. CASE UNCHANGED <<issues, next>>
  BY <1>4 DEF Exists
<1> QED
  BY <1>1, <1>2, <1>3, <1>4
  DEF Next, Submit, Commit, Tick, ConfigureSla, SubmitCreate, SubmitTransition,
      SubmitAssign, SubmitComment, ReplayCreate, Conflict, CommitComment, Drop, vars

LEMMA NumberedNext == TypeInv /\ Numbered /\ [Next]_vars => Numbered'
<1> SUFFICES ASSUME TypeInv, Numbered, [Next]_vars PROVE Numbered'
  OBVIOUS
<1>a. next \in [Projects -> Nat \ {0}] /\ None \notin Projects
  BY NullAssumption DEF TypeInv, TypeOK
<1>1. CASE /\ next' = next
           /\ \A i \in Issues :
                /\ issues'[i].project = issues[i].project
                /\ issues'[i].sequence = issues[i].sequence
                /\ Exists(i)' <=> Exists(i)
  <2>1. \A p \in Projects : OfProject(p)' = OfProject(p) /\ Numbers(p)' = Numbers(p)
    BY <1>1 DEF OfProject, Numbers
  <2> QED
    BY <1>1, <2>1 DEF Numbered
<1>2. ASSUME NEW i \in Issues, NEW p \in Projects,
             /\ ~Exists(i) /\ Exists(i)'
             /\ next' = [next EXCEPT ![p] = next[p] + 1]
             /\ issues'[i].project = p /\ issues'[i].sequence = next[p]
             /\ \A j \in Issues \ {i} : issues'[j] = issues[j]
      PROVE  Numbered'
  <2>1. i \notin OfProject(p) /\ issues[i].project = None
    BY <1>a, <1>2 DEF OfProject, Numbered
  <2>2. OfProject(p)' = OfProject(p) \cup {i}
    BY <1>2 DEF OfProject
  <2>3. Numbers(p)' = Numbers(p) \cup {next[p]}
    BY <1>2, <2>1, <2>2 DEF Numbers, OfProject
  <2>4. next'[p] = next[p] + 1 /\ \A q \in Projects \ {p} : next'[q] = next[q]
    BY <1>a, <1>2
  <2>5. IsFiniteSet(OfProject(p)') /\ Cardinality(OfProject(p)') = next'[p] - 1
    <3>1. IsFiniteSet(OfProject(p)) /\ Cardinality(OfProject(p)) = next[p] - 1
      BY DEF Numbered
    <3>2. /\ IsFiniteSet(OfProject(p) \cup {i})
          /\ Cardinality(OfProject(p) \cup {i}) = Cardinality(OfProject(p)) + 1
      BY <2>1, <3>1, FS_AddElement
    <3>3. next[p] \in Nat
      BY <1>a
    <3> QED
      BY <2>2, <2>4, <3>1, <3>2, <3>3
  <2>6. Numbers(p)' = 1..(next'[p] - 1)
    BY <1>a, <2>3, <2>4 DEF Numbered
  <2>7. \A q \in Projects \ {p} : OfProject(q)' = OfProject(q) /\ Numbers(q)' = Numbers(q)
    BY <1>a, <1>2, <2>1 DEF OfProject, Numbers
  <2>8. next[p] \notin Numbers(p)
    BY <1>a DEF Numbered
  <2>9. \A j \in Issues : issues[j].project = p => issues[j].sequence # next[p]
    BY <2>8 DEF Numbers, OfProject
  <2> QED
    BY <1>2, <2>4, <2>5, <2>6, <2>7, <2>9 DEF Numbered, Exists
<1> QED
  BY <1>1, <1>2, NumberStep

LEMMA NumberedAlways == Spec => []Numbered
<1>1. ASSUME Init PROVE Numbered
  <2>1. \A p \in Projects : OfProject(p) = {} /\ Numbers(p) = {} /\ next[p] = 1
    BY <1>1, NullAssumption DEF Init, NoIssue, OfProject, Numbers
  <2>2. IsFiniteSet({}) /\ Cardinality({}) = 0 /\ {} = 1..(1 - 1)
    BY FS_EmptySet
  <2>3. \A i \in Issues : issues[i].project = None
    BY <1>1 DEF Init, NoIssue
  <2>4. \A p \in Projects :
          /\ IsFiniteSet(OfProject(p))
          /\ Cardinality(OfProject(p)) = next[p] - 1
          /\ Numbers(p) = 1..(next[p] - 1)
    <3> TAKE p \in Projects
    <3>1. OfProject(p) = {} /\ Numbers(p) = {} /\ next[p] = 1
      BY <2>1
    <3> QED
      BY <2>2, <3>1
  <2> QED
    BY <2>3, <2>4 DEF Numbered
<1> QED
  BY <1>1, NumberedNext, TypeInit, TypeNext, PTL DEF Spec

\* The human keys of a project are 1, 2, 3, ... for any number of handlers that
\* create, retry, conflict and die: the counter moves with the insert or not at
\* all.
THEOREM KeysAreGapless == Spec => []SequencesGapless
<1>1. Numbered => SequencesGapless
  BY DEF Numbered, Numbers, OfProject, SequencesGapless
<1> QED
  BY <1>1, NumberedAlways, PTL

-----------------------------------------------------------------------------
(* The audit log *)

\* What one step does to the row of an issue and to its log.
Announced(i, c) ==
  /\ log'[i] = <<[type |-> "issue_created", actor |-> c]>>
  /\ issues'[i].status = "open" /\ issues'[i].version = 1
  /\ issues'[i].assignee = None /\ issues'[i].resolved = FALSE

Moving(i, c) ==
  [type |-> "issue_transitioned", actor |-> c, name |-> request[c].rule.name,
   from |-> issues[i].status, to |-> request[c].rule.target,
   version |-> issues[i].version + 1]

MoveLogged(i, c) ==
  /\ CommitTransition(c) /\ request[c].issue = i /\ request[c].rule \in Rules /\ Exists(i)
  /\ Moving(i, c) \in Events
  /\ log'[i] = Append(log[i], Moving(i, c))
  /\ issues'[i] = MovedRow(issues[i], request[c].rule, request[c].at)

Assigning(i, c) ==
  [type |-> "issue_assigned", actor |-> c, assignee |-> request[c].assignee,
   version |-> issues[i].version + 1]

AssignLogged(i, c) ==
  /\ Exists(i)
  /\ Assigning(i, c) \in Events
  /\ log'[i] = Append(log[i], Assigning(i, c))
  /\ issues'[i] = AssignedRow(issues[i], request[c].assignee, request[c].at)

CommentLogged(i, c) ==
  /\ log'[i] = Append(log[i], [type |-> "comment_added", actor |-> c])
  /\ issues'[i] = issues[i]

Apart(i) == \A j \in Issues \ {i} : log'[j] = log[j] /\ issues'[j] = issues[j]

\* Row and log change together: the change of a row and its event are one step.
LEMMA CommitLogs ==
  ASSUME TypeInv, NEW c \in Callers
  PROVE  /\ CommitCreate(c) => \E i \in Issues : Apart(i) /\ Announced(i, c)
         /\ CommitTransition(c) =>
              /\ request[c].issue \in Issues /\ Apart(request[c].issue)
              /\ MoveLogged(request[c].issue, c)
         /\ CommitAssign(c) =>
              /\ request[c].issue \in Issues /\ Apart(request[c].issue)
              /\ AssignLogged(request[c].issue, c)
         /\ CommitComment(c) =>
              /\ request[c].issue \in Issues /\ Apart(request[c].issue)
              /\ CommentLogged(request[c].issue, c)
<1>a. /\ issues \in [Issues -> IssueRows] /\ log \in [Issues -> Seq(Events)]
      /\ request[c] \in Requests
  BY DEF TypeInv, TypeOK
<1>1. ASSUME CommitCreate(c) PROVE \E i \in Issues : Apart(i) /\ Announced(i, c)
  <2> DEFINE q == request[c]
  <2>1. PICK i \in Issues :
          /\ issues' = [issues EXCEPT ![i] = OpenedRow(q.project, next[q.project], q.at)]
          /\ log' = [log EXCEPT ![i] = <<[type |-> "issue_created", actor |-> c]>>]
    BY <1>1 DEF CommitCreate
  <2>2. Apart(i)
    BY <1>a, <2>1 DEF Apart
  <2>3. Announced(i, c)
    BY <1>a, <2>1 DEF Announced, OpenedRow
  <2> QED
    BY <2>2, <2>3
<1>2. ASSUME CommitTransition(c)
      PROVE  /\ request[c].issue \in Issues /\ Apart(request[c].issue)
             /\ MoveLogged(request[c].issue, c)
  <2> DEFINE q == request[c]
             i == q.issue
  <2>1. /\ i \in Issues /\ q.rule \in Rules /\ q.expected \in Nat
        /\ Exists(i) /\ issues[i].version = q.expected
    BY <1>2, <1>a, RequestKinds DEF CommitTransition, IsCurrent, Exists
  <2>2. /\ issues' = [issues EXCEPT ![i] = MovedRow(issues[i], q.rule, q.at)]
        /\ log' = [log EXCEPT ![i] = Append(log[i], Moving(i, c))]
    BY <1>2, <2>1 DEF CommitTransition, Moving
  <2>3. /\ issues[i].status \in Statuses /\ q.rule.target \in Statuses
        /\ issues[i].version + 1 \in Nat
    BY <1>a, <2>1, RulesAssumption DEF IssueRows, Exists, RuleShape
  <2>4. Moving(i, c) \in Events
    <3> HIDE DEF i
    <3> QED
      BY <2>1, <2>3, EventTypes DEF Moving
  <2>5. Apart(i)
    BY <1>a, <2>1, <2>2 DEF Apart
  <2>6. MoveLogged(i, c)
    BY <1>2, <1>a, <2>1, <2>2, <2>4 DEF MoveLogged
  <2> QED
    BY <2>1, <2>5, <2>6
<1>3. ASSUME CommitAssign(c)
      PROVE  /\ request[c].issue \in Issues /\ Apart(request[c].issue)
             /\ AssignLogged(request[c].issue, c)
  <2> DEFINE q == request[c]
             i == q.issue
  <2>1. /\ i \in Issues /\ q.assignee \in Assignees /\ q.expected \in Nat
        /\ Exists(i) /\ issues[i].version = q.expected
    BY <1>3, <1>a, RequestKinds DEF CommitAssign, IsCurrent, Exists
  <2>2. /\ issues' = [issues EXCEPT ![i] = AssignedRow(issues[i], q.assignee, q.at)]
        /\ log' = [log EXCEPT ![i] = Append(log[i], Assigning(i, c))]
    BY <1>3, <2>1 DEF CommitAssign, Assigning
  <2>3. Assigning(i, c) \in Events
    <3>1. issues[i].version + 1 \in Nat
      BY <2>1
    <3> HIDE DEF i
    <3> QED
      BY <2>1, <3>1, EventTypes DEF Assigning
  <2>4. Apart(i)
    BY <1>a, <2>1, <2>2 DEF Apart
  <2>5. AssignLogged(i, c)
    BY <1>a, <2>1, <2>2, <2>3 DEF AssignLogged
  <2> QED
    BY <2>1, <2>4, <2>5
<1>4. ASSUME CommitComment(c)
      PROVE  /\ request[c].issue \in Issues /\ Apart(request[c].issue)
             /\ CommentLogged(request[c].issue, c)
  <2> DEFINE i == request[c].issue
  <2>1. i \in Issues
    BY <1>4, <1>a, RequestKinds DEF CommitComment
  <2>2. /\ issues' = issues
        /\ log' = [log EXCEPT ![i] = Append(log[i], [type |-> "comment_added", actor |-> c])]
    BY <1>4 DEF CommitComment
  <2>3. Apart(i) /\ CommentLogged(i, c)
    BY <1>a, <2>1, <2>2 DEF Apart, CommentLogged
  <2> QED
    BY <2>1, <2>3
<1> QED
  BY <1>1, <1>2, <1>3, <1>4

LEMMA LogStep ==
  ASSUME TypeInv, [Next]_vars
  PROVE  \/ UNCHANGED <<log, issues>>
         \/ \E i \in Issues, c \in Callers :
              /\ Apart(i)
              /\ \/ Announced(i, c) \/ MoveLogged(i, c)
                 \/ AssignLogged(i, c) \/ CommentLogged(i, c)
BY CommitLogs
DEF Next, Submit, Commit, Tick, ConfigureSla, SubmitCreate, SubmitTransition,
    SubmitAssign, SubmitComment, ReplayCreate, Conflict, Drop, vars

\* A log that got one more event is the old one with that event at its end.
LEMMA LogEnd ==
  ASSUME TypeInv, NEW i \in Issues, NEW event \in Events, log'[i] = Append(log[i], event)
  PROVE  /\ Len(log[i]) \in Nat /\ Len(log'[i]) = Len(log[i]) + 1
         /\ DOMAIN log[i] = 1..Len(log[i])
         /\ DOMAIN log'[i] = DOMAIN log[i] \cup {Len(log[i]) + 1}
         /\ Len(log[i]) + 1 \notin DOMAIN log[i]
         /\ \A n \in DOMAIN log[i] : log'[i][n] = log[i][n]
         /\ log'[i][Len(log[i]) + 1] = event
<1>1. log[i] \in Seq(Events)
  BY DEF TypeInv, TypeOK
<1>2. /\ Len(log'[i]) = Len(log[i]) + 1
      /\ Append(log[i], event) \in Seq(Events)
      /\ \A n \in 1..Len(log[i]) : log'[i][n] = log[i][n]
      /\ log'[i][Len(log[i]) + 1] = event
  BY <1>1, AppendProperties
<1>3. /\ Len(log[i]) \in Nat /\ DOMAIN log[i] = 1..Len(log[i])
      /\ DOMAIN log'[i] = 1..(Len(log[i]) + 1)
  BY <1>1, <1>2, LenProperties
<1> QED
  BY <1>2, <1>3

LEMMA AnnouncedLog ==
  ASSUME NEW i \in Issues, NEW c \in Callers, Announced(i, c)
  PROVE  /\ Len(log'[i]) = 1 /\ DOMAIN log'[i] = {1}
         /\ log'[i][1].type = "issue_created"
BY DEF Announced

\* The places of the events of one type, before and after.
LEMMA EventsGrow ==
  ASSUME TypeInv, NEW i \in Issues, NEW event \in Events, log'[i] = Append(log[i], event),
         NEW type
  PROVE  EventsOf(i, type)' = IF event.type = type
                                THEN EventsOf(i, type) \cup {Len(log[i]) + 1}
                                ELSE EventsOf(i, type)
BY LogEnd DEF EventsOf

\* The last of finitely many places is one of them.
LEMMA LatestIsLast ==
  ASSUME NEW n \in Nat, NEW places \in SUBSET (1..n), places # {}
  PROVE  Latest(places) \in places /\ \A m \in places : m <= Latest(places)
<1> DEFINE Bounds == {b \in Nat : \A m \in places : m <= b}
<1>1. n \in Bounds
  OBVIOUS
<1>2. PICK b \in Bounds : \A d \in Bounds : b <= d
  <2>1. Bounds \in SUBSET Nat /\ Bounds # {}
    BY <1>1
  <2> HIDE DEF Bounds
  <2> QED
    BY <2>1, LeastNat
<1>3. b \in places
  <2> SUFFICES ASSUME b \notin places PROVE FALSE
    OBVIOUS
  <2>1. \A m \in places : m \in Nat /\ m >= 1 /\ m <= b - 1
    BY <1>2
  <2>2. PICK m \in places : TRUE
    OBVIOUS
  <2>3. b \in Nat /\ b >= 1
    BY <1>2, <2>1, <2>2
  <2>4. b - 1 \in Bounds
    BY <2>1, <2>3
  <2> QED
    BY <1>2, <2>3, <2>4
<1> QED
  BY <1>2, <1>3 DEF Latest

LEMMA LatestIs ==
  ASSUME NEW places \in SUBSET Nat, NEW n \in places, \A m \in places : m <= n
  PROVE  Latest(places) = n
<1>1. \A k \in places : (\A m \in places : m <= k) => k = n
  OBVIOUS
<1> QED
  BY <1>1 DEF Latest

-----------------------------------------------------------------------------
(* Versions *)

Changes(i) == {n \in DOMAIN log[i] : Versioned(log[i][n])}
ChangesTo(i, n) == {m \in Changes(i) : m <= n}

Counted(i) ==
  /\ \A n \in Changes(i) : log[i][n].version = Cardinality(ChangesTo(i, n)) + 1
  /\ Exists(i) => issues[i].version = Cardinality(Changes(i)) + 1

LastAssignee(i) ==
  LET assigned == EventsOf(i, "issue_assigned")
  IN  IF assigned = {} THEN None ELSE log[i][Latest(assigned)].assignee

LEMMA PlacesBound ==
  ASSUME TypeInv, NEW i \in Issues
  PROVE  /\ Len(log[i]) \in Nat
         /\ IsFiniteSet(Changes(i)) /\ Changes(i) \subseteq 1..Len(log[i])
         /\ \A type : EventsOf(i, type) \subseteq 1..Len(log[i])
<1>1. Len(log[i]) \in Nat /\ DOMAIN log[i] = 1..Len(log[i])
  BY LenProperties DEF TypeInv, TypeOK
<1>2. IsFiniteSet(1..Len(log[i]))
  BY <1>1, FS_Interval
<1>3. Changes(i) \subseteq 1..Len(log[i]) /\ \A type : EventsOf(i, type) \subseteq 1..Len(log[i])
  BY <1>1 DEF Changes, EventsOf
<1> QED
  BY <1>1, <1>2, <1>3, FS_Subset

\* A new event leaves the count as it is, or is one more change.
LEMMA CountStands ==
  ASSUME TypeInv, NEW i \in Issues, Counted(i), NEW event \in Events,
         log'[i] = Append(log[i], event), ~Versioned(event),
         issues'[i] = issues[i]
  PROVE  Counted(i)'
<1>1. Changes(i)' = Changes(i) /\ \A n : ChangesTo(i, n)' = ChangesTo(i, n)
  BY LogEnd DEF Changes, ChangesTo
<1>2. \A n \in Changes(i) : log'[i][n] = log[i][n]
  BY LogEnd DEF Changes
<1> QED
  BY <1>1, <1>2 DEF Counted, Exists

LEMMA CountGrows ==
  ASSUME TypeInv, NEW i \in Issues, Counted(i), Exists(i), NEW event \in Events,
         log'[i] = Append(log[i], event), Versioned(event),
         event.version = issues[i].version + 1,
         issues'[i].version = issues[i].version + 1
  PROVE  Counted(i)'
<1> DEFINE end == Len(log[i]) + 1
<1>1. end \in Nat /\ end \notin Changes(i) /\ \A n \in Changes(i) : n \in Nat /\ n < end
  BY PlacesBound DEF Changes
<1>2. Changes(i)' = Changes(i) \cup {end}
  BY LogEnd DEF Changes
<1>3. \A n : n = end => ChangesTo(i, n)' = Changes(i) \cup {end}
  BY <1>1, <1>2 DEF ChangesTo
<1>4. \A n \in Changes(i) : ChangesTo(i, n)' = ChangesTo(i, n)
  BY <1>1, <1>2 DEF ChangesTo
<1>5. Cardinality(Changes(i) \cup {end}) = Cardinality(Changes(i)) + 1
  BY <1>1, PlacesBound, FS_AddElement
<1>6. issues[i].version = Cardinality(Changes(i)) + 1
  BY DEF Counted
<1>7. /\ \A n \in Changes(i) : log'[i][n] = log[i][n]
      /\ log'[i][end] = event
  BY LogEnd DEF Changes
<1>8. ASSUME NEW n \in Changes(i)'
      PROVE  log'[i][n].version = Cardinality(ChangesTo(i, n)') + 1
  <2>1. CASE n \in Changes(i)
    BY <1>4, <1>7, <2>1 DEF Counted
  <2>2. CASE n = end
    BY <1>3, <1>5, <1>6, <1>7, <2>2
  <2> QED
    BY <1>2, <2>1, <2>2
<1>9. issues'[i].version = Cardinality(Changes(i)') + 1
  BY <1>2, <1>5, <1>6
<1> QED
  BY <1>8, <1>9 DEF Counted

VersionsTold == \A i \in Issues : Counted(i) /\ issues[i].assignee = LastAssignee(i)

\* An event that assigns nobody leaves the last assignment where it stands.
LEMMA AssigneeStands ==
  ASSUME TypeInv, NEW i \in Issues, NEW event \in Events,
         log'[i] = Append(log[i], event), event.type # "issue_assigned"
  PROVE  LastAssignee(i)' = LastAssignee(i)
<1> DEFINE assigned == EventsOf(i, "issue_assigned")
<1>1. assigned' = assigned
  BY EventsGrow
<1>2. assigned # {} => Latest(assigned) \in DOMAIN log[i]
  <2>1. Len(log[i]) \in Nat /\ assigned \in SUBSET (1..Len(log[i]))
    BY PlacesBound
  <2>2. assigned # {} => Latest(assigned) \in assigned
    <3> HIDE DEF assigned
    <3> QED
      BY <2>1, LatestIsLast
  <2> QED
    BY <2>2 DEF EventsOf
<1> QED
  BY <1>1, <1>2, LogEnd DEF LastAssignee

LEMMA AssigneeChanges ==
  ASSUME TypeInv, NEW i \in Issues, NEW event \in Events,
         log'[i] = Append(log[i], event), event.type = "issue_assigned"
  PROVE  LastAssignee(i)' = event.assignee
<1> DEFINE end == Len(log[i]) + 1
           assigned == EventsOf(i, "issue_assigned")
<1>1. assigned' = assigned \cup {end}
  BY EventsGrow
<1>2. end \in Nat /\ assigned \subseteq 1..Len(log[i]) /\ Len(log[i]) \in Nat
  BY PlacesBound
<1>3. assigned' \in SUBSET Nat /\ end \in assigned' /\ \A m \in assigned' : m <= end
  BY <1>1, <1>2
<1>4. Latest(assigned') = end
  <2> DEFINE places == assigned'
  <2>1. places \in SUBSET Nat /\ end \in places /\ \A m \in places : m <= end
    BY <1>3
  <2> HIDE DEF places, end
  <2> QED
    BY <2>1, LatestIs DEF places
<1> QED
  BY <1>3, <1>4, LogEnd DEF LastAssignee

LEMMA VersionsToldNext == TypeInv /\ VersionsTold /\ [Next]_vars => VersionsTold'
<1> SUFFICES ASSUME TypeInv, VersionsTold, [Next]_vars,
                    NEW j \in Issues
             PROVE  Counted(j)' /\ issues'[j].assignee = LastAssignee(j)'
  BY DEF VersionsTold
<1>a. Counted(j) /\ issues[j].assignee = LastAssignee(j)
  BY DEF VersionsTold
<1>1. CASE log'[j] = log[j] /\ issues'[j] = issues[j]
  BY <1>a, <1>1 DEF Counted, Changes, ChangesTo, LastAssignee, EventsOf, Exists
<1>2. ASSUME NEW c \in Callers, Announced(j, c)
      PROVE  Counted(j)' /\ issues'[j].assignee = LastAssignee(j)'
  <2>1. Changes(j)' = {} /\ EventsOf(j, "issue_assigned")' = {}
    BY <1>2, AnnouncedLog DEF Changes, EventsOf, Versioned
  <2>2. issues'[j].version = 1 /\ issues'[j].assignee = None
    BY <1>2 DEF Announced
  <2> QED
    BY <2>1, <2>2, FS_EmptySet DEF Counted, LastAssignee
<1>3. ASSUME NEW c \in Callers, MoveLogged(j, c)
      PROVE  Counted(j)' /\ issues'[j].assignee = LastAssignee(j)'
  <2>1. /\ issues'[j].version = issues[j].version + 1
        /\ issues'[j].assignee = issues[j].assignee
    BY <1>3 DEF MoveLogged, MovedRow
  <2>2. /\ Moving(j, c).type = "issue_transitioned" /\ Versioned(Moving(j, c))
        /\ Moving(j, c).version = issues[j].version + 1
    BY DEF Moving, Versioned
  <2> QED
    BY <1>3, <1>a, <2>1, <2>2, CountGrows, AssigneeStands DEF MoveLogged
<1>4. ASSUME NEW c \in Callers, AssignLogged(j, c)
      PROVE  Counted(j)' /\ issues'[j].assignee = LastAssignee(j)'
  <2>1. /\ issues'[j].version = issues[j].version + 1
        /\ issues'[j].assignee = request[c].assignee
    BY <1>4 DEF AssignLogged, AssignedRow
  <2>2. /\ Assigning(j, c).type = "issue_assigned" /\ Versioned(Assigning(j, c))
        /\ Assigning(j, c).version = issues[j].version + 1
        /\ Assigning(j, c).assignee = request[c].assignee
    BY DEF Assigning, Versioned
  <2> QED
    BY <1>4, <1>a, <2>1, <2>2, CountGrows, AssigneeChanges DEF AssignLogged
<1>5. ASSUME NEW c \in Callers, CommentLogged(j, c)
      PROVE  Counted(j)' /\ issues'[j].assignee = LastAssignee(j)'
  <2> DEFINE event == [type |-> "comment_added", actor |-> c]
  <2>1. event \in Events /\ ~Versioned(event) /\ event.type # "issue_assigned"
    BY EventTypes DEF Versioned
  <2>2. log'[j] = Append(log[j], event) /\ issues'[j] = issues[j]
    BY <1>5 DEF CommentLogged
  <2> HIDE DEF event
  <2> QED
    BY <1>a, <2>1, <2>2, CountStands, AssigneeStands
<1> QED
  BY <1>1, <1>2, <1>3, <1>4, <1>5, LogStep DEF Apart

\* The audit log numbers the changes of an issue one by one, whatever handlers
\* interleave and whatever versions they send: the version a change is logged
\* with is the row's next one, because the update compared them in the same
\* transaction.
THEOREM VersionsCountChanges == Spec => []LogTellsVersion
<1>1. ASSUME Init PROVE VersionsTold
  <2>1. \A i \in Issues : /\ Changes(i) = {} /\ EventsOf(i, "issue_assigned") = {}
                          /\ ~Exists(i) /\ issues[i].assignee = None
    BY <1>1 DEF Init, Changes, EventsOf, NoIssue, Exists
  <2> QED
    BY <2>1 DEF VersionsTold, Counted, LastAssignee
<1>2. VersionsTold => LogTellsVersion
  BY DEF VersionsTold, Counted, LastAssignee, LogTellsVersion, Changes, ChangesTo
<1> QED
  BY <1>1, <1>2, TypeInit, TypeNext, VersionsToldNext, PTL DEF Spec

-----------------------------------------------------------------------------
(* Paths *)

\* A rule that is on its way to a transaction was one its caller may execute.
Permitted ==
  \A c \in Callers : request[c].op = "transition" => RoleOf[c] \in request[c].rule.allowed_roles

LEMMA PermittedNext == TypeInv /\ Permitted /\ [Next]_vars => Permitted'
<1> SUFFICES ASSUME TypeInv, Permitted, [Next]_vars PROVE Permitted'
  OBVIOUS
<1>1. ASSUME NEW c \in Callers, NEW q, request' = [request EXCEPT ![c] = q],
             q.op = "transition" => RoleOf[c] \in q.rule.allowed_roles
      PROVE  Permitted'
  <2>1. request'[c] = q /\ \A d \in Callers \ {c} : request'[d] = request[d]
    BY <1>1 DEF TypeInv, TypeOK
  <2> QED
    BY <1>1, <2>1 DEF Permitted
<1>2. ASSUME NEW c \in Callers, SubmitTransition(c) PROVE Permitted'
  <2>1. PICK i \in Issues, rule \in Rules, e \in Nat :
          /\ MayExecute(rule, issues[i].status, RoleOf[c])
          /\ request' = [request EXCEPT ![c] =
               [op |-> "transition", issue |-> i, expected |-> e, rule |-> rule, at |-> now]]
    BY <1>2, ExpectableType DEF SubmitTransition
  <2> DEFINE q == [op |-> "transition", issue |-> i, expected |-> e, rule |-> rule,
                   at |-> now]
  <2>2. RoleOf[c] \in q.rule.allowed_roles
    BY <2>1 DEF MayExecute
  <2>3. request' = [request EXCEPT ![c] = q]
    BY <2>1
  <2> HIDE DEF q
  <2> QED
    BY <1>1, <2>2, <2>3
<1>3. ASSUME NEW c \in Callers, SubmitCreate(c) \/ SubmitAssign(c) \/ SubmitComment(c)
      PROVE  Permitted'
  <2>1. request'[c].op # "transition" /\ \A d \in Callers \ {c} : request'[d] = request[d]
    <3>1. CASE SubmitCreate(c)
      BY <3>1 DEF SubmitCreate, TypeInv, TypeOK
    <3>2. CASE SubmitAssign(c)
      BY <3>2 DEF SubmitAssign, TypeInv, TypeOK
    <3>3. CASE SubmitComment(c)
      BY <3>3 DEF SubmitComment, TypeInv, TypeOK
    <3> QED
      BY <1>3, <3>1, <3>2, <3>3
  <2> QED
    BY <2>1 DEF Permitted
<1>4. ASSUME NEW c \in Callers, Commit(c) \/ Drop(c) PROVE Permitted'
  <2>1. request' = [request EXCEPT ![c] = Idle] /\ Idle.op # "transition"
    BY <1>4 DEF Commit, CommitCreate, ReplayCreate, CommitTransition, CommitAssign,
                Conflict, CommitComment, Drop, Idle
  <2> QED
    BY <1>1, <2>1
<1>5. CASE UNCHANGED request
  BY <1>5 DEF Permitted
<1> QED
  BY <1>2, <1>3, <1>4, <1>5 DEF Next, Submit, Tick, ConfigureSla, vars

MovesTo(i, n) == {m \in EventsOf(i, "issue_transitioned") : m <= n}

LEMMA StatusIs ==
  ASSUME NEW i, NEW n
  PROVE  StatusAfter(i, n) = IF MovesTo(i, n) = {} THEN "open"
                             ELSE log[i][Latest(MovesTo(i, n))].to
BY DEF StatusAfter, MovesTo

LEMMA LatestMove ==
  ASSUME TypeInv, NEW i \in Issues, NEW n, MovesTo(i, n) # {}
  PROVE  Latest(MovesTo(i, n)) \in MovesTo(i, n) /\ Latest(MovesTo(i, n)) \in DOMAIN log[i]
<1> DEFINE places == MovesTo(i, n)
<1>1. Len(log[i]) \in Nat /\ places \in SUBSET (1..Len(log[i]))
  BY PlacesBound DEF MovesTo
<1>2. Latest(places) \in places
  <2>1. places # {}
    OBVIOUS
  <2> HIDE DEF places
  <2> QED
    BY <1>1, <2>1, LatestIsLast
<1> QED
  BY <1>2 DEF MovesTo, EventsOf

\* A new event says nothing new about the events before it.
LEMMA StatusStands ==
  ASSUME TypeInv, NEW i \in Issues, NEW event \in Events, log'[i] = Append(log[i], event),
         NEW n \in 0..Len(log[i])
  PROVE  StatusAfter(i, n)' = StatusAfter(i, n)
<1>1. MovesTo(i, n)' = MovesTo(i, n)
  <2>1. Len(log[i]) \in Nat
    BY LogEnd
  <2>2. n < Len(log[i]) + 1
    BY <2>1
  <2> QED
    BY <2>1, <2>2, EventsGrow DEF MovesTo
<1>2. MovesTo(i, n) # {} =>
        log'[i][Latest(MovesTo(i, n))] = log[i][Latest(MovesTo(i, n))]
  BY LatestMove, LogEnd
<1>3. StatusAfter(i, n)' = IF MovesTo(i, n)' = {} THEN "open"
                           ELSE log'[i][Latest(MovesTo(i, n)')].to
  BY DEF StatusAfter, MovesTo
<1> QED
  BY <1>1, <1>2, <1>3, StatusIs

\* After it the status is the one it leads to, if it is a transition.
LEMMA StatusEnds ==
  ASSUME TypeInv, NEW i \in Issues, NEW event \in Events, log'[i] = Append(log[i], event),
         NEW n, n = Len(log[i]) + 1
  PROVE  StatusAfter(i, n)' = IF event.type = "issue_transitioned" THEN event.to
                              ELSE StatusAfter(i, Len(log[i]))
<1> DEFINE moves == EventsOf(i, "issue_transitioned")
           last == Len(log[i])
<1>a. last \in Nat /\ moves \subseteq 1..last /\ n = last + 1
  BY PlacesBound
<1>1. CASE event.type = "issue_transitioned"
  <2>1. MovesTo(i, n)' = moves \cup {n}
    BY <1>a, <1>1, EventsGrow DEF MovesTo
  <2>2. Latest(moves \cup {n}) = n
    <3> DEFINE places == moves \cup {n}
    <3>1. places \in SUBSET Nat /\ n \in places /\ \A m \in places : m <= n
      BY <1>a
    <3> HIDE DEF places
    <3> QED
      BY <3>1, LatestIs DEF places
  <2>3. log'[i][n] = event
    BY LogEnd
  <2>4. StatusAfter(i, n)' = log'[i][Latest(moves \cup {n})].to
    <3>1. StatusAfter(i, n)' = IF MovesTo(i, n)' = {} THEN "open"
                               ELSE log'[i][Latest(MovesTo(i, n)')].to
      BY DEF StatusAfter, MovesTo
    <3> QED
      BY <2>1, <3>1
  <2> QED
    BY <1>1, <2>2, <2>3, <2>4
<1>2. CASE event.type # "issue_transitioned"
  <2>1. MovesTo(i, n)' = MovesTo(i, last)
    BY <1>a, <1>2, EventsGrow DEF MovesTo
  <2>2. MovesTo(i, last) # {} =>
          log'[i][Latest(MovesTo(i, last))] = log[i][Latest(MovesTo(i, last))]
    BY LatestMove, LogEnd
  <2>3. StatusAfter(i, n)' = IF MovesTo(i, n)' = {} THEN "open"
                             ELSE log'[i][Latest(MovesTo(i, n)')].to
    BY DEF StatusAfter, MovesTo
  <2> QED
    BY <1>2, <2>1, <2>2, <2>3, StatusIs
<1> QED
  BY <1>1, <1>2

EdgeAt(i, n, r) ==
  /\ r.name = log[i][n].name
  /\ r.source = log[i][n].from
  /\ r.target = log[i][n].to
  /\ RoleOf[log[i][n].actor] \in r.allowed_roles

OnPath(i) ==
  LET moves == EventsOf(i, "issue_transitioned")
  IN  /\ \A n \in moves :
           log[i][n].from = StatusAfter(i, n - 1) /\ \E r \in Rules : EdgeAt(i, n, r)
      /\ Exists(i) => issues[i].status = StatusAfter(i, Len(log[i]))
      /\ issues[i].resolved <=>
           moves # {} /\ \E r \in Rules : EdgeAt(i, Latest(moves), r) /\ r.requires_resolution

\* The events that were there go on being edges of the path.
LEMMA EdgesStand ==
  ASSUME TypeInv, NEW i \in Issues, OnPath(i), NEW event \in Events,
         log'[i] = Append(log[i], event)
  PROVE  \A n \in EventsOf(i, "issue_transitioned") :
           /\ log'[i][n].from = StatusAfter(i, n - 1)'
           /\ \E r \in Rules : EdgeAt(i, n, r)'
           /\ \A r : EdgeAt(i, n, r)' <=> EdgeAt(i, n, r)
<1> SUFFICES ASSUME NEW n \in EventsOf(i, "issue_transitioned")
             PROVE  /\ log'[i][n].from = StatusAfter(i, n - 1)'
                    /\ \E r \in Rules : EdgeAt(i, n, r)'
                    /\ \A r : EdgeAt(i, n, r)' <=> EdgeAt(i, n, r)
  OBVIOUS
<1>1. n \in DOMAIN log[i] /\ log'[i][n] = log[i][n]
  BY LogEnd DEF EventsOf
<1>2. n - 1 \in 0..Len(log[i])
  BY <1>1, PlacesBound
<1>3. StatusAfter(i, n - 1)' = StatusAfter(i, n - 1)
  <2> DEFINE before == n - 1
  <2>1. before \in 0..Len(log[i])
    BY <1>2
  <2> HIDE DEF before
  <2>2. StatusAfter(i, before)' = StatusAfter(i, before)
    BY <2>1, StatusStands
  <2> QED
    BY <2>2 DEF before
<1>4. \A r : EdgeAt(i, n, r)' <=> EdgeAt(i, n, r)
  BY <1>1 DEF EdgeAt
<1> QED
  BY <1>1, <1>3, <1>4 DEF OnPath

\* An event that is no transition, beside a row whose status and resolution
\* stay, leaves the path as it is.
LEMMA PathStands ==
  ASSUME TypeInv, NEW i \in Issues, OnPath(i), NEW event \in Events,
         log'[i] = Append(log[i], event), event.type # "issue_transitioned",
         issues'[i].status = issues[i].status, issues'[i].resolved = issues[i].resolved
  PROVE  OnPath(i)'
<1> DEFINE moves == EventsOf(i, "issue_transitioned")
<1>1. moves' = moves
  BY EventsGrow
<1>2. moves # {} => Latest(moves) \in moves
  <2>1. Len(log[i]) \in Nat /\ moves \in SUBSET (1..Len(log[i]))
    BY PlacesBound
  <2> HIDE DEF moves
  <2> QED
    BY <2>1, LatestIsLast
<1>3. \A n : n = Len(log[i]) + 1 => StatusAfter(i, n)' = StatusAfter(i, Len(log[i]))
  BY StatusEnds
<1>4. Len(log'[i]) = Len(log[i]) + 1
  BY LogEnd
<1>5. StatusAfter(i, Len(log[i]))' = StatusAfter(i, Len(log[i]))
  BY <1>3, <1>4 DEF StatusAfter, EventsOf
<1>6. Exists(i)' <=> Exists(i)
  BY DEF Exists
<1>7. moves # {} => \A r : EdgeAt(i, Latest(moves), r)' <=> EdgeAt(i, Latest(moves), r)
  <2>1. ASSUME NEW n \in moves PROVE \A r : EdgeAt(i, n, r)' <=> EdgeAt(i, n, r)
    BY EdgesStand
  <2> QED
    BY <1>1, <1>2, <2>1 DEF EdgeAt
<1> QED
  BY <1>1, <1>5, <1>6, <1>7, EdgesStand DEF OnPath

\* A move by a rule of the row's own status lengthens the path by one edge.
LEMMA PathGrows ==
  ASSUME TypeInv, Permitted, NEW i \in Issues, OnPath(i), NEW c \in Callers,
         MoveLogged(i, c), request[c].rule.source = issues[i].status
  PROVE  OnPath(i)'
<1> DEFINE moves == EventsOf(i, "issue_transitioned")
           end == Len(log[i]) + 1
           rule == request[c].rule
           event == Moving(i, c)
<1>a. /\ event \in Events /\ log'[i] = Append(log[i], event) /\ rule \in Rules
      /\ Exists(i) /\ request[c].op = "transition"
  BY DEF MoveLogged, CommitTransition
<1>b. /\ event.type = "issue_transitioned" /\ event.actor = c /\ event.name = rule.name
      /\ event.from = issues[i].status /\ event.to = rule.target
  BY DEF Moving
<1>c. issues'[i].status = rule.target /\ issues'[i].resolved = rule.requires_resolution
  BY DEF MoveLogged, MovedRow
<1> HIDE DEF event
<1>1. moves' = moves \cup {end} /\ end \in Nat /\ \A m \in moves : m \in Nat /\ m <= end
  <2>1. moves' = moves \cup {end}
    BY <1>a, <1>b, EventsGrow
  <2> QED
    BY <2>1, PlacesBound
<1>2. Latest(moves') = end
  <2> DEFINE places == moves'
  <2>1. places \in SUBSET Nat /\ end \in places /\ \A m \in places : m <= end
    BY <1>1
  <2> HIDE DEF places, end
  <2> QED
    BY <2>1, LatestIs DEF places
<1>3. log'[i][end] = event /\ Len(log'[i]) = end
  BY <1>a, LogEnd
<1>4. \A n : n = end - 1 => StatusAfter(i, n)' = issues[i].status
  <2>1. Len(log[i]) \in Nat /\ end - 1 = Len(log[i])
    BY PlacesBound
  <2>2. \A n \in 0..Len(log[i]) : StatusAfter(i, n)' = StatusAfter(i, n)
    BY <1>a, StatusStands
  <2> QED
    BY <1>a, <2>1, <2>2 DEF OnPath
<1>5. \A n : n = end => StatusAfter(i, n)' = rule.target
  BY <1>a, <1>b, StatusEnds
<1>6. \A n, r : n = end =>
        (EdgeAt(i, n, r)' <=>
           /\ r.name = rule.name /\ r.source = issues[i].status /\ r.target = rule.target
           /\ RoleOf[c] \in r.allowed_roles)
  BY <1>3, <1>b DEF EdgeAt
<1>7. RoleOf[c] \in rule.allowed_roles /\ rule.source = issues[i].status
  BY <1>a DEF Permitted
<1>8. \A n \in moves' : log'[i][n].from = StatusAfter(i, n - 1)'
                        /\ \E r \in Rules : EdgeAt(i, n, r)'
  <2>1. ASSUME NEW n \in moves
        PROVE  log'[i][n].from = StatusAfter(i, n - 1)' /\ \E r \in Rules : EdgeAt(i, n, r)'
    BY <1>a, EdgesStand
  <2>2. ASSUME NEW n, n = end
        PROVE  log'[i][n].from = StatusAfter(i, n - 1)' /\ \E r \in Rules : EdgeAt(i, n, r)'
    <3>1. \E r \in Rules : EdgeAt(i, n, r)'
      BY <1>6, <1>7, <1>a, <2>2
    <3>2. log'[i][n].from = issues[i].status
      BY <1>3, <1>b, <2>2
    <3> DEFINE before == n - 1
    <3>3. before = end - 1
      BY <2>2
    <3> HIDE DEF before, end
    <3>4. StatusAfter(i, before)' = issues[i].status
      BY <1>4, <3>3
    <3> QED
      BY <3>1, <3>2, <3>4 DEF before
  <2> QED
    BY <1>1, <2>1, <2>2
<1>9. issues'[i].status = StatusAfter(i, Len(log[i]))'
  <2>1. \A n : n = Len(log'[i]) => StatusAfter(i, n)' = rule.target
    BY <1>3, <1>5
  <2> QED
    BY <1>c, <2>1 DEF StatusAfter, EventsOf
<1>10. issues'[i].resolved <=>
         moves' # {} /\ \E r \in Rules : EdgeAt(i, Latest(moves), r)' /\ r.requires_resolution
  <2>1. \A r \in Rules : r.name = rule.name /\ r.source = rule.source => r = rule
    BY <1>a, RulesAssumption DEF NamesUnique
  <2>2. \A r : EdgeAt(i, Latest(moves), r)' <=>
           /\ r.name = rule.name /\ r.source = issues[i].status /\ r.target = rule.target
           /\ RoleOf[c] \in r.allowed_roles
    BY <1>2, <1>3, <1>b DEF EdgeAt
  <2>3. rule.requires_resolution \in BOOLEAN
    BY <1>a, RulesAssumption DEF RuleShape
  <2> QED
    BY <1>1, <1>7, <1>a, <1>c, <2>1, <2>2, <2>3
<1> QED
  BY <1>8, <1>9, <1>10 DEF OnPath

PathsKept == \A i \in Issues : OnPath(i)

LEMMA PathsKeptNext ==
  TypeInv /\ Fresh /\ Permitted /\ PathsKept /\ [Next]_vars => PathsKept'
<1> SUFFICES ASSUME TypeInv, Fresh, Permitted, PathsKept, [Next]_vars, NEW j \in Issues
             PROVE  OnPath(j)'
  BY DEF PathsKept
<1>a. OnPath(j)
  BY DEF PathsKept
<1>1. CASE log'[j] = log[j] /\ issues'[j] = issues[j]
  <2>1. /\ EventsOf(j, "issue_transitioned")' = EventsOf(j, "issue_transitioned")
        /\ Exists(j)' <=> Exists(j)
    BY <1>1 DEF EventsOf, Exists
  <2>2. \A n : StatusAfter(j, n)' = StatusAfter(j, n)
    BY <1>1, <2>1 DEF StatusAfter
  <2>3. StatusAfter(j, Len(log[j]))' = StatusAfter(j, Len(log[j]))
    BY <1>1, <2>1 DEF StatusAfter
  <2>4. \A n, r : EdgeAt(j, n, r)' <=> EdgeAt(j, n, r)
    BY <1>1 DEF EdgeAt
  <2> DEFINE latest == Latest(EventsOf(j, "issue_transitioned"))
  <2>5. \A r : EdgeAt(j, latest, r)' <=> EdgeAt(j, latest, r)
    BY <1>1, <2>1 DEF EdgeAt
  <2> HIDE DEF latest
  <2> QED
    BY <1>a, <1>1, <2>1, <2>2, <2>3, <2>4, <2>5 DEF OnPath, latest
<1>2. ASSUME NEW c \in Callers, Announced(j, c) PROVE OnPath(j)'
  <2>1. EventsOf(j, "issue_transitioned")' = {}
    BY <1>2, AnnouncedLog DEF EventsOf
  <2>2. \A n : StatusAfter(j, n)' = "open"
    BY <2>1 DEF StatusAfter
  <2>3. StatusAfter(j, Len(log[j]))' = "open"
    BY <2>1 DEF StatusAfter
  <2> QED
    BY <1>2, <2>1, <2>3 DEF OnPath, Announced
<1>3. ASSUME NEW c \in Callers, MoveLogged(j, c) PROVE OnPath(j)'
  <2>1. request[c].rule.source = issues[j].status
    BY <1>3, ChangesFit DEF MoveLogged
  <2> QED
    BY <1>a, <1>3, <2>1, PathGrows
<1>4. ASSUME NEW c \in Callers, AssignLogged(j, c) PROVE OnPath(j)'
  <2>1. /\ Assigning(j, c).type = "issue_assigned"
        /\ issues'[j].status = issues[j].status /\ issues'[j].resolved = issues[j].resolved
    BY <1>4 DEF AssignLogged, Assigning, AssignedRow
  <2> QED
    BY <1>a, <1>4, <2>1, PathStands DEF AssignLogged
<1>5. ASSUME NEW c \in Callers, CommentLogged(j, c) PROVE OnPath(j)'
  <2> DEFINE event == [type |-> "comment_added", actor |-> c]
  <2>1. event \in Events /\ event.type # "issue_transitioned"
    BY EventTypes
  <2>2. log'[j] = Append(log[j], event) /\ issues'[j] = issues[j]
    BY <1>5 DEF CommentLogged
  <2> HIDE DEF event
  <2> QED
    BY <1>a, <2>1, <2>2, PathStands
<1> QED
  BY <1>1, <1>2, <1>3, <1>4, <1>5, LogStep DEF Apart

\* The audit log of an issue is a path through its workflow, for every
\* workflow, every number of handlers and every interleaving: a rule that was
\* looked up before the transaction is applied only to the row it was looked up
\* on, and by a caller whose role it allows.  It needs callers that send only
\* versions they have seen.
THEOREM HistoriesArePaths == ASSUME Ahead = 0 PROVE Spec => []HistoryIsPath
<1>1. Init => Permitted /\ PathsKept
  <2> SUFFICES ASSUME Init PROVE Permitted /\ PathsKept
    OBVIOUS
  <2>1. Permitted
    BY DEF Init, Permitted, Idle
  <2>2. \A i \in Issues : /\ EventsOf(i, "issue_transitioned") = {}
                          /\ ~Exists(i) /\ issues[i].resolved = FALSE
    BY DEF Init, EventsOf, NoIssue, Exists
  <2> QED
    BY <2>1, <2>2 DEF PathsKept, OnPath
<1>2. PathsKept => HistoryIsPath
  BY DEF PathsKept, OnPath, EdgeAt, HistoryIsPath
<1> QED
  BY <1>1, <1>2, FreshAlways, PermittedNext, PathsKeptNext, PTL DEF Spec
=============================================================================

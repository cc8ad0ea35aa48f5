------------------------------- MODULE IssueDesk ------------------------------
(***************************************************************************)
(* The issues of the service desk: service_desk/service.py on              *)
(* service_desk/repository.py, called by the threads of one or several API *)
(* processes on one SQLite file.                                           *)
(*                                                                         *)
(* A request is two steps.  Submit is what the method does before it has   *)
(* the write lock: it checks the caller's role, resolves the transition    *)
(* rule on the status it reads, and reads the clock ("now = self.now()"    *)
(* stands above "with self._lock").  Commit is the BEGIN IMMEDIATE         *)
(* transaction.  Between the two any other request may commit and time may *)
(* pass.  A request that raises in its transaction is rolled back, and one *)
(* whose process dies before the commit leaves nothing: Drop.              *)
(*                                                                         *)
(* log holds, per issue, the rows that _audit and _outbox insert side by   *)
(* side in the transaction.  answers is history: the issues create_issue   *)
(* has returned, and for which request.                                    *)
(***************************************************************************)
EXTENDS Workflow, IssueSla, Sequences, FiniteSets

CONSTANTS
  Issues,      \* ids that issues can get
  Projects,    \* project ids
  Keys,        \* idempotency keys
  Payloads,    \* create requests, told apart by their hash
  Callers,     \* request handlers, each acting for one actor
  RoleOf,      \* role of a caller's actor
  Assignees,   \* ids an issue can be assigned to
  Rules,       \* the transitions of the registered workflow
  Policies,    \* SLA policies an admin may configure
  Ahead,       \* how far an expected_version may run ahead of the issue
  Horizon,     \* bound on time
  MaxLog       \* bound on the events of each issue, but for requests under way

ASSUME RulesAssumption == RuleShape(Rules) /\ NamesUnique(Rules)
ASSUME RoleAssumption == RoleOf \in [Callers -> Roles]
ASSUME PolicyAssumption ==
  Policies \subseteq {p \in [first_response : Nat, resolution : Nat] :
                        p.resolution >= p.first_response}
ASSUME BoundAssumption == Ahead \in Nat /\ Horizon \in Nat /\ MaxLog \in [Issues -> Nat]
ASSUME NullAssumption ==
  None \notin Nat \cup Assignees \cup Policies \cup Issues \cup Projects
              \cup SlaRows(Horizon) \cup [payload : Payloads, issue : Issues]

VARIABLES
  now,      \* the clock
  policy,   \* sla_policies, by project
  next,     \* projects.next_issue_sequence
  keys,     \* idempotency_keys, by project and key
  issues,   \* issues, by issue_id
  sla,      \* sla_instances, by issue_id
  log,      \* audit_events and outbox_events, by issue_id
  request,  \* what a caller's method holds between submit and commit
  answers   \* history of create_issue's results

vars == <<now, policy, next, keys, issues, sla, log, request, answers>>

-----------------------------------------------------------------------------
(* Rows, requests and events *)

NoIssue == [status |-> "absent", version |-> 0, project |-> None, sequence |-> 0,
            assignee |-> None, resolved |-> FALSE, created_at |-> 0, updated_at |-> 0]

IssueRows ==
  [status : Statuses \cup {"absent"}, version : Nat, project : Projects \cup {None},
   sequence : Nat, assignee : Assignees \cup {None}, resolved : BOOLEAN,
   created_at : 0..Horizon, updated_at : 0..Horizon]

KeyRows == [payload : Payloads, issue : Issues]

Idle == [op |-> "idle"]

Requests ==
  {Idle}
  \cup [op : {"create"}, project : Projects, key : Keys, payload : Payloads, at : 0..Horizon]
  \cup [op : {"transition"}, issue : Issues, expected : Nat, rule : Rules, at : 0..Horizon]
  \cup [op : {"assign"}, issue : Issues, expected : Nat, assignee : Assignees,
        at : 0..Horizon]
  \cup [op : {"comment"}, issue : Issues, internal : BOOLEAN, at : 0..Horizon]

Events ==
  [type : {"issue_created", "comment_added"}, actor : Callers]
  \cup [type : {"issue_transitioned"}, actor : Callers, name : {r.name : r \in Rules},
        from : Statuses, to : Statuses, version : Nat]
  \cup [type : {"issue_assigned"}, actor : Callers, assignee : Assignees, version : Nat]

Answers == [project : Projects, key : Keys, payload : Payloads, issue : Issues]

\* The events that carry a version are those of the operations that compare one.
Versioned(event) == event.type \in {"issue_transitioned", "issue_assigned"}

Exists(i) == issues[i].status # "absent"

-----------------------------------------------------------------------------
(* What the transactions test and write *)

\* Mutation of OpenedRow: the version starts at 0.
OpenedRowUnversioned(p, sequence, at) ==
  [status |-> "open", version |-> 0, project |-> p, sequence |-> sequence,
   assignee |-> None, resolved |-> FALSE, created_at |-> at, updated_at |-> at]

OpenedRow(p, sequence, at) ==
  [status |-> "open", version |-> 1, project |-> p, sequence |-> sequence,
   assignee |-> None, resolved |-> FALSE, created_at |-> at, updated_at |-> at]

\* The resolution column is overwritten by every transition, so only the rule
\* that requires a text leaves one.
MovedRow(row, rule, at) ==
  [status |-> rule.target, version |-> row.version + 1, project |-> row.project,
   sequence |-> row.sequence, assignee |-> row.assignee,
   resolved |-> rule.requires_resolution, created_at |-> row.created_at, updated_at |-> at]

\* Mutation of AssignedRow: the assignment does not count as a change.
AssignedRowSameVersion(row, assignee, at) ==
  [status |-> row.status, version |-> row.version, project |-> row.project,
   sequence |-> row.sequence, assignee |-> assignee,
   resolved |-> row.resolved, created_at |-> row.created_at, updated_at |-> at]

AssignedRow(row, assignee, at) ==
  [status |-> row.status, version |-> row.version + 1, project |-> row.project,
   sequence |-> row.sequence, assignee |-> assignee,
   resolved |-> row.resolved, created_at |-> row.created_at, updated_at |-> at]

\* Mutation of IsCurrent: a version that is merely not newer passes.
IsCurrentOrOlder(row, expected) == row.status # "absent" /\ expected <= row.version

\* Found, and at the version the caller expects.
IsCurrent(row, expected) == row.status # "absent" /\ row.version = expected

\* Mutation of SameRequest: the hash is not compared on replay.
SameRequestAny(stored, payload) == stored # None

\* A stored idempotency key answers only the request it was stored for.
SameRequest(stored, payload) == stored # None /\ stored.payload = payload

\* Mutation of MayExecute: resolve forgets the source status.
MayExecuteAnywhere(rule, status, role) == role \in rule.allowed_roles

\* WorkflowDefinition.resolve finds the rule and lets the role through.
MayExecute(rule, status, role) == rule.source = status /\ role \in rule.allowed_roles

\* Mutation of SequenceAfter: one number is lost at every allocation.
SequenceAfterWaste(sequence) == sequence + 2

SequenceAfter(sequence) == sequence + 1

\* What add_comment counts as a first response.
FirstResponse(role, internal) == ~internal /\ role \in AgentRoles

-----------------------------------------------------------------------------
Init ==
  /\ now = 0
  /\ policy = [p \in Projects |-> None]
  /\ next = [p \in Projects |-> 1]
  /\ keys = [p \in Projects |-> [k \in Keys |-> None]]
  /\ issues = [i \in Issues |-> NoIssue]
  /\ sla = [i \in Issues |-> None]
  /\ log = [i \in Issues |-> << >>]
  /\ request = [c \in Callers |-> Idle]
  /\ answers = {}

Tick ==
  /\ now < Horizon
  /\ now' = now + 1
  /\ UNCHANGED <<policy, next, keys, issues, sla, log, request, answers>>

\* configure_sla: one upsert; the SLAs already opened keep their targets.
ConfigureSla(c) ==
  /\ RoleOf[c] = "admin"
  /\ request[c] = Idle
  /\ \E p \in Projects, pol \in Policies : policy' = [policy EXCEPT ![p] = pol]
  /\ UNCHANGED <<now, next, keys, issues, sla, log, request, answers>>

-----------------------------------------------------------------------------
(* Submit *)

SubmitCreate(c) ==
  /\ request[c] = Idle
  /\ RoleOf[c] \in PeopleRoles
  /\ \E p \in Projects, k \in Keys, h \in Payloads :
       request' = [request EXCEPT ![c] =
         [op |-> "create", project |-> p, key |-> k, payload |-> h, at |-> now]]
  /\ UNCHANGED <<now, policy, next, keys, issues, sla, log, answers>>

\* A caller sends a version it has seen, that is one the issue has had, or runs
\* up to Ahead changes of its own ahead.
Expectable(i) == 1..(issues[i].version + Ahead)

\* transition: get_issue and resolve.  Reading the status and reading the clock
\* are one step: with Ahead = 0 a transaction that succeeds finds the version
\* the caller had seen before, so nothing committed in between.
SubmitTransition(c) ==
  /\ request[c] = Idle
  /\ \E i \in Issues, rule \in Rules :
       /\ Exists(i)
       /\ Len(log[i]) < MaxLog[i]
       /\ MayExecute(rule, issues[i].status, RoleOf[c])
       /\ \E e \in Expectable(i) :
            request' = [request EXCEPT ![c] =
              [op |-> "transition", issue |-> i, expected |-> e, rule |-> rule, at |-> now]]
  /\ UNCHANGED <<now, policy, next, keys, issues, sla, log, answers>>

SubmitAssign(c) ==
  /\ request[c] = Idle
  /\ RoleOf[c] \in AgentRoles
  /\ \E i \in Issues, a \in Assignees :
       /\ Exists(i)
       /\ Len(log[i]) < MaxLog[i]
       /\ \E e \in Expectable(i) :
            request' = [request EXCEPT ![c] =
              [op |-> "assign", issue |-> i, expected |-> e, assignee |-> a, at |-> now]]
  /\ UNCHANGED <<now, policy, next, keys, issues, sla, log, answers>>

SubmitComment(c) ==
  /\ request[c] = Idle
  /\ \E i \in Issues, internal \in BOOLEAN :
       /\ Exists(i)
       /\ Len(log[i]) < MaxLog[i]
       /\ internal => RoleOf[c] \in AgentRoles
       /\ request' = [request EXCEPT ![c] =
            [op |-> "comment", issue |-> i, internal |-> internal, at |-> now]]
  /\ UNCHANGED <<now, policy, next, keys, issues, sla, log, answers>>

-----------------------------------------------------------------------------
(* Commit *)

Answer(q, i) == [project |-> q.project, key |-> q.key, payload |-> q.payload, issue |-> i]

\* create_issue, the key is new: sequence, issue, SLA, key and events together.
CommitCreate(c) ==
  LET q == request[c]
  IN  /\ q.op = "create"
      /\ keys[q.project][q.key] = None
      /\ \E i \in Issues :
           /\ ~Exists(i)
           /\ issues' = [issues EXCEPT ![i] = OpenedRow(q.project, next[q.project], q.at)]
           /\ sla' = [sla EXCEPT ![i] =
                IF policy[q.project] = None THEN None
                ELSE OpenedSla(policy[q.project], q.at)]
           /\ keys' = [keys EXCEPT ![q.project][q.key] =
                [payload |-> q.payload, issue |-> i]]
           /\ log' = [log EXCEPT ![i] = <<[type |-> "issue_created", actor |-> c]>>]
           /\ answers' = answers \cup {Answer(q, i)}
      /\ next' = [next EXCEPT ![q.project] = SequenceAfter(@)]
      /\ request' = [request EXCEPT ![c] = Idle]
      /\ UNCHANGED <<now, policy>>

\* create_issue, the key is known: the stored issue, or Conflict.
ReplayCreate(c) ==
  LET q == request[c]
  IN  /\ q.op = "create"
      /\ keys[q.project][q.key] # None
      /\ answers' = IF SameRequest(keys[q.project][q.key], q.payload)
                      THEN answers \cup {Answer(q, keys[q.project][q.key].issue)}
                      ELSE answers
      /\ request' = [request EXCEPT ![c] = Idle]
      /\ UNCHANGED <<now, policy, next, keys, issues, sla, log>>

CommitTransition(c) ==
  LET q == request[c]
  IN  /\ q.op = "transition"
      /\ IsCurrent(issues[q.issue], q.expected)
      /\ issues' = [issues EXCEPT ![q.issue] = MovedRow(@, q.rule, q.at)]
      /\ sla' = [sla EXCEPT ![q.issue] =
           IF @ = None THEN None
           ELSE MovedSla(@, issues[q.issue].status, q.rule.target, q.at)]
      /\ log' = [log EXCEPT ![q.issue] = Append(@,
           [type |-> "issue_transitioned", actor |-> c, name |-> q.rule.name,
            from |-> issues[q.issue].status, to |-> q.rule.target,
            version |-> q.expected + 1])]
      /\ request' = [request EXCEPT ![c] = Idle]
      /\ UNCHANGED <<now, policy, next, keys, answers>>

CommitAssign(c) ==
  LET q == request[c]
  IN  /\ q.op = "assign"
      /\ IsCurrent(issues[q.issue], q.expected)
      /\ issues' = [issues EXCEPT ![q.issue] = AssignedRow(@, q.assignee, q.at)]
      /\ log' = [log EXCEPT ![q.issue] = Append(@,
           [type |-> "issue_assigned", actor |-> c, assignee |-> q.assignee,
            version |-> q.expected + 1])]
      /\ request' = [request EXCEPT ![c] = Idle]
      /\ UNCHANGED <<now, policy, next, keys, sla, answers>>

\* The version test raises Conflict and the transaction is rolled back.
Conflict(c) ==
  LET q == request[c]
  IN  /\ q.op \in {"transition", "assign"}
      /\ ~IsCurrent(issues[q.issue], q.expected)
      /\ request' = [request EXCEPT ![c] = Idle]
      /\ UNCHANGED <<now, policy, next, keys, issues, sla, log, answers>>

CommitComment(c) ==
  LET q == request[c]
  IN  /\ q.op = "comment"
      /\ log' = [log EXCEPT ![q.issue] =
           Append(@, [type |-> "comment_added", actor |-> c])]
      /\ sla' = [sla EXCEPT ![q.issue] =
           IF @ # None /\ FirstResponse(RoleOf[c], q.internal)
             THEN RespondedSla(@, q.at) ELSE @]
      /\ request' = [request EXCEPT ![c] = Idle]
      /\ UNCHANGED <<now, policy, next, keys, issues, answers>>

\* The process dies, or the database stays locked, before the commit.
Drop(c) ==
  /\ request[c] # Idle
  /\ request' = [request EXCEPT ![c] = Idle]
  /\ UNCHANGED <<now, policy, next, keys, issues, sla, log, answers>>

-----------------------------------------------------------------------------
Submit(c) == SubmitCreate(c) \/ SubmitTransition(c) \/ SubmitAssign(c) \/ SubmitComment(c)

Commit(c) ==
  CommitCreate(c) \/ ReplayCreate(c) \/ CommitTransition(c) \/ CommitAssign(c)
    \/ Conflict(c) \/ CommitComment(c)

Next == Tick \/ \E c \in Callers : ConfigureSla(c) \/ Submit(c) \/ Commit(c) \/ Drop(c)

Spec == Init /\ [][Next]_vars

-----------------------------------------------------------------------------
(* Properties *)

\* Every row, request and event has a value its columns can hold, and an issue
\* has an SLA row only if it exists.
TypeOK ==
  /\ now \in 0..Horizon
  /\ policy \in [Projects -> Policies \cup {None}]
  /\ next \in [Projects -> Nat \ {0}]
  /\ keys \in [Projects -> [Keys -> KeyRows \cup {None}]]
  /\ issues \in [Issues -> IssueRows]
  /\ sla \in [Issues -> SlaRows(Horizon) \cup {None}]
  /\ log \in [Issues -> Seq(Events)]
  /\ request \in [Callers -> Requests]
  /\ answers \subseteq Answers
  /\ \A i \in Issues : (Exists(i) <=> issues[i].version > 0) /\ (sla[i] # None => Exists(i))

\* Where the events of a type stand in the log of an issue, the last of some
\* places, and the status that the first n events of the log lead to.
EventsOf(i, type) == {n \in DOMAIN log[i] : log[i][n].type = type}
Latest(places) == CHOOSE n \in places : \A m \in places : m <= n
StatusAfter(i, n) ==
  LET moves == {m \in EventsOf(i, "issue_transitioned") : m <= n}
  IN  IF moves = {} THEN "open" ELSE log[i][Latest(moves)].to

\* The audit log of an issue is a path through its workflow that starts at
\* open and ends at the status the row has, each edge taken by an actor whose
\* role the rule allows: the rule, resolved before the transaction, still
\* applies when it commits (README.md:38, invalid-transition rejection).  The
\* row shows a resolution text only as long as the edge that requires one is
\* the last of the path.
HistoryIsPath ==
  \A i \in Issues :
    LET moves == EventsOf(i, "issue_transitioned")
        Edge(n, r) ==
          /\ r.name = log[i][n].name
          /\ r.source = log[i][n].from
          /\ r.target = log[i][n].to
          /\ RoleOf[log[i][n].actor] \in r.allowed_roles
    IN  /\ \A n \in moves :
             log[i][n].from = StatusAfter(i, n - 1) /\ \E r \in Rules : Edge(n, r)
        /\ Exists(i) => issues[i].status = StatusAfter(i, Len(log[i]))
        /\ issues[i].resolved <=>
             moves # {} /\ \E r \in Rules : Edge(Latest(moves), r) /\ r.requires_resolution

\* No update is lost or logged twice: the events that carry a version number
\* the changes of the issue one by one up to the version its row has, and the
\* last assignment that was logged is the assignee.
LogTellsVersion ==
  \A i \in Issues :
    LET changes == {n \in DOMAIN log[i] : Versioned(log[i][n])}
        assigned == EventsOf(i, "issue_assigned")
    IN  /\ \A n \in changes :
             log[i][n].version = Cardinality({m \in changes : m <= n}) + 1
        /\ Exists(i) => issues[i].version = Cardinality(changes) + 1
        /\ issues[i].assignee = IF assigned = {} THEN None
                                ELSE log[i][Latest(assigned)].assignee

\* However often a create is retried, from however many handlers, one key of a
\* project stands for one issue and one request.
IdempotentCreate ==
  \A a, b \in answers :
    a.project = b.project /\ a.key = b.key => a.issue = b.issue /\ a.payload = b.payload

\* The human keys of a project are 1, 2, 3, ...: replays, conflicts and dead
\* requests use up none.
SequencesGapless ==
  \A p \in Projects :
    LET ofP == {i \in Issues : issues[i].project = p}
    IN  /\ {issues[i].sequence : i \in ofP} = 1..(next[p] - 1)
        /\ Cardinality(ofP) = next[p] - 1

\* A change never takes an issue back in the order that search and the queue
\* list by, although its timestamp is read before the write lock is held.
UpdatedAtGrows == [][\A i \in Issues : issues'[i].updated_at >= issues[i].updated_at]_vars

\* Both targets of an issue stay those of one and the same of the policies that
\* may be configured, moved by the time its clock stood and by nothing else.
TargetsKept ==
  \A i \in Issues :
    sla[i] # None =>
      \E p \in Policies :
        LET start == issues[i].created_at + sla[i].total_paused
        IN  /\ sla[i].first_due = start + p.first_response
            /\ sla[i].resolution_due = start + p.resolution

\* The last move of the issue took it to the customer, from another status.
WentToWait(i) ==
  LET moves == EventsOf(i, "issue_transitioned")
      last == log[i][Latest(moves)]
  IN  moves # {} /\ last.to = Waiting /\ last.from # Waiting

\* The log shows a resolution, be it followed by a reopening.
WasResolved(i) == \E n \in EventsOf(i, "issue_transitioned") : log[i][n].to \in Done

\* The clock of an issue stands only while it waits for the customer, and it
\* stands from the moment the issue goes there.  A workflow may also have a
\* rule from waiting to waiting; the code resumes the clock on such a move and
\* stops it on the next, so only the first half speaks of those.
PauseMatchesStatus ==
  \A i \in Issues :
    sla[i] # None =>
      /\ sla[i].paused_at # None => issues[i].status = Waiting
      /\ WentToWait(i) => sla[i].paused_at # None

\* The resolution verdict stands while time does not count: while the clock of
\* an issue stands, so that the budget left when the wait begins is left when
\* it ends (tests/test_issue_hierarchy_sla.py:82), and while an issue stays
\* resolved or closed, whatever is written to it.
StoppedVerdictStands ==
  [][\A i \in Issues :
       /\ sla[i] # None
       /\ \/ sla[i].paused_at # None /\ sla'[i].paused_at # None
          \/ issues[i].status \in Done /\ issues'[i].status \in Done
       => ResolutionBreached(sla[i], now)' = ResolutionBreached(sla[i], now)]_vars

\* An answer that was in time is never reported late afterwards, however the
\* issue is paused, resolved, reopened and answered again.
AnsweredInTimeStands ==
  [][\A i \in Issues :
       /\ sla[i] # None
       /\ sla[i].responded_at # None
       /\ ~FirstBreached(sla[i], now)
       => ~FirstBreached(sla[i], now)']_vars

-----------------------------------------------------------------------------
(* Refinement *)

Book == INSTANCE IssueBook WITH
  status  <- [i \in Issues |-> issues[i].status],
  version <- [i \in Issues |-> issues[i].version]

\* With callers that send only versions they have seen, checking the rule
\* outside the transaction is as good as checking it inside.
ImplementsBook == Book!Spec
=============================================================================

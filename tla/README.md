# Verification of the service desk

TLA+ models, TLC runs and TLAPS proofs for this repository: the durable service
desk of `src/service_desk/` (issues, SLAs, agent jobs, outbox and event
projection on one SQLite file) and the human review lab of `src/human_agent/`.
`PROJECT.json` maps every definition to the lines it models and lists the runs,
the mutated definitions that show each property can fail, the findings, the
hazards and the theorems.

    tlc -config agent_jobs_safety.cfg MCAgentJobs     # one run
    tlapm AgentJobsProofs.tla                         # the proofs of one module; the
                                                      # others are listed in section 2

## 1. Inventory

### 1.1 Components

| component | state | operations | module |
|---|---|---|---|
| Issues (`service.py`, `repository.py`, `models.py`) | `issues`, `idempotency_keys`, `projects.next_issue_sequence`, `audit_events`, `outbox_events` | create (idempotent), transition, assign, comment | `IssueDesk`, `Workflow` |
| SLA clocks | `sla_policies`, `sla_instances` | configure_sla; opened, paused, resumed, resolved and answered by the issue operations; get_sla_state | `IssueSla`, `IssueDesk` |
| Search (`search.py`, `repository.py`) | none; a client's cursor | search_issues page by page | `IssueSearch`, `SlaViews` |
| Telemetry (`observability.py`) | none | collect_snapshot | partly: the SLA gauges, in `SlaViews` |
| Hierarchy | `issue_links` | link_issues, issue_descendants | `IssueHierarchy` |
| Agent jobs and tool calls (`agent.py`, `repository.py`) | `agent_jobs`, `tool_calls`, the locals of a worker and of an approving request | request, claim, finish, request/approve/complete a tool call, run_once | `AgentJobs` |
| Outbox and dispatcher (`streaming.py`, `stream_worker.py`) | `outbox_events`, the batch of `drain` | lease, publish, acknowledge, reject | `EventStream` |
| Projection and consumer | `event_inbox`, `issue_event_counts`, Kafka group offsets | poll, apply, commit | `EventStream` |
| Review lab (`human_agent/`) | case records, review queue, ledger | submit, route, accept_review, decide | `ReviewDesk`, `PolicyRouter` |
| Projects, workflow registry | `projects`, `workflows` | create_project, register_workflow | `Catalog` |
| Tools, REST API, metrics, evidence | none of their own | queries and translations | not modelled, see 7 |

### 1.2 How they interact

Everything durable is in one SQLite file that several processes open: API
processes (a thread per request), agent workers, publishers, consumers. Two
things synchronise them. A method that issues `BEGIN IMMEDIATE` is one
transaction and so one atomic step for every process. A method that does not -
connections have `isolation_level=None` - commits each statement on its own,
and only the repository's `RLock` keeps *threads of the same process* out in
between: `approve_tool_call`, `complete_tool_call`, `register_workflow`.

The service calls the repository, the agent worker calls service and
repository, the dispatcher reads rows the issue and job transactions inserted
and sends them to Kafka, the consumer applies them to tables in the same file.
The review lab shares nothing with the desk: it is in memory behind one lock.

### 1.3 What is hard here, and what makes each component correct

- *Agent jobs.* Leases expire under a live worker, workers crash, an approval
  is two commits, and `finish_agent_job` compares the owner's id but neither
  lease nor attempt. Correct means: one worker per attempt, an outcome comes
  from the latest claim, writes run only after somebody else's approval, a
  parked job stays parked until then, and every job gets somewhere.
- *Event path.* At-least-once at every hop: lease taken over mid-batch, lost
  acknowledgement, crash between broker and outbox, rebalance between the
  projection's transaction and the offset commit. Correct means: nothing
  published is lost, nothing is counted twice, offsets skip nothing, and a
  committed event arrives.
- *Issues.* The transition rule is resolved on a status read before the
  transaction, the clock is read before the write lock, creates are retried.
  Correct means: the log is a path of the workflow, versions number the changes,
  one idempotency key is one issue, human keys have no gaps.
- *SLA.* Pause, resume, resolve, reopen, answer and policy changes combine over
  an issue's life. Correct means: targets move by waiting time only, the clock
  stands only while waiting and from the moment the issue goes to wait, a
  verdict stands while time does not count, and the three pieces of code that
  read an SLA row agree on it.
- *Search.* A page walk by `(updated_at, issue_sequence)` runs beside the
  updates that change that order, over rows that share timestamps. Correct
  means: a walk lists none twice, and at its end it has listed every issue that
  matched at its beginning and that nobody has changed since.
- *Projects and workflow versions.* `register_workflow` reads and inserts in two
  commits. Correct means: the rules of a project never change under it.
- *Hierarchy.* Many legal links add up; both recursive queries are `UNION ALL`
  and would not end on a cycle. Correct means: a forest inside one project.
- *Review lab.* Queue and workflow are changed one after the other and there is
  no rollback when a command raises half-way; leases expire; the heap is popped
  and pushed back at every lease and keeps entries of completed cases. Correct
  means: workflow, items and heap agree, urgent first, only the assigned holder decides, risk is never
  automated, and every waiting case is taken.

## 2. Modules

| module | what it is |
|---|---|
| `JobLifecycle` | abstract: a job, its tries, and the gate it waits at until every call that parked it is approved |
| `AgentJobs` | detailed: rows, `run_once` statement by statement, the approval's statements, crashes, time; implements `JobLifecycle` |
| `AgentJobsProofs` | theorems about `AgentJobs` |
| `EventDelivery` | abstract: each committed issue event moves its issue's counter at most once, and nothing else moves a counter |
| `EventStream` | detailed: outbox, dispatchers, Kafka partitions, consumer group, projection; implements `EventDelivery` |
| `EventStreamProofs` | theorems about `EventStream` |
| `Workflow` | transition rules and the default workflow |
| `IssueSla` | the SLA row: how it is opened, moved and read |
| `SlaViews` | the three readers of SLA rows: search field, gauges, `get_sla_state` |
| `IssueBook` | abstract: an issue opens once, moves along its workflow's edges, each change takes the next version |
| `IssueDesk` | detailed: requests as submit and commit over issues, keys, SLA rows and log (composes `Workflow` and `IssueSla`); implements `IssueBook` |
| `IssueDeskProofs`, `IssueSlaProofs` | theorems about `IssueDesk` |
| `IssueSearch` | clients that walk through search pages beside the handlers (composes `IssueDesk` and `SlaViews`) |
| `IssueSearchProofs` | theorems about `IssueSearch` |
| `Catalog` | workflow versions registered in two commits, projects that name one |
| `IssueHierarchy` | issues of those projects, their links, the cycle query and the listing of descendants (composes `Catalog`) |
| `IssueHierarchyProofs` | theorems about `IssueHierarchy` and `Catalog` |
| `LeastElements` | two lemmas that stand in for induction, see 4.7 |
| `PolicyRouter` | the pure routing and priority functions |
| `ReviewDesk` | records, queue, ledger and reviewers (composes `PolicyRouter`) |
| `ReviewDeskProofs` | theorems about `PolicyRouter` and `ReviewDesk` |
| `MC*` | values for constants that a `.cfg` cannot write |

An operator introduced as "Mutation of X" is a plausible bug in the code that X
models; no specification uses it. It documents, executably, what the properties
notice when it takes X's place.

### 2.1 How state and actions correspond to the code

**AgentJobs.** `jobs` and `calls` are the tables. `worker[w]` is what
`run_once` holds: which job, which attempt, which call, and the statement it is
about to execute. `desk[d]` is an approving or completing request between its
SELECT and its UPDATEs; a desk is one repository instance, whose `RLock` admits
one request at a time. `Claim`, `RequestRead`, `RequestWrite` and the `Finish*`
actions are single transactions or statements. `Answer` and `Raise` are the
model's return and exception. A lease is the ticks left of it; 0 stands for
NULL and for expired, which is all the code tests. `requested_by` is the worker
that held the job. A job that creates a write call is driven through the service
(`request_tool_call`) on the worker's behalf, so `RequestWrite` is an
alternative of every worker that has an answer.

**EventStream.** `outbox` is a sequence because rows are leased in commit order
(`created_at` is read inside the transaction). `dispatcher[d]` is the batch that
`drain` still has to do. `log[p]` is a Kafka partition, `group[p]` its owner,
position and committed offset; these and the rebalances are external, modelled
from the calls in `stream_worker.py` and the consumer's configuration.

**IssueDesk.** `request[c]` is what a request handler holds between the part of
the method before the write lock (role check, rule resolution, clock) and the
transaction. `Drop` is a process that dies, or a database that stays locked, in
between. `log[i]` stands for the audit and outbox rows, which every operation
inserts side by side; `answers` is history. Ids of new issues are fresh. Texts,
labels, priorities and actor ids are left out; `resolved` says whether the
resolution column holds a text.

**IssueSla, SlaViews.** Time is in whole ticks on which the code's truncation to
seconds is exact, and on which the text order of ISO timestamps, which the SQL
compares, is the order of time. `None` is SQL NULL. `SlaViews` spells out the
tests of `_sla_predicate` and of the `SUM(CASE ...)` columns of
`collect_snapshot` one by one, because the code does.

**IssueSearch.** A page is one SELECT, so one action on the rows of that moment;
`now` is read before the SELECT, so a page carries a clock between the end of
the page before and its own. A query is a set of clauses joined by AND, a clause
the set of values that its operator comes to; `assignee != x` is "among the
others", and an unassigned issue is among none of them, as SQL's NULL is. The
walk of a client holds its cursor and, as history, how often it was shown each
issue (`listed`) and which issues that matched at its first page nobody has
changed since (`still`).

**Catalog.** `registering[a]` is what a process inserts after its SELECT;
`RegisterDies` is its death in between. An encoded definition is a value.

**ReviewDesk.** `queue` is `_items` and `heap` is `_heap`: a lease pops the heap
up to the first free item (`Selected`, `Popped`) and pushes back what is still
queued (`Deferred`); what `complete` deletes from `_items` stays in the heap
until a lease pops it. `heapq` itself is taken for what it does, a pop of the
least key, and deadlines for the order of arrival, since every item is given the
same four hours. `lease` counts down as above. `AcceptRaises` is the case in
which `accept_review` has taken a lease and then raises, `AcceptNothing` the one
in which nothing is free. Audit hashes are left out: the ledger is its length.

**IssueHierarchy.** One action per accepted link; a refused link changes
nothing. The recursive SQL queries are a recursive function over depth. Link
types that no test tells apart are one set, `OtherTypes`. `events` counts the
rows written with a link, by the stream they are written to.

## 3. Runs

"viol." runs refute a claim of a document, comment or test; see 6.

| run | checks | instance |
|---|---|---|
| `agent_jobs_safety` | TypeOK, AttemptsUnique, WriteNeedsApproval, PendingCallParksJob, FinishIsFenced, SucceededCallIsFinal | 2 jobs (budgets 2 and 1), 3 calls, 2 workers, one of which may also approve, a desk that may crash |
| `agent_jobs_liveness` | JobSettles, ApprovalReachesJob, ImplementsLifecycle | 2 calls, a desk that does not crash, no symmetry |
| `agent_jobs_stranded` | viol. CrashStrandsNoJob | 2 calls |
| `agent_jobs_lost_approval` | viol. ApprovalReachesJob | a desk that may crash |
| `event_safety` | TypeOK, PublishedIsLogged, CommittedIsProjected, CountedOnce, OffsetsGrow, ImplementsDelivery | 2 events of both kinds and 2 issues on one partition, 2 dispatchers, 2 consumers, 2 faults |
| `event_liveness` | EventuallyProjected | 2 issues on 2 partitions, 2 consumers, 2 faults |
| `event_order` | viol. IssueOrderKept | 2 events, 1 fault |
| `event_poison` | viol. EventuallyProjected | 2 events of both kinds, no fault |
| `issue_workflow` | SearchTypeOK, IdempotentCreate, SequencesGapless, NoneListedTwice, UntouchedIsListed | default workflow, an agent and a requester, 2 issues, one of which lives on, with one change of its row, 2 keys, 2 payloads, 1 tick, a searcher with pages of one |
| `issue_sla` | TargetsKept, PauseMatchesStatus, SlaReadersAgree, HistoryIsPath, LogTellsVersion, ImplementsBook, StoppedVerdictStands, AnsweredInTimeStands, UpdatedAtGrows | 1 issue with up to 3 changes of its row among up to 4 events after its creation, 1 assignee, 2 policies, 2 ticks, a shorter workflow with a rule from waiting to waiting, an administrator and a requester |
| `hierarchy` | TypeOK, Acyclic, FamiliesAreTrees, RulesStand | 4 issues, 2 projects, up to 4 links, 2 processes that register 2 definitions of one version |
| `review_desk` | TypeOK, QueueMatchesCases, RiskyIsNeverAutomated, AssignedHolderDecides, UrgentFirst, QueuedIsTaken | 2 cases of 13 shapes, 2 reviewers, one of whom may leave, leases of 2 ticks |

### 3.1 Why the bounds are enough

- *Agent jobs.* Budgets 2 and 1 give a recovered lease and an exhausted one;
  two jobs, that `ORDER BY created_at` and a blocked first job matter; three
  calls, a read and two writes that can be approved across each other. A lease
  of one tick already expires at every point of `run_once`.
- *Event path.* Two events fill a batch, so that a dispatcher whose lease ran
  out is in the middle of one when the other takes the rest; two faults allow a
  failure during the recovery from another. `MaxLog` is the number of records
  those faults can create, so it never stops a publisher in the liveness run.
- *Creates and search.* In `issue_workflow` the second issue, key and payload let
  creates race, replay and disagree. Two issues and pages of one make every walk
  of two pages; the tick and the one change of the issue that lives on let it be
  moved before, between or after the pages, and let both share a timestamp or
  not. The searcher asks for open issues, a query that a transition makes an
  issue leave. No version is ever stale in this run; that is `issue_sla`'s part.
- *Changes and SLA.* `issue_sla` uses a workflow with the same kinds of edges and
  fewer states before them, as `register_workflow` allows, and a move from
  waiting to waiting, which it does not forbid. A request may be submitted while
  the log has fewer than four events, so a row changes up to three times: pause,
  reminder and resume, or resolve, reopen and pause, follow each other. Two
  handlers are in flight at once, and each may send any version the issue has
  had: one loses to the other, or to one that it had not heard of two changes
  later, and the status changes between a rule's resolution and its commit.
  Targets are one and two ticks away: in two ticks the nearer one is met, missed,
  and moved by a pause, and the second policy can replace the first at any
  point.
- *Hierarchy.* Four issues are the smallest case in which two joined subtrees
  could close a cycle of length four or give a second path, four links what
  either needs; the second project allows a foreign issue in it. Two processes
  and two definitions are what the race of two registrations takes.
- *Review.* Two cases and two reviewers are needed for an item to change hands,
  or to be popped and pushed back, while another waits, and a lease of two ticks for two leases to differ. The
  shapes are the case that is automated and every case that differs from it in
  one answer, so that each return of the router is taken and each answer
  decides one; `RiskGoesToPeople` proves the property for all combinations.

Symmetry is used only in safety runs, over calls, dispatchers, consumers, keys,
payloads, the issues that only exist, registering processes or definitions,
which no formula tells apart. Deadlock is checked where the system cannot stop
within the bounds. It is off where the model really may stop: all jobs settled,
all events projected, all cases decided, all links made.

A run whose specification states fairness also checks safety: fairness excludes
no finite behaviour.

### 3.2 Fairness

`AgentJobs!FairSpec`: weak fairness of time, of each worker's polling and next
statement, and of a request that was accepted; none of approvals (humans),
executions of approved calls (no code does it) or crashes. `EventStream!FairSpec`:
weak fairness of time, the publisher's and consumer's endless loops
(`stream_worker.py`) and Kafka's assignment; faults are finitely many and not
fair. `ReviewDesk!FairSpec`: weak fairness of time and of a reviewer deciding
what he holds; strong fairness of `AcceptReview`, because a reviewer who keeps
calling is refused whenever the only free case is one under review, and serves
a waiting case at some of the infinitely many moments it is free.

## 4. What is proved

### 4.1 AgentJobsProofs

For any number of jobs, workers, calls, approvers and desks,
any budgets in 1..10 and any lease length; nothing is assumed but the named
`ASSUME`s of `AgentJobs` and, where stated, one of:

- `SingleDesk`: approvals and completions are made by one repository instance;
- `Sturdy`: `SingleDesk`, and that desk does not die between two statements.

| theorem | property | assumption |
|---|---|---|
| `TypeCorrect` | TypeOK | |
| `AttemptsAreUnique` | AttemptsUnique | |
| `FinishFenced` | FinishIsFenced | |
| `WritesAreApproved` | WriteNeedsApproval | |
| `PendingCallsPark` | PendingCallParksJob | `SingleDesk` |
| `SucceededCallsFinal` | SucceededCallIsFinal | `SingleDesk` |
| `LifecycleImplemented` | ImplementsLifecycle | `Sturdy` |
| `SpentJobsStay` | a job nobody can take again stays as it is | |
| `LostApprovalsStay` | a job whose approval was lost waits for ever | |

The invariant is built in layers, each inductive relative to those before.
*TypeInv*: rows and locals refer to things that exist, and no worker's attempt
is ahead of its job's. *Fence*: a worker that is still the owner of its running
job works on the job's latest attempt - what makes comparing the owner alone
sufficient, since a worker that claims again forgets its earlier attempt.
*Gate*: a write that may be executed has an approver who is not its requester,
also while the approval is between SELECT and UPDATE. *Parked*: a call that
waits, or whose approval has not reached the job yet, is the only one of its
job, and the job waits; this needs the single desk, and it is what
`PendingCallsPark`, `SucceededCallsFinal` and the refinement rest on. The
refinement maps the gate of a job to the calls it is parked on, so that the
second UPDATE, not the first, opens it.

The last two theorems say of every instance what findings 1 and 2 of section 6
show of a small one. `SpentStep`: a queued or running job that has no attempt
left, and that no worker which still owns it is at work on, is never claimed,
finished or failed again. `LostStep`: a job that waits although none of its
calls does, and no desk is about to requeue it, goes on waiting. No run checks
them; TLC was asked on the instance of `agent_jobs_safety` before they were
proved, and reaches such jobs there.

### 4.2 IssueDeskProofs

For any issues, projects, keys, handlers, roles, policies and workflow, from the
`ASSUME`s of `IssueDesk` and, where stated, `Ahead = 0`: callers send only
versions they have seen. That is what `expected_version` is for; what happens
otherwise is in 6.1.

| theorem | property | assumption |
|---|---|---|
| `TypeCorrect` | TypeOK | |
| `CreateIsIdempotent` | IdempotentCreate | |
| `UpdatedGrows` | UpdatedAtGrows | `Ahead = 0` |
| `BookImplemented` | ImplementsBook | `Ahead = 0` |
| `KeysAreGapless` | SequencesGapless | |
| `VersionsCountChanges` | LogTellsVersion | |
| `HistoriesArePaths` | HistoryIsPath | `Ahead = 0` |

*TypeInv* adds to the types that a request names an issue that exists. *Fresh*
is what the version test buys: no request expects a version beyond the row's,
and one that expects the row's version carries a rule whose source is the row's
status and a clock reading no older than the row. It is inductive because every
change takes the next version, which makes all requests compared with the row
stale. Everything that is read before the transaction - rule and clock - is as
good as read inside by it: `RowStep` turns it into "a row opens, moves by a rule
of its own status, or is reassigned, and is not dated back", from which the
refinement and `UpdatedGrows` follow. *KeysHold* says that every
answer of create_issue stands in the key table, whose rows are never rewritten.
*Numbered* says that the issues of a project bear distinct numbers below the
counter and that each number below it is borne; the cardinality of
SequencesGapless follows by a bijection.

The last two theorems are about the whole log of an issue. Their properties are
stated over positions of the log (`EventsOf`, `Latest`, `StatusAfter`), not over
a filtered copy, so that a step is a step of the argument: `LogStep` says that a
log stays, or grows by the one event that tells what the step did to the row,
and `EventsGrow` and `LatestIs` what that makes of the positions. *VersionsTold*
compares a version with the number of changes up to it; a change that the
transaction accepted takes the next number whatever the caller expected, so it
needs nothing of the callers. *OnPath* says that each move leaves the status in
which the one before ended, by a rule of that status (*Permitted*) which the
caller's role may use; that the source of the rule is still the row's status is
*Fresh*, hence `Ahead = 0`.

### 4.3 IssueSlaProofs

From the `ASSUME`s of `IssueDesk` alone: any workflow, and whatever versions
callers send.

| theorem | property |
|---|---|
| `ClockFollowsStatus` | PauseMatchesStatus |
| `TargetsStay` | TargetsKept |
| `AnswersStand` | AnsweredInTimeStands |
| `VerdictsStand` | StoppedVerdictStands |

Nothing is needed of the callers because the transaction moves the SLA row from
the status it finds, not from the one the rule was resolved on. *SlaRight* says
of each row that it is paused only in the waiting status and that its targets
are a policy's, moved by `total_paused`. The converse, that a waiting issue is
paused, is not true of every workflow: a rule from waiting to waiting, which
`WorkflowDefinition` does not forbid, resumes the clock and leaves the issue
waiting (6.1). *WaitsTold* says what is true: an issue whose last move in the
log took it to the customer from another status is paused. *Stamped* adds that a
resolved or closed issue carries its stamp. `SlaChange` lists what one step may
do to a row; the verdicts follow from it field by field. A paused issue stays
paused only if nothing moves it, a finished one finds nothing to resume, and the
stamp of an answer is written once, while the target it is compared with moves
only away from it. *StampsTold* ties the row to the log: it carries the stamp of
a resolution exactly if the log has one.

### 4.4 IssueSearchProofs

From the assumptions of `IssueDesk` and `IssueSearch`: any finite set of issues,
any clauses, any limit in 1..100, any number of walks and handlers.

| theorem | property | assumption |
|---|---|---|
| `SearchTypeCorrect` | SearchTypeOK | |
| `ListsNoneTwice` | NoneListedTwice | `Ahead = 0` |
| `ListsAllUntouched` | UntouchedIsListed | `Ahead = 0` |
| `ReadersAgree` | SlaReadersAgree | |

Since human keys are distinct (*Numbered*), the order of a page is total on the
issues of a project; so a page has a last row, and everything else that the
SELECT would have returned lies behind it (`PageCuts`). *ListedBehindUs* says
that an issue the walk has listed is not behind its cursor; an update keeps it
so because it never dates an issue back (*Fresh*, hence `Ahead = 0`).
*StillToCome* says that an issue nobody has changed was listed or is behind the
cursor and still matches; of an SLA clause this is true when time can only make
it match (`Lasting`: breached, none).

`ReadersAgree` has two halves. That a running row is in exactly one of breached,
at risk and on track, and that the readers' comparisons fit together, is
arithmetic (`OneQuery`). Which rows run is not about the row: `RunsOnClock` takes
the pause from *SlaRight* and *WaitsTold*, and the stamp of a resolution, of
which a reopened issue has no trace in its status, from *StampsTold*.

### 4.5 EventStreamProofs

For any number of events, publishers, consumers, partitions and faults, from the
`ASSUME`s of `EventStream`.

| theorem | property |
|---|---|
| `StreamTypeCorrect` | TypeOK |
| `NothingLostInOutbox` | PublishedIsLogged |
| `NothingLostInLog` | CommittedIsProjected |
| `OffsetsOnlyGrow` | OffsetsGrow |
| `CountersAreExact` | CountedOnce |
| `DeliveryImplemented` | ImplementsDelivery |
| `OneDispatcherKeepsOrder` | IssueOrderKept, with one dispatcher and no failure of it |
| `RefusedEventsStopPartitions` | no offset passes an event that apply refuses |

*TypeInv* carries *InStep*: where a member works on a message of a partition it
still holds, the committed offset is that message's and Kafka's position is the
next; where it holds a partition and works on nothing of it, the two are equal.
It is inductive because a partition is handed only to a member in poll - the
mutation `AssignBusy` breaks it. With it a commit moves an offset by one, over
the message that was projected. *AckingIsLogged* is the publisher's half: what
is about to be acknowledged is in the log, and what is in the log stays there.
*AppliedIsProjected* is the consumer's: what is about to be committed is in the
inbox. The refinement `DeliveryImplemented` keeps the counters: the inbox of the
abstract level grows and its counter moves in one step, so a member that counts
an event again, or without the inbox row, takes a step the abstract level does
not have.

`OneDispatcherKeepsOrder` is the other side of finding 3: it says when the order
that README.md line 59 promises is kept. One publisher process, none of whose publishes
fails and which does not die (`Steady`), keeps it, with any number of commits
beside it, leases that run out under it, and consumers that die or lose
partitions. The run `event_order` shows that one failed publish is enough to
lose the order; a second dispatcher is, too. *InTurn* says that the rows are
published, held and left in this order, that only held ones are leased, and that
the topic has the published ones and the one that awaits its acknowledgement;
that a batch leaves no older pending row behind is `BatchIsOldest`.

`RefusedEventsStopPartitions` says of every instance what finding 4 shows of a
small one. What is projected has a record that only issue events precede
(*ReadInTurn*). It is inductive together with *NoneAhead*: no member, not even
one that has lost its partition, works beyond the committed offset.

### 4.6 IssueHierarchyProofs

For any versions, definitions, processes, projects, finite set of issues and
number of links.

| theorem | property |
|---|---|
| `TypeCorrect` | TypeOK |
| `RulesStay` | RulesStand |
| `HierarchyIsAcyclic` | Acyclic |
| `FamiliesStayTrees` | FamiliesAreTrees |

The graph is a forest: an issue has at most one parent and none is below itself.
A new link keeps that because the target had no parent and the source is not
below it. The bounded recursion over depths finds every descendant: a path
without a repetition is no longer than there are issues.

### 4.7 LeastElements

Induction theorems with a predicate as a parameter cannot be used with the
installed provers. Where an argument would assume a property of all smaller
cases, the proofs take the least case that lacks it: `LeastNat` for numbers,
`SmallestSet` for subsets of a finite set. Both are proved from the library's
well-foundedness theorems.

### 4.8 ReviewDeskProofs

For any cases of any shapes, reviewers and lease length, from the `ASSUME`s of
`ReviewDesk`.

| theorem | property |
|---|---|
| `TypeCorrect` | TypeOK |
| `QueueIsWorkflow` | QueueMatchesCases |
| `RiskGoesToPeople` | RiskyIsNeverAutomated |
| `HolderDecides` | AssignedHolderDecides |
| `UrgentIsFirst` | UrgentFirst |
| `AbandonedReviewsStay` | a case under review by someone who left stays as it is |

*Submitted* says that a case has a shape once it has a version, so that the
lemmas about the router apply to it; *AllAgree* that each record agrees with
its item, command by command (`AgreeSteps`), the two that raise after the lease
included. *HeapRight* says that a case that is queued has its entry in the heap
and no other; it survives a lease because what the lease has popped and not
pushed back is no longer queued (`LeaseKeeps`). `UrgentIsFirst` rests on it: a free case that goes before the
selected one would have an entry in the heap, and the lease would have stopped
there. `AbandonedReviewsStay` is checked by no run; TLC was asked on the
instance of `review_desk`, and reaches such cases there.

## 5. What is only model-checked

Liveness under fairness is out of the prover's reach, and so are ENABLED and
what a recursive definition over data computes for every input. JobSettles,
ApprovalReachesJob, EventuallyProjected and QueuedIsTaken therefore rest on the
runs, and so does the refuted CrashStrandsNoJob. Every other property of the
runs is a theorem of section 4, IssueOrderKept under the condition given there.

## 6. Findings

1. **A crash on the last attempt strands a job** (`agent_jobs_stranded`).
   README line 100 says a crashed worker cannot; `claim_agent_job` requires
   `attempt < max_attempts` also of running jobs, and nothing fails the rest:
   `SpentJobsStay`.
2. **An approval can be lost** (`agent_jobs_lost_approval`). The two UPDATEs of
   `approve_tool_call` commit separately, and the second is not repeated:
   `LostApprovalsStay`.
3. **Per-issue order is not kept** (`event_order`). `drain` continues its batch
   after a failed publish. `OneDispatcherKeepsOrder` says when it is kept.
4. **The service's own events stop the projection** (`event_poison`).
   `agent.job.requested` is sent to the topic whose consumer refuses it:
   `RefusedEventsStopPartitions`.

### 6.1 Other behaviour worth knowing

No document says plainly enough that these cannot happen, so they are not
findings; each can be seen by changing a constant or adding a property.

- *A pipelining caller can take an illegal transition.* The rule is resolved on
  one version of the row and applied to another, and only the caller's
  `expected_version` is compared. A caller that sends the version its previous
  request is going to produce gets past it: with `Ahead = 1` in
  `issue_sla.cfg` HistoryIsPath fails.
- *An approval on the last attempt leads nowhere.* It requeues the job, and a
  queued job without an attempt left is never claimed (`SpentJobsStay`).
- *A breached resolution can become unbreached.* `resolved_at` survives a
  reopening, and a later wait still moves the target. StoppedVerdictStands
  therefore speaks of the time a clock stands, or an issue stays resolved or
  closed.
- *A move from waiting to waiting starts the clock.* `_update_sla_for_transition`
  pauses a row on its way to waiting unless it is paused already; if it is, it
  resumes the row because it leaves waiting, and never looks at the target
  again. So the clock runs while the customer has the issue, and the next such
  move stops it. The default workflow has no such rule, and nothing forbids one;
  PauseMatchesStatus says what holds all the same.
- *A reopened issue is on no clock.* It keeps its first `resolved_at`, so it is
  in none of the `sla` queries and no resolution gauge counts it, however late
  it gets; SlaReadersAgree says so of every issue that was ever resolved.
- *The first-response gauge counts finished issues* (`observability.py:48`). It
  tests neither the status nor `resolved_at`, so an issue resolved without an
  answer stays in `objective="first_response"` for ever. README.md line 79 calls
  these breaches active and the metric's help text (line 96) open. No run
  refutes it: SlaReadersAgree holds the gauge to get_sla_state on issues that are
  worked on, and says nothing of it on finished ones.
- *A walk can miss an issue.* One that is updated before the walk reaches it
  moves to the front, behind the walker's back; UntouchedIsListed promises the
  others only.
- *`assignee != x` leaves out unassigned issues*, as SQL's NULL does.
- *The losing registration is told it succeeded.* Of two processes that register
  different definitions of one version at once, the second INSERT is ignored and
  its caller gets its own definition back (`Catalog!InsertWorkflow`).
- *A response in time can be reported late while the clock is paused*, until the
  customer replies: it is compared with a target that is not moved yet.
- *A case whose reviewer leaves can be decided by nobody.* The queue releases
  the expired lease, and the workflow refuses everyone who takes it
  (`AbandonedReviewsStay`).
- *Two approving processes.* PendingCallParksJob and SucceededCallIsFinal fail
  with two desks, since the row is read and written in separate commits and the
  second desk is not behind the first one's lock; hence `SingleDesk`.

## 7. What is not modelled

- *The search parser* is text processing. Priority, reporter, labels and text
  are fields no operation changes, which a walk sees as it sees the project.
- *Telemetry* beyond the SLA gauges: counts of rows by status, and text. That
  `collect_snapshot` reads in several SELECTs without a transaction is left out
  with them.
- *Metrics, evidence*: computed from a list that is handed in.
- *Read-only SQL tool and knowledge search*: input validation and scoring; what
  a tool does to a job is in `AgentJobs` (`CompleteRead`, `Raise`).
- *REST API*: a translation of calls and errors.
- *Wall clocks that go back.* `now` never decreases in the models.

## 8. Plan

Sections 2 to 4 are done. What is left, in order:

1. Composition of `IssueDesk` with `EventStream`: every event of an issue's log
   is projected, in one specification with both fairnesses.
2. A searcher over clauses on the SLA in a run of its own; `UntouchedIsListed`
   is proved for them, the run asks for the status only.

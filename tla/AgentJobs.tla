------------------------------ MODULE AgentJobs ------------------------------
(***************************************************************************)
(* The durable agent jobs of service_desk/repository.py with the processes *)
(* that drive them: the API process that creates jobs and approves tool    *)
(* calls, and the workers of service_desk/agent.py, each a process of its  *)
(* own on the same SQLite file.                                            *)
(*                                                                         *)
(* jobs and calls are the rows of agent_jobs and tool_calls; worker and    *)
(* desk are what a process holds between two statements that SQLite        *)
(* commits separately.  Connections are opened with isolation_level=None,  *)
(* so a method that does not issue BEGIN commits every statement on its    *)
(* own: claim_agent_job and create_tool_call are one action each,          *)
(* approve_tool_call and complete_tool_call are one action per statement.  *)
(*                                                                         *)
(* Time is the remaining length of each lease, counted down by Tick; a     *)
(* lease of 0 is one that is NULL or has expired, which is what the code's *)
(* "lease_until IS NULL OR lease_until <= now" tests.                      *)
(***************************************************************************)
EXTENDS Naturals, FiniteSets

CONSTANTS
  Jobs,          \* job ids, numbered in the order of created_at
  Retrieval,     \* the jobs whose capability is retrieve_knowledge
  MaxAttempts,   \* max_attempts of each job, fixed when it is requested
  Calls,         \* ids that tool calls can get
  Workers,       \* worker_id of each AgentWorker
  Approvers,     \* actor ids that call the approval endpoint
  Desks,         \* repository instances on which calls are approved
  Fragile,       \* the desks that may die between two statements
  LeaseTicks,    \* lease_seconds, in ticks
  None           \* SQL NULL

ASSUME JobsAssumption == Jobs \subseteq Nat /\ Retrieval \subseteq Jobs
ASSUME BudgetAssumption == MaxAttempts \in [Jobs -> 1..10]
ASSUME LeaseAssumption == LeaseTicks \in Nat \ {0}
ASSUME NoneAssumption == None \notin Jobs \cup Calls \cup Workers \cup Approvers

VARIABLES
  jobs,    \* agent_jobs, by job_id
  calls,   \* tool_calls, by call_id
  worker,  \* the locals of run_once, by worker
  desk     \* the locals of approve_tool_call and complete_tool_call, by desk

vars == <<jobs, calls, worker, desk>>

-----------------------------------------------------------------------------
(* Rows and locals *)

Terminal   == {"succeeded", "failed"}
JobStates  == {"absent", "queued", "running", "waiting_for_approval"} \cup Terminal
CallStates == {"absent", "ready", "waiting_for_approval", "approved", "succeeded"}
Executable == {"ready", "approved"}

JobRows == [state : JobStates, attempt : Nat,
            lease_owner : Workers \cup {None}, lease : 0..LeaseTicks]
CallRows == [state : CallStates, risk : {"read_only", "write"}, job : Jobs \cup {None},
             requested_by : Workers \cup {None}, approved_by : Approvers \cup {None}]
WorkerLocals == [pc : {"idle", "claimed", "executing", "finishing", "failing"},
                 job : Jobs \cup {None}, attempt : Nat, call : Calls \cup {None}]
DeskLocals == [pc : {"idle", "approving", "requeueing", "completing"},
               call : Calls \cup {None}, actor : Approvers \cup {None}]

NoJob == [state |-> "absent", attempt |-> 0, lease_owner |-> None, lease |-> 0]
NoCall == [state |-> "absent", risk |-> "read_only", job |-> None,
           requested_by |-> None, approved_by |-> None]
IdleWorker == [pc |-> "idle", job |-> None, attempt |-> 0, call |-> None]
IdleDesk == [pc |-> "idle", call |-> None, actor |-> None]

-----------------------------------------------------------------------------
(* What the statements test and write.  An operator that a comment calls a *)
(* mutation is a plausible bug in the one that follows it; no action uses   *)
(* it, it serves to show that the properties notice the bug.                *)

\* Mutation of Claimable: the retry budget is not tested.
ClaimableUnbounded(job, budget) ==
  job.state \in {"queued", "running"} /\ job.lease = 0

\* Mutation of Claimable: abandoned jobs are not recovered.
ClaimableQueued(job, budget) ==
  job.state = "queued" /\ job.attempt < budget /\ job.lease = 0

\* WHERE of the SELECT in claim_agent_job.
Claimable(job, budget) ==
  /\ job.state \in {"queued", "running"}
  /\ job.attempt < budget
  /\ job.lease = 0

\* Mutation of ClaimedRow: a recovered job keeps its attempt number.
ClaimedRowSameAttempt(job, w) ==
  [state |-> "running", lease_owner |-> w, lease |-> LeaseTicks,
   attempt |-> IF job.state = "queued" THEN job.attempt + 1 ELSE job.attempt]

ClaimedRow(job, w) ==
  [state |-> "running", lease_owner |-> w, lease |-> LeaseTicks,
   attempt |-> job.attempt + 1]

\* Mutation of Holds: any worker may act on a running job.
HoldsAny(job, w) == job.state = "running"

\* The guard shared by finish_agent_job and create_tool_call.  Neither looks
\* at lease_until: an owner whose lease ran out but was not taken still holds.
Holds(job, w) == job.state = "running" /\ job.lease_owner = w

\* Whatever ends a run gives the lease back.
Unleased(job, state) ==
  [state |-> state, attempt |-> job.attempt, lease_owner |-> None, lease |-> 0]

\* finish_agent_job writes a terminal state.
FinishedRow(job, state) == Unleased(job, state)

\* Mutation of ParkedRow: the lease is dropped, the state forgotten.
ParkedRowRunning(job) == Unleased(job, "running")

\* create_tool_call on a write tool: the job waits, its worker loses the lease.
ParkedRow(job) == Unleased(job, "waiting_for_approval")

\* Mutation of RequeuedRow: the WHERE names the wrong state.
RequeuedRowRunning(job) ==
  IF job.state = "running" THEN [job EXCEPT !.state = "queued"] ELSE job

\* approve_tool_call's second UPDATE: only a job that waits.
RequeuedRow(job) ==
  IF job.state = "waiting_for_approval" THEN [job EXCEPT !.state = "queued"] ELSE job

\* tool_risks: the read-only tools against the two classes of writes, which
\* the code treats alike.
Risk(tool) ==
  IF tool \in {"knowledge_search", "service_desk_sql"} THEN "read_only" ELSE "write"

\* request_tool_call decides the first state from the risk alone.
InitialState(risk) == IF risk = "read_only" THEN "ready" ELSE "waiting_for_approval"

RequestedRow(j, tool, w) ==
  [state |-> InitialState(Risk(tool)), risk |-> Risk(tool), job |-> j,
   requested_by |-> w, approved_by |-> None]

\* Mutation of MayApprove: the requester may approve its own call.
MayApproveOwn(call, actor) == call.state = "waiting_for_approval"

\* Mutation of MayApprove: the state is not tested, as if a retry were harmless.
MayApproveAgain(call, actor) == call.state # "absent" /\ call.requested_by # actor

\* The checks of approve_tool_call.
MayApprove(call, actor) ==
  call.state = "waiting_for_approval" /\ call.requested_by # actor

ApprovedRow(call, actor) ==
  [state |-> "approved", risk |-> call.risk, job |-> call.job,
   requested_by |-> call.requested_by, approved_by |-> actor]

\* The check of complete_tool_call.
MayComplete(call) == call.state \in Executable

SucceededRow(call) ==
  [state |-> "succeeded", risk |-> call.risk, job |-> call.job,
   requested_by |-> call.requested_by, approved_by |-> call.approved_by]

-----------------------------------------------------------------------------
Init ==
  /\ jobs = [j \in Jobs |-> NoJob]
  /\ calls = [c \in Calls |-> NoCall]
  /\ worker = [w \in Workers |-> IdleWorker]
  /\ desk = [d \in Desks |-> IdleDesk]

\* request_agent_job and create_agent_job.  created_at is read before the
\* transaction starts, so rows may appear in another order.
CreateJob(j) ==
  /\ jobs[j].state = "absent"
  /\ jobs' = [jobs EXCEPT ![j].state = "queued"]
  /\ UNCHANGED <<calls, worker, desk>>

-----------------------------------------------------------------------------
(* The worker: AgentWorker.run_once *)

\* claim_agent_job: BEGIN IMMEDIATE, the oldest claimable row, UPDATE.
Claim(w) ==
  /\ worker[w].pc = "idle"
  /\ \E j \in Jobs :
       /\ Claimable(jobs[j], MaxAttempts[j])
       /\ \A k \in Jobs : Claimable(jobs[k], MaxAttempts[k]) => j <= k
       /\ jobs' = [jobs EXCEPT ![j] = ClaimedRow(@, w)]
       /\ worker' = [worker EXCEPT ![w] =
            [pc |-> "claimed", job |-> j, attempt |-> jobs'[j].attempt, call |-> None]]
  /\ UNCHANGED <<calls, desk>>

\* The model answers: a job that needs no tool goes on to finish.
Answer(w) ==
  /\ worker[w].pc = "claimed"
  /\ worker[w].job \notin Retrieval
  /\ worker' = [worker EXCEPT ![w].pc = "finishing"]
  /\ UNCHANGED <<jobs, calls, desk>>

\* The model raises, or the tool it called does.
Raise(w) ==
  /\ worker[w].pc \in {"claimed", "executing"}
  /\ worker' = [worker EXCEPT ![w].pc = "failing"]
  /\ UNCHANGED <<jobs, calls, desk>>

\* request_tool_call and create_tool_call, one transaction, for knowledge_search.
RequestRead(w) ==
  /\ worker[w].pc = "claimed"
  /\ worker[w].job \in Retrieval
  /\ Holds(jobs[worker[w].job], w)
  /\ \E c \in Calls :
       /\ calls[c].state = "absent"
       /\ calls' = [calls EXCEPT ![c] = RequestedRow(worker[w].job, "knowledge_search", w)]
       /\ worker' = [worker EXCEPT ![w] =
            [pc |-> "executing", job |-> @.job, attempt |-> @.attempt, call |-> c]]
  /\ UNCHANGED <<jobs, desk>>

\* The same transaction for a write tool.  The caller may stop here, or go on
\* to finish_agent_job as run_once does after a request.
RequestWrite(w) ==
  /\ worker[w].pc = "claimed"
  /\ worker[w].job \notin Retrieval
  /\ Holds(jobs[worker[w].job], w)
  /\ \E c \in Calls :
       /\ calls[c].state = "absent"
       /\ calls' = [calls EXCEPT ![c] = RequestedRow(worker[w].job, "transition_issue", w)]
  /\ jobs' = [jobs EXCEPT ![worker[w].job] = ParkedRow(@)]
  /\ \/ worker' = [worker EXCEPT ![w] = IdleWorker]
     \/ worker' = [worker EXCEPT ![w].pc = "finishing"]
  /\ UNCHANGED desk

\* create_tool_call raises Conflict: the job is no longer this worker's.
RequestConflict(w) ==
  /\ worker[w].pc = "claimed"
  /\ ~Holds(jobs[worker[w].job], w)
  /\ worker' = [worker EXCEPT ![w].pc = "failing"]
  /\ UNCHANGED <<jobs, calls, desk>>

\* tools.execute, then complete_tool_call on the worker's own read call.  Only
\* this worker knows the call's id, so SELECT and UPDATE are one step here.
CompleteRead(w) ==
  /\ worker[w].pc = "executing"
  /\ IF MayComplete(calls[worker[w].call])
       THEN /\ calls' = [calls EXCEPT ![worker[w].call] = SucceededRow(@)]
            /\ worker' = [worker EXCEPT ![w].pc = "finishing"]
       ELSE /\ worker' = [worker EXCEPT ![w].pc = "failing"]
            /\ UNCHANGED calls
  /\ UNCHANGED <<jobs, desk>>

\* finish_agent_job(SUCCEEDED); its Conflict is caught and reported as a failure.
FinishSucceeded(w) ==
  /\ worker[w].pc = "finishing"
  /\ IF Holds(jobs[worker[w].job], w)
       THEN /\ jobs' = [jobs EXCEPT ![worker[w].job] = FinishedRow(@, "succeeded")]
            /\ worker' = [worker EXCEPT ![w] = IdleWorker]
       ELSE /\ worker' = [worker EXCEPT ![w].pc = "failing"]
            /\ UNCHANGED jobs
  /\ UNCHANGED <<calls, desk>>

\* finish_agent_job(FAILED); its Conflict leaves run_once.
FinishFailed(w) ==
  /\ worker[w].pc = "failing"
  /\ IF Holds(jobs[worker[w].job], w)
       THEN jobs' = [jobs EXCEPT ![worker[w].job] = FinishedRow(@, "failed")]
       ELSE UNCHANGED jobs
  /\ worker' = [worker EXCEPT ![w] = IdleWorker]
  /\ UNCHANGED <<calls, desk>>

\* The worker process dies and comes back with the same worker_id.
WorkerCrash(w) ==
  /\ worker[w].pc # "idle"
  /\ worker' = [worker EXCEPT ![w] = IdleWorker]
  /\ UNCHANGED <<jobs, calls, desk>>

-----------------------------------------------------------------------------
(* The approval endpoint and the executor of approved calls *)

\* approve_tool_call, SELECT and checks.
ReadForApproval(d) ==
  /\ desk[d].pc = "idle"
  /\ \E c \in Calls, a \in Approvers :
       /\ MayApprove(calls[c], a)
       /\ desk' = [desk EXCEPT ![d] = [pc |-> "approving", call |-> c, actor |-> a]]
  /\ UNCHANGED <<jobs, calls, worker>>

\* UPDATE tool_calls: by call_id only.
ApproveCall(d) ==
  /\ desk[d].pc = "approving"
  /\ calls' = [calls EXCEPT ![desk[d].call] = ApprovedRow(@, desk[d].actor)]
  /\ desk' = [desk EXCEPT ![d].pc = "requeueing"]
  /\ UNCHANGED <<jobs, worker>>

\* UPDATE agent_jobs: only a job that waits.
RequeueJob(d) ==
  /\ desk[d].pc = "requeueing"
  /\ jobs' = [jobs EXCEPT ![calls[desk[d].call].job] = RequeuedRow(@)]
  /\ desk' = [desk EXCEPT ![d] = IdleDesk]
  /\ UNCHANGED <<calls, worker>>

\* complete_tool_call, SELECT and check, for a call that went through approval.
ReadForCompletion(d) ==
  /\ desk[d].pc = "idle"
  /\ \E c \in Calls :
       /\ calls[c].risk = "write"
       /\ MayComplete(calls[c])
       /\ desk' = [desk EXCEPT ![d] = [pc |-> "completing", call |-> c, actor |-> None]]
  /\ UNCHANGED <<jobs, calls, worker>>

\* UPDATE tool_calls: by call_id only.
CompleteCall(d) ==
  /\ desk[d].pc = "completing"
  /\ calls' = [calls EXCEPT ![desk[d].call] = SucceededRow(@)]
  /\ desk' = [desk EXCEPT ![d] = IdleDesk]
  /\ UNCHANGED <<jobs, worker>>

\* The process dies, or SQLite reports "database is locked", between statements.
DeskCrash(d) ==
  /\ d \in Fragile
  /\ desk[d].pc # "idle"
  /\ desk' = [desk EXCEPT ![d] = IdleDesk]
  /\ UNCHANGED <<jobs, calls, worker>>

-----------------------------------------------------------------------------
Tick ==
  /\ \E j \in Jobs : jobs[j].lease > 0
  /\ jobs' = [j \in Jobs |->
       [jobs[j] EXCEPT !.lease = IF @ > 0 THEN @ - 1 ELSE 0]]
  /\ UNCHANGED <<calls, worker, desk>>

WorkerStep(w) ==
  \/ Answer(w)
  \/ Raise(w)
  \/ RequestRead(w)
  \/ RequestWrite(w)
  \/ RequestConflict(w)
  \/ CompleteRead(w)
  \/ FinishSucceeded(w)
  \/ FinishFailed(w)

DeskStep(d) == ApproveCall(d) \/ RequeueJob(d) \/ CompleteCall(d)

Next ==
  \/ \E j \in Jobs : CreateJob(j)
  \/ \E w \in Workers : Claim(w) \/ WorkerStep(w) \/ WorkerCrash(w)
  \/ \E d \in Desks :
       ReadForApproval(d) \/ ReadForCompletion(d) \/ DeskStep(d) \/ DeskCrash(d)
  \/ Tick

Spec == Init /\ [][Next]_vars

(***************************************************************************)
(* Time passes, a live worker keeps calling run_once and reaches the next  *)
(* statement unless it crashes, and a request that was accepted is worked  *)
(* off.  Nothing obliges a human to approve, or anyone to execute a call.  *)
(***************************************************************************)
Fairness ==
  /\ WF_vars(Tick)
  /\ \A w \in Workers : WF_vars(Claim(w)) /\ WF_vars(WorkerStep(w))
  /\ \A d \in Desks : WF_vars(DeskStep(d))

FairSpec == Spec /\ Fairness

-----------------------------------------------------------------------------
(* Properties *)

\* Every row and every local has a value the columns can hold; no attempt
\* number exceeds the budget given when the job was requested.
TypeOK ==
  /\ jobs \in [Jobs -> JobRows]
  /\ calls \in [Calls -> CallRows]
  /\ worker \in [Workers -> WorkerLocals]
  /\ desk \in [Desks -> DeskLocals]
  /\ \A j \in Jobs : jobs[j].attempt <= MaxAttempts[j]

\* Two workers never work the same attempt of a job, however leases expire
\* and workers crash: attempt is a fencing token although the code never
\* compares it.
AttemptsUnique ==
  \A v, w \in Workers :
    /\ worker[v].pc # "idle"
    /\ worker[w].pc # "idle"
    /\ worker[v].job = worker[w].job
    /\ worker[v].attempt = worker[w].attempt
    => v = w

\* A write tool is executed, or cleared for execution, only after an actor
\* other than the one that requested it approved it.
WriteNeedsApproval ==
  \A c \in Calls :
    /\ calls[c].risk = "write"
    /\ calls[c].state \in Executable \cup {"succeeded"}
    => calls[c].approved_by \notin {None, calls[c].requested_by}

\* While a call waits for a human its job waits too: no worker can claim it,
\* finish it or request another call for it.
PendingCallParksJob ==
  \A c \in Calls :
    calls[c].state = "waiting_for_approval" =>
      jobs[calls[c].job].state = "waiting_for_approval"

FencedStep ==
  \A j \in Jobs :
    jobs[j].state \notin Terminal /\ jobs'[j].state \in Terminal =>
      \E w \in Workers :
        /\ worker[w].pc # "idle"
        /\ worker[w].job = j
        /\ worker[w].attempt = jobs[j].attempt
        /\ jobs[j].state = "running"

\* A job is finished only on behalf of its latest claim: a worker that lost
\* its lease to another one, or parked the job, cannot write its outcome.
FinishIsFenced == [][FencedStep]_vars

FinalStep ==
  \A c \in Calls : calls[c].state = "succeeded" => calls'[c].state = "succeeded"

\* A call that was executed is never put back in front of an executor.
SucceededCallIsFinal == [][FinalStep]_vars

\* A job whose attempts are not used up is eventually finished, waits for a
\* human, or uses them up: expired leases are recovered and no job starves.
JobSettles ==
  \A j \in Jobs :
    jobs[j].state = "queued" /\ jobs[j].attempt < MaxAttempts[j] ~>
      \/ jobs[j].state \in Terminal \cup {"waiting_for_approval"}
      \/ jobs[j].attempt = MaxAttempts[j]

\* A job does not go on waiting once no call of it waits for a human: an
\* approval that reached the call reaches the job.
ApprovalReachesJob ==
  \A j \in Jobs :
    /\ jobs[j].state = "waiting_for_approval"
    /\ \A c \in Calls : calls[c].job = j => calls[c].state # "waiting_for_approval"
    ~> jobs[j].state # "waiting_for_approval"

\* The claim of README.md:100: a crashed worker cannot strand a job, because
\* another worker claims it when its lease has expired.
CrashStrandsNoJob ==
  \A j \in Jobs :
    jobs[j].state = "running" /\ jobs[j].lease = 0 ~>
      jobs[j].state # "running" \/ jobs[j].lease > 0
-----------------------------------------------------------------------------
(* Refinement *)

\* The calls job j is parked on: those that wait, and the one a desk has
\* approved without having requeued the job yet.
ParkedOn(j) ==
  {c \in Calls : /\ calls[c].job = j
                 /\ \/ calls[c].state = "waiting_for_approval"
                    \/ \E d \in Desks : desk[d].pc = "requeueing" /\ desk[d].call = c}

Lifecycle == INSTANCE JobLifecycle WITH
  status <- [j \in Jobs |-> jobs[j].state],
  tries  <- [j \in Jobs |-> jobs[j].attempt],
  gate   <- [j \in Jobs |-> ParkedOn(j)]

\* With one approving process that does not die between its two updates, the
\* two-statement approval behaves as one atomic step of the lifecycle: a job
\* leaves the gate exactly when its call does, once per approval.
ImplementsLifecycle == Lifecycle!Spec
=============================================================================

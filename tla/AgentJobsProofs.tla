--------------------------- MODULE AgentJobsProofs ---------------------------
(***************************************************************************)
(* Theorems about AgentJobs for every set of jobs, workers, calls and      *)
(* desks.  The inductive invariants are layered: TypeInv says that rows    *)
(* and locals refer to each other, Fence that a worker which still owns    *)
(* its job works on the job's latest attempt, Gate that whatever is        *)
(* cleared for execution was cleared by someone else, Parked that a job    *)
(* waits for at most one call.  Each layer uses the ones before it.  The   *)
(* last two sections say of which jobs no step changes the state any more. *)
(***************************************************************************)
EXTENDS AgentJobs, TLAPS

WorkersBound ==
  \A w \in Workers :
    \/ worker[w] = IdleWorker
    \/ /\ worker[w].pc # "idle"
       /\ worker[w].job \in Jobs
       /\ worker[w].attempt <= jobs[worker[w].job].attempt
       /\ worker[w].pc = "executing" => worker[w].call \in Calls

CallsBound ==
  \A c \in Calls :
    calls[c].state # "absent" => calls[c].job \in Jobs /\ calls[c].requested_by \in Workers

DesksBound ==
  \A d \in Desks :
    desk[d].pc # "idle" =>
      /\ desk[d].call \in Calls
      /\ calls[desk[d].call].state # "absent"
      /\ desk[d].pc = "approving" =>
           /\ desk[d].actor \in Approvers
           /\ desk[d].actor # calls[desk[d].call].requested_by

TypeInv == TypeOK /\ WorkersBound /\ CallsBound /\ DesksBound

-----------------------------------------------------------------------------
(* What the row operators return. *)

LEMMA ClaimedRowType ==
  ASSUME NEW job \in JobRows, NEW w \in Workers
  PROVE  /\ ClaimedRow(job, w) \in JobRows
         /\ ClaimedRow(job, w).attempt = job.attempt + 1
         /\ ClaimedRow(job, w).state = "running"
         /\ ClaimedRow(job, w).lease_owner = w
BY LeaseAssumption DEF ClaimedRow, JobRows, JobStates, Terminal

LEMMA FinishedRowType ==
  ASSUME NEW job \in JobRows, NEW state \in Terminal
  PROVE  /\ FinishedRow(job, state) \in JobRows
         /\ FinishedRow(job, state).attempt = job.attempt
         /\ FinishedRow(job, state).state = state
         /\ FinishedRow(job, state).lease_owner = None
BY LeaseAssumption DEF FinishedRow, Unleased, JobRows, JobStates, Terminal

LEMMA ParkedRowType ==
  ASSUME NEW job \in JobRows
  PROVE  /\ ParkedRow(job) \in JobRows
         /\ ParkedRow(job).attempt = job.attempt
         /\ ParkedRow(job).state = "waiting_for_approval"
         /\ ParkedRow(job).lease_owner = None
BY LeaseAssumption DEF ParkedRow, Unleased, JobRows, JobStates, Terminal

LEMMA RequeuedRowType ==
  ASSUME NEW job \in JobRows
  PROVE  /\ RequeuedRow(job) \in JobRows
         /\ RequeuedRow(job).attempt = job.attempt
         /\ RequeuedRow(job).lease_owner = job.lease_owner
         /\ RequeuedRow(job).state =
              IF job.state = "waiting_for_approval" THEN "queued" ELSE job.state
BY DEF RequeuedRow, JobRows, JobStates, Terminal

LEMMA RequestedRowType ==
  ASSUME NEW j \in Jobs, NEW w \in Workers,
         NEW tool \in {"knowledge_search", "transition_issue"}
  PROVE  /\ RequestedRow(j, tool, w) \in CallRows
         /\ RequestedRow(j, tool, w).job = j
         /\ RequestedRow(j, tool, w).requested_by = w
         /\ RequestedRow(j, tool, w).state =
              IF tool = "knowledge_search" THEN "ready" ELSE "waiting_for_approval"
         /\ RequestedRow(j, tool, w).risk =
              IF tool = "knowledge_search" THEN "read_only" ELSE "write"
BY DEF RequestedRow, CallRows, CallStates, InitialState, Risk

-----------------------------------------------------------------------------
(* Types *)

LEMMA TypeInit == Init => TypeInv
BY BudgetAssumption, LeaseAssumption
DEF Init, TypeInv, TypeOK, WorkersBound, CallsBound, DesksBound, NoJob, NoCall,
    IdleWorker, IdleDesk, JobRows, CallRows, WorkerLocals, DeskLocals,
    JobStates, CallStates, Terminal

LEMMA TypeNext == TypeInv /\ [Next]_vars => TypeInv'
<1> SUFFICES ASSUME TypeInv, [Next]_vars PROVE TypeInv'
  OBVIOUS
<1> USE DEF TypeInv, TypeOK, WorkersBound, CallsBound, DesksBound
<1>1. ASSUME NEW j \in Jobs, CreateJob(j) PROVE TypeInv'
  BY <1>1 DEF CreateJob, JobRows, JobStates
<1>2. ASSUME NEW w \in Workers, Claim(w) PROVE TypeInv'
  <2>1. PICK j \in Jobs :
          /\ Claimable(jobs[j], MaxAttempts[j])
          /\ jobs' = [jobs EXCEPT ![j] = ClaimedRow(@, w)]
          /\ worker' = [worker EXCEPT ![w] =
               [pc |-> "claimed", job |-> j, attempt |-> jobs'[j].attempt, call |-> None]]
    BY <1>2 DEF Claim
  <2>2. /\ jobs[j].attempt + 1 <= MaxAttempts[j]
        /\ jobs[j].attempt \in Nat
    <3>1. jobs[j].attempt \in Nat /\ MaxAttempts[j] \in Nat
      BY BudgetAssumption DEF JobRows
    <3> QED
      BY <2>1, <3>1 DEF Claimable
  <2>3. jobs' \in [Jobs -> JobRows] /\ \A k \in Jobs : jobs'[k].attempt <= MaxAttempts[k]
    BY <2>1, <2>2, ClaimedRowType
  <2>4. /\ \A k \in Jobs : jobs[k].attempt <= jobs'[k].attempt
        /\ jobs'[j].attempt \in Nat
    BY <2>1, <2>2, <2>3, ClaimedRowType DEF JobRows
  <2>5. worker' \in [Workers -> WorkerLocals]
    BY <2>1, <2>4 DEF WorkerLocals
  <2>6. WorkersBound'
    BY <2>1, <2>3, <2>4 DEF WorkerLocals, JobRows
  <2> QED
    BY <1>2, <2>3, <2>5, <2>6 DEF Claim
<1>3. ASSUME NEW w \in Workers, Answer(w) PROVE TypeInv'
  BY <1>3 DEF Answer, WorkerLocals, IdleWorker
<1>4. ASSUME NEW w \in Workers, Raise(w) PROVE TypeInv'
  BY <1>4 DEF Raise, WorkerLocals, IdleWorker
<1>5. ASSUME NEW w \in Workers, RequestRead(w) PROVE TypeInv'
  <2>1. PICK c \in Calls :
          /\ calls[c].state = "absent"
          /\ calls' = [calls EXCEPT ![c] = RequestedRow(worker[w].job, "knowledge_search", w)]
          /\ worker' = [worker EXCEPT ![w] =
               [pc |-> "executing", job |-> @.job, attempt |-> @.attempt, call |-> c]]
    BY <1>5 DEF RequestRead
  <2>2. worker[w].job \in Jobs
    BY <1>5 DEF RequestRead, IdleWorker
  <2>3. calls' \in [Calls -> CallRows] /\ CallsBound'
    BY <2>1, <2>2, RequestedRowType DEF CallRows
  <2>4. worker' \in [Workers -> WorkerLocals]
    BY <2>1 DEF WorkerLocals
  <2>5. WorkersBound'
    BY <1>5, <2>1, <2>2 DEF RequestRead, WorkerLocals, IdleWorker
  <2>6. DesksBound'
    BY <1>5, <2>1 DEF RequestRead
  <2> QED
    BY <1>5, <2>3, <2>4, <2>5, <2>6 DEF RequestRead
<1>6. ASSUME NEW w \in Workers, RequestWrite(w) PROVE TypeInv'
  <2>1. PICK c \in Calls :
          /\ calls[c].state = "absent"
          /\ calls' = [calls EXCEPT ![c] = RequestedRow(worker[w].job, "transition_issue", w)]
    BY <1>6 DEF RequestWrite
  <2>2. worker[w].job \in Jobs
    BY <1>6 DEF RequestWrite, IdleWorker
  <2>3. calls' \in [Calls -> CallRows] /\ CallsBound'
    BY <2>1, <2>2, RequestedRowType DEF CallRows
  <2>4. /\ jobs' \in [Jobs -> JobRows]
        /\ \A k \in Jobs : jobs'[k].attempt = jobs[k].attempt
    BY <1>6, <2>2, ParkedRowType DEF RequestWrite
  <2>5. worker' \in [Workers -> WorkerLocals]
    BY <1>6 DEF RequestWrite, WorkerLocals, IdleWorker
  <2>6. WorkersBound'
    BY <1>6, <2>2, <2>4 DEF RequestWrite, WorkerLocals, IdleWorker
  <2>7. DesksBound'
    BY <1>6, <2>1 DEF RequestWrite
  <2> QED
    BY <1>6, <2>3, <2>4, <2>5, <2>6, <2>7 DEF RequestWrite
<1>7. ASSUME NEW w \in Workers, RequestConflict(w) PROVE TypeInv'
  BY <1>7 DEF RequestConflict, WorkerLocals, IdleWorker
<1>8. ASSUME NEW w \in Workers, CompleteRead(w) PROVE TypeInv'
  <2>1. worker[w].call \in Calls /\ worker[w].job \in Jobs
    BY <1>8 DEF CompleteRead, IdleWorker
  <2>2. /\ calls' \in [Calls -> CallRows]
        /\ \A c \in Calls : /\ calls'[c].job = calls[c].job
                            /\ calls'[c].requested_by = calls[c].requested_by
                            /\ calls'[c].state # "absent" <=> calls[c].state # "absent"
    <3>1. CASE MayComplete(calls[worker[w].call])
      BY <1>8, <2>1, <3>1
      DEF CompleteRead, SucceededRow, MayComplete, Executable, CallRows, CallStates
    <3>2. CASE ~MayComplete(calls[worker[w].call])
      BY <1>8, <2>1, <3>2 DEF CompleteRead
    <3> QED
      BY <3>1, <3>2
  <2>5. CallsBound' /\ DesksBound'
    BY <1>8, <2>2 DEF CompleteRead
  <2>3. \/ worker' = [worker EXCEPT ![w].pc = "finishing"]
        \/ worker' = [worker EXCEPT ![w].pc = "failing"]
    BY <1>8 DEF CompleteRead
  <2>4. worker' \in [Workers -> WorkerLocals] /\ WorkersBound'
    <3>1. CASE worker' = [worker EXCEPT ![w].pc = "finishing"]
      BY <1>8, <2>1, <3>1 DEF CompleteRead, WorkerLocals, IdleWorker
    <3>2. CASE worker' = [worker EXCEPT ![w].pc = "failing"]
      BY <1>8, <2>1, <3>2 DEF CompleteRead, WorkerLocals, IdleWorker
    <3> QED
      BY <2>3, <3>1, <3>2
  <2> QED
    BY <1>8, <2>2, <2>4, <2>5 DEF CompleteRead
<1>9. ASSUME NEW w \in Workers, FinishSucceeded(w) PROVE TypeInv'
  <2>1. worker[w].job \in Jobs
    BY <1>9 DEF FinishSucceeded, IdleWorker
  <2>2. /\ jobs' \in [Jobs -> JobRows]
        /\ \A k \in Jobs : jobs'[k].attempt = jobs[k].attempt
    BY <1>9, <2>1, FinishedRowType DEF FinishSucceeded, Terminal
  <2>3. worker' \in [Workers -> WorkerLocals] /\ WorkersBound'
    <3>1. \/ worker' = [worker EXCEPT ![w] = IdleWorker]
          \/ worker' = [worker EXCEPT ![w].pc = "failing"]
      BY <1>9 DEF FinishSucceeded
    <3>2. /\ worker' \in [Workers -> WorkerLocals]
          /\ \A v \in Workers \ {w} : worker'[v] = worker[v]
          /\ \/ worker'[w] = IdleWorker
             \/ /\ worker'[w].pc = "failing"
                /\ worker'[w].job = worker[w].job
                /\ worker'[w].attempt = worker[w].attempt
      <4>1. CASE worker' = [worker EXCEPT ![w] = IdleWorker]
        <5>1. IdleWorker \in WorkerLocals
          BY DEF WorkerLocals, IdleWorker
        <5> QED
          BY <4>1, <5>1
      <4>2. CASE worker' = [worker EXCEPT ![w].pc = "failing"]
        BY <4>2 DEF WorkerLocals
      <4> QED
        BY <3>1, <4>1, <4>2
    <3> QED
      BY <1>9, <2>2, <3>2 DEF FinishSucceeded, IdleWorker
  <2> QED
    BY <1>9, <2>2, <2>3 DEF FinishSucceeded
<1>10. ASSUME NEW w \in Workers, FinishFailed(w) PROVE TypeInv'
  <2>1. worker[w].job \in Jobs
    BY <1>10 DEF FinishFailed, IdleWorker
  <2>2. /\ jobs' \in [Jobs -> JobRows]
        /\ \A k \in Jobs : jobs'[k].attempt = jobs[k].attempt
    BY <1>10, <2>1, FinishedRowType DEF FinishFailed, Terminal
  <2>3. worker' \in [Workers -> WorkerLocals] /\ WorkersBound'
    BY <1>10, <2>1, <2>2 DEF FinishFailed, WorkerLocals, IdleWorker
  <2> QED
    BY <1>10, <2>2, <2>3 DEF FinishFailed
<1>11. ASSUME NEW w \in Workers, WorkerCrash(w) PROVE TypeInv'
  BY <1>11 DEF WorkerCrash, WorkerLocals, IdleWorker
<1>12. ASSUME NEW d \in Desks, ReadForApproval(d) PROVE TypeInv'
  BY <1>12 DEF ReadForApproval, MayApprove, DeskLocals
<1>13. ASSUME NEW d \in Desks, ApproveCall(d) PROVE TypeInv'
  <2>1. desk[d].call \in Calls
    BY <1>13 DEF ApproveCall
  <2>2. /\ calls' \in [Calls -> CallRows]
        /\ calls'[desk[d].call].state # "absent"
        /\ \A c \in Calls : /\ calls'[c].job = calls[c].job
                            /\ calls'[c].requested_by = calls[c].requested_by
                            /\ c # desk[d].call => calls'[c] = calls[c]
    <3>1. desk[d].actor \in Approvers
      BY <1>13 DEF ApproveCall
    <3> QED
      BY <1>13, <2>1, <3>1 DEF ApproveCall, ApprovedRow, CallRows, CallStates
  <2>3. desk' \in [Desks -> DeskLocals]
    BY <1>13 DEF ApproveCall, DeskLocals
  <2>4. CallsBound'
    BY <1>13, <2>1, <2>2 DEF ApproveCall, DeskLocals
  <2>5. DesksBound'
    BY <1>13, <2>1, <2>2 DEF ApproveCall, DeskLocals
  <2> QED
    BY <1>13, <2>2, <2>3, <2>4, <2>5 DEF ApproveCall
<1>14. ASSUME NEW d \in Desks, RequeueJob(d) PROVE TypeInv'
  <2>1. desk[d].call \in Calls /\ calls[desk[d].call].job \in Jobs
    BY <1>14 DEF RequeueJob
  <2>2. /\ jobs' \in [Jobs -> JobRows]
        /\ \A k \in Jobs : jobs'[k].attempt = jobs[k].attempt
    BY <1>14, <2>1, RequeuedRowType DEF RequeueJob
  <2> QED
    BY <1>14, <2>2 DEF RequeueJob, DeskLocals, IdleDesk
<1>15. ASSUME NEW d \in Desks, ReadForCompletion(d) PROVE TypeInv'
  BY <1>15 DEF ReadForCompletion, MayComplete, Executable, DeskLocals
<1>16. ASSUME NEW d \in Desks, CompleteCall(d) PROVE TypeInv'
  <2>1. desk[d].call \in Calls
    BY <1>16 DEF CompleteCall
  <2>2. /\ calls' \in [Calls -> CallRows]
        /\ calls'[desk[d].call].state # "absent"
        /\ \A c \in Calls : /\ calls'[c].job = calls[c].job
                            /\ calls'[c].requested_by = calls[c].requested_by
                            /\ c # desk[d].call => calls'[c] = calls[c]
    BY <1>16, <2>1 DEF CompleteCall, SucceededRow, CallRows, CallStates
  <2>3. desk' \in [Desks -> DeskLocals]
    BY <1>16 DEF CompleteCall, DeskLocals, IdleDesk
  <2>4. CallsBound' /\ DesksBound'
    BY <1>16, <2>1, <2>2 DEF CompleteCall, DeskLocals, IdleDesk
  <2> QED
    BY <1>16, <2>2, <2>3, <2>4 DEF CompleteCall
<1>17. ASSUME NEW d \in Desks, DeskCrash(d) PROVE TypeInv'
  BY <1>17 DEF DeskCrash, DeskLocals, IdleDesk
<1>18. ASSUME Tick PROVE TypeInv'
  <2>1. /\ jobs' \in [Jobs -> JobRows]
        /\ \A k \in Jobs : jobs'[k].attempt = jobs[k].attempt
    BY <1>18, LeaseAssumption DEF Tick, JobRows
  <2> QED
    BY <1>18, <2>1 DEF Tick
<1>19. CASE UNCHANGED vars
  BY <1>19 DEF vars
<1> QED
  BY <1>1, <1>2, <1>3, <1>4, <1>5, <1>6, <1>7, <1>8, <1>9, <1>10, <1>11, <1>12,
     <1>13, <1>14, <1>15, <1>16, <1>17, <1>18, <1>19 DEF Next, WorkerStep, DeskStep

\* Rows and locals keep their types and no attempt exceeds its budget, in every
\* reachable state.
THEOREM TypeCorrect == Spec => []TypeOK
<1>1. Spec => []TypeInv
  BY TypeInit, TypeNext, PTL DEF Spec
<1>2. TypeInv => TypeOK
  BY DEF TypeInv
<1> QED
  BY <1>1, <1>2, PTL
-----------------------------------------------------------------------------
(* Fencing *)

\* A worker that still owns the job it works on is on its latest attempt, and
\* no two workers are on the same attempt.
Fence ==
  /\ \A w \in Workers :
       worker[w].pc # "idle" /\ jobs[worker[w].job].lease_owner = w =>
         worker[w].attempt = jobs[worker[w].job].attempt
  /\ AttemptsUnique

\* Steps that leave the owner and the attempt of every job alone, except that
\* an owner may be removed, and that start no run, keep the fence.
LEMMA FenceFrame ==
  ASSUME TypeInv, Fence,
         \A j \in Jobs : /\ jobs'[j].attempt = jobs[j].attempt
                         /\ jobs'[j].lease_owner \in {jobs[j].lease_owner, None},
         \A w \in Workers :
           \/ worker'[w] = IdleWorker
           \/ /\ worker[w].pc # "idle"
              /\ worker'[w].job = worker[w].job
              /\ worker'[w].attempt = worker[w].attempt
  PROVE  Fence'
<1>1. \A w \in Workers : w # None
  BY NoneAssumption
<1>2. \A w \in Workers : worker[w].pc # "idle" => worker[w].job \in Jobs
  BY DEF TypeInv, WorkersBound, IdleWorker
<1> QED
  BY <1>1, <1>2 DEF Fence, AttemptsUnique, IdleWorker

LEMMA FenceInit == Init => Fence
BY DEF Init, Fence, AttemptsUnique, IdleWorker

LEMMA FenceNext == TypeInv /\ Fence /\ [Next]_vars => Fence'
<1> SUFFICES ASSUME TypeInv, Fence, [Next]_vars PROVE Fence'
  OBVIOUS
<1>a. /\ jobs \in [Jobs -> JobRows]
      /\ worker \in [Workers -> WorkerLocals]
      /\ \A w \in Workers : worker[w].pc # "idle" =>
           /\ worker[w].job \in Jobs
           /\ worker[w].attempt <= jobs[worker[w].job].attempt
  BY DEF TypeInv, TypeOK, WorkersBound, IdleWorker
<1>b. ASSUME UNCHANGED jobs,
             NEW w \in Workers,
             \/ worker'[w] = IdleWorker
             \/ /\ worker[w].pc # "idle"
                /\ worker'[w].job = worker[w].job
                /\ worker'[w].attempt = worker[w].attempt,
             \A v \in Workers : v # w => worker'[v] = worker[v]
      PROVE  Fence'
  <2>1. \A v \in Workers :
           \/ worker'[v] = IdleWorker
           \/ /\ worker[v].pc # "idle"
              /\ worker'[v].job = worker[v].job
              /\ worker'[v].attempt = worker[v].attempt
    BY <1>b DEF TypeInv, WorkersBound
  <2> QED
    BY <1>b, <2>1, FenceFrame
<1>c. ASSUME UNCHANGED worker,
             \A j \in Jobs : /\ jobs'[j].attempt = jobs[j].attempt
                             /\ jobs'[j].lease_owner \in {jobs[j].lease_owner, None}
      PROVE  Fence'
  BY <1>a, <1>c, FenceFrame DEF TypeInv, WorkersBound
<1>1. ASSUME NEW j \in Jobs, CreateJob(j) PROVE Fence'
  BY <1>1, <1>a, <1>c DEF CreateJob, JobRows
<1>2. ASSUME NEW w \in Workers, Claim(w) PROVE Fence'
  <2>1. PICK j \in Jobs :
          /\ jobs' = [jobs EXCEPT ![j] = ClaimedRow(@, w)]
          /\ worker' = [worker EXCEPT ![w] =
               [pc |-> "claimed", job |-> j, attempt |-> jobs'[j].attempt, call |-> None]]
    BY <1>2 DEF Claim
  <2>2. /\ jobs'[j].lease_owner = w
        /\ jobs'[j].attempt = jobs[j].attempt + 1
        /\ jobs[j].attempt \in Nat
        /\ \A k \in Jobs : k # j => jobs'[k] = jobs[k]
    BY <1>a, <2>1, ClaimedRowType DEF JobRows
  <2>3. /\ worker'[w].job = j
        /\ worker'[w].attempt = jobs[j].attempt + 1
        /\ \A v \in Workers : v # w => worker'[v] = worker[v]
    BY <1>a, <2>1, <2>2
  <2>4. ASSUME NEW v \in Workers, v # w, worker[v].pc # "idle", worker[v].job = j
        PROVE  worker[v].attempt # jobs[j].attempt + 1
    <3>1. worker[v].attempt <= jobs[j].attempt /\ worker[v].attempt \in Nat
      BY <1>a, <2>4 DEF WorkerLocals
    <3> QED
      BY <2>2, <3>1
  <2>5. AttemptsUnique'
    BY <2>3, <2>4 DEF Fence, AttemptsUnique
  <2>6. ASSUME NEW v \in Workers, worker'[v].pc # "idle",
               jobs'[worker'[v].job].lease_owner = v
        PROVE  worker'[v].attempt = jobs'[worker'[v].job].attempt
    <3>1. CASE v = w
      BY <2>2, <2>3, <3>1
    <3>2. CASE v # w
      <4>1. worker'[v] = worker[v] /\ worker[v].job \in Jobs
        BY <1>a, <2>3, <2>6, <3>2
      <4>2. worker[v].job # j
        BY <2>2, <2>6, <3>2, <4>1
      <4> QED
        BY <2>2, <2>6, <4>1, <4>2 DEF Fence
    <3> QED
      BY <3>1, <3>2
  <2> QED
    BY <2>5, <2>6 DEF Fence
<1>3. ASSUME NEW w \in Workers, Answer(w) PROVE Fence'
  BY <1>3, <1>a, <1>b DEF Answer, WorkerLocals
<1>4. ASSUME NEW w \in Workers, Raise(w) PROVE Fence'
  BY <1>4, <1>a, <1>b DEF Raise, WorkerLocals
<1>5. ASSUME NEW w \in Workers, RequestRead(w) PROVE Fence'
  BY <1>5, <1>a, <1>b DEF RequestRead
<1>6. ASSUME NEW w \in Workers, RequestWrite(w) PROVE Fence'
  <2>1. \A j \in Jobs : /\ jobs'[j].attempt = jobs[j].attempt
                        /\ jobs'[j].lease_owner \in {jobs[j].lease_owner, None}
    BY <1>6, <1>a, ParkedRowType DEF RequestWrite
  <2>2. \A v \in Workers :
           \/ worker'[v] = IdleWorker
           \/ /\ worker[v].pc # "idle"
              /\ worker'[v].job = worker[v].job
              /\ worker'[v].attempt = worker[v].attempt
    BY <1>6, <1>a DEF RequestWrite, TypeInv, WorkersBound, WorkerLocals
  <2> QED
    BY <2>1, <2>2, FenceFrame
<1>7. ASSUME NEW w \in Workers, RequestConflict(w) PROVE Fence'
  BY <1>7, <1>a, <1>b DEF RequestConflict, WorkerLocals
<1>8. ASSUME NEW w \in Workers, CompleteRead(w) PROVE Fence'
  <2>1. \/ worker' = [worker EXCEPT ![w].pc = "finishing"]
        \/ worker' = [worker EXCEPT ![w].pc = "failing"]
    BY <1>8 DEF CompleteRead
  <2>2. UNCHANGED jobs /\ worker[w].pc # "idle"
    BY <1>8 DEF CompleteRead
  <2> QED
    BY <1>a, <1>b, <2>1, <2>2 DEF WorkerLocals
<1>9. ASSUME NEW w \in Workers,
             NEW state \in Terminal,
             worker[w].pc # "idle",
             \/ /\ jobs' = [jobs EXCEPT ![worker[w].job] = FinishedRow(@, state)]
                /\ worker' = [worker EXCEPT ![w] = IdleWorker]
             \/ /\ UNCHANGED jobs
                /\ \/ worker' = [worker EXCEPT ![w] = IdleWorker]
                   \/ worker' = [worker EXCEPT ![w].pc = "failing"]
      PROVE  Fence'
  <2>1. \A j \in Jobs : /\ jobs'[j].attempt = jobs[j].attempt
                        /\ jobs'[j].lease_owner \in {jobs[j].lease_owner, None}
    BY <1>9, <1>a, FinishedRowType
  <2>2. \A v \in Workers :
           \/ worker'[v] = IdleWorker
           \/ /\ worker[v].pc # "idle"
              /\ worker'[v].job = worker[v].job
              /\ worker'[v].attempt = worker[v].attempt
    BY <1>9, <1>a DEF TypeInv, WorkersBound, WorkerLocals
  <2> QED
    BY <2>1, <2>2, FenceFrame
<1>10. ASSUME NEW w \in Workers, FinishSucceeded(w) \/ FinishFailed(w) PROVE Fence'
  BY <1>9, <1>10 DEF FinishSucceeded, FinishFailed, Terminal
<1>11. ASSUME NEW w \in Workers, WorkerCrash(w) PROVE Fence'
  BY <1>11, <1>a, <1>b DEF WorkerCrash
<1>12. ASSUME NEW d \in Desks,
              \/ ReadForApproval(d)
              \/ ApproveCall(d)
              \/ ReadForCompletion(d)
              \/ CompleteCall(d)
              \/ DeskCrash(d)
       PROVE  Fence'
  BY <1>12, <1>c DEF ReadForApproval, ApproveCall, ReadForCompletion, CompleteCall, DeskCrash
<1>13. ASSUME NEW d \in Desks, RequeueJob(d) PROVE Fence'
  <2>1. calls[desk[d].call].job \in Jobs
    BY <1>13 DEF RequeueJob, TypeInv, DesksBound, CallsBound
  <2> QED
    BY <1>13, <1>a, <1>c, <2>1, RequeuedRowType DEF RequeueJob
<1>14. ASSUME Tick PROVE Fence'
  BY <1>14, <1>a, <1>c DEF Tick, JobRows
<1>15. CASE UNCHANGED vars
  BY <1>15, <1>c DEF vars
<1> QED
  BY <1>1, <1>2, <1>3, <1>4, <1>5, <1>6, <1>7, <1>8, <1>10, <1>11, <1>12, <1>13,
     <1>14, <1>15 DEF Next, WorkerStep, DeskStep

\* No two workers are ever on the same attempt of a job, for any number of
\* workers, crashes and lease expiries.
THEOREM AttemptsAreUnique == Spec => []AttemptsUnique
<1>1. Spec => [](TypeInv /\ Fence)
  BY TypeInit, TypeNext, FenceInit, FenceNext, PTL DEF Spec
<1>2. Fence => AttemptsUnique
  BY DEF Fence
<1> QED
  BY <1>1, <1>2, PTL

\* The step that finishes a job is taken for its latest claim.
LEMMA FencedNext == TypeInv /\ Fence /\ [Next]_vars => [FencedStep]_vars
<1> SUFFICES ASSUME TypeInv, Fence, Next,
                    NEW j \in Jobs,
                    jobs[j].state \notin Terminal, jobs'[j].state \in Terminal
             PROVE  \E w \in Workers :
                      /\ worker[w].pc # "idle"
                      /\ worker[w].job = j
                      /\ worker[w].attempt = jobs[j].attempt
                      /\ jobs[j].state = "running"
  BY DEF FencedStep
<1>1. jobs \in [Jobs -> JobRows]
  BY DEF TypeInv, TypeOK
<1>2. ASSUME UNCHANGED jobs PROVE FALSE
  BY <1>2
<1>3. ASSUME NEW w \in Workers, worker[w].pc # "idle",
             Holds(jobs[worker[w].job], w), worker[w].job = j
      PROVE  \E v \in Workers :
               /\ worker[v].pc # "idle"
               /\ worker[v].job = j
               /\ worker[v].attempt = jobs[j].attempt
               /\ jobs[j].state = "running"
  BY <1>3 DEF Fence, Holds
<1>4. ASSUME NEW k \in Jobs, CreateJob(k) PROVE FALSE
  BY <1>1, <1>4 DEF CreateJob, JobRows, Terminal
<1>5. ASSUME NEW w \in Workers, Claim(w) PROVE FALSE
  BY <1>1, <1>5, ClaimedRowType DEF Claim, Terminal
<1>6. ASSUME NEW w \in Workers, RequestWrite(w) PROVE FALSE
  BY <1>1, <1>6, ParkedRowType DEF RequestWrite, Terminal
<1>7. ASSUME NEW w \in Workers, FinishSucceeded(w) \/ FinishFailed(w)
      PROVE  worker[w].pc # "idle" /\ worker[w].job = j /\ Holds(jobs[worker[w].job], w)
  BY <1>1, <1>7 DEF FinishSucceeded, FinishFailed
<1>8. ASSUME NEW d \in Desks, RequeueJob(d) PROVE FALSE
  BY <1>1, <1>8, RequeuedRowType DEF RequeueJob, Terminal
<1>9. ASSUME Tick PROVE FALSE
  BY <1>1, <1>9 DEF Tick, JobRows
<1> QED
  BY <1>2, <1>3, <1>4, <1>5, <1>6, <1>7, <1>8, <1>9
  DEF Next, WorkerStep, DeskStep, Answer, Raise, RequestRead, RequestConflict, CompleteRead,
      WorkerCrash, ReadForApproval, ApproveCall, ReadForCompletion, CompleteCall, DeskCrash

\* Only the latest claim of a job can write its outcome, although
\* finish_agent_job compares neither the attempt nor lease_until.
THEOREM FinishFenced == Spec => FinishIsFenced
<1>1. Spec => [](TypeInv /\ Fence)
  BY TypeInit, TypeNext, FenceInit, FenceNext, PTL DEF Spec
<1> QED
  BY <1>1, FencedNext, PTL DEF Spec, FinishIsFenced

-----------------------------------------------------------------------------
(* The approval gate *)

\* A desk that has passed its SELECT acts for someone who may act: whatever
\* the other processes did meanwhile.
Gate ==
  /\ WriteNeedsApproval
  /\ \A d \in Desks :
       desk[d].pc = "completing" =>
         calls[desk[d].call].state \in Executable \cup {"succeeded"}

LEMMA GateInit == Init => Gate
BY DEF Init, Gate, WriteNeedsApproval, NoCall, IdleDesk, Executable

LEMMA GateNext == TypeInv /\ Gate /\ [Next]_vars => Gate'
<1> SUFFICES ASSUME TypeInv, Gate, [Next]_vars PROVE Gate'
  OBVIOUS
<1>a. /\ calls \in [Calls -> CallRows]
      /\ desk \in [Desks -> DeskLocals]
  BY DEF TypeInv, TypeOK
<1>b. CASE UNCHANGED <<calls, desk>>
  BY <1>b DEF Gate, WriteNeedsApproval
<1>1. ASSUME NEW w \in Workers, RequestRead(w) \/ RequestWrite(w) PROVE Gate'
  <2>1. PICK c \in Calls, tool \in {"knowledge_search", "transition_issue"} :
          /\ calls[c].state = "absent"
          /\ calls' = [calls EXCEPT ![c] = RequestedRow(worker[w].job, tool, w)]
    BY <1>1 DEF RequestRead, RequestWrite
  <2>2. worker[w].job \in Jobs
    BY <1>1 DEF RequestRead, RequestWrite, TypeInv, WorkersBound, IdleWorker
  <2>3. calls'[c].risk = "write" => calls'[c].state = "waiting_for_approval"
    BY <1>a, <2>1, <2>2, RequestedRowType
  <2>4. \A e \in Calls : e # c => calls'[e] = calls[e]
    BY <1>a, <2>1
  <2>5. UNCHANGED desk
    BY <1>1 DEF RequestRead, RequestWrite
  <2> QED
    BY <2>1, <2>3, <2>4, <2>5 DEF Gate, WriteNeedsApproval, Executable, TypeInv, DesksBound
<1>2. ASSUME NEW c \in Calls,
             calls[c].state \in Executable \cup {"succeeded"},
             calls' = [calls EXCEPT ![c] = SucceededRow(@)],
             \A d \in Desks : desk'[d] = desk[d] \/ desk'[d] = IdleDesk
      PROVE  Gate'
  <2>1. /\ calls'[c].risk = calls[c].risk
        /\ calls'[c].approved_by = calls[c].approved_by
        /\ calls'[c].requested_by = calls[c].requested_by
        /\ calls'[c].state = "succeeded"
        /\ \A e \in Calls : e # c => calls'[e] = calls[e]
    BY <1>a, <1>2 DEF SucceededRow
  <2> QED
    BY <1>2, <2>1 DEF Gate, WriteNeedsApproval, IdleDesk, TypeInv, DesksBound
<1>3. ASSUME NEW w \in Workers, CompleteRead(w) PROVE Gate'
  <2>1. worker[w].call \in Calls
    BY <1>3 DEF CompleteRead, TypeInv, WorkersBound, IdleWorker
  <2> QED
    BY <1>b, <1>2, <1>3, <2>1 DEF CompleteRead, MayComplete
<1>4. ASSUME NEW d \in Desks, ReadForApproval(d) PROVE Gate'
  BY <1>4, <1>a DEF ReadForApproval, Gate, WriteNeedsApproval
<1>5. ASSUME NEW d \in Desks, ApproveCall(d) PROVE Gate'
  <2>1. /\ desk[d].call \in Calls
        /\ desk[d].actor \in Approvers
        /\ desk[d].actor # calls[desk[d].call].requested_by
    BY <1>5 DEF ApproveCall, TypeInv, DesksBound
  <2>2. /\ calls'[desk[d].call].approved_by = desk[d].actor
        /\ calls'[desk[d].call].requested_by = calls[desk[d].call].requested_by
        /\ calls'[desk[d].call].state = "approved"
        /\ \A e \in Calls : e # desk[d].call => calls'[e] = calls[e]
    BY <1>5, <1>a, <2>1 DEF ApproveCall, ApprovedRow
  <2>3. WriteNeedsApproval'
    BY <2>1, <2>2, NoneAssumption DEF Gate, WriteNeedsApproval
  <2>4. \A e \in Desks : desk'[e].pc = "completing" => desk'[e] = desk[e]
    BY <1>5, <1>a DEF ApproveCall, DeskLocals
  <2> QED
    BY <2>2, <2>3, <2>4 DEF Gate, Executable, TypeInv, DesksBound
<1>6. ASSUME NEW d \in Desks, RequeueJob(d) \/ DeskCrash(d) PROVE Gate'
  BY <1>6, <1>a DEF RequeueJob, DeskCrash, Gate, WriteNeedsApproval, IdleDesk
<1>7. ASSUME NEW d \in Desks, ReadForCompletion(d) PROVE Gate'
  BY <1>7, <1>a DEF ReadForCompletion, MayComplete, Gate, WriteNeedsApproval
<1>8. ASSUME NEW d \in Desks, CompleteCall(d) PROVE Gate'
  <2>1. desk[d].call \in Calls /\ calls[desk[d].call].state \in Executable \cup {"succeeded"}
    BY <1>8 DEF CompleteCall, Gate, TypeInv, DesksBound
  <2> QED
    BY <1>2, <1>8, <1>a, <2>1 DEF CompleteCall
<1> QED
  BY <1>b, <1>1, <1>3, <1>4, <1>5, <1>6, <1>7, <1>8
  DEF Next, WorkerStep, DeskStep, CreateJob, Claim, Answer, Raise, RequestConflict,
      FinishSucceeded, FinishFailed, WorkerCrash, Tick, vars

\* No write tool is executed, or cleared for execution, without the approval
\* of an actor other than its requester; this needs no assumption on how many
\* processes approve and complete calls at once.
THEOREM WritesAreApproved == Spec => []WriteNeedsApproval
<1>1. Spec => [](TypeInv /\ Gate)
  BY TypeInit, TypeNext, GateInit, GateNext, PTL DEF Spec
<1>2. Gate => WriteNeedsApproval
  BY DEF Gate
<1> QED
  BY <1>1, <1>2, PTL

-----------------------------------------------------------------------------
(* Parked jobs.  The repository's lock serialises the approvals of one      *)
(* process, which is what SingleDesk says: with two processes the SELECT    *)
(* of one may be stale when it updates.                                     *)

SingleDesk == \A d, e \in Desks : d = e

Pending(c) == calls[c].state = "waiting_for_approval"

\* A pending call parks its job and is the only one that does; the call a
\* desk is approving is still pending, and the one it has approved leaves
\* nothing pending on a job that is parked.
Parked ==
  /\ PendingCallParksJob
  /\ \A c, e \in Calls : Pending(c) /\ Pending(e) /\ calls[c].job = calls[e].job => c = e
  /\ \A d \in Desks : desk[d].pc = "approving" => Pending(desk[d].call)
  /\ \A d \in Desks :
       desk[d].pc = "requeueing" =>
         /\ jobs[calls[desk[d].call].job].state = "waiting_for_approval"
         /\ \A c \in Calls : calls[c].job = calls[desk[d].call].job => ~Pending(c)

\* Steps that leave calls and desks alone, and every job that waits.
LEMMA ParkedFrame ==
  ASSUME TypeInv, Parked, UNCHANGED <<calls, desk>>,
         \A j \in Jobs : jobs[j].state = "waiting_for_approval" =>
                           jobs'[j].state = "waiting_for_approval"
  PROVE  Parked'
<1>1. \A c \in Calls : calls[c].state # "absent" => calls[c].job \in Jobs
  BY DEF TypeInv, CallsBound
<1>2. \A d \in Desks : desk[d].pc # "idle" =>
        desk[d].call \in Calls /\ calls[desk[d].call].state # "absent"
  BY DEF TypeInv, DesksBound
<1> QED
  BY <1>1, <1>2 DEF Parked, PendingCallParksJob, Pending

LEMMA ParkedInit == Init => Parked
BY DEF Init, Parked, PendingCallParksJob, Pending, NoCall, IdleDesk

LEMMA ParkedNext == SingleDesk /\ TypeInv /\ Gate /\ Parked /\ [Next]_vars => Parked'
<1> SUFFICES ASSUME SingleDesk, TypeInv, Gate, Parked, [Next]_vars PROVE Parked'
  OBVIOUS
<1>a. /\ jobs \in [Jobs -> JobRows]
      /\ calls \in [Calls -> CallRows]
      /\ desk \in [Desks -> DeskLocals]
      /\ \A c \in Calls : calls[c].state # "absent" => calls[c].job \in Jobs
      /\ \A d \in Desks : desk[d].pc # "idle" =>
           desk[d].call \in Calls /\ calls[desk[d].call].state # "absent"
  BY DEF TypeInv, TypeOK, CallsBound, DesksBound
<1>b. \A w \in Workers : worker[w].pc # "idle" => worker[w].job \in Jobs
  BY DEF TypeInv, WorkersBound, IdleWorker
<1>c. ASSUME UNCHANGED <<jobs, calls, desk>> PROVE Parked'
  BY <1>c, ParkedFrame
<1>1. ASSUME NEW j \in Jobs, CreateJob(j) PROVE Parked'
  BY <1>1, <1>a, ParkedFrame DEF CreateJob, JobRows
<1>2. ASSUME NEW w \in Workers, Claim(w) PROVE Parked'
  BY <1>2, <1>a, ParkedFrame DEF Claim, Claimable
<1>3. ASSUME NEW w \in Workers, RequestRead(w) PROVE Parked'
  <2>1. PICK c \in Calls :
          /\ calls[c].state = "absent"
          /\ calls' = [calls EXCEPT ![c] = RequestedRow(worker[w].job, "knowledge_search", w)]
    BY <1>3 DEF RequestRead
  <2>2. worker[w].job \in Jobs
    BY <1>3, <1>b DEF RequestRead
  <2>3. /\ calls'[c].state = "ready"
        /\ \A e \in Calls : e # c => calls'[e] = calls[e]
    BY <1>a, <2>1, <2>2, RequestedRowType
  <2>4. UNCHANGED <<jobs, desk>>
    BY <1>3 DEF RequestRead
  <2> QED
    BY <1>a, <2>1, <2>3, <2>4 DEF Parked, PendingCallParksJob, Pending
<1>4. ASSUME NEW w \in Workers, RequestWrite(w) PROVE Parked'
  <2> DEFINE j == worker[w].job
  <2>1. PICK c \in Calls :
          /\ calls[c].state = "absent"
          /\ calls' = [calls EXCEPT ![c] = RequestedRow(j, "transition_issue", w)]
    BY <1>4 DEF RequestWrite
  <2>2. j \in Jobs /\ jobs[j].state = "running"
    BY <1>4, <1>b DEF RequestWrite, Holds
  <2>3. /\ calls'[c].state = "waiting_for_approval"
        /\ calls'[c].job = j
        /\ \A e \in Calls : e # c => calls'[e] = calls[e]
    BY <1>a, <2>1, <2>2, RequestedRowType
  <2>4. /\ jobs'[j].state = "waiting_for_approval"
        /\ \A k \in Jobs : k # j => jobs'[k] = jobs[k]
        /\ UNCHANGED desk
    BY <1>4, <1>a, <2>2, ParkedRowType DEF RequestWrite
  <2>5. \A e \in Calls : Pending(e) => calls[e].job \in Jobs /\ calls[e].job # j
    BY <1>a, <2>2 DEF Parked, PendingCallParksJob, Pending
  <2>6. \A d \in Desks :
          desk[d].pc # "idle" => desk[d].call # c /\ desk[d].call \in Calls
    BY <1>a, <2>1
  <2>7. \A d \in Desks :
          desk[d].pc = "requeueing" =>
            calls[desk[d].call].job # j /\ calls[desk[d].call].job \in Jobs
    BY <1>a, <2>2 DEF Parked
  <2> HIDE DEF j
  <2> QED
    BY <2>1, <2>3, <2>4, <2>5, <2>6, <2>7 DEF Parked, PendingCallParksJob, Pending
<1>5. ASSUME NEW c \in Calls, calls[c].state \in Executable \cup {"succeeded"},
             calls' = [calls EXCEPT ![c] = SucceededRow(@)],
             UNCHANGED jobs,
             \A d \in Desks : desk'[d] = desk[d] \/ desk'[d] = IdleDesk
      PROVE  Parked'
  <2>1. /\ calls'[c].state = "succeeded"
        /\ calls'[c].job = calls[c].job
        /\ \A e \in Calls : e # c => calls'[e] = calls[e]
        /\ ~Pending(c)
    BY <1>a, <1>5 DEF SucceededRow, Pending, Executable
  <2> QED
    BY <1>a, <1>5, <2>1 DEF Parked, PendingCallParksJob, Pending, IdleDesk
<1>6. ASSUME NEW w \in Workers, CompleteRead(w) PROVE Parked'
  <2>1. worker[w].call \in Calls
    BY <1>6 DEF CompleteRead, TypeInv, WorkersBound, IdleWorker
  <2> QED
    BY <1>c, <1>5, <1>6, <2>1 DEF CompleteRead, MayComplete
<1>7. ASSUME NEW w \in Workers, FinishSucceeded(w) \/ FinishFailed(w) PROVE Parked'
  BY <1>7, <1>a, ParkedFrame DEF FinishSucceeded, FinishFailed, Holds
<1>8. ASSUME NEW d \in Desks, ReadForApproval(d) PROVE Parked'
  BY <1>8, <1>a DEF ReadForApproval, MayApprove, Parked, PendingCallParksJob, Pending
<1>9. ASSUME NEW d \in Desks, ApproveCall(d) PROVE Parked'
  <2>1. /\ desk[d].call \in Calls
        /\ Pending(desk[d].call)
        /\ calls[desk[d].call].job \in Jobs
        /\ jobs[calls[desk[d].call].job].state = "waiting_for_approval"
    BY <1>9, <1>a DEF ApproveCall, Parked, PendingCallParksJob, Pending
  <2>2. /\ calls'[desk[d].call].state = "approved"
        /\ calls'[desk[d].call].job = calls[desk[d].call].job
        /\ \A e \in Calls : e # desk[d].call => calls'[e] = calls[e]
    BY <1>9, <1>a, <2>1 DEF ApproveCall, ApprovedRow
  <2>3. /\ desk'[d].pc = "requeueing"
        /\ desk'[d].call = desk[d].call
        /\ \A e \in Desks : e = d
        /\ UNCHANGED jobs
    BY <1>9, <1>a DEF ApproveCall, DeskLocals, SingleDesk
  <2> QED
    BY <2>1, <2>2, <2>3 DEF Parked, PendingCallParksJob, Pending
<1>10. ASSUME NEW d \in Desks, RequeueJob(d) PROVE Parked'
  <2>1. /\ desk[d].call \in Calls
        /\ calls[desk[d].call].job \in Jobs
        /\ \A c \in Calls : calls[c].job = calls[desk[d].call].job => ~Pending(c)
    BY <1>10, <1>a DEF RequeueJob, Parked
  <2>2. /\ \A k \in Jobs : k # calls[desk[d].call].job => jobs'[k] = jobs[k]
        /\ UNCHANGED calls
        /\ \A e \in Desks : desk'[e].pc = "idle"
    BY <1>10, <1>a DEF RequeueJob, SingleDesk, IdleDesk
  <2> QED
    BY <1>a, <2>1, <2>2 DEF Parked, PendingCallParksJob, Pending
<1>11. ASSUME NEW d \in Desks, ReadForCompletion(d) PROVE Parked'
  BY <1>11, <1>a DEF ReadForCompletion, Parked, PendingCallParksJob, Pending
<1>12. ASSUME NEW d \in Desks, CompleteCall(d) PROVE Parked'
  <2>1. /\ desk[d].call \in Calls
        /\ calls[desk[d].call].state \in Executable \cup {"succeeded"}
    BY <1>12, <1>a DEF CompleteCall, Gate
  <2> QED
    BY <1>5, <1>12, <1>a, <2>1 DEF CompleteCall
<1>13. ASSUME NEW d \in Desks, DeskCrash(d) PROVE Parked'
  BY <1>13, <1>a DEF DeskCrash, IdleDesk, Parked, PendingCallParksJob, Pending
<1>14. ASSUME Tick PROVE Parked'
  BY <1>14, <1>a, ParkedFrame DEF Tick, JobRows
<1> QED
  BY <1>c, <1>1, <1>2, <1>3, <1>4, <1>6, <1>7, <1>8, <1>9, <1>10, <1>11, <1>12,
     <1>13, <1>14
  DEF Next, WorkerStep, DeskStep, Answer, Raise, RequestConflict, WorkerCrash, vars

LEMMA ParkedAlways == ASSUME SingleDesk PROVE Spec => [](TypeInv /\ Gate /\ Parked)
<1>1. TypeInv /\ Gate /\ Parked /\ [Next]_vars => Parked'
  BY ParkedNext
<1> QED
  BY <1>1, TypeInit, TypeNext, GateInit, GateNext, ParkedInit, PTL DEF Spec

\* When approvals are serialised, a call that waits for a human keeps its job
\* out of every worker's reach, also when the approving process dies.
THEOREM PendingCallsPark == ASSUME SingleDesk PROVE Spec => []PendingCallParksJob
<1>1. Parked => PendingCallParksJob
  BY DEF Parked
<1> QED
  BY <1>1, ParkedAlways, PTL

\* No step takes a call out of the state "succeeded".
LEMMA FinalNext == TypeInv /\ Parked /\ [Next]_vars => [FinalStep]_vars
<1> SUFFICES ASSUME TypeInv, Parked, Next,
                    NEW c \in Calls, calls[c].state = "succeeded"
             PROVE  calls'[c].state = "succeeded"
  BY DEF FinalStep
<1>1. calls \in [Calls -> CallRows]
  BY DEF TypeInv, TypeOK
<1>2. ASSUME UNCHANGED calls PROVE calls'[c].state = "succeeded"
  BY <1>2
<1>3. ASSUME NEW w \in Workers, RequestRead(w) \/ RequestWrite(w)
      PROVE  calls'[c].state = "succeeded"
  BY <1>1, <1>3 DEF RequestRead, RequestWrite
<1>4. ASSUME NEW w \in Workers, CompleteRead(w) PROVE calls'[c].state = "succeeded"
  BY <1>1, <1>4 DEF CompleteRead, SucceededRow
<1>5. ASSUME NEW d \in Desks, ApproveCall(d) PROVE calls'[c].state = "succeeded"
  <2>1. desk[d].call # c
    BY <1>5 DEF ApproveCall, Parked, Pending
  <2> QED
    BY <1>1, <1>5, <2>1 DEF ApproveCall
<1>6. ASSUME NEW d \in Desks, CompleteCall(d) PROVE calls'[c].state = "succeeded"
  BY <1>1, <1>6 DEF CompleteCall, SucceededRow
<1> QED
  BY <1>2, <1>3, <1>4, <1>5, <1>6
  DEF Next, WorkerStep, DeskStep, CreateJob, Claim, Answer, Raise, RequestConflict,
      FinishSucceeded, FinishFailed, WorkerCrash, ReadForApproval, RequeueJob,
      ReadForCompletion, DeskCrash, Tick

\* When approvals are serialised, an executed call is never made executable
\* again, so its effect is not repeated.
THEOREM SucceededCallsFinal == ASSUME SingleDesk PROVE Spec => SucceededCallIsFinal
BY ParkedAlways, FinalNext, PTL DEF Spec, SucceededCallIsFinal

-----------------------------------------------------------------------------
(* Refinement: with one desk that does not die, the job table implements    *)
(* JobLifecycle.                                                            *)

Sturdy == SingleDesk /\ Fragile = {}

LEMMA LifecycleInit == Init => Lifecycle!Init
BY DEF Init, Lifecycle!Init, ParkedOn, NoJob, NoCall, IdleDesk

LEMMA LifecycleNext ==
  Sturdy /\ TypeInv /\ Gate /\ Parked /\ [Next]_vars => [Lifecycle!Next]_(Lifecycle!vars)
<1> SUFFICES ASSUME Sturdy, TypeInv, Gate, Parked, [Next]_vars
             PROVE  [Lifecycle!Next]_(Lifecycle!vars)
  OBVIOUS
<1> DEFINE Status == [j \in Jobs |-> jobs[j].state]
           Tries  == [j \in Jobs |-> jobs[j].attempt]
           Gates  == [j \in Jobs |-> ParkedOn(j)]
<1>a. /\ jobs \in [Jobs -> JobRows]
      /\ calls \in [Calls -> CallRows]
      /\ desk \in [Desks -> DeskLocals]
      /\ \A c \in Calls : calls[c].state # "absent" => calls[c].job \in Jobs
      /\ \A d \in Desks : desk[d].pc # "idle" =>
           desk[d].call \in Calls /\ calls[desk[d].call].state # "absent"
  BY DEF TypeInv, TypeOK, CallsBound, DesksBound
<1>b. \A w \in Workers : worker[w].pc # "idle" => worker[w].job \in Jobs
  BY DEF TypeInv, WorkersBound, IdleWorker
<1>c. ASSUME UNCHANGED <<calls, desk>> PROVE UNCHANGED Gates
  BY <1>c DEF ParkedOn
<1>d. ASSUME UNCHANGED jobs, UNCHANGED Gates PROVE UNCHANGED Lifecycle!vars
  BY <1>d DEF Lifecycle!vars
<1>e. ASSUME UNCHANGED jobs, UNCHANGED <<calls, desk>> PROVE UNCHANGED Lifecycle!vars
  BY <1>c, <1>d, <1>e
<1>f. ASSUME UNCHANGED jobs,
             \A c \in Calls, j \in Jobs : c \in ParkedOn(j)' <=> c \in ParkedOn(j)
      PROVE  UNCHANGED Lifecycle!vars
  <2>1. \A j \in Jobs : ParkedOn(j)' = ParkedOn(j)
    BY <1>f DEF ParkedOn
  <2> QED
    BY <1>d, <1>f, <2>1
<1>1. ASSUME NEW j \in Jobs, CreateJob(j) PROVE Lifecycle!Submit(j)
  <2>1. /\ jobs'[j].state = "queued" /\ jobs'[j].attempt = jobs[j].attempt
        /\ \A k \in Jobs : k # j => jobs'[k] = jobs[k]
    BY <1>1, <1>a DEF CreateJob, JobRows
  <2>2. Status' = [Status EXCEPT ![j] = "queued"] /\ UNCHANGED Tries
    BY <2>1
  <2>3. UNCHANGED Gates
    BY <1>1, <1>c DEF CreateJob
  <2> QED
    BY <1>1, <2>2, <2>3 DEF CreateJob, Lifecycle!Submit
<1>2. ASSUME NEW w \in Workers, Claim(w) PROVE \E j \in Jobs : Lifecycle!Start(j)
  <2>1. PICK j \in Jobs :
          /\ Claimable(jobs[j], MaxAttempts[j])
          /\ jobs' = [jobs EXCEPT ![j] = ClaimedRow(@, w)]
    BY <1>2 DEF Claim
  <2>2. /\ jobs'[j].state = "running" /\ jobs'[j].attempt = jobs[j].attempt + 1
        /\ \A k \in Jobs : k # j => jobs'[k] = jobs[k]
    BY <1>a, <2>1, ClaimedRowType
  <2>3. Status' = [Status EXCEPT ![j] = "running"]
    BY <2>2
  <2>4. Tries' = [Tries EXCEPT ![j] = @ + 1]
    BY <2>2
  <2>5. UNCHANGED Gates
    BY <1>2, <1>c DEF Claim
  <2> QED
    BY <2>1, <2>3, <2>4, <2>5 DEF Claimable, Lifecycle!Start
<1>3. ASSUME NEW w \in Workers, RequestRead(w) PROVE UNCHANGED Lifecycle!vars
  <2>1. PICK c \in Calls :
          /\ calls[c].state = "absent"
          /\ calls' = [calls EXCEPT ![c] = RequestedRow(worker[w].job, "knowledge_search", w)]
    BY <1>3 DEF RequestRead
  <2>2. worker[w].job \in Jobs
    BY <1>3, <1>b DEF RequestRead
  <2>3. /\ calls'[c].state = "ready"
        /\ \A e \in Calls : e # c => calls'[e] = calls[e]
        /\ \A d \in Desks : desk[d].pc # "idle" => desk[d].call # c
    BY <1>a, <2>1, <2>2, RequestedRowType
  <2>4. UNCHANGED <<jobs, desk>>
    BY <1>3 DEF RequestRead
  <2>5. \A e \in Calls, j \in Jobs : e \in ParkedOn(j)' <=> e \in ParkedOn(j)
    BY <2>1, <2>3, <2>4 DEF ParkedOn
  <2> QED
    BY <1>f, <2>4, <2>5
<1>4. ASSUME NEW w \in Workers, RequestWrite(w)
      PROVE  \E j \in Jobs, c \in Calls : Lifecycle!Park(j, c)
  <2>0. PICK j \in Jobs : j = worker[w].job
    BY <1>4, <1>b DEF RequestWrite
  <2>1. PICK c \in Calls :
          /\ calls[c].state = "absent"
          /\ calls' = [calls EXCEPT ![c] = RequestedRow(j, "transition_issue", w)]
    BY <1>4, <2>0 DEF RequestWrite
  <2>2. jobs[j].state = "running"
    BY <1>4, <2>0 DEF RequestWrite, Holds
  <2>3. /\ calls'[c].state = "waiting_for_approval"
        /\ calls'[c].job = j
        /\ \A e \in Calls : e # c => calls'[e] = calls[e]
    BY <1>a, <2>1, <2>2, RequestedRowType
  <2>4. /\ jobs'[j].state = "waiting_for_approval"
        /\ jobs'[j].attempt = jobs[j].attempt
        /\ \A k \in Jobs : k # j => jobs'[k] = jobs[k]
        /\ UNCHANGED desk
    BY <1>4, <1>a, <2>0, ParkedRowType DEF RequestWrite
  <2>5. \A k \in Jobs : c \notin ParkedOn(k)
    BY <1>a, <2>1 DEF ParkedOn
  <2>6. ParkedOn(j) = {}
    BY <1>a, <2>2 DEF ParkedOn, Parked, PendingCallParksJob, Pending
  <2>7. ParkedOn(j)' = {c}
    <3>1. \A e \in Calls : e # c => (e \in ParkedOn(j)' <=> e \in ParkedOn(j))
      BY <2>3, <2>4 DEF ParkedOn
    <3>2. c \in ParkedOn(j)' /\ ParkedOn(j)' \subseteq Calls
      BY <2>3 DEF ParkedOn
    <3> QED
      BY <2>6, <3>1, <3>2
  <2>8. \A k \in Jobs : k # j => ParkedOn(k)' = ParkedOn(k)
    <3> SUFFICES ASSUME NEW k \in Jobs, k # j, NEW e \in Calls
                 PROVE  e \in ParkedOn(k)' <=> e \in ParkedOn(k)
      BY DEF ParkedOn
    <3>1. CASE e = c
      BY <2>3, <2>5, <3>1 DEF ParkedOn
    <3>2. CASE e # c
      BY <2>3, <2>4, <3>2 DEF ParkedOn
    <3> QED
      BY <3>1, <3>2
  <2>9. /\ Status' = [Status EXCEPT ![j] = "waiting_for_approval"]
        /\ UNCHANGED Tries
        /\ Gates' = [Gates EXCEPT ![j] = {c}]
    BY <2>4, <2>7, <2>8
  <2>10. Lifecycle!Park(j, c)
    BY <2>2, <2>5, <2>9 DEF Lifecycle!Park
  <2> QED
    BY <2>2, <2>10
<1>5. ASSUME NEW c \in Calls, calls[c].state \in Executable \cup {"succeeded"},
             calls' = [calls EXCEPT ![c] = SucceededRow(@)],
             UNCHANGED jobs,
             \A d \in Desks : \/ desk'[d] = desk[d]
                              \/ desk[d].pc # "requeueing" /\ desk'[d] = IdleDesk
      PROVE  UNCHANGED Lifecycle!vars
  <2>1. /\ calls'[c].state = "succeeded"
        /\ calls'[c].job = calls[c].job
        /\ calls[c].state # "waiting_for_approval"
        /\ \A e \in Calls : e # c => calls'[e] = calls[e]
    BY <1>a, <1>5 DEF SucceededRow, Executable
  <2>2. \A e \in Calls, j \in Jobs : e \in ParkedOn(j)' <=> e \in ParkedOn(j)
    BY <1>5, <2>1 DEF ParkedOn, IdleDesk
  <2> QED
    BY <1>5, <1>f, <2>2
<1>6. ASSUME NEW w \in Workers, CompleteRead(w) PROVE UNCHANGED Lifecycle!vars
  <2>1. worker[w].call \in Calls
    BY <1>6 DEF CompleteRead, TypeInv, WorkersBound, IdleWorker
  <2> QED
    <3>1. CASE MayComplete(calls[worker[w].call])
      BY <1>5, <1>6, <2>1, <3>1 DEF CompleteRead, MayComplete
    <3>2. CASE ~MayComplete(calls[worker[w].call])
      BY <1>e, <1>6, <3>2 DEF CompleteRead
    <3> QED
      BY <3>1, <3>2
<1>7. ASSUME NEW w \in Workers, NEW state \in Terminal, worker[w].pc # "idle",
             Holds(jobs[worker[w].job], w),
             jobs' = [jobs EXCEPT ![worker[w].job] = FinishedRow(@, state)],
             UNCHANGED <<calls, desk>>
      PROVE  \E j \in Jobs : Lifecycle!Finish(j)
  <2>0. PICK j \in Jobs : j = worker[w].job
    BY <1>7, <1>b
  <2>1. /\ jobs[j].state = "running"
        /\ jobs'[j].state = state /\ jobs'[j].attempt = jobs[j].attempt
        /\ \A k \in Jobs : k # j => jobs'[k] = jobs[k]
    BY <1>7, <1>a, <2>0, FinishedRowType DEF Holds
  <2>2. Status' = [Status EXCEPT ![j] = state] /\ UNCHANGED Tries
    BY <2>1
  <2>3. UNCHANGED Gates
    BY <1>7, <1>c
  <2> QED
    BY <2>1, <2>2, <2>3 DEF Lifecycle!Finish, Lifecycle!Outcomes, Terminal
<1>8. ASSUME NEW w \in Workers, FinishSucceeded(w) \/ FinishFailed(w)
      PROVE  (\E j \in Jobs : Lifecycle!Finish(j)) \/ UNCHANGED Lifecycle!vars
  BY <1>7, <1>8, <1>e DEF FinishSucceeded, FinishFailed, Terminal
<1>9. ASSUME NEW d \in Desks, ReadForApproval(d) \/ ReadForCompletion(d)
      PROVE  UNCHANGED Lifecycle!vars
  <2>1. UNCHANGED <<jobs, calls>>
    BY <1>9 DEF ReadForApproval, ReadForCompletion
  <2>2. \A e \in Desks : \/ desk'[e] = desk[e]
                         \/ desk[e].pc # "requeueing" /\ desk'[e].pc # "requeueing"
    <3>1. PICK l \in DeskLocals : desk' = [desk EXCEPT ![d] = l] /\ l.pc # "requeueing"
      BY <1>9 DEF ReadForApproval, ReadForCompletion, DeskLocals
    <3>2. desk[d].pc = "idle"
      BY <1>9 DEF ReadForApproval, ReadForCompletion
    <3> QED
      BY <1>a, <3>1, <3>2
  <2>3. \A c \in Calls, j \in Jobs : c \in ParkedOn(j)' <=> c \in ParkedOn(j)
    BY <2>1, <2>2 DEF ParkedOn
  <2> QED
    BY <1>f, <2>1, <2>3
<1>10. ASSUME NEW d \in Desks, ApproveCall(d) PROVE UNCHANGED Lifecycle!vars
  <2>1. /\ desk[d].call \in Calls
        /\ Pending(desk[d].call)
        /\ desk[d].pc = "approving"
    BY <1>10, <1>a DEF ApproveCall, Parked
  <2>2. /\ calls'[desk[d].call].state = "approved"
        /\ calls'[desk[d].call].job = calls[desk[d].call].job
        /\ \A e \in Calls : e # desk[d].call => calls'[e] = calls[e]
    BY <1>10, <1>a, <2>1 DEF ApproveCall, ApprovedRow
  <2>3. /\ desk'[d].pc = "requeueing"
        /\ desk'[d].call = desk[d].call
        /\ \A e \in Desks : e = d
        /\ UNCHANGED jobs
    BY <1>10, <1>a DEF ApproveCall, DeskLocals, Sturdy, SingleDesk
  <2>4. \A c \in Calls, j \in Jobs : c \in ParkedOn(j)' <=> c \in ParkedOn(j)
    BY <2>1, <2>2, <2>3 DEF ParkedOn, Pending
  <2> QED
    BY <1>f, <2>3, <2>4
<1>11. ASSUME NEW d \in Desks, RequeueJob(d) PROVE \E j \in Jobs : Lifecycle!Release(j)
  <2>0. PICK j \in Jobs : j = calls[desk[d].call].job
    BY <1>11, <1>a DEF RequeueJob
  <2>1. /\ desk[d].call \in Calls
        /\ jobs[j].state = "waiting_for_approval"
        /\ \A c \in Calls : calls[c].job = j => ~Pending(c)
    BY <1>11, <1>a, <2>0 DEF RequeueJob, Parked
  <2>2. /\ jobs'[j].state = "queued" /\ jobs'[j].attempt = jobs[j].attempt
        /\ \A k \in Jobs : k # j => jobs'[k] = jobs[k]
        /\ UNCHANGED calls
        /\ \A e \in Desks : e = d /\ desk'[e].pc = "idle"
    BY <1>11, <1>a, <2>0, <2>1, RequeuedRowType DEF RequeueJob, Sturdy, SingleDesk, IdleDesk
  <2>3. ParkedOn(j)' = {}
    BY <2>1, <2>2 DEF ParkedOn, Pending
  <2>4. ASSUME NEW k \in Jobs, k # j PROVE ParkedOn(k)' = ParkedOn(k)
    BY <2>0, <2>2, <2>4 DEF ParkedOn
  <2>5. /\ Status' = [Status EXCEPT ![j] = "queued"]
        /\ UNCHANGED Tries
        /\ Gates' = [Gates EXCEPT ![j] = {}]
    BY <2>1, <2>2, <2>3, <2>4
  <2>6. Lifecycle!Release(j)
    BY <2>1, <2>5 DEF Lifecycle!Release
  <2> QED
    BY <2>1, <2>6
<1>12. ASSUME NEW d \in Desks, CompleteCall(d) PROVE UNCHANGED Lifecycle!vars
  <2>1. /\ desk[d].call \in Calls
        /\ calls[desk[d].call].state \in Executable \cup {"succeeded"}
    BY <1>12, <1>a DEF CompleteCall, Gate
  <2>2. \A e \in Desks : \/ desk'[e] = desk[e]
                         \/ desk[e].pc # "requeueing" /\ desk'[e] = IdleDesk
    BY <1>12, <1>a DEF CompleteCall
  <2> QED
    BY <1>5, <1>12, <2>1, <2>2 DEF CompleteCall
<1>13. ASSUME NEW d \in Desks, DeskCrash(d) PROVE FALSE
  BY <1>13 DEF DeskCrash, Sturdy
<1>14. ASSUME Tick PROVE UNCHANGED Lifecycle!vars
  <2>1. UNCHANGED <<Status, Tries>>
    BY <1>14, <1>a DEF Tick, JobRows
  <2> QED
    BY <1>14, <1>c, <2>1 DEF Tick, Lifecycle!vars
<1>15. ASSUME NEW w \in Workers,
              \/ Answer(w)
              \/ Raise(w)
              \/ RequestConflict(w)
              \/ WorkerCrash(w)
       PROVE  UNCHANGED Lifecycle!vars
  BY <1>15, <1>e DEF Answer, Raise, RequestConflict, WorkerCrash
<1>16. CASE UNCHANGED vars
  BY <1>16, <1>e DEF vars
<1> HIDE DEF Status, Tries, Gates
<1> QED
  BY <1>1, <1>2, <1>3, <1>4, <1>6, <1>8, <1>9, <1>10, <1>11, <1>12, <1>13, <1>14,
     <1>15, <1>16 DEF Next, WorkerStep, DeskStep, Lifecycle!Next

\* Driven by one approving process that does not die between its updates, the
\* job table moves only along the lifecycle: each claim costs an attempt, each
\* approval requeues its job once, only a running job ends.
THEOREM LifecycleImplemented == ASSUME Sturdy PROVE Spec => ImplementsLifecycle
<1>1. Spec => [](TypeInv /\ Gate /\ Parked)
  BY ParkedAlways DEF Sturdy
<1>2. TypeInv /\ Gate /\ Parked /\ [Next]_vars => [Lifecycle!Next]_(Lifecycle!vars)
  BY LifecycleNext
<1> QED
  BY <1>1, <1>2, LifecycleInit, PTL DEF Spec, ImplementsLifecycle, Lifecycle!Spec

-----------------------------------------------------------------------------
(* Used-up budgets *)

\* Some worker is at work on job j and may still write to it.
Worked(j) ==
  \E w \in Workers :
    worker[w].pc # "idle" /\ worker[w].job = j /\ jobs[j].lease_owner = w

\* Job j is queued or running, has no attempt left, and nobody is at work on it.
Spent(j) ==
  /\ jobs[j].state \in {"queued", "running"}
  /\ jobs[j].attempt = MaxAttempts[j]
  /\ ~Worked(j)

SpentStep == \A j \in Jobs : Spent(j) => Spent(j)' /\ jobs'[j].state = jobs[j].state

LEMMA SpentNext == TypeInv /\ [Next]_vars => [SpentStep]_vars
<1> SUFFICES ASSUME TypeInv, Next, NEW j \in Jobs, Spent(j)
             PROVE  Spent(j)' /\ jobs'[j].state = jobs[j].state
  BY DEF SpentStep
<1>a. /\ jobs \in [Jobs -> JobRows]
      /\ worker \in [Workers -> WorkerLocals]
      /\ jobs[j].attempt \in Nat
  BY DEF TypeInv, TypeOK, JobRows
<1>b. \A w \in Workers : worker[w].pc # "idle" => worker[w].job \in Jobs
  BY DEF TypeInv, WorkersBound, IdleWorker
\* A worker whose guard Holds succeeds is at work on its job: not on j.
<1>c. ASSUME NEW w \in Workers, worker[w].pc # "idle", Holds(jobs[worker[w].job], w)
      PROVE  worker[w].job # j
  BY <1>c DEF Spent, Worked, Holds
<1>d. ASSUME /\ jobs'[j].state = jobs[j].state
             /\ jobs'[j].attempt = jobs[j].attempt
             /\ jobs'[j].lease_owner = jobs[j].lease_owner,
             \A w \in Workers :
               worker'[w].pc # "idle" /\ worker'[w].job = j =>
                 worker[w].pc # "idle" /\ worker[w].job = j
      PROVE  Spent(j)' /\ jobs'[j].state = jobs[j].state
  BY <1>d DEF Spent, Worked
<1>e. ASSUME NEW w \in Workers, worker[w].pc # "idle",
             \/ worker' = [worker EXCEPT ![w] = IdleWorker]
             \/ worker'[w].job = worker[w].job,
             \A v \in Workers : v # w => worker'[v] = worker[v]
      PROVE  \A v \in Workers :
               worker'[v].pc # "idle" /\ worker'[v].job = j =>
                 worker[v].pc # "idle" /\ worker[v].job = j
  BY <1>e, <1>a DEF IdleWorker
<1>1. ASSUME NEW k \in Jobs, CreateJob(k) PROVE Spent(j)' /\ jobs'[j].state = jobs[j].state
  <2>1. k # j
    BY <1>1 DEF CreateJob, Spent
  <2> QED
    BY <1>1, <1>a, <1>d, <2>1 DEF CreateJob
<1>2. ASSUME NEW w \in Workers, Claim(w) PROVE Spent(j)' /\ jobs'[j].state = jobs[j].state
  <2>1. PICK k \in Jobs :
          /\ Claimable(jobs[k], MaxAttempts[k])
          /\ jobs' = [jobs EXCEPT ![k] = ClaimedRow(@, w)]
          /\ worker' = [worker EXCEPT ![w] =
               [pc |-> "claimed", job |-> k, attempt |-> jobs'[k].attempt, call |-> None]]
    BY <1>2 DEF Claim
  <2>2. k # j
    BY <2>1, <1>a DEF Claimable, Spent
  <2> QED
    BY <1>a, <1>d, <2>1, <2>2
<1>3. ASSUME NEW w \in Workers, Answer(w) \/ Raise(w) \/ RequestConflict(w) \/ WorkerCrash(w)
      PROVE  Spent(j)' /\ jobs'[j].state = jobs[j].state
  <2>1. /\ worker[w].pc # "idle" /\ UNCHANGED jobs
        /\ \E pc \in {"finishing", "failing"} :
             \/ worker' = [worker EXCEPT ![w].pc = pc]
             \/ worker' = [worker EXCEPT ![w] = IdleWorker]
    BY <1>3 DEF Answer, Raise, RequestConflict, WorkerCrash
  <2>2. \/ worker' = [worker EXCEPT ![w] = IdleWorker]
        \/ worker'[w].job = worker[w].job
    BY <1>a, <2>1 DEF WorkerLocals
  <2>3. \A v \in Workers : v # w => worker'[v] = worker[v]
    BY <1>a, <2>1
  <2> QED
    BY <1>d, <1>e, <2>1, <2>2, <2>3
<1>4. ASSUME NEW w \in Workers, RequestRead(w)
      PROVE  Spent(j)' /\ jobs'[j].state = jobs[j].state
  BY <1>4, <1>a, <1>d, <1>e DEF RequestRead
<1>5. ASSUME NEW w \in Workers, CompleteRead(w)
      PROVE  Spent(j)' /\ jobs'[j].state = jobs[j].state
  <2>1. /\ worker[w].pc # "idle" /\ UNCHANGED jobs
        /\ \E pc \in {"finishing", "failing"} : worker' = [worker EXCEPT ![w].pc = pc]
    BY <1>5 DEF CompleteRead
  <2>2. worker'[w].job = worker[w].job /\ \A v \in Workers : v # w => worker'[v] = worker[v]
    BY <1>a, <2>1 DEF WorkerLocals
  <2> QED
    BY <1>d, <1>e, <2>1, <2>2
<1>6. ASSUME NEW w \in Workers, RequestWrite(w)
      PROVE  Spent(j)' /\ jobs'[j].state = jobs[j].state
  <2>1. /\ worker[w].pc # "idle" /\ worker[w].job # j
        /\ jobs' = [jobs EXCEPT ![worker[w].job] = ParkedRow(@)]
        /\ \/ worker' = [worker EXCEPT ![w] = IdleWorker]
           \/ worker' = [worker EXCEPT ![w].pc = "finishing"]
    BY <1>6, <1>c DEF RequestWrite
  <2>2. \/ worker' = [worker EXCEPT ![w] = IdleWorker]
        \/ worker'[w].job = worker[w].job
    BY <1>a, <2>1 DEF WorkerLocals
  <2>3. \A v \in Workers : v # w => worker'[v] = worker[v]
    BY <1>a, <2>1
  <2>4. jobs'[j] = jobs[j]
    BY <1>a, <2>1
  <2> QED
    BY <1>d, <1>e, <2>1, <2>2, <2>3, <2>4
<1>7. ASSUME NEW w \in Workers, FinishSucceeded(w) \/ FinishFailed(w)
      PROVE  Spent(j)' /\ jobs'[j].state = jobs[j].state
  <2>1. /\ worker[w].pc # "idle"
        /\ \/ worker' = [worker EXCEPT ![w] = IdleWorker]
           \/ worker' = [worker EXCEPT ![w].pc = "failing"]
    BY <1>7 DEF FinishSucceeded, FinishFailed
  <2>2. \/ UNCHANGED jobs
        \/ /\ Holds(jobs[worker[w].job], w)
           /\ \E state \in Terminal :
                jobs' = [jobs EXCEPT ![worker[w].job] = FinishedRow(@, state)]
    BY <1>7 DEF FinishSucceeded, FinishFailed, Terminal
  <2>3. jobs'[j] = jobs[j]
    BY <1>a, <1>c, <2>1, <2>2
  <2>4. \/ worker' = [worker EXCEPT ![w] = IdleWorker]
        \/ worker'[w].job = worker[w].job
    BY <1>a, <2>1 DEF WorkerLocals
  <2>5. \A v \in Workers : v # w => worker'[v] = worker[v]
    BY <1>a, <2>1
  <2> QED
    BY <1>d, <1>e, <2>1, <2>3, <2>4, <2>5
<1>8. ASSUME NEW d \in Desks,
             ReadForApproval(d) \/ ApproveCall(d) \/ ReadForCompletion(d) \/ CompleteCall(d)
               \/ DeskCrash(d)
      PROVE  Spent(j)' /\ jobs'[j].state = jobs[j].state
  BY <1>8, <1>d DEF ReadForApproval, ApproveCall, ReadForCompletion, CompleteCall, DeskCrash
<1>9. ASSUME NEW d \in Desks, RequeueJob(d)
      PROVE  Spent(j)' /\ jobs'[j].state = jobs[j].state
  <2>1. jobs'[j] = jobs[j]
    BY <1>9, <1>a DEF RequeueJob, RequeuedRow, Spent
  <2> QED
    BY <1>9, <1>d, <2>1 DEF RequeueJob
<1>10. CASE Tick
  <2>1. /\ jobs'[j].state = jobs[j].state
        /\ jobs'[j].attempt = jobs[j].attempt
        /\ jobs'[j].lease_owner = jobs[j].lease_owner
    BY <1>10, <1>a DEF Tick, JobRows
  <2> QED
    BY <1>10, <1>d, <2>1 DEF Tick
<1> QED
  BY <1>1, <1>2, <1>3, <1>4, <1>5, <1>6, <1>7, <1>8, <1>9, <1>10
  DEF Next, WorkerStep, DeskStep

\* A job without an attempt left that nobody is at work on is never touched
\* again: neither one whose worker died on the last attempt, nor one that waited
\* for a human and was approved.  claim_agent_job asks attempt < max_attempts of
\* queued and running jobs alike, and no statement fails the others.  This is
\* what the run agent_jobs_stranded finds, for every number of jobs and workers.
THEOREM SpentJobsStay == Spec => [][SpentStep]_vars
<1>1. Spec => []TypeInv
  BY TypeInit, TypeNext, PTL DEF Spec
<1> QED
  BY <1>1, SpentNext, PTL DEF Spec

-----------------------------------------------------------------------------
(* Lost approvals *)

\* Job j waits for a human, but no call of it does, and no desk is about to
\* requeue it.
Lost(j) ==
  /\ jobs[j].state = "waiting_for_approval"
  /\ \A c \in Calls : calls[c].job = j => calls[c].state # "waiting_for_approval"
  /\ \A d \in Desks :
       desk[d].pc \in {"approving", "requeueing"} => calls[desk[d].call].job # j

LostStep == \A j \in Jobs : Lost(j) => Lost(j)'

LEMMA LostNext == TypeInv /\ [Next]_vars => [LostStep]_vars
<1> SUFFICES ASSUME TypeInv, Next, NEW j \in Jobs, Lost(j) PROVE Lost(j)'
  BY DEF LostStep
<1> DEFINE Acting(d) == desk[d].pc \in {"approving", "requeueing"}
<1>a. /\ jobs \in [Jobs -> JobRows]
      /\ calls \in [Calls -> CallRows]
      /\ worker \in [Workers -> WorkerLocals]
      /\ desk \in [Desks -> DeskLocals]
  BY DEF TypeInv, TypeOK
<1>b. \A d \in Desks : Acting(d) =>
        /\ desk[d].call \in Calls
        /\ calls[desk[d].call].state # "absent"
        /\ calls[desk[d].call].job # j
  BY DEF TypeInv, DesksBound, Lost
<1>c. \A w \in Workers : Holds(jobs[worker[w].job], w) => worker[w].job # j
  BY DEF Lost, Holds
\* What every step keeps: the job, the calls that wait, the calls desks act on.
<1>d. ASSUME jobs'[j].state = jobs[j].state,
             \A c \in Calls :
               \/ calls'[c] = calls[c]
               \/ calls'[c].job = calls[c].job /\ calls'[c].state # "waiting_for_approval"
               \/ calls[c].state = "absent" /\ calls'[c].job # j,
             \A d \in Desks : Acting(d)' =>
               /\ desk'[d].call \in Calls
               /\ calls[desk'[d].call].state # "absent"
               /\ calls[desk'[d].call].job # j
      PROVE  Lost(j)'
  BY <1>d DEF Lost
<1>e. ASSUME UNCHANGED <<calls, desk>>, jobs'[j].state = jobs[j].state PROVE Lost(j)'
  BY <1>e DEF Lost
<1>1. ASSUME NEW k \in Jobs, CreateJob(k) PROVE Lost(j)'
  <2>1. k # j
    BY <1>1 DEF CreateJob, Lost
  <2> QED
    BY <1>1, <1>a, <1>e, <2>1 DEF CreateJob
<1>2. ASSUME NEW w \in Workers, Claim(w) PROVE Lost(j)'
  <2>1. PICK k \in Jobs :
          Claimable(jobs[k], MaxAttempts[k]) /\ jobs' = [jobs EXCEPT ![k] = ClaimedRow(@, w)]
    BY <1>2 DEF Claim
  <2>2. k # j
    BY <2>1 DEF Claimable, Lost
  <2> QED
    BY <1>2, <1>a, <1>e, <2>1, <2>2 DEF Claim
<1>3. ASSUME NEW w \in Workers, Answer(w) \/ Raise(w) \/ RequestConflict(w) \/ WorkerCrash(w)
      PROVE  Lost(j)'
  BY <1>3, <1>e DEF Answer, Raise, RequestConflict, WorkerCrash
<1>4. ASSUME NEW w \in Workers, NEW tool \in {"knowledge_search", "transition_issue"},
             worker[w].pc # "idle", worker[w].job # j, UNCHANGED desk,
             \E c \in Calls :
               /\ calls[c].state = "absent"
               /\ calls' = [calls EXCEPT ![c] = RequestedRow(worker[w].job, tool, w)],
             jobs'[j] = jobs[j]
      PROVE  Lost(j)'
  <2>1. PICK c \in Calls :
          /\ calls[c].state = "absent"
          /\ calls' = [calls EXCEPT ![c] = RequestedRow(worker[w].job, tool, w)]
    BY <1>4
  <2>2. worker[w].job \in Jobs
    BY <1>4 DEF TypeInv, WorkersBound, IdleWorker
  <2>3. calls'[c].job # j
    BY <1>4, <1>a, <2>1, <2>2, RequestedRowType
  <2>4. \A k \in Calls \ {c} : calls'[k] = calls[k]
    BY <1>a, <2>1
  <2> QED
    BY <1>4, <1>b, <1>d, <2>1, <2>3, <2>4
<1>5. ASSUME NEW w \in Workers, RequestRead(w) PROVE Lost(j)'
  BY <1>5, <1>c, <1>4 DEF RequestRead
<1>6. ASSUME NEW w \in Workers, RequestWrite(w) PROVE Lost(j)'
  <2>1. worker[w].job # j /\ jobs' = [jobs EXCEPT ![worker[w].job] = ParkedRow(@)]
    BY <1>6, <1>c DEF RequestWrite
  <2>2. jobs'[j] = jobs[j]
    BY <1>a, <2>1
  <2> QED
    BY <1>6, <1>4, <2>1, <2>2 DEF RequestWrite
<1>7. ASSUME NEW c \in Calls,
             \/ calls' = [calls EXCEPT ![c] = SucceededRow(@)]
             \/ UNCHANGED calls,
             UNCHANGED jobs,
             \A d \in Desks : Acting(d)' => desk'[d] = desk[d]
      PROVE  Lost(j)'
  <2>1. \A k \in Calls :
          \/ calls'[k] = calls[k]
          \/ calls'[k].job = calls[k].job /\ calls'[k].state # "waiting_for_approval"
    BY <1>7, <1>a DEF SucceededRow
  <2> QED
    BY <1>7, <1>b, <1>d, <2>1
<1>8. ASSUME NEW w \in Workers, CompleteRead(w) PROVE Lost(j)'
  <2>1. worker[w].call \in Calls
    BY <1>8 DEF CompleteRead, TypeInv, WorkersBound, IdleWorker
  <2> QED
    BY <1>8, <1>7, <2>1 DEF CompleteRead
<1>9. ASSUME NEW w \in Workers, FinishSucceeded(w) \/ FinishFailed(w) PROVE Lost(j)'
  <2>1. \/ UNCHANGED jobs
        \/ /\ Holds(jobs[worker[w].job], w)
           /\ \E state \in Terminal :
                jobs' = [jobs EXCEPT ![worker[w].job] = FinishedRow(@, state)]
    BY <1>9 DEF FinishSucceeded, FinishFailed, Terminal
  <2>2. jobs'[j] = jobs[j]
    BY <1>a, <1>c, <2>1
  <2> QED
    BY <1>9, <1>e, <2>2 DEF FinishSucceeded, FinishFailed
<1>10. ASSUME NEW d \in Desks, ReadForApproval(d) PROVE Lost(j)'
  <2>1. PICK c \in Calls, a \in Approvers :
          /\ calls[c].state = "waiting_for_approval"
          /\ desk' = [desk EXCEPT ![d] = [pc |-> "approving", call |-> c, actor |-> a]]
    BY <1>10 DEF ReadForApproval, MayApprove
  <2>2. desk'[d].call = c /\ \A e \in Desks \ {d} : desk'[e] = desk[e]
    BY <1>a, <2>1
  <2>3. calls[c].job # j
    BY <2>1 DEF Lost
  <2> QED
    BY <1>10, <1>b, <1>d, <2>1, <2>2, <2>3 DEF ReadForApproval
<1>11. ASSUME NEW d \in Desks, ApproveCall(d) PROVE Lost(j)'
  <2>1. /\ desk[d].pc = "approving" /\ UNCHANGED jobs
        /\ calls' = [calls EXCEPT ![desk[d].call] = ApprovedRow(@, desk[d].actor)]
        /\ desk' = [desk EXCEPT ![d].pc = "requeueing"]
    BY <1>11 DEF ApproveCall
  <2>2. \A k \in Calls :
          \/ calls'[k] = calls[k]
          \/ calls'[k].job = calls[k].job /\ calls'[k].state # "waiting_for_approval"
    BY <1>a, <2>1 DEF ApprovedRow
  <2>3. desk'[d].call = desk[d].call /\ \A e \in Desks \ {d} : desk'[e] = desk[e]
    BY <1>a, <2>1 DEF DeskLocals
  <2>4. \A e \in Desks : Acting(e)' => Acting(e) /\ desk'[e].call = desk[e].call
    BY <2>1, <2>3
  <2> QED
    BY <1>b, <1>d, <2>1, <2>2, <2>4
<1>12. ASSUME NEW d \in Desks, RequeueJob(d) PROVE Lost(j)'
  <2>1. calls[desk[d].call].job # j
    BY <1>12, <1>b DEF RequeueJob
  <2>2. jobs'[j] = jobs[j]
    BY <1>12, <1>a, <2>1 DEF RequeueJob
  <2>3. \A e \in Desks : Acting(e)' => desk'[e] = desk[e]
    BY <1>12, <1>a DEF RequeueJob, IdleDesk
  <2> QED
    BY <1>12, <1>b, <1>d, <2>2, <2>3 DEF RequeueJob
<1>13. ASSUME NEW d \in Desks, ReadForCompletion(d) \/ DeskCrash(d) PROVE Lost(j)'
  <2>1. \A e \in Desks : Acting(e)' => desk'[e] = desk[e]
    BY <1>13, <1>a DEF ReadForCompletion, DeskCrash, IdleDesk
  <2> QED
    BY <1>13, <1>b, <1>d, <2>1 DEF ReadForCompletion, DeskCrash
<1>14. ASSUME NEW d \in Desks, CompleteCall(d) PROVE Lost(j)'
  <2>1. desk[d].call \in Calls
    BY <1>14 DEF CompleteCall, TypeInv, DesksBound
  <2>2. \A e \in Desks : Acting(e)' => desk'[e] = desk[e]
    BY <1>14, <1>a DEF CompleteCall, IdleDesk
  <2> QED
    BY <1>14, <1>7, <2>1, <2>2 DEF CompleteCall
<1>15. CASE Tick
  <2>1. jobs'[j].state = jobs[j].state
    BY <1>15, <1>a DEF Tick, JobRows
  <2> QED
    BY <1>15, <1>e, <2>1 DEF Tick
<1> QED
  BY <1>1, <1>2, <1>3, <1>5, <1>6, <1>8, <1>9, <1>10, <1>11, <1>12, <1>13, <1>14, <1>15
  DEF Next, WorkerStep, DeskStep

\* A job whose approval reached the call and not the job waits for ever: nothing
\* but the second UPDATE of approve_tool_call takes a job out of
\* waiting_for_approval, and nobody can call it again.  This is what the run
\* agent_jobs_lost_approval finds, for every number of jobs, calls and desks.
THEOREM LostApprovalsStay == Spec => [][LostStep]_vars
<1>1. Spec => []TypeInv
  BY TypeInit, TypeNext, PTL DEF Spec
<1> QED
  BY <1>1, LostNext, PTL DEF Spec
=============================================================================

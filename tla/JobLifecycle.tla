---------------------------- MODULE JobLifecycle ----------------------------
(***************************************************************************)
(* What the agent-job table promises, whoever drives it: the state diagram *)
(* of README.md ("Durable agent orchestration") with a bounded number of   *)
(* runs and a human gate.  A gate opens and the job is requeued in one     *)
(* step; only the run that started last has a result.                      *)
(***************************************************************************)
EXTENDS Naturals

CONSTANTS Jobs, Calls, MaxAttempts

VARIABLES
  status,   \* state of each job
  tries,    \* how many times it was started
  gate      \* the calls a job is parked on

vars == <<status, tries, gate>>

Outcomes == {"succeeded", "failed"}

Init ==
  /\ status = [j \in Jobs |-> "absent"]
  /\ tries = [j \in Jobs |-> 0]
  /\ gate = [j \in Jobs |-> {}]

Submit(j) ==
  /\ status[j] = "absent"
  /\ status' = [status EXCEPT ![j] = "queued"]
  /\ UNCHANGED <<tries, gate>>

\* A first run, or the recovery of one that was abandoned.
Start(j) ==
  /\ status[j] \in {"queued", "running"}
  /\ tries[j] < MaxAttempts[j]
  /\ status' = [status EXCEPT ![j] = "running"]
  /\ tries' = [tries EXCEPT ![j] = @ + 1]
  /\ UNCHANGED gate

Park(j, c) ==
  /\ status[j] = "running"
  /\ \A k \in Jobs : c \notin gate[k]
  /\ status' = [status EXCEPT ![j] = "waiting_for_approval"]
  /\ gate' = [gate EXCEPT ![j] = {c}]
  /\ UNCHANGED tries

Release(j) ==
  /\ status[j] = "waiting_for_approval"
  /\ status' = [status EXCEPT ![j] = "queued"]
  /\ gate' = [gate EXCEPT ![j] = {}]
  /\ UNCHANGED tries

Finish(j) ==
  /\ status[j] = "running"
  /\ \E o \in Outcomes : status' = [status EXCEPT ![j] = o]
  /\ UNCHANGED <<tries, gate>>

Next ==
  \E j \in Jobs :
    \/ Submit(j)
    \/ Start(j)
    \/ \E c \in Calls : Park(j, c)
    \/ Release(j)
    \/ Finish(j)

Spec == Init /\ [][Next]_vars
=============================================================================

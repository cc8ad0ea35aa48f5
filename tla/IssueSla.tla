------------------------------- MODULE IssueSla -------------------------------
(***************************************************************************)
(* The rows of sla_instances: how the repository opens one, moves it with  *)
(* the issue's status, and reads a verdict off it.  Times are whole ticks; *)
(* the code's int(...total_seconds()) is exact on them.                    *)
(***************************************************************************)
EXTENDS Naturals

CONSTANT None  \* SQL NULL

Waiting == "waiting_for_customer"
Done == {"resolved", "closed"}

Instants(limit) == 0..limit
OrNone(S) == S \cup {None}

SlaRows(limit) ==
  [first_due : Nat, resolution_due : Nat, paused_at : OrNone(Instants(limit)),
   total_paused : Nat, responded_at : OrNone(Instants(limit)),
   resolved_at : OrNone(Instants(limit))]

\* create_issue under a policy.
OpenedSla(policy, at) ==
  [first_due |-> at + policy.first_response, resolution_due |-> at + policy.resolution,
   paused_at |-> None, total_paused |-> 0, responded_at |-> None, resolved_at |-> None]

PausedSla(row, at) ==
  [first_due |-> row.first_due, resolution_due |-> row.resolution_due,
   paused_at |-> at, total_paused |-> row.total_paused,
   responded_at |-> row.responded_at, resolved_at |-> row.resolved_at]

\* max(0, now - paused_at)
Pause(row, at) == IF at > row.paused_at THEN at - row.paused_at ELSE 0

\* Mutation of ResumedSla: the first-response target is left where it was.
ResumedSlaOneTarget(row, at) ==
  [first_due |-> row.first_due, resolution_due |-> row.resolution_due + Pause(row, at),
   paused_at |-> None, total_paused |-> row.total_paused + Pause(row, at),
   responded_at |-> row.responded_at, resolved_at |-> row.resolved_at]

\* The waiting time is added to both targets, met or not.
ResumedSla(row, at) ==
  [first_due |-> row.first_due + Pause(row, at),
   resolution_due |-> row.resolution_due + Pause(row, at),
   paused_at |-> None, total_paused |-> row.total_paused + Pause(row, at),
   responded_at |-> row.responded_at, resolved_at |-> row.resolved_at]

Coalesce(a, b) == IF a = None THEN b ELSE a

\* Mutation of ResolvedSla: closing a resolved issue stamps it again.
ResolvedSlaAgain(row, at) ==
  [first_due |-> row.first_due, resolution_due |-> row.resolution_due,
   paused_at |-> row.paused_at, total_paused |-> row.total_paused,
   responded_at |-> row.responded_at, resolved_at |-> at]

\* resolved_at is written once: a reopened issue keeps its first resolution.
ResolvedSla(row, at) ==
  [first_due |-> row.first_due, resolution_due |-> row.resolution_due,
   paused_at |-> row.paused_at, total_paused |-> row.total_paused,
   responded_at |-> row.responded_at, resolved_at |-> Coalesce(row.resolved_at, at)]

\* Mutation of RespondedSla: every public answer is stamped.
RespondedSlaAgain(row, at) ==
  [first_due |-> row.first_due, resolution_due |-> row.resolution_due,
   paused_at |-> row.paused_at, total_paused |-> row.total_paused,
   responded_at |-> at, resolved_at |-> row.resolved_at]

\* add_comment with mark_first_response.
RespondedSla(row, at) ==
  [first_due |-> row.first_due, resolution_due |-> row.resolution_due,
   paused_at |-> row.paused_at, total_paused |-> row.total_paused,
   responded_at |-> Coalesce(row.responded_at, at), resolved_at |-> row.resolved_at]

\* Mutation of MovedSla: leaving the customer's queue is not noticed.
MovedSlaNoResume(row, source, target, at) ==
  IF target = Waiting /\ row.paused_at = None THEN PausedSla(row, at)
  ELSE IF target \in Done THEN ResolvedSla(row, at) ELSE row

\* _update_sla_for_transition on an existing row.
MovedSla(row, source, target, at) ==
  IF target = Waiting /\ row.paused_at = None
    THEN PausedSla(row, at)
    ELSE LET resumed == IF source = Waiting /\ row.paused_at # None
                          THEN ResumedSla(row, at) ELSE row
         IN  IF target \in Done THEN ResolvedSla(resumed, at) ELSE resumed

\* Mutation of Reference: the verdict is read off the running clock.
ReferenceNow(row, now) == now

\* get_sla_state: the instant that a target without a stamp is compared with.
Reference(row, now) == Coalesce(row.paused_at, now)
FirstBreached(row, now) == Coalesce(row.responded_at, Reference(row, now)) > row.first_due
ResolutionBreached(row, now) ==
  Coalesce(row.resolved_at, Reference(row, now)) > row.resolution_due
=============================================================================

------------------------------- MODULE SlaViews -------------------------------
(***************************************************************************)
(* The three readers of sla_instances that each spell out their own tests: *)
(* the sla field of the search language (service_desk/search.py), the      *)
(* gauges of collect_snapshot (service_desk/observability.py), and         *)
(* get_sla_state, which is Reference, FirstBreached and ResolutionBreached *)
(* of IssueSla.  at is the clock a reader has read, ahead its risk horizon. *)
(***************************************************************************)
EXTENDS IssueSla

\* Not stopped by a wait, and never stamped by a resolution.
Runs(row) == row # None /\ row.resolved_at = None /\ row.paused_at = None

-----------------------------------------------------------------------------
(* _sla_predicate *)

BreachedQuery(row, at) == Runs(row) /\ row.resolution_due < at

\* Mutation of AtRiskQuery: a target met by the second is in no answer.
AtRiskQueryLate(row, at, ahead) ==
  Runs(row) /\ row.resolution_due > at /\ row.resolution_due <= at + ahead

AtRiskQuery(row, at, ahead) ==
  Runs(row) /\ row.resolution_due >= at /\ row.resolution_due <= at + ahead

OnTrackQuery(row, at, ahead) == Runs(row) /\ row.resolution_due > at + ahead

SlaQueries == {"breached", "at_risk", "on_track"}

SlaMatches(value, row, at, ahead) ==
  CASE value = "none"     -> row = None
    [] value = "breached" -> BreachedQuery(row, at)
    [] value = "at_risk"  -> AtRiskQuery(row, at, ahead)
    [] value = "on_track" -> OnTrackQuery(row, at, ahead)

-----------------------------------------------------------------------------
(* The SUM(CASE ...) columns of collect_snapshot *)

FirstBreachGauge(row, at) ==
  /\ row # None
  /\ row.responded_at = None
  /\ row.paused_at = None
  /\ row.first_due < at

ResolutionBreachGauge(row, at) ==
  /\ row # None
  /\ row.resolved_at = None
  /\ row.paused_at = None
  /\ row.resolution_due < at

AtRiskGauge(row, at, ahead) ==
  /\ row # None
  /\ row.resolved_at = None
  /\ row.paused_at = None
  /\ row.resolution_due >= at
  /\ row.resolution_due <= at + ahead
=============================================================================

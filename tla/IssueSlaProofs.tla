---------------------------- MODULE IssueSlaProofs ----------------------------
(***************************************************************************)
(* Theorems about the service levels of IssueDesk, for every workflow,     *)
(* policy and number of handlers, whatever versions callers send.          *)
(* SlaRight says that the clock of an issue stands only while it waits and *)
(* that its targets are those of one policy moved by the time it stood;    *)
(* WaitsTold, that an issue whose log ends with a move to the customer has *)
(* its clock stopped; Stamped, that a resolved issue has the stamp its     *)
(* verdict is read off; StampsTold, that this stamp is one the log tells   *)
(* of.                                                                     *)
(***************************************************************************)
EXTENDS IssueDeskProofs

-----------------------------------------------------------------------------
(* The clock and the targets *)

Stopped(row, status) == row # None => (row.paused_at # None => status = Waiting)

OnTarget(row, created) ==
  row # None =>
    \E p \in Policies :
      /\ row.first_due = created + row.total_paused + p.first_response
      /\ row.resolution_due = created + row.total_paused + p.resolution

LEMMA OpenedRight ==
  ASSUME NEW p \in Policies, NEW at \in 0..Horizon
  PROVE  Stopped(OpenedSla(p, at), "open") /\ OnTarget(OpenedSla(p, at), at)
<1>1. p.first_response \in Nat /\ p.resolution \in Nat /\ at \in Nat
  BY PolicyAssumption, BoundAssumption
<1>2. Stopped(OpenedSla(p, at), "open")
  BY DEF Stopped, OpenedSla, Waiting
<1>3. /\ OpenedSla(p, at).first_due = at + OpenedSla(p, at).total_paused + p.first_response
      /\ OpenedSla(p, at).resolution_due = at + OpenedSla(p, at).total_paused + p.resolution
  BY <1>1 DEF OpenedSla
<1> QED
  BY <1>2, <1>3 DEF OnTarget

LEMMA MovedRight ==
  ASSUME NEW row \in SlaRows(Horizon), NEW at \in 0..Horizon, NEW created \in Nat,
         NEW source, NEW target,
         Stopped(row, source), OnTarget(row, created)
  PROVE  /\ Stopped(MovedSla(row, source, target, at), target)
         /\ OnTarget(MovedSla(row, source, target, at), created)
<1> DEFINE moved == MovedSla(row, source, target, at)
<1>a. row # None /\ at # None
  BY SlaRowsNotNone, NullAssumption, BoundAssumption
<1>b. PICK p \in Policies :
        /\ row.first_due = created + row.total_paused + p.first_response
        /\ row.resolution_due = created + row.total_paused + p.resolution
  BY <1>a DEF OnTarget
<1>c. p.first_response \in Nat /\ p.resolution \in Nat /\ row.total_paused \in Nat
  BY PolicyAssumption DEF SlaRows
<1>d. row.paused_at # None => Pause(row, at) \in Nat
  BY BoundAssumption DEF Pause, SlaRows, OrNone, Instants
<1>1. moved.paused_at # None => target = Waiting
  BY <1>a DEF MovedSla, PausedSla, ResumedSla, ResolvedSla, Stopped, Waiting, Done
<1>2. CASE source = Waiting /\ row.paused_at # None
  <2>1. /\ moved.first_due = row.first_due + Pause(row, at)
        /\ moved.resolution_due = row.resolution_due + Pause(row, at)
        /\ moved.total_paused = row.total_paused + Pause(row, at)
    BY <1>2 DEF MovedSla, ResumedSla, ResolvedSla
  <2>2. /\ moved.first_due = created + moved.total_paused + p.first_response
        /\ moved.resolution_due = created + moved.total_paused + p.resolution
    BY <1>2, <1>b, <1>c, <1>d, <2>1
  <2> QED
    BY <1>1, <2>2 DEF Stopped, OnTarget
<1>3. CASE ~(source = Waiting /\ row.paused_at # None)
  <2>1. /\ moved.first_due = row.first_due
        /\ moved.resolution_due = row.resolution_due
        /\ moved.total_paused = row.total_paused
    BY <1>3 DEF MovedSla, PausedSla, ResolvedSla
  <2> QED
    BY <1>1, <1>b, <2>1 DEF Stopped, OnTarget
<1> QED
  BY <1>2, <1>3

LEMMA RespondedRight ==
  ASSUME NEW row \in SlaRows(Horizon), NEW at, NEW created, NEW status,
         Stopped(row, status), OnTarget(row, created)
  PROVE  /\ Stopped(RespondedSla(row, at), status)
         /\ OnTarget(RespondedSla(row, at), created)
BY SlaRowsNotNone DEF Stopped, OnTarget, RespondedSla

SlaRight ==
  \A i \in Issues :
    Stopped(sla[i], issues[i].status) /\ OnTarget(sla[i], issues[i].created_at)

LEMMA SlaRightNext == TypeInv /\ SlaRight /\ [Next]_vars => SlaRight'
<1> SUFFICES ASSUME TypeInv, SlaRight, [Next]_vars PROVE SlaRight'
  OBVIOUS
<1>a. /\ issues \in [Issues -> IssueRows]
      /\ sla \in [Issues -> SlaRows(Horizon) \cup {None}]
      /\ \A c \in Callers : request[c] \in Requests
  BY DEF TypeInv, TypeOK
<1>b. \A i \in Issues : issues[i].created_at \in Nat
  BY <1>a, BoundAssumption DEF IssueRows
<1>1. CASE UNCHANGED <<issues, sla>>
  BY <1>1 DEF SlaRight
<1>2. ASSUME NEW c \in Callers, CommitCreate(c) PROVE SlaRight'
  <2> DEFINE q == request[c]
  <2>1. /\ q.project \in Projects /\ q.at \in 0..Horizon
        /\ next[q.project] \in Nat /\ policy[q.project] \in Policies \cup {None}
    BY <1>a, <1>2, RequestKinds DEF CommitCreate, TypeInv, TypeOK
  <2>2. PICK i \in Issues :
          /\ issues' = [issues EXCEPT ![i] = OpenedRow(q.project, next[q.project], q.at)]
          /\ sla' = [sla EXCEPT ![i] =
               IF policy[q.project] = None THEN None
               ELSE OpenedSla(policy[q.project], q.at)]
    BY <1>2 DEF CommitCreate
  <2>3. issues'[i].status = "open" /\ issues'[i].created_at = q.at
    BY <1>a, <2>1, <2>2, OpenedRowType
  <2>4. Stopped(sla'[i], "open") /\ OnTarget(sla'[i], q.at)
    <3>1. CASE policy[q.project] = None
      BY <1>a, <2>2, <3>1 DEF Stopped, OnTarget
    <3>2. CASE policy[q.project] # None
      BY <1>a, <2>1, <2>2, <3>2, OpenedRight
    <3> QED
      BY <3>1, <3>2
  <2> QED
    BY <1>a, <2>2, <2>3, <2>4 DEF SlaRight
<1>3. ASSUME NEW c \in Callers, CommitTransition(c) PROVE SlaRight'
  <2>1. PICK i \in Issues, rule \in Rules, at \in 0..Horizon :
          /\ issues' = [issues EXCEPT ![i] = MovedRow(issues[i], rule, at)]
          /\ sla' = [sla EXCEPT ![i] =
               IF sla[i] = None THEN None
               ELSE MovedSla(sla[i], issues[i].status, rule.target, at)]
    BY <1>3, <1>a, RequestKinds DEF CommitTransition
  <2>2. issues[i] \in IssueRows /\ issues'[i] = MovedRow(issues[i], rule, at)
    BY <1>a, <2>1
  <2>3. issues'[i].status = rule.target /\ issues'[i].created_at = issues[i].created_at
    BY <2>2, MovedRowType
  <2>4. Stopped(sla'[i], rule.target) /\ OnTarget(sla'[i], issues[i].created_at)
    <3>1. CASE sla[i] = None
      BY <1>a, <2>1, <3>1 DEF Stopped, OnTarget
    <3>2. CASE sla[i] # None
      BY <1>a, <1>b, <2>1, <2>2, <3>2, MovedRight DEF SlaRight
    <3> QED
      BY <3>1, <3>2
  <2> QED
    BY <1>a, <2>1, <2>3, <2>4 DEF SlaRight
<1>4. ASSUME NEW c \in Callers, CommitAssign(c) PROVE SlaRight'
  <2>1. PICK i \in Issues, a \in Assignees, at \in 0..Horizon :
          issues' = [issues EXCEPT ![i] = AssignedRow(issues[i], a, at)]
    BY <1>4, <1>a, RequestKinds DEF CommitAssign
  <2>2. /\ issues'[i].status = issues[i].status
        /\ issues'[i].created_at = issues[i].created_at
    BY <1>a, <2>1, AssignedRowType
  <2> QED
    BY <1>4, <1>a, <2>1, <2>2 DEF CommitAssign, SlaRight
<1>5. ASSUME NEW c \in Callers, CommitComment(c) PROVE SlaRight'
  <2>1. request[c].issue \in Issues
    BY <1>a, <1>5, RequestKinds DEF CommitComment
  <2> DEFINE i == request[c].issue
  <2>2. /\ issues' = issues
        /\ sla' = sla \/ (sla[i] # None
             /\ sla' = [sla EXCEPT ![i] = RespondedSla(sla[i], request[c].at)])
    BY <1>5, <1>a, <2>1 DEF CommitComment
  <2>3. sla[i] # None =>
          /\ Stopped(RespondedSla(sla[i], request[c].at), issues[i].status)
          /\ OnTarget(RespondedSla(sla[i], request[c].at), issues[i].created_at)
    BY <1>a, <2>1, RespondedRight DEF SlaRight
  <2> QED
    BY <1>a, <2>1, <2>2, <2>3 DEF SlaRight
<1> QED
  BY <1>1, <1>2, <1>3, <1>4, <1>5
  DEF Next, Submit, Commit, Tick, ConfigureSla, SubmitCreate, SubmitTransition,
      SubmitAssign, SubmitComment, ReplayCreate, Conflict, Drop, vars

LEMMA SlaRightAlways == Spec => [](TypeInv /\ SlaRight)
<1>1. Init => SlaRight
  BY DEF Init, SlaRight, Stopped, OnTarget
<1> QED
  BY <1>1, SlaRightNext, TypeInit, TypeNext, PTL DEF Spec

\* The targets of an issue are those of one policy, moved by exactly the time
\* its clock stood: nothing else moves a due date, and neither target moves
\* without the other.
THEOREM TargetsStay == Spec => []TargetsKept
<1>1. SlaRight => TargetsKept
  BY DEF SlaRight, OnTarget, TargetsKept
<1> QED
  BY <1>1, SlaRightAlways, PTL

-----------------------------------------------------------------------------
(* Verdicts *)

Unmoved(i) == sla'[i] = sla[i] /\ issues'[i].status = issues[i].status

MovedOn(i, rule, at) ==
  /\ issues'[i].status = rule.target
  /\ sla'[i] = MovedSla(sla[i], issues[i].status, rule.target, at)

Answered(i, at) ==
  sla'[i] = RespondedSla(sla[i], at) /\ issues'[i].status = issues[i].status

\* What one step does to an issue that has targets.
LEMMA SlaChange ==
  ASSUME TypeInv, [Next]_vars, NEW i \in Issues, sla[i] # None
  PROVE  \/ Unmoved(i)
         \/ \E rule \in Rules, at \in 0..Horizon : MovedOn(i, rule, at)
         \/ \E at \in 0..Horizon : Answered(i, at)
<1> DEFINE Goal ==
      \/ Unmoved(i)
      \/ \E rule \in Rules, at \in 0..Horizon : MovedOn(i, rule, at)
      \/ \E at \in 0..Horizon : Answered(i, at)
<1>a. /\ issues \in [Issues -> IssueRows]
      /\ sla \in [Issues -> SlaRows(Horizon) \cup {None}]
      /\ \A c \in Callers : request[c] \in Requests
      /\ Exists(i)
  BY DEF TypeInv, TypeOK
<1>1. ASSUME NEW c \in Callers, CommitCreate(c) PROVE Goal
  <2>1. PICK j \in Issues :
          /\ ~Exists(j)
          /\ \A k \in Issues \ {j} : issues'[k] = issues[k] /\ sla'[k] = sla[k]
    BY <1>1, <1>a DEF CommitCreate
  <2> QED
    BY <1>a, <2>1 DEF Unmoved
<1>2. ASSUME NEW c \in Callers, CommitTransition(c) PROVE Goal
  <2> DEFINE q == request[c]
  <2>1. /\ q.issue \in Issues /\ q.rule \in Rules /\ q.at \in 0..Horizon
    BY <1>2, <1>a, RequestKinds DEF CommitTransition
  <2>2. /\ issues' = [issues EXCEPT ![q.issue] = MovedRow(issues[q.issue], q.rule, q.at)]
        /\ sla' = [sla EXCEPT ![q.issue] =
             IF sla[q.issue] = None THEN None
             ELSE MovedSla(sla[q.issue], issues[q.issue].status, q.rule.target, q.at)]
    BY <1>2 DEF CommitTransition
  <2>3. CASE q.issue = i
    <3>1. /\ issues'[i] = MovedRow(issues[i], q.rule, q.at)
          /\ sla'[i] = MovedSla(sla[i], issues[i].status, q.rule.target, q.at)
      BY <1>a, <2>2, <2>3
    <3>2. issues'[i].status = q.rule.target
      BY <1>a, <2>1, <3>1, MovedRowType
    <3> QED
      BY <2>1, <2>3, <3>1, <3>2 DEF MovedOn
  <2>4. CASE q.issue # i
    BY <1>a, <2>2, <2>4 DEF Unmoved
  <2> QED
    BY <2>3, <2>4
<1>3. ASSUME NEW c \in Callers, CommitAssign(c) PROVE Goal
  <2> DEFINE q == request[c]
  <2>1. q.issue \in Issues /\ q.assignee \in Assignees /\ q.at \in 0..Horizon
    BY <1>3, <1>a, RequestKinds DEF CommitAssign
  <2>2. /\ issues' = [issues EXCEPT ![q.issue] = AssignedRow(issues[q.issue], q.assignee, q.at)]
        /\ sla' = sla
    BY <1>3 DEF CommitAssign
  <2> QED
    BY <1>a, <2>1, <2>2, AssignedRowType DEF Unmoved
<1>4. ASSUME NEW c \in Callers, CommitComment(c) PROVE Goal
  <2> DEFINE q == request[c]
  <2>1. q.issue \in Issues /\ q.at \in 0..Horizon
    BY <1>4, <1>a, RequestKinds DEF CommitComment
  <2>2. /\ issues' = issues
        /\ sla' = [sla EXCEPT ![q.issue] =
             IF sla[q.issue] # None /\ FirstResponse(RoleOf[c], q.internal)
               THEN RespondedSla(sla[q.issue], q.at) ELSE sla[q.issue]]
    BY <1>4 DEF CommitComment
  <2> QED
    BY <1>a, <2>1, <2>2 DEF Unmoved, Answered
<1>5. CASE UNCHANGED <<issues, sla>>
  BY <1>5 DEF Unmoved
<1> QED
  BY <1>1, <1>2, <1>3, <1>4, <1>5
  DEF Next, Submit, Commit, Tick, ConfigureSla, SubmitCreate, SubmitTransition,
      SubmitAssign, SubmitComment, ReplayCreate, Conflict, Drop, vars

\* A move keeps the stamp of the answer, and dates the target no earlier.
LEMMA MovedKeepsAnswer ==
  ASSUME NEW row \in SlaRows(Horizon), NEW source, NEW target, NEW at \in 0..Horizon
  PROVE  /\ MovedSla(row, source, target, at).responded_at = row.responded_at
         /\ MovedSla(row, source, target, at).first_due >= row.first_due
<1>1. row.first_due \in Nat
  BY DEF SlaRows
<1>2. row.paused_at # None => Pause(row, at) \in Nat
  BY BoundAssumption DEF Pause, SlaRows, OrNone, Instants
<1> QED
  BY <1>1, <1>2 DEF MovedSla, PausedSla, ResumedSla, ResolvedSla

\* An answer that was in time is reported in time ever after, for any number
\* of handlers and any workflow: its stamp is written once, and the target it
\* is compared with moves only away from it.
THEOREM AnswersStand == Spec => AnsweredInTimeStands
<1> DEFINE Stands ==
      \A i \in Issues :
        /\ sla[i] # None
        /\ sla[i].responded_at # None
        /\ ~FirstBreached(sla[i], now)
        => ~FirstBreached(sla[i], now)'
<1>1. ASSUME TypeInv, [Next]_vars PROVE Stands
  <2> SUFFICES ASSUME NEW i \in Issues,
                      sla[i] # None, sla[i].responded_at # None,
                      ~FirstBreached(sla[i], now)
               PROVE  ~FirstBreached(sla[i], now)'
    OBVIOUS
  <2>1. sla[i] \in SlaRows(Horizon)
    BY <1>1 DEF TypeInv, TypeOK
  <2>2. sla[i].responded_at \in Nat /\ sla[i].first_due \in Nat
    BY <2>1, BoundAssumption DEF SlaRows, OrNone, Instants
  <2>3. sla[i].responded_at <= sla[i].first_due
    BY <2>2 DEF FirstBreached, Coalesce
  <2> DEFINE Kept ==
        /\ sla'[i].responded_at = sla[i].responded_at
        /\ sla'[i].first_due \in Nat /\ sla'[i].first_due >= sla[i].first_due
  <2>4. Kept
    <3>1. CASE Unmoved(i)
      BY <2>2, <3>1 DEF Unmoved
    <3>2. ASSUME NEW rule \in Rules, NEW at \in 0..Horizon, MovedOn(i, rule, at)
          PROVE  Kept
      <4>1. MovedSla(sla[i], issues[i].status, rule.target, at) \in SlaRows(Horizon)
        BY <2>1, MovedSlaType
      <4> QED
        BY <2>1, <3>2, <4>1, MovedKeepsAnswer DEF MovedOn, SlaRows
    <3>3. ASSUME NEW at \in 0..Horizon, Answered(i, at) PROVE Kept
      BY <2>2, <3>3 DEF Answered, RespondedSla, Coalesce
    <3> QED
      BY <1>1, <3>1, <3>2, <3>3, SlaChange
  <2> QED
    BY <2>2, <2>3, <2>4 DEF FirstBreached, Coalesce
<1>2. TypeInv /\ [Next]_vars => [Stands]_vars
  BY <1>1
<1> QED
  BY <1>2, TypeInit, TypeNext, PTL DEF Spec, AnsweredInTimeStands
\* A resolved or closed issue has been stamped, when it came there or before.
Stamped ==
  \A i \in Issues :
    sla[i] # None /\ issues[i].status \in Done => sla[i].resolved_at # None

LEMMA StampedInit == Init => Stamped
BY DEF Init, Stamped

LEMMA StampedNext == TypeInv /\ Stamped /\ [Next]_vars => Stamped'
<1> SUFFICES ASSUME TypeInv, Stamped, [Next]_vars,
                    NEW i \in Issues, sla'[i] # None, issues'[i].status \in Done
             PROVE  sla'[i].resolved_at # None
  BY DEF Stamped
<1>1. CASE sla[i] = None
  \* Only a create gives an issue its targets, and it opens the issue.
  <2>1. ASSUME NEW c \in Callers, CommitCreate(c) PROVE FALSE
    <3>1. PICK j \in Issues :
            /\ ~Exists(j)
            /\ \A k \in Issues \ {j} : issues'[k] = issues[k] /\ sla'[k] = sla[k]
            /\ issues'[j].status = "open"
      BY <2>1 DEF CommitCreate, TypeInv, TypeOK, OpenedRow
    <3> QED
      BY <1>1, <3>1 DEF Done
  <2>2. ASSUME NEW c \in Callers, CommitTransition(c) \/ CommitAssign(c) \/ CommitComment(c)
        PROVE  FALSE
    <3>1. sla'[i] = None
      BY <1>1, <2>2 DEF CommitTransition, CommitAssign, CommitComment, TypeInv, TypeOK
    <3> QED
      BY <3>1
  <2> QED
    BY <1>1, <2>1, <2>2
    DEF Next, Submit, Commit, Tick, ConfigureSla, SubmitCreate, SubmitTransition,
        SubmitAssign, SubmitComment, ReplayCreate, Conflict, Drop, vars
<1>2. CASE sla[i] # None
  <2>1. CASE Unmoved(i)
    BY <1>2, <2>1 DEF Unmoved, Stamped
  <2>2. ASSUME NEW rule \in Rules, NEW at \in 0..Horizon, MovedOn(i, rule, at)
        PROVE  sla'[i].resolved_at # None
    <3>1. rule.target \in Done /\ at # None
      BY <2>2, NullAssumption, BoundAssumption DEF MovedOn
    <3> QED
      BY <2>2, <3>1 DEF MovedOn, MovedSla, ResolvedSla, Coalesce, Done, Waiting
  <2>3. ASSUME NEW at \in 0..Horizon, Answered(i, at) PROVE sla'[i].resolved_at # None
    BY <1>2, <2>3 DEF Answered, RespondedSla, Stamped
  <2> QED
    BY <1>2, <2>1, <2>2, <2>3, SlaChange
<1> QED
  BY <1>1, <1>2

\* The resolution verdict stands while the clock of an issue stands, and from
\* the moment it is resolved until it is reopened, whatever is written to it
\* meanwhile, for any workflow and whatever callers send.  An issue whose clock
\* stands is compared with the instant it stopped, a resolved one with its
\* stamp; no step between two such states changes either, or the target: a move
\* of a paused issue starts the clock again (SlaRight), and one of a resolved
\* issue finds nothing to resume.
THEOREM VerdictsStand == Spec => StoppedVerdictStands
<1> DEFINE Stands ==
      \A i \in Issues :
        /\ sla[i] # None
        /\ \/ sla[i].paused_at # None /\ sla'[i].paused_at # None
           \/ issues[i].status \in Done /\ issues'[i].status \in Done
        => ResolutionBreached(sla[i], now)' = ResolutionBreached(sla[i], now)
<1>1. ASSUME TypeInv, SlaRight, Stamped, [Next]_vars PROVE Stands
  <2> SUFFICES ASSUME NEW i \in Issues,
                      sla[i] # None,
                      \/ sla[i].paused_at # None /\ sla'[i].paused_at # None
                      \/ issues[i].status \in Done /\ issues'[i].status \in Done
               PROVE  ResolutionBreached(sla[i], now)' = ResolutionBreached(sla[i], now)
    OBVIOUS
  <2>1. \/ sla[i].paused_at # None /\ sla'[i].paused_at # None
        \/ /\ issues[i].status \in Done /\ issues'[i].status \in Done
           /\ sla[i].resolved_at # None
    BY <1>1 DEF Stamped
  <2>2. sla[i].paused_at # None => issues[i].status = Waiting
    BY <1>1 DEF SlaRight, Stopped
  <2> DEFINE Kept ==
        /\ sla'[i].resolution_due = sla[i].resolution_due
        /\ sla'[i].resolved_at = sla[i].resolved_at
        /\ sla'[i].resolved_at # None \/ sla'[i].paused_at = sla[i].paused_at
  <2>3. Kept
    <3>1. CASE Unmoved(i)
      BY <3>1 DEF Unmoved
    <3>2. ASSUME NEW rule \in Rules, NEW at \in 0..Horizon, MovedOn(i, rule, at) PROVE Kept
      <4>1. sla'[i] = MovedSla(sla[i], issues[i].status, rule.target, at)
            /\ issues'[i].status = rule.target
        BY <3>2 DEF MovedOn
      <4>2. ~(sla[i].paused_at # None /\ sla'[i].paused_at # None)
        BY <2>2, <4>1 DEF MovedSla, ResumedSla, ResolvedSla
      <4>3. /\ issues[i].status \in Done /\ rule.target \in Done
            /\ sla[i].resolved_at # None
        BY <2>1, <4>1, <4>2
      <4>4. issues[i].status # Waiting /\ rule.target # Waiting
        BY <4>3 DEF Done, Waiting
      <4>5. sla'[i] = ResolvedSla(sla[i], at)
        BY <4>1, <4>3, <4>4 DEF MovedSla
      <4> QED
        BY <4>3, <4>5 DEF ResolvedSla, Coalesce
    <3>3. ASSUME NEW at \in 0..Horizon, Answered(i, at) PROVE Kept
      BY <3>3 DEF Answered, RespondedSla
    <3> QED
      BY <1>1, <3>1, <3>2, <3>3, SlaChange
  <2> QED
    BY <2>1, <2>3 DEF ResolutionBreached, Reference, Coalesce
<1>2. TypeInv /\ SlaRight /\ Stamped /\ [Next]_vars => [Stands]_vars
  BY <1>1
<1>3. Spec => []Stamped
  BY TypeInit, TypeNext, StampedInit, StampedNext, PTL DEF Spec
<1> QED
  BY <1>2, <1>3, SlaRightAlways, PTL DEF Spec, StoppedVerdictStands

-----------------------------------------------------------------------------
(* Waits and the audit log *)

\* The clock of an issue that went to wait for the customer stands.
WaitsTold == \A i \in Issues : sla[i] # None /\ WentToWait(i) => sla[i].paused_at # None

\* An event that moves nothing leaves the last move where it stands.
LEMMA WaitStands ==
  ASSUME TypeInv, NEW i \in Issues, NEW event \in Events,
         log'[i] = Append(log[i], event), event.type # "issue_transitioned"
  PROVE  WentToWait(i)' <=> WentToWait(i)
<1> DEFINE moves == EventsOf(i, "issue_transitioned")
<1>1. moves' = moves
  BY EventsGrow
<1>2. moves # {} => Latest(moves) \in DOMAIN log[i]
  <2>1. Len(log[i]) \in Nat /\ moves \in SUBSET (1..Len(log[i]))
    BY PlacesBound
  <2>2. moves # {} => Latest(moves) \in moves
    <3> HIDE DEF moves
    <3> QED
      BY <2>1, LatestIsLast
  <2> QED
    BY <2>2 DEF EventsOf
<1>3. moves # {} => log'[i][Latest(moves)] = log[i][Latest(moves)]
  BY <1>2, LogEnd
<1> QED
  BY <1>1, <1>3 DEF WentToWait

LEMMA WaitBegins ==
  ASSUME TypeInv, NEW i \in Issues, NEW event \in Events,
         log'[i] = Append(log[i], event), event.type = "issue_transitioned"
  PROVE  WentToWait(i)' <=> event.to = Waiting /\ event.from # Waiting
<1> DEFINE end == Len(log[i]) + 1
           moves == EventsOf(i, "issue_transitioned")
<1>1. moves' = moves \cup {end}
  BY EventsGrow
<1>2. end \in Nat /\ moves \subseteq 1..Len(log[i]) /\ Len(log[i]) \in Nat
  BY PlacesBound
<1>3. moves' \in SUBSET Nat /\ end \in moves' /\ \A m \in moves' : m <= end
  BY <1>1, <1>2
<1>4. Latest(moves') = end
  <2> DEFINE places == moves'
  <2>1. places \in SUBSET Nat /\ end \in places /\ \A m \in places : m <= end
    BY <1>3
  <2> HIDE DEF places, end
  <2> QED
    BY <2>1, LatestIs DEF places
<1>5. moves' # {} /\ log'[i][end] = event
  BY <1>3, LogEnd
<1> QED
  BY <1>4, <1>5 DEF WentToWait

\* A move to the customer from another status stops the clock.
LEMMA MovedWaits ==
  ASSUME NEW row \in SlaRows(Horizon), NEW source, NEW at \in 0..Horizon,
         Stopped(row, source), source # Waiting
  PROVE  MovedSla(row, source, Waiting, at).paused_at # None
<1>1. row # None /\ at # None
  BY SlaRowsNotNone, NullAssumption, BoundAssumption
<1>2. row.paused_at = None
  BY <1>1 DEF Stopped
<1> QED
  BY <1>1, <1>2 DEF MovedSla, PausedSla

LEMMA WaitsToldNext ==
  TypeInv /\ SlaRight /\ WaitsTold /\ [Next]_vars => WaitsTold'
<1> SUFFICES ASSUME TypeInv, SlaRight, WaitsTold, [Next]_vars,
                    NEW i \in Issues, sla'[i] # None, WentToWait(i)'
             PROVE  sla'[i].paused_at # None
  BY DEF WaitsTold
<1> DEFINE Goal == sla'[i].paused_at # None
<1>a. /\ sla \in [Issues -> SlaRows(Horizon) \cup {None}]
      /\ \A c \in Callers : request[c] \in Requests
  BY DEF TypeInv, TypeOK
<1>b. sla[i] # None /\ WentToWait(i) => sla[i].paused_at # None
  BY DEF WaitsTold
<1>1. CASE log'[i] = log[i] /\ sla'[i] = sla[i]
  BY <1>1, <1>b DEF WentToWait, EventsOf
<1>2. ASSUME NEW c \in Callers, CommitCreate(c) PROVE Goal
  <2>1. PICK j \in Issues :
          /\ sla' = [sla EXCEPT ![j] =
               IF policy[request[c].project] = None THEN None
               ELSE OpenedSla(policy[request[c].project], request[c].at)]
          /\ log' = [log EXCEPT ![j] = <<[type |-> "issue_created", actor |-> c]>>]
    BY <1>2 DEF CommitCreate
  <2>2. CASE j = i
    <3>1. log'[i] = <<[type |-> "issue_created", actor |-> c]>>
      BY <2>1, <2>2 DEF TypeInv, TypeOK
    <3>2. EventsOf(i, "issue_transitioned")' = {}
      BY <3>1 DEF EventsOf
    <3> QED
      BY <3>2 DEF WentToWait
  <2>3. CASE j # i
    BY <1>1, <2>1, <2>3 DEF TypeInv, TypeOK
  <2> QED
    BY <2>2, <2>3
<1>3. ASSUME NEW c \in Callers, CommitTransition(c) PROVE Goal
  <2> DEFINE q == request[c]
             event == Moving(i, c)
  <2>1. /\ q.issue \in Issues /\ Apart(q.issue) /\ MoveLogged(q.issue, c)
        /\ q.at \in 0..Horizon
        /\ sla' = [sla EXCEPT ![q.issue] =
             IF sla[q.issue] = None THEN None
             ELSE MovedSla(sla[q.issue], issues[q.issue].status, q.rule.target, q.at)]
    BY <1>3, <1>a, CommitLogs, RequestKinds DEF CommitTransition
  <2>2. CASE q.issue = i
    <3>1. /\ sla[i] \in SlaRows(Horizon)
          /\ sla'[i] = MovedSla(sla[i], issues[i].status, q.rule.target, q.at)
      BY <1>a, <2>1, <2>2
    <3>2. event \in Events /\ log'[i] = Append(log[i], event)
      BY <2>1, <2>2 DEF MoveLogged
    <3>3. /\ event.type = "issue_transitioned" /\ event.to = q.rule.target
          /\ event.from = issues[i].status
      BY DEF Moving
    <3> HIDE DEF event
    <3>4. q.rule.target = Waiting /\ issues[i].status # Waiting
      BY <3>2, <3>3, WaitBegins
    <3>5. Stopped(sla[i], issues[i].status)
      BY DEF SlaRight
    <3> QED
      BY <2>1, <3>1, <3>4, <3>5, MovedWaits
  <2>3. CASE q.issue # i
    BY <1>1, <1>a, <2>1, <2>3 DEF Apart
  <2> QED
    BY <2>2, <2>3
<1>4. ASSUME NEW c \in Callers, CommitAssign(c) PROVE Goal
  <2> DEFINE q == request[c]
             event == Assigning(i, c)
  <2>1. q.issue \in Issues /\ Apart(q.issue) /\ AssignLogged(q.issue, c) /\ sla' = sla
    BY <1>4, CommitLogs DEF CommitAssign
  <2>2. CASE q.issue = i
    <3>1. event \in Events /\ log'[i] = Append(log[i], event)
      BY <2>1, <2>2 DEF AssignLogged
    <3>2. event.type # "issue_transitioned"
      BY DEF Assigning
    <3> HIDE DEF event
    <3> QED
      BY <1>b, <2>1, <3>1, <3>2, WaitStands
  <2>3. CASE q.issue # i
    BY <1>1, <2>1, <2>3 DEF Apart
  <2> QED
    BY <2>2, <2>3
<1>5. ASSUME NEW c \in Callers, CommitComment(c) PROVE Goal
  <2> DEFINE q == request[c]
             event == [type |-> "comment_added", actor |-> c]
  <2>1. /\ q.issue \in Issues /\ Apart(q.issue) /\ CommentLogged(q.issue, c)
        /\ sla' = [sla EXCEPT ![q.issue] =
             IF sla[q.issue] # None /\ FirstResponse(RoleOf[c], q.internal)
               THEN RespondedSla(sla[q.issue], q.at) ELSE sla[q.issue]]
    BY <1>5, CommitLogs DEF CommitComment
  <2>2. CASE q.issue = i
    <3>1. sla[i] # None /\ sla'[i].paused_at = sla[i].paused_at
      BY <1>a, <2>1, <2>2 DEF RespondedSla
    <3>2. event \in Events /\ event.type # "issue_transitioned"
      BY EventTypes
    <3>3. log'[i] = Append(log[i], event)
      BY <2>1, <2>2 DEF CommentLogged
    <3> HIDE DEF event
    <3> QED
      BY <1>b, <3>1, <3>2, <3>3, WaitStands
  <2>3. CASE q.issue # i
    BY <1>1, <1>a, <2>1, <2>3 DEF Apart
  <2> QED
    BY <2>2, <2>3
<1> QED
  BY <1>1, <1>2, <1>3, <1>4, <1>5
  DEF Next, Submit, Commit, Tick, ConfigureSla, SubmitCreate, SubmitTransition,
      SubmitAssign, SubmitComment, ReplayCreate, Conflict, Drop, vars

LEMMA WaitsAlways == Spec => [](SlaRight /\ WaitsTold)
<1>1. Init => WaitsTold
  BY DEF Init, WaitsTold
<1> QED
  BY <1>1, WaitsToldNext, SlaRightAlways, PTL DEF Spec

\* The clock of an issue stands only while it waits for the customer, and from
\* the moment it goes there, for any workflow - one that leads from waiting to
\* waiting included - and whatever versions callers send: the transaction looks
\* at the status it changes, not at the one the rule was resolved on.
THEOREM ClockFollowsStatus == Spec => []PauseMatchesStatus
<1>1. SlaRight /\ WaitsTold => PauseMatchesStatus
  BY DEF SlaRight, Stopped, WaitsTold, PauseMatchesStatus
<1> QED
  BY <1>1, WaitsAlways, PTL

-----------------------------------------------------------------------------
(* Stamps and the audit log *)

\* A row is stamped exactly if the log shows a resolution.
StampsTold == \A i \in Issues : sla[i] # None => (sla[i].resolved_at # None <=> WasResolved(i))

LEMMA ResolvedGrows ==
  ASSUME TypeInv, NEW i \in Issues, NEW event \in Events, log'[i] = Append(log[i], event)
  PROVE  WasResolved(i)' <=> WasResolved(i) \/ (event.type = "issue_transitioned" /\ event.to \in Done)
<1> DEFINE end == Len(log[i]) + 1
<1>1. EventsOf(i, "issue_transitioned")' =
        IF event.type = "issue_transitioned"
          THEN EventsOf(i, "issue_transitioned") \cup {end}
          ELSE EventsOf(i, "issue_transitioned")
  BY EventsGrow
<1>2. /\ \A n \in EventsOf(i, "issue_transitioned") : log'[i][n] = log[i][n]
      /\ log'[i][end] = event
  BY LogEnd DEF EventsOf
<1> QED
  BY <1>1, <1>2 DEF WasResolved

\* A move stamps a row that it resolves, and takes no stamp away.
LEMMA MovedStamps ==
  ASSUME NEW row \in SlaRows(Horizon), NEW source, NEW target, NEW at \in 0..Horizon
  PROVE  MovedSla(row, source, target, at).resolved_at # None <=>
           row.resolved_at # None \/ target \in Done
<1>1. at # None
  BY NullAssumption, BoundAssumption
<1> QED
  BY <1>1 DEF MovedSla, PausedSla, ResumedSla, ResolvedSla, Coalesce, Done, Waiting

LEMMA StampsToldNext == TypeInv /\ StampsTold /\ [Next]_vars => StampsTold'
<1> SUFFICES ASSUME TypeInv, StampsTold, [Next]_vars,
                    NEW i \in Issues, sla'[i] # None
             PROVE  sla'[i].resolved_at # None <=> WasResolved(i)'
  BY DEF StampsTold
<1> DEFINE Goal == sla'[i].resolved_at # None <=> WasResolved(i)'
<1>a. /\ sla \in [Issues -> SlaRows(Horizon) \cup {None}]
      /\ \A c \in Callers : request[c] \in Requests /\ policy \in [Projects -> Policies \cup {None}]
  BY DEF TypeInv, TypeOK
<1>b. sla[i] # None => (sla[i].resolved_at # None <=> WasResolved(i))
  BY DEF StampsTold
<1>1. CASE log'[i] = log[i] /\ sla'[i] = sla[i]
  BY <1>1, <1>b DEF WasResolved, EventsOf
<1>2. ASSUME NEW c \in Callers, CommitCreate(c) PROVE Goal
  <2>1. PICK j \in Issues :
          /\ sla' = [sla EXCEPT ![j] =
               IF policy[request[c].project] = None THEN None
               ELSE OpenedSla(policy[request[c].project], request[c].at)]
          /\ log' = [log EXCEPT ![j] = <<[type |-> "issue_created", actor |-> c]>>]
    BY <1>2 DEF CommitCreate
  <2>2. CASE j = i
    <3>1. sla'[i].resolved_at = None
      BY <1>a, <2>1, <2>2 DEF OpenedSla
    <3>2. log'[i] = <<[type |-> "issue_created", actor |-> c]>>
      BY <2>1, <2>2 DEF TypeInv, TypeOK
    <3> QED
      BY <3>1, <3>2 DEF WasResolved, EventsOf
  <2>3. CASE j # i
    BY <1>1, <2>1, <2>3 DEF TypeInv, TypeOK
  <2> QED
    BY <2>2, <2>3
<1>3. ASSUME NEW c \in Callers, CommitTransition(c) PROVE Goal
  <2> DEFINE q == request[c]
             event == Moving(i, c)
  <2>1. /\ q.issue \in Issues /\ Apart(q.issue) /\ MoveLogged(q.issue, c)
        /\ q.at \in 0..Horizon
        /\ sla' = [sla EXCEPT ![q.issue] =
             IF sla[q.issue] = None THEN None
             ELSE MovedSla(sla[q.issue], issues[q.issue].status, q.rule.target, q.at)]
    BY <1>3, <1>a, CommitLogs, RequestKinds DEF CommitTransition
  <2>2. CASE q.issue = i
    <3>1. sla[i] # None /\ sla'[i] = MovedSla(sla[i], issues[i].status, q.rule.target, q.at)
      BY <1>a, <2>1, <2>2
    <3>2. sla'[i].resolved_at # None <=> sla[i].resolved_at # None \/ q.rule.target \in Done
      BY <1>a, <2>1, <3>1, MovedStamps
    <3>3. event \in Events /\ log'[i] = Append(log[i], event)
      BY <2>1, <2>2 DEF MoveLogged
    <3>4. event.type = "issue_transitioned" /\ event.to = q.rule.target
      BY DEF Moving
    <3> HIDE DEF event
    <3> QED
      BY <1>b, <3>1, <3>2, <3>3, <3>4, ResolvedGrows
  <2>3. CASE q.issue # i
    BY <1>1, <1>a, <2>1, <2>3 DEF Apart
  <2> QED
    BY <2>2, <2>3
<1>4. ASSUME NEW c \in Callers, CommitAssign(c) PROVE Goal
  <2> DEFINE q == request[c]
             event == Assigning(i, c)
  <2>1. q.issue \in Issues /\ Apart(q.issue) /\ AssignLogged(q.issue, c) /\ sla' = sla
    BY <1>4, CommitLogs DEF CommitAssign
  <2>2. CASE q.issue = i
    <3>1. event \in Events /\ log'[i] = Append(log[i], event)
      BY <2>1, <2>2 DEF AssignLogged
    <3>2. event.type # "issue_transitioned"
      BY DEF Assigning
    <3> HIDE DEF event
    <3> QED
      BY <1>b, <2>1, <3>1, <3>2, ResolvedGrows
  <2>3. CASE q.issue # i
    BY <1>1, <2>1, <2>3 DEF Apart
  <2> QED
    BY <2>2, <2>3
<1>5. ASSUME NEW c \in Callers, CommitComment(c) PROVE Goal
  <2> DEFINE q == request[c]
             event == [type |-> "comment_added", actor |-> c]
  <2>1. /\ q.issue \in Issues /\ Apart(q.issue) /\ CommentLogged(q.issue, c)
        /\ sla' = [sla EXCEPT ![q.issue] =
             IF sla[q.issue] # None /\ FirstResponse(RoleOf[c], q.internal)
               THEN RespondedSla(sla[q.issue], q.at) ELSE sla[q.issue]]
    BY <1>5, CommitLogs DEF CommitComment
  <2>2. CASE q.issue = i
    <3>1. sla[i] # None /\ sla'[i].resolved_at = sla[i].resolved_at
      BY <1>a, <2>1, <2>2 DEF RespondedSla
    <3>2. event \in Events /\ event.type # "issue_transitioned"
      BY EventTypes
    <3>3. log'[i] = Append(log[i], event)
      BY <2>1, <2>2 DEF CommentLogged
    <3> HIDE DEF event
    <3> QED
      BY <1>b, <3>1, <3>2, <3>3, ResolvedGrows
  <2>3. CASE q.issue # i
    BY <1>1, <1>a, <2>1, <2>3 DEF Apart
  <2> QED
    BY <2>2, <2>3
<1> QED
  BY <1>1, <1>2, <1>3, <1>4, <1>5
  DEF Next, Submit, Commit, Tick, ConfigureSla, SubmitCreate, SubmitTransition,
      SubmitAssign, SubmitComment, ReplayCreate, Conflict, Drop, vars

LEMMA StampsAlways == Spec => [](Stamped /\ StampsTold)
<1>1. Init => Stamped /\ StampsTold
  BY StampedInit DEF Init, StampsTold
<1>2. TypeInv /\ Stamped /\ StampsTold /\ [Next]_vars => (Stamped /\ StampsTold)'
  BY StampedNext, StampsToldNext
<1> QED
  BY <1>1, <1>2, TypeInit, TypeNext, PTL DEF Spec
=============================================================================

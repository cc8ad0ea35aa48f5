------------------------------ MODULE ReviewDesk ------------------------------
(***************************************************************************)
(* The human review lab of human_agent/: CaseWorkflow over ReviewQueue,    *)
(* PolicyRouter and AuditLedger.  Everything is in memory behind one lock, *)
(* so a command is one action, and a command that raises keeps whatever it *)
(* had changed before: there is no rollback.                               *)
(*                                                                         *)
(* The queue keeps its items twice.  _items says what is queued; _heap     *)
(* says who is next, and still holds the item of a case after complete has *)
(* deleted it from _items.  heapq itself is taken for what it does: a pop  *)
(* returns the entry with the least sort_key.  Two items of one priority   *)
(* are ordered by deadline, which is the order they were queued in.  lease *)
(* is the time left of lease_expires_at, 0 when there is none or it has    *)
(* passed.                                                                 *)
(***************************************************************************)
EXTENDS PolicyRouter

CONSTANTS
  Cases,        \* case ids
  Shapes,       \* the cases customers submit
  Reviewers,    \* reviewer ids
  Leavers,      \* the reviewers who may go home
  LeaseTicks,   \* the lease's fifteen minutes, in ticks
  NoOne         \* Python's None

ASSUME ShapesAssumption == Shapes \subseteq CaseShapes
ASSUME LeaseAssumption == LeaseTicks \in Nat \ {0}
ASSUME NoOneAssumption == NoOne \notin Reviewers \cup Shapes
ASSUME NamesAssumption == "policy" \notin Reviewers /\ "nobody" \notin Reviewers

VARIABLES
  records,   \* CaseWorkflow._records
  queue,     \* ReviewQueue._items, by case id
  heap,      \* ReviewQueue._heap, by what orders it
  arrivals,  \* ReviewQueue._sequence
  ledger,    \* the number of events of each case in AuditLedger._events; the
             \* actor of a deciding one is the record's decided_by
  away       \* the reviewers who went home

vars == <<records, queue, heap, arrivals, ledger, away>>

States == {"absent", "received", "awaiting_customer", "queued_for_review",
           "under_review", "decided"}
Decisions == {"none", "approve", "reject"}

Records ==
  [state : States, version : Nat, shape : Shapes \cup {NoOne}, decision : Decisions,
   assigned_reviewer : Reviewers \cup {NoOne},
   decided_by : Reviewers \cup {"nobody", "policy"}]
Items ==
  [queued : BOOLEAN, priority : 0..100, sequence : Nat,
   leased_by : Reviewers \cup {NoOne}, lease : 0..LeaseTicks]
Entries == [case_id : Cases, priority : 0..100, sequence : Nat]

Absent == [state |-> "absent", version |-> 0, shape |-> NoOne, decision |-> "none",
           assigned_reviewer |-> NoOne, decided_by |-> "nobody"]
NotQueued == [queued |-> FALSE, priority |-> 0, sequence |-> 0,
              leased_by |-> NoOne, lease |-> 0]

-----------------------------------------------------------------------------
(* The queue *)

\* Mutation of Free: a lease never ends.
FreeOnce(item) == item.queued /\ item.leased_by = NoOne

\* lease_available
Free(item) == item.queued /\ (item.leased_by = NoOne \/ item.lease = 0)

\* sort_key
Before(a, b) ==
  \/ a.priority > b.priority
  \/ a.priority = b.priority /\ a.sequence < b.sequence

Entry(x, priority, sequence) ==
  [case_id |-> x, priority |-> priority, sequence |-> sequence]

\* The entry at which lease() stops popping: the first whose case is queued and
\* not on lease.
Selected(e) ==
  /\ e \in heap
  /\ Free(queue[e.case_id])
  /\ \A f \in heap \ {e} : Free(queue[f.case_id]) => Before(e, f)

\* What lease() has popped when it stops at e.
Popped(e) == {f \in heap : f = e \/ Before(f, e)}

\* Mutation of Deferred: the selected item is not pushed back.
DeferredLeased(popped) ==
  {f \in popped : queue[f.case_id].queued /\ ~Free(queue[f.case_id])}

\* What lease() pushes back of it: an entry whose case is no longer in _items is
\* dropped, one on lease and the selected one are not.
Deferred(popped) == {f \in popped : queue[f.case_id].queued}

\* Mutation of LeasedTo: leasing takes the item out of the queue.
LeasedToTaken(item, r) ==
  [queued |-> FALSE, priority |-> item.priority, sequence |-> item.sequence,
   leased_by |-> r, lease |-> LeaseTicks]

LeasedTo(item, r) ==
  [queued |-> TRUE, priority |-> item.priority, sequence |-> item.sequence,
   leased_by |-> r, lease |-> LeaseTicks]

\* The item a while later.
Aged(item) ==
  [queued |-> item.queued, priority |-> item.priority, sequence |-> item.sequence,
   leased_by |-> item.leased_by, lease |-> IF item.lease > 0 THEN item.lease - 1 ELSE 0]

\* enqueue
Enqueued(priority, sequence) ==
  [queued |-> TRUE, priority |-> priority, sequence |-> sequence,
   leased_by |-> NoOne, lease |-> 0]

\* Mutation of MayComplete: complete does not look at the lease holder.
MayCompleteAny(item, r) == item.queued

\* complete: the current holder, whether or not the lease has run out.
MayComplete(item, r) == item.queued /\ item.leased_by = r

\* Mutation of MayDecide: the assigned reviewer is not compared.
MayDecideUnassigned(record, r, v) == record.version = v /\ record.state = "under_review"

\* The tests of decide before the queue is asked.
MayDecide(record, r, v) ==
  record.version = v /\ record.state = "under_review" /\ record.assigned_reviewer = r

-----------------------------------------------------------------------------
(* The record after each command *)

Received(shape) ==
  [state |-> "received", version |-> 1, shape |-> shape, decision |-> "none",
   assigned_reviewer |-> NoOne, decided_by |-> "nobody"]

StateOn(route) ==
  CASE route = "human_review" -> "queued_for_review"
    [] route = "ask_customer" -> "awaiting_customer"
    [] route = "automate" -> "decided"

RoutedRecord(record, route) ==
  [state |-> StateOn(route), version |-> record.version + 1, shape |-> record.shape,
   decision |-> IF route = "automate" THEN record.shape.action ELSE record.decision,
   assigned_reviewer |-> record.assigned_reviewer,
   decided_by |-> IF route = "automate" THEN "policy" ELSE record.decided_by]

AssignedRecord(record, r) ==
  [state |-> "under_review", version |-> record.version + 1, shape |-> record.shape,
   decision |-> record.decision, assigned_reviewer |-> r,
   decided_by |-> record.decided_by]

DecidedRecord(record, r, d) ==
  [state |-> "decided", version |-> record.version + 1, shape |-> record.shape,
   decision |-> d, assigned_reviewer |-> record.assigned_reviewer, decided_by |-> r]

-----------------------------------------------------------------------------
Init ==
  /\ records = [x \in Cases |-> Absent]
  /\ queue = [x \in Cases |-> NotQueued]
  /\ heap = {}
  /\ arrivals = 0
  /\ ledger = [x \in Cases |-> 0]
  /\ away = {}

\* Mutation of Logged: the event is lost.
LoggedNever(x) == UNCHANGED ledger

Logged(x) == ledger' = [ledger EXCEPT ![x] = @ + 1]

Submit(x) ==
  /\ records[x].state = "absent"
  /\ \E shape \in Shapes :
       records' = [records EXCEPT ![x] = Received(shape)]
  /\ Logged(x)
  /\ UNCHANGED <<queue, heap, arrivals, away>>

\* route; the router never returns the fallback route.
Route(x) ==
  LET to == Routed(records[x].shape)
  IN  /\ records[x].state = "received"
      /\ records' = [records EXCEPT ![x] = RoutedRecord(@, to.route)]
      /\ IF to.route = "human_review"
           THEN /\ arrivals' = arrivals + 1
                /\ queue' = [queue EXCEPT ![x] = Enqueued(to.priority, arrivals + 1)]
                /\ heap' = heap \cup {Entry(x, to.priority, arrivals + 1)}
           ELSE UNCHANGED <<queue, heap, arrivals>>
      /\ Logged(x)
      /\ UNCHANGED away

\* lease() for reviewer r, when it stops at entry e.
Lease(e, r) ==
  /\ Selected(e)
  /\ queue' = [queue EXCEPT ![e.case_id] = LeasedTo(@, r)]
  /\ heap' = (heap \ Popped(e)) \cup Deferred(Popped(e))

\* accept_review on a case that waits, at the version the reviewer expects.
AcceptReview(r) ==
  /\ r \notin away
  /\ \E e \in heap :
       /\ Lease(e, r)
       /\ records[e.case_id].state = "queued_for_review"
       /\ records' = [records EXCEPT ![e.case_id] = AssignedRecord(@, r)]
       /\ Logged(e.case_id)
  /\ UNCHANGED <<arrivals, away>>

\* accept_review raises VersionConflict, or InvalidTransition when the case is
\* under review already: the lease it has taken stays taken.
AcceptRaises(r, stale) ==
  /\ r \notin away
  /\ \E e \in heap :
       /\ Lease(e, r)
       /\ stale \/ records[e.case_id].state # "queued_for_review"
  /\ UNCHANGED <<records, arrivals, ledger, away>>

\* accept_review returns None: lease() has popped the whole heap in vain.
AcceptNothing(r) ==
  /\ r \notin away
  /\ \A e \in heap : ~Free(queue[e.case_id])
  /\ heap' = Deferred(heap)
  /\ UNCHANGED <<records, queue, arrivals, ledger, away>>

\* decide: a reviewer who knows the version decides; any other outcome raises
\* before it has changed anything.
Decide(r) ==
  /\ r \notin away
  /\ \E x \in Cases :
       /\ \E v \in 1..records[x].version : MayDecide(records[x], r, v)
       /\ MayComplete(queue[x], r)
       /\ queue' = [queue EXCEPT ![x] = NotQueued]
       /\ \E d \in {"approve", "reject"} :
            records' = [records EXCEPT ![x] = DecidedRecord(@, r, d)]
       /\ Logged(x)
  /\ UNCHANGED <<heap, arrivals, away>>

Tick ==
  /\ \E x \in Cases : queue[x].lease > 0
  /\ queue' = [x \in Cases |-> Aged(queue[x])]
  /\ UNCHANGED <<records, heap, arrivals, ledger, away>>

GoHome(r) ==
  /\ r \in Leavers \ away
  /\ away' = away \cup {r}
  /\ UNCHANGED <<records, queue, heap, arrivals, ledger>>

Next ==
  \/ \E x \in Cases : Submit(x) \/ Route(x)
  \/ \E r \in Reviewers :
       AcceptReview(r) \/ AcceptRaises(r, TRUE) \/ AcceptRaises(r, FALSE)
         \/ AcceptNothing(r) \/ Decide(r) \/ GoHome(r)
  \/ Tick

Spec == Init /\ [][Next]_vars

\* Time passes, and a reviewer who is there keeps asking for work without naming
\* a version; one who keeps asking is served at some of the moments at which a
\* case is free.  He decides what is assigned to him while he holds it.
FairSpec ==
  /\ Spec
  /\ WF_vars(Tick)
  /\ \A r \in Reviewers :
       /\ SF_vars(AcceptReview(r))
       /\ WF_vars(AcceptRaises(r, FALSE))
       /\ WF_vars(Decide(r))

-----------------------------------------------------------------------------
(* Properties *)

\* Every record, item and counter has a value of its type, and the audit
\* ledger of a case has one event for each of its versions.
TypeOK ==
  /\ records \in [Cases -> Records]
  /\ queue \in [Cases -> Items]
  /\ heap \subseteq Entries
  /\ arrivals \in Nat
  /\ ledger \in [Cases -> Nat]
  /\ away \subseteq Leavers
  /\ \A x \in Cases : ledger[x] = records[x].version

\* The queue and the workflow, two objects changed one after the other without
\* rollback, agree: a case has an item exactly while it waits or is under
\* review, with the priority its route gave it, and a case under review has
\* been leased by someone.  However items are popped, leased, pushed back and
\* completed, each that is queued has its entry in the heap.
QueueMatchesCases ==
  \A x \in Cases :
    /\ queue[x].queued <=> records[x].state \in {"queued_for_review", "under_review"}
    /\ queue[x].queued => queue[x].priority = Routed(records[x].shape).priority
    /\ records[x].state = "under_review" =>
         queue[x].leased_by # NoOne /\ records[x].assigned_reviewer # NoOne
    /\ queue[x].queued => Entry(x, queue[x].priority, queue[x].sequence) \in heap

\* A review ends only by the reviewer who is both assigned to the case and the
\* latest to lease it, although the two are kept apart, a lease may have
\* changed hands, and neither test alone is enough.
AssignedHolderDecides ==
  [][\A x \in Cases :
       records[x].state = "under_review" /\ records'[x].state = "decided" =>
         /\ records'[x].decided_by = records[x].assigned_reviewer
         /\ records'[x].decided_by = queue[x].leased_by]_vars

\* A reviewer is never given a case while a more urgent one, or one as urgent
\* that came earlier, waits unleased: whatever lease() popped on its way to
\* other cases, it has put back in its place.
UrgentFirst ==
  [][\A x, y \in Cases :
       /\ x # y
       /\ records[x].state = "queued_for_review"
       /\ records'[x].state = "under_review"
       /\ records[y].state = "queued_for_review"
       /\ Free(queue[y])
       => \/ queue[y].priority < queue[x].priority
          \/ /\ queue[y].priority = queue[x].priority
             /\ queue[x].sequence < queue[y].sequence]_vars

\* No decision is taken without a human on a case the customer, the policy, the
\* evidence, the deterministic check or its own failures speak against.
RiskyIsNeverAutomated ==
  \A x \in Cases :
    records[x].decided_by = "policy" =>
      LET shape == records[x].shape
      IN  /\ ~shape.asks_human
          /\ ~shape.mandatory
          /\ Reasons(shape) = {}
          /\ shape.complete
          /\ shape.confident
          /\ records[x].decision \in {"approve", "reject"}

\* A case that waits for review is taken up, although refused calls lease cases
\* too and keep them for the whole length of a lease.
QueuedIsTaken ==
  \A x \in Cases :
    records[x].state = "queued_for_review" ~> records[x].state = "under_review"
===============================================================================

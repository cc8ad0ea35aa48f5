--------------------------- MODULE ReviewDeskProofs ---------------------------
(***************************************************************************)
(* Theorems about ReviewDesk for every set of cases and reviewers and, in  *)
(* particular, for every shape of a case: TLC's instance only has those    *)
(* that differ in one answer from a case that is automated.                *)
(***************************************************************************)
EXTENDS ReviewDesk, TLAPS

-----------------------------------------------------------------------------
(* The router *)

LEMMA WeightType ==
  ASSUME NEW case \in CaseShapes, NEW reasons
  PROVE  Weight(case, reasons) \in 0..100
<1> DEFINE impact == CASE case.impact = "low" -> 0 [] case.impact = "medium" -> 15
                       [] case.impact = "high" -> 30
           a == IF "contradictory_evidence" \in reasons THEN 15 ELSE 0
           b == IF "model_rule_disagreement" \in reasons THEN 10 ELSE 0
           d == IF "repeated_automation_failure" \in reasons THEN 10 ELSE 0
<1>1. impact \in {0, 15, 30} /\ a \in {0, 15} /\ b \in {0, 10} /\ d \in {0, 10}
  BY DEF CaseShapes, Impacts
<1>2. Weight(case, reasons) = AtMost(100, 40 + impact + a + b + d)
  BY DEF Weight
<1> HIDE DEF impact, a, b, d
<1> QED
  BY <1>1, <1>2 DEF AtMost

LEMMA RoutedType ==
  ASSUME NEW case \in CaseShapes
  PROVE  /\ Routed(case).route \in {"human_review", "ask_customer", "automate"}
         /\ Routed(case).priority \in 0..100
BY WeightType DEF Routed, To

\* The answers a case must give to be automated, whatever the others are.
LEMMA RoutedAutomates ==
  ASSUME NEW case \in CaseShapes, Routed(case).route = "automate"
  PROVE  /\ ~case.asks_human /\ ~case.mandatory
         /\ Reasons(case) = {}
         /\ case.complete /\ case.confident
         /\ case.action \in {"approve", "reject"}
BY DEF Routed, To, CaseShapes

-----------------------------------------------------------------------------
(* Types *)

\* A case that was submitted has a shape, and one that was not has no version.
Submitted ==
  \A x \in Cases : IF records[x].state = "absent" THEN records[x].version = 0
                   ELSE records[x].shape \in Shapes

TypeInv == TypeOK /\ Submitted

LEMMA TypeInit == Init => TypeInv
BY LeaseAssumption
DEF Init, TypeInv, TypeOK, Submitted, Records, Items, Absent, NotQueued, States, Decisions

LEMMA ItemTypes ==
  /\ NotQueued \in Items
  /\ \A priority \in 0..100, sequence \in Nat : Enqueued(priority, sequence) \in Items
  /\ \A item \in Items, r \in Reviewers : LeasedTo(item, r) \in Items
  /\ \A item \in Items : Aged(item) \in Items
BY LeaseAssumption DEF Items, NotQueued, Enqueued, LeasedTo, Aged

\* A command leaves a record that exists, with the next version.
After(record, before) ==
  /\ record \in Records
  /\ record.state # "absent"
  /\ record.shape \in Shapes
  /\ record.version = before.version + 1

LEMMA RecordTypes ==
  ASSUME NEW record \in Records
  PROVE  /\ \A shape \in Shapes : record.version = 0 => After(Received(shape), record)
         /\ record.shape \in Shapes =>
              /\ \A route \in {"human_review", "ask_customer", "automate"} :
                   (route = "automate" => record.shape.action \in Decisions)
                     => After(RoutedRecord(record, route), record)
              /\ \A r \in Reviewers :
                   /\ After(AssignedRecord(record, r), record)
                   /\ \A d \in {"approve", "reject"} :
                        After(DecidedRecord(record, r, d), record)
BY DEF After, Records, States, Decisions, Received, RoutedRecord, StateOn, AssignedRecord,
       DecidedRecord

\* lease() takes nothing out of the heap but entries whose case has left the
\* queue, and puts nothing new in.
LEMMA LeaseKeeps ==
  ASSUME NEW e, NEW r, Lease(e, r)
  PROVE  /\ e \in heap /\ Free(queue[e.case_id])
         /\ heap' \subseteq heap
         /\ \A f \in heap : queue[f.case_id].queued => f \in heap'
BY DEF Lease, Selected, Popped, Deferred

\* What a command on one case has to show: its record and its item keep their
\* types, and a new version comes with one event.
LEMMA CaseStep ==
  ASSUME TypeInv, NEW x \in Cases,
         NEW record, After(record, records[x]), NEW item \in Items,
         records' = [records EXCEPT ![x] = record],
         queue' = [queue EXCEPT ![x] = item],
         heap' \subseteq Entries, arrivals' \in Nat,
         Logged(x), UNCHANGED away
  PROVE  TypeInv'
<1>1. records \in [Cases -> Records] /\ queue \in [Cases -> Items] /\ ledger \in [Cases -> Nat]
  BY DEF TypeInv, TypeOK
<1>2. records' \in [Cases -> Records] /\ queue' \in [Cases -> Items]
  BY <1>1 DEF After
<1>3. ledger' \in [Cases -> Nat] /\ ledger'[x] = ledger[x] + 1
  BY <1>1 DEF Logged
<1>4. \A y \in Cases : ledger'[y] = records'[y].version
  BY <1>1, <1>3 DEF TypeInv, TypeOK, Logged, After
<1>5. Submitted'
  BY <1>1 DEF TypeInv, Submitted, After
<1> QED
  BY <1>2, <1>3, <1>4, <1>5 DEF TypeInv, TypeOK

LEMMA TypeNext == TypeInv /\ [Next]_vars => TypeInv'
<1> SUFFICES ASSUME TypeInv, [Next]_vars PROVE TypeInv'
  OBVIOUS
<1>a. /\ records \in [Cases -> Records] /\ queue \in [Cases -> Items]
      /\ arrivals \in Nat /\ heap \subseteq Entries
      /\ \A x \in Cases : records[x].state = "absent" => records[x].version = 0
      /\ \A x \in Cases : records[x].state # "absent" => records[x].shape \in Shapes
  BY DEF TypeInv, TypeOK, Submitted
<1>1. ASSUME NEW x \in Cases, Submit(x) PROVE TypeInv'
  <2>1. PICK shape \in Shapes : records' = [records EXCEPT ![x] = Received(shape)]
    BY <1>1 DEF Submit
  <2>2. After(Received(shape), records[x])
    BY <1>1, <1>a, RecordTypes DEF Submit
  <2>3. queue' = [queue EXCEPT ![x] = queue[x]] /\ queue[x] \in Items
    BY <1>1, <1>a DEF Submit
  <2> QED
    BY <1>1, <1>a, <2>1, <2>2, <2>3, CaseStep DEF Submit
<1>2. ASSUME NEW x \in Cases, Route(x) PROVE TypeInv'
  <2> DEFINE to == Routed(records[x].shape)
  <2>1. records[x].shape \in CaseShapes /\ records[x].shape \in Shapes
    BY <1>2, <1>a, ShapesAssumption DEF Route
  <2>2. /\ to.route \in {"human_review", "ask_customer", "automate"}
        /\ to.priority \in 0..100
        /\ to.route = "automate" => records[x].shape.action \in Decisions
    BY <2>1, RoutedType, RoutedAutomates DEF Decisions
  <2>3. After(RoutedRecord(records[x], to.route), records[x])
    BY <1>a, <2>1, <2>2, RecordTypes
  <2>4. PICK item \in Items :
          /\ arrivals' \in Nat /\ queue' = [queue EXCEPT ![x] = item]
          /\ heap' \subseteq Entries
    <3>1. CASE to.route = "human_review"
      <4>1. /\ arrivals' = arrivals + 1
            /\ queue' = [queue EXCEPT ![x] = Enqueued(to.priority, arrivals + 1)]
            /\ heap' = heap \cup {Entry(x, to.priority, arrivals + 1)}
        BY <1>2, <3>1 DEF Route
      <4>2. Entry(x, to.priority, arrivals + 1) \in Entries
        BY <1>a, <2>2 DEF Entry, Entries
      <4>3. arrivals + 1 \in Nat /\ Enqueued(to.priority, arrivals + 1) \in Items
        BY <1>a, <2>2, ItemTypes
      <4> HIDE DEF to
      <4> QED
        BY <1>a, <4>1, <4>2, <4>3
    <3>2. CASE to.route # "human_review"
      <4>1. /\ queue' = [queue EXCEPT ![x] = queue[x]]
            /\ arrivals' = arrivals /\ heap' = heap
        BY <1>2, <1>a, <3>2 DEF Route
      <4> QED
        BY <1>a, <4>1
    <3> QED
      BY <3>1, <3>2
  <2>5. records' = [records EXCEPT ![x] = RoutedRecord(records[x], to.route)]
    BY <1>2 DEF Route
  <2> QED
    BY <1>2, <2>3, <2>4, <2>5, CaseStep DEF Route
<1>3. ASSUME NEW r \in Reviewers, AcceptReview(r) PROVE TypeInv'
  <2>1. PICK x \in Cases :
          /\ records[x].state = "queued_for_review"
          /\ queue' = [queue EXCEPT ![x] = LeasedTo(queue[x], r)]
          /\ records' = [records EXCEPT ![x] = AssignedRecord(records[x], r)]
          /\ Logged(x)
          /\ heap' \subseteq Entries
    BY <1>3, <1>a, LeaseKeeps DEF AcceptReview, Lease, Entries
  <2>2. After(AssignedRecord(records[x], r), records[x]) /\ LeasedTo(queue[x], r) \in Items
    BY <1>a, <2>1, RecordTypes, ItemTypes
  <2> QED
    BY <1>3, <1>a, <2>1, <2>2, CaseStep DEF AcceptReview
<1>4. ASSUME NEW r \in Reviewers, NEW stale \in BOOLEAN, AcceptRaises(r, stale) PROVE TypeInv'
  <2>1. PICK x \in Cases :
          queue' = [queue EXCEPT ![x] = LeasedTo(queue[x], r)] /\ heap' \subseteq Entries
    BY <1>4, <1>a, LeaseKeeps DEF AcceptRaises, Lease, Entries
  <2>2. queue' \in [Cases -> Items]
    BY <1>a, <2>1, ItemTypes
  <2> QED
    BY <1>4, <2>1, <2>2 DEF AcceptRaises, TypeInv, TypeOK, Submitted
<1>5. ASSUME NEW r \in Reviewers, Decide(r) PROVE TypeInv'
  <2>1. PICK x \in Cases :
          /\ records[x].state = "under_review"
          /\ queue' = [queue EXCEPT ![x] = NotQueued]
          /\ \E d \in {"approve", "reject"} :
               records' = [records EXCEPT ![x] = DecidedRecord(records[x], r, d)]
          /\ Logged(x)
    BY <1>5 DEF Decide, MayDecide
  <2>2. PICK d \in {"approve", "reject"} :
          records' = [records EXCEPT ![x] = DecidedRecord(records[x], r, d)]
    BY <2>1
  <2>3. After(DecidedRecord(records[x], r, d), records[x])
    BY <1>a, <2>1, RecordTypes
  <2> QED
    BY <1>5, <1>a, <2>1, <2>2, <2>3, ItemTypes, CaseStep DEF Decide
<1>6. CASE Tick
  <2>1. queue' \in [Cases -> Items]
    BY <1>6, <1>a, ItemTypes DEF Tick
  <2> QED
    BY <1>6, <2>1 DEF Tick, TypeInv, TypeOK, Submitted
<1>7. ASSUME NEW r \in Reviewers, GoHome(r) PROVE TypeInv'
  BY <1>7 DEF GoHome, TypeInv, TypeOK, Submitted
<1>8. ASSUME NEW r \in Reviewers, AcceptNothing(r) PROVE TypeInv'
  BY <1>8 DEF AcceptNothing, Deferred, TypeInv, TypeOK, Submitted
<1>9. CASE UNCHANGED vars
  BY <1>9 DEF vars, TypeInv, TypeOK, Submitted
<1> QED
  BY <1>1, <1>2, <1>3, <1>4, <1>5, <1>6, <1>7, <1>8, <1>9 DEF Next

\* Records, items and counters keep their types, and the ledger of a case has
\* one event for each version, for any number of cases and reviewers.
THEOREM TypeCorrect == Spec => []TypeOK
<1>1. TypeInv => TypeOK
  BY DEF TypeInv
<1> QED
  BY <1>1, TypeInit, TypeNext, PTL DEF Spec
-----------------------------------------------------------------------------
(* Automation *)

\* The steps that write a record, one case each.
LEMMA RecordStep ==
  ASSUME TypeInv, [Next]_vars
  PROVE  \/ records' = records
         \/ \E x \in Cases :
              /\ \A y \in Cases \ {x} : records'[y] = records[y]
              /\ \/ /\ records[x].state = "absent"
                    /\ \E shape \in Shapes : records'[x] = Received(shape)
                 \/ /\ records[x].state = "received"
                    /\ records'[x] = RoutedRecord(records[x], Routed(records[x].shape).route)
                 \/ \E r \in Reviewers :
                      /\ records[x].state = "queued_for_review"
                      /\ \E e \in heap : e.case_id = x /\ Selected(e)
                      /\ records'[x] = AssignedRecord(records[x], r)
                 \/ \E r \in Reviewers, d \in {"approve", "reject"} :
                      /\ records[x].state = "under_review"
                      /\ records[x].assigned_reviewer = r
                      /\ queue[x].leased_by = r
                      /\ records'[x] = DecidedRecord(records[x], r, d)
<1>a. records \in [Cases -> Records] /\ \A e \in heap : e.case_id \in Cases
  BY DEF TypeInv, TypeOK, Entries
<1>1. ASSUME NEW x \in Cases, Submit(x)
      PROVE  /\ \A y \in Cases \ {x} : records'[y] = records[y]
             /\ records[x].state = "absent"
             /\ \E shape \in Shapes : records'[x] = Received(shape)
  BY <1>1, <1>a DEF Submit
<1>2. ASSUME NEW x \in Cases, Route(x)
      PROVE  /\ \A y \in Cases \ {x} : records'[y] = records[y]
             /\ records[x].state = "received"
             /\ records'[x] = RoutedRecord(records[x], Routed(records[x].shape).route)
  BY <1>2, <1>a DEF Route
<1>3. ASSUME NEW r \in Reviewers, AcceptReview(r)
      PROVE  \E x \in Cases :
               /\ \A y \in Cases \ {x} : records'[y] = records[y]
               /\ records[x].state = "queued_for_review"
               /\ \E e \in heap : e.case_id = x /\ Selected(e)
               /\ records'[x] = AssignedRecord(records[x], r)
  BY <1>3, <1>a DEF AcceptReview, Lease
<1>4. ASSUME NEW r \in Reviewers, Decide(r)
      PROVE  \E x \in Cases, d \in {"approve", "reject"} :
               /\ \A y \in Cases \ {x} : records'[y] = records[y]
               /\ records[x].state = "under_review"
               /\ records[x].assigned_reviewer = r
               /\ queue[x].leased_by = r
               /\ records'[x] = DecidedRecord(records[x], r, d)
  BY <1>4, <1>a DEF Decide, MayDecide, MayComplete
<1>5. \/ records' = records
      \/ \E x \in Cases : Submit(x) \/ Route(x)
      \/ \E r \in Reviewers : AcceptReview(r) \/ Decide(r)
  BY DEF Next, AcceptRaises, AcceptNothing, Tick, GoHome, vars
<1>6. CASE \E x \in Cases : Submit(x) \/ Route(x)
  BY <1>1, <1>2, <1>6
<1>7. CASE \E r \in Reviewers : AcceptReview(r) \/ Decide(r)
  BY <1>3, <1>4, <1>7
<1> QED
  BY <1>5, <1>6, <1>7

\* No decision is taken without a human on a case the customer, the policy, the
\* evidence, the check or its own failures speak against, whatever else is true
\* of the case: no combination of answers gets past the order of the router's
\* returns.
THEOREM RiskGoesToPeople == Spec => []RiskyIsNeverAutomated
<1> DEFINE Clean(shape) ==
      /\ ~shape.asks_human /\ ~shape.mandatory /\ Reasons(shape) = {}
      /\ shape.complete /\ shape.confident
           Right(record) ==
      record.decided_by = "policy" =>
        Clean(record.shape) /\ record.decision \in {"approve", "reject"}
           Inv == \A x \in Cases : Right(records[x])
<1>1. Init => Inv
  BY DEF Init, Absent
<1>2. ASSUME TypeInv, Inv, [Next]_vars PROVE Inv'
  <2>a. /\ records \in [Cases -> Records]
        /\ \A x \in Cases : records[x].state # "absent" => records[x].shape \in CaseShapes
    BY <1>2, ShapesAssumption DEF TypeInv, TypeOK, Submitted
  <2>1. \A shape \in Shapes : Right(Received(shape))
    BY DEF Received
  <2>2. ASSUME NEW x \in Cases, records[x].state = "received"
        PROVE  Right(RoutedRecord(records[x], Routed(records[x].shape).route))
    <3> DEFINE shape == records[x].shape
               record == RoutedRecord(records[x], Routed(shape).route)
    <3>1. shape \in CaseShapes
      BY <2>a, <2>2
    <3>2. CASE Routed(shape).route = "automate"
      <4>1. record.shape = shape /\ record.decision = shape.action
        BY <3>2 DEF RoutedRecord
      <4> QED
        BY <3>1, <3>2, <4>1, RoutedAutomates
    <3>3. CASE Routed(shape).route # "automate"
      <4>1. /\ record.shape = shape /\ record.decision = records[x].decision
            /\ record.decided_by = records[x].decided_by
        BY <3>3 DEF RoutedRecord
      <4> QED
        BY <1>2, <4>1
    <3> QED
      BY <3>2, <3>3
  <2>3. \A x \in Cases, r \in Reviewers : Right(AssignedRecord(records[x], r))
    BY <1>2 DEF AssignedRecord
  <2>4. \A x \in Cases, r \in Reviewers, d \in {"approve", "reject"} :
          Right(DecidedRecord(records[x], r, d))
    BY NamesAssumption DEF DecidedRecord
  <2> HIDE DEF Right
  <2> QED
    BY <1>2, <2>1, <2>2, <2>3, <2>4, RecordStep
<1>3. TypeInv /\ Inv /\ [Next]_vars => Inv'
  BY <1>2
<1>4. Inv => RiskyIsNeverAutomated
  BY DEF RiskyIsNeverAutomated
<1> HIDE DEF Inv
<1> QED
  BY <1>1, <1>3, <1>4, TypeInit, TypeNext, PTL DEF Spec

-----------------------------------------------------------------------------
(* Review *)

LEMMA StatesApart ==
  /\ \A shape \in Shapes : Received(shape).state = "received"
  /\ \A record \in Records, r \in Reviewers : AssignedRecord(record, r).state = "under_review"
  /\ \A record \in Records, r \in Reviewers, d \in {"approve", "reject"} :
       DecidedRecord(record, r, d).state = "decided"
       /\ DecidedRecord(record, r, d).decided_by = r
BY DEF Received, AssignedRecord, DecidedRecord

\* A review ends only by the reviewer who is assigned to the case and was the
\* latest to lease it, for any number of cases and reviewers.
THEOREM HolderDecides == Spec => AssignedHolderDecides
<1> DEFINE Step == \A x \in Cases :
       records[x].state = "under_review" /\ records'[x].state = "decided" =>
         /\ records'[x].decided_by = records[x].assigned_reviewer
         /\ records'[x].decided_by = queue[x].leased_by
<1>1. ASSUME TypeInv, [Next]_vars PROVE Step
  <2>1. \A x \in Cases : records[x] \in Records
    BY <1>1 DEF TypeInv, TypeOK
  <2> QED
    BY <1>1, <2>1, RecordStep, StatesApart
<1>2. TypeInv /\ [Next]_vars => [Step]_vars
  BY <1>1
<1> QED
  BY <1>2, TypeInit, TypeNext, PTL DEF Spec, AssignedHolderDecides

-----------------------------------------------------------------------------
(* Queue and workflow *)

Agree(record, item) ==
  /\ item.queued <=> record.state \in {"queued_for_review", "under_review"}
  /\ item.queued => item.priority = Routed(record.shape).priority
  /\ record.state = "under_review" =>
       item.leased_by # NoOne /\ record.assigned_reviewer # NoOne

\* What each command does to an item and a record that agree.
LEMMA AgreeSteps ==
  ASSUME NEW record \in Records, NEW item \in Items, Agree(record, item)
  PROVE  /\ record.state = "absent" => \A shape \in Shapes : Agree(Received(shape), item)
         /\ record.state = "received" =>
              /\ \A n \in Nat :
                   Agree(RoutedRecord(record, "human_review"),
                         Enqueued(Routed(record.shape).priority, n))
              /\ \A route \in {"ask_customer", "automate"} :
                   Agree(RoutedRecord(record, route), item)
         /\ item.queued => \A r \in Reviewers :
              /\ Agree(record, LeasedTo(item, r))
              /\ Agree(AssignedRecord(record, r), LeasedTo(item, r))
         /\ \A r \in Reviewers, d \in {"approve", "reject"} :
              Agree(DecidedRecord(record, r, d), NotQueued)
         /\ Agree(record, Aged(item))
<1>1. record.state = "absent" => \A shape \in Shapes : Agree(Received(shape), item)
  BY DEF Agree, Received
<1>2. record.state = "received" =>
        \A n \in Nat : Agree(RoutedRecord(record, "human_review"),
                             Enqueued(Routed(record.shape).priority, n))
  BY DEF Agree, RoutedRecord, StateOn, Enqueued
<1>3. record.state = "received" =>
        \A route \in {"ask_customer", "automate"} : Agree(RoutedRecord(record, route), item)
  BY DEF Agree, RoutedRecord, StateOn
<1>4. item.queued => \A r \in Reviewers :
        /\ Agree(record, LeasedTo(item, r))
        /\ Agree(AssignedRecord(record, r), LeasedTo(item, r))
  BY NoOneAssumption DEF Agree, LeasedTo, AssignedRecord
<1>5. \A r \in Reviewers, d \in {"approve", "reject"} :
        Agree(DecidedRecord(record, r, d), NotQueued)
  BY DEF Agree, DecidedRecord, NotQueued
<1>6. Agree(record, Aged(item))
  BY DEF Agree, Aged
<1> QED
  BY <1>1, <1>2, <1>3, <1>4, <1>5, <1>6

AllAgree == \A x \in Cases : Agree(records[x], queue[x])

LEMMA AgreeNext == TypeInv /\ AllAgree /\ [Next]_vars => AllAgree'
<1> SUFFICES ASSUME TypeInv, AllAgree, [Next]_vars PROVE AllAgree'
  OBVIOUS
<1>a. /\ records \in [Cases -> Records] /\ queue \in [Cases -> Items] /\ arrivals \in Nat
      /\ heap \subseteq Entries
      /\ \A x \in Cases : Agree(records[x], queue[x])
  BY DEF TypeInv, TypeOK, AllAgree
<1>1. ASSUME NEW x \in Cases, Submit(x) PROVE AllAgree'
  BY <1>1, <1>a, AgreeSteps DEF Submit, AllAgree
<1>2. ASSUME NEW x \in Cases, Route(x) PROVE AllAgree'
  <2> DEFINE to == Routed(records[x].shape)
  <2>1. to.route \in {"human_review", "ask_customer", "automate"}
    BY <1>2, ShapesAssumption, RoutedType DEF Route, TypeInv, Submitted
  <2>2. /\ records[x].state = "received"
        /\ records' = [records EXCEPT ![x] = RoutedRecord(records[x], to.route)]
        /\ to.route = "human_review" =>
             queue' = [queue EXCEPT ![x] = Enqueued(to.priority, arrivals + 1)]
        /\ to.route # "human_review" => queue' = queue
    BY <1>2 DEF Route
  <2>3. arrivals + 1 \in Nat
    BY <1>a
  <2>4. CASE to.route = "human_review"
    <3>1. Agree(records'[x], queue'[x])
      BY <1>a, <2>2, <2>3, <2>4, AgreeSteps
    <3> QED
      BY <1>a, <2>2, <2>4, <3>1 DEF AllAgree
  <2>5. CASE to.route # "human_review"
    <3>1. Agree(records'[x], queue'[x])
      BY <1>a, <2>1, <2>2, <2>5, AgreeSteps
    <3> QED
      BY <1>a, <2>2, <2>5, <3>1 DEF AllAgree
  <2> QED
    BY <2>4, <2>5
<1>3. ASSUME NEW r \in Reviewers, AcceptReview(r) PROVE AllAgree'
  <2>1. PICK x \in Cases :
          /\ queue[x].queued
          /\ queue' = [queue EXCEPT ![x] = LeasedTo(queue[x], r)]
          /\ records' = [records EXCEPT ![x] = AssignedRecord(records[x], r)]
    BY <1>3, <1>a DEF AcceptReview, Lease, Selected, Free, Entries
  <2> QED
    BY <1>a, <2>1, AgreeSteps DEF AllAgree
<1>4. ASSUME NEW r \in Reviewers, NEW stale \in BOOLEAN, AcceptRaises(r, stale) PROVE AllAgree'
  <2>1. PICK x \in Cases :
          /\ queue[x].queued
          /\ queue' = [queue EXCEPT ![x] = LeasedTo(queue[x], r)]
          /\ records' = records
    BY <1>4, <1>a DEF AcceptRaises, Lease, Selected, Free, Entries
  <2> QED
    BY <1>a, <2>1, AgreeSteps DEF AllAgree
<1>5. ASSUME NEW r \in Reviewers, Decide(r) PROVE AllAgree'
  BY <1>5, <1>a, AgreeSteps DEF Decide, AllAgree
<1>6. CASE Tick
  BY <1>6, <1>a, AgreeSteps DEF Tick, AllAgree
<1>7. ASSUME NEW r \in Reviewers, GoHome(r) PROVE AllAgree'
  BY <1>7, <1>a DEF GoHome, AllAgree
<1>8. ASSUME NEW r \in Reviewers, AcceptNothing(r) PROVE AllAgree'
  BY <1>8, <1>a DEF AcceptNothing, AllAgree
<1>9. CASE UNCHANGED vars
  BY <1>9, <1>a DEF vars, AllAgree
<1> QED
  BY <1>1, <1>2, <1>3, <1>4, <1>5, <1>6, <1>7, <1>8, <1>9 DEF Next

-----------------------------------------------------------------------------
(* Queue and heap *)

EntryOf(x) == Entry(x, queue[x].priority, queue[x].sequence)

\* A case that is queued has its entry in the heap and no other; one that has
\* not been routed has none.
HeapRight ==
  /\ \A x \in Cases : queue[x].queued => EntryOf(x) \in heap
  /\ \A e \in heap : queue[e.case_id].queued => e = EntryOf(e.case_id)
  /\ \A e \in heap : records[e.case_id].state \notin {"absent", "received"}

\* The steps after which a case is queued that was, in the same place, and of
\* whose entry the heap has lost none.
LEMMA HeapStays ==
  ASSUME TypeInv, HeapRight,
         \A x \in Cases :
           /\ queue'[x].queued => queue[x].queued
           /\ queue'[x].queued => EntryOf(x)' = EntryOf(x)
           /\ records[x].state \notin {"absent", "received"}
                => records'[x].state \notin {"absent", "received"},
         heap' \subseteq heap,
         \A e \in heap : queue[e.case_id].queued => e \in heap'
  PROVE  HeapRight'
<1>1. \A e \in heap : e.case_id \in Cases
  BY DEF TypeInv, TypeOK, Entries
<1>2. \A x \in Cases : EntryOf(x).case_id = x
  BY DEF EntryOf, Entry
<1>3. ASSUME NEW x \in Cases, queue'[x].queued PROVE EntryOf(x)' \in heap'
  <2>1. queue[x].queued /\ EntryOf(x) \in heap
    BY <1>3 DEF HeapRight
  <2>2. EntryOf(x) \in heap'
    BY <1>2, <2>1
  <2>3. EntryOf(x)' = EntryOf(x)
    BY <1>3
  <2> QED
    BY <2>2, <2>3
<1>4. ASSUME NEW e \in heap', queue'[e.case_id].queued PROVE e = EntryOf(e.case_id)'
  <2>1. e \in heap /\ e.case_id \in Cases
    BY <1>1
  <2>2. e = EntryOf(e.case_id)
    BY <1>4, <2>1 DEF HeapRight
  <2>3. EntryOf(e.case_id)' = EntryOf(e.case_id)
    BY <1>4, <2>1
  <2> QED
    BY <2>2, <2>3
<1>5. ASSUME NEW e \in heap' PROVE records'[e.case_id].state \notin {"absent", "received"}
  BY <1>1, <1>5 DEF HeapRight
<1> QED
  BY <1>3, <1>4, <1>5 DEF HeapRight

LEMMA HeapNext == TypeInv /\ AllAgree /\ HeapRight /\ [Next]_vars => HeapRight'
<1> SUFFICES ASSUME TypeInv, AllAgree, HeapRight, [Next]_vars PROVE HeapRight'
  OBVIOUS
<1>a. /\ records \in [Cases -> Records] /\ queue \in [Cases -> Items]
      /\ \A e \in heap : e.case_id \in Cases
  BY DEF TypeInv, TypeOK, Entries
<1>1. ASSUME NEW x \in Cases, Submit(x) PROVE HeapRight'
  <2>1. /\ queue' = queue /\ heap' = heap
        /\ \A y \in Cases : y = x \/ records'[y] = records[y]
        /\ records[x].state = "absent"
    BY <1>1, <1>a DEF Submit
  <2> QED
    BY <2>1, HeapStays DEF EntryOf
<1>2. ASSUME NEW x \in Cases, Route(x) PROVE HeapRight'
  <2> DEFINE to == Routed(records[x].shape)
             new == Entry(x, to.priority, arrivals + 1)
  <2>1. /\ records[x].state = "received"
        /\ records' = [records EXCEPT ![x] = RoutedRecord(records[x], to.route)]
    BY <1>2 DEF Route
  <2>2. CASE to.route = "human_review"
    <3>1. /\ queue' = [queue EXCEPT ![x] = Enqueued(to.priority, arrivals + 1)]
          /\ heap' = heap \cup {new}
      BY <1>2, <2>2 DEF Route
    <3>2. /\ \A y \in Cases \ {x} : queue'[y] = queue[y] /\ records'[y] = records[y]
          /\ queue'[x] = Enqueued(to.priority, arrivals + 1)
          /\ records'[x].state = "queued_for_review"
      BY <1>a, <2>1, <2>2, <3>1 DEF RoutedRecord, StateOn
    <3>3. EntryOf(x)' = new
      BY <3>2 DEF EntryOf, Entry, Enqueued
    <3>4. \A y \in Cases \ {x} : EntryOf(y)' = EntryOf(y)
      BY <3>2 DEF EntryOf
    <3>5. \A e \in heap : e.case_id \in Cases \ {x}
      BY <1>a, <2>1 DEF HeapRight
    <3>6. new.case_id = x
      BY DEF Entry
    <3> HIDE DEF new
    <3>7. \A y \in Cases : queue'[y].queued => EntryOf(y)' \in heap'
      BY <3>1, <3>2, <3>3, <3>4 DEF HeapRight
    <3>8. ASSUME NEW e \in heap', queue'[e.case_id].queued PROVE e = EntryOf(e.case_id)'
      <4>1. CASE e = new
        BY <3>3, <3>6, <4>1
      <4>2. CASE e \in heap
        BY <3>2, <3>4, <3>5, <3>8, <4>2 DEF HeapRight
      <4> QED
        BY <3>1, <4>1, <4>2
    <3>9. \A e \in heap' : records'[e.case_id].state \notin {"absent", "received"}
      BY <3>1, <3>2, <3>5, <3>6 DEF HeapRight
    <3> QED
      BY <3>7, <3>8, <3>9 DEF HeapRight
  <2>3. CASE to.route # "human_review"
    <3>1. queue' = queue /\ heap' = heap
      BY <1>2, <2>3 DEF Route
    <3>2. \A y \in Cases \ {x} : records'[y] = records[y]
      BY <1>a, <2>1
    <3> QED
      BY <2>1, <3>1, <3>2, HeapStays DEF EntryOf
  <2> QED
    BY <2>2, <2>3
<1>3. ASSUME NEW e, NEW r, Lease(e, r),
             \/ records' = records
             \/ /\ records' = [records EXCEPT ![e.case_id] = AssignedRecord(@, r)]
      PROVE  HeapRight'
  <2>1. /\ e \in heap /\ heap' \subseteq heap
        /\ \A f \in heap : queue[f.case_id].queued => f \in heap'
        /\ queue[e.case_id].queued
    BY <1>3, LeaseKeeps DEF Free
  <2>2. queue' = [queue EXCEPT ![e.case_id] = LeasedTo(queue[e.case_id], r)]
    BY <1>3 DEF Lease
  <2>3. \A y \in Cases : /\ queue'[y].queued = queue[y].queued
                         /\ queue'[y].priority = queue[y].priority
                         /\ queue'[y].sequence = queue[y].sequence
    BY <1>a, <2>1, <2>2 DEF LeasedTo, Items
  <2>4. \A y \in Cases : records'[y] = records[y] \/ records'[y].state = "under_review"
    BY <1>3, <1>a DEF AssignedRecord
  <2> QED
    BY <2>1, <2>3, <2>4, HeapStays DEF EntryOf
<1>4. ASSUME NEW r \in Reviewers, AcceptReview(r) PROVE HeapRight'
  BY <1>3, <1>4 DEF AcceptReview
<1>5. ASSUME NEW r \in Reviewers, NEW stale \in BOOLEAN, AcceptRaises(r, stale)
      PROVE  HeapRight'
  BY <1>3, <1>5 DEF AcceptRaises
<1>6. ASSUME NEW r \in Reviewers, AcceptNothing(r) PROVE HeapRight'
  <2>1. /\ queue' = queue /\ records' = records /\ heap' \subseteq heap
        /\ \A f \in heap : queue[f.case_id].queued => f \in heap'
    BY <1>6 DEF AcceptNothing, Deferred
  <2> QED
    BY <2>1, HeapStays DEF EntryOf
<1>7. ASSUME NEW r \in Reviewers, Decide(r) PROVE HeapRight'
  <2>1. PICK x \in Cases, d \in {"approve", "reject"} :
          /\ queue' = [queue EXCEPT ![x] = NotQueued]
          /\ records' = [records EXCEPT ![x] = DecidedRecord(records[x], r, d)]
          /\ heap' = heap
    BY <1>7 DEF Decide
  <2>2. /\ \A y \in Cases \ {x} : queue'[y] = queue[y] /\ records'[y] = records[y]
        /\ ~queue'[x].queued /\ records'[x].state = "decided"
    BY <1>a, <2>1 DEF NotQueued, DecidedRecord
  <2> QED
    BY <2>1, <2>2, HeapStays DEF EntryOf
<1>8. CASE Tick
  <2>1. \A y \in Cases : /\ queue'[y].queued = queue[y].queued
                         /\ queue'[y].priority = queue[y].priority
                         /\ queue'[y].sequence = queue[y].sequence
    BY <1>8, <1>a DEF Tick, Aged
  <2>2. records' = records /\ heap' = heap
    BY <1>8 DEF Tick
  <2> QED
    BY <2>1, <2>2, HeapStays DEF EntryOf
<1>9. CASE UNCHANGED <<records, queue, heap>>
  BY <1>9 DEF HeapRight, EntryOf
<1> QED
  BY <1>1, <1>2, <1>4, <1>5, <1>6, <1>7, <1>8, <1>9 DEF Next, GoHome, vars

LEMMA HeapAlways == Spec => [](TypeInv /\ AllAgree /\ HeapRight)
<1>1. Init => AllAgree /\ HeapRight
  BY DEF Init, AllAgree, Agree, HeapRight, Absent, NotQueued
<1> QED
  BY <1>1, TypeInit, TypeNext, AgreeNext, HeapNext, PTL DEF Spec

\* Queue and workflow agree after every command, those that raise half-way
\* included: a case has an item, of its route's priority, exactly while it
\* waits or is under review, a case under review is leased, and every item has
\* its entry in the heap, whatever was popped and dropped before.
THEOREM QueueIsWorkflow == Spec => []QueueMatchesCases
<1>1. AllAgree /\ HeapRight => QueueMatchesCases
  BY DEF AllAgree, Agree, HeapRight, EntryOf, QueueMatchesCases
<1> QED
  BY <1>1, HeapAlways, PTL

\* A reviewer is never given a case while a more urgent one, or one as urgent
\* that came earlier, waits unleased, for any number of cases and reviewers:
\* lease() takes the first free entry of the heap, and every free case has one.
THEOREM UrgentIsFirst == Spec => UrgentFirst
<1> DEFINE Step == \A x, y \in Cases :
       /\ x # y
       /\ records[x].state = "queued_for_review"
       /\ records'[x].state = "under_review"
       /\ records[y].state = "queued_for_review"
       /\ Free(queue[y])
       => \/ queue[y].priority < queue[x].priority
          \/ /\ queue[y].priority = queue[x].priority
             /\ queue[x].sequence < queue[y].sequence
<1>1. ASSUME TypeInv, HeapRight, [Next]_vars PROVE Step
  <2> SUFFICES ASSUME NEW x \in Cases, NEW y \in Cases,
                      x # y,
                      records[x].state = "queued_for_review",
                      records'[x].state = "under_review",
                      Free(queue[y])
               PROVE  \/ queue[y].priority < queue[x].priority
                      \/ /\ queue[y].priority = queue[x].priority
                         /\ queue[x].sequence < queue[y].sequence
    OBVIOUS
  <2>1. \A z \in Cases : /\ records[z] \in Records
                         /\ queue[z].priority \in Nat /\ queue[z].sequence \in Nat
    BY <1>1 DEF TypeInv, TypeOK, Items
  <2>2. PICK e \in heap : e.case_id = x /\ Selected(e)
    BY <1>1, <2>1, RecordStep
  <2>3. e = EntryOf(x)
    BY <1>1, <2>2 DEF HeapRight, Selected, Free
  <2>4. EntryOf(y) \in heap /\ EntryOf(y).case_id = y
    BY <1>1 DEF HeapRight, Free, EntryOf, Entry
  <2>5. Before(e, EntryOf(y))
    BY <2>2, <2>4 DEF Selected
  <2>6. \/ queue[x].priority > queue[y].priority
        \/ /\ queue[x].priority = queue[y].priority
           /\ queue[x].sequence < queue[y].sequence
    BY <2>3, <2>5 DEF Before, EntryOf, Entry
  <2> QED
    BY <2>1, <2>6
<1>2. TypeInv /\ HeapRight /\ [Next]_vars => [Step]_vars
  BY <1>1
<1> QED
  BY <1>2, HeapAlways, PTL DEF Spec, UrgentFirst

-----------------------------------------------------------------------------
(* Abandoned reviews *)

\* Case x is under review by someone who has gone home.
Abandoned(x) ==
  records[x].state = "under_review" /\ records[x].assigned_reviewer \in away

AbandonedStep ==
  \A x \in Cases : Abandoned(x) => Abandoned(x)' /\ records'[x] = records[x]

LEMMA AbandonedNext == TypeInv /\ [Next]_vars => [AbandonedStep]_vars
<1> SUFFICES ASSUME TypeInv, Next, NEW x \in Cases, Abandoned(x)
             PROVE  Abandoned(x)' /\ records'[x] = records[x]
  BY DEF AbandonedStep
<1>1. away \subseteq away'
  BY DEF Next, Submit, Route, AcceptReview, AcceptRaises, AcceptNothing, Decide, Tick, GoHome
<1>2. ASSUME NEW r \in Reviewers, Decide(r) PROVE records'[x] = records[x]
  <2>1. PICK y \in Cases :
          /\ records[y].assigned_reviewer = r
          /\ \E d \in {"approve", "reject"} :
               records' = [records EXCEPT ![y] = DecidedRecord(@, r, d)]
    BY <1>2 DEF Decide, MayDecide
  <2>2. y # x
    BY <1>2, <2>1 DEF Decide, Abandoned
  <2> QED
    BY <2>1, <2>2 DEF TypeInv, TypeOK
<1>3. ASSUME NEW y \in Cases, Submit(y) \/ Route(y) PROVE records'[x] = records[x]
  <2>1. y # x
    BY <1>3 DEF Submit, Route, Abandoned
  <2> QED
    BY <1>3, <2>1 DEF Submit, Route, TypeInv, TypeOK
<1>4. ASSUME NEW r \in Reviewers, AcceptReview(r) PROVE records'[x] = records[x]
  <2>1. PICK y \in Cases :
          /\ records[y].state = "queued_for_review"
          /\ records' = [records EXCEPT ![y] = AssignedRecord(@, r)]
    BY <1>4 DEF AcceptReview, TypeInv, TypeOK, Entries
  <2>2. y # x
    BY <2>1 DEF Abandoned
  <2> QED
    BY <2>1, <2>2 DEF TypeInv, TypeOK
<1>5. records'[x] = records[x]
  BY <1>2, <1>3, <1>4 DEF Next, AcceptRaises, AcceptNothing, Tick, GoHome
<1> QED
  BY <1>1, <1>5 DEF Abandoned

\* A case whose reviewer went home during the review stays with him for ever:
\* its lease runs out and the queue gives it to others again and again, but
\* accept_review assigns only a case that waits and decide accepts only the
\* assigned reviewer, so nobody who leases it can do anything with it.
THEOREM AbandonedReviewsStay == Spec => [][AbandonedStep]_vars
<1>1. Spec => []TypeInv
  BY TypeInit, TypeNext, PTL DEF Spec
<1> QED
  BY <1>1, AbandonedNext, PTL DEF Spec
=============================================================================

-------------------------- MODULE EventStreamProofs --------------------------
(***************************************************************************)
(* Theorems about EventStream for every number of events, dispatchers,     *)
(* consumers and partitions, and any number of faults.  TypeInv bounds     *)
(* what refers to the outbox and to the log, and carries InStep: Kafka's   *)
(* position of a partition and the message its member works on move        *)
(* together.  AckingIsLogged, Recorded and CountedOnce rest on it.  InTurn *)
(* and ReadInTurn say when the order of the events is kept and where a     *)
(* partition stops.                                                        *)
(***************************************************************************)
EXTENDS EventStream, LeastElements, SequenceTheorems

DispatcherPCs == {"idle", "publishing", "acking", "rejecting"}
Memberships == [assigned : Consumers \cup {None}, position : Nat, committed : Nat]
ConsumerLocals ==
  [pc : {"idle", "received", "applied"}, partition : Partitions \cup {None}, offset : Nat]

Events == 1..Len(outbox)

Shapes ==
  /\ outbox \in Seq(Rows)
  /\ dispatcher \in [Dispatchers -> [pc : DispatcherPCs, batch : SUBSET Events]]
  /\ log \in [Partitions -> Seq(Events)]
  /\ group \in [Partitions -> Memberships]
  /\ consumer \in [Consumers -> ConsumerLocals]
  /\ inbox \in SUBSET Events
  /\ counts \in [Aggregates -> Nat]
  /\ faults \in 0..MaxFaults

BatchesFit ==
  \A d \in Dispatchers : dispatcher[d].pc = "idle" <=> dispatcher[d].batch = {}

OffsetsFit ==
  \A p \in Partitions :
    /\ 1 <= group[p].committed
    /\ group[p].committed <= group[p].position
    /\ group[p].position <= Len(log[p]) + 1

MessagesFit ==
  \A c \in Consumers :
    consumer[c].pc # "idle" =>
      /\ consumer[c].partition \in Partitions
      /\ consumer[c].offset \in 1..Len(log[consumer[c].partition])

Works(c, p) == consumer[c].pc # "idle" /\ consumer[c].partition = p

\* A member that works on a message of a partition it still holds has read one
\* record beyond the committed offset; where it works on nothing, none.
InStep ==
  \A p \in Partitions, c \in Consumers :
    group[p].assigned = c =>
      /\ Works(c, p) => /\ group[p].committed = consumer[c].offset
                        /\ group[p].position = consumer[c].offset + 1
      /\ ~Works(c, p) => group[p].committed = group[p].position

TypeInv == Shapes /\ BatchesFit /\ OffsetsFit /\ MessagesFit /\ InStep

-----------------------------------------------------------------------------
(* Rows *)

SameEvent(row, next) ==
  next \in Rows /\ next.aggregate = row.aggregate /\ next.kind = row.kind

LEMMA NewRowType ==
  ASSUME NEW a \in Aggregates, NEW kind \in Kinds
  PROVE  /\ NewRow(a, kind) \in Rows
         /\ NewRow(a, kind).aggregate = a
         /\ NewRow(a, kind).kind = kind
         /\ ~NewRow(a, kind).published
BY TicksAssumption DEF NewRow, Rows

LEMMA TickBounds ==
  /\ {0, LeaseTicks} \subseteq 0..LeaseTicks
  /\ {0, RetryTicks} \subseteq 0..RetryTicks
BY TicksAssumption

LEMMA LeasedRowType ==
  ASSUME NEW row \in Rows, NEW d \in Dispatchers
  PROVE  SameEvent(row, LeasedRow(row, d)) /\ LeasedRow(row, d).published = row.published
<1>1. LeasedRow(row, d) \in Rows
  BY TickBounds DEF LeasedRow, Rows
<1>2. LeasedRow(row, d).aggregate = row.aggregate
  BY DEF LeasedRow, Rows
<1>3. LeasedRow(row, d).kind = row.kind
  BY DEF LeasedRow, Rows
<1>4. LeasedRow(row, d).published = row.published
  BY DEF LeasedRow, Rows
<1> QED
  BY <1>1, <1>2, <1>3, <1>4 DEF SameEvent

LEMMA PublishedRowType ==
  ASSUME NEW row \in Rows
  PROVE  SameEvent(row, PublishedRow(row))
<1>1. PublishedRow(row) \in Rows
  BY TickBounds DEF PublishedRow, Rows
<1>2. PublishedRow(row).aggregate = row.aggregate
  BY DEF PublishedRow, Rows
<1>3. PublishedRow(row).kind = row.kind
  BY DEF PublishedRow, Rows
<1> QED
  BY <1>1, <1>2, <1>3 DEF SameEvent

LEMMA RejectedRowType ==
  ASSUME NEW row \in Rows
  PROVE  SameEvent(row, RejectedRow(row)) /\ RejectedRow(row).published = row.published
<1>1. RejectedRow(row) \in Rows
  BY TickBounds DEF RejectedRow, Rows
<1>2. RejectedRow(row).aggregate = row.aggregate
  BY DEF RejectedRow, Rows
<1>3. RejectedRow(row).kind = row.kind
  BY DEF RejectedRow, Rows
<1>4. RejectedRow(row).published = row.published
  BY DEF RejectedRow, Rows
<1> QED
  BY <1>1, <1>2, <1>3, <1>4 DEF SameEvent

LEMMA AgedRowType ==
  ASSUME NEW row \in Rows
  PROVE  SameEvent(row, AgedRow(row)) /\ AgedRow(row).published = row.published
<1>a. /\ Countdown(row.lease) \in 0..LeaseTicks
      /\ Countdown(row.delay) \in 0..RetryTicks
  BY TicksAssumption DEF Countdown, Rows
<1>1. AgedRow(row) \in Rows
  BY <1>a DEF AgedRow, Rows
<1>2. AgedRow(row).aggregate = row.aggregate
  BY DEF AgedRow, Rows
<1>3. AgedRow(row).kind = row.kind
  BY DEF AgedRow, Rows
<1>4. AgedRow(row).published = row.published
  BY DEF AgedRow, Rows
<1> QED
  BY <1>1, <1>2, <1>3, <1>4 DEF SameEvent

LEMMA Listed ==
  ASSUME NEW S, NEW n \in Nat, NEW f \in [1..n -> S]
  PROVE  f \in Seq(S) /\ Len(f) = n
<1>1. f \in Seq(S)
  BY SeqDef
<1>2. DOMAIN f = 1..n /\ DOMAIN f = 1..Len(f) /\ Len(f) \in Nat
  BY <1>1, LenProperties
<1> QED
  BY <1>1, <1>2

\* The event drain works on is one of its batch.
LEMMA CurrentInBatch ==
  ASSUME Shapes, BatchesFit, NEW d \in Dispatchers, dispatcher[d].pc # "idle"
  PROVE  Current(d) \in dispatcher[d].batch /\ Current(d) \in Events
<1>1. dispatcher[d].batch \in SUBSET Events /\ dispatcher[d].batch # {}
  BY DEF Shapes, BatchesFit
<1>2. Events \subseteq Nat
  BY DEF Events
<1>3. dispatcher[d].batch \in SUBSET Nat
  BY <1>1, <1>2
<1>4. \E e \in dispatcher[d].batch : \A k \in dispatcher[d].batch : e <= k
  BY <1>1, <1>3, LeastNat
<1> QED
  BY <1>1, <1>4 DEF Current

LEMMA OutboxDomain ==
  ASSUME Shapes
  PROVE  /\ DOMAIN outbox = Events
         /\ outbox \in [Events -> Rows]
         /\ Len(outbox) \in Nat
BY LenProperties DEF Shapes, Events

\* A step leaves aggregate and kind of every row alone and only adds rows.
RowsKept ==
  /\ outbox' \in Seq(Rows)
  /\ Len(outbox) <= Len(outbox') /\ Len(outbox') \in Nat
  /\ \A e \in Events : SameEvent(outbox[e], outbox'[e])

\* Only the row a dispatcher is about to acknowledge becomes published.
NewlyPublished ==
  \A e \in 1..Len(outbox') :
    outbox'[e].published =>
      /\ e \in Events
      /\ \/ outbox[e].published
         \/ \E d \in Dispatchers : dispatcher[d].pc = "acking" /\ e = Current(d)

LEMMA Rewritten ==
  ASSUME Shapes, outbox' \in [Events -> Rows],
         \A e \in Events : SameEvent(outbox[e], outbox'[e])
  PROVE  RowsKept /\ Len(outbox') = Len(outbox)
BY OutboxDomain, Listed DEF RowsKept, Events

LEMMA RowStep ==
  ASSUME Shapes, BatchesFit, [Next]_vars
  PROVE  RowsKept /\ NewlyPublished
<1>a. \A e \in Events : outbox[e] \in Rows
  BY OutboxDomain
<1>1. ASSUME UNCHANGED outbox PROVE RowsKept /\ NewlyPublished
  BY <1>1, <1>a, OutboxDomain DEF RowsKept, NewlyPublished, SameEvent, Shapes, Events
<1>2. ASSUME NEW a \in Aggregates, NEW kind \in Kinds, Emit(a, kind)
      PROVE  RowsKept /\ NewlyPublished
  <2>1. outbox' = Append(outbox, NewRow(a, kind)) /\ NewRow(a, kind) \in Rows
        /\ ~NewRow(a, kind).published
    BY <1>2, NewRowType DEF Emit
  <2>2. /\ outbox' \in Seq(Rows)
        /\ Len(outbox') = Len(outbox) + 1
        /\ \A e \in Events : outbox'[e] = outbox[e]
        /\ outbox'[Len(outbox) + 1] = NewRow(a, kind)
    BY <2>1, AppendProperties DEF Shapes, Events
  <2>3. \A e \in 1..Len(outbox') : e \in Events \/ e = Len(outbox) + 1
    BY <2>2, OutboxDomain DEF Events
  <2> QED
    BY <2>1, <2>2, <2>3, <1>a, OutboxDomain DEF RowsKept, NewlyPublished, SameEvent
<1>3. ASSUME outbox' \in [Events -> Rows],
             \A e \in Events : /\ SameEvent(outbox[e], outbox'[e])
                               /\ outbox'[e].published = outbox[e].published
      PROVE  RowsKept /\ NewlyPublished
  BY <1>3, Rewritten DEF NewlyPublished, Events
<1>4. ASSUME NEW d \in Dispatchers, LeaseBatch(d) PROVE RowsKept /\ NewlyPublished
  BY <1>3, <1>4, <1>a, OutboxDomain, LeasedRowType DEF LeaseBatch, SameEvent
<1>5. ASSUME NEW d \in Dispatchers, Acknowledge(d) PROVE RowsKept /\ NewlyPublished
  <2>1. CASE UNCHANGED outbox
    BY <2>1, <1>1
  <2>2. CASE outbox' = [outbox EXCEPT ![Current(d)] = PublishedRow(@)]
    <3>1. Current(d) \in Events /\ dispatcher[d].pc = "acking"
      BY <1>5, CurrentInBatch DEF Acknowledge
    <3>2. /\ outbox' \in [Events -> Rows]
          /\ \A e \in Events : SameEvent(outbox[e], outbox'[e])
          /\ \A e \in Events : e # Current(d) => outbox'[e] = outbox[e]
      BY <2>2, <3>1, <1>a, OutboxDomain, PublishedRowType DEF SameEvent
    <3> QED
      BY <3>1, <3>2, Rewritten DEF NewlyPublished, Events
  <2> QED
    BY <1>5, <2>1, <2>2 DEF Acknowledge
<1>6. ASSUME NEW d \in Dispatchers, Reject(d) PROVE RowsKept /\ NewlyPublished
  <2>1. CASE UNCHANGED outbox
    BY <2>1, <1>1
  <2>2. CASE outbox' = [outbox EXCEPT ![Current(d)] = RejectedRow(@)]
    <3>1. Current(d) \in Events
      BY <1>6, CurrentInBatch DEF Reject
    <3> QED
      BY <2>2, <3>1, <1>3, <1>a, OutboxDomain, RejectedRowType DEF SameEvent
  <2> QED
    BY <1>6, <2>1, <2>2 DEF Reject
<1>7. CASE Tick
  BY <1>3, <1>7, <1>a, OutboxDomain, AgedRowType DEF Tick, SameEvent
<1>8. ASSUME NEW d \in Dispatchers, Publish(d) \/ PublishFails(d) \/ DispatcherCrash(d)
      PROVE  UNCHANGED outbox
  BY <1>8 DEF Publish, PublishFails, DispatcherCrash
<1>9. ASSUME NEW p \in Partitions, Revoke(p) \/ \E c \in Consumers : Assign(p, c)
      PROVE  UNCHANGED outbox
  BY <1>9 DEF Revoke, Assign, dispatchVars
<1>10. ASSUME NEW c \in Consumers, Consume(c) \/ ConsumerCrash(c)
       PROVE  UNCHANGED outbox
  BY <1>10 DEF Consume, Poll, Apply, ApplyRaises, Commit, ConsumerCrash, dispatchVars
<1>11. CASE UNCHANGED vars
  BY <1>11, <1>1 DEF vars
<1> QED
  BY <1>1, <1>2, <1>4, <1>5, <1>6, <1>7, <1>8, <1>9, <1>10, <1>11 DEF Next, Dispatch

-----------------------------------------------------------------------------
(* The log and the dispatchers *)

\* A step leaves every record where it is and only adds records.
LogKept ==
  /\ log' \in [Partitions -> Seq(Events)]
  /\ \A p \in Partitions :
       /\ Len(log[p]) <= Len(log'[p]) /\ Len(log'[p]) \in Nat
       /\ \A i \in 1..Len(log[p]) : log'[p][i] = log[p][i]

LEMMA LogLengths ==
  ASSUME Shapes, NEW p \in Partitions
  PROVE  /\ log[p] \in Seq(Events)
         /\ Len(log[p]) \in Nat
         /\ DOMAIN log[p] = 1..Len(log[p])
         /\ \A i \in 1..Len(log[p]) : log[p][i] \in Events
<1>1. log[p] \in Seq(Events)
  BY DEF Shapes
<1> QED
  BY <1>1, LenProperties

\* The broker appends an event to the partition of its issue.
LEMMA Appended ==
  ASSUME Shapes, NEW e \in Events, Append1(e)
  PROVE  /\ LogKept
         /\ PartitionOf[outbox[e].aggregate] \in Partitions
         /\ LET records == log'[PartitionOf[outbox[e].aggregate]]
            IN  Len(records) \in DOMAIN records /\ records[Len(records)] = e
<1> DEFINE p == PartitionOf[outbox[e].aggregate]
<1>1. outbox[e] \in Rows
  BY OutboxDomain
<1>2. p \in Partitions
  BY <1>1, PartitionAssumption DEF Rows
<1>3. log' = [log EXCEPT ![p] = Append(@, e)]
  BY DEF Append1
<1> HIDE DEF p
<1>4. /\ log'[p] = Append(log[p], e)
      /\ \A q \in Partitions \ {p} : log'[q] = log[q]
      /\ DOMAIN log' = Partitions /\ log' = [q \in Partitions |-> log'[q]]
  BY <1>2, <1>3 DEF Shapes
<1>5. /\ log'[p] \in Seq(Events)
      /\ Len(log'[p]) = Len(log[p]) + 1
      /\ \A i \in 1..Len(log[p]) : log'[p][i] = log[p][i]
      /\ log'[p][Len(log[p]) + 1] = e
  BY <1>2, <1>4, LogLengths, AppendProperties
<1>6. \A q \in Partitions : log'[q] \in Seq(Events)
  BY <1>4, <1>5, LogLengths
<1>7. LogKept
  BY <1>2, <1>4, <1>5, <1>6, LogLengths DEF LogKept
<1>8. DOMAIN log'[p] = 1..Len(log'[p])
  BY <1>5, LenProperties
<1>9. Len(log'[p]) \in DOMAIN log'[p] /\ log'[p][Len(log'[p])] = e
  BY <1>2, <1>5, <1>8, LogLengths
<1> QED
  BY <1>2, <1>7, <1>9 DEF p

LEMMA LogStep ==
  ASSUME Shapes, BatchesFit, [Next]_vars
  PROVE  LogKept
<1>1. ASSUME UNCHANGED log PROVE LogKept
  <2>1. log' \in [Partitions -> Seq(Events)]
    BY <1>1 DEF Shapes
  <2> QED
    BY <1>1, <2>1, LogLengths DEF LogKept
<1>2. ASSUME NEW d \in Dispatchers, Publish(d) \/ PublishFails(d) PROVE LogKept
  BY <1>1, <1>2, CurrentInBatch, Appended DEF Publish, PublishFails
<1>3. ASSUME NEW d \in Dispatchers,
             LeaseBatch(d) \/ Acknowledge(d) \/ Reject(d) \/ DispatcherCrash(d)
      PROVE  UNCHANGED log
  BY <1>3 DEF LeaseBatch, Acknowledge, Reject, DispatcherCrash
<1>4. ASSUME NEW a \in Aggregates, NEW kind \in Kinds, Emit(a, kind) PROVE UNCHANGED log
  BY <1>4 DEF Emit
<1>5. ASSUME NEW p \in Partitions, Revoke(p) \/ \E c \in Consumers : Assign(p, c)
      PROVE  UNCHANGED log
  BY <1>5 DEF Revoke, Assign, dispatchVars
<1>6. ASSUME NEW c \in Consumers, Consume(c) \/ ConsumerCrash(c) PROVE UNCHANGED log
  BY <1>6 DEF Consume, Poll, Apply, ApplyRaises, Commit, ConsumerCrash, dispatchVars
<1>7. CASE Tick
  BY <1>1, <1>7 DEF Tick
<1>8. CASE UNCHANGED vars
  BY <1>1, <1>8 DEF vars
<1> QED
  BY <1>1, <1>2, <1>3, <1>4, <1>5, <1>6, <1>7, <1>8 DEF Next, Dispatch

DispatcherLocals == [pc : DispatcherPCs, batch : SUBSET Events]

\* What drain still has to do, one event further or from the start.
LEMMA Advanced ==
  ASSUME Shapes, BatchesFit, NEW d \in Dispatchers, dispatcher[d].pc # "idle",
         \/ Advance(d)
         \/ dispatcher' = [dispatcher EXCEPT ![d] = IdleDispatcher]
  PROVE  /\ dispatcher' \in [Dispatchers -> DispatcherLocals]
         /\ BatchesFit'
         /\ \A k \in Dispatchers : dispatcher'[k].pc = "acking" => dispatcher'[k] = dispatcher[k]
<1> DEFINE rest == dispatcher[d].batch \ {Current(d)}
           next == [pc |-> "publishing", batch |-> rest]
<1>1. /\ IdleDispatcher \in DispatcherLocals
      /\ IdleDispatcher.pc = "idle" /\ IdleDispatcher.batch = {}
  BY DEF IdleDispatcher, DispatcherLocals, DispatcherPCs
<1>2. next \in DispatcherLocals /\ next.pc = "publishing" /\ next.batch = rest
  BY DEF Shapes, DispatcherLocals, DispatcherPCs
<1>3. dispatcher[d].batch # {Current(d)} => rest # {}
  BY CurrentInBatch
<1>4. \E local \in {IdleDispatcher, next} :
        /\ dispatcher' = [dispatcher EXCEPT ![d] = local]
        /\ local = next => rest # {}
  BY <1>1, <1>2, <1>3, Zenon DEF Advance
<1> HIDE DEF next, rest
<1>5. PICK local \in {IdleDispatcher, next} :
        /\ dispatcher' = [dispatcher EXCEPT ![d] = local]
        /\ local = next => rest # {}
  BY <1>4
<1>6. local \in DispatcherLocals /\ local.pc # "acking" /\ (local.pc = "idle" <=> local.batch = {})
  BY <1>1, <1>2, <1>5
<1>7. dispatcher \in [Dispatchers -> DispatcherLocals]
  BY DEF Shapes, DispatcherLocals
<1> QED
  BY <1>5, <1>6, <1>7 DEF BatchesFit

LEMMA DispatcherStep ==
  ASSUME Shapes, BatchesFit, [Next]_vars
  PROVE  dispatcher' \in [Dispatchers -> DispatcherLocals] /\ BatchesFit'
<1>a. dispatcher \in [Dispatchers -> DispatcherLocals]
  BY DEF Shapes, DispatcherLocals
<1>1. ASSUME UNCHANGED dispatcher
      PROVE  dispatcher' \in [Dispatchers -> DispatcherLocals] /\ BatchesFit'
  BY <1>1, <1>a DEF BatchesFit
<1>2. ASSUME NEW d \in Dispatchers, LeaseBatch(d)
      PROVE  dispatcher' \in [Dispatchers -> DispatcherLocals] /\ BatchesFit'
  <2>1. Batch \in SUBSET Events
    BY OutboxDomain DEF Batch
  <2> QED
    BY <1>2, <1>a, <2>1 DEF LeaseBatch, BatchesFit, DispatcherLocals, DispatcherPCs
<1>3. ASSUME NEW d \in Dispatchers, Publish(d) \/ PublishFails(d)
      PROVE  dispatcher' \in [Dispatchers -> DispatcherLocals] /\ BatchesFit'
  BY <1>3, <1>a DEF Publish, PublishFails, BatchesFit, DispatcherLocals, DispatcherPCs
<1>4. ASSUME NEW d \in Dispatchers, Acknowledge(d) \/ Reject(d) \/ DispatcherCrash(d)
      PROVE  dispatcher' \in [Dispatchers -> DispatcherLocals] /\ BatchesFit'
  BY <1>4, Advanced DEF Acknowledge, Reject, DispatcherCrash
<1>5. ASSUME NEW a \in Aggregates, NEW kind \in Kinds, Emit(a, kind)
      PROVE  UNCHANGED dispatcher
  BY <1>5 DEF Emit
<1>6. ASSUME NEW p \in Partitions, Revoke(p) \/ \E c \in Consumers : Assign(p, c)
      PROVE  UNCHANGED dispatcher
  BY <1>6 DEF Revoke, Assign, dispatchVars
<1>7. ASSUME NEW c \in Consumers, Consume(c) \/ ConsumerCrash(c) PROVE UNCHANGED dispatcher
  BY <1>7 DEF Consume, Poll, Apply, ApplyRaises, Commit, ConsumerCrash, dispatchVars
<1>8. Tick \/ UNCHANGED vars => UNCHANGED dispatcher
  BY DEF Tick, vars
<1> QED
  BY <1>1, <1>2, <1>3, <1>4, <1>5, <1>6, <1>7, <1>8 DEF Next, Dispatch

-----------------------------------------------------------------------------
(* The consumers *)

\* What the members and Kafka know of each other is consistent.
Progress ==
  /\ group \in [Partitions -> Memberships]
  /\ consumer \in [Consumers -> ConsumerLocals]
  /\ OffsetsFit
  /\ MessagesFit
  /\ InStep

LEMMA JoinedType ==
  ASSUME NEW member \in Memberships, NEW c \in Consumers
  PROVE  /\ Joined(member, c) \in Memberships
         /\ Joined(member, c).assigned = c
         /\ Joined(member, c).position = member.committed
         /\ Joined(member, c).committed = member.committed
<1>1. Joined(member, c) \in Memberships
  BY DEF Joined, Memberships
<1>2. Joined(member, c).assigned = c
  BY DEF Joined, Memberships
<1>3. Joined(member, c).position = member.committed
  BY DEF Joined, Memberships
<1>4. Joined(member, c).committed = member.committed
  BY DEF Joined, Memberships
<1> QED
  BY <1>1, <1>2, <1>3, <1>4

\* One entry of group moves.
LEMMA GroupMoved ==
  ASSUME TypeInv, NEW p \in Partitions, NEW member \in Memberships,
         group' = [group EXCEPT ![p] = member]
  PROVE  /\ group'[p] = member
         /\ \A q \in Partitions \ {p} : group'[q] = group[q]
         /\ group' \in [Partitions -> Memberships]
BY DEF TypeInv, Shapes

LEMMA ProgressKept ==
  ASSUME TypeInv, LogKept, UNCHANGED <<group, consumer>>
  PROVE  Progress'
<1>1. \A p \in Partitions : Len(log[p]) \in Nat
  BY LogLengths DEF TypeInv
<1>2. OffsetsFit' /\ MessagesFit'
  BY <1>1 DEF TypeInv, OffsetsFit, MessagesFit, LogKept, Shapes, Memberships, ConsumerLocals
<1>3. InStep'
  BY DEF TypeInv, InStep, Works
<1> QED
  BY <1>2, <1>3 DEF TypeInv, Shapes, Progress

LEMMA AssignProgress ==
  ASSUME TypeInv, NEW p \in Partitions, NEW c \in Consumers, Assign(p, c)
  PROVE  Progress'
<1>1. /\ group'[p].assigned = c
      /\ group'[p].position = group[p].committed
      /\ group'[p].committed = group[p].committed
      /\ \A q \in Partitions \ {p} : group'[q] = group[q]
      /\ group' \in [Partitions -> Memberships]
  <2>1. group[p] \in Memberships
    BY DEF TypeInv, Shapes
  <2>2. group' = [group EXCEPT ![p] = Joined(group[p], c)]
    BY DEF Assign
  <2> QED
    BY <2>1, <2>2, JoinedType, GroupMoved
<1>2. UNCHANGED <<consumer, log>> /\ consumer[c].pc = "idle"
  BY DEF Assign, dispatchVars
<1>3. OffsetsFit'
  <2>1. \A q \in Partitions :
          /\ Len(log[q]) \in Nat /\ group[q].committed \in Nat /\ group[q].position \in Nat
          /\ 1 <= group[q].committed
          /\ group[q].committed <= group[q].position
          /\ group[q].position <= Len(log[q]) + 1
    BY LogLengths DEF TypeInv, OffsetsFit, Shapes, Memberships
  <2>2. group[p].committed <= Len(log[p]) + 1
    BY <2>1
  <2> QED
    BY <1>1, <1>2, <2>1, <2>2 DEF OffsetsFit
<1>4. MessagesFit'
  BY <1>2 DEF TypeInv, MessagesFit
<1>5. InStep'
  BY <1>1, <1>2 DEF TypeInv, InStep, Works
<1> QED
  BY <1>1, <1>2, <1>3, <1>4, <1>5 DEF Progress, TypeInv, Shapes

LEMMA RevokeProgress ==
  ASSUME TypeInv, NEW p \in Partitions, Revoke(p)
  PROVE  Progress'
<1>1. /\ group'[p].assigned = None
      /\ group'[p].position = group[p].position
      /\ group'[p].committed = group[p].committed
      /\ \A q \in Partitions \ {p} : group'[q] = group[q]
      /\ group' \in [Partitions -> Memberships]
  BY DEF Revoke, TypeInv, Shapes, Memberships
<1>2. UNCHANGED <<consumer, log>>
  BY DEF Revoke, dispatchVars
<1>3. OffsetsFit' /\ MessagesFit'
  BY <1>1, <1>2 DEF TypeInv, OffsetsFit, MessagesFit
<1>4. InStep'
  BY <1>1, <1>2, NoneAssumption DEF TypeInv, InStep, Works
<1> QED
  BY <1>1, <1>2, <1>3, <1>4 DEF Progress, TypeInv, Shapes

LEMMA PollProgress ==
  ASSUME TypeInv, NEW c \in Consumers, Poll(c)
  PROVE  Progress'
<1>1. PICK p \in Partitions :
        /\ group[p].assigned = c
        /\ group[p].position <= Len(log[p])
        /\ consumer' = [consumer EXCEPT ![c] =
             [pc |-> "received", partition |-> p, offset |-> group[p].position]]
        /\ group' = [group EXCEPT ![p].position = @ + 1]
  BY DEF Poll
<1>2. consumer[c].pc = "idle" /\ UNCHANGED log
  BY DEF Poll, dispatchVars
<1>3. /\ group'[p].assigned = c
      /\ group'[p].position = group[p].position + 1
      /\ group'[p].committed = group[p].committed
      /\ \A q \in Partitions \ {p} : group'[q] = group[q]
      /\ group' \in [Partitions -> Memberships]
  <2> DEFINE next == [group[p] EXCEPT !.position = @ + 1]
  <2>1. group[p] \in Memberships
    BY DEF TypeInv, Shapes
  <2>2. next \in Memberships
    BY <2>1 DEF Memberships
  <2>3. /\ next.assigned = group[p].assigned
        /\ next.position = group[p].position + 1
        /\ next.committed = group[p].committed
    BY <2>1 DEF Memberships
  <2>4. group' = [group EXCEPT ![p] = next]
    BY <1>1
  <2> HIDE DEF next
  <2> QED
    BY <1>1, <2>2, <2>3, <2>4, GroupMoved
<1>4. /\ consumer'[c].pc = "received"
      /\ consumer'[c].partition = p
      /\ consumer'[c].offset = group[p].position
      /\ \A k \in Consumers \ {c} : consumer'[k] = consumer[k]
      /\ consumer' \in [Consumers -> ConsumerLocals]
  BY <1>1 DEF TypeInv, Shapes, Memberships, ConsumerLocals
<1>5. group[p].committed = group[p].position /\ 1 <= group[p].position
      /\ group[p].position \in Nat
  BY <1>1, <1>2 DEF TypeInv, InStep, Works, OffsetsFit, Shapes, Memberships
<1>6. OffsetsFit'
  BY <1>1, <1>2, <1>3, <1>5, LogLengths DEF TypeInv, OffsetsFit
<1>7. MessagesFit'
  BY <1>1, <1>2, <1>4, <1>5, LogLengths DEF TypeInv, MessagesFit
<1>8. InStep'
  BY <1>1, <1>2, <1>3, <1>4, <1>5 DEF TypeInv, InStep, Works
<1> QED
  BY <1>3, <1>4, <1>6, <1>7, <1>8 DEF Progress

LEMMA LeaveProgress ==
  ASSUME TypeInv, NEW c \in Consumers, Leave(c), UNCHANGED log
  PROVE  Progress'
<1>1. \A q \in Partitions :
        /\ group[q].assigned = c => group'[q].assigned = None
        /\ group[q].assigned # c => group'[q].assigned = group[q].assigned
        /\ group'[q].position = group[q].position
        /\ group'[q].committed = group[q].committed
  BY DEF Leave, TypeInv, Shapes, Memberships
<1>2. group' \in [Partitions -> Memberships]
  BY DEF Leave, TypeInv, Shapes, Memberships
<1>3. /\ consumer'[c].pc = "idle"
      /\ \A k \in Consumers \ {c} : consumer'[k] = consumer[k]
      /\ consumer' \in [Consumers -> ConsumerLocals]
  BY DEF Leave, IdleConsumer, TypeInv, Shapes, ConsumerLocals
<1>4. OffsetsFit' /\ MessagesFit'
  BY <1>1, <1>3 DEF TypeInv, OffsetsFit, MessagesFit
<1>5. InStep'
  BY <1>1, <1>3, NoneAssumption DEF TypeInv, InStep, Works
<1> QED
  BY <1>2, <1>3, <1>4, <1>5 DEF Progress

LEMMA CommitProgress ==
  ASSUME TypeInv, NEW c \in Consumers, Commit(c)
  PROVE  Progress'
<1>a. UNCHANGED log /\ consumer[c].pc = "applied"
  BY DEF Commit, dispatchVars
<1> DEFINE p == consumer[c].partition
<1>1. CASE Leave(c)
  BY <1>1, <1>a, LeaveProgress
<1>2. CASE /\ group[p].assigned = c
           /\ group' = [group EXCEPT ![p].committed = CommitOffset(consumer[c].offset)]
           /\ consumer' = [consumer EXCEPT ![c] = IdleConsumer]
  <2>1. /\ p \in Partitions
        /\ consumer[c].offset \in 1..Len(log[p])
        /\ Works(c, p)
    BY <1>a DEF TypeInv, MessagesFit, Works
  <2>2. /\ group[p].committed = consumer[c].offset
        /\ group[p].position = consumer[c].offset + 1
        /\ \A q \in Partitions \ {p} :
             group[q].assigned = c => group[q].committed = group[q].position
    BY <1>2, <2>1 DEF TypeInv, InStep, Works
  <2> HIDE DEF p
  <2>3. /\ group'[p].assigned = c
        /\ group'[p].position = group[p].position
        /\ group'[p].committed = group[p].position
        /\ \A q \in Partitions \ {p} : group'[q] = group[q]
        /\ group' \in [Partitions -> Memberships]
    <3> DEFINE next == [group[p] EXCEPT !.committed = CommitOffset(consumer[c].offset)]
    <3>1. group[p] \in Memberships
      BY <2>1 DEF TypeInv, Shapes
    <3>2. CommitOffset(consumer[c].offset) = group[p].position
      BY <2>2 DEF CommitOffset
    <3>3. next \in Memberships
      BY <3>1, <3>2 DEF Memberships
    <3>4. /\ next.assigned = group[p].assigned
          /\ next.position = group[p].position
          /\ next.committed = group[p].position
      BY <3>1, <3>2 DEF Memberships
    <3>5. group' = [group EXCEPT ![p] = next]
      BY <1>2
    <3> HIDE DEF next
    <3> QED
      BY <1>2, <2>1, <3>3, <3>4, <3>5, GroupMoved
  <2>4. /\ consumer'[c].pc = "idle"
        /\ \A k \in Consumers \ {c} : consumer'[k] = consumer[k]
        /\ consumer' \in [Consumers -> ConsumerLocals]
    BY <1>2 DEF IdleConsumer, TypeInv, Shapes, ConsumerLocals
  <2>5. OffsetsFit'
    BY <1>a, <2>1, <2>2, <2>3, LogLengths DEF TypeInv, OffsetsFit
  <2>6. MessagesFit'
    BY <1>a, <2>4 DEF TypeInv, MessagesFit
  <2>7. InStep'
    BY <2>1, <2>2, <2>3, <2>4 DEF TypeInv, InStep, Works
  <2> QED
    BY <2>3, <2>4, <2>5, <2>6, <2>7 DEF Progress
<1> QED
  BY <1>1, <1>2 DEF Commit

LEMMA ApplyProgress ==
  ASSUME TypeInv, NEW c \in Consumers, Apply(c)
  PROVE  Progress'
<1>1. /\ consumer[c].pc = "received" /\ consumer'[c].pc = "applied"
      /\ consumer'[c].partition = consumer[c].partition
      /\ consumer'[c].offset = consumer[c].offset
      /\ \A k \in Consumers \ {c} : consumer'[k] = consumer[k]
      /\ consumer' \in [Consumers -> ConsumerLocals]
  BY DEF Apply, TypeInv, Shapes, ConsumerLocals
<1>2. UNCHANGED <<group, log>>
  BY DEF Apply, dispatchVars
<1>3. OffsetsFit' /\ MessagesFit'
  BY <1>1, <1>2 DEF TypeInv, OffsetsFit, MessagesFit
<1>4. InStep'
  BY <1>1, <1>2 DEF TypeInv, InStep, Works
<1> QED
  BY <1>1, <1>2, <1>3, <1>4 DEF Progress, TypeInv, Shapes

LEMMA ProgressStep ==
  ASSUME TypeInv, LogKept, [Next]_vars
  PROVE  Progress'
<1>1. ASSUME NEW d \in Dispatchers, Dispatch(d) \/ PublishFails(d) \/ DispatcherCrash(d)
      PROVE  UNCHANGED <<group, consumer>>
  BY <1>1 DEF Dispatch, LeaseBatch, Publish, PublishFails, Acknowledge, Reject,
     DispatcherCrash, projectVars
<1>2. ASSUME NEW a \in Aggregates, NEW kind \in Kinds, Emit(a, kind)
      PROVE  UNCHANGED <<group, consumer>>
  BY <1>2 DEF Emit, projectVars
<1>3. Tick \/ UNCHANGED vars => UNCHANGED <<group, consumer>>
  BY DEF Tick, vars, projectVars
<1>4. ASSUME NEW c \in Consumers, ConsumerCrash(c) \/ ApplyRaises(c) PROVE Progress'
  BY <1>4, LeaveProgress DEF ConsumerCrash, ApplyRaises, dispatchVars
<1> QED
  BY <1>1, <1>2, <1>3, <1>4, ProgressKept, AssignProgress, RevokeProgress, PollProgress,
     ApplyProgress, CommitProgress DEF Next, Consume

-----------------------------------------------------------------------------
(* Typing *)

LEMMA ConsumedTypes ==
  ASSUME TypeInv, [Next]_vars
  PROVE  inbox' \in SUBSET Events /\ counts' \in [Aggregates -> Nat]
<1>1. ASSUME UNCHANGED <<inbox, counts>>
      PROVE  inbox' \in SUBSET Events /\ counts' \in [Aggregates -> Nat]
  BY <1>1 DEF TypeInv, Shapes
<1>2. ASSUME NEW c \in Consumers, Apply(c)
      PROVE  inbox' \in SUBSET Events /\ counts' \in [Aggregates -> Nat]
  <2>1. Message(c) \in Events
    BY <1>2, LogLengths DEF Apply, Message, TypeInv, MessagesFit
  <2>2. outbox[Message(c)].aggregate \in Aggregates
    BY <2>1, OutboxDomain DEF TypeInv, Rows
  <2> QED
    BY <1>2, <2>1, <2>2 DEF Apply, TypeInv, Shapes
<1>3. ASSUME NEW c \in Consumers,
             Poll(c) \/ ApplyRaises(c) \/ Commit(c) \/ ConsumerCrash(c)
      PROVE  UNCHANGED <<inbox, counts>>
  BY <1>3 DEF Poll, ApplyRaises, Commit, ConsumerCrash
<1>4. ASSUME NEW p \in Partitions, Revoke(p) \/ \E c \in Consumers : Assign(p, c)
      PROVE  UNCHANGED <<inbox, counts>>
  BY <1>4 DEF Revoke, Assign
<1>5. ASSUME NEW d \in Dispatchers, Dispatch(d) \/ PublishFails(d) \/ DispatcherCrash(d)
      PROVE  UNCHANGED <<inbox, counts>>
  BY <1>5 DEF Dispatch, LeaseBatch, Publish, PublishFails, Acknowledge, Reject,
     DispatcherCrash, projectVars
<1>6. ASSUME NEW a \in Aggregates, NEW kind \in Kinds, Emit(a, kind)
      PROVE  UNCHANGED <<inbox, counts>>
  BY <1>6 DEF Emit, projectVars
<1>7. Tick \/ UNCHANGED vars => UNCHANGED <<inbox, counts>>
  BY DEF Tick, vars, projectVars
<1> QED
  BY <1>1, <1>2, <1>3, <1>4, <1>5, <1>6, <1>7 DEF Next, Consume

LEMMA FaultsBounded ==
  ASSUME TypeInv, [Next]_vars
  PROVE  faults' \in 0..MaxFaults
<1>1. Fault \/ UNCHANGED faults => faults' \in 0..MaxFaults
  BY BoundsAssumption DEF Fault, TypeInv, Shapes
<1>2. ASSUME NEW d \in Dispatchers, Dispatch(d) \/ PublishFails(d) \/ DispatcherCrash(d)
      PROVE  Fault \/ UNCHANGED faults
  BY <1>2 DEF Dispatch, LeaseBatch, Publish, PublishFails, Acknowledge, Reject, DispatcherCrash
<1>3. ASSUME NEW c \in Consumers, Consume(c) \/ ConsumerCrash(c)
      PROVE  Fault \/ UNCHANGED faults
  BY <1>3 DEF Consume, Poll, Apply, ApplyRaises, Commit, ConsumerCrash
<1>4. ASSUME NEW p \in Partitions, Revoke(p) \/ \E c \in Consumers : Assign(p, c)
      PROVE  Fault \/ UNCHANGED faults
  BY <1>4 DEF Revoke, Assign
<1>5. ASSUME NEW a \in Aggregates, NEW kind \in Kinds, Emit(a, kind)
      PROVE  UNCHANGED faults
  BY <1>5 DEF Emit
<1>6. Tick \/ UNCHANGED vars => UNCHANGED faults
  BY DEF Tick, vars
<1> QED
  BY <1>1, <1>2, <1>3, <1>4, <1>5, <1>6 DEF Next

LEMMA TypeInvInit == Init => TypeInv
<1> SUFFICES ASSUME Init PROVE TypeInv
  OBVIOUS
<1>1. \A S : <<>> \in Seq(S) /\ Len(<<>>) = 0
  BY EmptySeq
<1>2. [assigned |-> None, position |-> 1, committed |-> 1] \in Memberships
  BY DEF Memberships
<1>3. IdleConsumer \in ConsumerLocals
  BY DEF IdleConsumer, ConsumerLocals
<1>4. \A S : IdleDispatcher \in [pc : DispatcherPCs, batch : SUBSET S]
  BY DEF IdleDispatcher, DispatcherPCs
<1>5. Shapes
  BY <1>1, <1>2, <1>3, <1>4, BoundsAssumption DEF Init, Shapes
<1>6. BatchesFit
  BY DEF Init, BatchesFit, IdleDispatcher
<1>7. OffsetsFit
  BY <1>1 DEF Init, OffsetsFit
<1>8. MessagesFit /\ InStep
  BY DEF Init, MessagesFit, InStep, Works, IdleConsumer
<1> QED
  BY <1>5, <1>6, <1>7, <1>8 DEF TypeInv

LEMMA TypeInvNext == TypeInv /\ [Next]_vars => TypeInv'
<1> SUFFICES ASSUME TypeInv, [Next]_vars PROVE TypeInv'
  OBVIOUS
<1>1. RowsKept /\ LogKept
  BY RowStep, LogStep DEF TypeInv
<1>2. Events \subseteq Events'
  BY <1>1, OutboxDomain DEF RowsKept, Events, TypeInv
<1>3. dispatcher' \in [Dispatchers -> DispatcherLocals] /\ BatchesFit'
  BY DispatcherStep DEF TypeInv
<1>4. dispatcher' \in [Dispatchers -> [pc : DispatcherPCs, batch : SUBSET Events']]
  BY <1>2, <1>3 DEF DispatcherLocals
<1>5. log' \in [Partitions -> Seq(Events')]
  <2>1. \A p \in Partitions : log'[p] \in Seq(Events')
    BY <1>1, <1>2, SeqMonotonic DEF LogKept
  <2> QED
    BY <1>1, <2>1 DEF LogKept
<1>6. inbox' \in SUBSET Events' /\ counts' \in [Aggregates -> Nat]
  BY <1>2, ConsumedTypes
<1>7. Progress'
  BY <1>1, ProgressStep
<1>8. faults' \in 0..MaxFaults
  BY FaultsBounded
<1>9. Shapes'
  BY <1>1, <1>4, <1>5, <1>6, <1>7, <1>8 DEF Shapes, RowsKept, Progress
<1> QED
  BY <1>3, <1>7, <1>9 DEF TypeInv, Progress

LEMMA TypeInvAlways == Spec => []TypeInv
BY TypeInvInit, TypeInvNext, PTL DEF Spec

LEMMA TypeInvTypes == TypeInv => TypeOK
<1> SUFFICES ASSUME TypeInv PROVE TypeOK
  OBVIOUS
<1>1. DOMAIN outbox = Events
  BY OutboxDomain DEF TypeInv
<1>2. \A d \in Dispatchers : /\ dispatcher[d].pc \in DispatcherPCs
                             /\ dispatcher[d].batch \subseteq Events
  BY DEF TypeInv, Shapes
<1>3. \A p \in Partitions : /\ log[p] \in Seq(Events)
                            /\ DOMAIN log[p] = 1..Len(log[p])
                            /\ group[p].assigned \in Consumers \cup {None}
  BY LogLengths DEF TypeInv, Shapes, Memberships
<1> QED
  BY <1>1, <1>2, <1>3 DEF TypeInv, Shapes, BatchesFit, OffsetsFit, MessagesFit, TypeOK,
     DispatcherPCs

\* Every variable of the event path keeps its type, and no batch, cursor or
\* message in work refers beyond what was committed and logged.
THEOREM StreamTypeCorrect == Spec => []TypeOK
BY TypeInvAlways, TypeInvTypes, PTL

-----------------------------------------------------------------------------
(* Publishing *)

\* The broker holds what a dispatcher is about to acknowledge.
AckingIsLogged ==
  \A d \in Dispatchers : dispatcher[d].pc = "acking" => InLog(Current(d))

LEMMA StaysInLog ==
  ASSUME TypeInv, RowsKept, LogKept, NEW e \in Events, InLog(e)
  PROVE  InLog(e)'
<1> DEFINE p == PartitionOf[outbox[e].aggregate]
<1>1. outbox'[e].aggregate = outbox[e].aggregate
  BY DEF RowsKept, SameEvent
<1>2. p \in Partitions
  BY OutboxDomain, PartitionAssumption DEF TypeInv, Rows
<1>3. PICK i \in DOMAIN log[p] : log[p][i] = e
  BY DEF InLog
<1>4. i \in 1..Len(log[p]) /\ Len(log[p]) \in Nat
  BY <1>2, <1>3, LogLengths DEF TypeInv
<1>5. i \in 1..Len(log'[p]) /\ log'[p][i] = e
  BY <1>2, <1>3, <1>4 DEF LogKept
<1>6. DOMAIN log'[p] = 1..Len(log'[p])
  BY <1>2, LenProperties DEF LogKept
<1> QED
  BY <1>1, <1>5, <1>6 DEF InLog

LEMMA AckingStep ==
  ASSUME TypeInv, AckingIsLogged, [Next]_vars
  PROVE  AckingIsLogged'
<1>a. RowsKept /\ LogKept /\ Shapes /\ BatchesFit
  BY RowStep, LogStep DEF TypeInv
<1>1. ASSUME \A d \in Dispatchers :
               dispatcher'[d].pc = "acking" => dispatcher'[d] = dispatcher[d]
      PROVE  AckingIsLogged'
  <2> SUFFICES ASSUME NEW d \in Dispatchers, dispatcher'[d].pc = "acking"
               PROVE  InLog(Current(d))'
    BY DEF AckingIsLogged
  <2>1. dispatcher'[d] = dispatcher[d] /\ dispatcher[d].pc = "acking"
    BY <1>1
  <2>2. Current(d)' = Current(d)
    BY <2>1 DEF Current
  <2>3. Current(d) \in Events /\ InLog(Current(d))
    BY <1>a, <2>1, CurrentInBatch DEF AckingIsLogged
  <2>4. \A e : e = Current(d)' => (InLog(e)' => InLog(Current(d))')
    BY DEF InLog
  <2> QED
    BY <1>a, <2>2, <2>3, <2>4, StaysInLog
<1>2. ASSUME NEW d \in Dispatchers, Publish(d) PROVE AckingIsLogged'
  <2> SUFFICES ASSUME NEW k \in Dispatchers, dispatcher'[k].pc = "acking"
               PROVE  InLog(Current(k))'
    BY DEF AckingIsLogged
  <2>1. /\ dispatcher'[k].batch = dispatcher[k].batch
        /\ k # d => dispatcher'[k] = dispatcher[k]
    BY <1>2, <1>a DEF Publish, Shapes
  <2>2. Current(k)' = Current(k)
    BY <2>1 DEF Current
  <2>3. ASSUME NEW e \in Events, e = Current(k), InLog(e)' PROVE InLog(Current(k))'
    BY <2>2, <2>3 DEF InLog
  <2>4. CASE k # d
    BY <1>a, <2>1, <2>3, <2>4, CurrentInBatch, StaysInLog DEF AckingIsLogged
  <2>5. CASE k = d
    <3>1. Current(d) \in Events /\ Append1(Current(d)) /\ UNCHANGED outbox
      BY <1>2, <1>a, CurrentInBatch DEF Publish
    <3>2. InLog(Current(d))'
      BY <2>2, <2>5, <3>1, <1>a, Appended DEF InLog
    <3> QED
      BY <2>5, <3>2
  <2> QED
    BY <2>4, <2>5
<1>3. ASSUME NEW d \in Dispatchers, LeaseBatch(d) PROVE AckingIsLogged'
  BY <1>1, <1>3, <1>a DEF LeaseBatch, Shapes
<1>4. ASSUME NEW d \in Dispatchers, PublishFails(d) PROVE AckingIsLogged'
  BY <1>1, <1>4, <1>a DEF PublishFails, Shapes
<1>5. ASSUME NEW d \in Dispatchers, Acknowledge(d) \/ Reject(d) \/ DispatcherCrash(d)
      PROVE  AckingIsLogged'
  BY <1>1, <1>5, <1>a, Advanced DEF Acknowledge, Reject, DispatcherCrash
<1>6. ASSUME NEW a \in Aggregates, NEW kind \in Kinds, Emit(a, kind)
      PROVE  UNCHANGED dispatcher
  BY <1>6 DEF Emit
<1>7. ASSUME NEW p \in Partitions, Revoke(p) \/ \E c \in Consumers : Assign(p, c)
      PROVE  UNCHANGED dispatcher
  BY <1>7 DEF Revoke, Assign, dispatchVars
<1>8. ASSUME NEW c \in Consumers, Consume(c) \/ ConsumerCrash(c) PROVE UNCHANGED dispatcher
  BY <1>8 DEF Consume, Poll, Apply, ApplyRaises, Commit, ConsumerCrash, dispatchVars
<1>9. Tick \/ UNCHANGED vars => UNCHANGED dispatcher
  BY DEF Tick, vars
<1>10. UNCHANGED dispatcher => AckingIsLogged'
  BY <1>1
<1> QED
  BY <1>2, <1>3, <1>4, <1>5, <1>6, <1>7, <1>8, <1>9, <1>10 DEF Next, Dispatch

LEMMA PublishedStep ==
  ASSUME TypeInv, AckingIsLogged, PublishedIsLogged, [Next]_vars
  PROVE  PublishedIsLogged'
<1>a. RowsKept /\ LogKept /\ NewlyPublished
  BY RowStep, LogStep DEF TypeInv
<1>b. DOMAIN outbox = Events /\ DOMAIN outbox' = 1..Len(outbox')
  BY <1>a, OutboxDomain, LenProperties DEF RowsKept, TypeInv
<1> SUFFICES ASSUME NEW e \in DOMAIN outbox', outbox'[e].published PROVE InLog(e)'
  BY DEF PublishedIsLogged
<1>1. e \in Events /\ InLog(e)
  BY <1>a, <1>b DEF NewlyPublished, PublishedIsLogged, AckingIsLogged
<1> QED
  BY <1>a, <1>1, StaysInLog

\* A row is marked published only when the broker holds its event: whichever
\* process crashes, loses its lease or its acknowledgement, no event is lost
\* between the outbox and the log.
THEOREM NothingLostInOutbox == Spec => []PublishedIsLogged
<1>1. Init => AckingIsLogged /\ PublishedIsLogged
  <2>1. DOMAIN <<>> = {}
    BY EmptySeq
  <2> QED
    BY <2>1 DEF Init, AckingIsLogged, PublishedIsLogged, IdleDispatcher
<1>2. TypeInv /\ AckingIsLogged /\ PublishedIsLogged /\ [Next]_vars
        => AckingIsLogged' /\ PublishedIsLogged'
  BY AckingStep, PublishedStep
<1> QED
  BY <1>1, <1>2, TypeInvAlways, PTL DEF Spec

-----------------------------------------------------------------------------
(* Projecting *)

\* A consumer that is about to commit has projected its message.
AppliedIsProjected ==
  \A c \in Consumers : consumer[c].pc = "applied" => Message(c) \in inbox

\* The messages in work stay what they are as the log grows.
LEMMA MessageStays ==
  ASSUME TypeInv, LogKept, NEW c \in Consumers, consumer[c].pc # "idle",
         consumer'[c].partition = consumer[c].partition,
         consumer'[c].offset = consumer[c].offset
  PROVE  Message(c)' = Message(c)
BY DEF TypeInv, MessagesFit, LogKept, Message

LEMMA CommittedStays ==
  ASSUME TypeInv, LogKept, CommittedIsProjected, inbox \subseteq inbox',
         \A p \in Partitions : group'[p].committed = group[p].committed
  PROVE  CommittedIsProjected'
<1> SUFFICES ASSUME NEW p \in Partitions, NEW i \in 1..(group'[p].committed - 1)
             PROVE  i \in DOMAIN log'[p] /\ log'[p][i] \in inbox'
  BY DEF CommittedIsProjected
<1>1. i \in DOMAIN log[p] /\ log[p][i] \in inbox
  BY DEF CommittedIsProjected
<1>2. i \in 1..Len(log[p]) /\ Len(log[p]) \in Nat
  BY <1>1, LogLengths DEF TypeInv
<1>3. DOMAIN log'[p] = 1..Len(log'[p])
  BY LenProperties DEF LogKept
<1> QED
  BY <1>1, <1>2, <1>3 DEF LogKept

Recorded == AppliedIsProjected /\ CommittedIsProjected

\* Consumers only start or drop work; no offset is committed.
LEMMA RecordedStays ==
  ASSUME TypeInv, LogKept, Recorded, UNCHANGED inbox,
         \A p \in Partitions : group'[p].committed = group[p].committed,
         \A c \in Consumers : consumer'[c] = consumer[c] \/ consumer'[c].pc # "applied"
  PROVE  Recorded'
<1>1. CommittedIsProjected'
  BY CommittedStays DEF Recorded
<1>2. AppliedIsProjected'
  BY MessageStays DEF Recorded, AppliedIsProjected
<1> QED
  BY <1>1, <1>2 DEF Recorded

LEMMA LeaveRecords ==
  ASSUME TypeInv, LogKept, Recorded, UNCHANGED inbox, NEW c \in Consumers, Leave(c)
  PROVE  Recorded'
<1>1. \A p \in Partitions : group'[p].committed = group[p].committed
  BY DEF Leave, TypeInv, Shapes, Memberships
<1>2. \A k \in Consumers : consumer'[k] = consumer[k] \/ consumer'[k].pc # "applied"
  BY DEF Leave, IdleConsumer, TypeInv, Shapes
<1> QED
  BY <1>1, <1>2, RecordedStays

LEMMA ApplyRecords ==
  ASSUME TypeInv, LogKept, Recorded, NEW c \in Consumers, Apply(c)
  PROVE  Recorded'
<1>1. /\ UNCHANGED <<group, log>>
      /\ inbox' = inbox \cup {Message(c)}
      /\ consumer[c].pc = "received"
      /\ consumer'[c].partition = consumer[c].partition
      /\ consumer'[c].offset = consumer[c].offset
      /\ \A k \in Consumers \ {c} : consumer'[k] = consumer[k]
  BY DEF Apply, dispatchVars, TypeInv, Shapes, ConsumerLocals
<1>2. CommittedIsProjected'
  BY <1>1, CommittedStays DEF Recorded
<1>3. ASSUME NEW k \in Consumers, consumer'[k].pc = "applied" PROVE Message(k)' \in inbox'
  BY <1>1, <1>3, MessageStays DEF Recorded, AppliedIsProjected
<1> QED
  BY <1>2, <1>3 DEF Recorded, AppliedIsProjected

\* The offset goes one record further, over the message that was projected.
LEMMA CommitMoves ==
  ASSUME TypeInv, NEW c \in Consumers, Commit(c), ~Leave(c)
  PROVE  LET p == consumer[c].partition
         IN  /\ p \in Partitions
             /\ group[p].committed \in Nat
             /\ group[p].committed = consumer[c].offset
             /\ group'[p].committed = group[p].committed + 1
             /\ \A q \in Partitions \ {p} : group'[q] = group[q]
             /\ \A k \in Consumers : k = c \/ consumer'[k] = consumer[k]
             /\ consumer'[c].pc = "idle"
             /\ UNCHANGED <<inbox, log>>
<1> DEFINE p == consumer[c].partition
<1>1. /\ group[p].assigned = c
      /\ group' = [group EXCEPT ![p].committed = CommitOffset(consumer[c].offset)]
      /\ consumer' = [consumer EXCEPT ![c] = IdleConsumer]
      /\ consumer[c].pc = "applied"
      /\ UNCHANGED <<inbox, log>>
  BY DEF Commit, dispatchVars
<1>2. p \in Partitions /\ Works(c, p)
  BY <1>1 DEF TypeInv, MessagesFit, Works
<1>3. group[p] \in Memberships /\ group[p].committed \in Nat
  BY <1>2 DEF TypeInv, Shapes, Memberships
<1>4. group[p].committed = consumer[c].offset
  BY <1>1, <1>2 DEF TypeInv, InStep
<1> HIDE DEF p
<1>5. group'[p].committed = group[p].committed + 1
      /\ \A q \in Partitions \ {p} : group'[q] = group[q]
  BY <1>1, <1>2, <1>3, <1>4 DEF CommitOffset, TypeInv, Shapes, Memberships
<1>6. /\ \A k \in Consumers : k = c \/ consumer'[k] = consumer[k]
      /\ consumer'[c].pc = "idle"
  BY <1>1 DEF IdleConsumer, TypeInv, Shapes
<1> QED
  BY <1>1, <1>2, <1>3, <1>4, <1>5, <1>6 DEF p

LEMMA CommitRecords ==
  ASSUME TypeInv, LogKept, Recorded, NEW c \in Consumers, Commit(c)
  PROVE  Recorded'
<1>1. CASE Leave(c)
  BY <1>1, LeaveRecords DEF Commit
<1>2. CASE ~Leave(c)
  <2> DEFINE p == consumer[c].partition
  <2>1. /\ p \in Partitions
        /\ group[p].committed \in Nat
        /\ group[p].committed = consumer[c].offset
        /\ group'[p].committed = group[p].committed + 1
        /\ \A q \in Partitions \ {p} : group'[q] = group[q]
        /\ \A k \in Consumers : k = c \/ consumer'[k] = consumer[k]
        /\ consumer'[c].pc = "idle"
        /\ UNCHANGED <<inbox, log>>
    BY <1>2, CommitMoves
  <2>2. consumer[c].pc = "applied"
    BY DEF Commit
  <2>3. consumer[c].offset \in DOMAIN log[p] /\ log[p][consumer[c].offset] \in inbox
    BY <2>1, <2>2, LogLengths DEF TypeInv, MessagesFit, Recorded, AppliedIsProjected, Message
  <2> HIDE DEF p
  <2>4. ASSUME NEW q \in Partitions, NEW i \in 1..(group'[q].committed - 1)
        PROVE  i \in DOMAIN log[q] /\ log[q][i] \in inbox
    <3>1. CASE q = p /\ i = group[p].committed
      BY <2>1, <2>3, <3>1
    <3>2. CASE ~(q = p /\ i = group[p].committed)
      <4>1. i \in 1..(group[q].committed - 1)
        BY <2>1, <3>2
      <4> QED
        BY <4>1 DEF Recorded, CommittedIsProjected
    <3> QED
      BY <3>1, <3>2
  <2>5. CommittedIsProjected'
    BY <2>1, <2>4 DEF CommittedIsProjected
  <2>6. AppliedIsProjected'
    BY <2>1, MessageStays DEF Recorded, AppliedIsProjected
  <2> QED
    BY <2>5, <2>6 DEF Recorded
<1> QED
  BY <1>1, <1>2

LEMMA RecordedStep ==
  ASSUME TypeInv, Recorded, [Next]_vars
  PROVE  Recorded'
<1>a. LogKept
  BY LogStep DEF TypeInv
<1>1. ASSUME UNCHANGED <<group, consumer, inbox>> PROVE Recorded'
  BY <1>1, <1>a, RecordedStays
<1>2. ASSUME NEW d \in Dispatchers, Dispatch(d) \/ PublishFails(d) \/ DispatcherCrash(d)
      PROVE  Recorded'
  BY <1>1, <1>2 DEF Dispatch, LeaseBatch, Publish, PublishFails, Acknowledge, Reject,
     DispatcherCrash, projectVars
<1>3. ASSUME NEW a \in Aggregates, NEW kind \in Kinds, Emit(a, kind) PROVE Recorded'
  BY <1>1, <1>3 DEF Emit, projectVars
<1>4. Tick \/ UNCHANGED vars => Recorded'
  BY <1>1 DEF Tick, vars, projectVars
<1>5. ASSUME NEW p \in Partitions, NEW c \in Consumers, Assign(p, c) PROVE Recorded'
  <2>1. \A q \in Partitions : group'[q].committed = group[q].committed
    <3>1. group[p] \in Memberships
      BY DEF TypeInv, Shapes
    <3>2. group' = [group EXCEPT ![p] = Joined(group[p], c)]
      BY <1>5 DEF Assign
    <3> QED
      BY <3>1, <3>2, JoinedType, GroupMoved
  <2> QED
    BY <1>5, <1>a, <2>1, RecordedStays DEF Assign
<1>6. ASSUME NEW p \in Partitions, Revoke(p) PROVE Recorded'
  <2>1. \A q \in Partitions : group'[q].committed = group[q].committed
    BY <1>6 DEF Revoke, TypeInv, Shapes, Memberships
  <2> QED
    BY <1>6, <1>a, <2>1, RecordedStays DEF Revoke
<1>7. ASSUME NEW c \in Consumers, Poll(c) PROVE Recorded'
  <2>1. PICK p \in Partitions :
          /\ consumer' = [consumer EXCEPT ![c] =
               [pc |-> "received", partition |-> p, offset |-> group[p].position]]
          /\ group' = [group EXCEPT ![p].position = @ + 1]
    BY <1>7 DEF Poll
  <2>2. \A q \in Partitions : group'[q].committed = group[q].committed
    BY <2>1 DEF TypeInv, Shapes, Memberships
  <2>3. \A k \in Consumers : consumer'[k] = consumer[k] \/ consumer'[k].pc # "applied"
    BY <2>1 DEF TypeInv, Shapes
  <2> QED
    BY <1>7, <1>a, <2>2, <2>3, RecordedStays DEF Poll
<1>8. ASSUME NEW c \in Consumers, ConsumerCrash(c) \/ ApplyRaises(c) PROVE Recorded'
  BY <1>8, <1>a, LeaveRecords DEF ConsumerCrash, ApplyRaises
<1> QED
  BY <1>a, <1>2, <1>3, <1>4, <1>5, <1>6, <1>7, <1>8, ApplyRecords, CommitRecords
     DEF Next, Consume

\* A committed offset never passes an event that was not projected, through
\* any crash, rebalance or refused commit: no event is lost between the log
\* and the projection.
THEOREM NothingLostInLog == Spec => []CommittedIsProjected
<1>1. Init => Recorded
  BY DEF Init, Recorded, AppliedIsProjected, CommittedIsProjected, IdleConsumer
<1>2. TypeInv /\ Recorded /\ [Next]_vars => Recorded'
  BY RecordedStep
<1>3. Recorded => CommittedIsProjected
  BY DEF Recorded
<1> QED
  BY <1>1, <1>2, <1>3, TypeInvAlways, PTL DEF Spec

LEMMA OffsetsForward ==
  ASSUME TypeInv, [Next]_vars
  PROVE  [ForwardStep]_vars
<1>a. \A p \in Partitions : group[p].committed \in Nat
  BY DEF TypeInv, Shapes, Memberships
<1>b. ASSUME \A p \in Partitions : group'[p].committed = group[p].committed
      PROVE  ForwardStep
  BY <1>a, <1>b DEF ForwardStep
<1>1. ASSUME NEW c \in Consumers, Leave(c) PROVE ForwardStep
  BY <1>1, <1>b DEF Leave, TypeInv, Shapes, Memberships
<1>2. ASSUME NEW c \in Consumers, Commit(c) PROVE ForwardStep
  BY <1>1, <1>2, <1>a, CommitMoves DEF ForwardStep
<1>3. ASSUME NEW p \in Partitions, NEW c \in Consumers, Assign(p, c) PROVE ForwardStep
  <2>1. group[p] \in Memberships
    BY DEF TypeInv, Shapes
  <2>2. group' = [group EXCEPT ![p] = Joined(group[p], c)]
    BY <1>3 DEF Assign
  <2> QED
    BY <1>b, <2>1, <2>2, JoinedType, GroupMoved
<1>4. ASSUME NEW p \in Partitions, Revoke(p) PROVE ForwardStep
  BY <1>4, <1>b DEF Revoke, TypeInv, Shapes, Memberships
<1>5. ASSUME NEW c \in Consumers, Poll(c) PROVE ForwardStep
  BY <1>5, <1>b DEF Poll, TypeInv, Shapes, Memberships
<1>6. UNCHANGED group => ForwardStep
  BY <1>b
<1>7. ASSUME NEW d \in Dispatchers, Dispatch(d) \/ PublishFails(d) \/ DispatcherCrash(d)
      PROVE  UNCHANGED group
  BY <1>7 DEF Dispatch, LeaseBatch, Publish, PublishFails, Acknowledge, Reject,
     DispatcherCrash, projectVars
<1>8. ASSUME NEW a \in Aggregates, NEW kind \in Kinds, Emit(a, kind) PROVE UNCHANGED group
  BY <1>8 DEF Emit, projectVars
<1>9. Tick \/ UNCHANGED vars => UNCHANGED group
  BY DEF Tick, vars, projectVars
<1>10. ASSUME NEW c \in Consumers, Apply(c) PROVE UNCHANGED group
  BY <1>10 DEF Apply
<1>11. ASSUME NEW c \in Consumers, ConsumerCrash(c) \/ ApplyRaises(c) PROVE Leave(c)
  BY <1>11 DEF ConsumerCrash, ApplyRaises
<1> QED
  BY <1>1, <1>2, <1>3, <1>4, <1>5, <1>6, <1>7, <1>8, <1>9, <1>10, <1>11
     DEF Next, Consume

\* Committed offsets only grow, also when a partition changes hands while its
\* former owner is between its transaction and its commit.
THEOREM OffsetsOnlyGrow == Spec => OffsetsGrow
<1>1. TypeInv /\ [Next]_vars => [ForwardStep]_vars
  BY OffsetsForward
<1> QED
  BY <1>1, TypeInvAlways, PTL DEF Spec, OffsetsGrow

-----------------------------------------------------------------------------
(* Counting *)

LEMMA InboxFinite ==
  ASSUME TypeInv, NEW T, T \subseteq inbox
  PROVE  IsFiniteSet(T)
<1>1. IsFiniteSet(Events)
  BY OutboxDomain, FS_Interval DEF TypeInv, Events
<1>2. T \in SUBSET Events
  BY DEF TypeInv, Shapes
<1> QED
  BY <1>1, <1>2, FS_Subset

LEMMA CountedStep ==
  ASSUME TypeInv, CountedOnce, [Next]_vars
  PROVE  CountedOnce'
<1>a. RowsKept
  BY RowStep DEF TypeInv
<1>1. ASSUME UNCHANGED <<inbox, counts>> PROVE CountedOnce'
  <2> SUFFICES ASSUME NEW a \in Aggregates
               PROVE  counts'[a] = Cardinality({e \in inbox' : outbox'[e].aggregate = a})
    BY DEF CountedOnce
  <2>1. {e \in inbox' : outbox'[e].aggregate = a} = {e \in inbox : outbox[e].aggregate = a}
    BY <1>1, <1>a DEF RowsKept, SameEvent, TypeInv, Shapes
  <2> QED
    BY <1>1, <2>1 DEF CountedOnce
<1>2. ASSUME NEW c \in Consumers, Apply(c) PROVE CountedOnce'
  <2> DEFINE e == Message(c)
             b == outbox[e].aggregate
             Of(a) == {k \in inbox : outbox[k].aggregate = a}
             OfNext(a) == {k \in inbox' : outbox'[k].aggregate = a}
  <2>1. /\ inbox' = inbox \cup {e}
        /\ counts' = IF e \notin inbox THEN [counts EXCEPT ![b] = @ + 1] ELSE counts
        /\ UNCHANGED outbox
    BY <1>2 DEF Apply, Fresh, dispatchVars
  <2>2. e \in Events
    BY <1>2, LogLengths DEF Apply, Message, TypeInv, MessagesFit
  <2>3. b \in Aggregates
    BY <2>2, OutboxDomain DEF TypeInv, Rows
  <2> HIDE DEF e
  <2>4. ASSUME NEW a \in Aggregates PROVE counts'[a] = Cardinality(OfNext(a))
    <3>1. counts[a] = Cardinality(Of(a)) /\ IsFiniteSet(Of(a))
      BY InboxFinite DEF CountedOnce
    <3>2. CASE e \in inbox \/ b # a
      <4>1. OfNext(a) = Of(a)
        BY <2>1, <3>2
      <4>2. counts'[a] = counts[a]
        BY <2>1, <2>3, <3>2 DEF TypeInv, Shapes
      <4> QED
        BY <3>1, <4>1, <4>2
    <3>3. CASE e \notin inbox /\ b = a
      <4>1. OfNext(a) = Of(a) \cup {e} /\ e \notin Of(a)
        BY <2>1, <3>3
      <4>2. Cardinality(OfNext(a)) = Cardinality(Of(a)) + 1
        BY <3>1, <4>1, FS_AddElement
      <4>3. counts'[a] = counts[a] + 1
        BY <2>1, <2>3, <3>3 DEF TypeInv, Shapes
      <4> QED
        BY <3>1, <4>2, <4>3
    <3> QED
      BY <3>2, <3>3
  <2> QED
    BY <2>4 DEF CountedOnce
<1>3. ASSUME NEW c \in Consumers,
             Poll(c) \/ ApplyRaises(c) \/ Commit(c) \/ ConsumerCrash(c)
      PROVE  UNCHANGED <<inbox, counts>>
  BY <1>3 DEF Poll, ApplyRaises, Commit, ConsumerCrash
<1>4. ASSUME NEW p \in Partitions, Revoke(p) \/ \E c \in Consumers : Assign(p, c)
      PROVE  UNCHANGED <<inbox, counts>>
  BY <1>4 DEF Revoke, Assign
<1>5. ASSUME NEW d \in Dispatchers, Dispatch(d) \/ PublishFails(d) \/ DispatcherCrash(d)
      PROVE  UNCHANGED <<inbox, counts>>
  BY <1>5 DEF Dispatch, LeaseBatch, Publish, PublishFails, Acknowledge, Reject,
     DispatcherCrash, projectVars
<1>6. ASSUME NEW a \in Aggregates, NEW kind \in Kinds, Emit(a, kind)
      PROVE  UNCHANGED <<inbox, counts>>
  BY <1>6 DEF Emit, projectVars
<1>7. Tick \/ UNCHANGED vars => UNCHANGED <<inbox, counts>>
  BY DEF Tick, vars, projectVars
<1> QED
  BY <1>1, <1>2, <1>3, <1>4, <1>5, <1>6, <1>7 DEF Next, Consume

\* The counter of an issue is the number of its events in the inbox, however
\* often an event was published, redelivered or worked on by two consumers.
THEOREM CountersAreExact == Spec => []CountedOnce
<1>1. Init => CountedOnce
  <2> SUFFICES ASSUME Init, NEW a \in Aggregates
               PROVE  counts[a] = Cardinality({e \in inbox : outbox[e].aggregate = a})
    BY DEF CountedOnce
  <2>1. {e \in inbox : outbox[e].aggregate = a} = {}
    BY DEF Init
  <2> QED
    BY <2>1, FS_EmptySet DEF Init
<1>2. TypeInv /\ CountedOnce /\ [Next]_vars => CountedOnce'
  BY CountedStep
<1> QED
  BY <1>1, <1>2, TypeInvAlways, PTL DEF Spec

-----------------------------------------------------------------------------
(* Refinement *)

Event(row) == [aggregate |-> row.aggregate, kind |-> row.kind]

Kept(rows) ==
  [e \in DOMAIN rows |-> [aggregate |-> rows[e].aggregate, kind |-> rows[e].kind]]

EventRecords == [aggregate : Aggregates, kind : Kinds]

LEMMA KeptType ==
  ASSUME NEW rows \in Seq(Rows)
  PROVE  /\ Kept(rows) \in Seq(EventRecords)
         /\ Len(Kept(rows)) = Len(rows)
         /\ \A e \in 1..Len(rows) : Kept(rows)[e] = Event(rows[e])
<1>1. Len(rows) \in Nat /\ DOMAIN rows = 1..Len(rows) /\ rows \in [1..Len(rows) -> Rows]
  BY LenProperties
<1>2. Kept(rows) \in [1..Len(rows) -> EventRecords]
  BY <1>1 DEF Kept, Rows, EventRecords
<1>3. Kept(rows) \in Seq(EventRecords) /\ Len(Kept(rows)) = Len(rows)
  BY <1>1, <1>2, Listed
<1> QED
  BY <1>1, <1>3 DEF Kept, Event

\* What is committed with the rows already there is left alone.
LEMMA KeptSame ==
  ASSUME NEW rows \in Seq(Rows), NEW next \in Seq(Rows), Len(next) = Len(rows),
         \A e \in 1..Len(rows) : SameEvent(rows[e], next[e])
  PROVE  Kept(next) = Kept(rows)
<1>1. \A e \in 1..Len(rows) : Event(next[e]) = Event(rows[e])
  BY DEF SameEvent, Event
<1>2. \A e \in 1..Len(rows) : Kept(next)[e] = Kept(rows)[e]
  BY <1>1, KeptType
<1> QED
  BY <1>2, KeptType, SeqEqual

LEMMA KeptAppended ==
  ASSUME NEW rows \in Seq(Rows), NEW row \in Rows
  PROVE  Kept(Append(rows, row)) = Append(Kept(rows), Event(row))
<1> DEFINE next == Append(rows, row)
           kept == Append(Kept(rows), Event(row))
<1>1. /\ next \in Seq(Rows)
      /\ Len(next) = Len(rows) + 1
      /\ \A e \in 1..Len(rows) : next[e] = rows[e]
      /\ next[Len(rows) + 1] = row
      /\ Len(rows) \in Nat
  BY AppendProperties, LenProperties
<1>2. Event(row) \in EventRecords
  BY DEF Event, EventRecords, Rows
<1>3. /\ kept \in Seq(EventRecords)
      /\ Len(kept) = Len(rows) + 1
      /\ \A e \in 1..Len(rows) : kept[e] = Kept(rows)[e]
      /\ kept[Len(rows) + 1] = Event(row)
  BY <1>2, KeptType, AppendProperties
<1> HIDE DEF next, kept
<1>4. /\ Kept(next) \in Seq(EventRecords)
      /\ Len(Kept(next)) = Len(rows) + 1
      /\ \A e \in 1..(Len(rows) + 1) : Kept(next)[e] = Event(next[e])
  BY <1>1, KeptType
<1>5. \A e \in 1..Len(rows) : Kept(rows)[e] = Event(rows[e])
  BY KeptType
<1>6. \A e \in 1..(Len(rows) + 1) : Kept(next)[e] = kept[e]
  <2> SUFFICES ASSUME NEW e \in 1..(Len(rows) + 1) PROVE Kept(next)[e] = kept[e]
    OBVIOUS
  <2>1. Kept(next)[e] = Event(next[e])
    BY <1>4
  <2>2. CASE e \in 1..Len(rows)
    BY <1>1, <1>3, <1>5, <2>1, <2>2
  <2>3. CASE e = Len(rows) + 1
    BY <1>1, <1>3, <2>1, <2>3
  <2> QED
    BY <1>1, <2>2, <2>3
<1>7. Kept(next) = kept
  BY <1>3, <1>4, <1>6, SeqEqual
<1> QED
  BY <1>7 DEF next, kept

LEMMA DeliveryInit == Init => Delivery!Init
<1> SUFFICES ASSUME Init PROVE Delivery!Init
  OBVIOUS
<1>1. <<>> \in Seq(Rows) /\ Len(<<>>) = 0
  BY EmptySeq
<1>2. Kept(<<>>) \in Seq(EventRecords) /\ Len(Kept(<<>>)) = 0
  BY <1>1, KeptType
<1>3. Kept(<<>>) = <<>>
  BY <1>2, EmptySeq
<1> QED
  BY <1>3 DEF Init, Delivery!Init, Kept

LEMMA DeliveryNext ==
  ASSUME TypeInv, [Next]_vars
  PROVE  [Delivery!Next]_(Delivery!vars)
<1>a. RowsKept
  BY RowStep DEF TypeInv
<1>b. outbox \in Seq(Rows) /\ Len(outbox) \in Nat
  BY OutboxDomain DEF TypeInv, Shapes
<1>1. ASSUME Kept(outbox') = Kept(outbox), UNCHANGED <<inbox, counts>>
      PROVE  UNCHANGED Delivery!vars
  BY <1>1 DEF Delivery!vars, Kept
<1>2. ASSUME NEW a \in Aggregates, NEW kind \in Kinds, Emit(a, kind)
      PROVE  Delivery!Next
  <2>1. Kept(outbox') = Append(Kept(outbox), [aggregate |-> a, kind |-> kind])
        /\ UNCHANGED <<inbox, counts>>
    <3>1. Event(NewRow(a, kind)) = [aggregate |-> a, kind |-> kind]
      BY DEF Event, NewRow
    <3>2. outbox' = Append(outbox, NewRow(a, kind)) /\ UNCHANGED <<inbox, counts>>
      BY <1>2 DEF Emit, projectVars
    <3> QED
      BY <1>b, <3>1, <3>2, NewRowType, KeptAppended
  <2>2. Delivery!Emit(a, kind)
    BY <2>1 DEF Delivery!Emit, Kept
  <2> QED
    BY <2>2 DEF Delivery!Next
<1>3. ASSUME NEW c \in Consumers, Apply(c) PROVE [Delivery!Next]_(Delivery!vars)
  <2> DEFINE e == Message(c)
  <2>1. /\ inbox' = inbox \cup {e}
        /\ counts' = IF e \notin inbox
                       THEN [counts EXCEPT ![outbox[e].aggregate] = @ + 1] ELSE counts
        /\ outbox[e].kind = "issue"
        /\ UNCHANGED outbox
    BY <1>3 DEF Apply, Accepted, Fresh, dispatchVars
  <2>2. e \in Events
    BY <1>3, LogLengths DEF Apply, Message, TypeInv, MessagesFit
  <2> HIDE DEF e
  <2>3. CASE e \in inbox
    BY <1>1, <2>1, <2>3
  <2>4. CASE e \notin inbox
    <3>1. /\ e \in 1..Len(Kept(outbox))
          /\ Kept(outbox)[e].kind = "issue"
          /\ Kept(outbox)[e].aggregate = outbox[e].aggregate
      <4>1. Len(Kept(outbox)) = Len(outbox)
        BY <1>b, KeptType
      <4>2. Kept(outbox)[e] = Event(outbox[e])
        BY <1>b, <2>2, KeptType DEF Events
      <4> QED
        BY <2>1, <2>2, <4>1, <4>2 DEF Events, Event
    <3>2. /\ inbox' = inbox \cup {e}
          /\ e \in (1..Len(Kept(outbox))) \ inbox
          /\ counts' = [counts EXCEPT ![Kept(outbox)[e].aggregate] = @ + 1]
          /\ Kept(outbox') = Kept(outbox)
      BY <2>1, <2>4, <3>1
    <3>3. Delivery!Project(e)
      BY <3>1, <3>2 DEF Delivery!Project, Kept
    <3> QED
      BY <3>1, <3>3 DEF Delivery!Next, Kept
  <2> QED
    BY <2>3, <2>4
<1>4. UNCHANGED <<outbox, inbox, counts>> => UNCHANGED Delivery!vars
  BY <1>1
<1>5. Len(outbox') = Len(outbox) /\ UNCHANGED <<inbox, counts>> => UNCHANGED Delivery!vars
  BY <1>1, <1>a, <1>b, KeptSame DEF RowsKept, Events
<1>6. ASSUME NEW d \in Dispatchers, LeaseBatch(d)
      PROVE  Len(outbox') = Len(outbox) /\ UNCHANGED <<inbox, counts>>
  <2>1. outbox' \in [Events -> Rows]
    BY <1>6, LeasedRowType, OutboxDomain DEF LeaseBatch, SameEvent, TypeInv
  <2> QED
    BY <1>6, <1>b, <2>1, Listed DEF LeaseBatch, projectVars, Events
<1>7. ASSUME NEW d \in Dispatchers, Acknowledge(d) \/ Reject(d)
      PROVE  Len(outbox') = Len(outbox) /\ UNCHANGED <<inbox, counts>>
  <2>1. dispatcher[d].pc # "idle"
    BY <1>7 DEF Acknowledge, Reject
  <2>2. Current(d) \in Events
    BY <2>1, CurrentInBatch DEF TypeInv
  <2>3. outbox' \in [Events -> Rows]
    BY <1>7, <2>2, PublishedRowType, RejectedRowType, OutboxDomain
       DEF Acknowledge, Reject, SameEvent, TypeInv
  <2> QED
    BY <1>7, <1>b, <2>3, Listed DEF Acknowledge, Reject, projectVars, Events
<1>8. ASSUME NEW d \in Dispatchers, Publish(d) \/ PublishFails(d) \/ DispatcherCrash(d)
      PROVE  UNCHANGED <<outbox, inbox, counts>>
  BY <1>8 DEF Publish, PublishFails, DispatcherCrash, projectVars
<1>9. ASSUME NEW p \in Partitions, Revoke(p) \/ \E c \in Consumers : Assign(p, c)
      PROVE  UNCHANGED <<outbox, inbox, counts>>
  BY <1>9 DEF Revoke, Assign, dispatchVars
<1>10. ASSUME NEW c \in Consumers,
              Poll(c) \/ ApplyRaises(c) \/ Commit(c) \/ ConsumerCrash(c)
       PROVE  UNCHANGED <<outbox, inbox, counts>>
  BY <1>10 DEF Poll, ApplyRaises, Commit, ConsumerCrash, dispatchVars
<1>11. CASE Tick
  <2>1. outbox' \in [Events -> Rows]
    BY <1>11, AgedRowType, OutboxDomain DEF Tick, SameEvent, TypeInv
  <2> QED
    BY <1>11, <1>5, <1>b, <2>1, Listed DEF Tick, projectVars, Events
<1>12. CASE UNCHANGED vars
  BY <1>4, <1>12 DEF vars
<1> QED
  BY <1>2, <1>3, <1>4, <1>5, <1>6, <1>7, <1>8, <1>9, <1>10, <1>11, <1>12
     DEF Next, Dispatch, Consume

\* End to end, the path adds each committed issue event to its issue's counter
\* at most once and nothing that was not committed, whatever is retried,
\* duplicated or redelivered on the way.
THEOREM DeliveryImplemented == Spec => ImplementsDelivery
<1>1. TypeInv /\ [Next]_vars => [Delivery!Next]_(Delivery!vars)
  BY DeliveryNext
<1> QED
  BY <1>1, DeliveryInit, TypeInvAlways, PTL DEF Spec, ImplementsDelivery, Delivery!Spec

-----------------------------------------------------------------------------
(* The order of the events, where one dispatcher meets no failure *)

\* Publishing never fails and no dispatcher dies; consumers may, and Kafka may
\* reassign partitions.
Steady == \A d \in Dispatchers : ~PublishFails(d) /\ ~DispatcherCrash(d)

\* Nothing waits for a retry, and only what the dispatcher holds is leased.
OnlyHoldsLeases(d) ==
  /\ dispatcher[d].pc # "rejecting"
  /\ \A e \in Events :
       /\ outbox[e].delay = 0
       /\ e \notin dispatcher[d].batch => outbox[e].lease = 0
       /\ e \in dispatcher[d].batch => Leases(outbox[e], d)

Taken(d, e) == outbox[e].published \/ e \in dispatcher[d].batch

\* What is published is older than what is held, and that than what is left.
TakenInOrder(d) ==
  \A e, k \in Events :
    k < e => /\ outbox[e].published => outbox[k].published
             /\ Taken(d, e) => Taken(d, k)

\* The topic holds what is published, and the event drain awaits the database for.
LoggedInTurn(d) ==
  \A e \in Events :
    InLog(e) => outbox[e].published \/ (dispatcher[d].pc = "acking" /\ e = Current(d))

InTurn(d) == OnlyHoldsLeases(d) /\ TakenInOrder(d) /\ LoggedInTurn(d)

LEMMA RowFields ==
  ASSUME NEW row \in Rows, NEW d \in Dispatchers
  PROVE  /\ LeasedRow(row, d).leased_by = d /\ LeasedRow(row, d).delay = row.delay
         /\ LeasedRow(row, d).published = row.published
         /\ PublishedRow(row).published /\ PublishedRow(row).lease = 0
         /\ PublishedRow(row).delay = row.delay
         /\ AgedRow(row).leased_by = row.leased_by
         /\ AgedRow(row).published = row.published
         /\ row.delay = 0 => AgedRow(row).delay = 0
         /\ row.lease = 0 => AgedRow(row).lease = 0
<1>1. /\ LeasedRow(row, d).leased_by = d /\ LeasedRow(row, d).delay = row.delay
      /\ LeasedRow(row, d).published = row.published
  BY DEF LeasedRow, Rows
<1>2. /\ PublishedRow(row).published /\ PublishedRow(row).lease = 0
      /\ PublishedRow(row).delay = row.delay
  BY DEF PublishedRow, Rows
<1>3. /\ AgedRow(row).leased_by = row.leased_by
      /\ AgedRow(row).published = row.published
  BY DEF AgedRow, Rows
<1>4. /\ AgedRow(row).delay = Countdown(row.delay)
      /\ AgedRow(row).lease = Countdown(row.lease)
  BY DEF AgedRow, Rows
<1>5. Countdown(0) = 0
  BY DEF Countdown
<1> QED
  BY <1>1, <1>2, <1>3, <1>4, <1>5

\* pending_outbox leases the oldest rows: none that could be leased is older
\* than one that is.
LEMMA BatchIsOldest ==
  ASSUME Shapes, NEW e \in Batch, NEW k \in Events, k < e, Pending(outbox[k])
  PROVE  k \in Batch
<1> DEFINE pending == {j \in DOMAIN outbox : Pending(outbox[j])}
           before(j) == {i \in pending : i < j}
<1>1. pending \subseteq Events /\ k \in pending /\ e \in pending
  BY OutboxDomain DEF Batch
<1>2. Len(outbox) \in Nat
  BY OutboxDomain
<1>3. IsFiniteSet(Events)
  BY <1>2, FS_Interval DEF Events
<1>4. IsFiniteSet(before(e))
  BY <1>1, <1>3, FS_Subset
<1>5. before(k) \subseteq before(e)
  <2>1. \A i \in Events : i \in Nat
    BY DEF Events
  <2> QED
    BY <1>1, <2>1
<1>6. Cardinality(before(k)) <= Cardinality(before(e))
  BY <1>4, <1>5, FS_Subset
<1>7. IsFiniteSet(before(k))
  BY <1>4, <1>5, FS_Subset
<1>8. Cardinality(before(k)) \in Nat /\ Cardinality(before(e)) \in Nat
  BY <1>4, <1>7, FS_CardinalityType
<1>9. Cardinality(before(e)) < BatchLimit
  BY DEF Batch
<1>10. Cardinality(before(k)) < BatchLimit
  BY <1>6, <1>8, <1>9, TicksAssumption
<1> QED
  BY <1>1, <1>10 DEF Batch

\* Current is the least event of a batch.
LEMMA CurrentIsOldest ==
  ASSUME Shapes, BatchesFit, NEW d \in Dispatchers, dispatcher[d].pc # "idle"
  PROVE  \A k \in dispatcher[d].batch : Current(d) <= k
<1>1. dispatcher[d].batch \in SUBSET Events /\ dispatcher[d].batch # {}
  BY DEF Shapes, BatchesFit
<1>2. Events \subseteq Nat
  BY DEF Events
<1>3. dispatcher[d].batch \in SUBSET Nat
  BY <1>1, <1>2
<1>4. \E e \in dispatcher[d].batch : \A k \in dispatcher[d].batch : e <= k
  BY <1>1, <1>3, LeastNat
<1> QED
  BY <1>1, <1>4 DEF Current

\* An event is in the topic once it was appended, and stays where it was.
LEMMA LoggedBefore ==
  ASSUME Shapes, NEW e \in Events, outbox'[e].aggregate = outbox[e].aggregate,
         InLog(e)', UNCHANGED log
  PROVE  InLog(e)
BY DEF InLog

LEMMA LoggedByPublish ==
  ASSUME Shapes, NEW m \in Events, Append1(m), NEW e \in Events, UNCHANGED outbox, InLog(e)'
  PROVE  InLog(e) \/ e = m
<1> DEFINE p == PartitionOf[outbox[e].aggregate]
           q == PartitionOf[outbox[m].aggregate]
<1>1. p \in Partitions /\ q \in Partitions
  BY OutboxDomain, PartitionAssumption DEF Rows
<1>2. PICK i \in DOMAIN log'[p] : log'[p][i] = e
  BY DEF InLog
<1>3. log' = [log EXCEPT ![q] = Append(@, m)]
  BY DEF Append1
<1>4. CASE p # q
  <2>1. log'[p] = log[p]
    BY <1>1, <1>3, <1>4 DEF Shapes
  <2> QED
    BY <1>2, <2>1 DEF InLog
<1>5. CASE p = q
  <2> HIDE DEF q
  <2>1. log'[p] = Append(log[p], m) /\ log[p] \in Seq(Events)
    BY <1>1, <1>3, <1>5 DEF Shapes
  <2>2. /\ Len(log'[p]) = Len(log[p]) + 1
        /\ DOMAIN log'[p] = 1..Len(log'[p])
        /\ \A j \in 1..Len(log[p]) : log'[p][j] = log[p][j]
        /\ log'[p][Len(log[p]) + 1] = m
        /\ Len(log[p]) \in Nat /\ DOMAIN log[p] = 1..Len(log[p])
    BY <2>1, AppendProperties, LenProperties
  <2>3. i \in DOMAIN log[p] \/ i = Len(log[p]) + 1
    BY <1>2, <2>2
  <2> QED
    BY <1>2, <2>2, <2>3 DEF InLog
<1> QED
  BY <1>4, <1>5

\* An event that was never committed is not in the topic.
LEMMA LoggedIsCommitted ==
  ASSUME Shapes, NEW p \in Partitions, NEW i \in DOMAIN log[p]
  PROVE  log[p][i] \in Events
BY LogLengths

LEMMA InTurnEmit ==
  ASSUME TypeInv, NEW d \in Dispatchers, InTurn(d),
         NEW a \in Aggregates, NEW kind \in Kinds, Emit(a, kind)
  PROVE  InTurn(d)'
<1> DEFINE new == Len(outbox) + 1
<1>1. /\ \A e \in Events : outbox'[e] = outbox[e]
      /\ Events' = Events \cup {new} /\ new \notin Events
      /\ outbox'[new] = NewRow(a, kind)
      /\ new \in Nat /\ \A e \in Events : e < new /\ e \in Nat
  <2>1. /\ Len(outbox') = Len(outbox) + 1
        /\ \A e \in 1..Len(outbox) : outbox'[e] = outbox[e]
        /\ outbox'[Len(outbox) + 1] = NewRow(a, kind)
    BY AppendProperties, NewRowType DEF Emit, TypeInv, Shapes
  <2> QED
    BY <2>1, OutboxDomain DEF Events, TypeInv
<1>2. dispatcher' = dispatcher /\ log' = log
  BY DEF Emit
<1>3. ~outbox'[new].published /\ outbox'[new].delay = 0 /\ outbox'[new].lease = 0
  BY <1>1 DEF NewRow
<1>4. dispatcher[d].batch \subseteq Events
  BY DEF TypeInv, Shapes
<1> HIDE DEF new
<1>5. OnlyHoldsLeases(d)'
  BY <1>1, <1>2, <1>3, <1>4 DEF InTurn, OnlyHoldsLeases, Leases
<1>6. TakenInOrder(d)'
  <2>1. \A e \in Events : Taken(d, e)' <=> Taken(d, e)
    BY <1>1, <1>2 DEF Taken
  <2>2. \A e : e = new => ~Taken(d, e)'
    BY <1>1, <1>2, <1>3, <1>4 DEF Taken
  <2>3. \A e, k \in Events' :
          k < e => /\ outbox'[e].published => outbox'[k].published
                   /\ Taken(d, e)' => Taken(d, k)'
    <3>1. TAKE e, k \in Events'
    <3>2. HAVE k < e
    <3>3. CASE e = new
      <4>1. ~outbox'[e].published
        BY <1>3, <3>3
      <4> QED
        BY <2>2, <3>3, <4>1
    <3>4. CASE e \in Events /\ k = new
      BY <1>1, <3>2, <3>4
    <3>5. CASE e \in Events /\ k \in Events
      BY <1>1, <2>1, <3>2, <3>5 DEF InTurn, TakenInOrder
    <3> QED
      BY <1>1, <3>3, <3>4, <3>5
  <2> QED
    BY <2>3 DEF TakenInOrder, Taken
<1>7. LoggedInTurn(d)'
  <2>1. \A e \in Events' :
          InLog(e)' => \/ outbox'[e].published
                       \/ dispatcher'[d].pc = "acking" /\ e = Current(d)'
    <3>1. TAKE e \in Events'
    <3>2. HAVE InLog(e)'
    <3>3. CASE e \in Events
      <4>1. InLog(e)
        BY <1>1, <1>2, <3>2, <3>3, LoggedBefore DEF TypeInv
      <4>2. Current(d)' = Current(d)
        BY <1>2 DEF Current
      <4> QED
        BY <1>1, <1>2, <3>3, <4>1, <4>2 DEF InTurn, LoggedInTurn
    <3>4. CASE e = new
      <4>1. PartitionOf[outbox'[new].aggregate] \in Partitions
        BY <1>1, PartitionAssumption DEF NewRow
      <4> QED
        BY <1>1, <1>2, <3>2, <3>4, <4>1, LoggedIsCommitted DEF InLog, TypeInv
    <3> QED
      BY <1>1, <3>3, <3>4
  <2> QED
    BY <2>1 DEF LoggedInTurn
<1> QED
  BY <1>5, <1>6, <1>7 DEF InTurn

\* Rows may age and be leased while the dispatcher's place in its batch and the
\* log stay as they are.
LEMMA LoggedInTurnKept ==
  ASSUME TypeInv, NEW d \in Dispatchers, InTurn(d), UNCHANGED log,
         Len(outbox') = Len(outbox),
         \A e \in Events : /\ outbox'[e].aggregate = outbox[e].aggregate
                           /\ outbox[e].published => outbox'[e].published,
         dispatcher[d].pc = "acking" =>
           \/ outbox'[Current(d)].published
           \/ dispatcher'[d].pc = "acking" /\ Current(d)' = Current(d)
  PROVE  LoggedInTurn(d)'
<1>1. Events' = Events
  BY DEF Events
<1>2. \A e \in Events : InLog(e)' => InLog(e)
  BY LoggedBefore DEF TypeInv
<1>3. \A e \in Events' :
        InLog(e)' => \/ outbox'[e].published
                     \/ dispatcher'[d].pc = "acking" /\ e = Current(d)'
  BY <1>1, <1>2 DEF InTurn, LoggedInTurn
<1> QED
  BY <1>3 DEF LoggedInTurn

LEMMA InTurnLease ==
  ASSUME TypeInv, NEW d \in Dispatchers, InTurn(d), LeaseBatch(d)
  PROVE  InTurn(d)'
<1>a. \A e \in Events : outbox[e] \in Rows
  BY OutboxDomain DEF TypeInv
<1>b. DOMAIN outbox = Events
  BY OutboxDomain DEF TypeInv
<1>1. /\ \A e \in Batch : outbox'[e] = LeasedRow(outbox[e], d)
      /\ \A e \in Events \ Batch : outbox'[e] = outbox[e]
      /\ Batch \subseteq Events
  BY <1>b DEF LeaseBatch, Batch
<1>2. Len(outbox') = Len(outbox)
  <2>1. outbox' \in [Events -> Rows]
    BY <1>a, <1>b, LeasedRowType DEF LeaseBatch, SameEvent
  <2> QED
    BY <2>1, OutboxDomain, Listed DEF Events, TypeInv
<1>3. Events' = Events
  BY <1>2 DEF Events
<1>4. /\ dispatcher'[d].pc = "publishing" /\ dispatcher'[d].batch = Batch
      /\ dispatcher[d].pc = "idle" /\ dispatcher[d].batch = {}
  BY DEF LeaseBatch, TypeInv, Shapes, BatchesFit
<1>5. \A e \in Events : /\ outbox'[e].published = outbox[e].published
                        /\ outbox'[e].delay = 0
                        /\ outbox'[e].aggregate = outbox[e].aggregate
  <2>1. \A e \in Events : outbox[e].delay = 0
    BY DEF InTurn, OnlyHoldsLeases
  <2> QED
    BY <1>a, <1>1, <2>1, RowFields, LeasedRowType DEF SameEvent
<1>6. \A e \in Batch : ~outbox[e].published /\ outbox'[e].leased_by = d
  <2>1. \A e \in Batch : ~outbox[e].published
    BY DEF Batch, Pending
  <2> QED
    BY <1>a, <1>1, <2>1, RowFields
<1>7. \A e \in Events : Pending(outbox[e]) <=> ~outbox[e].published
  BY <1>4 DEF InTurn, OnlyHoldsLeases, Pending
<1>8. OnlyHoldsLeases(d)'
  <2>1. \A e \in Events \ Batch : outbox'[e].lease = 0
    BY <1>1, <1>4 DEF InTurn, OnlyHoldsLeases
  <2> QED
    BY <1>1, <1>3, <1>4, <1>5, <1>6, <2>1 DEF OnlyHoldsLeases, Leases
<1>9. TakenInOrder(d)'
  <2>1. \A e, k \in Events :
          k < e => /\ outbox'[e].published => outbox'[k].published
                   /\ Taken(d, e)' => Taken(d, k)'
    <3>1. TAKE e, k \in Events
    <3>2. HAVE k < e
    <3>3. outbox'[e].published => outbox'[k].published
      BY <1>5, <3>2 DEF InTurn, TakenInOrder
    <3>4. ASSUME e \in Batch, ~outbox'[k].published PROVE k \in Batch
      BY <1>5, <1>7, <3>2, <3>4, BatchIsOldest DEF TypeInv
    <3> QED
      BY <1>4, <3>3, <3>4 DEF Taken
  <2> QED
    BY <1>3, <2>1 DEF TakenInOrder
<1>10. LoggedInTurn(d)'
  BY <1>2, <1>4, <1>5, LoggedInTurnKept DEF LeaseBatch
<1> QED
  BY <1>8, <1>9, <1>10 DEF InTurn

LEMMA InTurnPublish ==
  ASSUME TypeInv, NEW d \in Dispatchers, InTurn(d), Publish(d)
  PROVE  InTurn(d)'
<1>1. /\ outbox' = outbox
      /\ dispatcher[d].pc = "publishing"
      /\ dispatcher'[d].pc = "acking" /\ dispatcher'[d].batch = dispatcher[d].batch
  BY DEF Publish, TypeInv, Shapes
<1>2. Current(d)' = Current(d)
  BY <1>1 DEF Current
<1>3. Current(d) \in Events
  BY <1>1, CurrentInBatch DEF TypeInv
<1>4. OnlyHoldsLeases(d)'
  BY <1>1 DEF InTurn, OnlyHoldsLeases, Leases, Events
<1>5. TakenInOrder(d)'
  BY <1>1 DEF InTurn, TakenInOrder, Taken, Events
<1>6. \A e \in Events : InLog(e)' => InLog(e) \/ e = Current(d)
  BY <1>1, <1>3, LoggedByPublish DEF Publish, TypeInv
<1>7. \A e \in Events :
        InLog(e)' => \/ outbox'[e].published
                     \/ dispatcher'[d].pc = "acking" /\ e = Current(d)'
  BY <1>1, <1>2, <1>6 DEF InTurn, LoggedInTurn
<1>8. LoggedInTurn(d)'
  BY <1>1, <1>7 DEF LoggedInTurn, Events
<1> QED
  BY <1>4, <1>5, <1>8 DEF InTurn

\* The owner of a batch still leases its oldest row; acknowledging it makes the
\* row the youngest published one.
LEMMA InTurnAcknowledge ==
  ASSUME TypeInv, NEW d \in Dispatchers, InTurn(d), Acknowledge(d)
  PROVE  InTurn(d)'
<1> DEFINE m == Current(d)
<1>a. dispatcher[d].pc = "acking"
  BY DEF Acknowledge
<1>b. m \in Events /\ m \in dispatcher[d].batch /\ \A k \in dispatcher[d].batch : m <= k
  BY <1>a, CurrentInBatch, CurrentIsOldest DEF TypeInv
<1>c. Leases(outbox[m], d)
  BY <1>b DEF InTurn, OnlyHoldsLeases
<1>1. outbox' = [outbox EXCEPT ![m] = PublishedRow(@)] /\ Advance(d) /\ log' = log
  BY <1>c DEF Acknowledge
<1>2. /\ dispatcher'[d].batch = dispatcher[d].batch \ {m}
      /\ dispatcher'[d].pc \in {"idle", "publishing"}
  <2>1. \/ /\ dispatcher[d].batch = {m}
           /\ dispatcher' = [dispatcher EXCEPT ![d] = IdleDispatcher]
        \/ dispatcher' = [dispatcher EXCEPT ![d] =
             [pc |-> "publishing", batch |-> dispatcher[d].batch \ {m}]]
    BY <1>1 DEF Advance
  <2> QED
    BY <2>1 DEF IdleDispatcher, TypeInv, Shapes
<1>3. \A e \in Events : outbox[e] \in Rows
  BY OutboxDomain DEF TypeInv
<1> HIDE DEF m
<1>4. /\ outbox'[m] = PublishedRow(outbox[m])
      /\ \A e \in Events \ {m} : outbox'[e] = outbox[e]
      /\ Len(outbox') = Len(outbox)
  <2>1. outbox' \in [Events -> Rows]
    BY <1>1, <1>3, <1>b, OutboxDomain, PublishedRowType DEF TypeInv, SameEvent
  <2>2. Len(outbox') = Len(outbox)
    BY <2>1, OutboxDomain, Listed DEF Events, TypeInv
  <2> QED
    BY <1>1, <1>b, <2>2, OutboxDomain DEF TypeInv
<1>5. Events' = Events
  BY <1>4 DEF Events
<1>6. /\ outbox'[m].published /\ outbox'[m].lease = 0 /\ outbox'[m].delay = outbox[m].delay
      /\ outbox'[m].aggregate = outbox[m].aggregate
  BY <1>3, <1>4, <1>b, RowFields, PublishedRowType DEF SameEvent
<1>7. OnlyHoldsLeases(d)'
  BY <1>2, <1>4, <1>5, <1>6, <1>b DEF InTurn, OnlyHoldsLeases, Leases
<1>8. TakenInOrder(d)'
  <2>1. \A e \in Events : Taken(d, e)' <=> Taken(d, e)
    BY <1>2, <1>4, <1>6, <1>b DEF Taken
  <2>2. \A e, k \in Events : k < e /\ outbox'[e].published => outbox'[k].published
    <3>1. TAKE e, k \in Events
    <3>2. HAVE k < e /\ outbox'[e].published
    <3>3. CASE e # m
      BY <1>4, <1>6, <3>2, <3>3 DEF InTurn, TakenInOrder
    <3>4. CASE e = m
      <4>1. Taken(d, m)
        BY <1>b DEF Taken
      <4>2. Taken(d, k)
        BY <3>2, <3>4, <4>1, <1>b DEF InTurn, TakenInOrder
      <4>3. k \notin dispatcher[d].batch
        BY <1>b, <3>2, <3>4 DEF Events
      <4>4. k # m
        BY <1>b, <4>3
      <4> QED
        BY <1>4, <4>2, <4>3, <4>4 DEF Taken
    <3> QED
      BY <3>3, <3>4
  <2>3. \A e, k \in Events : k < e => (Taken(d, e)' => Taken(d, k)')
    BY <2>1 DEF InTurn, TakenInOrder
  <2> QED
    BY <1>5, <2>2, <2>3 DEF TakenInOrder
<1>9. LoggedInTurn(d)'
  BY <1>1, <1>4, <1>6, LoggedInTurnKept DEF m
<1> QED
  BY <1>7, <1>8, <1>9 DEF InTurn

LEMMA InTurnTick ==
  ASSUME TypeInv, NEW d \in Dispatchers, InTurn(d), Tick
  PROVE  InTurn(d)'
<1>1. \A e \in Events : outbox[e] \in Rows
  BY OutboxDomain DEF TypeInv
<1>2. outbox' = [e \in Events |-> AgedRow(outbox[e])]
      /\ dispatcher' = dispatcher /\ log' = log
  BY OutboxDomain DEF Tick, TypeInv
<1>3. Len(outbox') = Len(outbox)
  <2>1. outbox' \in [Events -> Rows]
    BY <1>1, <1>2, AgedRowType DEF SameEvent
  <2> QED
    BY <2>1, OutboxDomain, Listed DEF Events, TypeInv
<1>4. Events' = Events
  BY <1>3 DEF Events
<1>5. \A e \in Events :
        /\ outbox'[e].published = outbox[e].published
        /\ outbox'[e].leased_by = outbox[e].leased_by
        /\ outbox'[e].aggregate = outbox[e].aggregate
        /\ outbox[e].delay = 0 => outbox'[e].delay = 0
        /\ outbox[e].lease = 0 => outbox'[e].lease = 0
  BY <1>1, <1>2, AgedRowType, RowFields DEF SameEvent
<1>6. OnlyHoldsLeases(d)'
  BY <1>2, <1>4, <1>5 DEF InTurn, OnlyHoldsLeases, Leases
<1>7. TakenInOrder(d)'
  BY <1>2, <1>4, <1>5 DEF InTurn, TakenInOrder, Taken
<1>8. Current(d)' = Current(d)
  BY <1>2 DEF Current
<1>9. LoggedInTurn(d)'
  BY <1>2, <1>3, <1>5, <1>8, LoggedInTurnKept
<1> QED
  BY <1>6, <1>7, <1>9 DEF InTurn

LEMMA InTurnStep ==
  ASSUME NEW d \in Dispatchers, Dispatchers = {d}, TypeInv, InTurn(d), [Next]_vars, [Steady]_vars
  PROVE  InTurn(d)'
<1>1. ASSUME UNCHANGED <<outbox, dispatcher, log>> PROVE InTurn(d)'
  BY <1>1 DEF InTurn, OnlyHoldsLeases, TakenInOrder, LoggedInTurn, Leases, Taken, InLog,
              Current, Events
<1>2. ASSUME UNCHANGED vars PROVE InTurn(d)'
  BY <1>1, <1>2 DEF vars
<1>3. CASE Steady /\ Next
  <2>1. ASSUME NEW a \in Aggregates, NEW kind \in Kinds, Emit(a, kind) PROVE InTurn(d)'
    BY <2>1, InTurnEmit
  <2>2. ASSUME NEW c \in Dispatchers, Dispatch(c) \/ PublishFails(c) \/ DispatcherCrash(c)
        PROVE  InTurn(d)'
    <3>1. c = d /\ Dispatch(d)
      BY <1>3, <2>2 DEF Steady
    <3>2. ~Reject(d)
      BY DEF Reject, InTurn, OnlyHoldsLeases
    <3> QED
      BY <3>1, <3>2, InTurnLease, InTurnPublish, InTurnAcknowledge DEF Dispatch
  <2>3. ASSUME NEW p \in Partitions, Revoke(p) \/ \E c \in Consumers : Assign(p, c)
        PROVE  InTurn(d)'
    BY <1>1, <2>3 DEF Revoke, Assign, dispatchVars
  <2>4. ASSUME NEW c \in Consumers, Consume(c) \/ ConsumerCrash(c) PROVE InTurn(d)'
    BY <1>1, <2>4 DEF Consume, Poll, Apply, ApplyRaises, Commit, ConsumerCrash, dispatchVars
  <2>5. CASE Tick
    BY <2>5, InTurnTick
  <2> QED
    BY <1>3, <2>1, <2>2, <2>3, <2>4, <2>5 DEF Next
<1> QED
  BY <1>2, <1>3

\* While publishing does not fail and no dispatcher dies, a single dispatcher
\* brings the events of an issue to the topic in the order in which they were
\* committed (what README.md:59 promises of every deployment), however drain is
\* interleaved with new commits, with leases that run out under it and with
\* consumers that come and go.
THEOREM OneDispatcherKeepsOrder ==
  ASSUME NEW d, Dispatchers = {d}
  PROVE  Spec /\ [][Steady]_vars => []IssueOrderKept
<1> d \in Dispatchers
  OBVIOUS
<1>1. Init => InTurn(d)
  <2>1. Init => Events = {}
    BY DEF Init, Events
  <2>2. Init => dispatcher[d].pc = "idle"
    BY DEF Init, IdleDispatcher
  <2> QED
    BY <2>1, <2>2 DEF InTurn, OnlyHoldsLeases, TakenInOrder, LoggedInTurn
<1>2. TypeInv /\ InTurn(d) /\ [Next]_vars /\ [Steady]_vars => InTurn(d)'
  BY InTurnStep
<1>3. TypeInv /\ PublishedIsLogged /\ InTurn(d) => IssueOrderKept
  <2> SUFFICES ASSUME TypeInv, PublishedIsLogged, InTurn(d),
                      NEW e \in Events, NEW k \in Events, e < k, InLog(k)
               PROVE  InLog(e)
    BY OutboxDomain DEF IssueOrderKept, TypeInv
  <2>a. \A j \in Events : outbox[j].published => InLog(j)
    BY OutboxDomain DEF PublishedIsLogged, TypeInv
  <2>1. CASE outbox[k].published
    BY <2>1, <2>a DEF InTurn, TakenInOrder
  <2>2. CASE dispatcher[d].pc = "acking" /\ k = Current(d)
    <3>1. k \in dispatcher[d].batch /\ \A j \in dispatcher[d].batch : k <= j
      BY <2>2, CurrentInBatch, CurrentIsOldest DEF TypeInv
    <3>2. Taken(d, e) /\ e \notin dispatcher[d].batch
      BY <3>1 DEF InTurn, TakenInOrder, Taken, Events
    <3> QED
      BY <3>2, <2>a DEF Taken
  <2> QED
    BY <2>1, <2>2 DEF InTurn, LoggedInTurn
<1> QED
  BY <1>1, <1>2, <1>3, TypeInvAlways, NothingLostInOutbox, PTL DEF Spec

-----------------------------------------------------------------------------
(* What apply refuses stops its partition *)

\* The records of a partition up to the n-th are issue events.
Readable(p, n) == \A i \in 1..n : Accepted(log[p][i])

\* What is projected was read where only issue events came before it.
ReadInTurn ==
  \A e \in inbox : \E p \in Partitions, n \in Nat :
    n \in DOMAIN log[p] /\ log[p][n] = e /\ Readable(p, n)

\* No member works on a message beyond the committed offset, not even one that
\* has lost the partition.
NoneAhead ==
  \A c \in Consumers, p \in Partitions :
    Works(c, p) => consumer[c].offset <= group[p].committed

\* No offset passes an event that apply refuses.
OffsetsStop == \A p \in Partitions : Readable(p, group[p].committed - 1)

LEMMA ReadableStays ==
  ASSUME TypeInv, RowsKept, LogKept,
         NEW p \in Partitions, NEW n \in DOMAIN log[p], Readable(p, n)
  PROVE  n \in DOMAIN log'[p] /\ log'[p][n] = log[p][n] /\ Readable(p, n)'
<1>1. n \in 1..Len(log[p]) /\ Len(log[p]) \in Nat
  BY LogLengths DEF TypeInv
<1>2. DOMAIN log'[p] = 1..Len(log'[p]) /\ Len(log[p]) <= Len(log'[p]) /\ Len(log'[p]) \in Nat
  BY LenProperties DEF LogKept
<1>3. \A i \in 1..n : i \in 1..Len(log[p])
  BY <1>1
<1>4. \A i \in 1..n : log[p][i] \in Events /\ log'[p][i] = log[p][i]
  BY <1>3, LogLengths DEF TypeInv, LogKept
<1>5. \A e \in Events : outbox'[e].kind = outbox[e].kind
  BY DEF RowsKept, SameEvent
<1>6. Readable(p, n)'
  BY <1>4, <1>5 DEF Readable, Accepted
<1> QED
  BY <1>1, <1>2, <1>4, <1>6

\* An offset that has been committed, and with it a message a member works on,
\* has issue events before it only.
LEMMA ReadableBelow ==
  ASSUME TypeInv, CommittedIsProjected, ReadInTurn
  PROVE  OffsetsStop
<1> SUFFICES ASSUME NEW p \in Partitions, NEW i \in 1..(group[p].committed - 1)
             PROVE  Accepted(log[p][i])
  BY DEF OffsetsStop, Readable
<1>1. log[p][i] \in inbox
  BY DEF CommittedIsProjected
<1>2. PICK q \in Partitions, n \in Nat :
        n \in DOMAIN log[q] /\ log[q][n] = log[p][i] /\ Readable(q, n)
  BY <1>1 DEF ReadInTurn
<1>3. n \in 1..n
  BY <1>2, LogLengths DEF TypeInv
<1> QED
  BY <1>2, <1>3 DEF Readable

LEMMA ReadStep ==
  ASSUME TypeInv, CommittedIsProjected, ReadInTurn, NoneAhead, [Next]_vars
  PROVE  ReadInTurn'
<1>a. RowsKept /\ LogKept
  BY RowStep, LogStep DEF TypeInv
<1>1. ASSUME NEW e \in inbox
      PROVE  \E p \in Partitions, n \in Nat :
               n \in DOMAIN log'[p] /\ log'[p][n] = e /\ Readable(p, n)'
  <2>1. PICK p \in Partitions, n \in Nat :
          n \in DOMAIN log[p] /\ log[p][n] = e /\ Readable(p, n)
    BY <1>1 DEF ReadInTurn
  <2> QED
    BY <1>a, <2>1, ReadableStays
<1>2. ASSUME NEW c \in Consumers, Apply(c)
      PROVE  \E p \in Partitions, n \in Nat :
               n \in DOMAIN log'[p] /\ log'[p][n] = Message(c) /\ Readable(p, n)'
  <2> DEFINE p == consumer[c].partition
             n == consumer[c].offset
  <2>1. consumer[c].pc # "idle" /\ Accepted(log[p][n]) /\ Message(c) = log[p][n]
    BY <1>2 DEF Apply, Message
  <2>2. p \in Partitions /\ n \in 1..Len(log[p])
    BY <2>1 DEF TypeInv, MessagesFit
  <2>3. n \in Nat /\ n \in DOMAIN log[p]
    BY <2>2, LogLengths DEF TypeInv
  <2>4. n <= group[p].committed /\ group[p].committed \in Nat
    BY <2>1, <2>2 DEF NoneAhead, Works, TypeInv, Shapes, Memberships
  <2>5. \A i \in 1..n : i = n \/ i \in 1..(group[p].committed - 1)
    BY <2>3, <2>4
  <2>6. Readable(p, group[p].committed - 1)
    BY <2>2, ReadableBelow DEF OffsetsStop
  <2> HIDE DEF p, n
  <2>7. Readable(p, n)
    BY <2>1, <2>5, <2>6 DEF Readable
  <2>8. \A q \in Partitions, k \in Nat :
          q = p /\ k = n =>
            k \in DOMAIN log'[q] /\ log'[q][k] = Message(c) /\ Readable(q, k)'
    BY <1>a, <2>1, <2>2, <2>3, <2>7, ReadableStays
  <2> QED
    BY <2>2, <2>3, <2>8
<1>3. ASSUME NEW e \in inbox'
      PROVE  e \in inbox \/ \E c \in Consumers : Apply(c) /\ e = Message(c)
  <2>1. UNCHANGED inbox \/ \E c \in Consumers : Apply(c)
    BY DEF Next, Emit, Dispatch, LeaseBatch, Publish, PublishFails, Acknowledge, Reject,
       DispatcherCrash, Revoke, Assign, Consume, Poll, ApplyRaises, Commit, ConsumerCrash,
       Tick, vars, projectVars
  <2>2. \A c \in Consumers : Apply(c) => inbox' = inbox \cup {Message(c)}
    BY DEF Apply
  <2> QED
    BY <1>3, <2>1, <2>2
<1> QED
  BY <1>1, <1>2, <1>3 DEF ReadInTurn

LEMMA NoneAheadStep ==
  ASSUME TypeInv, NoneAhead, [Next]_vars
  PROVE  NoneAhead'
<1>a. \A p \in Partitions : group[p].committed \in Nat /\ group'[p].committed \in Nat
                            /\ group'[p].committed >= group[p].committed
  <2>1. TypeInv'
    BY TypeInvNext
  <2>2. \A p \in Partitions : group[p].committed \in Nat /\ group'[p].committed \in Nat
    BY <2>1 DEF TypeInv, Shapes, Memberships
  <2>3. CASE UNCHANGED vars
    BY <2>2, <2>3 DEF vars
  <2>4. CASE ForwardStep
    BY <2>2, <2>4 DEF ForwardStep
  <2> QED
    BY <2>3, <2>4, OffsetsForward
<1>b. \A c \in Consumers : consumer[c].offset \in Nat
  BY DEF TypeInv, Shapes, ConsumerLocals
<1>1. ASSUME \A c \in Consumers :
               \/ consumer'[c].pc = "idle"
               \/ /\ consumer[c].pc # "idle"
                  /\ consumer'[c].partition = consumer[c].partition
                  /\ consumer'[c].offset = consumer[c].offset
      PROVE  NoneAhead'
  BY <1>1, <1>a, <1>b DEF NoneAhead, Works
<1>2. UNCHANGED consumer => NoneAhead'
  BY <1>1
<1>3. ASSUME NEW c \in Consumers, Poll(c) PROVE NoneAhead'
  <2>1. PICK p \in Partitions :
          /\ group[p].assigned = c
          /\ consumer' = [consumer EXCEPT ![c] =
               [pc |-> "received", partition |-> p, offset |-> group[p].position]]
    BY <1>3 DEF Poll
  <2>2. group[p].position = group[p].committed
    BY <1>3, <2>1 DEF Poll, Works, TypeInv, InStep
  <2>3. consumer'[c].partition = p /\ consumer'[c].offset = group[p].committed
    BY <2>1, <2>2 DEF TypeInv, Shapes
  <2>4. \A k \in Consumers \ {c} : consumer'[k] = consumer[k]
    BY <2>1 DEF TypeInv, Shapes
  <2> QED
    BY <1>a, <1>b, <2>3, <2>4 DEF NoneAhead, Works
<1>4. ASSUME NEW c \in Consumers, Apply(c) PROVE NoneAhead'
  <2>1. consumer[c].pc # "idle" /\ consumer' = [consumer EXCEPT ![c].pc = "applied"]
    BY <1>4 DEF Apply
  <2>2. /\ consumer'[c].partition = consumer[c].partition
        /\ consumer'[c].offset = consumer[c].offset
        /\ \A k \in Consumers \ {c} : consumer'[k] = consumer[k]
    BY <2>1 DEF TypeInv, Shapes, ConsumerLocals
  <2> QED
    BY <1>1, <2>1, <2>2
<1>5. ASSUME NEW c \in Consumers, ApplyRaises(c) \/ Commit(c) \/ ConsumerCrash(c)
      PROVE  NoneAhead'
  <2>1. consumer' = [consumer EXCEPT ![c] = IdleConsumer]
    BY <1>5 DEF ApplyRaises, Commit, ConsumerCrash, Leave
  <2> QED
    BY <1>1, <2>1 DEF IdleConsumer, TypeInv, Shapes
<1> QED
  BY <1>2, <1>3, <1>4, <1>5
     DEF Next, Emit, Dispatch, LeaseBatch, Publish, PublishFails, Acknowledge, Reject,
         DispatcherCrash, Revoke, Assign, Consume, Tick, vars, projectVars

\* An event that apply refuses stops its partition for good: no offset is ever
\* committed beyond it, and what was projected was read before it, however
\* often members die, take over or read again.  This is what the run
\* event_poison finds, for every instance and every number of faults.
THEOREM RefusedEventsStopPartitions == Spec => [](OffsetsStop /\ ReadInTurn)
<1>1. Init => ReadInTurn /\ NoneAhead
  BY DEF Init, ReadInTurn, NoneAhead, Works, IdleConsumer
<1>2. TypeInv /\ CommittedIsProjected /\ ReadInTurn /\ NoneAhead /\ [Next]_vars
        => ReadInTurn' /\ NoneAhead'
  BY ReadStep, NoneAheadStep
<1>3. TypeInv /\ CommittedIsProjected /\ ReadInTurn => OffsetsStop
  BY ReadableBelow
<1> QED
  BY <1>1, <1>2, <1>3, TypeInvAlways, NothingLostInLog, PTL DEF Spec
=============================================================================

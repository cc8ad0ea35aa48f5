----------------------------- MODULE EventStream -----------------------------
(***************************************************************************)
(* The event path: rows that the service desk commits to outbox_events,    *)
(* the dispatcher processes that lease and publish them, the Kafka topic,  *)
(* and the consumer processes that keep issue_event_counts.                *)
(*                                                                         *)
(* An event is its position in the outbox: created_at is read inside the   *)
(* writing transaction, so ORDER BY created_at is the commit order.  The   *)
(* envelope's content is its event_id; encode and decode are inverse on    *)
(* what the dispatcher sends.  Leases and retry delays are what is left of *)
(* them, counted down by Tick.                                             *)
(***************************************************************************)
EXTENDS Naturals, Sequences, FiniteSets

CONSTANTS
  Aggregates,    \* issue ids, the keys of the topic
  Kinds,         \* "issue" for an issue.* event, "job" for agent.job.requested
  Dispatchers,   \* owner of each publisher process
  Consumers,     \* members of service-desk-projection-v1
  Partitions,    \* partitions of service-desk.events.v1
  PartitionOf,   \* where Kafka puts a key
  BatchLimit,    \* limit of drain
  LeaseTicks,    \* lease_seconds of pending_outbox, in ticks
  RetryTicks,    \* retry_delay_seconds, in ticks
  MaxEvents,     \* bound: rows that are ever committed
  MaxLog,        \* bound: records in one partition
  MaxFaults,     \* bound: broker errors, crashes and rebalances
  None           \* SQL NULL, or nobody

ASSUME PartitionAssumption == PartitionOf \in [Aggregates -> Partitions]
ASSUME TicksAssumption ==
  /\ BatchLimit \in Nat \ {0}
  /\ LeaseTicks \in Nat \ {0}
  /\ RetryTicks \in Nat \ {0}
ASSUME BoundsAssumption == MaxEvents \in Nat /\ MaxLog \in Nat /\ MaxFaults \in Nat
ASSUME NoneAssumption == None \notin Dispatchers \cup Consumers \cup Partitions

VARIABLES
  outbox,      \* the rows of outbox_events, in commit order
  dispatcher,  \* what drain still has to do, by dispatcher
  log,         \* the records of each partition, as positions in outbox
  group,       \* assignment, position and committed offset of each partition
  consumer,    \* the message consume_one is working on, by consumer
  inbox,       \* event_inbox
  counts,      \* issue_event_counts, summed over event types
  faults       \* faults that happened so far

vars == <<outbox, dispatcher, log, group, consumer, inbox, counts, faults>>

Rows == [aggregate : Aggregates, kind : Kinds, published : BOOLEAN,
         leased_by : Dispatchers \cup {None}, lease : 0..LeaseTicks, delay : 0..RetryTicks]

IdleDispatcher == [pc |-> "idle", batch |-> {}]
IdleConsumer == [pc |-> "idle", partition |-> None, offset |-> 0]

-----------------------------------------------------------------------------
(* Rows.  As in AgentJobs, an operator that a comment calls a mutation is a *)
(* bug the properties are shown to notice.                                  *)

NewRow(a, kind) ==
  [aggregate |-> a, kind |-> kind, published |-> FALSE,
   leased_by |-> None, lease |-> 0, delay |-> 0]

\* Mutation of Pending: a lease is not taken over when it has expired.
PendingUnleased(row) == ~row.published /\ row.delay = 0 /\ row.leased_by = None

\* WHERE of pending_outbox.
Pending(row) == ~row.published /\ row.delay = 0 /\ row.lease = 0

LeasedRow(row, d) == [row EXCEPT !.leased_by = d, !.lease = LeaseTicks]

\* The guard of acknowledge_outbox and reject_outbox: the owner, not the
\* expiry, so a lease that ran out but was not taken still counts.
Leases(row, d) == row.leased_by = d /\ ~row.published

PublishedRow(row) == [row EXCEPT !.published = TRUE, !.leased_by = None, !.lease = 0]

\* Mutation of RejectedRow: a failed event is given up.
RejectedRowDropped(row) == PublishedRow(row)

RejectedRow(row) ==
  [row EXCEPT !.leased_by = None, !.lease = 0, !.delay = RetryTicks]

Countdown(n) == IF n > 0 THEN n - 1 ELSE 0

\* A tick brings the row's lease and retry delay nearer their end.
AgedRow(row) == [row EXCEPT !.lease = Countdown(@), !.delay = Countdown(@)]

\* The pending rows drain leases: the oldest BatchLimit of them.
Batch ==
  LET pending == {e \in DOMAIN outbox : Pending(outbox[e])}
  IN  {e \in pending : Cardinality({k \in pending : k < e}) < BatchLimit}

\* for event in pending_outbox(...): the batch is worked in order.
Current(d) == CHOOSE e \in dispatcher[d].batch : \A k \in dispatcher[d].batch : e <= k

-----------------------------------------------------------------------------
Init ==
  /\ outbox = <<>>
  /\ dispatcher = [d \in Dispatchers |-> IdleDispatcher]
  /\ log = [p \in Partitions |-> <<>>]
  /\ group = [p \in Partitions |-> [assigned |-> None, position |-> 1, committed |-> 1]]
  /\ consumer = [c \in Consumers |-> IdleConsumer]
  /\ inbox = {}
  /\ counts = [a \in Aggregates |-> 0]
  /\ faults = 0

dispatchVars == <<outbox, dispatcher, log>>
projectVars == <<group, consumer, inbox, counts>>

Fault == faults < MaxFaults /\ faults' = faults + 1

\* _outbox, as part of the transaction that changes the issue or queues a job.
Emit(a, kind) ==
  /\ Len(outbox) < MaxEvents
  /\ outbox' = Append(outbox, NewRow(a, kind))
  /\ UNCHANGED <<dispatcher, log, projectVars, faults>>

-----------------------------------------------------------------------------
(* The dispatcher: OutboxDispatcher.drain, called for ever by stream_worker *)

\* pending_outbox, one transaction.
LeaseBatch(d) ==
  /\ dispatcher[d].pc = "idle"
  /\ Batch # {}
  /\ outbox' = [e \in DOMAIN outbox |->
       IF e \in Batch THEN LeasedRow(outbox[e], d) ELSE outbox[e]]
  /\ dispatcher' = [dispatcher EXCEPT ![d] = [pc |-> "publishing", batch |-> Batch]]
  /\ UNCHANGED <<log, projectVars, faults>>

Append1(e) ==
  LET p == PartitionOf[outbox[e].aggregate]
  IN  /\ Len(log[p]) < MaxLog
      /\ log' = [log EXCEPT ![p] = Append(@, e)]

\* publish returns: the broker has acknowledged the record.
Publish(d) ==
  /\ dispatcher[d].pc = "publishing"
  /\ Append1(Current(d))
  /\ dispatcher' = [dispatcher EXCEPT ![d].pc = "acking"]
  /\ UNCHANGED <<outbox, projectVars, faults>>

\* publish raises: the broker refused the record, or took it and the
\* acknowledgement did not arrive in time.
PublishFails(d) ==
  /\ dispatcher[d].pc = "publishing"
  /\ Fault
  /\ Append1(Current(d)) \/ UNCHANGED log
  /\ dispatcher' = [dispatcher EXCEPT ![d].pc = "rejecting"]
  /\ UNCHANGED <<outbox, projectVars>>

\* drain goes on with the rest of its batch, also after a failure.
Advance(d) ==
  dispatcher' = [dispatcher EXCEPT ![d] =
    IF dispatcher[d].batch = {Current(d)}
      THEN IdleDispatcher
      ELSE [pc |-> "publishing", batch |-> dispatcher[d].batch \ {Current(d)}]]

\* acknowledge_outbox; its Conflict is not caught and ends the process.
Acknowledge(d) ==
  /\ dispatcher[d].pc = "acking"
  /\ IF Leases(outbox[Current(d)], d)
       THEN outbox' = [outbox EXCEPT ![Current(d)] = PublishedRow(@)] /\ Advance(d)
       ELSE dispatcher' = [dispatcher EXCEPT ![d] = IdleDispatcher] /\ UNCHANGED outbox
  /\ UNCHANGED <<log, projectVars, faults>>

\* reject_outbox, likewise.
Reject(d) ==
  /\ dispatcher[d].pc = "rejecting"
  /\ IF Leases(outbox[Current(d)], d)
       THEN outbox' = [outbox EXCEPT ![Current(d)] = RejectedRow(@)] /\ Advance(d)
       ELSE dispatcher' = [dispatcher EXCEPT ![d] = IdleDispatcher] /\ UNCHANGED outbox
  /\ UNCHANGED <<log, projectVars, faults>>

\* The process dies and is started again; its leases stay behind.
DispatcherCrash(d) ==
  /\ dispatcher[d].pc # "idle"
  /\ Fault
  /\ dispatcher' = [dispatcher EXCEPT ![d] = IdleDispatcher]
  /\ UNCHANGED <<outbox, log, projectVars>>

-----------------------------------------------------------------------------
(* The consumer: consume_one, called for ever by stream_worker *)

\* A partition that member c reads on from the committed offset.
Joined(member, c) == [member EXCEPT !.assigned = c, !.position = member.committed]

\* Mutation of Assign: partitions are handed over outside poll.
AssignBusy(p, c) ==
  /\ group[p].assigned = None
  /\ group' = [group EXCEPT ![p] = Joined(@, c)]
  /\ UNCHANGED <<dispatchVars, consumer, inbox, counts, faults>>

\* Kafka gives a partition without an owner to a member that is in poll; it
\* reads on from the committed offset (auto.offset.reset = earliest).
Assign(p, c) ==
  /\ group[p].assigned = None
  /\ consumer[c].pc = "idle"
  /\ group' = [group EXCEPT ![p] = Joined(@, c)]
  /\ UNCHANGED <<dispatchVars, consumer, inbox, counts, faults>>

\* Kafka takes a partition away, also from a member that is not in poll.
Revoke(p) ==
  /\ group[p].assigned # None
  /\ Fault
  /\ group' = [group EXCEPT ![p].assigned = None]
  /\ UNCHANGED <<dispatchVars, consumer, inbox, counts>>

\* poll returns the next record of a partition it is assigned.
Poll(c) ==
  /\ consumer[c].pc = "idle"
  /\ \E p \in Partitions :
       /\ group[p].assigned = c
       /\ group[p].position <= Len(log[p])
       /\ consumer' = [consumer EXCEPT ![c] =
            [pc |-> "received", partition |-> p, offset |-> group[p].position]]
       /\ group' = [group EXCEPT ![p].position = @ + 1]
  /\ UNCHANGED <<dispatchVars, inbox, counts, faults>>

Message(c) == log[consumer[c].partition][consumer[c].offset]

\* A consumer that dies leaves the group.
Leave(c) ==
  /\ consumer' = [consumer EXCEPT ![c] = IdleConsumer]
  /\ group' = [p \in Partitions |->
       IF group[p].assigned = c THEN [group[p] EXCEPT !.assigned = None] ELSE group[p]]

\* Mutation of Fresh: the inbox is not consulted.
FreshAlways(e) == TRUE

\* The INSERT into event_inbox does not violate its primary key.
Fresh(e) == e \notin inbox

\* Mutation of Accepted: an event that is not an issue's is counted too.
AcceptedAny(e) == TRUE

\* apply takes issue events only.
Accepted(e) == outbox[e].kind = "issue"

\* apply: inbox and counter in one transaction; a duplicate is not an error.
Apply(c) ==
  /\ consumer[c].pc = "received"
  /\ Accepted(Message(c))
  /\ inbox' = inbox \cup {Message(c)}
  /\ counts' = IF Fresh(Message(c))
                 THEN [counts EXCEPT ![outbox[Message(c)].aggregate] = @ + 1]
                 ELSE counts
  /\ consumer' = [consumer EXCEPT ![c].pc = "applied"]
  /\ UNCHANGED <<dispatchVars, group, faults>>

\* apply raises ValueError, which consume_one and main let through.
ApplyRaises(c) ==
  /\ consumer[c].pc = "received"
  /\ ~Accepted(Message(c))
  /\ Leave(c)
  /\ UNCHANGED <<dispatchVars, inbox, counts, faults>>

\* Mutation of CommitOffset: one record too far.
CommitOffsetPast(offset) == offset + 2

\* commit(message=...) stores the offset of the record after it.
CommitOffset(offset) == offset + 1

\* The synchronous commit.  Kafka refuses it from a member that has lost the
\* partition; the exception ends the process.
Commit(c) ==
  /\ consumer[c].pc = "applied"
  /\ LET p == consumer[c].partition
     IN  IF group[p].assigned = c
           THEN /\ group' = [group EXCEPT ![p].committed = CommitOffset(consumer[c].offset)]
                /\ consumer' = [consumer EXCEPT ![c] = IdleConsumer]
           ELSE Leave(c)
  /\ UNCHANGED <<dispatchVars, inbox, counts, faults>>

ConsumerCrash(c) ==
  /\ consumer[c].pc # "idle"
  /\ Fault
  /\ Leave(c)
  /\ UNCHANGED <<dispatchVars, inbox, counts>>

-----------------------------------------------------------------------------
Tick ==
  /\ \E e \in DOMAIN outbox : outbox[e].lease > 0 \/ outbox[e].delay > 0
  /\ outbox' = [e \in DOMAIN outbox |-> AgedRow(outbox[e])]
  /\ UNCHANGED <<dispatcher, log, projectVars, faults>>

Dispatch(d) == LeaseBatch(d) \/ Publish(d) \/ Acknowledge(d) \/ Reject(d)
Consume(c) == Poll(c) \/ Apply(c) \/ ApplyRaises(c) \/ Commit(c)

Next ==
  \/ \E a \in Aggregates, kind \in Kinds : Emit(a, kind)
  \/ \E d \in Dispatchers : Dispatch(d) \/ PublishFails(d) \/ DispatcherCrash(d)
  \/ \E p \in Partitions : Revoke(p) \/ \E c \in Consumers : Assign(p, c)
  \/ \E c \in Consumers : Consume(c) \/ ConsumerCrash(c)
  \/ Tick

Spec == Init /\ [][Next]_vars

(***************************************************************************)
(* Both loops of stream_worker run for ever and are restarted when they    *)
(* die, time passes, and Kafka reassigns what has no owner.  Faults are    *)
(* finitely many, and have no fairness.                                    *)
(***************************************************************************)
Fairness ==
  /\ WF_vars(Tick)
  /\ \A d \in Dispatchers : WF_vars(Dispatch(d))
  /\ \A p \in Partitions : WF_vars(\E c \in Consumers : Assign(p, c))
  /\ \A c \in Consumers : WF_vars(Consume(c))

FairSpec == Spec /\ Fairness

-----------------------------------------------------------------------------
(* Properties *)

InLog(e) ==
  LET p == PartitionOf[outbox[e].aggregate]
  IN  \E i \in DOMAIN log[p] : log[p][i] = e

\* Every variable keeps its type; a batch and a message in work are never
\* beyond what was committed and logged.
TypeOK ==
  /\ outbox \in Seq(Rows)
  /\ \A d \in Dispatchers :
       /\ dispatcher[d].pc \in {"idle", "publishing", "acking", "rejecting"}
       /\ dispatcher[d].batch \subseteq DOMAIN outbox
       /\ dispatcher[d].pc = "idle" <=> dispatcher[d].batch = {}
  /\ \A p \in Partitions :
       /\ log[p] \in Seq(DOMAIN outbox)
       /\ group[p].assigned \in Consumers \cup {None}
       /\ 1 <= group[p].committed /\ group[p].committed <= group[p].position
       /\ group[p].position <= Len(log[p]) + 1
  /\ \A c \in Consumers :
       consumer[c].pc # "idle" =>
         /\ consumer[c].partition \in Partitions
         /\ consumer[c].offset \in DOMAIN log[consumer[c].partition]
  /\ inbox \subseteq DOMAIN outbox
  /\ counts \in [Aggregates -> Nat]
  /\ faults \in 0..MaxFaults

\* A row is marked published only when the broker holds the event: no crash,
\* lost acknowledgement or lease taken over in between loses it.
PublishedIsLogged ==
  \A e \in DOMAIN outbox : outbox[e].published => InLog(e)

\* A committed offset never passes an event that was not projected: a consumer
\* that takes over a partition skips nothing.
CommittedIsProjected ==
  \A p \in Partitions :
    \A i \in 1..(group[p].committed - 1) : i \in DOMAIN log[p] /\ log[p][i] \in inbox

\* The counter of an issue is the number of its events in the inbox, however
\* often each one was published, redelivered or reprocessed.
CountedOnce ==
  \A a \in Aggregates :
    counts[a] = Cardinality({e \in inbox : outbox[e].aggregate = a})

ForwardStep == \A p \in Partitions : group'[p].committed >= group[p].committed

\* Committed offsets only grow, also when a partition changes hands while a
\* consumer is between its transaction and its commit.
OffsetsGrow == [][ForwardStep]_vars

\* Every committed issue event is eventually projected.
EventuallyProjected ==
  \A e \in 1..MaxEvents :
    e \in DOMAIN outbox /\ outbox[e].kind = "issue" ~> e \in inbox

\* What README.md:59 says keying by issue ID is for: the events of one issue
\* first reach their partition in the order in which they were committed.
IssueOrderKept ==
  \A e, k \in DOMAIN outbox :
    /\ e < k
    /\ outbox[e].aggregate = outbox[k].aggregate
    /\ InLog(k)
    => InLog(e)

Delivery == INSTANCE EventDelivery WITH
  committed <- [e \in DOMAIN outbox |->
                 [aggregate |-> outbox[e].aggregate, kind |-> outbox[e].kind]],
  projected <- inbox,
  counts    <- counts

\* The path implements a projection that adds each committed issue event to its
\* issue's counter at most once: publishing it again, redelivering it, or
\* working it in two members at a time moves no counter (README.md:70).
ImplementsDelivery == Delivery!Spec
=============================================================================

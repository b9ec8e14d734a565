------------------------------ MODULE EventBus ------------------------------
(***************************************************************************)
(* internal/events: the producer of lifecycle events (producer.go), the    *)
(* topic, and the consumer group that writes the audit log (consumer.go).  *)
(*                                                                         *)
(* The broker and the two client libraries are external: a partition is a  *)
(* sequence of records; the client buffers records per partition and       *)
(* delivers them in order or reports their failure; a reader hands out the *)
(* records of the partitions its consumer owns from the committed offset   *)
(* on; a commit is refused when the partition is owned by somebody else.   *)
(***************************************************************************)
EXTENDS Naturals, Sequences, FiniteSets

CONSTANTS
  Events,
  Malformed,       \* events the consumer cannot parse or finds incomplete
  ExperimentOf,    \* the experiment of each event, the key of its record
  Partitions,
  PartitionOf,     \* the partition of each key
  Consumers,       \* EventConsumers of the group
  Nothing,         \* no record in hand
  MaxBuffered,     \* the client's limit of buffered records
  RestartAfterWriteError,  \* Start is called again on a reader that lost a write
  MaxFaults        \* bound: crashes, rebalances, failing writes and commits

ASSUME BusAssumption ==
  /\ Malformed \subseteq Events
  /\ \A e \in Events : PartitionOf[ExperimentOf[e]] \in Partitions
  /\ MaxBuffered \in Nat /\ MaxFaults \in Nat
  /\ RestartAfterWriteError \in BOOLEAN
  /\ Nothing \notin Partitions \X (Nat \ {0})

VARIABLES
  producer,       \* open, flushing (Close has begun), closed
  buffered,       \* the client's buffer of each partition
  reported,       \* events whose delivery callback got an error
  published,      \* history: the events Publish accepted, in order
  log,            \* the partitions
  committed,      \* the group's committed offset: records consumed so far
  owner,          \* the consumer each partition is assigned to
  consumerPc,     \* the loop of EventConsumer.Start
  reader,         \* open, broken (a write was lost), gone
  position,       \* records a reader handed out of each partition
  inHand,         \* the record the loop is working on: partition and offset
  written,        \* the offsets of each partition that were written out
  faults

producerVars == << producer, buffered, reported, published >>
groupVars == << committed, owner >>
consumerVars == << consumerPc, reader, position, inHand, written >>
vars == << producerVars, log, groupVars, consumerVars, faults >>

Fault == faults < MaxFaults /\ faults' = faults + 1

PublishedEvents == { published[i] : i \in 1 .. Len(published) }

Init ==
  /\ producer = "open" /\ reported = {} /\ published = << >>
  /\ buffered = [p \in Partitions |-> << >>]
  /\ log = [p \in Partitions |-> << >>]
  /\ committed = [p \in Partitions |-> 0]
  /\ owner \in [Partitions -> Consumers]
  /\ consumerPc = [c \in Consumers |-> "idle"]
  /\ reader = [c \in Consumers |-> "open"]
  /\ position = [c \in Consumers |-> [p \in Partitions |-> 0]]
  /\ inHand = [c \in Consumers |-> Nothing]
  /\ written = [p \in Partitions |-> {}]
  /\ faults = 0

(***************************************************************************)
(* The producer.                                                           *)
(***************************************************************************)
BufferedIn(p) == { buffered[p][i] : i \in 1 .. Len(buffered[p]) }

Room == Cardinality(UNION { BufferedIn(p) : p \in Partitions }) < MaxBuffered

\* TryProduce buffers the record or calls back with an error at once.
Produce(e, p) ==
  \/ /\ producer # "closed" /\ Room
     /\ buffered' = [buffered EXCEPT ![p] = Append(@, e)]
     /\ UNCHANGED reported
  \/ /\ producer = "closed" \/ ~Room
     /\ reported' = reported \union {e}
     /\ UNCHANGED buffered

\* Mutant of Publish: the record has no key, the client picks a partition.
PublishUnkeyed(e) ==
  /\ e \notin PublishedEvents
  /\ published' = Append(published, e)
  /\ \E p \in Partitions : Produce(e, p)
  /\ UNCHANGED << producer, log, groupVars, consumerVars, faults >>

\* A call whose context is cancelled publishes nothing and is left out.
Publish(e) ==
  /\ e \notin PublishedEvents
  /\ published' = Append(published, e)
  /\ Produce(e, PartitionOf[ExperimentOf[e]])
  /\ UNCHANGED << producer, log, groupVars, consumerVars, faults >>

\* The broker acknowledges the oldest record, or its retries are used up.
Deliver(p) ==
  /\ buffered[p] # << >>
  /\ buffered' = [buffered EXCEPT ![p] = Tail(@)]
  /\ \/ /\ log' = [log EXCEPT ![p] = Append(@, Head(buffered[p]))]
        /\ UNCHANGED << reported, faults >>
     \/ /\ Fault
        /\ reported' = reported \union { Head(buffered[p]) }
        /\ UNCHANGED log
  /\ UNCHANGED << producer, published, groupVars, consumerVars >>

CloseBegin ==
  /\ producer = "open" /\ producer' = "flushing"
  /\ UNCHANGED << buffered, reported, published, log, groupVars, consumerVars, faults >>

\* The flush is complete, or its timeout has passed; the records still
\* buffered fail with the produce context.
CloseEnd ==
  /\ producer = "flushing" /\ producer' = "closed"
  /\ \/ (\A p \in Partitions : buffered[p] = << >>) /\ UNCHANGED faults
     \/ Fault
  /\ reported' = reported \union UNION { BufferedIn(p) : p \in Partitions }
  /\ buffered' = [p \in Partitions |-> << >>]
  /\ UNCHANGED << published, log, groupVars, consumerVars >>

Producer ==
  \/ \E e \in Events : Publish(e)
  \/ \E p \in Partitions : Deliver(p)
  \/ CloseBegin \/ CloseEnd

(***************************************************************************)
(* The consumer.                                                           *)
(***************************************************************************)
ConsumerStep(c, from, to) ==
  /\ consumerPc[c] = from
  /\ consumerPc' = [consumerPc EXCEPT ![c] = to]
  /\ UNCHANGED << producerVars, log, owner >>

\* Mutant of StartConsumer: a new reader begins at the end of the partitions.
StartAtEnd(c) ==
  /\ ConsumerStep(c, "idle", "fetch")
  /\ \/ /\ reader[c] = "open" \/ (reader[c] = "broken" /\ RestartAfterWriteError)
        /\ UNCHANGED << reader, position >>
     \/ /\ reader' = [reader EXCEPT ![c] = "open"]
        /\ position' = [position EXCEPT ![c] = [p \in Partitions |-> Len(log[p])]]
  /\ UNCHANGED << committed, inHand, written, faults >>

\* Start on the reader at hand, or on a new consumer with a new reader; a call
\* that finds the loop running is refused and changes nothing.
StartConsumer(c) ==
  /\ ConsumerStep(c, "idle", "fetch")
  /\ \/ /\ reader[c] = "open" \/ (reader[c] = "broken" /\ RestartAfterWriteError)
        /\ UNCHANGED << reader, position >>
     \/ /\ reader' = [reader EXCEPT ![c] = "open"]
        /\ position' = [position EXCEPT ![c] = committed]
  /\ UNCHANGED << committed, inHand, written, faults >>

\* The loop ends: its context is cancelled or the reader is closed.
Cancel(c) ==
  /\ ConsumerStep(c, "fetch", "idle")
  /\ UNCHANGED << committed, reader, position, inHand, written, faults >>

\* A transient fetch error is retried after a pause and changes nothing.
Fetch(c) ==
  /\ ConsumerStep(c, "fetch", "have")
  /\ \E p \in Partitions :
       /\ owner[p] = c /\ position[c][p] < Len(log[p])
       /\ position' = [position EXCEPT ![c][p] = @ + 1]
       /\ inHand' = [inHand EXCEPT ![c] = << p, position[c][p] + 1 >>]
  /\ UNCHANGED << committed, reader, written, faults >>

Record(c) == log[inHand[c][1]][inHand[c][2]]

\* A malformed record is skipped.
Skip(c) ==
  /\ consumerPc[c] = "have" /\ Record(c) \in Malformed
  /\ ConsumerStep(c, "have", "commit")
  /\ UNCHANGED << committed, reader, position, inHand, written, faults >>

\* Mutant of Write: an error of the output is only logged.
WriteErrorIgnored(c) ==
  /\ consumerPc[c] = "have" /\ Record(c) \notin Malformed
  /\ ConsumerStep(c, "have", "commit")
  /\ \/ /\ written' = [written EXCEPT ![inHand[c][1]] = @ \union { inHand[c][2] }]
        /\ UNCHANGED faults
     \/ Fault /\ UNCHANGED written
  /\ UNCHANGED << committed, reader, position, inHand >>

Write(c) ==
  /\ consumerPc[c] = "have" /\ Record(c) \notin Malformed
  /\ \/ /\ ConsumerStep(c, "have", "commit")
        /\ written' = [written EXCEPT ![inHand[c][1]] = @ \union { inHand[c][2] }]
        /\ UNCHANGED << reader, inHand, faults >>
     \/ /\ Fault /\ ConsumerStep(c, "have", "idle")
        /\ reader' = [reader EXCEPT ![c] = "broken"]
        /\ inHand' = [inHand EXCEPT ![c] = Nothing]
        /\ UNCHANGED written
  /\ UNCHANGED << committed, position >>

\* The commit takes effect and is acknowledged; or it takes effect and fails;
\* or it just fails, as it does when the partition has another owner.  After a
\* failure the loop goes on, or ends if its context was cancelled.
Commit(c) ==
  /\ consumerPc[c] = "commit"
  /\ LET p == inHand[c][1]
         consumed == [committed EXCEPT ![p] = inHand[c][2]]
     IN  \/ /\ owner[p] = c /\ committed' = consumed
            /\ ConsumerStep(c, "commit", "fetch") /\ UNCHANGED faults
         \/ /\ owner[p] = c /\ committed' = consumed
            /\ ConsumerStep(c, "commit", "idle") /\ Fault
         \/ /\ Fault \/ (owner[p] # c /\ UNCHANGED faults)
            /\ \E to \in { "fetch", "idle" } : ConsumerStep(c, "commit", to)
            /\ UNCHANGED committed
  /\ inHand' = [inHand EXCEPT ![c] = Nothing]
  /\ UNCHANGED << reader, position, written >>

(***************************************************************************)
(* Crashes and rebalances.                                                 *)
(***************************************************************************)
Crash(c) ==
  /\ Fault
  /\ \E from \in { "fetch", "have", "commit" } : ConsumerStep(c, from, "idle")
  /\ reader' = [reader EXCEPT ![c] = "gone"]
  /\ inHand' = [inHand EXCEPT ![c] = Nothing]
  /\ UNCHANGED << committed, position, written >>

\* The partition is assigned anew; its reader begins at the committed offset.
Rebalance(p, c) ==
  /\ owner[p] # c /\ Fault
  /\ owner' = [owner EXCEPT ![p] = c]
  /\ position' = [position EXCEPT ![c][p] = committed[p]]
  /\ UNCHANGED << producerVars, log, committed, consumerPc, reader, inHand, written >>

Loop(c) == Fetch(c) \/ Skip(c) \/ Write(c) \/ Commit(c)

Next ==
  \/ Producer
  \/ \E c \in Consumers :
       \/ StartConsumer(c) \/ Cancel(c) \/ Loop(c) \/ Crash(c)
       \/ \E p \in Partitions : Rebalance(p, c)

Spec == Init /\ [][Next]_vars

\* The client delivers what it has buffered and a running loop goes on; nobody
\* need publish an event, close the producer or start a consumer.
Fairness ==
  /\ \A p \in Partitions : WF_vars(Deliver(p))
  /\ \A c \in Consumers : WF_vars(Loop(c))

FairSpec == Spec /\ Fairness

-----------------------------------------------------------------------------
(* Properties.                                                             *)

ProducerType ==
  /\ producer \in { "open", "flushing", "closed" }
  /\ buffered \in [Partitions -> Seq(Events)]
  /\ reported \subseteq Events
  /\ published \in Seq(Events)
  /\ log \in [Partitions -> Seq(Events)]
GroupType ==
  /\ committed \in [Partitions -> Nat]
  /\ owner \in [Partitions -> Consumers]
  /\ faults \in Nat
ConsumerType ==
  /\ consumerPc \in [Consumers -> { "idle", "fetch", "have", "commit" }]
  /\ reader \in [Consumers -> { "open", "broken", "gone" }]
  /\ position \in [Consumers -> [Partitions -> Nat]]
  /\ inHand \in [Consumers -> (Partitions \X (Nat \ {0})) \union {Nothing}]
  /\ \A c \in Consumers : consumerPc[c] \in { "have", "commit" } <=> inHand[c] # Nothing
  /\ written \in [Partitions -> SUBSET Nat]

\* Every variable has its type, and a loop between fetch and commit has a
\* record in hand.
TypeOK == ProducerType /\ GroupType /\ ConsumerType

\* The valid records of partition p up to offset n are in the audit log.
AuditedUpTo(p, n) ==
  \A o \in 1 .. n : log[p][o] \notin Malformed => o \in written[p]

\* "Commit the message only after the audit write succeeds"
\* (internal/events/consumer.go:234): whatever crashes, rebalances and failing
\* commits do, no valid record below the committed offset is missing from the
\* audit log.
CommittedIsAudited ==
  \A p \in Partitions : committed[p] <= Len(log[p]) /\ AuditedUpTo(p, committed[p])

Audited(e) ==
  \E p \in Partitions : \E o \in 1 .. Len(log[p]) : log[p][o] = e /\ o \in written[p]

\* "strict chronological in-order delivery to downstream consumers"
\* (internal/events/producer.go:95): an event is not audited before an earlier
\* valid event of the same experiment, unless that one's failure was reported.
NoOvertaking ==
  \A j \in 1 .. Len(published) : \A i \in 1 .. (j - 1) :
    /\ ExperimentOf[published[i]] = ExperimentOf[published[j]]
    /\ published[i] \notin Malformed \union reported
    /\ Audited(published[j])
    => Audited(published[i])

\* A published event is audited in the end, or its failure is reported, or the
\* consumer that owns its partition does not run.
PublishedIsAudited ==
  \A e \in Events \ Malformed :
    e \in PublishedEvents ~>
      \/ Audited(e) \/ e \in reported
      \/ consumerPc[owner[PartitionOf[ExperimentOf[e]]]] = "idle"
=============================================================================

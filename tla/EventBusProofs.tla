--------------------------- MODULE EventBusProofs ---------------------------
(***************************************************************************)
(* Theorems about EventBus, for any number of events, partitions,          *)
(* consumers and faults.                                                   *)
(***************************************************************************)
EXTENDS EventBus, TLAPS

LEMMA AppendAt ==
  ASSUME NEW S, NEW s \in Seq(S), NEW x \in S
  PROVE  /\ Append(s, x) \in Seq(S) /\ Len(Append(s, x)) = Len(s) + 1
         /\ \A i \in 1 .. Len(s) : Append(s, x)[i] = s[i]
         /\ Append(s, x)[Len(s) + 1] = x
OBVIOUS

LEMMA TailAt ==
  ASSUME NEW S, NEW s \in Seq(S), s # << >>
  PROVE  /\ Head(s) = s[1] /\ Head(s) \in S
         /\ Tail(s) \in Seq(S) /\ Len(Tail(s)) = Len(s) - 1
         /\ \A i \in 1 .. (Len(s) - 1) : Tail(s)[i] = s[i + 1]
OBVIOUS

-----------------------------------------------------------------------------
(* Types.                                                                  *)

LEMMA TypeInit == Init => TypeOK
BY BusAssumption DEF Init, TypeOK, ProducerType, GroupType, ConsumerType

LEMMA FaultIsNat == ASSUME TypeOK, Fault PROVE faults' \in Nat
BY DEF TypeOK, GroupType, Fault

LEMMA ProducerStepTyped == ASSUME TypeOK, Producer PROVE TypeOK'
<1> USE DEF TypeOK, ProducerType
<1>1. ASSUME NEW e \in Events, Publish(e) PROVE TypeOK'
  <2> DEFINE p == PartitionOf[ExperimentOf[e]]
  <2>1. p \in Partitions BY BusAssumption
  <2>2. published' \in Seq(Events) BY <1>1, AppendAt DEF Publish
  <2>3. Append(buffered[p], e) \in Seq(Events) BY <2>1, AppendAt
  <2>4. buffered' \in [Partitions -> Seq(Events)] /\ reported' \subseteq Events
    BY <1>1, <2>1, <2>3 DEF Publish, Produce
  <2> QED
    BY <1>1, <2>2, <2>4 DEF Publish, groupVars, consumerVars, GroupType, ConsumerType
<1>2. ASSUME NEW p \in Partitions, Deliver(p) PROVE TypeOK'
  <2>1. buffered[p] \in Seq(Events) /\ buffered[p] # << >> BY <1>2 DEF Deliver
  <2>2. Head(buffered[p]) \in Events /\ Tail(buffered[p]) \in Seq(Events) BY <2>1, TailAt
  <2>3. Append(log[p], Head(buffered[p])) \in Seq(Events) BY <2>2, AppendAt
  <2>4. ProducerType' BY <1>2, <2>2, <2>3 DEF Deliver
  <2>5. faults' \in Nat BY <1>2, FaultIsNat DEF Deliver, GroupType
  <2> QED BY <1>2, <2>4, <2>5 DEF Deliver, groupVars, consumerVars, GroupType, ConsumerType
<1>3. CASE CloseBegin
  BY <1>3 DEF CloseBegin, groupVars, consumerVars, GroupType, ConsumerType
<1>4. CASE CloseEnd
  <2>1. ASSUME NEW p \in Partitions PROVE BufferedIn(p) \subseteq Events
    <3>1. buffered[p] \in Seq(Events) OBVIOUS
    <3>2. \A i \in 1 .. Len(buffered[p]) : buffered[p][i] \in Events BY <3>1
    <3> QED BY <3>2 DEF BufferedIn
  <2>2. reported' \subseteq Events
    <3>1. UNION { BufferedIn(p) : p \in Partitions } \subseteq Events BY <2>1
    <3> QED BY <1>4, <3>1 DEF CloseEnd
  <2>3. buffered' \in [Partitions -> Seq(Events)] BY <1>4 DEF CloseEnd
  <2>4. faults' \in Nat BY <1>4, FaultIsNat DEF CloseEnd, GroupType
  <2> QED
    BY <1>4, <2>2, <2>3, <2>4 DEF CloseEnd, groupVars, consumerVars, GroupType, ConsumerType
<1> QED BY <1>1, <1>2, <1>3, <1>4 DEF Producer

LEMMA ConsumerStepTyped ==
  ASSUME TypeOK, NEW c \in Consumers,
         StartConsumer(c) \/ Cancel(c) \/ Loop(c) \/ Crash(c)
  PROVE  TypeOK'
<1> USE DEF TypeOK
<1>1. ProducerType' /\ owner' \in [Partitions -> Consumers]
  BY DEF StartConsumer, Cancel, Loop, Fetch, Skip, Write, Commit, Crash, ConsumerStep,
     producerVars, ProducerType, GroupType
<1>2. faults' \in Nat
  <2>1. Fault \/ faults' = faults
    BY DEF StartConsumer, Cancel, Loop, Fetch, Skip, Write, Commit, Crash
  <2> QED BY <2>1, FaultIsNat DEF GroupType
<1>3. CASE StartConsumer(c) \/ Cancel(c)
  <2>1. position' \in [Consumers -> [Partitions -> Nat]]
    BY <1>3 DEF StartConsumer, Cancel, GroupType, ConsumerType
  <2>2. /\ consumerPc' \in [Consumers -> { "idle", "fetch", "have", "commit" }]
        /\ consumerPc[c] \in { "fetch", "idle" } /\ consumerPc'[c] \in { "fetch", "idle" }
        /\ \A d \in Consumers \ {c} : consumerPc'[d] = consumerPc[d]
    BY <1>3 DEF StartConsumer, Cancel, ConsumerStep, ConsumerType
  <2>3. reader' \in [Consumers -> { "open", "broken", "gone" }]
    BY <1>3 DEF StartConsumer, Cancel, ConsumerType
  <2>4. UNCHANGED << committed, inHand, written >> BY <1>3 DEF StartConsumer, Cancel
  <2> QED BY <1>1, <1>2, <2>1, <2>2, <2>3, <2>4 DEF GroupType, ConsumerType
<1>4. CASE Fetch(c)
  <2>1. PICK p \in Partitions :
          /\ position' = [position EXCEPT ![c][p] = @ + 1]
          /\ inHand' = [inHand EXCEPT ![c] = << p, position[c][p] + 1 >>]
    BY <1>4 DEF Fetch
  <2>2. << p, position[c][p] + 1 >> \in Partitions \X (Nat \ {0}) BY DEF ConsumerType
  <2>3. inHand'[c] # Nothing BY <2>1, <2>2, BusAssumption DEF ConsumerType
  <2> QED
    BY <1>1, <1>2, <1>4, <2>1, <2>2, <2>3 DEF Fetch, ConsumerStep, GroupType, ConsumerType
<1>5. CASE Skip(c)
  BY <1>1, <1>2, <1>5 DEF Skip, ConsumerStep, GroupType, ConsumerType
<1>6. CASE Write(c)
  <2>1. inHand[c] \in Partitions \X (Nat \ {0}) BY <1>6 DEF Write, ConsumerType
  <2>2. written' \in [Partitions -> SUBSET Nat] BY <1>6, <2>1 DEF Write, ConsumerType
  <2> QED BY <1>1, <1>2, <1>6, <2>2 DEF Write, ConsumerStep, GroupType, ConsumerType
<1>7. CASE Commit(c)
  <2>1. inHand[c] \in Partitions \X (Nat \ {0}) BY <1>7 DEF Commit, ConsumerType
  <2>2. committed' \in [Partitions -> Nat] BY <1>7, <2>1 DEF Commit, GroupType
  <2>3. /\ consumerPc' \in [Consumers -> { "idle", "fetch", "have", "commit" }]
        /\ consumerPc'[c] \in { "fetch", "idle" }
        /\ \A d \in Consumers \ {c} : consumerPc'[d] = consumerPc[d]
    BY <1>7 DEF Commit, ConsumerStep, ConsumerType
  <2>4. inHand' = [inHand EXCEPT ![c] = Nothing] /\ UNCHANGED << reader, position, written >>
    BY <1>7 DEF Commit
  <2>5. ConsumerType' BY <2>3, <2>4 DEF ConsumerType
  <2> QED BY <1>1, <1>2, <2>2, <2>5 DEF GroupType
<1>8. CASE Crash(c)
  BY <1>1, <1>2, <1>8 DEF Crash, ConsumerStep, GroupType, ConsumerType
<1> QED BY <1>3, <1>4, <1>5, <1>6, <1>7, <1>8 DEF Loop

LEMMA RebalanceTyped ==
  ASSUME TypeOK, NEW p \in Partitions, NEW c \in Consumers, Rebalance(p, c) PROVE TypeOK'
<1> USE DEF TypeOK
<1>1. faults' \in Nat BY FaultIsNat DEF Rebalance
<1> QED BY <1>1 DEF Rebalance, producerVars, ProducerType, GroupType, ConsumerType

\* Every variable has its type.
THEOREM TypeCorrect == Spec => []TypeOK
<1>1. ASSUME TypeOK, [Next]_vars PROVE TypeOK'
  <2>1. CASE Next
    BY <1>1, <2>1, ProducerStepTyped, ConsumerStepTyped, RebalanceTyped DEF Next
  <2>2. CASE UNCHANGED vars
    BY <1>1, <2>2 DEF vars, producerVars, groupVars, consumerVars, TypeOK, ProducerType,
       GroupType, ConsumerType
  <2> QED BY <1>1, <2>1, <2>2
<1> QED BY TypeInit, <1>1, PTL DEF Spec

-----------------------------------------------------------------------------
(* The audit log.                                                          *)

Ready(p, o) == log[p][o] \notin Malformed => o \in written[p]

OffsetInv ==
  \A p \in Partitions :
    /\ committed[p] <= Len(log[p])
    /\ \A c \in Consumers : position[c][p] <= Len(log[p])

\* Everything below a committed offset is audited.
CommitInv == \A p \in Partitions : \A o \in 1 .. committed[p] : Ready(p, o)

\* Everything an intact reader handed out is audited, except the record its
\* loop has not written yet; only an intact reader is read.
ReaderInv ==
  \A c \in Consumers :
    /\ consumerPc[c] # "idle" => reader[c] = "open"
    /\ reader[c] = "open" =>
         \A p \in Partitions : \A o \in 1 .. position[c][p] :
           Ready(p, o) \/ (consumerPc[c] = "have" /\ inHand[c] = << p, o >>)

\* Everything before the record in hand is audited, and the record itself when
\* the loop comes to its commit.
HandOk(c, p, n) ==
  /\ n <= Len(log[p])
  /\ \A o \in 1 .. (n - 1) : Ready(p, o)
  /\ consumerPc[c] = "commit" => Ready(p, n)

HandInv ==
  \A c \in Consumers : inHand[c] # Nothing => HandOk(c, inHand[c][1], inHand[c][2])

\* The audit log has no gaps.
WrittenInv ==
  \A p \in Partitions : \A n \in written[p] :
    n \in 1 .. Len(log[p]) /\ \A o \in 1 .. (n - 1) : Ready(p, o)

AuditInv == OffsetInv /\ CommitInv /\ ReaderInv /\ HandInv /\ WrittenInv

\* The partitions and the audit log only grow.
Grows ==
  \A p \in Partitions :
    /\ Len(log[p]) <= Len(log'[p])
    /\ \A o \in 1 .. Len(log[p]) : log'[p][o] = log[p][o]
    /\ written[p] \subseteq written'[p]

LEMMA AuditInit == Init => AuditInv
BY DEF Init, AuditInv, OffsetInv, CommitInv, ReaderInv, HandInv, WrittenInv

LEMMA LogGrows == ASSUME TypeOK, [Next]_vars PROVE Grows
<1> USE DEF TypeOK, ProducerType, Grows
<1>1. ASSUME NEW p \in Partitions, Deliver(p) PROVE Grows
  <2>1. buffered[p] \in Seq(Events) /\ buffered[p] # << >> BY <1>1 DEF Deliver
  <2>2. Head(buffered[p]) \in Events BY <2>1, TailAt
  <2>3. log'[p] = Append(log[p], Head(buffered[p])) \/ log'[p] = log[p] BY <1>1 DEF Deliver
  <2>4. \A q \in Partitions \ {p} : log'[q] = log[q] BY <1>1 DEF Deliver
  <2>5. /\ Len(log[p]) <= Len(log'[p])
        /\ \A o \in 1 .. Len(log[p]) : log'[p][o] = log[p][o]
    <3>1. log[p] \in Seq(Events) OBVIOUS
    <3> QED BY <2>2, <2>3, <3>1, AppendAt
  <2>6. written' = written BY <1>1 DEF Deliver, consumerVars
  <2>7. ASSUME NEW q \in Partitions
        PROVE  /\ Len(log[q]) <= Len(log'[q])
               /\ \A o \in 1 .. Len(log[q]) : log'[q][o] = log[q][o]
    <3>1. Len(log[q]) \in Nat OBVIOUS
    <3>2. CASE q = p BY <2>5, <3>2
    <3>3. CASE q # p BY <2>4, <3>1, <3>3
    <3> QED BY <3>2, <3>3
  <2> QED BY <2>6, <2>7
<1>2. ASSUME log' = log, \A p \in Partitions : written[p] \subseteq written'[p] PROVE Grows
  <2>1. \A q \in Partitions : Len(log[q]) \in Nat OBVIOUS
  <2> QED BY <1>2, <2>1
<1>3. ASSUME NEW e \in Events, Publish(e) PROVE Grows
  BY <1>2, <1>3 DEF Publish, consumerVars
<1>4. CASE CloseBegin \/ CloseEnd \/ UNCHANGED vars
  BY <1>2, <1>4 DEF CloseBegin, CloseEnd, vars, consumerVars
<1>5. ASSUME NEW c \in Consumers, StartConsumer(c) \/ Cancel(c) \/ Loop(c) \/ Crash(c)
      PROVE  Grows
  <2>1. log' = log
    BY <1>5 DEF StartConsumer, Cancel, Loop, Fetch, Skip, Write, Commit, Crash, ConsumerStep
  <2>2. \/ written' = written
        \/ written' = [written EXCEPT ![inHand[c][1]] = @ \union { inHand[c][2] }]
    BY <1>5 DEF StartConsumer, Cancel, Loop, Fetch, Skip, Write, Commit, Crash
  <2>3. \A p \in Partitions : written[p] \subseteq written'[p]
    <3>1. written \in [Partitions -> SUBSET Nat] BY DEF ConsumerType
    <3>2. CASE written' = written BY <3>2
    <3>3. CASE written' # written
      <4>1. \A p \in Partitions :
              written'[p] = IF p = inHand[c][1] THEN written[p] \union { inHand[c][2] }
                                                ELSE written[p]
        BY <2>2, <3>1, <3>3
      <4> QED BY <4>1
    <3> QED BY <3>2, <3>3
  <2> QED BY <1>2, <2>1, <2>3
<1>6. ASSUME NEW p \in Partitions, NEW c \in Consumers, Rebalance(p, c) PROVE Grows
  BY <1>2, <1>6 DEF Rebalance
<1> QED BY <1>1, <1>3, <1>4, <1>5, <1>6 DEF Next, Producer

LEMMA Lengths ==
  ASSUME TypeOK, TypeOK', Grows
  PROVE  \A p \in Partitions :
           Len(log[p]) \in Nat /\ Len(log'[p]) \in Nat /\ Len(log[p]) <= Len(log'[p])
BY DEF TypeOK, ProducerType, Grows

LEMMA HandIsRecord ==
  ASSUME TypeOK, NEW c \in Consumers, inHand[c] # Nothing
  PROVE  /\ inHand[c] = << inHand[c][1], inHand[c][2] >>
         /\ inHand[c][1] \in Partitions /\ inHand[c][2] \in Nat \ {0}
BY DEF TypeOK, ConsumerType

\* What is ready stays ready.
LEMMA ReadyStays ==
  ASSUME TypeOK, Grows
  PROVE  \A p \in Partitions : \A o \in 1 .. Len(log[p]) : Ready(p, o) => Ready(p, o)'
BY DEF Grows, Ready

\* The parts of the invariant that speak of consumer c only survive what the
\* others do, and those that speak of offsets survive growth.
LEMMA OthersKept ==
  ASSUME TypeOK, TypeOK', AuditInv, Grows, NEW c \in Consumers,
         consumerPc'[c] = consumerPc[c], reader'[c] = reader[c], inHand'[c] = inHand[c]
  PROVE  /\ inHand'[c] # Nothing => HandOk(c, inHand[c][1], inHand[c][2])'
         /\ position'[c] = position[c] =>
              /\ consumerPc'[c] # "idle" => reader'[c] = "open"
              /\ reader'[c] = "open" =>
                   \A p \in Partitions : \A o \in 1 .. position'[c][p] :
                     Ready(p, o)' \/ (consumerPc'[c] = "have" /\ inHand'[c] = << p, o >>)
<1> USE Lengths, ReadyStays DEF AuditInv
<1>1. ASSUME inHand[c] # Nothing PROVE HandOk(c, inHand[c][1], inHand[c][2])'
  <2>1. HandOk(c, inHand[c][1], inHand[c][2]) BY <1>1 DEF HandInv
  <2>2. inHand[c][1] \in Partitions /\ inHand[c][2] \in Nat \ {0} BY <1>1, HandIsRecord
  <2> QED BY <2>1, <2>2 DEF HandOk
<1>2. ASSUME position'[c] = position[c], reader[c] = "open",
             NEW p \in Partitions, NEW o \in 1 .. position[c][p]
      PROVE  Ready(p, o)' \/ (consumerPc[c] = "have" /\ inHand[c] = << p, o >>)
  <2>1. position[c][p] \in Nat BY DEF TypeOK, ConsumerType
  <2>2. o \in 1 .. Len(log[p]) BY <2>1 DEF OffsetInv
  <2> QED BY <1>2, <2>2 DEF ReaderInv
<1> QED BY <1>1, <1>2 DEF ReaderInv

LEMMA GrowthKeepsCommitInv ==
  ASSUME TypeOK, TypeOK', AuditInv, Grows, UNCHANGED committed PROVE CommitInv'
<1>1. \A p \in Partitions : committed[p] \in Nat BY DEF TypeOK, GroupType
<1> QED BY <1>1, Lengths, ReadyStays DEF AuditInv, CommitInv, OffsetInv

LEMMA GrowthKeepsWrittenInv ==
  ASSUME TypeOK, TypeOK', AuditInv, Grows, UNCHANGED written PROVE WrittenInv'
<1> USE DEF AuditInv, WrittenInv
<1> SUFFICES ASSUME NEW p \in Partitions, NEW n \in written[p]
             PROVE  (n \in 1 .. Len(log[p]) /\ \A o \in 1 .. (n - 1) : Ready(p, o))'
  OBVIOUS
<1>1. n \in 1 .. Len(log[p]) /\ \A o \in 1 .. (n - 1) : Ready(p, o) OBVIOUS
<1> QED BY <1>1, Lengths, ReadyStays

LEMMA ProducerKeepsAuditInv ==
  ASSUME TypeOK, TypeOK', AuditInv, Grows, UNCHANGED << groupVars, consumerVars >>
  PROVE  AuditInv'
<1> USE DEF groupVars, consumerVars
<1>1. OffsetInv'
  <2>1. ASSUME NEW p \in Partitions, NEW c \in Consumers
        PROVE  committed[p] \in Nat /\ position[c][p] \in Nat
    BY DEF TypeOK, GroupType, ConsumerType
  <2> QED BY <2>1, Lengths DEF AuditInv, OffsetInv, TypeOK, GroupType
<1>2. ReaderInv' /\ HandInv' BY OthersKept DEF ReaderInv, HandInv
<1> QED BY <1>1, <1>2, GrowthKeepsCommitInv, GrowthKeepsWrittenInv DEF AuditInv

\* A step of consumer c leaves the other consumers and the log alone.
LEMMA ConsumerFrame ==
  ASSUME TypeOK, TypeOK', NEW c \in Consumers,
         StartConsumer(c) \/ Cancel(c) \/ Loop(c) \/ Crash(c)
  PROVE  /\ UNCHANGED log
         /\ \A d \in Consumers \ {c} :
              /\ consumerPc'[d] = consumerPc[d] /\ reader'[d] = reader[d]
              /\ inHand'[d] = inHand[d] /\ position'[d] = position[d]
<1>1. UNCHANGED log
  BY DEF StartConsumer, Cancel, Loop, Fetch, Skip, Write, Commit, Crash, ConsumerStep
<1>2. ASSUME NEW d \in Consumers \ {c} PROVE consumerPc'[d] = consumerPc[d]
  BY DEF StartConsumer, Cancel, Loop, Fetch, Skip, Write, Commit, Crash, ConsumerStep, TypeOK,
     ConsumerType
<1>3. ASSUME NEW d \in Consumers \ {c}
      PROVE  reader'[d] = reader[d] /\ inHand'[d] = inHand[d] /\ position'[d] = position[d]
  BY DEF StartConsumer, Cancel, Loop, Fetch, Skip, Write, Commit, Crash, TypeOK, ConsumerType
<1> QED BY <1>1, <1>2, <1>3

ReaderOk(c) ==
  /\ consumerPc[c] # "idle" => reader[c] = "open"
  /\ reader[c] = "open" =>
       \A p \in Partitions : \A o \in 1 .. position[c][p] :
         Ready(p, o) \/ (consumerPc[c] = "have" /\ inHand[c] = << p, o >>)

\* So a step of c is checked on what it changes: the committed offsets, what
\* was written, and the reader and the record of c itself.
LEMMA ConsumerKeepsAuditInv ==
  ASSUME TypeOK, TypeOK', AuditInv, Grows, NEW c \in Consumers,
         StartConsumer(c) \/ Cancel(c) \/ Loop(c) \/ Crash(c),
         CommitInv', \A p \in Partitions : committed'[p] <= Len(log[p]),
         \A p \in Partitions : position'[c][p] <= Len(log[p]),
         ReaderOk(c)', inHand'[c] # Nothing => HandOk(c, inHand[c][1], inHand[c][2])',
         WrittenInv'
  PROVE  AuditInv'
<1>1. OffsetInv' BY ConsumerFrame DEF AuditInv, OffsetInv
<1>2. ReaderInv'
  <2>1. ASSUME NEW d \in Consumers \ {c} PROVE ReaderOk(d)'
    BY ConsumerFrame, OthersKept DEF ReaderOk
  <2> QED BY <2>1 DEF ReaderInv, ReaderOk
<1>3. HandInv'
  <2>1. ASSUME NEW d \in Consumers \ {c}, inHand'[d] # Nothing
        PROVE  HandOk(d, inHand[d][1], inHand[d][2])'
    BY <2>1, ConsumerFrame, OthersKept
  <2> QED BY <2>1 DEF HandInv
<1> QED BY <1>1, <1>2, <1>3 DEF AuditInv

LEMMA StartKeepsAuditInv ==
  ASSUME RestartAfterWriteError = FALSE, TypeOK, TypeOK', AuditInv, Grows,
         NEW c \in Consumers, StartConsumer(c) \/ Cancel(c) \/ Crash(c)
  PROVE  AuditInv'
<1> USE DEF AuditInv
<1>1. /\ UNCHANGED << committed, written >>
      /\ consumerPc'[c] \in { "fetch", "idle" }
      /\ consumerPc[c] \in { "have", "commit" } => Crash(c)
  BY DEF StartConsumer, Cancel, Crash, ConsumerStep, TypeOK, ConsumerType
<1>2. UNCHANGED log BY ConsumerFrame
<1>3. inHand'[c] = Nothing BY <1>1 DEF TypeOK, ConsumerType
<1>4. \A p \in Partitions : position'[c][p] <= Len(log[p])
  BY DEF StartConsumer, Cancel, Crash, OffsetInv, TypeOK, ConsumerType
<1>5. ReaderOk(c)'
  <2>1. CASE StartConsumer(c)
    <3>1. reader'[c] = "open" /\ consumerPc[c] = "idle"
      BY <2>1 DEF StartConsumer, ConsumerStep, TypeOK, ConsumerType
    <3>2. \/ reader[c] = "open" /\ position'[c] = position[c]
          \/ position'[c] = committed
      BY <2>1 DEF StartConsumer, TypeOK, ConsumerType
    <3>3. \A p \in Partitions : \A o \in 1 .. position'[c][p] : Ready(p, o)
      BY <3>1, <3>2 DEF ReaderInv, CommitInv
    <3> QED BY <1>1, <1>2, <3>1, <3>3 DEF ReaderOk, Ready
  <2>2. CASE Cancel(c)
    <3>1. consumerPc[c] = "fetch" /\ consumerPc'[c] = "idle" /\ UNCHANGED << reader, position >>
      BY <2>2 DEF Cancel, ConsumerStep, TypeOK, ConsumerType
    <3> QED BY <1>1, <1>2, <3>1 DEF ReaderOk, ReaderInv, Ready
  <2>3. CASE Crash(c)
    <3>1. consumerPc'[c] = "idle" /\ reader'[c] = "gone"
      BY <2>3 DEF Crash, ConsumerStep, TypeOK, ConsumerType
    <3> QED BY <3>1 DEF ReaderOk
  <2> QED BY <2>1, <2>2, <2>3
<1> QED
  BY <1>1, <1>2, <1>3, <1>4, <1>5, ConsumerKeepsAuditInv, GrowthKeepsCommitInv,
     GrowthKeepsWrittenInv DEF OffsetInv

LEMMA FetchKeepsAuditInv ==
  ASSUME TypeOK, TypeOK', AuditInv, Grows, NEW c \in Consumers, Fetch(c) PROVE AuditInv'
<1> USE DEF AuditInv
<1>1. UNCHANGED << log, committed, written, reader >> BY ConsumerFrame DEF Fetch, Loop
<1>2. consumerPc[c] = "fetch" /\ consumerPc'[c] = "have"
  BY DEF Fetch, ConsumerStep, TypeOK, ConsumerType
<1>3. PICK p \in Partitions :
        /\ position[c][p] < Len(log[p])
        /\ position' = [position EXCEPT ![c][p] = @ + 1]
        /\ inHand' = [inHand EXCEPT ![c] = << p, position[c][p] + 1 >>]
  BY DEF Fetch
<1>4. /\ position[c][p] \in Nat /\ Len(log[p]) \in Nat
      /\ position'[c][p] = position[c][p] + 1
      /\ \A q \in Partitions \ {p} : position'[c][q] = position[c][q]
      /\ inHand'[c] = << p, position[c][p] + 1 >>
  BY <1>3, Lengths DEF TypeOK, ConsumerType
<1>5. reader[c] = "open" /\ \A q \in Partitions : \A o \in 1 .. position[c][q] : Ready(q, o)
  BY <1>2 DEF ReaderInv
<1>6. \A q \in Partitions : position'[c][q] <= Len(log[q])
  BY <1>3, <1>4 DEF OffsetInv
<1>7. HandOk(c, inHand[c][1], inHand[c][2])'
  BY <1>1, <1>2, <1>3, <1>4, <1>5 DEF HandOk, Ready
<1>8. ReaderOk(c)'
  <2>1. ASSUME NEW q \in Partitions, NEW o \in 1 .. position'[c][q]
        PROVE  Ready(q, o) \/ inHand'[c] = << q, o >>
    <3>1. CASE q # p BY <1>4, <1>5, <3>1
    <3>2. CASE q = p
      <4>1. o \in 1 .. position[c][p] \/ o = position[c][p] + 1 BY <1>4, <3>2
      <4> QED BY <1>4, <1>5, <3>2, <4>1
    <3> QED BY <3>1, <3>2
  <2> QED BY <1>1, <1>2, <1>5, <2>1 DEF ReaderOk, Ready
<1> QED
  BY <1>1, <1>6, <1>7, <1>8, ConsumerKeepsAuditInv, GrowthKeepsCommitInv,
     GrowthKeepsWrittenInv DEF OffsetInv, Loop

\* What a loop with a record in hand knows of it.
LEMMA HandFacts ==
  ASSUME TypeOK, AuditInv, NEW c \in Consumers, consumerPc[c] \in { "have", "commit" }
  PROVE  /\ inHand[c] = << inHand[c][1], inHand[c][2] >>
         /\ inHand[c][1] \in Partitions /\ inHand[c][2] \in Nat \ {0}
         /\ HandOk(c, inHand[c][1], inHand[c][2])
         /\ reader[c] = "open"
<1>1. inHand[c] # Nothing BY DEF TypeOK, ConsumerType
<1> QED BY <1>1, HandIsRecord DEF AuditInv, HandInv, ReaderInv

\* When the record in hand is ready, the loop is fit for its commit.
LEMMA RecordDone ==
  ASSUME TypeOK, TypeOK', AuditInv, Grows, NEW c \in Consumers,
         Skip(c) \/ Write(c), consumerPc'[c] = "commit",
         UNCHANGED << log, committed, reader, position, inHand >>,
         Ready(inHand[c][1], inHand[c][2])', WrittenInv'
  PROVE  AuditInv'
<1> USE DEF AuditInv
<1>1. consumerPc[c] = "have" BY DEF Skip, Write
<1>2. PICK p \in Partitions, n \in Nat \ {0} : inHand[c] = << p, n >> /\ HandOk(c, p, n)
  BY <1>1, HandFacts
<1>3. HandOk(c, p, n)' BY <1>2, Lengths, ReadyStays DEF HandOk
<1>4. ReaderOk(c)'
  <2>1. reader[c] = "open" BY <1>1 DEF ReaderInv
  <2>2. ASSUME NEW q \in Partitions, NEW o \in 1 .. position[c][q] PROVE Ready(q, o)'
    <3>1. Ready(q, o) \/ (q = p /\ o = n) BY <1>2, <2>1 DEF ReaderInv
    <3>2. o \in 1 .. Len(log[q]) BY Lengths DEF OffsetInv, TypeOK, ConsumerType
    <3> QED BY <1>2, <3>1, <3>2, ReadyStays
  <2> QED BY <2>1, <2>2 DEF ReaderOk
<1>5. /\ \A q \in Partitions : committed'[q] <= Len(log[q])
      /\ \A q \in Partitions : position'[c][q] <= Len(log[q])
  BY DEF OffsetInv
<1> QED BY <1>2, <1>3, <1>4, <1>5, ConsumerKeepsAuditInv, GrowthKeepsCommitInv DEF Loop

LEMMA SkipKeepsAuditInv ==
  ASSUME TypeOK, TypeOK', AuditInv, Grows, NEW c \in Consumers, Skip(c) PROVE AuditInv'
<1>1. /\ UNCHANGED << log, committed, reader, position, inHand, written >>
      /\ consumerPc'[c] = "commit"
  BY DEF Skip, ConsumerStep, TypeOK, ConsumerType
<1>2. Ready(inHand[c][1], inHand[c][2])' BY <1>1 DEF Skip, Record, Ready
<1> QED BY <1>1, <1>2, RecordDone, GrowthKeepsWrittenInv

LEMMA WriteKeepsAuditInv ==
  ASSUME TypeOK, TypeOK', AuditInv, Grows, NEW c \in Consumers, Write(c) PROVE AuditInv'
<1> USE DEF AuditInv
<1>1. consumerPc[c] = "have" BY DEF Write
<1>2. PICK p \in Partitions, n \in Nat \ {0} : inHand[c] = << p, n >> /\ HandOk(c, p, n)
  BY <1>1, HandFacts
<1>3. UNCHANGED << log, committed, position >> BY ConsumerFrame DEF Write, Loop
<1>4. CASE consumerPc'[c] = "commit"
  <2>1. /\ UNCHANGED << reader, inHand >>
        /\ written' = [written EXCEPT ![p] = @ \union {n}]
    BY <1>2, <1>4 DEF Write, ConsumerStep, TypeOK, ConsumerType
  <2>2. \A q \in Partitions :
          written'[q] = IF q = p THEN written[q] \union {n} ELSE written[q]
    BY <2>1 DEF TypeOK, ConsumerType
  <2>3. Ready(inHand[c][1], inHand[c][2])' BY <1>2, <2>1, <2>2 DEF Ready
  <2>4. WrittenInv'
    <3> SUFFICES ASSUME NEW q \in Partitions, NEW m \in written'[q]
                 PROVE  m \in 1 .. Len(log[q]) /\ \A o \in 1 .. (m - 1) : Ready(q, o)'
      BY <1>3 DEF WrittenInv
    <3>1. m \in 1 .. Len(log[q]) /\ \A o \in 1 .. (m - 1) : Ready(q, o)
      <4>1. m \in written[q] \/ (q = p /\ m = n) BY <2>2
      <4> QED BY <1>2, <4>1, Lengths DEF WrittenInv, HandOk
    <3> QED BY <3>1, Lengths, ReadyStays
  <2> QED BY <1>3, <1>4, <2>1, <2>3, <2>4, RecordDone
<1>5. CASE consumerPc'[c] # "commit"
  <2>1. /\ consumerPc'[c] = "idle" /\ reader'[c] = "broken" /\ inHand'[c] = Nothing
        /\ UNCHANGED written
    BY <1>5 DEF Write, ConsumerStep, TypeOK, ConsumerType
  <2>2. ReaderOk(c)' BY <2>1 DEF ReaderOk
  <2> QED
    BY <1>3, <2>1, <2>2, ConsumerKeepsAuditInv, GrowthKeepsCommitInv, GrowthKeepsWrittenInv
    DEF OffsetInv, Loop
<1> QED BY <1>4, <1>5

LEMMA CommitKeepsAuditInv ==
  ASSUME TypeOK, TypeOK', AuditInv, Grows, NEW c \in Consumers, Commit(c) PROVE AuditInv'
<1> USE DEF AuditInv
<1>1. consumerPc[c] = "commit" BY DEF Commit
<1>2. PICK p \in Partitions, n \in Nat \ {0} : inHand[c] = << p, n >> /\ HandOk(c, p, n)
  BY <1>1, HandFacts
<1>3. UNCHANGED << log, reader, position, written >> BY ConsumerFrame DEF Commit, Loop
<1>4. inHand'[c] = Nothing BY DEF Commit, TypeOK, ConsumerType
<1>5. committed' = committed \/ committed' = [committed EXCEPT ![p] = n]
  BY <1>2 DEF Commit
<1>6. \A o \in 1 .. n : Ready(p, o)
  <2>1. \A o \in 1 .. n : o \in 1 .. (n - 1) \/ o = n OBVIOUS
  <2> QED BY <1>1, <1>2, <2>1 DEF HandOk
<1>7. \A q \in Partitions : committed'[q] = committed[q] \/ (q = p /\ committed'[q] = n)
  BY <1>5 DEF TypeOK, GroupType
<1>8. \A q \in Partitions : committed'[q] <= Len(log[q])
  BY <1>2, <1>7 DEF OffsetInv, HandOk
<1>9. CommitInv' BY <1>3, <1>6, <1>7 DEF CommitInv, Ready
<1>10. consumerPc'[c] \in { "fetch", "idle" }
  BY DEF Commit, ConsumerStep, TypeOK, ConsumerType
<1>11. ReaderOk(c)' BY <1>1, <1>3, <1>10 DEF ReaderInv, ReaderOk, Ready
<1> QED
  BY <1>3, <1>4, <1>8, <1>9, <1>11, ConsumerKeepsAuditInv, GrowthKeepsWrittenInv
  DEF OffsetInv, Loop

LEMMA RebalanceKeepsAuditInv ==
  ASSUME TypeOK, TypeOK', AuditInv, Grows, NEW p \in Partitions, NEW c \in Consumers,
         Rebalance(p, c)
  PROVE  AuditInv'
<1> USE DEF AuditInv
<1>1. /\ UNCHANGED << log, committed, consumerPc, reader, inHand, written >>
      /\ position' = [position EXCEPT ![c][p] = committed[p]]
  BY DEF Rebalance
<1>2. \A d \in Consumers, q \in Partitions :
        \/ position'[d][q] = position[d][q]
        \/ q = p /\ position'[d][q] = committed[p]
  BY <1>1 DEF TypeOK, ConsumerType
<1>3. OffsetInv' BY <1>1, <1>2 DEF OffsetInv
<1>4. ReaderInv' BY <1>1, <1>2 DEF ReaderInv, CommitInv, Ready
<1>5. HandInv' BY <1>1, OthersKept DEF HandInv
<1> QED BY <1>1, <1>3, <1>4, <1>5, GrowthKeepsCommitInv, GrowthKeepsWrittenInv

LEMMA AuditStep ==
  ASSUME RestartAfterWriteError = FALSE, TypeOK, TypeOK', AuditInv, [Next]_vars
  PROVE  AuditInv'
<1>1. Grows BY LogGrows
<1>2. ASSUME Producer \/ UNCHANGED vars PROVE UNCHANGED << groupVars, consumerVars >>
  BY <1>2 DEF Producer, Publish, Deliver, CloseBegin, CloseEnd, vars
<1>3. CASE Producer \/ UNCHANGED vars BY <1>1, <1>2, <1>3, ProducerKeepsAuditInv
<1> QED
  BY <1>1, <1>3, StartKeepsAuditInv, FetchKeepsAuditInv, SkipKeepsAuditInv,
     WriteKeepsAuditInv, CommitKeepsAuditInv, RebalanceKeepsAuditInv DEF Next, Loop

LEMMA AuditInvariant == ASSUME RestartAfterWriteError = FALSE PROVE Spec => []AuditInv
<1>1. ASSUME TypeOK, TypeOK', AuditInv, [Next]_vars PROVE AuditInv'
  BY <1>1, AuditStep
<1> QED BY TypeCorrect, AuditInit, <1>1, PTL DEF Spec

\* Provided that nobody calls Start again on a reader that lost a write, the
\* valid records below every committed offset are in the audit log, whatever
\* crashes, rebalances and failing commits do.
THEOREM CommitsFollowTheAudit ==
  ASSUME RestartAfterWriteError = FALSE PROVE Spec => []CommittedIsAudited
<1>1. AuditInv => CommittedIsAudited
  BY DEF AuditInv, OffsetInv, CommitInv, Ready, CommittedIsAudited, AuditedUpTo
<1> QED BY AuditInvariant, <1>1, PTL

-----------------------------------------------------------------------------
(* The order of the events of an experiment.                               *)

\* The records of a partition on the broker, and behind them those that the
\* client still buffers, seen as one queue.
Size(p) == Len(log[p]) + Len(buffered[p])
At(p, n) == IF n <= Len(log[p]) THEN log[p][n] ELSE buffered[p][n - Len(log[p])]

Home(e) == PartitionOf[ExperimentOf[e]]

OriginInv ==
  \A p \in Partitions : \A n \in 1 .. Size(p) :
    At(p, n) \in PublishedEvents /\ Home(At(p, n)) = p

\* The published events of partition q that were not reported are in its queue.
SentInv ==
  \A q \in Partitions : \A e \in PublishedEvents \ reported :
    Home(e) = q => \E n \in 1 .. Size(q) : At(q, n) = e

\* Before an event in its queue there is every earlier event of its experiment
\* that was not reported.
OrderInv ==
  \A q \in Partitions : \A j \in 1 .. Len(published) : \A i \in 1 .. (j - 1) :
    /\ Home(published[j]) = q
    /\ ExperimentOf[published[i]] = ExperimentOf[published[j]]
    /\ published[i] \notin reported
    => \A m \in 1 .. Size(q) :
         At(q, m) = published[j] => \E n \in 1 .. (m - 1) : At(q, n) = published[i]

QueueInv == OriginInv /\ SentInv /\ OrderInv

LEMMA QueueInit == Init => QueueInv
BY DEF Init, QueueInv, OriginInv, SentInv, OrderInv, Size, At, PublishedEvents

LEMMA SizeIsNat ==
  ASSUME TypeOK, TypeOK'
  PROVE  \A p \in Partitions :
           /\ Size(p) \in Nat /\ Len(log[p]) \in Nat /\ Len(buffered[p]) \in Nat
           /\ Size(p)' \in Nat /\ Len(log'[p]) \in Nat /\ Len(buffered'[p]) \in Nat
BY DEF TypeOK, ProducerType, Size

LEMMA HomeIsPartition == ASSUME NEW e \in Events PROVE Home(e) \in Partitions
BY BusAssumption DEF Home

LEMMA PublishedAreEvents ==
  ASSUME TypeOK
  PROVE  /\ Len(published) \in Nat
         /\ \A i \in 1 .. Len(published) : published[i] \in Events
         /\ PublishedEvents \subseteq Events
BY DEF TypeOK, ProducerType, PublishedEvents

\* Records leave a queue only to be reported; the others keep their order.
\* Shift[q][n] is where the record now at n was before the step.
Stays(Shift) ==
  \A q \in Partitions : \A n \in 1 .. Size(q)' :
    Shift[q][n] \in 1 .. Size(q) /\ At(q, n)' = At(q, Shift[q][n])
Reports(Shift) ==
  \A q \in Partitions : \A n \in 1 .. Size(q) :
    At(q, n) \in reported' \/ \E k \in 1 .. Size(q)' : Shift[q][k] = n
KeepsOrder(Shift) ==
  \A q \in Partitions : \A k, n \in Nat : Shift[q][k] < Shift[q][n] => k < n

LEMMA LossKeepsQueueInv ==
  ASSUME TypeOK, TypeOK', QueueInv, UNCHANGED published, reported \subseteq reported',
         NEW Shift, Stays(Shift), Reports(Shift), KeepsOrder(Shift)
  PROVE  QueueInv'
<1>1. \A q \in Partitions : Size(q) \in Nat /\ Size(q)' \in Nat BY SizeIsNat
<1>2. PublishedEvents' = PublishedEvents BY DEF PublishedEvents
<1>3. OriginInv'
  <2> SUFFICES ASSUME NEW q \in Partitions, NEW n \in 1 .. Size(q)'
               PROVE  At(q, n)' \in PublishedEvents /\ PartitionOf[ExperimentOf[At(q, n)']] = q
    BY <1>2 DEF OriginInv, Home
  <2>1. Shift[q][n] \in 1 .. Size(q) /\ At(q, n)' = At(q, Shift[q][n]) BY DEF Stays
  <2> QED BY <2>1 DEF QueueInv, OriginInv, Home
<1>4. SentInv'
  <2> SUFFICES ASSUME NEW q \in Partitions, NEW e \in PublishedEvents \ reported', Home(e) = q
               PROVE  \E k \in 1 .. Size(q)' : At(q, k)' = e
    BY <1>2 DEF SentInv, Home
  <2>1. PICK n \in 1 .. Size(q) : At(q, n) = e BY DEF QueueInv, SentInv
  <2>2. PICK k \in 1 .. Size(q)' : Shift[q][k] = n BY <2>1 DEF Reports
  <2> QED BY <2>1, <2>2 DEF Stays
<1>5. OrderInv'
  <2>1. ASSUME NEW q \in Partitions,
               NEW j \in 1 .. Len(published), NEW i \in 1 .. (j - 1),
               Home(published[j]) = q,
               ExperimentOf[published[i]] = ExperimentOf[published[j]],
               published[i] \notin reported',
               NEW m \in 1 .. Size(q)', At(q, m)' = published[j]
        PROVE  \E k \in 1 .. (m - 1) : At(q, k)' = published[i]
    <3> DEFINE s == Shift[q][m]
    <3>1. s \in 1 .. Size(q) /\ At(q, s) = published[j] BY <2>1 DEF Stays
    <3>2. published[i] \notin reported BY <2>1
    <3> HIDE DEF s
    <3>3. PICK n \in 1 .. (s - 1) : At(q, n) = published[i]
      BY <2>1, <3>1, <3>2 DEF QueueInv, OrderInv
    <3>4. s \in Nat /\ n \in 1 .. Size(q) /\ n < s BY <1>1, <3>1
    <3>5. PICK k \in 1 .. Size(q)' : Shift[q][k] = n BY <2>1, <3>2, <3>3, <3>4 DEF Reports
    <3>6. k \in Nat /\ m \in Nat BY <1>1
    <3>7. k < m BY <3>4, <3>5, <3>6 DEF KeepsOrder, s
    <3>8. At(q, k)' = published[i] BY <3>3, <3>5 DEF Stays
    <3>9. k \in 1 .. (m - 1) BY <3>6, <3>7, <1>1
    <3> QED BY <3>8, <3>9
  <2>2. \A f : Home(f)' = Home(f) BY DEF Home
  <2> QED BY <2>1, <2>2 DEF OrderInv, Home
<1> QED BY <1>3, <1>4, <1>5 DEF QueueInv

LEMMA PublishKeepsQueueInv ==
  ASSUME TypeOK, TypeOK', QueueInv, NEW e \in Events, Publish(e) PROVE QueueInv'
<1> SUFFICES ASSUME NEW p \in Partitions, p = Home(e) PROVE QueueInv'
  BY HomeIsPartition
<1> USE DEF QueueInv
<1>0. \A q \in Partitions :
        /\ Size(q) = Len(log[q]) + Len(buffered[q]) /\ Size(q)' = Len(log'[q]) + Len(buffered'[q])
        /\ Len(log[q]) \in Nat /\ Len(buffered[q]) \in Nat
        /\ Size(q) \in Nat /\ Size(q)' \in Nat
  BY SizeIsNat DEF Size
<1>1. \A f : Home(f)' = Home(f) BY DEF Home
<1>2. /\ e \notin PublishedEvents /\ UNCHANGED log
      /\ published' = Append(published, e)
      /\ \/ buffered' = [buffered EXCEPT ![p] = Append(@, e)] /\ UNCHANGED reported
         \/ UNCHANGED buffered /\ reported' = reported \union {e}
  BY DEF Publish, Produce, Home
<1>3. /\ Len(published') = Len(published) + 1
      /\ \A i \in 1 .. Len(published) : published'[i] = published[i]
      /\ published'[Len(published) + 1] = e
  BY <1>2, AppendAt DEF TypeOK, ProducerType
<1>4. PublishedEvents' = PublishedEvents \union {e} BY <1>3 DEF PublishedEvents
<1>5. \/ UNCHANGED buffered /\ e \in reported'
      \/ /\ Len(buffered'[p]) = Len(buffered[p]) + 1
         /\ buffered'[p][Len(buffered[p]) + 1] = e
         /\ \A k \in 1 .. Len(buffered[p]) : buffered'[p][k] = buffered[p][k]
         /\ \A q \in Partitions \ {p} : buffered'[q] = buffered[q]
  <2>1. CASE buffered' = [buffered EXCEPT ![p] = Append(@, e)]
    <3>1. /\ buffered'[p] = Append(buffered[p], e) /\ buffered[p] \in Seq(Events)
          /\ \A q \in Partitions \ {p} : buffered'[q] = buffered[q]
      BY <2>1 DEF TypeOK, ProducerType
    <3> QED BY <3>1, AppendAt
  <2> QED BY <1>2, <2>1
<1>6. ASSUME NEW q \in Partitions, NEW n \in 1 .. Size(q) PROVE At(q, n)' = At(q, n)
  <2>1. CASE n <= Len(log[q]) BY <1>2, <2>1 DEF At
  <2>2. CASE ~(n <= Len(log[q]))
    <3>1. n - Len(log[q]) \in 1 .. Len(buffered[q])
      <4> DEFINE a == Len(log[q])
                 b == Len(buffered[q])
      <4>1. a \in Nat /\ b \in Nat /\ n \in 1 .. (a + b) /\ ~(n <= a) BY <1>0, <1>6, <2>2
      <4> HIDE DEF a, b
      <4>2. n - a \in 1 .. b BY <4>1
      <4> QED BY <4>2 DEF a, b
    <3>2. buffered'[q][n - Len(log[q])] = buffered[q][n - Len(log[q])] BY <1>5, <3>1
    <3> QED BY <1>2, <2>2, <3>2 DEF At
  <2> QED BY <2>1, <2>2
<1>7. \/ (\A q \in Partitions : Size(q)' = Size(q)) /\ e \in reported'
      \/ /\ Size(p)' = Size(p) + 1 /\ \A n \in Nat : n = Size(p) + 1 => At(p, n)' = e
         /\ \A q \in Partitions \ {p} : Size(q)' = Size(q)
  <2>1. CASE UNCHANGED buffered /\ e \in reported' BY <1>0, <1>2, <2>1
  <2>2. CASE Len(buffered'[p]) = Len(buffered[p]) + 1
    <3>1. \A q \in Partitions \ {p} : buffered'[q] = buffered[q] BY <1>5, <2>2
    <3>2. buffered'[p][Len(buffered[p]) + 1] = e BY <1>5, <2>2
    <3>3. Size(p)' = Size(p) + 1
      <4> DEFINE a == Len(log[p])
                 b == Len(buffered[p])
      <4>1. a \in Nat /\ b \in Nat /\ Size(p) = a + b /\ Size(p)' = a + (b + 1)
        BY <1>0, <1>2, <2>2
      <4> HIDE DEF a, b
      <4> QED BY <4>1
    <3>4. ASSUME NEW n \in Nat, n = Size(p) + 1 PROVE At(p, n)' = e
      <4>1. ~(n <= Len(log[p])) /\ n - Len(log[p]) = Len(buffered[p]) + 1
        <5> DEFINE a == Len(log[p])
                   b == Len(buffered[p])
        <5>1. a \in Nat /\ b \in Nat /\ n = a + b + 1 BY <1>0, <3>4
        <5> HIDE DEF a, b
        <5>2. ~(n <= a) /\ n - a = b + 1 BY <5>1
        <5> QED BY <5>2 DEF a, b
      <4> QED BY <1>2, <3>2, <4>1 DEF At
    <3> QED BY <1>0, <1>2, <3>1, <3>3, <3>4
  <2> QED BY <1>5, <2>1, <2>2
<1>8. ASSUME NEW q \in Partitions, NEW n \in 1 .. Size(q)', n \notin 1 .. Size(q)
      PROVE  q = p /\ n = Size(p) + 1 /\ At(q, n)' = e
  <2>1. n \in Nat /\ Size(q) \in Nat /\ Size(q)' \in Nat BY SizeIsNat
  <2>2. Size(q)' = Size(q) + 1 /\ q = p BY <1>7, <1>8, <2>1
  <2>3. n = Size(p) + 1 BY <1>8, <2>1, <2>2
  <2> QED BY <1>7, <2>1, <2>2, <2>3
<1>9. \A q \in Partitions : Size(q) \in Nat /\ Size(q)' \in Nat /\ Size(q) <= Size(q)'
  <2>1. \A q \in Partitions : Size(q) \in Nat /\ Size(q)' \in Nat BY SizeIsNat
  <2> QED BY <1>7, <2>1
<1>10. OriginInv' BY <1>1, <1>4, <1>6, <1>8 DEF OriginInv
<1>11. SentInv'
  <2> SUFFICES ASSUME NEW q \in Partitions, NEW f \in PublishedEvents' \ reported', Home(f) = q
               PROVE  \E n \in 1 .. Size(q)' : At(q, n)' = f
    BY <1>1 DEF SentInv
  <2>1. CASE f = e BY <1>7, <1>9, <2>1
  <2>2. CASE f # e
    <3>1. f \in PublishedEvents \ reported BY <1>2, <1>4, <2>2
    <3>2. PICK n \in 1 .. Size(q) : At(q, n) = f BY <3>1 DEF SentInv
    <3> QED BY <1>6, <1>9, <3>2
  <2> QED BY <2>1, <2>2
<1>12. OrderInv'
  <2> SUFFICES ASSUME NEW q \in Partitions,
                      NEW j \in 1 .. Len(published'), NEW i \in 1 .. (j - 1),
                      Home(published'[j]) = q,
                      ExperimentOf[published'[i]] = ExperimentOf[published'[j]],
                      published'[i] \notin reported',
                      NEW m \in 1 .. Size(q)', At(q, m)' = published'[j]
               PROVE  \E n \in 1 .. (m - 1) : At(q, n)' = published'[i]
    BY <1>1 DEF OrderInv, Home
  <2>1. i \in 1 .. Len(published) /\ published'[i] = published[i] BY <1>3
  <2>2. published[i] \in PublishedEvents \ reported BY <1>2, <2>1 DEF PublishedEvents
  <2>3. Home(published[i]) = q BY <2>1 DEF Home
  <2>4. CASE j = Len(published) + 1
    <3>1. published'[j] = e /\ q = p BY <1>3, <2>4
    <3>2. m = Size(p) + 1
      <4>1. ASSUME m \in 1 .. Size(p) PROVE FALSE
        BY <1>2, <1>6, <3>1, <4>1 DEF OriginInv
      <4> QED BY <1>8, <3>1, <4>1
    <3>3. PICK n \in 1 .. Size(p) : At(p, n) = published[i] BY <2>2, <2>3, <3>1 DEF SentInv
    <3> QED BY <1>6, <1>9, <2>1, <3>1, <3>2, <3>3
  <2>5. CASE j # Len(published) + 1
    <3>1. j \in 1 .. Len(published) /\ published'[j] = published[j] BY <1>3, <2>5
    <3>2. published[j] # e BY <1>2, <3>1 DEF PublishedEvents
    <3>3. m \in 1 .. Size(q) BY <1>8, <3>1, <3>2
    <3>4. PICK n \in 1 .. (m - 1) : At(q, n) = published[i]
      BY <1>6, <2>1, <2>2, <3>1, <3>3 DEF OrderInv
    <3> QED BY <1>6, <1>9, <2>1, <3>3, <3>4
  <2> QED BY <2>4, <2>5
<1> QED BY <1>10, <1>11, <1>12

\* A record in the client's buffer, and where it is in the queue.
LEMMA InBuffer ==
  ASSUME TypeOK, TypeOK', NEW q \in Partitions, NEW n \in 1 .. Size(q), ~(n <= Len(log[q]))
  PROVE  /\ n - Len(log[q]) \in 1 .. Len(buffered[q])
         /\ At(q, n) = buffered[q][n - Len(log[q])]
<1> DEFINE a == Len(log[q])
           b == Len(buffered[q])
<1>1. a \in Nat /\ b \in Nat /\ n \in 1 .. (a + b) BY SizeIsNat DEF Size
<1> HIDE DEF a, b
<1>2. n - a \in 1 .. b BY <1>1 DEF a
<1> QED BY <1>2 DEF a, b, At

Identity == [q \in Partitions |-> [n \in Nat |-> n]]

LEMMA SameQueuesKeep ==
  ASSUME TypeOK, TypeOK', QueueInv, UNCHANGED << published, reported >>,
         \A q \in Partitions : Size(q)' = Size(q) /\ \A n \in 1 .. Size(q) : At(q, n)' = At(q, n)
  PROVE  QueueInv'
<1>1. \A q \in Partitions : Size(q) \in Nat BY SizeIsNat
<1>2. \A q \in Partitions : \A n \in Nat : Identity[q][n] = n BY DEF Identity
<1>3. Stays(Identity) BY <1>1, <1>2 DEF Stays
<1>4. Reports(Identity) BY <1>1, <1>2 DEF Reports
<1>5. KeepsOrder(Identity) BY <1>2 DEF KeepsOrder
<1> QED BY <1>3, <1>4, <1>5, LossKeepsQueueInv

\* The record at the head of a buffer moves to the end of the partition.
LEMMA AckKeepsQueueInv ==
  ASSUME TypeOK, TypeOK', QueueInv, NEW p \in Partitions, buffered[p] # << >>,
         buffered' = [buffered EXCEPT ![p] = Tail(@)],
         log' = [log EXCEPT ![p] = Append(@, Head(buffered[p]))],
         UNCHANGED << published, reported >>
  PROVE  QueueInv'
<1>1. /\ log[p] \in Seq(Events) /\ buffered[p] \in Seq(Events)
      /\ log'[p] = Append(log[p], Head(buffered[p])) /\ buffered'[p] = Tail(buffered[p])
      /\ \A q \in Partitions \ {p} : log'[q] = log[q] /\ buffered'[q] = buffered[q]
  BY DEF TypeOK, ProducerType
<1>2. /\ Head(buffered[p]) = buffered[p][1] /\ Head(buffered[p]) \in Events
      /\ Len(buffered'[p]) = Len(buffered[p]) - 1
      /\ \A k \in 1 .. (Len(buffered[p]) - 1) : buffered'[p][k] = buffered[p][k + 1]
  <2> DEFINE s == buffered[p]
  <2>1. s \in Seq(Events) /\ s # << >> /\ buffered'[p] = Tail(s) BY <1>1
  <2> HIDE DEF s
  <2>2. /\ Head(s) = s[1] /\ Head(s) \in Events /\ Len(Tail(s)) = Len(s) - 1
        /\ \A k \in 1 .. (Len(s) - 1) : Tail(s)[k] = s[k + 1]
    BY <2>1, TailAt
  <2> QED BY <2>1, <2>2 DEF s
<1>3. /\ Len(log'[p]) = Len(log[p]) + 1
      /\ \A k \in 1 .. Len(log[p]) : log'[p][k] = log[p][k]
      /\ log'[p][Len(log[p]) + 1] = buffered[p][1]
  BY <1>1, <1>2, AppendAt
<1>4. ASSUME NEW q \in Partitions PROVE Size(q)' = Size(q)
  <2> DEFINE a == Len(log[p])
             b == Len(buffered[p])
  <2>1. a \in Nat /\ b \in Nat BY SizeIsNat
  <2>2. q # p \/ (Size(q) = a + b /\ Size(q)' = (a + 1) + (b - 1)) BY <1>2, <1>3 DEF Size
  <2>3. q # p => Size(q)' = Size(q) BY <1>1 DEF Size
  <2> HIDE DEF a, b
  <2> QED BY <2>1, <2>2, <2>3
<1>5. ASSUME NEW q \in Partitions, NEW n \in 1 .. Size(q) PROVE At(q, n)' = At(q, n)
  <2>1. CASE q # p BY <1>1, <2>1 DEF At
  <2>2. CASE q = p /\ n <= Len(log[p])
    <3>1. n \in 1 .. Len(log[p]) /\ n <= Len(log'[p]) BY <1>3, <1>5, <2>2, SizeIsNat
    <3> QED BY <1>3, <2>2, <3>1 DEF At
  <2>3. CASE q = p /\ ~(n <= Len(log[p]))
    <3> DEFINE a == Len(log[p])
               b == Len(buffered[p])
    <3>1. n - a \in 1 .. b /\ At(q, n) = buffered[p][n - a] BY <1>5, <2>3, InBuffer
    <3>2. a \in Nat /\ b \in Nat /\ n \in Nat BY <1>5, <2>3, SizeIsNat
    <3>3. At(q, n)' = IF n <= a + 1 THEN log'[p][n] ELSE buffered'[p][n - (a + 1)]
      <4>1. Len(log'[p]) = a + 1 BY <1>3
      <4>2. At(q, n)' = IF n <= Len(log'[p]) THEN log'[p][n]
                                             ELSE buffered'[p][n - Len(log'[p])]
        BY <2>3 DEF At
      <4> HIDE DEF a
      <4> QED BY <4>1, <4>2
    <3>4. /\ log'[p][a + 1] = buffered[p][1]
          /\ \A k \in 1 .. (b - 1) : buffered'[p][k] = buffered[p][k + 1]
      BY <1>2, <1>3
    <3> HIDE DEF a, b
    <3>5. CASE n = a + 1
      <4>1. n - a = 1 /\ n <= a + 1 BY <3>2, <3>5
      <4> QED BY <3>1, <3>3, <3>4, <3>5, <4>1
    <3>6. CASE n # a + 1
      <4>1. ~(n <= a + 1) /\ n - (a + 1) \in 1 .. (b - 1) /\ (n - (a + 1)) + 1 = n - a
        BY <3>1, <3>2, <3>6
      <4> QED BY <3>1, <3>3, <3>4, <4>1
    <3> QED BY <3>5, <3>6
  <2> QED BY <2>1, <2>2, <2>3
<1> QED BY <1>4, <1>5, SameQueuesKeep

\* Every record still buffered fails.
LEMMA CloseKeepsQueueInv ==
  ASSUME TypeOK, TypeOK', QueueInv, CloseEnd PROVE QueueInv'
<1>1. /\ UNCHANGED << log, published >> /\ reported \subseteq reported'
      /\ \A q \in Partitions : buffered'[q] = << >>
      /\ \A q \in Partitions : BufferedIn(q) \subseteq reported'
  BY DEF CloseEnd
<1>2. \A q \in Partitions : \A n \in Nat : Identity[q][n] = n BY DEF Identity
<1>3. ASSUME NEW q \in Partitions
      PROVE  /\ Size(q)' = Len(log[q]) /\ Len(log[q]) \in Nat /\ Size(q) \in Nat
             /\ Len(log[q]) <= Size(q)
  <2> DEFINE a == Len(log[q])
             b == Len(buffered[q])
  <2>1. a \in Nat /\ b \in Nat /\ Size(q) = a + b BY SizeIsNat DEF Size
  <2>2. Len(buffered'[q]) = 0 BY <1>1
  <2>3. Size(q)' = a + 0 BY <1>1, <2>2 DEF Size
  <2> HIDE DEF a, b
  <2>4. Size(q)' = a /\ Size(q) \in Nat /\ a <= Size(q) BY <2>1, <2>3
  <2> QED BY <2>1, <2>4 DEF a
<1>4. Stays(Identity)
  <2> SUFFICES ASSUME NEW q \in Partitions, NEW n \in 1 .. Size(q)'
               PROVE  n \in 1 .. Size(q) /\ At(q, n)' = At(q, n)
    BY <1>2, <1>3 DEF Stays
  <2>1. n \in Nat /\ n <= Len(log[q]) BY <1>3
  <2>2. At(q, n)' = At(q, n) BY <1>1, <2>1 DEF At
  <2> QED BY <1>3, <2>2
<1>5. Reports(Identity)
  <2> SUFFICES ASSUME NEW q \in Partitions, NEW n \in 1 .. Size(q), ~(n <= Len(log[q]))
               PROVE  At(q, n) \in reported'
    BY <1>2, <1>3 DEF Reports
  <2>1. At(q, n) \in BufferedIn(q) BY InBuffer DEF BufferedIn
  <2> QED BY <1>1, <2>1
<1>6. KeepsOrder(Identity) BY <1>2 DEF KeepsOrder
<1> QED BY <1>1, <1>4, <1>5, <1>6, LossKeepsQueueInv

\* The record at the head of a buffer fails.
LEMMA FailKeepsQueueInv ==
  ASSUME TypeOK, TypeOK', QueueInv, NEW p \in Partitions, buffered[p] # << >>,
         buffered' = [buffered EXCEPT ![p] = Tail(@)],
         reported' = reported \union { Head(buffered[p]) },
         UNCHANGED << log, published >>
  PROVE  QueueInv'
<1> DEFINE a == Len(log[p])
           b == Len(buffered[p])
           Shift == [q \in Partitions |->
                       [n \in Nat |-> IF q = p /\ ~(n <= Len(log[p])) THEN n + 1 ELSE n]]
<1>1. /\ a \in Nat /\ b \in Nat
      /\ \A q \in Partitions : Size(q) \in Nat /\ Size(q)' \in Nat
  BY SizeIsNat
<1>2. /\ Head(buffered[p]) = buffered[p][1] /\ Len(buffered'[p]) = b - 1
      /\ \A k \in 1 .. (b - 1) : buffered'[p][k] = buffered[p][k + 1]
  <2> DEFINE s == buffered[p]
  <2>1. s \in Seq(Events) /\ s # << >> /\ buffered'[p] = Tail(s) BY DEF TypeOK, ProducerType
  <2> HIDE DEF s
  <2>2. /\ Head(s) = s[1] /\ Len(Tail(s)) = Len(s) - 1
        /\ \A k \in 1 .. (Len(s) - 1) : Tail(s)[k] = s[k + 1]
    BY <2>1, TailAt
  <2> QED BY <2>1, <2>2 DEF s
<1>3. \A q \in Partitions \ {p} : buffered'[q] = buffered[q] BY DEF TypeOK, ProducerType
<1>4. /\ \A n \in Nat : Shift[p][n] = IF n <= a THEN n ELSE n + 1
      /\ \A q \in Partitions \ {p} : \A n \in Nat : Shift[q][n] = n
  OBVIOUS
<1>5. Size(p) = a + b /\ Size(p)' = a + (b - 1) BY <1>2 DEF Size
<1>6. At(p, a + 1) \in reported'
  <2>1. At(p, a + 1) = buffered[p][(a + 1) - a] BY <1>1 DEF At
  <2> HIDE DEF a
  <2>2. (a + 1) - a = 1 BY <1>1
  <2> QED BY <1>2, <2>1, <2>2
<1>7. ASSUME NEW n \in 1 .. Size(p)'
      PROVE  Shift[p][n] \in 1 .. Size(p) /\ At(p, n)' = At(p, Shift[p][n])
  <2>1. CASE n <= a
    <3>1. At(p, n)' = At(p, n) BY <2>1 DEF At
    <3> HIDE DEF a, b, Shift
    <3> QED BY <1>1, <1>4, <1>5, <1>7, <2>1, <3>1
  <2>2. CASE ~(n <= a)
    <3>1. At(p, n)' = buffered'[p][n - a] BY <2>2 DEF At
    <3>2. ~(n + 1 <= a) => At(p, n + 1) = buffered[p][(n + 1) - a] BY DEF At
    <3> HIDE DEF a, b, Shift
    <3>3. /\ n \in Nat /\ n - a \in 1 .. (b - 1) /\ (n + 1) - a = (n - a) + 1
          /\ ~(n + 1 <= a) /\ n + 1 \in 1 .. Size(p)
      BY <1>1, <1>5, <1>7, <2>2
    <3> QED BY <1>2, <1>4, <2>2, <3>1, <3>2, <3>3
  <2> QED BY <2>1, <2>2
<1>8. ASSUME NEW q \in Partitions \ {p}
      PROVE  Size(q)' = Size(q) /\ \A n \in Nat : At(q, n)' = At(q, n)
  BY <1>3, <1>8 DEF Size, At
<1>9. Stays(Shift)
  <2> HIDE DEF a, b, Shift
  <2>1. ASSUME NEW q \in Partitions, NEW n \in 1 .. Size(q)'
        PROVE  Shift[q][n] \in 1 .. Size(q) /\ At(q, n)' = At(q, Shift[q][n])
    <3>1. CASE q = p BY <1>7, <2>1, <3>1
    <3>2. CASE q # p BY <1>1, <1>4, <1>8, <2>1, <3>2
    <3> QED BY <3>1, <3>2
  <2> QED BY <2>1 DEF Stays
<1>10. Reports(Shift)
  <2> HIDE DEF a, b, Shift
  <2>1. ASSUME NEW q \in Partitions, NEW n \in 1 .. Size(q)
        PROVE  At(q, n) \in reported' \/ \E k \in 1 .. Size(q)' : Shift[q][k] = n
    <3>1. CASE q # p BY <1>1, <1>4, <1>8, <2>1, <3>1
    <3>2. CASE q = p /\ n = a + 1 BY <1>6, <3>2
    <3>3. CASE q = p /\ n # a + 1
      <4>1. CASE n <= a
        <5>1. n \in Nat /\ 1 <= n /\ n <= a + b BY <1>1, <1>5, <2>1, <3>3
        <5>2. 1 <= b
          <6>1. Len(buffered'[p]) \in Nat BY SizeIsNat
          <6>2. b - 1 \in Nat BY <1>2, <6>1
          <6> QED BY <1>1, <6>2
        <5>3. n \in 1 .. Size(p)' BY <1>1, <1>5, <4>1, <5>1, <5>2
        <5> QED BY <1>4, <3>3, <4>1, <5>3
      <4>2. CASE ~(n <= a)
        <5>1. /\ n - 1 \in 1 .. Size(p)' /\ n - 1 \in Nat /\ ~(n - 1 <= a)
              /\ (n - 1) + 1 = n
          BY <1>1, <1>5, <2>1, <3>3, <4>2
        <5> QED BY <1>4, <3>3, <5>1
      <4> QED BY <4>1, <4>2
    <3> QED BY <3>1, <3>2, <3>3
  <2> QED BY <2>1 DEF Reports
<1>11. KeepsOrder(Shift)
  <2> HIDE DEF a, Shift
  <2> SUFFICES ASSUME NEW q \in Partitions, NEW k \in Nat, NEW n \in Nat,
                      Shift[q][k] < Shift[q][n]
               PROVE  k < n
    BY DEF KeepsOrder
  <2>1. CASE q = p
    <3>1. (IF k <= a THEN k ELSE k + 1) < (IF n <= a THEN n ELSE n + 1) BY <1>4, <2>1
    <3> QED BY <1>1, <3>1
  <2>2. CASE q # p BY <1>4, <2>2
  <2> QED BY <2>1, <2>2
<1> HIDE DEF Shift
<1> QED BY <1>9, <1>10, <1>11, LossKeepsQueueInv

LEMMA QueueStep == ASSUME TypeOK, TypeOK', QueueInv, [Next]_vars PROVE QueueInv'
<1>1. ASSUME NEW e \in Events, Publish(e) PROVE QueueInv' BY <1>1, PublishKeepsQueueInv
<1>2. ASSUME NEW p \in Partitions, Deliver(p) PROVE QueueInv'
  BY <1>2, AckKeepsQueueInv, FailKeepsQueueInv DEF Deliver
<1>3. CASE CloseEnd BY <1>3, CloseKeepsQueueInv
<1>4. ASSUME UNCHANGED << published, reported, log, buffered >> PROVE QueueInv'
  BY <1>4, SameQueuesKeep DEF Size, At
<1>5. CASE CloseBegin \/ UNCHANGED vars BY <1>4, <1>5 DEF CloseBegin, vars, producerVars
<1>6. ASSUME NEW c \in Consumers,
             \/ StartConsumer(c) \/ Cancel(c) \/ Loop(c) \/ Crash(c)
             \/ \E p \in Partitions : Rebalance(p, c)
      PROVE  QueueInv'
  BY <1>4, <1>6 DEF StartConsumer, Cancel, Loop, Fetch, Skip, Write, Commit, Crash, Rebalance,
     ConsumerStep, producerVars
<1> QED BY <1>1, <1>2, <1>3, <1>5, <1>6 DEF Next, Producer

\* Under the same condition, an event is not audited before an earlier valid
\* event of its experiment, unless that one's failure was reported.
THEOREM AuditKeepsTheOrder ==
  ASSUME RestartAfterWriteError = FALSE PROVE Spec => []NoOvertaking
<1>1. ASSUME TypeOK, TypeOK', QueueInv, [Next]_vars PROVE QueueInv' BY <1>1, QueueStep
<1>2. ASSUME TypeOK, QueueInv, AuditInv PROVE NoOvertaking
  <2> SUFFICES ASSUME NEW j \in 1 .. Len(published), NEW i \in 1 .. (j - 1),
                      ExperimentOf[published[i]] = ExperimentOf[published[j]],
                      published[i] \notin Malformed \union reported,
                      NEW p \in Partitions, NEW o \in 1 .. Len(log[p]),
                      log[p][o] = published[j], o \in written[p]
               PROVE  \E n \in 1 .. Len(log[p]) : log[p][n] = published[i] /\ n \in written[p]
    BY DEF NoOvertaking, Audited
  <2>1. Len(log[p]) \in Nat /\ Len(buffered[p]) \in Nat
    BY <1>2 DEF TypeOK, ProducerType
  <2>2. o \in 1 .. Size(p) /\ At(p, o) = published[j]
    <3> DEFINE a == Len(log[p])
               b == Len(buffered[p])
    <3>1. Size(p) = a + b /\ a \in Nat /\ b \in Nat /\ o \in 1 .. a BY <2>1 DEF Size
    <3> HIDE DEF a, b
    <3>2. o \in 1 .. Size(p) /\ o <= a BY <3>1
    <3> QED BY <3>2 DEF At, a
  <2>3. Home(published[j]) = p BY <1>2, <2>2 DEF QueueInv, OriginInv
  <2>4. PICK n \in 1 .. (o - 1) : At(p, n) = published[i]
    BY <1>2, <2>2, <2>3 DEF QueueInv, OrderInv
  <2>5. n \in 1 .. Len(log[p]) /\ log[p][n] = published[i] BY <2>1, <2>4 DEF At
  <2>6. Ready(p, n) BY <1>2, <2>4 DEF AuditInv, WrittenInv
  <2> QED BY <2>5, <2>6 DEF Ready
<1> QED BY TypeCorrect, AuditInvariant, QueueInit, <1>1, <1>2, PTL DEF Spec
=============================================================================

-------------------------- MODULE EventBusProofs --------------------------
(* What holds of the event bus for any outbox and callers, any topic, queue  *)
(* and keys, any number of crashes, failovers, retries and relayed records.  *)
EXTENDS EventBus, FiniteSetTheorems, SequenceTheorems, WellFoundedInduction, TLAPS

Sequence(s) == \E S : s \in Seq(S)

-----------------------------------------------------------------------------
(* What the operators on sequences do, for sequences of anything.            *)
LEMMA SequenceShape ==
    ASSUME NEW s, Sequence(s)
    PROVE  Len(s) \in Nat /\ DOMAIN s = 1..Len(s)
BY LenProperties DEF Sequence

LEMMA AppendReads ==
    ASSUME NEW s, Sequence(s), NEW e
    PROVE  /\ Sequence(Append(s, e))
           /\ Len(Append(s, e)) = Len(s) + 1
           /\ \A i \in 1..Len(s) : Append(s, e)[i] = s[i]
           /\ Append(s, e)[Len(s) + 1] = e
<1>1. PICK S : s \in Seq(S)
  BY DEF Sequence
<1>2. s \in Seq(S \cup {e}) /\ e \in S \cup {e}
  BY <1>1, SeqMonotonic
<1> QED
  BY <1>2, AppendProperties DEF Sequence

LEMMA PrefixReads ==
    ASSUME NEW s, Sequence(s), NEW n \in 0..Len(s)
    PROVE  /\ Sequence(SubSeq(s, 1, n))
           /\ Len(SubSeq(s, 1, n)) = n
           /\ \A i \in 1..n : SubSeq(s, 1, n)[i] = s[i]
<1>1. PICK S : s \in Seq(S)
  BY DEF Sequence
<1>2. Len(s) \in Nat /\ n \in Int /\ 1 \in Int
  BY <1>1, LenProperties
<1>3. \A i \in 1..n : s[i] \in S
  BY <1>1, <1>2, ElementOfSeq
<1>4. /\ SubSeq(s, 1, n) \in Seq(S)
      /\ Len(SubSeq(s, 1, n)) = IF 1 <= n THEN n - 1 + 1 ELSE 0
      /\ \A i \in 1..n - 1 + 1 : SubSeq(s, 1, n)[i] = s[1 + i - 1]
  BY <1>2, <1>3, SubSeqProperties
<1> QED
  BY <1>2, <1>4 DEF Sequence

(* Taking out element i moves the later ones up. *)
LEMMA RemoveAtReads ==
    ASSUME NEW s, Sequence(s), NEW i \in 1..Len(s)
    PROVE  /\ Sequence(RemoveAt(s, i))
           /\ Len(RemoveAt(s, i)) = Len(s) - 1
           /\ \A k \in 1..Len(s) - 1 :
                RemoveAt(s, i)[k] = IF k < i THEN s[k] ELSE s[k + 1]
<1>1. PICK S : s \in Seq(S)
  BY DEF Sequence
<1> DEFINE before == SubSeq(s, 1, i - 1)
           after  == SubSeq(s, i + 1, Len(s))
<1>2. Len(s) \in Nat /\ i - 1 \in Int /\ i + 1 \in Int /\ 1 \in Int /\ Len(s) \in Int
  BY <1>1, LenProperties
<1>3. \A k \in 1..Len(s) : s[k] \in S
  BY <1>1, ElementOfSeq
<1>4. /\ before \in Seq(S)
      /\ Len(before) = IF 1 <= i - 1 THEN i - 1 - 1 + 1 ELSE 0
      /\ \A k \in 1..i - 1 - 1 + 1 : before[k] = s[1 + k - 1]
  <2>1. \A k \in 1..i - 1 : s[k] \in S
    BY <1>2, <1>3
  <2> QED
    BY <1>2, <2>1, SubSeqProperties
<1>5. /\ after \in Seq(S)
      /\ Len(after) = IF i + 1 <= Len(s) THEN Len(s) - (i + 1) + 1 ELSE 0
      /\ \A k \in 1..Len(s) - (i + 1) + 1 : after[k] = s[i + 1 + k - 1]
  <2>1. \A k \in i + 1..Len(s) : s[k] \in S
    BY <1>2, <1>3
  <2> QED
    BY <1>2, <2>1, SubSeqProperties
<1> HIDE DEF before, after
<1>6. Len(before) = i - 1 /\ Len(after) = Len(s) - i
  BY <1>2, <1>4, <1>5
<1>7. /\ before \o after \in Seq(S)
      /\ Len(before \o after) = Len(before) + Len(after)
      /\ \A k \in 1..Len(before) + Len(after) :
           (before \o after)[k] = IF k <= Len(before) THEN before[k]
                                  ELSE after[k - Len(before)]
  BY <1>4, <1>5, ConcatProperties
<1>8. RemoveAt(s, i) = before \o after
  BY DEF RemoveAt, before, after
<1>9. ASSUME NEW k \in 1..Len(s) - 1
      PROVE  (before \o after)[k] = IF k < i THEN s[k] ELSE s[k + 1]
  <2>1. k \in 1..Len(before) + Len(after) /\ k \in Int /\ i \in Int /\ 1 <= k
    BY <1>2, <1>6
  <2>2. CASE k < i
    <3>1. k <= Len(before) /\ k \in 1..i - 1 - 1 + 1
      BY <1>6, <2>1, <2>2
    <3>2. before[k] = s[k]
      BY <1>4, <2>1, <3>1
    <3> QED
      BY <1>7, <2>1, <2>2, <3>1, <3>2
  <2>3. CASE ~ k < i
    <3>1. k - (i - 1) \in 1..Len(s) - (i + 1) + 1
      BY <1>2, <2>1, <2>3
    <3>2. after[k - (i - 1)] = s[i + 1 + (k - (i - 1)) - 1]
      BY <1>5, <3>1
    <3>3. i + 1 + (k - (i - 1)) - 1 = k + 1 /\ ~ k <= Len(before)
      BY <1>6, <2>1, <2>3
    <3>4. after[k - (i - 1)] = s[k + 1]
      BY <3>2, <3>3
    <3> QED
      BY <1>6, <1>7, <2>1, <2>3, <3>3, <3>4
  <2> QED
    BY <2>2, <2>3
<1>10. Len(RemoveAt(s, i)) = Len(s) - 1
  <2>1. Len(before \o after) = (i - 1) + (Len(s) - i)
    BY <1>6, <1>7
  <2>2. (i - 1) + (Len(s) - i) = Len(s) - 1
    BY <1>2
  <2> QED
    BY <1>8, <2>1, <2>2
<1>11. Sequence(RemoveAt(s, i))
  BY <1>7, <1>8 DEF Sequence
<1> QED
  BY <1>8, <1>9, <1>10, <1>11

-----------------------------------------------------------------------------
(* The consumer: what its position covers has been passed, was in the hands  *)
(* of the application when a commit was made, or still is.                    *)
ConsumerInv ==
    /\ position \in [Partitions -> Nat] /\ committed \in [Partitions -> Nat]
    /\ Sequence(received)
    /\ \A p \in Partitions : \A o \in 1..position[p] : <<p, o>> \in passed \cup early \cup InHand
    /\ CommittedWerePassed

LEMMA ConsumerInit == ASSUME Init PROVE ConsumerInv
BY EmptySeq DEF Init, ConsumerInv, CommittedWerePassed, Sequence

(* The consumer's own steps are the only ones that change what it keeps. *)
LEMMA ConsumerActions ==
    ASSUME [Next]_vars
    PROVE  \/ UNCHANGED consumer
           \/ \E p \in Partitions : Receive(p)
           \/ Process \/ Commit \/ ConsumerCrash
<1>1. ASSUME NEW c, Publish(c)
      PROVE  UNCHANGED consumer
  BY <1>1 DEF Publish
<1>2. ASSUME NEW c, NEW i, Enqueue(c, i) \/ QueueFull(c, i) \/ QueueTimeout(c, i) \/ NoOpSend(c, i)
      PROVE  UNCHANGED consumer
  BY SMTT(60), <1>2 DEF Enqueue, QueueFull, QueueTimeout, NoOpSend
<1>3. ASSUME PublishDurable \/ MarkDelivered \/ ProducerCrash
      PROVE  UNCHANGED consumer
  BY <1>3 DEF PublishDurable, MarkDelivered, ProducerCrash
<1>4. ASSUME NEW i, Store(i) \/ Report(i) \/ MessageTimeout(i)
      PROVE  UNCHANGED consumer
  BY <1>4 DEF Store, Report, MessageTimeout
<1>5. ASSUME NEW p, Replicate(p) \/ Failover(p) \/ \E o \in DOMAIN log[p] : Relay(p, o)
      PROVE  UNCHANGED consumer
  BY <1>5 DEF Replicate, Failover, Relay
<1>6. ASSUME NEW m, LateArrival(m)
      PROVE  UNCHANGED consumer
  BY <1>6 DEF LateArrival
<1>7. ASSUME Tick \/ Rotate \/ \E i, j \in DOMAIN SigningKeys : InsertKey(SigningKeys[i], SigningKeys[j])
      PROVE  UNCHANGED consumer
  BY <1>7 DEF Tick, Rotate, InsertKey
<1> QED
  BY <1>1, <1>2, <1>3, <1>4, <1>5, <1>6, <1>7 DEF Next, vars

LEMMA HandGrows ==
    ASSUME Sequence(received), NEW r, received' = Append(received, r)
    PROVE  Sequence(received') /\ InHand' = InHand \cup {r.at}
<1>1. /\ Sequence(received') /\ Len(received') = Len(received) + 1
      /\ \A i \in 1..Len(received) : received'[i] = received[i]
      /\ received'[Len(received) + 1] = r
  BY AppendReads
<1>2. /\ DOMAIN received' = 1..Len(received) + 1 /\ DOMAIN received = 1..Len(received)
      /\ Len(received) \in Nat
  BY <1>1, SequenceShape
<1>3. DOMAIN received' = DOMAIN received \cup {Len(received) + 1}
  BY <1>2
<1> QED
  BY <1>1, <1>2, <1>3 DEF InHand

LEMMA HandShrinks ==
    ASSUME Sequence(received), received # <<>>, received' = Tail(received)
    PROVE  Sequence(received') /\ InHand = InHand' \cup {Head(received).at}
<1>1. PICK S : received \in Seq(S)
  BY DEF Sequence
<1>2. /\ received' \in Seq(S) /\ Len(received') = Len(received) - 1
      /\ \A i \in 1..Len(received') : received'[i] = received[i + 1]
      /\ Head(received) = received[1]
  BY <1>1, HeadTailProperties
<1>3. /\ DOMAIN received' = 1..Len(received) - 1 /\ DOMAIN received = 1..Len(received)
      /\ Len(received) \in Nat \ {0} /\ Sequence(received')
  BY <1>1, <1>2, EmptySeq, LenProperties DEF Sequence
<1>4. ASSUME NEW i \in DOMAIN received PROVE received[i].at \in InHand' \cup {Head(received).at}
  <2>1. CASE i = 1
    BY <1>2, <2>1
  <2>2. CASE i # 1
    <3>1. PICK j : j = i - 1
      OBVIOUS
    <3>2. j \in DOMAIN received' /\ i = j + 1
      BY <1>3, <2>2, <3>1
    <3>3. received'[j] = received[i]
      BY <1>2, <1>3, <3>2
    <3> QED
      BY <3>2, <3>3 DEF InHand
  <2> QED
    BY <2>1, <2>2
<1>5. ASSUME NEW j \in DOMAIN received' PROVE received'[j].at \in InHand
  <2>1. j + 1 \in DOMAIN received /\ received'[j] = received[j + 1]
    BY <1>2, <1>3
  <2> QED
    BY <2>1 DEF InHand
<1>6. Head(received).at \in InHand
  BY <1>2, <1>3 DEF InHand
<1>7. InHand \subseteq InHand' \cup {Head(received).at}
  BY <1>4 DEF InHand
<1>8. InHand' \subseteq InHand
  BY <1>5 DEF InHand
<1> QED
  BY <1>3, <1>6, <1>7, <1>8

LEMMA ConsumerStep ==
    ASSUME ConsumerInv, [Next]_vars
    PROVE  ConsumerInv'
<1>1. CASE UNCHANGED <<position, committed, received, passed, early>>
  BY <1>1 DEF ConsumerInv, CommittedWerePassed, InHand
<1>2. ASSUME NEW p \in Partitions, Receive(p)
      PROVE  ConsumerInv'
  <2>1. PICK r : r.at = <<p, position'[p]>> /\ received' = Append(received, r)
    BY <1>2 DEF Receive
  <2>2. position' = [position EXCEPT ![p] = @ + 1]
        /\ committed' = committed /\ passed' = passed /\ early' = early
    BY <1>2 DEF Receive
  <2>3. Sequence(received') /\ InHand' = InHand \cup {<<p, position[p] + 1>>}
    BY <2>1, <2>2, HandGrows DEF ConsumerInv
  <2>4. \A q \in Partitions : \A o \in 1..position'[q] :
          o \in 1..position[q] \/ <<q, o>> = <<p, position[p] + 1>>
    BY <2>2 DEF ConsumerInv
  <2>5. \A q \in Partitions : \A o \in 1..position'[q] :
          <<q, o>> \in passed' \cup early' \cup InHand'
    BY <2>2, <2>3, <2>4 DEF ConsumerInv
  <2>6. position' \in [Partitions -> Nat] /\ committed' \in [Partitions -> Nat]
    BY <2>2 DEF ConsumerInv
  <2>7. CommittedWerePassed'
    BY <2>2 DEF ConsumerInv, CommittedWerePassed
  <2> QED
    BY <2>3, <2>5, <2>6, <2>7 DEF ConsumerInv
<1>3. CASE Process
  <2>1. /\ received # <<>> /\ received' = Tail(received)
        /\ passed' = passed \cup {Head(received).at}
        /\ position' = position /\ committed' = committed /\ early' = early
    BY <1>3 DEF Process
  <2>2. Sequence(received') /\ InHand = InHand' \cup {Head(received).at}
    BY <2>1, HandShrinks DEF ConsumerInv
  <2>3. passed \cup early \cup InHand = passed' \cup early' \cup InHand'
    BY <2>1, <2>2
  <2>4. \A q \in Partitions : \A o \in 1..position'[q] :
          <<q, o>> \in passed' \cup early' \cup InHand'
    BY <2>1, <2>3 DEF ConsumerInv
  <2>5. CommittedWerePassed'
    BY <2>1 DEF ConsumerInv, CommittedWerePassed
  <2> QED
    BY <2>1, <2>2, <2>4, <2>5 DEF ConsumerInv
<1>4. CASE Commit
  <2>1. /\ committed' = position /\ early' = early \cup InHand
        /\ position' = position /\ passed' = passed /\ received' = received
    BY <1>4 DEF Commit
  <2>2. InHand' = InHand
    BY <2>1 DEF InHand
  <2> QED
    BY <2>1, <2>2 DEF ConsumerInv, CommittedWerePassed
<1>5. CASE ConsumerCrash
  <2>1. /\ position' = committed /\ received' = <<>>
        /\ committed' = committed /\ passed' = passed /\ early' = early
    BY <1>5 DEF ConsumerCrash
  <2>2. Sequence(received')
    BY <2>1, EmptySeq DEF Sequence
  <2> QED
    BY <2>1, <2>2 DEF ConsumerInv, CommittedWerePassed
<1>6. \/ UNCHANGED <<position, committed, received, passed, early>>
      \/ \E p \in Partitions : Receive(p)
      \/ Process \/ Commit \/ ConsumerCrash
  BY ConsumerActions DEF consumer
<1> QED
  BY <1>1, <1>2, <1>3, <1>4, <1>5, <1>6

(* Whoever commits, the application or the timer, and whenever: over any     *)
(* number of restarts nothing is skipped but what the application had in its *)
(* hands when a commit was made.                                             *)
THEOREM CommitsArePassed == Spec => []CommittedWerePassed
<1>1. Init => ConsumerInv
  BY ConsumerInit
<1>2. ConsumerInv /\ [Next]_vars => ConsumerInv'
  BY ConsumerStep
<1>3. ConsumerInv => CommittedWerePassed
  BY DEF ConsumerInv
<1> QED
  BY <1>1, <1>2, <1>3, PTL DEF Spec

(* With enable.auto.commit off and commits between two records only, a       *)
(* restart skips nothing that was neither applied nor refused.               *)
THEOREM CarefulCommitsSkipNothing == Spec /\ CommitsBetweenRecords => []NothingIsSkipped
<1> DEFINE Inv == early = {} /\ ConsumerInv
<1>1. Init => Inv
  BY ConsumerInit DEF Init
<1>2. Inv /\ [Next]_vars /\ [committed' # committed => received = <<>>]_vars => Inv'
  <2> SUFFICES ASSUME Inv, [Next]_vars, [committed' # committed => received = <<>>]_vars
               PROVE  early' = {}
    BY ConsumerStep
  <2>1. CASE Commit
    <3>1. committed' # committed /\ early' = early \cup InHand
      BY <2>1 DEF Commit
    <3>2. received = <<>>
      BY <3>1 DEF vars, consumer
    <3>3. InHand = {}
      BY <3>2 DEF InHand
    <3> QED
      BY <3>1, <3>3
  <2>2. early' = early \/ Commit
    BY ConsumerActions DEF consumer, Receive, Process, ConsumerCrash
  <2> QED
    BY <2>1, <2>2
<1>3. Inv => NothingIsSkipped
  BY DEF ConsumerInv, CommittedWerePassed, NothingIsSkipped
<1> QED
  BY <1>1, <1>2, <1>3, PTL DEF Spec, CommitsBetweenRecords

-----------------------------------------------------------------------------
(* What the broker keeps.  Kept is Holds for a partition and an offset of    *)
(* the topic; BrokerStep, that a step takes nothing back of what every       *)
(* replica has.                                                              *)
Kept(p, o, m) == p \in Partitions /\ o \in 1..stable[p] /\ log[p][o] = m

BrokerStep ==
    \A p \in Partitions :
      /\ stable[p] =< stable'[p]
      /\ \A o \in 1..stable[p] : log'[p][o] = log[p][o]

LogInv ==
    /\ DOMAIN log = Partitions /\ DOMAIN stable = Partitions
    /\ \A p \in Partitions : Sequence(log[p]) /\ stable[p] \in 0..Len(log[p])

Idle == UNCHANGED <<settings, sending, broker, attested>>

(* The partition of every message the sender handles is one of the topic. *)
Routed(m) == m.key \in DOMAIN PartitionOf

CallsInv ==
    /\ Connected => settings["acks"] = "all"
    /\ DOMAIN calls = Callers \cup {Worker}
    /\ \A c \in DOMAIN calls : \A i \in DOMAIN calls[c] :
         {"message", "state"} \subseteq DOMAIN calls[c][i] /\ Routed(calls[c][i].message)

(* A queued message that has an offset stands there in what its leader holds. *)
Queued(held, q) ==
    /\ {"caller", "index", "message", "offset"} \subseteq DOMAIN q
    /\ Routed(q.message)
    /\ q.offset \in 0..Len(held[At(q)])
    /\ q.offset # 0 => held[At(q)][q.offset] = q.message

QueueInv ==
    /\ Sequence(queue)
    /\ queue # <<>> => Connected
    /\ \A i \in DOMAIN queue : Queued(log, queue[i])

(* The worker has one send at a time, of the first row that is not           *)
(* delivered, and one message in the queue as long as it is not decided.     *)
Queues(sends, q) == q.caller = Worker =>
    /\ sends # <<>> /\ sends[1].state = "queued"
    /\ q.index = 1 /\ q.message = sends[1].message

WorkerInv ==
    /\ DOMAIN delivered \subseteq DOMAIN Outbox
    /\ calls[Worker] # <<>> =>
         /\ DOMAIN delivered # DOMAIN Outbox
         /\ DOMAIN calls[Worker] = {1}
         /\ \E a \in attested : /\ a.message = calls[Worker][1].message
                                /\ a.as.eventId = Outbox[Row].event
    /\ \A i \in DOMAIN queue : Queues(calls[Worker], queue[i])
    /\ \A i, j \in DOMAIN queue : queue[i].caller = Worker /\ queue[j].caller = Worker => i = j

ReceiptInv ==
    /\ \A c \in DOMAIN calls : \A i \in DOMAIN calls[c] : calls[c][i].state = "ok" =>
         Kept(calls[c][i].receipt.partition, calls[c][i].receipt.offset, calls[c][i].message)
    /\ \A r \in DOMAIN delivered : \E a \in attested :
         /\ a.as.eventId = Outbox[r].event
         /\ Kept(delivered[r].partition, delivered[r].offset, a.message)

SendInv == LogInv /\ CallsInv /\ QueueInv /\ WorkerInv /\ ReceiptInv

LEMMA RoutedToTopic == ASSUME NEW m, Routed(m) PROVE PartitionOf[m.key] \in Partitions
BY SMTT(60) DEF Routed, Partitions

LEMMA AllActions ==
    ASSUME Next
    PROVE  \/ Idle
           \/ \E c \in Callers : Publish(c)
           \/ PublishDurable \/ MarkDelivered
           \/ \E c \in DOMAIN calls : \E i \in 1..3 :
                Enqueue(c, i) \/ QueueFull(c, i) \/ QueueTimeout(c, i) \/ NoOpSend(c, i)
           \/ \E i \in DOMAIN queue : Store(i) \/ Report(i) \/ MessageTimeout(i)
           \/ \E p \in Partitions : Replicate(p) \/ Failover(p)
                                    \/ \E o \in DOMAIN log[p] : Relay(p, o)
           \/ \E m \in wire : LateArrival(m)
           \/ ProducerCrash
BY DEF Next, Idle, Receive, Process, Commit, ConsumerCrash, Tick, Rotate, InsertKey

LEMMA LogAppends ==
    ASSUME LogInv, NEW x, NEW m, log' = [log EXCEPT ![x] = Append(@, m)], stable' = stable
    PROVE  /\ LogInv' /\ BrokerStep
           /\ \A p \in Partitions : /\ Len(log[p]) =< Len(log'[p])
                                    /\ \A o \in 1..Len(log[p]) : log'[p][o] = log[p][o]
           /\ x \in Partitions => /\ Len(log'[x]) = Len(log[x]) + 1
                                  /\ log'[x][Len(log[x]) + 1] = m
<1>1. \A p \in Partitions : log'[p] = IF p = x THEN Append(log[p], m) ELSE log[p]
  BY DEF LogInv
<1>2. DOMAIN log' = Partitions
  BY DEF LogInv
<1>3. ASSUME NEW p \in Partitions
      PROVE  /\ Sequence(log'[p]) /\ Len(log[p]) \in Nat /\ Len(log'[p]) \in Nat
             /\ Len(log[p]) =< Len(log'[p])
             /\ \A o \in 1..Len(log[p]) : log'[p][o] = log[p][o]
             /\ p = x => Len(log'[p]) = Len(log[p]) + 1 /\ log'[p][Len(log[p]) + 1] = m
  <2>1. Sequence(log[p]) /\ Len(log[p]) \in Nat
    BY SequenceShape DEF LogInv
  <2>2. CASE p # x
    BY <1>1, <2>1, <2>2
  <2>3. CASE p = x
    <3>1. log'[p] = Append(log[p], m)
      BY <1>1, <2>3
    <3>2. /\ Sequence(Append(log[p], m)) /\ Len(Append(log[p], m)) = Len(log[p]) + 1
          /\ \A o \in 1..Len(log[p]) : Append(log[p], m)[o] = log[p][o]
          /\ Append(log[p], m)[Len(log[p]) + 1] = m
      BY <2>1, AppendReads
    <3> QED
      BY <2>1, <3>1, <3>2
  <2> QED
    BY <2>2, <2>3
<1>4. LogInv'
  BY <1>2, <1>3 DEF LogInv
<1>5. BrokerStep
  BY <1>3 DEF BrokerStep, LogInv
<1> QED
  BY <1>3, <1>4, <1>5

LEMMA LogKeeps ==
    ASSUME LogInv, UNCHANGED broker
    PROVE  LogInv' /\ BrokerStep
BY DEF LogInv, BrokerStep, broker

LEMMA ReplicateKeeps ==
    ASSUME LogInv, NEW p \in Partitions, Replicate(p)
    PROVE  LogInv' /\ BrokerStep
<1>1. log' = log /\ DOMAIN stable' = DOMAIN stable
      /\ \A q \in Partitions : stable'[q] = IF q = p THEN stable[q] + 1 ELSE stable[q]
  BY DEF Replicate, LogInv
<1>2. \A q \in Partitions : Len(log[q]) \in Nat
  BY SequenceShape DEF LogInv
<1>3. stable[p] < Len(log[p])
  BY DEF Replicate
<1> QED
  BY <1>1, <1>2, <1>3 DEF LogInv, BrokerStep

LEMMA FailoverCuts ==
    ASSUME LogInv, NEW p \in Partitions, Failover(p)
    PROVE  /\ LogInv' /\ BrokerStep /\ stable' = stable
           /\ \A q \in Partitions \ {p} : log'[q] = log[q]
           /\ Len(log'[p]) = stable[p]
           /\ \A o \in 1..stable[p] : log'[p][o] = log[p][o]
<1>1. DOMAIN log' = Partitions /\ stable' = stable
      /\ \A q \in Partitions : log'[q] = IF q = p THEN SubSeq(log[q], 1, stable[q]) ELSE log[q]
  BY DEF Failover, LogInv
<1>2. Sequence(log[p]) /\ stable[p] \in 0..Len(log[p])
  BY DEF LogInv
<1>3. /\ Sequence(log'[p]) /\ Len(log'[p]) = stable[p]
      /\ \A o \in 1..stable[p] : log'[p][o] = log[p][o]
  <2>1. log'[p] = SubSeq(log[p], 1, stable[p])
    BY <1>1
  <2>2. /\ Sequence(SubSeq(log[p], 1, stable[p])) /\ Len(SubSeq(log[p], 1, stable[p])) = stable[p]
        /\ \A o \in 1..stable[p] : SubSeq(log[p], 1, stable[p])[o] = log[p][o]
    BY <1>2, PrefixReads
  <2> QED
    BY <2>1, <2>2
<1>4. \A q \in Partitions : Len(log[q]) \in Nat
  BY SequenceShape DEF LogInv
<1>5. LogInv'
  <2>1. ASSUME NEW q \in Partitions
        PROVE  Sequence(log'[q]) /\ stable'[q] \in 0..Len(log'[q])
    <3>1. CASE q = p
      BY <1>1, <1>2, <1>3, <1>4, <3>1
    <3>2. CASE q # p
      BY <1>1, <3>2 DEF LogInv
    <3> QED
      BY <3>1, <3>2
  <2>2. DOMAIN stable' = Partitions
    BY <1>1 DEF LogInv
  <2> QED
    BY <1>1, <2>1, <2>2 DEF LogInv
<1>6. BrokerStep
  <2>1. ASSUME NEW q \in Partitions
        PROVE  stable[q] =< stable'[q] /\ \A o \in 1..stable[q] : log'[q][o] = log[q][o]
    <3>1. stable[q] \in Nat
      BY <1>4 DEF LogInv
    <3>2. stable'[q] = stable[q]
      BY <1>1
    <3>3. \A o \in 1..stable[q] : log'[q][o] = log[q][o]
      <4>1. CASE q = p
        BY <1>3, <4>1
      <4>2. CASE q # p
        BY <1>1, <4>2
      <4> QED
        BY <4>1, <4>2
    <3> QED
      BY <3>1, <3>2, <3>3
  <2> QED
    BY <2>1 DEF BrokerStep
<1> QED
  BY <1>1, <1>3, <1>5, <1>6

LEMMA LogStep ==
    ASSUME LogInv, [Next]_vars
    PROVE  LogInv' /\ BrokerStep
<1>1. CASE UNCHANGED broker
  BY <1>1, LogKeeps
<1>2. ASSUME NEW i \in DOMAIN queue, Store(i)
      PROVE  LogInv' /\ BrokerStep
  BY <1>2, LogAppends DEF Store
<1>3. ASSUME NEW p \in Partitions, NEW o \in DOMAIN log[p], Relay(p, o)
      PROVE  LogInv' /\ BrokerStep
  <2>1. PICK m \in Rewritten(log[p][o]) :
          log' = [log EXCEPT ![PartitionOf[m.key]] = Append(@, m)]
    BY <1>3 DEF Relay
  <2>2. stable' = stable
    BY <1>3 DEF Relay
  <2> QED
    BY <2>1, <2>2, LogAppends
<1>4. ASSUME NEW m \in wire, LateArrival(m)
      PROVE  LogInv' /\ BrokerStep
  BY <1>4, LogAppends DEF LateArrival
<1>5. \/ UNCHANGED broker
      \/ \E i \in DOMAIN queue : Store(i)
      \/ \E p \in Partitions : Replicate(p) \/ Failover(p)
                               \/ \E o \in DOMAIN log[p] : Relay(p, o)
      \/ \E m \in wire : LateArrival(m)
  BY AllActions DEF vars, Idle, broker, Publish, PublishDurable, MarkDelivered, Enqueue,
     QueueFull, QueueTimeout, NoOpSend, Report, MessageTimeout, ProducerCrash
<1> QED
  BY <1>1, <1>2, <1>3, <1>4, <1>5, ReplicateKeeps, FailoverCuts

LEMMA KeptStays ==
    ASSUME LogInv, LogInv', BrokerStep, NEW p, NEW o, NEW m, Kept(p, o, m)
    PROVE  Kept(p, o, m)'
<1>1. p \in Partitions /\ stable[p] \in Int /\ stable'[p] \in Int /\ stable[p] =< stable'[p]
  <2>1. Len(log[p]) \in Nat /\ Len(log'[p]) \in Nat
    BY SequenceShape DEF LogInv, Kept
  <2> QED
    BY <2>1 DEF LogInv, BrokerStep, Kept
<1> QED
  BY <1>1 DEF Kept, BrokerStep

-----------------------------------------------------------------------------
(* The calls.                                                                *)
LEMMA RowIsFirst ==
    ASSUME DOMAIN delivered \subseteq DOMAIN Outbox, DOMAIN delivered # DOMAIN Outbox
    PROVE  /\ Row \in DOMAIN Outbox \ DOMAIN delivered
           /\ \A j \in DOMAIN Outbox \ DOMAIN delivered : Row <= j
<1> DEFINE Left == DOMAIN Outbox \ DOMAIN delivered
<1>1. Left \subseteq Nat /\ Left # {}
  BY TopicAssumption
<1>2. PICK n \in Left : \A m \in Left : <<m, n>> \notin OpToRel(<, Nat)
  <2> HIDE DEF Left
  <2> QED
    BY <1>1, WFMin, NatLessThanWellFounded, Zenon
<1>3. \A m \in Left : ~ m < n
  <2> SUFFICES ASSUME NEW m \in Left, m < n PROVE FALSE
    OBVIOUS
  <2>1. <<m, n>> \in Nat \X Nat
    BY <1>1
  <2> QED
    BY <2>1, <1>2, Zenon DEF OpToRel
<1>4. \A m \in Left : n <= m
  BY <1>1, <1>3
<1>5. Row = CHOOSE i \in Left : \A j \in Left : i <= j
  BY DEF Row
<1> HIDE DEF Left
<1>6. Row \in Left /\ \A j \in Left : Row <= j
  BY <1>4, <1>5
<1> QED
  BY <1>6 DEF Left

LEMMA RowStays == ASSUME delivered' = delivered PROVE Row' = Row
BY DEF Row

LEMMA SendsReads ==
    ASSUME NEW c \in Callers
    PROVE  /\ DOMAIN Sends(Batch[c]) = DOMAIN Batch[c]
           /\ \A i \in DOMAIN Sends(Batch[c]) :
                LET send == Sends(Batch[c])[i]
                IN  /\ {"message", "state"} \subseteq DOMAIN send
                    /\ Routed(send.message) /\ send.state # "ok"
<1>1. \A i \in DOMAIN Batch[c] : Batch[c][i].key \in DOMAIN PartitionOf
  BY TopicAssumption
<1>2. ASSUME NEW i \in DOMAIN Batch[c]
      PROVE  LET send == Sends(Batch[c])[i]
             IN  /\ {"message", "state"} \subseteq DOMAIN send
                 /\ Routed(send.message) /\ send.state # "ok"
  <2> DEFINE m == Message(Batch[c][i].key, Batch[c][i].event, <<>>)
  <2>1. m.key = Batch[c][i].key
    BY DEF Message
  <2>2. Sends(Batch[c])[i] = [Unpolled(m) EXCEPT
           !.state = IF Connected /\ Batch[c][i].tenant = NULL THEN "failed" ELSE @]
    BY <1>2 DEF Sends
  <2> HIDE DEF m
  <2>3. /\ DOMAIN Sends(Batch[c])[i] = {"message", "state"}
        /\ Sends(Batch[c])[i].message = m
        /\ Sends(Batch[c])[i].state \in {"failed", "unpolled"}
    BY <2>2 DEF Unpolled
  <2> QED
    BY <1>1, <2>1, <2>3 DEF Routed
<1>3. DOMAIN Sends(Batch[c]) = DOMAIN Batch[c]
  BY DEF Sends
<1> QED
  BY <1>2, <1>3

(* One send changes its state, the others stay. *)
LEMMA SetStateReads ==
    ASSUME CallsInv, NEW c, NEW i, NEW s, SetState(c, i, s)
    PROVE  /\ DOMAIN calls' = DOMAIN calls
           /\ \A d \in DOMAIN calls : DOMAIN calls'[d] = DOMAIN calls[d]
           /\ \A d \in DOMAIN calls : \A j \in DOMAIN calls[d] :
                /\ {"message", "state"} \subseteq DOMAIN calls'[d][j]
                /\ calls'[d][j].message = calls[d][j].message
                /\ d = c /\ j = i => calls'[d][j].state = s
                /\ ~(d = c /\ j = i) => calls'[d][j] = calls[d][j]
<1>1. DOMAIN calls' = DOMAIN calls
  BY DEF SetState
<1>2. ASSUME NEW d \in DOMAIN calls
      PROVE  /\ DOMAIN calls'[d] = DOMAIN calls[d]
             /\ \A j \in DOMAIN calls[d] :
                  calls'[d][j] = IF d = c /\ j = i THEN [calls[d][j] EXCEPT !.state = s]
                                 ELSE calls[d][j]
  BY DEF SetState
<1>3. ASSUME NEW d \in DOMAIN calls, NEW j \in DOMAIN calls[d]
      PROVE  /\ {"message", "state"} \subseteq DOMAIN calls'[d][j]
             /\ calls'[d][j].message = calls[d][j].message
             /\ d = c /\ j = i => calls'[d][j].state = s
             /\ ~(d = c /\ j = i) => calls'[d][j] = calls[d][j]
  <2>1. {"message", "state"} \subseteq DOMAIN calls[d][j]
    BY DEF CallsInv
  <2> QED
    BY <1>2, <2>1
<1> QED
  BY <1>1, <1>2, <1>3

(* The result of the send of a queued message. *)
Receipt(q) ==
    [message |-> q.message, state |-> "ok",
     receipt |-> [partition |-> At(q), offset |-> q.offset]]

LEMMA ReportReads ==
    ASSUME NEW i, Report(i)
    PROVE  /\ DOMAIN calls' = DOMAIN calls
           /\ \A d \in DOMAIN calls : DOMAIN calls'[d] = DOMAIN calls[d]
           /\ \A d \in DOMAIN calls : \A j \in DOMAIN calls[d] :
                /\ d = queue[i].caller /\ j = queue[i].index => calls'[d][j] = Receipt(queue[i])
                /\ ~(d = queue[i].caller /\ j = queue[i].index) => calls'[d][j] = calls[d][j]
BY DEF Report, Receipt

LEMMA PublishDurableReads ==
    ASSUME CallsInv, WorkerInv, PublishDurable
    PROVE  /\ DOMAIN calls' = DOMAIN calls
           /\ \A d \in DOMAIN calls \ {Worker} : calls'[d] = calls[d]
           /\ DOMAIN calls'[Worker] = {1}
           /\ DOMAIN calls'[Worker][1] = {"message", "state"}
           /\ Routed(calls'[Worker][1].message) /\ calls'[Worker][1].state = "unpolled"
           /\ attested \subseteq attested'
           /\ \E a \in attested' : /\ a.message = calls'[Worker][1].message
                                   /\ a.as.eventId = Outbox[Row].event
<1>1. PICK headers : LET m == Message(Outbox[Row].key, Outbox[Row].event, headers)
          IN  /\ calls' = [calls EXCEPT ![Worker] = <<Unpolled(m)>>]
              /\ attested' = attested \cup
                   {[message |-> m,
                     as |-> [producer |-> Producer, keyId |-> Signer.keyId,
                             eventId |-> Outbox[Row].event, tenant |-> Outbox[Row].tenant,
                             issued |-> now, expires |-> now + Validity]]}
  BY Zenon DEF PublishDurable
<1> DEFINE m == Message(Outbox[Row].key, Outbox[Row].event, headers)
           a == [message |-> m,
                 as |-> [producer |-> Producer, keyId |-> Signer.keyId,
                         eventId |-> Outbox[Row].event, tenant |-> Outbox[Row].tenant,
                         issued |-> now, expires |-> now + Validity]]
<1>2. Routed(m)
  <2>1. Row \in DOMAIN Outbox
    BY RowIsFirst DEF PublishDurable, WorkerInv
  <2> QED
    BY <2>1, TopicAssumption DEF Routed, Message
<1>3. calls' = [calls EXCEPT ![Worker] = <<Unpolled(m)>>] /\ attested' = attested \cup {a}
  BY <1>1
<1>4. a.message = m /\ a.as.eventId = Outbox[Row].event
  OBVIOUS
<1> HIDE DEF m, a
<1>5. /\ DOMAIN <<Unpolled(m)>> = {1} /\ <<Unpolled(m)>>[1] = Unpolled(m)
      /\ DOMAIN Unpolled(m) = {"message", "state"}
      /\ Unpolled(m).message = m /\ Unpolled(m).state = "unpolled"
  BY DEF Unpolled
<1>6. Worker \in DOMAIN calls
  BY DEF CallsInv
<1>7. /\ DOMAIN calls' = DOMAIN calls /\ calls'[Worker] = <<Unpolled(m)>>
      /\ \A d \in DOMAIN calls \ {Worker} : calls'[d] = calls[d]
  BY <1>3, <1>6
<1>8. \E b \in attested' : b.message = m /\ b.as.eventId = Outbox[Row].event
  BY <1>3, <1>4
<1> QED
  BY <1>2, <1>3, <1>5, <1>7, <1>8

LEMMA CallsStep ==
    ASSUME CallsInv, QueueInv, WorkerInv, [Next]_vars
    PROVE  CallsInv'
<1> DEFINE Routes(d) == \A i \in DOMAIN calls[d] :
             {"message", "state"} \subseteq DOMAIN calls[d][i] /\ Routed(calls[d][i].message)
<1>1. settings' = settings
  BY DEF Next, vars, Publish, PublishDurable, MarkDelivered, Enqueue, QueueFull, QueueTimeout,
     NoOpSend, Store, Report, MessageTimeout, Replicate, Failover, Relay, LateArrival,
     ProducerCrash, Tick, Rotate, InsertKey, Receive, Process, Commit, ConsumerCrash
<1>2. SUFFICES ASSUME TRUE
      PROVE  DOMAIN calls' = DOMAIN calls /\ \A d \in DOMAIN calls : Routes(d)'
  BY <1>1 DEF CallsInv, Connected
<1>3. \A d \in DOMAIN calls : Routes(d)
  BY DEF CallsInv
<1>4. CASE UNCHANGED calls
  BY <1>3, <1>4
<1>5. ASSUME NEW c \in Callers, Publish(c)
      PROVE  DOMAIN calls' = DOMAIN calls /\ \A d \in DOMAIN calls : Routes(d)'
  <2>1. calls' = [calls EXCEPT ![c] = Sends(Batch[c])]
    BY <1>5 DEF Publish
  <2>2. DOMAIN calls' = DOMAIN calls
        /\ \A d \in DOMAIN calls : calls'[d] = IF d = c THEN Sends(Batch[c]) ELSE calls[d]
    BY <2>1
  <2> QED
    BY <1>3, <2>2, SendsReads DEF Routed
<1>6. CASE PublishDurable
  BY <1>3, <1>6, PublishDurableReads DEF Routed
<1>7. CASE MarkDelivered
  <2>1. calls' = [calls EXCEPT ![Worker] = <<>>]
    BY <1>7 DEF MarkDelivered
  <2>2. DOMAIN calls' = DOMAIN calls
        /\ \A d \in DOMAIN calls : calls'[d] = IF d = Worker THEN <<>> ELSE calls[d]
    BY <2>1
  <2> QED
    BY <1>3, <2>2
<1>8. ASSUME NEW c, NEW i, NEW s, SetState(c, i, s)
      PROVE  DOMAIN calls' = DOMAIN calls /\ \A d \in DOMAIN calls : Routes(d)'
  BY <1>3, <1>8, SetStateReads DEF Routed
<1>9. ASSUME NEW i \in DOMAIN queue, Report(i)
      PROVE  DOMAIN calls' = DOMAIN calls /\ \A d \in DOMAIN calls : Routes(d)'
  <2>1. DOMAIN Receipt(queue[i]) = {"message", "state", "receipt"}
        /\ Receipt(queue[i]).message = queue[i].message
    BY DEF Receipt
  <2>2. Routed(queue[i].message)
    BY DEF QueueInv, Queued
  <2> QED
    BY <1>3, <1>9, <2>1, <2>2, ReportReads DEF Routed
<1>10. CASE ProducerCrash
  <2>1. calls' = [d \in DOMAIN calls |-> <<>>]
    BY <1>10 DEF ProducerCrash
  <2> QED
    BY <2>1
<1>11. ASSUME NEW c, NEW i, Enqueue(c, i) \/ QueueFull(c, i) \/ QueueTimeout(c, i) \/ NoOpSend(c, i)
       PROVE  \E s : SetState(c, i, s)
  BY <1>11 DEF Enqueue, QueueFull, QueueTimeout, NoOpSend
<1>12. ASSUME NEW i, MessageTimeout(i)
       PROVE  SetState(queue[i].caller, queue[i].index, "failed")
  BY <1>12 DEF MessageTimeout, SetState
<1>13. \/ UNCHANGED calls
       \/ \E c \in Callers : Publish(c)
       \/ PublishDurable \/ MarkDelivered \/ ProducerCrash
       \/ \E c \in DOMAIN calls : \E i \in 1..3 :
            Enqueue(c, i) \/ QueueFull(c, i) \/ QueueTimeout(c, i) \/ NoOpSend(c, i)
       \/ \E i \in DOMAIN queue : Report(i) \/ MessageTimeout(i)
  BY AllActions DEF vars, Idle, sending, Store, Replicate, Failover, Relay, LateArrival
<1> QED
  BY SMTT(60), <1>4, <1>5, <1>6, <1>7, <1>8, <1>9, <1>10, <1>11, <1>12, <1>13

-----------------------------------------------------------------------------
(* The producer's queue.                                                     *)
LEMMA FunctionIsSequence ==
    ASSUME NEW n \in Nat, NEW f, f = [i \in 1..n |-> f[i]]
    PROVE  Sequence(f) /\ Len(f) = n
<1> DEFINE S == {f[i] : i \in 1..n}
<1>1. f \in [1..n -> S]
  OBVIOUS
<1> HIDE DEF S
<1>2. f \in Seq(S)
  BY <1>1, SeqDef
<1>3. Len(f) \in Nat /\ 1..Len(f) = 1..n
  BY <1>1, <1>2, LenProperties
<1>4. Len(f) = n
  BY <1>3
<1> QED
  BY <1>2, <1>4 DEF Sequence

LEMMA StoreReads ==
    ASSUME QueueInv, NEW i \in DOMAIN queue, Store(i)
    PROVE  /\ Sequence(queue') /\ DOMAIN queue' = DOMAIN queue
           /\ \A k \in DOMAIN queue \ {i} : queue'[k] = queue[k]
           /\ queue'[i] = [queue[i] EXCEPT !.offset = Len(log'[At(queue[i])])]
<1>1. queue' = [queue EXCEPT ![i].offset = Len(log'[At(queue[i])])]
  BY DEF Store
<1>2. Len(queue) \in Nat /\ DOMAIN queue = 1..Len(queue)
  BY SequenceShape DEF QueueInv
<1>3. queue' = [k \in 1..Len(queue) |-> queue'[k]]
  BY <1>1, <1>2
<1>4. Sequence(queue')
  BY <1>2, <1>3, FunctionIsSequence
<1> QED
  BY <1>1, <1>2, <1>4

LEMMA FailoverReads ==
    ASSUME QueueInv, NEW p \in Partitions, Failover(p)
    PROVE  /\ Sequence(queue') /\ DOMAIN queue' = DOMAIN queue
           /\ \A k \in DOMAIN queue :
                queue'[k] = IF At(queue[k]) = p /\ queue[k].offset > stable[p]
                            THEN [queue[k] EXCEPT !.offset = 0] ELSE queue[k]
<1>1. queue' = [k \in DOMAIN queue |->
                  IF At(queue[k]) = p /\ queue[k].offset > stable[p]
                  THEN [queue[k] EXCEPT !.offset = 0] ELSE queue[k]]
  BY DEF Failover
<1>2. Len(queue) \in Nat /\ DOMAIN queue = 1..Len(queue)
  BY SequenceShape DEF QueueInv
<1>3. queue' = [k \in 1..Len(queue) |-> queue'[k]]
  BY <1>1, <1>2
<1>4. Sequence(queue')
  BY <1>2, <1>3, FunctionIsSequence
<1> QED
  BY <1>1, <1>4

(* Each element of what is left was one of the queue, and none of them twice, *)
(* nor the one that was taken.                                                *)
LEMMA TakenReads ==
    ASSUME QueueInv, NEW i \in DOMAIN queue, queue' = RemoveAt(queue, i)
    PROVE  /\ Sequence(queue')
           /\ \A k \in DOMAIN queue' : \E l \in DOMAIN queue \ {i} : queue'[k] = queue[l]
           /\ \A k, n \in DOMAIN queue' : \E l, m \in DOMAIN queue \ {i} :
                queue'[k] = queue[l] /\ queue'[n] = queue[m] /\ (l = m => k = n)
<1>1. Len(queue) \in Nat /\ DOMAIN queue = 1..Len(queue) /\ Sequence(queue) /\ i \in Int
  BY SMTT(60), SequenceShape DEF QueueInv
<1>2. /\ Sequence(queue') /\ Len(queue') = Len(queue) - 1
      /\ \A k \in 1..Len(queue) - 1 : queue'[k] = IF k < i THEN queue[k] ELSE queue[k + 1]
  <2>1. i \in 1..Len(queue)
    BY <1>1
  <2> QED
    BY <1>1, <2>1, RemoveAtReads
<1>3. DOMAIN queue' = 1..Len(queue) - 1
  BY <1>2, SequenceShape
<1> DEFINE from(k) == IF k < i THEN k ELSE k + 1
<1>4. ASSUME NEW k \in DOMAIN queue'
      PROVE  from(k) \in DOMAIN queue \ {i} /\ queue'[k] = queue[from(k)]
  BY <1>1, <1>2, <1>3
<1>5. \A k, n \in DOMAIN queue' : from(k) = from(n) => k = n
  BY <1>1, <1>3
<1> HIDE DEF from
<1> QED
  BY <1>2, <1>4, <1>5

LEMMA QueueKeeps ==
    ASSUME LogInv, QueueInv, NEW q, Queued(log, q),
           \A p \in Partitions : /\ Len(log[p]) =< Len(log'[p]) /\ Len(log'[p]) \in Nat
                                 /\ \A o \in 1..Len(log[p]) : log'[p][o] = log[p][o]
    PROVE  Queued(log', q)
<1>1. At(q) \in Partitions
  BY RoutedToTopic DEF Queued, At
<1>2. Len(log[At(q)]) \in Nat
  BY <1>1, SequenceShape DEF LogInv
<1> QED
  BY <1>1, <1>2 DEF Queued, At

LEMMA QueueStep ==
    ASSUME LogInv, LogInv', CallsInv, QueueInv, [Next]_vars
    PROVE  QueueInv'
<1> DEFINE Grows == \A p \in Partitions :
             /\ Len(log[p]) =< Len(log'[p]) /\ Len(log'[p]) \in Nat
             /\ \A o \in 1..Len(log[p]) : log'[p][o] = log[p][o]
<1>1. settings' = settings
  BY ZenonT(60) DEF Next, vars, Publish, PublishDurable, MarkDelivered, Enqueue, QueueFull, QueueTimeout,
     NoOpSend, Store, Report, MessageTimeout, Replicate, Failover, Relay, LateArrival,
     ProducerCrash, Tick, Rotate, InsertKey, Receive, Process, Commit, ConsumerCrash
<1>2. \A p \in Partitions : Len(log[p]) \in Nat /\ Len(log'[p]) \in Nat
  BY SequenceShape DEF LogInv
<1>3. UNCHANGED log => Grows
  BY <1>2
<1>4. ASSUME UNCHANGED queue, Grows
      PROVE  QueueInv'
  <2>1. \A k \in DOMAIN queue : Queued(log', queue[k])
    BY <1>4, QueueKeeps DEF QueueInv
  <2> QED
    BY <1>1, <1>4, <2>1 DEF QueueInv, Connected, Queued, At
<1>5. ASSUME NEW x, NEW m, log' = [log EXCEPT ![x] = Append(@, m)], stable' = stable
      PROVE  Grows
  BY <1>2, <1>5, LogAppends
<1>6. ASSUME NEW c \in DOMAIN calls, NEW i, Enqueue(c, i)
      PROVE  QueueInv'
  <2> DEFINE q == [caller |-> c, index |-> i, message |-> calls[c][i].message, offset |-> 0]
  <2>1. queue' = Append(queue, q) /\ Connected /\ i \in DOMAIN calls[c] /\ log' = log
    BY <1>6 DEF Enqueue, MayPoll, Sending, broker
  <2>2. Routed(q.message)
    BY <2>1 DEF CallsInv
  <2>3. At(q) \in Partitions
    BY <2>2, RoutedToTopic DEF At
  <2>4. Queued(log', q)
    BY <1>2, <2>2, <2>3, <2>1 DEF Queued, Routed, At
  <2>5. \A k \in DOMAIN queue : Queued(log', queue[k])
    BY <1>3, <2>1, QueueKeeps DEF QueueInv
  <2> HIDE DEF q
  <2>6. /\ Sequence(queue') /\ Len(queue') = Len(queue) + 1 /\ queue'[Len(queue) + 1] = q
        /\ \A k \in 1..Len(queue) : queue'[k] = queue[k]
    BY <2>1, AppendReads DEF QueueInv
  <2>7. Len(queue) \in Nat /\ DOMAIN queue = 1..Len(queue) /\ DOMAIN queue' = 1..Len(queue) + 1
    BY <2>6, SequenceShape DEF QueueInv
  <2>8. \A k \in DOMAIN queue' : k \in DOMAIN queue \/ k = Len(queue) + 1
    BY <2>7
  <2>9. \A k \in DOMAIN queue' : Queued(log', queue'[k])
    BY <2>4, <2>5, <2>6, <2>7, <2>8 DEF Queued, At
  <2> QED
    BY <1>1, <2>1, <2>6, <2>9 DEF QueueInv, Connected, Queued, At
<1>7. ASSUME NEW i \in DOMAIN queue, Store(i)
      PROVE  QueueInv'
  <2> DEFINE x == At(queue[i])
  <2>1. log' = [log EXCEPT ![x] = Append(@, queue[i].message)] /\ stable' = stable
    BY <1>7 DEF Store
  <2>2. Queued(log, queue[i]) /\ x \in Partitions
    BY RoutedToTopic DEF QueueInv, Queued, At
  <2>3. Len(log'[x]) = Len(log[x]) + 1 /\ log'[x][Len(log[x]) + 1] = queue[i].message
    BY <2>1, <2>2, LogAppends
  <2>4. \A k \in DOMAIN queue : Queued(log', queue[k])
    BY <1>5, <2>1, QueueKeeps DEF QueueInv
  <2>5. Queued(log', queue'[i])
    <3>1. /\ queue'[i] = [queue[i] EXCEPT !.offset = Len(log'[x])]
          /\ {"caller", "index", "message", "offset"} \subseteq DOMAIN queue[i]
      BY <1>7, <2>2, StoreReads DEF Queued
    <3>2. /\ DOMAIN queue'[i] = DOMAIN queue[i] /\ queue'[i].message = queue[i].message
          /\ queue'[i].offset = Len(log'[x])
      BY <3>1
    <3>3. PartitionOf[queue'[i].message.key] = x
      BY <3>2 DEF At
    <3> QED
      BY <1>2, <2>2, <2>3, <3>1, <3>2, <3>3 DEF Queued, Routed, At
  <2>6. \A k \in DOMAIN queue' : Queued(log', queue'[k])
    BY ZenonT(60), <1>7, <2>4, <2>5, StoreReads DEF Queued, At
  <2>7. queue # <<>>
    BY <1>7
  <2>8. Sequence(queue')
    BY <1>7, StoreReads
  <2> QED
    BY <1>1, <2>6, <2>7, <2>8 DEF QueueInv, Connected
<1>8. ASSUME NEW i \in DOMAIN queue, queue' = RemoveAt(queue, i), log' = log
      PROVE  QueueInv'
  <2>1. \A k \in DOMAIN queue : Queued(log', queue[k])
    BY <1>3, <1>8, QueueKeeps DEF QueueInv
  <2>2. Sequence(queue') /\ \A k \in DOMAIN queue' : \E l \in DOMAIN queue : queue'[k] = queue[l]
    BY <1>8, TakenReads
  <2>3. \A k \in DOMAIN queue' : Queued(log', queue'[k])
    BY <2>1, <2>2 DEF Queued, At
  <2>4. queue # <<>>
    BY <1>8
  <2> QED
    BY <1>1, <2>2, <2>3, <2>4 DEF QueueInv, Connected, Queued, At
<1>9. ASSUME NEW p \in Partitions, Failover(p)
      PROVE  QueueInv'
  <2>1. ASSUME NEW k \in DOMAIN queue
        PROVE  Queued(log', queue'[k])
    <3>1. Queued(log, queue[k]) /\ At(queue[k]) \in Partitions
      BY RoutedToTopic DEF QueueInv, Queued, At
    <3>2. /\ Len(log'[p]) = stable[p] /\ \A o \in 1..stable[p] : log'[p][o] = log[p][o]
          /\ \A r \in Partitions \ {p} : log'[r] = log[r]
      BY <1>9, FailoverCuts
    <3>3. CASE At(queue[k]) = p /\ queue[k].offset > stable[p]
      <4>1. queue'[k] = [queue[k] EXCEPT !.offset = 0]
        BY <1>9, <3>3, FailoverReads
      <4>2. /\ DOMAIN queue'[k] = DOMAIN queue[k] /\ queue'[k].message = queue[k].message
            /\ queue'[k].offset = 0
        BY <3>1, <4>1 DEF Queued
      <4> QED
        BY <1>2, <3>1, <4>2 DEF Queued, Routed, At
    <3>4. CASE ~(At(queue[k]) = p /\ queue[k].offset > stable[p])
      <4>1. queue'[k] = queue[k]
        BY <1>9, <3>4, FailoverReads
      <4>2. CASE At(queue[k]) # p
        BY <3>1, <3>2, <4>1, <4>2 DEF Queued, Routed, At
      <4>3. CASE At(queue[k]) = p
        <5>1. stable[p] \in Nat /\ queue[k].offset \in Nat /\ queue[k].offset =< stable[p]
          BY <1>2, <3>1, <3>4, <4>3 DEF LogInv, Queued
        <5> QED
          BY <3>1, <3>2, <4>1, <4>3, <5>1 DEF Queued, Routed, At
      <4> QED
        BY <4>2, <4>3
    <3> QED
      BY <3>3, <3>4
  <2> QED
    BY <1>1, <1>9, <2>1, FailoverReads DEF QueueInv, Connected, Queued, At
<1>10. CASE queue' = <<>>
  BY <1>10, EmptySeq DEF QueueInv, Sequence
<1>11. ASSUME NEW p \in Partitions, NEW o \in DOMAIN log[p], Relay(p, o)
       PROVE  QueueInv'
  <2>1. PICK m \in Rewritten(log[p][o]) :
          log' = [log EXCEPT ![PartitionOf[m.key]] = Append(@, m)]
    BY <1>11 DEF Relay
  <2>2. stable' = stable /\ queue' = queue
    BY <1>11 DEF Relay, sending
  <2> QED
    BY <1>4, <1>5, <2>1, <2>2
<1>12. ASSUME NEW m \in wire, LateArrival(m)
       PROVE  QueueInv'
  BY <1>4, <1>5, <1>12 DEF LateArrival
<1>13. ASSUME NEW i \in DOMAIN queue, Report(i) \/ MessageTimeout(i)
       PROVE  QueueInv'
  BY <1>8, <1>13 DEF Report, MessageTimeout, broker
<1>14. \/ UNCHANGED queue /\ UNCHANGED log
       \/ \E c \in DOMAIN calls : \E i \in 1..3 : Enqueue(c, i)
       \/ \E i \in DOMAIN queue : Store(i) \/ Report(i) \/ MessageTimeout(i)
       \/ \E p \in Partitions : Failover(p) \/ \E o \in DOMAIN log[p] : Relay(p, o)
       \/ \E m \in wire : LateArrival(m)
       \/ queue' = <<>>
  BY AllActions DEF vars, Idle, sending, broker, Publish, PublishDurable, MarkDelivered,
     QueueFull, QueueTimeout, NoOpSend, Replicate, ProducerCrash
<1> QED
  BY SMTT(60), <1>3, <1>4, <1>6, <1>7, <1>9, <1>10, <1>11, <1>12, <1>13, <1>14

-----------------------------------------------------------------------------
(* The worker and the receipts.                                              *)
LEMMA OtherCallsStay ==
    ASSUME CallsInv, NEW c, c # Worker, NEW i, NEW s, SetState(c, i, s)
    PROVE  calls'[Worker] = calls[Worker]
BY DEF CallsInv, SetState

LEMMA WorkerStep ==
    ASSUME CallsInv, QueueInv, WorkerInv, [Next]_vars
    PROVE  WorkerInv'
<1> DEFINE Sent == calls[Worker] # <<>> =>
             /\ DOMAIN delivered # DOMAIN Outbox
             /\ DOMAIN calls[Worker] = {1}
             /\ \E a \in attested : /\ a.message = calls[Worker][1].message
                                    /\ a.as.eventId = Outbox[Row].event
           None == \A k \in DOMAIN queue : queue[k].caller # Worker
           Same == UNCHANGED <<delivered, attested>>
<1>1. Worker \in DOMAIN calls /\ Worker \notin Callers
  BY WorkerAssumption DEF CallsInv
<1>2. Sent /\ \A k \in DOMAIN queue : Queues(calls[Worker], queue[k])
  BY DEF WorkerInv
<1>3. \A k, n \in DOMAIN queue : queue[k].caller = Worker /\ queue[n].caller = Worker => k = n
  BY DEF WorkerInv
<1>4. ASSUME Same,
             \/ calls'[Worker] = calls[Worker]
             \/ /\ calls[Worker] # <<>> /\ DOMAIN calls'[Worker] = DOMAIN calls[Worker]
                /\ calls'[Worker][1].message = calls[Worker][1].message
      PROVE  Sent' /\ DOMAIN delivered' \subseteq DOMAIN Outbox
  BY <1>2, <1>4, RowStays DEF WorkerInv
<1>5. ASSUME Same, calls'[Worker] = calls[Worker], DOMAIN queue' = DOMAIN queue,
             \A k \in DOMAIN queue : /\ queue'[k].caller = queue[k].caller
                                     /\ queue'[k].index = queue[k].index
                                     /\ queue'[k].message = queue[k].message
      PROVE  WorkerInv'
  <2>1. \A k \in DOMAIN queue' : Queues(calls'[Worker], queue'[k])
    BY <1>2, <1>5 DEF Queues
  <2> QED
    BY <1>3, <1>4, <1>5, <2>1 DEF WorkerInv
<1>6. ASSUME calls[Worker] # <<>> => calls[Worker][1].state # "queued"
      PROVE  None
  BY <1>2, <1>6 DEF Queues
<1>7. ASSUME None', Sent', DOMAIN delivered' \subseteq DOMAIN Outbox
      PROVE  WorkerInv'
  BY <1>7 DEF WorkerInv, Queues
<1>8. ASSUME NEW c \in Callers, Publish(c)
      PROVE  WorkerInv'
  BY <1>1, <1>5, <1>8 DEF Publish
<1>9. CASE PublishDurable
  <2>1. None /\ queue' = queue /\ delivered' = delivered
        /\ DOMAIN delivered # DOMAIN Outbox
    BY <1>6, <1>9 DEF PublishDurable
  <2>2. Sent'
    BY <1>9, <2>1, PublishDurableReads, RowStays
  <2>3. DOMAIN delivered' \subseteq DOMAIN Outbox
    BY <2>1 DEF WorkerInv
  <2> QED
    BY <1>7, <2>1, <2>2, <2>3
<1>10. CASE MarkDelivered
  <2>1. calls[Worker] # <<>> /\ Decided(calls[Worker])
        /\ calls'[Worker] = <<>> /\ queue' = queue
    BY <1>1, <1>10 DEF MarkDelivered
  <2>2. DOMAIN calls[Worker] = {1} /\ calls[Worker][1].state # "queued"
    BY <1>2, <2>1 DEF Decided
  <2>3. DOMAIN delivered' \subseteq DOMAIN Outbox
    <3>1. Row \in DOMAIN Outbox /\ DOMAIN delivered \subseteq DOMAIN Outbox
      BY <1>2, <2>1, RowIsFirst DEF WorkerInv
    <3> QED
      BY <1>10, <3>1 DEF MarkDelivered
  <2> QED
    BY <1>6, <1>7, <2>1, <2>2, <2>3
<1>11. ASSUME NEW c, NEW i, NEW s, i \in DOMAIN calls[c], c \in DOMAIN calls,
              calls[c][i].state # "queued", SetState(c, i, s), Same, UNCHANGED queue
       PROVE  WorkerInv'
  <2>1. CASE c # Worker
    BY <1>5, <1>11, <2>1, OtherCallsStay
  <2>2. CASE c = Worker
    <3>1. calls[Worker] # <<>> /\ i = 1 /\ None
      BY <1>2, <1>6, <1>11, <2>2
    <3>2. DOMAIN calls'[Worker] = DOMAIN calls[Worker]
          /\ calls'[Worker][1].message = calls[Worker][1].message
      BY <1>11, <2>2, <3>1, SetStateReads
    <3> QED
      BY <1>4, <1>7, <1>11, <3>1, <3>2
  <2> QED
    BY <2>1, <2>2
<1>12. ASSUME NEW c \in DOMAIN calls, NEW i,
              QueueFull(c, i) \/ QueueTimeout(c, i) \/ NoOpSend(c, i)
       PROVE  WorkerInv'
  <2>1. i \in DOMAIN calls[c] /\ calls[c][i].state # "queued" /\ \E s : SetState(c, i, s)
    BY <1>12 DEF QueueFull, QueueTimeout, NoOpSend, MayPoll, Sending
  <2>2. Same /\ UNCHANGED queue
    BY <1>12 DEF QueueFull, QueueTimeout, NoOpSend
  <2> QED
    BY <1>11, <2>1, <2>2
<1>13. ASSUME NEW c \in DOMAIN calls, NEW i, Enqueue(c, i)
       PROVE  WorkerInv'
  <2> DEFINE q == [caller |-> c, index |-> i, message |-> calls[c][i].message, offset |-> 0]
  <2>1. /\ queue' = Append(queue, q) /\ SetState(c, i, "queued") /\ Same
        /\ i \in DOMAIN calls[c] /\ calls[c][i].state # "queued"
    BY <1>13 DEF Enqueue, MayPoll, Sending
  <2>2. q.caller = c /\ q.index = i /\ q.message = calls[c][i].message
    OBVIOUS
  <2> HIDE DEF q
  <2>3. /\ Sequence(queue') /\ Len(queue') = Len(queue) + 1 /\ queue'[Len(queue) + 1] = q
        /\ \A k \in 1..Len(queue) : queue'[k] = queue[k]
    BY <2>1, AppendReads DEF QueueInv
  <2>4. Len(queue) \in Nat /\ DOMAIN queue = 1..Len(queue) /\ DOMAIN queue' = 1..Len(queue) + 1
    BY <2>3, SequenceShape DEF QueueInv
  <2>5. \A k \in DOMAIN queue' : \/ k \in DOMAIN queue /\ queue'[k] = queue[k]
                                 \/ k = Len(queue) + 1 /\ queue'[k] = q
    <3> SUFFICES ASSUME NEW k \in DOMAIN queue'
                 PROVE  \/ k \in DOMAIN queue /\ queue'[k] = queue[k]
                        \/ k = Len(queue) + 1 /\ queue'[k] = q
      OBVIOUS
    <3>1. CASE k = Len(queue) + 1
      BY <2>3, <3>1
    <3>2. CASE k # Len(queue) + 1
      <4>1. k \in 1..Len(queue)
        BY <2>4, <3>2
      <4> QED
        BY <2>3, <2>4, <4>1
    <3> QED
      BY <3>1, <3>2
  <2>6. CASE c # Worker
    <3>1. calls'[Worker] = calls[Worker]
      BY <2>1, <2>6, OtherCallsStay
    <3>2. \A k \in DOMAIN queue' : Queues(calls'[Worker], queue'[k])
      BY <1>2, <2>2, <2>5, <2>6, <3>1 DEF Queues
    <3>3. \A k, n \in DOMAIN queue' :
            queue'[k].caller = Worker /\ queue'[n].caller = Worker => k = n
      BY <1>3, <2>2, <2>5, <2>6
    <3> QED
      BY <1>4, <2>1, <3>1, <3>2, <3>3 DEF WorkerInv
  <2>7. CASE c = Worker
    <3>1. calls[Worker] # <<>> /\ DOMAIN calls[Worker] = {1} /\ i = 1
      BY <1>2, <2>1, <2>7
    <3>2. None
      BY <1>6, <2>1, <2>7, <3>1
    <3>3. /\ DOMAIN calls'[Worker] = {1} /\ calls'[Worker][1].state = "queued"
          /\ calls'[Worker][1].message = calls[Worker][1].message
      BY <1>1, <2>1, <2>7, <3>1, SetStateReads
    <3>4. \A k \in DOMAIN queue' : Queues(calls'[Worker], queue'[k])
      BY <2>2, <2>5, <2>7, <3>1, <3>2, <3>3 DEF Queues
    <3>5. \A k, n \in DOMAIN queue' :
            queue'[k].caller = Worker /\ queue'[n].caller = Worker => k = n
      BY <2>5, <3>2
    <3> QED
      BY <1>4, <2>1, <3>1, <3>3, <3>4, <3>5 DEF WorkerInv
  <2> QED
    BY <2>6, <2>7
<1>14. ASSUME NEW i \in DOMAIN queue, Report(i) \/ MessageTimeout(i)
       PROVE  WorkerInv'
  <2>1. Same /\ queue' = RemoveAt(queue, i)
    BY <1>14 DEF Report, MessageTimeout
  <2>2. \A k, n \in DOMAIN queue' : \E l, m \in DOMAIN queue \ {i} :
          queue'[k] = queue[l] /\ queue'[n] = queue[m] /\ (l = m => k = n)
    BY <2>1, TakenReads
  <2>3. CASE queue[i].caller # Worker
    <3>1. calls'[Worker] = calls[Worker]
      BY <1>1, <1>14, <2>3, OtherCallsStay DEF Report, MessageTimeout, SetState
    <3>2. \A k \in DOMAIN queue' : Queues(calls'[Worker], queue'[k])
      BY <1>2, <2>2, <3>1
    <3>3. \A k, n \in DOMAIN queue' :
            queue'[k].caller = Worker /\ queue'[n].caller = Worker => k = n
      BY <1>3, <2>2
    <3> QED
      BY <1>4, <2>1, <3>1, <3>2, <3>3 DEF WorkerInv
  <2>4. CASE queue[i].caller = Worker
    <3>1. None'
      BY <1>3, <2>2, <2>4
    <3>2. /\ calls[Worker] # <<>> /\ DOMAIN calls[Worker] = {1} /\ queue[i].index = 1
          /\ queue[i].message = calls[Worker][1].message
      BY <1>2, <2>4 DEF Queues
    <3>3. DOMAIN calls'[Worker] = DOMAIN calls[Worker]
          /\ calls'[Worker][1].message = calls[Worker][1].message
      <4>1. CASE Report(i)
        <5>1. Receipt(queue[i]).message = queue[i].message
          BY DEF Receipt
        <5> QED
          BY <1>1, <2>4, <3>2, <4>1, <5>1, ReportReads
      <4>2. CASE MessageTimeout(i)
        <5>1. SetState(Worker, 1, "failed")
          BY <2>4, <3>2, <4>2 DEF MessageTimeout, SetState
        <5> QED
          BY <1>1, <3>2, <5>1, SetStateReads
      <4> QED
        BY <1>14, <4>1, <4>2
    <3> QED
      BY <1>4, <1>7, <2>1, <3>1, <3>2, <3>3
  <2> QED
    BY <2>3, <2>4
<1>15. ASSUME NEW i \in DOMAIN queue, Store(i)
       PROVE  WorkerInv'
  <2>1. {"caller", "index", "message", "offset"} \subseteq DOMAIN queue[i]
    BY DEF QueueInv, Queued
  <2>2. Same /\ calls' = calls
    BY <1>15 DEF Store
  <2>3. DOMAIN queue' = DOMAIN queue
        /\ \A k \in DOMAIN queue : /\ queue'[k].caller = queue[k].caller
                                   /\ queue'[k].index = queue[k].index
                                   /\ queue'[k].message = queue[k].message
    BY <1>15, <2>1, StoreReads
  <2> QED
    BY <1>5, <2>2, <2>3
<1>16. ASSUME NEW p \in Partitions, Failover(p)
       PROVE  WorkerInv'
  <2>1. \A k \in DOMAIN queue :
          {"caller", "index", "message", "offset"} \subseteq DOMAIN queue[k]
    BY DEF QueueInv, Queued
  <2>2. Same /\ calls' = calls
    BY <1>16 DEF Failover
  <2>3. DOMAIN queue' = DOMAIN queue
        /\ \A k \in DOMAIN queue : /\ queue'[k].caller = queue[k].caller
                                   /\ queue'[k].index = queue[k].index
                                   /\ queue'[k].message = queue[k].message
    BY <1>16, <2>1, FailoverReads
  <2> QED
    BY <1>5, <2>2, <2>3
<1>17. CASE ProducerCrash
  <2>1. calls'[Worker] = <<>> /\ queue' = <<>> /\ delivered' = delivered
    BY <1>1, <1>17 DEF ProducerCrash
  <2>2. DOMAIN queue' = {}
    BY <2>1
  <2>3. DOMAIN delivered' \subseteq DOMAIN Outbox
    BY <2>1 DEF WorkerInv
  <2> QED
    BY <1>7, <2>1, <2>2, <2>3
<1>18. CASE Same /\ UNCHANGED <<calls, queue>>
  BY <1>5, <1>18
<1>19. \/ Same /\ UNCHANGED <<calls, queue>>
       \/ \E c \in Callers : Publish(c)
       \/ PublishDurable \/ MarkDelivered
       \/ \E c \in DOMAIN calls : \E i \in 1..3 :
            Enqueue(c, i) \/ QueueFull(c, i) \/ QueueTimeout(c, i) \/ NoOpSend(c, i)
       \/ \E i \in DOMAIN queue : Store(i) \/ Report(i) \/ MessageTimeout(i)
       \/ \E p \in Partitions : Failover(p)
       \/ ProducerCrash
  BY AllActions DEF vars, Idle, sending, Replicate, Relay, LateArrival
<1> QED
  BY <1>8, <1>9, <1>10, <1>12, <1>13, <1>14, <1>15, <1>16, <1>17, <1>18, <1>19

LEMMA ReportIsKept ==
    ASSUME LogInv, CallsInv, QueueInv, NEW i \in DOMAIN queue, Report(i)
    PROVE  Kept(At(queue[i]), queue[i].offset, queue[i].message)
<1> DEFINE q == queue[i]
<1>1. settings["acks"] = "all" /\ Queued(log, q)
  BY DEF QueueInv, CallsInv
<1>2. q.offset # 0 /\ q.offset <= stable[At(q)]
  BY <1>1 DEF Report
<1>3. At(q) \in Partitions
  BY <1>1, RoutedToTopic DEF Queued, At
<1>4. q.offset \in Nat /\ stable[At(q)] \in Nat
  <2>1. Len(log[At(q)]) \in Nat
    BY <1>3, SequenceShape DEF LogInv
  <2> QED
    BY <1>1, <1>3, <2>1 DEF Queued, LogInv
<1> HIDE DEF q
<1>5. q.offset \in 1..stable[At(q)]
  BY <1>2, <1>4
<1>6. Kept(At(q), q.offset, q.message)
  BY <1>1, <1>2, <1>3, <1>5 DEF Kept, Queued
<1> QED
  BY <1>6 DEF q

LEMMA ReceiptStep ==
    ASSUME LogInv, LogInv', BrokerStep, CallsInv, CallsInv', QueueInv, WorkerInv, ReceiptInv,
           [Next]_vars
    PROVE  ReceiptInv'
<1> DEFINE Calls == \A c \in DOMAIN calls : \A i \in DOMAIN calls[c] :
             calls[c][i].state = "ok" =>
               Kept(calls[c][i].receipt.partition, calls[c][i].receipt.offset,
                    calls[c][i].message)
           Rows == \A r \in DOMAIN delivered : \E a \in attested :
             /\ a.as.eventId = Outbox[r].event
             /\ Kept(delivered[r].partition, delivered[r].offset, a.message)
<1>1. Calls /\ Rows
  BY DEF ReceiptInv
<1>2. SUFFICES ASSUME TRUE PROVE Calls' /\ Rows'
  BY DEF ReceiptInv
<1>3. ASSUME NEW p, NEW o, NEW m, Kept(p, o, m)
      PROVE  Kept(p, o, m)'
  BY <1>3, KeptStays
<1>4. ASSUME \A c \in DOMAIN calls' : \A i \in DOMAIN calls'[c] : calls'[c][i].state = "ok" =>
               c \in DOMAIN calls /\ i \in DOMAIN calls[c] /\ calls'[c][i] = calls[c][i]
      PROVE  Calls'
  <2> SUFFICES ASSUME NEW c \in DOMAIN calls', NEW i \in DOMAIN calls'[c],
                      calls'[c][i].state = "ok"
               PROVE  Kept(calls[c][i].receipt.partition, calls[c][i].receipt.offset,
                           calls[c][i].message)'
    OBVIOUS
  <2>1. c \in DOMAIN calls /\ i \in DOMAIN calls[c] /\ calls'[c][i] = calls[c][i]
    BY <1>4
  <2>2. PICK s : s = calls[c][i]
    OBVIOUS
  <2>3. Kept(s.receipt.partition, s.receipt.offset, s.message)
    BY <1>1, <2>1, <2>2
  <2>4. Kept(s.receipt.partition, s.receipt.offset, s.message)'
    BY <2>3, <1>3
  <2> QED
    BY <2>1, <2>2, <2>4 DEF Kept
<1>5. ASSUME delivered' = delivered, attested \subseteq attested'
      PROVE  Rows'
  <2> SUFFICES ASSUME NEW r \in DOMAIN delivered
               PROVE  \E a \in attested' :
                        /\ a.as.eventId = Outbox[r].event
                        /\ Kept(delivered[r].partition, delivered[r].offset, a.message)'
    BY <1>5
  <2>1. PICK a \in attested : a.as.eventId = Outbox[r].event
                        /\ Kept(delivered[r].partition, delivered[r].offset, a.message)
    BY <1>1
  <2>2. PICK d : d = delivered[r]
    OBVIOUS
  <2>3. Kept(d.partition, d.offset, a.message)'
    BY <2>1, <2>2, <1>3
  <2> QED
    BY <1>5, <2>1, <2>2, <2>3 DEF Kept
<1>6. CASE UNCHANGED <<calls, delivered, attested>>
  BY <1>4, <1>5, <1>6
<1>7. ASSUME NEW c \in Callers, Publish(c)
      PROVE  Calls' /\ Rows'
  <2>1. DOMAIN calls' = DOMAIN calls
        /\ \A d \in DOMAIN calls : calls'[d] = IF d = c THEN Sends(Batch[c]) ELSE calls[d]
    BY <1>7 DEF Publish
  <2>2. Calls'
    BY <1>4, <2>1, SendsReads
  <2> QED
    BY <1>5, <1>7, <2>2 DEF Publish
<1>8. CASE PublishDurable
  <2>1. Calls'
    BY <1>4, <1>8, PublishDurableReads
  <2>2. delivered' = delivered
    BY <1>8 DEF PublishDurable
  <2> QED
    BY <1>5, <1>8, <2>1, <2>2, PublishDurableReads
<1>9. CASE MarkDelivered
  <2>1. DOMAIN calls' = DOMAIN calls /\ attested' = attested
        /\ \A d \in DOMAIN calls : calls'[d] = IF d = Worker THEN <<>> ELSE calls[d]
    BY <1>9 DEF MarkDelivered
  <2>2. Calls'
    BY <1>4, <2>1
  <2>3. CASE calls[Worker][1].state # "ok"
    <3>1. delivered' = delivered
      BY <1>9, <2>3 DEF MarkDelivered
    <3> QED
      BY <1>5, <2>1, <2>2, <3>1
  <2>4. CASE calls[Worker][1].state = "ok"
    <3>1. PICK s : s = calls[Worker][1]
      OBVIOUS
    <3>2. /\ DOMAIN delivered' = DOMAIN delivered \cup {Row}
          /\ \A r \in DOMAIN delivered' : delivered'[r] = IF r = Row THEN s.receipt ELSE delivered[r]
      BY <1>9, <2>4, <3>1 DEF MarkDelivered
    <3>3. 1 \in DOMAIN calls[Worker] /\ Worker \in DOMAIN calls
      BY <1>9 DEF MarkDelivered, WorkerInv, CallsInv
    <3>4. PICK a \in attested : a.message = s.message /\ a.as.eventId = Outbox[Row].event
      BY <1>9, <3>1 DEF MarkDelivered, WorkerInv
    <3>5. Kept(s.receipt.partition, s.receipt.offset, a.message)
      BY <1>1, <2>4, <3>1, <3>3, <3>4
    <3>6. Kept(s.receipt.partition, s.receipt.offset, a.message)'
      BY <1>3, <3>5
    <3>7. ASSUME NEW r \in DOMAIN delivered'
          PROVE  \E b \in attested' :
                   /\ b.as.eventId = Outbox[r].event
                   /\ Kept(delivered[r].partition, delivered[r].offset, b.message)'
      <4>1. CASE r = Row
        BY <2>1, <3>2, <3>4, <3>6, <4>1 DEF Kept
      <4>2. CASE r # Row
        <5>1. PICK b \in attested : b.as.eventId = Outbox[r].event
                      /\ Kept(delivered[r].partition, delivered[r].offset, b.message)
          BY <1>1, <3>2, <4>2
        <5>2. PICK d : d = delivered[r]
          OBVIOUS
        <5>3. Kept(d.partition, d.offset, b.message)'
          BY <1>3, <5>1, <5>2
        <5> QED
          BY <2>1, <3>2, <4>2, <5>1, <5>2, <5>3 DEF Kept
      <4> QED
        BY <4>1, <4>2
    <3> QED
      BY <2>2, <3>7
  <2> QED
    BY <2>3, <2>4
<1>10. ASSUME NEW c, NEW i, NEW s, SetState(c, i, s), s # "ok"
       PROVE  Calls'
  BY <1>4, <1>10, SetStateReads
<1>11. ASSUME NEW c \in DOMAIN calls, NEW i,
              Enqueue(c, i) \/ QueueFull(c, i) \/ QueueTimeout(c, i) \/ NoOpSend(c, i)
       PROVE  Calls' /\ Rows'
  <2>1. \E s : SetState(c, i, s) /\ s # "ok"
    BY <1>11 DEF Enqueue, QueueFull, QueueTimeout, NoOpSend
  <2>2. delivered' = delivered /\ attested' = attested
    BY SMTT(60), <1>11 DEF Enqueue, QueueFull, QueueTimeout, NoOpSend
  <2> QED
    BY <1>5, <1>10, <2>1, <2>2
<1>12. ASSUME NEW i \in DOMAIN queue, MessageTimeout(i)
       PROVE  Calls' /\ Rows'
  <2>1. SetState(queue[i].caller, queue[i].index, "failed")
    BY <1>12 DEF MessageTimeout, SetState
  <2> QED
    BY <1>5, <1>10, <1>12, <2>1 DEF MessageTimeout
<1>13. ASSUME NEW i \in DOMAIN queue, Report(i)
       PROVE  Calls' /\ Rows'
  <2>1. PICK q : q = queue[i]
    OBVIOUS
  <2>2. PICK p : p = At(q)
    OBVIOUS
  <2>3. Kept(p, q.offset, q.message)'
    BY <1>3, <1>13, <2>1, <2>2, ReportIsKept
  <2>4. ASSUME NEW c \in DOMAIN calls', NEW j \in DOMAIN calls'[c], calls'[c][j].state = "ok"
        PROVE  Kept(calls[c][j].receipt.partition, calls[c][j].receipt.offset,
                    calls[c][j].message)'
    <3>1. c \in DOMAIN calls /\ j \in DOMAIN calls[c]
      BY <1>13, ReportReads
    <3>2. CASE c = q.caller /\ j = q.index
      <4>1. calls'[c][j] = Receipt(q)
        BY <1>13, <2>1, <3>1, <3>2, ReportReads
      <4>2. /\ calls'[c][j].message = q.message /\ calls'[c][j].receipt.partition = p
            /\ calls'[c][j].receipt.offset = q.offset
        BY <2>2, <4>1 DEF Receipt
      <4> QED
        BY <2>3, <4>2 DEF Kept
    <3>3. CASE ~(c = q.caller /\ j = q.index)
      <4>1. calls'[c][j] = calls[c][j]
        BY <1>13, <2>1, <3>1, <3>3, ReportReads
      <4>2. PICK s : s = calls[c][j]
        OBVIOUS
      <4>3. Kept(s.receipt.partition, s.receipt.offset, s.message)'
        BY <1>1, <1>3, <2>4, <3>1, <4>1, <4>2
      <4> QED
        BY <4>1, <4>2, <4>3 DEF Kept
    <3> QED
      BY <3>2, <3>3
  <2> QED
    BY <1>5, <1>13, <2>4 DEF Report
<1>14. CASE ProducerCrash
  <2>1. DOMAIN calls' = DOMAIN calls /\ \A c \in DOMAIN calls' : calls'[c] = <<>>
    BY <1>14 DEF ProducerCrash
  <2>2. Calls'
    BY <1>4, <2>1
  <2> QED
    BY <1>5, <1>14, <2>2 DEF ProducerCrash
<1>15. \/ UNCHANGED <<calls, delivered, attested>>
       \/ \E c \in Callers : Publish(c)
       \/ PublishDurable \/ MarkDelivered
       \/ \E c \in DOMAIN calls : \E i \in 1..3 :
            Enqueue(c, i) \/ QueueFull(c, i) \/ QueueTimeout(c, i) \/ NoOpSend(c, i)
       \/ \E i \in DOMAIN queue : Report(i) \/ MessageTimeout(i)
       \/ ProducerCrash
  BY AllActions DEF vars, Idle, sending, Store, Failover, Replicate, Relay, LateArrival
<1> QED
  BY <1>6, <1>7, <1>8, <1>9, <1>11, <1>12, <1>13, <1>14, <1>15

(* Whichever name of acks has the last word, validated overrides ask for all  *)
(* replicas.                                                                 *)
LEMMA AcksAreAll ==
    ASSUME NEW o, ValidateDurableProducerOverrides(o), NEW s \in NewBuses(o)
    PROVE  s["acks"] = "all"
<1>1. /\ \A key \in DOMAIN o : Normal(key) = key
      /\ \E last \in SUBSET (DOMAIN o \ DOMAIN Forced) :
           s = [property \in DOMAIN Forced |->
                  IF OtherName(property) \in last THEN Meaning(o[OtherName(property)])
                  ELSE Forced[property]]
  BY DEF NewBuses
<1>2. "acks" \in DOMAIN Forced /\ Forced["acks"] = "all"
  BY DEF Forced
<1>3. OtherName("acks") = "request.required.acks"
  BY DEF OtherName
<1>4. \/ s["acks"] = "all"
      \/ /\ "request.required.acks" \in DOMAIN o
         /\ s["acks"] = Meaning(o["request.required.acks"])
  BY <1>1, <1>2, <1>3
<1>5. ASSUME "request.required.acks" \in DOMAIN o
      PROVE  Meaning(o["request.required.acks"]) = "all"
  <2>1. Normal(o["request.required.acks"]) \in {"all", "-1"}
    BY <1>5, SpellingAssumption DEF ValidateDurableProducerOverrides, UnsafeOverride
  <2> QED
    BY <2>1 DEF Meaning
<1> QED
  BY <1>4, <1>5

LEMMA SendInit == ASSUME Init PROVE SendInv
<1>1. Connected => settings["acks"] = "all"
  BY AcksAreAll DEF Init, Connected
<1>2. LogInv
  <2>1. Sequence(<<>>) /\ Len(<<>>) = 0
    BY EmptySeq DEF Sequence
  <2> QED
    BY <2>1 DEF Init, LogInv
<1>3. CallsInv
  BY <1>1 DEF Init, CallsInv
<1>4. QueueInv
  BY EmptySeq DEF Init, QueueInv, Sequence
<1>5. WorkerInv
  BY DEF Init, WorkerInv
<1>6. ReceiptInv
  BY DEF Init, ReceiptInv
<1> QED
  BY <1>2, <1>3, <1>4, <1>5, <1>6 DEF SendInv

(* A receipt of publish, publish_batch or publish_durable outlives the loss   *)
(* of any leader: no interleaving of retries, timeouts, crashes, failovers    *)
(* and late arrivals leaves a delivered row, or a call that has succeeded,    *)
(* without its message on every replica, at the place the receipt names.      *)
THEOREM DurableReceipts == Spec => []ReceiptsAreDurable
<1>1. Init => SendInv
  BY SendInit
<1>2. SendInv /\ [Next]_vars => SendInv'
  BY LogStep, CallsStep, QueueStep, WorkerStep, ReceiptStep DEF SendInv
<1>3. SendInv => ReceiptsAreDurable
  <2>1. \A p, o, m : Kept(p, o, m) => Holds(p, o, m)
    BY DEF Kept, Holds
  <2> QED
    BY <2>1 DEF SendInv, ReceiptInv, ReceiptsAreDurable
<1> QED
  BY <1>1, <1>2, <1>3, PTL DEF Spec

-----------------------------------------------------------------------------
(* The records on their way through the bus: every signature found anywhere  *)
(* is one the signer gave, so that what verifies, or fails by the clock      *)
(* alone, was signed as it stands; and the first copies of the records of a  *)
(* key are in the order of the outbox.                                       *)

-----------------------------------------------------------------------------
(* Chains of checks.                                                         *)
LEMMA OutcomeReads ==
    ASSUME NEW checks, NEW result
    PROVE  /\ Outcome(checks, result).ok <=> Failing(checks) = {}
           /\ Outcome(checks, result).ok => Outcome(checks, result).value = result
           /\ ~Outcome(checks, result).ok =>
                Outcome(checks, result).error = checks[Min(Failing(checks))][2]
<1>1. CASE Failing(checks) = {}
  <2>1. Outcome(checks, result) = Ok(result)
    BY <1>1 DEF Outcome
  <2> QED
    BY <1>1, <2>1 DEF Ok
<1>2. CASE Failing(checks) # {}
  <2>1. Outcome(checks, result) = Err(checks[Min(Failing(checks))][2])
    BY <1>2 DEF Outcome
  <2> QED
    BY <1>2, <2>1 DEF Err
<1> QED
  BY <1>1, <1>2

LEMMA LeastOf ==
    ASSUME NEW S, S \subseteq Nat, S # {}
    PROVE  Min(S) \in S /\ \A m \in S : Min(S) <= m
<1>1. PICK n \in S : \A m \in S : <<m, n>> \notin OpToRel(<, Nat)
  BY WFMin, NatLessThanWellFounded, Zenon
<1>2. \A m \in S : ~ m < n
  <2> SUFFICES ASSUME NEW m \in S, m < n PROVE FALSE
    OBVIOUS
  <2>1. <<m, n>> \in Nat \X Nat
    OBVIOUS
  <2> QED
    BY <2>1, <1>1, Zenon DEF OpToRel
<1>3. \A m \in S : n <= m
  BY <1>2
<1> QED
  BY <1>3 DEF Min

(* The first failing check is the first of the second part, when the first   *)
(* part passes.                                                              *)
LEMMA ChainReads ==
    ASSUME NEW s, NEW t, Sequence(s), Sequence(t)
    PROVE  /\ Sequence(s \o t) /\ Len(s \o t) = Len(s) + Len(t)
           /\ \A i \in 1..Len(s) : (s \o t)[i] = s[i]
           /\ \A i \in 1..Len(t) : (s \o t)[Len(s) + i] = t[i]
           /\ \A i \in DOMAIN (s \o t) :
                i \in 1..Len(s) \/ \E j \in 1..Len(t) : i = Len(s) + j
<1>1. PICK S, T : s \in Seq(S) /\ t \in Seq(T)
  BY DEF Sequence
<1>2. s \in Seq(S \cup T) /\ t \in Seq(S \cup T)
  BY <1>1, SeqMonotonic
<1>3. Len(s) \in Nat /\ Len(t) \in Nat
  BY <1>1, LenProperties
<1>4. /\ s \o t \in Seq(S \cup T) /\ Len(s \o t) = Len(s) + Len(t)
      /\ \A i \in 1..Len(s) + Len(t) :
           (s \o t)[i] = IF i <= Len(s) THEN s[i] ELSE t[i - Len(s)]
  BY <1>2, ConcatProperties
<1>5. DOMAIN (s \o t) = 1..Len(s) + Len(t)
  BY <1>4, LenProperties
<1>6. \A i \in 1..Len(s) : (s \o t)[i] = s[i]
  BY <1>3, <1>4
<1>7. ASSUME NEW i \in 1..Len(t) PROVE (s \o t)[Len(s) + i] = t[i]
  <2>1. Len(s) + i \in 1..Len(s) + Len(t) /\ ~ Len(s) + i <= Len(s) /\ Len(s) + i - Len(s) = i
    BY <1>3
  <2> QED
    BY <1>4, <2>1
<1>8. ASSUME NEW i \in DOMAIN (s \o t)
      PROVE  i \in 1..Len(s) \/ \E j \in 1..Len(t) : i = Len(s) + j
  <2>1. i \in 1..Len(s) \/ (i - Len(s) \in 1..Len(t) /\ i = Len(s) + (i - Len(s)))
    BY <1>3, <1>5
  <2> QED
    BY <2>1
<1> QED
  BY <1>4, <1>6, <1>7, <1>8 DEF Sequence

LEMMA ChainPasses ==
    ASSUME NEW s, NEW t, Sequence(s), Sequence(t), Failing(s \o t) = {}
    PROVE  Failing(s) = {} /\ Failing(t) = {}
<1>1. DOMAIN s = 1..Len(s) /\ DOMAIN t = 1..Len(t) /\ Len(s) \in Nat /\ Len(t) \in Nat
  BY SequenceShape
<1>2. DOMAIN (s \o t) = 1..Len(s) + Len(t)
  BY ChainReads, SequenceShape
<1>3. \A i \in 1..Len(s) + Len(t) : (s \o t)[i][1]
  BY <1>2 DEF Failing
<1>4. \A i \in 1..Len(s) : s[i][1]
  BY <1>1, <1>3, ChainReads
<1>5. ASSUME NEW i \in 1..Len(t) PROVE t[i][1]
  <2>1. Len(s) + i \in 1..Len(s) + Len(t)
    BY <1>1
  <2> QED
    BY <1>3, <2>1, ChainReads
<1> QED
  BY <1>1, <1>4, <1>5 DEF Failing

(* The errors of a chain are those of its parts. *)
LEMMA ChainErrors ==
    ASSUME NEW s, NEW t, Sequence(s), Sequence(t), NEW E,
           \A i \in DOMAIN s : s[i][2] \in E, \A i \in DOMAIN t : t[i][2] \in E
    PROVE  \A i \in DOMAIN (s \o t) : (s \o t)[i][2] \in E
<1>1. DOMAIN s = 1..Len(s) /\ DOMAIN t = 1..Len(t)
  BY SequenceShape
<1> QED
  BY <1>1, ChainReads

(* An error that only the second part gives is given after the first part    *)
(* has passed.                                                               *)
LEMMA LateError ==
    ASSUME NEW s, NEW t, Sequence(s), Sequence(t), NEW E,
           \A i \in DOMAIN s : s[i][2] \notin E,
           Failing(s \o t) # {}, (s \o t)[Min(Failing(s \o t))][2] \in E
    PROVE  Failing(s) = {}
<1> DEFINE F == Failing(s \o t)
           n == Min(F)
<1>1. DOMAIN s = 1..Len(s) /\ Len(s) \in Nat /\ Len(t) \in Nat
      /\ DOMAIN (s \o t) = 1..Len(s) + Len(t)
  BY SequenceShape, ChainReads
<1>2. n \in F /\ \A m \in F : n <= m
  <2>1. F \subseteq Nat
    BY <1>1 DEF Failing
  <2> HIDE DEF F
  <2>2. F # {}
    BY DEF F
  <2> QED
    BY <2>1, <2>2, LeastOf
<1>3. n \in 1..Len(s) + Len(t)
  BY <1>1, <1>2 DEF Failing
<1> HIDE DEF n
<1>4. n \notin 1..Len(s)
  <2>1. (s \o t)[n][2] \in E
    BY DEF n
  <2> QED
    BY <1>1, <2>1, ChainReads
<1> SUFFICES ASSUME NEW i \in 1..Len(s), ~s[i][1] PROVE FALSE
  BY <1>1 DEF Failing
<1>5. i \in F
  <2>1. i \in 1..Len(s) + Len(t) /\ (s \o t)[i] = s[i]
    BY <1>1, ChainReads
  <2> QED
    BY <1>1, <2>1 DEF Failing
<1> QED
  BY <1>1, <1>2, <1>3, <1>4, <1>5

-----------------------------------------------------------------------------
(* Verification.                                                             *)
LEMMA TupleIsSequence ==
    /\ \A a : Sequence(<<a>>) /\ Len(<<a>>) = 1
    /\ \A a, b, c : Sequence(<<a, b, c>>) /\ Len(<<a, b, c>>) = 3
    /\ \A a, b, c, d : Sequence(<<a, b, c, d>>) /\ Len(<<a, b, c, d>>) = 4
<1>1. \A a : <<a>> \in Seq({a}) /\ Len(<<a>>) = 1
  OBVIOUS
<1>2. \A a, b, c : <<a, b, c>> \in Seq({a, b, c}) /\ Len(<<a, b, c>>) = 3
  OBVIOUS
<1>3. \A a, b, c, d : <<a, b, c, d>> \in Seq({a, b, c, d}) /\ Len(<<a, b, c, d>>) = 4
  OBVIOUS
<1> QED
  BY <1>1, <1>2, <1>3 DEF Sequence

LEMMA ReservedIs ==
    /\ Len(RESERVED_HEADERS) = 8 /\ DOMAIN RESERVED_HEADERS = 1..8
    /\ RESERVED_HEADERS[8] = "signature" /\ Reserved("signature")
BY DEF RESERVED_HEADERS, Reserved

LEMMA ChecksAreSequences ==
    ASSUME NEW m, Sequence(m.headers), NEW n
    PROVE  /\ Sequence(<< <<ValidTransportInput(m, n), "InvalidTransportInput">> >>)
           /\ Sequence(CollectReservedHeaders(m.headers))
           /\ Sequence(ParseChecks(m.headers)) /\ DOMAIN ParseChecks(m.headers) = 1..16
           /\ Sequence(<< <<ValidTransportInput(m, n), "InvalidTransportInput">> >>
                         \o CollectReservedHeaders(m.headers))
           /\ Sequence(WellFormed(m, n))
<1>1. Sequence(<< <<ValidTransportInput(m, n), "InvalidTransportInput">> >>)
  BY TupleIsSequence
<1>2. Sequence(CollectReservedHeaders(m.headers))
  <2> DEFINE f == CollectReservedHeaders(m.headers)
  <2>1. DOMAIN m.headers = 1..Len(m.headers) /\ Len(m.headers) \in Nat
    BY SequenceShape
  <2>2. f = [i \in 1..Len(m.headers) |-> f[i]]
    BY <2>1 DEF CollectReservedHeaders
  <2> HIDE DEF f
  <2>3. Sequence(f)
    BY <2>1, <2>2, FunctionIsSequence
  <2> QED
    BY <2>3 DEF f
<1>3. Sequence(ParseChecks(m.headers)) /\ DOMAIN ParseChecks(m.headers) = 1..16
  <2> DEFINE f == ParseChecks(m.headers)
  <2>1. DOMAIN f = 1..16 /\ f = [i \in 1..16 |-> f[i]]
    BY ReservedIs DEF ParseChecks
  <2> HIDE DEF f
  <2>2. Sequence(f)
    BY <2>1, FunctionIsSequence
  <2> QED
    BY <2>1, <2>2 DEF f
<1>4. Sequence(<< <<ValidTransportInput(m, n), "InvalidTransportInput">> >>
                 \o CollectReservedHeaders(m.headers))
  BY <1>1, <1>2, ChainReads
<1>5. Sequence(WellFormed(m, n))
  BY <1>3, <1>4, ChainReads DEF WellFormed
<1> QED
  BY <1>1, <1>2, <1>3, <1>4, <1>5

(* What is well formed has a signature, neither missing nor malformed. *)
LEMMA WellFormedIsSigned ==
    ASSUME NEW m, Sequence(m.headers), NEW n, Failing(WellFormed(m, n)) = {}
    PROVE  \E i \in DOMAIN m.headers :
             /\ m.headers[i].name.text = "signature"
             /\ m.headers[i].value = ValueOf(m, "signature")
             /\ ValueOf(m, "signature") # NULL /\ Fits(ValueOf(m, "signature"), "signature")
<1>1. /\ Failing(CollectReservedHeaders(m.headers)) = {}
      /\ Failing(ParseChecks(m.headers)) = {}
  <2>1. /\ Failing(<< <<ValidTransportInput(m, n), "InvalidTransportInput">> >>
                     \o CollectReservedHeaders(m.headers)) = {}
        /\ Failing(ParseChecks(m.headers)) = {}
    BY ChecksAreSequences, ChainPasses DEF WellFormed
  <2> QED
    BY <2>1, ChecksAreSequences, ChainPasses
<1>2. ParseChecks(m.headers)[15][1] /\ ParseChecks(m.headers)[16][1]
  <2>1. DOMAIN ParseChecks(m.headers) = 1..16
    BY ChecksAreSequences
  <2>2. \A i \in 1..16 : ParseChecks(m.headers)[i][1]
    BY <1>1, <2>1, Zenon DEF Failing
  <2> QED
    BY <2>2
<1>3. 15 % 2 = 1 /\ 16 % 2 = 0 /\ (15 + 1) \div 2 = 8 /\ (16 + 1) \div 2 = 8
  OBVIOUS
<1>4. /\ ParseChecks(m.headers)[15] = <<Present(m.headers, "signature"), "MissingHeader">>
      /\ ParseChecks(m.headers)[16] =
           <<Present(m.headers, "signature")
               => ParsesAs("signature", RequiredHeader(m.headers, "signature")),
             ParseError("signature")>>
  BY <1>3, ReservedIs DEF ParseChecks
<1>5. Present(m.headers, "signature") /\ ParsesAs("signature", ValueOf(m, "signature"))
  <2>1. Present(m.headers, "signature")
    BY <1>2, <1>4
  <2>2. Present(m.headers, "signature") => ParsesAs("signature", RequiredHeader(m.headers, "signature"))
    <3> DEFINE parses == Present(m.headers, "signature")
                           => ParsesAs("signature", RequiredHeader(m.headers, "signature"))
    <3>1. ParseChecks(m.headers)[16] = <<parses, ParseError("signature")>>
      BY <1>4
    <3> HIDE DEF parses
    <3>2. parses
      BY <1>2, <3>1
    <3> QED
      BY <3>2 DEF parses
  <2> QED
    BY <2>1, <2>2 DEF ValueOf
<1>6. Fits(ValueOf(m, "signature"), "signature")
  BY <1>5 DEF ParsesAs
<1> DEFINE i == CHOOSE j \in DOMAIN m.headers : m.headers[j].name.text = "signature"
<1>7. i \in DOMAIN m.headers /\ m.headers[i].name.text = "signature"
  BY <1>5 DEF Present
<1>8. m.headers[i].value = ValueOf(m, "signature")
  BY DEF ValueOf, RequiredHeader
<1> HIDE DEF i
<1>9. CollectReservedHeaders(m.headers)[i][1]
  BY <1>1, <1>7 DEF Failing, CollectReservedHeaders
<1>10. HeaderProblem(m.headers, i) = "none"
  BY <1>7, <1>9 DEF CollectReservedHeaders
<1>11. m.headers[i].value # NULL
  BY <1>7, <1>10, ReservedIs DEF HeaderProblem
<1> QED
  BY <1>6, <1>7, <1>8, <1>11

LEMMA WellFormedErrors ==
    ASSUME NEW m, Sequence(m.headers), NEW n
    PROVE  \A i \in DOMAIN WellFormed(m, n) : WellFormed(m, n)[i][2] \notin ClockErrors
<1> DEFINE E == {"InvalidTransportInput", "InvalidHeader", "DuplicateHeader", "none",
                 "MissingHeader", "UnsupportedVersion", "MalformedSignature"}
           first == << <<ValidTransportInput(m, n), "InvalidTransportInput">> >>
           second == CollectReservedHeaders(m.headers)
           third == ParseChecks(m.headers)
<1>1. \A i \in DOMAIN first : first[i][2] \in E
  OBVIOUS
<1>2. \A i \in DOMAIN second : second[i][2] \in E
  <2>1. \A i \in DOMAIN second : second[i][2] = HeaderProblem(m.headers, i)
    BY DEF CollectReservedHeaders
  <2> QED
    BY <2>1 DEF HeaderProblem
<1>3. ASSUME NEW i \in DOMAIN third
      PROVE  third[i][2] \in E
  <2>1. i \in 1..(2 * Len(RESERVED_HEADERS))
    BY DEF ParseChecks
  <2>2. third[i][2] = IF i % 2 = 1 THEN "MissingHeader"
                      ELSE ParseError(RESERVED_HEADERS[(i + 1) \div 2])
    BY <2>1 DEF ParseChecks
  <2> QED
    BY <2>2 DEF ParseError
<1>4. Sequence(first) /\ Sequence(second) /\ Sequence(third) /\ Sequence(first \o second)
  BY ChecksAreSequences
<1> HIDE DEF first, second, third
<1>5. \A i \in DOMAIN (first \o second) : (first \o second)[i][2] \in E
  <2> HIDE DEF E
  <2> QED
    BY <1>1, <1>2, <1>4, ChainErrors
<1>6. \A i \in DOMAIN (first \o second \o third) : (first \o second \o third)[i][2] \in E
  <2> HIDE DEF E
  <2> QED
    BY <1>3, <1>4, <1>5, ChainErrors
<1>7. WellFormed(m, n) = first \o second \o third
  BY DEF WellFormed, first, second, third
<1>8. E \cap ClockErrors = {}
  BY DEF ClockErrors
<1> QED
  BY <1>6, <1>7, <1>8

(* The signature is that of the configured key over what the record says. *)
Signs(v, m) ==
    LET a == AsSigned(m)
    IN  ValueOf(m, "signature").signature =
          Sign(v.keys[<<a.producer, a.keyId>>],
               SigningProjection(m.topic, a.tenant, m.key, m.payload, a.producer, a.keyId,
                                 a.eventId, a.issued, a.expires))

LEMMA PolicyIsSequence ==
    ASSUME NEW v, NEW m, NEW n
    PROVE  Sequence(Authentic(v, m)) /\ Sequence(Timely(v, m, n))
BY TupleIsSequence DEF Authentic, Timely

LEMMA AuthenticSigns ==
    ASSUME NEW v, NEW m, Failing(Authentic(v, m)) = {}
    PROVE  Signs(v, m)
<1>1. DOMAIN Authentic(v, m) = 1..3
  BY DEF Authentic
<1>2. Authentic(v, m)[2][1] /\ Authentic(v, m)[3][1]
  BY <1>1 DEF Failing
<1> QED
  BY <1>2 DEF Authentic, Signs

LEMMA VerifiedReads ==
    ASSUME NEW v, NEW m, NEW n, Verify(v, m, n).ok
    PROVE  /\ Failing(WellFormed(m, n)) = {} /\ Signs(v, m)
           /\ Verify(v, m, n).value = AsSigned(m)
           /\ AsSigned(m).issued <= n + v.maxSkew /\ AsSigned(m).expires > n
<1>1. Failing(WellFormed(m, n)) = {}
  BY OutcomeReads DEF Verify
<1>2. Verify(v, m, n) = Outcome(Authentic(v, m) \o Timely(v, m, n), AsSigned(m))
  BY <1>1 DEF Verify
<1>3. /\ Failing(Authentic(v, m) \o Timely(v, m, n)) = {}
      /\ Verify(v, m, n).value = AsSigned(m)
  BY <1>2, OutcomeReads
<1>4. Failing(Authentic(v, m)) = {} /\ Failing(Timely(v, m, n)) = {}
  BY <1>3, PolicyIsSequence, ChainPasses
<1>5. DOMAIN Timely(v, m, n) = 1..4
  BY DEF Timely
<1>6. Timely(v, m, n)[2][1] /\ Timely(v, m, n)[3][1]
  BY <1>4, <1>5 DEF Failing
<1>7. AsSigned(m).issued <= n + v.maxSkew /\ AsSigned(m).expires > n
  BY <1>6 DEF Timely
<1> QED
  BY <1>1, <1>3, <1>4, <1>7, AuthenticSigns

LEMMA ClockErrorReads ==
    ASSUME NEW v, NEW m, Sequence(m.headers), NEW n,
           ~Verify(v, m, n).ok, Verify(v, m, n).error \in ClockErrors
    PROVE  Failing(WellFormed(m, n)) = {} /\ Signs(v, m)
<1>1. Failing(WellFormed(m, n)) = {}
  <2> SUFFICES ASSUME Failing(WellFormed(m, n)) # {} PROVE FALSE
    OBVIOUS
  <2> DEFINE F == Failing(WellFormed(m, n))
  <2>1. Verify(v, m, n).error = WellFormed(m, n)[Min(F)][2]
    BY OutcomeReads DEF Verify
  <2>2. F \subseteq Nat
    BY ChecksAreSequences, SequenceShape DEF Failing
  <2>3. Min(F) \in F
    BY <2>2, LeastOf
  <2>4. Min(F) \in DOMAIN WellFormed(m, n)
    BY <2>3 DEF Failing
  <2> QED
    BY <2>1, <2>4, WellFormedErrors
<1>2. Verify(v, m, n) = Outcome(Authentic(v, m) \o Timely(v, m, n), AsSigned(m))
  BY <1>1 DEF Verify
<1>3. LET F == Failing(Authentic(v, m) \o Timely(v, m, n))
      IN  F # {} /\ (Authentic(v, m) \o Timely(v, m, n))[Min(F)][2] \in ClockErrors
  <2> DEFINE checks == Authentic(v, m) \o Timely(v, m, n)
  <2> HIDE DEF checks
  <2>1. /\ ~Outcome(checks, AsSigned(m)).ok
        /\ Outcome(checks, AsSigned(m)).error \in ClockErrors
    BY <1>2 DEF checks
  <2>2. Failing(checks) # {} /\ checks[Min(Failing(checks))][2] \in ClockErrors
    BY <2>1, OutcomeReads
  <2> QED
    BY <2>2 DEF checks
<1>4. \A i \in DOMAIN Authentic(v, m) : Authentic(v, m)[i][2] \notin ClockErrors
  BY DEF Authentic, ClockErrors
<1>5. Failing(Authentic(v, m)) = {}
  BY <1>3, <1>4, PolicyIsSequence, LateError
<1> QED
  BY <1>1, <1>5, AuthenticSigns

-----------------------------------------------------------------------------
(* What the signer gives for row r, with key k at time t.                    *)
Over(r, k, t) ==
    SigningProjection(Topic, Outbox[r].tenant, Outbox[r].key, Outbox[r].event, Producer,
                      SigningKeys[k], Outbox[r].event, t, t + Validity)
SignatureOf(r, k, t) == [signature |-> Sign(SigningKeys[k], Over(r, k, t))]

SignedHeaders(r, k, t) ==
    LET values == <<Text("1"), Text(Producer), Text(Outbox[r].tenant), Text(SigningKeys[k]),
                    Text(Outbox[r].event), Time(t), Time(t + Validity), SignatureOf(r, k, t)>>
    IN  [i \in DOMAIN RESERVED_HEADERS |->
           [name |-> [text |-> RESERVED_HEADERS[i], lower |-> TRUE], value |-> values[i]]]

AttestationOf(r, k, t) ==
    [message |-> Message(Outbox[r].key, Outbox[r].event, SignedHeaders(r, k, t)),
     as |-> [producer |-> Producer, keyId |-> SigningKeys[k], eventId |-> Outbox[r].event,
             tenant |-> Outbox[r].tenant, issued |-> t, expires |-> t + Validity]]

Signable(r, k, t) == r \in DOMAIN Outbox /\ k \in DOMAIN SigningKeys /\ t \in 0..MaxTime

AttestedInv == \A a \in attested : \E r, k, t : Signable(r, k, t) /\ a = AttestationOf(r, k, t)

TrustInv ==
    /\ now \in 0..MaxTime /\ keysUsed \in DOMAIN SigningKeys
    /\ "maxSkew" \in DOMAIN verifier /\ verifier.maxSkew = MaxSkew

(* A message wherever it is: its signatures are such as the signer gave. *)
Genuine(given, m) ==
    /\ {"topic", "key", "payload", "headers"} \subseteq DOMAIN m
    /\ Sequence(m.headers)
    /\ \A i \in DOMAIN m.headers :
         /\ {"name", "value"} \subseteq DOMAIN m.headers[i]
         /\ {"text", "lower"} \subseteq DOMAIN m.headers[i].name
         /\ m.headers[i].name.text = "signature" =>
              \/ m.headers[i].value \in {NULL, Garbled}
              \/ \E r, k, t : /\ Signable(r, k, t) /\ AttestationOf(r, k, t) \in given
                              /\ m.headers[i].value = SignatureOf(r, k, t)

GenuineInv ==
    /\ \A c \in DOMAIN calls : \A i \in DOMAIN calls[c] : Genuine(attested, calls[c][i].message)
    /\ \A i \in DOMAIN queue : Genuine(attested, queue[i].message)
    /\ \A m \in wire : Genuine(attested, m)
    /\ \A p \in Partitions : \A o \in DOMAIN log[p] : Genuine(attested, log[p][o])

LEMMA GenuineStays ==
    ASSUME NEW A, NEW B, A \subseteq B, NEW m, Genuine(A, m)
    PROVE  Genuine(B, m)
BY DEF Genuine

LEMMA PlainIsGenuine ==
    ASSUME NEW A, NEW key, NEW payload
    PROVE  Genuine(A, Message(key, payload, <<>>))
<1>1. Sequence(<<>>) /\ DOMAIN <<>> = {}
  BY EmptySeq DEF Sequence
<1> QED
  BY <1>1 DEF Genuine, Message

LEMMA HeadersShape ==
    ASSUME NEW r, NEW k, NEW t
    PROVE  /\ Sequence(SignedHeaders(r, k, t)) /\ DOMAIN SignedHeaders(r, k, t) = 1..8
           /\ \A i \in 1..8 : /\ DOMAIN SignedHeaders(r, k, t)[i] = {"name", "value"}
                              /\ DOMAIN SignedHeaders(r, k, t)[i].name = {"text", "lower"}
                              /\ SignedHeaders(r, k, t)[i].name.text = RESERVED_HEADERS[i]
           /\ SignedHeaders(r, k, t)[8].value = SignatureOf(r, k, t)
<1> DEFINE f == SignedHeaders(r, k, t)
<1>1. DOMAIN f = 1..8 /\ f = [i \in 1..8 |-> f[i]]
  BY ReservedIs DEF SignedHeaders
<1>2. \A i \in 1..8 : /\ DOMAIN f[i] = {"name", "value"} /\ DOMAIN f[i].name = {"text", "lower"}
                      /\ f[i].name.text = RESERVED_HEADERS[i]
  BY ReservedIs DEF SignedHeaders
<1>3. f[8].value = SignatureOf(r, k, t)
  BY ReservedIs DEF SignedHeaders
<1> HIDE DEF f
<1>4. Sequence(f)
  BY <1>1, FunctionIsSequence
<1> QED
  BY <1>1, <1>2, <1>3, <1>4 DEF f

LEMMA SignedIsGenuine ==
    ASSUME NEW r, NEW k, NEW t, Signable(r, k, t), NEW A, AttestationOf(r, k, t) \in A
    PROVE  Genuine(A, AttestationOf(r, k, t).message)
<1> DEFINE h == SignedHeaders(r, k, t)
           m == AttestationOf(r, k, t).message
<1>1. DOMAIN m = {"topic", "key", "payload", "headers"} /\ m.headers = h
  BY DEF AttestationOf, Message
<1>2. ASSUME NEW i \in 1..8, h[i].name.text = "signature"
      PROVE  h[i].value = SignatureOf(r, k, t)
  <2>1. RESERVED_HEADERS[i] = "signature"
    BY <1>2, HeadersShape
  <2>2. i = 8
    BY <2>1 DEF RESERVED_HEADERS
  <2> QED
    BY <2>2, HeadersShape
<1>3. /\ Sequence(h) /\ DOMAIN h = 1..8
      /\ \A i \in 1..8 : DOMAIN h[i] = {"name", "value"} /\ DOMAIN h[i].name = {"text", "lower"}
  BY HeadersShape
<1> HIDE DEF h, m
<1>4. Genuine(A, m)
  BY <1>1, <1>2, <1>3 DEF Genuine
<1> QED
  BY <1>4 DEF m

(* The headers that attest adds. *)
AddedHeaders(signer, r, eventId, issued, expires) ==
    LET projection == SigningProjection(r.topic, r.tenant, r.key, r.payload, signer.producer,
                                        signer.keyId, eventId, issued, expires)
        values == <<Text("1"), Text(signer.producer), Text(r.tenant), Text(signer.keyId),
                    Text(eventId), Time(issued), Time(expires),
                    [signature |-> Sign(signer.secret, projection)]>>
    IN  [i \in DOMAIN RESERVED_HEADERS |->
           [name |-> [text |-> RESERVED_HEADERS[i], lower |-> TRUE], value |-> values[i]]]

LEMMA AttestReads ==
    ASSUME NEW signer, NEW r, NEW eventId, NEW issued, NEW expires, "headers" \in DOMAIN r,
           Attest(signer, r, eventId, issued, expires).ok
    PROVE  Attest(signer, r, eventId, issued, expires).value.headers =
             r.headers \o AddedHeaders(signer, r, eventId, issued, expires)
<1> DEFINE added == AddedHeaders(signer, r, eventId, issued, expires)
           result == [r EXCEPT !.headers = @ \o added]
<1>1. \E checks : Attest(signer, r, eventId, issued, expires) = Outcome(checks, result)
  BY Zenon DEF Attest, AddedHeaders
<1> HIDE DEF added
<1>2. result.headers = r.headers \o added
  OBVIOUS
<1> HIDE DEF result
<1>3. Attest(signer, r, eventId, issued, expires).value = result
  BY <1>1, OutcomeReads
<1> QED
  BY <1>2, <1>3 DEF added

LEMMA PublishDurableSigns ==
    ASSUME TrustInv, PublishDurable
    PROVE  /\ attested' = attested \cup {AttestationOf(Row, keysUsed, now)}
           /\ calls' = [calls EXCEPT
                          ![Worker] = <<Unpolled(AttestationOf(Row, keysUsed, now).message)>>]
<1> DEFINE row == Outbox[Row]
           record == NewRecord(Topic, row.tenant, row.key, row.event)
           signed == Attest(Signer, record.value, row.event, now, now + Validity)
           m == Message(row.key, row.event, signed.value.headers)
           a == [message |-> m,
                 as |-> [producer |-> Producer, keyId |-> Signer.keyId, eventId |-> row.event,
                         tenant |-> row.tenant, issued |-> now, expires |-> now + Validity]]
<1>1. /\ record.ok /\ signed.ok
      /\ calls' = [calls EXCEPT ![Worker] = <<Unpolled(m)>>] /\ attested' = attested \cup {a}
  BY DEF PublishDurable
<1>2. Signer = [producer |-> Producer, keyId |-> SigningKeys[keysUsed],
                secret |-> SigningKeys[keysUsed]]
  BY SignerAssumption, OutcomeReads DEF TrustInv, Signer, NewSigner
<1>3. record.value = [topic |-> Topic, tenant |-> row.tenant, key |-> row.key,
                      payload |-> row.event, headers |-> <<>>]
  BY ZenonT(60), <1>1, OutcomeReads DEF NewRecord
<1>4. AddedHeaders(Signer, record.value, row.event, now, now + Validity)
        = SignedHeaders(Row, keysUsed, now)
  BY <1>2, <1>3 DEF AddedHeaders, SignedHeaders, SignatureOf, Over
<1>5. signed.value.headers = SignedHeaders(Row, keysUsed, now)
  <2>1. signed.value.headers = <<>> \o SignedHeaders(Row, keysUsed, now)
    <3>1. record.value.headers = <<>> /\ "headers" \in DOMAIN record.value
      BY <1>3
    <3>2. signed.value.headers = record.value.headers
            \o AddedHeaders(Signer, record.value, row.event, now, now + Validity)
      <4>1. Attest(Signer, record.value, row.event, now, now + Validity).ok
        BY <1>1
      <4>2. PICK g, s, e, x : /\ g = record.value /\ s = Signer /\ e = row.event
                              /\ x = now + Validity
        OBVIOUS
      <4> HIDE DEF record, row
      <4>3. "headers" \in DOMAIN g /\ Attest(s, g, e, now, x).ok
        BY <3>1, <4>1, <4>2
      <4>4. Attest(s, g, e, now, x).value.headers = g.headers \o AddedHeaders(s, g, e, now, x)
        BY <4>3, AttestReads
      <4> QED
        BY <4>2, <4>4
    <3> HIDE DEF signed, record
    <3> QED
      BY <1>4, <3>1, <3>2
  <2>2. PICK S : SignedHeaders(Row, keysUsed, now) \in Seq(S)
    BY HeadersShape DEF Sequence
  <2> QED
    BY <2>1, <2>2, ConcatEmptySeq
<1> HIDE DEF signed
<1>6. a = AttestationOf(Row, keysUsed, now) /\ m = AttestationOf(Row, keysUsed, now).message
  BY <1>2, <1>5 DEF AttestationOf
<1> QED
  BY <1>1, <1>6

-----------------------------------------------------------------------------
(* Steps keep the signatures genuine.                                        *)
LEMMA TrustStep ==
    ASSUME TrustInv, [Next]_vars
    PROVE  TrustInv'
<1>1. MaxTime \in Nat /\ Len(SigningKeys) \in Nat /\ DOMAIN SigningKeys = 1..Len(SigningKeys)
  BY BusAssumption, SignerAssumption
<1>2. CASE UNCHANGED trust
  BY <1>2 DEF TrustInv, trust
<1>3. CASE Tick
  BY <1>1, <1>3 DEF Tick, TrustInv
<1>4. CASE Rotate
  BY <1>1, <1>4 DEF Rotate, TrustInv
<1>5. ASSUME NEW id, NEW public, InsertKey(id, public)
      PROVE  TrustInv'
  <2> DEFINE keys == [k \in DOMAIN verifier.keys \cup {<<Producer, id>>} |->
                        IF k = <<Producer, id>> THEN public ELSE verifier.keys[k]]
  <2>1. InsertVerifyingKey(verifier, Producer, id, public).ok
        /\ verifier' = InsertVerifyingKey(verifier, Producer, id, public).value
        /\ now' = now /\ keysUsed' = keysUsed
    BY <1>5 DEF InsertKey
  <2>2. \E checks : InsertVerifyingKey(verifier, Producer, id, public)
                      = Outcome(checks, [verifier EXCEPT !.keys =
                          [k \in DOMAIN @ \cup {<<Producer, id>>} |->
                             IF k = <<Producer, id>> THEN public ELSE verifier.keys[k]]])
    BY Zenon DEF InsertVerifyingKey
  <2>3. verifier' = [verifier EXCEPT !.keys = keys]
    BY <2>1, <2>2, OutcomeReads
  <2> HIDE DEF keys
  <2>4. "maxSkew" \in DOMAIN verifier' /\ verifier'.maxSkew = verifier.maxSkew
    BY SMTT(60), <2>3 DEF TrustInv
  <2> QED
    BY <2>1, <2>4 DEF TrustInv
<1>6. \/ UNCHANGED trust \/ Tick \/ Rotate
      \/ \E i, j \in DOMAIN SigningKeys : InsertKey(SigningKeys[i], SigningKeys[j])
  BY ZenonT(60) DEF Next, vars, trust, Publish, PublishDurable, MarkDelivered, Enqueue, QueueFull,
     QueueTimeout, NoOpSend, Store, Report, MessageTimeout, Replicate, Failover, Relay,
     LateArrival, ProducerCrash, Receive, Process, Commit, ConsumerCrash
<1> QED
  BY <1>2, <1>3, <1>4, <1>5, <1>6

(* Only the signer gives: for the first row that is not delivered, now. *)
LEMMA AttestedReads ==
    ASSUME TrustInv, WorkerInv, [Next]_vars
    PROVE  \/ attested' = attested
           \/ /\ attested' = attested \cup {AttestationOf(Row, keysUsed, now)}
              /\ Signable(Row, keysUsed, now) /\ PublishDurable
              /\ Row \in DOMAIN Outbox \ DOMAIN delivered
              /\ \A j \in DOMAIN Outbox \ DOMAIN delivered : Row <= j
<1>1. CASE PublishDurable
  <2>1. /\ Row \in DOMAIN Outbox \ DOMAIN delivered
        /\ \A j \in DOMAIN Outbox \ DOMAIN delivered : Row <= j
    BY <1>1, RowIsFirst DEF WorkerInv, PublishDurable
  <2> QED
    BY <1>1, <2>1, PublishDurableSigns DEF Signable, TrustInv
<1>2. PublishDurable \/ attested' = attested
  BY AllActions DEF vars, Idle, Publish, MarkDelivered, Enqueue, QueueFull, QueueTimeout,
     NoOpSend, Store, Report, MessageTimeout, Replicate, Failover, Relay, LateArrival,
     ProducerCrash
<1> QED
  BY <1>1, <1>2

LEMMA AttestedStep ==
    ASSUME TrustInv, WorkerInv, AttestedInv, [Next]_vars
    PROVE  AttestedInv' /\ attested \subseteq attested'
BY AttestedReads DEF AttestedInv

LEMMA SendsArePlain ==
    ASSUME NEW c \in Callers, NEW i \in DOMAIN Sends(Batch[c]), NEW A
    PROVE  Genuine(A, Sends(Batch[c])[i].message)
<1> DEFINE m == Message(Batch[c][i].key, Batch[c][i].event, <<>>)
<1>1. Sends(Batch[c])[i] = [Unpolled(m) EXCEPT
         !.state = IF Connected /\ Batch[c][i].tenant = NULL THEN "failed" ELSE @]
  BY DEF Sends
<1>2. Genuine(A, m)
  BY PlainIsGenuine
<1> HIDE DEF m
<1>3. Sends(Batch[c])[i].message = m
  BY <1>1 DEF Unpolled
<1> QED
  BY <1>2, <1>3

LEMMA LogEntries ==
    ASSUME LogInv, NEW x, NEW m, log' = [log EXCEPT ![x] = Append(@, m)], stable' = stable,
           NEW p \in Partitions, NEW o \in DOMAIN log'[p]
    PROVE  \/ o \in DOMAIN log[p] /\ log'[p][o] = log[p][o]
           \/ p = x /\ o = Len(log[p]) + 1 /\ log'[p][o] = m
<1>1. /\ Sequence(log[p]) /\ DOMAIN log[p] = 1..Len(log[p]) /\ Len(log[p]) \in Nat
  BY SequenceShape DEF LogInv
<1>2. CASE p # x
  BY <1>2 DEF LogInv
<1>3. CASE p = x
  <2>1. log'[p] = Append(log[p], m)
    BY <1>3 DEF LogInv
  <2>2. Sequence(log'[p]) /\ Len(log'[p]) = Len(log[p]) + 1 /\ log'[p][Len(log[p]) + 1] = m
        /\ \A i \in 1..Len(log[p]) : log'[p][i] = log[p][i]
    BY <1>1, <2>1, AppendReads
  <2>3. DOMAIN log'[p] = 1..Len(log[p]) + 1
    BY <2>2, SequenceShape
  <2>4. CASE o = Len(log[p]) + 1
    BY <1>3, <2>2, <2>4
  <2>5. CASE o # Len(log[p]) + 1
    <3>1. o \in 1..Len(log[p])
      BY <1>1, <2>3, <2>5
    <3> QED
      BY <1>1, <2>2, <3>1
  <2> QED
    BY <2>4, <2>5
<1> QED
  BY <1>2, <1>3

(* A relay may change anything but what was signed. *)
LEMMA RewrittenIsGenuine ==
    ASSUME NEW A, NEW m, Genuine(A, m), NEW w \in Rewritten(m)
    PROVE  Genuine(A, w)
<1> DEFINE Fine(h) == /\ {"name", "value"} \subseteq DOMAIN h
                      /\ {"text", "lower"} \subseteq DOMAIN h.name
                      /\ h.name.text = "signature" =>
                           \/ h.value \in {NULL, Garbled}
                           \/ \E r, k, t : /\ Signable(r, k, t) /\ AttestationOf(r, k, t) \in A
                                           /\ h.value = SignatureOf(r, k, t)
<1>1. /\ {"topic", "key", "payload", "headers"} \subseteq DOMAIN m /\ Sequence(m.headers)
      /\ \A i \in DOMAIN m.headers : Fine(m.headers[i])
  BY DEF Genuine
<1>2. ASSUME NEW h, Sequence(h), \A i \in DOMAIN h : Fine(h[i]), w = [m EXCEPT !.headers = h]
      PROVE  Genuine(A, w)
  <2> HIDE DEF Fine
  <2>1. DOMAIN w = DOMAIN m /\ w.headers = h
    BY <1>1, <1>2
  <2>2. \A i \in DOMAIN w.headers : Fine(w.headers[i])
    BY <1>2, <2>1
  <2> QED
    BY <1>1, <1>2, <2>1, <2>2 DEF Genuine, Fine
<1>3. ASSUME NEW i \in DOMAIN m.headers, NEW h, Fine(h),
             w = [m EXCEPT !.headers = [m.headers EXCEPT ![i] = h]]
      PROVE  Genuine(A, w)
  <2> HIDE DEF Fine
  <2> DEFINE f == [m.headers EXCEPT ![i] = h]
  <2>1. Len(m.headers) \in Nat /\ DOMAIN m.headers = 1..Len(m.headers)
    BY <1>1, SequenceShape
  <2>2. DOMAIN f = 1..Len(m.headers) /\ f = [j \in 1..Len(m.headers) |-> f[j]]
        /\ \A j \in DOMAIN f : f[j] = IF j = i THEN h ELSE m.headers[j]
    BY <2>1
  <2>3. w = [m EXCEPT !.headers = f]
    BY <1>3
  <2> HIDE DEF f
  <2>4. Sequence(f)
    BY <2>1, <2>2, FunctionIsSequence
  <2>5. \A j \in DOMAIN f : Fine(f[j])
    BY <1>1, <1>3, <2>1, <2>2
  <2> QED
    BY <1>2, <2>3, <2>4, <2>5
<1>4. ASSUME NEW e, w = [m EXCEPT !.payload = e]
      PROVE  Genuine(A, w)
  <2>1. DOMAIN w = DOMAIN m /\ w.headers = m.headers
    BY <1>1, <1>4
  <2> QED
    BY <1>1, <2>1 DEF Genuine
<1>5. ASSUME NEW i \in DOMAIN m.headers, w = [m EXCEPT !.headers = RemoveAt(@, i)]
      PROVE  Genuine(A, w)
  <2> HIDE DEF Fine
  <2> DEFINE h == RemoveAt(m.headers, i)
  <2>1. Len(m.headers) \in Nat /\ DOMAIN m.headers = 1..Len(m.headers)
    BY <1>1, SequenceShape
  <2>2. /\ Sequence(h) /\ Len(h) = Len(m.headers) - 1
        /\ \A k \in 1..Len(m.headers) - 1 :
             h[k] = IF k < i THEN m.headers[k] ELSE m.headers[k + 1]
    BY <1>1, <2>1, RemoveAtReads
  <2>3. w = [m EXCEPT !.headers = h]
    BY <1>5
  <2> HIDE DEF h
  <2>4. DOMAIN h = 1..Len(m.headers) - 1
    BY <2>2, SequenceShape
  <2>5. ASSUME NEW k \in DOMAIN h PROVE Fine(h[k])
    <3>1. k \in 1..Len(m.headers) /\ k + 1 \in 1..Len(m.headers)
      BY <2>1, <2>4
    <3>2. Fine(m.headers[k]) /\ Fine(m.headers[k + 1])
      BY <1>1, <2>1, <3>1
    <3> QED
      BY <2>2, <2>4, <3>2
  <2> QED
    BY <1>2, <2>2, <2>3, <2>5
<1>6. ASSUME NEW i \in DOMAIN m.headers, w = [m EXCEPT !.headers = Append(@, m.headers[i])]
      PROVE  Genuine(A, w)
  <2> HIDE DEF Fine
  <2> DEFINE h == Append(m.headers, m.headers[i])
  <2>1. Len(m.headers) \in Nat /\ DOMAIN m.headers = 1..Len(m.headers)
    BY <1>1, SequenceShape
  <2>2. /\ Sequence(h) /\ Len(h) = Len(m.headers) + 1
        /\ \A k \in 1..Len(m.headers) : h[k] = m.headers[k]
        /\ h[Len(m.headers) + 1] = m.headers[i]
    BY <1>1, AppendReads
  <2>3. w = [m EXCEPT !.headers = h]
    BY <1>6
  <2> HIDE DEF h
  <2>4. DOMAIN h = 1..Len(m.headers) + 1
    BY <2>2, SequenceShape
  <2>5. ASSUME NEW k \in DOMAIN h PROVE Fine(h[k])
    <3>1. CASE k = Len(m.headers) + 1
      BY <1>1, <2>2, <3>1
    <3>2. CASE k # Len(m.headers) + 1
      <4>1. k \in 1..Len(m.headers)
        BY <2>1, <2>4, <3>2
      <4> QED
        BY <1>1, <2>1, <2>2, <4>1
    <3> QED
      BY <3>1, <3>2
  <2> QED
    BY <1>2, <2>2, <2>3, <2>5
<1>7. ASSUME NEW i \in DOMAIN m.headers, w = [m EXCEPT !.headers[i].name.lower = FALSE]
      PROVE  Genuine(A, w)
  <2> DEFINE g == m.headers[i]
             h == [g EXCEPT !.name = [g.name EXCEPT !.lower = FALSE]]
  <2>1. Fine(g)
    BY <1>1
  <2>2. w = [m EXCEPT !.headers = [m.headers EXCEPT ![i] = h]]
    BY <1>7
  <2> HIDE DEF g
  <2>3. /\ DOMAIN h = DOMAIN g /\ DOMAIN h.name = DOMAIN g.name
        /\ h.name.text = g.name.text /\ h.value = g.value
    BY <2>1
  <2> HIDE DEF h
  <2>4. Fine(h)
    BY <2>1, <2>3
  <2> QED
    BY <1>3, <2>2, <2>4
<1>8. ASSUME NEW i \in DOMAIN m.headers, NEW v \in {NULL, Garbled},
             w = [m EXCEPT !.headers[i].value = v]
      PROVE  Genuine(A, w)
  <2> DEFINE g == m.headers[i]
             h == [g EXCEPT !.value = v]
  <2>1. Fine(g)
    BY <1>1
  <2>2. w = [m EXCEPT !.headers = [m.headers EXCEPT ![i] = h]]
    BY <1>8
  <2> HIDE DEF g
  <2>3. DOMAIN h = DOMAIN g /\ h.name = g.name /\ h.value = v
    BY <2>1
  <2> HIDE DEF h
  <2>4. Fine(h)
    BY <1>8, <2>1, <2>3
  <2> QED
    BY <1>3, <2>2, <2>4
<1>9. ASSUME NEW i \in DOMAIN m.headers, m.headers[i].name.text = "expires-at",
             w = [m EXCEPT !.headers[i].value.time = @ + 1]
      PROVE  Genuine(A, w)
  <2> DEFINE g == m.headers[i]
             v == [g.value EXCEPT !.time = @ + 1]
             h == [g EXCEPT !.value = v]
  <2>1. Fine(g) /\ g.name.text # "signature"
    BY <1>1, <1>9
  <2>2. w = [m EXCEPT !.headers = [m.headers EXCEPT ![i] = h]]
    BY <1>9
  <2> HIDE DEF g, v
  <2>3. DOMAIN h = DOMAIN g /\ h.name = g.name
    BY <2>1
  <2> HIDE DEF h
  <2>4. Fine(h)
    BY <2>1, <2>3
  <2> QED
    BY <1>3, <2>2, <2>4
<1>10. \/ \E e : w = [m EXCEPT !.payload = e]
       \/ \E i \in DOMAIN m.headers :
            \/ w = [m EXCEPT !.headers = RemoveAt(@, i)]
            \/ w = [m EXCEPT !.headers = Append(@, m.headers[i])]
            \/ w = [m EXCEPT !.headers[i].name.lower = FALSE]
            \/ \E v \in {NULL, Garbled} : w = [m EXCEPT !.headers[i].value = v]
            \/ /\ m.headers[i].name.text = "expires-at"
               /\ w = [m EXCEPT !.headers[i].value.time = @ + 1]
  <2> HIDE DEF Fine
  <2> DEFINE touched == {i \in DOMAIN m.headers : m.headers[i].name.text \in Touched}
             times == {i \in touched : m.headers[i].name.text = "expires-at"}
             other == {[m EXCEPT !.payload = Outbox[i].event] : i \in DOMAIN Outbox}
             fewer == {[m EXCEPT !.headers = RemoveAt(@, i)] : i \in touched}
             twice == {[m EXCEPT !.headers = Append(@, m.headers[i])] : i \in touched}
             upper == {[m EXCEPT !.headers[i].name.lower = FALSE] : i \in touched}
             blank == {[m EXCEPT !.headers[i].value = v] : i \in touched, v \in {NULL, Garbled}}
             later == {[m EXCEPT !.headers[i].value.time = @ + 1] : i \in times}
  <2>1. Rewritten(m) = other \cup fewer \cup twice \cup upper \cup blank \cup later
    BY DEF Rewritten
  <2>2. touched \subseteq DOMAIN m.headers
        /\ \A i \in times : i \in touched /\ m.headers[i].name.text = "expires-at"
    OBVIOUS
  <2> HIDE DEF touched, times
  <2>3. ASSUME w \in other
        PROVE  \E i \in DOMAIN Outbox : w = [m EXCEPT !.payload = Outbox[i].event]
    BY ONLY <2>3
  <2>4. ASSUME w \in fewer
        PROVE  \E i \in touched : w = [m EXCEPT !.headers = RemoveAt(@, i)]
    BY ONLY <2>4
  <2>5. ASSUME w \in twice
        PROVE  \E i \in touched : w = [m EXCEPT !.headers = Append(@, m.headers[i])]
    BY ONLY <2>5
  <2>6. ASSUME w \in upper
        PROVE  \E i \in touched : w = [m EXCEPT !.headers[i].name.lower = FALSE]
    BY ONLY <2>6
  <2>7. ASSUME w \in blank
        PROVE  \E i \in touched : \E v \in {NULL, Garbled} : w = [m EXCEPT !.headers[i].value = v]
    BY ONLY <2>7
  <2>8. ASSUME w \in later
        PROVE  \E i \in times : w = [m EXCEPT !.headers[i].value.time = @ + 1]
    BY ONLY <2>8
  <2> HIDE DEF other, fewer, twice, upper, blank, later
  <2>9. w \in other \/ w \in fewer \/ w \in twice \/ w \in upper \/ w \in blank \/ w \in later
    BY <2>1
  <2> QED
    BY Zenon, <2>2, <2>3, <2>4, <2>5, <2>6, <2>7, <2>8, <2>9
<1> HIDE DEF Fine
<1> QED
  BY <1>4, <1>5, <1>6, <1>7, <1>8, <1>9, <1>10

LEMMA GenuineStep ==
    ASSUME LogInv, CallsInv, QueueInv, WorkerInv, TrustInv, AttestedInv, GenuineInv,
           [Next]_vars
    PROVE  GenuineInv'
<1> DEFINE Sent == \A c \in DOMAIN calls : \A i \in DOMAIN calls[c] :
                     Genuine(attested, calls[c][i].message)
           Waiting == \A i \in DOMAIN queue : Genuine(attested, queue[i].message)
           Late == \A m \in wire : Genuine(attested, m)
           There == \A p \in Partitions : \A o \in DOMAIN log[p] : Genuine(attested, log[p][o])
<1>1. Sent /\ Waiting /\ Late /\ There
  BY DEF GenuineInv
<1>2. SUFFICES ASSUME TRUE PROVE Sent' /\ Waiting' /\ Late' /\ There'
  BY DEF GenuineInv
<1>3. ASSUME NEW m, Genuine(attested, m)
      PROVE  Genuine(attested', m)
  <2>1. attested \subseteq attested'
    BY AttestedStep
  <2> QED
    BY <1>3, <2>1, GenuineStays
<1>4. UNCHANGED calls => Sent'
  BY <1>1, <1>3
<1>5. UNCHANGED queue => Waiting'
  BY <1>1, <1>3
<1>6. UNCHANGED wire => Late'
  BY <1>1, <1>3
<1>7. UNCHANGED log => There'
  BY <1>1, <1>3
<1>8. ASSUME NEW i \in DOMAIN queue, queue' = RemoveAt(queue, i)
      PROVE  Waiting'
  BY <1>1, <1>3, <1>8, TakenReads
<1>9. ASSUME NEW c, NEW i, NEW s, SetState(c, i, s)
      PROVE  Sent'
  BY <1>1, <1>3, <1>9, SetStateReads
<1>10. ASSUME NEW x, NEW m, Genuine(attested, m), log' = [log EXCEPT ![x] = Append(@, m)],
              stable' = stable
       PROVE  There'
  <2> SUFFICES ASSUME NEW p \in Partitions, NEW o \in DOMAIN log'[p]
               PROVE  Genuine(attested', log'[p][o])
    OBVIOUS
  <2> QED
    BY <1>1, <1>3, <1>10, LogEntries
<1>11. CASE UNCHANGED <<calls, queue, wire, log>>
  BY <1>4, <1>5, <1>6, <1>7, <1>11
<1>12. ASSUME NEW c \in Callers, Publish(c)
       PROVE  Sent' /\ Waiting' /\ Late' /\ There'
  <2>1. UNCHANGED <<queue, wire, log>>
        /\ DOMAIN calls' = DOMAIN calls
        /\ \A d \in DOMAIN calls : calls'[d] = IF d = c THEN Sends(Batch[c]) ELSE calls[d]
    BY <1>12 DEF Publish, broker
  <2>2. Sent'
    BY <1>1, <1>3, <2>1, SendsArePlain
  <2> QED
    BY <1>5, <1>6, <1>7, <2>1, <2>2
<1>13. CASE PublishDurable
  <2>1. UNCHANGED <<queue, wire, log>>
    BY <1>13 DEF PublishDurable, broker
  <2> DEFINE a == AttestationOf(Row, keysUsed, now)
  <2>2. Genuine(attested', a.message)
    <3>1. Row \in DOMAIN Outbox
      BY <1>13, RowIsFirst DEF WorkerInv, PublishDurable
    <3>2. Signable(Row, keysUsed, now)
      BY <3>1 DEF Signable, TrustInv
    <3>3. a \in attested'
      BY <1>13, PublishDurableSigns
    <3> QED
      BY <3>2, <3>3, SignedIsGenuine
  <2>3. calls' = [calls EXCEPT ![Worker] = <<Unpolled(a.message)>>]
    BY <1>13, PublishDurableSigns
  <2> HIDE DEF a
  <2>4. DOMAIN calls' = DOMAIN calls
        /\ \A d \in DOMAIN calls : calls'[d] = IF d = Worker THEN <<Unpolled(a.message)>>
                                               ELSE calls[d]
    BY <2>3
  <2>5. /\ DOMAIN <<Unpolled(a.message)>> = {1}
        /\ <<Unpolled(a.message)>>[1].message = a.message
    BY DEF Unpolled
  <2>6. Sent'
    BY <1>1, <1>3, <2>2, <2>4, <2>5
  <2> QED
    BY <1>5, <1>6, <1>7, <2>1, <2>6
<1>14. CASE MarkDelivered
  <2>1. UNCHANGED <<queue, wire, log>>
        /\ DOMAIN calls' = DOMAIN calls
        /\ \A d \in DOMAIN calls : calls'[d] = IF d = Worker THEN <<>> ELSE calls[d]
    BY <1>14 DEF MarkDelivered, broker
  <2>2. Sent'
    BY <1>1, <1>3, <2>1
  <2> QED
    BY <1>5, <1>6, <1>7, <2>1, <2>2
<1>15. ASSUME NEW c \in DOMAIN calls, NEW i,
              QueueFull(c, i) \/ QueueTimeout(c, i) \/ NoOpSend(c, i)
       PROVE  Sent' /\ Waiting' /\ Late' /\ There'
  <2>1. \E s : SetState(c, i, s)
    BY <1>15 DEF QueueFull, QueueTimeout, NoOpSend
  <2>2. UNCHANGED <<queue, wire, log>>
    BY <1>15 DEF QueueFull, QueueTimeout, NoOpSend, broker
  <2> QED
    BY <1>5, <1>6, <1>7, <1>9, <2>1, <2>2
<1>16. ASSUME NEW c \in DOMAIN calls, NEW i, Enqueue(c, i)
       PROVE  Sent' /\ Waiting' /\ Late' /\ There'
  <2> DEFINE q == [caller |-> c, index |-> i, message |-> calls[c][i].message, offset |-> 0]
  <2>1. /\ queue' = Append(queue, q) /\ SetState(c, i, "queued") /\ i \in DOMAIN calls[c]
        /\ UNCHANGED <<wire, log>>
    BY <1>16 DEF Enqueue, MayPoll, Sending, broker
  <2>2. Genuine(attested', q.message)
    BY <1>1, <1>3, <2>1
  <2> HIDE DEF q
  <2>3. /\ Sequence(queue') /\ Len(queue') = Len(queue) + 1 /\ queue'[Len(queue) + 1] = q
        /\ \A k \in 1..Len(queue) : queue'[k] = queue[k]
    BY <2>1, AppendReads DEF QueueInv
  <2>4. Len(queue) \in Nat /\ DOMAIN queue = 1..Len(queue) /\ DOMAIN queue' = 1..Len(queue) + 1
    BY <2>3, SequenceShape DEF QueueInv
  <2>5. ASSUME NEW k \in DOMAIN queue' PROVE Genuine(attested', queue'[k].message)
    <3>1. CASE k = Len(queue) + 1
      BY <2>2, <2>3, <3>1
    <3>2. CASE k # Len(queue) + 1
      <4>1. k \in 1..Len(queue)
        BY <2>4, <3>2
      <4> QED
        BY <1>1, <1>3, <2>3, <2>4, <4>1
    <3> QED
      BY <3>1, <3>2
  <2> QED
    BY <1>6, <1>7, <1>9, <2>1, <2>5
<1>17. ASSUME NEW i \in DOMAIN queue, Store(i)
       PROVE  Sent' /\ Waiting' /\ Late' /\ There'
  <2>1. /\ log' = [log EXCEPT ![At(queue[i])] = Append(@, queue[i].message)]
        /\ stable' = stable /\ UNCHANGED <<calls, wire>>
    BY <1>17 DEF Store
  <2>2. {"caller", "index", "message", "offset"} \subseteq DOMAIN queue[i]
    BY DEF QueueInv, Queued
  <2>3. DOMAIN queue' = DOMAIN queue
        /\ \A k \in DOMAIN queue : queue'[k].message = queue[k].message
    BY <1>17, <2>2, StoreReads
  <2>4. Waiting'
    BY <1>1, <1>3, <2>3
  <2> QED
    BY <1>1, <1>4, <1>6, <1>10, <2>1, <2>4
<1>18. ASSUME NEW i \in DOMAIN queue, Report(i)
       PROVE  Sent' /\ Waiting' /\ Late' /\ There'
  <2>1. queue' = RemoveAt(queue, i) /\ UNCHANGED <<wire, log>>
    BY <1>18 DEF Report, broker
  <2>2. Receipt(queue[i]).message = queue[i].message
    BY DEF Receipt
  <2>3. Sent'
    BY <1>1, <1>3, <1>18, <2>2, ReportReads
  <2> QED
    BY <1>6, <1>7, <1>8, <2>1, <2>3
<1>19. ASSUME NEW i \in DOMAIN queue, MessageTimeout(i)
       PROVE  Sent' /\ Waiting' /\ Late' /\ There'
  <2>1. /\ SetState(queue[i].caller, queue[i].index, "failed")
        /\ queue' = RemoveAt(queue, i) /\ log' = log /\ wire' \subseteq wire \cup {queue[i].message}
    BY <1>19 DEF MessageTimeout, SetState, broker
  <2>2. Late'
    BY <1>1, <1>3, <2>1
  <2> QED
    BY <1>7, <1>8, <1>9, <2>1, <2>2
<1>20. CASE ProducerCrash
  <2>1. /\ DOMAIN calls' = DOMAIN calls /\ \A d \in DOMAIN calls : calls'[d] = <<>>
        /\ queue' = <<>> /\ log' = log
        /\ wire' \subseteq wire \cup {queue[i].message : i \in DOMAIN queue}
    BY <1>20 DEF ProducerCrash, broker
  <2>2. Sent' /\ Waiting'
    BY <2>1
  <2>3. Late'
    BY <1>1, <1>3, <2>1
  <2> QED
    BY <1>7, <2>1, <2>2, <2>3
<1>21. ASSUME NEW m \in wire, LateArrival(m)
       PROVE  Sent' /\ Waiting' /\ Late' /\ There'
  <2>1. /\ log' = [log EXCEPT ![PartitionOf[m.key]] = Append(@, m)] /\ stable' = stable
        /\ wire' \subseteq wire /\ UNCHANGED <<calls, queue>>
    BY <1>21 DEF LateArrival
  <2>2. Late'
    BY <1>1, <1>3, <2>1
  <2> QED
    BY <1>1, <1>4, <1>5, <1>10, <2>1, <2>2
<1>22. ASSUME NEW p \in Partitions, Failover(p)
       PROVE  Sent' /\ Waiting' /\ Late' /\ There'
  <2>1. UNCHANGED <<calls, wire>>
    BY <1>22 DEF Failover
  <2>2. \A k \in DOMAIN queue :
          {"caller", "index", "message", "offset"} \subseteq DOMAIN queue[k]
    BY DEF QueueInv, Queued
  <2>3. DOMAIN queue' = DOMAIN queue
        /\ \A k \in DOMAIN queue : queue'[k].message = queue[k].message
    BY <1>22, <2>2, FailoverReads
  <2>4. Waiting'
    BY <1>1, <1>3, <2>3
  <2>5. ASSUME NEW q \in Partitions, NEW o \in DOMAIN log'[q]
        PROVE  Genuine(attested', log'[q][o])
    <3>1. CASE q # p
      <4>1. log'[q] = log[q]
        BY <1>22, <3>1, FailoverCuts
      <4> QED
        BY <1>1, <1>3, <2>5, <4>1
    <3>2. CASE q = p
      <4>1. /\ LogInv' /\ Len(log'[p]) = stable[p]
            /\ \A n \in 1..stable[p] : log'[p][n] = log[p][n]
        BY <1>22, FailoverCuts
      <4>2. DOMAIN log'[p] = 1..stable[p] /\ DOMAIN log[p] = 1..Len(log[p])
            /\ Len(log[p]) \in Nat /\ stable[p] \in 0..Len(log[p])
        BY <4>1, SequenceShape DEF LogInv
      <4>3. o \in DOMAIN log[p] /\ log'[p][o] = log[p][o]
        BY <2>5, <3>2, <4>1, <4>2
      <4> QED
        BY <1>1, <1>3, <3>2, <4>3
    <3> QED
      BY <3>1, <3>2
  <2> QED
    BY <1>4, <1>6, <2>1, <2>4, <2>5
<1>23. ASSUME NEW p \in Partitions, NEW o \in DOMAIN log[p], Relay(p, o)
       PROVE  Sent' /\ Waiting' /\ Late' /\ There'
  <2>1. PICK m \in Rewritten(log[p][o]) :
          log' = [log EXCEPT ![PartitionOf[m.key]] = Append(@, m)]
    BY <1>23 DEF Relay
  <2>2. stable' = stable /\ UNCHANGED <<calls, queue, wire>>
    BY <1>23 DEF Relay, sending
  <2>3. Genuine(attested, m)
    BY <1>1, <2>1, RewrittenIsGenuine
  <2> QED
    BY <1>4, <1>5, <1>6, <1>10, <2>1, <2>2, <2>3
<1>24. \/ UNCHANGED <<calls, queue, wire, log>>
       \/ \E c \in Callers : Publish(c)
       \/ PublishDurable \/ MarkDelivered
       \/ \E c \in DOMAIN calls : \E i \in 1..3 :
            Enqueue(c, i) \/ QueueFull(c, i) \/ QueueTimeout(c, i) \/ NoOpSend(c, i)
       \/ \E i \in DOMAIN queue : Store(i) \/ Report(i) \/ MessageTimeout(i)
       \/ \E p \in Partitions : Failover(p) \/ \E o \in DOMAIN log[p] : Relay(p, o)
       \/ \E m \in wire : LateArrival(m)
       \/ ProducerCrash
  BY AllActions DEF vars, Idle, sending, broker, Replicate
<1> QED
  BY <1>11, <1>12, <1>13, <1>14, <1>15, <1>16, <1>17, <1>18, <1>19, <1>20, <1>21, <1>22,
     <1>23, <1>24

-----------------------------------------------------------------------------
(* The consumer reads only what every replica holds.                         *)
ReadInv ==
    /\ DOMAIN position = Partitions /\ DOMAIN committed = Partitions
    /\ \A p \in Partitions : position[p] \in 0..stable[p] /\ committed[p] \in 0..stable[p]
    /\ Sequence(received)
    /\ \A i \in DOMAIN received : \E p \in Partitions : \E o \in 1..stable[p] :
         received[i].at = <<p, o>>

LEMMA StableIsNat ==
    ASSUME LogInv, LogInv', BrokerStep, NEW p \in Partitions
    PROVE  stable[p] \in Nat /\ stable'[p] \in Nat /\ stable[p] =< stable'[p]
<1>1. Len(log[p]) \in Nat /\ Len(log'[p]) \in Nat
  BY SequenceShape DEF LogInv
<1> QED
  BY <1>1 DEF LogInv, BrokerStep

LEMMA ReadStep ==
    ASSUME LogInv, LogInv', BrokerStep, ReadInv, [Next]_vars
    PROVE  ReadInv'
<1> DEFINE Read(r) == \E p \in Partitions : \E o \in 1..stable[p] : r.at = <<p, o>>
<1>1. ASSUME NEW p \in Partitions
      PROVE  0..stable[p] \subseteq 0..stable'[p] /\ 1..stable[p] \subseteq 1..stable'[p]
  BY StableIsNat
<1>2. ASSUME NEW r, Read(r)
      PROVE  Read(r)'
  BY <1>1, <1>2
<1>3. CASE UNCHANGED <<position, committed, received>>
  BY <1>1, <1>2, <1>3 DEF ReadInv
<1>4. ASSUME NEW p \in Partitions, Receive(p)
      PROVE  ReadInv'
  <2>1. /\ stable' = stable /\ committed' = committed
        /\ position' = [position EXCEPT ![p] = @ + 1]
        /\ position[p] < stable[p]
    BY <1>4 DEF Receive, broker
  <2>2. stable[p] \in Nat /\ position[p] \in 0..stable[p]
    BY StableIsNat DEF ReadInv
  <2>3. DOMAIN position' = Partitions
        /\ \A q \in Partitions : position'[q] = IF q = p THEN position[p] + 1 ELSE position[q]
    BY <2>1 DEF ReadInv
  <2>4. position'[p] \in 1..stable[p]
    BY <2>1, <2>2, <2>3
  <2>5. \A q \in Partitions : position'[q] \in 0..stable[q]
    BY <2>3, <2>4 DEF ReadInv
  <2>7. PICK r : r.at = <<p, position'[p]>> /\ received' = Append(received, r)
    BY <1>4 DEF Receive
  <2>6. Read(r)
    BY <2>4, <2>7
  <2>8. /\ Sequence(received') /\ Len(received') = Len(received) + 1
        /\ \A i \in 1..Len(received) : received'[i] = received[i]
        /\ received'[Len(received) + 1] = r
    BY <2>7, AppendReads DEF ReadInv
  <2>9. /\ DOMAIN received' = 1..Len(received) + 1 /\ DOMAIN received = 1..Len(received)
        /\ Len(received) \in Nat
    BY <2>8, SequenceShape DEF ReadInv
  <2>10. ASSUME NEW i \in DOMAIN received' PROVE Read(received'[i])
    <3>1. CASE i = Len(received) + 1
      BY <2>6, <2>8, <3>1
    <3>2. CASE i # Len(received) + 1
      <4>1. i \in 1..Len(received)
        BY <2>9, <3>2
      <4> QED
        BY <2>8, <2>9, <4>1 DEF ReadInv
    <3> QED
      BY <3>1, <3>2
  <2>11. DOMAIN committed' = Partitions /\ \A q \in Partitions : committed'[q] \in 0..stable[q]
    BY <2>1 DEF ReadInv
  <2>12. \A q \in Partitions : position'[q] \in 0..stable'[q] /\ committed'[q] \in 0..stable'[q]
    BY <2>1, <2>5, <2>11
  <2>13. \A i \in DOMAIN received' : \E q \in Partitions : \E o \in 1..stable'[q] :
           received'[i].at = <<q, o>>
    BY <2>1, <2>10
  <2> QED
    BY <2>3, <2>8, <2>11, <2>12, <2>13 DEF ReadInv
<1>5. CASE Process
  <2>1. received # <<>> /\ received' = Tail(received)
        /\ UNCHANGED <<position, committed, stable>>
    BY <1>5 DEF Process, broker
  <2>2. PICK S : received \in Seq(S)
    BY DEF ReadInv, Sequence
  <2>3. /\ received' \in Seq(S) /\ Len(received') = Len(received) - 1
        /\ \A i \in 1..Len(received') : received'[i] = received[i + 1]
    BY <2>1, <2>2, HeadTailProperties
  <2>4. /\ DOMAIN received' = 1..Len(received) - 1 /\ DOMAIN received = 1..Len(received)
        /\ Len(received) \in Nat /\ Sequence(received')
    BY <2>2, <2>3, LenProperties DEF Sequence
  <2>5. ASSUME NEW i \in DOMAIN received' PROVE Read(received'[i])
    <3>1. i \in 1..Len(received') /\ i + 1 \in DOMAIN received
      BY <2>3, <2>4
    <3> QED
      BY <2>3, <3>1 DEF ReadInv
  <2> QED
    BY <2>1, <2>4, <2>5 DEF ReadInv
<1>6. CASE Commit
  BY <1>6 DEF Commit, ReadInv, broker
<1>7. CASE ConsumerCrash
  BY <1>7, EmptySeq DEF ConsumerCrash, ReadInv, broker, Sequence
<1>8. \/ UNCHANGED <<position, committed, received>>
      \/ \E p \in Partitions : Receive(p)
      \/ Process \/ Commit \/ ConsumerCrash
  BY ConsumerActions DEF consumer
<1> QED
  BY <1>3, <1>4, <1>5, <1>6, <1>7, <1>8

LEMMA HeadIsHeld ==
    ASSUME LogInv, GenuineInv, ReadInv, received # <<>>
    PROVE  Genuine(attested, Handed(Head(received)))
<1>1. PICK S : received \in Seq(S)
  BY DEF ReadInv, Sequence
<1>2. 1 \in DOMAIN received /\ Head(received) = received[1]
  <2>1. Len(received) \in Nat \ {0} /\ DOMAIN received = 1..Len(received)
    BY <1>1, EmptySeq, LenProperties
  <2> QED
    BY <1>1, <2>1
<1>3. PICK p, o : p \in Partitions /\ o \in 1..stable[p] /\ Head(received).at = <<p, o>>
  BY <1>2 DEF ReadInv
<1>4. o \in DOMAIN log[p]
  <2>1. Len(log[p]) \in Nat /\ DOMAIN log[p] = 1..Len(log[p]) /\ stable[p] \in 0..Len(log[p])
    BY <1>3, SequenceShape DEF LogInv
  <2> QED
    BY <1>3, <2>1
<1>5. Genuine(attested, log[p][o])
  BY <1>3, <1>4 DEF GenuineInv
<1>6. Genuine(attested, ConsumedMessage(log[p][o]))
  <2>1. Sequence(<<>>) /\ DOMAIN <<>> = {}
    BY EmptySeq DEF Sequence
  <2> QED
    BY <2>1 DEF ConsumedMessage, Genuine
<1> QED
  BY <1>3, <1>5, <1>6 DEF Handed

-----------------------------------------------------------------------------
(* What carries a good signature was signed as it stands.                    *)
LEMMA SignsAttested ==
    ASSUME NEW m, Genuine(attested, m), NEW v, NEW n, Failing(WellFormed(m, n)) = {}, Signs(v, m)
    PROVE  \E a \in attested : /\ a.as = AsSigned(m)
                               /\ a.message.key = m.key /\ a.message.payload = m.payload
<1>1. Sequence(m.headers)
  BY DEF Genuine
<1>2. PICK i \in DOMAIN m.headers :
             /\ m.headers[i].name.text = "signature"
             /\ m.headers[i].value = ValueOf(m, "signature")
             /\ ValueOf(m, "signature") # NULL /\ Fits(ValueOf(m, "signature"), "signature")
  BY <1>1, WellFormedIsSigned
<1>3. ValueOf(m, "signature") \notin {NULL, Garbled}
  BY <1>2, SignerAssumption
<1>4. PICK r, k, t : /\ AttestationOf(r, k, t) \in attested
                     /\ ValueOf(m, "signature") = SignatureOf(r, k, t)
  BY <1>2, <1>3 DEF Genuine
<1> DEFINE s == AsSigned(m)
           a == AttestationOf(r, k, t)
<1>5. Over(r, k, t) = SigningProjection(m.topic, s.tenant, m.key, m.payload, s.producer, s.keyId,
                                        s.eventId, s.issued, s.expires)
  <2>1. SignatureOf(r, k, t).signature = Sign(SigningKeys[k], Over(r, k, t))
    BY DEF SignatureOf
  <2>2. \E secret : SignatureOf(r, k, t).signature
          = Sign(secret, SigningProjection(m.topic, s.tenant, m.key, m.payload, s.producer,
                                           s.keyId, s.eventId, s.issued, s.expires))
    BY <1>4 DEF Signs
  <2>3. \A x, y, f, g : Sign(x, f) = Sign(y, g) => f = g
    BY DEF Sign
  <2> QED
    BY <2>1, <2>2, <2>3
<1>6. /\ Outbox[r].tenant = s.tenant /\ Outbox[r].key = m.key /\ Outbox[r].event = m.payload
      /\ Producer = s.producer /\ SigningKeys[k] = s.keyId /\ Outbox[r].event = s.eventId
      /\ t = s.issued /\ t + Validity = s.expires
  <2> HIDE DEF s
  <2> QED
    BY <1>5 DEF Over, SigningProjection
<1>7. a.as = [producer |-> s.producer, keyId |-> s.keyId, eventId |-> s.eventId,
              tenant |-> s.tenant, issued |-> s.issued, expires |-> s.expires]
      /\ a.message.key = m.key /\ a.message.payload = m.payload
  <2> HIDE DEF s
  <2> QED
    BY <1>6 DEF AttestationOf, Message
<1>8. s = [producer |-> s.producer, keyId |-> s.keyId, eventId |-> s.eventId,
           tenant |-> s.tenant, issued |-> s.issued, expires |-> s.expires]
  BY DEF AsSigned
<1> QED
  BY <1>4, <1>7, <1>8

InboxInv ==
    \A e \in inbox :
      /\ \A f \in inbox : f.as.eventId = e.as.eventId => f = e
      /\ \E a \in attested :
           /\ a.as = e.as
           /\ a.message.key = e.message.key /\ a.message.payload = e.message.payload
           /\ a.as.issued <= e.at + MaxSkew /\ e.at < a.as.expires

LEMMA InboxStep ==
    ASSUME LogInv, TrustInv, WorkerInv, AttestedInv, GenuineInv, ReadInv, InboxInv, [Next]_vars
    PROVE  InboxInv'
<1>1. attested \subseteq attested'
  BY AttestedStep
<1>2. CASE inbox' = inbox
  BY SMTT(60), <1>1, <1>2 DEF InboxInv
<1>3. CASE Process
  <2> DEFINE m == Handed(Head(received))
             verdict == Verify(verifier, m, now)
             e == [as |-> verdict.value, message |-> m, at |-> now]
  <2>1. attested' = attested /\ received # <<>>
    BY <1>3 DEF Process
  <2>2. CASE inbox' = inbox
    BY <1>2, <2>2
  <2>3. CASE /\ inbox' = inbox \cup {e} /\ verdict.ok
             /\ \A f \in inbox : f.as.eventId # verdict.value.eventId
    <3>1. Genuine(attested, m)
      BY <2>1, HeadIsHeld
    <3>2. verdict.ok
      BY <2>3
    <3> HIDE DEF m
    <3>3. /\ Failing(WellFormed(m, now)) = {} /\ Signs(verifier, m)
          /\ verdict.value = AsSigned(m)
          /\ AsSigned(m).issued <= now + verifier.maxSkew /\ AsSigned(m).expires > now
      BY <3>2, VerifiedReads
    <3>4. PICK a \in attested : /\ a.as = AsSigned(m)
                                /\ a.message.key = m.key /\ a.message.payload = m.payload
      BY <3>1, <3>3, SignsAttested
    <3>5. e.as = AsSigned(m) /\ e.message = m /\ e.at = now
      BY <3>3
    <3>6. a.as.issued <= e.at + MaxSkew /\ e.at < a.as.expires
      <4>1. verifier.maxSkew = MaxSkew
        BY DEF TrustInv
      <4>2. PICK s : s = AsSigned(m)
        OBVIOUS
      <4>3. s.issued <= now + MaxSkew /\ now < s.expires
        BY <3>3, <4>1, <4>2
      <4> QED
        BY <3>4, <3>5, <4>2, <4>3
    <3>7. \A f \in inbox : f.as.eventId # e.as.eventId
      BY <2>3, <3>3, <3>5
    <3> HIDE DEF e, verdict
    <3>8. inbox' = inbox \cup {e}
      BY SMTT(60), <2>3
    <3> QED
      BY <2>1, <3>4, <3>5, <3>6, <3>7, <3>8 DEF InboxInv
  <2> QED
    BY <1>3, <2>2, <2>3 DEF Process
<1>4. Process \/ inbox' = inbox
  BY DEF Next, vars, consumer, Publish, PublishDurable, MarkDelivered, Enqueue, QueueFull,
     QueueTimeout, NoOpSend, Store, Report, MessageTimeout, Replicate, Failover, Relay,
     LateArrival, ProducerCrash, Tick, Rotate, InsertKey, Receive, Commit, ConsumerCrash
<1> QED
  BY <1>2, <1>3, <1>4

(* An expired, early or overlong record is reported as such only when the     *)
(* producer signed these very times, over this very payload.                  *)
LEMMA ClockErrorsAreSigned ==
    ASSUME LogInv, GenuineInv, ReadInv, received # <<>>
    PROVE  LET m == Handed(Head(received))
               verdict == Verify(verifier, m, now)
               h(text) == RequiredHeader(m.headers, text)
           IN  ~verdict.ok /\ verdict.error \in ClockErrors =>
                 \E a \in attested : /\ a.message.payload = m.payload
                                     /\ a.as.issued = h("issued-at").time
                                     /\ a.as.expires = h("expires-at").time
<1>1. PICK m : m = Handed(Head(received))
  OBVIOUS
<1>2. Genuine(attested, m)
  BY <1>1, HeadIsHeld
<1>3. ASSUME ~Verify(verifier, m, now).ok, Verify(verifier, m, now).error \in ClockErrors
      PROVE  \E a \in attested : /\ a.message.payload = m.payload
                                 /\ a.as.issued = RequiredHeader(m.headers, "issued-at").time
                                 /\ a.as.expires = RequiredHeader(m.headers, "expires-at").time
  <2>1. Failing(WellFormed(m, now)) = {} /\ Signs(verifier, m)
    BY <1>2, <1>3, ClockErrorReads DEF Genuine
  <2>2. PICK a \in attested : /\ a.as = AsSigned(m)
                              /\ a.message.key = m.key /\ a.message.payload = m.payload
    BY <1>2, <2>1, SignsAttested
  <2>3. /\ AsSigned(m).issued = RequiredHeader(m.headers, "issued-at").time
        /\ AsSigned(m).expires = RequiredHeader(m.headers, "expires-at").time
    BY DEF AsSigned, ValueOf
  <2> QED
    BY <2>2, <2>3
<1> QED
  BY <1>1, <1>3

EventInv == SendInv /\ TrustInv /\ AttestedInv /\ GenuineInv /\ ReadInv /\ InboxInv

LEMMA EventInit == ASSUME Init PROVE EventInv
<1>1. Sequence(<<>>)
  BY EmptySeq DEF Sequence
<1>2. TrustInv
  <2>1. verifier = [maxValidity |-> Validity, maxSkew |-> MaxSkew, keys |-> <<>>]
    <3>1. Failing(<< <<Validity > 0 /\ MaxSkew >= 0, "InvalidVerificationWindow">> >>) = {}
      <4> DEFINE positive == Validity > 0 /\ MaxSkew >= 0
      <4>1. positive
        BY BusAssumption
      <4> HIDE DEF positive
      <4> DEFINE check == <<positive, "InvalidVerificationWindow">>
      <4>2. check[1]
        BY <4>1, Zenon
      <4> HIDE DEF check
      <4>3. DOMAIN <<check>> = {1} /\ <<check>>[1] = check
        OBVIOUS
      <4>4. Failing(<<check>>) = {}
        BY <4>2, <4>3, Zenon DEF Failing
      <4> QED
        BY <4>4 DEF check, positive
    <3>2. verifier = Outcome(<< <<Validity > 0 /\ MaxSkew >= 0, "InvalidVerificationWindow">> >>,
                             [maxValidity |-> Validity, maxSkew |-> MaxSkew, keys |-> <<>>]).value
      BY DEF Init, NewVerifier
    <3> QED
      BY <3>1, <3>2, OutcomeReads
  <2> QED
    BY <2>1, BusAssumption, SignerAssumption DEF Init, TrustInv
<1>3. AttestedInv
  BY DEF Init, AttestedInv
<1>4. GenuineInv
  BY DEF Init, GenuineInv
<1>5. ReadInv
  BY <1>1 DEF Init, ReadInv
<1>6. InboxInv
  BY DEF Init, InboxInv
<1> QED
  BY <1>2, <1>3, <1>4, <1>5, <1>6, SendInit DEF EventInv

LEMMA SendStep == ASSUME SendInv, [Next]_vars PROVE SendInv' /\ BrokerStep
BY LogStep, CallsStep, QueueStep, WorkerStep, ReceiptStep DEF SendInv

LEMMA EventStep == ASSUME EventInv, [Next]_vars PROVE EventInv'
<1>1. SendInv' /\ BrokerStep
  BY SendStep DEF EventInv
<1>2. TrustInv' /\ AttestedInv' /\ GenuineInv'
  BY TrustStep, AttestedStep, GenuineStep DEF EventInv, SendInv
<1>3. ReadInv' /\ InboxInv'
  BY <1>1, ReadStep, InboxStep DEF EventInv, SendInv
<1> QED
  BY <1>1, <1>2, <1>3 DEF EventInv

(* Whatever a relay did to a record, whatever keys the verifier has and       *)
(* however often a record is delivered: an event is applied at most once and  *)
(* only as the producer signed it, within its window; and the clock is blamed *)
(* only for times the producer signed.                                        *)
THEOREM EventsJudgedAsSigned == Spec => []JudgedAsSigned
<1>1. Init => EventInv
  BY EventInit
<1>2. EventInv /\ [Next]_vars => EventInv'
  BY EventStep
<1>3. EventInv => JudgedAsSigned
  BY ClockErrorsAreSigned DEF EventInv, SendInv, InboxInv, JudgedAsSigned
<1> QED
  BY <1>1, <1>2, <1>3, PTL DEF Spec
-----------------------------------------------------------------------------
(* The order of the first copies.  Earlier: a row is signed only when every   *)
(* row before it is marked delivered.  Placed: a message is only ever stored  *)
(* in the partition of its key.  Later: a copy of a row stands behind the     *)
(* place that the receipt of an earlier row of its key names.                 *)
SignedFor(a, j) == a.as.eventId = Outbox[j].event

Earlier ==
    \A a \in attested : \A i, j \in DOMAIN Outbox :
      SignedFor(a, j) /\ i < j => i \in DOMAIN delivered
Placed == \A p \in Partitions : \A o \in DOMAIN log[p] : p = PartitionOf[log[p][o].key]
Later ==
    \A i, j \in DOMAIN Outbox : \A p \in Partitions : \A o \in DOMAIN log[p] : \A a \in attested :
      /\ i < j /\ Outbox[i].key = Outbox[j].key
      /\ SignedFor(a, j) /\ a.message = log[p][o]
      => delivered[i].offset < o

OrderInv == Earlier /\ Placed /\ Later

(* A step leaves an entry of the log where it was, or stores one at the end   *)
(* of the partition of its key.                                               *)
LEMMA LogMoves ==
    ASSUME LogInv, [Next]_vars, NEW p \in Partitions, NEW o \in DOMAIN log'[p]
    PROVE  \/ o \in DOMAIN log[p] /\ log'[p][o] = log[p][o]
           \/ /\ o = Len(log[p]) + 1 /\ p = PartitionOf[log'[p][o].key]
              /\ UNCHANGED <<delivered, attested>>
<1> DEFINE Moves == \/ o \in DOMAIN log[p] /\ log'[p][o] = log[p][o]
                    \/ /\ o = Len(log[p]) + 1 /\ p = PartitionOf[log'[p][o].key]
                       /\ UNCHANGED <<delivered, attested>>
<1>1. CASE log' = log
  BY <1>1
<1>2. ASSUME NEW m, log' = [log EXCEPT ![PartitionOf[m.key]] = Append(@, m)], stable' = stable,
             UNCHANGED <<delivered, attested>>
      PROVE  Moves
  <2>1. PICK x : x = PartitionOf[m.key]
    OBVIOUS
  <2>2. log' = [log EXCEPT ![x] = Append(@, m)]
    BY <1>2, <2>1
  <2>3. \/ o \in DOMAIN log[p] /\ log'[p][o] = log[p][o]
        \/ p = x /\ o = Len(log[p]) + 1 /\ log'[p][o] = m
    BY SMTT(60), <1>2, <2>2, LogEntries
  <2> QED
    BY <1>2, <2>1, <2>3
<1>3. ASSUME NEW i \in DOMAIN queue, Store(i)
      PROVE  Moves
  BY <1>2, <1>3 DEF Store, At
<1>4. ASSUME NEW m \in wire, LateArrival(m)
      PROVE  Moves
  BY <1>2, <1>4 DEF LateArrival
<1>5. ASSUME NEW q \in Partitions, NEW n \in DOMAIN log[q], Relay(q, n)
      PROVE  Moves
  <2>1. PICK m \in Rewritten(log[q][n]) :
          log' = [log EXCEPT ![PartitionOf[m.key]] = Append(@, m)]
    BY <1>5 DEF Relay
  <2>2. stable' = stable /\ UNCHANGED <<delivered, attested>>
    BY <1>5 DEF Relay, sending
  <2> QED
    BY <1>2, <2>1, <2>2
<1>6. ASSUME NEW q \in Partitions, Failover(q)
      PROVE  o \in DOMAIN log[p] /\ log'[p][o] = log[p][o]
  <2>1. CASE p # q
    BY <1>6, <2>1, FailoverCuts
  <2>2. CASE p = q
    <3>1. /\ LogInv' /\ Len(log'[p]) = stable[p]
          /\ \A n \in 1..stable[p] : log'[p][n] = log[p][n]
      BY <1>6, <2>2, FailoverCuts
    <3>2. DOMAIN log'[p] = 1..stable[p] /\ DOMAIN log[p] = 1..Len(log[p])
          /\ Len(log[p]) \in Nat /\ stable[p] \in 0..Len(log[p])
      BY <3>1, SequenceShape DEF LogInv
    <3> QED
      BY <3>1, <3>2
  <2> QED
    BY <2>1, <2>2
<1>7. \/ log' = log
      \/ \E i \in DOMAIN queue : Store(i)
      \/ \E q \in Partitions : Failover(q) \/ \E n \in DOMAIN log[q] : Relay(q, n)
      \/ \E m \in wire : LateArrival(m)
  BY AllActions DEF vars, Idle, broker, Publish, PublishDurable, MarkDelivered, Enqueue,
     QueueFull, QueueTimeout, NoOpSend, Report, MessageTimeout, Replicate, ProducerCrash
<1> QED
  BY <1>1, <1>3, <1>4, <1>5, <1>6, <1>7

(* A receipt, once given, is the row's for good. *)
LEMMA DeliveredStays ==
    ASSUME WorkerInv, [Next]_vars
    PROVE  \A r \in DOMAIN delivered : r \in DOMAIN delivered' /\ delivered'[r] = delivered[r]
<1>1. CASE MarkDelivered
  <2>1. Row \notin DOMAIN delivered
    BY <1>1, RowIsFirst DEF WorkerInv, MarkDelivered
  <2> QED
    BY <1>1, <2>1 DEF MarkDelivered
<1>2. MarkDelivered \/ delivered' = delivered
  BY AllActions DEF vars, Idle, sending, Publish, PublishDurable, Enqueue, QueueFull,
     QueueTimeout, NoOpSend, Store, Report, MessageTimeout, Replicate, Failover, Relay,
     LateArrival, ProducerCrash
<1> QED
  BY <1>1, <1>2

(* The place of a row's receipt is one of its key's partition that every      *)
(* replica has.                                                               *)
LEMMA ReceiptPlace ==
    ASSUME LogInv, AttestedInv, ReceiptInv, Placed, NEW r \in DOMAIN delivered, r \in DOMAIN Outbox
    PROVE  /\ delivered[r].partition = PartitionOf[Outbox[r].key]
           /\ PartitionOf[Outbox[r].key] \in Partitions
           /\ delivered[r].offset \in 1..stable[PartitionOf[Outbox[r].key]]
           /\ delivered[r].offset \in DOMAIN log[PartitionOf[Outbox[r].key]]
           /\ \E b \in attested : /\ SignedFor(b, r)
                                  /\ b.message = log[PartitionOf[Outbox[r].key]][delivered[r].offset]
<1>1. PICK b \in attested : /\ b.as.eventId = Outbox[r].event
                            /\ Kept(delivered[r].partition, delivered[r].offset, b.message)
  BY DEF ReceiptInv
<1>2. PICK d : d = delivered[r]
  OBVIOUS
<1>3. d.partition \in Partitions /\ d.offset \in 1..stable[d.partition]
      /\ log[d.partition][d.offset] = b.message
  BY <1>1, <1>2 DEF Kept
<1>4. d.offset \in DOMAIN log[d.partition]
  <2>1. /\ DOMAIN log[d.partition] = 1..Len(log[d.partition]) /\ Len(log[d.partition]) \in Nat
        /\ stable[d.partition] \in 0..Len(log[d.partition])
    BY <1>3, SequenceShape DEF LogInv
  <2> QED
    BY <1>3, <2>1
<1>5. b.message.key = Outbox[r].key
  <2>1. PICK n, k, t : Signable(n, k, t) /\ b = AttestationOf(n, k, t)
    BY DEF AttestedInv
  <2>2. b.as.eventId = Outbox[n].event /\ b.message.key = Outbox[n].key
    BY <2>1 DEF AttestationOf, Message
  <2>3. n = r
    BY <1>1, <2>1, <2>2, TopicAssumption DEF Signable
  <2> QED
    BY <2>2, <2>3
<1>6. d.partition = PartitionOf[Outbox[r].key]
  BY <1>3, <1>4, <1>5 DEF Placed
<1> QED
  BY <1>1, <1>2, <1>3, <1>4, <1>6 DEF SignedFor

(* What the signer gives is not in the log, unless it was given before. *)
LEMMA NewIsNotThere ==
    ASSUME GenuineInv, NEW r, NEW k, NEW t, Signable(r, k, t),
           NEW p \in Partitions, NEW o \in DOMAIN log[p],
           AttestationOf(r, k, t).message = log[p][o]
    PROVE  AttestationOf(r, k, t) \in attested
<1> DEFINE m == log[p][o]
<1>1. Genuine(attested, m)
  BY DEF GenuineInv
<1>2. m.headers = SignedHeaders(r, k, t)
  BY DEF AttestationOf, Message
<1> HIDE DEF m
<1>3. /\ 8 \in DOMAIN m.headers /\ m.headers[8].name.text = "signature"
      /\ m.headers[8].value = SignatureOf(r, k, t)
  BY <1>2, HeadersShape DEF RESERVED_HEADERS
<1>4. SignatureOf(r, k, t) \notin {NULL, Garbled}
  BY SignerAssumption DEF SignatureOf, Over, Signable
<1>5. PICK n, l, u : /\ Signable(n, l, u) /\ AttestationOf(n, l, u) \in attested
                     /\ SignatureOf(r, k, t) = SignatureOf(n, l, u)
  BY <1>1, <1>3, <1>4 DEF Genuine
<1>6. Over(r, k, t) = Over(n, l, u)
  <2>1. SignatureOf(r, k, t).signature = SignatureOf(n, l, u).signature
    BY <1>5
  <2>2. Sign(SigningKeys[k], Over(r, k, t)) = Sign(SigningKeys[l], Over(n, l, u))
    BY <2>1 DEF SignatureOf
  <2> QED
    BY <2>2 DEF Sign
<1>7. Outbox[r].event = Outbox[n].event /\ SigningKeys[k] = SigningKeys[l] /\ t = u
  BY <1>6 DEF Over, SigningProjection
<1>8. r = n
  BY <1>5, <1>7, TopicAssumption DEF Signable
<1>9. AttestationOf(r, k, t) = AttestationOf(n, l, u)
  <2>1. SignedHeaders(r, k, t) = SignedHeaders(n, l, u)
    BY <1>5, <1>7, <1>8 DEF SignedHeaders
  <2> QED
    BY <1>7, <1>8, <2>1 DEF AttestationOf
<1> QED
  BY <1>5, <1>9

LEMMA OrderStep ==
    ASSUME EventInv, OrderInv, [Next]_vars
    PROVE  OrderInv'
<1>1. LogInv /\ WorkerInv /\ ReceiptInv /\ TrustInv /\ AttestedInv /\ GenuineInv
  BY DEF EventInv, SendInv
<1>2. \A r \in DOMAIN delivered : r \in DOMAIN delivered' /\ delivered'[r] = delivered[r]
  BY <1>1, DeliveredStays
<1>3. Earlier'
  <2> SUFFICES ASSUME NEW a \in attested', NEW i \in DOMAIN Outbox, NEW j \in DOMAIN Outbox,
                      SignedFor(a, j), i < j
               PROVE  i \in DOMAIN delivered
    BY <1>2 DEF Earlier, SignedFor
  <2>1. CASE a \in attested
    BY <2>1 DEF OrderInv, Earlier
  <2>2. CASE a \notin attested
    <3>1. /\ a = AttestationOf(Row, keysUsed, now) /\ Row \in DOMAIN Outbox
          /\ \A n \in DOMAIN Outbox \ DOMAIN delivered : Row <= n
      BY <1>1, <2>2, AttestedReads
    <3>2. Row = j
      BY <3>1, TopicAssumption DEF AttestationOf, SignedFor
    <3> QED
      BY <3>1, <3>2, TopicAssumption
  <2> QED
    BY <2>1, <2>2
<1>4. Placed'
  <2> SUFFICES ASSUME NEW p \in Partitions, NEW o \in DOMAIN log'[p]
               PROVE  p = PartitionOf[log'[p][o].key]
    BY DEF Placed
  <2> QED
    BY <1>1, LogMoves DEF OrderInv, Placed
<1>5. Later'
  <2> SUFFICES ASSUME NEW i \in DOMAIN Outbox, NEW j \in DOMAIN Outbox, i < j,
                      Outbox[i].key = Outbox[j].key,
                      NEW p \in Partitions, NEW o \in DOMAIN log'[p],
                      NEW a \in attested', SignedFor(a, j), a.message = log'[p][o]
               PROVE  delivered'[i].offset < o
    BY DEF Later, SignedFor
  <2>1. CASE o \in DOMAIN log[p] /\ log'[p][o] = log[p][o]
    <3>1. a \in attested
      BY <1>1, <2>1, AttestedReads, NewIsNotThere
    <3>2. i \in DOMAIN delivered /\ delivered[i].offset < o
      BY <2>1, <3>1 DEF OrderInv, Earlier, Later
    <3> QED
      BY <1>2, <3>2
  <2>2. CASE /\ o = Len(log[p]) + 1 /\ p = PartitionOf[log'[p][o].key]
             /\ UNCHANGED <<delivered, attested>>
    <3>1. i \in DOMAIN delivered
      BY <2>2 DEF OrderInv, Earlier
    <3>2. a.message.key = Outbox[j].key
      <4>1. PICK n, k, t : Signable(n, k, t) /\ a = AttestationOf(n, k, t)
        BY <1>1, <2>2 DEF AttestedInv
      <4>2. a.as.eventId = Outbox[n].event /\ a.message.key = Outbox[n].key
        BY <4>1 DEF AttestationOf, Message
      <4>3. n = j
        BY <4>1, <4>2, TopicAssumption DEF Signable, SignedFor
      <4> QED
        BY <4>2, <4>3
    <3>3. p = PartitionOf[Outbox[i].key]
      BY <2>2, <3>2
    <3>4. delivered[i].offset \in 1..stable[p]
      BY <1>1, <3>1, <3>3, ReceiptPlace DEF OrderInv
    <3>5. stable[p] \in 0..Len(log[p]) /\ Len(log[p]) \in Nat
      BY <1>1, SequenceShape DEF LogInv
    <3>6. PICK n : n = delivered[i].offset
      OBVIOUS
    <3>7. n < o
      BY <2>2, <3>4, <3>5, <3>6
    <3> QED
      BY <2>2, <3>6, <3>7
  <2> QED
    BY <1>1, <2>1, <2>2, LogMoves
<1> QED
  BY <1>3, <1>4, <1>5 DEF OrderInv

(* Aggregate order.  Rows sent again, late arrivals, failovers that cut the   *)
(* log and relays that write a record a second time never put a record before *)
(* the first copy of an earlier one of its key.                               *)
THEOREM FirstCopiesInOrder == Spec => []FirstDeliveriesInOrder
<1>1. Init => EventInv /\ OrderInv
  <2>1. ASSUME Init PROVE OrderInv
    <3>1. attested = {} /\ \A p \in Partitions : log[p] = <<>>
      BY <2>1 DEF Init
    <3> QED
      BY <3>1 DEF OrderInv, Earlier, Placed, Later
  <2> QED
    BY <2>1, EventInit
<1>2. EventInv /\ OrderInv /\ [Next]_vars => EventInv' /\ OrderInv'
  BY EventStep, OrderStep
<1>3. EventInv /\ OrderInv => FirstDeliveriesInOrder
  <2> SUFFICES ASSUME EventInv, OrderInv, NEW i \in DOMAIN Outbox, NEW j \in DOMAIN Outbox,
                      i < j, Outbox[i].key = Outbox[j].key,
                      NEW o \in DOMAIN log[PartitionOf[Outbox[i].key]], NEW a \in attested,
                      a.message = log[PartitionOf[Outbox[i].key]][o], SignedFor(a, j)
               PROVE  \E first \in DOMAIN log[PartitionOf[Outbox[i].key]] :
                        /\ \E b \in attested :
                             /\ b.message = log[PartitionOf[Outbox[i].key]][first]
                             /\ SignedFor(b, i)
                        /\ first < o
    BY DEF FirstDeliveriesInOrder, SignedFor
  <2>1. i \in DOMAIN delivered
    BY DEF OrderInv, Earlier
  <2>2. /\ PartitionOf[Outbox[i].key] \in Partitions
        /\ delivered[i].offset \in DOMAIN log[PartitionOf[Outbox[i].key]]
        /\ \E b \in attested :
             /\ SignedFor(b, i)
             /\ b.message = log[PartitionOf[Outbox[i].key]][delivered[i].offset]
    BY <2>1, ReceiptPlace DEF EventInv, SendInv, OrderInv
  <2>3. delivered[i].offset < o
    BY <2>2 DEF OrderInv, Later
  <2> QED
    BY <2>2, <2>3
<1> QED
  BY <1>1, <1>2, <1>3, PTL DEF Spec
=============================================================================

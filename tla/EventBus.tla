------------------------------ MODULE EventBus ------------------------------
(***************************************************************************)
(* warpin-event-bus end to end: an outbox worker that publishes attested    *)
(* records, callers that publish events and batches, one topic of a         *)
(* replicated broker, and a consumer that verifies, deduplicates, commits.  *)
(*                                                                         *)
(* In src/ are the calls and their results, the producer settings, what a   *)
(* record contains and what recv, recv_raw and commit do.  The queue of     *)
(* librdkafka, the broker, the outbox and the inbox are external: they are  *)
(* what lib.rs and attestation.rs say of them.                              *)
(***************************************************************************)
EXTENDS Attestation

CONSTANTS
  Outbox,        \* the durable records in commit order: [tenant, key, event]
  Batch,         \* for each caller of publish or publish_batch, its events: [tenant, key, event]
  Topic,
  PartitionOf,   \* key -> partition, the broker's hash
  QueueCapacity, \* messages the producer's queue holds until they are reported on
  Overrides,     \* the extra_config maps a bus may be created with
  Normal(_),     \* a text without the blanks around it, in lower case
  Producer, SigningKeys,   \* the producer's key ids, oldest first; a key id names its secret
  Validity, MaxSkew,
  Prefetch,      \* records an application takes before it is done with the first
  Garbled,       \* a value that fits no form
  Touched,       \* the headers a relay may change
  MaxTime, MaxFaults, MaxAttempts, MaxRelays

ASSUME BusAssumption ==
  /\ {QueueCapacity, Validity, Prefetch, MaxTime, MaxFaults, MaxAttempts, MaxRelays, MaxSkew}
        \subseteq Nat
  /\ Validity > 0 /\ Prefetch > 0 /\ QueueCapacity > 0

Callers == DOMAIN Batch

\* The rows and the events are sequences, every key has its partition, and a row its own event id.
ASSUME TopicAssumption ==
  /\ Len(Outbox) \in Nat /\ DOMAIN Outbox = 1..Len(Outbox)
  /\ \A i \in DOMAIN Outbox : Outbox[i].key \in DOMAIN PartitionOf
  /\ \A i, j \in DOMAIN Outbox : Outbox[i].event = Outbox[j].event => i = j
  /\ \A c \in Callers : \A i \in DOMAIN Batch[c] : Batch[c][i].key \in DOMAIN PartitionOf

Partitions == {PartitionOf[k] : k \in DOMAIN PartitionOf}
Worker == "outbox worker"

ASSUME WorkerAssumption == Worker \notin Callers

ASSUME SpellingAssumption ==
  \A text \in {"all", "acks", "request.required.acks"} : Normal(text) = text

\* Every key makes a signer; what it writes is a signature, and a garbled value is none.
ASSUME SignerAssumption ==
  /\ Len(SigningKeys) \in Nat \ {0} /\ DOMAIN SigningKeys = 1..Len(SigningKeys)
  /\ \A k \in DOMAIN SigningKeys : NewSigner(Producer, SigningKeys[k], SigningKeys[k]).ok
  /\ ~Fits(Garbled, "signature")
  /\ \A r \in DOMAIN Outbox, k \in DOMAIN SigningKeys, t \in 0..MaxTime :
       [signature |-> Sign(SigningKeys[k],
          SigningProjection(Topic, Outbox[r].tenant, Outbox[r].key, Outbox[r].event, Producer,
                            SigningKeys[k], Outbox[r].event, t, t + Validity))]
         \notin {NULL, Garbled}

VARIABLES
  settings,   \* the producer's configuration
  now,
  keysUsed,   \* how many of SigningKeys the producer has come to; the last one signs
  verifier,
  delivered,  \* the outbox rows marked delivered: a function from rows to receipts
  calls,      \* the sends of each caller's running call, none before, its result after
  queue,      \* messages the producer has not reported on, in order
  wire,       \* requests given up on, or left by a dead producer, that may still arrive
  log,        \* what the leader of each partition holds
  stable,     \* how much of it every replica holds: only that is shown to consumers
  position, committed,  \* of the consumer: how much was delivered, and where a restart begins
  received,   \* handed to the application and not done with: [at: <<partition, offset>>, call]
  passed,     \* places that the application is done with, applied or refused
  early,      \* places that were still in its hands when a commit was made
  inbox,      \* the events the application has applied, as verified
  attested,   \* the records the signer was given, with what it was told of them
  faults, attempts, relays

sending == <<delivered, calls, queue, wire>>
broker == <<log, stable>>
consumer == <<position, committed, received, passed, early, inbox>>
trust == <<now, keysUsed, verifier>>
vars == <<settings, sending, broker, consumer, trust, attested, faults, attempts, relays>>

-----------------------------------------------------------------------------
(* KafkaEventBus::new.                                                      *)

\* Mutant: the other name of acks is not looked at.
UnsafeByName(key, value) ==
  LET setting == Normal(value)
  IN  \/ Normal(key) = "acks" /\ setting \notin {"all", "-1"}
      \/ Normal(key) = "enable.idempotence" /\ setting # "true"
      \/ Normal(key) = "delivery.report.only.error" /\ setting # "false"

UnsafeOverride(key, value) ==
  LET setting == Normal(value)
  IN  \/ Normal(key) \in {"acks", "request.required.acks"} /\ setting \notin {"all", "-1"}
      \/ Normal(key) = "enable.idempotence" /\ setting # "true"
      \/ Normal(key) = "delivery.report.only.error" /\ setting # "false"

ValidateDurableProducerOverrides(o) == \A key \in DOMAIN o : ~UnsafeOverride(key, o[key])

\* The settings a durable receipt rests on, applied after the caller's.
Forced ==
  [property \in {"acks", "enable.idempotence", "max.in.flight.requests.per.connection",
                 "message.send.max.retries", "queuing.strategy", "delivery.report.only.error"} |->
     CASE property = "acks" -> "all"
       [] property = "enable.idempotence" -> "true"
       [] property = "max.in.flight.requests.per.connection" -> "5"
       [] property = "message.send.max.retries" -> "2147483647"
       [] property = "queuing.strategy" -> "fifo"
       [] property = "delivery.report.only.error" -> "false"]

\* External: librdkafka knows three of these properties by a second name, and reads "all"
\* and "-1" alike.
OtherName(property) ==
  CASE property = "acks" -> "request.required.acks"
    [] property = "max.in.flight.requests.per.connection" -> "max.in.flight"
    [] property = "message.send.max.retries" -> "retries"
    [] OTHER -> property
Meaning(value) == IF Normal(value) = "-1" THEN "all" ELSE Normal(value)

\* External: what an idempotent producer may be configured with.
Idempotent(s) ==
  /\ s["max.in.flight.requests.per.connection"] \in {"1", "2", "3", "4", "5"}
  /\ s["message.send.max.retries"] # "0"

\* The entries reach librdkafka in the order of a HashMap, so that either name of a property
\* may have the last word; a name that is not spelt as librdkafka does is refused.
NewBuses(o) ==
  IF \E key \in DOMAIN o : Normal(key) # key THEN {}
  ELSE {s \in {[property \in DOMAIN Forced |->
                  IF OtherName(property) \in last THEN Meaning(o[OtherName(property)])
                  ELSE Forced[property]] : last \in SUBSET (DOMAIN o \ DOMAIN Forced)} :
          Idempotent(s)}

\* EventBusImpl: either such a bus or the no-op one, which has no settings.
NoOp == [key \in {"transport"} |-> "none"]
Connected == settings # NoOp

-----------------------------------------------------------------------------
(* Calls.  publish and publish_durable send one message, publish_batch one  *)
(* for each event that has a tenant; join_all polls its sends for the first *)
(* time in their order.                                                     *)

Message(key, payload, headers) ==
  [topic |-> Topic, key |-> key, payload |-> payload, headers |-> headers]
Unpolled(m) == [message |-> m, state |-> "unpolled"]

\* An event without a tenant is refused before anything is sent; the no-op bus takes it.
Sends(events) ==
  [i \in DOMAIN events |->
     [Unpolled(Message(events[i].key, events[i].event, <<>>))
        EXCEPT !.state = IF Connected /\ events[i].tenant = NULL THEN "failed" ELSE @]]

Publish(c) ==
  /\ calls[c] = <<>>
  /\ calls' = [calls EXCEPT ![c] = Sends(Batch[c])]
  /\ UNCHANGED <<settings, delivered, queue, wire, broker, consumer, trust, attested, faults,
                 attempts, relays>>

\* The outbox worker takes the first row that is not delivered, signs its record for now
\* and publishes it; a record that does not validate is never sent.
Row == CHOOSE i \in DOMAIN Outbox \ DOMAIN delivered :
         \A j \in DOMAIN Outbox \ DOMAIN delivered : i <= j
Signer == NewSigner(Producer, SigningKeys[keysUsed], SigningKeys[keysUsed]).value

PublishDurable ==
  /\ calls[Worker] = <<>>
  /\ DOMAIN delivered # DOMAIN Outbox
  /\ attempts < MaxAttempts
  /\ LET row == Outbox[Row]
         record == NewRecord(Topic, row.tenant, row.key, row.event)
         signed == Attest(Signer, record.value, row.event, now, now + Validity)
             m == Message(row.key, row.event, signed.value.headers)
     IN  /\ record.ok /\ signed.ok
         /\ calls' = [calls EXCEPT ![Worker] = <<Unpolled(m)>>]
         /\ attested' = attested \cup
              {[message |-> m,
                as |-> [producer |-> Producer, keyId |-> Signer.keyId, eventId |-> row.event,
                        tenant |-> row.tenant, issued |-> now, expires |-> now + Validity]]}
  /\ attempts' = attempts + 1
  /\ UNCHANGED <<settings, delivered, queue, wire, broker, consumer, trust, faults, relays>>

Sending(c, i) == i \in DOMAIN calls[c]
SetState(c, i, s) == calls' = [calls EXCEPT ![c][i].state = s]

\* FutureProducer::send tries at once; a full queue makes it try again a little later.
MayPoll(c, i) ==
  /\ Sending(c, i)
  /\ \/ calls[c][i].state = "unpolled" /\ \A j \in 1..(i - 1) : calls[c][j].state # "unpolled"
     \/ calls[c][i].state = "waiting"
     
\* NoOpEventBus: an event is dropped with success, a durable record is refused, for an outbox
\* must not be told that nothing was delivered.
NoOpSend(c, i) ==
  /\ ~Connected
  /\ MayPoll(c, i)
  /\ SetState(c, i, IF c = Worker THEN "failed" ELSE "dropped")
  /\ UNCHANGED <<settings, delivered, queue, wire, broker, consumer, trust, attested, faults,
                 attempts, relays>>

Enqueue(c, i) ==
  /\ Connected
  /\ MayPoll(c, i)
  /\ Len(queue) < QueueCapacity
  /\ queue' = Append(queue, [caller |-> c, index |-> i, message |-> calls[c][i].message,
                             offset |-> 0])
  /\ SetState(c, i, "queued")
  /\ UNCHANGED <<settings, delivered, wire, broker, consumer, trust, attested, faults,
                 attempts, relays>>

QueueFull(c, i) ==
  /\ Connected
  /\ MayPoll(c, i)
  /\ calls[c][i].state = "unpolled"
  /\ Len(queue) >= QueueCapacity
  /\ SetState(c, i, "waiting")
  /\ UNCHANGED <<settings, delivered, queue, wire, broker, consumer, trust, attested, faults,
                 attempts, relays>>

QueueTimeout(c, i) ==
  /\ Sending(c, i)
  /\ calls[c][i].state = "waiting"
  /\ SetState(c, i, "failed")
  /\ UNCHANGED <<settings, delivered, queue, wire, broker, consumer, trust, attested, faults,
                 attempts, relays>>

\* A call returns when every send is decided; the worker then marks its row with the receipt,
\* or leaves it for another attempt.
Decided(sends) == \A i \in DOMAIN sends : sends[i].state \in {"ok", "failed", "dropped"}

\* Mutant: a failed publish is taken for one that will arrive.
MarkSent ==
  /\ calls[Worker] # <<>> /\ Decided(calls[Worker])
  /\ delivered' = [i \in DOMAIN delivered \cup {Row} |->
                     IF i = Row THEN [partition |-> 0, offset |-> 0] ELSE delivered[i]]
  /\ calls' = [calls EXCEPT ![Worker] = <<>>]
  /\ UNCHANGED <<settings, queue, wire, broker, consumer, trust, attested, faults, attempts,
                 relays>>

MarkDelivered ==
  /\ calls[Worker] # <<>> /\ Decided(calls[Worker])
  /\ delivered' = IF calls[Worker][1].state = "ok"
                  THEN [i \in DOMAIN delivered \cup {Row} |->
                          IF i = Row THEN calls[Worker][1].receipt ELSE delivered[i]]
                  ELSE delivered
  /\ calls' = [calls EXCEPT ![Worker] = <<>>]
  /\ UNCHANGED <<settings, queue, wire, broker, consumer, trust, attested, faults, attempts,
                 relays>>

-----------------------------------------------------------------------------
(* External: librdkafka's producer and the broker.                          *)

At(q) == PartitionOf[q.message.key]

\* Per partition the idempotent producer stores in order, each message once.
Store(i) ==
  /\ queue[i].offset = 0
  /\ \A j \in 1..(i - 1) : At(queue[j]) = At(queue[i]) => queue[j].offset # 0
  /\ log' = [log EXCEPT ![At(queue[i])] = Append(@, queue[i].message)]
  /\ queue' = [queue EXCEPT ![i].offset = Len(log'[At(queue[i])])]
  /\ UNCHANGED <<settings, delivered, calls, wire, stable, consumer, trust, attested, faults,
                 attempts, relays>>

Replicate(p) ==
  /\ stable[p] < Len(log[p])
  /\ stable' = [stable EXCEPT ![p] = @ + 1]
  /\ UNCHANGED <<settings, sending, log, consumer, trust, attested, faults, attempts, relays>>

\* The delivery report: with acks = all only when every replica has the message.
Report(i) ==
  LET q == queue[i]
  IN  /\ q.offset # 0
      /\ settings["acks"] = "all" => q.offset <= stable[At(q)]
      /\ calls' = [calls EXCEPT ![q.caller][q.index] =
                     [message |-> q.message, state |-> "ok",
                      receipt |-> [partition |-> At(q), offset |-> q.offset]]]
      /\ queue' = RemoveAt(queue, i)
      /\ UNCHANGED <<settings, delivered, wire, broker, consumer, trust, attested, faults,
                     attempts, relays>>

\* message.timeout.ms: the message may be stored, on its way, or never have been sent.
MessageTimeout(i) ==
  LET q == queue[i]
  IN  /\ faults < MaxFaults
      /\ faults' = faults + 1
      /\ calls' = [calls EXCEPT ![q.caller][q.index].state = "failed"]
      /\ queue' = RemoveAt(queue, i)
      /\ wire' \in {wire, IF q.offset = 0 THEN wire \cup {q.message} ELSE wire}
      /\ UNCHANGED <<settings, delivered, broker, consumer, trust, attested, attempts, relays>>

\* The producing process dies and starts again; the outbox is durable.
ProducerCrash ==
  /\ faults < MaxFaults
  /\ faults' = faults + 1
  /\ calls' = [c \in DOMAIN calls |-> <<>>]
  /\ queue' = <<>>
  /\ wire' \in {wire, wire \cup {queue[i].message : i \in {j \in DOMAIN queue :
                                                             queue[j].offset = 0}}}
  /\ UNCHANGED <<settings, delivered, broker, consumer, trust, attested, attempts, relays>>

LateArrival(m) ==
  /\ wire' = wire \ {m}
  /\ log' = [log EXCEPT ![PartitionOf[m.key]] = Append(@, m)]
  /\ UNCHANGED <<settings, delivered, calls, queue, stable, consumer, trust, attested, faults,
                 attempts, relays>>

\* Another replica leads: what was not replicated everywhere is gone, and the producer
\* sends again what it has not reported on.
Failover(p) ==
  /\ faults < MaxFaults
  /\ faults' = faults + 1
  /\ log' = [log EXCEPT ![p] = SubSeq(@, 1, stable[p])]
  /\ queue' = [i \in DOMAIN queue |->
                 IF At(queue[i]) = p /\ queue[i].offset > stable[p]
                 THEN [queue[i] EXCEPT !.offset = 0] ELSE queue[i]]
  /\ UNCHANGED <<settings, delivered, calls, wire, stable, consumer, trust, attested, attempts,
                 relays>>

\* A service between topics writes a record again, with something changed on the way.
Rewritten(m) ==
  LET touched == {i \in DOMAIN m.headers : m.headers[i].name.text \in Touched}
      times == {i \in touched : m.headers[i].name.text = "expires-at"}
  IN  {[m EXCEPT !.payload = Outbox[i].event] : i \in DOMAIN Outbox}
      \cup {[m EXCEPT !.headers = RemoveAt(@, i)] : i \in touched}
      \cup {[m EXCEPT !.headers = Append(@, m.headers[i])] : i \in touched}
      \cup {[m EXCEPT !.headers[i].name.lower = FALSE] : i \in touched}
      \cup {[m EXCEPT !.headers[i].value = v] : i \in touched, v \in {NULL, Garbled}}
      \cup {[m EXCEPT !.headers[i].value.time = @ + 1] : i \in times}

Relay(p, o) ==
  /\ relays + faults < MaxRelays
  /\ o <= stable[p]
  /\ log[p][o].headers # <<>>
  /\ \E m \in Rewritten(log[p][o]) : log' = [log EXCEPT ![PartitionOf[m.key]] = Append(@, m)]
  /\ relays' = relays + 1
  /\ UNCHANGED <<settings, sending, stable, consumer, trust, attested, faults, attempts>>

-----------------------------------------------------------------------------
(* Keys and time.                                                           *)

Tick ==
  /\ now < MaxTime
  /\ now' = now + 1
  /\ UNCHANGED <<settings, sending, broker, consumer, keysUsed, verifier, attested, faults,
                 attempts, relays>>

\* The producer starts to sign with its next key.
Rotate ==
  /\ keysUsed < Len(SigningKeys)
  /\ keysUsed' = keysUsed + 1
  /\ UNCHANGED <<settings, sending, broker, consumer, now, verifier, attested, faults,
                 attempts, relays>>

\* The consumer is given a key, or another one under an id that it already has.
InsertKey(id, public) ==
  /\ public = id \/ <<Producer, id>> \in DOMAIN verifier.keys
  /\ InsertVerifyingKey(verifier, Producer, id, public).ok
  /\ verifier' = InsertVerifyingKey(verifier, Producer, id, public).value
  /\ UNCHANGED <<settings, sending, broker, consumer, now, keysUsed, attested, faults,
                 attempts, relays>>

-----------------------------------------------------------------------------
(* The consumer.                                                            *)

\* recv hands over texts only: no headers, and what is not UTF-8 is left out.
ConsumedMessage(m) ==
  [topic |-> m.topic, headers |-> <<>>,
   key |-> IF Fits(m.key, "utf-8") THEN m.key ELSE NULL,
   payload |-> IF Fits(m.payload, "utf-8") THEN m.payload ELSE ""]

\* recv_raw hands the record over byte for byte.
Handed(r) ==
  LET m == log[r.at[1]][r.at[2]] IN IF r.call = "recv" THEN ConsumedMessage(m) ELSE m

\* recv and recv_raw: the next record of a partition.
Receive(p) ==
  /\ Len(received) < Prefetch
  /\ position[p] < stable[p]
  /\ position' = [position EXCEPT ![p] = @ + 1]
  /\ \E call \in {"recv", "recv_raw"} :
       received' = Append(received, [at |-> <<p, position'[p]>>, call |-> call])
  /\ UNCHANGED <<settings, sending, broker, committed, passed, early, inbox, trust, attested,
                 faults, attempts, relays>>

\* The application's transaction: a plain event is applied, a durable record only when it
\* verifies; an event that is in the inbox is not applied again.
Process ==
  /\ received # <<>>
  /\ LET m == Handed(Head(received))
         verdict == Verify(verifier, m, now)
         new == verdict.ok /\ \A e \in inbox : e.as.eventId # verdict.value.eventId
     IN  inbox' = IF m.headers # <<>> /\ new
                  THEN inbox \cup {[as |-> verdict.value, message |-> m, at |-> now]}
                  ELSE inbox
  /\ passed' = passed \cup {Head(received).at}
  /\ received' = Tail(received)
  /\ UNCHANGED <<settings, sending, broker, position, committed, early, trust, attested,
                 faults, attempts, relays>>

InHand == {received[i].at : i \in DOMAIN received}

\* Mutant: commits what has been fetched, not what has been handed over.
CommitFetched ==
  /\ committed # stable
  /\ committed' = stable
  /\ early' = early \cup InHand
  /\ UNCHANGED <<settings, sending, broker, position, received, passed, inbox, trust, attested,
                 faults, attempts, relays>>

\* commit, or librdkafka's timer where enable.auto.commit is left on: the whole position of
\* the consumer, whatever the application is done with.
Commit ==
  /\ committed # position
  /\ committed' = position
  /\ early' = early \cup InHand
  /\ UNCHANGED <<settings, sending, broker, position, received, passed, inbox, trust, attested,
                 faults, attempts, relays>>

ConsumerCrash ==
  /\ faults < MaxFaults
  /\ faults' = faults + 1
  /\ position' = committed
  /\ received' = <<>>
  /\ UNCHANGED <<settings, sending, broker, committed, passed, early, inbox, trust, attested,
                 attempts, relays>>

-----------------------------------------------------------------------------
Init ==
  /\ \/ \E o \in Overrides : ValidateDurableProducerOverrides(o) /\ settings \in NewBuses(o)
     \/ settings = NoOp
  /\ now = 0 /\ keysUsed = 1
  /\ verifier = NewVerifier(Validity, MaxSkew).value
  /\ delivered = <<>>
  /\ calls = [c \in Callers \cup {Worker} |-> <<>>]
  /\ queue = <<>> /\ wire = {}
  /\ log = [p \in Partitions |-> <<>>]
  /\ stable = [p \in Partitions |-> 0]
  /\ position = stable /\ committed = stable
  /\ received = <<>> /\ passed = {} /\ early = {} /\ inbox = {}
  /\ attested = {}
  /\ faults = 0 /\ attempts = 0 /\ relays = 0

Next ==
  \/ \E c \in Callers : Publish(c)
  \/ PublishDurable \/ MarkDelivered
  \/ \E c \in DOMAIN calls : \E i \in 1..3 : 
       Enqueue(c, i) \/ QueueFull(c, i) \/ QueueTimeout(c, i) \/ NoOpSend(c, i)
  \/ \E i \in DOMAIN queue : Store(i) \/ Report(i) \/ MessageTimeout(i)
  \/ \E p \in Partitions : Replicate(p) \/ Failover(p) \/ Receive(p)
                           \/ \E o \in DOMAIN log[p] : Relay(p, o)
  \/ \E m \in wire : LateArrival(m)
  \/ ProducerCrash \/ Tick \/ Rotate
  \/ \E i, j \in DOMAIN SigningKeys : InsertKey(SigningKeys[i], SigningKeys[j])
  \/ Process \/ Commit \/ ConsumerCrash

Spec == Init /\ [][Next]_vars

-----------------------------------------------------------------------------
(* Properties.                                                              *)

Holds(p, o, m) == o <= stable[p] /\ log[p][o] = m

\* A DurableDeliveryReceipt is an outbox commit boundary (KafkaEventBus::new): what was
\* acknowledged to publish, publish_batch or publish_durable is at that place of the topic
\* on every replica, and stays there through the loss of the leader; a row of the outbox is
\* marked delivered only with such a receipt.
ReceiptsAreDurable ==
  /\ \A c \in DOMAIN calls : \A i \in DOMAIN calls[c] :
       calls[c][i].state = "ok" =>
         Holds(calls[c][i].receipt.partition, calls[c][i].receipt.offset, calls[c][i].message)
  /\ \A r \in DOMAIN delivered :
       \E a \in attested : /\ a.as.eventId = Outbox[r].event
                           /\ Holds(delivered[r].partition, delivered[r].offset, a.message)

\* Aggregate ordering of the outbox (DurableEventRecord): however often records are sent
\* again, lost or late, the first copy of a record comes after the first copy of every
\* earlier record of its key.
FirstDeliveriesInOrder ==
  \A i, j \in DOMAIN Outbox : i < j /\ Outbox[i].key = Outbox[j].key =>
    LET p == PartitionOf[Outbox[i].key]
        copies(k) == {o \in DOMAIN log[p] : \E a \in attested :
                        a.message = log[p][o] /\ a.as.eventId = Outbox[k].event}
    IN  \A o \in copies(j) : \E first \in copies(i) : first < o

\* commit and the timer store the position of the consumer, not what the application is done
\* with: over any number of crashes and deliveries again, a restart skips no record but those
\* that the application had in its hands when a commit was made.
CommittedWerePassed ==
  \A p \in Partitions : \A o \in 1..committed[p] : <<p, o>> \in passed \cup early

\* What an application gets that commits only between two records, as recv_raw asks of it.
CommitsBetweenRecords == [][committed' # committed => received = <<>>]_vars
NothingIsSkipped == \A p \in Partitions : \A o \in 1..committed[p] : <<p, o>> \in passed

\* VerifiedProducerAttestation: an event is applied at most once, and only as what a producer
\* signed, with that key and payload and inside the window it was signed for; and "clock-policy
\* errors such as an expired attestation are returned only after a valid signature
\* authenticates the timestamps" (attestation.rs), whatever was done to a record on its way.
JudgedAsSigned ==
  /\ \A e \in inbox :
       /\ \A f \in inbox : f.as.eventId = e.as.eventId => f = e
       /\ \E a \in attested :
            /\ a.as = e.as
            /\ a.message.key = e.message.key /\ a.message.payload = e.message.payload
            /\ a.as.issued <= e.at + MaxSkew /\ e.at < a.as.expires
  /\ received # <<>> =>
       LET m == Handed(Head(received))
           verdict == Verify(verifier, m, now)
           h(text) == RequiredHeader(m.headers, text)
       IN  ~verdict.ok /\ verdict.error \in ClockErrors =>
             \E a \in attested : /\ a.message.payload = m.payload
                                /\ a.as.issued = h("issued-at").time
                                /\ a.as.expires = h("expires-at").time

=============================================================================

# warpin-rs-common in TLA+

`warpin-rs-common` is a workspace of Rust libraries that other services of the
platform link against: a fixed-capacity workspace allocator, an event bus with
producer attestation, verified object storage, field clients (MQTT, Modbus),
transports, an HTTP stack, a DingTalk client, a database runtime and an audit
sink.  This directory holds its formal models: TLA+ modules translated from the
Rust sources, the TLC configurations that check them on small instances, and
theorems about them that the TLA+ proof system checks for every instance.

Contents: 1 inventory · 2 what is modelled, module by module · 3 the runs ·
4 the proofs · 5 what is only model-checked, what is not modelled · 6 plan.

## 1. Inventory

| component (crate) | state it keeps | operations | what is hard | what makes it correct |
|---|---|---|---|---|
| allocation ledger (`warpin-workspace/src/ledger.rs`) | pool row, bound authority, one record per allocation, in PostgreSQL | `bind_pool_authority`, `reserve`, `provisioned`, `seal_inputs`, `begin_launch`, `bind_execution`, `retain`, `quiescent`, `release` | replays, any order of callers, the edge of the capacity | capacity is accounted exactly; evidence only grows; nothing starts on unsealed inputs; an uncertain launch keeps its capacity |
| allocation manager (`warpin-workspace/src/linux`) | ownership and retirement files, image files, loop devices, mounts, flocks, namespaces | `provision`, `seal_inputs`, `begin_launch`, `bind_execution`, `retain`, `release_unstarted`, `quiescent_release`, `recover_and_release`, `capture_namespace` | detached operations that outlive their callers, management utilities that outlive the process, crashes between any two steps, reboots, two hosts on one ledger | decisions are taken on the current row under the lock; storage in use is never taken away; capacity comes back only when the storage is gone; retirement is for ever |
| schema and roles (`warpin-workspace/src/schema*`) | catalogue objects and grants | install, verify | a partial installation | installation is one transaction |
| event bus (`warpin-event-bus/src/lib.rs`, `raw.rs`) | producer queue, topic log, consumer position and committed offset | `publish`, `publish_durable`, `publish_batch`, `recv`, `commit`, `ensure_topics` | lost acknowledgements, redelivery, concurrent batch sends, commit of a position that is ahead of the processing | a durable receipt means the event is in the log; per key order where it is promised; what was committed was delivered |
| producer attestation (`attestation.rs`) | verifier's keys | insert key, sign, verify | rotation while old signatures are in flight, order of the checks | only a configured key passes, for what it signed, inside the window it signed; the clock is asked after the signature |
| object storage (`warpin-object-storage/src/storage.rs`) | objects and versions in a bucket | `put_immutable`, `read_verified`, `delete_verified` | a put whose answer is lost, a foreign object under the key, deletion without versions, an encryption policy that only the answer can confirm | an object never changes once put; a replay is told from a collision; what a receipt attests is true |
| chunked objects (`streaming.rs`) | upload journal, chunks, pages, root | `put_chunked`, `open_chunked`, `next_chunk` | death between parts, partial pages, tampered parts | the root exists only when every part does; a reader returns exactly the uploaded bytes or fails |
| S3 adapter (`s3_adapter*`) | settings, credentials | options to settings, put and get through an observer, exact delete | the options are read twice, by the adapter and by the client | settings that are accepted work; evidence is taken only from the response to this request |
| MQTT client (`warpin-mqtt`) | session state, generation, reconnect count, driver | `poll`, `try_publish`, `try_subscribe`, `acknowledge`, `close`, `abort` | cancelled polls, reconnects, acknowledgements of an older connection | an acknowledgement reaches the connection its publish came from, once; a client reconnects within its budget or fails |
| Modbus client (`warpin-modbus`) | the context, or nothing once poisoned | reads, writes, `close` | cancelled or timed-out calls with a late answer | an answer is never taken for another request's |
| transports (`warpin-transport`) | per-direction busy flags, buffers, listener permits | connect, accept, `read_chunk`, `read_frame`, `write_frame`, `close` | cancellation inside a frame | a cut stream is never read or written again |
| HTTP (`warpin-http`) | in-flight permits, response budgets | `request`, `chunk` | outcome unknown after a lost answer | in-flight and size limits hold |
| DingTalk client (`warpin-dingtalk`) | cached token, refresh in flight | `access_token`, requests | callers that time out, a refresh task that panics, a poisoned lock | one refresh at a time, nobody hangs, no expired token is handed out |
| database runtime (`warpin-storage`) | pool, schema of the tables | bootstrap, schema synchronisation, transactions | two services start at once | who reports Connected has the tables and columns of its plan |
| audit layer and sink (`warpin-observability`) | bounded channel, current batch | send, flush, shutdown | full channel, failing sink, shutdown | every captured event is sent once, in order and redacted where there is a policy, or known to be lost |
| integrity (`warpin-integrity`) | none | canonical JSON, object tables | boundaries of encodings | decode(encode(x)) = x, canonical forms are unique |
| exact metering (`warpin-types`) | none | rate reduction, settlement | 64-bit overflow, rounding | settlement equals the exact quotient, rounded as asked |
| authentication, capability, config, context, errors, grpc | none | stateless checks, data types | - | - |

How they interact.  The allocation manager is the only client of the ledger
and calls it between its physical steps; a trusted launcher outside this
repository starts processes after `begin_launch` and hands their init process
back to `capture_namespace`.  The attestation envelope is carried in an event
bus payload.  Chunked objects are built from `put_immutable` and
`read_verified` of the object storage.  The other crates do not call each
other; services compose them.

The hazards, each at its line with the properties aimed at it, are listed in
`PROJECT.json`.

## 2. What is modelled

### AllocationLedger: the durable state

`rec`, `used`, `authority` are the three tables, `expired` the clock.  Every
transaction `X` of `PostgresAllocationLedger` is one action, because all of them
hold the pool row `FOR UPDATE` from `lock_pool` to the commit; `CanX` is the
conjunction of its `ensure!`s.  A refused transaction changes nothing, so it has
no step of its own.  `LockPool` is the accounting check that every transaction
starts with.  A record is its phase, receipt, seal and binding.  Digests,
request bodies and identities that are only compared are abstracted to the
allocation (or namespace, boot) that determines them.  `LedgerNext` lets every
caller call everything in any order, which is more than the manager does.

### WorkspaceManager: operations, locks, disk, processes

An element of `Ops` is a permit of a manager's `SettlementDomain`; an operation
holds it from the request until its detached task ends.

| code | model |
|---|---|
| `SettlementDomain::execute`, callers that go away | `Request`, `RequestOnNamespace`: the operation goes on whoever waits for it |
| `lock_record`: read, flock, ownership file, read again | `ReadBefore`, `AcquireLock`, `CreateOwnership`, `WriteOwnership`, `Reread` |
| `provision_locked` | `CreateImage`, `SizeImage`, `RebuildImage`, `KeepImage`, the stages format, attach, mount, chown, `RoleProvided` |
| `seal_inputs_locked`, `teardown_locked` | the stages seal, umount, detach; `CreateMarker`, `WriteMarker`, `CheckMarker`, `DismantleRole`, `RemoveImage` |
| `command_with_timeout` and its guardian process | `RunHelper`, `HelperSucceeds`, `HelperFails`, and after a crash `OrphanEnds` |
| ledger transactions called by the manager | `BindPool`, `ReserveCapacity`, `RecordX` |
| an `ensure!` or `?` that fails | `Reject`: the operation ends and drops its lock |
| kill, I/O error, database error | `Crash` |
| host restart | `Reboot`: mounts, loop devices, processes and locks go, files stay, the boot id is new |
| launcher (external) | `Launch`, with at most one process per answered `begin_launch`; the answer may be lost |
| pidfd capture, death of init | `CaptureNamespace`, `NamespaceDies` |

Decisions that deserve a word:

* The re-read of the row and the entry checks of the operation are one step
  (`Reread`): nothing between them changes state, and from the re-read on the
  lock keeps every other operation of this allocation away.  That this is so is
  checked (`DecisionsAreCurrent`), not assumed.  Authority check and read before
  the lock are one step for the same reason: that copy is used only for
  "was it RESERVED".
* A volume is a state machine of its image: `absent`, `unsized` (created, no
  length yet), `raw`, `formatted`, `attached`, `mounted` (root owns it), `ready`
  (handed to the task's uid), `sealed`.  `set_permissions` after `chown` is part
  of the chown stage: both unfinished states are repaired by the same code.
* A utility is under way between `RunHelper` and its end.  When its operation
  dies, the lock passes to the guardian, which inherited the descriptor, and is
  free only when the utility is over; what the utility did by then is either
  nothing or all of its effect.
* `losetup --detach` succeeds on a busy device and only marks it for
  autoclear; the model leaves such a volume attached, and the readback in front
  of the removal decides (`LoopsGone`).
* The retirement marker stops provisioning, not sealing or launching.  The model
  has the same hole, and the properties hold in spite of it.
* A transaction whose commit outcome the client does not learn is either
  committed or not; the operation ends in both cases and its successor reads the
  row `FOR UPDATE`, behind any commit still under way.
* Read-only utilities (`losetup --list`, `dumpe2fs`) and `verified_paths` change
  nothing and are not steps.

### WorkspaceLease: the promise

The abstract specification: leases of a bounded pool; storage exists and is used
only under a lease; a lease is returned at most once, when its storage is gone
and nobody uses it.  The pool has one `keeper`, a boot of a host: before it opens
the pool and after it is gone for ever, nothing is acquired, built, used,
destroyed or returned, so that a release on a guess after a reboot has no step
here.  `WorkspaceManager` implements it (`ImplementsLease`) with
`lease` read off the phase, `storage` off the images on all hosts, `users` off
the live processes, `keeper` off the bound authority and the boots of the hosts.

### TokenRefresh: one refresh at a time (`warpin-dingtalk/src/lib.rs`)

A caller of `access_token` finds a live token, joins the refresh in flight or
starts one.  The refresh is a worker task with a supervisor that outlives every
caller; it is `Open` until `complete` has published its outcome.

| code | model |
|---|---|
| `TokenRefreshCoordinator::acquire` | `AnswerCached`, `JoinRefresh`, `StartRefresh`: one lock section each |
| worker and supervisor, a panic included | `Issue` (the provider), `Receive`, `Fail`, `Complete` |
| the caller's own deadline | `GiveUp`: the refresh goes on |
| `TokenRefreshOperation::wait` | `Wake`, `Return` |

Time is a counter.  The provider counts the life of a token from `Issue`, the
client from `Receive`; `Timeout <= Margin` is `MAX_TRANSPORT_TIMEOUT` against
the safety margin, both 120 s.  Mutex poisoning is left out: nothing in the two
lock sections can panic.

### MqttSession: generations and the reconnect budget (`warpin-mqtt/src/lib.rs`)

`poll` borrows the client, so calls are sequential and the interleaving is
between calls, connections and a network that may do anything: `ConnAck`,
`Incoming`, `Outgoing`, `PollError`, `PollTimeout`, `PollCancelled` are the ways a
poll ends.  `Enqueue` stands for publish, subscribe and unsubscribe, `Acknowledge`
for an answer to an event the application has kept (`Forget` drops one).
`Close` drains through `Drain` until `Closed`; `Abort` does not.  The event loop of
rumqttc, with its queue, is external.

### ImmutableObjects and ChunkedObjects: uploads that die, retirement that wins

`ImmutableObjects` is one bucket with the clients of `VerifiedObjectStorage`.  A
request is put on a wire and takes effect when it arrives, possibly after its
caller was dropped; a put whose answer is lost is sent again (`Resend`) and then
meets its own object.  `ChunkedObjects` adds the uploads of one logical key, the
readers, and the application's retirement workers, which are not in this
repository and follow section "Bounded streaming" of the crate's README.

| code | model |
|---|---|
| `put_immutable`: put, then verified readback | `StartPut`, `ArrivePut`, `Resend`, `Readback` |
| `delete_verified`: read, delete | `StartDelete`, `Look`, `LookAgain`, `ArriveDelete` |
| cancelled or failing call | `Drop`: what was sent may still arrive |
| `put_chunked`, one `write_chunk_part` after the other | `Begin`; per part `Intend` (`before_write`), `PutPart`, `Outcome` (`after_write`) |
| an error, crash or cancellation anywhere in an upload | `Fail`; the retry is another uploader |
| `open_chunked`, `next_chunk` | `Open`, `LoadPage`, `ReadChunk`, `Finish`, `ReadFails` |
| retirement (external) | `Unlink` the known root, `Mark` the root key, `Fenced`, then `Sweep` what the journal knows |

Decisions that deserve a word:

* Content stands for its digest, so a part is its own key (`PartKey`).  A `tag` is
  the version, or the ETag where there are no versions.
* The journal is durable when `before_write` or `after_write` returns; an upload
  may also die between the durable receipt and the return (`Fail` adds it).
* Reading a chunk verifies it completely, therefore a read is one step: either
  the very object the pointer names or a failure.  A cancelled `next_chunk`
  changes nothing but a loaded page.
* Workers retire the key without checking on each other.  On a store without
  versions two of them could race (one verified a root, the other marks the key,
  the delete of the first removes the marker).  The crate's README excludes
  delete-then-recreate there, so the theorems about the fence assume `Versioned`.

### Attestation and EventBus: from the outbox to the inbox (`warpin-event-bus`)

`Attestation` is the pure part: what a durable record and its header may be, the
projection a signer signs, and `Verify`, a sequence of checks of which the first
that fails gives the error (`Outcome`).  `EventBus` puts it to use: an outbox
worker that publishes attested records, callers of `publish` and
`publish_batch`, one replicated topic, a consumer with an inbox.

| code | model |
|---|---|
| `KafkaEventBus::new`: forced and refused settings | `ValidateDurableProducerOverrides`, `UnsafeOverride` with both names of a property, `Forced`, and `NewBuses`: what librdkafka may make of them |
| `publish`, `publish_batch` (join_all) | `Publish`, one send per scoped event, polled in order, then in any order; `<<>>` is no call, and an event without a scope fails only on a bus that is connected (the no-op bus takes it) |
| `publish_durable` by the outbox worker | `PublishDurable`, `MarkDelivered` on its receipt |
| FutureProducer: queue, delivery report, timeouts | `Enqueue`, `QueueFull`, `QueueTimeout`, `Report`, `MessageTimeout` |
| broker (external) | `Store`, `Replicate`, `Failover`, `LateArrival` |
| `recv`, `recv_raw` | `Receive`; what the caller gets is `Handed`: of `recv` a text without headers (`ConsumedMessage`), of `recv_raw` the record |
| `commit`, and the timer of `enable.auto.commit` | `Commit`: the whole position, at any time |
| the application (external) | `Process`: verify, then the inbox transaction |
| processes that die | `ProducerCrash`, `ConsumerCrash` |
| key rotation, a service that writes records on | `Rotate`, `InsertKey`, `Relay` |

A message of a dead or impatient producer may still arrive; what the leader has
and no replica is lost with it; consumers see only what every replica has.  A
signature is the pair of secret and projection, a text is a value with a length
and the forms it fits.  `ensure_topics` runs before all this and is left out.

* Overrides are judged by their trimmed, lower-case text, but librdkafka is given
  the name as it was written.  A name it does not know so makes no bus.  Of the two
  names `acks` and `request.required.acks`, both of which it knows, either may have
  the last word, since the settings are kept in a hash map.
* `recv` documents an `Err` for what cannot be deserialized; the code leaves out a
  key that is not UTF-8 and makes an empty payload of such a payload.  The model
  does what the code does.
* `enable_auto_commit` is on by default, and `commit` asks nothing of the caller, so
  a commit may pass records that the application still has in its hands.  `early`
  remembers which; `CommittedWerePassed` says that no others are ever skipped, and
  the theorem `CarefulCommitsSkipNothing` what an application gets that commits
  between its records.

### CanonicalJson, TypedCapture, ObjectTable (`warpin-integrity`)

`CanonicalJson` is `json.rs` and `limits.rs` as operators on texts that are
sequences of tokens with a width: the parser with its byte, node and depth
budgets in the order it spends them, the number rules of both profiles at the
width of `MantissaBits` and `SafeDigits`, and the canonical text.  The item
budget of a collection is there and never decides, since items are nodes less
one.  `TypedCapture` is a state machine, because the caller is: any `Serialize`
implementation drives the capture serializer call by call, ignores errors,
announces wrong lengths, leaves frames open.  `ObjectTable` is the encoder with
its passes and the strict decoder, both formats.  What is canonicalised is charged
in bytes to the work of one encoder (`MAX_WORK_BYTES`), across its passes; the strict
consumer that checks the result has a work of its own.  At the limit of 100,000
nodes `unprofitable` counts the bodies of the table and the references into them, so
that a source with that many nodes and shared rows is refused although its document
would be accepted, and a deep source around a long text exhausts the work within all
other limits.  `EncodesLosslessly` therefore claims success for half of the nodes and
of the depth, where the passes over the source are within the work (`Affordable`).

### ExactMetering (`warpin-types/src/exact_metering.rs`)

Rates, settlement with its three roundings and the wire form as operators;
`MaxAmount` is the largest 64-bit number, products are exact as in 128 bits.
`MeteringAssumption`: it is a positive number of at most twenty digits.  Euclid's
algorithm, the powers of ten and the value of a digit string are recursive
functions.

### Transport (`warpin-transport`) and ModbusClient (`warpin-modbus`)

`Transport` is one framed connection: the three decoders (length prefixes of 1, 2,
4 or 8 bytes, both byte orders), `read_frame`, `read_chunk` and `write_frame` in
the steps their awaits allow, `Cancel` at any of them, TLS upgrade, close, and the
listener that accepts it with its permits and its other connections.
`ModbusClient` is a client with its context (`open`, `taken`, `none`), the wire to
a device that answers late, to a question asked before, garbled or not at all, and
the frames of TCP, which carry a transaction number, and of RTU, which do not.  A
call is taken off the context before its await and puts it back only after a
complete exchange; that is what `TimeOut`, `CancelCall` and `TransportFails` do
not do.

### AuditPipeline (`warpin-observability`)

Spans and events of the layer with the context they inherit, the bounded channel,
the worker with its batch, timer, failed emissions and end, the redaction of a
payload where the sink is given a policy.  A payload is its scalars by their
paths, so that a blocked name is the last string of a path; a span inherits from
the nearest one above that names a field, which the model finds by a walk over the
spans (`FirstUp`), without recursion.  `layer/mod.rs` counts what a full channel
drops.  The documentation of the redaction speaks of a SHA-256 marker and of
characters; the code writes FNV-1a and counts bytes, and the model follows the
code.

### SchemaSync (`warpin-storage`)

Services boot against one database, check its health and run their plan
statement by statement, without a lock: `TableExists`, `CreateTable`,
`GetExistingColumns`, `AddColumn`, each of which may fail, and
the runtime reports `Connected` or `Degraded`.  `is_ready` stays true when the
synchronisation failed; only the state tells.

### ManagedWrites (`warpin-object-storage`: contract, storage, S3 adapter)

A write from the settings to the attested receipt.  `from_settings` judges the
options (`FromSettings`: `Unambiguous`, `OptionsStand`), the client outside this
repository reads the same options, signs and sends; where an option has two names,
which one it follows is a choice (`Readings`).  Client options (`Tuning`:
time-outs, user agent, HTTP version, pool, default content type) are accepted when
they can be read.

| code | model |
|---|---|
| `put_immutable` up to its first request: context, policy, digest, size | `StartWrite` |
| credential providers, with their cache | `Acquire` |
| the observer around a put: the request as promised, then the evidence of its response | `SendPut` |
| the verified readback and its evidence | `SendGet` |
| `read_receipt` of an earlier receipt | `ReadReceipt` |
| other users of the bucket (external) | `Interfere` |

The ETag of a plain object is its content, that of one under a managed key is
new for every put; an answer without one (`NoTag`) is refused, as is a body longer
than the limit of the read (`ReadLimits`).  The host the observer expects has the DNS
suffix of the region's partition (`DnsSuffix`), the one the client calls has the
client's (`ClientSuffix`, external); where they differ, as for `cn-` regions if the
client knows one suffix only, every call ends in `RequestTargetMismatch`, and
`AcceptedSettingsWork` has the premise `HostIsKnown`.
Certificates, URL syntax and the form of dates are left out.

### MCLibrary: the small ones together

`ModbusClient`, `Transport`, `SchemaSync`, `ManagedWrites`, `ChunkedObjects` (once
more, with readers and inputs that are not what was declared), `AuditPipeline` and
`ExactMetering` are extended, `CanonicalJson`, `TypedCapture` and `ObjectTable`
instantiated in one model: each behaviour belongs to one component, chosen by
`task` in the initial state, and the others rest in one of their first states.
What is a pure function has its inputs in `task`.

## 3. The runs

| run | instance | question | shows |
|---|---|---|---|
| `ledger` | 3 allocations that do not all fit, 2 hosts, 1 namespace, 2 resources | is the ledger right whoever calls it? | `CapacityAccounted`, `LaunchesAreGrounded`, `EvidenceIsKept` |
| `manager` | 2 operations, 1 allocation, 2 volumes, 1 process (a second one is met in the next two), 1 fault | does the lock protect the disk through crashes, and is storage ever taken from a process or released while used? | `UsersKeepVolumes`, `ReleasedMeansGone`, `DecisionsAreCurrent`, `HelpersAreGuarded` (with `TypeOK`), `SealedStaysReadOnly`, `FormatsOnlyUnstarted`, `RetiredNeverRebuilt` |
| `manager_hosts` | 2 hosts with an operation each, 2 boots, 1 allocation, 2 processes | do two hosts, a reboot or a second process break the single root or the promise? is anything released on a guess after a reboot? | `SingleRoot`, `ImplementsLease` |
| `manager_live` | 1 operation at a time, 2 volumes, 1 fault, 2 boots, 2 processes, fairness | do locks and capacity come back? | `LocksAreGivenBack`, `DeadExecutionReleased` |
| `manager_partial` | as `manager`, 1 volume | can a partial image always be rebuilt, as a comment says? | violated, see below |
| `tokens` | 2 callers, 2 refreshes, time up to 5, lifetimes below, at and above the margin | is there one refresh, and is nobody left waiting? | `SingleFlight`, `CachedTokensAreLive`, `EveryWaiterIsAnswered` |
| `mqtt` | 2 clients in turn, 5 connections, 2 reconnects, queue of 2 | do generations and the budget survive loss and cancellation? | `ConnectionsAreBounded`, `StaleIsRefused`, `RecoversOrFails` |
| `mqtt_acks` | as `mqtt` | is a publish acknowledged only on the connection it came from? | violated, see below |
| `chunks` | 2 uploads, 1 worker, versions, a chunk a byte, 2 chunks a page | do uploads, retries and retirement of one key get along? | `RootsAreWhole`, `NothingIsUntracked`, `MarkerFences`, `RetriesConverge`, `DeletesOnlyTheVerified` |
| `bus` | 3 outbox rows of one key, one of them too long, a batch with an unscoped event, 1 partition, 2 keys, 2 records in hand, commits at any time, 1 fault or 1 relay | do records arrive, in order, as signed, and is nothing skipped? | `ReceiptsAreDurable`, `FirstDeliveriesInOrder`, `CommittedWerePassed`, `JudgedAsSigned` |
| `library` | see below | are the small components right, each by itself? | `CaptureIsExact`, `JsonIsExact`, `TablesAreLossless`, `NumbersAreExact` (settlement and register layouts), `FramesStayWhole`, `CallsAreTruthful`, `AuditIsAccounted`, `ReportedSchemaIsThere`, `AttestedIsEncrypted`, `AcceptedSettingsWork`, `StreamsAreExact` |
| `schema_race` | the old and the new version of a service, an empty database | does a synchronised service have its columns, as a comment says? | violated, see below |

Every property of a passing run has a mutant: a plausible bug in one mapped
definition (a dropped check, a stale copy, a lock lost on crash, a double
subtraction) that the run finds.  They are the definitions marked `Mutant:`.

Bounds and why they are enough.  Two operations show every pairwise interleaving;
a third permit adds only another waiter for the same lock, and the lock has no
queue.  Two volumes (three in the code) distinguish the first, the last and "the
others are already done"; the roles differ only in that the first is sealed.  One
fault at any point of two operations and the recovery after it covers
crash-then-retry; so it does in the liveness run, at every step of one operation
and of its retries.  Reboots are explored in `manager_hosts` and `manager_live`,
and not again in `manager`.  Two namespaces are the least that shows two processes
of one launch, only one of which can be bound: `manager_hosts` has them, and
`ImplementsLease` says that storage is not destroyed while either lives;
`manager_live` has them too, and a process that is never bound, and never ends,
keeps its devices and the capacity (`DeadExecutionReleased` says so).  In
`manager` there is one, so that the busy detach is not met there.  In
`manager_hosts` no utility fails: what a failure leaves on a disk does not leave
the host, and is the subject of `manager`.  That several allocations share the
capacity is the subject of `ledger`.  Constants: `MaxBoot` (boots told apart),
`MaxFaults` (crashes and failed utilities), `Volumes`.  `Ops` are symmetric when
they are permits of one manager, and so are namespaces, and two hosts with one
permit each; symmetry sets are used in safety runs only.

`tokens`: the second refresh is the first that can meet leftovers of another;
`Timeout = Margin = 2` and lifetimes 1, 2, 3 put a token below, at and above the
margin; `MaxTime = 5` lets the longest of them be issued, cached and expire.
`mqtt`: `MaxReconnects = 2` has a first, a last and an exhausted attempt;
`MaxClients` is one client and its successor; `MaxConnections` exceeds what both
budgets allow, so the bound never hides a reconnect too many.  `chunks`: the
requests are two files that share a chunk, one of them two chunks long, and an
input that is not what was declared; a third upload would only be another retry.
`MaxResends = 0` there, since a resend is a put by a second caller as far as the
bucket can tell, and the second uploader is one.  The resend itself, whose readback
meets the object of the first attempt, is in `library`, which has one uploader and
`MaxResends = 1`; the theorems of `StreamProofs` are for any number of resends.

`bus`: `QueueCapacity = 1` fills the queue with the second send; two rows of one
key can pass each other, the third never becomes a record; `MaxFaults` is a lost
acknowledgement, a lost leader or a crash, `MaxAttempts = 3` lets a row be sent
again and again be lost, `MaxTime = 1` lets an attestation expire while it
waits.  `Prefetch = 2` is the least with a record in hand that is not the next to be
processed, and a commit may come at any time.  The overrides are every way to name
`acks`: plainly, by its other name, in another case, with a blank, with a value that
is refused; and a refused and a harmless other property.  The constraint `Focus`
keeps the faults of sending, early commits and the judging of records apart, which
do not depend on each other: a record is judged by itself.  For the same reason
the callers' batch is without early commits, and the texts of `recv` without faults.  A record is relayed or a
fault happens, not both (`relays + faults < MaxRelays` in `Relay`).

`library`: captures of six calls under three limits; integers and decimal numbers
around the edges of a 5-bit mantissa, two safe digits and four decimal exponents;
every text of a value of depth two and each of its one-token edits; sources and
documents of up to two rows with texts on both sides of what pays, text limits
that two rows stay below (80 bytes) and a work that the larger sources exceed
(1000 bytes); every rate and quantity of a 4-bit amount; the three codecs on
streams of two frames, cut anywhere, with three operations; three Modbus calls
over two connections; three events, a channel and a batch of two, with a policy of
redaction and without; two boots of two services; and one upload, one worker and
one reader with all the paging cases: a full page and a partial one, a chunk that
occurs twice, a last chunk cut short, the empty file, inputs too short, too long
and different, every range; two managed writes under every way to get credentials,
both providers, settings that contradict each other, a region whose host the
client spells differently and one that is unknown, reads with a limit below and at
the length of the body, and one act of somebody else.

The runs `mqtt`, `chunks`, `bus`, `library` and `schema_race` do not check
deadlock: every client, upload, record or call there may be over.

Fairness.  A detached task runs until it ends and a free flock is given to a
waiter (`WF` of `Progress \/ AcquireLock` per operation): tokio and the kernel
schedule both.  A utility ends (`WF HelperEnds`): `command_with_timeout` kills it
after 120 s, the guardian after its own timeout.  `SF` of a request for
`recover_and_release` is an assumption on the environment: the manager has no
reconciliation loop, its caller retries.  Strong fairness is needed because the
request is possible only while a permit is idle.  Nothing is assumed of
launches, deaths, deadlines, crashes or reboots.  In `tokens` the worker, its
supervisor and a notified waiter run (`WF` of `Refreshing` and `Wake`); the
request has a timeout, so `Refreshing` always ends; no caller has to give up.  In
`mqtt` the application polls (`WF` of `Poll`) and a poll ends
(`WF` of `PollEndsSomehow`, it has a timeout); that a connection comes back is
not assumed.  The other runs check safety and have no
fairness.

What `manager_partial` shows.  A crash between `create_new` and `set_len` of an
image leaves a file of length zero.  The comment at
`filesystem.rs:321-324` says a partial image of a reserved allocation may be
rebuilt; the code calls `verify_image` (line 314), which requires the full
length, before it gets there, so every replay fails, and so does teardown
(line 608).  The reserved capacity stays occupied until somebody removes
the file.

What `mqtt_acks` shows.  The comment at `lib.rs:116` says `acknowledge` accepts
only a publish of this connection generation.  The number it compares changes at
the next `ConnAck`; between the loss of the connection and that packet the state
is `Reconnecting`, which `available` does not exclude, and the acknowledgement is
queued for the next connection.

What `schema_race` shows.  `sync` runs `CREATE TABLE IF NOT EXISTS` when
`table_exists` said no and returns `Created` without looking at the columns
(`auto_schema.rs:97`).  When an older service creates the table in between, the
statement does nothing, the columns of the newer one are missing, and its runtime
reports `Connected`, where the comment at `auto_schema.rs:237` says that
bootstrap "ensures the database schema matches the entity definitions".
`ReportedSchemaIsThere` says what does hold: tables it found, not created.

Related and intended, as far as the code tells: a crash between `create_new` and
`write_all` of `ownership.json` or `retirement.json` leaves a file that no longer
parses, and the allocation is stuck.  `DeadExecutionReleased` names the exceptions to
the release of a dead execution: a torn retirement marker, the restart of the host,
and a second process of the same launch for as long as it lives.  `begin_launch` may be
answered twice, one process can be bound, and a detach under the other leaves the
device, so that every recovery is refused; the capacity is then occupied by right, and
the code has no way to end that process.

## 4. The proofs

The theorems hold for every value of the constants that satisfies the named
assumptions of the modules; the runs only for the instances of section 3.

`AllocationLedgerProofs` proves, for any sets of allocations, hosts, namespaces
and receipts, any capacity and any demand, under `CapacityAssumption` (capacity,
demand and boot bound are naturals) and `NullAssumption` (the null values are
not values):

| theorem | says |
|---|---|
| `LedgerTypeCorrect` | `LedgerSpec => []LedgerTypeOK`; in particular no release subtracts more than is reserved |
| `LaunchesAreSealed` | `LedgerSpec => []UnsealedNeverLaunches` |
| `NothingUnbound` | `LedgerSpec => []NothingStartsUnbound` |
| `LaunchesGrounded` | `LedgerSpec => []LaunchesAreGrounded`, the two together |
| `EvidenceNeverReplaced` | `LedgerSpec => EvidenceOnlyGrows` |
| `UncertainLaunchKept` | `LedgerSpec => UncertainLaunchKeepsCapacity` |
| `EvidenceKept` | `LedgerSpec => EvidenceIsKept`, the two together |

The argument.  `LedgerSteps` splits a step into the transactions once, for all
theorems.  Type correctness is inductive as it stands; the guard `Demand <= used`
of `CanRelease` is what keeps the subtraction natural.  The two evidence
invariants are not inductive alone: a record in RETAINED may come from anywhere,
and `bind_execution` needs that a LAUNCHING record is sealed and not yet bound,
while `quiescent` needs that what is bound was sealed.  They are therefore proved
together as `EvidenceInv`, which also says that allocations that never left
RESERVED hold no evidence (`FreshRecords`, the fact `bind_pool_authority` relies
on when it binds a pool late).  It is a conjunction over records
(`EvidencePerRecord`), so that `SaveKeepsEvidence` reduces a transaction to the
one record it writes.  `EvidenceNeverReplaced` reduces in the same way by
`SaveGrows` and uses `EvidenceInv` for the binding.
`UncertainLaunchKeepsCapacity` speaks of the time after a launch; the invariant
that starts with it is `Launched`: the record is in a phase after the launch, and
if it is released its execution is known; `LaunchedStep` proves it of one record.

The second part, under the same assumptions (`Allocs` may be infinite: that only
finitely many allocations hold capacity is part of the invariant `Accounted`):

| theorem | says |
|---|---|
| `CapacityExact` | `LedgerSpec => []CapacityAccounted`: the pool row is the sum over the rows that hold capacity, within the pool |
| `AccountingNeverRefuses` | the accounting checks of `lock_pool` and of `release` are never what refuses a transaction |

The sum is a recursive function on sets, and the installed provers do not do
induction over data.  The proofs show what the function computes without it:
of the finite sets that would refute a fact one is minimal (`SmallestSet`), and
that one is led to a contradiction.  So the recursion has a solution, it is the
only one, the sum does not depend on the order of the elements, and a part that
changes changes the sum by as much.

The third part leaves the ledger for the arithmetic of `ExactMetering`, which is
proved in the same way, for any `MaxAmount` under `MeteringAssumption`:

| theorem | says |
|---|---|
| `EverySettlementIsExact` | `SettlementIsExact(a, b, q, r)` for all amounts: the settlement is the exact quotient rounded once, parts never settle to more or less than the whole, rates of one value are one rate, and the wire takes a rate exactly in its lowest terms |

Euclid's function has a value (`EuclidThere`: the pairs without one would have one
with a least second component), and that value divides both numbers and is a sum of
multiples of them (`Common`, `EuclidFinds`).  Hence a reduced rate has coprime terms
(`Reduces`, `Lowest`), coprime terms of one value are equal (`LowestIsOne`), and the
reduction does not change a quotient (`CancelQuotient`).  `Upwards` is that one more
than the floor, when there is a rest, is the ceiling; `InParts` adds the quotients
of two quantities.  For the wire, `Powers` and `Digits` say what the digits of a
number are, `ValueUnique` that the value of a digit string is determined, and
`RoundTrip` that reading what was written gives the number, which is therefore
accepted.

`WorkspaceManagerProofs`, for any number of hosts, operations, namespaces and
volumes, any number of crashes, reboots, time-outs and utilities that fail, under
`ManagerAssumption` and `NoHelperAssumption` (ranges of the bounds; the null
values are not values):

| theorem | says |
|---|---|
| `ManagerKeepsLedger` | `Spec => LedgerSpec`: a manager reaches the ledger through its transactions only |
| `ManagerCapacity`, `ManagerLaunchesGrounded` | hence `[]CapacityAccounted` and `[]LaunchesAreGrounded` of the manager |
| `GuardedHelpers` | `Spec => []HelpersAreGuarded` |
| `OneRoot` | `Spec => []SingleRoot` |
| `CurrentDecisions` | `Spec => []DecisionsAreCurrent` |
| `FormatsBeforeStart` | `Spec => []FormatsOnlyUnstarted` |
| `SealedReadOnly` | `Spec => []SealedStaysReadOnly` |
| `VolumesAreKept` | `Spec => []UsersKeepVolumes`: no device goes away under a live process, bound or not; the bound one, or any while none is bound, keeps its mounts as well |
| `ReleasedIsGone` | `Spec => []ReleasedMeansGone` |
| `RetiredStaysRetired` | `Spec => RetiredNeverRebuilt` |
| `ManagerImplementsLease` | `Spec => ImplementsLease`, the refinement of `WorkspaceLease`, its keeper included |

The inductive invariant has six layers, each proved from those above it.
`TypeInv` is the type and what a running operation always has.  `RootInv`: past
the check of its authority an operation is on the bound host and in the bound
boot; so are the utility it started and every process.  `LockInv`: who is at a
step that needs the flock has it, and a utility runs for the operation that waits
for it or under a guardian that holds the lock after the operation has died.
`StepInv` is what an operation has established at each step (`StepHolds`, a table
over the steps); it survives the steps of others because what it speaks of
changes only under the lock, or, for the record, only upwards.  `VolumeInv` ties
the phases of the record to the volumes, `ProcessInv` to the processes.  None of
the properties is inductive without the layers before: that a retired volume is
never rebuilt after a crash needs that no other operation is past its check of
the marker, which is `StepInv` and `LockInv` together.  The refinement maps a
held allocation to a lease and its live processes to uses; `LeaseStep` takes each
action to a step of `WorkspaceLease` or to a stutter.  That the pool is kept whenever
something is done is `KeptWhileSteps`: behind its first check an operation runs under
the boot the pool is bound to (`RootInv`).  `KeeperBinds` says that an operation at
most opens the pool, and a reboot of that host is `Restart`.

`UsersKeepVolumes` does not say that a second process keeps its mounts once another
one is bound, because it may not: after the death of the bound one recovery unmounts
what the other uses, and stops at its devices.

`TokenRefreshProofs`, for any callers, lifetimes and bounds, under
`TokenAssumption` (the timeout does not exceed the margin):

| theorem | says |
|---|---|
| `TokenTypeCorrect` | `Spec => []TokenTypeOK` |
| `OneRefreshAtATime` | `Spec => []SingleFlight` |
| `CacheNeverOutlivesToken` | `Spec => []CachedTokensAreLive` |
| `NobodyJoinsTheDone` | `Spec => JoinsOnlyOpenRefresh` |

The invariant `TokenInv` adds to the type that refreshes are numbered in order
(`InOrder`), that only the one in flight is open (`OneOpen`), that an answer comes
within the timeout of its issue (`InTime`), that what the client believes of a
token is the truth minus the margin (`ExpiresEarly`), and that the cache holds
only such tokens (`CacheIsGenuine`).  The margin is needed exactly in
`ExpiresEarly`.

`StreamProofs`, first part, for any uploads, workers, readers, files, chunk and page
sizes and any number of lost answers, under `ChunkAssumption` (uploads and workers
are different callers, a chunk has a byte and a page an entry) and
`RequestAssumption` (files are finite sequences of bytes):

| theorem | says |
|---|---|
| `JournalIsComplete` | `Spec => []NothingIsUntracked` |
| `FenceHolds` | `Versioned`: `Spec => []MarkerFences` |
| `DeletesAreExact` | `Versioned`: `Spec => DeletesOnlyTheVerified` |
| `RootsStayWhole` | `Versioned`: `Spec => []RootsAreWhole` |
| `RetriesAgree` | `Spec => []RetriesConverge`, with versions or without |
| `ReceiptsStandForTheirFiles` | `Spec => []ReceiptsAreExact` |
| `ReadersGetTheirRange` | `Spec => []ReadsAreExact` |
| `StreamsStayExact` | `Spec => []StreamsAreExact`, the two before together and that no key names two objects |

`NextSteps` and `ObjectSteps` reduce a step to what it does to the objects:
nothing, create the object of a put, or remove what a delete reaches.
`JournalInv` strengthens `NothingIsUntracked` by the puts on the wire and the
parts about to be put.  `FenceInv` adds that a tag is never given twice under a
key (`StoreInv`, by counting what was created), that nobody but a worker names
the marker (`MarkerIsForeign`), and that every delete on its way names a tag that
was verified and was not the marker's (`DeletesAreVerified`); hence a marker that
is stored stays (`MarkerStays`), and a key names one object, so no root is there.
Up to this last step nothing depends on versions: that a worker past its marker has
made one (`FencesAreMade`, about `MarkerMade`) holds on any store, and only that what
was made is still stored (`StoredInv`) needs `Versioned`.
`RootsStayWhole` needs the converse: until the marker is there, only roots are
deleted (`OnlyRootsDeleted`), so that parts stay (`PartsStay`), and everything
that points to parts, in the store, on the wire or in the hands of an upload,
points to stored ones (`Everything`).  Once the marker is there, the claim is empty
by the fence.

The last four hold on any store, with versions or not, and whatever the journal
and the workers do.  They rest on `ExactInv`: what an upload has collected is the
beginning of its file, cut at the multiples of the chunk size, in pages that are
all full but the last (`Collected`), and every root that was written or is on its
way is complete (`ExactRoot`).  The file then determines how many pieces there are
(`CeilingUnique`), the content of each chunk and page and so their keys
(`SameParts`, `SamePage`), and the root (`SameRoot`): two roots of a file are
equal, and what an upload conflicts with is another file's root, or a marker,
which some worker has made (`FencesAreMade`).  That is `RetriesAgree`, which
therefore needs no versions.

The bytes behind a root are `FlattenSeq`, a recursive function of the library; instead of induction, `FlattensUnique` shows that whatever
satisfies its equation is its value (there is no least index where two solutions
differ), and `FlattenCuts` gives a solution: the beginnings of the file.  For the
readers, `ReadExactInv` says that what a reader has returned is the range it was
asked for, up to where the next chunk begins; `RootChunk` is that the pointer it
follows, found by division, is the one of that chunk, and `SliceReads` that the
slice continues the range without gap or overlap.

`StreamProofs`, second part, for any decoders, frames, sizes of a read and numbers
of operations and connections, under `TransportAssumption` (what the peer sends are
frames of the configured decoder, whose fields are numbers):

| theorem | says |
|---|---|
| `FramesWhole` | `TransportSpec => []FramesStayWhole`: whole frames in order and no byte lost or made up, in both directions, whatever is cancelled where, and the listener stays within its permits |

The invariant is a conjunction of three.  `ReadsInv`: what was returned is a
beginning of the frames that were sent, and joined to the buffer it is what has
been read off the stream, unless chunks were read past the decoder.
`FindsTheFrame` says that each of the three decoders, given any beginning of a
stream of frames, finds the end of the first or asks for more, and `NextFrame`
that the frame it cuts off is the next one.  `WritesInv`: what is on the wire and
what is pending are whole frames and a part of the last; a direction that was
given up in between stays busy, so that nothing is ever written after it.
`ListenerInv` counts the permits. The joined frames are again `FlattenSeq`;
`FlattensThere` and `FlattenSplit` are about that function, by least
counterexamples.

`DeviceProofs`, first part, for any budget of reconnects, any queue and any number of
clients and connections, under `SessionAssumption`:

| theorem | says |
|---|---|
| `ConnectionsBounded` | `Spec => []ConnectionsAreBounded` |
| `StaleRefused` | `Spec => StaleIsRefused` |

`ConnectionsArePaid` counts the connections against the reconnects, with one to
spare exactly while the client has none; it needs that a poll runs only on a
client that is neither gone nor stopping (`PollingIsAlive`).
`GenerationIsNewest` is why a comparison of generations is enough to refuse an
acknowledgement: a held event of this client and this generation was received
over the newest connection.

`DeviceProofs`, second part, about `ModbusClient`, for any requests, units, framing,
addresses and any number of calls and connections, without an assumption:

| theorem | says |
|---|---|
| `CallsTruthful` | `ModbusSpec => []CallsAreTruthful` |

`ModbusInv`: the type (`Shape`); a call is asked of the device at most once, answered
at most once and only after it has run or was refused (`Courses`); the context is away
exactly while the last call is in flight, and a context that was put back has nothing
left on its connection, neither a question nor an answer (`Exchange`), which is why on
RTU, whose frames carry no number, the next answer still is the next call's; and what
each call was told is true (`AllTruthful`).  A time-out or a cancellation leaves
something on the connection, and the invariant holds because it leaves no context.

`EventBusProofs`, for any outbox, callers, batches, topic, queue and keys, any
number of crashes, failovers, retries and relayed records, under `BusAssumption`,
`TopicAssumption` (keys have partitions, the event ids of the outbox are distinct),
`WorkerAssumption` (the worker is not one of the callers) and `SpellingAssumption`
(the three texts that are compared are in normal form):

| theorem | says |
|---|---|
| `CommitsArePassed` | `Spec => []CommittedWerePassed`, for commits at any time, the caller's or the timer's, and any number of records in hand |
| `CarefulCommitsSkipNothing` | `Spec /\ CommitsBetweenRecords => []NothingIsSkipped`: an application that commits between its records loses none |
| `DurableReceipts` | `Spec => []ReceiptsAreDurable` |

The first rests on what lies before the position: each record there was passed, is in
hand, or was in hand at an earlier commit, through every crash that resets the
position.  The default settings (`enable_auto_commit`)
are covered, with what they cost: a record that is in hand when the timer commits,
and whose process then dies, is skipped, and `early` says which.  Without such commits
`early` stays empty, which is the second theorem; its hypothesis is the order of
calls that the documentation of `recv_raw` asks of the application.
`DurableReceipts` rests on `SendInv`: the replicated
part of a log is never cut (`LogInv`), a record that has an offset is held by the
broker that gave it at that offset (`QueueInv`), the worker's call and the queue
are about the one row it is at (`WorkerInv`), and a row that is marked delivered
has its record at the place its receipt names (`ReceiptInv`).

`EventBusProofs`, second part, under the same assumptions and `SignerAssumption`
(every key makes a signer, what it writes is a signature and a garbled value is
none):

| theorem | says |
|---|---|
| `EventsJudgedAsSigned` | `Spec => []JudgedAsSigned` |
| `FirstCopiesInOrder` | `Spec => []FirstDeliveriesInOrder` |

For the first: every attestation is the signer's, for a row, a key and a time
(`AttestedInv`); every attestation header of any record anywhere, also of one that
a service has written on, is null, garbled or one of these (`GenuineInv`); what the
consumer trusts are keys of the signer (`TrustInv`), and it reads what all replicas
have (`ReadInv`).  `VerifiedReads` and `ClockErrorReads` unfold the chain of checks
of `Verify`: a record that passes them, or fails by the clock alone, is as it was
signed.  `InboxInv`
says so of what was judged.  For the second, `OrderInv`: the worker signs a row
after the receipts of the earlier rows (`Earlier`), a record lies in the partition
of its key (`Placed`), and a copy of a row, whenever and by whomever it is written,
is behind the place the receipt of an earlier row of its key names (`Later`).
`ReceiptInv` makes that place the place of a copy.

`ServiceProofs`, first part, about `SchemaSync`, for any services, plans and first
schemas, any number of boots and faults, under `PlansAssumption` (plans and first
schemas speak of the same tables, and the mark of a missing table is no column):

| theorem | says |
|---|---|
| `ReportedIsThere` | `SchemaSpec => []ReportedSchemaIsThere` |

A table is never dropped and a column never lost, so what a service has seen stays
true while others run.  The invariant says of each service where it is in its plan
and that every table before that place exists, with its columns unless this service
created it (`Walk`); the exception is the race that `schema_race` shows.

Second part, about `AuditPipeline`, for any fields, payloads, block list, sizes of
channel and batch, number of senders and depth of spans, under `AuditAssumption` (what
is put for a blocked value is not longer than a shortened text):

| theorem | says |
|---|---|
| `EventsAccounted` | `AuditSpec => []AuditIsAccounted` |

`OrderInv` is the heart: what was sent, what is being sent, the batch and the
channel, in this order, are one ascending sequence (`Passed`), and with what was
dropped at a full channel and what failed with a batch they are exactly the
captured events.  A step of the worker does not change `Passed`, an event extends
it or is dropped, a failure takes a batch out of it.  `RecordsInv` adds that every
record is what is forwarded of its event (`Forwarded`: its redaction where there
is a policy, by `RedactedIsRedaction`, the event itself where there is none),
`WorkerInv` that a worker that ends has nothing left, `SpansInv` and `EventsInv`
that the context of a span, and of an event, is that of the nearest one above that
names the field.  That there is one such walk over the spans and no other is shown
by a least counterexample again.

`ManagedWritesProofs`, for any settings, writes, credentials, key identities, any
number of calls and any interference, without an assumption:

| theorem | says |
|---|---|
| `AttestedStandsForever` | `WriteSpec => []AttestedIsEncrypted` |
| `AcceptedForever` | `WriteSpec => []AcceptedSettingsWork` |

For the first, `IInv`: the ETag of an object under a managed key is its own, that
of a plain one is its content (`Tagged`), and for every receipt there is an object
that was made with its tag and content, encrypted as the policy asked
(`Attested`); with a managed policy the tag names that one object only.  Objects
that others put are covered.  The second speaks of a service that is alone with
its bucket and whose host the client knows: `AloneInv` holds while
`history.foreign = 0`, and says that every object is what these settings make of a
write and still there (`AllMade`), that receipts and a readback under way name
such objects, and that a call that has ended ended well.  Its crux is
`OnlyReading`: settings that pass `Unambiguous` leave the client one way to read
them, the adapter's.  `PutLeaves`, `GetLeaves`, `CredentialsStand` and
`VerdictAlone` follow a write through its steps.

Two components may share a proof module; what they share there is lemmas about
numbers, sets and sequences.  Where a recursive function is involved (sums, joined
frames, walks, digits, Euclid) the argument is by a least counterexample, because
the installed provers do not instantiate the library's induction theorems.

The type invariants and the invariants that need no run of their own, since they
are a part of a property that has one (`EvidenceOnlyGrows`,
`UncertainLaunchKeepsCapacity`, `JoinsOnlyOpenRefresh`), are proved and not listed
among the runs' properties.

## 5. What stays with the model checker, and what is left out

Only model-checked are:

* `LocksAreGivenBack`, `DeadExecutionReleased`, `EveryWaiterIsAnswered` and
  `RecoversOrFails`, which need fairness: liveness and ENABLED are out of the
  prover's reach;
* `JsonIsExact`, `CaptureIsExact` and `TablesAreLossless`: parser, capture and both
  table formats are recursive in the depth of a value, their modules declare
  RECURSIVE operators, and what these compute for every value is induction over data;
* of `NumbersAreExact` the half about register layouts, which is about bits
  of a few registers; the other half is `EverySettlementIsExact`;
* the three runs that expect a violation.

Every other property of a run is a theorem of section 4.

Not modelled, and why:

* workspace schema and roles: catalogue checks and `GRANT` statements in one
  transaction;
* HTTP transport and services: routers, adapters and documentation map requests;
  its permits are a semaphore like the listener's in `Transport`;
* authentication, capability, config, context, errors, grpc: data types, traits and
  stateless checks;
* DingTalk requests other than the token: one request, one answer, no state;
* UDP, TLS configuration, certificate roots, URL and header syntax, request
  signing, cryptography: data, or a library's;
* `ensure_topics`, `run_in_transaction`, the repository's queries.

Inside the allocation manager
the contents of receipts, tune2fs features, uid and mode checks are abstracted to
"the file is as this operation left it": an administrator who edits files below
the root is outside the model.

## 6. Plan

What a next step would be, in this order:

1. a second consumer and a second partition in `EventBus`, to check rebalancing;
2. UDP and the HTTP client's permits and response budgets, with the outcome that is
   unknown after a lost answer;
3. `CanonicalJson` with its recursion as functions over the nodes of a text, so that
   the round trip can be proved by least counterexamples like the sums and the
   digits.

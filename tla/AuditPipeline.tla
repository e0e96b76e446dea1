--------------------------- MODULE AuditPipeline ---------------------------
(***************************************************************************)
(* warpin-observability: audit events are captured by a tracing layer with  *)
(* the context of their spans, pass a bounded channel, and a worker redacts *)
(* (when it was given a policy) and batches them for a sink that may fail.   *)
(* An event is a number, its fields are a JSON value: its scalars, each at   *)
(* its path of member names and array positions.                             *)
(***************************************************************************)
EXTENDS Integers, SequencesExt

CONSTANTS
    Attributes,    \* of new spans: sets of fields given as text and as other types
    ContextFields, \* tenant_id, scope_id, ...
    Payloads,      \* fields of events: a scalar at each path
    BlockedNames,  \* names on the block list
    MaxText,       \* longest text that is not cut
    MarkerBytes,   \* bytes of the truncation marker, longer than that of a redaction
    ChannelSize,   \* capacity of the channel
    BatchSize,
    Senders,       \* the layer and the clones of its sender
    MaxSpans,      \* bound: spans
    MaxEvents      \* bound: events

VARIABLES
    redaction, \* whether the worker was started with a policy
    spans,    \* for each span [parent, given, data]: what it was given, AuditSpanData
    events,   \* captured events: [payload, context, span] (history)
    channel,  \* the events that are in the channel, by number
    senders,  \* those that are alive
    dropped,  \* audit_events_dropped
    batch,    \* of the worker: [id, payload]
    sending,  \* the batch that is being emitted
    worker,   \* "running", "closing" or "ended"
    sent,     \* what the sink accepted
    failed    \* events of batches that failed

auditVars == <<redaction, spans, events, channel, senders, dropped, batch, sending, worker, sent,
               failed>>

NoValue == 0

(* A field of a span is taken when it was recorded as text; the missing ones *)
(* come from the nearest ancestor that has them.                             *)
OwnData(span, given) ==
    [f \in ContextFields |-> IF f \in given.text THEN span ELSE NoValue]
\* What span from has, or the nearest of its ancestors that has anything.
FirstUp(own, from) ==
    LET up[a \in 0..Len(spans)] ==
            IF a = 0 THEN NoValue ELSE IF own[a] # NoValue THEN own[a] ELSE up[spans[a].parent]
    IN  up[from]
Inherit(data, ancestor) ==
    [f \in ContextFields |->
        IF data[f] # NoValue THEN data[f]
        ELSE FirstUp([a \in DOMAIN spans |-> spans[a].data[f]], ancestor)]

AuditInit ==
    /\ redaction \in BOOLEAN
    /\ spans = <<>> /\ events = <<>> /\ channel = <<>> /\ senders = Senders /\ dropped = {}
    /\ batch = <<>> /\ sending = <<>> /\ worker = "running" /\ sent = <<>> /\ failed = {}

OnNewSpan(parent, given) ==
    /\ senders > 0 /\ Len(spans) < MaxSpans
    /\ spans' = Append(spans, [parent |-> parent, given |-> given,
                               data |-> Inherit(OwnData(Len(spans) + 1, given), parent)])
    /\ UNCHANGED <<redaction, events, channel, senders, dropped, batch, sending, worker, sent, failed>>

OnEvent(span, payload) ==
    LET id == Len(events) + 1
        context == Inherit([f \in ContextFields |-> NoValue], span)
    IN  /\ senders > 0 /\ Len(events) < MaxEvents
        /\ events' = Append(events, [payload |-> payload, context |-> context, span |-> span])
        /\ IF Len(channel) < ChannelSize
           THEN channel' = Append(channel, id) /\ UNCHANGED dropped
           ELSE dropped' = dropped \union {id} /\ UNCHANGED channel
        /\ UNCHANGED <<redaction, spans, senders, batch, sending, worker, sent, failed>>

DropSender ==
    /\ senders > 0 /\ senders' = senders - 1
    /\ UNCHANGED <<redaction, spans, events, channel, dropped, batch, sending, worker, sent, failed>>

-----------------------------------------------------------------------------
(* GlobalRedaction.  A text counts as secret when it matches a key pattern;  *)
(* wide is the width of its characters.  The items of an array go by the     *)
(* name of the array.                                                        *)
Scalars == [kind : {"text", "other"}, secret : BOOLEAN, length : Nat, wide : Nat \ {0}]
Redacted == [kind |-> "text", secret |-> FALSE, length |-> 10, wide |-> 1]
NameAt(path) ==
    LET members == {i \in DOMAIN path : "member" \in DOMAIN path[i]}
    IN  IF members = {} THEN "" ELSE path[Max(members)].member
RedactString(v) ==
    IF v.secret THEN Redacted
    ELSE IF v.length > MaxText
    THEN [v EXCEPT !.length = MaxText - (MaxText % v.wide) + MarkerBytes]
    ELSE v
RedactValue(payload) ==
    [path \in DOMAIN payload |->
        IF payload[path].kind # "text" THEN payload[path]
        ELSE IF NameAt(path) \in BlockedNames THEN Redacted ELSE RedactString(payload[path])]

ASSUME AuditAssumption ==
    /\ MaxText \in Nat /\ MarkerBytes \in Nat /\ Redacted.length <= MaxText + MarkerBytes
    /\ \A payload \in Payloads : \A path \in DOMAIN payload : payload[path] \in Scalars

(* The worker takes one record at a time; a full batch is emitted at once,   *)
(* an incomplete one when the timer ticks or the channel has closed.         *)
Forwarded(payload) == IF redaction THEN RedactValue(payload) ELSE payload

AtSelect == worker = "running" /\ sending = <<>>

Recv ==
    /\ AtSelect /\ channel # <<>>
    /\ LET id == Head(channel)
           record == [id |-> id, payload |-> Forwarded(events[id].payload)]
       IN  IF Len(batch) + 1 >= BatchSize
           THEN sending' = Append(batch, record) /\ batch' = <<>>
           ELSE batch' = Append(batch, record) /\ UNCHANGED sending
    /\ channel' = Tail(channel)
    /\ UNCHANGED <<redaction, spans, events, senders, dropped, worker, sent, failed>>

Tick ==
    /\ AtSelect /\ batch # <<>>
    /\ sending' = batch /\ batch' = <<>>
    /\ UNCHANGED <<redaction, spans, events, channel, senders, dropped, worker, sent, failed>>

EndNow ==     \* mutant: the worker ends without its last batch
    /\ AtSelect /\ channel = <<>> /\ senders = 0
    /\ worker' = "ended"
    /\ UNCHANGED <<redaction, spans, events, channel, senders, dropped, batch, sending, sent, failed>>
Closed ==
    /\ AtSelect /\ channel = <<>> /\ senders = 0
    /\ sending' = batch /\ batch' = <<>>
    /\ worker' = IF batch = <<>> THEN "ended" ELSE "closing"
    /\ UNCHANGED <<redaction, spans, events, channel, senders, dropped, sent, failed>>

(* emit_batch emits one record after the other and stops at the first error; *)
(* the rest of the batch is not tried again.                                 *)
Emit(succeeds) ==
    /\ sending # <<>>
    /\ IF succeeds
       THEN sent' = Append(sent, Head(sending)) /\ sending' = Tail(sending) /\ UNCHANGED failed
       ELSE /\ failed' = failed \union {sending[i].id : i \in DOMAIN sending}
            /\ sending' = <<>>
            /\ UNCHANGED sent
    /\ worker' = IF worker = "closing" /\ sending' = <<>> THEN "ended" ELSE worker
    /\ UNCHANGED <<redaction, spans, events, channel, senders, dropped, batch>>

AuditNext ==
    \/ \E parent \in 0..Len(spans), given \in Attributes : OnNewSpan(parent, given)
    \/ \E span \in 0..Len(spans), payload \in Payloads : OnEvent(span, payload)
    \/ DropSender \/ Recv \/ Tick \/ Closed
    \/ \E succeeds \in BOOLEAN : Emit(succeeds)

AuditSpec == AuditInit /\ [][AuditNext]_auditVars

-----------------------------------------------------------------------------
NearestWith(f, span) ==
    LET nearest[a \in 0..Len(spans)] ==
            IF a = 0 THEN NoValue ELSE IF f \in spans[a].given.text THEN a ELSE nearest[spans[a].parent]
    IN  nearest[span]
\* Every scalar is there, nothing secret or too long is left, the rest is as it was.
IsRedactionOf(clean, payload) ==
    /\ DOMAIN clean = DOMAIN payload
    /\ \A path \in DOMAIN payload :
          LET v == payload[path]
          IN  /\ v.kind = "text" =>
                    /\ NameAt(path) \in BlockedNames \/ v.secret => clean[path] = Redacted
                    /\ ~clean[path].secret /\ clean[path].length <= MaxText + MarkerBytes
              /\ clean[path] # v =>
                    v.kind = "text" /\ (NameAt(path) \in BlockedNames \/ v.secret \/ v.length > MaxText)

IsForwardOf(policy, clean, payload) ==
    IF policy THEN IsRedactionOf(clean, payload) ELSE clean = payload

(* Every captured event is in one place: on its way, counted as dropped, in  *)
(* a batch that failed, or with the sink, which gets each event at most once,*)
(* in order, redacted if there is a policy and else as it was captured.      *)
(* When the worker has ended no event is on its way.                         *)
(* The context an event has is that of the nearest span that names it.       *)
AuditIsAccounted ==
    LET ids(records) == [i \in DOMAIN records |-> records[i].id]
        onTheWay == ids(sending) \o ids(batch) \o channel
        passed == ids(sent) \o onTheWay
    IN  /\ \A i, j \in DOMAIN passed : i < j => passed[i] < passed[j]
        /\ dropped \intersect (failed \union Range(passed)) = {}
        /\ failed \intersect Range(passed) = {}
        /\ dropped \union failed \union Range(passed) = DOMAIN events
        /\ worker = "ended" => onTheWay = <<>>
        /\ \A i \in DOMAIN sent :
              IsForwardOf(redaction, sent[i].payload, events[sent[i].id].payload)
        /\ \A id \in DOMAIN events : \A f \in ContextFields :
              events[id].context[f] = NearestWith(f, events[id].span)
=============================================================================

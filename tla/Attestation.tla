---------------------------- MODULE Attestation ----------------------------
(***************************************************************************)
(* Durable event records and their producer attestation: the pure part of   *)
(* warpin-event-bus (lib.rs and attestation.rs).                            *)
(*                                                                         *)
(* A text or a byte string is a value; the checks see only its Length and   *)
(* whether it Fits a form ("topic", "tenant", "identifier", "header", ...). *)
(* A signature is the pair of a private key and the projection it signs, so *)
(* verification compares pairs; the length-prefixed framing of the          *)
(* projection makes it as injective as the tuple that stands for it here.   *)
(***************************************************************************)
EXTENDS Integers, Sequences, SequencesExt, FiniteSets

CONSTANTS
  Length(_),     \* bytes of a text
  Fits(_, _),    \* whether a text is made of what a form allows
  MaxTopic, MaxTenant, MaxKey, MaxPayload, MaxHeaders, MaxHeaderName,
  MaxHeaderValue, MaxIdentifier,
  PublicKeyLength,
  NULL           \* a header without a value

(* The outcome of a chain of checks with early returns: the error of the    *)
(* first failing one, or the result.  checks is a sequence of               *)
(* <<passes, error>>.                                                       *)
Failing(checks) == {i \in DOMAIN checks : ~checks[i][1]}
Err(e) == [ok |-> FALSE, error |-> e]
Ok(v) == [ok |-> TRUE, value |-> v]
Outcome(checks, result) ==
  LET failing == Failing(checks)
  IN  IF failing = {} THEN Ok(result) ELSE Err(checks[Min(failing)][2])

-----------------------------------------------------------------------------
(* DurableEventHeader and DurableEventRecord.                               *)

InLength(v, max) == Length(v) \in 1..max

ValidTopic(topic) == InLength(topic, MaxTopic) /\ Fits(topic, "topic")
ValidTenant(tenant) == InLength(tenant, MaxTenant) /\ Fits(tenant, "tenant")

\* A header name is [text, lower]: the text in lower case, and whether it is spelt so.
NewHeader(name, value) ==
  Outcome(<< <<name.lower /\ InLength(name.text, MaxHeaderName)
                 /\ InLength(value, MaxHeaderValue), "header is invalid">> >>,
          [name |-> name, value |-> value])

HeaderNames(headers) == {headers[i].name : i \in DOMAIN headers}

ValidRecord(r) ==
  /\ ValidTopic(r.topic)
  /\ ValidTenant(r.tenant)
  /\ InLength(r.key, MaxKey)
  /\ InLength(r.payload, MaxPayload)
  /\ Len(r.headers) <= MaxHeaders
  /\ Cardinality(HeaderNames(r.headers)) = Len(r.headers)

NewRecord(topic, tenant, key, payload) ==
  LET r == [topic |-> topic, tenant |-> tenant, key |-> key, payload |-> payload,
            headers |-> <<>>]
  IN  Outcome(<< <<ValidRecord(r), "record is invalid">> >>, r)

WithHeaders(r, headers) ==
  LET full == [r EXCEPT !.headers = headers]
  IN  Outcome(<< <<ValidRecord(full), "record is invalid">> >>, full)

-----------------------------------------------------------------------------
(* The signer.                                                              *)

RESERVED_HEADERS ==
  <<"version", "producer", "tenant", "key-id", "event-id", "issued-at", "expires-at",
    "signature">>

Reserved(text) == \E i \in DOMAIN RESERVED_HEADERS : RESERVED_HEADERS[i] = text

ValidIdentifier(v) == InLength(v, MaxIdentifier) /\ Fits(v, "identifier")

\* ProducerAttestationSigner::new: a key is [secret, public]; what is left of a seed.
NewSigner(producer, keyId, secret) ==
  Outcome(<< <<ValidIdentifier(producer), "InvalidProducerService">>,
             <<ValidIdentifier(keyId), "InvalidKeyId">>,
             <<Fits(secret, "seed"), "InvalidPrivateSigningKeyLength">> >>,
          [producer |-> producer, keyId |-> keyId, secret |-> secret])

\* Mutant: the payload is not bound.
UnboundProjection(topic, tenant, key, payload, producer, keyId, eventId, issued, expires) ==
  <<topic, tenant, key, producer, keyId, eventId, issued, expires>>

SigningProjection(topic, tenant, key, payload, producer, keyId, eventId, issued, expires) ==
  <<topic, tenant, key, payload, producer, keyId, eventId, issued, expires>>

Sign(secret, projection) == [secret |-> secret, over |-> projection]

\* The value of a header is a text, a number of milliseconds in decimal, or a signature in
\* hexadecimal.
Text(v) == [text |-> v]
Time(n) == [time |-> n]

Attest(signer, r, eventId, issued, expires) ==
  LET projection == SigningProjection(r.topic, r.tenant, r.key, r.payload, signer.producer,
                                      signer.keyId, eventId, issued, expires)
      values == <<Text("1"), Text(signer.producer), Text(r.tenant), Text(signer.keyId),
                  Text(eventId), Time(issued), Time(expires),
                  [signature |-> Sign(signer.secret, projection)]>>
      added == [i \in DOMAIN RESERVED_HEADERS |->
                  [name |-> [text |-> RESERVED_HEADERS[i], lower |-> TRUE],
                   value |-> values[i]]]
      full == WithHeaders(r, r.headers \o added)
  IN  Outcome(<< <<ValidIdentifier(eventId), "InvalidEventId">>,
                 <<issued >= 0 /\ expires > issued, "InvalidAttestationTime">>,
                 <<\A n \in HeaderNames(r.headers) : ~(n.lower /\ Reserved(n.text)),
                   "ReservedHeaderCollision">>,
                 <<\A i \in DOMAIN added : NewHeader(added[i].name, added[i].value).ok,
                   "InvalidRecord">>,
                 <<full.ok, "InvalidRecord">> >>,
              [r EXCEPT !.headers = @ \o added])

-----------------------------------------------------------------------------
(* The verifier: its windows and its keys, a function from the configured   *)
(* <<producer, key id>> pairs to secrets (the public half of which it has). *)

NewVerifier(maxValidity, maxSkew) ==
  Outcome(<< <<maxValidity > 0 /\ maxSkew >= 0, "InvalidVerificationWindow">> >>,
          [maxValidity |-> maxValidity, maxSkew |-> maxSkew, keys |-> <<>>])

\* A configured key is never replaced.
InsertVerifyingKey(v, producer, keyId, public) ==
  Outcome(<< <<ValidIdentifier(producer), "InvalidProducerService">>,
             <<ValidIdentifier(keyId), "InvalidKeyId">>,
             <<Length(public) = PublicKeyLength, "InvalidPublicVerifyingKeyLength">>,
             <<Fits(public, "point"), "InvalidPublicVerifyingKey">>,
             <<<<producer, keyId>> \notin DOMAIN v.keys, "DuplicateVerifyingKey">> >>,
          [v EXCEPT !.keys = [k \in DOMAIN @ \cup {<<producer, keyId>>} |->
                                IF k = <<producer, keyId>> THEN public ELSE v.keys[k]]])

ValidTransportInput(m, now) ==
  /\ ValidTopic(m.topic)
  /\ InLength(m.key, MaxKey)
  /\ InLength(m.payload, MaxPayload)
  /\ now >= 0

\* collect_reserved_headers stops at the first header it objects to.
HeaderProblem(headers, i) ==
  IF i > MaxHeaders THEN "InvalidHeader"
  ELSE IF ~Reserved(headers[i].name.text) THEN "none"
  ELSE IF ~headers[i].name.lower \/ headers[i].value = NULL THEN "InvalidHeader"
  ELSE IF \E j \in 1..(i - 1) : headers[j].name = headers[i].name THEN "DuplicateHeader"
  ELSE "none"

CollectReservedHeaders(headers) ==
  [i \in DOMAIN headers |-> <<HeaderProblem(headers, i) = "none", HeaderProblem(headers, i)>>]

Present(headers, text) == \E i \in DOMAIN headers : headers[i].name.text = text
RequiredHeader(headers, text) ==
  headers[CHOOSE i \in DOMAIN headers : headers[i].name.text = text].value

\* required_header, then the parser of the value: a missing header is reported before a
\* malformed one, and an earlier header before a later one.
ParsesAs(text, value) ==
  CASE text \in {"producer", "key-id", "event-id"} -> ValidIdentifier(value)
    [] text = "tenant" -> ValidTenant(value)
    [] text = "version" -> value = Text("1")
    [] text = "signature" -> Fits(value, "signature")
    [] OTHER -> Fits(value, "timestamp")

ParseError(text) ==
  CASE text = "version" -> "UnsupportedVersion"
    [] text = "signature" -> "MalformedSignature"
    [] OTHER -> "InvalidHeader"

ParseChecks(headers) ==
  LET at(i) == RESERVED_HEADERS[(i + 1) \div 2]
  IN  [i \in 1..(2 * Len(RESERVED_HEADERS)) |->
         IF i % 2 = 1 THEN <<Present(headers, at(i)), "MissingHeader">>
         ELSE <<Present(headers, at(i)) => ParsesAs(at(i), RequiredHeader(headers, at(i))),
                ParseError(at(i))>>]

ValueOf(m, text) == RequiredHeader(m.headers, text)
AsSigned(m) ==
  [producer |-> ValueOf(m, "producer").text, keyId |-> ValueOf(m, "key-id").text,
   eventId |-> ValueOf(m, "event-id").text, tenant |-> ValueOf(m, "tenant").text,
   issued |-> ValueOf(m, "issued-at").time, expires |-> ValueOf(m, "expires-at").time]

WellFormed(m, now) ==
  << <<ValidTransportInput(m, now), "InvalidTransportInput">> >>
    \o CollectReservedHeaders(m.headers) \o ParseChecks(m.headers)

Authentic(v, m) ==
  LET a == AsSigned(m)
      name == <<a.producer, a.keyId>>
      signed == SigningProjection(m.topic, a.tenant, m.key, m.payload, a.producer, a.keyId,
                                  a.eventId, a.issued, a.expires)
  IN  << <<\E k \in DOMAIN v.keys : k[1] = a.producer, "UnknownProducer">>,
         <<name \in DOMAIN v.keys, "UnknownKey">>,
         <<name \in DOMAIN v.keys =>
             ValueOf(m, "signature").signature = Sign(v.keys[name], signed),
           "SignatureMismatch">> >>

Timely(v, m, now) ==
  LET a == AsSigned(m)
  IN  << <<a.expires > a.issued, "InvalidTimeRange">>,
         <<a.issued <= now + v.maxSkew, "IssuedInFuture">>,
         <<a.expires > now, "Expired">>,
         <<a.expires - a.issued <= v.maxValidity, "ValidityTooLong">> >>

\* verify: the checks in their order.  The clock policy is looked at only when everything
\* before it, the signature last, has passed.
Verify(v, m, now) ==
  IF Failing(WellFormed(m, now)) # {} THEN Outcome(WellFormed(m, now), m)
  ELSE Outcome(Authentic(v, m) \o Timely(v, m, now), AsSigned(m))

ClockErrors == {"InvalidTimeRange", "IssuedInFuture", "Expired", "ValidityTooLong"}
=============================================================================

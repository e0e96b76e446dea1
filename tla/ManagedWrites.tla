--------------------------- MODULE ManagedWrites ---------------------------
(* A write to S3 under an encryption policy, from the settings of the storage *)
(* to the attested receipt (warpin-object-storage: contract.rs, storage.rs,   *)
(* s3_adapter.rs and s3_adapter/credential.rs).  Every request the HTTP       *)
(* client makes passes the observer, which compares it with what the settings *)
(* promised before it leaves, and takes the evidence from the response.  The  *)
(* client that reads the same options, signs and sends, the server and the    *)
(* other users of the bucket are external.  A digest or a fingerprint is the  *)
(* value it is of; URLs and headers are records of their parts.               *)
EXTENDS Integers, Sequences, FiniteSets

CONSTANTS
    Settings,     \* the settings a service may be started with
    Writes,       \* the writes it may ask for, each with its policy
    ForeignObjects, \* what other users of the bucket put at a location
    DnsSuffix,    \* of the AWS regions whose partition is known: aws_dns_suffix
    ClientSuffix, \* the suffix the HTTP client gives the host of a region, "none" included
    KeyIdentity,    \* the key identity a server reports for a key id of a request
    ReadLimits,   \* the limits a reader of a receipt may set
    MaxUses,      \* bound: calls of the service
    MaxForeign    \* bound: puts and deletes of the other users

VARIABLES
    service,   \* [settings, open]: from_settings
    bucket,    \* [versioned, made, live]: what was ever put, and what is there
    call,      \* the call that is running and its result
    history    \* [calls, foreign, receipts]

writeVars == <<service, bucket, call, history>>
None == "none"

-----------------------------------------------------------------------------
(* The settings.  An option is [name, spelling, value].                      *)
Flags == {"AllowHttp", "AllowInvalidCertificates", "NoSystemCertificates", "RandomizeAddresses",
          "SkipSignature"}
Tuning ==
    {"Timeout", "ConnectTimeout", "ReadTimeout", "PoolIdleTimeout", "PoolMaxIdlePerHost",
     "Http1Only", "Http2Only", "Http2KeepAliveInterval", "Http2KeepAliveTimeout",
     "Http2KeepAliveWhileIdle", "Http2MaxFrameSize", "UserAgent"}
Encryption == {"Algorithm", "KmsKeyId", "BucketKey"}
AccessKeys == {"AccessKeyId", "SecretAccessKey", "Token"}
Instance == {"ImdsV1Fallback", "MetadataEndpoint"}
Reviewed ==
    {"Endpoint", "S3Endpoint", "Region", "DefaultRegion", "VirtualHosted", "EcsRelativeUri",
     "DefaultContentType"}
    \union Flags \union Tuning \union Encryption \union AccessKeys \union Instance

Given(o, names) == \E a \in o : a.name \in names
Option(o, name) == IF Given(o, {name}) THEN (CHOOSE a \in o : a.name = name).value ELSE None
FirstOf(o, name, other) == IF Given(o, {name}) THEN Option(o, name) ELSE Option(o, other)
IsSet(o, name) == Option(o, name) = "true"
Endpoint(o) == FirstOf(o, "S3Endpoint", "Endpoint")
Region(o) == FirstOf(o, "Region", "DefaultRegion")

\* Mutant: of two names for one setting, either is taken.
UnambiguousName(o) == \A a, b \in o : a.name = b.name => a = b
\* No setting is given twice, under one name or under two.
Unambiguous(o) ==
    /\ \A a, b \in o : a.name = b.name => a = b
    /\ ~(Given(o, {"Endpoint"}) /\ Given(o, {"S3Endpoint"}))
    /\ ~(Given(o, {"Region"}) /\ Given(o, {"DefaultRegion"}))
OptionsStand(o) ==
    /\ \A a \in o : a.name \in Reviewed
    /\ Unambiguous(o)
    /\ \A a \in o : a.name \in Flags => a.value = "false"
    /\ \A a \in o : a.name = "VirtualHosted" => a.value \in {"true", "false"}
    /\ \A a \in o : a.name = "KmsKeyId" => a.value # ""

Algorithm(o) ==
    CASE Option(o, "Algorithm") = None -> "Missing"
      [] Option(o, "Algorithm") = "aws:kms" -> "SseKms" [] OTHER -> "Other"
BucketKeyOf(value) ==
    CASE value = None -> "Missing" [] value = "false" -> "Disabled"
      [] value = "true" -> "Enabled" [] OTHER -> "Invalid"

\* The reviewed profile: AWS without an endpoint, MinIO with one, "none" for neither.
Profile(o, selected) ==
    LET custom == Endpoint(o) # None
    IN  CASE ~custom /\ selected \in {None, "aws"} -> "aws"
          [] custom /\ selected = "minio" -> "minio"
          [] OTHER -> None

\* An https endpoint is [host, path]; base is where the objects of the bucket are,
\* suffix the one that the host of an AWS region has.
Base(o, name, suffix) ==
    LET custom == Endpoint(o)
        virtual == IsSet(o, "VirtualHosted")
    IN  [host |-> IF custom # None THEN <<custom>>
                  ELSE IF virtual THEN <<name, Region(o), suffix[Region(o)]>>
                  ELSE <<Region(o), suffix[Region(o)]>>,
         path |-> IF virtual THEN <<>> ELSE <<name>>]
TargetStands(o, selected) ==
    CASE Profile(o, selected) = "aws" -> Region(o) \in DOMAIN DnsSuffix
      [] Profile(o, selected) = "minio" -> ~IsSet(o, "VirtualHosted")
      [] OTHER -> FALSE

\* Where credentials come from: at most one of the three ways is configured.
CredentialMode(o) ==
    LET groups == {g \in {AccessKeys, Instance, {"EcsRelativeUri"}} : Given(o, g)}
    IN  IF Cardinality(groups) > 1 THEN "Refused"
        ELSE IF Given(o, AccessKeys)
          THEN IF Given(o, {"AccessKeyId"}) /\ Given(o, {"SecretAccessKey"}) THEN "Static" ELSE "Refused"
        ELSE IF Given(o, Instance)
          THEN IF /\ Option(o, "ImdsV1Fallback") \in {None, "false"}
                  /\ Option(o, "MetadataEndpoint") \in {None, "link-local"}
               THEN "ImdsV2" ELSE "Refused"
        ELSE IF Given(o, {"EcsRelativeUri"}) THEN "EcsRelative" ELSE "ImdsV2"

\* The HTTP client of the options: it follows no redirect and knows no proxy.
ClientStands(o) ==
    /\ \A a \in o : a.name \in Flags => a.value = "false"
    /\ \A a \in o : a.name \in Tuning => a.value # "unreadable"
    /\ ~(IsSet(o, "Http1Only") /\ IsSet(o, "Http2Only"))

Configured(s) ==
    [profile |-> Profile(s.options, s.profile), algorithm |-> Algorithm(s.options),
     bucketKey |-> BucketKeyOf(Option(s.options, "BucketKey")),
     requestKey |-> Option(s.options, "KmsKeyId"), expectedKey |-> s.expectedKey,
     base |-> Base(s.options, s.bucket, DnsSuffix), region |-> Region(s.options),
     credentials |-> CredentialMode(s.options)]

\* validate: a storage in memory has nothing to configure.
Valid(s) ==
    /\ s.max > 0
    /\ s.scheme \in {"memory", "s3"}
    /\ s.scheme = "memory" =>
         s.bucket = None /\ s.options = {} /\ s.expectedKey = None /\ s.profile = None
    /\ s.scheme = "s3" => s.bucket # None
FromSettings(s) ==
    /\ Valid(s)
    /\ s.scheme = "s3" =>
         /\ OptionsStand(s.options)
         /\ Region(s.options) # None
         /\ TargetStands(s.options, s.profile)
         /\ CredentialMode(s.options) # "Refused"
         /\ ClientStands(s.options)

-----------------------------------------------------------------------------
(* The requests.  What a call says of its request is the binding; the request *)
(* itself is made by the client, from its own reading of the options: where   *)
(* two give one setting it may follow either.                                 *)
WriteBinding(w, nonce) ==
    [nonce |-> nonce, key |-> w.key, context |-> w.context, size |-> Len(w.body), digest |-> w.digest]
Location(w) == <<w.context, w.key>>
Put(binding, loc) == [op |-> "PUT", binding |-> binding, location |-> loc, version |-> 0]
ReadbackBinding(binding, loc, version) ==
    [op |-> "GET", binding |-> binding, location |-> loc, version |-> version]

Readings(o) ==
    LET same(a, b) ==
            a.name = b.name \/ {a.name, b.name} \in {{"Endpoint", "S3Endpoint"}, {"Region", "DefaultRegion"}}
    IN  {p \in SUBSET o : \A a \in o : Cardinality({b \in p : same(a, b)}) = 1}
\* The headers of the encryption go with a put.
SseHeaders(o, op) == [h \in {a.name : a \in {b \in o : op = "PUT" /\ b.name \in Encryption}} |-> Option(o, h)]
Request(o, name, b, body) ==
    [method |-> b.op, base |-> Base(o, name, ClientSuffix), location |-> b.location, version |-> b.version,
     region |-> Region(o),
     content |-> IF b.op = "PUT" THEN body ELSE <<>>,
     sse |-> SseHeaders(o, b.op)]
\* What a client without static keys asks first, with the headers that matter.
CredentialRequests(o) ==
    LET ask(m, t, token, ttl) == [method |-> m, target |-> t, token |-> token, ttl |-> ttl]
    IN  IF Given(o, {"AccessKeyId"}) /\ Given(o, {"SecretAccessKey"}) THEN {}
        ELSE IF Given(o, {"EcsRelativeUri"})
          THEN {ask("GET", Option(o, "EcsRelativeUri"), FALSE, FALSE)}
        ELSE {ask("PUT", "api/token", FALSE, TRUE), ask("GET", "roles", TRUE, FALSE),
              ask("GET", "role", TRUE, FALSE)}

\* A request without a binding is one for credentials.
VerifyCredential(mode, o, r) ==
    CASE mode = "Static" -> FALSE
      [] mode = "ImdsV2" ->
           \/ r.method = "PUT" /\ r.target = "api/token" /\ r.ttl /\ ~r.token
           \/ r.method = "GET" /\ r.target \in {"roles", "role"} /\ r.token /\ ~r.ttl
      [] mode = "EcsRelative" -> r.method = "GET" /\ r.target = Option(o, "EcsRelativeUri")

VerifyTarget(c, b, r) ==
    /\ r.method = b.op
    /\ b.op = "PUT" => b.version = 0
    /\ [base |-> r.base, location |-> r.location, version |-> r.version]
         = [base |-> c.base, location |-> b.location, version |-> b.version]
Header(r, h) == IF h \in DOMAIN r.sse THEN r.sse[h] ELSE None
VerifySignature(c, b, r) ==
    /\ r.region = c.region
    /\ r.content = IF b.op = "PUT" THEN b.binding.digest ELSE <<>>
    /\ b.op = "PUT" =>
         /\ c.algorithm = "SseKms" /\ Header(r, "Algorithm") = "aws:kms"
         /\ c.bucketKey = "Disabled" /\ Header(r, "BucketKey") = "false"
         /\ Header(r, "KmsKeyId") = c.requestKey
\* The observer's answer to a request: it may leave, or why it may not.
Observe(c, b, r) ==
    IF ~VerifyTarget(c, b, r) THEN "RequestTargetMismatch"
    ELSE IF ~VerifySignature(c, b, r) THEN "RequestSignatureInvalid" ELSE "leaves"

-----------------------------------------------------------------------------
(* The policy and the evidence.  Each check is "stands" or the error.         *)
VerifyConfiguration(p, c) ==
    IF ~p.managed \/ p.profile # c.profile THEN "PolicyBackendMismatch"
    ELSE IF c.algorithm = "Missing" THEN "ManagedEncryptionRequired"
    ELSE IF c.algorithm = "Other" THEN "AlgorithmMismatch"
    ELSE IF c.bucketKey # "Disabled" THEN "ObjectContextBindingRequired"
    ELSE IF c.expectedKey # p.key THEN "KeyIdentityMismatch" ELSE "stands"

\* Mutant: any algorithm in the response is the managed one.
ObservedAnyAlgorithm(value) == IF value = None THEN "Missing" ELSE "SseKms"
ObservedAlgorithm(value) ==
    CASE value = None -> "Missing" [] value = "aws:kms" -> "SseKms" [] OTHER -> "Other"

\* What the observer takes from the response to a bound request.
Evidence(b, r, h) ==
    [binding |-> b.binding, op |-> b.op, path |-> <<r.base, r.location, r.version>>,
     tag |-> h.tag, version |-> h.version, algorithm |-> ObservedAlgorithm(h.sse),
     bucketKey |-> BucketKeyOf(h.bucketKey), key |-> h.key]

VerifyObserved(c, e) ==
    IF e.algorithm = "Missing" THEN "ManagedEncryptionRequired"
    ELSE IF {c.algorithm, e.algorithm} # {"SseKms"} THEN "AlgorithmMismatch"
    ELSE IF e.bucketKey \notin {"Missing", "Disabled"} THEN "ObjectContextBindingRequired"
    ELSE IF c.expectedKey \notin {None, e.key} THEN "KeyIdentityMismatch" ELSE "stands"

\* An ETag that is empty or missing.
NoTag == [own |-> -1, of |-> <<>>]
MatchesReceipt(binding, receipt) ==
    /\ binding.key = receipt.key /\ binding.context = receipt.context
    /\ binding.size = receipt.size /\ binding.digest = receipt.digest
VerifyEvidence(p, receipt, binding, e) ==
    IF ~p.managed THEN "PolicyBackendMismatch"
    ELSE IF \/ ~MatchesReceipt(binding, receipt)
            \/ receipt.context # p.context
            \/ e.binding # binding \/ e.op # "GET"
            \/ e.tag # receipt.tag \/ e.version # receipt.version \/ receipt.tag = NoTag
       THEN "EvidenceBindingMismatch"
    ELSE IF e.algorithm # "SseKms"
       THEN IF e.algorithm = "Missing" THEN "ManagedEncryptionRequired" ELSE "AlgorithmMismatch"
    ELSE IF e.bucketKey \in {"Enabled", "Invalid"} THEN "ObjectContextBindingRequired"
    ELSE IF p.key \notin {None, e.key} THEN "KeyIdentityMismatch" ELSE "stands"

-----------------------------------------------------------------------------
(* The server.  The ETag of an object under a managed key is of its own, that *)
(* of any other is its content's; a bucket without versions says version 0.   *)
Object(loc, body, digest, type, sse, bucketKey, key) ==
    [location |-> loc, body |-> body, digest |-> digest, type |-> type, sse |-> sse,
     bucketKey |-> bucketKey, key |-> key,
     tag |-> IF sse = "aws:kms" THEN [own |-> Len(bucket.made) + 1, of |-> <<>>]
             ELSE [own |-> 0, of |-> body]]
Created(r, w) ==
    Object(r.location, w.body, w.digest, w.type, Header(r, "Algorithm"),
           Header(r, "BucketKey") = "true", KeyIdentity[Header(r, "KmsKeyId")])
Keep(o) ==
    bucket' = [bucket EXCEPT !.made = Append(@, o), !.live[o.location] = Len(bucket.made) + 1]
VersionOf(i) == IF bucket.versioned THEN i ELSE 0
Found(r) == IF r.version # 0 THEN r.version ELSE bucket.live[r.location]
\* A response names a bucket key that is not used, or does not mention it.
Responses(i) ==
    LET o == bucket.made[i]
    IN  {[tag |-> o.tag, version |-> VersionOf(i), sse |-> o.sse, bucketKey |-> mention,
          key |-> IF o.sse = "aws:kms" THEN o.key ELSE None] :
           mention \in IF o.bucketKey THEN {"true"} ELSE {None, "false"}}

-----------------------------------------------------------------------------
Idle == [phase |-> "idle", result |-> None, began |-> FALSE]
Locations == {Location(w) : w \in Writes}
WriteInit ==
    /\ \E s \in Settings :
         service \in [settings : {s}, open : {FromSettings(s)}, reading : Readings(s.options)]
    /\ bucket \in [versioned : BOOLEAN, made : {<<>>}, live : {[l \in Locations |-> 0]}]
    /\ call = Idle
    /\ history = [calls |-> 0, foreign |-> 0, receipts |-> {}]

Managed == service.settings.scheme = "s3"
Own == Configured(service.settings)
Ends(result, began) == call' = [phase |-> "idle", result |-> result, began |-> began]
RequestFor(b, body) == Request(service.reading, service.settings.bucket, b, body)

\* put_immutable and read_receipt_bounded, up to the first request.
Refusal(w) ==
    LET p == w.policy
    IN  IF p.managed /\ p.context # w.context THEN "ContextMismatch"
        ELSE IF p.managed # Managed
          THEN IF p.managed THEN "ManagedEncryptionRequired" ELSE "PolicyBackendMismatch"
        ELSE IF Managed /\ VerifyConfiguration(p, Own) # "stands" THEN VerifyConfiguration(p, Own)
        ELSE IF w.type = None THEN "InvalidMetadata"
        ELSE IF Len(w.body) > service.settings.max THEN "SizeLimitExceeded"
        ELSE IF w.digest # w.body THEN "DigestMismatch" ELSE "stands"

StartWrite(w) ==
    /\ service.open /\ call.phase = "idle" /\ history.calls < MaxUses
    /\ history' = [history EXCEPT !.calls = @ + 1]
    /\ IF Refusal(w) # "stands" THEN Ends(Refusal(w), FALSE)
       ELSE call' = [phase |-> IF Managed THEN "credentials" ELSE "put", write |-> w,
                     binding |-> WriteBinding(w, history.calls)]
    /\ UNCHANGED <<service, bucket>>

Acquire ==
    /\ call.phase = "credentials"
    /\ IF \A r \in CredentialRequests(service.reading) :
            VerifyCredential(Own.credentials, service.settings.options, r)
       THEN call' = [call EXCEPT !.phase = "put"]
       ELSE Ends("RequestTargetMismatch", TRUE)
    /\ UNCHANGED <<service, bucket, history>>

\* PutMode::Create: the object is created, and the answer may be lost, or one
\* exists already and the readback decides.
SendPut ==
    LET w == call.write
        b == Put(call.binding, Location(w))
        r == RequestFor(b, w.body)
        reads(tag, version, replay) ==
            call' = [phase |-> "get", write |-> w, binding |-> call.binding,
                     tag |-> tag, version |-> version, replay |-> replay]
    IN  /\ call.phase = "put"
        /\ UNCHANGED <<service, history>>
        /\ IF Managed /\ Observe(Own, b, r) # "leaves"
           THEN Ends(Observe(Own, b, r), TRUE) /\ UNCHANGED bucket
           ELSE IF bucket.live[r.location] # 0
           THEN reads(Created(r, w).tag, 0, TRUE) /\ UNCHANGED bucket
           ELSE /\ Keep(Created(r, w))
                /\ \/ reads(Created(r, w).tag, VersionOf(Len(bucket.made) + 1), FALSE)
                   \/ Ends("Backend", TRUE)

\* read_verified_internal_bounded: what a read of o by its digest ends in.
ReadError(o, digest, max) ==
    IF Len(o.body) > service.settings.max \/ Len(o.body) > max THEN "SizeLimitExceeded"
    ELSE IF o.digest # digest \/ o.body # digest THEN "DigestMismatch" ELSE "stands"

ReceiptOf(w, o, i, replay) ==
    [key |-> w.key, context |-> w.context, size |-> Len(w.body), digest |-> w.digest,
     tag |-> o.tag, version |-> VersionOf(i), replay |-> replay, policy |-> w.policy]
\* The verdict on a readback of the i-th object with headers h.
Verdict(w, b, r, i, h) ==
    LET o == bucket.made[i]
        e == Evidence(b, r, h)
        error == ReadError(o, w.digest, service.settings.max)
    IN  IF error # "stands"
          THEN IF call.replay /\ error = "DigestMismatch" THEN "ImmutableConflict" ELSE error
        ELSE IF ~call.replay /\ call.tag # o.tag THEN "EvidenceBindingMismatch"
        ELSE IF o.type # w.type THEN "ImmutableConflict"
        ELSE IF ~Managed THEN "stands"
        ELSE IF VerifyObserved(Own, e) # "stands" THEN VerifyObserved(Own, e)
        ELSE VerifyEvidence(w.policy, ReceiptOf(w, o, i, call.replay), call.binding, e)

SendGet ==
    LET w == call.write
        b == ReadbackBinding(call.binding, Location(w), call.version)
        r == RequestFor(b, <<>>)
    IN  /\ call.phase = "get"
        /\ UNCHANGED <<service, bucket>>
        /\ IF Managed /\ Observe(Own, b, r) # "leaves"
           THEN Ends(Observe(Own, b, r), TRUE) /\ UNCHANGED history
           ELSE IF Found(r) = 0 THEN Ends("NotFound", TRUE) /\ UNCHANGED history
           ELSE \E h \in Responses(Found(r)) :
                  IF Verdict(w, b, r, Found(r), h) = "stands"
                  THEN /\ Ends("attested", TRUE)
                       /\ history' = [history EXCEPT !.receipts =
                            @ \union {ReceiptOf(w, bucket.made[Found(r)], Found(r), call.replay)}]
                  ELSE Ends(Verdict(w, b, r, Found(r), h), TRUE) /\ UNCHANGED history

\* read_receipt_bounded: a receipt of a managed object has to pin its version.
ReadRefusal(a, p, max) ==
    IF a.size > max THEN "SizeLimitExceeded"
    ELSE IF p.managed # Managed THEN "PolicyBackendMismatch"
    ELSE IF Managed /\ p.context # a.context THEN "ContextMismatch"
    ELSE IF Managed /\ (a.version = 0 \/ a.tag = NoTag) THEN "VersionMismatch"
    ELSE IF Managed THEN VerifyConfiguration(p, Own) ELSE "stands"
ReadVerdict(a, p, max, b, r, i, h) ==
    LET o == bucket.made[i]
        e == Evidence(b, r, h)
    IN  IF ReadError(o, a.digest, max) # "stands" THEN ReadError(o, a.digest, max)
        ELSE IF o.tag # a.tag \/ VersionOf(i) # a.version \/ Len(o.body) # a.size THEN "VersionMismatch"
        ELSE IF ~Managed THEN "stands"
        ELSE IF VerifyObserved(Own, e) # "stands" THEN VerifyObserved(Own, e)
        ELSE VerifyEvidence(p, a, b.binding, e)
ReadReceipt(a, p, max) ==
    LET b == ReadbackBinding(WriteBinding([key |-> a.key, context |-> a.context, body |-> a.digest,
                                    digest |-> a.digest], history.calls), Location(a), a.version)
        r == RequestFor(b, <<>>)
    IN  /\ service.open /\ call.phase = "idle" /\ history.calls < MaxUses
        /\ history' = [history EXCEPT !.calls = @ + 1]
        /\ UNCHANGED <<service, bucket>>
        /\ IF ReadRefusal(a, p, max) # "stands" THEN Ends(ReadRefusal(a, p, max), FALSE)
           ELSE IF Managed /\ Observe(Own, b, r) # "leaves" THEN Ends(Observe(Own, b, r), TRUE)
           ELSE IF Found(r) = 0 THEN Ends("NotFound", TRUE)
           ELSE \E h \in Responses(Found(r)) :
                  LET verdict == ReadVerdict(a, p, max, b, r, Found(r), h)
                  IN  Ends(IF verdict = "stands" THEN "read" ELSE verdict, TRUE)

\* Another user of the bucket, under rules of its own.
Interfere ==
    /\ history.foreign < MaxForeign
    /\ history' = [history EXCEPT !.foreign = @ + 1]
    /\ \E l \in Locations :
         \/ \E f \in ForeignObjects :
              Keep(Object(l, f.body, f.body, f.type, f.sse, f.bucketKey, f.key))
         \/ bucket.live[l] # 0 /\ bucket' = [bucket EXCEPT !.live[l] = 0]
    /\ UNCHANGED <<service, call>>

WriteNext ==
    \/ \E w \in Writes : StartWrite(w)
    \/ Acquire \/ SendPut \/ SendGet \/ Interfere
    \/ \E a \in history.receipts, w \in Writes, max \in ReadLimits : ReadReceipt(a, w.policy, max)

WriteSpec == WriteInit /\ [][WriteNext]_writeVars

-----------------------------------------------------------------------------
(* An attested receipt is the truth: every object that ever had its ETag and *)
(* version at its location has the content it names, and is encrypted under  *)
(* a managed key of its own object, the one the policy asks for if it does.  *)
AttestedIsEncrypted ==
    \A a \in history.receipts : \A i \in DOMAIN bucket.made :
        LET o == bucket.made[i]
        IN  (a.policy.managed /\ o.location = Location(a) /\ o.tag = a.tag /\ a.version \in {0, i}) =>
              /\ o.body = a.digest
              /\ o.sse = "aws:kms" /\ ~o.bucketKey
              /\ a.policy.key \in {None, o.key}

\* The HTTP client calls the host that the settings stand for.
HostIsKnown(o) == Endpoint(o) # None \/ ClientSuffix[Region(o)] = DnsSuffix[Region(o)]

(* Settings that are accepted can be used: where the client knows the host of *)
(* the region, nobody else touches the bucket and the key the server uses is *)
(* the one that is expected, a write that passes the checks made before the  *)
(* first request is attested and read back, unless its answer is lost or the *)
(* service itself has written another content there.                         *)
AcceptedSettingsWork ==
    LET used == KeyIdentity[Own.requestKey]
        usable == Managed => /\ HostIsKnown(service.settings.options)
                             /\ Own.expectedKey \in {None, used}
    IN  (call.phase = "idle" /\ call.began /\ history.foreign = 0 /\ usable)
            => call.result \in {"attested", "read", "Backend", "ImmutableConflict"}
=============================================================================

----------------------- MODULE ManagedWritesProofs ------------------------
(* What holds of managed writes for any settings, writes and other users,    *)
(* any number of calls and of objects: what is attested is encrypted, and    *)
(* settings that are accepted can be used.                                   *)
EXTENDS ManagedWrites, SequenceTheorems, FiniteSetTheorems, TLAPS

(* The state, whatever an object or a receipt may be. *)
BucketShape ==
    /\ \E M : bucket \in [versioned : BOOLEAN, made : Seq(M), live : [Locations -> Nat]]
    /\ \A l \in Locations : bucket.live[l] =< Len(bucket.made)
HistoryShape == \E R : history \in [calls : Nat, foreign : Nat, receipts : SUBSET R]
ServiceShape ==
    /\ service.open <=> FromSettings(service.settings)
    /\ service.reading \in Readings(service.settings.options)

(* A call is idle, or its write has passed the checks before the first       *)
(* request; one that reads back reads what was made.                         *)
Idling == \E x, y : call = [phase |-> "idle", result |-> x, began |-> y]
Passed(w) == service.open /\ Refusal(w) = "stands"
Sending ==
    \E w \in Writes, n \in Nat, p \in {"credentials", "put"} :
        call = [phase |-> p, write |-> w, binding |-> WriteBinding(w, n)] /\ Passed(w)
Reading ==
    \E w \in Writes, n \in Nat, v \in 0..Len(bucket.made) : \E t, replay :
        /\ call = [phase |-> "get", write |-> w, binding |-> WriteBinding(w, n),
                   tag |-> t, version |-> v, replay |-> replay]
        /\ Passed(w)
CallShape == Idling \/ Sending \/ Reading
Shape == BucketShape /\ HistoryShape /\ ServiceShape /\ CallShape

(* The ETag of an encrypted object is its own. *)
TagOf(i, o) ==
    IF o.sse = "aws:kms" THEN [own |-> i, of |-> <<>>] ELSE [own |-> 0, of |-> o.body]
Tagged == \A i \in 1..Len(bucket.made) : bucket.made[i].tag = TagOf(i, bucket.made[i])

(* A receipt is of an object that was made, and is true of it. *)
TrueOf(o, digest, policy) ==
    /\ o.body = digest
    /\ policy.managed => o.sse = "aws:kms" /\ ~o.bucketKey /\ policy.key \in {None, o.key}
Attested ==
    \A a \in history.receipts : \E i \in 1..Len(bucket.made) :
        a.tag = bucket.made[i].tag /\ TrueOf(bucket.made[i], a.digest, a.policy)

IInv == Shape /\ Tagged /\ Attested

(* As long as nobody else has touched the bucket: every object is what the   *)
(* service made of its settings, and is there still; so are the object of a  *)
(* receipt and the one a call reads back.                                    *)
Used == KeyIdentity[Own.requestKey]
Fits ==
    Managed => /\ HostIsKnown(service.settings.options)
               /\ Own.expectedKey \in {None, Used}
MadeHere(i, o) ==
    /\ o.location \in Locations /\ bucket.live[o.location] = i
    /\ o.digest = o.body /\ ~(Len(o.body) > service.settings.max)
    /\ Managed => o.sse = "aws:kms" /\ ~o.bucketKey /\ o.key = Used
There(loc, i) == loc \in Locations /\ bucket.live[loc] = i
AllMade == \A i \in 1..Len(bucket.made) : MadeHere(i, bucket.made[i])
ReceiptsThere ==
    \A a \in history.receipts : \E i \in 1..Len(bucket.made) :
        /\ There(Location(a), i) /\ a.version = VersionOf(i) /\ a.tag = bucket.made[i].tag
        /\ bucket.made[i].body = a.digest /\ a.size = Len(a.digest)
ReadbackThere ==
    call.phase = "get" =>
        \E i \in 1..Len(bucket.made) :
            /\ There(Location(call.write), i) /\ call.version \in {0, i}
            /\ ~call.replay => /\ call.tag = bucket.made[i].tag
                               /\ bucket.made[i].body = call.write.body
                               /\ bucket.made[i].type = call.write.type
GoodEnds == {"attested", "read", "Backend", "ImmutableConflict"}
EndsWell == (call.phase = "idle" /\ call.began /\ Fits) => call.result \in GoodEnds
AsksManaged == call.phase = "credentials" => Managed
Alone == AllMade /\ ReceiptsThere /\ ReadbackThere /\ EndsWell /\ AsksManaged
AloneInv == history.foreign = 0 => Alone

-----------------------------------------------------------------------------
(* What the state's operators do. *)
LEMMA BucketReads ==
    ASSUME BucketShape
    PROVE  /\ Len(bucket.made) \in Nat
           /\ bucket.live \in [Locations -> Nat]
           /\ \A l \in Locations : bucket.live[l] \in 0..Len(bucket.made)
<1>1. PICK M : bucket \in [versioned : BOOLEAN, made : Seq(M), live : [Locations -> Nat]]
  BY DEF BucketShape
<1>2. bucket.made \in Seq(M) /\ bucket.live \in [Locations -> Nat]
  BY <1>1
<1>3. Len(bucket.made) \in Nat
  BY <1>2, LenProperties
<1> QED
  BY <1>2, <1>3 DEF BucketShape

LEMMA KeepReads ==
    ASSUME BucketShape, NEW o, o.location \in Locations, Keep(o)
    PROVE  /\ BucketShape' /\ bucket'.versioned = bucket.versioned
           /\ Len(bucket'.made) = Len(bucket.made) + 1
           /\ \A i \in 1..Len(bucket.made) : bucket'.made[i] = bucket.made[i]
           /\ bucket'.made[Len(bucket.made) + 1] = o
           /\ bucket'.live = [bucket.live EXCEPT ![o.location] = Len(bucket.made) + 1]
<1>1. PICK M : bucket \in [versioned : BOOLEAN, made : Seq(M), live : [Locations -> Nat]]
  BY DEF BucketShape
<1>2. PICK n \in Nat : n = Len(bucket.made)
  BY BucketReads
<1>3. PICK N : N = M \union {o}
  OBVIOUS
<1>4. bucket.made \in Seq(N) /\ o \in N
  BY <1>1, <1>3, SeqMonotonic
<1>5. PICK m : m = Append(bucket.made, o)
  OBVIOUS
<1>6. /\ m \in Seq(N) /\ Len(m) = n + 1
      /\ \A i \in 1..n : m[i] = bucket.made[i]
      /\ m[n + 1] = o
  BY <1>2, <1>4, <1>5, AppendProperties
<1>7. PICK f : f = [bucket.live EXCEPT ![o.location] = n + 1]
  OBVIOUS
<1>8. f \in [Locations -> Nat] /\ \A l \in Locations : f[l] =< n + 1
  BY <1>2, <1>7, BucketReads
<1>9. bucket' = [bucket EXCEPT !.made = m, !.live = f]
  BY <1>1, <1>2, <1>5, <1>7 DEF Keep
<1>10. /\ bucket' \in [versioned : BOOLEAN, made : Seq(N), live : [Locations -> Nat]]
       /\ bucket'.versioned = bucket.versioned /\ bucket'.made = m /\ bucket'.live = f
  BY <1>1, <1>6, <1>8, <1>9
<1>11. BucketShape'
  BY <1>6, <1>8, <1>10 DEF BucketShape, Locations
<1> QED
  BY <1>2, <1>6, <1>7, <1>10, <1>11

LEMMA ReceiptsRead ==
    ASSUME HistoryShape
    PROVE  history.calls \in Nat /\ history.foreign \in Nat
BY DEF HistoryShape

LEMMA EndsReads ==
    ASSUME NEW result, NEW began, Ends(result, began)
    PROVE  /\ CallShape' /\ call'.phase = "idle" /\ call'.result = result
           /\ call'.began = began
BY DEF Ends, CallShape, Idling

LEMMA ServiceStays ==
    ASSUME service' = service
    PROVE  /\ ServiceShape => ServiceShape'
           /\ Own' = Own /\ (Managed' <=> Managed)
           /\ \A w : Passed(w)' <=> Passed(w)
<1>1. Own' = Own /\ (Managed' <=> Managed)
  BY DEF Own, Managed
<1>2. ServiceShape => ServiceShape'
  BY DEF ServiceShape
<1>3. \A w : Refusal(w)' = Refusal(w)
  BY DEF Refusal, Own, Managed
<1>4. \A w : Passed(w)' <=> Passed(w)
  BY <1>3, Zenon DEF Passed
<1> QED
  BY <1>1, <1>2, <1>4

(* What a running call is. *)
LEMMA SendingIs ==
    ASSUME Shape, call.phase \in {"credentials", "put"}
    PROVE  \E w \in Writes, n \in Nat :
              /\ call.write = w /\ call.binding = WriteBinding(w, n) /\ Passed(w)
              /\ call = [phase |-> call.phase, write |-> w, binding |-> WriteBinding(w, n)]
<1>1. ~Idling /\ ~Reading
  BY DEF Idling, Reading
<1>2. Sending
  BY <1>1 DEF Shape, CallShape
<1> QED
  BY <1>2 DEF Sending

LEMMA ReadingIs ==
    ASSUME Shape, call.phase = "get"
    PROVE  \E w \in Writes, n \in Nat :
              /\ call.write = w /\ call.binding = WriteBinding(w, n) /\ Passed(w)
              /\ call.version \in 0..Len(bucket.made)
<1>1. ~Idling /\ ~Sending
  BY DEF Idling, Sending
<1>2. Reading
  BY <1>1 DEF Shape, CallShape
<1> QED
  BY <1>2 DEF Reading

(* A write that has passed is under a policy of the kind of its storage.     *)
LEMMA PassedMeans ==
    ASSUME NEW w, Passed(w)
    PROVE  /\ service.open
           /\ w.policy.managed => Managed /\ w.policy.context = w.context
           /\ Managed => w.policy.managed /\ VerifyConfiguration(w.policy, Own) = "stands"
           /\ w.type # None /\ ~(Len(w.body) > service.settings.max)
           /\ w.digest = w.body
<1>1. service.open
  BY DEF Passed
<1>2. Refusal(w) = "stands"
  BY DEF Passed
<1>3. ~(w.policy.managed /\ w.policy.context # w.context)
  BY <1>2 DEF Refusal
<1>4. ~(w.policy.managed # Managed)
  BY <1>2, <1>3 DEF Refusal
<1>5. ~(Managed /\ VerifyConfiguration(w.policy, Own) # "stands")
  BY <1>2, <1>3, <1>4 DEF Refusal
<1>6. w.type # None /\ ~(Len(w.body) > service.settings.max) /\ w.digest = w.body
  BY <1>2, <1>3, <1>4, <1>5 DEF Refusal
<1>7. (w.policy.managed => Managed) /\ (Managed => w.policy.managed)
  BY <1>4, Zenon
<1> QED
  BY <1>1, <1>3, <1>5, <1>6, <1>7

-----------------------------------------------------------------------------
(* What the checks of a response mean for the object it speaks of.           *)
LEMMA ResponseReads ==
    ASSUME NEW i, NEW h \in Responses(i), NEW o, o = bucket.made[i]
    PROVE  /\ h.tag = o.tag /\ h.version = VersionOf(i) /\ h.sse = o.sse
           /\ h.key = IF o.sse = "aws:kms" THEN o.key ELSE None
           /\ IF o.bucketKey THEN h.bucketKey = "true" ELSE h.bucketKey \in {None, "false"}
BY DEF Responses

LEMMA EvidenceMeans ==
    ASSUME NEW i, NEW h \in Responses(i), NEW o, o = bucket.made[i], NEW b, NEW r, NEW e,
           e = Evidence(b, r, h)
    PROVE  /\ e.binding = b.binding /\ e.op = b.op
           /\ e.tag = o.tag /\ e.version = VersionOf(i)
           /\ e.algorithm = "SseKms" <=> o.sse = "aws:kms"
           /\ e.algorithm \in {"Missing", "SseKms", "Other"}
           /\ e.bucketKey \in {"Missing", "Disabled"} <=> ~o.bucketKey
           /\ e.bucketKey \in {"Missing", "Disabled", "Enabled"}
           /\ e.key = IF o.sse = "aws:kms" THEN o.key ELSE None
<1>1. /\ h.tag = o.tag /\ h.version = VersionOf(i) /\ h.sse = o.sse
      /\ h.key = IF o.sse = "aws:kms" THEN o.key ELSE None
      /\ IF o.bucketKey THEN h.bucketKey = "true" ELSE h.bucketKey \in {None, "false"}
  BY ResponseReads
<1>2. /\ e.binding = b.binding /\ e.op = b.op /\ e.tag = h.tag /\ e.version = h.version
      /\ e.algorithm = ObservedAlgorithm(h.sse) /\ e.bucketKey = BucketKeyOf(h.bucketKey)
      /\ e.key = h.key
  BY DEF Evidence
<1>3. /\ e.algorithm = "SseKms" <=> o.sse = "aws:kms"
      /\ e.algorithm \in {"Missing", "SseKms", "Other"}
  BY <1>1, <1>2 DEF ObservedAlgorithm, None
<1>4. CASE o.bucketKey
  <2>1. e.bucketKey = "Enabled"
    BY <1>1, <1>2, <1>4 DEF BucketKeyOf, None
  <2> QED
    BY <1>1, <1>2, <1>3, <1>4, <2>1
<1>5. CASE ~o.bucketKey
  <2>1. e.bucketKey \in {"Missing", "Disabled"}
    BY <1>1, <1>2, <1>5 DEF BucketKeyOf, None
  <2> QED
    BY <1>1, <1>2, <1>3, <1>5, <2>1
<1> QED
  BY <1>4, <1>5

LEMMA TagsAreGiven ==
    ASSUME IInv, NEW i \in 1..Len(bucket.made)
    PROVE  bucket.made[i].tag # NoTag
<1>1. PICK n \in Nat : n = Len(bucket.made)
  BY BucketReads DEF IInv, Shape
<1>2. i \in Nat /\ bucket.made[i].tag = TagOf(i, bucket.made[i])
  BY <1>1 DEF IInv, Tagged
<1>3. bucket.made[i].tag.own \in {i, 0} /\ NoTag.own = -1
  BY <1>2 DEF TagOf, NoTag
<1> QED
  BY <1>2, <1>3

LEMMA EvidenceIsTrue ==
    ASSUME NEW i, NEW h \in Responses(i), NEW o, o = bucket.made[i], NEW b, NEW r,
           NEW p, NEW receipt, NEW binding,
           VerifyEvidence(p, receipt, binding, Evidence(b, r, h)) = "stands"
    PROVE  p.managed /\ o.sse = "aws:kms" /\ ~o.bucketKey /\ p.key \in {None, o.key}
<1>1. PICK e : e = Evidence(b, r, h)
  OBVIOUS
<1>2. /\ e.algorithm = "SseKms" <=> o.sse = "aws:kms"
      /\ e.algorithm \in {"Missing", "SseKms", "Other"}
      /\ e.bucketKey \in {"Missing", "Disabled"} <=> ~o.bucketKey
      /\ e.bucketKey \in {"Missing", "Disabled", "Enabled"}
      /\ e.key = IF o.sse = "aws:kms" THEN o.key ELSE None
  BY <1>1, EvidenceMeans
<1>3. /\ p.managed /\ e.algorithm = "SseKms" /\ e.bucketKey \notin {"Enabled", "Invalid"}
      /\ p.key \in {None, e.key}
  BY <1>1 DEF VerifyEvidence
<1> QED
  BY <1>2, <1>3

LEMMA VerdictIsTrue ==
    ASSUME NEW w, Passed(w), NEW b, NEW r, NEW i, NEW h \in Responses(i),
           Verdict(w, b, r, i, h) = "stands"
    PROVE  TrueOf(bucket.made[i], w.digest, w.policy)
<1>1. PICK o : o = bucket.made[i]
  OBVIOUS
<1>2. ReadError(o, w.digest, service.settings.max) = "stands"
  BY <1>1 DEF Verdict
<1>3. o.body = w.digest
  BY <1>2 DEF ReadError
<1>4. ASSUME w.policy.managed
      PROVE  VerifyEvidence(w.policy, ReceiptOf(w, o, i, call.replay), call.binding,
                            Evidence(b, r, h)) = "stands"
  <2>1. Managed
    BY <1>4, PassedMeans
  <2> QED
    BY <1>1, <1>2, <2>1 DEF Verdict
<1> QED
  BY <1>1, <1>3, <1>4, EvidenceIsTrue DEF TrueOf

-----------------------------------------------------------------------------
(* The invariant step by step.  Most steps leave the bucket alone.           *)
LEMMA BucketStays ==
    ASSUME IInv, service' = service, bucket' = bucket, CallShape', HistoryShape',
           history'.receipts = history.receipts
    PROVE  IInv'
<1>1. Shape'
  BY ServiceStays DEF IInv, Shape, BucketShape, Locations
<1>2. Tagged' /\ Attested'
  BY DEF IInv, Tagged, TagOf, Attested, TrueOf
<1> QED
  BY <1>1, <1>2 DEF IInv

(* An object is put into it, by the service or by another user. *)
LEMMA ObjectKept ==
    ASSUME IInv, service' = service, CallShape', HistoryShape',
           history'.receipts = history.receipts,
           NEW o, o.location \in Locations, o.tag = TagOf(Len(bucket.made) + 1, o), Keep(o)
    PROVE  IInv'
<1>1. PICK n \in Nat : n = Len(bucket.made)
  BY BucketReads DEF IInv, Shape
<1>2. /\ BucketShape' /\ Len(bucket'.made) = n + 1
      /\ \A i \in 1..n : bucket'.made[i] = bucket.made[i]
      /\ bucket'.made[n + 1] = o
  BY <1>1, KeepReads DEF IInv, Shape
<1>3. Shape'
  BY <1>2, ServiceStays DEF IInv, Shape
<1>4. \A i \in 1..n + 1 : i \in 1..n \/ i = n + 1
  OBVIOUS
<1>5. Tagged'
  <2>1. \A i \in 1..n : bucket.made[i].tag = TagOf(i, bucket.made[i])
    BY <1>1 DEF IInv, Tagged
  <2>2. \A i \in 1..n + 1 : bucket'.made[i].tag = TagOf(i, bucket'.made[i])
    BY <1>1, <1>2, <1>4, <2>1
  <2> QED
    BY <1>2, <2>2 DEF Tagged
<1>6. Attested'
  <2> SUFFICES ASSUME NEW a \in history.receipts
               PROVE  \E i \in 1..n + 1 : /\ a.tag = bucket'.made[i].tag
                                         /\ TrueOf(bucket'.made[i], a.digest, a.policy)
    BY <1>2 DEF Attested
  <2>1. PICK i \in 1..n : /\ a.tag = bucket.made[i].tag
                          /\ TrueOf(bucket.made[i], a.digest, a.policy)
    BY <1>1 DEF IInv, Attested
  <2>2. i \in 1..n + 1
    OBVIOUS
  <2> QED
    BY <1>2, <2>1, <2>2
<1> QED
  BY <1>3, <1>5, <1>6 DEF IInv

LEMMA StartWriteKeeps ==
    ASSUME IInv, NEW w \in Writes, StartWrite(w)
    PROVE  IInv'
<1>1. /\ service' = service /\ bucket' = bucket /\ service.open
      /\ history' = [history EXCEPT !.calls = @ + 1]
  BY DEF StartWrite
<1>2. HistoryShape' /\ history'.receipts = history.receipts /\ history.calls \in Nat
  BY <1>1 DEF IInv, Shape, HistoryShape
<1>3. CallShape'
  <2>1. CASE Refusal(w) # "stands"
    BY <2>1, EndsReads DEF StartWrite
  <2>2. CASE Refusal(w) = "stands"
    <3>1. PICK q \in {"credentials", "put"} :
            call' = [phase |-> q, write |-> w, binding |-> WriteBinding(w, history.calls)]
      BY <2>2 DEF StartWrite
    <3>2. Passed(w)'
      BY <1>1, <2>2, ServiceStays DEF Passed
    <3>3. PICK n \in Nat : n = history.calls
      BY <1>2
    <3>4. call' = [phase |-> q, write |-> w, binding |-> WriteBinding(w, n)]
      BY <3>1, <3>3
    <3>5. \A x : WriteBinding(w, x)' = WriteBinding(w, x)
      BY DEF WriteBinding
    <3>6. Sending'
      BY <3>2, <3>4, <3>5 DEF Sending
    <3> QED
      BY <3>6 DEF CallShape
  <2> QED
    BY <2>1, <2>2
<1> QED
  BY <1>1, <1>2, <1>3, BucketStays

LEMMA AcquireKeeps ==
    ASSUME IInv, Acquire
    PROVE  IInv'
<1>1. service' = service /\ bucket' = bucket /\ history' = history
  BY DEF Acquire
<1>2. HistoryShape'
  BY <1>1 DEF IInv, Shape, HistoryShape
<1>3. CallShape'
  <2>1. CASE Ends("RequestTargetMismatch", TRUE)
    BY <2>1, EndsReads
  <2>2. CASE call' = [call EXCEPT !.phase = "put"]
    <3>1. PICK w \in Writes, n \in Nat :
            /\ Passed(w)
            /\ call = [phase |-> call.phase, write |-> w, binding |-> WriteBinding(w, n)]
      BY SendingIs DEF Acquire, IInv
    <3>2. PICK b : b = WriteBinding(w, n)
      OBVIOUS
    <3>3. call' = [phase |-> "put", write |-> w, binding |-> b]
      BY <2>2, <3>1, <3>2
    <3>4. Passed(w)'
      BY <1>1, <3>1, ServiceStays
    <3>5. Sending'
      BY <3>2, <3>3, <3>4 DEF Sending
    <3> QED
      BY <3>5 DEF CallShape
  <2> QED
    BY <2>1, <2>2 DEF Acquire
<1> QED
  BY <1>1, <1>2, <1>3, BucketStays

(* A put makes an object or finds one; either way the readback follows, on   *)
(* what was made.                                                            *)
LEMMA PutRequestReads ==
    ASSUME NEW w, NEW binding, NEW r, r = RequestFor(Put(binding, Location(w)), w.body)
    PROVE  r.location = Location(w) /\ r.version = 0
BY DEF RequestFor, Request, Put

LEMMA GetRequestReads ==
    ASSUME NEW loc, NEW version, NEW binding, NEW r,
           r = RequestFor(ReadbackBinding(binding, loc, version), <<>>)
    PROVE  r.location = loc /\ r.version = version
BY DEF RequestFor, Request, ReadbackBinding

LEMMA CreatedReads ==
    ASSUME NEW r, NEW w, NEW o, o = Created(r, w)
    PROVE  /\ o.location = r.location /\ o.tag = TagOf(Len(bucket.made) + 1, o)
           /\ o.body = w.body /\ o.digest = w.digest /\ o.type = w.type
           /\ o.sse = Header(r, "Algorithm")
           /\ o.bucketKey = (Header(r, "BucketKey") = "true")
           /\ o.key = KeyIdentity[Header(r, "KmsKeyId")]
BY DEF Created, Object, TagOf

(* The cases of a put, for a write w that is being sent. *)
ReadsBack(w, t, v, replay) ==
    call' = [phase |-> "get", write |-> w, binding |-> call.binding, tag |-> t,
             version |-> v, replay |-> replay]
PutRefused(w, r) ==
    LET b == Put(call.binding, Location(w))
    IN  /\ Managed /\ Observe(Own, b, r) # "leaves"
        /\ Ends(Observe(Own, b, r), TRUE) /\ bucket' = bucket
PutReplayed(w, r) ==
    /\ bucket.live[Location(w)] # 0 /\ bucket' = bucket
    /\ ReadsBack(w, Created(r, w).tag, 0, TRUE)
PutCreated(w, r) ==
    /\ bucket.live[Location(w)] = 0 /\ Keep(Created(r, w))
    /\ Managed => Observe(Own, Put(call.binding, Location(w)), r) = "leaves"
    /\ \/ ReadsBack(w, Created(r, w).tag, VersionOf(Len(bucket.made) + 1), FALSE)
       \/ Ends("Backend", TRUE)

LEMMA SendPutIs ==
    ASSUME IInv, SendPut
    PROVE  /\ service' = service /\ history' = history
           /\ \E w \in Writes, n \in Nat : \E r :
                /\ Passed(w) /\ call.binding = WriteBinding(w, n)
                /\ r = RequestFor(Put(call.binding, Location(w)), w.body)
                /\ r.location = Location(w)
                /\ PutRefused(w, r) \/ PutReplayed(w, r) \/ PutCreated(w, r)
<1>1. PICK w \in Writes, n \in Nat :
        call.write = w /\ call.binding = WriteBinding(w, n) /\ Passed(w)
  BY SendingIs DEF SendPut, IInv
<1>2. PICK b : b = Put(call.binding, Location(w))
  OBVIOUS
<1>3. PICK r : r = RequestFor(b, w.body)
  OBVIOUS
<1>4. r.location = Location(w)
  BY <1>2, <1>3, PutRequestReads
<1>5. /\ service' = service /\ history' = history
      /\ IF Managed /\ Observe(Own, b, r) # "leaves"
         THEN Ends(Observe(Own, b, r), TRUE) /\ bucket' = bucket
         ELSE IF bucket.live[r.location] # 0
         THEN ReadsBack(w, Created(r, w).tag, 0, TRUE) /\ bucket' = bucket
         ELSE /\ Keep(Created(r, w))
              /\ \/ ReadsBack(w, Created(r, w).tag, VersionOf(Len(bucket.made) + 1), FALSE)
                 \/ Ends("Backend", TRUE)
  BY <1>1, <1>2, <1>3 DEF SendPut, ReadsBack
<1>6. PutRefused(w, r) \/ PutReplayed(w, r) \/ PutCreated(w, r)
  <2>1. CASE Managed /\ Observe(Own, b, r) # "leaves"
    BY <1>2, <1>5, <2>1 DEF PutRefused
  <2>2. CASE ~(Managed /\ Observe(Own, b, r) # "leaves") /\ bucket.live[r.location] # 0
    BY <1>4, <1>5, <2>2 DEF PutReplayed
  <2>3. CASE ~(Managed /\ Observe(Own, b, r) # "leaves") /\ bucket.live[r.location] = 0
    BY <1>2, <1>4, <1>5, <2>3 DEF PutCreated
  <2> QED
    BY <2>1, <2>2, <2>3
<1> QED
  BY <1>1, <1>2, <1>3, <1>4, <1>5, <1>6

LEMMA ReadsBackShape ==
    ASSUME NEW w \in Writes, NEW n \in Nat, call.binding = WriteBinding(w, n), Passed(w),
           service' = service, NEW v, v \in 0..Len(bucket'.made), NEW t, NEW replay,
           ReadsBack(w, t, v, replay)
    PROVE  CallShape'
<1>1. PICK b : b = WriteBinding(w, n)
  OBVIOUS
<1>2. Passed(w)' /\ call' = [phase |-> "get", write |-> w, binding |-> b, tag |-> t,
                              version |-> v, replay |-> replay]
  BY <1>1, ServiceStays DEF ReadsBack
<1>3. Reading'
  BY <1>1, <1>2 DEF Reading
<1> QED
  BY <1>3 DEF CallShape

LEMMA SendPutKeeps ==
    ASSUME IInv, SendPut
    PROVE  IInv'
<1>1. service' = service /\ history' = history
  BY SendPutIs
<1>2. HistoryShape' /\ history'.receipts = history.receipts
  BY <1>1 DEF IInv, Shape, HistoryShape
<1>3. PICK w \in Writes, n \in Nat : \E r :
        /\ Passed(w) /\ call.binding = WriteBinding(w, n) /\ r.location = Location(w)
        /\ PutRefused(w, r) \/ PutReplayed(w, r) \/ PutCreated(w, r)
  BY SendPutIs
<1> PICK r : /\ Passed(w) /\ call.binding = WriteBinding(w, n) /\ r.location = Location(w)
             /\ PutRefused(w, r) \/ PutReplayed(w, r) \/ PutCreated(w, r)
  BY <1>3
<1>4. PICK m \in Nat : m = Len(bucket.made)
  BY BucketReads DEF IInv, Shape
<1>5. CASE PutRefused(w, r)
  BY <1>1, <1>2, <1>5, EndsReads, BucketStays DEF PutRefused
<1>6. CASE PutReplayed(w, r)
  <2>1. 0 \in 0..Len(bucket'.made) /\ bucket' = bucket
    BY <1>4, <1>6 DEF PutReplayed
  <2>2. CallShape'
    BY <1>1, <1>3, <1>6, <2>1, ReadsBackShape DEF PutReplayed
  <2> QED
    BY <1>1, <1>2, <2>1, <2>2, BucketStays
<1>7. CASE PutCreated(w, r)
  <2>1. PICK o : o = Created(r, w)
    OBVIOUS
  <2>2. /\ o.location \in Locations /\ o.tag = TagOf(Len(bucket.made) + 1, o) /\ Keep(o)
    BY <1>3, <1>7, <2>1, CreatedReads DEF PutCreated, Locations
  <2>3. Len(bucket'.made) = m + 1
    BY <1>4, <2>2, KeepReads DEF IInv, Shape
  <2>4. VersionOf(Len(bucket.made) + 1) \in 0..Len(bucket'.made)
    BY <1>4, <2>3 DEF VersionOf
  <2>5. CallShape'
    BY <1>1, <1>3, <1>7, <2>4, ReadsBackShape, EndsReads DEF PutCreated
  <2> QED
    BY <1>1, <1>2, <2>2, <2>5, ObjectKept
<1> QED
  BY <1>3, <1>5, <1>6, <1>7

(* A readback finds something that was made, or nothing. *)
LEMMA FoundIsMade ==
    ASSUME BucketShape, NEW r, r.location \in Locations, r.version \in 0..Len(bucket.made),
           Found(r) # 0
    PROVE  Found(r) \in 1..Len(bucket.made)
<1>1. PICK n \in Nat : n = Len(bucket.made)
  BY BucketReads
<1>2. bucket.live[r.location] \in 0..n
  BY <1>1, BucketReads
<1> QED
  BY <1>1, <1>2 DEF Found

(* The cases of a readback. *)
GetRefused(w, b, r) ==
    /\ Managed /\ Observe(Own, b, r) # "leaves"
    /\ Ends(Observe(Own, b, r), TRUE) /\ history' = history
GetNothing(r) == Found(r) = 0 /\ Ends("NotFound", TRUE) /\ history' = history
GetAttested(w, b, r, i, h) ==
    /\ Verdict(w, b, r, i, h) = "stands" /\ Ends("attested", TRUE)
    /\ history' = [history EXCEPT !.receipts =
                      @ \union {ReceiptOf(w, bucket.made[i], i, call.replay)}]
GetRejected(w, b, r, i, h) ==
    /\ Verdict(w, b, r, i, h) # "stands" /\ Ends(Verdict(w, b, r, i, h), TRUE)
    /\ history' = history

LEMMA SendGetIs ==
    ASSUME IInv, SendGet
    PROVE  /\ service' = service /\ bucket' = bucket
           /\ \E w \in Writes, n \in Nat : \E b, r :
                /\ call.write = w /\ Passed(w) /\ call.binding = WriteBinding(w, n)
                /\ b = ReadbackBinding(call.binding, Location(w), call.version)
                /\ r = RequestFor(b, <<>>)
                /\ r.location = Location(w) /\ r.version = call.version
                /\ \/ GetRefused(w, b, r)
                   \/ GetNothing(r)
                   \/ \E i \in 1..Len(bucket.made) : \E h \in Responses(i) :
                        /\ i = Found(r)
                        /\ GetAttested(w, b, r, i, h) \/ GetRejected(w, b, r, i, h)
<1>1. PICK w \in Writes, n \in Nat :
        /\ call.write = w /\ call.binding = WriteBinding(w, n) /\ Passed(w)
        /\ call.version \in 0..Len(bucket.made)
  BY ReadingIs DEF SendGet, IInv
<1>2. PICK b : b = ReadbackBinding(call.binding, Location(w), call.version)
  OBVIOUS
<1>3. PICK r : r = RequestFor(b, <<>>)
  OBVIOUS
<1>4. r.location = Location(w) /\ r.version = call.version
  BY <1>2, <1>3, GetRequestReads
<1>5. /\ service' = service /\ bucket' = bucket
      /\ IF Managed /\ Observe(Own, b, r) # "leaves"
         THEN Ends(Observe(Own, b, r), TRUE) /\ history' = history
         ELSE IF Found(r) = 0 THEN Ends("NotFound", TRUE) /\ history' = history
         ELSE \E h \in Responses(Found(r)) :
                IF Verdict(w, b, r, Found(r), h) = "stands"
                THEN /\ Ends("attested", TRUE)
                     /\ history' = [history EXCEPT !.receipts =
                          @ \union {ReceiptOf(w, bucket.made[Found(r)], Found(r), call.replay)}]
                ELSE Ends(Verdict(w, b, r, Found(r), h), TRUE) /\ history' = history
  BY <1>1, <1>2, <1>3 DEF SendGet
<1>6. \/ GetRefused(w, b, r)
      \/ GetNothing(r)
      \/ \E i \in 1..Len(bucket.made) : \E h \in Responses(i) :
           /\ i = Found(r)
           /\ GetAttested(w, b, r, i, h) \/ GetRejected(w, b, r, i, h)
  <2>1. CASE Managed /\ Observe(Own, b, r) # "leaves"
    BY <1>5, <2>1 DEF GetRefused
  <2>2. CASE ~(Managed /\ Observe(Own, b, r) # "leaves") /\ Found(r) = 0
    BY <1>5, <2>2 DEF GetNothing
  <2>3. CASE ~(Managed /\ Observe(Own, b, r) # "leaves") /\ Found(r) # 0
    <3>1. Location(w) \in Locations
      BY DEF Locations
    <3>2. PICK i \in 1..Len(bucket.made) : i = Found(r)
      BY <1>1, <1>4, <2>3, <3>1, FoundIsMade DEF IInv, Shape
    <3>3. PICK h \in Responses(i) :
            IF Verdict(w, b, r, i, h) = "stands"
            THEN /\ Ends("attested", TRUE)
                 /\ history' = [history EXCEPT !.receipts =
                      @ \union {ReceiptOf(w, bucket.made[i], i, call.replay)}]
            ELSE Ends(Verdict(w, b, r, i, h), TRUE) /\ history' = history
      BY <1>5, <2>3, <3>2
    <3>4. GetAttested(w, b, r, i, h) \/ GetRejected(w, b, r, i, h)
      BY <3>3, Zenon DEF GetAttested, GetRejected
    <3> QED
      BY <3>2, <3>4
  <2> QED
    BY <2>1, <2>2, <2>3
<1> QED
  BY <1>1, <1>2, <1>3, <1>4, <1>5, <1>6

LEMMA SendGetKeeps ==
    ASSUME IInv, SendGet
    PROVE  IInv'
<1>1. service' = service /\ bucket' = bucket
  BY SendGetIs
<1>2. PICK w \in Writes, n \in Nat : \E b, r :
        /\ call.write = w /\ Passed(w) /\ call.binding = WriteBinding(w, n)
        /\ b = ReadbackBinding(call.binding, Location(w), call.version)
        /\ r = RequestFor(b, <<>>)
        /\ r.location = Location(w) /\ r.version = call.version
        /\ \/ GetRefused(w, b, r)
           \/ GetNothing(r)
           \/ \E i \in 1..Len(bucket.made) : \E h \in Responses(i) :
                /\ i = Found(r)
                /\ GetAttested(w, b, r, i, h) \/ GetRejected(w, b, r, i, h)
  BY SendGetIs, Zenon
<1>3. CallShape'
  BY <1>2, EndsReads DEF GetRefused, GetNothing, GetAttested, GetRejected
<1>4. CASE history' = history
  <2>1. HistoryShape' /\ history'.receipts = history.receipts
    BY <1>4 DEF IInv, Shape, HistoryShape
  <2> QED
    BY <1>1, <1>3, <2>1, BucketStays
<1>5. CASE history' # history
  <2>1. PICK b, r : \E i \in 1..Len(bucket.made) : \E h \in Responses(i) :
           GetAttested(w, b, r, i, h)
    BY <1>2, <1>5 DEF GetRefused, GetNothing, GetRejected
  <2>2. PICK i \in 1..Len(bucket.made) : \E h \in Responses(i) : GetAttested(w, b, r, i, h)
    BY <2>1
  <2>3. PICK h \in Responses(i) : GetAttested(w, b, r, i, h)
    BY <2>2
  <2>4. PICK a : a = ReceiptOf(w, bucket.made[i], i, call.replay)
    OBVIOUS
  <2>5. history' = [history EXCEPT !.receipts = @ \union {a}]
    BY <2>3, <2>4 DEF GetAttested
  <2>6. HistoryShape' /\ history'.receipts = history.receipts \union {a}
    <3>1. PICK R : history \in [calls : Nat, foreign : Nat, receipts : SUBSET R]
      BY DEF IInv, Shape, HistoryShape
    <3>2. history' \in [calls : Nat, foreign : Nat, receipts : SUBSET (R \union {a})]
      BY <2>5, <3>1
    <3>3. HistoryShape'
      BY <3>2 DEF HistoryShape
    <3> QED
      BY <2>5, <3>1, <3>3
  <2>7. TrueOf(bucket.made[i], w.digest, w.policy)
    BY <1>2, <2>3, VerdictIsTrue DEF GetAttested
  <2>8. a.tag = bucket.made[i].tag /\ TrueOf(bucket.made[i], a.digest, a.policy)
    BY <2>4, <2>7 DEF ReceiptOf
  <2>9. Shape'
    BY <1>1, <1>3, <2>6, ServiceStays DEF IInv, Shape, BucketShape, Locations
  <2>10. Tagged'
    BY <1>1 DEF IInv, Tagged, TagOf
  <2>11. Attested'
    BY <1>1, <2>6, <2>8 DEF IInv, Attested, TrueOf
  <2> QED
    BY <2>9, <2>10, <2>11 DEF IInv
<1> QED
  BY <1>4, <1>5

LEMMA ReadReceiptKeeps ==
    ASSUME IInv, NEW a, NEW p, NEW max, ReadReceipt(a, p, max)
    PROVE  IInv'
<1>1. /\ service' = service /\ bucket' = bucket
      /\ history' = [history EXCEPT !.calls = @ + 1]
      /\ \E result, began : Ends(result, began)
  BY DEF ReadReceipt
<1>2. HistoryShape' /\ history'.receipts = history.receipts
  BY <1>1 DEF IInv, Shape, HistoryShape
<1> QED
  BY <1>1, <1>2, EndsReads, BucketStays

LEMMA CallStays ==
    ASSUME IInv, call' = call, service' = service, BucketShape',
           Len(bucket'.made) >= Len(bucket.made)
    PROVE  CallShape'
<1>1. \A w : Passed(w)' <=> Passed(w)
  BY ServiceStays
<1>2. CASE Idling
  BY <1>2 DEF Idling, CallShape
<1>3. CASE Sending
  <2>1. PICK w \in Writes, n \in Nat, p \in {"credentials", "put"} :
          call = [phase |-> p, write |-> w, binding |-> WriteBinding(w, n)] /\ Passed(w)
    BY <1>3 DEF Sending
  <2>2. Sending'
    BY <1>1, <2>1 DEF Sending
  <2> QED
    BY <2>2 DEF CallShape
<1>4. CASE Reading
  <2>1. PICK w \in Writes, n \in Nat, v \in 0..Len(bucket.made) : \E t, replay :
          /\ call = [phase |-> "get", write |-> w, binding |-> WriteBinding(w, n),
                     tag |-> t, version |-> v, replay |-> replay]
          /\ Passed(w)
    BY <1>4 DEF Reading
  <2>2. v \in 0..Len(bucket'.made)
    <3>1. Len(bucket.made) \in Nat /\ Len(bucket'.made) \in Nat
      BY BucketReads DEF IInv, Shape, BucketShape, Locations
    <3> QED
      BY <3>1
  <2>3. Reading'
    BY <1>1, <2>1, <2>2 DEF Reading
  <2> QED
    BY <2>3 DEF CallShape
<1> QED
  BY <1>2, <1>3, <1>4 DEF IInv, Shape, CallShape

LEMMA InterfereKeeps ==
    ASSUME IInv, Interfere
    PROVE  IInv'
<1>1. /\ service' = service /\ call' = call
      /\ history' = [history EXCEPT !.foreign = @ + 1]
  BY DEF Interfere
<1>2. HistoryShape' /\ history'.receipts = history.receipts
  BY <1>1 DEF IInv, Shape, HistoryShape
<1>3. PICK l \in Locations :
        \/ \E f \in ForeignObjects : Keep(Object(l, f.body, f.body, f.type, f.sse, f.bucketKey, f.key))
        \/ bucket' = [bucket EXCEPT !.live[l] = 0]
  BY DEF Interfere
<1>4. PICK m \in Nat : m = Len(bucket.made)
  BY BucketReads DEF IInv, Shape
<1>5. ASSUME NEW f \in ForeignObjects,
             Keep(Object(l, f.body, f.body, f.type, f.sse, f.bucketKey, f.key))
      PROVE  IInv'
  <2>1. PICK o : o = Object(l, f.body, f.body, f.type, f.sse, f.bucketKey, f.key)
    OBVIOUS
  <2>2. o.location = l /\ o.tag = TagOf(Len(bucket.made) + 1, o) /\ Keep(o)
    BY <1>5, <2>1 DEF Object, TagOf
  <2>3. BucketShape' /\ Len(bucket'.made) = m + 1
    BY <1>4, <2>2, KeepReads DEF IInv, Shape
  <2>4. CallShape'
    BY <1>1, <1>4, <2>3, CallStays
  <2> QED
    BY <1>1, <1>2, <2>2, <2>4, ObjectKept
<1>6. CASE bucket' = [bucket EXCEPT !.live[l] = 0]
  <2>1. PICK M : bucket \in [versioned : BOOLEAN, made : Seq(M), live : [Locations -> Nat]]
    BY DEF IInv, Shape, BucketShape
  <2>2. PICK g : g = [bucket.live EXCEPT ![l] = 0]
    OBVIOUS
  <2>3. g \in [Locations -> Nat] /\ \A x \in Locations : g[x] =< m
    BY <1>4, <2>1, <2>2, BucketReads DEF IInv, Shape
  <2>4. bucket' = [bucket EXCEPT !.live = g]
    BY <1>6, <2>1, <2>2
  <2>5. /\ bucket' \in [versioned : BOOLEAN, made : Seq(M), live : [Locations -> Nat]]
        /\ bucket'.made = bucket.made /\ bucket'.live = g
    BY <2>1, <2>3, <2>4
  <2>6. BucketShape'
    BY <1>4, <2>3, <2>5 DEF BucketShape, Locations
  <2>7. CallShape'
    BY <1>1, <1>4, <2>5, <2>6, CallStays
  <2>8. Shape'
    BY <1>1, <1>2, <2>6, <2>7, ServiceStays DEF IInv, Shape
  <2>9. Tagged' /\ Attested'
    BY <1>2, <2>5 DEF IInv, Tagged, TagOf, Attested, TrueOf
  <2> QED
    BY <2>8, <2>9 DEF IInv
<1> QED
  BY <1>3, <1>5, <1>6

LEMMA InitHolds == WriteInit => IInv
<1> SUFFICES ASSUME WriteInit
             PROVE  IInv
  OBVIOUS
<1>1. /\ bucket \in [versioned : BOOLEAN, made : {<<>>}, live : {[l \in Locations |-> 0]}]
      /\ call = Idle /\ history = [calls |-> 0, foreign |-> 0, receipts |-> {}]
  BY DEF WriteInit
<1>2. BucketShape
  <2>1. bucket.made = <<>> /\ bucket.live = [l \in Locations |-> 0] /\ Len(bucket.made) = 0
    BY <1>1
  <2>2. \E M : bucket \in [versioned : BOOLEAN, made : Seq(M), live : [Locations -> Nat]]
    <3>1. PICK M : M = {}
      OBVIOUS
    <3>2. PICK s : s = <<>>
      OBVIOUS
    <3>3. PICK f : f = [l \in Locations |-> 0]
      OBVIOUS
    <3>4. s \in Seq(M) /\ f \in [Locations -> Nat]
      BY <3>1, <3>2, <3>3
    <3>5. bucket \in [versioned : BOOLEAN, made : {s}, live : {f}]
      BY <1>1, <3>2, <3>3
    <3>6. bucket \in [versioned : BOOLEAN, made : Seq(M), live : [Locations -> Nat]]
      BY <3>4, <3>5
    <3> QED
      BY <3>6
  <2>3. \A l \in Locations : bucket.live[l] =< Len(bucket.made)
    BY <2>1
  <2> QED
    BY <2>2, <2>3 DEF BucketShape
<1>3. HistoryShape
  <2>1. history \in [calls : Nat, foreign : Nat, receipts : SUBSET {}]
    BY <1>1
  <2> QED
    BY <2>1 DEF HistoryShape
<1>4. ServiceShape
  <2>1. PICK s \in Settings :
          service \in [settings : {s}, open : {FromSettings(s)}, reading : Readings(s.options)]
    BY DEF WriteInit
  <2>2. /\ service.settings = s /\ service.open = FromSettings(s)
        /\ service.reading \in Readings(s.options)
    BY <2>1
  <2> QED
    BY <2>2 DEF ServiceShape
<1>5. CallShape
  BY <1>1 DEF Idle, CallShape, Idling
<1>6. Tagged /\ Attested
  <2>1. Len(bucket.made) = 0 /\ history.receipts = {}
    BY <1>1
  <2> QED
    BY <2>1 DEF Tagged, Attested
<1> QED
  BY <1>2, <1>3, <1>4, <1>5, <1>6 DEF IInv, Shape

LEMMA NextKeeps ==
    ASSUME IInv, [WriteNext]_writeVars
    PROVE  IInv'
<1>1. ASSUME NEW w \in Writes, StartWrite(w)
      PROVE  IInv'
  BY <1>1, StartWriteKeeps
<1>2. CASE Acquire
  BY <1>2, AcquireKeeps
<1>3. CASE SendPut
  BY <1>3, SendPutKeeps
<1>4. CASE SendGet
  BY <1>4, SendGetKeeps
<1>5. CASE Interfere
  BY <1>5, InterfereKeeps
<1>6. ASSUME NEW a \in history.receipts, NEW w \in Writes, NEW max \in ReadLimits,
             ReadReceipt(a, w.policy, max)
      PROVE  IInv'
  BY <1>6, ReadReceiptKeeps
<1>7. CASE UNCHANGED writeVars
  <2>1. service' = service /\ bucket' = bucket /\ call' = call /\ history' = history
    BY <1>7 DEF writeVars
  <2>2. BucketShape' /\ HistoryShape'
    BY <2>1 DEF IInv, Shape, BucketShape, HistoryShape, Locations
  <2>3. Len(bucket'.made) >= Len(bucket.made)
    BY <2>1, BucketReads DEF IInv, Shape
  <2>4. CallShape'
    BY <2>1, <2>2, <2>3, CallStays
  <2> QED
    BY <2>1, <2>2, <2>4, BucketStays
<1> QED
  BY <1>1, <1>2, <1>3, <1>4, <1>5, <1>6, <1>7 DEF WriteNext

LEMMA IInvHolds == WriteSpec => []IInv
BY InitHolds, NextKeeps, PTL DEF WriteSpec

(* AttestedIsEncrypted for any settings, writes and other users: the tag of  *)
(* an object under a managed key is its own, so the object whose evidence    *)
(* was checked is the only one a receipt can be of.                          *)
THEOREM AttestedStandsForever == WriteSpec => []AttestedIsEncrypted
<1>1. IInv => AttestedIsEncrypted
  <2> SUFFICES ASSUME IInv, NEW a \in history.receipts, NEW i \in DOMAIN bucket.made,
                      a.policy.managed, bucket.made[i].tag = a.tag
               PROVE  /\ bucket.made[i].body = a.digest
                      /\ bucket.made[i].sse = "aws:kms" /\ ~bucket.made[i].bucketKey
                      /\ a.policy.key \in {None, bucket.made[i].key}
    BY DEF AttestedIsEncrypted
  <2>1. i \in 1..Len(bucket.made)
    BY LenProperties DEF IInv, Shape, BucketShape
  <2>2. PICK j \in 1..Len(bucket.made) : /\ a.tag = bucket.made[j].tag
                                         /\ TrueOf(bucket.made[j], a.digest, a.policy)
    BY DEF IInv, Attested
  <2>3. /\ bucket.made[i].tag = TagOf(i, bucket.made[i])
        /\ bucket.made[j].tag = TagOf(j, bucket.made[j])
    BY <2>1 DEF IInv, Tagged
  <2>4. bucket.made[j].sse = "aws:kms"
    BY <2>2 DEF TrueOf
  <2>5. bucket.made[i].tag.own = j /\ j # 0
    BY <2>2, <2>3, <2>4 DEF TagOf
  <2>6. i = j
    <3>1. CASE bucket.made[i].sse = "aws:kms"
      BY <2>3, <2>5, <3>1 DEF TagOf
    <3>2. CASE bucket.made[i].sse # "aws:kms"
      BY <2>3, <2>5, <3>2 DEF TagOf
    <3> QED
      BY <3>1, <3>2
  <2> QED
    BY <2>2, <2>6 DEF TrueOf
<1> QED
  BY <1>1, IInvHolds, PTL

-----------------------------------------------------------------------------
(* Settings that are accepted.  The client can only read them in one way.    *)
LEMMA OnlyReading ==
    ASSUME NEW o, Unambiguous(o), NEW p \in Readings(o)
    PROVE  p = o
<1>1. p \subseteq o
  BY DEF Readings
<1>2. ASSUME NEW a \in o
      PROVE  a \in p
  <2>1. PICK s : s = {b \in p : \/ a.name = b.name
                                \/ {a.name, b.name} \in {{"Endpoint", "S3Endpoint"},
                                                         {"Region", "DefaultRegion"}}}
    OBVIOUS
  <2>2. Cardinality(s) = 1
    BY <1>2, <2>1 DEF Readings
  <2>3. s # {}
    BY <2>2, FS_EmptySet
  <2>4. PICK b \in p : \/ a.name = b.name
                       \/ {a.name, b.name} \in {{"Endpoint", "S3Endpoint"}, {"Region", "DefaultRegion"}}
    BY <2>1, <2>3
  <2>5. CASE a.name = b.name
    BY <1>1, <1>2, <2>5 DEF Unambiguous
  <2>6. CASE a.name # b.name
    <3>1. \/ a.name = "Endpoint" /\ b.name = "S3Endpoint"
          \/ a.name = "S3Endpoint" /\ b.name = "Endpoint"
          \/ a.name = "Region" /\ b.name = "DefaultRegion"
          \/ a.name = "DefaultRegion" /\ b.name = "Region"
      BY <2>4, <2>6
    <3> QED
      BY <1>1, <1>2, <3>1 DEF Unambiguous, Given
  <2> QED
    BY <2>5, <2>6
<1> QED
  BY <1>1, <1>2

LEMMA OpenReads ==
    ASSUME ServiceShape, service.open, Managed
    PROVE  /\ service.reading = service.settings.options
           /\ CredentialMode(service.settings.options) # "Refused"
<1>1. FromSettings(service.settings) /\ service.settings.scheme = "s3"
  BY DEF ServiceShape, Managed
<1>2. /\ Unambiguous(service.settings.options)
      /\ CredentialMode(service.settings.options) # "Refused"
  BY <1>1 DEF FromSettings, OptionsStand
<1> QED
  BY <1>2, OnlyReading DEF ServiceShape

LEMMA OwnReads ==
    ASSUME NEW o, o = service.settings.options
    PROVE  /\ Own.algorithm = Algorithm(o)
           /\ Own.bucketKey = BucketKeyOf(Option(o, "BucketKey"))
           /\ Own.requestKey = Option(o, "KmsKeyId")
           /\ Own.base = Base(o, service.settings.bucket, DnsSuffix)
           /\ Own.region = Region(o) /\ Own.credentials = CredentialMode(o)
BY DEF Own, Configured

LEMMA ConfigurationMeans ==
    ASSUME NEW p, VerifyConfiguration(p, Own) = "stands", NEW o, o = service.settings.options
    PROVE  /\ p.managed /\ Own.expectedKey = p.key
           /\ Own.algorithm = "SseKms" /\ Option(o, "Algorithm") = "aws:kms"
           /\ Own.bucketKey = "Disabled" /\ Option(o, "BucketKey") = "false"
<1>1. /\ p.managed /\ Own.expectedKey = p.key
      /\ Own.algorithm # "Missing" /\ Own.algorithm # "Other" /\ Own.bucketKey = "Disabled"
  BY DEF VerifyConfiguration
<1>2. Own.algorithm = Algorithm(o) /\ Own.bucketKey = BucketKeyOf(Option(o, "BucketKey"))
  BY OwnReads
<1>3. Algorithm(o) = "SseKms" /\ Option(o, "Algorithm") = "aws:kms"
  BY <1>1, <1>2 DEF Algorithm
<1>4. Option(o, "BucketKey") = "false"
  BY <1>1, <1>2 DEF BucketKeyOf
<1> QED
  BY <1>1, <1>2, <1>3, <1>4

(* The headers of a put are the options it was configured with. *)
LEMMA HeaderIsOption ==
    ASSUME NEW o, NEW name, NEW b, b.op = "PUT", NEW body, NEW r, r = Request(o, name, b, body),
           NEW h \in Encryption
    PROVE  Header(r, h) = Option(o, h)
<1>1. PICK D : D = {a.name : a \in {x \in o : b.op = "PUT" /\ x.name \in Encryption}}
  OBVIOUS
<1>2. r.sse = [x \in D |-> Option(o, x)]
  BY <1>1 DEF Request, SseHeaders
<1>3. h \in D <=> Given(o, {h})
  BY <1>1 DEF Given
<1> QED
  BY <1>2, <1>3 DEF Header, Option

LEMMA SameBase ==
    ASSUME NEW o, HostIsKnown(o), NEW name
    PROVE  Base(o, name, ClientSuffix) = Base(o, name, DnsSuffix)
<1>1. CASE Endpoint(o) # None
  BY <1>1 DEF Base
<1>2. CASE ClientSuffix[Region(o)] = DnsSuffix[Region(o)]
  BY <1>2 DEF Base
<1> QED
  BY <1>1, <1>2 DEF HostIsKnown

LEMMA PutHeaders ==
    ASSUME ServiceShape, NEW w, Passed(w), Managed, NEW n, NEW b, NEW r,
           b = Put(WriteBinding(w, n), Location(w)), r = RequestFor(b, w.body)
    PROVE  /\ Header(r, "Algorithm") = "aws:kms" /\ Header(r, "BucketKey") = "false"
           /\ Header(r, "KmsKeyId") = Own.requestKey
<1>1. PICK o : o = service.settings.options
  OBVIOUS
<1>2. service.reading = o
  BY <1>1, PassedMeans, OpenReads
<1>3. r = Request(o, service.settings.bucket, b, w.body)
  BY <1>2 DEF RequestFor
<1>4. b.op = "PUT"
  BY DEF Put
<1>5. Option(o, "Algorithm") = "aws:kms" /\ Option(o, "BucketKey") = "false"
  BY <1>1, PassedMeans, ConfigurationMeans
<1>6. Own.requestKey = Option(o, "KmsKeyId")
  BY <1>1, OwnReads
<1>7. \A h \in Encryption : Header(r, h) = Option(o, h)
  BY <1>3, <1>4, HeaderIsOption
<1> QED
  BY <1>5, <1>6, <1>7 DEF Encryption

LEMMA PutLeaves ==
    ASSUME ServiceShape, NEW w, Passed(w), Managed, HostIsKnown(service.settings.options),
           NEW n, NEW b, NEW r,
           b = Put(WriteBinding(w, n), Location(w)), r = RequestFor(b, w.body)
    PROVE  Observe(Own, b, r) = "leaves"
<1>1. PICK o : o = service.settings.options
  OBVIOUS
<1>2. service.reading = o
  BY <1>1, PassedMeans, OpenReads
<1>3. r = Request(o, service.settings.bucket, b, w.body)
  BY <1>2 DEF RequestFor
<1>4. b.op = "PUT" /\ b.version = 0 /\ b.location = Location(w) /\ b.binding.digest = w.digest
  BY DEF Put, WriteBinding
<1>5. /\ r.method = "PUT" /\ r.base = Base(o, service.settings.bucket, ClientSuffix)
      /\ r.location = b.location /\ r.version = b.version /\ r.region = Region(o)
      /\ r.content = w.body
  BY <1>3, <1>4 DEF Request
<1>6. Own.algorithm = "SseKms" /\ Own.bucketKey = "Disabled"
  BY <1>1, PassedMeans, ConfigurationMeans
<1>7. Own.base = Base(o, service.settings.bucket, DnsSuffix) /\ Own.region = Region(o)
  BY <1>1, OwnReads
<1>8. r.base = Own.base
  BY <1>1, <1>5, <1>7, SameBase
<1>9. /\ Header(r, "Algorithm") = "aws:kms" /\ Header(r, "BucketKey") = "false"
      /\ Header(r, "KmsKeyId") = Own.requestKey
  BY PutHeaders
<1>10. w.digest = w.body
  BY PassedMeans
<1>11. VerifyTarget(Own, b, r)
  BY <1>4, <1>5, <1>8 DEF VerifyTarget
<1>12. VerifySignature(Own, b, r)
  BY <1>4, <1>5, <1>6, <1>7, <1>9, <1>10 DEF VerifySignature
<1> QED
  BY <1>11, <1>12 DEF Observe

LEMMA GetLeaves ==
    ASSUME ServiceShape, service.open, Managed, HostIsKnown(service.settings.options),
           NEW binding, NEW loc, NEW version, NEW b, NEW r,
           b = ReadbackBinding(binding, loc, version), r = RequestFor(b, <<>>)
    PROVE  Observe(Own, b, r) = "leaves"
<1>1. PICK o : o = service.settings.options
  OBVIOUS
<1>2. r = Request(o, service.settings.bucket, b, <<>>)
  BY <1>1, OpenReads DEF RequestFor
<1>3. b.op = "GET"
  BY DEF ReadbackBinding
<1>4. /\ r.method = "GET" /\ r.base = Base(o, service.settings.bucket, ClientSuffix)
      /\ r.location = b.location /\ r.version = b.version /\ r.region = Region(o)
      /\ r.content = <<>>
  BY <1>2, <1>3 DEF Request
<1>5. r.base = Own.base /\ Own.region = Region(o)
  BY <1>1, <1>4, OwnReads, SameBase
<1> QED
  BY <1>3, <1>4, <1>5 DEF Observe, VerifyTarget, VerifySignature

LEMMA TwoOf ==
    ASSUME NEW S, IsFiniteSet(S), NEW x \in S, NEW y \in S, x # y
    PROVE  Cardinality(S) > 1
<1>1. Cardinality({x}) = 1 /\ IsFiniteSet({x})
  BY FS_Singleton
<1>2. Cardinality({x} \union {y}) = 2
  BY <1>1, FS_AddElement
<1>3. Cardinality({x} \union {y}) =< Cardinality(S)
  BY FS_Subset
<1>4. Cardinality(S) \in Nat
  BY FS_CardinalityType
<1> QED
  BY <1>2, <1>3, <1>4

(* What a client asks for credentials is what its settings allow. *)
LEMMA CredentialsStand ==
    ASSUME NEW o, CredentialMode(o) # "Refused"
    PROVE  \A r \in CredentialRequests(o) : VerifyCredential(CredentialMode(o), o, r)
<1>1. PICK groups : groups = {g \in {AccessKeys, Instance, {"EcsRelativeUri"}} : Given(o, g)}
  OBVIOUS
<1>2. IsFiniteSet(groups)
  <2>1. PICK A, B, C : A = AccessKeys /\ B = Instance /\ C = {"EcsRelativeUri"}
    OBVIOUS
  <2>2. IsFiniteSet({A})
    BY FS_Singleton
  <2>3. IsFiniteSet({A} \union {B})
    BY <2>2, FS_AddElement
  <2>4. IsFiniteSet(({A} \union {B}) \union {C})
    BY <2>3, FS_AddElement
  <2>5. groups \subseteq ({A} \union {B}) \union {C}
    BY <1>1, <2>1
  <2> QED
    BY <2>4, <2>5, FS_Subset
<1>3. Cardinality(groups) \in Nat /\ ~(Cardinality(groups) > 1)
  BY <1>1, <1>2, FS_CardinalityType DEF CredentialMode
<1>4. /\ AccessKeys # Instance /\ AccessKeys # {"EcsRelativeUri"}
      /\ Instance # {"EcsRelativeUri"}
  BY DEF AccessKeys, Instance
<1>5. /\ ~(Given(o, AccessKeys) /\ Given(o, Instance))
      /\ ~(Given(o, AccessKeys) /\ Given(o, {"EcsRelativeUri"}))
      /\ ~(Given(o, Instance) /\ Given(o, {"EcsRelativeUri"}))
  BY <1>1, <1>2, <1>3, <1>4, TwoOf
<1>6. CASE Given(o, {"AccessKeyId"}) /\ Given(o, {"SecretAccessKey"})
  BY <1>6 DEF CredentialRequests
<1>7. CASE ~(Given(o, {"AccessKeyId"}) /\ Given(o, {"SecretAccessKey"}))
  <2>1. ~Given(o, AccessKeys)
    BY <1>1, <1>3, <1>7 DEF CredentialMode
  <2>2. CASE Given(o, {"EcsRelativeUri"})
    <3>1. CredentialMode(o) = "EcsRelative"
      BY <1>1, <1>3, <1>5, <2>1, <2>2 DEF CredentialMode
    <3> QED
      BY <1>7, <2>2, <3>1 DEF CredentialRequests, VerifyCredential
  <2>3. CASE ~Given(o, {"EcsRelativeUri"})
    <3>1. CredentialMode(o) = "ImdsV2"
      BY <1>1, <1>3, <2>1, <2>3 DEF CredentialMode
    <3> QED
      BY <1>7, <2>3, <3>1 DEF CredentialRequests, VerifyCredential
  <2> QED
    BY <2>2, <2>3
<1> QED
  BY <1>6, <1>7

(* What the evidence of an object the service made is worth. *)
LEMMA ObservedStands ==
    ASSUME Fits, Managed, NEW p, VerifyConfiguration(p, Own) = "stands",
           NEW i, NEW h \in Responses(i), NEW o, o = bucket.made[i], MadeHere(i, o),
           NEW b, NEW r, NEW e, e = Evidence(b, r, h)
    PROVE  /\ VerifyObserved(Own, e) = "stands" /\ p.managed
           /\ e.binding = b.binding /\ e.op = b.op /\ e.tag = o.tag /\ e.version = VersionOf(i)
           /\ e.algorithm = "SseKms" /\ e.bucketKey \in {"Missing", "Disabled"}
           /\ p.key \in {None, e.key}
<1>1. o.sse = "aws:kms" /\ ~o.bucketKey /\ o.key = Used
  BY DEF MadeHere
<1>2. /\ e.binding = b.binding /\ e.op = b.op /\ e.tag = o.tag /\ e.version = VersionOf(i)
      /\ e.algorithm = "SseKms" /\ e.bucketKey \in {"Missing", "Disabled"} /\ e.key = Used
  BY <1>1, EvidenceMeans
<1>3. p.managed /\ Own.expectedKey = p.key /\ Own.algorithm = "SseKms"
  BY ConfigurationMeans
<1>4. p.key \in {None, e.key}
  BY <1>2, <1>3 DEF Fits
<1>5. VerifyObserved(Own, e) = "stands"
  BY <1>2, <1>3, <1>4 DEF VerifyObserved
<1> QED
  BY <1>2, <1>3, <1>4, <1>5

(* A write's readback of what it made stands; of what another write made, it *)
(* stands or is a conflict.                                                  *)
LEMMA VerdictAlone ==
    ASSUME Fits, NEW w, Passed(w), NEW n, call.binding = WriteBinding(w, n),
           NEW i, NEW h \in Responses(i), MadeHere(i, bucket.made[i]), bucket.made[i].tag # NoTag,
           ~call.replay => /\ call.tag = bucket.made[i].tag
                           /\ bucket.made[i].body = w.body /\ bucket.made[i].type = w.type,
           NEW b, b.binding = call.binding, b.op = "GET", NEW r
    PROVE  Verdict(w, b, r, i, h) \in {"stands", "ImmutableConflict"}
<1>1. PICK o : o = bucket.made[i]
  OBVIOUS
<1>2. PICK e : e = Evidence(b, r, h)
  OBVIOUS
<1>3. w.digest = w.body /\ o.digest = o.body /\ ~(Len(o.body) > service.settings.max)
  BY <1>1, PassedMeans DEF MadeHere
<1>4. /\ ReadError(o, w.digest, service.settings.max) \in {"stands", "DigestMismatch"}
      /\ o.body = w.body => ReadError(o, w.digest, service.settings.max) = "stands"
  BY <1>3 DEF ReadError
<1>5. PICK a : a = ReceiptOf(w, o, i, call.replay)
  OBVIOUS
<1>6. /\ a.key = w.key /\ a.context = w.context /\ a.size = Len(w.body) /\ a.digest = w.digest
      /\ a.tag = o.tag /\ a.version = VersionOf(i)
  BY <1>5 DEF ReceiptOf
<1>7. MatchesReceipt(call.binding, a)
  BY <1>6 DEF MatchesReceipt, WriteBinding
<1>8. ASSUME Managed
      PROVE  VerifyObserved(Own, e) = "stands" /\ VerifyEvidence(w.policy, a, call.binding, e) = "stands"
  <2>1. /\ w.policy.managed /\ w.policy.context = w.context
        /\ VerifyConfiguration(w.policy, Own) = "stands"
    BY <1>8, PassedMeans
  <2>2. /\ VerifyObserved(Own, e) = "stands"
        /\ e.binding = b.binding /\ e.op = b.op /\ e.tag = o.tag /\ e.version = VersionOf(i)
        /\ e.algorithm = "SseKms" /\ e.bucketKey \in {"Missing", "Disabled"}
        /\ w.policy.key \in {None, e.key}
    BY <1>1, <1>2, <1>8, <2>1, ObservedStands
  <2>3. VerifyEvidence(w.policy, a, call.binding, e) = "stands"
    BY <1>1, <1>6, <1>7, <2>1, <2>2 DEF VerifyEvidence
  <2> QED
    BY <2>2, <2>3
<1>9. CASE o.body # w.body
  <2>1. call.replay
    BY <1>1, <1>9
  <2>2. ReadError(o, w.digest, service.settings.max) = "DigestMismatch"
    BY <1>3, <1>9 DEF ReadError
  <2> QED
    BY <1>1, <2>1, <2>2 DEF Verdict
<1>10. CASE o.body = w.body /\ o.type # w.type
  <2>1. call.replay
    BY <1>1, <1>10
  <2> QED
    BY <1>1, <1>4, <1>10, <2>1 DEF Verdict
<1>11. CASE o.body = w.body /\ o.type = w.type
  <2>1. ~(~call.replay /\ call.tag # o.tag)
    BY <1>1
  <2>2. CASE ~Managed
    BY <1>1, <1>4, <1>11, <2>1, <2>2 DEF Verdict
  <2>3. CASE Managed
    BY <1>1, <1>2, <1>4, <1>5, <1>8, <1>11, <2>1, <2>3 DEF Verdict
  <2> QED
    BY <2>2, <2>3
<1> QED
  BY <1>9, <1>10, <1>11

LEMMA ReadVerdictAlone ==
    ASSUME Fits, NEW a, NEW p, NEW max, ReadRefusal(a, p, max) = "stands",
           NEW i, NEW h \in Responses(i), NEW o, o = bucket.made[i], MadeHere(i, o), o.tag # NoTag,
           a.version = VersionOf(i), a.tag = o.tag, o.body = a.digest, a.size = Len(a.digest),
           NEW b, b.op = "GET", MatchesReceipt(b.binding, a), NEW r
    PROVE  ReadVerdict(a, p, max, b, r, i, h) = "stands"
<1>1. PICK e : e = Evidence(b, r, h)
  OBVIOUS
<1>2. ReadError(o, a.digest, max) = "stands"
  <2>1. ~(a.size > max)
    BY DEF ReadRefusal
  <2> QED
    BY <2>1 DEF MadeHere, ReadError
<1>3. ASSUME Managed
      PROVE  VerifyObserved(Own, e) = "stands" /\ VerifyEvidence(p, a, b.binding, e) = "stands"
  <2>1. p.context = a.context /\ VerifyConfiguration(p, Own) = "stands"
    BY <1>3 DEF ReadRefusal
  <2>2. /\ VerifyObserved(Own, e) = "stands" /\ p.managed
        /\ e.binding = b.binding /\ e.op = b.op /\ e.tag = o.tag /\ e.version = VersionOf(i)
        /\ e.algorithm = "SseKms" /\ e.bucketKey \in {"Missing", "Disabled"}
        /\ p.key \in {None, e.key}
    BY <1>1, <1>3, <2>1, ObservedStands
  <2>3. VerifyEvidence(p, a, b.binding, e) = "stands"
    BY <2>1, <2>2 DEF VerifyEvidence
  <2> QED
    BY <2>2, <2>3
<1>4. ~(o.tag # a.tag \/ VersionOf(i) # a.version \/ Len(o.body) # a.size)
  OBVIOUS
<1>5. CASE ~Managed
  BY <1>2, <1>4, <1>5 DEF ReadVerdict
<1>6. CASE Managed
  BY <1>1, <1>2, <1>3, <1>4, <1>6 DEF ReadVerdict
<1> QED
  BY <1>5, <1>6

LEMMA ThereIsFound ==
    ASSUME NEW i, NEW r, There(r.location, i), r.version \in {0, i}
    PROVE  Found(r) = i
BY DEF There, Found

-----------------------------------------------------------------------------
(* That every step of the service alone leaves it so. *)
LEMMA FitsStays ==
    ASSUME service' = service
    PROVE  (Fits' <=> Fits) /\ Used' = Used
BY ServiceStays DEF Fits, Used, HostIsKnown, Endpoint, Region, FirstOf, Option, Given

LEMMA EndsAlone ==
    ASSUME service' = service, NEW x, NEW began, Ends(x, began),
           (began /\ Fits) => x \in GoodEnds
    PROVE  ReadbackThere' /\ EndsWell' /\ AsksManaged'
<1>1. call'.phase = "idle" /\ call'.result = x /\ call'.began = began
  BY EndsReads
<1>2. Fits' <=> Fits
  BY FitsStays
<1>3. ReadbackThere'
  BY <1>1 DEF ReadbackThere
<1>4. EndsWell'
  BY <1>1, <1>2 DEF EndsWell, GoodEnds
<1>5. AsksManaged'
  BY <1>1 DEF AsksManaged
<1> QED
  BY <1>3, <1>4, <1>5

LEMMA RestAlone ==
    ASSUME AllMade, ReceiptsThere, service' = service, bucket' = bucket,
           history'.receipts = history.receipts
    PROVE  AllMade' /\ ReceiptsThere'
<1>1. AllMade'
  <2>1. \A i, o : MadeHere(i, o)' <=> MadeHere(i, o)
    BY ServiceStays, FitsStays DEF MadeHere, Locations
  <2> QED
    BY <2>1 DEF AllMade
<1>2. ReceiptsThere'
  BY DEF ReceiptsThere, There, Locations, Location, VersionOf
<1> QED
  BY <1>1, <1>2

LEMMA StartWriteAlone ==
    ASSUME IInv, Alone, NEW w \in Writes, StartWrite(w)
    PROVE  Alone'
<1>1. /\ service' = service /\ bucket' = bucket
      /\ history' = [history EXCEPT !.calls = @ + 1]
  BY DEF StartWrite
<1>2. history'.receipts = history.receipts
  BY <1>1 DEF IInv, Shape, HistoryShape
<1>3. AllMade' /\ ReceiptsThere'
  BY <1>1, <1>2, RestAlone DEF Alone
<1>4. ReadbackThere' /\ EndsWell' /\ AsksManaged'
  <2>1. CASE Refusal(w) # "stands"
    <3>1. Ends(Refusal(w), FALSE)
      BY <2>1 DEF StartWrite
    <3> QED
      BY <1>1, <3>1, EndsAlone
  <2>2. CASE Refusal(w) = "stands"
    <3>1. call'.phase = IF Managed THEN "credentials" ELSE "put"
      BY <2>2 DEF StartWrite
    <3> QED
      BY <1>1, <3>1, ServiceStays DEF ReadbackThere, EndsWell, AsksManaged
  <2> QED
    BY <2>1, <2>2
<1> QED
  BY <1>3, <1>4 DEF Alone

LEMMA AcquireAlone ==
    ASSUME IInv, Alone, Acquire
    PROVE  Alone'
<1>1. service' = service /\ bucket' = bucket /\ history' = history
  BY DEF Acquire
<1>2. AllMade' /\ ReceiptsThere'
  BY <1>1, RestAlone DEF Alone
<1>3. PICK w \in Writes, n \in Nat :
        /\ Passed(w)
        /\ call = [phase |-> call.phase, write |-> w, binding |-> WriteBinding(w, n)]
  BY SendingIs DEF Acquire, IInv
<1>4. service.open
  BY <1>3, PassedMeans
<1>5. PICK o : o = service.settings.options
  OBVIOUS
<1>6. CASE call' = [call EXCEPT !.phase = "put"]
  <2>1. PICK b : b = WriteBinding(w, n)
    OBVIOUS
  <2>2. call'.phase = "put"
    BY <1>3, <1>6, <2>1
  <2> QED
    BY <1>2, <2>2 DEF Alone, ReadbackThere, EndsWell, AsksManaged
<1>7. CASE /\ Ends("RequestTargetMismatch", TRUE)
           /\ ~(\A r \in CredentialRequests(service.reading) :
                   VerifyCredential(Own.credentials, service.settings.options, r))
  <2>1. Managed
    BY DEF Acquire, Alone, AsksManaged
  <2>2. service.reading = o /\ CredentialMode(o) # "Refused"
    BY <1>4, <1>5, <2>1, OpenReads DEF IInv, Shape
  <2>3. Own.credentials = CredentialMode(o)
    BY <1>5, OwnReads
  <2> QED
    BY <1>5, <1>7, <2>2, <2>3, CredentialsStand
<1> QED
  BY <1>6, <1>7 DEF Acquire

LEMMA SendPutAlone ==
    ASSUME IInv, Alone, SendPut
    PROVE  Alone'
<1>1. service' = service /\ history' = history
  BY SendPutIs
<1>2. PICK w \in Writes, n \in Nat : \E r :
        /\ Passed(w) /\ call.binding = WriteBinding(w, n)
        /\ r = RequestFor(Put(call.binding, Location(w)), w.body)
        /\ r.location = Location(w)
        /\ PutRefused(w, r) \/ PutReplayed(w, r) \/ PutCreated(w, r)
  BY SendPutIs
<1>3. PICK r : /\ r = RequestFor(Put(call.binding, Location(w)), w.body)
               /\ r.location = Location(w)
               /\ PutRefused(w, r) \/ PutReplayed(w, r) \/ PutCreated(w, r)
  BY <1>2
<1>4. PICK m \in Nat : m = Len(bucket.made)
  BY BucketReads DEF IInv, Shape
<1>5. Location(w) \in Locations
  BY DEF Locations
<1>6. PICK b : b = Put(WriteBinding(w, n), Location(w))
  OBVIOUS
<1>7. Managed => /\ Header(r, "Algorithm") = "aws:kms" /\ Header(r, "BucketKey") = "false"
                 /\ Header(r, "KmsKeyId") = Own.requestKey
  BY <1>2, <1>3, <1>6, PutHeaders DEF IInv, Shape
<1>8. CASE PutRefused(w, r)
  <2>1. /\ Managed /\ bucket' = bucket
        /\ Observe(Own, b, r) # "leaves" /\ Ends(Observe(Own, b, r), TRUE)
    BY <1>2, <1>6, <1>8 DEF PutRefused
  <2>2. ~Fits
    BY <1>2, <1>3, <1>6, <2>1, PutLeaves DEF Fits, IInv, Shape
  <2>3. AllMade' /\ ReceiptsThere'
    BY <1>1, <2>1, RestAlone DEF Alone
  <2>4. ReadbackThere' /\ EndsWell' /\ AsksManaged'
    BY <1>1, <2>1, <2>2, EndsAlone
  <2> QED
    BY <2>3, <2>4 DEF Alone
<1>9. CASE PutReplayed(w, r)
  <2>1. bucket' = bucket
    BY <1>9 DEF PutReplayed
  <2>2. AllMade' /\ ReceiptsThere'
    BY <1>1, <2>1, RestAlone DEF Alone
  <2>3. /\ call'.phase = "get" /\ call'.write = w /\ call'.version = 0 /\ call'.replay = TRUE
    BY <1>9 DEF PutReplayed, ReadsBack
  <2>4. PICK i \in 1..m : bucket.live[Location(w)] = i
    BY <1>4, <1>5, <1>9, BucketReads DEF PutReplayed, IInv, Shape
  <2>5. ReadbackThere'
    BY <1>4, <1>5, <2>1, <2>3, <2>4 DEF ReadbackThere, There, Locations
  <2>6. EndsWell' /\ AsksManaged'
    BY <2>3 DEF EndsWell, AsksManaged
  <2> QED
    BY <2>2, <2>5, <2>6 DEF Alone
<1>10. CASE PutCreated(w, r)
  <2>1. PICK o : o = Created(r, w)
    OBVIOUS
  <2>2. /\ o.location = Location(w) /\ o.body = w.body /\ o.digest = w.digest /\ o.type = w.type
        /\ o.sse = Header(r, "Algorithm") /\ o.bucketKey = (Header(r, "BucketKey") = "true")
        /\ o.key = KeyIdentity[Header(r, "KmsKeyId")]
    BY <1>3, <2>1, CreatedReads
  <2>3. /\ bucket'.versioned = bucket.versioned /\ Len(bucket'.made) = m + 1
        /\ \A i \in 1..m : bucket'.made[i] = bucket.made[i]
        /\ bucket'.made[m + 1] = o
        /\ bucket'.live = [bucket.live EXCEPT ![Location(w)] = m + 1]
        /\ bucket.live[Location(w)] = 0
    BY <1>4, <1>5, <1>10, <2>1, <2>2, KeepReads DEF PutCreated, IInv, Shape
  <2>4. /\ bucket'.live[Location(w)] = m + 1
        /\ \A l \in Locations, i \in 1..m : bucket.live[l] = i => bucket'.live[l] = i
    BY <1>4, <1>5, <2>3, BucketReads DEF IInv, Shape
  <2>5. \A l, i : There(l, i)' <=> l \in Locations /\ bucket'.live[l] = i
    BY DEF There, Locations
  <2>6. \A i \in 1..m + 1 : i \in 1..m \/ i = m + 1
    OBVIOUS
  <2>7. AllMade'
    <3>1. \A i, x : MadeHere(i, x)' <=>
            /\ x.location \in Locations /\ bucket'.live[x.location] = i
            /\ x.digest = x.body /\ ~(Len(x.body) > service.settings.max)
            /\ Managed => x.sse = "aws:kms" /\ ~x.bucketKey /\ x.key = Used
      BY <1>1, ServiceStays, FitsStays DEF MadeHere, Locations
    <3>2. MadeHere(m + 1, o)'
      <4>1. o.digest = o.body /\ ~(Len(o.body) > service.settings.max)
        BY <1>2, <2>2, PassedMeans
      <4>2. Managed => o.sse = "aws:kms" /\ ~o.bucketKey /\ o.key = Used
        BY <1>7, <2>2 DEF Used
      <4> QED
        BY <1>5, <2>2, <2>4, <3>1, <4>1, <4>2
    <3>3. ASSUME NEW i \in 1..m
          PROVE  MadeHere(i, bucket.made[i])'
      <4>1. PICK x : x = bucket.made[i]
        OBVIOUS
      <4>2. MadeHere(i, x)
        BY <1>4, <4>1 DEF Alone, AllMade
      <4>3. bucket'.live[x.location] = i /\ x.location \in Locations
        BY <2>4, <4>2 DEF MadeHere
      <4>4. MadeHere(i, x)'
        BY <3>1, <4>2, <4>3 DEF MadeHere
      <4> QED
        BY <2>3, <4>1, <4>4
    <3>4. ASSUME NEW i \in 1..Len(bucket'.made)
          PROVE  MadeHere(i, bucket.made[i])'
      BY <2>3, <2>6, <3>2, <3>3
    <3> QED
      BY <3>4 DEF AllMade
  <2>8. ReceiptsThere'
    <3> SUFFICES ASSUME NEW a \in history.receipts
                 PROVE  \E i \in 1..Len(bucket'.made) :
                          /\ There(Location(a), i)' /\ a.version = VersionOf(i)'
                          /\ a.tag = bucket'.made[i].tag
                          /\ bucket'.made[i].body = a.digest /\ a.size = Len(a.digest)
      BY <1>1 DEF ReceiptsThere, There, Location, Locations, VersionOf
    <3>1. PICK i \in 1..m :
            /\ There(Location(a), i) /\ a.version = VersionOf(i) /\ a.tag = bucket.made[i].tag
            /\ bucket.made[i].body = a.digest /\ a.size = Len(a.digest)
      BY <1>4 DEF Alone, ReceiptsThere
    <3>2. There(Location(a), i)'
      BY <2>4, <2>5, <3>1 DEF There, Location
    <3>3. VersionOf(i)' = VersionOf(i)
      BY <2>3 DEF VersionOf
    <3>4. bucket'.made[i] = bucket.made[i] /\ i \in 1..Len(bucket'.made)
      BY <2>3
    <3> QED
      BY <3>1, <3>2, <3>3, <3>4
  <2>9. CASE Ends("Backend", TRUE)
    BY <1>1, <2>7, <2>8, <2>9, EndsAlone DEF Alone, GoodEnds
  <2>10. CASE ReadsBack(w, Created(r, w).tag, VersionOf(Len(bucket.made) + 1), FALSE)
    <3>1. PICK v : v = VersionOf(m + 1)
      OBVIOUS
    <3>2. v \in {0, m + 1}
      BY <3>1 DEF VersionOf
    <3>3. /\ call'.phase = "get" /\ call'.write = w /\ call'.version = v /\ call'.replay = FALSE
          /\ call'.tag = o.tag
      BY <1>4, <2>1, <2>10, <3>1 DEF ReadsBack
    <3>4. m + 1 \in 1..Len(bucket'.made)
      BY <2>3
    <3>5. There(Location(w), m + 1)'
      BY <1>5, <2>4, <2>5 DEF Location
    <3>6. ReadbackThere'
      BY <2>2, <2>3, <3>2, <3>3, <3>4, <3>5 DEF ReadbackThere, There, Location
    <3>7. EndsWell' /\ AsksManaged'
      BY <3>3 DEF EndsWell, AsksManaged
    <3> QED
      BY <2>7, <2>8, <3>6, <3>7 DEF Alone
  <2> QED
    BY <1>10, <2>9, <2>10 DEF PutCreated
<1> QED
  BY <1>3, <1>8, <1>9, <1>10

LEMMA SendGetAlone ==
    ASSUME IInv, Alone, SendGet
    PROVE  Alone'
<1>1. service' = service /\ bucket' = bucket /\ call.phase = "get"
  BY SendGetIs DEF SendGet
<1>2. PICK w \in Writes, n \in Nat : \E b, r :
        /\ call.write = w /\ Passed(w) /\ call.binding = WriteBinding(w, n)
        /\ b = ReadbackBinding(call.binding, Location(w), call.version)
        /\ r = RequestFor(b, <<>>)
        /\ r.location = Location(w) /\ r.version = call.version
        /\ \/ GetRefused(w, b, r)
           \/ GetNothing(r)
           \/ \E i \in 1..Len(bucket.made) : \E h \in Responses(i) :
                /\ i = Found(r)
                /\ GetAttested(w, b, r, i, h) \/ GetRejected(w, b, r, i, h)
  BY SendGetIs, Zenon
<1>3. PICK b, r :
        /\ b = ReadbackBinding(call.binding, Location(w), call.version)
        /\ r = RequestFor(b, <<>>)
        /\ r.location = Location(w) /\ r.version = call.version
        /\ \/ GetRefused(w, b, r)
           \/ GetNothing(r)
           \/ \E i \in 1..Len(bucket.made) : \E h \in Responses(i) :
                /\ i = Found(r)
                /\ GetAttested(w, b, r, i, h) \/ GetRejected(w, b, r, i, h)
  BY <1>2, Zenon
<1>4. PICK i \in 1..Len(bucket.made) :
        /\ There(Location(w), i) /\ call.version \in {0, i}
        /\ ~call.replay => /\ call.tag = bucket.made[i].tag
                           /\ bucket.made[i].body = w.body /\ bucket.made[i].type = w.type
  BY <1>1, <1>2 DEF Alone, ReadbackThere
<1>5. PICK m \in Nat : m = Len(bucket.made)
  BY BucketReads DEF IInv, Shape
<1>6. Found(r) = i /\ i # 0
  <2>1. r.location = Location(w) /\ r.version \in {0, i}
    BY <1>3, <1>4
  <2>2. There(r.location, i)
    BY <1>4, <2>1
  <2>3. Found(r) = i
    BY <2>1, <2>2, ThereIsFound
  <2> QED
    BY <1>4, <1>5, <2>3
<1>7. CASE GetRefused(w, b, r)
  <2>1. service.open /\ ServiceShape
    BY <1>2, PassedMeans DEF IInv, Shape
  <2>2. /\ b = ReadbackBinding(call.binding, Location(w), call.version)
        /\ r = RequestFor(b, <<>>)
    BY <1>3, Zenon
  <2>3. /\ Managed /\ Observe(Own, b, r) # "leaves" /\ Ends(Observe(Own, b, r), TRUE)
        /\ history' = history
    BY <1>7 DEF GetRefused
  <2>4. ~Fits
    BY <2>1, <2>2, <2>3, GetLeaves DEF Fits
  <2>5. AllMade' /\ ReceiptsThere'
    BY <1>1, <2>3, RestAlone DEF Alone
  <2>6. ReadbackThere' /\ EndsWell' /\ AsksManaged'
    BY <1>1, <2>3, <2>4, EndsAlone
  <2> QED
    BY <2>5, <2>6 DEF Alone
<1>8. ~GetNothing(r)
  BY <1>6 DEF GetNothing
<1>9. ASSUME ~GetRefused(w, b, r)
      PROVE  \E h \in Responses(i) : GetAttested(w, b, r, i, h) \/ GetRejected(w, b, r, i, h)
  <2>1. \E j \in 1..Len(bucket.made) : \E h \in Responses(j) :
          j = i /\ (GetAttested(w, b, r, j, h) \/ GetRejected(w, b, r, j, h))
    BY <1>3, <1>6, <1>8, <1>9, Zenon
  <2> QED
    BY <2>1, Zenon
<1>10. MadeHere(i, bucket.made[i])
  BY DEF Alone, AllMade
<1>11. b.binding = call.binding /\ b.op = "GET"
  BY <1>3 DEF ReadbackBinding
<1>15. bucket.made[i].tag # NoTag
  BY TagsAreGiven
<1>12. ASSUME NEW h \in Responses(i)
       PROVE  Fits => Verdict(w, b, r, i, h) \in {"stands", "ImmutableConflict"}
  BY <1>2, <1>4, <1>10, <1>11, <1>15, VerdictAlone
<1>13. ASSUME NEW h \in Responses(i), GetRejected(w, b, r, i, h)
       PROVE  Alone'
  <2>1. history'.receipts = history.receipts
    BY <1>13 DEF GetRejected
  <2>2. AllMade' /\ ReceiptsThere'
    BY <1>1, <2>1, RestAlone DEF Alone
  <2>3. ReadbackThere' /\ EndsWell' /\ AsksManaged'
    BY <1>1, <1>12, <1>13, EndsAlone DEF GetRejected, GoodEnds
  <2> QED
    BY <2>2, <2>3 DEF Alone
<1>14. ASSUME NEW h \in Responses(i), GetAttested(w, b, r, i, h)
       PROVE  Alone'
  <2>1. PICK a : a = ReceiptOf(w, bucket.made[i], i, call.replay)
    OBVIOUS
  <2>2. history' = [history EXCEPT !.receipts = @ \union {a}]
    BY <1>14, <2>1 DEF GetAttested
  <2>3. history'.receipts = history.receipts \union {a}
    BY <2>2 DEF IInv, Shape, HistoryShape
  <2>4. AllMade'
    <3>1. \A j, o : MadeHere(j, o)' <=> MadeHere(j, o)
      BY <1>1, ServiceStays, FitsStays DEF MadeHere, Locations
    <3> QED
      BY <1>1, <3>1 DEF Alone, AllMade
  <2>5. /\ There(Location(a), i) /\ a.version = VersionOf(i) /\ a.tag = bucket.made[i].tag
        /\ bucket.made[i].body = a.digest /\ a.size = Len(a.digest)
    <3>1. /\ a.key = w.key /\ a.context = w.context /\ a.size = Len(w.body)
          /\ a.digest = w.digest /\ a.tag = bucket.made[i].tag /\ a.version = VersionOf(i)
      BY <2>1 DEF ReceiptOf
    <3>2. w.digest = w.body
      BY <1>2, PassedMeans
    <3>3. Verdict(w, b, r, i, h) = "stands"
      BY <1>14 DEF GetAttested
    <3>4. bucket.made[i].body = w.digest
      BY <1>2, <3>3, VerdictIsTrue DEF TrueOf
    <3>5. Location(a) = Location(w)
      BY <3>1 DEF Location
    <3> QED
      BY <1>4, <3>1, <3>2, <3>4, <3>5
  <2>6. ReceiptsThere'
    BY <1>1, <2>3, <2>5 DEF Alone, ReceiptsThere, There, Locations, Location, VersionOf
  <2>7. ReadbackThere' /\ EndsWell' /\ AsksManaged'
    BY <1>1, <1>14, EndsAlone DEF GetAttested, GoodEnds
  <2> QED
    BY <2>4, <2>6, <2>7 DEF Alone
<1> QED
  BY <1>7, <1>9, <1>13, <1>14

LEMMA ReadReceiptAlone ==
    ASSUME IInv, Alone, NEW a \in history.receipts, NEW p, NEW max, ReadReceipt(a, p, max)
    PROVE  Alone'
<1>1. /\ service' = service /\ bucket' = bucket /\ service.open
      /\ history' = [history EXCEPT !.calls = @ + 1]
  BY DEF ReadReceipt
<1>2. history'.receipts = history.receipts
  BY <1>1 DEF IInv, Shape, HistoryShape
<1>3. AllMade' /\ ReceiptsThere'
  BY <1>1, <1>2, RestAlone DEF Alone
<1>4. PICK d : d = WriteBinding([key |-> a.key, context |-> a.context, body |-> a.digest,
                                 digest |-> a.digest], history.calls)
  OBVIOUS
<1>5. PICK b : b = ReadbackBinding(d, Location(a), a.version)
  OBVIOUS
<1>6. PICK r : r = RequestFor(b, <<>>)
  OBVIOUS
<1>7. PICK i \in 1..Len(bucket.made) :
        /\ There(Location(a), i) /\ a.version = VersionOf(i) /\ a.tag = bucket.made[i].tag
        /\ bucket.made[i].body = a.digest /\ a.size = Len(a.digest)
  BY DEF Alone, ReceiptsThere
<1>8. MadeHere(i, bucket.made[i])
  BY DEF Alone, AllMade
<1>9. Found(r) = i /\ i # 0
  <2>1. r.location = Location(a) /\ r.version = a.version
    BY <1>5, <1>6, GetRequestReads
  <2>2. a.version \in {0, i}
    BY <1>7 DEF VersionOf
  <2>3. PICK m \in Nat : m = Len(bucket.made)
    BY BucketReads DEF IInv, Shape
  <2> QED
    BY <1>7, <2>1, <2>2, <2>3, ThereIsFound
<1>10. (Managed /\ Fits) => Observe(Own, b, r) = "leaves"
  BY <1>1, <1>5, <1>6, GetLeaves DEF Fits, IInv, Shape
<1>16. bucket.made[i].tag # NoTag
  BY TagsAreGiven
<1>11. b.op = "GET" /\ b.binding = d
  BY <1>5 DEF ReadbackBinding
<1>12. MatchesReceipt(b.binding, a)
  BY <1>4, <1>7, <1>11 DEF MatchesReceipt, WriteBinding
<1>13. IF ReadRefusal(a, p, max) # "stands" THEN Ends(ReadRefusal(a, p, max), FALSE)
       ELSE IF Managed /\ Observe(Own, b, r) # "leaves" THEN Ends(Observe(Own, b, r), TRUE)
       ELSE IF Found(r) = 0 THEN Ends("NotFound", TRUE)
       ELSE \E h \in Responses(Found(r)) :
              LET verdict == ReadVerdict(a, p, max, b, r, Found(r), h)
              IN  Ends(IF verdict = "stands" THEN "read" ELSE verdict, TRUE)
  BY <1>4, <1>5, <1>6 DEF ReadReceipt
<1>14. CASE ReadRefusal(a, p, max) # "stands"
  <2>1. Ends(ReadRefusal(a, p, max), FALSE)
    BY <1>13, <1>14
  <2> QED
    BY <1>1, <1>3, <2>1, EndsAlone DEF Alone
<1>17. CASE ReadRefusal(a, p, max) = "stands" /\ Managed /\ Observe(Own, b, r) # "leaves"
  <2>1. Ends(Observe(Own, b, r), TRUE) /\ ~Fits
    BY <1>10, <1>13, <1>17
  <2> QED
    BY <1>1, <1>3, <2>1, EndsAlone DEF Alone
<1>15. CASE ReadRefusal(a, p, max) = "stands" /\ ~(Managed /\ Observe(Own, b, r) # "leaves")
  <2>1. PICK h \in Responses(i) :
          Ends(IF ReadVerdict(a, p, max, b, r, i, h) = "stands" THEN "read"
               ELSE ReadVerdict(a, p, max, b, r, i, h), TRUE)
    BY <1>9, <1>13, <1>15
  <2>2. Fits => ReadVerdict(a, p, max, b, r, i, h) = "stands"
    BY <1>7, <1>8, <1>11, <1>12, <1>15, <1>16, ReadVerdictAlone
  <2>3. PICK x : x = IF ReadVerdict(a, p, max, b, r, i, h) = "stands" THEN "read"
                     ELSE ReadVerdict(a, p, max, b, r, i, h)
    OBVIOUS
  <2>4. Ends(x, TRUE) /\ (Fits => x \in GoodEnds)
    BY <2>1, <2>2, <2>3 DEF GoodEnds
  <2> QED
    BY <1>1, <1>3, <2>4, EndsAlone DEF Alone
<1> QED
  BY <1>14, <1>15, <1>17

LEMMA SendGetForeign ==
    ASSUME IInv, SendGet
    PROVE  history'.foreign = history.foreign
<1>1. \/ history' = history
      \/ \E R : history' = [history EXCEPT !.receipts = @ \union R]
  BY DEF SendGet
<1> QED
  BY <1>1 DEF IInv, Shape, HistoryShape

LEMMA AloneInit == WriteInit => Alone
<1> SUFFICES ASSUME WriteInit
             PROVE  Alone
  OBVIOUS
<1>1. /\ bucket \in [versioned : BOOLEAN, made : {<<>>}, live : {[l \in Locations |-> 0]}]
      /\ call = Idle /\ history = [calls |-> 0, foreign |-> 0, receipts |-> {}]
  BY DEF WriteInit
<1>2. Len(bucket.made) = 0 /\ history.receipts = {}
  BY <1>1
<1>3. call.phase = "idle" /\ call.began = FALSE
  BY <1>1 DEF Idle
<1>4. AllMade /\ ReceiptsThere
  BY <1>2 DEF AllMade, ReceiptsThere
<1> QED
  BY <1>3, <1>4 DEF Alone, ReadbackThere, EndsWell, AsksManaged

LEMMA AloneNext ==
    ASSUME IInv, AloneInv, [WriteNext]_writeVars
    PROVE  AloneInv'
<1>1. ASSUME history'.foreign = history.foreign, Alone => Alone'
      PROVE  AloneInv'
  BY <1>1 DEF AloneInv
<1>2. ASSUME NEW w \in Writes, StartWrite(w)
      PROVE  AloneInv'
  <2>1. history'.foreign = history.foreign
    BY <1>2 DEF StartWrite, IInv, Shape, HistoryShape
  <2> QED
    BY <1>1, <1>2, <2>1, StartWriteAlone
<1>3. CASE Acquire
  <2>1. history' = history
    BY <1>3 DEF Acquire
  <2> QED
    BY <1>1, <1>3, <2>1, AcquireAlone
<1>4. CASE SendPut
  BY <1>1, <1>4, SendPutIs, SendPutAlone
<1>5. CASE SendGet
  <2>1. history'.foreign = history.foreign
    BY <1>5, SendGetForeign
  <2> QED
    BY <1>1, <1>5, <2>1, SendGetAlone
<1>6. CASE Interfere
  <2>1. history' = [history EXCEPT !.foreign = @ + 1]
    BY <1>6 DEF Interfere
  <2>2. history'.foreign = history.foreign + 1 /\ history.foreign \in Nat
    BY <2>1 DEF IInv, Shape, HistoryShape
  <2> QED
    BY <2>2 DEF AloneInv
<1>7. ASSUME NEW a \in history.receipts, NEW w \in Writes, NEW max \in ReadLimits,
             ReadReceipt(a, w.policy, max)
      PROVE  AloneInv'
  <2>1. history'.foreign = history.foreign
    BY <1>7 DEF ReadReceipt, IInv, Shape, HistoryShape
  <2> QED
    BY <1>1, <1>7, <2>1, ReadReceiptAlone
<1>8. CASE UNCHANGED writeVars
  <2>1. service' = service /\ bucket' = bucket /\ call' = call /\ history' = history
    BY <1>8 DEF writeVars
  <2>2. Alone => Alone'
    <3>1. ASSUME Alone PROVE AllMade' /\ ReceiptsThere'
      BY <2>1, <3>1, RestAlone DEF Alone
    <3>2. ReadbackThere => ReadbackThere'
      BY <2>1 DEF ReadbackThere, There, Location, Locations
    <3>3. EndsWell => EndsWell'
      BY <2>1, FitsStays, Zenon DEF EndsWell, GoodEnds
    <3>4. AsksManaged => AsksManaged'
      BY <2>1, ServiceStays, Zenon DEF AsksManaged
    <3> QED
      BY <3>1, <3>2, <3>3, <3>4 DEF Alone
  <2> QED
    BY <1>1, <2>1, <2>2
<1> QED
  BY <1>2, <1>3, <1>4, <1>5, <1>6, <1>7, <1>8 DEF WriteNext

(* AcceptedSettingsWork for any settings, writes and number of calls: as long *)
(* as nobody else touches the bucket, the client knows the host and the key  *)
(* fits, each request of a write that has passed the first checks leaves, and what is read back is   *)
(* what was put, or what an earlier call of the service has left there.      *)
THEOREM AcceptedForever == WriteSpec => []AcceptedSettingsWork
<1>1. AloneInv => AcceptedSettingsWork
  BY DEF AloneInv, Alone, EndsWell, Fits, Used, GoodEnds, AcceptedSettingsWork
<1>2. WriteInit => AloneInv
  BY AloneInit DEF AloneInv
<1>3. WriteSpec => []AloneInv
  BY <1>2, AloneNext, IInvHolds, PTL DEF WriteSpec
<1> QED
  BY <1>1, <1>3, PTL
=============================================================================

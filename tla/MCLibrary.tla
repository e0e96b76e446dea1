----------------------------- MODULE MCLibrary -----------------------------
(* Instances of the components that are small: each behaviour is one of one  *)
(* component, chosen by task at the start; the others rest, in a first state *)
(* or Unused.  A task that is a single evaluation (a number, a text, a       *)
(* document, a settlement) has its inputs in task and no step.               *)
EXTENDS ModbusClient, Transport, SchemaSync, ManagedWrites, ChunkedObjects, AuditPipeline,
        ExactMetering, TLC

CONSTANTS
    Alphabet, Width, StringTokens, IntegerOf, Rounded, MantissaBits, SafeDigits, MaxNodes,
    MaxDefaultBytes, MaxDocumentBytes, MaxStringToken, MaxNumberToken, MaxPower,
    Systems,   \* the tasks of this run
    u1, w1, r1

VARIABLES
    task,
    limits, profile, budget, at, around, stack, outcome, erred, captured

captureVars == <<limits, profile, budget, at, around, stack, outcome, erred, captured>>
chunkVars == vars

Unused == 0
NoCapture ==
    /\ limits = Unused /\ profile = Unused /\ budget = Unused /\ at = Unused /\ around = Unused
    /\ stack = Unused /\ outcome = Unused /\ erred = Unused /\ captured = Unused
NoTransport ==
    /\ decoder = Unused /\ frames = <<>> /\ stream = <<>> /\ taken = 0
    /\ buffer = <<>> /\ returned = <<>> /\ chunks = <<>>
    /\ readBusy = FALSE /\ writeBusy = FALSE /\ closed = FALSE /\ operation = "none" /\ begun = 0
    /\ pending = <<>> /\ out = <<>> /\ writes = [whole |-> <<>>, last |-> <<>>]
    /\ stage = "dialled" /\ held = FALSE /\ permits = 0 /\ others = [accepting |-> 0, live |-> 0]
NoAudit ==
    /\ redaction = FALSE
    /\ spans = <<>> /\ events = <<>> /\ channel = <<>> /\ senders = 0 /\ dropped = {}
    /\ batch = <<>> /\ sending = <<>> /\ worker = "ended" /\ sent = <<>> /\ failed = {}
NoModbus ==
    /\ framing = "tcp" /\ connection = 0 /\ context = "none"
    /\ calls = <<>> /\ toDevice = <<>> /\ answers = <<>> /\ executed = <<>>
NoSchema ==
    /\ schema = [table \in Tables |-> Absent] /\ runtime = [s \in Services |-> Off]
    /\ boots = [s \in Services |-> 0] /\ faults = 0
NoWrites ==
    /\ service = [settings |-> [scheme |-> "memory"], open |-> FALSE, reading |-> {}]
    /\ bucket = [versioned |-> FALSE, made |-> <<>>, live |-> <<>>]
    /\ call = Idle /\ history = [calls |-> 0, foreign |-> 0, receipts |-> {}]

-----------------------------------------------------------------------------
(* Texts and documents.  Widths are as in the program where they decide: the *)
(* reference objects have 10 and 18 bytes more than their index, and texts   *)
(* of 25 and 26 bytes lie on both sides of what a row of a table may cost.   *)
MCAlphabet ==
    <<"[", "]", "{", "}", ",", ":", " ", "null", "true", "1", "31", "33", "64", "$objectRef", "$r",
      "01", "I0", "I1", "I2", "IndexedV1", "ShortReferencesV2", "a", "b", "digest", "objects",
      "root", "schemaVersion", "sourceDigest", "x25", "x26">>
MCWidth ==
    [t \in Range(MCAlphabet) |->
        CASE t = "x26" -> 26 [] t = "x25" -> 25 [] t = "$objectRef" -> 12 [] t = "$r" -> 4
          [] t \in {"I0", "I1", "I2", "a", "b"} -> 3 [] t \in {"null", "true"} -> 4
          [] t \in {"31", "33", "64"} -> 2 [] t \in {"schemaVersion", "sourceDigest"} -> 16
          [] t \in {"IndexedV1", "ShortReferencesV2"} -> 24 [] t \in {"root", "objects"} -> 8
          [] t = "digest" -> 70 [] OTHER -> 1]
MCStrings ==
    {"$objectRef", "$r", "I0", "I1", "I2", "IndexedV1", "ShortReferencesV2", "a", "b", "digest",
     "objects", "root", "schemaVersion", "sourceDigest", "x25", "x26"}
MCIntegerOf == "1" :> 1 @@ "31" :> 31 @@ "33" :> 33 @@ "64" :> 64
MCRounded == "1" :> "1" @@ "31" :> "31" @@ "33" :> "64" @@ "64" :> "64"

Bound(bytes, counted, nodes) == [bounded |-> TRUE, counted |-> counted, bytes |-> bytes, nodes |-> nodes]
Free == [bounded |-> FALSE, counted |-> FALSE, bytes |-> 0, nodes |-> 0]

Capture == INSTANCE TypedCapture WITH
    calls <- captured, MaxDepth <- 2, MaxCalls <- 6,
    CaptureLimits <- {Bound(26, TRUE, MaxNodes), Bound(9, TRUE, MaxNodes), Free},
    Numbers <- {"33"}, Names <- {"a", "b"}, KeyKinds <- {"string", "float"}, Hints <- {0, 2}
Table == INSTANCE ObjectTable WITH
    MaxDepth <- 6, MaxStringToken <- 80, Formats <- {"IndexedV1", "ShortReferencesV2"},
    ReferenceKey <- [IndexedV1 |-> "$objectRef", ShortReferencesV2 |-> "$r"],
    IndexTokens <- <<"I0", "I1", "I2">>, MaxTableNodes <- 20, MaxPasses <- 3, MaxWorkBytes <- 1000

(* Streams of bytes 0..2: frames of two, frames ended by 0, and frames whose *)
(* second byte is the length of what follows the header.                     *)
MCDecoders ==
    {[kind |-> "fixed", size |-> 2], [kind |-> "delimited", delimiter |-> 0],
     [kind |-> "prefixed", offset |-> 1, width |-> 1, header |-> 2, endian |-> "big",
      includesHeader |-> FALSE, base |-> 3]}
MCFramesOf(d) ==
    CASE d.kind = "fixed" -> {<<1, 2>>}
      [] d.kind = "delimited" -> {<<0>>, <<1, 2, 1, 0>>}
      [] d.kind = "prefixed" -> {<<2, 1, 1>>, <<2, 2, 1, 1>>}
MCOutgoing == {<<1, 2>>, <<2>>}

Ask(fn, at_, count, to, written) ==
    [fn |-> fn, at |-> at_, count |-> count, to |-> to, written |-> written]
MCDeviceRequests ==
    {Ask("ReadHoldingRegisters", 0, 2, 0, 0), Ask("ReadHoldingRegisters", 3, 2, 0, 0),
     Ask("WriteSingleRegister", 0, 0, 1, 7), Ask("ReadCoils", 0, 3, 0, 0)}
MCMaxRead == [fn \in {"ReadCoils", "ReadHoldingRegisters"} |-> 3]
MCMaxWritten == [fn \in {"ReadCoils", "ReadHoldingRegisters"} |-> 0]

SpanFields(text, other) == [text |-> text, other |-> other]
MCAttributes == {SpanFields({"tenant_id"}, {}), SpanFields({}, {"tenant_id"})}
Scalar(kind, secret, length, wide) == [kind |-> kind, secret |-> secret, length |-> length, wide |-> wide]
Entry(name, i) == <<[member |-> name], [item |-> i]>>
MCPayloads == {
    Entry("password", 1) :> Scalar("text", FALSE, 3, 1) @@ Entry("password", 2) :> Scalar("other", FALSE, 0, 1)
    @@ Entry("note", 1) :> Scalar("text", TRUE, 20, 1) @@ Entry("note", 2) :> Scalar("text", FALSE, 28, 3)
    @@ <<[member |-> "password"], [member |-> "hint"]>> :> Scalar("text", FALSE, 16, 1)}

Column(table, columns) == [table |-> table, columns |-> columns]
OldPlan == <<Column("t", <<"id">>), Column("v", <<"id">>)>>
NewPlan == <<Column("t", <<"id", "c", "d">>), Column("v", <<"id">>)>>
MCPlans == [s \in {1, 2} |-> IF s = 1 THEN {NewPlan} ELSE {OldPlan, NewPlan}]
MCFirstSchemas == {[t |-> Absent, v |-> Absent], [t |-> {"id"}, v |-> {"id", "old"}]}

Upload1(declared, input) == [declared |-> declared, input |-> input]
Long == <<1, 1, 1, 1, 2>>
MCRequests ==
    {Upload1(Long, Long), Upload1(<<>>, <<>>), Upload1(<<1, 1>>, <<1, 1>>),
     Upload1(Long, <<1, 1, 1, 1>>), Upload1(<<1, 1>>, Long), Upload1(<<1, 1>>, <<1, 2>>)}

(* Settings: every way to get credentials, both providers, and settings that *)
(* contradict each other; the key asked for is an alias of the one reported.  *)
Opt(name, value) == [name |-> name, value |-> value]
Usual == {Opt("Region", "eu"), Opt("Algorithm", "aws:kms"), Opt("BucketKey", "false")}
Started(options, p, key) ==
    [scheme |-> "s3", bucket |-> "artifacts", options |-> options, profile |-> p,
     expectedKey |-> key, max |-> 2]
Additions ==
    {{Opt("KmsKeyId", "alias")}, {Opt("DefaultRegion", "us")}, {Opt("VirtualHosted", "true")},
     {Opt("EcsRelativeUri", "/role")}, {Opt("AccessKeyId", "id"), Opt("SecretAccessKey", "key")},
     {Opt("AccessKeyId", "id")}, {Opt("ImdsV1Fallback", "false")}, {Opt("ImdsV1Fallback", "true")},
     {Opt("EcsRelativeUri", "/role"), Opt("ImdsV1Fallback", "false")},
     {Opt("UnsignedPayload", "true")}, {Opt("AllowHttp", "true")},
     {Opt("Http1Only", "true"), Opt("Http2Only", "true")}, {Opt("ConnectTimeout", "unreadable")},
     {Opt("ConnectTimeout", "5s"), Opt("DefaultContentType", "text")},
     {Opt("Endpoint", "minio")}, {Opt("S3Endpoint", "minio")},
     {Opt("Endpoint", "minio"), Opt("S3Endpoint", "other")}}
StorageSettings ==
    {[Started({}, "none", "none") EXCEPT !.scheme = "memory", !.bucket = "none"],
     Started({Opt("Region", "moon")}, "none", "none"),
     Started({Opt("Region", "cn"), Opt("Algorithm", "aws:kms"), Opt("BucketKey", "false")}, "aws", "none"),
     Started({Opt("Region", "eu")}, "none", "none"),
     Started({Opt("Region", "eu"), Opt("Algorithm", "AES256"), Opt("BucketKey", "false")}, "aws", "none"),
     Started({Opt("Region", "eu"), Opt("Algorithm", "aws:kms"), Opt("BucketKey", "true")}, "aws", "none")}
    \union {Started(Usual \union e, p, k) :
               e \in {{}} \union Additions, p \in {"aws", "minio"}, k \in {"none", "arn"}}
Policy(managed, p, key) ==
    [managed |-> managed, context |-> "c", profile |-> p, key |-> key]
WriteOf(policy, body) ==
    [key |-> "k", context |-> "c", body |-> body, digest |-> body, type |-> "json", policy |-> policy]
PolicyWrites ==
    LET usual == Policy(TRUE, "aws", "none")
    IN  {WriteOf(p, <<1>>) : p \in {Policy(FALSE, "none", "none"), usual, Policy(TRUE, "aws", "arn"),
                                    Policy(TRUE, "minio", "none"), Policy(TRUE, "minio", "arn")}}
        \union {[WriteOf(usual, <<1>>) EXCEPT !.context = "d"], [WriteOf(usual, <<1>>) EXCEPT !.digest = <<2>>],
                WriteOf(usual, <<2, 2, 2>>), WriteOf(usual, <<2, 2>>)}
MCForeignObjects ==
    {[body |-> <<1>>, type |-> "json", sse |-> x[1], bucketKey |-> x[2], key |-> x[3]] :
        x \in {<<"none", FALSE, "none">>, <<"AES256", FALSE, "none">>,
               <<"aws:kms", TRUE, "arn">>, <<"aws:kms", FALSE, "other">>}}
MCDnsSuffix == [eu |-> "com", us |-> "com", cn |-> "com.cn"]
MCClientSuffix == [eu |-> "com", us |-> "com", cn |-> "com", moon |-> "com", none |-> "com"]
MCKeyIdentity == [none |-> "managed", alias |-> "arn"]

-----------------------------------------------------------------------------
(* The inputs of the single evaluations.                                     *)
Profiles == {"Rfc8785", "IJsonSafeIntegers"}
Integers1 == [kind : {"number"}, n : -140..140]

Digits == UNION {[1..k -> {0, 1, 3}] : k \in 1..3}
Layouts ==
    [kind : {"layout"}, registers : UNION {[1..k -> [1..2 -> 0..3]] : k \in 1..2}]
Exponents == {[huge |-> FALSE, of |-> e] : e \in -4..3} \union {[huge |-> TRUE, of |-> e] : e \in {-1, 1}}
Lexemes ==
    [kind : {"lexeme"},
     x : [negative : BOOLEAN, integer : Digits, fraction : {<<>>, <<0>>, <<1>>, <<1, 0>>, <<0, 3>>},
          exponent : Exponents]]

Leaves1 == {Table!Leaf(t) : t \in {"a", "1", "33"}}
Values1 == Leaves1 \union {[items |-> <<>>], [members |-> <<>>]}
Values2 ==
    Values1 \union {[items |-> s] : s \in UNION {[1..k -> Values1] : k \in 1..2}}
            \union {[members |-> f] : f \in UNION {[d -> Values1] : d \in {{"a"}, {"b"}, {"a", "b"}}}}
Values3 == Values2 \union {[items |-> <<v>>] : v \in Values2} \union {[members |-> ("a" :> v)] : v \in Values2}
Insert1(text, i, t) == SubSeq(text, 1, i) \o <<t>> \o SubSeq(text, i + 1, Len(text))
Edited(text) ==
    {[text |-> text, changed |-> FALSE]}
    \union {[text |-> Insert1(text, i, " "), changed |-> FALSE] : i \in {0, Len(text) - 1, Len(text)}}
    \union {[text |-> RemoveAt(text, i), changed |-> TRUE] : i \in DOMAIN text}
    \union {[text |-> [text EXCEPT ![i] = t], changed |-> TRUE] : i \in DOMAIN text, t \in {"a", "}"}}
Texts == UNION {{[kind |-> "text", v |-> v, edited |-> e] : e \in Edited(Table!Canonical(v))} : v \in Values3}

Shared ==
    LET leaf == {Table!Leaf("x25"), Table!Leaf("x26")}
        inner == leaf \union {[items |-> <<Table!Leaf("x26")>>]}
    IN  {[items |-> s] : s \in UNION {[1..k -> inner] : k \in 0..3}}
        \union {[items |-> <<v, v, Table!Leaf("x26")>>] : v \in {[items |-> <<w, w>>] : w \in inner}}
        \union {[members |-> [a |-> v, b |-> [items |-> <<v, w>>]]] : v, w \in inner}
        \union {[members |-> ("$r" :> v)] : v \in leaf}
Budgets == {[encoded |-> Bound(e, TRUE, MaxNodes), expanded |-> Bound(f, TRUE, MaxNodes)] :
               e \in {240, 600}, f \in {60, 300}} \union {[encoded |-> Free, expanded |-> Free]}
TableFormats == {"IndexedV1", "ShortReferencesV2"}
Encodings == [kind : {"encode"}, v : Shared, limits : Budgets, format : TableFormats]

(* Documents of a row or two, well and badly made: rows that refer to each   *)
(* other or to themselves, that nothing refers to, that do not pay or are    *)
(* out of order, and references that are not well formed.                    *)
Row(t) == [members |-> ("$r" :> Table!Leaf(t))]
Bodies == {Table!Leaf("x26"), Table!Leaf("x25"),
           [items |-> <<Row("I0"), Row("I0")>>], Row("I1")}
Roots == {[items |-> first \o s] : first \in {<<Row("I0")>>, <<Row("I0"), Row("I0")>>}, 
                                    s \in [1..2 -> {Row("I0"), Row("I1"), Table!Leaf("x25")}]}
         \union {[items |-> <<Row("I0"), [members |-> [a |-> Table!Leaf("a")] @@ ("$r" :> Table!Leaf("I0"))]>>]}
Objects == UNION {[rows -> Bodies] : rows \in {{}, {"I0"}, {"I1"}, {"I0", "I1"}}}
Made(r, o) == [schema |-> "ShortReferencesV2", digest |-> <<>>, root |-> r, objects |-> o]
Expansion(document) == Table!Expanded(document, [encoded |-> Free, expanded |-> Free], "ShortReferencesV2", document.root)
Sealed(document) == [document EXCEPT !.digest = Table!DigestBytes(Expansion(document).value)]
Decodings ==
    [kind : {"decode"},
     raw : [document : {Made(Table!Leaf("a"), <<>>)} \union {Sealed(Made(r, o)) : r \in Roots, o \in Objects},
            canonical : {TRUE}],
     limits : {[encoded |-> Free, expanded |-> Free],
               [encoded |-> Bound(600, TRUE, MaxNodes), expanded |-> Bound(90, TRUE, MaxNodes)]}]

Settlements == [kind : {"settle"}, a : {0, 1, 2, 3, 6, 14, 15}, b : 0..8, q : 0..15, r : {0, 1, 2, 7}]

-----------------------------------------------------------------------------
LibraryInit ==
    /\ task \in {[kind |-> k] : k \in Systems \ {"number", "lexeme", "text", "encode", "decode", "settle", "layout"}}
             \union (IF "number" \in Systems THEN Integers1 ELSE {})
             \union (IF "lexeme" \in Systems THEN Lexemes ELSE {})
             \union (IF "text" \in Systems THEN Texts ELSE {})
             \union (IF "encode" \in Systems THEN Encodings ELSE {})
             \union (IF "decode" \in Systems THEN Decodings ELSE {})
             \union (IF "layout" \in Systems THEN Layouts ELSE {})
             \union (IF "settle" \in Systems THEN Settlements ELSE {})
    /\ IF task.kind = "capture" THEN Capture!CaptureInit ELSE NoCapture
    /\ IF task.kind = "tcp" THEN TransportInit ELSE NoTransport
    /\ IF task.kind = "modbus" THEN ModbusInit ELSE NoModbus
    /\ IF task.kind = "audit" THEN AuditInit ELSE NoAudit
    /\ IF task.kind = "schema" THEN SchemaInit ELSE NoSchema
    /\ IF task.kind = "managed" THEN WriteInit ELSE NoWrites
    /\ Init

LibraryNext ==
    /\ UNCHANGED task
    /\ \/ task.kind = "capture" /\ Capture!CaptureNext
          /\ UNCHANGED <<transportVars, modbusVars, auditVars, schemaVars, writeVars, chunkVars>>
       \/ task.kind = "tcp" /\ TransportNext
          /\ UNCHANGED <<captureVars, modbusVars, auditVars, schemaVars, writeVars, chunkVars>>
       \/ task.kind = "modbus" /\ ModbusNext
          /\ UNCHANGED <<captureVars, transportVars, auditVars, schemaVars, writeVars, chunkVars>>
       \/ task.kind = "audit" /\ AuditNext
          /\ UNCHANGED <<captureVars, transportVars, modbusVars, schemaVars, writeVars, chunkVars>>
       \/ task.kind = "schema" /\ SchemaNext
          /\ UNCHANGED <<captureVars, transportVars, modbusVars, auditVars, writeVars, chunkVars>>
       \/ task.kind = "managed" /\ WriteNext
          /\ UNCHANGED <<captureVars, transportVars, modbusVars, auditVars, schemaVars, chunkVars>>
       \/ task.kind = "chunks" /\ Next
          /\ UNCHANGED <<captureVars, transportVars, modbusVars, auditVars, schemaVars, writeVars>>

LibrarySpec ==
    /\ LibraryInit
    /\ [][LibraryNext]_<<task, captureVars, transportVars, modbusVars, auditVars, schemaVars,
                         writeVars, chunkVars>>

-----------------------------------------------------------------------------
(* Whatever a caller's Serialize code does, a capture that succeeds is its   *)
(* value, within the limits, and is read back from its canonical text.       *)
CaptureIsExact == task.kind = "capture" => Capture!CaptureIsExact

(* Canonical JSON: integers and decimal numbers keep their value or are      *)
(* refused, and a text that is read is what its value is written as.         *)
JsonIsExact ==
    /\ task.kind = "number" => Capture!IntegersAreExact(task.n)
    /\ task.kind = "lexeme" => Capture!LexemesAreExact(task.x)
    /\ task.kind = "text" =>
         \A l \in {Bound(26, TRUE, 3), Bound(60, FALSE, 0), Free}, p \in Profiles :
             Capture!ParsedIsWritten(task.edited.text, l, p, task.v, task.edited.changed)

(* Object tables: a source that fits is encoded and never grows; a document  *)
(* is accepted only when each of its rows pays, and then expands exactly.    *)
TablesAreLossless ==
    /\ task.kind = "encode" => Table!EncodesLosslessly(task.v, task.limits, task.format)
    /\ task.kind = "decode" => Table!DecodesOnlyTables(task.raw, task.limits, "ShortReferencesV2")

(* A settlement is the exact quotient, rounded once and as asked; a composite *)
(* Modbus value is that of its registers in any layout.                       *)
NumbersAreExact ==
    /\ task.kind = "settle" => SettlementIsExact(task.a, task.b, task.q, task.r)
    /\ task.kind = "layout" => LayoutsAreExact(task.registers, 4)
=============================================================================

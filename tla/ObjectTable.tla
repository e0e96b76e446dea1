---------------------------- MODULE ObjectTable ----------------------------
(***************************************************************************)
(* warpin-integrity, object_table: a document in which values that occur    *)
(* more than once are rows of a table and the places they occur at are      *)
(* references {"$r": "0"}.                                                  *)
(*                                                                         *)
(* A document is [schema, digest, root, objects], objects a function from   *)
(* row indices to bodies; raw is [document, canonical], canonical telling   *)
(* whether the bytes are the document's canonical text.  Every error of the *)
(* codec is the same error, so a result is [ok, ...].  The codec also adds   *)
(* up every byte it canonicalizes, in "work", against one aggregate bound.  *)
(***************************************************************************)
EXTENDS CanonicalJson

CONSTANTS
    Formats,       \* IndexedV1, ShortReferencesV2
    ReferenceKey,  \* of each format: "$objectRef", "$r"
    IndexTokens,   \* "0", "1", ...: the decimal indices in order
    MaxTableNodes, \* 100,000 per pass over a document
    MaxPasses,     \* 128
    MaxWorkBytes   \* 256 MiB of canonical bytes per call

Limit(encoded, expanded) == [encoded |-> Budget(encoded), expanded |-> Budget(expanded)]
NoLimit == [encoded |-> Unbounded, expanded |-> Unbounded]
NewLimits(encoded, expanded) == ValidLimits(encoded) /\ ValidLimits(expanded)

CanonicalBytes(v) == Bytes(Canonical(v))
Affordable(limits, work) == limits.expanded.bounded => work <= MaxWorkBytes

TextBefore(a, b) ==
    \/ IsStrictPrefix(a, b)
    \/ \E i \in DOMAIN a \intersect DOMAIN b :
          SubSeq(a, 1, i - 1) = SubSeq(b, 1, i - 1) /\ Rank(a[i]) < Rank(b[i])
\* Digests in lexical order: any fixed order of texts.
HashBefore(v, w) == TextBefore(DigestBytes(v), DigestBytes(w))

Decimal1(token) == CHOOSE i \in DOMAIN IndexTokens : IndexTokens[i] = token
Reference(index, format) == [members |-> (ReferenceKey[format] :> Leaf(index))]

(* An object with the reference key is a reference, and nothing else.        *)
IsReference(v, format) == IsObject(v) /\ ReferenceKey[format] \in DOMAIN v.members
WellFormedReference(v, format) ==
    /\ DOMAIN v.members = {ReferenceKey[format]}
    /\ v.members[ReferenceKey[format]] \in {Leaf(t) : t \in StringTokens}
ReferenceIndex(v, format) == v.members[ReferenceKey[format]].leaf

RECURSIVE WireNodes(_, _), WireDepth(_, _), References(_, _), WellReferenced(_, _)
WireChildren(v, format) == IF IsReference(v, format) THEN <<>> ELSE Children(v)
WireNodes(v, format) ==
    1 + Sum([i \in DOMAIN WireChildren(v, format) |-> WireNodes(WireChildren(v, format)[i], format)])
WireDepth(v, format) ==
    IF WireChildren(v, format) = <<>> THEN 0
    ELSE 1 + Maximum([i \in DOMAIN WireChildren(v, format) |->
                         WireDepth(WireChildren(v, format)[i], format)])
References(v, format) ==     \* the indices referred to, one for each use
    IF IsReference(v, format) THEN <<ReferenceIndex(v, format)>>
    ELSE FlattenSeq([i \in DOMAIN Children(v) |-> References(Children(v)[i], format)])
WellReferenced(v, format) ==
    IF IsReference(v, format)
    THEN WellFormedReference(v, format) /\ ReferenceIndex(v, format) \in Range(IndexTokens)
    ELSE \A i \in DOMAIN Children(v) : WellReferenced(Children(v)[i], format)

Bodies(document) == <<document.root>> \o
    [i \in 1..Cardinality(DOMAIN document.objects) |->
        document.objects[SetToSortSeq(DOMAIN document.objects, LAMBDA a, b : Rank(a) < Rank(b))[i]]]
AllReferences(document, format) ==
    FlattenSeq([i \in DOMAIN Bodies(document) |-> References(Bodies(document)[i], format)])
Uses(document, index, format) ==
    Cardinality({i \in DOMAIN AllReferences(document, format) :
                    AllReferences(document, format)[i] = index})

(***************************************************************************)
(* unprofitable: walks root and rows, references included, and names the    *)
(* rows that cost more than they save.  A body of more than the expanded    *)
(* budget is an error.                                                      *)
(***************************************************************************)
CountedReferences(document, limits, format) ==
    LET bodies == Bodies(document)
    IN  /\ \A i \in DOMAIN bodies : WellReferenced(bodies[i], format)
        /\ limits.expanded.bounded =>
              /\ Sum([i \in DOMAIN bodies |-> WireNodes(bodies[i], format)]) <= MaxTableNodes
              /\ \A i \in DOMAIN bodies : WireDepth(bodies[i], format) <= MaxDepth
        /\ Range(AllReferences(document, format)) \subseteq DOMAIN document.objects
        /\ \A i \in 2..Len(bodies) : CanonicalizeBounded(bodies[i], limits.expanded)

EntryBodyBytes(index, body) == CanonicalBytes(body)    \* mutant: a row is its body
EntryBytes(index, body) == CanonicalBytes(body) + Width[index] + 2
Unprofitable(document, format) ==
    {index \in DOMAIN document.objects :
        LET uses == Uses(document, index, format)
            body == document.objects[index]
        IN  \/ uses < 2
            \/ uses * CanonicalBytes(body)
                  <= uses * CanonicalBytes(Reference(index, format)) + EntryBytes(index, body)}
RowsWork(document, format) ==
    MapThenSumSet(LAMBDA index : CanonicalBytes(document.objects[index])
                      + CanonicalBytes(Reference(index, format)) + Width[index],
                  DOMAIN document.objects)

DocumentValue(document) ==
    [members |-> [schemaVersion |-> Leaf(document.schema), sourceDigest |-> Leaf("digest"),
                  root |-> document.root, objects |-> [members |-> document.objects]]]
Raw(document) == [document |-> document, canonical |-> TRUE]
WireBytes(document) == CanonicalBytes(DocumentValue(document))

(***************************************************************************)
(* Decoding.  The depth counts every reference that is followed; the nodes  *)
(* and the bytes are those of the expanded value; the body of a row is      *)
(* canonicalized again at every reference to it.                            *)
(***************************************************************************)
NoValue == [ok |-> FALSE, value |-> Leaf("null"), used |-> {}, work |-> 0]
RECURSIVE Expand(_, _, _, _, _, _)
Expand(document, limits, format, active, depth, v) ==
    LET deep == limits.expanded.bounded /\ depth > MaxDepth
        index == ReferenceIndex(v, format)
        body == Expand(document, limits, format, active \union {index}, depth + 1,
                       document.objects[index])
        parts == [i \in DOMAIN Children(v) |->
                     Expand(document, limits, format, active, depth + 1, Children(v)[i])]
        values == [i \in DOMAIN parts |-> parts[i].value]
    IN  IF deep THEN NoValue
        ELSE IF IsReference(v, format) THEN
             IF ~WellFormedReference(v, format) \/ index \notin DOMAIN document.objects
                \/ index \in active THEN NoValue
             ELSE [body EXCEPT !.used = @ \union {index},
                               !.work = @ + CanonicalBytes(body.value),
                               !.ok = @ /\ CanonicalizeBounded(body.value, limits.expanded)]
        ELSE [ok |-> \A i \in DOMAIN parts : parts[i].ok,
              used |-> UNION {parts[i].used : i \in DOMAIN parts},
              work |-> Sum([i \in DOMAIN parts |-> parts[i].work])
                       + (IF IsLeaf(v) THEN CanonicalBytes(v)
                          ELSE IF IsObject(v) THEN Bytes(Members(v)) ELSE 0),
              value |-> IF IsArray(v) THEN [items |-> values]
                        ELSE IF IsObject(v)
                        THEN [members |-> [k \in DOMAIN v.members |->
                                 values[CHOOSE i \in DOMAIN values : Members(v)[i] = k]]]
                        ELSE v]

(* The bytes charged while expanding.                                        *)
RECURSIVE Charge(_)
Charge(v) ==
    IF IsLeaf(v) THEN Bytes(<<v.leaf>>)
    ELSE 2 + (IF Len(Children(v)) = 0 THEN 0 ELSE Len(Children(v)) - 1)
         + (IF IsObject(v) THEN Bytes(Members(v)) + Len(Members(v)) ELSE 0)
         + Sum([i \in DOMAIN Children(v) |-> Charge(Children(v)[i])])

Expanded(document, limits, format, v) == Expand(document, limits, format, {}, 0, v)

HashesAscend(document, limits, format) ==
    LET full(i) == Expanded(document, limits, format, document.objects[IndexTokens[i]]).value
    IN  \A i \in 2..Cardinality(DOMAIN document.objects) : HashBefore(full(i - 1), full(i))

WireFits(document, limits) ==
    LET wire == ObjectTableWire(limits)
        text == Canonical(DocumentValue(document))
    IN  Ok(ParseJsonStrict(text, wire, "Rfc8785"))

Accepted(raw, limits, format, full) ==
    LET document == raw.document
    IN  /\ WireFits(document, limits.encoded)
        /\ document.schema = format
        /\ raw.canonical
        /\ CountedReferences(document, limits, format)
        /\ Unprofitable(document, format) = {}
        /\ DOMAIN document.objects = {IndexTokens[i] : i \in 1..Cardinality(DOMAIN document.objects)}
        /\ full.ok
        /\ limits.expanded.bounded =>
              /\ NodeCount(full.value) <= MaxTableNodes
              /\ Charge(full.value) <= limits.expanded.bytes
        /\ Affordable(limits, WireBytes(document) + RowsWork(document, format)
                              + full.work + CanonicalBytes(full.value))
        /\ full.used = DOMAIN document.objects
        /\ HashesAscend(document, limits, format)
        /\ DigestBytes(full.value) = document.digest
Decode(raw, limits, format) ==
    LET full == Expanded(raw.document, limits, format, raw.document.root)
    IN  IF Accepted(raw, limits, format, full) THEN full ELSE NoValue

(***************************************************************************)
(* Encoding: values that occur more than once are candidates, in the order  *)
(* of their digests; rows that do not pay are taken back until all do, and  *)
(* the result must be what the decoder accepts.                             *)
(***************************************************************************)
RECURSIVE Occurrences(_, _), Body(_, _, _), Share(_, _, _)
Occurrences(v, part) ==
    (IF v = part THEN 1 ELSE 0) + Sum([i \in DOMAIN Children(v) |-> Occurrences(Children(v)[i], part)])
Candidates(v) ==
    SetToSortSeq({part \in Parts(v) : Occurrences(v, part) > 1}, HashBefore)

Body(v, candidates, format) ==
    LET values == [i \in DOMAIN Children(v) |-> Share(Children(v)[i], candidates, format)]
    IN  IF IsArray(v) THEN [items |-> values]
        ELSE IF IsObject(v)
        THEN [members |-> [k \in DOMAIN v.members |->
                 values[CHOOSE i \in DOMAIN values : Members(v)[i] = k]]]
        ELSE v
Share(v, candidates, format) ==
    IF v \in Range(candidates)
    THEN Reference(IndexTokens[CHOOSE i \in DOMAIN candidates : candidates[i] = v], format)
    ELSE Body(v, candidates, format)

Pass(v, candidates, format) ==
    [schema |-> format, digest |-> DigestBytes(v), root |-> Share(v, candidates, format),
     objects |-> [index \in {IndexTokens[i] : i \in DOMAIN candidates} |->
                     Body(candidates[Decimal1(index)], candidates, format)]]

(* count canonicalizes every value of the source; a pass again the values it *)
(* comes to, and it goes into a candidate only where it first meets it.      *)
RECURSIVE CountWork(_), BelowWork(_, _)
CountWork(v) ==
    CanonicalBytes(v) + Sum([i \in DOMAIN Children(v) |-> CountWork(Children(v)[i])])
BelowWork(v, candidates) ==
    Sum([i \in DOMAIN Children(v) |->
            CanonicalBytes(Children(v)[i])
            + IF Children(v)[i] \in Range(candidates) THEN 0
              ELSE BelowWork(Children(v)[i], candidates)])
PassWork(v, candidates) ==
    CanonicalBytes(v) + BelowWork(v, candidates)
    + Sum([i \in DOMAIN candidates |-> BelowWork(candidates[i], candidates)])

Refused == [ok |-> FALSE, document |-> [schema |-> "none"], work |-> 0]
Encoded(document, work) == [ok |-> TRUE, document |-> document, work |-> work]

RECURSIVE Prune(_, _, _, _, _, _), Review(_, _, _, _, _, _, _)
Kept(candidates, rejected) ==
    SelectSeq(candidates, LAMBDA c : IndexTokens[CHOOSE i \in DOMAIN candidates : candidates[i] = c]
                                         \notin rejected)
Prune(v, candidates, limits, format, passes, work) ==
    LET document == Pass(v, candidates, format)
    IN  Review(v, candidates, limits, format, passes,
               work + PassWork(v, candidates) + RowsWork(document, format), document)
Review(v, candidates, limits, format, passes, work, document) ==
    LET rejected == Unprofitable(document, format)
    IN  IF \/ limits.expanded.bounded /\ passes = MaxPasses
           \/ ~CountedReferences(document, limits, format)
           \/ ~Affordable(limits, work) THEN Refused
        ELSE IF rejected = {} THEN Encoded(document, work + WireBytes(document))
        ELSE Prune(v, Kept(candidates, rejected), limits, format, passes + 1, work)

ReservesNothing(v, format) == \A part \in Parts(v) : ~IsReference(part, format)

Counted(v, limits, format) ==
    /\ CanonicalizeBounded(v, limits.expanded)
    /\ ReservesNothing(v, format)
    /\ limits.expanded.bounded => NodeCount(v) <= MaxTableNodes /\ Nesting(v) <= MaxDepth
Restores(back, v) == back.ok /\ back.value = v
ReadBack(v, limits, format, table) ==
    /\ table.ok
    /\ CanonicalizeBounded(DocumentValue(table.document), limits.encoded)
    /\ Affordable(limits, table.work)
    /\ Restores(Decode(Raw(table.document), limits, format), v)
Table(v, limits, format) ==
    Prune(v, Candidates(v), limits, format, 0, CanonicalBytes(v) + CountWork(v))
Encode(v, limits, format) ==
    LET table == Table(v, limits, format)
    IN  IF Counted(v, limits, format) /\ ReadBack(v, limits, format, table) THEN table ELSE Refused

-----------------------------------------------------------------------------
Plain(v, format) ==
    [schema |-> format, digest |-> DigestBytes(v), root |-> v, objects |-> <<>>]

RECURSIVE Inlined(_, _, _, _)
Inlined(v, index, body, format) ==
    LET values == [i \in DOMAIN Children(v) |-> Inlined(Children(v)[i], index, body, format)]
    IN  IF IsReference(v, format) THEN IF ReferenceIndex(v, format) = index THEN body ELSE v
        ELSE IF IsArray(v) THEN [items |-> values]
        ELSE IF IsObject(v)
        THEN [members |-> [k \in DOMAIN v.members |->
                 values[CHOOSE i \in DOMAIN values : Members(v)[i] = k]]]
        ELSE v
WithoutRow(document, index, format) ==
    LET inline(v) == Inlined(v, index, document.objects[index], format)
    IN  [document EXCEPT !.root = inline(@),
             !.objects = [i \in DOMAIN @ \ {index} |-> inline(@[i])]]

Fits(v, limits, format) ==
    /\ ReservesNothing(v, format)
    /\ 2 * NodeCount(v) <= MaxTableNodes
    /\ 2 * (Nesting(v) + 1) <= MaxDepth
    /\ CanonicalizeBounded(v, limits.expanded)
    /\ WireFits(Plain(v, format), limits.encoded)
    /\ Affordable(limits, Table(v, NoLimit, format).work)
NeverGrows(table, plain) == table.ok => WireBytes(table.document) <= WireBytes(plain)
TableOf(v, limits, format, table) ==
    (Fits(v, limits, format) => table.ok) /\ NeverGrows(table, Plain(v, format))

(* A source is encoded whenever its plain document, without any row, is      *)
(* within the limits, half of the nodes and of the depth left for the        *)
(* references, and what the passes over it canonicalize is within the work:  *)
(* the strict consumer the encoder runs at the end, with a work of its own,  *)
(* never refuses what the encoder made.  The result is never longer than     *)
(* that document.                                                            *)
EncodesLosslessly(v, limits, format) ==
    TableOf(v, limits, format, Encode(v, limits, format))

EveryRowPays(document, format) ==
    \A index \in DOMAIN document.objects :
        WireBytes(WithoutRow(document, index, format)) > WireBytes(document)
ValueOf(document, format, full) ==
    full.ok =>
       /\ EveryRowPays(document, format)
       /\ ReservesNothing(full.value, format)
       /\ Charge(full.value) = Bytes(Canonical(full.value))
       /\ Encode(full.value, NoLimit, format).ok

(* Of an accepted document every row pays: written out at each of its uses   *)
(* it would make the document longer.  The expanded value uses the reference *)
(* key nowhere, its canonical text is as long as the bytes that were charged *)
(* while expanding, and the encoder accepts it again under no limits.        *)
DecodesOnlyTables(raw, limits, format) ==
    ValueOf(raw.document, format, Decode(raw, limits, format))
=============================================================================

--------------------------- MODULE CanonicalJson ---------------------------
(* Canonical JSON, warpin-integrity: numbers, the strict parser, limits,     *)
(* canonical output and digests.                                             *)
(*                                                                           *)
(* A value is [leaf |-> t], [items |-> <<v, ...>>] or [members |-> f], f a   *)
(* function from keys to values.  A text is a sequence of tokens; Width says *)
(* how many bytes a token has.  A digest is the canonical text itself, so    *)
(* that two digests are equal exactly when what they digest is.              *)
EXTENDS Integers, SequencesExt

CONSTANTS
    Alphabet,         \* the tokens of all texts, in the order of the sort of keys
    Width,            \* bytes of every token
    StringTokens,     \* the tokens that are strings, member names included
    IntegerOf,        \* the tokens that are integers, with their values
    Rounded,          \* the integer binary64 makes of each of them
    MantissaBits,     \* 53
    SafeDigits,       \* 16, the decimal digits of the largest safe integer
    MaxDepth,         \* 128, of values within values
    MaxNodes,         \* 100,000
    MaxDefaultBytes,  \* 1 MiB: default budget, and the longest captured string
    MaxDocumentBytes, \* 16 MiB: the largest budget a caller may ask for
    MaxStringToken,   \* 262,144 bytes of one quoted string in a raw text
    MaxNumberToken,   \* 1,024 bytes of one number in a raw text
    MaxPower          \* 308: the decimal exponents of binary64

Literals == {"null", "true"}
Rank(token) == CHOOSE i \in DOMAIN Alphabet : Alphabet[i] = token

Leaf(t) == [leaf |-> t]
IsLeaf(v) == "leaf" \in DOMAIN v
IsArray(v) == "items" \in DOMAIN v
IsObject(v) == "members" \in DOMAIN v
Members(v) == SetToSortSeq(DOMAIN v.members, LAMBDA a, b : Rank(a) < Rank(b))
Children(v) ==
    IF IsArray(v) THEN v.items
    ELSE IF IsObject(v) THEN [i \in DOMAIN Members(v) |-> v.members[Members(v)[i]]]
    ELSE <<>>

Sum(counts) == FoldLeft(+, 0, counts)
Maximum(depths) == FoldLeft(LAMBDA a, b : IF a > b THEN a ELSE b, 0, depths)

RECURSIVE NodeCount(_), ItemCount(_), Nesting(_), Parts(_)
NodeCount(v) == 1 + Sum([i \in DOMAIN Children(v) |-> NodeCount(Children(v)[i])])
ItemCount(v) == Len(Children(v)) + Sum([i \in DOMAIN Children(v) |-> ItemCount(Children(v)[i])])
Nesting(v) == IF Children(v) = <<>> THEN 0
              ELSE 1 + Maximum([i \in DOMAIN Children(v) |-> Nesting(Children(v)[i])])
Parts(v) == {v} \union UNION {Parts(Children(v)[i]) : i \in DOMAIN Children(v)}

(* RFC 8785: members in the order of their names, no blanks.                 *)
RECURSIVE Canonical(_)
Separated(texts) ==
    IF texts = <<>> THEN <<>>
    ELSE Head(texts) \o FlattenSeq([i \in 1..Len(texts) - 1 |-> <<",">> \o texts[i + 1]])
Canonical(v) ==
    IF IsArray(v) THEN
        <<"[">> \o Separated([i \in DOMAIN v.items |-> Canonical(v.items[i])]) \o <<"]">>
    ELSE IF IsObject(v) THEN
        <<"{">> \o Separated([i \in DOMAIN Members(v) |->
                    <<Members(v)[i], ":">> \o Canonical(v.members[Members(v)[i]])]) \o <<"}">>
    ELSE <<v.leaf>>

Bytes(text) == Sum([i \in DOMAIN text |-> Width[text[i]]])
DigestBytes(v) == Canonical(v)

(***************************************************************************)
(* Limits.  The default bounds bytes, and the nodes of a capture but not of *)
(* a raw text; an explicit budget bounds both; an unbounded call nothing.   *)
(***************************************************************************)
Budget(bytes) == [bounded |-> TRUE, counted |-> TRUE, bytes |-> bytes, nodes |-> MaxNodes]
Unbounded == [bounded |-> FALSE, counted |-> FALSE, bytes |-> 0, nodes |-> 0]
CaptureDefault == Budget(MaxDefaultBytes)
ParseDefault == [CaptureDefault EXCEPT !.counted = FALSE]
ValidLimits(bytes) == bytes \in 1..MaxDocumentBytes
ObjectTableWire(limits) == [limits EXCEPT !.nodes = limits.bytes]

FitsBytes(limits, n) == limits.bounded => n <= limits.bytes

(* canonicalize_bounded stops writing at the budget; without explicit limits *)
(* the output is not bounded at all.                                         *)
CanonicalizeBounded(v, limits) == FitsBytes(limits, Bytes(Canonical(v)))

(***************************************************************************)
(* Numbers.  A mathematical integer is captured when binary64 holds it      *)
(* (Rfc8785) or when it is safe (IJsonSafeIntegers).                        *)
(***************************************************************************)
Magnitude(n) == IF n < 0 THEN -n ELSE n
RECURSIVE SignificantBits(_), TrailingZeros(_)
SignificantBits(n) == IF n = 0 THEN 0 ELSE 1 + SignificantBits(n \div 2)
TrailingZeros(n) == IF n = 0 \/ n % 2 = 1 THEN 0 ELSE 1 + TrailingZeros(n \div 2)
MaxSafe == 2^MantissaBits - 1

IntegerIsExactBinary64(n) ==
    LET discarded == SignificantBits(n) - MantissaBits
    IN  discarded <= 0 \/ TrailingZeros(n) >= discarded

FromInteger(n, profile) ==
    IF profile = "Rfc8785" THEN IntegerIsExactBinary64(Magnitude(n)) ELSE Magnitude(n) <= MaxSafe

(* from_f64: finite, and safe when it is integral under the strict profile.  *)
FromFloat(finite, integral, n, profile) ==
    finite /\ ((profile = "IJsonSafeIntegers" /\ integral) => Magnitude(n) <= MaxSafe)

(* A lexeme is its sign, the digits of its integer and fraction and its      *)
(* exponent [huge, of]; a huge one is one that i64 does not hold, of its sign. *)
Decimal(digits) == FoldLeft(LAMBDA n, d : 10 * n + d, 0, digits)
AllZero(digits) == \A i \in DOMAIN digits : digits[i] = 0
TrimZeros(digits) ==
    IF AllZero(digits) THEN <<>>
    ELSE SubSeq(digits, CHOOSE i \in DOMAIN digits :
                   digits[i] # 0 /\ AllZero(SubSeq(digits, 1, i - 1)), Len(digits))
Rejected == [form |-> "rejected", n |-> 0]
NotInteger == [form |-> "fraction", n |-> 0]
Integer(n) == [form |-> "integer", n |-> n]

Representable(digits) ==
    LET trimmed == TrimZeros(digits)
    IN  IF Len(trimmed) > SafeDigits \/ (Len(trimmed) = SafeDigits /\ Decimal(trimmed) > MaxSafe)
        THEN Rejected ELSE Integer(Decimal(trimmed))

NormalizedInteger(digits, scale) ==
    LET significant == TrimZeros(digits)
        kept == Len(digits) + scale
    IN  IF significant = <<>> THEN Integer(0)
        ELSE IF scale >= 0 THEN
             IF Len(significant) + scale > SafeDigits THEN Rejected
             ELSE Representable(significant \o [i \in 1..scale |-> 0])
        ELSE IF kept < 0 \/ ~AllZero(SubSeq(digits, kept + 1, Len(digits))) THEN NotInteger
        ELSE Representable(SubSeq(digits, 1, kept))

(* What f64 parsing makes of the lexeme: binary64 has a largest and a        *)
(* smallest magnitude, here powers of ten.                                   *)
Float(x) ==
    LET power == IF x.exponent.huge THEN x.exponent.of * (MaxPower + 1)
                 ELSE Len(TrimZeros(x.integer \o x.fraction)) + x.exponent.of - Len(x.fraction)
    IN  IF AllZero(x.integer \o x.fraction) \/ power < -MaxPower THEN "zero"
        ELSE IF power > MaxPower THEN "infinite" ELSE "finite"

ParseJsonNumber(x, profile) ==
    LET digits == x.integer \o x.fraction
    IN  IF profile = "Rfc8785" THEN IF Float(x) = "infinite" THEN Rejected ELSE NotInteger
        ELSE IF AllZero(digits) THEN Integer(0)
        ELSE IF x.exponent.huge THEN Rejected
        ELSE LET whole == NormalizedInteger(digits, x.exponent.of - Len(x.fraction))
             IN  IF whole.form = "integer" THEN Integer(IF x.negative THEN -whole.n ELSE whole.n)
                 ELSE IF whole.form = "rejected" \/ Float(x) # "finite" THEN Rejected
                 ELSE NotInteger

(***************************************************************************)
(* The strict parser, over the tokens of a text; blanks are the token " ".  *)
(* A reading is where it stopped, what it counted and, if err is "none",    *)
(* the value.                                                               *)
(***************************************************************************)
Started == [at |-> 1, nodes |-> 0, items |-> 0, err |-> "none", value |-> Leaf("null")]
Invalid(p) == [p EXCEPT !.err = "InvalidJson"]
Ok(p) == p.err = "none"

RECURSIVE SkipWhitespace(_, _)
SkipWhitespace(text, p) ==
    IF p.at \in DOMAIN text /\ text[p.at] = " "
    THEN SkipWhitespace(text, [p EXCEPT !.at = @ + 1]) ELSE p
Peek(text, p) == IF p.at \in DOMAIN text THEN text[p.at] ELSE "end of text"
Advance(p) == [p EXCEPT !.at = @ + 1]

ClaimCollectionItem(limits, p) ==
    IF limits.counted /\ p.items >= limits.nodes THEN Invalid(p)
    ELSE [p EXCEPT !.items = IF limits.counted THEN @ + 1 ELSE @]

NodesLeftOrNone(limits, p) == limits.counted => p.nodes <= limits.nodes   \* mutant: off by one
NodesLeft(limits, p) == limits.counted => p.nodes < limits.nodes

ParseLeaf(text, limits, profile, p) ==
    LET token == Peek(text, p)
        read == [Advance(p) EXCEPT !.value = Leaf(token)]
    IN  IF token \in Literals THEN read
        ELSE IF token \in StringTokens THEN
             IF limits.bounded /\ Width[token] > MaxStringToken THEN Invalid(read) ELSE read
        ELSE IF token \in DOMAIN IntegerOf THEN
             IF (limits.bounded /\ Width[token] > MaxNumberToken)
                \/ (profile = "IJsonSafeIntegers" /\ ~FromInteger(IntegerOf[token], profile))
             THEN [read EXCEPT !.err = "Canonicalization"]
             ELSE [read EXCEPT !.value = Leaf(IF profile = "Rfc8785" THEN Rounded[token] ELSE token)]
        ELSE Invalid(p)

RECURSIVE ParseValue(_, _, _, _, _), ParseItems(_, _, _, _, _, _), ParseMembers(_, _, _, _, _, _)

(* After an item or a member: the end, or a comma and the next one.          *)
ParseItems(text, limits, profile, depth, items, p) ==
    LET claimed == ClaimCollectionItem(limits, p)
        read == IF Ok(claimed) THEN ParseValue(text, limits, profile, depth, claimed) ELSE claimed
        after == SkipWhitespace(text, read)
        all == Append(items, read.value)
    IN  IF ~Ok(read) THEN read
        ELSE IF Peek(text, after) = "]" THEN [Advance(after) EXCEPT !.value = [items |-> all]]
        ELSE IF Peek(text, after) # "," THEN Invalid(after)
        ELSE ParseItems(text, limits, profile, depth, all, SkipWhitespace(text, Advance(after)))

ParseMembers(text, limits, profile, depth, members, p) ==
    LET claimed == ClaimCollectionItem(limits, p)
        name == Peek(text, claimed)
        key == ParseLeaf(text, limits, profile, claimed)
        colon == SkipWhitespace(text, key)
        read == ParseValue(text, limits, profile, depth, Advance(colon))
        after == SkipWhitespace(text, read)
        all == members @@ (name :> read.value)
    IN  IF ~Ok(claimed) THEN claimed
        ELSE IF name \notin StringTokens THEN Invalid(claimed)
        ELSE IF ~Ok(key) THEN key
        ELSE IF name \in DOMAIN members THEN [key EXCEPT !.err = "DuplicateKey"]
        ELSE IF Peek(text, colon) # ":" THEN Invalid(colon)
        ELSE IF ~Ok(read) THEN read
        ELSE IF Peek(text, after) = "}" THEN [Advance(after) EXCEPT !.value = [members |-> all]]
        ELSE IF Peek(text, after) # "," THEN Invalid(after)
        ELSE ParseMembers(text, limits, profile, depth, all, SkipWhitespace(text, Advance(after)))

ParseValue(text, limits, profile, depth, p) ==
    LET counted == IF limits.counted THEN [p EXCEPT !.nodes = @ + 1] ELSE p
        here == SkipWhitespace(text, counted)
        inside == SkipWhitespace(text, Advance(here))
    IN  IF (limits.bounded /\ depth > MaxDepth) \/ ~NodesLeft(limits, p)
        THEN Invalid(p)
        ELSE IF Peek(text, here) = "[" THEN
             IF Peek(text, inside) = "]" THEN [Advance(inside) EXCEPT !.value = [items |-> <<>>]]
             ELSE ParseItems(text, limits, profile, depth + 1, <<>>, inside)
        ELSE IF Peek(text, here) = "{" THEN
             IF Peek(text, inside) = "}" THEN [Advance(inside) EXCEPT !.value = [members |-> <<>>]]
             ELSE ParseMembers(text, limits, profile, depth + 1, <<>>, inside)
        ELSE ParseLeaf(text, limits, profile, here)

ParseJsonStrict(text, limits, profile) ==
    LET read == ParseValue(text, limits, profile, 0, SkipWhitespace(text, Started))
        end == SkipWhitespace(text, read)
    IN  IF ~FitsBytes(limits, Bytes(text)) THEN Invalid(Started)
        ELSE IF ~Ok(read) THEN read
        ELSE IF end.at <= Len(text) THEN Invalid(end)
        ELSE end

(* Canonical output of a raw text; the output is bounded when a budget was   *)
(* given.                                                                    *)
CanonicalFromJson(text, limits, profile) ==
    LET read == ParseJsonStrict(text, limits, profile)
    IN  IF ~Ok(read) THEN [ok |-> FALSE, text |-> <<>>]
        ELSE [ok |-> limits.counted => CanonicalizeBounded(read.value, limits),
              text |-> Canonical(read.value)]

(***************************************************************************)
(* Digests of bound values: the wrapper names a domain and a profile, both  *)
(* 1 to 128 printable characters.                                           *)
(***************************************************************************)
ValidBindingLabel(label) == label.printable /\ label.length \in 1..128
NewBinding(domain, profile) == ValidBindingLabel(domain) /\ ValidBindingLabel(profile)
DigestBound(domain, profile, v) ==
    DigestBytes([members |-> [domain |-> Leaf(domain), profile |-> Leaf(profile), value |-> v]])

-----------------------------------------------------------------------------
(* The admitted integers are those binary64 holds: m * 2^e with a mantissa   *)
(* of its bits.  A lexeme under the strict profile is accepted as its exact  *)
(* value when that is an integer in the safe domain and refused when it is   *)
(* another integer, however it is spelled; a fraction is accepted when       *)
(* binary64 makes neither zero nor infinity of it.                           *)
IntegersAreExact(n) ==
    /\ FromInteger(n, "Rfc8785") <=>
          \E m \in 0..MaxSafe, e \in 0..MantissaBits : Magnitude(n) = m * 2^e
    /\ FromInteger(n, "IJsonSafeIntegers") => FromInteger(n, "Rfc8785")

LexemesAreExact(x) ==
    LET digits == x.integer \o x.fraction
        m == Decimal(digits)
        scale == x.exponent.of - Len(x.fraction)
        integral == scale >= 0 \/ m % 10^(-scale) = 0
        n == IF scale >= 0 THEN m * 10^scale ELSE m \div 10^(-scale)
        read == ParseJsonNumber(x, "IJsonSafeIntegers")
    IN  IF m = 0 THEN read = Integer(0)
        ELSE IF x.exponent.huge THEN read = Rejected
        ELSE IF integral THEN
             read = IF n <= MaxSafe THEN Integer(IF x.negative THEN -n ELSE n) ELSE Rejected
        ELSE read = IF Float(x) = "finite" THEN NotInteger ELSE Rejected

Occurring(token, text) == Cardinality({i \in DOMAIN text : text[i] = token})
ExactToken(t) == t \in DOMAIN IntegerOf => FromInteger(IntegerOf[t], "IJsonSafeIntegers")
SameValue(p, v) == Ok(p) /\ p.value = v
SameTokens(text, canonical) ==
    \A t \in Range(text) \ {" "} :
        ExactToken(t) => Occurring(t, text) = Occurring(t, canonical)
WithinLimits(read, limits) ==
    /\ limits.counted =>
          /\ read.nodes = NodeCount(read.value) /\ read.nodes <= limits.nodes
          /\ read.items = ItemCount(read.value) /\ read.items <= limits.nodes
    /\ limits.bounded => Nesting(read.value) <= MaxDepth
ReadingIsExact(text, limits, profile, read) ==
    Ok(read) =>
        /\ SameValue(ParseJsonStrict(text, Unbounded, profile), read.value)
        /\ SameValue(ParseJsonStrict(Canonical(read.value), Unbounded, profile), read.value)
        /\ SameTokens(text, Canonical(read.value))
        /\ WithinLimits(read, limits)

(* A text that is read is what its value is written as, blanks, the order of *)
(* members and the spelling of numbers apart: the same tokens, each as often;*)
(* reading the canonical text again gives the same value.  Within an         *)
(* explicit budget the counts are those of the value; and a budget only      *)
(* refuses, it never changes the value.  What is refused is no text of any   *)
(* value: v is the value the text was derived from, changed if it was edited.*)
ParsedIsWritten(text, limits, profile, v, changed) ==
    /\ ReadingIsExact(text, limits, profile, ParseJsonStrict(text, limits, profile))
    /\ (~changed /\ \A i \in DOMAIN text : ExactToken(text[i]))
          => SameValue(ParseJsonStrict(text, Unbounded, profile), v)
=============================================================================

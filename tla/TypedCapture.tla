---------------------------- MODULE TypedCapture ----------------------------
(***************************************************************************)
(* warpin-integrity, capture.rs: a caller's Serialize code drives the       *)
(* capture serializer.  The caller is arbitrary: it may call in any order,  *)
(* give wrong size hints, refuse, and go on after a call of its own failed. *)
(* An action is one call of the caller; calls bounds them.                  *)
(***************************************************************************)
EXTENDS CanonicalJson

CONSTANTS
    CaptureLimits,  \* the limits captures run under
    Numbers,        \* the numbers callers serialize
    Names,          \* their texts, member and variant names
    KeyKinds,       \* kinds of map keys: of TextKeys and of OtherKeys
    Hints,          \* announced lengths
    MaxCalls        \* bound: calls of one capture

VARIABLES
    limits, profile, \* of the capture that runs
    budget,   \* CaptureBudget: nodes, bytes and items claimed; ok: the last claim was granted
    at,       \* depth of the serializer the caller holds, or Nobody
    around,   \* names of the variants that serializer's value will be wrapped in
    stack,    \* the SequenceCaptures and ObjectCaptures that are open, innermost last
    outcome,
    erred,    \* some call has returned an error (history)
    calls

captureVars == <<limits, profile, budget, at, around, stack, outcome, erred, calls>>

Nobody == -1
NoName == "no name"
Running == [done |-> FALSE, ok |-> FALSE, value |-> Leaf("null")]

CaptureInit ==
    /\ limits \in CaptureLimits
    /\ profile \in {"Rfc8785", "IJsonSafeIntegers"}
    /\ budget = [nodes |-> 0, bytes |-> 0, items |-> 0, ok |-> TRUE]
    /\ at = 0
    /\ around = <<>>
    /\ stack = <<>>
    /\ outcome = Running
    /\ erred = FALSE
    /\ calls = 0

-----------------------------------------------------------------------------
(* Claims: what was claimed before one that is refused stays claimed.        *)
EnsureDepth(depth) == limits.bounded => depth <= MaxDepth
EnsureBytes(b, n) == FitsBytes(limits, b.bytes + n)
EnsureString(b, n) == (limits.bounded => n <= MaxDefaultBytes) /\ EnsureBytes(b, n)
Room(claimed) == limits.counted => claimed < limits.nodes

Granted(b, allowed, claimed) ==
    IF b.ok /\ allowed THEN claimed ELSE [b EXCEPT !.ok = FALSE]
ClaimNode(b, depth) ==
    Granted(b, EnsureDepth(depth) /\ Room(b.nodes), [b EXCEPT !.nodes = @ + 1])
ClaimBytes(b, n) == Granted(b, EnsureBytes(b, n), [b EXCEPT !.bytes = @ + n])
ClaimString(b, n) == Granted(b, EnsureString(b, n), [b EXCEPT !.bytes = @ + n])
ClaimItem(b) == Granted(b, Room(b.items), [b EXCEPT !.items = @ + 1])
SizeHint(b, hint) == Granted(b, limits.counted => hint <= limits.nodes - b.items, b)

Wrapped(names, v) ==
    FoldRight(LAMBDA name, inner : [members |-> (name :> inner)], names, v)

(* A serializer is used up: its value, or an error, goes to the collection   *)
(* it was handed out by, which latches the error, or it is the outcome.      *)
ReceivedUnlatched(frame, ok, v) ==    \* mutant: an error is not latched
    IF ~ok THEN frame
    ELSE IF frame.object
    THEN [frame EXCEPT !.members = (frame.filling :> v) @@ @, !.filling = NoName]
    ELSE [frame EXCEPT !.items = Append(@, v)]
Received(frame, ok, v) ==
    IF ~ok THEN [frame EXCEPT !.failed = TRUE]
    ELSE IF frame.object
    THEN [frame EXCEPT !.members = (frame.filling :> v) @@ @, !.filling = NoName]
    ELSE [frame EXCEPT !.items = Append(@, v)]

Return(open, names, b, ok, v) ==
    /\ budget' = [b EXCEPT !.ok = TRUE]
    /\ erred' = (erred \/ ~ok)
    /\ at' = Nobody
    /\ around' = <<>>
    /\ IF open = <<>>
       THEN stack' = <<>> /\ outcome' = [done |-> TRUE, ok |-> ok, value |-> Wrapped(names, v)]
       ELSE /\ stack' = Front(open) \o <<Received(Last(open), ok, Wrapped(names, v))>>
            /\ UNCHANGED outcome

Fail(b) == Return(stack, around, b, FALSE, Leaf("null"))
Call == calls < MaxCalls /\ ~outcome.done /\ calls' = calls + 1 /\ UNCHANGED <<limits, profile>>
Holding == at # Nobody

-----------------------------------------------------------------------------
(* The Serializer.                                                           *)
SerializeNumber(n) ==
    LET b == ClaimNode(budget, at)
    IN  Call /\ Holding
        /\ Return(stack, around, b, b.ok /\ FromInteger(IntegerOf[n], profile), Leaf(n))

SerializeStr(text) ==
    LET b == ClaimString(ClaimNode(budget, at), Width[text])
    IN  Call /\ Holding /\ Return(stack, around, b, b.ok, Leaf(text))

(* None, unit and unit structs; a unit variant is the text of its name.      *)
SerializeUnit ==
    LET b == ClaimNode(budget, at)
    IN  Call /\ Holding /\ Return(stack, around, b, b.ok, Leaf("null"))

(* Bytes become an array of small numbers, claimed one by one.               *)
SerializeBytes(n) ==
    LET header == ClaimBytes(SizeHint(ClaimNode(budget, at), n), n)
        b == FoldLeft(LAMBDA c, i : ClaimNode(ClaimItem(c), at + 1), header, [i \in 1..n |-> i])
    IN  Call /\ Holding
        /\ Return(stack, around, b, b.ok, [items |-> [i \in 1..n |-> Leaf("1")]])

(* Some(value) and newtype structs: the same value one level deeper.         *)
SerializeNested ==
    Call /\ Holding /\ at' = at + 1 /\ UNCHANGED <<budget, around, stack, outcome, erred>>

Hold(b, depth, names) ==
    IF ~b.ok THEN Fail(b)
    ELSE budget' = b /\ at' = depth /\ around' = names /\ UNCHANGED <<stack, outcome, erred>>

SerializeNewtypeVariant(name) ==
    Call /\ Holding
    /\ Hold(ClaimString(ClaimItem(ClaimNode(budget, at)), Width[name]), at + 1, Append(around, name))

Collection(object, map, depth, names) ==
    [object |-> object, map |-> map, depth |-> depth, around |-> names, items |-> <<>>,
     members |-> <<>>, seen |-> {}, pending |-> NoName, filling |-> NoName, failed |-> FALSE]

Open(b, frame) ==
    IF ~b.ok THEN Fail(b)
    ELSE /\ budget' = b
         /\ stack' = Append(stack, frame)
         /\ at' = Nobody
         /\ around' = <<>>
         /\ UNCHANGED <<outcome, erred>>

(* Sequences and tuples, maps and structs.                                   *)
SerializeCollection(object, map, hint) ==
    Call /\ Holding
    /\ Open(SizeHint(ClaimNode(budget, at), hint), Collection(object, map, at + 1, around))

(* Tuple variants and struct variants: {name: collection}.                   *)
SerializeVariant(object, name, hint) ==
    LET wrapper == ClaimNode(ClaimNode(budget, at), at + 1)
        b == SizeHint(ClaimString(ClaimItem(wrapper), Width[name]), hint)
    IN  Call /\ Holding /\ Open(b, Collection(object, FALSE, at + 2, Append(around, name)))

CallerRefuses == Call /\ Holding /\ Fail(budget)

-----------------------------------------------------------------------------
(* The open collection.                                                      *)
Inside == ~Holding /\ stack # <<>>
Frame == Last(stack)
Become(frame) == stack' = Front(stack) \o <<frame>>
Latch(b) ==
    /\ budget' = [b EXCEPT !.ok = TRUE]
    /\ Become([Frame EXCEPT !.failed = TRUE])
    /\ erred' = TRUE
    /\ UNCHANGED <<at, around, outcome>>

PushElement ==
    LET b == ClaimItem(budget)
    IN  /\ Call /\ Inside /\ ~Frame.object
        /\ IF Frame.failed THEN Latch(budget)
           ELSE IF ~b.ok THEN Latch(b)
           ELSE budget' = b /\ at' = Frame.depth /\ UNCHANGED <<around, stack, outcome, erred>>

(* insert: the item and the name are claimed, then the name must be new.     *)
Insert(frame, name) ==
    LET b == ClaimString(ClaimItem(budget), Width[name])
    IN  IF ~b.ok \/ name \in frame.seen THEN Latch(b)
        ELSE /\ budget' = b
             /\ Become([frame EXCEPT !.seen = @ \union {name}, !.filling = name,
                                     !.pending = NoName])
             /\ at' = frame.depth
             /\ UNCHANGED <<around, outcome, erred>>

(* A map key is captured as text, behind any number of Some and newtype      *)
(* structs, each one level deeper.                                           *)
TextKeys == {"string", "char", "bool", "integer", "unit variant"}
OtherKeys == {"float", "bytes", "none", "unit", "newtype variant", "collection"}
MapKey(frame, key) ==
    /\ key.kind \notin OtherKeys
    /\ EnsureDepth(frame.depth + key.nested) /\ EnsureString(budget, Width[key.name])

SerializeKey(key) ==
    /\ Call /\ Inside /\ Frame.map
    /\ IF Frame.failed \/ Frame.pending # NoName \/ ~MapKey(Frame, key) THEN Latch(budget)
       ELSE Become([Frame EXCEPT !.pending = key.name])
            /\ UNCHANGED <<budget, at, around, outcome, erred>>

SerializeMapValue ==
    /\ Call /\ Inside /\ Frame.map
    /\ IF Frame.failed \/ Frame.pending = NoName THEN Latch(budget)
       ELSE Insert(Frame, Frame.pending)

SerializeField(name) ==
    /\ Call /\ Inside /\ Frame.object /\ ~Frame.map
    /\ IF Frame.failed THEN Latch(budget) ELSE Insert(Frame, name)

Finish(frame) == ~frame.failed /\ frame.pending = NoName

End ==
    /\ Call /\ Inside
    /\ Return(Front(stack), Frame.around, budget, Finish(Frame),
              IF Frame.object THEN [members |-> Frame.members] ELSE [items |-> Frame.items])

(* The caller gives up on the collection, as ? does.                         *)
Abandon == Call /\ Inside /\ Return(Front(stack), Frame.around, budget, FALSE, Leaf("null"))

CaptureNext ==
    \/ \E n \in Numbers : SerializeNumber(n)
    \/ \E text \in Names : SerializeStr(text)
    \/ SerializeUnit
    \/ \E n \in Hints : SerializeBytes(n)
    \/ SerializeNested
    \/ \E name \in Names : SerializeNewtypeVariant(name) \/ SerializeField(name)
    \/ \E object, map \in BOOLEAN, hint \in Hints :
          (map => object) /\ SerializeCollection(object, map, hint)
    \/ \E object \in BOOLEAN, name \in Names, hint \in Hints : SerializeVariant(object, name, hint)
    \/ CallerRefuses
    \/ PushElement
    \/ \E key \in [name : Names, kind : KeyKinds, nested : {0, 1}] : SerializeKey(key)
    \/ SerializeMapValue
    \/ End
    \/ Abandon

-----------------------------------------------------------------------------
RECURSIVE TextBytes(_)
TextBytes(v) ==
    Sum([i \in DOMAIN Children(v) |-> TextBytes(Children(v)[i])])
    + (IF IsLeaf(v) THEN IF v.leaf \in StringTokens THEN Width[v.leaf] ELSE 0
       ELSE IF IsObject(v) THEN Bytes(Members(v)) ELSE 0)

(* A capture that succeeds saw no error, not even one the caller ignored: it *)
(* has claimed exactly the nodes and items its value has and at least its    *)
(* texts, and its value keeps every limit.  Its canonical text, when it fits *)
(* the budget, is read by the strict parser under the same limits as the     *)
(* same value with the same counts: serializer and parser agree on depth and *)
(* on what a node is.                                                        *)
CaptureIsExact ==
    (outcome.done /\ outcome.ok) =>
        LET v == outcome.value
            text == Canonical(v)
            back == ParseJsonStrict(text, limits, profile)
            short == \A i \in DOMAIN text : limits.bounded => Width[text[i]] <= MaxStringToken
        IN  /\ ~erred
            /\ budget.nodes = NodeCount(v)
            /\ budget.items = ItemCount(v)
            /\ budget.bytes >= TextBytes(v)
            /\ (FitsBytes(limits, Bytes(text)) /\ short) =>
                  /\ Ok(back)
                  /\ back.value = v
                  /\ limits.counted => back.nodes = budget.nodes /\ back.items = budget.items
=============================================================================

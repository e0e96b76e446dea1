-------------------------- MODULE ImmutableObjects --------------------------
(* One bucket behind VerifiedObjectStorage (warpin-object-storage, storage.rs *)
(* and, for S3, s3_adapter.rs) and the clients that put and delete objects in *)
(* it.  A request takes effect when it arrives, which may be after its caller *)
(* has gone; a put whose answer is lost is sent again by the HTTP client.     *)
(* A digest stands for its content: an object's body is compared as a whole.  *)
(* A tag is the version or, where the store has none, the ETag of one         *)
(* creation of a key.                                                         *)
EXTENDS Naturals, FiniteSets

CONSTANTS
    Clients,      \* tasks that call the storage, each at most one call at a time
    Versioned,    \* does the store keep versions and delete them exactly?
    MaxResends    \* bound: answers that are lost and make the client resend

ASSUME StoreAssumption == Versioned \in BOOLEAN /\ MaxResends \in Nat

VARIABLES
    store,    \* the objects: [key, body, tag], at most one per key
    made,     \* every object that was ever created
    wire,     \* requests that have not arrived
    resends,  \* answers lost so far
    step,     \* where each client's call is
    item,     \* the key and the body of the call
    seen      \* the tag it is pinned to or has read, 0 for none

storeVars == <<store, made>>
netVars   == <<wire, resends>>
callVars  == <<step, item, seen>>
objectVars == <<storeVars, netVars, callVars>>

NoItem == [key |-> [kind |-> "none"], body |-> [kind |-> "none"]]
Steps  == {"idle", "sent", "created", "exists", "written", "conflict",
           "look", "missed", "deleting", "gone", "failed"}

ObjectInit ==
    /\ store = {} /\ made = {} /\ wire = {} /\ resends = 0
    /\ step = [c \in Clients |-> "idle"]
    /\ item = [c \in Clients |-> NoItem]
    /\ seen = [c \in Clients |-> 0]

At(k) == {o \in store : o.key = k}
ItemOf(o) == [key |-> o.key, body |-> o.body]
NewObject(i) ==
    [key |-> i.key, body |-> i.body,
     tag |-> 1 + Cardinality({o \in made : o.key = i.key})]

\* The version a receipt of o is pinned to.
Pin(o) == IF Versioned THEN o.tag ELSE 0

Goes(c, s, v) == /\ step' = [step EXCEPT ![c] = s]
                 /\ seen' = [seen EXCEPT ![c] = v]

\* Nobody waits for the answer to a request whose call was dropped.
Awaits(m) == step[m.by] \in {"sent", "deleting"} /\ item[m.by] = ItemOf(m)

Answer(m, s, v) ==
    IF Awaits(m) THEN Goes(m.by, s, v) ELSE UNCHANGED <<step, seen>>

----------------------------------------------------------------------------
(* put_immutable: a put that only creates, then a verified readback. *)
StartPut(c, i) ==
    /\ step[c] = "idle"
    /\ Goes(c, "sent", 0)
    /\ item' = [item EXCEPT ![c] = i]
    /\ wire' = wire \cup {[by |-> c, op |-> "put", key |-> i.key, body |-> i.body, tag |-> 0]}
    /\ UNCHANGED <<storeVars, resends>>

\* Mutant: a put that replaces what is there.
ArriveOverwrite(m) ==
    /\ m.op = "put"
    /\ wire' = wire \ {m}
    /\ store' = (store \ At(m.key)) \cup {NewObject(m)}
    /\ made'  = made \cup {NewObject(m)}
    /\ Answer(m, "created", NewObject(m).tag)
    /\ UNCHANGED <<resends, item>>

\* PutMode::Create at the store, and its answer.
ArrivePut(m) ==
    /\ m.op = "put"
    /\ wire' = wire \ {m}
    /\ IF At(m.key) = {}
       THEN /\ store' = store \cup {NewObject(m)}
            /\ made'  = made \cup {NewObject(m)}
            /\ Answer(m, "created", NewObject(m).tag)
       ELSE /\ UNCHANGED storeVars
            /\ Answer(m, "exists", 0)
    /\ UNCHANGED <<resends, item>>

\* It was created, but the answer is lost and the request is sent again.
Resend(m) ==
    /\ m.op = "put"
    /\ At(m.key) = {}
    /\ resends < MaxResends
    /\ resends' = resends + 1
    /\ store' = store \cup {NewObject(m)}
    /\ made'  = made \cup {NewObject(m)}
    /\ UNCHANGED <<wire, callVars>>

\* Mutant: what exists is never one's own.
ReadbackStrict(c) ==
    /\ step[c] \in {"created", "exists"}
    /\ IF step[c] = "exists" \/ ~\E o \in At(item[c].key) : o.tag = seen[c]
       THEN Goes(c, "conflict", 0)
       ELSE Goes(c, "written", seen[c])
    /\ UNCHANGED <<storeVars, netVars, item>>

\* Mutant: whatever exists is the replay of one's own put.
ReadbackTrusting(c) ==
    /\ step[c] \in {"created", "exists"}
    /\ LET found == {o \in At(item[c].key) : step[c] = "created" => o.tag = seen[c]}
       IN  IF found = {}
           THEN Goes(c, "failed", 0)
           ELSE \E o \in found : Goes(c, "written", o.tag)
    /\ UNCHANGED <<storeVars, netVars, item>>

\* The readback: of the version just created, or of whatever was there.
Readback(c) ==
    /\ step[c] \in {"created", "exists"}
    /\ LET found == {o \in At(item[c].key) : step[c] = "created" => o.tag = seen[c]}
       IN  IF found = {}
           THEN Goes(c, "failed", 0)
           ELSE \E o \in found :
                  IF o.body = item[c].body
                  THEN Goes(c, "written", o.tag)
                  ELSE Goes(c, "conflict", 0)
    /\ UNCHANGED <<storeVars, netVars, item>>

----------------------------------------------------------------------------
(* delete_verified: read and verify, then delete. *)
StartDelete(c, i, pin) ==
    /\ step[c] = "idle"
    /\ Goes(c, "look", pin)
    /\ item' = [item EXCEPT ![c] = i]
    /\ UNCHANGED <<storeVars, netVars>>

\* Mutant: the content under the key is not compared.
LookCareless(c) ==
    /\ step[c] = "look"
    /\ LET found == {o \in At(item[c].key) : seen[c] \in {0, o.tag}}
       IN  IF found = {}
           THEN Goes(c, IF seen[c] = 0 THEN "gone" ELSE "missed", seen[c]) /\ UNCHANGED wire
           ELSE \E o \in found :
                  /\ Goes(c, "deleting", o.tag)
                  /\ wire' = wire \cup {[by |-> c, op |-> "delete", key |-> o.key,
                                         body |-> item[c].body, tag |-> o.tag]}
    /\ UNCHANGED <<storeVars, resends, item>>

\* The verified read, and the request to delete what it has seen.
Look(c) ==
    /\ step[c] = "look"
    /\ LET found == {o \in At(item[c].key) : seen[c] \in {0, o.tag}}
       IN  IF found = {}
           THEN Goes(c, IF seen[c] = 0 THEN "gone" ELSE "missed", seen[c]) /\ UNCHANGED wire
           ELSE \E o \in found :
                  IF o.body = item[c].body
                  THEN /\ Goes(c, "deleting", o.tag)
                       /\ wire' = wire \cup {[by |-> c, op |-> "delete", key |-> o.key,
                                              body |-> o.body, tag |-> o.tag]}
                  ELSE Goes(c, "failed", 0) /\ UNCHANGED wire
    /\ UNCHANGED <<storeVars, resends, item>>

\* The version is gone: so must be the key, or this is another object.
LookAgain(c) ==
    /\ step[c] = "missed"
    /\ Goes(c, IF At(item[c].key) = {} THEN "gone" ELSE "failed", 0)
    /\ UNCHANGED <<storeVars, netVars, item>>

\* What a delete removes: the exact version, or, without versions, the key.
Deletes(m) == {o \in At(m.key) : Versioned => o.tag = m.tag}

ArriveDelete(m) ==
    /\ m.op = "delete"
    /\ wire'  = wire \ {m}
    /\ store' = store \ Deletes(m)
    /\ Answer(m, "gone", 0)
    /\ UNCHANGED <<made, resends, item>>

----------------------------------------------------------------------------
\* The caller takes the result of its call.
EndCall(c) ==
    /\ step' = [step EXCEPT ![c] = "idle"]
    /\ item' = [item EXCEPT ![c] = NoItem]
    /\ seen' = [seen EXCEPT ![c] = 0]

\* The call is dropped, or ends in an error: its requests may still arrive.
Drop(c) ==
    /\ EndCall(c)
    /\ UNCHANGED <<storeVars, netVars>>

Storage ==
    \/ \E m \in wire : ArrivePut(m) \/ Resend(m) \/ ArriveDelete(m)
    \/ \E c \in Clients : Readback(c) \/ Look(c) \/ LookAgain(c)
============================================================================

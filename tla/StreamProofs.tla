---------------------------- MODULE StreamProofs ----------------------------
(* Streams of bytes that are cut into pieces and put together again.  In the *)
(* first part, chunked uploads and their retirement, for any number of       *)
(* uploaders, workers and readers, any files and any sizes of chunk and page.*)
(* In the second, a framed connection, for any codec, frames, limits, number *)
(* of connections and way the stream is cut into reads.                      *)
EXTENDS ChunkedObjects, Transport, FiniteSetTheorems, SequenceTheorems, WellFoundedInduction, TLAPS

UpStates  == {"idle", "next", "intended", "putting", "done", "conflict", "failed"}
RetStates == {"idle", "unlinking", "unlinked", "marking", "fenced", "over"}

(* What the other invariants need to know of the types.                      *)
Shape ==
    /\ step \in [Clients -> Steps] /\ DOMAIN item = Clients /\ DOMAIN seen = Clients
    /\ \A m \in wire : m.by \in Clients
    /\ up \in [Uploaders -> UpStates] /\ DOMAIN request = Uploaders
    /\ DOMAIN entries = Uploaders /\ DOMAIN pages = Uploaders
    /\ ret \in [Retirers -> RetStates]

Known == intents \cup {Item(Marker)}

(* A put is on its way only with its intent in the journal, and an upload    *)
(* that is about to send one has journaled this very part.                   *)
PutsAreKnown ==
    /\ \A m \in wire : m.op = "put" => ItemOf(m) \in Known
    /\ \A u \in Uploaders : up[u] = "intended" => Item(NextPart(u)) \in intents

JournalInv == Shape /\ PutsAreKnown /\ NothingIsUntracked

-----------------------------------------------------------------------------
(* The steps of the specification, once for all invariants.                  *)
LEMMA UploadSteps ==
  ASSUME NEW u \in Uploaders, Upload(u)
  PROVE  Begin(u) \/ Intend(u) \/ PutPart(u) \/ Outcome(u) \/ Fail(u)
BY DEF Upload

LEMMA RetireSteps ==
  ASSUME NEW w \in Retirers, Retire(w)
  PROVE  \/ Unlink(w) \/ Unlinked(w) \/ Mark(w) \/ Fenced(w)
         \/ Sweep(w) \/ Swept(w) \/ GiveUp(w)
BY DEF Retire

(* A reader changes nothing but itself.                                      *)
LEMMA ReadersOnlyRead ==
  ASSUME \/ \E r \in Readers : Read(r)
         \/ UNCHANGED vars
  PROVE  UNCHANGED <<objectVars, journalVars, uploadVars, ret>>
BY DEF Read, Open, LoadPage, ReadChunk, Finish, ReadFails, vars

LEMMA NextSteps ==
  ASSUME [Next]_vars
  PROVE  \/ \E u \in Uploaders : Upload(u)
         \/ \E w \in Retirers : Retire(w)
         \/ /\ Storage
            /\ UNCHANGED <<journalVars, uploadVars, ret>>
         \/ UNCHANGED <<objectVars, journalVars, uploadVars, ret>>
BY ReadersOnlyRead DEF Next

(* The client of an uploader or a worker.                                    *)
LEMMA ClientsOf == Uploaders \subseteq Clients /\ Retirers \subseteq Clients
BY ChunkAssumption

-----------------------------------------------------------------------------
(* Calls, uploads and workers keep their shape.                              *)
LEMMA ShapeStep == Shape /\ [Next]_vars => Shape'
<1> SUFFICES ASSUME Shape, [Next]_vars
             PROVE  Shape'
  OBVIOUS
<1> USE ClientsOf DEF Shape, Steps, UpStates, RetStates, Goes, EndCall, Drop
<1>1. ASSUME NEW u \in Uploaders, Upload(u)
      PROVE  Shape'
  <2>1. CASE Begin(u) \/ Intend(u)
    BY <2>1 DEF Begin, Intend, objectVars, netVars, callVars
  <2>2. CASE PutPart(u)
    BY <2>2 DEF PutPart, StartPut
  <2>3. CASE Outcome(u)
    BY <2>3 DEF Outcome, netVars
  <2>4. CASE Fail(u)
    BY <2>4 DEF Fail, netVars
  <2> QED
    BY <1>1, UploadSteps, <2>1, <2>2, <2>3, <2>4
<1>2. ASSUME NEW w \in Retirers, Retire(w)
      PROVE  Shape'
  <2>1. CASE Unlink(w) \/ Sweep(w)
    BY <2>1 DEF Unlink, Sweep, StartDelete, netVars, uploadVars
  <2>2. CASE Mark(w)
    BY <2>2 DEF Mark, StartPut, uploadVars
  <2>3. CASE Unlinked(w) \/ Fenced(w) \/ Swept(w) \/ GiveUp(w)
    BY <2>3 DEF Unlinked, Fenced, Swept, GiveUp, netVars, uploadVars
  <2> QED
    BY <1>2, RetireSteps, <2>1, <2>2, <2>3
<1>3. ASSUME Storage, UNCHANGED <<journalVars, uploadVars, ret>>
      PROVE  Shape'
  <2> USE <1>3 DEF uploadVars
  <2>1. ASSUME NEW m \in wire, ArrivePut(m) \/ Resend(m) \/ ArriveDelete(m)
        PROVE  Shape'
    BY <2>1 DEF ArrivePut, Resend, ArriveDelete, Answer, callVars
  <2>2. ASSUME NEW c \in Clients, Readback(c) \/ LookAgain(c)
        PROVE  Shape'
    BY <2>2 DEF Readback, LookAgain, netVars
  <2>3. ASSUME NEW c \in Clients, Look(c)
        PROVE  Shape'
    BY <2>3 DEF Look
  <2> QED
    BY <2>1, <2>2, <2>3 DEF Storage
<1>4. ASSUME UNCHANGED <<objectVars, journalVars, uploadVars, ret>>
      PROVE  Shape'
  BY <1>4 DEF objectVars, netVars, callVars, uploadVars
<1> QED
  BY <1>1, <1>2, <1>3, <1>4, NextSteps

-----------------------------------------------------------------------------
(* What an upload writes next depends on nothing but its own progress.       *)
LEMMA NextPartIsLocal ==
  ASSUME NEW u \in Uploaders,
         request'[u] = request[u], entries'[u] = entries[u], pages'[u] = pages[u]
  PROVE  NextPart(u)' = NextPart(u)
BY DEF NextPart, PageDue, AtEnd, Written, ReadExact, ChunkOf, Page, Root, Chunk

(* Puts are journaled before they are sent.                                  *)
LEMMA PutsStep == JournalInv /\ [Next]_vars => PutsAreKnown'
<1> SUFFICES ASSUME JournalInv, [Next]_vars
             PROVE  PutsAreKnown'
  OBVIOUS
<1> USE DEF JournalInv, PutsAreKnown, Known, ItemOf
<1>1. ASSUME intents \subseteq intents',
             \A m \in wire' : m.op = "put" => m \in wire \/ ItemOf(m) \in Known
      PROVE  \A m \in wire' : m.op = "put" => ItemOf(m) \in Known'
  BY <1>1 DEF Item, PartKey, Marker, RootKey
<1>2. ASSUME NEW u \in Uploaders, Upload(u)
      PROVE  PutsAreKnown'
  <2>1. ASSUME NEW v \in Uploaders, up'[v] = "intended", v # u
        PROVE  Item(NextPart(v))' \in intents'
    <3>1. /\ up'[v] = up[v] /\ intents \subseteq intents'
          /\ request'[v] = request[v] /\ entries'[v] = entries[v] /\ pages'[v] = pages[v]
      BY <1>2, <2>1, UploadSteps DEF Begin, Intend, PutPart, Outcome, Fail, Shape, journalVars
    <3> QED
      BY <3>1, <2>1, NextPartIsLocal DEF Item, PartKey, RootKey
  <2>2. CASE Intend(u)
    <3>1. NextPart(u)' = NextPart(u)
      BY <2>2, NextPartIsLocal DEF Intend
    <3>2. Item(NextPart(u))' \in intents'
      BY <2>2, <3>1 DEF Intend, Item, PartKey, RootKey
    <3>3. intents \subseteq intents' /\ wire' = wire
      BY <2>2 DEF Intend, objectVars, netVars
    <3> QED
      BY <1>1, <2>1, <3>2, <3>3
  <2>3. CASE PutPart(u)
    <3>1. up'[u] # "intended" /\ intents' = intents
      BY <2>3 DEF PutPart, Shape, journalVars
    <3>2. \A m \in wire' : m.op = "put" => m \in wire \/ ItemOf(m) \in Known
      <4>1. ItemOf([by |-> u, op |-> "put", key |-> Item(NextPart(u)).key,
                    body |-> Item(NextPart(u)).body, tag |-> 0]) = Item(NextPart(u))
        BY DEF Item
      <4> QED
        BY <2>3, <4>1 DEF PutPart, StartPut
    <3> QED
      BY <1>1, <2>1, <3>1, <3>2
  <2>4. CASE Begin(u) \/ Outcome(u) \/ Fail(u)
    <3>1. up'[u] # "intended" /\ intents' = intents /\ wire' = wire
      BY <2>4 DEF Begin, Outcome, Fail, Drop, Shape, objectVars, netVars, journalVars
    <3> QED
      BY <1>1, <2>1, <3>1
  <2> QED
    BY <1>2, <2>2, <2>3, <2>4, UploadSteps
<1>3. ASSUME UNCHANGED <<intents, uploadVars>>,
             \A m \in wire' : m.op = "put" => m \in wire \/ ItemOf(m) \in Known
      PROVE  PutsAreKnown'
  <2>1. ASSUME NEW v \in Uploaders, up'[v] = "intended"
        PROVE  Item(NextPart(v))' \in intents'
    BY <1>3, <2>1, NextPartIsLocal DEF uploadVars, Item, PartKey, RootKey
  <2> QED
    BY <1>1, <1>3, <2>1
<1>4. ASSUME NEW w \in Retirers, Retire(w)
      PROVE  PutsAreKnown'
  <2>1. UNCHANGED <<intents, uploadVars>>
    BY <1>4, RetireSteps DEF Unlink, Unlinked, Mark, Fenced, Sweep, Swept, GiveUp, journalVars
  <2>2. \A m \in wire' : m.op = "put" => m \in wire \/ ItemOf(m) \in Known
    BY <1>4, RetireSteps DEF Unlink, Unlinked, Mark, Fenced, Sweep, Swept, GiveUp,
       StartDelete, StartPut, Drop, netVars, Item
  <2> QED
    BY <1>3, <2>1, <2>2
<1>5. ASSUME Storage, UNCHANGED <<journalVars, uploadVars, ret>>
      PROVE  PutsAreKnown'
  <2>1. \A m \in wire' : m.op = "put" => m \in wire
    BY <1>5 DEF Storage, ArrivePut, Resend, ArriveDelete, Readback, Look, LookAgain, netVars
  <2> QED
    BY <1>3, <1>5, <2>1 DEF journalVars
<1>6. ASSUME UNCHANGED <<objectVars, journalVars, uploadVars, ret>>
      PROVE  PutsAreKnown'
  BY <1>3, <1>6 DEF objectVars, netVars, journalVars
<1> QED
  BY <1>2, <1>4, <1>5, <1>6, NextSteps

(* What a step can do to the objects: nothing, create the one a put on its   *)
(* way names, or remove what a delete on its way reaches.                    *)
Creates(m) == /\ m.op = "put"
              /\ At(m.key) = {}
              /\ made'  = made \cup {NewObject(m)}
              /\ store' = store \cup {NewObject(m)}
Removes(m) == /\ m.op = "delete"
              /\ made'  = made
              /\ store' = store \ Deletes(m)

LEMMA ObjectSteps ==
  ASSUME [Next]_vars
  PROVE  /\ intents \subseteq intents'
         /\ \/ UNCHANGED storeVars
            \/ \E m \in wire : Creates(m) \/ Removes(m)
<1>1. ASSUME NEW u \in Uploaders, Upload(u)
      PROVE  UNCHANGED storeVars /\ intents \subseteq intents'
  BY <1>1, UploadSteps DEF Begin, Intend, PutPart, Outcome, Fail, StartPut, Drop,
     objectVars, storeVars, journalVars
<1>2. ASSUME NEW w \in Retirers, Retire(w)
      PROVE  UNCHANGED storeVars /\ UNCHANGED intents
  BY <1>2, RetireSteps DEF Unlink, Unlinked, Mark, Fenced, Sweep, Swept, GiveUp,
     StartDelete, StartPut, Drop, storeVars, journalVars
<1>3. ASSUME Storage
      PROVE  UNCHANGED storeVars \/ \E m \in wire : Creates(m) \/ Removes(m)
  BY <1>3 DEF Storage, ArrivePut, Resend, ArriveDelete, Readback, Look, LookAgain,
     storeVars, Creates, Removes
<1>4. UNCHANGED <<objectVars, journalVars, uploadVars, ret>>
        => UNCHANGED storeVars /\ UNCHANGED intents
  BY DEF objectVars, storeVars, journalVars
<1> QED
  BY <1>1, <1>2, <1>3, <1>4, NextSteps DEF journalVars

(* Everything in the store was named by the journal before it was put.       *)
LEMMA TrackedStep == JournalInv /\ [Next]_vars => NothingIsUntracked'
<1> SUFFICES ASSUME JournalInv, [Next]_vars, NEW o \in made'
             PROVE  ItemOf(o) \in intents' \cup {Item(Marker)}
  BY DEF NothingIsUntracked, Item, PartKey, Marker, RootKey, ItemOf
<1> USE DEF JournalInv, PutsAreKnown, Known, NothingIsUntracked, ItemOf
<1>1. CASE o \in made
  BY <1>1, ObjectSteps
<1>2. ASSUME NEW m \in wire, m.op = "put", o = NewObject(m)
      PROVE  ItemOf(o) \in Known
  BY <1>2 DEF NewObject
<1> QED
  BY <1>1, <1>2, ObjectSteps DEF Creates, Removes, storeVars

(* Every object that was ever created, however late its put arrived and      *)
(* whoever had died by then, has its intent in the journal: write_chunk_part *)
(* awaits before_write before it puts.                                       *)
THEOREM JournalIsComplete == Spec => []NothingIsUntracked
<1>1. Init => JournalInv
  BY DEF Init, ObjectInit, JournalInv, Shape, Steps, UpStates, RetStates, PutsAreKnown,
     NothingIsUntracked
<1>2. JournalInv /\ [Next]_vars => JournalInv'
  BY ShapeStep, PutsStep, TrackedStep DEF JournalInv
<1>3. JournalInv => NothingIsUntracked
  BY DEF JournalInv
<1> QED
  BY <1>1, <1>2, <1>3, PTL DEF Spec

-----------------------------------------------------------------------------
CreatedAt(k) == {o \in made : o.key = k}

(* A key names at most one object, and the tags of its creations differ.     *)
StoreInv ==
    /\ IsFiniteSet(made)
    /\ store \subseteq made
    /\ \A o, p \in store : o.key = p.key => o = p
    /\ \A o \in made : o.tag \in Nat /\ o.tag =< Cardinality(CreatedAt(o.key))
    /\ \A o, p \in made : o.key = p.key /\ o.tag = p.tag => o = p

(* A new object has a tag that no earlier one under its key had.             *)
LEMMA NewTags ==
  ASSUME StoreInv, NEW m
  PROVE  /\ NewObject(m).key = m.key
         /\ NewObject(m).tag \in Nat
         /\ NewObject(m).tag = 1 + Cardinality(CreatedAt(m.key))
         /\ \A o \in made : o.key = m.key => o.tag < NewObject(m).tag
<1>1. IsFiniteSet(CreatedAt(m.key))
  BY FS_Subset DEF StoreInv, CreatedAt
<1>2. Cardinality(CreatedAt(m.key)) \in Nat
  BY <1>1, FS_CardinalityType
<1>3. NewObject(m).key = m.key /\ NewObject(m).tag = 1 + Cardinality(CreatedAt(m.key))
  BY DEF NewObject, CreatedAt
<1> QED
  BY <1>2, <1>3 DEF StoreInv

(* Creating and removing objects keeps keys and tags apart.                  *)
LEMMA StoreStep == StoreInv /\ [Next]_vars => StoreInv'
<1> SUFFICES ASSUME StoreInv, [Next]_vars
             PROVE  StoreInv'
  OBVIOUS
<1>1. CASE UNCHANGED storeVars
  BY <1>1 DEF StoreInv, CreatedAt, storeVars
<1>2. ASSUME NEW m \in wire, Removes(m)
      PROVE  StoreInv'
  BY <1>2 DEF StoreInv, CreatedAt, Removes
<1>3. ASSUME NEW m \in wire, Creates(m)
      PROVE  StoreInv'
  <2>0. PICK n : n = NewObject(m)
    OBVIOUS
  <2>a. /\ n.key = m.key /\ n.tag \in Nat
        /\ n.tag = 1 + Cardinality(CreatedAt(m.key))
        /\ \A o \in made : o.key = m.key => o.tag < n.tag
        /\ made' = made \cup {n} /\ store' = store \cup {n} /\ At(m.key) = {}
    BY <1>3, <2>0, NewTags DEF Creates
  <2>1. IsFiniteSet(made') /\ store' \subseteq made'
    BY <2>a, FS_AddElement DEF StoreInv
  <2>2. \A o, p \in store' : o.key = p.key => o = p
    BY <2>a DEF StoreInv, At
  <2>3. \A o, p \in made' : o.key = p.key /\ o.tag = p.tag => o = p
    <3>1. \A o \in made : o.key = n.key => o.tag # n.tag
      BY <2>a DEF StoreInv
    <3> QED
      BY <2>a, <3>1 DEF StoreInv
  <2>4. \A k : /\ IsFiniteSet(CreatedAt(k))
               /\ Cardinality(CreatedAt(k)) \in Nat
               /\ Cardinality(CreatedAt(k)) =< Cardinality(CreatedAt(k)')
    <3> TAKE k
    <3>1. IsFiniteSet(CreatedAt(k)')
      BY <2>1, FS_Subset DEF CreatedAt
    <3>2. CreatedAt(k) \subseteq CreatedAt(k)'
      BY <2>a DEF CreatedAt
    <3> QED
      BY <3>1, <3>2, FS_Subset, FS_CardinalityType
  <2>5. n.tag \in Nat /\ n.tag = Cardinality(CreatedAt(n.key)')
    <3>1. n \notin CreatedAt(n.key)
      BY <2>a DEF CreatedAt, StoreInv
    <3>2. CreatedAt(n.key)' = CreatedAt(n.key) \cup {n}
      BY <2>a DEF CreatedAt
    <3>3. Cardinality(CreatedAt(n.key) \cup {n}) = Cardinality(CreatedAt(n.key)) + 1
      BY <2>4, <3>1, FS_AddElement
    <3> QED
      BY <2>4, <2>a, <3>2, <3>3
  <2>6. \A o \in made' : o.tag \in Nat /\ o.tag =< Cardinality(CreatedAt(o.key)')
    <3>1. ASSUME NEW o \in made
          PROVE  o.tag \in Nat /\ o.tag =< Cardinality(CreatedAt(o.key)')
      <4>1. o.tag \in Nat /\ o.tag =< Cardinality(CreatedAt(o.key))
        BY DEF StoreInv
      <4>2. IsFiniteSet(CreatedAt(o.key)')
        BY <2>1, FS_Subset DEF CreatedAt
      <4>3. Cardinality(CreatedAt(o.key)') \in Nat
        BY <4>2, FS_CardinalityType
      <4> QED
        BY <2>4, <4>1, <4>3
    <3>2. n.tag =< Cardinality(CreatedAt(n.key)')
      BY <2>5
    <3> QED
      BY <2>5, <2>a, <3>1, <3>2
  <2> QED
    BY <2>1, <2>2, <2>3, <2>6 DEF StoreInv, CreatedAt
<1> QED
  BY <1>1, <1>2, <1>3, ObjectSteps

-----------------------------------------------------------------------------
(* The journal, uploads and verified reads never name the marker.            *)
MarkerIsForeign ==
    /\ \A i \in intents : i.body # Marker
    /\ \A o \in outcomes : o.body # Marker
    /\ \A u \in Uploaders : up[u] = "putting" => item[u].body # Marker
    /\ \A c \in Clients : step[c] = "look" => item[c].body # Marker

(* A delete on its way names an object that was verified not to be it.       *)
Verifies(m, o) == ItemOf(o) = ItemOf(m) /\ o.tag = m.tag /\ o.body # Marker
DeletesAreVerified ==
    \A m \in wire : m.op = "delete" => \E o \in made : Verifies(m, o)

MarkerMade == \E o \in made : o.key = RootKey /\ o.body = Marker
MarkerStored == \E o \in store : o.key = RootKey /\ o.body = Marker

(* A worker that has its marker verified, or is past that, has made one.     *)
FencesAreMade ==
    \A w \in Retirers :
        /\ ret[w] = "marking" =>
             /\ item[w].key = RootKey /\ item[w].body = Marker
             /\ step[w] = "written" => MarkerMade
        /\ ret[w] = "fenced" => MarkerMade

FenceInv == Shape /\ StoreInv /\ MarkerIsForeign /\ DeletesAreVerified /\ FencesAreMade

(* Where deletes are exact, what was made a marker is there.                 *)
StoredInv == FenceInv /\ (MarkerMade => MarkerStored)

LEMMA PartsAreNoMarker == \A u \in Uploaders : NextPart(u) # Marker
BY DEF NextPart, Page, Chunk, Root, Marker

LEMMA MarkerIsForeignStep == FenceInv /\ [Next]_vars => MarkerIsForeign'
<1> SUFFICES ASSUME FenceInv, [Next]_vars
             PROVE  MarkerIsForeign'
  OBVIOUS
<1> USE ClientsOf DEF FenceInv, MarkerIsForeign, Marker, Shape
<1>1. ASSUME NEW u \in Uploaders, Upload(u)
      PROVE  MarkerIsForeign'
  <2>1. CASE Begin(u)
    BY <2>1 DEF Begin, objectVars, callVars, journalVars
  <2>2. CASE Intend(u)
    <3>1. Item(NextPart(u)).body # Marker
      BY PartsAreNoMarker DEF Item
    <3> QED
      BY <2>2, <3>1 DEF Intend, objectVars, callVars
  <2>3. CASE PutPart(u)
    <3>1. Item(NextPart(u)).body # Marker
      BY PartsAreNoMarker DEF Item
    <3> QED
      BY <2>3, <3>1 DEF PutPart, StartPut, Goes, journalVars
  <2>4. CASE Outcome(u)
    <3>1. Receipt(u).body # Marker
      BY <2>4 DEF Outcome, Receipt
    <3>2. /\ intents' = intents /\ outcomes' = outcomes \cup {Receipt(u)}
          /\ up'[u] # "putting" /\ step'[u] # "look"
          /\ \A v \in Uploaders : v # u => up'[v] = up[v]
          /\ \A c \in Clients : c # u => step'[c] = step[c] /\ item'[c] = item[c]
      BY <2>4 DEF Outcome, EndCall
    <3> QED
      BY <3>1, <3>2
  <2>5. CASE Fail(u)
    <3>1. \A o \in outcomes' : o \in outcomes \/ o.body # Marker
      BY <2>5 DEF Fail, Receipt
    <3>2. /\ intents' = intents /\ up'[u] # "putting" /\ step'[u] # "look"
          /\ \A v \in Uploaders : v # u => up'[v] = up[v]
          /\ \A c \in Clients : c # u => step'[c] = step[c] /\ item'[c] = item[c]
      BY <2>5 DEF Fail, Drop, EndCall
    <3> QED
      BY <3>1, <3>2
  <2> QED
    BY <1>1, UploadSteps, <2>1, <2>2, <2>3, <2>4, <2>5
<1>2. ASSUME NEW w \in Retirers, Retire(w)
      PROVE  MarkerIsForeign'
  <2>0. /\ UNCHANGED <<journalVars, uploadVars>>
        /\ \A u \in Uploaders : u # w
    BY <1>2, RetireSteps, ChunkAssumption
       DEF Unlink, Unlinked, Mark, Fenced, Sweep, Swept, GiveUp
  <2>1. ASSUME NEW i, NEW v, StartDelete(w, i, v), i.body # Marker
        PROVE  MarkerIsForeign'
    BY <2>0, <2>1 DEF StartDelete, Goes, journalVars, uploadVars
  <2>2. CASE Unlink(w) \/ Sweep(w)
    BY <2>1, <2>2 DEF Unlink, Sweep, ItemOf
  <2>3. CASE Mark(w)
    BY <2>0, <2>3 DEF Mark, StartPut, Goes, journalVars, uploadVars
  <2>4. CASE Unlinked(w) \/ Fenced(w) \/ Swept(w) \/ GiveUp(w)
    BY <2>0, <2>4 DEF Unlinked, Fenced, Swept, GiveUp, Drop, EndCall, journalVars, uploadVars
  <2> QED
    BY <1>2, RetireSteps, <2>2, <2>3, <2>4
<1>3. ASSUME Storage, UNCHANGED <<journalVars, uploadVars, ret>>
      PROVE  MarkerIsForeign'
  <2>1. item' = item
    BY <1>3 DEF Storage, ArrivePut, Resend, ArriveDelete, Readback, Look, LookAgain, callVars
  <2>2. \A c \in Clients : step'[c] = "look" => step[c] = "look"
    BY <1>3 DEF Storage, ArrivePut, Resend, ArriveDelete, Readback, Look, LookAgain,
       Answer, Goes, callVars
  <2> QED
    BY <1>3, <2>1, <2>2 DEF journalVars, uploadVars
<1>4. ASSUME UNCHANGED <<objectVars, journalVars, uploadVars, ret>>
      PROVE  MarkerIsForeign'
  BY <1>4 DEF objectVars, callVars, journalVars, uploadVars
<1> QED
  BY <1>1, <1>2, <1>3, <1>4, NextSteps

LEMMA DeletesStep == FenceInv /\ [Next]_vars => DeletesAreVerified'
<1> SUFFICES ASSUME FenceInv, [Next]_vars, NEW m \in wire', m.op = "delete"
             PROVE  \E o \in made' : Verifies(m, o)
  BY DEF DeletesAreVerified, Verifies, Marker, ItemOf
<1> USE DEF FenceInv
<1>1. made \subseteq made'
  BY ObjectSteps DEF Creates, Removes, storeVars
<1>2. CASE m \in wire
  BY <1>1, <1>2 DEF DeletesAreVerified, Verifies, ItemOf
<1>3. ASSUME m \notin wire
      PROVE  \E c \in Clients : Look(c) /\ m \in wire'
  <2>1. ASSUME NEW u \in Uploaders, Upload(u)
        PROVE  FALSE
    BY <1>3, <2>1, UploadSteps DEF Begin, Intend, PutPart, Outcome, Fail, StartPut, Drop,
       objectVars, netVars
  <2>2. ASSUME NEW w \in Retirers, Retire(w)
        PROVE  FALSE
    BY <1>3, <2>2, RetireSteps DEF Unlink, Unlinked, Mark, Fenced, Sweep, Swept, GiveUp,
       StartPut, StartDelete, Drop, netVars
  <2>3. CASE Storage
    BY <1>3, <2>3 DEF Storage, ArrivePut, Resend, ArriveDelete, Readback, LookAgain, netVars
  <2> QED
    BY <1>3, <2>1, <2>2, <2>3, NextSteps DEF objectVars, netVars
<1>4. ASSUME NEW c \in Clients, Look(c), m \notin wire
      PROVE  \E o \in made : Verifies(m, o)
  <2>1. PICK o \in At(item[c].key) : /\ o.body = item[c].body
                                     /\ m = [by |-> c, op |-> "delete", key |-> o.key,
                                             body |-> o.body, tag |-> o.tag]
    BY <1>4 DEF Look
  <2>2. o \in made /\ o.body # Marker
    BY <1>4, <2>1 DEF At, StoreInv, MarkerIsForeign, Look
  <2> QED
    BY <2>1, <2>2 DEF Verifies, ItemOf
<1> QED
  BY <1>1, <1>2, <1>3, <1>4

LEMMA MarkerStays ==
  ASSUME [Next]_vars, MarkerMade
  PROVE  MarkerMade'
<1>1. made \subseteq made'
  BY ObjectSteps DEF Creates, Removes, storeVars
<1> QED
  BY <1>1 DEF MarkerMade, RootKey, Marker

LEMMA FencesStep == FenceInv /\ [Next]_vars => FencesAreMade'
<1> SUFFICES ASSUME FenceInv, [Next]_vars, NEW w \in Retirers
             PROVE  /\ ret'[w] = "marking" =>
                         /\ item'[w].key = RootKey /\ item'[w].body = Marker
                         /\ step'[w] = "written" => MarkerMade'
                    /\ ret'[w] = "fenced" => MarkerMade'
  BY DEF FencesAreMade, RootKey, Marker, MarkerMade
<1> USE ClientsOf DEF FenceInv, Shape
<1>1. MarkerMade => MarkerMade'
  BY MarkerStays
<1>2. CASE /\ ret'[w] = ret[w] /\ item'[w] = item[w]
           /\ step'[w] = "written" => step[w] = "written"
  BY <1>1, <1>2 DEF FencesAreMade
<1>3. ASSUME NEW u \in Uploaders, Upload(u)
      PROVE  ret'[w] = ret[w] /\ item'[w] = item[w] /\ step'[w] = step[w]
  <2>1. u # w
    BY ChunkAssumption
  <2> QED
    BY <1>3, <2>1, UploadSteps DEF Begin, Intend, PutPart, Outcome, Fail, StartPut, Drop,
       EndCall, Goes, objectVars, callVars
<1>4. ASSUME NEW v \in Retirers, v # w, Retire(v)
      PROVE  ret'[w] = ret[w] /\ item'[w] = item[w] /\ step'[w] = step[w]
  BY <1>4, RetireSteps DEF Unlink, Unlinked, Mark, Fenced, Sweep, Swept, GiveUp,
     StartPut, StartDelete, Drop, EndCall, Goes
<1>5. ASSUME Retire(w)
      PROVE  /\ ret'[w] = "marking" =>
                  /\ item'[w].key = RootKey /\ item'[w].body = Marker
                  /\ step'[w] = "written" => MarkerMade'
             /\ ret'[w] = "fenced" => MarkerMade'
  <2>1. CASE Mark(w)
    BY <2>1 DEF Mark, StartPut, Goes, Item, PartKey, Marker
  <2>2. CASE Fenced(w)
    BY <1>1, <2>2 DEF Fenced, FencesAreMade
  <2>3. CASE Sweep(w) \/ Swept(w)
    BY <1>1, <2>3 DEF Sweep, Swept, FencesAreMade
  <2>4. CASE Unlink(w) \/ Unlinked(w) \/ GiveUp(w)
    BY <2>4 DEF Unlink, Unlinked, GiveUp
  <2> QED
    BY <1>5, RetireSteps, <2>1, <2>2, <2>3, <2>4
<1>6. ASSUME Storage, UNCHANGED ret, ~Readback(w)
      PROVE  /\ ret'[w] = ret[w] /\ item'[w] = item[w]
             /\ step'[w] = "written" => step[w] = "written"
  BY <1>6 DEF Storage, ArrivePut, Resend, ArriveDelete, Readback, Look, LookAgain,
     Answer, Goes, callVars
<1>7. ASSUME Readback(w), UNCHANGED ret, ret[w] = "marking", step'[w] = "written"
      PROVE  MarkerMade
  <2>1. PICK o \in At(item[w].key) : o.body = item[w].body
    BY <1>7 DEF Readback, Goes
  <2> QED
    BY <1>7, <2>1 DEF FencesAreMade, At, MarkerMade, StoreInv
<1>8. ASSUME Readback(w), UNCHANGED ret
      PROVE  ret'[w] = ret[w] /\ item'[w] = item[w]
  BY <1>8 DEF Readback
<1>9. CASE UNCHANGED <<objectVars, journalVars, uploadVars, ret>>
  BY <1>2, <1>9 DEF objectVars, callVars
<1>10. CASE Storage /\ UNCHANGED ret
  BY <1>1, <1>2, <1>6, <1>7, <1>8, <1>10 DEF FencesAreMade
<1> QED
  BY <1>2, <1>3, <1>4, <1>5, <1>9, <1>10, NextSteps

LEMMA FenceInit == Init => FenceInv
<1>1. ASSUME Init
      PROVE  StoreInv
  BY <1>1, FS_EmptySet DEF Init, ObjectInit, StoreInv
<1> QED
  BY <1>1, ClientsOf DEF Init, ObjectInit, FenceInv, Shape, Steps, UpStates, RetStates,
     MarkerIsForeign, DeletesAreVerified, FencesAreMade

LEMMA FenceStep == FenceInv /\ [Next]_vars => FenceInv'
BY ShapeStep, StoreStep, MarkerIsForeignStep, DeletesStep, FencesStep DEF FenceInv

(* With exact versions no delete reaches a marker.                           *)
LEMMA StoredStep == Versioned /\ StoredInv /\ [Next]_vars => StoredInv'
<1> SUFFICES ASSUME Versioned, StoredInv, [Next]_vars, MarkerMade'
             PROVE  MarkerStored'
  BY FenceStep DEF StoredInv
<1>1. ASSUME NEW o \in store, o.key = RootKey, o.body = Marker
      PROVE  o \in store'
  <2>1. ASSUME NEW m \in wire, Removes(m)
        PROVE  o \notin Deletes(m)
    <3>1. PICK p \in made : Verifies(m, p)
      BY <2>1 DEF StoredInv, FenceInv, DeletesAreVerified, Removes
    <3> QED
      BY <1>1, <3>1 DEF Deletes, At, Verifies, ItemOf, StoredInv, FenceInv, StoreInv
  <2> QED
    BY <2>1, ObjectSteps DEF Creates, Removes, storeVars
<1>2. CASE MarkerMade
  BY <1>1, <1>2 DEF StoredInv, MarkerStored, RootKey, Marker
<1>3. CASE ~MarkerMade
  <2>1. PICK o \in made' : o.key = RootKey /\ o.body = Marker
    BY DEF MarkerMade, RootKey, Marker
  <2>2. o \notin made
    BY <1>3, <2>1 DEF MarkerMade
  <2>3. o \in store'
    BY <2>1, <2>2, ObjectSteps DEF Creates, Removes, storeVars
  <2> QED
    BY <2>1, <2>3 DEF MarkerStored, RootKey, Marker
<1> QED
  BY <1>2, <1>3

LEMMA StoredHolds ==
  ASSUME Versioned
  PROVE  Spec => []StoredInv
<1>1. Init => StoredInv
  BY FenceInit DEF Init, ObjectInit, StoredInv, MarkerMade
<1> QED
  BY <1>1, StoredStep, PTL DEF Spec

(* On a store with versions the marker is a fence for ever: once a worker    *)
(* has its receipt, no root exists under the key, whatever puts are still on *)
(* their way and whoever deletes what the journal knows.                     *)
THEOREM FenceHolds ==
  ASSUME Versioned
  PROVE  Spec => []MarkerFences
<1>1. StoredInv => MarkerFences
  BY DEF StoredInv, FenceInv, FencesAreMade, MarkerStored, MarkerFences, StoreInv, IsRoot
<1> QED
  BY <1>1, StoredHolds, PTL

(* On a store with versions a delete removes what was read and verified for  *)
(* it, however much later it arrives and whatever was put there meanwhile.   *)
THEOREM DeletesAreExact ==
  ASSUME Versioned
  PROVE  Spec => DeletesOnlyTheVerified
<1>1. ASSUME FenceInv, NEW m \in wire, ArriveDelete(m), NEW o \in store \ store'
      PROVE  ItemOf(o) = ItemOf(m)
  <2>1. o \in made /\ o.key = m.key /\ o.tag = m.tag
    BY <1>1 DEF ArriveDelete, Deletes, At, FenceInv, StoreInv
  <2>2. PICK p \in made : Verifies(m, p)
    BY <1>1 DEF FenceInv, DeletesAreVerified, ArriveDelete
  <2>3. p = o
    BY <1>1, <2>1, <2>2 DEF Verifies, ItemOf, FenceInv, StoreInv
  <2> QED
    BY <2>2, <2>3 DEF Verifies
<1>2. FenceInv =>
        [\A m \in wire : ArriveDelete(m) => \A o \in store \ store' : ItemOf(o) = ItemOf(m)]_vars
  BY <1>1
<1> QED
  BY <1>2, FenceInit, FenceStep, PTL DEF Spec, DeletesOnlyTheVerified

-----------------------------------------------------------------------------
Kinds == {"chunk", "page", "root"}
Keyed(i) == i.key = PartKey(i.body) /\ (i.body.kind \in Kinds \/ i.body = Marker)

(* Parts are stored under themselves, roots and the marker under the logical *)
(* key; this is what part_key is for.                                        *)
KeyInv ==
    /\ \A o \in made : o = [key |-> o.key, body |-> o.body, tag |-> o.tag] /\ Keyed(o)
    /\ \A o \in outcomes : Keyed(o)
    /\ \A m \in wire : m.op = "put" => Keyed(m)
    /\ \A u \in Uploaders : up[u] = "putting" => Keyed(item[u])

LEMMA PartsAreKeyed == \A u \in Uploaders : Keyed(Item(NextPart(u)))
BY DEF Keyed, Item, NextPart, Page, Chunk, Root, Kinds

LEMMA MarkerIsKeyed == Keyed(Item(Marker))
BY DEF Keyed, Item, Marker, Kinds

LEMMA KeyStep == Shape /\ KeyInv /\ [Next]_vars => KeyInv'
<1> SUFFICES ASSUME Shape, KeyInv, [Next]_vars
             PROVE  KeyInv'
  OBVIOUS
<1> USE ClientsOf DEF Shape
<1>1. \A o \in made' : o = [key |-> o.key, body |-> o.body, tag |-> o.tag] /\ Keyed(o)
  <2>1. CASE made' = made
    BY <2>1 DEF KeyInv
  <2>2. ASSUME NEW m \in wire, Creates(m), NEW o \in made'
        PROVE  o = [key |-> o.key, body |-> o.body, tag |-> o.tag] /\ Keyed(o)
    <3>1. CASE o \in made
      BY <3>1 DEF KeyInv
    <3>2. CASE o = NewObject(m)
      BY <2>2, <3>2 DEF KeyInv, Creates, NewObject, Keyed
    <3> QED
      BY <2>2, <3>1, <3>2 DEF Creates
  <2> QED
    BY <2>1, <2>2, ObjectSteps DEF Removes, storeVars
<1>2. \A i : Keyed(i)' <=> Keyed(i)
  BY DEF Keyed, PartKey, Kinds, RootKey, Marker
<1>3. ASSUME NEW u \in Uploaders, Upload(u)
      PROVE  KeyInv'
  <2>1. \A o \in outcomes' : Keyed(o)
    <3>1. up[u] = "putting" => Keyed(Receipt(u))
      BY DEF Receipt, KeyInv, Keyed
    <3>2. \/ UNCHANGED outcomes
          \/ up[u] = "putting" /\ outcomes' = outcomes \cup {Receipt(u)}
      BY <1>3, UploadSteps DEF Begin, Intend, PutPart, Outcome, Fail, journalVars
    <3> QED
      BY <3>1, <3>2 DEF KeyInv
  <2>2. \A m \in wire' : m.op = "put" => m \in wire \/ Keyed(m)
    BY <1>3, UploadSteps, PartsAreKeyed DEF Begin, Intend, PutPart, Outcome, Fail, StartPut,
       Drop, objectVars, netVars, Keyed
  <2>3. \A v \in Uploaders : up'[v] = "putting" => Keyed(item'[v])
    BY <1>3, UploadSteps, PartsAreKeyed DEF Begin, Intend, PutPart, Outcome, Fail, StartPut,
       Drop, EndCall, objectVars, callVars, KeyInv
  <2> QED
    BY <1>1, <1>2, <2>1, <2>2, <2>3 DEF KeyInv
<1>4. ASSUME NEW w \in Retirers, Retire(w)
      PROVE  KeyInv'
  <2>1. UNCHANGED <<outcomes, up>>
    BY <1>4, RetireSteps DEF Unlink, Unlinked, Mark, Fenced, Sweep, Swept, GiveUp,
       journalVars, uploadVars
  <2>2. \A m \in wire' : m.op = "put" => m \in wire \/ Keyed(m)
    BY <1>4, RetireSteps, MarkerIsKeyed DEF Unlink, Unlinked, Mark, Fenced, Sweep, Swept,
       GiveUp, StartPut, StartDelete, Drop, netVars, Keyed
  <2>3. \A v \in Uploaders : item'[v] = item[v]
    BY <1>4, RetireSteps, ChunkAssumption DEF Unlink, Unlinked, Mark, Fenced, Sweep, Swept,
       GiveUp, StartPut, StartDelete, Drop, EndCall
  <2> QED
    BY <1>1, <1>2, <2>1, <2>2, <2>3 DEF KeyInv
<1>5. ASSUME Storage, UNCHANGED <<journalVars, uploadVars, ret>>
      PROVE  KeyInv'
  <2>1. item' = item /\ \A m \in wire' : m.op = "put" => m \in wire
    BY <1>5 DEF Storage, ArrivePut, Resend, ArriveDelete, Readback, Look, LookAgain,
       callVars, netVars
  <2> QED
    BY <1>1, <1>2, <1>5, <2>1 DEF KeyInv, journalVars, uploadVars
<1>6. CASE UNCHANGED <<objectVars, journalVars, uploadVars, ret>>
  BY <1>1, <1>2, <1>6 DEF KeyInv, objectVars, netVars, callVars, journalVars, uploadVars
<1> QED
  BY <1>3, <1>4, <1>5, <1>6, NextSteps

-----------------------------------------------------------------------------
(* Until the marker is there, only roots are looked at to be deleted.        *)
OnlyRootsDeleted ==
    \/ MarkerMade
    \/ /\ \A c \in Clients : step[c] = "look" => item[c].key = RootKey
       /\ \A m \in wire : m.op = "delete" => m.key = RootKey

LEMMA DeletedStep == FenceInv /\ OnlyRootsDeleted /\ [Next]_vars => OnlyRootsDeleted'
<1> SUFFICES ASSUME FenceInv, OnlyRootsDeleted, [Next]_vars, ~MarkerMade'
             PROVE  OnlyRootsDeleted'
  BY DEF OnlyRootsDeleted
<1> USE ClientsOf DEF FenceInv, Shape
<1>1. /\ ~MarkerMade
      /\ \A c \in Clients : step[c] = "look" => item[c].key = RootKey
      /\ \A m \in wire : m.op = "delete" => m.key = RootKey
  BY MarkerStays DEF OnlyRootsDeleted
<1>2. \A w \in Retirers : ret[w] # "fenced"
  BY <1>1 DEF FencesAreMade
<1>3. ASSUME \A c \in Clients : step'[c] = "look" => item'[c].key = RootKey,
             \A m \in wire' : m.op = "delete" => m.key = RootKey
      PROVE  OnlyRootsDeleted'
  BY <1>3 DEF OnlyRootsDeleted, RootKey
<1>4. ASSUME NEW u \in Uploaders, Upload(u)
      PROVE  OnlyRootsDeleted'
  <2>1. \A c \in Clients : step'[c] = "look" => step[c] = "look" /\ item'[c] = item[c]
    BY <1>4, UploadSteps DEF Begin, Intend, PutPart, Outcome, Fail, StartPut, Drop, EndCall,
       Goes, objectVars, callVars
  <2>2. \A m \in wire' : m.op = "delete" => m \in wire
    BY <1>4, UploadSteps DEF Begin, Intend, PutPart, Outcome, Fail, StartPut, Drop,
       objectVars, netVars
  <2> QED
    BY <1>1, <1>3, <2>1, <2>2
<1>5. ASSUME NEW w \in Retirers, Retire(w)
      PROVE  OnlyRootsDeleted'
  <2>1. \A m \in wire' : m.op = "delete" => m \in wire
    BY <1>5, RetireSteps DEF Unlink, Unlinked, Mark, Fenced, Sweep, Swept, GiveUp, StartPut,
       StartDelete, Drop, netVars
  <2>2. CASE Unlink(w)
    <3>1. PICK o \in outcomes : IsRoot(o) /\ StartDelete(w, ItemOf(o), Pin(o))
      BY <2>2 DEF Unlink
    <3>2. \A c \in Clients : step'[c] = "look" => item'[c].key = RootKey
      BY <1>1, <3>1 DEF StartDelete, Goes, ItemOf, IsRoot
    <3> QED
      BY <1>1, <1>3, <2>1, <3>2
  <2>3. CASE Unlinked(w) \/ Mark(w) \/ Fenced(w) \/ Swept(w) \/ GiveUp(w)
    <3>1. \A c \in Clients : step'[c] = "look" => step[c] = "look" /\ item'[c] = item[c]
      BY <2>3 DEF Unlinked, Mark, Fenced, Swept, GiveUp, StartPut, Drop, EndCall, Goes
    <3> QED
      BY <1>1, <1>3, <2>1, <3>1
  <2>4. ~Sweep(w)
    BY <1>2 DEF Sweep
  <2> QED
    BY <1>5, RetireSteps, <2>2, <2>3, <2>4
<1>6. ASSUME Storage
      PROVE  OnlyRootsDeleted'
  <2>1. item' = item /\ \A c \in Clients : step'[c] = "look" => step[c] = "look"
    BY <1>6 DEF Storage, ArrivePut, Resend, ArriveDelete, Readback, Look, LookAgain,
       Answer, Goes, callVars
  <2>2. ASSUME NEW m \in wire', m.op = "delete", m \notin wire
        PROVE  m.key = RootKey
    <3>1. PICK c \in Clients : Look(c)
      BY <1>6, <2>2 DEF Storage, ArrivePut, Resend, ArriveDelete, Readback, LookAgain, netVars
    <3>2. PICK o \in At(item[c].key) : m.key = o.key
      BY <2>2, <3>1 DEF Look
    <3> QED
      BY <1>1, <3>1, <3>2 DEF Look, At
  <2> QED
    BY <1>1, <1>3, <2>1, <2>2
<1>7. CASE UNCHANGED <<objectVars, journalVars, uploadVars, ret>>
  BY <1>1, <1>3, <1>7 DEF objectVars, netVars, callVars
<1> QED
  BY <1>4, <1>5, <1>6, <1>7, NextSteps

-----------------------------------------------------------------------------
(* Receipts of one kind whose objects are all there.                         *)
AllStored(s, kind) == \A p \in Range(s) : p \in store /\ p.body.kind = kind

WholeBody(b) == /\ b.kind = "page" => AllStored(b.chunks, "chunk")
                /\ b.kind = "root" => AllStored(b.pages, "page")

(* The receipt an upload is about to take is the one of a stored part.       *)
FreshReceipt(u) ==
    up[u] = "putting" /\ step[u] = "written" /\ item[u].body.kind \in {"chunk", "page"}
        => Receipt(u) \in store

(* Until the marker is there, whatever is stored, on its way or collected by *)
(* an upload points to stored parts only.                                    *)
Everything ==
    /\ \A o \in store : WholeBody(o.body)
    /\ \A m \in wire : m.op = "put" => WholeBody(m.body)
    /\ \A u \in Uploaders : /\ AllStored(entries[u], "chunk")
                            /\ AllStored(pages[u], "page")
                            /\ FreshReceipt(u)

Collects == \A u \in Uploaders : entries[u] \in Seq(outcomes) /\ pages[u] \in Seq(outcomes)

WholeInv == /\ FenceInv /\ KeyInv /\ OnlyRootsDeleted /\ Collects
            /\ MarkerMade \/ Everything

LEMMA RangeOfAppend ==
  ASSUME NEW S, NEW s \in Seq(S), NEW e
  PROVE  Range(Append(s, e)) = Range(s) \cup {e}
<1>1. /\ DOMAIN s = 1..Len(s) /\ Len(s) \in Nat
      /\ DOMAIN Append(s, e) = 1..(Len(s) + 1)
      /\ \A i \in 1..Len(s) : Append(s, e)[i] = s[i]
      /\ Append(s, e)[Len(s) + 1] = e
  OBVIOUS
<1> QED
  BY <1>1 DEF Range

(* What an upload has collected stays a sequence of its receipts.            *)
LEMMA CollectsStep == Shape /\ Collects /\ [Next]_vars => Collects'
<1> SUFFICES ASSUME Shape, Collects, [Next]_vars, NEW v \in Uploaders
             PROVE  (entries[v] \in Seq(outcomes) /\ pages[v] \in Seq(outcomes))'
  BY DEF Collects
<1> USE DEF Shape, Collects
<1>1. ASSUME NEW u \in Uploaders, Upload(u)
      PROVE  entries'[v] \in Seq(outcomes') /\ pages'[v] \in Seq(outcomes')
  <2>1. CASE Outcome(u)
    <3>1. outcomes' = outcomes \cup {Receipt(u)}
      BY <2>1 DEF Outcome
    <3>2. entries[v] \in Seq(outcomes') /\ pages[v] \in Seq(outcomes')
      BY <3>1
    <3>3. entries'[v] \in {entries[v], Append(entries[v], Receipt(u)), <<>>}
      BY <2>1 DEF Outcome
    <3>4. pages'[v] \in {pages[v], Append(pages[v], Receipt(u)), <<>>}
      BY <2>1 DEF Outcome
    <3>5. <<>> \in Seq(outcomes')
      OBVIOUS
    <3>6. Append(entries[v], Receipt(u)) \in Seq(outcomes')
      BY <3>1, <3>2
    <3>7. Append(pages[v], Receipt(u)) \in Seq(outcomes')
      BY <3>1, <3>2
    <3> QED
      BY <3>2, <3>3, <3>4, <3>5, <3>6, <3>7
  <2>2. CASE Fail(u)
    BY <2>2 DEF Fail, journalVars
  <2>3. CASE Begin(u) \/ Intend(u) \/ PutPart(u)
    BY <2>3 DEF Begin, Intend, PutPart, journalVars
  <2> QED
    BY <1>1, UploadSteps, <2>1, <2>2, <2>3
<1>2. ASSUME UNCHANGED <<outcomes, entries, pages>>
      PROVE  entries'[v] \in Seq(outcomes') /\ pages'[v] \in Seq(outcomes')
  BY <1>2
<1>3. ASSUME NEW w \in Retirers, Retire(w)
      PROVE  UNCHANGED <<outcomes, entries, pages>>
  BY <1>3, RetireSteps DEF Unlink, Unlinked, Mark, Fenced, Sweep, Swept, GiveUp,
     journalVars, uploadVars
<1> QED
  BY <1>1, <1>2, <1>3, NextSteps DEF journalVars, uploadVars

(* Without the marker, parts are never removed.                              *)
LEMMA PartsStay ==
  ASSUME WholeInv, ~MarkerMade, [Next]_vars,
         NEW o \in store, o.body.kind \in {"chunk", "page"}
  PROVE  o \in store'
<1>1. o.key # RootKey
  BY DEF WholeInv, FenceInv, StoreInv, KeyInv, Keyed, PartKey, RootKey, Marker
<1>2. ASSUME NEW m \in wire, Removes(m)
      PROVE  o \notin Deletes(m)
  BY <1>1, <1>2 DEF WholeInv, OnlyRootsDeleted, Removes, Deletes, At
<1> QED
  BY <1>2, ObjectSteps DEF Creates, Removes, storeVars

LEMMA WholesStay ==
  ASSUME WholeInv, ~MarkerMade, [Next]_vars
  PROVE  /\ \A s : AllStored(s, "chunk") => AllStored(s, "chunk")'
         /\ \A s : AllStored(s, "page") => AllStored(s, "page")'
         /\ \A b : WholeBody(b) => WholeBody(b)'
<1>1. ASSUME NEW s, NEW kind \in {"chunk", "page"}, AllStored(s, kind)
      PROVE  AllStored(s, kind)'
  BY <1>1, PartsStay DEF AllStored
<1> QED
  BY <1>1 DEF WholeBody

-----------------------------------------------------------------------------
(* A part that an upload is about to write points to what it has collected.  *)
LEMMA PartsAreWhole ==
  ASSUME Everything, NEW u \in Uploaders
  PROVE  WholeBody(Item(NextPart(u)).body)
BY DEF Everything, WholeBody, Item, NextPart, Page, Root, Chunk

(* What an upload has collected stays stored, and what it takes is stored.   *)
LEMMA CollectedStep ==
  ASSUME WholeInv, [Next]_vars, ~MarkerMade, NEW v \in Uploaders
  PROVE  AllStored(entries[v], "chunk")' /\ AllStored(pages[v], "page")'
<1> USE ClientsOf DEF WholeInv, FenceInv, Shape
<1>0. Everything
  OBVIOUS
<1>1. /\ \A p \in Range(entries[v]) : p \in store' /\ p.body.kind = "chunk"
      /\ \A p \in Range(pages[v]) : p \in store' /\ p.body.kind = "page"
  <2>1. AllStored(entries[v], "chunk") /\ AllStored(pages[v], "page")
    BY <1>0 DEF Everything
  <2> QED
    BY <2>1, PartsStay DEF AllStored
<1>2. ASSUME entries'[v] = entries[v], pages'[v] = pages[v]
      PROVE  AllStored(entries[v], "chunk")' /\ AllStored(pages[v], "page")'
  BY <1>1, <1>2 DEF AllStored
<1>3. ASSUME entries'[v] = <<>>, pages'[v] = <<>>
      PROVE  AllStored(entries[v], "chunk")' /\ AllStored(pages[v], "page")'
  BY <1>3 DEF AllStored, Range
<1>4. CASE Outcome(v)
  <2>1. entries[v] \in Seq(outcomes) /\ pages[v] \in Seq(outcomes)
    BY DEF Collects
  <2>2. Receipt(v).body = item[v].body
    BY DEF Receipt
  <2>3. store' = store
    BY <1>4 DEF Outcome, storeVars
  <2>4. CASE item[v].body.kind = "chunk"
    <3>1. Receipt(v) \in store
      BY <1>0, <1>4, <2>4 DEF Everything, FreshReceipt, Outcome
    <3>2. entries'[v] = Append(entries[v], Receipt(v)) /\ pages'[v] = pages[v]
      BY <1>4, <2>4 DEF Outcome
    <3>3. Range(entries'[v]) = Range(entries[v]) \cup {Receipt(v)}
      BY <2>1, <3>2, RangeOfAppend
    <3> QED
      BY <1>1, <2>2, <2>3, <2>4, <3>1, <3>2, <3>3 DEF AllStored
  <2>5. CASE item[v].body.kind = "page"
    <3>1. Receipt(v) \in store
      BY <1>0, <1>4, <2>5 DEF Everything, FreshReceipt, Outcome
    <3>2. entries'[v] = <<>> /\ pages'[v] = Append(pages[v], Receipt(v))
      BY <1>4, <2>5 DEF Outcome
    <3>3. Range(pages'[v]) = Range(pages[v]) \cup {Receipt(v)}
      BY <2>1, <3>2, RangeOfAppend
    <3>4. Range(entries'[v]) = {}
      BY <3>2 DEF Range
    <3> QED
      BY <1>1, <2>2, <2>3, <2>5, <3>1, <3>2, <3>3, <3>4 DEF AllStored
  <2>6. CASE item[v].body.kind \notin {"chunk", "page"}
    <3>1. entries'[v] = entries[v] /\ pages'[v] \in {pages[v], <<>>}
      BY <1>4, <2>6 DEF Outcome
    <3>2. CASE pages'[v] = pages[v]
      BY <1>2, <3>1, <3>2
    <3>3. CASE pages'[v] = <<>>
      <4>1. Range(pages'[v]) = {}
        BY <3>3 DEF Range
      <4> QED
        BY <1>1, <3>1, <4>1 DEF AllStored
    <3> QED
      BY <3>1, <3>2, <3>3
  <2> QED
    BY <2>4, <2>5, <2>6
<1>5. CASE Fail(v)
  BY <1>3, <1>5 DEF Fail
<1>6. ASSUME NEW u \in Uploaders, Upload(u), ~Outcome(v), ~Fail(v)
      PROVE  entries'[v] = entries[v] /\ pages'[v] = pages[v]
  BY <1>6, UploadSteps DEF Begin, Intend, PutPart, Outcome, Fail
<1>7. ASSUME NEW w \in Retirers, Retire(w)
      PROVE  UNCHANGED <<entries, pages>>
  BY <1>7, RetireSteps DEF Unlink, Unlinked, Mark, Fenced, Sweep, Swept, GiveUp,
     journalVars, uploadVars
<1> QED
  BY <1>2, <1>4, <1>5, <1>6, <1>7, NextSteps DEF uploadVars

(* The receipt that comes back from a readback is the one of what is stored. *)
LEMMA FreshStep ==
  ASSUME WholeInv, [Next]_vars, ~MarkerMade, NEW v \in Uploaders
  PROVE  FreshReceipt(v)'
<1> USE ClientsOf DEF WholeInv, FenceInv, Shape
<1>0. FreshReceipt(v)
  BY DEF Everything
<1>1. ASSUME up[v] = "putting", up'[v] = up[v], step[v] = "written",
             item'[v] = item[v], seen'[v] = seen[v]
      PROVE  FreshReceipt(v)'
  <2>1. CASE item[v].body.kind \in {"chunk", "page"}
    <3>1. Receipt(v) \in store /\ Receipt(v).body.kind \in {"chunk", "page"}
      BY <1>0, <1>1, <2>1 DEF FreshReceipt, Receipt
    <3>2. Receipt(v) \in store'
      BY <3>1, PartsStay
    <3>3. Receipt(v)' = Receipt(v)
      BY <1>1 DEF Receipt
    <3> QED
      BY <3>2, <3>3 DEF FreshReceipt
  <2> QED
    BY <1>1, <2>1 DEF FreshReceipt
<1>2. ASSUME up'[v] # "putting" \/ step'[v] # "written"
      PROVE  FreshReceipt(v)'
  BY <1>2 DEF FreshReceipt
<1>3. CASE Readback(v) /\ UNCHANGED <<up, item>>
  <2>1. CASE step'[v] = "written" /\ up[v] = "putting"
    <3>1. PICK o \in At(item[v].key) : o.body = item[v].body /\ seen'[v] = o.tag
      BY <1>3, <2>1 DEF Readback, Goes
    <3>2. o \in store /\ o = [key |-> item[v].key, body |-> item[v].body, tag |-> seen'[v]]
      BY <3>1 DEF At, KeyInv, StoreInv
    <3>3. Receipt(v)' = o
      BY <1>3, <3>2 DEF Receipt
    <3>4. store' = store
      BY <1>3 DEF Readback, storeVars
    <3> QED
      BY <3>2, <3>3, <3>4 DEF FreshReceipt
  <2> QED
    BY <1>2, <1>3, <2>1
<1>4. ASSUME Storage, ~Readback(v), UNCHANGED uploadVars
      PROVE  FreshReceipt(v)'
  <2>1. step'[v] = "written" => step[v] = "written" /\ seen'[v] = seen[v]
    BY <1>4 DEF Storage, ArrivePut, Resend, ArriveDelete, Readback, Look, LookAgain,
       Answer, Awaits, Goes, callVars
  <2>2. item' = item
    BY <1>4 DEF Storage, ArrivePut, Resend, ArriveDelete, Readback, Look, LookAgain, callVars
  <2> QED
    BY <1>1, <1>2, <1>4, <2>1, <2>2 DEF uploadVars
<1>5. ASSUME NEW u \in Uploaders, Upload(u)
      PROVE  FreshReceipt(v)'
  <2>1. CASE u = v
    BY <1>2, <1>5, <2>1, UploadSteps DEF Begin, Intend, PutPart, Outcome, Fail, StartPut, Goes
  <2>2. CASE u # v
    <3>1. /\ up'[v] = up[v] /\ step'[v] = step[v]
          /\ item'[v] = item[v] /\ seen'[v] = seen[v]
      BY <1>5, <2>2, UploadSteps DEF Begin, Intend, PutPart, Outcome, Fail, StartPut, Drop,
         EndCall, Goes, objectVars, callVars
    <3> QED
      BY <1>1, <1>2, <3>1
  <2> QED
    BY <2>1, <2>2
<1>6. ASSUME NEW w \in Retirers, Retire(w)
      PROVE  FreshReceipt(v)'
  <2>1. w # v
    BY ChunkAssumption
  <2>2. /\ up'[v] = up[v] /\ step'[v] = step[v]
        /\ item'[v] = item[v] /\ seen'[v] = seen[v]
    BY <1>6, <2>1, RetireSteps DEF Unlink, Unlinked, Mark, Fenced, Sweep, Swept, GiveUp,
       StartPut, StartDelete, Drop, EndCall, Goes, uploadVars
  <2> QED
    BY <1>1, <1>2, <2>2
<1>7. CASE UNCHANGED <<objectVars, journalVars, uploadVars, ret>>
  BY <1>1, <1>2, <1>7 DEF objectVars, callVars, uploadVars
<1> QED
  BY <1>3, <1>4, <1>5, <1>6, <1>7, NextSteps DEF Readback, uploadVars

(* Without the marker, everything that points to parts points to stored ones.*)
LEMMA EverythingStep ==
  ASSUME WholeInv, [Next]_vars, ~MarkerMade
  PROVE  Everything'
<1> USE ClientsOf DEF WholeInv, FenceInv, Shape
<1>0. Everything
  OBVIOUS
<1>1. \A o \in store' : WholeBody(o.body)'
  <2>1. ASSUME NEW m \in wire, Creates(m)
        PROVE  WholeBody(NewObject(m).body)
    BY <1>0, <2>1 DEF Everything, Creates, NewObject
  <2> QED
    BY <1>0, <2>1, WholesStay, ObjectSteps DEF Everything, Creates, Removes, storeVars
<1>2. \A m \in wire' : m.op = "put" => m \in wire \/ WholeBody(m.body)
  <2>1. ASSUME NEW u \in Uploaders, Upload(u)
        PROVE  \A m \in wire' : m.op = "put" => m \in wire \/ WholeBody(m.body)
    BY <1>0, <2>1, UploadSteps, PartsAreWhole DEF Begin, Intend, PutPart, Outcome, Fail,
       StartPut, Drop, objectVars, netVars
  <2>2. WholeBody(Item(Marker).body)
    BY DEF WholeBody, Item, Marker
  <2>3. ASSUME NEW w \in Retirers, Retire(w)
        PROVE  \A m \in wire' : m.op = "put" => m \in wire \/ WholeBody(m.body)
    BY <2>2, <2>3, RetireSteps DEF Unlink, Unlinked, Mark, Fenced, Sweep, Swept, GiveUp,
       StartPut, StartDelete, Drop, netVars
  <2>4. ASSUME Storage
        PROVE  \A m \in wire' : m.op = "put" => m \in wire
    BY <2>4 DEF Storage, ArrivePut, Resend, ArriveDelete, Readback, Look, LookAgain, netVars
  <2> QED
    BY <2>1, <2>3, <2>4, NextSteps DEF objectVars, netVars
<1>3. \A m \in wire' : m.op = "put" => WholeBody(m.body)'
  BY <1>0, <1>2, WholesStay DEF Everything
<1> QED
  BY <1>1, <1>3, CollectedStep, FreshStep DEF Everything

-----------------------------------------------------------------------------
LEMMA WholeInit == Init => WholeInv
<1>1. Init => KeyInv /\ OnlyRootsDeleted
  BY ClientsOf DEF Init, ObjectInit, KeyInv, OnlyRootsDeleted
<1>2. Init => Collects
  BY DEF Init, Collects
<1>3. Init => Everything
  <2>1. AllStored(<<>>, "chunk") /\ AllStored(<<>>, "page")
    BY DEF AllStored, Range
  <2> QED
    BY <2>1 DEF Init, ObjectInit, Everything, FreshReceipt
<1> QED
  BY FenceInit, <1>1, <1>2, <1>3 DEF WholeInv

LEMMA WholeStep == WholeInv /\ [Next]_vars => WholeInv'
<1> SUFFICES ASSUME WholeInv, [Next]_vars
             PROVE  WholeInv'
  OBVIOUS
<1>1. FenceInv'
  BY FenceStep DEF WholeInv
<1>2. KeyInv' /\ Collects' /\ OnlyRootsDeleted'
  BY KeyStep, CollectsStep, DeletedStep DEF WholeInv, FenceInv
<1>3. MarkerMade' \/ Everything'
  BY MarkerStays, EverythingStep DEF WholeInv
<1> QED
  BY <1>1, <1>2, <1>3 DEF WholeInv

(* On a store with versions a root that exists is whole, whatever uploads,   *)
(* cancellations, retirements and sweeps of the same key go on.              *)
THEOREM RootsStayWhole ==
  ASSUME Versioned
  PROVE  Spec => []RootsAreWhole
<1>1. WholeInv /\ StoredInv => RootsAreWhole
  <2> SUFFICES ASSUME WholeInv, StoredInv, NEW o \in store, IsRoot(o)
               PROVE  PartsOf(o) \subseteq store
    BY DEF RootsAreWhole
  <2>1. ~MarkerMade
    BY DEF StoredInv, FenceInv, StoreInv, MarkerStored, IsRoot
  <2>2. o.body.kind = "root"
    BY DEF WholeInv, FenceInv, StoreInv, KeyInv, Keyed, Kinds, PartKey, IsRoot, RootKey
  <2>3. \A q \in store : WholeBody(q.body)
    BY <2>1 DEF WholeInv, Everything
  <2>4. \A p \in Range(o.body.pages) : p \in store /\ Range(p.body.chunks) \subseteq store
    BY <2>2, <2>3 DEF WholeBody, AllStored
  <2> QED
    BY <2>4 DEF PartsOf
<1>2. Spec => []WholeInv
  BY WholeInit, WholeStep, PTL DEF Spec
<1> QED
  BY <1>1, <1>2, StoredHolds, PTL

-----------------------------------------------------------------------------
(* n is how many of d it takes to cover l: l / d, rounded up.                *)
Ceiling(n, l, d) == n \in Nat /\ l =< n * d /\ (n # 0 => (n - 1) * d < l)

LEMMA CeilingUnique ==
  ASSUME NEW l \in Nat, NEW d \in Nat \ {0}, NEW n, NEW m, Ceiling(n, l, d), Ceiling(m, l, d)
  PROVE  n = m
<1>1. ASSUME NEW i \in Nat, NEW j \in Nat, i < j, l =< i * d, (j - 1) * d < l
      PROVE  FALSE
  <2>1. PICK k \in Nat : j - 1 = i + k
    <3>1. j - 1 - i \in Nat /\ j - 1 = i + (j - 1 - i)
      BY <1>1
    <3> QED
      BY <3>1
  <2>2. (j - 1) * d = i * d + k * d
    BY <2>1
  <2>3. k * d \in Nat /\ i * d \in Nat
    BY <2>1
  <2> QED
    BY <1>1, <2>2, <2>3
<1>2. n \in Nat /\ m \in Nat
  BY DEF Ceiling
<1>3. CASE n < m
  BY <1>1, <1>2, <1>3 DEF Ceiling
<1>4. CASE m < n
  BY <1>1, <1>2, <1>4 DEF Ceiling
<1> QED
  BY <1>2, <1>3, <1>4

-----------------------------------------------------------------------------
(* What an upload has of its file: the i-th chunk, counted from 0, is as     *)
(* long as the declaration says, and of the input.                           *)
Piece(q, i) ==
    SubSeq(q.input, i * ChunkBytes + 1, i * ChunkBytes + Len(ChunkOf(q.declared, i)))

HoldsPieces(s, q, from) ==
    /\ s \in Seq(Range(s))
    /\ \A i \in 1..Len(s) : s[i].body = Chunk(Piece(q, from + i - 1))

\* The chunks that are in pages.
Paged(s) == IF s = <<>> THEN 0 ELSE Last(s).body.first + Len(Last(s).body.chunks)

\* Of n chunks, those of page p: all pages but the last are full.
PageSize(n, p) ==
    IF n - (p - 1) * PageEntries < PageEntries THEN n - (p - 1) * PageEntries ELSE PageEntries

IsPage(b, q, n, p) ==
    /\ b = Page((p - 1) * PageEntries, b.chunks)
    /\ Len(b.chunks) = PageSize(n, p)
    /\ HoldsPieces(b.chunks, q, (p - 1) * PageEntries)

HoldsPages(s, q) ==
    /\ s \in Seq(Range(s))
    /\ Ceiling(Len(s), Paged(s), PageEntries)
    /\ Paged(s) \in Nat
    /\ \A p \in 1..Len(s) : IsPage(s[p].body, q, Paged(s), p)

Itself(f) == [declared |-> f, input |-> f]

(* A root is complete: it has the pages, they have the chunks, of its file.  *)
ExactRoot(b) ==
    b.kind = "root" =>
      /\ b = Root(b.file, b.pages)
      /\ b.file \in Seq(Bytes)
      /\ HoldsPages(b.pages, Itself(b.file))
      /\ Ceiling(Paged(b.pages), Len(b.file), ChunkBytes)

RootDue(u) == ~PageDue(u) /\ AtEnd(u)

\* The last of n chunks has something of the file.
NoneTooMany(n, q) == n # 0 => (n - 1) * ChunkBytes < Len(q.declared)

(* What an upload has collected, pages s and chunks e, is the beginning of   *)
(* its file, in full pages but for the last, without a chunk too many.       *)
Collected(q, s, e) ==
    /\ HoldsPages(s, q)
    /\ HoldsPieces(e, q, Paged(s))
    /\ Len(e) =< PageEntries
    /\ \/ Paged(s) = Len(s) * PageEntries
       \/ e = <<>> /\ Paged(s) * ChunkBytes >= Len(q.declared)
    /\ NoneTooMany(Len(e) + Paged(s), q)

Uploading == {"next", "intended", "putting"}

UploadExact(u) ==
    /\ up[u] = "idle" => entries[u] = <<>> /\ pages[u] = <<>>
    /\ up[u] \in Uploading => request[u] \in Requests
                             /\ Collected(request[u], pages[u], entries[u])
    /\ up[u] \in {"intended", "putting"} /\ RootDue(u)
         => request[u].input = request[u].declared
    /\ up[u] = "putting" => item[u] = Item(NextPart(u))

\* The receipt of an upload that is done.
DoneExact(u) ==
    up[u] = "done" =>
      /\ request[u].input = request[u].declared
      /\ \E o \in outcomes : IsRoot(o) /\ o.body.file = request[u].declared

ExactInv ==
    /\ Shape
    /\ \A u \in Uploaders : UploadExact(u) /\ DoneExact(u)
    /\ \A m \in wire : m.op = "put" => ExactRoot(m.body)
    /\ \A o \in made : ExactRoot(o.body)

-----------------------------------------------------------------------------
LEMMA Products ==
  ASSUME NEW i \in Int, NEW j \in Int, NEW d \in Nat, i =< j
  PROVE  i * d \in Int /\ j * d \in Int /\ i * d =< j * d /\ (i - 1) * d = i * d - d
<1>1. PICK k \in Nat : j = i + k
  <2>1. j - i \in Nat /\ j = i + (j - i)
    OBVIOUS
  <2> QED
    BY <2>1
<1>2. j * d = i * d + k * d /\ k * d \in Nat
  BY <1>1
<1> QED
  BY <1>2

(* A sequence with one more element.                                         *)
LEMMA Appended ==
  ASSUME NEW s, s \in Seq(Range(s)), NEW e
  PROVE  /\ Append(s, e) \in Seq(Range(Append(s, e)))
         /\ Append(s, e) # <<>>
         /\ Len(s) \in Nat /\ Len(Append(s, e)) = Len(s) + 1
         /\ \A i \in 1..Len(s) : Append(s, e)[i] = s[i]
         /\ Append(s, e)[Len(s) + 1] = e
<1>1. s \in Seq(Range(s) \cup {e}) /\ e \in Range(s) \cup {e}
  BY SeqMonotonic
<1>2. /\ Append(s, e) \in Seq(Range(s) \cup {e})
      /\ Append(s, e) # <<>>
      /\ Len(Append(s, e)) = Len(s) + 1
      /\ \A i \in 1..Len(s) : Append(s, e)[i] = s[i]
      /\ Append(s, e)[Len(s) + 1] = e
  BY <1>1, AppendProperties
<1>3. Append(s, e) \in Seq(Range(Append(s, e))) /\ Len(s) \in Nat
  BY <1>1, <1>2, SeqOfRange, LenProperties
<1> QED
  BY <1>2, <1>3

LEMMA EmptyHolds ==
  ASSUME NEW q
  PROVE  HoldsPieces(<<>>, q, 0) /\ HoldsPages(<<>>, q) /\ Paged(<<>>) = 0
<1>1. <<>> \in Seq(Range(<<>>)) /\ Len(<<>>) = 0
  BY EmptySeq
<1>2. Paged(<<>>) = 0
  BY DEF Paged
<1>3. Ceiling(0, 0, PageEntries)
  BY ChunkAssumption DEF Ceiling
<1> QED
  BY <1>1, <1>2, <1>3 DEF HoldsPieces, HoldsPages

(* One more chunk.                                                           *)
LEMMA PiecesGrow ==
  ASSUME NEW s, NEW q, NEW from \in Nat, HoldsPieces(s, q, from),
         NEW r, r.body = Chunk(Piece(q, from + Len(s)))
  PROVE  HoldsPieces(Append(s, r), q, from)
<1>1. PICK t : t = Append(s, r)
  OBVIOUS
<1>2. /\ t \in Seq(Range(t)) /\ Len(s) \in Nat /\ Len(t) = Len(s) + 1
      /\ \A i \in 1..Len(s) : t[i] = s[i]
      /\ t[Len(s) + 1] = r
  BY <1>1, Appended DEF HoldsPieces
<1>3. ASSUME NEW i \in 1..Len(t)
      PROVE  t[i].body = Chunk(Piece(q, from + i - 1))
  <2>1. CASE i \in 1..Len(s)
    BY <1>2, <2>1 DEF HoldsPieces
  <2>2. CASE i = Len(s) + 1
    <3>1. from + i - 1 = from + Len(s)
      BY <1>2, <2>2
    <3> QED
      BY <1>2, <2>2, <3>1
  <2> QED
    BY <1>2, <2>1, <2>2
<1> QED
  BY <1>1, <1>2, <1>3 DEF HoldsPieces

(* One more page, after full ones.                                           *)
LEMMA PagesGrow ==
  ASSUME NEW s, NEW q, HoldsPages(s, q), Paged(s) = Len(s) * PageEntries,
         NEW e, HoldsPieces(e, q, Paged(s)), Len(e) \in 1..PageEntries,
         NEW r, r.body = Page(Paged(s), e)
  PROVE  HoldsPages(Append(s, r), q) /\ Paged(Append(s, r)) = Paged(s) + Len(e)
<1>1. PICK t : t = Append(s, r)
  OBVIOUS
<1>2. /\ t \in Seq(Range(t)) /\ t # <<>> /\ Len(s) \in Nat /\ Len(t) = Len(s) + 1
      /\ \A i \in 1..Len(s) : t[i] = s[i]
      /\ t[Len(s) + 1] = r
  BY <1>1, Appended DEF HoldsPages
<1>3. PICK n : n = Paged(s)
  OBVIOUS
<1>4. n \in Nat /\ n = Len(s) * PageEntries
  BY <1>3 DEF HoldsPages
<1>5. PageEntries \in Nat \ {0} /\ PageEntries \in Nat
  BY ChunkAssumption
<1>6. Paged(t) = n + Len(e)
  BY <1>2, <1>3 DEF Paged, Last, Page
<1>7. Ceiling(Len(t), n + Len(e), PageEntries)
  <2>1. (Len(s) + 1) * PageEntries = n + PageEntries
    BY <1>2, <1>4, <1>5
  <2>2. Len(t) - 1 = Len(s)
    BY <1>2
  <2> QED
    BY <1>2, <1>4, <1>5, <2>1, <2>2 DEF Ceiling
<1>8. ASSUME NEW p \in 1..Len(t)
      PROVE  IsPage(t[p].body, q, n + Len(e), p)
  <2>1. CASE p \in 1..Len(s)
    <3>1. IsPage(t[p].body, q, n, p)
      BY <1>2, <1>3, <2>1 DEF HoldsPages
    <3>2. (p - 1) * PageEntries =< n - PageEntries /\ (p - 1) * PageEntries \in Int
      <4>1. p * PageEntries =< Len(s) * PageEntries /\ p * PageEntries \in Int
            /\ (p - 1) * PageEntries = p * PageEntries - PageEntries
        BY <1>2, <1>5, <2>1, Products
      <4> QED
        BY <1>4, <1>5, <4>1
    <3>3. PageSize(n, p) = PageEntries /\ PageSize(n + Len(e), p) = PageEntries
      BY <1>4, <1>5, <3>2 DEF PageSize
    <3> QED
      BY <3>1, <3>3 DEF IsPage
  <2>2. CASE p = Len(s) + 1
    <3>1. (p - 1) * PageEntries = n
      BY <1>2, <1>4, <2>2
    <3>2. PageSize(n + Len(e), p) = Len(e)
      BY <1>4, <1>5, <3>1 DEF PageSize
    <3>3. t[p].body = Page(n, e) /\ t[p].body.chunks = e
      BY <1>2, <1>3, <2>2 DEF Page
    <3> QED
      BY <1>3, <3>1, <3>2, <3>3 DEF IsPage
  <2> QED
    BY <1>2, <2>1, <2>2
<1>9. n + Len(e) \in Nat
  BY <1>4, <1>5
<1> QED
  BY <1>1, <1>2, <1>3, <1>6, <1>7, <1>8, <1>9 DEF HoldsPages

(* An upload takes the receipt of a chunk, or of a page.                     *)
LEMMA TakesChunk ==
  ASSUME NEW q, NEW s, NEW e, Collected(q, s, e),
         NEW n, n = Len(e) + Paged(s), n * ChunkBytes < Len(q.declared), Len(q.declared) \in Nat,
         e # <<>> => Len(e) # PageEntries,
         NEW r, r.body = Chunk(Piece(q, n))
  PROVE  Collected(q, s, Append(e, r))
<1>1. PICK t : t = Append(e, r)
  OBVIOUS
<1>2. PICK k : k = Paged(s)
  OBVIOUS
<1>3. /\ Len(t) = Len(e) + 1 /\ Len(e) \in Nat /\ k \in Nat /\ t # <<>>
      /\ e = <<>> => Len(e) = 0
  BY <1>1, <1>2, Appended, EmptySeq DEF Collected, HoldsPieces, HoldsPages
<1>4. ChunkBytes \in Nat /\ PageEntries \in Nat \ {0}
  BY ChunkAssumption
<1>5. HoldsPieces(t, q, k)
  <2>1. r.body = Chunk(Piece(q, k + Len(e)))
    <3>1. n = k + Len(e)
      BY <1>2, <1>3
    <3> QED
      BY <3>1
  <2> QED
    BY <1>1, <1>2, <1>3, <2>1, PiecesGrow DEF Collected
<1>6. Len(t) =< PageEntries
  BY <1>3, <1>4 DEF Collected
<1>7. k = Len(s) * PageEntries
  <2>1. CASE e = <<>> /\ k * ChunkBytes >= Len(q.declared)
    <3>1. n = k
      BY <1>2, <1>3, <2>1
    <3>2. k * ChunkBytes \in Nat
      BY <1>3, <1>4
    <3> QED
      BY <2>1, <3>1, <3>2
  <2> QED
    BY <1>2, <2>1 DEF Collected
<1>8. NoneTooMany(Len(t) + k, q)
  <2>1. n \in Nat /\ Len(t) + k = n + 1
    BY <1>2, <1>3
  <2>2. NoneTooMany(n + 1, q)
    BY <2>1 DEF NoneTooMany
  <2> QED
    BY <2>1, <2>2
<1> QED
  BY <1>1, <1>2, <1>5, <1>6, <1>7, <1>8 DEF Collected

LEMMA TakesPage ==
  ASSUME NEW q, NEW s, NEW e, Collected(q, s, e), e # <<>>, Len(q.declared) \in Nat,
         NEW n, n = Len(e) + Paged(s),
         Len(e) = PageEntries \/ n * ChunkBytes >= Len(q.declared),
         NEW r, r.body = Page(n - Len(e), e)
  PROVE  Collected(q, Append(s, r), <<>>)
<1>1. PICK t : t = Append(s, r)
  OBVIOUS
<1>2. PICK k : k = Paged(s)
  OBVIOUS
<1>3. /\ Len(t) = Len(s) + 1 /\ Len(s) \in Nat /\ k \in Nat /\ Len(e) \in Nat \ {0}
  BY <1>1, <1>2, Appended, EmptySeq DEF Collected, HoldsPieces, HoldsPages
<1>4. ChunkBytes \in Nat /\ PageEntries \in Nat \ {0}
  BY ChunkAssumption
<1>5. k = Len(s) * PageEntries /\ Len(e) \in 1..PageEntries
  BY <1>2, <1>3, <1>4 DEF Collected
<1>6. HoldsPages(t, q) /\ Paged(t) = k + Len(e)
  <2>1. n - Len(e) = k
    BY <1>2, <1>3
  <2>2. r.body = Page(Paged(s), e)
    BY <1>2, <2>1
  <2> QED
    BY <1>1, <1>2, <1>5, <2>2, PagesGrow DEF Collected
<1>7. Len(<<>>) = 0 /\ Paged(t) = n
  BY <1>2, <1>3, <1>6, EmptySeq
<1>8. Len(<<>>) + Paged(t) = n
  BY <1>2, <1>3, <1>7
<1>9. HoldsPieces(<<>>, q, Paged(t))
  BY EmptySeq DEF HoldsPieces
<1>10. \/ Paged(t) = Len(t) * PageEntries
       \/ Paged(t) * ChunkBytes >= Len(q.declared)
  <2>1. CASE Len(e) = PageEntries
    <3>1. (Len(s) + 1) * PageEntries = Len(s) * PageEntries + PageEntries
      BY <1>3, <1>4
    <3> QED
      BY <1>3, <1>5, <1>6, <2>1, <3>1
  <2> QED
    BY <1>7, <2>1
<1>11. NoneTooMany(n, q)
  BY DEF Collected
<1>12. Len(<<>>) =< PageEntries
  BY <1>4, <1>7
<1> QED
  BY <1>1, <1>6, <1>8, <1>9, <1>10, <1>11, <1>12 DEF Collected

-----------------------------------------------------------------------------
LEMMA RequestsAre ==
  ASSUME NEW q \in Requests
  PROVE  /\ q.declared \in Seq(Bytes) /\ q.input \in Seq(Bytes)
         /\ Len(q.declared) \in Nat /\ Len(q.input) \in Nat
         /\ q.input = q.declared => q = Itself(q.declared)
<1>1. q \in [declared : Seq(Bytes), input : Seq(Bytes)]
  BY RequestAssumption
<1>2. q.input = q.declared => q = Itself(q.declared)
  BY <1>1 DEF Itself
<1> QED
  BY <1>1, <1>2, LenProperties

LEMMA WrittenIs ==
  ASSUME NEW u \in Uploaders
  PROVE  Written(u) = Len(entries[u]) + Paged(pages[u])
BY DEF Written, Paged

(* The part that an upload writes next, if it is a root, is a complete one.  *)
LEMMA NextIsExact ==
  ASSUME NEW u \in Uploaders, UploadExact(u), up[u] \in {"intended", "putting"}
  PROVE  ExactRoot(NextPart(u))
<1>1. CASE ~RootDue(u)
  BY <1>1 DEF RootDue, NextPart, Page, Chunk, ExactRoot
<1>2. CASE RootDue(u)
  <2>1. PICK q : q = request[u]
    OBVIOUS
  <2>2. PICK s : s = pages[u]
    OBVIOUS
  <2>3. /\ q \in Requests /\ q = Itself(q.declared) /\ q.declared \in Seq(Bytes)
        /\ Collected(q, s, entries[u])
    BY <1>2, <2>1, <2>2, RequestsAre DEF UploadExact, Uploading
  <2>4. entries[u] = <<>> /\ AtEnd(u)
    BY <1>2 DEF RootDue, PageDue
  <2>5. Written(u) = Paged(s) /\ Paged(s) \in Nat /\ Len(entries[u]) + Paged(s) = Paged(s)
    <3>1. Paged(s) \in Nat /\ Len(<<>>) = 0
      BY <2>3, EmptySeq DEF Collected, HoldsPages
    <3> QED
      BY <2>2, <2>4, <3>1, WrittenIs
  <2>6. Ceiling(Paged(s), Len(q.declared), ChunkBytes)
    <3>1. Len(q.declared) =< Paged(s) * ChunkBytes
      <4>1. Paged(s) * ChunkBytes \in Int /\ Len(q.declared) \in Nat
        BY <2>3, <2>5, ChunkAssumption, RequestsAre
      <4> QED
        BY <2>1, <2>4, <2>5, <4>1 DEF AtEnd
    <3>2. Paged(s) # 0 => (Paged(s) - 1) * ChunkBytes < Len(q.declared)
      BY <2>3, <2>5 DEF Collected, NoneTooMany
    <3> QED
      BY <2>5, <3>1, <3>2 DEF Ceiling
  <2>7. NextPart(u) = Root(q.declared, s)
    BY <1>2, <2>1, <2>2 DEF NextPart, RootDue
  <2>8. /\ Root(q.declared, s).file = q.declared /\ Root(q.declared, s).pages = s
    BY DEF Root
  <2> QED
    BY <2>3, <2>6, <2>7, <2>8 DEF ExactRoot, Collected
<1> QED
  BY <1>1, <1>2

(* An upload that is not touched stays as it is.                             *)
LEMMA UploadStays ==
  ASSUME NEW u \in Uploaders,
         up'[u] = up[u], request'[u] = request[u], entries'[u] = entries[u],
         pages'[u] = pages[u], up[u] = "putting" => item'[u] = item[u],
         outcomes \subseteq outcomes',
         UploadExact(u), DoneExact(u)
  PROVE  UploadExact(u)' /\ DoneExact(u)'
<1>1. NextPart(u)' = NextPart(u)
  BY NextPartIsLocal
<1>2. RootDue(u)' <=> RootDue(u)
  BY DEF RootDue, PageDue, AtEnd, Written
<1>3. Collected(request'[u], pages'[u], entries'[u])
        <=> Collected(request[u], pages[u], entries[u])
  OBVIOUS
<1>4. (up[u] = "putting" => item[u] = Item(NextPart(u)))
        => (up'[u] = "putting" => item'[u] = Item(NextPart(u)'))
  BY <1>1
<1>5. DoneExact(u)'
  BY DEF DoneExact, IsRoot, RootKey, Marker
<1>6. UploadExact(u)'
  BY <1>2, <1>3, <1>4 DEF UploadExact, Uploading
<1> QED
  BY <1>5, <1>6

(* The receipt of a put is taken.                                            *)
LEMMA OutcomeExact ==
  ASSUME Shape, NEW u \in Uploaders, UploadExact(u), Outcome(u)
  PROVE  UploadExact(u)' /\ DoneExact(u)'
<1> USE DEF Shape
<1>1. PICK q : q = request[u]
  OBVIOUS
<1>2. PICK s : s = pages[u]
  OBVIOUS
<1>3. PICK e : e = entries[u]
  OBVIOUS
<1>4. PICK r : r = Receipt(u)
  OBVIOUS
<1>5. PICK n : n = Len(e) + Paged(s)
  OBVIOUS
<1>6. Written(u) = n
  BY <1>2, <1>3, <1>5, WrittenIs
<1>7. /\ q \in Requests /\ Collected(q, s, e) /\ Len(q.declared) \in Nat
      /\ item[u] = Item(NextPart(u)) /\ r.body = NextPart(u) /\ item[u].body = NextPart(u)
      /\ RootDue(u) => q.input = q.declared
  BY <1>1, <1>2, <1>3, <1>4, RequestsAre DEF Outcome, UploadExact, Uploading, Receipt, Item
<1>8. n \in Nat /\ n * ChunkBytes \in Nat /\ Len(e) \in Nat
  <2>1. e \in Seq(Range(e)) /\ Paged(s) \in Nat
    BY <1>7 DEF Collected, HoldsPieces, HoldsPages
  <2>2. Len(e) \in Nat
    BY <2>1, LenProperties
  <2>3. n \in Nat
    BY <1>5, <2>1, <2>2
  <2> QED
    BY <2>2, <2>3, ChunkAssumption
<1>9. /\ request'[u] = q
      /\ outcomes' = outcomes \cup {r}
  BY <1>1, <1>4 DEF Outcome
<1>10. ASSUME up'[u] = "next",
              Collected(q, pages'[u], entries'[u])
       PROVE  UploadExact(u)' /\ DoneExact(u)'
  BY <1>7, <1>9, <1>10 DEF UploadExact, DoneExact, Uploading
<1>11. CASE PageDue(u)
  <2>1. NextPart(u) = Page(n - Len(e), e) /\ NextPart(u).kind = "page"
    BY <1>3, <1>6, <1>11 DEF NextPart, Page
  <2>2. entries'[u] = <<>> /\ pages'[u] = Append(s, r) /\ up'[u] = "next"
    BY <1>2, <1>4, <1>7, <2>1 DEF Outcome
  <2>3. e # <<>> /\ (Len(e) = PageEntries \/ n * ChunkBytes >= Len(q.declared))
    BY <1>1, <1>3, <1>6, <1>11 DEF PageDue, AtEnd
  <2>4. Collected(q, Append(s, r), <<>>)
    BY <1>5, <1>7, <2>1, <2>3, TakesPage
  <2> QED
    BY <1>10, <2>2, <2>4
<1>12. CASE RootDue(u)
  <2>1. NextPart(u) = Root(q.declared, s) /\ NextPart(u).kind = "root"
    BY <1>1, <1>2, <1>12 DEF NextPart, RootDue, Root
  <2>2. up'[u] = "done" /\ q.input = q.declared
    BY <1>7, <1>12, <2>1 DEF Outcome
  <2>3. r.key = RootKey /\ r.body # Marker /\ r.body.file = q.declared
    BY <1>4, <1>7, <2>1 DEF Receipt, Item, PartKey, Root, Marker
  <2> QED
    BY <1>9, <2>2, <2>3 DEF UploadExact, DoneExact, Uploading, IsRoot, RootKey, Marker
<1>13. CASE ~PageDue(u) /\ ~AtEnd(u)
  <2>1. NextPart(u) = Chunk(Piece(q, n)) /\ NextPart(u).kind = "chunk"
    BY <1>1, <1>6, <1>13 DEF NextPart, Chunk, Piece, ReadExact
  <2>2. entries'[u] = Append(e, r) /\ pages'[u] = s /\ up'[u] = "next"
    BY <1>2, <1>3, <1>4, <1>7, <2>1 DEF Outcome
  <2>3. (e # <<>> => Len(e) # PageEntries) /\ n * ChunkBytes < Len(q.declared)
    BY <1>1, <1>3, <1>6, <1>7, <1>8, <1>13 DEF PageDue, AtEnd
  <2>4. Collected(q, s, Append(e, r))
    BY <1>5, <1>7, <2>1, <2>3, TakesChunk
  <2> QED
    BY <1>10, <2>2, <2>4
<1> QED
  BY <1>11, <1>12, <1>13 DEF RootDue

LEMMA UploadExactStep ==
  ASSUME ExactInv, [Next]_vars, NEW v \in Uploaders
  PROVE  UploadExact(v)' /\ DoneExact(v)'
<1> USE ClientsOf DEF ExactInv, Shape
<1>1. ASSUME NEW u \in Uploaders, Upload(u), u # v
      PROVE  UploadExact(v)' /\ DoneExact(v)'
  <2>1. /\ up'[v] = up[v] /\ request'[v] = request[v] /\ entries'[v] = entries[v]
        /\ pages'[v] = pages[v] /\ item'[v] = item[v] /\ outcomes \subseteq outcomes'
    BY <1>1, UploadSteps DEF Begin, Intend, PutPart, Outcome, Fail, StartPut, Drop, EndCall,
       objectVars, callVars, journalVars
  <2> QED
    BY <2>1, UploadStays
<1>2. CASE Begin(v)
  <2>1. PICK q \in Requests : request'[v] = q
    BY <1>2 DEF Begin
  <2>2. up'[v] = "next" /\ entries'[v] = <<>> /\ pages'[v] = <<>>
    BY <1>2 DEF Begin, UploadExact
  <2>3. Collected(q, <<>>, <<>>)
    <3>1. Len(<<>>) + Paged(<<>>) = 0 /\ Paged(<<>>) = 0 /\ Len(<<>>) = 0
      BY EmptySeq, EmptyHolds
    <3>2. HoldsPages(<<>>, q) /\ HoldsPieces(<<>>, q, Paged(<<>>))
      BY <3>1, EmptyHolds
    <3>3. Paged(<<>>) = Len(<<>>) * PageEntries /\ Len(<<>>) =< PageEntries
      BY <3>1, ChunkAssumption
    <3>4. NoneTooMany(Len(<<>>) + Paged(<<>>), q)
      BY <3>1 DEF NoneTooMany
    <3> QED
      BY <3>2, <3>3, <3>4 DEF Collected
  <2> QED
    BY <2>1, <2>2, <2>3 DEF UploadExact, DoneExact, Uploading
<1>3. CASE Intend(v)
  <2>1. /\ request'[v] = request[v] /\ entries'[v] = entries[v] /\ pages'[v] = pages[v]
        /\ up[v] = "next" /\ up'[v] = "intended"
    BY <1>3 DEF Intend
  <2>2. RootDue(v)' <=> RootDue(v)
    BY <2>1 DEF RootDue, PageDue, AtEnd, Written
  <2>3. RootDue(v) => request[v].input = request[v].declared
    BY <1>3 DEF Intend, RootDue, InputSuffices
  <2>4. request[v] \in Requests /\ Collected(request[v], pages[v], entries[v])
    BY <2>1 DEF UploadExact, Uploading
  <2> QED
    BY <2>1, <2>2, <2>3, <2>4 DEF UploadExact, DoneExact, Uploading
<1>4. CASE PutPart(v)
  <2>1. /\ request'[v] = request[v] /\ entries'[v] = entries[v] /\ pages'[v] = pages[v]
        /\ up[v] = "intended" /\ up'[v] = "putting"
    BY <1>4 DEF PutPart
  <2>2. RootDue(v)' <=> RootDue(v)
    BY <2>1 DEF RootDue, PageDue, AtEnd, Written
  <2>3. item'[v] = Item(NextPart(v)) /\ NextPart(v)' = NextPart(v)
    BY <1>4, <2>1, NextPartIsLocal DEF PutPart, StartPut
  <2>4. /\ request[v] \in Requests /\ Collected(request[v], pages[v], entries[v])
        /\ RootDue(v) => request[v].input = request[v].declared
    BY <2>1 DEF UploadExact, Uploading
  <2> QED
    BY <2>1, <2>2, <2>3, <2>4 DEF UploadExact, DoneExact, Uploading
<1>5. CASE Outcome(v)
  BY <1>5, OutcomeExact
<1>6. CASE Fail(v)
  <2>1. up'[v] \in {"conflict", "failed"}
    BY <1>6 DEF Fail
  <2> QED
    BY <2>1 DEF UploadExact, DoneExact, Uploading
<1>7. ASSUME NEW w \in Retirers, Retire(w)
      PROVE  UploadExact(v)' /\ DoneExact(v)'
  <2>1. w # v
    BY ChunkAssumption
  <2>2. UNCHANGED <<uploadVars, outcomes>> /\ item'[v] = item[v]
    BY <1>7, <2>1, RetireSteps DEF Unlink, Unlinked, Mark, Fenced, Sweep, Swept, GiveUp,
       StartPut, StartDelete, Drop, EndCall, journalVars
  <2> QED
    BY <2>2, UploadStays DEF uploadVars
<1>8. ASSUME Storage \/ UNCHANGED objectVars, UNCHANGED <<journalVars, uploadVars, ret>>
      PROVE  UploadExact(v)' /\ DoneExact(v)'
  <2>1. item' = item
    BY <1>8 DEF Storage, ArrivePut, Resend, ArriveDelete, Readback, Look, LookAgain,
       objectVars, callVars
  <2> QED
    BY <1>8, <2>1, UploadStays DEF uploadVars, journalVars
<1> QED
  BY <1>1, <1>2, <1>3, <1>4, <1>5, <1>6, <1>7, <1>8, NextSteps, UploadSteps

LEMMA ExactStep == ExactInv /\ [Next]_vars => ExactInv'
<1> SUFFICES ASSUME ExactInv, [Next]_vars
             PROVE  ExactInv'
  OBVIOUS
<1>1. Shape'
  BY ShapeStep DEF ExactInv
<1>2. \A b : ExactRoot(b)' <=> ExactRoot(b)
  OBVIOUS
<1>3. \A m \in wire' : m.op = "put" => ExactRoot(m.body)
  <2>1. ASSUME NEW u \in Uploaders, Upload(u)
        PROVE  \A m \in wire' : m.op = "put" => m \in wire \/ ExactRoot(m.body)
    <3>1. CASE PutPart(u)
      <4>1. ExactRoot(Item(NextPart(u)).body)
        BY <3>1, NextIsExact DEF PutPart, ExactInv, Item
      <4> QED
        BY <3>1, <4>1 DEF PutPart, StartPut
    <3>2. CASE ~PutPart(u)
      BY <2>1, <3>2, UploadSteps DEF Begin, Intend, Outcome, Fail, Drop, objectVars, netVars
    <3> QED
      BY <3>1, <3>2
  <2>2. ExactRoot(Item(Marker).body)
    BY DEF ExactRoot, Item, Marker
  <2>3. ASSUME NEW w \in Retirers, Retire(w)
        PROVE  \A m \in wire' : m.op = "put" => m \in wire \/ ExactRoot(m.body)
    BY <2>2, <2>3, RetireSteps DEF Unlink, Unlinked, Mark, Fenced, Sweep, Swept, GiveUp,
       StartPut, StartDelete, Drop, netVars
  <2>4. ASSUME Storage
        PROVE  \A m \in wire' : m.op = "put" => m \in wire
    BY <2>4 DEF Storage, ArrivePut, Resend, ArriveDelete, Readback, Look, LookAgain, netVars
  <2> QED
    BY <2>1, <2>3, <2>4, NextSteps DEF ExactInv, objectVars, netVars
<1>4. \A o \in made' : ExactRoot(o.body)
  <2>1. ASSUME NEW m \in wire, Creates(m)
        PROVE  ExactRoot(NewObject(m).body)
    BY <2>1 DEF ExactInv, Creates, NewObject
  <2> QED
    BY <2>1, ObjectSteps DEF ExactInv, Creates, Removes, storeVars
<1> QED
  BY <1>1, <1>2, <1>3, <1>4, UploadExactStep DEF ExactInv

LEMMA ExactHolds == Spec => []ExactInv
<1>1. Init => ExactInv
  BY DEF Init, ObjectInit, ExactInv, Shape, Steps, UpStates, RetStates, UploadExact, DoneExact,
     Uploading
<1> QED
  BY <1>1, ExactStep, PTL DEF Spec

-----------------------------------------------------------------------------
(* Parts that are stored and have the same content are the same object.      *)
LEMMA SameParts ==
  ASSUME StoreInv, KeyInv, NEW r \in store, NEW t \in store, r.body = t.body,
         r.body.kind \in {"chunk", "page"}
  PROVE  r = t
<1>1. r.key = PartKey(r.body) /\ t.key = PartKey(t.body)
  BY DEF StoreInv, KeyInv, Keyed
<1> QED
  BY <1>1 DEF StoreInv

LEMMA SameSequence ==
  ASSUME NEW s, s \in Seq(Range(s)), NEW t, t \in Seq(Range(t)), Len(s) = Len(t),
         \A i \in 1..Len(s) : s[i] = t[i]
  PROVE  s = t
<1>1. s \in Seq(Range(s) \cup Range(t)) /\ t \in Seq(Range(s) \cup Range(t))
  BY SeqMonotonic
<1> QED
  BY <1>1, SeqEqual

LEMMA InRange ==
  ASSUME NEW s, s \in Seq(Range(s)), NEW i \in 1..Len(s)
  PROVE  s[i] \in Range(s)
BY ElementOfSeq

(* So are pages of the same chunks, and then roots of the same file.         *)
LEMMA SamePage ==
  ASSUME StoreInv, KeyInv, NEW q, NEW n, NEW p, NEW b, NEW c,
         IsPage(b, q, n, p), AllStored(b.chunks, "chunk"),
         IsPage(c, q, n, p), AllStored(c.chunks, "chunk")
  PROVE  b = c
<1>1. PICK s : s = b.chunks
  OBVIOUS
<1>2. PICK t : t = c.chunks
  OBVIOUS
<1>3. /\ s \in Seq(Range(s)) /\ t \in Seq(Range(t)) /\ Len(s) = Len(t)
      /\ \A i \in 1..Len(s) : s[i].body = t[i].body
  BY <1>1, <1>2 DEF IsPage, HoldsPieces
<1>4. \A i \in 1..Len(s) : s[i] \in store /\ s[i].body.kind = "chunk" /\ t[i] \in store
  BY <1>1, <1>2, <1>3, InRange DEF AllStored
<1>5. s = t
  BY <1>3, <1>4, SameParts, SameSequence
<1> QED
  BY <1>1, <1>2, <1>5 DEF IsPage

LEMMA SameRoot ==
  ASSUME StoreInv, KeyInv, \A o \in store : WholeBody(o.body),
         NEW b, b.kind = "root", ExactRoot(b), WholeBody(b),
         NEW c, c.kind = "root", ExactRoot(c), WholeBody(c),
         b.file = c.file
  PROVE  b = c
<1>1. PICK s : s = b.pages
  OBVIOUS
<1>2. PICK t : t = c.pages
  OBVIOUS
<1>3. PICK q : q = Itself(b.file)
  OBVIOUS
<1>4. PICK n : n = Paged(s)
  OBVIOUS
<1>5. Paged(t) = n
  <2>1. Len(b.file) \in Nat /\ ChunkBytes \in Nat \ {0}
    BY LenProperties, ChunkAssumption DEF ExactRoot
  <2>2. PICK m : m = Paged(t)
    OBVIOUS
  <2>3. PICK l : l = Len(b.file)
    OBVIOUS
  <2>4. Ceiling(n, l, ChunkBytes) /\ Ceiling(m, l, ChunkBytes)
    BY <1>1, <1>2, <1>4, <2>2, <2>3 DEF ExactRoot
  <2> QED
    BY <2>1, <2>2, <2>3, <2>4, CeilingUnique
<1>6. HoldsPages(s, q) /\ HoldsPages(t, q)
  BY <1>1, <1>2, <1>3 DEF ExactRoot
<1>7. Len(s) = Len(t)
  <2>1. Ceiling(Len(s), n, PageEntries) /\ Ceiling(Len(t), n, PageEntries) /\ n \in Nat
    BY <1>4, <1>5, <1>6 DEF HoldsPages
  <2> QED
    BY <2>1, CeilingUnique, ChunkAssumption
<1>8. ASSUME NEW p \in 1..Len(s)
      PROVE  s[p] = t[p]
  <2>1. s[p] \in Range(s) /\ t[p] \in Range(t)
    BY <1>6, <1>7, InRange DEF HoldsPages
  <2>2. /\ s[p] \in store /\ s[p].body.kind = "page"
        /\ t[p] \in store /\ t[p].body.kind = "page"
    BY <1>1, <1>2, <2>1 DEF WholeBody, AllStored
  <2>3. AllStored(s[p].body.chunks, "chunk") /\ AllStored(t[p].body.chunks, "chunk")
    BY <2>2 DEF WholeBody
  <2>4. IsPage(s[p].body, q, n, p) /\ IsPage(t[p].body, q, n, p)
    BY <1>4, <1>5, <1>6, <1>7 DEF HoldsPages
  <2>5. s[p].body = t[p].body
    BY <2>3, <2>4, SamePage
  <2> QED
    BY <2>2, <2>5, SameParts
<1>9. s = t
  BY <1>6, <1>7, <1>8, SameSequence DEF HoldsPages
<1> QED
  BY <1>1, <1>2, <1>9 DEF ExactRoot

-----------------------------------------------------------------------------
(* An object under the logical key that is not the root of this file.        *)
Foreign(f) == \E o \in made : o.key = RootKey /\ (IsRoot(o) => o.body.file # f)

ConflictExplained(u) ==
    /\ step[u] # "idle" => up[u] = "putting"
    /\ step[u] = "conflict" \/ up[u] = "conflict" => Foreign(request[u].declared)

ConvergeInv == WholeInv /\ ExactInv /\ \A u \in Uploaders : ConflictExplained(u)

(* A readback that finds something else.                                     *)
LEMMA ReadbackConflicts ==
  ASSUME WholeInv, ExactInv, Everything, NEW u \in Uploaders, up[u] = "putting",
         NEW o \in At(item[u].key), o.body # item[u].body
  PROVE  Foreign(request[u].declared)
<1> USE DEF WholeInv, FenceInv
<1>1. o \in store /\ o \in made /\ o.key = item[u].key
  BY DEF At, StoreInv
<1>2. PICK b : b = NextPart(u)
  OBVIOUS
<1>3. item[u].key = PartKey(b) /\ item[u].body = b /\ UploadExact(u)
  BY <1>2 DEF ExactInv, UploadExact, Item
<1>4. o.key = PartKey(o.body) /\ (o.body.kind \in Kinds \/ o.body = Marker)
  BY <1>1 DEF KeyInv, Keyed
<1>5. b.kind \in Kinds
  BY <1>2 DEF NextPart, Page, Root, Chunk, Kinds
<1>6. b.kind = "root" /\ o.key = RootKey
  BY <1>1, <1>3, <1>4, <1>5 DEF PartKey, Kinds, RootKey, Marker
<1>7. ASSUME IsRoot(o), o.body.file = request[u].declared
      PROVE  FALSE
  <2>1. o.body.kind = "root"
    BY <1>4, <1>6, <1>7 DEF IsRoot, Kinds, PartKey, RootKey
  <2>2. b.file = request[u].declared
    BY <1>2, <1>6 DEF NextPart, Page, Chunk, Root
  <2>3. ExactRoot(b) /\ ExactRoot(o.body)
    BY <1>1, <1>2, <1>3, NextIsExact DEF ExactInv
  <2>4. WholeBody(b) /\ \A p \in store : WholeBody(p.body)
    BY <1>2, PartsAreWhole DEF Everything, Item
  <2>5. o.body = b
    BY <1>1, <1>6, <1>7, <2>1, <2>2, <2>3, <2>4, SameRoot
  <2> QED
    BY <1>3, <2>5
<1> QED
  BY <1>1, <1>6, <1>7 DEF Foreign

LEMMA ConflictStep ==
  ASSUME ConvergeInv, [Next]_vars, WholeInv', NEW v \in Uploaders
  PROVE  ConflictExplained(v)'
<1> USE ClientsOf DEF ConvergeInv, WholeInv, FenceInv, Shape
<1>0. made \subseteq made'
  BY ObjectSteps DEF Creates, Removes, storeVars
<1>1. \A f : Foreign(f) => Foreign(f)'
  BY <1>0 DEF Foreign, IsRoot, RootKey, Marker
<1>2. \A f : MarkerMade' => Foreign(f)'
  BY DEF MarkerMade, Foreign, IsRoot, RootKey, Marker, StoreInv
<1>3. ASSUME up'[v] = up[v], step'[v] = step[v], request'[v] = request[v]
      PROVE  ConflictExplained(v)'
  BY <1>1, <1>3 DEF ConflictExplained
<1>4. CASE Begin(v) \/ Intend(v)
  <2>1. step'[v] = step[v] /\ step[v] = "idle" /\ up'[v] \notin {"conflict", "putting"}
    BY <1>4 DEF Begin, Intend, objectVars, callVars, ConflictExplained
  <2> QED
    BY <2>1 DEF ConflictExplained
<1>5. CASE PutPart(v)
  BY <1>5 DEF PutPart, StartPut, Goes, ConflictExplained
<1>6. CASE Outcome(v)
  BY <1>6 DEF Outcome, EndCall, ConflictExplained
<1>7. CASE Fail(v)
  <2>1. step'[v] = "idle" /\ (up'[v] = "conflict" => step[v] = "conflict" /\ request' = request)
    BY <1>7 DEF Fail, Drop, EndCall
  <2> QED
    BY <1>1, <2>1 DEF ConflictExplained
<1>8. ASSUME NEW u \in Uploaders, Upload(u), u # v
      PROVE  ConflictExplained(v)'
  <2>1. up'[v] = up[v] /\ step'[v] = step[v] /\ request'[v] = request[v]
    BY <1>8, UploadSteps DEF Begin, Intend, PutPart, Outcome, Fail, StartPut, Drop, EndCall,
       Goes, objectVars, callVars
  <2> QED
    BY <1>3, <2>1
<1>9. ASSUME NEW w \in Retirers, Retire(w)
      PROVE  ConflictExplained(v)'
  <2>1. w # v
    BY ChunkAssumption
  <2>2. UNCHANGED uploadVars /\ step'[v] = step[v]
    BY <1>9, <2>1, RetireSteps DEF Unlink, Unlinked, Mark, Fenced, Sweep, Swept, GiveUp,
       StartPut, StartDelete, Drop, EndCall, Goes
  <2> QED
    BY <1>3, <2>2 DEF uploadVars
<1>10. ASSUME Storage, UNCHANGED uploadVars
       PROVE  ConflictExplained(v)'
  <2>1. CASE step'[v] = "conflict" /\ step[v] # "conflict"
    <3>1. Readback(v)
      BY <1>10, <2>1 DEF Storage, ArrivePut, Resend, ArriveDelete, Readback, Look, LookAgain,
         Answer, Goes, callVars
    <3>2. PICK o \in At(item[v].key) : o.body # item[v].body
      BY <2>1, <3>1 DEF Readback, Goes
    <3>3. up[v] = "putting"
      BY <3>1 DEF Readback, ConflictExplained
    <3>4. MarkerMade' \/ Everything
      BY MarkerStays
    <3>5. Foreign(request[v].declared)'
      BY <1>1, <1>2, <1>10, <3>2, <3>3, <3>4, ReadbackConflicts DEF uploadVars
    <3> QED
      BY <1>10, <3>3, <3>5 DEF ConflictExplained, uploadVars
  <2>2. step'[v] # "idle" => step[v] # "idle"
    BY <1>10 DEF Storage, ArrivePut, Resend, ArriveDelete, Readback, Look, LookAgain,
       Answer, Awaits, Goes, callVars
  <2> QED
    BY <1>1, <1>10, <2>1, <2>2 DEF ConflictExplained, uploadVars
<1>11. CASE UNCHANGED <<objectVars, journalVars, uploadVars, ret>>
  BY <1>3, <1>11 DEF objectVars, callVars, uploadVars
<1> QED
  BY <1>4, <1>5, <1>6, <1>7, <1>8, <1>9, <1>10, <1>11, NextSteps, UploadSteps

(* Uploads of the same file, at the same time or again after one that was cut *)
(* off, never conflict: a conflict has a retirement or another file as its    *)
(* reason.  The pages and chunks of a file are the same objects for all of    *)
(* its uploads, so their roots are the same bytes.                            *)
THEOREM RetriesAgree == Spec => []RetriesConverge
<1>1. Init => ConvergeInv
  <2>1. Init => ExactInv
    BY DEF Init, ObjectInit, ExactInv, Shape, Steps, UpStates, RetStates, UploadExact,
       DoneExact, Uploading
  <2>2. Init => \A u \in Uploaders : ConflictExplained(u)
    BY ClientsOf DEF Init, ObjectInit, ConflictExplained
  <2> QED
    BY WholeInit, <2>1, <2>2 DEF ConvergeInv
<1>2. ConvergeInv /\ [Next]_vars => ConvergeInv'
  <2> SUFFICES ASSUME ConvergeInv, [Next]_vars
               PROVE  ConvergeInv'
    OBVIOUS
  <2>1. WholeInv' /\ ExactInv'
    BY WholeStep, ExactStep DEF ConvergeInv
  <2> QED
    BY <2>1, ConflictStep DEF ConvergeInv
<1>3. ConvergeInv => RetriesConverge
  BY DEF ConvergeInv, ConflictExplained, Foreign, RetriesConverge
<1> QED
  BY <1>1, <1>2, <1>3, PTL DEF Spec

-----------------------------------------------------------------------------
(* What FlattenSeq computes, a recursive function: if g starts with the first *)
(* of the sequences and goes on with one after the other, it is g.            *)
Flattens(h, s) == h = [i \in 1..Len(s) |-> IF i = 1 THEN s[i] ELSE h[i - 1] \o s[i]]

LEMMA FlattensUnique ==
  ASSUME NEW s, Len(s) \in Nat, NEW g, Flattens(g, s), NEW h, Flattens(h, s)
  PROVE  g = h
<1> DEFINE D == {i \in 1..Len(s) : g[i] # h[i]}
<1>1. CASE D = {}
  <2>1. \A i \in 1..Len(s) : g[i] = h[i]
    BY <1>1
  <2>2. g = [i \in 1..Len(s) |-> g[i]] /\ h = [i \in 1..Len(s) |-> h[i]]
    BY DEF Flattens
  <2> QED
    BY <2>1, <2>2
<1>2. CASE D # {}
  <2>1. D \subseteq Nat
    OBVIOUS
  <2>2. PICK n \in D : \A m \in D : <<m, n>> \notin OpToRel(<, Nat)
    <3> HIDE DEF D
    <3> QED
      BY <1>2, <2>1, WFMin, NatLessThanWellFounded, Zenon
  <2>3. \A m \in D : ~ m < n
    <3> SUFFICES ASSUME NEW m \in D, m < n PROVE FALSE
      OBVIOUS
    <3>1. <<m, n>> \in Nat \X Nat
      BY <2>1
    <3> QED
      BY <3>1, <2>2, Zenon DEF OpToRel
  <2>4. \A i \in 1..Len(s) : /\ g[i] = IF i = 1 THEN s[i] ELSE g[i - 1] \o s[i]
                             /\ h[i] = IF i = 1 THEN s[i] ELSE h[i - 1] \o s[i]
    BY DEF Flattens
  <2>5. n # 1
    BY <2>4
  <2>6. n - 1 \in 1..Len(s) /\ n - 1 < n
    BY <2>5
  <2>7. g[n - 1] = h[n - 1]
    BY <2>3, <2>6
  <2> QED
    BY <2>4, <2>5, <2>7
<1> QED
  BY <1>1, <1>2

LEMMA FlattenReads ==
  ASSUME NEW s, Len(s) \in Nat \ {0}, NEW g, Flattens(g, s)
  PROVE  FlattenSeq(s) = g[Len(s)]
<1>1. PICK h : h = CHOOSE x : Flattens(x, s)
  OBVIOUS
<1>2. Flattens(h, s)
  BY <1>1
<1>3. h = g
  BY <1>2, FlattensUnique
<1>4. FlattenSeq(s) = h[Len(s)]
  BY <1>1 DEF FlattenSeq, Flattens
<1> QED
  BY <1>3, <1>4

-----------------------------------------------------------------------------
(* Where the first i chunks of a file end.                                   *)
Edge(f, i) == IF i * ChunkBytes < Len(f) THEN i * ChunkBytes ELSE Len(f)

LEMMA Edges ==
  ASSUME NEW f \in Seq(Bytes), NEW i \in Nat, NEW j \in Nat, i =< j
  PROVE  /\ Edge(f, i) \in 0..Len(f) /\ Edge(f, j) \in Edge(f, i)..Len(f)
         /\ Edge(f, 0) = 0
         /\ Len(f) =< i * ChunkBytes => Edge(f, i) = Len(f)
<1>1. Len(f) \in Nat
  BY LenProperties
<1>2. i * ChunkBytes \in Nat /\ j * ChunkBytes \in Nat /\ i * ChunkBytes =< j * ChunkBytes
  BY ChunkAssumption, Products
<1>3. Edge(f, 0) = 0
  BY <1>1, ChunkAssumption DEF Edge
<1> QED
  BY <1>1, <1>2, <1>3 DEF Edge

(* A piece of the file that is declared is the chunk of it.                  *)
LEMMA PieceReads ==
  ASSUME NEW f \in Seq(Bytes), NEW i \in Nat, i * ChunkBytes < Len(f)
  PROVE  /\ Edge(f, i) = i * ChunkBytes
         /\ Piece(Itself(f), i) = SubSeq(f, Edge(f, i) + 1, Edge(f, i + 1))
<1>1. PICK a : a = i * ChunkBytes
  OBVIOUS
<1>2. PICK b : b = Edge(f, i + 1)
  OBVIOUS
<1>3. Len(f) \in Nat /\ a \in Nat /\ ChunkBytes \in Nat \ {0}
  BY <1>1, LenProperties, ChunkAssumption
<1>4. (i + 1) * ChunkBytes = a + ChunkBytes
  BY <1>1, <1>3
<1>5. b \in a + 1..Len(f) /\ b = IF (i + 1) * ChunkBytes < Len(f) THEN (i + 1) * ChunkBytes
                                                                 ELSE Len(f)
  BY <1>1, <1>2, <1>3, <1>4 DEF Edge
<1>6. ChunkOf(f, i) = SubSeq(f, a + 1, b)
  BY <1>1, <1>5 DEF ChunkOf
<1>7. Len(ChunkOf(f, i)) = b - a
  <2>1. \A x \in a + 1..b : f[x] \in Bytes
    BY <1>3, <1>5, ElementOfSeq
  <2>2. a + 1 \in Int /\ b \in Int /\ a + 1 <= b
    BY <1>3, <1>5
  <2>3. Len(SubSeq(f, a + 1, b)) = b - (a + 1) + 1
    BY <2>1, <2>2, SubSeqProperties
  <2> QED
    BY <1>3, <1>5, <1>6, <2>3
<1>8. Edge(f, i) = a
  BY <1>1 DEF Edge
<1>9. a + Len(ChunkOf(f, i)) = b
  BY <1>3, <1>5, <1>7
<1>10. Piece(Itself(f), i) = SubSeq(f, a + 1, a + Len(ChunkOf(f, i)))
  BY <1>1 DEF Piece, Itself
<1> QED
  BY <1>1, <1>2, <1>8, <1>9, <1>10

(* Sequences that are cut from a file one after the other.                   *)
LEMMA FlattenCuts ==
  ASSUME NEW f \in Seq(Bytes), NEW s, Len(s) \in Nat \ {0}, NEW e,
         \A i \in 0..Len(s) : e[i] \in 0..Len(f),
         \A i, j \in 0..Len(s) : i =< j => e[i] =< e[j],
         \A i \in 1..Len(s) : s[i] = SubSeq(f, e[i - 1] + 1, e[i])
  PROVE  FlattenSeq(s) = SubSeq(f, e[0] + 1, e[Len(s)])
<1> DEFINE g == [i \in 1..Len(s) |-> SubSeq(f, e[0] + 1, e[i])]
<1>1. \A i \in 1..Len(s) : g[i] = IF i = 1 THEN s[i] ELSE g[i - 1] \o s[i]
  <2> SUFFICES ASSUME NEW i \in 1..Len(s)
               PROVE  g[i] = IF i = 1 THEN s[i] ELSE g[i - 1] \o s[i]
    OBVIOUS
  <2>1. CASE i = 1
    BY <2>1
  <2>2. CASE i # 1
    <3>1. i - 1 \in 1..Len(s) /\ i - 1 \in 0..Len(s) /\ i \in 0..Len(s) /\ 0 \in 0..Len(s)
          /\ i - 1 =< i /\ 0 =< i - 1
      BY <2>2
    <3>2. PICK a, b, c : a = e[0] /\ b = e[i - 1] /\ c = e[i]
      OBVIOUS
    <3>3. a \in 0..Len(f) /\ b \in a..Len(f) /\ c \in b..Len(f)
      BY <3>1, <3>2
    <3>4. Len(f) \in Nat
      BY LenProperties
    <3>5. a + 1 \in 1..Len(f) + 1 /\ b \in (a + 1) - 1..Len(f)
      BY <3>3, <3>4
    <3>6. SubSeq(f, a + 1, b) \o SubSeq(f, b + 1, c) = SubSeq(f, a + 1, c)
      BY <3>3, <3>5, ConcatAdjacentSubSeq
    <3>7. g[i] = SubSeq(f, a + 1, c) /\ g[i - 1] = SubSeq(f, a + 1, b)
          /\ s[i] = SubSeq(f, b + 1, c)
      BY <3>1, <3>2
    <3> QED
      BY <2>2, <3>6, <3>7
  <2> QED
    BY <2>1, <2>2
<1>2. g = [i \in 1..Len(s) |-> g[i]]
  OBVIOUS
<1>3. g[Len(s)] = SubSeq(f, e[0] + 1, e[Len(s)])
  <2>1. Len(s) \in 1..Len(s)
    OBVIOUS
  <2> QED
    BY Zenon, <2>1
<1> HIDE DEF g
<1>4. Flattens(g, s)
  BY <1>1, <1>2 DEF Flattens
<1> QED
  BY <1>3, <1>4, FlattenReads

(* The chunks of a page, from the one numbered from.                         *)
Payloads(c) == [i \in 1..Len(c) |-> c[i].body.bytes]

LastPiece(from, n) == (from + n - 1) * ChunkBytes

LEMMA FlattenPieces ==
  ASSUME NEW f \in Seq(Bytes), NEW from \in Nat, NEW c, HoldsPieces(c, Itself(f), from),
         Len(c) \in Nat \ {0}, LastPiece(from, Len(c)) < Len(f)
  PROVE  FlattenSeq(Payloads(c)) = SubSeq(f, Edge(f, from) + 1, Edge(f, from + Len(c)))
<1>0. PICK n \in Nat \ {0} : n = Len(c) /\ LastPiece(from, n) < Len(f)
  OBVIOUS
<1> DEFINE s == [i \in 1..Len(c) |-> c[i].body.bytes]
           e == [i \in 0..Len(c) |-> Edge(f, from + i)]
<1>1. Len(s) = n
  <2>1. s = [i \in 1..n |-> s[i]]
    BY Zenon, <1>0
  <2>2. s \in [1..n -> Range(s)]
    BY SMTT(60), <2>1 DEF Range
  <2> HIDE DEF s
  <2>3. Len(s) \in Nat /\ DOMAIN s = 1..Len(s)
    <3>1. s \in UNION {[1..k -> Range(s)] : k \in Nat}
      BY ZenonT(60), <1>0, <2>2
    <3>2. s \in Seq(Range(s))
      BY ZenonT(60), <3>1, SeqDef
    <3> QED
      BY Zenon, <3>2, LenProperties
  <2>4. PICK l \in Nat : l = Len(s)
    BY <2>3
  <2>5. 1..l = 1..n
    BY <2>2, <2>3, <2>4
  <2>6. l = n
    BY <2>5
  <2> QED
    BY <2>4, <2>6
<1>2. \A i \in 0..n : e[i] = Edge(f, from + i)
  BY <1>0
<1>3. \A i \in 0..n : e[i] \in 0..Len(f)
  <2> SUFFICES ASSUME NEW i \in 0..n
               PROVE  e[i] \in 0..Len(f)
    OBVIOUS
  <2>1. PICK x \in Nat : x = from + i /\ x =< x
    OBVIOUS
  <2>2. Edge(f, x) \in 0..Len(f)
    BY <2>1, Edges
  <2> QED
    BY <1>2, <2>1, <2>2
<1>4. \A i, j \in 0..n : i =< j => e[i] =< e[j]
  <2> SUFFICES ASSUME NEW i \in 0..n, NEW j \in 0..n, i =< j
               PROVE  e[i] =< e[j]
    OBVIOUS
  <2>1. PICK x \in Nat, y \in Nat : x = from + i /\ y = from + j /\ x =< y
    OBVIOUS
  <2>2. Edge(f, y) \in Edge(f, x)..Len(f) /\ Edge(f, x) \in 0..Len(f)
    BY <2>1, Edges
  <2>3. Edge(f, x) =< Edge(f, y)
    BY <2>2
  <2> QED
    BY <1>2, <2>1, <2>3
<1>5. \A i \in 1..n : s[i] = SubSeq(f, e[i - 1] + 1, e[i])
  <2> SUFFICES ASSUME NEW i \in 1..n
               PROVE  s[i] = SubSeq(f, e[i - 1] + 1, e[i])
    OBVIOUS
  <2>1. PICK x \in Nat : x = from + i - 1
    OBVIOUS
  <2>2. x =< from + n - 1 /\ x + 1 = from + i /\ x = from + (i - 1)
        /\ x \in Int /\ from + n - 1 \in Int
    BY <2>1
  <2>3. x * ChunkBytes < Len(f)
    <3>1. PICK y \in Int : y = from + n - 1
      BY <2>2
    <3>2. x * ChunkBytes \in Int /\ y * ChunkBytes \in Int /\ x * ChunkBytes =< y * ChunkBytes
      BY <2>2, <3>1, Products, ChunkAssumption
    <3>3. y * ChunkBytes < Len(f) /\ Len(f) \in Nat
      BY <1>0, <3>1, LenProperties DEF LastPiece
    <3> QED
      BY <3>2, <3>3
  <2>4. Piece(Itself(f), x) = SubSeq(f, Edge(f, x) + 1, Edge(f, x + 1))
    BY <2>3, PieceReads
  <2>5. c[i].body = Chunk(Piece(Itself(f), x))
    <3>1. i \in 1..Len(c)
      BY <1>0
    <3>2. c[i].body = Chunk(Piece(Itself(f), from + i - 1))
      BY <3>1 DEF HoldsPieces
    <3> QED
      BY <2>1, <3>2
  <2>6. s[i] = Piece(Itself(f), x)
    <3>1. s[i] = c[i].body.bytes
      BY <1>0
    <3>2. PICK v : v = Piece(Itself(f), x)
      OBVIOUS
    <3>3. Chunk(v).bytes = v
      BY DEF Chunk
    <3> QED
      BY Zenon, <2>5, <3>1, <3>2, <3>3
  <2>7. e[i - 1] = Edge(f, x) /\ e[i] = Edge(f, x + 1)
    BY <1>2, <2>2
  <2> QED
    BY <2>4, <2>6, <2>7
<1>6. e[0] = Edge(f, from) /\ e[n] = Edge(f, from + n)
  BY <1>2
<1> HIDE DEF s, e
<1>7. FlattenSeq(s) = SubSeq(f, e[0] + 1, e[Len(s)])
  BY <1>1, <1>3, <1>4, <1>5, FlattenCuts
<1>8. FlattenSeq(s) = SubSeq(f, Edge(f, from) + 1, Edge(f, from + n))
  BY <1>1, <1>6, <1>7
<1> QED
  BY <1>0, <1>8 DEF s, Payloads

-----------------------------------------------------------------------------
(* What a root stands for.  Upto is where page p ends, in chunks.            *)
Upto(n, p) == IF p * PageEntries < n THEN p * PageEntries ELSE n

LEMMA UptoReads ==
  ASSUME NEW n \in Nat, NEW k \in Nat, Ceiling(k, n, PageEntries)
  PROVE  /\ Upto(n, 0) = 0 /\ Upto(n, k) = n
         /\ \A p \in 0..k : Upto(n, p) \in 0..n
         /\ \A p, q \in 0..k : p =< q => Upto(n, p) =< Upto(n, q)
         /\ \A p \in 1..k : /\ Upto(n, p - 1) = (p - 1) * PageEntries
                            /\ (p - 1) * PageEntries \in Nat
                            /\ PageSize(n, p) \in 1..PageEntries
                            /\ Upto(n, p) = (p - 1) * PageEntries + PageSize(n, p)
<1>1. Upto(n, 0) = 0
  BY ChunkAssumption DEF Upto
<1>2. Upto(n, k) = n
  <2>1. PICK x : x = k * PageEntries
    OBVIOUS
  <2>2. x \in Nat /\ n =< x
    BY <2>1, ChunkAssumption DEF Ceiling
  <2> QED
    BY <2>1, <2>2 DEF Upto
<1>3. ASSUME NEW p \in 0..k, NEW q \in 0..k, p =< q
      PROVE  Upto(n, p) \in 0..n /\ Upto(n, p) =< Upto(n, q)
  <2>1. PICK x, y : x = p * PageEntries /\ y = q * PageEntries
    OBVIOUS
  <2>2. x \in Nat /\ y \in Nat /\ x =< y
    BY <1>3, <2>1, ChunkAssumption, Products
  <2> QED
    BY <2>1, <2>2 DEF Upto
<1>4. ASSUME NEW p \in 1..k
      PROVE  /\ Upto(n, p - 1) = (p - 1) * PageEntries
             /\ (p - 1) * PageEntries \in Nat
             /\ PageSize(n, p) \in 1..PageEntries
             /\ Upto(n, p) = (p - 1) * PageEntries + PageSize(n, p)
  <2>1. PICK x, y, z : /\ x = (p - 1) * PageEntries /\ y = p * PageEntries
                       /\ z = (k - 1) * PageEntries
    OBVIOUS
  <2>2. p - 1 \in Nat /\ k - 1 \in Nat /\ p - 1 =< k - 1
    OBVIOUS
  <2>3. x \in Nat /\ x =< z /\ z \in Int
    BY <2>1, <2>2, ChunkAssumption, Products
  <2>4. z < n
    BY <2>1 DEF Ceiling
  <2>5. y = x + PageEntries /\ PageEntries \in Nat \ {0}
    BY <2>1, ChunkAssumption, Products
  <2>6. Upto(n, p - 1) = x /\ Upto(n, p) = IF y < n THEN y ELSE n
    BY <2>1, <2>3, <2>4 DEF Upto
  <2>7. PageSize(n, p) = IF n - x < PageEntries THEN n - x ELSE PageEntries
    BY <2>1 DEF PageSize
  <2>8. PageSize(n, p) \in 1..PageEntries /\ Upto(n, p) = x + PageSize(n, p)
    BY <2>3, <2>4, <2>5, <2>6, <2>7
  <2> QED
    BY <2>1, <2>3, <2>6, <2>8
<1>5. ASSUME NEW p \in 0..k
      PROVE  Upto(n, p) \in 0..n
  BY <1>3
<1> QED
  BY <1>1, <1>2, <1>3, <1>4, <1>5

LEMMA RootReads ==
  ASSUME NEW b, b.kind = "root", ExactRoot(b), NEW f, f = b.file, NEW n, n = Paged(b.pages),
         NEW k, k = Len(b.pages)
  PROVE  /\ f \in Seq(Bytes) /\ Len(f) \in Nat /\ n \in Nat /\ k \in Nat
         /\ Ceiling(n, Len(f), ChunkBytes) /\ Ceiling(k, n, PageEntries)
         /\ \A p \in 1..k : IsPage(b.pages[p].body, Itself(f), n, p)
BY LenProperties DEF ExactRoot, HoldsPages

LEMMA RootStands ==
  ASSUME NEW o, o.body.kind = "root", ExactRoot(o.body)
  PROVE  BytesOf(o) = o.body.file
<1>1. PICK f, n, k : f = o.body.file /\ n = Paged(o.body.pages) /\ k = Len(o.body.pages)
  OBVIOUS
<1>2. /\ f \in Seq(Bytes) /\ Len(f) \in Nat /\ n \in Nat /\ k \in Nat
      /\ Ceiling(n, Len(f), ChunkBytes) /\ Ceiling(k, n, PageEntries)
      /\ \A p \in 1..k : IsPage(o.body.pages[p].body, Itself(f), n, p)
  BY <1>1, RootReads
<1> DEFINE s == [p \in 1..k |-> FlattenSeq([i \in 1..Len(o.body.pages[p].body.chunks) |->
                                  o.body.pages[p].body.chunks[i].body.bytes])]
           e == [p \in 0..k |-> Edge(f, Upto(n, p))]
<1>3. BytesOf(o) = FlattenSeq(s)
  BY <1>1 DEF BytesOf
<1>4. CASE k = 0
  <2>1. n = 0 /\ Len(f) = 0
    BY <1>2, <1>4, ChunkAssumption DEF Ceiling
  <2>2. f = <<>>
    BY <1>2, <2>1, EmptySeq
  <2>3. s = <<>>
    BY <1>4
  <2>4. FlattenSeq(<<>>) = <<>>
    BY DEF FlattenSeq
  <2> QED
    BY <1>1, <1>3, <2>2, <2>3, <2>4
<1>5. CASE k # 0
  <2>1. Len(s) = k /\ k \in Nat \ {0}
    <3>1. k \in Nat \ {0}
      BY <1>2, <1>5
    <3> QED
      BY <3>1
  <2>2. \A p \in 0..k : e[p] \in 0..Len(f)
    <3> SUFFICES ASSUME NEW p \in 0..k
                 PROVE  e[p] \in 0..Len(f)
      OBVIOUS
    <3>1. PICK x \in Nat : x = Upto(n, p) /\ x =< x
      BY <1>2, UptoReads
    <3>2. Edge(f, x) \in 0..Len(f)
      BY <1>2, <3>1, Edges
    <3> QED
      BY <3>1, <3>2
  <2>3. \A p, q \in 0..k : p =< q => e[p] =< e[q]
    <3> SUFFICES ASSUME NEW p \in 0..k, NEW q \in 0..k, p =< q
                 PROVE  e[p] =< e[q]
      OBVIOUS
    <3>1. PICK x \in Nat, y \in Nat : x = Upto(n, p) /\ y = Upto(n, q) /\ x =< y
      BY <1>2, UptoReads
    <3>2. Edge(f, y) \in Edge(f, x)..Len(f) /\ Edge(f, x) \in 0..Len(f)
      BY <1>2, <3>1, Edges
    <3>3. Edge(f, x) =< Edge(f, y)
      BY <1>2, <3>2
    <3> QED
      BY <3>1, <3>3
  <2>4. \A p \in 1..k : s[p] = SubSeq(f, e[p - 1] + 1, e[p])
    <3> SUFFICES ASSUME NEW p \in 1..k
                 PROVE  s[p] = SubSeq(f, e[p - 1] + 1, e[p])
      OBVIOUS
    <3>1. PICK c : c = o.body.pages[p].body.chunks
      OBVIOUS
    <3>2. PICK from \in Nat, m \in Nat \ {0} :
            /\ from = (p - 1) * PageEntries /\ m = PageSize(n, p)
            /\ Upto(n, p - 1) = from /\ Upto(n, p) = from + m
      <4>1. /\ Upto(n, p - 1) = (p - 1) * PageEntries
            /\ (p - 1) * PageEntries \in Nat
            /\ PageSize(n, p) \in 1..PageEntries
            /\ Upto(n, p) = (p - 1) * PageEntries + PageSize(n, p)
        BY <1>2, UptoReads
      <4>2. PICK from, m : from = (p - 1) * PageEntries /\ m = PageSize(n, p)
        OBVIOUS
      <4>3. from \in Nat /\ m \in 1..PageEntries
        BY <4>1, <4>2
      <4>4. m \in Nat \ {0}
        BY <4>3, ChunkAssumption
      <4> QED
        BY <4>1, <4>2, <4>3, <4>4
    <3>3. HoldsPieces(c, Itself(f), from) /\ m = Len(c)
      BY <1>2, <3>1, <3>2 DEF IsPage
    <3>4. from + m =< n
      BY <1>2, <3>2, UptoReads
    <3>5. LastPiece(from, m) < Len(f)
      <4>1. PICK x \in Int, y \in Int : x = from + m - 1 /\ y = n - 1 /\ x =< y
        BY <1>2, <3>4
      <4>2. x * ChunkBytes \in Int /\ y * ChunkBytes \in Int /\ x * ChunkBytes =< y * ChunkBytes
        BY <4>1, Products, ChunkAssumption
      <4>3. n # 0
        BY <3>2, <3>4
      <4>4. y * ChunkBytes < Len(f)
        BY <1>2, <4>1, <4>3 DEF Ceiling
      <4>5. x * ChunkBytes < Len(f)
        BY <1>2, <4>2, <4>4
      <4> QED
        BY <4>1, <4>5 DEF LastPiece
    <3>6. FlattenSeq(Payloads(c)) = SubSeq(f, Edge(f, from) + 1, Edge(f, from + m))
      <4>1. Len(c) \in Nat \ {0} /\ LastPiece(from, Len(c)) < Len(f)
        BY <3>3, <3>5
      <4>2. FlattenSeq(Payloads(c)) = SubSeq(f, Edge(f, from) + 1, Edge(f, from + Len(c)))
        BY <1>2, <3>3, <4>1, FlattenPieces
      <4> QED
        BY <3>3, <4>2
    <3>7. e[p - 1] = Edge(f, from) /\ e[p] = Edge(f, from + m)
      BY <1>2, <3>2
    <3>8. s[p] = FlattenSeq(Payloads(c))
      BY <3>1 DEF Payloads
    <3> QED
      BY ZenonT(60), <3>6, <3>7, <3>8
  <2>5. e[0] = 0 /\ e[k] = Len(f)
    <3>1. e[0] = Edge(f, Upto(n, 0)) /\ e[k] = Edge(f, Upto(n, k))
      BY <1>2
    <3>2. Upto(n, 0) = 0 /\ Upto(n, k) = n
      BY <1>2, UptoReads
    <3>3. n =< n /\ Len(f) =< n * ChunkBytes
      BY <1>2 DEF Ceiling
    <3>4. Edge(f, 0) = 0 /\ Edge(f, n) = Len(f)
      BY <1>2, <3>3, Edges
    <3> QED
      BY <3>1, <3>2, <3>4
  <2> HIDE DEF s, e
  <2>6. FlattenSeq(s) = SubSeq(f, e[0] + 1, e[Len(s)])
    BY <1>2, <2>1, <2>2, <2>3, <2>4, FlattenCuts
  <2>7. SubSeq(f, 1, Len(f)) = f
    BY <1>2, SubSeqFull
  <2> QED
    BY <1>1, <1>3, <2>1, <2>5, <2>6, <2>7
<1> QED
  BY <1>4, <1>5

LEMMA RootKind ==
  ASSUME NEW o, Keyed(o), IsRoot(o)
  PROVE  o.body.kind = "root"
<1>1. o.body.kind \in Kinds /\ o.key = PartKey(o.body) /\ o.key = RootKey
  BY DEF Keyed, IsRoot
<1>2. CASE o.body.kind \in {"chunk", "page"}
  <2>1. o.body = RootKey
    BY <1>1, <1>2 DEF PartKey
  <2>2. o.body.kind = "logical"
    BY <2>1 DEF RootKey
  <2> QED
    BY <1>2, <2>2
<1> QED
  BY <1>1, <1>2 DEF Kinds

(* Every root ever written stands for the file it declares, also that of an  *)
(* upload that died while its root was on its way, and an upload is only done *)
(* with exactly this file: no version of the bucket, no journal and no        *)
(* retirement matters for this.                                               *)
THEOREM ReceiptsStandForTheirFiles == Spec => []ReceiptsAreExact
<1>1. Init => KeyInv
  BY DEF Init, ObjectInit, KeyInv
<1>2. ExactInv /\ KeyInv /\ [Next]_vars => KeyInv'
  BY KeyStep DEF ExactInv
<1>3. ExactInv /\ KeyInv => ReceiptsAreExact
  <2> SUFFICES ASSUME ExactInv, KeyInv
               PROVE  ReceiptsAreExact
    OBVIOUS
  <2>1. ASSUME NEW o \in made, IsRoot(o)
        PROVE  BytesOf(o) = o.body.file
    <3>1. o.body.kind = "root"
      BY <2>1, RootKind DEF KeyInv
    <3> QED
      BY <3>1, RootStands DEF ExactInv
  <2> QED
    BY <2>1 DEF ExactInv, DoneExact, ReceiptsAreExact
<1> QED
  BY <1>1, <1>2, <1>3, ExactHolds, PTL DEF Spec

-----------------------------------------------------------------------------
(* The readers.  Reached is where the bytes returned so far end, if the next *)
(* chunk begins at s.                                                        *)
Reached(lo, hi, s) == IF s =< lo THEN lo ELSE IF s < hi THEN s ELSE hi

Asked(f, lo, hi) == lo \in 0..Len(f) /\ hi \in 0..Len(f) /\ (lo < hi \/ (lo = 0 /\ hi = 0))

(* What a reader has returned is the range it was asked for, up to where the *)
(* next chunk begins; it has verified no sooner than at the end of the range.*)
ReaderExact(r) ==
    /\ rd[r] = "idle" => got[r] = <<>>
    /\ rd[r] # "idle" =>
         /\ root[r] \in made /\ IsRoot(root[r])
         /\ Asked(root[r].body.file, range[r].lo, range[r].hi)
         /\ next[r] \in Nat /\ range[r].lo < Start(r) + ChunkBytes
         /\ got[r] = SubSeq(root[r].body.file, range[r].lo + 1,
                            Reached(range[r].lo, range[r].hi, Start(r)))
    /\ rd[r] = "verified" => range[r].hi =< Start(r)

ReadExactInv ==
    /\ DOMAIN rd = Readers /\ DOMAIN root = Readers /\ DOMAIN range = Readers
    /\ DOMAIN next = Readers /\ DOMAIN got = Readers
    /\ \A r \in Readers : ReaderExact(r)

LEMMA Division ==
  ASSUME NEW x \in Nat, NEW d \in Nat \ {0}
  PROVE  x \div d \in Nat /\ x % d \in 0..d - 1 /\ x = (x \div d) * d + (x % d)
<1>1. x \div d \in Nat /\ x % d \in 0..d - 1
  OBVIOUS
<1>2. PICK q \in Int, r \in Int : q = x \div d /\ r = x % d
  BY <1>1
<1>3. x = d * q + r
  BY <1>2
<1>4. d * q = q * d
  BY <1>2
<1> QED
  BY <1>1, <1>2, <1>3, <1>4

(* The pointer that a reader follows is that of the chunk it wants.          *)
LEMMA RootChunk ==
  ASSUME NEW b, b.kind = "root", ExactRoot(b), NEW c \in Nat, c * ChunkBytes < Len(b.file)
  PROVE  b.pages[c \div PageEntries + 1].body.chunks[(c % PageEntries) + 1].body
           = Chunk(SubSeq(b.file, c * ChunkBytes + 1, Edge(b.file, c + 1)))
<1>1. PICK f, n, k : f = b.file /\ n = Paged(b.pages) /\ k = Len(b.pages)
  OBVIOUS
<1>2. /\ f \in Seq(Bytes) /\ Len(f) \in Nat /\ n \in Nat /\ k \in Nat
      /\ Ceiling(n, Len(f), ChunkBytes) /\ Ceiling(k, n, PageEntries)
      /\ \A p \in 1..k : IsPage(b.pages[p].body, Itself(f), n, p)
  BY <1>1, RootReads
<1>3. PICK q, i : q = c \div PageEntries /\ i = c % PageEntries
  OBVIOUS
<1>4. q \in Nat /\ i \in 0..PageEntries - 1 /\ c = q * PageEntries + i
  BY <1>3, Division, ChunkAssumption
<1>5. c < n
  <2> SUFFICES ASSUME n =< c PROVE FALSE
    BY <1>2
  <2>1. n * ChunkBytes \in Int /\ c * ChunkBytes \in Int /\ n * ChunkBytes =< c * ChunkBytes
    BY <1>2, Products, ChunkAssumption
  <2>2. Len(f) =< n * ChunkBytes
    BY <1>2 DEF Ceiling
  <2> QED
    BY <1>1, <1>2, <2>1, <2>2
<1>6. PICK x : x = q * PageEntries
  OBVIOUS
<1>7. x \in Nat /\ c = x + i
  BY <1>4, <1>6, ChunkAssumption
<1>8. q + 1 \in 1..k
  <2> SUFFICES ASSUME k =< q PROVE FALSE
    BY <1>2, <1>4
  <2>1. k * PageEntries \in Int /\ k * PageEntries =< x
    BY <1>2, <1>4, <1>6, Products, ChunkAssumption
  <2>2. n =< k * PageEntries
    BY <1>2 DEF Ceiling
  <2> QED
    BY <1>2, <1>4, <1>5, <1>7, <2>1, <2>2
<1>9. PICK p \in 1..k : p = q + 1 /\ p - 1 = q
  BY <1>4, <1>8
<1>10. PICK s : s = b.pages[p].body.chunks
  OBVIOUS
<1>11. Len(s) = PageSize(n, p) /\ HoldsPieces(s, Itself(f), x)
  BY <1>2, <1>6, <1>9, <1>10 DEF IsPage
<1>12. PageSize(n, p) = IF n - x < PageEntries THEN n - x ELSE PageEntries
  BY <1>6, <1>9 DEF PageSize
<1>13. i + 1 \in 1..Len(s)
  BY <1>2, <1>4, <1>5, <1>7, <1>11, <1>12, ChunkAssumption
<1>14. s[i + 1].body = Chunk(Piece(Itself(f), x + (i + 1) - 1))
  BY <1>11, <1>13 DEF HoldsPieces
<1>15. x + (i + 1) - 1 = c
  BY <1>4, <1>7
<1>16. /\ Edge(f, c) = c * ChunkBytes
       /\ Piece(Itself(f), c) = SubSeq(f, Edge(f, c) + 1, Edge(f, c + 1))
  BY <1>1, <1>2, PieceReads
<1> QED
  BY <1>1, <1>3, <1>9, <1>10, <1>14, <1>15, <1>16

LEMMA SliceOfSlice ==
  ASSUME NEW f \in Seq(Bytes), NEW s \in Nat, NEW e \in s + 1..Len(f),
         NEW from \in Nat, NEW to \in 1..e - s, from < to
  PROVE  SubSeq(SubSeq(f, s + 1, e), from + 1, to) = SubSeq(f, s + from + 1, s + to)
<1>1. Len(f) \in Nat
  BY LenProperties
<1>2. PICK i, m : i = s + 1 /\ m = from + 1
  OBVIOUS
<1>3. i \in 1..Len(f) /\ e \in 1..Len(f) /\ m \in 1..e - i + 1 /\ to \in 1..e - i + 1
  BY <1>1, <1>2
<1>4. SubSeq(SubSeq(f, i, e), m, to) = SubSeq(f, i + m - 1, i + to - 1)
  BY <1>3, SubSeqOfSubSeq
<1>5. i + m - 1 = s + from + 1 /\ i + to - 1 = s + to
  BY <1>1, <1>2
<1> QED
  BY <1>2, <1>4, <1>5

(* Of a file of length l, the chunk that begins at s ends at ChunkEnd; what   *)
(* is returned of it begins and ends at these places of the chunk.            *)
ChunkEnd(l, s) == IF s + ChunkBytes < l THEN s + ChunkBytes ELSE l
SliceFrom(lo, s) == IF lo > s THEN lo - s ELSE 0
SliceTo(l, hi, s) == IF hi - s < ChunkEnd(l, s) - s THEN hi - s ELSE ChunkEnd(l, s) - s

LEMMA SliceBounds ==
  ASSUME NEW l \in Nat, NEW s \in Nat, NEW lo \in Nat, NEW hi \in Nat,
         lo < hi, hi =< l, s < hi, lo < s + ChunkBytes
  PROVE  /\ ChunkEnd(l, s) \in s + 1..l
         /\ SliceFrom(lo, s) \in Nat /\ SliceFrom(lo, s) < SliceTo(l, hi, s)
         /\ SliceTo(l, hi, s) \in 1..ChunkEnd(l, s) - s
         /\ s + SliceFrom(lo, s) = Reached(lo, hi, s) /\ lo =< s + SliceFrom(lo, s)
         /\ s + SliceTo(l, hi, s) = Reached(lo, hi, s + ChunkBytes)
<1>1. ChunkBytes \in Nat \ {0}
  BY ChunkAssumption
<1>2. PICK e, from, to : e = ChunkEnd(l, s) /\ from = SliceFrom(lo, s) /\ to = SliceTo(l, hi, s)
  OBVIOUS
<1>3. e \in s + 1..l /\ lo < e /\ e = IF s + ChunkBytes < l THEN s + ChunkBytes ELSE l
  BY <1>1, <1>2 DEF ChunkEnd
<1>4. to = IF hi - s < e - s THEN hi - s ELSE e - s
  BY <1>2 DEF SliceTo
<1>5. from \in Nat /\ s + from = Reached(lo, hi, s) /\ lo =< s + from /\ s + from < hi
      /\ s + from < e
  BY <1>2, <1>3 DEF SliceFrom, Reached
<1>6. to \in 1..e - s /\ from < to
  BY <1>3, <1>4, <1>5
<1>7. s + to = Reached(lo, hi, s + ChunkBytes)
  BY <1>1, <1>3, <1>4 DEF Reached
<1> QED
  BY <1>2, <1>3, <1>5, <1>6, <1>7

LEMMA SliceReads ==
  ASSUME NEW f \in Seq(Bytes), NEW s \in Nat, NEW lo \in Nat, NEW e \in s + 1..Len(f),
         NEW from \in Nat, NEW to \in 1..e - s, from < to, lo =< s + from
  PROVE  SubSeq(f, lo + 1, s + from) \o SubSeq(SubSeq(f, s + 1, e), from + 1, to)
           = SubSeq(f, lo + 1, s + to)
<1>1. Len(f) \in Nat
  BY LenProperties
<1>2. SubSeq(SubSeq(f, s + 1, e), from + 1, to) = SubSeq(f, s + from + 1, s + to)
  BY SliceOfSlice
<1>3. PICK a, d : a = s + from /\ d = s + to
  OBVIOUS
<1>4. lo + 1 \in 1..Len(f) + 1 /\ a \in (lo + 1) - 1..Len(f) /\ d \in a..Len(f)
  BY <1>1, <1>3
<1>5. SubSeq(f, lo + 1, a) \o SubSeq(f, a + 1, d) = SubSeq(f, lo + 1, d)
  BY <1>4, ConcatAdjacentSubSeq
<1> QED
  BY <1>2, <1>3, <1>5

LEMMA ReadersSteps ==
  ASSUME [Next]_vars
  PROVE  \/ UNCHANGED readVars
         \/ /\ UNCHANGED made
            /\ \E r \in Readers : Open(r) \/ LoadPage(r) \/ ReadChunk(r) \/ Finish(r)
<1>1. ASSUME NEW u \in Uploaders, Upload(u)
      PROVE  UNCHANGED readVars
  BY <1>1, UploadSteps DEF Begin, Intend, PutPart, Outcome, Fail
<1>2. ASSUME NEW w \in Retirers, Retire(w)
      PROVE  UNCHANGED readVars
  BY <1>2, RetireSteps DEF Unlink, Unlinked, Mark, Fenced, Sweep, Swept, GiveUp
<1>3. ASSUME NEW r \in Readers, Read(r)
      PROVE  UNCHANGED made /\ (Open(r) \/ LoadPage(r) \/ ReadChunk(r) \/ Finish(r))
  <2>1. UNCHANGED made
    BY <1>3, ReadersOnlyRead DEF objectVars, storeVars
  <2> QED
    BY <1>3, <2>1 DEF Read
<1> QED
  BY <1>1, <1>2, <1>3 DEF Next, vars

\* Of the readers, only r moves.
OnlyReader(r) ==
    /\ \A q \in Readers \ {r} : /\ rd'[q] = rd[q] /\ root'[q] = root[q] /\ range'[q] = range[q]
                                /\ next'[q] = next[q] /\ got'[q] = got[q]
    /\ DOMAIN rd' = Readers /\ DOMAIN root' = Readers /\ DOMAIN range' = Readers
    /\ DOMAIN next' = Readers /\ DOMAIN got' = Readers

LEMMA ReadsAlone ==
  ASSUME ReadExactInv, made \subseteq made', NEW r \in Readers, OnlyReader(r), ReaderExact(r)'
  PROVE  ReadExactInv'
<1>1. ASSUME NEW q \in Readers, q # r
      PROVE  ReaderExact(q)'
  BY <1>1 DEF OnlyReader, ReadExactInv, ReaderExact, Start
<1> QED
  BY <1>1 DEF OnlyReader, ReadExactInv

LEMMA OpenReads ==
  ASSUME ExactInv, KeyInv, ReadExactInv, NEW r \in Readers, Open(r), UNCHANGED made
  PROVE  ReadExactInv'
<1>0. PICK o \in made : \E g :
        /\ IsRoot(o) /\ g.lo \in 0..Len(o.body.file) /\ g.hi \in 0..Len(o.body.file)
        /\ g.lo < g.hi \/ (g.lo = 0 /\ g.hi = Len(o.body.file))
        /\ root' = [root EXCEPT ![r] = o] /\ range' = [range EXCEPT ![r] = g]
        /\ next' = [next EXCEPT ![r] = g.lo \div ChunkBytes]
        /\ rd' = [rd EXCEPT ![r] = IF o \in store THEN "open" ELSE "failed"]
        /\ got' = got
  <2>1. PICK o \in made : IsRoot(o) /\
          \E g \in [full : {FALSE}, lo : 0..Len(o.body.file), hi : 0..Len(o.body.file)]
                    \cup {[full |-> TRUE, lo |-> 0, hi |-> Len(o.body.file)]} :
             /\ g.full \/ g.lo < g.hi
             /\ root' = [root EXCEPT ![r] = o] /\ range' = [range EXCEPT ![r] = g]
             /\ next' = [next EXCEPT ![r] = g.lo \div ChunkBytes]
             /\ rd' = [rd EXCEPT ![r] = IF o \in store THEN "open" ELSE "failed"]
    BY DEF Open
  <2>2. Len(o.body.file) \in Nat
    BY <2>1, RootKind, LenProperties DEF ExactInv, KeyInv, ExactRoot
  <2>3. got' = got
    BY DEF Open
  <2>4. ASSUME NEW g \in [full : {FALSE}, lo : 0..Len(o.body.file), hi : 0..Len(o.body.file)],
               g.full \/ g.lo < g.hi
        PROVE  g.lo \in 0..Len(o.body.file) /\ g.hi \in 0..Len(o.body.file) /\ g.lo < g.hi
    BY <2>4
  <2>5. ASSUME NEW g, g = [full |-> TRUE, lo |-> 0, hi |-> Len(o.body.file)]
        PROVE  /\ g.lo \in 0..Len(o.body.file) /\ g.hi \in 0..Len(o.body.file)
               /\ g.lo = 0 /\ g.hi = Len(o.body.file)
    BY <2>2, <2>5
  <2> QED
    BY <2>1, <2>3, <2>4, <2>5
<1>1. PICK g :
        /\ IsRoot(o) /\ g.lo \in 0..Len(o.body.file) /\ g.hi \in 0..Len(o.body.file)
        /\ g.lo < g.hi \/ (g.lo = 0 /\ g.hi = Len(o.body.file))
        /\ root' = [root EXCEPT ![r] = o] /\ range' = [range EXCEPT ![r] = g]
        /\ next' = [next EXCEPT ![r] = g.lo \div ChunkBytes]
        /\ rd' = [rd EXCEPT ![r] = IF o \in store THEN "open" ELSE "failed"]
        /\ got' = got
  BY <1>0
<1>2. PICK f, lo, hi : f = o.body.file /\ lo = g.lo /\ hi = g.hi
  OBVIOUS
<1>3. f \in Seq(Bytes) /\ Len(f) \in Nat
  BY <1>1, <1>2, RootKind, LenProperties DEF ExactInv, KeyInv, ExactRoot
<1>4. Asked(f, lo, hi) /\ lo \in Nat
  BY <1>1, <1>2, <1>3 DEF Asked
<1>5. PICK c \in Nat, m \in 0..ChunkBytes - 1 :
        c = lo \div ChunkBytes /\ lo = c * ChunkBytes + m
  <2>1. /\ lo \div ChunkBytes \in Nat /\ lo % ChunkBytes \in 0..ChunkBytes - 1
        /\ lo = (lo \div ChunkBytes) * ChunkBytes + (lo % ChunkBytes)
    BY <1>4, Division, ChunkAssumption
  <2>2. PICK c, m : c = lo \div ChunkBytes /\ m = lo % ChunkBytes
    OBVIOUS
  <2> QED
    BY Zenon, <2>1, <2>2
<1>6. PICK s \in Nat : s = c * ChunkBytes /\ s =< lo /\ lo < s + ChunkBytes
  <2>1. PICK s : s = c * ChunkBytes
    OBVIOUS
  <2>2. s \in Nat /\ ChunkBytes \in Nat
    BY <2>1, ChunkAssumption
  <2>3. lo = s + m
    BY <1>5, <2>1
  <2>4. s =< lo /\ lo < s + ChunkBytes
    BY <2>2, <2>3
  <2> QED
    BY <2>1, <2>2, <2>4
<1>7. rd[r] = "idle" /\ got[r] = <<>>
  BY DEF Open, ReadExactInv, ReaderExact
<1>8. /\ rd'[r] \in {"open", "failed"} /\ root'[r] = o /\ range'[r] = g
      /\ next'[r] = c /\ got'[r] = <<>> /\ Start(r)' = s
  BY <1>1, <1>2, <1>5, <1>6, <1>7 DEF ReadExactInv, Start
<1>9. SubSeq(f, lo + 1, Reached(lo, hi, s)) = <<>>
  <2>1. Reached(lo, hi, s) = lo
    BY <1>6 DEF Reached
  <2>2. lo + 1 \in Int /\ lo \in Int /\ lo < lo + 1
    BY <1>4
  <2> QED
    BY <2>1, <2>2, SubSeqEmpty
<1>10. ReaderExact(r)'
  <2>1. /\ rd'[r] # "idle" /\ rd'[r] # "verified"
        /\ root'[r] \in made' /\ IsRoot(root'[r])
    BY <1>1, <1>8
  <2>2. root'[r].body.file = f /\ range'[r].lo = lo /\ range'[r].hi = hi
    BY <1>2, <1>8
  <2>3. got'[r] = SubSeq(f, lo + 1, Reached(lo, hi, s))
    BY <1>8, <1>9
  <2>4. next'[r] \in Nat /\ Start(r)' = s /\ lo < s + ChunkBytes
    BY <1>6, <1>8
  <2> QED
    BY <1>4, <2>1, <2>2, <2>3, <2>4 DEF ReaderExact
<1>11. OnlyReader(r)
  BY <1>1 DEF ReadExactInv, OnlyReader
<1> QED
  BY <1>10, <1>11, ReadsAlone

LEMMA ReadChunkReads ==
  ASSUME ExactInv, KeyInv, ReadExactInv, NEW r \in Readers, ReadChunk(r), UNCHANGED made,
         Pointer(r) \in store
  PROVE  ReadExactInv'
<1>1. PICK b, f, lo, hi, c, s : /\ b = root[r].body /\ f = b.file
                                /\ lo = range[r].lo /\ hi = range[r].hi
                                /\ c = next[r] /\ s = c * ChunkBytes
  OBVIOUS
<1>2. /\ root[r] \in made /\ IsRoot(root[r]) /\ Asked(f, lo, hi) /\ c \in Nat
      /\ lo < s + ChunkBytes /\ s < hi
      /\ got[r] = SubSeq(f, lo + 1, Reached(lo, hi, s))
  BY <1>1 DEF ReadChunk, ReadExactInv, ReaderExact, Start
<1>3. b.kind = "root" /\ ExactRoot(b)
  BY <1>1, <1>2, RootKind DEF ExactInv, KeyInv
<1>4. f \in Seq(Bytes) /\ Len(f) \in Nat /\ s \in Nat /\ s < Len(f)
      /\ lo \in Nat /\ hi \in Nat /\ ChunkBytes \in Nat \ {0}
  <2>1. f \in Seq(Bytes) /\ Len(f) \in Nat
    BY <1>1, <1>3, LenProperties DEF ExactRoot
  <2>2. s \in Nat /\ ChunkBytes \in Nat \ {0}
    BY <1>1, <1>2, ChunkAssumption
  <2>3. lo \in 0..Len(f) /\ hi \in 0..Len(f)
    BY <1>2 DEF Asked
  <2> QED
    BY <1>2, <2>1, <2>2, <2>3
<1>5. (c + 1) * ChunkBytes = s + ChunkBytes
  BY <1>1, <1>2, <1>4
<1>6. PICK e \in s + 1..Len(f) : e = Edge(f, c + 1)
  BY <1>4, <1>5 DEF Edge
<1>7. e = ChunkEnd(Len(f), s)
  BY <1>5, <1>6 DEF Edge, ChunkEnd
<1>8. Pointer(r).body.bytes = SubSeq(f, s + 1, e)
  <2>1. b.pages[c \div PageEntries + 1].body.chunks[(c % PageEntries) + 1].body
          = Chunk(SubSeq(f, s + 1, e))
    <3>1. c * ChunkBytes < Len(b.file)
      BY <1>1, <1>4
    <3>2. b.pages[c \div PageEntries + 1].body.chunks[(c % PageEntries) + 1].body
            = Chunk(SubSeq(b.file, c * ChunkBytes + 1, Edge(b.file, c + 1)))
      BY SMTT(60), <1>2, <1>3, <3>1, RootChunk
    <3> QED
      BY <1>1, <1>6, <3>2
  <2>2. Pointer(r) = b.pages[c \div PageEntries + 1].body.chunks[(c % PageEntries) + 1]
    BY <1>1 DEF ReadChunk, Pointer, PageOf
  <2>3. PICK v : v = Chunk(SubSeq(f, s + 1, e))
    OBVIOUS
  <2>4. v.bytes = SubSeq(f, s + 1, e)
    BY <2>3 DEF Chunk
  <2>5. Pointer(r).body = v
    BY Zenon, <2>1, <2>2, <2>3
  <2> QED
    BY ZenonT(60), <2>4, <2>5
<1>9. PICK from, to : from = SliceFrom(lo, s) /\ to = SliceTo(Len(f), hi, s)
  OBVIOUS
<1>10. Slice(r, SubSeq(f, s + 1, e)) = SubSeq(SubSeq(f, s + 1, e), from + 1, to)
  <2>1. Len(SubSeq(f, s + 1, e)) = e - s
    <3>1. \A x \in s + 1..e : f[x] \in Bytes
      BY <1>4, <1>6, ElementOfSeq
    <3>2. s + 1 \in Int /\ e \in Int /\ s + 1 <= e
      BY <1>4, <1>6
    <3>3. Len(SubSeq(f, s + 1, e)) = e - (s + 1) + 1
      BY <3>1, <3>2, SubSeqProperties
    <3> QED
      BY <1>4, <3>2, <3>3
  <2>2. from = IF lo > s THEN lo - s ELSE 0
    BY <1>9 DEF SliceFrom
  <2>3. to = IF hi - s < e - s THEN hi - s ELSE e - s
    BY <1>7, <1>9 DEF SliceTo
  <2> QED
    BY <1>1, <2>1, <2>2, <2>3 DEF Slice, Start
<1>11. got[r] \o Slice(r, SubSeq(f, s + 1, e)) = SubSeq(f, lo + 1, Reached(lo, hi, s + ChunkBytes))
  <2>1. lo < hi /\ hi =< Len(f)
    BY <1>2, <1>4 DEF Asked
  <2>2. /\ e \in s + 1..Len(f) /\ from \in Nat /\ to \in 1..e - s /\ from < to
        /\ s + from = Reached(lo, hi, s) /\ lo =< s + from
        /\ s + to = Reached(lo, hi, s + ChunkBytes)
    BY <1>2, <1>4, <1>7, <1>9, <2>1, SliceBounds
  <2>3. SubSeq(f, lo + 1, s + from) \o SubSeq(SubSeq(f, s + 1, e), from + 1, to)
          = SubSeq(f, lo + 1, s + to)
    BY SMTT(60), <1>4, <2>2, SliceReads
  <2>4. got[r] = SubSeq(f, lo + 1, s + from)
    BY <1>2, <2>2
  <2> QED
    BY <1>10, <2>2, <2>3, <2>4
<1>12. /\ got' = [got EXCEPT ![r] = @ \o Slice(r, Pointer(r).body.bytes)]
       /\ next' = [next EXCEPT ![r] = @ + 1]
       /\ UNCHANGED <<rd, root, range>>
  BY DEF ReadChunk
<1>13. OnlyReader(r)
  BY <1>12 DEF OnlyReader, ReadExactInv
<1>14. /\ got'[r] = SubSeq(f, lo + 1, Reached(lo, hi, s + ChunkBytes))
       /\ next'[r] = c + 1 /\ rd'[r] = "open"
  BY <1>1, <1>8, <1>11, <1>12 DEF ReadExactInv, ReadChunk
<1>15. Start(r)' = s + ChunkBytes
  BY <1>5, <1>14 DEF Start
<1>16. c + 1 \in Nat /\ lo < (s + ChunkBytes) + ChunkBytes
  BY <1>2, <1>4
<1>17. ReaderExact(r)'
  BY <1>1, <1>2, <1>12, <1>14, <1>15, <1>16 DEF ReaderExact
<1> QED
  BY <1>13, <1>17, ReadsAlone

LEMMA ReadsStep == ExactInv /\ KeyInv /\ ReadExactInv /\ [Next]_vars => ReadExactInv'
<1> SUFFICES ASSUME ExactInv, KeyInv, ReadExactInv, [Next]_vars
             PROVE  ReadExactInv'
  OBVIOUS
<1>1. made \subseteq made'
  BY ObjectSteps DEF Creates, Removes, storeVars
<1>2. CASE UNCHANGED readVars
  BY <1>1, <1>2 DEF readVars, ReadExactInv, ReaderExact, Start
<1>3. ASSUME NEW r \in Readers, ReadFails(r), rd[r] = "open"
      PROVE  ReadExactInv'
  <2>1. rd' = [rd EXCEPT ![r] = "failed"] /\ UNCHANGED <<root, range, next, got>>
    BY <1>3 DEF ReadFails
  <2>2. OnlyReader(r) /\ rd'[r] = "failed"
    BY <2>1 DEF OnlyReader, ReadExactInv
  <2>3. ReaderExact(r)'
    BY <1>1, <1>3, <2>1, <2>2 DEF ReadExactInv, ReaderExact, Start
  <2> QED
    BY <1>1, <2>2, <2>3, ReadsAlone
<1>4. ASSUME UNCHANGED made, NEW r \in Readers, LoadPage(r)
      PROVE  ReadExactInv'
  <2>1. CASE ReadFails(r)
    BY <1>3, <1>4, <2>1 DEF LoadPage
  <2>2. CASE UNCHANGED <<rd, root, range, next, got>>
    BY <1>1, <2>2 DEF ReadExactInv, ReaderExact, Start
  <2> QED
    BY <1>4, <2>1, <2>2 DEF LoadPage
<1>5. ASSUME UNCHANGED made, NEW r \in Readers, ReadChunk(r)
      PROVE  ReadExactInv'
  <2>1. CASE Pointer(r) \in store
    BY <1>5, <2>1, ReadChunkReads
  <2>2. CASE Pointer(r) \notin store
    BY <1>3, <1>5, <2>2 DEF ReadChunk
  <2> QED
    BY <2>1, <2>2
<1>6. ASSUME UNCHANGED made, NEW r \in Readers, Finish(r)
      PROVE  ReadExactInv'
  <2>1. CASE ReadFails(r)
    BY <1>3, <1>6, <2>1 DEF Finish
  <2>2. CASE rd' = [rd EXCEPT ![r] = "verified"] /\ UNCHANGED <<root, range, next, got>>
    <3>1. OnlyReader(r) /\ rd'[r] = "verified"
      BY <2>2 DEF OnlyReader, ReadExactInv
    <3>2. rd[r] = "open" /\ Start(r) >= range[r].hi
      BY <1>6 DEF Finish
    <3>3. Start(r) \in Int /\ range[r].hi \in Int
      <4>1. next[r] \in Nat /\ Asked(root[r].body.file, range[r].lo, range[r].hi)
        BY <3>2 DEF ReadExactInv, ReaderExact
      <4> QED
        BY <4>1, ChunkAssumption DEF Asked, Start
    <3>4. range'[r].hi =< Start(r)'
      BY <2>2, <3>2, <3>3 DEF Start
    <3>5. ReaderExact(r)'
      BY <1>1, <2>2, <3>1, <3>2, <3>4 DEF ReadExactInv, ReaderExact, Start
    <3> QED
      BY <1>1, <3>1, <3>5, ReadsAlone
  <2> QED
    BY <1>6, <2>1, <2>2 DEF Finish
<1> QED
  BY <1>2, <1>4, <1>5, <1>6, OpenReads, ReadersSteps

LEMMA SubSeqBounds ==
  ASSUME NEW f \in Seq(Bytes), NEW i \in Nat \ {0}, NEW j \in Nat, i =< j + 1, j =< Len(f)
  PROVE  SubSeq(f, i, j) \in Seq(Bytes) /\ Len(SubSeq(f, i, j)) = j + 1 - i
<1>1. \A k \in i..j : f[k] \in Bytes
  BY LenProperties, ElementOfSeq
<1>2. /\ SubSeq(f, i, j) \in Seq(Bytes)
      /\ Len(SubSeq(f, i, j)) = IF i =< j THEN j - i + 1 ELSE 0
  BY <1>1, SubSeqProperties
<1> QED
  BY <1>2

LEMMA AskedIsPrefix ==
  ASSUME NEW f \in Seq(Bytes), NEW lo, NEW hi, Asked(f, lo, hi), NEW p \in lo..hi
  PROVE  IsPrefix(SubSeq(f, lo + 1, p), SubSeq(f, lo + 1, hi))
<1>1. Len(f) \in Nat
  BY LenProperties
<1>2. lo \in Nat /\ hi \in Nat /\ p \in Nat /\ lo =< p /\ p =< hi /\ hi =< Len(f)
  BY <1>1 DEF Asked
<1>3. PICK a, b : a = SubSeq(f, lo + 1, p) /\ b = SubSeq(f, lo + 1, hi)
  OBVIOUS
<1>4. a \in Seq(Bytes) /\ Len(a) = p - lo
  BY <1>1, <1>2, <1>3, SubSeqBounds
<1>5. b \in Seq(Bytes) /\ Len(b) = hi - lo
  BY <1>1, <1>2, <1>3, SubSeqBounds
<1>6. Len(a) =< Len(b)
  BY <1>2, <1>4, <1>5
<1>7. SubSeq(a, 1, Len(a)) = SubSeq(b, 1, Len(a))
  <2>1. CASE p = lo
    <3>1. Len(a) = 0
      BY <1>2, <1>4, <2>1
    <3> QED
      BY <3>1, SubSeqEmpty
  <2>2. CASE lo < p
    <3>1. PICK d : d = p - lo
      OBVIOUS
    <3>2. d \in 1..hi - lo
      BY <1>1, <1>2, <2>2, <3>1
    <3>3. PICK i, m : i = lo + 1 /\ m = 1
      OBVIOUS
    <3>4. SubSeq(b, 1, d) = a
      <4>1. i \in 1..Len(f) /\ hi \in 1..Len(f) /\ m \in 1..hi - i + 1 /\ d \in 1..hi - i + 1
        BY <1>1, <1>2, <3>2, <3>3
      <4>2. SubSeq(SubSeq(f, i, hi), m, d) = SubSeq(f, i + m - 1, i + d - 1)
        BY <4>1, SubSeqOfSubSeq
      <4>3. i + m - 1 = i /\ i + d - 1 = p
        BY <1>2, <3>1, <3>3
      <4> QED
        BY <1>3, <3>3, <4>2, <4>3
    <3>5. SubSeq(a, 1, Len(a)) = a
      BY <1>4, SubSeqFull
    <3> QED
      BY <1>4, <3>1, <3>4, <3>5
  <2> QED
    BY <1>2, <2>1, <2>2
<1>8. IsPrefix(a, b)
  BY <1>6, <1>7 DEF IsPrefix
<1> QED
  BY <1>3, <1>8

LEMMA ReachedWithin ==
  ASSUME NEW f, Len(f) \in Nat, NEW lo, NEW hi, Asked(f, lo, hi), NEW s \in Nat
  PROVE  Reached(lo, hi, s) \in lo..hi /\ (hi =< s => Reached(lo, hi, s) = hi)
BY DEF Asked, Reached

(* A reader returns the bytes of the range it was asked for from the first   *)
(* on, in their order and none twice, however its requests fall on chunks and*)
(* pages and whatever is retired meanwhile, and it only reports the range as *)
(* verified when it has returned all of it.                                  *)
THEOREM ReadersGetTheirRange == Spec => []ReadsAreExact
<1>1. Init => KeyInv
  BY DEF Init, ObjectInit, KeyInv
<1>2. ExactInv /\ KeyInv /\ [Next]_vars => KeyInv'
  BY KeyStep DEF ExactInv
<1>3. Init => ReadExactInv
  BY DEF Init, ReadExactInv, ReaderExact
<1>4. ExactInv /\ KeyInv /\ ReadExactInv => ReadsAreExact
  <2> SUFFICES ASSUME ExactInv, KeyInv, ReadExactInv, NEW r \in Readers, rd[r] # "idle"
               PROVE  /\ IsPrefix(got[r], SubSeq(root[r].body.file, range[r].lo + 1, range[r].hi))
                      /\ rd[r] = "verified" =>
                           got[r] = SubSeq(root[r].body.file, range[r].lo + 1, range[r].hi)
    BY DEF ReadsAreExact
  <2>1. PICK f, lo, hi, s : /\ f = root[r].body.file /\ s = Start(r)
                            /\ lo = range[r].lo /\ hi = range[r].hi
    OBVIOUS
  <2>2. /\ root[r] \in made /\ IsRoot(root[r]) /\ Asked(f, lo, hi) /\ next[r] \in Nat
        /\ got[r] = SubSeq(f, lo + 1, Reached(lo, hi, s)) /\ (rd[r] = "verified" => hi =< s)
    BY <2>1 DEF ReadExactInv, ReaderExact
  <2>3. f \in Seq(Bytes)
    BY <2>1, <2>2, RootKind DEF ExactInv, KeyInv, ExactRoot
  <2>4. s \in Nat
    BY <2>1, <2>2, ChunkAssumption DEF Start
  <2>5. Reached(lo, hi, s) \in lo..hi /\ (hi =< s => Reached(lo, hi, s) = hi)
    BY <2>2, <2>3, <2>4, LenProperties, ReachedWithin
  <2>6. IsPrefix(SubSeq(f, lo + 1, Reached(lo, hi, s)), SubSeq(f, lo + 1, hi))
    BY <2>2, <2>3, <2>5, AskedIsPrefix
  <2>7. IsPrefix(got[r], SubSeq(f, lo + 1, hi))
    BY <2>2, <2>6
  <2>8. rd[r] = "verified" => got[r] = SubSeq(f, lo + 1, hi)
    BY <2>2, <2>5
  <2> QED
    BY <2>1, <2>7, <2>8
<1> QED
  BY <1>1, <1>2, <1>3, <1>4, ReadsStep, ExactHolds, PTL DEF Spec

-----------------------------------------------------------------------------
(* What is left of the type invariant. *)
Bounds ==
    /\ resends \in 0..MaxResends
    /\ request \in [Uploaders -> Requests \cup {NoRequest}]
    /\ \A u \in Uploaders : Len(entries[u]) =< PageEntries
    /\ rd \in [Readers -> {"idle", "open", "verified", "failed"}]

(* An upload touches only its own row; a page is emptied before it overflows. *)
LEMMA UploadBounds ==
  ASSUME ExactInv, ExactInv', Bounds, NEW u \in Uploaders, Upload(u)
  PROVE  /\ request' \in [Uploaders -> Requests \cup {NoRequest}]
         /\ \A v \in Uploaders : Len(entries'[v]) =< PageEntries
<1>1. request' \in [Uploaders -> Requests \cup {NoRequest}]
  BY UploadSteps DEF Bounds, Begin, Intend, PutPart, Outcome, Fail
<1>2. ASSUME NEW v \in Uploaders
      PROVE  Len(entries'[v]) =< PageEntries
  <2>1. CASE up'[v] \in Uploading
    BY <2>1 DEF ExactInv, UploadExact, Collected
  <2>2. CASE entries'[v] = entries[v]
    BY <2>2 DEF Bounds
  <2>3. CASE entries'[v] = <<>>
    BY <2>3, ChunkAssumption
  <2>4. up'[v] \in Uploading \/ entries'[v] = entries[v] \/ entries'[v] = <<>>
    <3>1. CASE Begin(u) \/ Intend(u) \/ PutPart(u)
      BY <3>1 DEF Begin, Intend, PutPart
    <3>2. CASE Outcome(u)
      <4>1. CASE u = v /\ item[u].body.kind = "root"
        BY <3>2, <4>1 DEF Outcome, ExactInv, Shape
      <4>2. CASE u = v /\ item[u].body.kind # "root"
        BY <3>2, <4>2 DEF Outcome, ExactInv, Shape, Uploading
      <4>3. CASE u # v
        BY <3>2, <4>3 DEF Outcome, ExactInv, Shape
      <4> QED
        BY <4>1, <4>2, <4>3
    <3>3. CASE Fail(u)
      BY <3>3 DEF Fail, ExactInv, Shape
    <3> QED
      BY <3>1, <3>2, <3>3, UploadSteps
  <2> QED
    BY <2>1, <2>2, <2>3, <2>4
<1> QED
  BY <1>1, <1>2

LEMMA BoundsStep ==
  ASSUME ExactInv, ExactInv', Bounds, [Next]_vars
  PROVE  Bounds'
<1>1. resends' \in 0..MaxResends
  <2>1. CASE UNCHANGED resends
    BY <2>1 DEF Bounds
  <2>2. ASSUME NEW m \in wire, Resend(m)
        PROVE  resends' \in 0..MaxResends
    BY <2>2, StoreAssumption DEF Bounds, Resend
  <2>3. ASSUME NEW u \in Uploaders, Upload(u)
        PROVE  UNCHANGED resends
    BY <2>3, UploadSteps DEF Begin, Intend, PutPart, Outcome, Fail, StartPut, Drop, objectVars, netVars
  <2>4. ASSUME NEW w \in Retirers, Retire(w)
        PROVE  UNCHANGED resends
    BY <2>4, RetireSteps DEF Unlink, Unlinked, Mark, Fenced, Sweep, Swept, GiveUp, StartPut,
       StartDelete, Drop, netVars
  <2>5. CASE Storage
    BY <2>1, <2>2, <2>5
    DEF Storage, ArrivePut, ArriveDelete, Readback, Look, LookAgain, netVars
  <2> QED
    BY <2>1, <2>3, <2>4, <2>5, NextSteps DEF objectVars, netVars
<1>2. /\ request' \in [Uploaders -> Requests \cup {NoRequest}]
      /\ \A u \in Uploaders : Len(entries'[u]) =< PageEntries
  <2>1. CASE UNCHANGED uploadVars
    BY <2>1 DEF Bounds, uploadVars
  <2>2. ASSUME NEW w \in Retirers, Retire(w)
        PROVE  UNCHANGED uploadVars
    BY <2>2, RetireSteps DEF Unlink, Unlinked, Mark, Fenced, Sweep, Swept, GiveUp
  <2> QED
    BY <2>1, <2>2, UploadBounds, NextSteps
<1>3. rd' \in [Readers -> {"idle", "open", "verified", "failed"}]
  <2>1. CASE UNCHANGED rd
    BY <2>1 DEF Bounds
  <2>2. ASSUME NEW r \in Readers, Read(r)
        PROVE  rd' \in [Readers -> {"idle", "open", "verified", "failed"}]
    BY <2>2 DEF Bounds, Read, Open, LoadPage, ReadChunk, Finish, ReadFails
  <2>3. ASSUME NEW u \in Uploaders, Upload(u)
        PROVE  UNCHANGED rd
    BY <2>3, UploadSteps DEF Begin, Intend, PutPart, Outcome, Fail, readVars
  <2>4. ASSUME NEW w \in Retirers, Retire(w)
        PROVE  UNCHANGED rd
    BY <2>4, RetireSteps DEF Unlink, Unlinked, Mark, Fenced, Sweep, Swept, GiveUp, readVars
  <2> QED
    BY <2>1, <2>2, <2>3, <2>4 DEF Next, vars, readVars
<1> QED
  BY <1>1, <1>2, <1>3 DEF Bounds

(* The whole of what the streams promise: the types, with at most one object *)
(* under a key, receipts that stand for their files, readers that return     *)
(* their range.                                                              *)
THEOREM StreamsStayExact == Spec => []StreamsAreExact
<1>1. Init => StoreInv
  BY FS_EmptySet DEF Init, ObjectInit, StoreInv
<1>2. Init => Bounds
  BY StoreAssumption, ChunkAssumption DEF Init, ObjectInit, Bounds
<1>3. ExactInv /\ StoreInv /\ Bounds => ChunkTypeOK
  BY DEF ExactInv, Shape, UpStates, RetStates, StoreInv, Bounds, ChunkTypeOK
<1>4. ExactInv /\ ExactInv' /\ Bounds /\ [Next]_vars => Bounds'
  BY BoundsStep
<1>5. ReceiptsAreExact /\ ReadsAreExact /\ ChunkTypeOK => StreamsAreExact
  BY DEF StreamsAreExact
<1>6. Spec => []ChunkTypeOK
  BY <1>1, <1>2, <1>3, <1>4, StoreStep, ExactHolds, PTL DEF Spec
<1> QED
  BY <1>5, <1>6, ReceiptsStandForTheirFiles, ReadersGetTheirRange, PTL

-----------------------------------------------------------------------------
(* Sequences of sequences, one after the other. *)
LEMMA Smallest ==
  ASSUME NEW D, D \subseteq Nat, D # {}
  PROVE  \E n \in D : \A m \in D : ~ m < n
<1>1. PICK n \in D : \A m \in D : <<m, n>> \notin OpToRel(<, Nat)
  BY WFMin, NatLessThanWellFounded, Zenon
<1> SUFFICES ASSUME NEW m \in D, m < n PROVE FALSE
  OBVIOUS
<1>2. <<m, n>> \in Nat \X Nat
  OBVIOUS
<1> QED
  BY <1>1, <1>2, Zenon DEF OpToRel

(* The first n of them. *)
FlattenedTo(g, s, n) == \A i \in 1..n : g[i] = IF i = 1 THEN s[i] ELSE g[i - 1] \o s[i]

LEMMA FlattensThere ==
  ASSUME NEW S, NEW s \in Seq(Seq(S))
  PROVE  \E g : Flattens(g, s) /\ \A i \in 1..Len(s) : g[i] \in Seq(S)
<1>1. PICK l \in Nat : l = Len(s)
  BY LenProperties
<1>2. \A i \in 1..l : s[i] \in Seq(S)
  BY <1>1, ElementOfSeq
<1>3. PICK D : D = {n \in 0..l : ~\E g : g \in [1..n -> Seq(S)] /\ FlattenedTo(g, s, n)}
  OBVIOUS
<1>4. D = {}
  <2> SUFFICES ASSUME D # {} PROVE FALSE
    OBVIOUS
  <2>1. D \subseteq Nat
    BY <1>3
  <2>2. PICK n \in D : \A m \in D : ~ m < n
    BY <2>1, Smallest
  <2>3. n \in 0..l /\ ~\E g : g \in [1..n -> Seq(S)] /\ FlattenedTo(g, s, n)
    BY <1>3
  <2>4. CASE n = 0
    <3>1. PICK g : g = [i \in 1..0 |-> <<>>]
      OBVIOUS
    <3>2. g \in [1..n -> Seq(S)] /\ FlattenedTo(g, s, n)
      BY <2>4, <3>1 DEF FlattenedTo
    <3> QED
      BY <2>3, <3>2
  <2>5. CASE n # 0
    <3>1. n - 1 \in 0..l /\ n - 1 < n
      BY <2>3, <2>5
    <3>2. PICK g : g \in [1..n - 1 -> Seq(S)] /\ FlattenedTo(g, s, n - 1)
      BY <1>3, <2>2, <3>1
    <3>3. PICK x : x = IF n = 1 THEN s[n] ELSE g[n - 1] \o s[n]
      OBVIOUS
    <3>4. x \in Seq(S)
      <4>1. s[n] \in Seq(S)
        BY <1>2, <2>3, <2>5
      <4>2. CASE n = 1
        BY <3>3, <4>1, <4>2
      <4>3. CASE n # 1
        <5>1. g[n - 1] \in Seq(S)
          BY <2>3, <2>5, <3>2, <4>3
        <5> QED
          BY <3>3, <4>1, <4>3, <5>1, ConcatProperties
      <4> QED
        BY <4>2, <4>3
    <3>5. PICK h : h = [i \in 1..n |-> IF i = n THEN x ELSE g[i]]
      OBVIOUS
    <3>6. h \in [1..n -> Seq(S)]
      BY <2>3, <3>2, <3>4, <3>5
    <3>7. FlattenedTo(h, s, n)
      <4> SUFFICES ASSUME NEW i \in 1..n
                   PROVE  h[i] = IF i = 1 THEN s[i] ELSE h[i - 1] \o s[i]
        BY DEF FlattenedTo
      <4>1. CASE i = n
        BY <2>3, <3>3, <3>5, <4>1
      <4>2. CASE i # n
        <5>1. i \in 1..n - 1 /\ h[i] = g[i]
          BY <2>3, <3>5, <4>2
        <5>2. g[i] = IF i = 1 THEN s[i] ELSE g[i - 1] \o s[i]
          BY <3>2, <5>1 DEF FlattenedTo
        <5>3. i # 1 => h[i - 1] = g[i - 1]
          BY <2>3, <3>5, <5>1
        <5> QED
          BY <5>1, <5>2, <5>3
      <4> QED
        BY <4>1, <4>2
    <3> QED
      BY <2>3, <3>6, <3>7
  <2> QED
    BY <2>4, <2>5
<1>5. PICK g : g \in [1..l -> Seq(S)] /\ FlattenedTo(g, s, l)
  <2>1. l \in 0..l
    OBVIOUS
  <2>2. \E g : g \in [1..l -> Seq(S)] /\ FlattenedTo(g, s, l)
    BY <1>3, <1>4, <2>1, Zenon
  <2> QED
    BY <2>2, Zenon
<1>6. g = [i \in 1..l |-> g[i]]
  BY <1>5
<1>7. Flattens(g, s)
  BY <1>1, <1>5, <1>6 DEF Flattens, FlattenedTo
<1> QED
  BY <1>1, <1>5, <1>7

LEMMA FlattenAppend ==
  ASSUME NEW S, NEW s \in Seq(Seq(S)), NEW x \in Seq(S)
  PROVE  /\ FlattenSeq(s) \in Seq(S)
         /\ FlattenSeq(Append(s, x)) = FlattenSeq(s) \o x
<1>1. PICK n \in Nat : n = Len(s)
  BY LenProperties
<1>2. PICK t : t = Append(s, x)
  OBVIOUS
<1>3. t \in Seq(Seq(S)) /\ Len(t) = n + 1 /\ t[n + 1] = x /\ \A i \in 1..n : t[i] = s[i]
  BY <1>1, <1>2, AppendProperties
<1>4. PICK g : Flattens(g, t) /\ \A i \in 1..Len(t) : g[i] \in Seq(S)
  BY <1>3, FlattensThere
<1>5. FlattenSeq(t) = g[n + 1]
  BY <1>3, <1>4, FlattenReads
<1>6. \A i \in 1..n + 1 : g[i] = IF i = 1 THEN t[i] ELSE g[i - 1] \o t[i]
  BY <1>3, <1>4 DEF Flattens
<1>7. CASE n = 0
  <2>1. s = <<>> /\ FlattenSeq(s) = <<>>
    BY <1>1, <1>7, EmptySeq DEF FlattenSeq
  <2>2. g[n + 1] = x
    BY <1>3, <1>6, <1>7
  <2>3. <<>> \o x = x /\ <<>> \in Seq(S)
    BY ConcatEmptySeq
  <2> QED
    BY <1>2, <1>5, <2>1, <2>2, <2>3
<1>8. CASE n # 0
  <2>1. PICK h : h = [i \in 1..n |-> g[i]]
    OBVIOUS
  <2>2. \A i \in 1..n : h[i] = IF i = 1 THEN s[i] ELSE h[i - 1] \o s[i]
    <3> SUFFICES ASSUME NEW i \in 1..n
                 PROVE  h[i] = IF i = 1 THEN s[i] ELSE h[i - 1] \o s[i]
      OBVIOUS
    <3>1. h[i] = g[i] /\ (i # 1 => h[i - 1] = g[i - 1]) /\ t[i] = s[i] /\ i \in 1..n + 1
      BY <1>3, <2>1
    <3> QED
      BY <1>6, <3>1
  <2>3. h = [i \in 1..n |-> h[i]]
    BY <2>1
  <2>4. Flattens(h, s)
    BY <1>1, <2>2, <2>3 DEF Flattens
  <2>5. FlattenSeq(s) = g[n]
    BY <1>1, <1>8, <2>1, <2>4, FlattenReads
  <2>6. g[n + 1] = g[n] \o x
    <3>1. n + 1 \in 1..n + 1 /\ n + 1 # 1 /\ (n + 1) - 1 = n
      BY <1>8
    <3>2. g[n + 1] = g[(n + 1) - 1] \o t[n + 1]
      BY <1>6, <3>1
    <3> QED
      BY <1>3, <3>1, <3>2
  <2>7. g[n] \in Seq(S)
    <3>1. n \in 1..Len(t)
      BY <1>3, <1>8
    <3> QED
      BY <1>4, <3>1
  <2> QED
    BY <1>2, <1>5, <2>5, <2>6, <2>7
<1> QED
  BY <1>7, <1>8

LEMMA PrefixGrows ==
  ASSUME NEW S, NEW s \in Seq(S), NEW n \in 1..Len(s)
  PROVE  /\ SubSeq(s, 1, n - 1) \in Seq(S) /\ s[n] \in S
         /\ SubSeq(s, 1, n) = Append(SubSeq(s, 1, n - 1), s[n])
<1>1. Len(s) \in Nat
  BY LenProperties
<1>2. \A i \in 1..Len(s) : s[i] \in S
  BY ElementOfSeq
<1>3. SubSeq(s, 1, n) = SubSeq(s, 1, n - 1) \o <<s[n]>>
  BY <1>1, SubSeqRecursiveSecond
<1>4. SubSeq(s, 1, n - 1) \in Seq(S)
  BY <1>1, <1>2, SubSeqProperties
<1> QED
  BY <1>2, <1>3, <1>4, AppendIsConcat

LEMMA FlattenSplit ==
  ASSUME NEW S, NEW s \in Seq(Seq(S)), NEW k \in 0..Len(s)
  PROVE  /\ SubSeq(s, 1, k) \in Seq(Seq(S))
         /\ \E t \in Seq(S) : FlattenSeq(s) = FlattenSeq(SubSeq(s, 1, k)) \o t
<1>1. PICK l \in Nat : l = Len(s)
  BY LenProperties
<1>2. \A n \in 0..l : SubSeq(s, 1, n) \in Seq(Seq(S))
  <2>1. \A i \in 1..l : s[i] \in Seq(S)
    BY <1>1, ElementOfSeq
  <2> QED
    BY <2>1, SubSeqProperties
<1>3. \A n \in 0..l : FlattenSeq(SubSeq(s, 1, n)) \in Seq(S)
  <2>1. <<>> \in Seq(S)
    OBVIOUS
  <2> QED
    BY <1>2, <2>1, FlattenAppend
<1>4. PICK P : P = FlattenSeq(SubSeq(s, 1, k))
  OBVIOUS
<1>5. P \in Seq(S)
  BY <1>1, <1>3, <1>4
<1>6. PICK D : D = {n \in k..l : ~\E t \in Seq(S) : FlattenSeq(SubSeq(s, 1, n)) = P \o t}
  OBVIOUS
<1>7. D = {}
  <2> SUFFICES ASSUME D # {} PROVE FALSE
    OBVIOUS
  <2>1. D \subseteq Nat
    BY <1>1, <1>6
  <2>2. PICK n \in D : \A m \in D : ~ m < n
    BY <2>1, Smallest
  <2>3. n \in k..l /\ ~\E t \in Seq(S) : FlattenSeq(SubSeq(s, 1, n)) = P \o t
    BY <1>6
  <2>4. CASE n = k
    <3>1. P \o <<>> = P /\ <<>> \in Seq(S)
      BY <1>5, ConcatEmptySeq
    <3> QED
      BY <1>4, <2>3, <2>4, <3>1
  <2>5. CASE n # k
    <3>1. n - 1 \in k..l /\ n - 1 < n /\ n \in 1..l /\ n - 1 \in 0..l
      BY <1>1, <2>3, <2>5
    <3>2. PICK t \in Seq(S) : FlattenSeq(SubSeq(s, 1, n - 1)) = P \o t
      BY <1>6, <2>2, <3>1
    <3>3. SubSeq(s, 1, n) = Append(SubSeq(s, 1, n - 1), s[n]) /\ s[n] \in Seq(S)
      BY <1>1, <3>1, PrefixGrows
    <3>4. FlattenSeq(SubSeq(s, 1, n)) = (P \o t) \o s[n]
      BY <1>2, <3>1, <3>2, <3>3, FlattenAppend
    <3>5. (P \o t) \o s[n] = P \o (t \o s[n])
      <4>1. PICK y : y = s[n]
        OBVIOUS
      <4>2. y \in Seq(S)
        BY <3>3, <4>1
      <4>3. (P \o t) \o y = P \o (t \o y)
        <5>1. P \in Seq(S) /\ t \in Seq(S) /\ y \in Seq(S)
          BY <1>5, <4>2
        <5> QED
          BY <5>1, ConcatAssociative
      <4> QED
        BY <4>1, <4>3
    <3>6. t \o s[n] \in Seq(S)
      BY <3>3, ConcatProperties, Zenon
    <3>7. FlattenSeq(SubSeq(s, 1, n)) = P \o (t \o s[n])
      BY <3>4, <3>5, Zenon
    <3> QED
      BY <2>3, <3>7, <3>6, Zenon
  <2> QED
    BY <2>4, <2>5
<1>8. \E t \in Seq(S) : FlattenSeq(SubSeq(s, 1, l)) = P \o t
  BY <1>1, <1>6, <1>7
<1>9. SubSeq(s, 1, l) = s
  BY <1>1, SubSeqFull
<1> QED
  BY <1>1, <1>2, <1>4, <1>8, <1>9

-----------------------------------------------------------------------------
(* A framed connection.  What the peer sends, and how far it has been read.  *)
StreamTypes ==
  /\ decoder \in Decoders /\ frames \in Seq(FramesOf(decoder))
  /\ \E m \in 0..Len(FlattenSeq(frames)) : stream = SubSeq(FlattenSeq(frames), 1, m)
  /\ taken \in 0..Len(stream)
  /\ buffer \in Seq(Nat) /\ chunks \in Seq(Nat) /\ returned \in Seq(Seq(Nat))
Rejoined == FlattenSeq(returned) \o buffer = SubSeq(stream, 1, taken)
ReadsInv ==
  /\ StreamTypes
  /\ Len(buffer) =< MaxFrameBytes
  /\ chunks = <<>> => /\ Len(returned) =< Len(frames)
                      /\ returned = SubSeq(frames, 1, Len(returned)) /\ Rejoined

(* What was written is the frames that are whole and a part of the last one; *)
(* as soon as a write is given up the direction stays busy.                  *)
WritesInv ==
  /\ writes \in [whole : Seq(Seq(Nat)), last : Seq(Nat)]
  /\ pending \in Seq(Nat) /\ out \in Seq(Nat)
  /\ out \o pending = FlattenSeq(writes.whole) \o writes.last
  /\ Len(pending) =< Len(writes.last)
  /\ ~writeBusy => pending = <<>> /\ writes.last = <<>>
  /\ operation = "writeFrame" => writeBusy

(* The permits of the listener. *)
ListenerInv ==
  /\ MaxConnections \in Nat /\ permits \in Nat /\ held \in BOOLEAN
  /\ others \in [accepting : Nat, live : Nat]
  /\ permits + others.accepting + others.live + (IF held THEN 1 ELSE 0) =< MaxConnections

TransportInv == ReadsInv /\ WritesInv /\ ListenerInv

-----------------------------------------------------------------------------
(* A codec that is given the beginning of a frame finds its end, or waits.   *)
LEMMA FindsTheFrame ==
  ASSUME NEW d, NEW f \in Seq(Nat), IsFrame(d, f), NEW b \in Seq(Nat),
         \A i \in 1..Len(b) : i =< Len(f) => b[i] = f[i],
         NEW found, found = FrameLen(d, b), found.tag = "frame", found.n \in 1..Len(b)
  PROVE  found.n = Len(f)
<1>1. PICK x \in Nat, y \in Nat : x = Len(b) /\ y = Len(f)
  BY LenProperties
<1>2. found # Configuration /\ found # NotYet
  BY DEF Configuration, NotYet
<1>6. \A i \in 1..x : i =< y => b[i] = f[i]
  BY <1>1
<1>3. CASE d.kind = "fixed"
  <2>1. found = FrameOf(d.size)
    BY <1>2, <1>3 DEF FrameLen, FixedLen
  <2> QED
    BY <1>3, <2>1 DEF FrameOf, IsFrame
<1>4. CASE d.kind = "delimited"
  <2>1. DOMAIN f = 1..y /\ DOMAIN b = 1..x
    BY <1>1, LenProperties
  <2>2. y # 0 /\ \A i \in 1..y : f[i] = d.delimiter <=> i = y
    BY <1>1, <1>4, <2>1, EmptySeq DEF IsFrame
  <2>3. /\ d.delimiter \in Range(b)
        /\ found = FrameOf(CHOOSE i \in DOMAIN b :
                       b[i] = d.delimiter /\ d.delimiter \notin Range(SubSeq(b, 1, i - 1)))
    BY <1>2, <1>4 DEF FrameLen, DelimitedLen
  <2>4. \A i \in 1..x : Range(SubSeq(b, 1, i - 1)) = {b[j] : j \in 1..i - 1}
    <3> SUFFICES ASSUME NEW i \in 1..x
                 PROVE  Range(SubSeq(b, 1, i - 1)) = {b[j] : j \in 1..i - 1}
      OBVIOUS
    <3>1. \A j \in 1..i - 1 : b[j] \in Nat
      BY <1>1, ElementOfSeq
    <3>2. PICK p : p = SubSeq(b, 1, i - 1)
      OBVIOUS
    <3>3. p \in Seq(Nat) /\ Len(p) = i - 1 /\ \A j \in 1..i - 1 : p[j] = b[j]
      BY <3>1, <3>2, SubSeqProperties
    <3>4. Range(p) = {p[j] : j \in 1..i - 1}
      BY <3>3, LenProperties DEF Range
    <3> QED
      BY <3>2, <3>3, <3>4
  <2>5. PICK j \in 1..x : b[j] = d.delimiter
    BY <2>1, <2>3 DEF Range
  <2>6. ~(j < y)
    <3>1. ASSUME j < y PROVE FALSE
      <4>1. j \in 1..y /\ j # y /\ j =< y
        BY <3>1
      <4>2. b[j] = f[j]
        BY <1>6, <4>1
      <4> QED
        BY <2>2, <2>5, <4>1, <4>2
    <3> QED
      BY <3>1
  <2>7. y \in 1..x /\ b[y] = d.delimiter
    <3>1. y \in 1..x /\ y \in 1..y
      BY <2>2, <2>6
    <3>2. b[y] = f[y]
      BY <1>6, <3>1
    <3> QED
      BY <2>2, <3>1, <3>2
  <2>8. \A i \in 1..y - 1 : b[i] # d.delimiter
    <3> SUFFICES ASSUME NEW i \in 1..y - 1 PROVE b[i] # d.delimiter
      OBVIOUS
    <3>1. i \in 1..x /\ i =< y /\ i \in 1..y /\ i # y
      BY <2>7
    <3>2. b[i] = f[i]
      BY <1>6, <3>1
    <3> QED
      BY <2>2, <3>1, <3>2
  <2>9. d.delimiter \notin Range(SubSeq(b, 1, y - 1))
    <3>1. Range(SubSeq(b, 1, y - 1)) = {b[i] : i \in 1..y - 1}
      BY <2>4, <2>7
    <3> QED
      BY <2>8, <3>1
  <2>10. PICK n : n = CHOOSE i \in DOMAIN b :
             b[i] = d.delimiter /\ d.delimiter \notin Range(SubSeq(b, 1, i - 1))
    OBVIOUS
  <2>11. n \in 1..x /\ b[n] = d.delimiter /\ d.delimiter \notin Range(SubSeq(b, 1, n - 1))
    BY <2>1, <2>7, <2>9, <2>10
  <2>12. ~(n < y)
    <3>1. ASSUME n < y PROVE FALSE
      <4>1. n \in 1..y - 1
        BY <2>11, <3>1
      <4> QED
        BY <2>8, <2>11, <4>1
    <3> QED
      BY <3>1
  <2>13. ~(y < n)
    <3>1. ASSUME y < n PROVE FALSE
      <4>1. y \in 1..n - 1
        BY <2>7, <2>11, <3>1
      <4> QED
        BY <2>4, <2>7, <2>11, <4>1
    <3> QED
      BY <3>1
  <2> QED
    BY <1>1, <2>3, <2>10, <2>11, <2>12, <2>13 DEF FrameOf
<1>5. CASE d.kind \notin {"fixed", "delimited"}
  <2>1. /\ d.offset \in Nat /\ d.width \in Nat /\ d.header \in Nat
        /\ d.header =< y /\ Announced(d, f) = y
    BY <1>1, <1>5 DEF IsFrame
  <2>2. found = PrefixedLen(d, b)
    BY <1>5 DEF FrameLen
  <2>3. PICK z : z = Announced(d, b)
    OBVIOUS
  <2>4. PrefixedLen(d, b) =
          IF d.width \notin {1, 2, 4, 8} \/ d.header = 0 \/ d.header > MaxFrameBytes \/ d.offset + d.width > d.header
          THEN Configuration
          ELSE IF x < d.header THEN NotYet
          ELSE IF z < d.header \/ z > MaxFrameBytes THEN Configuration
          ELSE IF x >= z THEN FrameOf(z) ELSE NotYet
    BY <1>1, <2>3 DEF PrefixedLen
  <2>5. ~(d.offset + d.width > d.header) /\ ~(x < d.header) /\ found = FrameOf(z)
    <3>1. found = PrefixedLen(d, b) /\ found # Configuration /\ found # NotYet
      BY <1>2, <2>2
    <3>2. ~(d.width \notin {1, 2, 4, 8} \/ d.header = 0 \/ d.header > MaxFrameBytes \/ d.offset + d.width > d.header)
      BY <2>4, <3>1, Zenon
    <3>3. ~(x < d.header)
      BY <2>4, <3>1, <3>2, Zenon
    <3>4. ~(z < d.header \/ z > MaxFrameBytes) /\ x >= z
      BY <2>4, <3>1, <3>2, <3>3, Zenon
    <3>5. PrefixedLen(d, b) = FrameOf(z)
      BY <2>4, <3>2, <3>3, <3>4, Zenon
    <3>6. ~(d.offset + d.width > d.header)
      BY <3>2
    <3> QED
      BY <3>1, <3>3, <3>5, <3>6
  <2>6. PICK u : u = d.offset + 1
    OBVIOUS
  <2>12. PICK v : v = d.offset + d.width
    OBVIOUS
  <2>7. u \in Nat /\ v \in Nat /\ 1 =< u /\ v =< x /\ v =< y
    <3>1. PICK o : o = d.offset
      OBVIOUS
    <3>2. PICK w : w = d.width
      OBVIOUS
    <3>3. PICK h : h = d.header
      OBVIOUS
    <3>4. o \in Nat /\ w \in Nat /\ h \in Nat /\ h =< y
      BY <2>1, <3>1, <3>2, <3>3, Zenon
    <3>5. ~(o + w > h) /\ ~(x < h)
      BY <2>5, <3>1, <3>2, <3>3, Zenon
    <3>6. u = o + 1 /\ v = o + w
      BY <2>6, <2>12, <3>1, <3>2, Zenon
    <3> QED
      BY <3>4, <3>5, <3>6
  <2>8. \A i \in u..v : b[i] = f[i] /\ b[i] \in Nat
    <3> SUFFICES ASSUME NEW i \in u..v PROVE b[i] = f[i] /\ b[i] \in Nat
      OBVIOUS
    <3>1. i \in 1..x /\ i =< y
      BY <2>7
    <3> QED
      BY <1>1, <1>6, <3>1, ElementOfSeq
  <2>9. SubSeq(b, u, v) = SubSeq(f, u, v)
    <3>1. PICK p : p = SubSeq(b, u, v)
      OBVIOUS
    <3>8. PICK q : q = SubSeq(f, u, v)
      OBVIOUS
    <3>2. PICK l : l = IF u <= v THEN v - u + 1 ELSE 0
      OBVIOUS
    <3>3. /\ p \in Seq(Nat) /\ Len(p) = l
          /\ \A i \in 1..v - u + 1 : p[i] = b[u + i - 1]
      BY <2>7, <2>8, <3>1, <3>2, SubSeqProperties
    <3>4. \A i \in u..v : f[i] \in Nat
      BY <2>8
    <3>5. /\ q \in Seq(Nat) /\ Len(q) = l
          /\ \A i \in 1..v - u + 1 : q[i] = f[u + i - 1]
      BY <2>7, <3>8, <3>2, <3>4, SubSeqProperties
    <3>6. \A i \in 1..l : i \in 1..v - u + 1 /\ u + i - 1 \in u..v
      BY <2>7, <3>2
    <3>7. \A i \in 1..l : p[i] = q[i]
      BY <2>8, <3>3, <3>5, <3>6
    <3> QED
      BY <3>1, <3>3, <3>5, <3>7, <3>8, SeqEqual
  <2>10. Announced(d, b) = Announced(d, f)
    BY <2>6, <2>9, <2>12 DEF Announced
  <2>11. z = y
    BY <2>1, <2>3, <2>10
  <2> QED
    BY <1>1, <2>5, <2>11 DEF FrameOf
<1> QED
  BY <1>3, <1>4, <1>5

(* A part of a part that starts at the beginning. *)
LEMMA BeginningOf ==
  ASSUME NEW S, NEW F \in Seq(S), NEW m \in 0..Len(F)
  PROVE  /\ SubSeq(F, 1, m) \in Seq(S) /\ Len(SubSeq(F, 1, m)) = m
         /\ \A i \in 1..m : SubSeq(F, 1, m)[i] = F[i]
<1>1. Len(F) \in Nat
  BY LenProperties
<1>2. m \in Nat /\ \A i \in 1..m : F[i] \in S
  <2>1. m \in Nat /\ \A i \in 1..m : i \in 1..Len(F)
    BY <1>1
  <2> QED
    BY <2>1, ElementOfSeq
<1>3. PICK p : p = SubSeq(F, 1, m)
  OBVIOUS
<1>4. /\ p \in Seq(S) /\ Len(p) = IF 1 <= m THEN m - 1 + 1 ELSE 0
      /\ \A i \in 1..m - 1 + 1 : p[i] = F[1 + i - 1]
  BY <1>2, <1>3, SubSeqProperties
<1>5. \A i \in 1..m : p[i] = F[i]
  BY <1>2, <1>4
<1>6. Len(p) = m
  BY <1>2, <1>4
<1> QED
  BY <1>3, <1>4, <1>5, <1>6

(* What is buffered is what follows the frames that were returned. *)
FollowsIn(s, n, b) == \A i \in 1..Len(b) : b[i] = s[n + i]
LEMMA BufferFollows ==
  ASSUME NEW s, NEW t, NEW P, NEW b,
         s \in Seq(Nat), t \in 0..Len(s), P \in Seq(Nat), b \in Seq(Nat),
         P \o b = SubSeq(s, 1, t)
  PROVE  /\ Len(P) + Len(b) = t /\ t \in Nat /\ t =< Len(s)
         /\ FollowsIn(s, Len(P), b)
<1>1. PICK x \in Nat, y \in Nat, z \in Nat : x = Len(P) /\ y = Len(b) /\ z = Len(s)
  BY LenProperties
<1>2. PICK q : q = SubSeq(s, 1, t)
  OBVIOUS
<1>3. Len(q) = t /\ \A i \in 1..t : q[i] = s[i]
  BY <1>2, BeginningOf
<1>4. /\ Len(q) = x + y
      /\ \A i \in 1..x + y : q[i] = IF i <= x THEN P[i] ELSE b[i - x]
  BY <1>1, <1>2, ConcatProperties
<1>5. t = x + y /\ t =< z /\ t \in Nat
  BY <1>1, <1>3, <1>4
<1>6. \A i \in 1..y : b[i] = s[x + i]
  <2> SUFFICES ASSUME NEW i \in 1..y PROVE b[i] = s[x + i]
    OBVIOUS
  <2>1. x + i \in 1..t /\ x + i \in 1..x + y /\ ~(x + i <= x) /\ x + i - x = i
    BY <1>5
  <2>2. q[x + i] = b[x + i - x]
    BY <1>4, <2>1
  <2>3. q[x + i] = s[x + i]
    BY <1>3, <2>1
  <2> QED
    BY <2>1, <2>2, <2>3
<1> QED
  BY <1>1, <1>5, <1>6 DEF FollowsIn

LEMMA FramesAreBytes ==
  ASSUME TransportAssumption, StreamTypes
  PROVE  /\ frames \in Seq(Seq(Nat)) /\ FlattenSeq(frames) \in Seq(Nat)
         /\ Len(frames) \in Nat
         /\ \A i \in 1..Len(frames) : frames[i] \in Seq(Nat) /\ IsFrame(decoder, frames[i])
<1>1. PICK l \in Nat : l = Len(frames)
  BY LenProperties DEF StreamTypes
<1>2. \A i \in 1..l : frames[i] \in FramesOf(decoder)
  BY <1>1, ElementOfSeq DEF StreamTypes
<1>3. \A i \in 1..l : frames[i] \in Seq(Nat) /\ IsFrame(decoder, frames[i])
  BY <1>2 DEF TransportAssumption, StreamTypes
<1>4. frames = [i \in 1..l |-> frames[i]]
  BY <1>1, LenProperties DEF StreamTypes
<1>5. frames \in Seq(Seq(Nat))
  <2>1. frames \in [1..l -> Seq(Nat)]
    BY <1>3, <1>4
  <2> QED
    BY <1>1, <2>1, SeqDef
<1>6. FlattenSeq(frames) \in Seq(Nat)
  BY <1>5, FlattenAppend, EmptySeq
<1> QED
  BY <1>1, <1>3, <1>5, <1>6

(* A frame that is taken off the buffer is the next one the peer sent. *)
LEMMA NextFrame ==
  ASSUME TransportAssumption, ReadsInv, chunks = <<>>, NEW found,
         found = FrameLen(decoder, buffer), found.tag = "frame", found.n \in 1..Len(buffer)
  PROVE  /\ Len(returned) \in Nat /\ Len(returned) + 1 =< Len(frames)
         /\ SubSeq(buffer, 1, found.n) = frames[Len(returned) + 1]
<1>1. PICK k \in Nat, l \in Nat, y \in Nat : k = Len(returned) /\ l = Len(frames) /\ y = Len(buffer)
  BY LenProperties DEF ReadsInv, StreamTypes
<1>2. /\ frames \in Seq(Seq(Nat)) /\ FlattenSeq(frames) \in Seq(Nat)
      /\ \A i \in 1..l : frames[i] \in Seq(Nat) /\ IsFrame(decoder, frames[i])
  BY <1>1, FramesAreBytes DEF ReadsInv
<1>3. k =< l /\ returned = SubSeq(frames, 1, k) /\ Rejoined
  BY <1>1 DEF ReadsInv
<1>4. buffer \in Seq(Nat) /\ returned \in Seq(Seq(Nat)) /\ taken \in 0..Len(stream)
  BY DEF ReadsInv, StreamTypes
<1>5. PICK F : F = FlattenSeq(frames)
  OBVIOUS
<1>6. PICK P : P = FlattenSeq(returned)
  OBVIOUS
<1>7. P \in Seq(Nat) /\ F \in Seq(Nat)
  <2>1. <<>> \in Seq(Nat)
    OBVIOUS
  <2> QED
    BY <1>2, <1>4, <1>5, <1>6, <2>1, FlattenAppend
<1>8. PICK m \in 0..Len(F) : stream = SubSeq(F, 1, m)
  BY <1>5 DEF ReadsInv, StreamTypes
<1>9. P \o buffer = SubSeq(stream, 1, taken)
  BY <1>3, <1>6 DEF Rejoined
<1>10. PICK x \in Nat, z \in Nat : x = Len(P) /\ z = Len(F)
  BY <1>7, LenProperties
<1>11. x + y =< z /\ \A i \in 1..y : buffer[i] = F[x + i]
  <2>1. stream \in Seq(Nat) /\ Len(stream) = m /\ \A i \in 1..m : stream[i] = F[i]
    BY <1>7, <1>8, BeginningOf
  <2>2. /\ Len(P) + Len(buffer) = taken /\ taken \in Nat /\ taken =< Len(stream)
        /\ \A i \in 1..Len(buffer) : buffer[i] = stream[Len(P) + i]
    <3>1. /\ Len(P) + Len(buffer) = taken /\ taken \in Nat /\ taken =< Len(stream)
          /\ FollowsIn(stream, Len(P), buffer)
      BY <1>4, <1>7, <1>9, <2>1, BufferFollows
    <3> QED
      BY <3>1 DEF FollowsIn
  <2>3. m =< z /\ m \in Nat
    BY <1>10
  <2>4. x + y =< m
    BY <1>1, <1>10, <2>1, <2>2
  <2>5. \A i \in 1..y : x + i \in 1..m /\ buffer[i] = stream[x + i]
    BY <1>1, <1>10, <2>2, <2>3, <2>4
  <2> QED
    BY <2>1, <2>3, <2>4, <2>5
<1>12. k + 1 =< l
  <2>1. ASSUME k = l PROVE FALSE
    <3>1. returned = frames
      BY <1>1, <1>2, <1>3, <2>1, SubSeqFull
    <3>2. x = z
      BY <1>5, <1>6, <1>10, <3>1
    <3>3. found.n \in 1..y
      BY <1>1
    <3> QED
      BY <1>11, <3>2, <3>3
  <2> QED
    BY <1>3, <2>1
<1>13. PICK f : f = frames[k + 1]
  OBVIOUS
<1>14. f \in Seq(Nat) /\ IsFrame(decoder, f) /\ k + 1 \in 1..l
  BY <1>2, <1>12, <1>13
<1>15. PICK t \in Seq(Nat) : F = (P \o f) \o t
  <2>1. \E t \in Seq(Nat) : F = FlattenSeq(SubSeq(frames, 1, k + 1)) \o t
    <3>1. k + 1 \in 0..Len(frames)
      BY <1>1, <1>12
    <3> QED
      BY <1>2, <1>5, <3>1, FlattenSplit
  <2>2. SubSeq(frames, 1, k + 1) = Append(SubSeq(frames, 1, k + 1 - 1), frames[k + 1])
    BY <1>1, <1>2, <1>14, PrefixGrows
  <2>3. SubSeq(frames, 1, k + 1) = Append(returned, f)
    BY <1>3, <1>13, <2>2
  <2>4. FlattenSeq(Append(returned, f)) = P \o f
    BY <1>4, <1>6, <1>14, FlattenAppend
  <2> QED
    BY <2>1, <2>3, <2>4
<1>16. PICK w \in Nat : w = Len(f)
  BY <1>14, LenProperties
<1>17. \A i \in 1..y : i =< w => buffer[i] = f[i]
  <2> SUFFICES ASSUME NEW i \in 1..y, i =< w PROVE buffer[i] = f[i]
    OBVIOUS
  <2>1. PICK g : g = P \o f
    OBVIOUS
  <2>2. /\ g \in Seq(Nat) /\ Len(g) = x + w
        /\ \A j \in 1..x + w : g[j] = IF j <= x THEN P[j] ELSE f[j - x]
    BY <1>7, <1>10, <1>14, <1>16, <2>1, ConcatProperties
  <2>3. \A j \in 1..(x + w) + Len(t) : F[j] = IF j <= x + w THEN g[j] ELSE t[j - (x + w)]
    <3>1. F = g \o t
      BY <1>15, <2>1
    <3>2. \A j \in 1..Len(g) + Len(t) : (g \o t)[j] = IF j <= Len(g) THEN g[j] ELSE t[j - Len(g)]
      BY <2>2, ConcatProperties
    <3> QED
      BY <2>2, <3>1, <3>2
  <2>4. x + i \in 1..x + w /\ x + i \in 1..(x + w) + Len(t) /\ x + i <= x + w
    BY <1>16, LenProperties
  <2>5. F[x + i] = g[x + i]
    BY <2>3, <2>4
  <2>6. ~(x + i <= x) /\ x + i - x = i
    OBVIOUS
  <2>7. g[x + i] = f[i]
    BY <2>2, <2>4, <2>6
  <2> QED
    BY <1>11, <2>5, <2>7
<1>18. found.n = w
  <2>1. \A i \in 1..Len(buffer) : i =< Len(f) => buffer[i] = f[i]
    BY <1>1, <1>16, <1>17
  <2> QED
    BY <1>4, <1>14, <1>16, <2>1, FindsTheFrame
<1>19. w \in 1..y
  BY <1>1, <1>18
<1>20. SubSeq(buffer, 1, w) = f
  <2>1. PICK b : b = SubSeq(buffer, 1, w)
    OBVIOUS
  <2>4. w \in 0..Len(buffer) /\ \A i \in 1..w : i \in 1..y /\ i =< w
    BY <1>1, <1>19
  <2>2. b \in Seq(Nat) /\ Len(b) = w /\ \A i \in 1..w : b[i] = buffer[i]
    BY <1>4, <2>1, <2>4, BeginningOf
  <2>3. \A i \in 1..w : b[i] = f[i]
    BY <1>17, <2>2, <2>4
  <2> QED
    BY <1>14, <1>16, <2>1, <2>2, <2>3, SeqEqual
<1> QED
  BY <1>1, <1>12, <1>13, <1>18, <1>20

-----------------------------------------------------------------------------
(* A read of the stream: the next bytes of it. *)
LEMMA ReadsOn ==
  ASSUME NEW s \in Seq(Nat), NEW t \in 0..Len(s), NEW k \in Nat, t + k =< Len(s)
  PROVE  /\ t + k \in 0..Len(s)
         /\ SubSeq(s, t + 1, t + k) \in Seq(Nat) /\ Len(SubSeq(s, t + 1, t + k)) = k
         /\ SubSeq(s, 1, t) \in Seq(Nat)
         /\ SubSeq(s, 1, t) \o SubSeq(s, t + 1, t + k) = SubSeq(s, 1, t + k)
<1>1. PICK l \in Nat : l = Len(s)
  BY LenProperties
<1>2. /\ t \in Nat /\ t + k \in 0..l /\ 1 \in 1..l + 1 /\ t \in 1 - 1..l /\ t + k \in t..l
  BY <1>1
<1>3. SubSeq(s, 1, t) \o SubSeq(s, t + 1, t + k) = SubSeq(s, 1, t + k)
  BY <1>1, <1>2, ConcatAdjacentSubSeq
<1>4. SubSeq(s, 1, t) \in Seq(Nat)
  BY BeginningOf
<1>5. \A i \in t + 1..t + k : s[i] \in Nat
  <2>1. \A i \in t + 1..t + k : i \in 1..Len(s)
    BY <1>1, <1>2
  <2> QED
    BY <2>1, ElementOfSeq
<1>6. PICK u \in Int, v \in Int : u = t + 1 /\ v = t + k
  BY <1>2
<1>7. /\ SubSeq(s, u, v) \in Seq(Nat)
      /\ Len(SubSeq(s, u, v)) = IF u <= v THEN v - u + 1 ELSE 0
  BY <1>5, <1>6, SubSeqProperties
<1>8. (IF u <= v THEN v - u + 1 ELSE 0) = k
  BY <1>2, <1>6
<1> QED
  BY <1>1, <1>2, <1>3, <1>4, <1>6, <1>7, <1>8

(* Every buffered byte is accounted for when the stream is read ... *)
LEMMA ReadsMore ==
  ASSUME TransportAssumption, StreamTypes, NEW k \in Nat, taken + k =< Len(stream)
  PROVE  /\ taken + k \in 0..Len(stream) /\ SubSeq(stream, taken + 1, taken + k) \in Seq(Nat)
         /\ Len(SubSeq(stream, taken + 1, taken + k)) = k
         /\ Rejoined => FlattenSeq(returned) \o (buffer \o SubSeq(stream, taken + 1, taken + k))
                           = SubSeq(stream, 1, taken + k)
<1>1. stream \in Seq(Nat)
  <2>1. FlattenSeq(frames) \in Seq(Nat)
    BY FramesAreBytes
  <2>2. PICK m \in 0..Len(FlattenSeq(frames)) : stream = SubSeq(FlattenSeq(frames), 1, m)
    BY DEF StreamTypes
  <2> QED
    BY <2>1, <2>2, BeginningOf
<1>2. FlattenSeq(returned) \in Seq(Nat)
  <2>1. returned \in Seq(Seq(Nat)) /\ <<>> \in Seq(Nat)
    BY DEF StreamTypes
  <2> QED
    BY <2>1, FlattenAppend
<1>3. taken \in 0..Len(stream) /\ buffer \in Seq(Nat)
  BY DEF StreamTypes
<1>4. PICK q : q = SubSeq(stream, taken + 1, taken + k)
  OBVIOUS
<1>5. /\ taken + k \in 0..Len(stream) /\ q \in Seq(Nat) /\ Len(q) = k
      /\ SubSeq(stream, 1, taken) \o q = SubSeq(stream, 1, taken + k)
  BY <1>1, <1>3, <1>4, ReadsOn
<1>6. ASSUME Rejoined
      PROVE  FlattenSeq(returned) \o (buffer \o q) = SubSeq(stream, 1, taken + k)
  <2>1. PICK P : P = FlattenSeq(returned)
    OBVIOUS
  <2>2. P \o buffer = SubSeq(stream, 1, taken)
    BY <1>6, <2>1 DEF Rejoined
  <2>3. (P \o buffer) \o q = P \o (buffer \o q)
    <3>1. PICK b : b = buffer
      OBVIOUS
    <3>2. P \in Seq(Nat) /\ b \in Seq(Nat) /\ q \in Seq(Nat)
      BY <1>2, <1>3, <1>5, <2>1, <3>1
    <3>3. (P \o b) \o q = P \o (b \o q)
      BY <3>2, ConcatAssociative
    <3> QED
      BY <3>1, <3>3
  <2> QED
    BY <1>5, <2>1, <2>2, <2>3
<1> QED
  BY <1>4, <1>5, <1>6

LEMMA ReadFrameStepKeeps ==
  ASSUME TransportAssumption, ReadsInv, ReadFrameStep
  PROVE  ReadsInv'
<1>1. PICK found : found = FrameLen(decoder, buffer)
  OBVIOUS
<1>2. StreamTypes /\ MaxFrameBytes \in Nat
  BY DEF ReadsInv, TransportAssumption
<1>3. PICK y \in Nat, k \in Nat, l \in Nat : y = Len(buffer) /\ k = Len(returned) /\ l = Len(frames)
  BY LenProperties DEF ReadsInv, StreamTypes
<1>4. CASE /\ found.tag = "frame" /\ found.n \in 1..Len(buffer)
           /\ returned' = Append(returned, SubSeq(buffer, 1, found.n))
           /\ buffer' = SubSeq(buffer, found.n + 1, Len(buffer))
           /\ UNCHANGED <<decoder, frames, stream, taken, chunks>>
  <2>1. PICK n \in Nat : n = found.n /\ n \in 1..y
    BY <1>3, <1>4
  <2>2. PICK f : f = SubSeq(buffer, 1, n)
    OBVIOUS
  <2>3. buffer \in Seq(Nat) /\ returned \in Seq(Seq(Nat))
    BY <1>2 DEF StreamTypes
  <2>4. /\ f \in Seq(Nat) /\ buffer' \in Seq(Nat) /\ Len(buffer') = y - n
        /\ f \o buffer' = buffer
    <3>1. n \in 0..Len(buffer) /\ y - n \in Nat /\ n + (y - n) = y /\ n + (y - n) =< Len(buffer)
      BY <1>3, <2>1
    <3>2. PICK w \in Nat : w = y - n
      BY <3>1
    <3>3. /\ SubSeq(buffer, n + 1, n + w) \in Seq(Nat) /\ Len(SubSeq(buffer, n + 1, n + w)) = w
          /\ SubSeq(buffer, 1, n) \in Seq(Nat)
          /\ SubSeq(buffer, 1, n) \o SubSeq(buffer, n + 1, n + w) = SubSeq(buffer, 1, n + w)
      BY <2>3, <3>1, <3>2, ReadsOn
    <3>4. n + w = Len(buffer) /\ buffer' = SubSeq(buffer, n + 1, n + w)
      BY <1>3, <1>4, <2>1, <3>1, <3>2
    <3>5. SubSeq(buffer, 1, Len(buffer)) = buffer
      BY <2>3, SubSeqFull
    <3> QED
      BY <2>2, <3>2, <3>3, <3>4, <3>5
  <2>5. returned' = Append(returned, f) /\ returned' \in Seq(Seq(Nat)) /\ Len(returned') = k + 1
    <3>1. returned' = Append(returned, f)
      BY <1>4, <2>1, <2>2
    <3> QED
      BY <1>3, <2>3, <2>4, <3>1, AppendProperties
  <2>6. StreamTypes'
    BY <1>2, <1>4, <2>4, <2>5 DEF StreamTypes
  <2>7. Len(buffer)' =< MaxFrameBytes
    <3>1. y =< MaxFrameBytes
      BY <1>3 DEF ReadsInv
    <3> QED
      BY <1>2, <1>3, <2>1, <2>4, <3>1
  <2>8. ASSUME chunks = <<>>
        PROVE  /\ Len(returned)' =< Len(frames)' /\ Rejoined'
               /\ returned' = SubSeq(frames', 1, Len(returned'))
    <3>1. k + 1 =< l /\ f = frames[k + 1]
      BY <1>1, <1>3, <1>4, <2>1, <2>2, <2>8, NextFrame
    <3>2. SubSeq(frames, 1, k + 1) = Append(SubSeq(frames, 1, k + 1 - 1), frames[k + 1])
      <4>1. frames \in Seq(Seq(Nat)) /\ k + 1 \in 1..Len(frames)
        BY <1>2, <1>3, <3>1, FramesAreBytes
      <4> QED
        BY <4>1, PrefixGrows
    <3>3. returned = SubSeq(frames, 1, k) /\ Rejoined
      BY <1>3, <2>8 DEF ReadsInv
    <3>4. returned' = SubSeq(frames, 1, k + 1)
      BY <2>5, <3>1, <3>2, <3>3
    <3>5. PICK P : P = FlattenSeq(returned)
      OBVIOUS
    <3>6. P \in Seq(Nat) /\ FlattenSeq(returned') = P \o f
      BY <2>3, <2>4, <2>5, <3>5, FlattenAppend
    <3>7. PICK c : c = buffer'
      OBVIOUS
    <3>8. (P \o f) \o c = P \o (f \o c)
      <4>1. P \in Seq(Nat) /\ f \in Seq(Nat) /\ c \in Seq(Nat)
        BY <2>4, <3>6, <3>7
      <4> QED
        BY <4>1, ConcatAssociative
    <3>9. FlattenSeq(returned') \o buffer' = P \o buffer
      BY <2>4, <3>6, <3>7, <3>8
    <3>10. Rejoined'
      BY <1>4, <3>3, <3>5, <3>9 DEF Rejoined
    <3> QED
      BY <1>3, <1>4, <2>5, <3>1, <3>4, <3>10
  <2> QED
    BY <1>4, <2>6, <2>7, <2>8 DEF ReadsInv
<1>5. CASE /\ Len(buffer) < MaxFrameBytes
           /\ \E j \in 1..ReadBytes :
                 /\ ReadMore(MaxFrameBytes - Len(buffer), j)
                 /\ buffer' = buffer \o SubSeq(stream, taken + 1, taken + j)
           /\ UNCHANGED <<decoder, frames, stream, returned, chunks>>
  <2>1. PICK j \in 1..ReadBytes :
                 /\ ReadMore(MaxFrameBytes - Len(buffer), j)
                 /\ buffer' = buffer \o SubSeq(stream, taken + 1, taken + j)
    BY <1>5
  <2>2. /\ j \in Nat /\ y + j =< MaxFrameBytes /\ taken + j =< Len(stream) /\ taken' = taken + j
    BY <1>2, <1>3, <2>1 DEF ReadMore
  <2>3. PICK q : q = SubSeq(stream, taken + 1, taken + j)
    OBVIOUS
  <2>4. /\ taken + j \in 0..Len(stream) /\ q \in Seq(Nat) /\ Len(q) = j
        /\ Rejoined => FlattenSeq(returned) \o (buffer \o q) = SubSeq(stream, 1, taken + j)
    BY <1>2, <2>2, <2>3, ReadsMore
  <2>5. buffer' = buffer \o q
    BY <2>1, <2>3
  <2>6. buffer' \in Seq(Nat) /\ Len(buffer') = y + j
    <3>1. buffer \in Seq(Nat)
      BY <1>2 DEF StreamTypes
    <3> QED
      BY <1>3, <2>4, <2>5, <3>1, ConcatProperties
  <2>7. StreamTypes'
    BY <1>2, <1>5, <2>2, <2>4, <2>6 DEF StreamTypes
  <2>8. ASSUME chunks = <<>> PROVE Rejoined'
    <3>1. Rejoined
      BY <2>8 DEF ReadsInv
    <3> QED
      BY <1>5, <2>2, <2>4, <2>5, <3>1 DEF Rejoined
  <2>9. ASSUME chunks = <<>>
        PROVE  Len(returned)' =< Len(frames)' /\ returned' = SubSeq(frames', 1, Len(returned'))
    BY <1>5, <2>9 DEF ReadsInv
  <2>10. Len(buffer)' =< MaxFrameBytes
    BY <2>2, <2>6
  <2> QED
    BY <1>5, <2>7, <2>8, <2>9, <2>10 DEF ReadsInv
<1>6. CASE UNCHANGED streamVars
  BY <1>6 DEF ReadsInv, StreamTypes, Rejoined, streamVars
<1> QED
  BY <1>1, <1>4, <1>5, <1>6 DEF ReadFrameStep

LEMMA ChunksKeep ==
  ASSUME TransportAssumption, ReadsInv, StartReadChunk \/ ReadChunkDone
  PROVE  ReadsInv'
<1>1. StreamTypes /\ MaxFrameBytes \in Nat
  BY DEF ReadsInv, TransportAssumption
<1>2. buffer \in Seq(Nat) /\ chunks \in Seq(Nat)
  BY <1>1 DEF StreamTypes
<1>3. PICK y \in Nat, c \in Nat : y = Len(buffer) /\ c = Len(chunks)
  BY <1>2, LenProperties
<1>4. CASE UNCHANGED streamVars
  BY <1>4 DEF ReadsInv, StreamTypes, Rejoined, streamVars
<1>5. CASE /\ buffer # <<>> /\ chunks' = chunks \o buffer /\ buffer' = <<>>
           /\ UNCHANGED <<decoder, frames, stream, taken, returned>>
  <2>1. y # 0
    BY <1>2, <1>3, <1>5, EmptySeq
  <2>2. chunks' \in Seq(Nat) /\ Len(chunks') = c + y
    BY <1>2, <1>3, <1>5, ConcatProperties
  <2>3. chunks' # <<>>
    BY <1>3, <2>1, <2>2
  <2>4. buffer' \in Seq(Nat) /\ Len(buffer)' = 0
    BY <1>5
  <2>5. StreamTypes'
    BY <1>1, <1>5, <2>2, <2>4 DEF StreamTypes
  <2> QED
    BY <1>1, <2>3, <2>4, <2>5 DEF ReadsInv
<1>6. CASE /\ \E k \in 1..ReadBytes : ReadMore(MaxFrameBytes, k)
           /\ chunks' = chunks \o SubSeq(stream, taken + 1, taken')
           /\ UNCHANGED <<decoder, frames, stream, buffer, returned>>
  <2>1. PICK k \in 1..ReadBytes : ReadMore(MaxFrameBytes, k)
    BY <1>6
  <2>2. k \in Nat /\ k # 0 /\ taken + k =< Len(stream) /\ taken' = taken + k
    BY <2>1 DEF ReadMore
  <2>3. PICK q : q = SubSeq(stream, taken + 1, taken + k)
    OBVIOUS
  <2>4. taken + k \in 0..Len(stream) /\ q \in Seq(Nat) /\ Len(q) = k
    BY <1>1, <2>2, <2>3, ReadsMore
  <2>5. chunks' = chunks \o q
    BY <1>6, <2>2, <2>3
  <2>6. chunks' \in Seq(Nat) /\ Len(chunks') = c + k
    BY <1>2, <1>3, <2>4, <2>5, ConcatProperties
  <2>7. chunks' # <<>>
    BY <1>3, <2>2, <2>6
  <2>8. StreamTypes'
    BY <1>1, <1>6, <2>2, <2>4, <2>6 DEF StreamTypes
  <2> QED
    BY <1>6, <2>7, <2>8 DEF ReadsInv
<1> QED
  BY <1>4, <1>5, <1>6 DEF StartReadChunk, ReadChunkDone, streamVars

-----------------------------------------------------------------------------
(* What is written. *)
LEMMA WholeIsBytes ==
  ASSUME WritesInv
  PROVE  /\ writes.whole \in Seq(Seq(Nat)) /\ writes.last \in Seq(Nat)
         /\ FlattenSeq(writes.whole) \in Seq(Nat)
<1>1. writes.whole \in Seq(Seq(Nat)) /\ writes.last \in Seq(Nat) /\ <<>> \in Seq(Nat)
  BY DEF WritesInv
<1> QED
  BY <1>1, FlattenAppend

LEMMA StartWriteFrameKeeps ==
  ASSUME TransportAssumption, WritesInv, NEW frame \in Outgoing, StartWriteFrame(frame)
  PROVE  WritesInv'
<1>1. frame \in Seq(Nat)
  BY DEF TransportAssumption
<1>2. /\ pending = <<>> /\ writes.last = <<>> /\ writeBusy' = TRUE
      /\ pending' = frame /\ out' = out /\ writes' = [writes EXCEPT !.last = frame]
  BY DEF WritesInv, StartWriteFrame, StartOperation, AtRest
<1>3. PICK W : W = FlattenSeq(writes.whole)
  OBVIOUS
<1>4. out \in Seq(Nat) /\ W \in Seq(Nat)
  BY <1>3, WholeIsBytes DEF WritesInv
<1>5. out \o <<>> = out /\ W \o <<>> = W
  BY <1>4, ConcatEmptySeq
<1>6. out = W
  <2>1. out \o <<>> = W \o <<>>
    BY <1>2, <1>3 DEF WritesInv
  <2> QED
    BY <1>5, <2>1
<1>7. writes \in [whole : Seq(Seq(Nat)), last : Seq(Nat)]
  BY DEF WritesInv
<1>8. /\ writes' \in [whole : Seq(Seq(Nat)), last : Seq(Nat)]
      /\ writes'.whole = writes.whole /\ writes'.last = frame
  BY <1>1, <1>2, <1>7
<1>9. out' \o pending' = FlattenSeq(writes'.whole) \o writes'.last
  BY <1>2, <1>3, <1>6, <1>8
<1>10. Len(pending') =< Len(writes'.last)
  <2>1. Len(frame) \in Nat
    BY <1>1, LenProperties
  <2> QED
    BY <1>2, <1>8, <2>1
<1> QED
  BY <1>1, <1>2, <1>4, <1>8, <1>9, <1>10 DEF WritesInv

LEMMA WriteStepKeeps ==
  ASSUME WritesInv, WriteStep
  PROVE  WritesInv'
<1>1. PICK p : p = pending
  OBVIOUS
<1>2. p \in Seq(Nat) /\ out \in Seq(Nat) /\ p # <<>>
  BY <1>1 DEF WritesInv, WriteStep
<1>3. /\ Head(p) \in Nat /\ Tail(p) \in Seq(Nat) /\ Len(p) \in Nat /\ Len(Tail(p)) = Len(p) - 1
      /\ p = <<Head(p)>> \o Tail(p)
  <2>1. Head(p) \in Nat /\ Tail(p) \in Seq(Nat) /\ Len(Tail(p)) = Len(p) - 1
    BY <1>2, HeadTailProperties
  <2>2. Len(p) \in Nat
    BY <1>2, LenProperties
  <2>3. p = <<Head(p)>> \o Tail(p)
    BY <1>2
  <2> QED
    BY <2>1, <2>2, <2>3
<1>4. PICK h, q : h = Head(p) /\ q = Tail(p)
  OBVIOUS
<1>5. out' = Append(out, h) /\ pending' = q /\ UNCHANGED <<writeBusy, operation, writes>>
  BY <1>1, <1>4 DEF WriteStep
<1>6. out' \in Seq(Nat) /\ out' = out \o <<h>>
  <2>1. h \in Nat
    BY <1>3, <1>4
  <2> QED
    BY <1>2, <1>5, <2>1, AppendProperties, AppendIsConcat
<1>7. out' \o pending' = out \o pending
  <2>1. out \in Seq(Nat) /\ <<h>> \in Seq(Nat) /\ q \in Seq(Nat)
    BY <1>2, <1>3, <1>4
  <2>2. (out \o <<h>>) \o q = out \o (<<h>> \o q)
    BY <2>1, ConcatAssociative
  <2> QED
    BY <1>1, <1>3, <1>4, <1>5, <1>6, <2>2
<1>8. Len(pending') =< Len(writes.last)
  <2>1. Len(writes.last) \in Nat
    BY WholeIsBytes, LenProperties
  <2>2. Len(p) =< Len(writes.last)
    BY <1>1 DEF WritesInv
  <2> QED
    BY <1>3, <1>4, <1>5, <2>1, <2>2
<1>9. /\ writes \in [whole : Seq(Seq(Nat)), last : Seq(Nat)]
      /\ out \o pending = FlattenSeq(writes.whole) \o writes.last
      /\ writeBusy
  BY DEF WritesInv, WriteStep
<1>10. pending' \in Seq(Nat)
  BY <1>3, <1>4, <1>5
<1> QED
  BY <1>5, <1>6, <1>7, <1>8, <1>9, <1>10 DEF WritesInv

LEMMA WriteDoneKeeps ==
  ASSUME WritesInv, WriteDone
  PROVE  WritesInv'
<1>1. /\ pending = <<>> /\ pending' = <<>> /\ out' = out /\ writeBusy' = FALSE /\ operation' = "none"
      /\ writes' = [whole |-> Append(writes.whole, writes.last), last |-> <<>>]
  BY DEF WritesInv, WriteDone
<1>2. PICK s : s = writes.whole
  OBVIOUS
<1>3. PICK f : f = writes.last
  OBVIOUS
<1>4. s \in Seq(Seq(Nat)) /\ f \in Seq(Nat) /\ FlattenSeq(s) \in Seq(Nat) /\ out \in Seq(Nat)
  BY <1>2, <1>3, WholeIsBytes DEF WritesInv
<1>5. /\ writes'.whole = Append(s, f) /\ writes'.last = <<>>
      /\ writes' \in [whole : Seq(Seq(Nat)), last : Seq(Nat)]
  BY <1>1, <1>2, <1>3, <1>4, AppendProperties
<1>6. FlattenSeq(Append(s, f)) = FlattenSeq(s) \o f
  BY <1>4, FlattenAppend
<1>7. out = FlattenSeq(s) \o f
  <2>1. out \o <<>> = FlattenSeq(s) \o f
    BY <1>1, <1>2, <1>3 DEF WritesInv
  <2> QED
    BY <1>4, <2>1, ConcatEmptySeq
<1>8. out' \o pending' = FlattenSeq(writes'.whole) \o writes'.last
  BY <1>1, <1>5, <1>6, <1>7
<1> QED
  BY <1>1, <1>4, <1>5, <1>8 DEF WritesInv

LEMMA ListenerKeeps ==
  ASSUME ListenerInv,
         \/ DropConnection \/ ListenerStep
         \/ \E succeeds \in BOOLEAN : Upgrade(succeeds) \/ Accepted(succeeds)
  PROVE  ListenerInv'
<1>1. CASE Dropped /\ others' = others
  <2>1. PICK a, b : a = others.accepting /\ b = others.live
    OBVIOUS
  <2>2. /\ MaxConnections \in Nat /\ permits \in Nat /\ held \in BOOLEAN /\ a \in Nat /\ b \in Nat
        /\ others \in [accepting : Nat, live : Nat]
        /\ permits + a + b + (IF held THEN 1 ELSE 0) =< MaxConnections
    BY <2>1 DEF ListenerInv
  <2>3. held' = FALSE /\ permits' = (IF held THEN permits + 1 ELSE permits)
    BY <1>1 DEF Dropped
  <2>4. permits' \in Nat /\ permits' + a + b + (IF held' THEN 1 ELSE 0) =< MaxConnections
    BY <2>2, <2>3
  <2> QED
    BY <1>1, <2>1, <2>2, <2>3, <2>4 DEF ListenerInv
<1>2. CASE UNCHANGED <<held, permits, others>>
  BY <1>2 DEF ListenerInv
<1>3. CASE ListenerStep
  BY <1>3 DEF ListenerInv, ListenerStep, OthersAccept, OthersDrop, OthersAccepted
<1> QED
  BY <1>1, <1>2, <1>3 DEF DropConnection, Upgrade, Accepted

-----------------------------------------------------------------------------
LEMMA TransportStarts ==
  ASSUME TransportAssumption, TransportInit
  PROVE  TransportInv
<1>1. PICK n \in 0..MaxSent : frames \in [1..n -> FramesOf(decoder)]
  BY DEF TransportInit
<1>2. n \in Nat /\ decoder \in Decoders
  BY DEF TransportInit, TransportAssumption
<1>3. frames \in Seq(FramesOf(decoder)) /\ frames \in Seq(Seq(Nat))
  <2>1. \A i \in 1..n : frames[i] \in Seq(Nat)
    BY <1>1, <1>2 DEF TransportAssumption
  <2>2. frames \in [1..n -> Seq(Nat)]
    BY <1>1, <2>1
  <2> QED
    BY <1>1, <1>2, <2>2, SeqDef
<1>4. PICK F : F = FlattenSeq(frames)
  OBVIOUS
<1>5. F \in Seq(Nat)
  <2>1. <<>> \in Seq(Nat)
    OBVIOUS
  <2> QED
    BY <1>3, <1>4, <2>1, FlattenAppend
<1>6. PICK z \in Nat : z = Len(F)
  BY <1>5, LenProperties
<1>7. \E m \in 0..z : stream = SubSeq(F, 1, m)
  <2>1. PICK cut \in {0, 1} : stream = SubSeq(F, 1, z - cut)
    BY <1>4, <1>6 DEF TransportInit
  <2>2. CASE z - cut \in 0..z
    BY <2>1, <2>2
  <2>3. CASE z - cut \notin 0..z
    <3>1. z - cut < 1 /\ z - cut \in Int /\ 0 \in 0..z
      BY <2>3
    <3>2. SubSeq(F, 1, z - cut) = <<>> /\ SubSeq(F, 1, 0) = <<>>
      BY <3>1, SubSeqEmpty
    <3> QED
      BY <2>1, <3>1, <3>2
  <2> QED
    BY <2>2, <2>3
<1>8. stream \in Seq(Nat) /\ Len(stream) \in Nat
  <2>1. stream \in Seq(Nat)
    BY <1>5, <1>6, <1>7, BeginningOf
  <2> QED
    BY <2>1, LenProperties
<1>9. /\ taken = 0 /\ buffer = <<>> /\ returned = <<>> /\ chunks = <<>>
      /\ writeBusy = FALSE /\ operation = "none" /\ pending = <<>> /\ out = <<>>
      /\ writes = [whole |-> <<>>, last |-> <<>>]
      /\ ValidConnections(MaxConnections) /\ others = [accepting |-> 0, live |-> 0]
      /\ \/ held = FALSE /\ permits = 0
         \/ held = TRUE /\ permits = MaxConnections - 1
  BY DEF TransportInit
<1>10. StreamTypes
  <2>1. /\ <<>> \in Seq(Nat) /\ <<>> \in Seq(Seq(Nat)) /\ 0 \in 0..Len(stream)
    BY <1>8
  <2> QED
    BY <1>2, <1>3, <1>4, <1>6, <1>7, <1>9, <2>1 DEF StreamTypes
<1>11. FlattenSeq(<<>>) = <<>> /\ <<>> \o <<>> = <<>>
  BY DEF FlattenSeq
<1>12. ReadsInv
  <2>1. Rejoined
    <3>1. SubSeq(stream, 1, 0) = <<>>
      BY SubSeqEmpty
    <3> QED
      BY <1>9, <1>11, <3>1 DEF Rejoined
  <2>2. SubSeq(frames, 1, 0) = <<>> /\ Len(<<>>) = 0 /\ Len(frames) \in Nat
    BY <1>3, SubSeqEmpty, LenProperties
  <2> QED
    BY <1>9, <1>10, <2>1, <2>2 DEF ReadsInv, TransportAssumption
<1>13. WritesInv
  BY <1>9, <1>11 DEF WritesInv
<1>14. ListenerInv
  <2>1. MaxConnections \in Nat /\ MaxConnections # 0 /\ others = [accepting |-> 0, live |-> 0]
    BY <1>9 DEF ValidConnections
  <2>2. \/ held = FALSE /\ permits = 0
        \/ held = TRUE /\ permits = MaxConnections - 1
    BY <1>9
  <2>3. permits \in Nat /\ held \in BOOLEAN /\ permits + 0 + 0 + (IF held THEN 1 ELSE 0) =< MaxConnections
    <3>1. CASE held = FALSE /\ permits = 0
      <4>1. (IF held THEN 1 ELSE 0) = 0 /\ held \in BOOLEAN
        BY <3>1, Zenon
      <4> QED
        BY <2>1, <3>1, <4>1
    <3>2. CASE held = TRUE /\ permits = MaxConnections - 1
      BY <2>1, <3>2
    <3> QED
      BY <2>2, <3>1, <3>2
  <2> QED
    BY <2>1, <2>3 DEF ListenerInv
<1> QED
  BY <1>12, <1>13, <1>14 DEF TransportInv

LEMMA TransportKeeps ==
  ASSUME TransportAssumption, TransportInv, [TransportNext]_transportVars
  PROVE  TransportInv'
<1>1. ReadsInv /\ WritesInv /\ ListenerInv
  BY DEF TransportInv
<1>2. ASSUME UNCHANGED streamVars PROVE ReadsInv'
  BY <1>1, <1>2 DEF ReadsInv, StreamTypes, Rejoined, streamVars
<1>3. ASSUME UNCHANGED outVars, UNCHANGED writeBusy, operation' = operation \/ operation' # "writeFrame"
      PROVE  WritesInv'
  BY <1>1, <1>3 DEF WritesInv, outVars
<1>4. ASSUME UNCHANGED listenerVars PROVE ListenerInv'
  BY <1>1, <1>4 DEF ListenerInv, listenerVars
<1>5. CASE ReadFrameStep
  <2>1. ReadsInv'
    BY <1>1, <1>5, ReadFrameStepKeeps
  <2>2. UNCHANGED outVars /\ UNCHANGED writeBusy /\ UNCHANGED listenerVars
    BY <1>5 DEF ReadFrameStep, Broken
  <2>3. operation' = operation \/ operation' # "writeFrame"
    BY <1>5 DEF ReadFrameStep, Broken
  <2> QED
    BY <1>3, <1>4, <2>1, <2>2, <2>3 DEF TransportInv
<1>6. CASE StartReadChunk \/ ReadChunkDone
  <2>1. ReadsInv'
    BY <1>1, <1>6, ChunksKeep
  <2>2. UNCHANGED outVars /\ UNCHANGED writeBusy /\ UNCHANGED listenerVars
    BY <1>6 DEF StartReadChunk, ReadChunkDone, Broken
  <2>3. operation' = operation \/ operation' # "writeFrame"
    BY <1>6 DEF StartReadChunk, ReadChunkDone, Broken
  <2> QED
    BY <1>3, <1>4, <2>1, <2>2, <2>3 DEF TransportInv
<1>7. ASSUME NEW frame \in Outgoing, StartWriteFrame(frame) PROVE TransportInv'
  <2>1. UNCHANGED streamVars /\ UNCHANGED listenerVars
    BY <1>7 DEF StartWriteFrame
  <2>2. WritesInv'
    BY <1>1, <1>7, StartWriteFrameKeeps
  <2> QED
    BY <1>2, <1>4, <2>1, <2>2 DEF TransportInv
<1>8. CASE WriteStep \/ WriteDone
  <2>1. UNCHANGED streamVars /\ UNCHANGED listenerVars
    BY <1>8 DEF WriteStep, WriteDone
  <2>2. WritesInv'
    BY <1>1, <1>8, WriteStepKeeps, WriteDoneKeeps
  <2> QED
    BY <1>2, <1>4, <2>1, <2>2 DEF TransportInv
<1>9. CASE StartReadFrame \/ Fails \/ Cancel \/ Close \/ UNCHANGED transportVars
  <2>1. /\ UNCHANGED streamVars /\ UNCHANGED listenerVars /\ UNCHANGED outVars /\ UNCHANGED writeBusy
        /\ operation' = operation \/ operation' # "writeFrame"
    BY <1>9 DEF StartReadFrame, Fails, Broken, Cancel, Close, transportVars
  <2> QED
    BY <1>2, <1>3, <1>4, <2>1 DEF TransportInv
<1>10. CASE \/ DropConnection \/ ListenerStep
            \/ \E succeeds \in BOOLEAN : Upgrade(succeeds) \/ Accepted(succeeds)
  <2>1. UNCHANGED streamVars /\ UNCHANGED outVars /\ UNCHANGED writeBusy /\ UNCHANGED operation
    BY <1>10 DEF DropConnection, ListenerStep, Upgrade, Accepted
  <2>2. ListenerInv'
    BY <1>1, <1>10, ListenerKeeps
  <2> QED
    BY <1>2, <1>3, <2>1, <2>2 DEF TransportInv
<1> QED
  BY <1>5, <1>6, <1>7, <1>8, <1>9, <1>10 DEF TransportNext

LEMMA WholeFrames ==
  ASSUME TransportInv
  PROVE  FramesStayWhole
<1>1. ReadsInv /\ WritesInv /\ ListenerInv
  BY DEF TransportInv
<1>2. /\ Len(buffer) =< MaxFrameBytes
      /\ chunks = <<>> => /\ returned = SubSeq(frames, 1, Len(returned))
                          /\ FlattenSeq(returned) \o buffer = SubSeq(stream, 1, taken)
  BY <1>1 DEF ReadsInv, Rejoined
<1>3. others.accepting + others.live + (IF held THEN 1 ELSE 0) =< MaxConnections
  BY <1>1 DEF ListenerInv
<1>4. PICK W : W = FlattenSeq(writes.whole)
  OBVIOUS
<1>5. PICK f : f = writes.last
  OBVIOUS
<1>6. PICK p : p = pending
  OBVIOUS
<1>7. PICK o : o = out
  OBVIOUS
<1>8. /\ W \in Seq(Nat) /\ f \in Seq(Nat) /\ p \in Seq(Nat) /\ o \in Seq(Nat)
      /\ o \o p = W \o f /\ Len(p) =< Len(f)
  BY <1>1, <1>4, <1>5, <1>6, <1>7, WholeIsBytes DEF WritesInv
<1>9. SubSeq(o, 1, Len(W)) = W /\ IsPrefix(SubSeq(o, Len(W) + 1, Len(o)), f)
  <2>1. PICK a \in Nat, b \in Nat, c \in Nat, e \in Nat :
            a = Len(W) /\ b = Len(f) /\ c = Len(p) /\ e = Len(o)
    BY <1>8, LenProperties
  <2>2. PICK q : q = o \o p
    OBVIOUS
  <2>3. Len(q) = e + c /\ \A i \in 1..e + c : q[i] = IF i <= e THEN o[i] ELSE p[i - e]
    BY <1>8, <2>1, <2>2, ConcatProperties
  <2>4. Len(q) = a + b /\ \A i \in 1..a + b : q[i] = IF i <= a THEN W[i] ELSE f[i - a]
    BY <1>8, <2>1, <2>2, ConcatProperties
  <2>5. a =< e /\ e =< a + b /\ e + c = a + b
    BY <1>8, <2>1, <2>3, <2>4
  <2>6. \A i \in 1..e : o[i] = IF i <= a THEN W[i] ELSE f[i - a]
    <3> SUFFICES ASSUME NEW i \in 1..e
                 PROVE  o[i] = IF i <= a THEN W[i] ELSE f[i - a]
      OBVIOUS
    <3>1. i \in 1..e + c /\ i \in 1..a + b /\ i <= e
      BY <2>5
    <3>2. q[i] = o[i]
      BY <2>3, <3>1
    <3>3. q[i] = IF i <= a THEN W[i] ELSE f[i - a]
      BY <2>4, <3>1
    <3> QED
      BY <3>2, <3>3
  <2>7. SubSeq(o, 1, a) = W
    <3>1. PICK s : s = SubSeq(o, 1, a)
      OBVIOUS
    <3>2. a \in 0..Len(o)
      BY <2>1, <2>5
    <3>3. s \in Seq(Nat) /\ Len(s) = a /\ \A i \in 1..a : s[i] = o[i]
      BY <1>8, <3>1, <3>2, BeginningOf
    <3>4. \A i \in 1..a : s[i] = W[i]
      BY <2>5, <2>6, <3>3
    <3> QED
      BY <1>8, <2>1, <3>1, <3>3, <3>4, SeqEqual
  <2>8. PICK r : r = SubSeq(o, a + 1, e)
    OBVIOUS
  <2>9. PICK d \in Nat : d = e - a
    BY <2>5
  <2>10. r \in Seq(Nat) /\ Len(r) = d /\ \A i \in 1..d : r[i] = o[a + i]
    <3>1. \A i \in a + 1..e : o[i] \in Nat
      <4>1. \A i \in a + 1..e : i \in 1..Len(o)
        BY <2>1
      <4> QED
        BY <1>8, <4>1, ElementOfSeq
    <3>2. PICK u \in Int : u = a + 1
      OBVIOUS
    <3>3. /\ r \in Seq(Nat) /\ Len(r) = IF u <= e THEN e - u + 1 ELSE 0
          /\ \A i \in 1..e - u + 1 : r[i] = o[u + i - 1]
      BY <2>8, <3>1, <3>2, SubSeqProperties
    <3>4. (IF u <= e THEN e - u + 1 ELSE 0) = d /\ e - u + 1 = d /\ \A i \in 1..d : u + i - 1 = a + i
      BY <2>5, <2>9, <3>2
    <3> QED
      BY <3>3, <3>4
  <2>11. d =< b /\ \A i \in 1..d : r[i] = f[i]
    <3>1. d =< b
      BY <2>5, <2>9
    <3>2. ASSUME NEW i \in 1..d PROVE r[i] = f[i]
      <4>1. a + i \in 1..e /\ ~(a + i <= a) /\ a + i - a = i
        BY <2>5, <2>9
      <4>2. o[a + i] = f[i]
        BY <2>6, <4>1
      <4> QED
        BY <2>10, <4>2
    <3> QED
      BY <3>1, <3>2
  <2>12. SubSeq(r, 1, d) = SubSeq(f, 1, d)
    <3>1. PICK s, t : s = SubSeq(r, 1, d) /\ t = SubSeq(f, 1, d)
      OBVIOUS
    <3>2. d \in 0..Len(r) /\ d \in 0..Len(f)
      BY <2>1, <2>10, <2>11
    <3>3. s \in Seq(Nat) /\ Len(s) = d /\ \A i \in 1..d : s[i] = r[i]
      BY <2>10, <3>1, <3>2, BeginningOf
    <3>4. t \in Seq(Nat) /\ Len(t) = d /\ \A i \in 1..d : t[i] = f[i]
      BY <1>8, <3>1, <3>2, BeginningOf
    <3>5. \A i \in 1..d : s[i] = t[i]
      BY <2>11, <3>3, <3>4
    <3> QED
      BY <3>1, <3>3, <3>4, <3>5, SeqEqual
  <2>13. IsPrefix(r, f)
    BY <2>1, <2>10, <2>11, <2>12 DEF IsPrefix
  <2> QED
    BY <2>1, <2>7, <2>8, <2>13
<1> QED
  BY <1>2, <1>3, <1>4, <1>5, <1>7, <1>9 DEF FramesStayWhole

(* FramesStayWhole, for every codec whose frames are what the codec says,    *)
(* every frame length, limit, number of connections and way the stream is    *)
(* cut into reads.                                                           *)
THEOREM FramesWhole == TransportSpec => []FramesStayWhole
<1>1. TransportInit => TransportInv
  BY TransportAssumption, TransportStarts
<1>2. TransportInv /\ [TransportNext]_transportVars => TransportInv'
  BY TransportAssumption, TransportKeeps
<1>3. TransportInv => FramesStayWhole
  BY WholeFrames
<1> QED
  BY <1>1, <1>2, <1>3, PTL DEF TransportSpec
=============================================================================

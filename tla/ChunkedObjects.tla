--------------------------- MODULE ChunkedObjects ---------------------------
(* Chunked uploads of one logical key (warpin-object-storage/src/streaming.rs) *)
(* with their journal, the readers of the result, and the application's        *)
(* retirement workers as the README of the crate describes them: a marker at   *)
(* the root key fences every late upload, then what the journal knows is       *)
(* deleted.  An upload that is cancelled, crashes or fails is over; a retry is *)
(* another uploader.                                                           *)
EXTENDS ImmutableObjects, SequencesExt

CONSTANTS
    Uploaders, Retirers, Readers,
    ChunkBytes,    \* chunk_bytes
    PageEntries,   \* PAGE_ENTRIES
    Requests       \* uploads: [declared, input], sequences of bytes

ASSUME ChunkAssumption ==
    /\ Clients = Uploaders \cup Retirers
    /\ Uploaders \cap Retirers = {}
    /\ ChunkBytes \in Nat \ {0} /\ PageEntries \in Nat \ {0}

Bytes == 0..255
ASSUME RequestAssumption == Requests \subseteq [declared : Seq(Bytes), input : Seq(Bytes)]

VARIABLES
    intents,   \* journal: parts that are about to be written, [key, body]
    outcomes,  \* journal: receipts of parts
    up,        \* where each upload is
    request,   \* what it was asked to do
    entries,   \* chunk receipts of the page it is filling
    pages,     \* page receipts
    ret,       \* where each retirement worker is
    rd,        \* where each reader is
    root,      \* the root it has opened
    range,     \* [full, lo, hi]: bytes asked for, from lo up to but not hi
    next,      \* next_chunk
    loaded,    \* loaded_page, 0 for none
    got        \* bytes returned so far

journalVars == <<intents, outcomes>>
uploadVars  == <<up, request, entries, pages>>
readVars    == <<rd, root, range, next, loaded, got>>
vars == <<objectVars, journalVars, uploadVars, ret, readVars>>

RootKey   == [kind |-> "logical"]
NoRequest == [declared |-> <<>>, input |-> <<>>]
NoRange   == [full |-> FALSE, lo |-> 0, hi |-> 0]
NoRoot    == [key |-> RootKey, body |-> [kind |-> "none"], tag |-> 0]

Chunk(bytes)   == [kind |-> "chunk", bytes |-> bytes]
Page(first, s) == [kind |-> "page", first |-> first, chunks |-> s]
Root(f, s)     == [kind |-> "root", file |-> f, pages |-> s]
Marker         == [kind |-> "marker"]

\* part_key: parts are addressed by their content, roots by the logical key.
PartKey(b) == IF b.kind \in {"chunk", "page"} THEN b ELSE RootKey
Item(b) == [key |-> PartKey(b), body |-> b]
IsRoot(o) == o.key = RootKey /\ o.body # Marker

Init ==
    /\ ObjectInit
    /\ intents = {} /\ outcomes = {}
    /\ up = [u \in Uploaders |-> "idle"]
    /\ request = [u \in Uploaders |-> NoRequest]
    /\ entries = [u \in Uploaders |-> <<>>]
    /\ pages   = [u \in Uploaders |-> <<>>]
    /\ ret = [w \in Retirers |-> "idle"]
    /\ rd     = [r \in Readers |-> "idle"]
    /\ root   = [r \in Readers |-> NoRoot]
    /\ range  = [r \in Readers |-> NoRange]
    /\ next   = [r \in Readers |-> 0]
    /\ loaded = [r \in Readers |-> 0]
    /\ got    = [r \in Readers |-> <<>>]

ChunkOf(f, i) == SubSeq(f, i * ChunkBytes + 1,
                        IF (i + 1) * ChunkBytes < Len(f) THEN (i + 1) * ChunkBytes ELSE Len(f))

----------------------------------------------------------------------------
(* put_chunked *)
Begin(u) ==
    /\ up[u] = "idle"
    /\ \E q \in Requests : request' = [request EXCEPT ![u] = q]
    /\ up' = [up EXCEPT ![u] = "next"]
    /\ UNCHANGED <<objectVars, journalVars, entries, pages, ret, readVars>>

\* Chunks that are read, hashed and written.
Written(u) ==
    Len(entries[u]) + IF pages[u] = <<>> THEN 0
                      ELSE Last(pages[u]).body.first + Len(Last(pages[u]).body.chunks)

AtEnd(u) == Written(u) * ChunkBytes >= Len(request[u].declared)

\* A page is written when it is full or nothing is left to fill it with.
PageDue(u) == entries[u] # <<>> /\ (Len(entries[u]) = PageEntries \/ AtEnd(u))

\* What is read for the next chunk: as many bytes as the declared length says.
ReadExact(u) ==
    LET from == Written(u) * ChunkBytes
    IN  <<from + 1, from + Len(ChunkOf(request[u].declared, Written(u)))>>

\* Mutant: at its end, the input is not compared with what was declared.
InputReadable(u) == Len(request[u].input) >= ReadExact(u)[2]

\* The input holds the next chunk; at its end, exactly what was declared.
InputSuffices(u) ==
    IF AtEnd(u) THEN request[u].input = request[u].declared
                ELSE Len(request[u].input) >= ReadExact(u)[2]

\* The part that is written next.
NextPart(u) ==
    IF PageDue(u) THEN Page(Written(u) - Len(entries[u]), entries[u])
    ELSE IF AtEnd(u) THEN Root(request[u].declared, pages[u])
    ELSE Chunk(SubSeq(request[u].input, ReadExact(u)[1], ReadExact(u)[2]))

\* Mutant: only the root's intent is waited for.
IntendRoot(u) ==
    /\ up[u] = "next"
    /\ PageDue(u) \/ InputSuffices(u)
    /\ intents' = IF AtEnd(u) /\ ~PageDue(u) THEN intents \cup {Item(NextPart(u))} ELSE intents
    /\ up' = [up EXCEPT ![u] = "intended"]
    /\ UNCHANGED <<objectVars, outcomes, request, entries, pages, ret, readVars>>

\* write_chunk_part: the intent is durable before the put.
Intend(u) ==
    /\ up[u] = "next"
    /\ PageDue(u) \/ InputSuffices(u)
    /\ intents' = intents \cup {Item(NextPart(u))}
    /\ up' = [up EXCEPT ![u] = "intended"]
    /\ UNCHANGED <<objectVars, outcomes, request, entries, pages, ret, readVars>>

PutPart(u) ==
    /\ up[u] = "intended"
    /\ StartPut(u, Item(NextPart(u)))
    /\ up' = [up EXCEPT ![u] = "putting"]
    /\ UNCHANGED <<journalVars, request, entries, pages, ret, readVars>>

Receipt(u) == [key |-> item[u].key, body |-> item[u].body, tag |-> seen[u]]

\* after_write, and the receipt goes where it belongs.
Outcome(u) ==
    /\ up[u] = "putting"
    /\ step[u] = "written"
    /\ EndCall(u)
    /\ outcomes' = outcomes \cup {Receipt(u)}
    /\ LET kind == item[u].body.kind
       IN  /\ entries' = [entries EXCEPT ![u] =
                            CASE kind = "chunk" -> Append(@, Receipt(u))
                              [] kind = "page"  -> <<>>
                              [] OTHER          -> @]
           /\ pages' = [pages EXCEPT ![u] =
                            CASE kind = "page" -> Append(@, Receipt(u))
                              [] kind = "root" -> <<>>
                              [] OTHER         -> @]
           /\ up' = [up EXCEPT ![u] = IF kind = "root" THEN "done" ELSE "next"]
    /\ UNCHANGED <<storeVars, netVars, intents, request, ret, readVars>>

\* Input, journal, storage or caller: an upload can end at any point, also
\* when the journal has just taken the receipt.
Fail(u) ==
    /\ up[u] \in {"next", "intended", "putting"}
    /\ Drop(u)
    /\ \/ UNCHANGED outcomes
       \/ /\ up[u] = "putting" /\ step[u] = "written"
          /\ outcomes' = outcomes \cup {Receipt(u)}
    /\ IF step[u] = "conflict"
       THEN up' = [up EXCEPT ![u] = "conflict"] /\ UNCHANGED request
       ELSE /\ up' = [up EXCEPT ![u] = "failed"]
            /\ request' = [request EXCEPT ![u] = NoRequest]
    /\ entries' = [entries EXCEPT ![u] = <<>>]
    /\ pages'   = [pages EXCEPT ![u] = <<>>]
    /\ UNCHANGED <<intents, ret, readVars>>

----------------------------------------------------------------------------
(* The application's retirement workers (not in src/). *)
Unlink(w) ==
    /\ ret[w] = "idle"
    /\ \E o \in outcomes : IsRoot(o) /\ StartDelete(w, ItemOf(o), Pin(o))
    /\ ret' = [ret EXCEPT ![w] = "unlinking"]
    /\ UNCHANGED <<journalVars, uploadVars, readVars>>

Unlinked(w) ==
    /\ ret[w] = "unlinking"
    /\ step[w] = "gone"
    /\ ret' = [ret EXCEPT ![w] = "unlinked"]
    /\ Drop(w)
    /\ UNCHANGED <<journalVars, uploadVars, readVars>>

Mark(w) ==
    /\ ret[w] \in {"idle", "unlinked"}
    /\ StartPut(w, Item(Marker))
    /\ ret' = [ret EXCEPT ![w] = "marking"]
    /\ UNCHANGED <<journalVars, uploadVars, readVars>>

Fenced(w) ==
    /\ ret[w] = "marking"
    /\ step[w] = "written"
    /\ ret' = [ret EXCEPT ![w] = "fenced"]
    /\ Drop(w)
    /\ UNCHANGED <<journalVars, uploadVars, readVars>>

\* Whatever the journal knows is deleted, roots as well as parts; the version
\* is given when the journal has a receipt.
Sweep(w) ==
    /\ ret[w] = "fenced"
    /\ \/ \E i \in intents : StartDelete(w, i, 0)
       \/ \E o \in outcomes : StartDelete(w, ItemOf(o), Pin(o))
    /\ UNCHANGED <<journalVars, uploadVars, ret, readVars>>

Swept(w) ==
    /\ ret[w] = "fenced"
    /\ step[w] \in {"gone", "failed"}
    /\ Drop(w)
    /\ UNCHANGED <<journalVars, uploadVars, ret, readVars>>

GiveUp(w) ==
    /\ ret[w] \in {"unlinking", "marking", "fenced"}
    /\ step[w] # "idle"
    /\ ret' = [ret EXCEPT ![w] = "over"]
    /\ Drop(w)
    /\ UNCHANGED <<journalVars, uploadVars, readVars>>

----------------------------------------------------------------------------
(* open_chunked with the receipt of an upload, or with one that was recovered *)
(* from the intent of its root; a dropped read leaves the reader as it was.   *)
ReadFails(r) ==
    /\ rd' = [rd EXCEPT ![r] = "failed"]
    /\ UNCHANGED <<objectVars, journalVars, uploadVars, ret, root, range, next, loaded, got>>

Open(r) ==
    /\ rd[r] = "idle"
    /\ \E o \in made : IsRoot(o) /\
         \E g \in [full : {FALSE}, lo : 0..Len(o.body.file), hi : 0..Len(o.body.file)]
                    \cup {[full |-> TRUE, lo |-> 0, hi |-> Len(o.body.file)]} :
           /\ g.full \/ g.lo < g.hi
           /\ root'  = [root EXCEPT ![r] = o]
           /\ range' = [range EXCEPT ![r] = g]
           /\ next'  = [next EXCEPT ![r] = g.lo \div ChunkBytes]
           /\ rd'    = [rd EXCEPT ![r] = IF o \in store THEN "open" ELSE "failed"]
    /\ UNCHANGED <<objectVars, journalVars, uploadVars, ret, loaded, got>>

Start(r)   == next[r] * ChunkBytes
PageOf(r)  == next[r] \div PageEntries + 1
Pointer(r) == root[r].body.pages[loaded[r]].body.chunks[(next[r] % PageEntries) + 1]

LoadPage(r) ==
    /\ rd[r] = "open"
    /\ Start(r) < range[r].hi
    /\ loaded[r] # PageOf(r)
    /\ IF root[r].body.pages[PageOf(r)] \in store
       THEN /\ loaded' = [loaded EXCEPT ![r] = PageOf(r)]
            /\ UNCHANGED <<objectVars, journalVars, uploadVars, ret, rd, root, range, next, got>>
       ELSE ReadFails(r)

\* The part of a chunk that lies in the range.
Slice(r, bytes) ==
    LET from == IF range[r].lo > Start(r) THEN range[r].lo - Start(r) ELSE 0
        to   == IF range[r].hi - Start(r) < Len(bytes) THEN range[r].hi - Start(r) ELSE Len(bytes)
    IN  SubSeq(bytes, from + 1, to)

ReadChunk(r) ==
    /\ rd[r] = "open"
    /\ Start(r) < range[r].hi
    /\ loaded[r] = PageOf(r)
    /\ IF Pointer(r) \in store
       THEN /\ got'  = [got EXCEPT ![r] = @ \o Slice(r, Pointer(r).body.bytes)]
            /\ next' = [next EXCEPT ![r] = @ + 1]
            /\ UNCHANGED <<objectVars, journalVars, uploadVars, ret, rd, root, range, loaded>>
       ELSE ReadFails(r)

\* None: a full read has recomputed the digest of everything it returned.
Finish(r) ==
    /\ rd[r] = "open"
    /\ Start(r) >= range[r].hi
    /\ IF range[r].full /\ got[r] # root[r].body.file
       THEN ReadFails(r)
       ELSE /\ rd' = [rd EXCEPT ![r] = "verified"]
            /\ UNCHANGED <<objectVars, journalVars, uploadVars, ret, root, range, next, loaded, got>>

----------------------------------------------------------------------------
Upload(u) == Begin(u) \/ Intend(u) \/ PutPart(u) \/ Outcome(u) \/ Fail(u)
Retire(w) == Unlink(w) \/ Unlinked(w) \/ Mark(w) \/ Fenced(w) \/ Sweep(w) \/ Swept(w) \/ GiveUp(w)
Read(r)   == Open(r) \/ LoadPage(r) \/ ReadChunk(r) \/ Finish(r)

Next ==
    \/ \E u \in Uploaders : Upload(u)
    \/ \E w \in Retirers : Retire(w)
    \/ \E r \in Readers : Read(r)
    \/ Storage /\ UNCHANGED <<journalVars, uploadVars, ret, readVars>>

Spec == Init /\ [][Next]_vars

----------------------------------------------------------------------------
\* The bytes a root stands for, through its pages and chunks.
BytesOf(o) ==
    FlattenSeq([p \in 1..Len(o.body.pages) |->
        FlattenSeq([i \in 1..Len(o.body.pages[p].body.chunks) |->
            o.body.pages[p].body.chunks[i].body.bytes])])

\* What a root points to, pages and their chunks.
PartsOf(o) ==
    UNION {{p} \cup Range(p.body.chunks) : p \in Range(o.body.pages)}

(* Type invariant; in particular a key names at most one object. *)
ChunkTypeOK ==
    /\ store \subseteq made
    /\ \A o, p \in store : o.key = p.key => o = p
    /\ resends \in 0..MaxResends
    /\ step \in [Clients -> Steps]
    /\ up \in [Uploaders -> {"idle", "next", "intended", "putting", "done", "conflict", "failed"}]
    /\ request \in [Uploaders -> Requests \cup {NoRequest}]
    /\ \A u \in Uploaders : Len(entries[u]) =< PageEntries
    /\ ret \in [Retirers -> {"idle", "unlinking", "unlinked", "marking", "fenced", "over"}]
    /\ rd \in [Readers -> {"idle", "open", "verified", "failed"}]

(* While a root exists, everything it points to exists, in the very version  *)
(* it names, whoever else uploads, retires, dies or sweeps at the same time. *)
RootsAreWhole == \A o \in store : IsRoot(o) => PartsOf(o) \subseteq store

(* Every root stands for exactly the file it declares, also the root of an   *)
(* upload that died meanwhile, and an upload that succeeds was given exactly *)
(* this file and leaves its root's receipt in the journal.                   *)
ReceiptsAreExact ==
    /\ \A o \in made : IsRoot(o) => BytesOf(o) = o.body.file
    /\ \A u \in Uploaders : up[u] = "done" =>
         /\ request[u].input = request[u].declared
         /\ \E o \in outcomes : IsRoot(o) /\ o.body.file = request[u].declared

(* Everything that was ever written, even by a put that arrived after its    *)
(* upload had died, is known to the journal.                                 *)
NothingIsUntracked == \A o \in made : ItemOf(o) \in intents \cup {Item(Marker)}

(* Behind the marker no root appears any more, however late it was sent.     *)
MarkerFences == (\E w \in Retirers : ret[w] = "fenced") => ~\E o \in store : IsRoot(o)

(* Uploads of the same file never get into each other's way: a conflict has  *)
(* a retirement or another file as its reason.                               *)
RetriesConverge ==
    \A u \in Uploaders : up[u] = "conflict" =>
        \E o \in made : o.key = RootKey /\ (IsRoot(o) => o.body.file # request[u].declared)

(* A reader returns a gapless beginning of the bytes it was asked for, and   *)
(* all of them before it reports a verification.                             *)
ReadsAreExact ==
    \A r \in Readers : rd[r] # "idle" =>
        LET asked == SubSeq(root[r].body.file, range[r].lo + 1, range[r].hi)
        IN  /\ IsPrefix(got[r], asked)
            /\ rd[r] = "verified" => got[r] = asked

(* The three together: a root stands for the file it declares, a receipt for *)
(* the input it was given, and a reader returns exactly its bytes or fails.  *)
StreamsAreExact == ChunkTypeOK /\ ReceiptsAreExact /\ ReadsAreExact

(* The comment of delete_verified: only the object identity that was         *)
(* verified first is deleted.                                                *)
DeletesOnlyTheVerified ==
    [][\A m \in wire : ArriveDelete(m) => \A o \in store \ store' : ItemOf(o) = ItemOf(m)]_vars
============================================================================

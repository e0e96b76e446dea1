----------------------------- MODULE Transport -----------------------------
(***************************************************************************)
(* warpin-transport: a listener with a bounded number of connections, and   *)
(* one connection of it (or one that was dialled) on which a caller reads   *)
(* frames or chunks, writes frames, upgrades to TLS and drops operations    *)
(* that are under way.  A byte is a small number, the stream is TCP.        *)
(***************************************************************************)
EXTENDS Integers, SequencesExt

CONSTANTS
    Decoders,       \* the codecs: [kind |-> "fixed" | "delimited" | "prefixed", ...]
    FramesOf(_),    \* for each decoder, frames of its format
    Outgoing,       \* frames the caller writes
    MaxFrameBytes,  \* Limits.max_frame_bytes
    ReadBytes,     \* 4096, the most one read of the stream returns
    MaxSent,        \* bound: frames the peer sends
    MaxOperations,  \* bound: operations the caller starts
    MaxConnections  \* of the listener

VARIABLES
    decoder,
    frames,    \* what the peer sends, frame by frame
    stream,    \* the same as bytes, maybe cut short at the end
    taken,     \* bytes of stream that have been read; what arrived is up to each read
    buffer,    \* read and not yet returned
    returned,  \* frames returned by read_frame
    chunks,    \* bytes returned by read_chunk
    readBusy, writeBusy, closed,
    operation, \* what the caller awaits
    pending,   \* bytes of the frame being written that are not out yet
    out,       \* bytes on the wire to the peer
    writes,    \* frames whose write was reported as complete, and the last one begun
    begun,     \* operations started
    stage,     \* of the connection: "dialled", "accepting", "open", "secured", "dropped"
    held,      \* the connection holds a permit of the listener
    permits,   \* free connection permits of the listener
    others     \* its other connections, accepting or live

streamVars == <<decoder, frames, stream, taken, buffer, returned, chunks>>
outVars == <<pending, out, writes>>
listenerVars == <<stage, held, permits, others>>
transportVars ==
    <<streamVars, readBusy, writeBusy, closed, operation, begun, outVars, listenerVars>>

Configuration == [tag |-> "error", n |-> 0]
NotYet == [tag |-> "more", n |-> 0]
FrameOf(n) == [tag |-> "frame", n |-> n]

(* frame_len of the three codecs.                                            *)
FixedLen(d, b) ==
    IF d.size = 0 \/ d.size > MaxFrameBytes THEN Configuration
    ELSE IF Len(b) >= d.size THEN FrameOf(d.size) ELSE NotYet
DelimitedLen(d, b) ==
    IF d.delimiter \in Range(b)
    THEN FrameOf(CHOOSE i \in DOMAIN b : b[i] = d.delimiter /\ d.delimiter \notin Range(SubSeq(b, 1, i - 1)))
    ELSE NotYet
\* The length of the frame that the header of b announces.
Announced(d, b) ==
    LET field == SubSeq(b, d.offset + 1, d.offset + d.width)
        number == FoldLeft(LAMBDA n, byte : d.base * n + byte, 0,
                           IF d.endian = "big" THEN field ELSE Reverse(field))
    IN  IF d.includesHeader THEN number ELSE number + d.header
PrefixedLen(d, b) ==
    LET n == Announced(d, b)
    IN  IF \/ d.width \notin {1, 2, 4, 8}
           \/ d.header = 0 \/ d.header > MaxFrameBytes \/ d.offset + d.width > d.header
        THEN Configuration
        ELSE IF Len(b) < d.header THEN NotYet
        ELSE IF n < d.header \/ n > MaxFrameBytes THEN Configuration
        ELSE IF Len(b) >= n THEN FrameOf(n) ELSE NotYet
FrameLen(d, b) ==
    IF d.kind = "fixed" THEN FixedLen(d, b)
    ELSE IF d.kind = "delimited" THEN DelimitedLen(d, b) ELSE PrefixedLen(d, b)

\* What a peer means by a frame of the codec: the codec is meant for it.
IsFrame(d, f) ==
    /\ d.kind = "fixed" => Len(f) = d.size
    /\ d.kind = "delimited" => f # <<>> /\ \A i \in DOMAIN f : f[i] = d.delimiter <=> i = Len(f)
    /\ d.kind \notin {"fixed", "delimited"} =>
          /\ d.offset \in Nat /\ d.width \in Nat /\ d.header \in Nat
          /\ d.header <= Len(f) /\ Announced(d, f) = Len(f)

ASSUME TransportAssumption ==
    /\ MaxFrameBytes \in Nat /\ MaxSent \in Nat /\ Outgoing \subseteq Seq(Nat)
    /\ \A d \in Decoders : \A f \in FramesOf(d) : f \in Seq(Nat) /\ IsFrame(d, f)

ValidConnections(n) == n \in Nat \ {0} /\ n <= 65536

TransportInit ==
    /\ decoder \in Decoders
    /\ frames \in UNION {[1..n -> FramesOf(decoder)] : n \in 0..MaxSent}
    /\ \E cut \in {0, 1} : stream = SubSeq(FlattenSeq(frames), 1, Len(FlattenSeq(frames)) - cut)
    /\ taken = 0 /\ buffer = <<>> /\ returned = <<>> /\ chunks = <<>>
    /\ readBusy = FALSE /\ writeBusy = FALSE /\ closed = FALSE
    /\ operation = "none"
    /\ pending = <<>> /\ out = <<>> /\ writes = [whole |-> <<>>, last |-> <<>>] /\ begun = 0
    /\ ValidConnections(MaxConnections)
    /\ \/ stage = "dialled" /\ held = FALSE /\ permits = 0
       \/ stage = "accepting" /\ held = TRUE /\ permits = MaxConnections - 1
    /\ others = [accepting |-> 0, live |-> 0]

-----------------------------------------------------------------------------
Usable == stage \in {"dialled", "open", "secured"}
AtRest == Usable /\ operation = "none" /\ ~closed /\ ~readBusy /\ ~writeBusy
StartOperation == AtRest /\ begun < MaxOperations /\ begun' = begun + 1

StartReadFrame ==
    /\ StartOperation
    /\ readBusy' = TRUE /\ operation' = "readFrame"
    /\ UNCHANGED <<streamVars, writeBusy, closed, outVars, listenerVars>>

Broken ==     \* every failure of an operation that was started closes the connection
    /\ closed' = TRUE /\ operation' = "none"
    /\ UNCHANGED <<readBusy, writeBusy, begun, outVars, listenerVars>>

ReadMore(limit, k) ==
    /\ k \in 1..limit /\ k <= ReadBytes /\ taken + k <= Len(stream)
    /\ taken' = taken + k

(* One turn of the loop of read_frame: a frame is taken off the buffer, or   *)
(* the stream is read.                                                       *)
ReadFrameStep ==
    LET next == FrameLen(decoder, buffer)
    IN  /\ operation = "readFrame"
        /\ \/ /\ next.tag = "frame" /\ next.n \in 1..Len(buffer) /\ next.n <= MaxFrameBytes
              /\ returned' = Append(returned, SubSeq(buffer, 1, next.n))
              /\ buffer' = SubSeq(buffer, next.n + 1, Len(buffer))
              /\ readBusy' = FALSE /\ operation' = "none"
              /\ UNCHANGED <<decoder, frames, stream, taken, chunks, writeBusy, closed,
                             begun, outVars, listenerVars>>
           \/ /\ next.tag = "more" /\ Len(buffer) < MaxFrameBytes
              /\ \E k \in 1..ReadBytes :
                    /\ ReadMore(MaxFrameBytes - Len(buffer), k)
                    /\ buffer' = buffer \o SubSeq(stream, taken + 1, taken + k)
              /\ UNCHANGED <<decoder, frames, stream, returned, chunks, readBusy, writeBusy,
                             closed, operation, begun, outVars, listenerVars>>
           \/ /\ \/ next.tag = "error"
                 \/ next.tag = "frame" /\ (next.n \notin 1..Len(buffer) \/ next.n > MaxFrameBytes)
                 \/ next.tag = "more" /\ (Len(buffer) >= MaxFrameBytes \/ taken = Len(stream))
              /\ Broken /\ UNCHANGED streamVars

StartReadChunk ==
    /\ StartOperation
    /\ IF buffer # <<>>
       THEN /\ chunks' = chunks \o buffer
            /\ buffer' = <<>>
            /\ UNCHANGED <<readBusy, operation>>
       ELSE /\ readBusy' = TRUE /\ operation' = "readChunk"
            /\ UNCHANGED <<chunks, buffer>>
    /\ UNCHANGED <<decoder, frames, stream, taken, returned, writeBusy, closed, outVars,
                   listenerVars>>

ReadChunkDone ==
    /\ operation = "readChunk"
    /\ \/ /\ \E k \in 1..ReadBytes : ReadMore(MaxFrameBytes, k)
          /\ chunks' = chunks \o SubSeq(stream, taken + 1, taken')
          /\ readBusy' = FALSE /\ operation' = "none"
          /\ UNCHANGED <<decoder, frames, stream, buffer, returned, writeBusy, closed,
                         begun, outVars, listenerVars>>
       \/ taken = Len(stream) /\ Broken /\ UNCHANGED streamVars

StartWriteFrame(frame) ==
    /\ StartOperation /\ Len(frame) <= MaxFrameBytes
    /\ writeBusy' = TRUE /\ operation' = "writeFrame"
    /\ pending' = frame
    /\ writes' = [writes EXCEPT !.last = frame]
    /\ UNCHANGED <<streamVars, readBusy, closed, out, listenerVars>>

WriteStep ==
    /\ operation = "writeFrame" /\ pending # <<>>
    /\ out' = Append(out, Head(pending))
    /\ pending' = Tail(pending)
    /\ UNCHANGED <<streamVars, readBusy, writeBusy, closed, operation, begun, writes, listenerVars>>

WriteDone ==
    /\ operation = "writeFrame" /\ pending = <<>>
    /\ writes' = [writes EXCEPT !.whole = Append(@, writes.last), !.last = <<>>]
    /\ writeBusy' = FALSE /\ operation' = "none"
    /\ UNCHANGED <<streamVars, readBusy, closed, begun, pending, out, listenerVars>>

(* The deadline passes or the socket fails while an operation waits.         *)
Fails == operation # "none" /\ Broken /\ UNCHANGED streamVars

(* The caller drops the future: nothing runs, so the busy flag stays.        *)
CancelFreeing ==         \* mutant: a guard resets the flags when the future is dropped
    /\ operation # "none" /\ operation' = "none"
    /\ readBusy' = FALSE /\ writeBusy' = FALSE
    /\ UNCHANGED <<streamVars, closed, begun, outVars, listenerVars>>
Cancel ==
    /\ operation # "none" /\ operation' = "none"
    /\ UNCHANGED <<streamVars, readBusy, writeBusy, closed, begun, outVars, listenerVars>>

Close ==
    /\ Usable /\ operation = "none" /\ ~closed
    /\ closed' = TRUE
    /\ UNCHANGED <<streamVars, readBusy, writeBusy, operation, begun, outVars, listenerVars>>

-----------------------------------------------------------------------------
(* Upgrade: refused unless nothing is buffered, busy or closed.  The permit  *)
(* stays with the connection; a handshake that fails drops both.             *)
Dropped == stage' = "dropped" /\ held' = FALSE /\ permits' = IF held THEN permits + 1 ELSE permits
Upgrade(succeeds) ==
    /\ AtRest /\ stage # "secured"
    /\ IF buffer = <<>> /\ succeeds THEN stage' = "secured" /\ UNCHANGED <<held, permits>> ELSE Dropped
    /\ UNCHANGED <<streamVars, readBusy, writeBusy, closed, operation, begun, outVars, others>>

DropConnection ==
    /\ Usable /\ operation = "none" /\ Dropped
    /\ UNCHANGED <<streamVars, readBusy, writeBusy, closed, operation, begun, outVars, others>>

(* accept takes a permit before it waits and gives it back when it fails.    *)
Accepted(succeeds) ==
    /\ stage = "accepting"
    /\ IF succeeds THEN stage' = "open" /\ UNCHANGED <<held, permits>> ELSE Dropped
    /\ UNCHANGED <<streamVars, readBusy, writeBusy, closed, operation, begun, outVars, others>>
OthersAccept ==
    /\ permits > 0
    /\ permits' = permits - 1
    /\ others' = [others EXCEPT !.accepting = @ + 1]
OthersAccepted(succeeds) ==
    /\ others.accepting > 0
    /\ others' = [accepting |-> others.accepting - 1,
                  live |-> IF succeeds THEN others.live + 1 ELSE others.live]
    /\ permits' = IF succeeds THEN permits ELSE permits + 1
OthersDrop ==
    /\ others.live > 0
    /\ others' = [others EXCEPT !.live = @ - 1]
    /\ permits' = permits + 1
ListenerStep ==
    /\ OthersAccept \/ OthersDrop \/ \E succeeds \in BOOLEAN : OthersAccepted(succeeds)
    /\ UNCHANGED <<streamVars, readBusy, writeBusy, closed, operation, begun, outVars, stage, held>>

TransportNext ==
    \/ StartReadFrame \/ ReadFrameStep \/ StartReadChunk \/ ReadChunkDone
    \/ \E frame \in Outgoing : StartWriteFrame(frame)
    \/ WriteStep \/ WriteDone \/ Fails \/ Cancel \/ Close \/ DropConnection
    \/ \E succeeds \in BOOLEAN : Upgrade(succeeds) \/ Accepted(succeeds)
    \/ ListenerStep

TransportSpec == TransportInit /\ [][TransportNext]_transportVars

-----------------------------------------------------------------------------
(* Frames are never torn or mixed.  A caller that reads frames only gets the *)
(* peer's frames, whole, in order, and every byte that was read is in a      *)
(* frame returned or in the buffer, which never outgrows the limit.  What    *)
(* the peer receives is whole frames and at most one that is cut, after      *)
(* which nothing more is written, cancelled or not.  The connections of the  *)
(* listener, being accepted, in a handshake or live, never exceed its limit. *)
FramesStayWhole ==
    LET rest == others.accepting + others.live
    IN  /\ Len(buffer) <= MaxFrameBytes
        /\ chunks = <<>> =>
              /\ returned = SubSeq(frames, 1, Len(returned))
              /\ FlattenSeq(returned) \o buffer = SubSeq(stream, 1, taken)
        /\ LET whole == FlattenSeq(writes.whole)
           IN  /\ SubSeq(out, 1, Len(whole)) = whole
               /\ IsPrefix(SubSeq(out, Len(whole) + 1, Len(out)), writes.last)
        /\ rest + (IF held THEN 1 ELSE 0) <= MaxConnections
=============================================================================

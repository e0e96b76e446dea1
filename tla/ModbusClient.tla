---------------------------- MODULE ModbusClient ----------------------------
(***************************************************************************)
(* warpin-modbus: a client that has one request in flight, the connection   *)
(* it goes out on and the device that answers late, wrongly or not at all.  *)
(*                                                                         *)
(* A request is [fn, at, count, to, written]: its function, the address and *)
(* number of what it reads, the address and number of what it writes.  The  *)
(* number a call has, id, is on the wire only in TCP's transaction header.  *)
(***************************************************************************)
EXTENDS Integers, SequencesExt

CONSTANTS
    DeviceRequests, \* the requests callers make, legal or not
    Framings,      \* "tcp", "rtu"
    Units,         \* unit numbers callers give
    LastUnit,      \* 247, of a serial bus
    Addresses,     \* 65536
    MaxRead,       \* of each function: 2000 bits, 125 registers
    MaxWritten,    \* of each function: 1968 bits, 123 registers, 121 in a combined write
    Padding,       \* 8: bits are answered in whole bytes
    MaxCalls,      \* bound: calls
    MaxConnects    \* bound: connections one after the other

VARIABLES
    framing,
    connection, \* number of the connection, 0 before the first
    context,    \* Client.context: "open", "taken" by a call, or "none"
    calls,      \* for each call, its request and how it was reported (history)
    toDevice,   \* requests on the wire, and the connection of each
    answers,    \* answers on the wire
    executed    \* for each call, how often the device has executed it (history)

modbusVars == <<framing, connection, context, calls, toDevice, answers, executed>>

Bits == {"ReadCoils", "ReadDiscreteInputs"}
Registers == {"ReadHoldingRegisters", "ReadInputRegisters"}
ReadOnly(request) == request.fn \in Bits \union Registers
Counted == {"WriteMultipleCoils", "WriteMultipleRegisters"}
Both == "ReadWriteMultipleRegisters"
Single == {"WriteSingleCoil", "WriteSingleRegister", "MaskWriteRegister"}

InRange(address, count, most) == count \in 1..most /\ address + count <= Addresses
ValidRequest(request) ==
    LET reads == InRange(request.at, request.count, MaxRead[request.fn])
        writes == InRange(request.to, request.written, MaxWritten[request.fn])
    IN  \/ request.fn \in Single
        \/ ReadOnly(request) /\ reads
        \/ request.fn \in Counted /\ writes
        \/ request.fn = Both /\ reads /\ writes

ValidUnit(unit, framed) == unit # 0 /\ (framed = "rtu" => unit <= LastUnit)

(* The answer must be the one to such a request: reads by their length, bits *)
(* padded to bytes, writes by the address and the value or number they echo. *)
EchoesOf(request) == <<request.to, request.written>>
Length(request) ==
    IF request.fn \in Bits THEN ((request.count + Padding - 1) \div Padding) * Padding
    ELSE request.count
ValidResponse(request, answer) ==
    /\ answer.fn = request.fn
    /\ IF ReadOnly(request) \/ request.fn = Both THEN answer.length = Length(request)
       ELSE answer.echo = EchoesOf(request)

ModbusInit ==
    /\ framing \in Framings
    /\ connection = 0 /\ context = "none"
    /\ calls = <<>> /\ toDevice = <<>> /\ answers = <<>> /\ executed = <<>>

-----------------------------------------------------------------------------
Current == Len(calls)
InFlight == calls # <<>> /\ calls[Current].report = "inFlight"
Reported(report) == calls' = [calls EXCEPT ![Current].report = report]

(* A new client on a new connection.  Answers to the old one are lost with   *)
(* it; a caller silences a serial bus first.  The device may still execute   *)
(* what it has received.                                                     *)
Connect(unit) ==
    /\ ~InFlight /\ connection < MaxConnects /\ ValidUnit(unit, framing)
    /\ connection' = connection + 1
    /\ context' = "open"
    /\ answers' = <<>>
    /\ UNCHANGED <<framing, calls, toDevice, executed>>

CallStart(request) ==
    /\ ~InFlight /\ connection # 0 /\ Current < MaxCalls
    /\ LET begun(report) == calls' = Append(calls, [request |-> request, report |-> report,
                                                     dispatched |-> FALSE, answer |-> 0])
       IN  IF ~ValidRequest(request) THEN begun("Configuration") /\ UNCHANGED context
           ELSE IF context = "none" THEN begun("Closed") /\ UNCHANGED context
           ELSE begun("inFlight") /\ context' = "taken"
    /\ executed' = Append(executed, 0)
    /\ UNCHANGED <<framing, connection, toDevice, answers>>

Dispatch ==
    /\ InFlight /\ ~calls[Current].dispatched
    /\ calls' = [calls EXCEPT ![Current].dispatched = TRUE]
    /\ toDevice' = Append(toDevice, [id |-> Current, on |-> connection])
    /\ UNCHANGED <<framing, connection, context, answers, executed>>

(* What tokio-modbus makes of the first answer: TCP compares transactions,   *)
(* a serial answer is whatever comes next.                                   *)
Foreign(answer) == framing = "tcp" /\ answer.id # Current
Doubt(otherwise) ==
    IF ReadOnly(calls[Current].request) THEN otherwise ELSE "OutcomeUnknown"

Receive ==
    LET answer == Head(answers)
        request == calls[Current].request
    IN  /\ InFlight /\ calls[Current].dispatched /\ answers # <<>>
        /\ answers' = Tail(answers)
        /\ IF answer.garbled \/ Foreign(answer)
           THEN Reported(Doubt("Protocol")) /\ context' = "none"
           ELSE IF answer.exception /\ answer.fn = request.fn
           THEN /\ calls' = [calls EXCEPT ![Current].report = "Exception", ![Current].answer = answer.id]
                /\ context' = "open"
           ELSE IF answer.exception \/ ~ValidResponse(request, answer)
           THEN Reported(Doubt("Protocol")) /\ context' = "none"
           ELSE /\ calls' = [calls EXCEPT ![Current].report = "Ok", ![Current].answer = answer.id]
                /\ context' = "open"
        /\ UNCHANGED <<framing, connection, toDevice, executed>>

(* The deadline passes, or the stream fails; the context is not put back.    *)
TimeOutKeeping ==    \* mutant: the context survives a timeout
    /\ InFlight /\ Reported(Doubt("Timeout")) /\ context' = "open"
    /\ UNCHANGED <<framing, connection, toDevice, answers, executed>>
TimeOut ==
    /\ InFlight /\ Reported(Doubt("Timeout")) /\ context' = "none"
    /\ UNCHANGED <<framing, connection, toDevice, answers, executed>>
TransportFails ==
    /\ InFlight /\ Reported(Doubt("Connection")) /\ context' = "none"
    /\ UNCHANGED <<framing, connection, toDevice, answers, executed>>
(* The caller drops the future: it learns nothing.                           *)
CancelCall ==
    /\ InFlight /\ Reported("cancelled") /\ context' = "none"
    /\ UNCHANGED <<framing, connection, toDevice, answers, executed>>
Disconnect ==
    /\ ~InFlight /\ context = "open" /\ context' = "none"
    /\ UNCHANGED <<framing, connection, calls, toDevice, answers, executed>>

(* The device: it executes a request and answers, garbles or loses the       *)
(* answer, or answers with an exception and executes nothing.                *)
Answered(id, exception, garbled) ==
    LET request == calls[id].request
    IN  [id |-> id, fn |-> request.fn, exception |-> exception, garbled |-> garbled,
         length |-> Length(request), echo |-> EchoesOf(request)]
Device(exception) ==
    LET next == Head(toDevice)
    IN  /\ toDevice # <<>>
        /\ toDevice' = Tail(toDevice)
        /\ executed' = IF exception THEN executed ELSE [executed EXCEPT ![next.id] = @ + 1]
        /\ \/ UNCHANGED answers
           \/ /\ next.on = connection
              /\ \E garbled \in BOOLEAN :
                    answers' = Append(answers, Answered(next.id, exception, garbled))
        /\ UNCHANGED <<framing, connection, context, calls>>

ModbusNext ==
    \/ \E unit \in Units : Connect(unit)
    \/ \E request \in DeviceRequests : CallStart(request)
    \/ Dispatch \/ Receive \/ TimeOut \/ TransportFails \/ CancelCall \/ Disconnect
    \/ \E exception \in BOOLEAN : Device(exception)

ModbusSpec == ModbusInit /\ [][ModbusNext]_modbusVars

-----------------------------------------------------------------------------
(* An answer that is returned, or an exception, is the device's answer to    *)
(* that very call, never a late one to an earlier call of the same shape.  A *)
(* write is executed at most once; one that was answered was executed, and   *)
(* one reported with anything but OutcomeUnknown or an answer never will be. *)
CallsAreTruthful ==
    \A id \in DOMAIN calls :
        LET call == calls[id]
            due == executed[id] # 0 \/ \E i \in DOMAIN toDevice : toDevice[i].id = id
        IN  /\ call.report \in {"Ok", "Exception"} => call.answer = id
            /\ executed[id] <= 1
            /\ call.report = "Ok" => executed[id] = 1
            /\ (~ReadOnly(call.request)
                  /\ call.report \notin {"inFlight", "Ok", "OutcomeUnknown", "cancelled"}) => ~due

-----------------------------------------------------------------------------
(* Registers of a composite value: words and bytes each in their own order.  *)
(* The value has the bytes of its registers; a wrong number is refused.      *)
Ordered(layout, registers) ==
    LET register(i) == registers[IF layout.words = "Big" THEN i ELSE Len(registers) + 1 - i]
    IN  FlattenSeq([i \in DOMAIN registers |->
            IF layout.bytes = "Big" THEN register(i) ELSE Reverse(register(i))])
Unsigned(layout, registers, words, base) ==
    IF Len(registers) # words THEN [ok |-> FALSE, n |-> 0]
    ELSE [ok |-> TRUE,
          n |-> FoldLeft(LAMBDA n, byte : base * n + byte, 0, Ordered(layout, registers))]
Signed(layout, registers, words, base) ==
    LET u == Unsigned(layout, registers, words, base)
        values == base^(2 * words)
    IN  IF ~u.ok \/ 2 * u.n < values THEN u ELSE [u EXCEPT !.n = @ - values]

(* Every way to lay a value out over two registers is read back by the       *)
(* layout that names it: swapping the words of the registers and naming the  *)
(* other order of words, or swapping the bytes of each and naming the other  *)
(* order of bytes, gives the same value; and a negative value is the one its *)
(* bytes complement.                                                         *)
LayoutsAreExact(registers, base) ==
    LET swap(r) == [i \in DOMAIN r |-> Reverse(r[i])]
        complement(r) == [i \in DOMAIN r |-> [b \in DOMAIN r[i] |-> base - 1 - r[i][b]]]
        read(words, bytes, r) == Signed([words |-> words, bytes |-> bytes], r, 2, base)
        n == read("Big", "Big", registers)
    IN  IF Len(registers) # 2 THEN ~n.ok
        ELSE /\ read("Little", "Big", Reverse(registers)) = n
             /\ read("Big", "Little", swap(registers)) = n
             /\ read("Little", "Little", swap(Reverse(registers))) = n
             /\ read("Big", "Big", complement(registers)).n = -1 - n.n
=============================================================================

---------------------------- MODULE DeviceProofs ----------------------------
(* What holds of the clients of devices: an MQTT session for any number of   *)
(* reconnects, clients and connections and any queue, and a Modbus client    *)
(* for any requests, units and framing and any number of calls.              *)
EXTENDS MqttSession, ModbusClient, SequenceTheorems, TLAPS

-----------------------------------------------------------------------------
(* The MQTT session: the safety half of MqttSession.                         *)

(* A poll runs only on a client that is neither gone nor stopping. *)
PollingIsAlive == polling => busy /\ state \notin Gone \cup {"Stopping"}

(* Every connection but the first is paid for by a reconnect: the client has *)
(* one to spare exactly while it has no connection and is not gone.          *)
ConnectionsArePaid ==
    /\ made =< reconnects + 1
    /\ link = 0 /\ state \notin Gone => made =< reconnects
    /\ generation =< made /\ made =< newest

(* A client that is not being closed knows the newest connection by its      *)
(* generation: the one it has is that one, and a held event that carries the *)
(* client and the generation was received over it.                           *)
Closing == state \in {"Stopping", "Stopped"}
GenerationIsNewest ==
    /\ link # 0 /\ ~Closing => link = newest
    /\ \A e \in held :
         /\ e.owner =< owner
         /\ e.owner = owner => e.generation =< generation
         /\ OwnEvent(e) /\ ~Closing => e.link = newest

(* The type in two parts: the flags, and the ranges. *)
Flags  == busy \in BOOLEAN /\ polling \in BOOLEAN
Ranges ==
    /\ state \in States
    /\ reconnects \in 0..MaxReconnects
    /\ generation \in 0..MaxConnections
    /\ owner \in 1..MaxClients
    /\ queue \in 0..QueueCapacity
    /\ link \in 0..MaxConnections /\ newest \in 0..MaxConnections
    /\ made \in 0..MaxConnections
    /\ held \subseteq Events

(* All of it, but for the flags, whose type holds by itself. *)
Rest == Ranges /\ PollingIsAlive /\ ConnectionsArePaid /\ GenerationIsNewest
SessionInv == Flags /\ Rest

-----------------------------------------------------------------------------
LEMMA SessionInitHolds == ASSUME Init PROVE SessionInv
<1>0. Flags
  BY DEF Init, Flags
<1>1. Ranges
  BY SessionAssumption DEF Init, Ranges, States
<1>2. PollingIsAlive /\ ConnectionsArePaid
  BY DEF Init, PollingIsAlive, ConnectionsArePaid
<1>3. GenerationIsNewest
  BY DEF Init, GenerationIsNewest
<1> QED
  BY <1>0, <1>1, <1>2, <1>3 DEF SessionInv, Rest

LEMMA FlagsKeep == ASSUME Flags, [Next]_vars PROVE Flags'
BY DEF Flags, Next, Poll, PollEndsSomehow, PollCancelled, ConnAck, Outgoing, PollTimeout,
   Incoming, PollError, PollEnds, Enqueue, Acknowledge, Forget, Close, Drain, Closed, Abort,
   NewClient, vars, clientVars

(* How a poll begins and ends. *)
LEMMA PollKeeps ==
    ASSUME SessionInv, Poll \/ PollEndsSomehow \/ PollCancelled
    PROVE  Rest'
<1> USE SessionAssumption
    DEF SessionInv, Rest, Ranges, PollingIsAlive, ConnectionsArePaid, GenerationIsNewest,
        OwnEvent, States, Gone, Closing, clientVars, loopVars
<1>1. CASE Poll
  BY <1>1 DEF Poll, Available
<1>2. CASE ConnAck
  <2>1. Ranges'
    BY <1>2 DEF ConnAck, PollEnds
  <2>2. PollingIsAlive' /\ ConnectionsArePaid'
    BY <1>2 DEF ConnAck, PollEnds
  <2>3. GenerationIsNewest'
    BY <1>2 DEF ConnAck, PollEnds, Events
  <2> QED
    BY <2>1, <2>2, <2>3
<1>3. CASE Outgoing
  <2>1. Ranges'
    BY <1>3 DEF Outgoing, PollEnds
  <2>2. PollingIsAlive' /\ ConnectionsArePaid'
    BY <1>3 DEF Outgoing, PollEnds
  <2>3. GenerationIsNewest'
    BY <1>3 DEF Outgoing, PollEnds
  <2> QED
    BY <2>1, <2>2, <2>3
<1>4. CASE PollTimeout
  <2>1. Ranges'
    BY <1>4 DEF PollTimeout, PollEnds
  <2>2. PollingIsAlive' /\ ConnectionsArePaid'
    BY <1>4 DEF PollTimeout, PollEnds
  <2>3. GenerationIsNewest'
    BY <1>4 DEF PollTimeout, PollEnds
  <2> QED
    BY <2>1, <2>2, <2>3
<1>5. ASSUME NEW e \in Events, Incoming(e)
      PROVE  Rest'
  <2>1. Ranges' /\ PollingIsAlive' /\ ConnectionsArePaid'
    BY <1>5 DEF Incoming, PollEnds
  <2>2. GenerationIsNewest'
    BY <1>5 DEF Incoming, PollEnds, Events
  <2> QED
    BY <2>1, <2>2
<1>6. ASSUME NEW kind \in Retried \cup Fatal, PollError(kind)
      PROVE  Rest'
  <2>1. Ranges'
    BY <1>6 DEF PollError, PollEnds
  <2>2. PollingIsAlive' /\ ConnectionsArePaid'
    BY <1>6 DEF PollError, PollEnds
  <2>3. GenerationIsNewest'
    BY <1>6 DEF PollError, PollEnds
  <2> QED
    BY <2>1, <2>2, <2>3
<1>7. CASE PollCancelled
  BY <1>7 DEF PollCancelled
<1> QED
  BY <1>1, <1>2, <1>3, <1>4, <1>5, <1>6, <1>7 DEF PollEndsSomehow

(* The application's calls, the closing client, and the next one. *)
LEMMA CallKeeps ==
    ASSUME SessionInv,
           \/ Enqueue \/ \E e \in held : Acknowledge(e) \/ Forget(e)
           \/ Close \/ Drain \/ Closed \/ Abort \/ NewClient
    PROVE  Rest'
<1> USE SessionAssumption
    DEF SessionInv, Rest, Ranges, PollingIsAlive, ConnectionsArePaid, GenerationIsNewest,
        OwnEvent, States, Gone, Closing, clientVars, loopVars
<1>1. CASE Enqueue
  BY <1>1 DEF Enqueue, Available
<1>2. ASSUME NEW e \in held, Acknowledge(e)
      PROVE  Rest'
  BY <1>2 DEF Acknowledge, Available
<1>3. ASSUME NEW e \in held, Forget(e)
      PROVE  Rest'
  BY <1>3 DEF Forget
<1>4. CASE Close
  BY <1>4 DEF Close, Available
<1>5. CASE Drain
  BY <1>5 DEF Drain
<1>6. CASE Closed
  BY <1>6 DEF Closed
<1>7. CASE Abort
  BY <1>7 DEF Abort
<1>8. CASE NewClient
  <2>1. Ranges' /\ PollingIsAlive' /\ ConnectionsArePaid'
    BY <1>8 DEF NewClient
  <2>2. GenerationIsNewest'
    BY <1>8 DEF NewClient, Events
  <2> QED
    BY <2>1, <2>2
<1> QED
  BY <1>1, <1>2, <1>3, <1>4, <1>5, <1>6, <1>7, <1>8

LEMMA SessionNextKeeps == ASSUME SessionInv, [Next]_vars PROVE SessionInv'
<1>1. CASE UNCHANGED vars
  BY <1>1, FlagsKeep DEF vars, clientVars, loopVars, SessionInv, Rest, Ranges, PollingIsAlive,
     ConnectionsArePaid, GenerationIsNewest, OwnEvent, Closing
<1>2. CASE Next
  BY <1>2, FlagsKeep, PollKeeps, CallKeeps DEF Next, SessionInv
<1> QED
  BY <1>1, <1>2

LEMMA SessionInvHolds == Spec => []SessionInv
<1>1. Init => SessionInv
  BY SessionInitHolds
<1>2. SessionInv /\ [Next]_vars => SessionInv'
  BY SessionNextKeeps
<1> QED
  BY <1>1, <1>2, PTL DEF Spec

-----------------------------------------------------------------------------
(* max_reconnects bounds the connections of a client's whole life, those it  *)
(* makes while it is being closed included.                                  *)
THEOREM ConnectionsBounded == Spec => []ConnectionsAreBounded
<1>1. SessionInv => ConnectionsAreBounded
  BY SessionAssumption
  DEF SessionInv, Rest, Flags, Ranges, ConnectionsArePaid, ConnectionsAreBounded, SessionTypeOK
<1> QED
  BY <1>1, SessionInvHolds, PTL

(* acknowledge and the busy flag: whatever the application kept from earlier *)
(* connections and clients is refused, and a client whose poll was cancelled *)
(* is never used again.                                                      *)
THEOREM StaleRefused == Spec => StaleIsRefused
<1>1. ASSUME SessionInv, [Next]_vars
      PROVE  [\A e \in held : Acknowledge(e) => e.link = newest]_vars
  BY <1>1 DEF SessionInv, Rest, GenerationIsNewest, Acknowledge, Available, Closing, Gone
<1>2. ASSUME SessionInv, [Next]_vars
      PROVE  [busy /\ ~polling /\ owner' = owner =>
                /\ queue' =< queue /\ generation' = generation
                /\ busy' /\ ~polling']_vars
  <2> SUFFICES ASSUME Next, busy, ~polling, owner' = owner
               PROVE  /\ queue' =< queue /\ generation' = generation
                      /\ busy' /\ ~polling'
    BY <1>2
  <2>1. queue \in Nat /\ owner \in Nat
    BY <1>2, SessionAssumption DEF SessionInv, Rest, Ranges
  <2>2. ~ Poll /\ ~ PollEndsSomehow /\ ~ PollCancelled /\ ~ Enqueue /\ ~ Close
    BY DEF Poll, PollEndsSomehow, PollCancelled, Enqueue, Close, Available, ConnAck, Outgoing,
       PollTimeout, Incoming, PollError, PollEnds
  <2>3. \/ \E e \in held : Forget(e)
        \/ Drain \/ Closed \/ Abort
    <3>1. ~ NewClient
      BY <2>1 DEF NewClient
    <3>2. \A e \in held : ~ Acknowledge(e)
      BY DEF Acknowledge, Available
    <3> QED
      BY <2>2, <3>1, <3>2 DEF Next
  <2>4. queue' =< queue
    <3>1. queue' = queue \/ queue' = queue - 1
      <4>1. CASE \E e \in held : Forget(e)
        BY <4>1 DEF Forget, loopVars
      <4>2. CASE Drain
        BY <4>2 DEF Drain
      <4>3. CASE Closed
        BY <4>3 DEF Closed
      <4>4. CASE Abort
        BY <4>4 DEF Abort
      <4> QED
        BY <2>3, <4>1, <4>2, <4>3, <4>4
    <3> QED
      BY <2>1, <3>1
  <2>5. generation' = generation /\ busy' = busy /\ polling' = polling
    <3>1. CASE \E e \in held : Forget(e)
      BY <3>1 DEF Forget, clientVars
    <3>2. CASE Drain
      BY <3>2 DEF Drain
    <3>3. CASE Closed
      BY <3>3 DEF Closed
    <3>4. CASE Abort
      BY <3>4 DEF Abort
    <3> QED
      BY <2>3, <3>1, <3>2, <3>3, <3>4
  <2>6. busy' /\ ~polling'
    BY <2>5
  <2> QED
    BY <2>4, <2>5, <2>6
<1> QED
  BY <1>1, <1>2, SessionInvHolds, PTL DEF Spec, StaleIsRefused, AcksFollowTheNewest, PoisonIsFinal

-----------------------------------------------------------------------------
(* The Modbus client: its calls are reported truthfully.                     *)

(* The type.  An answer's own type does not matter, only whose answer it is. *)
Reports == {"inFlight", "Configuration", "Closed", "Protocol", "Timeout", "Connection",
            "OutcomeUnknown", "cancelled", "Exception", "Ok"}
Calls == [request : DeviceRequests, report : Reports, dispatched : BOOLEAN, answer : Nat]
Sequence(s) == \E S : s \in Seq(S)
Shape ==
    /\ calls \in Seq(Calls)
    /\ toDevice \in Seq([id : Nat, on : Nat])
    /\ executed \in Seq(Nat) /\ Len(executed) = Len(calls)
    /\ Sequence(answers)
    /\ connection \in Nat
    /\ context \in {"open", "taken", "none"}

(* A call is asked of the device once and answered once, in this order.      *)
OnceEach(s) == \A i, j \in 1..Len(s) : s[i].id = s[j].id => i = j
Asked(id) == \E i \in 1..Len(toDevice) : toDevice[i].id = id
Ran(answer) == IF answer.exception THEN 0 ELSE 1
Courses ==
    /\ OnceEach(toDevice) /\ OnceEach(answers)
    /\ \A i \in 1..Len(toDevice) :
         /\ toDevice[i].id \in 1..Len(calls) /\ calls[toDevice[i].id].dispatched
         /\ executed[toDevice[i].id] = 0
         /\ toDevice[i].on =< connection
    /\ \A i \in 1..Len(answers) :
         /\ answers[i].id \in 1..Len(calls) /\ calls[answers[i].id].dispatched
         /\ ~Asked(answers[i].id)
         /\ executed[answers[i].id] = Ran(answers[i])
    /\ \A id \in 1..Len(calls) : ~calls[id].dispatched => executed[id] = 0

(* The context is taken exactly while the last call is in flight.  One that  *)
(* is put back leaves nothing behind on its connection; one that is taken    *)
(* has on it what concerns that call, and nothing else.                      *)
Owed == \E i \in 1..Len(toDevice) : toDevice[i].on = connection
LastInFlight == Len(calls) # 0 /\ calls[Len(calls)].report = "inFlight"
Exchange ==
    /\ context = "taken" <=> LastInFlight
    /\ \A id \in 1..Len(calls) : calls[id].report = "inFlight" => id = Len(calls)
    /\ context = "open" => Len(answers) = 0 /\ ~Owed
    /\ context = "taken" =>
         /\ \A i \in 1..Len(toDevice) :
               toDevice[i].on = connection => toDevice[i].id = Len(calls)
         /\ \A i \in 1..Len(answers) : answers[i].id = Len(calls)

Truthful(id) ==
    /\ calls[id].report \in {"Ok", "Exception"} => calls[id].answer = id
    /\ executed[id] =< 1
    /\ calls[id].report = "Ok" => executed[id] = 1
    /\ (~ReadOnly(calls[id].request)
          /\ calls[id].report \notin {"inFlight", "Ok", "OutcomeUnknown", "cancelled"}) =>
         executed[id] = 0 /\ ~Asked(id)
AllTruthful == \A id \in 1..Len(calls) : Truthful(id)

ModbusInv == Shape /\ Courses /\ Exchange /\ AllTruthful

-----------------------------------------------------------------------------
(* What the operators on sequences do. *)
LEMMA SequenceShape ==
    ASSUME NEW s, Sequence(s)
    PROVE  Len(s) \in Nat /\ DOMAIN s = 1..Len(s) /\ (Len(s) = 0 <=> s = <<>>)
BY LenProperties, EmptySeq DEF Sequence

LEMMA AppendReads ==
    ASSUME NEW s, Sequence(s), NEW e
    PROVE  /\ Sequence(Append(s, e))
           /\ Len(Append(s, e)) = Len(s) + 1
           /\ \A i \in 1..Len(s) : Append(s, e)[i] = s[i]
           /\ Append(s, e)[Len(s) + 1] = e
<1>1. PICK S : s \in Seq(S)
  BY DEF Sequence
<1>2. s \in Seq(S \cup {e}) /\ e \in S \cup {e}
  BY <1>1, SeqMonotonic
<1> QED
  BY <1>2, AppendProperties DEF Sequence

LEMMA TailReads ==
    ASSUME NEW s, Sequence(s), s # <<>>
    PROVE  /\ Sequence(Tail(s))
           /\ Len(s) >= 1 /\ Len(Tail(s)) = Len(s) - 1
           /\ Head(s) = s[1]
           /\ \A i \in 1..Len(s) - 1 : Tail(s)[i] = s[i + 1]
<1>1. PICK S : s \in Seq(S)
  BY DEF Sequence
<1>2. /\ Tail(s) \in Seq(S) /\ Len(Tail(s)) = Len(s) - 1
      /\ \A i \in 1..Len(Tail(s)) : Tail(s)[i] = s[i + 1]
  BY <1>1, HeadTailProperties
<1>3. Len(s) \in Nat /\ Len(Tail(s)) \in Nat
  BY <1>1, <1>2, LenProperties
<1> QED
  BY <1>1, <1>2, <1>3 DEF Sequence

LEMMA ModbusInitHolds == ASSUME ModbusInit PROVE ModbusInv
<1>1. Len(calls) = 0 /\ Len(toDevice) = 0 /\ Len(answers) = 0 /\ Len(executed) = 0
  BY DEF ModbusInit
<1>2. Shape
  BY <1>1 DEF ModbusInit, Shape, Sequence
<1> QED
  BY <1>1, <1>2 DEF ModbusInit, ModbusInv, Courses, OnceEach, Exchange, LastInFlight, AllTruthful

LEMMA InFlightIsLast ==
    ASSUME ModbusInv
    PROVE  /\ Len(calls) \in Nat
           /\ InFlight <=> LastInFlight
           /\ InFlight => Len(calls) \in 1..Len(calls) /\ calls[Len(calls)] \in Calls
           /\ InFlight <=> context = "taken"
<1>1. calls \in Seq(Calls) /\ Len(calls) \in Nat /\ (calls = <<>> <=> Len(calls) = 0)
  BY EmptySeq, LenProperties DEF ModbusInv, Shape
<1>2. InFlight <=> LastInFlight
  BY <1>1 DEF InFlight, LastInFlight, Current
<1>3. LastInFlight => Len(calls) \in 1..Len(calls)
  BY <1>1 DEF LastInFlight
<1>4. LastInFlight => calls[Len(calls)] \in Calls
  BY <1>1, <1>3, ElementOfSeq
<1> QED
  BY <1>1, <1>2, <1>3, <1>4 DEF ModbusInv, Exchange

-----------------------------------------------------------------------------
LEMMA ConnectKeeps ==
    ASSUME ModbusInv, NEW unit, Connect(unit)
    PROVE  ModbusInv'
<1>1. /\ connection' = connection + 1 /\ context' = "open" /\ answers' = <<>>
      /\ calls' = calls /\ toDevice' = toDevice /\ executed' = executed
      /\ ~LastInFlight
  BY InFlightIsLast DEF Connect
<1>2. Len(answers') = 0
  BY <1>1
<1>3. Shape'
  BY <1>1 DEF ModbusInv, Shape, Sequence
<1>4. \A i \in 1..Len(toDevice) : toDevice[i].on \in Nat
  <2>1. \A i \in 1..Len(toDevice) : toDevice[i] \in [id : Nat, on : Nat]
    BY ElementOfSeq DEF ModbusInv, Shape
  <2> QED
    BY <2>1
<1>5. Courses'
  BY <1>1, <1>2, <1>4 DEF ModbusInv, Shape, Courses, OnceEach, Asked
<1>6. Exchange'
  <2>1. ~LastInFlight' /\ context' # "taken"
    BY <1>1 DEF LastInFlight
  <2>2. \A i \in 1..Len(toDevice) : toDevice[i].on =< connection
    BY DEF ModbusInv, Courses
  <2>3. ~Owed'
    BY <1>1, <1>4, <2>2 DEF Owed, ModbusInv, Shape
  <2>4. (\A id \in 1..Len(calls) : calls[id].report = "inFlight" => id = Len(calls))'
    BY <1>1 DEF ModbusInv, Exchange
  <2> QED
    BY <1>1, <1>2, <2>1, <2>3, <2>4 DEF Exchange
<1>7. AllTruthful'
  BY <1>1 DEF ModbusInv, AllTruthful, Truthful, Asked
<1> QED
  BY <1>3, <1>5, <1>6, <1>7 DEF ModbusInv

(* A call begins: it is the last one, and nothing has been done for it. *)
LEMMA CallStartKeeps ==
    ASSUME ModbusInv, NEW request \in DeviceRequests, CallStart(request)
    PROVE  ModbusInv'
<1> DEFINE Begun(r) == [request |-> request, report |-> r, dispatched |-> FALSE, answer |-> 0]
<1>0. PICK n \in Nat : n = Len(calls)
  BY InFlightIsLast
<1>1. ~LastInFlight /\ context # "taken"
  BY InFlightIsLast DEF CallStart
<1>2. PICK r \in {"Configuration", "Closed", "inFlight"} :
        /\ calls' = Append(calls, Begun(r))
        /\ IF r = "inFlight" THEN context = "open" /\ context' = "taken"
           ELSE context' = context
  <2>1. context = "open" \/ context = "none"
    BY <1>1 DEF ModbusInv, Shape
  <2> QED
    BY <2>1 DEF CallStart
<1>3. /\ executed' = Append(executed, 0) /\ connection' = connection
      /\ toDevice' = toDevice /\ answers' = answers
  BY DEF CallStart
<1>4. Begun(r) \in Calls
  BY <1>2 DEF Calls, Reports
<1>5. /\ calls' \in Seq(Calls) /\ Len(calls') = n + 1
      /\ \A i \in 1..n : calls'[i] = calls[i]
      /\ calls'[n + 1] = Begun(r)
  BY <1>0, <1>2, <1>4, AppendProperties DEF ModbusInv, Shape
<1>6. /\ executed' \in Seq(Nat) /\ Len(executed') = n + 1
      /\ \A i \in 1..n : executed'[i] = executed[i]
      /\ executed'[n + 1] = 0
  BY <1>0, <1>3, AppendProperties DEF ModbusInv, Shape
<1>7. Shape'
  BY <1>0, <1>2, <1>3, <1>5, <1>6 DEF ModbusInv, Shape
<1>8. ~Asked(n + 1)
  BY <1>0, <1>1 DEF ModbusInv, Courses, Asked
<1>9. Courses'
  <2>1. OnceEach(toDevice)' /\ OnceEach(answers)'
    BY <1>3 DEF ModbusInv, Courses, OnceEach
  <2>2. \A i \in 1..Len(toDevice) :
         /\ toDevice[i].id \in 1..n + 1 /\ calls'[toDevice[i].id].dispatched
         /\ executed'[toDevice[i].id] = 0
         /\ toDevice[i].on =< connection
    <3> SUFFICES ASSUME NEW i \in 1..Len(toDevice)
                 PROVE  /\ toDevice[i].id \in 1..n + 1 /\ calls'[toDevice[i].id].dispatched
                        /\ executed'[toDevice[i].id] = 0
                        /\ toDevice[i].on =< connection
      OBVIOUS
    <3>1. /\ toDevice[i].id \in 1..n /\ calls[toDevice[i].id].dispatched
          /\ executed[toDevice[i].id] = 0
          /\ toDevice[i].on =< connection
      BY <1>0 DEF ModbusInv, Courses
    <3>2. toDevice[i].id \in 1..n + 1
      BY <1>1, <3>1
    <3>3. calls'[toDevice[i].id] = calls[toDevice[i].id]
      BY <1>5, <3>1
    <3> QED
      BY <1>6, <3>1, <3>2, <3>3
  <2>3. \A i \in 1..Len(answers) :
         /\ answers[i].id \in 1..n + 1 /\ calls'[answers[i].id].dispatched
         /\ ~Asked(answers[i].id)
         /\ executed'[answers[i].id] = Ran(answers[i])
    BY <1>0, <1>1, <1>5, <1>6 DEF ModbusInv, Courses
  <2>4. \A id \in 1..n + 1 : ~calls'[id].dispatched => executed'[id] = 0
    BY <1>0, <1>1, <1>5, <1>6 DEF ModbusInv, Courses
  <2>5. \A i \in 1..Len(answers) : ~Asked(answers[i].id)'
    BY <1>3, <2>3 DEF Asked
  <2>6. \A a : Ran(a)' = Ran(a)
    BY DEF Ran
  <2> QED
    BY <1>3, <1>5, <2>1, <2>2, <2>3, <2>4, <2>5, <2>6 DEF Courses
<1>10. Exchange'
  <2>1. (context' = "taken") <=> r = "inFlight"
    BY <1>1, <1>2
  <2>2. LastInFlight' <=> r = "inFlight"
    BY <1>0, <1>1, <1>5 DEF LastInFlight
  <2>3. \A id \in 1..n + 1 : calls'[id].report = "inFlight" => id = n + 1
    BY <1>0, <1>1, <1>5 DEF ModbusInv, Exchange, LastInFlight
  <2>4. context' # "none" => context = "open"
    BY <1>1, <1>2 DEF ModbusInv, Shape
  <2>5. context' # "none" => Len(answers') = 0 /\ ~Owed'
    BY <1>3, <2>4 DEF ModbusInv, Exchange, Owed
  <2>6. Len(answers') = 0 => \A i \in 1..Len(answers') : answers'[i].id = Len(calls')
    OBVIOUS
  <2> QED
    BY <1>5, <2>1, <2>2, <2>3, <2>5, <2>6 DEF Exchange, Owed
<1>11. AllTruthful'
  <2>1. ASSUME NEW id \in 1..n
        PROVE  Truthful(id)'
    <3>1. Truthful(id) /\ calls'[id] = calls[id] /\ executed'[id] = executed[id]
      BY <1>0, <1>5, <1>6 DEF ModbusInv, AllTruthful
    <3>2. Asked(id)' <=> Asked(id)
      BY <1>3 DEF Asked
    <3> QED
      BY <3>1, <3>2 DEF Truthful
  <2>2. Truthful(n + 1)'
    <3>1. Asked(n + 1)' <=> Asked(n + 1)
      BY <1>3 DEF Asked
    <3>2. calls'[n + 1].report = r /\ r \notin {"Ok", "Exception"}
      BY <1>2, <1>5
    <3> QED
      BY <1>6, <1>8, <3>1, <3>2 DEF Truthful
  <2> QED
    BY <1>0, <1>1, <1>5, <2>1, <2>2 DEF AllTruthful
<1> QED
  BY <1>7, <1>9, <1>10, <1>11 DEF ModbusInv

(* A step that changes one call leaves the others as they were. *)
CallBecomes(n, c) ==
    /\ calls' \in Seq(Calls) /\ Len(calls') = Len(calls)
    /\ \A id \in 1..Len(calls) : calls'[id] = IF id = n THEN c ELSE calls[id]

LEMMA CallReads ==
    ASSUME Shape, NEW n \in 1..Len(calls), NEW c \in Calls, calls' = [calls EXCEPT ![n] = c]
    PROVE  CallBecomes(n, c)
BY ExceptSeq DEF Shape, CallBecomes

LEMMA DispatchedReads ==
    ASSUME NEW c \in Calls
    PROVE  /\ [c EXCEPT !.dispatched = TRUE] \in Calls
           /\ [c EXCEPT !.dispatched = TRUE].request = c.request
           /\ [c EXCEPT !.dispatched = TRUE].report = c.report
           /\ [c EXCEPT !.dispatched = TRUE].dispatched
BY DEF Calls

LEMMA ReportReads ==
    ASSUME NEW c \in Calls, NEW r \in Reports, NEW a \in Nat
    PROVE
           /\ [c EXCEPT !.report = r] \in Calls
           /\ [c EXCEPT !.report = r].request = c.request
           /\ [c EXCEPT !.report = r].report = r
           /\ [c EXCEPT !.report = r].dispatched = c.dispatched
           /\ [c EXCEPT !.answer = a] \in Calls
           /\ [c EXCEPT !.answer = a].request = c.request
           /\ [c EXCEPT !.answer = a].report = c.report
           /\ [c EXCEPT !.answer = a].answer = a
           /\ [c EXCEPT !.answer = a].dispatched = c.dispatched
BY DEF Calls

LEMMA DispatchKeeps ==
    ASSUME ModbusInv, Dispatch
    PROVE  ModbusInv'
<1>1. PICK n \in 1..Len(calls) : n = Len(calls) /\ calls[n] \in Calls
  BY InFlightIsLast DEF Dispatch
<1>2. PICK k \in Nat : k = Len(toDevice)
  BY SequenceShape DEF ModbusInv, Shape, Sequence
<1> DEFINE c == [calls[n] EXCEPT !.dispatched = TRUE]
<1>3. /\ context = "taken" /\ LastInFlight /\ ~calls[n].dispatched
      /\ connection' = connection /\ context' = context
      /\ answers' = answers /\ executed' = executed
      /\ toDevice' = Append(toDevice, [id |-> n, on |-> connection])
  BY <1>1, InFlightIsLast DEF Dispatch, Current
<1>4. c \in Calls
  BY <1>1, DispatchedReads
<1>5. CallBecomes(n, c)
  <2>1. calls' = [calls EXCEPT ![n].dispatched = TRUE]
    BY <1>1 DEF Dispatch, Current
  <2>2. calls' = [calls EXCEPT ![n] = c]
    BY <2>1
  <2> QED
    BY <1>4, <2>2, CallReads DEF ModbusInv
<1> HIDE DEF c
<1>6. c.request = calls[n].request /\ c.report = calls[n].report /\ c.dispatched
  BY <1>1, DispatchedReads DEF c
<1>7. /\ toDevice' \in Seq([id : Nat, on : Nat]) /\ Len(toDevice') = k + 1
      /\ \A i \in 1..k : toDevice'[i] = toDevice[i]
      /\ toDevice'[k + 1] = [id |-> n, on |-> connection]
  <2>1. [id |-> n, on |-> connection] \in [id : Nat, on : Nat]
    BY <1>1 DEF ModbusInv, Shape
  <2> QED
    BY <1>2, <1>3, <2>1, AppendProperties DEF ModbusInv, Shape
<1>8. ~Asked(n) /\ executed[n] = 0 /\ Len(answers) = 0
  <2>1. ~Asked(n)
    BY <1>3 DEF ModbusInv, Courses, Asked
  <2>2. executed[n] = 0
    BY <1>3 DEF ModbusInv, Courses
  <2>3. \A i \in 1..Len(answers) : FALSE
    BY <1>1, <1>3 DEF ModbusInv, Courses, Exchange
  <2>4. Len(answers) \in Nat
    BY SequenceShape DEF ModbusInv, Shape
  <2> QED
    BY <2>1, <2>2, <2>3, <2>4
<1>9. \A id \in 1..Len(calls) : id # n => (Asked(id)' <=> Asked(id))
  <2> SUFFICES ASSUME NEW id \in 1..Len(calls), id # n
               PROVE  Asked(id)' <=> Asked(id)
    OBVIOUS
  <2>1. \A i \in 1..k + 1 : i \in 1..k \/ toDevice'[i].id # id
    BY <1>7
  <2>2. \A i \in 1..k : i \in 1..k + 1 /\ toDevice'[i] = toDevice[i]
    BY <1>7
  <2> QED
    BY <1>2, <1>7, <2>1, <2>2 DEF Asked
<1>10. Shape'
  BY <1>3, <1>5, <1>7 DEF ModbusInv, Shape, CallBecomes
<1>11. Courses'
  <2>1. OnceEach(toDevice)'
    <3>1. \A i \in 1..k : toDevice'[i].id # n
      BY <1>2, <1>7, <1>8 DEF Asked
    <3>2. \A i, j \in 1..k : toDevice'[i].id = toDevice'[j].id => i = j
      BY <1>2, <1>7 DEF ModbusInv, Courses, OnceEach
    <3>3. \A i \in 1..k + 1 : i \in 1..k \/ i = k + 1
      OBVIOUS
    <3>4. toDevice'[k + 1].id = n
      BY <1>7
    <3> QED
      BY <1>7, <3>1, <3>2, <3>3, <3>4 DEF OnceEach
  <2>2. ASSUME NEW i \in 1..k + 1
        PROVE  /\ toDevice'[i].id \in 1..Len(calls) /\ calls'[toDevice'[i].id].dispatched
               /\ executed[toDevice'[i].id] = 0
               /\ toDevice'[i].on =< connection
    <3>1. CASE i = k + 1
      BY <1>5, <1>6, <1>7, <1>8, <3>1 DEF CallBecomes, ModbusInv, Shape
    <3>2. CASE i \in 1..k
      <4>1. /\ toDevice[i].id \in 1..Len(calls) /\ calls[toDevice[i].id].dispatched
            /\ executed[toDevice[i].id] = 0
            /\ toDevice[i].on =< connection
        BY <1>2, <3>2 DEF ModbusInv, Courses
      <4>2. toDevice[i].id # n
        BY <1>3, <4>1
      <4>3. calls'[toDevice[i].id] = calls[toDevice[i].id]
        BY <1>5, <4>1, <4>2 DEF CallBecomes
      <4> QED
        BY <1>7, <3>2, <4>1, <4>3
    <3> QED
      BY <1>2, <3>1, <3>2
  <2>3. \A id \in 1..Len(calls) : ~calls'[id].dispatched => executed[id] = 0
    BY <1>5, <1>8 DEF ModbusInv, Courses, CallBecomes
  <2>4. OnceEach(answers)'
    BY <1>3 DEF ModbusInv, Courses, OnceEach
  <2>5. (\A i \in 1..Len(answers) :
         /\ answers[i].id \in 1..Len(calls) /\ calls[answers[i].id].dispatched
         /\ ~Asked(answers[i].id)
         /\ executed[answers[i].id] = Ran(answers[i]))'
    BY <1>3, <1>8
  <2>6. Len(calls') = Len(calls)
    BY <1>5 DEF CallBecomes
  <2> QED
    BY <1>3, <1>7, <2>1, <2>2, <2>3, <2>4, <2>5, <2>6 DEF Courses
<1>12. Exchange'
  <2>1. LastInFlight'
    BY <1>1, <1>3, <1>5, <1>6 DEF LastInFlight, CallBecomes
  <2>2. \A id \in 1..Len(calls) : calls'[id].report = "inFlight" => id = n
    BY <1>1, <1>5 DEF ModbusInv, Exchange, CallBecomes
  <2>3. \A i \in 1..k + 1 : toDevice'[i].on = connection => toDevice'[i].id = n
    BY <1>1, <1>2, <1>3, <1>7 DEF ModbusInv, Exchange
  <2>4. Len(calls') = n /\ Len(toDevice') = k + 1 /\ context' = "taken"
    BY <1>1, <1>3, <1>5, <1>7 DEF CallBecomes
  <2>5. Len(answers') = 0
    BY <1>3, <1>8
  <2> QED
    BY <1>1, <1>3, <2>1, <2>2, <2>3, <2>4, <2>5 DEF Exchange
<1>13. AllTruthful'
  <2> SUFFICES ASSUME NEW id \in 1..Len(calls)
               PROVE  Truthful(id)'
    BY <1>5 DEF AllTruthful, CallBecomes
  <2>1. Truthful(id)
    BY DEF ModbusInv, AllTruthful
  <2>2. CASE id = n
    <3>1. calls'[id].report = "inFlight"
      BY <1>1, <1>3, <1>5, <1>6, <2>2 DEF LastInFlight, CallBecomes
    <3> QED
      BY <1>3, <1>8, <2>2, <3>1 DEF Truthful
  <2>3. CASE id # n
    <3>1. calls'[id] = calls[id] /\ (Asked(id)' <=> Asked(id))
      BY <1>5, <1>9, <2>3 DEF CallBecomes
    <3> QED
      BY <1>3, <2>1, <3>1 DEF Truthful
  <2> QED
    BY <2>2, <2>3
<1> QED
  BY <1>10, <1>11, <1>12, <1>13 DEF ModbusInv

-----------------------------------------------------------------------------
(* What is left of the answers when one is taken out. *)
LEMMA TailOfAnswers ==
    ASSUME NEW s, Sequence(s), s # <<>>, OnceEach(s)
    PROVE  /\ Sequence(Tail(s)) /\ OnceEach(Tail(s))
           /\ 1 \in 1..Len(s) /\ Head(s) = s[1]
           /\ \A i \in 1..Len(Tail(s)) :
                i + 1 \in 1..Len(s) /\ Tail(s)[i] = s[i + 1] /\ s[i + 1].id # s[1].id
<1>1. PICK n \in Nat : n = Len(s)
  BY SequenceShape
<1>2. PICK q : q = Tail(s)
  OBVIOUS
<1>3. /\ Sequence(q) /\ n >= 1 /\ Len(q) = n - 1 /\ Head(s) = s[1]
      /\ \A i \in 1..n - 1 : q[i] = s[i + 1]
  BY <1>1, <1>2, TailReads
<1>4. \A i \in 1..n - 1 : i + 1 \in 1..n /\ i + 1 # 1 /\ 1 \in 1..n
  BY <1>3
<1>5. \A i, j \in 1..n : s[i].id = s[j].id => i = j
  BY <1>1 DEF OnceEach
<1>6. OnceEach(q)
  BY <1>1, <1>3, <1>4, <1>5 DEF OnceEach
<1> QED
  BY <1>1, <1>2, <1>3, <1>4, <1>5, <1>6

(* A call ends: the device's side is as it was, the context is back only     *)
(* with nothing left on the connection, and the report is the truth.         *)
EndsTruthfully(n, c) ==
    /\ c.report \in {"Ok", "Exception"} => c.answer = n
    /\ c.report = "Ok" => executed[n] = 1
    /\ (~ReadOnly(c.request) /\ c.report \notin {"Ok", "OutcomeUnknown", "cancelled"}) =>
         executed[n] = 0 /\ ~Asked(n)
Remain ==
    /\ Sequence(answers') /\ OnceEach(answers')
    /\ \A i \in 1..Len(answers') : \E j \in 1..Len(answers) : answers'[i] = answers[j]

LEMMA CallEndKeeps ==
    ASSUME ModbusInv, InFlight, NEW n \in 1..Len(calls), n = Len(calls),
           NEW c \in Calls, CallBecomes(n, c), EndsTruthfully(n, c),
           c.request = calls[n].request, c.dispatched = calls[n].dispatched,
           c.report # "inFlight",
           connection' = connection, toDevice' = toDevice, executed' = executed,
           Remain,
           context' = "none" \/ (context' = "open" /\ Len(answers') = 0 /\ ~Owed)
    PROVE  ModbusInv'
<1>1. Shape'
  BY DEF ModbusInv, Shape, CallBecomes, Remain
<1>2. \A id : Asked(id)' <=> Asked(id)
  BY DEF Asked
<1>3. Courses'
  <2>1. (\A i \in 1..Len(toDevice) :
         /\ toDevice[i].id \in 1..Len(calls) /\ calls[toDevice[i].id].dispatched
         /\ executed[toDevice[i].id] = 0
         /\ toDevice[i].on =< connection)'
    BY DEF ModbusInv, Courses, CallBecomes
  <2>2. ASSUME NEW i \in 1..Len(answers')
        PROVE  /\ answers'[i].id \in 1..Len(calls) /\ calls'[answers'[i].id].dispatched
               /\ ~Asked(answers'[i].id)
               /\ executed[answers'[i].id] = Ran(answers'[i])
    <3>1. PICK j \in 1..Len(answers) : answers'[i] = answers[j]
      BY DEF Remain
    <3>2. /\ answers[j].id \in 1..Len(calls) /\ calls[answers[j].id].dispatched
          /\ ~Asked(answers[j].id)
          /\ executed[answers[j].id] = Ran(answers[j])
      BY DEF ModbusInv, Courses
    <3>3. calls'[answers[j].id].dispatched
      BY <3>2 DEF CallBecomes
    <3> QED
      BY <3>1, <3>2, <3>3
  <2>3. (\A i \in 1..Len(answers) : ~Asked(answers[i].id))'
    BY <2>2 DEF Asked
  <2>4. \A id \in 1..Len(calls) : ~calls'[id].dispatched => executed[id] = 0
    BY DEF ModbusInv, Courses, CallBecomes
  <2>5. OnceEach(toDevice)' /\ OnceEach(answers)' /\ Len(calls') = Len(calls)
    BY DEF ModbusInv, Courses, OnceEach, Remain, CallBecomes
  <2>6. \A x : Ran(x)' = Ran(x)
    BY DEF Ran
  <2> QED
    BY <2>1, <2>2, <2>3, <2>4, <2>5, <2>6 DEF Courses
<1>4. Exchange'
  <2>1. ~LastInFlight'
    BY DEF LastInFlight, CallBecomes
  <2>2. \A id \in 1..Len(calls) : calls'[id].report # "inFlight"
    BY DEF ModbusInv, Exchange, CallBecomes
  <2>3. Owed' <=> Owed
    BY DEF Owed
  <2> QED
    BY <2>1, <2>2, <2>3 DEF Exchange, CallBecomes
<1>5. AllTruthful'
  <2> SUFFICES ASSUME NEW id \in 1..Len(calls)
               PROVE  Truthful(id)'
    BY DEF AllTruthful, CallBecomes
  <2>1. Truthful(id) /\ (Asked(id)' <=> Asked(id))
    BY <1>2 DEF ModbusInv, AllTruthful
  <2>2. CASE id = n
    <3>1. calls'[id] = c
      BY <2>2 DEF CallBecomes
    <3> QED
      BY <2>1, <2>2, <3>1 DEF Truthful, EndsTruthfully
  <2>3. CASE id # n
    <3>1. calls'[id] = calls[id]
      BY <2>3 DEF CallBecomes
    <3> QED
      BY <2>1, <3>1 DEF Truthful
  <2> QED
    BY <2>2, <2>3
<1> QED
  BY <1>1, <1>3, <1>4, <1>5 DEF ModbusInv

(* The deadline, a failing stream, a future that is dropped: the caller of a *)
(* write is told that nobody knows, or is told nothing.                      *)
LEMMA GivenUpKeeps ==
    ASSUME ModbusInv, TimeOut \/ TransportFails \/ CancelCall
    PROVE  ModbusInv'
<1>1. PICK n \in 1..Len(calls) : n = Len(calls) /\ calls[n] \in Calls
  BY InFlightIsLast DEF TimeOut, TransportFails, CancelCall
<1>2. PICK r \in Reports :
        /\ calls' = [calls EXCEPT ![n].report = r]
        /\ r \in {"OutcomeUnknown", "cancelled"} \/ ReadOnly(calls[n].request)
        /\ r \notin {"Ok", "Exception", "inFlight"}
  BY <1>1 DEF TimeOut, TransportFails, CancelCall, Reported, Doubt, Current, Reports
<1>3. /\ InFlight /\ context' = "none" /\ connection' = connection
      /\ toDevice' = toDevice /\ executed' = executed /\ answers' = answers
  BY DEF TimeOut, TransportFails, CancelCall
<1> DEFINE c == [calls[n] EXCEPT !.report = r]
<1>4. /\ c \in Calls /\ c.request = calls[n].request /\ c.dispatched = calls[n].dispatched
      /\ c.report = r
  <2>1. 0 \in Nat
    OBVIOUS
  <2> QED
    BY <1>1, <2>1, ReportReads
<1>5. calls' = [calls EXCEPT ![n] = c]
  BY <1>2
<1> HIDE DEF c
<1>6. CallBecomes(n, c)
  BY <1>4, <1>5, CallReads DEF ModbusInv
<1>7. EndsTruthfully(n, c)
  BY <1>2, <1>4 DEF EndsTruthfully
<1>8. Remain
  BY <1>3 DEF ModbusInv, Shape, Courses, Remain
<1> QED
  BY <1>1, <1>2, <1>3, <1>4, <1>6, <1>7, <1>8, CallEndKeeps

(* The answer to the call is the only thing its connection still holds. *)
LEMMA AnswerIsTheCalls ==
    ASSUME ModbusInv, InFlight, answers # <<>>, NEW n \in 1..Len(calls), n = Len(calls)
    PROVE  /\ Head(answers).id = n /\ ~Asked(n) /\ executed[n] = Ran(Head(answers))
           /\ Len(Tail(answers)) = 0 /\ Sequence(Tail(answers)) /\ OnceEach(Tail(answers))
           /\ ~Owed
<1>1. context = "taken"
  BY InFlightIsLast
<1>2. Sequence(answers) /\ OnceEach(answers)
  BY DEF ModbusInv, Shape, Courses
<1>3. /\ Sequence(Tail(answers)) /\ OnceEach(Tail(answers))
      /\ 1 \in 1..Len(answers) /\ Head(answers) = answers[1]
      /\ \A i \in 1..Len(Tail(answers)) :
            i + 1 \in 1..Len(answers) /\ answers[i + 1].id # answers[1].id
  BY <1>2, TailOfAnswers
<1>4. \A i \in 1..Len(answers) : answers[i].id = n
  BY <1>1 DEF ModbusInv, Exchange
<1>5. Len(Tail(answers)) = 0
  <2>1. \A i \in 1..Len(Tail(answers)) : FALSE
    BY <1>3, <1>4
  <2>2. PICK m \in Nat : m = Len(Tail(answers))
    BY <1>3, SequenceShape
  <2>3. m >= 1 => 1 \in 1..m
    OBVIOUS
  <2> QED
    BY <2>1, <2>2, <2>3
<1>6. ~Asked(n) /\ executed[n] = Ran(answers[1])
  BY <1>3, <1>4 DEF ModbusInv, Courses
<1>7. ~Owed
  BY <1>1, <1>6 DEF Owed, Asked, ModbusInv, Exchange
<1> QED
  BY <1>3, <1>4, <1>5, <1>6, <1>7

LEMMA ReceiveKeeps ==
    ASSUME ModbusInv, Receive
    PROVE  ModbusInv'
<1>1. PICK n \in 1..Len(calls) : n = Len(calls) /\ calls[n] \in Calls
  BY InFlightIsLast DEF Receive
<1>2. PICK answer : answer = Head(answers)
  OBVIOUS
<1>3. /\ InFlight /\ connection' = connection /\ toDevice' = toDevice
      /\ executed' = executed /\ answers # <<>> /\ answers' = Tail(answers)
  BY DEF Receive
<1>4. /\ answer.id = n /\ ~Asked(n) /\ executed[n] = Ran(answer)
      /\ Len(answers') = 0 /\ Sequence(answers') /\ OnceEach(answers') /\ ~Owed
  BY <1>1, <1>2, <1>3, AnswerIsTheCalls
<1>5. Remain
  BY <1>4 DEF Remain
<1>6. CASE /\ calls' = [calls EXCEPT ![n].report = Doubt("Protocol")]
           /\ context' = "none"
  <2>1. PICK r \in Reports :
          /\ calls' = [calls EXCEPT ![n].report = r]
          /\ r = "OutcomeUnknown" \/ ReadOnly(calls[n].request)
          /\ r \notin {"Ok", "Exception", "inFlight"}
    BY <1>1, <1>6 DEF Doubt, Current, Reports
  <2> DEFINE c == [calls[n] EXCEPT !.report = r]
  <2>2. /\ c \in Calls /\ c.request = calls[n].request /\ c.dispatched = calls[n].dispatched
        /\ c.report = r
    <3>1. 0 \in Nat
      OBVIOUS
    <3> QED
      BY <1>1, <3>1, ReportReads
  <2>3. calls' = [calls EXCEPT ![n] = c]
    BY <2>1
  <2> HIDE DEF c
  <2>4. CallBecomes(n, c)
    BY <2>2, <2>3, CallReads DEF ModbusInv
  <2>5. EndsTruthfully(n, c)
    BY <2>1, <2>2 DEF EndsTruthfully
  <2> QED
    BY <1>1, <1>3, <1>5, <1>6, <2>1, <2>2, <2>4, <2>5, CallEndKeeps
<1>7. ASSUME NEW r \in {"Ok", "Exception"},
             r = "Ok" => ~answer.exception, r = "Exception" => answer.exception,
             calls' = [calls EXCEPT ![n].report = r, ![n].answer = n],
             context' = "open"
      PROVE  ModbusInv'
  <2>1. r \in Reports /\ n \in Nat
    BY DEF Reports
  <2> DEFINE b == [calls[n] EXCEPT !.report = r]
             c == [b EXCEPT !.answer = n]
  <2>2. /\ b \in Calls /\ b.request = calls[n].request /\ b.dispatched = calls[n].dispatched
        /\ b.report = r
    BY <1>1, <2>1, ReportReads
  <2>3. calls' = [calls EXCEPT ![n] = c]
    BY <1>7
  <2> HIDE DEF b
  <2>4. /\ c \in Calls /\ c.request = b.request /\ c.dispatched = b.dispatched
        /\ c.report = b.report /\ c.answer = n
    BY <2>1, <2>2, ReportReads
  <2> HIDE DEF c
  <2>5. CallBecomes(n, c)
    BY <2>3, <2>4, CallReads DEF ModbusInv
  <2>6. r = "Ok" => executed[n] = 1
    BY <1>4, <1>7 DEF Ran
  <2>7. r = "Exception" => executed[n] = 0
    BY <1>4, <1>7 DEF Ran
  <2>8. EndsTruthfully(n, c)
    BY <1>4, <2>2, <2>4, <2>6, <2>7 DEF EndsTruthfully
  <2> QED
    BY <1>1, <1>3, <1>4, <1>5, <1>7, <2>2, <2>4, <2>5, <2>8, CallEndKeeps
<1>8. \/ calls' = [calls EXCEPT ![n].report = Doubt("Protocol")] /\ context' = "none"
      \/ /\ calls' = [calls EXCEPT ![n].report = "Exception", ![n].answer = answer.id]
         /\ answer.exception /\ context' = "open"
      \/ /\ calls' = [calls EXCEPT ![n].report = "Ok", ![n].answer = answer.id]
         /\ ~answer.exception /\ context' = "open"
  BY <1>1, <1>2, Zenon DEF Receive, Reported, Current
<1> QED
  BY <1>4, <1>6, <1>7, <1>8

LEMMA DisconnectKeeps ==
    ASSUME ModbusInv, Disconnect
    PROVE  ModbusInv'
<1>1. /\ context = "open" /\ context' = "none" /\ connection' = connection
      /\ calls' = calls /\ toDevice' = toDevice /\ answers' = answers /\ executed' = executed
  BY DEF Disconnect
<1>2. Shape' /\ AllTruthful'
  BY <1>1 DEF ModbusInv, Shape, AllTruthful, Truthful, Asked
<1>3. Courses'
  BY <1>1 DEF ModbusInv, Courses, OnceEach, Asked, Ran
<1>4. Exchange'
  BY <1>1 DEF ModbusInv, Exchange, LastInFlight, Owed
<1> QED
  BY <1>2, <1>3, <1>4 DEF ModbusInv

-----------------------------------------------------------------------------
(* The device takes the next request off the wire, executes it or refuses,   *)
(* and answers it or not: a request that was waiting had neither.            *)
LEMMA DeviceKeeps ==
    ASSUME ModbusInv, NEW exception \in BOOLEAN, Device(exception)
    PROVE  ModbusInv'
<1>1. PICK next : next = Head(toDevice)
  OBVIOUS
<1>2. /\ toDevice # <<>> /\ toDevice' = Tail(toDevice)
      /\ calls' = calls /\ connection' = connection /\ context' = context
  BY DEF Device
<1>3. /\ Sequence(toDevice) /\ toDevice \in Seq([id : Nat, on : Nat])
      /\ OnceEach(toDevice)
  BY DEF ModbusInv, Shape, Sequence, Courses
<1>4. /\ toDevice' \in Seq([id : Nat, on : Nat]) /\ OnceEach(toDevice')
      /\ 1 \in 1..Len(toDevice) /\ next = toDevice[1]
      /\ \A i \in 1..Len(toDevice') :
            /\ i + 1 \in 1..Len(toDevice) /\ toDevice'[i] = toDevice[i + 1]
            /\ toDevice[i + 1].id # next.id
  BY <1>1, <1>2, <1>3, TailOfAnswers, HeadTailProperties
<1>5. PICK n \in 1..Len(calls) : n = next.id
  BY <1>4 DEF ModbusInv, Courses
<1>6. /\ calls[n].dispatched /\ executed[n] = 0 /\ next.on =< connection /\ Asked(n)
  BY <1>4, <1>5 DEF ModbusInv, Courses, Asked
<1>7. ~Asked(n)' /\ \A id \in 1..Len(calls) : Asked(id)' => Asked(id)
  BY <1>4, <1>5 DEF Asked
<1>8. PICK x \in {0, 1} : x = IF exception THEN 0 ELSE 1
  OBVIOUS
<1>9. /\ executed' \in Seq(Nat) /\ Len(executed') = Len(executed)
      /\ \A id \in 1..Len(calls) : executed'[id] = IF id = n THEN x ELSE executed[id]
  <2>1. executed \in Seq(Nat) /\ Len(executed) = Len(calls) /\ 1 \in Nat
    BY DEF ModbusInv, Shape
  <2>2. CASE exception
    <3>1. executed' = executed /\ x = 0
      BY <1>8, <2>2 DEF Device
    <3> QED
      BY <1>6, <2>1, <3>1
  <2>3. CASE ~exception
    <3>1. executed' = [executed EXCEPT ![n] = @ + 1] /\ x = 1
      BY <1>1, <1>5, <1>8, <2>3 DEF Device
    <3>2. executed' = [executed EXCEPT ![n] = 1]
      BY <1>6, <3>1
    <3> QED
      BY <2>1, <3>1, <3>2, ExceptSeq
  <2> QED
    BY <2>2, <2>3
<1>10. \/ answers' = answers
       \/ /\ next.on = connection
          /\ \E a : /\ a.id = n /\ (a.exception <=> exception)
                    /\ answers' = Append(answers, a)
  <2>1. CASE UNCHANGED answers
    BY <2>1
  <2>2. ASSUME NEW garbled \in BOOLEAN, next.on = connection,
               answers' = Append(answers, Answered(next.id, exception, garbled))
        PROVE  /\ next.on = connection
               /\ \E a : /\ a.id = n /\ (a.exception <=> exception)
                         /\ answers' = Append(answers, a)
    <3>1. PICK a : a = Answered(n, exception, garbled)
      OBVIOUS
    <3>2. a.id = n /\ a.exception = exception
      BY <3>1 DEF Answered
    <3> QED
      BY <1>5, <2>2, <3>1, <3>2
  <2> QED
    BY <1>1, <2>1, <2>2 DEF Device
<1>11. /\ Sequence(answers)' /\ OnceEach(answers)'
       /\ \A i \in 1..Len(answers') :
             \/ answers'[i].id = n /\ Ran(answers'[i]) = x /\ next.on = connection
             \/ \E j \in 1..Len(answers) : answers'[i] = answers[j]
  <2>1. Sequence(answers) /\ OnceEach(answers)
    BY DEF ModbusInv, Shape, Courses
  <2>2. CASE answers' = answers
    BY <2>1, <2>2
  <2>3. ASSUME NEW a, a.id = n, a.exception <=> exception,
               answers' = Append(answers, a), next.on = connection
        PROVE  /\ Sequence(answers)' /\ OnceEach(answers)'
               /\ \A i \in 1..Len(answers') :
                     \/ answers'[i].id = n /\ Ran(answers'[i]) = x /\ next.on = connection
                     \/ \E j \in 1..Len(answers) : answers'[i] = answers[j]
    <3>1. PICK m \in Nat : m = Len(answers)
      BY <2>1, SequenceShape
    <3>2. /\ Sequence(answers') /\ Len(answers') = m + 1
          /\ \A i \in 1..m : answers'[i] = answers[i]
          /\ answers'[m + 1] = a
      BY <2>1, <2>3, <3>1, AppendReads
    <3>3. \A i \in 1..m + 1 : i \in 1..m \/ i = m + 1
      OBVIOUS
    <3>4. \A i \in 1..m : answers[i].id # n
      BY <1>6, <3>1 DEF ModbusInv, Courses
    <3>5. \A i, j \in 1..m : answers[i].id = answers[j].id => i = j
      BY <2>1, <3>1 DEF OnceEach
    <3>6. OnceEach(answers')
      BY <2>3, <3>2, <3>3, <3>4, <3>5 DEF OnceEach
    <3>7. Ran(a) = x
      BY <1>8, <2>3 DEF Ran
    <3> QED
      BY <2>3, <3>1, <3>2, <3>3, <3>6, <3>7
  <2> QED
    BY <1>10, <2>2, <2>3
<1>12. Shape'
  BY <1>2, <1>4, <1>9, <1>11 DEF ModbusInv, Shape
<1>13. Courses'
  <2>1. ASSUME NEW i \in 1..Len(toDevice')
        PROVE  /\ toDevice'[i].id \in 1..Len(calls) /\ calls[toDevice'[i].id].dispatched
               /\ executed'[toDevice'[i].id] = 0
               /\ toDevice'[i].on =< connection
    <3>1. PICK j \in 1..Len(toDevice) : toDevice'[i] = toDevice[j] /\ toDevice[j].id # n
      BY <1>4, <1>5
    <3>2. /\ toDevice[j].id \in 1..Len(calls) /\ calls[toDevice[j].id].dispatched
          /\ executed[toDevice[j].id] = 0
          /\ toDevice[j].on =< connection
      BY DEF ModbusInv, Courses
    <3> QED
      BY <1>9, <3>1, <3>2
  <2>2. ASSUME NEW i \in 1..Len(answers')
        PROVE  /\ answers'[i].id \in 1..Len(calls) /\ calls[answers'[i].id].dispatched
               /\ ~Asked(answers[i].id)'
               /\ executed'[answers'[i].id] = Ran(answers'[i])
    <3>1. CASE answers'[i].id = n /\ Ran(answers'[i]) = x
      <4>1. ~Asked(answers[i].id)'
        BY <1>4, <1>5, <3>1 DEF Asked
      <4> QED
        BY <1>6, <1>9, <3>1, <4>1
    <3>2. CASE \E j \in 1..Len(answers) : answers'[i] = answers[j]
      <4>1. PICK j \in 1..Len(answers) : answers'[i] = answers[j]
        BY <3>2
      <4>2. /\ answers[j].id \in 1..Len(calls) /\ calls[answers[j].id].dispatched
            /\ ~Asked(answers[j].id)
            /\ executed[answers[j].id] = Ran(answers[j])
        BY DEF ModbusInv, Courses
      <4>3. answers[j].id # n
        BY <1>6, <4>2
      <4>4. ~Asked(answers[i].id)'
        BY <1>4, <4>1, <4>2 DEF Asked
      <4> QED
        BY <1>9, <4>1, <4>2, <4>3, <4>4
    <3> QED
      BY <1>11, <3>1, <3>2
  <2>3. \A id \in 1..Len(calls) : ~calls[id].dispatched => executed'[id] = 0
    BY <1>6, <1>9 DEF ModbusInv, Courses
  <2>4. \A a : Ran(a)' = Ran(a)
    BY DEF Ran
  <2>5. OnceEach(toDevice)' /\ OnceEach(answers)'
    BY <1>4, <1>11 DEF OnceEach
  <2>6. (\A i \in 1..Len(answers) :
         /\ answers[i].id \in 1..Len(calls) /\ calls[answers[i].id].dispatched
         /\ ~Asked(answers[i].id)
         /\ executed[answers[i].id] = Ran(answers[i]))'
    BY <1>2, <2>2, <2>4
  <2> QED
    BY <1>2, <2>1, <2>3, <2>5, <2>6 DEF Courses
<1>14. Exchange'
  <2>1. context = "open" => Len(answers') = 0 /\ ~Owed'
    <3> SUFFICES ASSUME context = "open"
                 PROVE  Len(answers') = 0 /\ ~Owed'
      OBVIOUS
    <3>1. Len(answers) = 0 /\ ~Owed
      BY DEF ModbusInv, Exchange
    <3>2. answers' = answers
      BY <1>4, <1>10, <3>1 DEF Owed
    <3>3. ~Owed'
      BY <1>2, <1>4, <3>1 DEF Owed
    <3> QED
      BY <3>1, <3>2, <3>3
  <2>2. ASSUME context = "taken"
        PROVE  /\ \A i \in 1..Len(toDevice') :
                     toDevice'[i].on = connection => toDevice'[i].id = Len(calls)
               /\ \A i \in 1..Len(answers') : answers'[i].id = Len(calls)
    <3>1. /\ \A i \in 1..Len(toDevice) :
               toDevice[i].on = connection => toDevice[i].id = Len(calls)
          /\ \A i \in 1..Len(answers) : answers[i].id = Len(calls)
      BY <2>2 DEF ModbusInv, Exchange
    <3>2. \A i \in 1..Len(toDevice') :
               toDevice'[i].on = connection => toDevice'[i].id = Len(calls)
      BY <1>4, <3>1
    <3>3. next.on = connection => n = Len(calls)
      BY <1>4, <1>5, <3>1
    <3>4. \A i \in 1..Len(answers') : answers'[i].id = Len(calls)
      BY <1>11, <3>1, <3>3
    <3> QED
      BY <3>2, <3>4
  <2>3. LastInFlight' <=> LastInFlight
    BY <1>2 DEF LastInFlight
  <2> QED
    BY <1>2, <2>1, <2>2, <2>3 DEF ModbusInv, Exchange
<1>15. AllTruthful'
  <2> SUFFICES ASSUME NEW id \in 1..Len(calls)
               PROVE  Truthful(id)'
    BY <1>2 DEF AllTruthful
  <2>1. Truthful(id)
    BY DEF ModbusInv, AllTruthful
  <2>2. executed'[id] =< 1 /\ (executed'[id] = executed[id] \/ Asked(id))
    BY <1>6, <1>9, <2>1 DEF Truthful
  <2>3. executed[id] = 1 => executed'[id] = 1
    BY <1>6, <1>9
  <2>4. Asked(id)' => Asked(id)
    BY <1>7
  <2> QED
    BY <1>2, <2>1, <2>2, <2>3, <2>4 DEF Truthful
<1> QED
  BY <1>12, <1>13, <1>14, <1>15 DEF ModbusInv

LEMMA ModbusNextKeeps == ASSUME ModbusInv, [ModbusNext]_modbusVars PROVE ModbusInv'
<1>1. CASE UNCHANGED modbusVars
  <2>1. /\ connection' = connection /\ context' = context /\ calls' = calls
        /\ toDevice' = toDevice /\ answers' = answers /\ executed' = executed
    BY <1>1 DEF modbusVars
  <2>2. Shape' /\ AllTruthful'
    BY <2>1 DEF ModbusInv, Shape, AllTruthful, Truthful, Asked
  <2>3. Courses'
    BY <2>1 DEF ModbusInv, Courses, OnceEach, Asked, Ran
  <2>4. Exchange'
    BY <2>1 DEF ModbusInv, Exchange, LastInFlight, Owed
  <2> QED
    BY <2>2, <2>3, <2>4 DEF ModbusInv
<1>2. CASE ModbusNext
  BY <1>2, ConnectKeeps, CallStartKeeps, DispatchKeeps, ReceiveKeeps, GivenUpKeeps,
     DisconnectKeeps, DeviceKeeps DEF ModbusNext
<1> QED
  BY <1>1, <1>2

LEMMA ModbusInvHolds == ModbusSpec => []ModbusInv
<1>1. ModbusInit => ModbusInv
  BY ModbusInitHolds
<1>2. ModbusInv /\ [ModbusNext]_modbusVars => ModbusInv'
  BY ModbusNextKeeps
<1> QED
  BY <1>1, <1>2, PTL DEF ModbusSpec

(* Client::call and its reports: an answer is the device's to that very call *)
(* and a write whose caller is told it failed never takes effect, however    *)
(* many calls were abandoned and connections replaced before it.             *)
THEOREM CallsTruthful == ModbusSpec => []CallsAreTruthful
<1>1. ASSUME ModbusInv
      PROVE  CallsAreTruthful
  <2>1. DOMAIN calls = 1..Len(calls) /\ DOMAIN toDevice = 1..Len(toDevice)
    BY <1>1, SequenceShape DEF ModbusInv, Shape, Sequence
  <2> SUFFICES ASSUME NEW id \in 1..Len(calls)
               PROVE  /\ calls[id].report \in {"Ok", "Exception"} => calls[id].answer = id
                      /\ executed[id] <= 1
                      /\ calls[id].report = "Ok" => executed[id] = 1
                      /\ (~ReadOnly(calls[id].request) /\ calls[id].report \notin
                               {"inFlight", "Ok", "OutcomeUnknown", "cancelled"}) =>
                           ~(\/ executed[id] # 0
                             \/ \E i \in 1..Len(toDevice) : toDevice[i].id = id)
    BY <2>1, Zenon DEF CallsAreTruthful
  <2> QED
    BY <1>1 DEF ModbusInv, AllTruthful, Truthful, Asked
<1>2. ModbusInv => CallsAreTruthful
  BY <1>1
<1> QED
  BY <1>2, ModbusInvHolds, PTL
=============================================================================

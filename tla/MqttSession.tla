---------------------------- MODULE MqttSession ----------------------------
(* A caller-driven MQTT session (warpin-mqtt/src/lib.rs, driver.rs) and the  *)
(* application that owns it.  poll borrows the client mutably, so nothing    *)
(* else is called while it runs; but it can be cancelled, connections are    *)
(* lost, the application keeps events for later and, when its client is      *)
(* gone, makes a new one.  The event loop of rumqttc is external: it has a   *)
(* connection or not, and a queue of requests it writes in order.            *)
EXTENDS Naturals

CONSTANTS
    MaxReconnects,   \* Config::max_reconnects
    QueueCapacity,   \* Config::queue_capacity
    MaxClients,      \* bound: clients made one after the other
    MaxConnections   \* bound: connections told apart

ASSUME SessionAssumption ==
    /\ MaxReconnects \in Nat
    /\ QueueCapacity \in Nat \ {0}
    /\ MaxClients \in Nat \ {0} /\ MaxConnections \in Nat

VARIABLES
    state,       \* Client::state
    busy,        \* Client::busy
    polling,     \* a poll is running
    reconnects,  \* Client::reconnects
    generation,  \* Client::generation
    owner,       \* which client this is: the identity of its Arc
    queue,       \* requests queued in the driver
    link,        \* connection the event loop has, 0 for none
    newest,      \* the last connection any client made
    made,        \* connections this client made
    held         \* publish events the application has not acknowledged yet

clientVars == <<state, busy, polling, reconnects, generation, owner>>
loopVars   == <<queue, link, newest, made>>
vars == <<clientVars, loopVars, held>>

States  == {"Created", "Connecting", "Ready", "Reconnecting", "Failed", "Stopping", "Stopped"}
Gone    == {"Failed", "Stopped"}
Retried == {"Connection", "Timeout", "Closed"}
Fatal   == {"Authentication", "Protocol", "Rejected"}
Events  == [owner : 1..MaxClients, generation : 0..MaxConnections, link : 1..MaxConnections]

Init ==
    /\ state = "Created" /\ busy = FALSE /\ polling = FALSE
    /\ reconnects = 0 /\ generation = 0 /\ owner = 1
    /\ queue = 0 /\ link = 0 /\ newest = 0 /\ made = 0
    /\ held = {}

\* available: a poisoned, failed or stopped client refuses every call.
Available == ~busy /\ state \notin Gone \cup {"Stopping"}

----------------------------------------------------------------------------
(* poll, up to its await.  Its outcomes follow. *)
Poll ==
    /\ ~polling
    /\ Available
    /\ polling' = TRUE
    /\ busy' = TRUE
    /\ state' = IF state = "Created" THEN "Connecting" ELSE state
    /\ UNCHANGED <<reconnects, generation, owner, loopVars, held>>

PollEnds == /\ polling
            /\ polling' = FALSE
            /\ busy' = FALSE

\* Mutant: a connection gives the reconnects back.
ConnAckResets ==
    /\ PollEnds
    /\ link = 0 /\ newest < MaxConnections
    /\ newest' = newest + 1 /\ link' = newest + 1 /\ made' = made + 1
    /\ state' = "Ready"
    /\ generation' = generation + 1
    /\ reconnects' = 0
    /\ UNCHANGED <<owner, queue, held>>

\* The event loop connects when it has no connection, and reports ConnAck.
ConnAck ==
    /\ PollEnds
    /\ link = 0 /\ newest < MaxConnections
    /\ newest' = newest + 1 /\ link' = newest + 1 /\ made' = made + 1
    /\ state' = "Ready"
    /\ generation' = generation + 1
    /\ UNCHANGED <<reconnects, owner, queue, held>>

\* A publish with QoS 1 or 2; the application keeps the event.
Incoming(e) ==
    /\ PollEnds
    /\ link # 0
    /\ e = [owner |-> owner, generation |-> generation, link |-> link]
    /\ held' = held \cup {e}
    /\ UNCHANGED <<state, reconnects, generation, owner, loopVars>>

\* A queued request was written.
Outgoing ==
    /\ PollEnds
    /\ link # 0 /\ queue > 0
    /\ queue' = queue - 1
    /\ UNCHANGED <<state, reconnects, generation, owner, link, newest, made, held>>

\* Mutant: a failed attempt to reconnect is free.
PollErrorUncounted(kind) ==
    /\ PollEnds
    /\ link' = 0
    /\ IF kind \in Fatal \/ reconnects >= MaxReconnects
       THEN state' = "Failed" /\ UNCHANGED reconnects
       ELSE /\ state' = "Reconnecting"
            /\ reconnects' = IF state = "Reconnecting" THEN reconnects ELSE reconnects + 1
    /\ queue' \in 0..queue
    /\ UNCHANGED <<generation, owner, newest, made, held>>

\* The connection was lost or could not be made; what the event loop keeps
\* of its queue is its own affair.
PollError(kind) ==
    /\ PollEnds
    /\ link' = 0
    /\ IF kind \in Fatal \/ reconnects >= MaxReconnects
       THEN state' = "Failed" /\ UNCHANGED reconnects
       ELSE state' = "Reconnecting" /\ reconnects' = reconnects + 1
    /\ queue' \in 0..queue
    /\ UNCHANGED <<generation, owner, newest, made, held>>

PollTimeout ==
    /\ PollEnds
    /\ state' = "Failed"
    /\ link' = 0
    /\ UNCHANGED <<reconnects, generation, owner, queue, newest, made, held>>

\* The future is dropped at its await: busy stays set for ever.
PollCancelled ==
    /\ polling
    /\ polling' = FALSE
    /\ UNCHANGED <<state, busy, reconnects, generation, owner, loopVars, held>>

----------------------------------------------------------------------------
(* publish, subscribe, unsubscribe: queued, or refused for capacity. *)
Enqueue ==
    /\ ~polling
    /\ Available
    /\ queue < QueueCapacity
    /\ queue' = queue + 1
    /\ UNCHANGED <<clientVars, link, newest, made, held>>

\* Mutant: generations of different clients are compared.
OwnEventOfAny(e) == e.generation = generation

\* acknowledge's own checks; an acknowledged event is no longer held.
OwnEvent(e) == e.owner = owner /\ e.generation = generation

Acknowledge(e) ==
    /\ ~polling
    /\ OwnEvent(e)
    /\ Available
    /\ queue < QueueCapacity
    /\ queue' = queue + 1
    /\ held' = held \ {e}
    /\ UNCHANGED <<clientVars, link, newest, made>>

Forget(e) == held' = held \ {e} /\ UNCHANGED <<clientVars, loopVars>>

----------------------------------------------------------------------------
(* close takes the client: a full queue drops it, otherwise it drains.       *)
Close ==
    /\ ~polling
    /\ Available
    /\ IF queue < QueueCapacity
       THEN state' = "Stopping" /\ queue' = queue + 1 /\ UNCHANGED link
       ELSE state' = "Stopped" /\ link' = 0 /\ UNCHANGED queue
    /\ UNCHANGED <<busy, polling, reconnects, generation, owner, newest, made, held>>

\* The event loop goes on inside close: it reconnects, receives and writes.
Drain ==
    /\ state = "Stopping"
    /\ \/ /\ link = 0 /\ newest < MaxConnections
          /\ newest' = newest + 1 /\ link' = newest + 1 /\ made' = made + 1
          /\ UNCHANGED <<queue, state>>
       \/ /\ link # 0 /\ queue > 1
          /\ queue' = queue - 1
          /\ UNCHANGED <<state, link, newest, made>>
    /\ UNCHANGED <<busy, polling, reconnects, generation, owner, held>>

\* DISCONNECT, the last request, is written; or an error or the deadline.
Closed ==
    /\ state = "Stopping"
    /\ state' = "Stopped"
    /\ link' = 0
    /\ UNCHANGED <<busy, polling, reconnects, generation, owner, queue, newest, made, held>>

Abort ==
    /\ ~polling
    /\ state \notin {"Stopping", "Stopped"}
    /\ state' = "Stopped"
    /\ link' = 0
    /\ UNCHANGED <<busy, polling, reconnects, generation, owner, queue, newest, made, held>>

\* The application replaces a client it cannot use any more.
NewClient ==
    /\ ~polling
    /\ ~Available /\ state # "Stopping"
    /\ owner < MaxClients
    /\ owner' = owner + 1
    /\ state' = "Created" /\ busy' = FALSE /\ reconnects' = 0 /\ generation' = 0
    /\ queue' = 0 /\ link' = 0 /\ made' = 0
    /\ UNCHANGED <<polling, newest, held>>

----------------------------------------------------------------------------
PollEndsSomehow ==
    \/ ConnAck \/ Outgoing \/ PollTimeout
    \/ \E e \in Events : Incoming(e)
    \/ \E kind \in Retried \cup Fatal : PollError(kind)

Next ==
    \/ Poll \/ PollEndsSomehow \/ PollCancelled
    \/ Enqueue \/ \E e \in held : Acknowledge(e) \/ Forget(e)
    \/ Close \/ Drain \/ Closed \/ Abort \/ NewClient

Spec == Init /\ [][Next]_vars

(* The owner keeps polling, as the crate demands, and every poll ends by     *)
(* itself: the deadline is part of it.                                       *)
DrivenSpec == Spec /\ WF_vars(Poll) /\ WF_vars(PollEndsSomehow)

----------------------------------------------------------------------------
(* An acknowledgement is queued only for a publish of the newest connection. *)
AcksFollowTheNewest ==
    [][\A e \in held : Acknowledge(e) => e.link = newest]_vars

(* Types and ranges of the state. *)
SessionTypeOK ==
    /\ state \in States /\ busy \in BOOLEAN /\ polling \in BOOLEAN
    /\ reconnects \in 0..MaxReconnects
    /\ generation \in 0..MaxConnections
    /\ owner \in 1..MaxClients
    /\ queue \in 0..QueueCapacity
    /\ link \in 0..MaxConnections /\ newest \in 0..MaxConnections
    /\ made \in 0..MaxConnections
    /\ held \subseteq Events

(* max_reconnects bounds the connections a client makes in its whole life,   *)
(* however well each of them went and also while it is being closed.         *)
ConnectionsAreBounded == SessionTypeOK /\ made =< MaxReconnects + 1

(* A cancelled poll is for ever: this client never queues anything again and *)
(* never again reports an event.                                             *)
PoisonIsFinal ==
    [][busy /\ ~polling /\ owner' = owner =>
         /\ queue' =< queue /\ generation' = generation
         /\ busy' /\ ~polling']_vars

(* The past of a client has no effect: although connections and clients come *)
(* and go while the application holds its events, and generations start      *)
(* again with every client, nothing old is acknowledged; and a client whose  *)
(* poll was cancelled is never used again.                                   *)
StaleIsRefused == AcksFollowTheNewest /\ PoisonIsFinal

(* A client that is polled does not hang between connections: it is Ready    *)
(* again, or it says that it has failed.                                     *)
RecoversOrFails ==
    state = "Reconnecting" ~> \/ state \in {"Ready", "Stopping"} \cup Gone
                              \/ busy /\ ~polling

(* The comment of acknowledge: only a publish emitted by this connection     *)
(* generation.  Once the client has reported the connection lost, nothing    *)
(* received over it is acknowledged.                                         *)
AcksWhileConnected ==
    [][\A e \in held : Acknowledge(e) => e.link = link]_vars
============================================================================

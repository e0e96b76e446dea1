--------------------------- MODULE TokenRefresh ---------------------------
(* The shared access token of a DingTalkClient (warpin-dingtalk/src/lib.rs): *)
(* one cache, at most one refresh in flight, any number of callers that join *)
(* it, time out or are cancelled.  The mutex of TokenRefreshCoordinator is   *)
(* held over no await, so acquire and complete are one step each.  Nothing   *)
(* in those two sections can panic, so the mutex is never poisoned.          *)
(* Times are in ticks; a tick is as long as the instance likes.              *)
EXTENDS Naturals

CONSTANTS
    Callers,       \* tasks that call access_token
    MaxRefresh,    \* bound: refreshes that are told apart
    MaxTime,       \* bound: the clock stops here
    Timeout,       \* request_timeout of the transport policy
    Margin,        \* TOKEN_CACHE_SAFETY_MARGIN_SECONDS
    Ttls           \* expire_in values the provider answers, all valid

(* DingTalkTransportPolicy::validate allows at most MAX_TRANSPORT_TIMEOUT,   *)
(* which is the safety margin (both 120 s).                                  *)
ASSUME TokenAssumption ==
    /\ MaxRefresh \in Nat /\ MaxTime \in Nat /\ Timeout \in Nat /\ Margin \in Nat
    /\ Timeout =< Margin
    /\ Ttls \subseteq Nat

VARIABLES
    now,        \* the clock
    cached,     \* the generation whose token is cached, 0 for none
    inFlight,   \* the generation being refreshed, 0 for none
    started,    \* generations started so far
    stage,      \* how far each generation is
    began,      \* when its request was sent
    issued,     \* when the provider made its token
    life,       \* expire_in of its token
    expires,    \* its expires_at, 0 if it is not to be cached
    pc,         \* where each caller is
    gen,        \* the generation it joined or was answered with
    at          \* when it was answered from the cache

clientVars == <<cached, inFlight, started>>
tokenVars  == <<issued, life, expires>>
callVars   == <<pc, gen, at>>
vars == <<now, clientVars, stage, began, tokenVars, callVars>>

Generations == 1..MaxRefresh
Times       == 0..MaxTime

\* A worker fetches, the provider has issued a token, the worker has ended
\* with a token or without, its supervisor has completed the generation.
Working == {"fetching", "issued"}
Ended   == {"fetched", "failed"}
Open    == Working \cup Ended
Stages  == Open \cup {"none", "completed"}

Init ==
    /\ now = 0
    /\ cached = 0 /\ inFlight = 0 /\ started = 0
    /\ stage   = [g \in Generations |-> "none"]
    /\ began   = [g \in Generations |-> 0]
    /\ issued  = [g \in Generations |-> 0]
    /\ life    = [g \in Generations |-> 0]
    /\ expires = [g \in Generations |-> 0]
    /\ pc  = [c \in Callers |-> "idle"]
    /\ gen = [c \in Callers |-> 0]
    /\ at  = [c \in Callers |-> 0]

\* CachedToken::is_valid
Valid == cached # 0 /\ now < expires[cached]

----------------------------------------------------------------------------
(* acquire: a valid token, or the refresh in flight, or a refresh of one's   *)
(* own, with worker and supervisor spawned in the same poll.                 *)
AnswerCached(c) ==
    /\ pc[c] = "idle"
    /\ Valid
    /\ pc'  = [pc EXCEPT ![c] = "cached"]
    /\ gen' = [gen EXCEPT ![c] = cached]
    /\ at'  = [at EXCEPT ![c] = now]
    /\ UNCHANGED <<now, clientVars, stage, began, tokenVars>>

JoinRefresh(c) ==
    /\ pc[c] = "idle"
    /\ ~Valid
    /\ inFlight # 0
    /\ cached' = 0
    /\ pc'  = [pc EXCEPT ![c] = "waiting"]
    /\ gen' = [gen EXCEPT ![c] = inFlight]
    /\ UNCHANGED <<now, inFlight, started, stage, began, tokenVars, at>>

StartRefresh(c) ==
    /\ pc[c] = "idle"
    /\ ~Valid
    /\ inFlight = 0
    /\ started < MaxRefresh
    /\ started'  = started + 1
    /\ inFlight' = started + 1
    /\ cached' = 0
    /\ stage'  = [stage EXCEPT ![started + 1] = "fetching"]
    /\ began'  = [began EXCEPT ![started + 1] = now]
    /\ pc'  = [pc EXCEPT ![c] = "waiting"]
    /\ gen' = [gen EXCEPT ![c] = started + 1]
    /\ UNCHANGED <<now, tokenVars, at>>

(* wait: the result its generation was completed with. *)
Wake(c) ==
    /\ pc[c] = "waiting"
    /\ stage[gen[c]] = "completed"
    /\ pc' = [pc EXCEPT ![c] = "answered"]
    /\ UNCHANGED <<now, clientVars, stage, began, tokenVars, gen, at>>

\* Mutant: the caller that gives up takes its refresh along.
GiveUpAndClear(c) ==
    /\ pc[c] = "waiting"
    /\ pc' = [pc EXCEPT ![c] = "idle"]
    /\ inFlight' = IF inFlight = gen[c] THEN 0 ELSE inFlight
    /\ UNCHANGED <<now, cached, started, stage, began, tokenVars, gen, at>>

\* The deadline of access_token, or a caller that drops the future: the
\* refresh goes on without it.
GiveUp(c) ==
    /\ pc[c] = "waiting"
    /\ pc' = [pc EXCEPT ![c] = "idle"]
    /\ UNCHANGED <<now, clientVars, stage, began, tokenVars, gen, at>>

Return(c) ==
    /\ pc[c] \in {"answered", "cached"}
    /\ pc'  = [pc EXCEPT ![c] = "idle"]
    /\ gen' = [gen EXCEPT ![c] = 0]
    /\ at'  = [at EXCEPT ![c] = 0]
    /\ UNCHANGED <<now, clientVars, stage, began, tokenVars>>

----------------------------------------------------------------------------
(* The provider (not in src/) makes a token; its life starts there. *)
Issue(g, ttl) ==
    /\ stage[g] = "fetching"
    /\ stage'  = [stage EXCEPT ![g] = "issued"]
    /\ issued' = [issued EXCEPT ![g] = now]
    /\ life'   = [life EXCEPT ![g] = ttl]
    /\ UNCHANGED <<now, clientVars, began, expires, callVars>>

\* Mutant: no margin.
CacheUntilLast(ttl) == now + ttl

\* into_validated: expires_at, counted from the receipt; 0 is "not cached".
CacheUntil(ttl) == IF ttl > Margin THEN now + (ttl - Margin) ELSE 0

Receive(g) ==
    /\ stage[g] = "issued"
    /\ stage'   = [stage EXCEPT ![g] = "fetched"]
    /\ expires' = [expires EXCEPT ![g] = CacheUntil(life[g])]
    /\ UNCHANGED <<now, clientVars, began, issued, life, callVars>>

\* Mutant: a worker that panics takes its supervisor along.
FailUnsupervised(g) ==
    /\ stage[g] \in Working
    /\ \E s \in {"failed", "none"} : stage' = [stage EXCEPT ![g] = s]
    /\ UNCHANGED <<now, clientVars, began, tokenVars, callVars>>

\* A transport error, the request timeout, a bad response or a panic.
Fail(g) ==
    /\ stage[g] \in Working
    /\ stage' = [stage EXCEPT ![g] = "failed"]
    /\ UNCHANGED <<now, clientVars, began, tokenVars, callVars>>

(* The supervisor: complete releases the generation it owns and, on success, *)
(* caches the token or empties the cache; everybody who joined is answered.  *)
Complete(g) ==
    /\ stage[g] \in Ended
    /\ stage'    = [stage EXCEPT ![g] = "completed"]
    /\ inFlight' = IF inFlight = g THEN 0 ELSE inFlight
    /\ cached'   = IF inFlight = g /\ stage[g] = "fetched"
                   THEN IF expires[g] # 0 THEN g ELSE 0
                   ELSE cached
    /\ UNCHANGED <<now, started, began, tokenVars, callVars>>

\* A request is over within its timeout, whatever the provider does.
Tick ==
    /\ now < MaxTime
    /\ \A g \in Generations : stage[g] \in Working => now < began[g] + Timeout
    /\ now' = now + 1
    /\ UNCHANGED <<clientVars, stage, began, tokenVars, callVars>>

----------------------------------------------------------------------------
Refreshing(g) == Receive(g) \/ Fail(g) \/ Complete(g) \/ \E ttl \in Ttls : Issue(g, ttl)

Next ==
    \/ \E c \in Callers : \/ AnswerCached(c) \/ JoinRefresh(c) \/ StartRefresh(c)
                          \/ Wake(c) \/ GiveUp(c) \/ Return(c)
    \/ \E g \in Generations : Refreshing(g)
    \/ Tick

Spec == Init /\ [][Next]_vars

(* The spawned tasks are scheduled and the request in them is bounded; a     *)
(* waiter is woken.  Callers need not give up or return.                     *)
FairSpec ==
    /\ Spec
    /\ \A g \in Generations : WF_vars(Refreshing(g))
    /\ \A c \in Callers : WF_vars(Wake(c))

----------------------------------------------------------------------------
(* Type invariant; in particular an expires_at is a time. *)
TokenTypeOK ==
    /\ now \in Times
    /\ cached \in Generations \cup {0}
    /\ inFlight \in Generations \cup {0}
    /\ started \in 0..MaxRefresh
    /\ stage \in [Generations -> Stages]
    /\ began \in [Generations -> Times]
    /\ issued \in [Generations -> Times]
    /\ life \in [Generations -> Nat]
    /\ expires \in [Generations -> Nat]
    /\ pc \in [Callers -> {"idle", "waiting", "cached", "answered"}]
    /\ gen \in [Callers -> Generations \cup {0}]
    /\ at \in [Callers -> Times]

(* Never two refreshes at a time, whichever callers went away: what has been *)
(* started and is not completed is the one generation in flight.             *)
SingleFlight == \A g \in Generations : stage[g] \in Open => inFlight = g

(* A token handed out from the cache is alive at the provider at that time,  *)
(* although the client counts its life from the receipt of the answer and    *)
(* never asks the provider again.                                            *)
CachedTokensAreLive ==
    \A c \in Callers : pc[c] = "cached" => at[c] < issued[gen[c]] + life[gen[c]]

(* A caller never joins a refresh that is already over: a failure is seen by *)
(* those who waited for it and by nobody later.                              *)
JoinsOnlyOpenRefresh ==
    [][\A c \in Callers : pc[c] = "idle" /\ pc'[c] = "waiting" =>
         stage'[gen'[c]] \in Open]_vars

(* Nobody waits for ever, even without a deadline of one's own: the worker's *)
(* end, be it a panic, reaches every caller that joined.                     *)
EveryWaiterIsAnswered ==
    \A c \in Callers : pc[c] = "waiting" ~> pc[c] # "waiting"
============================================================================

------------------------ MODULE TokenRefreshProofs ------------------------
(* What holds of the token coordinator for any callers, any lifetimes, and   *)
(* any request timeout that is at most the safety margin.                    *)
EXTENDS TokenRefresh, TLAPS

(* Generations are started in order.                                         *)
InOrder == \A g \in Generations : g > started => stage[g] = "none"

(* The generation in flight is open, and it is the only open one.            *)
OneOpen ==
    /\ SingleFlight
    /\ inFlight # 0 => stage[inFlight] \in Open

(* The clock has not passed the timeout of a request that is under way, and  *)
(* a token is made after it was asked for.                                   *)
TimelyRequest(g) ==
    /\ began[g] =< now
    /\ stage[g] \in Working => now =< began[g] + Timeout
    /\ stage[g] = "issued" => began[g] =< issued[g]

InTime == \A g \in Generations : TimelyRequest(g)

(* expires_at never lies beyond the life the provider gave the token.        *)
ExpiresEarly ==
    \A g \in Generations :
        /\ stage[g] \in {"none"} \cup Working => expires[g] = 0
        /\ expires[g] =< issued[g] + life[g]

(* What is cached, and what was answered from the cache, is the token of a   *)
(* completed generation.                                                     *)
CacheIsGenuine ==
    /\ cached # 0 => stage[cached] = "completed"
    /\ \A c \in Callers : pc[c] = "cached" => /\ gen[c] # 0
                                             /\ stage[gen[c]] = "completed"
                                             /\ at[c] < expires[gen[c]]

TokenInv == /\ TokenTypeOK
            /\ InOrder
            /\ OneOpen
            /\ InTime
            /\ ExpiresEarly
            /\ CacheIsGenuine

-----------------------------------------------------------------------------
(* The clock, the cache, the generations and the callers keep their types;   *)
(* in particular a cached token always has a time at which it expires.       *)
LEMMA TypeStep == TokenTypeOK /\ [Next]_vars => TokenTypeOK'
<1> SUFFICES ASSUME TokenTypeOK, [Next]_vars
             PROVE  TokenTypeOK'
  OBVIOUS
<1> USE TokenAssumption DEF TokenTypeOK, Generations, Times, Stages, Open, Working, Ended,
        clientVars, tokenVars, callVars
<1>1. ASSUME NEW c \in Callers, AnswerCached(c)
      PROVE  TokenTypeOK'
  BY <1>1 DEF AnswerCached, Valid
<1>2. ASSUME NEW c \in Callers, JoinRefresh(c)
      PROVE  TokenTypeOK'
  BY <1>2 DEF JoinRefresh
<1>3. ASSUME NEW c \in Callers, StartRefresh(c)
      PROVE  TokenTypeOK'
  BY SMTT(60), <1>3 DEF StartRefresh
<1>4. ASSUME NEW c \in Callers, Wake(c) \/ GiveUp(c) \/ Return(c)
      PROVE  TokenTypeOK'
  <2>1. UNCHANGED <<now, clientVars, stage, began, tokenVars>>
    BY <1>4 DEF Wake, GiveUp, Return
  <2>2. pc' \in [Callers -> {"idle", "waiting", "cached", "answered"}]
    BY ZenonT(60), <1>4 DEF Wake, GiveUp, Return
  <2>3. gen' \in [Callers -> Generations \cup {0}] /\ at' \in [Callers -> Times]
    <3>1. CASE Return(c)
      <4>1. 0 \in Times
        OBVIOUS
      <4> QED
        BY <3>1, <4>1 DEF Return
    <3>2. CASE UNCHANGED <<gen, at>>
      BY <3>2
    <3> QED
      BY <1>4, <3>1, <3>2 DEF Wake, GiveUp
  <2> QED
    BY <2>1, <2>2, <2>3
<1>5. ASSUME NEW g \in Generations, NEW ttl \in Ttls, Issue(g, ttl)
      PROVE  TokenTypeOK'
  BY <1>5 DEF Issue
<1>6. ASSUME NEW g \in Generations, Receive(g)
      PROVE  TokenTypeOK'
  <2>1. CacheUntil(life[g]) \in Nat
    BY DEF CacheUntil
  <2> QED
    BY <1>6, <2>1 DEF Receive
<1>7. ASSUME NEW g \in Generations, Fail(g)
      PROVE  TokenTypeOK'
  BY <1>7 DEF Fail
<1>8. ASSUME NEW g \in Generations, Complete(g)
      PROVE  TokenTypeOK'
  BY <1>8 DEF Complete
<1>9. CASE Tick
  BY SMTT(60), <1>9 DEF Tick
<1>10. CASE UNCHANGED vars
  BY <1>10 DEF vars
<1> QED
  BY <1>1, <1>2, <1>3, <1>4, <1>5, <1>6, <1>7, <1>8, <1>9, <1>10 DEF Next, Refreshing

(* The steps, one disjunct each. *)
LEMMA TokenSteps ==
    ASSUME [Next]_vars
    PROVE  \/ \E c \in Callers : \/ AnswerCached(c) \/ JoinRefresh(c) \/ StartRefresh(c)
                                 \/ Wake(c) \/ GiveUp(c) \/ Return(c)
           \/ \E g \in Generations, ttl \in Ttls : Issue(g, ttl)
           \/ \E g \in Generations : Receive(g) \/ Fail(g) \/ Complete(g)
           \/ Tick
           \/ UNCHANGED vars
BY DEF Next, Refreshing

(* Only StartRefresh begins a generation, and it begins the next one.        *)
LEMMA InOrderStep == TokenInv /\ [Next]_vars => InOrder'
<1> SUFFICES ASSUME TokenInv, [Next]_vars, NEW g \in Generations, g > started', stage'[g] # "none"
             PROVE  FALSE
  BY DEF InOrder
<1> USE DEF TokenInv, TokenTypeOK, InOrder, Generations, Working, Ended
<1>1. ASSUME NEW c \in Callers, StartRefresh(c)
      PROVE  FALSE
  BY <1>1 DEF StartRefresh
<1>2. ASSUME UNCHANGED <<stage, started>>
      PROVE  FALSE
  BY <1>2
<1>3. ASSUME NEW h \in Generations, stage[h] # "none", UNCHANGED started,
             NEW s \in Stages, stage' = [stage EXCEPT ![h] = s]
      PROVE  FALSE
  BY <1>3
<1> QED
  BY <1>1, <1>2, <1>3, TokenSteps
  DEF AnswerCached, JoinRefresh, Wake, GiveUp, Return, Issue, Receive, Fail, Complete, Tick,
      vars, clientVars, Stages, Open

(* Only StartRefresh opens a generation, when none is in flight, and only    *)
(* Complete closes one, the one in flight.                                   *)
LEMMA OneOpenStep == TokenInv /\ [Next]_vars => OneOpen'
<1> SUFFICES ASSUME TokenInv, [Next]_vars
             PROVE  OneOpen'
  OBVIOUS
<1> USE DEF TokenInv, TokenTypeOK, OneOpen, SingleFlight, Generations, Open, Working, Ended
<1>1. ASSUME NEW c \in Callers, StartRefresh(c)
      PROVE  OneOpen'
  BY <1>1, TokenAssumption DEF StartRefresh, InOrder
<1>2. ASSUME UNCHANGED <<stage, inFlight>>
      PROVE  OneOpen'
  BY <1>2
<1>3. ASSUME NEW g \in Generations, stage[g] \in Open, UNCHANGED inFlight,
             NEW s \in Open, stage' = [stage EXCEPT ![g] = s]
      PROVE  OneOpen'
  BY <1>3
<1>4. ASSUME NEW g \in Generations, Complete(g)
      PROVE  OneOpen'
  BY <1>4 DEF Complete
<1> QED
  BY <1>1, <1>2, <1>3, <1>4, TokenSteps
  DEF AnswerCached, JoinRefresh, Wake, GiveUp, Return, Issue, Receive, Fail, Tick,
      vars, clientVars

(* The clock waits for requests that have reached their timeout.             *)
LEMMA InTimeStep == TokenInv /\ [Next]_vars => InTime'
<1> SUFFICES ASSUME TokenInv, [Next]_vars, NEW g \in Generations
             PROVE  TimelyRequest(g)'
  BY DEF InTime
<1> USE TokenAssumption
    DEF TokenInv, TokenTypeOK, InTime, TimelyRequest, Generations, Times, Working, Ended,
        tokenVars, clientVars
<1>1. ASSUME NEW c \in Callers, StartRefresh(c)
      PROVE  TimelyRequest(g)'
  BY <1>1 DEF StartRefresh
<1>2. ASSUME UNCHANGED <<now, stage, began, tokenVars>>
      PROVE  TimelyRequest(g)'
  BY <1>2
<1>3. ASSUME NEW h \in Generations, NEW ttl \in Ttls, Issue(h, ttl)
      PROVE  TimelyRequest(g)'
  BY <1>3 DEF Issue
<1>4. ASSUME NEW h \in Generations, Receive(h) \/ Fail(h) \/ Complete(h)
      PROVE  TimelyRequest(g)'
  BY <1>4 DEF Receive, Fail, Complete
<1>5. ASSUME Tick
      PROVE  TimelyRequest(g)'
  BY <1>5 DEF Tick
<1> QED
  BY <1>1, <1>2, <1>3, <1>4, <1>5, TokenSteps
  DEF AnswerCached, JoinRefresh, Wake, GiveUp, Return, vars

(* The life lost in transit is at most the timeout, and the margin covers it. *)
LEMMA ExpiresStep == TokenInv /\ [Next]_vars => ExpiresEarly'
<1> SUFFICES ASSUME TokenInv, [Next]_vars
             PROVE  ExpiresEarly'
  OBVIOUS
<1> USE TokenAssumption
    DEF TokenInv, TokenTypeOK, ExpiresEarly, Generations, Times, Stages, Open, Working, Ended,
        tokenVars, clientVars
<1>1. ASSUME NEW c \in Callers, StartRefresh(c)
      PROVE  ExpiresEarly'
  BY SMTT(60), <1>1 DEF StartRefresh, InOrder
<1>2. ASSUME UNCHANGED <<stage, tokenVars>>
      PROVE  ExpiresEarly'
  BY <1>2
<1>3. ASSUME NEW g \in Generations, NEW ttl \in Ttls, Issue(g, ttl)
      PROVE  ExpiresEarly'
  <2>1. expires[g] = 0 /\ ttl \in Nat
    BY <1>3 DEF Issue
  <2>2. stage' = [stage EXCEPT ![g] = "issued"] /\ expires' = expires
    BY <1>3 DEF Issue
  <2>3. issued'[g] + life'[g] >= 0
    BY <1>3, <2>1 DEF Issue
  <2>4. \A h \in Generations \ {g} : issued'[h] = issued[h] /\ life'[h] = life[h]
    BY <1>3 DEF Issue
  <2> QED
    BY <2>1, <2>2, <2>3, <2>4
<1>4. ASSUME NEW g \in Generations, Receive(g)
      PROVE  ExpiresEarly'
  <2>1. now =< issued[g] + Timeout
    BY <1>4 DEF Receive, InTime, TimelyRequest
  <2>2. CacheUntil(life[g]) \in Nat /\ CacheUntil(life[g]) =< issued[g] + life[g]
    BY SMTT(60), <2>1 DEF CacheUntil
  <2> QED
    BY <1>4, <2>2 DEF Receive
<1>5. ASSUME NEW g \in Generations, Fail(g) \/ Complete(g)
      PROVE  ExpiresEarly'
  BY <1>5 DEF Fail, Complete
<1> QED
  BY <1>1, <1>2, <1>3, <1>4, <1>5, TokenSteps
  DEF AnswerCached, JoinRefresh, Wake, GiveUp, Return, Tick, vars

(* A completed generation never changes again, and only such are cached.     *)
LEMMA CompletedStays ==
    ASSUME TokenInv, [Next]_vars, NEW g \in Generations, stage[g] = "completed"
    PROVE  stage'[g] = "completed" /\ expires'[g] = expires[g]
<1> USE DEF TokenInv, TokenTypeOK, Generations, Working, Ended, tokenVars
<1>1. ASSUME NEW c \in Callers, StartRefresh(c)
      PROVE  stage'[g] = "completed" /\ expires'[g] = expires[g]
  BY <1>1, TokenAssumption DEF StartRefresh, InOrder
<1>2. ASSUME NEW h \in Generations, h # g, NEW s \in Stages, NEW t \in Nat,
             stage' = [stage EXCEPT ![h] = s],
             expires' = expires \/ expires' = [expires EXCEPT ![h] = t]
      PROVE  stage'[g] = "completed" /\ expires'[g] = expires[g]
  BY <1>2
<1>3. ASSUME NEW h \in Generations, Receive(h)
      PROVE  stage'[g] = "completed" /\ expires'[g] = expires[g]
  BY <1>3 DEF Receive
<1> QED
  BY <1>1, <1>2, <1>3, TokenSteps
  DEF AnswerCached, JoinRefresh, Wake, GiveUp, Return, Issue, Fail, Complete, Tick, vars,
      Stages, Open

LEMMA CacheStep == TokenInv /\ [Next]_vars => CacheIsGenuine'
<1> SUFFICES ASSUME TokenInv, [Next]_vars
             PROVE  CacheIsGenuine'
  OBVIOUS
<1> USE DEF TokenInv, TokenTypeOK, CacheIsGenuine, Generations
<1>1. cached' # 0 => stage'[cached'] = "completed"
  <2>1. CASE \E g \in Generations : Complete(g)
    BY <2>1, CompletedStays DEF Complete, Ended
  <2>2. CASE cached' \in {0, cached}
    BY <2>2, CompletedStays
  <2> QED
    BY <2>1, <2>2, TokenSteps
    DEF AnswerCached, JoinRefresh, StartRefresh, Wake, GiveUp, Return, Issue, Receive, Fail,
        Tick, vars, clientVars
<1>2. ASSUME NEW c \in Callers, pc'[c] = "cached"
      PROVE  gen'[c] # 0 /\ stage'[gen'[c]] = "completed" /\ at'[c] < expires'[gen'[c]]
  <2>1. CASE AnswerCached(c)
    BY <2>1, CompletedStays DEF AnswerCached, Valid
  <2>2. CASE pc[c] = "cached" /\ gen'[c] = gen[c] /\ at'[c] = at[c]
    BY <1>2, <2>2, CompletedStays
  <2> QED
    BY <1>2, <2>1, <2>2, TokenSteps
    DEF AnswerCached, JoinRefresh, StartRefresh, Wake, GiveUp, Return, Issue, Receive, Fail,
        Complete, Tick, vars, callVars
<1> QED
  BY <1>1, <1>2

LEMMA TokenInvHolds == Spec => []TokenInv
<1>1. Init => TokenInv
  BY TokenAssumption
  DEF Init, TokenInv, TokenTypeOK, Generations, Times, Stages, Working, Ended, Open,
      InOrder, OneOpen, SingleFlight, InTime, TimelyRequest, ExpiresEarly, CacheIsGenuine
<1>2. TokenInv /\ [Next]_vars => TokenInv'
  BY TypeStep, InOrderStep, OneOpenStep, InTimeStep, ExpiresStep, CacheStep DEF TokenInv
<1> QED
  BY <1>1, <1>2, PTL DEF Spec

-----------------------------------------------------------------------------
(* The coordinator's state keeps its type. *)
THEOREM TokenTypeCorrect == Spec => []TokenTypeOK
BY TokenInvHolds, PTL DEF TokenInv

(* However many callers come, give up and come back, there is one refresh at *)
(* a time.                                                                   *)
THEOREM OneRefreshAtATime == Spec => []SingleFlight
BY TokenInvHolds, PTL DEF TokenInv, OneOpen

(* A token from the cache is alive at the provider when it is handed out:    *)
(* the life lost in transit is at most the timeout, which is at most the     *)
(* margin.                                                                   *)
THEOREM CacheNeverOutlivesToken == Spec => []CachedTokensAreLive
<1>1. TokenInv => CachedTokensAreLive
  BY DEF TokenInv, TokenTypeOK, ExpiresEarly, CacheIsGenuine, CachedTokensAreLive,
         Times, Generations
<1> QED
  BY <1>1, TokenInvHolds, PTL

(* Whoever waits has joined a refresh that was still open.                   *)
THEOREM NobodyJoinsTheDone == Spec => JoinsOnlyOpenRefresh
<1> DEFINE Joins == \A c \in Callers : pc[c] = "idle" /\ pc'[c] = "waiting" =>
                      stage'[gen'[c]] \in Open
<1>1. TokenInv /\ [Next]_vars => Joins
  <2> SUFFICES ASSUME TokenInv, [Next]_vars, NEW c \in Callers,
                      pc[c] = "idle", pc'[c] = "waiting"
               PROVE  stage'[gen'[c]] \in Open
    OBVIOUS
  <2> USE TokenAssumption DEF TokenInv, TokenTypeOK, Generations, Open, Working
  <2>1. JoinRefresh(c) \/ StartRefresh(c)
    BY ZenonT(60) DEF Next, Refreshing, AnswerCached, JoinRefresh, StartRefresh, Wake, GiveUp, Return,
           Issue, Receive, Fail, Complete, Tick, vars, callVars
  <2>2. CASE JoinRefresh(c)
    BY <2>2 DEF JoinRefresh, OneOpen
  <2>3. CASE StartRefresh(c)
    BY <2>3 DEF StartRefresh
  <2> QED
    BY <2>1, <2>2, <2>3
<1> QED
  BY <1>1, TokenInvHolds, PTL DEF Spec, JoinsOnlyOpenRefresh
=============================================================================

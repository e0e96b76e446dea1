---------------------------- MODULE MCEventBus ----------------------------
(***************************************************************************)
(* Model checking of EventBus: two records of one aggregate and one that    *)
(* does not validate, a batch with an unscoped event, one partition, a      *)
(* producer that changes its key once.                                      *)
(***************************************************************************)
EXTENDS EventBus, TLC

CONSTANTS Huge

MCLength(v) == IF v = Huge THEN 9 ELSE 1
MCFits(v, form) == v \notin {Garbled, NULL} /\ (form = "utf-8" => v # Huge)
MCNormal(text) ==
  CASE text = " ACKS" -> "acks" [] text = "Acks" -> "acks" [] text = "ALL " -> "all"
    [] OTHER -> text

Ev(tenant, key, event) == [tenant |-> tenant, key |-> key, event |-> event]
MCOutbox == <<Ev("t", "k", "e1"), Ev("t", "k", "e2"), Ev("t", "k", Huge)>>
MCBatch == [c \in {"caller"} |-> <<Ev("t", "k", "b1"), Ev(NULL, "k", "b2")>>]
MCPartitionOf == [k \in {"k"} |-> 1]
MCSigningKeys == <<"old", "new">>
MCOverrides ==
  {<<>>, "acks" :> "1", "acks" :> "ALL ", " ACKS" :> "1", "Acks" :> "all",
   "request.required.acks" :> "1", "request.required.acks" :> "-1", "max.in.flight" :> "6",
   "queuing.strategy" :> "lifo"}

\* Faults, contention and early commits are explored with one key, no relay and no time
\* passing: what happens to a record on its way does not depend on how it is judged.
Judging ==
  \/ relays > 0 \/ now > 0 \/ keysUsed > 1
  \/ <<Producer, "new">> \in DOMAIN verifier.keys
Focus ==
  /\ Judging => /\ faults = 0 /\ attempts < 3 /\ calls["caller"] = <<>> /\ early = {}
                /\ \A i \in DOMAIN received : received[i].call = "recv_raw"
  /\ relays > 0 => attempts = 1
  /\ calls["caller"] # <<>> => attempts + faults < 3 /\ early = {}
  /\ faults > 0 => \A i \in DOMAIN received : received[i].call = "recv_raw"
=============================================================================

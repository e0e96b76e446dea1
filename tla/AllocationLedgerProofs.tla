----------------------- MODULE AllocationLedgerProofs -----------------------
(* What holds of the ledger for any set of allocations, hosts, namespaces    *)
(* and receipts and any capacities, whatever its callers do.                 *)
(*                                                                           *)
(* Each invariant of the first part is inductive together with LedgerTypeOK, *)
(* and no proof looks inside LockPool: the accounting check is only ever a   *)
(* guard there.  The second part is about what the check adds up, the third  *)
(* about the arithmetic of what use is charged for: rates, settlements and   *)
(* their form on the wire, for integers of any width.                        *)
EXTENDS AllocationLedger, ExactMetering, FiniteSetTheorems, SequenceTheorems, WellFoundedInduction, TLAPS

(* The transactions, one disjunct each: a step of the ledger is one of these. *)
LEMMA LedgerSteps ==
    ASSUME LedgerNext
    PROVE  \/ \E au \in Authorities : BindPoolAuthority(au)
           \/ \E a \in Allocs : Reserve(a) \/ BeginLaunch(a) \/ Retain(a) \/ Expire(a)
           \/ \E a \in Allocs, au \in Authorities, r \in Receipts : Provisioned(a, au, r)
           \/ \E a \in Allocs, au \in Authorities : SealInputs(a, au) \/ Release(a, au)
           \/ \E a \in Allocs, au \in Authorities, b \in Bindings : BindExecution(a, b, au)
           \/ \E a \in Allocs, au \in Authorities, b \in Bindings, o \in Authorities :
                Quiescent(a, b, au, o)
BY DEF LedgerNext

-----------------------------------------------------------------------------
LEMMA LedgerTypeStep ==
    ASSUME LedgerTypeOK, [LedgerNext]_ledgerVars
    PROVE  LedgerTypeOK'
<1> USE DEF LedgerTypeOK
<1>1. CASE \E au \in Authorities : BindPoolAuthority(au)
  BY <1>1 DEF BindPoolAuthority
<1>2. ASSUME NEW a \in Allocs, Reserve(a)
      PROVE  LedgerTypeOK'
  <2>1. CASE rec[a].state = "Absent"
    <3>1. rec' \in [Allocs -> Records] /\ authority' = authority /\ expired' = expired
      BY <1>2, <2>1 DEF Reserve, Save, Records, Phases
    <3>2. Demand[a] \in [Resources -> Nat]
      BY CapacityAssumption
    <3>3. used' = [q \in Resources |-> used[q] + Demand[a][q]]
      BY <1>2, <2>1 DEF Reserve
    <3>4. used' \in [Resources -> Nat]
      BY <3>2, <3>3
    <3> QED
      BY <3>1, <3>4
  <2>2. CASE rec[a].state # "Absent"
    BY <1>2, <2>2 DEF Reserve, ledgerVars
  <2> QED
    BY <2>1, <2>2
<1>3. ASSUME NEW a \in Allocs, BeginLaunch(a) \/ Retain(a)
      PROVE  LedgerTypeOK'
  BY <1>3 DEF BeginLaunch, Retain, Save, Records, Phases
<1>4. ASSUME NEW a \in Allocs, Expire(a)
      PROVE  LedgerTypeOK'
  BY <1>4 DEF Expire
<1>5. ASSUME NEW a \in Allocs, NEW au \in Authorities, NEW r \in Receipts,
             Provisioned(a, au, r)
      PROVE  LedgerTypeOK'
  BY ZenonT(60), <1>5 DEF Provisioned, Save, Records, Phases
<1>6. ASSUME NEW a \in Allocs, NEW au \in Authorities, SealInputs(a, au)
      PROVE  LedgerTypeOK'
  BY <1>6 DEF SealInputs, Save, Records
<1>7. ASSUME NEW a \in Allocs, NEW au \in Authorities, Release(a, au)
      PROVE  LedgerTypeOK'
  <2>1. rec' \in [Allocs -> Records] /\ authority' = authority /\ expired' = expired
    BY <1>7 DEF Release, Save, Records, Phases, ledgerVars
  <2>2. used' \in [Resources -> Nat]
    BY <1>7, CapacityAssumption DEF Release, CanRelease, ledgerVars
  <2> QED
    BY <2>1, <2>2
<1>8. ASSUME NEW a \in Allocs, NEW au \in Authorities, NEW b \in Bindings,
             BindExecution(a, b, au)
      PROVE  LedgerTypeOK'
  BY <1>8 DEF BindExecution, Save, Records, Phases
<1>9. ASSUME NEW a \in Allocs, NEW au \in Authorities, NEW b \in Bindings,
             NEW o \in Authorities, Quiescent(a, b, au, o)
      PROVE  LedgerTypeOK'
  BY <1>9 DEF Quiescent, Save, Records, Phases
<1>10. CASE UNCHANGED ledgerVars
  BY <1>10 DEF ledgerVars
<1> QED
  BY <1>1, <1>2, <1>3, <1>4, <1>5, <1>6, <1>7, <1>8, <1>9, <1>10, LedgerSteps

(* The tables and the clock keep their types: no counter goes below zero and *)
(* no record takes a shape a transaction did not mean to write.              *)
THEOREM LedgerTypeCorrect == LedgerSpec => []LedgerTypeOK
<1>1. LedgerInit => LedgerTypeOK
  BY CapacityAssumption DEF LedgerInit, LedgerTypeOK, Records, AbsentRecord, Phases
<1>2. LedgerTypeOK /\ [LedgerNext]_ledgerVars => LedgerTypeOK'
  BY LedgerTypeStep
<1> QED
  BY <1>1, <1>2, PTL DEF LedgerSpec

-----------------------------------------------------------------------------
(* UnsealedNeverLaunches is not inductive alone: begin_launch keeps the      *)
(* execution of the record it starts from, and seal_inputs trusts that a     *)
(* PROVISIONED record has its receipt.  FreshRecords says what the phases    *)
(* before the launch have not recorded yet.                                  *)
FreshRecords ==
    \A a \in Allocs :
        /\ rec[a].state \in {"Absent", "Reserved"} =>
             /\ ~rec[a].sealed
             /\ rec[a].provisioning = NoReceipt
             /\ rec[a].execution = NoBinding
        /\ rec[a].state = "Provisioned" =>
             /\ rec[a].provisioning # NoReceipt
             /\ rec[a].execution = NoBinding

EvidenceInv == FreshRecords /\ UnsealedNeverLaunches

(* EvidenceInv of one record: every transaction touches a single row. *)
EvidenceOf(r) ==
    /\ r.state \in {"Absent", "Reserved"} =>
         ~r.sealed /\ r.provisioning = NoReceipt /\ r.execution = NoBinding
    /\ r.state = "Provisioned" =>
         r.provisioning # NoReceipt /\ r.execution = NoBinding
    /\ r.state \in {"Launching", "Active", "Quiescent"} \/ r.execution # NoBinding
         => r.sealed
    /\ r.sealed => r.provisioning # NoReceipt
    /\ r.state \in {"Active", "Quiescent"} => r.execution # NoBinding
    /\ r.state = "Launching" => r.execution = NoBinding

LEMMA EvidencePerRecord == EvidenceInv <=> \A a \in Allocs : EvidenceOf(rec[a])
BY DEF EvidenceInv, FreshRecords, UnsealedNeverLaunches, EvidenceOf

(* A transaction that saves a record of good evidence keeps the invariant. *)
LEMMA SaveKeepsEvidence ==
    ASSUME LedgerTypeOK, EvidenceInv, NEW a \in Allocs, NEW r,
           rec' = [rec EXCEPT ![a] = r], EvidenceOf(r)
    PROVE  EvidenceInv'
<1>1. \A c \in Allocs : EvidenceOf(rec'[c])
  BY EvidencePerRecord DEF LedgerTypeOK
<1> QED
  BY <1>1 DEF EvidenceInv, FreshRecords, UnsealedNeverLaunches, EvidenceOf

LEMMA EvidenceStep ==
    ASSUME LedgerTypeOK, EvidenceInv, [LedgerNext]_ledgerVars
    PROVE  EvidenceInv'
<1>0. ASSUME rec' = rec
      PROVE  EvidenceInv'
  BY <1>0 DEF EvidenceInv, FreshRecords, UnsealedNeverLaunches
<1>1. \A a \in Allocs : EvidenceOf(rec[a]) /\ rec[a] \in Records
  BY EvidencePerRecord DEF LedgerTypeOK
<1>2. ASSUME NEW a \in Allocs, Reserve(a)
      PROVE  EvidenceInv'
  <2>1. CASE rec[a].state = "Absent"
    <3> DEFINE r == [rec[a] EXCEPT !.state = "Reserved"]
    <3>1. EvidenceOf(r)
      BY <1>1, <2>1 DEF EvidenceOf, Records
    <3>2. rec' = [rec EXCEPT ![a] = r]
      BY <1>2, <2>1 DEF Reserve, Save
    <3> QED
      BY <3>1, <3>2, SaveKeepsEvidence
  <2>2. CASE rec[a].state # "Absent"
    BY <1>0, <1>2, <2>2 DEF Reserve, ledgerVars
  <2> QED
    BY <2>1, <2>2
<1>3. ASSUME NEW a \in Allocs, BeginLaunch(a)
      PROVE  EvidenceInv'
  <2> DEFINE r == [rec[a] EXCEPT !.state = "Launching"]
  <2>1. EvidenceOf(r)
    BY <1>1, <1>3 DEF EvidenceOf, Records, BeginLaunch, CanBeginLaunch
  <2> QED
    BY <1>3, <2>1, SaveKeepsEvidence DEF BeginLaunch, Save
<1>4. ASSUME NEW a \in Allocs, Retain(a)
      PROVE  EvidenceInv'
  <2> DEFINE r == [rec[a] EXCEPT !.state = "Retained"]
  <2>1. EvidenceOf(r)
    BY <1>1, <1>4 DEF EvidenceOf, Records, Retain
  <2> QED
    BY <1>4, <2>1, SaveKeepsEvidence DEF Retain, Save
<1>5. ASSUME NEW a \in Allocs, NEW au \in Authorities, NEW p \in Receipts,
             Provisioned(a, au, p)
      PROVE  EvidenceInv'
  <2> DEFINE r == [rec[a] EXCEPT !.state = "Provisioned", !.provisioning = p]
  <2>1. EvidenceOf(r)
    BY <1>1, <1>5, NullAssumption DEF EvidenceOf, Records, Provisioned, CanProvision
  <2> QED
    BY <1>5, <2>1, SaveKeepsEvidence DEF Provisioned, Save
<1>6. ASSUME NEW a \in Allocs, NEW au \in Authorities, SealInputs(a, au)
      PROVE  EvidenceInv'
  <2> DEFINE r == [rec[a] EXCEPT !.sealed = TRUE]
  <2>1. EvidenceOf(r)
    BY <1>1, <1>6 DEF EvidenceOf, Records, SealInputs, CanSealInputs
  <2> QED
    BY <1>6, <2>1, SaveKeepsEvidence DEF SealInputs, Save
<1>7. ASSUME NEW a \in Allocs, NEW au \in Authorities, NEW b \in Bindings,
             BindExecution(a, b, au)
      PROVE  EvidenceInv'
  <2> DEFINE r == [rec[a] EXCEPT !.state = "Active", !.execution = b]
  <2>1. EvidenceOf(r)
    BY <1>1, <1>7, NullAssumption DEF EvidenceOf, Records, BindExecution, CanBindExecution
  <2> QED
    BY <1>7, <2>1, SaveKeepsEvidence DEF BindExecution, Save
<1>8. ASSUME NEW a \in Allocs, NEW au \in Authorities, NEW b \in Bindings,
             NEW o \in Authorities, Quiescent(a, b, au, o)
      PROVE  EvidenceInv'
  <2> DEFINE r == [rec[a] EXCEPT !.state = "Quiescent"]
  <2>1. EvidenceOf(r)
    BY <1>1, <1>8, NullAssumption DEF EvidenceOf, Records, Quiescent, CanQuiesce
  <2> QED
    BY <1>8, <2>1, SaveKeepsEvidence DEF Quiescent, Save
<1>9. ASSUME NEW a \in Allocs, NEW au \in Authorities, Release(a, au)
      PROVE  EvidenceInv'
  <2>1. CASE rec[a].state # "Released"
    <3> DEFINE r == [rec[a] EXCEPT !.state = "Released"]
    <3>1. EvidenceOf(r)
      BY <1>1, <1>9, <2>1 DEF EvidenceOf, Records, Release, CanRelease
    <3> QED
      BY <1>9, <2>1, <3>1, SaveKeepsEvidence DEF Release, Save
  <2>2. CASE rec[a].state = "Released"
    BY <1>0, <1>9, <2>2 DEF Release, ledgerVars
  <2> QED
    BY <2>1, <2>2
<1>10. ASSUME (\E au \in Authorities : BindPoolAuthority(au))
              \/ (\E a \in Allocs : Expire(a)) \/ UNCHANGED ledgerVars
       PROVE  EvidenceInv'
  BY <1>0, <1>10 DEF BindPoolAuthority, Expire, ledgerVars
<1> QED
  BY <1>2, <1>3, <1>4, <1>5, <1>6, <1>7, <1>8, <1>9, <1>10, LedgerSteps

(* The evidence invariant holds throughout. *)
LEMMA EvidenceCorrect == LedgerSpec => []EvidenceInv
<1>1. LedgerInit => EvidenceInv
  BY DEF LedgerInit, AbsentRecord, EvidenceInv, FreshRecords, UnsealedNeverLaunches
<1>2. LedgerTypeOK /\ EvidenceInv /\ [LedgerNext]_ledgerVars => EvidenceInv'
  BY EvidenceStep
<1> QED
  BY <1>1, <1>2, LedgerTypeCorrect, PTL DEF LedgerSpec

(* Nothing is ever launched, bound or quiesced on unsealed inputs. *)
THEOREM LaunchesAreSealed == LedgerSpec => []UnsealedNeverLaunches
<1>1. EvidenceInv => UnsealedNeverLaunches
  BY DEF EvidenceInv
<1> QED
  BY <1>1, EvidenceCorrect, PTL

-----------------------------------------------------------------------------
LEMMA UnboundStep ==
    ASSUME LedgerTypeOK, EvidenceInv, NothingStartsUnbound, [LedgerNext]_ledgerVars
    PROVE  NothingStartsUnbound'
<1>1. ASSUME NEW au \in Authorities, BindPoolAuthority(au)
      PROVE  NothingStartsUnbound'
  <2>1. authority' # NoAuthority
    BY <1>1, NullAssumption DEF BindPoolAuthority
  <2>2. CASE authority = NoAuthority
    <3>1. \A a \in Allocs : rec[a].execution = NoBinding
      BY <1>1, <2>2, NullAssumption
      DEF BindPoolAuthority, CanBindPoolAuthority, EvidenceInv, FreshRecords
    <3> QED
      BY <1>1, <2>1, <3>1 DEF BindPoolAuthority, NothingStartsUnbound
  <2>3. CASE authority # NoAuthority
    BY <1>1, <2>1, <2>3
    DEF BindPoolAuthority, CanBindPoolAuthority, NothingStartsUnbound
  <2> QED
    BY <2>2, <2>3
<1>2. ASSUME NEW a \in Allocs, Reserve(a) \/ Retain(a) \/ Expire(a)
      PROVE  NothingStartsUnbound'
  BY <1>2 DEF Reserve, Retain, Expire, Save, LedgerTypeOK, Records,
     NothingStartsUnbound, ledgerVars
<1>3. ASSUME NEW a \in Allocs, BeginLaunch(a)
      PROVE  NothingStartsUnbound'
  BY <1>3 DEF BeginLaunch, CanBeginLaunch, Save, LedgerTypeOK, Records,
     NothingStartsUnbound, EvidenceInv, UnsealedNeverLaunches
<1>4. ASSUME NEW a \in Allocs, NEW au \in Authorities, NEW r \in Receipts,
             Provisioned(a, au, r)
      PROVE  NothingStartsUnbound'
  BY <1>4, NullAssumption DEF Provisioned, CanProvision, Save, LedgerTypeOK, Records,
     NothingStartsUnbound
<1>5. ASSUME NEW a \in Allocs, NEW au \in Authorities, SealInputs(a, au)
      PROVE  NothingStartsUnbound'
  BY <1>5 DEF SealInputs, Save, LedgerTypeOK, Records, NothingStartsUnbound
<1>6. ASSUME NEW a \in Allocs, NEW au \in Authorities, Release(a, au)
      PROVE  NothingStartsUnbound'
  BY <1>6, NullAssumption DEF Release, CanRelease, Save, LedgerTypeOK, Records,
     NothingStartsUnbound, ledgerVars
<1>7. ASSUME NEW a \in Allocs, NEW au \in Authorities, NEW b \in Bindings,
             BindExecution(a, b, au)
      PROVE  NothingStartsUnbound'
  BY <1>7, NullAssumption DEF BindExecution, CanBindExecution, Save, LedgerTypeOK,
     Records, NothingStartsUnbound
<1>8. ASSUME NEW a \in Allocs, NEW au \in Authorities, NEW b \in Bindings,
             NEW o \in Authorities, Quiescent(a, b, au, o)
      PROVE  NothingStartsUnbound'
  BY <1>8, NullAssumption DEF Quiescent, CanQuiesce, Save, LedgerTypeOK, Records,
     NothingStartsUnbound
<1>9. CASE UNCHANGED ledgerVars
  BY <1>9 DEF ledgerVars, NothingStartsUnbound
<1> QED
  BY <1>1, <1>2, <1>3, <1>4, <1>5, <1>6, <1>7, <1>8, <1>9, LedgerSteps

(* Before the pool's root is bound no physical phase is ever recorded, and   *)
(* the ledger vouches only for namespaces of the bound boot.                 *)
THEOREM NothingUnbound == LedgerSpec => []NothingStartsUnbound
<1>1. LedgerInit => NothingStartsUnbound
  BY DEF LedgerInit, AbsentRecord, NothingStartsUnbound
<1>2. LedgerTypeOK /\ EvidenceInv /\ NothingStartsUnbound /\ [LedgerNext]_ledgerVars
        => NothingStartsUnbound'
  BY UnboundStep
<1> QED
  BY <1>1, <1>2, EvidenceCorrect, LedgerTypeCorrect, PTL DEF LedgerSpec

(* Whatever the callers do, what runs is grounded in evidence. *)
THEOREM LaunchesGrounded == LedgerSpec => []LaunchesAreGrounded
<1>1. UnsealedNeverLaunches /\ NothingStartsUnbound => LaunchesAreGrounded
  BY DEF LaunchesAreGrounded
<1> QED
  BY <1>1, LaunchesAreSealed, NothingUnbound, PTL

-----------------------------------------------------------------------------
(* What one transaction may do to one record. *)
Grows(r, s) ==
    /\ PhaseRank(r.state) =< PhaseRank(s.state)
    /\ r.provisioning # NoReceipt => s.provisioning = r.provisioning
    /\ r.sealed => s.sealed
    /\ r.execution # NoBinding => s.execution = r.execution

LEMMA SaveGrows ==
    ASSUME LedgerTypeOK, NEW a \in Allocs, NEW r, rec' = [rec EXCEPT ![a] = r],
           Grows(rec[a], r)
    PROVE  \A c \in Allocs : Grows(rec[c], rec'[c])
<1>1. ASSUME NEW c \in Allocs, c # a
      PROVE  Grows(rec[c], rec'[c])
  <2>1. rec'[c] = rec[c] /\ rec[c].state \in Phases
    BY <1>1 DEF LedgerTypeOK, Records
  <2> QED
    BY <2>1 DEF Grows, PhaseRank, Phases
<1>2. rec'[a] = r
  BY DEF LedgerTypeOK
<1> QED
  BY <1>1, <1>2

LedgerGrows ==
    /\ authority # NoAuthority => authority' = authority
    /\ \A a \in Allocs : Grows(rec[a], rec'[a])

LEMMA GrowsStep ==
    ASSUME LedgerTypeOK, EvidenceInv, [LedgerNext]_ledgerVars
    PROVE  LedgerGrows
<1> USE DEF LedgerGrows
<1>0. ASSUME rec' = rec
      PROVE  \A a \in Allocs : Grows(rec[a], rec'[a])
  BY <1>0 DEF Grows, PhaseRank, Phases, LedgerTypeOK, Records
<1>1. ASSUME NEW au \in Authorities, BindPoolAuthority(au)
      PROVE  LedgerGrows
  BY <1>0, <1>1 DEF BindPoolAuthority, CanBindPoolAuthority
<1>2. ASSUME NEW a \in Allocs, Reserve(a)
      PROVE  LedgerGrows
  <2> DEFINE r == [rec[a] EXCEPT !.state = "Reserved"]
  <2>1. rec[a].state = "Absent" => Grows(rec[a], r)
    BY DEF Grows, PhaseRank, LedgerTypeOK, Records
  <2> QED
    BY <1>0, <1>2, <2>1, SaveGrows DEF Reserve, Save, ledgerVars
<1>3. ASSUME NEW a \in Allocs, BeginLaunch(a)
      PROVE  LedgerGrows
  <2> DEFINE r == [rec[a] EXCEPT !.state = "Launching"]
  <2>1. Grows(rec[a], r)
    BY <1>3 DEF BeginLaunch, CanBeginLaunch, Grows, PhaseRank, LedgerTypeOK, Records
  <2> QED
    BY <1>3, <2>1, SaveGrows DEF BeginLaunch, Save
<1>4. ASSUME NEW a \in Allocs, Retain(a)
      PROVE  LedgerGrows
  <2> DEFINE r == [rec[a] EXCEPT !.state = "Retained"]
  <2>1. Grows(rec[a], r)
    BY <1>4 DEF Retain, CanRetain, Grows, PhaseRank, LedgerTypeOK, Records, Phases
  <2> QED
    BY <1>4, <2>1, SaveGrows DEF Retain, Save
<1>5. ASSUME NEW a \in Allocs, NEW au \in Authorities, NEW p \in Receipts,
             Provisioned(a, au, p)
      PROVE  LedgerGrows
  <2> DEFINE r == [rec[a] EXCEPT !.state = "Provisioned", !.provisioning = p]
  <2>1. Grows(rec[a], r)
    BY <1>5 DEF Provisioned, CanProvision, Grows, PhaseRank, LedgerTypeOK, Records,
       EvidenceInv, FreshRecords
  <2> QED
    BY <1>5, <2>1, SaveGrows DEF Provisioned, Save
<1>6. ASSUME NEW a \in Allocs, NEW au \in Authorities, SealInputs(a, au)
      PROVE  LedgerGrows
  <2> DEFINE r == [rec[a] EXCEPT !.sealed = TRUE]
  <2>1. Grows(rec[a], r)
    BY <1>6 DEF SealInputs, CanSealInputs, Grows, PhaseRank, LedgerTypeOK, Records
  <2> QED
    BY <1>6, <2>1, SaveGrows DEF SealInputs, Save
<1>7. ASSUME NEW a \in Allocs, NEW au \in Authorities, NEW b \in Bindings,
             BindExecution(a, b, au)
      PROVE  LedgerGrows
  <2> DEFINE r == [rec[a] EXCEPT !.state = "Active", !.execution = b]
  <2>1. Grows(rec[a], r)
    BY <1>7 DEF BindExecution, CanBindExecution, Grows, PhaseRank, LedgerTypeOK, Records
  <2> QED
    BY <1>7, <2>1, SaveGrows DEF BindExecution, Save
<1>8. ASSUME NEW a \in Allocs, NEW au \in Authorities, NEW b \in Bindings,
             NEW o \in Authorities, Quiescent(a, b, au, o)
      PROVE  LedgerGrows
  <2> DEFINE r == [rec[a] EXCEPT !.state = "Quiescent"]
  <2>1. Grows(rec[a], r)
    BY <1>8 DEF Quiescent, CanQuiesce, Grows, PhaseRank, LedgerTypeOK, Records
  <2> QED
    BY <1>8, <2>1, SaveGrows DEF Quiescent, Save
<1>9. ASSUME NEW a \in Allocs, NEW au \in Authorities, Release(a, au)
      PROVE  LedgerGrows
  <2> DEFINE r == [rec[a] EXCEPT !.state = "Released"]
  <2>1. rec[a].state # "Released" => Grows(rec[a], r)
    BY <1>9 DEF Release, CanRelease, Grows, PhaseRank, LedgerTypeOK, Records
  <2> QED
    BY <1>0, <1>9, <2>1, SaveGrows DEF Release, Save, ledgerVars
<1>10. ASSUME (\E a \in Allocs : Expire(a)) \/ UNCHANGED ledgerVars
       PROVE  LedgerGrows
  BY <1>0, <1>10 DEF Expire, ledgerVars
<1> QED
  BY <1>1, <1>2, <1>3, <1>4, <1>5, <1>6, <1>7, <1>8, <1>9, <1>10, LedgerSteps

(* Phases never go back and recorded evidence is never replaced. *)
THEOREM EvidenceNeverReplaced == LedgerSpec => EvidenceOnlyGrows
<1>1. LedgerTypeOK /\ EvidenceInv /\ [LedgerNext]_ledgerVars => LedgerGrows
  BY GrowsStep
<1>2. LedgerGrows => (/\ authority # NoAuthority => authority' = authority
                      /\ \A a \in Allocs :
                           /\ PhaseRank(rec[a].state) =< PhaseRank(rec[a].state)'
                           /\ rec[a].provisioning # NoReceipt
                                => rec'[a].provisioning = rec[a].provisioning
                           /\ rec[a].sealed => rec'[a].sealed
                           /\ rec[a].execution # NoBinding
                                => rec'[a].execution = rec[a].execution)
  BY DEF LedgerGrows, Grows, PhaseRank
<1> QED
  BY <1>1, <1>2, EvidenceCorrect, LedgerTypeCorrect, PTL DEF LedgerSpec, EvidenceOnlyGrows

(* A record of an admitted launch: released only with its execution known. *)
Launched(r) ==
    \/ r.state \in {"Launching", "Active", "Retained", "Quiescent"}
    \/ r.state = "Released" /\ r.execution # NoBinding

LEMMA LaunchedStep ==
    ASSUME LedgerTypeOK, EvidenceInv, [LedgerNext]_ledgerVars,
           NEW a \in Allocs, Launched(rec[a])
    PROVE  Launched(rec[a])'
<1>1. rec[a] \in Records /\ rec'[a] \in Records /\ EvidenceOf(rec[a])
  BY LedgerTypeStep, EvidencePerRecord DEF LedgerTypeOK
<1>2. Grows(rec[a], rec'[a])
  BY GrowsStep DEF LedgerGrows
<1>3. ASSUME rec[a].execution = NoBinding
      PROVE  rec'[a].state # "Released"
  <2>1. rec[a].state \in {"Launching", "Retained"}
    BY <1>1, <1>3 DEF Launched, EvidenceOf
  <2> USE <2>1 DEF LedgerTypeOK, Records
  <2>2. ASSUME NEW c \in Allocs, Reserve(c) \/ BeginLaunch(c) \/ Retain(c)
        PROVE  rec'[a].state # "Released"
    BY <2>2 DEF Reserve, BeginLaunch, Retain, Save, ledgerVars
  <2>3. ASSUME NEW c \in Allocs, NEW au \in Authorities, Release(c, au)
        PROVE  rec'[a].state # "Released"
    BY <2>3 DEF Release, CanRelease, Save, ledgerVars
  <2>4. ASSUME NEW c \in Allocs, NEW au \in Authorities, NEW r \in Receipts,
               Provisioned(c, au, r)
        PROVE  rec'[a].state # "Released"
    BY <2>4 DEF Provisioned, Save
  <2>5. ASSUME NEW c \in Allocs, NEW au \in Authorities, SealInputs(c, au)
        PROVE  rec'[a].state # "Released"
    BY <2>5 DEF SealInputs, Save
  <2>6. ASSUME NEW c \in Allocs, NEW au \in Authorities, NEW b \in Bindings,
               BindExecution(c, b, au)
        PROVE  rec'[a].state # "Released"
    BY <2>6 DEF BindExecution, Save
  <2>7. ASSUME NEW c \in Allocs, NEW au \in Authorities, NEW b \in Bindings,
               NEW o \in Authorities, Quiescent(c, b, au, o)
        PROVE  rec'[a].state # "Released"
    BY <2>7 DEF Quiescent, Save
  <2>8. CASE UNCHANGED rec
    BY <2>8
  <2> QED
    BY <2>2, <2>3, <2>4, <2>5, <2>6, <2>7, <2>8, LedgerSteps
    DEF BindPoolAuthority, Expire, ledgerVars
<1> QED
  BY <1>1, <1>2, <1>3 DEF Launched, Grows, PhaseRank, Records, Phases

(* A launch that was admitted keeps its capacity until its namespace is known.*)
THEOREM UncertainLaunchKept == LedgerSpec => UncertainLaunchKeepsCapacity
<1> SUFFICES ASSUME NEW CONSTANT a \in Allocs
             PROVE  LedgerSpec => [](rec[a].state = "Launching"
                      => [](rec[a].state = "Released" => rec[a].execution # NoBinding))
  BY DEF UncertainLaunchKeepsCapacity
<1>1. rec[a].state = "Launching" => Launched(rec[a])
  BY DEF Launched
<1>2. LedgerTypeOK /\ EvidenceInv /\ Launched(rec[a]) /\ [LedgerNext]_ledgerVars
        => Launched(rec[a])'
  BY LaunchedStep
<1>3. Launched(rec[a]) => (rec[a].state = "Released" => rec[a].execution # NoBinding)
  BY DEF Launched
<1> QED
  BY <1>1, <1>2, <1>3, LedgerTypeCorrect, EvidenceCorrect, PTL DEF LedgerSpec

(* Evidence stays, and no capacity comes back without it. *)
THEOREM EvidenceKept == LedgerSpec => EvidenceIsKept
BY EvidenceNeverReplaced, UncertainLaunchKept DEF EvidenceIsKept

-----------------------------------------------------------------------------
(* Capacity: the pool row equals the sum over the rows that hold capacity,   *)
(* and stays within the pool (CapacityAccounted), for any allocations and    *)
(* demands.                                                                  *)
(*                                                                           *)
(* The sum is MapThenSumSet, a function defined by recursion on sets.  First *)
(* comes what that function computes, with weights of any kind: instead of   *)
(* induction over sets the proofs take, of the sets that refute a fact, one  *)
(* that has no smaller one.                                                  *)
Pick(s) == CHOOSE x \in s : TRUE

(* i is the recursive function that sums the weights w over the parts of S. *)
Sums(i, w, S) ==
    i = [s \in SUBSET S |-> IF s = {} THEN 0 ELSE w[Pick(s)] + i[s \ {Pick(s)}]]

Total(w, S) == (CHOOSE i : Sums(i, w, S))[S]

-----------------------------------------------------------------------------
(* Among finite sets there is one that contains no other of them. *)
LEMMA SmallestSet ==
    ASSUME NEW D, D # {}, \A s \in D : IsFiniteSet(s)
    PROVE  \E s \in D : \A t \in D : t \subseteq s => t = s
<1> DEFINE Sizes == {Cardinality(s) : s \in D}
<1>1. Sizes \subseteq Nat /\ Sizes # {}
  BY FS_CardinalityType
<1>2. PICK n \in Sizes : \A m \in Sizes : <<m, n>> \notin OpToRel(<, Nat)
  <2> HIDE DEF Sizes
  <2> QED
    BY <1>1, WFMin, NatLessThanWellFounded, Zenon
<1>3. \A m \in Sizes : ~ m < n
  <2> SUFFICES ASSUME NEW m \in Sizes, m < n PROVE FALSE
    OBVIOUS
  <2>1. <<m, n>> \in Nat \X Nat
    BY <1>1
  <2> QED
    BY <2>1, <1>2, Zenon DEF OpToRel
<1>4. PICK s \in D : n = Cardinality(s)
  BY <1>2
<1>5. ASSUME NEW t \in D, t \subseteq s
      PROVE  t = s
  <2>1. Cardinality(t) =< Cardinality(s) /\ (Cardinality(s) = Cardinality(t) => s = t)
    BY <1>5, FS_Subset
  <2>2. Cardinality(t) \in Nat /\ Cardinality(s) \in Nat
    BY FS_CardinalityType
  <2>3. ~ Cardinality(t) < Cardinality(s)
    BY <1>3, <1>4
  <2> QED
    BY <2>1, <2>2, <2>3
<1> QED
  BY <1>4, <1>5

LEMMA PickIn == ASSUME NEW s, s # {} PROVE Pick(s) \in s
BY DEF Pick

(* What the function says at one set. *)
LEMMA SumsAt ==
    ASSUME NEW i, NEW w, NEW S, Sums(i, w, S), NEW s \in SUBSET S
    PROVE  /\ s = {} => i[s] = 0
           /\ s # {} => i[s] = w[Pick(s)] + i[s \ {Pick(s)}]
BY DEF Sums

(* On a finite set there is at most one such function. *)
LEMMA SumsUnique ==
    ASSUME NEW w, NEW S, IsFiniteSet(S), NEW i, Sums(i, w, S), NEW j, Sums(j, w, S)
    PROVE  i = j
<1> DEFINE D == {s \in SUBSET S : i[s] # j[s]}
<1>1. CASE D = {}
  <2>1. \A s \in SUBSET S : i[s] = j[s]
    BY <1>1
  <2>2. i = [s \in SUBSET S |-> i[s]] /\ j = [s \in SUBSET S |-> j[s]]
    BY DEF Sums
  <2> QED
    BY <2>1, <2>2
<1>2. CASE D # {}
  <2>1. \A s \in D : IsFiniteSet(s)
    BY FS_Subset
  <2>2. PICK s \in D : \A t \in D : t \subseteq s => t = s
    <3> HIDE DEF D
    <3> QED
      BY <1>2, <2>1, SmallestSet
  <2>3. s # {}
    BY SumsAt
  <2>4. Pick(s) \in s
    BY <2>3, PickIn
  <2> DEFINE t == s \ {Pick(s)}
  <2>5. i[t] = j[t]
    BY <2>2, <2>4
  <2> QED
    BY <2>3, <2>5, SumsAt
<1> QED
  BY <1>1, <1>2

(* The function on a set, cut down to a part of it. *)
LEMMA SumsRestrict ==
    ASSUME NEW w, NEW S, NEW i, Sums(i, w, S), NEW T \in SUBSET S
    PROVE  Sums([t \in SUBSET T |-> i[t]], w, T)
<1> DEFINE j == [t \in SUBSET T |-> i[t]]
<1>1. ASSUME NEW t \in SUBSET T
      PROVE  j[t] = IF t = {} THEN 0 ELSE w[Pick(t)] + j[t \ {Pick(t)}]
  <2>1. t \in SUBSET S /\ t \ {Pick(t)} \in SUBSET T
    OBVIOUS
  <2>2. j[t] = i[t] /\ j[t \ {Pick(t)}] = i[t \ {Pick(t)}]
    BY <2>1
  <2> QED
    BY <2>1, <2>2, SumsAt
<1> HIDE DEF j
<1>2. j = [t \in SUBSET T |-> j[t]]
  BY DEF j
<1>3. j = [t \in SUBSET T |-> IF t = {} THEN 0 ELSE w[Pick(t)] + j[t \ {Pick(t)}]]
  BY <1>1, <1>2
<1>4. Sums(j, w, T)
  BY <1>3 DEF Sums
<1> QED
  BY <1>4 DEF j

(* Where the function exists, its value at a part is the total of the part. *)
LEMMA SumsTotal ==
    ASSUME NEW w, NEW S, IsFiniteSet(S), NEW i, Sums(i, w, S), NEW T \in SUBSET S
    PROVE  i[T] = Total(w, T)
<1> DEFINE j == [t \in SUBSET T |-> i[t]]
           k == CHOOSE x : Sums(x, w, T)
<1>1. Sums(j, w, T)
  BY SumsRestrict
<1>2. Sums(k, w, T)
  BY <1>1
<1>3. IsFiniteSet(T)
  BY FS_Subset
<1>4. j[T] = i[T]
  OBVIOUS
<1>5. k[T] = Total(w, T)
  BY DEF Total
<1> HIDE DEF j, k
<1>6. j = k
  BY <1>1, <1>2, <1>3, SumsUnique
<1> QED
  BY <1>4, <1>5, <1>6

(* It exists on every finite set. *)
LEMMA SumsExist ==
    ASSUME NEW w, NEW S, IsFiniteSet(S)
    PROVE  \E i : Sums(i, w, S)
<1> DEFINE D == {s \in SUBSET S : ~ \E i : Sums(i, w, s)}
<1> SUFFICES ASSUME D # {} PROVE FALSE
  OBVIOUS
<1>1. \A s \in D : IsFiniteSet(s)
  BY FS_Subset
<1>2. PICK s \in D : \A t \in D : t \subseteq s => t = s
  <2> HIDE DEF D
  <2> QED
    BY <1>1, SmallestSet
<1>3. ASSUME NEW t \in SUBSET s, t # s
      PROVE  /\ t = {} => Total(w, t) = 0
             /\ t # {} => Total(w, t) = w[Pick(t)] + Total(w, t \ {Pick(t)})
  <2>1. t \in SUBSET S /\ IsFiniteSet(t)
    BY FS_Subset
  <2>2. PICK i : Sums(i, w, t)
    BY <1>2, <1>3, <2>1
  <2>3. \A u \in SUBSET t : i[u] = Total(w, u)
    BY <2>1, <2>2, SumsTotal
  <2>4. t \in SUBSET t /\ t \ {Pick(t)} \in SUBSET t
    OBVIOUS
  <2>5. i[t] = Total(w, t) /\ i[t \ {Pick(t)}] = Total(w, t \ {Pick(t)})
    BY <2>3, <2>4
  <2> QED
    BY <2>2, <2>4, <2>5, SumsAt
<1> DEFINE Whole == IF s = {} THEN 0 ELSE w[Pick(s)] + Total(w, s \ {Pick(s)})
           j == [t \in SUBSET s |-> IF t = s THEN Whole ELSE Total(w, t)]
<1>4. ASSUME NEW t \in SUBSET s
      PROVE  j[t] = IF t = {} THEN 0 ELSE w[Pick(t)] + j[t \ {Pick(t)}]
  <2>1. CASE t = {}
    <3>1. CASE t = s
      BY <2>1, <3>1
    <3>2. CASE t # s
      BY <2>1, <3>2, <1>3
    <3> QED
      BY <3>1, <3>2
  <2>2. CASE t # {}
    <3>1. Pick(t) \in t
      BY <2>2, PickIn
    <3>2. t \ {Pick(t)} \in SUBSET s /\ t \ {Pick(t)} # s
      BY <3>1
    <3>3. j[t \ {Pick(t)}] = Total(w, t \ {Pick(t)})
      BY <3>2
    <3>4. j[t] = w[Pick(t)] + Total(w, t \ {Pick(t)})
      <4>1. CASE t = s
        BY <2>2, <4>1
      <4>2. CASE t # s
        BY <2>2, <4>2, <1>3
      <4> QED
        BY <4>1, <4>2
    <3> QED
      BY <2>2, <3>3, <3>4
  <2> QED
    BY <2>1, <2>2
<1>5. j = [t \in SUBSET s |-> j[t]]
  OBVIOUS
<1> HIDE DEF j
<1>6. j = [t \in SUBSET s |-> IF t = {} THEN 0 ELSE w[Pick(t)] + j[t \ {Pick(t)}]]
  BY <1>4, <1>5
<1> QED
  BY <1>2, <1>6 DEF Sums

(* The total by its recursion. *)
LEMMA TotalAt ==
    ASSUME NEW w, NEW S, IsFiniteSet(S)
    PROVE  /\ S = {} => Total(w, S) = 0
           /\ S # {} => Total(w, S) = w[Pick(S)] + Total(w, S \ {Pick(S)})
<1>1. PICK i : Sums(i, w, S)
  BY SumsExist
<1>2. S \in SUBSET S /\ S \ {Pick(S)} \in SUBSET S
  OBVIOUS
<1>3. i[S] = Total(w, S) /\ i[S \ {Pick(S)}] = Total(w, S \ {Pick(S)})
  BY ZenonT(60), <1>1, <1>2, SumsTotal
<1> QED
  BY <1>1, <1>2, <1>3, SumsAt

LEMMA TotalNat ==
    ASSUME NEW w, NEW S, IsFiniteSet(S), \A x \in S : w[x] \in Nat
    PROVE  Total(w, S) \in Nat
<1> DEFINE D == {s \in SUBSET S : Total(w, s) \notin Nat}
<1> SUFFICES ASSUME D # {} PROVE FALSE
  OBVIOUS
<1>1. \A s \in D : IsFiniteSet(s)
  BY FS_Subset
<1>2. PICK s \in D : \A t \in D : t \subseteq s => t = s
  <2> HIDE DEF D
  <2> QED
    BY <1>1, SmallestSet
<1>3. s # {}
  <2>1. IsFiniteSet(s) /\ Total(w, s) \notin Nat
    BY <1>1
  <2>2. s = {} => Total(w, s) = 0
    BY <2>1, TotalAt
  <2>3. 0 \in Nat
    OBVIOUS
  <2> HIDE DEF D
  <2> QED
    BY <2>1, <2>2, <2>3
<1>4. Pick(s) \in s
  BY <1>3, PickIn
<1>5. Total(w, s \ {Pick(s)}) \in Nat
  BY <1>2, <1>4
<1>6. w[Pick(s)] \in Nat
  BY <1>4
<1> QED
  BY <1>1, <1>3, <1>5, <1>6, TotalAt

(* The order in which the elements are taken makes no difference. *)
LEMMA TotalTake ==
    ASSUME NEW w, NEW S, IsFiniteSet(S), \A x \in S : w[x] \in Nat, NEW a \in S
    PROVE  Total(w, S) = w[a] + Total(w, S \ {a})
<1> DEFINE Wrong(s) == \E x \in s : Total(w, s) # w[x] + Total(w, s \ {x})
           D == {s \in SUBSET S : Wrong(s)}
<1> SUFFICES ASSUME D # {} PROVE FALSE
  <2>1. ~ Wrong(S) => Total(w, S) = w[a] + Total(w, S \ {a})
    OBVIOUS
  <2>2. Wrong(S) => S \in D
    OBVIOUS
  <2> HIDE DEF D, Wrong
  <2> QED
    BY <2>1, <2>2
<1>1. \A s \in D : IsFiniteSet(s)
  BY FS_Subset
<1>2. PICK s \in D : \A t \in D : t \subseteq s => t = s
  <2> HIDE DEF D
  <2> QED
    BY <1>1, SmallestSet
<1>e. PICK e \in s : Total(w, s) # w[e] + Total(w, s \ {e})
  OBVIOUS
<1> DEFINE c == Pick(s)
           less == s \ {c}
           rest == s \ {e}
           both == s \ {c, e}
<1>3. c \in s
  BY PickIn
<1>4. Total(w, s) = w[c] + Total(w, less)
  BY <1>1, <1>3, TotalAt
<1>5. c # e
  BY <1>e, <1>4
<1>6. \A t \in SUBSET s : \A x \in t : t # s => Total(w, t) = w[x] + Total(w, t \ {x})
  BY <1>2
<1>7. Total(w, less) = w[e] + Total(w, both)
  <2>1. less \in SUBSET s /\ e \in less /\ less # s /\ less \ {e} = both
    BY <1>3, <1>5
  <2> QED
    BY <2>1, <1>6
<1>8. Total(w, rest) = w[c] + Total(w, both)
  <2>1. rest \in SUBSET s /\ c \in rest /\ rest # s /\ rest \ {c} = both
    BY <1>3, <1>5
  <2> QED
    BY <2>1, <1>6
<1>9. Total(w, both) \in Nat
  <2>1. both \in SUBSET S
    OBVIOUS
  <2> QED
    BY <2>1, FS_Subset, TotalNat
<1>10. w[e] \in Nat /\ w[c] \in Nat
  BY <1>3
<1>11. Total(w, s) # w[e] + Total(w, rest)
  BY <1>e
<1> HIDE DEF less, rest, both, c
<1> QED
  BY <1>4, <1>7, <1>8, <1>9, <1>10, <1>11

-----------------------------------------------------------------------------
(* The ledger's sum is such a total. *)
Weights(q)      == [a \in Allocs |-> Demand[a][q]]
DemandSum(q, H) == MapThenSumSet(LAMBDA a : Demand[a][q], H)
Holders         == {a \in Allocs : rec[a].state \notin {"Absent", "Released"}}

LEMMA DemandSumIsTotal ==
    ASSUME NEW q \in Resources, NEW H \in SUBSET Allocs, IsFiniteSet(H)
    PROVE  DemandSum(q, H) = Total(Weights(q), H)
<1> DEFINE Is(i) == i = [s \in SUBSET H |->
                           IF s = {} THEN 0
                           ELSE Demand[CHOOSE x \in s : TRUE][q]
                                  + i[s \ {CHOOSE x \in s : TRUE}]]
           it == CHOOSE i : Is(i)
<1>1. DemandSum(q, H) = it[H]
  BY DEF DemandSum, MapThenSumSet, MapThenFoldSet
<1>2. ASSUME NEW i
      PROVE  Is(i) <=> Sums(i, Weights(q), H)
  <2>1. ASSUME NEW s \in SUBSET H, s # {}
        PROVE  Demand[Pick(s)][q] = Weights(q)[Pick(s)]
    BY <2>1, PickIn DEF Weights
  <2>2. [s \in SUBSET H |->
           IF s = {} THEN 0 ELSE Demand[Pick(s)][q] + i[s \ {Pick(s)}]]
        = [s \in SUBSET H |->
             IF s = {} THEN 0 ELSE Weights(q)[Pick(s)] + i[s \ {Pick(s)}]]
    BY <2>1
  <2>3. Is(i) <=> i = [s \in SUBSET H |->
                         IF s = {} THEN 0 ELSE Demand[Pick(s)][q] + i[s \ {Pick(s)}]]
    BY DEF Pick
  <2> HIDE DEF Is
  <2> QED
    BY <2>2, <2>3 DEF Sums
<1> HIDE DEF Is
<1>3. \E i : Is(i)
  BY <1>2, SumsExist
<1>4. Sums(it, Weights(q), H)
  BY <1>2, <1>3
<1>5. it[H] = Total(Weights(q), H)
  <2> HIDE DEF it
  <2> QED
    BY <1>4, SumsTotal
<1> QED
  BY <1>1, <1>5

LEMMA OutstandingIsSum ==
    ASSUME NEW q \in Resources
    PROVE  /\ Outstanding(q) = DemandSum(q, Holders)
           /\ Outstanding(q)' = DemandSum(q, Holders')
           /\ Holders \in SUBSET Allocs /\ Holders' \in SUBSET Allocs
BY DEF Outstanding, DemandSum, Holders, MapThenSumSet, MapThenFoldSet

-----------------------------------------------------------------------------
(* Only finitely many allocations hold capacity, and the pool row is exactly *)
(* their total, within the pool.                                             *)
Accounted == /\ IsFiniteSet(Holders)
             /\ CapacityAccounted

LEMMA WeightsType ==
    ASSUME NEW q \in Resources
    PROVE  \A a \in Allocs : Weights(q)[a] = Demand[a][q] /\ Demand[a][q] \in Nat
BY CapacityAssumption DEF Weights

LEMMA AccountedRow ==
    ASSUME Accounted, NEW q \in Resources
    PROVE  used[q] = Total(Weights(q), Holders) /\ used[q] =< Maximum[q]
BY OutstandingIsSum, DemandSumIsTotal DEF Accounted, CapacityAccounted

LEMMA AccountedInit ==
    ASSUME LedgerInit
    PROVE  Accounted
<1>1. Holders = {}
  BY DEF Holders, LedgerInit, AbsentRecord
<1>2. IsFiniteSet(Holders)
  BY <1>1, FS_EmptySet
<1>3. ASSUME NEW q \in Resources
      PROVE  used[q] = Outstanding(q) /\ used[q] =< Maximum[q]
  <2>1. Outstanding(q) = Total(Weights(q), Holders)
    BY <1>2, OutstandingIsSum, DemandSumIsTotal
  <2>2. Total(Weights(q), Holders) = 0
    BY <1>1, <1>2, TotalAt
  <2>3. used[q] = 0
    BY DEF LedgerInit
  <2>4. Maximum[q] \in Nat
    BY CapacityAssumption
  <2> QED
    BY <2>1, <2>2, <2>3, <2>4
<1> QED
  BY <1>2, <1>3 DEF Accounted, CapacityAccounted

(* A step that leaves the pool row and the holders alone keeps the account. *)
LEMMA AccountedSame ==
    ASSUME Accounted, Holders' = Holders, used' = used
    PROVE  Accounted'
<1>1. IsFiniteSet(Holders)
  BY DEF Accounted
<1>2. ASSUME NEW q \in Resources
      PROVE  Outstanding(q)' = Outstanding(q)
  BY OutstandingIsSum
<1> QED
  BY <1>1, <1>2 DEF Accounted, CapacityAccounted

(* A step under which the holders and every row come out as a total again. *)
LEMMA AccountedNext ==
    ASSUME IsFiniteSet(Holders'),
           \A q \in Resources :
               used'[q] = Total(Weights(q), Holders') /\ used'[q] =< Maximum[q]
    PROVE  Accounted'
<1>1. ASSUME NEW q \in Resources
      PROVE  used'[q] = Outstanding(q)' /\ used'[q] =< Maximum[q]
  <2>1. Outstanding(q)' = Total(Weights(q), Holders')
    BY OutstandingIsSum, DemandSumIsTotal
  <2> QED
    BY <2>1
<1>2. CapacityAccounted'
  BY <1>1 DEF CapacityAccounted
<1>3. IsFiniteSet(Holders)'
  OBVIOUS
<1> QED
  BY <1>2, <1>3 DEF Accounted

(* A reservation adds one holder and its demand, within the capacity. *)
LEMMA AccountedReserve ==
    ASSUME LedgerTypeOK, Accounted, NEW a \in Allocs, Reserve(a)
    PROVE  Accounted'
<1>1. CASE rec[a].state # "Absent"
  <2>1. rec' = rec /\ used' = used
    BY <1>1 DEF Reserve, ledgerVars
  <2>2. Holders' = Holders
    BY <2>1 DEF Holders
  <2> QED
    BY <2>1, <2>2, AccountedSame
<1>2. CASE rec[a].state = "Absent"
  <2>1. rec' = [rec EXCEPT ![a] = [rec[a] EXCEPT !.state = "Reserved"]]
    BY <1>2 DEF Reserve, Save
  <2>2. rec'[a].state = "Reserved" /\ \A b \in Allocs : b # a => rec'[b] = rec[b]
    BY <2>1 DEF LedgerTypeOK, Records
  <2>3. a \notin Holders /\ Holders' = Holders \cup {a}
    BY <2>2, <1>2 DEF Holders
  <2>4. IsFiniteSet(Holders) /\ IsFiniteSet(Holders')
    BY <2>3, FS_AddElement DEF Accounted
  <2>5. ASSUME NEW q \in Resources
        PROVE  used'[q] = Total(Weights(q), Holders') /\ used'[q] =< Maximum[q]
    <3>1. used'[q] = used[q] + Demand[a][q] /\ used'[q] =< Maximum[q]
      BY <1>2 DEF Reserve, CanReserve
    <3>2. used[q] = Total(Weights(q), Holders)
      BY AccountedRow
    <3>3. \A b \in Holders' : Weights(q)[b] \in Nat
      BY WeightsType DEF Holders
    <3>4. a \in Holders' /\ Holders' \ {a} = Holders
      BY <2>3
    <3>5. Total(Weights(q), Holders') = Weights(q)[a] + Total(Weights(q), Holders)
      <4>1. Total(Weights(q), Holders') = Weights(q)[a] + Total(Weights(q), Holders' \ {a})
        BY <2>4, <3>3, <3>4, TotalTake
      <4> QED
        BY <4>1, <3>4
    <3>6. Weights(q)[a] = Demand[a][q] /\ Demand[a][q] \in Nat
      BY WeightsType
    <3>7. used[q] \in Nat
      BY DEF LedgerTypeOK
    <3> QED
      BY <3>1, <3>2, <3>5, <3>6, <3>7
  <2> QED
    BY <2>4, <2>5, AccountedNext
<1> QED
  BY <1>1, <1>2

(* A release takes one holder out and gives its demand back. *)
LEMMA AccountedRelease ==
    ASSUME LedgerTypeOK, Accounted, NEW a \in Allocs, NEW au, Release(a, au)
    PROVE  Accounted'
<1>1. CASE rec[a].state = "Released"
  <2>1. rec' = rec /\ used' = used
    BY <1>1 DEF Release, ledgerVars
  <2>2. Holders' = Holders
    BY <2>1 DEF Holders
  <2> QED
    BY <2>1, <2>2, AccountedSame
<1>2. CASE rec[a].state # "Released"
  <2>1. rec' = [rec EXCEPT ![a] = [rec[a] EXCEPT !.state = "Released"]]
    BY <1>2 DEF Release, Save
  <2>2. rec'[a].state = "Released" /\ \A b \in Allocs : b # a => rec'[b] = rec[b]
    BY <2>1 DEF LedgerTypeOK, Records
  <2>3. a \in Holders /\ Holders' = Holders \ {a}
    BY <2>2, <1>2 DEF Holders, Release, CanRelease
  <2>4. IsFiniteSet(Holders) /\ IsFiniteSet(Holders')
    BY <2>3, FS_RemoveElement DEF Accounted
  <2>5. ASSUME NEW q \in Resources
        PROVE  used'[q] = Total(Weights(q), Holders') /\ used'[q] =< Maximum[q]
    <3>1. used'[q] = used[q] - Demand[a][q]
      BY <1>2 DEF Release
    <3>2. used[q] = Total(Weights(q), Holders) /\ used[q] =< Maximum[q]
      BY AccountedRow
    <3>3. \A b \in Holders : Weights(q)[b] \in Nat
      BY WeightsType DEF Holders
    <3>4. Total(Weights(q), Holders) = Weights(q)[a] + Total(Weights(q), Holders')
      BY <2>3, <2>4, <3>3, TotalTake
    <3>5. Weights(q)[a] = Demand[a][q] /\ Demand[a][q] \in Nat
      BY WeightsType
    <3>6. Total(Weights(q), Holders') \in Nat
      <4>1. \A b \in Holders' : Weights(q)[b] \in Nat
        BY <2>3, <3>3
      <4> QED
        BY <2>4, <4>1, TotalNat
    <3>7. Maximum[q] \in Nat
      BY CapacityAssumption
    <3> QED
      BY <3>1, <3>2, <3>4, <3>5, <3>6, <3>7
  <2> QED
    BY <2>4, <2>5, AccountedNext
<1> QED
  BY <1>1, <1>2

LEMMA AccountedStep ==
    ASSUME LedgerTypeOK, Accounted, [LedgerNext]_ledgerVars
    PROVE  Accounted'
<1>1. ASSUME used' = used, \A b \in Allocs : rec'[b].state \in {"Absent", "Released"}
                                         <=> rec[b].state \in {"Absent", "Released"}
      PROVE  Accounted'
  <2>1. Holders' = Holders
    BY <1>1 DEF Holders
  <2> QED
    BY <1>1, <2>1, AccountedSame
<1>2. ASSUME NEW a \in Allocs, NEW r, Save(a, r), used' = used, NEW p, r.state = p,
             p \notin {"Absent", "Released"}, rec[a].state \notin {"Absent", "Released"}
      PROVE  Accounted'
  <2>1. \A b \in Allocs : rec'[b] = IF b = a THEN r ELSE rec[b]
    BY <1>2 DEF Save, LedgerTypeOK
  <2> QED
    BY <1>1, <1>2, <2>1
<1>3. CASE \E au \in Authorities : BindPoolAuthority(au)
  BY <1>3, <1>1 DEF BindPoolAuthority
<1>4. ASSUME NEW a \in Allocs, Reserve(a) \/ BeginLaunch(a) \/ Retain(a) \/ Expire(a)
      PROVE  Accounted'
  <2>1. CASE Reserve(a)
    BY <2>1, AccountedReserve
  <2>2. CASE BeginLaunch(a)
    BY <2>2, <1>2 DEF BeginLaunch, CanBeginLaunch, LedgerTypeOK, Records
  <2>3. CASE Retain(a)
    BY <2>3, <1>2 DEF Retain, CanRetain, LedgerTypeOK, Records
  <2>4. CASE Expire(a)
    BY <2>4, <1>1 DEF Expire
  <2> QED
    BY <1>4, <2>1, <2>2, <2>3, <2>4
<1>5. ASSUME NEW a \in Allocs, NEW au \in Authorities, NEW r \in Receipts,
             Provisioned(a, au, r)
      PROVE  Accounted'
  <2> DEFINE n == [rec[a] EXCEPT !.state = "Provisioned", !.provisioning = r]
  <2>1. Save(a, n) /\ used' = used
    BY <1>5 DEF Provisioned
  <2>2. n.state = "Provisioned" /\ rec[a].state \in {"Reserved", "Provisioned"}
    BY <1>5 DEF Provisioned, CanProvision, LedgerTypeOK, Records
  <2> HIDE DEF n
  <2> QED
    BY <2>1, <2>2, <1>2
<1>6. ASSUME NEW a \in Allocs, NEW au \in Authorities, SealInputs(a, au) \/ Release(a, au)
      PROVE  Accounted'
  <2>1. CASE SealInputs(a, au)
    <3> DEFINE n == [rec[a] EXCEPT !.sealed = TRUE]
    <3>1. Save(a, n) /\ used' = used
      BY <2>1 DEF SealInputs
    <3>2. n.state = "Provisioned" /\ rec[a].state = "Provisioned"
      BY <2>1 DEF SealInputs, CanSealInputs, LedgerTypeOK, Records
    <3> HIDE DEF n
    <3> QED
      BY <3>1, <3>2, <1>2
  <2>2. CASE Release(a, au)
    BY <2>2, AccountedRelease
  <2> QED
    BY <1>6, <2>1, <2>2
<1>7. ASSUME NEW a \in Allocs, NEW au \in Authorities, NEW b \in Bindings,
             BindExecution(a, b, au)
      PROVE  Accounted'
  <2> DEFINE n == [rec[a] EXCEPT !.state = "Active", !.execution = b]
  <2>1. Save(a, n) /\ used' = used
    BY <1>7 DEF BindExecution
  <2>2. n.state = "Active" /\ rec[a].state \in {"Launching", "Active"}
    BY <1>7 DEF BindExecution, CanBindExecution, LedgerTypeOK, Records
  <2> HIDE DEF n
  <2> QED
    BY <2>1, <2>2, <1>2
<1>8. ASSUME NEW a \in Allocs, NEW au \in Authorities, NEW b \in Bindings,
             NEW o \in Authorities, Quiescent(a, b, au, o)
      PROVE  Accounted'
  <2> DEFINE n == [rec[a] EXCEPT !.state = "Quiescent"]
  <2>1. Save(a, n) /\ used' = used
    BY <1>8 DEF Quiescent
  <2>2. n.state = "Quiescent" /\ rec[a].state \in {"Active", "Retained", "Quiescent"}
    BY <1>8 DEF Quiescent, CanQuiesce, LedgerTypeOK, Records
  <2> HIDE DEF n
  <2> QED
    BY <2>1, <2>2, <1>2
<1>9. CASE UNCHANGED ledgerVars
  BY <1>9, <1>1 DEF ledgerVars
<1> QED
  BY <1>3, <1>4, <1>5, <1>6, <1>7, <1>8, <1>9, LedgerSteps

LEMMA AlwaysAccounted == LedgerSpec => []Accounted
<1>1. LedgerInit => Accounted
  BY AccountedInit
<1>2. LedgerTypeOK /\ Accounted /\ [LedgerNext]_ledgerVars => Accounted'
  BY AccountedStep
<1> QED
  BY <1>1, <1>2, LedgerTypeCorrect, PTL DEF LedgerSpec

-----------------------------------------------------------------------------
(* lock_pool, reserve and release: the pool row is the sum over the rows     *)
(* that hold capacity and never exceeds what was configured, in any order of *)
(* reservations, replays, retained launches and releases.                    *)
THEOREM CapacityExact == LedgerSpec => []CapacityAccounted
<1>1. Accounted => CapacityAccounted
  BY DEF Accounted
<1> QED
  BY <1>1, AlwaysAccounted, PTL

(* The accounting checks of lock_pool and of release are never what refuses  *)
(* a transaction: the sums agree whenever the pool row is locked, and what a *)
(* row gives back has been taken before.                                     *)
THEOREM AccountingNeverRefuses ==
    LedgerSpec => [](/\ LockPool
                     /\ \A a \in Allocs : rec[a].state \notin {"Absent", "Released"}
                          => \A q \in Resources : Demand[a][q] =< used[q])
<1> DEFINE Covered == \A a \in Allocs : rec[a].state \notin {"Absent", "Released"}
                        => \A q \in Resources : Demand[a][q] =< used[q]
<1>1. Accounted => LockPool
  BY DEF Accounted, CapacityAccounted, LockPool
<1>2. ASSUME Accounted, NEW a \in Allocs, NEW q \in Resources,
             rec[a].state \notin {"Absent", "Released"}
      PROVE  Demand[a][q] =< used[q]
  <2> DEFINE rest == Total(Weights(q), Holders \ {a})
  <2>1. a \in Holders /\ IsFiniteSet(Holders) /\ IsFiniteSet(Holders \ {a})
    BY <1>2, FS_RemoveElement DEF Accounted, Holders
  <2>2. \A b \in Holders : Weights(q)[b] \in Nat
    BY WeightsType DEF Holders
  <2>3. used[q] = Weights(q)[a] + rest
    BY <1>2, <2>1, <2>2, TotalTake, AccountedRow
  <2>4. rest \in Nat
    BY <2>1, <2>2, TotalNat
  <2>5. Weights(q)[a] = Demand[a][q] /\ Demand[a][q] \in Nat
    BY WeightsType
  <2> HIDE DEF rest
  <2> QED
    BY <2>3, <2>4, <2>5
<1>3. Accounted => Covered
  BY <1>2
<1> QED
  BY <1>1, <1>3, AlwaysAccounted, PTL

-----------------------------------------------------------------------------
(* Third part: exact metering.  Products keep order.                        *)
LEMMA Times ==
  ASSUME NEW m \in Nat, NEW j \in Int, NEW k \in Int
  PROVE  /\ j <= k => m * j <= m * k
         /\ j < k /\ m # 0 => m * j + m <= m * k
         /\ m # 0 /\ m * j = m * k => j = k
<1>1. ASSUME j <= k PROVE m * j <= m * k
  <2>1. PICK d \in Nat : k = j + d
    BY <1>1
  <2>2. m * k = m * j + m * d /\ m * d \in Nat
    BY <2>1
  <2> QED
    BY <2>2
<1>2. ASSUME j < k PROVE m * j + m <= m * k
  <2>1. PICK d \in Nat : k = j + 1 + d
    BY <1>2
  <2>2. m * k = m * j + m + m * d /\ m * d \in Nat
    BY <2>1
  <2> QED
    BY <2>2
<1>3. ASSUME k < j PROVE m * k + m <= m * j
  <2>1. PICK d \in Nat : j = k + 1 + d
    BY <1>3
  <2>2. m * j = m * k + m + m * d /\ m * d \in Nat
    BY <2>1
  <2> QED
    BY <2>2
<1>4. m * j \in Int /\ m * k \in Int
  OBVIOUS
<1> QED
  BY <1>1, <1>2, <1>3, <1>4

(* A quotient and its rest. *)
LEMMA Division ==
  ASSUME NEW n \in Nat, NEW m \in Nat \ {0}
  PROVE  /\ n \div m \in Nat /\ n % m \in Nat /\ n % m < m
         /\ n = m * (n \div m) + (n % m)
<1>1. n % m \in Nat /\ n % m < m
  OBVIOUS
<1>2. n \div m \in Int
  OBVIOUS
<1>3. n = m * (n \div m) + (n % m)
  OBVIOUS
<1>4. n \div m >= 0
  OBVIOUS
<1> QED
  BY <1>1, <1>2, <1>3, <1>4

LEMMA OneQuotient ==
  ASSUME NEW n \in Nat, NEW m \in Nat \ {0}, NEW k \in Int, NEW s \in Nat, s < m, n = m * k + s
  PROVE  n \div m = k /\ n % m = s
<1>1. PICK c, t : c = n \div m /\ t = n % m
  OBVIOUS
<1>2. c \in Nat /\ t \in Nat /\ t < m /\ n = m * c + t
  BY <1>1, Division
<1>3. PICK x, y : x = m * c /\ y = m * k
  OBVIOUS
<1>4. x \in Int /\ y \in Int /\ x + t = y + s
  BY <1>2, <1>3
<1>5. ~ c < k
  <2> SUFFICES ASSUME c < k PROVE FALSE
    OBVIOUS
  <2>1. x + m <= y
    BY <1>2, <1>3, Times
  <2> QED
    BY <1>2, <1>4, <2>1
<1>6. ~ k < c
  <2> SUFFICES ASSUME k < c PROVE FALSE
    OBVIOUS
  <2>1. y + m <= x
    BY <1>2, <1>3, Times
  <2> QED
    BY <1>2, <1>4, <2>1
<1>7. c = k
  BY <1>2, <1>5, <1>6
<1> QED
  BY <1>1, <1>3, <1>4, <1>2, <1>7

(* A set of numbers has a smallest one.                                      *)
LEMMA Smallest ==
  ASSUME NEW D, D \subseteq Nat, D # {}
  PROVE  \E n \in D : \A m \in D : ~ m < n
<1>1. PICK n \in D : \A m \in D : <<m, n>> \notin OpToRel(<, Nat)
  BY WFMin, NatLessThanWellFounded, Zenon
<1> SUFFICES ASSUME NEW m \in D, m < n PROVE FALSE
  OBVIOUS
<1>2. <<m, n>> \in Nat \X Nat
  OBVIOUS
<1> QED
  BY <1>1, <1>2, Zenon DEF OpToRel

-----------------------------------------------------------------------------
(* The algorithm of Euclid, on numbers up to MaxAmount.                      *)
Euclid(g) ==
    g = [p \in Amounts \X Amounts |-> IF p[2] = 0 THEN p[1] ELSE g[<<p[2], p[1] % p[2]>>]]

EuclidTo(g, m) == \A l \in Amounts : \A r \in 0..m : g[<<l, r>>] = IF r = 0 THEN l ELSE g[<<r, l % r>>]

LEMMA EuclidThere ==
  ASSUME MaxAmount \in Nat
  PROVE  \E g : Euclid(g)
<1>1. PICK D : D = {m \in Amounts : ~\E g : EuclidTo(g, m)}
  OBVIOUS
<1>2. D = {}
  <2> SUFFICES ASSUME D # {} PROVE FALSE
    OBVIOUS
  <2>1. D \subseteq Nat
    BY <1>1 DEF Amounts
  <2>2. PICK m \in D : \A k \in D : ~ k < m
    BY <2>1, Smallest
  <2>3. m \in Amounts /\ m \in Nat /\ ~\E g : EuclidTo(g, m)
    BY <1>1, <2>1
  <2>4. CASE m = 0
    <3>1. PICK g : g = [p \in Amounts \X (0..0) |-> p[1]]
      OBVIOUS
    <3>2. EuclidTo(g, m)
      BY <2>4, <3>1 DEF EuclidTo
    <3> QED
      BY <2>3, <3>2
  <2>5. CASE m # 0
    <3>1. m - 1 \in Amounts /\ m - 1 < m
      BY <2>3, <2>5 DEF Amounts
    <3>2. PICK g : EuclidTo(g, m - 1)
      BY <1>1, <2>2, <3>1
    <3>3. PICK h : h = [p \in Amounts \X (0..m) |-> IF p[2] = m THEN g[<<m, p[1] % m>>] ELSE g[<<p[1], p[2]>>]]
      OBVIOUS
    <3>4. ASSUME NEW l \in Amounts, NEW r \in 0..m
          PROVE  h[<<l, r>>] = IF r = m THEN g[<<m, l % m>>] ELSE g[<<l, r>>]
      BY <3>3
    <3>5. ASSUME NEW l \in Amounts, NEW r \in 0..m, r # 0
          PROVE  r \in Amounts /\ l % r \in 0..m - 1 /\ l % r \in 0..m /\ l % r # m
      <4>1. l \in Nat /\ r \in Nat \ {0}
        BY <3>5 DEF Amounts
      <4>2. l % r \in Nat /\ l % r < r
        BY <4>1, Division
      <4> QED
        BY <2>3, <4>1, <4>2 DEF Amounts
    <3>6. EuclidTo(h, m)
      <4> SUFFICES ASSUME NEW l \in Amounts, NEW r \in 0..m
                   PROVE  h[<<l, r>>] = IF r = 0 THEN l ELSE h[<<r, l % r>>]
        BY DEF EuclidTo
      <4>1. r # 0 => h[<<r, l % r>>] = g[<<r, l % r>>]
        BY <3>4, <3>5
      <4>2. CASE r = m
        BY <2>5, <3>4, <4>1, <4>2
      <4>3. CASE r # m
        <5>1. r \in 0..m - 1
          BY <2>3, <4>3
        <5>2. g[<<l, r>>] = IF r = 0 THEN l ELSE g[<<r, l % r>>]
          BY <3>2, <5>1 DEF EuclidTo
        <5> QED
          BY <3>4, <4>1, <4>3, <5>2
      <4> QED
        BY <4>2, <4>3
    <3> QED
      BY <2>3, <3>6
  <2> QED
    BY <2>4, <2>5
<1>3. MaxAmount \in Amounts
  BY DEF Amounts
<1>4. PICK g : EuclidTo(g, MaxAmount)
  BY <1>1, <1>2, <1>3, Zenon
<1>5. PICK h : h = [p \in Amounts \X Amounts |-> g[<<p[1], p[2]>>]]
  OBVIOUS
<1>6. ASSUME NEW l \in Amounts, NEW r \in Amounts
      PROVE  h[<<l, r>>] = IF r = 0 THEN l ELSE h[<<r, l % r>>]
  <2>1. r # 0 => l % r \in Amounts
    <3> SUFFICES ASSUME r # 0 PROVE l % r \in Amounts
      OBVIOUS
    <3>1. l \in Nat /\ r \in Nat \ {0}
      BY DEF Amounts
    <3> QED
      BY <3>1, Division DEF Amounts
  <2>2. g[<<l, r>>] = IF r = 0 THEN l ELSE g[<<r, l % r>>]
    BY <1>4 DEF EuclidTo, Amounts
  <2> QED
    BY <1>5, <2>1, <2>2
<1>7. ASSUME NEW p \in Amounts \X Amounts
      PROVE  h[p] = IF p[2] = 0 THEN p[1] ELSE h[<<p[2], p[1] % p[2]>>]
  <2>1. p[1] \in Amounts /\ p[2] \in Amounts /\ p = <<p[1], p[2]>>
    OBVIOUS
  <2> QED
    BY <1>6, <2>1
<1>8. h = [p \in Amounts \X Amounts |-> IF p[2] = 0 THEN p[1] ELSE h[<<p[2], p[1] % p[2]>>]]
  BY <1>5, <1>7
<1> QED
  BY <1>8 DEF Euclid

(* It finds a common divisor that is a sum of multiples of both.             *)
Common(d, l, r) ==
    /\ d \in Nat
    /\ \E x \in Nat : l = d * x
    /\ \E y \in Nat : r = d * y
    /\ \E x, y \in Int : d = l * x + r * y

LEMMA CommonDown ==
  ASSUME NEW l \in Nat, NEW r \in Nat \ {0}, NEW d, Common(d, r, l % r)
  PROVE  Common(d, l, r)
<1>1. PICK c, t : c = l \div r /\ t = l % r
  OBVIOUS
<1>2. c \in Nat /\ t \in Nat /\ l = r * c + t
  BY <1>1, Division
<1>3. PICK x \in Nat : r = d * x
  BY DEF Common
<1>4. PICK y \in Nat : t = d * y
  BY <1>1 DEF Common
<1>5. PICK u \in Int, v \in Int : d = r * u + t * v
  BY <1>1 DEF Common
<1>6. d \in Nat
  BY DEF Common
<1>7. l = d * (x * c + y)
  BY <1>2, <1>3, <1>4, <1>6
<1>8. x * c + y \in Nat
  BY <1>2
<1>9. d = l * v + r * (u - c * v)
  <2>1. t = l - r * c
    BY <1>2
  <2>2. d = r * u + (l - r * c) * v
    BY <1>5, <2>1
  <2> QED
    BY <1>2, <2>2
<1>10. u - c * v \in Int
  BY <1>2
<1> QED
  BY <1>3, <1>6, <1>7, <1>8, <1>9, <1>10 DEF Common

LEMMA EuclidFinds ==
  ASSUME MaxAmount \in Nat, NEW g, Euclid(g), NEW l \in Amounts, NEW r \in Amounts
  PROVE  Common(g[<<l, r>>], l, r)
<1>1. PICK D : D = {m \in Amounts : ~\A k \in Amounts : Common(g[<<k, m>>], k, m)}
  OBVIOUS
<1> SUFFICES ASSUME D # {} PROVE FALSE
  BY <1>1
<1>2. D \subseteq Nat
  BY <1>1 DEF Amounts
<1>3. PICK m \in D : \A k \in D : ~ k < m
  BY <1>2, Smallest
<1>4. PICK k \in Amounts : ~Common(g[<<k, m>>], k, m)
  BY <1>1
<1>5. m \in Amounts /\ m \in Nat /\ k \in Nat
  BY <1>1 DEF Amounts
<1>6. g[<<k, m>>] = IF m = 0 THEN k ELSE g[<<m, k % m>>]
  BY <1>5 DEF Euclid
<1>7. CASE m = 0
  <2>1. \E x \in Nat : k = k * x
    <3>1. k = k * 1
      BY <1>5
    <3> QED
      BY <3>1
  <2>2. \E y \in Nat : 0 = k * y
    <3>1. 0 = k * 0
      BY <1>5
    <3> QED
      BY <3>1
  <2>3. \E x, y \in Int : k = k * x + 0 * y
    <3>1. k = k * 1 + 0 * 0
      BY <1>5
    <3> QED
      BY <3>1
  <2>4. Common(k, k, 0)
    BY <1>5, <2>1, <2>2, <2>3 DEF Common
  <2> QED
    BY <1>4, <1>6, <1>7, <2>4
<1>8. CASE m # 0
  <2>1. k % m \in Nat /\ k % m < m
    BY <1>5, <1>8, Division
  <2>2. k % m \in Amounts /\ k % m \notin D
    BY <1>3, <1>5, <2>1 DEF Amounts
  <2>3. Common(g[<<m, k % m>>], m, k % m)
    BY <1>1, <1>5, <2>2
  <2>4. Common(g[<<m, k % m>>], k, m)
    BY <1>5, <1>8, <2>3, CommonDown
  <2> QED
    BY <1>4, <1>6, <1>8, <2>4
<1> QED
  BY <1>7, <1>8

LEMMA DivisorFinds ==
  ASSUME MaxAmount \in Nat, NEW l \in Amounts, NEW r \in Amounts
  PROVE  Common(GreatestCommonDivisor(l, r), l, r)
<1>1. PICK g : g = CHOOSE x : Euclid(x)
  OBVIOUS
<1>2. Euclid(g)
  BY <1>1, EuclidThere
<1>3. GreatestCommonDivisor(l, r) = g[<<l, r>>]
  BY <1>1 DEF GreatestCommonDivisor, Euclid
<1> QED
  BY <1>2, <1>3, EuclidFinds

(* A rate in its lowest terms: a is g*n, b is g*m, and n and m have nothing  *)
(* in common.                                                                *)
Lowest(g, n, m, a, b) ==
    /\ g \in Nat \ {0} /\ n \in Nat /\ m \in Nat \ {0} /\ a = g * n /\ b = g * m
    /\ \E x, y \in Int : 1 = n * x + m * y
Rate(n, m) == [err |-> "none", numerator |-> n, denominator |-> m]

LEMMA Reduces ==
  ASSUME MaxAmount \in Nat, NEW a \in Amounts, NEW b \in Amounts \ {0}
  PROVE  \E g, n, m : Lowest(g, n, m, a, b) /\ NewRate(a, b) = Rate(n, m)
<1>1. a \in Nat /\ b \in Nat \ {0}
  BY DEF Amounts
<1>2. CASE a = 0
  <2>1. \E x, y \in Int : 1 = 0 * x + 1 * y
    <3>1. 1 = 0 * 0 + 1 * 1
      OBVIOUS
    <3> QED
      BY <3>1
  <2>2. a = b * 0 /\ b = b * 1
    BY <1>1, <1>2
  <2>3. Lowest(b, 0, 1, a, b)
    BY <1>1, <2>1, <2>2 DEF Lowest
  <2>4. NewRate(a, b) = Rate(0, 1)
    BY <1>1, <1>2 DEF NewRate, Rate
  <2> QED
    BY <2>3, <2>4
<1>3. CASE a # 0
  <2>1. PICK g : g = GreatestCommonDivisor(a, b)
    OBVIOUS
  <2>2. Common(g, a, b)
    BY <2>1, DivisorFinds
  <2>3. g \in Nat
    BY <2>2 DEF Common
  <2>4. PICK n \in Nat : a = g * n
    BY <2>2 DEF Common
  <2>5. PICK m \in Nat : b = g * m
    BY <2>2 DEF Common
  <2>6. PICK x \in Int, y \in Int : g = a * x + b * y
    BY <2>2 DEF Common
  <2>7. g # 0
    <3> SUFFICES ASSUME g = 0 PROVE FALSE
      OBVIOUS
    <3>1. b = 0 * m
      BY <2>5
    <3> QED
      BY <1>1, <2>5, <3>1
  <2>8. m # 0
    <3> SUFFICES ASSUME m = 0 PROVE FALSE
      OBVIOUS
    <3>1. b = g * 0
      BY <2>5
    <3> QED
      BY <1>1, <2>3, <3>1
  <2>9. 1 = n * x + m * y
    <3>1. PICK z : z = n * x + m * y
      OBVIOUS
    <3>2. z \in Int
      BY <3>1
    <3>3. g * z = a * x + b * y
      BY <2>3, <2>4, <2>5, <3>1
    <3>4. g * z = g * 1
      BY <2>3, <2>6, <3>3
    <3>5. z = 1
      BY <2>3, <2>7, <3>2, <3>4, Times
    <3> QED
      BY <3>1, <3>5
  <2>10. Lowest(g, n, m, a, b)
    BY <2>3, <2>4, <2>5, <2>7, <2>8, <2>9 DEF Lowest
  <2>11. a \div g = n /\ b \div g = m
    <3>1. a = g * n + 0 /\ b = g * m + 0 /\ 0 < g /\ g \in Nat \ {0}
      BY <2>3, <2>4, <2>5, <2>7
    <3> QED
      BY <1>1, <3>1, OneQuotient
  <2>12. NewRate(a, b) = Rate(n, m)
    BY <1>1, <1>3, <2>1, <2>11 DEF NewRate, Rate
  <2> QED
    BY <2>10, <2>12
<1> QED
  BY <1>2, <1>3

LEMMA CancelQuotient ==
  ASSUME NEW p \in Nat, NEW g \in Nat \ {0}, NEW m \in Nat \ {0}
  PROVE  /\ (g * p) \div (g * m) = p \div m
         /\ (g * p) % (g * m) = 0 <=> p % m = 0
<1>1. PICK c, s : c = p \div m /\ s = p % m
  OBVIOUS
<1>2. c \in Nat /\ s \in Nat /\ s < m /\ p = m * c + s
  BY <1>1, Division
<1>3. PICK u, v, w : u = g * p /\ v = g * m /\ w = g * s
  OBVIOUS
<1>4. u \in Nat /\ v \in Nat /\ w \in Nat
  BY <1>2, <1>3
<1>5. v # 0
  <2>1. g * 0 = 0
    OBVIOUS
  <2>2. v = 0 => g * m = g * 0
    BY <1>3, <2>1
  <2> QED
    BY <2>2, Times
<1>6. w < v
  <2>1. w + g <= v
    BY <1>2, <1>3, Times
  <2> QED
    BY <1>4, <2>1
<1>7. u = v * c + w
  BY <1>2, <1>3
<1>8. u \div v = c /\ u % v = w
  BY <1>2, <1>4, <1>5, <1>6, <1>7, OneQuotient
<1>9. w = 0 <=> s = 0
  <2>1. g * 0 = 0
    OBVIOUS
  <2>2. w = 0 => g * s = g * 0
    BY <1>3, <2>1
  <2> QED
    BY <1>2, <1>3, <2>1, <2>2, Times
<1> QED
  BY <1>1, <1>3, <1>8, <1>9

(* Rounding up.                                                              *)
LEMMA Upwards ==
  ASSUME NEW p \in Nat, NEW m \in Nat \ {0}
  PROVE  (p + m - 1) \div m = IF p % m = 0 THEN p \div m ELSE p \div m + 1
<1>1. PICK c, s : c = p \div m /\ s = p % m
  OBVIOUS
<1>2. c \in Nat /\ s \in Nat /\ s < m /\ p = m * c + s
  BY <1>1, Division
<1>3. PICK u : u = m * c
  OBVIOUS
<1>4. u \in Nat /\ m * (c + 1) = u + m
  BY <1>2, <1>3
<1>5. CASE s = 0
  <2>1. p + m - 1 = m * c + (m - 1) /\ m - 1 \in Nat /\ m - 1 < m /\ p + m - 1 \in Nat
    BY <1>2, <1>3, <1>4, <1>5
  <2>2. (p + m - 1) \div m = c
    BY <1>2, <2>1, OneQuotient
  <2> QED
    BY <1>1, <1>5, <2>2
<1>6. CASE s # 0
  <2>1. p + m - 1 = m * (c + 1) + (s - 1) /\ s - 1 \in Nat /\ s - 1 < m /\ p + m - 1 \in Nat /\ c + 1 \in Int
    BY <1>2, <1>3, <1>4, <1>6
  <2>2. (p + m - 1) \div m = c + 1
    BY <2>1, OneQuotient
  <2> QED
    BY <1>1, <1>6, <2>2
<1> QED
  BY <1>5, <1>6

(* Rates of one value are one rate.                                          *)
LEMMA LowestIsOne ==
  ASSUME NEW g, NEW n, NEW m, NEW a, NEW b, Lowest(g, n, m, a, b),
         NEW h, NEW k, NEW l, NEW c, NEW d, Lowest(h, k, l, c, d), a * d = b * c
  PROVE  n = k /\ m = l
<1>1. /\ g \in Nat \ {0} /\ n \in Nat /\ m \in Nat \ {0} /\ a = g * n /\ b = g * m
      /\ h \in Nat \ {0} /\ k \in Nat /\ l \in Nat \ {0} /\ c = h * k /\ d = h * l
  BY DEF Lowest
<1>2. PICK x \in Int, y \in Int : 1 = n * x + m * y
  BY DEF Lowest
<1>3. PICK u \in Int, v \in Int : 1 = k * u + l * v
  BY DEF Lowest
<1>4. n * l = m * k
  <2>1. PICK p, q : p = n * l /\ q = m * k
    OBVIOUS
  <2>2. p \in Int /\ q \in Int
    BY <1>1, <2>1
  <2>3. a * d = g * (h * p) /\ b * c = g * (h * q)
    BY <1>1, <2>1
  <2>4. h * p \in Int /\ h * q \in Int
    BY <1>1, <2>2
  <2>5. h * p = h * q
    BY <1>1, <2>3, <2>4, Times
  <2>6. p = q
    BY <1>1, <2>2, <2>5, Times
  <2> QED
    BY <2>1, <2>6
<1>5. PICK s : s = k * x + l * y
  OBVIOUS
<1>6. PICK t : t = n * u + m * v
  OBVIOUS
<1>7. s \in Int /\ t \in Int
  BY <1>1, <1>5, <1>6
<1>8. k = n * s
  <2>1. k = k * (n * x + m * y)
    BY <1>1, <1>2
  <2>2. k * (n * x + m * y) = n * (k * x) + (m * k) * y
    BY <1>1
  <2>3. (n * l) * y = n * (l * y)
    BY <1>1
  <2>4. n * (k * x) + n * (l * y) = n * (k * x + l * y)
    BY <1>1
  <2> QED
    BY <1>4, <1>5, <2>1, <2>2, <2>3, <2>4
<1>9. l = m * s
  <2>1. l = l * (n * x + m * y)
    BY <1>1, <1>2
  <2>2. l * (n * x + m * y) = (n * l) * x + m * (l * y)
    BY <1>1
  <2>3. (m * k) * x = m * (k * x)
    BY <1>1
  <2>4. m * (k * x) + m * (l * y) = m * (k * x + l * y)
    BY <1>1
  <2> QED
    BY <1>4, <1>5, <2>1, <2>2, <2>3, <2>4
<1>10. m = l * t
  <2>1. m = m * (k * u + l * v)
    BY <1>1, <1>3
  <2>2. m * (k * u + l * v) = (m * k) * u + l * (m * v)
    BY <1>1
  <2>3. (n * l) * u = l * (n * u)
    BY <1>1
  <2>4. l * (n * u) + l * (m * v) = l * (n * u + m * v)
    BY <1>1
  <2> QED
    BY <1>4, <1>6, <2>1, <2>2, <2>3, <2>4
<1>11. s > 0 /\ t > 0
  <2>1. \A z \in Int : z <= 0 => m * z <= 0
    <3> SUFFICES ASSUME NEW z \in Int, z <= 0 PROVE m * z <= 0
      OBVIOUS
    <3>1. m * z <= m * 0 /\ m * 0 = 0
      BY <1>1, Times
    <3> QED
      BY <3>1
  <2>2. \A z \in Int : z <= 0 => l * z <= 0
    <3> SUFFICES ASSUME NEW z \in Int, z <= 0 PROVE l * z <= 0
      OBVIOUS
    <3>1. l * z <= l * 0 /\ l * 0 = 0
      BY <1>1, Times
    <3> QED
      BY <3>1
  <2>3. ~ s <= 0
    BY <1>1, <1>7, <1>9, <2>1
  <2>4. ~ t <= 0
    BY <1>1, <1>7, <1>10, <2>2
  <2> QED
    BY <1>7, <2>3, <2>4
<1>12. m <= l
  <2>1. 1 <= s /\ m * 1 = m
    BY <1>1, <1>7, <1>11
  <2>2. m * 1 <= m * s
    BY <1>1, <1>7, <2>1, Times
  <2> QED
    BY <1>9, <2>1, <2>2
<1>13. l <= m
  <2>1. 1 <= t /\ l * 1 = l
    BY <1>1, <1>7, <1>11
  <2>2. l * 1 <= l * t
    BY <1>1, <1>7, <2>1, Times
  <2> QED
    BY <1>10, <2>1, <2>2
<1>14. m = l
  BY <1>1, <1>12, <1>13
<1>15. s = 1
  <2>1. m * s = m * 1
    BY <1>1, <1>9, <1>14
  <2> QED
    BY <1>1, <1>7, <2>1, Times
<1>16. n = k
  BY <1>1, <1>8, <1>15
<1> QED
  BY <1>14, <1>16

(* The lowest terms of what is in its lowest terms.                          *)
LEMMA OneRate ==
  ASSUME MaxAmount \in Nat, NEW a \in Amounts, NEW b \in Amounts \ {0},
         NEW c \in Amounts, NEW d \in Amounts \ {0}, a * d = b * c
  PROVE  NewRate(c, d) = NewRate(a, b)
<1>1. PICK g, n, m : Lowest(g, n, m, a, b) /\ NewRate(a, b) = Rate(n, m)
  BY Reduces
<1>2. PICK h, k, l : Lowest(h, k, l, c, d) /\ NewRate(c, d) = Rate(k, l)
  BY Reduces
<1>3. n = k /\ m = l
  BY <1>1, <1>2, LowestIsOne
<1> QED
  BY <1>1, <1>2, <1>3

(* What is settled.                                                          *)
Down(a, b, x) == (a * x) \div b
Up(a, b, x)   == (a * x + b - 1) \div b

LEMMA Settles ==
  ASSUME MaxAmount \in Nat, NEW a \in Amounts, NEW b \in Amounts \ {0}, NEW q \in Amounts
  PROVE  /\ Settle(NewRate(a, b), q, "Floor") = Fits(Down(a, b, q))
         /\ Settle(NewRate(a, b), q, "Ceiling") = Fits(Up(a, b, q))
         /\ Settle(NewRate(a, b), q, "RejectInexact") =
               IF (a * q) % b = 0 THEN Fits(Down(a, b, q)) ELSE Failed("InexactSettlement")
<1>1. a \in Nat /\ b \in Nat \ {0} /\ q \in Nat
  BY DEF Amounts
<1>2. PICK g, n, m : Lowest(g, n, m, a, b) /\ NewRate(a, b) = Rate(n, m)
  BY Reduces
<1>3. g \in Nat \ {0} /\ n \in Nat /\ m \in Nat \ {0} /\ a = g * n /\ b = g * m
  BY <1>2 DEF Lowest
<1>4. PICK p, v, w : p = n * q /\ v = p \div m /\ w = p % m
  OBVIOUS
<1>5. p \in Nat
  BY <1>1, <1>3, <1>4
<1>6. a * q = g * p
  BY <1>1, <1>3, <1>4
<1>7. Down(a, b, q) = v
  BY <1>3, <1>4, <1>5, <1>6, CancelQuotient DEF Down
<1>8. (a * q) % b = 0 <=> w = 0
  <2>1. (g * p) % (g * m) = 0 <=> p % m = 0
    BY <1>3, <1>5, CancelQuotient
  <2> QED
    BY <1>3, <1>4, <1>6, <2>1
<1>9. Up(a, b, q) = IF w = 0 THEN v ELSE v + 1
  <2>1. PICK e : e = a * q
    OBVIOUS
  <2>2. e \in Nat
    BY <1>1, <2>1
  <2>3. (e + b - 1) \div b = IF e % b = 0 THEN e \div b ELSE e \div b + 1
    BY <1>1, <2>2, Upwards
  <2> QED
    BY <1>7, <1>8, <2>1, <2>3 DEF Up, Down
<1>10. PICK r : r = NewRate(a, b)
  OBVIOUS
<1>11. r.numerator = n /\ r.denominator = m
  BY <1>2, <1>10 DEF Rate
<1>12. Settle(r, q, "Floor") = Fits(v)
  BY <1>4, <1>11 DEF Settle
<1>13. Settle(r, q, "Ceiling") = IF w = 0 THEN Fits(v) ELSE Fits(v + 1)
  BY <1>4, <1>11 DEF Settle
<1>14. Settle(r, q, "RejectInexact") = IF w = 0 THEN Fits(v) ELSE Failed("InexactSettlement")
  BY <1>4, <1>11 DEF Settle
<1> QED
  BY <1>7, <1>8, <1>9, <1>10, <1>12, <1>13, <1>14

(* In parts.                                                                 *)
LEMMA InParts ==
  ASSUME NEW a \in Nat, NEW b \in Nat \ {0}, NEW q \in Nat, NEW r \in Nat
  PROVE  /\ Down(a, b, q) \in Nat /\ Up(a, b, q) \in Nat
         /\ Down(a, b, q) + Down(a, b, r) <= Down(a, b, q + r)
         /\ Up(a, b, q + r) <= Up(a, b, q) + Up(a, b, r)
<1>1. PICK d, e, f : d = a * q /\ e = a * r /\ f = a * (q + r)
  OBVIOUS
<1>2. d \in Nat /\ e \in Nat /\ f \in Nat /\ f = d + e
  BY <1>1
<1>3. PICK i, j, k : i = d \div b /\ j = e \div b /\ k = f \div b
  OBVIOUS
<1>4. PICK s, t, u : s = d % b /\ t = e % b /\ u = f % b
  OBVIOUS
<1>5. /\ i \in Nat /\ s \in Nat /\ s < b /\ d = b * i + s
      /\ j \in Nat /\ t \in Nat /\ t < b /\ e = b * j + t
      /\ k \in Nat /\ u \in Nat /\ u < b /\ f = b * k + u
  BY <1>2, <1>3, <1>4, Division
<1>6. PICK x, y : x = b * (i + j) /\ y = b * k
  OBVIOUS
<1>7. x \in Nat /\ y \in Nat /\ y + u = x + s + t
  <2>1. x = b * i + b * j
    BY <1>5, <1>6
  <2>2. b * i \in Nat /\ b * j \in Nat
    BY <1>5
  <2> QED
    BY <1>2, <1>5, <1>6, <2>1, <2>2
<1>8. i + j <= k
  <2> SUFFICES ASSUME k < i + j PROVE FALSE
    BY <1>5
  <2>1. y + b <= x
    BY <1>5, <1>6, Times
  <2> QED
    BY <1>5, <1>7, <2>1
<1>9. k <= i + j + 1
  <2> SUFFICES ASSUME i + j + 1 < k PROVE FALSE
    BY <1>5
  <2>1. b * (i + j + 1) + b <= y
    BY <1>5, <1>6, Times
  <2>2. b * (i + j + 1) = x + b
    BY <1>5, <1>6
  <2> QED
    BY <1>5, <1>7, <2>1, <2>2
<1>10. PICK rise, up : rise = [z \in {d, e, f} |-> IF z % b = 0 THEN 0 ELSE 1]
                       /\ up = [z \in {d, e, f} |-> (z + b - 1) \div b]
  OBVIOUS
<1>11. /\ up[d] = IF s = 0 THEN i ELSE i + 1
       /\ up[e] = IF t = 0 THEN j ELSE j + 1
       /\ up[f] = IF u = 0 THEN k ELSE k + 1
  BY <1>2, <1>3, <1>4, <1>10, Upwards
<1>12. up[f] <= up[d] + up[e]
  <2>1. CASE s = 0 /\ t = 0
    <3>1. y + u = x
      BY <1>5, <1>7, <2>1
    <3>2. k <= i + j
      <4> SUFFICES ASSUME i + j < k PROVE FALSE
        BY <1>5
      <4>1. x + b <= y
        BY <1>5, <1>6, Times
      <4> QED
        BY <1>5, <1>7, <3>1, <4>1
    <3>3. k = i + j
      BY <1>5, <1>8, <3>2
    <3>4. u = 0
      BY <1>5, <1>6, <1>7, <3>1, <3>3
    <3> QED
      BY <1>5, <1>11, <2>1, <3>3, <3>4
  <2>2. CASE s # 0 /\ t # 0
    BY <1>5, <1>9, <1>11, <2>2
  <2>3. CASE (s = 0 /\ t # 0) \/ (s # 0 /\ t = 0)
    <3>1. y + u = x + (s + t) /\ s + t < b
      BY <1>5, <1>7, <2>3
    <3>2. k <= i + j
      <4> SUFFICES ASSUME i + j < k PROVE FALSE
        BY <1>5
      <4>1. x + b <= y
        BY <1>5, <1>6, Times
      <4> QED
        BY <1>5, <1>7, <3>1, <4>1
    <3> QED
      BY <1>5, <1>11, <2>3, <3>2
  <2> QED
    BY <2>1, <2>2, <2>3
<1>13. up[d] = Up(a, b, q) /\ up[e] = Up(a, b, r) /\ up[f] = Up(a, b, q + r)
  BY <1>1, <1>10 DEF Up
<1>14. i = Down(a, b, q) /\ j = Down(a, b, r) /\ k = Down(a, b, q + r)
  BY <1>1, <1>3 DEF Down
<1> QED
  BY <1>5, <1>8, <1>11, <1>12, <1>13, <1>14

-----------------------------------------------------------------------------
(* Decimal strings.                                                          *)
IsPower(p) == p = [i \in Nat |-> IF i = 0 THEN 1 ELSE 10 * p[i - 1]]

PowerTo(p, n) == \A i \in 0..n : p[i] = IF i = 0 THEN 1 ELSE 10 * p[i - 1]

LEMMA PowerUnique ==
  ASSUME NEW n \in Nat, NEW k \in 0..n, NEW p, PowerTo(p, n), NEW q, PowerTo(q, k)
  PROVE  p[k] = q[k]
<1>1. PICK D : D = {i \in 0..k : p[i] # q[i]}
  OBVIOUS
<1> SUFFICES ASSUME D # {} PROVE FALSE
  BY <1>1
<1>2. D \subseteq Nat
  BY <1>1
<1>3. PICK i \in D : \A j \in D : ~ j < i
  BY <1>2, Smallest
<1>4. i \in 0..k /\ i \in 0..n /\ p[i] # q[i]
  BY <1>1
<1>5. p[i] = (IF i = 0 THEN 1 ELSE 10 * p[i - 1]) /\ q[i] = (IF i = 0 THEN 1 ELSE 10 * q[i - 1])
  BY <1>4 DEF PowerTo
<1>6. i # 0
  BY <1>4, <1>5
<1>7. i - 1 \in 0..k /\ i - 1 < i
  BY <1>4, <1>6
<1>8. p[i - 1] = q[i - 1]
  BY <1>1, <1>3, <1>7
<1> QED
  BY <1>4, <1>5, <1>6, <1>8

LEMMA PowerUpTo ==
  ASSUME NEW n \in Nat
  PROVE  \E p : PowerTo(p, n)
<1>1. PICK D : D = {m \in Nat : ~\E p : PowerTo(p, m)}
  OBVIOUS
<1> SUFFICES ASSUME D # {} PROVE FALSE
  BY <1>1
<1>2. D \subseteq Nat
  BY <1>1
<1>3. PICK m \in D : \A j \in D : ~ j < m
  BY <1>2, Smallest
<1>4. m \in Nat /\ ~\E p : PowerTo(p, m)
  BY <1>1
<1>5. CASE m = 0
  <2>1. PICK p : p = [i \in 0..0 |-> 1]
    OBVIOUS
  <2>2. PowerTo(p, m)
    BY <1>5, <2>1 DEF PowerTo
  <2> QED
    BY <1>4, <2>2
<1>6. CASE m # 0
  <2>1. m - 1 \in Nat /\ m - 1 < m
    BY <1>4, <1>6
  <2>2. PICK p : PowerTo(p, m - 1)
    BY <1>1, <1>3, <2>1
  <2>3. PICK q : q = [i \in 0..m |-> IF i = m THEN 10 * p[m - 1] ELSE p[i]]
    OBVIOUS
  <2>4. PowerTo(q, m)
    <3> SUFFICES ASSUME NEW i \in 0..m PROVE q[i] = IF i = 0 THEN 1 ELSE 10 * q[i - 1]
      BY DEF PowerTo
    <3>1. CASE i = m
      <4>1. q[m - 1] = p[m - 1]
        BY <1>4, <1>6, <2>3
      <4> QED
        BY <1>4, <1>6, <2>3, <3>1, <4>1
    <3>2. CASE i # m
      <4>1. i \in 0..m - 1 /\ q[i] = p[i]
        BY <1>4, <2>3, <3>2
      <4>2. p[i] = IF i = 0 THEN 1 ELSE 10 * p[i - 1]
        BY <2>2, <4>1 DEF PowerTo
      <4>3. i # 0 => q[i - 1] = p[i - 1]
        BY <1>4, <2>3, <4>1
      <4> QED
        BY <4>1, <4>2, <4>3
    <3> QED
      BY <3>1, <3>2
  <2> QED
    BY <1>4, <2>4
<1> QED
  BY <1>5, <1>6

LEMMA PowerThere == \E p : IsPower(p)
<1>1. PICK p : p = [i \in Nat |-> (CHOOSE q : PowerTo(q, i))[i]]
  OBVIOUS
<1>2. ASSUME NEW i \in Nat PROVE p[i] = IF i = 0 THEN 1 ELSE 10 * p[i - 1]
  <2>1. PICK q : q = CHOOSE x : PowerTo(x, i)
    OBVIOUS
  <2>2. PowerTo(q, i)
    BY <2>1, PowerUpTo
  <2>3. p[i] = q[i]
    BY <1>1, <2>1
  <2>4. q[i] = IF i = 0 THEN 1 ELSE 10 * q[i - 1]
    BY <2>2 DEF PowerTo
  <2>5. CASE i = 0
    BY <2>3, <2>4, <2>5
  <2>6. CASE i # 0
    <3>1. PICK j : j = i - 1
      OBVIOUS
    <3>2. j \in Nat /\ j \in 0..i
      BY <2>6, <3>1
    <3>3. PICK r : r = CHOOSE x : PowerTo(x, j)
      OBVIOUS
    <3>4. PowerTo(r, j)
      BY <3>2, <3>3, PowerUpTo
    <3>5. p[j] = r[j]
      BY <1>1, <3>2, <3>3
    <3>6. q[j] = r[j]
      BY <2>2, <3>2, <3>4, PowerUnique
    <3> QED
      BY <2>3, <2>4, <2>6, <3>1, <3>5, <3>6
  <2> QED
    BY <2>5, <2>6
<1>3. p = [i \in Nat |-> IF i = 0 THEN 1 ELSE 10 * p[i - 1]]
  BY <1>1, <1>2
<1> QED
  BY <1>3 DEF IsPower

LEMMA Powers ==
  /\ TenTo(0) = 1
  /\ \A k \in Nat : TenTo(k) \in Nat \ {0} /\ TenTo(k + 1) = 10 * TenTo(k)
<1>1. PICK p : p = CHOOSE x : IsPower(x)
  OBVIOUS
<1>2. IsPower(p)
  BY <1>1, PowerThere
<1>3. \A k \in Nat : TenTo(k) = p[k]
  BY <1>1 DEF TenTo, IsPower
<1>4. \A k \in Nat : p[k] = IF k = 0 THEN 1 ELSE 10 * p[k - 1]
  BY <1>2 DEF IsPower
<1>5. PICK D : D = {k \in Nat : p[k] \notin Nat \ {0}}
  OBVIOUS
<1>6. D = {}
  <2> SUFFICES ASSUME D # {} PROVE FALSE
    OBVIOUS
  <2>1. D \subseteq Nat
    BY <1>5
  <2>2. PICK k \in D : \A j \in D : ~ j < k
    BY <2>1, Smallest
  <2>3. k \in Nat /\ p[k] \notin Nat \ {0}
    BY <1>5
  <2>4. p[k] = IF k = 0 THEN 1 ELSE 10 * p[k - 1]
    BY <1>4, <2>3
  <2>5. k # 0
    BY <2>3, <2>4
  <2>6. p[k - 1] \in Nat \ {0}
    BY <1>5, <2>2, <2>3, <2>5
  <2> QED
    BY <2>3, <2>4, <2>5, <2>6
<1>7. ASSUME NEW k \in Nat PROVE p[k] \in Nat \ {0} /\ p[k + 1] = 10 * p[k]
  <2>1. p[k + 1] = 10 * p[(k + 1) - 1] /\ (k + 1) - 1 = k
    BY <1>4
  <2> QED
    BY <1>5, <1>6, <2>1
<1> QED
  BY <1>3, <1>4, <1>7

(* The number of digits of n.                                                *)
IsLength(n, k) == n < TenTo(k) /\ (k = 1 \/ n >= TenTo(k - 1))

LEMMA SomeLength ==
  ASSUME NEW n \in Nat, NEW top \in Nat \ {0}, n < TenTo(top)
  PROVE  \E k \in 1..top : IsLength(n, k)
<1>1. PICK D : D = {k \in 1..top : n < TenTo(k)}
  OBVIOUS
<1>2. D \subseteq Nat /\ D # {}
  BY <1>1
<1>3. PICK k \in D : \A j \in D : ~ j < k
  BY <1>2, Smallest
<1>4. k \in 1..top /\ n < TenTo(k)
  BY <1>1
<1>5. k = 1 \/ n >= TenTo(k - 1)
  <2> SUFFICES ASSUME k # 1 PROVE n >= TenTo(k - 1)
    OBVIOUS
  <2>1. k - 1 \in 1..top /\ k - 1 \notin D
    BY <1>3, <1>4
  <2>2. ~ n < TenTo(k - 1)
    BY <1>1, <2>1
  <2>3. TenTo(k - 1) \in Nat
    BY <2>1, Powers
  <2> QED
    BY <2>2, <2>3
<1> QED
  BY <1>4, <1>5 DEF IsLength

LEMMA PowersRise ==
  ASSUME NEW k \in Nat, NEW l \in Nat, k <= l
  PROVE  TenTo(k) <= TenTo(l)
<1>1. PICK D : D = {i \in Nat : ~ TenTo(k) <= TenTo(k + i)}
  OBVIOUS
<1>2. D = {}
  <2> SUFFICES ASSUME D # {} PROVE FALSE
    OBVIOUS
  <2>1. D \subseteq Nat
    BY <1>1
  <2>2. PICK i \in D : \A j \in D : ~ j < i
    BY <2>1, Smallest
  <2>3. i \in Nat /\ ~ TenTo(k) <= TenTo(k + i)
    BY <1>1
  <2>4. i # 0
    BY <2>3, Powers
  <2>5. PICK j : j = i - 1
    OBVIOUS
  <2>6. j \in Nat /\ j < i /\ k + i = (k + j) + 1 /\ k + j \in Nat
    BY <2>3, <2>4, <2>5
  <2>7. TenTo(k) <= TenTo(k + j)
    BY <1>1, <2>2, <2>6
  <2>8. TenTo(k + i) = 10 * TenTo(k + j) /\ TenTo(k + j) \in Nat /\ TenTo(k) \in Nat
    BY <2>6, Powers
  <2> QED
    BY <2>3, <2>7, <2>8
<1>3. l - k \in Nat /\ k + (l - k) = l
  OBVIOUS
<1> QED
  BY <1>1, <1>2, <1>3

LEMMA Digits ==
  ASSUME NEW n \in Amounts
  PROVE  /\ MaxDigits \in 1..20
         /\ \E k \in 1..MaxDigits :
               /\ IsLength(n, k)
               /\ Serialized(n) =
                     [digits |-> [i \in 1..k |-> (n \div TenTo(k - i)) % 10], ascii |-> TRUE]
<1>1. MaxAmount \in Nat /\ MaxAmount # 0 /\ n \in Nat /\ n <= MaxAmount
  BY MeteringAssumption DEF Amounts
<1>2. \E k \in 1..20 : TenTo(k - 1) <= MaxAmount /\ MaxAmount < TenTo(k)
  <2>4. PICK most \in 1..20 : MaxAmount < TenTo(most)
    BY MeteringAssumption
  <2>5. MaxAmount \in Nat /\ MaxAmount < TenTo(most) /\ most \in Nat \ {0}
    BY <1>1, <2>4
  <2>6. \E k \in 1..most : IsLength(MaxAmount, k)
    BY <2>5, SomeLength
  <2>0. PICK k \in 1..20 : IsLength(MaxAmount, k)
    BY <2>4, <2>6
  <2>1. MaxAmount < TenTo(k) /\ (k = 1 \/ MaxAmount >= TenTo(k - 1))
    BY <2>0 DEF IsLength
  <2>2. k = 1 => TenTo(k - 1) <= MaxAmount
    BY <1>1, Powers
  <2>3. k # 1 => TenTo(k - 1) <= MaxAmount
    <3> SUFFICES ASSUME k # 1 PROVE TenTo(k - 1) <= MaxAmount
      OBVIOUS
    <3>1. k - 1 \in Nat
      BY <2>1
    <3>2. TenTo(k - 1) \in Nat
      BY <3>1, Powers
    <3> QED
      BY <1>1, <2>1, <3>2
  <2> QED
    BY <2>1, <2>2, <2>3
<1>3. PICK top : top = MaxDigits
  OBVIOUS
<1>4. top \in 1..20 /\ MaxAmount < TenTo(top)
  BY <1>2, <1>3 DEF MaxDigits
<1>5. n < TenTo(top)
  <2>1. TenTo(top) \in Nat
    BY <1>4, Powers
  <2> QED
    BY <1>1, <1>4, <2>1
<1>6. \E k \in 1..top : IsLength(n, k)
  BY <1>1, <1>4, <1>5, SomeLength
<1>7. PICK k : k = CHOOSE x \in 1..MaxDigits : n < TenTo(x) /\ (x = 1 \/ n >= TenTo(x - 1))
  OBVIOUS
<1>8. k \in 1..top /\ IsLength(n, k)
  BY <1>3, <1>6, <1>7 DEF IsLength
<1>9. Serialized(n) = [digits |-> [i \in 1..k |-> (n \div TenTo(k - i)) % 10], ascii |-> TRUE]
  BY <1>7 DEF Serialized
<1> QED
  BY <1>3, <1>4, <1>8, <1>9

LEMMA QuotientTwice ==
  ASSUME NEW n \in Nat, NEW p \in Nat \ {0}
  PROVE  n \div p = 10 * (n \div (10 * p)) + ((n \div p) % 10)
<1>1. PICK c, s : c = n \div p /\ s = n % p
  OBVIOUS
<1>2. c \in Nat /\ s \in Nat /\ s < p /\ n = p * c + s
  BY <1>1, Division
<1>3. PICK e, f : e = c \div 10 /\ f = c % 10
  OBVIOUS
<1>4. e \in Nat /\ f \in Nat /\ f <= 9 /\ c = 10 * e + f
  BY <1>2, <1>3
<1>5. PICK q : q = 10 * p
  OBVIOUS
<1>6. q \in Nat \ {0}
  BY <1>5
<1>7. PICK r : r = p * f
  OBVIOUS
<1>8. r \in Nat /\ r <= p * 9
  BY <1>4, <1>7, Times
<1>9. n = q * e + (r + s)
  BY <1>2, <1>4, <1>5, <1>7
<1>10. r + s \in Nat /\ r + s < q
  BY <1>2, <1>5, <1>8
<1>11. n \div q = e
  BY <1>4, <1>6, <1>9, <1>10, OneQuotient
<1> QED
  BY <1>1, <1>3, <1>4, <1>5, <1>11

IsValue(v, d) == v = [i \in 0..Len(d) |-> IF i = 0 THEN 0 ELSE 10 * v[i - 1] + d[i]]

LEMMA ValueUnique ==
  ASSUME NEW d, Len(d) \in Nat, NEW v, IsValue(v, d), NEW w, IsValue(w, d)
  PROVE  v[Len(d)] = w[Len(d)]
<1>1. PICK l \in Nat : l = Len(d)
  OBVIOUS
<1>2. PICK D : D = {i \in 0..l : v[i] # w[i]}
  OBVIOUS
<1> SUFFICES ASSUME D # {} PROVE FALSE
  BY <1>1, <1>2
<1>3. D \subseteq Nat
  BY <1>2
<1>4. PICK i \in D : \A j \in D : ~ j < i
  BY <1>3, Smallest
<1>5. i \in 0..l /\ v[i] # w[i]
  BY <1>2
<1>6. v[i] = (IF i = 0 THEN 0 ELSE 10 * v[i - 1] + d[i]) /\ w[i] = (IF i = 0 THEN 0 ELSE 10 * w[i - 1] + d[i])
  BY <1>1, <1>5 DEF IsValue
<1>7. i # 0
  BY <1>5, <1>6
<1>8. i - 1 \in 0..l /\ i - 1 < i
  BY <1>5, <1>7
<1>9. v[i - 1] = w[i - 1]
  BY <1>2, <1>4, <1>8
<1> QED
  BY <1>5, <1>6, <1>7, <1>9

LEMMA DecimalReads ==
  ASSUME NEW d, Len(d) \in Nat, NEW v, IsValue(v, d)
  PROVE  Decimal(d) = v[Len(d)]
<1>1. PICK w : w = CHOOSE x : IsValue(x, d)
  OBVIOUS
<1>2. IsValue(w, d)
  BY <1>1
<1>3. Decimal(d) = w[Len(d)]
  BY <1>1 DEF Decimal, IsValue
<1> QED
  BY <1>2, <1>3, ValueUnique

LEMMA RoundTrip ==
  ASSUME NEW n \in Amounts
  PROVE  Deserialized(Serialized(n)) = Amount(n)
<1>1. PICK top : top = MaxDigits
  OBVIOUS
<1>2. PICK text : text = Serialized(n)
  OBVIOUS
<1>3. top \in 1..20
  BY <1>1, Digits
<1>4. PICK k \in 1..top : IsLength(n, k) /\ text = [digits |-> [i \in 1..k |-> (n \div TenTo(k - i)) % 10], ascii |-> TRUE]
  BY <1>1, <1>2, Digits
<1>5. PICK d : d = [i \in 1..k |-> (n \div TenTo(k - i)) % 10]
  OBVIOUS
<1>6. text.digits = d /\ text.ascii = TRUE
  BY <1>4, <1>5
<1>7. k \in Nat /\ n \in Nat /\ k # 0
  BY <1>3 DEF Amounts
<1>8. \A j \in 0..k : TenTo(j) \in Nat \ {0}
  BY <1>7, Powers
<1>9. \A i \in 0..k : n \div TenTo(k - i) \in Nat
  <2> SUFFICES ASSUME NEW i \in 0..k PROVE n \div TenTo(k - i) \in Nat
    OBVIOUS
  <2>1. k - i \in 0..k
    BY <1>7
  <2>2. TenTo(k - i) \in Nat \ {0}
    BY <1>8, <2>1
  <2> QED
    BY <1>7, <2>2, Division
<1>10. d \in [1..k -> Nat]
  <2> SUFFICES ASSUME NEW i \in 1..k PROVE (n \div TenTo(k - i)) % 10 \in Nat
    BY <1>5
  <2>1. n \div TenTo(k - i) \in Nat
    BY <1>7, <1>9
  <2> QED
    BY <2>1
<1>11. d \in Seq(Nat)
  BY <1>7, <1>10, SeqDef
<1>12. Len(d) = k
  <2>1. PICK l \in Nat : l = Len(d) /\ DOMAIN d = 1..l
    BY <1>11, LenProperties
  <2>2. 1..l = 1..k
    BY <1>10, <2>1
  <2> QED
    BY <1>7, <2>1, <2>2
<1>13. d # <<>>
  BY <1>7, <1>12
<1>14. PICK v : v = [i \in 0..k |-> n \div TenTo(k - i)]
  OBVIOUS
<1>15. v[0] = 0 /\ v[k] = n
  <2>1. PICK p : p = TenTo(k)
    OBVIOUS
  <2>2. p \in Nat \ {0} /\ n < p
    BY <1>4, <1>7, <1>8, <2>1 DEF IsLength
  <2>3. n = p * 0 + n
    BY <1>7, <2>2
  <2>4. n \div p = 0
    BY <1>7, <2>2, <2>3, OneQuotient
  <2>5. TenTo(k - k) = 1
    BY <1>7, Powers
  <2>6. n \div 1 = n
    BY <1>7
  <2>7. v[0] = n \div TenTo(k - 0) /\ k - 0 = k
    BY <1>7, <1>14
  <2>8. v[k] = n \div TenTo(k - k)
    BY <1>7, <1>14
  <2> QED
    BY <2>1, <2>4, <2>5, <2>6, <2>7, <2>8
<1>16. ASSUME NEW i \in 1..k PROVE v[i] = 10 * v[i - 1] + d[i]
  <2>1. PICK j : j = k - i
    OBVIOUS
  <2>2. j \in Nat /\ j \in 0..k /\ k - (i - 1) = j + 1 /\ i \in 0..k /\ i - 1 \in 0..k
    BY <1>7, <2>1
  <2>3. PICK p : p = TenTo(j)
    OBVIOUS
  <2>4. p \in Nat \ {0} /\ TenTo(j + 1) = 10 * p
    BY <2>2, <2>3, Powers
  <2>5. v[i] = n \div p
    BY <1>14, <2>1, <2>2, <2>3
  <2>6. v[i - 1] = n \div (10 * p)
    BY <1>14, <2>2, <2>4
  <2>7. d[i] = (n \div p) % 10
    BY <1>5, <2>1, <2>3
  <2>8. n \div p = 10 * (n \div (10 * p)) + ((n \div p) % 10)
    BY <1>7, <2>4, QuotientTwice
  <2> QED
    BY <2>5, <2>6, <2>7, <2>8
<1>17. IsValue(v, d)
  <2>1. \A i \in 0..k : v[i] = IF i = 0 THEN 0 ELSE 10 * v[i - 1] + d[i]
    BY <1>7, <1>15, <1>16
  <2>2. v = [i \in 0..k |-> IF i = 0 THEN 0 ELSE 10 * v[i - 1] + d[i]]
    BY <1>14, <2>1
  <2> QED
    BY <1>12, <2>2 DEF IsValue
<1>18. Decimal(d) = n
  BY <1>7, <1>12, <1>15, <1>17, DecimalReads
<1>19. k > 1 => d[1] # 0
  <2> SUFFICES ASSUME k > 1 PROVE d[1] # 0
    OBVIOUS
  <2>1. PICK j : j = k - 1
    OBVIOUS
  <2>2. j \in Nat /\ j + 1 = k /\ k # 1
    BY <1>7, <2>1
  <2>3. PICK p : p = TenTo(j)
    OBVIOUS
  <2>4. p \in Nat \ {0} /\ n >= p /\ n < 10 * p
    BY <1>4, <2>1, <2>2, <2>3, Powers DEF IsLength
  <2>5. d[1] = (n \div p) % 10
    BY <1>5, <1>7, <2>1, <2>3
  <2>6. PICK c, s : c = n \div p /\ s = n % p
    OBVIOUS
  <2>7. c \in Nat /\ s \in Nat /\ s < p /\ n = p * c + s
    BY <1>7, <2>4, <2>6, Division
  <2>8. c # 0
    <3>1. p * 0 = 0
      BY <2>4
    <3> QED
      BY <2>4, <2>7, <3>1
  <2>9. c < 10
    <3> SUFFICES ASSUME 10 <= c PROVE FALSE
      BY <2>7
    <3>1. p * 10 <= p * c
      BY <2>4, <2>7, Times
    <3>2. p * c \in Nat
      BY <2>4, <2>7
    <3> QED
      BY <2>4, <2>7, <3>1, <3>2
  <2>10. c % 10 = c
    BY <2>7, <2>9
  <2> QED
    BY <2>5, <2>6, <2>8, <2>10
<1>20. k <= top
  BY <1>3
<1>21. Fits(n) = Amount(n)
  BY DEF Fits
<1>22. Deserialized(text) = Fits(Decimal(d))
  BY <1>1, <1>3, <1>6, <1>7, <1>12, <1>13, <1>19, <1>20 DEF Deserialized
<1> QED
  BY <1>2, <1>18, <1>21, <1>22

(* What the wire accepts: the lowest terms of what it says.                  *)
LEMMA WireIsExact ==
  ASSUME NEW a \in Amounts, NEW b \in Amounts
  PROVE  LET rate == NewRate(a, b)
             wire == DeserializedRate(Serialized(a), Serialized(b))
         IN  /\ b = 0 => rate.err = "ZeroDenominator" /\ wire.err # "none"
             /\ b # 0 => (wire.err = "none" <=> rate.numerator = a /\ rate.denominator = b)
<1>1. PICK rate : rate = NewRate(a, b)
  OBVIOUS
<1>2. PICK n, d : n = Deserialized(Serialized(a)) /\ d = Deserialized(Serialized(b))
  OBVIOUS
<1>3. n = Amount(a) /\ d = Amount(b)
  BY <1>2, RoundTrip
<1>4. n.err = "none" /\ n.n = a /\ d.err = "none" /\ d.n = b
  BY <1>3 DEF Amount
<1>5. PICK wire : wire = DeserializedRate(Serialized(a), Serialized(b))
  OBVIOUS
<1>6. wire = IF rate.err # "none" THEN rate
             ELSE IF rate.numerator # a \/ rate.denominator # b THEN Failed("NotCanonical")
             ELSE rate
  BY <1>1, <1>2, <1>4, <1>5 DEF DeserializedRate
<1>7. CASE b = 0
  <2>1. rate.err = "ZeroDenominator"
    BY <1>1, <1>7 DEF NewRate
  <2> QED
    BY <1>1, <1>5, <1>6, <1>7, <2>1
<1>8. CASE b # 0
  <2>1. PICK g, k, l : Lowest(g, k, l, a, b) /\ rate = Rate(k, l)
    BY <1>1, <1>8, MeteringAssumption, Reduces
  <2>2. rate.err = "none"
    BY <2>1 DEF Rate
  <2>3. Failed("NotCanonical").err # "none"
    BY DEF Failed
  <2>4. wire.err = "none" <=> rate.numerator = a /\ rate.denominator = b
    BY <1>6, <2>2, <2>3
  <2> QED
    BY <1>1, <1>5, <1>8, <2>4
<1> QED
  BY <1>7, <1>8

LEMMA FitsSays ==
  ASSUME NEW n \in Nat
  PROVE  /\ Fits(n).err = "none" <=> n <= MaxAmount
         /\ n <= MaxAmount => Fits(n).n = n
         /\ n > MaxAmount => Fits(n).n = 0
<1>1. n \in Amounts <=> n <= MaxAmount
  BY MeteringAssumption DEF Amounts
<1> QED
  BY <1>1, MeteringAssumption DEF Fits, Amount, Failed

(* For any rate, quantities and width of the integers: settlement, with each *)
(* rounding, whole and in parts, is that of the exact quotient; one value    *)
(* has one rate, and the wire carries just that.                             *)
THEOREM EverySettlementIsExact ==
  \A a, b, q, r \in Amounts : SettlementIsExact(a, b, q, r)
<1> SUFFICES ASSUME NEW a \in Amounts, NEW b \in Amounts, NEW q \in Amounts, NEW r \in Amounts
             PROVE  SettlementIsExact(a, b, q, r)
  OBVIOUS
<1>0. MaxAmount \in Nat /\ a \in Nat /\ b \in Nat /\ q \in Nat /\ r \in Nat
  BY MeteringAssumption DEF Amounts
<1>1. PICK rate, wire : rate = NewRate(a, b) /\ wire = DeserializedRate(Serialized(a), Serialized(b))
  OBVIOUS
<1>2. CASE b = 0
  <2>1. rate.err = "ZeroDenominator" /\ wire.err # "none"
    BY <1>1, <1>2, WireIsExact
  <2> QED
    BY <1>1, <1>2, <2>1 DEF SettlementIsExact
<1>3. CASE b # 0
  <2>1. b \in Amounts \ {0} /\ b \in Nat \ {0}
    BY <1>0, <1>3
  <2>2. wire.err = "none" <=> rate.numerator = a /\ rate.denominator = b
    BY <1>1, <1>3, WireIsExact
  <2>3. ASSUME NEW c \in Amounts, NEW d \in Amounts, d # 0 /\ a * d = b * c
        PROVE  NewRate(c, d) = rate
    <3>1. d \in Amounts \ {0} /\ a * d = b * c
      BY <2>3
    <3> QED
      BY <1>0, <1>1, <2>1, <3>1, OneRate
  <2>4. ASSUME NEW x \in Amounts
        PROVE  /\ Settle(rate, x, "Floor") = Fits(Down(a, b, x))
               /\ Settle(rate, x, "Ceiling") = Fits(Up(a, b, x))
               /\ Settle(rate, x, "RejectInexact") =
                     IF (a * x) % b = 0 THEN Fits(Down(a, b, x)) ELSE Failed("InexactSettlement")
    BY <1>0, <1>1, <2>1, Settles
  <2>5. PICK dq, dr, ds, uq, ur, us :
           /\ dq = Down(a, b, q) /\ dr = Down(a, b, r) /\ ds = Down(a, b, q + r)
           /\ uq = Up(a, b, q) /\ ur = Up(a, b, r) /\ us = Up(a, b, q + r)
    OBVIOUS
  <2>6. /\ dq \in Nat /\ dr \in Nat /\ ds \in Nat /\ uq \in Nat /\ ur \in Nat /\ us \in Nat
        /\ dq + dr <= ds /\ us <= uq + ur
    <3>1. q + r \in Nat /\ 0 \in Nat
      BY <1>0
    <3>2. ds \in Nat /\ us \in Nat
      BY <1>0, <2>1, <2>5, <3>1, InParts
    <3>3. dq \in Nat /\ uq \in Nat /\ dr \in Nat /\ ur \in Nat /\ dq + dr <= ds /\ us <= uq + ur
      BY <1>0, <2>1, <2>5, InParts
    <3> QED
      BY <3>2, <3>3
  <2>7. /\ Settle(rate, q, "Floor") = Fits(dq) /\ Settle(rate, q, "Ceiling") = Fits(uq)
        /\ Settle(rate, r, "Floor") = Fits(dr) /\ Settle(rate, r, "Ceiling") = Fits(ur)
    BY <2>4, <2>5
  <2>8. Settle(rate, q, "RejectInexact").err = "none" <=> (a * q) % b = 0 /\ dq <= MaxAmount
    <3>1. Failed("InexactSettlement").err # "none"
      BY DEF Failed
    <3>2. Fits(dq).err = "none" <=> dq <= MaxAmount
      BY <2>6, FitsSays
    <3>3. Settle(rate, q, "RejectInexact") = IF (a * q) % b = 0 THEN Fits(dq) ELSE Failed("InexactSettlement")
      BY <2>4, <2>5
    <3> QED
      BY <3>1, <3>2, <3>3
  <2>9. ASSUME q + r <= MaxAmount
        PROVE  /\ Settle(rate, q + r, "Floor").err = "none" =>
                     Settle(rate, q, "Floor").n + Settle(rate, r, "Floor").n <= Settle(rate, q + r, "Floor").n
               /\ Settle(rate, q, "Ceiling").err = "none" /\ Settle(rate, r, "Ceiling").err = "none" =>
                     \/ CheckedAdd(Settle(rate, q, "Ceiling").n, Settle(rate, r, "Ceiling").n).err # "none"
                     \/ Settle(rate, q + r, "Ceiling").n
                           <= Settle(rate, q, "Ceiling").n + Settle(rate, r, "Ceiling").n
    <3>1. q + r \in Amounts
      BY <1>0, <2>9 DEF Amounts
    <3>2. Settle(rate, q + r, "Floor") = Fits(ds) /\ Settle(rate, q + r, "Ceiling") = Fits(us)
      BY <2>4, <2>5, <3>1
    <3>3. ASSUME Fits(ds).err = "none" PROVE Fits(dq).n + Fits(dr).n <= Fits(ds).n
      <4>1. ds <= MaxAmount /\ dq <= MaxAmount /\ dr <= MaxAmount
        BY <1>0, <2>6, <3>3, FitsSays
      <4>2. Fits(ds).n = ds /\ Fits(dq).n = dq /\ Fits(dr).n = dr
        BY <2>6, <4>1, FitsSays
      <4> QED
        BY <2>6, <4>2
    <3>4. ASSUME Fits(uq).err = "none", Fits(ur).err = "none", Fits(Fits(uq).n + Fits(ur).n).err = "none"
          PROVE  Fits(us).n <= Fits(uq).n + Fits(ur).n
      <4>1. uq <= MaxAmount /\ ur <= MaxAmount
        BY <2>6, <3>4, FitsSays
      <4>2. Fits(uq).n = uq /\ Fits(ur).n = ur
        BY <2>6, <4>1, FitsSays
      <4>3. us <= MaxAmount
        <5>1. uq + ur \in Nat /\ Fits(uq + ur).err = "none"
          BY <2>6, <3>4, <4>2
        <5>2. uq + ur <= MaxAmount
          BY <5>1, FitsSays
        <5> QED
          BY <1>0, <2>6, <5>2
      <4>4. Fits(us).n = us
        BY <2>6, <4>3, FitsSays
      <4> QED
        BY <2>6, <4>2, <4>4
    <3> QED
      BY <2>7, <3>2, <3>3, <3>4 DEF CheckedAdd
  <2>10. /\ Fits((a * q) \div b) = Fits(dq) /\ Fits((a * q + b - 1) \div b) = Fits(uq) /\ (a * q) \div b = dq
    BY <2>5 DEF Down, Up
  <2> QED
    BY <1>1, <1>3, <2>2, <2>3, <2>7, <2>8, <2>9, <2>10 DEF SettlementIsExact
<1> QED
  BY <1>2, <1>3
===========================================================================

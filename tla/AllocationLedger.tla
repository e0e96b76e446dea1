------------------------- MODULE AllocationLedger -------------------------
(* The durable half of warpin-workspace: one capacity pool, its bound        *)
(* physical authority, and one record per allocation, as kept in PostgreSQL  *)
(* by PostgresAllocationLedger (warpin-workspace/src/ledger.rs).             *)
(*                                                                           *)
(* Every operation below is one transaction of run_in_transaction.  All of   *)
(* them but read/verify start with lock_pool, which holds the pool row       *)
(* FOR UPDATE until commit, so they are serialised and each is one step.     *)
(* An operation is a pair: CanX says when every ensure! of the transaction   *)
(* holds, X is the transaction that commits.  A refused transaction rolls    *)
(* back and changes nothing.                                                 *)
EXTENDS Naturals, FiniteSetsExt

CONSTANTS
    Allocs,        \* allocation ids; an id fixes the pool and the request
    Hosts,         \* machines with a pool root
    MaxBoot,       \* bound: boots of a host that are told apart
    Namespaces,    \* PID namespaces whose init process may be bound
    Receipts,      \* provisioning receipts that pass ProvisioningReceipt::validate
    Resources,     \* what a pool budgets: bytes and inodes
    Maximum,       \* configured capacity of the pool, per resource
    Demand,        \* total_bytes / total_inodes of each allocation's policy
    NoAuthority, NoReceipt, NoBinding

(* A PoolAuthority is told apart by its host's root and its kernel boot; the *)
(* boot id of a binding is then the authority it was captured under.         *)
Authorities == [host : Hosts, boot : 1..MaxBoot]
Bindings    == [ns : Namespaces, boot : Authorities]

Phases == {"Absent", "Reserved", "Provisioned", "Launching", "Active",
           "Retained", "Quiescent", "Released"}

Records == [state        : Phases,
            provisioning : Receipts \cup {NoReceipt},
            sealed       : BOOLEAN,
            execution    : Bindings \cup {NoBinding}]

AbsentRecord == [state        |-> "Absent", provisioning |-> NoReceipt,
                 sealed       |-> FALSE,    execution    |-> NoBinding]

ASSUME CapacityAssumption ==
    /\ Maximum \in [Resources -> Nat]
    /\ Demand \in [Allocs -> [Resources -> Nat]]
    /\ MaxBoot \in Nat

ASSUME NullAssumption ==
    /\ NoAuthority \notin Authorities
    /\ NoReceipt \notin Receipts
    /\ NoBinding \notin Bindings

VARIABLES
    rec,        \* the allocation rows: record_json of each allocation
    used,       \* reserved_bytes / reserved_inodes of the pool row
    authority,  \* the pool's row of pool_authorities, or NoAuthority
    expired     \* allocations whose request.deadline has passed

ledgerVars == <<rec, used, authority, expired>>

----------------------------------------------------------------------------
(* What the rows say is in use, and the accounting check of lock_pool: the   *)
(* pool row must agree with the sum over the rows not yet released, or every *)
(* transaction on the pool fails.                                            *)
Outstanding(q) ==
    MapThenSumSet(LAMBDA a : Demand[a][q],
                  {a \in Allocs : rec[a].state \notin {"Absent", "Released"}})

LockPool == \A q \in Resources : used[q] = Outstanding(q)

Save(a, r) == /\ rec' = [rec EXCEPT ![a] = r]
              /\ UNCHANGED <<authority, expired>>

\* configure_pool has inserted the pool row; no authority is bound yet.
LedgerInit ==
    /\ rec = [a \in Allocs |-> AbsentRecord]
    /\ used = [q \in Resources |-> 0]
    /\ authority = NoAuthority
    /\ expired = {}

----------------------------------------------------------------------------
CanBindPoolAuthority(au) ==
    /\ LockPool
    /\ \/ authority = au
       \/ /\ authority = NoAuthority
          /\ \A a \in Allocs : rec[a].state \in {"Absent", "Reserved"}

BindPoolAuthority(au) ==
    /\ CanBindPoolAuthority(au)
    /\ authority' = au
    /\ UNCHANGED <<rec, used, expired>>

\* Mutant: the check looks at what is used so far, not at what it becomes.
CanReserveOver(a) ==
    /\ LockPool
    /\ \/ rec[a].state # "Absent"
       \/ /\ a \notin expired
          /\ \A q \in Resources : used[q] =< Maximum[q]

\* A replay returns the stored record in whatever phase it is; only a new
\* reservation is checked against the deadline and the capacity.
CanReserve(a) ==
    /\ LockPool
    /\ \/ rec[a].state # "Absent"
       \/ /\ a \notin expired
          /\ \A q \in Resources : used[q] + Demand[a][q] =< Maximum[q]

Reserve(a) ==
    /\ CanReserve(a)
    /\ IF rec[a].state = "Absent"
       THEN /\ Save(a, [rec[a] EXCEPT !.state = "Reserved"])
            /\ used' = [q \in Resources |-> used[q] + Demand[a][q]]
       ELSE UNCHANGED ledgerVars

CanProvision(a, au, receipt) ==
    /\ LockPool
    /\ authority = au
    /\ \/ rec[a].state = "Reserved"
       \/ rec[a].state = "Provisioned" /\ rec[a].provisioning = receipt

Provisioned(a, au, receipt) ==
    /\ CanProvision(a, au, receipt)
    /\ Save(a, [rec[a] EXCEPT !.state = "Provisioned", !.provisioning = receipt])
    /\ UNCHANGED used

CanSealInputs(a, au) ==
    /\ LockPool
    /\ authority = au
    /\ rec[a].state = "Provisioned"

SealInputs(a, au) ==
    /\ CanSealInputs(a, au)
    /\ Save(a, [rec[a] EXCEPT !.sealed = TRUE])
    /\ UNCHANGED used

\* Mutant: launch intent on unsealed inputs.
CanBeginUnsealed(a) ==
    /\ LockPool
    /\ a \notin expired
    /\ rec[a].state \in {"Provisioned", "Launching"}

\* Asks for no physical authority: the manager has verified the paths.
CanBeginLaunch(a) ==
    /\ LockPool
    /\ a \notin expired
    /\ rec[a].state \in {"Provisioned", "Launching"}
    /\ rec[a].sealed

BeginLaunch(a) ==
    /\ CanBeginLaunch(a)
    /\ Save(a, [rec[a] EXCEPT !.state = "Launching"])
    /\ UNCHANGED used

\* The binding was associated with authority au, and its boot must be the
\* boot the pool is bound to.
CanBindExecution(a, b, au) ==
    /\ LockPool
    /\ authority = au
    /\ b.boot = authority
    /\ \/ rec[a].state = "Active" /\ rec[a].execution = b
       \/ rec[a].state = "Launching" /\ rec[a].execution = NoBinding

BindExecution(a, b, au) ==
    /\ CanBindExecution(a, b, au)
    /\ Save(a, [rec[a] EXCEPT !.state = "Active", !.execution = b])
    /\ UNCHANGED used

CanRetain(a) ==
    /\ LockPool
    /\ rec[a].state \notin {"Absent", "Quiescent", "Released"}

Retain(a) ==
    /\ CanRetain(a)
    /\ Save(a, [rec[a] EXCEPT !.state = "Retained"])
    /\ UNCHANGED used

\* The caller holds a VerifiedNamespaceDeath of b observed in boot `observed`.
CanQuiesce(a, b, au, observed) ==
    /\ LockPool
    /\ observed = b.boot
    /\ authority = au
    /\ observed = authority
    /\ rec[a].execution = b
    /\ rec[a].state \in {"Active", "Retained", "Quiescent"}

Quiescent(a, b, au, observed) ==
    /\ CanQuiesce(a, b, au, observed)
    /\ Save(a, [rec[a] EXCEPT !.state = "Quiescent"])
    /\ UNCHANGED used

\* Mutant: retained capacity may be released like unstarted capacity.
CanReleaseRetained(a, au) ==
    /\ LockPool
    /\ authority = au
    /\ \/ rec[a].state \in {"Released", "Quiescent"}
       \/ /\ rec[a].state \in {"Reserved", "Provisioned", "Retained"}
          /\ rec[a].execution = NoBinding

CanRelease(a, au) ==
    /\ LockPool
    /\ authority = au
    /\ \/ rec[a].state \in {"Released", "Quiescent"}
       \/ rec[a].state \in {"Reserved", "Provisioned"} /\ rec[a].execution = NoBinding
    /\ rec[a].state # "Released" => \A q \in Resources : Demand[a][q] =< used[q]

\* A replayed release returns the stored record and gives nothing back twice.
Release(a, au) ==
    /\ CanRelease(a, au)
    /\ IF rec[a].state = "Released"
       THEN UNCHANGED ledgerVars
       ELSE /\ Save(a, [rec[a] EXCEPT !.state = "Released"])
            /\ used' = [q \in Resources |-> used[q] - Demand[a][q]]

\* The clock passes an allocation's deadline.
Expire(a) ==
    /\ a \notin expired
    /\ expired' = expired \cup {a}
    /\ UNCHANGED <<rec, used, authority>>

----------------------------------------------------------------------------
(* The ledger under every caller that holds well-formed verified arguments,  *)
(* in any order: more callers than the manager of WorkspaceManager.          *)
LedgerNext ==
    \/ \E au \in Authorities : BindPoolAuthority(au)
    \/ \E a \in Allocs :
         \/ Reserve(a)
         \/ BeginLaunch(a)
         \/ Retain(a)
         \/ Expire(a)
         \/ \E au \in Authorities :
              \/ \E r \in Receipts : Provisioned(a, au, r)
              \/ SealInputs(a, au)
              \/ \E b \in Bindings : BindExecution(a, b, au)
              \/ \E b \in Bindings, o \in Authorities : Quiescent(a, b, au, o)
              \/ Release(a, au)

LedgerSpec == LedgerInit /\ [][LedgerNext]_ledgerVars

----------------------------------------------------------------------------
(* Type invariant of the three tables and the clock. *)
LedgerTypeOK ==
    /\ rec \in [Allocs -> Records]
    /\ used \in [Resources -> Nat]
    /\ authority \in Authorities \cup {NoAuthority}
    /\ expired \subseteq Allocs

(* The pool row never over-commits the pool, and it always equals the sum of *)
(* the rows that still hold capacity: no sequence of reservations, replays   *)
(* and releases leaks or double-returns a byte or an inode.                  *)
CapacityAccounted ==
    \A q \in Resources : used[q] = Outstanding(q) /\ used[q] =< Maximum[q]

(* Nothing runs on inputs that are not sealed: a record that is launching,   *)
(* active or quiescent, or that has ever been bound to a namespace, was      *)
(* provisioned and sealed first, whatever it was retained from.              *)
UnsealedNeverLaunches ==
    \A a \in Allocs :
        /\ \/ rec[a].state \in {"Launching", "Active", "Quiescent"}
           \/ rec[a].execution # NoBinding
           => rec[a].sealed
        /\ rec[a].sealed => rec[a].provisioning # NoReceipt
        /\ rec[a].state \in {"Active", "Quiescent"} => rec[a].execution # NoBinding
        /\ rec[a].state = "Launching" => rec[a].execution = NoBinding

(* Every namespace the ledger vouches for belongs to the boot of the bound   *)
(* authority, and nothing is provisioned, bound or returned for a pool whose *)
(* root was never bound.                                                     *)
NothingStartsUnbound ==
    \A a \in Allocs :
        /\ rec[a].execution # NoBinding => rec[a].execution.boot = authority
        /\ authority = NoAuthority =>
             /\ rec[a].state \in {"Absent", "Reserved", "Retained"}
             /\ rec[a].provisioning = NoReceipt

(* What the ledger admits to run is grounded in evidence: sealed inputs, a   *)
(* provisioning receipt, the boot of the pool's bound root.                  *)
LaunchesAreGrounded == UnsealedNeverLaunches /\ NothingStartsUnbound

(* Once a launch was admitted, the capacity comes back only after the exact  *)
(* namespace was recorded: a launch whose process was never bound keeps its  *)
(* capacity for ever, also when it was retained in between.                  *)
UncertainLaunchKeepsCapacity ==
    \A a \in Allocs :
        [](rec[a].state = "Launching"
             => [](rec[a].state = "Released" => rec[a].execution # NoBinding))

(* Rank of a phase in the life of an allocation. *)
PhaseRank(p) ==
    CASE p = "Absent"      -> 0 [] p = "Reserved"  -> 1 [] p = "Provisioned" -> 2
      [] p = "Launching"   -> 3 [] p = "Active"    -> 4 [] p = "Retained"    -> 5
      [] p = "Quiescent"   -> 6 [] p = "Released"  -> 7

(* No transaction moves an allocation back to an earlier phase, and what has *)
(* been recorded as evidence (the pool's authority, the provisioning         *)
(* receipt, the seal, the bound namespace) is never replaced.                *)
EvidenceOnlyGrows ==
    [][/\ authority # NoAuthority => authority' = authority
       /\ \A a \in Allocs :
            /\ PhaseRank(rec[a].state) =< PhaseRank(rec[a].state)'
            /\ rec[a].provisioning # NoReceipt
                 => rec'[a].provisioning = rec[a].provisioning
            /\ rec[a].sealed => rec'[a].sealed
            /\ rec[a].execution # NoBinding
                 => rec'[a].execution = rec[a].execution]_ledgerVars

(* Replays, retained launches and late callers: whatever the order of calls, *)
(* evidence stays and no capacity comes back without it.                     *)
EvidenceIsKept == EvidenceOnlyGrows /\ UncertainLaunchKeepsCapacity
============================================================================

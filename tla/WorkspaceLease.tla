-------------------------- MODULE WorkspaceLease --------------------------
(* What warpin-workspace promises its callers, without saying how: a pool of *)
(* bounded capacity is leased; storage exists and is used only under a       *)
(* lease; the capacity of a lease comes back at most once, and only when its *)
(* storage is gone and nobody uses it ("Reservations remain occupied until   *)
(* verified death, exact owned filesystem teardown and atomic release").     *)
(* One boot of one host keeps the pool; when that host starts again, all is  *)
(* left as it is, for "a different boot lacks trusted same-host death proof" *)
(* and what cannot be proved is not guessed.                                 *)
EXTENDS Naturals, FiniteSetsExt

CONSTANTS
    Allocs,      \* leases that may be asked for
    Users,       \* processes that may use a lease's storage
    Resources,   \* what the pool is made of
    Maximum,     \* its capacity
    Demand       \* what each lease takes of it

VARIABLES
    lease,    \* "none", "held" or "returned"
    storage,  \* whether anything of the lease's storage exists
    users,    \* the processes that have it open
    keeper    \* the boot that keeps the pool: "none" yet, "up", or "gone" for ever

leaseVars == <<lease, storage, users, keeper>>

Leased(q) == MapThenSumSet(LAMBDA a : Demand[a][q], {a \in Allocs : lease[a] = "held"})

LeaseInit ==
    /\ lease = [a \in Allocs |-> "none"]
    /\ storage = [a \in Allocs |-> FALSE]
    /\ users = [a \in Allocs |-> {}]
    /\ keeper = "none"

Open ==
    /\ keeper = "none"
    /\ keeper' = "up"
    /\ UNCHANGED <<lease, storage, users>>

Acquire(a) ==
    /\ keeper = "up"
    /\ lease[a] = "none"
    /\ \A q \in Resources : Leased(q) + Demand[a][q] =< Maximum[q]
    /\ lease' = [lease EXCEPT ![a] = "held"]
    /\ UNCHANGED <<storage, users, keeper>>

Build(a) ==
    /\ keeper = "up"
    /\ lease[a] = "held"
    /\ storage' = [storage EXCEPT ![a] = TRUE]
    /\ UNCHANGED <<lease, users, keeper>>

Use(a, u) ==
    /\ keeper = "up"
    /\ lease[a] = "held"
    /\ storage[a]
    /\ users' = [users EXCEPT ![a] = @ \cup {u}]
    /\ UNCHANGED <<lease, storage, keeper>>

\* Users end by themselves.
Leave ==
    /\ \A a \in Allocs : users'[a] \subseteq users[a]
    /\ DOMAIN users' = Allocs
    /\ UNCHANGED <<lease, storage, keeper>>

\* The host of the pool starts again, which ends every user at once.
Restart ==
    /\ keeper = "up"
    /\ keeper' = "gone"
    /\ users' = [a \in Allocs |-> {}]
    /\ UNCHANGED <<lease, storage>>

Destroy(a) ==
    /\ keeper = "up"
    /\ users[a] = {}
    /\ storage' = [storage EXCEPT ![a] = FALSE]
    /\ UNCHANGED <<lease, users, keeper>>

Return(a) ==
    /\ keeper = "up"
    /\ lease[a] = "held"
    /\ ~storage[a]
    /\ users[a] = {}
    /\ lease' = [lease EXCEPT ![a] = "returned"]
    /\ UNCHANGED <<storage, users, keeper>>

LeaseNext ==
    \/ \E a \in Allocs : Acquire(a) \/ Build(a) \/ Destroy(a) \/ Return(a)
    \/ \E a \in Allocs, u \in Users : Use(a, u)
    \/ Open \/ Leave \/ Restart

LeaseSpec == LeaseInit /\ [][LeaseNext]_leaseVars
============================================================================

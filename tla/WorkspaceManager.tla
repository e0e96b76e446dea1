------------------------- MODULE WorkspaceManager -------------------------
(* The fixed ext4 allocation manager of warpin-workspace: the operations of  *)
(* linux/manager.rs, the physical steps of linux/filesystem.rs under the     *)
(* allocation's flock, and the namespaces of linux/namespace.rs, over the    *)
(* transactions of AllocationLedger.                                         *)
(*                                                                           *)
(* An operation is a detached task that holds one permit of its manager; a   *)
(* value of Ops is such a permit.  Each step below is what an operation does *)
(* between two points at which another operation, a crash or a helper can    *)
(* come in.  A failed ensure! or `?` ends the operation and drops its guard. *)
EXTENDS AllocationLedger

CONSTANTS
    Ops,               \* permits of the managers' settlement domains
    OpHost,            \* the host whose manager owns a permit
    Volumes,           \* roles of an allocation (3 in the code), 1 is "inputs"
    MaxFaults,         \* bound: crashes and failed helpers
    Receipt,           \* the receipt a verified provisioning reads back
    Free, Guardian,    \* holders of a flock that are not operations
    NoAlloc, NoNamespace, NoHelper

Roles  == 1..Volumes
Inputs == 1

(* How far a role's image has come.  "unsized": created, set_len not done;   *)
(* "raw": full length without a finished filesystem; "attached": on a loop   *)
(* device; "mounted": root still owns it; "sealed": remounted read-only.     *)
Mounted      == {"mounted", "ready", "sealed"}
Looped       == Mounted \cup {"attached"}
VolumeStates == Looped \cup {"absent", "unsized", "raw", "formatted"}

Kinds == {"provision", "seal_inputs", "begin_launch", "bind_execution", "retain",
          "release_unstarted", "quiescent_release", "recover_and_release"}

ASSUME ManagerAssumption ==
    /\ OpHost \in [Ops -> Hosts]
    /\ Volumes \in Nat \ {0}
    /\ MaxBoot \in Nat \ {0}
    /\ MaxFaults \in Nat
    /\ Receipt \in Receipts
    /\ Free \notin Ops /\ Guardian \notin Ops /\ Free # Guardian

VARIABLES
    op,        \* the operation that holds each permit
    lock,      \* holder of manager.lock, per host and allocation
    helper,    \* management utility running under that lock
    own,       \* ownership.json: "none", "torn" (created, not written) or "ok"
    retired,   \* retirement.json: "no", "torn" or "yes"
    vol,       \* state of the image of each role
    ns,        \* PID namespaces the launchers started
    captured,  \* namespaces a management process holds a pidfd of
    granted,   \* allocations whose begin_launch answered Ok, not yet used
    boot,      \* current boot of each host
    faults     \* faults so far

diskVars     == <<own, retired, vol>>
processVars  == <<ns, captured, granted>>
vars == <<ledgerVars, op, lock, helper, diskVars, processVars, boot, faults>>

IdleOp == [pc |-> "idle", kind |-> "none", alloc |-> NoAlloc, ns |-> NoNamespace,
           view |-> AbsentRecord, role |-> Inputs]
NoProcess == [state |-> "none", alloc |-> NoAlloc, boot |-> NoAuthority]

Host(o)  == OpHost[o]
Alloc(o) == op[o].alloc
View(o)  == op[o].view
Own(o)     == own[Host(o)][Alloc(o)]
Retired(o) == retired[Host(o)][Alloc(o)]
Volume(o, r) == vol[Host(o)][Alloc(o)][r]
Vol(o)     == Volume(o, op[o].role)

\* pool_authority: what the manager observes of its root and kernel.
Here(h)  == [host |-> h, boot |-> boot[h]]
Auth(o)  == Here(Host(o))

\* Live processes that have an allocation's volumes in use.
UsersOf(a) == {n \in Namespaces : ns[n].state = "live" /\ ns[n].alloc = a}

\* Mutant: the repair of a task root also opens a sealed filesystem.
RepairableSealed == {"mounted", "sealed"}
\* A task root is handed to the task's uid only while its mount is writable.
Repairable == {"mounted"}

(* The helper commands of provision_locked, seal_inputs_locked and           *)
(* teardown_locked: the volume states each is run from, what its success     *)
(* makes of the volume, the states in which the code skips it, and the       *)
(* operation's next step.                                                    *)
Stage ==
    [format |-> [from |-> {"raw"},       to |-> "formatted", done |-> {},
                 next |-> "attach"],
     attach |-> [from |-> {"formatted"}, to |-> "attached",  done |-> Looped,
                 next |-> "mount"],
     mount  |-> [from |-> {"attached"},  to |-> "mounted",   done |-> Mounted,
                 next |-> "chown"],
     chown  |-> [from |-> Repairable,    to |-> "ready",     done |-> {"ready", "sealed"},
                 next |-> "provided"],
     seal   |-> [from |-> {"ready"},     to |-> "sealed",    done |-> {"sealed"},
                 next |-> "seal_tx"],
     umount |-> [from |-> Mounted,       to |-> "attached",
                 done |-> {"raw", "formatted", "attached"},  next |-> "detach"],
     detach |-> [from |-> {"attached"},  to |-> "formatted", done |-> {"raw", "formatted"},
                 next |-> "remove"]]

ASSUME NoHelperAssumption == NoHelper \notin [stage : DOMAIN Stage, role : Roles]

Pcs == {"idle", "bind", "reserve", "before", "lock", "own", "write_own", "image", "size",
        "provided", "provisioned_tx", "seal_tx", "launch_tx", "bind_tx", "retain_tx",
        "quiescent_tx", "teardown", "mark", "dismantle", "remove", "release_tx", "helper"}
       \cup DOMAIN Stage

----------------------------------------------------------------------------
(* Ending an operation drops its LockedAllocation, if it has one. *)
Unlocked(o) ==
    [h \in Hosts |-> [a \in Allocs |-> IF lock[h][a] = o THEN Free ELSE lock[h][a]]]

End(o) == /\ op' = [op EXCEPT ![o] = IdleOp]
          /\ lock' = Unlocked(o)

Goto(o, p) == op' = [op EXCEPT ![o].pc = p]
See(o, p, r) == op' = [op EXCEPT ![o].pc = p, ![o].view = r]

SetOwn(o, v)     == own' = [own EXCEPT ![Host(o)][Alloc(o)] = v]
SetRetired(o, v) == retired' = [retired EXCEPT ![Host(o)][Alloc(o)] = v]
SetVol(o, v)     == vol' = [vol EXCEPT ![Host(o)][Alloc(o)][op[o].role] = v]

\* The next role of the three, or the step that follows the last one.
NextRole(o, first, last) ==
    IF op[o].role = Volumes
    THEN [op[o] EXCEPT !.pc = last, !.role = Inputs]
    ELSE [op[o] EXCEPT !.pc = first, !.role = op[o].role + 1]

----------------------------------------------------------------------------
\* Mutant: the operation keeps the record it read before the lock.
StaleRecord(o) == View(o)

(* lock_record reads the record again once it holds the lock: everything an  *)
(* operation decides, it decides on this copy.                               *)
Fresh(o) == rec[Alloc(o)]

(* What each operation requires of it and of the disk before it acts. *)

\* Mutant: the retirement marker does not stop provisioning.
MayProvisionRetired(o, r) ==
    /\ r.state \in {"Reserved", "Provisioned"}
    /\ r.state = "Reserved" => Alloc(o) \notin expired

MayProvision(o, r) ==
    /\ r.state \in {"Reserved", "Provisioned"}
    /\ r.state = "Reserved" => Alloc(o) \notin expired
    /\ Retired(o) = "no"

MaySeal(o, r) ==
    /\ r.state = "Provisioned"
    /\ Volume(o, Inputs) \in Mounted

PathsVerified(o, r) ==
    /\ r.provisioning # NoReceipt
    /\ \A v \in Roles : Volume(o, v) \in {"ready", "sealed"}
    /\ r.sealed => Volume(o, Inputs) = "sealed"

\* Mutant: a launch whose process is not bound yet counts as unstarted.
MayTearDownLaunching(o, r) ==
    /\ \/ r.state = "Quiescent"
       \/ /\ r.state \in {"Reserved", "Provisioned", "Launching", "Released"}
          /\ r.execution = NoBinding
    /\ Retired(o) # "torn"

\* Mutant: an existing retirement marker is taken for somebody else's.
MayTearDownOnce(o, r) ==
    /\ \/ r.state = "Quiescent"
       \/ /\ r.state \in {"Reserved", "Provisioned", "Released"}
          /\ r.execution = NoBinding
    /\ op[o].pc = "teardown" => Retired(o) = "no"

MayTearDown(o, r) ==
    /\ \/ r.state = "Quiescent"
       \/ /\ r.state \in {"Reserved", "Provisioned", "Released"}
          /\ r.execution = NoBinding
    /\ Retired(o) # "torn"

\* observe_previous_death: only the very boot of the binding can tell.
DeathObserved(o, b) == b.boot = Auth(o) /\ ns[b.ns].state # "live"

MayRecover(o, r) ==
    IF r.execution = NoBinding
    THEN r.state \in {"Reserved", "Provisioned", "Released"}
    ELSE r.state = "Released" \/ DeathObserved(o, r.execution)

MayEnter(o, r) ==
    CASE op[o].kind = "provision"           -> MayProvision(o, r)
      [] op[o].kind = "seal_inputs"         -> MaySeal(o, r)
      [] op[o].kind = "begin_launch"        -> PathsVerified(o, r)
      [] op[o].kind = "release_unstarted"   -> MayTearDown(o, r)
      [] op[o].kind = "recover_and_release" -> MayRecover(o, r)
      [] OTHER                              -> TRUE

\* The first step of each operation after the re-read.
FirstStep(o, r) ==
    CASE op[o].kind = "provision"         -> "image"
      [] op[o].kind = "seal_inputs"       -> "seal"
      [] op[o].kind = "begin_launch"      -> "launch_tx"
      [] op[o].kind = "bind_execution"    -> "bind_tx"
      [] op[o].kind = "retain"            -> "retain_tx"
      [] op[o].kind = "quiescent_release" -> "quiescent_tx"
      [] op[o].kind = "recover_and_release" /\ r.execution # NoBinding -> "quiescent_tx"
      [] OTHER                            -> "teardown"

\* lock: ownership.json may be created for a RESERVED record only, and what
\* is there must parse and name this request and authority.
OwnershipHolds(o) ==
    \/ Own(o) = "none" /\ View(o).state = "Reserved"
    \/ Own(o) = "ok" /\ MayEnter(o, Fresh(o))

\* The binding of the namespace an operation was called with, or recovers.
Carried(o) == [ns |-> op[o].ns, boot |-> Auth(o)]

\* Mutant: the manager does not compare its root with the bound authority.
AnyAuthority(o) == authority # NoAuthority

\* verify_pool_authority
Verified(o) == authority = Auth(o)

\* Mutant: the detach is believed, nothing is read back.
LoopsUnread(o) == Vol(o) # "unsized"

\* The readback after the detach: no loop device of the image, no mount.
LoopsGone(o) == Vol(o) \in {"raw", "formatted"}

(* Whether every ensure! of the operation's next step holds. *)
Admitted(o) ==
    LET a == Alloc(o)
        p == op[o].pc
    IN CASE p = "bind"           -> CanBindPoolAuthority(Auth(o))
         [] p = "reserve"        -> CanReserve(a)
         [] p = "before"         -> Verified(o) /\ rec[a].state # "Absent"
         [] p = "lock"           -> View(o).state # "Reserved" => Own(o) # "none"
         [] p = "own"            -> OwnershipHolds(o)
         [] p = "image"          -> Vol(o) # "unsized"
         [] p \in DOMAIN Stage   -> Vol(o) \in Stage[p].from \cup Stage[p].done
         [] p = "provisioned_tx" -> CanProvision(a, Auth(o), Receipt)
         [] p = "seal_tx"        -> CanSealInputs(a, Auth(o))
         [] p = "launch_tx"      -> CanBeginLaunch(a)
         [] p = "bind_tx"        -> CanBindExecution(a, Carried(o), Auth(o))
         [] p = "retain_tx"      -> CanRetain(a)
         [] p = "quiescent_tx"   -> CanQuiesce(a, Carried(o), Auth(o), Auth(o))
         [] p = "teardown"       -> MayTearDown(o, View(o))
         [] p = "dismantle"      -> Vol(o) # "unsized"
         [] p = "remove"         -> LoopsGone(o)
         [] p = "release_tx"     -> CanRelease(a, Auth(o))
         [] OTHER                -> TRUE

At(o, p) == op[o].pc = p /\ Admitted(o)

----------------------------------------------------------------------------
Init ==
    /\ LedgerInit
    /\ op = [o \in Ops |-> IdleOp]
    /\ lock = [h \in Hosts |-> [a \in Allocs |-> Free]]
    /\ helper = [h \in Hosts |-> [a \in Allocs |-> NoHelper]]
    /\ own = [h \in Hosts |-> [a \in Allocs |-> "none"]]
    /\ retired = [h \in Hosts |-> [a \in Allocs |-> "no"]]
    /\ vol = [h \in Hosts |-> [a \in Allocs |-> [r \in Roles |-> "absent"]]]
    /\ ns = [n \in Namespaces |-> NoProcess]
    /\ captured = {}
    /\ granted = {}
    /\ boot = [h \in Hosts |-> 1]
    /\ faults = 0

(* Requests.  A permit is taken before the task is spawned; provision may    *)
(* come for any allocation, the others carry a token a reservation minted.   *)
Request(o, k, a) ==
    /\ op[o].pc = "idle"
    /\ k \in Kinds \ {"bind_execution", "quiescent_release"}
    /\ k # "provision" => rec[a].state # "Absent"
    /\ op' = [op EXCEPT ![o] = [IdleOp EXCEPT !.kind = k, !.alloc = a,
                                 !.pc = IF k = "provision" THEN "bind" ELSE "before"]]
    /\ UNCHANGED <<ledgerVars, lock, helper, diskVars, processVars, boot, faults>>

\* bind_execution and quiescent_release also carry what a captured handle of
\* this host says: its binding, and that its process was seen dead.
RequestOnNamespace(o, k, n) ==
    /\ op[o].pc = "idle"
    /\ n \in captured
    /\ ns[n].boot = Auth(o)
    /\ \/ k = "bind_execution"
       \/ k = "quiescent_release" /\ ns[n].state = "dead"
    /\ op' = [op EXCEPT ![o] = [IdleOp EXCEPT !.kind = k, !.alloc = ns[n].alloc,
                                 !.pc = "before", !.ns = n]]
    /\ UNCHANGED <<ledgerVars, lock, helper, diskVars, processVars, boot, faults>>

----------------------------------------------------------------------------
(* provision: bind the pool to this root, then reserve; only then is the     *)
(* record read and locked.                                                   *)
BindPool(o) ==
    /\ At(o, "bind")
    /\ BindPoolAuthority(Auth(o))
    /\ Goto(o, "reserve")
    /\ UNCHANGED <<lock, helper, diskVars, processVars, boot, faults>>

ReserveCapacity(o) ==
    /\ At(o, "reserve")
    /\ Reserve(Alloc(o))
    /\ Goto(o, "before")
    /\ UNCHANGED <<lock, helper, diskVars, processVars, boot, faults>>

(* lock_record: verify the authority and read the record before the lock.    *)
ReadBefore(o) ==
    /\ At(o, "before")
    /\ See(o, "lock", rec[Alloc(o)])
    /\ UNCHANGED <<ledgerVars, lock, helper, diskVars, processVars, boot, faults>>

\* flock blocks while another operation, or the guardian of a dead one, holds it.
AcquireLock(o) ==
    /\ At(o, "lock")
    /\ lock[Host(o)][Alloc(o)] = Free
    /\ lock' = [lock EXCEPT ![Host(o)][Alloc(o)] = o]
    /\ Goto(o, "own")
    /\ UNCHANGED <<ledgerVars, helper, diskVars, processVars, boot, faults>>

\* create_new for a record that was RESERVED before the lock, else read it.
CreateOwnership(o) ==
    /\ At(o, "own")
    /\ Own(o) = "none"
    /\ SetOwn(o, "torn")
    /\ Goto(o, "write_own")
    /\ UNCHANGED <<ledgerVars, lock, helper, retired, vol, processVars, boot, faults>>

WriteOwnership(o) ==
    /\ At(o, "write_own")
    /\ SetOwn(o, "ok")
    /\ Goto(o, "own")
    /\ UNCHANGED <<ledgerVars, lock, helper, retired, vol, processVars, boot, faults>>

\* The record may have moved on while the operation waited for the lock.  A
\* recovery of a released allocation is answered from the re-read record.
Reread(o) ==
    /\ At(o, "own")
    /\ Own(o) = "ok"
    /\ IF op[o].kind = "recover_and_release" /\ Fresh(o).state = "Released"
       THEN End(o)
       ELSE /\ op' = [op EXCEPT ![o].pc = FirstStep(o, Fresh(o)), ![o].view = Fresh(o),
                               ![o].ns = IF op[o].kind = "recover_and_release"
                                            /\ Fresh(o).execution # NoBinding
                                         THEN Fresh(o).execution.ns ELSE @]
            /\ UNCHANGED lock
    /\ UNCHANGED <<ledgerVars, helper, diskVars, processVars, boot, faults>>

----------------------------------------------------------------------------
(* A step of Stage: run the utility under the lock, or find its work done.   *)
RunHelper(o) ==
    /\ op[o].pc \in DOMAIN Stage /\ Admitted(o)
    /\ Vol(o) \in Stage[op[o].pc].from
    /\ helper' = [helper EXCEPT ![Host(o)][Alloc(o)] =
                     [stage |-> op[o].pc, role |-> op[o].role]]
    /\ Goto(o, "helper")
    /\ UNCHANGED <<ledgerVars, lock, diskVars, processVars, boot, faults>>

SkipHelper(o) ==
    /\ op[o].pc \in DOMAIN Stage /\ Admitted(o)
    /\ Vol(o) \in Stage[op[o].pc].done
    /\ Goto(o, Stage[op[o].pc].next)
    /\ UNCHANGED <<ledgerVars, lock, helper, diskVars, processVars, boot, faults>>

\* What a finished utility did: losetup --detach of a device that a process
\* still has open leaves the device listed.
HelperEffect(h, a) ==
    LET s == helper[h][a].stage
        r == helper[h][a].role
    IN IF s = "detach" /\ UsersOf(a) # {}
       THEN vol
       ELSE [vol EXCEPT ![h][a][r] = Stage[s].to]

HelperSucceeds(h, a) ==
    /\ helper[h][a] # NoHelper
    /\ lock[h][a] \in Ops
    /\ vol' = HelperEffect(h, a)
    /\ helper' = [helper EXCEPT ![h][a] = NoHelper]
    /\ op' = [op EXCEPT ![lock[h][a]].pc = Stage[helper[h][a].stage].next]
    /\ UNCHANGED <<ledgerVars, lock, own, retired, processVars, boot, faults>>

\* A utility that fails, or that its 120 s timeout kills, may have acted.
HelperFails(h, a) ==
    /\ helper[h][a] # NoHelper
    /\ lock[h][a] \in Ops
    /\ faults < MaxFaults
    /\ faults' = faults + 1
    /\ vol' \in {vol, HelperEffect(h, a)}
    /\ helper' = [helper EXCEPT ![h][a] = NoHelper]
    /\ End(lock[h][a])
    /\ UNCHANGED <<ledgerVars, own, retired, processVars, boot>>

\* Mutant: the guardian outlives the utility.
OrphanStays(h, a) ==
    /\ helper[h][a] # NoHelper
    /\ lock[h][a] = Guardian
    /\ vol' \in {vol, HelperEffect(h, a)}
    /\ helper' = [helper EXCEPT ![h][a] = NoHelper]
    /\ UNCHANGED <<ledgerVars, op, lock, own, retired, processVars, boot, faults>>

\* The operation died; its guardian waits for the utility and then exits,
\* which closes the last descriptor of the flock.
OrphanEnds(h, a) ==
    /\ helper[h][a] # NoHelper
    /\ lock[h][a] = Guardian
    /\ vol' \in {vol, HelperEffect(h, a)}
    /\ helper' = [helper EXCEPT ![h][a] = NoHelper]
    /\ lock' = [lock EXCEPT ![h][a] = Free]
    /\ UNCHANGED <<ledgerVars, op, own, retired, processVars, boot, faults>>

----------------------------------------------------------------------------
(* provision_locked, one role after the other. *)

CreateImage(o) ==
    /\ At(o, "image")
    /\ Vol(o) = "absent"
    /\ SetVol(o, "unsized")
    /\ Goto(o, "size")
    /\ UNCHANGED <<ledgerVars, lock, helper, own, retired, processVars, boot, faults>>

SizeImage(o) ==
    /\ At(o, "size")
    /\ SetVol(o, "raw")
    /\ Goto(o, "format")
    /\ UNCHANGED <<ledgerVars, lock, helper, own, retired, processVars, boot, faults>>

\* fresh_or_unattached: an image no loop device uses is formatted again, but
\* only while the record is RESERVED.
Rebuildable(o) == View(o).state = "Reserved" /\ Vol(o) \notin Looped

RebuildImage(o) ==
    /\ At(o, "image")
    /\ Vol(o) # "absent" /\ Rebuildable(o)
    /\ SetVol(o, "raw")
    /\ Goto(o, "format")
    /\ UNCHANGED <<ledgerVars, lock, helper, own, retired, processVars, boot, faults>>

KeepImage(o) ==
    /\ At(o, "image")
    /\ Vol(o) # "absent" /\ ~Rebuildable(o)
    /\ Goto(o, "attach")
    /\ UNCHANGED <<ledgerVars, lock, helper, diskVars, processVars, boot, faults>>

RoleProvided(o) ==
    /\ At(o, "provided")
    /\ op' = [op EXCEPT ![o] = NextRole(o, "image", "provisioned_tx")]
    /\ UNCHANGED <<ledgerVars, lock, helper, diskVars, processVars, boot, faults>>

RecordProvisioned(o) ==
    /\ At(o, "provisioned_tx")
    /\ Provisioned(Alloc(o), Auth(o), Receipt)
    /\ End(o)
    /\ UNCHANGED <<helper, diskVars, processVars, boot, faults>>

----------------------------------------------------------------------------
(* seal_inputs, begin_launch, bind_execution, retain. *)
RecordSeal(o) ==
    /\ At(o, "seal_tx")
    /\ SealInputs(Alloc(o), Auth(o))
    /\ End(o)
    /\ UNCHANGED <<helper, diskVars, processVars, boot, faults>>

\* The launcher may hear of the admission and then start one process, or the
\* answer is lost with its caller.
RecordLaunch(o) ==
    /\ At(o, "launch_tx")
    /\ BeginLaunch(Alloc(o))
    /\ granted' \in {granted, granted \cup {Alloc(o)}}
    /\ End(o)
    /\ UNCHANGED <<helper, diskVars, ns, captured, boot, faults>>

RecordExecution(o) ==
    /\ At(o, "bind_tx")
    /\ BindExecution(Alloc(o), Carried(o), Auth(o))
    /\ End(o)
    /\ UNCHANGED <<helper, diskVars, processVars, boot, faults>>

RecordRetained(o) ==
    /\ At(o, "retain_tx")
    /\ Retain(Alloc(o))
    /\ End(o)
    /\ UNCHANGED <<helper, diskVars, processVars, boot, faults>>

----------------------------------------------------------------------------
(* The end of a bound namespace is recorded before its storage is touched.   *)
RecordQuiescent(o) ==
    /\ At(o, "quiescent_tx")
    /\ Quiescent(Alloc(o), Carried(o), Auth(o), Auth(o))
    /\ See(o, "teardown", rec'[Alloc(o)])
    /\ UNCHANGED <<lock, helper, diskVars, processVars, boot, faults>>

(* teardown_locked: the retirement marker first, then role after role. *)
CreateMarker(o) ==
    /\ At(o, "teardown")
    /\ Retired(o) = "no"
    /\ SetRetired(o, "torn")
    /\ Goto(o, "mark")
    /\ UNCHANGED <<ledgerVars, lock, helper, own, vol, processVars, boot, faults>>

WriteMarker(o) ==
    /\ At(o, "mark")
    /\ SetRetired(o, "yes")
    /\ Goto(o, "dismantle")
    /\ UNCHANGED <<ledgerVars, lock, helper, own, vol, processVars, boot, faults>>

CheckMarker(o) ==
    /\ At(o, "teardown")
    /\ Retired(o) = "yes"
    /\ Goto(o, "dismantle")
    /\ UNCHANGED <<ledgerVars, lock, helper, diskVars, processVars, boot, faults>>

\* Mutant: a missing image ends the teardown instead of its role's turn.
DismantleUntilMissing(o) ==
    /\ At(o, "dismantle")
    /\ IF Vol(o) = "absent"
       THEN op' = [op EXCEPT ![o].pc = "release_tx", ![o].role = Inputs]
       ELSE Goto(o, "umount")
    /\ UNCHANGED <<ledgerVars, lock, helper, diskVars, processVars, boot, faults>>

DismantleRole(o) ==
    /\ At(o, "dismantle")
    /\ IF Vol(o) = "absent"
       THEN op' = [op EXCEPT ![o] = NextRole(o, "dismantle", "release_tx")]
       ELSE Goto(o, "umount")
    /\ UNCHANGED <<ledgerVars, lock, helper, diskVars, processVars, boot, faults>>

\* Only after the readback that no loop device and no mount is left.
RemoveImage(o) ==
    /\ At(o, "remove")
    /\ SetVol(o, "absent")
    /\ op' = [op EXCEPT ![o] = NextRole(o, "dismantle", "release_tx")]
    /\ UNCHANGED <<ledgerVars, lock, helper, own, retired, processVars, boot, faults>>

RecordRelease(o) ==
    /\ At(o, "release_tx")
    /\ Release(Alloc(o), Auth(o))
    /\ End(o)
    /\ UNCHANGED <<helper, diskVars, processVars, boot, faults>>

----------------------------------------------------------------------------
(* How operations and hosts fail. *)

\* An ensure! of the next step fails.
Reject(o) ==
    /\ ~Admitted(o)
    /\ End(o)
    /\ UNCHANGED <<ledgerVars, helper, diskVars, processVars, boot, faults>>

\* Mutant: the lock's descriptor is closed on exec, the utility runs unlocked.
CrashClosesLock(o) ==
    /\ op[o].pc # "idle"
    /\ faults < MaxFaults
    /\ faults' = faults + 1
    /\ End(o)
    /\ UNCHANGED <<ledgerVars, helper, diskVars, processVars, boot>>

\* The process is killed, or an I/O or database call fails.  A utility that
\* is running goes on, and with it the guardian's copy of the lock.
Crash(o) ==
    /\ op[o].pc # "idle"
    /\ faults < MaxFaults
    /\ faults' = faults + 1
    /\ op' = [op EXCEPT ![o] = IdleOp]
    /\ lock' = IF op[o].pc = "helper"
               THEN [lock EXCEPT ![Host(o)][Alloc(o)] = Guardian]
               ELSE Unlocked(o)
    /\ UNCHANGED <<ledgerVars, helper, diskVars, processVars, boot>>

\* A host restarts: its processes, mounts and loop devices are gone, its
\* files are not, and its boot id is new.
Reboot(h) ==
    /\ boot[h] < MaxBoot
    /\ boot' = [boot EXCEPT ![h] = @ + 1]
    /\ op' = [o \in Ops |-> IF Host(o) = h THEN IdleOp ELSE op[o]]
    /\ lock' = [lock EXCEPT ![h] = [a \in Allocs |-> Free]]
    /\ helper' = [helper EXCEPT ![h] = [a \in Allocs |-> NoHelper]]
    /\ vol' = [vol EXCEPT ![h] = [a \in Allocs |-> [r \in Roles |->
                 IF vol[h][a][r] \in Looped THEN "formatted" ELSE vol[h][a][r]]]]
    /\ ns' = [n \in Namespaces |-> IF ns[n].boot = Here(h)
                                    THEN [ns[n] EXCEPT !.state = "dead"] ELSE ns[n]]
    /\ captured' = {n \in captured : ns[n].boot # Here(h)}
    /\ UNCHANGED <<ledgerVars, own, retired, granted, faults>>

----------------------------------------------------------------------------
(* The launcher (not in src/): on an admitted launch it starts one process   *)
(* on the mounted volumes; a second admission may start a second one.        *)
Launch(n, a) ==
    /\ ns[n].state = "none"
    /\ a \in granted
    /\ authority # NoAuthority
    /\ authority = Here(authority.host)
    /\ \A r \in Roles : vol[authority.host][a][r] \in Mounted
    /\ ns' = [ns EXCEPT ![n] = [state |-> "live", alloc |-> a, boot |-> authority]]
    /\ granted' = granted \ {a}
    /\ UNCHANGED <<ledgerVars, op, lock, helper, diskVars, captured, boot, faults>>

\* capture_namespace: a pidfd on a live init process, under the bound authority.
CaptureNamespace(n) ==
    /\ ns[n].state = "live"
    /\ ns[n].boot = authority
    /\ captured' = captured \cup {n}
    /\ UNCHANGED <<ledgerVars, op, lock, helper, diskVars, ns, granted, boot, faults>>

NamespaceDies(n) ==
    /\ ns[n].state = "live"
    /\ ns' = [ns EXCEPT ![n].state = "dead"]
    /\ UNCHANGED <<ledgerVars, op, lock, helper, diskVars, captured, granted, boot, faults>>

DeadlinePasses(a) ==
    /\ Expire(a)
    /\ UNCHANGED <<op, lock, helper, diskVars, processVars, boot, faults>>

----------------------------------------------------------------------------
\* The steps of an admitted operation that wait for nobody.
Progress(o) ==
    \/ BindPool(o) \/ ReserveCapacity(o) \/ ReadBefore(o)
    \/ CreateOwnership(o) \/ WriteOwnership(o) \/ Reread(o)
    \/ RunHelper(o) \/ SkipHelper(o)
    \/ CreateImage(o) \/ SizeImage(o) \/ RebuildImage(o) \/ KeepImage(o)
    \/ RoleProvided(o) \/ RecordProvisioned(o)
    \/ RecordSeal(o) \/ RecordLaunch(o) \/ RecordExecution(o) \/ RecordRetained(o)
    \/ RecordQuiescent(o)
    \/ CreateMarker(o) \/ WriteMarker(o) \/ CheckMarker(o)
    \/ DismantleRole(o) \/ RemoveImage(o) \/ RecordRelease(o)
    \/ Reject(o)

HelperEnds(h, a) == HelperSucceeds(h, a) \/ HelperFails(h, a) \/ OrphanEnds(h, a)

Next ==
    \/ \E o \in Ops : Progress(o) \/ AcquireLock(o) \/ Crash(o)
    \/ \E o \in Ops, k \in Kinds, a \in Allocs : Request(o, k, a)
    \/ \E o \in Ops, k \in Kinds, n \in Namespaces : RequestOnNamespace(o, k, n)
    \/ \E h \in Hosts, a \in Allocs : HelperEnds(h, a)
    \/ \E h \in Hosts : Reboot(h)
    \/ \E n \in Namespaces, a \in Allocs : Launch(n, a)
    \/ \E n \in Namespaces : CaptureNamespace(n) \/ NamespaceDies(n)
    \/ \E a \in Allocs : DeadlinePasses(a)

Spec == Init /\ [][Next]_vars

(* Scheduling: a spawned task goes on by itself, a free flock is given to    *)
(* somebody who waits for it, and a running utility ends.                    *)
Running == /\ \A o \in Ops : WF_vars(Progress(o) \/ AcquireLock(o))
           /\ \A h \in Hosts, a \in Allocs : WF_vars(HelperEnds(h, a))

RunningSpec == Spec /\ Running

(* Reconciliation: whoever manages the pool calls recover_and_release again  *)
(* and again.                                                                *)
Reconciling ==
    \A a \in Allocs : SF_vars(\E o \in Ops : Request(o, "recover_and_release", a))

ReconcilingSpec == RunningSpec /\ Reconciling

----------------------------------------------------------------------------
(* Type invariant of the operations, the disks and the processes. *)
TypeOK ==
    /\ LedgerTypeOK
    /\ op \in [Ops -> [pc : Pcs, kind : Kinds \cup {"none"}, alloc : Allocs \cup {NoAlloc},
                       ns : Namespaces \cup {NoNamespace}, view : Records, role : Roles]]
    /\ lock \in [Hosts -> [Allocs -> Ops \cup {Free, Guardian}]]
    /\ helper \in [Hosts -> [Allocs -> [stage : DOMAIN Stage, role : Roles] \cup {NoHelper}]]
    /\ own \in [Hosts -> [Allocs -> {"none", "torn", "ok"}]]
    /\ retired \in [Hosts -> [Allocs -> {"no", "torn", "yes"}]]
    /\ vol \in [Hosts -> [Allocs -> [Roles -> VolumeStates]]]
    /\ ns \in [Namespaces -> [state : {"none", "live", "dead"}, alloc : Allocs \cup {NoAlloc},
                              boot : Authorities \cup {NoAuthority}]]
    /\ captured \subseteq Namespaces
    /\ granted \subseteq Allocs
    /\ boot \in [Hosts -> 1..MaxBoot]
    /\ faults \in 0..MaxFaults

\* From the re-read of the record to the last transaction.
Deciding(o) == op[o].pc \notin {"idle", "bind", "reserve", "before", "lock", "own",
                                "write_own"}

(* No operation acts on a stale record: whatever another operation committed *)
(* while this one waited for the lock, from the re-read on its copy is the   *)
(* row, and it alone holds the allocation's lock.                            *)
DecisionsAreCurrent ==
    \A o \in Ops : Deciding(o) => /\ lock[Host(o)][Alloc(o)] = o
                                  /\ View(o) = rec[Alloc(o)]

(* A utility never runs outside the lock: the lock stays with the operation  *)
(* that waits for it, or with its guardian after a crash, until it has ended;*)
(* the state keeps its type.                                                 *)
HelpersAreGuarded ==
    /\ TypeOK
    /\ \A h \in Hosts, a \in Allocs :
        /\ helper[h][a] # NoHelper => lock[h][a] # Free
        /\ lock[h][a] = Guardian => helper[h][a] # NoHelper
        /\ \A o \in Ops : op[o].pc = "helper" /\ Host(o) = h /\ Alloc(o) = a
                          => lock[h][a] = o /\ helper[h][a] # NoHelper

(* A pool is served from one root only: nothing of an allocation is ever     *)
(* created under a root that is not the bound one.                           *)
SingleRoot ==
    \A h \in Hosts, a \in Allocs :
        \/ own[h][a] # "none" \/ helper[h][a] # NoHelper
        \/ \E r \in Roles : vol[h][a][r] # "absent"
        => authority # NoAuthority /\ authority.host = h

(* Capacity comes back only when the storage is really gone: no image of a   *)
(* released allocation exists on any host, no process has it open, and its   *)
(* retirement is on disk.                                                    *)
ReleasedMeansGone ==
    \A a \in Allocs : rec[a].state = "Released" =>
        /\ UsersOf(a) = {}
        /\ \A h \in Hosts, r \in Roles : vol[h][a][r] = "absent"
        /\ retired[authority.host][a] = "yes"

(* Storage is never taken from a process: no device of an allocation goes    *)
(* away under any process of it that lives, one that a repeated admission    *)
(* started included; and for the bound process, or any one while none is     *)
(* bound, all volumes stay mounted.                                          *)
UsersKeepVolumes ==
    \A a \in Allocs : \A n \in UsersOf(a), r \in Roles :
        LET v == vol[ns[n].boot.host][a][r]
        IN  /\ v \in Looped
            /\ rec[a].execution = NoBinding \/ rec[a].execution.ns = n => v \in Mounted

(* Once the ledger says sealed, the inputs are never writable again.         *)
SealedStaysReadOnly ==
    \A a \in Allocs : rec[a].sealed =>
        vol[authority.host][a][Inputs] \notin {"mounted", "ready"}

(* A filesystem is formatted only before anything was certified or started   *)
(* on it, however often provisioning crashed and was replayed.               *)
FormatsOnlyUnstarted ==
    \A h \in Hosts, a \in Allocs :
        helper[h][a] # NoHelper /\ helper[h][a].stage = "format" =>
            /\ rec[a].state = "Reserved"
            /\ retired[h][a] = "no"
            /\ vol[h][a][helper[h][a].role] = "raw"

VolumeRank(v) ==
    CASE v = "absent"    -> 0 [] v = "unsized"  -> 1 [] v = "raw"     -> 2
      [] v = "formatted" -> 3 [] v = "attached" -> 4 [] v = "mounted" -> 5
      [] v \in {"ready", "sealed"} -> 6

(* Retirement is for ever: from the creation of the marker on, no operation  *)
(* and no left-over utility builds any volume of the allocation up again.    *)
RetiredNeverRebuilt ==
    [][\A h \in Hosts, a \in Allocs : retired[h][a] # "no" =>
         \A r \in Roles : VolumeRank(vol'[h][a][r]) =< VolumeRank(vol[h][a][r])]_vars

(* Every holder of a lock gives it back: an operation ends, and so does the  *)
(* guardian of a killed one.                                                 *)
LocksAreGivenBack ==
    \A h \in Hosts, a \in Allocs, x \in Ops \cup {Guardian} :
        lock[h][a] = x ~> lock[h][a] # x

(* A dead execution gives its capacity back: once the bound namespace is     *)
(* dead, recovery releases the allocation, unless its host restarts (another *)
(* boot proves nothing), a crash tore the retirement marker, or, for as long *)
(* as it lives, a second process of the same launch keeps a device open.     *)
DeadExecutionReleased ==
    \A a \in Allocs :
        (rec[a].execution # NoBinding /\ ns[rec[a].execution.ns].state = "dead")
        ~> \/ rec[a].state = "Released"
           \/ UsersOf(a) # {}
           \/ \A h \in Hosts : Here(h) = authority => retired[h][a] = "torn"

(* The manager keeps the promise of WorkspaceLease: a lease is held from its *)
(* reservation to its release, and the pool is kept by the boot whose root   *)
(* it is bound to, after which nothing is released on a guess.               *)
Lease == INSTANCE WorkspaceLease WITH
    Users   <- Namespaces,
    lease   <- [a \in Allocs |-> CASE rec[a].state = "Absent"   -> "none"
                                   [] rec[a].state = "Released" -> "returned"
                                   [] OTHER                     -> "held"],
    storage <- [a \in Allocs |-> \E h \in Hosts, r \in Roles : vol[h][a][r] # "absent"],
    users   <- [a \in Allocs |-> UsersOf(a)],
    keeper  <- IF authority = NoAuthority THEN "none"
               ELSE IF \E h \in Hosts : Here(h) = authority THEN "up" ELSE "gone"

ImplementsLease == Lease!LeaseSpec

(* A comment of provision_locked: an unattached partial image may be rebuilt *)
(* while the record is RESERVED.                                             *)
PartialImagesAreRebuilt ==
    \A o \in Ops : op[o].pc = "image" /\ View(o).state = "Reserved" => Admitted(o)
============================================================================

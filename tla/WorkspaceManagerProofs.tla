----------------------- MODULE WorkspaceManagerProofs -----------------------
(* What holds of the allocation manager for any number of hosts, operations, *)
(* allocations, volumes and processes, any number of crashes and reboots.    *)
(*                                                                           *)
(* The inductive invariant comes in layers; a layer's step is proved from    *)
(* the layers above it:                                                      *)
(*   TypeInv     types, and what an operation and a process always have;     *)
(*   RootInv     who may act: only managers of the bound root and boot;      *)
(*   LockInv     whose turn it is: the flock and the utility under it;       *)
(*   StepInv     what an operation has established when it is at a step;     *)
(*   VolumeInv   what the phases of the record say of the volumes;           *)
(*   ProcessInv  what they say of the processes.                             *)
EXTENDS WorkspaceManager, AllocationLedgerProofs

-----------------------------------------------------------------------------
(* Types, and what is set once an operation runs or a process has started. *)
TypeInv ==
    /\ TypeOK
    /\ \A o \in Ops : op[o].pc # "idle" =>
         /\ op[o].alloc \in Allocs
         /\ \/ op[o].kind \in {"bind_execution", "quiescent_release"}
            \/ op[o].pc \in {"bind_tx", "quiescent_tx"}
            => op[o].ns \in Namespaces
    /\ \A n \in Namespaces :
         IF ns[n].state = "none" THEN ns[n].boot = NoAuthority ELSE ns[n].alloc \in Allocs
    /\ \A n \in captured : ns[n].state # "none"

(* From the check of its authority on, an operation runs on the host and in  *)
(* the boot the pool is bound to; so does its utility, and every process was *)
(* started there.  Nothing was ever created under another root.              *)
OpRooted(o) ==
    /\ op[o].pc \notin {"idle", "bind", "before"} => authority = Auth(o)
    /\ op[o].pc \notin {"idle", "bind", "reserve", "before"}
         => rec[Alloc(o)].state # "Absent"

ProcessRooted(n) ==
    /\ ns[n].state # "none" => authority # NoAuthority /\ ns[n].boot = authority
    /\ ns[n].state = "live" => authority = Here(authority.host)

Touched(h, a) ==
    \/ own[h][a] # "none" \/ retired[h][a] # "no" \/ helper[h][a] # NoHelper
    \/ \E r \in Roles : vol[h][a][r] # "absent"

DiskRooted(h, a) ==
    /\ helper[h][a] # NoHelper => authority = Here(h)
    /\ Touched(h, a) => authority # NoAuthority /\ authority.host = h

BootReached == authority # NoAuthority => authority.boot =< boot[authority.host]

RootInv ==
    /\ BootReached
    /\ \A o \in Ops : OpRooted(o)
    /\ \A n \in Namespaces : ProcessRooted(n)
    /\ \A h \in Hosts, a \in Allocs : DiskRooted(h, a)

(* The steps an operation takes before it has the lock. *)
Early   == {"idle", "bind", "reserve", "before", "lock"}
Holding == Pcs \ Early

(* An operation at a step that needs the lock has it, and nobody else; a     *)
(* utility runs for the operation that waits for it or under a guardian.     *)
HolderHasLock(o)   == op[o].pc \in Holding => lock[Host(o)][op[o].alloc] = o
WaiterHasHelper(o) ==
    op[o].pc = "helper" =>
      /\ helper[Host(o)][op[o].alloc] # NoHelper
      /\ helper[Host(o)][op[o].alloc].role = op[o].role
LockHasHolder(h, a) ==
    lock[h][a] \in Ops =>
      /\ Host(lock[h][a]) = h
      /\ op[lock[h][a]].alloc = a
      /\ op[lock[h][a]].pc \in Holding
HelperHasLock(h, a) ==
    /\ lock[h][a] = Guardian => helper[h][a] # NoHelper
    /\ helper[h][a] # NoHelper =>
         \/ lock[h][a] = Guardian
         \/ lock[h][a] \in Ops /\ op[lock[h][a]].pc = "helper"

LockInv ==
    /\ \A o \in Ops : HolderHasLock(o) /\ WaiterHasHelper(o)
    /\ \A h \in Hosts, a \in Allocs : LockHasHolder(h, a) /\ HelperHasLock(h, a)

-----------------------------------------------------------------------------
Finished == {"ready", "sealed"}

BuildSteps    == {"image", "size", "format", "attach", "mount", "chown", "provided"}
TeardownSteps == {"dismantle", "umount", "detach", "remove"}

\* The first role is the one an operation is at until it goes round the roles.
FirstRoleSteps == {"bind", "reserve", "before", "lock", "own", "write_own", "seal",
                   "quiescent_tx", "teardown", "mark"}

\* A record whose storage may be torn down: nothing started, or seen dead.
Unneeded(r) ==
    \/ r.state = "Quiescent"
    \/ r.state \in {"Reserved", "Provisioned", "Released"} /\ r.execution = NoBinding

(* What holds at step s of an operation that has come to role r of an        *)
(* allocation with this marker, record and volumes: the phase it checked,    *)
(* the volumes it has done, its marker.                                      *)
StepHolds(s, r, marker, record, volumes) ==
    /\ s \in FirstRoleSteps => r = Inputs
    /\ s \in BuildSteps \cup {"provisioned_tx"} =>
         marker = "no" /\ record.state \in {"Reserved", "Provisioned"}
    /\ s \in {"size", "format"} => record.state = "Reserved"
    /\ s = "size" => volumes[r] = "unsized"
    /\ s = "format" => volumes[r] = "raw"
    /\ s = "provided" => volumes[r] \in Finished
    /\ s \in BuildSteps => \A q \in Roles : q < r => volumes[q] \in Finished
    /\ s = "provisioned_tx" => \A q \in Roles : volumes[q] \in Finished
    /\ s = "seal_tx" => volumes[Inputs] = "sealed"
    /\ s = "mark" => marker = "torn"
    /\ s \in TeardownSteps \cup {"release_tx"} => marker = "yes"
    /\ s \in TeardownSteps \cup {"mark", "release_tx"} => Unneeded(record)
    /\ s \in TeardownSteps => \A q \in Roles : q < r => volumes[q] = "absent"
    /\ s = "release_tx" => \A q \in Roles : volumes[q] = "absent"

(* Each operation that is not waiting for a utility is where StepHolds says, *)
(* and so is each utility, which also finds the volume as it was started on. *)
OpAtStep(o) ==
    op[o].pc # "helper" =>
      StepHolds(op[o].pc, op[o].role, retired[Host(o)][op[o].alloc], rec[op[o].alloc],
                vol[Host(o)][op[o].alloc])

HelperAtStep(h, a) ==
    helper[h][a] # NoHelper =>
      /\ StepHolds(helper[h][a].stage, helper[h][a].role, retired[h][a], rec[a], vol[h][a])
      /\ vol[h][a][helper[h][a].role] \in Stage[helper[h][a].stage].from

StepInv ==
    /\ \A o \in Ops : OpAtStep(o)
    /\ \A h \in Hosts, a \in Allocs : HelperAtStep(h, a)

(* As long as an allocation is not retired its certified volumes are         *)
(* complete, and in the boot of the pool sealed inputs are mounted read-only.*)
CertifiedKept(h, a) ==
    authority # NoAuthority /\ authority.host = h /\ retired[h][a] = "no" =>
      /\ rec[a].provisioning # NoReceipt =>
           \A r \in Roles : vol[h][a][r] \in Looped \cup {"formatted"}
      /\ rec[a].sealed /\ authority = Here(h) => vol[h][a][Inputs] = "sealed"

SealKept(a) ==
    rec[a].sealed => vol[authority.host][a][Inputs] \notin {"mounted", "ready"}

VolumeInv ==
    /\ \A h \in Hosts, a \in Allocs : CertifiedKept(h, a)
    /\ \A a \in Allocs : SealKept(a)

(* A process exists only of a launch that was admitted; while it lives its   *)
(* volumes stay on their loop devices; the ledger calls it dead only when it *)
(* is, and so does an operation that reports its death.                      *)
Keeps(n, states) == \A r \in Roles : vol[authority.host][ns[n].alloc][r] \in states

ProcessGrounded(n) ==
    /\ ns[n].state # "none" => Launched(rec[ns[n].alloc])
    /\ ns[n].state = "live" =>
         /\ Keeps(n, Looped)
         /\ LET e == rec[ns[n].alloc].execution
            IN e = NoBinding \/ e.ns = n => Keeps(n, Mounted)

ExecutionSeen(a) ==
    rec[a].execution # NoBinding =>
      /\ ns[rec[a].execution.ns].state # "none"
      /\ rec[a].state \in {"Quiescent", "Released"}
           => ns[rec[a].execution.ns].state = "dead"

OpSeen(o) ==
    /\ op[o].pc # "idle" /\ op[o].kind = "bind_execution" => ns[op[o].ns].state # "none"
    /\ \/ op[o].pc # "idle" /\ op[o].kind = "quiescent_release"
       \/ op[o].pc = "quiescent_tx"
       => ns[op[o].ns].state = "dead"
    /\ op[o].pc = "bind_tx" => op[o].kind = "bind_execution"

Gone(a) ==
    rec[a].state = "Released" =>
      /\ \A h \in Hosts, r \in Roles : vol[h][a][r] = "absent"
      /\ retired[authority.host][a] = "yes"

ProcessInv ==
    /\ \A a \in granted : Launched(rec[a])
    /\ \A n \in Namespaces : ProcessGrounded(n)
    /\ \A a \in Allocs : ExecutionSeen(a) /\ Gone(a)
    /\ \A o \in Ops : OpSeen(o)

-----------------------------------------------------------------------------
(* How the updates of the model read, field by field and cell by cell. *)

OpRecords == [pc : Pcs, kind : Kinds \cup {"none"}, alloc : Allocs \cup {NoAlloc},
              ns : Namespaces \cup {NoNamespace}, view : Records, role : Roles]

StageResults == {"formatted", "attached", "mounted", "ready", "sealed"}

LEMMA StageReads ==
    /\ DOMAIN Stage = {"format", "attach", "mount", "chown", "seal", "umount", "detach"}
    /\ \A s \in DOMAIN Stage :
         /\ Stage[s].to \in StageResults
         /\ Stage[s].next \in {"attach", "mount", "chown", "provided", "seal_tx",
                               "detach", "remove"}
BY DEF Stage, StageResults

LEMMA PcsReads ==
    Pcs = {"idle", "bind", "reserve", "before", "lock", "own", "write_own", "image", "size",
           "format", "attach", "mount", "chown", "provided", "provisioned_tx", "seal",
           "seal_tx", "launch_tx", "bind_tx", "retain_tx", "quiescent_tx", "teardown",
           "mark", "dismantle", "umount", "detach", "remove", "release_tx", "helper"}
BY StageReads DEF Pcs

LEMMA Hosting ==
    ASSUME TypeOK, NEW o \in Ops
    PROVE  /\ Host(o) \in Hosts
           /\ Auth(o) \in Authorities
           /\ Auth(o).host = Host(o) /\ Auth(o).boot = boot[Host(o)]
           /\ op[o] \in OpRecords
           /\ op \in [Ops -> OpRecords]
BY ManagerAssumption DEF TypeOK, Host, Auth, Here, Authorities, OpRecords

LEMMA GotoReads ==
    ASSUME TypeOK, NEW o \in Ops, NEW p \in Pcs, Goto(o, p)
    PROVE  /\ op' \in [Ops -> OpRecords]
           /\ op'[o].pc = p
           /\ op'[o].kind = op[o].kind /\ op'[o].alloc = op[o].alloc
           /\ op'[o].ns = op[o].ns /\ op'[o].view = op[o].view
           /\ op'[o].role = op[o].role
           /\ \A q \in Ops : q # o => op'[q] = op[q]
BY Hosting DEF Goto, OpRecords

LEMMA SeeReads ==
    ASSUME TypeOK, NEW o \in Ops, NEW p \in Pcs, NEW r \in Records, See(o, p, r)
    PROVE  /\ op' \in [Ops -> OpRecords]
           /\ op'[o].pc = p /\ op'[o].view = r
           /\ op'[o].kind = op[o].kind /\ op'[o].alloc = op[o].alloc
           /\ op'[o].ns = op[o].ns /\ op'[o].role = op[o].role
           /\ \A q \in Ops : q # o => op'[q] = op[q]
BY Hosting DEF See, OpRecords

LEMMA IdleOpReads ==
    /\ IdleOp \in OpRecords
    /\ IdleOp.pc = "idle" /\ IdleOp.kind = "none" /\ IdleOp.alloc = NoAlloc
    /\ IdleOp.role = Inputs
BY ManagerAssumption DEF IdleOp, OpRecords, Pcs, Kinds, Records, AbsentRecord, Phases,
   Roles, Inputs

Requested(k, a, p)  == [IdleOp EXCEPT !.kind = k, !.alloc = a, !.pc = p]
RequestedOn(k, a, n) ==
    [IdleOp EXCEPT !.kind = k, !.alloc = a, !.pc = "before", !.ns = n]

LEMMA RequestedReads ==
    ASSUME NEW k \in Kinds, NEW a \in Allocs, NEW p \in {"bind", "before"}
    PROVE  /\ Requested(k, a, p) \in OpRecords
           /\ Requested(k, a, p).kind = k /\ Requested(k, a, p).alloc = a
           /\ Requested(k, a, p).pc = p /\ Requested(k, a, p).role = Inputs
BY ZenonT(60), IdleOpReads, PcsReads DEF OpRecords, Requested

LEMMA RequestedOnReads ==
    ASSUME NEW k \in Kinds, NEW a \in Allocs, NEW n \in Namespaces
    PROVE  /\ RequestedOn(k, a, n) \in OpRecords
           /\ RequestedOn(k, a, n).kind = k /\ RequestedOn(k, a, n).alloc = a
           /\ RequestedOn(k, a, n).pc = "before" /\ RequestedOn(k, a, n).role = Inputs
           /\ RequestedOn(k, a, n).ns = n
BY IdleOpReads, PcsReads DEF OpRecords, RequestedOn

\* What a request does to the operations.
LEMMA RequestReads ==
    ASSUME TypeOK, NEW o \in Ops, NEW k \in Kinds, NEW a \in Allocs, Request(o, k, a)
    PROVE  /\ op' \in [Ops -> OpRecords]
           /\ op'[o].kind = k /\ op'[o].alloc = a /\ op'[o].role = Inputs
           /\ op'[o].pc \in {"bind", "before"} /\ (op'[o].pc = "bind" => k = "provision")
           /\ k \notin {"bind_execution", "quiescent_release"}
           /\ op[o].pc = "idle"
           /\ \A q \in Ops : q # o => op'[q] = op[q]
<1> DEFINE p == IF k = "provision" THEN "bind" ELSE "before"
<1>1. op' = [op EXCEPT ![o] = Requested(k, a, p)]
  BY DEF Request, Requested
<1>2. p \in {"bind", "before"} /\ (p = "bind" => k = "provision")
  OBVIOUS
<1> HIDE DEF p
<1>3. op' \in [Ops -> OpRecords] /\ op'[o] = Requested(k, a, p)
      /\ \A q \in Ops : q # o => op'[q] = op[q]
  BY <1>1, <1>2, RequestedReads, Hosting
<1>4. op[o].pc = "idle" /\ k \notin {"bind_execution", "quiescent_release"}
  BY DEF Request
<1> QED
  BY <1>2, <1>3, <1>4, RequestedReads

LEMMA RequestOnReads ==
    ASSUME TypeInv, NEW o \in Ops, NEW k \in Kinds, NEW n \in Namespaces,
           RequestOnNamespace(o, k, n)
    PROVE  /\ op' \in [Ops -> OpRecords]
           /\ op'[o].kind = k /\ op'[o].alloc = ns[n].alloc /\ op'[o].role = Inputs
           /\ op'[o].pc = "before" /\ op'[o].ns = n
           /\ op[o].pc = "idle"
           /\ \A q \in Ops : q # o => op'[q] = op[q]
<1>0. ns[n].alloc \in Allocs
  BY DEF RequestOnNamespace, TypeInv
<1>1. op' = [op EXCEPT ![o] = RequestedOn(k, ns[n].alloc, n)]
  BY DEF RequestOnNamespace, RequestedOn
<1>2. op' \in [Ops -> OpRecords] /\ op'[o] = RequestedOn(k, ns[n].alloc, n)
      /\ \A q \in Ops : q # o => op'[q] = op[q]
  BY <1>0, <1>1, RequestedOnReads, Hosting DEF TypeInv
<1>3. op[o].pc = "idle"
  BY DEF RequestOnNamespace
<1> QED
  BY <1>0, <1>2, <1>3, RequestedOnReads

LEMMA UnlockedReads ==
    ASSUME TypeOK, NEW o \in Ops
    PROVE  /\ Unlocked(o) \in [Hosts -> [Allocs -> Ops \cup {Free, Guardian}]]
           /\ \A h \in Hosts, a \in Allocs :
                Unlocked(o)[h][a] = IF lock[h][a] = o THEN Free ELSE lock[h][a]
BY DEF TypeOK, Unlocked

LEMMA EndReads ==
    ASSUME TypeOK, NEW o \in Ops, End(o)
    PROVE  /\ op' \in [Ops -> OpRecords]
           /\ op'[o] = IdleOp
           /\ \A q \in Ops : q # o => op'[q] = op[q]
           /\ lock' \in [Hosts -> [Allocs -> Ops \cup {Free, Guardian}]]
           /\ \A h \in Hosts, a \in Allocs :
                lock'[h][a] = IF lock[h][a] = o THEN Free ELSE lock[h][a]
BY Hosting, IdleOpReads, UnlockedReads DEF End

\* The operation goes on to step p for the next role, or to q after the last.
Turns(o, p, q) == op' = [op EXCEPT ![o] = NextRole(o, p, q)]

LEMMA NextRoleReads ==
    ASSUME TypeOK, NEW o \in Ops, NEW p \in Pcs, NEW q \in Pcs, Turns(o, p, q)
    PROVE  /\ op' \in [Ops -> OpRecords]
           /\ op'[o].pc = IF op[o].role = Volumes THEN q ELSE p
           /\ op'[o].role = IF op[o].role = Volumes THEN Inputs ELSE op[o].role + 1
           /\ op'[o].kind = op[o].kind /\ op'[o].alloc = op[o].alloc
           /\ op'[o].ns = op[o].ns /\ op'[o].view = op[o].view
           /\ \A c \in Ops : c # o => op'[c] = op[c]
<1>1. op[o] \in OpRecords /\ op \in [Ops -> OpRecords]
  BY Hosting
<1>2. CASE op[o].role = Volumes
  <2>1. Inputs \in Roles
    BY ManagerAssumption DEF Roles, Inputs
  <2> QED
    BY <1>1, <1>2, <2>1 DEF Turns, NextRole, OpRecords
<1>3. CASE op[o].role # Volumes
  <2>1. op[o].role + 1 \in Roles
    BY <1>1, <1>3, ManagerAssumption DEF OpRecords, Roles
  <2> QED
    BY <1>1, <1>3, <2>1 DEF Turns, NextRole, OpRecords
<1> QED
  BY <1>2, <1>3

LEMMA SetVolReads ==
    ASSUME TypeOK, NEW o \in Ops, Alloc(o) \in Allocs, NEW v \in VolumeStates, SetVol(o, v)
    PROVE  /\ vol' \in [Hosts -> [Allocs -> [Roles -> VolumeStates]]]
           /\ \A h \in Hosts, a \in Allocs, r \in Roles :
                vol'[h][a][r] = IF h = Host(o) /\ a = Alloc(o) /\ r = op[o].role
                                THEN v ELSE vol[h][a][r]
<1>1. Host(o) \in Hosts /\ op[o].role \in Roles
  BY Hosting DEF OpRecords
<1> QED
  BY <1>1 DEF TypeOK, SetVol

LEMMA SetOwnReads ==
    ASSUME TypeOK, NEW o \in Ops, Alloc(o) \in Allocs, NEW v \in {"none", "torn", "ok"},
           SetOwn(o, v)
    PROVE  /\ own' \in [Hosts -> [Allocs -> {"none", "torn", "ok"}]]
           /\ \A h \in Hosts, a \in Allocs :
                own'[h][a] = IF h = Host(o) /\ a = Alloc(o) THEN v ELSE own[h][a]
BY Hosting DEF TypeOK, SetOwn

LEMMA SetRetiredReads ==
    ASSUME TypeOK, NEW o \in Ops, Alloc(o) \in Allocs, NEW v \in {"no", "torn", "yes"},
           SetRetired(o, v)
    PROVE  /\ retired' \in [Hosts -> [Allocs -> {"no", "torn", "yes"}]]
           /\ \A h \in Hosts, a \in Allocs :
                retired'[h][a] = IF h = Host(o) /\ a = Alloc(o) THEN v ELSE retired[h][a]
BY Hosting DEF TypeOK, SetRetired

LEMMA EffectReads ==
    ASSUME TypeOK, NEW h \in Hosts, NEW a \in Allocs, helper[h][a] # NoHelper
    PROVE  /\ helper[h][a].stage \in DOMAIN Stage /\ helper[h][a].role \in Roles
           /\ HelperEffect(h, a) \in [Hosts -> [Allocs -> [Roles -> VolumeStates]]]
           /\ \A g \in Hosts, c \in Allocs, r \in Roles :
                HelperEffect(h, a)[g][c][r] =
                  IF /\ g = h /\ c = a /\ r = helper[h][a].role
                     /\ ~(helper[h][a].stage = "detach" /\ UsersOf(a) # {})
                  THEN Stage[helper[h][a].stage].to ELSE vol[g][c][r]
<1>1. helper[h][a].stage \in DOMAIN Stage /\ helper[h][a].role \in Roles
  BY DEF TypeOK
<1>2. Stage[helper[h][a].stage].to \in VolumeStates
  BY <1>1, StageReads DEF VolumeStates, Looped, Mounted, StageResults
<1> QED
  BY <1>1, <1>2 DEF HelperEffect, TypeOK

\* What an admitted operation has checked, step by step.
LEMMA AdmittedReads ==
    ASSUME NEW o \in Ops, Admitted(o)
    PROVE  /\ op[o].pc = "bind" => CanBindPoolAuthority(Auth(o))
           /\ op[o].pc = "before" => Verified(o) /\ rec[Alloc(o)].state # "Absent"
           /\ op[o].pc = "own" => OwnershipHolds(o)
           /\ op[o].pc = "image" => Vol(o) # "unsized"
           /\ op[o].pc = "teardown" => MayTearDown(o, View(o))
           /\ op[o].pc = "dismantle" => Vol(o) # "unsized"
           /\ op[o].pc = "remove" => LoopsGone(o)
BY DEF Admitted, Stage

LEMMA RejectedReads ==
    ASSUME NEW o \in Ops, ~Admitted(o)
    PROVE  op[o].pc \notin {"idle", "helper", "write_own", "size", "provided", "mark"}
BY DEF Admitted, Stage

(* Where the re-read of the record leads. *)
LEMMA RereadReads ==
    ASSUME TypeInv, NEW o \in Ops, Reread(o)
    PROVE  /\ op[o].pc = "own" /\ OwnershipHolds(o) /\ Alloc(o) \in Allocs
           /\ \/ op[o].kind = "recover_and_release" /\ Fresh(o).state = "Released" /\ End(o)
              \/ /\ op' \in [Ops -> OpRecords]
                 /\ op'[o].pc = FirstStep(o, Fresh(o)) /\ op'[o].view = Fresh(o)
                 /\ op'[o].kind = op[o].kind /\ op'[o].alloc = op[o].alloc
                 /\ op'[o].role = op[o].role
                 /\ op'[o].ns = IF op[o].kind = "recover_and_release"
                                   /\ Fresh(o).execution # NoBinding
                                THEN Fresh(o).execution.ns ELSE op[o].ns
                 /\ op'[o].pc \in {"image", "seal", "launch_tx", "bind_tx", "retain_tx",
                                   "quiescent_tx", "teardown"}
                 /\ op'[o].pc = "bind_tx" => op[o].kind = "bind_execution"
                 /\ op'[o].pc = "quiescent_tx" =>
                      \/ op[o].kind = "quiescent_release"
                      \/ op[o].kind = "recover_and_release" /\ Fresh(o).execution # NoBinding
                 /\ op'[o].kind \in {"bind_execution", "quiescent_release"}
                      \/ op'[o].pc \in {"bind_tx", "quiescent_tx"} => op'[o].ns \in Namespaces
                 /\ \A q \in Ops : q # o => op'[q] = op[q]
                 /\ lock' = lock
<1>1. op[o].pc = "own" /\ OwnershipHolds(o)
  BY AdmittedReads DEF Reread, At
<1>2. Alloc(o) \in Allocs
  BY <1>1 DEF TypeInv, Alloc
<1>3. Fresh(o) \in Records
  BY <1>2 DEF Fresh, TypeInv, TypeOK, LedgerTypeOK
<1>4. CASE op[o].kind = "recover_and_release" /\ Fresh(o).state = "Released"
  BY <1>1, <1>2, <1>4 DEF Reread
<1>5. CASE ~(op[o].kind = "recover_and_release" /\ Fresh(o).state = "Released")
  <2> DEFINE n == IF op[o].kind = "recover_and_release" /\ Fresh(o).execution # NoBinding
                  THEN Fresh(o).execution.ns ELSE op[o].ns
             p == FirstStep(o, Fresh(o))
             w == Fresh(o)
  <2>1. op \in [Ops -> OpRecords] /\ op[o] \in OpRecords
    BY Hosting DEF TypeInv
  <2>2. op' = [op EXCEPT ![o].pc = p, ![o].view = w, ![o].ns = n] /\ lock' = lock
    BY <1>5, <2>1 DEF Reread, OpRecords
  <2>3. /\ p \in {"image", "seal", "launch_tx", "bind_tx", "retain_tx", "quiescent_tx",
                  "teardown"}
        /\ p = "bind_tx" => op[o].kind = "bind_execution"
        /\ p = "quiescent_tx" =>
             \/ op[o].kind = "quiescent_release"
             \/ op[o].kind = "recover_and_release" /\ Fresh(o).execution # NoBinding
    BY DEF FirstStep
  <2>4. Fresh(o).execution # NoBinding => Fresh(o).execution.ns \in Namespaces
    BY <1>3 DEF Records, Bindings
  <2>5. n \in Namespaces \cup {NoNamespace}
    BY <2>1, <2>4 DEF OpRecords
  <2>6. p = "bind_tx" \/ p = "quiescent_tx"
          \/ op[o].kind \in {"bind_execution", "quiescent_release"} => n \in Namespaces
    BY <1>1, <2>3, <2>4 DEF TypeInv
  <2> HIDE DEF n, p, w
  <2>7. p \in Pcs
    BY <2>3, PcsReads
  <2>8. w \in Records
    BY <1>3 DEF w
  <2>9. /\ op'[o] \in OpRecords /\ op'[o].pc = p /\ op'[o].ns = n /\ op'[o].view = w
        /\ op'[o].alloc = op[o].alloc /\ op'[o].kind = op[o].kind
        /\ op'[o].role = op[o].role
    BY <2>1, <2>2, <2>5, <2>7, <2>8 DEF OpRecords
  <2>10. op' \in [Ops -> OpRecords] /\ \A q \in Ops : q # o => op'[q] = op[q]
    BY <2>1, <2>2, <2>9
  <2> QED
    BY <1>1, <1>2, <2>2, <2>3, <2>6, <2>9, <2>10 DEF n, p, w
<1> QED
  BY <1>4, <1>5

-----------------------------------------------------------------------------
(* Every step of the manager is a transaction of the ledger or leaves it     *)
(* alone.                                                                    *)
LEMMA LedgerStep ==
    ASSUME TypeInv, [Next]_vars
    PROVE  [LedgerNext]_ledgerVars
<1> USE DEF TypeInv
<1>1. ASSUME NEW o \in Ops, BindPool(o)
      PROVE  LedgerNext
  BY <1>1, Hosting DEF BindPool, LedgerNext
<1>2. ASSUME NEW o \in Ops,
             \/ ReserveCapacity(o) \/ RecordLaunch(o) \/ RecordRetained(o)
      PROVE  LedgerNext
  BY <1>2 DEF ReserveCapacity, RecordLaunch, RecordRetained, At, Alloc, LedgerNext
<1>3. ASSUME NEW o \in Ops, RecordProvisioned(o) \/ RecordSeal(o) \/ RecordRelease(o)
      PROVE  LedgerNext
  BY <1>3, Hosting, ManagerAssumption
  DEF RecordProvisioned, RecordSeal, RecordRelease, At, Alloc, LedgerNext
<1>4. ASSUME NEW o \in Ops, RecordExecution(o)
      PROVE  LedgerNext
  <2>1. Carried(o) \in Bindings
    BY <1>4, Hosting DEF RecordExecution, At, Carried, Bindings
  <2> QED
    BY <1>4, <2>1, Hosting DEF RecordExecution, At, Alloc, LedgerNext
<1>5. ASSUME NEW o \in Ops, RecordQuiescent(o)
      PROVE  LedgerNext
  <2>1. Carried(o) \in Bindings
    BY <1>5, Hosting DEF RecordQuiescent, At, Carried, Bindings
  <2> QED
    BY <1>5, <2>1, Hosting DEF RecordQuiescent, At, Alloc, LedgerNext
<1>6. ASSUME NEW a \in Allocs, DeadlinePasses(a)
      PROVE  LedgerNext
  BY <1>6 DEF DeadlinePasses, LedgerNext
<1>7. ASSUME NEW o \in Ops,
             \/ ReadBefore(o) \/ CreateOwnership(o) \/ WriteOwnership(o) \/ Reread(o)
             \/ RunHelper(o) \/ SkipHelper(o)
             \/ CreateImage(o) \/ SizeImage(o) \/ RebuildImage(o) \/ KeepImage(o)
             \/ RoleProvided(o) \/ CreateMarker(o) \/ WriteMarker(o) \/ CheckMarker(o)
             \/ DismantleRole(o) \/ RemoveImage(o) \/ Reject(o)
             \/ AcquireLock(o) \/ Crash(o)
      PROVE  UNCHANGED ledgerVars
  BY <1>7 DEF ReadBefore, CreateOwnership, WriteOwnership, Reread, RunHelper, SkipHelper,
     CreateImage, SizeImage, RebuildImage, KeepImage, RoleProvided, CreateMarker,
     WriteMarker, CheckMarker, DismantleRole, RemoveImage, Reject, AcquireLock, Crash
<1>8. ASSUME NEW h \in Hosts, NEW a \in Allocs, HelperEnds(h, a)
      PROVE  UNCHANGED ledgerVars
  BY SMTT(60), <1>8 DEF HelperEnds, HelperSucceeds, HelperFails, OrphanEnds
<1>9. ASSUME NEW o \in Ops, NEW k \in Kinds,
             \/ \E a \in Allocs : Request(o, k, a)
             \/ \E n \in Namespaces : RequestOnNamespace(o, k, n)
      PROVE  UNCHANGED ledgerVars
  BY <1>9 DEF Request, RequestOnNamespace
<1>10. ASSUME \/ \E h \in Hosts : Reboot(h)
              \/ \E n \in Namespaces, a \in Allocs : Launch(n, a)
              \/ \E n \in Namespaces : CaptureNamespace(n) \/ NamespaceDies(n)
       PROVE  UNCHANGED ledgerVars
  BY <1>10 DEF Reboot, Launch, CaptureNamespace, NamespaceDies
<1>11. CASE UNCHANGED vars
  BY <1>11 DEF vars
<1> QED
  BY <1>1, <1>2, <1>3, <1>4, <1>5, <1>6, <1>7, <1>8, <1>9, <1>10, <1>11 DEF Next, Progress

-----------------------------------------------------------------------------
(* Types are kept. *)
OpTyped(q) ==
    /\ q \in OpRecords
    /\ q.pc # "idle" =>
         /\ q.alloc \in Allocs
         /\ q.kind \in {"bind_execution", "quiescent_release"}
              \/ q.pc \in {"bind_tx", "quiescent_tx"} => q.ns \in Namespaces

OpsTyped == op \in [Ops -> OpRecords] /\ \A o \in Ops : OpTyped(op[o])

LEMMA OpsTypedStep ==
    ASSUME TypeInv, LockInv, [Next]_vars
    PROVE  OpsTyped'
<1> USE DEF TypeInv
<1>0. OpsTyped
  BY Hosting DEF OpsTyped, OpTyped, TypeOK, OpRecords
<1>1. ASSUME NEW o \in Ops, NEW p \in Pcs, Goto(o, p), op[o].pc # "idle",
             p \notin {"bind_tx", "quiescent_tx"}
      PROVE  OpsTyped'
  BY <1>0, <1>1, GotoReads DEF OpsTyped, OpTyped
<1>2. ASSUME NEW o \in Ops, End(o)
      PROVE  OpsTyped'
  BY <1>0, <1>2, EndReads, IdleOpReads DEF OpsTyped, OpTyped
<1>3. ASSUME NEW o \in Ops,
             \/ BindPool(o) \/ ReserveCapacity(o) \/ AcquireLock(o)
             \/ CreateOwnership(o) \/ WriteOwnership(o)
             \/ CreateImage(o) \/ SizeImage(o) \/ RebuildImage(o) \/ KeepImage(o)
             \/ CreateMarker(o) \/ WriteMarker(o) \/ CheckMarker(o)
             \/ RunHelper(o) \/ SkipHelper(o)
      PROVE  OpsTyped'
  <2>1. CASE BindPool(o) \/ ReserveCapacity(o) \/ AcquireLock(o)
    BY <1>1, <2>1, PcsReads, StageReads DEF BindPool, ReserveCapacity, AcquireLock, At
  <2>2. CASE CreateOwnership(o) \/ WriteOwnership(o)
    BY <1>1, <2>2, PcsReads, StageReads DEF CreateOwnership, WriteOwnership, At
  <2>3. CASE CreateImage(o) \/ SizeImage(o) \/ RebuildImage(o) \/ KeepImage(o)
    BY <1>1, <2>3, PcsReads, StageReads
    DEF CreateImage, SizeImage, RebuildImage, KeepImage, At
  <2>4. CASE CreateMarker(o) \/ WriteMarker(o) \/ CheckMarker(o)
    BY <1>1, <2>4, PcsReads, StageReads
    DEF CreateMarker, WriteMarker, CheckMarker, At
  <2>5. CASE RunHelper(o) \/ SkipHelper(o)
    BY <1>1, <2>5, PcsReads, StageReads DEF RunHelper, SkipHelper, At
  <2> QED
    BY <1>3, <2>1, <2>2, <2>3, <2>4, <2>5
<1>4. ASSUME NEW o \in Ops, RoleProvided(o) \/ RemoveImage(o) \/ DismantleRole(o)
      PROVE  OpsTyped'
  <2>1. ASSUME NEW p \in Pcs, NEW q \in Pcs, Turns(o, p, q),
               op[o].pc # "idle", p \notin {"bind_tx", "quiescent_tx"},
               q \notin {"bind_tx", "quiescent_tx"}
        PROVE  OpsTyped'
    <3>1. op'[o].pc \in {p, q} /\ op'[o].alloc = op[o].alloc /\ op'[o].kind = op[o].kind
          /\ op'[o].ns = op[o].ns /\ op' \in [Ops -> OpRecords]
          /\ \A c \in Ops : c # o => op'[c] = op[c]
      BY <2>1, NextRoleReads
    <3> QED
      BY <1>0, <2>1, <3>1 DEF OpsTyped, OpTyped
  <2> QED
    BY <1>1, <1>4, <2>1, PcsReads DEF RoleProvided, RemoveImage, DismantleRole, Turns, At
<1>5. ASSUME NEW o \in Ops,
             \/ RecordProvisioned(o) \/ RecordSeal(o) \/ RecordLaunch(o)
             \/ RecordExecution(o) \/ RecordRetained(o) \/ RecordRelease(o) \/ Reject(o)
      PROVE  OpsTyped'
  BY <1>2, <1>5 DEF RecordProvisioned, RecordSeal, RecordLaunch, RecordExecution,
     RecordRetained, RecordRelease, Reject
<1>6. ASSUME NEW o \in Ops, ReadBefore(o)
      PROVE  OpsTyped'
  <2>1. rec[Alloc(o)] \in Records /\ op[o].pc = "before"
    BY <1>6 DEF ReadBefore, At, Alloc, TypeOK, LedgerTypeOK
  <2> QED
    BY <1>0, <1>6, <2>1, SeeReads, PcsReads DEF ReadBefore, OpsTyped, OpTyped
<1>7. ASSUME NEW o \in Ops, RecordQuiescent(o)
      PROVE  OpsTyped'
  <2>1. rec'[Alloc(o)] \in Records /\ op[o].pc = "quiescent_tx"
    BY <1>7, LedgerStep, LedgerTypeStep DEF RecordQuiescent, At, Alloc, TypeOK, LedgerTypeOK
  <2> QED
    BY <1>0, <1>7, <2>1, SeeReads, PcsReads DEF RecordQuiescent, OpsTyped, OpTyped
<1>8. ASSUME NEW o \in Ops, Reread(o)
      PROVE  OpsTyped'
  BY <1>0, <1>2, <1>8, RereadReads DEF OpsTyped, OpTyped
<1>9. ASSUME NEW o \in Ops, Crash(o)
      PROVE  OpsTyped'
  BY <1>0, <1>9, IdleOpReads DEF Crash, OpsTyped, OpTyped
<1>10. ASSUME NEW h \in Hosts, Reboot(h)
       PROVE  OpsTyped'
  BY <1>0, <1>10, IdleOpReads DEF Reboot, OpsTyped, OpTyped
<1>11. ASSUME NEW h \in Hosts, NEW a \in Allocs, HelperEnds(h, a)
       PROVE  OpsTyped'
  <2>1. CASE HelperSucceeds(h, a)
    <3>1. lock[h][a] \in Ops /\ helper[h][a].stage \in DOMAIN Stage
          /\ op[lock[h][a]].pc # "idle"
      BY <2>1, EffectReads DEF HelperSucceeds, LockInv, LockHasHolder, Holding, Early
    <3> DEFINE o == lock[h][a]
               p == Stage[helper[h][a].stage].next
    <3>2. Goto(o, p) /\ p \in Pcs /\ p \notin {"bind_tx", "quiescent_tx", "idle"}
      BY <2>1, <3>1, StageReads, PcsReads DEF HelperSucceeds, Goto
    <3>3. o \in Ops /\ op[o].pc # "idle"
      BY <3>1
    <3> HIDE DEF o, p
    <3> QED
      BY <1>1, <3>2, <3>3
  <2>2. CASE HelperFails(h, a)
    BY <1>2, <2>2 DEF HelperFails
  <2>3. CASE OrphanEnds(h, a)
    BY <1>0, <2>3 DEF OrphanEnds, OpsTyped
  <2> QED
    BY <1>11, <2>1, <2>2, <2>3 DEF HelperEnds
<1>12. ASSUME NEW o \in Ops, NEW k \in Kinds, NEW a \in Allocs, Request(o, k, a)
       PROVE  OpsTyped'
  BY <1>0, <1>12, RequestReads DEF OpsTyped, OpTyped
<1>13. ASSUME NEW o \in Ops, NEW k \in Kinds, NEW n \in Namespaces, RequestOnNamespace(o, k, n)
       PROVE  OpsTyped'
  <2>1. ns[n].alloc \in Allocs
    BY <1>13 DEF RequestOnNamespace
  <2> QED
    BY <1>0, <1>13, <2>1, RequestOnReads DEF OpsTyped, OpTyped
<1>14. CASE UNCHANGED op
  BY SMTT(60), <1>0, <1>14 DEF OpsTyped
<1> QED
  BY <1>3, <1>4, <1>5, <1>6, <1>7, <1>8, <1>9, <1>10, <1>11, <1>12, <1>13, <1>14
  DEF Next, Progress, Launch, CaptureNamespace, NamespaceDies, DeadlinePasses, vars

DisksTyped ==
    /\ lock \in [Hosts -> [Allocs -> Ops \cup {Free, Guardian}]]
    /\ helper \in [Hosts -> [Allocs -> [stage : DOMAIN Stage, role : Roles] \cup {NoHelper}]]
    /\ own \in [Hosts -> [Allocs -> {"none", "torn", "ok"}]]
    /\ retired \in [Hosts -> [Allocs -> {"no", "torn", "yes"}]]
    /\ vol \in [Hosts -> [Allocs -> [Roles -> VolumeStates]]]

LEMMA DisksTypedStep ==
    ASSUME TypeInv, LockInv, [Next]_vars
    PROVE  DisksTyped'
<1>0. DisksTyped /\ TypeOK
  BY DEF TypeInv, TypeOK, DisksTyped
<1>1. \A o \in Ops : op[o].pc # "idle" => Alloc(o) \in Allocs
  BY DEF TypeInv, Alloc
<1>2. ASSUME UNCHANGED <<helper, own, retired, vol>>,
             \/ UNCHANGED lock
             \/ \E o \in Ops : lock' = Unlocked(o)
             \/ \E o \in Ops : AcquireLock(o)
             \/ \E o \in Ops : Crash(o)
      PROVE  DisksTyped'
  <2>1. lock' \in [Hosts -> [Allocs -> Ops \cup {Free, Guardian}]]
    <3>1. ASSUME NEW o \in Ops, lock' = Unlocked(o)
          PROVE  lock' \in [Hosts -> [Allocs -> Ops \cup {Free, Guardian}]]
      BY <1>0, <3>1, UnlockedReads
    <3>2. ASSUME NEW o \in Ops, AcquireLock(o)
          PROVE  lock' \in [Hosts -> [Allocs -> Ops \cup {Free, Guardian}]]
      BY <1>0, <3>2 DEF AcquireLock, DisksTyped
    <3>3. ASSUME NEW o \in Ops, Crash(o)
          PROVE  lock' \in [Hosts -> [Allocs -> Ops \cup {Free, Guardian}]]
      BY <1>0, <3>1, <3>3 DEF Crash, DisksTyped
    <3> QED
      BY <1>0, <1>2, <3>1, <3>2, <3>3 DEF DisksTyped
  <2> QED
    BY <1>0, <1>2, <2>1 DEF DisksTyped
<1>3. ASSUME NEW o \in Ops,
             \/ BindPool(o) \/ ReserveCapacity(o) \/ ReadBefore(o) \/ AcquireLock(o)
             \/ Reread(o) \/ SkipHelper(o) \/ KeepImage(o) \/ RoleProvided(o)
             \/ RecordProvisioned(o) \/ RecordSeal(o) \/ RecordLaunch(o)
             \/ RecordExecution(o) \/ RecordRetained(o) \/ RecordQuiescent(o)
             \/ CheckMarker(o) \/ DismantleRole(o) \/ RecordRelease(o)
             \/ Reject(o) \/ Crash(o)
      PROVE  DisksTyped'
  <2>1. UNCHANGED <<helper, own, retired, vol>>
    BY <1>3 DEF BindPool, ReserveCapacity, ReadBefore, AcquireLock, Reread, SkipHelper,
       KeepImage, RoleProvided, RecordProvisioned, RecordSeal, RecordLaunch, RecordExecution,
       RecordRetained, RecordQuiescent, CheckMarker, DismantleRole, RecordRelease, Reject,
       Crash, diskVars
  <2>2. UNCHANGED lock \/ lock' = Unlocked(o) \/ AcquireLock(o) \/ Crash(o)
    BY <1>3 DEF BindPool, ReserveCapacity, ReadBefore, Reread, SkipHelper,
       KeepImage, RoleProvided, RecordProvisioned, RecordSeal, RecordLaunch, RecordExecution,
       RecordRetained, RecordQuiescent, CheckMarker, DismantleRole, RecordRelease, Reject, End
  <2> QED
    BY <1>2, <2>1, <2>2
<1>4. ASSUME NEW o \in Ops, CreateOwnership(o) \/ WriteOwnership(o)
      PROVE  DisksTyped'
  BY <1>0, <1>1, <1>4, SetOwnReads DEF CreateOwnership, WriteOwnership, At, DisksTyped
<1>5. ASSUME NEW o \in Ops, CreateMarker(o) \/ WriteMarker(o)
      PROVE  DisksTyped'
  BY <1>0, <1>1, <1>5, SetRetiredReads DEF CreateMarker, WriteMarker, At, DisksTyped
<1>6. ASSUME NEW o \in Ops,
             CreateImage(o) \/ SizeImage(o) \/ RebuildImage(o) \/ RemoveImage(o)
      PROVE  DisksTyped'
  <2>1. \E v \in {"unsized", "raw", "absent"} : SetVol(o, v)
    BY <1>6 DEF CreateImage, SizeImage, RebuildImage, RemoveImage
  <2>2. op[o].pc # "idle" /\ UNCHANGED <<lock, helper, own, retired>>
    BY <1>6 DEF CreateImage, SizeImage, RebuildImage, RemoveImage, At
  <2>3. vol' \in [Hosts -> [Allocs -> [Roles -> VolumeStates]]]
    BY <1>0, <1>1, <2>1, <2>2, SetVolReads DEF VolumeStates
  <2> QED
    BY <1>0, <2>2, <2>3 DEF DisksTyped
<1>7. ASSUME NEW o \in Ops, RunHelper(o)
      PROVE  DisksTyped'
  <2>1. [stage |-> op[o].pc, role |-> op[o].role] \in [stage : DOMAIN Stage, role : Roles]
    BY <1>0, <1>7, Hosting DEF RunHelper, OpRecords
  <2>2. helper' = [helper EXCEPT ![Host(o)][Alloc(o)] =
                     [stage |-> op[o].pc, role |-> op[o].role]]
        /\ UNCHANGED <<lock, own, retired, vol>>
    BY <1>7 DEF RunHelper, diskVars
  <2> QED
    BY <1>0, <2>1, <2>2 DEF DisksTyped
<1>8. ASSUME NEW h \in Hosts, NEW a \in Allocs, HelperEnds(h, a)
      PROVE  DisksTyped'
  <2>1. helper[h][a] # NoHelper /\ helper' = [helper EXCEPT ![h][a] = NoHelper]
        /\ vol' \in {vol, HelperEffect(h, a)} /\ UNCHANGED <<own, retired>>
    BY <1>8 DEF HelperEnds, HelperSucceeds, HelperFails, OrphanEnds
  <2>2. HelperEffect(h, a) \in [Hosts -> [Allocs -> [Roles -> VolumeStates]]]
    BY <1>0, <2>1, EffectReads
  <2>3. UNCHANGED lock \/ lock' = [lock EXCEPT ![h][a] = Free]
          \/ \E o \in Ops : lock' = Unlocked(o)
    BY <1>8 DEF HelperEnds, HelperSucceeds, HelperFails, OrphanEnds, End
  <2>4. lock' \in [Hosts -> [Allocs -> Ops \cup {Free, Guardian}]]
    <3>1. \A o \in Ops : Unlocked(o) \in [Hosts -> [Allocs -> Ops \cup {Free, Guardian}]]
      BY <1>0, UnlockedReads
    <3>2. [lock EXCEPT ![h][a] = Free] \in [Hosts -> [Allocs -> Ops \cup {Free, Guardian}]]
      BY <1>0 DEF DisksTyped
    <3>3. lock \in [Hosts -> [Allocs -> Ops \cup {Free, Guardian}]]
      BY <1>0 DEF DisksTyped
    <3> QED
      BY <2>3, <3>1, <3>2, <3>3, Zenon
  <2> QED
    BY <1>0, <2>1, <2>2, <2>4 DEF DisksTyped
<1>9. ASSUME NEW h \in Hosts, Reboot(h)
      PROVE  DisksTyped'
  <2>1. vol' \in [Hosts -> [Allocs -> [Roles -> VolumeStates]]]
    BY <1>0, <1>9 DEF Reboot, DisksTyped, VolumeStates
  <2>2. lock' \in [Hosts -> [Allocs -> Ops \cup {Free, Guardian}]]
    BY <1>0, <1>9 DEF Reboot, DisksTyped
  <2>3. helper' \in [Hosts -> [Allocs -> [stage : DOMAIN Stage, role : Roles] \cup {NoHelper}]]
    BY <1>0, <1>9 DEF Reboot, DisksTyped
  <2> QED
    BY <1>0, <1>9, <2>1, <2>2, <2>3 DEF Reboot, DisksTyped
<1>10. CASE UNCHANGED <<lock, helper, own, retired, vol>>
  BY <1>0, <1>10 DEF DisksTyped
<1> QED
  BY <1>3, <1>4, <1>5, <1>6, <1>7, <1>8, <1>9, <1>10
  DEF Next, Progress, Request, RequestOnNamespace, Launch, CaptureNamespace, NamespaceDies,
     DeadlinePasses, diskVars, vars

NsTyped(n) ==
    /\ ns[n] \in [state : {"none", "live", "dead"}, alloc : Allocs \cup {NoAlloc},
                  boot : Authorities \cup {NoAuthority}]
    /\ IF ns[n].state = "none" THEN ns[n].boot = NoAuthority ELSE ns[n].alloc \in Allocs

ProcessesTyped ==
    /\ ns \in [Namespaces -> [state : {"none", "live", "dead"}, alloc : Allocs \cup {NoAlloc},
                              boot : Authorities \cup {NoAuthority}]]
    /\ \A n \in Namespaces : NsTyped(n)
    /\ captured \subseteq Namespaces /\ \A n \in captured : ns[n].state # "none"
    /\ granted \subseteq Allocs
    /\ boot \in [Hosts -> 1..MaxBoot]
    /\ faults \in 0..MaxFaults

LEMMA ProcessesTypedStep ==
    ASSUME TypeInv, [Next]_vars
    PROVE  ProcessesTyped'
<1>0. ProcessesTyped /\ TypeOK
  BY DEF TypeInv, TypeOK, ProcessesTyped, NsTyped
<1>1. ASSUME NEW h \in Hosts, Reboot(h)
      PROVE  ProcessesTyped'
  <2>1. \A n \in Namespaces : ns[n].boot = Here(h) => ns[n].state # "none"
    BY <1>0, NullAssumption, ManagerAssumption
    DEF ProcessesTyped, NsTyped, Here, Authorities
  <2>2. ns' \in [Namespaces -> [state : {"none", "live", "dead"}, alloc : Allocs \cup {NoAlloc},
                               boot : Authorities \cup {NoAuthority}]]
        /\ \A n \in Namespaces : NsTyped(n)'
    BY <1>0, <1>1, <2>1 DEF Reboot, ProcessesTyped, NsTyped
  <2>3. captured' \subseteq Namespaces /\ \A n \in captured' : ns'[n].state # "none"
    BY <1>0, <1>1 DEF Reboot, ProcessesTyped
  <2>4. boot' \in [Hosts -> 1..MaxBoot]
    BY <1>0, <1>1, ManagerAssumption DEF Reboot, ProcessesTyped
  <2> QED
    BY <1>0, <1>1, <2>2, <2>3, <2>4 DEF Reboot, ProcessesTyped
<1>2. ASSUME NEW n \in Namespaces, NEW a \in Allocs, Launch(n, a)
      PROVE  ProcessesTyped'
  <2>1. authority \in Authorities
    BY <1>0, <1>2 DEF Launch, TypeOK, LedgerTypeOK
  <2> QED
    BY <1>0, <1>2, <2>1 DEF Launch, ProcessesTyped, NsTyped
<1>3. ASSUME NEW n \in Namespaces, CaptureNamespace(n)
      PROVE  ProcessesTyped'
  BY <1>0, <1>3 DEF CaptureNamespace, ProcessesTyped, NsTyped
<1>4. ASSUME NEW n \in Namespaces, NamespaceDies(n)
      PROVE  ProcessesTyped'
  BY <1>0, <1>4 DEF NamespaceDies, ProcessesTyped, NsTyped
<1>5. ASSUME NEW o \in Ops, RecordLaunch(o)
      PROVE  ProcessesTyped'
  <2>1. Alloc(o) \in Allocs
    BY <1>5 DEF RecordLaunch, At, TypeInv, Alloc
  <2> QED
    BY <1>0, <1>5, <2>1 DEF RecordLaunch, ProcessesTyped, NsTyped
<1>6. ASSUME UNCHANGED <<processVars, boot>>,
             (UNCHANGED faults) \/ (faults < MaxFaults /\ faults' = faults + 1)
      PROVE  ProcessesTyped'
  <2>1. faults' \in 0..MaxFaults
    BY <1>0, <1>6, ManagerAssumption DEF ProcessesTyped
  <2> QED
    BY <1>0, <1>6, <2>1 DEF ProcessesTyped, NsTyped, processVars
<1>7. ASSUME NEW o \in Ops,
             \/ BindPool(o) \/ ReserveCapacity(o) \/ ReadBefore(o) \/ AcquireLock(o)
             \/ CreateOwnership(o) \/ WriteOwnership(o) \/ Reread(o) \/ RunHelper(o)
             \/ SkipHelper(o) \/ CreateImage(o) \/ SizeImage(o) \/ RebuildImage(o)
             \/ KeepImage(o) \/ RoleProvided(o) \/ CreateMarker(o) \/ WriteMarker(o)
             \/ CheckMarker(o) \/ DismantleRole(o) \/ RemoveImage(o)
      PROVE  UNCHANGED <<processVars, boot, faults>>
  BY <1>7 DEF BindPool, ReserveCapacity, ReadBefore, AcquireLock, CreateOwnership,
     WriteOwnership, Reread, RunHelper, SkipHelper, CreateImage, SizeImage, RebuildImage,
     KeepImage, RoleProvided, CreateMarker, WriteMarker, CheckMarker, DismantleRole,
     RemoveImage
<1>8. ASSUME NEW o \in Ops,
             \/ RecordProvisioned(o) \/ RecordSeal(o) \/ RecordExecution(o)
             \/ RecordRetained(o) \/ RecordQuiescent(o) \/ RecordRelease(o) \/ Reject(o)
      PROVE  UNCHANGED <<processVars, boot, faults>>
  BY <1>8 DEF RecordProvisioned, RecordSeal, RecordExecution, RecordRetained,
     RecordQuiescent, RecordRelease, Reject
<1>9. ASSUME NEW o \in Ops, Crash(o)
      PROVE  ProcessesTyped'
  BY <1>6, <1>9 DEF Crash
<1>10. ASSUME NEW h \in Hosts, NEW a \in Allocs, HelperEnds(h, a)
       PROVE  ProcessesTyped'
  <2>1. CASE HelperSucceeds(h, a) \/ OrphanEnds(h, a)
    BY <1>6, <2>1 DEF HelperSucceeds, OrphanEnds
  <2>2. CASE HelperFails(h, a)
    BY <1>6, <2>2 DEF HelperFails
  <2> QED
    BY <1>10, <2>1, <2>2 DEF HelperEnds
<1>11. ASSUME NEW o \in Ops, NEW k \in Kinds,
              \/ \E a \in Allocs : Request(o, k, a)
              \/ \E n \in Namespaces : RequestOnNamespace(o, k, n)
       PROVE  UNCHANGED <<processVars, boot, faults>>
  BY <1>11 DEF Request, RequestOnNamespace
<1>12. ASSUME (\E a \in Allocs : DeadlinePasses(a)) \/ UNCHANGED vars
       PROVE  UNCHANGED <<processVars, boot, faults>>
  BY <1>12 DEF DeadlinePasses, vars
<1>13. ASSUME UNCHANGED <<processVars, boot, faults>>
       PROVE  ProcessesTyped'
  BY <1>6, <1>13 DEF processVars
<1> QED
  BY <1>1, <1>2, <1>3, <1>4, <1>5, <1>7, <1>8, <1>9, <1>10, <1>11, <1>12, <1>13
  DEF Next, Progress

LEMMA TypeStep ==
    ASSUME TypeInv, LockInv, [Next]_vars
    PROVE  TypeInv'
<1>1. LedgerTypeOK'
  BY LedgerStep, LedgerTypeStep DEF TypeInv, TypeOK
<1>2. TypeOK'
  BY <1>1, OpsTypedStep, DisksTypedStep, ProcessesTypedStep
  DEF TypeOK, OpsTyped, OpRecords, DisksTyped, ProcessesTyped
<1> QED
  BY <1>2, OpsTypedStep, ProcessesTypedStep
  DEF TypeInv, OpsTyped, OpTyped, ProcessesTyped, NsTyped

-----------------------------------------------------------------------------
(* The lock. *)

LEMMA RunHelperReads ==
    ASSUME TypeInv, NEW o \in Ops, RunHelper(o)
    PROVE  /\ op[o].pc \in DOMAIN Stage /\ Alloc(o) \in Allocs
           /\ Vol(o) \in Stage[op[o].pc].from
           /\ Goto(o, "helper")
           /\ helper'[Host(o)][Alloc(o)] # NoHelper
           /\ helper'[Host(o)][Alloc(o)].stage = op[o].pc
           /\ helper'[Host(o)][Alloc(o)].role = op[o].role
           /\ \A h \in Hosts, a \in Allocs :
                ~(h = Host(o) /\ a = Alloc(o)) => helper'[h][a] = helper[h][a]
<1>1. op[o].pc \in DOMAIN Stage /\ op[o].role \in Roles /\ Alloc(o) \in Allocs
  BY Hosting, StageReads DEF RunHelper, TypeInv, OpRecords, Alloc
<1> DEFINE u == [stage |-> op[o].pc, role |-> op[o].role]
<1>2. u # NoHelper /\ u.stage = op[o].pc /\ u.role = op[o].role
  BY <1>1, NoHelperAssumption
<1>3. helper' = [helper EXCEPT ![Host(o)][Alloc(o)] = u]
  BY DEF RunHelper
<1> HIDE DEF u
<1>4. \A h \in Hosts, a \in Allocs :
        helper'[h][a] = IF h = Host(o) /\ a = Alloc(o) THEN u ELSE helper[h][a]
  BY <1>1, <1>3, Hosting DEF TypeInv, TypeOK
<1>5. Goto(o, "helper") /\ Vol(o) \in Stage[op[o].pc].from
  BY DEF RunHelper
<1> QED
  BY <1>1, <1>2, <1>4, <1>5, Hosting DEF TypeInv

\* A utility ends for the operation that waits for it, well or badly, or
\* under its guardian.
LEMMA HelperEndsReads ==
    ASSUME TypeInv, LockInv, NEW h \in Hosts, NEW a \in Allocs, HelperEnds(h, a)
    PROVE  /\ helper[h][a] # NoHelper /\ helper'[h][a] = NoHelper
           /\ \A g \in Hosts, c \in Allocs :
                ~(g = h /\ c = a) => helper'[g][c] = helper[g][c]
           /\ vol' \in {vol, HelperEffect(h, a)}
           /\ \/ \E o \in Ops :
                   /\ lock[h][a] = o /\ op[o].pc = "helper" /\ Host(o) = h /\ Alloc(o) = a
                   /\ \/ /\ Goto(o, Stage[helper[h][a].stage].next) /\ lock' = lock
                         /\ vol' = HelperEffect(h, a)
                      \/ End(o)
              \/ /\ lock[h][a] = Guardian /\ op' = op /\ lock'[h][a] = Free
                 /\ \A g \in Hosts, c \in Allocs :
                      ~(g = h /\ c = a) => lock'[g][c] = lock[g][c]
<1>1. helper[h][a] # NoHelper /\ helper' = [helper EXCEPT ![h][a] = NoHelper]
      /\ vol' \in {vol, HelperEffect(h, a)}
  BY DEF HelperEnds, HelperSucceeds, HelperFails, OrphanEnds
<1>2. helper'[h][a] = NoHelper
      /\ \A g \in Hosts, c \in Allocs : ~(g = h /\ c = a) => helper'[g][c] = helper[g][c]
  BY <1>1 DEF TypeInv, TypeOK
<1>3. lock[h][a] \in Ops =>
        op[lock[h][a]].pc = "helper" /\ Host(lock[h][a]) = h /\ Alloc(lock[h][a]) = a
  BY <1>1, ManagerAssumption DEF LockInv, LockHasHolder, HelperHasLock, Alloc
<1>4. CASE HelperSucceeds(h, a)
  BY <1>1, <1>2, <1>3, <1>4 DEF HelperSucceeds, Goto
<1>5. CASE HelperFails(h, a)
  BY <1>1, <1>2, <1>3, <1>5 DEF HelperFails
<1>6. CASE OrphanEnds(h, a)
  <2>1. lock[h][a] = Guardian /\ op' = op /\ lock' = [lock EXCEPT ![h][a] = Free]
    BY <1>6 DEF OrphanEnds
  <2>2. lock'[h][a] = Free
        /\ \A g \in Hosts, c \in Allocs : ~(g = h /\ c = a) => lock'[g][c] = lock[g][c]
    BY <2>1 DEF TypeInv, TypeOK
  <2> QED
    BY <1>1, <1>2, <2>1, <2>2
<1> QED
  BY <1>4, <1>5, <1>6 DEF HelperEnds

LEMMA CrashReads ==
    ASSUME TypeInv, NEW o \in Ops, Crash(o)
    PROVE  /\ op[o].pc # "idle" /\ Alloc(o) \in Allocs /\ op'[o] = IdleOp
           /\ \A q \in Ops : q # o => op'[q] = op[q]
           /\ op[o].pc # "helper" => lock' = Unlocked(o)
           /\ op[o].pc = "helper" => \A h \in Hosts, a \in Allocs :
                lock'[h][a] = IF h = Host(o) /\ a = Alloc(o) THEN Guardian ELSE lock[h][a]
<1>1. op[o].pc # "idle" /\ Alloc(o) \in Allocs
  BY DEF Crash, TypeInv, Alloc
<1>2. op'[o] = IdleOp /\ \A q \in Ops : q # o => op'[q] = op[q]
  BY Hosting DEF Crash, TypeInv
<1> QED
  BY <1>1, <1>2, Hosting DEF Crash, TypeInv, TypeOK

LEMMA RebootReads ==
    ASSUME TypeInv, NEW h \in Hosts, Reboot(h)
    PROVE  /\ boot'[h] = boot[h] + 1
           /\ \A g \in Hosts : g # h => boot'[g] = boot[g]
           /\ \A o \in Ops : op'[o] = IF Host(o) = h THEN IdleOp ELSE op[o]
           /\ \A g \in Hosts, a \in Allocs :
                /\ lock'[g][a] = IF g = h THEN Free ELSE lock[g][a]
                /\ helper'[g][a] = IF g = h THEN NoHelper ELSE helper[g][a]
                /\ \A r \in Roles :
                     vol'[g][a][r] = IF g = h /\ vol[g][a][r] \in Looped
                                     THEN "formatted" ELSE vol[g][a][r]
           /\ \A n \in Namespaces :
                /\ ns'[n].alloc = ns[n].alloc /\ ns'[n].boot = ns[n].boot
                /\ ns'[n].state = IF ns[n].boot = Here(h) THEN "dead" ELSE ns[n].state
<1>1. \A n \in Namespaces : ns[n] \in [state : {"none", "live", "dead"},
        alloc : Allocs \cup {NoAlloc}, boot : Authorities \cup {NoAuthority}]
  BY DEF TypeInv, TypeOK
<1>2. ns' = [n \in Namespaces |-> IF ns[n].boot = Here(h)
                                    THEN [ns[n] EXCEPT !.state = "dead"] ELSE ns[n]]
  BY DEF Reboot
<1>3. \A n \in Namespaces :
        /\ ns'[n].alloc = ns[n].alloc /\ ns'[n].boot = ns[n].boot
        /\ ns'[n].state = IF ns[n].boot = Here(h) THEN "dead" ELSE ns[n].state
  BY <1>1, <1>2
<1>4. boot'[h] = boot[h] + 1 /\ \A g \in Hosts : g # h => boot'[g] = boot[g]
  BY DEF Reboot, TypeInv, TypeOK
<1>5. \A g \in Hosts, a \in Allocs :
        /\ lock'[g][a] = IF g = h THEN Free ELSE lock[g][a]
        /\ helper'[g][a] = IF g = h THEN NoHelper ELSE helper[g][a]
  BY DEF Reboot, TypeInv, TypeOK
<1>6. \A g \in Hosts, a \in Allocs, r \in Roles :
        vol'[g][a][r] = IF g = h /\ vol[g][a][r] \in Looped
                        THEN "formatted" ELSE vol[g][a][r]
  BY DEF Reboot, TypeInv, TypeOK
<1>7. \A o \in Ops : op'[o] = IF Host(o) = h THEN IdleOp ELSE op[o]
  BY DEF Reboot
<1> QED
  BY <1>3, <1>4, <1>5, <1>6, <1>7

\* An operation that neither takes nor drops its lock.
LEMMA LockKept ==
    ASSUME LockInv, UNCHANGED <<lock, helper>>, NEW o \in Ops,
           op'[o].alloc = op[o].alloc, op'[o].pc \in Holding <=> op[o].pc \in Holding,
           op[o].pc # "helper", op'[o].pc # "helper",
           \A q \in Ops : q # o => op'[q] = op[q]
    PROVE  LockInv'
BY DEF LockInv, HolderHasLock, WaiterHasHelper, LockHasHolder, HelperHasLock, Alloc

\* One that ends while no utility runs for it.
LEMMA LockDropped ==
    ASSUME TypeInv, LockInv, UNCHANGED helper, NEW o \in Ops,
           op[o].pc # "helper", op'[o] = IdleOp, \A q \in Ops : q # o => op'[q] = op[q],
           lock' = Unlocked(o)
    PROVE  LockInv'
<1>1. \A h \in Hosts, a \in Allocs :
        lock'[h][a] = IF lock[h][a] = o THEN Free ELSE lock[h][a]
  BY UnlockedReads DEF TypeInv
<1>2. \A q \in Ops : Host(q) \in Hosts /\ (op[q].pc \in Holding => Alloc(q) \in Allocs)
  BY Hosting DEF TypeInv, Holding, Early, Alloc
<1> QED
  BY <1>1, <1>2, IdleOpReads, ManagerAssumption
  DEF LockInv, HolderHasLock, WaiterHasHelper, LockHasHolder, HelperHasLock, Alloc, Holding, Early

LEMMA LockStep ==
    ASSUME TypeInv, LockInv, [Next]_vars
    PROVE  LockInv'
<1>0. \A q \in Ops : Host(q) \in Hosts /\ (op[q].pc \in Holding => Alloc(q) \in Allocs)
  BY Hosting DEF TypeInv, Holding, Early, Alloc
<1>1. ASSUME NEW o \in Ops, NEW p \in Pcs, Goto(o, p), UNCHANGED <<lock, helper>>,
             p \in Holding <=> op[o].pc \in Holding, op[o].pc # "helper", p # "helper"
      PROVE  LockInv'
  BY <1>1, GotoReads, LockKept DEF TypeInv
<1>2. ASSUME NEW o \in Ops, End(o), UNCHANGED helper, op[o].pc # "helper"
      PROVE  LockInv'
  BY <1>2, EndReads, LockDropped DEF TypeInv, End
<1>3. ASSUME NEW o \in Ops,
             \/ BindPool(o) \/ ReserveCapacity(o)
             \/ CreateOwnership(o) \/ WriteOwnership(o)
             \/ CreateImage(o) \/ SizeImage(o) \/ RebuildImage(o) \/ KeepImage(o)
             \/ CreateMarker(o) \/ WriteMarker(o) \/ CheckMarker(o) \/ SkipHelper(o)
      PROVE  LockInv'
  <2>1. CASE BindPool(o) \/ ReserveCapacity(o)
    BY SMTT(60), <1>1, <2>1, PcsReads, StageReads DEF BindPool, ReserveCapacity, At, Holding, Early
  <2>2. CASE CreateOwnership(o) \/ WriteOwnership(o)
    BY SMTT(60), <1>1, <2>2, PcsReads, StageReads DEF CreateOwnership, WriteOwnership, At, Holding, Early
  <2>3. CASE CreateImage(o) \/ SizeImage(o) \/ RebuildImage(o) \/ KeepImage(o)
    BY SMTT(60), <1>1, <2>3, PcsReads, StageReads
    DEF CreateImage, SizeImage, RebuildImage, KeepImage, At, Holding, Early
  <2>4. CASE CreateMarker(o) \/ WriteMarker(o) \/ CheckMarker(o)
    BY SMTT(60), <1>1, <2>4, PcsReads, StageReads
    DEF CreateMarker, WriteMarker, CheckMarker, At, Holding, Early
  <2>5. CASE SkipHelper(o)
    BY SMTT(60), <1>1, <2>5, PcsReads, StageReads DEF SkipHelper, At, Holding, Early
  <2> QED
    BY <1>3, <2>1, <2>2, <2>3, <2>4, <2>5
<1>4. ASSUME NEW o \in Ops, RoleProvided(o) \/ RemoveImage(o) \/ DismantleRole(o)
      PROVE  LockInv'
  <2>1. ASSUME NEW p \in Pcs, NEW q \in Pcs, Turns(o, p, q),
               {op[o].pc, p, q} \subseteq Holding \ {"helper"}, UNCHANGED <<lock, helper>>
        PROVE  LockInv'
    <3>1. op'[o].pc \in Holding \ {"helper"} /\ op'[o].alloc = op[o].alloc
          /\ \A c \in Ops : c # o => op'[c] = op[c]
      BY <2>1, NextRoleReads DEF TypeInv
    <3> QED
      BY <2>1, <3>1, LockKept
  <2> QED
    BY ZenonT(60), <1>1, <1>4, <2>1, PcsReads
    DEF RoleProvided, RemoveImage, DismantleRole, Turns, At, Holding, Early
<1>5. ASSUME NEW o \in Ops,
             \/ RecordProvisioned(o) \/ RecordSeal(o) \/ RecordLaunch(o)
             \/ RecordExecution(o) \/ RecordRetained(o) \/ RecordRelease(o) \/ Reject(o)
      PROVE  LockInv'
  BY <1>2, <1>5, RejectedReads DEF RecordProvisioned, RecordSeal, RecordLaunch,
     RecordExecution, RecordRetained, RecordRelease, Reject, At
<1>6. ASSUME NEW o \in Ops, ReadBefore(o)
      PROVE  LockInv'
  <2>1. rec[Alloc(o)] \in Records /\ op[o].pc = "before"
    BY <1>6 DEF ReadBefore, At, Alloc, TypeInv, TypeOK, LedgerTypeOK
  <2>2. op'[o].pc = "lock" /\ op'[o].alloc = op[o].alloc
        /\ \A q \in Ops : q # o => op'[q] = op[q]
    BY <1>6, <2>1, SeeReads, PcsReads DEF ReadBefore, TypeInv
  <2> QED
    BY <1>6, <2>1, <2>2, LockKept DEF ReadBefore, Holding, Early
<1>7. ASSUME NEW o \in Ops, RecordQuiescent(o)
      PROVE  LockInv'
  <2>1. rec'[Alloc(o)] \in Records /\ op[o].pc = "quiescent_tx"
    BY <1>7, LedgerStep, LedgerTypeStep
    DEF RecordQuiescent, At, Alloc, TypeInv, TypeOK, LedgerTypeOK
  <2>2. op'[o].pc = "teardown" /\ op'[o].alloc = op[o].alloc
        /\ \A q \in Ops : q # o => op'[q] = op[q]
    BY <1>7, <2>1, SeeReads, PcsReads DEF RecordQuiescent, TypeInv
  <2> QED
    BY <1>7, <2>1, <2>2, LockKept, PcsReads DEF RecordQuiescent, Holding, Early
<1>8. ASSUME NEW o \in Ops, Reread(o)
      PROVE  LockInv'
  <2>1. op[o].pc = "own" /\ UNCHANGED helper
    BY <1>8 DEF Reread, At
  <2>2. CASE End(o)
    BY <1>2, <2>1, <2>2
  <2>3. CASE ~End(o)
    <3>1. op'[o].pc \in {"image", "seal", "launch_tx", "bind_tx", "retain_tx",
                         "quiescent_tx", "teardown"}
          /\ op'[o].alloc = op[o].alloc /\ lock' = lock
          /\ \A q \in Ops : q # o => op'[q] = op[q]
      BY <1>8, <2>3, RereadReads
    <3> QED
      BY <2>1, <3>1, LockKept, PcsReads DEF Holding, Early
  <2> QED
    BY <2>2, <2>3
<1>9. ASSUME NEW o \in Ops, AcquireLock(o)
      PROVE  LockInv'
  <2>1. op[o].pc = "lock" /\ Alloc(o) \in Allocs /\ Host(o) \in Hosts
    BY <1>9, Hosting DEF AcquireLock, At, TypeInv, Alloc
  <2>2. op'[o].pc = "own" /\ op'[o].alloc = op[o].alloc
        /\ \A q \in Ops : q # o => op'[q] = op[q]
    BY <1>9, GotoReads, PcsReads DEF AcquireLock, TypeInv
  <2>3. \A h \in Hosts, a \in Allocs :
          lock'[h][a] = IF h = Host(o) /\ a = Alloc(o) THEN o ELSE lock[h][a]
    BY <1>9, <2>1 DEF AcquireLock, TypeInv, TypeOK
  <2>4. lock[Host(o)][Alloc(o)] = Free /\ UNCHANGED helper
    BY <1>9 DEF AcquireLock
  <2>5. \A q \in Ops : Host(q) \in Hosts /\ (op[q].pc \in Holding => Alloc(q) \in Allocs)
    BY Hosting DEF TypeInv, Holding, Early, Alloc
  <2>6. "own" \in Holding
    BY PcsReads DEF Holding, Early
  <2> QED
    BY <2>1, <2>2, <2>3, <2>4, <2>5, <2>6, ManagerAssumption
    DEF LockInv, HolderHasLock, WaiterHasHelper, LockHasHolder, HelperHasLock, Alloc
<1>10. ASSUME NEW o \in Ops, RunHelper(o)
       PROVE  LockInv'
  <2>1. op'[o].pc = "helper" /\ op'[o].alloc = op[o].alloc /\ op'[o].role = op[o].role
        /\ \A q \in Ops : q # o => op'[q] = op[q]
    BY <1>10, RunHelperReads, GotoReads, PcsReads DEF TypeInv
  <2>2. op[o].pc \in Holding \ {"helper"} /\ "helper" \in Holding /\ UNCHANGED lock
    BY <1>10, RunHelperReads, StageReads, PcsReads DEF Holding, Early, RunHelper
  <2> QED
    BY SMTT(60), <1>10, <2>1, <2>2, RunHelperReads, <1>0
    DEF LockInv, HolderHasLock, WaiterHasHelper, LockHasHolder, HelperHasLock, Alloc
<1>11. ASSUME NEW h \in Hosts, NEW a \in Allocs, HelperEnds(h, a)
       PROVE  LockInv'
  <2>0. /\ helper[h][a] # NoHelper /\ helper'[h][a] = NoHelper
        /\ \A g \in Hosts, c \in Allocs :
             ~(g = h /\ c = a) => helper'[g][c] = helper[g][c]
    BY <1>11, HelperEndsReads
  <2>1. CASE lock[h][a] = Guardian
    <3>1. /\ op' = op /\ lock'[h][a] = Free
          /\ \A g \in Hosts, c \in Allocs :
               ~(g = h /\ c = a) => lock'[g][c] = lock[g][c]
      BY <1>11, <2>1, HelperEndsReads, ManagerAssumption
    <3>2. \A o \in Ops : HolderHasLock(o)'
      BY SMTT(60), <1>0, <2>1, <3>1, ManagerAssumption DEF LockInv, HolderHasLock, Alloc
    <3>3. \A o \in Ops : WaiterHasHelper(o)'
      <4>1. \A o \in Ops : op[o].pc = "helper" => ~(Host(o) = h /\ op[o].alloc = a)
        BY <2>1, ManagerAssumption, PcsReads DEF LockInv, HolderHasLock, Holding, Early
      <4> QED
        BY <1>0, <2>0, <3>1, <4>1, PcsReads DEF LockInv, WaiterHasHelper, Alloc, Holding, Early
    <3>4. \A g \in Hosts, c \in Allocs : LockHasHolder(g, c)'
      BY <3>1, ManagerAssumption DEF LockInv, LockHasHolder
    <3>5. \A g \in Hosts, c \in Allocs : HelperHasLock(g, c)'
      BY <2>0, <3>1, ManagerAssumption DEF LockInv, HelperHasLock
    <3> QED
      BY <3>2, <3>3, <3>4, <3>5 DEF LockInv
  <2>2. ASSUME NEW o \in Ops, lock[h][a] = o, op[o].pc = "helper", Host(o) = h, Alloc(o) = a,
               Goto(o, Stage[helper[h][a].stage].next), lock' = lock
        PROVE  LockInv'
    <3>1. Stage[helper[h][a].stage].next \in Holding \ {"helper"}
      BY SMTT(60), <2>0, EffectReads, StageReads, PcsReads DEF TypeInv, Holding, Early
    <3>2. op'[o].pc \in Holding \ {"helper"} /\ op'[o].alloc = a
          /\ \A q \in Ops : q # o => op'[q] = op[q]
      BY <2>2, <3>1, GotoReads DEF TypeInv, Alloc, Holding
    <3>3. \A q \in Ops : q # o /\ op[q].pc \in Holding => ~(Host(q) = h /\ op[q].alloc = a)
      BY <2>2 DEF LockInv, HolderHasLock
    <3>4. \A q \in Ops : HolderHasLock(q)'
      BY <2>2, <3>2 DEF LockInv, HolderHasLock
    <3>5. \A q \in Ops : WaiterHasHelper(q)'
      BY <1>0, <2>0, <3>2, <3>3, PcsReads DEF LockInv, WaiterHasHelper, Alloc, Holding, Early
    <3>6. \A g \in Hosts, c \in Allocs : LockHasHolder(g, c)'
      BY <2>2, <3>2 DEF LockInv, LockHasHolder
    <3>7. \A g \in Hosts, c \in Allocs : HelperHasLock(g, c)'
      BY <2>0, <2>2, <3>2, ManagerAssumption DEF LockInv, LockHasHolder, HelperHasLock
    <3> QED
      BY <3>4, <3>5, <3>6, <3>7 DEF LockInv
  <2>3. ASSUME NEW o \in Ops, lock[h][a] = o, op[o].pc = "helper", Host(o) = h, Alloc(o) = a,
               End(o)
        PROVE  LockInv'
    <3>1. op'[o] = IdleOp /\ \A q \in Ops : q # o => op'[q] = op[q]
      BY <2>3, EndReads DEF TypeInv
    <3>2. \A g \in Hosts, c \in Allocs :
            lock'[g][c] = IF lock[g][c] = o THEN Free ELSE lock[g][c]
      BY <2>3, EndReads DEF TypeInv
    <3>3. IdleOp.pc \notin Holding /\ IdleOp.pc # "helper"
      BY IdleOpReads, PcsReads DEF Holding, Early
    <3>4. \A q \in Ops : q # o /\ op[q].pc \in Holding => ~(Host(q) = h /\ op[q].alloc = a)
      BY <2>3 DEF LockInv, HolderHasLock
    <3>5. \A q \in Ops : HolderHasLock(q)'
      BY <1>0, <3>1, <3>2, <3>3 DEF LockInv, HolderHasLock, Alloc
    <3>6. \A q \in Ops : WaiterHasHelper(q)'
      BY <1>0, <2>0, <3>1, <3>3, <3>4, PcsReads
      DEF LockInv, WaiterHasHelper, Alloc, Holding, Early
    <3>7. \A g \in Hosts, c \in Allocs : LockHasHolder(g, c)'
      BY <3>1, <3>2, ManagerAssumption DEF LockInv, LockHasHolder
    <3>8. \A g \in Hosts, c \in Allocs : HelperHasLock(g, c)'
      BY <2>0, <2>3, <3>1, <3>2, ManagerAssumption DEF LockInv, LockHasHolder, HelperHasLock, Alloc
    <3> QED
      BY <3>5, <3>6, <3>7, <3>8 DEF LockInv
  <2> QED
    BY <1>11, <2>1, <2>2, <2>3, HelperEndsReads
<1>12. ASSUME NEW o \in Ops, Crash(o)
       PROVE  LockInv'
  <2>1. UNCHANGED helper
    BY <1>12 DEF Crash
  <2>2. CASE op[o].pc # "helper"
    BY <1>12, <2>1, <2>2, CrashReads, LockDropped
  <2>3. CASE op[o].pc = "helper"
    <3>1. IdleOp.pc \notin Holding /\ IdleOp.pc # "helper"
      BY IdleOpReads, PcsReads DEF Holding, Early
    <3> QED
      BY <1>0, <1>12, <2>1, <2>3, <3>1, CrashReads, ManagerAssumption
      DEF LockInv, HolderHasLock, WaiterHasHelper, LockHasHolder, HelperHasLock, Alloc
  <2> QED
    BY <2>2, <2>3
<1>13. ASSUME NEW h \in Hosts, Reboot(h)
       PROVE  LockInv'
  <2>1. IdleOp.pc \notin Holding /\ IdleOp.pc # "helper"
    BY IdleOpReads, PcsReads DEF Holding, Early
  <2>2. \A o \in Ops : op'[o] = IF Host(o) = h THEN IdleOp ELSE op[o]
    BY <1>13, RebootReads
  <2>3. \A g \in Hosts, a \in Allocs :
          /\ lock'[g][a] = IF g = h THEN Free ELSE lock[g][a]
          /\ helper'[g][a] = IF g = h THEN NoHelper ELSE helper[g][a]
    BY <1>13, RebootReads
  <2>4. \A o \in Ops : HolderHasLock(o)' /\ WaiterHasHelper(o)'
    BY <1>0, <2>1, <2>2, <2>3, PcsReads
    DEF LockInv, HolderHasLock, WaiterHasHelper, Alloc, Holding, Early
  <2>5. \A g \in Hosts, a \in Allocs : LockHasHolder(g, a)' /\ HelperHasLock(g, a)'
    BY <2>1, <2>2, <2>3, ManagerAssumption DEF LockInv, LockHasHolder, HelperHasLock
  <2> QED
    BY <2>4, <2>5 DEF LockInv
<1>14. ASSUME NEW o \in Ops, NEW k \in Kinds,
              \/ \E a \in Allocs : Request(o, k, a)
              \/ \E n \in Namespaces : RequestOnNamespace(o, k, n)
       PROVE  LockInv'
  <2>1. op[o].pc = "idle" /\ op'[o].pc \in {"bind", "before"}
        /\ \A q \in Ops : q # o => op'[q] = op[q]
    BY <1>14, RequestReads, RequestOnReads DEF TypeInv
  <2>2. UNCHANGED <<lock, helper>>
    BY <1>14 DEF Request, RequestOnNamespace
  <2> QED
    BY <2>1, <2>2, ManagerAssumption
    DEF LockInv, HolderHasLock, WaiterHasHelper, LockHasHolder, HelperHasLock, Alloc, Holding, Early
<1>15. CASE UNCHANGED <<op, lock, helper>>
  BY <1>15 DEF LockInv, HolderHasLock, WaiterHasHelper, LockHasHolder, HelperHasLock, Alloc
<1> QED
  BY <1>3, <1>4, <1>5, <1>6, <1>7, <1>8, <1>9, <1>10, <1>11, <1>12, <1>13, <1>14, <1>15
  DEF Next, Progress, Launch, CaptureNamespace, NamespaceDies, DeadlinePasses, vars

-----------------------------------------------------------------------------
(* Who touches what. *)
DiskKept(h, a) ==
    /\ own'[h][a] = own[h][a] /\ retired'[h][a] = retired[h][a]
    /\ helper'[h][a] = helper[h][a]
    /\ \A r \in Roles : vol'[h][a][r] = vol[h][a][r]

DisksKept == \A h \in Hosts, a \in Allocs : DiskKept(h, a)

\* The steps at which an operation changes no storage and no record.
Passive == {"bind", "before", "lock", "helper"}

Steps(o) == Progress(o) \/ AcquireLock(o) \/ Crash(o)

\* A transaction on one row leaves the other rows alone.
LEMMA RowTouched ==
    ASSUME TypeInv, NEW o \in Ops, Alloc(o) \in Allocs,
           \/ ReserveCapacity(o) \/ RecordProvisioned(o) \/ RecordSeal(o) \/ RecordLaunch(o)
           \/ RecordExecution(o) \/ RecordRetained(o) \/ RecordQuiescent(o)
           \/ RecordRelease(o)
    PROVE  \A a \in Allocs : a # Alloc(o) => rec'[a] = rec[a]
<1>1. ASSUME NEW r, Save(Alloc(o), r)
      PROVE  \A a \in Allocs : a # Alloc(o) => rec'[a] = rec[a]
  BY <1>1 DEF Save, TypeInv, TypeOK, LedgerTypeOK
<1>2. CASE ReserveCapacity(o)
  BY <1>1, <1>2 DEF ReserveCapacity, Reserve, ledgerVars
<1>3. CASE RecordProvisioned(o) \/ RecordSeal(o) \/ RecordLaunch(o)
  BY <1>1, <1>3 DEF RecordProvisioned, RecordSeal, RecordLaunch, Provisioned, SealInputs,
     BeginLaunch
<1>4. CASE RecordExecution(o) \/ RecordRetained(o) \/ RecordQuiescent(o)
  BY <1>1, <1>4 DEF RecordExecution, RecordRetained, RecordQuiescent, BindExecution, Retain,
     Quiescent
<1>5. CASE RecordRelease(o)
  BY <1>1, <1>5 DEF RecordRelease, Release, ledgerVars
<1> QED
  BY <1>2, <1>3, <1>4, <1>5

LEMMA DisksUntouched ==
    ASSUME UNCHANGED <<helper, diskVars>>
    PROVE  DisksKept
BY DEF DisksKept, DiskKept, diskVars

\* An operation touches nothing but the storage and the record of its own
\* allocation, and these only under the lock or to reserve.
LEMMA OperationTouches ==
    ASSUME TypeInv, NEW o \in Ops, Steps(o)
    PROVE  /\ op[o].pc # "idle" /\ Alloc(o) \in Allocs
           /\ \A q \in Ops : q # o => op'[q] = op[q]
           /\ \A h \in Hosts, a \in Allocs :
                h # Host(o) \/ a # Alloc(o) \/ op[o].pc \in Early \cup {"helper"}
                  => DiskKept(h, a)
           /\ \A a \in Allocs :
                a # Alloc(o) \/ op[o].pc \in Passive => rec'[a] = rec[a]
           /\ op[o].pc = "reserve" /\ rec[Alloc(o)].state # "Absent" => rec' = rec
           /\ op[o].pc # "bind" => authority' = authority
           /\ UNCHANGED <<boot, ns, captured>>
<1> DEFINE Good == /\ op[o].pc # "idle" /\ Alloc(o) \in Allocs
                   /\ \A q \in Ops : q # o => op'[q] = op[q]
                   /\ \A h \in Hosts, a \in Allocs :
                        h # Host(o) \/ a # Alloc(o) \/ op[o].pc \in Early \cup {"helper"}
                          => DiskKept(h, a)
                   /\ \A a \in Allocs :
                        a # Alloc(o) \/ op[o].pc \in Passive => rec'[a] = rec[a]
                   /\ op[o].pc = "reserve" /\ rec[Alloc(o)].state # "Absent" => rec' = rec
                   /\ op[o].pc # "bind" => authority' = authority
                   /\ UNCHANGED <<boot, ns, captured>>
<1>0. TypeOK /\ (op[o].pc # "idle" => Alloc(o) \in Allocs)
  BY DEF TypeInv, Alloc
<1>1. ASSUME NEW p \in Pcs, Goto(o, p)
      PROVE  \A q \in Ops : q # o => op'[q] = op[q]
  BY <1>0, <1>1, GotoReads
<1>2. ASSUME End(o)
      PROVE  \A q \in Ops : q # o => op'[q] = op[q]
  BY <1>0, <1>2, EndReads
<1>3. CASE \/ BindPool(o) \/ AcquireLock(o) \/ SkipHelper(o) \/ KeepImage(o)
           \/ CheckMarker(o)
  <2>1. op[o].pc # "idle" /\ UNCHANGED <<rec, helper, diskVars, processVars, boot>>
        /\ (op[o].pc # "bind" => authority' = authority)
    BY <1>3, StageReads DEF BindPool, AcquireLock, SkipHelper, KeepImage, CheckMarker, At,
       BindPoolAuthority, ledgerVars
  <2>2. \E p \in Pcs : Goto(o, p)
    BY <1>3, StageReads, PcsReads DEF BindPool, AcquireLock, SkipHelper, KeepImage,
       CheckMarker
  <2> QED
    BY <1>0, <1>1, <2>1, <2>2, DisksUntouched DEF DisksKept, processVars
<1>4. CASE ReadBefore(o) \/ RoleProvided(o) \/ DismantleRole(o)
  <2>1. op[o].pc # "idle" /\ UNCHANGED <<ledgerVars, helper, diskVars, processVars, boot>>
    BY <1>4 DEF ReadBefore, RoleProvided, DismantleRole, At
  <2>2. \A q \in Ops : q # o => op'[q] = op[q]
    BY <1>0, <1>1, <1>4, PcsReads, Hosting DEF ReadBefore, RoleProvided, DismantleRole, See
  <2> QED
    BY <1>0, <2>1, <2>2, DisksUntouched DEF DisksKept, processVars, ledgerVars
<1>5. CASE Reread(o) \/ Reject(o) \/ Crash(o)
  <2>1. UNCHANGED <<ledgerVars, helper, diskVars, processVars, boot>>
    BY <1>5 DEF Reread, Reject, Crash
  <2>2. op[o].pc # "idle"
    BY <1>5, RejectedReads DEF Reread, Reject, Crash, At
  <2>3. \A q \in Ops : q # o => op'[q] = op[q]
    BY <1>2, <1>5, RereadReads, CrashReads DEF Reject
  <2> QED
    BY <1>0, <2>1, <2>2, <2>3, DisksUntouched DEF DisksKept, processVars, ledgerVars
<1>6. CASE CreateOwnership(o) \/ WriteOwnership(o) \/ CreateMarker(o) \/ WriteMarker(o)
  <2>1. /\ op[o].pc \in {"own", "write_own", "teardown", "mark"}
        /\ UNCHANGED <<ledgerVars, helper, vol, processVars, boot>>
    BY <1>6 DEF CreateOwnership, WriteOwnership, CreateMarker, WriteMarker, At
  <2>2. \A q \in Ops : q # o => op'[q] = op[q]
    BY <1>1, <1>6, PcsReads DEF CreateOwnership, WriteOwnership, CreateMarker, WriteMarker
  <2>3. \A h \in Hosts, a \in Allocs : h # Host(o) \/ a # Alloc(o) =>
          own'[h][a] = own[h][a] /\ retired'[h][a] = retired[h][a]
    BY <1>0, <1>6, <2>1, SetOwnReads, SetRetiredReads
    DEF CreateOwnership, WriteOwnership, CreateMarker, WriteMarker
  <2> QED
    BY <1>0, <2>1, <2>2, <2>3 DEF DiskKept, processVars, ledgerVars, Early
<1>7. CASE CreateImage(o) \/ SizeImage(o) \/ RebuildImage(o) \/ RemoveImage(o)
  <2>1. /\ op[o].pc \in {"image", "size", "remove"}
        /\ UNCHANGED <<ledgerVars, helper, own, retired, processVars, boot>>
    BY <1>7 DEF CreateImage, SizeImage, RebuildImage, RemoveImage, At
  <2>2. \A q \in Ops : q # o => op'[q] = op[q]
    BY <1>0, <1>1, <1>7, PcsReads, Hosting
    DEF CreateImage, SizeImage, RebuildImage, RemoveImage
  <2>3. \E v \in {"unsized", "raw", "absent"} : SetVol(o, v)
    BY <1>7 DEF CreateImage, SizeImage, RebuildImage, RemoveImage
  <2>4. \A h \in Hosts, a \in Allocs, r \in Roles : h # Host(o) \/ a # Alloc(o) =>
          vol'[h][a][r] = vol[h][a][r]
    BY <1>0, <2>1, <2>3, SetVolReads DEF VolumeStates
  <2> QED
    BY <1>0, <2>1, <2>2, <2>4 DEF DiskKept, processVars, ledgerVars, Early
<1>8. CASE RunHelper(o)
  <2>1. /\ op[o].pc \in DOMAIN Stage
        /\ UNCHANGED <<ledgerVars, own, retired, vol, processVars, boot>>
    BY <1>8 DEF RunHelper, diskVars
  <2>2. \A q \in Ops : q # o => op'[q] = op[q]
    BY <1>1, <1>8, PcsReads DEF RunHelper
  <2>3. \A h \in Hosts, a \in Allocs : h # Host(o) \/ a # Alloc(o) =>
          helper'[h][a] = helper[h][a]
    BY <1>8, RunHelperReads
  <2> QED
    BY <1>0, <2>1, <2>2, <2>3, StageReads DEF DiskKept, processVars, ledgerVars, Early
<1>9. CASE \/ ReserveCapacity(o) \/ RecordProvisioned(o) \/ RecordSeal(o) \/ RecordLaunch(o)
           \/ RecordExecution(o) \/ RecordRetained(o) \/ RecordRelease(o)
  <2>1. /\ op[o].pc \in {"reserve", "provisioned_tx", "seal_tx", "launch_tx", "bind_tx",
                         "retain_tx", "release_tx"}
        /\ UNCHANGED <<helper, diskVars, boot>> /\ UNCHANGED <<ns, captured>>
    BY <1>9 DEF ReserveCapacity, RecordProvisioned, RecordSeal, RecordLaunch, RecordExecution,
       RecordRetained, RecordRelease, At, processVars
  <2>2. authority' = authority
    BY <1>9 DEF ReserveCapacity, RecordProvisioned, RecordSeal, RecordLaunch, RecordExecution,
       RecordRetained, RecordRelease, Reserve, Provisioned, SealInputs, BeginLaunch,
       BindExecution, Retain, Release, Save, ledgerVars
  <2>3. op[o].pc = "reserve" /\ rec[Alloc(o)].state # "Absent" => rec' = rec
    BY <1>9 DEF ReserveCapacity, RecordProvisioned, RecordSeal, RecordLaunch, RecordExecution,
       RecordRetained, RecordRelease, At, Reserve, ledgerVars
  <2>4. \A q \in Ops : q # o => op'[q] = op[q]
    BY <1>1, <1>2, <1>9, PcsReads DEF ReserveCapacity, RecordProvisioned, RecordSeal,
       RecordLaunch, RecordExecution, RecordRetained, RecordRelease
  <2> QED
    BY <1>0, <1>9, <2>1, <2>2, <2>3, <2>4, RowTouched, DisksUntouched DEF DisksKept, Passive
<1>10. CASE RecordQuiescent(o)
  <2>1. /\ op[o].pc = "quiescent_tx" /\ UNCHANGED <<helper, diskVars, processVars, boot>>
        /\ authority' = authority
    BY <1>10 DEF RecordQuiescent, At, Quiescent, Save
  <2>2. \A q \in Ops : q # o => op'[q] = op[q]
    BY <1>0, <1>10, Hosting DEF RecordQuiescent, See
  <2> QED
    BY <1>0, <1>10, <2>1, <2>2, RowTouched, DisksUntouched DEF DisksKept, Passive, processVars
<1> QED
  BY <1>3, <1>4, <1>5, <1>6, <1>7, <1>8, <1>9, <1>10 DEF Steps, Progress

LEMMA HelperTouches ==
    ASSUME TypeInv, LockInv, NEW h \in Hosts, NEW a \in Allocs, HelperEnds(h, a)
    PROVE  /\ UNCHANGED <<rec, authority, own, retired, boot, ns, captured, granted>>
           /\ helper[h][a] # NoHelper /\ helper'[h][a] = NoHelper
           /\ helper[h][a].role \in Roles /\ helper[h][a].stage \in DOMAIN Stage
           /\ \A g \in Hosts, c \in Allocs : ~(g = h /\ c = a) => DiskKept(g, c)
           /\ \A r \in Roles :
                \/ vol'[h][a][r] = vol[h][a][r]
                \/ /\ r = helper[h][a].role
                   /\ vol'[h][a][r] = Stage[helper[h][a].stage].to
                   /\ ~(helper[h][a].stage = "detach" /\ UsersOf(a) # {})
<1>1. UNCHANGED <<rec, authority, own, retired, boot, ns, captured, granted>>
  BY DEF HelperEnds, HelperSucceeds, HelperFails, OrphanEnds, ledgerVars, processVars
<1>2. /\ helper[h][a] # NoHelper /\ helper'[h][a] = NoHelper
      /\ \A g \in Hosts, c \in Allocs : ~(g = h /\ c = a) => helper'[g][c] = helper[g][c]
      /\ vol' \in {vol, HelperEffect(h, a)}
  BY HelperEndsReads
<1>3. TypeOK
  BY DEF TypeInv
<1>4. /\ helper[h][a].role \in Roles /\ helper[h][a].stage \in DOMAIN Stage
      /\ \A g \in Hosts, c \in Allocs, r \in Roles :
           \/ vol'[g][c][r] = vol[g][c][r]
           \/ /\ g = h /\ c = a /\ r = helper[h][a].role
              /\ vol'[h][a][r] = Stage[helper[h][a].stage].to
              /\ ~(helper[h][a].stage = "detach" /\ UsersOf(a) # {})
  BY <1>2, <1>3, EffectReads
<1> QED
  BY <1>1, <1>2, <1>4 DEF DiskKept

\* Where the end of a utility takes the operations: only the one that waits.
LEMMA HelperMoves ==
    ASSUME TypeInv, LockInv, NEW h \in Hosts, NEW a \in Allocs, HelperEnds(h, a),
           NEW q \in Ops
    PROVE  \/ op'[q] = op[q] \/ op'[q] = IdleOp
           \/ /\ op[q].pc = "helper" /\ Host(q) = h /\ op[q].alloc = a
              /\ op'[q].alloc = op[q].alloc /\ op'[q].kind = op[q].kind
              /\ op'[q].ns = op[q].ns /\ op'[q].view = op[q].view
              /\ op'[q].role = op[q].role
              /\ op'[q].pc = Stage[helper[h][a].stage].next
              /\ vol' = HelperEffect(h, a) /\ lock' = lock /\ lock[h][a] = q
<1>0. TypeOK
  BY DEF TypeInv
<1>1. helper[h][a].stage \in DOMAIN Stage
  BY <1>0, HelperEndsReads, EffectReads
<1>2. Stage[helper[h][a].stage].next \in Pcs
  BY <1>1, StageReads, PcsReads
<1>3. ASSUME NEW o \in Ops, lock[h][a] = o, op[o].pc = "helper", Host(o) = h, Alloc(o) = a,
             Goto(o, Stage[helper[h][a].stage].next), lock' = lock,
             vol' = HelperEffect(h, a)
      PROVE  \/ op'[q] = op[q]
             \/ /\ op[q].pc = "helper" /\ Host(q) = h /\ op[q].alloc = a
                /\ op'[q].alloc = op[q].alloc /\ op'[q].kind = op[q].kind
                /\ op'[q].ns = op[q].ns /\ op'[q].view = op[q].view
                /\ op'[q].role = op[q].role
                /\ op'[q].pc = Stage[helper[h][a].stage].next
                /\ vol' = HelperEffect(h, a) /\ lock' = lock /\ lock[h][a] = q
  BY <1>0, <1>2, <1>3, GotoReads DEF Alloc
<1>4. ASSUME NEW o \in Ops, End(o)
      PROVE  op'[q] = op[q] \/ op'[q] = IdleOp
  BY <1>0, <1>4, EndReads
<1> QED
  BY <1>3, <1>4, HelperEndsReads

\* The steps that change neither a record nor any storage.
Quiet ==
    /\ UNCHANGED <<rec, authority, helper, own, retired, vol, boot>>
    /\ \/ \E o \in Ops, k \in Kinds, a \in Allocs : Request(o, k, a)
       \/ \E o \in Ops, k \in Kinds, n \in Namespaces : RequestOnNamespace(o, k, n)
       \/ \E n \in Namespaces, a \in Allocs : Launch(n, a)
       \/ \E n \in Namespaces : CaptureNamespace(n) \/ NamespaceDies(n)
       \/ UNCHANGED <<op, ns, captured, granted>>

LEMMA NextCases ==
    ASSUME [Next]_vars
    PROVE  \/ \E o \in Ops : Steps(o)
           \/ \E h \in Hosts, a \in Allocs : HelperEnds(h, a)
           \/ \E h \in Hosts : Reboot(h)
           \/ Quiet
<1>1. ASSUME \E o \in Ops, k \in Kinds, a \in Allocs : Request(o, k, a)
      PROVE  Quiet
  BY <1>1 DEF Quiet, Request, ledgerVars, diskVars
<1>2. ASSUME \E o \in Ops, k \in Kinds, n \in Namespaces : RequestOnNamespace(o, k, n)
      PROVE  Quiet
  BY <1>2 DEF Quiet, RequestOnNamespace, ledgerVars, diskVars
<1>3. ASSUME \E n \in Namespaces, a \in Allocs : Launch(n, a)
      PROVE  Quiet
  BY <1>3 DEF Quiet, Launch, ledgerVars, diskVars
<1>4. ASSUME \E n \in Namespaces : CaptureNamespace(n) \/ NamespaceDies(n)
      PROVE  Quiet
  BY <1>4 DEF Quiet, CaptureNamespace, NamespaceDies, ledgerVars, diskVars
<1>5. ASSUME (\E a \in Allocs : DeadlinePasses(a)) \/ UNCHANGED vars
      PROVE  Quiet
  BY <1>5 DEF Quiet, DeadlinePasses, Expire, ledgerVars, diskVars, processVars, vars
<1> QED
  BY <1>1, <1>2, <1>3, <1>4, <1>5 DEF Next, Steps

\* What such steps do to a process.
LEMMA QuietProcesses ==
    ASSUME TypeInv, Quiet, NEW n \in Namespaces
    PROVE  \/ ns'[n] = ns[n]
           \/ /\ ns[n].state = "live" /\ ns'[n].state = "dead"
              /\ ns'[n].boot = ns[n].boot /\ ns'[n].alloc = ns[n].alloc
           \/ /\ ns[n].state = "none" /\ ns'[n].state = "live"
              /\ ns'[n].alloc \in granted
              /\ ns'[n].boot = authority /\ authority # NoAuthority
              /\ authority = Here(authority.host)
              /\ \A r \in Roles : vol[authority.host][ns'[n].alloc][r] \in Mounted
<1>0. ns \in [Namespaces -> [state : {"none", "live", "dead"}, alloc : Allocs \cup {NoAlloc},
                             boot : Authorities \cup {NoAuthority}]]
  BY DEF TypeInv, TypeOK
<1>1. ASSUME NEW m \in Namespaces, NEW a \in Allocs, Launch(m, a)
      PROVE  \/ ns'[n] = ns[n]
             \/ /\ ns[n].state = "none" /\ ns'[n].state = "live"
                /\ ns'[n].alloc \in granted
                /\ ns'[n].boot = authority /\ authority # NoAuthority
                /\ authority = Here(authority.host)
                /\ \A r \in Roles : vol[authority.host][ns'[n].alloc][r] \in Mounted
  BY <1>0, <1>1 DEF Launch
<1>2. ASSUME NEW m \in Namespaces, CaptureNamespace(m) \/ NamespaceDies(m)
      PROVE  \/ ns'[n] = ns[n]
             \/ /\ ns[n].state = "live" /\ ns'[n].state = "dead"
                /\ ns'[n].boot = ns[n].boot /\ ns'[n].alloc = ns[n].alloc
  BY <1>0, <1>2 DEF CaptureNamespace, NamespaceDies
<1>3. ASSUME \/ \E o \in Ops, k \in Kinds, a \in Allocs : Request(o, k, a)
             \/ \E o \in Ops, k \in Kinds, m \in Namespaces : RequestOnNamespace(o, k, m)
      PROVE  ns' = ns
  BY <1>3 DEF Request, RequestOnNamespace, processVars
<1> QED
  BY <1>1, <1>2, <1>3 DEF Quiet

\* Where a step takes the operation that makes it.
LEMMA OperationMoves ==
    ASSUME TypeInv, NEW o \in Ops, Steps(o)
    PROVE  \/ op'[o] = IdleOp
           \/ /\ op'[o].alloc = op[o].alloc /\ op'[o].kind = op[o].kind
              /\ op'[o].pc # "idle"
              /\ \/ BindPool(o) /\ op[o].pc = "bind" /\ op'[o].pc = "reserve"
                 \/ ReserveCapacity(o) /\ op[o].pc = "reserve" /\ op'[o].pc = "before"
                 \/ /\ op[o].pc = "before" /\ op'[o].pc = "lock"
                    /\ authority = Auth(o) /\ rec[Alloc(o)].state # "Absent"
                 \/ op[o].pc = "lock" /\ op'[o].pc = "own" /\ lock'[Host(o)][Alloc(o)] = o
                 \/ op[o].pc \in Holding /\ op'[o].pc \in Holding
<1>0. TypeOK
  BY DEF TypeInv
<1>1. ASSUME NEW p \in Holding, Goto(o, p), op[o].pc \in Holding
      PROVE  /\ op'[o].alloc = op[o].alloc /\ op'[o].kind = op[o].kind
             /\ op'[o].pc # "idle"
             /\ op[o].pc \in Holding /\ op'[o].pc \in Holding
  BY <1>0, <1>1, GotoReads DEF Holding, Early
<1>2. ASSUME \/ CreateOwnership(o) \/ WriteOwnership(o)
             \/ CreateImage(o) \/ SizeImage(o) \/ RebuildImage(o) \/ KeepImage(o)
             \/ CreateMarker(o) \/ WriteMarker(o) \/ CheckMarker(o)
             \/ RunHelper(o) \/ SkipHelper(o)
      PROVE  /\ op[o].pc \in Holding
             /\ \E p \in Holding : Goto(o, p)
  BY <1>2, StageReads, PcsReads DEF CreateOwnership, WriteOwnership, CreateImage,
     SizeImage, RebuildImage, KeepImage, CreateMarker, WriteMarker, CheckMarker, RunHelper,
     SkipHelper, At, Holding, Early
<1>3. ASSUME RoleProvided(o) \/ RemoveImage(o) \/ DismantleRole(o)
      PROVE  /\ op'[o].alloc = op[o].alloc /\ op'[o].kind = op[o].kind
             /\ op'[o].pc # "idle"
             /\ op[o].pc \in Holding /\ op'[o].pc \in Holding
  <2>1. ASSUME NEW p \in Holding, NEW q \in Holding, Turns(o, p, q)
        PROVE  /\ op'[o].alloc = op[o].alloc /\ op'[o].kind = op[o].kind
               /\ op'[o].pc # "idle" /\ op'[o].pc \in Holding
    BY <1>0, <2>1, NextRoleReads DEF Holding, Early
  <2> QED
    BY <1>1, <1>3, <2>1, PcsReads DEF RoleProvided, RemoveImage, DismantleRole, Turns, At,
       Holding, Early
<1>4. ASSUME \/ RecordProvisioned(o) \/ RecordSeal(o) \/ RecordLaunch(o)
             \/ RecordExecution(o) \/ RecordRetained(o) \/ RecordRelease(o) \/ Reject(o)
             \/ Crash(o)
      PROVE  op'[o] = IdleOp
  BY <1>0, <1>4, EndReads, CrashReads DEF RecordProvisioned, RecordSeal, RecordLaunch,
     RecordExecution, RecordRetained, RecordRelease, Reject
<1>5. ASSUME RecordQuiescent(o)
      PROVE  /\ op'[o].alloc = op[o].alloc /\ op'[o].kind = op[o].kind
             /\ op'[o].pc # "idle"
             /\ op[o].pc \in Holding /\ op'[o].pc \in Holding
  BY <1>0, <1>5, Hosting, PcsReads DEF RecordQuiescent, See, At, Holding, Early, OpRecords
<1>6. ASSUME Reread(o), op'[o] # IdleOp
      PROVE  /\ op'[o].alloc = op[o].alloc /\ op'[o].kind = op[o].kind
             /\ op'[o].pc # "idle"
             /\ op[o].pc \in Holding /\ op'[o].pc \in Holding
  <2>1. ~End(o)
    BY <1>0, <1>6, EndReads
  <2>2. /\ op[o].pc = "own" /\ op'[o].alloc = op[o].alloc /\ op'[o].kind = op[o].kind
        /\ op'[o].pc \in {"image", "seal", "launch_tx", "bind_tx", "retain_tx",
                          "quiescent_tx", "teardown"}
    BY <1>6, <2>1, RereadReads
  <2> QED
    BY <2>2, PcsReads DEF Holding, Early
<1>7. ASSUME BindPool(o)
      PROVE  /\ op'[o].alloc = op[o].alloc /\ op'[o].kind = op[o].kind
             /\ op[o].pc = "bind" /\ op'[o].pc = "reserve"
  BY <1>0, <1>7, GotoReads, PcsReads DEF BindPool, At
<1>8. ASSUME ReserveCapacity(o)
      PROVE  /\ op'[o].alloc = op[o].alloc /\ op'[o].kind = op[o].kind
             /\ op[o].pc = "reserve" /\ op'[o].pc = "before"
  BY <1>0, <1>8, GotoReads, PcsReads DEF ReserveCapacity, At
<1>9. ASSUME ReadBefore(o)
      PROVE  /\ op'[o].alloc = op[o].alloc /\ op'[o].kind = op[o].kind
             /\ op[o].pc = "before" /\ op'[o].pc = "lock"
             /\ authority = Auth(o) /\ rec[Alloc(o)].state # "Absent"
  BY <1>0, <1>9, Hosting, PcsReads, AdmittedReads DEF ReadBefore, At, See, OpRecords, Verified
<1>10. ASSUME AcquireLock(o)
       PROVE  /\ op'[o].alloc = op[o].alloc /\ op'[o].kind = op[o].kind
              /\ op[o].pc = "lock" /\ op'[o].pc = "own" /\ lock'[Host(o)][Alloc(o)] = o
  <2>1. op[o].pc = "lock" /\ Goto(o, "own")
        /\ lock' = [lock EXCEPT ![Host(o)][Alloc(o)] = o]
    BY <1>10 DEF AcquireLock, At
  <2>2. Alloc(o) \in Allocs /\ Host(o) \in Hosts
    BY <1>0, <2>1, Hosting DEF TypeInv, Alloc
  <2> QED
    BY <1>0, <2>1, <2>2, GotoReads, PcsReads DEF TypeOK
<1> QED
  BY <1>1, <1>2, <1>3, <1>4, <1>5, <1>6, <1>7, <1>8, <1>9, <1>10 DEF Steps, Progress

-----------------------------------------------------------------------------
(* The one root.                                                             *)

\* A bound authority stays, and a reserved record does not vanish.
LEMMA NothingUnbinds ==
    ASSUME TypeInv, EvidenceInv, [Next]_vars
    PROVE  /\ authority # NoAuthority => authority' = authority
           /\ \A a \in Allocs : rec[a].state # "Absent" => rec'[a].state # "Absent"
<1>1. LedgerGrows
  BY LedgerStep, GrowsStep DEF TypeInv, TypeOK
<1>2. \A a \in Allocs : rec[a].state \in Phases /\ rec'[a].state \in Phases
  BY LedgerStep, LedgerTypeStep DEF TypeInv, TypeOK, LedgerTypeOK, Records
<1> QED
  BY <1>1, <1>2 DEF LedgerGrows, Grows, PhaseRank, Phases

LEMMA RootStep ==
    ASSUME TypeInv, LockInv, RootInv, EvidenceInv, [Next]_vars
    PROVE  RootInv'
<1>1. \A q \in Ops : Host(q) \in Hosts /\ Auth(q) # NoAuthority /\ Auth(q).host = Host(q)
  BY Hosting, NullAssumption DEF TypeInv
<1>2. \A h \in Hosts : Here(h).host = h /\ Here(h) # NoAuthority
  BY NullAssumption DEF Here, Authorities, TypeInv, TypeOK
<1>3. authority # NoAuthority => authority' = authority /\ authority.host \in Hosts
  BY NothingUnbinds DEF TypeInv, TypeOK, LedgerTypeOK, Authorities
<1>4. \A a \in Allocs : rec[a].state # "Absent" => rec'[a].state # "Absent"
  BY NothingUnbinds
<1>5. IdleOp.pc = "idle" /\ IdleOp.pc \notin Holding
  BY IdleOpReads DEF Holding, Early
<1>6. \A q \in Ops : op[q].pc # "idle" => Alloc(q) \in Allocs
  BY DEF TypeInv, Alloc
<1>7. ASSUME NEW o \in Ops, Steps(o)
      PROVE  RootInv'
  <2>1. /\ UNCHANGED <<boot, ns>> /\ Alloc(o) \in Allocs /\ op[o].pc # "idle"
        /\ op[o].pc # "bind" => authority' = authority
    BY <1>7, OperationTouches
  <2>2. \/ authority' = authority
        \/ authority = NoAuthority /\ authority' = Auth(o)
    BY <1>3, <1>7, <2>1 DEF Steps, Progress, BindPool, BindPoolAuthority,
       CanBindPoolAuthority, ReserveCapacity, ReadBefore, CreateOwnership, WriteOwnership,
       Reread, RunHelper, SkipHelper, CreateImage, SizeImage, RebuildImage, KeepImage,
       RoleProvided, RecordProvisioned, RecordSeal, RecordLaunch, RecordExecution,
       RecordRetained, RecordQuiescent, CreateMarker, WriteMarker, CheckMarker,
       DismantleRole, RemoveImage, RecordRelease, Reject, AcquireLock, Crash, At, ledgerVars
  <2>3. \A h \in Hosts : Here(h)' = Here(h)
    BY <2>1 DEF Here
  <2>4. \A q \in Ops : Auth(q)' = Auth(q)
    BY <1>1, <2>3 DEF Auth
  <2>5. BootReached'
    <3>1. Auth(o).boot = boot[Host(o)] /\ boot[Host(o)] \in Nat
      BY <1>1, Hosting, ManagerAssumption DEF TypeInv, TypeOK
    <3> QED
      BY <1>1, <1>3, <2>1, <2>2, <3>1 DEF RootInv, BootReached
  <2>6. \A n \in Namespaces : ProcessRooted(n)'
    BY <1>3, <2>1, <2>3 DEF RootInv, ProcessRooted
  <2>7. \A q \in Ops : q # o => OpRooted(q)'
    BY <1>1, <1>3, <1>4, <1>6, <1>7, <2>4, OperationTouches DEF RootInv, OpRooted, Alloc
  <2>8. OpRooted(o)'
    <3>1. CASE op'[o] = IdleOp
      BY <1>5, <3>1 DEF OpRooted
    <3>2. CASE BindPool(o) /\ op'[o].pc = "reserve"
      BY <2>4, <3>2 DEF OpRooted, BindPool, BindPoolAuthority
    <3>3. CASE op'[o].pc = "before"
      BY <3>3 DEF OpRooted
    <3>4. CASE /\ op[o].pc = "before" /\ op'[o].pc = "lock" /\ op'[o].alloc = op[o].alloc
               /\ authority = Auth(o) /\ rec[Alloc(o)].state # "Absent"
      BY <1>4, <2>1, <2>4, <3>4 DEF OpRooted, Alloc
    <3>5. CASE /\ op'[o].alloc = op[o].alloc
               /\ op[o].pc \notin {"idle", "bind", "reserve", "before"}
      BY <1>4, <2>1, <2>4, <3>5 DEF RootInv, OpRooted, Alloc
    <3> QED
      BY <1>7, <3>1, <3>2, <3>3, <3>4, <3>5, OperationMoves DEF Holding, Early
  <2>9. ASSUME NEW h \in Hosts, NEW a \in Allocs
        PROVE  DiskRooted(h, a)'
    <3>1. CASE DiskKept(h, a)
      BY <1>2, <1>3, <2>3, <3>1 DEF RootInv, DiskRooted, Touched, DiskKept
    <3>2. CASE ~DiskKept(h, a)
      <4>1. h = Host(o) /\ authority = Auth(o)
        BY <1>7, <3>2, OperationTouches DEF RootInv, OpRooted, Early
      <4>2. authority' = Here(h)' /\ authority' # NoAuthority /\ authority'.host = h
        BY <1>1, <1>3, <2>3, <4>1 DEF Auth
      <4> QED
        BY <4>2 DEF DiskRooted
    <3> QED
      BY <3>1, <3>2
  <2> QED
    BY <2>5, <2>6, <2>7, <2>8, <2>9 DEF RootInv
<1>8. ASSUME NEW h \in Hosts, NEW a \in Allocs, HelperEnds(h, a)
      PROVE  RootInv'
  <2>1. UNCHANGED <<rec, authority, own, retired, boot, ns>>
    BY <1>8, HelperTouches
  <2>2. (\A g \in Hosts : Here(g)' = Here(g)) /\ \A q \in Ops : Auth(q)' = Auth(q)
    BY <1>1, <2>1 DEF Here, Auth
  <2>3. authority = Here(h)
    BY <1>8, HelperTouches DEF RootInv, DiskRooted
  <2>4. ASSUME NEW g \in Hosts, NEW c \in Allocs
        PROVE  DiskRooted(g, c)'
    <3>1. CASE g = h
      BY <1>2, <2>1, <2>2, <2>3, <3>1 DEF DiskRooted
    <3>2. CASE g # h
      <4>1. DiskKept(g, c)
        BY <1>8, <3>2, HelperTouches
      <4> QED
        BY <2>1, <2>2, <4>1 DEF RootInv, DiskRooted, DiskKept, Touched
    <3> QED
      BY <3>1, <3>2
  <2>5. \A q \in Ops : \/ op'[q] = op[q] \/ op'[q] = IdleOp
                       \/ op[q].pc = "helper" /\ op'[q].alloc = op[q].alloc
    BY <1>8, HelperMoves
  <2>6. \A q \in Ops : OpRooted(q)'
    BY <1>5, <2>1, <2>2, <2>5 DEF RootInv, OpRooted, Alloc
  <2>7. \A n \in Namespaces : ProcessRooted(n)'
    BY <2>1 DEF RootInv, ProcessRooted, Here
  <2> QED
    BY <2>1, <2>4, <2>6, <2>7 DEF RootInv, BootReached
<1>9. ASSUME NEW h \in Hosts, Reboot(h)
      PROVE  RootInv'
  <2>1. UNCHANGED <<rec, authority, own, retired>>
    BY <1>9 DEF Reboot, ledgerVars
  <2>2. \A g \in Hosts : g # h => Here(g)' = Here(g)
    <3>1. \A g \in Hosts : g # h => boot'[g] = boot[g]
      BY <1>9, RebootReads
    <3> QED
      BY <3>1 DEF Here
  <2>3. BootReached'
    <3>1. /\ \A g \in Hosts : boot[g] \in Nat /\ boot'[g] \in {boot[g], boot[g] + 1}
          /\ authority # NoAuthority => authority.boot \in Nat
      BY <1>9, RebootReads, ManagerAssumption
      DEF TypeInv, TypeOK, LedgerTypeOK, Authorities
    <3> QED
      BY <1>3, <2>1, <3>1 DEF RootInv, BootReached
  <2>4. \A q \in Ops : OpRooted(q)'
    BY <1>1, <1>5, <1>9, <2>1, <2>2, RebootReads DEF RootInv, OpRooted, Auth, Alloc
  <2>5. \A n \in Namespaces : ProcessRooted(n)'
    <3>1. \A g \in Hosts : g # h => boot'[g] = boot[g]
      BY <1>9, RebootReads
    <3>2. \A n \in Namespaces :
            /\ ns'[n].boot = ns[n].boot
            /\ ns'[n].state = IF ns[n].boot = Here(h) THEN "dead" ELSE ns[n].state
      BY <1>9, RebootReads
    <3>3. \A n \in Namespaces : ns[n].state = "none" => ns[n].boot = NoAuthority
      BY DEF TypeInv
    <3> QED
      BY <1>2, <1>3, <2>1, <3>1, <3>2, <3>3 DEF RootInv, ProcessRooted, Here
  <2>6. ASSUME NEW g \in Hosts, NEW a \in Allocs
        PROVE  DiskRooted(g, a)'
    <3>1. /\ helper'[g][a] = IF g = h THEN NoHelper ELSE helper[g][a]
          /\ \A r \in Roles : vol[g][a][r] = "absent" => vol'[g][a][r] = "absent"
      BY <1>9, RebootReads DEF Looped, Mounted
    <3> QED
      BY <2>1, <2>2, <3>1 DEF RootInv, DiskRooted, Touched
  <2> QED
    BY <2>3, <2>4, <2>5, <2>6 DEF RootInv
<1>10. CASE Quiet
  <2>1. UNCHANGED <<rec, authority, helper, own, retired, vol, boot>>
    BY <1>10 DEF Quiet
  <2>2. (\A g \in Hosts : Here(g)' = Here(g)) /\ \A q \in Ops : Auth(q)' = Auth(q)
    BY <1>1, <2>1 DEF Here, Auth
  <2>3. \A q \in Ops : op'[q] = op[q] \/ op'[q].pc \in {"bind", "before"}
    BY <1>10, RequestReads, RequestOnReads
    DEF Quiet, Launch, CaptureNamespace, NamespaceDies, TypeInv
  <2>4. \A q \in Ops : OpRooted(q)'
    BY <2>1, <2>2, <2>3 DEF RootInv, OpRooted, Alloc
  <2>5. ASSUME NEW n \in Namespaces
        PROVE  ProcessRooted(n)'
    <3>1. \/ ns'[n] = ns[n]
          \/ ns[n].state = "live" /\ ns'[n].state = "dead" /\ ns'[n].boot = ns[n].boot
          \/ /\ ns'[n].boot = authority /\ authority # NoAuthority
             /\ authority = Here(authority.host)
      BY <1>10, QuietProcesses
    <3> QED
      BY <1>3, <2>1, <3>1 DEF RootInv, ProcessRooted, Here
  <2>6. \A h \in Hosts, a \in Allocs : DiskRooted(h, a)'
    BY <2>1, <2>2 DEF RootInv, DiskRooted, Touched
  <2> QED
    BY <2>1, <2>4, <2>5, <2>6 DEF RootInv, BootReached
<1> QED
  BY <1>7, <1>8, <1>9, <1>10, NextCases

-----------------------------------------------------------------------------
(* One operation acts on an allocation at a time, whatever its host: an      *)
(* operation with a lock runs under the bound root.                          *)
LEMMA OneHolder ==
    ASSUME TypeInv, RootInv, LockInv, NEW o \in Ops, NEW q \in Ops,
           op[o].pc \in Holding, op[q].pc \in Holding, Alloc(o) = Alloc(q)
    PROVE  o = q
<1>1. authority = Auth(o) /\ authority = Auth(q)
  BY DEF RootInv, OpRooted, Holding, Early
<1>2. Host(o) = Host(q)
  BY <1>1, Hosting DEF TypeInv
<1> QED
  BY <1>2 DEF LockInv, HolderHasLock, Alloc

\* While the holder of a lock acts itself, no utility runs on its allocation.
LEMMA NoHelperBeside ==
    ASSUME TypeInv, RootInv, LockInv, NEW o \in Ops, op[o].pc \in Holding,
           op[o].pc # "helper", NEW h \in Hosts
    PROVE  helper[h][Alloc(o)] = NoHelper
<1>1. Alloc(o) \in Allocs /\ authority = Auth(o) /\ Auth(o).host = Host(o)
  BY Hosting DEF TypeInv, RootInv, OpRooted, Holding, Early, Alloc
<1>2. lock[Host(o)][Alloc(o)] = o
  BY DEF LockInv, HolderHasLock, Alloc
<1>3. helper[h][Alloc(o)] # NoHelper => h = Host(o)
  BY <1>1 DEF RootInv, DiskRooted, Here
<1> QED
  BY <1>1, <1>2, <1>3, ManagerAssumption DEF LockInv, HelperHasLock

\* So the allocation of an operation that has its lock is untouched by others.
LEMMA OthersTouchNothing ==
    ASSUME TypeInv, RootInv, LockInv, NEW o \in Ops, Steps(o),
           NEW q \in Ops, q # o, op[q].pc \in Holding
    PROVE  /\ op'[q] = op[q]
           /\ rec'[Alloc(q)] = rec[Alloc(q)]
           /\ \A h \in Hosts : DiskKept(h, Alloc(q))
<1>1. Alloc(q) \in Allocs /\ rec[Alloc(q)].state # "Absent"
  BY DEF TypeInv, RootInv, OpRooted, Holding, Early, Alloc
<1>2. Alloc(q) = Alloc(o) => op[o].pc \in Early
  BY OneHolder, Hosting DEF TypeInv, OpRecords, Holding
<1> QED
  BY <1>1, <1>2, OperationTouches DEF Early, Passive

\* What the moving operation knows of its record is the record.
LEMMA ViewMoves ==
    ASSUME TypeInv, NEW o \in Ops, Steps(o), Deciding(o)'
    PROVE  \/ op'[o].view = rec'[Alloc(o)]
           \/ /\ Deciding(o) /\ op'[o].view = op[o].view /\ rec' = rec
<1>0. TypeOK
  BY DEF TypeInv
<1>1. ASSUME NEW p \in Pcs, Goto(o, p)
      PROVE  op'[o].view = op[o].view /\ op'[o].pc = p
  BY <1>0, <1>1, GotoReads
<1>2. ASSUME End(o) \/ Crash(o)
      PROVE  FALSE
  BY <1>0, <1>2, EndReads, CrashReads, IdleOpReads DEF Deciding
<1>3. CASE BindPool(o) \/ ReserveCapacity(o) \/ AcquireLock(o) \/ CreateOwnership(o)
           \/ WriteOwnership(o)
  BY <1>1, <1>3, PcsReads DEF BindPool, ReserveCapacity, AcquireLock, CreateOwnership,
     WriteOwnership, Deciding
<1>4. CASE ReadBefore(o)
  BY SMTT(60), <1>0, <1>4, Hosting DEF ReadBefore, See, Deciding, OpRecords
<1>5. CASE Reread(o)
  BY <1>2, <1>5, RereadReads DEF Reread, Fresh, ledgerVars
<1>6. CASE \/ CreateImage(o) \/ SizeImage(o) \/ RebuildImage(o) \/ KeepImage(o)
           \/ CreateMarker(o) \/ WriteMarker(o) \/ CheckMarker(o)
           \/ RunHelper(o) \/ SkipHelper(o)
  <2>1. Deciding(o) /\ rec' = rec
    BY <1>6, StageReads DEF CreateImage, SizeImage, RebuildImage, KeepImage, CreateMarker,
       WriteMarker, CheckMarker, RunHelper, SkipHelper, At, Deciding, ledgerVars
  <2>2. op'[o].view = op[o].view
    BY SMTT(60), <1>1, <1>6, StageReads, PcsReads DEF CreateImage, SizeImage, RebuildImage, KeepImage,
       CreateMarker, WriteMarker, CheckMarker, RunHelper, SkipHelper
  <2> QED
    BY <2>1, <2>2
<1>7. CASE RoleProvided(o) \/ DismantleRole(o) \/ RemoveImage(o)
  <2>1. Deciding(o) /\ rec' = rec
    BY <1>7 DEF RoleProvided, DismantleRole, RemoveImage, At, Deciding, ledgerVars
  <2>2. ASSUME NEW p \in Pcs, NEW q \in Pcs, Turns(o, p, q)
        PROVE  op'[o].view = op[o].view
    BY <1>0, <2>2, NextRoleReads
  <2> QED
    BY <1>1, <1>7, <2>1, <2>2, PcsReads DEF RoleProvided, DismantleRole, RemoveImage, Turns
<1>8. CASE \/ RecordProvisioned(o) \/ RecordSeal(o) \/ RecordLaunch(o)
           \/ RecordExecution(o) \/ RecordRetained(o) \/ RecordRelease(o) \/ Reject(o)
  BY <1>2, <1>8 DEF RecordProvisioned, RecordSeal, RecordLaunch, RecordExecution,
     RecordRetained, RecordRelease, Reject
<1>9. CASE RecordQuiescent(o)
  BY <1>0, <1>9, Hosting DEF RecordQuiescent, See, OpRecords
<1> QED
  BY <1>2, <1>3, <1>4, <1>5, <1>6, <1>7, <1>8, <1>9 DEF Steps, Progress

LEMMA CurrentStep ==
    ASSUME TypeInv, LockInv, RootInv, DecisionsAreCurrent, [Next]_vars
    PROVE  DecisionsAreCurrent'
<1>1. TypeInv' /\ LockInv'
  BY TypeStep, LockStep
<1>2. \A q \in Ops : Deciding(q)' => lock'[Host(q)][Alloc(q)'] = q
  BY <1>1, Hosting DEF Deciding, Holding, Early, LockInv, HolderHasLock, Alloc, TypeInv,
     TypeOK
<1>3. \A q \in Ops : Deciding(q) => View(q) = rec[Alloc(q)] /\ op[q].pc \in Holding
  BY Hosting DEF DecisionsAreCurrent, Deciding, Holding, Early, TypeInv, OpRecords
<1>4. IdleOp.pc = "idle"
  BY IdleOpReads
<1>5. ASSUME NEW q \in Ops, Deciding(q)'
      PROVE  View(q)' = rec'[Alloc(q)']
  <2>1. ASSUME NEW o \in Ops, Steps(o)
        PROVE  View(q)' = rec'[Alloc(q)']
    <3>1. CASE q # o
      <4>1. op'[q] = op[q]
        BY <2>1, <3>1, OperationTouches
      <4> QED
        BY <1>3, <1>5, <2>1, <3>1, <4>1, OthersTouchNothing DEF Deciding, View, Alloc
    <3>2. CASE q = o
      <4>1. op'[o].alloc = op[o].alloc
        BY <1>4, <1>5, <2>1, <3>2, OperationMoves DEF Deciding
      <4> QED
        BY <1>3, <1>5, <2>1, <3>2, <4>1, ViewMoves DEF View, Alloc
    <3> QED
      BY <3>1, <3>2
  <2>2. ASSUME NEW h \in Hosts, NEW a \in Allocs, HelperEnds(h, a)
        PROVE  View(q)' = rec'[Alloc(q)']
    <3>1. rec' = rec
      BY <2>2, HelperTouches
    <3>2. Deciding(q) /\ op'[q].view = op[q].view /\ op'[q].alloc = op[q].alloc
      BY <1>4, <1>5, <2>2, HelperMoves DEF Deciding
    <3> QED
      BY <1>3, <3>1, <3>2 DEF View, Alloc
  <2>3. ASSUME NEW h \in Hosts, Reboot(h)
        PROVE  View(q)' = rec'[Alloc(q)']
    <3>1. op'[q] = op[q] /\ rec' = rec
      BY <1>4, <1>5, <2>3, RebootReads DEF Deciding, Reboot, ledgerVars
    <3> QED
      BY <1>3, <1>5, <3>1 DEF View, Alloc, Deciding
  <2>4. CASE Quiet
    <3>1. op'[q] = op[q] \/ op'[q].pc \in {"bind", "before"}
      BY <2>4, RequestReads, RequestOnReads
      DEF Quiet, Launch, CaptureNamespace, NamespaceDies, TypeInv
    <3>2. rec' = rec
      BY <2>4 DEF Quiet
    <3> QED
      BY <1>3, <1>5, <3>1, <3>2 DEF View, Alloc, Deciding
  <2> QED
    BY <2>1, <2>2, <2>3, <2>4, NextCases
<1> QED
  BY <1>2, <1>5 DEF DecisionsAreCurrent

-----------------------------------------------------------------------------
(* Where each step leads. *)

\* Only the volumes' states count.
LEMMA StepsAlike ==
    ASSUME NEW s \in Pcs, NEW r \in Roles, NEW m, NEW rc, NEW v, NEW w,
           StepHolds(s, r, m, rc, v), \A q \in Roles : w[q] = v[q]
    PROVE  StepHolds(s, r, m, rc, w)
<1>1. Inputs \in Roles
  BY ManagerAssumption DEF Inputs, Roles
<1> QED
  BY <1>1 DEF StepHolds

\* The steps that stand on nothing but, some of them, being at the first role.
LEMMA FreeSteps ==
    ASSUME NEW s \in FirstRoleSteps \cup Early
                       \cup {"launch_tx", "bind_tx", "retain_tx", "helper"},
           s # "mark", NEW r, s \in FirstRoleSteps => r = Inputs, NEW m, NEW rc, NEW v
    PROVE  StepHolds(s, r, m, rc, v)
BY DEF StepHolds, FirstRoleSteps, Early, BuildSteps, TeardownSteps

\* A utility's work done, by it or before, leads to the next step.
LEMMA StageLeads ==
    ASSUME NEW s \in DOMAIN Stage, NEW r \in Roles, NEW m, NEW rc, NEW v, NEW w,
           StepHolds(s, r, m, rc, v), \A q \in Roles : q # r => w[q] = v[q],
           s = "detach" \/ w[r] \in Stage[s].done \cup {Stage[s].to}
    PROVE  StepHolds(Stage[s].next, r, m, rc, w)
<1>1. r \in Nat /\ Roles \subseteq Nat
  BY ManagerAssumption DEF Roles
<1>2. CASE s \in {"format", "attach", "mount", "chown"}
  <2>1. /\ m = "no" /\ rc.state \in {"Reserved", "Provisioned"}
        /\ \A q \in Roles : q < r => v[q] \in Finished
    BY <1>2 DEF StepHolds, BuildSteps
  <2>2. \A q \in Roles : q < r => w[q] \in Finished
    BY <1>1, <2>1
  <2>3. Stage[s].next \in {"attach", "mount", "chown", "provided"}
    BY <1>2 DEF Stage
  <2>4. Stage[s].next = "provided" => w[r] \in Finished
    BY <1>2 DEF Stage, Finished
  <2> QED
    BY <2>1, <2>2, <2>3, <2>4 DEF StepHolds, BuildSteps, TeardownSteps, FirstRoleSteps
<1>3. CASE s = "seal"
  <2>1. r = Inputs
    BY <1>3 DEF StepHolds, FirstRoleSteps
  <2>2. Stage[s].next = "seal_tx" /\ w[r] = "sealed"
    BY <1>3 DEF Stage
  <2> QED
    BY <2>1, <2>2 DEF StepHolds, BuildSteps, TeardownSteps, FirstRoleSteps
<1>4. CASE s \in {"umount", "detach"}
  <2>1. /\ m = "yes" /\ Unneeded(rc)
        /\ \A q \in Roles : q < r => v[q] = "absent"
    BY <1>4 DEF StepHolds, TeardownSteps
  <2>2. \A q \in Roles : q < r => w[q] = "absent"
    BY <1>1, <2>1
  <2>3. Stage[s].next \in {"detach", "remove"}
    BY <1>4 DEF Stage
  <2> QED
    BY <2>1, <2>2, <2>3 DEF StepHolds, BuildSteps, TeardownSteps, FirstRoleSteps
<1> QED
  BY <1>2, <1>3, <1>4, StageReads

\* A role that is done leads to the next one, or the last one on to p.
LEMMA RoundLeads ==
    ASSUME NEW r \in Roles, NEW m, NEW rc, NEW v, NEW w, NEW n,
           n = IF r = Volumes THEN Inputs ELSE r + 1
    PROVE  /\ StepHolds("provided", r, m, rc, v) =>
                StepHolds(IF r = Volumes THEN "provisioned_tx" ELSE "image", n, m, rc, v)
           /\ (StepHolds("dismantle", r, m, rc, v) \/ StepHolds("remove", r, m, rc, v))
                 /\ w[r] = "absent" /\ (\A q \in Roles : q # r => w[q] = v[q]) =>
                StepHolds(IF r = Volumes THEN "release_tx" ELSE "dismantle", n, m, rc, w)
<1>1. r \in Nat /\ Roles \subseteq Nat /\ \A q \in Roles : q =< Volumes
  BY ManagerAssumption DEF Roles
<1>2. \A q \in Roles : /\ q = r \/ q < r \/ (r # Volumes /\ q > r)
                       /\ q < r + 1 => q = r \/ q < r
  BY <1>1, ManagerAssumption DEF Roles
<1>3. ASSUME StepHolds("provided", r, m, rc, v)
      PROVE  StepHolds(IF r = Volumes THEN "provisioned_tx" ELSE "image", n, m, rc, v)
  <2>1. /\ m = "no" /\ rc.state \in {"Reserved", "Provisioned"}
        /\ v[r] \in Finished /\ \A q \in Roles : q < r => v[q] \in Finished
    BY <1>3 DEF StepHolds, BuildSteps
  <2>2. CASE r = Volumes
    <3>1. \A q \in Roles : v[q] \in Finished
      BY <1>2, <2>1, <2>2
    <3> QED
      BY <2>1, <2>2, <3>1 DEF StepHolds, BuildSteps, TeardownSteps, FirstRoleSteps
  <2>3. CASE r # Volumes
    <3>1. n = r + 1 /\ \A q \in Roles : q < n => v[q] \in Finished
      BY <1>2, <2>1, <2>3
    <3> QED
      BY <2>1, <2>3, <3>1 DEF StepHolds, BuildSteps, TeardownSteps, FirstRoleSteps
  <2> QED
    BY <2>2, <2>3
<1>4. ASSUME StepHolds("dismantle", r, m, rc, v) \/ StepHolds("remove", r, m, rc, v),
             w[r] = "absent", \A q \in Roles : q # r => w[q] = v[q]
      PROVE  StepHolds(IF r = Volumes THEN "release_tx" ELSE "dismantle", n, m, rc, w)
  <2>1. /\ m = "yes" /\ Unneeded(rc)
        /\ \A q \in Roles : q < r => v[q] = "absent"
    BY <1>4 DEF StepHolds, TeardownSteps
  <2>2. \A q \in Roles : q = r \/ q < r => w[q] = "absent"
    BY <1>1, <1>4, <2>1
  <2>3. CASE r = Volumes
    <3>1. \A q \in Roles : w[q] = "absent"
      BY <1>2, <2>2, <2>3
    <3> QED
      BY <2>1, <2>3, <3>1 DEF StepHolds, BuildSteps, TeardownSteps, FirstRoleSteps
  <2>4. CASE r # Volumes
    <3>1. n = r + 1 /\ \A q \in Roles : q < n => w[q] = "absent"
      BY <1>2, <2>2, <2>4
    <3> QED
      BY <2>1, <2>4, <3>1 DEF StepHolds, BuildSteps, TeardownSteps, FirstRoleSteps
  <2> QED
    BY <2>3, <2>4
<1> QED
  BY <1>3, <1>4

\* An image is only missing from an allocation that is not provisioned yet.
LEMMA MissingImage ==
    ASSUME TypeInv, RootInv, StepInv, VolumeInv, EvidenceInv, NEW o \in Ops,
           op[o].pc = "image", Vol(o) \notin Looped \cup {"formatted"}
    PROVE  rec[Alloc(o)].state = "Reserved"
<1>1. Host(o) \in Hosts /\ Alloc(o) \in Allocs /\ op[o].role \in Roles
  BY Hosting DEF TypeInv, Alloc, OpRecords
<1>2. /\ retired[Host(o)][Alloc(o)] = "no"
      /\ rec[Alloc(o)].state \in {"Reserved", "Provisioned"}
  BY DEF StepInv, OpAtStep, StepHolds, BuildSteps, Alloc
<1>3. authority # NoAuthority /\ authority.host = Host(o)
  BY Hosting, NullAssumption DEF TypeInv, RootInv, OpRooted
<1>4. rec[Alloc(o)].provisioning = NoReceipt
  BY <1>1, <1>2, <1>3 DEF VolumeInv, CertifiedKept, Vol, Volume
<1> QED
  BY <1>1, <1>2, <1>4 DEF EvidenceInv, FreshRecords

LEMMA MoverAtStep ==
    ASSUME TypeInv, LockInv, RootInv, EvidenceInv, DecisionsAreCurrent, StepInv, VolumeInv,
           NEW o \in Ops, Steps(o)
    PROVE  OpAtStep(o)'
<1>0. TypeOK
  BY DEF TypeInv
<1>1. /\ Host(o) \in Hosts /\ Alloc(o) \in Allocs /\ op[o].role \in Roles
      /\ op[o].alloc = Alloc(o)
  BY Hosting, OperationTouches DEF TypeInv, Alloc, OpRecords
<1> DEFINE h == Host(o)
           a == op[o].alloc
           Is(s) == op[o].pc = s /\ StepHolds(s, op[o].role, retired[h][a], rec[a], vol[h][a])
<1>2. op[o].pc # "helper" => Is(op[o].pc)
  BY DEF StepInv, OpAtStep
<1>3. ASSUME op'[o].alloc = a, op'[o].pc # "helper" =>
             StepHolds(op'[o].pc, op'[o].role, retired'[h][a], rec'[a], vol'[h][a])
      PROVE  OpAtStep(o)'
  BY <1>3 DEF OpAtStep
<1>4. ASSUME op'[o] = IdleOp
      PROVE  OpAtStep(o)'
  BY <1>4, IdleOpReads, FreeSteps DEF OpAtStep, Early, FirstRoleSteps
<1>5. ASSUME NEW p \in Pcs, Goto(o, p),
             p # "helper" => StepHolds(p, op[o].role, retired'[h][a], rec'[a], vol'[h][a])
      PROVE  OpAtStep(o)'
  <2>1. op'[o].pc = p /\ op'[o].role = op[o].role /\ op'[o].alloc = a
    BY <1>0, <1>5, GotoReads
  <2> QED
    BY <1>3, <1>5, <2>1
<1>6. ASSUME NEW p \in (FirstRoleSteps \cap Early) \cup {"own", "write_own"},
             op'[o].pc = p, op'[o].role = Inputs
      PROVE  OpAtStep(o)'
  BY <1>6, FreeSteps DEF OpAtStep, FirstRoleSteps, Early
<1> HIDE DEF Is
<1>7. CASE \/ BindPool(o) \/ ReserveCapacity(o) \/ AcquireLock(o)
           \/ CreateOwnership(o) \/ WriteOwnership(o)
  <2>1. op[o].role = Inputs
    BY <1>2, <1>7 DEF Is, BindPool, ReserveCapacity, AcquireLock, CreateOwnership,
       WriteOwnership, At, StepHolds, FirstRoleSteps
  <2>2. op'[o].role = op[o].role /\ op'[o].pc \in {"reserve", "before", "own", "write_own"}
    BY <1>0, <1>7, GotoReads, PcsReads DEF BindPool, ReserveCapacity, AcquireLock,
       CreateOwnership, WriteOwnership
  <2> QED
    BY <1>6, <2>1, <2>2 DEF FirstRoleSteps, Early
<1>8. CASE ReadBefore(o)
  <2>1. op[o].role = Inputs
    BY <1>2, <1>8 DEF Is, ReadBefore, At, StepHolds, FirstRoleSteps
  <2>2. op'[o].role = op[o].role /\ op'[o].pc = "lock"
    BY <1>0, <1>8, Hosting DEF ReadBefore, See, OpRecords
  <2> QED
    BY <1>6, <2>1, <2>2 DEF FirstRoleSteps, Early
<1>9. CASE Reread(o)
  <2>1. op[o].role = Inputs /\ UNCHANGED <<rec, retired, vol>>
    BY <1>2, <1>9 DEF Is, Reread, At, StepHolds, FirstRoleSteps, ledgerVars, diskVars
  <2>2. CASE End(o)
    BY <1>0, <1>4, <2>2, EndReads
  <2>3. CASE ~End(o)
    <3>1. /\ op'[o].alloc = a /\ op'[o].role = Inputs
          /\ op'[o].pc = FirstStep(o, Fresh(o)) /\ OwnershipHolds(o)
          /\ op'[o].pc \in {"image", "seal", "launch_tx", "bind_tx", "retain_tx",
                            "quiescent_tx", "teardown"}
      BY <1>9, <2>1, <2>3, RereadReads
    <3>2. CASE op'[o].pc = "image"
      <4>1. op[o].kind = "provision"
        BY <3>1, <3>2 DEF FirstStep
      <4>2. Own(o) = "ok"
        BY <1>9 DEF Reread
      <4>3. MayProvision(o, Fresh(o))
        BY <3>1, <4>1, <4>2 DEF OwnershipHolds, MayEnter
      <4>4. retired[h][a] = "no" /\ rec[a].state \in {"Reserved", "Provisioned"}
        BY <1>1, <4>3 DEF MayProvision, Fresh, Retired
      <4>5. \A q \in Roles : ~(q < Inputs)
        BY ManagerAssumption DEF Roles, Inputs
      <4>6. StepHolds("image", Inputs, retired[h][a], rec[a], vol[h][a])
        BY <4>4, <4>5 DEF StepHolds, FirstRoleSteps, BuildSteps, TeardownSteps
      <4> QED
        BY <1>3, <2>1, <3>1, <3>2, <4>6
    <3>3. CASE op'[o].pc # "image"
      <4>1. StepHolds(op'[o].pc, op'[o].role, retired'[h][a], rec'[a], vol'[h][a])
        BY <3>1, <3>3, FreeSteps DEF FirstRoleSteps
      <4> QED
        BY <1>3, <3>1, <4>1
    <3> QED
      BY <3>2, <3>3
  <2> QED
    BY <2>2, <2>3
<1>10. CASE RunHelper(o)
  BY <1>5, <1>10, PcsReads DEF RunHelper
<1>11. CASE SkipHelper(o)
  <2>1. op[o].pc \in DOMAIN Stage /\ UNCHANGED <<rec, retired, vol>>
        /\ vol[h][a][op[o].role] \in Stage[op[o].pc].done
        /\ Goto(o, Stage[op[o].pc].next)
    BY <1>1, <1>11 DEF SkipHelper, ledgerVars, diskVars, Vol, Volume
  <2>2. Stage[op[o].pc].next \in Pcs
    BY <2>1, StageReads, PcsReads
  <2>3. op[o].pc # "helper"
    BY <2>1, StageReads
  <2>4. StepHolds(Stage[op[o].pc].next, op[o].role, retired[h][a], rec[a], vol[h][a])
    BY SMTT(60), <1>1, <1>2, <2>1, <2>3, StageLeads DEF Is
  <2> QED
    BY <1>5, <2>1, <2>2, <2>4
<1>12. CASE CreateImage(o) \/ RebuildImage(o)
  <2>1. Is("image") /\ UNCHANGED <<rec, retired>>
    BY <1>2, <1>12 DEF CreateImage, RebuildImage, At, ledgerVars
  <2>2. rec[a].state = "Reserved"
    <3>1. CASE CreateImage(o)
      BY <1>1, <2>1, <3>1, MissingImage DEF CreateImage, Looped, Mounted, Is
    <3>2. CASE RebuildImage(o)
      BY <1>1, <2>1, <3>2 DEF RebuildImage, Rebuildable, DecisionsAreCurrent, Deciding, Is
    <3> QED
      BY <1>12, <3>1, <3>2
  <2>3. PICK v \in {"unsized", "raw"} :
          /\ SetVol(o, v)
          /\ Goto(o, IF v = "unsized" THEN "size" ELSE "format")
    BY <1>12 DEF CreateImage, RebuildImage
  <2>4. /\ vol'[h][a][op[o].role] = v
        /\ \A q \in Roles : q # op[o].role => vol'[h][a][q] = vol[h][a][q]
    BY <1>0, <1>1, <2>3, SetVolReads DEF VolumeStates
  <2>5. \A q \in Roles : q < op[o].role => q # op[o].role
    BY <1>1, ManagerAssumption DEF Roles
  <2>6. /\ retired[h][a] = "no"
        /\ \A q \in Roles : q < op[o].role => vol[h][a][q] \in Finished
    BY <2>1 DEF Is, StepHolds, BuildSteps
  <2>7. \A q \in Roles : q < op[o].role => vol'[h][a][q] \in Finished
    BY <2>4, <2>5, <2>6
  <2>8. StepHolds(IF v = "unsized" THEN "size" ELSE "format", op[o].role,
                  retired'[h][a], rec'[a], vol'[h][a])
    BY <2>1, <2>2, <2>4, <2>6, <2>7 DEF StepHolds, FirstRoleSteps, BuildSteps, TeardownSteps
  <2> QED
    BY <1>5, <2>3, <2>8, PcsReads
<1>13. CASE SizeImage(o)
  <2>1. Is("size") /\ UNCHANGED <<rec, retired>> /\ SetVol(o, "raw") /\ Goto(o, "format")
    BY <1>2, <1>13 DEF SizeImage, At, ledgerVars
  <2>2. /\ vol'[h][a][op[o].role] = "raw"
        /\ \A q \in Roles : q # op[o].role => vol'[h][a][q] = vol[h][a][q]
    BY <1>0, <1>1, <2>1, SetVolReads DEF VolumeStates
  <2>3. \A q \in Roles : q < op[o].role => q # op[o].role
    BY <1>1, ManagerAssumption DEF Roles
  <2>4. /\ retired[h][a] = "no" /\ rec[a].state = "Reserved"
        /\ \A q \in Roles : q < op[o].role => vol[h][a][q] \in Finished
    BY <2>1 DEF Is, StepHolds, BuildSteps
  <2>5. StepHolds("format", op[o].role, retired'[h][a], rec'[a], vol'[h][a])
    BY <2>1, <2>2, <2>3, <2>4 DEF StepHolds, FirstRoleSteps, BuildSteps, TeardownSteps
  <2> QED
    BY <1>5, <2>1, <2>5, PcsReads
<1>14. CASE KeepImage(o)
  <2>1. Is("image") /\ UNCHANGED <<rec, retired, vol>> /\ Goto(o, "attach")
    BY <1>2, <1>14 DEF KeepImage, At, ledgerVars, diskVars
  <2>2. StepHolds("attach", op[o].role, retired'[h][a], rec'[a], vol'[h][a])
    BY <2>1 DEF Is, StepHolds, FirstRoleSteps, BuildSteps, TeardownSteps
  <2> QED
    BY <1>5, <2>1, <2>2, PcsReads
<1>15. CASE RoleProvided(o)
  <2>1. Is("provided") /\ UNCHANGED <<rec, retired, vol>>
        /\ Turns(o, "image", "provisioned_tx")
    BY <1>2, <1>15 DEF RoleProvided, At, ledgerVars, diskVars, Turns
  <2>2. /\ op'[o].pc = IF op[o].role = Volumes THEN "provisioned_tx" ELSE "image"
        /\ op'[o].role = IF op[o].role = Volumes THEN Inputs ELSE op[o].role + 1
        /\ op'[o].alloc = a
    <3>1. Turns(o, "image", "provisioned_tx") /\ {"image", "provisioned_tx"} \subseteq Pcs
      BY <2>1, PcsReads
    <3> QED
      BY <1>0, <3>1, NextRoleReads
  <2>3. StepHolds(op'[o].pc, op'[o].role, retired[h][a], rec[a], vol[h][a])
    BY <1>1, <2>1, <2>2, RoundLeads DEF Is
  <2> QED
    BY <1>3, <2>1, <2>2, <2>3
<1>16. CASE DismantleRole(o) \/ RemoveImage(o)
  <2>1. /\ Is("dismantle") \/ Is("remove")
        /\ UNCHANGED <<rec, retired>>
    BY <1>2, <1>16 DEF DismantleRole, RemoveImage, At, ledgerVars, diskVars
  <2>2. CASE Turns(o, "dismantle", "release_tx")
    <3>1. /\ op'[o].pc = IF op[o].role = Volumes THEN "release_tx" ELSE "dismantle"
          /\ op'[o].role = IF op[o].role = Volumes THEN Inputs ELSE op[o].role + 1
          /\ op'[o].alloc = a
      <4>1. {"dismantle", "release_tx"} \subseteq Pcs
        BY PcsReads
      <4> QED
        BY <1>0, <2>2, <4>1, NextRoleReads
    <3>2. /\ vol'[h][a][op[o].role] = "absent"
          /\ \A q \in Roles : q # op[o].role => vol'[h][a][q] = vol[h][a][q]
      <4>1. CASE RemoveImage(o)
        BY <1>0, <1>1, <4>1, SetVolReads DEF RemoveImage, VolumeStates
      <4>2. CASE DismantleRole(o)
        <5>1. Vol(o) # "absent" => op'[o].pc = "umount"
          BY <1>0, <4>2, GotoReads, PcsReads DEF DismantleRole
        <5>2. Vol(o) = "absent" /\ vol' = vol
          BY <3>1, <4>2, <5>1 DEF DismantleRole, diskVars
        <5> QED
          BY <1>1, <5>2 DEF Vol, Volume
      <4> QED
        BY <1>16, <4>1, <4>2
    <3>3. StepHolds(op'[o].pc, op'[o].role, retired[h][a], rec[a], vol'[h][a])
      BY <1>1, <2>1, <3>1, <3>2, RoundLeads DEF Is
    <3> QED
      BY <1>3, <2>1, <3>1, <3>3
  <2>3. CASE ~Turns(o, "dismantle", "release_tx")
    <3>1. Is("dismantle") /\ Goto(o, "umount") /\ vol' = vol
      BY <1>2, <1>16, <2>3 DEF DismantleRole, RemoveImage, Turns, At, diskVars
    <3>2. StepHolds("umount", op[o].role, retired'[h][a], rec'[a], vol'[h][a])
      BY <2>1, <3>1 DEF Is, StepHolds, FirstRoleSteps, BuildSteps, TeardownSteps
    <3> QED
      BY <1>5, <3>1, <3>2, PcsReads
  <2> QED
    BY <2>2, <2>3
<1>17. CASE CreateMarker(o)
  <2>1. Is("teardown") /\ UNCHANGED <<rec, vol>> /\ SetRetired(o, "torn") /\ Goto(o, "mark")
        /\ MayTearDown(o, View(o))
    BY <1>2, <1>17, AdmittedReads DEF CreateMarker, At, ledgerVars
  <2>2. Unneeded(rec[a])
    BY <1>1, <2>1 DEF Is, DecisionsAreCurrent, Deciding, MayTearDown, Unneeded
  <2>3. retired'[h][a] = "torn"
    BY <1>0, <1>1, <2>1, SetRetiredReads
  <2>4. StepHolds("mark", op[o].role, retired'[h][a], rec'[a], vol'[h][a])
    BY <2>1, <2>2, <2>3 DEF Is, StepHolds, FirstRoleSteps, BuildSteps, TeardownSteps
  <2> QED
    BY <1>5, <2>1, <2>4, PcsReads
<1>18. CASE WriteMarker(o)
  <2>1. Is("mark") /\ UNCHANGED <<rec, vol>> /\ SetRetired(o, "yes") /\ Goto(o, "dismantle")
    BY <1>2, <1>18 DEF WriteMarker, At, ledgerVars
  <2>2. retired'[h][a] = "yes" /\ \A q \in Roles : ~(q < Inputs)
    BY <1>0, <1>1, <2>1, SetRetiredReads, ManagerAssumption DEF Roles, Inputs
  <2>3. StepHolds("dismantle", op[o].role, retired'[h][a], rec'[a], vol'[h][a])
    BY <2>1, <2>2 DEF Is, StepHolds, FirstRoleSteps, BuildSteps, TeardownSteps
  <2> QED
    BY <1>5, <2>1, <2>3, PcsReads
<1>19. CASE CheckMarker(o)
  <2>1. Is("teardown") /\ UNCHANGED <<rec, vol, retired>> /\ Goto(o, "dismantle")
        /\ MayTearDown(o, View(o)) /\ Retired(o) = "yes"
    BY <1>2, <1>19, AdmittedReads DEF CheckMarker, At, ledgerVars, diskVars
  <2>2. Unneeded(rec[a]) /\ retired[h][a] = "yes" /\ \A q \in Roles : ~(q < Inputs)
    BY <1>1, <2>1, ManagerAssumption
    DEF Is, DecisionsAreCurrent, Deciding, MayTearDown, Unneeded, Retired, Roles, Inputs
  <2>3. StepHolds("dismantle", op[o].role, retired'[h][a], rec'[a], vol'[h][a])
    BY <2>1, <2>2 DEF Is, StepHolds, FirstRoleSteps, BuildSteps, TeardownSteps
  <2> QED
    BY <1>5, <2>1, <2>3, PcsReads
<1>20. CASE RecordQuiescent(o)
  <2>1. op[o].role = Inputs
    BY <1>2, <1>20 DEF Is, RecordQuiescent, At, StepHolds, FirstRoleSteps
  <2>2. op'[o].role = Inputs /\ op'[o].pc = "teardown" /\ op'[o].alloc = a
    BY <1>0, <1>20, <2>1, Hosting DEF RecordQuiescent, See, OpRecords
  <2> QED
    BY <1>3, <2>2, FreeSteps DEF FirstRoleSteps
<1>21. CASE \/ RecordProvisioned(o) \/ RecordSeal(o) \/ RecordLaunch(o)
            \/ RecordExecution(o) \/ RecordRetained(o) \/ RecordRelease(o) \/ Reject(o)
            \/ Crash(o)
  BY <1>0, <1>4, <1>21, EndReads, CrashReads DEF RecordProvisioned, RecordSeal,
     RecordLaunch, RecordExecution, RecordRetained, RecordRelease, Reject
<1> QED
  BY <1>7, <1>8, <1>9, <1>10, <1>11, <1>12, <1>13, <1>14, <1>15, <1>16, <1>17, <1>18, <1>19,
     <1>20, <1>21 DEF Steps, Progress

LEMMA StepStep ==
    ASSUME TypeInv, LockInv, RootInv, EvidenceInv, DecisionsAreCurrent, StepInv, VolumeInv,
           [Next]_vars
    PROVE  StepInv'
<1>0. TypeOK
  BY DEF TypeInv
<1>1. \A q \in Ops : /\ Host(q) \in Hosts /\ op[q].pc \in Pcs /\ op[q].role \in Roles
                     /\ op[q].pc # "idle" => Alloc(q) \in Allocs
  BY Hosting DEF TypeInv, Alloc, OpRecords
\* An operation whose allocation is untouched stays where it is.
<1>2. ASSUME NEW q \in Ops, op'[q] = op[q],
             op[q].pc \in Holding \ {"helper"} =>
               /\ rec'[Alloc(q)] = rec[Alloc(q)]
               /\ retired'[Host(q)][Alloc(q)] = retired[Host(q)][Alloc(q)]
               /\ \A r \in Roles :
                    vol'[Host(q)][Alloc(q)][r] = vol[Host(q)][Alloc(q)][r]
      PROVE  OpAtStep(q)'
  <2>1. CASE op[q].pc \in Holding \ {"helper"}
    <3>1. StepHolds(op[q].pc, op[q].role, retired[Host(q)][op[q].alloc], rec[op[q].alloc],
                    vol[Host(q)][op[q].alloc])
      BY <2>1 DEF StepInv, OpAtStep
    <3> QED
      BY <1>1, <1>2, <2>1, <3>1, StepsAlike DEF OpAtStep, Alloc
  <2>2. CASE op[q].pc \in Early
    <3>1. op[q].pc \in FirstRoleSteps => op[q].role = Inputs
      BY <2>2 DEF StepInv, OpAtStep, StepHolds, FirstRoleSteps, Early
    <3>2. op[q].pc # "mark"
      BY <2>2 DEF Early
    <3> QED
      BY <1>2, <2>2, <3>1, <3>2, FreeSteps DEF OpAtStep
  <2>3. CASE op[q].pc = "helper"
    BY <1>2, <2>3 DEF OpAtStep
  <2> QED
    BY <1>1, <2>1, <2>2, <2>3 DEF Holding
<1>3. ASSUME NEW q \in Ops, op'[q].pc \in {"idle", "bind", "before"},
             op'[q].pc # "idle" => op'[q].role = Inputs
      PROVE  OpAtStep(q)'
  BY <1>3, FreeSteps DEF OpAtStep, FirstRoleSteps, Early
<1>4. ASSUME NEW h \in Hosts, NEW a \in Allocs, DiskKept(h, a),
             helper[h][a] # NoHelper => rec'[a] = rec[a] \/ rec[a].state = "Absent"
      PROVE  HelperAtStep(h, a)'
  <2>1. /\ helper'[h][a] = helper[h][a] /\ retired'[h][a] = retired[h][a]
        /\ \A r \in Roles : vol'[h][a][r] = vol[h][a][r]
    BY <1>4 DEF DiskKept
  <2>2. CASE helper[h][a] # NoHelper
    <3>1. /\ helper[h][a].role \in Roles /\ helper[h][a].stage \in DOMAIN Stage
          /\ helper[h][a].stage \in Pcs
      BY <1>0, <2>2, EffectReads DEF Pcs
    <3>2. StepHolds(helper[h][a].stage, helper[h][a].role, retired[h][a], rec[a], vol[h][a])
          /\ vol[h][a][helper[h][a].role] \in Stage[helper[h][a].stage].from
      BY <2>2 DEF StepInv, HelperAtStep
    <3>3. CASE rec'[a] = rec[a]
      BY <2>1, <3>1, <3>2, <3>3, StepsAlike DEF HelperAtStep
    <3>4. CASE rec[a].state = "Absent"
      <4>1. helper[h][a].stage = "seal"
        BY <3>1, <3>2, <3>4, StageReads
        DEF StepHolds, BuildSteps, TeardownSteps, Unneeded
      <4>2. helper[h][a].role = Inputs
        BY <3>2, <4>1 DEF StepHolds, FirstRoleSteps
      <4> QED
        BY <2>1, <3>1, <3>2, <4>1, <4>2, FreeSteps DEF HelperAtStep, FirstRoleSteps
    <3> QED
      BY <1>4, <2>2, <3>3, <3>4
  <2> QED
    BY <2>1, <2>2 DEF HelperAtStep
<1>5. ASSUME NEW o \in Ops, Steps(o)
      PROVE  StepInv'
  <2>1. OpAtStep(o)'
    BY <1>5, MoverAtStep
  <2>2. ASSUME NEW q \in Ops, q # o
        PROVE  OpAtStep(q)'
    <3>1. op'[q] = op[q]
      BY <1>5, <2>2, OperationTouches
    <3>2. op[q].pc \in Holding => rec'[Alloc(q)] = rec[Alloc(q)]
                                  /\ DiskKept(Host(q), Alloc(q))
      BY <1>1, <1>5, <2>2, OthersTouchNothing
    <3> QED
      BY <1>2, <3>1, <3>2 DEF DiskKept
  <2>3. ASSUME NEW h \in Hosts, NEW a \in Allocs
        PROVE  HelperAtStep(h, a)'
    <3>1. CASE DiskKept(h, a)
      <4>1. a = Alloc(o) /\ op[o].pc \in Holding \ {"helper"} => helper[h][a] = NoHelper
        BY NoHelperBeside
      <4> QED
        BY <1>1, <1>4, <1>5, <3>1, <4>1, OperationTouches DEF Holding, Early, Passive
    <3>2. CASE ~DiskKept(h, a)
      <4>1. h = Host(o) /\ a = Alloc(o) /\ op[o].pc \in Holding \ {"helper"}
        BY <1>1, <1>5, <3>2, OperationTouches DEF Holding
      <4>2. helper[h][a] = NoHelper
        BY <4>1, NoHelperBeside
      <4>3. CASE helper'[h][a] = NoHelper
        BY <4>3 DEF HelperAtStep
      <4>4. CASE helper'[h][a] # NoHelper
        <5>1. RunHelper(o)
          BY <1>5, <4>2, <4>4 DEF Steps, Progress, BindPool, ReserveCapacity, ReadBefore,
             CreateOwnership, WriteOwnership, Reread, SkipHelper, CreateImage, SizeImage,
             RebuildImage, KeepImage, RoleProvided, RecordProvisioned, RecordSeal,
             RecordLaunch, RecordExecution, RecordRetained, RecordQuiescent, CreateMarker,
             WriteMarker, CheckMarker, DismantleRole, RemoveImage, RecordRelease, Reject,
             AcquireLock, Crash
        <5>2. /\ helper'[h][a].stage = op[o].pc /\ helper'[h][a].role = op[o].role
              /\ vol[h][a][op[o].role] \in Stage[op[o].pc].from
              /\ UNCHANGED <<rec, retired, vol>>
          BY <4>1, <5>1, RunHelperReads DEF RunHelper, ledgerVars, diskVars, Vol, Volume
        <5>3. StepHolds(op[o].pc, op[o].role, retired[h][a], rec[a], vol[h][a])
          BY <4>1 DEF StepInv, OpAtStep, Alloc
        <5> QED
          BY <5>2, <5>3 DEF HelperAtStep
      <4> QED
        BY <4>3, <4>4
    <3> QED
      BY <3>1, <3>2
  <2> QED
    BY <2>1, <2>2, <2>3 DEF StepInv
<1>6. ASSUME NEW h \in Hosts, NEW a \in Allocs, HelperEnds(h, a)
      PROVE  StepInv'
  <2>1. /\ UNCHANGED <<rec, retired>> /\ helper[h][a] # NoHelper
        /\ helper'[h][a] = NoHelper
        /\ \A g \in Hosts, c \in Allocs : ~(g = h /\ c = a) => DiskKept(g, c)
    BY <1>6, HelperTouches
  <2>2. ASSUME NEW q \in Ops
        PROVE  OpAtStep(q)'
    <3>1. CASE op'[q] = op[q]
      <4>1. op[q].pc \in Holding \ {"helper"} => ~(Host(q) = h /\ Alloc(q) = a)
        BY <2>1, NoHelperBeside
      <4> QED
        BY <1>1, <1>2, <2>1, <3>1, <4>1 DEF DiskKept, Holding, Early
    <3>2. CASE op'[q] = IdleOp
      BY <1>3, <3>2, IdleOpReads
    <3>3. CASE /\ op[q].pc = "helper" /\ Host(q) = h /\ op[q].alloc = a
               /\ op'[q].alloc = op[q].alloc /\ op'[q].role = op[q].role
               /\ op'[q].pc = Stage[helper[h][a].stage].next
               /\ vol' = HelperEffect(h, a)
      <4> DEFINE s == helper[h][a].stage
                 r == helper[h][a].role
      <4>1. r \in Roles /\ s \in DOMAIN Stage /\ r = op[q].role
        BY <1>0, <2>1, <3>3, EffectReads DEF LockInv, WaiterHasHelper
      <4>2. /\ \A c \in Roles : c # r => vol'[h][a][c] = vol[h][a][c]
            /\ s = "detach" \/ vol'[h][a][r] = Stage[s].to
        BY <1>0, <2>1, <3>3, EffectReads
      <4>3. StepHolds(s, r, retired[h][a], rec[a], vol[h][a])
        BY <2>1 DEF StepInv, HelperAtStep
      <4> HIDE DEF s, r
      <4>4. StepHolds(Stage[s].next, r, retired[h][a], rec[a], vol'[h][a])
        BY <4>1, <4>2, <4>3, StageLeads
      <4> QED
        BY <2>1, <3>3, <4>1, <4>4 DEF OpAtStep, s
    <3> QED
      BY <1>6, <3>1, <3>2, <3>3, HelperMoves
  <2>3. ASSUME NEW g \in Hosts, NEW c \in Allocs
        PROVE  HelperAtStep(g, c)'
    BY <1>4, <2>1 DEF HelperAtStep
  <2> QED
    BY <2>2, <2>3 DEF StepInv
<1>7. ASSUME NEW h \in Hosts, Reboot(h)
      PROVE  StepInv'
  <2>1. UNCHANGED <<rec, retired, own>>
    BY <1>7 DEF Reboot, ledgerVars
  <2>2. \A g \in Hosts, a \in Allocs :
          IF g = h THEN helper'[g][a] = NoHelper ELSE DiskKept(g, a)
    BY <1>7, <2>1, RebootReads DEF DiskKept
  <2>3. ASSUME NEW q \in Ops
        PROVE  OpAtStep(q)'
    <3>1. op'[q] = IF Host(q) = h THEN IdleOp ELSE op[q]
      BY <1>7, RebootReads
    <3>2. CASE Host(q) = h
      BY <1>3, <3>1, <3>2, IdleOpReads
    <3>3. CASE Host(q) # h
      BY <1>1, <1>2, <2>1, <2>2, <3>1, <3>3 DEF DiskKept, Holding, Early
    <3> QED
      BY <3>2, <3>3
  <2>4. ASSUME NEW g \in Hosts, NEW a \in Allocs
        PROVE  HelperAtStep(g, a)'
    BY <1>4, <2>1, <2>2 DEF HelperAtStep
  <2> QED
    BY <2>3, <2>4 DEF StepInv
<1>8. CASE Quiet
  <2>1. UNCHANGED <<rec, own, retired, helper, vol>>
    BY <1>8 DEF Quiet
  <2>2. ASSUME NEW q \in Ops
        PROVE  OpAtStep(q)'
    <3>1. \/ op'[q] = op[q]
          \/ op'[q].pc \in {"bind", "before"} /\ op'[q].role = Inputs
      BY <1>8, RequestReads, RequestOnReads
      DEF Quiet, Launch, CaptureNamespace, NamespaceDies, TypeInv
    <3> QED
      BY <1>2, <1>3, <2>1, <3>1
  <2>3. ASSUME NEW h \in Hosts, NEW a \in Allocs
        PROVE  HelperAtStep(h, a)'
    BY <1>4, <2>1 DEF DiskKept
  <2> QED
    BY <2>2, <2>3 DEF StepInv
<1> QED
  BY <1>5, <1>6, <1>7, <1>8, NextCases

-----------------------------------------------------------------------------
(* How a record, a marker and a volume may change.                           *)

\* What the transaction at step p, made by o, does to record r.
Commits(p, o, r, s) ==
    \/ /\ p = "reserve" /\ r.state = "Absent" /\ s.state = "Reserved"
       /\ s.provisioning = r.provisioning /\ s.sealed = r.sealed
       /\ s.execution = r.execution
    \/ /\ p = "provisioned_tx" /\ r.state \in {"Reserved", "Provisioned"}
       /\ s.state = "Provisioned" /\ s.provisioning = Receipt
       /\ s.sealed = r.sealed /\ s.execution = r.execution
    \/ /\ p = "seal_tx" /\ r.state = "Provisioned" /\ s.state = "Provisioned" /\ s.sealed
       /\ s.provisioning = r.provisioning /\ s.execution = r.execution
    \/ /\ p = "launch_tx" /\ r.state \in {"Provisioned", "Launching"}
       /\ s.state = "Launching" /\ s.provisioning = r.provisioning
       /\ s.sealed = r.sealed /\ s.execution = r.execution
    \/ /\ p = "bind_tx" /\ r.state \in {"Launching", "Active"} /\ s.state = "Active"
       /\ r.execution \in {NoBinding, Carried(o)} /\ s.execution = Carried(o)
       /\ s.provisioning = r.provisioning /\ s.sealed = r.sealed
    \/ /\ p = "retain_tx" /\ s.state = "Retained"
       /\ r.state \notin {"Absent", "Quiescent", "Released"}
       /\ s.provisioning = r.provisioning /\ s.sealed = r.sealed
       /\ s.execution = r.execution
    \/ /\ p = "quiescent_tx" /\ s.state = "Quiescent" /\ r.execution = Carried(o)
       /\ r.state \in {"Active", "Retained", "Quiescent"}
       /\ s.provisioning = r.provisioning /\ s.sealed = r.sealed
       /\ s.execution = r.execution
    \/ /\ p = "release_tx" /\ s.state = "Released"
       /\ \/ r.state = "Quiescent"
          \/ r.state \in {"Reserved", "Provisioned"} /\ r.execution = NoBinding
       /\ s.provisioning = r.provisioning /\ s.sealed = r.sealed
       /\ s.execution = r.execution

LEMMA RecordMoves ==
    ASSUME TypeInv, NEW o \in Ops, Steps(o), Alloc(o) \in Allocs
    PROVE  \/ rec' = rec
           \/ /\ Commits(op[o].pc, o, rec[Alloc(o)], rec'[Alloc(o)])
              /\ UNCHANGED <<authority, helper, own, retired, vol, ns>>
              /\ UNCHANGED used \/ op[o].pc \in {"reserve", "release_tx"}
<1> DEFINE a == Alloc(o)
<1>1. rec[a] \in Records /\ rec \in [Allocs -> Records]
  BY DEF TypeInv, TypeOK, LedgerTypeOK
<1>2. ASSUME NEW r, Save(a, r)
      PROVE  rec'[a] = r /\ UNCHANGED authority
  BY <1>1, <1>2 DEF Save
<1> HIDE DEF a
<1>3. CASE ReserveCapacity(o)
  <2>1. CASE rec[a].state = "Absent"
    <3>1. /\ Save(a, [rec[a] EXCEPT !.state = "Reserved"]) /\ op[o].pc = "reserve"
          /\ UNCHANGED <<helper, own, retired, vol, ns>>
      BY <1>3, <2>1 DEF ReserveCapacity, Reserve, At, diskVars, processVars, a
    <3> QED
      BY <1>1, <1>2, <2>1, <3>1 DEF Commits, Records, a
  <2>2. CASE rec[a].state # "Absent"
    BY <1>3, <2>2 DEF ReserveCapacity, Reserve, ledgerVars, a
  <2> QED
    BY <2>1, <2>2
<1>4. CASE RecordProvisioned(o)
  <2>1. /\ Save(a, [rec[a] EXCEPT !.state = "Provisioned", !.provisioning = Receipt])
        /\ op[o].pc = "provisioned_tx" /\ rec[a].state \in {"Reserved", "Provisioned"}
        /\ UNCHANGED <<helper, own, retired, vol, ns, used>>
    BY <1>4 DEF RecordProvisioned, Provisioned, CanProvision, At, diskVars, processVars, a
  <2>2. rec'[a] = [rec[a] EXCEPT !.state = "Provisioned", !.provisioning = Receipt]
        /\ UNCHANGED authority
    BY <1>2, <2>1
  <2>3. /\ rec'[a].state = "Provisioned" /\ rec'[a].provisioning = Receipt
        /\ rec'[a].sealed = rec[a].sealed /\ rec'[a].execution = rec[a].execution
    BY <1>1, <2>2 DEF Records
  <2> QED
    BY <2>1, <2>2, <2>3 DEF Commits, a
<1>5. CASE RecordSeal(o)
  <2>1. /\ Save(a, [rec[a] EXCEPT !.sealed = TRUE])
        /\ op[o].pc = "seal_tx" /\ rec[a].state = "Provisioned"
        /\ UNCHANGED <<helper, own, retired, vol, ns, used>>
    BY <1>5 DEF RecordSeal, SealInputs, CanSealInputs, At, diskVars, processVars, a
  <2> QED
    BY <1>1, <1>2, <2>1 DEF Commits, Records, a
<1>6. CASE RecordLaunch(o)
  <2>1. /\ Save(a, [rec[a] EXCEPT !.state = "Launching"])
        /\ op[o].pc = "launch_tx" /\ rec[a].state \in {"Provisioned", "Launching"}
        /\ UNCHANGED <<helper, own, retired, vol, ns, used>>
    BY <1>6 DEF RecordLaunch, BeginLaunch, CanBeginLaunch, At, diskVars, a
  <2> QED
    BY <1>1, <1>2, <2>1 DEF Commits, Records, a
<1>7. CASE RecordExecution(o)
  <2>1. /\ Save(a, [rec[a] EXCEPT !.state = "Active", !.execution = Carried(o)])
        /\ op[o].pc = "bind_tx" /\ rec[a].state \in {"Launching", "Active"}
        /\ rec[a].execution \in {NoBinding, Carried(o)}
        /\ UNCHANGED <<helper, own, retired, vol, ns, used>>
    BY <1>7 DEF RecordExecution, BindExecution, CanBindExecution, At, diskVars, processVars, a
  <2>2. rec'[a] = [rec[a] EXCEPT !.state = "Active", !.execution = Carried(o)]
        /\ UNCHANGED authority
    BY <1>2, <2>1
  <2>3. /\ rec'[a].state = "Active" /\ rec'[a].execution = Carried(o)
        /\ rec'[a].sealed = rec[a].sealed /\ rec'[a].provisioning = rec[a].provisioning
    BY <1>1, <2>2 DEF Records
  <2> QED
    BY <2>1, <2>2, <2>3 DEF Commits, a
<1>8. CASE RecordRetained(o)
  <2>1. /\ Save(a, [rec[a] EXCEPT !.state = "Retained"])
        /\ op[o].pc = "retain_tx" /\ rec[a].state \notin {"Absent", "Quiescent", "Released"}
        /\ UNCHANGED <<helper, own, retired, vol, ns, used>>
    BY <1>8 DEF RecordRetained, Retain, CanRetain, At, diskVars, processVars, a
  <2> QED
    BY <1>1, <1>2, <2>1 DEF Commits, Records, a
<1>9. CASE RecordQuiescent(o)
  <2>1. /\ Save(a, [rec[a] EXCEPT !.state = "Quiescent"])
        /\ op[o].pc = "quiescent_tx" /\ rec[a].state \in {"Active", "Retained", "Quiescent"}
        /\ rec[a].execution = Carried(o)
        /\ UNCHANGED <<helper, own, retired, vol, ns, used>>
    BY <1>9 DEF RecordQuiescent, Quiescent, CanQuiesce, At, diskVars, processVars, a
  <2> QED
    BY <1>1, <1>2, <2>1 DEF Commits, Records, a
<1>10. CASE RecordRelease(o)
  <2>1. CASE rec[a].state = "Released"
    BY <1>10, <2>1 DEF RecordRelease, Release, ledgerVars, a
  <2>2. CASE rec[a].state # "Released"
    <3>1. /\ Save(a, [rec[a] EXCEPT !.state = "Released"]) /\ op[o].pc = "release_tx"
          /\ \/ rec[a].state = "Quiescent"
             \/ rec[a].state \in {"Reserved", "Provisioned"} /\ rec[a].execution = NoBinding
          /\ UNCHANGED <<helper, own, retired, vol, ns>>
      BY <1>10, <2>2 DEF RecordRelease, Release, CanRelease, At, diskVars, processVars, a
    <3> QED
      BY <1>1, <1>2, <3>1 DEF Commits, Records, a
  <2> QED
    BY <2>1, <2>2
<1>11. CASE \/ BindPool(o) \/ ReadBefore(o) \/ CreateOwnership(o) \/ WriteOwnership(o)
            \/ Reread(o) \/ RunHelper(o) \/ SkipHelper(o)
            \/ CreateImage(o) \/ SizeImage(o) \/ RebuildImage(o) \/ KeepImage(o)
            \/ RoleProvided(o) \/ CreateMarker(o) \/ WriteMarker(o) \/ CheckMarker(o)
            \/ DismantleRole(o) \/ RemoveImage(o) \/ Reject(o)
            \/ AcquireLock(o) \/ Crash(o)
  BY <1>11 DEF BindPool, BindPoolAuthority, ReadBefore, CreateOwnership, WriteOwnership,
     Reread, RunHelper, SkipHelper, CreateImage, SizeImage, RebuildImage, KeepImage,
     RoleProvided, CreateMarker, WriteMarker, CheckMarker, DismantleRole, RemoveImage,
     Reject, AcquireLock, Crash, ledgerVars
<1> QED
  BY <1>3, <1>4, <1>5, <1>6, <1>7, <1>8, <1>9, <1>10, <1>11 DEF Steps, Progress

\* A volume is built while its allocation is only reserved, removed when it is
\* retired and no loop device is left, worked on by a utility, or unmounted by
\* a restart of its host.
Building(h, a, r) ==
    /\ retired[h][a] = "no" /\ rec[a].state = "Reserved"
    /\ vol[h][a][r] \notin Looped /\ vol'[h][a][r] \in {"unsized", "raw"}

Removing(h, a, r) ==
    /\ retired[h][a] = "yes" /\ vol[h][a][r] \in {"raw", "formatted"}
    /\ vol'[h][a][r] = "absent"

Working(h, a, r) ==
    LET s == helper[h][a].stage IN
    /\ helper[h][a] # NoHelper /\ r = helper[h][a].role /\ s \in DOMAIN Stage
    /\ StepHolds(s, r, retired[h][a], rec[a], vol[h][a])
    /\ vol[h][a][r] \in Stage[s].from /\ vol'[h][a][r] = Stage[s].to
    /\ ~(s = "detach" /\ UsersOf(a) # {})

LEMMA VolumeMoves ==
    ASSUME TypeInv, LockInv, RootInv, EvidenceInv, DecisionsAreCurrent, StepInv, VolumeInv,
           [Next]_vars, NEW h \in Hosts, NEW a \in Allocs, NEW r \in Roles
    PROVE  \/ vol'[h][a][r] = vol[h][a][r]
           \/ /\ UNCHANGED <<rec, authority, retired, ns, granted>>
              /\ authority # NoAuthority /\ authority.host = h
              /\ Building(h, a, r) \/ Removing(h, a, r) \/ Working(h, a, r)
           \/ Reboot(h) /\ vol[h][a][r] \in Looped /\ vol'[h][a][r] = "formatted"
<1>0. TypeOK
  BY DEF TypeInv
<1>1. ASSUME NEW o \in Ops, Steps(o), vol'[h][a][r] # vol[h][a][r]
      PROVE  /\ UNCHANGED <<rec, authority, retired, ns, granted>>
             /\ authority # NoAuthority /\ authority.host = h
             /\ Building(h, a, r) \/ Removing(h, a, r)
  <2>1. CreateImage(o) \/ SizeImage(o) \/ RebuildImage(o) \/ RemoveImage(o)
    BY <1>1 DEF Steps, Progress, BindPool, ReserveCapacity, ReadBefore, CreateOwnership,
       WriteOwnership, Reread, RunHelper, SkipHelper, KeepImage, RoleProvided,
       RecordProvisioned, RecordSeal, RecordLaunch, RecordExecution, RecordRetained,
       RecordQuiescent, CreateMarker, WriteMarker, CheckMarker, DismantleRole,
       RecordRelease, Reject, AcquireLock, Crash, diskVars
  <2>2. /\ op[o].pc \in {"image", "size", "remove"}
        /\ UNCHANGED <<rec, authority, retired, ns, granted>>
    BY <2>1 DEF CreateImage, SizeImage, RebuildImage, RemoveImage, At, ledgerVars,
       processVars
  <2>3. h = Host(o) /\ a = Alloc(o) /\ Alloc(o) \in Allocs
    BY <1>1, OperationTouches DEF DiskKept
  <2>4. authority # NoAuthority /\ authority.host = h
    BY <2>2, <2>3, Hosting, NullAssumption DEF TypeInv, RootInv, OpRooted
  <2>5. StepHolds(op[o].pc, op[o].role, retired[h][a], rec[a], vol[h][a])
    BY <2>2, <2>3 DEF StepInv, OpAtStep, Alloc
  <2>6. CASE RemoveImage(o)
    <3>1. SetVol(o, "absent") /\ LoopsGone(o) /\ op[o].pc = "remove"
      BY <2>6, AdmittedReads DEF RemoveImage, At
    <3>2. r = op[o].role /\ vol'[h][a][r] = "absent"
      BY <1>0, <1>1, <2>3, <3>1, SetVolReads DEF VolumeStates
    <3> QED
      BY <2>2, <2>3, <2>4, <2>5, <3>1, <3>2
      DEF Removing, LoopsGone, Vol, Volume, StepHolds, TeardownSteps
  <2>7. CASE CreateImage(o) \/ SizeImage(o) \/ RebuildImage(o)
    <3>1. \E v \in {"unsized", "raw"} : SetVol(o, v)
      BY <2>7 DEF CreateImage, SizeImage, RebuildImage
    <3>2. r = op[o].role /\ vol'[h][a][r] \in {"unsized", "raw"}
      BY <1>0, <1>1, <2>3, <3>1, SetVolReads DEF VolumeStates
    <3>3. rec[a].state = "Reserved" /\ vol[h][a][r] \notin Looped
      <4>1. CASE CreateImage(o)
        <5>1. op[o].pc = "image" /\ Vol(o) \notin Looped \cup {"formatted"}
          BY <4>1 DEF CreateImage, At, Looped, Mounted
        <5> QED
          BY <2>3, <3>2, <5>1, MissingImage DEF Vol, Volume
      <4>2. CASE SizeImage(o)
        BY <2>3, <2>5, <3>2, <4>2 DEF SizeImage, At, StepHolds, Looped, Mounted
      <4>3. CASE RebuildImage(o)
        <5>1. op[o].pc = "image" /\ View(o).state = "Reserved" /\ Vol(o) \notin Looped
          BY <4>3 DEF RebuildImage, Rebuildable, At
        <5>2. View(o) = rec[Alloc(o)]
          BY <5>1 DEF DecisionsAreCurrent, Deciding
        <5> QED
          BY <2>3, <3>2, <5>1, <5>2 DEF Vol, Volume
      <4> QED
        BY <2>7, <4>1, <4>2, <4>3
    <3>4. retired[h][a] = "no"
      BY <2>5, <2>7 DEF StepHolds, BuildSteps, CreateImage, SizeImage, RebuildImage, At
    <3> QED
      BY <2>2, <2>4, <3>2, <3>3, <3>4 DEF Building
  <2> QED
    BY <2>1, <2>6, <2>7
<1>2. ASSUME NEW g \in Hosts, NEW c \in Allocs, HelperEnds(g, c),
             vol'[h][a][r] # vol[h][a][r]
      PROVE  /\ UNCHANGED <<rec, authority, retired, ns, granted>>
             /\ authority # NoAuthority /\ authority.host = h
             /\ Working(h, a, r)
  <2>1. g = h /\ c = a
    BY <1>2, HelperTouches DEF DiskKept
  <2>2. /\ UNCHANGED <<rec, authority, retired, ns, granted>>
        /\ helper[h][a] # NoHelper /\ helper[h][a].stage \in DOMAIN Stage
        /\ r = helper[h][a].role /\ vol'[h][a][r] = Stage[helper[h][a].stage].to
        /\ ~(helper[h][a].stage = "detach" /\ UsersOf(a) # {})
    BY <1>2, <2>1, HelperTouches
  <2>3. authority = Here(h) /\ Here(h) # NoAuthority /\ Here(h).host = h
    BY <1>0, <2>2, NullAssumption DEF RootInv, DiskRooted, Here, Authorities, TypeOK
  <2>4. HelperAtStep(h, a)
    BY DEF StepInv
  <2> QED
    BY <2>2, <2>3, <2>4 DEF Working, HelperAtStep
<1>3. ASSUME NEW g \in Hosts, Reboot(g), vol'[h][a][r] # vol[h][a][r]
      PROVE  Reboot(h) /\ vol[h][a][r] \in Looped /\ vol'[h][a][r] = "formatted"
  BY <1>3, RebootReads
<1>4. CASE Quiet
  BY <1>4 DEF Quiet
<1> QED
  BY <1>1, <1>2, <1>3, <1>4, NextCases

\* The marker is created, then written, and never removed.
LEMMA MarkerMoves ==
    ASSUME TypeInv, LockInv, StepInv, [Next]_vars, NEW h \in Hosts, NEW a \in Allocs
    PROVE  \/ retired'[h][a] = retired[h][a]
           \/ retired[h][a] = "no" /\ retired'[h][a] = "torn"
           \/ retired[h][a] = "torn" /\ retired'[h][a] = "yes"
<1>0. TypeOK
  BY DEF TypeInv
<1>1. ASSUME NEW o \in Ops, Steps(o), retired'[h][a] # retired[h][a]
      PROVE  \/ retired[h][a] = "no" /\ retired'[h][a] = "torn"
             \/ retired[h][a] = "torn" /\ retired'[h][a] = "yes"
  <2>1. CreateMarker(o) \/ WriteMarker(o)
    BY <1>1 DEF Steps, Progress, BindPool, ReserveCapacity, ReadBefore, CreateOwnership,
       WriteOwnership, Reread, RunHelper, SkipHelper, CreateImage, SizeImage, RebuildImage,
       KeepImage, RoleProvided, RecordProvisioned, RecordSeal, RecordLaunch,
       RecordExecution, RecordRetained, RecordQuiescent, CheckMarker, DismantleRole,
       RemoveImage, RecordRelease, Reject, AcquireLock, Crash, diskVars
  <2>2. h = Host(o) /\ a = Alloc(o) /\ Alloc(o) \in Allocs
    BY <1>1, OperationTouches DEF DiskKept
  <2>3. CASE CreateMarker(o)
    BY <1>0, <2>2, <2>3, SetRetiredReads DEF CreateMarker, Retired
  <2>4. CASE WriteMarker(o)
    <3>1. op[o].pc = "mark" /\ SetRetired(o, "yes")
      BY <2>4 DEF WriteMarker, At
    <3>2. retired[h][a] = "torn"
      BY <2>2, <3>1 DEF StepInv, OpAtStep, StepHolds, Alloc
    <3> QED
      BY <1>0, <2>2, <3>1, <3>2, SetRetiredReads
  <2> QED
    BY <2>1, <2>3, <2>4
<1>2. ASSUME NEW g \in Hosts, NEW c \in Allocs, HelperEnds(g, c)
      PROVE  retired' = retired
  BY <1>2, HelperTouches
<1>3. ASSUME NEW g \in Hosts, Reboot(g)
      PROVE  retired' = retired
  BY <1>3 DEF Reboot
<1>4. CASE Quiet
  BY <1>4 DEF Quiet
<1> QED
  BY <1>1, <1>2, <1>3, <1>4, NextCases

\* A record changes only by a transaction of an operation of its allocation,
\* which changes nothing else that the invariants speak of.
LEMMA RecordChanges ==
    ASSUME TypeInv, LockInv, [Next]_vars, NEW a \in Allocs, rec'[a] # rec[a]
    PROVE  \E o \in Ops :
             /\ Steps(o) /\ Alloc(o) = a /\ Commits(op[o].pc, o, rec[a], rec'[a])
             /\ UNCHANGED <<authority, helper, own, retired, vol, ns, boot>>
<1>1. ASSUME NEW o \in Ops, Steps(o)
      PROVE  /\ Alloc(o) = a /\ Commits(op[o].pc, o, rec[a], rec'[a])
             /\ UNCHANGED <<authority, helper, own, retired, vol, ns, boot>>
  BY <1>1, RecordMoves, OperationTouches
<1>2. ASSUME NEW g \in Hosts, NEW c \in Allocs, HelperEnds(g, c)
      PROVE  FALSE
  BY <1>2, HelperTouches
<1>3. ASSUME NEW g \in Hosts, Reboot(g)
      PROVE  FALSE
  BY <1>3 DEF Reboot, ledgerVars
<1>4. CASE Quiet
  BY <1>4 DEF Quiet
<1> QED
  BY <1>1, <1>2, <1>3, <1>4, NextCases

\* The authority is bound once, and nothing else happens then.
LEMMA AuthorityMoves ==
    ASSUME TypeInv, LockInv, [Next]_vars
    PROVE  \/ authority' = authority
           \/ authority = NoAuthority /\ UNCHANGED <<rec, ns, granted>>
<1>1. ASSUME NEW o \in Ops, Steps(o), authority' # authority
      PROVE  authority = NoAuthority /\ UNCHANGED <<rec, ns, granted>>
  <2>1. op[o].pc = "bind"
    BY <1>1, OperationTouches
  <2>2. BindPool(o)
    BY <1>1, <2>1 DEF Steps, Progress, ReserveCapacity, ReadBefore, CreateOwnership,
       WriteOwnership, Reread, RunHelper, SkipHelper, CreateImage, SizeImage, RebuildImage,
       KeepImage, RoleProvided, RecordProvisioned, RecordSeal, RecordLaunch,
       RecordExecution, RecordRetained, RecordQuiescent, CreateMarker, WriteMarker,
       CheckMarker, DismantleRole, RemoveImage, RecordRelease, Reject, AcquireLock, Crash,
       At, ledgerVars, Stage
  <2> QED
    BY <1>1, <2>2 DEF BindPool, BindPoolAuthority, CanBindPoolAuthority, processVars
<1>2. ASSUME NEW g \in Hosts, NEW c \in Allocs, HelperEnds(g, c)
      PROVE  authority' = authority
  BY <1>2, HelperTouches
<1>3. ASSUME NEW g \in Hosts, Reboot(g)
      PROVE  authority' = authority
  BY <1>3 DEF Reboot, ledgerVars
<1>4. CASE Quiet
  BY <1>4 DEF Quiet
<1> QED
  BY <1>1, <1>2, <1>3, <1>4, NextCases

\* Boots are counted one by one.
LEMMA BootMoves ==
    ASSUME TypeInv, LockInv, [Next]_vars, NEW h \in Hosts
    PROVE  /\ boot[h] \in Nat
           /\ \/ boot'[h] = boot[h]
              \/ boot'[h] = boot[h] + 1 /\ Reboot(h)
<1>1. boot[h] \in Nat
  BY ManagerAssumption DEF TypeInv, TypeOK
<1>2. ASSUME NEW o \in Ops, Steps(o)
      PROVE  boot' = boot
  BY <1>2, OperationTouches
<1>3. ASSUME NEW g \in Hosts, NEW c \in Allocs, HelperEnds(g, c)
      PROVE  boot' = boot
  BY <1>3, HelperTouches
<1>4. ASSUME NEW g \in Hosts, Reboot(g)
      PROVE  boot'[h] = boot[h] \/ (boot'[h] = boot[h] + 1 /\ Reboot(h))
  BY <1>4, RebootReads
<1>5. CASE Quiet
  BY <1>1, <1>5 DEF Quiet
<1> QED
  BY <1>1, <1>2, <1>3, <1>4, <1>5, NextCases

-----------------------------------------------------------------------------
(* What the phases of the record say of the volumes.                         *)
LEMMA VolumeStep ==
    ASSUME TypeInv, LockInv, RootInv, EvidenceInv, NothingStartsUnbound,
           DecisionsAreCurrent, StepInv, VolumeInv, [Next]_vars
    PROVE  VolumeInv'
<1>1. Inputs \in Roles
  BY ManagerAssumption DEF Inputs, Roles
<1>2. \A c \in Allocs : /\ rec[c].sealed => rec[c].provisioning # NoReceipt
                        /\ rec[c].state = "Reserved" =>
                             rec[c].provisioning = NoReceipt /\ ~rec[c].sealed
                        /\ rec[c].provisioning # NoReceipt => authority # NoAuthority
  BY DEF EvidenceInv, FreshRecords, UnsealedNeverLaunches, NothingStartsUnbound
\* The host of an operation that commits is the bound one.
<1>3. ASSUME NEW o \in Ops, op[o].pc \in {"provisioned_tx", "seal_tx"}
      PROVE  /\ authority # NoAuthority /\ authority.host = Host(o)
             /\ StepHolds(op[o].pc, op[o].role, retired[Host(o)][Alloc(o)], rec[Alloc(o)],
                          vol[Host(o)][Alloc(o)])
  BY <1>3, Hosting, NullAssumption DEF TypeInv, RootInv, OpRooted, StepInv, OpAtStep, Alloc
<1>4. ASSUME NEW h \in Hosts, NEW a \in Allocs,
             authority' # NoAuthority, authority'.host = h, retired'[h][a] = "no"
      PROVE  /\ rec'[a].provisioning # NoReceipt =>
                  \A r \in Roles : vol'[h][a][r] \in Looped \cup {"formatted"}
             /\ rec'[a].sealed /\ authority' = Here(h)' => vol'[h][a][Inputs] = "sealed"
  <2>1. retired[h][a] = "no"
    BY <1>4, MarkerMoves
  <2>2. authority' = authority \/ (rec'[a].provisioning = NoReceipt /\ ~rec'[a].sealed)
    BY <1>2, AuthorityMoves
  <2>3. ASSUME rec'[a].provisioning # NoReceipt, NEW r \in Roles
        PROVE  vol'[h][a][r] \in Looped \cup {"formatted"}
    <3>1. CASE rec[a].provisioning # NoReceipt
      <4>1. \A q \in Roles : vol[h][a][q] \in Looped \cup {"formatted"}
        BY <1>4, <2>1, <2>2, <2>3, <3>1 DEF VolumeInv, CertifiedKept
      <4>2. ~Building(h, a, r) /\ ~Removing(h, a, r)
        BY <1>2, <2>1, <3>1 DEF Building, Removing
      <4>3. Working(h, a, r) => vol'[h][a][r] \in Looped \cup {"formatted"}
        BY StageReads DEF Working, StageResults, Looped, Mounted
      <4> QED
        BY <4>1, <4>2, <4>3, VolumeMoves
    <3>2. CASE rec[a].provisioning = NoReceipt
      <4>1. PICK o \in Ops : /\ Alloc(o) = a /\ Commits(op[o].pc, o, rec[a], rec'[a])
                             /\ UNCHANGED <<authority, vol>>
        BY <2>3, <3>2, RecordChanges
      <4>2. op[o].pc = "provisioned_tx"
        BY <2>3, <3>2, <4>1 DEF Commits
      <4>3. h = Host(o) /\ vol[h][a][r] \in Finished
        BY <1>3, <1>4, <4>1, <4>2 DEF StepHolds
      <4> QED
        BY <4>1, <4>3 DEF Finished, Looped, Mounted
    <3> QED
      BY <3>1, <3>2
  <2>4. ASSUME rec'[a].sealed, authority' = Here(h)'
        PROVE  vol'[h][a][Inputs] = "sealed"
    <3>1. CASE rec[a].sealed
      <4>1. authority' = authority /\ authority.boot = boot'[h] /\ authority.boot \in Nat
        BY <1>4, <2>2, <2>4, ManagerAssumption
        DEF Here, TypeInv, TypeOK, LedgerTypeOK, Authorities
      <4>2. boot'[h] = boot[h]
        BY <1>4, <4>1, BootMoves DEF RootInv, BootReached
      <4>3. authority = Here(h) /\ ~Reboot(h)
        BY <2>4, <4>1, <4>2, BootMoves, RebootReads DEF Here
      <4>4. vol[h][a][Inputs] = "sealed"
        BY <1>4, <2>1, <3>1, <4>1, <4>3 DEF VolumeInv, CertifiedKept
      <4>5. ~Building(h, a, Inputs) /\ ~Removing(h, a, Inputs)
        BY <1>2, <2>1, <3>1 DEF Building, Removing
      <4>6. ~Working(h, a, Inputs)
        <5>1. ASSUME Working(h, a, Inputs)
              PROVE  helper[h][a].stage = "umount"
          BY <4>4, <5>1, StageReads DEF Working, Stage, Mounted, Repairable
        <5>2. ASSUME Working(h, a, Inputs)
              PROVE  retired[h][a] = "yes"
          BY <5>1, <5>2 DEF Working, StepHolds, TeardownSteps
        <5> QED
          BY <2>1, <5>2
      <4> QED
        BY <1>1, <4>3, <4>4, <4>5, <4>6, VolumeMoves
    <3>2. CASE ~rec[a].sealed
      <4>1. PICK o \in Ops : /\ Alloc(o) = a /\ Commits(op[o].pc, o, rec[a], rec'[a])
                             /\ UNCHANGED <<authority, vol>>
        BY <2>4, <3>2, RecordChanges
      <4>2. op[o].pc = "seal_tx"
        BY <2>4, <3>2, <4>1 DEF Commits
      <4> QED
        BY <1>3, <1>4, <4>1, <4>2 DEF StepHolds
    <3> QED
      BY <3>1, <3>2
  <2> QED
    BY <2>3, <2>4
<1>5. ASSUME NEW a \in Allocs, rec'[a].sealed
      PROVE  vol'[authority'.host][a][Inputs] \notin {"mounted", "ready"}
  <2>1. CASE rec[a].sealed
    <3> DEFINE h == authority.host
    <3>1. authority # NoAuthority /\ authority' = authority /\ h \in Hosts
      BY <1>2, <2>1, AuthorityMoves DEF TypeInv, TypeOK, LedgerTypeOK, Authorities
    <3>2. vol[h][a][Inputs] \notin {"mounted", "ready"}
      BY <2>1 DEF VolumeInv, SealKept
    <3> HIDE DEF h
    <3>3. ASSUME Working(h, a, Inputs), vol'[h][a][Inputs] \in {"mounted", "ready"}
          PROVE  FALSE
      <4>1. helper[h][a].stage = "mount"
        BY SMTT(60), <3>2, <3>3, StageReads DEF Working, Stage, Repairable
      <4>2. retired[h][a] = "no" /\ vol[h][a][Inputs] = "attached"
        BY <3>3, <4>1 DEF Working, StepHolds, BuildSteps, Stage
      <4>3. authority = Here(h)
        BY <3>1, <3>3 DEF Working, RootInv, DiskRooted
      <4>4. vol[h][a][Inputs] = "sealed"
        BY <2>1, <3>1, <4>2, <4>3 DEF VolumeInv, CertifiedKept, h
      <4> QED
        BY <4>2, <4>4
    <3>4. vol'[h][a][Inputs] \notin {"mounted", "ready"}
      BY <1>1, <3>1, <3>2, <3>3, VolumeMoves DEF Building, Removing
    <3> QED
      BY <3>1, <3>4 DEF h
  <2>2. CASE ~rec[a].sealed
    <3>1. PICK o \in Ops : /\ Alloc(o) = a /\ Commits(op[o].pc, o, rec[a], rec'[a])
                           /\ UNCHANGED <<authority, vol>>
      BY <1>5, <2>2, RecordChanges
    <3>2. op[o].pc = "seal_tx"
      BY <1>5, <2>2, <3>1 DEF Commits
    <3> QED
      BY <1>3, <3>1, <3>2 DEF StepHolds
  <2> QED
    BY <2>1, <2>2
<1> QED
  BY <1>4, <1>5 DEF VolumeInv, CertifiedKept, SealKept

-----------------------------------------------------------------------------
(* What the processes do.                                                    *)

\* A process is started on mounted volumes of an admitted launch, and dies.
LEMMA ProcessMoves ==
    ASSUME TypeInv, LockInv, RootInv, [Next]_vars, NEW n \in Namespaces
    PROVE  \/ /\ ns'[n].alloc = ns[n].alloc /\ ns'[n].boot = ns[n].boot
              /\ \/ ns'[n].state = ns[n].state
                 \/ ns[n].state = "live" /\ ns'[n].state = "dead"
           \/ /\ ns[n].state = "none" /\ ns'[n].state = "live"
              /\ ns'[n].alloc \in granted
              /\ authority # NoAuthority /\ UNCHANGED <<rec, authority, vol>>
              /\ \A r \in Roles : vol[authority.host][ns'[n].alloc][r] \in Mounted
<1>1. ASSUME NEW o \in Ops, Steps(o)
      PROVE  ns' = ns
  BY <1>1, OperationTouches
<1>2. ASSUME NEW g \in Hosts, NEW c \in Allocs, HelperEnds(g, c)
      PROVE  ns' = ns
  BY <1>2, HelperTouches
<1>3. ASSUME NEW g \in Hosts, Reboot(g)
      PROVE  /\ ns'[n].alloc = ns[n].alloc /\ ns'[n].boot = ns[n].boot
             /\ \/ ns'[n].state = ns[n].state
                \/ ns[n].state = "live" /\ ns'[n].state = "dead"
  <2>1. /\ ns'[n].alloc = ns[n].alloc /\ ns'[n].boot = ns[n].boot
        /\ ns'[n].state = IF ns[n].boot = Here(g) THEN "dead" ELSE ns[n].state
    BY <1>3, RebootReads
  <2>2. ns[n].state \in {"none", "live", "dead"}
    BY DEF TypeInv, TypeOK
  <2>3. ns[n].state = "none" => ns[n].boot # Here(g)
    BY NullAssumption DEF TypeInv, TypeOK, Here, Authorities
  <2> QED
    BY <2>1, <2>2, <2>3
<1>4. CASE Quiet
  <2>1. UNCHANGED <<rec, authority, vol>>
    BY <1>4 DEF Quiet
  <2> QED
    BY <1>4, <2>1, QuietProcesses
<1> QED
  BY <1>1, <1>2, <1>3, <1>4, NextCases

\* A restart of the bound host ends every process.
LEMMA NobodySurvives ==
    ASSUME TypeInv, RootInv, NEW n \in Namespaces, ns[n].state = "live",
           Reboot(authority.host)
    PROVE  ns'[n].state = "dead"
<1>1. /\ authority # NoAuthority /\ ns[n].boot = authority
      /\ authority = Here(authority.host)
  BY DEF RootInv, ProcessRooted
<1>2. authority.host \in Hosts
  BY <1>1 DEF TypeInv, TypeOK, LedgerTypeOK, Authorities
<1> QED
  BY <1>1, <1>2, RebootReads

\* Only the transaction of begin_launch admits a process.
LEMMA GrantMoves ==
    ASSUME TypeInv, LockInv, [Next]_vars, NEW a \in granted', a \notin granted
    PROVE  rec'[a].state = "Launching"
<1>1. ASSUME NEW o \in Ops, Steps(o)
      PROVE  rec'[a].state = "Launching"
  <2>1. RecordLaunch(o)
    BY <1>1 DEF Steps, Progress, BindPool, ReserveCapacity, ReadBefore, CreateOwnership,
       WriteOwnership, Reread, RunHelper, SkipHelper, CreateImage, SizeImage, RebuildImage,
       KeepImage, RoleProvided, RecordProvisioned, RecordSeal, RecordExecution,
       RecordRetained, RecordQuiescent, CreateMarker, WriteMarker, CheckMarker,
       DismantleRole, RemoveImage, RecordRelease, Reject, AcquireLock, Crash, processVars
  <2>2. a = Alloc(o) /\ Save(a, [rec[a] EXCEPT !.state = "Launching"])
    BY <2>1 DEF RecordLaunch, BeginLaunch
  <2>3. a \in Allocs
    BY <1>1, <2>2, OperationTouches
  <2> QED
    BY <2>2, <2>3 DEF Save, TypeInv, TypeOK, LedgerTypeOK, Records
<1>2. ASSUME NEW g \in Hosts, NEW c \in Allocs, HelperEnds(g, c)
      PROVE  granted' = granted
  BY <1>2, HelperTouches
<1>3. ASSUME NEW g \in Hosts, Reboot(g)
      PROVE  granted' = granted
  BY SMTT(60), <1>3 DEF Reboot
<1>4. CASE Quiet
  BY <1>4 DEF Quiet, Request, RequestOnNamespace, Launch, CaptureNamespace, NamespaceDies,
     processVars
<1> QED
  BY <1>1, <1>2, <1>3, <1>4, NextCases

\* The namespace an operation carries is the one it was called with, or the
\* one it found bound when it recovers.
LEMMA CarriedMoves ==
    ASSUME TypeInv, NEW o \in Ops, Steps(o)
    PROVE  \/ op'[o] = IdleOp
           \/ Reread(o)
           \/ /\ op'[o].ns = op[o].ns /\ op'[o].kind = op[o].kind /\ op[o].pc # "idle"
              /\ op'[o].pc \notin {"bind_tx", "quiescent_tx"}
<1>0. TypeOK
  BY DEF TypeInv
<1> DEFINE Other == Pcs \ {"bind_tx", "quiescent_tx"}
           Same == /\ op'[o].ns = op[o].ns /\ op'[o].kind = op[o].kind /\ op[o].pc # "idle"
                   /\ op'[o].pc \notin {"bind_tx", "quiescent_tx"}
<1>1. op[o].pc # "idle"
  BY OperationTouches
<1>2. ASSUME NEW p \in Other, Goto(o, p)
      PROVE  Same
  BY <1>0, <1>1, <1>2, GotoReads
<1>3. ASSUME NEW p \in Other, NEW q \in Other, Turns(o, p, q)
      PROVE  Same
  BY <1>0, <1>1, <1>3, NextRoleReads
<1>4. ASSUME NEW p \in Other, NEW r, See(o, p, r)
      PROVE  Same
  BY <1>0, <1>1, <1>4, Hosting DEF See, OpRecords
<1>5. {"reserve", "before", "lock", "own", "write_own", "image", "size", "attach", "format",
       "mount", "chown", "provided", "seal_tx", "detach", "remove", "helper",
       "provisioned_tx", "mark", "dismantle", "umount", "release_tx",
       "teardown"} \subseteq Other
  BY PcsReads
<1> HIDE DEF Other, Same
<1>6. CASE \/ BindPool(o) \/ ReserveCapacity(o) \/ AcquireLock(o) \/ CreateOwnership(o)
           \/ WriteOwnership(o) \/ RunHelper(o) \/ SkipHelper(o) \/ CreateImage(o)
           \/ SizeImage(o) \/ RebuildImage(o) \/ KeepImage(o) \/ CreateMarker(o)
           \/ WriteMarker(o) \/ CheckMarker(o)
  <2>1. \E p \in Other : Goto(o, p)
    BY <1>5, <1>6, StageReads DEF BindPool, ReserveCapacity, AcquireLock, CreateOwnership,
       WriteOwnership, RunHelper, SkipHelper, CreateImage, SizeImage, RebuildImage,
       KeepImage, CreateMarker, WriteMarker, CheckMarker
  <2> QED
    BY <1>2, <2>1 DEF Same
<1>7. CASE RoleProvided(o) \/ DismantleRole(o) \/ RemoveImage(o)
  <2>1. \/ \E p \in Other : Goto(o, p)
        \/ \E p, q \in Other : Turns(o, p, q)
    BY <1>5, <1>7 DEF RoleProvided, DismantleRole, RemoveImage, Turns
  <2> QED
    BY <1>2, <1>3, <2>1 DEF Same
<1>8. CASE ReadBefore(o) \/ RecordQuiescent(o)
  BY <1>4, <1>5, <1>8 DEF ReadBefore, RecordQuiescent, Same
<1>9. CASE \/ RecordProvisioned(o) \/ RecordSeal(o) \/ RecordLaunch(o)
           \/ RecordExecution(o) \/ RecordRetained(o) \/ RecordRelease(o) \/ Reject(o)
           \/ Crash(o)
  BY <1>0, <1>9, EndReads, CrashReads DEF RecordProvisioned, RecordSeal, RecordLaunch,
     RecordExecution, RecordRetained, RecordRelease, Reject
<1> QED
  BY <1>6, <1>7, <1>8, <1>9 DEF Steps, Progress

\* A launch admitted once is not taken back.
LEMMA LaunchedKept ==
    ASSUME TypeInv, EvidenceInv, [Next]_vars, NEW a \in Allocs, Launched(rec[a])
    PROVE  Launched(rec'[a])
<1>1. Launched(rec[a])'
  BY LedgerStep, LaunchedStep DEF TypeInv, TypeOK
<1> QED
  BY <1>1 DEF Launched

LEMMA GroundedStep ==
    ASSUME TypeInv, LockInv, RootInv, EvidenceInv, DecisionsAreCurrent, StepInv, VolumeInv,
           ProcessInv, [Next]_vars, NEW n \in Namespaces
    PROVE  ProcessGrounded(n)'
<1> DEFINE a == ns[n].alloc
           h == authority.host
<1>1. ProcessGrounded(n) /\ \A c \in granted : c \in Allocs /\ Launched(rec[c])
  BY DEF ProcessInv, TypeInv, TypeOK
<1>2. CASE /\ ns[n].state = "none" /\ ns'[n].state = "live" /\ ns'[n].alloc \in granted
           /\ authority # NoAuthority /\ UNCHANGED <<rec, authority, vol>>
           /\ \A r \in Roles : vol[authority.host][ns'[n].alloc][r] \in Mounted
  <2>1. Launched(rec'[ns'[n].alloc])
    BY <1>1, <1>2
  <2>2. \A r \in Roles : vol'[authority'.host][ns'[n].alloc][r] \in Mounted
    BY <1>2
  <2> QED
    BY <1>2, <2>1, <2>2 DEF ProcessGrounded, Keeps, Launched, Looped
<1>3. CASE /\ ns'[n].alloc = ns[n].alloc /\ ns'[n].boot = ns[n].boot
           /\ \/ ns'[n].state = ns[n].state
              \/ ns[n].state = "live" /\ ns'[n].state = "dead"
  <2>1. CASE ns[n].state = "none"
    BY <1>3, <2>1 DEF ProcessGrounded
  <2>2. CASE ns[n].state # "none"
    <3>1. a \in Allocs /\ Launched(rec[a])
      BY <1>1, <2>2 DEF TypeInv, ProcessGrounded
    <3>2. Launched(rec'[a])
      BY <3>1, LaunchedKept
    <3>3. CASE ns'[n].state # "live"
      BY <1>3, <3>2, <3>3 DEF ProcessGrounded, Launched
    <3>4. CASE ns'[n].state = "live"
      <4>1. /\ ns[n].state = "live" /\ authority # NoAuthority /\ authority' = authority
            /\ h \in Hosts /\ ~Reboot(h) /\ n \in UsersOf(a)
        <5>1. ns[n].state = "live" /\ authority # NoAuthority
          BY <1>3, <3>4 DEF RootInv, ProcessRooted
        <5> QED
          BY <3>4, <5>1, NothingUnbinds, NobodySurvives
          DEF TypeInv, TypeOK, LedgerTypeOK, Authorities, UsersOf
      <4>2. \A r \in Roles : vol[h][a][r] \in Looped
        BY <1>1, <4>1 DEF ProcessGrounded, Keeps
      <4>3. \A r \in Roles : ~Building(h, a, r) /\ ~Removing(h, a, r)
        BY <3>1, <4>2 DEF Building, Removing, Launched, Looped, Mounted
      <4> HIDE DEF a, h
      <4>4. \A r \in Roles : \/ vol'[h][a][r] = vol[h][a][r]
                             \/ Working(h, a, r)
        BY <3>1, <4>1, <4>3, VolumeMoves
      <4>5. \A r \in Roles : Working(h, a, r) => vol'[h][a][r] \in Looped
        BY <4>1, <4>2, StageReads DEF Working, Stage, Looped, Mounted, Repairable
      <4>6. \A r \in Roles : vol'[h][a][r] \in Looped
        BY <4>2, <4>4, <4>5
      <4>7. ASSUME rec'[a].execution = NoBinding \/ rec'[a].execution.ns = n,
                   NEW r \in Roles
            PROVE  vol'[h][a][r] \in Mounted
        <5>1. rec[a].execution # NoBinding => rec'[a].execution = rec[a].execution
          BY <3>1, LedgerStep, GrowsStep DEF LedgerGrows, Grows, TypeInv, TypeOK
        <5>2. rec[a].execution = NoBinding \/ rec[a].execution.ns = n
          BY <4>7, <5>1
        <5>3. vol[h][a][r] \in Mounted
          BY <1>1, <4>1, <5>2 DEF ProcessGrounded, Keeps, a, h
        <5>4. ~Unneeded(rec[a])
          BY <3>1, <4>1, <5>2 DEF Unneeded, Launched, ProcessInv, ExecutionSeen, EvidenceInv,
             UnsealedNeverLaunches
        <5>5. ASSUME Working(h, a, r)
              PROVE  helper[h][a].stage \in {"chown", "seal"}
          <6>1. helper[h][a].stage \in {"chown", "seal", "umount"}
            BY <5>3, <5>5, StageReads DEF Working, Stage, Mounted, Repairable
          <6>2. helper[h][a].stage # "umount"
            BY <5>4, <5>5 DEF Working, StepHolds, TeardownSteps
          <6> QED
            BY <6>1, <6>2
        <5>6. Working(h, a, r) => vol'[h][a][r] \in Mounted
          BY <5>5 DEF Working, Stage, Mounted
        <5> QED
          BY <4>4, <5>3, <5>6
      <4>8. ns'[n].alloc = a /\ authority'.host = h
        BY <1>3, <4>1 DEF a, h
      <4> QED
        BY <3>2, <4>6, <4>7, <4>8 DEF ProcessGrounded, Keeps, Launched
    <3> QED
      BY <3>3, <3>4
  <2> QED
    BY <2>1, <2>2
<1> QED
  BY <1>2, <1>3, ProcessMoves

LEMMA SeenStep ==
    ASSUME TypeInv, LockInv, RootInv, EvidenceInv, ProcessInv, [Next]_vars,
           NEW a \in Allocs
    PROVE  ExecutionSeen(a)'
<1>1. /\ rec[a] \in Records /\ ExecutionSeen(a) /\ \A o \in Ops : OpSeen(o)
      /\ rec[a].execution # NoBinding => rec'[a].execution = rec[a].execution
  BY LedgerStep, GrowsStep
  DEF ProcessInv, LedgerGrows, Grows, TypeInv, TypeOK, LedgerTypeOK
<1>2. ASSUME NEW n \in Namespaces
      PROVE  /\ ns[n].state # "none" => ns'[n].state # "none"
             /\ ns[n].state = "dead" => ns'[n].state = "dead"
  BY ProcessMoves
<1>3. ASSUME rec'[a] = rec[a]
      PROVE  ExecutionSeen(a)'
  BY <1>1, <1>2, <1>3 DEF ExecutionSeen, Records, Bindings
<1>4. ASSUME NEW o \in Ops, Steps(o), Alloc(o) = a,
             Commits(op[o].pc, o, rec[a], rec'[a]), ns' = ns
      PROVE  ExecutionSeen(a)'
  <2>1. OpSeen(o) /\ op[o].pc # "idle"
    BY <1>1, <1>4, OperationTouches
  <2>2. CASE op[o].pc = "bind_tx"
    BY <1>4, <2>1, <2>2 DEF Commits, OpSeen, ExecutionSeen, Carried
  <2>3. CASE op[o].pc = "quiescent_tx"
    BY <1>4, <2>1, <2>3 DEF Commits, OpSeen, ExecutionSeen, Carried
  <2>4. CASE op[o].pc \notin {"bind_tx", "quiescent_tx"}
    BY <1>1, <1>4, <2>4 DEF Commits, ExecutionSeen
  <2> QED
    BY <2>2, <2>3, <2>4
<1> QED
  BY <1>3, <1>4, RecordChanges

LEMMA OpSeenStep ==
    ASSUME TypeInv, LockInv, RootInv, EvidenceInv, ProcessInv, [Next]_vars,
           NEW q \in Ops
    PROVE  OpSeen(q)'
<1>1. /\ OpSeen(q) /\ \A a \in Allocs : ExecutionSeen(a)
      /\ IdleOp.pc = "idle"
  BY IdleOpReads DEF ProcessInv
<1>2. ASSUME NEW n \in Namespaces
      PROVE  /\ ns[n].state # "none" => ns'[n].state # "none"
             /\ ns[n].state = "dead" => ns'[n].state = "dead"
  BY ProcessMoves
<1>3. op[q].pc # "idle" /\ \/ op[q].kind \in {"bind_execution", "quiescent_release"}
                           \/ op[q].pc \in {"bind_tx", "quiescent_tx"}
        => op[q].ns \in Namespaces
  BY DEF TypeInv
<1>4. ASSUME op'[q] = op[q]
      PROVE  OpSeen(q)'
  BY <1>1, <1>2, <1>3, <1>4 DEF OpSeen
<1>5. ASSUME op'[q] = IdleOp
      PROVE  OpSeen(q)'
  BY <1>1, <1>5 DEF OpSeen
<1>6. ASSUME op'[q].ns = op[q].ns, op'[q].kind = op[q].kind, op[q].pc # "idle",
             op'[q].pc \notin {"bind_tx", "quiescent_tx"}
      PROVE  OpSeen(q)'
  BY <1>1, <1>2, <1>3, <1>6 DEF OpSeen
<1>7. ASSUME Reread(q)
      PROVE  OpSeen(q)'
  <2>1. op[q].pc = "own" /\ OwnershipHolds(q) /\ Alloc(q) \in Allocs /\ Own(q) = "ok"
    BY <1>7, RereadReads DEF Reread
  <2>2. CASE End(q)
    BY <1>5, <2>2, EndReads DEF TypeInv
  <2>3. CASE /\ ~(op[q].kind = "recover_and_release" /\ Fresh(q).state = "Released")
             /\ op'[q].kind = op[q].kind
             /\ op'[q].ns = IF op[q].kind = "recover_and_release"
                               /\ Fresh(q).execution # NoBinding
                            THEN Fresh(q).execution.ns ELSE op[q].ns
             /\ op'[q].pc = "bind_tx" => op[q].kind = "bind_execution"
             /\ op'[q].pc = "quiescent_tx" =>
                  \/ op[q].kind = "quiescent_release"
                  \/ op[q].kind = "recover_and_release" /\ Fresh(q).execution # NoBinding
    <3>1. CASE op[q].kind = "recover_and_release" /\ Fresh(q).execution # NoBinding
      <4>1. MayRecover(q, Fresh(q))
        BY <2>1, <3>1 DEF OwnershipHolds, MayEnter
      <4>2. ns[Fresh(q).execution.ns].state # "live"
        BY <2>3, <3>1, <4>1 DEF MayRecover, DeathObserved
      <4>3. ns[Fresh(q).execution.ns].state # "none"
        BY <1>1, <2>1, <3>1 DEF ExecutionSeen, Fresh
      <4>4. Fresh(q).execution.ns \in Namespaces
        BY <2>1, <3>1 DEF Fresh, TypeInv, TypeOK, LedgerTypeOK, Records, Bindings
      <4>5. ns[Fresh(q).execution.ns].state = "dead"
        BY <4>2, <4>3, <4>4 DEF TypeInv, TypeOK
      <4> QED
        BY <1>2, <2>3, <3>1, <4>4, <4>5 DEF OpSeen
    <3>2. CASE ~(op[q].kind = "recover_and_release" /\ Fresh(q).execution # NoBinding)
      BY <1>1, <1>2, <1>3, <2>1, <2>3, <3>2 DEF OpSeen
    <3> QED
      BY <3>1, <3>2
  <2>4. End(q) \/ ~(op[q].kind = "recover_and_release" /\ Fresh(q).state = "Released")
    BY <1>7 DEF Reread
  <2> QED
    BY SMTT(60), <1>7, <2>2, <2>3, <2>4, RereadReads
<1>8. ASSUME NEW o \in Ops, Steps(o)
      PROVE  OpSeen(q)'
  <2>1. CASE o = q
    BY <1>5, <1>6, <1>7, <1>8, <2>1, CarriedMoves
  <2>2. CASE o # q
    BY <1>4, <1>8, <2>2, OperationTouches
  <2> QED
    BY <2>1, <2>2
<1>9. ASSUME NEW g \in Hosts, NEW c \in Allocs, HelperEnds(g, c)
      PROVE  OpSeen(q)'
  <2>1. Stage[helper[g][c].stage].next \notin {"bind_tx", "quiescent_tx"}
    BY ZenonT(60), <1>9, HelperTouches, StageReads
  <2> QED
    BY <1>4, <1>5, <1>6, <1>9, <2>1, HelperMoves
<1>10. ASSUME NEW g \in Hosts, Reboot(g)
       PROVE  OpSeen(q)'
  BY <1>4, <1>5, <1>10, RebootReads
<1>11. ASSUME NEW o \in Ops, NEW k \in Kinds, NEW c \in Allocs, Request(o, k, c)
       PROVE  OpSeen(q)'
  <2>1. CASE o = q
    <3>1. op'[q].kind \notin {"bind_execution", "quiescent_release"}
          /\ op'[q].pc \notin {"bind_tx", "quiescent_tx"}
      BY <1>11, <2>1, RequestReads DEF TypeInv
    <3> QED
      BY <3>1 DEF OpSeen
  <2>2. CASE o # q
    BY <1>4, <1>11, <2>2, RequestReads DEF TypeInv
  <2> QED
    BY <2>1, <2>2
<1>12. ASSUME NEW o \in Ops, NEW k \in Kinds, NEW n \in Namespaces,
              RequestOnNamespace(o, k, n)
       PROVE  OpSeen(q)'
  <2>1. CASE o = q
    <3>1. op'[q].kind = k /\ op'[q].ns = n /\ op'[q].pc = "before"
      BY <1>12, <2>1, RequestOnReads
    <3>2. ns[n].state # "none" /\ (k = "quiescent_release" => ns[n].state = "dead")
      BY <1>12 DEF RequestOnNamespace, TypeInv
    <3> QED
      BY <1>2, <3>1, <3>2 DEF OpSeen
  <2>2. CASE o # q
    BY <1>4, <1>12, <2>2, RequestOnReads
  <2> QED
    BY <2>1, <2>2
<1>13. CASE Quiet
  <2>1. op' = op \/ (\E o \in Ops, k \in Kinds, a \in Allocs : Request(o, k, a))
        \/ (\E o \in Ops, k \in Kinds, n \in Namespaces : RequestOnNamespace(o, k, n))
    BY <1>13 DEF Quiet, Launch, CaptureNamespace, NamespaceDies
  <2> QED
    BY <1>4, <1>11, <1>12, <2>1
<1> QED
  BY <1>8, <1>9, <1>10, <1>13, NextCases

LEMMA GoneStep ==
    ASSUME TypeInv, LockInv, RootInv, EvidenceInv, NothingStartsUnbound,
           DecisionsAreCurrent, StepInv, VolumeInv, ProcessInv, [Next]_vars,
           NEW a \in Allocs
    PROVE  Gone(a)'
<1>1. CASE rec[a].state = "Released"
  <2>1. authority # NoAuthority /\ authority' = authority /\ authority.host \in Hosts
    BY <1>1, NothingUnbinds
    DEF NothingStartsUnbound, TypeInv, TypeOK, LedgerTypeOK, Authorities
  <2>2. /\ \A h \in Hosts, r \in Roles : vol[h][a][r] = "absent"
        /\ retired[authority.host][a] = "yes"
    BY <1>1 DEF ProcessInv, Gone
  <2>3. retired'[authority'.host][a] = "yes"
    BY <2>1, <2>2, MarkerMoves
  <2>4. ASSUME NEW h \in Hosts, NEW r \in Roles
        PROVE  vol'[h][a][r] = "absent"
    <3>1. ~Building(h, a, r) /\ ~Removing(h, a, r)
      BY <1>1, <2>2 DEF Building, Removing
    <3>2. ~Working(h, a, r)
      BY <2>2, StageReads DEF Working, Stage, Mounted, Repairable
    <3>3. vol[h][a][r] \notin Looped
      BY <2>2 DEF Looped, Mounted
    <3> QED
      BY <2>2, <3>1, <3>2, <3>3, VolumeMoves
  <2> QED
    BY <2>3, <2>4 DEF Gone
<1>2. CASE rec[a].state # "Released" /\ rec'[a].state = "Released"
  <2>1. PICK o \in Ops : /\ Steps(o) /\ Alloc(o) = a
                         /\ Commits(op[o].pc, o, rec[a], rec'[a])
                         /\ UNCHANGED <<authority, retired, vol>>
    BY <1>2, RecordChanges
  <2>2. op[o].pc = "release_tx"
    BY <1>2, <2>1 DEF Commits
  <2>3. authority # NoAuthority /\ authority.host = Host(o)
    BY <2>2, Hosting, NullAssumption DEF TypeInv, RootInv, OpRooted
  <2>4. /\ retired[Host(o)][a] = "yes"
        /\ \A r \in Roles : vol[Host(o)][a][r] = "absent"
    BY <2>1, <2>2 DEF StepInv, OpAtStep, StepHolds, Alloc
  <2>5. \A h \in Hosts, r \in Roles : vol[h][a][r] = "absent"
    BY <2>3, <2>4 DEF RootInv, DiskRooted, Touched
  <2> QED
    BY <2>1, <2>3, <2>4, <2>5 DEF Gone
<1> QED
  BY <1>1, <1>2 DEF Gone

LEMMA ProcessStep ==
    ASSUME TypeInv, LockInv, RootInv, EvidenceInv, NothingStartsUnbound,
           DecisionsAreCurrent, StepInv, VolumeInv, ProcessInv, [Next]_vars
    PROVE  ProcessInv'
<1>1. ASSUME NEW a \in granted'
      PROVE  Launched(rec'[a])
  <2>1. CASE a \in granted
    BY <2>1, LaunchedKept DEF ProcessInv, TypeInv, TypeOK
  <2>2. CASE a \notin granted
    BY <1>1, <2>2, GrantMoves DEF Launched
  <2> QED
    BY <2>1, <2>2
<1>2. \A a \in granted' : Launched(rec[a])'
  BY <1>1 DEF Launched
<1> QED
  BY <1>2, GroundedStep, SeenStep, OpSeenStep, GoneStep DEF ProcessInv

-----------------------------------------------------------------------------
(* The inductive invariant of the manager. *)
IInv ==
    /\ TypeInv /\ LockInv /\ RootInv
    /\ EvidenceInv /\ NothingStartsUnbound
    /\ DecisionsAreCurrent /\ StepInv /\ VolumeInv /\ ProcessInv

LEMMA InitHolds == Init => IInv
<1> SUFFICES ASSUME Init
             PROVE  IInv
  OBVIOUS
<1>1. /\ \A o \in Ops : op[o] = IdleOp
      /\ \A h \in Hosts, a \in Allocs :
           /\ lock[h][a] = Free /\ helper[h][a] = NoHelper
           /\ own[h][a] = "none" /\ retired[h][a] = "no"
           /\ \A r \in Roles : vol[h][a][r] = "absent"
      /\ \A n \in Namespaces : ns[n] = NoProcess
      /\ captured = {} /\ granted = {}
      /\ authority = NoAuthority /\ \A a \in Allocs : rec[a] = AbsentRecord
  BY DEF Init, LedgerInit
<1>2. LedgerTypeOK
  BY CapacityAssumption DEF Init, LedgerInit, LedgerTypeOK, Records, AbsentRecord, Phases
<1>3. OpRecords = [pc : Pcs, kind : Kinds \cup {"none"}, alloc : Allocs \cup {NoAlloc},
                   ns : Namespaces \cup {NoNamespace}, view : Records, role : Roles]
  BY DEF OpRecords
<1>4. TypeInv
  <2>1. op \in [Ops -> OpRecords]
    BY IdleOpReads DEF Init
  <2>2. ns \in [Namespaces -> [state : {"none", "live", "dead"},
                 alloc : Allocs \cup {NoAlloc}, boot : Authorities \cup {NoAuthority}]]
    BY DEF Init, NoProcess
  <2>3. /\ lock \in [Hosts -> [Allocs -> Ops \cup {Free, Guardian}]]
        /\ helper \in [Hosts -> [Allocs -> [stage : DOMAIN Stage, role : Roles] \cup {NoHelper}]]
        /\ own \in [Hosts -> [Allocs -> {"none", "torn", "ok"}]]
        /\ retired \in [Hosts -> [Allocs -> {"no", "torn", "yes"}]]
        /\ vol \in [Hosts -> [Allocs -> [Roles -> VolumeStates]]]
    BY DEF Init, VolumeStates
  <2>4. boot \in [Hosts -> 1..MaxBoot] /\ faults \in 0..MaxFaults
    BY ManagerAssumption DEF Init
  <2>5. TypeOK
    BY <1>1, <1>2, <1>3, <2>1, <2>2, <2>3, <2>4 DEF TypeOK
  <2> QED
    BY <1>1, <2>5, IdleOpReads DEF TypeInv, NoProcess
<1>5. LockInv
  BY <1>1, IdleOpReads, ManagerAssumption
  DEF LockInv, HolderHasLock, WaiterHasHelper, LockHasHolder, HelperHasLock, Holding, Early
<1>6. RootInv
  BY <1>1, IdleOpReads
  DEF RootInv, BootReached, OpRooted, ProcessRooted, DiskRooted, Touched, NoProcess
<1>7. EvidenceInv /\ NothingStartsUnbound
  BY <1>1 DEF EvidenceInv, FreshRecords, UnsealedNeverLaunches, NothingStartsUnbound,
     AbsentRecord
<1>8. DecisionsAreCurrent
  BY <1>1, IdleOpReads DEF DecisionsAreCurrent, Deciding
<1>9. StepInv
  BY <1>1, IdleOpReads DEF StepInv, OpAtStep, HelperAtStep, StepHolds, FirstRoleSteps,
     BuildSteps, TeardownSteps
<1>10. VolumeInv
  BY <1>1 DEF VolumeInv, CertifiedKept, SealKept, AbsentRecord
<1>11. ProcessInv
  BY <1>1, IdleOpReads DEF ProcessInv, ProcessGrounded, ExecutionSeen, OpSeen, Gone,
     NoProcess, AbsentRecord
<1> QED
  BY <1>4, <1>5, <1>6, <1>7, <1>8, <1>9, <1>10, <1>11 DEF IInv

LEMMA NextKeeps == IInv /\ [Next]_vars => IInv'
<1> SUFFICES ASSUME IInv, [Next]_vars
             PROVE  IInv'
  OBVIOUS
<1> USE DEF IInv
<1>1. TypeInv' /\ LockInv'
  BY TypeStep, LockStep
<1>2. RootInv'
  BY RootStep
<1>3. EvidenceInv' /\ NothingStartsUnbound'
  BY LedgerStep, EvidenceStep, UnboundStep DEF TypeInv, TypeOK
<1>4. DecisionsAreCurrent'
  BY CurrentStep
<1>5. StepInv'
  BY StepStep
<1>6. VolumeInv'
  BY VolumeStep
<1>7. ProcessInv'
  BY ProcessStep
<1> QED
  BY <1>1, <1>2, <1>3, <1>4, <1>5, <1>6, <1>7

LEMMA IInvHolds == Spec => []IInv
BY InitHolds, NextKeeps, PTL DEF Spec

-----------------------------------------------------------------------------
(* What the manager guarantees.                                              *)

(* The operations use the ledger only through its transactions: what the     *)
(* ledger guarantees to any caller, the manager has.                         *)
THEOREM ManagerKeepsLedger == Spec => LedgerSpec
<1>1. Init => LedgerInit
  BY DEF Init
<1>2. IInv /\ [Next]_vars => [LedgerNext]_ledgerVars
  BY LedgerStep DEF IInv
<1> QED
  BY <1>1, <1>2, IInvHolds, PTL DEF Spec, LedgerSpec

(* The pool row is exact and within the pool under every interleaving of     *)
(* reserve, provision, launch, retain and release, crashes and restarts.     *)
THEOREM ManagerCapacity == Spec => []CapacityAccounted
BY ManagerKeepsLedger, CapacityExact, PTL

(* Whatever the manager launches is sealed, provisioned and of the bound boot.*)
THEOREM ManagerLaunchesGrounded == Spec => []LaunchesAreGrounded
<1>1. IInv => LaunchesAreGrounded
  BY DEF IInv, EvidenceInv, LaunchesAreGrounded
<1> QED
  BY <1>1, IInvHolds, PTL

(* The state keeps its type, and no utility ever runs outside the flock: not *)
(* after a crash of the operation that started it, not after its time-out.   *)
THEOREM GuardedHelpers == Spec => []HelpersAreGuarded
<1>1. IInv => HelpersAreGuarded
  <2> SUFFICES ASSUME IInv
               PROVE  HelpersAreGuarded
    OBVIOUS
  <2>1. TypeOK
    BY DEF IInv, TypeInv
  <2>2. ASSUME NEW h \in Hosts, NEW a \in Allocs
        PROVE  /\ helper[h][a] # NoHelper => lock[h][a] # Free
               /\ lock[h][a] = Guardian => helper[h][a] # NoHelper
    BY ManagerAssumption DEF IInv, LockInv, HelperHasLock
  <2>3. ASSUME NEW o \in Ops, op[o].pc = "helper"
        PROVE  lock[Host(o)][Alloc(o)] = o /\ helper[Host(o)][Alloc(o)] # NoHelper
    BY <2>3, PcsReads DEF IInv, LockInv, HolderHasLock, WaiterHasHelper, Alloc, Holding, Early
  <2> QED
    BY <2>1, <2>2, <2>3 DEF HelpersAreGuarded
<1> QED
  BY <1>1, IInvHolds, PTL

(* Storage of a pool exists under the one root it is bound to, whatever      *)
(* other hosts' managers are asked to do.                                    *)
THEOREM OneRoot == Spec => []SingleRoot
<1>1. IInv => SingleRoot
  BY DEF IInv, RootInv, DiskRooted, Touched, SingleRoot
<1> QED
  BY <1>1, IInvHolds, PTL

(* From the re-read of its record to its last transaction an operation alone *)
(* has the lock, and its copy of the record is the row.                      *)
THEOREM CurrentDecisions == Spec => []DecisionsAreCurrent
<1>1. IInv => DecisionsAreCurrent
  BY DEF IInv
<1> QED
  BY <1>1, IInvHolds, PTL

(* mkfs runs only on a raw image of an allocation that is still RESERVED and *)
(* not retired, also as the left-over of an operation that crashed.          *)
THEOREM FormatsBeforeStart == Spec => []FormatsOnlyUnstarted
<1>1. IInv => FormatsOnlyUnstarted
  <2> SUFFICES ASSUME IInv, NEW h \in Hosts, NEW a \in Allocs,
                      helper[h][a] # NoHelper, helper[h][a].stage = "format"
               PROVE  /\ rec[a].state = "Reserved" /\ retired[h][a] = "no"
                      /\ vol[h][a][helper[h][a].role] = "raw"
    BY DEF FormatsOnlyUnstarted
  <2> QED
    BY DEF IInv, StepInv, HelperAtStep, StepHolds, BuildSteps
<1> QED
  BY <1>1, IInvHolds, PTL

(* Sealed inputs are never mounted writable again, through crashes, restarts *)
(* and replays of the provisioning.                                          *)
THEOREM SealedReadOnly == Spec => []SealedStaysReadOnly
<1>1. IInv => SealedStaysReadOnly
  BY DEF IInv, VolumeInv, SealKept, SealedStaysReadOnly
<1> QED
  BY <1>1, IInvHolds, PTL

(* No device of an allocation goes away under a process of it that lives,    *)
(* however many admissions of its launch started one; and the volumes stay   *)
(* mounted for the bound process, and for every one while none is bound.     *)
THEOREM VolumesAreKept == Spec => []UsersKeepVolumes
<1>1. IInv => UsersKeepVolumes
  <2> SUFFICES ASSUME IInv, NEW a \in Allocs, NEW n \in UsersOf(a), NEW r \in Roles
               PROVE  /\ vol[ns[n].boot.host][a][r] \in Looped
                      /\ rec[a].execution = NoBinding \/ rec[a].execution.ns = n
                         => vol[ns[n].boot.host][a][r] \in Mounted
    BY DEF UsersKeepVolumes
  <2>1. n \in Namespaces /\ ns[n].state = "live" /\ ns[n].alloc = a
    BY DEF UsersOf
  <2>2. ns[n].boot = authority
    BY <2>1 DEF IInv, RootInv, ProcessRooted
  <2> QED
    BY <2>1, <2>2 DEF IInv, ProcessInv, ProcessGrounded, Keeps
<1> QED
  BY <1>1, IInvHolds, PTL

(* Capacity comes back only when no image of the allocation is left on any   *)
(* host, nobody uses it and its retirement is on disk.                       *)
THEOREM ReleasedIsGone == Spec => []ReleasedMeansGone
<1>1. IInv => ReleasedMeansGone
  <2> SUFFICES ASSUME IInv, NEW a \in Allocs, rec[a].state = "Released"
               PROVE  /\ UsersOf(a) = {}
                      /\ \A h \in Hosts, r \in Roles : vol[h][a][r] = "absent"
                      /\ retired[authority.host][a] = "yes"
    BY DEF ReleasedMeansGone
  <2>1. /\ \A h \in Hosts, r \in Roles : vol[h][a][r] = "absent"
        /\ retired[authority.host][a] = "yes"
    BY DEF IInv, ProcessInv, Gone
  <2>2. ASSUME NEW n \in UsersOf(a)
        PROVE  FALSE
    <3>1. n \in Namespaces /\ ns[n].state = "live" /\ ns[n].alloc = a
      BY DEF UsersOf
    <3>2. vol[authority.host][a][Inputs] \in Looped
      BY <3>1, ManagerAssumption
      DEF IInv, ProcessInv, ProcessGrounded, Keeps, Roles, Inputs
    <3>3. authority.host \in Hosts
      BY <3>1 DEF IInv, RootInv, ProcessRooted, TypeInv, TypeOK, LedgerTypeOK, Authorities
    <3> QED
      BY <2>1, <3>2, <3>3, ManagerAssumption DEF Looped, Mounted, Roles, Inputs
  <2> QED
    BY <2>1, <2>2
<1> QED
  BY <1>1, IInvHolds, PTL

(* Once the retirement marker exists no volume of the allocation is built up *)
(* again, neither by an operation nor by the left-over utility of one.       *)
THEOREM RetiredStaysRetired == Spec => RetiredNeverRebuilt
<1> DEFINE Sinks == \A h \in Hosts, a \in Allocs : retired[h][a] # "no" =>
                      \A r \in Roles : VolumeRank(vol'[h][a][r]) =< VolumeRank(vol[h][a][r])
<1>1. IInv /\ [Next]_vars => Sinks
  <2> SUFFICES ASSUME IInv, [Next]_vars, NEW h \in Hosts, NEW a \in Allocs,
                      retired[h][a] # "no", NEW r \in Roles
               PROVE  VolumeRank(vol'[h][a][r]) =< VolumeRank(vol[h][a][r])
    OBVIOUS
  <2>1. vol[h][a][r] \in VolumeStates
    BY DEF IInv, TypeInv, TypeOK
  <2>2. CASE vol'[h][a][r] = vol[h][a][r]
    BY <2>1, <2>2 DEF VolumeRank, VolumeStates, Looped, Mounted
  <2>3. CASE Removing(h, a, r)
    BY <2>3 DEF Removing, VolumeRank
  <2>4. CASE Working(h, a, r)
    <3>1. helper[h][a].stage \in {"seal", "umount", "detach"}
      BY <2>4, StageReads DEF Working, StepHolds, BuildSteps
    <3>2. CASE helper[h][a].stage = "seal"
      <4>1. vol[h][a][r] = "ready" /\ vol'[h][a][r] = "sealed"
        BY <2>4, <3>2, StageReads DEF Working, Stage
      <4> QED
        BY <4>1 DEF VolumeRank
    <3>3. CASE helper[h][a].stage = "umount"
      <4>1. vol[h][a][r] \in Mounted /\ vol'[h][a][r] = "attached"
        BY <2>4, <3>3, StageReads DEF Working, Stage
      <4> QED
        BY <4>1 DEF VolumeRank, Mounted
    <3>4. CASE helper[h][a].stage = "detach"
      <4>1. vol[h][a][r] = "attached" /\ vol'[h][a][r] = "formatted"
        BY <2>4, <3>4, StageReads DEF Working, Stage
      <4> QED
        BY <4>1 DEF VolumeRank
    <3> QED
      BY <3>1, <3>2, <3>3, <3>4
  <2>5. CASE vol[h][a][r] \in Looped /\ vol'[h][a][r] = "formatted"
    BY <2>5 DEF Looped, Mounted, VolumeRank
  <2>6. ~Building(h, a, r)
    BY DEF Building
  <2> QED
    BY <2>2, <2>3, <2>4, <2>5, <2>6, VolumeMoves DEF IInv
<1>2. IInv /\ [Next]_vars => [Sinks]_vars
  BY <1>1
<1> QED
  BY <1>2, IInvHolds, PTL DEF Spec, RetiredNeverRebuilt

-----------------------------------------------------------------------------
(* The manager implements WorkspaceLease.                                    *)

\* The leases, the storage, the users and the keeper that the manager's state stands for.
Leases   == [a \in Allocs |-> CASE rec[a].state = "Absent"   -> "none"
                                [] rec[a].state = "Released" -> "returned"
                                [] OTHER                     -> "held"]
Storages == [a \in Allocs |-> \E h \in Hosts, r \in Roles : vol[h][a][r] # "absent"]
Usages   == [a \in Allocs |-> UsersOf(a)]
Keeper   == IF authority = NoAuthority THEN "none"
            ELSE IF \E h \in Hosts : Here(h) = authority THEN "up" ELSE "gone"

LEMMA LeaseReads ==
    ASSUME NEW a \in Allocs
    PROVE  /\ Leases[a] = "none" <=> rec[a].state = "Absent"
           /\ Leases[a] = "held" <=> rec[a].state \notin {"Absent", "Released"}
           /\ Storages[a] <=> \E h \in Hosts, r \in Roles : vol[h][a][r] # "absent"
           /\ Storages'[a] <=> \E h \in Hosts, r \in Roles : vol'[h][a][r] # "absent"
           /\ Usages[a] = UsersOf(a)
           /\ Usages'[a] = {n \in Namespaces : ns'[n].state = "live" /\ ns'[n].alloc = a}
BY DEF Leases, Storages, Usages, UsersOf

LEMMA LeaseInitReads ==
    ASSUME Leases = [a \in Allocs |-> "none"], Storages = [a \in Allocs |-> FALSE],
           Usages = [a \in Allocs |-> {}], Keeper = "none"
    PROVE  Lease!LeaseInit
BY DEF Lease!LeaseInit, Leases, Storages, Usages, Keeper

LEMMA LeasedReads ==
    ASSUME NEW q \in Resources
    PROVE  Lease!Leased(q) = Outstanding(q)
<1> DEFINE Held == {a \in Allocs : Leases[a] = "held"}
           Rows == {a \in Allocs : rec[a].state \notin {"Absent", "Released"}}
<1>1. Held = Rows
  BY LeaseReads
<1>2. Lease!Leased(q) = Lease!MapThenSumSet(LAMBDA a : Demand[a][q], Held)
  BY DEF Lease!Leased, Leases
<1>3. Outstanding(q) = MapThenSumSet(LAMBDA a : Demand[a][q], Rows)
  BY DEF Outstanding
<1> HIDE DEF Held, Rows
<1>4. Lease!MapThenSumSet(LAMBDA a : Demand[a][q], Held)
        = MapThenSumSet(LAMBDA a : Demand[a][q], Rows)
  BY <1>1 DEF Lease!MapThenSumSet, Lease!MapThenFoldSet, MapThenSumSet, MapThenFoldSet
<1> QED
  BY <1>2, <1>3, <1>4

LEMMA LeaseActions ==
    ASSUME NEW a \in Allocs, Keeper = "up", Keeper' = "up"
    PROVE  /\ /\ Leases[a] = "none"
              /\ \A q \in Resources : Lease!Leased(q) + Demand[a][q] =< Maximum[q]
              /\ Leases' = [Leases EXCEPT ![a] = "held"]
              /\ UNCHANGED <<Storages, Usages>>
              => Lease!Acquire(a)
           /\ /\ Leases[a] = "held"
              /\ Storages' = [Storages EXCEPT ![a] = TRUE]
              /\ UNCHANGED <<Leases, Usages>>
              => Lease!Build(a)
           /\ /\ Usages[a] = {}
              /\ Storages' = [Storages EXCEPT ![a] = FALSE]
              /\ UNCHANGED <<Leases, Usages>>
              => Lease!Destroy(a)
           /\ /\ Leases[a] = "held" /\ ~Storages[a] /\ Usages[a] = {}
              /\ Leases' = [Leases EXCEPT ![a] = "returned"]
              /\ UNCHANGED <<Storages, Usages>>
              => Lease!Return(a)
           /\ \A n \in Namespaces :
                /\ Leases[a] = "held" /\ Storages[a]
                /\ Usages' = [Usages EXCEPT ![a] = @ \cup {n}]
                /\ UNCHANGED <<Leases, Storages>>
                => Lease!Use(a, n)
BY DEF Lease!Acquire, Lease!Build, Lease!Destroy, Lease!Return, Lease!Use,
   Leases, Storages, Usages, Keeper

LEMMA LeaseLeaves ==
    /\ (\A a \in Allocs : Usages'[a] \subseteq Usages[a]) /\ UNCHANGED <<Leases, Storages, Keeper>>
         => Lease!Leave
    /\ UNCHANGED <<Leases, Storages, Usages, Keeper>> => UNCHANGED Lease!leaseVars
    /\ Keeper = "none" /\ Keeper' = "up" /\ UNCHANGED <<Leases, Storages, Usages>> => Lease!Open
    /\ /\ Keeper = "up" /\ Keeper' = "gone" /\ Usages' = [a \in Allocs |-> {}]
       /\ UNCHANGED <<Leases, Storages>>
       => Lease!Restart
BY DEF Lease!Leave, Lease!Open, Lease!Restart, Lease!leaseVars, Leases, Storages, Usages, Keeper

\* Behind its first check an operation runs under the boot that the pool is bound to.
LEMMA KeptWhileSteps ==
    ASSUME IInv, NEW o \in Ops, op[o].pc \notin {"idle", "bind", "before"}
    PROVE  Keeper = "up"
<1>1. authority = Here(Host(o)) /\ Host(o) \in Hosts
  BY Hosting DEF IInv, TypeInv, RootInv, OpRooted, Auth
<1>2. authority # NoAuthority
  BY <1>1, Hosting, NullAssumption DEF IInv, TypeInv, Auth
<1> QED
  BY <1>1, <1>2 DEF Keeper

LEMMA KeeperStays == UNCHANGED <<authority, boot>> => UNCHANGED Keeper
BY DEF Keeper, Here

\* The pool is bound to a boot that runs.
LEMMA KeeperBinds ==
    ASSUME IInv, NEW o \in Ops, Steps(o)
    PROVE  UNCHANGED Keeper \/ (Keeper = "none" /\ Keeper' = "up")
<1>1. boot' = boot /\ (op[o].pc # "bind" => authority' = authority)
  BY OperationTouches DEF IInv
<1>2. CASE authority' = authority
  BY <1>1, <1>2, KeeperStays
<1>3. CASE authority' # authority
  <2>1. BindPool(o)
    BY <1>1, <1>3 DEF Steps, Progress, ReserveCapacity, ReadBefore, CreateOwnership,
       WriteOwnership, Reread, RunHelper, SkipHelper, CreateImage, SizeImage, RebuildImage,
       KeepImage, RoleProvided, RecordProvisioned, RecordSeal, RecordLaunch,
       RecordExecution, RecordRetained, RecordQuiescent, CreateMarker, WriteMarker,
       CheckMarker, DismantleRole, RemoveImage, RecordRelease, Reject, AcquireLock, Crash,
       At, ledgerVars
  <2>2. authority' = Here(Host(o)) /\ authority = NoAuthority
    BY <1>3, <2>1 DEF BindPool, BindPoolAuthority, CanBindPoolAuthority, Auth
  <2>3. Host(o) \in Hosts /\ authority' # NoAuthority
    BY <2>2, Hosting, NullAssumption DEF IInv, TypeInv, Auth
  <2>4. Here(Host(o))' = authority'
    BY <1>1, <2>2 DEF Here, Host
  <2>5. \E h \in Hosts : Here(h)' = authority'
    BY <2>3, <2>4 DEF Host
  <2> QED
    BY <2>2, <2>3, <2>5 DEF Keeper
<1> QED
  BY <1>2, <1>3

LeaseStep == Lease!LeaseNext \/ UNCHANGED Lease!leaseVars

\* A process lives only where no image of its allocation is without its loop
\* device.
LEMMA LoopedWhileUsed ==
    ASSUME IInv, NEW a \in Allocs, NEW n \in UsersOf(a)
    PROVE  /\ authority # NoAuthority /\ authority.host \in Hosts
           /\ \A r \in Roles : vol[authority.host][a][r] \in Looped
<1>1. n \in Namespaces /\ ns[n].state = "live" /\ ns[n].alloc = a
  BY DEF UsersOf
<1>2. authority # NoAuthority
  BY <1>1 DEF IInv, RootInv, ProcessRooted
<1> QED
  BY <1>1, <1>2 DEF IInv, ProcessInv, ProcessGrounded, Keeps, TypeInv, TypeOK, LedgerTypeOK,
     Authorities

\* A transaction takes a lease, gives it back or leaves it as it is.
LEMMA TransactionLeases ==
    ASSUME IInv, [Next]_vars, NEW a \in Allocs, rec'[a] # rec[a]
    PROVE  LeaseStep
<1>1. PICK o \in Ops :
        /\ Steps(o) /\ Alloc(o) = a /\ Commits(op[o].pc, o, rec[a], rec'[a])
        /\ UNCHANGED <<authority, helper, own, retired, vol, ns, boot>>
  BY RecordChanges DEF IInv
<1>2. \A c \in Allocs : c # a => rec'[c] = rec[c]
  BY <1>1, OperationTouches DEF IInv
<1>3. UNCHANGED <<Storages, Usages, Keeper>>
  BY <1>1, KeeperStays DEF Storages, Usages, UsersOf
<1>4. CASE rec[a].state = "Absent"
  <2>1. op[o].pc = "reserve" /\ rec'[a].state = "Reserved"
    BY <1>1, <1>4 DEF Commits
  <2>2. ReserveCapacity(o)
    BY <1>1, <2>1 DEF Steps, Progress, BindPool, ReadBefore, CreateOwnership,
       WriteOwnership, Reread, RunHelper, SkipHelper, CreateImage, SizeImage, RebuildImage,
       KeepImage, RoleProvided, RecordProvisioned, RecordSeal, RecordLaunch,
       RecordExecution, RecordRetained, RecordQuiescent, CreateMarker, WriteMarker,
       CheckMarker, DismantleRole, RemoveImage, RecordRelease, Reject, AcquireLock, Crash,
       At, ledgerVars
  <2>3. \A q \in Resources : Outstanding(q) + Demand[a][q] =< Maximum[q]
    BY <1>1, <1>4, <2>2 DEF ReserveCapacity, Reserve, CanReserve, LockPool
  <2>4. \A q \in Resources : Lease!Leased(q) + Demand[a][q] =< Maximum[q]
    BY <2>3, LeasedReads
  <2>5. Leases' = [Leases EXCEPT ![a] = "held"]
    BY <1>2, <2>1 DEF Leases
  <2>6. Lease!Acquire(a)
    BY <1>3, <1>4, <2>1, <2>4, <2>5, KeptWhileSteps, LeaseActions, LeaseReads
  <2> QED
    BY <2>6 DEF LeaseStep, Lease!LeaseNext
<1>5. CASE rec[a].state # "Absent" /\ rec'[a].state = "Released"
  <2>1. op[o].pc = "release_tx" /\ rec[a].state # "Released"
    BY <1>1, <1>5 DEF Commits
  <2>2. authority # NoAuthority /\ authority.host = Host(o) /\ Host(o) \in Hosts
    BY <2>1, Hosting, NullAssumption DEF IInv, TypeInv, RootInv, OpRooted
  <2>3. \A r \in Roles : vol[Host(o)][a][r] = "absent"
    BY <1>1, <2>1 DEF IInv, StepInv, OpAtStep, StepHolds, Alloc
  <2>4. ~Storages[a]
    BY <2>2, <2>3, LeaseReads DEF IInv, RootInv, DiskRooted, Touched
  <2>5. Usages[a] = {}
    <3>1. ASSUME NEW n \in UsersOf(a)
          PROVE  FALSE
      <4>1. vol[authority.host][a][Inputs] \in Looped /\ Inputs \in Roles
        BY <3>1, LoopedWhileUsed, ManagerAssumption DEF Roles, Inputs
      <4> QED
        BY <2>2, <2>3, <4>1 DEF Looped, Mounted
    <3> QED
      BY <3>1, LeaseReads
  <2>6. Leases' = [Leases EXCEPT ![a] = "returned"]
    BY <1>2, <1>5 DEF Leases
  <2>7. Lease!Return(a)
    BY <1>3, <1>5, <2>1, <2>4, <2>5, <2>6, KeptWhileSteps, LeaseActions, LeaseReads
  <2> QED
    BY <2>7 DEF LeaseStep, Lease!LeaseNext
<1>6. CASE rec[a].state # "Absent" /\ rec'[a].state # "Released"
  <2>1. rec[a].state # "Released" /\ rec'[a].state # "Absent"
    BY <1>1, <1>6 DEF Commits
  <2>2. Leases' = Leases
    BY <1>2, <1>6, <2>1 DEF Leases
  <2> QED
    BY <1>3, <2>2, LeaseLeaves DEF LeaseStep
<1> QED
  BY <1>4, <1>5, <1>6

\* An operation builds and destroys the storage of its own allocation.
LEMMA StorageLeases ==
    ASSUME IInv, [Next]_vars, NEW o \in Ops, Steps(o),
           \A c \in Allocs : rec'[c] = rec[c]
    PROVE  LeaseStep
<1>0. /\ Alloc(o) \in Allocs /\ ns' = ns
      /\ \A h \in Hosts, c \in Allocs : c # Alloc(o) => DiskKept(h, c)
  BY OperationTouches DEF IInv
<1>1. PICK a \in Allocs :
        ns' = ns /\ \A h \in Hosts, c \in Allocs : c # a => DiskKept(h, c)
  BY <1>0
<1>2. Leases' = Leases /\ Usages' = Usages
  BY <1>1 DEF Leases, Usages, UsersOf
<1>3. \A c \in Allocs : c # a => (Storages'[c] <=> Storages[c])
  BY <1>1 DEF Storages, DiskKept
<1>4. ASSUME NEW v \in BOOLEAN, Storages'[a] <=> v
      PROVE  Storages' = [Storages EXCEPT ![a] = v]
  BY <1>1, <1>3, <1>4 DEF Storages
<1>5. CASE Storages'[a] <=> Storages[a]
  <2>1. Storages' = Storages
    BY <1>1, <1>3, <1>5 DEF Storages
  <2> QED
    BY <1>2, <2>1, KeeperBinds, LeaseLeaves DEF LeaseStep, Lease!LeaseNext
<1>0a. ASSUME ~(Storages'[a] <=> Storages[a])
       PROVE  Keeper = "up" /\ Keeper' = "up"
  <2>1. op[o].pc \notin {"idle", "bind", "before"}
    <3>1. \A h \in Hosts, c \in Allocs : op[o].pc \in Early => DiskKept(h, c)
      BY OperationTouches DEF IInv
    <3>2. \A h \in Hosts, r \in Roles : DiskKept(h, a) => vol'[h][a][r] = vol[h][a][r]
      BY DEF DiskKept
    <3> QED
      BY <1>0a, <1>1, <3>1, <3>2, LeaseReads DEF Early
  <2>2. UNCHANGED <<authority, boot>>
    BY <2>1, OperationTouches DEF IInv
  <2> QED
    BY <2>1, <2>2, KeptWhileSteps, KeeperStays
<1>6. CASE Storages'[a] /\ ~Storages[a]
  <2>1. PICK h \in Hosts, r \in Roles : vol'[h][a][r] # "absent"
    BY <1>1, <1>6, LeaseReads
  <2>2. vol[h][a][r] = "absent"
    BY <1>1, <1>6, LeaseReads
  <2>3. ~Working(h, a, r) /\ ~Removing(h, a, r) /\ vol[h][a][r] \notin Looped
    BY <2>2, StageReads DEF Working, Removing, Stage, Looped, Mounted, Repairable
  <2>4. rec[a].state = "Reserved"
    BY <1>1, <2>1, <2>2, <2>3, VolumeMoves DEF Building, IInv
  <2>5. Storages' = [Storages EXCEPT ![a] = TRUE]
    BY <1>4, <1>6
  <2>6. Lease!Build(a)
    BY <1>0a, <1>1, <1>2, <1>6, <2>4, <2>5, LeaseActions, LeaseReads
  <2> QED
    BY <1>1, <2>6 DEF LeaseStep, Lease!LeaseNext
<1>7. CASE ~Storages'[a] /\ Storages[a]
  <2>1. PICK h \in Hosts, r \in Roles : vol[h][a][r] # "absent"
    BY <1>1, <1>7, LeaseReads
  <2>2. vol'[h][a][r] = "absent"
    BY <1>1, <1>7, LeaseReads
  <2>3. ~Working(h, a, r) /\ ~Building(h, a, r)
    BY <2>2, StageReads DEF Working, Building, StageResults
  <2>4. Removing(h, a, r) /\ authority.host = h
    BY <1>1, <2>1, <2>2, <2>3, VolumeMoves DEF IInv
  <2>5. Usages[a] = {}
    <3>1. UsersOf(a) = {}
      BY <1>1, <2>4, LoopedWhileUsed DEF Removing, Looped, Mounted
    <3> QED
      BY <1>1, <3>1, LeaseReads
  <2>6. Storages' = [Storages EXCEPT ![a] = FALSE]
    BY <1>4, <1>7
  <2>7. Lease!Destroy(a)
    BY <1>0a, <1>1, <1>2, <1>7, <2>5, <2>6, LeaseActions
  <2> QED
    BY <1>1, <2>7 DEF LeaseStep, Lease!LeaseNext
<1>8. Storages[a] \in BOOLEAN /\ Storages'[a] \in BOOLEAN
  BY <1>1 DEF Storages
<1> QED
  BY <1>5, <1>6, <1>7, <1>8

LEMMA LeaseStepHolds ==
    ASSUME IInv, [Next]_vars
    PROVE  LeaseStep
<1>1. CASE \E a \in Allocs : rec'[a] # rec[a]
  BY <1>1, TransactionLeases
<1>2. CASE \A a \in Allocs : rec'[a] = rec[a]
  <2>0. Leases' = Leases
    BY <1>2 DEF Leases
  <2>1. ASSUME NEW o \in Ops, Steps(o)
        PROVE  LeaseStep
    BY <1>2, <2>1, StorageLeases
  <2>2. ASSUME NEW h \in Hosts, NEW a \in Allocs, HelperEnds(h, a)
        PROVE  LeaseStep
    <3>1. ns' = ns
      BY <2>2, HelperTouches DEF IInv
    <3>2. ASSUME NEW g \in Hosts, NEW c \in Allocs, NEW r \in Roles
          PROVE  vol'[g][c][r] # "absent" <=> vol[g][c][r] # "absent"
      <4>1. CASE g = h /\ c = a
        <5>1. helper[h][a] # NoHelper /\ helper[h][a].stage \in DOMAIN Stage
          BY <2>2, HelperTouches DEF IInv
        <5>2. vol[h][a][helper[h][a].role] # "absent"
          BY <5>1, StageReads DEF IInv, StepInv, HelperAtStep, Stage, Mounted, Repairable
        <5>3. Stage[helper[h][a].stage].to # "absent"
          BY <5>1, StageReads DEF StageResults
        <5> QED
          BY <2>2, <4>1, <5>2, <5>3, HelperTouches DEF IInv
      <4>2. CASE ~(g = h /\ c = a)
        BY <2>2, <4>2, HelperTouches DEF IInv, DiskKept
      <4> QED
        BY <4>1, <4>2
    <3>3. UNCHANGED <<Storages, Usages>>
      BY <3>1, <3>2 DEF Storages, Usages, UsersOf
    <3>4. UNCHANGED Keeper
      BY <2>2, HelperTouches, KeeperStays DEF IInv
    <3> QED
      BY <2>0, <3>3, <3>4, LeaseLeaves DEF LeaseStep
  <2>3. ASSUME NEW h \in Hosts, Reboot(h)
        PROVE  LeaseStep
    <3>1. \A g \in Hosts, c \in Allocs, r \in Roles :
            vol'[g][c][r] # "absent" <=> vol[g][c][r] # "absent"
      BY <2>3, RebootReads DEF IInv, Looped, Mounted
    <3>2. Storages' = Storages
      BY <3>1 DEF Storages
    <3>3. /\ \A n \in Namespaces : ns'[n].state = "live" =>
                ns[n].state = "live" /\ ns'[n].alloc = ns[n].alloc /\ ns[n].boot # Here(h)
          /\ authority' = authority
          /\ \A g \in Hosts : boot'[g] = IF g = h THEN boot[g] + 1 ELSE boot[g]
      <4>1. \A n \in Namespaces : ns'[n].state = "live" =>
              ns[n].state = "live" /\ ns'[n].alloc = ns[n].alloc /\ ns[n].boot # Here(h)
        BY SMTT(60), <2>3, RebootReads DEF IInv
      <4>2. authority' = authority
        BY <2>3 DEF Reboot, ledgerVars
      <4>3. \A g \in Hosts : boot'[g] = IF g = h THEN boot[g] + 1 ELSE boot[g]
        BY <2>3, RebootReads DEF IInv
      <4> QED
        BY <4>1, <4>2, <4>3
    <3>4. CASE authority # NoAuthority /\ authority = Here(h)
      <4>1. Keeper = "up"
        BY <3>4 DEF Keeper
      <4>2. \A g \in Hosts : Here(g)' # authority
        BY <3>3, <3>4 DEF Here, IInv, TypeInv, TypeOK
      <4>3. Keeper' = "gone"
        BY <3>3, <3>4, <4>2 DEF Keeper
      <4>4. \A c \in Allocs : Usages'[c] = {}
        BY <3>3, <3>4, LeaseReads DEF IInv, RootInv, ProcessRooted
      <4>5. Usages' = [c \in Allocs |-> {}]
        BY <4>4 DEF Usages
      <4> QED
        BY <2>0, <3>2, <4>1, <4>3, <4>5, LeaseLeaves DEF LeaseStep, Lease!LeaseNext
    <3>5. CASE ~(authority # NoAuthority /\ authority = Here(h))
      <4>1. \A c \in Allocs : Usages'[c] \subseteq Usages[c]
        BY <3>3 DEF Usages, UsersOf
      <4>2. ASSUME authority # NoAuthority, NEW g \in Hosts
            PROVE  Here(g)' = authority <=> Here(g) = authority
        <5>1. CASE g = h
          <6>1. Here(g)' = [host |-> h, boot |-> boot[h] + 1] /\ Here(g) # authority
            BY <3>3, <3>5, <4>2, <5>1 DEF Here
          <6>2. authority \in Authorities /\ boot[h] \in Nat
            BY <4>2 DEF IInv, TypeInv, TypeOK, LedgerTypeOK
          <6>3. authority.host = h => authority.boot =< boot[h]
            BY <4>2 DEF IInv, RootInv, BootReached
          <6> QED
            BY <6>1, <6>2, <6>3 DEF Authorities
        <5>2. CASE g # h
          BY <3>3, <5>2 DEF Here
        <5> QED
          BY <5>1, <5>2
      <4>3. Keeper' = Keeper
        BY <3>3, <4>2 DEF Keeper
      <4> QED
        BY <2>0, <3>2, <4>1, <4>3, LeaseLeaves DEF LeaseStep, Lease!LeaseNext
    <3> QED
      BY <3>4, <3>5
  <2>4. CASE Quiet
    <3>1. vol' = vol /\ Storages' = Storages /\ Keeper' = Keeper
      BY <2>4, KeeperStays DEF Quiet, Storages
    <3>2. ASSUME NEW n \in Namespaces, NEW a \in Allocs, Launch(n, a)
          PROVE  LeaseStep
      <4>1. /\ ns[n].state = "none" /\ a \in granted /\ authority # NoAuthority
            /\ \A r \in Roles : vol[authority.host][a][r] \in Mounted
            /\ ns' = [ns EXCEPT ![n] = [state |-> "live", alloc |-> a, boot |-> authority]]
        BY <3>2 DEF Launch
      <4>2. vol[authority.host][a][Inputs] # "absent" /\ Inputs \in Roles
            /\ authority.host \in Hosts
        <5>1. Inputs \in Roles
          BY ManagerAssumption DEF Roles, Inputs
        <5>2. vol[authority.host][a][Inputs] \in Mounted
          BY <4>1, <5>1
        <5>3. authority.host \in Hosts
          BY <4>1 DEF IInv, TypeInv, TypeOK, LedgerTypeOK, Authorities
        <5> QED
          BY <5>1, <5>2, <5>3 DEF Mounted
      <4>3. Launched(rec[a]) /\ rec[a].state # "Released"
        BY <4>1, <4>2 DEF IInv, ProcessInv, Gone
      <4>4. Storages[a] /\ Leases[a] = "held"
        BY <4>2, <4>3, LeaseReads DEF Launched
      <4>5. \A m \in Namespaces : ns'[m] = IF m = n
              THEN [state |-> "live", alloc |-> a, boot |-> authority] ELSE ns[m]
        BY <4>1 DEF IInv, TypeInv, TypeOK
      <4>6. Usages' = [Usages EXCEPT ![a] = @ \cup {n}]
        <5>1. ASSUME NEW c \in Allocs
              PROVE  Usages'[c] = IF c = a THEN UsersOf(a) \cup {n} ELSE UsersOf(c)
          <6>1. Usages'[c] = {m \in Namespaces : ns'[m].state = "live" /\ ns'[m].alloc = c}
            BY LeaseReads
          <6>2. \A m \in Namespaces : ns'[m].state = "live" /\ ns'[m].alloc = c <=>
                  \/ m = n /\ a = c
                  \/ ns[m].state = "live" /\ ns[m].alloc = c
            BY <4>1, <4>5
          <6> QED
            BY <6>1, <6>2 DEF UsersOf
        <5>2. \A c \in Allocs : Usages[c] = UsersOf(c)
          BY LeaseReads
        <5>3. DOMAIN Usages = Allocs /\ Usages' = [c \in Allocs |-> Usages'[c]]
              /\ Usages = [c \in Allocs |-> Usages[c]]
          BY DEF Usages
        <5> QED
          BY <5>1, <5>2, <5>3
      <4>7. Keeper = "up"
        BY <3>2, <4>2 DEF Launch, Keeper
      <4>8. Lease!Use(a, n)
        BY <2>0, <3>1, <4>4, <4>6, <4>7, LeaseActions
      <4> QED
        BY <4>8 DEF LeaseStep, Lease!LeaseNext
    <3>3. ASSUME NEW n \in Namespaces, NamespaceDies(n)
          PROVE  LeaseStep
      <4>1. \A m \in Namespaces : ns'[m].state = "live" => ns'[m] = ns[m]
        BY <3>3 DEF NamespaceDies, IInv, TypeInv, TypeOK
      <4>2. \A c \in Allocs : Usages'[c] \subseteq Usages[c]
        BY <4>1 DEF Usages, UsersOf
      <4> QED
        BY <2>0, <3>1, <4>2, LeaseLeaves DEF LeaseStep, Lease!LeaseNext
    <3>4. CASE ns' = ns
      <4>1. Usages' = Usages
        BY <3>4 DEF Usages, UsersOf
      <4> QED
        BY <2>0, <3>1, <4>1, LeaseLeaves DEF LeaseStep
    <3> QED
      BY <2>4, <3>2, <3>3, <3>4 DEF Quiet, Request, RequestOnNamespace, CaptureNamespace,
         processVars
  <2> QED
    BY <2>1, <2>2, <2>3, <2>4, NextCases
<1> QED
  BY <1>1, <1>2

(* The manager with its ledger, disks, locks and crashes is a lease service: *)
(* storage exists and is used only under a lease, and a lease is returned at *)
(* most once, when its storage is gone and nobody uses it; after a restart   *)
(* of the host of the pool nothing is taken, used or returned on a guess.    *)
THEOREM ManagerImplementsLease == Spec => ImplementsLease
<1>1. Init => Lease!LeaseInit
  <2> SUFFICES ASSUME Init
               PROVE  Lease!LeaseInit
    OBVIOUS
  <2>1. Leases = [a \in Allocs |-> "none"]
    BY DEF Init, LedgerInit, AbsentRecord, Leases
  <2>2. Storages = [a \in Allocs |-> FALSE]
    BY DEF Init, Storages
  <2>3. Usages = [a \in Allocs |-> {}]
    BY DEF Init, NoProcess, Usages, UsersOf
  <2>4. Keeper = "none"
    BY DEF Init, LedgerInit, Keeper
  <2> QED
    BY <2>1, <2>2, <2>3, <2>4, LeaseInitReads
<1>2. IInv /\ [Next]_vars => [Lease!LeaseNext]_(Lease!leaseVars)
  BY LeaseStepHolds DEF LeaseStep
<1> QED
  BY <1>1, <1>2, IInvHolds, PTL DEF Spec, ImplementsLease, Lease!LeaseSpec
=============================================================================

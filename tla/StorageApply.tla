----------------------------- MODULE StorageApply ------------------------------
(***************************************************************************)
(* Runs of apply_storage_layout (jobs/lib/storage_layout.py) against one   *)
(* RAID adapter, by the Install Proxmox Node job or by Apply Storage       *)
(* Layout: read drives, read volumes, plan, create what is missing one by  *)
(* one, check that the boot volume is the adapter's first, and then (the   *)
(* install job) boot an installer that wipes the first VD.  Runs may       *)
(* overlap; a run may fail or die between any two calls, and be repeated.  *)
(*                                                                         *)
(* The adapter is external.  It reports drives and VDs only while the host *)
(* is on; for a while after that (~settled) drives may be without capacity *)
(* and, of an adapter that enumerates piecemeal, some drives and the VDs   *)
(* may be missing.  A create request takes effect later, or not at all; a  *)
(* new VD gets the lowest target that is free, and VDs are listed by it.   *)
(***************************************************************************)
EXTENDS StorageLayout

CONSTANTS
  Runs,       \* bound: runs of the jobs
  Adapters,   \* the adapters a behaviour may start with: capacity, good, piecemeal, vds
  Partial,    \* bound: drives that may be listed, or have a capacity, before the others
  MaxFaults   \* bound: failing calls, dead workers, refused requests, VDs deleted by hand

ASSUME ApplyAssumption == Partial \subseteq SUBSET Drives /\ MaxFaults \in Nat

Vd == [id : Nat, name : STRING, raid : {"RAID0", "RAID1", "RAID10"}, drives : SUBSET Drives]

(* A VD of a layout's name is one that an earlier run has built.           *)
ASSUME AdaptersAssumption ==
  \A a \in Adapters :
    /\ a.capacity \in [Drives -> Nat \ {0}]
    /\ a.good \subseteq Drives
    /\ a.piecemeal \in BOOLEAN
    /\ a.vds \subseteq Vd
    /\ IsFiniteSet(a.vds)
    /\ \A v \in a.vds : v.name \in SpecNames =>
         /\ v.drives \subseteq a.good
         /\ \A d, e \in v.drives : a.capacity[d] = a.capacity[e]
    /\ \A v, w \in a.vds : v # w =>
         /\ v.id # w.id
         /\ v.drives \intersect w.drives = {}
         /\ v.name \in SpecNames => v.name # w.name

VARIABLES
  capacity,   \* [Drives -> capacity]; never changes
  piecemeal,  \* drives and VDs appear one after the other; never changes
  good,       \* drives that are "Unconfigured good" when in no VD: not bad, disabled or JBOD
  on,         \* the host's power
  settled,    \* the adapter has enumerated everything
  vds,        \* the VDs there are: id (the target), name, raid, drives
  pending,    \* accepted create requests
  job,        \* [Runs -> the run]
  applied,    \* history: a run has been through since a VD was last deleted
  faults

vars == <<capacity, good, piecemeal, on, settled, vds, pending, job, applied, faults>>

Steps == {"wait", "drives", "volumes", "create", "appear", "check"}
Ends == {"boots", "refused", "failed"}

NoView == [capacity |-> <<>>, free |-> {}, vds |-> {}]

Idle == [at |-> "idle", view |-> NoView, plan |-> <<>>, left |-> {}, boot |-> 0]

Init ==
  /\ \E a \in Adapters : capacity = a.capacity /\ good = a.good /\ piecemeal = a.piecemeal /\ vds = a.vds
  /\ on \in BOOLEAN
  /\ settled = on
  /\ pending = {}
  /\ job = [r \in Runs |-> Idle]
  /\ applied = FALSE
  /\ faults = 0

-----------------------------------------------------------------------------
At(r, step) == job[r].at = step
Goto(r, step) == job' = [job EXCEPT ![r].at = step]
Running(r) == job[r].at \in Steps
Fault == faults < MaxFaults /\ faults' = faults + 1

AdapterSame == UNCHANGED <<capacity, good, piecemeal, on, settled, vds, pending>>

InVd(d) == \E v \in vds : d \in v.drives

(* mutant: a drive that is bad, disabled or JBOD is free *)
FreeDrivesAny(listed) == {d \in listed : ~InVd(d)}

(* _is_free, of the drives that are listed *)
FreeDrives(listed) == {d \in listed \intersect good : ~InVd(d)}

(* controller_drives and controller_volumes *)
Readings(listed, sized) ==
  [capacity |-> [d \in listed |-> IF d \in sized THEN capacity[d] ELSE 0],
   free |-> FreeDrives(listed), vds |-> {}]

DriveReadings ==
  IF settled THEN {Readings(Drives, Drives)}
  ELSE {Readings(listed, sized) : listed \in (IF piecemeal THEN Partial ELSE {Drives}), sized \in Partial}

VdReadings == IF piecemeal /\ ~settled THEN {vds, {}} ELSE {vds}

-----------------------------------------------------------------------------
(* A host that is off is powered on into UEFI Setup. *)
Start(r) ==
  /\ At(r, "idle")
  /\ on' = TRUE
  /\ Goto(r, IF on THEN "drives" ELSE "wait")
  /\ UNCHANGED <<capacity, good, piecemeal, settled, vds, pending, applied, faults>>

(* ... and is waited for until the adapter lists a drive, or in vain *)
ControllerReady(r) ==
  /\ At(r, "wait")
  /\ Goto(r, "drives") \/ (~settled /\ Goto(r, "failed"))
  /\ AdapterSame
  /\ UNCHANGED <<applied, faults>>

ReadDrives(r) ==
  /\ At(r, "drives")
  /\ \E view \in DriveReadings : job' = [job EXCEPT ![r].at = "volumes", ![r].view = view]
  /\ AdapterSame
  /\ UNCHANGED <<applied, faults>>

(* what is left of a plan: creations; then the position of the boot volume *)
Then(left) == IF left = {} THEN "check" ELSE "create"
Earliest(left) == CHOOSE i \in left : \A j \in left : i <= j
StepOf(r) == job[r].plan[Earliest(job[r].left)]
Rest(r) == job[r].left \ {Earliest(job[r].left)}

ReadVolumes(r) ==
  /\ At(r, "volumes")
  /\ \E seen \in VdReadings :
       LET plan == Plan([job[r].view EXCEPT !.vds = seen])
           todo == Creates(plan.steps)
       IN  job' = [job EXCEPT ![r] =
                     IF plan.refused THEN [Idle EXCEPT !.at = "failed"]
                     ELSE [at |-> Then(todo), view |-> NoView, plan |-> plan.steps, left |-> todo,
                           boot |-> plan.steps[1].id]]
  /\ AdapterSame
  /\ UNCHANGED <<applied, faults>>

(* create_volume: the XCC refuses drives that are in a VD *)
RequestVolume(r) ==
  /\ At(r, "create")
  /\ LET step == StepOf(r) IN
       IF \E d \in step.drives : InVd(d)
         THEN Goto(r, "failed") /\ UNCHANGED <<pending, faults>>
         ELSE /\ pending' = pending \union {[name |-> step.name, raid |-> step.raid, drives |-> step.drives]}
              /\ \/ Goto(r, "appear") /\ UNCHANGED faults
                 \/ Goto(r, "failed") /\ Fault      \* the reply is lost
  /\ UNCHANGED <<capacity, good, piecemeal, on, settled, vds, applied>>

(* mutant: the run does not wait for its volume *)
AppearedUnseen(r) ==
  /\ At(r, "appear")
  /\ job' = [job EXCEPT ![r].at = Then(Rest(r)), ![r].left = Rest(r)]
  /\ AdapterSame
  /\ UNCHANGED <<applied, faults>>

(* mutant: the loop goes on after the last step of the plan *)
AppearedOnceMore(r) ==
  /\ At(r, "appear")
  /\ \E v \in vds : v.name = StepOf(r).name
  /\ job' = [job EXCEPT ![r].at = "create", ![r].left = Rest(r)]
  /\ AdapterSame
  /\ UNCHANGED <<applied, faults>>

(* the volume's name is in the listing *)
Appeared(r) ==
  /\ At(r, "appear")
  /\ \E seen \in VdReadings :
       LET step == StepOf(r)
           found == {v \in seen : v.name = step.name}
       IN  /\ found # {}
           /\ job' = [job EXCEPT ![r].at = Then(Rest(r)), ![r].left = Rest(r),
                                 ![r].boot = IF step.name = Layout[1].name THEN FirstVd(found).id ELSE @]
  /\ AdapterSame
  /\ UNCHANGED <<applied, faults>>

(* create_wait_seconds pass *)
AppearTimeout(r) ==
  /\ At(r, "appear")
  /\ Goto(r, "failed")
  /\ AdapterSame
  /\ UNCHANGED <<applied, faults>>

(* mutant: a boot volume that is not the first is only warned about *)
CheckBootWarned(r) ==
  /\ At(r, "check")
  /\ Goto(r, "boots")
  /\ applied' = TRUE
  /\ AdapterSame
  /\ UNCHANGED faults

(* boot_is_first, and the install job's refusal *)
CheckBoot(r) ==
  /\ At(r, "check")
  /\ \E seen \in VdReadings : Goto(r, IF BootIsFirst(job[r].boot, seen) THEN "boots" ELSE "refused")
  /\ applied' = TRUE
  /\ AdapterSame
  /\ UNCHANGED faults

(* a call fails, or the worker dies *)
RunFails(r) ==
  /\ Running(r)
  /\ Fault
  /\ Goto(r, "failed")
  /\ AdapterSame
  /\ UNCHANGED applied

-----------------------------------------------------------------------------
(* The adapter. *)
Settle ==
  /\ on
  /\ ~settled
  /\ settled' = TRUE
  /\ UNCHANGED <<capacity, good, piecemeal, on, vds, pending, job, applied, faults>>

LowestTarget == CHOOSE n \in 0..Cardinality(vds) :
                  /\ \A v \in vds : v.id # n
                  /\ \A m \in 0..(n - 1) : \E v \in vds : v.id = m

CompleteRequest(q) ==
  /\ pending' = pending \ {q}
  /\ \/ /\ \A d \in q.drives : ~InVd(d)
        /\ vds' = vds \union {[id |-> LowestTarget, name |-> q.name, raid |-> q.raid, drives |-> q.drives]}
        /\ UNCHANGED faults
     \/ /\ \E d \in q.drives : InVd(d)
        /\ UNCHANGED <<vds, faults>>
     \/ UNCHANGED vds /\ Fault
  /\ UNCHANGED <<capacity, good, piecemeal, on, settled, job, applied>>

(* "delete it by hand if that is intended": between runs *)
DeleteByHand(v) ==
  /\ on
  /\ \A r \in Runs : ~Running(r)
  /\ Fault
  /\ vds' = vds \ {v}
  /\ applied' = FALSE
  /\ UNCHANGED <<capacity, good, piecemeal, on, settled, pending, job>>

Next ==
  \/ \E r \in Runs :
       \/ Start(r) \/ ControllerReady(r) \/ ReadDrives(r) \/ ReadVolumes(r)
       \/ RequestVolume(r) \/ Appeared(r) \/ AppearTimeout(r)
       \/ CheckBoot(r) \/ RunFails(r)
  \/ Settle
  \/ \E q \in pending : CompleteRequest(q)
  \/ \E v \in vds : DeleteByHand(v)

Spec == Init /\ [][Next]_vars

-----------------------------------------------------------------------------
ApplyTypeOK ==
  /\ good \subseteq Drives
  /\ on \in BOOLEAN
  /\ settled \in BOOLEAN
  /\ vds \subseteq Vd
  /\ \A q \in pending : q.name \in SpecNames /\ q.drives \subseteq Drives
  /\ \A r \in Runs :
       /\ job[r].at \in Steps \union Ends \union {"idle"}
       /\ job[r].view.free \subseteq Drives
       /\ job[r].left \subseteq DOMAIN job[r].plan
       /\ At(r, "create") \/ At(r, "appear") => job[r].left # {}
  /\ faults \in 0..MaxFaults

(* "a bad or disabled drive is never picked" and "a mirror needs equal     *)
(* drives" (storage_layout.py): whatever was missing from a listing when a *)
(* run planned, and whatever an earlier run left behind, a volume that a   *)
(* run created is of good drives of one size.                              *)
BuiltOfGood ==
  \A v \in vds : v.name \in SpecNames =>
    /\ v.drives \subseteq good
    /\ \A d, e \in v.drives : capacity[d] = capacity[e]

(* "boot is always the smaller pair" (storage_layout.py): the entries of   *)
(* the layout do not swap sizes, whichever runs have created them.         *)
RolesApart ==
  \A v, w \in vds :
    v.name = Layout[1].name /\ w.name # v.name /\ w.name \in SpecNames =>
      \A d \in v.drives, e \in w.drives : capacity[d] < capacity[e]

(* An installer that a run boots, and which wipes the adapter's first VD,  *)
(* wipes the boot volume: the one of that name, or a hand-made one to      *)
(* whose drives the entry prefers no free drive and no drive of another    *)
(* hand-made VD of that shape.                                             *)
SameShape(v) ==
  {w \in vds : /\ w.name \notin SpecNames
               /\ w.raid = v.raid
               /\ Cardinality(w.drives) = Cardinality(v.drives)}

BestOf(v, select) ==
  \A d \in v.drives, e \in AdoptionPool(SameShape(v), FreeDrives(Drives)) \ v.drives :
    IF select = "smallest" THEN capacity[d] <= capacity[e] ELSE capacity[e] <= capacity[d]

InstallsOnBoot ==
  [][\A r \in Runs : ~At(r, "boots") /\ job'[r].at = "boots" =>
       /\ vds # {}
       /\ LET first == FirstVd(vds) IN
            \/ first.name = Layout[1].name
            \/ first.name \notin SpecNames /\ BestOf(first, Layout[1].select)]_vars

(* The plan for what the adapter holds now, fully enumerated. *)
FullView == [Readings(Drives, Drives) EXCEPT !.vds = vds]

(* "the listing order of hand-made VDs never decides which one is boot"    *)
(* (storage_layout.py): the drives of each step are the same under every   *)
(* other order of the hand-made VDs.                                       *)
Choice(plan) == [refused |-> plan.refused, drives |-> [i \in DOMAIN plan.steps |-> plan.steps[i].drives]]
HandMadeIds == {v.id : v \in {w \in vds : w.name \notin SpecNames}}
Orders == {perm \in [HandMadeIds -> HandMadeIds] : \A i, j \in HandMadeIds : perm[i] = perm[j] => i = j}
Renumbered(perm) == {IF v.name \in SpecNames THEN v ELSE [v EXCEPT !.id = perm[v.id]] : v \in vds}

ListingOrderBlind ==
  \A perm \in Orders :
    Choice(Plan([FullView EXCEPT !.vds = Renumbered(perm)])) = Choice(Plan(FullView))

(* "Volumes that already exist are kept, never re-created" (storage_       *)
(* layout.py): after a run that got through, with any others before or     *)
(* beside it, another one has nothing to create.                           *)
RerunKeeps ==
  applied => /\ ~Plan(FullView).refused
             /\ Creates(Plan(FullView).steps) = {}
=============================================================================

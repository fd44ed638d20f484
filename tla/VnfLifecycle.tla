---------------------------- MODULE VnfLifecycle ----------------------------
(***************************************************************************)
(* The two jobs that own a VNF's virtual machine, Deploy                   *)
(* (jobs/proxmox/deploy_device.py) and Decommission                        *)
(* (jobs/proxmox/decommission_device.py), run by concurrent workers        *)
(* against one hypervisor through jobs/lib/proxmox_client.py.  Each run is *)
(* a sequence of API calls; nothing is reserved between two of them.       *)
(*                                                                         *)
(* A VM is known to the jobs by its vmid and by the name it shows.  Data   *)
(* kept: a Device's status and recorded vmid, and whether its bootstrap    *)
(* ISO, which carries credentials, lies on the hypervisor.  The contract   *)
(* checks, the image pull and the VM's parameters are refusals before      *)
(* anything is touched.                                                    *)
(***************************************************************************)
EXTENDS Naturals, FiniteSets

CONSTANTS
  Devices,     \* VNF devices; a VM's name is its device
  PaDevices,   \* those whose platform is bootstrapped from an ISO
  NoDevice,
  Vmids,       \* bound: the cluster's VM ids
  NoVmid,
  Workers,     \* bound: job runs at a time
  MaxFaults,   \* bound: API errors, lost contacts and dead workers
  OneJob,      \* a job on a Device starts only when none of its jobs is running
  TasksOver,   \* ... and only when the node's tasks on its VMs have ended
  Prompt       \* a vmid is not taken anew between a run's look at its VM and the destroy call

ASSUME VnfAssumption ==
  /\ PaDevices \subseteq Devices
  /\ NoDevice \notin Devices
  /\ NoVmid \notin Vmids
  /\ MaxFaults \in Nat
  /\ OneJob \in BOOLEAN
  /\ TasksOver \in BOOLEAN
  /\ Prompt \in BOOLEAN

VARIABLES
  vm,       \* [Vmids -> the VM with that id on the hypervisor]
  iso,      \* devices whose bootstrap ISO is on the storage
  sot,      \* [Devices -> status and vmid in Nautobot]
  run,      \* [Workers -> the job run each carries out]
  faults,
  leaked    \* history: devices with a run that died, or could not clean up its ISO

vars == <<vm, iso, sot, run, faults, leaked>>

(* of: the device whose deploy made the VM; named: whether the list shows  *)
(* that name yet (a VM being created may still be without)                 *)
NoVm == [of |-> NoDevice, named |-> FALSE, st |-> "none"]

Vm == [of : Devices, named : BOOLEAN,
       st : {"creating", "stopped", "running", "destroying"}] \union {NoVm}

DeploySteps == {"names", "vmid", "iso", "create", "create_wait", "start", "save", "ready",
                "rollback", "rb_stop", "rb_destroy", "rb_wait", "rb_iso"}
DecommissionSteps == {"find", "stop", "destroy", "destroy_wait", "sweep", "clear"}

(* uploaded: iso_volid is set; task: the node task the run waits for *)
Run == [at : DeploySteps \union DecommissionSteps \union {"idle"},
        dev : Devices \union {NoDevice}, vmid : Vmids \union {NoVmid},
        waits : BOOLEAN, uploaded : BOOLEAN, task : {"none", "running", "ok", "failed"}]

Idle == [at |-> "idle", dev |-> NoDevice, vmid |-> NoVmid, waits |-> FALSE,
         uploaded |-> FALSE, task |-> "none"]

Init ==
  /\ vm = [v \in Vmids |-> NoVm]
  /\ iso = {}
  /\ sot = [d \in Devices |-> [status |-> "Planned", vmid |-> NoVmid]]
  /\ run = [w \in Workers |-> Idle]
  /\ faults = 0
  /\ leaked = {}

-----------------------------------------------------------------------------
At(w, step) == run[w].at = step
MyVm(w) == vm[run[w].vmid]

Goto(w, step) == run' = [run EXCEPT ![w].at = step, ![w].task = "none"]
Ends(w) == run' = [run EXCEPT ![w] = Idle]
Fault == faults < MaxFaults /\ faults' = faults + 1

(* GET /nodes/{node}/qemu shows a VM of that name *)
Shows(v, d) == vm[v].named /\ vm[v].of = d

RunOn(d) == \E w \in Workers : run[w].dev = d
TaskOn(d) == \E v \in Vmids : vm[v].of = d /\ vm[v].st \in {"creating", "destroying"}

MayStart(w, d) ==
  /\ At(w, "idle")
  /\ OneJob => ~RunOn(d)
  /\ TasksOver => ~TaskOn(d)

(* a run has seen the VM with id v and is about to stop or destroy it *)
AboutToDestroy(v) ==
  \E w \in Workers : run[w].vmid = v /\ run[w].at \in {"rb_stop", "rb_destroy", "stop", "destroy"}

(* An error outside every guard of the job ends the run where it is. *)
Raises(w) == Fault /\ Ends(w)

-----------------------------------------------------------------------------
(* Deploy.  The status gate is on the Device as the job loaded it. *)
StartDeploy(w, d) ==
  /\ MayStart(w, d)
  /\ sot[d].status = "Planned"
  /\ \E waits \in BOOLEAN :
       run' = [run EXCEPT ![w] = [Idle EXCEPT !.at = "names", !.dev = d, !.waits = waits]]
  /\ UNCHANGED <<vm, iso, sot, faults, leaked>>

(* mutant: the name is not looked for *)
CheckNameSkipped(w) ==
  /\ At(w, "names")
  /\ Goto(w, "vmid")
  /\ UNCHANGED <<vm, iso, sot, faults, leaked>>

(* a VM that already carries the device's name is a refusal *)
CheckName(w) ==
  /\ At(w, "names")
  /\ IF \E v \in Vmids : Shows(v, run[w].dev) THEN Ends(w) ELSE Goto(w, "vmid")
  /\ UNCHANGED <<vm, iso, sot, faults, leaked>>

(* GET /cluster/nextid: some id that is free now *)
TakeVmid(w) ==
  /\ At(w, "vmid")
  /\ \E v \in {u \in Vmids : vm[u] = NoVm} :
       run' = [run EXCEPT ![w].vmid = v,
                          ![w].at = IF run[w].dev \in PaDevices THEN "iso" ELSE "create"]
  /\ UNCHANGED <<vm, iso, sot, faults, leaked>>

(* the contract, the image, the secrets, the storage: refused at no cost *)
Refuse(w) ==
  /\ run[w].at \in {"names", "vmid", "iso"}
  /\ Ends(w)
  /\ UNCHANGED <<vm, iso, sot, faults, leaked>>

(* a stale ISO is deleted or overwritten; an upload that the job could not *)
(* watch to its end may be there, and is outside of the rollback           *)
UploadIso(w) ==
  /\ At(w, "iso")
  /\ iso' = iso \union {run[w].dev}
  /\ \/ /\ run' = [run EXCEPT ![w].at = "create", ![w].uploaded = TRUE]
        /\ UNCHANGED <<faults, leaked>>
     \/ /\ Raises(w)
        /\ leaked' = leaked \union {run[w].dev}
  /\ UNCHANGED <<vm, sot>>

(* POST /nodes/{node}/qemu fails when the id has been taken meanwhile; its *)
(* reply may be lost after the node has begun                              *)
PostCreate(w) ==
  /\ At(w, "create")
  /\ Prompt => ~AboutToDestroy(run[w].vmid)
  /\ IF MyVm(w) = NoVm
       THEN /\ \E named \in BOOLEAN :
                 vm' = [vm EXCEPT ![run[w].vmid] =
                          [of |-> run[w].dev, named |-> named, st |-> "creating"]]
            /\ \/ /\ run' = [run EXCEPT ![w].at = "create_wait", ![w].task = "running"]
                  /\ UNCHANGED faults
               \/ Goto(w, "rollback") /\ Fault
       ELSE Goto(w, "rollback") /\ UNCHANGED <<vm, faults>>
  /\ UNCHANGED <<iso, sot, leaked>>

SeeCreated(w) ==
  /\ At(w, "create_wait")
  /\ run[w].task \in {"ok", "failed"}
  /\ Goto(w, IF run[w].task = "ok" THEN "start" ELSE "rollback")
  /\ UNCHANGED <<vm, iso, sot, faults, leaked>>

(* resize, cloud-init configuration and start, all by vmid *)
StartVm(w) ==
  /\ At(w, "start")
  /\ IF MyVm(w).st = "stopped"
       THEN vm' = [vm EXCEPT ![run[w].vmid].st = "running"] /\ Goto(w, "save")
       ELSE UNCHANGED vm /\ Goto(w, "rollback")
  /\ UNCHANGED <<iso, sot, faults, leaked>>

(* an exception inside the try: an error of the API, contact with the task *)
(* lost or its timeout passed, the job's soft time limit                   *)
DeployFails(w) ==
  /\ run[w].at \in {"create", "create_wait", "start"}
  /\ Fault
  /\ Goto(w, "rollback")
  /\ UNCHANGED <<vm, iso, sot, leaked>>

SaveActive(w) ==
  /\ At(w, "save")
  /\ sot' = [sot EXCEPT ![run[w].dev] = [status |-> "Active", vmid |-> run[w].vmid]]
  /\ Goto(w, "ready")
  /\ UNCHANGED <<vm, iso, faults, leaked>>

(* readiness: the ISO goes only if the firewall answered in time *)
AwaitReady(w) ==
  /\ At(w, "ready")
  /\ Ends(w)
  /\ \/ run[w].waits /\ run[w].uploaded /\ iso' = iso \ {run[w].dev}
     \/ UNCHANGED iso
  /\ UNCHANGED <<vm, sot, faults, leaked>>

-----------------------------------------------------------------------------
(* mutant: whatever has the vmid is this run's *)
RollbackDecisionById(w) == IF MyVm(w) = NoVm THEN "absent" ELSE "destroy"

(* The rollback of a failed deploy. *)
RollbackDecision(w) ==
  IF MyVm(w) = NoVm THEN "absent"
  ELSE IF Shows(run[w].vmid, run[w].dev) THEN "destroy"
  ELSE "foreign"

DecideRollback(w) ==
  /\ At(w, "rollback")
  /\ Goto(w, IF RollbackDecision(w) = "destroy" THEN "rb_stop" ELSE "rb_iso")
  /\ UNCHANGED <<vm, iso, sot, faults, leaked>>

(* any ProxmoxError of the rollback is a warning *)
RollbackFails(w) ==
  /\ run[w].at \in {"rollback", "rb_stop", "rb_destroy", "rb_wait"}
  /\ Fault
  /\ Goto(w, "rb_iso")
  /\ UNCHANGED <<vm, iso, sot, leaked>>

(* mutant: the rollback leaves the ISO to the next deploy *)
RollbackIsoKept(w) ==
  /\ At(w, "rb_iso")
  /\ Ends(w)
  /\ UNCHANGED <<vm, iso, sot, faults, leaked>>

(* then the original error is raised *)
RollbackIso(w) ==
  /\ At(w, "rb_iso")
  /\ Ends(w)
  /\ \/ /\ iso' = IF run[w].uploaded THEN iso \ {run[w].dev} ELSE iso
        /\ UNCHANGED <<faults, leaked>>
     \/ /\ run[w].uploaded
        /\ leaked' = leaked \union {run[w].dev}
        /\ Fault
        /\ UNCHANGED iso
  /\ UNCHANGED <<vm, sot>>

-----------------------------------------------------------------------------
(* stop_vm and destroy_vm, by vmid: the node refuses them while a task has *)
(* the VM, and destroys no running one.                                    *)
StopVm(w, step, next, refused) ==
  /\ At(w, step)
  /\ IF MyVm(w).st \in {"running", "stopped"}
       THEN vm' = [vm EXCEPT ![run[w].vmid].st = "stopped"] /\ Goto(w, next)
       ELSE UNCHANGED vm /\ refused
  /\ UNCHANGED <<iso, sot, faults, leaked>>

BeginsDestroy(w, step) == At(w, step) /\ MyVm(w).st = "stopped"

DestroyVm(w, step, wait, refused) ==
  /\ At(w, step)
  /\ IF BeginsDestroy(w, step)
       THEN /\ vm' = [vm EXCEPT ![run[w].vmid].st = "destroying"]
            /\ run' = [run EXCEPT ![w].at = wait, ![w].task = "running"]
       ELSE UNCHANGED vm /\ refused
  /\ UNCHANGED <<iso, sot, faults, leaked>>

(* mutant: a task that ended is taken for one that ended well *)
SeeDestroyedAnyhow(w, wait, next, failed) ==
  /\ At(w, wait)
  /\ run[w].task \in {"ok", "failed"}
  /\ Goto(w, next)
  /\ UNCHANGED <<vm, iso, sot, faults, leaked>>

SeeDestroyed(w, wait, next, failed) ==
  /\ At(w, wait)
  /\ \/ run[w].task = "ok" /\ Goto(w, next)
     \/ run[w].task = "failed" /\ failed
  /\ UNCHANGED <<vm, iso, sot, faults, leaked>>

-----------------------------------------------------------------------------
(* Decommission, of the vmid that the Device records. *)
StartDecommission(w, d) ==
  /\ MayStart(w, d)
  /\ sot[d].status = "Active"
  /\ run' = [run EXCEPT ![w] = [Idle EXCEPT !.at = "find", !.dev = d, !.vmid = sot[d].vmid]]
  /\ UNCHANGED <<vm, iso, sot, faults, leaked>>

(* not there: only the records are updated; another name: refused *)
FindVm(w) ==
  /\ At(w, "find")
  /\ IF MyVm(w) = NoVm THEN Goto(w, "sweep")
     ELSE IF ~Shows(run[w].vmid, run[w].dev) THEN Ends(w)
     ELSE Goto(w, IF MyVm(w).st = "running" THEN "stop" ELSE "destroy")
  /\ UNCHANGED <<vm, iso, sot, faults, leaked>>

(* the sweep is best effort, the VM is gone already *)
SweepIso(w) ==
  /\ At(w, "sweep")
  /\ Goto(w, "clear")
  /\ \/ /\ iso' = IF run[w].dev \in PaDevices THEN iso \ {run[w].dev} ELSE iso
        /\ UNCHANGED <<faults, leaked>>
     \/ /\ run[w].dev \in PaDevices
        /\ leaked' = leaked \union {run[w].dev}
        /\ Fault
        /\ UNCHANGED iso
  /\ UNCHANGED <<vm, sot>>

SavePlanned(w) ==
  /\ At(w, "clear")
  /\ sot' = [sot EXCEPT ![run[w].dev] = [status |-> "Planned", vmid |-> NoVmid]]
  /\ Ends(w)
  /\ UNCHANGED <<vm, iso, faults, leaked>>

DecommissionFails(w) ==
  /\ run[w].at \in {"find", "stop", "destroy", "destroy_wait"}
  /\ Raises(w)
  /\ UNCHANGED <<vm, iso, sot, leaked>>

-----------------------------------------------------------------------------
(* The worker dies at any point, or a save is refused. *)
RunDies(w) ==
  /\ ~At(w, "idle")
  /\ Raises(w)
  /\ leaked' = leaked \union {run[w].dev}
  /\ UNCHANGED <<vm, iso, sot>>

(* The node's tasks end on their own, watched or not. *)
Notify(v, steps, outcome) ==
  run' = [w \in Workers |-> IF /\ run[w].vmid = v
                               /\ run[w].at \in steps
                               /\ run[w].task = "running"
                            THEN [run[w] EXCEPT !.task = outcome] ELSE run[w]]

CreateEnds(v) ==
  /\ vm[v].st = "creating"
  /\ \/ /\ vm' = [vm EXCEPT ![v].st = "stopped", ![v].named = TRUE]
        /\ Notify(v, {"create_wait"}, "ok")
        /\ UNCHANGED faults
     \/ /\ vm' = [vm EXCEPT ![v] = NoVm]
        /\ Notify(v, {"create_wait"}, "failed")
        /\ Fault
  /\ UNCHANGED <<iso, sot, leaked>>

DestroyEnds(v) ==
  /\ vm[v].st = "destroying"
  /\ \/ /\ vm' = [vm EXCEPT ![v] = NoVm]
        /\ Notify(v, {"rb_wait", "destroy_wait"}, "ok")
        /\ UNCHANGED faults
     \/ /\ vm' = [vm EXCEPT ![v].st = "stopped"]
        /\ Notify(v, {"rb_wait", "destroy_wait"}, "failed")
        /\ Fault
  /\ UNCHANGED <<iso, sot, leaked>>

-----------------------------------------------------------------------------
Deploy(w) ==
  \/ \E d \in Devices : StartDeploy(w, d)
  \/ CheckName(w)
  \/ TakeVmid(w)
  \/ Refuse(w)
  \/ UploadIso(w)
  \/ PostCreate(w)
  \/ SeeCreated(w)
  \/ StartVm(w)
  \/ DeployFails(w)
  \/ SaveActive(w)
  \/ AwaitReady(w)

Rollback(w) ==
  \/ DecideRollback(w)
  \/ RollbackFails(w)
  \/ StopVm(w, "rb_stop", "rb_destroy", Goto(w, "rb_iso"))
  \/ DestroyVm(w, "rb_destroy", "rb_wait", Goto(w, "rb_iso"))
  \/ SeeDestroyed(w, "rb_wait", "rb_iso", Goto(w, "rb_iso"))
  \/ RollbackIso(w)

Decommission(w) ==
  \/ \E d \in Devices : StartDecommission(w, d)
  \/ FindVm(w)
  \/ StopVm(w, "stop", "destroy", Ends(w))
  \/ DestroyVm(w, "destroy", "destroy_wait", Ends(w))
  \/ SeeDestroyed(w, "destroy_wait", "sweep", Ends(w))
  \/ SweepIso(w)
  \/ SavePlanned(w)
  \/ DecommissionFails(w)

Next ==
  \/ \E w \in Workers : Deploy(w) \/ Rollback(w) \/ Decommission(w) \/ RunDies(w)
  \/ \E v \in Vmids : CreateEnds(v) \/ DestroyEnds(v)

Spec == Init /\ [][Next]_vars

-----------------------------------------------------------------------------
VnfTypeOK ==
  /\ vm \in [Vmids -> Vm]
  /\ iso \in SUBSET Devices
  /\ sot \in [Devices -> [status : {"Planned", "Active"}, vmid : Vmids \union {NoVmid}]]
  /\ run \in [Workers -> Run]
  /\ faults \in 0..MaxFaults
  /\ leaked \in SUBSET Devices

TakenDown(v) ==
  \/ vm[v].st = "running" /\ vm'[v].st = "stopped"
  \/ vm[v].st # "destroying" /\ vm'[v].st = "destroying"

(* Only a device's own jobs stop or destroy its VM: although vmids are     *)
(* reused, are not reserved, and stay recorded after a decommission that   *)
(* died, neither a rollback nor a decommission ever takes down another     *)
(* device's VM ("vmid AND name - never destroys a mismatch",               *)
(* decommission_device.py).                                                *)
ForeignUntouched ==
  [][\A v \in Vmids : TakenDown(v) =>
       \E w \in Workers : run[w].vmid = v /\ run[w].dev = vm[v].of /\ run'[w] # run[w]]_vars

(* The VM of an Active device is destroyed by a decommission, never by the *)
(* rollback of a deploy: "a name match here is this run's VM"              *)
(* (proxmox_client.py, rollback_vm_decision).                              *)
RollbackSparesActive ==
  [][\A d \in Devices, w \in Workers :
       BeginsDestroy(w, "rb_destroy") /\ run'[w].at = "rb_wait" =>
         ~ /\ sot[d] = [status |-> "Active", vmid |-> run[w].vmid]
           /\ MyVm(w).of = d]_vars

(* A device has at most one VM, however often its deploy is repeated after *)
(* a failure.                                                              *)
OneVmPerDevice ==
  \A u, v \in Vmids : vm[u].of = vm[v].of /\ vm[u] # NoVm => u = v

(* A device goes back to Planned only when its VM is gone, also when the   *)
(* decommission is the second one, after one that died half-way.           *)
PlannedMeansGone ==
  [][\A d \in Devices :
       sot[d].status = "Active" /\ sot'[d].status = "Planned"
         => \A v \in Vmids : vm[v].of # d]_vars

(* The ISO that carries a Planned device's credentials outlives its jobs   *)
(* only if one of them died or had its cleanup refused.                    *)
NoSilentLeak ==
  \A d \in iso : RunOn(d) \/ sot[d].status = "Active" \/ d \in leaked
=============================================================================

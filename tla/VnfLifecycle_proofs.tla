-------------------------- MODULE VnfLifecycle_proofs --------------------------
(***************************************************************************)
(* The VNF jobs for any devices, VM ids, workers and faults.  What a run   *)
(* knows when it acts was looked up some calls earlier: the invariants say *)
(* what of it is still true.                                               *)
(***************************************************************************)
EXTENDS VnfLifecycle, TLAPS

(* The shape of a run: which steps have a device, a VM id, a task. *)
Waits == {"create_wait", "rb_wait", "destroy_wait"}

RunShape(w) ==
  /\ run[w].at = "idle" <=> run[w].dev = NoDevice
  /\ run[w].at \notin {"idle", "names", "vmid"} => run[w].vmid \in Vmids
  /\ run[w].task # "none" => run[w].at \in Waits

TypeInv ==
  /\ VnfTypeOK
  /\ \A w \in Workers : RunShape(w)
  /\ \A d \in Devices : sot[d].status = "Active" => sot[d].vmid \in Vmids

(* The VM that a run is about to stop or destroy is its device's, or gone. *)
OwnVm(w) ==
  run[w].at \in {"rb_stop", "rb_destroy", "stop", "destroy"} => MyVm(w).of \in {run[w].dev, NoDevice}

OwnInv == \A w \in Workers : OwnVm(w)

(* A device without a VM; with none but that of id v. *)
Gone(d) == \A v \in Vmids : vm[v].of # d
OnlyAt(d, v) == \A u \in Vmids : vm[u].of = d => u = v

(* What a run relies on. *)
Sure(w) ==
  /\ At(w, "names") => \A v \in Vmids : vm[v].of = run[w].dev => vm[v].named
  /\ run[w].at \in {"vmid", "iso", "create"} => Gone(run[w].dev)
  /\ run[w].at \in {"create_wait", "start", "save"} => OnlyAt(run[w].dev, run[w].vmid)
  /\ run[w].at \in DeploySteps \ {"ready"} => sot[run[w].dev].status = "Planned"
  /\ run[w].at \in DecommissionSteps \union {"ready"} => sot[run[w].dev].status = "Active"
  /\ run[w].at \in {"find", "stop", "destroy", "destroy_wait"} => sot[run[w].dev].vmid = run[w].vmid
  /\ At(w, "destroy_wait") /\ run[w].task = "running" => MyVm(w).st = "destroying"
  /\ At(w, "destroy_wait") /\ run[w].task = "ok" => Gone(run[w].dev)
  /\ run[w].at \in {"sweep", "clear"} => Gone(run[w].dev)

Solo == \A u, w \in Workers : run[u].dev = run[w].dev /\ run[u].dev # NoDevice => u = w
Named == \A v \in Vmids : vm[v].st \notin {"none", "creating"} => vm[v].named
Recorded == \A d \in Devices : sot[d].status = "Active" => OnlyAt(d, sot[d].vmid)

VmInv ==
  /\ Solo
  /\ Named
  /\ Recorded
  /\ OneVmPerDevice
  /\ \A w \in Workers : Sure(w)

(* What one job per device at a time gives without anything about tasks. *)
ActiveOn(w) == run[w].at \in DecommissionSteps \union {"ready"} => sot[run[w].dev].status = "Active"
JobsInv == Solo /\ \A w \in Workers : ActiveOn(w)

(* Whose ISO it is. *)
IsoOf(w) ==
  /\ At(w, "iso") => run[w].dev \in PaDevices
  /\ run[w].at \in {"names", "vmid", "iso"} => ~run[w].uploaded
  /\ run[w].at \in (DeploySteps \ {"ready"}) \union {"clear"} =>
       run[w].dev \notin iso \/ run[w].uploaded \/ run[w].dev \in leaked
  /\ run[w].at \in DecommissionSteps => ~run[w].uploaded

IsoInv ==
  /\ iso \subseteq PaDevices
  /\ NoSilentLeak
  /\ \A w \in Workers : IsoOf(w)

-----------------------------------------------------------------------------
(* Types.  How the shapes change a run. *)
Only(w) == run' \in [Workers -> Run] /\ \A u \in Workers \ {w} : run'[u] = run[u]

AllSteps == DeploySteps \union DecommissionSteps \union {"idle"}

LEMMA Going ==
  ASSUME run \in [Workers -> Run], NEW w \in Workers, NEW step \in AllSteps, Goto(w, step)
  PROVE  /\ Only(w)
         /\ run'[w].at = step /\ run'[w].task = "none"
         /\ run'[w].dev = run[w].dev /\ run'[w].vmid = run[w].vmid
         /\ run'[w].uploaded = run[w].uploaded
<1> DEFINE q == [run[w] EXCEPT !.at = step, !.task = "none"]
<1>1. /\ q \in Run /\ q.at = step /\ q.task = "none"
      /\ q.dev = run[w].dev /\ q.vmid = run[w].vmid /\ q.uploaded = run[w].uploaded
  BY DEF Run, AllSteps
<1>2. run' = [run EXCEPT ![w] = q]
  BY DEF Goto
<1> HIDE DEF q
<1> QED
  BY <1>1, <1>2 DEF Only

LEMMA IdleTyped ==
  /\ Idle \in Run
  /\ Idle.at = "idle" /\ Idle.dev = NoDevice /\ Idle.task = "none" /\ Idle.vmid = NoVmid /\ ~Idle.uploaded
BY DEF Idle, Run

LEMMA Ending ==
  ASSUME run \in [Workers -> Run], NEW w \in Workers, Ends(w)
  PROVE  Only(w) /\ run'[w] = Idle
BY IdleTyped DEF Ends, Only

(* A run begins, or goes on with a value put into it. *)
LEMMA Setting ==
  ASSUME run \in [Workers -> Run], NEW w \in Workers, NEW q \in Run, run' = [run EXCEPT ![w] = q]
  PROVE  Only(w) /\ run'[w] = q
BY DEF Only

LEMMA Faulty == faults \in 0..MaxFaults /\ Fault => faults' \in 0..MaxFaults
BY VnfAssumption DEF Fault

(* A VM changes its state, or comes and goes. *)
LEMMA VmSet ==
  ASSUME vm \in [Vmids -> Vm], NEW v \in Vmids, NEW q \in Vm, vm' = [vm EXCEPT ![v] = q]
  PROVE  /\ vm' \in [Vmids -> Vm] /\ vm'[v] = q
         /\ \A u \in Vmids \ {v} : vm'[u] = vm[u]
OBVIOUS

LEMMA VmTyped == NoVm \in Vm /\ NoVm.of = NoDevice /\ NoVm.st = "none" /\ ~NoVm.named
BY DEF Vm, NoVm

LEMMA VmExists ==
  ASSUME NEW m \in Vm
  PROVE  /\ m.st # "none" <=> m # NoVm
         /\ m.of # NoDevice <=> m # NoVm
         /\ m # NoVm => m \in [of : Devices, named : BOOLEAN, st : {"creating", "stopped", "running", "destroying"}]
BY VnfAssumption DEF Vm, NoVm

LEMMA VmTurns ==
  ASSUME vm \in [Vmids -> Vm], NEW v \in Vmids, vm[v].st # "none",
         NEW st \in {"stopped", "running", "destroying"}, vm' = [vm EXCEPT ![v].st = st]
  PROVE  /\ vm' \in [Vmids -> Vm]
         /\ \A u \in Vmids \ {v} : vm'[u] = vm[u]
         /\ vm'[v].of = vm[v].of /\ vm'[v].named = vm[v].named /\ vm'[v].st = st
<1> DEFINE q == [vm[v] EXCEPT !.st = st]
<1>1. vm[v] \in [of : Devices, named : BOOLEAN, st : {"creating", "stopped", "running", "destroying"}]
  BY VmExists
<1>2. q \in Vm /\ q.of = vm[v].of /\ q.named = vm[v].named /\ q.st = st
  BY <1>1 DEF Vm
<1>3. vm' = [vm EXCEPT ![v] = q]
  OBVIOUS
<1> HIDE DEF q
<1> QED
  BY <1>2, <1>3, VmSet

LEMMA VmCreated ==
  ASSUME vm \in [Vmids -> Vm], NEW v \in Vmids, vm[v].st # "none",
         vm' = [vm EXCEPT ![v].st = "stopped", ![v].named = TRUE]
  PROVE  /\ vm' \in [Vmids -> Vm]
         /\ \A u \in Vmids \ {v} : vm'[u] = vm[u]
         /\ vm'[v].of = vm[v].of /\ vm'[v].named /\ vm'[v].st = "stopped"
<1> DEFINE q == [vm[v] EXCEPT !.st = "stopped", !.named = TRUE]
<1>1. vm[v] \in [of : Devices, named : BOOLEAN, st : {"creating", "stopped", "running", "destroying"}]
  BY VmExists
<1>2. q \in Vm /\ q.of = vm[v].of /\ q.named /\ q.st = "stopped"
  BY <1>1 DEF Vm
<1>3. vm' = [vm EXCEPT ![v] = q]
  OBVIOUS
<1> HIDE DEF q
<1> QED
  BY <1>2, <1>3, VmSet

(* The node's tasks end: a watching run gets to know. *)
LEMMA Notified ==
  ASSUME run \in [Workers -> Run], NEW v \in Vmids, NEW steps \in SUBSET Waits,
         NEW outcome \in {"ok", "failed"}, Notify(v, steps, outcome)
  PROVE  /\ run' \in [Workers -> Run]
         /\ \A w \in Workers :
              /\ run'[w].at = run[w].at /\ run'[w].dev = run[w].dev /\ run'[w].vmid = run[w].vmid
              /\ run'[w].uploaded = run[w].uploaded
              /\ IF run[w].vmid = v /\ run[w].at \in steps /\ run[w].task = "running"
                   THEN run'[w].task = outcome ELSE run'[w] = run[w]
<1> SUFFICES ASSUME NEW w \in Workers
    PROVE /\ run'[w] \in Run
          /\ run'[w].at = run[w].at /\ run'[w].dev = run[w].dev /\ run'[w].vmid = run[w].vmid
          /\ run'[w].uploaded = run[w].uploaded
          /\ IF run[w].vmid = v /\ run[w].at \in steps /\ run[w].task = "running"
               THEN run'[w].task = outcome ELSE run'[w] = run[w]
  BY DEF Notify
<1> DEFINE q == [run[w] EXCEPT !.task = outcome]
<1>1. /\ q \in Run /\ q.task = outcome /\ q.at = run[w].at /\ q.dev = run[w].dev
      /\ q.vmid = run[w].vmid /\ q.uploaded = run[w].uploaded
  BY DEF Run
<1>2. run'[w] = IF run[w].vmid = v /\ run[w].at \in steps /\ run[w].task = "running" THEN q ELSE run[w]
  BY DEF Notify
<1> HIDE DEF q
<1> QED
  BY <1>1, <1>2

(* A step of one run keeps the types if it keeps that run's. *)
LEMMA TypeStep ==
  ASSUME TypeInv, NEW w \in Workers, Only(w), RunShape(w)',
         vm' \in [Vmids -> Vm], iso' \in SUBSET Devices, leaked' \in SUBSET Devices,
         faults' \in 0..MaxFaults,
         sot' \in [Devices -> [status : {"Planned", "Active"}, vmid : Vmids \union {NoVmid}]],
         \A d \in Devices : sot'[d].status = "Active" => sot'[d].vmid \in Vmids
  PROVE  TypeInv'
<1>1. VnfTypeOK'
  BY DEF VnfTypeOK, Only
<1>2. ASSUME NEW u \in Workers PROVE RunShape(u)'
  BY DEF TypeInv, Only, RunShape
<1> QED
  BY <1>1, <1>2 DEF TypeInv

LEMMA GoesTyped ==
  ASSUME TypeInv, NEW w \in Workers, NEW step \in AllSteps \ {"idle"}, Goto(w, step), ~At(w, "idle"),
         step \notin {"names", "vmid"} => run[w].vmid \in Vmids
  PROVE  Only(w) /\ RunShape(w)'
BY Going DEF TypeInv, VnfTypeOK, RunShape, At

LEMMA EndsTyped ==
  ASSUME TypeInv, NEW w \in Workers, Ends(w)
  PROVE  Only(w) /\ RunShape(w)'
BY Ending, IdleTyped DEF TypeInv, VnfTypeOK, RunShape, Waits

(* The device of a run, and the VM that it finds. *)
LEMMA RunTyped ==
  ASSUME TypeInv, NEW w \in Workers, ~At(w, "idle")
  PROVE  /\ run[w] \in Run
         /\ run[w].dev \in Devices /\ run[w].dev # NoDevice
         /\ run[w].at \notin {"names", "vmid"} => run[w].vmid \in Vmids /\ MyVm(w) \in Vm
         /\ sot[run[w].dev].status \in {"Planned", "Active"}
BY VnfAssumption DEF TypeInv, VnfTypeOK, RunShape, Run, At, MyVm

LEMMA TypeInvInit == Init => TypeInv
<1> SUFFICES ASSUME Init PROVE TypeInv
  OBVIOUS
<1>1. VnfTypeOK
  BY IdleTyped, VmTyped, VnfAssumption DEF Init, VnfTypeOK
<1> QED
  BY <1>1, IdleTyped DEF Init, TypeInv, RunShape

LEMMA DeployTyped ==
  ASSUME TypeInv, NEW w \in Workers, Deploy(w)
  PROVE  TypeInv'
<1> USE DEF AllSteps, DeploySteps
<1>t. /\ vm \in [Vmids -> Vm] /\ iso \in SUBSET Devices /\ leaked \in SUBSET Devices
      /\ faults \in 0..MaxFaults /\ run \in [Workers -> Run]
      /\ sot \in [Devices -> [status : {"Planned", "Active"}, vmid : Vmids \union {NoVmid}]]
      /\ \A d \in Devices : sot[d].status = "Active" => sot[d].vmid \in Vmids
  BY DEF TypeInv, VnfTypeOK
<1>1. ASSUME NEW d \in Devices, StartDeploy(w, d) PROVE TypeInv'
  <2>1. PICK waits \in BOOLEAN :
          run' = [run EXCEPT ![w] = [Idle EXCEPT !.at = "names", !.dev = d, !.waits = waits]]
    BY <1>1 DEF StartDeploy
  <2> DEFINE q == [Idle EXCEPT !.at = "names", !.dev = d, !.waits = waits]
  <2>2. q \in Run /\ q.at = "names" /\ q.dev = d /\ q.task = "none"
    BY DEF Idle, Run
  <2> HIDE DEF q
  <2>3. Only(w) /\ run'[w] = q
    BY <1>t, <2>1, <2>2, Setting DEF q
  <2>4. RunShape(w)'
    BY <2>2, <2>3, VnfAssumption DEF RunShape
  <2> QED
    BY <1>1, <1>t, <2>3, <2>4, TypeStep DEF StartDeploy
<1>2. CASE CheckName(w)
  BY <1>2, <1>t, GoesTyped, EndsTyped, TypeStep DEF CheckName, At
<1>3. CASE TakeVmid(w)
  <2>1. PICK v \in Vmids :
          run' = [run EXCEPT ![w].vmid = v,
                             ![w].at = IF run[w].dev \in PaDevices THEN "iso" ELSE "create"]
    BY <1>3 DEF TakeVmid
  <2> DEFINE q == [run[w] EXCEPT !.vmid = v, !.at = IF run[w].dev \in PaDevices THEN "iso" ELSE "create"]
  <2>2. /\ q \in Run /\ q.at \in {"iso", "create"} /\ q.vmid = v /\ q.dev = run[w].dev
        /\ q.task = run[w].task
    BY <1>t DEF Run
  <2>3. run' = [run EXCEPT ![w] = q]
    BY <2>1, <1>t
  <2> HIDE DEF q
  <2>4. Only(w) /\ run'[w] = q
    BY <1>t, <2>2, <2>3, Setting
  <2>5. RunShape(w)'
    BY <1>3, <2>2, <2>4 DEF RunShape, TypeInv, TakeVmid, At, Waits
  <2> QED
    BY <1>3, <1>t, <2>4, <2>5, TypeStep DEF TakeVmid
<1>4. CASE Refuse(w)
  BY <1>4, <1>t, EndsTyped, TypeStep DEF Refuse
<1>5. CASE UploadIso(w)
  <2>1. run[w].dev \in Devices /\ run[w].vmid \in Vmids /\ run[w].task = "none"
    BY <1>5, RunTyped DEF UploadIso, At, TypeInv, RunShape, Waits
  <2>2. CASE run' = [run EXCEPT ![w].at = "create", ![w].uploaded = TRUE] /\ UNCHANGED <<faults, leaked>>
    <3> DEFINE q == [run[w] EXCEPT !.at = "create", !.uploaded = TRUE]
    <3>1. q \in Run /\ q.at = "create" /\ q.vmid = run[w].vmid /\ q.dev = run[w].dev /\ q.task = run[w].task
      BY <1>t DEF Run
    <3>2. run' = [run EXCEPT ![w] = q]
      BY <2>2, <1>t
    <3> HIDE DEF q
    <3>3. Only(w) /\ run'[w] = q
      BY <1>t, <3>1, <3>2, Setting
    <3>4. RunShape(w)'
      BY <1>5, <2>1, <3>1, <3>3, RunTyped DEF RunShape, UploadIso, At
    <3> QED
      BY <1>5, <1>t, <2>1, <2>2, <3>3, <3>4, TypeStep DEF UploadIso
  <2>3. CASE Raises(w) /\ leaked' = leaked \union {run[w].dev}
    BY <1>5, <1>t, <2>1, <2>3, EndsTyped, Faulty, TypeStep DEF UploadIso, Raises
  <2> QED
    BY <1>5, <2>2, <2>3 DEF UploadIso
<1>6. CASE PostCreate(w)
  <2>1. run[w].dev \in Devices /\ run[w].vmid \in Vmids
    BY <1>6, RunTyped DEF PostCreate, At
  <2>2. CASE MyVm(w) = NoVm
    <3>1. PICK named \in BOOLEAN :
            vm' = [vm EXCEPT ![run[w].vmid] = [of |-> run[w].dev, named |-> named, st |-> "creating"]]
      BY <1>6, <2>2 DEF PostCreate
    <3>2. vm' \in [Vmids -> Vm]
      BY <1>t, <2>1, <3>1 DEF Vm
    <3>3. CASE run' = [run EXCEPT ![w].at = "create_wait", ![w].task = "running"] /\ UNCHANGED faults
      <4> DEFINE q == [run[w] EXCEPT !.at = "create_wait", !.task = "running"]
      <4>1. q \in Run /\ q.at = "create_wait" /\ q.vmid = run[w].vmid /\ q.dev = run[w].dev /\ q.task = "running"
        BY <1>t DEF Run
      <4>2. run' = [run EXCEPT ![w] = q]
        BY <3>3, <1>t
      <4> HIDE DEF q
      <4>3. Only(w) /\ run'[w] = q
        BY <1>t, <4>1, <4>2, Setting
      <4>4. RunShape(w)'
        BY <1>6, <2>1, <4>1, <4>3, VnfAssumption DEF RunShape, Waits
      <4> QED
        BY <1>6, <1>t, <3>2, <3>3, <4>3, <4>4, TypeStep DEF PostCreate
    <3>4. CASE Goto(w, "rollback") /\ Fault
      BY <1>6, <1>t, <2>1, <3>2, <3>4, GoesTyped, Faulty, TypeStep DEF PostCreate, At
    <3> QED
      BY <1>6, <2>2, <3>3, <3>4 DEF PostCreate
  <2>3. CASE MyVm(w) # NoVm
    BY <1>6, <1>t, <2>1, <2>3, GoesTyped, TypeStep DEF PostCreate, At
  <2> QED
    BY <2>2, <2>3
<1>7. CASE SeeCreated(w)
  <2>1. run[w].vmid \in Vmids
    BY <1>7, RunTyped DEF SeeCreated, At
  <2> QED
    BY <1>7, <1>t, <2>1, GoesTyped, TypeStep DEF SeeCreated, At
<1>8. CASE StartVm(w)
  <2>1. run[w].vmid \in Vmids
    BY <1>8, RunTyped DEF StartVm, At
  <2>2. vm' \in [Vmids -> Vm]
    BY <1>8, <1>t, <2>1, VmTurns DEF StartVm, MyVm
  <2> QED
    BY <1>8, <1>t, <2>1, <2>2, GoesTyped, TypeStep DEF StartVm, At
<1>9. CASE DeployFails(w)
  <2>1. run[w].vmid \in Vmids
    BY <1>9, RunTyped DEF DeployFails, At
  <2> QED
    BY <1>9, <1>t, <2>1, GoesTyped, Faulty, TypeStep DEF DeployFails, At
<1>10. CASE SaveActive(w)
  <2>1. run[w].vmid \in Vmids /\ run[w].dev \in Devices
    BY <1>10, RunTyped DEF SaveActive, At
  <2> QED
    BY <1>10, <1>t, <2>1, GoesTyped, TypeStep DEF SaveActive, At
<1>11. CASE AwaitReady(w)
  BY <1>11, <1>t, EndsTyped, TypeStep DEF AwaitReady
<1> QED
  BY <1>1, <1>2, <1>3, <1>4, <1>5, <1>6, <1>7, <1>8, <1>9, <1>10, <1>11 DEF Deploy

(* stop_vm and destroy_vm, of either job *)
LEMMA StopTyped ==
  ASSUME TypeInv, NEW w \in Workers, NEW step \in {"rb_stop", "stop"}, NEW next \in AllSteps \ {"idle"}, NEW refused,
         StopVm(w, step, next, refused),
         refused => Goto(w, "rb_iso") \/ Ends(w)
  PROVE  TypeInv'
<1> USE DEF AllSteps, DeploySteps
<1>t. /\ vm \in [Vmids -> Vm] /\ iso \in SUBSET Devices /\ leaked \in SUBSET Devices
      /\ faults \in 0..MaxFaults /\ run \in [Workers -> Run]
      /\ sot \in [Devices -> [status : {"Planned", "Active"}, vmid : Vmids \union {NoVmid}]]
      /\ \A d \in Devices : sot[d].status = "Active" => sot[d].vmid \in Vmids
  BY DEF TypeInv, VnfTypeOK
<1>1. run[w].vmid \in Vmids /\ ~At(w, "idle")
  BY RunTyped DEF StopVm, At
<1>2. vm' \in [Vmids -> Vm]
  BY <1>t, <1>1, VmTurns DEF StopVm, MyVm
<1>3. Only(w) /\ RunShape(w)'
  BY <1>1, GoesTyped, EndsTyped DEF StopVm
<1> QED
  BY <1>t, <1>2, <1>3, TypeStep DEF StopVm

LEMMA DestroyTyped ==
  ASSUME TypeInv, NEW w \in Workers, NEW step \in {"rb_destroy", "destroy"},
         NEW wait \in {"rb_wait", "destroy_wait"}, NEW refused,
         DestroyVm(w, step, wait, refused),
         refused => Goto(w, "rb_iso") \/ Ends(w)
  PROVE  TypeInv'
<1> USE DEF AllSteps, DeploySteps, DecommissionSteps
<1>t. /\ vm \in [Vmids -> Vm] /\ iso \in SUBSET Devices /\ leaked \in SUBSET Devices
      /\ faults \in 0..MaxFaults /\ run \in [Workers -> Run]
      /\ sot \in [Devices -> [status : {"Planned", "Active"}, vmid : Vmids \union {NoVmid}]]
      /\ \A d \in Devices : sot[d].status = "Active" => sot[d].vmid \in Vmids
  BY DEF TypeInv, VnfTypeOK
<1>1. run[w].vmid \in Vmids /\ ~At(w, "idle") /\ run[w].dev \in Devices
  BY RunTyped DEF DestroyVm, At
<1>2. CASE BeginsDestroy(w, step)
  <2>1. /\ vm' = [vm EXCEPT ![run[w].vmid].st = "destroying"]
        /\ run' = [run EXCEPT ![w].at = wait, ![w].task = "running"]
        /\ UNCHANGED <<iso, sot, faults, leaked>>
    BY <1>2 DEF DestroyVm
  <2>2. vm' \in [Vmids -> Vm]
    BY <1>t, <1>1, <1>2, <2>1, VmTurns DEF BeginsDestroy, MyVm
  <2> DEFINE q == [run[w] EXCEPT !.at = wait, !.task = "running"]
  <2>3. q \in Run /\ q.at = wait /\ q.vmid = run[w].vmid /\ q.dev = run[w].dev /\ q.task = "running"
    BY <1>t DEF Run
  <2>4. run' = [run EXCEPT ![w] = q]
    BY <2>1, <1>t
  <2> HIDE DEF q
  <2>5. Only(w) /\ run'[w] = q
    BY <1>t, <2>3, <2>4, Setting
  <2>6. RunShape(w)'
    BY <1>1, <2>3, <2>5, VnfAssumption DEF RunShape, Waits
  <2> QED
    BY <1>t, <2>1, <2>2, <2>5, <2>6, TypeStep
<1>3. CASE ~BeginsDestroy(w, step)
  <2>1. Only(w) /\ RunShape(w)'
    BY <1>1, <1>3, GoesTyped, EndsTyped DEF DestroyVm
  <2> QED
    BY <1>t, <1>3, <2>1, TypeStep DEF DestroyVm
<1> QED
  BY <1>2, <1>3

LEMMA SeeTyped ==
  ASSUME TypeInv, NEW w \in Workers, NEW wait \in {"rb_wait", "destroy_wait"}, NEW next \in {"rb_iso", "sweep"},
         NEW failed, SeeDestroyed(w, wait, next, failed),
         failed => Goto(w, "rb_iso") \/ Ends(w)
  PROVE  TypeInv'
<1> USE DEF AllSteps, DeploySteps, DecommissionSteps
<1>1. run[w].vmid \in Vmids /\ ~At(w, "idle")
  BY RunTyped DEF SeeDestroyed, At
<1>2. Only(w) /\ RunShape(w)'
  BY <1>1, GoesTyped, EndsTyped DEF SeeDestroyed
<1> QED
  BY <1>2, TypeStep DEF SeeDestroyed, TypeInv, VnfTypeOK

LEMMA RollbackTyped ==
  ASSUME TypeInv, NEW w \in Workers, Rollback(w)
  PROVE  TypeInv'
<1> USE DEF AllSteps, DeploySteps
<1>t. /\ vm \in [Vmids -> Vm] /\ iso \in SUBSET Devices /\ leaked \in SUBSET Devices
      /\ faults \in 0..MaxFaults /\ run \in [Workers -> Run]
      /\ sot \in [Devices -> [status : {"Planned", "Active"}, vmid : Vmids \union {NoVmid}]]
      /\ \A d \in Devices : sot[d].status = "Active" => sot[d].vmid \in Vmids
  BY DEF TypeInv, VnfTypeOK
<1>1. CASE DecideRollback(w)
  <2>1. run[w].vmid \in Vmids
    BY <1>1, RunTyped DEF DecideRollback, At
  <2> QED
    BY <1>1, <1>t, <2>1, GoesTyped, TypeStep DEF DecideRollback, At
<1>2. CASE RollbackFails(w)
  <2>1. run[w].vmid \in Vmids
    BY <1>2, RunTyped DEF RollbackFails, At
  <2> QED
    BY <1>2, <1>t, <2>1, GoesTyped, Faulty, TypeStep DEF RollbackFails, At
<1>3. CASE StopVm(w, "rb_stop", "rb_destroy", Goto(w, "rb_iso"))
  BY <1>3, StopTyped
<1>4. CASE DestroyVm(w, "rb_destroy", "rb_wait", Goto(w, "rb_iso"))
  BY <1>4, DestroyTyped
<1>5. CASE SeeDestroyed(w, "rb_wait", "rb_iso", Goto(w, "rb_iso"))
  BY <1>5, SeeTyped
<1>6. CASE RollbackIso(w)
  <2>1. run[w].dev \in Devices
    BY <1>6, RunTyped DEF RollbackIso, At
  <2>2. /\ iso' \in SUBSET Devices /\ leaked' \in SUBSET Devices /\ faults' \in 0..MaxFaults
        /\ UNCHANGED <<vm, sot>>
    BY <1>6, <1>t, <2>1, Faulty DEF RollbackIso
  <2>3. Only(w) /\ RunShape(w)'
    BY <1>6, EndsTyped DEF RollbackIso
  <2> QED
    BY <1>t, <2>2, <2>3, TypeStep
<1> QED
  BY <1>1, <1>2, <1>3, <1>4, <1>5, <1>6 DEF Rollback

LEMMA DecommissionTyped ==
  ASSUME TypeInv, NEW w \in Workers, Decommission(w)
  PROVE  TypeInv'
<1> USE DEF AllSteps, DecommissionSteps
<1>t. /\ vm \in [Vmids -> Vm] /\ iso \in SUBSET Devices /\ leaked \in SUBSET Devices
      /\ faults \in 0..MaxFaults /\ run \in [Workers -> Run]
      /\ sot \in [Devices -> [status : {"Planned", "Active"}, vmid : Vmids \union {NoVmid}]]
      /\ \A d \in Devices : sot[d].status = "Active" => sot[d].vmid \in Vmids
  BY DEF TypeInv, VnfTypeOK
<1>1. ASSUME NEW d \in Devices, StartDecommission(w, d) PROVE TypeInv'
  <2> DEFINE q == [Idle EXCEPT !.at = "find", !.dev = d, !.vmid = sot[d].vmid]
  <2>1. q \in Run /\ q.at = "find" /\ q.dev = d /\ q.task = "none" /\ q.vmid \in Vmids
    BY <1>1, <1>t DEF Idle, Run, StartDecommission
  <2>2. run' = [run EXCEPT ![w] = q]
    BY <1>1 DEF StartDecommission
  <2> HIDE DEF q
  <2>3. Only(w) /\ run'[w] = q
    BY <1>t, <2>1, <2>2, Setting
  <2>4. RunShape(w)'
    BY <2>1, <2>3, VnfAssumption DEF RunShape
  <2> QED
    BY <1>1, <1>t, <2>3, <2>4, TypeStep DEF StartDecommission
<1>2. CASE FindVm(w)
  <2>1. run[w].vmid \in Vmids /\ ~At(w, "idle")
    BY <1>2, RunTyped DEF FindVm, At
  <2>2. Only(w) /\ RunShape(w)'
    BY <1>2, <2>1, GoesTyped, EndsTyped DEF FindVm
  <2> QED
    BY <1>2, <1>t, <2>2, TypeStep DEF FindVm
<1>3. CASE StopVm(w, "stop", "destroy", Ends(w))
  BY <1>3, StopTyped
<1>4. CASE DestroyVm(w, "destroy", "destroy_wait", Ends(w))
  BY <1>4, DestroyTyped
<1>5. CASE SeeDestroyed(w, "destroy_wait", "sweep", Ends(w))
  BY <1>5, SeeTyped
<1>6. CASE SweepIso(w)
  <2>1. run[w].dev \in Devices /\ run[w].vmid \in Vmids
    BY <1>6, RunTyped DEF SweepIso, At
  <2>2. /\ iso' \in SUBSET Devices /\ leaked' \in SUBSET Devices /\ faults' \in 0..MaxFaults
        /\ UNCHANGED <<vm, sot>>
    BY <1>6, <1>t, <2>1, Faulty DEF SweepIso
  <2>3. Only(w) /\ RunShape(w)'
    BY <1>6, <2>1, GoesTyped DEF SweepIso, At
  <2> QED
    BY <1>t, <2>2, <2>3, TypeStep
<1>7. CASE SavePlanned(w)
  <2>1. run[w].dev \in Devices
    BY <1>7, RunTyped DEF SavePlanned, At
  <2> QED
    BY <1>7, <1>t, <2>1, EndsTyped, TypeStep DEF SavePlanned
<1>8. CASE DecommissionFails(w)
  BY <1>8, <1>t, EndsTyped, Faulty, TypeStep DEF DecommissionFails, Raises
<1> QED
  BY <1>1, <1>2, <1>3, <1>4, <1>5, <1>6, <1>7, <1>8 DEF Decommission

(* The node's own tasks: the VM stays, or goes. *)
LEMMA TasksTyped ==
  ASSUME TypeInv, NEW v \in Vmids, CreateEnds(v) \/ DestroyEnds(v)
  PROVE  TypeInv'
<1>t. /\ vm \in [Vmids -> Vm] /\ faults \in 0..MaxFaults /\ run \in [Workers -> Run]
  BY DEF TypeInv, VnfTypeOK
<1>1. vm[v].st # "none"
  BY DEF CreateEnds, DestroyEnds
<1>3. vm' \in [Vmids -> Vm]
  BY <1>t, <1>1, VmCreated, VmTurns, VmTyped DEF CreateEnds, DestroyEnds
<1>4. \E steps \in SUBSET Waits, outcome \in {"ok", "failed"} : Notify(v, steps, outcome)
  BY DEF CreateEnds, DestroyEnds, Waits
<1>5. run' \in [Workers -> Run] /\ \A w \in Workers : RunShape(w)'
  BY <1>t, <1>4, Notified DEF TypeInv, RunShape
<1>6. faults' \in 0..MaxFaults /\ UNCHANGED <<iso, sot, leaked>>
  BY <1>t, Faulty DEF CreateEnds, DestroyEnds
<1> QED
  BY <1>3, <1>5, <1>6 DEF TypeInv, VnfTypeOK

LEMMA TypeInvStep == TypeInv /\ [Next]_vars => TypeInv'
<1> SUFFICES ASSUME TypeInv, [Next]_vars PROVE TypeInv'
  OBVIOUS
<1>1. CASE UNCHANGED vars
  BY <1>1 DEF TypeInv, VnfTypeOK, RunShape, vars
<1>2. ASSUME NEW w \in Workers, RunDies(w) PROVE TypeInv'
  <2>1. run[w].dev \in Devices
    BY <1>2, RunTyped DEF RunDies
  <2>2. Only(w) /\ RunShape(w)'
    BY <1>2, EndsTyped DEF RunDies, Raises
  <2> QED
    BY <1>2, <2>1, <2>2, Faulty, TypeStep DEF RunDies, Raises, TypeInv, VnfTypeOK
<1> QED
  BY <1>1, <1>2, DeployTyped, RollbackTyped, DecommissionTyped, TasksTyped DEF Next

(* Types, of the hypervisor, the records and the runs. *)
THEOREM VnfTypeOKHolds == Spec => []VnfTypeOK
<1>1. TypeInv => VnfTypeOK
  BY DEF TypeInv
<1> QED
  BY <1>1, TypeInvInit, TypeInvStep, PTL DEF Spec

-----------------------------------------------------------------------------
(* Whose VM it is.  A run's step changes no other run, and no VM but the    *)
(* one that it has the id of; that one's device only where it creates it.  *)
Acts(w) == Deploy(w) \/ Rollback(w) \/ Decommission(w) \/ RunDies(w)

LEMMA OthersRest ==
  ASSUME TypeInv, NEW w \in Workers, Acts(w)
  PROVE  \A u \in Workers \ {w} : run'[u] = run[u]
<1> USE DEF Goto, Ends, TypeInv, VnfTypeOK
<1>1. CASE Deploy(w)
  BY <1>1 DEF Deploy, StartDeploy, CheckName, TakeVmid, Refuse, UploadIso, Raises, PostCreate, SeeCreated,
     StartVm, DeployFails, SaveActive, AwaitReady
<1>2. CASE Rollback(w)
  BY <1>2 DEF Rollback, DecideRollback, RollbackFails, StopVm, DestroyVm, SeeDestroyed, RollbackIso
<1>3. CASE Decommission(w) \/ RunDies(w)
  BY <1>3 DEF Decommission, StartDecommission, FindVm, StopVm, DestroyVm, SeeDestroyed, SweepIso, SavePlanned,
     DecommissionFails, RunDies, Raises
<1> QED
  BY <1>1, <1>2, <1>3 DEF Acts

(* The VM's device and name stay. *)
Kept(v) == vm'[v].of = vm[v].of /\ vm'[v].named = vm[v].named

LEMMA VmsRest ==
  ASSUME TypeInv, NEW w \in Workers, Acts(w)
  PROVE  \/ /\ \A v \in Vmids : Kept(v)
            /\ \A v \in Vmids : vm[v].st # "destroying" /\ vm'[v].st = "destroying" =>
                 /\ run[w].at \in {"rb_destroy", "destroy"} /\ run[w].vmid = v /\ MyVm(w).st = "stopped"
                 /\ run'[w].task = "running"
            /\ \A v \in Vmids : vm[v].st \in {"none", "creating", "destroying"} => vm'[v] = vm[v]
         \/ PostCreate(w) /\ MyVm(w) = NoVm
<1>t. vm \in [Vmids -> Vm] /\ run \in [Workers -> Run]
  BY DEF TypeInv, VnfTypeOK
<1>1. CASE UNCHANGED vm
  BY <1>1 DEF Kept
<1>2. CASE StartVm(w)
  <2>1. run[w].vmid \in Vmids
    BY <1>2, RunTyped DEF StartVm, At
  <2> QED
    BY <1>1, <1>2, <1>t, <2>1, VmTurns DEF StartVm, MyVm, Kept
<1>3. ASSUME NEW step, NEW next, NEW refused, StopVm(w, step, next, refused), step \in {"rb_stop", "stop"}
      PROVE  /\ \A v \in Vmids : Kept(v)
             /\ \A v \in Vmids : vm'[v].st = "destroying" => vm[v].st = "destroying"
             /\ \A v \in Vmids : vm[v].st \in {"none", "creating", "destroying"} => vm'[v] = vm[v]
  <2>1. run[w].vmid \in Vmids
    BY <1>3, RunTyped DEF StopVm, At
  <2>2. CASE UNCHANGED vm
    BY <2>2 DEF Kept
  <2> QED
    BY <1>3, <1>t, <2>1, <2>2, VmTurns DEF StopVm, MyVm, Kept
<1>4. ASSUME NEW step, NEW wait, NEW refused, DestroyVm(w, step, wait, refused),
             step \in {"rb_destroy", "destroy"}
      PROVE  /\ \A v \in Vmids : Kept(v)
             /\ \A v \in Vmids : vm[v].st # "destroying" /\ vm'[v].st = "destroying" =>
                   /\ run[w].at = step /\ run[w].vmid = v /\ MyVm(w).st = "stopped"
                   /\ run'[w].task = "running"
             /\ \A v \in Vmids : vm[v].st \in {"none", "creating", "destroying"} => vm'[v] = vm[v]
  <2>1. run[w].vmid \in Vmids
    BY <1>4, RunTyped DEF DestroyVm, At
  <2>2. CASE UNCHANGED vm
    BY <2>2 DEF Kept
  <2>3. CASE BeginsDestroy(w, step)
    <3>1. run'[w].task = "running"
      BY <1>4, <1>t, <2>3 DEF DestroyVm, Run
    <3>2. vm' = [vm EXCEPT ![run[w].vmid].st = "destroying"] /\ vm[run[w].vmid].st = "stopped"
      BY <1>4, <2>3 DEF DestroyVm, BeginsDestroy, MyVm
    <3> QED
      BY <1>t, <2>1, <2>3, <3>1, <3>2, VmTurns DEF Kept, BeginsDestroy, MyVm, At
  <2> QED
    BY <1>4, <2>2, <2>3 DEF DestroyVm
<1>5. CASE PostCreate(w) /\ MyVm(w) # NoVm
  BY <1>1, <1>5 DEF PostCreate
<1>6. UNCHANGED vm \/ StartVm(w) \/ PostCreate(w)
      \/ StopVm(w, "rb_stop", "rb_destroy", Goto(w, "rb_iso")) \/ StopVm(w, "stop", "destroy", Ends(w))
      \/ DestroyVm(w, "rb_destroy", "rb_wait", Goto(w, "rb_iso"))
      \/ DestroyVm(w, "destroy", "destroy_wait", Ends(w))
  BY DEF Acts, Deploy, StartDeploy, CheckName, TakeVmid, Refuse, UploadIso, SeeCreated, DeployFails, SaveActive,
     AwaitReady, Rollback, DecideRollback, RollbackFails, SeeDestroyed, RollbackIso, Decommission,
     StartDecommission, FindVm, SweepIso, SavePlanned, DecommissionFails, RunDies
<1> QED
  BY <1>1, <1>2, <1>3, <1>4, <1>5, <1>6

LEMMA Created ==
  ASSUME TypeInv, NEW w \in Workers, PostCreate(w), MyVm(w) = NoVm
  PROVE  /\ run[w].vmid \in Vmids
         /\ \A v \in Vmids \ {run[w].vmid} : vm'[v] = vm[v]
         /\ vm'[run[w].vmid].of = run[w].dev /\ vm'[run[w].vmid].st = "creating"
<1>1. run[w].vmid \in Vmids /\ vm \in [Vmids -> Vm]
  BY RunTyped DEF PostCreate, At, TypeInv, VnfTypeOK
<1>2. PICK named \in BOOLEAN :
        vm' = [vm EXCEPT ![run[w].vmid] = [of |-> run[w].dev, named |-> named, st |-> "creating"]]
  BY DEF PostCreate
<1> QED
  BY <1>1, <1>2

(* The node's tasks. *)
LEMMA TasksEnd ==
  ASSUME TypeInv, NEW v \in Vmids, CreateEnds(v) \/ DestroyEnds(v)
  PROVE  /\ \A u \in Vmids \ {v} : vm'[u] = vm[u]
         /\ \/ vm'[v].of = vm[v].of /\ (vm[v].named => vm'[v].named) /\ vm'[v].st = "stopped"
            \/ vm'[v] = NoVm
         /\ vm[v].st = "creating" /\ vm'[v].st = "stopped" => vm'[v].named
         /\ \A w \in Workers :
              /\ run'[w].at = run[w].at /\ run'[w].dev = run[w].dev /\ run'[w].vmid = run[w].vmid
              /\ run'[w].uploaded = run[w].uploaded
              /\ run'[w].task # run[w].task =>
                   /\ run[w].vmid = v /\ run[w].task = "running"
                   /\ IF CreateEnds(v) THEN At(w, "create_wait") ELSE run[w].at \in {"rb_wait", "destroy_wait"}
              /\ DestroyEnds(v) /\ run'[w].task # run[w].task =>
                   (run'[w].task = "ok" => vm'[v] = NoVm)
              /\ DestroyEnds(v) /\ run[w].vmid = v /\ At(w, "destroy_wait") => run'[w].task # "running"
<1>t. vm \in [Vmids -> Vm] /\ run \in [Workers -> Run]
  BY DEF TypeInv, VnfTypeOK
<1>1. vm[v].st # "none"
  BY DEF CreateEnds, DestroyEnds
<1>3. /\ \A u \in Vmids \ {v} : vm'[u] = vm[u]
      /\ \/ vm'[v].of = vm[v].of /\ (vm[v].named => vm'[v].named) /\ vm'[v].st = "stopped"
         \/ vm'[v] = NoVm
      /\ vm[v].st = "creating" /\ vm'[v].st = "stopped" => vm'[v].named
  BY <1>t, <1>1, VmCreated, VmTurns, VmTyped DEF CreateEnds, DestroyEnds
<1>4. CASE CreateEnds(v)
  <2>1. PICK outcome \in {"ok", "failed"} : Notify(v, {"create_wait"}, outcome)
    BY <1>4 DEF CreateEnds
  <2>2. ~DestroyEnds(v)
    BY <1>4 DEF CreateEnds, DestroyEnds
  <2> QED
    BY <1>t, <1>3, <1>4, <2>1, <2>2, Notified DEF Waits, At
<1>5. CASE DestroyEnds(v)
  <2>1. PICK outcome \in {"ok", "failed"} :
           /\ Notify(v, {"rb_wait", "destroy_wait"}, outcome)
           /\ outcome = "ok" => vm' = [vm EXCEPT ![v] = NoVm]
    BY <1>5 DEF DestroyEnds
  <2>2. ~CreateEnds(v)
    BY <1>5 DEF CreateEnds, DestroyEnds
  <2> QED
    BY <1>t, <1>3, <1>5, <2>1, <2>2, Notified, VmTyped DEF Waits, At
<1> QED
  BY <1>4, <1>5

LEMMA OwnInvInit == Init => OwnInv
BY IdleTyped DEF Init, OwnInv, OwnVm

LEMMA OwnInvStep ==
  ASSUME Prompt
  PROVE  TypeInv /\ OwnInv /\ [Next]_vars => OwnInv'
<1> SUFFICES ASSUME TypeInv, OwnInv, [Next]_vars, NEW w \in Workers PROVE OwnVm(w)'
  BY DEF OwnInv
<1> DEFINE about == {"rb_stop", "rb_destroy", "stop", "destroy"}
<1>t. /\ run \in [Workers -> Run] /\ OwnVm(w) /\ NoVm.of = NoDevice
      /\ run[w].at \in about => run[w].vmid \in Vmids
  BY RunTyped, VmTyped DEF TypeInv, VnfTypeOK, OwnInv, At
<1>1. CASE UNCHANGED vars
  BY <1>t, <1>1 DEF vars, OwnVm, MyVm
<1>2. ASSUME NEW u \in Workers, u # w, Acts(u) PROVE OwnVm(w)'
  <2>1. run'[w] = run[w]
    BY <1>2, OthersRest
  <2>2. CASE PostCreate(u) /\ MyVm(u) = NoVm
    <3>1. run[w].at \in about => run[u].vmid # run[w].vmid
      BY <2>2 DEF PostCreate, AboutToDestroy
    <3> QED
      BY <1>t, <2>1, <2>2, <3>1, Created DEF OwnVm, MyVm
  <2>3. CASE \A v \in Vmids : Kept(v)
    BY <1>t, <2>1, <2>3 DEF OwnVm, MyVm, Kept
  <2> QED
    BY <1>2, <2>2, <2>3, VmsRest
<1>3. ASSUME Acts(w) PROVE OwnVm(w)'
  <2>1. CASE ~(run'[w].at \in about)
    BY <2>1 DEF OwnVm
  <2>2. CASE run'[w].at \in about
    <3>1. \/ /\ DecideRollback(w) \/ FindVm(w)
             /\ Shows(run[w].vmid, run[w].dev) /\ UNCHANGED vm
             /\ run'[w].vmid = run[w].vmid /\ run'[w].dev = run[w].dev
          \/ /\ StopVm(w, "rb_stop", "rb_destroy", Goto(w, "rb_iso")) \/ StopVm(w, "stop", "destroy", Ends(w))
             /\ run'[w].vmid = run[w].vmid /\ run'[w].dev = run[w].dev
      <4> USE <1>t, <2>2
      <4>1. ASSUME NEW step \in AllSteps \ about, Goto(w, step) PROVE FALSE
        BY <4>1, Going
      <4>2. ASSUME Ends(w) PROVE FALSE
        BY <4>2, Ending, IdleTyped
      <4>3. ASSUME NEW step \in AllSteps, Goto(w, step)
            PROVE run'[w].vmid = run[w].vmid /\ run'[w].dev = run[w].dev
        BY <4>3, Going
      <4>4. CASE Deploy(w)
        <5>1. CASE \E d \in Devices : StartDeploy(w, d)
          BY <5>1 DEF StartDeploy, Idle, Run
        <5>2. CASE TakeVmid(w)
          BY <5>2 DEF TakeVmid, Run
        <5>3. CASE UploadIso(w)
          BY <5>3, <4>2 DEF UploadIso, Raises, Run
        <5>4. CASE PostCreate(w)
          BY <5>4, <4>1 DEF PostCreate, Run, AllSteps, DeploySteps
        <5> QED
          BY <4>1, <4>2, <4>4, <5>1, <5>2, <5>3, <5>4 DEF Deploy, CheckName, Refuse, SeeCreated,
             StartVm, DeployFails, SaveActive, AwaitReady, AllSteps, DeploySteps
      <4>5. CASE Rollback(w)
        <5>1. CASE DecideRollback(w)
          <6>1. RollbackDecision(w) = "destroy" => Shows(run[w].vmid, run[w].dev)
            BY DEF RollbackDecision
          <6> QED
            BY <5>1, <6>1, <4>1, <4>3 DEF DecideRollback, AllSteps, DeploySteps
        <5>2. CASE StopVm(w, "rb_stop", "rb_destroy", Goto(w, "rb_iso"))
          BY <5>2, <4>1, <4>3 DEF StopVm, AllSteps, DeploySteps
        <5>3. CASE DestroyVm(w, "rb_destroy", "rb_wait", Goto(w, "rb_iso"))
          BY <5>3, <4>1 DEF DestroyVm, Run, AllSteps, DeploySteps
        <5> QED
          BY <4>1, <4>2, <4>5, <5>1, <5>2, <5>3 DEF Rollback, RollbackFails, SeeDestroyed, RollbackIso,
             AllSteps, DeploySteps
      <4>6. CASE Decommission(w)
        <5>1. CASE \E d \in Devices : StartDecommission(w, d)
          BY <5>1 DEF StartDecommission, Idle, Run
        <5>2. CASE FindVm(w)
          BY <5>2, <4>1, <4>2, <4>3 DEF FindVm, AllSteps, DecommissionSteps
        <5>3. CASE StopVm(w, "stop", "destroy", Ends(w))
          BY <5>3, <4>2, <4>3 DEF StopVm, AllSteps, DecommissionSteps
        <5>4. CASE DestroyVm(w, "destroy", "destroy_wait", Ends(w))
          BY <5>4, <4>2 DEF DestroyVm, Run
        <5> QED
          BY <4>1, <4>2, <4>6, <5>1, <5>2, <5>3, <5>4 DEF Decommission, SeeDestroyed, SweepIso, SavePlanned,
             DecommissionFails, Raises, AllSteps, DecommissionSteps
      <4> QED
        BY <1>3, <4>2, <4>4, <4>5, <4>6 DEF Acts, RunDies, Raises
    <3>2. run[w].vmid \in Vmids
      BY <3>1, RunTyped DEF DecideRollback, FindVm, StopVm, At
    <3>3. CASE Shows(run[w].vmid, run[w].dev) /\ UNCHANGED vm /\ run'[w].vmid = run[w].vmid /\ run'[w].dev = run[w].dev
      BY <3>3 DEF Shows, OwnVm, MyVm
    <3>4. CASE /\ StopVm(w, "rb_stop", "rb_destroy", Goto(w, "rb_iso")) \/ StopVm(w, "stop", "destroy", Ends(w))
               /\ run'[w].vmid = run[w].vmid /\ run'[w].dev = run[w].dev
      <4>1. \A v \in Vmids : Kept(v)
        BY <1>3, <3>4, VmsRest DEF PostCreate, StopVm, At
      <4> QED
        BY <1>t, <3>2, <3>4, <4>1 DEF Kept, OwnVm, MyVm, StopVm, At
    <3> QED
      BY <3>1, <3>3, <3>4
  <2> QED
    BY <2>1, <2>2
<1>4. ASSUME NEW v \in Vmids, CreateEnds(v) \/ DestroyEnds(v) PROVE OwnVm(w)'
  <2>1. \A u \in Vmids : vm'[u].of \in {vm[u].of, NoDevice}
    BY <1>4, <1>t, TasksEnd
  <2>2. run'[w].at = run[w].at /\ run'[w].dev = run[w].dev /\ run'[w].vmid = run[w].vmid
    BY <1>4, TasksEnd
  <2> QED
    BY <1>t, <2>1, <2>2 DEF OwnVm, MyVm
<1> QED
  BY <1>1, <1>2, <1>3, <1>4 DEF Next, Acts

(* A run's step that stops or destroys a VM acts by the vmid it holds. *)
LEMMA TakesDown ==
  ASSUME TypeInv, NEW w \in Workers, Acts(w), NEW v \in Vmids, TakenDown(v)
  PROVE  /\ run[w].at \in {"rb_stop", "rb_destroy", "stop", "destroy"}
         /\ run[w].vmid = v
         /\ vm[v] # NoVm
         /\ run'[w].at # run[w].at
<1>t. vm \in [Vmids -> Vm] /\ run \in [Workers -> Run]
  BY DEF TypeInv, VnfTypeOK
<1>c. vm' # vm /\ vm'[v] # vm[v]
  BY DEF TakenDown
<1>1. ~StartVm(w)
  <2> SUFFICES ASSUME StartVm(w) PROVE FALSE
    OBVIOUS
  <2>1. run[w].vmid \in Vmids
    BY RunTyped DEF StartVm, At
  <2>2. vm[run[w].vmid].st = "stopped" /\ vm' = [vm EXCEPT ![run[w].vmid].st = "running"]
    BY <1>c DEF StartVm, MyVm
  <2> QED
    BY <1>t, <2>1, <2>2, VmTurns DEF TakenDown
<1>2. ~PostCreate(w)
  <2> SUFFICES ASSUME PostCreate(w) PROVE FALSE
    OBVIOUS
  <2>1. CASE MyVm(w) = NoVm
    BY <1>c, <2>1, Created DEF TakenDown
  <2>2. CASE MyVm(w) # NoVm
    BY <1>c, <2>2 DEF PostCreate
  <2> QED
    BY <2>1, <2>2
<1>3. ASSUME NEW step \in {"rb_stop", "stop"}, NEW next \in {"rb_destroy", "destroy"}, NEW refused,
             StopVm(w, step, next, refused)
      PROVE  /\ run[w].at = step /\ run[w].vmid = v /\ vm[v] # NoVm /\ run'[w].at = next
  <2>1. run[w].vmid \in Vmids
    BY <1>3, RunTyped DEF StopVm, At
  <2>2. /\ vm[run[w].vmid].st \in {"running", "stopped"}
        /\ vm' = [vm EXCEPT ![run[w].vmid].st = "stopped"]
        /\ Goto(w, next)
    BY <1>3, <1>c DEF StopVm, MyVm
  <2>3. run[w].vmid = v
    BY <1>t, <1>c, <2>1, <2>2
  <2>4. vm[v] # NoVm
    BY <2>2, <2>3, VmTyped
  <2>5. run'[w].at = next
    BY <1>t, <2>2, Going DEF AllSteps, DeploySteps, DecommissionSteps
  <2> QED
    BY <1>3, <2>3, <2>4, <2>5 DEF StopVm, At
<1>4. ASSUME NEW step \in {"rb_destroy", "destroy"}, NEW wait \in {"rb_wait", "destroy_wait"}, NEW refused,
             DestroyVm(w, step, wait, refused)
      PROVE  /\ run[w].at = step /\ run[w].vmid = v /\ vm[v] # NoVm /\ run'[w].at = wait
  <2>1. run[w].vmid \in Vmids
    BY <1>4, RunTyped DEF DestroyVm, At
  <2>2. /\ vm[run[w].vmid].st = "stopped"
        /\ vm' = [vm EXCEPT ![run[w].vmid].st = "destroying"]
        /\ run' = [run EXCEPT ![w].at = wait, ![w].task = "running"]
    BY <1>4, <1>c DEF DestroyVm, BeginsDestroy, MyVm
  <2>3. run[w].vmid = v
    BY <1>t, <1>c, <2>1, <2>2
  <2>4. vm[v] # NoVm
    BY <2>2, <2>3, VmTyped
  <2>5. run'[w].at = wait
    BY <1>t, <2>2 DEF Run
  <2> QED
    BY <1>4, <2>3, <2>4, <2>5 DEF DestroyVm, At
<1>5. \/ UNCHANGED vm \/ StartVm(w) \/ PostCreate(w)
      \/ StopVm(w, "rb_stop", "rb_destroy", Goto(w, "rb_iso"))
      \/ StopVm(w, "stop", "destroy", Ends(w))
      \/ DestroyVm(w, "rb_destroy", "rb_wait", Goto(w, "rb_iso"))
      \/ DestroyVm(w, "destroy", "destroy_wait", Ends(w))
  BY DEF Acts, Deploy, StartDeploy, CheckName, TakeVmid, Refuse, UploadIso, SeeCreated, DeployFails,
     SaveActive, AwaitReady, Rollback, DecideRollback, RollbackFails, SeeDestroyed, RollbackIso, Decommission,
     StartDecommission, FindVm, SweepIso, SavePlanned, DecommissionFails, RunDies
<1> QED
  BY <1>c, <1>1, <1>2, <1>3, <1>4, <1>5

(* Only a device's own jobs stop or destroy its VM, whatever ids are       *)
(* reused or left recorded, and however jobs of one device overlap: both   *)
(* jobs look at the name the VM shows before they act by id                *)
(* (deploy_device.py, decommission_device.py).  It rests on Prompt: no     *)
(* other device's VM takes the id between that look and the last act.      *)
THEOREM ForeignUntouchedHolds ==
  ASSUME Prompt
  PROVE  Spec => ForeignUntouched
<1>1. TypeInv /\ OwnInv /\ [Next]_vars =>
        [\A v \in Vmids : TakenDown(v) =>
           \E w \in Workers : run[w].vmid = v /\ run[w].dev = vm[v].of /\ run'[w] # run[w]]_vars
  <2> SUFFICES ASSUME TypeInv, OwnInv, Next, NEW v \in Vmids, TakenDown(v)
               PROVE  \E w \in Workers : run[w].vmid = v /\ run[w].dev = vm[v].of /\ run'[w] # run[w]
    OBVIOUS
  <2>1. PICK w \in Workers : Acts(w)
    <3>1. ASSUME NEW u \in Vmids, CreateEnds(u) \/ DestroyEnds(u) PROVE FALSE
      <4>1. v = u /\ vm[u].st \in {"creating", "destroying"}
        BY <3>1, TasksEnd DEF TakenDown, CreateEnds, DestroyEnds
      <4> QED
        BY <3>1, <4>1, TasksEnd, VmTyped DEF TakenDown
    <3> QED
      BY <3>1 DEF Next, Acts
  <2>2. /\ run[w].at \in {"rb_stop", "rb_destroy", "stop", "destroy"} /\ run[w].vmid = v /\ vm[v] # NoVm
        /\ run'[w] # run[w]
    BY <2>1, TakesDown
  <2>3. vm[v] \in Vm /\ MyVm(w) = vm[v]
    BY <2>2 DEF TypeInv, VnfTypeOK, MyVm
  <2>4. vm[v].of # NoDevice
    BY <2>2, <2>3, VmExists
  <2>5. run[w].dev = vm[v].of
    BY <2>2, <2>3, <2>4 DEF OwnInv, OwnVm
  <2> QED
    BY <2>2, <2>5
<1> QED
  BY <1>1, TypeInvInit, TypeInvStep, OwnInvInit, OwnInvStep, PTL DEF Spec, ForeignUntouched

-----------------------------------------------------------------------------
(* How many VMs a device has.  The records change only for the device of   *)
(* the run that acts, and VMs appear only for it.                          *)
LEMMA SotRests ==
  ASSUME TypeInv, NEW w \in Workers, Acts(w)
  PROVE  /\ \A d \in Devices : d # run[w].dev => sot'[d] = sot[d]
         /\ UNCHANGED sot \/ SaveActive(w) \/ SavePlanned(w)
<1>1. UNCHANGED sot \/ SaveActive(w) \/ SavePlanned(w)
  BY DEF Acts, Deploy, StartDeploy, CheckName, TakeVmid, Refuse, UploadIso, PostCreate, SeeCreated, StartVm,
     DeployFails, AwaitReady, Rollback, DecideRollback, RollbackFails, SeeDestroyed, RollbackIso, StopVm,
     DestroyVm, Decommission, StartDecommission, FindVm, SweepIso, DecommissionFails, RunDies
<1> QED
  BY <1>1 DEF SaveActive, SavePlanned, TypeInv, VnfTypeOK

LEMMA VmsAppear ==
  ASSUME TypeInv, NEW w \in Workers, Acts(w), NEW v \in Vmids
  PROVE  /\ vm'[v].of \in {vm[v].of, run[w].dev}
         /\ vm[v].of # NoDevice => Kept(v)
         /\ vm[v].st = "destroying" => vm'[v] = vm[v]
<1>1. CASE PostCreate(w) /\ MyVm(w) = NoVm
  BY <1>1, Created, VmTyped DEF Kept, MyVm
<1>2. CASE ~(PostCreate(w) /\ MyVm(w) = NoVm)
  BY <1>2, VmsRest DEF Kept
<1> QED
  BY <1>1, <1>2

LEMMA DevRests ==
  ASSUME TypeInv, NEW w \in Workers, Acts(w)
  PROVE  \/ run'[w].dev \in {run[w].dev, NoDevice}
         \/ \E d \in Devices : (StartDeploy(w, d) \/ StartDecommission(w, d)) /\ run'[w].dev = d
<1>t. run \in [Workers -> Run]
  BY DEF TypeInv, VnfTypeOK
<1>1. ASSUME NEW step \in AllSteps, Goto(w, step) PROVE run'[w].dev = run[w].dev
  BY <1>1, <1>t, Going
<1>2. ASSUME Ends(w) PROVE run'[w].dev = NoDevice
  BY <1>2, <1>t, Ending, IdleTyped
<1> USE <1>t DEF AllSteps, DeploySteps, DecommissionSteps
<1>3. CASE Deploy(w)
  <2>1. CASE \E d \in Devices : StartDeploy(w, d)
    BY <2>1 DEF StartDeploy, Idle, Run
  <2>2. CASE TakeVmid(w)
    BY <2>2 DEF TakeVmid, Run
  <2>3. CASE UploadIso(w)
    BY <1>2, <2>3 DEF UploadIso, Raises, Run
  <2>4. CASE PostCreate(w)
    BY <1>1, <2>4 DEF PostCreate, Run
  <2> QED
    BY <1>1, <1>2, <1>3, <2>1, <2>2, <2>3, <2>4 DEF Deploy, CheckName, Refuse, SeeCreated, StartVm, DeployFails, SaveActive,
       AwaitReady
<1>4. CASE Rollback(w)
  <2>1. CASE DestroyVm(w, "rb_destroy", "rb_wait", Goto(w, "rb_iso"))
    BY <1>1, <2>1 DEF DestroyVm, Run
  <2> QED
    BY <1>1, <1>2, <1>4, <2>1 DEF Rollback, DecideRollback, RollbackFails, StopVm, SeeDestroyed, RollbackIso
<1>5. CASE Decommission(w)
  <2>1. CASE \E d \in Devices : StartDecommission(w, d)
    BY <2>1 DEF StartDecommission, Idle, Run
  <2>2. CASE DestroyVm(w, "destroy", "destroy_wait", Ends(w))
    BY <1>2, <2>2 DEF DestroyVm, Run
  <2> QED
    BY <1>1, <1>2, <1>5, <2>1, <2>2 DEF Decommission, FindVm, StopVm, SeeDestroyed, SweepIso, SavePlanned,
       DecommissionFails, Raises
<1> QED
  BY <1>2, <1>3, <1>4, <1>5 DEF Acts, RunDies, Raises

(* One job per device at a time. *)
LEMMA SoloStep ==
  ASSUME OneJob, TypeInv, Solo, NEW w \in Workers, Acts(w)
  PROVE  Solo'
<1> SUFFICES ASSUME NEW u \in Workers \ {w}, run'[u].dev = run'[w].dev, run'[u].dev # NoDevice
             PROVE  FALSE
  BY OthersRest DEF Solo
<1>1. run'[u] = run[u]
  BY OthersRest
<1>2. run'[w].dev # run[w].dev
  BY <1>1 DEF Solo
<1>3. PICK d \in Devices : (StartDeploy(w, d) \/ StartDecommission(w, d)) /\ run'[w].dev = d
  BY <1>2, DevRests
<1> QED
  BY <1>1, <1>3 DEF StartDeploy, StartDecommission, MayStart, RunOn

(* What another run relies on stays true. *)
LEMMA OthersSure ==
  ASSUME TypeInv, VmInv, NEW w \in Workers, Acts(w), NEW u \in Workers \ {w}
  PROVE  Sure(u)'
<1>1. run'[u] = run[u] /\ Sure(u) /\ RunShape(u)
  BY OthersRest DEF VmInv, TypeInv
<1>2. CASE At(u, "idle")
  BY <1>1, <1>2 DEF Sure, At, DeploySteps, DecommissionSteps
<1>3. CASE ~At(u, "idle")
  <2>1. /\ run[u].dev \in Devices /\ run[u].dev # NoDevice
        /\ run[u].at \notin {"names", "vmid"} => run[u].vmid \in Vmids
    BY <1>3, RunTyped
  <2>2. run[w].dev # run[u].dev
    BY <2>1 DEF VmInv, Solo
  <2>3. sot'[run[u].dev] = sot[run[u].dev]
    BY <2>1, <2>2, SotRests
  <2>4. \A v \in Vmids : vm'[v].of = run[u].dev => vm[v].of = run[u].dev /\ Kept(v)
    BY <2>1, <2>2, VmsAppear
  <2>5. \A v \in Vmids : vm[v].st = "destroying" => vm'[v] = vm[v]
    BY VmsAppear
  <2>6. At(u, "destroy_wait") => run[u].vmid \in Vmids
    BY <2>1 DEF At
  <2>7. Gone(run[u].dev) => Gone(run[u].dev)'
    BY <1>1, <2>4 DEF Gone
  <2>8. OnlyAt(run[u].dev, run[u].vmid) => OnlyAt(run[u].dev, run[u].vmid)'
    BY <1>1, <2>4 DEF OnlyAt
  <2>9. /\ At(u, "names")' => \A v \in Vmids : (vm[v].of = run[u].dev => vm[v].named)'
    BY <1>1, <2>4 DEF Sure, At, Kept
  <2>10. (At(u, "destroy_wait") /\ run[u].task = "running" => MyVm(u).st = "destroying")'
    BY <1>1, <2>5, <2>6 DEF Sure, At, MyVm
  <2> QED
    BY <1>1, <2>3, <2>7, <2>8, <2>9, <2>10 DEF Sure, At
<1> QED
  BY <1>2, <1>3

(* A run that goes on. *)
LEMMA SureOn ==
  ASSUME TypeInv, VmInv, NEW w \in Workers, ~At(w, "idle"), UNCHANGED sot,
         \A v \in Vmids : Kept(v),
         run'[w].dev = run[w].dev, run'[w].vmid = run[w].vmid
  PROVE  /\ run'[w].at \in {"rollback", "rb_stop", "rb_destroy", "rb_wait", "rb_iso"}
              /\ run[w].at \in DeploySteps \ {"ready"} => Sure(w)'
         /\ run'[w].at \in {"start", "save"} /\ run[w].at \in {"create_wait", "start"} => Sure(w)'
         /\ run'[w].at \in {"stop", "destroy"} /\ run[w].at \in {"find", "stop"} => Sure(w)'
         /\ run'[w].at = "create" /\ At(w, "iso") => Sure(w)'
         /\ run'[w].at = "vmid" /\ At(w, "names") /\ Gone(run[w].dev) => Sure(w)'
         /\ run'[w].at \in {"sweep", "clear"} /\ run[w].at \in DecommissionSteps /\ Gone(run[w].dev) => Sure(w)'
<1>1. Sure(w)
  BY DEF VmInv
<1>2. Gone(run[w].dev) => Gone(run[w].dev)'
  BY DEF Gone, Kept
<1>3. OnlyAt(run[w].dev, run[w].vmid) => OnlyAt(run[w].dev, run[w].vmid)'
  BY DEF OnlyAt, Kept
<1> USE <1>1, <1>2, <1>3 DEF Sure, At, DeploySteps, DecommissionSteps
<1>4. run'[w].at \in {"rollback", "rb_stop", "rb_destroy", "rb_wait", "rb_iso"}
        /\ run[w].at \in DeploySteps \ {"ready"} => Sure(w)'
  OBVIOUS
<1>5. run'[w].at \in {"start", "save"} /\ run[w].at \in {"create_wait", "start"} => Sure(w)'
  OBVIOUS
<1>6. run'[w].at \in {"stop", "destroy"} /\ run[w].at \in {"find", "stop"} => Sure(w)'
  OBVIOUS
<1>7. run'[w].at = "create" /\ At(w, "iso") => Sure(w)'
  OBVIOUS
<1>8. run'[w].at = "vmid" /\ At(w, "names") /\ Gone(run[w].dev) => Sure(w)'
  OBVIOUS
<1>9. run'[w].at \in {"sweep", "clear"} /\ run[w].at \in DecommissionSteps /\ Gone(run[w].dev) => Sure(w)'
  OBVIOUS
<1> QED
  BY <1>4, <1>5, <1>6, <1>7, <1>8, <1>9

LEMMA SureDeploys ==
  ASSUME OneJob, TasksOver, TypeInv, VmInv, NEW w \in Workers, Deploy(w)
  PROVE  Sure(w)'
<1> DEFINE d == run[w].dev
<1>t. run \in [Workers -> Run] /\ vm \in [Vmids -> Vm] /\ Sure(w)
  BY DEF TypeInv, VnfTypeOK, VmInv
<1>g. ASSUME NEW step \in AllSteps, Goto(w, step)
      PROVE run'[w].at = step /\ run'[w].dev = run[w].dev /\ run'[w].vmid = run[w].vmid /\ run'[w].task = "none"
  BY <1>g, <1>t, Going
<1>e. ASSUME Ends(w) PROVE Sure(w)'
  BY <1>e, <1>t, Ending, IdleTyped DEF Sure, At, DeploySteps, DecommissionSteps
<1>k. UNCHANGED vm => \A v \in Vmids : Kept(v)
  BY DEF Kept
<1> USE DEF AllSteps, DeploySteps
<1>1. ASSUME NEW e \in Devices, StartDeploy(w, e) PROVE Sure(w)'
  <2>1. run'[w].at = "names" /\ run'[w].dev = e
    BY <1>1, <1>t DEF StartDeploy, Idle, Run
  <2>2. \A v \in Vmids : vm[v].of = e => vm[v].named
    <3> SUFFICES ASSUME NEW v \in Vmids, vm[v].of = e PROVE vm[v].named
      OBVIOUS
    <3>1. vm[v].st \notin {"creating", "destroying"}
      BY <1>1 DEF StartDeploy, MayStart, TaskOn
    <3>2. vm[v].st # "none"
      BY <1>t, VmExists, VnfAssumption
    <3> QED
      BY <3>1, <3>2 DEF VmInv, Named
  <2> QED
    BY <1>1, <2>1, <2>2 DEF StartDeploy, Sure, At, DecommissionSteps
<1>2. CASE CheckName(w)
  <2>1. CASE \A v \in Vmids : ~Shows(v, d)
    <3>1. Gone(d)
      BY <1>2, <1>t, <2>1 DEF CheckName, Shows, Sure, Gone
    <3> QED
      BY <1>2, <1>g, <1>e, <1>k, <3>1, SureOn DEF CheckName, At, DecommissionSteps
  <2> QED
    BY <1>2, <1>e, <2>1 DEF CheckName
<1>3. CASE TakeVmid(w)
  <2>1. run'[w].at \in {"iso", "create"} /\ run'[w].dev = run[w].dev /\ UNCHANGED <<vm, sot>>
    BY <1>3, <1>t DEF TakeVmid, Run
  <2> QED
    BY <1>3, <1>t, <2>1 DEF TakeVmid, Sure, At, Gone, DecommissionSteps
<1>4. CASE Refuse(w)
  BY <1>4, <1>e DEF Refuse
<1>5. CASE UploadIso(w)
  <2>1. CASE run' = [run EXCEPT ![w].at = "create", ![w].uploaded = TRUE]
    <3>1. run'[w].at = "create" /\ run'[w].dev = run[w].dev /\ run'[w].vmid = run[w].vmid
      BY <1>t, <2>1 DEF Run
    <3> QED
      BY <1>5, <3>1, <1>k, SureOn DEF UploadIso, At
  <2> QED
    BY <1>5, <1>e, <2>1 DEF UploadIso, Raises
<1>6. CASE PostCreate(w)
  <2>1. CASE MyVm(w) = NoVm
    <3>1. run'[w].at \in {"create_wait", "rollback"} /\ run'[w].dev = run[w].dev /\ run'[w].vmid = run[w].vmid
      <4>1. CASE run' = [run EXCEPT ![w].at = "create_wait", ![w].task = "running"]
        BY <4>1, <1>t DEF Run
      <4> QED
        BY <1>6, <1>g, <2>1, <4>1 DEF PostCreate
    <3>2. OnlyAt(run[w].dev, run[w].vmid)'
      BY <1>6, <1>t, <2>1, <3>1, Created DEF PostCreate, Sure, At, Gone, OnlyAt
    <3> QED
      BY <1>6, <1>t, <3>1, <3>2 DEF PostCreate, Sure, At, DecommissionSteps
  <2>2. CASE MyVm(w) # NoVm
    BY <1>6, <1>g, <1>k, <2>2, SureOn DEF PostCreate, At
  <2> QED
    BY <2>1, <2>2
<1>7. CASE SeeCreated(w)
  BY <1>7, <1>g, <1>k, SureOn DEF SeeCreated, At
<1>8. CASE StartVm(w)
  <2>1. \A v \in Vmids : Kept(v)
    BY <1>8, VmsRest DEF Acts, PostCreate, StartVm, At
  <2> QED
    BY <1>8, <1>g, <2>1, SureOn DEF StartVm, At
<1>9. CASE DeployFails(w)
  BY <1>9, <1>g, <1>k, SureOn DEF DeployFails, At
<1>10. CASE SaveActive(w)
  <2>1. run'[w].at = "ready" /\ run'[w].dev = run[w].dev
    BY <1>10, <1>g DEF SaveActive
  <2>2. sot'[run[w].dev].status = "Active"
    BY <1>10, RunTyped DEF SaveActive, At, TypeInv, VnfTypeOK
  <2> QED
    BY <2>1, <2>2 DEF Sure, At, DecommissionSteps
<1>11. CASE AwaitReady(w)
  BY <1>11, <1>e DEF AwaitReady
<1> QED
  BY <1>1, <1>2, <1>3, <1>4, <1>5, <1>6, <1>7, <1>8, <1>9, <1>10, <1>11 DEF Deploy

LEMMA SureCleans ==
  ASSUME OneJob, TasksOver, TypeInv, VmInv, NEW w \in Workers, Rollback(w) \/ Decommission(w) \/ RunDies(w)
  PROVE  Sure(w)'
<1> DEFINE d == run[w].dev
<1>t. run \in [Workers -> Run] /\ vm \in [Vmids -> Vm] /\ Sure(w)
  BY DEF TypeInv, VnfTypeOK, VmInv
<1>g. ASSUME NEW step \in AllSteps, Goto(w, step)
      PROVE run'[w].at = step /\ run'[w].dev = run[w].dev /\ run'[w].vmid = run[w].vmid /\ run'[w].task = "none"
  BY <1>g, <1>t, Going
<1>e. ASSUME Ends(w) PROVE Sure(w)'
  BY <1>e, <1>t, Ending, IdleTyped DEF Sure, At, DeploySteps, DecommissionSteps
<1>k. UNCHANGED vm => \A v \in Vmids : Kept(v)
  BY DEF Kept
<1>v. At(w, "create") \/ \A v \in Vmids : Kept(v)
  BY VmsRest DEF Acts, PostCreate
<1> USE DEF AllSteps, DeploySteps, DecommissionSteps
<1>1. CASE Rollback(w)
  <2>1. CASE DestroyVm(w, "rb_destroy", "rb_wait", Goto(w, "rb_iso"))
    <3>1. run'[w].at \in {"rb_wait", "rb_iso"} /\ run'[w].dev = run[w].dev /\ run'[w].vmid = run[w].vmid
      <4>1. CASE run' = [run EXCEPT ![w].at = "rb_wait", ![w].task = "running"]
        BY <4>1, <1>t DEF Run
      <4> QED
        BY <1>g, <2>1, <4>1 DEF DestroyVm
    <3> QED
      BY <1>v, <2>1, <3>1, SureOn DEF DestroyVm, At
  <2>2. CASE StopVm(w, "rb_stop", "rb_destroy", Goto(w, "rb_iso"))
    BY <1>g, <1>v, <2>2, SureOn DEF StopVm, At
  <2>3. CASE DecideRollback(w)
    BY <1>g, <1>k, <2>3, SureOn DEF DecideRollback, At
  <2>4. CASE RollbackFails(w)
    BY <1>g, <1>k, <2>4, SureOn DEF RollbackFails, At
  <2>5. CASE SeeDestroyed(w, "rb_wait", "rb_iso", Goto(w, "rb_iso"))
    BY <1>g, <1>k, <2>5, SureOn DEF SeeDestroyed, At
  <2>6. CASE RollbackIso(w)
    BY <1>e, <2>6 DEF RollbackIso
  <2> QED
    BY <1>1, <2>1, <2>2, <2>3, <2>4, <2>5, <2>6 DEF Rollback
<1>2. ASSUME NEW e \in Devices, StartDecommission(w, e) PROVE Sure(w)'
  <2>1. run'[w].at = "find" /\ run'[w].dev = e /\ run'[w].vmid = sot[e].vmid
    BY <1>2, <1>t DEF StartDecommission, Idle, Run
  <2> QED
    BY <1>2, <2>1 DEF StartDecommission, Sure, At
<1>3. CASE FindVm(w)
  <2>1. CASE MyVm(w) = NoVm
    <3>1. Gone(d)
      BY <1>3, <1>t, <2>1, RunTyped, VmTyped DEF FindVm, MyVm, VmInv, Recorded, OnlyAt, Sure, At, Gone
    <3> QED
      BY <1>3, <1>g, <1>k, <2>1, <3>1, SureOn DEF FindVm, At
  <2> QED
    BY <1>3, <1>g, <1>e, <1>k, <2>1, SureOn DEF FindVm, At
<1>4. CASE StopVm(w, "stop", "destroy", Ends(w))
  BY <1>g, <1>e, <1>v, <1>4, SureOn DEF StopVm, At
<1>5. CASE DestroyVm(w, "destroy", "destroy_wait", Ends(w))
  <2>1. CASE BeginsDestroy(w, "destroy")
    <3>1. run[w].vmid \in Vmids
      BY <1>5, RunTyped DEF DestroyVm, At
    <3>2. /\ run'[w].at = "destroy_wait" /\ run'[w].dev = run[w].dev /\ run'[w].vmid = run[w].vmid
          /\ run'[w].task = "running"
      BY <1>5, <1>t, <2>1 DEF DestroyVm, Run
    <3>3. vm'[run[w].vmid].st = "destroying"
      BY <1>5, <1>t, <2>1, <3>1, VmTurns DEF DestroyVm, BeginsDestroy, MyVm
    <3> QED
      BY <1>5, <1>t, <3>2, <3>3 DEF DestroyVm, Sure, At, MyVm
  <2> QED
    BY <1>5, <1>e, <2>1 DEF DestroyVm
<1>6. CASE SeeDestroyed(w, "destroy_wait", "sweep", Ends(w))
  <2>1. CASE run[w].task = "ok" /\ Goto(w, "sweep")
    <3>1. Gone(d)
      BY <1>6, <1>t, <2>1 DEF SeeDestroyed, Sure
    <3> QED
      BY <1>6, <1>g, <1>k, <2>1, <3>1, SureOn DEF SeeDestroyed, At
  <2> QED
    BY <1>6, <1>e, <2>1 DEF SeeDestroyed
<1>7. CASE SweepIso(w)
  <2>1. Gone(d)
    BY <1>7, <1>t DEF SweepIso, Sure, At
  <2> QED
    BY <1>7, <1>g, <1>k, <2>1, SureOn DEF SweepIso, At
<1>8. CASE SavePlanned(w) \/ DecommissionFails(w) \/ RunDies(w)
  BY <1>e, <1>8 DEF SavePlanned, DecommissionFails, RunDies, Raises
<1> QED
  BY <1>1, <1>2, <1>3, <1>4, <1>5, <1>6, <1>7, <1>8 DEF Decommission

(* The node's tasks bring no VM; a watched destruction that went well took *)
(* the device's only one.                                                  *)
LEMMA SureTasks ==
  ASSUME TypeInv, VmInv, NEW v \in Vmids, CreateEnds(v) \/ DestroyEnds(v), NEW w \in Workers
  PROVE  Sure(w)'
<1>1. Sure(w) /\ run'[w].at = run[w].at /\ run'[w].dev = run[w].dev /\ run'[w].vmid = run[w].vmid
  BY TasksEnd DEF VmInv
<1>2. CASE At(w, "idle")
  BY <1>1, <1>2 DEF Sure, At, DeploySteps, DecommissionSteps
<1>3. CASE ~At(w, "idle")
  <2>1. /\ run[w].dev \in Devices /\ run[w].dev # NoDevice
        /\ At(w, "destroy_wait") => run[w].vmid \in Vmids
    BY <1>3, RunTyped DEF At
  <2>2. \A u \in Vmids : vm'[u].of = run[w].dev => vm[u].of = run[w].dev /\ (vm[u].named => vm'[u].named)
    BY <2>1, TasksEnd, VmTyped
  <2>3. Gone(run[w].dev) => Gone(run[w].dev)'
    BY <1>1, <2>2 DEF Gone
  <2>4. OnlyAt(run[w].dev, run[w].vmid) => OnlyAt(run[w].dev, run[w].vmid)'
    BY <1>1, <2>2 DEF OnlyAt
  <2>5. UNCHANGED sot
    BY DEF CreateEnds, DestroyEnds
  <2>6. ASSUME At(w, "destroy_wait"), run'[w].task = "running" PROVE vm'[run[w].vmid].st = "destroying"
    <3>1. run[w].task = "running" /\ vm[run[w].vmid].st = "destroying"
      BY <1>1, <2>6, TasksEnd DEF Sure, MyVm
    <3>2. run[w].vmid # v
      BY <2>6, <3>1, TasksEnd DEF CreateEnds
    <3> QED
      BY <2>1, <2>6, <3>1, <3>2, TasksEnd
  <2>7. ASSUME At(w, "destroy_wait"), run'[w].task = "ok" PROVE Gone(run[w].dev)'
    <3>1. CASE run[w].task = "ok"
      BY <1>1, <2>3, <2>7, <3>1 DEF Sure
    <3>2. CASE run[w].task # "ok"
      <4>1. run[w].vmid = v /\ vm'[v] = NoVm
        BY <2>7, <3>2, TasksEnd DEF At
      <4>2. OnlyAt(run[w].dev, v)
        BY <1>1, <2>1, <2>7, <4>1 DEF Sure, At, VmInv, Recorded, DecommissionSteps
      <4> QED
        BY <1>1, <2>1, <2>2, <4>1, <4>2, VmTyped DEF OnlyAt, Gone
    <3> QED
      BY <3>1, <3>2
  <2> QED
    BY <1>1, <2>2, <2>3, <2>4, <2>5, <2>6, <2>7 DEF Sure, At, MyVm
<1> QED
  BY <1>2, <1>3

LEMMA VmInvInit == Init => VmInv
<1> SUFFICES ASSUME Init PROVE VmInv
  OBVIOUS
<1>1. Solo /\ Named /\ Recorded /\ OneVmPerDevice
  BY IdleTyped, VmTyped DEF Init, Solo, Named, Recorded, OneVmPerDevice
<1>2. ASSUME NEW w \in Workers PROVE Sure(w)
  BY IdleTyped DEF Init, Sure, At, DeploySteps, DecommissionSteps
<1> QED
  BY <1>1, <1>2 DEF VmInv

(* A run's step: the device of a VM stays, but for the VM that it creates. *)
LEMMA VmActs ==
  ASSUME OneJob, TasksOver, TypeInv, VmInv, NEW w \in Workers, Acts(w)
  PROVE  VmInv'
<1>t. vm \in [Vmids -> Vm] /\ run \in [Workers -> Run] /\ Sure(w) /\ RunShape(w)
  BY DEF TypeInv, VnfTypeOK, VmInv
<1>c. ASSUME NEW v \in Vmids, vm'[v].of # vm[v].of
      PROVE PostCreate(w) /\ v = run[w].vmid /\ Gone(run[w].dev) /\ sot[run[w].dev].status = "Planned"
  BY <1>c, <1>t, VmsRest, Created DEF Kept, PostCreate, Sure, At, DeploySteps
<1>1. Solo'
  BY SoloStep DEF VmInv
<1>2. Named'
  <2> SUFFICES ASSUME NEW v \in Vmids, vm'[v].st \notin {"none", "creating"} PROVE vm'[v].named
    BY DEF Named
  <2>1. CASE PostCreate(w) /\ MyVm(w) = NoVm
    BY <2>1, Created DEF VmInv, Named
  <2>2. CASE ~(PostCreate(w) /\ MyVm(w) = NoVm)
    BY <2>2, VmsRest DEF VmInv, Named, Kept
  <2> QED
    BY <2>1, <2>2
<1>3. OneVmPerDevice'
  <2> SUFFICES ASSUME NEW u \in Vmids, NEW v \in Vmids, u # v, vm'[u].of = vm'[v].of, vm'[u].of # NoDevice
               PROVE  FALSE
    <3>1. vm' \in [Vmids -> Vm]
      BY TypeInvStep DEF Next, Acts, TypeInv, VnfTypeOK
    <3> QED
      BY <3>1, VmExists DEF OneVmPerDevice
  <2>1. CASE vm'[u].of = vm[u].of /\ vm'[v].of = vm[v].of
    BY <1>t, <2>1, VmTyped DEF VmInv, OneVmPerDevice
  <2>2. CASE vm'[u].of # vm[u].of
    BY <1>c, <2>2, VmsAppear DEF Gone
  <2>3. CASE vm'[v].of # vm[v].of
    BY <1>c, <2>3, VmsAppear DEF Gone
  <2> QED
    BY <2>1, <2>2, <2>3
<1>4. Recorded'
  <2> SUFFICES ASSUME NEW d \in Devices, sot'[d].status = "Active", NEW u \in Vmids, vm'[u].of = d
               PROVE  u = sot'[d].vmid
    BY DEF Recorded, OnlyAt
  <2>1. CASE sot'[d] = sot[d]
    <3>1. vm'[u].of = vm[u].of
      BY <1>c, <2>1, VmsAppear
    <3> QED
      BY <2>1, <3>1 DEF VmInv, Recorded, OnlyAt
  <2>2. CASE sot'[d] # sot[d]
    <3>1. SaveActive(w) /\ d = run[w].dev
      BY <2>2, SotRests DEF SavePlanned, TypeInv, VnfTypeOK
    <3>2. OnlyAt(d, run[w].vmid) /\ UNCHANGED vm /\ sot'[d].vmid = run[w].vmid
      BY <1>t, <3>1 DEF SaveActive, Sure, At, TypeInv, VnfTypeOK
    <3> QED
      BY <3>2 DEF OnlyAt
  <2> QED
    BY <2>1, <2>2
<1>5. ASSUME NEW u \in Workers PROVE Sure(u)'
  BY <1>5, OthersSure, SureDeploys, SureCleans DEF Acts
<1> QED
  BY <1>1, <1>2, <1>3, <1>4, <1>5 DEF VmInv

LEMMA VmInvStep ==
  ASSUME OneJob, TasksOver
  PROVE  TypeInv /\ VmInv /\ [Next]_vars => VmInv'
<1> SUFFICES ASSUME TypeInv, VmInv, [Next]_vars PROVE VmInv'
  OBVIOUS
<1>1. CASE UNCHANGED vars
  BY <1>1 DEF vars, VmInv, Solo, Named, Recorded, OneVmPerDevice, Sure, At, MyVm, Gone, OnlyAt
<1>2. ASSUME NEW v \in Vmids, CreateEnds(v) \/ DestroyEnds(v) PROVE VmInv'
  <2>1. \A u \in Vmids : vm'[u].of \in {vm[u].of, NoDevice} /\ (vm'[u].of # NoDevice => vm'[u].of = vm[u].of)
    BY <1>2, TasksEnd, VmTyped
  <2>2. Solo'
    BY <1>2, TasksEnd DEF VmInv, Solo
  <2>3. Named'
    BY <1>2, TasksEnd, VmTyped DEF VmInv, Named, CreateEnds, DestroyEnds
  <2>4. OneVmPerDevice'
    <3>1. vm' \in [Vmids -> Vm] /\ vm \in [Vmids -> Vm]
      BY <1>2, TypeInvStep DEF Next, TypeInv, VnfTypeOK
    <3> QED
      BY <2>1, <3>1, VmExists DEF VmInv, OneVmPerDevice
  <2>5. Recorded'
    <3>1. UNCHANGED sot
      BY <1>2 DEF CreateEnds, DestroyEnds
    <3> QED
      BY <2>1, <3>1, VnfAssumption DEF VmInv, Recorded, OnlyAt
  <2> QED
    BY <1>2, <2>2, <2>3, <2>4, <2>5, SureTasks DEF VmInv
<1> QED
  BY <1>1, <1>2, VmActs DEF Next, Acts

(* However often a deploy is repeated after a failure, the device has one  *)
(* VM at most: the name check (deploy_device.py) sees every VM of a device *)
(* none of whose jobs or tasks is running.                                 *)
THEOREM OneVmPerDeviceHolds ==
  ASSUME OneJob, TasksOver
  PROVE  Spec => []OneVmPerDevice
<1>1. VmInv => OneVmPerDevice
  BY DEF VmInv
<1> QED
  BY <1>1, TypeInvInit, TypeInvStep, VmInvInit, VmInvStep, PTL DEF Spec

(* Decommission sets a device back to Planned (decommission_device.py)     *)
(* only when it has no VM, also if an earlier one died half-way.           *)
THEOREM PlannedMeansGoneHolds ==
  ASSUME OneJob, TasksOver
  PROVE  Spec => PlannedMeansGone
<1>1. TypeInv /\ VmInv /\ [Next]_vars =>
        [\A d \in Devices :
           sot[d].status = "Active" /\ sot'[d].status = "Planned" => \A v \in Vmids : vm[v].of # d]_vars
  <2> SUFFICES ASSUME TypeInv, VmInv, Next, NEW d \in Devices,
                      sot[d].status = "Active", sot'[d].status = "Planned", NEW v \in Vmids
               PROVE  vm[v].of # d
    OBVIOUS
  <2>1. PICK w \in Workers : Acts(w)
    BY DEF Next, Acts, CreateEnds, DestroyEnds
  <2>2. SavePlanned(w) /\ d = run[w].dev
    <3>1. d = run[w].dev /\ (SaveActive(w) \/ SavePlanned(w))
      BY <2>1, SotRests
    <3>2. ~SaveActive(w)
      BY <3>1 DEF SaveActive, TypeInv, VnfTypeOK
    <3> QED
      BY <3>1, <3>2
  <2> QED
    BY <2>2 DEF SavePlanned, VmInv, Sure, At, Gone
<1> QED
  BY <1>1, TypeInvInit, TypeInvStep, VmInvInit, VmInvStep, PTL DEF Spec, PlannedMeansGone

-----------------------------------------------------------------------------
(* The ISO that carries credentials. *)
LEMMA JobsInvInit == Init => JobsInv
BY IdleTyped DEF Init, JobsInv, Solo, ActiveOn, DecommissionSteps

LEMMA ActiveActs ==
  ASSUME TypeInv, NEW w \in Workers, Acts(w), ActiveOn(w)
  PROVE  ActiveOn(w)'
<1>t. run \in [Workers -> Run]
  BY DEF TypeInv, VnfTypeOK
<1>g. ASSUME NEW step \in AllSteps, Goto(w, step) PROVE run'[w].at = step /\ run'[w].dev = run[w].dev
  BY <1>g, <1>t, Going
<1>e. ASSUME Ends(w) PROVE ActiveOn(w)'
  BY <1>e, <1>t, Ending, IdleTyped DEF ActiveOn, DecommissionSteps
<1> USE <1>t, <1>g, <1>e DEF AllSteps, DeploySteps, DecommissionSteps, ActiveOn, At
<1>1. CASE Deploy(w)
  <2>1. CASE \E d \in Devices : StartDeploy(w, d)
    BY <2>1 DEF StartDeploy, Idle, Run
  <2>2. CASE TakeVmid(w)
    BY <2>2 DEF TakeVmid, Run
  <2>3. CASE UploadIso(w)
    BY <2>3 DEF UploadIso, Raises, Run
  <2>4. CASE PostCreate(w)
    BY <2>4 DEF PostCreate, Run
  <2>5. CASE SaveActive(w)
    <3>1. run'[w].dev = run[w].dev /\ run[w].dev \in Devices /\ sot'[run[w].dev].status = "Active"
      BY <2>5, RunTyped DEF SaveActive, TypeInv, VnfTypeOK
    <3> QED
      BY <3>1
  <2> QED
    BY <1>1, <2>1, <2>2, <2>3, <2>4, <2>5 DEF Deploy, CheckName, Refuse, SeeCreated, StartVm, DeployFails, AwaitReady
<1>2. CASE Rollback(w)
  <2>1. CASE DestroyVm(w, "rb_destroy", "rb_wait", Goto(w, "rb_iso"))
    BY <2>1 DEF DestroyVm, Run
  <2> QED
    BY <1>2, <2>1 DEF Rollback, DecideRollback, RollbackFails, StopVm, SeeDestroyed, RollbackIso
<1>3. CASE Decommission(w)
  <2>1. CASE \E d \in Devices : StartDecommission(w, d)
    BY <2>1 DEF StartDecommission, Idle, Run
  <2>2. CASE DestroyVm(w, "destroy", "destroy_wait", Ends(w))
    BY <2>2 DEF DestroyVm, Run
  <2> QED
    BY <1>3, <2>1, <2>2 DEF Decommission, FindVm, StopVm, SeeDestroyed, SweepIso, SavePlanned, DecommissionFails, Raises
<1> QED
  BY <1>1, <1>2, <1>3 DEF Acts, RunDies, Raises

LEMMA JobsInvStep ==
  ASSUME OneJob
  PROVE  TypeInv /\ JobsInv /\ [Next]_vars => JobsInv'
<1> SUFFICES ASSUME TypeInv, JobsInv, [Next]_vars PROVE JobsInv'
  OBVIOUS
<1>1. CASE UNCHANGED vars
  BY <1>1 DEF vars, JobsInv, Solo, ActiveOn
<1>2. ASSUME NEW v \in Vmids, CreateEnds(v) \/ DestroyEnds(v) PROVE JobsInv'
  <2>1. UNCHANGED sot
    BY <1>2 DEF CreateEnds, DestroyEnds
  <2> QED
    BY <1>2, <2>1, TasksEnd DEF JobsInv, Solo, ActiveOn
<1>3. ASSUME NEW w \in Workers, Acts(w) PROVE JobsInv'
  <2>1. ASSUME NEW u \in Workers \ {w} PROVE ActiveOn(u)'
    <3>1. run'[u] = run[u] /\ ActiveOn(u)
      BY <1>3, OthersRest DEF JobsInv
    <3>2. CASE At(u, "idle")
      BY <3>1, <3>2 DEF ActiveOn, At, DecommissionSteps
    <3>3. CASE ~At(u, "idle")
      <4>1. run[u].dev \in Devices /\ run[u].dev # run[w].dev
        BY <3>3, RunTyped DEF JobsInv, Solo
      <4> QED
        BY <1>3, <3>1, <4>1, SotRests DEF ActiveOn
    <3> QED
      BY <3>2, <3>3
  <2> QED
    BY <1>3, <2>1, SoloStep, ActiveActs DEF JobsInv
<1> QED
  BY <1>1, <1>2, <1>3 DEF Next, Acts

LEMMA IsoInvInit == Init => IsoInv
BY IdleTyped DEF Init, IsoInv, NoSilentLeak, IsoOf, At, DeploySteps, DecommissionSteps

(* A run's step uploads or deletes its own device's ISO. *)
LEMMA IsoRests ==
  ASSUME TypeInv, NEW w \in Workers, Acts(w)
  PROVE  /\ leaked \subseteq leaked'
         /\ \A d \in Devices : d # run[w].dev => (d \in iso' <=> d \in iso)
         /\ UploadIso(w) \/ iso' \subseteq iso
<1>1. /\ leaked \subseteq leaked'
      /\ UploadIso(w) \/ iso' = iso \/ iso' = iso \ {run[w].dev}
  BY DEF Acts, Deploy, StartDeploy, CheckName, TakeVmid, Refuse, UploadIso, PostCreate, SeeCreated, StartVm,
     DeployFails, SaveActive, AwaitReady, Rollback, DecideRollback, RollbackFails, SeeDestroyed, RollbackIso,
     StopVm, DestroyVm, Decommission, StartDecommission, FindVm, SweepIso, SavePlanned, DecommissionFails, RunDies
<1> QED
  BY <1>1 DEF UploadIso

(* What a run's step leaves behind: the shape of the run, and if it ended, *)
(* nothing unaccounted for.                                                *)
Accounted(w) ==
  \/ run[w].dev \notin iso' \/ run[w].dev \in leaked'
  \/ run[w].dev \in Devices /\ sot'[run[w].dev].status = "Active"

LEMMA IsoDeploys ==
  ASSUME OneJob, TypeInv, JobsInv, IsoInv, NEW w \in Workers, Deploy(w)
  PROVE  /\ IsoOf(w)'
         /\ ~At(w, "idle") => run'[w].dev = run[w].dev \/ Accounted(w)
<1>t. run \in [Workers -> Run] /\ ActiveOn(w) /\ IsoOf(w)
  BY DEF TypeInv, VnfTypeOK, JobsInv, IsoInv
<1>g. ASSUME NEW step \in AllSteps, Goto(w, step)
      PROVE run'[w].at = step /\ run'[w].dev = run[w].dev /\ run'[w].uploaded = run[w].uploaded
  BY <1>g, <1>t, Going
<1>e. ASSUME Ends(w) PROVE IsoOf(w)'
  BY <1>e, <1>t, Ending, IdleTyped DEF IsoOf, At, DeploySteps, DecommissionSteps
<1> USE DEF AllSteps, DeploySteps, DecommissionSteps
<1>1. ASSUME NEW d \in Devices, StartDeploy(w, d) PROVE IsoOf(w)' /\ At(w, "idle")
  <2>1. run'[w].at = "names" /\ run'[w].dev = d /\ ~run'[w].uploaded
    BY <1>1, <1>t DEF StartDeploy, Idle, Run
  <2>2. d \in iso => d \in leaked
    BY <1>1 DEF StartDeploy, MayStart, IsoInv, NoSilentLeak
  <2> QED
    BY <1>1, <2>1, <2>2 DEF StartDeploy, MayStart, IsoOf, At
<1>2. CASE CheckName(w) \/ Refuse(w)
  <2>1. UNCHANGED <<iso, leaked>> /\ run[w].at \in {"names", "vmid", "iso"}
    BY <1>2 DEF CheckName, Refuse, At
  <2>2. Accounted(w)
    BY <1>t, <2>1 DEF IsoOf, Accounted
  <2>3. CASE CheckName(w) /\ Goto(w, "vmid")
    BY <1>g, <1>t, <2>1, <2>3 DEF IsoOf, At, CheckName
  <2> QED
    BY <1>2, <1>e, <2>2, <2>3 DEF CheckName, Refuse
<1>3. CASE TakeVmid(w)
  <2>1. /\ run'[w].at = IF run[w].dev \in PaDevices THEN "iso" ELSE "create"
        /\ run'[w].dev = run[w].dev /\ run'[w].uploaded = run[w].uploaded
    BY <1>3, <1>t DEF TakeVmid, Run
  <2> QED
    BY <1>3, <1>t, <2>1 DEF TakeVmid, IsoOf, At
<1>4. CASE UploadIso(w)
  <2>1. CASE run' = [run EXCEPT ![w].at = "create", ![w].uploaded = TRUE]
    <3>1. run'[w].at = "create" /\ run'[w].dev = run[w].dev /\ run'[w].uploaded
      BY <1>t, <2>1 DEF Run
    <3> QED
      BY <3>1 DEF IsoOf, At
  <2>2. CASE Raises(w) /\ leaked' = leaked \union {run[w].dev}
    BY <1>e, <2>2 DEF Raises, Accounted
  <2> QED
    BY <1>4, <2>1, <2>2 DEF UploadIso
<1>5. CASE PostCreate(w)
  <2>1. run'[w].at \in {"create_wait", "rollback"} /\ run'[w].dev = run[w].dev /\ run'[w].uploaded = run[w].uploaded
    <3>1. CASE run' = [run EXCEPT ![w].at = "create_wait", ![w].task = "running"]
      BY <3>1, <1>t DEF Run
    <3> QED
      BY <1>5, <1>g, <3>1 DEF PostCreate
  <2> QED
    BY <1>5, <1>t, <2>1 DEF PostCreate, IsoOf, At
<1>6. CASE SeeCreated(w) \/ DeployFails(w)
  BY <1>6, <1>g, <1>t DEF SeeCreated, DeployFails, IsoOf, At
<1>7. CASE StartVm(w)
  BY <1>7, <1>g, <1>t DEF StartVm, IsoOf, At
<1>8. CASE SaveActive(w)
  BY <1>8, <1>g, <1>t DEF SaveActive, IsoOf, At
<1>9. CASE AwaitReady(w)
  BY <1>9, <1>e, <1>t, RunTyped DEF AwaitReady, Accounted, ActiveOn, At
<1> QED
  BY <1>1, <1>2, <1>3, <1>4, <1>5, <1>6, <1>7, <1>8, <1>9 DEF Deploy

LEMMA IsoCleans ==
  ASSUME OneJob, TypeInv, JobsInv, IsoInv, NEW w \in Workers, Rollback(w) \/ Decommission(w) \/ RunDies(w)
  PROVE  /\ IsoOf(w)'
         /\ ~At(w, "idle") => run'[w].dev = run[w].dev \/ Accounted(w)
<1>t. run \in [Workers -> Run] /\ ActiveOn(w) /\ IsoOf(w)
  BY DEF TypeInv, VnfTypeOK, JobsInv, IsoInv
<1>g. ASSUME NEW step \in AllSteps, Goto(w, step)
      PROVE run'[w].at = step /\ run'[w].dev = run[w].dev /\ run'[w].uploaded = run[w].uploaded
  BY <1>g, <1>t, Going
<1>e. ASSUME Ends(w) PROVE IsoOf(w)'
  BY <1>e, <1>t, Ending, IdleTyped DEF IsoOf, At, DeploySteps, DecommissionSteps
<1> USE DEF AllSteps, DeploySteps, DecommissionSteps
<1>1. CASE Rollback(w)
  <2>1. CASE DestroyVm(w, "rb_destroy", "rb_wait", Goto(w, "rb_iso"))
    <3>1. run'[w].at \in {"rb_wait", "rb_iso"} /\ run'[w].dev = run[w].dev /\ run'[w].uploaded = run[w].uploaded
      <4>1. CASE run' = [run EXCEPT ![w].at = "rb_wait", ![w].task = "running"]
        BY <4>1, <1>t DEF Run
      <4> QED
        BY <1>g, <2>1, <4>1 DEF DestroyVm
    <3> QED
      BY <1>t, <2>1, <3>1 DEF DestroyVm, IsoOf, At
  <2>2. CASE StopVm(w, "rb_stop", "rb_destroy", Goto(w, "rb_iso"))
    BY <1>g, <1>t, <2>2 DEF StopVm, IsoOf, At
  <2>3. CASE DecideRollback(w)
    BY <1>g, <1>t, <2>3 DEF DecideRollback, IsoOf, At
  <2>4. CASE RollbackFails(w) \/ SeeDestroyed(w, "rb_wait", "rb_iso", Goto(w, "rb_iso"))
    BY <1>g, <1>t, <2>4 DEF RollbackFails, SeeDestroyed, IsoOf, At
  <2>5. CASE RollbackIso(w)
    BY <1>e, <1>t, <2>5 DEF RollbackIso, IsoOf, At, Accounted
  <2> QED
    BY <1>1, <2>1, <2>2, <2>3, <2>4, <2>5 DEF Rollback
<1>2. ASSUME NEW d \in Devices, StartDecommission(w, d) PROVE IsoOf(w)' /\ At(w, "idle")
  <2>1. run'[w].at = "find" /\ run'[w].dev = d /\ ~run'[w].uploaded
    BY <1>2, <1>t DEF StartDecommission, Idle, Run
  <2> QED
    BY <1>2, <2>1 DEF StartDecommission, MayStart, IsoOf, At
<1>3. ASSUME ~At(w, "idle"), UNCHANGED sot, run[w].at \in DecommissionSteps PROVE Accounted(w)
  BY <1>3, <1>t, RunTyped DEF Accounted, ActiveOn
<1>4. CASE FindVm(w)
  BY <1>4, <1>3, <1>g, <1>e, <1>t DEF FindVm, IsoOf, At
<1>5. CASE StopVm(w, "stop", "destroy", Ends(w))
  BY <1>5, <1>3, <1>g, <1>e, <1>t DEF StopVm, IsoOf, At
<1>6. CASE DestroyVm(w, "destroy", "destroy_wait", Ends(w))
  <2>1. CASE run' = [run EXCEPT ![w].at = "destroy_wait", ![w].task = "running"]
    <3>1. run'[w].at = "destroy_wait" /\ run'[w].dev = run[w].dev /\ run'[w].uploaded = run[w].uploaded
      BY <2>1, <1>t DEF Run
    <3> QED
      BY <1>6, <1>t, <3>1 DEF DestroyVm, IsoOf, At
  <2> QED
    BY <1>6, <1>3, <1>e, <2>1 DEF DestroyVm, At
<1>7. CASE SeeDestroyed(w, "destroy_wait", "sweep", Ends(w))
  BY <1>7, <1>3, <1>g, <1>e, <1>t DEF SeeDestroyed, IsoOf, At
<1>8. CASE SweepIso(w)
  BY <1>8, <1>g, <1>t DEF SweepIso, IsoOf, At, IsoInv
<1>9. CASE SavePlanned(w)
  BY <1>9, <1>e, <1>t DEF SavePlanned, IsoOf, At, Accounted
<1>10. CASE DecommissionFails(w)
  BY <1>10, <1>3, <1>e DEF DecommissionFails, Raises, At
<1>11. CASE RunDies(w)
  BY <1>11, <1>e DEF RunDies, Raises, Accounted
<1> QED
  BY <1>1, <1>2, <1>4, <1>5, <1>6, <1>7, <1>8, <1>9, <1>10, <1>11 DEF Decommission

LEMMA IsoInvStep ==
  ASSUME OneJob
  PROVE  TypeInv /\ JobsInv /\ IsoInv /\ [Next]_vars => IsoInv'
<1> SUFFICES ASSUME TypeInv, JobsInv, IsoInv, [Next]_vars PROVE IsoInv'
  OBVIOUS
<1>t. iso \in SUBSET Devices /\ iso' \in SUBSET Devices /\ iso \subseteq PaDevices
  BY TypeInvStep DEF TypeInv, VnfTypeOK, IsoInv
<1>1. CASE UNCHANGED vars
  BY <1>1 DEF vars, IsoInv, NoSilentLeak, RunOn, IsoOf, At
<1>2. ASSUME NEW w \in Workers, Acts(w) PROVE IsoInv'
  <2>1. /\ IsoOf(w)'
        /\ ~At(w, "idle") => run'[w].dev = run[w].dev \/ Accounted(w)
    BY <1>2, IsoDeploys, IsoCleans DEF Acts
  <2>2. ASSUME NEW u \in Workers \ {w} PROVE IsoOf(u)'
    <3>1. run'[u] = run[u] /\ IsoOf(u)
      BY <1>2, OthersRest DEF IsoInv
    <3>2. CASE At(u, "idle")
      BY <3>1, <3>2 DEF IsoOf, At, DeploySteps, DecommissionSteps
    <3>3. CASE ~At(u, "idle")
      <4>1. run[u].dev \in Devices /\ run[u].dev # run[w].dev
        BY <3>3, RunTyped DEF JobsInv, Solo
      <4> QED
        BY <1>2, <3>1, <4>1, IsoRests DEF IsoOf, At
    <3> QED
      BY <3>2, <3>3
  <2>3. iso' \subseteq PaDevices
    <3>1. UploadIso(w) => run[w].dev \in PaDevices
      BY DEF IsoInv, IsoOf, UploadIso
    <3> QED
      BY <1>2, <1>t, <3>1, IsoRests DEF UploadIso
  <2>4. NoSilentLeak'
    <3> SUFFICES ASSUME NEW d \in iso', ~RunOn(d)', d \notin leaked' PROVE sot'[d].status = "Active"
      BY DEF NoSilentLeak
    <3>1. d \in Devices /\ d # NoDevice
      BY <1>t, VnfAssumption
    <3>2. CASE d = run[w].dev
      BY <2>1, <3>1, <3>2 DEF RunOn, Accounted, At, TypeInv, RunShape
    <3>3. CASE d # run[w].dev
      <4>1. d \in iso /\ d \notin leaked /\ sot'[d] = sot[d]
        BY <1>2, <3>1, <3>3, IsoRests, SotRests
      <4>2. ~RunOn(d)
        BY <1>2, <3>3, OthersRest DEF RunOn
      <4> QED
        BY <4>1, <4>2 DEF IsoInv, NoSilentLeak
    <3> QED
      BY <3>2, <3>3
  <2> QED
    BY <2>1, <2>2, <2>3, <2>4 DEF IsoInv
<1>3. ASSUME NEW v \in Vmids, CreateEnds(v) \/ DestroyEnds(v) PROVE IsoInv'
  <2>1. UNCHANGED <<iso, sot, leaked>>
    BY <1>3 DEF CreateEnds, DestroyEnds
  <2>2. \A w \in Workers : /\ run'[w].at = run[w].at /\ run'[w].dev = run[w].dev
                           /\ run'[w].uploaded = run[w].uploaded
    BY <1>3, TasksEnd
  <2> QED
    BY <2>1, <2>2 DEF IsoInv, NoSilentLeak, RunOn, IsoOf, At
<1> QED
  BY <1>1, <1>2, <1>3 DEF Next, Acts

(* Credentials do not stay on the hypervisor unnoticed: the ISO of a       *)
(* Planned device that no job works on was left by one that died or had    *)
(* its cleanup refused (deploy_device.py, decommission_device.py), if the  *)
(* jobs of one device do not overlap.                                      *)
THEOREM NoSilentLeakHolds ==
  ASSUME OneJob
  PROVE  Spec => []NoSilentLeak
<1>1. IsoInv => NoSilentLeak
  BY DEF IsoInv
<1> QED
  BY <1>1, TypeInvInit, TypeInvStep, JobsInvInit, JobsInvStep, IsoInvInit, IsoInvStep, PTL DEF Spec
=============================================================================

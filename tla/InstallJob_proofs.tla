--------------------------- MODULE InstallJob_proofs ---------------------------
(***************************************************************************)
(* The install job for any runs, members of virtual media, arms and        *)
(* faults.  A run knows the node by its Device alone: the invariants say   *)
(* what the state of the Device, the Secrets and the boot override tell of *)
(* the machine and its disk.  Only what they say of a run's own install    *)
(* needs Quiet: an earlier install has no call left to make by then.       *)
(***************************************************************************)
EXTENDS InstallJob, TLAPS

Redfish == method = "redfish-vmedia"

(* Types; only an install is booted; where a run has mounted. *)
NodeTyped ==
  /\ machine \in [phase : Phases, of : Installs \union {None, Test}]
  /\ machine.phase \in {"installer", "writing"} => machine.of # Test
  /\ disk \in Installs \union {None}
  /\ media \in [Slots -> Installs \union {None, Test}]
  /\ override \in Runs \union {None, Test}
  /\ vm \in [of : Installs \union {None}, iso : BOOLEAN]
  /\ rearmed \in [boot : BOOLEAN, disk : BOOLEAN]

SotTyped ==
  /\ device \in Device
  /\ stored \in Installs \union {None}
  /\ phoned \subseteq Installs
  /\ test \in MediaTest
  /\ arms \in 0..MaxArms
  /\ faults \in 0..MaxFaults

RunTyped ==
  /\ run \in [Runs -> Run]
  /\ \A r \in Runs : run[r].mounted \/ run[r].at \in {"inserted", "arm", "reset"} => run[r].slot # None

TypeInv ==
  /\ method \in {"redfish-vmedia", "pve-nested"}
  /\ NodeTyped
  /\ SotTyped
  /\ RunTyped

LEMMA Typed == TypeInv => JobTypeOK
BY DEF TypeInv, NodeTyped, SotTyped, RunTyped, JobTypeOK

(* How a step changes the run that makes it. *)
Only(r) == run' \in [Runs -> Run] /\ \A q \in Runs \ {r} : run'[q] = run[q]

AllSteps == Steps \union Ends \union {"idle"}

LEMMA Going ==
  ASSUME run \in [Runs -> Run], NEW r \in Runs, NEW step \in AllSteps, Goto(r, step)
  PROVE  /\ Only(r)
         /\ run'[r].at = step
         /\ run'[r].copy = run[r].copy /\ run'[r].fresh = run[r].fresh
         /\ run'[r].slot = run[r].slot /\ run'[r].mounted = run[r].mounted
         /\ run'[r].installed = run[r].installed /\ run'[r].credentials = run[r].credentials
<1> DEFINE q == [run[r] EXCEPT !.at = step]
<1>1. /\ q \in Run /\ q.at = step /\ q.copy = run[r].copy /\ q.fresh = run[r].fresh /\ q.slot = run[r].slot
      /\ q.mounted = run[r].mounted /\ q.installed = run[r].installed /\ q.credentials = run[r].credentials
  BY DEF Run, AllSteps
<1>2. run' = [run EXCEPT ![r] = q]
  BY DEF Goto
<1> HIDE DEF q
<1> QED
  BY <1>1, <1>2 DEF Only

LEMMA Starting ==
  ASSUME TypeInv, NEW r \in Runs, Start(r)
  PROVE  /\ Only(r)
         /\ run'[r].at = IF Redfish THEN "mount" ELSE "reconcile"
         /\ run'[r].copy = device /\ run'[r].fresh = run[r].fresh
         /\ run'[r].slot = run[r].slot /\ run'[r].mounted = run[r].mounted
         /\ run'[r].installed = run[r].installed /\ run'[r].credentials = run[r].credentials
<1> DEFINE step == IF Redfish THEN "mount" ELSE "reconcile"
           q == [run[r] EXCEPT !.copy = device, !.at = step]
<1>1. /\ q \in Run /\ q.at = step /\ q.copy = device /\ q.fresh = run[r].fresh /\ q.slot = run[r].slot
      /\ q.mounted = run[r].mounted /\ q.installed = run[r].installed /\ q.credentials = run[r].credentials
  BY DEF TypeInv, RunTyped, SotTyped, Run, Steps, MediaSteps, NestedSteps
<1>2. run' = [run EXCEPT ![r] = q]
  BY DEF Start, Redfish, TypeInv, RunTyped
<1> HIDE DEF q
<1> QED
  BY <1>1, <1>2 DEF Only, TypeInv, RunTyped

LEMMA Mounting ==
  ASSUME TypeInv, NEW r \in Runs, Mount(r)
  PROVE  /\ Only(r)
         /\ run'[r].at = "inserted" /\ run'[r].slot \in Slots
         /\ run'[r].copy = run[r].copy /\ run'[r].fresh = run[r].fresh /\ run'[r].mounted = run[r].mounted
         /\ run'[r].installed = run[r].installed /\ run'[r].credentials = run[r].credentials
         /\ media' \in [Slots -> Installs \union {None, Test}]
         /\ \A f \in Slots : media'[f] \in {media[f], r, None}
<1>1. PICK s \in Slots :
        /\ media' = [media EXCEPT ![s] = r] \/ media' = [media EXCEPT ![s] = None]
        /\ run' = [run EXCEPT ![r].at = "inserted", ![r].slot = s]
  BY DEF Mount
<1> DEFINE q == [run[r] EXCEPT !.at = "inserted", !.slot = s]
<1>2. /\ q \in Run /\ q.at = "inserted" /\ q.copy = run[r].copy /\ q.fresh = run[r].fresh /\ q.slot = s
      /\ q.mounted = run[r].mounted /\ q.installed = run[r].installed /\ q.credentials = run[r].credentials
  BY DEF TypeInv, RunTyped, Run, Steps, MediaSteps
<1>3. run' = [run EXCEPT ![r] = q]
  BY <1>1 DEF TypeInv, RunTyped
<1>4. /\ media' \in [Slots -> Installs \union {None, Test}]
      /\ \A f \in Slots : media'[f] \in {media[f], r, None}
  BY <1>1 DEF TypeInv, NodeTyped, Installs
<1> HIDE DEF q
<1> QED
  BY <1>2, <1>3, <1>4 DEF Only, TypeInv, RunTyped

LEMMA Resetting ==
  ASSUME TypeInv, NEW r \in Runs, ResetNode(r)
  PROVE  /\ Only(r)
         /\ run'[r].at = "watch" /\ run'[r].mounted
         /\ run'[r].copy = run[r].copy /\ run'[r].fresh = run[r].fresh /\ run'[r].slot = run[r].slot
         /\ run'[r].installed = run[r].installed /\ run'[r].credentials = run[r].credentials
<1> DEFINE q == [run[r] EXCEPT !.at = "watch", !.mounted = TRUE]
<1>1. /\ q \in Run /\ q.at = "watch" /\ q.copy = run[r].copy /\ q.fresh = run[r].fresh /\ q.slot = run[r].slot
      /\ q.mounted /\ q.installed = run[r].installed /\ q.credentials = run[r].credentials
  BY DEF TypeInv, RunTyped, Run, Steps
<1>2. run' = [run EXCEPT ![r] = q]
  BY DEF ResetNode, TypeInv, RunTyped
<1> HIDE DEF q
<1> QED
  BY <1>1, <1>2 DEF Only, TypeInv, RunTyped

LEMMA Polling ==
  ASSUME TypeInv, NEW r \in Runs, Poll(r)
  PROVE  /\ Only(r)
         /\ run'[r].at \in {"watch", "done"}
         /\ run'[r].at = "done" => SeesInstalled(r) /\ SeesCredentials(r)
         /\ run'[r].copy = run[r].copy /\ run'[r].fresh = run[r].fresh /\ run'[r].slot = run[r].slot
         /\ run'[r].mounted => run[r].mounted
         /\ run'[r].installed = SeesInstalled(r) /\ run'[r].credentials = SeesCredentials(r)
<1> DEFINE step == IF SeesInstalled(r) /\ SeesCredentials(r) THEN "done" ELSE "watch"
           mounted == run[r].mounted /\ ~SeesInstalled(r)
           q == [run[r] EXCEPT !.installed = SeesInstalled(r), !.credentials = SeesCredentials(r),
                               !.mounted = mounted, !.at = step]
<1>1. SeesInstalled(r) \in BOOLEAN /\ SeesCredentials(r) \in BOOLEAN
  BY DEF SeesInstalled, SeesCredentials, CredentialsStored, TypeInv, RunTyped, SotTyped, Run, Device
<1>2. mounted \in BOOLEAN /\ (mounted => run[r].mounted)
  BY DEF TypeInv, RunTyped, Run
<1>3. step \in {"watch", "done"} /\ (step = "done" => SeesInstalled(r) /\ SeesCredentials(r))
  OBVIOUS
<1>4. run' = [run EXCEPT ![r] = q]
  BY DEF Poll, TypeInv, RunTyped
<1> HIDE DEF step, mounted
<1>5. /\ q \in Run /\ q.at = step /\ q.copy = run[r].copy /\ q.fresh = run[r].fresh /\ q.slot = run[r].slot
      /\ q.mounted = mounted /\ q.installed = SeesInstalled(r) /\ q.credentials = SeesCredentials(r)
  BY <1>1, <1>2, <1>3 DEF TypeInv, RunTyped, Run, Steps, Ends
<1> HIDE DEF q
<1> QED
  BY <1>2, <1>3, <1>4, <1>5 DEF Only, TypeInv, RunTyped

(* A phone-home is fresh for the run that is active. *)
LEMMA Phoning ==
  ASSUME TypeInv, NEW m \in Installs, PhoneHome(m)
  PROVE  /\ run' \in [Runs -> Run]
         /\ \A r \in Runs :
              /\ run'[r].at = run[r].at /\ run'[r].copy = run[r].copy
              /\ run'[r].slot = run[r].slot /\ run'[r].mounted = run[r].mounted
              /\ run'[r].installed = run[r].installed /\ run'[r].credentials = run[r].credentials
              /\ run'[r].fresh => run[r].fresh \/ (Active(r) /\ stored' = m)
<1>1. CASE run' = [r \in Runs |-> [run[r] EXCEPT !.fresh = @ \/ Active(r)]] /\ stored' = m
  <2>1. ASSUME NEW r \in Runs
        PROVE  /\ run'[r] = [run[r] EXCEPT !.fresh = run[r].fresh \/ Active(r)]
               /\ run[r] \in Run /\ Active(r) \in BOOLEAN /\ run[r].fresh \in BOOLEAN
    BY <1>1 DEF TypeInv, RunTyped, Run, Active
  <2>2. ASSUME NEW r \in Runs
        PROVE  /\ run'[r] \in Run
               /\ run'[r].at = run[r].at /\ run'[r].copy = run[r].copy
               /\ run'[r].slot = run[r].slot /\ run'[r].mounted = run[r].mounted
               /\ run'[r].installed = run[r].installed /\ run'[r].credentials = run[r].credentials
               /\ run'[r].fresh = (run[r].fresh \/ Active(r))
    <3> DEFINE fresh == run[r].fresh \/ Active(r)
    <3>1. fresh \in BOOLEAN
      OBVIOUS
    <3>2. run'[r] = [run[r] EXCEPT !.fresh = fresh] /\ run[r] \in Run
      BY <2>1
    <3> HIDE DEF fresh
    <3>3. /\ run'[r] \in Run
          /\ run'[r].at = run[r].at /\ run'[r].copy = run[r].copy
          /\ run'[r].slot = run[r].slot /\ run'[r].mounted = run[r].mounted
          /\ run'[r].installed = run[r].installed /\ run'[r].credentials = run[r].credentials
          /\ run'[r].fresh = fresh
      BY <3>1, <3>2 DEF Run
    <3> QED
      BY <3>3 DEF fresh
  <2>3. run' \in [Runs -> Run]
    BY <1>1, <2>2
  <2> QED
    BY <1>1, <2>2, <2>3
<1>2. CASE UNCHANGED <<stored, device, run>>
  BY <1>2 DEF TypeInv, RunTyped
<1> QED
  BY <1>1, <1>2 DEF PhoneHome

LEMMA Faulty == faults \in 0..MaxFaults /\ (Fault \/ UNCHANGED faults) => faults' \in 0..MaxFaults
BY InstallJobAssumption DEF Fault

-----------------------------------------------------------------------------
(* What a machine boots. *)
LEMMA Booting ==
  ASSUME TypeInv, BootMachine
  PROVE  /\ override' = None
         /\ rearmed' \in [boot : BOOLEAN, disk : BOOLEAN] /\ rearmed'.disk = rearmed.disk
         /\ machine' \in [phase : {"disk", "stuck", "installer"}, of : Installs \union {None, Test}]
         /\ machine'.phase = "installer" => override # None /\ machine'.of # Test
         /\ machine'.of = disk \/ \E s \in Slots : machine'.of = media[s]
<1>1. override' = None /\ rearmed' \in [boot : BOOLEAN, disk : BOOLEAN] /\ rearmed'.disk = rearmed.disk
  BY DEF BootMachine, TypeInv, NodeTyped
<1>2. CASE machine' = BootsFromDisk
  BY <1>1, <1>2 DEF BootsFromDisk, TypeInv, NodeTyped
<1>3. ASSUME NEW m \in CdBoot, machine' = BootsFrom(m)
      PROVE  /\ machine' \in [phase : {"disk", "stuck", "installer"}, of : Installs \union {None, Test}]
             /\ machine'.phase = "installer" => override # None /\ machine'.of # Test
             /\ \E s \in Slots : machine'.of = media[s]
  <2>1. override # None /\ \E s \in Slots : m = media[s]
    BY DEF CdBoot, Inserted
  <2>2. m \in Installs \union {None, Test}
    BY <2>1 DEF TypeInv, NodeTyped
  <2> QED
    BY <1>3, <2>1, <2>2 DEF BootsFrom
<1> QED
  BY <1>1, <1>2, <1>3 DEF BootMachine

LEMMA BootingVm ==
  ASSUME TypeInv, BootVm
  PROVE  /\ machine' \in [phase : {"disk", "stuck", "installer"}, of : Installs \union {None}]
         /\ machine'.of # Test
         /\ machine'.of \in {disk, vm.of}
<1>1. disk \in Installs \union {None} /\ vm.of \in Installs \union {None} /\ Test \notin Installs \union {None}
  BY InstallJobAssumption DEF TypeInv, NodeTyped, Installs
<1> QED
  BY <1>1 DEF BootVm, BootsFromDisk

-----------------------------------------------------------------------------
(* Types. *)
RunStep(r) ==
  \/ Start(r)
  \/ Mount(r) \/ AwaitInserted(r) \/ ArmCdBoot(r) \/ ResetNode(r)
  \/ Reconcile(r) \/ CreateVm(r) \/ StartVm(r) \/ SaveVmid(r)
  \/ AwaitPoweroff(r) \/ AwaitFlip(r) \/ DetachIso(r) \/ RestartVm(r)
  \/ Poll(r) \/ WatchEnds(r) \/ RunFails(r)

TestStep == TestMount \/ TestInserted \/ TestArm \/ TestReset \/ TestEject \/ TestFails
ImageStep == AskAnswer \/ Install \/ Webhook \/ SpuriousReset

LEMMA NextCases ==
  Next <=> \/ \E r \in Runs : RunStep(r)
           \/ TestStep
           \/ ImageStep
           \/ \E m \in Installs : PhoneHome(m)
           \/ OperatorArms
BY DEF Next, RunStep, TestStep, ImageStep

LEMMA NodeUnmoved == NodeTyped /\ NodeSame /\ UNCHANGED rearmed => NodeTyped'
BY DEF NodeTyped, NodeSame

LEMMA NodeRunStep == ASSUME TypeInv, NEW r \in Runs, RunStep(r) PROVE NodeTyped'
<1>1. CASE \/ Start(r) \/ AwaitInserted(r) \/ SaveVmid(r) \/ AwaitPoweroff(r) \/ AwaitFlip(r) \/ WatchEnds(r) \/ RunFails(r)
  <2>1. NodeSame /\ UNCHANGED rearmed
    BY <1>1 DEF Start, AwaitInserted, SaveVmid, AwaitPoweroff, AwaitFlip, WatchEnds, RunFails, ReportsSame
  <2> QED
    BY <2>1, NodeUnmoved DEF TypeInv
<1>2. CASE Mount(r)
  BY <1>2, Mounting DEF Mount, ReportsSame, TypeInv, NodeTyped
<1>3. CASE ArmCdBoot(r)
  BY <1>3 DEF ArmCdBoot, Rearms, TypeInv, NodeTyped
<1>4. CASE ResetNode(r)
  BY <1>4, Booting DEF ResetNode, TypeInv, NodeTyped, Phases
<1>5. CASE Reconcile(r)
  BY <1>5 DEF Reconcile, PoweredOff, ReportsSame, TypeInv, NodeTyped, Phases
<1>6. CASE CreateVm(r)
  BY <1>6 DEF CreateVm, ReportsSame, TypeInv, NodeTyped, Installs
<1>7. CASE StartVm(r) \/ RestartVm(r)
  BY <1>7, BootingVm DEF StartVm, RestartVm, ReportsSame, TypeInv, NodeTyped, Phases
<1>8. CASE DetachIso(r)
  BY <1>8 DEF DetachIso, ReportsSame, TypeInv, NodeTyped
<1>9. CASE Poll(r)
  <2>1. media' \in [Slots -> Installs \union {None, Test}]
    BY <1>9 DEF Poll, Eject, TypeInv, NodeTyped
  <2> QED
    BY <1>9, <2>1 DEF Poll, ReportsSame, TypeInv, NodeTyped
<1> QED
  BY <1>1, <1>2, <1>3, <1>4, <1>5, <1>6, <1>7, <1>8, <1>9 DEF RunStep

LEMMA NodeTestStep == ASSUME TypeInv, TestStep PROVE NodeTyped'
<1>1. CASE TestMount
  BY <1>1 DEF TestMount, TestSame, TypeInv, NodeTyped
<1>2. CASE TestInserted \/ TestFails
  BY <1>2 DEF TestInserted, TestFails, TestSame, TypeInv, NodeTyped
<1>3. CASE TestArm
  BY <1>3 DEF TestArm, Rearms, TestSame, TypeInv, NodeTyped
<1>4. CASE TestReset
  BY <1>4, Booting DEF TestReset, TestSame, TypeInv, NodeTyped, Phases
<1>5. CASE TestEject
  BY <1>5 DEF TestEject, TestSame, TypeInv, NodeTyped
<1> QED
  BY <1>1, <1>2, <1>3, <1>4, <1>5 DEF TestStep

LEMMA NodeImageStep == ASSUME TypeInv, ImageStep PROVE NodeTyped'
<1>1. CASE AskAnswer
  BY <1>1 DEF AskAnswer, ReportsSame, TypeInv, NodeTyped, Phases
<1>2. CASE Install
  <2>1. rearmed' \in [boot : BOOLEAN, disk : BOOLEAN]
    BY <1>2 DEF Install, TypeInv, NodeTyped
  <2>2. disk' \in Installs \union {None}
    BY <1>2 DEF Install, TypeInv, NodeTyped
  <2>3. /\ machine' \in [phase : Phases, of : Installs \union {None, Test}]
        /\ machine'.phase \notin {"installer", "writing"}
    BY <1>2 DEF Install, PoweredOff, TypeInv, NodeTyped, Phases
  <2> QED
    BY <1>2, <2>1, <2>2, <2>3 DEF Install, TypeInv, NodeTyped
<1>3. CASE Webhook
  <2>1. CASE BootMachine
    BY <1>3, <2>1, Booting DEF Webhook, TypeInv, NodeTyped, Phases
  <2>2. CASE machine' = PoweredOff /\ UNCHANGED <<override, rearmed>>
    BY <1>3, <2>2 DEF Webhook, PoweredOff, TypeInv, NodeTyped, Phases
  <2> QED
    BY <1>3, <2>1, <2>2 DEF Webhook
<1>4. CASE SpuriousReset
  <2>1. CASE BootMachine
    BY <1>4, <2>1, Booting DEF SpuriousReset, TypeInv, NodeTyped, Phases
  <2>2. CASE BootVm /\ UNCHANGED <<override, rearmed>>
    BY <1>4, <2>2, BootingVm DEF SpuriousReset, TypeInv, NodeTyped, Phases
  <2> QED
    BY <1>4, <2>1, <2>2 DEF SpuriousReset
<1> QED
  BY <1>1, <1>2, <1>3, <1>4 DEF ImageStep

LEMMA SotStep == ASSUME TypeInv, Next PROVE SotTyped'
<1>1. faults' \in 0..MaxFaults
  <2>1. Fault \/ UNCHANGED faults
    <3>1. ASSUME NEW r \in Runs, RunStep(r) PROVE Fault \/ UNCHANGED faults
      BY <3>1 DEF RunStep, Start, Mount, AwaitInserted, ArmCdBoot, ResetNode, Reconcile, CreateVm, StartVm, SaveVmid,
                  AwaitPoweroff, AwaitFlip, DetachIso, RestartVm, Poll, Eject, WatchEnds, RunFails
    <3>2. TestStep => Fault \/ UNCHANGED faults
      BY DEF TestStep, TestMount, TestInserted, TestArm, TestReset, TestEject, TestFails
    <3>3. ImageStep => Fault \/ UNCHANGED faults
      BY DEF ImageStep, AskAnswer, Install, Webhook, SpuriousReset
    <3> QED
      BY <3>1, <3>2, <3>3, NextCases DEF PhoneHome, OperatorArms
  <2> QED
    BY <2>1, Faulty DEF TypeInv, SotTyped
<1>2. ASSUME NEW r \in Runs, RunStep(r) PROVE SotTyped'
  <2>1. CASE SaveVmid(r)
    BY <1>1, <2>1 DEF SaveVmid, TypeInv, SotTyped, RunTyped, Run
  <2>2. CASE SotSame
    BY <1>1, <2>2 DEF SotSame, TypeInv, SotTyped
  <2> QED
    BY <1>2, <2>1, <2>2 DEF RunStep, Start, Mount, AwaitInserted, ArmCdBoot, ResetNode, Reconcile, CreateVm, StartVm,
                           AwaitPoweroff, AwaitFlip, DetachIso, RestartVm, Poll, WatchEnds, RunFails, ReportsSame
<1>3. CASE TestStep
  <2>1. test' \in MediaTest
    BY <1>3 DEF TestStep, TestMount, TestInserted, TestArm, TestReset, TestEject, TestFails, TestGoto,
                TypeInv, SotTyped, MediaTest, TestSteps
  <2> QED
    BY <1>1, <1>3, <2>1 DEF TestStep, TestMount, TestInserted, TestArm, TestReset, TestEject, TestFails, TestSame,
                TypeInv, SotTyped
<1>4. CASE ImageStep
  <2>1. device' \in Device
    BY <1>4 DEF ImageStep, AskAnswer, Install, Webhook, SpuriousReset, ReportsSame, SotSame, TypeInv, SotTyped, Device
  <2> QED
    BY <1>1, <1>4, <2>1 DEF ImageStep, AskAnswer, Install, Webhook, SpuriousReset, ReportsSame, SotSame, TypeInv, SotTyped
<1>5. ASSUME NEW m \in Installs, PhoneHome(m) PROVE SotTyped'
  <2>1. device' \in Device /\ stored' \in Installs \union {None}
    <3>1. (device' = [state |-> "bm_installed", group |-> TRUE] /\ stored' = m) \/ UNCHANGED <<stored, device>>
      BY <1>5, Zenon DEF PhoneHome
    <3>2. [state |-> "bm_installed", group |-> TRUE] \in Device
      BY DEF Device
    <3>3. device \in Device /\ stored \in Installs \union {None}
      BY DEF TypeInv, SotTyped
    <3> QED
      BY <3>1, <3>2, <3>3
  <2>2. phoned' \subseteq Installs /\ test' = test /\ arms' = arms
    BY <1>5 DEF PhoneHome, TypeInv, SotTyped
  <2> QED
    BY <1>1, <2>1, <2>2 DEF TypeInv, SotTyped
<1>6. CASE OperatorArms
  BY <1>1, <1>6, InstallJobAssumption DEF OperatorArms, TypeInv, SotTyped, Device
<1> QED
  BY <1>2, <1>3, <1>4, <1>5, <1>6, NextCases

(* A run that goes from step to step. *)
Goes(r) ==
  \/ AwaitInserted(r) \/ ArmCdBoot(r) \/ Reconcile(r) \/ CreateVm(r) \/ StartVm(r) \/ SaveVmid(r)
  \/ AwaitPoweroff(r) \/ AwaitFlip(r) \/ DetachIso(r) \/ RestartVm(r) \/ WatchEnds(r) \/ RunFails(r)

(* From which step to which. *)
Edges ==
  {<<"inserted", "arm">>, <<"arm", "reset">>, <<"reconcile", "create">>, <<"create", "start">>, <<"start", "save">>,
   <<"save", "poweroff">>, <<"poweroff", "flip">>, <<"flip", "finalize">>, <<"finalize", "restart">>, <<"restart", "watch">>}

LEMMA GoesOn ==
  ASSUME TypeInv, NEW r \in Runs, Goes(r)
  PROVE  /\ Only(r) /\ Active(r)
         /\ run'[r].at \in Ends \/ <<run[r].at, run'[r].at>> \in Edges
         /\ run'[r].copy = run[r].copy /\ run'[r].fresh = run[r].fresh
         /\ run'[r].slot = run[r].slot /\ run'[r].mounted = run[r].mounted
         /\ run'[r].installed = run[r].installed /\ run'[r].credentials = run[r].credentials
<1>1. ASSUME NEW step \in AllSteps, Goto(r, step), Active(r), step \in Ends \/ <<run[r].at, step>> \in Edges
      PROVE  /\ Only(r) /\ Active(r)
             /\ run'[r].at \in Ends \/ <<run[r].at, run'[r].at>> \in Edges
             /\ run'[r].copy = run[r].copy /\ run'[r].fresh = run[r].fresh
             /\ run'[r].slot = run[r].slot /\ run'[r].mounted = run[r].mounted
             /\ run'[r].installed = run[r].installed /\ run'[r].credentials = run[r].credentials
  BY <1>1, Going DEF TypeInv, RunTyped
<1>2. Active(r)
  BY DEF Goes, AwaitInserted, ArmCdBoot, Reconcile, CreateVm, StartVm, SaveVmid, AwaitPoweroff, AwaitFlip, DetachIso,
         RestartVm, WatchEnds, RunFails, At, Active, Steps, MediaSteps, NestedSteps
<1>3. PICK step \in AllSteps : Goto(r, step) /\ (step \in Ends \/ <<run[r].at, step>> \in Edges)
  <2>1. CASE AwaitInserted(r) \/ AwaitPoweroff(r) \/ AwaitFlip(r)
    BY <2>1 DEF AwaitInserted, AwaitPoweroff, AwaitFlip, At, AllSteps, Steps, MediaSteps, NestedSteps, Ends, Edges
  <2>2. CASE ArmCdBoot(r) \/ Reconcile(r) \/ CreateVm(r) \/ StartVm(r)
    BY <2>2 DEF ArmCdBoot, Reconcile, CreateVm, StartVm, At, AllSteps, Steps, MediaSteps, NestedSteps, Edges
  <2>3. CASE SaveVmid(r) \/ DetachIso(r) \/ RestartVm(r)
    BY <2>3 DEF SaveVmid, DetachIso, RestartVm, At, AllSteps, Steps, MediaSteps, NestedSteps, Edges
  <2>4. CASE WatchEnds(r) \/ RunFails(r)
    BY <2>4 DEF WatchEnds, RunFails, AllSteps, Ends
  <2> QED
    BY <2>1, <2>2, <2>3, <2>4 DEF Goes
<1> QED
  BY <1>1, <1>2, <1>3

LEMMA RunStepCases ==
  ASSUME NEW r \in Runs, RunStep(r)
  PROVE  Start(r) \/ Mount(r) \/ ResetNode(r) \/ Poll(r) \/ Goes(r)
BY DEF RunStep, Goes

LEMMA RunStaysOther ==
  ASSUME Next, ~\E r \in Runs : RunStep(r), ~\E m \in Installs : PhoneHome(m)
  PROVE  UNCHANGED run
<1>1. TestStep => UNCHANGED run
  BY DEF TestStep, TestMount, TestInserted, TestArm, TestReset, TestEject, TestFails, TestSame
<1>2. ImageStep => UNCHANGED run
  BY DEF ImageStep, AskAnswer, Install, Webhook, SpuriousReset
<1> QED
  BY <1>1, <1>2, NextCases DEF OperatorArms

LEMMA RunTypedStep == ASSUME TypeInv, Next PROVE RunTyped'
<1>1. ASSUME NEW r \in Runs, RunStep(r) PROVE RunTyped'
  <2>1. ASSUME Only(r), run'[r].mounted \/ run'[r].at \in {"inserted", "arm", "reset"} => run'[r].slot # None
        PROVE  RunTyped'
    <3>1. \A q \in Runs : run'[q].mounted \/ run'[q].at \in {"inserted", "arm", "reset"} => run'[q].slot # None
      <4>1. ASSUME NEW q \in Runs \ {r} PROVE run'[q] = run[q]
        BY <2>1 DEF Only
      <4> QED
        BY <2>1, <4>1 DEF TypeInv, RunTyped
    <3> QED
      BY <2>1, <3>1 DEF Only, RunTyped
  <2>2. CASE Start(r)
    BY <2>1, <2>2, Starting DEF TypeInv, RunTyped
  <2>3. CASE Mount(r)
    <3>1. None \notin Slots
      BY InstallJobAssumption
    <3> QED
      BY <2>1, <2>3, <3>1, Mounting
  <2>4. CASE ResetNode(r)
    <3>1. run[r].slot # None
      BY <2>4 DEF ResetNode, At, TypeInv, RunTyped
    <3> QED
      BY <2>1, <2>4, <3>1, Resetting
  <2>5. CASE Poll(r)
    BY <2>1, <2>5, Polling DEF TypeInv, RunTyped
  <2>6. CASE Goes(r)
    BY <2>1, <2>6, GoesOn DEF Edges, Ends, TypeInv, RunTyped
  <2> QED
    BY <1>1, <2>2, <2>3, <2>4, <2>5, <2>6, RunStepCases
<1>2. ASSUME NEW m \in Installs, PhoneHome(m) PROVE RunTyped'
  BY <1>2, Phoning DEF TypeInv, RunTyped
<1>3. CASE UNCHANGED run
  BY <1>3 DEF TypeInv, RunTyped
<1> QED
  BY <1>1, <1>2, <1>3, RunStaysOther

LEMMA TypeInit == Init => TypeInv
<1> SUFFICES ASSUME Init PROVE TypeInv
  OBVIOUS
<1>1. NodeTyped
  <2>1. disk \in Installs \union {None} /\ machine \in [phase : {"disk", "off"}, of : Installs \union {None}]
    BY DEF Init, Installs
  <2>2. media \in [Slots -> Installs \union {None, Test}]
    BY DEF Init, Installs
  <2>3. vm \in [of : Installs \union {None}, iso : BOOLEAN]
    BY <2>1 DEF Init
  <2> QED
    BY <2>1, <2>2, <2>3 DEF Init, NodeTyped, Phases
<1>2. SotTyped
  BY InstallJobAssumption DEF Init, SotTyped, Device, Installs, MediaTest
<1>3. RunTyped
  BY DEF Init, RunTyped, NewRun, Run, Device
<1> QED
  BY <1>1, <1>2, <1>3 DEF TypeInv, Init

LEMMA MethodStays == Next => method' = method
<1>1. ASSUME NEW r \in Runs, RunStep(r) PROVE method' = method
  BY <1>1 DEF RunStep, Start, Mount, AwaitInserted, ArmCdBoot, ResetNode, Reconcile, CreateVm, StartVm, SaveVmid,
              AwaitPoweroff, AwaitFlip, DetachIso, RestartVm, Poll, WatchEnds, RunFails, ReportsSame, SotSame
<1>2. TestStep => method' = method
  BY DEF TestStep, TestMount, TestInserted, TestArm, TestReset, TestEject, TestFails, TestSame
<1>3. ImageStep => method' = method
  BY DEF ImageStep, AskAnswer, Install, Webhook, SpuriousReset, ReportsSame, SotSame
<1> QED
  BY <1>1, <1>2, <1>3, NextCases DEF PhoneHome, OperatorArms

LEMMA TypeStep == TypeInv /\ [Next]_vars => TypeInv'
<1> SUFFICES ASSUME TypeInv, [Next]_vars PROVE TypeInv'
  OBVIOUS
<1>1. CASE UNCHANGED vars
  BY <1>1 DEF vars, TypeInv, NodeTyped, SotTyped, RunTyped
<1>2. CASE Next
  <2>1. NodeTyped'
    <3>1. ASSUME NEW m \in Installs, PhoneHome(m) PROVE NodeTyped'
      BY <3>1, NodeUnmoved DEF PhoneHome, TypeInv
    <3>2. OperatorArms => NodeTyped'
      BY NodeUnmoved DEF OperatorArms, TypeInv
    <3> QED
      BY <1>2, <3>1, <3>2, NodeRunStep, NodeTestStep, NodeImageStep, NextCases
  <2>2. method' = method
    BY <1>2, MethodStays
  <2> QED
    BY <1>2, <2>1, <2>2, SotStep, RunTypedStep DEF TypeInv
<1> QED
  BY <1>1, <1>2

(* What the job and the node keep has the types that the model gives it.   *)
THEOREM JobTypeOKHolds == Spec => []JobTypeOK
<1> QED
  BY Typed, TypeInit, TypeStep, PTL DEF Spec

-----------------------------------------------------------------------------
(* Runs.  One is active at a time. *)
Ordered == \A r, q \in Runs : ~At(r, "idle") /\ q < r => run[q].at \in Ends

RunOK(r) ==
  /\ run[r].at \in MediaSteps \/ run[r].mounted => Redfish
  /\ run[r].at \in NestedSteps => ~Redfish
  /\ At(r, "idle") => ~run[r].fresh /\ ~run[r].installed /\ ~run[r].credentials /\ ~run[r].mounted
  /\ run[r].copy.state = "awaiting_install"
  /\ run[r].installed => run[r].at \in Ends \union {"watch"}

(* What a run has seen of its Device is still so. *)
Confirmed(r) ==
  run[r].at \in {"finalize", "restart"} \/ (Active(r) /\ run[r].installed) => device.state = "bm_installed"

RunInv ==
  /\ Ordered
  /\ Testing => Redfish
  /\ \A r \in Runs : RunOK(r) /\ Confirmed(r)

LEMMA Alone ==
  ASSUME Ordered, NEW r \in Runs, NEW q \in Runs, Active(r), ~At(q, "idle"), q # r
  PROVE  q < r /\ run[q].at \in Ends /\ ~Active(q)
<1>1. r \in Nat /\ q \in Nat
  BY InstallJobAssumption
<1>2. ~At(r, "idle") /\ run[r].at \notin Ends
  BY DEF Active, At, Steps, MediaSteps, NestedSteps, Ends
<1>3. ~(r < q)
  BY <1>2 DEF Ordered
<1>4. q < r
  BY <1>1, <1>3
<1>5. run[q].at \in Ends
  BY <1>2, <1>4 DEF Ordered
<1> QED
  BY <1>4, <1>5 DEF Active, Steps, MediaSteps, NestedSteps, Ends

LEMMA OrderedKept ==
  ASSUME Ordered, TypeInv, NEW r \in Runs, Only(r),
         Start(r) \/ (Active(r) /\ run'[r].at # "idle")
  PROVE  Ordered'
<1> SUFFICES ASSUME NEW p \in Runs, NEW q \in Runs, run'[p].at # "idle", q < p PROVE run'[q].at \in Ends
  BY DEF Ordered, At
<1>1. r \in Nat /\ p \in Nat /\ q \in Nat
  BY InstallJobAssumption
<1>2. run[r].at \notin Ends
  BY DEF Start, At, Active, Steps, MediaSteps, NestedSteps, Ends
<1>3. CASE p = r
  <2>1. q # r /\ run'[q] = run[q]
    BY <1>1, <1>3 DEF Only
  <2>2. run[q].at \in Ends
    <3>1. CASE Start(r)
      BY <1>3, <3>1 DEF Start
    <3>2. CASE Active(r)
      BY <1>3, <3>2 DEF Ordered, Active, At, Steps, MediaSteps, NestedSteps
    <3> QED
      BY <3>1, <3>2
  <2> QED
    BY <2>1, <2>2
<1>4. CASE p # r
  <2>1. run'[p] = run[p] /\ ~At(p, "idle")
    BY <1>4 DEF Only, At
  <2>2. run[q].at \in Ends
    BY <2>1 DEF Ordered
  <2>3. q # r
    BY <1>2, <2>2
  <2> QED
    BY <2>2, <2>3 DEF Only
<1> QED
  BY <1>3, <1>4

LEMMA RunOKOther ==
  ASSUME method' = method, NEW r \in Runs, Only(r), NEW q \in Runs \ {r}, RunOK(q)
  PROVE  RunOK(q)'
<1>1. run'[q] = run[q]
  BY DEF Only
<1> QED
  BY <1>1 DEF RunOK, At, Redfish

LEMMA RunOKStep ==
  ASSUME TypeInv, RunInv, NEW r \in Runs, RunStep(r)
  PROVE  RunOK(r)'
<1>1. RunOK(r) /\ method' = method
  BY MethodStays, NextCases DEF RunInv
<1>2. CASE Start(r)
  <2>1. device.state = "awaiting_install"
    BY <1>2 DEF Start
  <2>2. run'[r].at = IF Redfish THEN "mount" ELSE "reconcile"
    BY <1>2, Starting
  <2>3. /\ run'[r].copy = device /\ run'[r].mounted = run[r].mounted /\ run'[r].installed = run[r].installed
        /\ At(r, "idle")
    BY <1>2, Starting DEF Start
  <2>4. Redfish' <=> Redfish
    BY <1>1 DEF Redfish
  <2> QED
    BY <1>1, <2>1, <2>2, <2>3, <2>4 DEF RunOK, At, MediaSteps, NestedSteps
<1>3. CASE Mount(r)
  BY <1>1, <1>3, Mounting DEF RunOK, Mount, At, Redfish, MediaSteps, NestedSteps, Ends
<1>4. CASE ResetNode(r)
  BY <1>1, <1>4, Resetting DEF RunOK, ResetNode, At, Redfish, MediaSteps, NestedSteps, Ends
<1>5. CASE Poll(r)
  BY <1>1, <1>5, Polling DEF RunOK, Poll, At, Redfish, MediaSteps, NestedSteps, Ends
<1>6. CASE Goes(r)
  <2>1. /\ run'[r].at # "idle" /\ (run'[r].installed => run'[r].at \in Ends \union {"watch"})
        /\ run'[r].at \in MediaSteps => run[r].at \in MediaSteps
        /\ run'[r].at \in NestedSteps => run[r].at \in NestedSteps
    BY <1>1, <1>6, GoesOn DEF RunOK, Edges, Ends, MediaSteps, NestedSteps
  <2> QED
    BY <1>1, <1>6, <2>1, GoesOn DEF RunOK, At, Redfish
<1> QED
  BY <1>2, <1>3, <1>4, <1>5, <1>6, RunStepCases

LEMMA OnlyOneMoves ==
  ASSUME TypeInv, NEW r \in Runs, RunStep(r)
  PROVE  Only(r) /\ (Start(r) \/ (Active(r) /\ run'[r].at # "idle"))
<1>1. CASE Start(r)
  BY <1>1, Starting
<1>2. CASE Mount(r)
  BY <1>2, Mounting DEF Mount, At, Active, Steps, MediaSteps
<1>3. CASE ResetNode(r)
  BY <1>3, Resetting DEF ResetNode, At, Active, Steps, MediaSteps
<1>4. CASE Poll(r)
  BY <1>4, Polling DEF Poll, At, Active, Steps
<1>5. CASE Goes(r)
  BY <1>5, GoesOn DEF Edges, Ends
<1> QED
  BY <1>1, <1>2, <1>3, <1>4, <1>5, RunStepCases

LEMMA RunInit == Init => RunInv
<1> SUFFICES ASSUME Init PROVE RunInv
  OBVIOUS
<1>1. \A r \in Runs : run[r] = NewRun
  BY DEF Init
<1>2. Ordered
  BY <1>1 DEF Ordered, At, NewRun
<1>3. ~Testing
  BY DEF Init, Testing, TestSteps
<1>4. ASSUME NEW r \in Runs PROVE RunOK(r) /\ Confirmed(r)
  <2>1. /\ run[r].at = "idle" /\ run[r].copy.state = "awaiting_install"
        /\ ~run[r].fresh /\ ~run[r].installed /\ ~run[r].credentials /\ ~run[r].mounted
    BY <1>1 DEF NewRun
  <2>2. run[r].at \notin MediaSteps \union NestedSteps \union {"watch"}
    BY <2>1 DEF MediaSteps, NestedSteps
  <2> QED
    BY <2>1, <2>2 DEF RunOK, Confirmed
<1> QED
  BY <1>2, <1>3, <1>4 DEF RunInv

(* The Device: only the job's own save and the operator take the state     *)
(* back to awaiting_install.                                               *)
LEMMA DeviceMoves ==
  ASSUME TypeInv, Next
  PROVE  \/ device'.state = device.state
         \/ device'.state = "bm_installed"
         \/ \E r \in Runs : SaveVmid(r)
         \/ \A r \in Runs : ~Active(r)
<1>1. ASSUME NEW r \in Runs, RunStep(r), ~SaveVmid(r) PROVE device' = device
  BY <1>1 DEF RunStep, Start, Mount, AwaitInserted, ArmCdBoot, ResetNode, Reconcile, CreateVm, StartVm,
              AwaitPoweroff, AwaitFlip, DetachIso, RestartVm, Poll, WatchEnds, RunFails, ReportsSame, SotSame
<1>2. TestStep => device' = device
  BY DEF TestStep, TestMount, TestInserted, TestArm, TestReset, TestEject, TestFails, TestSame
<1>3. ImageStep => device' = device \/ device'.state = "bm_installed"
  BY DEF ImageStep, AskAnswer, Install, Webhook, SpuriousReset, ReportsSame, SotSame, TypeInv, SotTyped, Device
<1>4. ASSUME NEW m \in Installs, PhoneHome(m) PROVE device' = device \/ device'.state = "bm_installed"
  BY <1>4 DEF PhoneHome
<1> QED
  BY <1>1, <1>2, <1>3, <1>4, NextCases DEF OperatorArms

LEMMA ConfirmedStep ==
  ASSUME TypeInv, RunInv, Next, NEW r \in Runs
  PROVE  Confirmed(r)'
<1> SUFFICES ASSUME run'[r].at \in {"finalize", "restart"} \/ (Active(r)' /\ run'[r].installed)
             PROVE  device'.state = "bm_installed"
  BY DEF Confirmed
<1> DEFINE Sure == run[r].at \in {"finalize", "restart"} \/ (Active(r) /\ run[r].installed)
<1>1. Confirmed(r) /\ RunOK(r) /\ Ordered
  BY DEF RunInv
<1>2. Active(r) <=> run[r].at \in Steps
  BY DEF Active
<1>3. CASE RunStep(r)
  <2>1. CASE Start(r)
    <3>1. run'[r].at \in {"mount", "reconcile"} /\ run'[r].installed = run[r].installed /\ At(r, "idle")
      BY <2>1, Starting DEF Start
    <3> QED
      BY <1>1, <3>1 DEF RunOK
  <2>2. CASE Poll(r)
    <3>1. run'[r].at \notin {"finalize", "restart"} /\ run'[r].installed = SeesInstalled(r)
      BY <2>2, Polling
    <3>2. Active(r) /\ device' = device
      BY <2>2 DEF Poll, At, Active, Steps, ReportsSame, SotSame
    <3> QED
      BY <1>1, <3>1, <3>2 DEF SeesInstalled, Confirmed
  <2>3. CASE AwaitFlip(r)
    <3>1. device' = device /\ At(r, "flip") /\ Goes(r)
      BY <2>3 DEF AwaitFlip, ReportsSame, SotSame, Goes
    <3>2. run'[r].installed = run[r].installed /\ ~run[r].installed
      BY <1>1, <3>1, GoesOn DEF RunOK, At, Ends
    <3>3. device.state # "bm_installed" => run'[r].at = "failed"
      <4> SUFFICES ASSUME device.state # "bm_installed" PROVE run'[r].at = "failed"
        OBVIOUS
      <4>1. Goto(r, "failed") /\ "failed" \in AllSteps
        BY <2>3 DEF AwaitFlip, AllSteps, Ends
      <4> QED
        BY <4>1, Going DEF TypeInv, RunTyped
    <3> QED
      BY <3>1, <3>2, <3>3
  <2>4. CASE Mount(r) \/ ResetNode(r)
    <3>1. run'[r].at \notin {"finalize", "restart"} /\ run'[r].installed = run[r].installed /\ run[r].at \in {"mount", "reset"}
      BY <2>4, Mounting, Resetting DEF Mount, ResetNode, At
    <3> QED
      BY <1>1, <3>1 DEF RunOK, Ends
  <2>5. CASE Goes(r) /\ ~AwaitFlip(r)
    <3>1. run'[r].installed = run[r].installed /\ Active(r)
      BY <2>5, GoesOn
    <3>2. run'[r].at = "restart" => run[r].at = "finalize"
      BY <2>5, GoesOn DEF Edges, Ends
    <3>3. run'[r].at = "finalize" => FALSE
      <4>1. run'[r].at = "finalize" => run[r].at = "flip"
        BY <2>5, GoesOn DEF Edges, Ends
      <4>2. run[r].at = "flip" => run'[r].at = "failed"
        <5>1. run[r].at = "flip" => RunFails(r)
          BY <2>5 DEF Goes, AwaitInserted, ArmCdBoot, Reconcile, CreateVm, StartVm, SaveVmid, AwaitPoweroff,
                      DetachIso, RestartVm, WatchEnds, At
        <5> QED
          BY <5>1, Going DEF RunFails, AllSteps, Ends, TypeInv, RunTyped
      <4> QED
        BY <4>1, <4>2
    <3>4. Sure
      BY <3>1, <3>2, <3>3
    <3>5. device.state = "bm_installed"
      BY <1>1, <3>4 DEF Confirmed
    <3>6. ~SaveVmid(r)
      <4>1. SaveVmid(r) => run[r].at = "save" /\ run'[r].at = "poweroff"
        BY Going DEF SaveVmid, At, AllSteps, Steps, NestedSteps, TypeInv, RunTyped
      <4> QED
        BY <1>1, <3>1, <4>1 DEF RunOK, Ends
    <3>7. device' = device
      BY <2>5, <3>6 DEF Goes, AwaitInserted, ArmCdBoot, Reconcile, CreateVm, StartVm, AwaitPoweroff,
                        DetachIso, RestartVm, WatchEnds, RunFails, ReportsSame, SotSame
    <3> QED
      BY <3>5, <3>7
  <2> QED
    BY <1>3, <2>1, <2>2, <2>3, <2>4, <2>5, RunStepCases
<1>4. CASE ~RunStep(r)
  <2>1. run'[r].at = run[r].at /\ run'[r].installed = run[r].installed
    <3>1. ASSUME NEW q \in Runs, RunStep(q) PROVE run'[r] = run[r]
      BY <1>4, <3>1, OnlyOneMoves DEF Only
    <3>2. ASSUME NEW m \in Installs, PhoneHome(m) PROVE run'[r].at = run[r].at /\ run'[r].installed = run[r].installed
      BY <3>2, Phoning
    <3> QED
      BY <3>1, <3>2, RunStaysOther
  <2>2. Sure /\ Active(r) /\ device.state = "bm_installed"
    BY <1>1, <2>1 DEF Confirmed, Active, Steps, NestedSteps
  <2>3. ASSUME NEW q \in Runs, SaveVmid(q) PROVE FALSE
    <3>1. Active(q) /\ ~At(q, "idle") /\ q # r
      BY <1>4, <2>3 DEF SaveVmid, At, Active, Steps, NestedSteps, RunStep
    <3> QED
      BY <1>1, <2>2, <3>1, Alone
  <2> QED
    BY <2>2, <2>3, DeviceMoves
<1> QED
  BY <1>3, <1>4

LEMMA RunInvStep == TypeInv /\ RunInv /\ [Next]_vars => RunInv'
<1> SUFFICES ASSUME TypeInv, RunInv, [Next]_vars PROVE RunInv'
  OBVIOUS
<1>1. CASE UNCHANGED vars
  BY <1>1 DEF vars, RunInv, Ordered, RunOK, Confirmed, At, Active, Testing, Redfish
<1>2. CASE Next
  <2>1. method' = method /\ (Redfish' <=> Redfish)
    BY <1>2, MethodStays DEF Redfish
  <2>2. Testing' => Redfish'
    <3>1. CASE TestStep
      BY <2>1, <3>1 DEF TestStep, TestMount, TestInserted, TestArm, TestReset, TestEject, TestFails, TestGoto,
                  Testing, TestSteps, RunInv, Redfish
    <3>2. CASE ~TestStep
      <4>1. test' = test
        <5>1. ASSUME NEW r \in Runs, RunStep(r) PROVE test' = test
          BY <5>1 DEF RunStep, Start, Mount, AwaitInserted, ArmCdBoot, ResetNode, Reconcile, CreateVm, StartVm, SaveVmid,
                  AwaitPoweroff, AwaitFlip, DetachIso, RestartVm, Poll, WatchEnds, RunFails, ReportsSame, SotSame
        <5>2. ImageStep => test' = test
          BY DEF ImageStep, AskAnswer, Install, Webhook, SpuriousReset, ReportsSame, SotSame
        <5> QED
          BY <1>2, <3>2, <5>1, <5>2, NextCases DEF PhoneHome, OperatorArms
      <4> QED
        BY <2>1, <4>1 DEF RunInv, Testing
    <3> QED
      BY <3>1, <3>2
  <2>3. Ordered' /\ \A q \in Runs : RunOK(q)'
    <3>1. ASSUME NEW r \in Runs, RunStep(r) PROVE Ordered' /\ \A q \in Runs : RunOK(q)'
      <4>1. Only(r) /\ (Start(r) \/ (Active(r) /\ run'[r].at # "idle"))
        BY <3>1, OnlyOneMoves
      <4>2. Ordered'
        BY <4>1, OrderedKept DEF RunInv
      <4>3. ASSUME NEW q \in Runs PROVE RunOK(q)'
        BY <2>1, <3>1, <4>1, RunOKOther, RunOKStep DEF RunInv
      <4> QED
        BY <4>2, <4>3
    <3>2. ASSUME NEW m \in Installs, PhoneHome(m) PROVE Ordered' /\ \A q \in Runs : RunOK(q)'
      <4>1. Ordered'
        BY <3>2, Phoning DEF RunInv, Ordered, At
      <4>2. ASSUME NEW q \in Runs PROVE RunOK(q)'
        <5>1. RunOK(q) /\ (At(q, "idle") => ~Active(q))
          BY DEF RunInv, At, Active, Steps, MediaSteps, NestedSteps
        <5> QED
          BY <2>1, <3>2, <5>1, Phoning DEF RunOK, At
      <4> QED
        BY <4>1, <4>2
    <3>3. CASE UNCHANGED run
      BY <2>1, <3>3 DEF RunInv, Ordered, RunOK, At
    <3> QED
      BY <1>2, <3>1, <3>2, <3>3, RunStaysOther
  <2>4. ASSUME NEW q \in Runs PROVE Confirmed(q)'
    BY <1>2, ConfirmedStep
  <2> QED
    BY <2>2, <2>3, <2>4 DEF RunInv
<1> QED
  BY <1>1, <1>2

-----------------------------------------------------------------------------
(* The boot from Cd: while it is armed, nothing has been booted from it    *)
(* and nothing installed without it.                                       *)
ArmedInv ==
  /\ override # None => rearmed.boot /\ rearmed.disk
  /\ Redfish /\ machine.phase = "installer" => rearmed.disk

LEMMA ArmedSame == ArmedInv /\ UNCHANGED <<method, machine, override, rearmed>> => ArmedInv'
BY DEF ArmedInv, Redfish

LEMMA ArmedBoots == TypeInv /\ ArmedInv /\ BootMachine => ArmedInv'
<1> SUFFICES ASSUME TypeInv, ArmedInv, BootMachine PROVE ArmedInv'
  OBVIOUS
<1>1. override' = None /\ rearmed'.disk = rearmed.disk /\ (machine'.phase = "installer" => override # None)
  BY Booting
<1> QED
  BY <1>1 DEF ArmedInv

LEMMA ArmedStep == TypeInv /\ RunInv /\ ArmedInv /\ [Next]_vars => ArmedInv'
<1> SUFFICES ASSUME TypeInv, RunInv, ArmedInv, [Next]_vars PROVE ArmedInv'
  OBVIOUS
<1>1. CASE UNCHANGED vars
  BY <1>1, ArmedSame DEF vars
<1>2. CASE Next
  <2>1. method' = method /\ (Redfish' <=> Redfish)
    BY <1>2, MethodStays DEF Redfish
  <2>2. ASSUME NEW r \in Runs, RunStep(r) PROVE ArmedInv'
    <3>1. CASE ArmCdBoot(r)
      BY <3>1 DEF ArmCdBoot, Rearms, ArmedInv
    <3>2. CASE ResetNode(r)
      BY <3>2, ArmedBoots DEF ResetNode
    <3>3. CASE Reconcile(r)
      BY <2>1, <3>3 DEF Reconcile, PoweredOff, ReportsSame, ArmedInv
    <3>4. CASE StartVm(r) \/ RestartVm(r)
      <4>1. ~Redfish
        BY <3>4 DEF StartVm, RestartVm, At, RunInv, RunOK, NestedSteps
      <4> QED
        BY <2>1, <3>4, <4>1 DEF StartVm, RestartVm, ReportsSame, ArmedInv
    <3>5. CASE ~(ArmCdBoot(r) \/ ResetNode(r) \/ Reconcile(r) \/ StartVm(r) \/ RestartVm(r))
      <4>1. UNCHANGED <<machine, override, rearmed>>
        BY <2>2, <3>5 DEF RunStep, Start, Mount, AwaitInserted, CreateVm, SaveVmid, AwaitPoweroff, AwaitFlip, DetachIso,
                          Poll, WatchEnds, RunFails, NodeSame, ReportsSame
      <4> QED
        BY <2>1, <4>1, ArmedSame
    <3> QED
      BY <3>1, <3>2, <3>3, <3>4, <3>5
  <2>3. CASE TestStep
    <3>1. CASE TestArm
      BY <3>1 DEF TestArm, Rearms, ArmedInv
    <3>2. CASE TestReset
      BY <3>2, ArmedBoots DEF TestReset
    <3>3. CASE TestMount \/ TestInserted \/ TestEject \/ TestFails
      BY <2>1, <3>3, ArmedSame DEF TestMount, TestInserted, TestEject, TestFails
    <3> QED
      BY <2>3, <3>1, <3>2, <3>3 DEF TestStep
  <2>4. CASE ImageStep
    <3>1. CASE AskAnswer
      BY <2>1, <3>1 DEF AskAnswer, ReportsSame, ArmedInv, TypeInv, NodeTyped
    <3>2. CASE Install
      <4>1. machine'.phase # "installer"
        BY <3>2 DEF Install, PoweredOff, TypeInv, NodeTyped
      <4>2. override' = override /\ rearmed'.boot = rearmed.boot /\ rearmed'.disk = rearmed.boot
        BY <3>2 DEF Install, TypeInv, NodeTyped
      <4> QED
        BY <4>1, <4>2 DEF ArmedInv
    <3>3. CASE BootMachine
      BY <3>3, ArmedBoots
    <3>4. CASE Webhook /\ ~BootMachine
      BY <2>1, <3>4 DEF Webhook, PoweredOff, ArmedInv
    <3>5. CASE SpuriousReset /\ ~BootMachine
      BY <2>1, <3>5 DEF SpuriousReset, ArmedInv, Redfish
    <3> QED
      BY <2>4, <3>1, <3>2, <3>3, <3>4, <3>5 DEF ImageStep
  <2>5. ASSUME NEW m \in Installs, PhoneHome(m) PROVE ArmedInv'
    BY <2>1, <2>5, ArmedSame DEF PhoneHome, NodeSame
  <2>6. CASE OperatorArms
    BY <2>1, <2>6, ArmedSame DEF OperatorArms, NodeSame
  <2> QED
    BY <1>2, <2>2, <2>3, <2>4, <2>5, <2>6, NextCases
<1> QED
  BY <1>1, <1>2

LEMMA ArmedInit == Init => ArmedInv
BY DEF Init, ArmedInv

(* The boot from Cd is one-time (redfish_discovery.py, BootSourceOverride- *)
(* Enabled Once): no reset wipes what the same medium has installed unless *)
(* the boot has been armed once more since.                                *)
THEOREM WipesOnceHolds == Spec => WipesOnce
<1>1. ArmedInv => [method = "redfish-vmedia" /\ AskAnswer /\ machine'.phase = "writing" =>
                     disk # machine.of \/ rearmed.disk]_vars
  BY DEF ArmedInv, Redfish, AskAnswer
<1>2. Init => TypeInv /\ RunInv /\ ArmedInv
  BY TypeInit, RunInit, ArmedInit
<1>3. TypeInv /\ RunInv /\ ArmedInv /\ [Next]_vars => (TypeInv /\ RunInv /\ ArmedInv)'
  BY TypeStep, RunInvStep, ArmedStep
<1> QED
  BY <1>1, <1>2, <1>3, PTL DEF Spec, WipesOnce

-----------------------------------------------------------------------------
(* The node.  Before a run has made its machine boot, its install is not   *)
(* on the disk; before it starts, it is nowhere.                           *)
Unbooted == MediaSteps \union {"idle", "reconcile", "create", "start"}

NodeOf(r) ==
  /\ run[r].at \in {"idle", "mount"} => machine.of # r /\ \A s \in Slots : media[s] # r
  /\ At(r, "reconcile") => machine.of # r
  /\ run[r].at \in {"idle", "mount", "reconcile", "create"} => vm.of # r
  /\ run[r].at \in {"create", "start"} => machine.phase = "off"
  /\ run[r].at \in Unbooted => disk # r

NodeInv ==
  /\ machine.phase = "written" => disk = machine.of
  /\ \A r \in Runs : NodeOf(r)

(* Steps at which a run's machine does not boot yet are not reached again. *)
Later(r) ==
  /\ At(r, "idle")' => At(r, "idle")
  /\ run'[r].at \in {"idle", "mount"} => run[r].at \in {"idle", "mount"}
  /\ run'[r].at \in {"idle", "mount", "reconcile", "create"} => run[r].at \in {"idle", "mount", "reconcile", "create"}
  /\ At(r, "reconcile")' => run[r].at \in {"idle", "reconcile"}
  /\ run'[r].at \in {"create", "start"} => run[r].at \in {"create", "start"}
  /\ run'[r].at \in Unbooted => run[r].at \in Unbooted

LEMMA NodeFrame ==
  ASSUME NodeInv, UNCHANGED <<machine, disk, media, vm>>, \A r \in Runs : Later(r)
  PROVE  NodeInv'
<1>1. ASSUME NEW r \in Runs PROVE NodeOf(r)'
  <2>1. NodeOf(r) /\ Later(r)
    BY DEF NodeInv
  <2> QED
    BY <2>1 DEF NodeOf, Later, At
<1> QED
  BY <1>1 DEF NodeInv

LEMMA SameRun ==
  ASSUME NEW r \in Runs, run'[r].at = run[r].at
  PROVE  Later(r)
BY DEF Later, At

(* A node that boots: what runs on it then is on its disk or in a slot. *)
LEMMA NodeBoots ==
  ASSUME TypeInv, RunInv, NodeInv, Redfish, BootMachine, UNCHANGED <<disk, media, vm>>,
         \A r \in Runs : run'[r].at \in {run[r].at, "watch"}
  PROVE  NodeInv'
<1>1. machine'.phase # "written" /\ (machine'.of = disk \/ \E s \in Slots : machine'.of = media[s])
  BY Booting
<1>2. ASSUME NEW r \in Runs PROVE NodeOf(r)'
  <2>1. NodeOf(r) /\ RunOK(r)
    BY DEF NodeInv, RunInv
  <2>2. CASE run'[r].at = run[r].at
    <3>1. run[r].at \notin NestedSteps
      BY <2>1 DEF RunOK
    <3>2. run[r].at \in {"idle", "mount"} => machine'.of # r
      BY <1>1, <2>1 DEF NodeOf, At, Unbooted, MediaSteps
    <3> QED
      BY <2>1, <2>2, <3>1, <3>2 DEF NodeOf, At, NestedSteps
  <2>3. CASE run'[r].at = "watch"
    BY <2>3 DEF NodeOf, At, Unbooted, MediaSteps
  <2> QED
    BY <2>2, <2>3
<1> QED
  BY <1>1, <1>2 DEF NodeInv

(* A VM that boots, when no run is about to make or start one. *)
LEMMA NodeVmBoots ==
  ASSUME TypeInv, NodeInv, BootVm, UNCHANGED <<disk, media, vm>>,
         \A r \in Runs : (run'[r].at = run[r].at /\ run[r].at \notin {"create", "start"}) \/ run'[r].at \in {"save", "watch"}
  PROVE  NodeInv'
<1>1. machine'.phase # "written" /\ machine'.of \in {disk, vm.of}
  BY BootingVm
<1>2. ASSUME NEW r \in Runs PROVE NodeOf(r)'
  <2>1. NodeOf(r)
    BY DEF NodeInv
  <2>2. CASE run'[r].at = run[r].at /\ run[r].at \notin {"create", "start"}
    <3>1. run[r].at \in {"idle", "mount", "reconcile"} => machine'.of # r
      BY <1>1, <2>1 DEF NodeOf, Unbooted, MediaSteps
    <3> QED
      BY <2>1, <2>2, <3>1 DEF NodeOf, At
  <2>3. CASE run'[r].at \in {"save", "watch"}
    BY <2>3 DEF NodeOf, At, Unbooted, MediaSteps
  <2> QED
    BY <2>2, <2>3
<1> QED
  BY <1>1, <1>2 DEF NodeInv

(* What is there after the power is off. *)
LEMMA NodeOff ==
  ASSUME TypeInv, NodeInv, machine' = PoweredOff, disk' \in {disk, None}, media' = media, vm'.of \in {vm.of, None},
         \A r \in Runs : run'[r].at = run[r].at \/ (run[r].at = "reconcile" /\ run'[r].at = "create")
  PROVE  NodeInv'
<1>1. machine'.phase = "off" /\ machine'.of = None /\ \A r \in Runs : r # None
  BY InstallJobAssumption DEF PoweredOff
<1>2. ASSUME NEW r \in Runs PROVE NodeOf(r)'
  <2>1. NodeOf(r)
    BY DEF NodeInv
  <2>2. CASE run'[r].at = run[r].at
    BY <1>1, <2>1, <2>2 DEF NodeOf, At
  <2>3. CASE run[r].at = "reconcile" /\ run'[r].at = "create"
    BY <1>1, <2>1, <2>3 DEF NodeOf, At, Unbooted
  <2> QED
    BY <2>2, <2>3
<1> QED
  BY <1>1, <1>2 DEF NodeInv

LEMMA NodeInvRunStep ==
  ASSUME TypeInv, RunInv, NodeInv, NEW r \in Runs, RunStep(r)
  PROVE  NodeInv'
<1>1. Only(r) /\ (Start(r) \/ (Active(r) /\ run'[r].at # "idle"))
  BY OnlyOneMoves
<1>2. /\ \A q \in Runs \ {r} : run'[q] = run[q] /\ Later(q)
      /\ \A q \in Runs : q # None
  BY <1>1, SameRun, InstallJobAssumption DEF Only
<1>3. CASE Start(r)
  <2>1. run'[r].at \in {"mount", "reconcile"} /\ At(r, "idle") /\ NodeSame
    BY <1>3, Starting DEF Start
  <2>2. Later(r)
    BY <2>1 DEF Later, At, Unbooted
  <2> QED
    BY <1>2, <2>1, <2>2, NodeFrame DEF NodeSame
<1>4. CASE AwaitInserted(r) \/ ArmCdBoot(r) \/ SaveVmid(r) \/ AwaitPoweroff(r) \/ AwaitFlip(r) \/ WatchEnds(r) \/ RunFails(r)
  <2>1. UNCHANGED <<machine, disk, media, vm>>
    BY <1>4 DEF AwaitInserted, ArmCdBoot, SaveVmid, AwaitPoweroff, AwaitFlip, WatchEnds, RunFails, NodeSame
  <2>2. Later(r)
    <3>1. run'[r].at \in Ends \/ <<run[r].at, run'[r].at>> \in Edges
      BY <1>4, GoesOn DEF Goes
    <3>2. CASE run'[r].at \in Ends
      BY <3>2 DEF Later, At, Ends, Unbooted, MediaSteps
    <3>3. CASE run[r].at \in {"inserted", "arm", "save", "poweroff", "flip", "watch"} /\ <<run[r].at, run'[r].at>> \in Edges
      BY <3>3 DEF Later, At, Edges, Unbooted, MediaSteps
    <3>4. run'[r].at \in Ends \/ run[r].at \in {"inserted", "arm", "save", "poweroff", "flip", "watch"}
      <4>1. RunFails(r) => run'[r].at \in Ends
        BY Going DEF RunFails, AllSteps, Ends, TypeInv, RunTyped
      <4> QED
        BY <1>4, <4>1 DEF AwaitInserted, ArmCdBoot, SaveVmid, AwaitPoweroff, AwaitFlip, WatchEnds, At
    <3> QED
      BY <3>1, <3>2, <3>3, <3>4
  <2> QED
    BY <1>2, <2>1, <2>2, NodeFrame
<1>5. CASE Mount(r)
  <2>1. /\ run[r].at = "mount" /\ run'[r].at = "inserted" /\ \A f \in Slots : media'[f] \in {media[f], r, None}
        /\ UNCHANGED <<machine, disk, vm>>
    BY <1>5, Mounting DEF Mount, At
  <2>2. ASSUME NEW q \in Runs PROVE NodeOf(q)'
    <3>1. NodeOf(q)
      BY DEF NodeInv
    <3>2. CASE q = r
      BY <2>1, <3>1, <3>2 DEF NodeOf, At, Unbooted, MediaSteps
    <3>3. CASE q # r
      BY <1>2, <2>1, <3>1, <3>3 DEF NodeOf, At
    <3> QED
      BY <3>2, <3>3
  <2> QED
    BY <2>1, <2>2 DEF NodeInv
<1>6. CASE ResetNode(r)
  <2>1. Redfish
    BY <1>6 DEF ResetNode, At, RunInv, RunOK, MediaSteps
  <2>2. BootMachine /\ UNCHANGED <<disk, media, vm>> /\ run'[r].at = "watch"
    BY <1>6, Resetting DEF ResetNode
  <2> QED
    BY <1>2, <2>1, <2>2, NodeBoots
<1>7. CASE Reconcile(r)
  <2>1. /\ run[r].at = "reconcile" /\ run'[r].at = "create"
        /\ machine' = PoweredOff /\ disk' \in {disk, None} /\ media' = media /\ vm'.of = None
    BY <1>7, Going DEF Reconcile, At, AllSteps, Steps, NestedSteps, TypeInv, RunTyped
  <2> QED
    BY <1>2, <2>1, NodeOff
<1>8. CASE CreateVm(r)
  <2>1. /\ run[r].at = "create" /\ run'[r].at = "start" /\ machine' = machine /\ disk' = None /\ media' = media /\ vm'.of = r
    BY <1>8, Going DEF CreateVm, At, AllSteps, Steps, NestedSteps, TypeInv, RunTyped
  <2>2. machine.phase = "off"
    BY <2>1 DEF NodeInv, NodeOf
  <2>3. ASSUME NEW q \in Runs PROVE NodeOf(q)'
    <3>1. NodeOf(q)
      BY DEF NodeInv
    <3>2. CASE q = r
      BY <1>2, <2>1, <2>2, <3>2 DEF NodeOf, At
    <3>3. CASE q # r
      BY <1>2, <2>1, <3>1, <3>3 DEF NodeOf, At
    <3> QED
      BY <3>2, <3>3
  <2> QED
    BY <2>1, <2>2, <2>3 DEF NodeInv
<1>9. CASE StartVm(r) \/ RestartVm(r)
  <2>1. BootVm /\ UNCHANGED <<disk, media, vm>> /\ run'[r].at \in {"save", "watch"} /\ Active(r)
    BY <1>9, Going DEF StartVm, RestartVm, At, Active, AllSteps, Steps, NestedSteps, TypeInv, RunTyped
  <2>2. \A q \in Runs \ {r} : run[q].at \notin {"create", "start"}
    BY <2>1, Alone DEF RunInv, Active, Steps, NestedSteps, At
  <2> QED
    BY <1>2, <2>1, <2>2, NodeVmBoots
<1>10. CASE DetachIso(r)
  <2>1. /\ run[r].at = "finalize" /\ run'[r].at = "restart" /\ UNCHANGED <<machine, disk, media>> /\ vm'.of = vm.of
    BY <1>10, Going DEF DetachIso, At, AllSteps, Steps, NestedSteps, TypeInv, RunTyped, NodeTyped
  <2>2. ASSUME NEW q \in Runs PROVE NodeOf(q)'
    <3>1. NodeOf(q)
      BY DEF NodeInv
    <3>2. CASE q = r
      BY <2>1, <3>2 DEF NodeOf, At, Unbooted, MediaSteps
    <3>3. CASE q # r
      BY <1>2, <2>1, <3>1, <3>3 DEF NodeOf, At
    <3> QED
      BY <3>2, <3>3
  <2> QED
    BY <2>1, <2>2 DEF NodeInv
<1>11. CASE Poll(r)
  <2>1. /\ run[r].at = "watch" /\ run'[r].at \in {"watch", "done"} /\ UNCHANGED <<machine, disk, vm>>
    BY <1>11, Polling DEF Poll, At
  <2>2. \A f \in Slots : media'[f] \in {media[f], None}
    BY <1>11 DEF Poll, Eject, TypeInv, NodeTyped
  <2>3. ASSUME NEW q \in Runs PROVE NodeOf(q)'
    <3>1. NodeOf(q)
      BY DEF NodeInv
    <3>2. CASE q = r
      BY <2>1, <3>2 DEF NodeOf, At, Unbooted, MediaSteps
    <3>3. CASE q # r
      BY <1>2, <2>1, <2>2, <3>1, <3>3 DEF NodeOf, At
    <3> QED
      BY <3>2, <3>3
  <2> QED
    BY <2>1, <2>3 DEF NodeInv
<1> QED
  BY <1>3, <1>4, <1>5, <1>6, <1>7, <1>8, <1>9, <1>10, <1>11 DEF RunStep

LEMMA NodeInvTestStep ==
  ASSUME TypeInv, RunInv, NodeInv, TestStep
  PROVE  NodeInv'
<1>1. run' = run /\ vm' = vm /\ disk' = disk /\ \A r \in Runs : r # Test /\ r # None
  BY InstallJobAssumption DEF TestStep, TestMount, TestInserted, TestArm, TestReset, TestEject, TestFails, TestSame
<1>2. CASE TestReset
  <2>1. Redfish /\ BootMachine /\ media' = media
    BY <1>2 DEF TestReset, RunInv, Testing, TestSteps
  <2> QED
    BY <1>1, <2>1, NodeBoots
<1>3. CASE ~TestReset
  <2>1. machine' = machine /\ \A s \in Slots : media'[s] \in {media[s], Test, None}
    <3>1. CASE TestMount
      BY <3>1 DEF TestMount, TypeInv, NodeTyped
    <3>2. CASE TestEject
      BY <3>2 DEF TestEject, TypeInv, NodeTyped
    <3>3. CASE TestInserted \/ TestArm \/ TestFails
      BY <3>3 DEF TestInserted, TestArm, TestFails
    <3> QED
      BY <1>3, <3>1, <3>2, <3>3 DEF TestStep
  <2>2. ASSUME NEW q \in Runs PROVE NodeOf(q)'
    <3>1. NodeOf(q)
      BY DEF NodeInv
    <3> QED
      BY <1>1, <2>1, <3>1 DEF NodeOf, At
  <2> QED
    BY <1>1, <2>1, <2>2 DEF NodeInv
<1> QED
  BY <1>2, <1>3

LEMMA NodeInvImageStep ==
  ASSUME TypeInv, RunInv, NodeInv, ImageStep
  PROVE  NodeInv'
<1>1. run' = run /\ vm' = vm /\ media' = media /\ \A r \in Runs : r # None /\ NodeOf(r)
  BY InstallJobAssumption DEF ImageStep, AskAnswer, Install, Webhook, SpuriousReset, NodeInv
<1>2. CASE AskAnswer
  <2>1. /\ machine.phase = "installer" /\ machine'.phase \in {"writing", "stuck"} /\ machine'.of = machine.of
        /\ disk' \in {disk, None}
    BY <1>2 DEF AskAnswer, TypeInv, NodeTyped
  <2>2. ASSUME NEW q \in Runs PROVE NodeOf(q)'
    BY <1>1, <2>1 DEF NodeOf, At
  <2> QED
    BY <2>1, <2>2 DEF NodeInv
<1>3. CASE Install
  <2>1. machine.phase = "writing" /\ \A r \in Runs : run[r].at \notin MediaSteps
    BY <1>3 DEF Install, Delivering
  <2>2. /\ machine'.phase \in {"written", "stuck", "off"} /\ machine'.of \in {machine.of, None}
        /\ machine'.phase = "written" => disk' = machine.of /\ machine'.of = machine.of
        /\ disk' \in {disk, machine.of}
    BY <1>3 DEF Install, PoweredOff, TypeInv, NodeTyped
  <2>3. ASSUME NEW q \in Runs PROVE NodeOf(q)'
    <3>1. run[q].at \in Unbooted => run[q].at \in {"idle", "reconcile"}
      BY <1>1, <2>1 DEF NodeOf, Unbooted
    <3> QED
      BY <1>1, <2>1, <2>2, <3>1 DEF NodeOf, At, Unbooted
  <2> QED
    BY <2>2, <2>3 DEF NodeInv
<1>4. CASE Webhook
  <2>1. CASE Redfish
    BY <1>1, <1>4, <2>1, NodeBoots DEF Webhook, Redfish
  <2>2. CASE ~Redfish
    BY <1>1, <1>4, <2>2, NodeOff DEF Webhook, Redfish
  <2> QED
    BY <2>1, <2>2
<1>5. CASE SpuriousReset
  <2>1. machine.phase # "off" /\ disk' = disk
    BY <1>5 DEF SpuriousReset
  <2>2. CASE Redfish
    <3>1. BootMachine
      BY <1>5, <2>2 DEF SpuriousReset, Redfish
    <3> QED
      BY <1>1, <2>1, <2>2, <3>1, NodeBoots
  <2>3. CASE ~Redfish
    <3>1. BootVm
      BY <1>5, <2>3 DEF SpuriousReset, Redfish
    <3>2. \A r \in Runs : run[r].at \notin {"create", "start"}
      BY <1>1, <2>1 DEF NodeOf
    <3> QED
      BY <1>1, <2>1, <3>1, <3>2, NodeVmBoots
  <2> QED
    BY <2>2, <2>3
<1> QED
  BY <1>2, <1>3, <1>4, <1>5 DEF ImageStep

LEMMA NodeInvStep == TypeInv /\ RunInv /\ NodeInv /\ [Next]_vars => NodeInv'
<1> SUFFICES ASSUME TypeInv, RunInv, NodeInv, [Next]_vars PROVE NodeInv'
  OBVIOUS
<1>1. CASE UNCHANGED vars
  BY <1>1, NodeFrame, SameRun DEF vars
<1>2. ASSUME NEW m \in Installs, PhoneHome(m) PROVE NodeInv'
  <2>1. \A r \in Runs : Later(r)
    BY <1>2, Phoning, SameRun
  <2> QED
    BY <1>2, <2>1, NodeFrame DEF PhoneHome, NodeSame
<1>3. CASE OperatorArms
  BY <1>3, NodeFrame, SameRun DEF OperatorArms, NodeSame
<1> QED
  BY <1>1, <1>2, <1>3, NodeInvRunStep, NodeInvTestStep, NodeInvImageStep, NextCases

LEMMA NodeInvInit == Init => NodeInv
<1> SUFFICES ASSUME Init PROVE NodeInv
  OBVIOUS
<1>1. \A r \in Runs : r # Old /\ r # None
  BY InstallJobAssumption
<1>2. machine.phase # "written" /\ machine.of \in {None, Old} /\ disk \in {None, Old} /\ vm.of \in {None, Old}
  BY DEF Init
<1>3. \A s \in Slots : media[s] \in {None, Old}
  BY DEF Init
<1>4. \A r \in Runs : run[r].at = "idle"
  BY DEF Init, NewRun
<1> QED
  BY <1>1, <1>2, <1>3, <1>4 DEF NodeInv, NodeOf, At

-----------------------------------------------------------------------------
(* Under Quiet, what the Device says while a run is active is of its own   *)
(* install: a confirmed one is on the disk, and not being overwritten; a   *)
(* token that was stored since the run's start is its own.                 *)
Proven(r) ==
  Active(r) /\ device.state = "bm_installed" => disk = r /\ machine.phase # "writing"

Kept(r) ==
  Active(r) /\ (run[r].fresh \/ run[r].credentials \/ CredentialsStored(r)) => stored = r

QuietInv == \A r \in Runs : Proven(r) /\ Kept(r)

LEMMA ActiveFrame ==
  ASSUME NEW r \in Runs, run'[r].at = run[r].at
  PROVE  Active(r)' <=> Active(r)
BY DEF Active

LEMMA OldNoRun == \A r \in Runs : r # Old /\ r # None /\ r # Test
BY InstallJobAssumption

(* Whoever reports while a run is active is that run's install. *)
LEMMA ReportsOwn ==
  ASSUME Quiet, NEW m, NEW r \in Runs, Active(r), Quiet => ~Overtaken(m)
  PROVE  m = r
BY DEF Overtaken

LEMMA ProvenFrame ==
  ASSUME NEW r \in Runs, Proven(r), run'[r].at = run[r].at, device' = device, disk' = disk,
         machine'.phase \in {machine.phase, "off", "disk", "stuck", "installer", "written"}
  PROVE  Proven(r)'
BY DEF Proven, Active

LEMMA ProvenOwnStep ==
  ASSUME TypeInv, RunInv, NodeInv, NEW r \in Runs, Proven(r), RunStep(r)
  PROVE  Proven(r)'
<1> SUFFICES ASSUME device'.state = "bm_installed" PROVE disk' = r /\ machine'.phase # "writing"
  BY DEF Proven
<1>1. CASE Start(r)
  BY <1>1 DEF Start, ReportsSame, SotSame
<1>2. CASE SaveVmid(r)
  BY <1>2 DEF SaveVmid, RunInv, RunOK
<1>3. CASE ~Start(r) /\ ~SaveVmid(r)
  <2>1. device' = device
    BY <1>3 DEF RunStep, Mount, AwaitInserted, ArmCdBoot, ResetNode, Reconcile, CreateVm, StartVm,
              AwaitPoweroff, AwaitFlip, DetachIso, RestartVm, Poll, WatchEnds, RunFails, ReportsSame, SotSame
  <2>2. Active(r)
    BY <1>3, OnlyOneMoves
  <2>3. disk = r /\ machine.phase # "writing"
    BY <2>1, <2>2 DEF Proven
  <2>4. run[r].at \notin Unbooted
    BY <2>3 DEF NodeInv, NodeOf
  <2>5. ~Reconcile(r) /\ ~CreateVm(r) /\ ~StartVm(r) /\ ~ResetNode(r)
    BY <2>4 DEF Reconcile, CreateVm, StartVm, ResetNode, At, Unbooted, MediaSteps
  <2>6. CASE RestartVm(r)
    BY <2>3, <2>6, BootingVm DEF RestartVm
  <2>7. CASE ~RestartVm(r)
    <3>1. machine' = machine /\ disk' = disk
      BY <1>3, <2>5, <2>7 DEF RunStep, Mount, AwaitInserted, ArmCdBoot, AwaitPoweroff, AwaitFlip, DetachIso,
                              Poll, WatchEnds, RunFails, NodeSame
    <3> QED
      BY <2>3, <3>1
  <2> QED
    BY <2>6, <2>7
<1> QED
  BY <1>1, <1>2, <1>3

LEMMA KeptOwnStep ==
  ASSUME TypeInv, RunInv, NEW r \in Runs, Kept(r), RunStep(r)
  PROVE  Kept(r)'
<1> SUFFICES ASSUME (run[r].fresh \/ run[r].credentials \/ CredentialsStored(r))' PROVE stored' = r
  BY DEF Kept
<1>1. RunOK(r) /\ stored' = stored
  BY DEF RunStep, Start, Mount, AwaitInserted, ArmCdBoot, ResetNode, Reconcile, CreateVm, StartVm, SaveVmid,
         AwaitPoweroff, AwaitFlip, DetachIso, RestartVm, Poll, WatchEnds, RunFails, ReportsSame, SotSame, RunInv
<1>2. CASE Start(r)
  <2>1. ~run'[r].fresh /\ ~run'[r].credentials /\ run'[r].copy = device /\ device' = device
    BY <1>1, <1>2, Starting DEF RunOK, Start, At, ReportsSame, SotSame
  <2> QED
    BY <2>1 DEF CredentialsStored
<1>3. CASE SaveVmid(r)
  <2>1. /\ run'[r].fresh = run[r].fresh /\ run'[r].credentials = run[r].credentials
        /\ run'[r].copy = run[r].copy /\ device' = run[r].copy /\ Active(r)
    BY <1>3, GoesOn DEF Goes, SaveVmid
  <2>2. run[r].fresh \/ run[r].credentials
    BY <2>1 DEF CredentialsStored
  <2> QED
    BY <1>1, <2>1, <2>2 DEF Kept
<1>4. CASE ~Start(r) /\ ~SaveVmid(r)
  <2>1. device' = device
    BY <1>4 DEF RunStep, Mount, AwaitInserted, ArmCdBoot, ResetNode, Reconcile, CreateVm, StartVm,
              AwaitPoweroff, AwaitFlip, DetachIso, RestartVm, Poll, WatchEnds, RunFails, ReportsSame, SotSame
  <2>2. Active(r)
    BY <1>4, OnlyOneMoves
  <2>3. run'[r].fresh = run[r].fresh /\ run'[r].copy = run[r].copy
    BY <1>4, RunStepCases, Mounting, Resetting, Polling, GoesOn
  <2>4. run'[r].credentials => run[r].credentials \/ CredentialsStored(r)
    <3>1. CASE Poll(r)
      BY <3>1, Polling DEF SeesCredentials
    <3>2. CASE ~Poll(r)
      BY <1>4, <3>2, RunStepCases, Mounting, Resetting, GoesOn
    <3> QED
      BY <3>1, <3>2
  <2> QED
    BY <1>1, <2>1, <2>2, <2>3, <2>4 DEF Kept, CredentialsStored
<1> QED
  BY <1>2, <1>3, <1>4

LEMMA QuietStep ==
  ASSUME Quiet, TypeInv, RunInv, NodeInv, QuietInv, Next
  PROVE  QuietInv'
<1>1. \A r \in Runs : Proven(r) /\ Kept(r) /\ r # Old
  BY OldNoRun DEF QuietInv
<1>2. ASSUME NEW r \in Runs, RunStep(r) PROVE QuietInv'
  <2>1. Only(r) /\ (Start(r) \/ (Active(r) /\ run'[r].at # "idle"))
    BY <1>2, OnlyOneMoves
  <2>2. ASSUME NEW q \in Runs \ {r}, Active(q) PROVE Proven(q)' /\ Kept(q)'
    <3>1. Start(r)
      <4>1. ASSUME Active(r) PROVE FALSE
        BY <2>2, <4>1, Alone DEF RunInv, At, Active, Steps, MediaSteps, NestedSteps
      <4> QED
        BY <2>1, <4>1
    <3>2. run'[q] = run[q] /\ UNCHANGED <<device, disk, machine, stored>>
      BY <2>1, <3>1 DEF Only, Start, NodeSame, ReportsSame, SotSame
    <3> QED
      BY <1>1, <3>2 DEF Proven, Kept, Active, CredentialsStored
  <2>3. ASSUME NEW q \in Runs \ {r}, ~Active(q) PROVE Proven(q)' /\ Kept(q)'
    BY <2>1, <2>3 DEF Only, Proven, Kept, Active
  <2>4. Proven(r)' /\ Kept(r)'
    BY <1>1, <1>2, ProvenOwnStep, KeptOwnStep
  <2> QED
    BY <2>2, <2>3, <2>4 DEF QuietInv
<1>3. CASE TestStep
  <2>1. UNCHANGED <<device, stored, disk, run>>
    BY <1>3 DEF TestStep, TestMount, TestInserted, TestArm, TestReset, TestEject, TestFails, TestSame
  <2>2. machine'.phase \in {machine.phase, "disk", "stuck", "installer"}
    BY <1>3, Booting DEF TestStep, TestMount, TestInserted, TestArm, TestReset, TestEject, TestFails
  <2>3. ASSUME NEW q \in Runs PROVE Proven(q)' /\ Kept(q)'
    BY <1>1, <2>1, <2>2, ProvenFrame DEF Kept, Active, CredentialsStored
  <2> QED
    BY <2>3 DEF QuietInv
<1>4. CASE ImageStep
  <2>1. run' = run /\ stored' = stored
    BY <1>4 DEF ImageStep, AskAnswer, Install, Webhook, SpuriousReset, ReportsSame, SotSame
  <2>2. device'.group = device.group
    BY <1>4 DEF ImageStep, AskAnswer, Install, Webhook, SpuriousReset, ReportsSame, SotSame, TypeInv, SotTyped, Device
  <2>3. ASSUME NEW q \in Runs PROVE Kept(q)'
    BY <1>1, <2>1, <2>2 DEF Kept, Active, CredentialsStored
  <2>4. ASSUME NEW q \in Runs PROVE Proven(q)'
    <3>1. CASE AskAnswer
      <4>1. device' = device
        BY <3>1 DEF AskAnswer, ReportsSame, SotSame
      <4>2. device.state = "bm_installed" => disk' = disk /\ machine'.phase = "stuck"
        BY <3>1 DEF AskAnswer, TypeInv, NodeTyped
      <4> QED
        BY <1>1, <2>1, <4>1, <4>2 DEF Proven, Active
    <3>2. CASE Install
      BY <1>1, <2>1, <3>2 DEF Install, SotSame, Proven, Active
    <3>3. CASE Webhook
      <4>1. disk' = disk /\ machine'.phase # "writing" /\ machine.phase = "written"
        BY <3>3, Booting DEF Webhook, PoweredOff
      <4>2. Active(q) => machine.of = q
        BY <3>3, ReportsOwn DEF Webhook
      <4>3. machine.phase = "written" => disk = machine.of
        BY DEF NodeInv
      <4> QED
        BY <2>1, <4>1, <4>2, <4>3 DEF Proven, Active
    <3>4. CASE SpuriousReset
      <4>1. disk' = disk /\ device' = device /\ machine'.phase # "writing"
        BY <3>4, Booting, BootingVm DEF SpuriousReset, SotSame
      <4> QED
        BY <1>1, <2>1, <4>1 DEF Proven, Active
    <3> QED
      BY <1>4, <3>1, <3>2, <3>3, <3>4 DEF ImageStep
  <2> QED
    BY <2>3, <2>4 DEF QuietInv
<1>5. ASSUME NEW m \in Installs, PhoneHome(m) PROVE QuietInv'
  <2>1. ASSUME NEW q \in Runs PROVE Proven(q)' /\ Kept(q)'
    <3>1. CASE Active(q)
      <4>1. m = q
        BY <1>5, <3>1, ReportsOwn DEF PhoneHome
      <4>2. disk = q /\ machine.phase = "disk" /\ UNCHANGED <<disk, machine>>
        BY <1>1, <1>5, <4>1 DEF PhoneHome, NodeSame
      <4>3. stored' = m \/ UNCHANGED <<stored, device>>
        BY <1>5, Zenon DEF PhoneHome
      <4>4. /\ run'[q].credentials = run[q].credentials /\ run'[q].copy = run[q].copy
            /\ run'[q].fresh => run[q].fresh \/ stored' = m
        BY <1>5, Phoning
      <4> QED
        BY <1>1, <3>1, <4>1, <4>2, <4>3, <4>4 DEF Proven, Kept, CredentialsStored
    <3>2. CASE ~Active(q)
      BY <1>5, <3>2, Phoning, ActiveFrame DEF Proven, Kept
    <3> QED
      BY <3>1, <3>2
  <2> QED
    BY <2>1 DEF QuietInv
<1>6. CASE OperatorArms
  BY <1>6 DEF OperatorArms, QuietInv, Proven, Kept, Active
<1> QED
  BY <1>2, <1>3, <1>4, <1>5, <1>6, NextCases

LEMMA QuietSame == QuietInv /\ UNCHANGED vars => QuietInv'
BY DEF vars, QuietInv, Proven, Kept, Active, CredentialsStored

LEMMA QuietInit == Init => QuietInv
<1> SUFFICES ASSUME Init, NEW r \in Runs PROVE ~Active(r)
  BY DEF QuietInv, Proven, Kept
<1>1. run[r].at = "idle"
  BY DEF Init, NewRun
<1> QED
  BY <1>1 DEF Active, Steps, MediaSteps, NestedSteps

JobInv == TypeInv /\ RunInv /\ NodeInv /\ QuietInv

LEMMA JobInvHolds ==
  ASSUME Quiet
  PROVE  /\ Init => JobInv
         /\ JobInv /\ [Next]_vars => JobInv'
BY TypeInit, RunInit, NodeInvInit, QuietInit, TypeStep, RunInvStep, NodeInvStep, QuietStep, QuietSame DEF JobInv

(* "demand a fresh phone-home instead of trusting the stale value (F42)"   *)
(* (install_node.py): a run that reports the node installed and its token  *)
(* stored is right about both.                                             *)
THEOREM ReportIsTrueHolds ==
  ASSUME Quiet
  PROVE  Spec => ReportIsTrue
<1>1. ASSUME JobInv, Next, NEW r \in Runs, ~At(r, "done"), run'[r].at = "done" PROVE disk = r /\ stored = r
  <2>1. Poll(r)
    <3>1. RunStep(r)
      <4>1. ASSUME NEW q \in Runs, RunStep(q), q # r PROVE FALSE
        BY <1>1, <4>1, OnlyOneMoves DEF Only, At, JobInv
      <4>2. ASSUME NEW m \in Installs, PhoneHome(m) PROVE FALSE
        BY <1>1, <4>2, Phoning DEF At, JobInv
      <4>3. run' # run
        BY <1>1 DEF At
      <4> QED
        BY <1>1, <4>1, <4>2, <4>3, RunStaysOther
    <3>2. ~Start(r) /\ ~Mount(r) /\ ~ResetNode(r)
      BY <1>1, Starting, Mounting, Resetting DEF JobInv
    <3>3. ~Goes(r)
      <4>1. \A step \in AllSteps : Goto(r, step) => step = "done"
        BY <1>1, Going DEF JobInv, TypeInv, RunTyped
      <4> QED
        BY <4>1 DEF Goes, AwaitInserted, ArmCdBoot, Reconcile, CreateVm, StartVm, SaveVmid, AwaitPoweroff, AwaitFlip,
                    DetachIso, RestartVm, WatchEnds, RunFails, AllSteps, Steps, MediaSteps, NestedSteps, Ends
    <3> QED
      BY <3>1, <3>2, <3>3, RunStepCases
  <2>2. Active(r) /\ SeesInstalled(r) /\ SeesCredentials(r)
    BY <1>1, <2>1, Polling DEF Poll, At, Active, Steps, JobInv
  <2>3. Confirmed(r) /\ Proven(r) /\ Kept(r)
    BY <1>1 DEF JobInv, RunInv, QuietInv
  <2>4. device.state = "bm_installed"
    BY <2>2, <2>3 DEF SeesInstalled, Confirmed
  <2> QED
    BY <2>2, <2>3, <2>4 DEF Proven, Kept, SeesCredentials
<1>2. JobInv /\ [Next]_vars => [\A r \in Runs : ~At(r, "done") /\ run'[r].at = "done" => disk = r /\ stored = r]_vars
  BY <1>1
<1> QED
  BY <1>2, JobInvHolds, PTL DEF Spec, ReportIsTrue

(* "Power-off alone is not success" (install_node.py): a nested VM is made *)
(* to boot from its disk only when this run's install is on it.            *)
THEOREM DiskBootProvenHolds ==
  ASSUME Quiet
  PROVE  Spec => DiskBootProven
<1>1. ASSUME JobInv, NEW r \in Runs, DetachIso(r) PROVE disk = r
  <2>1. Active(r) /\ run[r].at = "finalize"
    BY <1>1 DEF DetachIso, At, Active, Steps, NestedSteps
  <2>2. Confirmed(r) /\ Proven(r)
    BY <1>1 DEF JobInv, RunInv, QuietInv
  <2> QED
    BY <2>1, <2>2 DEF Confirmed, Proven
<1>2. JobInv => [\A r \in Runs : DetachIso(r) => disk = r]_vars
  BY <1>1
<1> QED
  BY <1>2, JobInvHolds, PTL DEF Spec, DiskBootProven

-----------------------------------------------------------------------------
(* Under Lab, a media test and a run never use the BMC at the same time;   *)
(* so the node that a run watches is not armed to boot from Cd.            *)
LabInv ==
  /\ Testing => media[test.slot] \in {Test, None} /\ \A r \in Runs : ~Active(r)
  /\ \A r \in Runs : At(r, "watch") /\ Redfish => override = None

(* The install that a run has seen confirmed is not booted over. *)
Spent(r) == Active(r) /\ Redfish /\ device.state = "bm_installed" => machine.phase # "installer"

SpentInv == LabInv /\ \A r \in Runs : Spent(r)

LEMMA TestAlone ==
  ASSUME Lab, LabInv, NEW r \in Runs, RunStep(r), TypeInv
  PROVE  ~Testing
<1>1. Start(r) \/ Active(r)
  BY OnlyOneMoves
<1> QED
  BY <1>1 DEF Start, LabInv

LEMMA LabRunStep ==
  ASSUME Lab, TypeInv, RunInv, LabInv, NEW r \in Runs, RunStep(r)
  PROVE  LabInv'
<1>1. ~Testing' /\ method' = method
  <2>1. test' = test
    BY DEF RunStep, Start, Mount, AwaitInserted, ArmCdBoot, ResetNode, Reconcile, CreateVm, StartVm, SaveVmid,
           AwaitPoweroff, AwaitFlip, DetachIso, RestartVm, Poll, WatchEnds, RunFails, ReportsSame, SotSame
  <2> QED
    BY <2>1, TestAlone, MethodStays, NextCases DEF Testing
<1>2. ASSUME NEW q \in Runs, At(q, "watch")', Redfish PROVE override' = None
  <2>1. CASE q # r
    <3>1. At(q, "watch") /\ Only(r) /\ (Start(r) \/ Active(r))
      BY <1>2, <2>1, OnlyOneMoves DEF Only, At
    <3>2. ~Active(r)
      BY <2>1, <3>1, Alone DEF RunInv, At, Active, Steps
    <3>3. override' = override
      BY <3>1, <3>2 DEF Start, NodeSame
    <3> QED
      BY <1>2, <3>1, <3>3 DEF LabInv
  <2>2. CASE q = r
    <3>1. CASE ResetNode(r)
      BY <3>1, Booting DEF ResetNode
    <3>2. CASE Poll(r)
      BY <1>2, <2>2, <3>2 DEF Poll, LabInv
    <3>3. CASE Start(r) \/ Mount(r)
      BY <1>2, <2>2, <3>3, Starting, Mounting DEF At
    <3>4. CASE Goes(r)
      <4>1. run[r].at = "restart"
        BY <1>2, <2>2, <3>4, GoesOn DEF At, Edges, Ends
      <4> QED
        BY <1>2, <4>1 DEF RunInv, RunOK, NestedSteps
    <3> QED
      BY <3>1, <3>2, <3>3, <3>4, RunStepCases
  <2> QED
    BY <2>1, <2>2
<1> QED
  BY <1>1, <1>2 DEF LabInv, Redfish

LEMMA LabStep ==
  ASSUME Lab, TypeInv, RunInv, LabInv, Next
  PROVE  LabInv'
<1>1. method' = method /\ (Redfish' <=> Redfish)
  BY MethodStays DEF Redfish
<1>2. CASE TestStep
  <2>1. run' = run
    BY <1>2 DEF TestStep, TestMount, TestInserted, TestArm, TestReset, TestEject, TestFails, TestSame
  <2>2. \A r \in Runs : ~Active(r)
    BY <1>2 DEF TestStep, TestMount, TestInserted, TestArm, TestReset, TestEject, TestFails, Testing, TestSteps, LabInv
  <2>3. \A r \in Runs : ~At(r, "watch")'
    BY <2>1, <2>2 DEF At, Active, Steps
  <2>4. Testing' => media'[test'.slot] \in {Test, None}
    <3>1. CASE TestMount
      BY <3>1 DEF TestMount, TypeInv, NodeTyped
    <3>2. CASE TestInserted \/ TestArm
      <4>1. Testing /\ media' = media /\ test'.slot = test.slot
        BY <3>2 DEF TestInserted, TestArm, TestGoto, Testing, TestSteps, TypeInv, SotTyped, MediaTest
      <4> QED
        BY <4>1 DEF LabInv
    <3>3. CASE TestReset \/ TestEject \/ TestFails
      <4>1. test'.at = "over"
        BY <3>3 DEF TestReset, TestEject, TestFails, TestGoto, TypeInv, SotTyped, MediaTest
      <4> QED
        BY <4>1 DEF Testing, TestSteps
    <3> QED
      BY <1>2, <3>1, <3>2, <3>3 DEF TestStep
  <2> QED
    BY <2>1, <2>2, <2>3, <2>4 DEF LabInv, Active
<1>3. CASE ImageStep
  <2>1. UNCHANGED <<run, test, media>>
    BY <1>3 DEF ImageStep, AskAnswer, Install, Webhook, SpuriousReset, ReportsSame, SotSame
  <2>2. override' = override \/ override' = None
    BY <1>3, Booting DEF ImageStep, AskAnswer, Install, Webhook, SpuriousReset
  <2> QED
    BY <1>1, <2>1, <2>2 DEF LabInv, Active, At, Testing
<1>4. ASSUME NEW m \in Installs, PhoneHome(m) PROVE LabInv'
  <2>1. \A r \in Runs : run'[r].at = run[r].at
    BY <1>4, Phoning
  <2>2. UNCHANGED <<test, media, override>>
    BY <1>4 DEF PhoneHome, NodeSame
  <2> QED
    BY <1>1, <2>1, <2>2 DEF LabInv, Active, At, Testing
<1>5. CASE OperatorArms
  BY <1>1, <1>5 DEF OperatorArms, NodeSame, LabInv, Active, At, Testing
<1> QED
  BY <1>2, <1>3, <1>4, <1>5, LabRunStep, NextCases

LEMMA SpentStep ==
  ASSUME Quiet, Lab, JobInv, SpentInv, Next, NEW q \in Runs
  PROVE  Spent(q)'
<1> SUFFICES ASSUME Active(q)', Redfish, device'.state = "bm_installed" PROVE machine'.phase # "installer"
  BY MethodStays DEF Spent, Redfish
<1>1. TypeInv /\ RunInv /\ NodeInv /\ LabInv /\ RunOK(q) /\ NodeOf(q) /\ Proven(q) /\ Spent(q)
  BY DEF JobInv, SpentInv, RunInv, NodeInv, QuietInv
<1>2. ASSUME NEW r \in Runs, RunStep(r) PROVE machine'.phase # "installer"
  <2>1. Only(r) /\ (Start(r) \/ Active(r)) /\ RunOK(r) /\ NodeOf(r) /\ Proven(r) /\ Spent(r)
    BY <1>1, <1>2, OnlyOneMoves DEF RunInv, NodeInv, JobInv, QuietInv, SpentInv
  <2>2. CASE Start(r)
    <3>1. machine' = machine /\ device' = device /\ device.state = "awaiting_install"
      BY <2>2 DEF Start, NodeSame, ReportsSame, SotSame
    <3> QED
      BY <3>1
  <2>3. CASE SaveVmid(r)
    BY <2>1, <2>3 DEF SaveVmid, RunOK
  <2>4. CASE ~Start(r) /\ ~SaveVmid(r)
    <3>1. device' = device
      BY <1>2, <2>4 DEF RunStep, Mount, AwaitInserted, ArmCdBoot, ResetNode, Reconcile, CreateVm, StartVm,
              AwaitPoweroff, AwaitFlip, DetachIso, RestartVm, Poll, WatchEnds, RunFails, ReportsSame, SotSame
    <3>2. disk = r /\ machine.phase # "installer"
      BY <2>1, <2>4, <3>1 DEF Proven, Spent
    <3>3. run[r].at \notin Unbooted /\ run[r].at \notin NestedSteps
      BY <2>1, <3>2 DEF NodeOf, RunOK
    <3>4. machine' = machine
      BY <1>2, <2>4, <3>3 DEF RunStep, Mount, AwaitInserted, ArmCdBoot, ResetNode, Reconcile, CreateVm, StartVm,
              AwaitPoweroff, AwaitFlip, DetachIso, RestartVm, Poll, WatchEnds, RunFails, NodeSame, At, Unbooted,
              MediaSteps, NestedSteps
    <3> QED
      BY <3>2, <3>4
  <2> QED
    BY <2>1, <2>2, <2>3, <2>4
<1>3. CASE TestStep
  <2>1. run' = run /\ \A r \in Runs : ~Active(r)
    BY <1>1, <1>3 DEF TestStep, TestMount, TestInserted, TestArm, TestReset, TestEject, TestFails, TestSame,
                      Testing, TestSteps, LabInv
  <2> QED
    BY <2>1 DEF Active
<1>4. CASE ImageStep
  <2>1. Active(q)
    BY <1>4 DEF ImageStep, AskAnswer, Install, Webhook, SpuriousReset, Active
  <2>2. disk = q => override = None
    <3> SUFFICES ASSUME disk = q PROVE override = None
      OBVIOUS
    <3>1. run[q].at \notin MediaSteps /\ run[q].at \notin NestedSteps
      BY <1>1 DEF NodeOf, Unbooted, RunOK
    <3>2. At(q, "watch")
      BY <2>1, <3>1 DEF Active, Steps, At
    <3> QED
      BY <1>1, <3>2 DEF LabInv
  <2>3. CASE AskAnswer
    BY <1>1, <2>3 DEF AskAnswer, TypeInv, NodeTyped
  <2>4. CASE Install
    BY <1>1, <2>4 DEF Install, PoweredOff, TypeInv, NodeTyped
  <2>5. CASE Webhook
    <3>1. machine.of = q /\ machine.phase = "written"
      BY <2>1, <2>5, ReportsOwn DEF Webhook
    <3>2. override = None
      BY <1>1, <2>2, <3>1 DEF NodeInv
    <3>3. BootMachine
      BY <2>5 DEF Webhook, Redfish
    <3> QED
      BY <1>1, <3>2, <3>3, Booting
  <2>6. CASE SpuriousReset
    <3>1. BootMachine /\ device' = device
      BY <2>6 DEF SpuriousReset, Redfish, SotSame
    <3>2. override = None
      BY <1>1, <2>1, <2>2, <3>1 DEF Proven
    <3> QED
      BY <1>1, <3>1, <3>2, Booting
  <2> QED
    BY <1>4, <2>3, <2>4, <2>5, <2>6 DEF ImageStep
<1>5. ASSUME NEW m \in Installs, PhoneHome(m) PROVE machine'.phase # "installer"
  <2>1. Active(q)
    BY <1>1, <1>5, Phoning, ActiveFrame
  <2>2. m = q /\ q # Old
    BY <1>5, <2>1, ReportsOwn, OldNoRun DEF PhoneHome
  <2> QED
    BY <1>5, <2>2 DEF PhoneHome, NodeSame
<1>6. CASE OperatorArms
  BY <1>6 DEF OperatorArms, Active
<1> QED
  BY <1>2, <1>3, <1>4, <1>5, <1>6, NextCases

LEMMA SpentInvHolds ==
  ASSUME Quiet, Lab
  PROVE  /\ Init => SpentInv
         /\ JobInv /\ SpentInv /\ [Next]_vars => SpentInv'
<1>1. ASSUME Init PROVE SpentInv
  <2>1. ~Testing /\ \A r \in Runs : run[r].at = "idle"
    BY <1>1 DEF Init, NewRun, Testing, TestSteps
  <2>2. \A r \in Runs : ~Active(r) /\ ~At(r, "watch")
    BY <2>1 DEF Active, At, Steps, MediaSteps, NestedSteps
  <2> QED
    BY <2>1, <2>2 DEF SpentInv, LabInv, Spent
<1>2. ASSUME JobInv, SpentInv, Next PROVE SpentInv'
  <2>1. LabInv'
    BY <1>2, LabStep DEF JobInv, SpentInv
  <2> QED
    BY <1>2, <2>1, SpentStep DEF SpentInv
<1>3. SpentInv /\ UNCHANGED vars => SpentInv'
  BY DEF vars, SpentInv, LabInv, Spent, Active, At, Testing, Redfish
<1> QED
  BY <1>1, <1>2, <1>3

(* "once the webhook has confirmed the install, the mounted installer      *)
(* media is spent" (install_node.py, _eject_vmedia): a medium that an      *)
(* installer reads stays in its slot, but for a later run that mounts over *)
(* the first slot when none is free.  Quiet: earlier installs have made    *)
(* their calls; Lab: no media test beside a run or a booted installer.     *)
THEOREM InstallerKeepsMediumHolds ==
  ASSUME Quiet, Lab
  PROVE  Spec => InstallerKeepsMedium
<1> DEFINE Reads(s) == machine.phase \in {"installer", "writing"} /\ machine.of = media[s]
<1>1. ASSUME JobInv, SpentInv, NEW s \in Slots, TestStep, media[s] \notin {None, media'[s]} PROVE ~Reads(s)
  <2>1. CASE TestEject
    <3>1. Testing /\ media' = [media EXCEPT ![test.slot] = None]
      BY <2>1 DEF TestEject, Testing, TestSteps
    <3>2. s = test.slot /\ media[s] # None
      BY <1>1, <3>1 DEF JobInv, TypeInv, NodeTyped
    <3>3. media[s] = Test
      BY <1>1, <3>1, <3>2 DEF SpentInv, LabInv
    <3> QED
      BY <1>1, <3>3 DEF JobInv, TypeInv, NodeTyped
  <2>2. CASE TestMount
    BY <2>2 DEF TestMount
  <2>3. CASE TestInserted \/ TestArm \/ TestReset \/ TestFails
    BY <1>1, <2>3 DEF TestInserted, TestArm, TestReset, TestFails
  <2> QED
    BY <1>1, <2>1, <2>2, <2>3 DEF TestStep
<1>2. ASSUME JobInv, SpentInv, NEW s \in Slots, NEW r \in Runs, Poll(r), media[s] \notin {None, media'[s]} PROVE ~Reads(s)
  <2>1. run[r].mounted /\ SeesInstalled(r) /\ Active(r)
    BY <1>2 DEF Poll, Eject, At, Active, Steps
  <2>2. RunOK(r) /\ Confirmed(r) /\ Proven(r) /\ Spent(r)
    BY <1>2 DEF JobInv, RunInv, QuietInv, SpentInv
  <2>3. Redfish /\ device.state = "bm_installed"
    BY <2>1, <2>2 DEF RunOK, Confirmed, SeesInstalled
  <2> QED
    BY <2>1, <2>2, <2>3 DEF Proven, Spent
<1>3. ASSUME JobInv, NEW s \in Slots, NEW r \in Runs, Mount(r), media[s] \notin {None, media'[s]}, Reads(s) PROVE MountsOver(r)
  <2>1. PICK t \in Slots : Chosen(t) /\ \E m \in {r, None} : media' = [media EXCEPT ![t] = m]
    BY <1>3 DEF Mount
  <2>2. s = t
    BY <1>3, <2>1 DEF JobInv, TypeInv, NodeTyped
  <2>3. \A f \in Slots : media[f] # None
    BY <1>3, <2>1, <2>2 DEF Chosen
  <2>4. machine.of # r
    BY <1>3 DEF JobInv, NodeInv, NodeOf, Mount, At
  <2> QED
    BY <1>3, <2>3, <2>4 DEF MountsOver
<1>4. ASSUME JobInv, SpentInv, Next, NEW s \in Slots, media[s] \notin {None, media'[s]}, Reads(s)
      PROVE  \E r \in Runs : MountsOver(r)
  <2>1. CASE \E r \in Runs : RunStep(r)
    <3>1. PICK r \in Runs : RunStep(r)
      BY <2>1
    <3>2. Mount(r) \/ Poll(r)
      BY <1>4, <3>1 DEF RunStep, Start, AwaitInserted, ArmCdBoot, ResetNode, Reconcile, CreateVm, StartVm, SaveVmid,
             AwaitPoweroff, AwaitFlip, DetachIso, RestartVm, WatchEnds, RunFails, NodeSame
    <3> QED
      BY <1>2, <1>3, <1>4, <3>2
  <2>2. CASE TestStep
    BY <1>1, <1>4, <2>2
  <2>3. CASE ImageStep
    BY <1>4, <2>3 DEF ImageStep, AskAnswer, Install, Webhook, SpuriousReset
  <2>4. CASE (\E m \in Installs : PhoneHome(m)) \/ OperatorArms
    BY <1>4, <2>4 DEF PhoneHome, OperatorArms, NodeSame
  <2> QED
    BY <1>4, <2>1, <2>2, <2>3, <2>4, NextCases
<1> DEFINE Keeps == \A s \in Slots : media[s] \notin {None, media'[s]} =>
                      \/ ~(machine.phase \in {"installer", "writing"} /\ machine.of = media[s])
                      \/ \E r \in Runs : MountsOver(r)
<1>5. ASSUME JobInv, SpentInv, Next PROVE Keeps
  BY <1>4, <1>5
<1>6. JobInv /\ SpentInv /\ [Next]_vars => [Keeps]_vars
  <2> HIDE DEF Keeps
  <2> QED
    BY <1>5
<1> QED
  BY <1>6, JobInvHolds, SpentInvHolds, PTL DEF Spec, InstallerKeepsMedium
=============================================================================

------------------------------- MODULE InstallJob -------------------------------
(***************************************************************************)
(* The Install Proxmox Node job (jobs/baremetal/install_node.py,           *)
(* jobs/lib/install_delivery.py): boot the prepared installer on one node, *)
(* from virtual media of its BMC or in a nested VM of a carrier, and       *)
(* follow its Device until the install is confirmed and the node's token   *)
(* is stored.  The job sees the node through Nautobot alone: what it       *)
(* believes must be true of a machine that reboots, fails and reports by   *)
(* itself.                                                                 *)
(*                                                                         *)
(* Data kept: an install is named by the run that booted it; Old is the    *)
(* one before all runs.  The answer service is its effects on the Device   *)
(* (AnswerService and InstallLoop have its threads); the RAID layout is    *)
(* StorageApply's.  The checks of a run's start that refuse are no step.   *)
(* The same BMC is written to by the opt-in media test of the discovery    *)
(* job (jobs/baremetal/discover_platform.py), which may leave its medium.  *)
(***************************************************************************)
EXTENDS Naturals

CONSTANTS
  Runs,       \* bound: runs of the job, numbered in the order they start
  Slots,      \* EXT members of the BMC's virtual media, numbered
  Old,        \* the install before all runs
  None,
  Test,       \* the test ISO; it boots, and installs nothing
  Lab,        \* no run is active and no installer booted, or armed to, when a media test runs
  Quiet,      \* an earlier install has no call left to make while a later run is active
  MaxArms,    \* bound: times the operator sets awaiting_install
  MaxFaults   \* bound: failing calls, dead workers, lost reports, failing installs, resets

ASSUME InstallJobAssumption ==
  /\ Runs \subseteq Nat
  /\ Slots \subseteq Nat /\ Slots # {}
  /\ Old \notin Runs
  /\ None \notin Runs \union Slots \union {Old}
  /\ Test \notin Runs \union {Old, None}
  /\ Lab \in BOOLEAN
  /\ Quiet \in BOOLEAN
  /\ MaxArms \in Nat
  /\ MaxFaults \in Nat

VARIABLES
  method,     \* the DeviceType's delivery; never changes
  device,     \* provisioning_state, and whether secrets_group names the node's group
  stored,     \* the install whose token the group's Secrets lead to
  machine,    \* what runs on the node or in the VM, and the install it belongs to
  disk,       \* the install on the disk; None: blank, or partly written
  media,      \* [Slots -> the run whose ISO is inserted, Old, Test or None]
  override,   \* the one-time boot from Cd: the run that armed it, Test or None
  vm,         \* the nested VM: whose it is, and whether its ISO comes first
  rearmed,    \* history: the boot from Cd has been armed since the machine's last reset (boot), and
              \* since the reset that booted the installer of what is on the disk (disk)
  phoned,     \* installs whose phone-home has been made
  run,        \* [Runs -> the job's run]
  test,       \* the media test of the discovery job
  arms,
  faults

vars == <<method, device, stored, machine, disk, media, override, vm, rearmed, phoned, run, test, arms, faults>>

Installs == Runs \union {Old}

Device == [state : {"awaiting_install", "bm_installed"}, group : BOOLEAN]

Phases == {"off", "disk", "installer", "writing", "written", "stuck"}

MediaSteps == {"mount", "inserted", "arm", "reset"}
NestedSteps == {"reconcile", "create", "start", "save", "poweroff", "flip", "finalize", "restart"}
Steps == MediaSteps \union NestedSteps \union {"watch"}
Ends == {"done", "incomplete", "failed"}

(* copy: the Device as the run loaded it; fresh: the Secrets have been     *)
(* written since the run started; mounted: _vmedia_mount                   *)
Run == [at : Steps \union Ends \union {"idle"}, copy : Device, fresh : BOOLEAN,
        slot : Slots \union {None}, mounted : BOOLEAN, installed : BOOLEAN, credentials : BOOLEAN]

NewRun == [at |-> "idle", copy |-> [state |-> "awaiting_install", group |-> FALSE], fresh |-> FALSE,
           slot |-> None, mounted |-> FALSE, installed |-> FALSE, credentials |-> FALSE]

TestSteps == {"inserted", "arm", "reset", "eject"}
MediaTest == [at : TestSteps \union {"idle", "over"}, slot : Slots \union {None}]

(* A new node, or one that runs an earlier install, whose phone-home may   *)
(* be still to come; media of earlier installs may be in a slot.           *)
Init ==
  /\ method \in {"redfish-vmedia", "pve-nested"}
  /\ disk \in {None, Old}
  /\ phoned \in {{}, {Old}} /\ (disk = None => phoned = {Old})
  /\ stored = IF disk = Old /\ phoned = {Old} THEN Old ELSE None
  /\ \E group \in BOOLEAN :
       /\ stored = Old => group
       /\ device = [state |-> "awaiting_install", group |-> group]
  /\ machine = [phase |-> IF disk = Old THEN "disk" ELSE "off", of |-> disk]
  /\ media \in [Slots -> IF method = "redfish-vmedia" THEN {None, Old} ELSE {None}]
  /\ override = None
  /\ rearmed = [boot |-> FALSE, disk |-> FALSE]
  /\ vm = [of |-> IF method = "pve-nested" THEN disk ELSE None, iso |-> FALSE]
  /\ run = [r \in Runs |-> NewRun]
  /\ test = [at |-> "idle", slot |-> None]
  /\ arms = 0
  /\ faults = 0

-----------------------------------------------------------------------------
At(r, step) == run[r].at = step
Goto(r, step) == run' = [run EXCEPT ![r].at = step]
Active(r) == run[r].at \in Steps
Fault == faults < MaxFaults /\ faults' = faults + 1

NodeSame == UNCHANGED <<machine, disk, media, override, vm>>
SotSame == UNCHANGED <<method, device, stored, phoned, test, arms>>
ReportsSame == SotSame /\ UNCHANGED rearmed

Inserted(r) == \E s \in Slots : media[s] = r
Testing == test.at \in TestSteps

(* The node resets: from the armed medium, once; else from its disk.  The  *)
(* firmware takes the medium of the run that armed it if it is there.      *)
CdBoot ==
  IF override # None /\ Inserted(override) THEN {override}
  ELSE IF override # None THEN {media[s] : s \in Slots} \ {None}
  ELSE {}

PoweredOff == [phase |-> "off", of |-> None]

BootsFromDisk == [phase |-> IF disk = None THEN "stuck" ELSE "disk", of |-> disk]
BootsFrom(m) == [phase |-> IF m = Test THEN "stuck" ELSE "installer", of |-> m]

(* mutant: the override is Continuous, not Once *)
BootMachineContinuous ==
  /\ UNCHANGED override
  /\ rearmed' = [rearmed EXCEPT !.boot = FALSE]
  /\ IF CdBoot = {} THEN machine' = BootsFromDisk
     ELSE \E m \in CdBoot : machine' = BootsFrom(m)

BootMachine ==
  /\ override' = None
  /\ rearmed' = [rearmed EXCEPT !.boot = FALSE]
  /\ IF CdBoot = {} THEN machine' = BootsFromDisk
     ELSE \E m \in CdBoot : machine' = BootsFrom(m)

BootVm == machine' = IF vm.iso THEN [phase |-> "installer", of |-> vm.of] ELSE BootsFromDisk

-----------------------------------------------------------------------------
(* A run starts when the Device awaits an install; one at a time. *)
Start(r) ==
  /\ At(r, "idle")
  /\ \A q \in Runs : q < r => run[q].at \in Ends
  /\ device.state = "awaiting_install"
  /\ Lab => ~Testing
  /\ run' = [run EXCEPT ![r].copy = device,
                        ![r].at = IF method = "redfish-vmedia" THEN "mount" ELSE "reconcile"]
  /\ NodeSame
  /\ ReportsSame
  /\ UNCHANGED faults

(* mount_iso: the first EXT member without a medium, or else the first.    *)
(* Whether the BMC can fetch the ISO shows later.                          *)
Chosen(s) ==
  IF \E f \in Slots : media[f] = None
    THEN media[s] = None /\ \A f \in Slots : media[f] = None => s <= f
    ELSE \A f \in Slots : s <= f

(* mutant: the job does not remember where it has mounted *)
MountUnnoted(r) ==
  /\ At(r, "mount")
  /\ \E s \in Slots :
       /\ Chosen(s)
       /\ media' = [media EXCEPT ![s] = r]
       /\ run' = [run EXCEPT ![r].at = "arm"]
  /\ UNCHANGED <<machine, disk, override, vm, faults>>
  /\ ReportsSame

Mount(r) ==
  /\ At(r, "mount")
  /\ \E s \in Slots :
       /\ Chosen(s)
       /\ \/ media' = [media EXCEPT ![s] = r] /\ UNCHANGED faults
          \/ media' = [media EXCEPT ![s] = None] /\ Fault
       /\ run' = [run EXCEPT ![r].at = "inserted", ![r].slot = s]
  /\ UNCHANGED <<machine, disk, override, vm>>
  /\ ReportsSame

(* wait_media_state, then set_boot_once_cd *)
AwaitInserted(r) ==
  /\ At(r, "inserted")
  /\ Goto(r, IF media[run[r].slot] # None THEN "arm" ELSE "failed")
  /\ NodeSame
  /\ ReportsSame
  /\ UNCHANGED faults

Rearms == rearmed' = [boot |-> TRUE, disk |-> TRUE]

ArmCdBoot(r) ==
  /\ At(r, "arm")
  /\ override' = r
  /\ Rearms
  /\ Goto(r, "reset")
  /\ UNCHANGED <<machine, disk, media, vm, faults>>
  /\ SotSame

(* power_action; the job then knows what it has mounted *)
ResetNode(r) ==
  /\ At(r, "reset")
  /\ BootMachine
  /\ run' = [run EXCEPT ![r].at = "watch", ![r].mounted = TRUE]
  /\ UNCHANGED <<disk, media, vm, faults>>
  /\ SotSame

-----------------------------------------------------------------------------
(* Nested: stale_install_vms, and their destruction. *)
Reconcile(r) ==
  /\ At(r, "reconcile")
  /\ vm' = [of |-> None, iso |-> FALSE]
  /\ machine' = PoweredOff
  /\ disk' = IF vm.of = None THEN disk ELSE None
  /\ Goto(r, "create")
  /\ UNCHANGED <<media, override, faults>>
  /\ ReportsSame

CreateVm(r) ==
  /\ At(r, "create")
  /\ vm' = [of |-> r, iso |-> TRUE]
  /\ disk' = None
  /\ Goto(r, "start")
  /\ UNCHANGED <<machine, media, override, faults>>
  /\ ReportsSame

StartVm(r) ==
  /\ At(r, "start")
  /\ BootVm
  /\ Goto(r, "save")
  /\ UNCHANGED <<disk, media, override, vm, faults>>
  /\ ReportsSame

(* validated_save of the Device that was loaded at the start *)
SaveVmid(r) ==
  /\ At(r, "save")
  /\ device' = run[r].copy
  /\ Goto(r, "poweroff")
  /\ NodeSame
  /\ UNCHANGED <<method, stored, phoned, test, rearmed, arms, faults>>

(* wait_install_poweroff, or its timeout *)
AwaitPoweroff(r) ==
  /\ At(r, "poweroff")
  /\ Goto(r, "failed") \/ (machine.phase = "off" /\ Goto(r, "flip"))
  /\ NodeSame
  /\ ReportsSame
  /\ UNCHANGED faults

(* mutant: power-off alone is taken for success *)
AwaitFlipSkipped(r) ==
  /\ At(r, "flip")
  /\ Goto(r, "finalize")
  /\ NodeSame
  /\ ReportsSame
  /\ UNCHANGED faults

(* the webhook precedes the power-off: no flip, no success *)
AwaitFlip(r) ==
  /\ At(r, "flip")
  /\ Goto(r, IF device.state = "bm_installed" THEN "finalize" ELSE "failed")
  /\ NodeSame
  /\ ReportsSame
  /\ UNCHANGED faults

(* finalize_boot_from_disk: set_vm_config, then start_vm *)
DetachIso(r) ==
  /\ At(r, "finalize")
  /\ vm' = [vm EXCEPT !.iso = FALSE]
  /\ Goto(r, "restart")
  /\ UNCHANGED <<machine, disk, media, override, faults>>
  /\ ReportsSame

RestartVm(r) ==
  /\ At(r, "restart")
  /\ BootVm
  /\ Goto(r, "watch")
  /\ UNCHANGED <<disk, media, override, vm, faults>>
  /\ ReportsSame

-----------------------------------------------------------------------------
(* _watch_state_machine *)
(* mutant: a group that is named is a group that has been stored *)
CredentialsStoredAtSight(r) == device.group

CredentialsStored(r) == device.group /\ (~run[r].copy.group \/ run[r].fresh)

SeesInstalled(r) == run[r].installed \/ device.state = "bm_installed"
SeesCredentials(r) == run[r].credentials \/ CredentialsStored(r)

(* mutant: the medium is taken out at the first poll *)
EjectAtOnce(r) ==
  \/ /\ media' = IF run[r].mounted THEN [media EXCEPT ![run[r].slot] = None] ELSE media
     /\ UNCHANGED faults
  \/ run[r].mounted /\ UNCHANGED media /\ Fault

(* _eject_vmedia, once, when the webhook is first seen; best effort *)
Eject(r) ==
  LET now == run[r].mounted /\ SeesInstalled(r) IN
    \/ /\ media' = IF now THEN [media EXCEPT ![run[r].slot] = None] ELSE media
       /\ UNCHANGED faults
    \/ now /\ UNCHANGED media /\ Fault

Poll(r) ==
  /\ At(r, "watch")
  /\ Eject(r)
  /\ run' = [run EXCEPT ![r].installed = SeesInstalled(r),
                        ![r].credentials = SeesCredentials(r),
                        ![r].mounted = @ /\ ~SeesInstalled(r),
                        ![r].at = IF SeesInstalled(r) /\ SeesCredentials(r) THEN "done" ELSE "watch"]
  /\ UNCHANGED <<machine, disk, override, vm>>
  /\ ReportsSame

(* the watch window is over; media that may be in use stay *)
WatchEnds(r) ==
  /\ At(r, "watch")
  /\ Goto(r, "incomplete")
  /\ NodeSame
  /\ ReportsSame
  /\ UNCHANGED faults

(* a call fails, or the worker dies *)
RunFails(r) ==
  /\ Active(r)
  /\ Fault
  /\ Goto(r, "failed")
  /\ NodeSame
  /\ ReportsSame

-----------------------------------------------------------------------------
(* The media test of the discovery job: _run_write_checks.  A rehearsal    *)
(* boots the test ISO and leaves it in its slot.                           *)
TestGoto(step) == test' = [test EXCEPT !.at = step]
TestSame == UNCHANGED <<method, device, stored, phoned, disk, vm, run, arms>>

TestMount ==
  /\ test.at = "idle"
  /\ method = "redfish-vmedia"
  /\ Lab => /\ override = None
            /\ machine.phase \notin {"installer", "writing"}
            /\ \A r \in Runs : ~Active(r)
  /\ \E s \in Slots :
       /\ Chosen(s)
       /\ \/ media' = [media EXCEPT ![s] = Test] /\ UNCHANGED faults
          \/ media' = [media EXCEPT ![s] = None] /\ Fault
       /\ test' = [at |-> "inserted", slot |-> s]
  /\ UNCHANGED <<machine, override, rearmed>>
  /\ TestSame

TestInserted ==
  /\ test.at = "inserted"
  /\ \E rehearsal \in BOOLEAN :
       TestGoto(IF media[test.slot] # None /\ rehearsal THEN "arm" ELSE "eject")
  /\ UNCHANGED <<machine, media, override, rearmed, faults>>
  /\ TestSame

TestArm ==
  /\ test.at = "arm"
  /\ override' = Test
  /\ Rearms
  /\ TestGoto("reset")
  /\ UNCHANGED <<machine, media, faults>>
  /\ TestSame

TestReset ==
  /\ test.at = "reset"
  /\ BootMachine
  /\ TestGoto("over")
  /\ UNCHANGED <<media, faults>>
  /\ TestSame

TestEject ==
  /\ test.at = "eject"
  /\ media' = [media EXCEPT ![test.slot] = None]
  /\ TestGoto("over")
  /\ UNCHANGED <<machine, override, rearmed, faults>>
  /\ TestSame

TestFails ==
  /\ Testing
  /\ Fault
  /\ TestGoto("over")
  /\ UNCHANGED <<machine, media, override, rearmed>>
  /\ TestSame

-----------------------------------------------------------------------------
(* The node.  The installer asks for its answer, and gets it as long as    *)
(* the Device awaits an install; then the disk is wiped.                   *)
AskAnswer ==
  /\ machine.phase = "installer"
  /\ IF device.state = "awaiting_install"
       THEN machine' = [machine EXCEPT !.phase = "writing"] /\ disk' = None
       ELSE machine' = [machine EXCEPT !.phase = "stuck"] /\ UNCHANGED disk
  /\ UNCHANGED <<media, override, vm, run, faults>>
  /\ ReportsSame

(* The ISO is read through the whole install. *)
HasIso == IF method = "redfish-vmedia" THEN Inserted(machine.of) ELSE vm.iso

(* An install takes minutes; from the mount to the reset a run takes       *)
(* seconds.                                                                *)
Delivering == \E r \in Runs : run[r].at \in MediaSteps

Install ==
  /\ machine.phase = "writing"
  /\ ~Delivering
  /\ \/ HasIso /\ disk' = machine.of /\ machine' = [machine EXCEPT !.phase = "written"] /\ UNCHANGED faults
     \/ ~HasIso /\ machine' = [machine EXCEPT !.phase = "stuck"] /\ UNCHANGED <<disk, faults>>
     \/ machine' \in {[machine EXCEPT !.phase = "stuck"], PoweredOff} /\ UNCHANGED disk /\ Fault
  /\ rearmed' = [rearmed EXCEPT !.disk = rearmed.boot]
  /\ UNCHANGED <<media, override, vm, run>>
  /\ SotSame

(* An install that reports while a later run is active. *)
Overtaken(m) == \E r \in Runs : Active(r) /\ m # r
(* the post-installation webhook, which may be lost *)
Webhook ==
  /\ machine.phase = "written"
  /\ Quiet => ~Overtaken(machine.of)
  /\ \/ device' = [device EXCEPT !.state = "bm_installed"] /\ UNCHANGED faults
     \/ UNCHANGED device /\ Fault
  /\ IF method = "redfish-vmedia"
       THEN BootMachine
       ELSE machine' = PoweredOff /\ UNCHANGED <<override, rearmed>>
  /\ UNCHANGED <<method, stored, disk, media, vm, phoned, run, test, arms>>

(* The installed system phones home: token files, Secrets, then the        *)
(* Device; a request that is under way does not need the system any more.  *)
PhoneHome(m) ==
  /\ m \notin phoned
  /\ m = Old \/ (disk = m /\ machine.phase = "disk")
  /\ Quiet => ~Overtaken(m)
  /\ phoned' = phoned \union {m}
  /\ \/ /\ stored' = m
        /\ device' = [state |-> "bm_installed", group |-> TRUE]
        /\ run' = [r \in Runs |-> [run[r] EXCEPT !.fresh = @ \/ Active(r)]]
        /\ UNCHANGED faults
     \/ UNCHANGED <<stored, device, run>> /\ Fault
  /\ NodeSame
  /\ UNCHANGED <<method, rearmed, test, arms>>

(* a power glitch, a watchdog, somebody at the console *)
SpuriousReset ==
  /\ machine.phase # "off"
  /\ Fault
  /\ IF method = "redfish-vmedia" THEN BootMachine ELSE BootVm /\ UNCHANGED <<override, rearmed>>
  /\ UNCHANGED <<disk, media, vm, run>>
  /\ SotSame

(* The operator asks for a reinstall, between runs. *)
OperatorArms ==
  /\ device.state = "bm_installed"
  /\ arms < MaxArms
  /\ \A r \in Runs : ~Active(r)
  /\ arms' = arms + 1
  /\ device' = [device EXCEPT !.state = "awaiting_install"]
  /\ NodeSame
  /\ UNCHANGED <<method, stored, phoned, rearmed, run, test, faults>>

Next ==
  \/ \E r \in Runs :
       \/ Start(r)
       \/ Mount(r) \/ AwaitInserted(r) \/ ArmCdBoot(r) \/ ResetNode(r)
       \/ Reconcile(r) \/ CreateVm(r) \/ StartVm(r) \/ SaveVmid(r)
       \/ AwaitPoweroff(r) \/ AwaitFlip(r) \/ DetachIso(r) \/ RestartVm(r)
       \/ Poll(r) \/ WatchEnds(r) \/ RunFails(r)
  \/ TestMount \/ TestInserted \/ TestArm \/ TestReset \/ TestEject \/ TestFails
  \/ AskAnswer \/ Install \/ Webhook
  \/ \E m \in Installs : PhoneHome(m)
  \/ SpuriousReset
  \/ OperatorArms

Spec == Init /\ [][Next]_vars

-----------------------------------------------------------------------------
JobTypeOK ==
  /\ device \in Device
  /\ stored \in Installs \union {None}
  /\ machine \in [phase : Phases, of : Installs \union {None, Test}]
  /\ disk \in Installs \union {None}
  /\ media \in [Slots -> Installs \union {None, Test}]
  /\ override \in Runs \union {None, Test}
  /\ vm \in [of : Installs \union {None}, iso : BOOLEAN]
  /\ phoned \subseteq Installs
  /\ rearmed \in [boot : BOOLEAN, disk : BOOLEAN]
  /\ run \in [Runs -> Run]
  /\ test \in MediaTest
  /\ \A r \in Runs : run[r].mounted => run[r].slot # None
  /\ arms \in 0..MaxArms
  /\ faults \in 0..MaxFaults

(* "demand a fresh phone-home instead of trusting the stale value (F42)"   *)
(* (install_node.py): a run that reports the node installed and its token  *)
(* stored is right: the install it booted is on the disk, and the Secrets  *)
(* lead to the token of that install, not to that of the one before.       *)
ReportIsTrue ==
  [][\A r \in Runs : ~At(r, "done") /\ run'[r].at = "done" => disk = r /\ stored = r]_vars

(* "once the webhook has confirmed the install, the mounted installer      *)
(* media is spent" (install_node.py, _eject_vmedia): a medium that an      *)
(* installer reads stays in its slot, whatever a run sees, a media test    *)
(* ejects or mounts, and earlier runs have left behind.  The exception is  *)
(* the code's: with every slot taken, a later run mounts over the first    *)
(* one (ext[0], redfish_discovery.py), which may be an installer's whose   *)
(* watch window is over; the later run then resets the node anyway.        *)
MountsOver(r) == Mount(r) /\ machine.of # r /\ \A s \in Slots : media[s] # None

InstallerKeepsMedium ==
  [][\A s \in Slots : media[s] \notin {None, media'[s]} =>
       \/ ~(machine.phase \in {"installer", "writing"} /\ machine.of = media[s])
       \/ \E r \in Runs : MountsOver(r)]_vars

(* "Power-off alone is not success" (install_node.py): a nested VM is made *)
(* to boot from its disk only when this run's install is on it.            *)
DiskBootProven ==
  [][\A r \in Runs : DetachIso(r) => disk = r]_vars

(* The boot from Cd is one-time: the reboot that ends an install, or any   *)
(* other reset, does not wipe what the same medium has installed, even     *)
(* while the Device still awaits its webhook; only a boot from Cd that has *)
(* been armed since the installer booted that wrote the disk does.         *)
WipesOnce ==
  [][method = "redfish-vmedia" /\ AskAnswer /\ machine'.phase = "writing" =>
       disk # machine.of \/ rearmed.disk]_vars
=============================================================================

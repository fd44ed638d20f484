# Verification of nautobot-proxmox

TLA+ models of the parts of this repository that act on the outside world:
the answer service that installs bare-metal Proxmox nodes, the Nautobot jobs
that install, configure and use them, and the shell code that runs on the
nodes. TLC checks the models on small instances; TLAPS proves, for every
instance, the safety of all of them: the key store and the install loop built on
it, the install job, the RAID layout, the media forge, the Host Baseline, the
network apply and the network model it applies, the VNF jobs and the image
pipeline. Paths are relative to the repository's root
(`src/` here); line numbers are of the modelled commit. `PROJECT.json` lists the
components, the runs with their properties, a mutation for each property, the
lines each definition stands for, the hazards and the theorems.

Contents: 1 the system, 2 the modules, 3 the runs, 4 assumptions, 5 where code
and documentation disagree, 6 proofs, 7 what is not modelled, 8 plan.

## 1. The system

Nautobot is the source of truth (SoT). A bare-metal node is a Device with the
custom fields `provisioning_state` and `secrets_group`; a VNF is a Device with a
status and a `vmid`. Everything else reads these records, acts on hardware,
hypervisors or nodes, and writes the outcome back. There is no transaction that
spans two of them, no lock between jobs, and no queue: what keeps the system
right is the order of the calls and what each actor checks again.

| Part | State it keeps | Operations | Talks to |
| --- | --- | --- | --- |
| One-time keys (`bmc/answer_service/app.py` 212-278) | `issued-keys.json`, replaced as a whole under a lock | `issue_key`, `peek_key`, `consume_key` | the endpoints |
| Install endpoints (`app.py` 773-1151) | token files on a volume; Secrets, SecretsGroup and the Device in Nautobot | `/answer`, `/firstboot`, `/firstboot-credentials`, `/webhook`, each on a thread of a pool | the installer, the firstboot script, Nautobot |
| Firstboot script (`templates/firstboot.sh.j2`) | the API token of the node; the package that runs it at each boot until it completes | rotate the token, phone home up to ten times, finish | `/firstboot-credentials` |
| Media forge (`app.py` 1164-1442, `jobs/baremetal/prepare_media.py`) | the ISO cache, the publish directory, SoftwareVersion and ImageFile records | one thread per prepare task | a mirror, the prepare tool, Nautobot |
| Install Node job (`jobs/baremetal/install_node.py`, `jobs/lib/install_delivery.py`, `redfish_discovery.py`) | the BMC's virtual media and boot override, or a nested VM; the Device | mount, boot, watch, eject; create VM, wait, detach | BMC or carrier, and through the Device the answer service |
| RAID layout (`jobs/lib/storage_layout.py`, `apply_storage_layout.py`) | the adapter's virtual drives | plan (pure), create, wait, check the boot volume | the BMC |
| Network model and install NIC (`jobs/lib/host_baseline.py` 503-964, `app.py` 416-539) | none: operators over the record of a node's interfaces | derive the install port (twice: answer service and baseline), accept or refuse a record, match it to the NICs, render | the answer file; the network apply |
| Host Baseline job (`jobs/baremetal/host_baseline.py`, `jobs/lib/host_baseline.py`, `host_baseline_applier.sh`) | the node's snmpd, AD realm, service accounts and network; token Secrets; the Device | observe, plan, one payload per step, network apply with a rollback timer | the node over SSH and its API, Nautobot |
| Deploy and Decommission (`jobs/proxmox/`, `jobs/lib/proxmox_client.py`) | VMs and bootstrap ISOs on a hypervisor; status and `vmid` of the Device | the calls of the two jobs, and the rollback of a deploy | the Proxmox API |
| Images (`jobs/design/register_image.py`, `jobs/lib/published_set.py`, `jobs/proxmox/ingest_image.py`, `ensure_image`) | SoftwareVersion and SoftwareImageFile records; volumes that a node keeps by file name | check and register a published set, promote, pull, import | the firmware server, Nautobot, the Proxmox API |
| Discovery (`jobs/baremetal/discover_platform.py`) | a report; in the opt-in media test a BMC slot and a one-time boot | read the inventory; mount a test ISO, boot it, eject | the BMC that an install uses |
| Verification, schema bootstrap, contexts, preflight | Nautobot records | sequential, idempotent or read-only | node, Nautobot |

How they interact: the operator sets `awaiting_install`; the Install Node job
checks that and boots installer media made by the forge; the installer asks
`/answer`, which refuses a Device in any other state; its answer carries two
keys, for the firstboot script and for the webhook, and the script carries a
third, for the phone-home. The webhook and the phone-home move the Device to
`bm_installed` and store the node's token; the job watches the Device for both
and ejects the medium. The Host Baseline job then configures the node and moves
the Device to `baseline_done`, and the Deploy job uses the stored token.

What is hard about it, per part, and what makes it correct:

* **Keys.** The file is read and rewritten whole, so a write from an older copy
  would bring back a consumed key or lose a new one; the container may restart
  between the two. A key is peeked at the start of a handler and consumed at its
  end, over seconds of Nautobot calls. *Correct*: a consumed key is never
  accepted again; a key that is owed to a machine survives; a key is spent only
  after its effect is durable.
* **Install loop.** Handlers use the Device they read at the start; replies are
  lost; the client's 30 s timeout starts a second attempt while the first runs;
  the webhook is best effort; other jobs save their own copy of the Device.
  *Correct*: a completed node can be reached with what is stored; an install is
  confirmed only if it happened; the gate that lets an installed disk be wiped
  opens by the operator alone, and closes by itself.
* **Forge.** Threads share a download file, a cache and names, with no lock; a
  collision check comes minutes before the publication it protects. *Correct*:
  media come from verified ISOs; a record's checksum is of the published file.
* **Install job.** It sees the node through the Device only, and the Device may
  still show the previous install. Boot override and media outlive a run.
  *Correct*: a success is this install's; media are not pulled from under an
  installer; a disk is not wiped twice.
* **RAID layout.** An adapter enumerates late, takes requests that take effect
  later, and holds volumes someone made by hand. *Correct*: the boot volume is
  the small one, made of good drives; a repeated run has nothing to do; the
  installer never meets the data volume.
* **Host Baseline.** A run may die anywhere and is repeated; a token's value is
  shown once; payloads go on after a failed command; PVE drops a token's ACLs
  with it. *Correct*: a run that comes through leaves what the SoT says, and
  Secrets with the node's own token.
* **Network apply.** The file is replaced over the network it configures; a
  timer undoes it unless the job reconnects in time. *Correct*: a node that
  cannot be reached always has something pending that brings it back, and a
  reported success is not undone.
* **Network model.** The answer service installs over a port that it derives
  from the record; the Host Baseline, months later, accepts and renders the same
  record by rules of its own, on a node whose bonds now show one MAC for all
  members. *Correct*: management stays on the cable that carried the install; a
  re-run plans what the first run planned.
* **Images.** A node keeps a file by its name and never hashes it again, while a
  publisher may replace a set and another registration may use the name.
  *Correct*: what a VM boots is what its version had when it was promoted.
* **Discovery's media test.** It writes to a BMC from which an install may be
  running. *Correct*: it takes no medium away and boots nothing at the wrong
  moment.
* **VNF jobs.** `nextid` reserves nothing; names are checked once; tasks go on
  when the job loses contact; a rollback destroys by vmid. *Correct*: nobody
  destroys what is not its own; one VM per device; Planned means gone.

## 2. The modules

| Module | Code | Extends or implements |
| --- | --- | --- |
| `OneTimeKeys` | what the service promises about keys | abstract specification |
| `KeyStore` | `_load_keys`, `_save_keys`, `issue_key`, `peek_key`, `consume_key` | implements `OneTimeKeys` (`KeepsPromise`) |
| `AnswerService` | the four handlers | `KeyStore` |
| `InstallLoop` | installer, firstboot script, operator, the saves of Host Baseline and of the Install Node job | `AnswerService` |
| `InstallLoop_proofs` | | theorems about `KeyStore`, and about `InstallLoop` |
| `MediaForge` | `_prepare_task`, `_download_iso`, `_register_prepared` | |
| `MediaForge_proofs` | | theorems about `MediaForge` |
| `InstallJob` | `InstallNode.run`, the two deliveries, the watch; discovery's media test | |
| `InstallJob_proofs` | | theorems about `InstallJob` |
| `StorageLayout` | `plan_volumes` and its helpers, as operators | |
| `StorageApply` | `apply_storage_layout` against an adapter | `StorageLayout` |
| `StorageApply_proofs` | | theorems about `StorageApply`, and about the planner |
| `HostBaseline` | `HostBaseline.run`, the plans, the applier's SNMP, realm and account steps | |
| `HostBaseline_proofs` | | theorems about `HostBaseline` |
| `NetworkApply` | the network step: applier, timer, job, reboot of the node | |
| `NetworkModel` | `derive_install_interface` (both), `build_network_model`, `match_ports`, `render_interfaces`, as operators | |
| `HostNetwork` | `_gates`, `_plan`, `_network` of the baseline: from the record to the apply | `NetworkModel`, `NetworkApply`; implements `NetworkApply` (`PlanImplementsApply`) |
| `HostNetwork_proofs` | | theorems about `NetworkApply`, `HostNetwork` and what a render of `NetworkModel` carries |
| `VnfLifecycle` | `DeployVnfDevice.run`, its rollback, `DecommissionVnfDevice.run` | |
| `VnfLifecycle_proofs` | | theorems about `VnfLifecycle` |
| `ImagePipeline` | `RegisterImage.run` with `published_set.py`, promotion, `ensure_image`, the import of a deploy | |
| `ImagePipeline_proofs` | | theorems about `ImagePipeline` |
| `MC*` | instances for TLC: symmetry sets and constants | the module of that name; `MCNetworkApply` of `HostNetwork`, `MCDeploy` of `VnfLifecycle` beside `ImagePipeline`, `MCKeysForge` of `KeyStore` beside `MediaForge` |

Conventions. One action is one access to shared state (a file, an API call, a
command on the node) with the control flow up to the next; local computation is
inside it. A run of a job, or a request, is a record with its position `at` and
the local variables that outlive a step, above all *copies*: the Device or the
plan as it was read. `Fault` counts against `MaxFaults`; a counter without a
counterpart in the code is called a bound where it is declared, a variable
without one is called history. Operators that follow a comment `mutant:` are not
part of the specification: they are mutated forms of the definition after them,
kept so that each property can be seen to fail when the code is wrong.

**KeyStore.** `store` is the file, `lock` and `loaded` the critical section:
reading and replacing are two steps, so that the lock matters. `Elapse` is a
TTL. `ReadFaults` lets `_load_keys` yield `{}`, as it does on any exception.

**AnswerService.** `req[t]` is the request of thread `t`; the steps are named
`ans_`, `fb_`, `cr_`, `wh_` for the four endpoints. `device` is the Device (state,
and whether `secrets_group` is set), `vault` the token files and the records.
Every handler ends in `replied`, with the reply still in the thread.

**InstallLoop.** `node` is what a machine is doing, `disk` what is installed on
it and how far its firstboot script is; the script is run again at each boot
until its last line. A script that gives up leaves the node standing (`ScriptFails`),
until somebody starts it (`PowerOn`). Two jobs save the Device they loaded, with
all its custom fields: `StartBaseline`/`EndBaseline`, and, for the machines in
`Nested`, `StartNested`, `RecreateVm` and `SaveVmid`, which are what the loop sees
of an Install Node job that makes a nested VM anew.

**VnfLifecycle.** A VM is known by vmid and by the name it *shows* (a VM being
created may not show one yet). Node tasks (`CreateEnds`, `DestroyEnds`) end by
themselves, whether the job still waits or not. `RollbackDecision` is
`rollback_vm_decision`: absent, foreign, or mine by name.

**NetworkApply.** Contents of the file are model values, of which some keep the
node reachable. Three actors on the node (applier, timer's service, job), with a
step for each command whose failure the code handles or ignores. `ifreload` takes
ifupdown2's lock without waiting for it: an applier's reload that is locked out
fails, which the applier sees, and a timer's fails unseen. `Reboot` is a
fault: it stops what runs, forgets the transient timers and boots whatever the
file holds.

**NetworkModel.** A record is `ifs` (interfaces by id, with LAG, bridge, MAC,
MTU, mode and the flag of the primary member) and the facts of the node. The
job lists every problem and refuses if there is one: `Accepted` is the
conjunction of the parts. Names, VLAN ids and the text of the file are left out;
what is kept of a render is which NIC is below which bond or bridge, and which
one a bond prefers. The two derivations of the install port are line for line
twins in the code, so that they are one operator, `InstallPort`, mapped to the
answer service's lines.

**HostNetwork.** The first run reads the record `sot`, observes `node` (its NICs,
those in a bond, the cable that carried the install), and refuses or hands a
render to `NetworkApply`. Of the render the apply keeps whether the node answers
under it, which is whether the wired NIC is below the management bridge. Then
the record is forgotten: a later run's may have been edited into any other, so
that it is free to render anything.

**ImagePipeline.** A checksum is the content it belongs to, a URL its file name.
`served` has the three files of each published set, which the publisher replaces
one by one; a registration reads them one by one. `cached` is the volume on the
node's import storage. `MCDeploy` puts the pipeline beside `VnfLifecycle`: the
two share no state (an image that is refused ends a deploy before its first
effect), so a behaviour of both is a shuffle of one of each, and the instance
lets one of the two move at a time.

**MediaForge.** Files are inodes behind names, because a thread goes on writing
to an inode that another thread has renamed or truncated. Of two copies onto one
published name, the last to end may have written every byte, or the two are mixed
(`Torn`).

**StorageLayout / StorageApply.** The planner is a pure operator over what a run
has read: keep by name, adopt by role, or create from free drives, else refuse.
`Planned(view)[n]` is what is decided after the first `n` entries of the layout.
`StorageApply` reads drives and volumes in two steps from an adapter that
enumerates in its own time, and carries out the plan one request at a time;
`left` has the positions of the plan's creations that are still to be made. An
adapter lists all drives and VDs at once, of which some may have no capacity yet,
or is `piecemeal`: then some drives, or the VDs, may be missing.

**InstallJob.** An install is named by the run that booted it. `copy` is the
Device as the run loaded it, written back whole by `SaveVmid`. Virtual media and
nested VM are the two chains of steps to the common watch. `test` is the media
test of the discovery job on the same BMC: it mounts in a free slot, rehearses a
boot if it is asked to, and ejects.

**HostBaseline.** `sot` may change between runs; `snmp` has the file, what
snmpd has loaded, the v3 user and its fingerprint; token values are named by the
run that made them. `PlanFor` is `plan_realm`, `plan_service_accounts` and
`plan_acl_changes` together. `bad` is a payload's failed command, which ends the
run only at the payload's end.

## 3. The runs

Eight runs pass and four expect a violation, two workers each; the slowest takes two to
three minutes.

| Run | States | Shows |
| --- | --- | --- |
| `keys_forge` | 49 k | Two threads, two machines, three keys, read faults, TTLs, restarts: `KeyIInv` (types, `SpentNeverReturns`, and what makes them inductive) and that the store implements `OneTimeKeys`. Beside them three prepare tasks, two versions, two faults, with `OneDownload` and `OnePerVersion`: `MediaFromVerified`, `RecordMatchesFile`. |
| `loop_install` | 1.9 M | One machine with two threads installs and is installed anew, with a fault, two boots, the baseline job, and the Install Node job that makes the machine anew as a nested VM and saves the Device it loaded: `NamedGroupExists`, `InstalledIsProven`, `CompleteMeansStored`, `InstalledStaysClosed`. |
| `loop_live` | 104 k | One install with three faults (a webhook and every attempt of the script may fail) and TTLs: `KeyLossInv`, `SpentAfterEffect`, `CompleteMeansStored`, and under fairness `GateCloses`. |
| `loop_stale` | violation | `StoredGroupStays`: see 5.1. |
| `vnf_careful` | 955 k | Two workers, two devices (one with a bootstrap ISO), two vmids, three faults, with `OneJob`, `TasksOver` and `Prompt`: `ForeignUntouched`, `OneVmPerDevice`, `PlannedMeansGone`, `NoSilentLeak`. Beside them two files, two contents, two versions, two runs and one republished file: `DeploysAsPromoted`. |
| `vnf_overlap` | violation | `RollbackSparesActive` without `OneJob`: see 5.2. |
| `net_apply` | 301 k | 3328 records and six states of the node's NICs, then two runs, three faults (a reboot among them), a good and a bad render, with `InWindow` and `Quick`: `InstallCableKept`, `BondsDoNotConfuse`, `NeverStranded`, `DoneIsKept`, and under fairness `ComesBack`. |
| `net_rerun` | violation | `RerunConverges`: see 5.3. |
| `storage` | 192 k | Six drives in seven size patterns, bad drives, hand-made mirrors in each order and an earlier run's, late and piecemeal enumeration, two runs, two faults: `BuiltOfGood`, `RolesApart`, `InstallsOnBoot`, `RerunKeeps`, `ListingOrderBlind`. |
| `job_install` | 465 k | Two runs, both deliveries, two slots, a media test, an old install, one re-arm, two faults, with `Quiet` and `Lab`: `ReportIsTrue`, `InstallerKeepsMedium`, `DiskBootProven`, `WipesOnce`. |
| `baseline` | 2.6 M | Three runs, one edit, two faults: `TokenIsStored`, `LeastPrivilege`, `ServesSot`. |
| `baseline_print` | violation | Two edits, one fault, `UserRecreated`: see 5.4. |

Why the bounds are enough. The hazards are about *pairs*: two threads on one
file, two attempts of one phone-home, a run and its predecessor, an applier and a
timer. Two threads, two runs or two workers give every such pair, with an
independent third where a repair is at stake (`baseline`: one run that breaks,
one after it, one after an edit; the forge: two tasks on one version and one on
another). `MaxKeys = 6` is two installs with three keys each, so that an
overlapping attempt of the first install meets the second. `Attempts = 2`
stands for ten: what matters is a retry after an attempt that was stored, and
a last attempt that fails; `loop_live` has a fault for each of the two and one for
the webhook. `loop_install` has one fault and makes its machine a nested VM: what a
physical one does is among it, but that a nested VM does not start on its own, which
`loop_live` has. Two or three faults allow one to create a bad
situation and another to hit its repair. The layout of `storage` is the
real one, two mirrors (`bmc/profiles/thinkedge-se455-v3.yaml`), on six drives, so that
an entry has drives to choose from and a bad one can be left out; a piecemeal
adapter has four good ones at most (5.10 says why). The records of `net_apply`
are three layouts (a management bridge over a failover bond; over a port, with a
data bond aside; over two ports), each with every pair of edits of one field:
every refusal of `build_network_model` happens, and so do 2647 pairs of a record
that is accepted and a node that it matches, among them 424 whose install port
cannot be derived. `DeploysAsPromoted` needs two versions that meet on one name,
and one file that changes under a registration or a pull: `MaxUploads = 1` with a
set that is whole or absent at the start. Symmetry is used only for threads,
workers, vmids, tasks, job runs, files, contents and versions, which no
definition tells apart. Deadlock is checked in `keys_forge` and in the `vnf_*` runs; the others end when their bounds are
used up or every job is over, and say `CHECK_DEADLOCK FALSE`.

Fairness. `InstallLoop!Fairness`: strong fairness of a thread's next step
(a thread of the pool is not starved; a step that needs the key lock is enabled
again and again), weak fairness of dropping a reply nobody waits for and of a
machine's own next step. Nothing makes an operator arm, a job start, anybody
boot a machine that is off or a fault happen. A booted machine runs its script
because systemd does (`proxmox-first-boot`), and goes on until it completes or
gives up; one that gave up, or lost power, stands as it is, which `GateCloses`
names as the one way for the gate to stay open.
`NetworkApply!Fairness`: weak fairness of the applier's process, of the timer
and its service (systemd on the node), and of a job that has started. A worker
that dies is a fault; the timer does not need it, which is the point of
`ComesBack`.

## 4. Assumptions

Each is a constant or a named operator, so that it can be switched off; section 5
says what fails then. Several say who starts what and when, which nothing in the
code enforces: a property that needs one says what is right *under* it, and section 5 what goes wrong
without.

| Name | In | What it says, and why |
| --- | --- | --- |
| `ReadFaults = FALSE` | `loop_*` | The key file can be read. An unreadable file is taken for an empty one, and the next `issue_key` makes that durable: keys that are owed are lost. Safety is checked and proved with read faults on. |
| `TtlPasses` | `keys_forge`, `loop_live` | A key's lifetime may run out. It ends an install, as it should. |
| `Settled` | `InstallLoop` | A machine that reboots does so after the part of its earlier phone-home that precedes the token files is over (one Nautobot read, 30 s at most). Otherwise the older token's files may be written over the newer's. |
| `OneJob` | `VnfLifecycle` | A job on a Device starts only when none of its jobs is running. Nothing in the code enforces it; `vnf_overlap` is without it. |
| `TasksOver` | `VnfLifecycle` | ... and only when the node's tasks on the Device's VMs have ended, those of a run that died or lost contact too. Nothing in the code enforces it; 5.6 is without it. |
| `Prompt` | `VnfLifecycle` | A vmid is not taken anew between a run's look at its VM and the stop and destroy calls right after it. Likely, not certain; 5.5 is without it. |
| `OneDownload` | `MediaForge` | A download begins only when no other one is under way. Nothing in the code enforces it; 5.8 is without it. |
| `OnePerVersion` | `MediaForge` | A task starts only when no other one of its version is running. Nothing in the code enforces it; 5.9 is without it. |
| `InWindow` | `NetworkApply` | A reload is over before the timer of its run fires: the window is 60 seconds at least. |
| `Quick` | `NetworkApply` | A reload is over before its job reconnects, and an applier before another run's starts. The job waits for a third of the window, and does not look; 5.7 is without it. |
| `botched` | `NetworkApply` | History: a *restoring* command failed, or the node rebooted while an apply was half-way. `cp` and `ifreload` of the restore are not looked at, and a reboot forgets the transient timer, so the promise cannot survive either. |
| `Forgotten` | `HostNetwork` | The record of a later run is any record: what the apply keeps of it is free. |
| `HostNetworkAssumption` | `HostNetwork` | LAG and bridge fields name interfaces of the node; NICs have MACs; no NIC has a bond's Linux name (`bond<N>` is demanded of every bond, and the kernel names no NIC so). |
| `Alone` | `ImagePipeline` | One registration at a time. Nothing in the code enforces it. |
| `Lab` | `InstallJob` | No run is active, and no installer booted or armed to boot, when a media test runs: the option's help says "Lab units only". |
| `Delivering` | `InstallJob` | An installer that boots is not over before the run has finished its steps from mounting to the reset. |
| `Quiet` | `InstallJob` | No call of an earlier install is still to come while a later run is active. Nothing in the code enforces it. |
| `rearmed` | `InstallJob` | History: whether a boot from Cd has been armed since the machine's last reset, and since the reset that booted the installer of what is on the disk. Only then may the medium that wrote the disk wipe it (`WipesOnce`). |
| `Partial` | `StorageApply` | Which drives may be enumerated, or report a capacity, before the others: a bound on the instance. |
| `AdaptersAssumption` | `StorageApply` | What an adapter holds at the start: capacities, VDs that share no drive and no target; a VD with a name of the layout is one that an earlier run has built (of good drives of one size, and one of each name). |
| `Whole` | `StorageApply_proofs` | No adapter is piecemeal: it lists all drives and VDs once it lists any. |
| `NewUnits` | `StorageApply_proofs` | No adapter is piecemeal, and none has a VD at the start. |
| `TwoRoles` | `StorageApply_proofs` | The layout is that of the profile of the SE455 V3: two entries, the smallest drives and then the largest. |
| `OneAtATime` | `StorageApply_proofs` | One run at a time, and none reads the drives while a create request is outstanding. Nothing in the code enforces it; `storage` checks `RerunKeeps` without it. |
| `Alone` | `HostBaseline` | One run of the job per node at a time. Nothing in the code enforces it. |
| `torn` | `HostBaseline` | History: the run found snmpd running with a file older than the one on disk. |
| `misprinted` | `HostBaseline` | History: the run found the fingerprint it wants beside a v3 user with other Secrets (5.4). |

External code (the installer, pveum, systemd, ifupdown2, an XCC's media and
boot override, the RAID adapter, the Proxmox API) is modelled as far as the
code in the repository relies on it, and marked `external` in `PROJECT.json`.

## 5. Where code and documentation disagree

5.1 to 5.4 are runs that expect a violation, with TLC's trace as the evidence. The
others follow from switching an assumption off in a passing run: with the constant
that is named set to the value that is named in that run's `.cfg`, TLC finds the
property violated.

**5.1 A stored group is dropped** (`loop_stale`). `_webhook_impl` and the Host
Baseline job write back *all* custom fields as they read them. A webhook handler
that reads the Device before a phone-home PATCHes it, and writes after, erases
`secrets_group`; the phone-home's key has been spent by then ("Everything
durable — only now is the one-time key spent", `app.py:1092`), so no retry sets
it again.

**5.2 A rollback destroys an Active VM** (`vnf_overlap`). Two deploys of one
device both pass the name check and get one vmid from `/cluster/nextid`. The
loser's create fails; its rollback finds the device's name on that vmid and
destroys the winner's VM. `rollback_vm_decision` says "a name match here is this
run's VM" (`proxmox_client.py:116`).

**5.3 A re-run does not converge** (`net_rerun`). A run dies after the apply
and before it cancels the timer. The re-run finds the file in sync, reports
success and cancels nothing; then the timer restores the previous file. The
documentation says "Re-run any time: it converges" (`docs/baremetal-install.md:500`).

**5.4 An SNMPv3 user is kept with other Secrets** (`baseline_print`). The
applier creates the user with the new passphrases (`host_baseline_applier.sh`
351-358) and writes their fingerprint after that (359), without removing the old
one first and without looking at whether the write worked. A run that ends
between the two, or cannot write, leaves a user of the new Secrets under the
fingerprint of the old ones. If the Secrets are then set back, the next run finds
user and fingerprint in place and keeps the user, although "A rotated Secret
changes it -> the user is re-created" (`host_baseline.py:1158`). A proof of
`ServesSot` that could not be completed showed this; TLC had passed the property
because one edit cannot set anything back. The run has two.

**5.5 A rollback destroys another device's VM** (`vnf_careful`, `Prompt = FALSE`:
`ForeignUntouched`). The rollback of a deploy lists the node's VMs, finds its device's
name on its vmid, and then stops and destroys by vmid. Its own create task, whose
reply was lost, fails in between and frees the id; another deploy is given it; and
that deploy's VM is stopped and destroyed. The comment says "Destroy only a VM that
carries this device's name" (`deploy_device.py:513`). The decommission has the same
window (`decommission_device.py:89`).

**5.6 A re-run makes a second VM** (`vnf_careful`, `TasksOver = FALSE`:
`OneVmPerDevice`). A job that dies, or loses contact in `wait_task`, leaves the node
creating a VM. Before its configuration is written it shows no name, so that the
re-run's name check finds nothing and a second VM is made; a rollback would not have
seen the first one either. The documentation says of a VM that finishes creating later
that "the re-run is refused by the name-collision check"
(`docs/baremetal-install.md:837`).

**5.7 A slow reload strands the node** (`net_apply`, `Quick = FALSE`:
`NeverStranded`). The job gives the apply `rollback / 3` seconds and then reconnects,
on the path that `ifreload` has not yet taken down. It finds no marker, cancels the
timer, and the reload then cuts the node off. "Management reachability is what the
rollback timer protects" (`docs/host-baseline.md:130`).

**5.8 Two downloads into one file** (`keys_forge`, `OneDownload = FALSE`:
`MediaFromVerified`). One task truncates the `.part` that another has verified and not
yet renamed: half a download gets into the cache, and a medium is prepared from it,
although it is "SHA256SUMS-verified" (`prepare_media.py:56`).

**5.9 Two prepares of one version** (`keys_forge`, `OnePerVersion = FALSE`:
`RecordMatchesFile`). Both pass the collision check, minutes before either publishes;
one registers its medium, and the other copies its own over the published file,
although "a new prepare can never overwrite the artifact an existing (possibly Active)
version's checksum points at" (`app.py:1268`).

**5.10 With a further assumption off**

* `VnfLifecycle`, `OneJob = FALSE`: besides 5.2, `OneVmPerDevice`, `PlannedMeansGone`
  and `NoSilentLeak` fail, as two jobs of one device undo each other.
  `TasksOver = FALSE`: besides 5.6, `PlannedMeansGone` fails, as the VM that an earlier
  run's task is still making is not the one that the decommission removes.
  (`NoSilentLeak` does not need it, and is proved without.)
* `NetworkApply`, `Quick = FALSE`: besides 5.7, a run can report its render in place
  while the applier that it lost restores the previous file: `DoneIsKept` fails.
  `InWindow = FALSE`: a timer that fires during a reload copies the file back, its own
  reload is refused and nobody notices, and the node is left on what it was reloading:
  `NeverStranded` fails. (`DoneIsKept` holds in the instance without `InWindow`; its
  theorem has both.)
* `InstallJob`, `Quiet = FALSE`: a late webhook or phone-home of the previous
  install satisfies the watch of the new one: `ReportIsTrue` and
  `InstallerKeepsMedium` fail, although the job demands "a fresh phone-home" (F42).
* `InstallJob`, `Lab = FALSE`: a media test beside a run takes the installer's medium:
  `InstallerKeepsMedium` fails.
* `HostBaseline`, `Alone = FALSE`: two overlapping runs rotate one token, and
  the files of the earlier token are written last: `TokenIsStored` fails (as do
  `LeastPrivilege` and `ServesSot`).
* `HostBaseline`, without `torn`: a run ends after `snmpd.conf` was written and
  before the restart (`nfv_step_snmp`, 306-375). The next run finds the file in
  sync and never restarts snmpd: `ServesSot` fails, although "every step is
  idempotent — re-run" (`docs/baremetal-install.md:865`).
* `StorageApply`, with a piecemeal adapter that has drives to spare: a run plans for
  the part it sees. Boot is created on two drives that the data volume should have
  had, or an adopted VD has, in the full listing, free drives that tie with it or are
  preferred to it: `RolesApart`, `InstallsOnBoot` and `RerunKeeps` fail. The code refuses drives
  without a capacity for this reason ("Sizing them as 0 would make large drives
  the \"smallest\" pair", `docs/baremetal-install.md:804`), but not a listing that
  is not complete: nothing says how many drives there should be. `controller_ready`
  waits for a `drive_count`, not for all of them. `BuiltOfGood` is proved with this
  too, and so is `ListingOrderBlind`.
* `StorageApply`, with hand-made mirrors of unequal drives, of 1 and 3, and of 2 and 4, beside
  one of 7 and 7 and two free drives of 9: the smallest two are in different mirrors, so
  boot is created on the 9s while the 7s are adopted for data; when that VD is deleted by
  hand, data is built anew on the 7s. `RolesApart` fails, although "boot is always the smaller
  pair" (`storage_layout.py`). On a unit that starts without VDs it is proved.
* `ImagePipeline`, `Alone = FALSE`: two registrations of one name for different
  versions both pass the clash check, and the name means two contents:
  `DeploysAsPromoted` fails, although "filenames must be unique per content"
  (`register_image.py`).

**5.11 Allowed by the properties, worth knowing**

* A token that was rotated but whose Secrets hold an older value is found out
  only if the worker can ask the node's API; if not, it is kept with a warning
  (`untried` in `TokenIsStored`).
* The realm is synced again when the realm or the password *changed in this run*
  or the admin group is missing. A run that dies after the change and before the
  sync leaves the sync to the node's schedule if the group exists already.
* A crash between the POST of a SoftwareVersion and that of its ImageFile leaves
  a version without an image; a retry refuses the name (`_register_prepared`).
* An upload of a bootstrap ISO that the job could not watch to its end is not
  rolled back (`iso_volid` is not set yet): `NoSilentLeak` has `leaked` for it.
* Two VDs can get one name of the layout: a create request whose reply was lost is
  still outstanding when a hand-made volume is deleted, and a new run picks the
  drives that this freed. The planner then keeps the VD that is listed last.
  `ListingOrderBlind` is about hand-made VDs, as the comment it quotes is; under a
  renumbering of the others it fails here.
* A reboot between the move of the file and the confirmation leaves the new file
  without a timer: if it cuts the node off, nothing brings it back (`botched`).
* `_network` warns that a non-dry run discards a pending `interfaces.new`
  (`host_baseline.py` 530-532), but a run that finds the file in sync does not.
* `build_network_model` accepts a management bridge without ports, or with a port
  that the install derivation refuses: the baseline never calls the derivation.
  An address on a LAG or on a port of the topology is accepted, and is not in the
  rendered file: the last loop of `build_network_model` skips both
  (`host_baseline.py:817`), although "No other address may sit on the topology"
  (`docs/sot-data-contract.md:267`). Members of a bond without an MTU may have different MTUs
  (`docs/sot-data-contract.md:265` reads stricter). An 802.3ad bond names no
  primary, so that there the install port is one of the members and not
  preferred.
* Register Image creates the SoftwareVersion before it looks at the file name: a
  refusal leaves a Staged version without an image. An image that is added to an
  Active version without a default of its own would deploy without a promotion;
  `DeploysAsPromoted` holds since the first image of a version is its default.
* The media test's rehearsal leaves its ISO mounted and says to eject it "by
  re-running the write test without this option"; that run mounts in the next
  free slot and ejects that one. With every slot taken, the test does not leave
  the BMC "in its original media state".
* A late `SaveVmid` (`install_node.py:246`) can undo what the answer service wrote
  since the run loaded the Device: the run then fails and the gate is open again,
  but it never reports a false success. `InstalledStaysClosed` allows this write, for
  a nested VM that the same run has just made and whose disk is empty, and no other.
* With every EXT slot taken, a run mounts over the first one
  (`redfish_discovery.py:483`), which may be read by the installer of an earlier run
  whose watch timed out. `InstallerKeepsMedium` exempts this mount and nothing else.
* A phone-home or a webhook of the old system that arrives after the operator has
  armed a reinstall confirms the new install: `InstalledIsProven` is about first
  installs only (`arms[s] = 1`).
* When the webhook and all ten attempts of the phone-home fail, the script exits and
  the gate stays open until somebody starts the node again (`GateCloses`).

## 6. Proofs

`InstallLoop_proofs`, first part: the key store for any threads, any serials, any `MaxKeys`, and for
`ReadFaults` and `TtlPasses` either way. The only assumption is
`KeyStoreAssumption` (the constants' types, and that `NoThread` is no thread).

* `KeyTypeCorrect`: `KeySpec => []KeyTypeOK`.
* `KeysSafe`: `KeySpec => []KeyIInv`. `SpentNeverReturns` (no consumed key is in
  the file) is not inductive: a section that holds the lock with an older copy
  could publish a consumed key. `KeyIInv` adds that the holder's copy is
  contained in the file (`SectionReadsStore`), which holds because nobody else
  writes while the lock is held, and that entries are of keys already minted
  (`EntriesMinted`), which makes the next key a new one. It has one step per
  action, and under it one per conjunct. It survives read faults, since an empty
  copy is contained in any file.
* `SpentStaysSpent`: `KeySpec => []SpentNeverReturns`, from `KeysSafe`.
* `KeysDurable`: `KeySpec => []KeyLossInv`: without read faults every minted key
  is in the file until it is spent or runs out. Here the holder's copy must be
  *equal* to the file (`SectionIsStore`).
* `StoreKeepsPromise`: `KeySpec => KeepsPromise`, the refinement of
  `OneTimeKeys`. The mapping computes a key's state from the file, the counter,
  the clock and the spent set; the initial states map to the abstract initial
  state, and each step to an abstract step or a stutter, with `KeyIInv` used to
  see that at most one key is spent and no dead key revives.

`keys_forge` checks `KeyIInv` and `KeepsPromise`, and `loop_live` checks
`KeyLossInv` where the store is used by the real handlers; the theorems say the
same for every instance.

`InstallLoop_proofs`, second part: the loop for any machines, threads, install attempts and faults, from
`KeyStoreAssumption`, `AnswerServiceAssumption` (the bounds are naturals, and
there is a machine) and `InstallLoopAssumption`. Most come from
one inductive invariant, `LoopIInv`: the types of the store (`KeyTypeOK`), of the
service (`SvcIInv`) and of the machines (`MachineIInv`). Its core is `Earned`,
which says of each request what its thread has achieved so far: a key about to be
spent has had its effect, the token files are there before the Secrets are
written, the Secrets and the group before the Device is patched, and a copy of
the Device's fields that names a group was taken when the group existed. Since
what is stored stays (`Grows`), one thread's step cannot disturb what another has
earned.

* `LoopTypeOKHolds`: types of the whole loop.
* `LoopUsesStore`: `Spec => KeySpec`. Every step of a handler, a failure or a
  restart is a step of the key store or leaves it alone, so the store's theorems
  hold inside the loop.
* `LoopKeysDurable`: `KeyLossInv` carried over in that way.
* `SpentAfterEffectHolds` and `NamedGroupExistsHolds`: the two invariants of the
  service. The second also needs that a Host Baseline job's own copy of the
  Device, which it saves minutes later, names only what was stored when it read.
* `InstalledStaysClosedHolds`: `Spec => InstalledStaysClosed`. A confirmed install is
  opened again by the operator, or by the save of a vmid (`install_node.py` 246) that a
  job loaded before, over a nested VM whose disk it has just made; late handlers and
  the baseline's save never do it. Both PATCHes and the baseline's save write a whole
  copy of the fields, and none of those is in `awaiting_install` (`StateChanges`,
  `FieldsTyped`); `MachineIInv` says that a job about to save has an empty disk before it.
* `InstalledIsProvenHolds`: `Spec => []InstalledIsProven`, from `ProvenInv`: a
  request that can still confirm an install (a webhook or a phone-home) belongs
  to a machine whose first install has written the disk, and so does a Device, or
  a job's copy of one, that shows an install confirmed. Keys need not be followed
  from answer to machine: it is enough who sends which request, and when.
* `CompleteMeansStoredHolds`: `Spec => []CompleteMeansStored`, from `StoredInv`: a
  request that can still write token files carries the token the node has, and
  `Answered` says, for each step of the phone-home that a node waits for, how much
  of what its reply promises is stored. `Settled` is used here: without it an
  earlier attempt could write an older token over a newer one.

`InstallJob_proofs`, for any runs, slots, re-arms and faults, from
`InstallJobAssumption` (runs are numbers, in the order in which they start).

* `JobTypeOKHolds`: `Spec => []JobTypeOK`; no switch is needed.
* `WipesOnceHolds`: `Spec => WipesOnce`, also with both switches off. `ArmedInv`:
  an override that waits on the BMC has been armed since the last reset and since
  the disk's installer was booted, and an installer that is up was booted by one
  armed since then. A proof attempt corrected the history variable, which used
  to say of one moment only what `rearmed` says of the two: the property is
  stronger than before.
* `ReportIsTrueHolds` and `DiskBootProvenHolds`, with `Quiet`: a run ends in
  success, or detaches the ISO of a nested VM, only when the disk and the stored
  token are of its own install. `RunInv` orders the runs and says what one has
  seen of the Device; `NodeInv` says of whose install the machine can be at each
  step; `QuietInv` joins them: what confirms an install while a run is active is
  that run's.
* `InstallerKeepsMediumHolds`, with `Quiet` and `Lab`: no step of a run, of a media test
  or of its rehearsal takes a medium out of the slot that an installer reads, by an
  eject or by a mount over it, but for the one mount that 5.11 names. `Lab` keeps a
  media test's steps and a run's apart (`LabInv`), and a confirmed install is not
  booted over (`Spent`). With either switch off TLC finds a violation (5.10).

`VnfLifecycle_proofs`, for any devices, vmids, workers and faults, from
`VnfAssumption` (types; a PAN device is a device; `NoDevice` and `NoVmid` are
none).

* `VnfTypeOKHolds`, with every switch off. `RunShape` says which steps have a
  device, a vmid, a task.
* `ForeignUntouchedHolds`, with `Prompt` only, so for overlapping jobs too: no job
  stops or destroys a VM of another device. `OwnVm`: what a run is about to stop or
  destroy is its device's, or gone. Without `Prompt` it is false (5.5).
* `OneVmPerDeviceHolds` and `PlannedMeansGoneHolds`, with `OneJob` and `TasksOver`.
  `VmInv` says what a run is sure of (`Sure`): past the name check its device has no
  VM, while it creates one that VM is the only one, once the destroy has ended it has
  none. The name check is worth something because, with the two, it never meets a VM
  of its device that does not show its name yet; 5.6 and 5.10 are what happens without.
* `NoSilentLeakHolds`, with `OneJob`: a bootstrap ISO on the storage belongs to a
  device that is Active, or that a run is working on, or that a job died over or
  reported (`IsoInv`, and `JobsInv` for what the jobs need of each other).

That the rollback spares an Active VM is not proved: with one job per device it is a
case of `ForeignUntouched`, and without, it is false (5.2).

`MediaForge_proofs`, for any tasks, versions and faults, from `ForgeAssumption`.

* `ForgeTypeOKHolds`, with every switch off.
* `MediaFromVerifiedHolds`, with `OneDownload`, and for any overlap of tasks but two
  downloads: `CacheInv`: what is cached is complete, and nobody truncates a `.part`
  under a verifier. That one download at a time is needed is 5.8.
* `RecordMatchesFileHolds`, with `OnePerVersion`, and for overlapping downloads too:
  `RecordInv`: one task per version from the check of its name to its record, so that
  the check is still true when the version is created minutes later, and the
  published file is that task's. What two tasks do is 5.9.

`HostBaseline_proofs`, for any runs, edits and faults, from `BaselineAssumption`
(runs are numbers, in the order in which they start).

* `BaselineTypeOKHolds`: `Spec => []BaselineTypeOK`, without `Alone`.
* `TokenIsStoredHolds`, `LeastPrivilegeHolds`, `ServesSotHolds`, with `Alone`: what a
  run that comes through leaves behind. One inductive invariant, `BaselineIInv`:
  types; `Ordered` (one run is active, and later runs have not begun, so that
  a run's knowledge is disturbed by its own steps only) and `NoGhostGrants` (a
  token's ACL entries go with it); and, step by step, what the active run is sure
  of: of snmpd (`SnmpSure`), of the realm (`RealmSure`), of user, token, ACL and
  Secrets (`AccountSure`). A payload that goes on after a failed command (`bad`)
  is sure of less, and ends the run at its end; this is why each conjunct has to
  be stated for the payload it is in.

`HostNetwork_proofs` has three parts. About `NetworkApply`, for any runs,
contents, reachable contents and faults, from `NetworkAssumption` (the constants'
types; the factory content is one, and reaches the node):

* `NetTypeOKHolds`: `Spec => []NetTypeOK`. The types are inductive only with
  `BackedUp` (from the arming on, a run has its backup: what a restore copies
  back is a content, not `Absent`) and `HasRead`.
* `NeverStrandedHolds`: `ASSUME Quick, InWindow PROVE Spec => []NeverStranded`. They
  give `OneAtATime`: while an applier is at work no other is, and no other job is past
  its plan; an applier that moves the file or reloads has its timer armed, and has a
  job that has not yet reconnected, or never will. The invariant `Rescued` says what the kernel runs: the file, unless
  someone is just about to load it (`Loaded`); and that a file which cuts the node off
  is going to be replaced, by the applier's own restore or by a timer whose backup
  reaches the node (`Replaced`). Without `Quick` it is false (5.7), and without
  `InWindow` too (5.10): the theorem says what the rollback timer is worth when the
  node is as fast as the window supposes, not that it always is.
* `DoneIsKeptHolds`: `ASSUME Quick, InWindow PROVE Spec => []DoneIsKept`, from `Kept`:
  what a run that is the only one so far finds and leaves (the staged file is its own,
  a run that has cancelled its timer has none that can fire, and one that ended
  well left its render).

About the record and the composition, for any records, nodes and NICs, from
`HostNetworkAssumption`:

* `PlanImplementsApply`: `HSpec => Spec`. A plan is a start or a refusal of the
  apply, every other step one of its own; so the two theorems above hold of the
  job from the record on.
* `BondsDoNotConfuseHolds`: matching and rendering depend on `LinkMac`, which is
  the same whether a bond is up or not.
* `InstallCableKeptHolds`: rests on the lemma `InstallPortCarries` about
  `NetworkModel`: if a record is accepted and matched, and the install
  port can be derived, then the NIC of that port is below the management bridge,
  directly or through a bond, and a failover bond prefers it. The chain follows
  the derivation: bridge, the port of it (one, or the flagged one), the member
  of the LAG (one, or the flagged one); `build_network_model` contributes that a
  member is a physical port with a MAC, matching that no two ports are one NIC.

`ImagePipeline_proofs`, for any files, contents, versions, runs and
republications, from `ImageAssumption` and `Alone`.

* `DeploysAsPromotedHolds`: `ImagesSpec => DeploysAsPromoted`. The inductive
  invariant is `ImagesIInv`: the records (`Records`: one content per name; a
  version with an image has a default; what a node keeps has a record; the
  default of an Active version was promoted with it), and for each run what it
  has made sure of before its next step (`Sure`: no other version has the name
  with another sum; the default is still to be had; what is pulled is a record;
  what is deployed was promoted). `Alone` is needed where a registration relies
  on a check that it made some steps earlier (`OneRegisters`).
* `ImagesTypeOKHolds`: its types.

`StorageApply_proofs`, for any drives, layout, adapters, partial listings, runs and
faults, from `LayoutAssumption`, `ApplyAssumption` and `AdaptersAssumption`.

* Induction over data. The planner goes through the layout entry by entry, and the
  library's induction takes an operator as a parameter. The proofs take sets
  instead: `Least` (a non-empty set of naturals has a least element, from
  `FS_StrictSubsetOrderingWellFounded` and `WFMin`), `Induction` (a set with 0 that
  is closed under successor is `Nat`), `UpTo` and `DownFrom` (the same for the
  numbers up to a bound). The claim at `n` becomes membership of `n` in a set.
* `ApplyTypeOKHolds`, `BuiltOfGoodHolds`: nothing further is assumed. `StorageInv`: types,
  a VD of the layout's name is of good drives of one size, and so is what is asked
  for (`AllSound`) and what a run still has to create (`RunSound`).
  A plan is sound because a creation is picked from what was free when the run
  *read*, and goodness and capacity do not change; whether those drives are still
  free is for the adapter to say.
* `ListingOrderBlindHolds`: in every state in `StorageInv`, two listings that differ in
  the targets of hand-made VDs make the planner take the same decisions, entry by
  entry: the same is claimed, the same is free, and two hand-made VDs never hit one
  pick, since VDs share no drive.
* `InstallsOnBootHolds`, with `Whole`. `BootInv`: a run that has planned either has boot
  still to create or knows which VD it is, and that one stays the best: what is added
  meanwhile has names of the layout, drives are only taken, and nothing is deleted
  while a run is at work.
* `RerunKeepsHolds`, with `Whole` and `OneAtATime`. `RerunInv`: what is left of a run's plan
  is what a run that planned *now* would create. When a VD is built, every entry of
  the next plan is decided as in the last one (`AfterBuilt`), but the built one is
  kept: `PickShrink` says that a pick is not moved when drives outside it leave the
  pool. `PlanSized` says that a plan made before every capacity was known, if it was
  not refused, is the plan with all of them known. `OneAtATime` is needed where a request whose reply was
  lost is carried out behind a later run's back: it may take other drives than that
  run would have, and what those leave free can be better than what was adopted.
* `RolesApartHolds`, with `NewUnits` and `TwoRoles`, and with overlapping runs. `RolesInv`: every
  run picks the same drives for boot, `BootDrives`, and the same for data, `DataDrives`,
  whatever it finds free. The first plan that is not refused shows that there are enough of
  both and that no other drive ties with those of boot (`Clear`): fewer are refused, and so is
  a tie. After it, what a plan reads as free lacks only drives of VDs there are (`FreeBut`),
  and an entry is created only where no VD has its name, so the drives of its role are among
  the free ones and `PickShrink` says that they are picked. A request that is carried out
  late thus builds what a later run would have.

What the switches in a theorem mean: `ASSUME OneJob, TasksOver PROVE ...` is about every
instance in which both are on. Most of them say who starts what and when, which the
code leaves to its operators; section 4 says which, and section 5 what fails with one
off. Types are proved with every switch off, except `ImagesTypeOKHolds`, which needs
`Alone`.

Model-checked only:

* `RolesApart` with hand-made VDs, which holds in the instance. It is not true of every
  layout or adapter: in a layout of three entries a later one may prefer the smallest of
  what is left, and a piecemeal adapter or hand-made mirrors of unequal drives break it (5.10).
* `InstallsOnBoot` and `RerunKeeps` with a piecemeal adapter, and `RerunKeeps` with
  overlapping runs, hold in the instance; the theorems have `Whole` and `OneAtATime`.
* `GateCloses` and `ComesBack`: liveness under fairness, and `ENABLED`, are beyond
  the prover.
* `StoredGroupStays`, `RerunConverges`, `UserRecreated` and `RollbackSparesActive` are
  what the documents say and the code does not do.

Modules that theorems are about use no `RECURSIVE`.

## 7. What is not modelled

* Contents: rendered files, answers, scripts, VM parameters, log lines. Checks
  that refuse before the first effect are one refusal per handler or job.
* Of the network model: VLAN ids, descriptions, the names of interfaces and the
  text of the rendered file. The refusals over them are single checks of a value.
* The sections of the firstboot script after the phone-home (data pool, volume,
  packages, console, ARC): they cannot stop it and touch nothing shared.
* Verification (`verify_host.py`) and discovery's report: read-only. The schema
  bootstrap: get-or-create of one record after the other, with nothing
  concurrent. The preflight, config contexts, platform facts: reads that make a
  report. PAN-OS bootstrap: builds the content of one file.
* The profiles, image build scripts and CI: data, and build steps that run once.
* What an XCC does with an inserted medium when a new one cannot be fetched.
* The dry runs, which write nothing.

## 8. Plan

Done, most important first: key store, install loop, VNF jobs, network apply,
forge, RAID layout, install job, baseline; then the network model and its
composition with the apply, the reboot, the image pipeline, the media test;
theorems about all of them.

Next, models:

1. The applier of `HostBaseline` composed with `NetworkApply`, so that the network
   step is not one action there.
2. An abstract specification of an install, *asked for, confirmed, stored*, that
   both `InstallLoop` and `InstallJob` implement.
3. An abstract specification of a convergent baseline (a node's sections, each
   old, half-way or as the SoT says) that `HostBaseline` implements.

Next, theorems:

1. `RerunKeeps` without `OneAtATime`, or the smallest instance in which it fails:
   overlapping runs leave requests of more than one of them outstanding, and the
   invariant has to say which of two picks the adapter will take.
2. `RolesApart` for layouts in which one entry takes the smallest and every other
   the largest, and for units with hand-made VDs that are not deleted.
3. `VnfLifecycle` beside `ImagePipeline` as one theorem, as `MCDeploy` composes them.
